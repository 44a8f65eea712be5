----------------------------- MODULE BondShaper -----------------------------
(***************************************************************************)
(* The packet tunnel pbz0 and the shaper on it: BondAgent                  *)
(* _ensure_packet_tunnel, _ensure_bond_shaped, _update_bond_shaper_rate    *)
(* and _apply_shaper_rate (travel/bond-agent/zippie/agent.py) with the     *)
(* controller of zippie/shaper.py.                                         *)
(*                                                                         *)
(* A control pass first makes sure of the tunnel and later applies a rate. *)
(* The qdiscs belong to the links: upload is shaped on pbz0, download on   *)
(* its ingress device.  One number stands for a rate of either direction,  *)
(* in units of which a leg carries a few; 0 is no cake, or no rate known.  *)
(***************************************************************************)
EXTENDS Integers, FiniteSets, FiniteSetsExt

CONSTANTS
    ShapedLegs,
    LegRates,        \* rx_bps and tx_bps a leg may be seen to carry
    MinRate,         \* shaper_min_download_kbit, shaper_min_upload_kbit
    UciRate,         \* the operator's rate, which sqm applies
    FractionPct,     \* shaper_capacity_fraction
    HysteresisPct    \* shaper_reapply_hysteresis_pct

ASSUME ShaperAssumption ==
    /\ IsFiniteSet(ShapedLegs) /\ LegRates \subseteq Nat /\ MinRate \in Nat \ {0} /\ UciRate \in Nat \ {0}
    /\ FractionPct \in 1 .. 100 /\ HysteresisPct \in Nat

NoRate == 0

VARIABLES
    tunnel,          \* pbz0: "absent", "wreck" (there and not up) or "live"
    up_rate,         \* bandwidth of cake on pbz0
    down_rate,       \* bandwidth of cake on its ingress device
    sqm_enabled,     \* uci sqm.pbz0.enabled
    capacity,        \* _legs: the estimate of each leg
    members,         \* _member_names
    last_applied,    \* _last_applied, NoRate when None
    shown_rate,      \* _shaper_applied_kbit, published in status
    turn,            \* the part of the pass that is next
    target_rate,     \* history: the rate the last observed pass asks for
    undone           \* history: the rate was lost or its read-back cut short since

shaperVars == <<tunnel, up_rate, down_rate, sqm_enabled, capacity, members,
                last_applied, shown_rate, turn, target_rate, undone>>
controller == <<capacity, members, last_applied, shown_rate, target_rate>>

ShaperInit ==
    /\ tunnel \in {"absent", "wreck"} /\ up_rate = NoRate /\ down_rate = NoRate
    /\ sqm_enabled \in BOOLEAN
    /\ capacity = [l \in ShapedLegs |-> 0] /\ members = {}
    /\ last_applied = NoRate /\ shown_rate = NoRate /\ turn = "tunnel"
    /\ target_rate = NoRate /\ undone = FALSE

-----------------------------------------------------------------------------
\* _bond_qdisc_is_cake
IsCake == tunnel # "absent" /\ up_rate # NoRate

\* _tunnel_is_live: there and up.
TunnelIsLive == tunnel = "live"

\* wg_quick_up raises: _wg_up_native deletes what it made, and the pass ends.
BringUpFails ==
    /\ turn = "tunnel" /\ ~TunnelIsLive
    /\ tunnel' = "absent" /\ up_rate' = NoRate /\ undone' = TRUE
    /\ UNCHANGED <<controller, down_rate, sqm_enabled, turn>>

\* _ensure_packet_tunnel with _ensure_bond_shaped, on a link just made: sqm is
\* restarted when it is enabled, and may fail, or do nothing and say it worked.
BringUp(restarts) ==
    /\ turn = "tunnel" /\ ~TunnelIsLive
    /\ restarts => sqm_enabled
    /\ tunnel' = "live"
    /\ up_rate' = IF restarts THEN UciRate ELSE NoRate
    /\ down_rate' = IF restarts THEN UciRate ELSE down_rate
    /\ turn' = "rate" /\ undone' = TRUE
    /\ UNCHANGED <<controller, sqm_enabled>>

\* _ensure_packet_tunnel finds the tunnel live: the shaper is left alone.
TunnelStands ==
    /\ turn = "tunnel" /\ TunnelIsLive /\ turn' = "rate"
    /\ UNCHANGED <<controller, tunnel, up_rate, down_rate, sqm_enabled, undone>>

-----------------------------------------------------------------------------
\* LegCapacityEstimator._track: a rise is taken at once, and a fall only as
\* fast as the estimate decays, to a quarter in the time of a pass that decays it.
Track(estimate, observed, decays) ==
    LET decayed == IF decays THEN estimate \div 4 ELSE estimate
    IN  IF observed >= decayed THEN observed ELSE decayed

\* _changed_enough, of a previous rate above 0
ChangedEnough(previous, candidate) ==
    LET change == IF candidate > previous THEN candidate - previous ELSE previous - candidate
    IN  change * 100 >= HysteresisPct * previous

\* The rate for the estimates of the carrying legs.
ShapedTarget(estimate, carrying) ==
    LET share == (MapThenSumSet(LAMBDA l : estimate[l], carrying) * FractionPct) \div 100
    IN  IF share > MinRate THEN share ELSE MinRate

\* _apply_shaper_rate, what _last_applied is after it: force_reapply forgets a
\* rate that a command did not take or that the read-back does not show.
Remembered(target, took) == IF took THEN target ELSE NoRate

\* What becomes of the two tc calls and their read-back: both take, one of
\* them, none (refused, or timed out), or a read-back times out, which is not
\* caught: it ends the pass.
Outcomes == {"both", "up", "down", "none", "unread"}

\* _apply_shaper_rate
ApplyRate(target, outcome) ==
    /\ up_rate' = IF outcome \in {"both", "up"} THEN target ELSE up_rate
    /\ down_rate' = IF outcome \in {"both", "down"} /\ down_rate # NoRate THEN target ELSE down_rate
    /\ undone' = (outcome = "unread")
    /\ LET took == up_rate' = target /\ down_rate' = target
       IN  /\ last_applied' = IF undone' THEN target ELSE Remembered(target, took)
           /\ shown_rate' = IF took /\ ~undone' THEN target ELSE shown_rate

\* What the estimates may be once the carrying legs were observed: any rate on
\* each, some of them not observed for so long that their estimate decays.
Estimates(carrying) ==
    {[l \in ShapedLegs |-> IF l \in carrying THEN Track(capacity[l], rate[l], l \in old)
                           ELSE capacity[l]] :
        rate \in [carrying -> LegRates], old \in SUBSET carrying}

\* _update_bond_shaper_rate with ShaperRateController.update.
UpdateRate(carrying, estimate) ==
    /\ turn = "rate" /\ IsCake
    /\ LET target == ShapedTarget(estimate, carrying)
           due == \/ last_applied = NoRate \/ carrying # members
                  \/ ChangedEnough(last_applied, target)
       IN  /\ capacity' = estimate /\ members' = carrying /\ target_rate' = target
           /\ \/ due /\ \E outcome \in Outcomes : ApplyRate(target, outcome)
              \/ ~due /\ UNCHANGED <<up_rate, down_rate, last_applied, shown_rate, undone>>
    /\ turn' = "tunnel"
    /\ UNCHANGED <<tunnel, sqm_enabled>>

\* The bond is not shaped: no leg is observed.
Unshaped ==
    /\ turn = "rate" /\ ~IsCake /\ turn' = "tunnel"
    /\ UNCHANGED <<controller, tunnel, up_rate, down_rate, sqm_enabled, undone>>

\* Another program removes pbz0, or leaves it down.
TunnelBreaks ==
    /\ TunnelIsLive
    /\ \/ tunnel' = "absent" /\ up_rate' = NoRate
       \/ tunnel' = "wreck" /\ UNCHANGED up_rate
    /\ undone' = TRUE
    /\ UNCHANGED <<controller, down_rate, sqm_enabled, turn>>

\* The agent dies and starts again, and knows no rate; the qdiscs stay.
ShaperRestart ==
    /\ capacity' = [l \in ShapedLegs |-> 0] /\ members' = {}
    /\ last_applied' = NoRate /\ shown_rate' = NoRate /\ turn' = "tunnel"
    /\ target_rate' = NoRate
    /\ UNCHANGED <<tunnel, up_rate, down_rate, sqm_enabled, undone>>

ShaperNext ==
    \/ BringUpFails
    \/ \E restarts \in BOOLEAN : BringUp(restarts)
    \/ TunnelStands
    \/ \E carrying \in SUBSET ShapedLegs : \E estimate \in Estimates(carrying) :
          UpdateRate(carrying, estimate)
    \/ Unshaped
    \/ TunnelBreaks
    \/ ShaperRestart

-----------------------------------------------------------------------------
ShaperTypeOK ==
    /\ tunnel \in {"absent", "wreck", "live"} /\ turn \in {"tunnel", "rate"}
    /\ up_rate \in Nat /\ down_rate \in Nat /\ last_applied \in Nat /\ shown_rate \in Nat
    /\ target_rate \in Nat
    /\ sqm_enabled \in BOOLEAN /\ undone \in BOOLEAN
    /\ capacity \in [ShapedLegs -> Nat] /\ members \subseteq ShapedLegs

(***************************************************************************)
(* A rate the controller counts as applied is on both qdiscs and within    *)
(* the hysteresis band of what the carrying legs ask for now, and it is    *)
(* the one status shows: no mix of failed writes, one direction taking and *)
(* the other not, members that come and go, or a restart leaves the bond   *)
(* shaped by a forgotten rate.  Excepted are a link made since the rate    *)
(* was written, and a read-back that timed out.                            *)
(***************************************************************************)
ShaperInStep ==
    turn = "tunnel" /\ last_applied # NoRate /\ ~undone =>
       /\ up_rate = last_applied /\ down_rate = last_applied /\ shown_rate = last_applied
       /\ last_applied = target_rate \/ ~ChangedEnough(last_applied, target_rate)

=============================================================================
