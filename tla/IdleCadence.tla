---------------------------- MODULE IdleCadence ----------------------------
(***************************************************************************)
(* How often a leg is probed while nobody is browsing, and when a leg is   *)
(* called dead: BondAgent._sync_idle_cadence, _packet_is_idle,             *)
(* _transport_probe_interval_s and _flag_never_handshaked                  *)
(* (travel/bond-agent/zippie/agent.py), bytes_arriving                     *)
(* (zippie/leg_verdict.py), client_idle_for_s (zippie/transport.py).       *)
(*                                                                         *)
(* Time is in units of the active probe interval.  A pass takes one unit   *)
(* or, at worst, MaxPass; a probe sent in a pass is answered before the    *)
(* next one, or lost.                                                      *)
(***************************************************************************)
EXTENDS Integers

CONSTANTS
    MaxPass,
    ActiveInterval,  \* probe_interval_ms, floored
    IdleInterval,    \* idle_probe_interval_ms
    StaleTime,       \* PACKET_LINK_STALE_S
    IdleAfter,       \* idle_after_s
    NeverTx          \* NEVER_HANDSHAKED_MIN_TX_BYTES, in probes

ASSUME CadenceAssumption ==
    /\ {MaxPass, ActiveInterval, IdleInterval, StaleTime, IdleAfter, NeverTx} \subseteq Nat \ {0}

\* A pass and the active probes are short beside StaleTime.  The configuration
\* does not check it; the cap on the idle interval is of no use without it.
StaleTimeHasRoom == MaxPass <= StaleTime \div 3 /\ ActiveInterval <= StaleTime \div 3

VARIABLES
    idle_for,        \* client_idle_for_s, up to IdleAfter
    probe_age,       \* time since _last_transport_probe_at
    rx_age,          \* the leg's link_rx_age_s, up to StaleTime
    answered,        \* has_ever_answered
    tx_probes,       \* the leg's bytes sent, in probes, up to NeverTx
    never,           \* never_handshaked
    fast_keepalive,  \* _packet_keepalive_s is the active one
    lost_run,        \* history: probes lost since the last answer, up to 2
    sent_now         \* history: the last pass sent a probe

cadenceVars == <<idle_for, probe_age, rx_age, answered, tx_probes, never,
                 fast_keepalive, lost_run, sent_now>>

CadenceInit ==
    /\ idle_for = 0 /\ probe_age = StaleTime /\ rx_age = StaleTime
    /\ answered = FALSE /\ tx_probes = 0 /\ never = FALSE /\ fast_keepalive = TRUE
    /\ lost_run = 0 /\ sent_now = FALSE

-----------------------------------------------------------------------------
AtMostOf(n, most) == IF n > most THEN most ELSE n
AtLeastOf(n, least) == IF n < least THEN least ELSE n

\* _packet_is_idle
PacketIsIdle(idle) == idle >= IdleAfter

\* Mutant: the operator's idle interval as it stands.
IdleProbeIntervalRequested == AtLeastOf(IdleInterval, ActiveInterval)

\* _idle_transport_probe_interval_s: never more often than while active, and
\* never rarer than a third of the time after which a leg is stale.
IdleProbeInterval ==
    AtLeastOf(AtMostOf(AtLeastOf(IdleInterval, ActiveInterval), StaleTime \div 3), ActiveInterval)

\* _sync_idle_cadence: while active every pass probes.
Probes(idle, age) == ~PacketIsIdle(idle) \/ age >= IdleProbeInterval

\* _flag_never_handshaked: answered by nothing although enough was sent.
NeverHandshaked(ever, sent) == ~ever /\ sent = NeverTx

\* bytes_arriving
BytesArriving == rx_age < StaleTime

\* set_wg_persistent_keepalive, which may fail and is tried again.
Keepalive(idle, takes) == IF takes THEN ~PacketIsIdle(idle) ELSE fast_keepalive

\* One pass, d after the one before it: whether clients were browsing since,
\* whether home answers the probe, and whether WireGuard takes the cadence.
CadencePass(d, browsing, replies, takes) ==
    LET idle == IF browsing THEN 0 ELSE AtMostOf(idle_for + d, IdleAfter)
        age == AtMostOf(probe_age + d, StaleTime)
        sends == Probes(idle, age)
        heard == sends /\ replies
    IN  /\ idle_for' = idle /\ probe_age' = IF sends THEN 0 ELSE age
        /\ rx_age' = IF heard THEN 0 ELSE AtMostOf(rx_age + d, StaleTime)
        /\ answered' = (answered \/ heard)
        /\ tx_probes' = IF sends THEN AtMostOf(tx_probes + 1, NeverTx) ELSE tx_probes
        /\ never' = NeverHandshaked(answered', tx_probes')
        /\ fast_keepalive' = Keepalive(idle, takes)
        /\ lost_run' = IF heard THEN 0 ELSE IF sends THEN AtMostOf(lost_run + 1, 2) ELSE lost_run
        /\ sent_now' = sends

CadenceNext ==
    \E d \in 1 .. MaxPass, browsing, replies, takes \in BOOLEAN :
       CadencePass(d, browsing, replies, takes)

-----------------------------------------------------------------------------
CadenceTypeOK ==
    /\ idle_for \in 0 .. IdleAfter /\ probe_age \in 0 .. StaleTime /\ rx_age \in 0 .. StaleTime
    /\ answered \in BOOLEAN /\ never \in BOOLEAN /\ fast_keepalive \in BOOLEAN /\ sent_now \in BOOLEAN
    /\ tx_probes \in 0 .. NeverTx /\ lost_run \in 0 .. 2

(***************************************************************************)
(* Idling spends fewer probes and neither kills nor spares a leg: one lost *)
(* probe never makes a leg that home answers read as silent, however       *)
(* passes stretch and clients come and go; a leg that reads as arriving    *)
(* was answered, and no leg that was ever answered is called one that      *)
(* never was.                                                              *)
(***************************************************************************)
IdlingKeepsLegs ==
    /\ answered /\ lost_run <= 1 => BytesArriving
    /\ BytesArriving => answered /\ ~never

=============================================================================
