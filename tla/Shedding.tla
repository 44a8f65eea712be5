------------------------------ MODULE Shedding ------------------------------
(***************************************************************************)
(* Which legs of the packet datapath carry: the tier gate, and the rule    *)
(* that sheds a bufferbloated leg (tier_legs, update_rtt_tail,             *)
(* update_shed_state, carrying_legs, packet_nexthop in travel/bond-agent/  *)
(* zippie/policy.py).  A verdict is written once a pass; the monitor       *)
(* thread takes a leg away between passes and only reads the verdicts.     *)
(* Round trip times are in units of the absolute floor, degraded_rtt_ms,   *)
(* over Floor.                                                             *)
(***************************************************************************)
EXTENDS Integers, Sequences

CONSTANTS
    ShedLegs,
    Samples,         \* round trip times
    Floor,           \* degraded_rtt_ms
    ShedRatio,       \* bufferbloat_shed_ratio
    SpreadHalves,    \* bufferbloat_spread_ratio, in halves
    Fall             \* how a tail falls, pass by pass, from the largest sample
                     \* to the smallest when it is not fed

ASSUME ShedAssumption ==
    /\ Samples \subseteq Nat \ {0} /\ Floor \in Nat /\ ShedRatio \in Nat \ {0, 1}
    /\ SpreadHalves \in Nat
    /\ Fall \in Seq(Nat) /\ Len(Fall) > 0
    /\ \A s \in Samples : s <= Fall[1] /\ Fall[Len(Fall)] <= s
    /\ \A i \in 1 .. Len(Fall) - 1 : Fall[i + 1] >= (Fall[i] * 3) \div 4

\* The test of a leg's own spread tells distance from bloat: one and a half of
\* its mean at least, as the default, and nothing below two units is shed.  A
\* ratio of 0 turns the test off, and a distant leg then stays shed.
SpreadTells == SpreadHalves >= 3 /\ Floor >= 2

\* Passes after which every tail has come down, however high it was.
Settling == Len(Fall)

None == 0
Least(S) == CHOOSE x \in S : \A y \in S : x <= y

VARIABLES
    tier,            \* config.tier, which legs.json may set
    here,            \* legs that have an interface
    dead,            \* legs that are down
    sample,          \* rtt_ms, None when None
    tail,            \* rtt_tail_ms, None when None
    mean,            \* rtt_ewma_ms, None when None
    shed,            \* legs with shed_for_latency
    steady           \* history: passes in a row with the same good sample everywhere

shedVars == <<tier, here, dead, sample, tail, mean, shed, steady>>

ShedInit ==
    /\ tier \in [ShedLegs -> 1 .. 2]
    /\ here = {} /\ dead = ShedLegs /\ shed = {}
    /\ sample = [l \in ShedLegs |-> None] /\ tail = [l \in ShedLegs |-> None]
    /\ mean = [l \in ShedLegs |-> None] /\ steady = 0

-----------------------------------------------------------------------------
\* tier_legs: the lowest tier with a leg alive; with none alive, any leg there is.
TierLegs(present, down) ==
    LET pool == IF present \ down # {} THEN present \ down ELSE present
    IN  {l \in pool : \A m \in pool : tier[l] <= tier[m]}

\* carrying_legs.
Carrying(legs, shedded) == IF legs \ shedded # {} THEN legs \ shedded ELSE legs

\* update_rtt_tail: a peak that decays, here by a quarter a pass.
RttTail(prev, s) ==
    IF s = None THEN prev
    ELSE IF prev = None THEN s
    ELSE LET decayed == (prev * 3) \div 4 IN IF s > decayed THEN s ELSE decayed

\* update_rtt_ewma, half of the new sample.
RttMean(prev, s) == IF s = None THEN prev ELSE IF prev = None THEN s ELSE (s + prev) \div 2

\* _clear_and_collect: the legs that are compared, if there are two of them.
Measured(legs, t) ==
    LET known == {l \in legs : t[l] # None}
    IN  IF \E l, m \in known : l # m THEN known ELSE {}

\* recovery_margin: a leg that is shed has a lower bar to clear, four fifths here.
Bar(best, was) == IF was THEN (best * ShedRatio * 4) \div 5 ELSE best * ShedRatio

\* Mutant: only the distance to its best neighbour is asked.
SpreadAnything(t, mn) == TRUE

\* Its own tail must stand out of its own mean.
Spread(t, mn) == SpreadHalves = 0 \/ mn = None \/ 2 * t > mn * SpreadHalves

\* update_shed_state.
Shed(legs, t, mn) ==
    LET measured == Measured(legs, t)
        best == Least({t[l] : l \in measured})
    IN  {l \in measured : /\ t[l] > Bar(best, l \in shed) /\ t[l] > Floor
                          /\ Spread(t[l], mn[l])}

\* A pass: the probes give presence, liveness and a sample, and apply_policy
\* writes the verdicts.
ShedPass(present, down, s) ==
    LET t == [l \in ShedLegs |-> IF l \in down THEN None ELSE RttTail(tail[l], s[l])]
        mn == [l \in ShedLegs |-> IF l \in down THEN None ELSE RttMean(mean[l], s[l])]
    IN  /\ here' = present /\ dead' = down /\ sample' = s
        /\ tail' = t /\ mean' = mn
        /\ shed' = Shed(TierLegs(present, down), t, mn)
        /\ steady' = IF s = sample /\ present = here /\ down = dead
                        /\ \A l \in ShedLegs \ down : s[l] # None
                     THEN IF steady < Settling THEN steady + 1 ELSE steady
                     ELSE 0
        /\ UNCHANGED tier

\* _on_uplink_addr_loss, _on_uplink_route_loss.
LegLost(l) ==
    /\ l \in here
    /\ here' = here \ {l} /\ dead' = dead \cup {l}
    /\ sample' = [sample EXCEPT ![l] = None]
    /\ steady' = 0
    /\ UNCHANGED <<tier, tail, mean, shed>>

\* apply_overrides.
SetTier(l, t) ==
    /\ t # tier[l]
    /\ tier' = [tier EXCEPT ![l] = t]
    /\ steady' = 0
    /\ UNCHANGED <<here, dead, sample, tail, mean, shed>>

ShedNext ==
    \/ \E present \in SUBSET ShedLegs : \E alive \in SUBSET present :
          \E s \in [alive -> Samples \cup {None}] :
              ShedPass(present, ShedLegs \ alive,
                       [l \in ShedLegs |-> IF l \in alive THEN s[l] ELSE None])
    \/ \E l \in ShedLegs : LegLost(l)
    \/ \E l \in ShedLegs, t \in 1 .. 2 : SetTier(l, t)

-----------------------------------------------------------------------------
ShedTypeOK ==
    /\ tier \in [ShedLegs -> 1 .. 2] /\ here \subseteq ShedLegs /\ dead \subseteq ShedLegs
    /\ shed \subseteq ShedLegs
    /\ sample \in [ShedLegs -> Samples \cup {None}] /\ steady \in 0 .. Settling

\* While some leg has an interface some leg carries, a live one if there is one,
\* in the lowest live tier; and a leg that is shed has a better one that carries.
BestLegCarries ==
    LET legs == TierLegs(here, dead)
        carrying == Carrying(legs, shed)
    IN  /\ here # {} => carrying # {}
        /\ here \ dead # {} => carrying \cap dead = {}
        /\ \A l \in carrying, m \in here \ dead : tier[l] <= tier[m] \/ here \ dead = {}
        /\ steady > 0 => \A l \in shed : \E m \in carrying : tail[m] < tail[l]

(***************************************************************************)
(* Shedding never costs the bond its route (BestLegCarries); and no leg is *)
(* shed for good, nor for being far away (#124): when every leg answers    *)
(* steadily all carry, however slow one is beside the others, as soon as   *)
(* its tail has come down to what it measures.                             *)
(***************************************************************************)
CarryingSetSound == BestLegCarries /\ (steady = Settling => shed = {})

=============================================================================
