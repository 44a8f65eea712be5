------------------------------ MODULE LegWeight ------------------------------
(***************************************************************************)
(* How one leg of the packet datapath is judged and weighed, pass by pass: *)
(* BondAgent._probe_packet_leg, _leg_loss_pct, _classify_path_state        *)
(* (travel/bond-agent/zippie/agent.py), then recompute, update_rtt_ewma    *)
(* and update_weight_budget (policy.py) as apply_policy calls them.  The   *)
(* monitor thread recomputes the weight between passes as well.            *)
(*                                                                         *)
(* Times are in milliseconds and losses in percent.  The average is kept   *)
(* in steps of Grain; the constants written as numbers are the code's.     *)
(***************************************************************************)
EXTENDS Integers, FiniteSets

CONSTANTS
    Rtts,            \* round trip times the transport may report
    Losses,          \* losses the ring may report
    LossStreak,      \* LOSS_STATE_STREAK
    RiseWindow,      \* weight_rise_window_passes
    MaxRises,        \* weight_rises_per_window
    LegConfigWeight, \* config.weight
    CostRank,        \* cost_rank without the data cap, 0 for a free leg
    Grain

ASSUME WeightAssumption ==
    /\ Rtts \subseteq Nat \ {0} /\ Losses \subseteq 0 .. 100
    /\ {LossStreak, RiseWindow, MaxRises, Grain} \subseteq Nat \ {0}
    /\ LegConfigWeight \in Nat /\ CostRank \in 0 .. 3

FailRtt == 400
FailLoss == 15
DegradedRtt == 200
DegradedLoss == 5
MarginTenths == 8
WeightFloor == 5
WeightQuantum == 8
NoRtt == 0

VARIABLES
    leg_state,       \* path.state
    rtt,             \* path.rtt_ms, NoRtt when None
    ewma,            \* path.rtt_ewma_ms, NoRtt when None
    loss,            \* path.loss_pct
    bad_streak,      \* loss_bad_streak
    good_streak,     \* loss_good_streak
    loss_degraded,
    over_soft,       \* over_soft_limit
    weight,          \* effective_weight, before the join gate
    weight_at_last_pass,
    rise_ages,       \* weight_rise_ages, one for a pass
    climbs           \* history: ages of the passes that left a carrying leg with
                     \* more than the pass before did

weightVars == <<leg_state, rtt, ewma, loss, bad_streak, good_streak, loss_degraded, over_soft,
                weight, weight_at_last_pass, rise_ages, climbs>>

WeightInit ==
    /\ leg_state = "down" /\ rtt = NoRtt /\ ewma = NoRtt /\ loss = 100
    /\ bad_streak = 0 /\ good_streak = 0 /\ loss_degraded = FALSE /\ over_soft = FALSE
    /\ weight = 0 /\ weight_at_last_pass = 0 /\ rise_ages = {} /\ climbs = {}

-----------------------------------------------------------------------------
AtLeast(n, floor) == IF n < floor THEN floor ELSE n

\* classify_state: the bar a leg failed must be cleared by a margin.
Lowered(bar, was) == IF was THEN (bar * MarginTenths) \div 10 ELSE bar
ClassifyState(r, l, previous) ==
    LET fails == \/ r >= Lowered(FailRtt, previous = "down")
                 \/ l >= Lowered(FailLoss, previous = "down")
        poor == \/ r >= Lowered(DegradedRtt, previous = "degraded")
                \/ l >= Lowered(DegradedLoss, previous = "degraded")
    IN  IF fails THEN "down" ELSE IF poor THEN "degraded" ELSE "up"

\* _leg_loss_pct: one lost probe of a ring that is too coarse to tell counts as none.
LegLoss(l, coarse) == IF coarse THEN 0 ELSE l
LegLosses == {LegLoss(l, coarse) : l \in Losses, coarse \in BOOLEAN}

\* The streaks of _classify_path_state, as a record.
Streaks(l) ==
    CASE l >= FailLoss -> [bad |-> 0, good |-> 0, degraded |-> FALSE, judged |-> l]
      [] l \in DegradedLoss .. FailLoss - 1 ->
            LET bad == IF bad_streak < LossStreak THEN bad_streak + 1 ELSE LossStreak
                deg == loss_degraded \/ bad >= LossStreak
            IN  [bad |-> bad, good |-> 0, degraded |-> deg,
                 judged |-> IF deg THEN DegradedLoss ELSE 0]
      [] l < DegradedLoss ->
            LET over == loss_degraded /\ good_streak + 1 >= LossStreak
                deg == loss_degraded /\ ~over
            IN  [bad |-> 0, degraded |-> deg,
                 good |-> IF deg THEN good_streak + 1 ELSE IF over THEN 0 ELSE good_streak,
                 judged |-> IF deg THEN DegradedLoss ELSE 0]

\* refresh_budget and cost_rank: past its soft cap a leg is an expensive one.
Rank(soft) == IF soft THEN AtLeast(CostRank, 3) ELSE CostRank

\* round(), which takes a half to the even neighbour.
RoundedTo(n, step) ==
    LET q == n \div step
        r == n % step
    IN  step * IF 2 * r > step \/ (2 * r = step /\ q % 2 = 1) THEN q + 1 ELSE q

\* free_leg_is_carrying: whether another leg, a free one, carries.
FreeCarrying == BOOLEAN

\* _damped_for_free_leg.
Damped(n, rank, freeCarrying) ==
    IF freeCarrying /\ rank > 0 THEN AtLeast(n \div 10, WeightFloor) ELSE n

\* effective_weight up to its deadband: what the leg deserves.
Merit(state, r, l, soft, freeCarrying) ==
    LET configured == AtLeast(LegConfigWeight, WeightFloor)
        byState == IF state = "degraded" THEN AtLeast(configured \div 3, WeightFloor) ELSE configured
        byCap == IF soft THEN AtLeast(byState \div 4, WeightFloor) ELSE byState
        byRtt == CASE r = NoRtt -> byCap
                   [] r \in 1 .. 40 -> 2 * byCap
                   [] r \in 41 .. 319 -> AtLeast((byCap * 80) \div r, WeightFloor)
                   [] r >= 320 -> AtLeast(byCap \div 4, WeightFloor)
        byLoss == AtLeast((byRtt * (100 - IF l > 50 THEN 50 ELSE l)) \div 100, WeightFloor)
        byCost == AtLeast((byLoss * (115 - 10 * Rank(soft))) \div 100, WeightFloor)
        damped == Damped(byCost, Rank(soft), freeCarrying)
    IN  AtLeast(RoundedTo(damped, WeightQuantum), WeightFloor)

\* _rise_is_rate_limited.
Rationed(ages) == Cardinality(ages) >= MaxRises

\* effective_weight: small moves are ignored and rises of a carrying leg rationed.
EffectiveWeight(state, r, l, soft, freeCarrying, prev) ==
    IF state = "down" THEN 0
    ELSE LET new == Merit(state, r, l, soft, freeCarrying)
             still == new - prev \in -WeightQuantum .. WeightQuantum
         IN  IF prev > 0 /\ (still \/ (new > prev /\ Rationed(rise_ages))) THEN prev ELSE new

\* update_rtt_ewma, a quarter of the new sample.
Averaged(state, r) ==
    CASE state = "down" -> NoRtt
      [] state # "down" /\ r = NoRtt -> ewma
      [] state # "down" /\ r # NoRtt /\ ewma = NoRtt -> r
      [] OTHER -> Grain * ((r + 3 * ewma) \div (4 * Grain))

Aging(ages) == {a + 1 : a \in {b \in ages : b < RiseWindow}}

\* update_weight_budget.
Budget(w) == Aging(rise_ages) \cup IF w > weight_at_last_pass THEN {0} ELSE {}

\* apply_policy for this leg, after its probe: s is the state, w0 the weight the
\* probe left.
Policy(s, w0, soft, freeCarrying) ==
    LET basis == IF ewma = NoRtt THEN rtt' ELSE ewma
        w == EffectiveWeight(s, basis, loss', soft, freeCarrying, w0)
    IN  /\ leg_state' = s /\ over_soft' = soft /\ weight' = w
        /\ ewma' = Averaged(s, rtt')
        /\ rise_ages' = Budget(w)
        /\ weight_at_last_pass' = w
        /\ climbs' = Aging(climbs)
              \cup IF weight_at_last_pass > 0 /\ w > weight_at_last_pass THEN {0} ELSE {}

\* No interface, or nothing heard inside the stale window.
ProbeDead(soft, freeCarrying) ==
    /\ rtt' = NoRtt /\ loss' = 100
    /\ Policy("down", 0, soft, freeCarrying)
    /\ UNCHANGED <<bad_streak, good_streak, loss_degraded>>

\* Not a link yet, or frames arrive and no probe has come back.
ProbeMute(l, soft, freeCarrying) ==
    /\ rtt' = NoRtt /\ loss' = l
    /\ Policy("degraded", weight, soft, freeCarrying)
    /\ UNCHANGED <<bad_streak, good_streak, loss_degraded>>

\* A round trip: the state goes by the average of the passes before.
ProbeAnswered(r, l, soft, freeCarrying) ==
    LET s == Streaks(l)
    IN  /\ rtt' = r /\ loss' = l
        /\ bad_streak' = s.bad /\ good_streak' = s.good /\ loss_degraded' = s.degraded
        /\ Policy(ClassifyState(IF ewma = NoRtt THEN r ELSE ewma, s.judged, leg_state),
                  weight, soft, freeCarrying)

\* recompute by the monitor thread, for the loss of another leg.
Recompute(soft, freeCarrying) ==
    /\ over_soft' = soft
    /\ weight' = EffectiveWeight(leg_state, IF ewma = NoRtt THEN rtt ELSE ewma, loss, soft,
                                 freeCarrying, weight)
    /\ UNCHANGED <<leg_state, rtt, ewma, loss, bad_streak, good_streak, loss_degraded,
                   weight_at_last_pass, rise_ages, climbs>>

WeightNext ==
    \E soft \in BOOLEAN, freeCarrying \in FreeCarrying :
        \/ ProbeDead(soft, freeCarrying)
        \/ \E l \in LegLosses :
              \/ ProbeMute(l, soft, freeCarrying)
              \/ \E r \in Rtts : ProbeAnswered(r, l, soft, freeCarrying)
        \/ Recompute(soft, freeCarrying)

-----------------------------------------------------------------------------
WeightTypeOK ==
    /\ leg_state \in {"up", "degraded", "down"} /\ rtt \in Rtts \cup {NoRtt} /\ ewma \in Nat
    /\ loss \in Losses \cup {0, 100} /\ over_soft \in BOOLEAN /\ loss_degraded \in BOOLEAN
    /\ bad_streak \in 0 .. LossStreak /\ good_streak \in 0 .. LossStreak
    /\ weight \in Nat /\ weight_at_last_pass \in Nat
    /\ rise_ages \subseteq 0 .. RiseWindow /\ climbs \subseteq 0 .. RiseWindow

(***************************************************************************)
(* Rises are rationed (#81): over any window of passes a leg that carries  *)
(* gains weight at most MaxRises times, whatever the monitor thread        *)
(* recomputes in between; and the ration never holds a leg that is alive   *)
(* below the floor, nor keeps a dead one's share.                          *)
(***************************************************************************)
RisesAreRationed ==
    /\ Cardinality(climbs) <= MaxRises
    /\ weight = 0 <=> leg_state = "down"

=============================================================================
