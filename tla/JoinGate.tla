------------------------------ MODULE JoinGate ------------------------------
(***************************************************************************)
(* The anti-flap gate of the control pass (BondAgent._gate_flapped_paths,  *)
(* travel/bond-agent/zippie/agent.py): a leg that has failed carries       *)
(* nothing until it has gathered a streak of healthy passes; a leg the far *)
(* end has answered is let in on probation when the hold has lasted long   *)
(* enough; and if every leg is held, the best one is released.             *)
(*                                                                         *)
(* One action is one pass of the gate over all legs, with what the probes  *)
(* found this pass as its input.  A share is "none", "floor" (the smallest *)
(* that still carries) or "full" (what the policy computed).  The streak   *)
(* is counted in half points.                                              *)
(***************************************************************************)
EXTENDS Integers

CONSTANTS
    GateLegs,        \* names of self.paths
    LegTier,         \* config.tier of each
    JoinStreakMin,   \* join_streak_min, in half points
    MissPenalty,     \* join_streak_miss_penalty, in half points
    ProbationAfter   \* probation_after_ms, in passes

ASSUME GateAssumption ==
    /\ LegTier \in [GateLegs -> Nat]
    /\ JoinStreakMin \in Nat /\ MissPenalty \in Nat
    /\ ProbationAfter \in Nat

\* What a pass may find of a leg.  A leg is "up" only by a round trip; it may
\* be degraded or down with one ("slow", "dead") or without ("mute", "gone");
\* "off" is one that answers and that the operator has disabled in legs.json,
\* which weighs nothing.
Readings == {"up", "slow", "mute", "dead", "gone", "off"}
Answers == {"up", "slow", "dead", "off"}
IsDown == {"dead", "gone"}
Failing == IsDown \cup {"off"}
NotHeld == -1

VARIABLES
    streak,          \* _join_streak
    judged,          \* names that have an entry in _join_streak
    flapped,         \* _flapped
    held,            \* passes since held_out_since_ms, NotHeld when None
    probation,       \* on_probation
    ever_answered,   \* has_ever_answered
    share,           \* effective_weight when the gate is done
    owns_error,      \* held_out_message_active: last_error is the gate's
    reading,         \* of the last pass
    settled,         \* the gate has run since the weights were computed
    merit,           \* history: half points since the leg last carried in full
                     \* or was released
    by_valve,        \* history: legs whose last admission was a release
    denied           \* history: passes since an answered leg came back and was
                     \* given nothing, NotHeld when it has a share

gateVars == <<streak, judged, flapped, held, probation, ever_answered, share,
              owns_error, reading, settled, merit, by_valve, denied>>

GateInit ==
    /\ streak = [p \in GateLegs |-> 0]
    /\ judged = {}
    /\ flapped = {}
    /\ held = [p \in GateLegs |-> NotHeld]
    /\ probation = {}
    /\ ever_answered = {}
    /\ share = [p \in GateLegs |-> "none"]
    /\ owns_error = {}
    /\ reading = [p \in GateLegs |-> "gone"]
    /\ settled = TRUE
    /\ merit = [p \in GateLegs |-> 0]
    /\ by_valve = {}
    /\ denied = [p \in GateLegs |-> NotHeld]

-----------------------------------------------------------------------------
Points(r) == IF r = "up" THEN 2 ELSE 1
Floored(n) == IF n < 0 THEN 0 ELSE n
Capped(n, most) == IF n > most THEN most ELSE n

\* Mutant: a failed pass costs a proven leg nothing.
DebitNothing(n, proven) == IF proven THEN n ELSE 0

\* Mutant: the debit goes below zero.
DebitUnfloored(n, proven) == IF proven THEN n - MissPenalty ELSE 0

\* _note_failed_pass: a leg that has been answered is debited, another erased.
Debit(n, proven) == IF proven THEN Floored(n - MissPenalty) ELSE 0

\* A leg that failed and has not gathered its streak, this pass counted.
Holds(p, n) == p \in flapped /\ n < JoinStreakMin

\* _hold_out: only a leg the far end has answered has a bound on its hold.
OnProbation(proven, age) == proven /\ age >= ProbationAfter

\* The clock of a hold runs on the passes the leg fails as well.
Aged(n) == IF n = NotHeld THEN NotHeld ELSE Capped(n + 1, ProbationAfter)
HeldFor(p) == IF held[p] = NotHeld THEN 0 ELSE Aged(held[p])
FailedAge(n) == Aged(n)

\* What the loop leaves of one leg, before the valve.
Gated(p, r) ==
    LET proven == p \in ever_answered \/ r \in Answers
        n == streak[p] + Points(r)
        age == HeldFor(p)
    IN  CASE r \in Failing ->
                [streak |-> Debit(streak[p], proven), share |-> "none",
                 flapped |-> p \in flapped \/ p \in judged \/ r \in IsDown,
                 held |-> FailedAge(held[p]), probation |-> FALSE, owns |-> FALSE]
          [] r \notin Failing /\ Holds(p, n) ->
                [streak |-> n, flapped |-> TRUE, held |-> age, owns |-> TRUE,
                 share |-> IF OnProbation(proven, age) THEN "floor" ELSE "none",
                 probation |-> OnProbation(proven, age)]
          [] OTHER ->
                [streak |-> 0, share |-> "full", flapped |-> FALSE,
                 held |-> NotHeld, probation |-> FALSE, owns |-> FALSE]

\* The leg the valve prefers: lowest tier, then one that was ever answered,
\* then most evidence.  The round trip time that breaks a tie is any.
Ahead(p, q, g, proven) ==
    \/ LegTier[p] < LegTier[q]
    \/ LegTier[p] = LegTier[q] /\ p \in proven /\ q \notin proven
    \/ LegTier[p] = LegTier[q] /\ (p \in proven <=> q \in proven)
       /\ g[p].streak > g[q].streak

\* Mutant: the valve stays shut.
ReleasedNobody(g, r, proven) == {{}}

\* The legs one of which the valve releases; {{}} when it stays shut.
Released(g, r, proven) ==
    LET candidates == {p \in GateLegs : r[p] \notin IsDown}
    IN  IF candidates = {} \/ \E p \in GateLegs : g[p].share # "none"
        THEN {{}}
        ELSE {{p} : p \in {c \in candidates :
                             \A q \in candidates : ~Ahead(q, c, g, proven)}}

\* _gate_flapped_paths: the loop leaves g, the valve releases best.
Settle(r, g, best, proven) ==
    /\ streak' = [p \in GateLegs |-> IF p \in best THEN JoinStreakMin ELSE g[p].streak]
    /\ judged' = GateLegs
    /\ flapped' = {p \in GateLegs : g[p].flapped} \ best
    /\ held' = [p \in GateLegs |-> IF p \in best THEN NotHeld ELSE g[p].held]
    /\ probation' = {p \in GateLegs : g[p].probation} \ best
    /\ ever_answered' = proven
    /\ share' = [p \in GateLegs |-> IF p \in best THEN "floor" ELSE g[p].share]
    /\ owns_error' = {p \in GateLegs : g[p].owns} \ best
    /\ reading' = r /\ settled' = TRUE
    /\ by_valve' = {p \in by_valve : g[p].share # "full"} \cup best
    /\ merit' = [p \in GateLegs |->
                    IF p \in best \/ g[p].share = "full" THEN 0
                    ELSE IF r[p] \in Failing THEN Floored(merit[p] - MissPenalty)
                    ELSE Capped(merit[p] + Points(r[p]), JoinStreakMin)]
    /\ denied' = [p \in GateLegs |->
                    IF share'[p] # "none" THEN NotHeld
                    ELSE IF denied[p] # NotHeld THEN Aged(denied[p])
                    ELSE IF p \in proven /\ r[p] \notin Failing THEN 0 ELSE NotHeld]

GatePass(r) ==
    LET proven == ever_answered \cup {p \in GateLegs : r[p] \in Answers}
    IN  \E g \in {[p \in GateLegs |-> Gated(p, r[p])]} :
            \E best \in Released(g, r, proven) : Settle(r, g, best, proven)

\* _on_uplink_addr_loss, _on_uplink_route_loss: the leg is withdrawn and every
\* weight is computed afresh; the gate does not run.  A leg that had a share may
\* keep it, by the deadband or the rationing of rises.
Withdraw(p, kept) ==
    /\ reading[p] # "gone"
    /\ reading' = [reading EXCEPT ![p] = "gone"]
    /\ share' = [q \in GateLegs |->
                    IF reading'[q] \in Failing THEN "none"
                    ELSE IF q \in kept /\ share[q] # "none" THEN share[q] ELSE "full"]
    /\ settled' = FALSE
    /\ denied' = [q \in GateLegs |-> IF share'[q] # "none" THEN NotHeld ELSE denied[q]]
    /\ UNCHANGED <<streak, judged, flapped, held, probation, ever_answered, owns_error,
                   merit, by_valve>>

GateNext ==
    \/ \E r \in [GateLegs -> Readings] : GatePass(r)
    \/ \E p \in GateLegs, kept \in SUBSET GateLegs : Withdraw(p, kept)

-----------------------------------------------------------------------------
GateTypeOK ==
    /\ streak \in [GateLegs -> 0 .. JoinStreakMin + 1] /\ merit \in [GateLegs -> 0 .. JoinStreakMin]
    /\ judged \subseteq GateLegs /\ flapped \subseteq GateLegs
    /\ held \in [GateLegs -> {NotHeld} \cup 0 .. ProbationAfter]
    /\ probation \subseteq flapped /\ ever_answered \subseteq GateLegs
    /\ share \in [GateLegs -> {"none", "floor", "full"}]
    /\ owns_error \subseteq flapped /\ by_valve \subseteq GateLegs
    /\ reading \in [GateLegs -> Readings]

(***************************************************************************)
(* The gate never starves the bond: when it has run and some leg is not    *)
(* down, some leg carries, however the legs fail (agent.py, "THE GATE MUST *)
(* NEVER STARVE THE BOND"); and it leaves no leg it holds a full share.    *)
(***************************************************************************)
GateFeedsTheBond ==
    settled =>
        /\ (\E p \in GateLegs : reading[p] \notin IsDown)
              => \E p \in GateLegs : share[p] # "none"
        /\ \A p \in flapped : share[p] # "full"

(***************************************************************************)
(* "SPENT, NOT BANKED": the gate lets a held leg back in at its full share *)
(* only after it has gathered the whole streak since it last carried in    *)
(* full; or after a release, which leaves it a streak to spend.            *)
(***************************************************************************)
ReadmissionIsEarned ==
    [][\A p \in flapped \ flapped' :
          \/ merit[p] + Points(reading'[p]) >= JoinStreakMin
          \/ p \in by_valve \cup by_valve']_gateVars

(***************************************************************************)
(* A leg the far end has answered is not held out for good (#61): from the *)
(* first pass it comes back it has a share after ProbationAfter passes at  *)
(* most, whenever it is not failing, however it has flapped in between.    *)
(***************************************************************************)
HoldIsBounded ==
    settled => \A p \in ever_answered :
                  reading[p] \notin Failing /\ share[p] = "none"
                      => denied[p] \in 0 .. ProbationAfter - 1

(***************************************************************************)
(* No leg waits for good and the bond is never without one: the two        *)
(* promises of the gate that pull against its holding legs out.            *)
(***************************************************************************)
LegsJoinFairly == GateFeedsTheBond /\ HoldIsBounded

=============================================================================
