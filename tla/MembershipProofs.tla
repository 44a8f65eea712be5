-------------------------- MODULE MembershipProofs --------------------------
(***************************************************************************)
(* Proofs about which legs there are and how much each carries             *)
(* (MCMembership), for every set of legs, devices, samples and addresses   *)
(* and every bound: the gate a leg that failed must pass, the links and    *)
(* their ids, the weight of a leg, the legs that are shed, and the roster  *)
(* of configured and announced legs.                                       *)
(***************************************************************************)
EXTENDS MCMembership, SetSums

-----------------------------------------------------------------------------
\* The gate.

\* What the gate keeps of a leg: its hold has lasted as long as it has been denied, and
\* its streak is no longer than what it has shown since it last carried or was released.
Denied == \A p \in GateLegs : denied[p] # NotHeld => held[p] # NotHeld /\ denied[p] <= held[p]
Earned == \A p \in GateLegs \ by_valve : streak[p] <= merit[p]

DeniedOK == denied \in [GateLegs -> {NotHeld} \cup 0 .. ProbationAfter]

GateInv == GateTypeOK /\ DeniedOK /\ Denied /\ Earned /\ LegsJoinFairly

\* What the constants of the gate are.
LEMMA GateConstants ==
    /\ JoinStreakMin \in Nat /\ MissPenalty \in Nat /\ ProbationAfter \in Nat
    /\ LegTier \in [GateLegs -> Nat]
BY GateAssumption

\* The gate's invariant holds at first.
LEMMA GateInitInv == GateInit => GateInv
BY GateConstants
   DEF GateInit, GateInv, GateTypeOK, DeniedOK, Denied, Earned, LegsJoinFairly, GateFeedsTheBond,
       HoldIsBounded, Readings, IsDown, Failing, NotHeld

\* A pass leaves a leg with a streak and a hold of their types; a leg it gives no full share
\* stays flapped if it was, and one it gives none is no longer held than its bound.
LEMMA GatedLeg ==
    ASSUME GateTypeOK, NEW p \in GateLegs, NEW r \in Readings
    PROVE  /\ Gated(p, r).streak \in 0 .. JoinStreakMin + 1
           /\ Gated(p, r).held \in {NotHeld} \cup 0 .. ProbationAfter
           /\ Gated(p, r).share \in {"none", "floor", "full"}
           /\ Gated(p, r).probation \in BOOLEAN /\ Gated(p, r).owns \in BOOLEAN
           /\ Gated(p, r).flapped \in BOOLEAN
           /\ Gated(p, r).probation \/ Gated(p, r).owns => Gated(p, r).flapped
           /\ Gated(p, r).flapped => Gated(p, r).share # "full"
           /\ Gated(p, r).share = "full" <=> r \notin Failing /\ ~Holds(p, streak[p] + Points(r))
           /\ Gated(p, r).share = "full" => Gated(p, r).streak = 0
           /\ p \in flapped /\ ~Gated(p, r).flapped => streak[p] + Points(r) >= JoinStreakMin
           /\ r \in Failing => Gated(p, r).streak = 0 \/ Gated(p, r).streak = Floored(streak[p] - MissPenalty)
           /\ r \notin Failing /\ Gated(p, r).share # "full" =>
                 /\ Gated(p, r).streak = streak[p] + Points(r)
                 /\ Gated(p, r).streak < JoinStreakMin
                 /\ Gated(p, r).held = HeldFor(p)
           /\ r \in Failing => Gated(p, r).held = Aged(held[p]) /\ Gated(p, r).share = "none"
           /\ (r \notin Failing /\ Gated(p, r).share = "none" /\ (p \in ever_answered \/ r \in Answers))
                 => HeldFor(p) < ProbationAfter
<1> DEFINE n == streak[p] + Points(r)
           proven == p \in ever_answered \/ r \in Answers
<1>1. /\ streak[p] \in Nat /\ streak[p] <= JoinStreakMin + 1 /\ n \in Nat
      /\ held[p] \in {NotHeld} \cup 0 .. ProbationAfter
    BY GateConstants DEF GateTypeOK, Points
<1>2. /\ Aged(held[p]) \in {NotHeld} \cup 0 .. ProbationAfter
      /\ HeldFor(p) \in 0 .. ProbationAfter
    BY <1>1, GateConstants DEF Aged, HeldFor, Capped, NotHeld
<1>3. CASE r \in Failing
  <2>1. Gated(p, r) =
          [streak |-> Debit(streak[p], proven), share |-> "none",
           flapped |-> p \in flapped \/ p \in judged \/ r \in IsDown,
           held |-> Aged(held[p]), probation |-> FALSE, owns |-> FALSE]
      BY <1>3 DEF Gated, FailedAge
  <2>2. Debit(streak[p], proven) \in 0 .. JoinStreakMin + 1
      BY <1>1, GateConstants DEF Debit, Floored
  <2> HIDE DEF n, proven
  <2>3. Debit(streak[p], proven) = 0 \/ Debit(streak[p], proven) = Floored(streak[p] - MissPenalty)
      BY DEF Debit
  <2> DEFINE b == p \in flapped \/ p \in judged \/ r \in IsDown
  <2>4. b \in BOOLEAN /\ (p \in flapped => b)
      OBVIOUS
  <2>6. Gated(p, r) = [streak |-> Debit(streak[p], proven), share |-> "none", flapped |-> b,
                       held |-> Aged(held[p]), probation |-> FALSE, owns |-> FALSE]
      BY <2>1
  <2> HIDE DEF b
  <2>5. /\ Gated(p, r).streak = Debit(streak[p], proven) /\ Gated(p, r).share = "none"
        /\ Gated(p, r).held = Aged(held[p])
        /\ Gated(p, r).flapped \in BOOLEAN /\ (p \in flapped => Gated(p, r).flapped)
        /\ Gated(p, r).probation = FALSE /\ Gated(p, r).owns = FALSE
      BY <2>4, <2>6
  <2> QED
      BY <1>2, <1>3, <2>2, <2>3, <2>5
<1>4. CASE r \notin Failing /\ Holds(p, n)
  <2>1. Gated(p, r) =
          [streak |-> n, flapped |-> TRUE, held |-> HeldFor(p), owns |-> TRUE,
           share |-> IF OnProbation(proven, HeldFor(p)) THEN "floor" ELSE "none",
           probation |-> OnProbation(proven, HeldFor(p))]
      BY <1>4 DEF Gated
  <2>2. n < JoinStreakMin /\ n \in 0 .. JoinStreakMin + 1
      BY <1>1, <1>4, GateConstants DEF Holds
  <2>3. OnProbation(proven, HeldFor(p)) <=> proven /\ HeldFor(p) >= ProbationAfter
      BY DEF OnProbation
  <2>4. OnProbation(proven, HeldFor(p)) \in BOOLEAN
      BY DEF OnProbation
  <2>5. Holds(p, streak[p] + Points(r))
      BY <1>4
  <2> QED
      BY <1>1, <1>2, <1>4, <2>1, <2>2, <2>3, <2>4, <2>5, GateConstants
<1>5. CASE r \notin Failing /\ ~Holds(p, n)
  <2>1. Gated(p, r) = [streak |-> 0, share |-> "full", flapped |-> FALSE,
                       held |-> NotHeld, probation |-> FALSE, owns |-> FALSE]
      BY <1>5 DEF Gated
  <2>2. p \in flapped => n >= JoinStreakMin
      BY <1>1, <1>5, GateConstants DEF Holds
  <2> QED
      BY <1>1, <1>5, <2>1, <2>2, GateConstants
<1> QED
    BY <1>3, <1>4, <1>5

\* The valve releases one leg that is not down when no leg has a share, or none at all.
LEMMA ReleasedOne ==
    ASSUME NEW g, NEW r, NEW proven, NEW best \in Released(g, r, proven)
    PROVE  \/ /\ best = {}
              /\ (\A p \in GateLegs : r[p] \in IsDown) \/ (\E p \in GateLegs : g[p].share # "none")
           \/ \E c \in GateLegs :
                 best = {c} /\ r[c] \notin IsDown /\ \A p \in GateLegs : g[p].share = "none"
BY DEF Released

\* What one pass makes of each leg.
LEMMA PassStep ==
    ASSUME GateInv, NEW r \in [GateLegs -> Readings], GatePass(r)
    PROVE  GateInv' /\ \A p \in flapped \ flapped' :
                          \/ merit[p] + Points(reading'[p]) >= JoinStreakMin
                          \/ p \in by_valve \cup by_valve'
<1> DEFINE proven == ever_answered \cup {p \in GateLegs : r[p] \in Answers}
<1>1. PICK g \in {[p \in GateLegs |-> Gated(p, r[p])]} : \E best \in Released(g, r, proven) : Settle(r, g, best, proven)
    BY DEF GatePass
<1>2. PICK best \in Released(g, r, proven) : Settle(r, g, best, proven)
    BY <1>1
<1>3. /\ reading' = r /\ settled' = TRUE /\ judged' = GateLegs /\ ever_answered' = proven
      /\ streak' = [p \in GateLegs |-> IF p \in best THEN JoinStreakMin ELSE g[p].streak]
      /\ flapped' = {p \in GateLegs : g[p].flapped} \ best
      /\ held' = [p \in GateLegs |-> IF p \in best THEN NotHeld ELSE g[p].held]
      /\ probation' = {p \in GateLegs : g[p].probation} \ best
      /\ share' = [p \in GateLegs |-> IF p \in best THEN "floor" ELSE g[p].share]
      /\ owns_error' = {p \in GateLegs : g[p].owns} \ best
      /\ by_valve' = {p \in by_valve : g[p].share # "full"} \cup best
      /\ merit' = [p \in GateLegs |->
                    IF p \in best \/ g[p].share = "full" THEN 0
                    ELSE IF r[p] \in Failing THEN Floored(merit[p] - MissPenalty)
                    ELSE Capped(merit[p] + Points(r[p]), JoinStreakMin)]
      /\ denied' = [p \in GateLegs |->
                    IF share'[p] # "none" THEN NotHeld
                    ELSE IF denied[p] # NotHeld THEN Aged(denied[p])
                    ELSE IF p \in proven /\ r[p] \notin Failing THEN 0 ELSE NotHeld]
    BY <1>2 DEF Settle
<1>4. best \subseteq GateLegs /\ \A p \in best : g[p].share = "none"
    BY <1>2, ReleasedOne
<1>5. proven \subseteq GateLegs /\ \A p \in GateLegs : p \in proven <=> p \in ever_answered \/ r[p] \in Answers
    BY DEF GateInv, GateTypeOK
<1> HIDE DEF proven
<1>6. ASSUME NEW p \in GateLegs
      PROVE  /\ g[p] = Gated(p, r[p]) /\ r[p] \in Readings
             /\ streak[p] \in 0 .. JoinStreakMin + 1 /\ merit[p] \in 0 .. JoinStreakMin
             /\ held[p] \in {NotHeld} \cup 0 .. ProbationAfter
             /\ denied[p] \in {NotHeld} \cup 0 .. ProbationAfter
             /\ denied[p] # NotHeld => held[p] # NotHeld /\ denied[p] <= held[p]
             /\ p \notin by_valve => streak[p] <= merit[p]
    BY <1>1, <1>6 DEF GateInv, GateTypeOK, DeniedOK, Denied, Earned
<1>7. ASSUME NEW p \in GateLegs
      PROVE  /\ g[p].streak \in 0 .. JoinStreakMin + 1
             /\ g[p].held \in {NotHeld} \cup 0 .. ProbationAfter
             /\ g[p].share \in {"none", "floor", "full"}
             /\ g[p].probation \in BOOLEAN /\ g[p].owns \in BOOLEAN /\ g[p].flapped \in BOOLEAN
             /\ g[p].probation \/ g[p].owns => g[p].flapped
             /\ g[p].flapped => g[p].share # "full"
             /\ g[p].share = "full" => g[p].streak = 0
             /\ p \in flapped /\ ~g[p].flapped => streak[p] + Points(r[p]) >= JoinStreakMin
    BY <1>6, <1>7, GatedLeg DEF GateInv
<1>8. ASSUME NEW p \in GateLegs
      PROVE  /\ r[p] \in Failing => g[p].streak = 0 \/ g[p].streak = Floored(streak[p] - MissPenalty)
             /\ r[p] \notin Failing /\ g[p].share # "full" =>
                   /\ g[p].streak = streak[p] + Points(r[p])
                   /\ g[p].streak < JoinStreakMin
                   /\ g[p].held = HeldFor(p)
             /\ r[p] \in Failing => g[p].held = Aged(held[p]) /\ g[p].share = "none"
             /\ r[p] \notin Failing /\ g[p].share = "none" /\ p \in proven => HeldFor(p) < ProbationAfter
    BY <1>5, <1>6, <1>8, GatedLeg DEF GateInv
<1>9. ASSUME NEW p \in GateLegs
      PROVE  /\ merit'[p] \in 0 .. JoinStreakMin
             /\ p \notin by_valve' => streak'[p] <= merit'[p]
  <2>1. Points(r[p]) \in 1 .. 2
      BY DEF Points
  <2>2. /\ merit'[p] = IF p \in best \/ g[p].share = "full" THEN 0
                    ELSE IF r[p] \in Failing THEN Floored(merit[p] - MissPenalty)
                    ELSE Capped(merit[p] + Points(r[p]), JoinStreakMin)
        /\ streak'[p] = IF p \in best THEN JoinStreakMin ELSE g[p].streak
      BY <1>3
  <2>3. p \notin by_valve' => p \notin best /\ (p \notin by_valve \/ g[p].share = "full")
      BY <1>3
  <2>4. CASE p \in best \/ g[p].share = "full"
    <3>1. merit'[p] = 0
        BY <2>2, <2>4
    <3>2. p \notin by_valve' => streak'[p] = 0
        BY <1>7, <2>2, <2>3, <2>4
    <3> QED
        BY <3>1, <3>2, GateConstants
  <2>5. CASE ~(p \in best \/ g[p].share = "full") /\ r[p] \in Failing
    <3>1. merit'[p] = Floored(merit[p] - MissPenalty) /\ streak'[p] = g[p].streak
        BY <2>2, <2>5
    <3> QED
        BY <1>6, <1>8, <2>3, <2>5, <3>1, GateConstants DEF Floored
  <2>6. CASE ~(p \in best \/ g[p].share = "full") /\ r[p] \notin Failing
    <3>1. merit'[p] = Capped(merit[p] + Points(r[p]), JoinStreakMin) /\ streak'[p] = g[p].streak
        BY <2>2, <2>6
    <3> QED
        BY <1>6, <1>8, <2>1, <2>3, <2>6, <3>1, GateConstants DEF Capped
  <2> QED
      BY <2>4, <2>5, <2>6
<1>10. ASSUME NEW p \in GateLegs
       PROVE  /\ denied'[p] \in {NotHeld} \cup 0 .. ProbationAfter
              /\ denied'[p] # NotHeld => held'[p] # NotHeld /\ denied'[p] <= held'[p]
              /\ p \in proven /\ r[p] \notin Failing /\ share'[p] = "none" => denied'[p] \in 0 .. ProbationAfter - 1
  <2>1. /\ denied'[p] = IF share'[p] # "none" THEN NotHeld
                    ELSE IF denied[p] # NotHeld THEN Aged(denied[p])
                    ELSE IF p \in proven /\ r[p] \notin Failing THEN 0 ELSE NotHeld
        /\ share'[p] = IF p \in best THEN "floor" ELSE g[p].share
        /\ held'[p] = IF p \in best THEN NotHeld ELSE g[p].held
      BY <1>3
  <2>2. CASE share'[p] # "none"
    <3>1. denied'[p] = NotHeld
        BY <2>1, <2>2
    <3> QED
        BY <2>2, <3>1
  <2>3. CASE share'[p] = "none"
    <3>1. p \notin best /\ g[p].share = "none" /\ held'[p] = g[p].held
        BY <2>1, <2>3
    <3>2. /\ r[p] \in Failing => g[p].held = Aged(held[p])
          /\ r[p] \notin Failing => g[p].held = HeldFor(p)
          /\ r[p] \notin Failing /\ p \in proven => HeldFor(p) < ProbationAfter
        BY <1>8, <3>1
    <3>3. CASE denied[p] # NotHeld
      <4>1. denied'[p] = Aged(denied[p])
          BY <2>1, <2>3, <3>3
      <4> QED
          BY <1>6, <3>1, <3>2, <3>3, <4>1, GateConstants DEF Aged, Capped, HeldFor, NotHeld
    <3>4. CASE denied[p] = NotHeld /\ p \in proven /\ r[p] \notin Failing
      <4>1. denied'[p] = 0
          BY <2>1, <2>3, <3>4
      <4> QED
          BY <1>6, <3>1, <3>2, <3>4, <4>1, GateConstants DEF Aged, Capped, HeldFor, NotHeld
    <3>5. CASE denied[p] = NotHeld /\ ~(p \in proven /\ r[p] \notin Failing)
      <4>1. denied'[p] = NotHeld
          BY <2>1, <2>3, <3>5
      <4> QED
          BY <3>5, <4>1
    <3> QED
        BY <3>3, <3>4, <3>5
  <2> QED
      BY <2>2, <2>3
<1>11. GateTypeOK'
  <2>1. streak' \in [GateLegs -> 0 .. JoinStreakMin + 1]
      BY <1>3, <1>7, GateConstants
  <2>2. merit' \in [GateLegs -> 0 .. JoinStreakMin]
    <3>1. merit' = [p \in GateLegs |-> merit'[p]]
        BY <1>3
    <3> QED
        BY <1>9, <3>1
  <2>3. held' \in [GateLegs -> {NotHeld} \cup 0 .. ProbationAfter]
      BY <1>3, <1>7
  <2>4. share' \in [GateLegs -> {"none", "floor", "full"}]
      BY <1>3, <1>7
  <2>5. probation' \subseteq flapped' /\ owns_error' \subseteq flapped'
      BY <1>3, <1>7
  <2>6. /\ judged' \subseteq GateLegs /\ flapped' \subseteq GateLegs /\ ever_answered' \subseteq GateLegs
        /\ by_valve' \subseteq GateLegs
      BY <1>3, <1>4, <1>5 DEF GateInv, GateTypeOK
  <2> QED
      BY <1>3, <2>1, <2>2, <2>3, <2>4, <2>5, <2>6 DEF GateTypeOK
<1>12. DeniedOK' /\ Denied' /\ Earned'
  <2>1. denied' = [p \in GateLegs |-> denied'[p]]
      BY <1>3
  <2>2. DeniedOK'
      BY <1>10, <2>1 DEF DeniedOK
  <2> QED
      BY <1>9, <1>10, <2>2 DEF Denied, Earned
<1>13. GateFeedsTheBond'
  <2>1. ASSUME NEW p \in GateLegs, r[p] \notin IsDown PROVE \E q \in GateLegs : share'[q] # "none"
      BY <1>2, <1>3, <2>1, ReleasedOne
  <2>2. \A p \in flapped' : share'[p] # "full"
      BY <1>3, <1>7
  <2> QED
      BY <1>3, <2>1, <2>2 DEF GateFeedsTheBond
<1>14. HoldIsBounded'
    BY <1>3, <1>5, <1>10 DEF HoldIsBounded
<1>15. ASSUME NEW p \in flapped \ flapped'
       PROVE  merit[p] + Points(reading'[p]) >= JoinStreakMin \/ p \in by_valve \cup by_valve'
  <2>1. p \in GateLegs
      BY DEF GateInv, GateTypeOK
  <2>2. CASE p \in best
      BY <1>3, <2>2
  <2>3. CASE p \notin best
    <3>1. streak[p] + Points(r[p]) >= JoinStreakMin
        BY <1>3, <1>7, <2>1, <2>3
    <3>2. Points(r[p]) \in 1 .. 2
        BY DEF Points
    <3> QED
        BY <1>3, <1>6, <2>1, <3>1, <3>2, GateConstants
  <2> QED
      BY <2>2, <2>3
<1> QED
    BY <1>11, <1>12, <1>13, <1>14, <1>15 DEF GateInv, LegsJoinFairly

\* A withdrawal denies no leg more than it was denied.
LEMMA WithdrawStep ==
    ASSUME GateInv, NEW p \in GateLegs, NEW kept \in SUBSET GateLegs, Withdraw(p, kept)
    PROVE  GateInv' /\ flapped' = flapped
<1>1. /\ reading' = [reading EXCEPT ![p] = "gone"]
      /\ share' = [q \in GateLegs |->
                    IF reading'[q] \in Failing THEN "none"
                    ELSE IF q \in kept /\ share[q] # "none" THEN share[q] ELSE "full"]
      /\ settled' = FALSE
      /\ denied' = [q \in GateLegs |-> IF share'[q] # "none" THEN NotHeld ELSE denied[q]]
      /\ UNCHANGED <<streak, judged, flapped, held, probation, ever_answered, owns_error, merit, by_valve>>
    BY DEF Withdraw
<1>2. share' \in [GateLegs -> {"none", "floor", "full"}]
  <2>1. ASSUME NEW q \in GateLegs
        PROVE  (IF reading'[q] \in Failing THEN "none"
                    ELSE IF q \in kept /\ share[q] # "none" THEN share[q] ELSE "full") \in {"none", "floor", "full"}
    <3>1. share[q] \in {"none", "floor", "full"}
        BY DEF GateInv, GateTypeOK
    <3> QED
        BY <3>1
  <2> QED
      BY <1>1, <2>1
<1>3. reading' \in [GateLegs -> Readings]
    BY <1>1 DEF GateInv, GateTypeOK, Readings
<1>4. GateTypeOK'
    BY <1>1, <1>2, <1>3 DEF GateInv, GateTypeOK
<1>5. DeniedOK' /\ Denied' /\ Earned'
    BY <1>1 DEF GateInv, DeniedOK, Denied, Earned
<1>6. LegsJoinFairly'
    BY <1>1 DEF LegsJoinFairly, GateFeedsTheBond, HoldIsBounded
<1> QED
    BY <1>1, <1>4, <1>5, <1>6 DEF GateInv

\* Every step of the gate keeps it, and lets no leg back in that did not earn it.
LEMMA GateStepInv ==
    ASSUME GateInv, [GateNext]_gateVars
    PROVE  /\ GateInv'
           /\ \A p \in flapped \ flapped' :
                 \/ merit[p] + Points(reading'[p]) >= JoinStreakMin
                 \/ p \in by_valve \cup by_valve'
<1>1. CASE UNCHANGED gateVars
    BY <1>1 DEF gateVars, GateInv, GateTypeOK, DeniedOK, Denied, Earned, LegsJoinFairly,
                GateFeedsTheBond, HoldIsBounded
<1>2. CASE GateNext
    BY <1>2, PassStep, WithdrawStep DEF GateNext
<1> QED
    BY <1>1, <1>2

-----------------------------------------------------------------------------
\* The links.

\* Under each id, what was measured was measured on its last owner; a leg that holds an id
\* owns it, a link is of the leg that holds its id, and an id without a link has no probes
\* under way.
IdOwned(i) ==
    /\ \A l \in LinkLegs : transport_ids[l] = i => pid_owner[i] = l
    /\ sent_on[i] \subseteq {pid_owner[i]} /\ loss_of[i] \subseteq {pid_owner[i]}
    /\ i \in transport_links => pid_owner[i] \in LinkLegs /\ transport_ids[pid_owner[i]] = i
    /\ i \notin transport_links => links[i] = NoLink
    /\ i \notin transport_links /\ closing # i => sent_on[i] = {}
    /\ links[i] # NoLink => links[i].leg = pid_owner[i]
    /\ i \in healthy => links[i] # NoLink \/ closing = i

LinkMaps ==
    /\ closing \in Pids \cup {NoPid}
    /\ links = [i \in Pids |-> links[i]] /\ sent_on = [i \in Pids |-> sent_on[i]]
    /\ loss_of = [i \in Pids |-> loss_of[i]]
    /\ transport_ids = [l \in LinkLegs |-> transport_ids[l]]

LinkInv == LinkTypeOK /\ LinkMaps /\ \A i \in Pids : IdOwned(i)

\* What the constants of the links are.
LEMMA LinkConstants ==
    /\ MaxPathId \in Nat /\ Nobody \notin LinkLegs /\ Nobody \notin Devices /\ NoPid \notin Pids
BY LinkAssumption DEF NoPid, Pids

\* The links' invariant holds at first.
LEMMA LinkInitInv == LinkInit => LinkInv
BY LinkConstants DEF LinkInit, LinkInv, LinkTypeOK, LinkMaps, IdOwned, Pids

\* The lowest free id is free, and there is one among the ids and the next.
LEMMA LowestIsFree ==
    ASSUME LinkTypeOK, NEW l \in LinkLegs
    PROVE  LowestFree(l) \in 0 .. MaxPathId + 1 /\ \A m \in LinkLegs : transport_ids[m] # LowestFree(l)
<1> DEFINE taken == {transport_ids[m] : m \in LinkLegs}
           free == {i \in Nat : i \notin taken}
<1>1. MaxPathId + 1 \in free
    BY LinkConstants DEF LinkTypeOK, Pids, NoPid
<1>2. Min(free) \in free /\ \A j \in free : Min(free) <= j
    BY <1>1, LeastExists
<1>3. Min(free) \in 0 .. MaxPathId + 1 /\ Min(free) \notin taken
    BY <1>1, <1>2, LinkConstants
<1>4. \A j \in 0 .. Min(free) - 1 : j \in taken
    BY <1>2, <1>3
<1>5. /\ LowestFree(l) \in 0 .. MaxPathId + 1
      /\ LowestFree(l) \notin taken
    BY <1>3, <1>4 DEF LowestFree
<1> QED
    BY <1>5

\* What the links promise follows.
LEMMA LinkInvPromises == LinkInv => LinkTypeOK /\ IdStandsForOneLeg
<1> SUFFICES ASSUME LinkInv, NEW i \in Pids
             PROVE  LET holders == {l \in LinkLegs : transport_ids[l] = i}
                    IN  /\ Cardinality(holders) <= 1
                        /\ links[i] # NoLink => links[i].leg \in holders /\ i \in transport_links
                        /\ i \in healthy => links[i] # NoLink \/ closing = i
                        /\ \A l \in holders : loss_of[i] \subseteq {l}
    BY DEF LinkInv, IdStandsForOneLeg
<1> DEFINE holders == {l \in LinkLegs : transport_ids[l] = i}
<1>1. IdOwned(i)
    BY DEF LinkInv
<1>2. holders = {} \/ holders = {pid_owner[i]}
    BY <1>1 DEF IdOwned
<1>3. Cardinality(holders) <= 1
  <2>1. CASE holders = {}
      BY <2>1, FS_EmptySet
  <2>2. CASE holders = {pid_owner[i]}
      BY <2>2, FS_Singleton
  <2> QED
      BY <1>2, <2>1, <2>2
<1> QED
    BY <1>1, <1>3 DEF IdOwned

\* remove_link up to its lock, of a link that is there.
LEMMA StartRemoveKeeps ==
    ASSUME LinkInv, closing = NoPid, NEW i \in transport_links, StartRemove(i), Forgotten(i),
           pid_owner' = pid_owner, NEW l \in LinkLegs,
           transport_ids' = transport_ids \/
              (transport_ids[l] = i /\ transport_ids' = [transport_ids EXCEPT ![l] = NoPid])
    PROVE  LinkMaps' /\ \A j \in Pids : IdOwned(j)'
<1>1. i \in Pids
    BY DEF LinkInv, LinkTypeOK
<1>2. /\ links' = [links EXCEPT ![i] = NoLink] /\ closing' = i
      /\ transport_links' = transport_links \ {i} /\ UNCHANGED <<healthy, loss_of, sent_on>>
    BY DEF StartRemove, Forgotten
<1>3. LinkMaps'
    BY <1>1, <1>2 DEF LinkInv, LinkMaps
<1>4. ASSUME NEW j \in Pids PROVE IdOwned(j)'
  <2>1. IdOwned(j) /\ IdOwned(i)
      BY <1>1 DEF LinkInv
  <2>2. \A m \in LinkLegs : transport_ids'[m] = j => transport_ids[m] = j
      BY LinkConstants DEF LinkInv, LinkMaps
  <2>3. j # i => links'[j] = links[j] /\ (j \in transport_links' <=> j \in transport_links)
      BY <1>2 DEF LinkInv, LinkMaps
  <2>4. links'[i] = NoLink /\ i \notin transport_links'
      BY <1>1, <1>2 DEF LinkInv, LinkMaps
  <2>5. j # i /\ j \in transport_links => transport_ids'[pid_owner[j]] = j
      BY <2>1 DEF IdOwned, LinkInv, LinkMaps
  <2>6. CASE j = i
      BY <1>2, <2>1, <2>2, <2>4, <2>6 DEF IdOwned
  <2>7. CASE j # i
      BY <1>1, <1>2, <2>1, <2>2, <2>3, <2>5, <2>7, LinkConstants DEF IdOwned
  <2> QED
      BY <2>6, <2>7
<1> QED
    BY <1>3, <1>4

\* A leg comes, is matched to a device, or expires.
LEMMA RosterSteps ==
    ASSUME LinkInv, NEW l \in LinkLegs, NEW d \in Devices \cup {Nobody},
           LegAppears(l) \/ Expire(l) \/ Match(l, d)
    PROVE  LinkInv'
<1>1. CASE LegAppears(l)
    BY <1>1 DEF LegAppears, LinkInv, LinkTypeOK, LinkMaps, IdOwned, passVars, peerVars
<1>2. CASE Match(l, d)
    BY <1>2 DEF Match, LinkInv, LinkTypeOK, LinkMaps, IdOwned, passVars, peerVars
<1>3. CASE Expire(l)
  <2> DEFINE i == transport_ids[l]
  <2>1. /\ todo = {} /\ closing = NoPid /\ todo' = todo /\ pid_owner' = pid_owner
        /\ roster' = roster \ {l}
        /\ device' = [device EXCEPT ![l] = Nobody]
        /\ transport_ids' = [transport_ids EXCEPT ![l] = NoPid]
        /\ IF i \in transport_links
           THEN Forgotten(i) /\ StartRemove(i)
           ELSE UNCHANGED <<transport_links, link_remotes, closing, peerVars>>
      BY <1>3 DEF Expire, Between, passVars
  <2>2. CASE i \in transport_links
    <3>1. LinkMaps' /\ \A j \in Pids : IdOwned(j)'
        BY <2>1, <2>2, StartRemoveKeeps
    <3>2. LinkTypeOK'
        BY <2>1, <2>2 DEF LinkInv, LinkTypeOK, Forgotten, StartRemove
    <3> QED
        BY <3>1, <3>2 DEF LinkInv
  <2>3. CASE i \notin transport_links
    <3>1. UNCHANGED <<transport_links, link_remotes, closing, links, healthy, heard, rtt_of, loss_of, sent_on>>
        BY <2>1, <2>3 DEF peerVars
    <3>2. LinkTypeOK' /\ LinkMaps'
        BY <2>1, <3>1 DEF LinkInv, LinkTypeOK, LinkMaps
    <3>3. ASSUME NEW j \in Pids PROVE IdOwned(j)'
      <4>1. IdOwned(j)
          BY DEF LinkInv
      <4>2. \A m \in LinkLegs : transport_ids'[m] = j => transport_ids[m] = j
          BY <2>1, LinkConstants DEF LinkInv, LinkMaps
      <4>3. j \in transport_links => transport_ids'[pid_owner[j]] = j
        <5> SUFFICES ASSUME j \in transport_links PROVE transport_ids'[pid_owner[j]] = j
            OBVIOUS
        <5>1. pid_owner[j] \in LinkLegs /\ transport_ids[pid_owner[j]] = j
            BY <4>1 DEF IdOwned
        <5>2. pid_owner[j] # l
            BY <2>3, <5>1
        <5> QED
            BY <2>1, <5>1, <5>2 DEF LinkInv, LinkMaps
      <4> QED
          BY <2>1, <3>1, <4>1, <4>2, <4>3 DEF IdOwned
    <3> QED
        BY <3>2, <3>3 DEF LinkInv
  <2> QED
      BY <2>2, <2>3
<1> QED
    BY <1>1, <1>2, <1>3

\* A pass begins, a removal ends, probes go out, a reply comes, a link falls silent.
LEMMA PeerSteps ==
    ASSUME LinkInv, Pass \/ FinishRemove \/ SendKeepalives
                    \/ (\E i \in Pids, l \in LinkLegs : Reply(i, l)) \/ (\E i \in Pids : LinkSilent(i))
    PROVE  LinkInv'
<1>1. CASE Pass
  <2>1. PICK v, h, kept : StartPass(v, kept, h)
      BY <1>1 DEF Pass
  <2>2. /\ todo' = roster
        /\ UNCHANGED <<roster, device, transport_ids, pid_owner, transport_links, closing,
                       links, healthy, loss_of, sent_on>>
      BY <2>1 DEF StartPass, peerVars
  <2> QED
      BY <2>2 DEF LinkInv, LinkTypeOK, LinkMaps, IdOwned
<1>2. CASE FinishRemove
  <2>1. /\ closing \in Pids /\ closing' = NoPid /\ sent_on' = [sent_on EXCEPT ![closing] = {}]
        /\ healthy' = healthy \ {closing}
        /\ UNCHANGED <<agentVars, passVars, links, heard, rtt_of, loss_of>>
      BY <1>2 DEF FinishRemove, LinkInv, LinkMaps
  <2>2. LinkTypeOK' /\ LinkMaps'
      BY <2>1 DEF LinkInv, LinkTypeOK, LinkMaps, agentVars, passVars
  <2>3. ASSUME NEW j \in Pids PROVE IdOwned(j)'
    <3>1. IdOwned(j)
        BY DEF LinkInv
    <3>2. sent_on'[j] = IF j = closing THEN {} ELSE sent_on[j]
        BY <2>1 DEF LinkInv, LinkMaps
    <3> QED
        BY <2>1, <3>1, <3>2 DEF IdOwned, agentVars
  <2> QED
      BY <2>2, <2>3 DEF LinkInv
<1>3. CASE SendKeepalives
  <2>1. /\ sent_on' = [i \in Pids |-> IF links[i] = NoLink THEN sent_on[i]
                                      ELSE sent_on[i] \cup {links[i].leg}]
        /\ UNCHANGED <<agentVars, passVars, closing, links, healthy, heard, rtt_of, loss_of>>
      BY <1>3 DEF SendKeepalives
  <2>2. ASSUME NEW j \in Pids PROVE IdOwned(j)' /\ sent_on'[j] \subseteq LinkLegs
    <3>1. IdOwned(j) /\ sent_on[j] \subseteq LinkLegs
        BY DEF LinkInv, LinkTypeOK
    <3>2. CASE links[j] = NoLink
        BY <2>1, <3>1, <3>2 DEF IdOwned, agentVars
    <3>3. CASE links[j] # NoLink
      <4>1. links[j].leg = pid_owner[j] /\ j \in transport_links /\ pid_owner[j] \in LinkLegs
          BY <3>1, <3>3 DEF IdOwned
      <4>2. sent_on'[j] = sent_on[j] \cup {pid_owner[j]}
          BY <2>1, <3>3, <4>1
      <4> QED
          BY <2>1, <3>1, <4>1, <4>2 DEF IdOwned, agentVars
    <3> QED
        BY <3>2, <3>3
  <2>3. LinkTypeOK' /\ LinkMaps'
      BY <2>1, <2>2 DEF LinkInv, LinkTypeOK, LinkMaps, agentVars, passVars
  <2> QED
      BY <2>2, <2>3 DEF LinkInv
<1>4. ASSUME NEW i \in Pids, NEW l \in LinkLegs, Reply(i, l) PROVE LinkInv'
  <2>1. /\ l \in sent_on[i]
        /\ loss_of' = [loss_of EXCEPT ![i] = loss_of[i] \cup {l}]
        /\ sent_on' = [sent_on EXCEPT ![i] = sent_on[i] \ {l}]
        /\ UNCHANGED <<agentVars, passVars, closing, links, healthy>>
      BY <1>4 DEF Reply
  <2>2. LinkTypeOK' /\ LinkMaps'
      BY <2>1 DEF LinkInv, LinkTypeOK, LinkMaps, agentVars, passVars
  <2>3. ASSUME NEW j \in Pids PROVE IdOwned(j)'
    <3>1. IdOwned(j)
        BY DEF LinkInv
    <3>2. /\ sent_on'[j] \subseteq sent_on[j]
          /\ loss_of'[j] \subseteq loss_of[j] \cup sent_on[j]
        BY <2>1 DEF LinkInv, LinkMaps
    <3> QED
        BY <2>1, <3>1, <3>2 DEF IdOwned, agentVars
  <2> QED
      BY <2>2, <2>3 DEF LinkInv
<1>5. ASSUME NEW i \in Pids, LinkSilent(i) PROVE LinkInv'
    BY <1>5 DEF LinkSilent, LinkInv, LinkTypeOK, LinkMaps, IdOwned, agentVars, passVars
<1> QED
    BY <1>1, <1>2, <1>3, <1>4, <1>5

\* The next leg gets an id, is dropped, skipped or attached.
LEMMA ReconcileSteps ==
    ASSUME LinkInv, NEW l \in LinkLegs,
           Allocate(l) \/ Drop(l) \/ Skip(l) \/ \E opens \in BOOLEAN : Attach(l, opens)
    PROVE  LinkInv'
<1>1. CASE Allocate(l)
  <2> DEFINE i == LowestFree(l)
  <2>1. /\ closing = NoPid
        /\ UNCHANGED <<roster, device, verdict, transport_links, link_remotes, closing, links, healthy, heard, rtt_of, sent_on>>
        /\ IF i > MaxPathId
           THEN /\ GoesOn({})
                /\ UNCHANGED <<transport_ids, pid_owner, loss_of>>
           ELSE /\ transport_ids' = [transport_ids EXCEPT ![l] = i]
                /\ pid_owner' = [pid_owner EXCEPT ![i] = l]
                /\ loss_of' = Forget(i, l)
                /\ UNCHANGED passVars
      BY <1>1 DEF Allocate
  <2>2. CASE i > MaxPathId
    <3>1. LinkTypeOK'
        BY <2>1, <2>2 DEF GoesOn, LinkInv, LinkTypeOK
    <3>2. LinkMaps'
        BY <2>1, <2>2 DEF LinkInv, LinkMaps
    <3>3. \A j \in Pids : IdOwned(j)'
        BY <2>1, <2>2 DEF LinkInv, IdOwned
    <3> QED
        BY <3>1, <3>2, <3>3 DEF LinkInv
  <2>3. CASE ~(i > MaxPathId)
    <3>1. i \in Pids /\ \A m \in LinkLegs : transport_ids[m] # i
      <4>1. i \in 0 .. MaxPathId + 1 /\ \A m \in LinkLegs : transport_ids[m] # i
          BY LowestIsFree DEF LinkInv
      <4> QED
          BY <2>3, <4>1, LinkConstants DEF Pids
    <3> HIDE DEF i
    <3>2. /\ transport_ids' = [transport_ids EXCEPT ![l] = i]
          /\ pid_owner' = [pid_owner EXCEPT ![i] = l]
          /\ loss_of' = Forget(i, l) /\ todo' = todo
        BY <2>1, <2>3 DEF passVars
    <3>3. IdOwned(i)
        BY <3>1 DEF LinkInv
    <3>4. i \notin transport_links /\ links[i] = NoLink /\ sent_on[i] = {}
        BY <2>1, <3>1, <3>3, LinkConstants DEF IdOwned, NoPid, Pids
    <3>5. \A j \in Pids : loss_of'[j] = IF j = i /\ pid_owner[i] \notin {Nobody, l} THEN {} ELSE loss_of[j]
        BY <3>1, <3>2 DEF Forget, LinkInv, LinkMaps
    <3>6. loss_of'[i] \subseteq {l}
        BY <3>1, <3>3, <3>5, LinkConstants DEF IdOwned, LinkInv, LinkTypeOK
    <3>7. \A m \in LinkLegs : transport_ids'[m] = IF m = l THEN i ELSE transport_ids[m]
        BY <3>2 DEF LinkInv, LinkMaps
    <3>8. \A j \in Pids : pid_owner'[j] = IF j = i THEN l ELSE pid_owner[j]
        BY <3>2 DEF LinkInv, LinkTypeOK
    <3>9. LinkTypeOK'
      <4>1. \A j \in Pids : loss_of'[j] \subseteq LinkLegs
          BY <3>5 DEF LinkInv, LinkTypeOK
      <4> QED
          BY <2>1, <3>1, <3>2, <4>1 DEF LinkInv, LinkTypeOK
    <3>10. LinkMaps'
        BY <2>1, <3>2 DEF LinkInv, LinkMaps, Forget
    <3>11. ASSUME NEW j \in Pids PROVE IdOwned(j)'
      <4>1. CASE j = i
          BY <2>1, <3>1, <3>4, <3>6, <3>7, <3>8, <3>3, <4>1 DEF IdOwned
      <4>2. CASE j # i
        <5>1. IdOwned(j)
            BY DEF LinkInv
        <5>2. j \in transport_links => pid_owner[j] # l
          <6>1. transport_ids[l] = NoPid
              BY <1>1 DEF Allocate
          <6> QED
              BY <5>1, <6>1, LinkConstants DEF IdOwned
        <5> QED
            BY <2>1, <3>5, <3>7, <3>8, <4>2, <5>1, <5>2 DEF IdOwned
      <4> QED
          BY <4>1, <4>2
    <3> QED
        BY <3>9, <3>10, <3>11 DEF LinkInv
  <2> QED
      BY <2>2, <2>3
<1>2. CASE Drop(l)
  <2> DEFINE i == transport_ids[l]
  <2>1. /\ closing = NoPid /\ i \in transport_links /\ Forgotten(i) /\ StartRemove(i)
        /\ GoesOn(IF Usable(l) THEN todo ELSE todo \ {l})
        /\ UNCHANGED <<roster, device, verdict, transport_ids, pid_owner>>
      BY <1>2 DEF Drop
  <2>2. LinkMaps' /\ \A j \in Pids : IdOwned(j)'
      BY <2>1, StartRemoveKeeps
  <2>3. LinkTypeOK'
      BY <2>1 DEF LinkInv, LinkTypeOK, Forgotten, StartRemove, GoesOn
  <2> QED
      BY <2>2, <2>3 DEF LinkInv
<1>3. CASE Skip(l)
    BY <1>3 DEF Skip, GoesOn, LinkInv, LinkTypeOK, LinkMaps, IdOwned, agentVars, peerVars
<1>4. ASSUME NEW opens \in BOOLEAN, Attach(l, opens) PROVE LinkInv'
  <2> DEFINE i == transport_ids[l]
             link == [leg |-> l, device |-> device[l], remote |-> LegRemote(l)]
  <2>1. /\ i \in Pids /\ closing = NoPid
        /\ transport_links' = transport_links \cup {i}
        /\ links' = links \/ (i \notin transport_links /\ links' = [links EXCEPT ![i] = link])
        /\ healthy' \subseteq healthy \cup {i}
        /\ i \in healthy' => links'[i] # NoLink
        /\ todo' = todo \ {l}
        /\ UNCHANGED <<roster, device, transport_ids, pid_owner, closing, rtt_of, loss_of, sent_on>>
      BY <1>4 DEF Attach, AddLink, SetLinkHealth, GoesOn
  <2>2. LinkTypeOK' /\ LinkMaps'
      BY <2>1 DEF LinkInv, LinkTypeOK, LinkMaps
  <2>3. ASSUME NEW j \in Pids PROVE IdOwned(j)'
    <3>1. IdOwned(j)
        BY DEF LinkInv
    <3>2. j # i => links'[j] = links[j]
        BY <2>1 DEF LinkInv, LinkMaps
    <3>3. links'[i] = links[i] \/ links'[i].leg = l
        BY <2>1 DEF LinkInv, LinkMaps
    <3>4. j = i => pid_owner[j] = l
        BY <3>1 DEF IdOwned
    <3>5. CASE j = i
        BY <2>1, <3>1, <3>3, <3>4, <3>5 DEF IdOwned
    <3>6. CASE j # i
        BY <2>1, <3>1, <3>2, <3>6 DEF IdOwned
    <3> QED
        BY <3>5, <3>6
  <2> QED
      BY <2>2, <2>3 DEF LinkInv
<1> QED
    BY <1>1, <1>2, <1>3, <1>4

\* Every step of the links keeps their invariant.
LEMMA LinkStepInv == ASSUME LinkInv, [LinkNext]_linkVars PROVE LinkInv'
<1>1. CASE UNCHANGED linkVars
    BY <1>1 DEF linkVars, agentVars, passVars, peerVars, LinkInv, LinkTypeOK, LinkMaps, IdOwned
<1>2. ASSUME NEW l \in LinkLegs, LegAppears(l) \/ Expire(l) PROVE LinkInv'
    BY <1>2, RosterSteps
<1>3. ASSUME NEW l \in LinkLegs, NEW d \in Devices \cup {Nobody}, Match(l, d) PROVE LinkInv'
    BY <1>3, RosterSteps
<1>4. CASE Reconcile
    BY <1>4, ReconcileSteps DEF Reconcile
<1> QED
    BY <1>1, <1>2, <1>3, <1>4, PeerSteps DEF LinkNext

-----------------------------------------------------------------------------
\* The weight of a leg.

\* The weight of a pass is that of its leg; and more than it means that the ration is not
\* used up, until the next pass.
LastWeight == weight_at_last_pass = 0 <=> leg_state = "down"
RoomToRise == weight > weight_at_last_pass /\ weight_at_last_pass > 0 => ~Rationed(rise_ages)

WeightInv == WeightTypeOK /\ RisesAreRationed /\ climbs \subseteq rise_ages /\ LastWeight /\ RoomToRise

\* What the constants of the weights are.
LEMMA WeightConstants ==
    /\ Rtts \subseteq Nat \ {0} /\ Losses \subseteq 0 .. 100
    /\ LossStreak \in Nat \ {0} /\ RiseWindow \in Nat \ {0} /\ MaxRises \in Nat \ {0} /\ Grain \in Nat \ {0}
    /\ LegConfigWeight \in Nat /\ CostRank \in 0 .. 3
BY WeightAssumption

\* Natural numbers divide to one.
LEMMA Quotient ==
    ASSUME NEW n \in Nat, NEW d \in Nat, d > 0 PROVE n \div d \in Nat
OBVIOUS

\* A weight has its floor.
LEMMA Bounded == ASSUME NEW n \in Nat, NEW f \in Nat PROVE AtLeast(n, f) \in Nat /\ AtLeast(n, f) >= f
BY DEF AtLeast

\* So has a part of a number.
LEMMA BoundedQuotient ==
    ASSUME NEW n \in Nat, NEW d \in Nat, d > 0 PROVE AtLeast(n \div d, WeightFloor) \in Nat
<1>1. n \div d \in Nat
    BY Quotient
<1>2. WeightFloor \in Nat
    BY DEF WeightFloor
<1> QED
    BY <1>1, <1>2, Bounded

\* A rounded number is a natural one.
LEMMA RoundedIsNat == ASSUME NEW n \in Nat, NEW s \in Nat, s > 0 PROVE RoundedTo(n, s) \in Nat
<1>1. n \div s \in Nat
    BY Quotient
<1> DEFINE q == n \div s
<1>2. RoundedTo(n, s) = s * q \/ RoundedTo(n, s) = s * (q + 1)
    BY DEF RoundedTo
<1> HIDE DEF q
<1>3. q \in Nat
    BY <1>1 DEF q
<1>4. s * q \in Nat /\ s * (q + 1) \in Nat
    BY <1>3
<1> QED
    BY <1>2, <1>4

\* The weight that a living leg deserves is its floor at least.
LEMMA MeritHasFloor ==
    ASSUME NEW state, NEW r \in Nat, NEW l \in 0 .. 100, NEW soft \in BOOLEAN, NEW free \in BOOLEAN
    PROVE  Merit(state, r, l, soft, free) \in Nat /\ Merit(state, r, l, soft, free) >= WeightFloor
<1> DEFINE configured == AtLeast(LegConfigWeight, WeightFloor)
           byState == IF state = "degraded" THEN AtLeast(configured \div 3, WeightFloor) ELSE configured
           byCap == IF soft THEN AtLeast(byState \div 4, WeightFloor) ELSE byState
           byRtt == CASE r = NoRtt -> byCap
                      [] r \in 1 .. 40 -> 2 * byCap
                      [] r \in 41 .. 319 -> AtLeast((byCap * 80) \div r, WeightFloor)
                      [] r >= 320 -> AtLeast(byCap \div 4, WeightFloor)
           byLoss == AtLeast((byRtt * (100 - IF l > 50 THEN 50 ELSE l)) \div 100, WeightFloor)
           byCost == AtLeast((byLoss * (115 - 10 * Rank(soft))) \div 100, WeightFloor)
           damped == Damped(byCost, Rank(soft), free)
<1>0. Merit(state, r, l, soft, free) = AtLeast(RoundedTo(damped, WeightQuantum), WeightFloor)
    BY DEF Merit
<1>f. WeightFloor \in Nat /\ WeightQuantum \in Nat /\ WeightQuantum > 0
    BY DEF WeightFloor, WeightQuantum
<1>1. configured \in Nat
    BY <1>f, WeightConstants, Bounded
<1> HIDE DEF configured
<1>2. byState \in Nat
    BY <1>1, BoundedQuotient
<1> HIDE DEF byState
<1>3. byCap \in Nat
    BY <1>2, BoundedQuotient
<1> HIDE DEF byCap
<1>4. byRtt \in Nat
  <2>1. CASE r = NoRtt
      BY <1>3, <2>1 DEF NoRtt
  <2>2. CASE r \in 1 .. 40
    <3>1. byRtt = 2 * byCap
        BY <2>2 DEF NoRtt
    <3>2. 2 * byCap \in Nat
        BY <1>3
    <3> QED
        BY <3>1, <3>2
  <2>3. CASE r \in 41 .. 319
    <3>1. byRtt = AtLeast((byCap * 80) \div r, WeightFloor)
        BY <2>3 DEF NoRtt
    <3>2. byCap * 80 \in Nat /\ r > 0
        BY <1>3, <2>3
    <3>3. PICK q \in Nat : q = (byCap * 80) \div r
        BY <3>2, Quotient
    <3>4. AtLeast(q, WeightFloor) \in Nat
        BY <1>f, Bounded
    <3>5. byRtt = AtLeast(q, WeightFloor)
        BY <3>1, <3>3
    <3> HIDE DEF byRtt
    <3> QED
        BY <3>4, <3>5
  <2>4. CASE r >= 320
    <3>1. byRtt = AtLeast(byCap \div 4, WeightFloor)
        BY <2>4 DEF NoRtt
    <3>2. AtLeast(byCap \div 4, WeightFloor) \in Nat
        BY <1>3, BoundedQuotient
    <3> QED
        BY <3>1, <3>2
  <2> QED
      BY <2>1, <2>2, <2>3, <2>4 DEF NoRtt
<1> HIDE DEF byRtt
<1>5. byLoss \in Nat
  <2>1. PICK k \in 50 .. 100 : k = 100 - IF l > 50 THEN 50 ELSE l
      OBVIOUS
  <2>2. byRtt * k \in Nat
      BY <1>4
  <2>3. (byRtt * k) \div 100 \in Nat
      BY <2>2, Quotient
  <2> QED
      BY <1>f, <2>1, <2>3, Bounded
<1> HIDE DEF byLoss
<1>6. byCost \in Nat
  <2>1. Rank(soft) \in 0 .. 3
      BY WeightConstants DEF Rank, AtLeast
  <2>2. PICK k \in 85 .. 115 : k = 115 - 10 * Rank(soft)
      BY <2>1
  <2>3. byLoss * k \in Nat
      BY <1>5
  <2>4. (byLoss * k) \div 100 \in Nat
      BY <2>3, Quotient
  <2> QED
      BY <1>f, <2>2, <2>4, Bounded
<1> HIDE DEF byCost
<1>7. damped \in Nat
  <2>1. byCost \div 10 \in Nat
      BY <1>6, Quotient
  <2> QED
      BY <1>f, <1>6, <2>1, Bounded DEF Damped
<1> HIDE DEF damped
<1>8. RoundedTo(damped, WeightQuantum) \in Nat
    BY <1>f, <1>7, RoundedIsNat
<1> QED
    BY <1>0, <1>f, <1>8, Bounded

WeightIsFair(state, prev, w) ==
    /\ w \in Nat
    /\ w = 0 <=> state = "down"
    /\ prev > 0 /\ w > prev => ~Rationed(rise_ages)

\* The effective weight of a leg: none when it is down; otherwise it has one, which is above
\* the one before only when there is none before or the ration is not used up.
LEMMA WeightGiven ==
    ASSUME NEW state, NEW r \in Nat, NEW l \in 0 .. 100, NEW soft \in BOOLEAN, NEW free \in BOOLEAN,
           NEW prev \in Nat
    PROVE  WeightIsFair(state, prev, EffectiveWeight(state, r, l, soft, free, prev))
<1> DEFINE new == Merit(state, r, l, soft, free)
           given == EffectiveWeight(state, r, l, soft, free, prev)
<1>1. new \in Nat /\ new > 0
  <2>1. new \in Nat /\ new >= WeightFloor
      BY MeritHasFloor
  <2> HIDE DEF new
  <2> QED
      BY <2>1 DEF WeightFloor
<1>2. given = IF state = "down" THEN 0
              ELSE IF prev > 0 /\ (new - prev \in -WeightQuantum .. WeightQuantum \/ (new > prev /\ Rationed(rise_ages)))
                   THEN prev ELSE new
    BY DEF EffectiveWeight
<1> HIDE DEF new, given
<1>3. WeightIsFair(state, prev, given)
    BY <1>1, <1>2 DEF WeightIsFair
<1> QED
    BY <1>3 DEF given

\* A pass later no more ages are kept, each a pass older.
LEMMA AgingKeeps ==
    ASSUME NEW A \in SUBSET (0 .. RiseWindow)
    PROVE  /\ Aging(A) \subseteq 1 .. RiseWindow
           /\ IsFiniteSet(Aging(A)) /\ Cardinality(Aging(A)) \in Nat
           /\ IsFiniteSet(A) /\ Cardinality(A) \in Nat
           /\ Cardinality(Aging(A)) <= Cardinality(A)
<1> DEFINE young == {b \in A : b < RiseWindow}
           f == [a \in young |-> a + 1]
<1>1. IsFiniteSet(0 .. RiseWindow)
    BY FS_Interval, WeightConstants
<1>2. IsFiniteSet(A) /\ IsFiniteSet(young) /\ Cardinality(young) <= Cardinality(A)
  <2>1. IsFiniteSet(A)
      BY <1>1, FS_Subset
  <2> QED
      BY <2>1, FS_Subset
<1>3. Aging(A) = {f[a] : a \in young}
    BY DEF Aging
<1>4. IsFiniteSet({f[a] : a \in young}) /\ Cardinality({f[a] : a \in young}) <= Cardinality(young)
  <2>1. f \in Surjection(young, {f[a] : a \in young})
      BY DEF Surjection
  <2> QED
      BY <1>2, <2>1, FS_Surjection
<1>5. Aging(A) \subseteq 1 .. RiseWindow
    BY WeightConstants DEF Aging
<1> QED
    BY <1>2, <1>3, <1>4, <1>5, FS_CardinalityType

\* The weight's invariant holds at first.
LEMMA WeightInitInv == WeightInit => WeightInv
<1> SUFFICES ASSUME WeightInit PROVE WeightInv
    OBVIOUS
<1>1. Cardinality({}) = 0
    BY FS_EmptySet
<1>2. WeightTypeOK
  <2>1. 0 \in 0 .. LossStreak /\ {} \subseteq 0 .. RiseWindow
      BY WeightConstants
  <2> QED
      BY <2>1 DEF WeightInit, WeightTypeOK, NoRtt
<1>3. RisesAreRationed
    BY <1>1, WeightConstants DEF WeightInit, RisesAreRationed
<1> QED
    BY <1>2, <1>3 DEF WeightInit, WeightInv, LastWeight, RoomToRise

\* What the monitor thread recomputes between two passes.
LEMMA RecomputeKeeps ==
    ASSUME WeightInv, NEW soft \in BOOLEAN, NEW free \in BOOLEAN, Recompute(soft, free)
    PROVE  WeightInv'
<1> DEFINE basis == IF ewma = NoRtt THEN rtt ELSE ewma
<1>1. basis \in Nat /\ loss \in 0 .. 100 /\ weight \in Nat /\ weight_at_last_pass \in Nat
    BY WeightConstants DEF WeightInv, WeightTypeOK, NoRtt
<1> HIDE DEF basis
<1>2. PICK w \in Nat : /\ w = EffectiveWeight(leg_state, basis, loss, soft, free, weight)
                       /\ w = 0 <=> leg_state = "down"
                       /\ weight > 0 /\ w > weight => ~Rationed(rise_ages)
  <2> DEFINE given == EffectiveWeight(leg_state, basis, loss, soft, free, weight)
  <2>1. WeightIsFair(leg_state, weight, given)
      BY <1>1, WeightGiven
  <2> HIDE DEF given
  <2>2. \E w \in Nat : /\ w = given
                       /\ w = 0 <=> leg_state = "down"
                       /\ weight > 0 /\ w > weight => ~Rationed(rise_ages)
      BY <2>1 DEF WeightIsFair
  <2> QED
      BY <2>2 DEF given
<1>3. /\ over_soft' = soft /\ weight' = w
      /\ UNCHANGED <<leg_state, rtt, ewma, loss, bad_streak, good_streak, loss_degraded,
                     weight_at_last_pass, rise_ages, climbs>>
    BY <1>2 DEF Recompute, basis
<1>4. WeightTypeOK'
    BY <1>2, <1>3 DEF WeightInv, WeightTypeOK
<1>5. RisesAreRationed' /\ LastWeight'
    BY <1>2, <1>3 DEF WeightInv, RisesAreRationed, LastWeight
<1>6. RoomToRise'
  <2>1. w > weight_at_last_pass /\ weight_at_last_pass > 0 => ~Rationed(rise_ages)
    <3>1. weight_at_last_pass > 0 => weight > 0
        BY <1>1 DEF WeightInv, LastWeight, RisesAreRationed
    <3>2. weight > weight_at_last_pass /\ weight_at_last_pass > 0 => ~Rationed(rise_ages)
        BY DEF WeightInv, RoomToRise
    <3> QED
        BY <1>1, <1>2, <3>1, <3>2
  <2> QED
      BY <1>3, <2>1 DEF RoomToRise, Rationed
<1> QED
    BY <1>3, <1>4, <1>5, <1>6 DEF WeightInv

\* A pass that finds the leg in state s and starts from the weight w0 the leg had, or from none.
LEMMA PolicyKeeps ==
    ASSUME WeightInv, NEW s \in {"up", "degraded", "down"}, NEW w0 \in Nat, NEW soft \in BOOLEAN, NEW free \in BOOLEAN,
           Policy(s, w0, soft, free), w0 = weight \/ s = "down",
           rtt' \in Rtts \cup {NoRtt}, loss' \in Losses \cup {0, 100}, loss_degraded' \in BOOLEAN,
           bad_streak' \in 0 .. LossStreak, good_streak' \in 0 .. LossStreak
    PROVE  WeightInv'
<1>1. PICK basis \in Nat : basis = IF ewma = NoRtt THEN rtt' ELSE ewma
    BY WeightConstants DEF WeightInv, WeightTypeOK, NoRtt
<1>2. PICK l \in 0 .. 100 : l = loss'
    BY WeightConstants
<1>3. PICK w \in Nat : /\ w = EffectiveWeight(s, basis, l, soft, free, w0)
                       /\ w = 0 <=> s = "down"
                       /\ w0 > 0 /\ w > w0 => ~Rationed(rise_ages)
  <2> DEFINE given == EffectiveWeight(s, basis, l, soft, free, w0)
  <2>1. WeightIsFair(s, w0, given)
      BY WeightGiven
  <2> HIDE DEF given
  <2>2. \E w \in Nat : /\ w = given
                       /\ w = 0 <=> s = "down"
                       /\ w0 > 0 /\ w > w0 => ~Rationed(rise_ages)
      BY <2>1 DEF WeightIsFair
  <2> QED
      BY <2>2 DEF given
<1>4. /\ leg_state' = s /\ over_soft' = soft /\ weight' = w
      /\ ewma' = Averaged(s, rtt') /\ rise_ages' = Budget(w)
      /\ weight_at_last_pass' = w
      /\ climbs' = Aging(climbs)
              \cup IF weight_at_last_pass > 0 /\ w > weight_at_last_pass THEN {0} ELSE {}
  <2>1. EffectiveWeight(s, IF ewma = NoRtt THEN rtt' ELSE ewma, loss', soft, free, w0) = w
      BY <1>1, <1>2, <1>3, Zenon
  <2> QED
      BY <2>1 DEF Policy
<1>5. /\ rise_ages \subseteq 0 .. RiseWindow /\ climbs \subseteq 0 .. RiseWindow
      /\ climbs \subseteq rise_ages /\ Cardinality(climbs) <= MaxRises
      /\ weight \in Nat /\ weight_at_last_pass \in Nat
    BY DEF WeightInv, WeightTypeOK, RisesAreRationed
<1>6. climbs' \subseteq rise_ages' /\ rise_ages' \subseteq 0 .. RiseWindow
  <2>1. Aging(climbs) \subseteq Aging(rise_ages)
      BY <1>5 DEF Aging
  <2>2. Aging(rise_ages) \subseteq 0 .. RiseWindow
      BY <1>5, AgingKeeps, WeightConstants
  <2>3. rise_ages' = Aging(rise_ages) \cup IF w > weight_at_last_pass THEN {0} ELSE {}
      BY <1>4 DEF Budget
  <2> QED
      BY <1>4, <2>1, <2>2, <2>3, WeightConstants
<1>7. Cardinality(climbs') <= MaxRises
  <2>1. /\ IsFiniteSet(Aging(climbs)) /\ Cardinality(Aging(climbs)) \in Nat
        /\ Cardinality(climbs) \in Nat /\ Cardinality(Aging(climbs)) <= Cardinality(climbs)
      BY <1>5, AgingKeeps
  <2>2. CASE weight_at_last_pass > 0 /\ w > weight_at_last_pass
    <3>1. leg_state # "down" /\ weight > 0
        BY <1>5, <2>2 DEF WeightInv, LastWeight, RisesAreRationed
    <3>2. s # "down"
        BY <1>3, <1>5, <2>2
    <3>3. ~Rationed(rise_ages)
      <4>1. weight > weight_at_last_pass => ~Rationed(rise_ages)
          BY <2>2 DEF WeightInv, RoomToRise
      <4> QED
          BY <1>3, <1>5, <2>2, <3>1, <3>2, <4>1
    <3>4. Cardinality(climbs) < MaxRises
      <4>1. IsFiniteSet(rise_ages) /\ Cardinality(rise_ages) \in Nat
          BY <1>5, AgingKeeps
      <4>2. Cardinality(climbs) <= Cardinality(rise_ages)
          BY <1>5, <4>1, FS_Subset
      <4> QED
          BY <2>1, <3>3, <4>1, <4>2, WeightConstants DEF Rationed
    <3>5. climbs' = Aging(climbs) \cup {0}
        BY <1>4, <2>2
    <3>6. 0 \notin Aging(climbs)
        BY <1>5, AgingKeeps, WeightConstants
    <3>7. Cardinality(Aging(climbs) \cup {0}) = Cardinality(Aging(climbs)) + 1
        BY <2>1, <3>6, FS_AddElement
    <3> QED
        BY <2>1, <3>4, <3>5, <3>6, <3>7, WeightConstants
  <2>3. CASE ~(weight_at_last_pass > 0 /\ w > weight_at_last_pass)
    <3>1. climbs' = Aging(climbs)
        BY <1>4, <2>3
    <3> QED
        BY <1>5, <2>1, <3>1, WeightConstants
  <2> QED
      BY <2>2, <2>3
<1>8. ewma' \in Nat
  <2>1. PICK r \in Nat : r = rtt'
      BY WeightConstants DEF NoRtt
  <2>2. ewma \in Nat
      BY DEF WeightInv, WeightTypeOK
  <2>3. r + 3 * ewma \in Nat /\ 4 * Grain \in Nat /\ 4 * Grain > 0
      BY <2>2, WeightConstants
  <2>4. (r + 3 * ewma) \div (4 * Grain) \in Nat
      BY <2>3, Quotient
  <2>5. Grain * ((r + 3 * ewma) \div (4 * Grain)) \in Nat
      BY <2>4, WeightConstants
  <2>6. Averaged(s, r) \in Nat
      BY <2>2, <2>5 DEF Averaged, NoRtt
  <2> QED
      BY <1>4, <2>1, <2>6
<1>9. WeightTypeOK'
    BY <1>3, <1>4, <1>6, <1>8 DEF WeightTypeOK
<1> QED
    BY <1>3, <1>4, <1>6, <1>7, <1>9 DEF WeightInv, RisesAreRationed, LastWeight, RoomToRise

\* The streaks of a loss that was read.
LEMMA StreaksTyped ==
    ASSUME WeightTypeOK, NEW l \in 0 .. 100
    PROVE  /\ Streaks(l).bad \in 0 .. LossStreak /\ Streaks(l).good \in 0 .. LossStreak
           /\ Streaks(l).degraded \in BOOLEAN
<1>1. CASE l >= FailLoss
  <2>1. Streaks(l) = [bad |-> 0, good |-> 0, degraded |-> FALSE, judged |-> l]
      BY <1>1 DEF Streaks, FailLoss, DegradedLoss
  <2> QED
      BY <2>1, WeightConstants
<1>2. CASE l \in DegradedLoss .. FailLoss - 1
  <2> DEFINE bad == IF bad_streak < LossStreak THEN bad_streak + 1 ELSE LossStreak
             deg == loss_degraded \/ bad >= LossStreak
  <2>1. Streaks(l) = [bad |-> bad, good |-> 0, degraded |-> deg,
                      judged |-> IF deg THEN DegradedLoss ELSE 0]
      BY <1>2 DEF Streaks, FailLoss, DegradedLoss
  <2>2. bad \in 0 .. LossStreak /\ deg \in BOOLEAN
      BY WeightConstants DEF WeightTypeOK
  <2> HIDE DEF bad, deg
  <2> QED
      BY <2>1, <2>2, WeightConstants
<1>3. CASE l < DegradedLoss
  <2> DEFINE over == loss_degraded /\ good_streak + 1 >= LossStreak
             deg == loss_degraded /\ ~over
             good == IF deg THEN good_streak + 1 ELSE IF over THEN 0 ELSE good_streak
  <2>1. Streaks(l) = [bad |-> 0, degraded |-> deg, good |-> good,
                      judged |-> IF deg THEN DegradedLoss ELSE 0]
      BY <1>3 DEF Streaks, FailLoss, DegradedLoss
  <2>2. good \in 0 .. LossStreak /\ deg \in BOOLEAN
      BY WeightConstants DEF WeightTypeOK
  <2> HIDE DEF good, deg
  <2> QED
      BY <2>1, <2>2, WeightConstants
<1> QED
    BY <1>1, <1>2, <1>3 DEF FailLoss, DegradedLoss

\* Every step keeps the weight's invariant.
LEMMA WeightStepInv == ASSUME WeightInv, [WeightNext]_weightVars PROVE WeightInv'
<1>1. weight \in Nat /\ leg_state \in {"up", "degraded", "down"}
    BY DEF WeightInv, WeightTypeOK
<1>2. ASSUME NEW soft \in BOOLEAN, NEW free \in BOOLEAN, ProbeDead(soft, free) PROVE WeightInv'
  <2>1. /\ rtt' = NoRtt /\ loss' = 100 /\ Policy("down", 0, soft, free)
        /\ loss_degraded' \in BOOLEAN /\ bad_streak' \in 0 .. LossStreak /\ good_streak' \in 0 .. LossStreak
      BY <1>2 DEF ProbeDead, WeightInv, WeightTypeOK
  <2> QED
      BY <2>1, PolicyKeeps
<1>3. ASSUME NEW soft \in BOOLEAN, NEW free \in BOOLEAN, NEW l \in LegLosses, ProbeMute(l, soft, free)
      PROVE  WeightInv'
  <2>1. /\ rtt' = NoRtt /\ loss' = l /\ Policy("degraded", weight, soft, free)
        /\ loss_degraded' \in BOOLEAN /\ bad_streak' \in 0 .. LossStreak /\ good_streak' \in 0 .. LossStreak
      BY <1>3 DEF ProbeMute, WeightInv, WeightTypeOK
  <2>2. l \in Losses \cup {0, 100}
      BY DEF LegLosses, LegLoss
  <2> QED
      BY <1>1, <2>1, <2>2, PolicyKeeps
<1>4. ASSUME NEW soft \in BOOLEAN, NEW free \in BOOLEAN, NEW l \in LegLosses, NEW r \in Rtts,
             ProbeAnswered(r, l, soft, free)
      PROVE  WeightInv'
  <2>1. l \in Losses \cup {0, 100} /\ l \in 0 .. 100
      BY WeightConstants DEF LegLosses, LegLoss
  <2>2. PICK s : s = ClassifyState(IF ewma = NoRtt THEN r ELSE ewma, Streaks(l).judged, leg_state)
      OBVIOUS
  <2>3. /\ rtt' = r /\ loss' = l
        /\ bad_streak' = Streaks(l).bad /\ good_streak' = Streaks(l).good
        /\ loss_degraded' = Streaks(l).degraded
        /\ Policy(s, weight, soft, free)
      BY <1>4, <2>2 DEF ProbeAnswered
  <2>4. s \in {"up", "degraded", "down"}
      BY <2>2 DEF ClassifyState
  <2>5. /\ loss_degraded' \in BOOLEAN /\ bad_streak' \in 0 .. LossStreak /\ good_streak' \in 0 .. LossStreak
      BY <2>1, <2>3, StreaksTyped DEF WeightInv
  <2> QED
      BY <1>1, <2>1, <2>3, <2>4, <2>5, PolicyKeeps
<1>5. CASE WeightNext
    BY <1>2, <1>3, <1>4, <1>5, RecomputeKeeps DEF WeightNext, FreeCarrying
<1>6. CASE UNCHANGED weightVars
    BY <1>6 DEF weightVars, WeightInv, WeightTypeOK, RisesAreRationed, LastWeight, RoomToRise, Rationed
<1> QED
    BY <1>5, <1>6

-----------------------------------------------------------------------------
\* Shedding.

Tails == 0 .. Fall[1]
Fed(l) == l \notin dead /\ sample[l] # None

\* Where the tail of a leg that is fed has come to after some passes with the same sample:
\* down to it, or not above what the highest tail would be.
Step(k) == IF k < Settling THEN k + 1 ELSE Settling
TailComesDown(l) == tail[l] >= sample[l] /\ (tail[l] = sample[l] \/ tail[l] <= Fall[Step(steady)])

\* Its mean, from however low, has come half way with the first sample, and two thirds with
\* the second where these differ from a whole.
MeanComesUp(l) ==
    /\ 2 * mean[l] >= sample[l]
    /\ steady > 0 /\ sample[l] > 2 => 3 * mean[l] >= 2 * sample[l]

BetterCarries ==
    \A l \in shed : \E m \in Carrying(TierLegs(here, dead), shed) : tail[m] < tail[l]

ShedInv ==
    /\ ShedTypeOK
    /\ tail \in [ShedLegs -> Tails] /\ mean \in [ShedLegs -> Tails]
    /\ \A l \in ShedLegs : Fed(l) => TailComesDown(l) /\ MeanComesUp(l)
    /\ steady > 0 => BetterCarries /\ \A l \in ShedLegs \ dead : sample[l] # None
    /\ SpreadTells /\ steady = Settling => shed = {}

\* What the constants of shedding are.
LEMMA ShedConstants ==
    /\ Samples \subseteq Nat \ {0} /\ Floor \in Nat /\ ShedRatio \in Nat /\ ShedRatio >= 2
    /\ SpreadHalves \in Nat
    /\ Settling \in Nat /\ Settling > 0
    /\ \A i \in 1 .. Settling : Fall[i] \in Nat
    /\ \A s \in Samples : s \in 1 .. Fall[1] /\ Fall[Settling] <= s
    /\ \A i \in 1 .. Settling - 1 : Fall[i + 1] >= (Fall[i] * 3) \div 4
<1>1. Fall[1] \in Nat /\ Len(Fall) \in Nat
    BY ShedAssumption
<1> QED
    BY <1>1, ShedAssumption DEF Settling

\* A tail falls by a quarter, in order.
LEMMA Falls ==
    ASSUME NEW a \in Nat, NEW b \in Nat, a <= b
    PROVE  /\ (a * 3) \div 4 \in Nat /\ (a * 3) \div 4 <= (b * 3) \div 4
           /\ (a * 3) \div 4 <= a /\ (a > 0 => (a * 3) \div 4 < a)
OBVIOUS

\* A tail that is fed s.
LEMMA TailFed ==
    ASSUME NEW t \in Tails, NEW s \in Samples
    PROVE  /\ RttTail(t, s) \in 1 .. Fall[1] /\ RttTail(t, s) >= s
           /\ t = s => RttTail(t, s) = s
           /\ \A i \in 1 .. Settling :
                 t <= Fall[i] => RttTail(t, s) = s \/ RttTail(t, s) <= Fall[Step(i)]
<1>1. s \in Nat /\ s > 0 /\ s <= Fall[1] /\ Fall[1] \in Nat /\ t \in Nat /\ t <= Fall[1]
    BY ShedConstants DEF Tails
<1>2. (t * 3) \div 4 \in Nat /\ (t * 3) \div 4 <= t /\ (t > 0 => (t * 3) \div 4 < t)
    BY <1>1, Falls
<1> DEFINE d == (t * 3) \div 4
<1>3. RttTail(t, s) = IF t = 0 THEN s ELSE IF s > d THEN s ELSE d
    BY <1>1 DEF RttTail, None
<1>4. ASSUME NEW i \in 1 .. Settling, t <= Fall[i] PROVE d <= Fall[Step(i)]
  <2>1. CASE i < Settling
    <3>1. Fall[i] \in Nat /\ Fall[i + 1] \in Nat /\ Fall[i + 1] >= (Fall[i] * 3) \div 4 /\ Step(i) = i + 1
        BY <2>1, ShedConstants DEF Step
    <3>2. d <= (Fall[i] * 3) \div 4 /\ (Fall[i] * 3) \div 4 \in Nat
        BY <1>1, <1>4, <3>1, Falls
    <3> HIDE DEF d
    <3> QED
        BY <1>2, <3>1, <3>2 DEF d
  <2>2. CASE i = Settling
    <3>1. Step(i) = i /\ Fall[i] \in Nat
        BY <2>2, ShedConstants DEF Step
    <3> QED
        BY <1>1, <1>2, <1>4, <3>1
  <2> QED
      BY <2>1, <2>2, ShedConstants
<1>5. d \in Nat /\ d <= t /\ (t > 0 => d < t)
    BY <1>2
<1> HIDE DEF d
<1> QED
    BY <1>1, <1>3, <1>4, <1>5

\* A mean that is fed s.
LEMMA MeanFed ==
    ASSUME NEW m \in Tails, NEW s \in Samples
    PROVE  /\ RttMean(m, s) \in 1 .. Fall[1] /\ 2 * RttMean(m, s) >= s
           /\ m > 0 /\ 2 * m >= s /\ s > 2 => 3 * RttMean(m, s) >= 2 * s
<1>1. s \in Nat /\ s > 0 /\ s <= Fall[1] /\ Fall[1] \in Nat /\ m \in Nat /\ m <= Fall[1]
    BY ShedConstants DEF Tails
<1>2. RttMean(m, s) = IF m = 0 THEN s ELSE (s + m) \div 2
    BY <1>1 DEF RttMean, None
<1>3. PICK h \in Nat : h = (s + m) \div 2 /\ (s + m = 2 * h \/ s + m = 2 * h + 1)
    BY <1>1
<1> QED
    BY <1>1, <1>2, <1>3

\* The least of some tails.
LEMMA LeastTail ==
    ASSUME NEW S \in SUBSET Nat, S # {}
    PROVE  Least(S) \in S /\ \A y \in S : Least(S) <= y
BY LeastExists DEF Least

\* The tier that carries is not empty while a leg is there, and the best there is.
LEMMA TierCarries ==
    ASSUME tier \in [ShedLegs -> 1 .. 2], NEW present \in SUBSET ShedLegs, NEW down \in SUBSET ShedLegs
    PROVE  /\ TierLegs(present, down) \subseteq present
           /\ present # {} => TierLegs(present, down) # {}
           /\ present \ down # {} => TierLegs(present, down) \cap down = {}
           /\ present \ down # {} => \A l \in TierLegs(present, down), m \in present \ down : tier[l] <= tier[m]
<1> DEFINE pool == IF present \ down # {} THEN present \ down ELSE present
<1>1. TierLegs(present, down) = {l \in pool : \A m \in pool : tier[l] <= tier[m]}
    BY DEF TierLegs
<1>2. pool # {} => TierLegs(present, down) # {}
  <2>1. CASE \E l \in pool : tier[l] = 1
    <3>1. PICK l \in pool : tier[l] = 1
        BY <2>1
    <3>2. \A m \in pool : tier[m] \in 1 .. 2
        OBVIOUS
    <3> QED
        BY <1>1, <3>1, <3>2
  <2>2. CASE \A l \in pool : tier[l] = 2
      BY <1>1, <2>2
  <2>3. \A l \in pool : tier[l] \in 1 .. 2
      OBVIOUS
  <2> QED
      BY <2>1, <2>2, <2>3
<1> QED
    BY <1>1, <1>2

\* The bar a leg must clear is not below the best of its neighbours.
LEMMA BarAboveBest ==
    ASSUME NEW best \in Nat, NEW was
    PROVE  Bar(best, was) \in Nat /\ Bar(best, was) >= best
<1>1. PICK p \in Nat : p = best * ShedRatio /\ p >= 2 * best
    BY ShedConstants
<1>2. Bar(best, was) = IF was THEN (p * 4) \div 5 ELSE p
    BY <1>1 DEF Bar
<1>3. (p * 4) \div 5 \in Nat /\ (p * 4) \div 5 >= best
    BY <1>1
<1> QED
    BY <1>1, <1>2, <1>3

\* A leg that is shed is measured, bad, and worse than one that is not.
LEMMA ShedHasBetter ==
    ASSUME NEW legs \in SUBSET ShedLegs, NEW t \in [ShedLegs -> Nat], NEW mn \in [ShedLegs -> Nat],
           NEW l \in Shed(legs, t, mn)
    PROVE  /\ l \in legs /\ t[l] # None /\ t[l] > Floor /\ Spread(t[l], mn[l])
           /\ \E m \in Carrying(legs, Shed(legs, t, mn)) : t[m] < t[l]
<1> DEFINE measured == Measured(legs, t)
           tails == {t[k] : k \in measured}
           best == Least(tails)
<1>1. Shed(legs, t, mn) = {k \in measured : /\ t[k] > Bar(best, k \in shed) /\ t[k] > Floor
                                             /\ Spread(t[k], mn[k])}
    BY DEF Shed
<1>2. measured \subseteq legs /\ \A k \in measured : t[k] # None
    BY DEF Measured
<1>3. best \in tails /\ best \in Nat
  <2>1. tails \in SUBSET Nat /\ tails # {}
      BY <1>1, <1>2
  <2> QED
      BY <2>1, LeastTail
<1>4. PICK m \in measured : t[m] = best
    BY <1>3
<1> HIDE DEF measured, best
<1>5. \A was : Bar(best, was) \in Nat /\ Bar(best, was) >= best
    BY <1>3, BarAboveBest
<1>6. m \in legs /\ m \notin Shed(legs, t, mn) /\ t[m] < t[l]
  <2>1. l \in ShedLegs /\ m \in ShedLegs /\ t[l] \in Nat /\ t[m] \in Nat
      BY <1>1, <1>2, <1>4
  <2>2. m \in Shed(legs, t, mn) => t[m] > Bar(best, m \in shed)
      BY <1>1
  <2>3. t[l] > Bar(best, l \in shed)
      BY <1>1
  <2>4. Bar(best, m \in shed) \in Nat /\ Bar(best, m \in shed) >= best
      BY <1>5, Zenon
  <2>5. Bar(best, l \in shed) \in Nat /\ Bar(best, l \in shed) >= best
      BY <1>5, Zenon
  <2> QED
      BY <1>2, <1>4, <2>1, <2>2, <2>3, <2>4, <2>5
<1>7. m \in Carrying(legs, Shed(legs, t, mn))
    BY <1>6 DEF Carrying
<1>8. l \in legs /\ t[l] # None /\ t[l] > Floor /\ Spread(t[l], mn[l])
    BY <1>1, <1>2
<1> QED
    BY <1>6, <1>7, <1>8

\* The shedding starts there.
LEMMA ShedInitInv == ShedInit => ShedInv
<1> SUFFICES ASSUME ShedInit PROVE ShedInv
    OBVIOUS
<1>1. Fall[1] \in Nat /\ Settling \in Nat /\ Settling > 0
    BY ShedConstants
<1> QED
    BY <1>1 DEF ShedInit, ShedInv, ShedTypeOK, Fed, Tails, None

\* A pass writes the verdicts anew.
LEMMA PassKeeps ==
    ASSUME ShedInv, NEW present \in SUBSET ShedLegs, NEW down \in SUBSET ShedLegs,
           NEW s \in [ShedLegs -> Samples \cup {None}], ShedPass(present, down, s)
    PROVE  ShedInv'
<1>1. /\ Fall[1] \in Nat /\ Settling \in Nat /\ Settling > 0 /\ Floor \in Nat /\ SpreadHalves \in Nat
      /\ \A i \in 1 .. Settling : Fall[i] \in Nat
      /\ \A x \in Samples : x \in Nat /\ x > 0 /\ x <= Fall[1] /\ Fall[Settling] <= x
    BY ShedConstants
<1>2. steady \in Nat /\ steady <= Settling /\ tail \in [ShedLegs -> Tails] /\ mean \in [ShedLegs -> Tails]
    BY <1>1 DEF ShedInv, ShedTypeOK
<1>3. /\ here' = present /\ dead' = down /\ sample' = s /\ tier' = tier
      /\ \A l \in ShedLegs : tail'[l] = IF l \in down THEN None ELSE RttTail(tail[l], s[l])
      /\ \A l \in ShedLegs : mean'[l] = IF l \in down THEN None ELSE RttMean(mean[l], s[l])
      /\ shed' = Shed(TierLegs(present, down), tail', mean')
    BY DEF ShedPass
<1>4. /\ steady' \in 0 .. Settling
      /\ steady' > 0 => /\ s = sample /\ down = dead /\ \A l \in ShedLegs \ down : s[l] # None
                        /\ steady' = IF steady < Settling THEN steady + 1 ELSE steady
  <2>1. CASE /\ s = sample /\ present = here /\ down = dead
             /\ \A l \in ShedLegs \ down : s[l] # None
    <3>1. steady' = IF steady < Settling THEN steady + 1 ELSE steady
        BY <2>1 DEF ShedPass
    <3> QED
        BY <1>1, <1>2, <2>1, <3>1
  <2>2. CASE ~(/\ s = sample /\ present = here /\ down = dead
               /\ \A l \in ShedLegs \ down : s[l] # None)
    <3>1. steady' = 0
        BY <2>2 DEF ShedPass
    <3> QED
        BY <1>1, <3>1
  <2> QED
      BY <2>1, <2>2
\* The tails.
<1>5. ASSUME NEW l \in ShedLegs
      PROVE  /\ tail'[l] \in Tails
             /\ l \notin down /\ s[l] # None =>
                   /\ tail'[l] \in Nat /\ tail'[l] >= s[l]
                   /\ tail'[l] = s[l] \/ tail'[l] <= Fall[Step(steady')]
                   /\ steady' = Settling => tail'[l] = s[l]
  <2>1. CASE l \in down
      BY <1>1, <1>3, <2>1 DEF Tails, None
  <2>2. CASE l \notin down /\ s[l] = None
    <3>1. tail'[l] = tail[l]
        BY <1>3, <2>2 DEF RttTail
    <3> QED
        BY <1>2, <2>2, <3>1
  <2>3. CASE l \notin down /\ s[l] # None
    <3>1. s[l] \in Samples /\ tail[l] \in Tails /\ tail'[l] = RttTail(tail[l], s[l])
        BY <1>2, <1>3, <2>3
    <3>2. /\ tail'[l] \in 1 .. Fall[1] /\ tail'[l] >= s[l]
          /\ tail[l] = s[l] => tail'[l] = s[l]
          /\ \A i \in 1 .. Settling : tail[l] <= Fall[i] => tail'[l] = s[l] \/ tail'[l] <= Fall[Step(i)]
        BY <3>1, TailFed
    <3>3. CASE steady' = 0
        BY <1>1, <3>1, <3>2, <3>3 DEF Step, Tails
    <3>4. CASE steady' > 0
      <4>1. Fed(l) /\ sample[l] = s[l]
          BY <1>4, <2>3, <3>4 DEF Fed
      <4>2. tail[l] = s[l] \/ tail[l] <= Fall[Step(steady)]
          BY <4>1 DEF ShedInv, TailComesDown
      <4>3. Step(steady) \in 1 .. Settling /\ steady' = Step(steady)
          BY <1>1, <1>2, <1>4, <3>4 DEF Step
      <4>4. tail'[l] = s[l] \/ tail'[l] <= Fall[Step(steady')]
          BY <3>2, <4>2, <4>3
      <4>5. steady' = Settling => Step(steady') = Settling
          BY <1>1 DEF Step
      <4>6. steady' = Settling => tail'[l] = s[l]
          BY <1>1, <3>1, <3>2, <4>4, <4>5
      <4> QED
          BY <1>1, <3>2, <4>4, <4>6 DEF Tails
    <3> QED
        BY <1>1, <1>4, <3>3, <3>4
  <2> QED
      BY <2>1, <2>2, <2>3
\* The means.
<1>6. ASSUME NEW l \in ShedLegs
      PROVE  /\ mean'[l] \in Tails
             /\ l \notin down /\ s[l] # None =>
                   /\ mean'[l] \in 1 .. Fall[1] /\ 2 * mean'[l] >= s[l]
                   /\ steady' > 0 /\ s[l] > 2 => 3 * mean'[l] >= 2 * s[l]
  <2>1. CASE l \in down
      BY <1>1, <1>3, <2>1 DEF Tails, None
  <2>2. CASE l \notin down /\ s[l] = None
    <3>1. mean'[l] = mean[l]
        BY <1>3, <2>2 DEF RttMean
    <3> QED
        BY <1>2, <2>2, <3>1
  <2>3. CASE l \notin down /\ s[l] # None
    <3>1. s[l] \in Samples /\ mean[l] \in Tails /\ mean'[l] = RttMean(mean[l], s[l])
        BY <1>2, <1>3, <2>3
    <3>2. /\ mean'[l] \in 1 .. Fall[1] /\ 2 * mean'[l] >= s[l]
          /\ mean[l] > 0 /\ 2 * mean[l] >= s[l] /\ s[l] > 2 => 3 * mean'[l] >= 2 * s[l]
        BY <3>1, MeanFed
    <3>3. steady' > 0 => 2 * mean[l] >= s[l]
        BY <1>4, <2>3 DEF Fed, ShedInv, MeanComesUp
    <3>4. mean[l] \in Nat /\ s[l] \in Nat /\ s[l] > 0
        BY <1>1, <3>1 DEF Tails
    <3> QED
        BY <1>1, <3>2, <3>3, <3>4 DEF Tails
  <2> QED
      BY <2>1, <2>2, <2>3
<1>7. tail' \in [ShedLegs -> Tails] /\ mean' \in [ShedLegs -> Tails]
  <2>1. tail' = [l \in ShedLegs |-> tail'[l]] /\ mean' = [l \in ShedLegs |-> mean'[l]]
      BY DEF ShedPass
  <2> QED
      BY <1>5, <1>6, <2>1
<1>8. TierLegs(present, down) \subseteq ShedLegs
    BY TierCarries DEF ShedInv, ShedTypeOK
\* The verdicts.
<1>9. ASSUME NEW l \in shed'
      PROVE  /\ l \in ShedLegs \ down /\ tail'[l] > Floor /\ Spread(tail'[l], mean'[l])
             /\ \E m \in Carrying(TierLegs(present, down), shed') : tail'[m] < tail'[l]
  <2>1. tail' \in [ShedLegs -> Nat] /\ mean' \in [ShedLegs -> Nat]
      BY <1>7 DEF Tails
  <2>2. l \in Shed(TierLegs(present, down), tail', mean')
      BY <1>3
  <2> DEFINE legs == TierLegs(present, down)
  <2>3. PICK t \in [ShedLegs -> Nat] : t = tail'
      BY <2>1
  <2>4. PICK mn \in [ShedLegs -> Nat] : mn = mean'
      BY <2>1
  <2>5. l \in Shed(legs, t, mn) /\ legs \in SUBSET ShedLegs
      BY <1>8, <2>2, <2>3, <2>4
  <2> HIDE DEF legs
  <2>6. /\ l \in legs /\ t[l] # None /\ t[l] > Floor /\ Spread(t[l], mn[l])
        /\ \E m \in Carrying(legs, Shed(legs, t, mn)) : t[m] < t[l]
      BY <2>5, ShedHasBetter
  <2>7. shed' = Shed(legs, t, mn)
      BY <1>3, <2>3, <2>4 DEF legs
  <2>8. l \notin down
      BY <1>3, <2>3, <2>5, <2>6
  <2> QED
      BY <2>3, <2>4, <2>5, <2>6, <2>7, <2>8 DEF legs
<1>10. SpreadTells /\ steady' = Settling => shed' = {}
  <2> SUFFICES ASSUME SpreadTells, steady' = Settling, NEW l \in shed' PROVE FALSE
      OBVIOUS
  <2>1. l \in ShedLegs \ down /\ tail'[l] > Floor /\ Spread(tail'[l], mean'[l])
      BY <1>9
  <2>2. s[l] # None /\ steady' > 0
      BY <1>1, <1>4, <2>1
  <2>3. tail'[l] = s[l] /\ tail'[l] \in Nat
      BY <1>5, <2>1, <2>2
  <2>4. s[l] > 2
      BY <1>1, <2>1, <2>3 DEF SpreadTells
  <2>5. mean'[l] \in Nat /\ mean'[l] > 0 /\ 3 * mean'[l] >= 2 * s[l]
      BY <1>1, <1>6, <2>1, <2>2, <2>4
  <2>6. SpreadHalves >= 3
      BY DEF SpreadTells
  <2>7. 2 * tail'[l] > mean'[l] * SpreadHalves
      BY <2>1, <2>5, <2>6, <1>1 DEF Spread, None
  <2>8. mean'[l] * SpreadHalves >= 3 * mean'[l]
      BY <1>1, <2>5, <2>6
  <2> QED
      BY <1>1, <2>3, <2>5, <2>7, <2>8
<1>11. TierLegs(here, dead)' = TierLegs(present, down)
    BY <1>3 DEF TierLegs
<1>12. ShedTypeOK'
  <2>1. shed' \subseteq ShedLegs
      BY <1>9
  <2> QED
      BY <1>3, <1>4, <2>1 DEF ShedInv, ShedTypeOK
<1>13. \A l \in ShedLegs : Fed(l)' => TailComesDown(l)' /\ MeanComesUp(l)'
    BY <1>3, <1>5, <1>6 DEF Fed, TailComesDown, MeanComesUp
<1>14. BetterCarries'
    BY <1>9, <1>11 DEF BetterCarries, Carrying
<1>15. steady' > 0 => \A l \in ShedLegs \ dead' : sample'[l] # None
    BY <1>3, <1>4
<1> QED
    BY <1>7, <1>10, <1>12, <1>13, <1>14, <1>15 DEF ShedInv

\* A leg that is lost, or given another tier, starts the count again.
LEMMA OthersKeep ==
    ASSUME ShedInv, steady' = 0, UNCHANGED <<tail, mean, shed>>,
           tier' \in [ShedLegs -> 1 .. 2], here' \subseteq ShedLegs, dead' \subseteq ShedLegs,
           sample' \in [ShedLegs -> Samples \cup {None}],
           \A l \in ShedLegs : Fed(l)' => Fed(l) /\ sample'[l] = sample[l]
    PROVE  ShedInv'
<1>1. Fall[1] \in Nat /\ Settling \in Nat /\ Settling > 0
    BY ShedConstants
<1>2. ASSUME NEW l \in ShedLegs, Fed(l)' PROVE TailComesDown(l)' /\ MeanComesUp(l)'
  <2>1. TailComesDown(l) /\ MeanComesUp(l) /\ tail[l] \in Tails /\ sample'[l] = sample[l]
      BY <1>2 DEF ShedInv
  <2>2. tail[l] <= Fall[1] /\ Step(0) = 1
      BY <1>1, <2>1 DEF Tails, Step
  <2> QED
      BY <2>1, <2>2 DEF TailComesDown, MeanComesUp
<1> QED
    BY <1>1, <1>2 DEF ShedInv, ShedTypeOK

\* Every step keeps it.
LEMMA ShedStepInv == ASSUME ShedInv, [ShedNext]_shedVars PROVE ShedInv'
<1>1. CASE \E present \in SUBSET ShedLegs : \E alive \in SUBSET present :
               \E s \in [alive -> Samples \cup {None}] :
                   ShedPass(present, ShedLegs \ alive,
                            [l \in ShedLegs |-> IF l \in alive THEN s[l] ELSE None])
  <2>1. PICK present \in SUBSET ShedLegs, alive \in SUBSET ShedLegs :
            \E s \in [alive -> Samples \cup {None}] :
                ShedPass(present, ShedLegs \ alive,
                         [l \in ShedLegs |-> IF l \in alive THEN s[l] ELSE None])
      BY <1>1
  <2>2. PICK s \in [alive -> Samples \cup {None}] :
            ShedPass(present, ShedLegs \ alive,
                     [l \in ShedLegs |-> IF l \in alive THEN s[l] ELSE None])
      BY <2>1
  <2>3. [l \in ShedLegs |-> IF l \in alive THEN s[l] ELSE None] \in [ShedLegs -> Samples \cup {None}]
      OBVIOUS
  <2>4. ShedLegs \ alive \in SUBSET ShedLegs
      OBVIOUS
  <2> QED
      BY <2>2, <2>3, <2>4, PassKeeps
<1>2. ASSUME NEW l \in ShedLegs, LegLost(l) PROVE ShedInv'
    BY <1>2, OthersKeep DEF LegLost, ShedInv, ShedTypeOK, Fed
<1>3. ASSUME NEW l \in ShedLegs, NEW t \in 1 .. 2, SetTier(l, t) PROVE ShedInv'
    BY <1>3, OthersKeep DEF SetTier, ShedInv, ShedTypeOK, Fed
<1>4. CASE UNCHANGED shedVars
  <2>1. \A l : Fed(l)' = Fed(l) /\ TailComesDown(l)' = TailComesDown(l) /\ MeanComesUp(l)' = MeanComesUp(l)
      BY <1>4 DEF shedVars, Fed, TailComesDown, MeanComesUp, Step
  <2>2. BetterCarries' = BetterCarries
      BY <1>4 DEF shedVars, BetterCarries, TierLegs
  <2> QED
      BY <1>4, <2>1, <2>2 DEF shedVars, ShedInv, ShedTypeOK
<1> QED
    BY <1>1, <1>2, <1>3, <1>4 DEF ShedNext

\* What it promises.
LEMMA ShedInvPromises == ASSUME ShedInv, SpreadTells PROVE CarryingSetSound
<1> DEFINE legs == TierLegs(here, dead)
<1>1. /\ legs \subseteq here
      /\ here # {} => legs # {}
      /\ here \ dead # {} => legs \cap dead = {}
      /\ here \ dead # {} => \A l \in legs, m \in here \ dead : tier[l] <= tier[m]
    BY TierCarries DEF ShedInv, ShedTypeOK
<1>2. Carrying(legs, shed) \subseteq legs /\ (legs # {} => Carrying(legs, shed) # {})
    BY DEF Carrying
<1>3. steady > 0 => \A l \in shed : \E m \in Carrying(legs, shed) : tail[m] < tail[l]
    BY DEF ShedInv, BetterCarries
<1> HIDE DEF legs
<1>4. BestLegCarries
    BY <1>1, <1>2, <1>3 DEF BestLegCarries, legs
<1> QED
    BY <1>4 DEF CarryingSetSound, ShedInv

-----------------------------------------------------------------------------
\* The roster.

Hosts == {1} \cup {a.host : a \in Announcements}
LegConfs == [RosterLegs -> [tier : Nat \ {0}, label : Nat \ {0}, host : Hosts]]
EditTables == [RosterLegs -> [Fields -> Nat]]
Rosters == [conf : LegConfs, present : SUBSET Phones]

Leased == {p \in Phones : lease[p] > 0}

\* What holds whatever the roster is doing: its shapes, and as many leases at a time as
\* can be counted.
RosterShapes ==
    /\ RosterTypeOK
    /\ IsFiniteSet(Leased)
    /\ legConf \in LegConfs
    /\ legIface \in [RosterLegs -> BOOLEAN] /\ legDown \in [RosterLegs -> BOOLEAN]
    /\ legsFile \in EditTables \cup {Spoilt}
    /\ put # NoPut => put.leg \in RosterLegs /\ put.edit \in Edits /\ put.read \in EditTables
    /\ clean \in BOOLEAN /\ quiet \in 0 .. 2

\* The announced legs are the leased phones, at the endpoint they announced; and under
\* the label they announced where the operator gave none.
JoinedIsLeased == joined = Leased /\ \A p \in joined : legConf[p].host = said[p].host
LabelsFollow == \A p \in joined : Overrides[p].label = 0 => legConf[p].label = said[p].label

\* The legs whose tier no pass works out from the others', and that it is theirs already.
Stated(l) == l \in Fixed \/ said[l].tier # Unstated
TiersStand == \A l \in Fixed \cup joined : Stated(l) => InForce(l, "tier")

\* The phone that alone states no tier is in that of the bond.
LoneFollows == \A p \in Silent : Alone(p) => WithTheBond(p)

\* What a pass without a change has established at each of its steps, and what the next
\* such pass adds to it.
RosterInv ==
    /\ RosterShapes
    /\ quiet > 0 => clean
    /\ clean => JoinedIsLeased /\ LabelsFollow
    /\ clean /\ passAt # "overrides" => \A l \in Fixed \cup joined, f \in Fields : InForce(l, f)
    /\ clean /\ passAt = "idle" => \A l \in Fixed : autoLabel[l] => Overrides[l].label = 0
    /\ quiet > 0 /\ passAt = "overrides" => TiersStand
    /\ (quiet > 0 /\ passAt # "idle") \/ quiet = 2 => LoneFollows

\* What the constants of the roster are.
LEMMA RosterConstants ==
    /\ Fixed \cap Phones = {} /\ BaseTier \in Nat \ {0} /\ LeaseTicks \in Nat
    /\ Announcements # {} /\ \A a \in Announcements : a.tier \in Nat /\ a.label \in Nat \ {0}
    /\ \A e \in Edits : e.field \in Fields /\ e.value \in Nat
BY RosterAssumption

\* legs.json, read as a table of what the operator set.
LEMMA OverridesTyped == ASSUME RosterShapes PROVE Overrides \in EditTables
<1>1. NoEntry \in EditTables
    BY DEF NoEntry, EditTables
<1> QED
    BY <1>1 DEF Overrides, RosterShapes

\* The lowest of the tiers is one of them or 1.
LEMMA LowestIsTier ==
    ASSUME NEW conf \in LegConfs, NEW others \in SUBSET RosterLegs
    PROVE  LowestTier(conf, others) \in Nat \ {0}
<1> DEFINE alive == {l \in others : ~ legDown[l]}
           pool == IF alive = {} THEN others ELSE alive
           tiers == {conf[l].tier : l \in pool}
<1>1. pool \in SUBSET RosterLegs
    OBVIOUS
<1> HIDE DEF alive, pool
<1>2. tiers \in SUBSET (Nat \ {0})
    BY <1>1 DEF LegConfs
<1>3. CASE pool = {}
    BY <1>3 DEF LowestTier, alive, pool
<1>4. CASE pool # {}
  <2>1. tiers # {} /\ tiers \in SUBSET Nat
      BY <1>2, <1>4
  <2>2. \A l \in pool : conf[l].tier \in tiers
      OBVIOUS
  <2> HIDE DEF tiers
  <2>3. Min(tiers) \in tiers /\ \A y \in tiers : Min(tiers) <= y
      BY <2>1, LeastExists
  <2>4. \A l \in pool : Min(tiers) <= conf[l].tier
      BY <2>2, <2>3
  <2>5. (CHOOSE t \in tiers : \A l \in pool : t <= conf[l].tier) \in tiers
      BY <2>3, <2>4
  <2>6. LowestTier(conf, others) = CHOOSE t \in tiers : \A l \in pool : t <= conf[l].tier
      BY <1>4 DEF LowestTier, alive, pool, tiers
  <2> QED
      BY <1>2, <2>5, <2>6
<1> QED
    BY <1>3, <1>4

\* It follows from the tiers alone.
LEMMA LowestFromTiers ==
    ASSUME NEW c, NEW d, NEW others, \A l \in others : c[l].tier = d[l].tier
    PROVE  LowestTier(c, others) = LowestTier(d, others)
<1> DEFINE alive == {l \in others : ~ legDown[l]}
           pool == IF alive = {} THEN others ELSE alive
           T == {c[l].tier : l \in pool}
           tc == CHOOSE t \in {c[l].tier : l \in pool} : \A l \in pool : t <= c[l].tier
           td == CHOOSE t \in {d[l].tier : l \in pool} : \A l \in pool : t <= d[l].tier
<1>1. \A l \in pool : c[l].tier = d[l].tier
    OBVIOUS
<1> HIDE DEF alive, pool
<1>2. T = {d[l].tier : l \in pool}
    BY <1>1
<1>3. \A t : (\A l \in pool : t <= c[l].tier) <=> (\A l \in pool : t <= d[l].tier)
    BY <1>1
<1> HIDE DEF T
<1>4. (CHOOSE t \in T : \A l \in pool : t <= c[l].tier) = (CHOOSE t \in T : \A l \in pool : t <= d[l].tier)
    BY <1>3
<1>5. tc = (CHOOSE t \in T : \A l \in pool : t <= c[l].tier)
    BY DEF T
<1>6. td = (CHOOSE t \in T : \A l \in pool : t <= d[l].tier)
    BY <1>2
<1>7. tc = td
    BY <1>4, <1>5, <1>6, Zenon
<1>8. LowestTier(c, others) = IF pool = {} THEN 1 ELSE tc
    BY DEF LowestTier, alive, pool
<1>9. LowestTier(d, others) = IF pool = {} THEN 1 ELSE td
    BY DEF LowestTier, alive, pool
<1> HIDE DEF tc, td
<1> QED
    BY <1>7, <1>8, <1>9

\* Those that are alive, if any is, decide.
LEMMA LowestOfAlive ==
    ASSUME NEW c, NEW others, {l \in others : ~ legDown[l]} # {}
    PROVE  LowestTier(c, others) = LowestTier(c, {l \in others : ~ legDown[l]})
<1> DEFINE alive == {l \in others : ~ legDown[l]}
<1>1. {l \in alive : ~ legDown[l]} = alive
    OBVIOUS
<1> HIDE DEF alive
<1>2. alive # {}
    BY DEF alive
<1>3. LowestTier(c, others) = CHOOSE t \in {c[l].tier : l \in alive} : \A l \in alive : t <= c[l].tier
    BY <1>2 DEF LowestTier, alive
<1>4. LowestTier(c, alive) = CHOOSE t \in {c[l].tier : l \in alive} : \A l \in alive : t <= c[l].tier
    BY <1>1, <1>2 DEF LowestTier
<1> QED
    BY <1>3, <1>4 DEF alive

\* One announcement taken in moves that phone alone: its endpoint, its label unless the
\* operator gave it one, its tier if it states none or is new.
LEMMA SettlesOne ==
    ASSUME RosterShapes, NEW acc \in Rosters, NEW p \in Phones
    PROVE  /\ SettleRoster(acc, p) \in Rosters
           /\ SettleRoster(acc, p).present = acc.present \cup {p}
           /\ \A l \in RosterLegs \ {p} : SettleRoster(acc, p).conf[l] = acc.conf[l]
           /\ SettleRoster(acc, p).conf[p].host = said[p].host
           /\ Overrides[p].label = 0 => SettleRoster(acc, p).conf[p].label = said[p].label
           /\ p \in acc.present /\ said[p].tier # Unstated =>
                 SettleRoster(acc, p).conf[p].tier = acc.conf[p].tier
           /\ said[p].tier = Unstated =>
                 SettleRoster(acc, p).conf[p].tier = JoinableTier(acc.conf, acc.present, p)
<1> DEFINE j == JoinableTier(acc.conf, acc.present, p)
           old == acc.conf[p]
           fresh == [tier  |-> IF said[p].tier # Unstated THEN said[p].tier ELSE j,
                     label |-> IF Operated(p, "label") THEN Overrides[p].label ELSE said[p].label,
                     host  |-> said[p].host]
           again == [tier  |-> IF said[p].tier # Unstated THEN old.tier ELSE j,
                     label |-> IF Operated(p, "label") THEN old.label ELSE said[p].label,
                     host  |-> said[p].host]
           new == IF p \in acc.present THEN again ELSE fresh
<1>1. acc = [conf |-> acc.conf, present |-> acc.present] /\ acc.conf \in LegConfs
      /\ acc.present \in SUBSET Phones /\ p \in RosterLegs
    BY DEF Rosters, RosterLegs
<1>2. j \in Nat \ {0}
  <2>1. {l \in Fixed \cup acc.present : l # p /\ legIface[l]} \in SUBSET RosterLegs
      BY <1>1 DEF RosterLegs
  <2> QED
      BY <1>1, <2>1, LowestIsTier DEF JoinableTier
<1>3. said[p] \in Announcements
    BY DEF RosterShapes, RosterTypeOK
<1>4. said[p].tier \in Nat /\ said[p].label \in Nat \ {0} /\ said[p].host \in Hosts
    BY <1>3, RosterConstants DEF Hosts
<1>5. Overrides[p].label \in Nat /\ (Operated(p, "label") <=> Overrides[p].label # 0)
    BY <1>1, OverridesTyped DEF EditTables, Fields, Operated
<1>6. old.tier \in Nat \ {0} /\ old.label \in Nat \ {0}
    BY <1>1 DEF LegConfs
<1> HIDE DEF j, old
<1>7. /\ new \in [tier : Nat \ {0}, label : Nat \ {0}, host : Hosts]
      /\ new.host = said[p].host
      /\ Overrides[p].label = 0 => new.label = said[p].label
      /\ p \in acc.present /\ said[p].tier # Unstated => new.tier = old.tier
      /\ said[p].tier = Unstated => new.tier = j
    BY <1>2, <1>4, <1>5, <1>6 DEF Unstated
<1>8. SettleRoster(acc, p) = [conf |-> [acc.conf EXCEPT ![p] = new], present |-> acc.present \cup {p}]
  <2>1. CASE p \in acc.present
    <3>1. Renew(acc.conf, acc.present, p) = [acc.conf EXCEPT ![p] = again]
        BY DEF Renew, TierOf, j, old
    <3>2. [acc EXCEPT !.conf = Renew(acc.conf, acc.present, p)]
            = [conf |-> Renew(acc.conf, acc.present, p), present |-> acc.present]
        BY <1>1
    <3>3. acc.present \cup {p} = acc.present
        BY <2>1
    <3> HIDE DEF again, fresh
    <3> QED
        BY <2>1, <3>1, <3>2, <3>3 DEF SettleRoster
  <2>2. CASE p \notin acc.present
    <3>1. Born(acc.conf, acc.present, p) = [acc.conf EXCEPT ![p] = fresh]
        BY DEF Born, TierOf, j
    <3> HIDE DEF again, fresh
    <3> QED
        BY <2>2, <3>1 DEF SettleRoster
  <2> QED
      BY <2>1, <2>2
<1> HIDE DEF new
<1>9. [acc.conf EXCEPT ![p] = new] \in LegConfs
    BY <1>1, <1>7 DEF LegConfs
<1>10. \A l \in RosterLegs : [acc.conf EXCEPT ![p] = new][l] = IF l = p THEN new ELSE acc.conf[l]
    BY <1>1 DEF LegConfs
<1> DEFINE c == [acc.conf EXCEPT ![p] = new]
<1> HIDE DEF c
<1>11. SettleRoster(acc, p).conf = c /\ SettleRoster(acc, p).present = acc.present \cup {p}
    BY <1>8 DEF c
<1>12. SettleRoster(acc, p) \in Rosters
  <2>1. acc.present \cup {p} \in SUBSET Phones
      BY <1>1
  <2> QED
      BY <1>8, <1>9, <2>1 DEF Rosters
<1>13. c[p] = new /\ \A l \in RosterLegs \ {p} : c[l] = acc.conf[l]
    BY <1>1, <1>10 DEF c
<1> QED
    BY <1>7, <1>11, <1>12, <1>13 DEF j, old

-----------------------------------------------------------------------------
\* The announcements taken in one after the other, as FoldLeft does it.

\* The roster they make of the one there was.
Announced(base, seq) == FoldLeft(SettleRoster, base, seq)

\* t gives what each part of the announcements makes of the roster.
RosterParts(t, base, seq) ==
    t = [s \in SUBSET (DOMAIN seq) |-> IF s = {} THEN base
                                       ELSE LET i == Max(s) IN SettleRoster(t[s \ {i}], seq[i])]

\* FoldLeft, with the definitions of the community modules written out.
LEMMA RosterFoldDef ==
    ASSUME NEW base, NEW seq
    PROVE  Announced(base, seq) = (CHOOSE t : RosterParts(t, base, seq))[DOMAIN seq]
BY DEF Announced, FoldLeft, MapThenFoldSet, RosterParts

PartsTo(n, k) == {s \in SUBSET (1 .. n) : Cardinality(s) <= k}
RosterOf(t, base, seq, s) == IF s = {} THEN base ELSE SettleRoster(t[s \ {Max(s)}], seq[Max(s)])
RostersTo(t, base, seq, n, k) == \A s \in PartsTo(n, k) : t[s] = RosterOf(t, base, seq, s)

\* The last announcement is one, and leaves a part with one less.
LEMMA LastTaken ==
    ASSUME NEW n \in Nat, NEW s \in SUBSET (1 .. n)
    PROVE  /\ IsFiniteSet(s) /\ Cardinality(s) \in Nat /\ Cardinality(s) <= n
           /\ Cardinality(s) = 0 <=> s = {}
           /\ s # {} => /\ Max(s) \in s /\ s \ {Max(s)} \in SUBSET (1 .. n)
                        /\ Cardinality(s \ {Max(s)}) = Cardinality(s) - 1
<1>1. IsFiniteSet(1 .. n) /\ Cardinality(1 .. n) = IF 1 > n THEN 0 ELSE n - 1 + 1
    BY FS_Interval
<1>2. Cardinality(1 .. n) = n
    BY <1>1
<1>3. IsFiniteSet(s) /\ Cardinality(s) <= n
    BY <1>1, <1>2, FS_Subset
<1>4. Cardinality(s) \in Nat /\ (Cardinality(s) = 0 <=> s = {})
    BY <1>3, FS_CardinalityType, FS_EmptySet
<1>5. s # {} => Max(s) \in s
  <2>1. s \in SUBSET Int
      OBVIOUS
  <2> QED
      BY <1>3, <2>1, MaxExists
<1>6. s # {} => Cardinality(s \ {Max(s)}) = Cardinality(s) - 1
    BY <1>3, <1>5, FS_RemoveElement
<1> QED
    BY <1>3, <1>4, <1>5, <1>6

\* There is a function that gives the roster of each part.
LEMMA RostersExist ==
    ASSUME NEW base, NEW n \in Nat, NEW seq, DOMAIN seq = 1 .. n
    PROVE  \E t : RosterParts(t, base, seq)
<1> DEFINE N == {k \in Nat : \E t : RostersTo(t, base, seq, n, k)}
<1>1. \A s \in SUBSET (1 .. n) :
        /\ Cardinality(s) \in Nat /\ Cardinality(s) <= n /\ (Cardinality(s) = 0 <=> s = {})
        /\ s # {} => /\ s \ {Max(s)} \in SUBSET (1 .. n)
                     /\ Cardinality(s \ {Max(s)}) = Cardinality(s) - 1
    BY LastTaken
<1>2. 0 \in N
  <2> DEFINE t == [s \in SUBSET (1 .. n) |-> base]
  <2>1. ASSUME NEW s \in PartsTo(n, 0) PROVE t[s] = RosterOf(t, base, seq, s)
    <3>1. s \in SUBSET (1 .. n) /\ s = {}
      <4>1. s \in SUBSET (1 .. n) /\ Cardinality(s) <= 0
          BY DEF PartsTo
      <4>2. Cardinality(s) \in Nat /\ (Cardinality(s) = 0 <=> s = {})
          BY <1>1, <4>1
      <4> QED
          BY <4>1, <4>2
    <3> QED
        BY <3>1 DEF RosterOf
  <2> HIDE DEF t
  <2>2. RostersTo(t, base, seq, n, 0)
      BY <2>1 DEF RostersTo
  <2> QED
      BY <2>2
<1>3. ASSUME NEW k \in N PROVE k + 1 \in N
  <2>1. PICK t : RostersTo(t, base, seq, n, k)
      OBVIOUS
  <2> DEFINE u == [s \in SUBSET (1 .. n) |-> IF Cardinality(s) <= k THEN t[s]
                                             ELSE RosterOf(t, base, seq, s)]
  <2>2. ASSUME NEW s \in PartsTo(n, k + 1) PROVE u[s] = RosterOf(u, base, seq, s)
    <3> DEFINE q == s \ {Max(s)}
    <3>1. s \in SUBSET (1 .. n) /\ Cardinality(s) <= k + 1 /\ Cardinality(s) \in Nat
        BY <1>1 DEF PartsTo
    <3>2. u[s] = RosterOf(t, base, seq, s)
      <4>1. CASE Cardinality(s) <= k
        <5>1. s \in PartsTo(n, k)
            BY <3>1, <4>1 DEF PartsTo
        <5>2. t[s] = RosterOf(t, base, seq, s)
            BY <2>1, <5>1 DEF RostersTo
        <5> QED
            BY <3>1, <4>1, <5>2
      <4>2. CASE ~ (Cardinality(s) <= k)
          BY <3>1, <4>2
      <4> QED
          BY <4>1, <4>2
    <3>3. s # {} => u[q] = t[q]
      <4>1. ASSUME s # {} PROVE q \in SUBSET (1 .. n) /\ Cardinality(q) <= k
        <5>1. q \in SUBSET (1 .. n) /\ Cardinality(q) = Cardinality(s) - 1
          <6> HIDE DEF u
          <6> QED
              BY <1>1, <3>1, <4>1
        <5> HIDE DEF q, u
        <5> QED
            BY <3>1, <5>1
      <4>2. \A r \in SUBSET (1 .. n) : Cardinality(r) <= k => u[r] = t[r]
          OBVIOUS
      <4> HIDE DEF q, u
      <4> QED
          BY <4>1, <4>2
    <3> HIDE DEF u
    <3> QED
        BY <3>2, <3>3 DEF RosterOf
  <2> HIDE DEF u
  <2>3. RostersTo(u, base, seq, n, k + 1)
      BY <2>2 DEF RostersTo
  <2> QED
      BY <2>3
<1>4. N = Nat
  <2>1. N \in SUBSET Nat
      OBVIOUS
  <2> HIDE DEF N
  <2> QED
      BY <1>2, <1>3, <2>1, NatSetInduction
<1>5. PICK t : RostersTo(t, base, seq, n, n)
  <2>1. n \in N
      BY <1>4
  <2> QED
      BY <2>1
<1> DEFINE u == [s \in SUBSET (1 .. n) |-> t[s]]
<1>6. ASSUME NEW s \in SUBSET (1 .. n)
      PROVE  u[s] = IF s = {} THEN base ELSE LET i == Max(s) IN SettleRoster(u[s \ {i}], seq[i])
  <2>1. t[s] = RosterOf(t, base, seq, s)
      BY <1>1, <1>5 DEF RostersTo, PartsTo
  <2>2. u[s] = t[s] /\ (s # {} => u[s \ {Max(s)}] = t[s \ {Max(s)}])
      BY <1>1
  <2> HIDE DEF u
  <2> QED
      BY <2>1, <2>2 DEF RosterOf
<1>7. RosterParts(u, base, seq)
  <2> DEFINE v == [s \in SUBSET (1 .. n) |-> IF s = {} THEN base
                                             ELSE LET i == Max(s) IN SettleRoster(u[s \ {i}], seq[i])]
  <2>1. DOMAIN u = SUBSET (1 .. n) /\ DOMAIN v = SUBSET (1 .. n) /\ u = [s \in SUBSET (1 .. n) |-> u[s]]
      OBVIOUS
  <2> HIDE DEF u
  <2>2. u = v
      BY <1>6, <2>1
  <2> QED
      BY <2>2 DEF RosterParts
<1> HIDE DEF u
<1> QED
    BY <1>7

\* The roster after each announcement, the last of which is what FoldLeft gives.
LEMMA RosterUnfolds ==
    ASSUME NEW base, NEW n \in Nat, NEW seq, DOMAIN seq = 1 .. n
    PROVE  \E r : /\ r[0] = base
                  /\ \A k \in 0 .. n - 1 : r[k + 1] = SettleRoster(r[k], seq[k + 1])
                  /\ Announced(base, seq) = r[n]
<1> DEFINE t == CHOOSE u : RosterParts(u, base, seq)
           r == [k \in 0 .. n |-> t[1 .. k]]
<1>1. RosterParts(t, base, seq)
    BY RostersExist
<1>2. Announced(base, seq) = t[1 .. n]
    BY RosterFoldDef
<1> HIDE DEF t
<1>3. \A s \in SUBSET (1 .. n) : t[s] = RosterOf(t, base, seq, s)
    BY <1>1 DEF RosterParts, RosterOf
<1>4. t[1 .. 0] = base
  <2>1. 1 .. 0 \in SUBSET (1 .. n) /\ 1 .. 0 = {}
      OBVIOUS
  <2> QED
      BY <1>3, <2>1 DEF RosterOf
<1>5. ASSUME NEW k \in 0 .. n - 1 PROVE t[1 .. (k + 1)] = SettleRoster(t[1 .. k], seq[k + 1])
  <2> DEFINE s == 1 .. (k + 1)
  <2>1. s \in SUBSET (1 .. n) /\ s # {} /\ k + 1 \in s /\ s \ {k + 1} = 1 .. k
      OBVIOUS
  <2>2. Max(s) = k + 1
    <3>1. \A x \in s : x <= k + 1 /\ x \in Int
        OBVIOUS
    <3>2. s \in SUBSET Int
        OBVIOUS
    <3>3. IsFiniteSet(s)
      <4> HIDE DEF s
      <4> QED
          BY <2>1, LastTaken
    <3> HIDE DEF s
    <3>4. Max(s) \in s /\ \A y \in s : y <= Max(s)
        BY <2>1, <3>2, <3>3, MaxExists
    <3> QED
        BY <2>1, <3>1, <3>4
  <2> HIDE DEF s
  <2>3. t[s] = SettleRoster(t[1 .. k], seq[k + 1])
      BY <1>3, <2>1, <2>2 DEF RosterOf
  <2> QED
      BY <2>3 DEF s
<1>6. r[0] = base /\ r[n] = t[1 .. n]
    BY <1>4
<1>7. \A k \in 0 .. n - 1 : r[k + 1] = SettleRoster(r[k], seq[k + 1])
    BY <1>5
<1> HIDE DEF r
<1> QED
    BY <1>2, <1>6, <1>7

-----------------------------------------------------------------------------
\* What the announcements make of the roster, once those of the phones in done are in.

\* p alone states no tier, and all who announced themselves were legs before.
Loner(base, p) ==
    /\ Leased \subseteq base.present
    /\ said[p].tier = Unstated
    /\ \A q \in base.present : said[q].tier = Unstated => q = p

TakenIn(base, acc, done) ==
    /\ acc \in Rosters
    /\ acc.present = base.present \cup done
    /\ \A l \in RosterLegs \ done : acc.conf[l] = base.conf[l]
    /\ \A p \in done : acc.conf[p].host = said[p].host
    /\ \A p \in done : Overrides[p].label = 0 => acc.conf[p].label = said[p].label
    /\ \A p \in done : p \in base.present /\ said[p].tier # Unstated =>
          acc.conf[p].tier = base.conf[p].tier
    /\ \A p \in done : Loner(base, p) =>
          acc.conf[p].tier = JoinableTier(base.conf, base.present, p)

\* One more.
LEMMA TakesOne ==
    ASSUME RosterShapes, NEW base \in Rosters, NEW acc, NEW done \in SUBSET Leased,
           TakenIn(base, acc, done), NEW p \in Leased
    PROVE  TakenIn(base, SettleRoster(acc, p), done \cup {p})
<1> DEFINE out == SettleRoster(acc, p)
           more == done \cup {p}
<1>1. acc \in Rosters /\ p \in Phones /\ p \in RosterLegs
    BY DEF TakenIn, Leased, RosterLegs
<1>2. /\ out \in Rosters
      /\ out.present = acc.present \cup {p}
      /\ \A l \in RosterLegs \ {p} : out.conf[l] = acc.conf[l]
      /\ out.conf[p].host = said[p].host
      /\ Overrides[p].label = 0 => out.conf[p].label = said[p].label
      /\ p \in acc.present /\ said[p].tier # Unstated => out.conf[p].tier = acc.conf[p].tier
      /\ said[p].tier = Unstated => out.conf[p].tier = JoinableTier(acc.conf, acc.present, p)
    BY <1>1, SettlesOne
<1>3. done \subseteq RosterLegs /\ base.present \subseteq RosterLegs
  <2>1. base.present \in SUBSET Phones
      BY DEF Rosters
  <2> QED
      BY <2>1 DEF Leased, RosterLegs
<1>4. /\ acc.present = base.present \cup done
      /\ \A l \in RosterLegs \ done : acc.conf[l] = base.conf[l]
      /\ \A q \in done : acc.conf[q].host = said[q].host
      /\ \A q \in done : Overrides[q].label = 0 => acc.conf[q].label = said[q].label
      /\ \A q \in done : q \in base.present /\ said[q].tier # Unstated =>
            acc.conf[q].tier = base.conf[q].tier
      /\ \A q \in done : Loner(base, q) => acc.conf[q].tier = JoinableTier(base.conf, base.present, q)
    BY DEF TakenIn
<1> HIDE DEF out
<1>5. out.present = base.present \cup more
    BY <1>2, <1>4
<1>6. \A l \in RosterLegs \ more : out.conf[l] = base.conf[l]
    BY <1>2, <1>4
<1>7. ASSUME NEW q \in more
      PROVE  /\ out.conf[q].host = said[q].host
             /\ Overrides[q].label = 0 => out.conf[q].label = said[q].label
  <2>1. CASE q = p
      BY <1>2, <2>1
  <2>2. CASE q # p
    <3>1. q \in done /\ out.conf[q] = acc.conf[q]
        BY <1>2, <1>3, <2>2
    <3> QED
        BY <1>4, <3>1
  <2> QED
      BY <2>1, <2>2
<1>8. ASSUME NEW q \in more, q \in base.present, said[q].tier # Unstated
      PROVE  out.conf[q].tier = base.conf[q].tier
  <2>1. acc.conf[q].tier = base.conf[q].tier
    <3>1. CASE q \in done
        BY <1>4, <1>8, <3>1
    <3>2. CASE q \notin done
      <4>1. acc.conf[q] = base.conf[q]
          BY <1>3, <1>4, <1>8, <3>2
      <4> QED
          BY <4>1
    <3> QED
        BY <3>1, <3>2
  <2>2. out.conf[q].tier = acc.conf[q].tier
    <3>1. CASE q = p
      <4>1. p \in acc.present
          BY <1>4, <1>8, <3>1
      <4> QED
          BY <1>2, <1>8, <3>1, <4>1
    <3>2. CASE q # p
      <4>1. out.conf[q] = acc.conf[q]
          BY <1>2, <1>3, <1>8, <3>2
      <4> QED
          BY <4>1
    <3> QED
        BY <3>1, <3>2
  <2> QED
      BY <2>1, <2>2
<1>9. ASSUME NEW q \in more, Loner(base, q)
      PROVE  out.conf[q].tier = JoinableTier(base.conf, base.present, q)
  <2>1. CASE q # p
    <3>1. q \in done /\ out.conf[q] = acc.conf[q]
        BY <1>2, <1>3, <2>1
    <3> QED
        BY <1>4, <1>9, <3>1
  <2>2. CASE q = p
    <3>1. acc.present = base.present
      <4>1. done \subseteq base.present
          BY <1>9 DEF Loner
      <4> QED
          BY <1>4, <4>1
    <3> DEFINE others == {l \in Fixed \cup base.present : l # p /\ legIface[l]}
    <3>2. ASSUME NEW l \in others PROVE acc.conf[l].tier = base.conf[l].tier
      <4>1. l \in RosterLegs /\ l # p
          BY <1>3 DEF RosterLegs
      <4>2. CASE l \in done
        <5>1. l \in base.present /\ said[l].tier # Unstated
          <6>1. l \in base.present
              BY <1>4, <3>1, <4>2
          <6> QED
              BY <1>9, <2>2, <4>1, <6>1 DEF Loner
        <5> QED
            BY <1>4, <4>2, <5>1
      <4>3. CASE l \notin done
        <5>1. acc.conf[l] = base.conf[l]
            BY <1>4, <4>1, <4>3
        <5> QED
            BY <5>1
      <4> QED
          BY <4>2, <4>3
    <3>3. LowestTier(acc.conf, others) = LowestTier(base.conf, others)
      <4> HIDE DEF others
      <4> QED
          BY <3>2, LowestFromTiers
    <3>4. JoinableTier(acc.conf, acc.present, p) = JoinableTier(base.conf, base.present, p)
        BY <3>1, <3>3 DEF JoinableTier
    <3>5. said[p].tier = Unstated
        BY <1>9, <2>2 DEF Loner
    <3> QED
        BY <1>2, <2>2, <3>4, <3>5
  <2> QED
      BY <2>1, <2>2
<1>10. out \in Rosters
    BY <1>2
<1> HIDE DEF more
<1>11. TakenIn(base, out, more)
    BY <1>5, <1>6, <1>7, <1>8, <1>9, <1>10 DEF TakenIn
<1> QED
    BY <1>11 DEF out, more

\* All of them, in any order.
LEMMA TakesAll ==
    ASSUME RosterShapes, NEW base \in Rosters, NEW order \in SetToSeqs(Leased)
    PROVE  TakenIn(base, Announced(base, order), Leased)
<1> DEFINE n == Cardinality(Leased)
           Done(k) == {order[i] : i \in 1 .. k}
<1>1. IsFiniteSet(Leased) /\ n \in Nat
    BY FS_CardinalityType DEF RosterShapes
<1>2. order \in [1 .. n -> Leased] /\ \A i, j \in 1 .. n : i # j => order[i] # order[j]
    BY DEF SetToSeqs
<1> HIDE DEF n
<1>3. Done(n) = Leased
  <2>1. order \in Injection(1 .. n, Leased)
    <3>1. \A i, j \in 1 .. n : order[i] = order[j] => i = j
        BY <1>2
    <3> QED
        BY <1>2, <3>1 DEF Injection, IsInjective
  <2>2. IsFiniteSet(1 .. n) /\ Cardinality(1 .. n) = n
    <3>1. IsFiniteSet(1 .. n) /\ Cardinality(1 .. n) = IF 1 > n THEN 0 ELSE n - 1 + 1
        BY <1>1, FS_Interval
    <3> QED
        BY <1>1, <3>1
  <2>3. order \in Surjection(1 .. n, Leased)
      BY <1>1, <2>1, <2>2, FS_Injection DEF n
  <2>4. \A p \in Leased : \E i \in 1 .. n : order[i] = p
      BY <2>3 DEF Surjection
  <2> QED
      BY <1>2, <2>4
<1>4. PICK r : /\ r[0] = base
               /\ \A k \in 0 .. n - 1 : r[k + 1] = SettleRoster(r[k], order[k + 1])
               /\ Announced(base, order) = r[n]
  <2>1. DOMAIN order = 1 .. n
      BY <1>2
  <2>2. n \in Nat
      BY <1>1
  <2> QED
      BY <2>1, <2>2, RosterUnfolds
<1> DEFINE K == {k \in Nat : k <= n => TakenIn(base, r[k], Done(k))}
<1>5. 0 \in K
  <2>1. Done(0) = {}
      OBVIOUS
  <2> HIDE DEF Done
  <2>2. TakenIn(base, r[0], Done(0))
      BY <1>4, <2>1 DEF TakenIn
  <2> QED
      BY <2>2
<1>6. ASSUME NEW k \in K PROVE k + 1 \in K
  <2>1. CASE k + 1 > n
      BY <1>1, <2>1
  <2>2. CASE k + 1 <= n
    <3>1. k \in 0 .. n - 1 /\ k + 1 \in 1 .. n /\ k <= n
        BY <1>1, <2>2
    <3>2. order[k + 1] \in Leased /\ Done(k) \in SUBSET Leased
      <4>1. \A i \in 1 .. n : order[i] \in Leased
          BY <1>2
      <4>2. 1 .. k \subseteq 1 .. n
          BY <1>1, <3>1
      <4> QED
          BY <3>1, <4>1, <4>2
    <3>3. Done(k + 1) = Done(k) \cup {order[k + 1]}
      <4>1. \A i \in 1 .. (k + 1) : i \in 1 .. k \/ i = k + 1
          BY <3>1
      <4>2. 1 .. k \subseteq 1 .. (k + 1) /\ k + 1 \in 1 .. (k + 1)
          BY <3>1
      <4> QED
          BY <4>1, <4>2
    <3> HIDE DEF Done
    <3>4. TakenIn(base, r[k], Done(k))
        BY <3>1
    <3>5. TakenIn(base, SettleRoster(r[k], order[k + 1]), Done(k) \cup {order[k + 1]})
        BY <3>2, <3>4, TakesOne
    <3>6. TakenIn(base, r[k + 1], Done(k + 1))
        BY <1>4, <3>1, <3>3, <3>5
    <3> QED
        BY <3>1, <3>6
  <2>3. k \in Nat
      OBVIOUS
  <2> HIDE DEF K
  <2> QED
      BY <1>1, <2>1, <2>2, <2>3
<1>7. K = Nat
  <2>1. K \in SUBSET Nat
      OBVIOUS
  <2> HIDE DEF K
  <2> QED
      BY <1>5, <1>6, <2>1, NatSetInduction
<1>8. TakenIn(base, r[n], Done(n))
  <2> HIDE DEF Done
  <2>1. n \in K /\ n <= n
      BY <1>1, <1>7
  <2> QED
      BY <2>1
<1> HIDE DEF Done
<1> QED
    BY <1>3, <1>4, <1>8

-----------------------------------------------------------------------------
\* The steps of the roster.

\* The roster's invariant holds at first.
LEMMA RosterInitInv == RosterInit => RosterInv
<1> SUFFICES ASSUME RosterInit PROVE RosterInv
    OBVIOUS
<1>1. Leased = {} /\ IsFiniteSet(Leased)
    BY FS_EmptySet DEF RosterInit, Leased
<1>2. said \in [Phones -> Announcements]
    BY RosterConstants DEF RosterInit
<1>3. legConf \in LegConfs
    BY RosterConstants DEF RosterInit, LegConfs, Hosts
<1>4. legsFile \in EditTables
    BY DEF RosterInit, NoEntry, EditTables
<1>5. RosterTypeOK
    BY <1>2, RosterConstants DEF RosterInit, RosterTypeOK
<1>6. /\ legIface \in [RosterLegs -> BOOLEAN] /\ legDown \in [RosterLegs -> BOOLEAN]
      /\ put = NoPut /\ clean = FALSE /\ quiet = 0
    BY DEF RosterInit
<1>7. clean \in BOOLEAN /\ quiet \in 0 .. 2
  <2>1. clean \in BOOLEAN
      BY <1>6, Zenon
  <2> QED
      BY <1>6, <2>1
<1>8. RosterShapes
    BY <1>7, <1>1, <1>3, <1>4, <1>5, <1>6 DEF RosterShapes
<1> QED
    BY <1>6, <1>8 DEF RosterInv

\* After a change nothing but the shapes is promised.
LEMMA ChangedKeeps == ASSUME RosterShapes', Changed PROVE RosterInv'
BY DEF Changed, RosterInv

\* What a change leaves of the history has its type.
LEMMA ChangedTyped == ASSUME Changed PROVE clean' \in BOOLEAN /\ quiet' \in 0 .. 2
<1>1. clean' \in BOOLEAN
    BY Zenon DEF Changed
<1>2. quiet' \in 0 .. 2
    BY DEF Changed
<1> QED
    BY <1>1, <1>2

\* What a step that leaves the legs and the file alone keeps.
LEMMA LegsAloneKeep ==
    ASSUME RosterInv, RosterShapes', Leased' = Leased,
           UNCHANGED <<said, joined, legConf, legIface, legDown, autoLabel, legsFile, passAt,
                       clean, quiet>>
    PROVE  RosterInv'
<1>1. Overrides' = Overrides
    BY DEF Overrides
<1>2. JoinedIsLeased' = JoinedIsLeased /\ LabelsFollow' = LabelsFollow
    BY <1>1 DEF JoinedIsLeased, LabelsFollow
<1>3. \A l, f : InForce(l, f)' = InForce(l, f)
    BY <1>1 DEF InForce
<1>4. TiersStand' = TiersStand
    BY <1>3 DEF TiersStand, Stated
<1>5. Silent' = Silent /\ Anchors' = Anchors
    BY <1>1 DEF Silent, Anchors
<1>6. \A p : WithTheBond(p)' = WithTheBond(p) /\ Alone(p)' = Alone(p)
    BY <1>5 DEF WithTheBond, LowestTier, Alone
<1>7. LoneFollows' = LoneFollows
    BY <1>5, <1>6 DEF LoneFollows
<1> QED
    BY <1>1, <1>2, <1>3, <1>4, <1>7 DEF RosterInv

\* What the shapes of the legs and of the file are made of.
LEMMA ShapesKept ==
    ASSUME RosterShapes, RosterTypeOK', IsFiniteSet(Leased)',
           UNCHANGED <<legConf, legIface, legDown, legsFile>>,
           put' # NoPut => put' = put, clean' \in BOOLEAN, quiet' \in 0 .. 2
    PROVE  RosterShapes'
BY DEF RosterShapes

\* An announcement, a renewal that says nothing new included.
LEMMA AnnounceKeeps ==
    ASSUME RosterInv, NEW p \in Phones, NEW a \in Announcements, Announce(p, a)
    PROVE  RosterInv'
<1>1. /\ lease \in [Phones -> 0 .. LeaseTicks] /\ said \in [Phones -> Announcements]
      /\ clean \in BOOLEAN /\ quiet \in 0 .. 2 /\ IsFiniteSet(Leased)
    BY DEF RosterInv, RosterShapes, RosterTypeOK
<1>2. /\ lease' = [lease EXCEPT ![p] = LeaseTicks] /\ said' = [said EXCEPT ![p] = a]
      /\ UNCHANGED <<joined, legConf, legIface, legDown, autoLabel, legsFile, passAt, put>>
    BY DEF Announce
<1>3. lease' \in [Phones -> 0 .. LeaseTicks] /\ said' \in [Phones -> Announcements]
    BY <1>1, <1>2, RosterConstants
<1>4. RosterTypeOK'
    BY <1>2, <1>3 DEF RosterInv, RosterShapes, RosterTypeOK
<1>5. IsFiniteSet(Leased)'
  <2>1. Leased' \in SUBSET (Leased \cup {p})
      BY <1>1, <1>2 DEF Leased
  <2>2. IsFiniteSet(Leased \cup {p})
      BY <1>1, FS_AddElement
  <2> QED
      BY <2>1, <2>2, FS_Subset
<1>6. CASE lease[p] > 0 /\ said[p] = a
  <2>1. UNCHANGED <<clean, quiet>>
      BY <1>6 DEF Announce
  <2>2. said' = said
      BY <1>1, <1>2, <1>6
  <2>3. Leased' = Leased
    <3>1. LeaseTicks > 0
        BY <1>1, <1>6, RosterConstants
    <3> QED
        BY <1>1, <1>2, <1>6, <3>1 DEF Leased
  <2>4. RosterShapes'
      BY <1>1, <1>2, <1>4, <1>5, <2>1, ShapesKept DEF RosterInv
  <2> QED
      BY <1>2, <2>1, <2>2, <2>3, <2>4, LegsAloneKeep
<1>7. CASE ~ (lease[p] > 0 /\ said[p] = a)
  <2>1. Changed
      BY <1>7 DEF Announce
  <2>2. RosterShapes'
    <3>1. RosterShapes /\ clean' \in BOOLEAN /\ quiet' \in 0 .. 2
        BY <2>1, ChangedTyped DEF RosterInv
    <3> QED
        BY <1>2, <1>4, <1>5, <3>1, ShapesKept
  <2> QED
      BY <2>1, <2>2, ChangedKeeps
<1> QED
    BY <1>6, <1>7

\* A lease that runs down or is given up.
LEMMA LeaseStepsKeep ==
    ASSUME RosterInv, LeasesRunDown \/ \E p \in Phones : WithdrawLeg(p)
    PROVE  RosterInv'
<1>1. /\ lease \in [Phones -> 0 .. LeaseTicks] /\ LeaseTicks \in Nat
      /\ clean \in BOOLEAN /\ quiet \in 0 .. 2 /\ IsFiniteSet(Leased)
    BY RosterConstants DEF RosterInv, RosterShapes, RosterTypeOK
<1>2. UNCHANGED <<said, joined, legConf, legIface, legDown, autoLabel, legsFile, passAt, put>>
    BY DEF LeasesRunDown, WithdrawLeg
<1>3. lease' \in [Phones -> 0 .. LeaseTicks] /\ \A p \in Phones : lease'[p] <= lease[p]
  <2>1. CASE LeasesRunDown
    <3>1. lease' = [p \in Phones |-> IF lease[p] > 0 THEN lease[p] - 1 ELSE 0]
        BY <2>1 DEF LeasesRunDown
    <3>2. \A p \in Phones : lease[p] \in 0 .. LeaseTicks
        BY <1>1
    <3> QED
        BY <1>1, <3>1, <3>2
  <2>2. ASSUME NEW p \in Phones, WithdrawLeg(p)
        PROVE  lease' \in [Phones -> 0 .. LeaseTicks] /\ \A q \in Phones : lease'[q] <= lease[q]
    <3>1. lease' = [lease EXCEPT ![p] = 0]
        BY <2>2 DEF WithdrawLeg
    <3> QED
        BY <1>1, <3>1
  <2> QED
      BY <2>1, <2>2
<1>4. RosterTypeOK'
    BY <1>2, <1>3 DEF RosterInv, RosterShapes, RosterTypeOK
<1>5. IsFiniteSet(Leased)'
  <2>1. Leased' \in SUBSET Leased
      BY <1>1, <1>3 DEF Leased
  <2> QED
      BY <1>1, <2>1, FS_Subset
<1>6. CASE Changed
  <2>1. RosterShapes'
    <3>1. RosterShapes /\ clean' \in BOOLEAN /\ quiet' \in 0 .. 2
        BY <1>6, ChangedTyped DEF RosterInv
    <3> QED
        BY <1>2, <1>4, <1>5, <3>1, ShapesKept
  <2> QED
      BY <1>6, <2>1, ChangedKeeps
<1>7. CASE ~ Changed
  <2>1. /\ LeasesRunDown /\ ~ \E p \in Phones : lease[p] = 1
        /\ UNCHANGED <<clean, quiet>>
      BY <1>7 DEF LeasesRunDown, WithdrawLeg
  <2>2. Leased' = Leased
    <3>1. lease' = [p \in Phones |-> IF lease[p] > 0 THEN lease[p] - 1 ELSE 0]
        BY <2>1 DEF LeasesRunDown
    <3>2. \A p \in Phones : lease[p] \in Nat /\ lease[p] # 1
        BY <1>1, <2>1
    <3>3. \A p \in Phones : lease'[p] > 0 <=> lease[p] > 0
        BY <3>1, <3>2
    <3> QED
        BY <3>3 DEF Leased
  <2>3. RosterShapes'
      BY <1>1, <1>2, <1>4, <1>5, <2>1, ShapesKept DEF RosterInv
  <2> QED
      BY <1>2, <2>1, <2>2, <2>3, LegsAloneKeep
<1> QED
    BY <1>6, <1>7

\* The first half of a PUT, and a legs.json spoilt by hand.
LEMMA FileStepsKeep ==
    ASSUME RosterInv, (\E e \in Edits : PutReads(e)) \/ FileSpoilt
    PROVE  RosterInv'
<1>1. CASE FileSpoilt
  <2>1. RosterShapes'
    <3>1. RosterTypeOK' /\ IsFiniteSet(Leased)'
        BY <1>1 DEF FileSpoilt, RosterInv, RosterShapes, RosterTypeOK, Leased
    <3> QED
      <4>1. RosterShapes /\ clean' \in BOOLEAN /\ quiet' \in 0 .. 2
          BY <1>1, ChangedTyped DEF RosterInv, FileSpoilt
      <4>2. UNCHANGED <<legConf, legIface, legDown, put>> /\ legsFile' = Spoilt
          BY <1>1 DEF FileSpoilt
      <4> QED
          BY <3>1, <4>1, <4>2 DEF RosterShapes
  <2> QED
      BY <1>1, <2>1, ChangedKeeps DEF FileSpoilt
<1>2. ASSUME NEW e \in Edits, PutReads(e) PROVE RosterInv'
  <2>1. /\ Known(e.leg) /\ put' = [leg |-> e.leg, edit |-> e, read |-> Overrides]
        /\ UNCHANGED <<lease, said, joined, legConf, legIface, legDown, autoLabel, legsFile,
                       passAt, clean, quiet>>
      BY <1>2 DEF PutReads
  <2>2. e.leg \in RosterLegs /\ Overrides \in EditTables
    <3>1. joined \in SUBSET Phones
        BY DEF RosterInv, RosterShapes, RosterTypeOK
    <3> QED
        BY <2>1, <3>1, OverridesTyped DEF RosterInv, Known, RosterLegs
  <2>3. RosterShapes'
    <3>1. RosterTypeOK' /\ Leased' = Leased
        BY <2>1 DEF RosterInv, RosterShapes, RosterTypeOK, Leased
    <3>2. put'.leg \in RosterLegs /\ put'.edit \in Edits /\ put'.read \in EditTables
        BY <2>1, <2>2
    <3> QED
        BY <2>1, <3>1, <3>2 DEF RosterInv, RosterShapes
  <2>4. Leased' = Leased
      BY <2>1 DEF Leased
  <2> QED
      BY <2>1, <2>3, <2>4, LegsAloneKeep
<1> QED
    BY <1>1, <1>2

\* What the overrides make of a leg.
LEMMA OverriddenLeg ==
    ASSUME RosterShapes, NEW o \in EditTables
    PROVE  /\ Overridden(o, legConf) \in LegConfs
           /\ \A l \in RosterLegs : Overridden(o, legConf)[l].host = legConf[l].host
           /\ \A l \in Fixed \cup joined :
                 /\ Overridden(o, legConf)[l].tier = FieldValue(o, l, "tier", legConf[l].tier)
                 /\ Overridden(o, legConf)[l].label = FieldValue(o, l, "label", legConf[l].label)
<1> DEFINE c == Overridden(o, legConf)
           Conf == [tier : Nat \ {0}, label : Nat \ {0}, host : Hosts]
<1>1. joined \in SUBSET Phones /\ legConf \in [RosterLegs -> Conf]
    BY DEF RosterShapes, RosterTypeOK, LegConfs
<1>2. Fixed \cup joined \subseteq RosterLegs
    BY <1>1 DEF RosterLegs
<1>3. ASSUME NEW l \in RosterLegs, NEW f \in Fields, NEW now \in Nat \ {0}
      PROVE  FieldValue(o, l, f, now) \in Nat \ {0}
  <2>1. o[l][f] \in Nat
      BY DEF EditTables
  <2>2. BaselineOf(f) \in Nat \ {0}
      BY RosterConstants DEF BaselineOf
  <2> QED
      BY <2>1, <2>2 DEF FieldValue, Restored
<1>4. ASSUME NEW l \in Fixed \cup joined
      PROVE  /\ c[l] \in Conf
             /\ c[l].host = legConf[l].host
             /\ c[l].tier = FieldValue(o, l, "tier", legConf[l].tier)
             /\ c[l].label = FieldValue(o, l, "label", legConf[l].label)
  <2> DEFINE x == legConf[l]
             a == FieldValue(o, l, "tier", x.tier)
             b == FieldValue(o, l, "label", x.label)
  <2>1. x \in Conf /\ l \in RosterLegs
      BY <1>1, <1>2
  <2>2. a \in Nat \ {0} /\ b \in Nat \ {0}
    <3>1. "tier" \in Fields /\ "label" \in Fields
        BY DEF Fields
    <3>2. x.tier \in Nat \ {0} /\ x.label \in Nat \ {0}
        BY <2>1
    <3> HIDE DEF x
    <3> QED
        BY <1>3, <2>1, <3>1, <3>2
  <2>3. c[l] = [x EXCEPT !.tier = a, !.label = b]
    <3>1. c[l] = [x EXCEPT !.tier = FieldValue(o, l, "tier", @), !.label = FieldValue(o, l, "label", @)]
        BY <2>1 DEF Overridden
    <3>2. [x EXCEPT !.tier = FieldValue(o, l, "tier", @), !.label = FieldValue(o, l, "label", @)]
            = [x EXCEPT !.tier = a, !.label = b]
      <4> HIDE DEF x
      <4> QED
          BY <2>1
    <3> QED
        BY <3>1, <3>2
  <2> HIDE DEF x, a, b, c
  <2> DEFINE y == [x EXCEPT !.tier = a, !.label = b]
  <2>4. y \in Conf /\ y.tier = a /\ y.label = b /\ y.host = x.host
      BY <2>1, <2>2
  <2> HIDE DEF y
  <2>5. c[l] = y
      BY <2>3 DEF y
  <2> QED
      BY <2>4, <2>5 DEF x, a, b
<1>5. \A l \in RosterLegs \ (Fixed \cup joined) : c[l] = legConf[l]
    BY DEF Overridden
<1>6. c = [l \in RosterLegs |-> c[l]]
    BY DEF Overridden
<1> HIDE DEF c, Conf
<1>7. \A l \in RosterLegs : c[l] \in Conf
    BY <1>1, <1>4, <1>5
<1>8. c \in LegConfs
    BY <1>6, <1>7 DEF LegConfs, Conf
<1>9. \A l \in RosterLegs : c[l].host = legConf[l].host
    BY <1>4, <1>5
<1> QED
    BY <1>4, <1>8, <1>9 DEF c

\* The second half of a PUT, from the file as the first half read it.
LEMMA PutSavesKeeps == ASSUME RosterInv, PutSaves PROVE RosterInv'
<1> DEFINE merged == [put.read EXCEPT ![put.leg][put.edit.field] = put.edit.value]
<1>1. /\ put # NoPut /\ legsFile' = merged /\ legConf' = Overridden(merged, legConf)
      /\ autoLabel' = AutoLabels(merged) /\ put' = NoPut /\ Changed
      /\ UNCHANGED <<lease, said, joined, legIface, legDown, passAt>>
    BY DEF PutSaves
<1>2. RosterShapes
    BY DEF RosterInv
<1>3. merged \in EditTables
  <2>1. put.leg \in RosterLegs /\ put.edit \in Edits /\ put.read \in EditTables
      BY <1>1, <1>2 DEF RosterShapes
  <2>2. put.edit.field \in Fields /\ put.edit.value \in Nat
      BY <2>1, RosterConstants
  <2> QED
      BY <2>1, <2>2 DEF EditTables
<1> HIDE DEF merged
<1>4. legConf' \in LegConfs
    BY <1>1, <1>2, <1>3, OverriddenLeg
<1>5. autoLabel' \in [Fixed -> BOOLEAN]
    BY <1>1 DEF AutoLabels
<1>6. RosterTypeOK'
  <2>1. \A l \in RosterLegs : legConf'[l].tier \in Nat \ {0} /\ legConf'[l].label \in Nat \ {0}
      BY <1>4 DEF LegConfs
  <2> QED
      BY <1>1, <1>2, <1>5, <2>1 DEF RosterShapes, RosterTypeOK
<1>7. clean' \in BOOLEAN /\ quiet' \in 0 .. 2
    BY <1>1, ChangedTyped
<1>8. RosterShapes'
    BY <1>1, <1>2, <1>3, <1>4, <1>6, <1>7 DEF RosterShapes, Leased
<1> QED
    BY <1>1, <1>8, ChangedKeeps

\* The overrides put every field in force, and move no tier that stood.
LEMMA ApplyOverridesKeeps == ASSUME RosterInv, ApplyOverrides PROVE RosterInv'
<1> DEFINE o == Overrides
<1>1. /\ passAt = "overrides" /\ passAt' = "match" /\ legConf' = Overridden(o, legConf)
      /\ UNCHANGED <<lease, said, joined, legIface, legDown, autoLabel, legsFile, put, clean, quiet>>
    BY DEF ApplyOverrides
<1>2. RosterShapes /\ o \in EditTables /\ joined \in SUBSET Phones
    BY OverridesTyped DEF RosterInv, RosterShapes, RosterTypeOK
<1>3. /\ legConf' \in LegConfs
      /\ \A l \in RosterLegs : legConf'[l].host = legConf[l].host
      /\ \A l \in Fixed \cup joined : /\ legConf'[l].tier = FieldValue(o, l, "tier", legConf[l].tier)
                                     /\ legConf'[l].label = FieldValue(o, l, "label", legConf[l].label)
    BY <1>1, <1>2, OverriddenLeg
<1>4. Overrides' = o
    BY <1>1 DEF Overrides
<1> HIDE DEF o
<1>5. RosterShapes'
  <2>1. \A l \in RosterLegs : legConf'[l].tier \in Nat \ {0} /\ legConf'[l].label \in Nat \ {0}
      BY <1>3 DEF LegConfs
  <2>2. RosterTypeOK'
      BY <1>1, <1>2, <2>1 DEF RosterShapes, RosterTypeOK
  <2> QED
      BY <1>1, <1>2, <1>3, <2>2 DEF RosterShapes, Leased
<1>6. joined \subseteq RosterLegs /\ Fixed \cap joined = {}
    BY <1>2, RosterConstants DEF RosterLegs
<1>7. JoinedIsLeased => JoinedIsLeased'
    BY <1>1, <1>3, <1>6 DEF JoinedIsLeased, Leased
<1>8. LabelsFollow => LabelsFollow'
  <2>1. ASSUME LabelsFollow, NEW p \in joined, o[p].label = 0 PROVE legConf'[p].label = said[p].label
    <3>1. legConf'[p].label = legConf[p].label
        BY <1>3, <1>6, <2>1 DEF FieldValue, Restored
    <3> QED
        BY <2>1, <3>1 DEF LabelsFollow, o
  <2> QED
      BY <1>1, <1>4, <2>1 DEF LabelsFollow
<1>9. ASSUME LabelsFollow, NEW l \in Fixed \cup joined, NEW f \in Fields PROVE InForce(l, f)'
  <2>1. legConf'[l][f] = FieldValue(o, l, f, legConf[l][f])
      BY <1>3 DEF Fields
  <2>2. o[l][f] # 0 => legConf'[l][f] = o[l][f]
      BY <2>1 DEF FieldValue
  <2>3. o[l][f] = 0 /\ l \in Fixed => legConf'[l][f] = BaselineOf(f)
      BY <2>1 DEF FieldValue, Restored
  <2>4. o[l][f] = 0 /\ l \in joined /\ f = "label" => legConf'[l].label = said[l].label
      BY <1>1, <1>4, <1>8, <1>9 DEF LabelsFollow
  <2> QED
      BY <1>1, <1>4, <2>2, <2>3, <2>4 DEF InForce
<1>10. ASSUME TiersStand, LoneFollows PROVE LoneFollows'
  <2>1. ASSUME NEW l \in Fixed \cup joined, l \notin Silent \/ said[l].tier = Unstated
        PROVE  Stated(l) \/ o[l].tier = 0 => legConf'[l].tier = legConf[l].tier
    <3>1. legConf'[l].tier = FieldValue(o, l, "tier", legConf[l].tier)
        BY <1>3
    <3>2. CASE Stated(l)
      <4>1. InForce(l, "tier")
          BY <1>10, <3>2 DEF TiersStand
      <4> QED
          BY <1>6, <3>1, <4>1 DEF InForce, FieldValue, Restored, o
    <3>3. CASE ~ Stated(l) /\ o[l].tier = 0
      <4>1. l \notin Fixed
          BY <3>3 DEF Stated
      <4> QED
          BY <3>1, <3>3, <4>1 DEF FieldValue, Restored
    <3> QED
        BY <3>2, <3>3
  <2>2. Silent' = Silent /\ Anchors' = Anchors
      BY <1>1, <1>4 DEF Silent, Anchors, o
  <2>3. ASSUME NEW p \in Silent, Alone(p), Anchors # {}
        PROVE  legConf'[p].tier = LowestTier(legConf', Anchors)
    <3>1. legConf[p].tier = LowestTier(legConf, Anchors)
        BY <1>10, <2>3 DEF LoneFollows, WithTheBond
    <3>2. legConf'[p].tier = legConf[p].tier
        BY <2>1 DEF Silent, o
    <3>3. ASSUME NEW l \in Anchors PROVE legConf[l].tier = legConf'[l].tier
      <4>1. l \in Fixed \cup joined /\ l \notin Silent
          BY DEF Anchors
      <4>2. Stated(l) \/ o[l].tier = 0
        <5>1. CASE l \in Fixed
            BY <5>1 DEF Stated
        <5>2. CASE l \in joined /\ said[l].tier = Unstated
          <6>1. l = p
              BY <2>3, <5>2 DEF Alone
          <6> QED
              BY <4>1, <6>1
        <5> QED
            BY <4>1, <5>1, <5>2 DEF Stated
      <4> QED
          BY <2>1, <4>1, <4>2
    <3>4. LowestTier(legConf, Anchors) = LowestTier(legConf', Anchors)
        BY <3>3, LowestFromTiers
    <3> QED
        BY <3>1, <3>2, <3>4
  <2>4. \A p : Alone(p)' = Alone(p)
      BY <1>1 DEF Alone
  <2>5. \A p : WithTheBond(p)' <=> (Anchors # {} => legConf'[p].tier = LowestTier(legConf', Anchors))
      BY <1>1, <2>2 DEF WithTheBond, LowestTier
  <2> QED
      BY <2>2, <2>3, <2>4, <2>5 DEF LoneFollows
<1> QED
    BY <1>1, <1>5, <1>7, <1>8, <1>9, <1>10 DEF RosterInv

\* The match and the probes, which end a pass.
LEMMA MatchKeeps ==
    ASSUME RosterInv, NEW found \in SUBSET Fixed, NEW assoc \in SUBSET Fixed,
           NEW downLegs \in SUBSET (Fixed \cup joined), MatchAndProbe(found, assoc, downLegs)
    PROVE  RosterInv'
<1>1. /\ passAt = "match" /\ passAt' = "idle"
      /\ legIface' = [l \in RosterLegs |-> l \in joined \cup found]
      /\ legDown' = [l \in RosterLegs |-> l \in downLegs]
      /\ autoLabel' = [l \in Fixed |-> l \in assoc /\ legIface'[l] /\ Overrides[l].label = 0]
      /\ quiet' = IF clean /\ <<legIface, legDown>>' = <<legIface, legDown>>
                  THEN IF quiet < 2 THEN quiet + 1 ELSE 2
                  ELSE 0
      /\ UNCHANGED <<lease, said, joined, legConf, legsFile, put, clean>>
    BY DEF MatchAndProbe
<1>2. RosterShapes /\ quiet \in 0 .. 2
    BY DEF RosterInv, RosterShapes
<1>3. Overrides' = Overrides
    BY <1>1 DEF Overrides
<1>4. RosterShapes'
  <2>1. legIface' \in [RosterLegs -> BOOLEAN] /\ legDown' \in [RosterLegs -> BOOLEAN]
    <3>1. \A l \in RosterLegs : (l \in joined \cup found) \in BOOLEAN
        OBVIOUS
    <3>2. \A l \in RosterLegs : (l \in downLegs) \in BOOLEAN
        OBVIOUS
    <3> QED
        BY <1>1, <3>1, <3>2
  <2>2. autoLabel' \in [Fixed -> BOOLEAN]
      BY <1>1
  <2>3. quiet' \in 0 .. 2
      BY <1>1, <1>2
  <2>4. RosterTypeOK'
      BY <1>1, <1>2, <2>2 DEF RosterShapes, RosterTypeOK
  <2> QED
      BY <1>1, <1>2, <2>1, <2>3, <2>4 DEF RosterShapes, Leased
<1>5. JoinedIsLeased' = JoinedIsLeased /\ LabelsFollow' = LabelsFollow
    BY <1>1, <1>3 DEF JoinedIsLeased, LabelsFollow, Leased
<1>6. \A l, f : InForce(l, f)' = InForce(l, f)
    BY <1>1, <1>3 DEF InForce
<1>7. \A l \in Fixed : autoLabel'[l] => Overrides'[l].label = 0
    BY <1>1, <1>3
<1>8. quiet' > 0 => clean'
    BY <1>1
<1>9. ASSUME quiet' = 2 PROVE LoneFollows'
  <2>1. quiet > 0 /\ legIface' = legIface /\ legDown' = legDown
      BY <1>1, <1>2, <1>9
  <2>2. LoneFollows
      BY <1>1, <2>1 DEF RosterInv
  <2>3. Silent' = Silent /\ Anchors' = Anchors
      BY <1>1, <1>3, <2>1 DEF Silent, Anchors
  <2>4. \A p : WithTheBond(p)' = WithTheBond(p) /\ Alone(p)' = Alone(p)
    <3>1. UNCHANGED <<said, joined, legConf, legDown>>
        BY <1>1, <2>1
    <3> QED
        BY <2>3, <3>1 DEF WithTheBond, LowestTier, Alone
  <2> QED
      BY <2>2, <2>3, <2>4 DEF LoneFollows
<1> QED
    BY <1>1, <1>4, <1>5, <1>6, <1>7, <1>8, <1>9 DEF RosterInv

\* The announcements taken in, in whatever order they stand in the table.
LEMMA ReconcileKeeps == ASSUME RosterInv, ReconcileDynamic PROVE RosterInv'
<1> DEFINE base == [conf |-> legConf, present |-> joined \ Lapsed]
<1>1. /\ passAt = "idle" /\ passAt' = "overrides" /\ clean' = TRUE
      /\ legIface' = [l \in RosterLegs |-> legIface[l] /\ (l \in Fixed \/ l \in joined')]
      /\ UNCHANGED <<lease, said, legDown, autoLabel, legsFile, put, quiet>>
    BY DEF ReconcileDynamic
<1>2. PICK order \in SetToSeqs(Leased) :
          legConf' = Announced(base, order).conf /\ joined' = Announced(base, order).present
    BY DEF ReconcileDynamic, Announced, Leased
<1>3. /\ RosterShapes /\ legConf \in LegConfs /\ joined \in SUBSET Phones
      /\ lease \in [Phones -> 0 .. LeaseTicks] /\ quiet \in 0 .. 2
      /\ legIface \in [RosterLegs -> BOOLEAN]
    BY DEF RosterInv, RosterShapes, RosterTypeOK
<1>4. base \in Rosters /\ base.conf = legConf /\ base.present = joined \ Lapsed
    BY <1>3 DEF Rosters
<1>5. joined \ Lapsed = joined \cap Leased
    BY <1>3, RosterConstants DEF Lapsed, Leased
<1> DEFINE out == Announced(base, order)
<1> HIDE DEF base
<1>6. TakenIn(base, out, Leased)
    BY <1>3, <1>4, TakesAll
<1> HIDE DEF out
<1>7. /\ legConf' \in LegConfs /\ joined' = Leased
      /\ \A l \in RosterLegs \ Leased : legConf'[l] = legConf[l]
      /\ \A p \in Leased : legConf'[p].host = said[p].host
      /\ \A p \in Leased : Overrides[p].label = 0 => legConf'[p].label = said[p].label
      /\ \A p \in Leased : p \in joined /\ said[p].tier # Unstated => legConf'[p].tier = legConf[p].tier
      /\ \A p \in Leased : Loner(base, p) => legConf'[p].tier = JoinableTier(legConf, joined \cap Leased, p)
  <2>1. legConf' = out.conf /\ joined' = out.present
      BY <1>2 DEF out
  <2>2. /\ out \in Rosters
        /\ out.present = (joined \cap Leased) \cup Leased
        /\ \A l \in RosterLegs \ Leased : out.conf[l] = legConf[l]
        /\ \A p \in Leased : out.conf[p].host = said[p].host
        /\ \A p \in Leased : Overrides[p].label = 0 => out.conf[p].label = said[p].label
        /\ \A p \in Leased : p \in joined \cap Leased /\ said[p].tier # Unstated =>
              out.conf[p].tier = legConf[p].tier
        /\ \A p \in Leased : Loner(base, p) =>
              out.conf[p].tier = JoinableTier(legConf, joined \cap Leased, p)
      BY <1>4, <1>5, <1>6 DEF TakenIn
  <2>3. out.conf \in LegConfs
      BY <2>2 DEF Rosters
  <2>4. (joined \cap Leased) \cup Leased = Leased
      OBVIOUS
  <2> QED
      BY <2>1, <2>2, <2>3, <2>4
<1>8. Overrides' = Overrides /\ Leased' = Leased
    BY <1>1 DEF Overrides, Leased
<1>9. RosterShapes'
  <2>1. \A l \in RosterLegs : legConf'[l].tier \in Nat \ {0} /\ legConf'[l].label \in Nat \ {0}
      BY <1>7 DEF LegConfs
  <2>2. joined' \subseteq Phones
      BY <1>7 DEF Leased
  <2>3. RosterTypeOK'
      BY <1>1, <1>3, <2>1, <2>2 DEF RosterShapes, RosterTypeOK
  <2>4. legIface' \in [RosterLegs -> BOOLEAN]
      BY <1>1, <1>3
  <2>5. clean' \in BOOLEAN
      BY <1>1, Zenon
  <2> QED
      BY <1>1, <1>3, <1>7, <1>8, <2>3, <2>4, <2>5 DEF RosterShapes
<1>10. JoinedIsLeased'
    BY <1>1, <1>7, <1>8 DEF JoinedIsLeased
<1>11. LabelsFollow'
    BY <1>1, <1>7, <1>8 DEF LabelsFollow
<1>12. ASSUME quiet > 0 PROVE TiersStand' /\ LoneFollows'
  <2>1. /\ joined = Leased /\ joined' = joined
        /\ \A l \in Fixed \cup joined, f \in Fields : InForce(l, f)
      BY <1>1, <1>7, <1>12 DEF RosterInv, JoinedIsLeased
  <2>2. Fixed \cup joined \subseteq RosterLegs /\ Fixed \cap joined = {}
      BY <1>3, RosterConstants DEF RosterLegs
  <2>3. ASSUME NEW l \in Fixed \cup joined, Stated(l) PROVE legConf'[l].tier = legConf[l].tier
    <3>1. CASE l \in Fixed
      <4>1. legConf'[l] = legConf[l]
          BY <1>7, <2>1, <2>2, <3>1
      <4> QED
          BY <4>1
    <3>2. CASE l \notin Fixed
        BY <1>7, <2>1, <2>3, <3>2 DEF Stated
    <3> QED
        BY <3>1, <3>2
  <2>4. TiersStand'
    <3>1. ASSUME NEW l \in Fixed \cup joined, Stated(l) PROVE InForce(l, "tier")'
      <4>1. InForce(l, "tier")
          BY <2>1 DEF Fields
      <4> QED
          BY <1>1, <1>8, <2>3, <3>1, <4>1 DEF InForce
    <3> QED
        BY <1>1, <2>1, <3>1 DEF TiersStand, Stated
  <2>5. Silent' = Silent
      BY <1>1, <1>8, <2>1 DEF Silent
  <2>6. ASSUME NEW p \in Silent, Alone(p), Anchors' # {}
        PROVE  legConf'[p].tier = LowestTier(legConf', Anchors')
    <3> DEFINE others == {l \in Fixed \cup joined : l # p /\ legIface[l]}
    <3>1. p \in joined /\ said[p].tier = Unstated
        BY DEF Silent
    <3>2. Loner(base, p)
        BY <1>4, <1>5, <2>1, <2>6, <3>1 DEF Loner, Alone
    <3>3. legConf'[p].tier = LowestTier(legConf, others)
      <4>1. joined \cap Leased = joined
          BY <2>1
      <4>2. legConf'[p].tier = JoinableTier(legConf, joined, p)
          BY <1>7, <2>1, <3>1, <3>2, <4>1
      <4> QED
          BY <4>2 DEF JoinableTier
    <3>4. \A l \in Fixed \cup joined : l \in Silent <=> l = p
      <4>1. \A l \in Silent : l \in joined /\ said[l].tier = Unstated
          BY DEF Silent
      <4> QED
          BY <2>6, <4>1 DEF Alone
    <3>5. Anchors' = {l \in others : ~ legDown[l]}
      <4>1. \A l \in Fixed \cup joined : legIface'[l] <=> legIface[l]
          BY <1>1, <1>3, <2>1, <2>2
      <4>2. Anchors' = {l \in (Fixed \cup joined) \ Silent : legIface'[l] /\ ~ legDown[l]}
          BY <1>1, <2>1, <2>5 DEF Anchors
      <4> QED
          BY <3>4, <4>1, <4>2
    <3>6. \A l \in Anchors' : legConf[l].tier = legConf'[l].tier
      <4>1. \A l \in Anchors' : l \in Fixed \cup joined /\ l # p
          BY <3>5
      <4>2. \A l \in Anchors' : Stated(l)
          BY <2>6, <4>1 DEF Stated, Alone
      <4> QED
          BY <2>3, <4>1, <4>2
    <3>7. LowestTier(legConf, others) = LowestTier(legConf, Anchors')
      <4> HIDE DEF others
      <4>1. {l \in others : ~ legDown[l]} # {}
          BY <2>6, <3>5
      <4> QED
          BY <3>5, <4>1, LowestOfAlive
    <3>8. LowestTier(legConf, Anchors') = LowestTier(legConf', Anchors')
        BY <3>6, LowestFromTiers
    <3> QED
        BY <3>3, <3>7, <3>8
  <2>7. \A p : Alone(p)' = Alone(p)
      BY <1>1, <2>1 DEF Alone
  <2>8. \A p : WithTheBond(p)' <=> (Anchors' # {} => legConf'[p].tier = LowestTier(legConf', Anchors'))
      BY <1>1 DEF WithTheBond, LowestTier
  <2>9. LoneFollows'
      BY <2>5, <2>6, <2>7, <2>8 DEF LoneFollows
  <2> QED
      BY <2>4, <2>9
<1>13. quiet' = 2 => quiet > 0
    BY <1>1, <1>3
<1> QED
    BY <1>1, <1>9, <1>10, <1>11, <1>12, <1>13 DEF RosterInv

\* Every step keeps it.
LEMMA RosterStepInv == ASSUME RosterInv, [RosterNext]_rosterVars PROVE RosterInv'
<1>1. CASE \E p \in Phones, a \in Announcements : Announce(p, a)
    BY <1>1, AnnounceKeeps
<1>2. CASE LeasesRunDown \/ \E p \in Phones : WithdrawLeg(p)
    BY <1>2, LeaseStepsKeep
<1>3. CASE ReconcileDynamic
    BY <1>3, ReconcileKeeps
<1>4. CASE ApplyOverrides
    BY <1>4, ApplyOverridesKeeps
<1>5. CASE \E found, assoc \in SUBSET Fixed, downLegs \in SUBSET (Fixed \union joined) :
             MatchAndProbe(found, assoc, downLegs)
    BY <1>5, MatchKeeps
<1>6. CASE (\E e \in Edits : PutReads(e)) \/ FileSpoilt
    BY <1>6, FileStepsKeep
<1>7. CASE PutSaves
    BY <1>7, PutSavesKeeps
<1>8. CASE UNCHANGED rosterVars
  <2>1. UNCHANGED <<lease, said, joined, legConf, legIface, legDown, autoLabel, legsFile, passAt,
                    put, clean, quiet>>
      BY <1>8 DEF rosterVars
  <2>2. RosterShapes' /\ Leased' = Leased
      BY <2>1 DEF RosterInv, RosterShapes, RosterTypeOK, Leased
  <2> QED
      BY <2>1, <2>2, LegsAloneKeep
<1> QED
    BY <1>1, <1>2, <1>3, <1>4, <1>5, <1>6, <1>7, <1>8 DEF RosterNext

\* What it promises.
LEMMA RosterInvPromises == RosterInv => RosterSettles
<1> SUFFICES ASSUME RosterInv, quiet = 2, passAt = "idle"
             PROVE  /\ joined = {p \in Phones : lease[p] > 0}
                    /\ \A l \in Fixed \cup joined, f \in Fields : InForce(l, f)
                    /\ \A p \in joined : legConf[p].host = said[p].host
                    /\ \A l \in Fixed : autoLabel[l] => Overrides[l].label = 0
                    /\ \A p \in Silent : Alone(p) => WithTheBond(p)
    BY DEF RosterSettles, Settled
<1>1. clean /\ JoinedIsLeased /\ LoneFollows
    BY DEF RosterInv
<1> QED
    BY <1>1 DEF RosterInv, JoinedIsLeased, Leased, LoneFollows

-----------------------------------------------------------------------------
\* The parts together.

\* Every part starts as it should.
LEMMA MembershipPartsInit ==
    MembershipInit => GateInv /\ LinkInv /\ WeightInv /\ ShedInv /\ RosterInv
BY GateInitInv, LinkInitInv, WeightInitInv, ShedInitInv, RosterInitInv DEF MembershipInit

\* A step of the membership is for each part a step of its own or none.
LEMMA MembershipPartsStep ==
    [MembershipNext]_membershipVars =>
       /\ [GateNext]_gateVars /\ [LinkNext]_linkVars /\ [WeightNext]_weightVars
       /\ [ShedNext]_shedVars /\ [RosterNext]_rosterVars
BY DEF MembershipNext, membershipVars, InGate, InWeight, InShed, InLinks, InRoster

\* When the gate has run, some leg carries if one is not down, no leg it holds has a full
\* share, and a leg the far end once answered waits ProbationAfter passes at most while it
\* does not fail (apply_join_gate, apply_policy).
THEOREM LegsAlwaysJoinFairly == MembershipSpec => []LegsJoinFairly
<1>1. MembershipInit => GateInv
    BY MembershipPartsInit
<1>2. GateInv /\ [MembershipNext]_membershipVars => GateInv'
    BY MembershipPartsStep, GateStepInv
<1>3. GateInv => LegsJoinFairly
    BY DEF GateInv
<1> QED
    BY <1>1, <1>2, <1>3, PTL DEF MembershipSpec

\* A leg that was held carries in full again only on the whole streak gathered since it
\* last did, or after a release (apply_join_gate).
THEOREM ReadmissionAlwaysEarned == MembershipSpec => ReadmissionIsEarned
<1>1. MembershipInit => GateInv
    BY MembershipPartsInit
<1>2. GateInv /\ [MembershipNext]_membershipVars =>
        /\ GateInv'
        /\ [\A p \in flapped \ flapped' :
               \/ merit[p] + Points(reading'[p]) >= JoinStreakMin
               \/ p \in by_valve \cup by_valve']_gateVars
    BY MembershipPartsStep, GateStepInv
<1> QED
    BY <1>1, <1>2, PTL DEF MembershipSpec, ReadmissionIsEarned

\* A path id stands for one leg, whatever legs come and go and whatever replies arrive
\* while the control thread works through them (sync_transport, forget_link).
THEOREM IdsStandForOneLeg == MembershipSpec => []IdStandsForOneLeg
<1>1. MembershipInit => LinkInv
    BY MembershipPartsInit
<1>2. LinkInv /\ [MembershipNext]_membershipVars => LinkInv'
    BY MembershipPartsStep, LinkStepInv
<1>3. LinkInv => IdStandsForOneLeg
    BY LinkInvPromises
<1> QED
    BY <1>1, <1>2, <1>3, PTL DEF MembershipSpec

\* Rises of a weight are rationed, and shedding leaves the best leg carrying and, where the
\* test of a leg's own spread tells, sheds none for good (update_weight_budget,
\* update_shed_state).
THEOREM SharesAlwaysSound == ASSUME SpreadTells PROVE MembershipSpec => []CarrySharesSound
<1>1. MembershipInit => WeightInv /\ ShedInv
    BY MembershipPartsInit
<1>2. WeightInv /\ ShedInv /\ [MembershipNext]_membershipVars => WeightInv' /\ ShedInv'
    BY MembershipPartsStep, WeightStepInv, ShedStepInv
<1>3. WeightInv /\ ShedInv => CarrySharesSound
    BY SpreadTells, ShedInvPromises DEF CarrySharesSound, WeightInv
<1> QED
    BY <1>1, <1>2, <1>3, PTL DEF MembershipSpec

\* Two passes after the last change of an announcement, a lease, legs.json or a link, the
\* legs are the leased phones and the configured ones, every field has the value its last
\* writer in precedence gave it, and a phone that alone states no tier is in that of the
\* bond, whatever the order of the steps and of the announcements (reconcile_dynamic,
\* apply_overrides, set_leg_fields).
THEOREM RosterAlwaysSettles == MembershipSpec => []RosterSettles
<1>1. MembershipInit => RosterInv
    BY MembershipPartsInit
<1>2. RosterInv /\ [MembershipNext]_membershipVars => RosterInv'
    BY MembershipPartsStep, RosterStepInv
<1>3. RosterInv => RosterSettles
    BY RosterInvPromises
<1> QED
    BY <1>1, <1>2, <1>3, PTL DEF MembershipSpec

\* Streaks, holds, weights, budgets, spreads, link tables and legs keep their types, and
\* no count of a pass goes below zero or above its bound.
THEOREM MembershipTypeCorrect == MembershipSpec => []MembershipTypeOK
<1> DEFINE AllInv == GateInv /\ LinkInv /\ WeightInv /\ ShedInv /\ RosterInv
<1>1. MembershipInit => AllInv
    BY MembershipPartsInit
<1>2. AllInv /\ [MembershipNext]_membershipVars => AllInv'
    BY MembershipPartsStep, GateStepInv, LinkStepInv, WeightStepInv, ShedStepInv, RosterStepInv
<1>3. AllInv => MembershipTypeOK
    BY LinkInvPromises DEF GateInv, WeightInv, ShedInv, RosterInv, RosterShapes, MembershipTypeOK
<1> QED
    BY <1>1, <1>2, <1>3, PTL DEF MembershipSpec

=============================================================================
