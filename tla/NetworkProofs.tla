--------------------------- MODULE NetworkProofs ---------------------------
(***************************************************************************)
(* Proofs about what the agent does to the kernel (MCNetwork), for every   *)
(* set of legs, hops and devices and every bound and period.               *)
(*                                                                         *)
(* Each part has an inductive invariant of its own, stronger than what it  *)
(* promises; the last section puts the parts together: a step of one is a  *)
(* stutter of the others.                                                  *)
(***************************************************************************)
EXTENDS MCNetwork, SetSums, SequenceTheorems

-----------------------------------------------------------------------------
\* The watchdog.

\* A re-arm that is spent and not over: its start is not among the starts yet.
Pending == IF step \in {"spent", "cleared", "enabled"} THEN 1 ELSE 0

(***************************************************************************)
(* The budget.  Done is how many re-arms of the window are over, started   *)
(* or cut.  All starts but the last Done - 1 are as old as the window, so  *)
(* when the window has aged out fewer than MaxRearms of them are left.     *)
(***************************************************************************)
Done == rearms.count - Pending

BudgetInv ==
    /\ Done >= 0
    /\ rearms.count <= 0 => rearms.age = 0
    /\ Done = 0 => rearms.age = 0
    /\ \A i \in 1 .. Len(starts) : i <= Len(starts) - Done + 1 => starts[i] >= rearms.age
    /\ Len(starts) <= Done + MaxRearms - 1

\* What is down is owed a re-arm, the marker being there all through a teardown.
OwedInv ==
    /\ step \in {"spent", "tripped", "stopped"} => tripped
    /\ step \in {"enabled", "tripped", "stopped"} => enabled
    /\ ~enabled => service = "stopped"
    /\ service = "stopped" => tripped \/ absolved \/ step \in {"cleared", "enabled"}

EvidenceInv ==
    /\ fails <= evidence
    /\ step = "tripped" => evidence >= MaxFails

\* The types, in two parts.
FlagsOK ==
    /\ service \in {"running", "respawning", "stopped"} /\ step \in Steps
    /\ enabled \in BOOLEAN /\ underneath \in BOOLEAN /\ safe_mode \in BOOLEAN
    /\ tripped \in BOOLEAN /\ absolved \in BOOLEAN

CountsOK ==
    /\ fails \in 0 .. MaxFails /\ stable \in 0 .. StableMin /\ soledown \in 0 .. SoleRearmAfter
    /\ rearms \in [count : 0 .. MaxRearms, age : 0 .. RearmWindow + 1]
    /\ evidence \in 0 .. MaxFails /\ starts \in Seq(0 .. RearmWindow)

WatchdogInv == FlagsOK /\ CountsOK /\ BudgetInv /\ OwedInv /\ EvidenceInv

\* What the constants of the watchdog are.
LEMMA WatchdogConstants ==
    /\ MaxFails \in Nat /\ MaxFails > 0 /\ StableMin \in Nat /\ StableMin > 0
    /\ MaxRearms \in Nat /\ MaxRearms > 0 /\ RearmWindow \in Nat /\ RearmWindow > 0
    /\ SoleRearmAfter \in Nat /\ SoleRearmAfter > 0
BY WatchdogAssumption

\* The watchdog's invariant holds at first.
LEMMA WatchdogInitInv == WatchdogInit => WatchdogInv
<1> SUFFICES ASSUME WatchdogInit PROVE WatchdogInv
    OBVIOUS
<1> USE WatchdogConstants DEF WatchdogInit
<1>1. rearms \in [count : 0 .. MaxRearms, age : 0 .. RearmWindow + 1]
    BY DEF NeverRearmed
<1>2. starts \in Seq(0 .. RearmWindow)
    BY EmptySeq
<1>3. /\ fails \in 0 .. MaxFails /\ stable \in 0 .. StableMin /\ soledown \in 0 .. SoleRearmAfter
      /\ evidence \in 0 .. MaxFails
    OBVIOUS
<1>4. FlagsOK
    BY DEF FlagsOK, Steps
<1>7. CountsOK
    BY <1>1, <1>2, <1>3 DEF CountsOK
<1>5. BudgetInv
    BY DEF BudgetInv, Done, Pending, NeverRearmed
<1>6. OwedInv /\ EvidenceInv
    BY DEF OwedInv, EvidenceInv
<1> QED
    BY <1>4, <1>5, <1>6, <1>7 DEF WatchdogInv

\* The types of its counters, one by one.
LEMMA WatchdogNumbers ==
    ASSUME CountsOK
    PROVE  /\ rearms.count \in 0 .. MaxRearms /\ rearms.age \in 0 .. RearmWindow + 1
           /\ Len(starts) \in Nat /\ \A i \in 1 .. Len(starts) : starts[i] \in 0 .. RearmWindow
<1>1. Len(starts) \in Nat /\ \A i \in 1 .. Len(starts) : starts[i] \in 0 .. RearmWindow
    BY ElementOfSeq, LenProperties DEF CountsOK
<1> QED
    BY <1>1 DEF CountsOK

\* Counting one more re-arm, or a later moment of the window.
LEMMA RearmsUpdated ==
    ASSUME NEW C, NEW A, NEW r \in [count : C, age : A], NEW x
    PROVE  /\ [r EXCEPT !.count = x] = [count |-> x, age |-> r.age]
           /\ [r EXCEPT !.age = x] = [count |-> r.count, age |-> x]
           /\ r.count \in C /\ r.age \in A
OBVIOUS

\* Spending a re-arm that the budget has keeps the starts within it.
LEMMA SpendKeepsBudget ==
    ASSUME CountsOK, BudgetInv, step = "idle", SpendOrStayDown, starts' = starts
    PROVE  /\ BudgetInv' /\ rearms' \in [count : 0 .. MaxRearms, age : 0 .. RearmWindow + 1]
           /\ step' \in {"idle", "spent"}
<1> USE WatchdogConstants, WatchdogNumbers
<1>1. CASE UNCHANGED <<rearms, step>>
  <2>1. Done' = Done
      BY <1>1 DEF Done, Pending
  <2> QED
      BY <1>1, <2>1 DEF CountsOK, BudgetInv
<1>2. CASE /\ RearmBudget.count < MaxRearms
           /\ rearms' = [RearmBudget EXCEPT !.count = @ + 1]
           /\ step' = "spent"
  <2>0. Done = rearms.count
      BY DEF Done, Pending
  <2>1. CASE rearms.age > RearmWindow
    <3>1. rearms' = [count |-> 1, age |-> 0]
        BY <1>2, <2>1 DEF RearmBudget
    <3>2. Done' = 0
        BY <1>2, <3>1 DEF Done, Pending
    <3>3. Len(starts) <= MaxRearms - 1
      <4>1. CASE Len(starts) > 0 /\ 1 <= Len(starts) - rearms.count + 1
        <5>1. 1 \in 1 .. Len(starts) /\ 1 <= Len(starts) - Done + 1
            BY <2>0, <4>1
        <5>2. starts[1] >= rearms.age
            BY <5>1 DEF BudgetInv
        <5> QED
            BY <2>1, <4>1, <5>1, <5>2
      <4>2. CASE ~(Len(starts) > 0 /\ 1 <= Len(starts) - rearms.count + 1)
          BY <4>2
      <4> QED
          BY <4>1, <4>2
    <3>4. BudgetInv'
        BY <3>1, <3>2, <3>3 DEF BudgetInv
    <3>5. rearms' \in [count : 0 .. MaxRearms, age : 0 .. RearmWindow + 1]
        BY <3>1
    <3>6. step' = "spent"
        BY <1>2
    <3> QED
        BY <3>4, <3>5, <3>6
  <2>2. CASE ~(rearms.age > RearmWindow)
    <3>1. rearms' = [count |-> rearms.count + 1, age |-> rearms.age] /\ rearms.count < MaxRearms
      <4>1. RearmBudget = rearms
          BY <2>2 DEF RearmBudget
      <4>2. rearms \in [count : 0 .. MaxRearms, age : 0 .. RearmWindow + 1]
          BY DEF CountsOK
      <4> QED
          BY <1>2, <4>1, <4>2, RearmsUpdated
    <3>2. Done' = Done
        BY <1>2, <2>0, <3>1 DEF Done, Pending
    <3>3. BudgetInv'
        BY <3>1, <3>2 DEF BudgetInv
    <3>4. rearms' \in [count : 0 .. MaxRearms, age : 0 .. RearmWindow + 1]
        BY <3>1
    <3>5. step' = "spent"
        BY <1>2
    <3> QED
        BY <3>3, <3>4, <3>5
  <2> QED
      BY <2>1, <2>2
<1> QED
    BY <1>1, <1>2 DEF SpendOrStayDown

\* A start is appended: what was pending is done.
LEMMA StartKeepsBudget ==
    ASSUME CountsOK, BudgetInv, StartService
    PROVE  BudgetInv' /\ starts' \in Seq(0 .. RearmWindow)
<1> USE WatchdogConstants
<1>1. Done' = Done + 1 /\ Done \in Nat /\ rearms' = rearms
    BY DEF StartService, Done, Pending, CountsOK, BudgetInv
<1>2. /\ starts' \in Seq(0 .. RearmWindow) /\ Len(starts') = Len(starts) + 1 /\ Len(starts) \in Nat
      /\ \A i \in 1 .. Len(starts) : starts'[i] = starts[i]
    BY AppendProperties DEF StartService, CountsOK
<1>3. starts'[Len(starts')] = 0
    BY AppendProperties DEF StartService, CountsOK
<1>4. ASSUME NEW i \in 1 .. Len(starts'), i <= Len(starts') - Done' + 1
      PROVE  starts'[i] >= rearms'.age
  <2>1. CASE i \in 1 .. Len(starts)
      BY <1>1, <1>2, <1>4, <2>1 DEF BudgetInv
  <2>2. CASE i = Len(starts')
      BY <1>1, <1>2, <1>3, <1>4, <2>2 DEF BudgetInv, CountsOK
  <2> QED
      BY <1>2, <2>1, <2>2
<1> QED
    BY <1>1, <1>2, <1>4 DEF BudgetInv

\* Starts grow old with the budget that paid for them.
LEMMA AgeingKeepsBudget ==
    ASSUME CountsOK, BudgetInv, WindowAges
    PROVE  /\ BudgetInv' /\ starts' \in Seq(0 .. RearmWindow)
           /\ rearms' \in [count : 0 .. MaxRearms, age : 0 .. RearmWindow + 1]
<1> USE WatchdogConstants
<1>1. PICK gone \in 0 .. Len(starts) :
          /\ \A i \in 1 .. gone : starts[i] + 1 > RearmWindow
          /\ \A i \in gone + 1 .. Len(starts) : starts[i] + 1 <= RearmWindow
          /\ starts' = [i \in 1 .. Len(starts) - gone |-> starts[gone + i] + 1]
    BY DEF WindowAges
<1>2. Len(starts) \in Nat /\ \A i \in 1 .. Len(starts) : starts[i] \in 0 .. RearmWindow
    BY ElementOfSeq DEF CountsOK
<1>3. \A i \in 1 .. Len(starts) - gone : starts[gone + i] + 1 \in 0 .. RearmWindow
    BY <1>1, <1>2
<1>4. starts' \in Seq(0 .. RearmWindow) /\ Len(starts') = Len(starts) - gone
    BY <1>1, <1>2, <1>3, IsASeq
<1>5. /\ rearms'.count = rearms.count /\ rearms'.age = Least(rearms.age + 1, RearmWindow + 1)
      /\ rearms' \in [count : 0 .. MaxRearms, age : 0 .. RearmWindow + 1]
  <2>1. rearms \in [count : 0 .. MaxRearms, age : 0 .. RearmWindow + 1]
      BY DEF CountsOK
  <2>2. rearms' = [count |-> rearms.count, age |-> Least(rearms.age + 1, RearmWindow + 1)]
      BY <2>1, RearmsUpdated DEF WindowAges
  <2>3. Least(rearms.age + 1, RearmWindow + 1) \in 0 .. RearmWindow + 1
      BY WatchdogNumbers DEF Least
  <2> QED
      BY <2>2, <2>3, WatchdogNumbers
<1>6. Done' = Done /\ Done = rearms.count /\ Done > 0
    BY <1>5 DEF WindowAges, Done, Pending
<1>7. ASSUME NEW i \in 1 .. Len(starts'), i <= Len(starts') - Done' + 1
      PROVE  starts'[i] >= rearms'.age
  <2>0. Done \in Nat
      BY <1>6, WatchdogNumbers
  <2>1. gone + i \in 1 .. Len(starts) /\ gone + i <= Len(starts) - Done + 1
    <3>1. i <= Len(starts) - gone - Done + 1 /\ i \in 1 .. Len(starts) - gone
        BY <1>4, <1>6, <1>7
    <3> QED
        BY <1>2, <2>0, <3>1
  <2>2. starts'[i] = starts[gone + i] + 1
      BY <1>1, <1>4, <1>7
  <2>3. starts[gone + i] >= rearms.age
      BY <2>1 DEF BudgetInv
  <2>4. rearms'.age <= rearms.age + 1
      BY <1>5, WatchdogNumbers DEF Least
  <2> QED
      BY <1>2, <1>5, <2>1, <2>2, <2>3, <2>4, WatchdogNumbers
<1>8. Len(starts') <= Done' + MaxRearms - 1
    BY <1>2, <1>4, <1>6, WatchdogNumbers DEF BudgetInv
<1> QED
    BY <1>4, <1>5, <1>6, <1>7, <1>8 DEF BudgetInv

\* Every step of the watchdog, of the agent and of the power keeps it.
LEMMA WatchdogStepInv == WatchdogInv /\ [WatchdogNext]_watchdogVars => WatchdogInv'
<1> SUFFICES ASSUME WatchdogInv, [WatchdogNext]_watchdogVars PROVE WatchdogInv'
    OBVIOUS
<1> USE WatchdogConstants DEF WatchdogInv
<1>0. rearms' = rearms /\ starts' = starts /\ Pending' = Pending => BudgetInv'
    BY DEF BudgetInv, Done
<1>1. ASSUME NEW reachable \in BOOLEAN, NEW carrying \in BOOLEAN, step = "idle",
             reachable /\ HealthyCheck
      PROVE  WatchdogInv'
  <2>1. /\ rearms' \in [count : 0 .. MaxRearms, age : 0 .. RearmWindow + 1]
        /\ step' \in {"idle", "spent"} /\ BudgetInv'
    <3>1. CASE SpendOrStayDown
        BY <1>1, <3>1, SpendKeepsBudget DEF HealthyCheck
    <3>2. CASE UNCHANGED <<rearms, step>>
        BY <1>0, <1>1, <3>2 DEF HealthyCheck, CountsOK, Pending
    <3> QED
        BY <1>1, <3>1, <3>2 DEF HealthyCheck
  <2>2. stable' \in 0 .. StableMin
      BY <1>1 DEF HealthyCheck, CountsOK, Least
  <2>3. FlagsOK' /\ CountsOK'
    <3>1. FlagsOK'
        BY <1>1, <2>1, <2>2 DEF HealthyCheck, FlagsOK, router, Steps
    <3>2. CountsOK'
        BY <1>1, <2>1, <2>2 DEF HealthyCheck, CountsOK, router
    <3> QED
        BY <3>1, <3>2
  <2>4. OwedInv'
      BY <1>1 DEF HealthyCheck, OwedInv, SpendOrStayDown, router, ZippieRunning
  <2>5. EvidenceInv'
      BY <1>1, <2>1 DEF HealthyCheck, EvidenceInv
  <2> QED
      BY <2>1, <2>3, <2>4, <2>5
<1>2. ASSUME step = "idle", SoleUplinkCheck
      PROVE  WatchdogInv'
  <2>1. /\ rearms' \in [count : 0 .. MaxRearms, age : 0 .. RearmWindow + 1]
        /\ step' \in {"idle", "spent"} /\ BudgetInv'
    <3>1. CASE SpendOrStayDown
        BY <1>2, <3>1, SpendKeepsBudget DEF SoleUplinkCheck, history
    <3>2. CASE UNCHANGED <<rearms, step>>
        BY <1>0, <1>2, <3>2 DEF SoleUplinkCheck, CountsOK, history, Pending
    <3> QED
        BY <1>2, <3>1, <3>2 DEF SoleUplinkCheck
  <2>2. soledown' \in 0 .. SoleRearmAfter
      BY <1>2 DEF SoleUplinkCheck, CountsOK, Least
  <2>3. FlagsOK' /\ CountsOK'
    <3>1. FlagsOK'
        BY <1>2, <2>1, <2>2 DEF SoleUplinkCheck, FlagsOK, router, history, Steps
    <3>2. CountsOK'
        BY <1>2, <2>1, <2>2 DEF SoleUplinkCheck, CountsOK, router, history
    <3> QED
        BY <3>1, <3>2
  <2>4. OwedInv'
      BY <1>2, <2>1 DEF SoleUplinkCheck, SoleDown, OwedInv, router, history
  <2>5. EvidenceInv'
      BY <1>2, <2>1 DEF SoleUplinkCheck, EvidenceInv, history
  <2> QED
      BY <2>1, <2>3, <2>4, <2>5
<1>3. ASSUME NEW carrying \in BOOLEAN, step = "idle", NotCarryingCheck(carrying)
      PROVE  WatchdogInv'
  <2>1. FlagsOK' /\ OwedInv'
      BY <1>3 DEF NotCarryingCheck, router, FlagsOK, OwedInv
  <2>2. CountsOK' /\ EvidenceInv'
      BY <1>3 DEF NotCarryingCheck, router, CountsOK, EvidenceInv
  <2> QED
      BY <1>0, <1>3, <2>1, <2>2 DEF NotCarryingCheck, router, Pending
<1>4. ASSUME NEW carrying \in BOOLEAN, step = "idle", OnlyUplinkCheck(carrying), MayCarry(carrying)
      PROVE  WatchdogInv'
  <2>1. FlagsOK' /\ CountsOK'
    <3>1. FlagsOK'
        BY <1>4 DEF OnlyUplinkCheck, FlagsOK
    <3>2. CountsOK'
        BY <1>4 DEF OnlyUplinkCheck, CountsOK
    <3> QED
        BY <3>1, <3>2
  <2>2. OwedInv' /\ EvidenceInv'
      BY <1>4 DEF OnlyUplinkCheck, OwedInv, EvidenceInv, MayCarry, ZippieRunning
  <2> QED
      BY <1>0, <1>4, <2>1, <2>2 DEF OnlyUplinkCheck, Pending
<1>5. ASSUME NEW carrying \in BOOLEAN, step = "idle", CountedCheck(carrying), MayCarry(carrying)
      PROVE  WatchdogInv'
  <2>1. /\ fails' \in 0 .. MaxFails /\ evidence' \in 0 .. MaxFails /\ fails' <= evidence'
        /\ step' = "tripped" => evidence' >= MaxFails
      BY <1>5 DEF CountedCheck, CountsOK, EvidenceInv, Least
  <2>2. BudgetInv'
      BY <1>0, <1>5 DEF CountedCheck, Pending
  <2>3. FlagsOK' /\ CountsOK'
    <3>1. FlagsOK'
        BY <1>5, <2>1 DEF CountedCheck, FlagsOK, router, Steps
    <3>2. CountsOK'
        BY <1>5, <2>1 DEF CountedCheck, CountsOK, router
    <3> QED
        BY <3>1, <3>2
  <2>4. OwedInv'
      BY <1>5 DEF CountedCheck, OwedInv, router, MayCarry, ZippieRunning
  <2> QED
      BY <2>1, <2>2, <2>3, <2>4 DEF EvidenceInv
<1>6. CASE Check
  <2>1. PICK reachable \in BOOLEAN, carrying \in BOOLEAN :
            /\ step = "idle" /\ MayCarry(carrying)
            /\ \/ reachable /\ HealthyCheck
               \/ SoleUplinkCheck \/ NotCarryingCheck(carrying)
               \/ OnlyUplinkCheck(carrying) \/ CountedCheck(carrying)
      BY <1>6 DEF Check
  <2> QED
      BY <1>1, <1>2, <1>3, <1>4, <1>5, <2>1
<1>7. CASE ClearTrip
  <2>1. FlagsOK' /\ OwedInv'
      BY <1>7 DEF ClearTrip, router, history, FlagsOK, Steps, OwedInv
  <2>2. CountsOK' /\ EvidenceInv'
      BY <1>7 DEF ClearTrip, router, history, CountsOK, EvidenceInv
  <2> QED
      BY <1>0, <1>7, <2>1, <2>2 DEF ClearTrip, router, history, Pending
<1>8. CASE EnableService
  <2>1. FlagsOK' /\ OwedInv'
      BY <1>8 DEF EnableService, counters, history, FlagsOK, Steps, OwedInv
  <2>2. CountsOK' /\ EvidenceInv'
      BY <1>8 DEF EnableService, counters, history, CountsOK, EvidenceInv
  <2> QED
      BY <1>0, <1>8, <2>1, <2>2 DEF EnableService, counters, history, Pending
<1>9. CASE StartService
  <2>1. BudgetInv' /\ starts' \in Seq(0 .. RearmWindow)
      BY <1>9, StartKeepsBudget
  <2>2. FlagsOK' /\ CountsOK'
    <3>1. FlagsOK'
        BY <1>9, <2>1 DEF StartService, counters, FlagsOK, Steps
    <3>2. CountsOK'
        BY <1>9, <2>1 DEF StartService, counters, CountsOK
    <3> QED
        BY <3>1, <3>2
  <2>3. OwedInv'
      BY <1>9 DEF StartService, OwedInv
  <2>4. EvidenceInv'
      BY <1>9 DEF StartService, counters, EvidenceInv
  <2> QED
      BY <2>1, <2>2, <2>3, <2>4
<1>10. CASE StopService
  <2>1. FlagsOK' /\ OwedInv'
      BY <1>10 DEF StopService, counters, history, FlagsOK, Steps, OwedInv
  <2>2. CountsOK' /\ EvidenceInv'
      BY <1>10 DEF StopService, counters, history, CountsOK, EvidenceInv
  <2> QED
      BY <1>0, <1>10, <2>1, <2>2 DEF StopService, counters, history, Pending
<1>11. CASE EndTeardown
  <2>1. FlagsOK' /\ CountsOK'
    <3>1. FlagsOK'
        BY <1>11 DEF EndTeardown, FlagsOK, Steps
    <3>2. CountsOK'
        BY <1>11 DEF EndTeardown, CountsOK
    <3> QED
        BY <3>1, <3>2
  <2>2. OwedInv' /\ EvidenceInv'
      BY <1>11 DEF EndTeardown, OwedInv, EvidenceInv
  <2> QED
      BY <1>0, <1>11, <2>1, <2>2 DEF EndTeardown, Pending
<1>12. CASE PowerCut
  <2>1. BudgetInv'
    <3>1. (Done' = Done \/ Done' = Done + 1) /\ rearms' = rearms /\ starts' = starts
        BY <1>12, WatchdogNumbers DEF PowerCut, Done, Pending
    <3> QED
        BY <3>1, WatchdogNumbers DEF BudgetInv, Done, Pending
  <2>2. FlagsOK' /\ CountsOK' /\ EvidenceInv'
      BY <1>12 DEF PowerCut, FlagsOK, CountsOK, Steps, EvidenceInv
  <2>3. OwedInv'
      BY <1>12 DEF PowerCut, OwedInv
  <2> QED
      BY <2>1, <2>2, <2>3
<1>13. CASE AgentDies \/ Respawn
  <2>1. FlagsOK' /\ OwedInv'
      BY <1>13 DEF AgentDies, Respawn, counters, history, FlagsOK, OwedInv, ZippieRunning
  <2>2. CountsOK' /\ EvidenceInv'
      BY <1>13 DEF AgentDies, Respawn, counters, history, CountsOK, EvidenceInv
  <2> QED
      BY <1>0, <1>13, <2>1, <2>2 DEF AgentDies, Respawn, counters, history, Pending
<1>14. CASE HandStart
  <2>1. FlagsOK' /\ OwedInv'
      BY <1>14 DEF HandStart, counters, FlagsOK, OwedInv
  <2>2. CountsOK' /\ EvidenceInv'
      BY <1>14 DEF HandStart, counters, CountsOK, EvidenceInv
  <2> QED
      BY <1>0, <1>14, <2>1, <2>2 DEF HandStart, counters, Pending
<1>15. CASE SafeMode
  <2>1. FlagsOK' /\ OwedInv'
      BY <1>15 DEF SafeMode, counters, history, FlagsOK, OwedInv
  <2>2. CountsOK' /\ EvidenceInv'
      BY <1>15 DEF SafeMode, counters, history, CountsOK, EvidenceInv
  <2> QED
      BY <1>0, <1>15, <2>1, <2>2 DEF SafeMode, counters, history, Pending
<1>16. CASE UplinkComesOrGoes
  <2>1. FlagsOK' /\ OwedInv'
      BY <1>16 DEF UplinkComesOrGoes, counters, history, FlagsOK, OwedInv
  <2>2. CountsOK' /\ EvidenceInv'
      BY <1>16 DEF UplinkComesOrGoes, counters, history, CountsOK, EvidenceInv
  <2> QED
      BY <1>0, <1>16, <2>1, <2>2 DEF UplinkComesOrGoes, counters, history, Pending
<1>17. CASE WindowAges
  <2>1. /\ BudgetInv' /\ starts' \in Seq(0 .. RearmWindow)
        /\ rearms' \in [count : 0 .. MaxRearms, age : 0 .. RearmWindow + 1]
      BY <1>17, AgeingKeepsBudget
  <2>2. UNCHANGED <<router, counters, tripped, step, evidence, absolved>>
      BY <1>17 DEF WindowAges
  <2>3. FlagsOK' /\ OwedInv'
      BY <2>2 DEF router, FlagsOK, OwedInv
  <2>4. CountsOK' /\ EvidenceInv'
      BY <2>1, <2>2 DEF counters, CountsOK, EvidenceInv
  <2> QED
      BY <2>1, <2>3, <2>4
<1>18. CASE UNCHANGED watchdogVars
  <2>1. FlagsOK' /\ OwedInv'
      BY <1>18 DEF watchdogVars, FlagsOK, OwedInv
  <2>2. CountsOK' /\ EvidenceInv'
      BY <1>18 DEF watchdogVars, CountsOK, EvidenceInv
  <2> QED
      BY <1>0, <1>18, <2>1, <2>2 DEF watchdogVars, Pending
<1> QED
    BY <1>6, <1>7, <1>8, <1>9, <1>10, <1>11, <1>12, <1>13, <1>14, <1>15, <1>16, <1>17, <1>18 DEF WatchdogNext

\* It gives the three claims.
LEMMA WatchdogInvImplies ==
    WatchdogInv => TeardownHasEvidence /\ DownIsOwed /\ RearmsBounded
<1> SUFFICES ASSUME WatchdogInv PROVE TeardownHasEvidence /\ DownIsOwed /\ RearmsBounded
    OBVIOUS
<1>1. TeardownHasEvidence /\ DownIsOwed
    BY DEF WatchdogInv, EvidenceInv, OwedInv, TeardownHasEvidence, DownIsOwed
<1>2. RearmsBounded
    BY WatchdogConstants DEF WatchdogInv, BudgetInv, CountsOK, RearmsBounded, Done, Pending
<1> QED
    BY <1>1, <1>2

-----------------------------------------------------------------------------
\* Home's address and the probes of an idle bond.

\* Of the address: the type that its argument needs, and the count of unaware
\* passes never ahead of the age of the address dialled.
AddressInv ==
    /\ home_ip \in Addresses \cup {NoAddress} /\ stored \in Publics \cup {NoAddress}
    /\ home_age \in 0 .. AddressTtl /\ home_at \in Publics
    /\ saved => home_ip # NoAddress /\ stored \in Publics
    /\ unaware \in Nat /\ unaware <= home_age

AddressFlags == captive \in BOOLEAN /\ bonded \in BOOLEAN /\ wan \in BOOLEAN /\ saved \in BOOLEAN

\* The address's invariant holds at first.
LEMMA AddressInitInv == AddressInit => AddressInv /\ AddressFlags
<1>1. AddressInit => AddressInv
    BY AddressAssumption DEF AddressInit, AddressInv
<1>2. AddressInit => AddressFlags
    BY DEF AddressInit, AddressFlags
<1> QED
    BY <1>1, <1>2

\* A resolve that answers, one that fails, a cold boot, a spoilt file and moves of either
\* end keep it.
LEMMA AddressStepInv ==
    AddressInv /\ AddressFlags /\ [AddressNext]_addressVars => AddressInv' /\ AddressFlags'
<1> SUFFICES ASSUME AddressInv, AddressFlags, [AddressNext]_addressVars
             PROVE  AddressInv' /\ AddressFlags'
    OBVIOUS
<1>1. AddressInv'
  <2> USE AddressAssumption DEF AddressInv, Addresses
  <2>1. CASE CacheHit
      BY <2>1 DEF CacheHit
  <2>2. ASSUME NEW ok \in BOOLEAN, Resolved(ok) PROVE AddressInv'
    <3>1. Answer \in Addresses /\ (Answer # Private => Answer \in Publics)
        BY DEF Answer
    <3>2. stored' = (IF Answer # Private /\ ok THEN Answer ELSE stored) /\ home_ip' = Answer
        BY <2>2 DEF Resolved, Persisted
    <3>3. saved' => saved \/ (ok /\ Answer # Private)
        BY <2>2 DEF Resolved
    <3> QED
        BY <2>2, <3>1, <3>2, <3>3 DEF Resolved
  <2>3. CASE Unresolved
    <3>1. home_ip' = home_ip /\ stored' = stored /\ home_age' = home_age /\ saved' = saved
          /\ home_at' = home_at /\ unaware' = 0
        BY <2>3 DEF Unresolved, KeptOnFailure
    <3> QED
        BY <3>1
  <2>4. CASE ColdBoot
    <3>1. home_ip' = stored /\ stored' = stored /\ home_age' = AddressTtl /\ saved' = saved
          /\ home_at' = home_at /\ unaware' = 0
        BY <2>4 DEF ColdBoot
    <3> QED
        BY <3>1
  <2>5. CASE FileSpoilt \/ HomeMoves \/ RouterMoves
      BY <2>5 DEF FileSpoilt, HomeMoves, RouterMoves
  <2>6. CASE UNCHANGED addressVars
      BY <2>6 DEF addressVars
  <2> QED
      BY <2>1, <2>2, <2>3, <2>4, <2>5, <2>6 DEF AddressNext
<1>2. AddressFlags'
    BY DEF AddressFlags, AddressNext, CacheHit, Resolved, Unresolved, ColdBoot, FileSpoilt, HomeMoves,
           RouterMoves, Dialled, addressVars
<1> QED
    BY <1>1, <1>2

\* It leaves an address to dial.
LEMMA AddressInvImplies == AddressInv => AlwaysSomewhereToDial
BY AddressAssumption DEF AddressInv, AlwaysSomewhereToDial

-----------------------------------------------------------------------------
\* Of the probes: how long a leg can have been silent, by the probes it lost
\* since it was last heard.
Silence ==
    /\ answered /\ lost_run = 0 => rx_age <= probe_age /\ probe_age < IdleProbeInterval
    /\ answered /\ lost_run = 1 =>
          rx_age < IdleProbeInterval + MaxPass + probe_age /\ probe_age < IdleProbeInterval
    /\ rx_age < StaleTime => answered
    /\ answered => ~never

CadenceInv == CadenceTypeOK /\ Silence

\* What the constants of the probes are.
LEMMA CadenceConstants ==
    /\ MaxPass \in Nat /\ MaxPass > 0 /\ ActiveInterval \in Nat /\ ActiveInterval > 0
    /\ IdleInterval \in Nat /\ StaleTime \in Nat /\ StaleTime > 0 /\ IdleAfter \in Nat /\ IdleAfter > 0
    /\ NeverTx \in Nat /\ NeverTx > 0
BY CadenceAssumption

\* Two idle intervals and a pass end before a leg reads as silent.
LEMMA IdleIntervalHasRoom ==
    /\ IdleProbeInterval \in Nat /\ IdleProbeInterval > 0
    /\ StaleTimeHasRoom => 2 * IdleProbeInterval + MaxPass <= StaleTime
<1>1. StaleTime \div 3 \in Nat /\ 3 * (StaleTime \div 3) <= StaleTime
    BY CadenceConstants
<1> DEFINE third == StaleTime \div 3
<1> HIDE DEF third
<1>2. third \in Nat /\ 3 * third <= StaleTime
    BY <1>1 DEF third
<1>3. IdleProbeInterval =
        AtLeastOf(AtMostOf(AtLeastOf(IdleInterval, ActiveInterval), third), ActiveInterval)
    BY DEF IdleProbeInterval, third
<1>4. StaleTimeHasRoom <=> MaxPass <= third /\ ActiveInterval <= third
    BY DEF StaleTimeHasRoom, third
<1> QED
    BY <1>2, <1>3, <1>4, CadenceConstants DEF AtLeastOf, AtMostOf

\* The cadence's invariant holds at first.
LEMMA CadenceInitInv == CadenceInit => CadenceInv
<1>1. CadenceInit => CadenceTypeOK
  <2> SUFFICES ASSUME CadenceInit PROVE CadenceTypeOK
      OBVIOUS
  <2>1. /\ idle_for \in 0 .. IdleAfter /\ probe_age \in 0 .. StaleTime /\ rx_age \in 0 .. StaleTime
        /\ tx_probes \in 0 .. NeverTx /\ lost_run \in 0 .. 2
      BY CadenceConstants DEF CadenceInit
  <2>2. answered \in BOOLEAN /\ never \in BOOLEAN /\ fast_keepalive \in BOOLEAN /\ sent_now \in BOOLEAN
      BY DEF CadenceInit
  <2> QED
      BY <2>1, <2>2 DEF CadenceTypeOK
<1>2. CadenceInit => Silence
    BY CadenceConstants DEF CadenceInit, Silence
<1> QED
    BY <1>1, <1>2 DEF CadenceInv

\* Every pass, probe and answer keeps it.
LEMMA CadenceStepInv == CadenceInv /\ [CadenceNext]_cadenceVars => CadenceInv'
<1> SUFFICES ASSUME CadenceInv, [CadenceNext]_cadenceVars PROVE CadenceInv'
    OBVIOUS
<1> USE CadenceConstants, IdleIntervalHasRoom
<1>1. ASSUME NEW d \in 1 .. MaxPass, NEW browsing \in BOOLEAN, NEW replies \in BOOLEAN,
             NEW takes \in BOOLEAN, CadencePass(d, browsing, replies, takes)
      PROVE  CadenceInv'
  <2> DEFINE idle == IF browsing THEN 0 ELSE AtMostOf(idle_for + d, IdleAfter)
             age == AtMostOf(probe_age + d, StaleTime)
             sends == Probes(idle, age)
             heard == sends /\ replies
  <2>1. /\ idle_for' = idle /\ probe_age' = (IF sends THEN 0 ELSE age)
        /\ rx_age' = (IF heard THEN 0 ELSE AtMostOf(rx_age + d, StaleTime))
        /\ answered' = (answered \/ heard)
        /\ tx_probes' = (IF sends THEN AtMostOf(tx_probes + 1, NeverTx) ELSE tx_probes)
        /\ never' = NeverHandshaked(answered', tx_probes')
        /\ fast_keepalive' = Keepalive(idle, takes)
        /\ lost_run' = (IF heard THEN 0 ELSE IF sends THEN AtMostOf(lost_run + 1, 2) ELSE lost_run)
        /\ sent_now' = sends
      BY <1>1 DEF CadencePass
  <2>2. /\ age \in 0 .. StaleTime /\ age <= probe_age + d /\ idle \in 0 .. IdleAfter
        /\ ~sends => age < IdleProbeInterval
        /\ sends \in BOOLEAN
      BY DEF CadenceInv, CadenceTypeOK, AtMostOf, Probes, PacketIsIdle
  <2> HIDE DEF idle, age, sends
  <2>3. CadenceTypeOK'
    <3>1. idle_for' \in 0 .. IdleAfter /\ probe_age' \in 0 .. StaleTime /\ rx_age' \in 0 .. StaleTime
        BY <2>1, <2>2 DEF CadenceInv, CadenceTypeOK, AtMostOf
    <3>2. tx_probes' \in 0 .. NeverTx /\ lost_run' \in 0 .. 2
        BY <2>1, <2>2 DEF CadenceInv, CadenceTypeOK, AtMostOf
    <3>3. answered' \in BOOLEAN /\ never' \in BOOLEAN /\ fast_keepalive' \in BOOLEAN /\ sent_now' \in BOOLEAN
        BY <2>1, <2>2 DEF CadenceInv, CadenceTypeOK, NeverHandshaked, Keepalive, PacketIsIdle
    <3> QED
        BY <3>1, <3>2, <3>3 DEF CadenceTypeOK
  <2>4. Silence'
    <3>1. /\ rx_age \in 0 .. StaleTime /\ probe_age \in 0 .. StaleTime /\ lost_run \in 0 .. 2
          /\ age \in 0 .. StaleTime /\ (age = probe_age + d \/ age = StaleTime)
        BY <2>2 DEF CadenceInv, CadenceTypeOK, AtMostOf, age
    <3>2. answered' => ~never'
        BY <2>1 DEF NeverHandshaked
    <3>3. CASE heard
      <4>1. answered' /\ rx_age' = 0 /\ probe_age' = 0 /\ lost_run' = 0
          BY <2>1, <3>3
      <4> QED
          BY <3>2, <4>1 DEF Silence
    <3>4. CASE ~heard
      <4>1. (answered' <=> answered) /\ rx_age' = AtMostOf(rx_age + d, StaleTime)
          BY <2>1, <3>4
      <4>2. rx_age' \in 0 .. StaleTime /\ rx_age' <= rx_age + d /\ (rx_age' < StaleTime => rx_age < StaleTime)
          BY <3>1, <4>1 DEF AtMostOf
      <4>3. answered /\ lost_run' = 0 => rx_age' <= probe_age' /\ probe_age' < IdleProbeInterval
        <5>1. lost_run' = 0 => ~sends /\ lost_run = 0 /\ probe_age' = age
            BY <2>1, <3>1, <3>4 DEF AtMostOf
        <5> QED
            BY <2>2, <3>1, <4>2, <5>1 DEF CadenceInv, Silence
      <4>4. answered /\ lost_run' = 1 =>
               rx_age' < IdleProbeInterval + MaxPass + probe_age' /\ probe_age' < IdleProbeInterval
        <5>1. CASE sends
          <6>1. lost_run' = 1 => lost_run = 0
              BY <2>1, <3>1, <3>4, <5>1 DEF AtMostOf
          <6>2. probe_age' = 0
              BY <2>1, <5>1
          <6> QED
              BY <2>2, <3>1, <4>2, <6>1, <6>2 DEF CadenceInv, Silence
        <5>2. CASE ~sends
          <6>1. lost_run' = lost_run /\ probe_age' = age
              BY <2>1, <5>2
          <6> QED
              BY <2>2, <3>1, <4>2, <5>2, <6>1 DEF CadenceInv, Silence
        <5> QED
            BY <5>1, <5>2
      <4>5. rx_age' < StaleTime => answered'
          BY <4>1, <4>2 DEF CadenceInv, Silence
      <4> QED
          BY <3>2, <4>1, <4>3, <4>4, <4>5 DEF Silence
    <3> QED
        BY <3>3, <3>4
  <2> QED
      BY <2>3, <2>4 DEF CadenceInv
<1>2. CASE UNCHANGED cadenceVars
    BY <1>2 DEF cadenceVars, CadenceInv, CadenceTypeOK, Silence
<1> QED
    BY <1>1, <1>2 DEF CadenceNext

\* Where StaleTime has room for three passes and three active probes, it keeps the legs.
LEMMA CadenceInvImplies ==
    ASSUME StaleTimeHasRoom, CadenceInv
    PROVE  IdlingKeepsLegs
<1> USE CadenceConstants, IdleIntervalHasRoom DEF CadenceInv, CadenceTypeOK, Silence, BytesArriving
<1>1. answered /\ lost_run <= 1 => BytesArriving
    OBVIOUS
<1> QED
    BY <1>1 DEF IdlingKeepsLegs

-----------------------------------------------------------------------------
\* The default route.

\* Nothing was installed since the start, so nothing is remembered; what is
\* remembered is so; and the route is missing since the last forced install.
RouteInv ==
    /\ fresh => memo = NoRoute
    /\ fresh \/ clobbered \/ memo = kernel
    /\ memo # NoRoute => refused \/ resolver = memo
    /\ fw_pass \in 0 .. ForceEvery - 1 /\ missing \in Nat
    /\ fw_pass = 0 => missing <= ForceEvery - 1
    /\ fw_pass # 0 => missing <= fw_pass - 1

\* A window that the rule looks at is no older than the run of passes it stands for.
StandInv ==
    /\ bad_age \in {Unset} \cup 0 .. EnterAfter /\ bad_run \in 0 .. EnterAfter
    /\ good_age \in {Unset} \cup 0 .. RecoverAfter /\ good_run \in 0 .. RecoverAfter
    /\ ~standing /\ bad_age # Unset => bad_age <= bad_run
    /\ standing /\ good_age # Unset => good_age <= good_run
    /\ sole => ~standing

RouteFlags ==
    /\ standing \in BOOLEAN /\ sole \in BOOLEAN /\ fresh \in BOOLEAN /\ clobbered \in BOOLEAN
    /\ refused \in BOOLEAN

RouteHops ==
    /\ memo \in Hops \cup {NoRoute} /\ kernel \in Hops \cup {NoRoute}
    /\ resolver \in Hops \cup {NoRoute} /\ wanted \in Hops \cup {NoRoute}

KickAge == kick_age \in {Unset} \cup 0 .. KickInterval

\* What the constants of the default route are.
LEMMA RouteConstants ==
    /\ NoRoute \notin Hops /\ EnterAfter \in Nat /\ RecoverAfter \in Nat /\ KickInterval \in Nat
    /\ ForceEvery \in Nat /\ ForceEvery > 1
BY RouteAssumption

\* One more pass, of ForceEvery.
LEMMA PassCounted ==
    ASSUME NEW n \in 0 .. ForceEvery - 1
    PROVE  /\ (n + 1) % ForceEvery \in 0 .. ForceEvery - 1
           /\ n + 1 < ForceEvery => (n + 1) % ForceEvery = n + 1
           /\ n + 1 = ForceEvery => (n + 1) % ForceEvery = 0
BY RouteConstants

\* A route that is in place is within every bound.
LEMMA NoneMissing ==
    ASSUME NEW n \in 0 .. ForceEvery - 1
    PROVE  (n = 0 => 0 <= ForceEvery - 1) /\ (n # 0 => 0 <= n - 1)
BY RouteConstants

-----------------------------------------------------------------------------
\* What Install does to the route, by the outcome.
LEMMA InstallOutcomes ==
    ASSUME NEW hops \in Hops \cup {NoRoute}, NEW force \in BOOLEAN, NEW tail \in Tails,
           NEW fallback, NEW ok \in BOOLEAN, NEW works \in BOOLEAN, NEW d \in 0 .. 1,
           RouteFlags, Install(hops, force, tail, fallback, ok, works, d)
    PROVE  \E target \in {hops, NoRoute} :
              /\ wanted' = target
              /\ \/ /\ target = NoRoute /\ kernel' = NoRoute /\ memo' = NoRoute
                    /\ ~fresh' /\ ~clobbered'
                 \/ /\ target # NoRoute /\ ok /\ (target # memo \/ force)
                    /\ kernel' = target /\ memo' = target /\ ~fresh' /\ ~clobbered'
                    /\ \/ resolver' = kernel' \/ refused'
                       \/ target = memo /\ (refused' <=> refused) /\ resolver' = resolver
                 \/ /\ target # NoRoute /\ ~ok /\ (target # memo \/ force)
                    /\ kernel' = kernel /\ memo' = memo
                    /\ (fresh' <=> fresh) /\ (clobbered' <=> clobbered)
                    /\ (refused' <=> refused) /\ resolver' = resolver
                 \/ /\ target # NoRoute /\ target = memo /\ ~force
                    /\ kernel' = kernel /\ memo' = memo /\ ~fresh'
                    /\ (clobbered' <=> clobbered) /\ (refused' <=> refused) /\ resolver' = resolver
<1> DEFINE target == IF standing' THEN NoRoute ELSE hops
           moved == target # memo
           installs == target # NoRoute /\ (moved \/ force)
<1>1. /\ wanted' = target
      /\ kernel' = (IF installs THEN ReplaceMultipath(target, ok) ELSE Withdrawn(target, moved))
      /\ memo' = (IF installs /\ ~ok THEN memo ELSE target)
      /\ clobbered' <=> (clobbered /\ target # NoRoute /\ ~(installs /\ ok))
      /\ fresh' <=> (fresh /\ installs /\ ~ok)
      /\ Kick(moved /\ (installs => ok), works, d)
    BY DEF Install
<1>2. /\ moved /\ (installs => ok) => resolver' = kernel' \/ refused'
      /\ ~(moved /\ (installs => ok)) => (refused' <=> refused) /\ resolver' = resolver
    BY <1>1 DEF Kick
<1>3. target \in {hops, NoRoute}
    OBVIOUS
<1> HIDE DEF target
<1>4. CASE target = NoRoute
    BY <1>1, <1>3, <1>4 DEF Withdrawn
<1>5. CASE target # NoRoute /\ (moved \/ force) /\ ok
    BY <1>1, <1>2, <1>3, <1>5 DEF ReplaceMultipath
<1>6. CASE target # NoRoute /\ (moved \/ force) /\ ~ok
    BY <1>1, <1>2, <1>3, <1>6 DEF ReplaceMultipath
<1>7. CASE target # NoRoute /\ ~(moved \/ force)
    BY <1>1, <1>2, <1>3, <1>7 DEF Withdrawn
<1> QED
    BY <1>4, <1>5, <1>6, <1>7

\* Whatever Install does, what it remembers is so.
LEMMA InstallRemembers ==
    ASSUME NEW hops \in Hops \cup {NoRoute}, NEW force \in BOOLEAN, NEW tail \in Tails,
           NEW fallback, NEW ok \in BOOLEAN, NEW works \in BOOLEAN, NEW d \in 0 .. 1,
           RouteFlags, RouteInv, Install(hops, force, tail, fallback, ok, works, d)
    PROVE  /\ fresh' => memo' = NoRoute
           /\ fresh' \/ clobbered' \/ memo' = kernel'
           /\ memo' # NoRoute => refused' \/ resolver' = memo'
           /\ ok /\ kernel' # wanted' => wanted' = memo /\ wanted' = hops /\ hops # NoRoute /\ ~force
BY InstallOutcomes DEF RouteInv

\* What evaluate does to the verdict.
LEMMA EvaluateSustains ==
    ASSUME NEW hops, NEW tail \in Tails, NEW fallback, NEW d \in 0 .. 1,
           StandInv, RouteFlags, Evaluate(hops, tail, fallback, d)
    PROVE  /\ StandInv' /\ standing' \in BOOLEAN /\ sole' \in BOOLEAN
           /\ ~standing /\ standing' => bad_run' = EnterAfter
           /\ standing /\ ~standing' => good_run' = RecoverAfter \/ sole'
<1> USE RouteConstants
<1> DEFINE bad == Later(bad_age, d, EnterAfter)
           good == Later(good_age, d, RecoverAfter)
           br == Upto(bad_run + d, EnterAfter)
           gr == Upto(good_run + d, RecoverAfter)
<1>1. /\ bad \in {Unset} \cup 0 .. EnterAfter /\ (bad = Unset <=> bad_age = Unset)
      /\ good \in {Unset} \cup 0 .. RecoverAfter /\ (good = Unset <=> good_age = Unset)
      /\ br \in 0 .. EnterAfter /\ gr \in 0 .. RecoverAfter
      /\ ~standing /\ bad # Unset => bad <= br
      /\ standing /\ good # Unset => good <= gr
    BY DEF StandInv, Later, Upto, Unset
<1>2. CASE hops = NoRoute
  <2>1. /\ (standing' <=> standing) /\ bad_age' = bad /\ good_age' = good /\ bad_run' = br
        /\ good_run' = gr /\ (sole' <=> sole) /\ sole' \in BOOLEAN /\ standing' \in BOOLEAN
      BY <1>2 DEF Evaluate, RouteFlags
  <2> HIDE DEF bad, good, br, gr
  <2> QED
      BY <1>1, <2>1 DEF StandInv
<1>3. CASE hops # NoRoute
  <2> DEFINE v == Verdict(tail, fallback, bad, good)
  <2>1. /\ standing' = v.standing /\ bad_age' = v.bad /\ good_age' = v.good
        /\ bad_run' = (IF tail # "bad" THEN 0 ELSE br)
        /\ good_run' = (IF tail # "good" THEN 0 ELSE gr)
        /\ sole' = ~fallback
      BY <1>3 DEF Evaluate
  <2> HIDE DEF bad, good, br, gr, v
  <2>2. CASE ~fallback
    <3>1. v = [standing |-> FALSE, bad |-> Unset, good |-> good]
        BY <2>2 DEF Verdict, v
    <3>2. standing' = FALSE /\ bad_age' = Unset /\ good_age' = good /\ sole' = TRUE
      <4>1. v.standing = FALSE /\ v.bad = Unset /\ v.good = good
          BY <3>1
      <4> QED
          BY <2>1, <2>2, <4>1
    <3>3. bad_run' \in 0 .. EnterAfter /\ good_run' \in 0 .. RecoverAfter
        BY <1>1, <2>1
    <3> QED
        BY <1>1, <3>2, <3>3 DEF StandInv, Unset
  <2>3. CASE fallback /\ ~standing
    <3> DEFINE enter == EnterWindow(tail, bad)
               enters == bad # Unset /\ enter = EnterAfter
    <3>1. v = [standing |-> enters, bad |-> enter, good |-> IF enters THEN Unset ELSE good]
        BY <2>3 DEF Verdict, v
    <3>2. (standing' <=> enters) /\ bad_age' = enter /\ good_age' = (IF enters THEN Unset ELSE good) /\ ~sole'
          /\ standing' \in BOOLEAN /\ sole' \in BOOLEAN
      <4>1. (v.standing = enters) /\ v.bad = enter /\ v.good = (IF enters THEN Unset ELSE good)
          BY <3>1
      <4>2. enters \in BOOLEAN
          OBVIOUS
      <4> QED
          BY <2>1, <2>3, <4>1, <4>2
    <3>3. /\ enter \in {Unset} \cup 0 .. EnterAfter
          /\ enter # Unset => tail = "bad" /\ ((bad = Unset /\ enter = 0) \/ enter = bad)
        BY <1>1 DEF EnterWindow
    <3> HIDE DEF enter
    <3>4. bad_run' \in 0 .. EnterAfter /\ good_run' \in 0 .. RecoverAfter
        BY <1>1, <2>1
    <3>5. enter # Unset => enter <= bad_run'
        BY <1>1, <2>1, <2>3, <3>3
    <3>6. enters => bad_run' = EnterAfter
        BY <3>4, <3>5, <1>1 DEF Unset
    <3> QED
        BY <1>1, <2>3, <3>2, <3>3, <3>4, <3>5, <3>6 DEF StandInv, Unset
  <2>4. CASE fallback /\ standing
    <3> DEFINE recover == RecoverWindow(tail, good)
               leaves == good # Unset /\ recover = RecoverAfter
    <3>1. v = [standing |-> ~leaves, bad |-> IF leaves THEN Unset ELSE bad, good |-> recover]
        BY <2>4 DEF Verdict, v
    <3>2. (standing' <=> ~leaves) /\ bad_age' = (IF leaves THEN Unset ELSE bad) /\ good_age' = recover /\ ~sole'
          /\ standing' \in BOOLEAN /\ sole' \in BOOLEAN
      <4>1. (v.standing = ~leaves) /\ v.bad = (IF leaves THEN Unset ELSE bad) /\ v.good = recover
          BY <3>1
      <4>2. leaves \in BOOLEAN
          OBVIOUS
      <4> QED
          BY <2>1, <2>4, <4>1, <4>2
    <3>3. /\ recover \in {Unset} \cup 0 .. RecoverAfter
          /\ recover # Unset => tail = "good" /\ ((good = Unset /\ recover = 0) \/ recover = good)
        BY <1>1 DEF RecoverWindow, GoodTail
    <3> HIDE DEF recover
    <3>4. bad_run' \in 0 .. EnterAfter /\ good_run' \in 0 .. RecoverAfter
        BY <1>1, <2>1
    <3>5. recover # Unset => recover <= good_run'
        BY <1>1, <2>1, <2>4, <3>3
    <3>6. leaves => good_run' = RecoverAfter
        BY <3>4, <3>5, <1>1 DEF Unset
    <3> QED
        BY <1>1, <2>4, <3>2, <3>3, <3>4, <3>5, <3>6 DEF StandInv, Unset
  <2> QED
      BY <2>2, <2>3, <2>4 DEF RouteFlags
<1> QED
    BY <1>2, <1>3

\* Install keeps the types of what it writes.
LEMMA InstallTypes ==
    ASSUME NEW hops \in Hops \cup {NoRoute}, NEW force \in BOOLEAN, NEW tail \in Tails,
           NEW fallback, NEW ok \in BOOLEAN, NEW works \in BOOLEAN, NEW d \in 0 .. 1,
           RouteFlags, RouteHops, KickAge, Install(hops, force, tail, fallback, ok, works, d)
    PROVE  /\ RouteHops' /\ KickAge'
           /\ fresh' \in BOOLEAN /\ clobbered' \in BOOLEAN /\ refused' \in BOOLEAN
<1>1. RouteHops'
  <2>1. PICK target \in {hops, NoRoute} :
            wanted' = target /\ kernel' \in {target, kernel} /\ memo' \in {target, memo}
      BY InstallOutcomes
  <2>2. resolver' \in {kernel', resolver}
      BY DEF Install, Kick
  <2> QED
      BY <2>1, <2>2 DEF RouteHops
<1>2. KickAge'
  <2>1. kick_age' \in {0, Later(kick_age, d, KickInterval)}
      BY DEF Install, Kick
  <2> QED
      BY <2>1, RouteConstants DEF KickAge, Later, Upto, Unset
<1>3. fresh' \in BOOLEAN /\ clobbered' \in BOOLEAN
    BY DEF Install
<1>4. refused' \in BOOLEAN
    BY DEF Install, Kick, RouteFlags
<1> QED
    BY <1>1, <1>2, <1>3, <1>4

RouteAll == RouteInv /\ StandInv /\ RouteFlags /\ RouteHops /\ KickAge

\* The default route's invariants hold at first.
LEMMA RouteInitAll == RouteInit => RouteAll
<1> SUFFICES ASSUME RouteInit PROVE RouteAll
    OBVIOUS
<1>1. RouteInv
    BY RouteConstants DEF RouteInit, RouteInv
<1>2. StandInv
    BY RouteConstants DEF RouteInit, StandInv, Unset
<1>3. RouteFlags
    BY DEF RouteInit, RouteFlags
<1>4. RouteHops /\ KickAge
    BY DEF RouteInit, RouteHops, KickAge
<1> QED
    BY <1>1, <1>2, <1>3, <1>4 DEF RouteAll

\* A change of the verdict is earned, and one that nothing earned does not happen.
Sustained ==
    /\ ~standing /\ standing' => bad_run' = EnterAfter
    /\ standing /\ ~standing' /\ ~fresh' => good_run' = RecoverAfter \/ sole'
    /\ sole' => ~standing'

\* Every step keeps them, and changes the standdown's verdict only where it is earned.
LEMMA RouteStep ==
    RouteAll /\ [RouteNext]_defaultVars => RouteAll' /\ Sustained
<1> SUFFICES ASSUME RouteAll, [RouteNext]_defaultVars PROVE RouteAll' /\ Sustained
    OBVIOUS
<1>0. RouteInv /\ StandInv /\ RouteFlags /\ RouteHops /\ KickAge
    BY DEF RouteAll
<1>1. ASSUME NEW hops \in Hops \cup {NoRoute}, NEW ok \in BOOLEAN, NEW works \in BOOLEAN,
             NEW tail \in TailsFor(hops), NEW fallback \in FallbacksFor(hops),
             RoutePass(hops, tail, fallback, ok, works)
      PROVE  RouteAll' /\ Sustained
  <2>1. tail \in Tails
      BY DEF TailsFor, Tails
  <2> DEFINE force == Forced(hops, fw_pass')
  <2>2. Install(hops, force, tail, fallback, ok, works, 1) /\ force \in BOOLEAN /\ 1 \in 0 .. 1
      BY <1>1 DEF RoutePass, Forced
  <2>3. Evaluate(hops, tail, fallback, 1)
      BY <2>2 DEF Install
  <2>4. /\ StandInv' /\ standing' \in BOOLEAN /\ sole' \in BOOLEAN /\ Sustained
      BY <1>0, <2>1, <2>2, <2>3, EvaluateSustains DEF Sustained, StandInv
  <2>5. RouteHops' /\ KickAge' /\ RouteFlags'
      BY <1>0, <2>1, <2>2, <2>4, InstallTypes DEF RouteFlags
  <2>6. /\ fresh' => memo' = NoRoute
        /\ fresh' \/ clobbered' \/ memo' = kernel'
        /\ memo' # NoRoute => refused' \/ resolver' = memo'
        /\ ok /\ kernel' # wanted' => hops # NoRoute /\ ~force
      BY <1>0, <2>1, <2>2, InstallRemembers
  <2>7. /\ fw_pass' = (IF hops = NoRoute THEN fw_pass ELSE (fw_pass + 1) % ForceEvery)
        /\ missing' = (IF kernel' = wanted' \/ ~ok THEN 0 ELSE missing + 1)
      BY <1>1 DEF RoutePass
  <2>8. /\ missing' \in Nat
        /\ fw_pass' = 0 => missing' <= ForceEvery - 1
        /\ fw_pass' # 0 => missing' <= fw_pass' - 1
    <3>1. fw_pass \in 0 .. ForceEvery - 1 /\ missing \in Nat
        BY <1>0 DEF RouteInv
    <3>2. fw_pass' \in 0 .. ForceEvery - 1
        BY <2>7, <3>1, PassCounted
    <3>3. CASE missing' = 0
        BY <3>2, <3>3, NoneMissing
    <3>4. CASE missing' # 0
      <4>1. hops # NoRoute /\ ~force /\ missing' = missing + 1
          BY <2>6, <2>7, <3>4
      <4>2. fw_pass' = (fw_pass + 1) % ForceEvery /\ fw_pass' # 1
          BY <2>7, <4>1 DEF Forced
      <4>3. CASE fw_pass + 1 = ForceEvery
        <5>1. fw_pass' = 0 /\ fw_pass # 0
            BY <3>1, <4>2, <4>3, PassCounted, RouteConstants
        <5> QED
            BY <1>0, <3>1, <3>2, <4>1, <4>3, <5>1, RouteConstants DEF RouteInv
      <4>4. CASE fw_pass + 1 # ForceEvery
        <5>1. fw_pass' = fw_pass + 1
            BY <3>1, <4>2, <4>4, PassCounted, RouteConstants
        <5>2. fw_pass # 0
            BY <4>2, <5>1
        <5> QED
            BY <1>0, <3>1, <3>2, <4>1, <5>1, <5>2, RouteConstants DEF RouteInv
      <4> QED
          BY <4>3, <4>4
    <3> QED
        BY <3>3, <3>4
  <2>9. fw_pass' \in 0 .. ForceEvery - 1
      BY <1>0, <2>7, PassCounted DEF RouteInv
  <2>10. RouteInv'
      BY <2>6, <2>8, <2>9 DEF RouteInv
  <2> QED
      BY <2>4, <2>5, <2>10 DEF RouteAll
<1>2. ASSUME NEW hops \in Hops \cup {NoRoute}, NEW ok \in BOOLEAN, NEW works \in BOOLEAN,
             NEW tail \in TailsFor(hops), NEW fallback \in FallbacksFor(hops),
             RouteEvent(hops, tail, fallback, ok, works)
      PROVE  RouteAll' /\ Sustained
  <2>1. tail \in Tails
      BY DEF TailsFor, Tails
  <2> DEFINE force == FALSE
             d == 0
  <2>2. Install(hops, force, tail, fallback, ok, works, d)
      BY <1>2, Zenon DEF RouteEvent
  <2>8. force \in BOOLEAN /\ d \in 0 .. 1
      OBVIOUS
  <2> HIDE DEF force, d
  <2>3. Evaluate(hops, tail, fallback, d)
      BY <2>2 DEF Install
  <2>4. /\ StandInv' /\ standing' \in BOOLEAN /\ sole' \in BOOLEAN /\ Sustained
      BY <1>0, <2>1, <2>2, <2>8, <2>3, EvaluateSustains DEF Sustained, StandInv
  <2>5. RouteHops' /\ KickAge' /\ RouteFlags'
      BY <1>0, <2>1, <2>2, <2>8, <2>4, InstallTypes DEF RouteFlags
  <2>6. /\ fresh' => memo' = NoRoute
        /\ fresh' \/ clobbered' \/ memo' = kernel'
        /\ memo' # NoRoute => refused' \/ resolver' = memo'
      BY <1>0, <2>1, <2>2, <2>8, InstallRemembers
  <2>7. RouteInv'
      BY <1>0, <1>2, <2>6 DEF RouteInv, RouteEvent
  <2> QED
      BY <2>4, <2>5, <2>7 DEF RouteAll
<1>3. CASE FirewallFails
  <2>1. RouteInv'
    <3>1. fw_pass' \in 0 .. ForceEvery - 1 /\ missing' = 0
        BY <1>0, <1>3, PassCounted DEF FirewallFails, RouteInv
    <3>2. UNCHANGED <<memo, kernel, resolver, fresh, clobbered, refused>>
        BY <1>3 DEF FirewallFails
    <3>3. (fw_pass' = 0 => missing' <= ForceEvery - 1) /\ (fw_pass' # 0 => missing' <= fw_pass' - 1)
        BY <3>1, NoneMissing
    <3> QED
        BY <1>0, <3>1, <3>2, <3>3 DEF RouteInv
  <2>2. StandInv'
    <3>1. UNCHANGED <<standing, sole>>
        BY <1>3 DEF FirewallFails
    <3>2. /\ bad_age' = Later(bad_age, 1, EnterAfter) /\ good_age' = Later(good_age, 1, RecoverAfter)
          /\ bad_run' = Upto(bad_run + 1, EnterAfter) /\ good_run' = Upto(good_run + 1, RecoverAfter)
        BY <1>3 DEF FirewallFails
    <3> QED
        BY <1>0, <3>1, <3>2, RouteConstants DEF StandInv, Later, Upto, Unset
  <2>3. RouteFlags' /\ RouteHops'
      BY <1>0, <1>3 DEF FirewallFails, RouteFlags, RouteHops
  <2>4. KickAge'
      BY <1>0, <1>3, RouteConstants DEF FirewallFails, KickAge, Later, Upto, Unset
  <2>5. Sustained
      BY <1>0, <1>3 DEF FirewallFails, Sustained, StandInv
  <2> QED
      BY <2>1, <2>2, <2>3, <2>4, <2>5 DEF RouteAll
<1>4. CASE Clobber
  <2>1. RouteInv'
      BY <1>0, <1>4 DEF Clobber, RouteInv
  <2>2. StandInv' /\ Sustained
      BY <1>0, <1>4 DEF Clobber, standVars, StandInv, Sustained
  <2>3. RouteFlags' /\ RouteHops' /\ KickAge'
      BY <1>0, <1>4 DEF Clobber, standVars, RouteFlags, RouteHops, KickAge
  <2> QED
      BY <2>1, <2>2, <2>3 DEF RouteAll
<1>5. CASE AgentRestart
  <2>1. RouteInv'
      BY <1>0, <1>5, RouteConstants DEF AgentRestart, RouteInv
  <2>2. StandInv' /\ Sustained
      BY <1>0, <1>5, RouteConstants DEF AgentRestart, StandInv, Sustained, Unset
  <2>3. RouteFlags' /\ RouteHops' /\ KickAge'
      BY <1>0, <1>5 DEF AgentRestart, RouteFlags, RouteHops, KickAge
  <2> QED
      BY <2>1, <2>2, <2>3 DEF RouteAll
<1>6. CASE UNCHANGED defaultVars
  <2>1. RouteInv'
      BY <1>0, <1>6 DEF defaultVars, routeVars, RouteInv
  <2>2. StandInv' /\ Sustained
      BY <1>0, <1>6 DEF defaultVars, standVars, StandInv, Sustained
  <2>3. RouteFlags' /\ RouteHops' /\ KickAge'
      BY <1>0, <1>6 DEF defaultVars, routeVars, standVars, RouteFlags, RouteHops, KickAge
  <2> QED
      BY <2>1, <2>2, <2>3 DEF RouteAll
<1> QED
    BY <1>1, <1>2, <1>3, <1>4, <1>5, <1>6 DEF RouteNext

\* They give what the run checks of the default route.
LEMMA RouteAllImplies == RouteAll => RememberedRoute /\ ClobberHeals /\ RouteTypeOK
<1> SUFFICES ASSUME RouteAll PROVE RememberedRoute /\ ClobberHeals /\ RouteTypeOK
    OBVIOUS
<1>1. RememberedRoute
    BY DEF RouteAll, RouteInv, RememberedRoute
<1>2. ClobberHeals
    BY RouteConstants DEF RouteAll, RouteInv, ClobberHeals
<1>3. RouteTypeOK
    BY DEF RouteAll, RouteInv, StandInv, RouteFlags, RouteHops, KickAge, RouteTypeOK
<1> QED
    BY <1>1, <1>2, <1>3

-----------------------------------------------------------------------------
\* The gate that earns it.

Payloads == [age : 0 .. ProveWindow + 1, bulk : BOOLEAN]
Samples == [age : Nat, n : Nat, bulk : Nat]

\* The bulk payloads among the first n of h.
BulkUpto(h, n) == {i \in 1 .. n : h[i].bulk}

\* A sample counts what was handed up before it, and what came later is no older.
SampleSound(h, x) ==
    /\ x.n \in 0 .. Len(h) /\ x.bulk = Cardinality(BulkUpto(h, x.n))
    /\ \A i \in 1 .. Len(h) : i > x.n => h[i].age <= x.age

AllSound(h, s) == \A j \in 1 .. Len(s) : SampleSound(h, s[j])

\* g holds the payloads of h, each older by d.
HandedAged(h, d) == [i \in DOMAIN h |-> [h[i] EXCEPT !.age = Aged(@, d)]]
SameKind(h, g) == Len(g) = Len(h) /\ \A i \in 1 .. Len(h) : g[i].bulk = h[i].bulk
OlderBy(h, g, d) ==
    \A i \in 1 .. Len(h) : /\ g[i].age = Aged(h[i].age, d)
                           /\ h[i].age \in 0 .. ProveWindow + 1

ProveInv ==
    /\ handed \in Seq(Payloads) /\ Len(handed) = delivered /\ delivered <= MaxDelivered
    /\ bulk = Cardinality(BulkUpto(handed, delivered))
    /\ samples \in Seq(Samples)
    /\ AllSound(handed, samples)

ProveMisc ==
    /\ delivered_seen \in 0 .. MaxDelivered
    /\ quiet \in {Never} \cup 0 .. DeliverStale /\ delivering \in BOOLEAN

\* What the constants of the gate are.
LEMMA ProveConstants ==
    /\ ProveWindow \in Nat /\ DeliverStale \in Nat /\ MaxDelivered \in Nat
    /\ MinPayloads \in Nat /\ MinBulk \in Nat
BY ProveAssumption

\* The bulk payloads among the first ones are finitely many, and no more than those.
LEMMA BulkCounted ==
    ASSUME NEW h, NEW n \in Nat
    PROVE  /\ IsFiniteSet(BulkUpto(h, n)) /\ Cardinality(BulkUpto(h, n)) \in Nat
           /\ Cardinality(BulkUpto(h, n)) <= n
<1>1. IsFiniteSet(1 .. n) /\ Cardinality(1 .. n) = n
    BY FS_Interval
<1>2. BulkUpto(h, n) \subseteq 1 .. n
    BY DEF BulkUpto
<1> QED
    BY <1>1, <1>2, FS_Subset, FS_CardinalityType

\* A union has no more members than its parts together.
LEMMA UnionCounted ==
    ASSUME NEW P, NEW Q, IsFiniteSet(P), IsFiniteSet(Q)
    PROVE  /\ IsFiniteSet(P \cup Q) /\ Cardinality(P \cup Q) \in Nat
           /\ Cardinality(P) \in Nat /\ Cardinality(Q) \in Nat
           /\ Cardinality(P \cup Q) <= Cardinality(P) + Cardinality(Q)
<1>1. /\ IsFiniteSet(P \cup Q)
      /\ Cardinality(P \cup Q) = Cardinality(P) + Cardinality(Q) - Cardinality(P \cap Q)
    BY FS_Union
<1>2. IsFiniteSet(P \cap Q)
    BY FS_Intersection
<1>3. /\ Cardinality(P \cup Q) \in Nat /\ Cardinality(P) \in Nat /\ Cardinality(Q) \in Nat
      /\ Cardinality(P \cap Q) \in Nat
    BY <1>1, <1>2, FS_CardinalityType
<1> QED
    BY <1>1, <1>3

\* What appending gives.
LEMMA Appended ==
    ASSUME NEW S, NEW s \in Seq(S), NEW e \in S
    PROVE  /\ Append(s, e) \in Seq(S) /\ Len(Append(s, e)) = Len(s) + 1 /\ Len(s) \in Nat
           /\ \A i \in 1 .. Len(s) : Append(s, e)[i] = s[i] /\ s[i] \in S
           /\ Append(s, e)[Len(s) + 1] = e
BY AppendProperties, LenProperties, ElementOfSeq

\* A longer prefix has no fewer bulk payloads.
LEMMA BulkMonotone ==
    ASSUME NEW h, NEW m \in Nat, NEW n \in Nat, m <= n
    PROVE  Cardinality(BulkUpto(h, m)) <= Cardinality(BulkUpto(h, n))
<1>1. BulkUpto(h, m) \subseteq BulkUpto(h, n)
    BY DEF BulkUpto
<1> QED
    BY <1>1, BulkCounted, FS_Subset

\* A record grown older.
LEMMA PayloadAged ==
    ASSUME NEW r \in Payloads, NEW d \in 1 .. 2
    PROVE  /\ [r EXCEPT !.age = Aged(@, d)] \in Payloads
           /\ [r EXCEPT !.age = Aged(@, d)].age = Aged(r.age, d)
           /\ [r EXCEPT !.age = Aged(@, d)].bulk = r.bulk
           /\ r.age \in 0 .. ProveWindow + 1
<1>1. r.age \in 0 .. ProveWindow + 1
    BY DEF Payloads
<1>2. Aged(r.age, d) \in 0 .. ProveWindow + 1
    BY <1>1, ProveConstants DEF Aged
<1> QED
    BY <1>1, <1>2 DEF Payloads

\* A sample grown older counts what it counted.
LEMMA SampleOlder ==
    ASSUME NEW r \in Samples, NEW d \in 1 .. 2
    PROVE  /\ [r EXCEPT !.age = @ + d] \in Samples
           /\ [r EXCEPT !.age = @ + d].age = r.age + d
           /\ [r EXCEPT !.age = @ + d].n = r.n
           /\ [r EXCEPT !.age = @ + d].bulk = r.bulk
           /\ r.age \in Nat /\ r.n \in Nat /\ r.bulk \in Nat
<1>1. r.age \in Nat /\ r.age + d \in Nat
    BY DEF Samples
<1> QED
    BY <1>1 DEF Samples

\* A payload that was no older than a sample is not after both have aged.
LEMMA AgedApart ==
    ASSUME NEW a \in 0 .. ProveWindow + 1, NEW b \in Nat, NEW d \in 1 .. 2, a <= b
    PROVE  Aged(a, d) <= b + d
BY ProveConstants DEF Aged

\* A function on 1 .. n is a sequence of that length.
LEMMA SeqByElements ==
    ASSUME NEW S, NEW n \in Nat, NEW s \in [1 .. n -> S]
    PROVE  s \in Seq(S) /\ Len(s) = n /\ DOMAIN s = 1 .. n
<1>1. s \in Seq(S)
    BY IsASeq
<1> QED
    BY <1>1, LenProperties

\* The payloads grown older by d are the same payloads.
LEMMA HandedAgedKeeps ==
    ASSUME NEW h \in Seq(Payloads), NEW d \in 1 .. 2
    PROVE  /\ HandedAged(h, d) \in Seq(Payloads) /\ SameKind(h, HandedAged(h, d))
           /\ OlderBy(h, HandedAged(h, d), d)
<1> DEFINE g == HandedAged(h, d)
<1>1. Len(h) \in Nat /\ DOMAIN h = 1 .. Len(h)
    BY LenProperties
<1>2. g = [i \in 1 .. Len(h) |-> [h[i] EXCEPT !.age = Aged(@, d)]]
    BY <1>1 DEF HandedAged
<1> HIDE DEF g
<1>3. ASSUME NEW i \in 1 .. Len(h)
      PROVE  /\ g[i] \in Payloads /\ g[i].bulk = h[i].bulk /\ g[i].age = Aged(h[i].age, d)
             /\ h[i].age \in 0 .. ProveWindow + 1
  <2>1. h[i] \in Payloads
      BY ElementOfSeq
  <2>2. g[i] = [h[i] EXCEPT !.age = Aged(@, d)]
      BY <1>2
  <2> QED
      BY <2>1, <2>2, PayloadAged
<1>4. g \in [1 .. Len(h) -> Payloads]
  <2>1. g = [i \in 1 .. Len(h) |-> g[i]]
      BY <1>2
  <2> QED
      BY <1>3, <2>1
<1>5. g \in Seq(Payloads) /\ Len(g) = Len(h)
    BY <1>1, <1>4, SeqByElements
<1>6. SameKind(h, g)
    BY <1>3, <1>5 DEF SameKind
<1>7. OlderBy(h, g, d)
    BY <1>3 DEF OlderBy
<1> QED
    BY <1>5, <1>6, <1>7 DEF g

\* The samples of s, each older by d.
LEMMA SamplesAged ==
    ASSUME NEW s \in Seq(Samples), NEW d \in 1 .. 2
    PROVE  /\ SampleAged(s, d) \in Seq(Samples) /\ Len(SampleAged(s, d)) = Len(s)
           /\ \A j \in 1 .. Len(s) : SampleAged(s, d)[j] = [s[j] EXCEPT !.age = @ + d]
<1> DEFINE t == SampleAged(s, d)
<1>1. Len(s) \in Nat /\ DOMAIN s = 1 .. Len(s)
    BY LenProperties
<1>2. t = [i \in 1 .. Len(s) |-> [s[i] EXCEPT !.age = @ + d]]
    BY <1>1 DEF SampleAged
<1> HIDE DEF t
<1>3. ASSUME NEW i \in 1 .. Len(s)
      PROVE  t[i] \in Samples /\ t[i] = [s[i] EXCEPT !.age = @ + d]
  <2>1. s[i] \in Samples
      BY ElementOfSeq
  <2>2. t[i] = [s[i] EXCEPT !.age = @ + d]
      BY <1>2
  <2> QED
      BY <2>1, <2>2, SampleOlder
<1>4. t \in [1 .. Len(s) -> Samples]
  <2>1. t = [i \in 1 .. Len(s) |-> t[i]]
      BY <1>2
  <2> QED
      BY <1>3, <2>1
<1>5. t \in Seq(Samples) /\ Len(t) = Len(s)
    BY <1>1, <1>4, SeqByElements
<1>6. \A j \in 1 .. Len(s) : t[j] = [s[j] EXCEPT !.age = @ + d]
    BY <1>3
<1> QED
    BY <1>5, <1>6 DEF t

\* Payloads that kept their kind count the same.
LEMMA BulkSame ==
    ASSUME NEW h, NEW g, SameKind(h, g), Len(h) \in Nat, NEW n \in 0 .. Len(h)
    PROVE  BulkUpto(g, n) = BulkUpto(h, n)
BY DEF BulkUpto, SameKind

\* A sample stays sound when it and the payloads grow older together.
LEMMA SoundAged ==
    ASSUME NEW h \in Seq(Payloads), NEW g \in Seq(Payloads), NEW d \in 1 .. 2,
           NEW x \in Samples, NEW y,
           SampleSound(h, x), SameKind(h, g), OlderBy(h, g, d), y = [x EXCEPT !.age = @ + d]
    PROVE  SampleSound(g, y)
<1>1. y.age = x.age + d /\ y.n = x.n /\ y.bulk = x.bulk /\ x.age \in Nat
    BY SampleOlder
<1>2. /\ x.n \in 0 .. Len(h) /\ x.bulk = Cardinality(BulkUpto(h, x.n)) /\ Len(h) \in Nat
      /\ Len(g) = Len(h)
    BY LenProperties DEF SampleSound, SameKind
<1>3. BulkUpto(g, x.n) = BulkUpto(h, x.n)
    BY <1>2, BulkSame
<1>4. ASSUME NEW i \in 1 .. Len(g), i > y.n
      PROVE  g[i].age <= y.age
  <2>1. h[i].age <= x.age
      BY <1>1, <1>2, <1>4 DEF SampleSound
  <2>2. h[i].age \in 0 .. ProveWindow + 1 /\ g[i].age = Aged(h[i].age, d)
      BY <1>2 DEF OlderBy
  <2>3. Aged(h[i].age, d) <= x.age + d
      BY <1>1, <2>1, <2>2, AgedApart
  <2> QED
      BY <1>1, <2>2, <2>3
<1> QED
    BY <1>1, <1>2, <1>3, <1>4 DEF SampleSound

\* No payload of L, those within the window, is older than the window.
LEMMA LaterIsLately ==
    ASSUME NEW g \in Seq(Payloads), NEW x \in Samples, SampleSound(g, x), x.age <= ProveWindow,
           NEW i \in x.n + 1 .. Len(g)
    PROVE  i \in 1 .. Len(g) /\ g[i].age <= ProveWindow
<1>1. x.n \in 0 .. Len(g) /\ x.age \in Nat /\ Len(g) \in Nat
    BY LenProperties DEF SampleSound, Samples
<1>2. i \in 1 .. Len(g) /\ i > x.n
    BY <1>1
<1>3. g[i].age <= x.age
    BY <1>2 DEF SampleSound
<1>4. g[i] \in Payloads
    BY <1>2, ElementOfSeq
<1>5. g[i].age \in Int
    BY <1>4, ProveConstants DEF Payloads
<1> QED
    BY <1>1, <1>2, <1>3, <1>5, ProveConstants

\* What a sound sample within the window counts was handed up within the window.
LEMMA CountedLately ==
    ASSUME NEW g \in Seq(Payloads), NEW x \in Samples, SampleSound(g, x), x.age <= ProveWindow,
           NEW L, L = {i \in DOMAIN g : g[i].age <= ProveWindow},
           NEW B, B = {i \in L : g[i].bulk}
    PROVE  /\ Cardinality(L) >= Len(g) - x.n /\ Cardinality(L) \in Nat
           /\ Cardinality(B) >= Cardinality(BulkUpto(g, Len(g))) - x.bulk /\ Cardinality(B) \in Nat
<1>1. Len(g) \in Nat /\ DOMAIN g = 1 .. Len(g)
    BY LenProperties
<1>2. x.n \in 0 .. Len(g) /\ x.bulk = Cardinality(BulkUpto(g, x.n)) /\ x.age \in Nat
    BY DEF SampleSound, Samples
<1>3. x.n + 1 .. Len(g) \subseteq L
  <2>1. ASSUME NEW i \in x.n + 1 .. Len(g) PROVE i \in L
      BY <1>1, LaterIsLately
  <2> QED
      BY <2>1
<1>4. IsFiniteSet(L) /\ Cardinality(L) \in Nat
  <2>1. IsFiniteSet(1 .. Len(g)) /\ L \subseteq 1 .. Len(g)
      BY <1>1, FS_Interval
  <2> QED
      BY <2>1, FS_Subset, FS_CardinalityType
<1>5. Cardinality(L) >= Len(g) - x.n
  <2>1. Cardinality(x.n + 1 .. Len(g)) = Len(g) - x.n
    <3>1. PICK a \in Int, b \in Int : a = x.n + 1 /\ b = Len(g) /\ a <= b + 1
      <4>1. x.n \in Nat /\ Len(g) \in Nat /\ x.n <= Len(g)
          BY <1>1, <1>2
      <4>2. x.n + 1 \in Int /\ Len(g) \in Int /\ x.n + 1 <= Len(g) + 1
          BY <4>1
      <4> QED
          BY <4>2
    <3>2. Cardinality(a .. b) = IF a > b THEN 0 ELSE b - a + 1
        BY FS_Interval
    <3>3. Cardinality(a .. b) = b - a + 1
        BY <3>1, <3>2
    <3>4. b - a + 1 = Len(g) - x.n
        BY <1>1, <1>2, <3>1
    <3> QED
        BY <3>1, <3>3, <3>4
  <2>2. Cardinality(x.n + 1 .. Len(g)) <= Cardinality(L)
      BY <1>3, <1>4, FS_Subset
  <2> QED
      BY <2>1, <2>2, <1>4
<1>6. IsFiniteSet(B) /\ Cardinality(B) \in Nat
    BY <1>4, FS_Subset, FS_CardinalityType
<1>7. BulkUpto(g, Len(g)) \subseteq BulkUpto(g, x.n) \cup B
    BY <1>1, <1>2, <1>3 DEF BulkUpto
<1>8. IsFiniteSet(BulkUpto(g, x.n)) /\ x.bulk \in Nat
    BY <1>2, BulkCounted
<1>9. /\ IsFiniteSet(BulkUpto(g, x.n) \cup B)
      /\ Cardinality(BulkUpto(g, x.n) \cup B) <= Cardinality(BulkUpto(g, x.n)) + Cardinality(B)
      /\ Cardinality(BulkUpto(g, x.n) \cup B) \in Nat
    BY <1>6, <1>8, UnionCounted
<1>10. Cardinality(BulkUpto(g, Len(g))) <= Cardinality(BulkUpto(g, x.n) \cup B)
    BY <1>7, <1>9, FS_Subset
<1>11. Cardinality(BulkUpto(g, Len(g))) \in Nat
    BY <1>1, BulkCounted
<1>12. Cardinality(B) >= Cardinality(BulkUpto(g, Len(g))) - x.bulk
    BY <1>2, <1>6, <1>8, <1>9, <1>10, <1>11
<1> QED
    BY <1>4, <1>5, <1>6, <1>12

\* The gate's invariant holds at first.
LEMMA ProveInitInv == ProveInit => ProveInv /\ ProveMisc
<1> SUFFICES ASSUME ProveInit PROVE ProveInv /\ ProveMisc
    OBVIOUS
<1>1. BulkUpto(handed, 0) = {} /\ Len(handed) = 0 /\ Len(samples) = 0
    BY DEF ProveInit, BulkUpto
<1>2. handed \in Seq(Payloads) /\ samples \in Seq(Samples)
    BY EmptySeq DEF ProveInit
<1>3. Cardinality(BulkUpto(handed, 0)) = 0
    BY <1>1, FS_EmptySet
<1>4. ProveInv
    BY <1>1, <1>2, <1>3, ProveConstants DEF ProveInit, ProveInv, AllSound
<1>5. ProveMisc
  <2>1. delivered_seen \in 0 .. MaxDelivered /\ quiet \in {Never} \cup 0 .. DeliverStale
      BY ProveConstants DEF ProveInit
  <2>2. delivering \in BOOLEAN
      BY DEF ProveInit
  <2> QED
      BY <2>1, <2>2 DEF ProveMisc
<1> QED
    BY <1>4, <1>5

\* The samples the gate looks at: the old ones grown older, the one just taken at the end.
LEMMA TakenSound ==
    ASSUME NEW h \in Seq(Payloads), NEW g \in Seq(Payloads), NEW d \in 1 .. 2,
           NEW s \in Seq(Samples), NEW b \in Nat, NEW r \in BOOLEAN,
           SameKind(h, g), OlderBy(h, g, d), AllSound(h, s), b = Cardinality(BulkUpto(g, Len(g)))
    PROVE  LET t == Append(IF r THEN <<>> ELSE SampleAged(s, d), Sample(Len(g), b))
           IN  t \in Seq(Samples) /\ Len(t) \in Nat \ {0} /\ AllSound(g, t)
<1> DEFINE aged == IF r THEN <<>> ELSE SampleAged(s, d)
           last == Sample(Len(g), b)
<1>1. aged \in Seq(Samples) /\ \A j \in 1 .. Len(aged) : SampleSound(g, aged[j])
  <2>1. CASE r
      BY <2>1, EmptySeq
  <2>2. CASE ~r
    <3>1. aged \in Seq(Samples) /\ Len(aged) = Len(s)
        BY <2>2, SamplesAged
    <3>2. ASSUME NEW j \in 1 .. Len(s) PROVE SampleSound(g, aged[j])
      <4>1. s[j] \in Samples /\ SampleSound(h, s[j])
          BY ElementOfSeq DEF AllSound
      <4>2. aged[j] = [s[j] EXCEPT !.age = @ + d]
          BY <2>2, SamplesAged
      <4> HIDE DEF aged
      <4> QED
          BY <4>1, <4>2, SoundAged
    <3> QED
        BY <3>1, <3>2
  <2> QED
      BY <2>1, <2>2
<1> HIDE DEF aged
<1>2. last \in Samples /\ SampleSound(g, last)
  <2>1. Len(g) \in Nat
      BY LenProperties
  <2>2. last.n = Len(g) /\ last.bulk = b
      BY DEF Sample
  <2>3. last \in Samples
      BY <2>1 DEF Sample, Samples
  <2> QED
      BY <2>1, <2>2, <2>3 DEF SampleSound
<1> HIDE DEF last
<1> DEFINE t == Append(aged, last)
<1>3. aged \in Seq(Samples) /\ last \in Samples
    BY <1>1, <1>2
<1>4. /\ t \in Seq(Samples) /\ Len(t) = Len(aged) + 1 /\ Len(aged) \in Nat
      /\ \A j \in 1 .. Len(aged) : t[j] = aged[j]
      /\ t[Len(aged) + 1] = last
    BY <1>3, Appended
<1> HIDE DEF t
<1>5. ASSUME NEW j \in 1 .. Len(t) PROVE SampleSound(g, t[j])
  <2>1. CASE j = Len(aged) + 1
      BY <1>2, <1>4, <2>1
  <2>2. CASE j # Len(aged) + 1
    <3>1. j \in 1 .. Len(aged)
        BY <1>4, <2>2
    <3> QED
        BY <1>1, <1>4, <3>1
  <2> QED
      BY <2>1, <2>2
<1>6. t \in Seq(Samples) /\ Len(t) \in Nat \ {0} /\ AllSound(g, t)
    BY <1>4, <1>5 DEF AllSound
<1> QED
    BY <1>6 DEF t, aged, last

\* How long it is quiet stays in its range.
LEMMA QuietInRange ==
    ASSUME NEW q \in {Never} \cup 0 .. DeliverStale, NEW d \in 1 .. 2, NEW a \in BOOLEAN,
           NEW b \in BOOLEAN
    PROVE  (IF a THEN 0
            ELSE IF q = Never \/ b THEN Never
            ELSE IF q + d > DeliverStale THEN DeliverStale ELSE q + d)
             \in {Never} \cup 0 .. DeliverStale
BY ProveConstants DEF Never

\* A read of the gate keeps it, and opens the gate on payloads of the window only.
LEMMA ReadKeeps ==
    ASSUME ProveInv, ProveMisc, NEW d \in 1 .. 2, ReadGate(d)
    PROVE  /\ ProveInv' /\ ProveMisc'
           /\ delivering' => /\ Cardinality(Lately') >= MinPayloads
                             /\ Cardinality({i \in Lately' : handed'[i].bulk}) >= MinBulk
<1> DEFINE r == Rewound
           taken == Append(IF r THEN <<>> ELSE SampleAged(samples, d), Sample(delivered, bulk))
           g == HandedAged(handed, d)
           s == samples'
<1>1. PICK old \in 0 .. Len(taken) - 1 :
          Trims(taken, old) /\ s = SubSeq(taken, old + 1, Len(taken))
    BY DEF ReadGate
<1>2. /\ handed' = g /\ delivered' = delivered /\ bulk' = bulk /\ delivered_seen' = delivered
    BY DEF ReadGate, HandedAged
<1>3. /\ handed \in Seq(Payloads) /\ samples \in Seq(Samples) /\ delivered \in Nat
      /\ Len(handed) = delivered /\ delivered <= MaxDelivered
      /\ AllSound(handed, samples)
    BY LenProperties DEF ProveInv
<1>4. bulk \in Nat /\ bulk = Cardinality(BulkUpto(handed, delivered))
    BY <1>3, BulkCounted DEF ProveInv
<1>5. g \in Seq(Payloads) /\ SameKind(handed, g) /\ OlderBy(handed, g, d)
    BY <1>3, HandedAgedKeeps
<1>6. r \in BOOLEAN
    BY DEF Rewound
<1> HIDE DEF g, r
<1>7. Len(g) = delivered
    BY <1>3, <1>5 DEF SameKind
<1>8. bulk = Cardinality(BulkUpto(g, Len(g)))
  <2>1. BulkUpto(g, delivered) = BulkUpto(handed, delivered)
      BY <1>3, <1>5, BulkSame
  <2> QED
      BY <1>4, <1>7, <2>1
<1>9. taken \in Seq(Samples) /\ Len(taken) \in Nat \ {0} /\ AllSound(g, taken)
  <2>1. LET t == Append(IF r THEN <<>> ELSE SampleAged(samples, d), Sample(Len(g), bulk))
        IN  t \in Seq(Samples) /\ Len(t) \in Nat \ {0} /\ AllSound(g, t)
      BY <1>3, <1>4, <1>5, <1>6, <1>8, TakenSound
  <2> QED
      BY <1>7, <2>1
<1> HIDE DEF taken, s
<1>10. /\ s \in Seq(Samples) /\ Len(s) = Len(taken) - old
       /\ \A j \in 1 .. Len(taken) - old : s[j] = taken[j + old]
  <2>1. old + 1 \in 1 .. Len(taken) + 1 /\ Len(taken) \in 0 .. Len(taken)
      BY <1>1, <1>9
  <2> QED
      BY <1>1, <1>9, <2>1, SubSeqProperties
<1>11. AllSound(g, s)
    BY <1>1, <1>9, <1>10 DEF AllSound
<1>12. ProveInv'
    BY <1>2, <1>3, <1>5, <1>7, <1>8, <1>10, <1>11 DEF ProveInv, s
<1>13. ProveMisc'
  <2>1. delivered_seen' \in 0 .. MaxDelivered
      BY <1>2, <1>3, ProveConstants
  <2>2. quiet' \in {Never} \cup 0 .. DeliverStale
    <3> DEFINE a == delivered > delivered_seen
    <3>1. quiet' = IF a THEN 0
                   ELSE IF quiet = Never \/ r THEN Never
                   ELSE IF quiet + d > DeliverStale THEN DeliverStale ELSE quiet + d
        BY DEF ReadGate, r
    <3>2. a \in BOOLEAN /\ quiet \in {Never} \cup 0 .. DeliverStale
        BY DEF ProveMisc
    <3> HIDE DEF a
    <3> QED
        BY <1>6, <3>1, <3>2, QuietInRange
  <2>3. delivering' \in BOOLEAN
      BY DEF ReadGate
  <2> QED
      BY <2>1, <2>2, <2>3 DEF ProveMisc
\* What the gate counts since its oldest sample is within the window.
<1>14. ASSUME delivering'
       PROVE  /\ Cardinality(Lately') >= MinPayloads
              /\ Cardinality({i \in Lately' : handed'[i].bulk}) >= MinBulk
  <2>1. delivered - s[1].n >= MinPayloads /\ bulk - s[1].bulk >= MinBulk
      BY <1>14 DEF ReadGate, s
  <2>2. /\ s[1] \in Samples /\ SampleSound(g, s[1])
    <3>1. 1 \in 1 .. Len(s)
        BY <1>1, <1>9, <1>10
    <3> QED
        BY <1>10, <1>11, <3>1, ElementOfSeq DEF AllSound
  <2>3. s[1].age <= ProveWindow
    <3>1. s[1] = taken[old + 1]
        BY <1>1, <1>9, <1>10
    <3> QED
        BY <1>1, <3>1 DEF Trims
  <2> DEFINE L == Lately'
             B == {i \in Lately' : handed'[i].bulk}
  <2>4. L = {i \in DOMAIN g : g[i].age <= ProveWindow}
      BY <1>2 DEF Lately
  <2>5. B = {i \in L : g[i].bulk}
      BY <1>2
  <2> HIDE DEF L, B
  <2>6. /\ Cardinality(L) >= Len(g) - s[1].n /\ Cardinality(L) \in Nat
        /\ Cardinality(B) >= Cardinality(BulkUpto(g, Len(g))) - s[1].bulk /\ Cardinality(B) \in Nat
      BY <1>5, <2>2, <2>3, <2>4, <2>5, CountedLately
  <2>7. s[1].n \in Nat /\ s[1].bulk \in Nat
      BY <2>2 DEF Samples
  <2>8. Cardinality(L) >= delivered - s[1].n /\ Cardinality(B) >= bulk - s[1].bulk
      BY <1>7, <1>8, <2>6
  <2>9. Cardinality(L) >= MinPayloads
      BY <1>3, <2>1, <2>6, <2>7, <2>8, ProveConstants
  <2>10. Cardinality(B) >= MinBulk
      BY <1>4, <2>1, <2>6, <2>7, <2>8, ProveConstants
  <2> QED
      BY <2>9, <2>10 DEF L, B
<1> QED
    BY <1>12, <1>13, <1>14

\* A payload handed up is the youngest of them.
LEMMA SoundAppended ==
    ASSUME NEW h \in Seq(Payloads), NEW p \in Payloads, NEW x \in Samples, SampleSound(h, x),
           p.age = 0
    PROVE  SampleSound(Append(h, p), x)
<1> DEFINE g == Append(h, p)
<1>1. /\ g \in Seq(Payloads) /\ Len(g) = Len(h) + 1 /\ Len(h) \in Nat
      /\ \A i \in 1 .. Len(h) : g[i] = h[i]
      /\ g[Len(h) + 1] = p
    BY Appended
<1> HIDE DEF g
<1>2. x.n \in 0 .. Len(h) /\ x.bulk = Cardinality(BulkUpto(h, x.n)) /\ x.age \in Nat
    BY DEF SampleSound, Samples
<1>3. BulkUpto(g, x.n) = BulkUpto(h, x.n)
    BY <1>1, <1>2 DEF BulkUpto
<1>4. ASSUME NEW i \in 1 .. Len(g), i > x.n PROVE g[i].age <= x.age
  <2>1. CASE i = Len(h) + 1
      BY <1>1, <1>2, <2>1
  <2>2. CASE i # Len(h) + 1
    <3>1. i \in 1 .. Len(h)
        BY <1>1, <2>2
    <3> QED
        BY <1>1, <1>4, <3>1 DEF SampleSound
  <2> QED
      BY <2>1, <2>2
<1>5. SampleSound(g, x)
    BY <1>1, <1>2, <1>3, <1>4 DEF SampleSound
<1> QED
    BY <1>5 DEF g

\* One more payload counts when it is bulk.
LEMMA BulkAdded ==
    ASSUME NEW h, NEW g, NEW n \in Nat, \A i \in 1 .. n : g[i] = h[i], g[n + 1].bulk \in BOOLEAN
    PROVE  Cardinality(BulkUpto(g, n + 1))
             = Cardinality(BulkUpto(h, n)) + (IF g[n + 1].bulk THEN 1 ELSE 0)
<1>1. BulkUpto(g, n) = BulkUpto(h, n)
    BY DEF BulkUpto
<1>2. IsFiniteSet(BulkUpto(h, n)) /\ Cardinality(BulkUpto(h, n)) \in Nat
    BY BulkCounted
<1>3. CASE g[n + 1].bulk
  <2>1. BulkUpto(g, n + 1) = BulkUpto(g, n) \cup {n + 1}
      BY <1>3 DEF BulkUpto
  <2>2. n + 1 \notin BulkUpto(g, n)
      BY DEF BulkUpto
  <2>3. Cardinality(BulkUpto(g, n) \cup {n + 1}) = Cardinality(BulkUpto(g, n)) + 1
      BY <1>1, <1>2, <2>2, FS_AddElement
  <2> QED
      BY <1>1, <1>3, <2>1, <2>3
<1>4. CASE ~g[n + 1].bulk
  <2>1. BulkUpto(g, n + 1) = BulkUpto(g, n)
      BY <1>4 DEF BulkUpto
  <2> QED
      BY <1>1, <1>2, <1>4, <2>1
<1> QED
    BY <1>3, <1>4

\* A delivery keeps it.
LEMMA DeliverKeeps ==
    ASSUME ProveInv, ProveMisc, NEW isBulk \in BOOLEAN, Deliver(isBulk)
    PROVE  ProveInv' /\ ProveMisc' /\ delivering' = delivering
<1> DEFINE p == [age |-> 0, bulk |-> isBulk]
           g == Append(handed, p)
           k == delivered + 1
           b == IF isBulk THEN bulk + 1 ELSE bulk
<1>1. p \in Payloads
    BY ProveConstants DEF Payloads
<1>2. p.age = 0 /\ p.bulk = isBulk
    OBVIOUS
<1>3. /\ handed' = g /\ delivered' = k /\ bulk' = b /\ samples' = samples
      /\ delivered_seen' = delivered_seen /\ quiet' = quiet /\ delivering' = delivering
    BY DEF Deliver
<1> HIDE DEF p
<1>4. /\ handed \in Seq(Payloads) /\ samples \in Seq(Samples) /\ delivered \in Nat
      /\ Len(handed) = delivered /\ AllSound(handed, samples)
      /\ bulk = Cardinality(BulkUpto(handed, delivered))
    BY LenProperties DEF ProveInv
<1>5. k \in Nat /\ k <= MaxDelivered
    BY <1>4, ProveConstants DEF Deliver
<1>6. /\ g \in Seq(Payloads) /\ Len(g) = k
      /\ \A i \in 1 .. delivered : g[i] = handed[i]
      /\ g[k] = p
  <2>1. /\ g \in Seq(Payloads) /\ Len(g) = Len(handed) + 1
        /\ \A i \in 1 .. Len(handed) : g[i] = handed[i]
        /\ g[Len(handed) + 1] = p
      BY <1>1, <1>4, Appended
  <2> QED
      BY <1>4, <2>1
<1>7. AllSound(g, samples)
  <2>1. ASSUME NEW j \in 1 .. Len(samples) PROVE SampleSound(g, samples[j])
    <3>1. samples[j] \in Samples /\ SampleSound(handed, samples[j])
        BY <1>4, ElementOfSeq DEF AllSound
    <3> QED
        BY <1>1, <1>2, <1>4, <3>1, SoundAppended
  <2> QED
      BY <2>1 DEF AllSound
<1> HIDE DEF g
<1>8. b = Cardinality(BulkUpto(g, k))
  <2>1. Cardinality(BulkUpto(g, k))
          = Cardinality(BulkUpto(handed, delivered)) + (IF g[k].bulk THEN 1 ELSE 0)
      BY <1>2, <1>4, <1>6, BulkAdded
  <2>2. g[k].bulk = isBulk
      BY <1>2, <1>6
  <2>3. bulk \in Nat
      BY <1>4, BulkCounted
  <2> QED
      BY <1>4, <2>1, <2>2, <2>3
<1> HIDE DEF k, b
<1>9. ProveInv'
    BY <1>3, <1>4, <1>5, <1>6, <1>7, <1>8 DEF ProveInv
<1>10. ProveMisc'
    BY <1>3 DEF ProveMisc
<1> QED
    BY <1>3, <1>9, <1>10

\* A restart of the agent keeps it.
LEMMA ProverRestartKeeps ==
    ASSUME ProverRestart PROVE ProveInv' /\ ProveMisc' /\ ~delivering'
<1>1. BulkUpto(handed', 0) = {} /\ Len(handed') = 0 /\ Len(samples') = 0
    BY DEF ProverRestart, BulkUpto
<1>2. handed' \in Seq(Payloads) /\ samples' \in Seq(Samples)
    BY EmptySeq DEF ProverRestart
<1>3. Cardinality(BulkUpto(handed', 0)) = 0
    BY <1>1, FS_EmptySet
<1>4. delivered' = 0 /\ bulk' = 0
    BY DEF ProverRestart
<1>5. ProveInv'
    BY <1>1, <1>2, <1>3, <1>4, ProveConstants DEF ProveInv, AllSound
<1>6. delivered_seen' \in 0 .. MaxDelivered /\ quiet' \in {Never} \cup 0 .. DeliverStale
    BY ProveConstants DEF ProverRestart
<1>7. delivering' \in BOOLEAN /\ ~delivering'
    BY DEF ProverRestart
<1> QED
    BY <1>5, <1>6, <1>7 DEF ProveMisc

\* What RouteIsEarned says of a step.
Earned ==
    delivering' /\ ~delivering =>
        /\ Cardinality(Lately') >= MinPayloads
        /\ Cardinality({i \in Lately' : handed'[i].bulk}) >= MinBulk

\* Every step of the gate keeps its invariant and opens the gate only where it is earned.
LEMMA ProveStep ==
    ASSUME ProveInv, ProveMisc, [ProveNext]_proveVars PROVE ProveInv' /\ ProveMisc' /\ Earned
<1>1. CASE \E d \in 1 .. 2 : ReadGate(d)
    BY <1>1, ReadKeeps DEF Earned
<1>2. CASE \E isBulk \in BOOLEAN : Deliver(isBulk)
  <2>1. PICK isBulk \in BOOLEAN : Deliver(isBulk)
      BY <1>2
  <2>2. ProveInv' /\ ProveMisc' /\ delivering' = delivering
      BY <2>1, DeliverKeeps
  <2> QED
      BY <2>2 DEF Earned
<1>3. CASE ProverRestart
    BY <1>3, ProverRestartKeeps DEF Earned
<1>4. CASE UNCHANGED proveVars
  <2>1. ProveInv' /\ ProveMisc'
      BY <1>4 DEF proveVars, ProveInv, ProveMisc
  <2>2. delivering' = delivering
      BY <1>4 DEF proveVars
  <2> QED
      BY <2>1, <2>2 DEF Earned
<1> QED
    BY <1>1, <1>2, <1>3, <1>4 DEF ProveNext

\* The gate's types follow.
LEMMA ProveInvImplies == ProveInv /\ ProveMisc => ProveTypeOK
<1> SUFFICES ASSUME ProveInv, ProveMisc PROVE ProveTypeOK
    OBVIOUS
<1>1. /\ delivered \in Nat /\ Len(handed) = delivered /\ delivered <= MaxDelivered
      /\ bulk = Cardinality(BulkUpto(handed, delivered)) /\ DOMAIN samples = 1 .. Len(samples)
    BY LenProperties DEF ProveInv
<1>2. delivered \in 0 .. MaxDelivered /\ bulk \in 0 .. delivered
    BY <1>1, BulkCounted, ProveConstants
<1>3. ASSUME NEW j \in DOMAIN samples
      PROVE  samples[j] \in [age : Nat, n : 0 .. delivered, bulk : 0 .. bulk]
  <2> DEFINE x == samples[j]
  <2>1. x \in Samples /\ SampleSound(handed, x)
      BY <1>1, <1>3, ElementOfSeq DEF ProveInv, AllSound
  <2> HIDE DEF x
  <2>2. x.n \in 0 .. delivered /\ x.bulk = Cardinality(BulkUpto(handed, x.n))
      BY <1>1, <2>1 DEF SampleSound
  <2>3. x.bulk \in 0 .. bulk
      BY <1>1, <2>2, BulkMonotone, BulkCounted
  <2>4. x \in [age : Nat, n : 0 .. delivered, bulk : 0 .. bulk]
      BY <2>1, <2>2, <2>3 DEF Samples
  <2> QED
      BY <2>4 DEF x
<1> QED
    BY <1>2, <1>3 DEF ProveMisc, ProveTypeOK

-----------------------------------------------------------------------------
\* The loss of an uplink.

UplinkEvents == [kind : {"address", "route"}, leg : UpLegs]

UplinkTypes ==
    /\ phys \in [UpLegs -> {"ok", "noroute", "gone"}]
    /\ bound \subseteq UpLegs /\ up \subseteq UpLegs /\ route \subseteq UpLegs
    /\ links \subseteq UpLegs /\ todo \subseteq UpLegs /\ probing \in UpLegs \cup {Nobody}
    /\ pc \in {"look", "bind", "tunnels", "probe"}
    /\ events \in Seq(UplinkEvents) /\ Len(events) <= MaxEvents

UplinkCounts ==
    /\ seen_age \in [UpLegs -> {Unseen} \cup 0 .. StaleAfter + 1]
    /\ heal \in [UpLegs -> [stage : 0 .. 1, wait : 0 .. HealCooldown]]
    /\ lost \in [UpLegs -> 0 .. 1] /\ stuck \in [UpLegs -> 0 .. 2 * HealCooldown + 1]

\* A leg whose loss was counted is nowhere; one whose loss this pass can see is
\* where the pass has not come yet.
Losses ==
    /\ pc # "probe" => probing = Nobody
    /\ \A l \in UpLegs : lost[l] # 0 =>
          /\ phys[l] = "gone" /\ l \notin links /\ l \notin bound
          /\ l \notin up /\ l \notin route /\ probing # l
    /\ \A l \in UpLegs : phys[l] = "gone" /\ l \notin unseen_loss =>
          /\ pc # "look" => l \notin links
          /\ pc \in {"tunnels", "probe"} => l \notin bound
          /\ pc = "probe" => l \notin up /\ probing # l

\* The passes a leg may still end without a bounce: a cooldown for the renew,
\* what is left of the one that runs, and the pass under way.
Waits(l) == IF pc \in {"bind", "tunnels"} THEN heal[l].wait ELSE Waited(heal[l].wait)
PassCounts(l) == pc = "probe" /\ phys[l] = "noroute" /\ l \notin unseen_loss /\ l \in bound
Left(l) ==
    (IF heal[l].stage = 0 THEN HealCooldown ELSE 0) + Waits(l) + (IF PassCounts(l) THEN 1 ELSE 0)

Patience == \A l \in UpLegs : stuck[l] + Left(l) <= 2 * HealCooldown

\* What the constants of the uplinks are.
LEMMA UplinkConstants ==
    /\ StaleAfter \in Nat /\ HealCooldown \in Nat /\ HealCooldown > 0 /\ MaxEvents \in Nat
    /\ Nobody \notin UpLegs
BY UplinkAssumption

\* The uplinks' invariants hold at first.
LEMMA UplinkInitTypes == UplinkInit => UplinkTypes /\ UplinkCounts /\ Losses /\ Patience
<1> SUFFICES ASSUME UplinkInit PROVE UplinkTypes /\ UplinkCounts /\ Losses /\ Patience
    OBVIOUS
<1>1. events \in Seq(UplinkEvents) /\ Len(events) = 0
    BY EmptySeq DEF UplinkInit
<1>2. UplinkTypes
    BY <1>1, UplinkConstants DEF UplinkInit, UplinkTypes
<1>3. UplinkCounts
    BY UplinkConstants DEF UplinkInit, UplinkCounts
<1>4. Losses
    BY UplinkConstants DEF UplinkInit, Losses
<1>5. Patience
  <2>1. ASSUME NEW l \in UpLegs PROVE stuck[l] + Left(l) <= 2 * HealCooldown
    <3>1. stuck[l] = 0 /\ heal[l] = [stage |-> 0, wait |-> 0] /\ pc = "look"
        BY DEF UplinkInit
    <3>2. Waits(l) = 0 /\ ~PassCounts(l) /\ heal[l].stage = 0
        BY <3>1 DEF Waits, PassCounts, Waited
    <3>3. Left(l) = HealCooldown
        BY <3>2, UplinkConstants DEF Left
    <3> QED
        BY <3>1, <3>3, UplinkConstants
  <2> QED
      BY <2>1 DEF Patience
<1> QED
    BY <1>2, <1>3, <1>4, <1>5

\* A line more of ip monitor is within the bound.
LEMMA EventReported ==
    ASSUME UplinkTypes, NEW kind \in {"address", "route"}, NEW l \in UpLegs, Len(events) < MaxEvents
    PROVE  Reported(kind, l) \in Seq(UplinkEvents) /\ Len(Reported(kind, l)) <= MaxEvents
<1> DEFINE e == [kind |-> kind, leg |-> l]
<1>1. e \in UplinkEvents
    BY DEF UplinkEvents
<1>2. events \in Seq(UplinkEvents) /\ Len(events) \in Nat /\ Len(events) <= MaxEvents
    BY LenProperties DEF UplinkTypes
<1> HIDE DEF e
<1>3. Append(events, e) \in Seq(UplinkEvents) /\ Len(Append(events, e)) = Len(events) + 1
    BY <1>1, <1>2, AppendProperties
<1>4. Len(Append(events, e)) <= MaxEvents
    BY <1>2, <1>3, UplinkConstants
<1>5. Reported(kind, l) = IF watching THEN Append(events, e) ELSE events
    BY DEF Reported, e
<1> QED
    BY <1>2, <1>3, <1>4, <1>5

\* A line read leaves a shorter queue.
LEMMA EventRead ==
    ASSUME UplinkTypes, events # <<>>
    PROVE  Tail(events) \in Seq(UplinkEvents) /\ Len(Tail(events)) <= MaxEvents
<1>1. events \in Seq(UplinkEvents) /\ Len(events) \in Nat /\ Len(events) <= MaxEvents
    BY LenProperties DEF UplinkTypes
<1>2. Tail(events) \in Seq(UplinkEvents) /\ Len(Tail(events)) = Len(events) - 1
    BY <1>1, HeadTailProperties
<1> QED
    BY <1>1, <1>2, UplinkConstants

\* Every step keeps the types.
LEMMA UplinkStepTypes ==
    ASSUME UplinkTypes, [UplinkNext]_uplinkVars PROVE UplinkTypes'
<1> USE DEF kernelVars, passVars
<1>1. ASSUME NEW l \in UpLegs, AddressLost(l) PROVE UplinkTypes'
  <2>1. events' \in Seq(UplinkEvents) /\ Len(events') <= MaxEvents
      BY <1>1, EventReported DEF AddressLost
  <2> QED
      BY <1>1, <2>1 DEF AddressLost, UplinkTypes
<1>2. ASSUME NEW l \in UpLegs, RouteLost(l) PROVE UplinkTypes'
  <2>1. events' \in Seq(UplinkEvents) /\ Len(events') <= MaxEvents
      BY <1>2, EventReported DEF RouteLost
  <2> QED
      BY <1>2, <2>1 DEF RouteLost, UplinkTypes
<1>3. ASSUME NEW l \in UpLegs, NEW as \in {"ok", "noroute"}, Restored(l, as) PROVE UplinkTypes'
    BY <1>3 DEF Restored, UplinkTypes
<1>4. ASSUME NEW l \in UpLegs, NEW yes \in BOOLEAN, ProbeStart(l, yes) PROVE UplinkTypes'
    BY <1>4 DEF ProbeStart, UplinkTypes
<1>5. CASE MonitorFlips
  <2>1. events' = events \/ events' = <<>>
      BY <1>5 DEF MonitorFlips
  <2>2. events' \in Seq(UplinkEvents) /\ Len(events') <= MaxEvents
    <3>1. <<>> \in Seq(UplinkEvents) /\ Len(<<>>) <= MaxEvents
        BY EmptySeq, UplinkConstants
    <3> QED
        BY <2>1, <3>1 DEF UplinkTypes
  <2> QED
      BY <1>5, <2>2 DEF MonitorFlips, UplinkTypes
<1>6. CASE Withdrawal
  <2>1. events' \in Seq(UplinkEvents) /\ Len(events') <= MaxEvents
      BY <1>6, EventRead DEF Withdrawal
  <2> QED
      BY <1>6, <2>1 DEF Withdrawal, UplinkTypes
<1>7. ASSUME NEW other \in BOOLEAN, Reroute(other) PROVE UplinkTypes'
    BY <1>7 DEF Reroute, Nexthops, UplinkTypes
<1>8. CASE Look
    BY <1>8 DEF Look, UplinkTypes
<1>9. CASE Bind
    BY <1>9 DEF Bind, Matched, UplinkTypes
<1>10. CASE EnsureTunnels
    BY <1>10 DEF EnsureTunnels, UplinkTypes
<1>11. ASSUME NEW wg \in WgTunnelEvidence, NEW poor \in BOOLEAN, ProbeEnd(wg, poor) PROVE UplinkTypes'
  <2>1. up' = up \cup {probing} \/ up' = up \ {probing}
      BY <1>11 DEF ProbeEnd
  <2>2. probing \in UpLegs
      BY <1>11 DEF ProbeEnd, UplinkTypes
  <2>3. /\ phys' = phys /\ bound' = bound /\ route' = route /\ links' = links /\ todo' = todo
        /\ probing' = Nobody /\ pc' = pc /\ events' = events
      BY <1>11 DEF ProbeEnd
  <2> QED
      BY <2>1, <2>2, <2>3 DEF UplinkTypes
<1>12. CASE Policy
    BY <1>12 DEF Policy, Nexthops, UplinkTypes
<1>13. CASE PassFails
    BY <1>13 DEF PassFails, UplinkTypes
<1>14. CASE UNCHANGED uplinkVars
    BY <1>14 DEF uplinkVars, UplinkTypes
<1> QED
    BY <1>1, <1>2, <1>3, <1>4, <1>5, <1>6, <1>7, <1>8, <1>9, <1>10, <1>11, <1>12, <1>13, <1>14
    DEF UplinkNext

\* Ages and cooldowns stay in their ranges.
LEMMA AgesStay ==
    /\ \A age \in {Unseen} \cup 0 .. StaleAfter + 1 :
          /\ Older(age) \in {Unseen} \cup 0 .. StaleAfter + 1
          /\ \A moved \in BOOLEAN : Observed(age, moved) \in {Unseen} \cup 0 .. StaleAfter + 1
    /\ \A n \in 0 .. HealCooldown : Waited(n) \in 0 .. HealCooldown /\ Waited(n) <= n
BY UplinkConstants DEF Older, Observed, Waited, Unseen

\* So does the state of a leg's ladder.
LEMMA HealStays ==
    ASSUME NEW h \in [stage : 0 .. 1, wait : 0 .. HealCooldown]
    PROVE  /\ [h EXCEPT !.wait = Waited(@)] \in [stage : 0 .. 1, wait : 0 .. HealCooldown]
           /\ [h EXCEPT !.wait = Waited(@)].stage = h.stage
           /\ [h EXCEPT !.wait = Waited(@)].wait = Waited(h.wait)
           /\ Climbed(h) \in [stage : 0 .. 1, wait : 0 .. HealCooldown]
           /\ Climbed(h).stage = 1 - h.stage /\ Climbed(h).wait = HealCooldown
           /\ h.stage \in 0 .. 1 /\ h.wait \in 0 .. HealCooldown
<1>1. h.stage \in 0 .. 1 /\ h.wait \in 0 .. HealCooldown
    OBVIOUS
<1>2. Waited(h.wait) \in 0 .. HealCooldown /\ 1 - h.stage \in 0 .. 1 /\ HealCooldown \in 0 .. HealCooldown
    BY <1>1, AgesStay, UplinkConstants
<1> QED
    BY <1>1, <1>2 DEF Climbed

\* A climb of the ladder turns the stage and starts the cooldown.
LEMMA ClimbedFields ==
    ASSUME NEW h PROVE Climbed(h).stage = 1 - h.stage /\ Climbed(h).wait = HealCooldown
BY DEF Climbed

\* A capped counter stays under its cap.
LEMMA CountsMore ==
    ASSUME NEW m \in Nat, NEW n \in 0 .. m PROVE More(n, m) \in 0 .. m
BY DEF More

\* Every step keeps the types of what is counted.
LEMMA UplinkStepCounts ==
    ASSUME UplinkTypes, UplinkCounts, [UplinkNext]_uplinkVars PROVE UplinkCounts'
<1> USE DEF kernelVars, passVars
<1>0. /\ 0 \in 0 .. 1 /\ 0 \in 0 .. 2 * HealCooldown + 1
      /\ Unseen \in {Unseen} \cup 0 .. StaleAfter + 1
    BY UplinkConstants
<1>1. ASSUME NEW l \in UpLegs, AddressLost(l) PROVE UplinkCounts'
    BY <1>0, <1>1 DEF AddressLost, UplinkCounts
<1>2. ASSUME NEW l \in UpLegs, RouteLost(l) PROVE UplinkCounts'
    BY <1>2 DEF RouteLost, UplinkCounts
<1>3. ASSUME NEW l \in UpLegs, NEW as \in {"ok", "noroute"}, Restored(l, as) PROVE UplinkCounts'
    BY <1>0, <1>3 DEF Restored, UplinkCounts
<1>4. ASSUME NEW l \in UpLegs, NEW yes \in BOOLEAN, ProbeStart(l, yes) PROVE UplinkCounts'
    BY <1>4 DEF ProbeStart, UplinkCounts
<1>5. CASE MonitorFlips
    BY <1>5 DEF MonitorFlips, UplinkCounts
<1>6. CASE Withdrawal
  <2>1. seen_age' = seen_age \/ \E l \in {Head(events).leg} : seen_age' = [seen_age EXCEPT ![l] = Unseen]
      BY <1>6 DEF Withdrawal
  <2>2. seen_age' \in [UpLegs -> {Unseen} \cup 0 .. StaleAfter + 1]
      BY <1>0, <2>1 DEF UplinkCounts
  <2> QED
      BY <1>6, <2>2 DEF Withdrawal, UplinkCounts
<1>7. ASSUME NEW other \in BOOLEAN, Reroute(other) PROVE UplinkCounts'
    BY <1>7 DEF Reroute, UplinkCounts
<1>8. CASE Look
  <2>1. seen_age' \in [UpLegs -> {Unseen} \cup 0 .. StaleAfter + 1]
      BY <1>8, AgesStay DEF Look, UplinkCounts
  <2>2. heal' \in [UpLegs -> [stage : 0 .. 1, wait : 0 .. HealCooldown]]
      BY <1>8, HealStays DEF Look, UplinkCounts
  <2> QED
      BY <1>8, <2>1, <2>2 DEF Look, UplinkCounts
<1>9. CASE Bind
    BY <1>9 DEF Bind, UplinkCounts
<1>10. CASE EnsureTunnels
  <2>1. heal' \in [UpLegs -> [stage : 0 .. 1, wait : 0 .. HealCooldown]]
      BY <1>10, HealStays DEF EnsureTunnels, UplinkCounts
  <2>2. stuck' \in [UpLegs -> 0 .. 2 * HealCooldown + 1]
      BY <1>0, <1>10 DEF EnsureTunnels, UplinkCounts
  <2> QED
      BY <1>10, <2>1, <2>2 DEF EnsureTunnels, UplinkCounts
<1>11. ASSUME NEW wg \in WgTunnelEvidence, NEW poor \in BOOLEAN, ProbeEnd(wg, poor) PROVE UplinkCounts'
  <2>1. probing \in UpLegs /\ wg.moved \in BOOLEAN
      BY <1>11 DEF ProbeEnd, UplinkTypes, WgTunnelEvidence
  <2>2. Observed(seen_age[probing], wg.moved) \in {Unseen} \cup 0 .. StaleAfter + 1
      BY <2>1, AgesStay DEF UplinkCounts
  <2>3. seen_age' = [seen_age EXCEPT ![probing] = Observed(seen_age[probing], wg.moved)]
      BY <1>11 DEF ProbeEnd
  <2>4. seen_age' \in [UpLegs -> {Unseen} \cup 0 .. StaleAfter + 1]
      BY <2>1, <2>2, <2>3 DEF UplinkCounts
  <2>5. heal' = heal /\ lost' = lost /\ stuck' = stuck
      BY <1>11 DEF ProbeEnd
  <2> QED
      BY <2>4, <2>5 DEF UplinkCounts
<1>12. CASE Policy
  <2>1. 1 \in Nat /\ 2 * HealCooldown + 1 \in Nat
      BY UplinkConstants
  <2>2. lost' \in [UpLegs -> 0 .. 1]
      BY <1>0, <1>12, <2>1, CountsMore DEF Policy, UplinkCounts
  <2>3. stuck' \in [UpLegs -> 0 .. 2 * HealCooldown + 1]
      BY <1>0, <1>12, <2>1, CountsMore DEF Policy, UplinkCounts
  <2> QED
      BY <1>12, <2>2, <2>3 DEF Policy, UplinkCounts
<1>13. CASE PassFails
    BY <1>13 DEF PassFails, UplinkCounts
<1>14. CASE UNCHANGED uplinkVars
    BY <1>14 DEF uplinkVars, UplinkCounts
<1> QED
    BY <1>1, <1>2, <1>3, <1>4, <1>5, <1>6, <1>7, <1>8, <1>9, <1>10, <1>11, <1>12, <1>13, <1>14
    DEF UplinkNext

\* Every step of the kernel, the monitor and the pass keeps a counted loss out of
\* everything.
LEMMA UplinkStepLosses ==
    ASSUME UplinkTypes, UplinkCounts, Losses, [UplinkNext]_uplinkVars PROVE Losses'
<1> USE DEF kernelVars, passVars
<1>0. /\ phys \in [UpLegs -> {"ok", "noroute", "gone"}] /\ lost \in [UpLegs -> 0 .. 1]
      /\ probing \in UpLegs \cup {Nobody} /\ pc \in {"look", "bind", "tunnels", "probe"}
      /\ Nobody \notin UpLegs
    BY UplinkConstants DEF UplinkTypes, UplinkCounts
<1>1. ASSUME NEW l \in UpLegs, AddressLost(l) PROVE Losses'
    BY <1>0, <1>1 DEF AddressLost, Losses
<1>2. ASSUME NEW l \in UpLegs, RouteLost(l) PROVE Losses'
    BY <1>0, <1>2 DEF RouteLost, Losses
<1>3. ASSUME NEW l \in UpLegs, NEW as \in {"ok", "noroute"}, Restored(l, as) PROVE Losses'
    BY <1>0, <1>3 DEF Restored, Losses
<1>4. ASSUME NEW l \in UpLegs, NEW yes \in BOOLEAN, ProbeStart(l, yes) PROVE Losses'
    BY <1>0, <1>4 DEF ProbeStart, Losses
<1>5. CASE MonitorFlips
    BY <1>5 DEF MonitorFlips, Losses
<1>6. CASE Withdrawal
    BY <1>6 DEF Withdrawal, Losses
<1>7. ASSUME NEW other \in BOOLEAN, Reroute(other) PROVE Losses'
    BY <1>7 DEF Reroute, Nexthops, Losses
<1>8. CASE Look
    BY <1>0, <1>8 DEF Look, Losses
<1>9. CASE Bind
    BY <1>0, <1>9 DEF Bind, Matched, Losses
<1>10. CASE EnsureTunnels
    BY <1>0, <1>10 DEF EnsureTunnels, Losses
<1>11. ASSUME NEW wg \in WgTunnelEvidence, NEW poor \in BOOLEAN, ProbeEnd(wg, poor) PROVE Losses'
  <2>1. up' \subseteq up \cup {probing} /\ probing # Nobody
      BY <1>11 DEF ProbeEnd
  <2>2. /\ phys' = phys /\ bound' = bound /\ route' = route /\ links' = links /\ lost' = lost
        /\ probing' = Nobody /\ pc' = pc /\ unseen_loss' = unseen_loss
      BY <1>11 DEF ProbeEnd
  <2> QED
      BY <1>0, <2>1, <2>2 DEF Losses
<1>12. CASE Policy
  <2>1. /\ pc = "probe" /\ probing = Nobody /\ pc' = "look" /\ route' = up
        /\ phys' = phys /\ bound' = bound /\ up' = up /\ links' = links /\ probing' = probing
        /\ unseen_loss' = unseen_loss
      BY <1>12 DEF Policy, Nexthops
  <2>2. \A l \in UpLegs : lost'[l] # 0 => phys[l] = "gone" /\ l \notin unseen_loss
      BY <1>12 DEF Policy
  <2> QED
      BY <1>0, <2>1, <2>2 DEF Losses
<1>13. CASE PassFails
    BY <1>0, <1>13 DEF PassFails, Losses
<1>14. CASE UNCHANGED uplinkVars
    BY <1>14 DEF uplinkVars, Losses
<1> QED
    BY <1>1, <1>2, <1>3, <1>4, <1>5, <1>6, <1>7, <1>8, <1>9, <1>10, <1>11, <1>12, <1>13, <1>14
    DEF UplinkNext

\* The numbers of a leg.
LEMMA PatienceNumbers ==
    ASSUME UplinkCounts, NEW l \in UpLegs
    PROVE  /\ stuck[l] \in 0 .. 2 * HealCooldown + 1 /\ heal[l].stage \in 0 .. 1
           /\ heal[l].wait \in 0 .. HealCooldown /\ Waited(heal[l].wait) \in 0 .. HealCooldown
           /\ Waited(heal[l].wait) <= heal[l].wait /\ Waits(l) \in 0 .. HealCooldown
           /\ Waited(heal[l].wait) <= Waits(l) /\ Waits(l) <= heal[l].wait
           /\ heal[l] \in [stage : 0 .. 1, wait : 0 .. HealCooldown]
<1>1. heal[l] \in [stage : 0 .. 1, wait : 0 .. HealCooldown] /\ stuck[l] \in 0 .. 2 * HealCooldown + 1
    BY DEF UplinkCounts
<1>2. heal[l].stage \in 0 .. 1 /\ heal[l].wait \in 0 .. HealCooldown
    BY <1>1
<1>3. Waited(heal[l].wait) \in 0 .. HealCooldown /\ Waited(heal[l].wait) <= heal[l].wait
    BY <1>2, AgesStay
<1>4. Waits(l) = heal[l].wait \/ Waits(l) = Waited(heal[l].wait)
    BY DEF Waits
<1> QED
    BY <1>1, <1>2, <1>3, <1>4, UplinkConstants

\* A leg that waits no longer than before, and was not stuck longer, keeps its patience.
LEMMA PatienceKept ==
    ASSUME NEW s \in Nat, NEW t \in Nat, NEW w \in Nat, NEW v \in Nat, NEW g \in 0 .. 1,
           NEW b \in BOOLEAN, NEW c \in BOOLEAN, NEW h \in Nat,
           s + ((IF g = 0 THEN h ELSE 0) + w + (IF b THEN 1 ELSE 0)) <= 2 * h,
           t <= s, v <= w, c => b
    PROVE  t + ((IF g = 0 THEN h ELSE 0) + v + (IF c THEN 1 ELSE 0)) <= 2 * h
OBVIOUS

\* The same where the leg's ladder stays, v being how long it waits then.
LEMMA LegKeepsPatience ==
    ASSUME UplinkCounts, UplinkCounts', Patience, NEW l \in UpLegs,
           heal'[l].stage = heal[l].stage, NEW v \in Nat, Waits(l)' = v, v <= Waits(l),
           NEW t \in Nat, stuck'[l] = t, t <= stuck[l], PassCounts(l)' => PassCounts(l)
    PROVE  (stuck[l] + Left(l) <= 2 * HealCooldown)'
<1> DEFINE s == stuck[l]
           g == heal[l].stage
           w == Waits(l)
           b == PassCounts(l)
           c == PassCounts(l)'
           h == HealCooldown
<1>1. s \in Nat /\ w \in Nat /\ g \in 0 .. 1 /\ h \in Nat
    BY PatienceNumbers, UplinkConstants
<1>3. b \in BOOLEAN /\ c \in BOOLEAN
    BY DEF PassCounts
<1>4. s + ((IF g = 0 THEN h ELSE 0) + w + (IF b THEN 1 ELSE 0)) <= 2 * h
    BY DEF Patience, Left
<1>5. Left(l)' = (IF g = 0 THEN h ELSE 0) + v + (IF c THEN 1 ELSE 0)
    BY DEF Left
<1> HIDE DEF s, g, w, b, c, h
<1>6. t + ((IF g = 0 THEN h ELSE 0) + v + (IF c THEN 1 ELSE 0)) <= 2 * h
  <2>1. t <= s /\ v <= w /\ (c => b)
      BY DEF s, w, b, c
  <2> QED
      BY <1>1, <1>3, <1>4, <2>1, PatienceKept
<1> QED
    BY <1>5, <1>6 DEF h

\* Every step keeps each leg's patience.
LEMMA UplinkStepPatience ==
    ASSUME UplinkTypes, UplinkCounts, UplinkCounts', Patience, [UplinkNext]_uplinkVars
    PROVE  Patience'
<1> USE DEF kernelVars, passVars
\* What neither moves the pass nor the ladder.
<1>1. ASSUME heal' = heal, pc' = pc,
             \A l \in UpLegs : /\ stuck'[l] = stuck[l] \/ stuck'[l] = 0
                               /\ PassCounts(l)' => PassCounts(l)
      PROVE  Patience'
  <2>1. ASSUME NEW l \in UpLegs PROVE (stuck[l] + Left(l) <= 2 * HealCooldown)'
    <3>1. /\ Waits(l)' = Waits(l) /\ Waits(l) <= Waits(l) /\ 0 <= stuck[l] /\ stuck[l] <= stuck[l]
          /\ Waits(l) \in Nat /\ stuck[l] \in Nat /\ 0 \in Nat
        BY <1>1, PatienceNumbers, UplinkConstants DEF Waits
    <3> QED
        BY <1>1, <3>1, LegKeepsPatience
  <2> QED
      BY <2>1 DEF Patience
<1>2. ASSUME NEW l \in UpLegs, AddressLost(l) PROVE Patience'
    BY <1>1, <1>2 DEF AddressLost, PassCounts, UplinkCounts, UplinkTypes
<1>3. ASSUME NEW l \in UpLegs, RouteLost(l) PROVE Patience'
    BY <1>1, <1>3 DEF RouteLost, PassCounts, UplinkTypes
<1>4. ASSUME NEW l \in UpLegs, NEW as \in {"ok", "noroute"}, Restored(l, as) PROVE Patience'
    BY <1>1, <1>4 DEF Restored, PassCounts, UplinkCounts, UplinkTypes
<1>5. ASSUME NEW l \in UpLegs, NEW yes \in BOOLEAN, ProbeStart(l, yes) PROVE Patience'
    BY <1>1, <1>5 DEF ProbeStart, PassCounts
<1>6. CASE MonitorFlips
    BY <1>1, <1>6 DEF MonitorFlips, PassCounts
<1>7. CASE Withdrawal
    BY <1>1, <1>7 DEF Withdrawal, PassCounts
<1>8. ASSUME NEW other \in BOOLEAN, Reroute(other) PROVE Patience'
    BY <1>1, <1>8 DEF Reroute, PassCounts
<1>9. ASSUME NEW wg \in WgTunnelEvidence, NEW poor \in BOOLEAN, ProbeEnd(wg, poor) PROVE Patience'
  <2>1. /\ heal' = heal /\ pc' = pc /\ stuck' = stuck /\ phys' = phys
        /\ unseen_loss' = unseen_loss /\ bound' = bound
      BY <1>9 DEF ProbeEnd
  <2> QED
      BY <1>1, <2>1 DEF PassCounts
<1>10. CASE UNCHANGED uplinkVars
    BY <1>1, <1>10 DEF uplinkVars, PassCounts
\* What moves the pass on, or ends it.
<1>11. CASE Look
  <2>1. ASSUME NEW l \in UpLegs PROVE (stuck[l] + Left(l) <= 2 * HealCooldown)'
    <3>1. heal'[l] = [heal[l] EXCEPT !.wait = Waited(@)]
        BY <1>11 DEF Look
    <3>2. heal'[l].stage = heal[l].stage /\ heal'[l].wait = Waited(heal[l].wait)
        BY <3>1, PatienceNumbers, HealStays
    <3>3. Waits(l)' = Waits(l)
        BY <1>11, <3>2 DEF Look, Waits
    <3>4. Waits(l) \in Nat /\ stuck[l] \in Nat /\ Waits(l) <= Waits(l) /\ stuck[l] <= stuck[l]
        BY PatienceNumbers, UplinkConstants
    <3>5. stuck' = stuck /\ ~PassCounts(l)'
        BY <1>11 DEF Look, PassCounts
    <3> QED
        BY <3>2, <3>3, <3>4, <3>5, LegKeepsPatience
  <2> QED
      BY <2>1 DEF Patience
<1>12. CASE Bind
  <2>1. ASSUME NEW l \in UpLegs PROVE (stuck[l] + Left(l) <= 2 * HealCooldown)'
    <3>1. heal' = heal /\ stuck' = stuck /\ Waits(l)' = Waits(l) /\ ~PassCounts(l)'
        BY <1>12 DEF Bind, Waits, PassCounts
    <3>2. Waits(l) \in Nat /\ stuck[l] \in Nat /\ Waits(l) <= Waits(l) /\ stuck[l] <= stuck[l]
        BY PatienceNumbers, UplinkConstants
    <3> QED
        BY <3>1, <3>2, LegKeepsPatience
  <2> QED
      BY <2>1 DEF Patience
<1>13. CASE PassFails
  <2>1. ASSUME NEW l \in UpLegs PROVE (stuck[l] + Left(l) <= 2 * HealCooldown)'
    <3>1. heal' = heal /\ stuck' = stuck /\ Waits(l)' = Waited(heal[l].wait) /\ ~PassCounts(l)'
        BY <1>13 DEF PassFails, Waits, PassCounts
    <3>2. /\ Waited(heal[l].wait) \in Nat /\ stuck[l] \in Nat
          /\ Waited(heal[l].wait) <= Waits(l) /\ stuck[l] <= stuck[l]
        BY PatienceNumbers, UplinkConstants
    <3> QED
        BY <3>1, <3>2, LegKeepsPatience
  <2> QED
      BY <2>1 DEF Patience
\* The policy ends the pass, and counts it where nothing was done.
<1>14. CASE Policy
  <2>1. ASSUME NEW l \in UpLegs PROVE (stuck[l] + Left(l) <= 2 * HealCooldown)'
    <3>1. heal' = heal /\ pc = "probe" /\ Waits(l)' = Waited(heal[l].wait) /\ ~PassCounts(l)'
        BY <1>14 DEF Policy, Waits, PassCounts
    <3>2. Waits(l) = Waited(heal[l].wait)
        BY <3>1 DEF Waits
    <3>3. CASE ~PassCounts(l)
      <4>1. stuck'[l] = stuck[l]
          BY <1>14, <3>3 DEF Policy, PassCounts
      <4>2. Waits(l) \in Nat /\ stuck[l] \in Nat /\ Waits(l) <= Waits(l) /\ stuck[l] <= stuck[l]
          BY PatienceNumbers, UplinkConstants
      <4> QED
          BY <3>1, <3>2, <4>1, <4>2, LegKeepsPatience
    <3>4. CASE PassCounts(l)
      <4>1. stuck'[l] = More(stuck[l], 2 * HealCooldown + 1)
          BY <1>14, <3>4 DEF Policy, PassCounts
      <4>2. PICK x : x = stuck'[l]
          OBVIOUS
      <4>3. x <= stuck[l] + 1 /\ x \in Nat /\ stuck[l] \in Nat
        <5>1. stuck[l] \in 0 .. 2 * HealCooldown + 1
            BY PatienceNumbers
        <5> QED
            BY <4>1, <4>2, <5>1, UplinkConstants DEF More
      <4>4. PICK y \in Nat : y = (IF heal[l].stage = 0 THEN HealCooldown ELSE 0) + Waits(l)
          BY PatienceNumbers, UplinkConstants
      <4>5. Left(l) = y + 1 /\ Left(l)' = y
        <5>1. Left(l) = (IF heal[l].stage = 0 THEN HealCooldown ELSE 0) + Waits(l) + 1
            BY <3>4 DEF Left
        <5>2. Left(l)' = (IF heal[l].stage = 0 THEN HealCooldown ELSE 0) + Waits(l) + 0
            BY <3>1, <3>2 DEF Left
        <5> QED
            BY <4>4, <5>1, <5>2
      <4>6. stuck[l] + (y + 1) <= 2 * HealCooldown
          BY <4>5 DEF Patience
      <4>7. x + y <= 2 * HealCooldown
          BY <4>3, <4>4, <4>6, UplinkConstants
      <4> QED
          BY <4>2, <4>5, <4>7
    <3> QED
        BY <3>3, <3>4
  <2> QED
      BY <2>1 DEF Patience
\* The ladder: a renew gives another cooldown, a bounce starts all over.
<1>15. CASE EnsureTunnels
  <2>1. ASSUME NEW l \in UpLegs PROVE (stuck[l] + Left(l) <= 2 * HealCooldown)'
    <3>1. pc = "tunnels" /\ Waits(l) = heal[l].wait /\ ~PassCounts(l) /\ Waits(l)' = Waited(heal'[l].wait)
        BY <1>15 DEF EnsureTunnels, Waits, PassCounts
    <3>2. PICK n : n = heal[l].wait
        OBVIOUS
    <3>3. PICK x : x = stuck[l]
        OBVIOUS
    <3>4. /\ n \in 0 .. HealCooldown /\ x \in Nat /\ heal[l].stage \in 0 .. 1
          /\ heal[l] \in [stage : 0 .. 1, wait : 0 .. HealCooldown]
        BY <3>2, <3>3, PatienceNumbers, UplinkConstants
    <3>5. x + ((IF heal[l].stage = 0 THEN HealCooldown ELSE 0) + n + 0) <= 2 * HealCooldown
        BY <3>1, <3>2, <3>3 DEF Patience, Left
    <3>6. PICK c \in BOOLEAN : c <=> PassCounts(l)'
        BY DEF PassCounts
    <3>7. Left(l)' = (IF heal'[l].stage = 0 THEN HealCooldown ELSE 0) + Waited(heal'[l].wait)
                       + (IF c THEN 1 ELSE 0)
        BY <3>1, <3>6 DEF Left
    <3>8. CASE l \notin Healing
      <4>1. heal'[l] = heal[l] /\ stuck'[l] = x
          BY <1>15, <3>3, <3>8 DEF EnsureTunnels, Bounced
      <4>2. c => n > 0
          BY <1>15, <3>2, <3>4, <3>6, <3>8 DEF EnsureTunnels, PassCounts, Healing
      <4>3. Waited(n) + (IF c THEN 1 ELSE 0) <= n /\ Waited(n) \in Nat
          BY <3>4, <4>2, UplinkConstants DEF Waited
      <4>4. x + ((IF heal[l].stage = 0 THEN HealCooldown ELSE 0) + Waited(n) + (IF c THEN 1 ELSE 0))
              <= 2 * HealCooldown
          BY <3>4, <3>5, <4>3, UplinkConstants
      <4> QED
          BY <3>2, <3>7, <4>1, <4>4
    <3>9. CASE l \in Healing /\ heal[l].stage = 1
      <4>1. heal'[l] = Climbed(heal[l]) /\ stuck'[l] = 0
          BY <1>15, <3>9 DEF EnsureTunnels, Bounced
      <4>2. heal'[l].stage = 0 /\ heal'[l].wait = HealCooldown
          BY <3>9, <4>1, ClimbedFields
      <4>3. 0 + (HealCooldown + Waited(HealCooldown) + (IF c THEN 1 ELSE 0)) <= 2 * HealCooldown
          BY UplinkConstants DEF Waited
      <4> QED
          BY <3>7, <4>1, <4>2, <4>3
    <3>10. CASE l \in Healing /\ heal[l].stage = 0
      <4>1. heal'[l] = Climbed(heal[l]) /\ stuck'[l] = x
          BY <1>15, <3>3, <3>10 DEF EnsureTunnels, Bounced
      <4>2. heal'[l].stage = 1 /\ heal'[l].wait = HealCooldown
          BY <3>10, <4>1, ClimbedFields
      <4>3. x + (0 + Waited(HealCooldown) + (IF c THEN 1 ELSE 0)) <= 2 * HealCooldown
          BY <3>4, <3>5, <3>10, UplinkConstants DEF Waited
      <4> QED
          BY <3>7, <4>1, <4>2, <4>3
    <3> QED
        BY <3>4, <3>8, <3>9, <3>10
  <2> QED
      BY <2>1 DEF Patience
<1> QED
    BY <1>2, <1>3, <1>4, <1>5, <1>6, <1>7, <1>8, <1>9, <1>10, <1>11, <1>12, <1>13, <1>14, <1>15
    DEF UplinkNext

\* Together they give what the run checks of the uplinks.
LEMMA UplinkImplies ==
    UplinkTypes /\ UplinkCounts /\ Losses /\ Patience => UplinkTypeOK /\ UplinkLossHandled
<1> SUFFICES ASSUME UplinkTypes, UplinkCounts, Losses, Patience
             PROVE  UplinkTypeOK /\ UplinkLossHandled
    OBVIOUS
<1>1. UplinkTypeOK
    BY DEF UplinkTypes, UplinkCounts, UplinkTypeOK
<1>2. GoneIsWithdrawn
    BY DEF GoneIsWithdrawn, Losses, UplinkTypes
<1>3. BouncedAtLast
  <2>1. ASSUME NEW l \in UpLegs PROVE stuck[l] <= 2 * HealCooldown
    <3>1. Left(l) \in Nat /\ stuck[l] \in Nat
        BY PatienceNumbers, UplinkConstants DEF Left
    <3>2. stuck[l] + Left(l) <= 2 * HealCooldown
        BY DEF Patience
    <3> QED
        BY <3>1, <3>2, UplinkConstants
  <2> QED
      BY <2>1 DEF BouncedAtLast
<1> QED
    BY <1>1, <1>2, <1>3 DEF UplinkLossHandled

-----------------------------------------------------------------------------
\* The tunnels and the firewall.

TunnelTypes ==
    /\ uplink_of \in [Tunneled -> Uplinks \cup {NoUplink}] /\ gateways \subseteq Uplinks
    /\ tunnels \in [Tunneled -> {"absent", "wreck", "live"}]
    /\ pinned \in [Tunneled -> Uplinks \cup {NoUplink}]
    /\ ruled \subseteq Tunneled /\ clean \subseteq Tunneled
    /\ at \in 1 .. Len(TunnelLegs) + 1

\* The tunnel of leg l is up, pinned to its uplink and steered to.
Steered(l) ==
    uplink_of[l] # NoUplink => tunnels[l] = "live" /\ pinned[l] = uplink_of[l] /\ l \in ruled

\* The legs that had their turn, and none of whose commands failed.
LegsDone ==
    \A i \in 1 .. Len(TunnelLegs) : i < at /\ TunnelLegs[i] \in clean => Steered(TunnelLegs[i])

\* The passes since the last one in which a rebuild is forced.
SinceForced == IF fw_count = 0 THEN RebuildEvery - 1 ELSE fw_count - 1

ChainsInv ==
    /\ chains \subseteq Tunneled /\ nexthops \subseteq Tunneled
    /\ fw_applied \in (SUBSET Tunneled) \cup {NoSet} /\ filling \in (SUBSET Tunneled) \cup {NoSet}
    /\ fw_count \in 0 .. RebuildEvery - 1
    /\ flushed \in -1 .. RebuildEvery - 1 /\ flushed <= SinceForced
    /\ flushed = -1 => nexthops \subseteq chains /\ (fw_applied # NoSet => chains = fw_applied)

\* What the constants of the tunnels are.
LEMMA TunnelConstants ==
    /\ RebuildEvery \in Nat /\ RebuildEvery > 1 /\ NoUplink \notin Uplinks /\ NoUplink \notin Tunneled
    /\ Len(TunnelLegs) \in Nat /\ DOMAIN TunnelLegs = 1 .. Len(TunnelLegs)
    /\ \A i \in 1 .. Len(TunnelLegs) : TunnelLegs[i] \in Tunneled
    /\ \A l \in Tunneled : \E i \in 1 .. Len(TunnelLegs) : l = TunnelLegs[i]
<1>1. DOMAIN TunnelLegs = 1 .. Len(TunnelLegs) /\ Len(TunnelLegs) \in Nat
    BY TunnelAssumption, LenProperties
<1> QED
    BY <1>1, TunnelAssumption DEF Tunneled

\* A set of tunnels is never taken for none.
LEMMA NoSetApart == \A s \in SUBSET Tunneled : s # NoSet
BY TunnelConstants DEF NoSet

\* The tunnels' invariants hold at first.
LEMMA TunnelsInitInv == TunnelsInit => TunnelTypes /\ LegsDone /\ ChainsInv
<1> SUFFICES ASSUME TunnelsInit PROVE TunnelTypes /\ LegsDone /\ ChainsInv
    OBVIOUS
<1>1. TunnelTypes
    BY TunnelConstants DEF TunnelsInit, Agentless, TunnelTypes
<1>2. LegsDone
    BY TunnelConstants DEF TunnelsInit, Agentless, LegsDone
<1>3. ChainsInv
    BY TunnelConstants DEF TunnelsInit, Agentless, ChainsInv, SinceForced, NoSet
<1> QED
    BY <1>1, <1>2, <1>3

\* The turn of a leg.
LEMMA TurnPassed ==
    ASSUME TunnelTypes, NEW leg \in Tunneled, Turn(leg)
    PROVE  /\ at \in 1 .. Len(TunnelLegs) /\ TunnelLegs[at] = leg
           /\ at + 1 \in 1 .. Len(TunnelLegs) + 1
           /\ \A i \in 1 .. Len(TunnelLegs) : i < at + 1 => i < at \/ TunnelLegs[i] = leg
<1>1. at \in 1 .. Len(TunnelLegs) /\ TunnelLegs[at] = leg
    BY TunnelConstants DEF Turn
<1> QED
    BY <1>1, TunnelConstants

\* A step of a leg's turn that leaves the others alone, and its own leg steered or
\* marked, keeps what the legs before it have.
LEMMA TurnKeeps ==
    ASSUME TunnelTypes, LegsDone, NEW leg \in Tunneled, Turn(leg), at' = at + 1,
           clean' \subseteq clean, leg \in clean' => Steered(leg)',
           \A l \in Tunneled : l # leg /\ Steered(l) => Steered(l)'
    PROVE  LegsDone'
<1>1. PICK n : n = at + 1
    OBVIOUS
<1>2. at' = n /\ n \in 1 .. Len(TunnelLegs) + 1
      /\ \A i \in 1 .. Len(TunnelLegs) : i < n => i < at \/ TunnelLegs[i] = leg
    BY <1>1, TurnPassed
<1>3. ASSUME NEW i \in 1 .. Len(TunnelLegs), i < n, TunnelLegs[i] \in clean'
      PROVE  Steered(TunnelLegs[i])'
  <2>1. CASE TunnelLegs[i] = leg
      BY <1>3, <2>1
  <2>2. CASE TunnelLegs[i] # leg
    <3>1. i < at /\ TunnelLegs[i] \in clean /\ TunnelLegs[i] \in Tunneled
        BY <1>2, <1>3, <2>2, TunnelConstants
    <3>2. Steered(TunnelLegs[i])
        BY <3>1 DEF LegsDone
    <3> QED
        BY <2>2, <3>1, <3>2
  <2> QED
      BY <2>1, <2>2
<1> QED
    BY <1>2, <1>3 DEF LegsDone

\* Every step keeps the legs that had their turn steered.
LEMMA TunnelsStepLegs ==
    ASSUME TunnelTypes, LegsDone, [TunnelsNext]_tunnelVars PROVE TunnelTypes' /\ LegsDone'
<1> USE DEF legVars, chainVars
<1>1. CASE Rebind
  <2>1. TunnelTypes'
      BY <1>1 DEF Rebind, TunnelTypes
  <2>2. LegsDone'
      BY <1>1 DEF Rebind, LegsDone
  <2> QED
      BY <2>1, <2>2
<1>2. ASSUME NEW leg \in Tunneled, TearDown(leg) PROVE TunnelTypes' /\ LegsDone'
  <2>1. Turn(leg) /\ at' = at + 1
      BY <1>2 DEF TearDown
  <2>2. TunnelTypes'
      BY <1>2, <2>1, TurnPassed DEF TearDown, TunnelTypes
  <2>3. LegsDone'
      BY <1>2, <2>1, TurnKeeps DEF TearDown, TunnelTypes, Steered
  <2> QED
      BY <2>2, <2>3
<1>3. ASSUME NEW leg \in Tunneled, NEW left \in {"absent", "wreck"}, BringUpCutShort(leg, left)
      PROVE  TunnelTypes' /\ LegsDone'
  <2>1. Turn(leg) /\ at' = at + 1
      BY <1>3 DEF BringUpCutShort
  <2>2. TunnelTypes'
      BY <1>3, <2>1, TurnPassed DEF BringUpCutShort, TunnelTypes
  <2>3. LegsDone'
      BY <1>3, <2>1, TurnKeeps DEF BringUpCutShort, TunnelTypes, Steered
  <2> QED
      BY <2>2, <2>3
<1>4. ASSUME NEW leg \in Tunneled, PinRefused(leg) PROVE TunnelTypes' /\ LegsDone'
  <2>1. Turn(leg) /\ at' = at + 1
      BY <1>4 DEF PinRefused
  <2>2. TunnelTypes'
      BY <1>4, <2>1, TurnPassed DEF PinRefused, TunnelTypes
  <2>3. LegsDone'
      BY <1>4, <2>1, TurnKeeps DEF PinRefused, TunnelTypes, Steered
  <2> QED
      BY <2>2, <2>3
<1>5. ASSUME NEW leg \in Tunneled, EnsurePathTunnel(leg) PROVE TunnelTypes' /\ LegsDone'
  <2>1. Turn(leg) /\ at' = at + 1 /\ clean' = clean
      BY <1>5 DEF EnsurePathTunnel
  <2>2. TunnelTypes'
      BY <1>5, <2>1, TurnPassed DEF EnsurePathTunnel, TunnelTypes, IpRuleEnsure
  <2>3. Steered(leg)'
      BY <1>5 DEF EnsurePathTunnel, TunnelTypes, IpRuleEnsure, Steered, Stands
  <2>4. \A l \in Tunneled : l # leg /\ Steered(l) => Steered(l)'
      BY <1>5 DEF EnsurePathTunnel, TunnelTypes, IpRuleEnsure, Steered
  <2>5. LegsDone'
      BY <2>1, <2>3, <2>4, TurnKeeps
  <2> QED
      BY <2>2, <2>5
\* The rest leaves the legs alone or starts a pass.
<1>6. ASSUME PassEnds PROVE TunnelTypes' /\ LegsDone'
  <2>1. TunnelTypes'
      BY <1>6, TunnelConstants DEF PassEnds, TunnelTypes
  <2>2. LegsDone'
      BY <1>6 DEF PassEnds, LegsDone
  <2> QED
      BY <2>1, <2>2
<1>7. ASSUME UNCHANGED <<legVars, at>> PROVE TunnelTypes' /\ LegsDone'
    BY <1>7 DEF TunnelTypes, LegsDone, Steered
<1>8. ASSUME NEW usable, NEW hops, FirewallStands(usable, hops) PROVE TunnelTypes' /\ LegsDone'
    BY <1>6, <1>8 DEF FirewallStands
<1>9. ASSUME NEW usable, FirewallFlush(usable) PROVE TunnelTypes' /\ LegsDone'
    BY <1>7, <1>9 DEF FirewallFlush
<1>10. ASSUME NEW hops, NEW filled, FirewallFill(hops, filled) PROVE TunnelTypes' /\ LegsDone'
    BY <1>6, <1>10 DEF FirewallFill
<1>11. ASSUME NEW filled, FirewallCutShort(filled) PROVE TunnelTypes' /\ LegsDone'
    BY <1>6, <1>11 DEF FirewallCutShort
<1>12. CASE AllPathsDown
    BY <1>6, <1>12 DEF AllPathsDown
<1>13. CASE FirewallReloaded
    BY <1>7, <1>13 DEF FirewallReloaded
<1>14. CASE AgentKilled
  <2>1. TunnelTypes'
      BY <1>14, TunnelConstants DEF AgentKilled, TunnelTypes
  <2>2. LegsDone'
      BY <1>14 DEF AgentKilled, LegsDone
  <2> QED
      BY <2>1, <2>2
<1>15. CASE UNCHANGED tunnelVars
    BY <1>7, <1>15 DEF tunnelVars
<1> QED
    BY <1>1, <1>2, <1>3, <1>4, <1>5, <1>8, <1>9, <1>10, <1>11, <1>12, <1>13, <1>14, <1>15
    DEF TunnelsNext

\* The count of passes goes round, and comes to 1 from 0 only.
LEMMA CountGoesRound ==
    ASSUME NEW c \in 0 .. RebuildEvery - 1
    PROVE  /\ (c + 1) % RebuildEvery \in 0 .. RebuildEvery - 1
           /\ (c + 1) % RebuildEvery = IF c + 1 = RebuildEvery THEN 0 ELSE c + 1
<1>1. RebuildEvery \in Nat /\ RebuildEvery > 1
    BY TunnelConstants
<1>2. CASE c + 1 = RebuildEvery
    BY <1>1, <1>2
<1>3. CASE c + 1 # RebuildEvery
    BY <1>1, <1>3
<1> QED
    BY <1>1, <1>2, <1>3

\* Every step keeps the chains under the route, or the count of passes without them.
LEMMA TunnelsStepChains ==
    ASSUME ChainsInv, [TunnelsNext]_tunnelVars PROVE ChainsInv'
<1> USE DEF legVars, chainVars
<1>1. ASSUME UNCHANGED chainVars PROVE ChainsInv'
    BY <1>1 DEF ChainsInv, SinceForced
<1>2. CASE Rebind
    BY <1>1, <1>2 DEF Rebind
<1>3. ASSUME NEW leg, TearDown(leg) PROVE ChainsInv'
    BY <1>1, <1>3 DEF TearDown
<1>4. ASSUME NEW leg, NEW left, BringUpCutShort(leg, left) PROVE ChainsInv'
    BY <1>1, <1>4 DEF BringUpCutShort
<1>5. ASSUME NEW leg, PinRefused(leg) PROVE ChainsInv'
    BY <1>1, <1>5 DEF PinRefused
<1>6. ASSUME NEW leg, EnsurePathTunnel(leg) PROVE ChainsInv'
    BY <1>1, <1>6 DEF EnsurePathTunnel
<1>7. /\ fw_count \in 0 .. RebuildEvery - 1 /\ flushed \in -1 .. RebuildEvery - 1
      /\ flushed <= SinceForced /\ SinceForced \in Nat /\ RebuildEvery \in Nat /\ RebuildEvery > 1
    BY TunnelConstants DEF ChainsInv, SinceForced
<1>8. ASSUME NEW usable \in SUBSET Tunneled, NEW hops \in SUBSET usable, FirewallStands(usable, hops)
      PROVE  ChainsInv'
  <2>1. PICK count : count = (fw_count + 1) % RebuildEvery
      OBVIOUS
  <2>2. /\ count # 1 /\ fw_applied = usable /\ fw_count' = count
        /\ flushed' = IF flushed = -1 THEN -1 ELSE flushed + 1
        /\ nexthops' = hops /\ chains' = chains /\ fw_applied' = fw_applied /\ filling' = filling
      BY <1>8, <2>1 DEF FirewallStands, Rebuilds
  <2>3. /\ count \in 0 .. RebuildEvery - 1
        /\ count = IF fw_count + 1 = RebuildEvery THEN 0 ELSE fw_count + 1
      BY <1>7, <2>1, CountGoesRound
  <2>4. PICK x : x = IF flushed = -1 THEN -1 ELSE flushed + 1
      OBVIOUS
  <2>5. SinceForced' = SinceForced + 1
      BY <1>7, <2>2, <2>3 DEF SinceForced
  <2>6. PICK y : y = SinceForced + 1
      OBVIOUS
  <2>7. SinceForced' \in 0 .. RebuildEvery - 1
      BY <1>7, <2>2, <2>3 DEF SinceForced
  <2>8. x <= y /\ x \in -1 .. RebuildEvery - 1
      BY <1>7, <2>4, <2>5, <2>6, <2>7
  <2>9. flushed' = x /\ SinceForced' = y
      BY <2>2, <2>4, <2>5, <2>6
  <2>10. x = -1 => flushed = -1
      BY <1>7, <2>4
  <2>11. x = -1 => nexthops' \subseteq chains'
    <3>1. usable # NoSet
        BY NoSetApart
    <3> QED
        BY <2>2, <2>10, <3>1 DEF ChainsInv
  <2>12. x = -1 => (fw_applied' # NoSet => chains' = fw_applied')
      BY <2>2, <2>10 DEF ChainsInv
  <2> QED
      BY <2>2, <2>3, <2>8, <2>9, <2>11, <2>12 DEF ChainsInv
<1>9. ASSUME NEW usable \in SUBSET Tunneled, FirewallFlush(usable) PROVE ChainsInv'
  <2>1. PICK count : count = (fw_count + 1) % RebuildEvery
      OBVIOUS
  <2>2. /\ fw_count' = count /\ flushed' = 0 /\ nexthops' = nexthops /\ chains' = {}
        /\ fw_applied' = fw_applied /\ filling' = usable
      BY <1>9, <2>1 DEF FirewallFlush
  <2>3. count \in 0 .. RebuildEvery - 1
      BY <1>7, <2>1, CountGoesRound
  <2>4. 0 <= SinceForced' /\ 0 \in -1 .. RebuildEvery - 1
      BY <1>7, <2>2, <2>3 DEF SinceForced
  <2> QED
      BY <2>2, <2>3, <2>4 DEF ChainsInv
\* What loses the chains, or puts them back, counts from 0 or not at all.
<1>10. ASSUME flushed' \in {-1, 0}, fw_count' = fw_count \/ fw_count' = 0
       PROVE  /\ flushed' \in -1 .. RebuildEvery - 1 /\ flushed' <= SinceForced'
              /\ fw_count' \in 0 .. RebuildEvery - 1
  <2>1. SinceForced' \in Nat /\ fw_count' \in 0 .. RebuildEvery - 1
      BY <1>7, <1>10 DEF SinceForced
  <2> QED
      BY <1>7, <1>10, <2>1
<1>11. ASSUME NEW hops \in SUBSET Tunneled, NEW filled \in SUBSET Tunneled, FirewallFill(hops, filled)
       PROVE  ChainsInv'
  <2>1. filling \in SUBSET Tunneled
      BY <1>11 DEF FirewallFill, ChainsInv
  <2>2. /\ flushed' = (IF filled = filling THEN -1 ELSE 0) /\ fw_count' = fw_count
        /\ chains' = filled /\ fw_applied' = filling /\ filling' = NoSet /\ nexthops' = hops
        /\ hops \subseteq filling
      BY <1>11 DEF FirewallFill
  <2>3. flushed' = -1 => filled = filling
      BY <2>2
  <2> QED
      BY <1>10, <2>1, <2>2, <2>3 DEF ChainsInv
<1>12. ASSUME NEW filled \in SUBSET Tunneled, FirewallCutShort(filled) PROVE ChainsInv'
  <2>1. /\ flushed' = 0 /\ fw_count' = fw_count /\ chains' = filled /\ filling' = NoSet
        /\ fw_applied' = fw_applied /\ nexthops' = nexthops
      BY <1>12 DEF FirewallCutShort
  <2> QED
      BY <1>10, <2>1 DEF ChainsInv
<1>13. CASE AllPathsDown
  <2>1. nexthops' = {} /\ UNCHANGED <<chains, fw_applied, fw_count, filling, flushed>>
      BY <1>13 DEF AllPathsDown
  <2> QED
      BY <2>1 DEF ChainsInv, SinceForced
<1>14. CASE FirewallReloaded
  <2>1. /\ flushed' = 0 /\ fw_count' = fw_count /\ chains' = {} /\ filling' = filling
        /\ fw_applied' = fw_applied /\ nexthops' = nexthops
      BY <1>14 DEF FirewallReloaded
  <2> QED
      BY <1>10, <2>1 DEF ChainsInv
<1>15. CASE AgentKilled
  <2>1. /\ fw_applied' = NoSet /\ fw_count' = 0 /\ filling' = NoSet
        /\ \/ /\ flushed' = IF flushed = -1 THEN -1 ELSE 0
              /\ chains' = chains /\ nexthops' = nexthops
           \/ /\ flushed' = -1 /\ chains' = {} /\ nexthops' = {}
      BY <1>15 DEF AgentKilled, ClearFirewall
  <2>2. flushed' \in {-1, 0} /\ (flushed' = -1 => nexthops' \subseteq chains')
      BY <2>1 DEF ChainsInv
  <2>3. chains' \subseteq Tunneled /\ nexthops' \subseteq Tunneled
      BY <2>1 DEF ChainsInv
  <2> QED
      BY <1>10, <2>1, <2>2, <2>3 DEF ChainsInv
<1>16. CASE UNCHANGED tunnelVars
    BY <1>1, <1>16 DEF tunnelVars
<1> QED
    BY <1>2, <1>3, <1>4, <1>5, <1>6, <1>8, <1>9, <1>11, <1>12, <1>13, <1>14, <1>15, <1>16
    DEF TunnelsNext

\* Together they give what the run checks of the tunnels and the firewall.
LEMMA TunnelsImply ==
    TunnelTypes /\ LegsDone /\ ChainsInv => TunnelsTypeOK /\ TunnelsConverge /\ RouteBehindFirewall
<1> SUFFICES ASSUME TunnelTypes, LegsDone, ChainsInv
             PROVE  TunnelsTypeOK /\ TunnelsConverge /\ RouteBehindFirewall
    OBVIOUS
<1>1. TunnelsTypeOK
    BY DEF TunnelTypes, ChainsInv, TunnelsTypeOK
<1>2. TunnelsConverge
  <2>1. ASSUME PolicyTurn, NEW l \in clean PROVE Steered(l)
    <3>1. PICK i \in 1 .. Len(TunnelLegs) : l = TunnelLegs[i]
        BY <2>1, TunnelConstants DEF TunnelTypes
    <3>2. i < at
        BY <2>1, TunnelConstants DEF PolicyTurn
    <3> QED
        BY <2>1, <3>1, <3>2 DEF LegsDone
  <2> QED
      BY <2>1 DEF TunnelsConverge, Steered
<1>3. RouteBehindFirewall
    BY TunnelConstants DEF ChainsInv, RouteBehindFirewall
<1> QED
    BY <1>1, <1>2, <1>3

-----------------------------------------------------------------------------
\* The shaper.

\* ShaperInStep, wherever the pass stands.
InStep ==
    last_applied # NoRate /\ ~undone =>
       /\ up_rate = last_applied /\ down_rate = last_applied /\ shown_rate = last_applied
       /\ last_applied = target_rate \/ ~ChangedEnough(last_applied, target_rate)

\* What the constants of the shaper are.
LEMMA ShaperConstants ==
    /\ IsFiniteSet(ShapedLegs) /\ LegRates \subseteq Nat /\ MinRate \in Nat /\ UciRate \in Nat
    /\ FractionPct \in Nat /\ HysteresisPct \in Nat
BY ShaperAssumption

\* The rates of ShaperTypeOK, and the rest of it.
RatesOK ==
    /\ up_rate \in Nat /\ down_rate \in Nat /\ last_applied \in Nat /\ shown_rate \in Nat
    /\ target_rate \in Nat
ShaperFlags ==
    /\ tunnel \in {"absent", "wreck", "live"} /\ turn \in {"tunnel", "rate"}
    /\ sqm_enabled \in BOOLEAN /\ undone \in BOOLEAN /\ members \subseteq ShapedLegs

\* An estimate is a natural number.
LEMMA TrackIsNat ==
    ASSUME NEW e \in Nat, NEW o \in Nat, NEW decays \in BOOLEAN PROVE Track(e, o, decays) \in Nat
<1>1. e \div 4 \in Nat
    OBVIOUS
<1> QED
    BY <1>1 DEF Track

\* So are those of all legs after a pass.
LEMMA EstimatesAreNat ==
    ASSUME capacity \in [ShapedLegs -> Nat], NEW carrying \in SUBSET ShapedLegs,
           NEW estimate \in Estimates(carrying)
    PROVE  estimate \in [ShapedLegs -> Nat]
<1>1. PICK rate \in [carrying -> LegRates], old \in SUBSET carrying :
         estimate = [l \in ShapedLegs |-> IF l \in carrying THEN Track(capacity[l], rate[l], l \in old)
                                          ELSE capacity[l]]
    BY DEF Estimates
<1>2. ASSUME NEW l \in ShapedLegs
      PROVE  (IF l \in carrying THEN Track(capacity[l], rate[l], l \in old) ELSE capacity[l]) \in Nat
  <2>1. CASE l \in carrying
    <3>1. capacity[l] \in Nat /\ rate[l] \in Nat
        BY <2>1, ShaperConstants
    <3> DEFINE decays == l \in old
    <3>2. decays \in BOOLEAN
        OBVIOUS
    <3> HIDE DEF decays
    <3>3. Track(capacity[l], rate[l], decays) \in Nat
        BY <3>1, <3>2, TrackIsNat
    <3> QED
        BY <2>1, <3>3 DEF decays
  <2>2. CASE l \notin carrying
      BY <2>2
  <2> QED
      BY <2>1, <2>2
<1> QED
    BY <1>1, <1>2

\* A share of a natural number is one.
LEMMA ShareIsNat ==
    ASSUME NEW m \in Nat, NEW n \in Nat PROVE (m * n) \div 100 \in Nat
<1>1. m * n \in Nat
    OBVIOUS
<1> QED
    BY <1>1

\* The rate asked for is a natural number, the estimates being summed over a finite set
\* of legs.
LEMMA TargetIsNat ==
    ASSUME NEW carrying \in SUBSET ShapedLegs, NEW estimate \in [ShapedLegs -> Nat]
    PROVE  ShapedTarget(estimate, carrying) \in Nat
<1>1. ShapedTarget(estimate, carrying)
        = LET share == (SumOver(estimate, carrying) * FractionPct) \div 100
          IN  IF share > MinRate THEN share ELSE MinRate
    BY DEF ShapedTarget, SumOver
<1>2. IsFiniteSet(carrying) /\ \A l \in carrying : estimate[l] \in Nat
    BY ShaperConstants, FS_Subset
<1>3. SumOver(estimate, carrying) \in Nat
    BY <1>2, SumIsNat
<1>4. (SumOver(estimate, carrying) * FractionPct) \div 100 \in Nat
    BY <1>3, ShareIsNat, ShaperConstants
<1> QED
    BY <1>1, <1>4, ShaperConstants

\* The shaper's invariants hold at first.
LEMMA ShaperInitInv ==
    ShaperInit => ShaperFlags /\ RatesOK /\ capacity \in [ShapedLegs -> Nat] /\ InStep
<1> SUFFICES ASSUME ShaperInit
             PROVE  ShaperFlags /\ RatesOK /\ capacity \in [ShapedLegs -> Nat] /\ InStep
    OBVIOUS
<1>1. ShaperFlags
    BY DEF ShaperInit, ShaperFlags
<1>2. RatesOK /\ capacity \in [ShapedLegs -> Nat]
    BY DEF ShaperInit, RatesOK, NoRate
<1>3. InStep
    BY DEF ShaperInit, InStep
<1> QED
    BY <1>1, <1>2, <1>3

\* Every step keeps the types of the flags.
LEMMA ShaperStepFlags ==
    ASSUME ShaperFlags, [ShaperNext]_shaperVars PROVE ShaperFlags'
<1> USE DEF controller
<1>1. CASE BringUpFails
    BY <1>1 DEF BringUpFails, ShaperFlags
<1>2. ASSUME NEW restarts \in BOOLEAN, BringUp(restarts) PROVE ShaperFlags'
    BY <1>2 DEF BringUp, ShaperFlags
<1>3. CASE TunnelStands
    BY <1>3 DEF TunnelStands, ShaperFlags
<1>4. ASSUME NEW carrying \in SUBSET ShapedLegs, NEW estimate, UpdateRate(carrying, estimate)
      PROVE  ShaperFlags'
  <2>1. /\ members' = carrying /\ turn' = "tunnel" /\ tunnel' = tunnel /\ sqm_enabled' = sqm_enabled
        /\ undone' \in BOOLEAN
      BY <1>4 DEF UpdateRate, ApplyRate, ShaperFlags
  <2> QED
      BY <2>1 DEF ShaperFlags
<1>5. CASE Unshaped
    BY <1>5 DEF Unshaped, ShaperFlags
<1>6. CASE TunnelBreaks
    BY <1>6 DEF TunnelBreaks, ShaperFlags
<1>7. CASE ShaperRestart
    BY <1>7 DEF ShaperRestart, ShaperFlags
<1>8. CASE UNCHANGED shaperVars
    BY <1>8 DEF shaperVars, ShaperFlags
<1> QED
    BY <1>1, <1>2, <1>3, <1>4, <1>5, <1>6, <1>7, <1>8 DEF ShaperNext

\* Every step keeps the rates natural numbers.
LEMMA ShaperStepRates ==
    ASSUME RatesOK, capacity \in [ShapedLegs -> Nat], [ShaperNext]_shaperVars
    PROVE  RatesOK' /\ capacity' \in [ShapedLegs -> Nat]
<1> USE DEF controller
<1>1. CASE BringUpFails
    BY <1>1 DEF BringUpFails, RatesOK, NoRate
<1>2. ASSUME NEW restarts \in BOOLEAN, BringUp(restarts)
      PROVE  RatesOK' /\ capacity' \in [ShapedLegs -> Nat]
    BY <1>2, ShaperConstants DEF BringUp, RatesOK, NoRate
<1>3. CASE TunnelStands
    BY <1>3 DEF TunnelStands, RatesOK
<1>4. ASSUME NEW carrying \in SUBSET ShapedLegs, NEW estimate \in Estimates(carrying),
             UpdateRate(carrying, estimate)
      PROVE  RatesOK' /\ capacity' \in [ShapedLegs -> Nat]
  <2> DEFINE target == ShapedTarget(estimate, carrying)
  <2>1. estimate \in [ShapedLegs -> Nat]
      BY EstimatesAreNat
  <2>2. target \in Nat
      BY <2>1, TargetIsNat
  <2>3. capacity' = estimate /\ target_rate' = target
      BY <1>4 DEF UpdateRate
  <2>4. \/ \E outcome \in Outcomes : ApplyRate(target, outcome)
        \/ UNCHANGED <<up_rate, down_rate, last_applied, shown_rate, undone>>
      BY <1>4 DEF UpdateRate
  <2> HIDE DEF target
  <2>5. up_rate' \in Nat /\ down_rate' \in Nat /\ last_applied' \in Nat /\ shown_rate' \in Nat
    <3>1. ASSUME NEW outcome \in Outcomes, ApplyRate(target, outcome)
          PROVE  up_rate' \in {up_rate, target} /\ down_rate' \in {down_rate, target}
                 /\ last_applied' \in {target, NoRate} /\ shown_rate' \in {shown_rate, target}
        BY <3>1 DEF ApplyRate, Remembered
    <3> QED
        BY <2>2, <2>4, <3>1 DEF RatesOK, NoRate
  <2> QED
      BY <2>1, <2>2, <2>3, <2>5 DEF RatesOK
<1>5. CASE Unshaped
    BY <1>5 DEF Unshaped, RatesOK
<1>6. CASE TunnelBreaks
    BY <1>6 DEF TunnelBreaks, RatesOK, NoRate
<1>7. CASE ShaperRestart
    BY <1>7 DEF ShaperRestart, RatesOK, NoRate
<1>8. CASE UNCHANGED shaperVars
    BY <1>8 DEF shaperVars, RatesOK
<1> QED
    BY <1>1, <1>2, <1>3, <1>4, <1>5, <1>6, <1>7, <1>8 DEF ShaperNext

\* Every outcome of the tc calls keeps a rate counted as applied in step.
LEMMA ShaperStepInStep ==
    ASSUME InStep, [ShaperNext]_shaperVars PROVE InStep'
<1> USE DEF controller
<1>1. CASE BringUpFails
    BY <1>1 DEF BringUpFails, InStep
<1>2. ASSUME NEW restarts \in BOOLEAN, BringUp(restarts) PROVE InStep'
    BY <1>2 DEF BringUp, InStep
<1>3. CASE TunnelStands
    BY <1>3 DEF TunnelStands, InStep, ChangedEnough
<1>4. ASSUME NEW carrying \in SUBSET ShapedLegs, NEW estimate, UpdateRate(carrying, estimate)
      PROVE  InStep'
  <2> DEFINE target == ShapedTarget(estimate, carrying)
  <2>1. target_rate' = target
      BY <1>4 DEF UpdateRate
  <2>2. \/ \E outcome \in Outcomes : ApplyRate(target, outcome)
        \/ /\ ~ChangedEnough(last_applied, target)
           /\ UNCHANGED <<up_rate, down_rate, last_applied, shown_rate, undone>>
      BY <1>4 DEF UpdateRate
  <2> HIDE DEF target
  <2>3. ASSUME NEW outcome \in Outcomes, ApplyRate(target, outcome) PROVE InStep'
      BY <2>1, <2>3 DEF ApplyRate, Remembered, InStep
  <2>4. ASSUME ~ChangedEnough(last_applied, target),
               UNCHANGED <<up_rate, down_rate, last_applied, shown_rate, undone>>
        PROVE  InStep'
      BY <2>1, <2>4 DEF InStep, ChangedEnough
  <2> QED
      BY <2>2, <2>3, <2>4
<1>5. CASE Unshaped
    BY <1>5 DEF Unshaped, InStep, ChangedEnough
<1>6. CASE TunnelBreaks
    BY <1>6 DEF TunnelBreaks, InStep
<1>7. CASE ShaperRestart
    BY <1>7 DEF ShaperRestart, InStep
<1>8. CASE UNCHANGED shaperVars
    BY <1>8 DEF shaperVars, InStep, ChangedEnough
<1> QED
    BY <1>1, <1>2, <1>3, <1>4, <1>5, <1>6, <1>7, <1>8 DEF ShaperNext

\* Together they give what the run checks of the shaper.
LEMMA ShaperImplies ==
    /\ ShaperFlags /\ RatesOK /\ capacity \in [ShapedLegs -> Nat] => ShaperTypeOK
    /\ InStep => ShaperInStep
BY DEF ShaperFlags, RatesOK, ShaperTypeOK, InStep, ShaperInStep

-----------------------------------------------------------------------------
\* The parts together.

RouteOK == RouteAll
ProveOK == ProveInv /\ ProveMisc
UplinkOK == UplinkTypes /\ UplinkCounts /\ Losses /\ Patience
TunnelsOK == TunnelTypes /\ LegsDone /\ ChainsInv
ShaperOK == ShaperFlags /\ RatesOK /\ capacity \in [ShapedLegs -> Nat] /\ InStep
AddressOK == AddressInv /\ AddressFlags

\* Every part starts as it should.
LEMMA PartsInit ==
    NetworkInit => /\ RouteOK /\ ProveOK /\ UplinkOK /\ TunnelsOK /\ ShaperOK /\ AddressOK
                   /\ CadenceInv /\ WatchdogInv
BY RouteInitAll, ProveInitInv, UplinkInitTypes, TunnelsInitInv, ShaperInitInv, AddressInitInv,
   CadenceInitInv, WatchdogInitInv
   DEF NetworkInit, RouteOK, ProveOK, UplinkOK, TunnelsOK, ShaperOK, AddressOK

\* A step of the network is for each part a step of its own or none.
LEMMA PartsStep ==
    [NetworkNext]_networkVars =>
       /\ [RouteNext]_defaultVars /\ [ProveNext]_proveVars /\ [UplinkNext]_uplinkVars
       /\ [TunnelsNext]_tunnelVars /\ [ShaperNext]_shaperVars /\ [AddressNext]_addressVars
       /\ [CadenceNext]_cadenceVars /\ [WatchdogNext]_watchdogVars
BY DEF NetworkNext, networkVars, InRoute, InProver, InUplink, InTunnels, InShaper, InAddress, InIdle,
       InWatchdog

\* The loss of an uplink keeps its invariant.
LEMMA UplinkKept ==
    UplinkOK /\ [UplinkNext]_uplinkVars => UplinkOK'
<1> SUFFICES ASSUME UplinkOK, [UplinkNext]_uplinkVars PROVE UplinkOK'
    OBVIOUS
<1>1. UplinkTypes /\ UplinkCounts /\ Losses /\ Patience
    BY DEF UplinkOK
<1>2. UplinkTypes'
    BY <1>1, UplinkStepTypes
<1>3. UplinkCounts'
    BY <1>1, UplinkStepCounts
<1>4. Losses'
    BY <1>1, UplinkStepLosses
<1>5. Patience'
    BY <1>1, <1>3, UplinkStepPatience
<1> QED
    BY <1>2, <1>3, <1>4, <1>5 DEF UplinkOK

\* The tunnels and the firewall keep theirs.
LEMMA TunnelsKept ==
    TunnelsOK /\ [TunnelsNext]_tunnelVars => TunnelsOK'
<1> SUFFICES ASSUME TunnelsOK, [TunnelsNext]_tunnelVars PROVE TunnelsOK'
    OBVIOUS
<1>1. TunnelTypes /\ LegsDone /\ ChainsInv
    BY DEF TunnelsOK
<1>2. TunnelTypes' /\ LegsDone'
    BY <1>1, TunnelsStepLegs
<1>3. ChainsInv'
    BY <1>1, TunnelsStepChains
<1> QED
    BY <1>2, <1>3 DEF TunnelsOK

\* The shaper keeps its own.
LEMMA ShaperKept ==
    ShaperOK /\ [ShaperNext]_shaperVars => ShaperOK'
<1> SUFFICES ASSUME ShaperOK, [ShaperNext]_shaperVars PROVE ShaperOK'
    OBVIOUS
<1>1. ShaperFlags /\ RatesOK /\ capacity \in [ShapedLegs -> Nat] /\ InStep
    BY DEF ShaperOK
<1>2. ShaperFlags'
    BY <1>1, ShaperStepFlags
<1>3. RatesOK' /\ capacity' \in [ShapedLegs -> Nat]
    BY <1>1, ShaperStepRates
<1>4. InStep'
    BY <1>1, ShaperStepInStep
<1> QED
    BY <1>2, <1>3, <1>4 DEF ShaperOK

\* The watchdog stops the bond on evidence about it and owes a re-arm for what
\* it tore down, wherever the power is cut, and no more than MaxRearms starts
\* fall into one window (zippie-failopen-watchdog.sh).
THEOREM WatchdogIsSound == NetworkSpec => []WatchdogSound
<1>1. NetworkInit => WatchdogInv
    BY PartsInit
<1>2. WatchdogInv /\ [NetworkNext]_networkVars => WatchdogInv'
    BY PartsStep, WatchdogStepInv
<1>3. WatchdogInv => WatchdogSound
    BY WatchdogInvImplies DEF WatchdogSound
<1> QED
    BY <1>1, <1>2, <1>3, PTL DEF NetworkSpec

\* An address of home is at hand once one was resolved, and no leg is lost to
\* the slow probes of an idle bond, where StaleTime has room for three passes and
\* three active probes (resolve_home, idle_probe_interval_s).
THEOREM HomeAlwaysInReach == ASSUME StaleTimeHasRoom PROVE NetworkSpec => []HomeStaysInReach
<1>1. NetworkInit => AddressOK /\ CadenceInv
    BY PartsInit
<1>2. AddressOK /\ CadenceInv /\ [NetworkNext]_networkVars => AddressOK' /\ CadenceInv'
    BY PartsStep, AddressStepInv, CadenceStepInv DEF AddressOK
<1>3. AddressOK /\ CadenceInv => HomeStaysInReach
  <2> SUFFICES ASSUME AddressOK, CadenceInv PROVE HomeStaysInReach
      OBVIOUS
  <2>1. AlwaysSomewhereToDial
      BY AddressInvImplies DEF AddressOK
  <2>2. IdlingKeepsLegs
      BY StaleTimeHasRoom, CadenceInvImplies
  <2> QED
      BY <2>1, <2>2 DEF HomeStaysInReach
<1> QED
    BY <1>1, <1>2, <1>3, PTL DEF NetworkSpec

\* What the agent remembers of the default route is so, a route that was written
\* over is put back, and the gate of the packet datapath opens on what was handed
\* up within the window (_install_default_route, _packet_datapath_delivering).
THEOREM DefaultRouteIsSound == NetworkSpec => DefaultRouteSound
<1>1. NetworkInit => RouteOK /\ ProveOK
    BY PartsInit
<1>2. RouteOK /\ [NetworkNext]_networkVars => RouteOK'
    BY PartsStep, RouteStep DEF RouteOK
<1>3. ProveOK /\ [NetworkNext]_networkVars => ProveOK' /\ [Earned]_proveVars
    BY PartsStep, ProveStep DEF ProveOK
<1>4. RouteOK => RememberedRoute /\ ClobberHeals
    BY RouteAllImplies DEF RouteOK
<1>5. [Earned]_proveVars =>
        [delivering' /\ ~delivering =>
            /\ Cardinality(Lately') >= MinPayloads
            /\ Cardinality({i \in Lately' : handed'[i].bulk}) >= MinBulk]_proveVars
    BY DEF Earned
<1> QED
    BY <1>1, <1>2, <1>3, <1>4, <1>5, PTL DEF NetworkSpec, DefaultRouteSound, RouteIsEarned

\* The bond stands aside after a run of bad verdicts and comes back after a run of
\* good ones, or because nothing else is left (BondStanddown.evaluate).
THEOREM StanddownStaysSustained == NetworkSpec => StanddownIsSustained
<1>1. NetworkInit => RouteOK
    BY PartsInit
<1>2. RouteOK /\ [NetworkNext]_networkVars => RouteOK' /\ [Sustained]_defaultVars
    BY PartsStep, RouteStep DEF RouteOK
<1>3. [Sustained]_defaultVars =>
        [/\ ~standing /\ standing' => bad_run' = EnterAfter
         /\ standing /\ ~standing' /\ ~fresh' => good_run' = RecoverAfter \/ sole'
         /\ sole' => ~standing']_defaultVars
    BY DEF Sustained
<1> QED
    BY <1>1, <1>2, <1>3, PTL DEF NetworkSpec, StanddownIsSustained

\* An uplink that lost its address is in no route after the next whole pass, and
\* one that lost its route is bounced within two cooldowns (probe_paths,
\* apply_policy, _heal_uplink, AddressLossMonitor).
THEOREM UplinkLossIsHandled == NetworkSpec => []UplinkLossHandled
<1>1. NetworkInit => UplinkOK
    BY PartsInit
<1>2. UplinkOK /\ [NetworkNext]_networkVars => UplinkOK'
    BY PartsStep, UplinkKept
<1>3. UplinkOK => UplinkLossHandled
    BY UplinkImplies DEF UplinkOK
<1> QED
    BY <1>1, <1>2, <1>3, PTL DEF NetworkSpec

\* Tunnels end a clean pass pinned to their uplinks, the default route stays on
\* tunnels that clients can use, but for a bounded number of passes, and the
\* shaper's rate is the one asked for (_ensure_path_tunnel, ensure_firewall,
\* _update_bond_shaper_rate).
THEOREM KernelAlwaysConverges == NetworkSpec => []KernelConverges
<1>1. NetworkInit => TunnelsOK /\ ShaperOK
    BY PartsInit
<1>2. TunnelsOK /\ ShaperOK /\ [NetworkNext]_networkVars => TunnelsOK' /\ ShaperOK'
    BY PartsStep, TunnelsKept, ShaperKept
<1>3. TunnelsOK /\ ShaperOK => KernelConverges
    BY TunnelsImply, ShaperImplies DEF TunnelsOK, ShaperOK, KernelConverges
<1> QED
    BY <1>1, <1>2, <1>3, PTL DEF NetworkSpec

\* All eight parts keep their types; a private address of home never reaches the
\* disk.
THEOREM NetworkTypeCorrect == NetworkSpec => []NetworkTypeOK
<1> DEFINE All == /\ RouteOK /\ ProveOK /\ UplinkOK /\ TunnelsOK /\ ShaperOK /\ AddressOK
                  /\ CadenceInv /\ WatchdogInv
<1>1. NetworkInit => All
    BY PartsInit
<1>2. All /\ [NetworkNext]_networkVars => All'
    BY PartsStep, RouteStep, ProveStep, UplinkKept, TunnelsKept, ShaperKept, AddressStepInv,
       CadenceStepInv, WatchdogStepInv DEF RouteOK, ProveOK, AddressOK
<1>3. All => NetworkTypeOK
  <2> SUFFICES ASSUME All PROVE NetworkTypeOK
      OBVIOUS
  <2>1. RouteTypeOK /\ ProveTypeOK
      BY RouteAllImplies, ProveInvImplies DEF RouteOK, ProveOK
  <2>2. UplinkTypeOK /\ TunnelsTypeOK /\ ShaperTypeOK
      BY UplinkImplies, TunnelsImply, ShaperImplies DEF UplinkOK, TunnelsOK, ShaperOK
  <2>3. AddressTypeOK
      BY DEF AddressOK, AddressInv, AddressFlags, AddressTypeOK
  <2>4. CadenceTypeOK
      BY DEF CadenceInv
  <2>5. WatchdogTypeOK
      BY DEF WatchdogInv, FlagsOK, CountsOK, WatchdogTypeOK
  <2> QED
      BY <2>1, <2>2, <2>3, <2>4, <2>5 DEF NetworkTypeOK
<1> QED
    BY <1>1, <1>2, <1>3, PTL DEF NetworkSpec

=============================================================================
