----------------------------- MODULE Scheduler -----------------------------
(***************************************************************************)
(* The sending side's leg scheduler (Scheduler of                          *)
(* travel/bond-agent/zippie/datapath.py): weighted round robin by credit,  *)
(* bounded duplication, and the hysteresis that widens duplication while   *)
(* every carrying leg loses packets.  The agent's control thread and the   *)
(* transport loop call it under one lock, so each call is one step.        *)
(*                                                                         *)
(* Credit is kept in units of 1/Unit packet; Unit is a common multiple of  *)
(* the totals that can occur, so that no share is rounded.  A loss reading *)
(* is abstracted to where it lies: below half the threshold, up to it,     *)
(* above it, or not known.                                                 *)
(***************************************************************************)
EXTENDS Integers, Sequences, FiniteSets, SequencesExt, FiniteSetsExt

CONSTANTS
    Paths,      \* path ids
    Deployments,\* what the traffic and the settings may be
    Fanout,     \* duplicate_fanout, already clamped
    Sustained,  \* samples to enter and to leave the wide state
    Unit,       \* credit units in one packet
    Losses      \* the loss readings that occur

\* The shares the policy layer hands out, whether traffic is sprayed, and
\* whether adaptive_duplicate_loss_pct is a threshold that is judged.
ASSUME DeploymentsAssumption ==
    Deployments \subseteq [weights : SUBSET Nat, spray : BOOLEAN, adaptive : BOOLEAN]
ASSUME FanoutAssumption == Fanout \in Nat /\ Fanout >= 2
ASSUME SustainedAssumption == Sustained \in Nat \ {0}
ASSUME PathsAssumption == IsFiniteSet(Paths)
ASSUME UnitAssumption ==
    /\ Unit \in Nat \ {0}
    /\ \A d \in Deployments : d.spray =>
          \A legs \in SUBSET Paths : \A w \in [legs -> d.weights] :
              LET total == MapThenSumSet(LAMBDA p : w[p], legs)
              IN  total > 0 => Unit % total = 0
ASSUME LossesAssumption == Losses \subseteq {"low", "mid", "high", "unknown"}

VARIABLES
    deployment, \* fixed while the process runs
    order,      \* keys of _paths, in insertion order
    weight,
    healthy,
    credit,     \* _credit
    wide,       \* _duplicate_wide
    members,    \* _duplicate_carrying
    high,       \* _duplicate_high
    low,        \* _duplicate_low
    loss,       \* the loss last measured on each leg
    waited,     \* history: sprays since a leg was chosen, the legs unchanged
    lossy       \* history: samples in a row a leg read lossy (positive) or clean
                \* (negative), the legs unchanged

dupVars == <<wide, members, high, low>>
histVars == <<waited, lossy>>
vars == <<deployment, order, weight, healthy, credit, dupVars, loss, histVars>>

Zero == [p \in Paths |-> 0]

TypeOK ==
    /\ deployment \in Deployments
    /\ order \in Seq(Paths) /\ IsInjective(order)
    /\ weight \in [Paths -> Nat]
    /\ healthy \in [Paths -> BOOLEAN]
    /\ credit \in [Paths -> Int]
    /\ wide \in BOOLEAN
    /\ members \subseteq Paths
    /\ high \in 0 .. Sustained - 1
    /\ low \in 0 .. Sustained - 1
    /\ loss \in [Paths -> Losses \cup {"unknown"}]
    /\ waited \in [Paths -> Nat]
    /\ lossy \in [Paths -> -Sustained .. Sustained]

Init ==
    /\ deployment \in Deployments
    /\ order = << >>
    /\ weight = Zero
    /\ healthy = [p \in Paths |-> TRUE]
    /\ credit = Zero
    /\ wide = FALSE /\ members = {} /\ high = 0 /\ low = 0
    /\ loss = [p \in Paths |-> "unknown"]
    /\ waited = Zero
    /\ lossy = Zero

-----------------------------------------------------------------------------
Registered == ToSet(order)
Weighted(p) == healthy[p] /\ weight[p] > 0

\* The healthy legs with a share, or every healthy leg while none has one.
Carrying ==
    LET able == {p \in Registered : healthy[p]}
        weighted == {p \in Registered : Weighted(p)}
    IN  IF weighted # {} THEN weighted ELSE able

\* Legs of equal merit go by their place in _paths.
Before(p, q) == \E i, j \in DOMAIN order : i < j /\ order[i] = p /\ order[j] = q

-----------------------------------------------------------------------------
\* Python's max: the first of the legs that score highest.
FirstBest(legs, score) ==
    CHOOSE p \in legs : \A q \in legs \ {p} :
        score[q] < score[p] \/ (score[q] = score[p] /\ Before(p, q))

SumWeights(legs) == MapThenSumSet(LAMBDA p : weight[p], legs)

\* The divisor of a share: 1 while no leg has one.
Total(legs) == IF SumWeights(legs) = 0 THEN 1 ELSE SumWeights(legs)

Credited(legs) ==
    [p \in Paths |-> IF p \in legs
                     THEN credit[p] + (Unit * weight[p]) \div Total(legs)
                     ELSE credit[p]]

\* Mutant: the legs with the smallest shares first.
AheadByLeast(p, q) ==
    weight[p] < weight[q] \/ (weight[p] = weight[q] /\ Before(p, q))

\* sorted by -weight keeps the order of equals.
Ahead(p, q) ==
    weight[p] > weight[q] \/ (weight[p] = weight[q] /\ Before(p, q))

\* _duplicate_targets, each of which gets one copy.
DuplicateTargets(legs) ==
    IF (wide /\ legs = members) \/ Cardinality(legs) <= Fanout
    THEN legs
    ELSE {p \in legs : Cardinality({q \in legs : Ahead(q, p)}) < Fanout}

-----------------------------------------------------------------------------
\* Mutant: the chosen leg is not charged.
ChargeNothing(credited, p) == credited

\* The chosen leg pays for the packet.
Charge(credited, p) == [credited EXCEPT ![p] = @ - Unit]

\* select in SPRAY mode.  The other modes read the state and leave it alone,
\* and with no healthy leg there is nothing to select.
SendSpray ==
    /\ deployment.spray
    /\ Carrying # {}
    /\ LET credited == Credited(Carrying)
           p == FirstBest(Carrying, credited)
       IN  /\ credit' = Charge(credited, p)
           /\ waited' = [q \in Paths |-> IF q # p /\ q \in Carrying /\ weight[q] > 0
                                         THEN waited[q] + 1 ELSE 0]
    /\ UNCHANGED <<deployment, order, weight, healthy, dupVars, loss, lossy>>

-----------------------------------------------------------------------------
\* _reset_duplicate_loss, where the condition holds.
ResetDuplicateLossIf(changed) ==
    /\ wide' = (wide /\ ~ changed)
    /\ high' = IF changed THEN 0 ELSE high
    /\ low' = IF changed THEN 0 ELSE low
    /\ UNCHANGED members

\* The history is about one set of legs and shares.
Forget(changed) ==
    /\ waited' = IF changed THEN Zero ELSE waited
    /\ lossy' = IF changed THEN Zero ELSE lossy

\* A leg that is added again keeps its place.
Joined(p) == IF p \in Registered THEN order ELSE Append(order, p)

AddPath(p, w) ==
    /\ order' = Joined(p)
    /\ weight' = [weight EXCEPT ![p] = w]
    /\ healthy' = [healthy EXCEPT ![p] = TRUE]
    /\ credit' = IF p \in Registered THEN credit ELSE [credit EXCEPT ![p] = 0]
    /\ ResetDuplicateLossIf(TRUE)
    /\ Forget(TRUE)
    /\ UNCHANGED <<deployment, loss>>

\* The values of a leg that is gone are put back to their defaults.
RemovePath(p) ==
    /\ \E i \in DOMAIN order : order[i] = p /\ order' = RemoveAt(order, i)
    /\ weight' = [weight EXCEPT ![p] = 0]
    /\ healthy' = [healthy EXCEPT ![p] = TRUE]
    /\ credit' = [credit EXCEPT ![p] = 0]
    /\ ResetDuplicateLossIf(TRUE)
    /\ Forget(TRUE)
    /\ UNCHANGED <<deployment, loss>>

SetHealthy(p, h) ==
    /\ p \in Registered
    /\ healthy' = [healthy EXCEPT ![p] = h]
    /\ ResetDuplicateLossIf(healthy[p] # h)
    /\ Forget(healthy[p] # h)
    /\ UNCHANGED <<deployment, order, weight, credit, loss>>

SetWeight(p, w) ==
    /\ p \in Registered
    /\ weight' = [weight EXCEPT ![p] = w]
    /\ ResetDuplicateLossIf((weight[p] > 0) # (w > 0))
    /\ waited' = IF weight[p] # w THEN Zero ELSE waited
    /\ lossy' = IF (weight[p] > 0) # (w > 0) THEN Zero ELSE lossy
    /\ UNCHANGED <<deployment, order, healthy, credit, loss>>

-----------------------------------------------------------------------------
\* Mutant: one persistently bad leg holds the bond wide.
RecoveredAll(legs) == \A p \in legs : loss[p] = "low"

\* Exit: any leg below half the threshold ends the correlated episode.
Recovered(legs) == \E p \in legs : loss[p] = "low"

\* Mutant: one bad leg is enough to widen.
AnyLossy(legs) == \E p \in legs : loss[p] = "high"

\* Entry: loss on every carrying leg.
AllLossy(legs) == \A p \in legs : loss[p] = "high"

\* _step_duplicate_loss.
StepWide(legs) ==
    LET n == IF Recovered(legs) THEN low + 1 ELSE 0
    IN  /\ wide
        /\ wide' = (n < Sustained)
        /\ low' = IF n < Sustained THEN n ELSE 0
        /\ high' = IF n < Sustained THEN high ELSE 0

StepNarrow(legs, n_high, n_low) ==
    LET n == IF AllLossy(legs) THEN n_high + 1 ELSE 0
    IN  /\ wide' = (n >= Sustained)
        /\ high' = IF n < Sustained THEN n ELSE 0
        /\ low' = IF n < Sustained THEN n_low ELSE 0

Judgeable(legs) ==
    /\ deployment.adaptive
    /\ Cardinality(legs) > Fanout
    /\ \A p \in legs : loss[p] # "unknown"

\* History: readings of one kind in a row on each carrying leg.
Sampled(legs) ==
    lossy' = [p \in Paths |->
        CASE p \in legs /\ loss[p] = "high" -> Min({Max({lossy[p], 0}) + 1, Sustained})
          [] p \in legs /\ loss[p] = "low" -> Max({Min({lossy[p], 0}) - 1, -Sustained})
          [] OTHER -> 0]

\* update_duplicate_loss
UpdateDuplicateLoss ==
    LET legs == Carrying
    IN  /\ members' = legs
        /\ \/ ~ Judgeable(legs) /\ wide' = FALSE /\ high' = 0 /\ low' = 0
           \/ Judgeable(legs) /\ legs # members /\ StepNarrow(legs, 0, 0)
           \/ Judgeable(legs) /\ legs = members /\ StepWide(legs)
           \/ Judgeable(legs) /\ legs = members /\ ~ wide /\ StepNarrow(legs, high, low)
        /\ Sampled(legs)
        /\ UNCHANGED <<deployment, order, weight, healthy, credit, loss, waited>>

\* The loss measured on a leg changes; without a threshold none is measured.
Measure(p, l) ==
    /\ deployment.adaptive
    /\ l # loss[p]
    /\ loss' = [loss EXCEPT ![p] = l]
    /\ UNCHANGED <<deployment, order, weight, healthy, credit, dupVars, histVars>>

Next ==
    \/ SendSpray
    \/ \E p \in Paths :
        \/ RemovePath(p)
        \/ \E w \in deployment.weights : AddPath(p, w) \/ SetWeight(p, w)
        \/ \E h \in BOOLEAN : SetHealthy(p, h)
        \/ \E l \in Losses : Measure(p, l)
    \/ UpdateDuplicateLoss

Spec == Init /\ [][Next]_vars

-----------------------------------------------------------------------------
\* Where traffic is sprayed some healthy leg has a share, or no leg is healthy:
\* the bond has proven at least one leg.
Proven ==
    deployment.spray /\ (\E p \in Registered : healthy[p]) =>
        \E p \in Registered : Weighted(p)

\* A spray never runs away from a leg: nobody's credit leaves a band of a
\* packet per leg, however legs join, leave, flap and change share.
CreditBounded ==
    \A p \in Paths : credit[p] \in -Unit * Cardinality(Paths) .. Unit * Cardinality(Paths)

\* However uneven the shares, no leg starves: it gets its next packet before the
\* packets it has watched go by, times its share of them, come to two per other leg.
WaitsByShare ==
    \A p \in Carrying :
        waited[p] * weight[p] <= 2 * (Cardinality(Paths) - 1) * SumWeights(Carrying)

\* Credit spreads the packets: with the legs and shares unchanged, a leg that
\* has a share is never passed over more than MaxWait times in a row.
MaxWait == 2 * Cardinality(Paths)
SpreadsSmoothly == \A p \in Paths : waited[p] <= MaxWait

\* Widening is earned by the very legs it copies to: each has read lossy in the
\* last Sustained samples, and the set was the same all the while.
WideningIsEarned ==
    [][~ wide /\ wide' => \A p \in Carrying : lossy'[p] = Sustained]_vars

\* The wide state never outlives the legs that earned it, so that an unmeasured
\* leg never takes part in it.
WideMatchesLegs == wide => members = Carrying

\* A duplicated packet costs Fanout frames at any number of legs, each on a leg
\* of its own that carries, none of them with a smaller share than one left out.
DuplicatesOnTheBest ==
    LET targets == DuplicateTargets(Carrying)
    IN  /\ targets \subseteq Carrying
        /\ ~ wide => Cardinality(targets) = Min({Cardinality(Carrying), Fanout})
        /\ \A p \in targets, q \in Carrying \ targets : weight[p] >= weight[q]

\* One clean leg ends the wide state, however bad the others stay: no leg of a
\* wide bond has read clean in each of the last Sustained samples.
CleanLegNarrows == wide => \A p \in Carrying : lossy[p] > -Sustained

\* The state of the scheduler, however legs come, go, flap and change share.
SchedulerConsistent == TypeOK /\ CreditBounded /\ WaitsByShare /\ WideMatchesLegs

\* Duplication costs what it must and goes where it helps: the copies go to the
\* best legs, and one clean leg is enough to stop copying widely.
DuplicatesWell == DuplicatesOnTheBest /\ CleanLegNarrows

=============================================================================
