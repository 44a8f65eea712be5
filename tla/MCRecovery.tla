----------------------------- MODULE MCRecovery -----------------------------
(* Model values and bounds for checking Recovery with TLC.                 *)
EXTENDS Recovery

MCDeadlines == {3}
MCCeilings == {2}
MCCeiling == [d \in MCDeadlines |-> 2]
MCHoldTimes == {3, 4}

LegSymmetry == Permutations(Legs)

=============================================================================
