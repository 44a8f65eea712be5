--------------------------- MODULE MCReceivePath ---------------------------
(* Model values and bounds for checking ReceivePath with TLC.              *)
EXTENDS ReceivePath, TLC

\* The floor is one unit; a deadline of two leaves a ceiling of one unit, a
\* deadline of three one of two: as in the code, the ceiling is a fraction of
\* the deadline and never below the floor.
MCDeadlines == {2, 3}
MCCeilings == {1, 2}
MCCeiling == [d \in MCDeadlines |-> d - 1]

LegSymmetry == Permutations(Legs)

=============================================================================
