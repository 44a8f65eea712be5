---------------------------- MODULE MCScheduler ----------------------------
(***************************************************************************)
(* Scheduler for TLC.  A leg's id is only compared for equality, so the    *)
(* ids may be permuted.                                                    *)
(***************************************************************************)
EXTENDS Scheduler, TLC

PathSymmetry == Permutations(Paths)

\* Sprayed traffic with duplication as configured, and duplicated traffic with
\* adaptive duplication, where shares of two sizes give the ranking something to
\* rank.  Neither part of the state influences the other.
Spray == [weights |-> {0, 1}, spray |-> TRUE, adaptive |-> FALSE]
Duplicate == [weights |-> {0, 1, 2}, spray |-> FALSE, adaptive |-> TRUE]

MCDeployments == {Spray, Duplicate}
MCSprayOnly == {Spray}

=============================================================================
