---------------------------- MODULE MCStreamEnds ----------------------------
(***************************************************************************)
(* What the two ends of a stream keep about each other, for TLC: the epoch *)
(* gate of both ends, and the recovery windows an end adapts.  The two do  *)
(* not touch each other's state; part says which of them a behaviour is    *)
(* about, and the other stays as it started.                               *)
(***************************************************************************)
EXTENDS AdaptiveRecovery, EpochGate

VARIABLE part

\* Both ends probe, as deployed (build_home_transport sets home_downstream).
BothEnds == {"home", "travel"}

\* Round trips below every threshold, just above that of the baseline, above
\* all; skews covered by the baseline, a little more than it, far beyond the
\* ceiling.
MCRtts == {100, 201, 1500}
MCSkews == {0, 150, 700}

endsVars == <<adaptVars, vars, part>>

EndsInit == AdaptInit /\ Init /\ part \in {"windows", "gate"}

InWindows(A) == part = "windows" /\ A /\ UNCHANGED <<vars, part>>
InGate(A) == part = "gate" /\ A /\ UNCHANGED <<adaptVars, part>>

EndsNext == InWindows(AdaptNext) \/ InGate(Next)

\* The fairness of AdaptiveRecovery and of EpochGate.
EndsFairness ==
    /\ WF_endsVars(InWindows(AdaptClockStep)) /\ WF_endsVars(InWindows(MaybeAdaptRecovery))
    /\ WF_endsVars(InGate(ClockStep))
    /\ WF_endsVars(InGate(SendData("travel")))
    /\ SF_endsVars(InGate(Through("home", "data")))
    /\ \A e \in BothEnds :
        /\ WF_endsVars(InGate(SendProbe(e)))
        /\ SF_endsVars(InGate(Through(Peer(e), "probe")))
        /\ SF_endsVars(InGate(Through(e, "reply")))

EndsSpec == EndsInit /\ [][EndsNext]_endsVars /\ EndsFairness

\* Relaxes, of the behaviours of the windows: once nothing is wrong any more,
\* adaptive recovery goes back to its baseline.
WindowsRelax == part = "windows" => Relaxes

\* Reconverges, of the behaviours of the gate: no restart wedges the bond.
EndsReconverge == part = "gate" => Reconverges

=============================================================================
