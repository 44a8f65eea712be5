-------------------------- MODULE StreamEndsProofs --------------------------
(***************************************************************************)
(* Proofs about what the two ends of a stream keep about each other        *)
(* (AdaptiveRecovery and EpochGate): for every baseline, step, hysteresis  *)
(* length, hold and set of measurements, and for every number of restarts, *)
(* takeover window and set of probe ids.                                   *)
(***************************************************************************)
EXTENDS MCStreamEnds, SequenceTheorems, TLAPS

-----------------------------------------------------------------------------
\* The recovery windows.

\* The streak the code counts is never longer than the calm the bond had.
Inv == AdaptTypeOK /\ WindowsInStep /\ healthy_streak <= calm

LEMMA DivNat == \A n \in Nat : n \div 3 \in Nat /\ n \div 5 \in Nat
  OBVIOUS

LEMMA MaxDeadlineNat == MaxDeadline \in Nat
<1>1. \A a, b \in Nat : a * b \in Nat
  OBVIOUS
<1> QED
  BY <1>1, WindowsAssumption, ConfiguredMaxAssumption DEF MaxDeadline, Smaller

LEMMA TargetNat ==
    ASSUME NEW skew \in Skews \cup {Unset}
    PROVE  Target(skew) \in Nat
<1>1. CASE skew = Unset
  BY <1>1, WindowsAssumption DEF Target
<1>2. CASE skew \in Skews /\ skew # Unset
  <2>1. (skew + ProbeMargin) * 5 + 2 \in Nat
    BY <1>2, WindowsAssumption
  <2>2. Needed(skew) \in Nat
    BY <2>1, DivNat DEF Needed
  <2> QED
    BY <1>2, <2>2, MaxDeadlineNat, WindowsAssumption DEF Target, Smaller, Larger
<1> QED
  BY <1>1, <1>2

\* The hold derived from a deadline exceeds it.
LEMMA DerivedType ==
    ASSUME NEW d \in Nat
    PROVE  /\ Derived(d) \in [reorder : Nat, hold : Nat, ceiling : Nat]
           /\ HoldFor(d) > d
<1>1. HoldMargin \in Nat /\ HoldMargin > 0
  BY WindowsAssumption DEF HoldMargin, Larger
<1>2. CeilingFor(d) \in Nat
  BY DivNat, WindowsAssumption DEF CeilingFor, Larger
<1> QED
  BY <1>1, <1>2 DEF Derived, HoldFor

\* Moving the deadline to d keeps the windows in step.
LEMMA ApplyInStep ==
    ASSUME NEW d \in Nat, Apply(d)
    PROVE  /\ deadline' \in Nat
           /\ applied' \in [reorder : Nat, hold : Nat, ceiling : Nat]
           /\ WindowsInStep'
  BY DerivedType DEF Apply, Derived, WindowsInStep

LEMMA InvInit == AdaptInit => Inv
<1> SUFFICES ASSUME AdaptInit PROVE Inv
  OBVIOUS
<1>1. Baseline \in Nat /\ ConfiguredHold \in Nat /\ Sustained \in Nat \ {0}
  BY WindowsAssumption
<1>2. Derived(Baseline) \in [reorder : Nat, hold : Nat, ceiling : Nat]
  BY <1>1, DerivedType
<1>3. WindowsInStep
  BY <1>1, <1>2 DEF AdaptInit, WindowsInStep, Derived
<1>4. applied \in [reorder : Nat, hold : Nat, ceiling : Nat]
  BY <1>1, <1>2 DEF AdaptInit
<1>5. evidence \in BOOLEAN
  BY DEF AdaptInit
<1> QED
  BY <1>1, <1>3, <1>4, <1>5 DEF AdaptInit, Inv, AdaptTypeOK, measured

\* Every step keeps the invariant, and narrows the window only after a calm.
LEMMA InvStep ==
    ASSUME Inv, [AdaptNext]_adaptVars
    PROVE  /\ Inv'
           /\ deadline' < deadline => calm + 1 >= Sustained /\ deadline - deadline' <= Step
           /\ deadline \in Nat
<1> USE WindowsAssumption
<1>0. /\ deadline \in Nat /\ healthy_streak \in 0 .. Sustained - 1
      /\ eval_age \in Nat \cup {Unset} /\ evidence \in BOOLEAN
      /\ applied \in [reorder : Nat, hold : Nat, ceiling : Nat]
      /\ calm \in Nat /\ healthy_streak <= calm /\ WindowsInStep
      /\ worst_rtt \in Rtts \cup {Unset} /\ peer_skew \in Skews \cup {Unset}
  BY DEF Inv, AdaptTypeOK
<1>1. ASSUME NEW skew \in Skews \cup {Unset}, Widen(skew), UNCHANGED measured
      PROVE  Inv' /\ deadline' > deadline
  <2>1. Target(skew) \in Nat /\ Apply(Target(skew))
    BY <1>1, TargetNat DEF Widen
  <2>2. deadline' \in Nat /\ WindowsInStep'
        /\ applied' \in [reorder : Nat, hold : Nat, ceiling : Nat]
    BY <2>1, ApplyInStep
  <2> QED
    BY <1>0, <1>1, <2>2 DEF Widen, Apply, Inv, AdaptTypeOK, measured
<1>2. ASSUME NEW skew \in Skews \cup {Unset}, TooSoon(skew), UNCHANGED measured
      PROVE  Inv' /\ deadline' = deadline
  BY <1>2 DEF TooSoon, adaptVars, Inv, AdaptTypeOK, measured, WindowsInStep
<1>3. ASSUME NEW skew \in Skews \cup {Unset}, FirstEval(skew), UNCHANGED measured
      PROVE  Inv' /\ deadline' = deadline
  BY <1>3 DEF FirstEval, Inv, AdaptTypeOK, measured, WindowsInStep
<1>4. ASSUME NEW rtt, NEW skew \in Skews \cup {Unset}, EvalImpaired(rtt, skew), UNCHANGED measured
      PROVE  Inv' /\ deadline' >= deadline
  <2>1. eval_age' = 0 /\ evidence' \in BOOLEAN /\ healthy_streak' = 0 /\ calm' = 0
    BY <1>4 DEF EvalImpaired, Evaluates
  <2>2. CASE deadline < MaxDeadline
    <3>1. /\ Smaller(MaxDeadline, deadline + Step) \in Nat
          /\ Smaller(MaxDeadline, deadline + Step) >= deadline
      BY <1>0, <2>2, MaxDeadlineNat DEF Smaller
    <3>2. Apply(Smaller(MaxDeadline, deadline + Step))
      BY <1>4, <2>2 DEF EvalImpaired
    <3>3. deadline' \in Nat /\ WindowsInStep'
          /\ applied' \in [reorder : Nat, hold : Nat, ceiling : Nat]
      BY <3>1, <3>2, ApplyInStep
    <3> QED
      BY <1>0, <1>4, <2>1, <3>1, <3>2, <3>3 DEF Apply, Inv, AdaptTypeOK, measured
  <2>3. CASE ~ (deadline < MaxDeadline)
    <3>1. UNCHANGED <<deadline, applied>>
      BY <1>4, <2>3 DEF EvalImpaired
    <3> QED
      BY <1>0, <1>4, <2>1, <3>1 DEF Inv, AdaptTypeOK, measured, WindowsInStep
  <2> QED BY <2>2, <2>3
<1>5. ASSUME NEW rtt, NEW skew \in Skews \cup {Unset}, EvalRelax(rtt, skew), UNCHANGED measured
      PROVE  /\ Inv'
             /\ calm + 1 >= Sustained /\ deadline - deadline' <= Step
  <2>1. /\ eval_age' = 0 /\ evidence' \in BOOLEAN /\ healthy_streak' = 0 /\ calm' = 0
        /\ healthy_streak + 1 >= Sustained
        /\ Apply(Larger(Target(skew), deadline - Step))
    BY <1>5 DEF EvalRelax, Evaluates
  <2>2. /\ Larger(Target(skew), deadline - Step) \in Nat
        /\ Larger(Target(skew), deadline - Step) >= deadline - Step
    BY <1>0, TargetNat DEF Larger
  <2>3. deadline' \in Nat /\ WindowsInStep'
        /\ applied' \in [reorder : Nat, hold : Nat, ceiling : Nat]
    BY <2>1, <2>2, ApplyInStep
  <2> QED
    BY <1>0, <1>5, <2>1, <2>2, <2>3 DEF Apply, Inv, AdaptTypeOK, measured
<1>6. ASSUME NEW rtt, NEW skew \in Skews \cup {Unset}, EvalHealthy(rtt, skew), UNCHANGED measured
      PROVE  Inv' /\ deadline' = deadline
  <2>1. /\ eval_age' = 0 /\ evidence' = FALSE /\ UNCHANGED <<deadline, applied>>
        /\ calm' = Smaller(calm + 1, Sustained)
        /\ \/ healthy_streak + 1 < Sustained /\ healthy_streak' = healthy_streak + 1
           \/ healthy_streak' = healthy_streak
    BY <1>6 DEF EvalHealthy, Evaluates
  <2>2. calm' \in Nat /\ healthy_streak' \in 0 .. Sustained - 1 /\ healthy_streak' <= calm'
    BY <1>0, <2>1 DEF Smaller
  <2> QED
    BY <1>0, <1>6, <2>1, <2>2 DEF Inv, AdaptTypeOK, measured, WindowsInStep
<1>7. ASSUME NoteEvidence
      PROVE  Inv' /\ deadline' = deadline
  BY <1>7 DEF NoteEvidence, Inv, AdaptTypeOK, measured, WindowsInStep
<1>8. ASSUME AdaptClockStep
      PROVE  Inv' /\ deadline' = deadline
  BY <1>8 DEF AdaptClockStep, Inv, AdaptTypeOK, measured, WindowsInStep
<1>9. ASSUME NEW rtt \in Rtts \cup {Unset}, NEW skew \in Skews \cup {Unset}, Measure(rtt, skew)
      PROVE  Inv' /\ deadline' = deadline
  BY <1>9 DEF Measure, Inv, AdaptTypeOK, WindowsInStep
<1>10. ASSUME UNCHANGED adaptVars
      PROVE  Inv' /\ deadline' = deadline
  BY <1>10 DEF adaptVars, Inv, AdaptTypeOK, measured, WindowsInStep
<1> QED
  BY <1>0, <1>1, <1>2, <1>3, <1>4, <1>5, <1>6, <1>7, <1>8, <1>9, <1>10
  DEF AdaptNext, MaybeAdaptRecovery, MaybeAdapt, Inv, AdaptTypeOK

\* Type correctness of adaptive recovery; in particular the healthy streak
\* never runs past the number of evaluations that cash it in.
THEOREM AdaptiveTypeCorrect == AdaptSpec => []AdaptTypeOK
<1>1. Inv => AdaptTypeOK
  BY DEF Inv
<1>2. Inv /\ [AdaptNext]_adaptVars => Inv'
  BY InvStep
<1> QED
  BY <1>1, <1>2, InvInit, PTL DEF AdaptSpec

\* The reassembler's deadline, the retransmit hold and the NACK ceiling stay
\* derived from one number, and a moved deadline never outgrows the hold.
THEOREM WindowsStayInStep == AdaptSpec => []WindowsInStep
<1>1. Inv => WindowsInStep
  BY DEF Inv
<1>2. Inv /\ [AdaptNext]_adaptVars => Inv'
  BY InvStep
<1> QED
  BY <1>1, <1>2, InvInit, PTL DEF AdaptSpec

\* Hysteresis for every length of the healthy run and every step size.
THEOREM NarrowingIsEarned == AdaptSpec => NarrowsOnlyWhenCalm
<1>1. Inv /\ [AdaptNext]_adaptVars =>
        [deadline' < deadline => calm + 1 >= Sustained /\ deadline - deadline' <= Step]_adaptVars
  BY InvStep
<1>2. Inv /\ [AdaptNext]_adaptVars => Inv'
  BY InvStep
<1> QED
  BY <1>1, <1>2, InvInit, PTL DEF AdaptSpec, NarrowsOnlyWhenCalm

\* The live deadline stays within its range for every configuration whose
\* ceiling is not below the baseline.  The computed default breaks that for
\* baselines above the hard ceiling.
THEOREM DeadlineStaysInRange ==
    ASSUME Baseline <= MaxDeadline
    PROVE  AdaptSpec => []DeadlineInRange
<1> USE WindowsAssumption, MaxDeadlineNat
<1>1. AdaptInit => DeadlineInRange
  BY DEF AdaptInit, DeadlineInRange
<1>2. ASSUME Inv, DeadlineInRange, [AdaptNext]_adaptVars
      PROVE  DeadlineInRange'
  <2>0. /\ deadline \in Nat /\ Baseline <= deadline /\ deadline <= MaxDeadline
        /\ peer_skew \in Skews \cup {Unset}
    BY <1>2 DEF Inv, AdaptTypeOK, measured, DeadlineInRange
  <2>1. ASSUME NEW skew \in Skews \cup {Unset}
        PROVE  Target(skew) \in Nat /\ Baseline <= Target(skew) /\ Target(skew) <= MaxDeadline
    <3>1. Target(skew) \in Nat
      BY TargetNat
    <3>2. CASE skew = Unset
      BY <3>1, <3>2 DEF Target
    <3>3. CASE skew # Unset
      <4>1. Needed(skew) \in Nat
        <5>1. (skew + ProbeMargin) * 5 + 2 \in Nat
          BY <3>3
        <5> QED BY <5>1, DivNat DEF Needed
      <4> QED
        BY <3>3, <4>1 DEF Target, Smaller, Larger
    <3> QED BY <3>2, <3>3
  <2>2. ASSUME NEW rtt, NEW skew \in Skews \cup {Unset}, MaybeAdapt(rtt, skew)
        PROVE  DeadlineInRange'
    BY <2>0, <2>1, <2>2
    DEF MaybeAdapt, Widen, TooSoon, FirstEval, EvalImpaired, EvalRelax, EvalHealthy,
        Apply, Smaller, Larger, DeadlineInRange, adaptVars
  <2>3. CASE NoteEvidence \/ AdaptClockStep \/ UNCHANGED adaptVars
    BY <2>0, <2>3 DEF NoteEvidence, AdaptClockStep, adaptVars, DeadlineInRange
  <2>4. ASSUME NEW rtt, NEW skew, Measure(rtt, skew)
        PROVE  DeadlineInRange'
    BY <2>0, <2>4 DEF Measure, DeadlineInRange
  <2> QED
    BY <1>2, <2>0, <2>2, <2>3, <2>4 DEF AdaptNext, MaybeAdaptRecovery
<1>3. Inv /\ [AdaptNext]_adaptVars => Inv'
  BY InvStep
<1> QED
  BY <1>1, <1>2, <1>3, InvInit, PTL DEF AdaptSpec

\* The whole state of the controller stays consistent, whatever is measured and
\* in whatever order: a baseline that is no more than the ceiling keeps its
\* types, its deadline in range and its windows in step (maybe_adapt).
THEOREM AdaptAlwaysInStep ==
    ASSUME Baseline <= MaxDeadline
    PROVE  AdaptSpec => []AdaptInStep
<1>1. AdaptSpec => []AdaptTypeOK
  BY AdaptiveTypeCorrect
<1>2. AdaptSpec => []WindowsInStep
  BY WindowsStayInStep
<1>3. AdaptSpec => []DeadlineInRange
  BY DeadlineStaysInRange
<1> QED
  BY <1>1, <1>2, <1>3, PTL DEF AdaptInStep

-----------------------------------------------------------------------------
\* The epoch gates.

\* A frame on its way to home carries the epoch of the incarnation that sent
\* it, and comes from that incarnation's address.
SourceIsSender == \A f \in net : f.to = "home" => f.addr = f.epoch

\* The types the argument rests on.
Shape ==
    /\ epoch \in [Ends -> Epochs]
    /\ peer_epoch \in [Ends -> Epochs \cup {None}]
    /\ quiet \in [Ends -> 0 .. TakeoverIdle + 1]
    /\ remote \in Epochs \cup {None}
    /\ net \subseteq Frames

GateInv == Shape /\ SourceIsSender /\ RepliesFollowStream

\* At most MaxOutstanding probes are outstanding at either end.
ProbesBounded ==
    /\ outstanding \in [Ends -> Seq(ProbeIds)]
    /\ \A e \in Ends : Len(outstanding[e]) <= MaxOutstanding

USE DEF Ends, Epochs, None

\* A frame sent by either end has its type, and travel sends from the address
\* of its own incarnation.
LEMMA FrameIsWellFormed ==
    ASSUME Shape, NEW e \in Ends, CanSend(e),
           NEW kind \in {"data", "probe", "reply"}, NEW id \in ProbeIds \cup {None}
    PROVE  /\ Frame(e, kind, id) \in Frames
           /\ Frame(e, kind, id).to = "home" =>
                Frame(e, kind, id).addr = Frame(e, kind, id).epoch
BY DEF Shape, CanSend, Address, Frame, Frames, Peer

\* Sending adds at most the frame sent.
LEMMA PutAddsOne ==
    ASSUME NEW fs, NEW f, NEW after \in Put(fs, f)
    PROVE  after \subseteq fs \cup {f}
BY DEF Put

\* The gate's invariant holds in the initial state.
LEMMA InitGateInv == Init => GateInv
BY MaxRestartsAssumption, TakeoverIdleAssumption
   DEF Init, GateInv, Shape, SourceIsSender, RepliesFollowStream, Frames

\* Every step keeps it.
LEMMA StepGateInv == GateInv /\ [Next]_vars => GateInv'
<1> SUFFICES ASSUME GateInv, [Next]_vars PROVE GateInv'
    OBVIOUS
<1> USE MaxRestartsAssumption, TakeoverIdleAssumption
<1>1. ASSUME NEW e \in Ends, SendData(e) PROVE GateInv'
  <2>1. Frame(e, "data", None) \in Frames
        /\ (Frame(e, "data", None).to = "home" =>
              Frame(e, "data", None).addr = Frame(e, "data", None).epoch)
      BY <1>1, FrameIsWellFormed DEF GateInv, SendData
  <2> QED
      BY <1>1, <2>1, PutAddsOne
         DEF GateInv, Shape, SourceIsSender, RepliesFollowStream, SendData
<1>2. ASSUME NEW e \in Probers, SendProbe(e) PROVE GateInv'
  <2>1. PICK id \in ProbeIds : net' \in Put(net, Frame(e, "probe", id))
      BY <1>2 DEF SendProbe
  <2>2. e \in Ends
      BY ProbersAssumption
  <2>3. Frame(e, "probe", id) \in Frames
        /\ (Frame(e, "probe", id).to = "home" =>
              Frame(e, "probe", id).addr = Frame(e, "probe", id).epoch)
      BY <1>2, <2>2, FrameIsWellFormed DEF GateInv, SendProbe
  <2> QED
      BY <1>2, <2>1, <2>3, PutAddsOne
         DEF GateInv, Shape, SourceIsSender, RepliesFollowStream, SendProbe
<1>3. ASSUME NEW e \in Ends, Restart(e) PROVE GateInv'
  <2>1. Shape'
      BY <1>3 DEF GateInv, Shape, Restart
  <2>2. RepliesFollowStream'
      BY <1>3 DEF GateInv, Shape, RepliesFollowStream, Restart
  <2> QED
      BY <1>3, <2>1, <2>2 DEF GateInv, SourceIsSender, Restart
<1>4. ASSUME NEW f \in net, Reachable(f), ReceiveGood(f) PROVE GateInv'
  <2>1. f \in Frames
      BY DEF GateInv, Shape
  <2>2. f.to \in Ends /\ f.epoch \in Epochs /\ f.addr \in Epochs
        /\ f.id \in ProbeIds \cup {None}
      BY <2>1 DEF Frames
  <2>3. ReplyTo(f.to, f) \in Frames /\ (f.to = "home" => ReplyTo(f.to, f).to = "travel")
      BY <2>2 DEF GateInv, Shape, ReplyTo, Frames, Peer
  <2>4. net' \subseteq net \cup {ReplyTo(f.to, f)}
      BY <1>4, PutAddsOne DEF ReceiveGood
  <2>5. Shape'
      BY <1>4, <2>2, <2>3, <2>4 DEF GateInv, Shape, ReceiveGood, Roamed
  <2>6. RepliesFollowStream'
      BY <1>4, <2>2 DEF GateInv, Shape, SourceIsSender, RepliesFollowStream, ReceiveGood, Roamed
  <2>7. SourceIsSender'
    <3>1. ReplyTo(f.to, f).to = "home" => ReplyTo(f.to, f).addr = ReplyTo(f.to, f).epoch
        BY <1>4, <2>2 DEF Reachable, ReplyTo, Peer
    <3> QED
        BY <3>1, <2>4 DEF GateInv, SourceIsSender
  <2> QED
      BY <2>5, <2>6, <2>7 DEF GateInv
<1>5. ASSUME NEW f \in net, DropStranger(f) \/ Lose(f) PROVE GateInv'
    BY <1>5 DEF GateInv, Shape, SourceIsSender, RepliesFollowStream, DropStranger, Lose
<1>6. CASE ClockStep
    BY <1>6 DEF GateInv, Shape, SourceIsSender, RepliesFollowStream, ClockStep
<1>7. CASE UNCHANGED vars
    BY <1>7 DEF GateInv, Shape, SourceIsSender, RepliesFollowStream, vars
<1> QED
    BY <1>1, <1>2, <1>3, <1>4, <1>5, <1>6, <1>7 DEF Next, Receive

-----------------------------------------------------------------------------
\* Giving up the oldest probe keeps the list within its bound.
LEMMA NewestIsBounded ==
    ASSUME NEW probes \in Seq(ProbeIds), Len(probes) <= MaxOutstanding, NEW id \in ProbeIds
    PROVE  /\ Newest(Append(probes, id)) \in Seq(ProbeIds)
           /\ Len(Newest(Append(probes, id))) <= MaxOutstanding
<1> DEFINE all == Append(probes, id)
<1>1. all \in Seq(ProbeIds) /\ Len(all) = Len(probes) + 1 /\ Len(all) # 0
    BY AppendProperties, LenProperties
<1>2. all # << >>
    BY <1>1, EmptySeq
<1>3. Tail(all) \in Seq(ProbeIds) /\ Len(Tail(all)) = Len(all) - 1
    BY <1>1, <1>2, HeadTailProperties
<1> QED
    BY <1>1, <1>3, MaxOutstandingAssumption, LenProperties DEF Newest

\* Settling a probe only shortens the list.
LEMMA SettledIsBounded ==
    ASSUME NEW probes \in Seq(ProbeIds), Len(probes) <= MaxOutstanding, NEW id
    PROVE  /\ Settled(probes, id) \in Seq(ProbeIds)
           /\ Len(Settled(probes, id)) <= MaxOutstanding
<1>1. CASE id \notin ToSet(probes)
    BY <1>1 DEF Settled
<1>2. CASE id \in ToSet(probes)
  <2> DEFINE i == CHOOSE j \in DOMAIN probes : probes[j] = id
  <2>1. i \in 1 .. Len(probes)
      BY <1>2, LenProperties DEF ToSet
  <2>2. /\ i + 1 \in 1 .. Len(probes) + 1
        /\ Len(probes) \in i .. Len(probes)
        /\ Len(probes) \in Nat
      BY <2>1, LenProperties
  <2>3. ASSUME NEW n \in 1 .. Len(probes) + 1
        PROVE  /\ SubSeq(probes, n, Len(probes)) \in Seq(ProbeIds)
               /\ Len(SubSeq(probes, n, Len(probes))) <= Len(probes)
      BY <2>2, SubSeqProperties, SMTT(30)
  <2>4. Settled(probes, id) = SubSeq(probes, i + 1, Len(probes))
      BY <1>2 DEF Settled
  <2>5. /\ SubSeq(probes, i + 1, Len(probes)) \in Seq(ProbeIds)
        /\ Len(SubSeq(probes, i + 1, Len(probes))) <= Len(probes)
      BY <2>2, <2>3
  <2>6. Len(SubSeq(probes, i + 1, Len(probes))) \in Nat
      BY <2>5, LenProperties
  <2> HIDE DEF i
  <2> QED
      BY <2>2, <2>4, <2>5, <2>6, MaxOutstandingAssumption
<1> QED
    BY <1>1, <1>2

\* Every step keeps the outstanding probes within their bound.
LEMMA StepProbesBounded == ProbesBounded /\ GateInv /\ [Next]_vars => ProbesBounded'
<1> SUFFICES ASSUME ProbesBounded, GateInv, [Next]_vars PROVE ProbesBounded'
    OBVIOUS
<1>1. ASSUME NEW e \in Probers, SendProbe(e) PROVE ProbesBounded'
  <2>1. PICK id \in ProbeIds :
            outstanding' = [outstanding EXCEPT ![e] = Newest(Append(@, id))]
      BY <1>1 DEF SendProbe
  <2>2. e \in Ends
      BY ProbersAssumption
  <2>3. /\ Newest(Append(outstanding[e], id)) \in Seq(ProbeIds)
        /\ Len(Newest(Append(outstanding[e], id))) <= MaxOutstanding
      BY <2>2, NewestIsBounded DEF ProbesBounded
  <2> QED
      BY <2>1, <2>2, <2>3 DEF ProbesBounded
<1>2. ASSUME NEW f \in net, ReceiveGood(f) PROVE ProbesBounded'
  <2>1. f.to \in Ends
      BY DEF GateInv, Shape, Frames
  <2>2. /\ Settled(outstanding[f.to], f.id) \in Seq(ProbeIds)
        /\ Len(Settled(outstanding[f.to], f.id)) <= MaxOutstanding
      BY <2>1, SettledIsBounded DEF ProbesBounded
  <2> QED
      BY <1>2, <2>1, <2>2 DEF ProbesBounded, ReceiveGood
<1>3. ASSUME NEW e \in Ends, Restart(e) PROVE ProbesBounded'
  <2>1. << >> \in Seq(ProbeIds) /\ Len(<< >>) = 0
      BY EmptySeq
  <2> QED
      BY <1>3, <2>1, MaxOutstandingAssumption DEF ProbesBounded, Restart
<1>4. ASSUME UNCHANGED outstanding PROVE ProbesBounded'
    BY <1>4 DEF ProbesBounded
<1> QED
    BY <1>1, <1>2, <1>3, <1>4
       DEF Next, SendData, Receive, DropStranger, Lose, ClockStep, vars

\* No outstanding probes initially.
LEMMA InitProbesBounded == Init => ProbesBounded
BY EmptySeq, MaxOutstandingAssumption DEF Init, ProbesBounded

-----------------------------------------------------------------------------
\* The gate's state keeps its types however often either end restarts, and the
\* probe table of send_keepalives never outgrows _KA_OUTSTANDING_MAX.
THEOREM GateTypeCorrect == Spec => []TypeOK
<1>1. Init => GateInv /\ ProbesBounded
    BY InitGateInv, InitProbesBounded
<1>2. (GateInv /\ ProbesBounded) /\ [Next]_vars => (GateInv /\ ProbesBounded)'
    BY StepGateInv, StepProbesBounded
<1>3. GateInv /\ ProbesBounded => TypeOK
    BY DEF GateInv, Shape, ProbesBounded, TypeOK
<1> QED
    BY <1>1, <1>2, <1>3, PTL DEF Spec

\* Home's replies go to the incarnation whose stream it is on: no frame that
\* _pass_epoch_gate refuses ever reaches _roam_link.
THEOREM RepliesAlwaysFollowStream == Spec => []RepliesFollowStream
<1>1. GateInv => RepliesFollowStream
    BY DEF GateInv
<1> QED
    BY <1>1, InitGateInv, StepGateInv, PTL DEF Spec

\* _adopt_epoch never leaves a live peer's stream that was heard within the
\* takeover window, whatever is still in flight from earlier incarnations.
THEOREM HeardStreamAlwaysStays == Spec => HeardStreamStays
<1> DEFINE Stays ==
        \A e \in Ends :
            /\ peer_epoch[e] = epoch[Peer(e)]
            /\ quiet[e] <= TakeoverIdle
            /\ epoch' = epoch
            => peer_epoch'[e] = peer_epoch[e]
<1>1. GateInv /\ [Next]_vars => [Stays]_vars
  <2> SUFFICES ASSUME GateInv, [Next]_vars,
                      NEW e \in Ends,
                      peer_epoch[e] = epoch[Peer(e)], quiet[e] <= TakeoverIdle, epoch' = epoch
               PROVE  peer_epoch'[e] = peer_epoch[e]
      OBVIOUS
  <2>1. peer_epoch[e] # None /\ ~ Idle(e)
      BY MaxRestartsAssumption, TakeoverIdleAssumption DEF GateInv, Shape, Peer, Idle
  <2>2. ASSUME NEW f \in net, ReceiveGood(f) PROVE peer_epoch'[e] = peer_epoch[e]
    <3>1. CASE f.to = e
        BY <2>1, <2>2, <3>1 DEF GateInv, Shape, ReceiveGood, Passes, Adopts
    <3>2. CASE f.to # e
        BY <2>2, <3>2 DEF GateInv, Shape, ReceiveGood
    <3> QED
        BY <3>1, <3>2
  <2>3. ASSUME NEW d \in Ends, Restart(d) PROVE FALSE
      BY <2>3, MaxRestartsAssumption DEF GateInv, Shape, Restart
  <2> QED
      BY <2>2, <2>3 DEF Next, SendData, SendProbe, Receive, DropStranger, Lose, ClockStep, vars
<1> QED
    BY <1>1, InitGateInv, StepGateInv, PTL DEF Spec, HeardStreamStays

\* The state of the gate stays consistent at both ends, through every restart
\* and every reordering (_pass_epoch_gate, _adopt_epoch).
THEOREM GateAlwaysInStep == Spec => []GateInStep
<1>1. Spec => []TypeOK
    BY GateTypeCorrect
<1>2. Spec => []RepliesFollowStream
    BY RepliesAlwaysFollowStream
<1> QED
    BY <1>1, <1>2, PTL DEF GateInStep

=============================================================================
