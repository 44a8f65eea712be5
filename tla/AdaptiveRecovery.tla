-------------------------- MODULE AdaptiveRecovery --------------------------
(***************************************************************************)
(* The live reorder deadline (class AdaptiveRecovery of                    *)
(* travel/bond-agent/zippie/transport.py) and the three windows Transport  *)
(* derives from it: the reassembler's deadline, the sender's retransmit    *)
(* hold and the NACK ceiling.                                              *)
(*                                                                         *)
(* Times are integers in one unit.  The cumulative counters capped and     *)
(* abandoned matter only through "has either risen since the last          *)
(* evaluation", which is the flag evidence.                                *)
(***************************************************************************)
EXTENDS Integers

CONSTANTS
    Baseline,           \* baseline_deadline_ms
    ConfiguredMax,      \* max_deadline_ms, or Unset
    Unset,
    HardCeiling,        \* ADAPT_MAX_DEADLINE_HARD_CEILING_MS
    Multiplier,         \* ADAPT_MAX_DEADLINE_MULTIPLIER
    Step,               \* step_ms
    Sustained,          \* sustained_healthy_evals
    EvalInterval,       \* eval_interval_s, in clock steps
    ConfiguredHold,     \* RetransmitConfig.hold_ms
    NackDelay,          \* nack_delay_ms
    ProbeMargin,        \* the 20 ms added to the measured skew
    MinHoldMargin,      \* the 20 ms floor of hold_margin_ms
    Rtts,               \* the worst round trips that may be measured
    Skews               \* the peer skews that may be measured

ASSUME WindowsAssumption ==
    /\ Baseline \in Nat /\ HardCeiling \in Nat /\ ConfiguredHold \in Nat
    /\ NackDelay \in Nat /\ ProbeMargin \in Nat
    /\ MinHoldMargin \in Nat \ {0} /\ Step \in Nat \ {0}
    /\ Multiplier \in Nat \ {0}
    /\ Sustained \in Nat \ {0} /\ EvalInterval \in Nat
    /\ Rtts \subseteq Nat /\ Skews \subseteq Nat
    /\ Unset \notin Nat

\* The constructor raises ValueError otherwise.
ASSUME ConfiguredMaxAssumption ==
    ConfiguredMax = Unset \/ (ConfiguredMax \in Nat /\ ConfiguredMax > Baseline)

Smaller(a, b) == IF a < b THEN a ELSE b
Larger(a, b) == IF a > b THEN a ELSE b

MaxDeadline ==
    IF ConfiguredMax # Unset THEN ConfiguredMax
    ELSE Smaller(Multiplier * Baseline, HardCeiling)

HoldMargin == Larger(MinHoldMargin, ConfiguredHold - Baseline)

VARIABLES
    deadline,           \* deadline_ms
    healthy_streak,     \* _healthy_streak
    eval_age,           \* time since _last_eval, Unset before the first
    evidence,           \* capped or abandoned rose since the last evaluation
    applied,            \* the windows last pushed to the three objects
    worst_rtt,          \* _worst_known_rtt_ms(): the longest round trip of a live leg
    peer_skew,          \* the spread of the peer's recent round trips, or Unset
    calm                \* history: healthy evaluations since the last impaired
                        \* one or the last move of the deadline

measured == <<worst_rtt, peer_skew>>
adaptVars == <<deadline, healthy_streak, eval_age, evidence, applied, calm, measured>>

\* hold_ms() and nack_max_delay_ms()
HoldFor(d) == d + HoldMargin
CeilingFor(d) == Larger(NackDelay, (d * 3) \div 5)

Derived(d) == [reorder |-> d, hold |-> HoldFor(d), ceiling |-> CeilingFor(d)]

AdaptTypeOK ==
    /\ deadline \in Nat
    /\ healthy_streak \in 0 .. Sustained - 1
    /\ eval_age \in Nat \cup {Unset}
    /\ evidence \in BOOLEAN
    /\ applied \in [reorder : Nat, hold : Nat, ceiling : Nat]
    /\ calm \in Nat
    /\ worst_rtt \in Rtts \cup {Unset}
    /\ peer_skew \in Skews \cup {Unset}

AdaptInit ==
    /\ deadline = Baseline
    /\ healthy_streak = 0
    /\ eval_age = Unset
    /\ evidence = FALSE
    /\ applied = [Derived(Baseline) EXCEPT !.hold = ConfiguredHold]
    /\ calm = 0
    /\ worst_rtt = Unset
    /\ peer_skew = Unset

-----------------------------------------------------------------------------
\* The window a peer skew calls for: the NACK fraction of it covers the skew.
Needed(skew) == ((skew + ProbeMargin) * 5 + 2) \div 3

\* Mutant: without a skew the floor is wherever the deadline is.
TargetSticky(skew) ==
    IF skew = Unset THEN deadline
    ELSE Smaller(MaxDeadline, Larger(deadline, Needed(skew)))

\* skew_floor_ms, which is also the target while the skew is known.
Target(skew) ==
    IF skew = Unset THEN Baseline
    ELSE Smaller(MaxDeadline, Larger(Baseline, Needed(skew)))

Apply(d) == deadline' = d /\ applied' = Derived(d)

\* The skew widens the window at once, before the rate limit.
Widen(skew) ==
    /\ skew # Unset
    /\ Target(skew) > deadline
    /\ Apply(Target(skew))
    /\ healthy_streak' = 0
    /\ calm' = 0
    /\ UNCHANGED <<eval_age, evidence>>

NotWidened(skew) == skew # Unset => Target(skew) <= deadline

TooSoon(skew) ==
    /\ NotWidened(skew)
    /\ eval_age # Unset /\ eval_age < EvalInterval
    /\ UNCHANGED adaptVars

\* The first evaluation only takes the counters' starting values.
FirstEval(skew) ==
    /\ NotWidened(skew)
    /\ eval_age = Unset
    /\ eval_age' = 0
    /\ evidence' = FALSE
    /\ UNCHANGED <<deadline, healthy_streak, applied, calm>>

Evaluates(skew) ==
    /\ NotWidened(skew)
    /\ eval_age # Unset /\ eval_age >= EvalInterval
    /\ eval_age' = 0
    /\ evidence' = FALSE

Impaired(rtt) == evidence \/ (rtt # Unset /\ rtt * 5 > deadline * 4)

\* Mutant: an impaired evaluation at the ceiling leaves the streak alone.
EvalImpairedKeepsStreak(rtt, skew) ==
    /\ Evaluates(skew)
    /\ Impaired(rtt)
    /\ IF deadline < MaxDeadline
       THEN healthy_streak' = 0 /\ Apply(Smaller(MaxDeadline, deadline + Step))
       ELSE UNCHANGED <<deadline, healthy_streak, applied>>
    /\ calm' = 0

EvalImpaired(rtt, skew) ==
    /\ Evaluates(skew)
    /\ Impaired(rtt)
    /\ healthy_streak' = 0
    /\ IF deadline < MaxDeadline
       THEN Apply(Smaller(MaxDeadline, deadline + Step))
       ELSE UNCHANGED <<deadline, applied>>
    /\ calm' = 0

\* Mutant: the deadline moves and the windows are not pushed.
EvalRelaxUnapplied(rtt, skew) ==
    /\ Evaluates(skew)
    /\ ~ Impaired(rtt)
    /\ deadline > Target(skew)
    /\ healthy_streak + 1 >= Sustained
    /\ deadline' = Larger(Target(skew), deadline - Step)
    /\ healthy_streak' = 0
    /\ calm' = 0
    /\ UNCHANGED applied

\* The healthy run is long enough: one step back towards the floor.
EvalRelax(rtt, skew) ==
    /\ Evaluates(skew)
    /\ ~ Impaired(rtt)
    /\ deadline > Target(skew)
    /\ healthy_streak + 1 >= Sustained
    /\ Apply(Larger(Target(skew), deadline - Step))
    /\ healthy_streak' = 0
    /\ calm' = 0

EvalHealthy(rtt, skew) ==
    /\ Evaluates(skew)
    /\ ~ Impaired(rtt)
    /\ \/ /\ deadline > Target(skew)
          /\ healthy_streak + 1 < Sustained
          /\ healthy_streak' = healthy_streak + 1
       \/ /\ deadline <= Target(skew)
          /\ UNCHANGED healthy_streak
    /\ calm' = Smaller(calm + 1, Sustained)
    /\ UNCHANGED <<deadline, applied>>

\* maybe_adapt
MaybeAdapt(rtt, skew) ==
    \/ Widen(skew)
    \/ TooSoon(skew)
    \/ FirstEval(skew)
    \/ EvalImpaired(rtt, skew)
    \/ EvalRelax(rtt, skew)
    \/ EvalHealthy(rtt, skew)

\* _maybe_adapt_recovery on one pass of the loop.
MaybeAdaptRecovery == MaybeAdapt(worst_rtt, peer_skew) /\ UNCHANGED measured

\* Keepalives are answered, or legs fall silent: what the next pass will read.
Measure(rtt, skew) ==
    /\ worst_rtt' = rtt
    /\ peer_skew' = skew
    /\ UNCHANGED <<deadline, healthy_streak, eval_age, evidence, applied, calm>>

\* A NACK went out capped, a frame came too late or a gap was abandoned.
NoteEvidence ==
    /\ evidence' = TRUE
    /\ UNCHANGED <<deadline, healthy_streak, eval_age, applied, calm, measured>>

AdaptClockStep ==
    /\ eval_age # Unset /\ eval_age < EvalInterval
    /\ eval_age' = eval_age + 1
    /\ UNCHANGED <<deadline, healthy_streak, evidence, applied, calm, measured>>

AdaptNext ==
    \/ MaybeAdaptRecovery
    \/ \E rtt \in Rtts \cup {Unset}, skew \in Skews \cup {Unset} : Measure(rtt, skew)
    \/ NoteEvidence
    \/ AdaptClockStep

AdaptSpec == AdaptInit /\ [][AdaptNext]_adaptVars

\* Time passes, and every pass of the loop ends in _maybe_adapt_recovery.
AdaptFairSpec == AdaptSpec /\ WF_adaptVars(AdaptClockStep) /\ WF_adaptVars(MaybeAdaptRecovery)

-----------------------------------------------------------------------------
(***************************************************************************)
(* Properties.                                                             *)
(***************************************************************************)

\* The live deadline moves within [baseline, max_deadline_ms], whatever is
\* measured and in whatever order.
DeadlineInRange == Baseline <= deadline /\ deadline <= MaxDeadline

\* The three windows move together: the reassembler and the NACK ceiling are
\* always those of the current deadline, and once the deadline has moved the
\* sender holds packets for longer than the receiver waits for them.
WindowsInStep ==
    /\ applied.reorder = deadline
    /\ applied.ceiling = CeilingFor(deadline)
    /\ applied.hold = HoldFor(deadline) \/ (applied.hold = ConfiguredHold /\ deadline = Baseline)
    /\ deadline # Baseline => applied.hold > applied.reorder

\* The state of the controller, in any order of measurements: its types, a
\* deadline in range, and windows that move together.
AdaptInStep == AdaptTypeOK /\ DeadlineInRange /\ WindowsInStep

\* Hysteresis: the window only narrows after Sustained consecutive healthy
\* evaluations, counted afresh after each move and each impaired one.
NarrowsOnlyWhenCalm ==
    [][ deadline' < deadline => calm + 1 >= Sustained /\ deadline - deadline' <= Step ]_adaptVars

\* Nothing that is measured calls for more than the baseline.
Quiet ==
    /\ ~ evidence
    /\ worst_rtt # Unset => worst_rtt * 5 <= Baseline * 4
    /\ peer_skew # Unset => Needed(peer_skew) <= Baseline

\* However far an episode has widened the window, on a bond that is quiet from
\* some time on it comes back to the baseline and stays there.
Relaxes == <>[]Quiet => <>[](deadline = Baseline)

=============================================================================
