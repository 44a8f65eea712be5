---------------------------- MODULE NackTracker ----------------------------
(***************************************************************************)
(* The receiver's record of missing sequence numbers (class NackTracker of *)
(* travel/bond-agent/zippie/retransmit.py): a gap is asked for once, when  *)
(* it is older than a floor and every leg still in play has moved past it, *)
(* or when it is older than a ceiling.                                     *)
(*                                                                         *)
(* The tracker is one record, and each method an operator from the tracker *)
(* before the call to the tracker after it, because the transport calls    *)
(* several of them while it handles one datagram.                          *)
(***************************************************************************)
EXTENDS Integers, Sequences, FiniteSets, SequencesExt

CONSTANTS
    Legs,           \* the sender's path ids
    NoLeg,          \* path_id = None: the frame proves nothing about a leg
    InitialDelay,   \* initial_delay_s, the floor
    Ceilings,       \* the values max_delay_s may take (adaptive recovery)
    MaxPendings     \* the values max_pending may take

ASSUME NoLegAssumption == NoLeg \notin Legs
ASSUME InitialDelayAssumption == InitialDelay \in Nat
ASSUME CeilingsAssumption ==
    /\ IsFiniteSet(Ceilings) /\ Ceilings # {} /\ Ceilings \subseteq Nat
    /\ \A c \in Ceilings : c >= InitialDelay
ASSUME MaxPendingsAssumption == MaxPendings \subseteq Nat

VARIABLE nacks

Without(f, S) == Restrict(f, DOMAIN f \ S)

\* __init__
NewTracker(ceiling, max_pending) ==
    [pending |-> << >>,         \* _pending: number |-> time since it was noted
     order |-> << >>,           \* _order
     asked |-> {},              \* _asked
     forgotten_below |-> 0,
     leg_seq |-> << >>,         \* _leg_seq: leg |-> highest number it carried
     leg_watch |-> << >>,       \* _leg_watch: leg |-> mark, time since it moved
     max_delay |-> ceiling,
     max_pending |-> max_pending]

\* Ages are told apart up to just beyond the longest ceiling.
OldestAge == Max(Ceilings) + 1
Aged(age) == IF age < OldestAge THEN age + 1 ELSE age

-----------------------------------------------------------------------------
Below(s, S) == {x \in S : x < s}

\* sorted
Ascending(S) ==
    [i \in 1 .. Cardinality(S) |-> CHOOSE s \in S : Cardinality(Below(s, S)) = i - 1]

\* note_gap: the missing numbers, lowest first, until the table is full.
NoteGap(t, missing) ==
    LET new   == missing \ DOMAIN t.pending
        room  == t.max_pending - Cardinality(DOMAIN t.pending)
        taken == {s \in new : Cardinality(Below(s, new)) < room}
    IN  [t EXCEPT !.pending = [s \in DOMAIN @ \cup taken |-> IF s \in taken THEN 0 ELSE @[s]],
                  !.order = @ \o Ascending(taken)]

\* The mark of a leg only moves up.
Marked(marks, leg, seq) ==
    IF leg = NoLeg \/ (leg \in DOMAIN marks /\ seq <= marks[leg])
    THEN marks
    ELSE [l \in DOMAIN marks \cup {leg} |-> IF l = leg THEN seq ELSE marks[l]]

\* resolve: the frame turned up; a resend comes with NoLeg.
Resolve(t, seq, leg) ==
    [t EXCEPT !.pending = Without(@, {seq}),
              !.asked = @ \ {seq},
              !.leg_seq = Marked(@, leg, seq)]

\* reset_stream: everything keyed by a number of the old stream goes.
ResetTracker(t) == NewTracker(t.max_delay, t.max_pending)

-----------------------------------------------------------------------------
\* _progress_gate: a mark that moved since the last look is stamped now.
Watch(t) ==
    [leg \in DOMAIN t.leg_seq |->
        IF leg \in DOMAIN t.leg_watch /\ t.leg_watch[leg].seq = t.leg_seq[leg]
        THEN t.leg_watch[leg]
        ELSE [seq |-> t.leg_seq[leg], age |-> 0]]

\* Mutant: the gate is the mark of the leg furthest ahead.
MayStillArriveFastest(t, seq) ==
    /\ DOMAIN t.leg_seq # {}
    /\ \A leg \in DOMAIN t.leg_seq : t.leg_seq[leg] <= seq

\* The gate does not exceed seq: some leg that has not stopped delivering has
\* not moved past it.
MayStillArrive(t, seq) ==
    \E leg \in DOMAIN t.leg_seq :
        /\ Watch(t)[leg].age <= t.max_delay
        /\ t.leg_seq[leg] <= seq

\* Mutant: a gap waits for the legs however long it takes.
BlocksForever(t, seq) ==
    /\ seq \in DOMAIN t.pending
    /\ \/ t.pending[seq] < InitialDelay
       \/ MayStillArrive(t, seq)

\* A head entry the loop of due() stops at.
Blocks(t, seq) ==
    /\ seq \in DOMAIN t.pending
    /\ \/ t.pending[seq] < InitialDelay
       \/ MayStillArrive(t, seq) /\ t.pending[seq] < t.max_delay

\* How many entries due() takes off the front of the queue.
Visited(t) ==
    Max({i \in 0 .. Len(t.order) : \A j \in 1 .. i : ~ Blocks(t, t.order[j])})

\* The first live entry is past the floor, so the gate is looked at.
GateKnown(t) ==
    \E i \in DOMAIN t.order :
        /\ \A j \in 1 .. i - 1 : t.order[j] \notin DOMAIN t.pending
        /\ t.order[i] \in DOMAIN t.pending
        /\ t.pending[t.order[i]] >= InitialDelay

\* What due() returns.
DueNow(t) ==
    {seq \in {t.order[i] : i \in 1 .. Visited(t)} :
        seq \in DOMAIN t.pending /\ seq \notin t.asked}

\* due: the tracker afterwards.
Due(t) ==
    [t EXCEPT !.order = SubSeq(@, Visited(t) + 1, Len(@)),
              !.asked = @ \cup DueNow(t),
              !.leg_watch = IF GateKnown(t) THEN Watch(t) ELSE @]

\* forget_before: the stream moved past these.
ForgetBefore(t, seq) ==
    LET passed == {s \in DOMAIN t.pending : s < seq}
    IN  IF seq <= t.forgotten_below
        THEN t
        ELSE [t EXCEPT !.pending = Without(@, passed),
                       !.asked = @ \ passed,
                       !.forgotten_below = seq]

\* set_max_delay_ms, floored at the initial delay.
SetMaxDelay(t, ceiling) ==
    [t EXCEPT !.max_delay = IF ceiling < InitialDelay THEN InitialDelay ELSE ceiling]

\* time.monotonic() advances.
AgedTracker(t) ==
    [t EXCEPT !.pending = [s \in DOMAIN @ |-> Aged(@[s])],
              !.leg_watch = [leg \in DOMAIN @ |->
                                [seq |-> @[leg].seq, age |-> Aged(@[leg].age)]]]

-----------------------------------------------------------------------------
\* Every number a full scan of the table would ask for now.
DueReference(t) ==
    {seq \in DOMAIN t.pending \ t.asked :
        /\ t.pending[seq] >= InitialDelay
        /\ ~ MayStillArrive(t, seq) \/ t.pending[seq] >= t.max_delay}

=============================================================================
