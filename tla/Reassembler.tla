---------------------------- MODULE Reassembler ----------------------------
(***************************************************************************)
(* The receive-side reorder buffer of the bond (class Reassembler of       *)
(* travel/bond-agent/zippie/datapath.py): it drops duplicate copies,       *)
(* restores the sender's order and gives up on a gap once the packets      *)
(* behind it have waited for the reorder deadline.                         *)
(*                                                                         *)
(* A packet is its sequence number.  Any number may arrive at any moment   *)
(* and any number of times: the legs of a bond lose, duplicate and reorder *)
(* frames, and a retransmission is one more copy.                          *)
(*                                                                         *)
(* Time is kept as ages: what the code holds as a timestamp is held here   *)
(* as the time elapsed since, which the clock step increases up to the     *)
(* largest value a comparison can tell apart.                              *)
(***************************************************************************)
EXTENDS Integers, Sequences, FiniteSets

CONSTANTS
    SeqMax,         \* _SEQ_MAX: the last sequence number the wire can carry
    Deadlines,      \* the values reorder_deadline_s may take (adaptive recovery)
    OriginGraces,   \* the values origin_grace_s may be configured to
    MaxBuffered,    \* max_buffered
    DedupeWindow    \* dedupe_window

ASSUME SeqMaxAssumption == SeqMax \in Nat
ASSUME DeadlinesAssumption == Deadlines \subseteq Nat /\ Deadlines # {}
ASSUME OriginGracesAssumption == OriginGraces \subseteq Nat
ASSUME MaxBufferedAssumption == MaxBuffered \in Nat
ASSUME DedupeWindowAssumption == DedupeWindow \in Nat

VARIABLES
    next_seq,       \* _next_seq, None before the first frame of a stream
    committed,      \* _origin_committed
    origin_grace,   \* origin_grace_s, fixed when the reassembler is built
    origin_age,     \* time since _origin_deadline was set
    buffer,         \* the sequence numbers held in _buffer
    seen,           \* _seen, oldest first
    arrivals,       \* _arrivals: what was buffered and how long ago
    seq_heap,       \* the entries of _seq_heap
    reorder_deadline,
    lost_estimate,  \* stats.lost_estimate since the stream began
    delivered       \* history: what this stream has handed up, in order

vars == <<next_seq, committed, origin_grace, origin_age, buffer, seen, arrivals,
          seq_heap, reorder_deadline, lost_estimate, delivered>>

SeqNumbers == 0 .. SeqMax

None == -1

\* The ages a comparison can tell apart end at the largest deadline.
AgeMax == CHOOSE a \in Deadlines \cup OriginGraces :
            \A d \in Deadlines \cup OriginGraces : d <= a

Older(age) == IF age < AgeMax THEN age + 1 ELSE age

Entries == [seq : SeqNumbers, age : Nat]

TypeOK ==
    /\ next_seq \in 0 .. (SeqMax + 1) \cup {None}
    /\ committed \in BOOLEAN
    /\ origin_grace \in OriginGraces
    /\ origin_age \in Nat
    /\ buffer \subseteq SeqNumbers
    /\ seen \in Seq(SeqNumbers) /\ Len(seen) <= DedupeWindow
    /\ arrivals \in Seq(Entries)
    /\ seq_heap \subseteq SeqNumbers
    /\ reorder_deadline \in Deadlines
    /\ lost_estimate \in Nat
    /\ delivered \in Seq(SeqNumbers)

Init ==
    /\ next_seq = None
    /\ committed = FALSE
    /\ origin_grace \in OriginGraces
    /\ origin_age = 0
    /\ buffer = {}
    /\ seen = << >>
    /\ arrivals = << >>
    /\ seq_heap = {}
    /\ reorder_deadline \in Deadlines
    /\ lost_estimate = 0
    /\ delivered = << >>

-----------------------------------------------------------------------------
(***************************************************************************)
(* The steps the public operations are made of.                            *)
(***************************************************************************)
Known(seq) == \E i \in DOMAIN seen : seen[i] = seq

\* _remember for a new number: the window keeps the latest DedupeWindow.
Remember(seq) ==
    LET s == Append(seen, seq)
    IN  IF Len(s) > DedupeWindow THEN Tail(s) ELSE s

\* _sweep: each lazy index loses the entries in front of the first one that
\* is still buffered.
SweepsTo(swept, arr, buf) ==
    \E i \in 0 .. Len(arr) :
        /\ \A j \in 1 .. i : arr[j].seq \notin buf
        /\ i < Len(arr) => arr[i + 1].seq \in buf
        /\ swept = SubSeq(arr, i + 1, Len(arr))

SweptHeap(heap, buf) == {h \in heap : \E b \in heap \cap buf : b <= h}

IsLowest(low, S) == low \in S /\ \A s \in S : low <= s

\* _force_skip: the stream jumps to the lowest sequence the index reports,
\* and stays where it is when the index is empty.
SkipsTo(n, from, heap) == IF heap = {} THEN n = from ELSE IsLowest(n, heap)

AtLeastZero(x) == IF x > 0 THEN x ELSE 0

\* Mutant: only one packet is handed up per call.
DrainsOne(k, n, buf) == k = IF n \in buf THEN n + 1 ELSE n

\* _drain from n: everything contiguous is handed up, k is the next one owed.
DrainsTo(k, n, buf) ==
    /\ n <= k
    /\ n .. (k - 1) \subseteq buf
    /\ k \notin buf

Run(n, k) == [i \in 1 .. (k - n) |-> n + i - 1]

Drain(n, buf) ==
    \E k \in 0 .. SeqMax + 1 :
        /\ DrainsTo(k, n, buf)
        /\ next_seq' = k
        /\ buffer' = buf \ (n .. (k - 1))
        /\ delivered' = delivered \o Run(n, k)

-----------------------------------------------------------------------------
(***************************************************************************)
(* push(frame) for a data frame.  A keepalive returns before it touches    *)
(* anything and is not a step.                                             *)
(***************************************************************************)
DropDuplicate(seq) ==
    /\ Known(seq)
    /\ UNCHANGED vars

DropTooLate(seq) ==
    /\ ~ Known(seq)
    /\ committed
    /\ seq < next_seq
    /\ seen' = Remember(seq)
    /\ UNCHANGED <<next_seq, committed, origin_grace, origin_age, buffer, arrivals, seq_heap,
                   reorder_deadline, lost_estimate, delivered>>

\* Mutant: no too-late check.
WantedAlways(seq) == ~ Known(seq)

\* The guard both remaining cases share: a new number the stream still owes.
Wanted(seq) == ~ Known(seq) /\ (committed => next_seq <= seq)

\* _next_seq once the frame is counted in: before the origin is committed an
\* earlier number rewinds the stream.
Origin(seq) == IF next_seq = None \/ seq < next_seq THEN seq ELSE next_seq

\* Time since the grace began; it begins with the first frame of the stream.
GraceAge == IF next_seq = None THEN 0 ELSE origin_age

Arrived(seq) == Append(arrivals, [seq |-> seq, age |-> 0])

\* The origin is not settled: hold everything.
HoldForOrigin(seq) ==
    /\ Wanted(seq)
    /\ ~ committed
    /\ GraceAge < origin_grace
    /\ seen' = Remember(seq)
    /\ next_seq' = Origin(seq)
    /\ origin_age' = GraceAge
    /\ buffer' = buffer \cup {seq}
    /\ arrivals' = Arrived(seq)
    /\ seq_heap' = seq_heap \cup {seq}
    /\ UNCHANGED <<committed, origin_grace, reorder_deadline, lost_estimate, delivered>>

Overflows(buf) == Cardinality(buf) > MaxBuffered

\* The frame is buffered, the origin is committed if it was not, an overflow
\* abandons the gap at the front, and what is contiguous is delivered.
Accept(seq) ==
    /\ Wanted(seq)
    /\ committed \/ GraceAge >= origin_grace
    /\ seen' = Remember(seq)
    /\ committed' = TRUE
    /\ origin_age' = GraceAge
    /\ LET buf   == buffer \cup {seq}
           heap  == seq_heap \cup {seq}
           sweep == ~ committed \/ Overflows(buf)
       IN  /\ IF sweep THEN SweepsTo(arrivals', Arrived(seq), buf)
                       ELSE arrivals' = Arrived(seq)
           /\ seq_heap' = IF sweep THEN SweptHeap(heap, buf) ELSE heap
           /\ \E from, n \in SeqNumbers :
                /\ IF committed THEN from = next_seq
                                ELSE IsLowest(from, SweptHeap(heap, buf))
                /\ IF Overflows(buf) THEN SkipsTo(n, from, SweptHeap(heap, buf))
                                     ELSE n = from
                /\ lost_estimate' = lost_estimate + AtLeastZero(n - from)
                /\ Drain(n, buf)
    /\ UNCHANGED <<origin_grace, reorder_deadline>>

Push(seq) ==
    \/ DropDuplicate(seq)
    \/ DropTooLate(seq)
    \/ HoldForOrigin(seq)
    \/ Accept(seq)

-----------------------------------------------------------------------------
(***************************************************************************)
(* tick().  Both indexes are swept whatever happens next.  What becomes of  *)
(* the deadline is left to the action these are part of.                   *)
(***************************************************************************)
\* Mutant: only the heap is swept before the deadline is judged.
SweepHeapOnly ==
    /\ arrivals' = arrivals
    /\ seq_heap' = SweptHeap(seq_heap, buffer)

Sweep ==
    /\ SweepsTo(arrivals', arrivals, buffer)
    /\ seq_heap' = SweptHeap(seq_heap, buffer)

GraceRunning == ~ committed /\ origin_age < origin_grace

\* The front of the swept arrivals, if any, has waited out the deadline.
OldestIsDue == arrivals' # << >> /\ arrivals'[1].age >= reorder_deadline

TickIdle ==
    /\ Sweep
    /\ \/ next_seq = None
       \/ buffer = {}
       \/ GraceRunning
       \/ committed /\ ~ OldestIsDue
    /\ UNCHANGED <<next_seq, committed, origin_grace, origin_age, buffer, seen,
                   lost_estimate, delivered>>

TickCommit ==
    /\ Sweep
    /\ next_seq # None /\ buffer # {}
    /\ ~ committed /\ ~ GraceRunning
    /\ committed' = TRUE
    /\ \E n \in SeqNumbers : IsLowest(n, seq_heap') /\ Drain(n, buffer)
    /\ UNCHANGED <<origin_grace, origin_age, seen, lost_estimate>>

TickAbandon ==
    /\ Sweep
    /\ next_seq # None /\ buffer # {}
    /\ committed /\ OldestIsDue
    /\ \E n \in 0 .. SeqMax + 1 :
        /\ SkipsTo(n, next_seq, seq_heap')
        /\ lost_estimate' = lost_estimate + AtLeastZero(n - next_seq)
        /\ Drain(n, buffer)
    /\ UNCHANGED <<committed, origin_grace, origin_age, seen>>

\* Mutant: a gap is abandoned only by a later push that overflows.
ReleaseWithoutDeadline == TickIdle \/ TickCommit

Release == TickIdle \/ TickCommit \/ TickAbandon

Tick == Release /\ UNCHANGED reorder_deadline

-----------------------------------------------------------------------------
\* reset_stream(): the peer restarted, the next frame starts a new stream.
\* The history and the loss estimate are those of the stream and start over.
ResetStream ==
    /\ next_seq' = None
    /\ committed' = FALSE
    /\ origin_age' = 0
    /\ buffer' = {}
    /\ seen' = << >>
    /\ arrivals' = << >>
    /\ seq_heap' = {}
    /\ lost_estimate' = 0
    /\ delivered' = << >>
    /\ UNCHANGED <<origin_grace, reorder_deadline>>

\* AdaptiveRecovery assigns reassembler.reorder_deadline_s at any time.
SetReorderDeadline(d) ==
    /\ reorder_deadline' = d
    /\ UNCHANGED <<next_seq, committed, origin_grace, origin_age, buffer, seen, arrivals,
                   seq_heap, lost_estimate, delivered>>

\* time.monotonic() advances.
ClockStep ==
    /\ origin_age' = Older(origin_age)
    /\ arrivals' = [i \in DOMAIN arrivals |->
                        [arrivals[i] EXCEPT !.age = Older(@)]]
    /\ UNCHANGED <<next_seq, committed, origin_grace, buffer, seen, seq_heap,
                   reorder_deadline, lost_estimate, delivered>>

Next ==
    \/ \E seq \in SeqNumbers : Push(seq)
    \/ Tick
    \/ ResetStream
    \/ \E d \in Deadlines : SetReorderDeadline(d)
    \/ ClockStep

Spec == Init /\ [][Next]_vars

\* Transport.run calls tick once per pass of its loop, whatever arrives, and
\* time does not stop.
Fairness == WF_vars(Tick) /\ WF_vars(ClockStep)

FairSpec == Spec /\ Fairness

-----------------------------------------------------------------------------
(***************************************************************************)
(* Properties.                                                             *)
(***************************************************************************)

\* Whatever the legs lose, repeat or reorder, and however small the dedupe
\* window is, a stream hands every sequence number up at most once and in the
\* sender's order (push, _drain, _force_skip and tick together).
InOrderOnce ==
    \A i, j \in DOMAIN delivered : i < j => delivered[i] < delivered[j]

\* Every number between the first delivered and the next one owed was either
\* delivered or counted in stats.lost_estimate: a skip charges exactly the
\* gap it gives up, on the overflow path as on the deadline path.
Accounted ==
    delivered # << >> =>
        Len(delivered) + lost_estimate = next_seq - delivered[1]

\* Between operations a committed stream waits for a number it does not hold:
\* no drain stops short and none leaves something older behind.
WaitsForAGap ==
    committed => next_seq # None /\ \A s \in buffer : next_seq < s

\* The lazy indexes answer for the buffer: each held number is in the heap and
\* in the arrival queue, and the queue is in order of waiting time, so its
\* swept head is the longest-waiting packet (_sweep).
IndexesCoverBuffer ==
    /\ buffer \subseteq seq_heap
    /\ \A s \in buffer : \E i \in DOMAIN arrivals : arrivals[i].seq = s
    /\ \A i, j \in DOMAIN arrivals : i < j => arrivals[i].age >= arrivals[j].age

\* With the origin committed on the first arrival, as every deployment runs
\* it, an overflow always frees a place: max_buffered really bounds the buffer.
BufferBounded == origin_grace = 0 => Cardinality(buffer) <= MaxBuffered

\* Until the origin is committed the stream starts at the lowest number that
\* has arrived, so a frame that took a slower leg is not lost to the race.
OriginIsEarliest ==
    ~ committed /\ next_seq # None =>
        IsLowest(next_seq, buffer) /\ delivered = << >>

\* The buffer and what is kept about it agree, through every skip, overflow and
\* reset: every number is accounted for once, the buffer holds only what waits
\* for a gap, the lazy indexes cover it, and its bound and its origin hold.
BufferConsistent ==
    /\ TypeOK /\ Accounted /\ WaitsForAGap
    /\ IndexesCoverBuffer /\ BufferBounded /\ OriginIsEarliest

\* What makes in-order delivery inductive: the next number owed is above all
\* that was delivered and below all that is held, which a skip respects only
\* because the heap it asks covers the buffer.
StreamInv ==
    /\ buffer \subseteq seq_heap
    /\ next_seq = None => ~ committed
    /\ ~ committed => delivered = << >>
    /\ committed => \A s \in buffer : next_seq < s
    /\ \A i \in DOMAIN delivered : delivered[i] < next_seq
    /\ InOrderOnce

Service == INSTANCE InOrderDelivery WITH delivered <- delivered

\* The reassembler implements the delivery service: what a stream has handed
\* up only ever grows, in increasing order, until the stream is reset.
RefinesService == Service!Spec

\* A gap is given up only when a packet behind it has waited out the reorder
\* deadline, or when the buffer is full: a stale index entry never makes tick
\* skip early.
NoEarlyAbandon ==
    [][ committed /\ lost_estimate' > lost_estimate =>
            \/ \E i \in DOMAIN arrivals :
                    /\ arrivals[i].seq \in buffer
                    /\ arrivals[i].age >= reorder_deadline
            \/ Cardinality(buffer) >= MaxBuffered ]_vars

\* A lost packet never stalls the stream: whatever is buffered is handed up
\* (or goes with its stream when the peer restarts), even if nothing else ever
\* arrives, because tick runs on every pass of the loop.
Released == \A s \in SeqNumbers : s \in buffer ~> s \notin buffer

=============================================================================
