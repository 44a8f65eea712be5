------------------------- MODULE ReceivePathProofs -------------------------
(***************************************************************************)
(* Proofs about the receive side, Reassembler, NackTracker and ReceivePath, *)
(* and about recovery end to end (Recovery), for every number of sequence   *)
(* numbers and legs, every set of deadlines, ceilings and holds, every      *)
(* grace, and every limit of the buffer, the dedupe window, the table of    *)
(* gaps, the scan for them and the sender's ring.                           *)
(***************************************************************************)
EXTENDS Recovery, SetSums, SequenceTheorems, FiniteSetTheorems

USE SeqMaxAssumption, DeadlinesAssumption, OriginGracesAssumption,
    MaxBufferedAssumption, DedupeWindowAssumption

\* The empty sequence has no element.
LEMMA NoEntries == \A S : << >> \in Seq(S) /\ Len(<< >>) = 0
  BY EmptySeq

\* The clock step keeps the arrival queue a queue of entries.
LEMMA AgedType ==
    ASSUME NEW arr \in Seq(Entries)
    PROVE  [i \in DOMAIN arr |-> [arr[i] EXCEPT !.age = Older(@)]] \in Seq(Entries)
<1>1. \A i \in 1 .. Len(arr) : [arr[i] EXCEPT !.age = Older(@)] \in Entries
  <2> TAKE i \in 1 .. Len(arr)
  <2>1. arr[i] \in Entries
    BY ElementOfSeq
  <2>2. Older(arr[i].age) \in Nat
    BY <2>1 DEF Older, Entries
  <2> QED
    BY <2>1, <2>2 DEF Entries
<1>2. DOMAIN arr = 1 .. Len(arr) /\ Len(arr) \in Nat
  OBVIOUS
<1> QED
  BY <1>1, <1>2, IsASeq

\* Adding a number to the dedupe window keeps it a window of numbers.
LEMMA RememberType ==
    ASSUME TypeOK, NEW seq \in SeqNumbers
    PROVE  Remember(seq) \in Seq(SeqNumbers) /\ Len(Remember(seq)) <= DedupeWindow
<1>1. seen \in Seq(SeqNumbers) /\ Len(seen) <= DedupeWindow
  BY DEF TypeOK
<1> QED
  BY <1>1 DEF Remember

\* Sweeping the arrival queue leaves a queue of entries.
LEMMA SweepsToType ==
    ASSUME NEW arr \in Seq(Entries), NEW buf, NEW swept, SweepsTo(swept, arr, buf)
    PROVE  swept \in Seq(Entries)
  BY DEF SweepsTo

\* A swept heap still covers the buffer it was swept against.
LEMMA SweptHeapCovers ==
    ASSUME NEW heap \in SUBSET SeqNumbers, NEW buf \in SUBSET heap
    PROVE  /\ buf \subseteq SweptHeap(heap, buf)
           /\ SweptHeap(heap, buf) \subseteq heap
  BY DEF SweptHeap, SeqNumbers

\* The lowest entry of a swept heap is the lowest number buffered.
LEMMA LowestOfSwept ==
    ASSUME NEW heap \in SUBSET SeqNumbers, NEW buf \in SUBSET heap, NEW n,
           IsLowest(n, SweptHeap(heap, buf))
    PROVE  IsLowest(n, buf)
  BY DEF SweptHeap, SeqNumbers, IsLowest

\* _drain from n, when n is above all that was delivered and not above
\* anything held, hands up an increasing run and stops in front of a gap.
LEMMA DrainKeepsOrder ==
    ASSUME delivered \in Seq(SeqNumbers), InOrderOnce,
           NEW n \in 0 .. SeqMax + 1, NEW buf \in SUBSET SeqNumbers,
           \A b \in buf : n <= b,
           \A i \in DOMAIN delivered : delivered[i] < n,
           Drain(n, buf)
    PROVE  /\ next_seq' \in 0 .. SeqMax + 1
           /\ buffer' \in SUBSET buf
           /\ delivered' \in Seq(SeqNumbers)
           /\ \A s \in buffer' : next_seq' < s
           /\ \A i \in DOMAIN delivered' : delivered'[i] < next_seq'
           /\ InOrderOnce'
           /\ Service!Extends(delivered', delivered)
<1>1. PICK k \in 0 .. SeqMax + 1 : /\ DrainsTo(k, n, buf)
                                   /\ next_seq' = k
                                   /\ buffer' = buf \ (n .. (k - 1))
                                   /\ delivered' = delivered \o Run(n, k)
  BY DEF Drain
<1>2. n <= k /\ n .. (k - 1) \subseteq buf /\ k \notin buf
  BY <1>1 DEF DrainsTo
<1>3. Run(n, k) \in Seq(SeqNumbers) /\ Len(Run(n, k)) = k - n
  BY <1>2 DEF Run, SeqNumbers
<1>4. \A i \in 1 .. (k - n) : Run(n, k)[i] = n + i - 1
  BY DEF Run
<1>5. /\ delivered' \in Seq(SeqNumbers)
      /\ Len(delivered') = Len(delivered) + (k - n)
      /\ \A i \in 1 .. Len(delivered) + (k - n) : delivered'[i] =
            IF i <= Len(delivered) THEN delivered[i]
                                   ELSE Run(n, k)[i - Len(delivered)]
  BY <1>1, <1>3, ConcatProperties
<1>6. /\ Len(delivered) \in Nat /\ DOMAIN delivered = 1 .. Len(delivered)
      /\ DOMAIN delivered' = 1 .. Len(delivered) + (k - n)
      /\ \A i \in DOMAIN delivered : delivered[i] \in Nat /\ delivered'[i] = delivered[i]
      /\ \A i \in DOMAIN delivered' :
            i > Len(delivered) => delivered'[i] = n + (i - Len(delivered)) - 1
  <2>1. \A i \in DOMAIN delivered : delivered[i] \in SeqNumbers
    OBVIOUS
  <2>2. Len(delivered) \in Nat /\ DOMAIN delivered = 1 .. Len(delivered)
    OBVIOUS
  <2>3. DOMAIN delivered' = 1 .. Len(delivered')
    BY <1>5
  <2>4. \A i \in DOMAIN delivered' : i > Len(delivered) =>
            delivered'[i] = n + (i - Len(delivered)) - 1
    <3> SUFFICES ASSUME NEW i \in DOMAIN delivered', i > Len(delivered)
                 PROVE  delivered'[i] = n + (i - Len(delivered)) - 1
      OBVIOUS
    <3>1. i - Len(delivered) \in 1 .. (k - n)
      BY <1>2, <1>5, <2>2, <2>3
    <3>2. delivered'[i] = Run(n, k)[i - Len(delivered)]
      BY <1>5, <2>2, <2>3
    <3> QED
      BY <1>4, <3>1, <3>2
  <2>5. \A i \in DOMAIN delivered : delivered'[i] = delivered[i]
    BY <1>2, <1>5, <2>2
  <2> QED
    BY <1>5, <2>1, <2>2, <2>3, <2>4, <2>5 DEF SeqNumbers
<1>7. \A s \in buffer' : k < s
  BY <1>1, <1>2 DEF SeqNumbers
<1>8. \A i \in DOMAIN delivered' : delivered'[i] < k
  BY <1>2, <1>6
<1>9. InOrderOnce'
  BY <1>2, <1>6 DEF InOrderOnce
<1>10. Service!Extends(delivered', delivered)
  BY <1>2, <1>5, <1>6 DEF Service!Extends
<1> QED
  BY <1>1, <1>5, <1>7, <1>8, <1>9, <1>10

\* The type invariant and the stream invariant together are inductive.
LEMMA StreamInvInit == Init => TypeOK /\ StreamInv
<1> SUFFICES ASSUME Init PROVE TypeOK /\ StreamInv
  OBVIOUS
<1>1. TypeOK
  <2>1. /\ seen \in Seq(SeqNumbers) /\ Len(seen) <= DedupeWindow
        /\ arrivals \in Seq(Entries) /\ delivered \in Seq(SeqNumbers)
    BY NoEntries DEF Init
  <2> QED BY <2>1 DEF Init, TypeOK
<1>2. delivered = << >> /\ DOMAIN delivered = {}
  BY DEF Init
<1>3. StreamInv
  BY <1>2 DEF Init, StreamInv, InOrderOnce
<1> QED BY <1>1, <1>3

\* What a step may do to the history.
Grows ==
    \/ delivered' = delivered
    \/ delivered' = << >>
    \/ Service!Extends(delivered', delivered)

LEMMA AcceptKeepsInv ==
    ASSUME TypeOK, StreamInv, NEW seq \in SeqNumbers, Accept(seq)
    PROVE  TypeOK' /\ StreamInv' /\ Grows
<1> DEFINE buf == buffer \cup {seq}
           heap == seq_heap \cup {seq}
<1>1. heap \in SUBSET SeqNumbers /\ buf \in SUBSET heap
  BY DEF TypeOK, StreamInv
<1>2. PICK from, n \in SeqNumbers :
        /\ IF committed THEN from = next_seq
                        ELSE IsLowest(from, SweptHeap(heap, buf))
        /\ IF Overflows(buf) THEN SkipsTo(n, from, SweptHeap(heap, buf))
                             ELSE n = from
        /\ lost_estimate' = lost_estimate + AtLeastZero(n - from)
        /\ Drain(n, buf)
  BY DEF Accept
<1>3. Wanted(seq) /\ committed' = TRUE
  BY DEF Accept
<1>4. \A b \in buf : from <= b
  <2>1. CASE committed
    <3>1. from = next_seq /\ next_seq <= seq
      BY <1>2, <1>3, <2>1 DEF Wanted
    <3>2. \A b \in buffer : next_seq < b
      BY <2>1 DEF StreamInv
    <3> QED BY <1>1, <3>1, <3>2 DEF SeqNumbers
  <2>2. CASE ~ committed
    <3>1. IsLowest(from, SweptHeap(heap, buf))
      BY <1>2, <2>2
    <3>2. IsLowest(from, buf)
      BY <1>1, <3>1, LowestOfSwept
    <3> QED BY <3>2 DEF IsLowest
  <2> QED BY <2>1, <2>2
<1>5. n = from \/ IsLowest(n, buf)
  BY <1>1, <1>2, LowestOfSwept DEF SkipsTo
<1>6. \A b \in buf : n <= b
  BY <1>4, <1>5 DEF IsLowest
<1>7. \A i \in DOMAIN delivered : delivered[i] < n
  <2>1. CASE committed
    <3>1. from <= n
      BY <1>1, <1>4, <1>5 DEF IsLowest, SeqNumbers
    <3>2. from = next_seq
      BY <1>2, <2>1
    <3>3. \A i \in DOMAIN delivered : delivered[i] \in SeqNumbers
      BY DEF TypeOK
    <3> QED
      BY <3>1, <3>2, <3>3 DEF StreamInv, SeqNumbers
  <2>2. CASE ~ committed
    BY <2>2 DEF StreamInv
  <2> QED BY <2>1, <2>2
<1>8. /\ next_seq' \in 0 .. SeqMax + 1
      /\ buffer' \in SUBSET buf
      /\ delivered' \in Seq(SeqNumbers)
      /\ \A s \in buffer' : next_seq' < s
      /\ \A i \in DOMAIN delivered' : delivered'[i] < next_seq'
      /\ InOrderOnce'
      /\ Service!Extends(delivered', delivered)
  <2>1. n \in 0 .. SeqMax + 1
    BY DEF SeqNumbers
  <2>2. delivered \in Seq(SeqNumbers) /\ InOrderOnce
    BY DEF TypeOK, StreamInv
  <2>3. buf \in SUBSET SeqNumbers
    BY <1>1
  <2> QED
    BY <1>2, <1>6, <1>7, <2>1, <2>2, <2>3, DrainKeepsOrder
<1>9. /\ SweptHeap(heap, buf) \in SUBSET SeqNumbers
      /\ buf \subseteq SweptHeap(heap, buf)
  BY <1>1, SweptHeapCovers
<1>10. seq_heap' \in SUBSET SeqNumbers /\ buf \subseteq seq_heap'
  BY <1>1, <1>9 DEF Accept
<1>11. arrivals' \in Seq(Entries)
  <2>1. Arrived(seq) \in Seq(Entries)
    BY DEF Arrived, TypeOK, Entries
  <2>2. arrivals' = Arrived(seq) \/ SweepsTo(arrivals', Arrived(seq), buf)
    BY DEF Accept
  <2> QED BY <2>1, <2>2, SweepsToType
<1>12. lost_estimate' \in Nat
  BY <1>2 DEF AtLeastZero, TypeOK, SeqNumbers
<1>13. origin_age' \in Nat
  BY DEF Accept, GraceAge, TypeOK
<1>14. seen' \in Seq(SeqNumbers) /\ Len(seen') <= DedupeWindow
  BY RememberType DEF Accept
<1>15. reorder_deadline' \in Deadlines /\ origin_grace' \in OriginGraces
  BY DEF Accept, TypeOK
<1>16. TypeOK'
  BY <1>3, <1>8, <1>10, <1>11, <1>12, <1>13, <1>14, <1>15, <1>1 DEF TypeOK
<1>17. StreamInv'
  BY <1>3, <1>8, <1>10 DEF StreamInv, None
<1> QED BY <1>8, <1>16, <1>17 DEF Grows

\* Whatever tick releases, and whatever becomes of the deadline meanwhile.
LEMMA ReleaseKeepsInv ==
    ASSUME TypeOK, StreamInv, Release, reorder_deadline' \in Deadlines
    PROVE  TypeOK' /\ StreamInv' /\ Grows
<1>1. ASSUME Sweep
      PROVE  /\ arrivals' \in Seq(Entries)
             /\ seq_heap' = SweptHeap(seq_heap, buffer)
             /\ seq_heap' \in SUBSET SeqNumbers
             /\ buffer \subseteq seq_heap'
  <2>1. arrivals \in Seq(Entries) /\ seq_heap \in SUBSET SeqNumbers
        /\ buffer \in SUBSET seq_heap
    BY DEF TypeOK, StreamInv
  <2> QED
    BY <1>1, <2>1, SweepsToType, SweptHeapCovers DEF Sweep
<1>2. CASE TickIdle
  BY <1>1, <1>2 DEF TickIdle, TypeOK, StreamInv, InOrderOnce, Grows
<1>3. CASE TickCommit
  <2>1. PICK n \in SeqNumbers : IsLowest(n, seq_heap') /\ Drain(n, buffer)
    BY <1>3 DEF TickCommit
  <2>2. IsLowest(n, buffer)
    BY <1>1, <1>3, <2>1, LowestOfSwept DEF TickCommit, TypeOK, StreamInv
  <2>3. delivered = << >> /\ DOMAIN delivered = {}
    BY <1>3 DEF TickCommit, StreamInv
  <2>4. delivered \in Seq(SeqNumbers) /\ InOrderOnce /\ buffer \in SUBSET SeqNumbers
        /\ n \in 0 .. SeqMax + 1
    BY DEF TypeOK, StreamInv, SeqNumbers
  <2>5. /\ next_seq' \in 0 .. SeqMax + 1
        /\ buffer' \in SUBSET buffer
        /\ delivered' \in Seq(SeqNumbers)
        /\ \A s \in buffer' : next_seq' < s
        /\ \A i \in DOMAIN delivered' : delivered'[i] < next_seq'
        /\ InOrderOnce'
        /\ Service!Extends(delivered', delivered)
    BY <2>1, <2>2, <2>3, <2>4, DrainKeepsOrder DEF IsLowest
  <2>6. Sweep /\ committed' = TRUE
    BY <1>3 DEF TickCommit
  <2>7. TypeOK'
    BY <1>1, <1>3, <2>5, <2>6 DEF TickCommit, TypeOK
  <2>8. StreamInv'
    BY <1>1, <2>5, <2>6 DEF StreamInv, None
  <2> QED BY <2>5, <2>7, <2>8 DEF Grows
<1>4. CASE TickAbandon
  <2>1. PICK n \in 0 .. SeqMax + 1 :
            /\ SkipsTo(n, next_seq, seq_heap')
            /\ lost_estimate' = lost_estimate + AtLeastZero(n - next_seq)
            /\ Drain(n, buffer)
    BY <1>4 DEF TickAbandon
  <2>2. Sweep /\ committed /\ committed' = committed /\ next_seq \in 0 .. SeqMax + 1
    BY <1>4 DEF TickAbandon, TypeOK
  <2>3. n = next_seq \/ IsLowest(n, buffer)
    BY <1>1, <2>1, <2>2, LowestOfSwept DEF SkipsTo, TypeOK, StreamInv
  <2>4. delivered \in Seq(SeqNumbers) /\ InOrderOnce /\ buffer \in SUBSET SeqNumbers
    BY DEF TypeOK, StreamInv
  <2>5. next_seq <= n /\ \A b \in buffer : n <= b
    BY <2>2, <2>3, <2>4 DEF StreamInv, IsLowest, SeqNumbers
  <2>6. \A i \in DOMAIN delivered : delivered[i] < n
    <3>1. \A i \in DOMAIN delivered : delivered[i] \in Nat
      BY <2>4 DEF SeqNumbers
    <3> QED
      BY <2>2, <2>5, <3>1 DEF StreamInv
  <2>7. /\ next_seq' \in 0 .. SeqMax + 1
        /\ buffer' \in SUBSET buffer
        /\ delivered' \in Seq(SeqNumbers)
        /\ \A s \in buffer' : next_seq' < s
        /\ \A i \in DOMAIN delivered' : delivered'[i] < next_seq'
        /\ InOrderOnce'
        /\ Service!Extends(delivered', delivered)
    BY <2>1, <2>4, <2>5, <2>6, DrainKeepsOrder
  <2>8. lost_estimate' \in Nat
    BY <2>1, <2>2 DEF AtLeastZero, TypeOK
  <2>9. TypeOK'
    BY <1>1, <1>4, <2>2, <2>7, <2>8 DEF TickAbandon, TypeOK
  <2>10. StreamInv'
    BY <1>1, <2>2, <2>7 DEF StreamInv, None
  <2> QED BY <2>7, <2>9, <2>10 DEF Grows
<1> QED
  BY <1>2, <1>3, <1>4 DEF Release

LEMMA StreamInvStep == TypeOK /\ StreamInv /\ [Next]_vars => TypeOK' /\ StreamInv' /\ Grows
<1> SUFFICES ASSUME TypeOK, StreamInv, [Next]_vars
             PROVE  TypeOK' /\ StreamInv' /\ Grows
  OBVIOUS
<1>1. ASSUME NEW seq \in SeqNumbers, DropDuplicate(seq)
      PROVE  TypeOK' /\ StreamInv' /\ Grows
  BY <1>1 DEF DropDuplicate, vars, TypeOK, StreamInv, InOrderOnce, Grows
<1>2. ASSUME NEW seq \in SeqNumbers, DropTooLate(seq)
      PROVE  TypeOK' /\ StreamInv' /\ Grows
  <2>1. seen' \in Seq(SeqNumbers) /\ Len(seen') <= DedupeWindow
    BY <1>2, RememberType DEF DropTooLate
  <2> QED
    BY <1>2, <2>1 DEF DropTooLate, TypeOK, StreamInv, InOrderOnce, Grows
<1>3. ASSUME NEW seq \in SeqNumbers, HoldForOrigin(seq)
      PROVE  TypeOK' /\ StreamInv' /\ Grows
  <2>1. seen' \in Seq(SeqNumbers) /\ Len(seen') <= DedupeWindow
    BY <1>3, RememberType DEF HoldForOrigin
  <2>2. arrivals' \in Seq(Entries)
    BY <1>3 DEF HoldForOrigin, Arrived, TypeOK, Entries
  <2>3. next_seq' \in 0 .. SeqMax + 1
    BY <1>3 DEF HoldForOrigin, Origin, TypeOK, SeqNumbers, None
  <2>4. origin_age' \in Nat
    BY <1>3 DEF HoldForOrigin, GraceAge, TypeOK
  <2>5. TypeOK'
    BY <1>3, <2>1, <2>2, <2>3, <2>4 DEF HoldForOrigin, TypeOK
  <2>6. ~ committed' /\ delivered' = << >> /\ buffer' \subseteq seq_heap'
    BY <1>3 DEF HoldForOrigin, StreamInv
  <2>7. DOMAIN delivered' = {}
    BY <2>6
  <2> QED
    BY <1>3, <2>5, <2>6, <2>7 DEF HoldForOrigin, StreamInv, InOrderOnce, Grows
<1>4. ASSUME NEW seq \in SeqNumbers, Accept(seq)
      PROVE  TypeOK' /\ StreamInv' /\ Grows
  BY <1>4, AcceptKeepsInv
<1>5. CASE Tick
  <2>1. reorder_deadline' \in Deadlines
    BY <1>5 DEF Tick, TypeOK
  <2> QED BY <1>5, <2>1, ReleaseKeepsInv DEF Tick
<1>9. CASE ResetStream
  <2>1. delivered' = << >> /\ DOMAIN delivered' = {}
    BY <1>9 DEF ResetStream
  <2>2. TypeOK'
    <3>1. /\ seen' \in Seq(SeqNumbers) /\ Len(seen') <= DedupeWindow
          /\ arrivals' \in Seq(Entries) /\ delivered' \in Seq(SeqNumbers)
      BY <1>9, NoEntries DEF ResetStream
    <3> QED BY <1>9, <3>1 DEF ResetStream, TypeOK
  <2> QED
    BY <1>9, <2>1, <2>2 DEF ResetStream, StreamInv, InOrderOnce, Grows
<1>10. ASSUME NEW d \in Deadlines, SetReorderDeadline(d)
       PROVE  TypeOK' /\ StreamInv' /\ Grows
  BY <1>10 DEF SetReorderDeadline, TypeOK, StreamInv, InOrderOnce, Grows
<1>11. CASE ClockStep
  <2>1. \A a \in Nat : Older(a) \in Nat
    BY DEF Older
  <2>2. arrivals' \in Seq(Entries) /\ origin_age' \in Nat
    BY <1>11, <2>1, AgedType DEF ClockStep, TypeOK
  <2> QED
    BY <1>11, <2>2 DEF ClockStep, TypeOK, StreamInv, InOrderOnce, Grows
<1>12. CASE UNCHANGED vars
  BY <1>12 DEF vars, TypeOK, StreamInv, InOrderOnce, Grows
<1> QED
  BY <1>1, <1>2, <1>3, <1>4, <1>5, <1>9, <1>10, <1>11, <1>12
  DEF Next, Push

\* Type correctness: reassembler state stays within its types for every value
\* of the constants, in particular a skip never makes the loss estimate
\* negative and the dedupe window never outgrows its limit.
THEOREM TypeCorrect == Spec => []TypeOK
  BY StreamInvInit, StreamInvStep, PTL DEF Spec

\* In-order, at-most-once delivery for every buffer limit, dedupe window,
\* deadline and grace: a frame whose number the window has forgotten is caught
\* by the too-late check, and no skip moves the stream backwards.
THEOREM InOrderOnceCorrect == Spec => []InOrderOnce
<1>1. TypeOK /\ StreamInv => InOrderOnce
  BY DEF StreamInv
<1> QED
  BY <1>1, StreamInvInit, StreamInvStep, PTL DEF Spec

\* The reassembler implements the delivery service: every step it takes is a
\* HandUp, a NewStream or a stutter of InOrderDelivery.
THEOREM ReassemblerRefinesService == Spec => RefinesService
<1>1. Init => Service!Init
  BY DEF Init, Service!Init
<1>2. TypeOK /\ StreamInv /\ [Next]_vars => [Service!Next]_delivered
  BY StreamInvStep
  DEF Grows, StreamInv, InOrderOnce, Service!Next, Service!HandUp,
      Service!NewStream, Service!Increasing
<1> QED
  BY <1>1, <1>2, StreamInvInit, StreamInvStep, PTL
  DEF Spec, RefinesService, Service!Spec

-----------------------------------------------------------------------------
(* The buffer and what is kept about it.  A stream is committed by the       *)
(* delivery of its first number and has lost none before that, so what it    *)
(* skips is charged from then on; and a stream that has seen no frame holds  *)
(* none.                                                                     *)

Begun ==
    /\ committed => delivered # << >>
    /\ ~ committed => lost_estimate = 0
    /\ next_seq = None => buffer = {}

BufferInv == StreamInv /\ Begun /\ BufferConsistent

\* Every held number stands in a queue, and the queue is in order of waiting time.
Covers(arr, buf) == \A s \in buf : \E i \in DOMAIN arr : arr[i].seq = s
Queued(arr) == \A i, j \in DOMAIN arr : i < j => arr[i].age >= arr[j].age

\* A swept queue covers what it was swept against, in the same order, and what stands in
\* front of it is held.
LEMMA SweptQueue ==
    ASSUME NEW arr \in Seq(Entries), NEW buf, NEW swept, SweepsTo(swept, arr, buf), Queued(arr)
    PROVE  /\ Covers(arr, buf) => Covers(swept, buf)
           /\ Queued(swept)
           /\ swept # << >> => \E i \in DOMAIN arr : arr[i] = swept[1] /\ arr[i].seq \in buf
<1>1. PICK n \in 0 .. Len(arr) : /\ \A j \in 1 .. n : arr[j].seq \notin buf
                                 /\ n < Len(arr) => arr[n + 1].seq \in buf
                                 /\ swept = SubSeq(arr, n + 1, Len(arr))
    BY DEF SweepsTo
<1>2. Len(arr) \in Nat /\ DOMAIN arr = 1 .. Len(arr)
    OBVIOUS
<1>3. /\ DOMAIN swept = 1 .. Len(arr) - n
      /\ \A i \in 1 .. Len(arr) - n : swept[i] = arr[i + n] /\ i + n \in 1 .. Len(arr)
    BY <1>1, <1>2
<1>4. Covers(arr, buf) => Covers(swept, buf)
  <2> SUFFICES ASSUME Covers(arr, buf), NEW s \in buf PROVE \E i \in DOMAIN swept : swept[i].seq = s
      BY DEF Covers
  <2>1. PICK i \in 1 .. Len(arr) : arr[i].seq = s
      BY <1>2 DEF Covers
  <2>2. i \notin 1 .. n
      BY <1>1, <2>1
  <2>3. i - n \in 1 .. Len(arr) - n /\ (i - n) + n = i
      BY <1>2, <2>2
  <2> QED
      BY <1>3, <2>1, <2>3
<1>5. Queued(swept)
  <2> SUFFICES ASSUME NEW i \in DOMAIN swept, NEW j \in DOMAIN swept, i < j PROVE swept[i].age >= swept[j].age
      BY DEF Queued
  <2>1. swept[i] = arr[i + n] /\ swept[j] = arr[j + n] /\ i + n \in DOMAIN arr /\ j + n \in DOMAIN arr /\ i + n < j + n
      BY <1>2, <1>3
  <2> QED
      BY <2>1 DEF Queued
<1>6. swept # << >> => \E i \in DOMAIN arr : arr[i] = swept[1] /\ arr[i].seq \in buf
  <2> SUFFICES ASSUME swept # << >> PROVE n < Len(arr)
      BY <1>1, <1>2, <1>3
  <2> QED
      BY <1>1, <1>2
<1> QED
    BY <1>4, <1>5, <1>6

\* A number that arrives is the last in the queue.
LEMMA ArrivedQueue ==
    ASSUME NEW arr \in Seq(Entries), NEW buf, NEW seq \in SeqNumbers, Queued(arr)
    PROVE  /\ Append(arr, [seq |-> seq, age |-> 0]) \in Seq(Entries)
           /\ Covers(arr, buf) => Covers(Append(arr, [seq |-> seq, age |-> 0]), buf \cup {seq})
           /\ Queued(Append(arr, [seq |-> seq, age |-> 0]))
<1> DEFINE e == [seq |-> seq, age |-> 0]
           new == Append(arr, e)
<1>1. e \in Entries /\ e.seq = seq /\ e.age = 0
    BY DEF Entries
<1> HIDE DEF e
<1>2. /\ new \in Seq(Entries) /\ Len(arr) \in Nat /\ DOMAIN arr = 1 .. Len(arr) /\ DOMAIN new = 1 .. Len(arr) + 1
      /\ new[Len(arr) + 1] = e /\ \A i \in 1 .. Len(arr) : new[i] = arr[i] /\ arr[i] \in Entries
    BY <1>1
<1> HIDE DEF new
<1>3. Covers(arr, buf) => Covers(new, buf \cup {seq})
    BY <1>1, <1>2 DEF Covers
<1>4. Queued(new)
  <2> SUFFICES ASSUME NEW i \in DOMAIN new, NEW j \in DOMAIN new, i < j PROVE new[i].age >= new[j].age
      BY DEF Queued
  <2>1. i \in 1 .. Len(arr) /\ (j = Len(arr) + 1 \/ j \in 1 .. Len(arr))
      BY <1>2
  <2>2. new[i].age = arr[i].age /\ arr[i].age \in Nat
      BY <1>2, <2>1 DEF Entries
  <2>3. CASE j = Len(arr) + 1
      BY <1>1, <1>2, <2>2, <2>3
  <2>4. CASE j \in 1 .. Len(arr)
      BY <1>2, <2>1, <2>2, <2>4 DEF Queued
  <2> QED
      BY <2>1, <2>3, <2>4
<1> QED
    BY <1>2, <1>3, <1>4 DEF new, e

\* Waiting keeps the order of waiting times, whatever the largest age told apart.
LEMMA OlderQueue ==
    ASSUME NEW arr \in Seq(Entries), NEW buf, Queued(arr)
    PROVE  LET aged == [i \in DOMAIN arr |-> [arr[i] EXCEPT !.age = Older(@)]]
           IN  (Covers(arr, buf) => Covers(aged, buf)) /\ Queued(aged)
<1> DEFINE aged == [i \in DOMAIN arr |-> [arr[i] EXCEPT !.age = Older(@)]]
<1>1. \A i \in DOMAIN arr : arr[i] \in Entries
    OBVIOUS
<1>2. \A i \in DOMAIN arr : aged[i].seq = arr[i].seq /\ aged[i].age = Older(arr[i].age) /\ arr[i].age \in Nat
    BY <1>1 DEF Entries
<1>3. DOMAIN aged = DOMAIN arr
    OBVIOUS
<1> HIDE DEF aged
<1>4. Covers(arr, buf) => Covers(aged, buf)
    BY <1>2, <1>3 DEF Covers
<1>5. \A a, b \in Nat : a >= b => Older(a) >= Older(b)
    BY DEF Older
<1>6. Queued(aged)
    BY <1>2, <1>3, <1>5 DEF Queued
<1> QED
    BY <1>4, <1>6 DEF aged

\* A drain that begins at a held number hands at least that one up, and what follows is
\* charged to nothing.
LEMMA DrainCounts ==
    ASSUME delivered \in Seq(SeqNumbers), NEW n \in 0 .. SeqMax + 1, NEW buf \in SUBSET SeqNumbers, Drain(n, buf)
    PROVE  /\ next_seq' \in 0 .. SeqMax + 1 /\ n <= next_seq'
           /\ Len(delivered') = Len(delivered) + (next_seq' - n)
           /\ delivered # << >> => delivered' # << >> /\ delivered'[1] = delivered[1]
           /\ n \in buf => /\ delivered' # << >> /\ n \notin buffer'
                           /\ delivered = << >> => delivered'[1] = n
           /\ buffer' \in SUBSET buf
<1>1. PICK k \in 0 .. SeqMax + 1 : /\ DrainsTo(k, n, buf)
                                   /\ next_seq' = k
                                   /\ buffer' = buf \ (n .. (k - 1))
                                   /\ delivered' = delivered \o Run(n, k)
    BY DEF Drain
<1>2. n <= k /\ k \notin buf
    BY <1>1 DEF DrainsTo
<1>3. Run(n, k) \in Seq(Nat) /\ Len(Run(n, k)) = k - n /\ (k > n => Run(n, k)[1] = n)
    BY <1>2 DEF Run
<1>4. delivered \in Seq(Nat) /\ Len(delivered) \in Nat
    BY DEF SeqNumbers
<1>5. /\ delivered' \in Seq(Nat) /\ Len(delivered') = Len(delivered) + (k - n)
      /\ \A i \in 1 .. Len(delivered) + (k - n) :
            delivered'[i] = IF i <= Len(delivered) THEN delivered[i] ELSE Run(n, k)[i - Len(delivered)]
  <2>1. PICK q \in Seq(Nat) : q = Run(n, k) /\ Len(q) = k - n
      BY <1>3
  <2>2. /\ delivered \o q \in Seq(Nat) /\ Len(delivered \o q) = Len(delivered) + Len(q)
        /\ \A i \in 1 .. Len(delivered) + Len(q) :
              (delivered \o q)[i] = IF i <= Len(delivered) THEN delivered[i] ELSE q[i - Len(delivered)]
      BY <1>4, ConcatProperties
  <2>3. delivered' = delivered \o q
      BY <1>1, <2>1
  <2>4. /\ delivered' \in Seq(Nat) /\ Len(delivered') = Len(delivered) + (k - n)
        /\ \A i \in 1 .. Len(delivered) + (k - n) :
              delivered'[i] = IF i <= Len(delivered) THEN delivered[i] ELSE q[i - Len(delivered)]
      BY <2>1, <2>2, <2>3
  <2> QED
      BY <2>1, <2>4
<1>6. delivered # << >> <=> Len(delivered) > 0
    BY <1>4, EmptySeq
<1>7. delivered' # << >> <=> Len(delivered') > 0
    BY <1>5, EmptySeq
<1>8. delivered # << >> => delivered' # << >> /\ delivered'[1] = delivered[1]
  <2> SUFFICES ASSUME delivered # << >> PROVE Len(delivered') > 0 /\ delivered'[1] = delivered[1]
      BY <1>7
  <2>1. 1 \in 1 .. Len(delivered) + (k - n) /\ 1 <= Len(delivered)
      BY <1>2, <1>4, <1>6
  <2> QED
      BY <1>2, <1>4, <1>5, <2>1
<1>9. n \in buf => /\ delivered' # << >> /\ n \notin buffer'
                   /\ delivered = << >> => delivered'[1] = n
    BY <1>1, <1>2, <1>3, <1>4, <1>5, <1>6, <1>7
<1> QED
    BY <1>1, <1>2, <1>5, <1>8, <1>9

\* Sets of numbers of the wire are finite, and one more or one less counts one.
LEMMA CountHeld ==
    ASSUME NEW S \in SUBSET SeqNumbers
    PROVE  /\ IsFiniteSet(S) /\ Cardinality(S) \in Nat
           /\ \A T \in SUBSET S : Cardinality(T) \in Nat /\ Cardinality(T) <= Cardinality(S)
           /\ \A T \in SUBSET S : \A x \in S \ T : Cardinality(T) < Cardinality(S)
           /\ \A x : Cardinality(S \cup {x}) <= Cardinality(S) + 1
<1>1. IsFiniteSet(SeqNumbers)
    BY FS_Interval DEF SeqNumbers
<1>2. IsFiniteSet(S) /\ Cardinality(S) \in Nat
    BY <1>1, FS_Subset, FS_CardinalityType
<1>3. \A T \in SUBSET S : Cardinality(T) \in Nat /\ Cardinality(T) <= Cardinality(S)
    BY <1>2, FS_Subset, FS_CardinalityType
<1>4. \A T \in SUBSET S : \A x \in S \ T : Cardinality(T) < Cardinality(S)
  <2> SUFFICES ASSUME NEW T \in SUBSET S, NEW x \in S \ T PROVE Cardinality(T) < Cardinality(S)
      OBVIOUS
  <2>1. Cardinality(T) <= Cardinality(S) /\ (Cardinality(S) = Cardinality(T) => S = T)
      BY <1>2, FS_Subset
  <2>2. S # T
      OBVIOUS
  <2> QED
      BY <1>2, <1>3, <2>1, <2>2
<1>5. \A x : Cardinality(S \cup {x}) <= Cardinality(S) + 1
  <2> SUFFICES ASSUME NEW x PROVE Cardinality(S \cup {x}) <= Cardinality(S) + 1
      OBVIOUS
  <2>1. Cardinality(S \cup {x}) = IF x \in S THEN Cardinality(S) ELSE Cardinality(S) + 1
      BY <1>2, FS_AddElement
  <2> QED
      BY <1>2, <2>1
<1> QED
    BY <1>2, <1>3, <1>4, <1>5

\* The buffer's invariant holds at first.
LEMMA BufferInitInv == Init => BufferInv
<1> SUFFICES ASSUME Init PROVE BufferInv
    OBVIOUS
<1>1. /\ next_seq = None /\ ~ committed /\ buffer = {} /\ arrivals = << >> /\ lost_estimate = 0
      /\ delivered = << >> /\ seq_heap = {}
    BY DEF Init
<1>2. TypeOK /\ StreamInv
    BY StreamInvInit
<1>3. Cardinality(buffer) <= MaxBuffered
    BY <1>1, FS_EmptySet
<1>4. DOMAIN arrivals = {}
    BY <1>1
<1>5. IndexesCoverBuffer
    BY <1>1, <1>4 DEF IndexesCoverBuffer
<1> QED
    BY <1>1, <1>2, <1>3, <1>5
    DEF BufferInv, Begun, BufferConsistent, Accounted, WaitsForAGap, BufferBounded, OriginIsEarliest

\* A frame that is accepted keeps it: the origin is handed up when it is committed, an
\* overflow frees a place, and a skip is charged what it gives up.
LEMMA AcceptKeepsBuffer ==
    ASSUME BufferInv, NEW seq \in SeqNumbers, Accept(seq), TypeOK', StreamInv'
    PROVE  BufferInv'
<1> DEFINE buf == buffer \cup {seq}
           heap == seq_heap \cup {seq}
<1>1. TypeOK /\ StreamInv /\ Begun /\ Accounted /\ WaitsForAGap /\ IndexesCoverBuffer /\ BufferBounded /\ OriginIsEarliest
    BY DEF BufferInv, BufferConsistent
<1>2. heap \in SUBSET SeqNumbers /\ buf \in SUBSET heap /\ buf \in SUBSET SeqNumbers
    BY <1>1 DEF TypeOK, StreamInv
<1>3. PICK from, n \in SeqNumbers :
        /\ IF committed THEN from = next_seq ELSE IsLowest(from, SweptHeap(heap, buf))
        /\ IF Overflows(buf) THEN SkipsTo(n, from, SweptHeap(heap, buf)) ELSE n = from
        /\ lost_estimate' = lost_estimate + AtLeastZero(n - from)
        /\ Drain(n, buf)
    BY DEF Accept
<1>4. SweptHeap(heap, buf) # {}
    BY <1>2, SweptHeapCovers
<1>5. Overflows(buf) => IsLowest(n, buf)
    BY <1>2, <1>3, <1>4, LowestOfSwept DEF SkipsTo
<1>6. ~ committed => IsLowest(from, buf) /\ n = from
  <2> SUFFICES ASSUME ~ committed PROVE IsLowest(from, buf) /\ n = from
      OBVIOUS
  <2>1. IsLowest(from, buf)
      BY <1>2, <1>3, LowestOfSwept
  <2>2. Overflows(buf) => n = from
      BY <1>2, <1>5, <2>1 DEF IsLowest, SeqNumbers
  <2> QED
      BY <1>3, <2>1, <2>2
<1>7. committed => from = next_seq /\ from <= n
  <2> SUFFICES ASSUME committed PROVE from = next_seq /\ from <= n
      OBVIOUS
  <2>1. from = next_seq /\ next_seq <= seq /\ \A b \in buffer : next_seq < b
      BY <1>1, <1>3 DEF Accept, Wanted, StreamInv
  <2>2. Overflows(buf) => from <= n
      BY <1>5, <2>1 DEF IsLowest, SeqNumbers
  <2>3. ~ Overflows(buf) => from <= n
      BY <1>3 DEF SeqNumbers
  <2> QED
      BY <2>1, <2>2, <2>3
<1>8. /\ next_seq' \in 0 .. SeqMax + 1 /\ n <= next_seq'
      /\ Len(delivered') = Len(delivered) + (next_seq' - n)
      /\ delivered # << >> => delivered' # << >> /\ delivered'[1] = delivered[1]
      /\ n \in buf => /\ delivered' # << >> /\ n \notin buffer'
                      /\ delivered = << >> => delivered'[1] = n
      /\ buffer' \in SUBSET buf
  <2>1. n \in 0 .. SeqMax + 1 /\ delivered \in Seq(SeqNumbers)
      BY <1>1 DEF SeqNumbers, TypeOK
  <2> QED
      BY <1>2, <1>3, <2>1, DrainCounts
<1>9. committed'
    BY DEF Accept
<1>10. delivered' # << >>
    BY <1>1, <1>6, <1>8 DEF Begun, IsLowest
<1>11. Begun'
    BY <1>8, <1>9, <1>10 DEF Begun, None
<1>12. Accounted'
  <2>1. Len(delivered) \in Nat /\ lost_estimate \in Nat /\ n \in Nat /\ from \in Nat /\ next_seq' \in Nat
      BY <1>1, <1>8 DEF TypeOK, SeqNumbers
  <2>2. CASE committed
    <3>1. /\ delivered # << >> /\ Len(delivered) + lost_estimate = next_seq - delivered[1] /\ delivered[1] \in Nat
          /\ delivered'[1] = delivered[1]
      <4>1. delivered # << >> /\ delivered \in Seq(Nat)
          BY <1>1, <2>2 DEF Begun, TypeOK, SeqNumbers
      <4> QED
          BY <1>1, <1>8, <4>1 DEF Accounted
    <3>2. lost_estimate' = lost_estimate + (n - next_seq) /\ next_seq = from
        BY <1>3, <1>7, <2>1, <2>2 DEF AtLeastZero
    <3>3. Len(delivered') + lost_estimate' = next_seq' - delivered'[1]
      <4>1. Len(delivered') = Len(delivered) + (next_seq' - n) /\ delivered'[1] = delivered[1]
          BY <1>8, <3>1
      <4>2. Len(delivered) + lost_estimate = next_seq - delivered[1] /\ next_seq \in Nat /\ delivered[1] \in Nat
          BY <2>1, <3>1, <3>2
      <4>3. PICK d \in Nat, f \in Nat : d = Len(delivered) /\ f = delivered[1]
          BY <2>1, <4>2
      <4>4. Len(delivered') = d + (next_seq' - n) /\ delivered'[1] = f /\ d + lost_estimate = next_seq - f
          BY <4>1, <4>2, <4>3
      <4>5. d + (next_seq' - n) + (lost_estimate + (n - next_seq)) = next_seq' - f
        <5>1. next_seq \in Int /\ n \in Int /\ next_seq' \in Int /\ lost_estimate \in Int
            BY <2>1, <4>2
        <5>2. d + lost_estimate = next_seq - f
            BY <4>4
        <5> QED
            BY <5>1, <5>2
      <4> QED
          BY <3>2, <4>4, <4>5
    <3> QED
        BY <3>3 DEF Accounted
  <2>3. CASE ~ committed
    <3>1. delivered = << >> /\ lost_estimate = 0 /\ n = from /\ delivered'[1] = n /\ Len(delivered) = 0
        BY <1>1, <1>6, <1>8, <2>3 DEF Begun, StreamInv, IsLowest
    <3>2. lost_estimate' = 0
        BY <1>3, <2>1, <3>1 DEF AtLeastZero
    <3>3. Len(delivered') + lost_estimate' = next_seq' - delivered'[1]
        BY <1>8, <2>1, <3>1, <3>2
    <3> QED
        BY <3>3 DEF Accounted
  <2> QED
      BY <2>2, <2>3
<1>13. IndexesCoverBuffer'
  <2>1. arrivals \in Seq(Entries) /\ Queued(arrivals) /\ Covers(arrivals, buffer)
      BY <1>1 DEF TypeOK, IndexesCoverBuffer, Queued, Covers
  <2>2. Arrived(seq) \in Seq(Entries) /\ Queued(Arrived(seq)) /\ Covers(Arrived(seq), buf)
      BY <2>1, ArrivedQueue DEF Arrived
  <2>3. arrivals' = Arrived(seq) \/ SweepsTo(arrivals', Arrived(seq), buf)
      BY DEF Accept
  <2>4. Queued(arrivals') /\ Covers(arrivals', buf)
      BY <2>2, <2>3, SweptQueue
  <2>5. buffer' \subseteq seq_heap'
      BY DEF StreamInv
  <2> QED
      BY <1>8, <2>4, <2>5 DEF IndexesCoverBuffer, Queued, Covers
<1>14. BufferBounded'
  <2> SUFFICES ASSUME origin_grace' = 0 PROVE Cardinality(buffer') <= MaxBuffered
      BY DEF BufferBounded
  <2>1. Cardinality(buffer) <= MaxBuffered
      BY <1>1 DEF BufferBounded, Accept
  <2>2. /\ Cardinality(buffer') \in Nat /\ Cardinality(buf) \in Nat /\ Cardinality(buffer') <= Cardinality(buf)
        /\ Cardinality(buffer) \in Nat /\ Cardinality(buf) <= Cardinality(buffer) + 1
    <3>1. buffer \in SUBSET SeqNumbers
        BY <1>1 DEF TypeOK
    <3> HIDE DEF buf
    <3>2. Cardinality(buf) \in Nat /\ Cardinality(buffer') \in Nat /\ Cardinality(buffer') <= Cardinality(buf)
        BY <1>2, <1>8, CountHeld
    <3>3. Cardinality(buffer) \in Nat /\ Cardinality(buffer \cup {seq}) <= Cardinality(buffer) + 1
        BY <3>1, CountHeld
    <3> QED
        BY <3>2, <3>3 DEF buf
  <2>3. CASE Overflows(buf)
    <3>1. n \in buf \ buffer'
        BY <1>5, <1>8, <2>3 DEF IsLowest
    <3>2. Cardinality(buffer') < Cardinality(buf)
      <4> HIDE DEF buf
      <4> QED
          BY <1>2, <1>8, <3>1, CountHeld
    <3> QED
        BY <2>1, <2>2, <3>2
  <2>4. CASE ~ Overflows(buf)
      BY <2>2, <2>4 DEF Overflows
  <2> QED
      BY <2>3, <2>4
<1>15. WaitsForAGap' /\ OriginIsEarliest'
    BY <1>8, <1>9 DEF StreamInv, WaitsForAGap, OriginIsEarliest, None
<1> QED
    BY <1>11, <1>12, <1>13, <1>14, <1>15 DEF BufferInv, BufferConsistent

\* So does a pass of tick, whichever way it ends.
LEMMA TickKeepsBuffer ==
    ASSUME BufferInv, Release, TypeOK', StreamInv', origin_grace' = origin_grace
    PROVE  BufferInv'
<1>1. TypeOK /\ StreamInv /\ Begun /\ Accounted /\ WaitsForAGap /\ IndexesCoverBuffer /\ BufferBounded /\ OriginIsEarliest
    BY DEF BufferInv, BufferConsistent
<1>2. Sweep
    BY DEF Release, TickIdle, TickCommit, TickAbandon
<1>3. /\ seq_heap \in SUBSET SeqNumbers /\ buffer \in SUBSET seq_heap /\ buffer \in SUBSET SeqNumbers
      /\ delivered \in Seq(SeqNumbers) /\ seq_heap' = SweptHeap(seq_heap, buffer) /\ lost_estimate \in Nat
    BY <1>1, <1>2 DEF TypeOK, StreamInv, Sweep
<1>4. Queued(arrivals') /\ Covers(arrivals', buffer)
  <2>1. arrivals \in Seq(Entries) /\ Queued(arrivals) /\ Covers(arrivals, buffer)
      BY <1>1 DEF TypeOK, IndexesCoverBuffer, Queued, Covers
  <2> QED
      BY <1>2, <2>1, SweptQueue DEF Sweep
<1>5. ASSUME buffer' \in SUBSET buffer PROVE IndexesCoverBuffer' /\ BufferBounded'
  <2>1. IndexesCoverBuffer'
      BY <1>4, <1>5 DEF StreamInv, IndexesCoverBuffer, Queued, Covers
  <2>2. Cardinality(buffer') <= Cardinality(buffer) /\ Cardinality(buffer') \in Nat /\ Cardinality(buffer) \in Nat
      BY <1>3, <1>5, CountHeld
  <2> QED
      BY <1>1, <2>1, <2>2 DEF BufferBounded
<1>6. CASE TickIdle
  <2>1. UNCHANGED <<next_seq, committed, origin_grace, buffer, lost_estimate, delivered>>
      BY <1>6 DEF TickIdle
  <2>2. IndexesCoverBuffer' /\ BufferBounded'
      BY <1>5, <2>1
  <2>3. Accounted' /\ Begun' /\ WaitsForAGap' /\ OriginIsEarliest'
      BY <1>1, <2>1 DEF Accounted, Begun, WaitsForAGap, OriginIsEarliest, IsLowest
  <2> QED
      BY <2>2, <2>3 DEF BufferInv, BufferConsistent
<1>7. CASE TickCommit
  <2>1. /\ next_seq # None /\ ~ committed /\ committed' /\ lost_estimate' = lost_estimate
      BY <1>7 DEF TickCommit
  <2>2. PICK n \in SeqNumbers : IsLowest(n, seq_heap') /\ Drain(n, buffer)
      BY <1>7 DEF TickCommit
  <2>3. IsLowest(n, buffer)
      BY <1>3, <2>2, LowestOfSwept
  <2>4. delivered = << >> /\ lost_estimate = 0
      BY <1>1, <2>1 DEF Begun, StreamInv
  <2>5. /\ next_seq' \in 0 .. SeqMax + 1 /\ n <= next_seq'
        /\ Len(delivered') = Len(delivered) + (next_seq' - n)
        /\ delivered' # << >> /\ delivered'[1] = n /\ buffer' \in SUBSET buffer
    <3>1. n \in 0 .. SeqMax + 1 /\ n \in buffer
        BY <2>3 DEF SeqNumbers, IsLowest
    <3> QED
        BY <1>3, <2>2, <2>4, <3>1, DrainCounts
  <2>6. Accounted'
    <3>1. Len(delivered) = 0
        BY <2>4
    <3> QED
        BY <2>1, <2>4, <2>5, <3>1 DEF Accounted, SeqNumbers
  <2>7. Begun' /\ WaitsForAGap' /\ OriginIsEarliest'
      BY <2>1, <2>5 DEF Begun, StreamInv, WaitsForAGap, OriginIsEarliest, None
  <2> QED
      BY <1>5, <2>5, <2>6, <2>7 DEF BufferInv, BufferConsistent
<1>8. CASE TickAbandon
  <2>1. PICK n \in 0 .. SeqMax + 1 :
            /\ SkipsTo(n, next_seq, seq_heap')
            /\ lost_estimate' = lost_estimate + AtLeastZero(n - next_seq)
            /\ Drain(n, buffer)
      BY <1>8 DEF TickAbandon
  <2>2. next_seq # None /\ committed /\ committed' /\ next_seq \in 0 .. SeqMax + 1
      BY <1>1, <1>8 DEF TickAbandon, TypeOK
  <2>3. n = next_seq \/ IsLowest(n, buffer)
      BY <1>3, <2>1, LowestOfSwept DEF SkipsTo
  <2>4. next_seq <= n
      BY <1>1, <1>3, <2>2, <2>3 DEF StreamInv, IsLowest, SeqNumbers
  <2>5. delivered # << >> /\ delivered \in Seq(Nat)
      BY <1>1, <1>3, <2>2 DEF Begun, SeqNumbers
  <2>6. /\ next_seq' \in 0 .. SeqMax + 1 /\ n <= next_seq'
        /\ Len(delivered') = Len(delivered) + (next_seq' - n)
        /\ delivered' # << >> /\ delivered'[1] = delivered[1] /\ buffer' \in SUBSET buffer
      BY <1>3, <2>1, <2>5, DrainCounts
  <2>7. Accounted'
    <3>1. Len(delivered) + lost_estimate = next_seq - delivered[1] /\ delivered[1] \in Nat /\ Len(delivered) \in Nat
        BY <1>1, <2>5 DEF Accounted
    <3>2. lost_estimate' = lost_estimate + (n - next_seq)
        BY <1>3, <2>1, <2>2, <2>4 DEF AtLeastZero
    <3>3. Len(delivered') + lost_estimate' = next_seq' - delivered'[1]
      <4>1. PICK d \in Nat, f \in Nat : d = Len(delivered) /\ f = delivered[1]
          BY <3>1
      <4>2. Len(delivered') = d + (next_seq' - n) /\ delivered'[1] = f /\ d + lost_estimate = next_seq - f
          BY <2>6, <3>1, <4>1
      <4>3. n \in Int /\ next_seq \in Int /\ next_seq' \in Int /\ lost_estimate \in Int
          BY <1>1, <1>3, <2>6 DEF TypeOK, SeqNumbers
      <4>4. d + (next_seq' - n) + (lost_estimate + (n - next_seq)) = next_seq' - f
          BY <4>2, <4>3
      <4> QED
          BY <3>2, <4>2, <4>4
    <3> QED
        BY <3>3 DEF Accounted
  <2>8. Begun' /\ WaitsForAGap' /\ OriginIsEarliest'
      BY <2>2, <2>6 DEF Begun, StreamInv, WaitsForAGap, OriginIsEarliest, None
  <2> QED
      BY <1>5, <2>6, <2>7, <2>8 DEF BufferInv, BufferConsistent
<1> QED
    BY <1>6, <1>7, <1>8 DEF Release

\* Every push, pass, reset and tick of the clock keeps it.
LEMMA BufferStepInv == BufferInv /\ [Next]_vars => BufferInv'
<1> SUFFICES ASSUME BufferInv, [Next]_vars PROVE BufferInv'
    OBVIOUS
<1>1. TypeOK /\ StreamInv /\ Begun /\ Accounted /\ WaitsForAGap /\ IndexesCoverBuffer /\ BufferBounded /\ OriginIsEarliest
    BY DEF BufferInv, BufferConsistent
<1>2. TypeOK' /\ StreamInv'
    BY <1>1, StreamInvStep
<1>3. ASSUME UNCHANGED <<next_seq, committed, origin_grace, buffer, arrivals, seq_heap, lost_estimate, delivered>>
      PROVE  BufferInv'
    BY <1>1, <1>2, <1>3 DEF BufferInv, BufferConsistent, Begun, Accounted, WaitsForAGap, IndexesCoverBuffer,
       BufferBounded, OriginIsEarliest, IsLowest
<1>4. ASSUME NEW seq \in SeqNumbers, Push(seq) PROVE BufferInv'
  <2>1. CASE DropDuplicate(seq) \/ DropTooLate(seq)
      BY <1>3, <2>1 DEF DropDuplicate, DropTooLate, vars
  <2>2. CASE HoldForOrigin(seq)
    <3>1. /\ ~ committed /\ ~ committed' /\ GraceAge < origin_grace /\ next_seq' = Origin(seq)
          /\ buffer' = buffer \cup {seq} /\ arrivals' = Arrived(seq) /\ seq_heap' = seq_heap \cup {seq}
          /\ UNCHANGED <<origin_grace, lost_estimate, delivered>>
        BY <2>2 DEF HoldForOrigin
    <3>2. delivered = << >> /\ lost_estimate = 0
        BY <1>1, <3>1 DEF Begun, StreamInv
    <3>3. origin_grace # 0
        BY <1>1, <3>1 DEF TypeOK, GraceAge
    <3>4. next_seq' \in SeqNumbers /\ IsLowest(next_seq', buffer')
      <4>1. CASE next_seq = None
          BY <1>1, <3>1, <4>1 DEF Begun, Origin, IsLowest, SeqNumbers
      <4>2. CASE next_seq # None
        <5>1. IsLowest(next_seq, buffer) /\ next_seq \in SeqNumbers /\ buffer \in SUBSET SeqNumbers
            BY <1>1, <3>1, <4>2 DEF OriginIsEarliest, IsLowest, TypeOK
        <5> QED
            BY <3>1, <4>2, <5>1 DEF Origin, IsLowest, SeqNumbers
      <4> QED
          BY <4>1, <4>2
    <3>5. IndexesCoverBuffer'
      <4>1. arrivals \in Seq(Entries) /\ Queued(arrivals) /\ Covers(arrivals, buffer)
          BY <1>1 DEF TypeOK, IndexesCoverBuffer, Queued, Covers
      <4>2. Queued(arrivals') /\ Covers(arrivals', buffer')
          BY <3>1, <4>1, ArrivedQueue DEF Arrived
      <4> QED
          BY <1>2, <4>2 DEF StreamInv, IndexesCoverBuffer, Queued, Covers
    <3>6. Begun' /\ Accounted' /\ WaitsForAGap' /\ BufferBounded' /\ OriginIsEarliest'
        BY <3>1, <3>2, <3>3, <3>4 DEF Begun, Accounted, WaitsForAGap, BufferBounded, OriginIsEarliest, SeqNumbers, None
    <3> QED
        BY <1>2, <3>5, <3>6 DEF BufferInv, BufferConsistent
  <2>3. CASE Accept(seq)
      BY <1>2, <2>3, AcceptKeepsBuffer
  <2> QED
      BY <1>4, <2>1, <2>2, <2>3 DEF Push
<1>5. CASE Tick
  <2>1. Release /\ origin_grace' = origin_grace
      BY <1>5 DEF Tick, Release, TickIdle, TickCommit, TickAbandon
  <2> QED
      BY <1>2, <2>1, TickKeepsBuffer
<1>6. CASE ResetStream
  <2>1. /\ next_seq' = None /\ ~ committed' /\ buffer' = {} /\ arrivals' = << >> /\ lost_estimate' = 0
        /\ delivered' = << >> /\ seq_heap' = {}
      BY <1>6 DEF ResetStream
  <2>2. Cardinality(buffer') <= MaxBuffered
      BY <2>1, FS_EmptySet
  <2>3. DOMAIN arrivals' = {}
      BY <2>1
  <2>4. IndexesCoverBuffer'
      BY <2>1, <2>3 DEF IndexesCoverBuffer
  <2> QED
      BY <1>2, <2>1, <2>2, <2>4
    DEF BufferInv, Begun, BufferConsistent, Accounted, WaitsForAGap, BufferBounded, OriginIsEarliest
<1>7. CASE ClockStep
  <2>1. /\ arrivals' = [i \in DOMAIN arrivals |-> [arrivals[i] EXCEPT !.age = Older(@)]]
        /\ UNCHANGED <<next_seq, committed, origin_grace, buffer, seq_heap, lost_estimate, delivered>>
      BY <1>7 DEF ClockStep
  <2>2. arrivals \in Seq(Entries) /\ Queued(arrivals) /\ Covers(arrivals, buffer)
      BY <1>1 DEF TypeOK, IndexesCoverBuffer, Queued, Covers
  <2>3. Queued(arrivals') /\ Covers(arrivals', buffer')
      BY <2>1, <2>2, OlderQueue
  <2>4. IndexesCoverBuffer'
      BY <1>2, <2>3 DEF StreamInv, IndexesCoverBuffer, Queued, Covers
  <2> QED
      BY <1>1, <1>2, <2>1, <2>4 DEF BufferInv, BufferConsistent, Begun, Accounted, WaitsForAGap, BufferBounded,
         OriginIsEarliest, IsLowest
<1>8. ASSUME NEW d \in Deadlines, SetReorderDeadline(d) PROVE BufferInv'
    BY <1>3, <1>8 DEF SetReorderDeadline
<1>9. CASE UNCHANGED vars
    BY <1>3, <1>9 DEF vars
<1> QED
    BY <1>4, <1>5, <1>6, <1>7, <1>8, <1>9 DEF Next

\* What NoEarlyAbandon says of a step.
Patient ==
    committed /\ lost_estimate' > lost_estimate =>
        \/ \E i \in DOMAIN arrivals : arrivals[i].seq \in buffer /\ arrivals[i].age >= reorder_deadline
        \/ Cardinality(buffer) >= MaxBuffered

\* Only tick with a packet that waited, and a push into a full buffer, charge a loss.
LEMMA AbandonsLate == BufferInv /\ [Next]_vars => Patient
<1> SUFFICES ASSUME BufferInv, [Next]_vars, committed, lost_estimate' > lost_estimate
             PROVE  \/ \E i \in DOMAIN arrivals : arrivals[i].seq \in buffer /\ arrivals[i].age >= reorder_deadline
                    \/ Cardinality(buffer) >= MaxBuffered
    BY DEF Patient
<1>1. TypeOK /\ StreamInv /\ IndexesCoverBuffer /\ lost_estimate \in Nat
    BY DEF BufferInv, BufferConsistent, TypeOK
<1>2. \/ \E seq \in SeqNumbers : Accept(seq)
      \/ TickAbandon
  <2>1. lost_estimate' # lost_estimate /\ lost_estimate' # 0
      BY <1>1
  <2> QED
      BY <2>1 DEF Next, vars, Push, DropDuplicate, DropTooLate, HoldForOrigin, Tick, Release, TickIdle, TickCommit,
         ResetStream, SetReorderDeadline, ClockStep
<1>3. ASSUME NEW seq \in SeqNumbers, Accept(seq) PROVE Cardinality(buffer) >= MaxBuffered
  <2> DEFINE buf == buffer \cup {seq}
  <2>1. Overflows(buf)
    <3> SUFFICES ASSUME ~ Overflows(buf) PROVE FALSE
        OBVIOUS
    <3>1. PICK from, n \in SeqNumbers : n = from /\ lost_estimate' = lost_estimate + AtLeastZero(n - from)
        BY <1>3 DEF Accept
    <3> QED
        BY <1>1, <3>1 DEF AtLeastZero, SeqNumbers
  <2>2. Cardinality(buf) > MaxBuffered
      BY <2>1 DEF Overflows
  <2>3. buffer \in SUBSET SeqNumbers /\ buf \in SUBSET SeqNumbers
      BY <1>1 DEF TypeOK
  <2>4. Cardinality(buffer) \in Nat /\ Cardinality(buf) <= Cardinality(buffer) + 1 /\ Cardinality(buf) \in Nat
    <3>1. Cardinality(buffer) \in Nat /\ Cardinality(buf) <= Cardinality(buffer) + 1
        BY <2>3, CountHeld
    <3> HIDE DEF buf
    <3>2. Cardinality(buf) \in Nat
        BY <2>3, CountHeld
    <3> QED
        BY <3>1, <3>2
  <2> QED
      BY <2>2, <2>4
<1>4. ASSUME TickAbandon
      PROVE  \E i \in DOMAIN arrivals : arrivals[i].seq \in buffer /\ arrivals[i].age >= reorder_deadline
  <2>1. SweepsTo(arrivals', arrivals, buffer) /\ arrivals' # << >> /\ arrivals'[1].age >= reorder_deadline
      BY <1>4 DEF TickAbandon, Sweep, OldestIsDue
  <2>2. arrivals \in Seq(Entries) /\ Queued(arrivals)
      BY <1>1 DEF TypeOK, IndexesCoverBuffer, Queued
  <2>3. \E i \in DOMAIN arrivals : arrivals[i] = arrivals'[1] /\ arrivals[i].seq \in buffer
      BY <2>1, <2>2, SweptQueue
  <2> QED
      BY <2>1, <2>3
<1> QED
    BY <1>2, <1>3, <1>4

\* The buffer and what is kept about it agree for every window, limit, grace and set of
\* deadlines: each number is delivered, charged as lost or still owed exactly once, what
\* is held waits for a gap and stands in both indexes, and an overflow frees a place
\* (push, tick, _sweep, _force_skip).
THEOREM BufferAlwaysConsistent == Spec => []BufferConsistent
<1>1. BufferInv => BufferConsistent
    BY DEF BufferInv
<1> QED
    BY <1>1, BufferInitInv, BufferStepInv, PTL DEF Spec

\* No gap is given up before a held packet waited out the deadline, unless the buffer
\* is full: a stale entry of an index never makes tick skip early.
THEOREM NeverEarlyAbandon == Spec => NoEarlyAbandon
<1>1. BufferInv /\ [Next]_vars =>
        [committed /\ lost_estimate' > lost_estimate =>
            \/ \E i \in DOMAIN arrivals :
                    /\ arrivals[i].seq \in buffer
                    /\ arrivals[i].age >= reorder_deadline
            \/ Cardinality(buffer) >= MaxBuffered]_vars
    BY AbandonsLate DEF Patient
<1> QED
    BY <1>1, BufferInitInv, BufferStepInv, PTL DEF Spec, NoEarlyAbandon

-----------------------------------------------------------------------------
\* Every ceiling is below the oldest age told apart.
LEMMA OldestIsBeyond == OldestAge \in Nat /\ \A c \in Ceilings : c \in Nat /\ c < OldestAge
<1>1. Max(Ceilings) \in Ceilings /\ \A c \in Ceilings : c <= Max(Ceilings)
  <2>1. Ceilings \in SUBSET Int /\ IsFiniteSet(Ceilings) /\ Ceilings # {}
      BY CeilingsAssumption
  <2> QED
      BY <2>1, MaxExists
<1>2. PICK m \in Nat : m = Max(Ceilings)
    BY <1>1, CeilingsAssumption
<1>3. \A c \in Ceilings : c \in Nat /\ c <= m
    BY <1>1, <1>2, CeilingsAssumption
<1>4. OldestAge = m + 1
    BY <1>2 DEF OldestAge
<1> QED
    BY <1>3, <1>4

\* The numbers of a finite set in rising order, each once.
LEMMA AscendingSorts ==
    ASSUME NEW S \in SUBSET Nat, IsFiniteSet(S)
    PROVE  /\ Ascending(S) \in Seq(S) /\ Len(Ascending(S)) = Cardinality(S)
           /\ DOMAIN Ascending(S) = 1 .. Cardinality(S)
           /\ \A s \in S : \E i \in 1 .. Cardinality(S) : Ascending(S)[i] = s
           /\ \A i, j \in 1 .. Cardinality(S) : i < j => Ascending(S)[i] < Ascending(S)[j]
<1> DEFINE o == {p \in Nat \X Nat : p[1] < p[2]}
           n == Cardinality(S)
           rank(s) == Cardinality(Below(s, S))
<1>1. \A x, y \in S : <<x, y>> \in o <=> x < y
    OBVIOUS
<1>2. n \in Nat
    BY FS_CardinalityType
<1> HIDE DEF o
<1>3. Orders(o, S)
    BY <1>1 DEF Orders
<1>4. \A s \in S : RankOf(o, S, s) = rank(s)
  <2> SUFFICES ASSUME NEW s \in S PROVE {y \in S : <<y, s>> \in o} = {y \in S : y < s}
      BY DEF RankOf, Below
  <2> QED
      BY <1>1
<1>5. /\ \A s \in S : rank(s) \in 0 .. n - 1
      /\ \A x, y \in S : x < y => rank(x) < rank(y)
  <2>1. /\ \A s \in S : RankOf(o, S, s) \in 0 .. n - 1
        /\ \A x, y \in S : <<x, y>> \in o => RankOf(o, S, x) < RankOf(o, S, y)
      BY <1>3, RanksRise
  <2> HIDE DEF rank
  <2> QED
      BY <1>1, <1>4, <2>1
<1>6. ASSUME NEW i \in 1 .. n PROVE \E s \in S : rank(s) = i - 1
  <2> DEFINE A(k) == {x \in S : RankOf(o, S, x) < k}
  <2>1. i \in 0 .. n /\ i - 1 \in 0 .. n
      BY <1>2
  <2>2. Cardinality(A(i)) = i /\ Cardinality(A(i - 1)) = i - 1
      BY <1>3, <2>1, FirstRanks
  <2>3. A(i) # A(i - 1)
      BY <2>1, <2>2
  <2>4. PICK s \in S : (RankOf(o, S, s) < i) # (RankOf(o, S, s) < i - 1)
      BY <2>3
  <2>5. rank(s) = RankOf(o, S, s) /\ rank(s) \in Int
      BY <1>4, <1>5
  <2> QED
      BY <1>2, <2>4, <2>5
<1>7. \A i \in 1 .. n : Ascending(S)[i] \in S /\ rank(Ascending(S)[i]) = i - 1
    BY <1>6 DEF Ascending
<1>8. DOMAIN Ascending(S) = 1 .. n /\ Ascending(S) = [i \in 1 .. n |-> Ascending(S)[i]]
    BY DEF Ascending
<1>9. Ascending(S) \in Seq(S) /\ Len(Ascending(S)) = n
  <2> DEFINE q == Ascending(S)
  <2>1. q \in [1 .. n -> S]
      BY <1>7, <1>8
  <2> HIDE DEF q
  <2>2. q \in Seq(S)
      BY <1>2, <2>1, SeqDef
  <2> QED
      BY <1>2, <2>1, <2>2, LenProperties DEF q
<1> HIDE DEF n
<1>10. \A i, j \in 1 .. n : i < j => Ascending(S)[i] < Ascending(S)[j]
  <2> SUFFICES ASSUME NEW i \in 1 .. n, NEW j \in 1 .. n, i < j PROVE Ascending(S)[i] < Ascending(S)[j]
      OBVIOUS
  <2>1. PICK a \in S : a = Ascending(S)[i]
      BY <1>7
  <2>2. PICK b \in S : b = Ascending(S)[j]
      BY <1>7
  <2>3. rank(a) = i - 1 /\ rank(b) = j - 1
      BY <1>7, <2>1, <2>2
  <2> HIDE DEF rank
  <2>4. a # b /\ ~ (b < a)
      BY <1>2, <1>5, <2>3
  <2> QED
      BY <2>1, <2>2, <2>4
<1>11. \A s \in S : \E i \in 1 .. n : Ascending(S)[i] = s
  <2> SUFFICES ASSUME NEW s \in S PROVE \E i \in 1 .. n : Ascending(S)[i] = s
      OBVIOUS
  <2>1. PICK i \in 1 .. n : rank(s) = i - 1
    <3>1. rank(s) \in 0 .. n - 1
        BY <1>5
    <3> HIDE DEF rank
    <3>2. rank(s) + 1 \in 1 .. n /\ rank(s) = (rank(s) + 1) - 1
        BY <1>2, <3>1
    <3> QED
        BY <3>2
  <2>2. PICK a \in S : a = Ascending(S)[i] /\ rank(a) = i - 1
      BY <1>7
  <2>3. rank(a) = rank(s) /\ rank(s) \in Int
      BY <1>2, <2>1, <2>2
  <2> HIDE DEF rank
  <2>4. ~ (a < s) /\ ~ (s < a)
      BY <1>5, <2>3
  <2> QED
      BY <2>2, <2>4
<1> QED
    BY <1>8, <1>9, <1>10, <1>11 DEF n

-----------------------------------------------------------------------------
\* The trackers there are.
Trackers ==
    [pending : UNION {[S -> 0 .. OldestAge] : S \in SUBSET SeqNumbers},
     order : Seq(SeqNumbers),
     asked : SUBSET SeqNumbers,
     forgotten_below : 0 .. SeqMax + 1,
     leg_seq : UNION {[L -> SeqNumbers] : L \in SUBSET Legs},
     leg_watch : UNION {[L -> [seq : SeqNumbers, age : 0 .. OldestAge]] : L \in SUBSET Legs},
     max_delay : Ceilings,
     max_pending : MaxPendings]

\* The queue is in the sender's order, which is the order of waiting times, and holds all
\* that is still to be asked for; nothing beyond n was looked at.
Lined(t) ==
    \A i, j \in DOMAIN t.order : i < j =>
        /\ t.order[i] < t.order[j]
        /\ t.order[i] \in DOMAIN t.pending /\ t.order[j] \in DOMAIN t.pending =>
                t.pending[t.order[i]] >= t.pending[t.order[j]]

Listed(t) ==
    /\ t.asked \subseteq DOMAIN t.pending
    /\ \A s \in DOMAIN t.pending \ t.asked : \E i \in DOMAIN t.order : t.order[i] = s

Upto(t, n) ==
    /\ \A s \in DOMAIN t.pending : s <= n
    /\ \A i \in DOMAIN t.order : t.order[i] <= n

TrackerInv(t, n) ==
    /\ t \in Trackers
    /\ DOMAIN t.leg_watch \subseteq DOMAIN t.leg_seq
    /\ Cardinality(DOMAIN t.pending) <= t.max_pending
    /\ Lined(t) /\ Listed(t) /\ Upto(t, n)

\* The fields of a tracker, one by one.
LEMMA TrackerFields ==
    ASSUME NEW t \in Trackers
    PROVE  /\ t.pending \in [DOMAIN t.pending -> 0 .. OldestAge] /\ DOMAIN t.pending \in SUBSET SeqNumbers
           /\ t.order \in Seq(SeqNumbers) /\ t.asked \in SUBSET SeqNumbers
           /\ t.forgotten_below \in 0 .. SeqMax + 1
           /\ t.leg_seq \in [DOMAIN t.leg_seq -> SeqNumbers] /\ DOMAIN t.leg_seq \in SUBSET Legs
           /\ t.leg_watch \in [DOMAIN t.leg_watch -> [seq : SeqNumbers, age : 0 .. OldestAge]]
           /\ DOMAIN t.leg_watch \in SUBSET Legs
           /\ t.max_delay \in Ceilings /\ t.max_pending \in MaxPendings
           /\ DOMAIN t = {"pending", "order", "asked", "forgotten_below", "leg_seq", "leg_watch", "max_delay",
                          "max_pending"}
<1>1. /\ t.pending \in UNION {[S -> 0 .. OldestAge] : S \in SUBSET SeqNumbers}
      /\ t.order \in Seq(SeqNumbers) /\ t.asked \in SUBSET SeqNumbers
      /\ t.forgotten_below \in 0 .. SeqMax + 1
      /\ t.leg_seq \in UNION {[L -> SeqNumbers] : L \in SUBSET Legs}
      /\ t.leg_watch \in UNION {[L -> [seq : SeqNumbers, age : 0 .. OldestAge]] : L \in SUBSET Legs}
      /\ t.max_delay \in Ceilings /\ t.max_pending \in MaxPendings
      /\ DOMAIN t = {"pending", "order", "asked", "forgotten_below", "leg_seq", "leg_watch", "max_delay",
                     "max_pending"}
    BY DEF Trackers
<1>2. PICK S \in SUBSET SeqNumbers : t.pending \in [S -> 0 .. OldestAge]
    BY <1>1
<1>3. PICK L \in SUBSET Legs : t.leg_seq \in [L -> SeqNumbers]
    BY <1>1
<1>4. PICK W \in SUBSET Legs : t.leg_watch \in [W -> [seq : SeqNumbers, age : 0 .. OldestAge]]
    BY <1>1
<1> QED
    BY <1>1, <1>2, <1>3, <1>4

\* A tracker is put together from its fields.
LEMMA TrackerMade ==
    ASSUME NEW P \in SUBSET SeqNumbers, NEW p \in [P -> 0 .. OldestAge], NEW q \in Seq(SeqNumbers),
           NEW a \in SUBSET SeqNumbers, NEW f \in 0 .. SeqMax + 1,
           NEW L \in SUBSET Legs, NEW g \in [L -> SeqNumbers],
           NEW W \in SUBSET Legs, NEW w \in [W -> [seq : SeqNumbers, age : 0 .. OldestAge]],
           NEW d \in Ceilings, NEW m \in MaxPendings
    PROVE  [pending |-> p, order |-> q, asked |-> a, forgotten_below |-> f, leg_seq |-> g, leg_watch |-> w,
            max_delay |-> d, max_pending |-> m] \in Trackers
<1>1. p \in UNION {[S -> 0 .. OldestAge] : S \in SUBSET SeqNumbers}
    OBVIOUS
<1>2. g \in UNION {[K -> SeqNumbers] : K \in SUBSET Legs}
    OBVIOUS
<1>3. w \in UNION {[K -> [seq : SeqNumbers, age : 0 .. OldestAge]] : K \in SUBSET Legs}
    OBVIOUS
<1> QED
    BY <1>1, <1>2, <1>3 DEF Trackers

\* Whatever is missing is missing from a finite table.
LEMMA TableIsFinite ==
    ASSUME NEW S \in SUBSET SeqNumbers
    PROVE  /\ IsFiniteSet(S) /\ Cardinality(S) \in Nat
           /\ Cardinality(SeqNumbers) = SeqMax + 1
           /\ Cardinality(S) <= SeqMax + 1
           /\ \A T \in SUBSET S : Cardinality(T) \in Nat /\ Cardinality(T) <= Cardinality(S)
<1>1. IsFiniteSet(SeqNumbers) /\ Cardinality(SeqNumbers) = SeqMax + 1
  <2>1. IsFiniteSet(0 .. SeqMax) /\ Cardinality(0 .. SeqMax) = IF 0 > SeqMax THEN 0 ELSE SeqMax - 0 + 1
      BY FS_Interval
  <2> QED
      BY <2>1 DEF SeqNumbers
<1>2. \A T \in SUBSET SeqNumbers : IsFiniteSet(T) /\ Cardinality(T) \in Nat /\ Cardinality(T) <= SeqMax + 1
    BY <1>1, FS_Subset, FS_CardinalityType
<1>3. \A T \in SUBSET S : Cardinality(T) \in Nat /\ Cardinality(T) <= Cardinality(S)
    BY <1>2, FS_Subset
<1> QED
    BY <1>1, <1>2, <1>3

\* A tracker that knows of fewer gaps is in order too.
LEMMA FewerGaps ==
    ASSUME NEW n \in Int, NEW t, TrackerInv(t, n), NEW u \in Trackers, NEW gone,
           DOMAIN u.pending = DOMAIN t.pending \ gone,
           \A s \in DOMAIN u.pending : u.pending[s] = t.pending[s],
           u.asked = t.asked \ gone, u.order = t.order, u.max_pending = t.max_pending,
           DOMAIN u.leg_watch \subseteq DOMAIN u.leg_seq
    PROVE  TrackerInv(u, n)
<1>1. t \in Trackers /\ Lined(t) /\ Listed(t) /\ Upto(t, n) /\ Cardinality(DOMAIN t.pending) <= t.max_pending
    BY DEF TrackerInv
<1>2. DOMAIN t.pending \in SUBSET SeqNumbers /\ t.max_pending \in Nat
    BY <1>1, TrackerFields, MaxPendingsAssumption
<1>3. Cardinality(DOMAIN u.pending) <= u.max_pending
  <2>1. /\ Cardinality(DOMAIN u.pending) \in Nat /\ Cardinality(DOMAIN t.pending) \in Nat
        /\ Cardinality(DOMAIN u.pending) <= Cardinality(DOMAIN t.pending)
      BY <1>2, TableIsFinite
  <2> QED
      BY <1>1, <1>2, <2>1
<1>4. Lined(u)
    BY <1>1 DEF Lined
<1>5. Listed(u)
    BY <1>1 DEF Listed
<1>6. Upto(u, n)
    BY <1>1 DEF Upto
<1> QED
    BY <1>3, <1>4, <1>5, <1>6 DEF TrackerInv

\* What resolve does to a tracker in order, whichever leg brought the frame.
LEMMA ResolveKeeps ==
    ASSUME NEW n \in Int, NEW t, TrackerInv(t, n), NEW seq \in SeqNumbers, NEW leg \in Legs \cup {NoLeg}
    PROVE  /\ TrackerInv(Resolve(t, seq, leg), n)
           /\ DOMAIN Resolve(t, seq, leg).pending = DOMAIN t.pending \ {seq}
           /\ Resolve(t, seq, leg).max_pending = t.max_pending
<1> DEFINE u == Resolve(t, seq, leg)
           p == Without(t.pending, {seq})
           g == Marked(t.leg_seq, leg, seq)
<1>1. t \in Trackers /\ DOMAIN t.leg_watch \subseteq DOMAIN t.leg_seq
    BY DEF TrackerInv
<1>2. /\ t.pending \in [DOMAIN t.pending -> 0 .. OldestAge] /\ DOMAIN t.pending \in SUBSET SeqNumbers
      /\ t.asked \in SUBSET SeqNumbers
      /\ t.leg_seq \in [DOMAIN t.leg_seq -> SeqNumbers] /\ DOMAIN t.leg_seq \in SUBSET Legs
    BY <1>1, TrackerFields
<1>3. /\ DOMAIN p = DOMAIN t.pending \ {seq} /\ \A s \in DOMAIN p : p[s] = t.pending[s]
      /\ p \in UNION {[S -> 0 .. OldestAge] : S \in SUBSET SeqNumbers}
  <2>1. DOMAIN p = DOMAIN t.pending \ {seq} /\ \A s \in DOMAIN p : p[s] = t.pending[s]
      BY DEF Without, Restrict
  <2>2. p \in [DOMAIN t.pending \ {seq} -> 0 .. OldestAge]
    <3>1. p = [s \in DOMAIN t.pending \ {seq} |-> t.pending[s]]
        BY DEF Without, Restrict
    <3> QED
        BY <1>2, <3>1
  <2> HIDE DEF p
  <2> QED
      BY <1>2, <2>1, <2>2
<1>4. /\ DOMAIN t.leg_seq \subseteq DOMAIN g
      /\ g \in UNION {[L -> SeqNumbers] : L \in SUBSET Legs}
  <2>1. CASE leg = NoLeg \/ (leg \in DOMAIN t.leg_seq /\ seq <= t.leg_seq[leg])
      BY <1>2, <2>1 DEF Marked
  <2>2. CASE ~ (leg = NoLeg \/ (leg \in DOMAIN t.leg_seq /\ seq <= t.leg_seq[leg]))
    <3> DEFINE L == DOMAIN t.leg_seq \cup {leg}
    <3>1. g = [l \in L |-> IF l = leg THEN seq ELSE t.leg_seq[l]]
        BY <2>2 DEF Marked
    <3>2. L \in SUBSET Legs
        BY <1>2, <2>2
    <3>3. g \in [L -> SeqNumbers]
        BY <1>2, <3>1
    <3> HIDE DEF g
    <3> QED
        BY <3>2, <3>3
  <2> QED
      BY <2>1, <2>2
<1>5. u = [t EXCEPT !.pending = p, !.asked = @ \ {seq}, !.leg_seq = g]
    BY DEF Resolve
<1> HIDE DEF p, g, u
<1>6. /\ u \in Trackers /\ u.pending = p /\ u.asked = t.asked \ {seq} /\ u.order = t.order
      /\ u.leg_seq = g /\ u.leg_watch = t.leg_watch /\ u.max_pending = t.max_pending
    BY <1>1, <1>2, <1>3, <1>4, <1>5 DEF Trackers
<1>7. TrackerInv(u, n)
    BY <1>1, <1>3, <1>4, <1>6, FewerGaps
<1> QED
    BY <1>3, <1>6, <1>7 DEF u

\* What forget_before does.
LEMMA ForgetKeeps ==
    ASSUME NEW n \in Int, NEW t, TrackerInv(t, n), NEW seq \in 0 .. SeqMax + 1
    PROVE  /\ TrackerInv(ForgetBefore(t, seq), n)
           /\ DOMAIN ForgetBefore(t, seq).pending \subseteq DOMAIN t.pending
           /\ \A s \in DOMAIN t.pending : s >= seq => s \in DOMAIN ForgetBefore(t, seq).pending
           /\ ForgetBefore(t, seq).max_pending = t.max_pending
<1> DEFINE u == ForgetBefore(t, seq)
           passed == {s \in DOMAIN t.pending : s < seq}
           p == Without(t.pending, passed)
<1>1. t \in Trackers /\ DOMAIN t.leg_watch \subseteq DOMAIN t.leg_seq
    BY DEF TrackerInv
<1>2. CASE seq <= t.forgotten_below
    BY <1>2 DEF ForgetBefore
<1>3. CASE ~ (seq <= t.forgotten_below)
  <2>1. /\ t.pending \in [DOMAIN t.pending -> 0 .. OldestAge] /\ DOMAIN t.pending \in SUBSET SeqNumbers
        /\ t.asked \in SUBSET SeqNumbers
      BY <1>1, TrackerFields
  <2>2. DOMAIN p = DOMAIN t.pending \ passed /\ \A s \in DOMAIN p : p[s] = t.pending[s]
      BY DEF Without, Restrict
  <2>3. p \in UNION {[S -> 0 .. OldestAge] : S \in SUBSET SeqNumbers}
    <3>1. p = [s \in DOMAIN t.pending \ passed |-> t.pending[s]]
        BY DEF Without, Restrict
    <3>2. p \in [DOMAIN t.pending \ passed -> 0 .. OldestAge]
        BY <2>1, <3>1
    <3> HIDE DEF p, passed
    <3> QED
        BY <2>1, <3>2
  <2>4. u = [t EXCEPT !.pending = p, !.asked = @ \ passed, !.forgotten_below = seq]
      BY <1>3 DEF ForgetBefore
  <2>5. \A s \in DOMAIN t.pending : s >= seq => s \notin passed
      BY <2>1 DEF SeqNumbers
  <2> HIDE DEF p, u, passed
  <2>6. /\ u \in Trackers /\ u.pending = p /\ u.asked = t.asked \ passed /\ u.order = t.order
        /\ u.leg_seq = t.leg_seq /\ u.leg_watch = t.leg_watch /\ u.max_pending = t.max_pending
      BY <1>1, <2>1, <2>3, <2>4 DEF Trackers
  <2>7. TrackerInv(u, n)
      BY <1>1, <2>2, <2>6, FewerGaps
  <2>8. DOMAIN u.pending = DOMAIN t.pending \ passed
      BY <2>2, <2>6
  <2> QED
      BY <2>5, <2>6, <2>7, <2>8 DEF u
<1> QED
    BY <1>2, <1>3

\* The numbers a table that holds P takes.
Taken(P, S, m) == {s \in S : Cardinality(Below(s, S)) < m - Cardinality(P)}

\* Of a set of missing numbers the lowest are taken while there is room; none is left out
\* when the table can hold every number.
LEMMA RoomTaken ==
    ASSUME NEW P \in SUBSET SeqNumbers, NEW m \in Nat, Cardinality(P) <= m,
           NEW S \in SUBSET SeqNumbers, S \cap P = {},
           NEW taken, taken = Taken(P, S, m)
    PROVE  /\ taken \in SUBSET S
           /\ Cardinality(P \cup taken) <= m
           /\ m > SeqMax => taken = S
<1> DEFINE o == {p \in Nat \X Nat : p[1] < p[2]}
           A(j) == {s \in S : RankOf(o, S, s) < j}
           room == m - Cardinality(P)
<1>1. /\ IsFiniteSet(S) /\ Cardinality(S) \in Nat /\ IsFiniteSet(P) /\ Cardinality(P) \in Nat
      /\ taken \in SUBSET S
    BY TableIsFinite DEF Taken
<1>2. \A x, y \in S : <<x, y>> \in o <=> x < y
    BY DEF SeqNumbers
<1> HIDE DEF o
<1>3. Orders(o, S)
    BY <1>2 DEF Orders, SeqNumbers
<1>4. \A s \in S : RankOf(o, S, s) = Cardinality(Below(s, S))
  <2> SUFFICES ASSUME NEW s \in S PROVE {y \in S : <<y, s>> \in o} = {y \in S : y < s}
      BY DEF RankOf, Below
  <2> QED
      BY <1>2
<1>5. \A s \in S : RankOf(o, S, s) \in 0 .. Cardinality(S) - 1
    BY <1>1, <1>3, RanksRise
<1>6. taken = A(room)
    BY <1>4 DEF Taken
<1>7. room \in Nat
    BY <1>1
<1> HIDE DEF room
<1>8. Cardinality(taken) \in Nat /\ Cardinality(taken) <= room
  <2>1. CASE room <= Cardinality(S)
    <3>1. room \in 0 .. Cardinality(S)
        BY <1>1, <1>7, <2>1
    <3>2. Cardinality(A(room)) = room
        BY <1>1, <1>3, <3>1, FirstRanks
    <3> HIDE DEF A
    <3> QED
        BY <1>6, <1>7, <3>2
  <2>2. CASE room > Cardinality(S)
    <3>1. Cardinality(taken) \in Nat /\ Cardinality(taken) <= Cardinality(S)
        BY <1>1, TableIsFinite
    <3> QED
        BY <1>1, <1>7, <2>2, <3>1
  <2> QED
      BY <1>1, <1>7, <2>1, <2>2
<1>9. Cardinality(P \cup taken) <= m
  <2>1. IsFiniteSet(taken) /\ P \cap taken = {}
      BY <1>1, TableIsFinite
  <2>2. Cardinality(P \cup taken) = Cardinality(P) + Cardinality(taken) - Cardinality(P \cap taken)
      BY <1>1, <2>1, FS_Union
  <2>3. Cardinality(P \cap taken) = 0
      BY <2>1, FS_EmptySet
  <2> QED
      BY <1>1, <1>8, <2>2, <2>3 DEF room
<1>10. ASSUME m > SeqMax, NEW s \in S PROVE s \in taken
  <2> DEFINE B == Below(s, S)
             U == P \cup B
  <2>1. B \in SUBSET S /\ s \notin B /\ B \in SUBSET SeqNumbers
    <3>1. s \in Int /\ ~ (s < s)
        BY DEF SeqNumbers
    <3> QED
        BY <3>1 DEF Below
  <2> HIDE DEF B
  <2>2. IsFiniteSet(B) /\ Cardinality(B) \in Nat /\ P \cap B = {}
      BY <2>1, TableIsFinite
  <2>3. Cardinality(U) = Cardinality(P) + Cardinality(B) - Cardinality(P \cap B)
      BY <1>1, <2>2, FS_Union
  <2>4. Cardinality(P \cap B) = 0
      BY <2>2, FS_EmptySet
  <2>5. U \in SUBSET SeqNumbers /\ s \notin U
      BY <2>1
  <2> HIDE DEF U
  <2>6. IsFiniteSet(U) /\ Cardinality(U) \in Nat /\ U \cup {s} \in SUBSET SeqNumbers
      BY <2>5, TableIsFinite
  <2>7. Cardinality(U \cup {s}) = Cardinality(U) + 1
      BY <2>5, <2>6, FS_AddElement
  <2>8. Cardinality(U \cup {s}) <= SeqMax + 1
      BY <2>6, TableIsFinite
  <2>9. Cardinality(B) < room
      BY <1>1, <1>10, <2>2, <2>3, <2>4, <2>6, <2>7, <2>8 DEF room
  <2> QED
      BY <2>9 DEF B, room, Taken
<1> QED
    BY <1>1, <1>9, <1>10

\* What note_gap does with numbers past all that was looked at.
LEMMA NoteKeeps ==
    ASSUME NEW n \in Int, NEW t, TrackerInv(t, n), NEW h \in Int, n <= h,
           NEW missing \in SUBSET SeqNumbers, \A s \in missing : n < s /\ s <= h
    PROVE  /\ TrackerInv(NoteGap(t, missing), h)
           /\ DOMAIN NoteGap(t, missing).pending \subseteq DOMAIN t.pending \cup missing
           /\ DOMAIN t.pending \subseteq DOMAIN NoteGap(t, missing).pending
           /\ t.max_pending > SeqMax => missing \subseteq DOMAIN NoteGap(t, missing).pending
           /\ NoteGap(t, missing).max_pending = t.max_pending
<1> DEFINE u == NoteGap(t, missing)
           P == DOMAIN t.pending
           new == missing \ P
           taken == Taken(P, new, t.max_pending)
           p == [s \in P \cup taken |-> IF s \in taken THEN 0 ELSE t.pending[s]]
           k == Cardinality(taken)
           a == Ascending(taken)
           q == t.order \o a
<1>1. t \in Trackers /\ Lined(t) /\ Listed(t) /\ Upto(t, n) /\ Cardinality(P) <= t.max_pending
      /\ DOMAIN t.leg_watch \subseteq DOMAIN t.leg_seq
    BY DEF TrackerInv
<1>2. /\ t.pending \in [P -> 0 .. OldestAge] /\ P \in SUBSET SeqNumbers
      /\ t.order \in Seq(SeqNumbers) /\ t.asked \in SUBSET SeqNumbers /\ t.max_pending \in Nat
    BY <1>1, TrackerFields, MaxPendingsAssumption
<1>3. new \in SUBSET SeqNumbers /\ new \cap P = {}
    OBVIOUS
<1>4. /\ taken \in SUBSET new /\ Cardinality(P \cup taken) <= t.max_pending
      /\ t.max_pending > SeqMax => taken = new
  <2>2. PICK m \in Nat : m = t.max_pending
      BY <1>2
  <2>1. taken = Taken(P, new, m) /\ Cardinality(P) <= m /\ P \in SUBSET SeqNumbers
      BY <1>1, <1>2, <2>2
  <2> HIDE DEF taken, new, P
  <2>3. /\ taken \in SUBSET new /\ Cardinality(P \cup taken) <= m
        /\ m > SeqMax => taken = new
      BY <1>3, <2>1, RoomTaken
  <2> QED
      BY <2>2, <2>3
<1>5. u = [t EXCEPT !.pending = p, !.order = q]
    BY DEF NoteGap, Taken
<1>6. taken \in SUBSET Nat /\ IsFiniteSet(taken) /\ taken \in SUBSET SeqNumbers /\ taken \cap P = {}
      /\ taken \subseteq missing
  <2>1. taken \in SUBSET SeqNumbers /\ taken \cap P = {} /\ taken \subseteq missing
      BY <1>3, <1>4
  <2> HIDE DEF taken
  <2> QED
      BY <2>1, TableIsFinite DEF SeqNumbers
<1>7. OldestAge \in Nat
    BY OldestIsBeyond
<1> HIDE DEF taken, u
<1>8. /\ a \in Seq(taken) /\ Len(a) = k /\ k \in Nat /\ DOMAIN a = 1 .. k
      /\ \A s \in taken : \E i \in 1 .. k : a[i] = s
      /\ \A i, j \in 1 .. k : i < j => a[i] < a[j]
    BY <1>6, AscendingSorts, FS_CardinalityType
<1>9. p \in [P \cup taken -> 0 .. OldestAge] /\ p \in UNION {[S -> 0 .. OldestAge] : S \in SUBSET SeqNumbers}
  <2>1. p \in [P \cup taken -> 0 .. OldestAge]
      BY <1>2, <1>7
  <2> HIDE DEF p
  <2> QED
      BY <1>2, <1>6, <2>1
<1>10. /\ DOMAIN p = P \cup taken /\ \A s \in P : s \notin taken => p[s] = t.pending[s]
       /\ \A s \in taken : p[s] = 0
       /\ \A s \in P \cup taken : p[s] \in 0 .. OldestAge
    BY <1>9
<1> HIDE DEF p, k, a
<1>11. a \in Seq(SeqNumbers) /\ \A i \in 1 .. k : a[i] \in taken
  <2>1. \A i \in 1 .. k : a[i] \in taken
      BY <1>8, ElementOfSeq
  <2>2. a \in Seq(SeqNumbers)
      BY <1>6, <1>8, SeqMonotonic
  <2> QED
      BY <2>1, <2>2
<1>12. PICK len \in Nat : len = Len(t.order) /\ DOMAIN t.order = 1 .. len
    BY <1>2
<1>13. /\ q \in Seq(SeqNumbers) /\ DOMAIN q = 1 .. len + k
       /\ \A i \in 1 .. len : q[i] = t.order[i]
       /\ \A i \in 1 .. k : q[len + i] = a[i]
  <2>1. /\ q \in Seq(SeqNumbers) /\ Len(q) = len + k
        /\ \A i \in 1 .. len + k : q[i] = IF i <= len THEN t.order[i] ELSE a[i - len]
    <3>1. /\ q \in Seq(SeqNumbers) /\ Len(q) = Len(t.order) + Len(a)
          /\ \A i \in 1 .. Len(t.order) + Len(a) :
                q[i] = IF i <= Len(t.order) THEN t.order[i] ELSE a[i - Len(t.order)]
        BY <1>2, <1>11, ConcatProperties
    <3> HIDE DEF q
    <3> QED
        BY <1>8, <1>12, <3>1
  <2> HIDE DEF q
  <2>2. DOMAIN q = 1 .. len + k
      BY <2>1
  <2>3. ASSUME NEW i \in 1 .. k PROVE q[len + i] = a[i]
    <3>1. len + i \in 1 .. len + k /\ ~ (len + i <= len) /\ len + i - len = i
        BY <1>8
    <3> QED
        BY <2>1, <3>1
  <2>4. ASSUME NEW i \in 1 .. len PROVE q[i] = t.order[i]
    <3>1. i \in 1 .. len + k /\ i <= len
        BY <1>8
    <3> QED
        BY <2>1, <3>1
  <2> QED
      BY <2>1, <2>2, <2>3, <2>4
<1>14. \A i \in 1 .. len + k : \/ i \in 1 .. len /\ q[i] = t.order[i]
                               \/ i - len \in 1 .. k /\ q[i] = a[i - len] /\ q[i] \in taken
  <2> SUFFICES ASSUME NEW i \in 1 .. len + k, i \notin 1 .. len
               PROVE  i - len \in 1 .. k /\ q[i] = a[i - len] /\ q[i] \in taken
      BY <1>13
  <2>1. i - len \in 1 .. k /\ len + (i - len) = i
      BY <1>8
  <2> QED
      BY <1>11, <1>13, <2>1
<1> HIDE DEF q
<1>15. /\ u \in Trackers /\ u.pending = p /\ u.order = q /\ u.asked = t.asked
       /\ u.leg_seq = t.leg_seq /\ u.leg_watch = t.leg_watch /\ u.max_pending = t.max_pending
    BY <1>1, <1>5, <1>9, <1>13 DEF Trackers
<1>16. Upto(u, h)
  <2>1. \A s \in P \cup taken : s <= h
    <3>1. \A s \in P : s \in Int /\ s <= n
        BY <1>1, <1>2 DEF Upto, SeqNumbers
    <3>2. \A s \in taken : s <= h
        BY <1>6
    <3> QED
        BY <3>1, <3>2
  <2>2. \A i \in 1 .. len : t.order[i] \in Int /\ t.order[i] <= n
      BY <1>1, <1>2, <1>12 DEF Upto, SeqNumbers
  <2>3. \A i \in 1 .. len + k : q[i] <= h
      BY <1>14, <2>1, <2>2
  <2> QED
      BY <1>10, <1>13, <1>15, <2>1, <2>3 DEF Upto
<1>17. Listed(u)
  <2>1. u.asked \subseteq DOMAIN u.pending
      BY <1>1, <1>10, <1>15 DEF Listed
  <2>2. ASSUME NEW s \in (P \cup taken) \ t.asked PROVE \E i \in 1 .. len + k : q[i] = s
    <3>1. CASE s \in taken
      <4>1. PICK i \in 1 .. k : a[i] = s
          BY <1>8, <3>1
      <4>2. len + i \in 1 .. len + k
          BY <1>8
      <4> QED
          BY <1>13, <4>1, <4>2
    <3>2. CASE s \in P
      <4>1. PICK i \in 1 .. len : t.order[i] = s
          BY <1>1, <1>12, <3>2 DEF Listed
      <4>2. i \in 1 .. len + k
          BY <1>8
      <4> QED
          BY <1>13, <4>1, <4>2
    <3> QED
        BY <3>1, <3>2
  <2> QED
      BY <1>10, <1>13, <1>15, <2>1, <2>2 DEF Listed
<1>18. Lined(u)
  <2> SUFFICES ASSUME NEW i \in 1 .. len + k, NEW j \in 1 .. len + k, i < j
               PROVE  /\ q[i] < q[j]
                      /\ q[i] \in P \cup taken /\ q[j] \in P \cup taken => p[q[i]] >= p[q[j]]
      BY <1>10, <1>13, <1>15 DEF Lined
  <2>1. ASSUME NEW x \in 1 .. len + k, q[x] \notin taken PROVE x \in 1 .. len /\ q[x] = t.order[x]
      BY <1>14, <2>1
  <2>2. \A x \in 1 .. len : t.order[x] \in SeqNumbers /\ t.order[x] <= n /\ t.order[x] \notin taken
    <3>1. \A x \in 1 .. len : t.order[x] \in SeqNumbers /\ t.order[x] <= n
        BY <1>1, <1>2, <1>12 DEF Upto
    <3>2. \A s \in taken : n < s /\ s \in Int
      <4>1. \A s \in taken : s \in missing /\ s \in SeqNumbers
          BY <1>6
      <4> QED
          BY <4>1 DEF SeqNumbers
    <3> QED
        BY <3>1, <3>2 DEF SeqNumbers
  <2>3. CASE j \in 1 .. len
    <3>1. i \in 1 .. len /\ q[i] = t.order[i] /\ q[j] = t.order[j]
        BY <1>13, <2>3
    <3>2. q[i] < q[j]
        BY <1>1, <1>12, <2>3, <3>1 DEF Lined
    <3>3. q[i] \in P /\ q[j] \in P => t.pending[q[i]] >= t.pending[q[j]]
        BY <1>1, <1>12, <2>3, <3>1 DEF Lined
    <3>4. q[i] \notin taken /\ q[j] \notin taken
        BY <2>2, <2>3, <3>1
    <3> QED
        BY <1>10, <3>2, <3>3, <3>4
  <2>4. CASE j \notin 1 .. len
    <3>1. j - len \in 1 .. k /\ q[j] = a[j - len] /\ q[j] \in taken
        BY <1>14, <2>4
    <3>2. q[i] < q[j]
      <4>1. CASE i \in 1 .. len
        <5>1. q[i] = t.order[i] /\ t.order[i] \in Int /\ t.order[i] <= n
            BY <1>13, <2>2, <4>1 DEF SeqNumbers
        <5>2. q[j] \in Int /\ n < q[j]
            BY <1>6, <3>1
        <5> QED
            BY <5>1, <5>2
      <4>2. CASE i \notin 1 .. len
        <5>1. i - len \in 1 .. k /\ q[i] = a[i - len] /\ i - len < j - len
            BY <1>14, <4>2
        <5> QED
            BY <1>8, <3>1, <5>1
      <4> QED
          BY <4>1, <4>2
    <3>3. p[q[j]] = 0
        BY <1>10, <3>1
    <3>4. q[i] \in P \cup taken => p[q[i]] \in 0 .. OldestAge
        BY <1>10
    <3> QED
        BY <1>7, <3>2, <3>3, <3>4
  <2> QED
      BY <2>3, <2>4
<1>19. TrackerInv(u, h)
    BY <1>1, <1>4, <1>10, <1>15, <1>16, <1>17, <1>18 DEF TrackerInv
<1> QED
    BY <1>3, <1>4, <1>6, <1>10, <1>15, <1>19 DEF u

\* due() takes entries off the front of the queue up to the first that must wait.
LEMMA VisitedStops ==
    ASSUME NEW t \in Trackers
    PROVE  /\ Visited(t) \in 0 .. Len(t.order)
           /\ \A j \in 1 .. Visited(t) : ~ Blocks(t, t.order[j])
           /\ Visited(t) < Len(t.order) => Blocks(t, t.order[Visited(t) + 1])
<1> DEFINE q == t.order
           V == {i \in 0 .. Len(q) : \A j \in 1 .. i : ~ Blocks(t, q[j])}
<1>1. Len(q) \in Nat
    BY TrackerFields
<1>2. V \in SUBSET Int /\ V \in SUBSET (0 .. Len(q)) /\ 0 \in V
    BY <1>1
<1>3. IsFiniteSet(0 .. Len(q))
    BY <1>1, FS_Interval
<1>4. Visited(t) = Max(V)
    BY DEF Visited
<1>5. \A i \in 0 .. Len(q) : i \in V <=> \A j \in 1 .. i : ~ Blocks(t, q[j])
    OBVIOUS
<1> HIDE DEF V
<1>6. IsFiniteSet(V) /\ V # {}
    BY <1>2, <1>3, FS_Subset
<1>7. Max(V) \in V /\ \A i \in V : i <= Max(V)
    BY <1>2, <1>6, MaxExists
<1>8. PICK v \in 0 .. Len(q) : v = Max(V)
    BY <1>2, <1>7
<1>9. \A j \in 1 .. v : ~ Blocks(t, q[j])
    BY <1>5, <1>7, <1>8
<1>10. v < Len(q) => Blocks(t, q[v + 1])
  <2> SUFFICES ASSUME v < Len(q), ~ Blocks(t, q[v + 1]) PROVE FALSE
      OBVIOUS
  <2>1. v + 1 \in 0 .. Len(q) /\ v + 1 > v
      BY <1>1
  <2>2. \A j \in 1 .. v + 1 : ~ Blocks(t, q[j])
    <3> SUFFICES ASSUME NEW j \in 1 .. v + 1 PROVE ~ Blocks(t, q[j])
        OBVIOUS
    <3>1. j \in 1 .. v \/ j = v + 1
        OBVIOUS
    <3> QED
        BY <1>9, <3>1
  <2>3. v + 1 \in V
      BY <1>5, <2>1, <2>2
  <2> QED
      BY <1>7, <1>8, <2>1, <2>3
<1> QED
    BY <1>4, <1>8, <1>9, <1>10

\* Of two pending numbers the lower one may still arrive only if the higher one may: the
\* legs that have not passed the lower one have not passed the higher one.
LEMMA MayArriveRises ==
    ASSUME NEW t \in Trackers, NEW x \in SeqNumbers, NEW y \in SeqNumbers, x <= y, MayStillArrive(t, x)
    PROVE  MayStillArrive(t, y)
<1>1. PICK leg \in DOMAIN t.leg_seq : Watch(t)[leg].age <= t.max_delay /\ t.leg_seq[leg] <= x
    BY DEF MayStillArrive
<1>2. t.leg_seq[leg] \in SeqNumbers
    BY TrackerFields
<1>3. t.leg_seq[leg] <= y
    BY <1>1, <1>2 DEF SeqNumbers
<1> QED
    BY <1>1, <1>3 DEF MayStillArrive

\* Stopping at the first entry that must wait misses nothing: what stands behind it is
\* younger and higher, and must wait too.
LEMMA DueIsReference ==
    ASSUME NEW n \in Int, NEW t, TrackerInv(t, n)
    PROVE  DueNow(t) = DueReference(t)
<1> DEFINE v == Visited(t)
           q == t.order
<1>1. t \in Trackers /\ Lined(t) /\ Listed(t)
    BY DEF TrackerInv
<1>2. /\ t.pending \in [DOMAIN t.pending -> 0 .. OldestAge] /\ DOMAIN t.pending \in SUBSET SeqNumbers
      /\ t.order \in Seq(SeqNumbers) /\ t.max_delay \in Nat /\ OldestAge \in Nat
    BY <1>1, TrackerFields, OldestIsBeyond
<1>3. /\ v \in 0 .. Len(q)
      /\ \A j \in 1 .. v : ~ Blocks(t, q[j])
      /\ v < Len(q) => Blocks(t, q[v + 1])
    BY <1>1, VisitedStops
<1>4. Len(q) \in Nat /\ DOMAIN q = 1 .. Len(q) /\ \A i \in 1 .. Len(q) : q[i] \in SeqNumbers
    BY <1>2, LenProperties, ElementOfSeq
<1>5. DueNow(t) = {s \in {q[i] : i \in 1 .. v} : s \in DOMAIN t.pending /\ s \notin t.asked}
    BY DEF DueNow
<1> HIDE DEF v
<1>6. ASSUME NEW s \in DueNow(t) PROVE s \in DueReference(t)
  <2>1. PICK i \in 1 .. v : s = q[i]
      BY <1>5
  <2>2. s \in DOMAIN t.pending \ t.asked /\ ~ Blocks(t, s)
      BY <1>3, <1>5, <2>1
  <2>3. t.pending[s] \in Nat
      BY <1>2, <2>2
  <2> QED
      BY <1>2, <2>2, <2>3, InitialDelayAssumption DEF Blocks, DueReference
<1>7. ASSUME NEW s \in DueReference(t) PROVE s \in DueNow(t)
  <2>1. /\ s \in DOMAIN t.pending \ t.asked /\ t.pending[s] >= InitialDelay
        /\ ~ MayStillArrive(t, s) \/ t.pending[s] >= t.max_delay
      BY DEF DueReference
  <2>2. PICK i \in 1 .. Len(q) : q[i] = s
      BY <1>1, <1>4, <2>1 DEF Listed
  <2>3. i <= v
    <3> SUFFICES ASSUME v < i PROVE FALSE
        BY <1>3
    <3>1. v + 1 \in 1 .. Len(q) /\ v + 1 <= i /\ v < Len(q)
        BY <1>3, <1>4
    <3>2. PICK h \in SeqNumbers : h = q[v + 1]
        BY <1>4, <3>1
    <3>3. Blocks(t, h)
        BY <1>3, <3>1, <3>2
    <3>4. h \in DOMAIN t.pending
        BY <3>3 DEF Blocks
    <3>5. h <= s /\ t.pending[h] >= t.pending[s]
      <4>1. CASE v + 1 = i
          BY <1>2, <2>2, <3>2, <3>4, <4>1 DEF SeqNumbers
      <4>2. CASE v + 1 < i
        <5>1. v + 1 \in DOMAIN q /\ i \in DOMAIN q
            BY <1>4, <3>1
        <5>2. /\ q[v + 1] < q[i]
              /\ q[v + 1] \in DOMAIN t.pending /\ q[i] \in DOMAIN t.pending =>
                    t.pending[q[v + 1]] >= t.pending[q[i]]
            BY <1>1, <4>2, <5>1 DEF Lined
        <5> QED
            BY <1>2, <2>1, <2>2, <3>2, <3>4, <5>2 DEF SeqNumbers
      <4> QED
          BY <1>3, <3>1, <4>1, <4>2
    <3>6. t.pending[h] \in Nat /\ t.pending[s] \in Nat
        BY <1>2, <2>1, <3>4
    <3>7. ~ (t.pending[h] < InitialDelay)
        BY <2>1, <3>5, <3>6, InitialDelayAssumption
    <3>8. MayStillArrive(t, h) /\ t.pending[h] < t.max_delay
        BY <3>3, <3>7 DEF Blocks
    <3>9. MayStillArrive(t, s)
        BY <1>1, <1>2, <2>1, <3>5, <3>8, MayArriveRises
    <3> QED
        BY <1>2, <2>1, <3>5, <3>6, <3>8, <3>9
  <2>4. i \in 1 .. v
      BY <1>3, <2>3
  <2> QED
      BY <1>5, <2>1, <2>2, <2>4
<1> QED
    BY <1>6, <1>7

\* What a pass of due() and the ceiling of the next pass do to a tracker in order.
LEMMA DueKeeps ==
    ASSUME NEW n \in Int, NEW t, TrackerInv(t, n), NEW ceiling \in Ceilings
    PROVE  /\ TrackerInv(SetMaxDelay(Due(t), ceiling), n)
           /\ SetMaxDelay(Due(t), ceiling).pending = t.pending
           /\ SetMaxDelay(Due(t), ceiling).max_pending = t.max_pending
           /\ SetMaxDelay(Due(t), ceiling).asked = t.asked \cup DueReference(t)
<1> DEFINE v == Visited(t)
           q == SubSeq(t.order, v + 1, Len(t.order))
           a == t.asked \cup DueNow(t)
           w == IF GateKnown(t) THEN Watch(t) ELSE t.leg_watch
           u == SetMaxDelay(Due(t), ceiling)
<1>1. t \in Trackers /\ Lined(t) /\ Listed(t) /\ Upto(t, n) /\ DOMAIN t.leg_watch \subseteq DOMAIN t.leg_seq
      /\ Cardinality(DOMAIN t.pending) <= t.max_pending
    BY DEF TrackerInv
<1>2. /\ t.pending \in [DOMAIN t.pending -> 0 .. OldestAge] /\ DOMAIN t.pending \in SUBSET SeqNumbers
      /\ t.order \in Seq(SeqNumbers) /\ t.asked \in SUBSET SeqNumbers /\ OldestAge \in Nat
      /\ t.leg_seq \in [DOMAIN t.leg_seq -> SeqNumbers] /\ DOMAIN t.leg_seq \in SUBSET Legs
      /\ t.leg_watch \in [DOMAIN t.leg_watch -> [seq : SeqNumbers, age : 0 .. OldestAge]]
    BY <1>1, TrackerFields, OldestIsBeyond
<1>3. v \in 0 .. Len(t.order)
    BY <1>1, VisitedStops
<1>4. PICK len \in Nat : len = Len(t.order) /\ DOMAIN t.order = 1 .. len
    BY <1>2
<1>5. u = [t EXCEPT !.order = q, !.asked = a, !.leg_watch = w, !.max_delay = ceiling]
  <2>1. ~ (ceiling < InitialDelay)
      BY CeilingsAssumption, InitialDelayAssumption
  <2> QED
      BY <1>1, <2>1 DEF SetMaxDelay, Due, Trackers
<1>6. /\ DOMAIN w \subseteq DOMAIN t.leg_seq
      /\ w \in UNION {[L -> [seq : SeqNumbers, age : 0 .. OldestAge]] : L \in SUBSET Legs}
  <2>1. CASE GateKnown(t)
    <3>1. \A leg \in DOMAIN t.leg_seq : Watch(t)[leg] \in [seq : SeqNumbers, age : 0 .. OldestAge]
        BY <1>2 DEF Watch
    <3>2. Watch(t) \in [DOMAIN t.leg_seq -> [seq : SeqNumbers, age : 0 .. OldestAge]]
        BY <3>1 DEF Watch
    <3> QED
        BY <1>2, <2>1, <3>2
  <2>2. CASE ~ GateKnown(t)
      BY <1>1, <1>2, <2>2
  <2> QED
      BY <2>1, <2>2
<1>7. DueNow(t) = {s \in {t.order[i] : i \in 1 .. v} : s \in DOMAIN t.pending /\ s \notin t.asked}
    BY DEF DueNow
<1> HIDE DEF v, w
<1>8. a \in SUBSET SeqNumbers /\ a \subseteq DOMAIN t.pending
    BY <1>1, <1>2, <1>7 DEF Listed
<1>9. /\ q \in Seq(SeqNumbers) /\ DOMAIN q = 1 .. len - v
      /\ \A i \in 1 .. len - v : q[i] = t.order[i + v] /\ i + v \in 1 .. len
  <2>1. v \in 0 .. len /\ v + 1 \in Int /\ len \in Int /\ len - (v + 1) + 1 = len - v
      BY <1>3, <1>4
  <2> HIDE DEF a, u
  <2>2. \A i \in v + 1 .. len : t.order[i] \in SeqNumbers
      BY <1>2, <1>4, <2>1
  <2>3. /\ q \in Seq(SeqNumbers)
        /\ Len(q) = IF v + 1 <= len THEN len - (v + 1) + 1 ELSE 0
        /\ \A i \in 1 .. len - (v + 1) + 1 : q[i] = t.order[v + 1 + i - 1]
      BY <1>4, <2>1, <2>2, SubSeqProperties
  <2> HIDE DEF q
  <2>4. Len(q) = len - v
      BY <2>1, <2>3
  <2>5. DOMAIN q = 1 .. len - v
      BY <2>3, <2>4
  <2>6. ASSUME NEW i \in 1 .. len - v PROVE q[i] = t.order[i + v] /\ i + v \in 1 .. len
    <3>1. v + 1 + i - 1 = i + v /\ i + v \in 1 .. len
        BY <2>1
    <3> QED
        BY <2>1, <2>3, <3>1
  <2> QED
      BY <2>3, <2>5, <2>6
<1> HIDE DEF q, a, u
<1>10. /\ u \in Trackers /\ u.pending = t.pending /\ u.order = q /\ u.asked = a /\ u.leg_seq = t.leg_seq
       /\ u.leg_watch = w /\ u.max_pending = t.max_pending
    BY <1>1, <1>5, <1>6, <1>8, <1>9 DEF Trackers
<1>11. Upto(u, n)
    BY <1>1, <1>4, <1>9, <1>10 DEF Upto
<1>12. Lined(u)
  <2> SUFFICES ASSUME NEW i \in 1 .. len - v, NEW j \in 1 .. len - v, i < j
               PROVE  /\ q[i] < q[j]
                      /\ q[i] \in DOMAIN t.pending /\ q[j] \in DOMAIN t.pending =>
                            t.pending[q[i]] >= t.pending[q[j]]
      BY <1>9, <1>10 DEF Lined
  <2>1. i + v \in 1 .. len /\ j + v \in 1 .. len /\ i + v < j + v /\ q[i] = t.order[i + v] /\ q[j] = t.order[j + v]
      BY <1>3, <1>4, <1>9
  <2> QED
      BY <1>1, <1>4, <2>1 DEF Lined
<1>13. Listed(u)
  <2> SUFFICES ASSUME NEW s \in DOMAIN t.pending, s \notin a PROVE \E i \in 1 .. len - v : q[i] = s
      BY <1>8, <1>9, <1>10 DEF Listed
  <2>1. PICK i \in 1 .. len : t.order[i] = s
      BY <1>1, <1>4 DEF a, Listed
  <2>2. i \notin 1 .. v
      BY <1>7, <2>1 DEF a
  <2>3. i - v \in 1 .. len - v /\ (i - v) + v = i
      BY <1>3, <1>4, <2>2
  <2> QED
      BY <1>9, <2>1, <2>3
<1>14. TrackerInv(u, n)
    BY <1>1, <1>6, <1>10, <1>11, <1>12, <1>13 DEF TrackerInv
<1>15. a = t.asked \cup DueReference(t)
    BY DueIsReference DEF a
<1> QED
    BY <1>10, <1>14, <1>15 DEF u

\* Waiting keeps a tracker in order: ages grow together, up to the largest told apart.
LEMMA AgedKeeps ==
    ASSUME NEW n \in Int, NEW t, TrackerInv(t, n)
    PROVE  /\ TrackerInv(AgedTracker(t), n)
           /\ DOMAIN AgedTracker(t).pending = DOMAIN t.pending
           /\ AgedTracker(t).max_pending = t.max_pending
<1> DEFINE u == AgedTracker(t)
           p == [s \in DOMAIN t.pending |-> Aged(t.pending[s])]
           w == [leg \in DOMAIN t.leg_watch |-> [seq |-> t.leg_watch[leg].seq, age |-> Aged(t.leg_watch[leg].age)]]
<1>1. t \in Trackers /\ Lined(t) /\ Listed(t) /\ Upto(t, n) /\ DOMAIN t.leg_watch \subseteq DOMAIN t.leg_seq
      /\ Cardinality(DOMAIN t.pending) <= t.max_pending
    BY DEF TrackerInv
<1>2. /\ t.pending \in [DOMAIN t.pending -> 0 .. OldestAge] /\ DOMAIN t.pending \in SUBSET SeqNumbers
      /\ OldestAge \in Nat /\ DOMAIN t.leg_watch \in SUBSET Legs
      /\ t.leg_watch \in [DOMAIN t.leg_watch -> [seq : SeqNumbers, age : 0 .. OldestAge]]
    BY <1>1, TrackerFields, OldestIsBeyond
<1>3. /\ \A age \in 0 .. OldestAge : Aged(age) \in 0 .. OldestAge
      /\ \A a, b \in 0 .. OldestAge : a >= b => Aged(a) >= Aged(b)
    BY <1>2 DEF Aged
<1>4. p \in [DOMAIN t.pending -> 0 .. OldestAge]
    BY <1>2, <1>3
<1>5. w \in [DOMAIN t.leg_watch -> [seq : SeqNumbers, age : 0 .. OldestAge]]
  <2>1. \A leg \in DOMAIN t.leg_watch :
            [seq |-> t.leg_watch[leg].seq, age |-> Aged(t.leg_watch[leg].age)] \in [seq : SeqNumbers, age : 0 .. OldestAge]
      BY <1>2, <1>3
  <2> QED
      BY <2>1
<1>6. u = [t EXCEPT !.pending = p, !.leg_watch = w]
    BY DEF AgedTracker
<1>7. \A s \in DOMAIN t.pending : p[s] = Aged(t.pending[s])
    OBVIOUS
<1> HIDE DEF p, w, u
<1>8. /\ p \in UNION {[S -> 0 .. OldestAge] : S \in SUBSET SeqNumbers}
      /\ w \in UNION {[L -> [seq : SeqNumbers, age : 0 .. OldestAge]] : L \in SUBSET Legs}
    BY <1>2, <1>4, <1>5
<1>9. /\ u \in Trackers /\ u.pending = p /\ u.order = t.order /\ u.asked = t.asked /\ u.leg_seq = t.leg_seq
      /\ u.leg_watch = w /\ u.max_pending = t.max_pending /\ DOMAIN p = DOMAIN t.pending
      /\ DOMAIN w = DOMAIN t.leg_watch
    BY <1>1, <1>4, <1>5, <1>6, <1>8 DEF Trackers
<1>10. Upto(u, n) /\ Listed(u)
    BY <1>1, <1>9 DEF Upto, Listed
<1>11. Lined(u)
    BY <1>1, <1>2, <1>3, <1>7, <1>9 DEF Lined
<1> QED
    BY <1>1, <1>9, <1>10, <1>11 DEF TrackerInv, u

\* A tracker of a new stream is in order.
LEMMA NewKeeps ==
    ASSUME NEW ceiling \in Ceilings, NEW m \in MaxPendings
    PROVE  /\ TrackerInv(NewTracker(ceiling, m), -1)
           /\ DOMAIN NewTracker(ceiling, m).pending = {}
           /\ NewTracker(ceiling, m).max_pending = m
<1> DEFINE u == NewTracker(ceiling, m)
<1>1. DOMAIN << >> = {} /\ << >> \in Seq(SeqNumbers) /\ m \in Nat
    BY EmptySeq, MaxPendingsAssumption
<1>2. /\ \A S : << >> \in [{} -> S]
      /\ {} \in SUBSET SeqNumbers /\ {} \in SUBSET Legs /\ 0 \in 0 .. SeqMax + 1
  <2>1. \A S : << >> \in [{} -> S]
      OBVIOUS
  <2> QED
      BY <2>1
<1>3. u \in Trackers
    BY <1>1, <1>2, TrackerMade DEF NewTracker
<1>4. /\ u.pending = << >> /\ u.order = << >> /\ u.asked = {} /\ u.leg_seq = << >> /\ u.leg_watch = << >>
      /\ u.max_pending = m
    BY DEF NewTracker
<1> HIDE DEF u
<1>5. Cardinality({}) = 0
    BY FS_EmptySet
<1>6. Lined(u) /\ Listed(u) /\ Upto(u, -1)
    BY <1>1, <1>4 DEF Lined, Listed, Upto
<1>7. TrackerInv(u, -1)
    BY <1>1, <1>3, <1>4, <1>5, <1>6 DEF TrackerInv
<1> QED
    BY <1>1, <1>4, <1>7 DEF u

-----------------------------------------------------------------------------
(* The receive path.  The reassembler moves over what it holds in one         *)
(* direction only, and what the dedupe window knows is held or behind it; so  *)
(* the gap cursor, which never looks back, misses nothing that it owes the    *)
(* tracker.                                                                   *)

\* What the reassembler does to the numbers it holds: it keeps them or moves past them.
Advances(held) ==
    /\ buffer' \subseteq held
    /\ \A s \in held \ buffer' : committed' /\ s < next_seq'
    /\ \A i \in DOMAIN delivered' : delivered'[i] \in held \/ \E j \in DOMAIN delivered : delivered'[i] = delivered[j]
    /\ next_seq' = next_seq \/ next_seq' \in held \/ next_seq' - 1 \in held
    /\ committed => committed' /\ next_seq <= next_seq'

\* A number the window knows is held, or the stream is past it.
SeenInv == \A i \in DOMAIN seen : seen[i] \in buffer \/ (committed /\ seen[i] < next_seq)

\* A drain hands up or passes what it takes out of the buffer, and stops where it stands
\* or behind a held number.
LEMMA DrainAdvances ==
    ASSUME delivered \in Seq(SeqNumbers), NEW n \in 0 .. SeqMax + 1, NEW held \in SUBSET SeqNumbers, Drain(n, held)
    PROVE  /\ buffer' \subseteq held
           /\ \A s \in held \ buffer' : s < next_seq'
           /\ \A i \in DOMAIN delivered' :
                delivered'[i] \in held \/ \E j \in DOMAIN delivered : delivered'[i] = delivered[j]
           /\ next_seq' \in 0 .. SeqMax + 1 /\ n <= next_seq'
           /\ next_seq' = n \/ next_seq' - 1 \in held
<1>1. PICK k \in 0 .. SeqMax + 1 : /\ DrainsTo(k, n, held)
                                   /\ next_seq' = k
                                   /\ buffer' = held \ (n .. (k - 1))
                                   /\ delivered' = delivered \o Run(n, k)
    BY DEF Drain
<1>2. n <= k /\ n .. (k - 1) \subseteq held /\ k \notin held
    BY <1>1 DEF DrainsTo
<1>3. \A s \in held \ buffer' : s < k
    BY <1>1
<1>4. k = n \/ k - 1 \in held
  <2>1. CASE k = n
      BY <2>1
  <2>2. CASE n < k
    <3>1. k - 1 \in n .. (k - 1)
        BY <2>2
    <3> QED
        BY <1>2, <3>1
  <2> QED
      BY <1>2, <2>1, <2>2
<1>5. Run(n, k) \in Seq(SeqNumbers) /\ Len(Run(n, k)) = k - n /\ \A i \in 1 .. (k - n) : Run(n, k)[i] \in held
  <2>1. \A i \in 1 .. (k - n) : n + i - 1 \in n .. (k - 1)
      OBVIOUS
  <2>2. \A i \in 1 .. (k - n) : Run(n, k)[i] \in held
      BY <1>2, <2>1 DEF Run
  <2>3. Run(n, k) \in Seq(SeqNumbers) /\ Len(Run(n, k)) = k - n
      BY <1>2 DEF Run, SeqNumbers
  <2> QED
      BY <2>2, <2>3
<1>6. PICK len \in Nat : len = Len(delivered) /\ DOMAIN delivered = 1 .. len
    BY LenProperties
<1>7. /\ DOMAIN delivered' = 1 .. len + (k - n)
      /\ \A i \in 1 .. len + (k - n) : delivered'[i] = IF i <= len THEN delivered[i] ELSE Run(n, k)[i - len]
  <2>1. /\ delivered' \in Seq(SeqNumbers) /\ Len(delivered') = Len(delivered) + Len(Run(n, k))
        /\ \A i \in 1 .. Len(delivered) + Len(Run(n, k)) :
              delivered'[i] = IF i <= Len(delivered) THEN delivered[i] ELSE Run(n, k)[i - Len(delivered)]
      BY <1>1, <1>5, ConcatProperties
  <2> QED
      BY <1>5, <1>6, <2>1
<1>8. ASSUME NEW i \in DOMAIN delivered'
      PROVE  delivered'[i] \in held \/ \E j \in DOMAIN delivered : delivered'[i] = delivered[j]
  <2>1. CASE i <= len
    <3>1. i \in DOMAIN delivered /\ delivered'[i] = delivered[i]
        BY <1>6, <1>7, <2>1
    <3> QED
        BY <3>1
  <2>2. CASE ~ (i <= len)
    <3>1. i - len \in 1 .. (k - n) /\ delivered'[i] = Run(n, k)[i - len]
        BY <1>6, <1>7, <2>2
    <3> QED
        BY <1>5, <3>1
  <2> QED
      BY <1>6, <1>7, <2>1, <2>2
<1> QED
    BY <1>1, <1>2, <1>3, <1>4, <1>8

\* The window holds what it held and the new number.
LEMMA RememberedIsKnown ==
    ASSUME TypeOK, NEW seq \in SeqNumbers
    PROVE  \A i \in DOMAIN Remember(seq) :
                Remember(seq)[i] = seq \/ \E j \in DOMAIN seen : Remember(seq)[i] = seen[j]
<1> DEFINE s == Append(seen, seq)
<1>1. PICK len \in Nat : len = Len(seen) /\ DOMAIN seen = 1 .. len
    BY DEF TypeOK
<1>2. s \in Seq(SeqNumbers) /\ Len(s) = len + 1 /\ s[len + 1] = seq /\ \A i \in 1 .. len : s[i] = seen[i]
    BY <1>1 DEF TypeOK
<1>3. Remember(seq) = IF Len(s) > DedupeWindow THEN Tail(s) ELSE s
    BY DEF Remember
<1> HIDE DEF s
<1>4. \A i \in 1 .. len + 1 : s[i] = seq \/ \E j \in DOMAIN seen : s[i] = seen[j]
  <2> SUFFICES ASSUME NEW i \in 1 .. len + 1 PROVE s[i] = seq \/ \E j \in DOMAIN seen : s[i] = seen[j]
      OBVIOUS
  <2>1. i = len + 1 \/ i \in 1 .. len
      OBVIOUS
  <2> QED
      BY <1>1, <1>2, <2>1
<1>5. CASE Remember(seq) = s
  <2>1. DOMAIN Remember(seq) = 1 .. len + 1
      BY <1>2, <1>5
  <2> QED
      BY <1>4, <1>5, <2>1
<1>6. CASE Remember(seq) = Tail(s)
  <2>1. DOMAIN Tail(s) = 1 .. len /\ \A i \in 1 .. len : Tail(s)[i] = s[i + 1]
      BY <1>2
  <2>2. \A i \in 1 .. len : i + 1 \in 1 .. len + 1
      OBVIOUS
  <2> QED
      BY <1>4, <1>6, <2>1, <2>2
<1> QED
    BY <1>3, <1>5, <1>6

\* What is remembered stays known while the reassembler moves on.
LEMMA SeenMoves ==
    ASSUME TypeOK, TypeOK', SeenInv, NEW seq \in SeqNumbers, Advances(buffer \cup {seq}), seen' = Remember(seq)
    PROVE  SeenInv'
<1> SUFFICES ASSUME NEW i \in DOMAIN seen' PROVE seen'[i] \in buffer' \/ (committed' /\ seen'[i] < next_seq')
    BY DEF SeenInv
<1>1. seen'[i] = seq \/ \E j \in DOMAIN seen : seen'[i] = seen[j]
    BY RememberedIsKnown
<1>2. CASE seen'[i] \in buffer \cup {seq}
    BY <1>2 DEF Advances
<1>3. CASE \E j \in DOMAIN seen : seen'[i] = seen[j] /\ committed /\ seen[j] < next_seq
  <2>1. PICK x \in SeqNumbers : x = seen'[i]
      BY DEF TypeOK
  <2>2. committed /\ x < next_seq
      BY <1>3, <2>1
  <2>3. committed' /\ next_seq <= next_seq' /\ next_seq \in Int /\ next_seq' \in Int
      BY <2>2 DEF Advances, TypeOK, None
  <2> QED
      BY <2>1, <2>2, <2>3 DEF SeqNumbers
<1> QED
    BY <1>1, <1>2, <1>3 DEF SeenInv

\* Whatever a push does with a frame, the stream moves on or stays, and does not change
\* its grace.
LEMMA PushAdvances ==
    ASSUME TypeOK, StreamInv, SeenInv, NEW seq \in SeqNumbers, Push(seq), TypeOK'
    PROVE  /\ Advances(buffer \cup {seq}) /\ SeenInv' /\ origin_grace' = origin_grace
           /\ origin_grace = 0 /\ (next_seq # None => committed) /\ next_seq' # None => committed'
<1> DEFINE held == buffer \cup {seq}
<1>0. /\ delivered \in Seq(SeqNumbers) /\ buffer \in SUBSET SeqNumbers /\ held \in SUBSET SeqNumbers
      /\ next_seq \in Int
    BY DEF TypeOK, None
<1>1. CASE DropDuplicate(seq)
  <2>1. /\ buffer' = buffer /\ next_seq' = next_seq /\ committed' = committed /\ delivered' = delivered
        /\ seen' = seen /\ origin_grace' = origin_grace
      BY <1>1 DEF DropDuplicate, vars
  <2>2. seq \in buffer \/ (committed /\ seq < next_seq)
      BY <1>1 DEF DropDuplicate, Known, SeenInv
  <2> QED
      BY <1>0, <2>1, <2>2 DEF Advances, SeenInv
<1>2. CASE DropTooLate(seq)
  <2>1. /\ buffer' = buffer /\ next_seq' = next_seq /\ committed' = committed /\ delivered' = delivered
        /\ committed /\ seq < next_seq /\ seen' = Remember(seq) /\ origin_grace' = origin_grace
      BY <1>2 DEF DropTooLate
  <2>2. Advances(held)
      BY <1>0, <2>1 DEF Advances
  <2> QED
      BY <2>1, <2>2, SeenMoves
<1>3. CASE HoldForOrigin(seq)
  <2>1. /\ buffer' = held /\ committed' = committed /\ ~ committed /\ delivered' = delivered
        /\ seen' = Remember(seq) /\ next_seq' = Origin(seq) /\ GraceAge < origin_grace
        /\ origin_grace' = origin_grace
      BY <1>3 DEF HoldForOrigin
  <2>2. Advances(held)
      BY <2>1 DEF Advances, Origin
  <2>3. origin_grace # 0
      BY <2>1 DEF GraceAge, TypeOK
  <2> QED
      BY <2>1, <2>2, <2>3, SeenMoves
<1>4. CASE Accept(seq)
  <2> DEFINE heap == seq_heap \cup {seq}
  <2>1. PICK from, n \in SeqNumbers :
          /\ IF committed THEN from = next_seq ELSE IsLowest(from, SweptHeap(heap, held))
          /\ IF Overflows(held) THEN SkipsTo(n, from, SweptHeap(heap, held)) ELSE n = from
          /\ Drain(n, held)
      BY <1>4 DEF Accept
  <2>2. heap \in SUBSET SeqNumbers /\ held \in SUBSET heap
      BY DEF TypeOK, StreamInv
  <2>3. /\ committed' /\ seen' = Remember(seq) /\ origin_grace' = origin_grace
        /\ (committed => next_seq <= seq /\ \A b \in buffer : next_seq < b)
      BY <1>4 DEF Accept, Wanted, StreamInv
  <2> HIDE DEF heap
  <2>4. IF committed THEN from = next_seq ELSE IsLowest(from, held)
      BY <2>1, <2>2, LowestOfSwept
  <2>5. n = from \/ IsLowest(n, held)
      BY <2>1, <2>2, LowestOfSwept DEF SkipsTo
  <2>6. (n = next_seq \/ n \in held) /\ (committed => next_seq <= n)
      BY <2>3, <2>4, <2>5 DEF IsLowest, SeqNumbers
  <2>7. n \in 0 .. SeqMax + 1
      BY DEF SeqNumbers
  <2>8. /\ buffer' \subseteq held
        /\ \A s \in held \ buffer' : s < next_seq'
        /\ \A i \in DOMAIN delivered' :
                delivered'[i] \in held \/ \E j \in DOMAIN delivered : delivered'[i] = delivered[j]
        /\ next_seq' \in 0 .. SeqMax + 1 /\ n <= next_seq'
        /\ next_seq' = n \/ next_seq' - 1 \in held
      BY <1>0, <2>1, <2>7, DrainAdvances
  <2>9. committed => next_seq <= next_seq'
      BY <1>0, <2>6, <2>7, <2>8
  <2> HIDE DEF held
  <2>10. Advances(held)
      BY <2>3, <2>6, <2>8, <2>9 DEF Advances
  <2> QED
      BY <2>3, <2>10, SeenMoves DEF held
<1> QED
    BY <1>1, <1>2, <1>3, <1>4 DEF Push

\* So does whatever a pass of the loop releases.
LEMMA ReleaseAdvances ==
    ASSUME TypeOK, StreamInv, SeenInv, Release, TypeOK'
    PROVE  Advances(buffer) /\ SeenInv' /\ (next_seq = None => next_seq' = None) /\ origin_grace' = origin_grace
<1>0. /\ delivered \in Seq(SeqNumbers) /\ buffer \in SUBSET SeqNumbers /\ next_seq \in Int
      /\ buffer \in SUBSET seq_heap /\ seq_heap \in SUBSET SeqNumbers
    BY DEF TypeOK, None, StreamInv
<1>1. CASE TickIdle
    BY <1>0, <1>1 DEF TickIdle, Advances, SeenInv
<1>2. ASSUME NEW n \in 0 .. SeqMax + 1, Drain(n, buffer), n = next_seq \/ n \in buffer,
             committed => next_seq <= n, committed', seen' = seen
      PROVE  Advances(buffer) /\ SeenInv'
  <2>1. /\ buffer' \subseteq buffer
        /\ \A s \in buffer \ buffer' : s < next_seq'
        /\ \A i \in DOMAIN delivered' :
                delivered'[i] \in buffer \/ \E j \in DOMAIN delivered : delivered'[i] = delivered[j]
        /\ next_seq' \in 0 .. SeqMax + 1 /\ n <= next_seq'
        /\ next_seq' = n \/ next_seq' - 1 \in buffer
      BY <1>0, <1>2, DrainAdvances
  <2>2. committed => next_seq <= next_seq'
      BY <1>0, <1>2, <2>1
  <2>3. Advances(buffer)
      BY <1>2, <2>1, <2>2 DEF Advances
  <2>4. ASSUME NEW i \in DOMAIN seen PROVE seen[i] \in buffer' \/ seen[i] < next_seq'
    <3>1. seen[i] \in SeqNumbers
        BY DEF TypeOK
    <3>2. CASE seen[i] \in buffer
        BY <2>1, <3>2
    <3>3. CASE committed /\ seen[i] < next_seq
        BY <1>0, <2>1, <2>2, <3>1, <3>3 DEF SeqNumbers
    <3> QED
        BY <3>2, <3>3 DEF SeenInv
  <2> QED
      BY <1>2, <2>3, <2>4 DEF SeenInv
<1>3. CASE TickCommit
  <2>1. PICK n \in SeqNumbers : IsLowest(n, seq_heap') /\ Drain(n, buffer)
      BY <1>3 DEF TickCommit
  <2>2. seq_heap' = SweptHeap(seq_heap, buffer) /\ ~ committed /\ committed' /\ seen' = seen
        /\ next_seq # None /\ origin_grace' = origin_grace
      BY <1>3 DEF TickCommit, Sweep
  <2>3. n \in buffer /\ n \in 0 .. SeqMax + 1
      BY <1>0, <2>1, <2>2, LowestOfSwept DEF IsLowest, SeqNumbers
  <2> QED
      BY <1>2, <2>1, <2>2, <2>3
<1>4. CASE TickAbandon
  <2>1. PICK n \in 0 .. SeqMax + 1 : SkipsTo(n, next_seq, seq_heap') /\ Drain(n, buffer)
      BY <1>4 DEF TickAbandon
  <2>2. seq_heap' = SweptHeap(seq_heap, buffer) /\ committed /\ committed' = committed /\ seen' = seen
        /\ next_seq # None /\ origin_grace' = origin_grace
      BY <1>4 DEF TickAbandon, Sweep
  <2>3. n = next_seq \/ IsLowest(n, buffer)
      BY <1>0, <2>1, <2>2, LowestOfSwept DEF SkipsTo
  <2>4. next_seq <= n /\ (n = next_seq \/ n \in buffer)
      BY <1>0, <2>2, <2>3 DEF IsLowest, StreamInv, SeqNumbers
  <2> QED
      BY <1>2, <2>1, <2>2, <2>4
<1> QED
    BY <1>1, <1>3, <1>4 DEF Release

\* What a pass of the gap cursor looks at, with the cursor at n, the strip up to h, the next
\* number owed x and the numbers held B; and where it leaves the cursor.
Strip(n, h, x, m, B) == (Larger(Larger(n, x - 1) + 1, h - m) .. h - 1) \ B
CursorAt(n, h, x) == Larger(Larger(n, x - 1), h - 1)

\* The tracker stays in order up to the cursor, and what the strip misses is in it.
LEMMA CursorMoves ==
    ASSUME NEW n \in -1 .. SeqMax, NEW h \in -1 .. SeqMax, n <= h, NEW x \in 0 .. SeqMax + 1, x - 1 <= h,
           NEW m \in Nat, NEW B, NEW t, TrackerInv(t, n),
           NEW u, u = ForgetBefore(NoteGap(t, Strip(n, h, x, m, B)), x)
    PROVE  /\ CursorAt(n, h, x) \in -1 .. SeqMax /\ CursorAt(n, h, x) <= h
           /\ TrackerInv(u, CursorAt(n, h, x))
           /\ \A s \in DOMAIN u.pending : s \in DOMAIN t.pending \/ (s \notin B /\ s >= x)
           /\ \A s \in DOMAIN t.pending : s >= x => s \in DOMAIN u.pending
           /\ t.max_pending > SeqMax => Strip(n, h, x, m, B) \subseteq DOMAIN u.pending
           /\ u.max_pending = t.max_pending
<1> DEFINE below == Larger(n, x - 1)
           start == Larger(below + 1, h - m)
           found == Strip(n, h, x, m, B)
<1>1. below \in -1 .. SeqMax /\ n <= below /\ x - 1 <= below /\ below <= h
    BY DEF Larger
<1>2. start \in Int /\ below + 1 <= start /\ found = (start .. h - 1) \ B
  <2>1. found = (start .. h - 1) \ B
      BY DEF Strip
  <2> HIDE DEF below
  <2> QED
      BY <1>1, <2>1 DEF Larger
<1>3. PICK e \in -1 .. SeqMax : e = Larger(below, h - 1)
  <2> HIDE DEF below
  <2> QED
      BY <1>1 DEF Larger
<1>0. e = CursorAt(n, h, x)
    BY <1>3 DEF CursorAt
<1> HIDE DEF below, start, found
<1>4. e <= h /\ n <= e /\ h - 1 <= e
    BY <1>1, <1>3 DEF Larger
<1>5. /\ found \in SUBSET SeqNumbers
      /\ \A s \in found : n < s /\ s <= e /\ s \notin B /\ s >= x
    BY <1>1, <1>2, <1>4 DEF SeqNumbers
<1> DEFINE w == NoteGap(t, found)
<1>6. /\ TrackerInv(w, e)
      /\ DOMAIN w.pending \subseteq DOMAIN t.pending \cup found
      /\ DOMAIN t.pending \subseteq DOMAIN w.pending
      /\ t.max_pending > SeqMax => found \subseteq DOMAIN w.pending
      /\ w.max_pending = t.max_pending
  <2>1. n \in Int /\ e \in Int
      OBVIOUS
  <2> QED
      BY <1>4, <1>5, <2>1, NoteKeeps
<1>7. u = ForgetBefore(w, x)
    BY DEF found
<1> HIDE DEF w
<1>8. /\ TrackerInv(u, e)
      /\ DOMAIN u.pending \subseteq DOMAIN w.pending
      /\ \A s \in DOMAIN w.pending : s >= x => s \in DOMAIN u.pending
      /\ u.max_pending = w.max_pending
  <2>1. e \in Int
      OBVIOUS
  <2> QED
      BY <1>6, <1>7, <2>1, ForgetKeeps
<1> QED
    BY <1>0, <1>4, <1>5, <1>6, <1>8 DEF found

-----------------------------------------------------------------------------
\* The receive path's invariant: the tracker is in order up to the cursor, the cursor is
\* not past the highest number seen, nor is anything held or owed, and nothing pending has
\* arrived.
PathInv ==
    /\ TypeOK /\ StreamInv /\ SeenInv
    /\ gap_high_water \in -1 .. SeqMax
    /\ gap_scanned_to \in -1 .. SeqMax
    /\ gap_scanned_to <= gap_high_water
    /\ max_gap_scan \in MaxGapScans
    /\ TrackerInv(nacks, gap_scanned_to)
    /\ PendingIsMissing
    /\ \A s \in buffer : s <= gap_high_water
    /\ next_seq - 1 <= gap_high_water

\* With the origin settled by the first frame: what is below the high-water mark and within
\* a scan of it is held or pending.
GapInv ==
    /\ origin_grace = 0
    /\ next_seq = None => gap_high_water = -1 /\ gap_scanned_to = -1
    /\ next_seq # None => committed /\ (gap_high_water \in buffer \/ gap_high_water < next_seq)
    /\ NoGapMissed

\* The receive path's invariants hold at first.
LEMMA PathInitInv == PathInit => PathInv /\ (origin_grace = 0 => GapInv)
<1> SUFFICES ASSUME PathInit PROVE PathInv /\ (origin_grace = 0 => GapInv)
    OBVIOUS
<1>1. TypeOK /\ StreamInv
    BY StreamInvInit DEF PathInit
<1>2. /\ seen = << >> /\ buffer = {} /\ next_seq = None /\ DOMAIN seen = {} /\ reorder_deadline \in Deadlines
      /\ gap_high_water = -1 /\ gap_scanned_to = -1 /\ max_gap_scan \in MaxGapScans
    BY DEF PathInit, Init
<1>3. PICK m \in MaxPendings : nacks = NewTracker(Ceiling[reorder_deadline], m)
    BY DEF PathInit
<1>4. Ceiling[reorder_deadline] \in Ceilings
    BY <1>2, CeilingAssumption
<1>5. TrackerInv(nacks, -1) /\ DOMAIN nacks.pending = {}
    BY <1>3, <1>4, NewKeeps
<1>6. PathInv
    BY <1>1, <1>2, <1>5 DEF PathInv, SeenInv, PendingIsMissing, None
<1> QED
    BY <1>2, <1>6 DEF GapInv, NoGapMissed

\* A frame of the data path keeps it, whether it is new, late or a copy.
LEMMA DataKeepsPath ==
    ASSUME PathInv, NEW seq \in SeqNumbers, NEW leg \in Legs \cup {NoLeg},
           Push(seq), NoteGaps(seq, Resolve(nacks, seq, leg)), max_gap_scan' = max_gap_scan
    PROVE  /\ PathInv'
           /\ GapInv => GapInv'
<1> DEFINE held == buffer \cup {seq}
<1>1. /\ TypeOK /\ StreamInv /\ SeenInv /\ TrackerInv(nacks, gap_scanned_to) /\ PendingIsMissing
      /\ gap_high_water \in -1 .. SeqMax /\ gap_scanned_to \in -1 .. SeqMax /\ gap_scanned_to <= gap_high_water
      /\ next_seq \in -1 .. SeqMax + 1 /\ buffer \in SUBSET SeqNumbers /\ max_gap_scan \in MaxGapScans
      /\ (\A s \in buffer : s <= gap_high_water) /\ next_seq - 1 <= gap_high_water
    BY DEF PathInv, TypeOK, None
<1>2. TypeOK' /\ StreamInv'
    BY <1>1, StreamInvStep DEF Next
<1>3. /\ Advances(held) /\ SeenInv' /\ origin_grace' = origin_grace
      /\ origin_grace = 0 /\ (next_seq # None => committed) /\ next_seq' # None => committed'
    BY <1>1, <1>2, PushAdvances
<1>4. /\ next_seq' \in -1 .. SeqMax + 1 /\ buffer' \in SUBSET SeqNumbers /\ delivered' \in Seq(SeqNumbers)
      /\ \A i \in DOMAIN delivered' : delivered'[i] < next_seq' /\ delivered'[i] \in SeqNumbers
    BY <1>2 DEF TypeOK, StreamInv, None
<1>5. PICK t : t = Resolve(nacks, seq, leg)
    OBVIOUS
<1>6. /\ TrackerInv(t, gap_scanned_to) /\ DOMAIN t.pending = DOMAIN nacks.pending \ {seq}
      /\ t.max_pending = nacks.max_pending
    BY <1>1, <1>5, ResolveKeeps
<1>7. ASSUME NEW s \in DOMAIN t.pending
      PROVE  s \notin buffer' /\ \A i \in DOMAIN delivered' : delivered'[i] # s
  <2>1. s \notin held /\ \A i \in DOMAIN delivered : delivered[i] # s
      BY <1>1, <1>6 DEF PendingIsMissing
  <2> HIDE DEF held
  <2> QED
      BY <1>3, <2>1 DEF Advances
<1>8. CASE next_seq' = None
  <2>1. nacks' = t /\ gap_high_water' = gap_high_water /\ gap_scanned_to' = gap_scanned_to
      BY <1>5, <1>8 DEF NoteGaps, gapVars
  <2>2. buffer' \subseteq held /\ next_seq' - 1 <= gap_high_water
      BY <1>1, <1>3, <1>8 DEF Advances, None
  <2>3. Push(seq) /\ (committed' => next_seq' # None)
      BY <1>2 DEF StreamInv
  <2>4. \A s \in held \ buffer' : FALSE
      BY <1>3, <1>8, <2>3 DEF Advances
  <2>5. DropDuplicate(seq)
    <3>1. ~ DropTooLate(seq)
      <4>1. DropTooLate(seq) => committed /\ next_seq' = next_seq
          BY DEF DropTooLate
      <4> QED
          BY <1>1, <1>8, <4>1 DEF StreamInv
    <3>2. ~ HoldForOrigin(seq)
      <4>1. HoldForOrigin(seq) => next_seq' = Origin(seq)
          BY DEF HoldForOrigin
      <4> QED
          BY <1>1, <1>8, <4>1 DEF Origin, None, SeqNumbers
    <3>3. ~ Accept(seq)
      <4>1. Accept(seq) => committed'
          BY DEF Accept
      <4> QED
          BY <1>8, <2>3, <4>1
    <3> QED
        BY <3>1, <3>2, <3>3 DEF Push
  <2>6. buffer' = buffer /\ next_seq' = next_seq /\ origin_grace' = origin_grace
      BY <2>5 DEF DropDuplicate, vars
  <2>7. PathInv'
      BY <1>1, <1>2, <1>3, <1>6, <1>7, <2>1, <2>6 DEF PathInv, PendingIsMissing
  <2> QED
      BY <1>8, <2>1, <2>6, <2>7 DEF GapInv, NoGapMissed
<1>9. CASE next_seq' # None
  <2>1. PICK h \in -1 .. SeqMax : h = Larger(gap_high_water, seq)
      BY <1>1 DEF Larger, SeqNumbers
  <2>2. PICK below : below = Larger(gap_scanned_to, next_seq' - 1)
      OBVIOUS
  <2>3. PICK start : start = Larger(below + 1, h - max_gap_scan)
      OBVIOUS
  <2>4. PICK found : found = (start .. h - 1) \ buffer'
      OBVIOUS
  <2>5. PICK x \in 0 .. SeqMax + 1 : x = next_seq'
      BY <1>4, <1>9 DEF None
  <2>6. PICK B : B = buffer'
      OBVIOUS
  <2>7. PICK u : u = ForgetBefore(NoteGap(t, found), x)
      OBVIOUS
  <2>8. nacks' = u /\ gap_high_water' = h /\ gap_scanned_to' = Larger(below, h - 1)
      BY <1>5, <1>9, <2>1, <2>2, <2>3, <2>4, <2>5, <2>7 DEF NoteGaps
  <2>18. gap_scanned_to' = CursorAt(gap_scanned_to, h, x)
      BY <2>2, <2>5, <2>8 DEF CursorAt
  <2>9. gap_high_water <= h /\ seq <= h /\ \A s \in held : s <= h
      BY <1>1, <2>1 DEF Larger, SeqNumbers
  <2>10. x - 1 <= h /\ \A s \in B : s <= h
    <3>1. next_seq' = next_seq \/ next_seq' \in held \/ next_seq' - 1 \in held
        BY <1>3 DEF Advances
    <3>2. \A s \in held : s \in SeqNumbers
        BY <1>1
    <3>3. B \subseteq held
        BY <1>3, <2>6 DEF Advances
    <3> HIDE DEF held
    <3>4. \A s \in held : s \in Int /\ s <= h
        BY <2>9, <3>2 DEF SeqNumbers
    <3>5. next_seq' - 1 <= h
      <4>1. CASE next_seq' = next_seq
          BY <1>1, <2>1, <2>9, <4>1
      <4>2. CASE next_seq' \in held
        <5>1. x \in held
            BY <2>5, <4>2
        <5>2. x \in Int /\ x <= h
            BY <3>4, <5>1
        <5>3. x - 1 <= h
            BY <5>2
        <5> QED
            BY <2>5, <5>3, Zenon
      <4>3. CASE next_seq' - 1 \in held
          BY <3>4, <4>3
      <4> QED
          BY <3>1, <4>1, <4>2, <4>3
    <3> QED
        BY <2>5, <3>3, <3>4, <3>5
  <2>11. PICK n \in -1 .. SeqMax : n = gap_scanned_to
      BY <1>1
  <2>12. PICK m \in Nat : m = max_gap_scan
      BY <1>1, MaxGapScansAssumption
  <2>13. /\ CursorAt(n, h, x) \in -1 .. SeqMax /\ CursorAt(n, h, x) <= h
         /\ TrackerInv(u, CursorAt(n, h, x))
         /\ \A s \in DOMAIN u.pending : s \in DOMAIN t.pending \/ (s \notin B /\ s >= x)
         /\ \A s \in DOMAIN t.pending : s >= x => s \in DOMAIN u.pending
         /\ t.max_pending > SeqMax => found \subseteq DOMAIN u.pending
         /\ u.max_pending = t.max_pending
    <3>1. n <= h
        BY <1>1, <2>9, <2>11
    <3>2. TrackerInv(t, n) /\ found = Strip(n, h, x, m, B)
        BY <1>6, <2>2, <2>3, <2>4, <2>5, <2>6, <2>11, <2>12 DEF Strip
    <3>3. u = ForgetBefore(NoteGap(t, Strip(n, h, x, m, B)), x) /\ x - 1 <= h
        BY <2>7, <2>10, <3>2
    <3>4. /\ CursorAt(n, h, x) \in -1 .. SeqMax /\ CursorAt(n, h, x) <= h
          /\ TrackerInv(u, CursorAt(n, h, x))
          /\ \A s \in DOMAIN u.pending : s \in DOMAIN t.pending \/ (s \notin B /\ s >= x)
          /\ \A s \in DOMAIN t.pending : s >= x => s \in DOMAIN u.pending
          /\ t.max_pending > SeqMax => Strip(n, h, x, m, B) \subseteq DOMAIN u.pending
          /\ u.max_pending = t.max_pending
        BY <3>1, <3>2, <3>3, CursorMoves
    <3> QED
        BY <3>2, <3>4
  <2>17. /\ below \in Int /\ x - 1 <= below
         /\ below = gap_scanned_to \/ below = x - 1
    <3>1. below = Larger(n, x - 1)
        BY <2>2, <2>5, <2>11
    <3> QED
        BY <2>11, <3>1 DEF Larger
  <2>14. PendingIsMissing'
    <3> SUFFICES ASSUME NEW s \in DOMAIN u.pending
                 PROVE  s \notin buffer' /\ \A i \in DOMAIN delivered' : delivered'[i] # s
        BY <2>8 DEF PendingIsMissing
    <3>1. CASE s \in DOMAIN t.pending
        BY <1>7, <3>1
    <3>2. CASE s \notin B /\ s >= x
      <4>1. s \in SeqNumbers
          BY <2>13, TrackerFields DEF TrackerInv
      <4>2. \A i \in DOMAIN delivered' : delivered'[i] \in SeqNumbers /\ delivered'[i] < x
          BY <1>4, <2>5
      <4> QED
          BY <2>6, <3>2, <4>1, <4>2 DEF SeqNumbers
    <3> QED
        BY <2>13, <3>1, <3>2
  <2>15. PathInv'
      BY <1>1, <1>2, <1>3, <2>5, <2>6, <2>8, <2>10, <2>11, <2>13, <2>14, <2>18 DEF PathInv
  <2>16. ASSUME GapInv PROVE GapInv'
    <3>1. origin_grace = 0 /\ (next_seq # None => committed)
        BY <1>1, <2>16 DEF GapInv, TypeOK
    <3>2. committed'
        BY <1>3, <1>9, <3>1
    <3>3. h \in buffer' \/ h < next_seq'
      <4>1. CASE h = seq
          BY <1>3, <4>1 DEF Advances
      <4>2. CASE h = gap_high_water /\ gap_high_water \in buffer
          BY <1>3, <4>2 DEF Advances
      <4>3. CASE h = gap_high_water /\ gap_high_water < next_seq /\ committed
        <5>1. next_seq <= next_seq'
            BY <1>3, <4>3 DEF Advances
        <5> QED
            BY <1>1, <1>4, <4>3, <5>1
      <4>4. CASE h = gap_high_water /\ next_seq = None
          BY <2>9, <2>16, <4>4 DEF GapInv, SeqNumbers
      <4> QED
          BY <2>1, <2>16, <4>1, <4>2, <4>3, <4>4 DEF GapInv, Larger
    <3>4. ASSUME u.max_pending > SeqMax, NEW s \in Larger(x, h - m) .. h, s \notin B PROVE s \in DOMAIN u.pending
      <4>1. s \in Int /\ x <= s /\ h - m <= s /\ s <= h
          BY <3>4 DEF Larger
      <4>2. s # h
          BY <2>5, <2>6, <3>3, <3>4, <4>1
      <4>3. CASE s > below
        <5>1. s \in found
          <6>1. below \in Int
              BY <2>17
          <6>2. start \in Int /\ start <= s
              BY <2>3, <2>12, <4>1, <4>3, <6>1 DEF Larger
          <6> QED
              BY <2>4, <2>6, <3>4, <4>1, <4>2, <6>2
        <5> QED
            BY <2>13, <3>4, <5>1
      <4>4. CASE s <= below
        <5>1. s <= gap_scanned_to
            BY <1>1, <2>17, <4>1, <4>4
        <5>2. next_seq # None
            BY <1>1, <2>16, <4>1, <5>1 DEF GapInv
        <5>3. committed /\ next_seq <= next_seq'
            BY <1>3, <3>1, <5>2 DEF Advances
        <5>4. s \notin held
          <6>1. s \in held => s \in buffer' \/ s < next_seq'
              BY <1>3 DEF Advances
          <6> QED
              BY <2>5, <2>6, <3>4, <4>1, <6>1
        <5>5. s \in Larger(next_seq, gap_high_water - max_gap_scan) .. gap_high_water
            BY <1>1, <2>5, <2>9, <2>12, <4>1, <5>1, <5>3 DEF Larger
        <5>6. nacks.max_pending > SeqMax
            BY <1>6, <2>13, <3>4
        <5>7. s \in DOMAIN nacks.pending
            BY <2>16, <5>2, <5>4, <5>5, <5>6 DEF GapInv, NoGapMissed
        <5>8. s \in DOMAIN t.pending
            BY <1>6, <5>4, <5>7
        <5> QED
            BY <2>13, <4>1, <5>8
      <4> QED
          BY <2>17, <4>1, <4>3, <4>4
    <3>5. NoGapMissed'
        BY <2>5, <2>6, <2>8, <2>12, <3>4 DEF NoGapMissed
    <3> QED
        BY <1>3, <1>9, <2>8, <3>1, <3>2, <3>3, <3>5 DEF GapInv
  <2> QED
      BY <2>15, <2>16
<1> QED
    BY <1>8, <1>9

\* A pass of the loop keeps it, and asks for what a full scan would.
LEMMA TickKeepsPath ==
    ASSUME PathInv, NEW d \in Deadlines, TransportTick(d)
    PROVE  /\ PathInv'
           /\ GapInv => GapInv'
           /\ nacks'.asked = nacks.asked \cup DueReference(nacks)
<1>1. /\ TypeOK /\ StreamInv /\ SeenInv /\ TrackerInv(nacks, gap_scanned_to) /\ PendingIsMissing
      /\ gap_high_water \in -1 .. SeqMax /\ gap_scanned_to \in -1 .. SeqMax /\ gap_scanned_to <= gap_high_water
      /\ next_seq \in -1 .. SeqMax + 1 /\ buffer \in SUBSET SeqNumbers /\ max_gap_scan \in MaxGapScans
      /\ (\A s \in buffer : s <= gap_high_water) /\ next_seq - 1 <= gap_high_water
    BY DEF PathInv, TypeOK, None
<1>2. /\ Release /\ reorder_deadline' = d /\ gap_high_water' = gap_high_water /\ gap_scanned_to' = gap_scanned_to
      /\ max_gap_scan' = max_gap_scan /\ nacks' = SetMaxDelay(Due(nacks), Ceiling[d])
    BY DEF TransportTick, gapVars
<1>3. TypeOK' /\ StreamInv'
    BY <1>1, <1>2, ReleaseKeepsInv
<1>4. Advances(buffer) /\ SeenInv' /\ (next_seq = None => next_seq' = None) /\ origin_grace' = origin_grace
    BY <1>1, <1>2, <1>3, ReleaseAdvances
<1>5. next_seq' \in -1 .. SeqMax + 1 /\ buffer' \in SUBSET SeqNumbers
    BY <1>3 DEF TypeOK, None
<1>6. Ceiling[d] \in Ceilings
    BY CeilingAssumption
<1>7. /\ TrackerInv(nacks', gap_scanned_to)
      /\ nacks'.pending = nacks.pending /\ nacks'.max_pending = nacks.max_pending
      /\ nacks'.asked = nacks.asked \cup DueReference(nacks)
    BY <1>1, <1>2, <1>6, DueKeeps
<1>8. buffer' \subseteq buffer /\ \A s \in buffer \ buffer' : s < next_seq'
    BY <1>4 DEF Advances
<1>9. next_seq' - 1 <= gap_high_water
  <2>1. next_seq' = next_seq \/ next_seq' \in buffer \/ next_seq' - 1 \in buffer
      BY <1>4 DEF Advances
  <2>2. \A s \in buffer : s \in Int /\ s <= gap_high_water
      BY <1>1 DEF SeqNumbers
  <2>3. CASE next_seq' = next_seq
      BY <1>1, <2>3
  <2>4. CASE next_seq' \in buffer
    <3>1. PICK x \in buffer : x = next_seq'
        BY <2>4
    <3>2. x \in Int /\ x <= gap_high_water
        BY <2>2
    <3>3. x - 1 <= gap_high_water
        BY <1>1, <3>2
    <3> QED
        BY <3>1, <3>3, Zenon
  <2>5. CASE next_seq' - 1 \in buffer
      BY <2>2, <2>5
  <2> QED
      BY <2>1, <2>3, <2>4, <2>5
<1>10. PendingIsMissing'
    BY <1>1, <1>4, <1>7, <1>8 DEF PendingIsMissing, Advances
<1>11. PathInv'
    BY <1>1, <1>2, <1>3, <1>4, <1>7, <1>8, <1>9, <1>10 DEF PathInv
<1>12. ASSUME GapInv PROVE GapInv'
  <2>1. CASE next_seq' = None
    <3>1. next_seq = None
      <4> SUFFICES ASSUME next_seq # None PROVE FALSE
          OBVIOUS
      <4>1. committed /\ committed' /\ next_seq <= next_seq'
          BY <1>4, <1>12 DEF GapInv, Advances
      <4> QED
          BY <1>3, <2>1, <4>1 DEF StreamInv
    <3> QED
        BY <1>2, <1>4, <1>12, <2>1, <3>1 DEF GapInv, NoGapMissed
  <2>2. CASE next_seq' # None
    <3>1. next_seq # None
        BY <1>4, <2>2
    <3>2. committed' /\ next_seq <= next_seq' /\ (gap_high_water \in buffer \/ gap_high_water < next_seq)
        BY <1>4, <1>12, <3>1 DEF GapInv, Advances
    <3>3. gap_high_water \in buffer' \/ gap_high_water < next_seq'
        BY <1>1, <1>5, <1>8, <3>2
    <3>4. ASSUME nacks.max_pending > SeqMax,
                 NEW s \in Larger(next_seq', gap_high_water - max_gap_scan) .. gap_high_water, s \notin buffer'
          PROVE  s \in DOMAIN nacks.pending
      <4>1. max_gap_scan \in Nat
          BY <1>1, MaxGapScansAssumption
      <4>2. s \in Int /\ next_seq' <= s /\ gap_high_water - max_gap_scan <= s /\ s <= gap_high_water
          BY <1>1, <1>5, <4>1, <3>4 DEF Larger
      <4>3. s \in Larger(next_seq, gap_high_water - max_gap_scan) .. gap_high_water
          BY <1>1, <1>5, <3>2, <4>1, <4>2 DEF Larger
      <4>4. s \notin buffer
          BY <1>5, <1>8, <3>4, <4>2
      <4> QED
          BY <1>12, <3>1, <3>4, <4>3, <4>4 DEF GapInv, NoGapMissed
    <3>5. NoGapMissed'
        BY <1>2, <1>7, <3>4 DEF NoGapMissed
    <3> QED
        BY <1>2, <1>4, <1>12, <2>2, <3>2, <3>3, <3>5 DEF GapInv
  <2> QED
      BY <2>1, <2>2
<1> QED
    BY <1>7, <1>11, <1>12

\* Nothing of the old stream is left behind when the peer restarts.
LEMMA RestartKeepsPath ==
    ASSUME PathInv, PeerRestart
    PROVE  PathInv' /\ (GapInv => GapInv')
<1>1. TypeOK /\ StreamInv /\ TrackerInv(nacks, gap_scanned_to) /\ max_gap_scan \in MaxGapScans
    BY DEF PathInv
<1>2. /\ ResetStream /\ gap_high_water' = -1 /\ gap_scanned_to' = -1 /\ max_gap_scan' = max_gap_scan
      /\ nacks' = NewTracker(nacks.max_delay, nacks.max_pending)
    BY DEF PeerRestart, ResetTracker
<1>3. TypeOK' /\ StreamInv'
    BY <1>1, <1>2, StreamInvStep DEF Next
<1>4. seen' = << >> /\ DOMAIN seen' = {} /\ buffer' = {} /\ next_seq' = None
      /\ origin_grace' = origin_grace
    BY <1>2 DEF ResetStream
<1>5. nacks.max_delay \in Ceilings /\ nacks.max_pending \in MaxPendings
    BY <1>1, TrackerFields DEF TrackerInv
<1>6. TrackerInv(nacks', -1) /\ DOMAIN nacks'.pending = {}
    BY <1>2, <1>5, NewKeeps
<1>7. PathInv'
    BY <1>1, <1>2, <1>3, <1>4, <1>6 DEF PathInv, SeenInv, PendingIsMissing, None
<1> QED
    BY <1>2, <1>4, <1>7 DEF GapInv, NoGapMissed

\* Nor does waiting change what is pending.
LEMMA ClockKeepsPath ==
    ASSUME PathInv, PathClock
    PROVE  PathInv' /\ (GapInv => GapInv')
<1>1. TypeOK /\ StreamInv /\ TrackerInv(nacks, gap_scanned_to) /\ gap_scanned_to \in -1 .. SeqMax
    BY DEF PathInv
<1>2. /\ ClockStep /\ gap_high_water' = gap_high_water /\ gap_scanned_to' = gap_scanned_to
      /\ max_gap_scan' = max_gap_scan /\ nacks' = AgedTracker(nacks)
    BY DEF PathClock, gapVars
<1>3. TypeOK' /\ StreamInv'
    BY <1>1, <1>2, StreamInvStep DEF Next
<1>4. seen' = seen /\ buffer' = buffer /\ next_seq' = next_seq /\ committed' = committed /\ delivered' = delivered
      /\ origin_grace' = origin_grace
    BY <1>2 DEF ClockStep
<1>5. /\ TrackerInv(nacks', gap_scanned_to) /\ DOMAIN nacks'.pending = DOMAIN nacks.pending
      /\ nacks'.max_pending = nacks.max_pending
    BY <1>1, <1>2, AgedKeeps
<1>6. PathInv'
    BY <1>2, <1>3, <1>4, <1>5 DEF PathInv, SeenInv, PendingIsMissing
<1> QED
    BY <1>2, <1>4, <1>5, <1>6 DEF GapInv, NoGapMissed

\* Every step keeps them, and a pass asks for all that is due.
LEMMA PathStepInv ==
    ASSUME PathInv, [PathNext]_pathVars
    PROVE  /\ PathInv'
           /\ GapInv => GapInv'
           /\ \/ nacks'.asked = nacks.asked \cup DueReference(nacks)
              \/ \A d \in Deadlines : ~ TransportTick(d)
<1>1. ASSUME NEW seq \in SeqNumbers, NEW leg \in Legs, OnLinkData(seq, leg, FALSE)
      PROVE  PathInv' /\ (GapInv => GapInv')
    BY <1>1, DataKeepsPath DEF OnLinkData
<1>2. ASSUME NEW seq \in SeqNumbers, OnLinkData(seq, NoLeg, TRUE)
      PROVE  PathInv' /\ (GapInv => GapInv')
    BY <1>2, DataKeepsPath DEF OnLinkData
<1>3. ASSUME UNCHANGED pathVars
      PROVE  PathInv' /\ (GapInv => GapInv')
  <2>1. /\ UNCHANGED vars /\ nacks' = nacks /\ gap_high_water' = gap_high_water
        /\ gap_scanned_to' = gap_scanned_to /\ max_gap_scan' = max_gap_scan
      BY <1>3 DEF pathVars, gapVars
  <2>2. TypeOK' /\ StreamInv'
      BY <2>1, StreamInvStep DEF PathInv
  <2>3. /\ seen' = seen /\ buffer' = buffer /\ next_seq' = next_seq /\ committed' = committed
        /\ delivered' = delivered /\ origin_grace' = origin_grace
      BY <2>1 DEF vars
  <2>4. PathInv'
      BY <2>1, <2>2, <2>3 DEF PathInv, SeenInv, PendingIsMissing
  <2>5. GapInv => GapInv'
      BY <2>1, <2>3 DEF GapInv, NoGapMissed
  <2> QED
      BY <2>4, <2>5
<1>4. \A d \in Deadlines : TransportTick(d) => nacks'.asked = nacks.asked \cup DueReference(nacks)
    BY TickKeepsPath
<1>5. PathInv' /\ (GapInv => GapInv')
    BY <1>1, <1>2, <1>3, TickKeepsPath, RestartKeepsPath, ClockKeepsPath DEF PathNext
<1> QED
    BY <1>4, <1>5

\* They give the types and what is claimed of the pending numbers.
LEMMA PathInvImplies ==
    PathInv => PathTypeOK /\ PendingIsMissing /\ PendingIsQueued
<1> SUFFICES ASSUME PathInv PROVE PathTypeOK /\ PendingIsQueued
    BY DEF PathInv
<1>1. /\ TypeOK /\ nacks \in Trackers /\ Listed(nacks) /\ DOMAIN nacks.leg_watch \subseteq DOMAIN nacks.leg_seq
      /\ Cardinality(DOMAIN nacks.pending) <= nacks.max_pending
      /\ gap_high_water \in -1 .. SeqMax /\ gap_scanned_to \in -1 .. SeqMax /\ max_gap_scan \in MaxGapScans
    BY DEF PathInv, TrackerInv
<1>2. /\ nacks.pending \in [DOMAIN nacks.pending -> 0 .. OldestAge] /\ DOMAIN nacks.pending \in SUBSET SeqNumbers
      /\ nacks.order \in Seq(SeqNumbers) /\ nacks.asked \in SUBSET SeqNumbers
      /\ nacks.forgotten_below \in 0 .. SeqMax + 1 /\ DOMAIN nacks.leg_seq \in SUBSET Legs
      /\ nacks.max_delay \in Ceilings /\ nacks.max_pending \in MaxPendings
    BY <1>1, TrackerFields
<1>3. \A i \in DOMAIN nacks.order : nacks.order[i] \in SeqNumbers
    BY <1>2
<1>4. PathTypeOK
    BY <1>1, <1>2, <1>3 DEF PathTypeOK, ToSet
<1>5. PendingIsQueued
    BY <1>1 DEF PendingIsQueued, Listed, ToSet
<1> QED
    BY <1>4, <1>5

\* Nothing pending has arrived, nothing asked for or to be asked for is lost, and the table
\* keeps its limit, whatever the origin grace.
THEOREM PendingStaysHonest == PathSpec => [](PathTypeOK /\ PendingIsMissing /\ PendingIsQueued)
<1>1. PathInit => PathInv
    BY PathInitInv
<1>2. PathInv /\ [PathNext]_pathVars => PathInv'
    BY PathStepInv
<1> QED
    BY <1>1, <1>2, PathInvImplies, PTL DEF PathSpec

\* The gap cursor, the tracker and the reassembler agree on what is missing, for every
\* number of legs and sequence numbers, every table and scan limit, every deadline and
\* ceiling, when the origin is settled by the first frame, as every deployment runs it.
THEOREM GapsAreTracked == PathSpec /\ origin_grace = 0 => []PendingTracksGaps
<1>1. PathInit /\ origin_grace = 0 => PathInv /\ GapInv
    BY PathInitInv
<1>2. PathInv /\ GapInv /\ [PathNext]_pathVars => PathInv' /\ GapInv'
    BY PathStepInv
<1>3. PathInv /\ GapInv => PendingTracksGaps
    BY PathInvImplies DEF PendingTracksGaps, GapInv
<1> QED
    BY <1>1, <1>2, <1>3, PTL DEF PathSpec

\* Each pass of the loop asks for exactly what a scan of the whole table would, whatever
\* the grace: the queue is in the sender's order and in the order of waiting times at once,
\* so that the first entry that must wait speaks for all behind it.
THEOREM DueIsAskedFor == PathSpec => AsksWhatIsDue
<1>1. PathInit => PathInv
    BY PathInitInv
<1>2. PathInv /\ [PathNext]_pathVars => PathInv'
    BY PathStepInv
<1>3. PathInv /\ [PathNext]_pathVars =>
        [ \/ nacks'.asked = nacks.asked \cup DueReference(nacks)
          \/ \A d \in Deadlines : ~ TransportTick(d) ]_pathVars
    BY PathStepInv
<1> QED
    BY <1>1, <1>2, <1>3, PTL DEF PathSpec, AsksWhatIsDue

-----------------------------------------------------------------------------
(***************************************************************************)
(* Recovery end to end.  The ring's entries are in order of age, the       *)
(* oldest in front, though only the front is ever looked at.               *)
(***************************************************************************)
RingEntries == [seq : SeqNumbers, age : Nat, leg : Legs, resends : 0 .. MaxResends]
OldestFirst(r) == \A i, j \in DOMAIN r : i < j => r[i].age >= r[j].age
RingInv == ring \in Seq(RingEntries) /\ OldestFirst(ring) /\ hold \in Nat

Fresh(r) == Len(r) <= MaxPackets /\ \A i \in DOMAIN r : r[i].age <= hold

\* What is left after an eviction is within both limits of the ring.
LEMMA Evicted ==
    ASSUME NEW r \in Seq(RingEntries), hold \in Nat, OldestFirst(r), NEW kept, EvictsTo(kept, r)
    PROVE  kept \in Seq(RingEntries) /\ OldestFirst(kept) /\ Fresh(kept)
<1>1. PICK n \in 0 .. Len(r) : /\ kept = SubSeq(r, n + 1, Len(r))
                               /\ kept # << >> => ~ Evictable(kept)
    BY DEF EvictsTo
<1>2. Len(r) \in Nat /\ n \in Nat /\ n <= Len(r) /\ DOMAIN r = 1 .. Len(r)
    BY <1>1
<1>3. /\ DOMAIN kept = 1 .. Len(r) - n
      /\ \A i \in 1 .. Len(r) - n : kept[i] = r[i + n] /\ i + n \in 1 .. Len(r)
    BY <1>1, <1>2
<1>s. \A i \in 1 .. Len(r) : r[i] \in RingEntries /\ r[i].age \in Nat
  <2>1. \A i \in 1 .. Len(r) : r[i] \in RingEntries
      BY ElementOfSeq
  <2> QED
      BY <2>1 DEF RingEntries
<1>4. kept \in Seq(RingEntries) /\ Len(kept) = Len(r) - n
  <2>1. n + 1 \in Int /\ Len(r) \in Int /\ \A i \in n + 1 .. Len(r) : r[i] \in RingEntries
      BY <1>2, <1>s
  <2>2. kept \in Seq(RingEntries)
      BY <1>1, <2>1, SubSeqProperties
  <2>4. PICK len \in Nat : len = Len(r)
      BY <1>2
  <2>3. n \in Nat /\ n <= len /\ Len(kept) = IF n + 1 <= len THEN len - (n + 1) + 1 ELSE 0
    <3>1. Len(kept) = IF n + 1 <= Len(r) THEN Len(r) - (n + 1) + 1 ELSE 0
        BY <1>1, <2>1, SubSeqProperties
    <3> QED
        BY <1>2, <2>4, <3>1
  <2>5. Len(kept) = len - n
      BY <2>3
  <2> QED
      BY <2>2, <2>4, <2>5
<1>5. OldestFirst(kept)
  <2> SUFFICES ASSUME NEW i \in 1 .. Len(r) - n, NEW j \in 1 .. Len(r) - n, i < j
               PROVE  kept[i].age >= kept[j].age
      BY <1>3 DEF OldestFirst
  <2>1. i + n \in DOMAIN r /\ j + n \in DOMAIN r /\ i + n < j + n
      BY <1>2, <1>3
  <2>2. r[i + n].age >= r[j + n].age
      BY <2>1 DEF OldestFirst
  <2> QED
      BY <1>3, <2>2
<1>6. \A i \in DOMAIN kept : kept[i].age \in Nat
    BY <1>3, <1>s
<1>7. Fresh(kept)
  <2>1. CASE Len(r) = n
      BY <1>2, <1>3, <1>4, <2>1, MaxPacketsAssumption DEF Fresh
  <2>2. CASE Len(r) > n
    <3>1. kept # << >> /\ 1 \in DOMAIN kept /\ DOMAIN kept = 1 .. Len(kept)
        BY <1>2, <1>3, <1>4, <2>2
    <3>2. ~ (kept[1].age > hold) /\ ~ (Len(kept) > MaxPackets)
        BY <1>1, <3>1 DEF Evictable
    <3>3. kept[1].age <= hold /\ Len(kept) <= MaxPackets
      <4>1. kept[1].age \in Nat /\ Len(kept) \in Nat
          BY <1>2, <1>4, <1>6, <3>1
      <4> QED
          BY <3>2, <4>1, MaxPacketsAssumption
    <3>4. \A i \in DOMAIN kept : kept[i].age <= kept[1].age
        BY <1>5, <1>6, <3>1 DEF OldestFirst
    <3> QED
        BY <1>6, <3>1, <3>3, <3>4 DEF Fresh
  <2>3. Len(r) = n \/ Len(r) > n
    <3>1. PICK len \in Nat : len = Len(r)
        BY <1>2
    <3>2. n \in Nat /\ n <= len
        BY <1>2, <3>1
    <3>3. len = n \/ len > n
        BY <3>2
    <3> QED
        BY <3>1, <3>3
  <2> QED
      BY <2>1, <2>2, <2>3
<1> QED
    BY <1>4, <1>5, <1>7

\* A packet that is recorded is the youngest.
LEMMA Recorded ==
    ASSUME NEW r \in Seq(RingEntries), OldestFirst(r), NEW e \in RingEntries, e.age = 0
    PROVE  Append(r, e) \in Seq(RingEntries) /\ OldestFirst(Append(r, e))
<1>1. /\ Append(r, e) \in Seq(RingEntries) /\ Len(Append(r, e)) = Len(r) + 1 /\ Len(r) \in Nat
      /\ \A i \in 1 .. Len(r) : Append(r, e)[i] = r[i]
      /\ Append(r, e)[Len(r) + 1] = e /\ DOMAIN r = 1 .. Len(r)
    BY AppendProperties
<1>2. \A i \in 1 .. Len(r) : r[i].age \in Nat
  <2>1. \A i \in 1 .. Len(r) : r[i] \in RingEntries
      BY ElementOfSeq
  <2> QED
      BY <2>1 DEF RingEntries
<1>3. DOMAIN Append(r, e) = 1 .. Len(r) + 1
    BY <1>1
<1> QED
    BY <1>1, <1>2, <1>3 DEF OldestFirst

\* An answer counts in place.
LEMMA Counted ==
    ASSUME NEW r \in Seq(RingEntries), OldestFirst(r), Fresh(r), NEW i \in DOMAIN r, r[i].resends < MaxResends
    PROVE  /\ Resent(r, i) \in Seq(RingEntries) /\ OldestFirst(Resent(r, i)) /\ Fresh(Resent(r, i))
           /\ i \in DOMAIN Resent(r, i)
           /\ Resent(r, i)[i].seq = r[i].seq /\ Resent(r, i)[i].leg = r[i].leg
           /\ Resent(r, i)[i].resends \in 1 .. MaxResends
<1>1. DOMAIN r = 1 .. Len(r) /\ Len(r) \in Nat /\ i \in 1 .. Len(r)
    OBVIOUS
<1>2. PICK e : e = [r[i] EXCEPT !.resends = @ + 1]
    OBVIOUS
<1>3. r[i] \in RingEntries
    BY <1>1, ElementOfSeq
<1>4. /\ e.seq = r[i].seq /\ e.leg = r[i].leg /\ e.age = r[i].age /\ e.resends = r[i].resends + 1
      /\ DOMAIN e = {"seq", "age", "leg", "resends"} /\ e = [seq |-> e.seq, age |-> e.age, leg |-> e.leg, resends |-> e.resends]
    BY <1>2, <1>3 DEF RingEntries
<1>5. e \in RingEntries /\ e.resends \in 1 .. MaxResends
    BY <1>3, <1>4, MaxResendsAssumption DEF RingEntries
<1>6. Resent(r, i) = [r EXCEPT ![i] = e]
    BY <1>2 DEF Resent
<1>7. /\ Resent(r, i) \in Seq(RingEntries) /\ Len(Resent(r, i)) = Len(r)
      /\ DOMAIN Resent(r, i) = DOMAIN r
      /\ \A j \in DOMAIN r : Resent(r, i)[j] = IF j = i THEN e ELSE r[j]
    BY <1>1, <1>5, <1>6, ExceptSeq
<1>8. \A j \in DOMAIN r : Resent(r, i)[j].age = r[j].age
    BY <1>4, <1>7
<1> QED
    BY <1>4, <1>5, <1>7, <1>8 DEF OldestFirst, Fresh

\* The clock makes all older alike.
LEMMA RingAges ==
    ASSUME RingInv, RingClock
    PROVE  ring' \in Seq(RingEntries) /\ OldestFirst(ring')
<1>1. DOMAIN ring = 1 .. Len(ring) /\ Len(ring) \in Nat
    BY DEF RingInv
<1>2. \A i \in 1 .. Len(ring) : ring[i] \in RingEntries
    BY <1>1, ElementOfSeq DEF RingInv
<1> DEFINE Old(e) == [e EXCEPT !.age = IF @ <= HoldMax THEN @ + 1 ELSE @]
<1>3. ASSUME NEW e \in RingEntries
      PROVE  Old(e) \in RingEntries /\ Old(e).age = (IF e.age <= HoldMax THEN e.age + 1 ELSE e.age) /\ e.age \in Nat
    BY DEF RingEntries
<1>4. ring' = [i \in 1 .. Len(ring) |-> Old(ring[i])]
    BY <1>1 DEF RingClock
<1> HIDE DEF Old
<1>5. \A i \in 1 .. Len(ring) : Old(ring[i]) \in RingEntries
    BY <1>2, <1>3
<1>6. /\ ring' \in Seq(RingEntries) /\ DOMAIN ring' = 1 .. Len(ring)
      /\ \A i \in 1 .. Len(ring) : ring'[i] = Old(ring[i])
    BY <1>1, <1>4, <1>5, IsASeq
<1>7. \A i, j \in 1 .. Len(ring) : i < j => ring[i].age >= ring[j].age
    BY <1>1 DEF RingInv, OldestFirst
<1>8. ASSUME NEW i \in 1 .. Len(ring), NEW j \in 1 .. Len(ring), i < j
      PROVE  ring'[i].age >= ring'[j].age
  <2>1. ring[i].age >= ring[j].age /\ ring[i] \in RingEntries /\ ring[j] \in RingEntries
      BY <1>2, <1>7, <1>8
  <2>2. /\ ring'[i].age = (IF ring[i].age <= HoldMax THEN ring[i].age + 1 ELSE ring[i].age) /\ ring[i].age \in Nat
        /\ ring'[j].age = (IF ring[j].age <= HoldMax THEN ring[j].age + 1 ELSE ring[j].age) /\ ring[j].age \in Nat
      BY <1>3, <1>6, <2>1
  <2> QED
      BY <2>1, <2>2, HoldMaxAssumption
<1> QED
    BY <1>6, <1>8 DEF OldestFirst

\* An answered NACK counts one more resend of a number the ring has, and avoids the leg
\* that number first took.
LEMMA Answered ==
    ASSUME RingInv, NEW seq, NEW avoid, OnNackAnswer(seq, avoid)
    PROVE  /\ ring' \in Seq(RingEntries) /\ OldestFirst(ring') /\ Fresh(ring')
           /\ \E i \in DOMAIN ring' :
                 ring'[i].seq = seq /\ ring'[i].leg = avoid /\ ring'[i].resends \in 1 .. MaxResends
<1>1. PICK kept : /\ EvictsTo(kept, ring)
                  /\ \E i \in DOMAIN kept : /\ Answerable(kept, i, seq)
                                            /\ avoid = kept[i].leg
                                            /\ ring' = Resent(kept, i)
    BY DEF OnNackAnswer
<1>2. kept \in Seq(RingEntries) /\ OldestFirst(kept) /\ Fresh(kept)
    BY <1>1, Evicted DEF RingInv
<1>3. PICK i \in DOMAIN kept : Answerable(kept, i, seq) /\ avoid = kept[i].leg /\ ring' = Resent(kept, i)
    BY <1>1
<1>4. kept[i].seq = seq /\ kept[i].resends < MaxResends
    BY <1>3 DEF Answerable
<1>5. /\ Resent(kept, i) \in Seq(RingEntries) /\ OldestFirst(Resent(kept, i)) /\ Fresh(Resent(kept, i))
      /\ i \in DOMAIN Resent(kept, i)
      /\ Resent(kept, i)[i].seq = kept[i].seq /\ Resent(kept, i)[i].leg = kept[i].leg
      /\ Resent(kept, i)[i].resends \in 1 .. MaxResends
    BY <1>2, <1>3, <1>4, Counted
<1> QED
    BY <1>3, <1>4, <1>5

-----------------------------------------------------------------------------
(***************************************************************************)
(* Each leg keeps its order: the numbers it carries rise, and those still  *)
(* on their way are above all that it brought.                             *)
(***************************************************************************)
Frames == [seq : SeqNumbers, resend : BOOLEAN]

Rising(w) ==
    \A i, j \in DOMAIN w : i < j /\ ~ w[i].resend /\ ~ w[j].resend => w[i].seq < w[j].seq
Under(w, n) == \A i \in DOMAIN w : ~ w[i].resend => w[i].seq < n
Above(w, n) == \A i \in DOMAIN w : ~ w[i].resend => n < w[i].seq

WireInv ==
    /\ sent \in 0 .. SeqMax + 1
    /\ wire \in [Legs -> Seq(Frames)] /\ nack_wire \subseteq SeqNumbers
    /\ \A leg \in Legs :
          /\ Rising(wire[leg]) /\ Under(wire[leg], sent)
          /\ leg \in DOMAIN nacks.leg_seq =>
                nacks.leg_seq[leg] < sent /\ Above(wire[leg], nacks.leg_seq[leg])

RecoveryInv == PathInv /\ RingInv /\ WireInv

\* The receive path sees a step of its own, or none.
LEMMA RecoveryStepsPath == ASSUME WireInv, [RecoveryNext]_recoveryVars PROVE [PathNext]_pathVars
<1>1. ASSUME NEW leg \in Legs, Arrive(leg) PROVE PathNext
  <2>1. Head(wire[leg]) \in Frames
      BY <1>1, HeadTailProperties DEF Arrive, WireInv
  <2>2. PICK f \in Frames : f = Head(wire[leg])
      BY <2>1
  <2>3. f.seq \in SeqNumbers /\ f.resend \in BOOLEAN
      BY DEF Frames
  <2>4. OnLinkData(f.seq, leg, f.resend)
      BY <1>1, <2>2 DEF Arrive
  <2>5. CASE f.resend
    <3>1. OnLinkData(f.seq, NoLeg, TRUE)
        BY <2>4, <2>5 DEF OnLinkData
    <3> QED
        BY <2>3, <3>1 DEF PathNext
  <2>6. CASE ~ f.resend
    <3>1. OnLinkData(f.seq, leg, FALSE)
        BY <2>4, <2>6 DEF OnLinkData
    <3> QED
        BY <2>3, <3>1 DEF PathNext
  <2> QED
      BY <2>5, <2>6
<1>2. TickAndAsk => PathNext
    BY DEF TickAndAsk, PathNext
<1>3. RecoveryClock => PathNext
    BY DEF RecoveryClock, PathNext
<1> QED
    BY <1>1, <1>2, <1>3
       DEF RecoveryNext, recoveryVars, SendPayload, Lose, LoseNack, AnswerNack, AdaptHold

\* Recovery starts with nothing in the ring and nothing on the wire.
LEMMA RecoveryInitInv == RecoveryInit => RecoveryInv
<1> SUFFICES ASSUME RecoveryInit PROVE RecoveryInv
    OBVIOUS
<1>1. PathInv
    BY PathInitInv DEF RecoveryInit
<1>2. hold \in Nat
    BY HoldTimesAssumption, HoldMaxAssumption DEF RecoveryInit
<1>3. << >> \in Seq(RingEntries) /\ << >> \in Seq(Frames) /\ DOMAIN << >> = {}
    BY NoEntries
<1>4. RingInv
    BY <1>2, <1>3 DEF RecoveryInit, RingInv, OldestFirst
<1>5. DOMAIN nacks.leg_seq = {}
    BY <1>3 DEF RecoveryInit, PathInit, NewTracker
<1>6. WireInv
    BY <1>3, <1>5, SeqMaxAssumption DEF RecoveryInit, WireInv, Rising, Under, Above
<1> QED
    BY <1>1, <1>4, <1>6 DEF RecoveryInv

\* Every step keeps the ring in order, and what a step puts in it or takes out leaves it
\* within its limits.
LEMMA RingSteps ==
    ASSUME RingInv, WireInv, [RecoveryNext]_recoveryVars
    PROVE  RingInv' /\ (ring' # ring /\ ~ RecoveryClock => RingFresh')
<1> SUFFICES RingInv' /\ (ring' = ring \/ RecoveryClock \/ (hold' = hold /\ Fresh(ring')))
    BY DEF RingFresh, Fresh
<1>1. ASSUME NEW first \in Legs, NEW targets \in SUBSET Legs, SendPayload(targets, first)
      PROVE  RingInv' /\ hold' = hold /\ Fresh(ring')
  <2> DEFINE e == [seq |-> sent, age |-> 0, leg |-> first, resends |-> 0]
  <2>1. sent \in SeqNumbers /\ 0 \in 0 .. MaxResends
      BY <1>1, SeqMaxAssumption, MaxResendsAssumption DEF SendPayload, WireInv, SeqNumbers
  <2>2. e \in RingEntries /\ e.age = 0
      BY <2>1 DEF RingEntries
  <2>3. EvictsTo(ring', Append(ring, e)) /\ hold' = hold
      BY <1>1 DEF SendPayload, Record
  <2> HIDE DEF e
  <2>4. Append(ring, e) \in Seq(RingEntries) /\ OldestFirst(Append(ring, e))
      BY <2>2, Recorded DEF RingInv
  <2>5. ring' \in Seq(RingEntries) /\ OldestFirst(ring') /\ Fresh(ring')
      BY <2>3, <2>4, Evicted DEF RingInv
  <2> QED
      BY <2>3, <2>5 DEF RingInv, OldestFirst
<1>2. ASSUME NEW seq, AnswerNack(seq) PROVE RingInv' /\ hold' = hold /\ Fresh(ring')
  <2>1. hold' = hold /\ (OnNackRefuse(seq) \/ \E avoid : OnNackAnswer(seq, avoid))
      BY <1>2 DEF AnswerNack
  <2>2. ring' \in Seq(RingEntries) /\ OldestFirst(ring') /\ Fresh(ring')
    <3>1. CASE OnNackRefuse(seq)
        BY <3>1, Evicted DEF OnNackRefuse, RingInv
    <3>2. ASSUME NEW avoid, OnNackAnswer(seq, avoid)
          PROVE  ring' \in Seq(RingEntries) /\ OldestFirst(ring') /\ Fresh(ring')
        BY <3>2, Answered
    <3> QED
        BY <2>1, <3>1, <3>2
  <2> QED
      BY <2>1, <2>2 DEF RingInv, OldestFirst
<1>3. ASSUME NEW h \in HoldTimes, AdaptHold(h) PROVE RingInv' /\ ring' = ring
  <2>1. hold' \in Nat /\ ring' = ring
      BY <1>3, HoldTimesAssumption, HoldMaxAssumption DEF AdaptHold, SetHold
  <2> QED
      BY <2>1 DEF RingInv, OldestFirst
<1>4. ASSUME RecoveryClock PROVE RingInv'
    BY <1>4, RingAges DEF RecoveryClock, RingInv, OldestFirst
<1>5. ASSUME ring' = ring, hold' = hold PROVE RingInv'
    BY <1>5 DEF RingInv, OldestFirst
<1>6. TickAndAsk => ring' = ring /\ hold' = hold
    BY DEF TickAndAsk, senderVars
<1>7. \A leg \in Legs : Lose(leg) \/ Arrive(leg) => ring' = ring /\ hold' = hold
    BY DEF Lose, Arrive, senderVars
<1>8. \A seq : LoseNack(seq) => ring' = ring /\ hold' = hold
    BY DEF LoseNack, senderVars
<1>9. UNCHANGED recoveryVars => ring' = ring /\ hold' = hold
    BY DEF recoveryVars, senderVars
<1> QED
    BY <1>1, <1>2, <1>3, <1>4, <1>5, <1>6, <1>7, <1>8, <1>9 DEF RecoveryNext

\* A frame more at the end of a leg.
LEMMA FramePut ==
    ASSUME NEW w \in Seq(Frames), NEW f \in Frames, Rising(w), NEW n \in Nat, Under(w, n),
           f.resend \/ f.seq = n
    PROVE  /\ Append(w, f) \in Seq(Frames) /\ Rising(Append(w, f)) /\ Under(Append(w, f), n + 1)
           /\ f.resend => Under(Append(w, f), n)
           /\ \A m \in Int : Above(w, m) /\ (m < n \/ f.resend) => Above(Append(w, f), m)
<1>1. /\ Append(w, f) \in Seq(Frames) /\ Len(w) \in Nat /\ DOMAIN Append(w, f) = 1 .. Len(w) + 1
      /\ \A i \in 1 .. Len(w) : Append(w, f)[i] = w[i]
      /\ Append(w, f)[Len(w) + 1] = f /\ DOMAIN w = 1 .. Len(w)
    BY AppendProperties
<1>2. \A i \in 1 .. Len(w) : w[i].seq \in Int
  <2>1. \A i \in 1 .. Len(w) : w[i] \in Frames
      BY ElementOfSeq
  <2> QED
      BY <2>1 DEF Frames, SeqNumbers
<1>3. f.seq \in Int
    BY DEF Frames, SeqNumbers
<1>4. Rising(Append(w, f))
    BY <1>1, <1>2, <1>3 DEF Rising, Under
<1>5. Under(Append(w, f), n + 1) /\ (f.resend => Under(Append(w, f), n))
    BY <1>1, <1>2, <1>3 DEF Under
<1>6. \A m \in Int : Above(w, m) /\ (m < n \/ f.resend) => Above(Append(w, f), m)
    BY <1>1, <1>2, <1>3 DEF Above
<1> QED
    BY <1>1, <1>4, <1>5, <1>6

\* A frame less in front of it.
LEMMA FrameTaken ==
    ASSUME NEW w \in Seq(Frames), w # << >>, Rising(w), NEW n \in Nat, Under(w, n)
    PROVE  /\ Head(w) \in Frames /\ Tail(w) \in Seq(Frames) /\ Len(Tail(w)) < Len(w)
           /\ Rising(Tail(w)) /\ Under(Tail(w), n)
           /\ \A m \in Int : Above(w, m) => Above(Tail(w), m)
           /\ ~ Head(w).resend => Head(w).seq < n /\ Above(Tail(w), Head(w).seq)
<1>1. /\ Head(w) \in Frames /\ Tail(w) \in Seq(Frames) /\ Len(w) \in Nat /\ Len(w) > 0
      /\ DOMAIN Tail(w) = 1 .. Len(w) - 1 /\ DOMAIN w = 1 .. Len(w) /\ Len(Tail(w)) = Len(w) - 1
      /\ \A i \in 1 .. Len(w) - 1 : Tail(w)[i] = w[i + 1] /\ i + 1 \in 1 .. Len(w)
      /\ Head(w) = w[1]
    BY HeadTailProperties, EmptySeq
<1>2. \A i \in 1 .. Len(w) : w[i].seq \in Int
  <2>1. \A i \in 1 .. Len(w) : w[i] \in Frames
      BY ElementOfSeq
  <2> QED
      BY <2>1 DEF Frames, SeqNumbers
<1>3. Rising(Tail(w))
  <2> SUFFICES ASSUME NEW i \in 1 .. Len(w) - 1, NEW j \in 1 .. Len(w) - 1, i < j,
                      ~ Tail(w)[i].resend, ~ Tail(w)[j].resend
               PROVE  Tail(w)[i].seq < Tail(w)[j].seq
      BY <1>1 DEF Rising
  <2>1. i + 1 \in DOMAIN w /\ j + 1 \in DOMAIN w /\ i + 1 < j + 1
      BY <1>1
  <2>2. w[i + 1].seq < w[j + 1].seq
      BY <1>1, <2>1 DEF Rising
  <2> QED
      BY <1>1, <2>2
<1>4. Under(Tail(w), n)
    BY <1>1 DEF Under
<1>5. \A m \in Int : Above(w, m) => Above(Tail(w), m)
    BY <1>1 DEF Above
<1>6. ~ Head(w).resend => Head(w).seq < n /\ Above(Tail(w), Head(w).seq)
  <2> SUFFICES ASSUME ~ w[1].resend, NEW i \in 1 .. Len(w) - 1, ~ w[i + 1].resend
               PROVE  w[1].seq < w[i + 1].seq
      BY <1>1 DEF Under, Above
  <2>1. 1 \in DOMAIN w /\ i + 1 \in DOMAIN w /\ 1 < i + 1
      BY <1>1
  <2> QED
      BY <2>1 DEF Rising
<1> QED
    BY <1>1, <1>3, <1>4, <1>5, <1>6

\* What each method of the tracker does to the marks of the legs and to what was asked for.
LEMMA MarksKept ==
    ASSUME NEW t, DOMAIN t = {"pending", "order", "asked", "forgotten_below", "leg_seq", "leg_watch",
                              "max_delay", "max_pending"}
    PROVE  /\ \A S : NoteGap(t, S).leg_seq = t.leg_seq /\ NoteGap(t, S).asked = t.asked
                    /\ DOMAIN NoteGap(t, S) = DOMAIN t
           /\ \A n : ForgetBefore(t, n).leg_seq = t.leg_seq /\ ForgetBefore(t, n).asked \subseteq t.asked
           /\ \A seq, leg : /\ Resolve(t, seq, leg).leg_seq = Marked(t.leg_seq, leg, seq)
                            /\ Resolve(t, seq, leg).asked \subseteq t.asked
                            /\ DOMAIN Resolve(t, seq, leg) = DOMAIN t
           /\ AgedTracker(t).leg_seq = t.leg_seq /\ AgedTracker(t).asked = t.asked
           /\ \A c : /\ SetMaxDelay(Due(t), c).leg_seq = t.leg_seq
                     /\ SetMaxDelay(Due(t), c).asked = t.asked \cup DueNow(t)
<1>1. ASSUME NEW S
      PROVE  NoteGap(t, S).leg_seq = t.leg_seq /\ NoteGap(t, S).asked = t.asked /\ DOMAIN NoteGap(t, S) = DOMAIN t
  <2>1. \E p, q : NoteGap(t, S) = [t EXCEPT !.pending = p, !.order = q]
      BY DEF NoteGap
  <2> QED
      BY <2>1
<1>2. ASSUME NEW n PROVE ForgetBefore(t, n).leg_seq = t.leg_seq /\ ForgetBefore(t, n).asked \subseteq t.asked
    BY DEF ForgetBefore
<1>3. ASSUME NEW seq, NEW leg
      PROVE  /\ Resolve(t, seq, leg).leg_seq = Marked(t.leg_seq, leg, seq)
             /\ Resolve(t, seq, leg).asked \subseteq t.asked
             /\ DOMAIN Resolve(t, seq, leg) = DOMAIN t
    BY DEF Resolve
<1>4. AgedTracker(t).leg_seq = t.leg_seq /\ AgedTracker(t).asked = t.asked
  <2>1. \E p, w : AgedTracker(t) = [t EXCEPT !.pending = p, !.leg_watch = w]
      BY DEF AgedTracker
  <2> QED
      BY <2>1
<1>5. ASSUME NEW c
      PROVE  SetMaxDelay(Due(t), c).leg_seq = t.leg_seq /\ SetMaxDelay(Due(t), c).asked = t.asked \cup DueNow(t)
    BY DEF SetMaxDelay, Due
<1> QED
    BY <1>1, <1>2, <1>3, <1>4, <1>5

\* The mark of a leg after a frame.
LEMMA MarkMoves ==
    ASSUME NEW marks, NEW leg, NEW seq \in Nat, NEW l, \A k \in DOMAIN marks : marks[k] \in Nat
    PROVE  /\ DOMAIN marks \subseteq DOMAIN Marked(marks, leg, seq)
           /\ DOMAIN Marked(marks, leg, seq) \subseteq DOMAIN marks \cup ({leg} \ {NoLeg})
           /\ \/ l \in DOMAIN Marked(marks, leg, seq) /\ Marked(marks, leg, seq)[l] = seq /\ l = leg
              \/ l \in DOMAIN marks /\ Marked(marks, leg, seq)[l] = marks[l]
              \/ l \notin DOMAIN Marked(marks, leg, seq)
<1>1. CASE leg = NoLeg \/ (leg \in DOMAIN marks /\ seq <= marks[leg])
  <2>1. Marked(marks, leg, seq) = marks
      BY <1>1 DEF Marked
  <2> QED
      BY <2>1
<1>2. CASE ~ (leg = NoLeg \/ (leg \in DOMAIN marks /\ seq <= marks[leg]))
  <2>1. Marked(marks, leg, seq) = [k \in DOMAIN marks \cup {leg} |-> IF k = leg THEN seq ELSE marks[k]]
      BY <1>2 DEF Marked
  <2>2. /\ DOMAIN Marked(marks, leg, seq) = DOMAIN marks \cup {leg}
        /\ \A k \in DOMAIN marks \cup {leg} : Marked(marks, leg, seq)[k] = IF k = leg THEN seq ELSE marks[k]
      BY <2>1
  <2>3. leg # NoLeg
      BY <1>2
  <2>4. PICK m : m = Marked(marks, leg, seq)
      OBVIOUS
  <2>5. DOMAIN m = DOMAIN marks \cup {leg}
      BY <2>2, <2>4
  <2>6. l = leg => l \in DOMAIN m /\ m[l] = seq
      BY <2>2, <2>4
  <2>7. l # leg /\ l \in DOMAIN m => l \in DOMAIN marks /\ m[l] = marks[l]
      BY <2>2, <2>4
  <2>8. DOMAIN marks \subseteq DOMAIN m /\ DOMAIN m \subseteq DOMAIN marks \cup ({leg} \ {NoLeg})
      BY <2>3, <2>5
  <2>9. \/ l \in DOMAIN m /\ m[l] = seq /\ l = leg
        \/ l \in DOMAIN marks /\ m[l] = marks[l]
        \/ l \notin DOMAIN m
    <3>1. CASE l = leg
        BY <2>6, <3>1
    <3>2. CASE l # leg
        BY <2>7, <3>2, Zenon
    <3> QED
        BY <3>1, <3>2
  <2> QED
      BY <2>4, <2>8, <2>9
<1> QED
    BY <1>1, <1>2

\* A pass of the loop and the clock move no mark; a pass asks for what is due, and nothing
\* else that is on the receive path asks for anything.
LEMMA AsksOnTick ==
    ASSUME PathInv
    PROVE  /\ \A d : TransportTick(d) => nacks'.leg_seq = nacks.leg_seq /\ nacks'.asked = nacks.asked \cup DueNow(nacks)
           /\ PathClock => nacks'.leg_seq = nacks.leg_seq /\ nacks'.asked = nacks.asked
           /\ \A seq, leg, resend : OnLinkData(seq, leg, resend) =>
                 /\ nacks'.leg_seq = Marked(nacks.leg_seq, IF resend THEN NoLeg ELSE leg, seq)
                 /\ nacks'.asked \subseteq nacks.asked
<1>1. DOMAIN nacks = {"pending", "order", "asked", "forgotten_below", "leg_seq", "leg_watch",
                      "max_delay", "max_pending"}
    BY TrackerFields DEF PathInv, TrackerInv
<1>2. PICK t : t = nacks
    OBVIOUS
<1>3. \A d : TransportTick(d) => nacks' = SetMaxDelay(Due(t), Ceiling[d])
    BY <1>2 DEF TransportTick
<1>4. PathClock => nacks' = AgedTracker(t)
    BY <1>2 DEF PathClock
<1>5. ASSUME NEW seq, NEW leg, NEW resend, OnLinkData(seq, leg, resend)
      PROVE  /\ nacks'.leg_seq = Marked(t.leg_seq, IF resend THEN NoLeg ELSE leg, seq)
             /\ nacks'.asked \subseteq t.asked
  <2> DEFINE who == IF resend THEN NoLeg ELSE leg
  <2>1. PICK u : u = Resolve(t, seq, who)
      OBVIOUS
  <2>2. u.leg_seq = Marked(t.leg_seq, who, seq) /\ u.asked \subseteq t.asked /\ DOMAIN u = DOMAIN t
      BY <1>1, <1>2, <2>1, MarksKept
  <2> HIDE DEF who
  <2>3. nacks' = u \/ \E S, n : nacks' = ForgetBefore(NoteGap(u, S), n)
      BY <1>2, <1>5, <2>1 DEF OnLinkData, NoteGaps, who
  <2>4. ASSUME NEW S, NEW n, nacks' = ForgetBefore(NoteGap(u, S), n)
        PROVE  nacks'.leg_seq = u.leg_seq /\ nacks'.asked \subseteq u.asked
    <3>1. PICK v : v = NoteGap(u, S)
        OBVIOUS
    <3>2. v.leg_seq = u.leg_seq /\ v.asked = u.asked /\ DOMAIN v = DOMAIN t
        BY <1>1, <1>2, <2>2, <3>1, MarksKept
    <3>3. ForgetBefore(v, n).leg_seq = v.leg_seq /\ ForgetBefore(v, n).asked \subseteq v.asked
        BY <1>1, <1>2, <3>2, MarksKept
    <3> QED
        BY <2>4, <3>1, <3>2, <3>3
  <2>5. nacks'.leg_seq = u.leg_seq /\ nacks'.asked \subseteq u.asked
      BY <2>3, <2>4
  <2> QED
      BY <2>2, <2>5 DEF who
<1>6. AgedTracker(t).leg_seq = t.leg_seq /\ AgedTracker(t).asked = t.asked
    BY <1>1, <1>2, MarksKept
<1>7. \A c : /\ SetMaxDelay(Due(t), c).leg_seq = t.leg_seq
            /\ SetMaxDelay(Due(t), c).asked = t.asked \cup DueNow(t)
    BY <1>1, <1>2, MarksKept
<1> QED
    BY <1>2, <1>3, <1>4, <1>5, <1>6, <1>7

\* Every step keeps the order of the wires.
LEMMA WireSteps == ASSUME PathInv, WireInv, [RecoveryNext]_recoveryVars PROVE WireInv'
<1>1. /\ sent \in 0 .. SeqMax + 1 /\ wire \in [Legs -> Seq(Frames)] /\ nack_wire \subseteq SeqNumbers
      /\ \A leg \in Legs : Rising(wire[leg]) /\ Under(wire[leg], sent)
      /\ \A leg \in Legs : leg \in DOMAIN nacks.leg_seq =>
             nacks.leg_seq[leg] < sent /\ Above(wire[leg], nacks.leg_seq[leg])
      /\ SeqMax \in Nat /\ sent \in Nat
    BY SeqMaxAssumption DEF WireInv
<1>2. \A leg \in DOMAIN nacks.leg_seq : nacks.leg_seq[leg] \in Nat /\ leg \in Legs
    BY TrackerFields DEF PathInv, TrackerInv, SeqNumbers
<1>3. ASSUME NEW first \in Legs, NEW targets \in SUBSET Legs, SendPayload(targets, first) PROVE WireInv'
  <2> DEFINE f == [seq |-> sent, resend |-> FALSE]
  <2>1. /\ sent' = sent + 1 /\ sent <= SeqMax /\ nacks' = nacks /\ nack_wire' = nack_wire
        /\ wire' = [leg \in Legs |-> IF leg \in targets THEN Append(wire[leg], f) ELSE wire[leg]]
      BY <1>3 DEF SendPayload, pathVars
  <2>2. f \in Frames /\ f.seq = sent /\ f.resend = FALSE
      BY <1>1, <2>1 DEF Frames, SeqNumbers
  <2> HIDE DEF f
  <2>3. ASSUME NEW leg \in Legs
        PROVE  /\ wire'[leg] \in Seq(Frames) /\ Rising(wire'[leg]) /\ Under(wire'[leg], sent + 1)
               /\ leg \in DOMAIN nacks.leg_seq =>
                     nacks.leg_seq[leg] < sent + 1 /\ Above(wire'[leg], nacks.leg_seq[leg])
    <3>1. wire[leg] \in Seq(Frames) /\ Rising(wire[leg]) /\ Under(wire[leg], sent)
        BY <1>1
    <3>2. CASE leg \in targets
      <4>1. wire'[leg] = Append(wire[leg], f)
          BY <2>1, <3>2
      <4> QED
          BY <1>1, <1>2, <2>2, <3>1, <4>1, FramePut
    <3>3. CASE leg \notin targets
      <4>1. wire'[leg] = wire[leg]
          BY <2>1, <3>3
      <4>2. \A i \in DOMAIN wire[leg] : wire[leg][i].seq \in Int
        <5>1. \A i \in DOMAIN wire[leg] : wire[leg][i] \in Frames
            BY <3>1, ElementOfSeq
        <5> QED
            BY <5>1 DEF Frames, SeqNumbers
      <4>3. Under(wire[leg], sent + 1)
          BY <1>1, <3>1, <4>2 DEF Under
      <4> QED
          BY <1>1, <1>2, <3>1, <4>1, <4>3
    <3> QED
        BY <3>2, <3>3
  <2>4. wire' \in [Legs -> Seq(Frames)]
    <3>1. wire' = [leg \in Legs |-> wire'[leg]]
        BY <2>1
    <3> QED
        BY <2>3, <3>1
  <2> QED
      BY <1>1, <2>1, <2>3, <2>4 DEF WireInv
<1>4. ASSUME NEW leg \in Legs, wire[leg] # << >>, wire' = [wire EXCEPT ![leg] = Tail(@)],
             sent' = sent, nack_wire' = nack_wire,
             nacks'.leg_seq = nacks.leg_seq
             \/ nacks'.leg_seq = Marked(nacks.leg_seq, IF Head(wire[leg]).resend THEN NoLeg ELSE leg,
                                        Head(wire[leg]).seq)
      PROVE  WireInv'
  <2>1. /\ wire[leg] \in Seq(Frames)
        /\ Head(wire[leg]) \in Frames /\ Tail(wire[leg]) \in Seq(Frames)
        /\ Rising(Tail(wire[leg])) /\ Under(Tail(wire[leg]), sent)
        /\ \A m \in Int : Above(wire[leg], m) => Above(Tail(wire[leg]), m)
        /\ ~ Head(wire[leg]).resend =>
              Head(wire[leg]).seq < sent /\ Above(Tail(wire[leg]), Head(wire[leg]).seq)
      BY <1>1, <1>4, FrameTaken
  <2>2. PICK h \in Frames : h = Head(wire[leg])
      BY <2>1
  <2>3. /\ wire' \in [Legs -> Seq(Frames)] /\ wire'[leg] = Tail(wire[leg])
        /\ \A l \in Legs \ {leg} : wire'[l] = wire[l]
      BY <1>1, <1>4, <2>1
  <2>4. \A l \in Legs : Rising(wire'[l]) /\ Under(wire'[l], sent)
      BY <1>1, <2>1, <2>3
  <2>5. \A l \in Legs : l \in DOMAIN nacks.leg_seq =>
             nacks.leg_seq[l] < sent /\ Above(wire'[l], nacks.leg_seq[l])
    <3> SUFFICES ASSUME NEW l \in Legs, l \in DOMAIN nacks.leg_seq
                 PROVE  nacks.leg_seq[l] < sent /\ Above(wire'[l], nacks.leg_seq[l])
        OBVIOUS
    <3>1. nacks.leg_seq[l] < sent /\ Above(wire[l], nacks.leg_seq[l]) /\ nacks.leg_seq[l] \in Int
        BY <1>1, <1>2
    <3>2. CASE l = leg
        BY <2>1, <2>3, <3>1, <3>2
    <3>3. CASE l # leg
        BY <2>3, <3>1, <3>3
    <3> QED
        BY <3>2, <3>3
  <2>6. CASE nacks'.leg_seq = nacks.leg_seq
      BY <1>1, <1>4, <2>3, <2>4, <2>5, <2>6 DEF WireInv
  <2>7. CASE nacks'.leg_seq = Marked(nacks.leg_seq, IF h.resend THEN NoLeg ELSE leg, h.seq)
    <3>1. ASSUME NEW l \in Legs, l \in DOMAIN nacks'.leg_seq
          PROVE  nacks'.leg_seq[l] < sent /\ Above(wire'[l], nacks'.leg_seq[l])
      <4>1. PICK g : g = nacks.leg_seq
          OBVIOUS
      <4>2. PICK who : who = IF h.resend THEN NoLeg ELSE leg
          OBVIOUS
      <4>3. h.seq \in Nat /\ \A k \in DOMAIN g : g[k] \in Nat
          BY <1>2, <4>1 DEF Frames, SeqNumbers
      <4>4. \/ nacks'.leg_seq[l] = h.seq /\ l = who
            \/ l \in DOMAIN g /\ nacks'.leg_seq[l] = g[l]
          BY <2>7, <3>1, <4>1, <4>2, <4>3, MarkMoves
      <4>5. CASE l \in DOMAIN g /\ nacks'.leg_seq[l] = g[l]
          BY <2>5, <4>1, <4>5
      <4>6. CASE nacks'.leg_seq[l] = h.seq /\ l = who
        <5>1. ~ h.resend /\ l = leg
            BY <4>2, <4>6, NoLegAssumption DEF Frames
        <5> QED
            BY <2>1, <2>2, <2>3, <4>6, <5>1
      <4> QED
          BY <4>4, <4>5, <4>6
    <3> QED
        BY <1>1, <1>4, <2>3, <2>4, <3>1 DEF WireInv
  <2> QED
      BY <1>4, <2>2, <2>6, <2>7
<1>5. ASSUME NEW leg \in Legs, Lose(leg) PROVE WireInv'
    BY <1>4, <1>5 DEF Lose, senderVars, pathVars
<1>6. ASSUME NEW leg \in Legs, Arrive(leg) PROVE WireInv'
  <2>1. OnLinkData(Head(wire[leg]).seq, leg, Head(wire[leg]).resend)
      BY <1>6 DEF Arrive
  <2>2. nacks'.leg_seq = Marked(nacks.leg_seq, IF Head(wire[leg]).resend THEN NoLeg ELSE leg, Head(wire[leg]).seq)
      BY <2>1, AsksOnTick
  <2> QED
      BY <1>4, <1>6, <2>2 DEF Arrive, senderVars
<1>7. ASSUME NEW seq \in SeqNumbers, AnswerNack(seq) PROVE WireInv'
  <2>1. sent' = sent /\ nacks' = nacks /\ nack_wire' \subseteq SeqNumbers
      BY <1>1, <1>7 DEF AnswerNack, pathVars
  <2>2. CASE wire' = wire
      BY <1>1, <2>1, <2>2 DEF WireInv
  <2>3. ASSUME NEW leg \in Legs, wire' = [wire EXCEPT ![leg] = Append(@, [seq |-> seq, resend |-> TRUE])]
        PROVE  WireInv'
    <3> DEFINE f == [seq |-> seq, resend |-> TRUE]
    <3>1. f \in Frames /\ f.resend
        BY DEF Frames
    <3>2. wire' = [wire EXCEPT ![leg] = Append(wire[leg], f)]
        BY <2>3
    <3> HIDE DEF f
    <3>3. /\ wire[leg] \in Seq(Frames) /\ Rising(wire[leg]) /\ Under(wire[leg], sent)
        BY <1>1
    <3>4. /\ Append(wire[leg], f) \in Seq(Frames) /\ Rising(Append(wire[leg], f)) /\ Under(Append(wire[leg], f), sent)
          /\ \A m \in Int : Above(wire[leg], m) => Above(Append(wire[leg], f), m)
        BY <1>1, <3>1, <3>3, FramePut
    <3>5. /\ wire' \in [Legs -> Seq(Frames)] /\ wire'[leg] = Append(wire[leg], f)
          /\ \A l \in Legs \ {leg} : wire'[l] = wire[l]
        BY <1>1, <3>2, <3>4
    <3>6. \A l \in Legs : Rising(wire'[l]) /\ Under(wire'[l], sent)
        BY <1>1, <3>4, <3>5
    <3>7. \A l \in Legs : l \in DOMAIN nacks.leg_seq =>
             nacks.leg_seq[l] < sent /\ Above(wire'[l], nacks.leg_seq[l])
      <4> SUFFICES ASSUME NEW l \in Legs, l \in DOMAIN nacks.leg_seq
                   PROVE  nacks.leg_seq[l] < sent /\ Above(wire'[l], nacks.leg_seq[l])
          OBVIOUS
      <4>1. nacks.leg_seq[l] < sent /\ Above(wire[l], nacks.leg_seq[l]) /\ nacks.leg_seq[l] \in Int
          BY <1>1, <1>2
      <4>2. CASE l = leg
          BY <3>4, <3>5, <4>1, <4>2
      <4>3. CASE l # leg
          BY <3>5, <4>1, <4>3
      <4> QED
          BY <4>2, <4>3
    <3> QED
        BY <1>1, <2>1, <3>5, <3>6, <3>7 DEF WireInv
  <2> QED
      BY <1>7, <2>2, <2>3 DEF AnswerNack
<1>8. ASSUME sent' = sent, wire' = wire, nacks'.leg_seq = nacks.leg_seq, nack_wire' \subseteq SeqNumbers PROVE WireInv'
    BY <1>1, <1>8 DEF WireInv
<1>9. ASSUME TickAndAsk PROVE WireInv'
  <2>1. nacks'.leg_seq = nacks.leg_seq
      BY <1>9, AsksOnTick DEF TickAndAsk
  <2>2. DueNow(nacks) \subseteq SeqNumbers
    <3>1. DOMAIN nacks.pending \subseteq SeqNumbers
        BY TrackerFields DEF PathInv, TrackerInv
    <3> QED
        BY <3>1 DEF DueNow
  <2> QED
      BY <1>1, <1>8, <1>9, <2>1, <2>2 DEF TickAndAsk, senderVars
<1>10. ASSUME RecoveryClock PROVE WireInv'
    BY <1>1, <1>8, <1>10, AsksOnTick DEF RecoveryClock
<1>11. \A seq : LoseNack(seq) => WireInv'
    BY <1>1, <1>8 DEF LoseNack, senderVars, pathVars
<1>12. \A h : AdaptHold(h) => WireInv'
    BY <1>1, <1>8 DEF AdaptHold, pathVars
<1>13. UNCHANGED recoveryVars => WireInv'
    BY <1>1, <1>8 DEF recoveryVars, senderVars, pathVars
<1> QED
    BY <1>3, <1>5, <1>6, <1>7, <1>9, <1>10, <1>11, <1>12, <1>13 DEF RecoveryNext

\* Every step keeps recovery's invariant.
LEMMA RecoveryStepInv == ASSUME RecoveryInv, [RecoveryNext]_recoveryVars PROVE RecoveryInv'
<1>1. PathInv' /\ WireInv'
    BY RecoveryStepsPath, PathStepInv, WireSteps DEF RecoveryInv
<1>2. RingInv'
    BY RingSteps DEF RecoveryInv
<1> QED
    BY <1>1, <1>2 DEF RecoveryInv

\* A pass asks, before the ceiling, only for what is on its way on no leg in play.
LEMMA AsksForLost ==
    ASSUME RecoveryInv, [RecoveryNext]_recoveryVars,
           NEW s \in nacks'.asked \ nacks.asked, nacks.pending[s] < nacks.max_delay,
           NEW leg \in Legs, InPlay(leg)
    PROVE  ~ InFlight(leg, s)
<1>1. PathInv /\ WireInv /\ nacks \in Trackers
    BY DEF RecoveryInv, PathInv, TrackerInv
<1>2. s \in DueNow(nacks)
  <2>1. TickAndAsk => s \in DueNow(nacks)
      BY <1>1, AsksOnTick DEF TickAndAsk
  <2>2. ~ RecoveryClock
      BY <1>1, AsksOnTick DEF RecoveryClock
  <2>3. \A l \in Legs : ~ Arrive(l)
      BY <1>1, AsksOnTick DEF Arrive
  <2>4. TickAndAsk
    <3>1. nacks' # nacks
        OBVIOUS
    <3> QED
        BY <2>2, <2>3, <3>1
           DEF RecoveryNext, recoveryVars, SendPayload, Lose, LoseNack, AnswerNack, AdaptHold, pathVars
  <2> QED
      BY <2>1, <2>4
<1>3. PICK j \in 1 .. Visited(nacks) : nacks.order[j] = s
    BY <1>2 DEF DueNow
<1>4. s \in DOMAIN nacks.pending
    BY <1>2 DEF DueNow
<1>5. ~ Blocks(nacks, s)
    BY <1>1, <1>3, VisitedStops
<1>6. ~ MayStillArrive(nacks, s)
    BY <1>4, <1>5 DEF Blocks
<1>7. leg \in DOMAIN nacks.leg_seq /\ ~ (nacks.leg_seq[leg] <= s)
    BY <1>6 DEF InPlay, MayStillArrive
<1> SUFFICES ASSUME InFlight(leg, s) PROVE FALSE
    OBVIOUS
<1>8. PICK i \in DOMAIN wire[leg] : wire[leg][i] = [seq |-> s, resend |-> FALSE]
    BY DEF InFlight
<1>9. nacks.leg_seq[leg] < s
  <2>1. Above(wire[leg], nacks.leg_seq[leg])
      BY <1>1, <1>7 DEF WireInv
  <2>2. wire[leg][i].seq = s /\ ~ wire[leg][i].resend
      BY <1>8
  <2> QED
      BY <2>1, <2>2 DEF Above
<1>10. nacks.leg_seq[leg] \in Int /\ s \in Int
    BY <1>1, <1>2, <1>4, <1>7, TrackerFields DEF SeqNumbers
<1> QED
    BY <1>7, <1>9, <1>10

\* Only an answer puts a frame on the wire that is not new, and then no more often than
\* allowed and on another leg.
LEMMA ResendsBounded ==
    ASSUME RecoveryInv, [RecoveryNext]_recoveryVars,
           NEW leg \in Legs, Len(wire'[leg]) > Len(wire[leg]), sent' = sent
    PROVE  \E i \in DOMAIN ring' :
              /\ ring'[i].seq = wire'[leg][Len(wire'[leg])].seq
              /\ ring'[i].resends \in 1 .. MaxResends
              /\ Cardinality(Legs) > 1 => ring'[i].leg # leg
<1>1. WireInv /\ RingInv /\ sent \in Nat /\ wire \in [Legs -> Seq(Frames)] /\ SeqMax \in Nat
    BY SeqMaxAssumption DEF RecoveryInv, WireInv
<1>2. \A l \in Legs : wire[l] \in Seq(Frames) /\ Len(wire[l]) \in Nat
    BY <1>1
<1>3. wire' # wire
    BY <1>2
<1>4. \A targets, first : ~ SendPayload(targets, first)
    BY <1>1 DEF SendPayload
<1>5. ASSUME NEW l \in Legs, wire[l] # << >>, wire' = [wire EXCEPT ![l] = Tail(@)] PROVE FALSE
  <2>1. wire[l] \in Seq(Frames) /\ Len(Tail(wire[l])) = Len(wire[l]) - 1 /\ Len(Tail(wire[l])) \in Nat
    <3>1. wire[l] \in Seq(Frames) /\ wire[l] # << >>
        BY <1>2, <1>5
    <3>2. Tail(wire[l]) \in Seq(Frames) /\ Len(Tail(wire[l])) = Len(wire[l]) - 1
        BY <3>1, HeadTailProperties
    <3>3. Len(Tail(wire[l])) \in Nat
        BY <3>2
    <3> QED
        BY <3>1, <3>2, <3>3
  <2>2. wire'[l] = Tail(wire[l]) /\ \A k \in Legs \ {l} : wire'[k] = wire[k]
      BY <1>1, <1>5
  <2>3. Len(wire'[leg]) <= Len(wire[leg])
    <3>1. CASE leg = l
      <4>1. PICK n \in Nat : n = Len(wire[l])
          BY <1>2
      <4>2. Len(wire'[l]) = n - 1
          BY <2>1, <2>2, <4>1
      <4> QED
          BY <3>1, <4>1, <4>2
    <3>2. CASE leg # l
        BY <1>2, <2>2, <3>2
    <3> QED
        BY <3>1, <3>2
  <2>4. Len(wire'[leg]) \in Nat
    <3>1. CASE leg = l
        BY <2>1, <2>2, <3>1
    <3>2. CASE leg # l
        BY <1>2, <2>2, <3>2
    <3> QED
        BY <3>1, <3>2
  <2> QED
      BY <1>2, <2>3, <2>4
<1>6. PICK seq \in SeqNumbers : AnswerNack(seq)
    BY <1>3, <1>4, <1>5
       DEF RecoveryNext, recoveryVars, Lose, Arrive, TickAndAsk, LoseNack, AdaptHold, RecoveryClock
<1>7. PICK l \in Legs, avoid \in Legs :
          /\ OnNackAnswer(seq, avoid) /\ ResendLeg(l, avoid)
          /\ wire' = [wire EXCEPT ![l] = Append(@, [seq |-> seq, resend |-> TRUE])]
    BY <1>3, <1>6 DEF AnswerNack
<1> DEFINE f == [seq |-> seq, resend |-> TRUE]
<1>8. wire'[l] = Append(wire[l], f) /\ \A k \in Legs \ {l} : wire'[k] = wire[k]
    BY <1>1, <1>7
<1>9. l = leg
    BY <1>2, <1>8
<1>10. f \in Frames /\ f.seq = seq
    BY DEF Frames
<1> HIDE DEF f
<1>11. wire'[leg][Len(wire'[leg])] = f
    BY <1>2, <1>8, <1>9, <1>10, AppendProperties
<1>12. PICK i \in DOMAIN ring' :
          ring'[i].seq = seq /\ ring'[i].leg = avoid /\ ring'[i].resends \in 1 .. MaxResends
    BY <1>1, <1>7, Answered
<1>13. Cardinality(Legs) > 1 => avoid # leg
  <2>1. Cardinality({avoid}) = 1
      BY FS_Singleton
  <2>2. l # avoid \/ Legs = {avoid}
      BY <1>7 DEF ResendLeg
  <2>3. Legs = {avoid} => Cardinality(Legs) = 1
      BY <2>1
  <2>4. ~ (1 > 1)
      OBVIOUS
  <2> QED
      BY <1>9, <2>2, <2>3, <2>4
<1> QED
    BY <1>10, <1>11, <1>12, <1>13

\* On legs that keep their order a number is asked for before its ceiling only when it is on
\* its way on no leg that still delivers (NackTracker.due): skew alone costs no resend.
THEOREM OnlyTheLostAreAskedFor == RecoverySpec => AsksOnlyForTheLost
<1>1. RecoveryInit => RecoveryInv
    BY RecoveryInitInv
<1>2. RecoveryInv /\ [RecoveryNext]_recoveryVars =>
        /\ RecoveryInv'
        /\ [ \A s \in nacks'.asked \ nacks.asked :
               nacks.pending[s] < nacks.max_delay =>
                   \A leg \in Legs : InPlay(leg) => ~ InFlight(leg, s) ]_recoveryVars
    BY RecoveryStepInv, AsksForLost
<1> QED
    BY <1>1, <1>2, PTL DEF RecoverySpec, AsksOnlyForTheLost

\* A resend takes another leg than the packet did, and no number is resent more often than
\* allowed, however often it is asked for (RetransmitBuffer.on_nack, _answer_nack).
THEOREM ResendsStayBounded == RecoverySpec => ResendsAreBounded
<1>1. RecoveryInit => RecoveryInv
    BY RecoveryInitInv
<1>2. RecoveryInv /\ [RecoveryNext]_recoveryVars =>
        /\ RecoveryInv'
        /\ [ \A leg \in Legs : Len(wire'[leg]) > Len(wire[leg]) /\ sent' = sent =>
               \E i \in DOMAIN ring' :
                   /\ ring'[i].seq = wire'[leg][Len(wire'[leg])].seq
                   /\ ring'[i].resends \in 1 .. MaxResends
                   /\ Cardinality(Legs) > 1 => ring'[i].leg # leg ]_recoveryVars
    BY RecoveryStepInv, ResendsBounded
<1> QED
    BY <1>1, <1>2, PTL DEF RecoverySpec, ResendsAreBounded

\* Eviction at the front alone keeps the whole ring within the hold and the limit, whatever
\* is recorded or answered (RetransmitBuffer._evict).
THEOREM RingAlwaysFresh == RecoverySpec => RingStaysFresh
<1>1. RecoveryInit => RecoveryInv
    BY RecoveryInitInv
<1>2. RecoveryInv /\ [RecoveryNext]_recoveryVars =>
        RecoveryInv' /\ [ ring' # ring /\ ~ RecoveryClock => RingFresh' ]_recoveryVars
    BY RecoveryStepInv, RingSteps DEF RecoveryInv
<1> QED
    BY <1>1, <1>2, PTL DEF RecoverySpec, RingStaysFresh

=============================================================================
