-------------------------- MODULE RetransmitBuffer --------------------------
(***************************************************************************)
(* The sender's ring of recent packets (class RetransmitBuffer of          *)
(* travel/bond-agent/zippie/retransmit.py).  An entry is the number, the   *)
(* time since it was sent, the leg it went out on and how often it was     *)
(* resent; the ring is in the order of sending.                            *)
(***************************************************************************)
EXTENDS Integers, Sequences

CONSTANTS
    HoldMax,        \* the longest hold_ms in use
    MaxPackets,     \* max_packets
    MaxResends      \* max_resends_per_seq

ASSUME HoldMaxAssumption == HoldMax \in Nat
ASSUME MaxPacketsAssumption == MaxPackets \in Nat
ASSUME MaxResendsAssumption == MaxResends \in Nat

VARIABLES
    ring,           \* _ring
    hold            \* config.hold_ms

\* An entry the loop of _evict removes from the front of r.
Evictable(r) == r[1].age > hold \/ Len(r) > MaxPackets

\* Mutant: eviction trims to the packet limit only.
EvictsByCount(kept, r) ==
    \E i \in 0 .. Len(r) :
        /\ kept = SubSeq(r, i + 1, Len(r))
        /\ \A j \in 0 .. i - 1 : Len(r) - j > MaxPackets
        /\ Len(kept) <= MaxPackets

\* _evict: entries leave at the front while one is there to remove.
EvictsTo(kept, r) ==
    \E i \in 0 .. Len(r) :
        /\ kept = SubSeq(r, i + 1, Len(r))
        /\ \A j \in 0 .. i - 1 : Evictable(SubSeq(r, j + 1, Len(r)))
        /\ kept # << >> => ~ Evictable(kept)

\* record
Record(seq, leg) ==
    EvictsTo(ring', Append(ring, [seq |-> seq, age |-> 0, leg |-> leg, resends |-> 0]))

\* on_nack for an entry that may be answered: the count goes up in place.
Resent(r, i) == [r EXCEPT ![i].resends = @ + 1]

Answerable(r, i, seq) == r[i].seq = seq /\ r[i].resends < MaxResends

\* on_nack with an answer; the leg returned is the one to avoid.
OnNackAnswer(seq, avoid) ==
    \E kept \in {SubSeq(ring, i, Len(ring)) : i \in 1 .. Len(ring)} :
        /\ EvictsTo(kept, ring)
        /\ \E i \in DOMAIN kept :
            /\ Answerable(kept, i, seq)
            /\ avoid = kept[i].leg
            /\ ring' = Resent(kept, i)

\* on_nack without one: expired, never sent, or asked for too often.
OnNackRefuse(seq) ==
    /\ EvictsTo(ring', ring)
    /\ ~ \E i \in DOMAIN ring' : Answerable(ring', i, seq)

\* set_hold_ms
SetHold(h) == hold' = h /\ UNCHANGED ring

RingClock ==
    ring' = [i \in DOMAIN ring |->
                [ring[i] EXCEPT !.age = IF @ <= HoldMax THEN @ + 1 ELSE @]]

\* Eviction only looks at the front, yet nothing outlives the hold or exceeds
\* the limit: the entries are in order of age, which an answered NACK keeps by
\* updating its entry in place.
RingFresh == Len(ring) <= MaxPackets /\ \A i \in DOMAIN ring : ring[i].age <= hold

=============================================================================
