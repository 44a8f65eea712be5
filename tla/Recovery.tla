------------------------------ MODULE Recovery ------------------------------
(***************************************************************************)
(* Loss recovery end to end, one direction of a bond: the sending          *)
(* transport with its ring, legs that keep their order but lose frames,    *)
(* the receive path, and the NACKs that travel back.                       *)
(*                                                                         *)
(* The network is not part of the repository.  It is modelled as the code  *)
(* relies on it: frames put on one leg arrive in the order they were put   *)
(* there or not at all, and legs know nothing of each other.  NACKs may be *)
(* lost or overtake one another.                                           *)
(***************************************************************************)
EXTENDS ReceivePath, RetransmitBuffer

CONSTANT HoldTimes       \* the values hold_ms takes

ASSUME HoldTimesAssumption == HoldTimes \subseteq 0 .. HoldMax

VARIABLES
    sent,           \* the scheduler's next sequence number
    wire,           \* frames in flight, per leg
    nack_wire       \* numbers asked for, in flight

senderVars == <<sent, ring, hold>>
recoveryVars == <<pathVars, senderVars, wire, nack_wire>>

RecoveryInit ==
    /\ PathInit
    /\ sent = 0
    /\ ring = << >>
    /\ hold \in HoldTimes
    /\ wire = [leg \in Legs |-> << >>]
    /\ nack_wire = {}

-----------------------------------------------------------------------------
\* send_payload: a frame goes out on one leg, or a copy on each of several.
\* The ring remembers the first target.
SendPayload(targets, first) ==
    /\ sent <= SeqMax
    /\ first \in targets
    /\ Record(sent, first)
    /\ wire' = [leg \in Legs |-> IF leg \in targets
                    THEN Append(wire[leg], [seq |-> sent, resend |-> FALSE])
                    ELSE wire[leg]]
    /\ sent' = sent + 1
    /\ UNCHANGED <<pathVars, hold, nack_wire>>

Lose(leg) ==
    /\ wire[leg] # << >>
    /\ wire' = [wire EXCEPT ![leg] = Tail(@)]
    /\ UNCHANGED <<pathVars, senderVars, nack_wire>>

\* run_once hands one datagram of a leg to _on_link_data.
Arrive(leg) ==
    /\ wire[leg] # << >>
    /\ OnLinkData(Head(wire[leg]).seq, leg, Head(wire[leg]).resend)
    /\ wire' = [wire EXCEPT ![leg] = Tail(@)]
    /\ UNCHANGED <<senderVars, nack_wire>>

\* tick: _send_nack for each number due.
TickAndAsk ==
    /\ \E d \in Deadlines : TransportTick(d)
    /\ nack_wire' = nack_wire \cup DueNow(nacks)
    /\ UNCHANGED <<senderVars, wire>>

LoseNack(seq) ==
    /\ seq \in nack_wire
    /\ nack_wire' = nack_wire \ {seq}
    /\ UNCHANGED <<pathVars, senderVars, wire>>

\* Mutant: the answer goes back down the leg that lost the packet.
ResendLegSame(leg, avoid) == leg = avoid

\* The legs a resend may take: any but the one to avoid, unless it is alone.
ResendLeg(leg, avoid) == leg # avoid \/ Legs = {avoid}

\* _answer_nack
AnswerNack(seq) ==
    /\ seq \in nack_wire
    /\ nack_wire' = nack_wire \ {seq}
    /\ \/ /\ OnNackRefuse(seq)
          /\ UNCHANGED wire
       \/ \E leg, avoid \in Legs :
            /\ OnNackAnswer(seq, avoid)
            /\ ResendLeg(leg, avoid)
            /\ wire' = [wire EXCEPT ![leg] = Append(@, [seq |-> seq, resend |-> TRUE])]
    /\ UNCHANGED <<pathVars, sent, hold>>

\* The sender's own adaptive recovery moves its hold.
AdaptHold(h) ==
    /\ SetHold(h)
    /\ UNCHANGED <<pathVars, sent, wire, nack_wire>>

RecoveryClock ==
    /\ PathClock
    /\ RingClock
    /\ UNCHANGED <<sent, hold, wire, nack_wire>>

RecoveryNext ==
    \/ \E targets \in SUBSET Legs, first \in Legs : SendPayload(targets, first)
    \/ \E leg \in Legs : Lose(leg) \/ Arrive(leg)
    \/ TickAndAsk
    \/ \E seq \in SeqNumbers : LoseNack(seq) \/ AnswerNack(seq)
    \/ \E h \in HoldTimes : AdaptHold(h)
    \/ RecoveryClock

RecoverySpec == RecoveryInit /\ [][RecoveryNext]_recoveryVars

-----------------------------------------------------------------------------
(***************************************************************************)
(* Properties.                                                             *)
(***************************************************************************)

InFlight(leg, seq) ==
    \E i \in DOMAIN wire[leg] : wire[leg][i] = [seq |-> seq, resend |-> FALSE]

InPlay(leg) ==
    leg \in DOMAIN nacks.leg_seq /\ Watch(nacks)[leg].age <= nacks.max_delay

\* The forward-progress rule is sound on legs that keep their order: a number
\* asked for before the ceiling is on its way on no leg that has been heard
\* from and has not stopped delivering.  Skew alone never costs a resend.
AsksOnlyForTheLost ==
    [][ \A s \in nacks'.asked \ nacks.asked :
            nacks.pending[s] < nacks.max_delay =>
                \A leg \in Legs : InPlay(leg) => ~ InFlight(leg, s) ]_recoveryVars

\* A resend takes another leg than the one that lost the packet, and no number
\* is put on the wire more than MaxResends extra times, however often it is
\* asked for.
ResendsAreBounded ==
    [][ \A leg \in Legs : Len(wire'[leg]) > Len(wire[leg]) /\ sent' = sent =>
            \E i \in DOMAIN ring' :
                /\ ring'[i].seq = wire'[leg][Len(wire'[leg])].seq
                /\ ring'[i].resends \in 1 .. MaxResends
                /\ Cardinality(Legs) > 1 => ring'[i].leg # leg ]_recoveryVars

\* What a sender records or answers leaves the ring within both its limits.
RingStaysFresh ==
    [][ ring' # ring /\ ~ RecoveryClock => RingFresh' ]_recoveryVars

=============================================================================
