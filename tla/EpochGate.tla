----------------------------- MODULE EpochGate -----------------------------
(***************************************************************************)
(* The epoch gate of both ends of a bond (_pass_epoch_gate and             *)
(* _adopt_epoch of travel/bond-agent/zippie/transport.py) with the frames  *)
(* that carry an epoch across: data, keepalive probes and their replies.   *)
(*                                                                         *)
(* Either process may restart at any time and comes back with a new epoch  *)
(* and nothing remembered; travel also comes back on a new source address, *)
(* which home learns only from a frame that passed its gate.               *)
(*                                                                         *)
(* The network (not part of the repository) loses, delays and reorders     *)
(* frames, and carries MaxInFlight of them: with one more another is lost. *)
(* Probe ids grow within one incarnation and start over with the next;     *)
(* here a probe takes any id that is not outstanding, so a reply to an     *)
(* earlier incarnation may carry the id of a live probe.                   *)
(***************************************************************************)
EXTENDS Integers, Sequences, FiniteSets, SequencesExt

CONSTANTS
    MaxRestarts,    \* bound: how often each end may restart
    TakeoverIdle,   \* EPOCH_TAKEOVER_IDLE_S
    MaxOutstanding, \* _KA_OUTSTANDING_MAX
    ProbeIds,
    Probers,        \* the ends that probe: home does only with home_downstream
    MaxInFlight     \* bound: frames in flight

ASSUME MaxRestartsAssumption == MaxRestarts \in Nat
ASSUME TakeoverIdleAssumption == TakeoverIdle \in Nat
ASSUME MaxOutstandingAssumption == MaxOutstanding \in Nat \ {0}
ASSUME MaxInFlightAssumption == MaxInFlight \in Nat \ {0}
ASSUME ProbersAssumption == Probers \subseteq {"home", "travel"}

Ends == {"home", "travel"}
Peer(e) == IF e = "home" THEN "travel" ELSE "home"

None == -1

VARIABLES
    epoch,          \* _epoch: which incarnation each end is
    peer_epoch,     \* _peer_epoch
    quiet,          \* time since _last_good_frame
    outstanding,    \* _ka_sent: probe ids, oldest first
    remote,         \* the travel incarnation home sends to (its address)
    net             \* frames in flight

vars == <<epoch, peer_epoch, quiet, outstanding, remote, net>>

Epochs == 0 .. MaxRestarts

\* addr is the travel incarnation at the far end of the frame: the one that
\* sent it to home, or the one home sends it to.
Frames == [to : Ends, kind : {"data", "probe", "reply"}, epoch : Epochs,
           id : ProbeIds \cup {None}, addr : Epochs]

TypeOK ==
    /\ epoch \in [Ends -> Epochs]
    /\ peer_epoch \in [Ends -> Epochs \cup {None}]
    /\ quiet \in [Ends -> 0 .. TakeoverIdle + 1]
    /\ outstanding \in [Ends -> Seq(ProbeIds)]
    /\ \A e \in Ends : Len(outstanding[e]) <= MaxOutstanding
    /\ remote \in Epochs \cup {None}
    /\ net \subseteq Frames

Init ==
    /\ epoch = [e \in Ends |-> 0]
    /\ peer_epoch = [e \in Ends |-> None]
    /\ quiet = [e \in Ends |-> 0]
    /\ outstanding = [e \in Ends |-> << >>]
    /\ remote = None
    /\ net = {}

-----------------------------------------------------------------------------
\* _send_on: travel sends from its own address, home to the one it knows.
Address(e) == IF e = "travel" THEN epoch["travel"] ELSE remote

\* Travel dials out; home sends where a frame came from.
CanSend(e) == Address(e) # None

Frame(e, kind, id) ==
    [to |-> Peer(e), kind |-> kind, epoch |-> epoch[e], id |-> id, addr |-> Address(e)]

\* The network after a frame is sent: a full one loses some other frame.
Put(fs, f) ==
    {kept \cup {f} : kept \in
        IF Cardinality(fs) < MaxInFlight THEN {fs} ELSE {fs \ {g} : g \in fs}}

SendData(e) ==
    /\ CanSend(e)
    /\ net' \in Put(net, Frame(e, "data", None))
    /\ UNCHANGED <<epoch, peer_epoch, quiet, outstanding, remote>>

\* A probe older than MaxOutstanding newer ones is given up as lost.
Newest(probes) == IF Len(probes) > MaxOutstanding THEN Tail(probes) ELSE probes

\* send_keepalives
SendProbe(e) ==
    /\ CanSend(e)
    /\ \E id \in ProbeIds :
        /\ id \notin ToSet(outstanding[e])
        /\ net' \in Put(net, Frame(e, "probe", id))
        /\ outstanding' = [outstanding EXCEPT ![e] = Newest(Append(@, id))]
    /\ UNCHANGED <<epoch, peer_epoch, quiet, remote>>

-----------------------------------------------------------------------------
Idle(e) == peer_epoch[e] = None \/ quiet[e] > TakeoverIdle

\* A reply to a probe this end has outstanding.
Answered(e, f) == f.kind = "reply" /\ f.id \in ToSet(outstanding[e])

\* Mutant: only data may claim a restart (the code before #334).
AdoptsDataOnly(e, f) == peer_epoch[e] = None \/ (f.kind = "data" /\ Idle(e))

\* Mutant: a restart is believed without waiting for the stream to go quiet.
AdoptsAtOnce(e, f) == peer_epoch[e] = None \/ f.kind = "data" \/ Answered(e, f)

\* _adopt_epoch
Adopts(e, f) == peer_epoch[e] = None \/ ((f.kind = "data" \/ Answered(e, f)) /\ Idle(e))

Passes(e, f) == f.epoch = peer_epoch[e] \/ Adopts(e, f)

\* _note_keepalive_reply: the answered probe and all older ones are settled.
Settled(probes, id) ==
    IF id \in ToSet(probes)
    THEN LET i == CHOOSE j \in DOMAIN probes : probes[j] = id
         IN  SubSeq(probes, i + 1, Len(probes))
    ELSE probes

\* The address a reply goes to: home has just roamed to the frame's source.
ReplyTo(e, f) ==
    [to |-> Peer(e), kind |-> "reply", epoch |-> epoch[e], id |-> f.id, addr |-> f.addr]

\* _roam_link: home alone follows the source of what it hears.
Roamed(e, f) == IF e = "home" THEN f.addr ELSE remote

\* _on_link_data up to the data path: gate, roam, credit, answer.
ReceiveGood(f) ==
    /\ f \in net
    /\ Passes(f.to, f)
    /\ peer_epoch' = [peer_epoch EXCEPT ![f.to] = f.epoch]
    /\ quiet' = [quiet EXCEPT ![f.to] = 0]
    /\ remote' = Roamed(f.to, f)
    /\ outstanding' = IF f.kind = "reply"
                      THEN [outstanding EXCEPT ![f.to] = Settled(@, f.id)]
                      ELSE outstanding
    /\ net' \in IF f.kind = "probe" THEN Put(net \ {f}, ReplyTo(f.to, f)) ELSE {net \ {f}}
    /\ UNCHANGED epoch

\* Mutant: home follows the source before it asks whose frame it is.
DropStrangerRoams(f) ==
    /\ f \in net
    /\ ~ Passes(f.to, f)
    /\ net' = net \ {f}
    /\ remote' = Roamed(f.to, f)
    /\ UNCHANGED <<epoch, peer_epoch, quiet, outstanding>>

DropStranger(f) ==
    /\ f \in net
    /\ ~ Passes(f.to, f)
    /\ net' = net \ {f}
    /\ UNCHANGED <<epoch, peer_epoch, quiet, outstanding, remote>>

\* What home sends to an address travel no longer has cannot arrive.
Reachable(f) == f.to = "travel" => f.addr = epoch["travel"]

Receive(f) == Reachable(f) /\ (ReceiveGood(f) \/ DropStranger(f))

Lose(f) ==
    /\ f \in net
    /\ net' = net \ {f}
    /\ UNCHANGED <<epoch, peer_epoch, quiet, outstanding, remote>>

-----------------------------------------------------------------------------
\* The process starts again, with nothing of Transport.__init__'s remembered.
Restart(e) ==
    /\ epoch[e] < MaxRestarts
    /\ epoch' = [epoch EXCEPT ![e] = @ + 1]
    /\ peer_epoch' = [peer_epoch EXCEPT ![e] = None]
    /\ quiet' = [quiet EXCEPT ![e] = 0]
    /\ outstanding' = [outstanding EXCEPT ![e] = << >>]
    /\ remote' = IF e = "home" THEN None ELSE remote
    /\ UNCHANGED net

ClockStep ==
    /\ quiet' = [e \in Ends |-> IF quiet[e] <= TakeoverIdle THEN quiet[e] + 1 ELSE quiet[e]]
    /\ UNCHANGED <<epoch, peer_epoch, outstanding, remote, net>>

Next ==
    \/ \E e \in Ends : SendData(e) \/ Restart(e)
    \/ \E e \in Probers : SendProbe(e)
    \/ \E f \in net : Receive(f) \/ Lose(f)
    \/ ClockStep

Spec == Init /\ [][Next]_vars

-----------------------------------------------------------------------------
\* Time passes, both loops run, and travel's WireGuard keeps sending its
\* persistent keepalive.  A leg that is not dead lets through, again and again,
\* travel's data, and a probe and its reply within MaxOutstanding probes.
Fresh(f) == f.kind \in {"probe", "reply"} =>
                f.id \in ToSet(outstanding[IF f.kind = "reply" THEN f.to ELSE Peer(f.to)])

Through(to, kind) ==
    \E f \in net : f.to = to /\ f.kind = kind /\ f.epoch = epoch[Peer(to)] /\ Fresh(f) /\ Receive(f)

Fairness ==
    /\ WF_vars(ClockStep)
    /\ WF_vars(SendData("travel"))
    /\ SF_vars(Through("home", "data"))
    /\ \A e \in Probers :
        /\ WF_vars(SendProbe(e))
        /\ SF_vars(Through(Peer(e), "probe"))
        /\ SF_vars(Through(e, "reply"))

FairSpec == Spec /\ Fairness

-----------------------------------------------------------------------------
\* The addresses home sends to belong to the travel incarnation whose stream
\* home is on: a frame the gate refuses never redirects its replies.
RepliesFollowStream == remote = peer_epoch["home"]

\* The state of the gate: its types, and replies that follow the stream.
GateInStep == TypeOK /\ RepliesFollowStream

\* A stream that is heard is not given up: while an end is on its live peer's
\* stream and heard it within the takeover window, no frame in flight from an
\* earlier incarnation moves it off.
HeardStreamStays ==
    [][\A e \in Ends :
        /\ peer_epoch[e] = epoch[Peer(e)]
        /\ quiet[e] <= TakeoverIdle
        /\ epoch' = epoch
        => peer_epoch'[e] = peer_epoch[e]]_vars

Agreed == \A e \in Ends : peer_epoch[e] = epoch[Peer(e)]

\* However the two ends restart, and whichever of them, each ends up on the
\* other's stream for good: no restart wedges the bond (#334).
Reconverges == <>[]Agreed

=============================================================================
