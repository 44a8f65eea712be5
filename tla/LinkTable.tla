------------------------------ MODULE LinkTable ------------------------------
(***************************************************************************)
(* The transport links of the packet datapath: the agent's record of them  *)
(* (BondAgent._allocate_transport_pid, sync_transport, _reconcile_link,    *)
(* _drop_transport_path, travel/bond-agent/zippie/agent.py) and the links  *)
(* themselves (Transport.add_link, remove_link, forget_link,               *)
(* send_keepalives, _note_keepalive_reply, transport.py).                  *)
(*                                                                         *)
(* The control thread works through its legs one by one; the transport     *)
(* thread takes replies between any two of its steps, and within           *)
(* remove_link, which drops the round trip time before it takes the lock.  *)
(* What is measured of a link is abstracted to the leg it was measured on. *)
(***************************************************************************)
EXTENDS Integers, FiniteSets

CONSTANTS
    LinkLegs,        \* names a leg may have
    Devices,         \* interfaces
    Homes,           \* addresses home may have
    Relayed,         \* legs with a relay_endpoint, such as a phone's
    LanDevices,      \* interfaces whose address lies in a network of lan_endpoints
    MaxPathId,       \* MAX_PATH_ID
    Nobody

ASSUME LinkAssumption ==
    /\ MaxPathId \in Nat /\ Homes # {}
    /\ Relayed \subseteq LinkLegs /\ LanDevices \subseteq Devices
    /\ Nobody \notin LinkLegs \cup Devices \cup Homes

Pids == 0 .. MaxPathId
NoPid == -1

VARIABLES
    roster,          \* names of self.paths
    device,          \* path.interface of each, Nobody when None
    verdict,         \* path.state: "down" or "alive"
    transport_ids,   \* _transport_ids, NoPid when absent
    pid_owner,       \* _pid_owner
    transport_links, \* _transport_links
    link_remotes,    \* _link_remotes
    todo,            \* legs sync_transport has yet to reconcile
    gated,           \* tier_legs of this pass
    carrying,        \* carrying_legs of this pass
    home,            \* _resolve_home_ip of this pass
    closing,         \* the pid whose remove_link holds on, NoPid when none
    links,           \* Transport._links with an open socket: [leg, device, remote]
    healthy,         \* paths of the scheduler that may carry
    heard,           \* _link_rx: "never", "fresh" or "stale"
    rtt_of,          \* whose round trip time is in _link_rtt
    loss_of,         \* whose outcomes are in _ka_loss
    sent_on          \* whose probes are in _ka_sent

agentVars == <<roster, device, verdict, transport_ids, pid_owner, transport_links, link_remotes>>
passVars == <<todo, gated, carrying, home>>
peerVars == <<links, healthy, heard, rtt_of, loss_of, sent_on>>
linkVars == <<agentVars, passVars, closing, peerVars>>

NoLink == [leg |-> Nobody, device |-> Nobody, remote |-> Nobody]

LinkInit ==
    /\ roster = {}
    /\ device = [l \in LinkLegs |-> Nobody]
    /\ verdict = [l \in LinkLegs |-> "down"]
    /\ transport_ids = [l \in LinkLegs |-> NoPid]
    /\ pid_owner = [i \in Pids |-> Nobody]
    /\ transport_links = {}
    /\ link_remotes = [i \in Pids |-> Nobody]
    /\ todo = {} /\ gated = {} /\ carrying = {} /\ home = Nobody
    /\ closing = NoPid
    /\ links = [i \in Pids |-> NoLink]
    /\ healthy = {}
    /\ heard = [i \in Pids |-> "never"]
    /\ rtt_of = [i \in Pids |-> Nobody]
    /\ loss_of = [i \in Pids |-> {}]
    /\ sent_on = [i \in Pids |-> {}]

-----------------------------------------------------------------------------
Between == todo = {} /\ closing = NoPid

\* sync_transport goes on with the legs in rest; its locals go when it returns.
GoesOn(rest) ==
    /\ todo' = rest
    /\ gated' = IF rest = {} THEN {} ELSE gated
    /\ carrying' = IF rest = {} THEN {} ELSE carrying
    /\ home' = IF rest = {} THEN Nobody ELSE home

\* remove_link up to its lock: what it keys by path id goes, the loss ring stays.
StartRemove(i) ==
    /\ links' = [links EXCEPT ![i] = NoLink]
    /\ heard' = [heard EXCEPT ![i] = "never"]
    /\ rtt_of' = [rtt_of EXCEPT ![i] = Nobody]
    /\ closing' = i
    /\ UNCHANGED <<healthy, loss_of, sent_on>>

\* remove_link under its lock.
FinishRemove ==
    /\ closing # NoPid
    /\ sent_on' = [sent_on EXCEPT ![closing] = {}]
    /\ healthy' = healthy \ {closing}
    /\ closing' = NoPid
    /\ UNCHANGED <<agentVars, passVars, links, heard, rtt_of, loss_of>>

\* The agent's half of _drop_link and of _drop_transport_path.
Forgotten(i) ==
    /\ transport_links' = transport_links \ {i}
    /\ link_remotes' = [link_remotes EXCEPT ![i] = Nobody]

\* reconcile_dynamic: a leg is announced.
LegAppears(l) ==
    /\ Between /\ l \notin roster
    /\ roster' = roster \cup {l}
    /\ UNCHANGED <<device, verdict, transport_ids, pid_owner, transport_links, link_remotes,
                   passVars, closing, peerVars>>

\* reconcile_dynamic: a leg expires, and its link is dropped.
Expire(l) ==
    LET i == transport_ids[l]
    IN  /\ Between /\ l \in roster
        /\ roster' = roster \ {l}
        /\ device' = [device EXCEPT ![l] = Nobody]
        /\ verdict' = [verdict EXCEPT ![l] = "down"]
        /\ transport_ids' = [transport_ids EXCEPT ![l] = NoPid]
        /\ IF i \in transport_links
           THEN Forgotten(i) /\ StartRemove(i)
           ELSE UNCHANGED <<transport_links, link_remotes, closing, peerVars>>
        /\ UNCHANGED <<pid_owner, passVars>>

\* match_interfaces: a leg is on a device, or on none.
Match(l, d) ==
    /\ Between /\ l \in roster /\ d # device[l]
    /\ device' = [device EXCEPT ![l] = d]
    /\ UNCHANGED <<roster, verdict, transport_ids, pid_owner, transport_links, link_remotes,
                   passVars, closing, peerVars>>

\* _probe_packet_leg: the states a leg may be given.  One that is up and one that
\* is degraded are both alive.
Judged(l) ==
    LET i == transport_ids[l]
        linked == i \in transport_links
    IN  CASE device[l] = Nobody \/ (linked /\ heard[i] # "fresh") -> {"down"}
          [] device[l] # Nobody /\ ~linked -> {"alive"}
          [] device[l] # Nobody /\ linked /\ heard[i] = "fresh" ->
                IF rtt_of[i] = Nobody THEN {"alive"} ELSE {"alive", "down"}

\* tier_legs, all legs being of one tier.
LinkTierLegs(v) ==
    LET usable == {l \in roster : device[l] # Nobody}
        alive == {l \in usable : v[l] # "down"}
    IN  IF alive # {} THEN alive ELSE usable

\* packet_mode_legs: what shedding keeps of the tier, all of it if it kept none.
PacketModeLegs(v, kept) == IF kept = {} THEN LinkTierLegs(v) ELSE kept

\* probe_paths, the gates of the policy, and the start of sync_transport.
StartPass(v, kept, h) ==
    /\ Between /\ roster # {}
    /\ verdict' = v
    /\ gated' = LinkTierLegs(v)
    /\ carrying' = PacketModeLegs(v, kept)
    /\ home' = h
    /\ todo' = roster
    /\ UNCHANGED <<roster, device, transport_ids, pid_owner, transport_links, link_remotes,
                   closing, peerVars>>

\* _allocate_transport_pid: the lowest id no live leg holds.
LowestFree(l) ==
    LET taken == {transport_ids[m] : m \in LinkLegs}
    IN  CHOOSE i \in 0 .. MaxPathId + 1 : i \notin taken /\ \A j \in 0 .. i - 1 : j \in taken

\* Mutant: a recycled id keeps what was measured under it.
ForgetNothing(i, owner) == loss_of

\* forget_link, when the id had another owner.
Forget(i, owner) ==
    IF pid_owner[i] \in {Nobody, owner} THEN loss_of ELSE [loss_of EXCEPT ![i] = {}]

\* The next leg has no id yet: it gets one, or there is none left and the pass
\* ends with an error.
Allocate(l) ==
    /\ l \in todo /\ closing = NoPid /\ transport_ids[l] = NoPid
    /\ LET i == LowestFree(l)
       IN  IF i > MaxPathId
           THEN /\ GoesOn({})
                /\ UNCHANGED <<transport_ids, pid_owner, loss_of>>
           ELSE /\ transport_ids' = [transport_ids EXCEPT ![l] = i]
                /\ pid_owner' = [pid_owner EXCEPT ![i] = l]
                /\ loss_of' = Forget(i, l)
                /\ UNCHANGED passVars
    /\ UNCHANGED <<roster, device, verdict, transport_links, link_remotes, closing, links, healthy, heard, rtt_of, sent_on>>

\* lan_home_endpoint: home's own address on the network the leg is on.
LanHomeEndpoint(l, default) == IF device[l] \in LanDevices THEN "lan" ELSE default

\* _leg_remote: a relayed leg dials its relay, any other one home.
LegRemote(l) == IF l \in Relayed THEN "relay" ELSE LanHomeEndpoint(l, home)

\* _reconcile_link: a leg that may not be a link, or whose home moved, is dropped.
Usable(l) == l \in gated /\ device[l] # Nobody
Drop(l) ==
    LET i == transport_ids[l]
    IN  /\ l \in todo /\ closing = NoPid /\ i \in transport_links
        /\ ~Usable(l) \/ link_remotes[i] # LegRemote(l)
        /\ Forgotten(i) /\ StartRemove(i)
        /\ GoesOn(IF Usable(l) THEN todo ELSE todo \ {l})
        /\ UNCHANGED <<roster, device, verdict, transport_ids, pid_owner>>

\* _reconcile_link: a leg that is no link and may not be one.
Skip(l) ==
    /\ l \in todo /\ closing = NoPid
    /\ transport_ids[l] \in Pids \ transport_links /\ ~Usable(l)
    /\ GoesOn(todo \ {l})
    /\ UNCHANGED <<agentVars, closing, peerVars>>

\* add_link opens a socket, or cannot and skips the link.
AddLink(i, l, opens) ==
    /\ links' = IF opens
                THEN [links EXCEPT ![i] = [leg |-> l, device |-> device[l], remote |-> LegRemote(l)]]
                ELSE links
    /\ heard' = IF opens THEN [heard EXCEPT ![i] = "fresh"] ELSE heard

\* set_link_health: a link that could not be opened has no path to set.
SetLinkHealth(i, carries) ==
    healthy' = IF carries /\ links'[i] # NoLink THEN healthy \cup {i} ELSE healthy \ {i}

\* _reconcile_link: the leg becomes a link if it is none, and its health is set.
Attach(l, opens) ==
    LET i == transport_ids[l]
        adds == i \notin transport_links
    IN  /\ l \in todo /\ closing = NoPid /\ i \in Pids /\ Usable(l)
        /\ adds \/ (link_remotes[i] = LegRemote(l) /\ ~opens)
        /\ transport_links' = transport_links \cup {i}
        /\ link_remotes' = [link_remotes EXCEPT ![i] = LegRemote(l)]
        /\ IF adds THEN AddLink(i, l, opens) ELSE UNCHANGED <<links, heard>>
        /\ SetLinkHealth(i, l \in carrying /\ verdict[l] # "down")
        /\ GoesOn(todo \ {l})
        /\ UNCHANGED <<roster, device, verdict, transport_ids, pid_owner, closing, rtt_of, loss_of, sent_on>>

\* send_keepalives, by the control thread when the pass is done.
SendKeepalives ==
    /\ Between
    /\ sent_on' = [i \in Pids |-> IF links[i] = NoLink THEN sent_on[i]
                                  ELSE sent_on[i] \cup {links[i].leg}]
    /\ UNCHANGED <<agentVars, passVars, closing, links, healthy, heard, rtt_of, loss_of>>

\* _note_keepalive_reply, on the transport thread; an older probe is thereby lost.
Reply(i, l) ==
    /\ l \in sent_on[i]
    /\ rtt_of' = [rtt_of EXCEPT ![i] = l]
    /\ loss_of' = [loss_of EXCEPT ![i] = @ \cup {l}]
    /\ sent_on' = [sent_on EXCEPT ![i] = @ \ {l}]
    /\ heard' = [heard EXCEPT ![i] = "fresh"]
    /\ UNCHANGED <<agentVars, passVars, closing, links, healthy>>

\* Nothing has been heard on a link for PACKET_LINK_STALE_S.
LinkSilent(i) ==
    /\ heard[i] = "fresh"
    /\ heard' = [heard EXCEPT ![i] = "stale"]
    /\ UNCHANGED <<agentVars, passVars, closing, links, healthy, rtt_of, loss_of, sent_on>>

Reconcile == \E l \in LinkLegs : Allocate(l) \/ Drop(l) \/ Skip(l)
                               \/ \E opens \in BOOLEAN : Attach(l, opens)
Pass == \E v \in [LinkLegs -> {"alive", "down"}], h \in Homes :
           /\ \A l \in LinkLegs : v[l] \in IF l \in roster THEN Judged(l) ELSE {verdict[l]}
           /\ \E kept \in SUBSET LinkTierLegs(v) : StartPass(v, kept, h)

LinkNext ==
    \/ \E l \in LinkLegs : LegAppears(l) \/ Expire(l)
    \/ \E l \in LinkLegs, d \in Devices \cup {Nobody} : Match(l, d)
    \/ Pass \/ Reconcile \/ FinishRemove
    \/ SendKeepalives
    \/ \E i \in Pids, l \in LinkLegs : Reply(i, l)
    \/ \E i \in Pids : LinkSilent(i)

-----------------------------------------------------------------------------
LinkTypeOK ==
    /\ roster \subseteq LinkLegs /\ todo \subseteq roster
    /\ device \in [LinkLegs -> Devices \cup {Nobody}]
    /\ transport_ids \in [LinkLegs -> Pids \cup {NoPid}]
    /\ pid_owner \in [Pids -> LinkLegs \cup {Nobody}]
    /\ transport_links \subseteq Pids /\ healthy \subseteq Pids
    /\ \A i \in Pids : sent_on[i] \subseteq LinkLegs /\ loss_of[i] \subseteq LinkLegs

(***************************************************************************)
(* A path id stands for one leg (#163): no two legs hold the same id, a    *)
(* link is the leg's that holds its id, only open links are asked to carry *)
(* and what is kept of a leg's reliability was measured on that leg, and   *)
(* not on the one that had the id before (forget_link).                    *)
(***************************************************************************)
IdStandsForOneLeg ==
    \A i \in Pids :
        LET holders == {l \in LinkLegs : transport_ids[l] = i}
        IN  /\ Cardinality(holders) <= 1
            /\ links[i] # NoLink => links[i].leg \in holders /\ i \in transport_links
            /\ i \in healthy => links[i] # NoLink \/ closing = i
            /\ \A l \in holders : loss_of[i] \subseteq {l}

=============================================================================
