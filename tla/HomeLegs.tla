------------------------------ MODULE HomeLegs ------------------------------
(***************************************************************************)
(* How the home end keeps one logical link per travel leg (Transport with  *)
(* roam and home_downstream, travel/bond-agent/zippie/transport.py, which  *)
(* home runs as deploy/oke/zippie-home/zippie-pkg/transport.py): where it  *)
(* sends, what it believes of the leg, its own probes, and the rule that   *)
(* stands a leg down that no longer answers them.                          *)
(*                                                                         *)
(* A path id is a number the frame carries; the legs are the ids travel    *)
(* has given to links that exist.  The state of a leg (not part of the     *)
(* repository) changes at any time: "ok", "deaf" (home hears it and its    *)
(* own frames vanish), "error" (home hears it and sending fails), "dead".  *)
(* Every frame here is one that passed the epoch gate.                     *)
(***************************************************************************)
EXTENDS Integers, Sequences, SequencesExt

CONSTANTS
    Legs,           \* path ids of the travel legs that exist
    Listener,       \* path id 0: home's socket, and the id in every NACK
    NoAddress,
    ProbeInterval,  \* HOME_PROBE_INTERVAL_S
    StanddownAge,   \* HOME_STANDDOWN_S
    StanddownCount, \* the probes that must be unanswered
    SilentAge,      \* PEER_SILENT_S
    MaxOutstanding  \* _KA_OUTSTANDING_MAX

ASSUME TimesAssumption ==
    /\ ProbeInterval \in Nat /\ StanddownAge \in Nat /\ SilentAge \in Nat
    /\ StanddownCount \in Nat \ {0} /\ MaxOutstanding \in Nat \ {0}
    /\ StanddownCount <= MaxOutstanding
ASSUME NoAddressAssumption == NoAddress \notin Legs

Paths == Legs \cup {Listener}

\* A probe's age and the leg it reached, if it reached one.
Probes == [age : 0 .. StanddownAge, at : Legs \cup {NoAddress}]
States == {"ok", "deaf", "error", "dead"}

VARIABLES
    links,          \* keys of _links
    remote,         \* whose address each link sends to
    healthy,        \* PathState.healthy
    rx_age,         \* time since _link_rx
    heard,          \* keys of _link_rx_bytes
    outstanding,    \* _ka_sent: the unanswered probes, oldest first
    probe_age,      \* time since _last_home_probe_at
    answered,       \* _home_probe_answered
    state           \* of each leg

linkVars == <<links, remote, heard, rx_age>>
probeVars == <<outstanding, probe_age, answered>>
vars == <<linkVars, healthy, probeVars, state>>

TypeOK ==
    /\ links \subseteq Paths /\ heard \subseteq links
    /\ remote \in [Paths -> Legs \cup {NoAddress}]
    /\ healthy \in [Paths -> BOOLEAN]
    /\ rx_age \in [Paths -> 0 .. SilentAge]
    /\ outstanding \in [Paths -> Seq(Probes)]
    /\ \A p \in Paths : Len(outstanding[p]) <= MaxOutstanding
    /\ probe_age \in 0 .. ProbeInterval
    /\ answered \in BOOLEAN
    /\ state \in [Legs -> States]

\* build_home_transport: one link, the listener, held out until it is heard.
Init ==
    /\ links = {Listener}
    /\ remote = [p \in Paths |-> NoAddress]
    /\ healthy = [p \in Paths |-> p # Listener]
    /\ rx_age = [p \in Paths |-> 0]
    /\ heard = {}
    /\ outstanding = [p \in Paths |-> << >>]
    /\ probe_age = 0
    /\ answered = FALSE
    /\ state \in [Legs -> States]

-----------------------------------------------------------------------------
\* Mutant: probe silence counts before the far end ever answered (#334).
OverdueUnanswered(probes, any) ==
    /\ Len(probes) >= StanddownCount
    /\ probes[1].age >= StanddownAge

\* _home_probe_overdue, for a leg's probes and whether any was ever answered.
Overdue(probes, any) ==
    /\ any
    /\ Len(probes) >= StanddownCount
    /\ probes[1].age >= StanddownAge

\* A frame with path id p came from leg l: _roam_link and _credit_leg.
Credit(p, l) ==
    /\ links' = links \cup {p}
    /\ remote' = [remote EXCEPT ![p] = l]
    /\ rx_age' = [rx_age EXCEPT ![p] = 0]
    /\ heard' = heard \cup {p}

\* Receiving is proof, unless the leg owes answers.
Believes(p) == healthy[p] \/ ~ Overdue(outstanding[p], answered)

Upstream(l) == state[l] \in {"ok", "deaf", "error"}

HearData(l) ==
    /\ Upstream(l)
    /\ Credit(l, l)
    /\ healthy' = [healthy EXCEPT ![l] = Believes(l)]
    /\ UNCHANGED <<probeVars, state>>

\* A probe of travel's is answered at once, and sending the answer may fail.
HearProbe(l) ==
    /\ Upstream(l)
    /\ Credit(l, l)
    /\ healthy' = [healthy EXCEPT ![l] = Believes(l) /\ state[l] # "error"]
    /\ UNCHANGED <<probeVars, state>>

\* _send_nack: the far end's NACK carries path id 0 on every leg.
HearNack(l) ==
    /\ Upstream(l)
    /\ Credit(Listener, l)
    /\ healthy' = [healthy EXCEPT ![Listener] = Believes(Listener)]
    /\ UNCHANGED <<probeVars, state>>

\* The answer to the i-th outstanding probe of link p.  Travel answers with the
\* id of the leg it heard the probe on; the probe is matched under that id.
HearReply(p, i) ==
    /\ i \in DOMAIN outstanding[p]
    /\ LET l == outstanding[p][i].at
       IN  /\ l # NoAddress /\ state[l] = "ok"
           /\ Credit(l, l)
           /\ IF l = p
              THEN /\ outstanding' = [outstanding EXCEPT ![p] = SubSeq(@, i + 1, Len(@))]
                   /\ answered' = TRUE
                   /\ healthy' = [healthy EXCEPT ![p] = TRUE]
              ELSE /\ healthy' = [healthy EXCEPT ![l] = Believes(l)]
                   /\ UNCHANGED <<outstanding, answered>>
    /\ UNCHANGED <<probe_age, state>>

-----------------------------------------------------------------------------
\* Sending on p fails: no socket error is possible before it has an address.
Fails(p) == remote[p] # NoAddress /\ state[remote[p]] = "error"

\* send_payload picks a healthy link and the send fails.
SendFails(p) ==
    /\ p \in links /\ healthy[p] /\ Fails(p)
    /\ healthy' = [healthy EXCEPT ![p] = FALSE]
    /\ UNCHANGED <<linkVars, probeVars, state>>

Newest(probes) == IF Len(probes) > MaxOutstanding THEN Tail(probes) ELSE probes

Reaches(p) == IF remote[p] # NoAddress /\ state[remote[p]] = "ok" THEN remote[p] ELSE NoAddress

\* Mutant: a leg that was stood down is not probed.
ProbedHealthy(p) ==
    IF p \in heard /\ healthy[p] /\ ~ Fails(p)
    THEN Newest(Append(outstanding[p], [age |-> 0, at |-> Reaches(p)]))
    ELSE outstanding[p]

\* send_keepalives on the links that were heard, healthy or not; a probe that
\* cannot be sent is not outstanding.
Probed(p) ==
    IF p \in heard /\ ~ Fails(p)
    THEN Newest(Append(outstanding[p], [age |-> 0, at |-> Reaches(p)]))
    ELSE outstanding[p]

\* tick: probe when it is time, then stand down what is silent or overdue.
\* due says whether it is time to probe.
TickWith(due) ==
    LET probes == [p \in Paths |-> IF due THEN Probed(p) ELSE outstanding[p]]
        failed(p) == due /\ p \in heard /\ Fails(p)
    IN  /\ outstanding' = probes
        /\ healthy' = [p \in Paths |->
                /\ healthy[p]
                /\ p \in links => /\ ~ failed(p)
                                  /\ rx_age[p] < SilentAge
                                  /\ ~ Overdue(probes[p], answered)]

Tick ==
    /\ TickWith(probe_age >= ProbeInterval)
    /\ probe_age' = IF probe_age >= ProbeInterval THEN 0 ELSE probe_age
    /\ UNCHANGED <<linkVars, answered, state>>

Aged(age, limit) == IF age < limit THEN age + 1 ELSE age

ClockStep ==
    /\ rx_age' = [p \in Paths |-> Aged(rx_age[p], SilentAge)]
    /\ probe_age' = Aged(probe_age, ProbeInterval)
    /\ outstanding' = [p \in Paths |->
            [i \in DOMAIN outstanding[p] |->
                [outstanding[p][i] EXCEPT !.age = Aged(@, StanddownAge)]]]
    /\ UNCHANGED <<links, remote, heard, healthy, answered, state>>

\* The world changes.
Change(l, s) ==
    /\ s # state[l]
    /\ state' = [state EXCEPT ![l] = s]
    /\ UNCHANGED <<linkVars, healthy, probeVars>>

Next ==
    \/ \E l \in Legs : HearData(l) \/ HearProbe(l) \/ HearNack(l) \/ \E s \in States : Change(l, s)
    \/ \E p \in Paths : SendFails(p) \/ \E i \in 1 .. MaxOutstanding : HearReply(p, i)
    \/ Tick
    \/ ClockStep

Spec == Init /\ [][Next]_vars

\* The loop and the clock run; travel probes every leg it has, and what can get
\* through does again and again.
FairSpec ==
    /\ Spec
    /\ WF_vars(Tick) /\ WF_vars(ClockStep)
    /\ \A l \in Legs :
        /\ WF_vars(HearProbe(l))
        /\ SF_vars(\E i \in 1 .. MaxOutstanding : HearReply(l, i))

-----------------------------------------------------------------------------
\* Home sends a leg's share to that leg's own address.
OwnAddress == \A l \in Legs : remote[l] \in {l, NoAddress}

\* No leg but one with the listener's id is mixed up with another: home sends to its own
\* address, and its probes reach it or nobody, so that each answer is matched.
LegsStayApart ==
    \A l \in Legs \ {Listener} :
        /\ remote[l] \in {l, NoAddress}
        /\ \A i \in DOMAIN outstanding[l] : outstanding[l][i].at \in {l, NoAddress}

\* A link that is stood down for the answers it owes stays down, and goes on owing them
\* through new probes for which old ones are forgotten, until it answers a probe
\* (_home_probe_overdue, the bound on _ka_sent): what is merely heard does not undo it.
StanddownHolds ==
    [][\A p \in Paths :
        Overdue(outstanding[p], answered) /\ ~ healthy[p] =>
            \/ Overdue(outstanding[p], answered)' /\ ~ healthy'[p]
            \/ \E i \in DOMAIN outstanding[p] : outstanding[p][i].at = p /\ HearReply(p, i)]_vars

\* A leg that works again is used again, whatever home believed of it before:
\* no verdict is for ever.
LegComesBack == \A l \in Legs : <>[](state[l] = "ok") => []<>(l \in links /\ healthy[l])

\* A leg that no longer carries home's frames is given up and stays given up,
\* although travel is still heard on it.
DeafLegStandsDown ==
    \A l \in Legs : <>[](state[l] = "deaf" /\ answered /\ l \in heard) => <>[]~ healthy[l]

\* What home believes of a leg follows what the leg can do, both ways, and nothing else.
LegFollowsHearing ==
    /\ [](TypeOK /\ LegsStayApart) /\ StanddownHolds
    /\ LegComesBack /\ DeafLegStandsDown

\* Until the far end has answered a first probe, being heard keeps a leg in
\* use: the frame that lets travel follow a restarted home must go out (#334).
HeardLegCarries ==
    \A l \in Legs : <>[](state[l] = "deaf" /\ ~ answered) => []<>healthy[l]

=============================================================================
