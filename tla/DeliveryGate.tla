---------------------------- MODULE DeliveryGate ----------------------------
(***************************************************************************)
(* The gate on the default route of the packet datapath                    *)
(* (BondAgent._packet_datapath_delivering, travel/bond-agent/zippie/       *)
(* agent.py): the route is earned by what the reassembler handed up within *)
(* a window, in payloads and in bytes, and lost when nothing comes any     *)
(* more.  The transport thread delivers, the prover's pings among it; the  *)
(* control pass and the monitor thread read the counters.  A payload is    *)
(* small or bulk, and the byte counter counts the bulk ones.  A restart of *)
(* home (reset_stream) keeps both counters: the gate does not notice it.   *)
(***************************************************************************)
EXTENDS Integers, Sequences, FiniteSets

CONSTANTS
    ProveWindow,     \* PACKET_PROVE_WINDOW_S
    DeliverStale,    \* PACKET_DELIVER_STALE_S
    MinPayloads,     \* PACKET_PROVE_MIN_PAYLOADS
    MinBulk,         \* PACKET_PROVE_MIN_BYTES
    MaxDelivered     \* bound on the payloads of one run of the agent

ASSUME ProveAssumption ==
    /\ ProveWindow \in Nat /\ DeliverStale \in Nat /\ MaxDelivered \in Nat
    /\ MinPayloads \in Nat /\ MinBulk \in Nat

Never == -1

VARIABLES
    delivered, bulk,  \* stats.delivered, stats.delivered_bytes
    delivered_seen,   \* _delivered_seen
    quiet,            \* time since _delivered_at, Never when it is 0
    samples,          \* _deliver_samples, times as ages
    delivering,       \* what the gate said last
    handed            \* history: the payloads of this run, [age, bulk], ages up to the window

proveVars == <<delivered, bulk, delivered_seen, quiet, samples, delivering, handed>>

ProveInit ==
    /\ delivered = 0 /\ bulk = 0 /\ delivered_seen = 0
    /\ quiet = Never /\ samples = <<>> /\ delivering = FALSE
    /\ handed = <<>>

-----------------------------------------------------------------------------
Sample(n, b) == [age |-> 0, n |-> n, bulk |-> b]
SampleAged(s, d) == [i \in DOMAIN s |-> [s[i] EXCEPT !.age = @ + d]]

Aged(age, d) == IF age + d > ProveWindow THEN ProveWindow + 1 ELSE age + d

\* Mutant: old samples stay.
TrimsNone(s, old) == old = 0

\* Samples past the window are dropped, the oldest first, up to one within it;
\* the one just taken is.
Trims(s, old) ==
    /\ \A i \in 1 .. old : s[i].age > ProveWindow
    /\ s[old + 1].age <= ProveWindow

\* Counters that went back are a datapath that started again.
Rewound == delivered < delivered_seen

\* _packet_datapath_delivering, d after the last call.
ReadGate(d) ==
    LET since == IF quiet = Never \/ Rewound THEN Never
                 ELSE IF quiet + d > DeliverStale THEN DeliverStale ELSE quiet + d
        taken == Append(IF Rewound THEN <<>> ELSE SampleAged(samples, d), Sample(delivered, bulk))
    IN  /\ \E old \in 0 .. Len(taken) - 1 :
              Trims(taken, old) /\ samples' = SubSeq(taken, old + 1, Len(taken))
        /\ quiet' = IF delivered > delivered_seen THEN 0 ELSE since
        /\ delivered_seen' = delivered
        /\ delivering' = /\ quiet' # Never /\ quiet' < DeliverStale
                         /\ delivered - samples'[1].n >= MinPayloads
                         /\ bulk - samples'[1].bulk >= MinBulk
        /\ handed' = [i \in DOMAIN handed |-> [handed[i] EXCEPT !.age = Aged(@, d)]]
        /\ UNCHANGED <<delivered, bulk>>

\* The reassembler hands a payload up.
Deliver(isBulk) ==
    /\ delivered < MaxDelivered
    /\ delivered' = delivered + 1
    /\ bulk' = IF isBulk THEN bulk + 1 ELSE bulk
    /\ handed' = Append(handed, [age |-> 0, bulk |-> isBulk])
    /\ UNCHANGED <<delivered_seen, quiet, samples, delivering>>

\* The agent starts again, and its transport with it.
ProverRestart ==
    /\ delivered' = 0 /\ bulk' = 0 /\ delivered_seen' = 0
    /\ quiet' = Never /\ samples' = <<>> /\ delivering' = FALSE
    /\ handed' = <<>>

ProveNext ==
    \/ \E d \in 1 .. 2 : ReadGate(d)
    \/ \E isBulk \in BOOLEAN : Deliver(isBulk)
    \/ ProverRestart

-----------------------------------------------------------------------------
ProveTypeOK ==
    /\ delivered \in 0 .. MaxDelivered /\ bulk \in 0 .. delivered
    /\ delivered_seen \in 0 .. MaxDelivered
    /\ quiet \in {Never} \cup 0 .. DeliverStale /\ delivering \in BOOLEAN
    /\ \A i \in DOMAIN samples : samples[i] \in [age : Nat, n : 0 .. delivered, bulk : 0 .. bulk]

\* The payloads handed up within the window.
Lately == {i \in DOMAIN handed : handed[i].age <= ProveWindow}

(***************************************************************************)
(* "THE ROUTE MUST BE EARNED WITH BULK, NOT WITH HELLO": when the gate     *)
(* opens, enough payloads and enough bulk ones were handed up within the   *)
(* window, however reads, deliveries and restarts interleave.              *)
(***************************************************************************)
RouteIsEarned ==
    [][delivering' /\ ~delivering =>
          /\ Cardinality(Lately') >= MinPayloads
          /\ Cardinality({i \in Lately' : handed'[i].bulk}) >= MinBulk]_proveVars

=============================================================================
