----------------------------- MODULE SendQueue ------------------------------
(***************************************************************************)
(* The queues that keep a monitoring socket off the loops: Tracer and      *)
(* Metrics (hub/hub.py), DatadogApiTelemetry and DatadogLogHandler         *)
(* (travel/bond-agent/zippie/telemetry.py).  A producer never waits: it    *)
(* puts an item (a span, the four gauges of a router, a series, a log      *)
(* record) into a bounded queue or drops one; a worker takes a batch out   *)
(* and posts it, which may fail; close() asks the worker to end.           *)
(*                                                                         *)
(* The four differ in what a full queue drops and in what is a batch.      *)
(***************************************************************************)
EXTENDS Integers, Sequences, SequencesExt

CONSTANTS
    QueueMax,        \* _QUEUE_MAX, TRACE_QUEUE_MAX, DOGSTATSD_QUEUE_MAX, MAX_BUFFER
    BatchMax,        \* TRACE_BATCH_MAX and DOGSTATSD_BATCH_MAX, in items
    MaxItems         \* bound: items offered

ASSUME QueueAssumption ==
    QueueMax \in Nat \ {0} /\ BatchMax \in Nat \ {0} /\ MaxItems \in Nat

Sinks == {"traces", "metrics", "telemetry", "logs"}
Sentinel == 0

VARIABLES
    sink,            \* which of the four
    q,               \* the queue, items numbered as they were offered
    batch,           \* what the worker is posting
    ending,          \* it ends after that
    worker,          \* "idle", "posting" or "ended"
    stage,           \* of close(): "open", "flushing", "closed"
    offered,         \* history: the items so far
    sent, lost,      \* history: posted, and in a post that failed
    at_close         \* history: the items queued when the worker was told to end

queueVars == <<sink, q, batch, ending, worker, stage, offered, sent, lost, at_close>>

QueueInit ==
    /\ sink \in Sinks
    /\ q = <<>> /\ batch = <<>> /\ ending = FALSE /\ worker = "idle" /\ stage = "open"
    /\ offered = 0 /\ sent = <<>> /\ lost = {} /\ at_close = {}

-----------------------------------------------------------------------------
\* put_nowait: a full queue refuses the newest item.
PutNowait(item) == IF Len(q) < QueueMax THEN Append(q, item) ELSE q

\* DatadogLogHandler.emit: a full buffer forgets its oldest record.
EmitRecord(item) == IF Len(q) < QueueMax THEN Append(q, item) ELSE Append(Tail(q), item)

\* Tracer.submit
Submit == sink = "traces" /\ q' = PutNowait(offered + 1)

\* Metrics.observe_router: the samples of a router are one item.
ObserveRouter == sink = "metrics" /\ q' = PutNowait(offered + 1)

\* DatadogApiTelemetry._enqueue, of emit_status and of emit_count.
Enqueue == sink = "telemetry" /\ q' = PutNowait(offered + 1)

Emit == sink = "logs" /\ q' = EmitRecord(offered + 1)

Offer ==
    /\ offered < MaxItems /\ offered' = offered + 1
    /\ Submit \/ ObserveRouter \/ Enqueue \/ Emit
    /\ at_close' = IF sink = "logs" THEN at_close \ (ToSet(q) \ ToSet(q')) ELSE at_close
    /\ UNCHANGED <<sink, batch, ending, worker, stage, sent, lost>>

-----------------------------------------------------------------------------
\* The items before the sentinel.
Items(s) == IF Contains(s, Sentinel) THEN SubSeq(s, 1, SelectInSeq(s, LAMBDA i : i = Sentinel) - 1)
            ELSE s

AtMost(s, n) == IF Len(s) > n THEN SubSeq(s, 1, n) ELSE s

\* Tracer._drain and Metrics._drain: a batch cut short by the sentinel is posted
\* before the worker ends.
DrainBatch(taken, ends) == taken

Drain ==
    /\ sink \in {"traces", "metrics"} /\ worker = "idle" /\ q # <<>>
    /\ LET taken == AtMost(Items(q), BatchMax)
           ends == Len(taken) < BatchMax /\ Contains(q, Sentinel)
           rest == SubSeq(q, Len(taken) + 1 + (IF ends THEN 1 ELSE 0), Len(q))
       IN  /\ q' = rest /\ ending' = ends
           /\ batch' = DrainBatch(taken, ends)
           /\ worker' = IF ends /\ batch' = <<>> THEN "ended" ELSE "posting"
    /\ UNCHANGED <<sink, stage, offered, sent, lost, at_close>>

\* DatadogApiTelemetry._drain: one series at a time.
DrainSeries ==
    /\ sink = "telemetry" /\ worker = "idle" /\ q # <<>>
    /\ q' = Tail(q)
    /\ IF Head(q) = Sentinel
       THEN worker' = "ended" /\ batch' = <<>>
       ELSE worker' = "posting" /\ batch' = <<Head(q)>>
    /\ UNCHANGED <<sink, ending, stage, offered, sent, lost, at_close>>

\* DatadogLogHandler._flush_loop, at its interval and once more when stopped.
FlushLoop ==
    /\ sink = "logs" /\ worker = "idle" /\ ~ending
    /\ q' = <<>> /\ batch' = q
    /\ ending' = (stage = "closed")
    /\ worker' = IF q # <<>> THEN "posting" ELSE IF ending' THEN "ended" ELSE "idle"
    /\ q # <<>> \/ ending'
    /\ UNCHANGED <<sink, stage, offered, sent, lost, at_close>>

\* Tracer._send, Metrics._send, _post, flush_to_datadog: a post that fails loses
\* its batch, never the worker.
Post(ok) ==
    /\ worker = "posting"
    /\ sent' = IF ok THEN sent \o batch ELSE sent
    /\ lost' = IF ok THEN lost ELSE lost \cup ToSet(batch)
    /\ batch' = <<>> /\ worker' = IF ending THEN "ended" ELSE "idle"
    /\ UNCHANGED <<sink, q, ending, stage, offered, at_close>>

-----------------------------------------------------------------------------
\* close(): flush() waits for an empty queue, or for its timeout; the sentinel
\* is left out when there is no room for it.
Close ==
    /\ stage = "open" /\ stage' = "flushing"
    /\ UNCHANGED <<sink, q, batch, ending, worker, offered, sent, lost, at_close>>

CloseFlushed(timed_out) ==
    /\ stage = "flushing" /\ (q = <<>> \/ timed_out \/ sink = "logs")
    /\ stage' = "closed"
    /\ q' = IF sink = "logs" THEN q ELSE PutNowait(Sentinel)
    /\ at_close' = ToSet(q)
    /\ UNCHANGED <<sink, batch, ending, worker, offered, sent, lost>>

QueueNext ==
    \/ Offer
    \/ Drain \/ DrainSeries \/ FlushLoop
    \/ \E ok \in BOOLEAN : Post(ok)
    \/ Close
    \/ \E timed_out \in BOOLEAN : CloseFlushed(timed_out)

-----------------------------------------------------------------------------
QueueTypeOK ==
    /\ sink \in Sinks /\ stage \in {"open", "flushing", "closed"}
    /\ worker \in {"idle", "posting", "ended"} /\ ending \in BOOLEAN
    /\ ToSet(q) \subseteq 0 .. MaxItems /\ Len(q) <= QueueMax
    /\ ToSet(batch) \subseteq 1 .. MaxItems /\ (worker = "posting") = (batch # <<>>)

(***************************************************************************)
(* Nothing is posted twice or out of order, a lost batch is lost once, and *)
(* a worker that ends has first posted whatever stood in the queue when it *)
(* was asked to: only what is offered after that is left behind.           *)
(***************************************************************************)
WorkerPostsAll ==
    /\ \A i, j \in 1 .. Len(sent) : i < j => sent[i] < sent[j]
    /\ ToSet(sent) \cap lost = {}
    /\ worker = "ended" => at_close \subseteq ToSet(sent) \cup lost

=============================================================================
