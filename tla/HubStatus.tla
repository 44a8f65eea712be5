----------------------------- MODULE HubStatus ------------------------------
(***************************************************************************)
(* The hub (hub/hub.py): poll_routers keeps the Registry's word on every   *)
(* router current, one router after another; /api/status answers from it,  *)
(* and phones push their own status, which /api/nodes lists until they     *)
(* have been silent for too long.                                          *)
(*                                                                         *)
(* Time is in ticks.  A fetch takes up to PollTimeout of them.             *)
(***************************************************************************)
EXTENDS Integers, FiniteSets

CONSTANTS
    Routers,
    Misconfigured,   \* those whose status_url is unusable
    Phones,
    PollInterval,    \* POLL_INTERVAL_S
    PollTimeout,     \* ROUTER_POLL_TIMEOUT_S
    StaleCycles,     \* STATUS_STALE_CYCLES
    RetainFor        \* CLIENT_RETAIN_S

Nobody == "nobody"
Never == -1

ASSUME HubAssumption ==
    /\ IsFiniteSet(Routers) /\ Nobody \notin Routers /\ Misconfigured \subseteq Routers
    /\ PollInterval \in Nat \ {0} /\ PollTimeout \in Nat /\ StaleCycles \in Nat \ {0}
    /\ RetainFor \in Nat

\* What one fetch meets: a status document; an answer that is none, or a
\* refusal; nothing; a reply that breaks off, so that http.client raises what
\* is neither an OSError nor a ValueError.
Outcomes == {"status", "refused", "silent", "broken"}

VARIABLES
    polled,          \* routers still to visit in this cycle
    fetching,        \* the router being fetched
    elapsed,         \* ticks of this fetch, or of the wait between two cycles
    poller,          \* "running", "dead" or "stopped"
    word,            \* the Registry's entry for each router
    word_age,        \* ticks since its "at"
    heard,           \* ticks since each phone reported
    listed,          \* the phones of the last /api/nodes
    quiet            \* history: ticks since the poller died

hubVars == <<polled, fetching, elapsed, poller, word, word_age, heard, listed, quiet>>

HubInit ==
    /\ polled = Routers /\ fetching = Nobody /\ elapsed = 0 /\ poller = "running"
    /\ word = [r \in Routers |-> "none"] /\ word_age = [r \in Routers |-> Never]
    /\ heard = [p \in Phones |-> Never] /\ listed = {} /\ quiet = 0

-----------------------------------------------------------------------------
\* Mutant: the bound does not depend on the number of routers.
StatusMaxAgeFixed(n) == StaleCycles * (PollInterval + PollTimeout)

\* status_max_age_s
StatusMaxAge(n) == StaleCycles * (PollInterval + PollTimeout * (IF n > 1 THEN n ELSE 1))

MaxAge == StatusMaxAge(Cardinality(Routers))
Horizon == StaleCycles * (PollInterval + PollTimeout * Cardinality(Routers)) + 1
Aged(n, most) == IF n = Never \/ n >= most THEN n ELSE n + 1

\* Registry.note_router, and the gauges of the same reading (SendQueue).
NoteRouter(r, w) ==
    /\ word' = [word EXCEPT ![r] = w] /\ word_age' = [word_age EXCEPT ![r] = 0]

\* poll_routers: a router whose address is unusable is never dialled.
NextRouter(r) ==
    /\ poller = "running" /\ fetching = Nobody /\ r \in polled
    /\ polled' = polled \ {r} /\ elapsed' = 0
    /\ IF r \in Misconfigured
       THEN fetching' = Nobody /\ NoteRouter(r, "config_error")
       ELSE fetching' = r /\ UNCHANGED <<word, word_age>>
    /\ UNCHANGED <<poller, heard, listed, quiet>>

\* fetch_router_status and host_answered.
Fetched(outcome) ==
    /\ fetching # Nobody /\ outcome # "broken"
    /\ NoteRouter(fetching, outcome)
    /\ fetching' = Nobody /\ elapsed' = 0
    /\ UNCHANGED <<polled, poller, heard, listed, quiet>>

\* The exception goes through fetch_router_status, and ends the thread.
FetchBreaks ==
    /\ fetching # Nobody
    /\ poller' = "dead" /\ fetching' = Nobody /\ elapsed' = 0
    /\ UNCHANGED <<polled, word, word_age, heard, listed, quiet>>

\* stop.wait(POLL_INTERVAL_S) is over.
NextCycle ==
    /\ poller = "running" /\ fetching = Nobody /\ polled = {} /\ elapsed = PollInterval
    /\ polled' = Routers /\ elapsed' = 0
    /\ UNCHANGED <<fetching, poller, word, word_age, heard, listed, quiet>>

HubTick ==
    /\ fetching # Nobody => elapsed < PollTimeout
    /\ poller = "running" /\ fetching = Nobody => polled = {} /\ elapsed < PollInterval
    /\ elapsed' = IF poller = "running" THEN elapsed + 1 ELSE 0
    /\ word_age' = [r \in Routers |-> Aged(word_age[r], Horizon)]
    /\ heard' = [p \in Phones |-> Aged(heard[p], RetainFor + 1)]
    /\ quiet' = IF poller = "running" THEN 0 ELSE Aged(quiet, Horizon)
    /\ UNCHANGED <<polled, fetching, poller, word, listed>>

\* main: serve_forever ended.
StopHub ==
    /\ poller = "running"
    /\ poller' = "stopped" /\ fetching' = Nobody /\ elapsed' = 0
    /\ UNCHANGED <<polled, word, word_age, heard, listed, quiet>>

-----------------------------------------------------------------------------
\* handle_report, with a good token and body: Registry.note_client.
Report(p) ==
    /\ heard' = [heard EXCEPT ![p] = 0]
    /\ UNCHANGED <<polled, fetching, elapsed, poller, word, word_age, listed, quiet>>

\* Registry.snapshot: the forgotten are evicted, then the rest listed.
Snapshot ==
    /\ LET gone == {p \in Phones : heard[p] > RetainFor}
       IN  heard' = [p \in Phones |-> IF p \in gone THEN Never ELSE heard[p]]
    /\ listed' = {p \in Phones : heard'[p] # Never}
    /\ UNCHANGED <<polled, fetching, elapsed, poller, word, word_age, quiet>>

\* cached_status: the code of the answer.
CachedStatus(r) ==
    CASE word_age[r] = Never -> 503
      [] word_age[r] # Never /\ word[r] = "config_error" -> 500
      [] word_age[r] # Never /\ word[r] \in {"refused", "silent"} -> 502
      [] word_age[r] # Never /\ word[r] = "status" /\ word_age[r] > MaxAge -> 504
      [] OTHER -> 200

\* Registry._node: what /api/nodes says of a router; one never heard of is listed
\* too.  It has no age at which it stops being believed.
Node(r) == [unreachable |-> word[r] # "status", reachable |-> word[r] \in {"status", "refused"},
            config_error |-> word[r] = "config_error"]

\* router_samples: the gauges of a reading.
RouterSamples(w) == [answering |-> w = "status", reachable |-> w \in {"status", "refused"},
                     config_error |-> w = "config_error"]

HubNext ==
    \/ \E r \in Routers : NextRouter(r)
    \/ \E outcome \in Outcomes : Fetched(outcome)
    \/ FetchBreaks
    \/ NextCycle \/ HubTick \/ StopHub
    \/ \E p \in Phones : Report(p)
    \/ Snapshot

-----------------------------------------------------------------------------
HubTypeOK ==
    /\ polled \subseteq Routers /\ fetching \in Routers \cup {Nobody}
    /\ poller \in {"running", "dead", "stopped"}
    /\ word \in [Routers -> Outcomes \cup {"none", "config_error"}]
    /\ word_age \in [Routers -> {Never} \cup 0 .. Horizon]
    /\ heard \in [Phones -> {Never} \cup 0 .. RetainFor + 1] /\ listed \subseteq Phones

(***************************************************************************)
(* /api/status never passes off what it cannot stand behind: as long as    *)
(* the poller runs, however slow the other routers are, no router is       *)
(* called stale; once it has been gone for the bound, no router is said    *)
(* to be well; and an unusable address is never told as a router that is   *)
(* away (#17).  The page, the gauges and /api/status tell of one router.   *)
(***************************************************************************)
StatusIsHonest ==
    \A r \in Routers :
        /\ poller = "running" => CachedStatus(r) # 504
        /\ quiet > MaxAge => CachedStatus(r) # 200
        /\ r \in Misconfigured => CachedStatus(r) \in {503, 500}
        /\ CachedStatus(r) \in {200, 504} <=> ~Node(r).unreachable
        /\ word_age[r] # Never =>
              RouterSamples(word[r]) = [answering |-> CachedStatus(r) \in {200, 504},
                                        reachable |-> Node(r).reachable,
                                        config_error |-> CachedStatus(r) = 500]

=============================================================================
