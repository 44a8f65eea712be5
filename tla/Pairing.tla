------------------------------- MODULE Pairing -------------------------------
(***************************************************************************)
(* First-time pairing (pairing.py and the console's pair routes): a phone  *)
(* asks until it is approved, the router answers with a code, the operator *)
(* reads the code off that phone and types it into an authenticated call,  *)
(* and the next ask from the same address with that code gets the console  *)
(* token, once.  An ask is two steps of an HTTP thread, collect and then   *)
(* request, between which approvals and expiries happen.                   *)
(***************************************************************************)
EXTENDS Integers, FiniteSets

CONSTANTS Hosts,        \* source addresses that may ask
          Codes,        \* the six-digit codes
          MaxPending,   \* how many requests may be open
          RequestTtl,   \* how many ticks a request lives after its last ask
          MaxGrants     \* bound: approvals followed for one host

ASSUME PairAssumption ==
  /\ IsFiniteSet(Hosts) /\ 0 \notin Codes
  /\ MaxPending \in Nat /\ RequestTtl \in Nat \ {0} /\ MaxGrants \in Nat

VARIABLES open,      \* _requests: the open request of each host, left = 0 when none
          asking,    \* hosts whose ask has tried collect and not yet request
          shown,     \* the code each phone shows; 0 for none
          typed,     \* the phone and code the operator holds
          approvals, \* history: how often the operator approved each host
          grants     \* history: how often each host was sent the token

pairVars == <<open, asking, shown, typed, approvals, grants>>

NoRequest == [code |-> 0, approved |-> FALSE, left |-> 0]
NoReading == [host |-> 0, code |-> 0]
IsOpen(h) == open[h].left > 0
LiveCodes == {open[h].code : h \in {g \in Hosts : IsOpen(g)}}

PairInit ==
  /\ open = [h \in Hosts |-> NoRequest]
  /\ asking = {}
  /\ shown = [h \in Hosts |-> 0]
  /\ typed = NoReading
  /\ approvals = [h \in Hosts |-> 0]
  /\ grants = [h \in Hosts |-> 0]

(* The first half of _pair_ask: collect succeeds once, for an approved request asked again
   with its own code, and the token goes back. *)
Consumed(h) == [open EXCEPT ![h] = NoRequest]

AskCollects(h) ==
  /\ h \notin asking
  /\ IF IsOpen(h) /\ open[h].approved /\ shown[h] = open[h].code
     THEN /\ open' = Consumed(h)
          /\ grants' = [grants EXCEPT ![h] = @ + 1]
          /\ shown' = [shown EXCEPT ![h] = 0]
          /\ UNCHANGED asking
     ELSE /\ asking' = asking \union {h}
          /\ UNCHANGED <<open, grants, shown>>
  /\ UNCHANGED <<typed, approvals>>

(* The second half: renew the request with its code and approval, or open one with a code
   no live request holds.  Six random digits may repeat a live code, which is drawn again;
   that they repeat a dead one still on a screen or in the operator's hand is left out. *)
Unique(c) == c \notin LiveCodes

Drawn == {c \in Codes : c \in LiveCodes \/ (c # typed.code /\ \A g \in Hosts : c # shown[g])}

AskRequests(h) ==
  /\ h \in asking
  /\ IF IsOpen(h)
     THEN /\ open' = [open EXCEPT ![h].left = RequestTtl]
          /\ shown' = [shown EXCEPT ![h] = open[h].code]
     ELSE IF Cardinality({g \in Hosts : IsOpen(g)}) >= MaxPending
     THEN UNCHANGED <<open, shown>>
     ELSE \E c \in Drawn :
            /\ Unique(c)
            /\ open' = [open EXCEPT ![h] = [code |-> c, approved |-> FALSE, left |-> RequestTtl]]
            /\ shown' = [shown EXCEPT ![h] = c]
  /\ asking' = asking \ {h}
  /\ UNCHANGED <<typed, approvals, grants>>

(* The answer to an ask is lost: the phone shows what it showed before. *)
AnswerLost(h) ==
  /\ h \in asking
  /\ asking' = asking \ {h}
  /\ UNCHANGED <<open, shown, typed, approvals, grants>>

OperatorReads(h) ==
  /\ shown[h] # 0
  /\ typed' = [host |-> h, code |-> shown[h]]
  /\ UNCHANGED <<open, asking, shown, approvals, grants>>

(* _pair_approve: the first open request that holds the code. *)
Approve ==
  /\ typed # NoReading
  /\ LET held == {h \in Hosts : IsOpen(h) /\ open[h].code = typed.code}
     IN  IF held = {} THEN UNCHANGED <<open, approvals>>
         ELSE \E h \in held :
                /\ open' = [open EXCEPT ![h].approved = TRUE]
                /\ approvals[typed.host] < MaxGrants
                /\ approvals' = IF open[h].approved THEN approvals
                                ELSE [approvals EXCEPT ![typed.host] = @ + 1]
  /\ typed' = NoReading
  /\ UNCHANGED <<asking, shown, grants>>

(* _expire_locked: a request nobody renewed is forgotten at the next call. *)
RequestsAge ==
  /\ \E h \in Hosts : IsOpen(h)
  /\ open' = [h \in Hosts |-> IF open[h].left <= 1 THEN NoRequest
                              ELSE [open[h] EXCEPT !.left = @ - 1]]
  /\ UNCHANGED <<asking, shown, typed, approvals, grants>>

(* The agent restarts: nothing was persisted. *)
PairingRestarts ==
  /\ open' = [h \in Hosts |-> NoRequest]
  /\ asking' = {}
  /\ UNCHANGED <<shown, typed, approvals, grants>>

PairNext ==
  \/ \E h \in Hosts : AskCollects(h) \/ AskRequests(h) \/ AnswerLost(h) \/ OperatorReads(h)
  \/ Approve \/ RequestsAge \/ PairingRestarts

PairSpec == PairInit /\ [][PairNext]_pairVars

-----------------------------------------------------------------------------
(* Requests hold codes, and no more are open than the cap allows. *)
PairTypeOK ==
  /\ open \in [Hosts -> [code : Codes \union {0}, approved : BOOLEAN, left : 0..RequestTtl]]
  /\ Cardinality({h \in Hosts : IsOpen(h)}) <= MaxPending
  /\ shown \in [Hosts -> Codes \union {0}]
  /\ approvals \in [Hosts -> 0..MaxGrants]

(* The token goes to a host at most once for each time the operator approved the code read
   off that very host, across expiry, renewal, a full table and a restart. *)
TokenIsEarned == \A h \in Hosts : grants[h] <= approvals[h]
=============================================================================
