----------------------------- MODULE MCServices -----------------------------
(***************************************************************************)
(* What stands beside the datapath, for TLC: the usage books, the queues   *)
(* of what is reported, the hub's view of the routers, the home server's   *)
(* provisioning, the pairing of a phone and the rotation of the bond's     *)
(* key.  They share no state; part says which of them a behaviour is       *)
(* about, and the others stay as they started.                             *)
(***************************************************************************)
EXTENDS UsageBooks, SendQueue, HubStatus, HomeServer, Pairing, KeyRotation

VARIABLE part

Parts == {"books", "queue", "hub", "server", "pairing", "keys"}

\* Months of one day and of two: a cycle day every month has, and one that each
\* must clamp.
MCMonthDays == <<1, 2, 1>>

\* No ports named, and two lists of the same two, the first being WireGuard's.
MCPortLists == {<<>>, <<1, 2>>, <<2, 1>>}

\* No transport, and one that claims the second port.
MCClaims == {Absent, {2}}

servicesVars == <<booksVars, queueVars, hubVars, homeServerVars, pairVars, rotationVars, part>>

ServicesInit ==
    /\ part \in Parts
    /\ BooksInit /\ QueueInit /\ HubInit /\ ServerInit /\ PairInit /\ RotationInit
    /\ part # "books" => billing_day = 1
    /\ part # "queue" => sink = "logs"
    /\ part # "server" => env = [ports |-> <<>>, transport |-> Absent]

InBooks == /\ part = "books" /\ BooksNext
           /\ UNCHANGED <<queueVars, hubVars, homeServerVars, pairVars, rotationVars, part>>
InQueue == /\ part = "queue" /\ QueueNext
           /\ UNCHANGED <<booksVars, hubVars, homeServerVars, pairVars, rotationVars, part>>
InHub == /\ part = "hub" /\ HubNext
         /\ UNCHANGED <<booksVars, queueVars, homeServerVars, pairVars, rotationVars, part>>
InServer == /\ part = "server" /\ ServerNext
            /\ UNCHANGED <<booksVars, queueVars, hubVars, pairVars, rotationVars, part>>
InPairing == /\ part = "pairing" /\ PairNext
             /\ UNCHANGED <<booksVars, queueVars, hubVars, homeServerVars, rotationVars, part>>
InKeys == /\ part = "keys" /\ RotationNext
          /\ UNCHANGED <<booksVars, queueVars, hubVars, homeServerVars, pairVars, part>>

ServicesNext == InBooks \/ InQueue \/ InHub \/ InServer \/ InPairing \/ InKeys

ServicesSpec == ServicesInit /\ [][ServicesNext]_servicesVars

\* The types of all six.  No key that is none is ever installed.
ServicesTypeOK ==
    /\ BooksTypeOK /\ QueueTypeOK /\ HubTypeOK /\ ServerTypeOK /\ PairTypeOK /\ RotationTypeOK

(***************************************************************************)
(* What is reported is true and arrives: the hub calls no dead router well *)
(* (HubStatus), and a worker loses, repeats or reorders nothing it was     *)
(* given before it was told to end (SendQueue).                            *)
(***************************************************************************)
ReportsAreHonest == StatusIsHonest /\ WorkerPostsAll

(***************************************************************************)
(* Credentials: a phone has the token only for an approval of its own      *)
(* (Pairing), and no order of a key's rollout cuts the bond (KeyRotation). *)
(***************************************************************************)
CredentialsSound == TokenIsEarned /\ RolloutKeepsTheBond

=============================================================================
