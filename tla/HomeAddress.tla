---------------------------- MODULE HomeAddress ----------------------------
(***************************************************************************)
(* Where home is: BondAgent._resolve_home_ip and _persist_home_ip          *)
(* (travel/bond-agent/zippie/agent.py), HomeAddressStore (zippie/store.py) *)
(* and resolve_host (zippie/net.py).                                       *)
(*                                                                         *)
(* Resolving needs DNS, DNS needs internet, internet may need the bond,    *)
(* and the bond needs the address; the address kept on disk breaks the     *)
(* circle on a cold boot.  Time is in control passes.                      *)
(***************************************************************************)
EXTENDS Integers

CONSTANTS
    Publics,         \* public addresses home may have
    Private,         \* what a captive network answers instead
    NoAddress,
    AddressTtl       \* _HOME_IP_TTL_S

ASSUME AddressAssumption ==
    /\ AddressTtl \in Nat \ {0}
    /\ Private \notin Publics /\ NoAddress \notin Publics /\ Private # NoAddress

Addresses == Publics \cup {Private}

VARIABLES
    home_ip,         \* _home_ip
    home_age,        \* passes since _home_ip_at, AddressTtl when older
    stored,          \* the file home-ip; NoAddress when absent or spoilt
    home_at,         \* where home is
    captive,         \* the network answers every name with a private address
    bonded,          \* home answered at the address last dialled
    wan,             \* the internet can be reached without the bond
    saved,           \* history: a public address was resolved and saved
    unaware          \* history: passes home was elsewhere while names resolved

addressVars == <<home_ip, home_age, stored, home_at, captive, bonded, wan, saved, unaware>>

AddressInit ==
    /\ home_ip = NoAddress /\ home_age = AddressTtl /\ stored = NoAddress
    /\ home_at \in Publics /\ captive = FALSE /\ wan \in BOOLEAN
    /\ bonded = FALSE /\ saved = FALSE /\ unaware = 0

-----------------------------------------------------------------------------
\* resolve_host: a lookup that fails or takes longer than its timeout raises.
Resolvable == captive \/ wan \/ bonded
Answer == IF captive THEN Private ELSE home_at

\* A lookup that fails keeps the last known good address.
KeptOnFailure == home_ip

\* Mutant: whatever was resolved is saved.
PersistedAny(ip, ok) == IF ok THEN ip ELSE stored

\* _persist_home_ip: a private answer is dialled and not saved; the write may
\* fail and is atomic.
Persisted(ip, ok) == IF ip # Private /\ ok THEN ip ELSE stored

\* A pass dials the address it has.
Dialled(ip) == bonded' = (ip = home_at)

\* _resolve_home_ip within the TTL
CacheHit ==
    /\ home_ip # NoAddress /\ home_age < AddressTtl
    /\ home_age' = home_age + 1
    /\ unaware' = IF home_ip # home_at /\ Resolvable /\ ~captive THEN unaware + 1 ELSE 0
    /\ Dialled(home_ip)
    /\ UNCHANGED <<home_ip, stored, home_at, captive, wan, saved>>

\* _resolve_home_ip past the TTL, with the name resolved.
Resolved(ok) ==
    /\ home_ip = NoAddress \/ home_age = AddressTtl
    /\ Resolvable
    /\ stored' = Persisted(Answer, ok) /\ home_ip' = Answer /\ home_age' = 0
    /\ saved' = (saved \/ (ok /\ Answer # Private))
    /\ unaware' = 0 /\ Dialled(Answer)
    /\ UNCHANGED <<home_at, captive, wan>>

\* _resolve_home_ip past the TTL, and nothing answers.  _home_ip_at stays, so
\* the next pass tries again.
Unresolved ==
    /\ home_ip = NoAddress \/ home_age = AddressTtl
    /\ home_ip' = KeptOnFailure /\ unaware' = 0
    /\ Dialled(home_ip')
    /\ UNCHANGED <<home_age, stored, home_at, captive, wan, saved>>

\* The agent starts, after a power cut or a crash: the seed is stale on
\* arrival, so that it is dialled and still looked up.
ColdBoot ==
    /\ home_ip' = stored /\ home_age' = AddressTtl /\ bonded' = FALSE /\ unaware' = 0
    /\ UNCHANGED <<stored, home_at, captive, wan, saved>>

\* HomeAddressStore.load finds no dotted quad in the file: it counts as absent.
FileSpoilt ==
    /\ stored # NoAddress /\ stored' = NoAddress /\ saved' = FALSE
    /\ UNCHANGED <<home_ip, home_age, home_at, captive, bonded, wan, unaware>>

\* The world: home moves, the router does.
HomeMoves ==
    /\ home_at' \in Publics \ {home_at} /\ bonded' = FALSE
    /\ UNCHANGED <<home_ip, home_age, stored, captive, wan, saved, unaware>>

RouterMoves ==
    /\ captive' \in BOOLEAN /\ wan' \in BOOLEAN /\ unaware' = 0
    /\ UNCHANGED <<home_ip, home_age, stored, home_at, bonded, saved>>

AddressNext ==
    \/ CacheHit
    \/ \E ok \in BOOLEAN : Resolved(ok)
    \/ Unresolved
    \/ ColdBoot
    \/ FileSpoilt
    \/ HomeMoves
    \/ RouterMoves

-----------------------------------------------------------------------------
AddressTypeOK ==
    /\ home_ip \in Addresses \cup {NoAddress} /\ stored \in Publics \cup {NoAddress}
    /\ home_age \in 0 .. AddressTtl /\ home_at \in Publics
    /\ captive \in BOOLEAN /\ bonded \in BOOLEAN /\ wan \in BOOLEAN /\ saved \in BOOLEAN

(***************************************************************************)
(* Once home was ever found, there is always an address to dial, across    *)
(* power cuts, dead resolvers and captive networks, and what a cold boot   *)
(* dials is never a captive network's answer (#182): the circle of DNS,    *)
(* internet and bond cannot close on the router.  And while names resolve, *)
(* a home that moved is dialled again within the TTL.                      *)
(***************************************************************************)
AlwaysSomewhereToDial ==
    /\ saved => home_ip # NoAddress /\ stored \in Publics
    /\ unaware <= AddressTtl

=============================================================================
