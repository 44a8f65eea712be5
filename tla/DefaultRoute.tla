---------------------------- MODULE DefaultRoute ----------------------------
(***************************************************************************)
(* The default route of the bond and the rule that stands the bond aside   *)
(* (BondAgent._install_default_route, _apply_all_paths_down, class         *)
(* BondStanddown in travel/bond-agent/zippie/agent.py; ResolverKicker,     *)
(* ip_route_replace_multipath and foreign_default_route_exists in net.py). *)
(*                                                                         *)
(* An action is one call of _install_default_route, with the nexthops its  *)
(* caller wants, what was measured of the carrying legs, what the route    *)
(* table said of another default route, and whether the commands it runs   *)
(* succeed.  Between calls the multi-WAN daemon may overwrite the route,   *)
(* and the agent may die and start again.  Times are in control passes.    *)
(***************************************************************************)
EXTENDS Integers

CONSTANTS
    Hops,            \* nonempty sets of nexthops the agent may want
    NoRoute,
    EnterAfter,      \* standdown_enter_after_s
    RecoverAfter,    \* standdown_recover_after_s
    KickInterval,    \* resolver_kick_min_interval_s
    ForceEvery       \* passes between two forced installs

ASSUME RouteAssumption ==
    /\ NoRoute \notin Hops
    /\ EnterAfter \in Nat /\ RecoverAfter \in Nat /\ KickInterval \in Nat
    /\ ForceEvery \in Nat \ {0, 1}

\* _carrying_best_tail_ms against standdown_rtt_ms: nothing measured, below the
\* floor by the recovery margin, below it, above it.
Tails == {"none", "good", "fair", "bad"}

\* foreign_default_route_exists, by what the route table held: another default,
\* none, or nothing because it could not be read, which is reported as one.
FallbackExists(table) == table \in {"another", "unreadable"}
Fallbacks == {FallbackExists(t) : t \in {"another", "unreadable", "only_ours"}}

Unset == -1

VARIABLES
    standing,        \* standing_down
    bad_age,         \* time since _bad_since, Unset when None
    good_age,        \* time since _good_since, Unset when None
    memo,            \* _last_hops
    kernel,          \* the default route at the bond's metric
    fw_pass,         \* _fw_pass, modulo ForceEvery
    kick_age,        \* time since _last_kick, Unset when it never was
    resolver,        \* the route the resolver's upstream sockets were dialled on
    fresh,           \* history: nothing installed or withdrawn since the start
    clobbered,       \* history: the daemon wrote over the route since then
    bad_run,         \* history: time since a judged pass that was not bad
    good_run,        \* history: time since a judged pass that was not good
    sole,            \* history: the last judged pass found no other default
    refused,         \* history: the last move was not followed by a kick
    wanted,          \* history: the hops of the last call
    missing          \* history: passes the route was missing, no install failing

standVars == <<standing, bad_age, good_age, bad_run, good_run, sole>>
routeVars == <<memo, kernel, kick_age, resolver, fresh, clobbered, refused, wanted, missing>>
defaultVars == <<standVars, routeVars, fw_pass>>

RouteInit ==
    /\ standing = FALSE /\ bad_age = Unset /\ good_age = Unset
    /\ memo = NoRoute /\ kernel = NoRoute /\ wanted = NoRoute /\ missing = 0
    /\ fw_pass = 0 /\ kick_age = Unset /\ resolver = NoRoute
    /\ fresh = TRUE /\ clobbered = FALSE /\ refused = FALSE
    /\ bad_run = 0 /\ good_run = 0 /\ sole = FALSE

-----------------------------------------------------------------------------
Upto(n, most) == IF n > most THEN most ELSE n
Later(age, d, most) == IF age = Unset THEN Unset ELSE Upto(age + d, most)

\* recovery_margin: standing aside ends well below the floor, not at it.
GoodTail(tail) == tail = "good"

\* Mutant: a pass that is not bad leaves the window open.
EnterWindowSticky(tail, age) == IF age = Unset /\ tail = "bad" THEN 0 ELSE age

\* evaluate, not standing: the window opens at the first bad pass and any pass
\* that is not bad closes it.
EnterWindow(tail, age) ==
    IF tail # "bad" THEN Unset ELSE IF age = Unset THEN 0 ELSE age

\* evaluate, standing.
RecoverWindow(tail, age) ==
    IF ~GoodTail(tail) THEN Unset ELSE IF age = Unset THEN 0 ELSE age

\* The verdict of evaluate, with ages as of now.
Verdict(tail, fallback, bad, good) ==
    LET enter == EnterWindow(tail, bad)
        recover == RecoverWindow(tail, good)
        enters == bad # Unset /\ enter = EnterAfter
        leaves == good # Unset /\ recover = RecoverAfter
    IN  CASE ~fallback -> [standing |-> FALSE, bad |-> Unset, good |-> good]
          [] fallback /\ ~standing ->
                [standing |-> enters, bad |-> enter, good |-> IF enters THEN Unset ELSE good]
          [] OTHER ->
                [standing |-> ~leaves, bad |-> IF leaves THEN Unset ELSE bad, good |-> recover]

\* evaluate runs only when there are hops to install; time runs in any case.
Evaluate(hops, tail, fallback, d) ==
    LET bad == Later(bad_age, d, EnterAfter)
        good == Later(good_age, d, RecoverAfter)
        v == IF hops = NoRoute THEN [standing |-> standing, bad |-> bad, good |-> good]
             ELSE Verdict(tail, fallback, bad, good)
    IN  /\ standing' = v.standing /\ bad_age' = v.bad /\ good_age' = v.good
        /\ bad_run' = IF hops # NoRoute /\ tail # "bad" THEN 0 ELSE Upto(bad_run + d, EnterAfter)
        /\ good_run' = IF hops # NoRoute /\ tail # "good" THEN 0
                       ELSE Upto(good_run + d, RecoverAfter)
        /\ sole' = IF hops = NoRoute THEN sole ELSE ~fallback

\* ResolverKicker.kick, asked only when the route moved.  The clock is armed
\* before the restart, which may fail.
Kick(moved, works, d) ==
    LET age == Later(kick_age, d, KickInterval)
        due == age \in {Unset, KickInterval}
        armed == moved /\ due
    IN  /\ kick_age' = IF armed THEN 0 ELSE age
        /\ resolver' = IF armed /\ works THEN kernel' ELSE resolver
        /\ refused' = IF moved THEN ~(due /\ works) ELSE refused

\* _apply_all_paths_down, whatever the memo says: another process may have left
\* the route.
Withdrawn(target, moved) == IF target = NoRoute THEN NoRoute ELSE kernel

\* ip_route_replace_multipath: the new route, or an error and the old one.
ReplaceMultipath(hops, ok) == IF ok THEN hops ELSE kernel

\* _install_default_route.  Installing may raise NetError: neither the memo
\* nor the resolver follows.
Install(hops, force, tail, fallback, ok, works, d) ==
    /\ Evaluate(hops, tail, fallback, d)
    /\ LET target == IF standing' THEN NoRoute ELSE hops
           moved == target # memo
           installs == target # NoRoute /\ (moved \/ force)
       IN  /\ wanted' = target
           /\ kernel' = IF installs THEN ReplaceMultipath(target, ok) ELSE Withdrawn(target, moved)
           /\ memo' = IF installs /\ ~ok THEN memo ELSE target
           /\ clobbered' = (clobbered /\ target # NoRoute /\ ~(installs /\ ok))
           /\ fresh' = (fresh /\ installs /\ ~ok)
           /\ Kick(moved /\ (installs => ok), works, d)

\* The first install after a start is forced, and then one in ForceEvery.
Forced(hops, count) == hops # NoRoute /\ count = 1

\* apply_policy, from its hops on: the firewall pass counts passes with hops.
RoutePass(hops, tail, fallback, ok, works) ==
    /\ fw_pass' = IF hops = NoRoute THEN fw_pass ELSE (fw_pass + 1) % ForceEvery
    /\ Install(hops, Forced(hops, fw_pass'), tail, fallback, ok, works, 1)
    /\ missing' = IF kernel' = wanted' \/ ~ok THEN 0 ELSE missing + 1

\* The firewall commands that come first time out: the pass ends there.
FirewallFails ==
    /\ fw_pass' = (fw_pass + 1) % ForceEvery
    /\ bad_age' = Later(bad_age, 1, EnterAfter) /\ good_age' = Later(good_age, 1, RecoverAfter)
    /\ bad_run' = Upto(bad_run + 1, EnterAfter) /\ good_run' = Upto(good_run + 1, RecoverAfter)
    /\ kick_age' = Later(kick_age, 1, KickInterval)
    /\ missing' = 0
    /\ UNCHANGED <<standing, sole, memo, kernel, resolver, fresh, clobbered, refused, wanted>>

\* _on_uplink_addr_loss and _on_uplink_route_loss, their last step.
RouteEvent(hops, tail, fallback, ok, works) ==
    /\ Install(hops, FALSE, tail, fallback, ok, works, 0)
    /\ UNCHANGED <<fw_pass, missing>>

\* The multi-WAN daemon owns the default route too.
Clobber ==
    /\ kernel # NoRoute
    /\ kernel' = NoRoute /\ clobbered' = TRUE
    /\ UNCHANGED <<standVars, memo, kick_age, resolver, fresh, refused, wanted, missing, fw_pass>>

\* The agent dies and procd starts it: the kernel keeps the route.
AgentRestart ==
    /\ ~fresh
    /\ standing' = FALSE /\ bad_age' = Unset /\ good_age' = Unset
    /\ memo' = NoRoute /\ wanted' = NoRoute /\ fw_pass' = 0 /\ kick_age' = Unset
    /\ fresh' = TRUE /\ clobbered' = FALSE /\ bad_run' = 0 /\ good_run' = 0 /\ sole' = FALSE
    /\ missing' = 0
    /\ UNCHANGED <<kernel, resolver, refused>>

\* With no hops evaluate is not called: neither is asked.
TailsFor(hops) == IF hops = NoRoute THEN {"none"} ELSE Tails
FallbacksFor(hops) == IF hops = NoRoute THEN {TRUE} ELSE Fallbacks

RouteNext ==
    \/ \E hops \in Hops \cup {NoRoute}, ok, works \in BOOLEAN :
          \E tail \in TailsFor(hops), fallback \in FallbacksFor(hops) :
              \/ RoutePass(hops, tail, fallback, ok, works)
              \/ RouteEvent(hops, tail, fallback, ok, works)
    \/ FirewallFails
    \/ Clobber
    \/ AgentRestart

-----------------------------------------------------------------------------
RouteTypeOK ==
    /\ standing \in BOOLEAN /\ sole \in BOOLEAN /\ fresh \in BOOLEAN /\ clobbered \in BOOLEAN /\ refused \in BOOLEAN
    /\ bad_age \in {Unset} \cup 0 .. EnterAfter /\ bad_run \in 0 .. EnterAfter
    /\ good_age \in {Unset} \cup 0 .. RecoverAfter /\ good_run \in 0 .. RecoverAfter
    /\ {memo, kernel, resolver, wanted} \subseteq Hops \cup {NoRoute}
    /\ fw_pass \in 0 .. ForceEvery - 1
    /\ kick_age \in {Unset} \cup 0 .. KickInterval

(***************************************************************************)
(* Once a pass succeeded, what the agent remembers is what the kernel has, *)
(* unless the daemon wrote over it: no crash, failed install or withdrawal *)
(* leaves a route the agent does not know of, and the memo that lets a     *)
(* pass skip the install never hides a missing route.  And the resolver    *)
(* dialled its upstreams on that route, unless its kick was refused or     *)
(* failed.                                                                 *)
(***************************************************************************)
RememberedRoute ==
    /\ fresh \/ clobbered \/ memo = kernel
    /\ memo # NoRoute => refused \/ resolver = memo

(***************************************************************************)
(* The bond stands aside only after a sustained bad reading, and takes the *)
(* route back only after a sustained good one, or because nothing else is  *)
(* left to stand aside for (#202): then it never stands aside.             *)
(***************************************************************************)
StanddownIsSustained ==
    [][/\ ~standing /\ standing' => bad_run' = EnterAfter
       /\ standing /\ ~standing' /\ ~fresh' => good_run' = RecoverAfter \/ sole'
       /\ sole' => ~standing']_defaultVars

(***************************************************************************)
(* A route the daemon wrote over is put back: while the agent wants one it *)
(* is missing for fewer than ForceEvery passes, unless a command fails.    *)
(***************************************************************************)
ClobberHeals == missing < ForceEvery

=============================================================================
