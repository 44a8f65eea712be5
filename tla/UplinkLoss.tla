----------------------------- MODULE UplinkLoss -----------------------------
(***************************************************************************)
(* The loss of an uplink, seen by two threads at once, with one tunnel per *)
(* leg (datapath "route"): the control pass of travel/bond-agent/zippie/   *)
(* agent.py (match_interfaces, ensure_tunnels, probe_paths, apply_policy), *)
(* which holds no lock until its last step, and the callbacks of           *)
(* net.AddressLossMonitor, which withdraw a leg at once.                   *)
(*                                                                         *)
(* A step of the pass is what runs between two commands that take long:    *)
(* the kernel and the other thread move in between.  A pass may be ended   *)
(* by an exception anywhere.  `ip monitor' may die; what happens until it  *)
(* runs again is lost.                                                     *)
(***************************************************************************)
EXTENDS Integers, Sequences

CONSTANTS
    UpLegs,
    StaleAfter,      \* TunnelActivity.stale_after_s, in passes
    HealCooldown,    \* _renew_cooldown_s, in passes
    MaxEvents        \* bound: lines of ip monitor not yet read

Nobody == "nobody"

ASSUME UplinkAssumption ==
    /\ StaleAfter \in Nat /\ HealCooldown \in Nat \ {0} /\ MaxEvents \in Nat
    /\ Nobody \notin UpLegs

Unseen == -1

VARIABLES
    phys,            \* each uplink: "ok", "noroute" (an address only), "gone"
    bound,           \* the legs with an interface
    up,              \* the legs whose state is not DOWN
    route,           \* the legs of the installed default route
    seen_age,        \* passes since TunnelActivity saw the counter move
    heal,            \* _heal_state: the stage, and what is left of the cooldown
    pc,              \* where the control pass stands
    links,           \* what list_links found, until the legs are bound
    todo, probing,   \* legs still to probe, the one being probed
    echo,            \* whether its ping was answered
    events,          \* lines of ip monitor
    reroute,         \* a callback stands between its two critical sections
    watching,        \* ip monitor runs
    lost,            \* history: whole passes since the uplink lost its address
    unseen_loss,     \* history: the loss fell into the current pass
    stuck            \* history: whole passes without a route and no bounce

kernelVars == <<phys, events, watching>>
passVars == <<pc, links, todo, probing, echo>>
uplinkVars == <<kernelVars, bound, up, route, seen_age, heal, passVars, reroute,
                lost, unseen_loss, stuck>>

UplinkInit ==
    /\ phys = [l \in UpLegs |-> "ok"] /\ events = <<>> /\ watching = TRUE
    /\ bound = {} /\ up = {} /\ route = {}
    /\ seen_age = [l \in UpLegs |-> Unseen]
    /\ heal = [l \in UpLegs |-> [stage |-> 0, wait |-> 0]]
    /\ pc = "look" /\ links = {} /\ todo = {} /\ probing = Nobody /\ echo = FALSE
    /\ reroute = FALSE
    /\ lost = [l \in UpLegs |-> 0] /\ unseen_loss = {}
    /\ stuck = [l \in UpLegs |-> 0]

-----------------------------------------------------------------------------
\* The kernel.

Reported(kind, l) == IF watching THEN Append(events, [kind |-> kind, leg |-> l]) ELSE events

AddressLost(l) ==
    /\ phys[l] # "gone" /\ Len(events) < MaxEvents
    /\ phys' = [phys EXCEPT ![l] = "gone"]
    /\ events' = Reported("address", l)
    /\ lost' = [lost EXCEPT ![l] = 0] /\ unseen_loss' = unseen_loss \cup {l}
    /\ stuck' = [stuck EXCEPT ![l] = 0]
    /\ UNCHANGED <<watching, bound, up, route, seen_age, heal, passVars, reroute>>

RouteLost(l) ==
    /\ phys[l] = "ok" /\ Len(events) < MaxEvents
    /\ phys' = [phys EXCEPT ![l] = "noroute"]
    /\ events' = Reported("route", l)
    /\ unseen_loss' = unseen_loss \cup {l}
    /\ UNCHANGED <<watching, bound, up, route, seen_age, heal, passVars, reroute,
                   lost, stuck>>

Restored(l, as) ==
    /\ phys[l] = "gone" \/ (phys[l] = "noroute" /\ as = "ok")
    /\ phys' = [phys EXCEPT ![l] = as]
    /\ lost' = [lost EXCEPT ![l] = 0]
    /\ unseen_loss' = IF as = "ok" THEN unseen_loss \ {l} ELSE unseen_loss \cup {l}
    /\ stuck' = [stuck EXCEPT ![l] = 0]
    /\ UNCHANGED <<events, watching, bound, up, route, seen_age, heal, passVars, reroute>>

\* The process exits, and is started again after a delay.
MonitorFlips ==
    /\ watching' = ~watching
    /\ events' = IF watching THEN <<>> ELSE events
    /\ UNCHANGED <<phys, bound, up, route, seen_age, heal, passVars, reroute,
                   lost, unseen_loss, stuck>>

-----------------------------------------------------------------------------
\* The monitor thread.

\* The legs a callback withdraws.
Marked(e) == {e.leg} \cap (IF e.kind = "route" THEN bound \cap up ELSE bound)

\* Its first critical section.  A route loss also forgets the tunnel's activity.
Withdrawal ==
    /\ events # <<>> /\ ~reroute
    /\ events' = Tail(events)
    /\ LET e == Head(events)
       IN  /\ bound' = bound \ Marked(e)
           /\ up' = up \ Marked(e)
           /\ reroute' = (Marked(e) # {})
           /\ IF e.kind = "route" /\ Marked(e) # {}
              THEN seen_age' = [seen_age EXCEPT ![e.leg] = Unseen]
              ELSE UNCHANGED seen_age
    /\ UNCHANGED <<phys, watching, route, heal, passVars, lost, unseen_loss, stuck>>

\* multipath_nexthops after recompute, the legs being of one tier; the gate that
\* may hold some of them out is JoinGate's.
Nexthops == up

\* Its second one: recompute, and install.  The callback may be that of a leg
\* besides UpLegs.
Reroute(other) ==
    /\ reroute \/ other
    /\ reroute' = FALSE /\ route' = Nexthops
    /\ UNCHANGED <<kernelVars, bound, up, seen_age, heal, passVars, lost, unseen_loss, stuck>>

-----------------------------------------------------------------------------
\* The control pass.

Waited(n) == IF n > 0 THEN n - 1 ELSE 0
Older(age) == IF age = Unseen \/ age > StaleAfter THEN age ELSE age + 1

\* list_links and wan_gateways.
Look ==
    /\ pc = "look"
    /\ pc' = "bind" /\ links' = {l \in UpLegs : phys[l] # "gone"}
    /\ seen_age' = [l \in UpLegs |-> Older(seen_age[l])]
    /\ heal' = [l \in UpLegs |-> [heal[l] EXCEPT !.wait = Waited(@)]]
    /\ unseen_loss' = {}
    /\ UNCHANGED <<kernelVars, bound, up, route, todo, probing, echo, reroute, lost, stuck>>

\* Mutant: a leg that matches nothing keeps its interface.
MatchedKeeps == bound \cup links

\* LegRoster.match.
Matched == links

Bind ==
    /\ pc = "bind"
    /\ pc' = "tunnels" /\ bound' = Matched /\ links' = {}
    /\ UNCHANGED <<kernelVars, up, route, seen_age, heal, todo, probing, echo, reroute,
                   lost, unseen_loss, stuck>>

\* The legs whose table cannot be pinned and whose cooldown is over.
Healing == {l \in bound : phys[l] # "ok" /\ heal[l].wait = 0}

\* netifd_bounce, on the second turn of the ladder.
Bounced(l) == l \in Healing /\ heal[l].stage = 1

\* _heal_uplink: renew, bounce, renew...
Climbed(h) == [stage |-> 1 - h.stage, wait |-> HealCooldown]

\* ensure_tunnels: a leg without an interface is torn down, the others are
\* brought up and pinned, or healed.  netifd acts on a renew or a bounce later.
EnsureTunnels ==
    /\ pc = "tunnels"
    /\ pc' = "probe" /\ todo' = UpLegs
    /\ up' = up \cap bound
    /\ heal' = [l \in UpLegs |-> IF l \in Healing THEN Climbed(heal[l]) ELSE heal[l]]
    /\ stuck' = [l \in UpLegs |->
                   IF Bounced(l) THEN 0 ELSE stuck[l]]
    /\ UNCHANGED <<kernelVars, bound, route, seen_age, links, probing, echo, reroute,
                   lost, unseen_loss>>

\* ping_rtt_ms: lost, or answered by an uplink that has its route.
PingAnswers(l) == IF l \in bound /\ phys[l] = "ok" THEN BOOLEAN ELSE {FALSE}

\* probe_paths, one leg: it is judged by its interface, and pinged.
ProbeStart(l, answered) ==
    /\ pc = "probe" /\ probing = Nobody /\ l \in todo
    /\ todo' = todo \ {l}
    /\ answered \in PingAnswers(l)
    /\ IF l \in bound THEN probing' = l /\ up' = up ELSE probing' = Nobody /\ up' = up \ {l}
    /\ echo' = answered
    /\ UNCHANGED <<kernelVars, bound, route, seen_age, heal, pc, links, reroute,
                   lost, unseen_loss, stuck>>

\* TunnelActivity.observe and is_advancing.
Observed(age, moved) == IF age = Unseen \/ moved THEN 0 ELSE age
Advancing(age) == age = Unseen \/ age <= StaleAfter

\* wg_tunnel_evidence: whether the peer's counter moved, and whether it ever
\* shook hands; a dump that cannot be read tells of neither.
WgTunnelEvidence == [moved : BOOLEAN, handshaked : BOOLEAN]

\* The answer, then the counter and the handshake, judge the tunnel: a leg that
\* was answered may still be DOWN by its loss.
ProbeEnd(wg, poor) ==
    /\ probing # Nobody
    /\ seen_age' = [seen_age EXCEPT ![probing] = Observed(@, wg.moved)]
    /\ LET carries == IF echo THEN ~poor ELSE wg.handshaked /\ Advancing(seen_age'[probing])
       IN  up' = IF carries THEN up \cup {probing} ELSE up \ {probing}
    /\ probing' = Nobody /\ echo' = FALSE
    /\ UNCHANGED <<kernelVars, bound, route, heal, pc, links, todo, reroute,
                   lost, unseen_loss, stuck>>

More(n, most) == IF n < most THEN n + 1 ELSE n

\* apply_policy, which holds the lock.
Policy ==
    /\ pc = "probe" /\ todo = {} /\ probing = Nobody
    /\ pc' = "look" /\ route' = Nexthops
    /\ lost' = [l \in UpLegs |->
                  IF phys[l] # "gone" \/ l \in unseen_loss THEN 0 ELSE More(lost[l], 1)]
    /\ stuck' = [l \in UpLegs |->
                  IF phys[l] # "noroute" \/ l \in unseen_loss \/ l \notin bound THEN stuck[l]
                  ELSE More(stuck[l], 2 * HealCooldown + 1)]
    /\ UNCHANGED <<kernelVars, bound, up, seen_age, heal, links, todo, probing, echo, reroute,
                   unseen_loss>>

\* loop_once raises: run logs it and starts the next pass.
PassFails ==
    /\ pc # "look"
    /\ pc' = "look" /\ links' = {} /\ todo' = {} /\ probing' = Nobody /\ echo' = FALSE
    /\ UNCHANGED <<kernelVars, bound, up, route, seen_age, heal, reroute,
                   lost, unseen_loss, stuck>>

UplinkNext ==
    \/ \E l \in UpLegs :
          \/ AddressLost(l)
          \/ RouteLost(l)
          \/ \E as \in {"ok", "noroute"} : Restored(l, as)
          \/ \E answered \in BOOLEAN : ProbeStart(l, answered)
    \/ MonitorFlips
    \/ Withdrawal
    \/ \E other \in BOOLEAN : Reroute(other)
    \/ Look
    \/ Bind
    \/ EnsureTunnels
    \/ \E wg \in WgTunnelEvidence, poor \in BOOLEAN : ProbeEnd(wg, poor)
    \/ Policy
    \/ PassFails

-----------------------------------------------------------------------------
UplinkTypeOK ==
    /\ phys \in [UpLegs -> {"ok", "noroute", "gone"}]
    /\ bound \subseteq UpLegs /\ up \subseteq UpLegs /\ route \subseteq UpLegs
    /\ links \subseteq UpLegs /\ todo \subseteq UpLegs /\ probing \in UpLegs \cup {Nobody}
    /\ seen_age \in [UpLegs -> {Unseen} \cup 0 .. StaleAfter + 1]
    /\ heal \in [UpLegs -> [stage : 0 .. 1, wait : 0 .. HealCooldown]]
    /\ pc \in {"look", "bind", "tunnels", "probe"} /\ Len(events) <= MaxEvents
    /\ lost \in [UpLegs -> 0 .. 1] /\ stuck \in [UpLegs -> 0 .. 2 * HealCooldown + 1]

(***************************************************************************)
(* An uplink that lost its address is in no route once a pass that began   *)
(* after the loss has ended, whatever ip monitor missed, however late the  *)
(* callback comes, and whatever a probe begun before the loss wrote.       *)
(***************************************************************************)
GoneIsWithdrawn == \A l \in route : lost[l] = 0

(***************************************************************************)
(* An uplink with an address and no route is not left alone: once it has   *)
(* been so for two cooldowns it has been bounced (netifd ignores a renew). *)
(***************************************************************************)
BouncedAtLast == \A l \in UpLegs : stuck[l] <= 2 * HealCooldown

(***************************************************************************)
(* The loss of an uplink is dealt with: of its address, at the end of the  *)
(* next whole pass at the latest; of its route, by a bounce in the end.    *)
(***************************************************************************)
UplinkLossHandled == GoneIsWithdrawn /\ BouncedAtLast

=============================================================================
