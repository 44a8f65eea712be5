----------------------------- MODULE LegTunnels -----------------------------
(***************************************************************************)
(* Route mode's kernel state: a WireGuard tunnel for each leg, steered to  *)
(* the leg's own uplink by a mark, a rule and a private table, and the     *)
(* firewall chains without which clients cannot use a tunnel.              *)
(* BondAgent._ensure_path_tunnel, _pin_endpoint_route and apply_policy's   *)
(* last part (travel/bond-agent/zippie/agent.py), pin_link_table,          *)
(* _wg_up_native and ensure_firewall (zippie/net.py), `zippie down`        *)
(* (zippie/cli.py).                                                        *)
(*                                                                         *)
(* A pass sees to the legs one after the other and then to the firewall    *)
(* and the route.  Every command may fail; a rebuild of the chains is two  *)
(* steps, flush and fill, with a failure possible in each.                 *)
(***************************************************************************)
EXTENDS Integers, Sequences

CONSTANTS
    TunnelLegs,      \* the legs in the order of the configuration
    Uplinks,         \* devices
    NoUplink,
    RebuildEvery     \* passes between two forced rebuilds of the chains

Tunneled == {TunnelLegs[i] : i \in DOMAIN TunnelLegs}

ASSUME TunnelAssumption ==
    /\ TunnelLegs \in Seq(Tunneled) /\ NoUplink \notin Uplinks \cup Tunneled
    /\ RebuildEvery \in Nat \ {0, 1}

VARIABLES
    uplink_of,       \* interface of each leg, as match left it
    gateways,        \* the devices a gateway is known for
    tunnels,         \* of each leg: "absent", "wreck" (there and not up) or "live"
    pinned,          \* the device of the default route in the leg's table
    ruled,           \* the legs whose mark has its rule
    at,              \* the leg whose turn it is, or beyond the last: the policy
    chains,          \* the tunnels masqueraded, forwarded and clamped
    fw_applied,      \* _fw_applied: the set last applied, once one was
    fw_count,        \* _fw_pass, modulo RebuildEvery
    filling,         \* the tunnels a rebuild is putting back, once it flushed
    nexthops,        \* the tunnels the default route points at
    clean,           \* history: the legs none of whose commands failed in this pass
    flushed          \* history: passes since the chains were lost, -1 when they are whole

legVars == <<uplink_of, gateways, tunnels, pinned, ruled, clean>>
chainVars == <<chains, fw_applied, fw_count, filling, nexthops, flushed>>
tunnelVars == <<legVars, chainVars, at>>

\* No set was applied; no rebuild is under way.
NoSet == {NoUplink}

Agentless == at = 1 /\ fw_applied = NoSet /\ fw_count = 0 /\ filling = NoSet /\ clean = Tunneled

TunnelsInit ==
    /\ uplink_of = [l \in Tunneled |-> NoUplink] /\ gateways = {}
    /\ tunnels = [l \in Tunneled |-> "absent"]
    /\ pinned = [l \in Tunneled |-> NoUplink] /\ ruled = {}
    /\ chains = {} /\ nexthops = {} /\ flushed = -1
    /\ Agentless

-----------------------------------------------------------------------------
PolicyTurn == at = Len(TunnelLegs) + 1
Turn(leg) == at \in DOMAIN TunnelLegs /\ TunnelLegs[at] = leg

\* What match and DHCP bring before a pass: other devices, no device shared.
Rebind ==
    /\ at = 1
    /\ uplink_of' \in {b \in [Tunneled -> Uplinks \cup {NoUplink}] :
                     \A l, o \in Tunneled : l # o /\ b[l] # NoUplink => b[l] # b[o]}
    /\ gateways' \in SUBSET Uplinks
    /\ UNCHANGED <<tunnels, pinned, ruled, clean, chainVars, at>>

\* _ensure_path_tunnel of a leg without an interface: its tunnel goes.
TearDown(leg) ==
    /\ Turn(leg) /\ uplink_of[leg] = NoUplink
    /\ tunnels' = [tunnels EXCEPT ![leg] = "absent"] /\ at' = at + 1
    /\ UNCHANGED <<uplink_of, gateways, pinned, ruled, clean, chainVars>>

\* _tunnel_is_live: existing and up, not merely existing.
Stands(leg) == tunnels[leg] = "live"

\* _wg_up_native raises and deletes what it made, or is itself cut short and
\* leaves the interface down: the leg is DOWN and nothing is pinned.
BringUpCutShort(leg, left) ==
    /\ Turn(leg) /\ uplink_of[leg] # NoUplink /\ ~Stands(leg)
    /\ tunnels' = [tunnels EXCEPT ![leg] = left] /\ clean' = clean \ {leg} /\ at' = at + 1
    /\ UNCHANGED <<uplink_of, gateways, pinned, ruled, chainVars>>

\* pin_link_table: a link with no gateway known is refused, and the command
\* may fail; either way the table keeps what it had and no rule is written.
PinRefused(leg) ==
    /\ Turn(leg) /\ uplink_of[leg] # NoUplink
    /\ tunnels' = [tunnels EXCEPT ![leg] = IF Stands(leg) THEN @ ELSE "live"]
    /\ clean' = clean \ {leg} /\ at' = at + 1
    /\ UNCHANGED <<uplink_of, gateways, pinned, ruled, chainVars>>

\* link_gateway: by a route of the device, or by its address; none may be known.
LinkGateway(leg) == uplink_of[leg] \in gateways

\* ip_rule_ensure: the rule of the leg's mark is deleted and added again.
IpRuleEnsure(leg) == ruled' = (ruled \ {leg}) \cup {leg}

\* The tunnel stands or is brought up, its table gets the link's route, and its
\* mark the rule.
EnsurePathTunnel(leg) ==
    /\ Turn(leg) /\ LinkGateway(leg)
    /\ tunnels' = [tunnels EXCEPT ![leg] = IF Stands(leg) THEN @ ELSE "live"]
    /\ pinned' = [pinned EXCEPT ![leg] = uplink_of[leg]]
    /\ IpRuleEnsure(leg) /\ at' = at + 1
    /\ UNCHANGED <<uplink_of, gateways, clean, chainVars>>

-----------------------------------------------------------------------------
\* A pass ends: with chains lost, one more has gone by.
PassEnds ==
    /\ at' = 1 /\ clean' = Tunneled
    /\ UNCHANGED <<uplink_of, gateways, tunnels, pinned, ruled>>

\* Mutant: an unchanged set is never rebuilt.
RebuildsIfChanged(usable, count) == fw_applied # usable

\* ensure_firewall: skipped for an unchanged set, unless it is forced.
Rebuilds(usable, count) == fw_applied # usable \/ count = 1

\* apply_policy with hops, the set unchanged: only the route is seen to.
FirewallStands(usable, hops) ==
    LET count == (fw_count + 1) % RebuildEvery
    IN  /\ PolicyTurn /\ filling = NoSet /\ hops # {} /\ hops \subseteq usable
        /\ ~Rebuilds(usable, count)
        /\ fw_count' = count /\ nexthops' = hops
        /\ flushed' = IF flushed = -1 THEN -1 ELSE flushed + 1
        /\ UNCHANGED <<chains, fw_applied, filling>> /\ PassEnds

\* The rebuild, up to its flush of the three tables.
FirewallFlush(usable) ==
    LET count == (fw_count + 1) % RebuildEvery
    IN  /\ PolicyTurn /\ filling = NoSet /\ usable # {}
        /\ Rebuilds(usable, count)
        /\ fw_count' = count /\ chains' = {} /\ filling' = usable /\ flushed' = 0
        /\ UNCHANGED <<legVars, fw_applied, nexthops, at>>

\* The rest of the rebuild, which does not look at what its commands return;
\* then the route, which waits for it.
FirewallFill(hops, filled) ==
    /\ filling # NoSet /\ hops # {} /\ hops \subseteq filling /\ filled \subseteq filling
    /\ chains' = filled /\ fw_applied' = filling /\ filling' = NoSet
    /\ flushed' = IF filled = filling THEN -1 ELSE 0
    /\ nexthops' = hops
    /\ UNCHANGED fw_count /\ PassEnds

\* A command of the rebuild times out: what it filled stays, the set applied
\* before is still remembered, and the pass ends before the route.
FirewallCutShort(filled) ==
    /\ filling # NoSet /\ filled \subseteq filling /\ filled # filling
    /\ chains' = filled /\ filling' = NoSet /\ flushed' = 0
    /\ UNCHANGED <<fw_applied, fw_count, nexthops>> /\ PassEnds

\* apply_policy without hops: the bonded route is withdrawn.
AllPathsDown ==
    /\ PolicyTurn /\ filling = NoSet
    /\ nexthops' = {}
    /\ UNCHANGED <<chains, fw_applied, fw_count, filling, flushed>> /\ PassEnds

-----------------------------------------------------------------------------
\* The router's own firewall is reloaded and drops the chains.
FirewallReloaded ==
    /\ chains # {} /\ filling = NoSet
    /\ chains' = {} /\ flushed' = 0
    /\ UNCHANGED <<legVars, at, fw_applied, fw_count, filling, nexthops>>

\* clear_firewall: the jumps and the chains go.
ClearFirewall == chains' = {} /\ flushed' = -1

\* The agent is killed, by itself or with its service, in which case
\* `zippie down` withdraws the route and removes tunnels, rules, tables and
\* chains.
AgentKilled ==
    /\ at' = 1 /\ fw_applied' = NoSet /\ fw_count' = 0 /\ filling' = NoSet /\ clean' = Tunneled
    /\ UNCHANGED <<uplink_of, gateways>>
    /\ \/ /\ flushed' = IF flushed = -1 THEN -1 ELSE 0
          /\ UNCHANGED <<tunnels, pinned, ruled, chains, nexthops>>
       \/ /\ ClearFirewall /\ nexthops' = {} /\ ruled' = {}
          /\ tunnels' = [l \in Tunneled |-> "absent"]
          /\ pinned' = [l \in Tunneled |-> NoUplink]

TunnelsNext ==
    \/ Rebind
    \/ \E leg \in Tunneled :
          \/ TearDown(leg)
          \/ \E left \in {"absent", "wreck"} : BringUpCutShort(leg, left)
          \/ PinRefused(leg)
          \/ EnsurePathTunnel(leg)
    \/ \E usable \in SUBSET {l \in Tunneled : tunnels[l] = "live"} :
          \/ \E hops \in SUBSET usable : FirewallStands(usable, hops)
          \/ FirewallFlush(usable)
    \/ \E filled \in SUBSET Tunneled :
          \/ \E hops \in SUBSET Tunneled : FirewallFill(hops, filled)
          \/ FirewallCutShort(filled)
    \/ AllPathsDown
    \/ FirewallReloaded
    \/ AgentKilled

-----------------------------------------------------------------------------
TunnelsTypeOK ==
    /\ uplink_of \in [Tunneled -> Uplinks \cup {NoUplink}] /\ gateways \subseteq Uplinks
    /\ tunnels \in [Tunneled -> {"absent", "wreck", "live"}]
    /\ pinned \in [Tunneled -> Uplinks \cup {NoUplink}]
    /\ ruled \subseteq Tunneled /\ clean \subseteq Tunneled
    /\ at \in 1 .. Len(TunnelLegs) + 1
    /\ chains \subseteq Tunneled /\ nexthops \subseteq Tunneled
    /\ fw_applied \in (SUBSET Tunneled) \cup {NoSet} /\ filling \in (SUBSET Tunneled) \cup {NoSet}
    /\ fw_count \in 0 .. RebuildEvery - 1

(***************************************************************************)
(* A pass none of whose commands for a leg fail ends with the leg's tunnel *)
(* up and its packets leaving on the leg's own uplink, whatever earlier    *)
(* failures, wrecks, restarts and moves between devices left behind.       *)
(***************************************************************************)
TunnelsConverge ==
    PolicyTurn => \A l \in clean : uplink_of[l] # NoUplink =>
       tunnels[l] = "live" /\ pinned[l] = uplink_of[l] /\ l \in ruled

(***************************************************************************)
(* The default route never points at a tunnel that clients cannot use,     *)
(* except while chains are lost (by a reload, a rebuild under way or one   *)
(* that failed), and lost chains are noticed within RebuildEvery passes,     *)
(* although an unchanged set of tunnels is never rebuilt (#87).            *)
(***************************************************************************)
RouteBehindFirewall ==
    /\ flushed < RebuildEvery
    /\ flushed = -1 => nexthops \subseteq chains

=============================================================================
