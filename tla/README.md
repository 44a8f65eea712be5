# Zippie: TLA+ models, checks and proofs

Zippie bonds several internet uplinks ("legs": Ethernet, Wi-Fi, tethered phones)
of a travel router into one connection to a server at home.  Each end runs a
userspace transport.  It takes WireGuard datagrams from a local socket, numbers
them, sends each on one leg or on several, and at the other end removes the
duplicate copies, restores the order, asks for what is missing and hands the
result to WireGuard.

Around the transport stands an agent, which decides which legs there are, what each
carries, when the bond takes the default route and how the kernel is set up for it; and
beside it a provisioning tool for home, a hub that watches the routers, a directory that
hands out keys, and the router's own watchdog.

This directory models the transport first, the part that every packet goes through: legs
that lose, delay and reorder frames independently, two processes that restart without
telling each other, timers that race late arrivals.  Then the control plane and the
programs beside it, where the hard behaviour is of another kind: verdicts of several
threads about the same leg, commands that fail half way, power cuts, clocks that are wrong,
feedback that must neither oscillate nor wedge.  All paths below are relative to `src/`;
unless a directory is given, they are in `src/travel/bond-agent/zippie/`.

## Inventory

| Component | Source | State | Operations | Hard because |
|---|---|---|---|---|
| Reassembler | `datapath.py` `Reassembler` | next number owed, origin flag, buffer, dedupe window, two lazy indexes, deadline | `push`, `tick`, `reset_stream` | stale index entries, overflow against deadline, a first frame that is not the first |
| Scheduler | `datapath.py` `Scheduler` | legs, shares, health, credit, wide state with its counters | `add_path`, `remove_path`, `set_healthy`, `set_weight`, `select`, `update_duplicate_loss` | called by two threads in any order, evidence that outlives the legs it is about |
| Retransmit ring | `retransmit.py` `RetransmitBuffer` | recent packets with leg, age and resend count, the hold | `record`, `on_nack`, `set_hold_ms` | bounds kept by looking at the oldest entry only |
| NACK tracker | `retransmit.py` `NackTracker` | missing numbers, queue, marks of the legs | `note_gap`, `resolve`, `due`, `forget_before`, `reset_stream`, `set_max_delay_ms` | telling a late frame from a lost one across legs of different delay |
| Receive path | `transport.py` `_on_link_data`, `_note_gaps`, `tick` | gap cursor and high-water mark | one datagram, one pass of the loop | three objects that must agree on what is missing |
| Adaptive recovery | `transport.py` `AdaptiveRecovery` | live deadline, healthy streak, counters | `maybe_adapt` | three windows derived from one, hysteresis, rate limit |
| Epoch gate | `transport.py` `_pass_epoch_gate`, `_adopt_epoch` | own epoch, peer epoch, last good frame, unanswered probes | every received frame, restart | both ends may restart, and each waits for proof from the other |
| Home legs | `transport.py` `_roam_link`, `_credit_leg`, `_home_probe_overdue`, `tick` | one logical link per path id: address, health, last heard, probes | every received frame, probe, standdown | receiving proves only one direction; verdicts that undo each other |
| Link bookkeeping | `transport.py` `add_link`, `remove_link`, `forget_link`; `agent.py` `sync_transport` | path ids, sockets, what was measured under an id | a leg gets, keeps and loses a link | ids are reused, two threads, a removal in two parts |
| Join gate | `agent.py` `_gate_flapped_paths` | streak, hold, probation and share of each leg | one pass over all legs | it must hold flapping legs out and never starve the bond |
| Weights | `policy.py` `recompute`, `update_weight_budget`; `agent.py` `_classify_path_state` | state, average, loss streaks, rises of the last minutes | a probe, a pass, a recompute of the monitor thread | feedback through what the leg then carries |
| Tiers and shedding | `policy.py` `tier_legs`, `update_shed_state`, `carrying_legs` | tail of the round trip, verdicts | a pass, a leg that goes between passes | shedding the leg the bond needs |
| Leg roster | `leg_roster.py`, `dynamic.py`, `store.py` `LegStore` | announced legs with leases, overrides, `legs.json` | announce, expire, PUT, the two steps of a pass | three writers, precedence, tiers derived from each other |
| Default route | `agent.py` `_install_default_route`, `BondStanddown`, `net.py` `ResolverKicker` | what was installed, sustain windows, age of the last kick | one call of the control pass | another daemon writes the same route, restarts |
| Delivery gate | `agent.py` `_packet_datapath_delivering` | samples of what was handed up | read by two threads | a route earned by keepalives alone |
| Uplink loss | `agent.py` `match_interfaces`, `probe_paths`, `_withdraw…`; `net.py` `AddressLossMonitor` | bound legs, probe in progress, heal ladder | a pass without a lock, callbacks of the monitor | a verdict that undoes a newer one |
| Tunnels and firewall | `agent.py` `_ensure_path_tunnel`, `net.py` `ensure_firewall` | interfaces, tables, rules, chains and what is remembered of them | each a command that may fail | half-made kernel state |
| Shaper | `shaper.py`, `agent.py` `_ensure_bond_shaped` | estimate, rate applied, qdiscs | tunnel and rate of a pass | two directions, one of which fails |
| Home's address | `agent.py` `_resolve_home_ip`, `store.py` `HomeAddressStore` | cached and stored address | resolve, boot | DNS needs the bond that needs DNS |
| Idle cadence | `agent.py` `_sync_idle_cadence`, `leg_verdict.py` | ages of probes and replies | a pass, a probe, a reply | slow probes against a fixed verdict of silence |
| Usage books | `usage_ledger.py`, `store.py` | bytes per billing period, the file | sample, flush, roll over, load | power cuts, clocks that are wrong |
| Telemetry queues | `telemetry.py`, `hub/hub.py` | bounded queue, worker, batch | offer, take, post, close | a full queue against the end marker |
| Hub | `hub/hub.py` | last word on every router, phones heard | poll, push, the three views | the poller may be slow or dead |
| Home bond server | `home/bond-server/zippie_home.py` | `server.json`, conf, interface, redirects | init, add-client, add-path, up, down | a command killed between two of its steps |
| Pairing | `pairing.py`, `console.py` | open requests, codes | ask, approve, collect, expire | collect and request are two steps |
| Keys and authentication | `auth.py`, `musterwrt.py` | rung of each end, key files, keys in use | climb, rotate, refresh, restart | an end reads its files only at start |
| Router watchdog | `travel/gl-mt3000/watchdog.sh` | counters in /tmp, marker and budget in /etc | one run of the script | power cut between two of its commands |
| Everything else | console pages, telemetry formats, Wi-Fi, companions, Go port, deploy | | | I/O, presentation, or a program of its own |

How they interact: the agent's control pass reconciles the roster, binds interfaces,
makes tunnels or links, probes the legs, weighs them, sheds some, holds some at the gate
and installs the route; the callbacks of the address monitor and the console's threads run
between any two of these.  The pass calls the scheduler and the link table of the
transport, whose loop (`run_once`) reads sockets, hands each datagram to `_on_link_data` and
ends every turn with `tick`.  `tick` is, in order, home's probes and standdowns, one loss
sample for the scheduler, the release of stalled gaps, the requests that are due, and
adaptive recovery.  `_on_link_data` is, in order, authentication, epoch gate, roaming, leg
credit, control frames, and then resolve, push and gap scan.  The two ends share nothing
but frames; the hub, the directory and home's provisioning tool share nothing with the
agent but files and HTTP answers.

`PROJECT.json` lists every component with its status, and under `hazards` what can
go wrong at which line.

## Modules

| Module | Models | Uses |
|---|---|---|
| `InOrderDelivery` | what the receive side promises: in order, at most once, per stream | |
| `Reassembler` | `Reassembler`; refines `InOrderDelivery` | |
| `NackTracker` | `NackTracker`, one operator per method on a tracker record | |
| `ReceivePath` | `_on_link_data`'s data path, `_note_gaps`, `tick`, the stream reset | `Reassembler`, `NackTracker` |
| `RetransmitBuffer` | `RetransmitBuffer` | |
| `Recovery` | one direction of a bond: sender, legs, receive path, NACKs back | `ReceivePath`, `RetransmitBuffer` |
| `AdaptiveRecovery` | `AdaptiveRecovery.maybe_adapt` and `_maybe_adapt_recovery` | |
| `EpochGate` | both ends' gates, probes and replies, restarts, home's return address | |
| `Scheduler` | `Scheduler` | |
| `HomeLegs` | home's logical links, probes and standdown | |
| `JoinGate` | the anti-flap gate | |
| `LegWeight` | state, weight and rationed rises of one leg | |
| `Shedding` | tiers, shedding and which legs carry | |
| `LinkTable` | path ids, links and what is measured under an id | |
| `LegRoster` | announced legs, leases and overrides | |
| `DefaultRoute` | the default route, standing aside, the resolver kick | |
| `DeliveryGate` | how the packet datapath earns the route | |
| `UplinkLoss` | control pass and address monitor on the loss of an uplink | |
| `LegTunnels` | tunnels, tables, rules and firewall of route mode | |
| `BondShaper` | the packet tunnel and its shaper | |
| `HomeAddress` | the cached and the stored address of home | |
| `IdleCadence` | probes of an idle bond and the verdict of silence | |
| `Watchdog` | `watchdog.sh` and the service it stops and starts | |
| `UsageBooks` | usage per billing period, flushes, clocks | |
| `SendQueue` | the four queues of telemetry and traces | |
| `HubStatus` | poller, registry and the views of it | |
| `HomeServer` | the provisioning tool of home | |
| `Pairing` | codes and the token | |
| `KeyRotation` | the authentication ladder and the rotation of the key | |
| `MCMembership` | roster, links, weights, shedding, gate | the five modules |
| `MCNetwork` | route, uplinks, tunnels, shaper, address, idle probes, watchdog | the eight modules |
| `MCServices` | books, queues, hub, server, pairing, keys | the six modules |
| `ReceivePathProofs` | theorems about `Reassembler`, `NackTracker`, `ReceivePath` and `Recovery` | `SetSums` |
| `SchedulerProofs` | theorems about `Scheduler` | `SetSums` |
| `StreamEndsProofs` | theorems about `AdaptiveRecovery` and `EpochGate` | |
| `HomeLegsProofs` | theorems about `HomeLegs` | |
| `MembershipProofs` | theorems about `MCMembership` | `SetSums` |
| `NetworkProofs`, `ServicesProofs` | theorems about `MCNetwork` and `MCServices` | `SetSums` |
| `SetSums` | lemmas: sums and maxima over finite sets, ranks of a strict order | |
| other `MC*` | model values and bounds for TLC | |

`MCMembership`, `MCNetwork` and `MCServices` put several components under one
specification.  Their variable `part` says which component a behaviour is about; the others
stay as they started.  Within a control pass each component hands the next one a verdict,
and the next one's module takes any verdict there may be as its input, so nothing is lost by
looking at them one at a time, and the product of their states is not needed.  Where two
components really share state (the monitor and the pass in `UplinkLoss`, the transport's
thread and the control thread in `LinkTable`, the console and the pass in `LegRoster`,
tunnels and firewall in `LegTunnels`), they are in one module and interleave.

Conventions.

- *Time is kept as ages.*  A timestamp in the code is the time elapsed since, and a
  clock step increases every age up to the largest value a comparison tells apart.
  The unit is abstract; thresholds keep their order.
- *A packet is its sequence number*; its bytes decide nothing here.  A loss reading
  is where it lies with respect to the threshold and its half.
- *Settings that are fixed while the process runs* (origin grace, tracker limits,
  the traffic a scheduler sees) are chosen in the initial state from a set, so that
  one run covers several settings.
- *The network is external.*  It is modelled from what the code assumes of it, and
  marked external in the map.
- Definitions called "Mutant" are wrong variants of the definition below them.  No
  specification uses them; substituting one for the real definition must make the
  property named in `PROJECT.json` fail.

How state and actions correspond to the code, where it is not one to one:

- `Reassembler`.  `push` is four alternatives (`DropDuplicate`, `DropTooLate`,
  `HoldForOrigin`, `Accept`), `tick` three (`TickIdle`, `TickCommit`,
  `TickAbandon`).  The loops `_drain`, `_sweep` and `_force_skip` are described by
  their result (`DrainsTo`, `SweepsTo`, `SkipsTo`).  `delivered` is a history
  variable.  `AgeMax` caps ages.
- `ReceivePath`.  `TransportTick(d)` is the last three steps of `tick`; `d` is the
  deadline adaptive recovery chooses, any of `Deadlines`.  `PeerRestart` is the
  reset in `_adopt_epoch` on an answered probe; when a data frame claims the
  restart the code goes on with that frame, which here is `PeerRestart` followed
  by `OnLinkData`.  A resend arrives as `NoLeg`, since its leg is not looked at.
- `Recovery`.  The receive path with a sender.  Frames of one leg keep their order
  or are lost, which is what the forward-progress rule of `due` relies on; legs are
  independent of each other.  The sender's legs are taken to be healthy.
- `AdaptiveRecovery`.  The two cumulative counters matter only through "has either
  risen since the last evaluation" (`evidence`).  `worst_rtt` and `peer_skew` are
  what the next pass will read.
- `EpochGate`.  An epoch is the number of the incarnation.  A frame records the
  travel incarnation at its far end, because a restarted travel has a new source
  port.  NACKs are left out: they pass only with the known epoch and change
  nothing the gate reads except the time of the last good frame.
- `HomeLegs`.  A leg is "ok", "deaf" (heard, but home's frames vanish), "error"
  (heard, but sending fails) or "dead", and changes at any time.  All frames are
  past the gate.
- `Scheduler`.  Credit is in units of 1/`Unit` packet with `Unit` a common multiple
  of the totals that occur, so no share is rounded (the code uses floats).  Each
  call is one step: the agent and the loop hold one lock.  The legs that carry are the set
  `Carrying`; `waited` and `lossy` are histories, and `Proven` is the constraint that a
  spraying bond has a leg with a share.
- `NackTracker`.  `AgedTracker` is the passing of time; `order` is the queue `due` looks at,
  from which an entry that is no longer pending drops out when it is reached.
- `DeliveryGate`.  `handed` is the history of what was handed up; the samples the gate keeps
  are pruned by `Trims` when they leave the window.
- `JoinGate`.  The streak is counted in half points, as the penalty of a miss is; a
  share is none, the floor, or what the policy computed.
- `LegWeight`.  Milliseconds and percent, the averages in steps of `Grain`; the constants
  of the policy are the code's numbers.
- `LinkTable`.  What is measured on a link is the leg it was measured on, which is what a
  reused id can get wrong.  The control thread does one leg at a time; `remove_link` is two
  steps, since it drops the round trip before it takes the lock.
- `UplinkLoss`.  A step of the pass is what runs between two commands that take long.  A
  pass may end by an exception anywhere, and `ip monitor` may die.
- `LegTunnels`, `BondShaper`, `DefaultRoute`.  Every command may fail; a command that is two
  writes is two steps.
- `UsageBooks`.  A date is the number of its day; months are of one day and of two, so
  that cycle days must be clamped.
- `SendQueue`.  The four queues differ in what a full one drops and in what is a batch;
  `sink` says which one a behaviour is about.
- `HomeServer`.  Every command is the sequence of its writes, and may be killed after each;
  a torn write of `server.json` leaves it unreadable, a torn append a prefix.
- `KeyRotation`.  A frame is what decides its acceptance: unsigned, or the key it is signed
  with.  The operator follows the order of `auth.py`; muster's refresh is three writes.
- `Watchdog`.  A run of the script is one step up to its first lasting command, then one
  step per command.  A one-line file is written whole or not at all, the clock is right,
  and a step of the budget's window is far longer than a run.  The operator enables the
  service when he starts it.

## Runs

Deadlock is checked in every run but `services`, where a hub that was told to stop stops.

**`reassembler`** (`MCReassembler`, 125 000 states).  Five sequence numbers that
arrive in any order and any number of times, a buffer of 2, a dedupe window smaller
than the numbers in flight, origin grace 0 and 1, two deadlines that may change at
any time, restarts of the peer.  Delivery is in order and at most once even when the
window has forgotten a number (`InOrderOnce`, and `RefinesService` against
`InOrderDelivery`); each number passed over is counted once, a stream never waits for
what it holds, the lazy indexes cover the buffer in order of age, the buffer is bounded
and the origin is the earliest number (`BufferConsistent`); no gap is given up early
(`NoEarlyAbandon`); everything held comes out (`Released`).  `BoundedArrivals` limits the
lazy arrival queue, which has no bound of its own.

**`receive_path`** (`MCReceivePath`, 914 000 states).  Four numbers, two legs, data
and resends in any order, a moving deadline and ceiling, restarts; a tracker with
room for one number and for all, a scan of one number and of all.  Two gaps can be
pending at once, which is what `due`'s look at the head of its queue is about.  What
is pending is really missing, nothing is lost between the queue and the set, the one-pass
cursor finds what a full scan would (`PendingTracksGaps`), and `due` asks for exactly what
a scan of the whole table would (`AsksWhatIsDue`).

**`recovery`** (`MCRecovery`, 543 000 states).  Three packets over two legs of
arbitrary skew that lose frames, a ring of two packets, one resend each, a hold
that moves.  Skew alone never costs a resend (`AsksOnlyForTheLost`), resends are
bounded and avoid the leg that lost the packet (`ResendsAreBounded`), and the ring
keeps both limits although only its oldest entry is looked at (`RingStaysFresh`).

**`stream_ends`** (`MCStreamEnds`).  What the ends keep about each other.  Adaptive
recovery with the deployed constants (baseline 250 ms, step 50 ms, five healthy evaluations,
at most four times the baseline) and round trips and skews on each side of every threshold:
range and the three windows (`AdaptInStep`), narrowing that is earned
(`NarrowsOnlyWhenCalm`), a quiet bond that relaxes (`WindowsRelax`).  The epoch gates: both
ends send, probe and restart once each, two frames in flight, one outstanding probe per
end; one restart each gives all the combinations of stale and live epochs, and two frames
let a stale one overtake or follow a live one.  Replies follow the stream (`GateInStep`), a
stream that is heard is kept (`HeardStreamStays`), and no restart of either end wedges the
bond, issue #334 (`EndsReconverge`).

**`scheduler`** (`MCScheduler`, 1.2 million states, path ids symmetric).  Three legs,
so that the fan-out of two leaves one out; two samples of hysteresis instead of
three.  One deployment sprays with shares 0 and 1, the other duplicates with shares
0, 1 and 2 and adaptive duplication on; the two halves of the state do not influence
each other, and running them together would only multiply states.  Credits stay bounded, a
leg with a share waits no longer than its share and the number of legs allow
(`WaitsByShare`), and the wide state is that of the legs there are (`SchedulerConsistent`);
with these shares nobody waits for more than two packets per leg (`SpreadsSmoothly`), copies
go to the best legs and a clean leg ends the wide state (`DuplicatesWell`), which is earned (`WideningIsEarned`).  The constraint `Proven` leaves
out spraying while every share is zero, see the next run.

**`scheduler_bootstrap`** (violation).  Without the constraint `SpreadsSmoothly`
fails: while no leg has a share every spray is charged and nothing is credited
(`datapath.py:343`), and the debt distorts the shares that come later.  The comment
at `datapath.py:256` promises a smooth spread.

**`home_legs`** (`HomeLegs`, 125 000 states).  One travel leg, whose state changes at
any time, and the listener.  A leg that works again is used again, and a deaf one is given
up for good although it is heard, until it answers a probe (`LegFollowsHearing`, of which
`StanddownHolds` is a part); before the first answered probe being heard is enough (`HeardLegCarries`).  Legs share nothing but `answered`; one leg and
the listener show the interplay.

**`home_legs_nack`** (violation).  When travel's first leg has path id 0, a NACK sent
on another leg carries id 0 (`transport.py:1238`) and home moves leg 0's address to
the wrong leg (`OwnAddress`); `transport.py:1295` takes the header's id to be the
leg's identity.  The next frame of leg 0 moves it back.

**`membership`** (`MCMembership`, 1.9 million states).  Two legs at the gate, one preferred to
the other: the bond is never starved and no leg is held for good (`LegsJoinFairly`), and
a full share is earned anew (`ReadmissionIsEarned`).  Two legs, two devices and two path
ids, one leg relayed and one device on home's LAN: an id stands for one leg, and nothing
measured on one leg is held against another (`IdStandsForOneLeg`).  A leg with round trips
and losses on both sides of each threshold and two legs with three tails: rises are
rationed, and shedding takes no leg the bond needs and none for good
(`CarrySharesSound`).  A WAN and a phone, with announcements, edits and expiries between
the steps of the pass: two passes after the last change everything has the value that
precedence gives it (`RosterSettles`).

**`network`** (`MCNetwork`, 820 000 states).  Two nexthops, passes that fail and a daemon that
writes over the route: what is remembered of the route is so, one that was overwritten comes
back, and the packet datapath earns it by what it delivered (`DefaultRouteSound`); the
bond stands aside and returns only on sustained readings (`StanddownIsSustained`).  An
uplink that loses address or route, with a monitor that may die and callbacks that come
late: it is withdrawn or bounced in time (`UplinkLossHandled`).  Two tunnels on two devices
and a shaper with two legs, every command able to fail: the kernel ends up as the agent
means it to be (`KernelConverges`).  Two addresses of home and a captive network, a probe
interval of eight units and a verdict of silence after twelve: there is always somewhere to
dial, and idling costs no leg (`HomeStaysInReach`).  The watchdog, with power cuts at any
command: a teardown only on failing checks about a bond that carried, a re-arm owed for
what was torn down, and fewer than twice the budget of re-arms in any window
(`WatchdogSound`).

**`services`** (`MCServices`, 2.3 million states).  Three months with a power cut or a wrong
clock on any day: usage is that of its period and is written in time (`BooksSound`).
Six items through a queue of three, posts that fail, a close at any time; three routers, one
of them misconfigured, a poller that may be slow or die: what is reported is true and
arrives (`ReportsAreHonest`).  A server provisioned by commands that are killed anywhere
(`ServerSound`).  Three phones' hosts with two open requests, and three keys over two
ends that restart at any time: a token is earned, and no order of the rollout cuts the bond
(`CredentialsSound`).

**`leg_roster_follows`** (violation).  Two phones that state no tier are each other's anchor
(`leg_roster.py:484`), and hold the tier the WAN had before the operator demoted it
(`FollowsTheBond`); `test_announced_tier_follows_the_bond.py` says such a leg "must follow the
bond".  With one such phone `RosterSettles` shows that it does.

The type invariants of the components are checked as one in each of the last three passing
runs (`MembershipTypeOK`, `NetworkTypeOK`, `ServicesTypeOK`).

### Bounds

Sequence numbers, legs, restarts, frames in flight and ages are bounded by
constants; each bound is named in its module and is the smallest at which every
action and every alternative is taken and the case a property is about occurs.  The
bounds on ages lose nothing, since no comparison tells larger ages apart.  The values are in
the `.cfg` files, each under the name of the setting it stands for: windows and limits of
2 or 3 where the code has 3 to 10 (`JoinStreakMin`, `EnterAfter`, `StableMin`, ...), large
enough that one short of the limit and one past it differ; the deployed values where a
relation between them matters (adaptive recovery, the idle interval against the time of
silence, the weights of the policy); two of whatever competes (legs, devices, hops, tunnels,
requests), three where one of them must be left out (routers, hosts, keys, legs of the
scheduler).  Histories that would grow (`MaxEvents`, `MaxItems`, `MaxDelivered`, `MaxKeys`,
`MaxGrants`) stop at a bound one above what fills the queue or window they go through.

### Fairness

- `Reassembler`: `WF(Tick)`, `WF(ClockStep)`.  `run_once` ends every pass with `tick`,
  whatever arrived, and `select` times out after 50 ms.
- `AdaptiveRecovery`: the clock, and `_maybe_adapt_recovery` at the end of each pass.
- `EpochGate`: the clock; travel's data, because its WireGuard interface has a
  persistent keepalive (`net.py:374`); probes, which both loops send at least every
  two seconds; and strong fairness of delivery: a leg that is not dead lets a data
  frame of travel, and a probe with its answer, through again and again.  Nothing is
  assumed of home's data.
- `HomeLegs`: the loop and the clock, travel's probes on a leg that can be heard, and
  strong fairness for answers that can arrive.

The other modules state bounded promises instead of liveness: a counter of passes says how
long something has been wrong, and the invariant bounds it (`stuck`, `missing`, `flushed`,
`unaware`, `denied`, `idle`).  That needs no fairness and says more than "eventually".

No fairness is assumed of what an operator, the policy layer or the network
happens to do.

## Proofs

`tlapm` checks the proofs for every value of the constants, under the assumptions stated
beside each constant: sizes, periods and limits are natural numbers, sets that are counted or
summed are finite, sentinels such as `NoLeg`, `Nobody` or `NoRoute` are none of what they
stand beside, an explicit maximum exceeds the baseline as the constructor demands, no configured
leg has the name of a phone's, a billing day is at least one (`sane_billing_day`, `store.py:152`).  TLC
evaluates each of these assumptions in the run of its module.  Beyond them, eight theorems
have a hypothesis, each named below with the reason.

### The receive path (`ReceivePathProofs`)

- `TypeCorrect`, `InOrderOnceCorrect` and `ReassemblerRefinesService`.  In-order delivery is
  not inductive: a skip could jump behind something already delivered if the heap it asks
  did not cover the buffer.  `StreamInv` adds that the buffer is in the heap, that the next
  number owed is above all that was delivered and, once the origin is committed, below all
  that is held.  The dedupe window plays no part in the argument, so at-most-once delivery
  does not rest on its size.
- `BufferAlwaysConsistent` and `NeverEarlyAbandon`.  `BufferInv` adds the lazy arrival queue:
  it covers the buffer (`Covers`) and is in order of waiting time (`Queued`), so that its
  first live entry is the packet that waited longest, which is the one `_force_skip` and
  `tick` decide by.
- `DueIsAskedFor`.  That `due` may stop at the first entry that must wait rests on
  `TrackerInv`: the queue is in ascending order of numbers and of age (`Lined`), everything
  pending and not asked for is in it (`Listed`), and nothing in it lies above the gap cursor
  (`Upto`), which is why what the next scan appends keeps the order.  With these, an entry
  behind one that must wait has no reason of its own to be due: a leg that passed it has
  passed the one in front as well.
- `PendingStaysHonest`: whatever the grace, nothing pending was received.  `PathInv` adds
  `SeenInv`: a number the dedupe window knows is held or behind the stream, so the scan,
  which asks the window and the buffer, misses nothing that arrived.
- `GapsAreTracked`: the one-pass cursor finds what a scan of everything would
  (`PendingTracksGaps`).  It has the hypothesis `origin_grace = 0`, the code's default
  (`transport.py` never passes another).  `GapInv` adds that the origin is committed with the
  first number and that the high-water mark is held or behind the stream.  With a positive
  grace the formula is not inductive: a frame that arrives below the provisional origin moves
  `next_seq` back under the cursor, and the numbers in between were scanned before they were
  owed.  The run checks a grace of 1 as well, with its small windows.
- `RingAlwaysFresh`, of `Recovery`.  The ring is in the order in which its packets were sent
  (`OldestFirst` in `RingInv`), so an eviction that stops at the first fresh entry leaves no
  stale one behind it; an answer counts a resend in place and moves nothing.
- `OnlyTheLostAreAskedFor`.  `WireInv`: leaving resends aside, the frames on a leg rise in
  number (`Rising`), are below the next one to send (`Under`), and lie above the highest the
  tracker has heard on that leg (`Above`).  A number that the progress gate lets pass below
  the ceiling was passed on every leg in play, hence is under way on none of them.
- `ResendsStayBounded`.  A frame is put on a leg without a new packet only by the answer to a
  NACK, which counts before it sends and never takes the leg of the packet if there is
  another.

### The scheduler (`SchedulerProofs`)

- `SchedulerStaysConsistent` holds of behaviours in which a bond that sprays has proven a
  leg (`[]Proven`), the same constraint the run has; without it the promise is false, which
  `scheduler_bootstrap` shows.  `CreditBounded` speaks of one leg, and no bound on single
  legs is inductive.  `Spread` bounds every *set* of legs: what k of n legs are ahead or
  behind together is at most `k(2n - k - 1)/2` packets.  The room is concave in k, and the
  leg that sends is the one with the most credit, so a set without it has room left for
  what it earns in the round: one member can be exchanged for the sender and the sets with
  one more and one fewer bound the rest.  Joining, leaving and flapping reset a credit
  to 0 and are covered by the smaller set.
- `WaitsByShare` follows with `WaitInv`: a waiting leg's credit holds what it was due in
  each round it watched.
- `DuplicationIsSound` and `WideningIsAlwaysEarned` rest on `Evidence`: as many of the last
  samples of every carrying leg were lossy as the counter says, and none of a wide bond's
  was clean in more.  The merit order is a sort of which only the rank is used.

### The ends of a stream (`StreamEndsProofs`)

- Adaptive recovery: `AdaptiveTypeCorrect`, `WindowsStayInStep`, `NarrowingIsEarned`,
  `DeadlineStaysInRange` and, from these, `AdaptAlwaysInStep`.  The inductive invariant adds
  that the streak the code counts is at most the run of healthy evaluations there really
  was (`calm`).  The range has the hypothesis that the baseline does not exceed the maximum,
  which the constructor enforces only for an explicit maximum.
- The epoch gates: `GateTypeCorrect`, `RepliesAlwaysFollowStream`, together
  `GateAlwaysInStep`, and `HeardStreamAlwaysStays`, for any number of restarts, any takeover
  window and any number of frames in flight.

### Home's legs (`HomeLegsProofs`)

- `HomeLegsStayApart` and `AddressesAreOwn`: mix-ups are confined to the leg that has the
  listener's id, which `home_legs_nack` shows.  The second has the hypothesis that no leg has it.
- `StanddownAlwaysHolds`.  `_home_probe_overdue` asks the oldest probe that is remembered, and
  a full list forgets the oldest with each new one.  `Spaced` says that the remembered ones
  are an interval apart, so that the second of a full list is as old as all but one of the
  intervals together.  Hence the hypothesis `ListOutlastsStanddown`: `(MaxOutstanding - 1) *
  ProbeInterval` is no less than the standdown's age.  As deployed, 7 intervals of 2 s span
  6 s (`transport.py:389`, `:446`, `:447`); the code does not check it, and with a shorter
  list one heard frame could undo a standdown.

### Which legs there are (`MembershipProofs`)

- `LegsAlwaysJoinFairly` and `ReadmissionAlwaysEarned`.  `Denied`: a leg that waits has been
  held for as long as it was denied, so the bound of the hold is a bound of the wait.
  `Earned`: but for a leg the valve released, the streak the code counts is no more than what
  the leg has shown since it last carried in full.
- `IdsStandForOneLeg`.  `IdOwned` says it of the *last owner* of each id and not of its
  holder: links, probes under way and the loss ring of an id are its last owner's, also after
  the leg has gone and while `remove_link` is between its two halves.  That is what makes the
  forgetting in `_allocate_transport_pid` enough: an id that is given away has no probe
  under way, so no reply can bring the former owner's figures back.
- `SharesAlwaysSound`.  For the ration of rises: the passes that raised a carrying leg are
  among those the budget counts (`climbs` is part of `rise_ages`), and a weight above that of
  the last pass means that there is room for one (`RoomToRise`), which the monitor thread's
  own recomputing cannot use up.  For shedding: after some passes of steady answers no tail is
  above where the highest would have come down to (`TailComesDown`), and the mean is at two
  thirds of the sample (`MeanComesUp`).  The theorem has the hypothesis `SpreadTells`: the
  spread ratio is the default of one and a half at least and no round trip below two units is
  shed.  With the ratio 0, which the code takes for off, a distant leg stays shed for good.
- `RosterAlwaysSettles`.  A reconcile folds over the phones in any order, each placed by the
  tiers that those before it left.  Its lemmas write the fold as a function on initial
  parts of the list (`RosterUnfolds`, `TakesAll`): an announcement moves its own phone alone,
  so that in whatever order they are taken a phone that alone states no tier is placed by
  tiers that no other announcement of the pass changes.  `RosterInv` says what each step of
  a pass without a change has established for the next one: the announced legs are the
  leased phones (`JoinedIsLeased`), each field is in force once the overrides were applied,
  the tiers that no pass works out from the others' are in force before that already in the
  second pass (`TiersStand`), and that is why the phone placed by them stays where it is
  (`LoneFollows`).
- `MembershipTypeCorrect`.  For the weights this is arithmetic: every step of the chain in
  `recompute` (round trip, loss, cost, damping) ends in a natural number within the cap.

### What the agent does to the kernel (`NetworkProofs`)

Each part has its inductive invariant; the last section puts the parts together, a step of
one being a stutter of the others.

- `WatchdogIsSound`.  `BudgetInv`: all starts but those of the re-arms the budget still
  remembers are older than the window, so that fewer than `MaxRearms` of the old ones are
  left when it is renewed.  `OwedInv`: the marker is there all through a teardown, and what
  is down is owed a re-arm or was absolved.  `EvidenceInv`: the count of failures never
  exceeds the failing checks about the bond.
- `HomeAlwaysInReach` needs `StaleTimeHasRoom`: a pass and the active probes take at most
  a third of the time of silence each.  The code caps the idle interval by that time and
  does not check the rest; the deployed values have the room.
- `DefaultRouteIsSound` and `StanddownStaysSustained`.  A clobbered route heals because the
  counter of passes since is at most the forced pass's counter; a sustain window is no older
  than the run of passes it stands for.  That the delivery gate opens on recent payloads
  only (`ProveInv`): each sample counts exactly what was handed up before it, so a
  difference of two samples is a number of payloads that came later than the older one.
- `UplinkLossIsHandled`.  `Losses` says which of the pass's sets a lost leg may still be in
  at each point of the pass; `Patience` that the passes a leg has been stuck for and those the
  heal ladder has left come to two cooldowns.
- `KernelAlwaysConverges`.  Tunnels of legs whose commands all succeeded are steered to
  (`LegsDone`), a flush is followed by a fill within the forced interval (`ChainsInv`), and
  the shaper's rate is in step wherever the pass stands (`InStep`).
- `NetworkTypeCorrect`.

### What stands beside the datapath (`ServicesProofs`)

- `CredentialsAlwaysSound`.  The rotation's invariant is the list of stages the rollout can
  be in (`OnOneKey`, `Unserved`, `Served`), each with the files and loads the router may
  have; the pairing's says a code stands for one request while it is open, wherever it was
  shown or typed, and that each approval is owed at most one grant.
- `ReportsStayHonest` needs `BoundHasRoom`, a staleness bound of two cycles at least (the
  code's `STATUS_STALE_CYCLES` is 3): a cycle may visit a router last that the one before
  visited first.  `InCycle` bounds the age of each word by the fetches made in the cycle.  For the queues, `OrderKept` relates queue, batch, posts and losses, and
  `ClosedKept` says where each item of the time of closing can be.
- `BooksAlwaysSound`.  `BooksInv` says the same of what is in memory and of what is on disk,
  so that a power cut may put the one in the place of the other: it is no more than was
  ever counted, it fits the period it is filed under (`FitsPeriod`), and it came after the
  period before it.  A settled leg is at the last boundary, and no write is put off
  longer than its interval.  It rests on lemmas about the calendar: the last days of the
  months rise (`LastUnfolds`, `LastRises`), a day lies in one month (`MonthHolds`), a clamped
  billing day in its month (`ClampFits`), and the start of the period a day is in is a day of
  the calendar after which no other boundary has come (`PeriodHolds`); all for months of any
  lengths and any billing day.
- `ServerStaysSound`.  `PathsOwned` relates `server.json`, the conf, the interface and what
  the command under way has made so far; `CommandKnows` what it read when it began.
- `ServicesTypeCorrect`, for all six parts.

### What the proofs rest on

`SetSums` states once what they share: sums over finite sets under change of one term, the
sum over a union, averages and maxima, ranks of a strict order.  The library's induction
theorems take an operator for a parameter, which the provers cannot instantiate; here the
induction is over a *set* of naturals, whose least missing member is `WFMin`'s.

Only model-checked:

- liveness (`Released`, `WindowsRelax`, `EndsReconverge`, `HeardLegCarries` and what
  `LegFollowsHearing` says of "again and again"): the prover does not handle fairness;
- `SpreadsSmoothly`: its bound, two packets per leg, is the one TLC finds to hold of three
  legs with equal shares; with unequal shares a leg rightly waits longer.  `WaitsByShare` is
  the form for any shares and any number of legs, and is proved with a coarser bound.


## Observations without a run

- A pass of the loop that comes late gives a gap up and then asks for it, because
  `tick` does not call `forget_before` between `reassembler.tick()` and `nacks.due()`
  (`transport.py:1756`); `retransmit.py:425` says "The stream moved past these; stop
  asking."  The answer is dropped as too late: one wasted resend.
- With a baseline above 1000 ms and no explicit maximum, the computed maximum
  (`transport.py:296`) is below the baseline, and after a skew reading the deadline can
  narrow below it; `test_adaptive_recovery.py:239` says it must not.
- While an origin grace runs, neither `max_buffered` nor any other limit applies to
  the buffer (`datapath.py:599` returns before the overflow check).  Deployments run
  with a grace of 0.
- The progress gate of `due` knows only the legs that have been heard; a leg that is
  slower than the ceiling and not yet heard does not hold a request back.
- A data frame of an earlier incarnation that is delayed by more than the takeover
  window, and arrives while the live stream is that quiet, moves an end back; the
  next live frame after another quiet window moves it forward again.
- Watchdog.  A check that finds zippie down as the sole uplink leaves by a path of its own
  (`watchdog.sh:279`) and does not void the count of failures, as every other check that
  is not about a carrying bond does.  With the trip marker still there after a reboot, an
  agent that dies for one check while the other uplink is away is torn down before a whole
  window of failures; `watchdog.sh:357` says a leg "gets the whole MAX_FAILS window".
- Watchdog.  The re-arm removes the marker before it enables and starts the service
  (`watchdog.sh:238`).  A power cut between them leaves a service that was disabled down for
  good, and a start that fails is not tried again.  A service started by hand and not
  enabled has its trip cleared and is gone after the next reboot.
- Join gate.  The release of the last leg sets its streak to the full one, contrary to
  "SPENT, NOT BANKED": that leg re-enters in full after its next failure.
- Links.  A link whose socket could not be opened counts as a link and is not opened
  again until its leg changes (`transport.py:857`); a link is not rebuilt when only its device
  changes; `remove_link` drops the round trip before it takes the lock, and a reply in
  between puts it back for the next leg of that id.
- Uplinks.  `agent.py:1498` says no probe can bring a withdrawn path back; a probe that was
  under way writes its verdict after the withdrawal, and the path is in the route until
  the next whole pass has ended, which is what `GoneIsWithdrawn` bounds.  A leg withdrawn
  for a lost route still has its address and is bound again by the next pass.
- Delivery gate.  "A fresh stream re-earns the route from zero" (`agent.py:777`) asks for
  counters that went back; a restart of home (`reset_stream`) keeps them, and the gate does
  not notice it.
- Default route.  The sustain windows stand still while there are no hops; a kick of the
  resolver that was suppressed is not made up for.
- Firewall and tunnels.  A rebuild interrupted after its flush leaves the memo as if it
  were done; return codes of iptables are ignored; a refused pin leaves the old route in
  the private table; a forced rebuild has a window with empty chains.
- Shaper.  After the tunnel is remade sqm puts the operator's rate on while the controller
  keeps the old one until the estimate drifts by the hysteresis (`agent.py:504`,
  `shaper.py:164`); a read-back that times out ends the pass.
- Heal ladder: not reset when the leg recovers.  Address: a captive network's private
  answer is dialled for a whole TTL.  Idle probes: two lost in a row make a leg silent.
- Books.  A clock that is ahead rolls the period over; the usage of an announced leg goes
  with its lease or a restart.
- Roster.  Each pass sets an operator's tier on a phone that states none back to the bond's
  before it applies the override again (`leg_roster.py:647`); in between, another such
  phone takes it for the bond's.  `RosterSettles` therefore speaks of a phone that alone
  states no tier.  Two console threads can lose an update of `legs.json`, and an unreadable one is
  overwritten; an override of an announced leg has no baseline to return to; an announced
  name may equal a configured one.
- Hub.  `http.client.HTTPException` is not caught by `fetch_router_status` (`hub/hub.py:1331`) and
  ends the poller, which is why `HubStatus` lets it die; the timeout of a poll is one per
  socket operation; `/api/nodes` has no age at which it stops believing a router, while
  `/api/status` answers 504.
- Home server.  `server.json` and the appended peers are not written atomically; an init
  killed before the conf needs another; redirects of ports that are no longer named are never
  purged; up on a live interface moves the redirects to the configured WireGuard port
  while the interface still listens on the one it was brought up with (`zippie_home.py:718`).
- Keys.  A refresh replaces the current key before it writes the previous one
  (`musterwrt.py:611`): a router that starts between the two knows only the new one, which is
  the exception of `RolloutKeepsTheBond`.
- Counters.  A `wg show` that fails counts as movement.

## Not modelled

- Frame layout and the MAC (`datapath.py`, `auth.py`): frames are taken to be parsed, and the
  MAC is the key it was made with.
- The classifier: `Scheduler` and `Recovery` allow each choice it makes.  The rate cap of a
  link: a refused send is a lost frame.
- Parsing and validation of configuration, command lines, the text of commands to `ip`, `wg`,
  `nft` and `uci` and of their output, HTTP and TLS, formats of telemetry and status, pages.
- `select_primary` and the single-path modes; the automatic cost class and the provider's name
  of a leg; Wi-Fi scans; rate samples for graphs.
- The other router scripts: the LAN guard, which restores a configuration, the rollback of a
  deployment, and the ones that only call others.
- The Swift and Kotlin companions are programs of their own that relay datagrams.  The Go
  port repeats the algorithms modelled here for phones and adds error correction, many
  clients and its own locking; it is a second implementation, and this project follows the
  one the router and home run.
- The copy of the package under `deploy/oke/zippie-home/zippie-pkg/` is the one home runs; the
  files it shares with the agent are the same, and home's side is mapped to it.

## Plan

What is left, in this order: books of several legs whose billing days differ; error
correction of the Go port, against `InOrderDelivery`; a bound on `SpreadsSmoothly` for any
number of legs with equal shares.
