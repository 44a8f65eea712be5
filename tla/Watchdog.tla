------------------------------ MODULE Watchdog ------------------------------
(***************************************************************************)
(* The dead-man switch of the router: travel/gl-mt3000/watchdog.sh, run by *)
(* cron every minute, with the service of zippie.init that it stops and    *)
(* starts.                                                                 *)
(*                                                                         *)
(* A check that only reads and counts is one step.  A teardown and a       *)
(* re-arm are several, one for each command whose effect outlives a power  *)
(* cut, and the power may go between any two of them: counters in /tmp are *)
(* then lost, files in /etc/zippie stay.  A one-line file is written whole *)
(* or not at all, and the clock is right.  Events and log lines are left   *)
(* out.                                                                    *)
(***************************************************************************)
EXTENDS Integers, Sequences

CONSTANTS
    MaxFails,        \* MAX_FAILS
    StableMin,       \* STABLE_MIN
    MaxRearms,       \* MAX_REARMS
    RearmWindow,     \* REARM_WINDOW, in steps of the clock
    SoleRearmAfter   \* SOLE_REARM_AFTER

ASSUME WatchdogAssumption ==
    {MaxFails, StableMin, MaxRearms, RearmWindow, SoleRearmAfter} \subseteq Nat \ {0}

VARIABLES
    service,         \* "running", "respawning" (procd will start it) or "stopped"
    enabled,         \* whether init starts it at boot
    underneath,      \* a default route that is not zippie's
    safe_mode,       \* the operator's marker
    fails,           \* FAILS_FILE
    stable,          \* STABLE_FILE
    soledown,        \* SOLE_FILE
    tripped,         \* TRIPPED_FILE
    rearms,          \* REARM_FILE: count, and the age of the window it counts in
    step,            \* where the script is
    evidence,        \* history: failing checks that were about a bond in the path
    starts,          \* history: ages of the re-arms, oldest first, none older than the window
    absolved         \* history: a stop that no re-arm is owed for

watchdogVars == <<service, enabled, underneath, safe_mode, fails, stable, soledown, tripped,
                  rearms, step, evidence, starts, absolved>>
counters == <<fails, stable, soledown>>
router == <<service, enabled, underneath, safe_mode>>
history == <<evidence, starts, absolved>>

NeverRearmed == [count |-> 0, age |-> 0]
Steps == {"idle", "spent", "cleared", "enabled", "tripped", "stopped"}

WatchdogInit ==
    /\ service = "running" /\ enabled = TRUE /\ underneath \in BOOLEAN /\ safe_mode = FALSE
    /\ fails = 0 /\ stable = 0 /\ soledown = 0
    /\ tripped = FALSE /\ rearms = NeverRearmed /\ step = "idle"
    /\ evidence = 0 /\ starts = <<>> /\ absolved = FALSE

WatchdogTypeOK ==
    /\ service \in {"running", "respawning", "stopped"} /\ step \in Steps
    /\ enabled \in BOOLEAN /\ underneath \in BOOLEAN /\ safe_mode \in BOOLEAN
    /\ tripped \in BOOLEAN /\ absolved \in BOOLEAN
    /\ fails \in 0 .. MaxFails /\ stable \in 0 .. StableMin /\ soledown \in 0 .. SoleRearmAfter
    /\ rearms \in [count : 0 .. MaxRearms, age : 0 .. RearmWindow + 1]
    /\ evidence \in 0 .. MaxFails /\ starts \in Seq(0 .. RearmWindow)

-----------------------------------------------------------------------------
Least(m, n) == IF m < n THEN m ELSE n

\* zippie_running: pgrep finds the agent.
ZippieRunning == service = "running"

\* any_leg_carrying asks the agent's console: a dead agent carries nothing.
MayCarry(carrying) == carrying => ZippieRunning

\* router_reachable, as far as it follows from the routes: something must carry the ping.
MayReach(reachable, carrying) == reachable => underneath \/ carrying

\* rearm_budget: a window that has aged out counts from zero, from now.
RearmBudget ==
    IF rearms.age > RearmWindow THEN [count |-> 0, age |-> 0] ELSE rearms

(***************************************************************************)
(* The decision both re-arms share: an exhausted budget stays down, any    *)
(* other is spent before anything is started.                              *)
(***************************************************************************)
SpendOrStayDown ==
    \/ /\ RearmBudget.count >= MaxRearms
       /\ UNCHANGED <<rearms, step>>
    \/ /\ RearmBudget.count < MaxRearms
       /\ rearms' = [RearmBudget EXCEPT !.count = @ + 1]
       /\ step' = "spent"

\* The router can reach the internet.
HealthyCheck ==
    /\ fails' = 0 /\ evidence' = 0
    /\ \/ /\ ~tripped
          /\ UNCHANGED <<stable, tripped, rearms, step>>
       \/ /\ tripped /\ ZippieRunning
          /\ tripped' = FALSE /\ stable' = 0
          /\ UNCHANGED <<rearms, step>>
       \/ /\ tripped /\ ~ZippieRunning
          /\ stable' = Least(stable + 1, StableMin)
          /\ UNCHANGED tripped
          /\ \/ stable + 1 < StableMin /\ UNCHANGED <<rearms, step>>
             \/ stable + 1 >= StableMin /\ SpendOrStayDown
    /\ UNCHANGED <<soledown, router, starts, absolved>>

\* Torn down, and nothing underneath.
SoleDown == tripped /\ ~ZippieRunning /\ ~underneath

\* Reachability cannot return by itself, so time decides.
SoleUplinkCheck ==
    /\ SoleDown
    /\ stable' = 0
    /\ soledown' = Least(soledown + 1, SoleRearmAfter)
    /\ \/ soledown + 1 < SoleRearmAfter /\ UNCHANGED <<rearms, step>>
       \/ soledown + 1 >= SoleRearmAfter /\ SpendOrStayDown
    /\ UNCHANGED <<fails, tripped, router, history>>

\* Mutant: the failure is counted before it is asked whether a leg carries.
NotCarryingCheckCounted(carrying) ==
    /\ ~SoleDown /\ ~carrying
    /\ fails' = Least(fails + 1, MaxFails)
    /\ stable' = 0 /\ soledown' = 0 /\ evidence' = 0
    /\ UNCHANGED <<router, tripped, rearms, step, starts, absolved>>

\* No leg carries, so zippie is not the cause and the check is not counted.
NotCarryingCheck(carrying) ==
    /\ ~SoleDown /\ ~carrying
    /\ fails' = 0 /\ stable' = 0 /\ soledown' = 0 /\ evidence' = 0
    /\ UNCHANGED <<router, tripped, rearms, step, starts, absolved>>

(***************************************************************************)
(* zippie is the only uplink: not counted.  The agent may have died since  *)
(* its console answered; a marker is then left for the sole-uplink re-arm. *)
(***************************************************************************)
OnlyUplinkCheck(carrying) ==
    /\ ~SoleDown /\ carrying /\ ~underneath
    /\ fails' = 0 /\ stable' = 0 /\ soledown' = 0 /\ evidence' = 0
    /\ \/ UNCHANGED <<service, tripped>>
       \/ service' = "respawning" /\ tripped' = TRUE
    /\ UNCHANGED <<enabled, underneath, safe_mode, rearms, step, starts, absolved>>

\* Counted; at the limit the marker is written before anything is torn down.
CountedCheck(carrying) ==
    /\ carrying /\ underneath
    /\ fails' = Least(fails + 1, MaxFails) /\ stable' = 0 /\ soledown' = 0
    /\ evidence' = Least(evidence + 1, MaxFails)
    /\ IF fails + 1 < MaxFails
       THEN UNCHANGED <<tripped, step>>
       ELSE tripped' = TRUE /\ step' = "tripped"
    /\ UNCHANGED <<router, rearms, starts, absolved>>

\* One run of the script up to its first lasting command; safe mode holds it.
Check ==
    \E reachable, carrying \in BOOLEAN :
        /\ step = "idle" /\ ~safe_mode
        /\ MayCarry(carrying) /\ MayReach(reachable, carrying)
        /\ \/ reachable /\ HealthyCheck
           \/ /\ ~reachable
              /\ \/ SoleUplinkCheck
                 \/ NotCarryingCheck(carrying)
                 \/ OnlyUplinkCheck(carrying)
                 \/ CountedCheck(carrying)

-----------------------------------------------------------------------------
\* rm of the marker and of the counter the re-arm waited for.
ClearTrip ==
    /\ step = "spent"
    /\ tripped' = FALSE /\ stable' = 0
    /\ soledown' = IF stable >= StableMin THEN soledown ELSE 0
    /\ step' = "cleared"
    /\ UNCHANGED <<router, fails, rearms, history>>

EnableService ==
    /\ step = "cleared"
    /\ enabled' = TRUE /\ step' = "enabled"
    /\ UNCHANGED <<service, underneath, safe_mode, counters, tripped, rearms, history>>

(***************************************************************************)
(* start_service, which safe mode refuses, and which may not come up.  The *)
(* re-arm is over either way.                                              *)
(***************************************************************************)
StartService ==
    /\ step = "enabled" /\ step' = "idle"
    /\ \/ ~safe_mode /\ service' = "running" /\ absolved' = FALSE
       \/ UNCHANGED service /\ absolved' = (service = "stopped")
    /\ starts' = Append(starts, 0)
    /\ UNCHANGED <<enabled, underneath, safe_mode, counters, tripped, rearms, evidence>>

\* stop and zippie down; the agent may be found alive all the same.
StopService ==
    /\ step = "tripped" /\ step' = "stopped"
    /\ service' \in {"stopped", "running"}
    /\ UNCHANGED <<enabled, underneath, safe_mode, counters, tripped, rearms, history>>

\* Found alive after the stop, it is disabled and stopped again.
EndTeardown ==
    /\ step = "stopped" /\ step' = "idle"
    /\ enabled' = (enabled /\ ~ZippieRunning)
    /\ service' = "stopped"
    /\ fails' = 0 /\ evidence' = 0
    /\ UNCHANGED <<underneath, safe_mode, stable, soledown, tripped, rearms, starts, absolved>>

-----------------------------------------------------------------------------
(***************************************************************************)
(* The power goes and comes back: /tmp is empty, init starts an enabled    *)
(* service unless safe mode is on.  Nothing says that a re-arm was under   *)
(* way once its marker is gone.                                            *)
(***************************************************************************)
PowerCut ==
    /\ step' = "idle" /\ fails' = 0 /\ stable' = 0 /\ soledown' = 0 /\ evidence' = 0
    /\ service' = IF enabled /\ ~safe_mode THEN "running" ELSE "stopped"
    /\ absolved' = (service' = "stopped" /\ (absolved \/ safe_mode \/ step = "cleared"))
    /\ UNCHANGED <<enabled, underneath, safe_mode, tripped, rearms, starts>>

AgentDies ==
    /\ ZippieRunning /\ service' = "respawning"
    /\ UNCHANGED <<enabled, underneath, safe_mode, counters, tripped, rearms, step, history>>

Respawn ==
    /\ service = "respawning" /\ service' = "running"
    /\ UNCHANGED <<enabled, underneath, safe_mode, counters, tripped, rearms, step, history>>

\* The operator enables and starts the service, as the log line of a disabled one asks.
HandStart ==
    /\ service = "stopped" /\ ~safe_mode
    /\ service' = "running" /\ enabled' = TRUE /\ absolved' = FALSE
    /\ UNCHANGED <<underneath, safe_mode, counters, tripped, rearms, step, evidence, starts>>

SafeMode ==
    /\ safe_mode' = ~safe_mode
    /\ UNCHANGED <<service, enabled, underneath, counters, tripped, rearms, step, history>>

UplinkComesOrGoes ==
    /\ underneath' = ~underneath
    /\ UNCHANGED <<service, enabled, safe_mode, counters, tripped, rearms, step, history>>

\* Time passes for the window of the budget and for the re-arms there were; a step is far
\* longer than a run of the script.
WindowAges ==
    /\ step = "idle" /\ rearms.count > 0
    /\ rearms' = [rearms EXCEPT !.age = Least(@ + 1, RearmWindow + 1)]
    /\ \E gone \in 0 .. Len(starts) :
          /\ \A i \in 1 .. gone : starts[i] + 1 > RearmWindow
          /\ \A i \in gone + 1 .. Len(starts) : starts[i] + 1 <= RearmWindow
          /\ starts' = [i \in 1 .. Len(starts) - gone |-> starts[gone + i] + 1]
    /\ rearms' # rearms \/ starts' # starts
    /\ UNCHANGED <<router, counters, tripped, step, evidence, absolved>>

WatchdogNext ==
    \/ Check \/ ClearTrip \/ EnableService \/ StartService \/ StopService \/ EndTeardown
    \/ PowerCut \/ AgentDies \/ Respawn \/ HandStart \/ SafeMode \/ UplinkComesOrGoes \/ WindowAges

WatchdogSpec == WatchdogInit /\ [][WatchdogNext]_watchdogVars

-----------------------------------------------------------------------------
(***************************************************************************)
(* The budget holds through power cuts: a router that trips, re-arms and   *)
(* reboots as often as it likes is started fewer than twice the budget in  *)
(* any span of a window.  (The window is anchored at its first re-arm, so  *)
(* two windows may meet inside a span.)                                    *)
(***************************************************************************)
RearmsBounded == Len(starts) < 2 * MaxRearms

(***************************************************************************)
(* A bond that is down is owed a re-arm: wherever the power was cut, the   *)
(* marker is there, unless a re-arm was tried and did not come up, was cut *)
(* short between the marker and the service (watchdog.sh 238-241), or safe *)
(* mode keeps it down.                                                     *)
(***************************************************************************)
DownIsOwed ==
    step = "idle" /\ service = "stopped" /\ ~safe_mode => tripped \/ absolved

(***************************************************************************)
(* A bond is torn down only on MAX_FAILS failing checks that were about    *)
(* it, each with a leg carrying and something underneath to fall back to,  *)
(* and with no check in between that reached the internet, found no leg    *)
(* carrying or found zippie the only uplink (watchdog.sh 355-380).  The    *)
(* checks of a sole uplink that is down (279-318) come before all of these *)
(* and void nothing.                                                       *)
(***************************************************************************)
TeardownHasEvidence == step = "tripped" => evidence >= MaxFails

=============================================================================
