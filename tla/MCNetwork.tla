----------------------------- MODULE MCNetwork -----------------------------
(***************************************************************************)
(* What the agent does to the kernel and learns from it, for TLC: the      *)
(* default route, the gate that earns it, the loss of an uplink, the       *)
(* tunnels and the firewall of route mode, the packet tunnel's shaper,     *)
(* home's address, the probes of an idle bond, and the watchdog that stops *)
(* and starts the agent.  Each keeps state of its own; part says which of  *)
(* them a behaviour is about, and the others stay as they started.         *)
(***************************************************************************)
EXTENDS DefaultRoute, DeliveryGate, UplinkLoss, LegTunnels, BondShaper, HomeAddress, IdleCadence,
    Watchdog

VARIABLE part

Parts == {"route", "prover", "uplink", "tunnels", "shaper", "address", "idle", "watchdog"}

CONSTANTS first_leg, second_leg

\* Two legs with a tunnel each, in this order.
MCTunnelLegs == <<first_leg, second_leg>>

networkVars == <<defaultVars, proveVars, uplinkVars, tunnelVars, shaperVars, addressVars,
                 cadenceVars, watchdogVars, part>>

NetworkInit ==
    /\ part \in Parts
    /\ RouteInit /\ ProveInit /\ UplinkInit /\ TunnelsInit /\ ShaperInit /\ AddressInit /\ CadenceInit
    /\ WatchdogInit
    /\ part # "shaper" => tunnel = "absent" /\ sqm_enabled
    /\ part # "watchdog" => underneath
    /\ part # "address" => wan /\ home_at = CHOOSE p \in Publics : TRUE

InRoute == /\ part = "route" /\ RouteNext
           /\ UNCHANGED <<proveVars, uplinkVars, tunnelVars, shaperVars, addressVars, cadenceVars,
                           watchdogVars, part>>
InProver == /\ part = "prover" /\ ProveNext
            /\ UNCHANGED <<defaultVars, uplinkVars, tunnelVars, shaperVars, addressVars, cadenceVars,
                           watchdogVars, part>>
InUplink == /\ part = "uplink" /\ UplinkNext
            /\ UNCHANGED <<defaultVars, proveVars, tunnelVars, shaperVars, addressVars, cadenceVars,
                           watchdogVars, part>>
InTunnels == /\ part = "tunnels" /\ TunnelsNext
             /\ UNCHANGED <<defaultVars, proveVars, uplinkVars, shaperVars, addressVars, cadenceVars,
                           watchdogVars, part>>
InShaper == /\ part = "shaper" /\ ShaperNext
            /\ UNCHANGED <<defaultVars, proveVars, uplinkVars, tunnelVars, addressVars, cadenceVars,
                           watchdogVars, part>>
InAddress == /\ part = "address" /\ AddressNext
             /\ UNCHANGED <<defaultVars, proveVars, uplinkVars, tunnelVars, shaperVars, cadenceVars,
                           watchdogVars, part>>
InIdle == /\ part = "idle" /\ CadenceNext
          /\ UNCHANGED <<defaultVars, proveVars, uplinkVars, tunnelVars, shaperVars, addressVars,
                           watchdogVars, part>>
InWatchdog == /\ part = "watchdog" /\ WatchdogNext
              /\ UNCHANGED <<defaultVars, proveVars, uplinkVars, tunnelVars, shaperVars, addressVars,
                             cadenceVars, part>>

NetworkNext ==
    InRoute \/ InProver \/ InUplink \/ InTunnels \/ InShaper \/ InAddress \/ InIdle
    \/ InWatchdog

NetworkSpec == NetworkInit /\ [][NetworkNext]_networkVars

\* The types of all eight.  A private address never reaches the disk.
NetworkTypeOK ==
    /\ RouteTypeOK /\ ProveTypeOK /\ UplinkTypeOK /\ TunnelsTypeOK
    /\ ShaperTypeOK /\ AddressTypeOK /\ CadenceTypeOK /\ WatchdogTypeOK

(***************************************************************************)
(* The default route: what the agent remembers of it is so, one that was   *)
(* written over is put back (DefaultRoute), and the packet datapath earns  *)
(* it by what it delivered of late (DeliveryGate).                         *)
(***************************************************************************)
DefaultRouteSound == [](RememberedRoute /\ ClobberHeals) /\ RouteIsEarned

(***************************************************************************)
(* The kernel ends up as the agent means it to be, through failing         *)
(* commands, crashes and others' interference: tunnels and their tables,   *)
(* the firewall under a route (LegTunnels) and the shaper's rate           *)
(* (BondShaper).                                                           *)
(***************************************************************************)
KernelConverges == TunnelsConverge /\ RouteBehindFirewall /\ ShaperInStep

(***************************************************************************)
(* The bond can be reached: an address of home is at hand once one was     *)
(* resolved (HomeAddress), and no leg is lost to the slow probes of an     *)
(* idle bond (IdleCadence).                                                *)
(***************************************************************************)
HomeStaysInReach == AlwaysSomewhereToDial /\ IdlingKeepsLegs

(***************************************************************************)
(* The watchdog tears a bond down on evidence about that bond only, is     *)
(* owed a re-arm for what it tore down wherever the power is cut, and      *)
(* re-arms a bounded number of times (Watchdog).                           *)
(***************************************************************************)
WatchdogSound == TeardownHasEvidence /\ DownIsOwed /\ RearmsBounded

=============================================================================
