---------------------------- MODULE MCMembership ----------------------------
(***************************************************************************)
(* Which legs there are, and how much each carries, for TLC: the roster of *)
(* legs, their transport links, the weight of one, the legs that are shed  *)
(* and the gate a leg that failed must pass.  A control pass takes them in *)
(* turn; each hands the next one a verdict, which the next one's module    *)
(* takes as an input, any it may be.  part says which of them a behaviour  *)
(* is about; the others stay as they started.                              *)
(***************************************************************************)
EXTENDS JoinGate, LegWeight, Shedding, LinkTable, LegRoster, TLC

VARIABLE part

Parts == {"gate", "weight", "shed", "links", "roster"}

\* A free leg and a metered one, in their order of preference.
MCLegTier == "a" :> 1 @@ "b" :> 2

\* A tail of ten comes down to one in five passes.
MCFall == <<10, 7, 5, 3, 2, 1>>

\* A phone that leaves its tier to the bond, and one that states it, from another
\* address and under another name.
MCAnnouncements == {[tier |-> 0, label |-> 1, host |-> 1], [tier |-> 2, label |-> 2, host |-> 2]}

\* The operator demotes the WAN, names a phone, and takes both back.
MCEdits == {[leg |-> "wan", field |-> "tier", value |-> 2],
            [leg |-> "wan", field |-> "tier", value |-> 0],
            [leg |-> "a", field |-> "label", value |-> 3],
            [leg |-> "a", field |-> "label", value |-> 0]}

membershipVars == <<gateVars, weightVars, shedVars, linkVars, rosterVars, part>>

MembershipInit ==
    /\ part \in Parts
    /\ GateInit /\ WeightInit /\ ShedInit /\ LinkInit /\ RosterInit
    /\ part # "shed" => tier = [l \in ShedLegs |-> 1]

InGate == part = "gate" /\ GateNext /\ UNCHANGED <<weightVars, shedVars, linkVars, rosterVars, part>>
InWeight == part = "weight" /\ WeightNext /\ UNCHANGED <<gateVars, shedVars, linkVars, rosterVars, part>>
InShed == part = "shed" /\ ShedNext /\ UNCHANGED <<gateVars, weightVars, linkVars, rosterVars, part>>
InLinks == part = "links" /\ LinkNext /\ UNCHANGED <<gateVars, weightVars, shedVars, rosterVars, part>>
InRoster == part = "roster" /\ RosterNext /\ UNCHANGED <<gateVars, weightVars, shedVars, linkVars, part>>

MembershipNext == InGate \/ InWeight \/ InShed \/ InLinks \/ InRoster

MembershipSpec == MembershipInit /\ [][MembershipNext]_membershipVars

\* The types of all five, and with them that no count goes below zero.
MembershipTypeOK == GateTypeOK /\ WeightTypeOK /\ ShedTypeOK /\ LinkTypeOK /\ RosterTypeOK

(***************************************************************************)
(* What the legs are given to carry is stable and serves the bond: rises   *)
(* of a weight are rationed (LegWeight), and shedding takes no leg the     *)
(* bond needs and none for good (Shedding).                                *)
(***************************************************************************)
CarrySharesSound == RisesAreRationed /\ CarryingSetSound

=============================================================================
