---------------------------- MODULE MCLegRoster ----------------------------
(***************************************************************************)
(* The roster with two phones, neither of which states a tier, and an      *)
(* operator who demotes the WAN and takes it back, for TLC.                *)
(***************************************************************************)
EXTENDS LegRoster

MCAnnouncements == {[tier |-> 0, label |-> 1, host |-> 1]}

MCEdits == {[leg |-> "wan", field |-> "tier", value |-> 2],
            [leg |-> "wan", field |-> "tier", value |-> 0]}

=============================================================================
