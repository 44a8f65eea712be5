-------------------------- MODULE InOrderDelivery --------------------------
(***************************************************************************)
(* What the receive side promises the WireGuard socket behind it: packets  *)
(* of one stream come out in the sender's order and never twice.  Packets  *)
(* may be missing; a restarted peer begins a new stream.                   *)
(***************************************************************************)
EXTENDS Naturals, Sequences

VARIABLE delivered      \* what the current stream has handed up

Increasing(s) == \A i, j \in DOMAIN s : i < j => s[i] < s[j]

Extends(t, s) ==
    /\ Len(s) <= Len(t)
    /\ \A i \in DOMAIN s : t[i] = s[i]

Init == delivered = << >>

\* One call may hand up a whole run; nothing handed up is taken back.
HandUp == Extends(delivered', delivered) /\ Increasing(delivered')

NewStream == delivered' = << >>

Next == HandUp \/ NewStream

Spec == Init /\ [][Next]_delivered

=============================================================================
