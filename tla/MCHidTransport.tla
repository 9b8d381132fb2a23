-------------------------- MODULE MCHidTransport --------------------------
(***************************************************************************)
(* HidTransport with two submissions at a time, three slots and two        *)
(* clients.                                                                *)
(***************************************************************************)
EXTENDS HidTransport

CONSTANTS c1, c2, k1, k2

TwoCallers == {c1, c2}
TwoClients == {k1, k2}
ThreeSlots == 0..2
=============================================================================
