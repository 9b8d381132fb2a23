--------------------------- MODULE MCDisplayRing ---------------------------
(***************************************************************************)
(* DisplayRing with three slots and six frames, so that the ring fills and *)
(* wraps, and two clients, which are alike.                                *)
(***************************************************************************)
EXTENDS DisplayRing

ClientSymmetry == Permutations(Clients)
=============================================================================
