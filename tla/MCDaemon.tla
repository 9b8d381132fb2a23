------------------------------ MODULE MCDaemon ------------------------------
(***************************************************************************)
(* Daemon with two clients, queries that return none, one or two rows, and *)
(* one plugin bundle.                                                      *)
(***************************************************************************)
EXTENDS Daemon

CONSTANTS c1, c2, b1

TwoClients == {c1, c2}
OneClient == {c1}
SomeResults == {0, 1, 2}
OneBundle == {b1}
=============================================================================
