-------------------------- MODULE MCPluginSession --------------------------
(***************************************************************************)
(* PluginSession with two callers and two bundles.                         *)
(***************************************************************************)
EXTENDS PluginSession

CONSTANTS c1, c2, b1, b2

TwoCallers == {c1, c2}
TwoBundles == {b1, b2}
============================================================================
