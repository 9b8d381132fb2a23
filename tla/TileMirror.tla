----------------------------- MODULE TileMirror -----------------------------
(***************************************************************************)
(* What a display promises its painters, without scheduler, encoder or     *)
(* transport: the screen follows the framebuffer tile by tile, each tile   *)
(* from older to newer paintings, never ahead of the framebuffer and never *)
(* back.  Contents are ordered by age; a refresh may skip paintings and    *)
(* may bring only some of the tiles up to date.                            *)
(***************************************************************************)
EXTENDS Naturals

CONSTANT Tiles

VARIABLES
  wanted,   \* content of each tile in the framebuffer
  shown     \* content of each tile on the screen

Contents == [Tiles -> Nat]

Init ==
  /\ wanted = [t \in Tiles |-> 0]
  /\ shown = wanted

\* A painter replaces the content of some tiles by newer content.
Paint ==
  /\ wanted' \in Contents
  /\ \A t \in Tiles : wanted[t] <= wanted'[t]
  /\ UNCHANGED shown

\* The screen catches up, on some tiles, with what the framebuffer holds or
\* held since.
Refresh ==
  /\ shown' \in Contents
  /\ \A t \in Tiles : shown[t] <= shown'[t] /\ shown'[t] <= wanted[t]
  /\ UNCHANGED wanted

Next == Paint \/ Refresh

Spec == Init /\ [][Next]_<<wanted, shown>>
=============================================================================
