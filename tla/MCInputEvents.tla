--------------------------- MODULE MCInputEvents ---------------------------
(***************************************************************************)
(* InputEvents with one button, one strip position and two pads.  Of the   *)
(* four pressures, 0 is at rest and releases a pad, 1 is between the       *)
(* thresholds, 2 and 3 attack; the step is 2.                              *)
(***************************************************************************)
EXTENDS InputEvents

CONSTANTS b1, s1

OneButton == {b1}
OnePosition == {s1}
TwoPads == {0, 1}
FourPressures == 0..3

Slot == [pad : TwoPads, pressure : FourPressures]

\* Any single slot, and two slots: of one pad or of both.
ShortReports ==
  {<<s>> : s \in Slot}
  \cup {<<s, t>> : s \in Slot, t \in [pad : {1}, pressure : {0, 2}]}
=============================================================================
