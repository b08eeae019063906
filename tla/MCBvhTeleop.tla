---------------------------- MODULE MCBvhTeleop ----------------------------
(* Small instances of BvhTeleop for TLC. *)
EXTENDS BvhTeleop

\* What the operator does with the remote: nothing, one button, or L1+R1.
OneButton(buttons) == {{}, {"LB", "RB"}} \cup { {b} : b \in buttons }
ClipKeys == OneButton({"start", "A", "B", "Y"})
NoEvents == {}
=============================================================================
