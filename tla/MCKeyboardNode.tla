---------------------------- MODULE MCKeyboardNode ----------------------------
(* Instances of KeyboardNode for TLC: see the .cfg files. *)
EXTENDS KeyboardNode

\* Joy: turning left, the E-stop and another command, an idle key; Twist: turning
\* left, strafing right, the E-stop and another command; both: SPACE and Ctrl-C.
UsedKeys == {"A", "E", "R", "Z", "SPACE", "CTRL_C"}
=============================================================================
