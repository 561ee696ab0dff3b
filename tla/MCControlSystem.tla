---------------------------- MODULE MCControlSystem ----------------------------
(* Instances of ControlSystem for TLC: see the .cfg files. *)
EXTENDS ControlSystem

CONSTANTS node1, node2

TwoNodes == {node1, node2}
=============================================================================
