-------------------------- MODULE MCControlSignalSink --------------------------
(* Instances of ControlSignalSink for TLC: see the .cfg files. *)
EXTENDS ControlSignalSink

CONSTANTS app1, exec, m1, noMsg

OneApp == {app1}
NoApps == {}
OneMsg == {m1}

\* getState() of a held sink checks as read() does, which does more.
MixedOps    == {"read", "getSinkState"}
ManagerOps  == {"getSinkState"}
=============================================================================
