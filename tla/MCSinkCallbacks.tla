---------------------------- MODULE MCSinkCallbacks ----------------------------
(* Instances of SinkCallbacks for TLC: see the .cfg files. *)
EXTENDS SinkCallbacks, TLC

CONSTANTS app1, app2, exec, ch1, ch2, joy, twist, cb1, cb2, cb3, none

TwoApps  == {app1, app2}
TwoSinks == {ch1, ch2}
Both     == {joy, twist}

TwoTypes == ch1 :> joy @@ ch2 :> twist
CbsOfTwo == joy :> {cb1, cb2} @@ twist :> {cb3}
=============================================================================
