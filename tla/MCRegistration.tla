---------------------------- MODULE MCRegistration ----------------------------
(* Instances of Registration for TLC: see the .cfg files. *)
EXTENDS Registration, ControlSignalFactory, TLC

CONSTANTS csmA, csmB, ch1, ch2, app1, app2, cb1, none

TwoCsms     == {csmA, csmB}
OneChannel  == {ch1}
TwoChannels == {ch1, ch2}
NoThreads   == {}

\* An application thread on one side, a callback on the other.
Mixed       == {app1, cb1}
MixedHome   == app1 :> csmA @@ cb1 :> csmB
MixedBack   == {cb1}
MixedCalls  == app1 :> 2 @@ cb1 :> 1

\* The channels' types: ch1 is of a built-in one, ch2 of one that only csmB's
\* process has registered.  csmA refuses what csmB asks for, and gives up what
\* csmB has accepted.
TypeOf      == ch1 :> "joy" @@ ch2 :> "lidar"
Extended    == Register(BuiltIn, "lidar", "PointCloud", NoService)
Factories   == csmA :> BuiltIn @@ csmB :> Extended
KnowByType  == [c \in Csm |-> {h \in Channel : Creates(Factories[c], TypeOf[h])}]
KnowAll     == csmA :> Channel @@ csmB :> Channel

\* Two application threads on one side.
Apps         == {app1, app2}
AppsTogether == app1 :> csmA @@ app2 :> csmA
AppsCalls    == app1 :> 1 @@ app2 :> 1
=============================================================================
