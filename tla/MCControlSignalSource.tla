------------------------- MODULE MCControlSignalSource -------------------------
(* Instances of ControlSignalSource for TLC: see the .cfg files. *)
EXTENDS ControlSignalSource, TLC

CONSTANTS app1, exec

OneApp     == {app1}
\* The application checks without a lock; the callbacks of the executor check
\* in the status timer.
AppChecks  == app1 :> {"getState"} @@ exec :> {}

\* Without keep-alive two calls of the application and one of a callback; with
\* it one call, beside the heartbeats.
FewCalls   == FALSE :> (app1 :> 2 @@ exec :> 1) @@ TRUE :> (app1 :> 1 @@ exec :> 0)
=============================================================================
