----------------------------- MODULE MCStatusTimer -----------------------------
(* Instances of StatusTimer for TLC: see the .cfg files. *)
EXTENDS StatusTimer, TLC

CONSTANTS snk, src, watched

\* A steady sink, a source with heartbeats and calls, and a sink its
\* application queries.
Mixed        == {snk, src, watched}
MixedKinds   == snk :> "sink" @@ src :> "keepAliveServiceSource" @@ watched :> "sink"
MixedThresh  == snk :> 2 @@ src :> 1 @@ watched :> 2
MixedDisc    == snk :> 2 @@ src :> 1 @@ watched :> 1
MixedQueried == {watched}
=============================================================================
