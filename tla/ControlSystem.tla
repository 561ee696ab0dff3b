----------------------------- MODULE ControlSystem -----------------------------
(***************************************************************************)
(* The parts composed: nodes that want to control one channel of a target, *)
(* each with a ControlSignalManager and an application that registers its  *)
(* source again whenever it has none, and the target with its manager.     *)
(* Processes crash and restart, applications pause, requests and replies   *)
(* get lost and calls are given up early.                                  *)
(*                                                                         *)
(* The grain is that of whole operations: Registration, StatusTimer,       *)
(* ControlSignalSource and ControlSignalSink describe what happens inside  *)
(* each.  Time is left out: a timeout may come when what it waits for does *)
(* not, and will if that lasts.  The channel is of topic mode with keep-   *)
(* alive, and timeout_ns and disconnect_timeout_ns are set.                *)
(*                                                                         *)
(* Messages and heartbeats go by the channel's name alone: whoever has a   *)
(* source drives whatever sink is there, and every source hears it.        *)
(*                                                                         *)
(* Operators whose comment begins with (slip) are wrong variants of the    *)
(* definitions after them (see ControlSignalSink).                         *)
(***************************************************************************)
EXTENDS Naturals

CONSTANTS
    Nodes,      \* the nodes that want to control the channel
    MaxFaults   \* bound of the model: crashes, losses, pauses, calls given up early

ASSUME BoundAssumption == MaxFaults \in Nat

VARIABLES
    source,    \* of each node: its state, or "none" in sources_
    sink,      \* the target's: its state, or "none" in sinks_
    call,      \* of each node: how far its registerSource() is
    sending,   \* the nodes whose application does not pause
    targetUp,  \* the target's process runs
    faults     \* how many faults there were

vars == <<source, sink, call, sending, targetUp, faults>>

Alive == {"UNKNOWN", "ACTIVE"}

-----------------------------------------------------------------------------
Init ==
    /\ source = [n \in Nodes |-> "none"]
    /\ sink = "none"
    /\ call = [n \in Nodes |-> "none"]
    /\ sending = Nodes
    /\ targetUp = TRUE
    /\ faults = 0

Fault == faults < MaxFaults /\ faults' = faults + 1

-----------------------------------------------------------------------------
(* registerSource and _onReg *)

CallBecomes(n, at) == call' = [call EXCEPT ![n] = at]

\* Rejected at once while the node has a source.
BeginCall(n) ==
    /\ source[n] = "none" /\ call[n] = "none"
    /\ CallBecomes(n, "requested")
    /\ UNCHANGED <<source, sink, sending, targetUp, faults>>

OnReg(n) ==
    /\ targetUp /\ call[n] = "requested"
    /\ IF sink = "none"
       THEN CallBecomes(n, "accepted") /\ sink' = "UNKNOWN"
       ELSE CallBecomes(n, "ignored") /\ UNCHANGED sink
    /\ UNCHANGED <<source, sending, targetUp, faults>>

TakeReply(n) ==
    /\ call[n] \in {"accepted", "ignored"}
    /\ source' = [source EXCEPT ![n] = IF call[n] = "accepted" THEN "UNKNOWN" ELSE @]
    /\ CallBecomes(n, "none")
    /\ UNCHANGED <<sink, sending, targetUp, faults>>

\* A call that was lost, or that a target that is down keeps waiting.
Hopeless(n) == call[n] = "lost" \/ (call[n] = "requested" /\ ~targetUp)

\* The time limit is over: because the target is down or the message lost, or
\* else before the reply comes.  A sink that was made stays.
GiveUp(n) ==
    /\ call[n] # "none"
    /\ \/ Hopeless(n) /\ UNCHANGED faults
       \/ Fault
    /\ CallBecomes(n, "none")
    /\ UNCHANGED <<source, sink, sending, targetUp>>

\* The request, or the reply.
Lose(n) ==
    /\ call[n] \notin {"none", "lost"} /\ Fault
    /\ CallBecomes(n, "lost")
    /\ UNCHANGED <<source, sink, sending, targetUp>>

-----------------------------------------------------------------------------
(* Messages, heartbeats, timeouts and the status timers *)

Message(n) ==
    /\ source[n] # "none" /\ n \in sending
    /\ sink # "none"
    /\ sink' = "ACTIVE"
    /\ UNCHANGED <<source, call, sending, targetUp, faults>>

\* It reaches every source.
Heartbeat ==
    /\ sink # "none"
    /\ source' = [n \in Nodes |-> IF source[n] = "none" THEN "none" ELSE "ACTIVE"]
    /\ UNCHANGED <<sink, call, sending, targetUp, faults>>

\* (slip) a sink that was never heard is spared.
SinkExpiresOnceHeard == sink = "ACTIVE" /\ \A n \in sending : source[n] = "none"

\* Nobody sends: from any state, UNKNOWN included.
SinkExpires == sink \in Alive /\ \A n \in sending : source[n] = "none"

\* A reply that takes longer than the sink's timeouts is a fault.
SinkTimeout ==
    /\ SinkExpires
    /\ \/ (\A n \in Nodes : call[n] # "accepted") /\ UNCHANGED faults
       \/ Fault
    /\ sink' = "TIMEOUT"
    /\ UNCHANGED <<source, call, sending, targetUp>>

SourceTimeout(n) ==
    /\ source[n] \in Alive /\ sink = "none"
    /\ source' = [source EXCEPT ![n] = "TIMEOUT"]
    /\ UNCHANGED <<sink, call, sending, targetUp, faults>>

RemoveSink ==
    /\ sink = "TIMEOUT"
    /\ sink' = "none"
    /\ UNCHANGED <<source, call, sending, targetUp, faults>>

RemoveSource(n) ==
    /\ source[n] = "TIMEOUT"
    /\ source' = [source EXCEPT ![n] = "none"]
    /\ UNCHANGED <<sink, call, sending, targetUp, faults>>

-----------------------------------------------------------------------------
(* Crashes and restarts, and applications that pause *)

\* A node comes back with an empty manager.
NodeRestarts(n) ==
    /\ Fault
    /\ source' = [source EXCEPT ![n] = "none"]
    /\ CallBecomes(n, "none")
    /\ UNCHANGED <<sink, sending, targetUp>>

TargetCrashes ==
    /\ targetUp /\ Fault
    /\ targetUp' = FALSE
    /\ sink' = "none"
    /\ UNCHANGED <<source, call, sending>>

TargetRestarts ==
    /\ ~targetUp
    /\ targetUp' = TRUE
    /\ UNCHANGED <<source, sink, call, sending, faults>>

Pause(n) ==
    /\ n \in sending /\ Fault
    /\ sending' = sending \ {n}
    /\ UNCHANGED <<source, sink, call, targetUp>>

Resume(n) ==
    /\ n \notin sending
    /\ sending' = sending \cup {n}
    /\ UNCHANGED <<source, sink, call, targetUp, faults>>

-----------------------------------------------------------------------------
Next ==
    \/ \E n \in Nodes :
          \/ BeginCall(n) \/ OnReg(n) \/ TakeReply(n) \/ GiveUp(n) \/ Lose(n)
          \/ Message(n) \/ SourceTimeout(n) \/ RemoveSource(n)
          \/ NodeRestarts(n) \/ Pause(n) \/ Resume(n)
    \/ Heartbeat \/ SinkTimeout \/ RemoveSink
    \/ TargetCrashes \/ TargetRestarts

Spec == Init /\ [][Next]_vars

\* Timers, executors and applications that retry keep going, and a target that
\* is down is started again.  Faults need not happen, nor need a pause end.
FairSpec ==
    /\ Spec
    /\ \A n \in Nodes :
          /\ WF_vars(BeginCall(n)) /\ WF_vars(OnReg(n)) /\ WF_vars(TakeReply(n))
          /\ WF_vars(Hopeless(n) /\ GiveUp(n))
          /\ WF_vars(Message(n)) /\ WF_vars(SourceTimeout(n)) /\ WF_vars(RemoveSource(n))
    /\ WF_vars(Heartbeat) /\ WF_vars(SinkTimeout) /\ WF_vars(RemoveSink)
    /\ WF_vars(TargetRestarts)

-----------------------------------------------------------------------------
(* Property *)

\* A sink is there and hears messages, and a source that hears its heartbeats
\* sends them.
Served ==
    /\ sink = "ACTIVE"
    /\ \E n \in Nodes : source[n] = "ACTIVE"

\* Whatever happened before, and although a sink left behind by a lost reply or
\* a dead node keeps the channel occupied, and sources outlive their sink: if
\* from some point on somebody wants to send and nothing more fails, the
\* channel works, and goes on working.
ChannelIsServed == <>[](sending = Nodes) => <>[]Served
=============================================================================
