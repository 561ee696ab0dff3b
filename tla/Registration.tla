----------------------------- MODULE Registration -----------------------------
(***************************************************************************)
(* registerSource() on one ControlSignalManager against _onReg on another: *)
(* the request, the reply, both waits and both timeouts, with the status   *)
(* timers removing entries and processes going down in between.            *)
(*                                                                         *)
(* Each manager has a node with one executor thread, which serves _onReg,  *)
(* completes the futures of the node's clients and runs the status timer.  *)
(* A thread that calls registerSource() is an application thread or, when  *)
(* it is in InCallback, that executor thread itself.                       *)
(*                                                                         *)
(* A call stands for its ControlSignalInfo: whose call, which one, to whom *)
(* and for which channel.  Sources and sinks remember the call that made   *)
(* them, which the code does not: it tells the properties what belongs     *)
(* together.  Operators whose comment begins with (slip) are wrong         *)
(* variants of the definitions after them (see ControlSignalSink).         *)
(***************************************************************************)
EXTENDS Naturals

CONSTANTS
    Csm,         \* the managers, by name
    Channel,     \* channel names
    Threads,     \* the threads that call registerSource
    Home,        \* the manager each one calls it on
    InCallback,  \* those that are their node's executor
    Known,       \* the channels whose type a manager's factory knows
    None,        \* no source, no sink, no call
    MaxCalls,    \* bound of the model: how many calls each thread makes
    MaxCrashes   \* bound of the model: processes that go down

ASSUME HomeAssumption == Home \in [Threads -> Csm]
ASSUME CallbackAssumption ==
    /\ InCallback \subseteq Threads
    /\ \A t, u \in InCallback : Home[t] = Home[u] => t = u
ASSUME KnownAssumption == Known \in [Csm -> SUBSET Channel]
ASSUME BoundsAssumption == MaxCalls \in [Threads -> Nat] /\ MaxCrashes \in Nat

Call == [by : Threads, no : Nat, to : Csm, ch : Channel]

ASSUME NoneAssumption == None \notin Call

VARIABLES
    up,        \* the managers whose process runs
    sources,   \* sources_ of each manager
    sinks,     \* sinks_ of each manager
    pc,        \* where each thread is in registerSource
    call,      \* the call it is in
    calls,     \* how many it has begun
    reply,     \* what its future holds
    requests,  \* requests on their way
    replies,   \* replies on their way
    made,      \* history: the calls that _onReg has made a sink for
    gone,      \* history: those whose sink has been removed again
    crashes    \* history: processes that went down

threadVars == <<pc, call, calls, reply>>
netVars    == <<requests, replies>>
vars       == <<up, sources, sinks, threadVars, netVars, made, gone, crashes>>

Results == {"SUCCESS", "IGNORED", "ERROR"}

-----------------------------------------------------------------------------
Init ==
    /\ up = Csm
    /\ sources = [c \in Csm |-> [h \in Channel |-> None]]
    /\ sinks = [c \in Csm |-> [h \in Channel |-> None]]
    /\ pc = [t \in Threads |-> "idle"]
    /\ call = [t \in Threads |-> None]
    /\ calls = [t \in Threads |-> 0]
    /\ reply = [t \in Threads |-> "ERROR"]
    /\ requests = {}
    /\ replies = {}
    /\ made = {}
    /\ gone = {}
    /\ crashes = 0

\* The executor of c can run a callback: none of its own is in registerSource
\* (services, timer and clients all take the default, exclusive callback group).
ExecFree(c) ==
    /\ c \in up
    /\ \A t \in InCallback : Home[t] = c => pc[t] = "idle"

\* registerSource returns: with a source in place, or without.
Return(t) ==
    /\ pc' = [pc EXCEPT ![t] = "idle"]
    /\ call' = [call EXCEPT ![t] = None]
    /\ reply' = [reply EXCEPT ![t] = "ERROR"]
    /\ UNCHANGED calls

-----------------------------------------------------------------------------
(* registerSource *)

\* (slip) no look at the sources that are there.
BeginCallUnchecked(t, d, h) ==
    /\ Home[t] \in up
    /\ pc[t] = "idle" /\ calls[t] < MaxCalls[t]
    /\ t \in InCallback => ExecFree(Home[t])
    /\ pc' = [pc EXCEPT ![t] = "waitService"]
    /\ calls' = [calls EXCEPT ![t] = @ + 1]
    /\ call' = [call EXCEPT ![t] = [by |-> t, no |-> calls'[t], to |-> d, ch |-> h]]
    /\ UNCHANGED <<up, sources, sinks, reply, netVars, made, gone, crashes>>

\* A valid info for a channel that has no source yet; any other call returns
\* false at once and changes nothing.
BeginCall(t, d, h) ==
    /\ Home[t] \in up
    /\ pc[t] = "idle" /\ calls[t] < MaxCalls[t]
    /\ t \in InCallback => ExecFree(Home[t])
    /\ sources[Home[t]][h] = None
    /\ pc' = [pc EXCEPT ![t] = "waitService"]
    /\ calls' = [calls EXCEPT ![t] = @ + 1]
    /\ call' = [call EXCEPT ![t] = [by |-> t, no |-> calls'[t], to |-> d, ch |-> h]]
    /\ UNCHANGED <<up, sources, sinks, reply, netVars, made, gone, crashes>>

\* wait_for_service finds the target; the request goes out.
SendRequest(t) ==
    /\ pc[t] = "waitService" /\ call[t].to \in up
    /\ requests' = requests \cup {call[t]}
    /\ pc' = [pc EXCEPT ![t] = "waitReply"]
    /\ UNCHANGED <<up, sources, sinks, call, calls, reply, replies, made, gone, crashes>>

\* wait_for_service, or the wait for the future, takes timeoutMs: return false.
\* The request is not taken back.
ServiceUnavailable(t) ==
    /\ pc[t] = "waitService"
    /\ Return(t)
    /\ UNCHANGED <<up, sources, sinks, netVars, made, gone, crashes>>

\* (slip) a time limit that is kept by a timer of the node.
ReplyTimeoutOnExecutor(t) ==
    /\ pc[t] = "waitReply" /\ ExecFree(Home[t])
    /\ Return(t)
    /\ UNCHANGED <<up, sources, sinks, netVars, made, gone, crashes>>

ReplyTimeout(t) ==
    /\ pc[t] = "waitReply"
    /\ Return(t)
    /\ UNCHANGED <<up, sources, sinks, netVars, made, gone, crashes>>

\* (slip) one client for all calls: any reply to this thread will do.
AwaitsAny(t, c) == pc[t] = "waitReply"

\* The future of this very call; the client of an earlier one is gone.
Awaits(t, c) == pc[t] = "waitReply" /\ call[t] = c

\* The executor takes a reply in: into the future of its call, if that waits.
TakeReply(r) ==
    LET t == r.call.by IN
    /\ ExecFree(Home[t])
    /\ replies' = replies \ {r}
    /\ IF Awaits(t, r.call)
       THEN /\ reply' = [reply EXCEPT ![t] = r.result]
            /\ pc' = [pc EXCEPT ![t] = "gotReply"]
       ELSE UNCHANGED <<reply, pc>>
    /\ UNCHANGED <<up, sources, sinks, call, calls, requests, made, gone, crashes>>

\* Rejected, or a type this factory does not know although the target's does.
Refused(t) ==
    /\ pc[t] = "gotReply"
    /\ reply[t] # "SUCCESS" \/ call[t].ch \notin Known[Home[t]]
    /\ Return(t)
    /\ UNCHANGED <<up, sources, sinks, netVars, made, gone, crashes>>

\* The source goes into the map, whatever the map holds by now.
Registered(t) ==
    /\ pc[t] = "gotReply"
    /\ reply[t] = "SUCCESS" /\ call[t].ch \in Known[Home[t]]
    /\ sources' = [sources EXCEPT ![Home[t]][call[t].ch] = call[t]]
    /\ Return(t)
    /\ UNCHANGED <<up, sinks, netVars, made, gone, crashes>>

-----------------------------------------------------------------------------
(* _onReg *)

\* (slip) no look at the sinks that are there.
VerdictNoCheck(c) == IF c.ch \notin Known[c.to] THEN "ERROR" ELSE "SUCCESS"

\* (slip) a result that registerSource knows nothing of.
VerdictWarns(c) ==
    IF sinks[c.to][c.ch] # None THEN "WARNING"
    ELSE IF c.ch \notin Known[c.to] THEN "ERROR"
    ELSE "SUCCESS"

\* Duplicates are ignored, unknown types refused.  An invalid info is refused
\* before that, but registerSource never sends one.
Verdict(c) ==
    IF sinks[c.to][c.ch] # None THEN "IGNORED"
    ELSE IF c.ch \notin Known[c.to] THEN "ERROR"
    ELSE "SUCCESS"

OnReg(c) ==
    /\ ExecFree(c.to)
    /\ requests' = requests \ {c}
    /\ replies' = replies \cup {[call |-> c, result |-> Verdict(c)]}
    /\ IF Verdict(c) = "SUCCESS"
       THEN /\ sinks' = [sinks EXCEPT ![c.to][c.ch] = c]
            /\ made' = made \cup {c}
       ELSE UNCHANGED <<sinks, made>>
    /\ UNCHANGED <<up, sources, threadVars, gone, crashes>>

-----------------------------------------------------------------------------
(* The status timer, which may remove any entry, and crashes *)

RemoveSource(c, h) ==
    /\ ExecFree(c) /\ sources[c][h] # None
    /\ sources' = [sources EXCEPT ![c][h] = None]
    /\ UNCHANGED <<up, sinks, threadVars, netVars, made, gone, crashes>>

RemoveSink(c, h) ==
    /\ ExecFree(c) /\ sinks[c][h] # None
    /\ gone' = gone \cup {sinks[c][h]}
    /\ sinks' = [sinks EXCEPT ![c][h] = None]
    /\ UNCHANGED <<up, sources, threadVars, netVars, made, crashes>>

\* The process of c dies, with its threads, its maps and what is on its way to it.
Crash(c) ==
    /\ c \in up /\ crashes < MaxCrashes
    /\ crashes' = crashes + 1
    /\ up' = up \ {c}
    /\ gone' = gone \cup {sinks[c][h] : h \in {i \in Channel : sinks[c][i] # None}}
    /\ sources' = [sources EXCEPT ![c] = [h \in Channel |-> None]]
    /\ sinks' = [sinks EXCEPT ![c] = [h \in Channel |-> None]]
    /\ pc' = [t \in Threads |-> IF Home[t] = c THEN "idle" ELSE pc[t]]
    /\ call' = [t \in Threads |-> IF Home[t] = c THEN None ELSE call[t]]
    /\ reply' = [t \in Threads |-> IF Home[t] = c THEN "ERROR" ELSE reply[t]]
    /\ requests' = {r \in requests : r.to # c}
    /\ replies' = {r \in replies : Home[r.call.by] # c}
    /\ UNCHANGED <<calls, made>>

Restart(c) ==
    /\ c \in Csm \ up
    /\ up' = up \cup {c}
    /\ UNCHANGED <<sources, sinks, threadVars, netVars, made, gone, crashes>>

-----------------------------------------------------------------------------
Timeouts(t) == ServiceUnavailable(t) \/ ReplyTimeout(t)
Outcome(t)  == Refused(t) \/ Registered(t)

\* Nobody calls any more and nothing is on its way.
Quiet ==
    /\ \A t \in Threads : pc[t] = "idle" /\ calls[t] = MaxCalls[t]
    /\ requests = {} /\ replies = {}
    /\ UNCHANGED vars

Next ==
    \/ \E t \in Threads : \/ \E d \in Csm, h \in Channel : BeginCall(t, d, h)
                          \/ SendRequest(t) \/ Timeouts(t) \/ Outcome(t)
    \/ \E r \in replies : TakeReply(r)
    \/ \E c \in requests : OnReg(c)
    \/ \E c \in Csm : \/ \E h \in Channel : RemoveSource(c, h) \/ RemoveSink(c, h)
                      \/ Crash(c) \/ Restart(c)
    \/ Quiet

Spec == Init /\ [][Next]_vars

\* Both waits have a time limit, and a thread whose wait is over runs on.
\* Nothing is assumed of the network, the executors or the status timers.
FairSpec ==
    /\ Spec
    /\ \A t \in Threads : WF_vars(Timeouts(t)) /\ WF_vars(Outcome(t))

-----------------------------------------------------------------------------
(* Properties *)

\* Types of the managers, the threads, the network and the history.
TypeOK ==
    /\ up \subseteq Csm
    /\ sources \in [Csm -> [Channel -> Call \cup {None}]]
    /\ sinks \in [Csm -> [Channel -> Call \cup {None}]]
    /\ pc \in [Threads -> {"idle", "waitService", "waitReply", "gotReply"}]
    /\ call \in [Threads -> Call \cup {None}]
    /\ calls \in [Threads -> Nat]
    /\ reply \in [Threads -> Results]
    /\ requests \subseteq Call
    /\ replies \subseteq [call : Call, result : Results]
    /\ made \subseteq Call
    /\ gone \subseteq Call
    /\ crashes \in 0..MaxCrashes

\* A source exists only if its target has accepted this registration: no late
\* or foreign reply is ever taken for the answer to a call.
SourceWasAccepted ==
    \A c \in Csm, h \in Channel : sources[c][h] # None =>
        /\ sources[c][h] \in made
        /\ Home[sources[c][h].by] = c /\ sources[c][h].ch = h

\* Two sources never count on the same sink: of all the sources with the same
\* channel and target, wherever they are, at most one has its sink left.  The
\* sink of a source is there unless it has been removed.
SourceHasItsSink ==
    \A c \in Csm, h \in Channel :
        LET src == sources[c][h] IN
        src # None /\ src \notin gone => sinks[src.to][h] = src

\* Every call returns, also from a callback, and whatever becomes of the target.
CallReturns == \A t \in Threads : pc[t] # "idle" ~> pc[t] = "idle"

\* "duplicate registrations for the same channel are rejected": a source stays the
\* one it is until it is removed.  The check is made when the call begins and the
\* store when its reply is there, with the network, the other manager and both
\* status timers in between; two threads of one process that are both in between
\* break it (RegRace).
DuplicateRejected ==
    [][\A c \in Csm, h \in Channel :
          sources[c][h] # None => sources'[c][h] \in {None, sources[c][h]}]_vars
=============================================================================
