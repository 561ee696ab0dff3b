-------------------------- MODULE ControlSignalSource --------------------------
(***************************************************************************)
(* One ControlSignalSource of control_signal_transport.h: send() by topic  *)
(* or by service, the keep-alive subscription, the passive timeout check,  *)
(* and the status timer that may remove the source meanwhile.              *)
(*                                                                         *)
(* Threads are those of ControlSignalSink: Exec runs the node's callbacks, *)
(* one at a time, and may call send() from one of them; AppThreads call    *)
(* the public functions.  A caller of send() or getState() has its         *)
(* shared_ptr from getSource() and keeps it for the call.  Each access to  *)
(* state_ and lastActivityNs_ is a step, in any order the language allows. *)
(*                                                                         *)
(* A service call is known by its caller and number, as the client knows   *)
(* it by its sequence number.  A request or a response that gets lost is   *)
(* one that never arrives.  The time limit of the wait may be over at any  *)
(* moment.  Operators whose comment begins with (slip) are wrong variants  *)
(* of the definitions after them (see ControlSignalSink).                  *)
(***************************************************************************)
EXTENDS Integers

CONSTANTS
    AppThreads,   \* the application's threads
    Exec,         \* the thread that spins the node
    Queries,      \* which of getState and getSourceState each thread calls
    Interval,     \* info_.keep_alive_interval_ns
    MaxCalls,     \* bound of the model: service calls of each thread, by useKeepAlive
    MaxClock      \* bound of the model: the steady clock stops there

Threads == AppThreads \cup {Exec}

ASSUME ThreadsAssumption  == Exec \notin AppThreads
ASSUME QueriesAssumption  == Queries \in [Threads -> SUBSET {"getState", "getSourceState"}]
ASSUME IntervalAssumption == Interval \in Nat \ {0}
ASSUME BoundsAssumption   == MaxCalls \in [BOOLEAN -> [Threads -> Nat]] /\ MaxClock \in Nat

Call == [by : Threads, no : Nat]

VARIABLES
    isTopicMode,     \* isTopicMode_, from info_ at construction
    useKeepAlive,    \* info_.use_keep_alive
    clock,           \* detail::steadyNs()
    state,           \* state_
    lastActivityNs,  \* lastActivityNs_
    inRegistry,      \* the manager's sources_ holds this source
    pc,              \* where each thread is in the code
    op,              \* the function it is in
    toRead,          \* the loads of _checkTimeout it has still to make
    sawEnd,          \* local: it loaded DISCONNECTED from state_
    nowNs,           \* local: its sample of the clock
    lastNs,          \* local: what it loaded from lastActivityNs_
    calls,           \* how many service calls it has made
    future,          \* local: what the future of the last one holds
    cmdSuccess,      \* send()'s output parameter, which callers clear first
    requests,        \* requests on their way
    responses,       \* responses on their way
    began,           \* history: when the thread's current query began
    heardAt,         \* history: the last time a sign of life was recorded
    stored,          \* history: the calls whose message the service accepted
    outcome          \* history: what the thread's last call came to, until
                     \* any thread begins another one

config  == <<isTopicMode, useKeepAlive>>
shared  == <<state, lastActivityNs>>
queryVars == <<toRead, sawEnd, nowNs, lastNs, began>>
callVars  == <<calls, future, cmdSuccess, outcome>>
netVars   == <<requests, responses, stored>>
vars == <<config, clock, shared, inRegistry, pc, op, queryVars, callVars, netVars, heardAt>>

States    == {"UNKNOWN", "ACTIVE", "TIMEOUT", "DISCONNECTED"}
Ops       == {"none", "getState", "getSourceState", "sweep", "heartbeat", "send"}
PCs       == {"idle", "check", "loadState", "markDisconnected", "wait", "storeTimeout",
              "stamp", "publish", "publishActivity", "publishState"}
Loads     == {"state", "clock", "activity"}
Answers   == {"ok", "refused"}
Threshold == 2 * Interval

\* The thread's last call, as the client knows it.
LastCall(t) == [by |-> t, no |-> calls[t]]

\* The object lives while the registry or a call has a shared_ptr to it.
Alive == inRegistry \/ \E t \in Threads : op[t] \in {"send", "getState"}

\* getSourceState(), getSource() and the status timer take sourceMtx_.
SourceMtxFree == \A t \in Threads : op[t] \notin {"getSourceState", "sweep"}

-----------------------------------------------------------------------------
Init ==
    /\ isTopicMode \in BOOLEAN /\ useKeepAlive \in BOOLEAN
    /\ clock = 0
    /\ state = "UNKNOWN"
    /\ lastActivityNs = 0            \* the constructor samples the clock
    /\ inRegistry = TRUE
    /\ pc = [t \in Threads |-> "idle"]
    /\ op = [t \in Threads |-> "none"]
    /\ toRead = [t \in Threads |-> {}]
    /\ sawEnd = [t \in Threads |-> FALSE]
    /\ nowNs = [t \in Threads |-> 0]
    /\ lastNs = [t \in Threads |-> 0]
    /\ calls = [t \in Threads |-> 0]
    /\ future = [t \in Threads |-> "none"]
    /\ cmdSuccess = [t \in Threads |-> FALSE]
    /\ requests = {} /\ responses = {}
    /\ began = [t \in Threads |-> 0]
    /\ heardAt = 0
    /\ stored = {}
    /\ outcome = [t \in Threads |-> "none"]

Tick ==
    /\ clock < MaxClock
    /\ clock' = clock + 1
    /\ UNCHANGED <<config, shared, inRegistry, pc, op, queryVars, callVars, netVars, heardAt>>

Enter(t, o, at) ==
    /\ pc[t] = "idle"
    /\ pc' = [pc EXCEPT ![t] = at]
    /\ op' = [op EXCEPT ![t] = o]

Goto(t, at) ==
    /\ pc' = [pc EXCEPT ![t] = at]
    /\ UNCHANGED <<op, queryVars>>

\* The thread leaves its function; its locals are gone.
Return(t) ==
    /\ pc' = [pc EXCEPT ![t] = "idle"]
    /\ op' = [op EXCEPT ![t] = "none"]
    /\ toRead' = [toRead EXCEPT ![t] = {}]
    /\ sawEnd' = [sawEnd EXCEPT ![t] = FALSE]
    /\ nowNs' = [nowNs EXCEPT ![t] = 0]
    /\ lastNs' = [lastNs EXCEPT ![t] = 0]
    /\ began' = [began EXCEPT ![t] = 0]

-----------------------------------------------------------------------------
(* getState(), directly, from getSourceState() or from the status timer    *)

MayQuery(t, o) ==
    \/ o \in Queries[t] /\ inRegistry /\ SourceMtxFree
    \/ o = "sweep" /\ t = Exec /\ inRegistry /\ SourceMtxFree

\* (slip) the age is looked at whether or not there are heartbeats.
ChecksAlways == TRUE

\* Without keep-alive _checkTimeout does nothing.
Checks == useKeepAlive

BeginQuery(t, o) ==
    /\ MayQuery(t, o)
    /\ Enter(t, o, IF Checks THEN "check" ELSE "loadState")
    /\ toRead' = [toRead EXCEPT ![t] = IF Checks THEN Loads ELSE {}]
    /\ began' = [began EXCEPT ![t] = clock]
    /\ UNCHANGED <<config, clock, shared, inRegistry, sawEnd, nowNs, lastNs, callVars, netVars,
                   heardAt>>

Loading(t, what) ==
    /\ pc[t] = "check" /\ what \in toRead[t]
    /\ toRead' = [toRead EXCEPT ![t] = @ \ {what}]
    /\ UNCHANGED <<config, clock, shared, inRegistry, pc, op, began, callVars, netVars, heardAt>>

LoadEnd(t) ==
    /\ Loading(t, "state")
    /\ sawEnd' = [sawEnd EXCEPT ![t] = (state = "DISCONNECTED")]
    /\ UNCHANGED <<nowNs, lastNs>>

SampleClock(t) ==
    /\ Loading(t, "clock")
    /\ nowNs' = [nowNs EXCEPT ![t] = clock]
    /\ UNCHANGED <<sawEnd, lastNs>>

LoadActivity(t) ==
    /\ Loading(t, "activity")
    /\ lastNs' = [lastNs EXCEPT ![t] = lastActivityNs]
    /\ UNCHANGED <<sawEnd, nowNs>>

\* (slip) a source that was never heard is spared.
ExpiredIfHeard(t) ==
    ~sawEnd[t] /\ state # "UNKNOWN" /\ nowNs[t] - lastNs[t] > Threshold

\* No heartbeat for two intervals: from any state, UNKNOWN included.
Expired(t) == ~sawEnd[t] /\ nowNs[t] - lastNs[t] > Threshold

Judge(t) ==
    /\ pc[t] = "check" /\ toRead[t] = {}
    /\ state' = IF Expired(t) THEN "TIMEOUT" ELSE state
    /\ Goto(t, "loadState")
    /\ UNCHANGED <<config, clock, lastActivityNs, inRegistry, callVars, netVars, heardAt>>

LoadResult(t) ==
    /\ pc[t] = "loadState" /\ op[t] # "sweep"
    /\ Return(t)
    /\ UNCHANGED <<config, clock, shared, inRegistry, callVars, netVars, heardAt>>

\* The status timer's visit.  How long TIMEOUT must have lasted is the
\* business of StatusTimer: here either answer is possible.
SweepDecides ==
    /\ pc[Exec] = "loadState" /\ op[Exec] = "sweep"
    /\ \/ state = "TIMEOUT" /\ Goto(Exec, "markDisconnected")
       \/ Return(Exec)
    /\ UNCHANGED <<config, clock, shared, inRegistry, callVars, netVars, heardAt>>

\* markDisconnected() and the erase that follows under the same lock.
MarkDisconnected ==
    /\ pc[Exec] = "markDisconnected"
    /\ state' = "DISCONNECTED"
    /\ inRegistry' = FALSE
    /\ Return(Exec)
    /\ UNCHANGED <<config, clock, lastActivityNs, callVars, netVars, heardAt>>

-----------------------------------------------------------------------------
(* send() *)

\* getSource() finds the source: the caller holds it from here on.
MaySend(t) == pc[t] = "idle" /\ inRegistry /\ SourceMtxFree

Clear(t) == cmdSuccess' = [cmdSuccess EXCEPT ![t] = FALSE]

\* Topic mode: publish and return true.  No state changes.
Publish(t) ==
    /\ MaySend(t) /\ isTopicMode
    /\ cmdSuccess' = [cmdSuccess EXCEPT ![t] = TRUE]
    /\ UNCHANGED <<config, clock, shared, inRegistry, pc, op, queryVars, calls, future, outcome,
                   netVars, heardAt>>

\* The service is not there: return false, the output parameter untouched.
NotReady(t) ==
    /\ MaySend(t) /\ ~isTopicMode
    /\ Clear(t)
    /\ UNCHANGED <<config, clock, shared, inRegistry, pc, op, queryVars, calls, future, outcome,
                   netVars, heardAt>>

SendRequest(t) ==
    /\ MaySend(t) /\ ~isTopicMode /\ calls[t] < MaxCalls[useKeepAlive][t]
    /\ Enter(t, "send", "wait")
    /\ Clear(t)
    /\ calls' = [calls EXCEPT ![t] = @ + 1]
    /\ future' = [future EXCEPT ![t] = "none"]
    /\ outcome' = [u \in Threads |-> "none"]
    /\ requests' = requests \cup {[by |-> t, no |-> calls'[t]]}
    /\ UNCHANGED <<config, clock, shared, inRegistry, queryVars, responses, stored, heardAt>>

\* wait_for returns: ready, or not after the time limit.
WaitReturns(t) ==
    /\ pc[t] = "wait"
    /\ Goto(t, IF future[t] # "none" THEN "stamp" ELSE "storeTimeout")
    /\ UNCHANGED <<config, clock, shared, inRegistry, callVars, netVars, heardAt>>

\* (slip) then it waits again for the same answer.
StoreTimeoutWaitOn(t) ==
    /\ pc[t] = "storeTimeout"
    /\ state' = "TIMEOUT"
    /\ outcome' = [outcome EXCEPT ![t] = "timeout"]
    /\ Clear(t)
    /\ Goto(t, "wait")
    /\ UNCHANGED <<config, clock, lastActivityNs, inRegistry, calls, future, netVars, heardAt>>

StoreTimeout(t) ==
    /\ pc[t] = "storeTimeout"
    /\ state' = "TIMEOUT"
    /\ outcome' = [outcome EXCEPT ![t] = "timeout"]
    /\ Clear(t)
    /\ Return(t)
    /\ UNCHANGED <<config, clock, lastActivityNs, inRegistry, calls, future, netVars, heardAt>>

-----------------------------------------------------------------------------
(* _markActivity, on a heartbeat or on the response to a call *)

\* The keep-alive subscription: it is there as long as the source.
HeartbeatArrives ==
    /\ Alive /\ useKeepAlive
    /\ Enter(Exec, "heartbeat", "stamp")
    /\ UNCHANGED <<config, clock, shared, inRegistry, queryVars, callVars, netVars, heardAt>>

\* (slip) a stamp in another unit than steadyNs().
StampInMicroseconds(t) ==
    /\ pc[t] = "stamp"
    /\ nowNs' = [nowNs EXCEPT ![t] = 1000 * clock]
    /\ heardAt' = clock
    /\ pc' = [pc EXCEPT ![t] = "publish"]
    /\ UNCHANGED <<config, clock, shared, inRegistry, op, toRead, sawEnd, lastNs, began, callVars,
                   netVars>>

SampleStamp(t) ==
    /\ pc[t] = "stamp"
    /\ nowNs' = [nowNs EXCEPT ![t] = clock]
    /\ heardAt' = clock
    /\ pc' = [pc EXCEPT ![t] = "publish"]
    /\ UNCHANGED <<config, clock, shared, inRegistry, op, toRead, sawEnd, lastNs, began, callVars,
                   netVars>>

\* After the second store a heartbeat is done, and send() returns true with
\* what the response said.
AfterMarking(t) ==
    /\ Return(t)
    /\ IF op[t] = "send"
       THEN /\ cmdSuccess' = [cmdSuccess EXCEPT ![t] = (future[t] = "ok")]
            /\ outcome' = [outcome EXCEPT ![t] = "answered"]
            /\ UNCHANGED <<calls, future>>
       ELSE UNCHANGED callVars

\* lastActivityNs_.store: first or second of the two stores.
StoreActivity(t) ==
    /\ pc[t] \in {"publish", "publishActivity"}
    /\ lastActivityNs' = nowNs[t]
    /\ IF pc[t] = "publish" THEN Goto(t, "publishState") /\ UNCHANGED callVars
                            ELSE AfterMarking(t)
    /\ UNCHANGED <<config, clock, state, inRegistry, netVars, heardAt>>

\* state_.store(ACTIVE): first or second of the two stores.
StoreActive(t) ==
    /\ pc[t] \in {"publish", "publishState"}
    /\ state' = "ACTIVE"
    /\ heardAt' = clock
    /\ IF pc[t] = "publish" THEN Goto(t, "publishActivity") /\ UNCHANGED callVars
                            ELSE AfterMarking(t)
    /\ UNCHANGED <<config, clock, lastActivityNs, inRegistry, netVars>>

-----------------------------------------------------------------------------
(* The service at the other end, and the client that takes its responses *)

\* The service stores the message and answers; one that is not a sink of this
\* library may also refuse.
ServiceAnswers(c, a) ==
    /\ c \in requests
    /\ requests' = requests \ {c}
    /\ responses' = responses \cup {[call |-> c, answer |-> a]}
    /\ stored' = IF a = "ok" THEN stored \cup {c} ELSE stored
    /\ UNCHANGED <<config, clock, shared, inRegistry, pc, op, queryVars, callVars, heardAt>>

\* (slip) any response to this thread completes its wait.
CompletesAny(m, t) == pc[t] = "wait" /\ m.call.by = t

\* The executor hands a response to the future of its own request; the future
\* of a call that was given up is nobody's.
Completes(m, t) == pc[t] = "wait" /\ m.call = LastCall(t)

TakeResponse(m) ==
    /\ pc[Exec] = "idle"
    /\ m \in responses
    /\ responses' = responses \ {m}
    /\ future' = [t \in Threads |-> IF Completes(m, t) THEN m.answer ELSE future[t]]
    /\ UNCHANGED <<config, clock, shared, inRegistry, pc, op, queryVars, calls, cmdSuccess, outcome,
                   requests, stored, heardAt>>

-----------------------------------------------------------------------------
Query(t) ==
    \/ \E o \in Ops : BeginQuery(t, o)
    \/ LoadEnd(t) \/ SampleClock(t) \/ LoadActivity(t) \/ Judge(t) \/ LoadResult(t)

\* What a send() under way does next.
Proceed(t) ==
    \/ WaitReturns(t) \/ StoreTimeout(t)
    \/ SampleStamp(t) \/ StoreActivity(t) \/ StoreActive(t)

\* Nobody holds the source any more: it has been destroyed.
Destroyed == ~Alive /\ UNCHANGED vars

Next ==
    \/ Tick
    \/ \E t \in Threads : Query(t) \/ Publish(t) \/ NotReady(t) \/ SendRequest(t) \/ Proceed(t)
    \/ SweepDecides \/ MarkDisconnected \/ HeartbeatArrives
    \/ \E c \in requests, a \in Answers : ServiceAnswers(c, a)
    \/ \E m \in responses : TakeResponse(m)
    \/ Destroyed

Spec == Init /\ [][Next]_vars

\* A thread inside send() runs on, and its wait has a time limit.  Nothing is
\* assumed of the service, the network or the executor.
FairSpec == Spec /\ \A t \in Threads : WF_vars(Proceed(t))

-----------------------------------------------------------------------------
(* Properties *)

\* Types of the source, its callers, the network and the history.
TypeOK ==
    /\ isTopicMode \in BOOLEAN /\ useKeepAlive \in BOOLEAN
    /\ clock \in 0..MaxClock
    /\ state \in States
    /\ lastActivityNs \in 0..MaxClock
    /\ inRegistry \in BOOLEAN
    /\ pc \in [Threads -> PCs]
    /\ op \in [Threads -> Ops]
    /\ toRead \in [Threads -> SUBSET Loads]
    /\ sawEnd \in [Threads -> BOOLEAN]
    /\ nowNs \in [Threads -> 0..MaxClock]
    /\ lastNs \in [Threads -> 0..MaxClock]
    /\ calls \in [Threads -> Nat]
    /\ future \in [Threads -> Answers \cup {"none"}]
    /\ cmdSuccess \in [Threads -> BOOLEAN]
    /\ requests \subseteq Call
    /\ responses \subseteq [call : Call, answer : Answers]
    /\ began \in [Threads -> 0..MaxClock]
    /\ heardAt \in 0..MaxClock
    /\ stored \subseteq Call
    /\ outcome \in [Threads -> {"none", "answered", "timeout"}]

\* In service mode cmdSuccess is true only if the service has accepted the
\* message of this very send(): not that of an earlier one which was given up
\* and whose response came late.
CommandWasAccepted ==
    \A t \in Threads : ~isTopicMode /\ cmdSuccess[t] => LastCall(t) \in stored

\* Without keep-alive the state belongs to send() (the left column of the table in
\* the header), and is a register of what calls came to: whenever no call is under
\* way it is the result of a call that was not over when the last one began, ACTIVE
\* if that call was answered, whatever the answer (README, section 6), and TIMEOUT
\* if not; or the mark of the removal.  No store of a superseded call lands late, and no
\* query and no visit of the status timer puts anything else there.  By topic the
\* state stays UNKNOWN and the source is never removed.
StateIsLatestCalls ==
    ~useKeepAlive =>
        /\ isTopicMode => state = "UNKNOWN" /\ inRegistry
        /\ (\A t \in Threads : op[t] # "send") =>
              \/ state = "UNKNOWN" /\ \A t \in Threads : outcome[t] = "none"
              \/ state = "ACTIVE" /\ \E t \in Threads : outcome[t] = "answered"
              \/ state = "TIMEOUT" /\ \E t \in Threads : outcome[t] = "timeout"
              \/ state = "DISCONNECTED" /\ ~inRegistry

\* The right column: a getState() about to say anything but TIMEOUT has had a
\* sign of life (or the source was made) no more than two intervals before the
\* call, whatever came in between its check and its result.
LivelyStateIsRecent ==
    \A t \in Threads :
        useKeepAlive /\ pc[t] = "loadState" /\ state \in {"UNKNOWN", "ACTIVE"}
            => heardAt >= began[t] - Threshold

\* Every send() returns, also one on the executor, which cannot take in the
\* response it waits for, and whatever becomes of the service.
SendReturns == \A t \in Threads : op[t] = "send" ~> op[t] = "none"
=============================================================================
