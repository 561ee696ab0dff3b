----------------------------- MODULE SinkCallbacks -----------------------------
(***************************************************************************)
(* The message callbacks of a ControlSignalManager: setSinkMsgCallback()   *)
(* on any thread against _onReg, receptions and removals on the executor   *)
(* thread, with the three mutexes that keep them apart.                    *)
(*                                                                         *)
(* sinkMtx_ is a variable, because it is held over several steps.  The     *)
(* manager's cbMtx_ and each sink's cbMtx_ guard one access at a time: a   *)
(* step each.  A callback runs without any of them, on the executor, and   *)
(* may itself call setSinkMsgCallback().                                   *)
(*                                                                         *)
(* Operators whose comment begins with (slip) are wrong variants of the    *)
(* definitions after them (see ControlSignalSink).                         *)
(***************************************************************************)
EXTENDS Naturals

CONSTANTS
    AppThreads,  \* the application's threads
    Exec,        \* the thread that spins the node
    Channel,     \* channel names
    Type,        \* message types
    TypeOf,      \* the message type of the sink of each channel
    CbsFor,      \* the application's callbacks for each message type
    None,        \* no callback (nullptr), no channel, no owner
    MaxSets,     \* bound of the model: calls of setSinkMsgCallback
    MaxRegs      \* bound of the model: registrations

Threads == AppThreads \cup {Exec}
Cb      == UNION {CbsFor[ty] : ty \in Type}

ASSUME ThreadsAssumption == Exec \notin AppThreads
ASSUME TypesAssumption   == TypeOf \in [Channel -> Type]
ASSUME NoneAssumption    == None \notin Cb /\ None \notin Threads /\ None \notin Channel
ASSUME BoundsAssumption  == MaxSets \in Nat /\ MaxRegs \in Nat

VARIABLES
    typedCbs,    \* typedCbs_: the callback that each applicator installs
    sinks,       \* the keys of sinks_
    msgCb,       \* msgCb_ of the sink of each channel
    sinkMtx,     \* who holds sinkMtx_
    pc,          \* where each thread is
    tid,         \* the message type it works on
    todo,        \* the sinks its loop has still to visit
    at,          \* the one it visits
    applicator,  \* local of _applyCbToSink
    invoking,    \* the callback that runs on the executor
    calling,     \* and the channel whose message it got
    sets, regs   \* counters of the model

locals == <<pc, tid, todo, at, applicator>>
inCb   == <<invoking, calling>>
counts == <<sets, regs>>
vars   == <<typedCbs, sinks, msgCb, sinkMtx, locals, inCb, counts>>

-----------------------------------------------------------------------------
Init ==
    /\ typedCbs = [ty \in Type |-> None]
    /\ sinks = {}
    /\ msgCb = [ch \in Channel |-> None]
    /\ sinkMtx = None
    /\ pc = [t \in Threads |-> "idle"]
    /\ tid \in [Threads -> Type]
    /\ todo = [t \in Threads |-> {}]
    /\ at = [t \in Threads |-> None]
    /\ applicator = [t \in Threads |-> None]
    /\ invoking = None /\ calling = None
    /\ sets = 0 /\ regs = 0

-----------------------------------------------------------------------------
(* setSinkMsgCallback, from an application thread, or on the executor from  *)
(* a callback or a timer                                                    *)

\* The entry of the type, under the manager's cbMtx_.
BeginSet(t, ty, c) ==
    /\ pc[t] = "idle" /\ sets < MaxSets
    /\ typedCbs' = [typedCbs EXCEPT ![ty] = c]
    /\ pc' = [pc EXCEPT ![t] = "lockSinks"]
    /\ tid' = [tid EXCEPT ![t] = ty]
    /\ sets' = sets + 1
    /\ UNCHANGED <<sinks, msgCb, sinkMtx, todo, at, applicator, inCb, regs>>

\* (slip) the sinks of other types as well.
ToVisitAll(ty) == sinks

\* The sinks whose msgType() is the callback's.
ToVisit(ty) == {ch \in sinks : TypeOf[ch] = ty}

LockSinks(t) ==
    /\ pc[t] = "lockSinks" /\ sinkMtx = None
    /\ sinkMtx' = t
    /\ todo' = [todo EXCEPT ![t] = ToVisit(tid[t])]
    /\ pc' = [pc EXCEPT ![t] = "visit"]
    /\ UNCHANGED <<typedCbs, sinks, msgCb, tid, at, applicator, inCb, counts>>

\* _applyCbToSink copies the applicator that is there by now; without one it
\* leaves the sink alone.
CopyApplicator(t, ch) ==
    /\ pc[t] = "visit" /\ ch \in todo[t]
    /\ IF typedCbs[tid[t]] = None
       THEN /\ todo' = [todo EXCEPT ![t] = @ \ {ch}]
            /\ UNCHANGED <<pc, at, applicator>>
       ELSE /\ applicator' = [applicator EXCEPT ![t] = typedCbs[tid[t]]]
            /\ at' = [at EXCEPT ![t] = ch]
            /\ pc' = [pc EXCEPT ![t] = "install"]
            /\ UNCHANGED todo
    /\ UNCHANGED <<typedCbs, sinks, msgCb, sinkMtx, tid, inCb, counts>>

\* (slip) _store that calls the callback under the sink's cbMtx_.
MsgCbFreeUnlessCalled(ch) == calling # ch

\* _store has let go of the sink's cbMtx_ when it calls the callback.
MsgCbFree(ch) == ch \in Channel

Install(t) ==
    /\ pc[t] = "install" /\ MsgCbFree(at[t])
    /\ msgCb' = [msgCb EXCEPT ![at[t]] = applicator[t]]
    /\ todo' = [todo EXCEPT ![t] = @ \ {at[t]}]
    /\ at' = [at EXCEPT ![t] = None]
    /\ applicator' = [applicator EXCEPT ![t] = None]
    /\ pc' = [pc EXCEPT ![t] = "visit"]
    /\ UNCHANGED <<typedCbs, sinks, sinkMtx, tid, inCb, counts>>

UnlockSinks(t) ==
    /\ pc[t] = "visit" /\ todo[t] = {}
    /\ sinkMtx' = None
    /\ pc' = [pc EXCEPT ![t] = "idle"]
    /\ UNCHANGED <<typedCbs, sinks, msgCb, tid, todo, at, applicator, inCb, counts>>

-----------------------------------------------------------------------------
(* The executor *)

ExecIdle == pc[Exec] = "idle" /\ invoking = None

\* (slip) the new sink is stored without its callback.
RegWithoutCallback(ch) ==
    /\ ExecIdle /\ sinkMtx = None /\ ch \notin sinks
    /\ regs < MaxRegs /\ regs' = regs + 1
    /\ sinks' = sinks \cup {ch}
    /\ msgCb' = [msgCb EXCEPT ![ch] = None]
    /\ UNCHANGED <<typedCbs, sinkMtx, locals, inCb, sets>>

\* _onReg stores the new sink and applies the callback in one critical section.
\* Its look for a duplicate is in an earlier one, but only Exec adds sinks.
OnReg(ch) ==
    /\ ExecIdle /\ sinkMtx = None /\ ch \notin sinks
    /\ regs < MaxRegs /\ regs' = regs + 1
    /\ sinks' = sinks \cup {ch}
    /\ msgCb' = [msgCb EXCEPT ![ch] = None]
    /\ sinkMtx' = Exec
    /\ tid' = [tid EXCEPT ![Exec] = TypeOf[ch]]
    /\ todo' = [todo EXCEPT ![Exec] = {ch}]
    /\ pc' = [pc EXCEPT ![Exec] = "visit"]
    /\ UNCHANGED <<typedCbs, at, applicator, inCb, sets>>

\* The status timer erases a sink.
RemoveSink(ch) ==
    /\ ExecIdle /\ sinkMtx = None /\ ch \in sinks
    /\ sinks' = sinks \ {ch}
    /\ msgCb' = [msgCb EXCEPT ![ch] = None]
    /\ UNCHANGED <<typedCbs, sinkMtx, locals, inCb, counts>>

\* _store copies msgCb_ under the sink's cbMtx_ and calls it after that.
Receive(ch) ==
    /\ ExecIdle /\ ch \in sinks /\ msgCb[ch] # None
    /\ invoking' = msgCb[ch] /\ calling' = ch
    /\ UNCHANGED <<typedCbs, sinks, msgCb, sinkMtx, locals, counts>>

CallbackReturns ==
    /\ invoking # None /\ pc[Exec] = "idle"
    /\ invoking' = None /\ calling' = None
    /\ UNCHANGED <<typedCbs, sinks, msgCb, sinkMtx, locals, counts>>

-----------------------------------------------------------------------------
SetSteps(t) ==
    LockSinks(t) \/ (\E ch \in Channel : CopyApplicator(t, ch)) \/ Install(t) \/ UnlockSinks(t)

\* The application sets no more callbacks.
NoMoreSets ==
    /\ sets = MaxSets /\ \A t \in AppThreads : pc[t] = "idle"
    /\ UNCHANGED vars

Next ==
    \/ \E t \in Threads : \/ \E ty \in Type : \E c \in CbsFor[ty] \cup {None} : BeginSet(t, ty, c)
                          \/ SetSteps(t)
    \/ \E ch \in Channel : OnReg(ch) \/ RemoveSink(ch) \/ Receive(ch)
    \/ CallbackReturns
    \/ NoMoreSets

Spec == Init /\ [][Next]_vars

\* A thread that can go on does.
FairSpec == Spec /\ \A t \in Threads : WF_vars(SetSteps(t))

-----------------------------------------------------------------------------
(* Properties *)

\* Types; in particular no callback ever gets messages of a type it is not for,
\* which the static_cast of the erased callback could not notice.
TypeOK ==
    /\ typedCbs \in [Type -> Cb \cup {None}]
    /\ \A ty \in Type : typedCbs[ty] \in CbsFor[ty] \cup {None}
    /\ sinks \subseteq Channel
    /\ msgCb \in [Channel -> Cb \cup {None}]
    /\ \A ch \in Channel : msgCb[ch] \in CbsFor[TypeOf[ch]] \cup {None}
    /\ sinkMtx \in Threads \cup {None}
    /\ pc \in [Threads -> {"idle", "lockSinks", "visit", "install"}]
    /\ tid \in [Threads -> Type]
    /\ todo \in [Threads -> SUBSET Channel]
    /\ at \in [Threads -> Channel \cup {None}]
    /\ applicator \in [Threads -> Cb \cup {None}]
    /\ invoking \in Cb \cup {None}
    /\ calling \in Channel \cup {None}
    /\ sets \in 0..MaxSets /\ regs \in 0..MaxRegs

\* While nobody is setting or applying a callback, every sink has the callback
\* that was set last for its type: no order of registrations, removals and
\* calls from several threads leaves a sink behind with none or an older one.
Quiescent == \A t \in Threads : pc[t] = "idle"

SinksUpToDate ==
    Quiescent =>
        \A ch \in sinks :
            typedCbs[TypeOf[ch]] # None => msgCb[ch] = typedCbs[TypeOf[ch]]

\* setSinkMsgCallback() returns, also when it is called from a callback and when
\* others call it at the same time: the mutexes are never taken crosswise.
SetReturns == \A t \in Threads : pc[t] # "idle" ~> pc[t] = "idle"
=============================================================================
