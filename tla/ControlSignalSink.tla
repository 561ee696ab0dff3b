--------------------------- MODULE ControlSignalSink ---------------------------
(***************************************************************************)
(* One ControlSignalSink of control_signal_transport.h, at the grain of    *)
(* its atomic loads and stores.                                            *)
(*                                                                         *)
(* Two kinds of threads run its code.  Exec is the thread of the node's    *)
(* executor: every callback of the node is in the default mutually         *)
(* exclusive callback group, so Exec runs one of the subscription (or      *)
(* service) callback, the keep-alive timer and the manager's status timer  *)
(* at a time, and application timers that call the public functions.       *)
(* AppThreads call the public functions whenever they like.                *)
(*                                                                         *)
(* state_ and lastActivityNs_ are relaxed atomics: each load and each      *)
(* store is a step of its own, the three loads of _checkTimeout happen in  *)
(* any order (their order is not constrained by the language), and so do   *)
(* the two stores of _store.  A critical section of msgMtx_ that touches   *)
(* nothing else is one step; read() keeps msgMtx_ across its last load, so *)
(* it takes two.                                                           *)
(*                                                                         *)
(* A definition whose comment begins with (slip) is a wrong variant of the *)
(* one after it.  The model does not use it: put in the place of the right *)
(* one, it makes a property fail, which shows that the property looks.     *)
(***************************************************************************)
EXTENDS Integers

CONSTANTS
    AppThreads,     \* the application's threads
    Exec,           \* the thread that spins the node
    Msg,            \* the messages
    NoMsg,          \* latestMsg_ is empty; also the default-constructed msgT{}
    AppOps,         \* which functions the application uses
    UseKeepAlive,   \* info_.use_keep_alive (with a positive interval)
    TimeoutNs,      \* info_.timeout_ns; 0 is "no timeout"
    MaxClock        \* bound of the model: the steady clock stops there

ASSUME ThreadsAssumption == Exec \notin AppThreads
ASSUME MsgAssumption     == NoMsg \notin Msg
ASSUME AppOpsAssumption  == AppOps \subseteq {"read", "getState", "getSinkState"}
ASSUME KeepAliveAssumption == UseKeepAlive \in BOOLEAN
ASSUME TimeoutAssumption == TimeoutNs \in Nat
ASSUME ClockAssumption   == MaxClock \in Nat

VARIABLES
    clock,           \* detail::steadyNs()
    state,           \* state_
    lastActivityNs,  \* lastActivityNs_
    latestMsg,       \* latestMsg_
    inRegistry,      \* the manager's sinks_ holds this sink
    held,            \* threads whose application code holds a shared_ptr to it
    escaped,         \* history: getSink() has handed a shared_ptr out
    pc,              \* where each thread is in the code
    op,              \* the function it is in
    toRead,          \* the loads of _checkTimeout it has still to make
    cur,             \* local: what it loaded from state_
    nowNs,           \* local: its sample of the clock
    lastNs,          \* local: what it loaded from lastActivityNs_
    outMsg,          \* read()'s output parameter
    began,           \* history: when the thread's current call began
    late,            \* history: it began when the sink was DISCONNECTED already
    acceptedAt       \* history: the last time _store was seen to accept a message

shared  == <<state, lastActivityNs, latestMsg>>
locals  == <<op, toRead, cur, nowNs, lastNs, outMsg, began, late>>
vars    == <<clock, shared, inRegistry, held, escaped, pc, locals, acceptedAt>>

Threads == AppThreads \cup {Exec}
States  == {"UNKNOWN", "ACTIVE", "LOW_FREQ", "TIMEOUT", "DISCONNECTED"}
Ops     == {"none", "read", "getState", "getSinkState", "keepAlive", "sweep", "store"}
PCs     == {"idle", "check", "lockMsg", "loadState", "markDisconnected",
            "stamp", "publish", "publishActivity", "publishState"}
Loads   == {"state", "clock", "activity"}

HalfTimeout == TimeoutNs \div 2

-----------------------------------------------------------------------------
(* Locks and lifetime *)

\* The object lives while the registry or an application holds a shared_ptr.
Alive == inRegistry \/ held # {}

\* (slip) sinkMtx_ not taken.
SinkMtxIgnored == TRUE

\* getSinkState() and the status timer run under sinkMtx_.
SinkMtxFree == \A t \in Threads : op[t] \notin {"getSinkState", "sweep"}

\* (slip) read() that lets go of msgMtx_ after its copy.
MsgMtxReleasedEarly == TRUE

\* read() holds msgMtx_ from the copy of the message to its last load.
MsgMtxFree == \A t \in Threads : ~(op[t] = "read" /\ pc[t] = "loadState")

-----------------------------------------------------------------------------
Init ==
    /\ clock = 0
    /\ state = "UNKNOWN"
    /\ lastActivityNs = 0            \* the constructor samples the clock
    /\ latestMsg = NoMsg
    /\ inRegistry = TRUE
    /\ held = {}
    /\ escaped = FALSE
    /\ pc = [t \in Threads |-> "idle"]
    /\ op = [t \in Threads |-> "none"]
    /\ toRead = [t \in Threads |-> {}]
    /\ cur = [t \in Threads |-> "UNKNOWN"]
    /\ nowNs = [t \in Threads |-> 0]
    /\ lastNs = [t \in Threads |-> 0]
    /\ outMsg = [t \in Threads |-> NoMsg]
    /\ began = [t \in Threads |-> 0]
    /\ late = [t \in Threads |-> FALSE]
    /\ acceptedAt = 0

Tick ==
    /\ clock < MaxClock
    /\ clock' = clock + 1
    /\ UNCHANGED <<shared, inRegistry, held, escaped, pc, locals, acceptedAt>>

\* The thread leaves its function; its locals are gone.
Return(t) ==
    /\ pc' = [pc EXCEPT ![t] = "idle"]
    /\ op' = [op EXCEPT ![t] = "none"]
    /\ toRead' = [toRead EXCEPT ![t] = {}]
    /\ cur' = [cur EXCEPT ![t] = "UNKNOWN"]
    /\ nowNs' = [nowNs EXCEPT ![t] = 0]
    /\ lastNs' = [lastNs EXCEPT ![t] = 0]
    /\ outMsg' = [outMsg EXCEPT ![t] = NoMsg]
    /\ began' = [began EXCEPT ![t] = 0]
    /\ late' = [late EXCEPT ![t] = FALSE]

-----------------------------------------------------------------------------
(* ControlSignalManager::getSink, and the caller dropping what it returned *)

GetSink(t) ==
    /\ pc[t] = "idle" /\ t \notin held
    /\ AppOps \cap {"read", "getState"} # {}
    /\ inRegistry /\ SinkMtxFree
    /\ held' = held \cup {t}
    /\ escaped' = TRUE
    /\ UNCHANGED <<clock, shared, inRegistry, pc, locals, acceptedAt>>

DropSink(t) ==
    /\ pc[t] = "idle" /\ t \in held
    /\ held' = held \ {t}
    /\ UNCHANGED <<clock, shared, inRegistry, escaped, pc, locals, acceptedAt>>

-----------------------------------------------------------------------------
(* _checkTimeout, which every query, the keep-alive timer and the status   *)
(* timer call first                                                        *)

\* Which calls a thread may begin, and the lock a call waits for.
MayBegin(t, o) ==
    \/ o \in AppOps \cap {"read", "getState"} /\ t \in held
    \/ o \in AppOps \cap {"getSinkState"} /\ inRegistry /\ SinkMtxFree
    \/ t = Exec /\ o = "keepAlive" /\ UseKeepAlive
    \/ t = Exec /\ o = "sweep" /\ inRegistry /\ SinkMtxFree

Begin(t, o) ==
    /\ Alive
    /\ pc[t] = "idle"
    /\ MayBegin(t, o)
    /\ pc' = [pc EXCEPT ![t] = "check"]
    /\ op' = [op EXCEPT ![t] = o]
    /\ toRead' = [toRead EXCEPT ![t] = Loads]
    /\ began' = [began EXCEPT ![t] = clock]
    /\ late' = [late EXCEPT ![t] = (state = "DISCONNECTED")]
    /\ UNCHANGED <<clock, shared, inRegistry, held, escaped, cur, nowNs, lastNs, outMsg, acceptedAt>>

Loading(t, what) ==
    /\ Alive
    /\ pc[t] = "check" /\ what \in toRead[t]
    /\ toRead' = [toRead EXCEPT ![t] = @ \ {what}]
    /\ UNCHANGED <<clock, shared, inRegistry, held, escaped, pc, op, outMsg, began, late,
                   acceptedAt>>

LoadCur(t) ==
    /\ Loading(t, "state")
    /\ cur' = [cur EXCEPT ![t] = state]
    /\ UNCHANGED <<nowNs, lastNs>>

SampleClock(t) ==
    /\ Loading(t, "clock")
    /\ nowNs' = [nowNs EXCEPT ![t] = clock]
    /\ UNCHANGED <<cur, lastNs>>

LoadActivity(t) ==
    /\ Loading(t, "activity")
    /\ lastNs' = [lastNs EXCEPT ![t] = lastActivityNs]
    /\ UNCHANGED <<cur, nowNs>>

\* (slip) >= for >.
ExpiredTooSoon(c, elapsed) ==
    /\ TimeoutNs > 0
    /\ c \in {"UNKNOWN", "ACTIVE", "LOW_FREQ"}
    /\ elapsed >= TimeoutNs

\* (slip) DISCONNECTED does not end the check.
ExpiredInAnyState(c, elapsed) ==
    /\ TimeoutNs > 0
    /\ elapsed > TimeoutNs

\* What the three loads make of the sink.
Expired(c, elapsed) ==
    /\ TimeoutNs > 0
    /\ c \in {"UNKNOWN", "ACTIVE", "LOW_FREQ"}
    /\ elapsed > TimeoutNs

\* (slip) the sink that was never heard is not exempt.
SlowEvenIfUnknown(c, elapsed) ==
    /\ TimeoutNs > 0
    /\ c \in {"UNKNOWN", "ACTIVE", "LOW_FREQ"}
    /\ elapsed > HalfTimeout
    /\ elapsed <= TimeoutNs

\* (slip) only TIMEOUT is taken from ACTIVE.
SlowIfSlow(c, elapsed) ==
    /\ TimeoutNs > 0
    /\ c = "LOW_FREQ"
    /\ elapsed > HalfTimeout
    /\ elapsed <= TimeoutNs

Slow(c, elapsed) ==
    /\ TimeoutNs > 0
    /\ c \in {"ACTIVE", "LOW_FREQ"}
    /\ elapsed > HalfTimeout
    /\ elapsed <= TimeoutNs

\* Where a call goes on when _checkTimeout returns.
AfterCheck(t) ==
    IF op[t] = "keepAlive" THEN Return(t)
    ELSE /\ pc' = [pc EXCEPT ![t] = IF op[t] = "read" THEN "lockMsg" ELSE "loadState"]
         /\ UNCHANGED locals

\* The store of _checkTimeout, or no store at all.  A thread may be stopped
\* between its loads and this store for as long as the scheduler likes.
Judge(t) ==
    /\ Alive
    /\ pc[t] = "check" /\ toRead[t] = {}
    /\ \/ Expired(cur[t], nowNs[t] - lastNs[t]) /\ state' = "TIMEOUT"
       \/ Slow(cur[t], nowNs[t] - lastNs[t]) /\ state' = "LOW_FREQ"
       \/ /\ ~Expired(cur[t], nowNs[t] - lastNs[t])
          /\ ~Slow(cur[t], nowNs[t] - lastNs[t])
          /\ state' = state
    /\ AfterCheck(t)
    /\ UNCHANGED <<clock, lastActivityNs, latestMsg, inRegistry, held, escaped, acceptedAt>>

-----------------------------------------------------------------------------
(* The rest of read(), getState() and the status timer's visit *)

CopyLatest(t) ==
    /\ Alive
    /\ pc[t] = "lockMsg" /\ MsgMtxFree
    /\ outMsg' = [outMsg EXCEPT ![t] = latestMsg]
    /\ pc' = [pc EXCEPT ![t] = "loadState"]
    /\ UNCHANGED <<clock, shared, inRegistry, held, escaped, op, toRead, cur, nowNs, lastNs,
                   began, late, acceptedAt>>

\* read() returns state_ = ACTIVE, getState() returns state_.
LoadResult(t) ==
    /\ Alive
    /\ pc[t] = "loadState" /\ op[t] # "sweep"
    /\ Return(t)
    /\ UNCHANGED <<clock, shared, inRegistry, held, escaped, acceptedAt>>

\* The status timer looks at the state it loaded.  Whether TIMEOUT has lasted
\* long enough is StatusTimer's business: here either answer is possible.
SweepDecides ==
    /\ pc[Exec] = "loadState" /\ op[Exec] = "sweep"
    /\ \/ /\ state = "TIMEOUT"
          /\ pc' = [pc EXCEPT ![Exec] = "markDisconnected"]
          /\ UNCHANGED locals
       \/ Return(Exec)
    /\ UNCHANGED <<clock, shared, inRegistry, held, escaped, acceptedAt>>

\* markDisconnected() and the erase that follows under the same lock.
MarkDisconnected ==
    /\ pc[Exec] = "markDisconnected"
    /\ state' = "DISCONNECTED"
    /\ inRegistry' = FALSE
    /\ Return(Exec)
    /\ UNCHANGED <<clock, lastActivityNs, latestMsg, held, escaped, acceptedAt>>

-----------------------------------------------------------------------------
(* _store, called by the subscription or the service *)

StoreMessage(m) ==
    /\ Alive
    /\ pc[Exec] = "idle" /\ MsgMtxFree
    /\ latestMsg' = m
    /\ pc' = [pc EXCEPT ![Exec] = "stamp"]
    /\ op' = [op EXCEPT ![Exec] = "store"]
    /\ UNCHANGED <<clock, state, lastActivityNs, inRegistry, held, escaped, toRead, cur, nowNs,
                   lastNs, outMsg, began, late, acceptedAt>>

\* (slip) a stamp in another unit than steadyNs().
StampInMicroseconds ==
    /\ Alive
    /\ pc[Exec] = "stamp"
    /\ nowNs' = [nowNs EXCEPT ![Exec] = 1000 * clock]
    /\ acceptedAt' = clock
    /\ pc' = [pc EXCEPT ![Exec] = "publish"]
    /\ UNCHANGED <<clock, shared, inRegistry, held, escaped, op, toRead, cur, lastNs, outMsg, began,
                   late>>

SampleStamp ==
    /\ Alive
    /\ pc[Exec] = "stamp"
    /\ nowNs' = [nowNs EXCEPT ![Exec] = clock]
    /\ acceptedAt' = clock
    /\ pc' = [pc EXCEPT ![Exec] = "publish"]
    /\ UNCHANGED <<clock, shared, inRegistry, held, escaped, op, toRead, cur, lastNs, outMsg, began,
                   late>>

\* lastActivityNs_.store: first or second of the two stores.
StoreActivity ==
    /\ Alive
    /\ pc[Exec] \in {"publish", "publishActivity"}
    /\ lastActivityNs' = nowNs[Exec]
    /\ IF pc[Exec] = "publish"
       THEN pc' = [pc EXCEPT ![Exec] = "publishState"] /\ UNCHANGED locals
       ELSE Return(Exec)
    /\ UNCHANGED <<clock, state, latestMsg, inRegistry, held, escaped, acceptedAt>>

\* state_.store(ACTIVE): first or second of the two stores.
StoreActive ==
    /\ Alive
    /\ pc[Exec] \in {"publish", "publishState"}
    /\ state' = "ACTIVE"
    /\ acceptedAt' = clock
    /\ IF pc[Exec] = "publish"
       THEN pc' = [pc EXCEPT ![Exec] = "publishActivity"] /\ UNCHANGED locals
       ELSE Return(Exec)
    /\ UNCHANGED <<clock, lastActivityNs, latestMsg, inRegistry, held, escaped>>

-----------------------------------------------------------------------------
\* Nobody holds the sink any more: it has been destroyed.
Destroyed == ~Alive /\ UNCHANGED vars

Query(t) ==
    \/ \E o \in Ops : Begin(t, o)
    \/ LoadCur(t) \/ SampleClock(t) \/ LoadActivity(t) \/ Judge(t)
    \/ CopyLatest(t) \/ LoadResult(t)

Reception ==
    \/ \E m \in Msg : StoreMessage(m)
    \/ SampleStamp \/ StoreActivity \/ StoreActive

Next ==
    \/ Tick
    \/ \E t \in Threads : GetSink(t) \/ DropSink(t) \/ Query(t)
    \/ SweepDecides \/ MarkDisconnected
    \/ Reception
    \/ Destroyed

Spec == Init /\ [][Next]_vars

-----------------------------------------------------------------------------
(* Properties *)

\* Types of the variables of the sink, its callers and the history variables.
TypeOK ==
    /\ clock \in 0..MaxClock
    /\ state \in States
    /\ lastActivityNs \in 0..MaxClock
    /\ latestMsg \in Msg \cup {NoMsg}
    /\ inRegistry \in BOOLEAN
    /\ held \subseteq Threads
    /\ escaped \in BOOLEAN
    /\ pc \in [Threads -> PCs]
    /\ op \in [Threads -> Ops]
    /\ toRead \in [Threads -> SUBSET Loads]
    /\ cur \in [Threads -> States]
    /\ nowNs \in [Threads -> 0..MaxClock]
    /\ lastNs \in [Threads -> 0..MaxClock]
    /\ outMsg \in [Threads -> Msg \cup {NoMsg}]
    /\ began \in [Threads -> 0..MaxClock]
    /\ late \in [Threads -> BOOLEAN]
    /\ acceptedAt \in 0..MaxClock

\* A sink that claims to be receiving has received: no interleaving of checks
\* with a reception makes it ACTIVE or LOW_FREQ while latestMsg_ is empty.
NeverActiveWithoutMessage ==
    state \in {"ACTIVE", "LOW_FREQ"} => latestMsg # NoMsg

\* A read() about to return true holds a real message, the latest one: never
\* the default-constructed one, nor one that a concurrent _store has replaced.
AboutToReturnTrue(t) == op[t] = "read" /\ pc[t] = "loadState" /\ state = "ACTIVE"

TrueReadReturnsLatest ==
    \A t \in Threads : AboutToReturnTrue(t) => outMsg[t] # NoMsg /\ outMsg[t] = latestMsg

\* A read() about to return true on a sink with a timeout has had a reception
\* no more than half a timeout before the call, whatever ran between its check
\* and its result: stale data is never handed out as fresh.
TrueReadIsFresh ==
    \A t \in Threads :
        AboutToReturnTrue(t) /\ TimeoutNs > 0 => acceptedAt >= began[t] - HalfTimeout

\* Callbacks and the manager's queries run on a raw this.  While getSink() has
\* handed nothing out, none of them is inside the sink when it is destroyed.
NoUseAfterDestruction ==
    ~escaped => \A t \in Threads : op[t] # "none" => Alive

\* Two things only take a sink out of DISCONNECTED: a message, because _store
\* makes any state ACTIVE, and a check that was under way when the sink was
\* marked.  No call that began on the marked sink does, on whatever thread and
\* however often the holders of the sink query it.  (The enum calls the state
\* terminal without these two exceptions: README, section 6.)
OnlyMessagesRevive ==
    [][state = "DISCONNECTED" /\ state' # "DISCONNECTED" =>
          \/ op[Exec] = "store" /\ state' = "ACTIVE"
          \/ \E t \in Threads : pc[t] = "check" /\ pc'[t] # "check" /\ ~late[t]]_vars

-----------------------------------------------------------------------------
(* The life cycle a user sees.  A reception counts from the moment _store  *)
(* has sampled the clock, although its two stores are still to come.       *)

Publishing == pc[Exec] \in {"publish", "publishActivity", "publishState"}

Lifecycle == INSTANCE SinkLifecycle WITH
                st      <- IF Publishing THEN "ACTIVE" ELSE state,
                heardAt <- IF Publishing THEN nowNs[Exec] ELSE lastActivityNs,
                now     <- clock

\* When only the executor thread uses the sink, through the manager, the sink
\* is an implementation of its documented life cycle.
LifecycleSpec == Lifecycle!Spec
=============================================================================
