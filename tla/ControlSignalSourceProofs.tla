----------------------- MODULE ControlSignalSourceProofs -----------------------
(***************************************************************************)
(* Proofs about ControlSignalSource, for any number of threads and calls,  *)
(* any interval and any clock bound.                                       *)
(***************************************************************************)
EXTENDS ControlSignalSource, TLAPS

-----------------------------------------------------------------------------
(* Types *)

\* The threshold is a natural number.
LEMMA ThresholdIsNat == Threshold \in Nat
  BY IntervalAssumption DEF Threshold

\* Leaving a function clears the locals and keeps them well typed.
LEMMA ReturnType ==
  ASSUME TypeOK, NEW t \in Threads, Return(t)
  PROVE  /\ pc' \in [Threads -> PCs]
         /\ op' \in [Threads -> Ops]
         /\ toRead' \in [Threads -> SUBSET Loads]
         /\ sawEnd' \in [Threads -> BOOLEAN]
         /\ nowNs' \in [Threads -> 0..MaxClock]
         /\ lastNs' \in [Threads -> 0..MaxClock]
         /\ began' \in [Threads -> 0..MaxClock]
  BY BoundsAssumption DEF TypeOK, Return, PCs, Ops, Loads

\* So does going on inside it.
LEMMA GotoType ==
  ASSUME TypeOK, NEW t \in Threads, NEW at \in PCs, Goto(t, at)
  PROVE  /\ pc' \in [Threads -> PCs]
         /\ op' \in [Threads -> Ops]
         /\ toRead' \in [Threads -> SUBSET Loads]
         /\ sawEnd' \in [Threads -> BOOLEAN]
         /\ nowNs' \in [Threads -> 0..MaxClock]
         /\ lastNs' \in [Threads -> 0..MaxClock]
         /\ began' \in [Threads -> 0..MaxClock]
  BY DEF TypeOK, Goto, queryVars

\* What a send() reports is well typed.
LEMMA ReportType ==
  ASSUME TypeOK, NEW t \in Threads, AfterMarking(t)
  PROVE  /\ calls' \in [Threads -> Nat]
         /\ future' \in [Threads -> Answers \cup {"none"}]
         /\ cmdSuccess' \in [Threads -> BOOLEAN]
         /\ outcome' \in [Threads -> {"none", "answered", "timeout"}]
<1>1. CASE op[t] = "send"
  BY <1>1 DEF TypeOK, AfterMarking
<1>2. CASE op[t] # "send"
  BY <1>2 DEF TypeOK, AfterMarking, callVars
<1> QED BY <1>1, <1>2

\* The initial state is well typed.
LEMMA InitType == Init => TypeOK
<1> SUFFICES ASSUME Init PROVE TypeOK
  OBVIOUS
<1>1. isTopicMode \in BOOLEAN /\ useKeepAlive \in BOOLEAN /\ inRegistry \in BOOLEAN
  BY DEF Init
<1> QED BY <1>1, BoundsAssumption DEF Init, TypeOK, PCs, Ops, Loads, States, Answers, Call

\* Every step keeps the types.
LEMMA StepType == TypeOK /\ [Next]_vars => TypeOK'
<1> SUFFICES ASSUME TypeOK, [Next]_vars
             PROVE  TypeOK'
  OBVIOUS
<1> USE BoundsAssumption
<1>0. Exec \in Threads
  BY DEF Threads
<1>1. CASE Tick
  BY <1>1 DEF TypeOK, Tick, config, shared, queryVars, callVars, netVars
<1>2. ASSUME NEW t \in Threads, NEW o \in Ops, BeginQuery(t, o)
      PROVE  TypeOK'
  BY <1>2 DEF TypeOK, BeginQuery, Enter, PCs, Loads, config, shared, callVars, netVars
<1>3. ASSUME NEW t \in Threads, LoadEnd(t) \/ SampleClock(t) \/ LoadActivity(t)
      PROVE  TypeOK'
  <2>1. ASSUME NEW what \in Loads, Loading(t, what)
        PROVE  toRead' \in [Threads -> SUBSET Loads]
    <3>1. toRead[t] \ {what} \in SUBSET Loads
      BY DEF TypeOK
    <3> QED BY <2>1, <3>1 DEF TypeOK, Loading
  <2>2. CASE LoadEnd(t)
    <3>1. sawEnd' \in [Threads -> BOOLEAN]
      <4>1. (state = "DISCONNECTED") \in BOOLEAN
        OBVIOUS
      <4> QED BY <2>2, <4>1 DEF TypeOK, LoadEnd
    <3>2. toRead' \in [Threads -> SUBSET Loads]
      BY <2>1, <2>2 DEF LoadEnd, Loads
    <3> QED BY <2>2, <3>1, <3>2 DEF TypeOK, LoadEnd, Loading, config, shared, callVars, netVars
  <2>3. CASE SampleClock(t) \/ LoadActivity(t)
    <3>1. toRead' \in [Threads -> SUBSET Loads]
      BY <2>1, <2>3 DEF SampleClock, LoadActivity, Loads
    <3>2. nowNs' \in [Threads -> 0..MaxClock] /\ lastNs' \in [Threads -> 0..MaxClock]
      BY <2>3 DEF TypeOK, SampleClock, LoadActivity
    <3> QED BY <2>3, <3>1, <3>2 DEF TypeOK, SampleClock, LoadActivity, Loading, config, shared,
            callVars, netVars
  <2> QED BY <1>3, <2>2, <2>3
<1>4. ASSUME NEW t \in Threads, Judge(t)
      PROVE  TypeOK'
  <2>1. state' \in States
    BY <1>4 DEF TypeOK, Judge, States
  <2> QED BY <1>4, <2>1, GotoType DEF TypeOK, Judge, PCs, config, callVars, netVars
<1>5. ASSUME NEW t \in Threads, LoadResult(t)
      PROVE  TypeOK'
  BY <1>5, ReturnType DEF TypeOK, LoadResult, config, shared, callVars, netVars
<1>6. CASE SweepDecides
  <2>1. CASE Goto(Exec, "markDisconnected")
    BY <1>0, <1>6, <2>1, GotoType DEF TypeOK, SweepDecides, PCs, config, shared, callVars, netVars
  <2>2. CASE Return(Exec)
    BY <1>0, <1>6, <2>2, ReturnType DEF TypeOK, SweepDecides, config, shared, callVars, netVars
  <2> QED BY <1>6, <2>1, <2>2 DEF SweepDecides
<1>7. CASE MarkDisconnected
  BY <1>0, <1>7, ReturnType DEF TypeOK, MarkDisconnected, States, config, callVars, netVars
<1>8. ASSUME NEW t \in Threads, Publish(t) \/ NotReady(t)
      PROVE  TypeOK'
  BY <1>8 DEF TypeOK, Publish, NotReady, Clear, config, shared, queryVars, netVars
<1>9. ASSUME NEW t \in Threads, SendRequest(t)
      PROVE  TypeOK'
  <2>1. calls' \in [Threads -> Nat]
    BY <1>9 DEF TypeOK, SendRequest
  <2>2. requests' \subseteq Call
    BY <1>9, <2>1 DEF TypeOK, SendRequest, Call
  <2> QED BY <1>9, <2>1, <2>2 DEF TypeOK, SendRequest, Enter, Clear, PCs, Ops, config, shared,
          queryVars
<1>10. ASSUME NEW t \in Threads, WaitReturns(t)
       PROVE  TypeOK'
  BY <1>10, GotoType DEF TypeOK, WaitReturns, PCs, config, shared, callVars, netVars
<1>11. ASSUME NEW t \in Threads, StoreTimeout(t)
       PROVE  TypeOK'
  BY <1>11, ReturnType DEF TypeOK, StoreTimeout, Clear, States, config, netVars
<1>12. CASE HeartbeatArrives
  BY <1>0, <1>12 DEF TypeOK, HeartbeatArrives, Enter, PCs, Ops, config, shared, queryVars,
     callVars, netVars
<1>13. ASSUME NEW t \in Threads, SampleStamp(t)
       PROVE  TypeOK'
  BY <1>13 DEF TypeOK, SampleStamp, PCs, config, shared, callVars, netVars
<1>14. ASSUME NEW t \in Threads, StoreActivity(t)
       PROVE  TypeOK'
  <2>1. CASE pc[t] = "publish"
    BY <1>14, <2>1, GotoType DEF TypeOK, StoreActivity, PCs, config, callVars, netVars
  <2>2. CASE pc[t] # "publish"
    BY <1>14, <2>2, ReturnType, ReportType DEF TypeOK, StoreActivity, AfterMarking, config, netVars
  <2> QED BY <2>1, <2>2
<1>15. ASSUME NEW t \in Threads, StoreActive(t)
       PROVE  TypeOK'
  <2>1. CASE pc[t] = "publish"
    BY <1>15, <2>1, GotoType DEF TypeOK, StoreActive, PCs, States, config, callVars, netVars
  <2>2. CASE pc[t] # "publish"
    BY <1>15, <2>2, ReturnType, ReportType DEF TypeOK, StoreActive, AfterMarking, States, config,
       netVars
  <2> QED BY <2>1, <2>2
<1>16. ASSUME NEW c \in requests, NEW a \in Answers, ServiceAnswers(c, a)
       PROVE  TypeOK'
  BY <1>16 DEF TypeOK, ServiceAnswers, config, shared, queryVars, callVars
<1>17. ASSUME NEW m \in responses, TakeResponse(m)
       PROVE  TypeOK'
  <2>1. m.answer \in Answers
    BY DEF TypeOK
  <2> QED BY <1>17, <2>1 DEF TypeOK, TakeResponse, config, shared, queryVars
<1>18. CASE UNCHANGED vars
  BY <1>18 DEF TypeOK, vars, config, shared, queryVars, callVars, netVars
<1> QED
  BY <1>1, <1>2, <1>3, <1>4, <1>5, <1>6, <1>7, <1>8, <1>9, <1>10, <1>11, <1>12, <1>13, <1>14,
     <1>15, <1>16, <1>17, <1>18
  DEF Next, Query, Proceed, Destroyed

(***************************************************************************)
(* TypeOK is an invariant of every source.                                 *)
(***************************************************************************)
THEOREM TypeCorrect == Spec => []TypeOK
  BY InitType, StepType, PTL DEF Spec

-----------------------------------------------------------------------------
(* Whose answer cmdSuccess is *)

\* What is on its way, in a future or in cmdSuccess says ok only where the
\* service did.
AnswersAreTrue ==
    /\ \A m \in responses : m.answer = "ok" => m.call \in stored
    /\ \A t \in Threads : future[t] = "ok" => LastCall(t) \in stored
    /\ CommandWasAccepted

\* Each step keeps it.
LEMMA AnswersStep == TypeOK /\ AnswersAreTrue /\ [Next]_vars => AnswersAreTrue'
<1> SUFFICES ASSUME TypeOK, AnswersAreTrue, [Next]_vars
             PROVE  AnswersAreTrue'
  OBVIOUS
<1> USE DEF AnswersAreTrue, CommandWasAccepted, LastCall
<1>1. CASE UNCHANGED <<config, callVars, responses, stored>>
  BY <1>1 DEF config, callVars
<1>2. ASSUME NEW t \in Threads, Publish(t) \/ NotReady(t)
      PROVE  AnswersAreTrue'
  BY <1>2 DEF Publish, NotReady, Clear, TypeOK, config, netVars
<1>3. ASSUME NEW t \in Threads, SendRequest(t)
      PROVE  AnswersAreTrue'
  BY <1>3 DEF SendRequest, Clear, TypeOK, config
<1>4. ASSUME NEW t \in Threads, StoreTimeout(t)
      PROVE  AnswersAreTrue'
  BY <1>4 DEF StoreTimeout, Clear, TypeOK, config, netVars
<1>5. ASSUME NEW t \in Threads, AfterMarking(t), UNCHANGED <<config, netVars>>
      PROVE  AnswersAreTrue'
  <2>1. CASE op[t] = "send"
    BY <1>5, <2>1 DEF AfterMarking, TypeOK, config, netVars
  <2>2. CASE op[t] # "send"
    BY <1>5, <2>2 DEF AfterMarking, callVars, config, netVars
  <2> QED BY <2>1, <2>2
<1>6. ASSUME NEW c \in requests, NEW a \in Answers, ServiceAnswers(c, a)
      PROVE  AnswersAreTrue'
  BY <1>6 DEF ServiceAnswers, callVars, config
<1>7. ASSUME NEW m \in responses, TakeResponse(m)
      PROVE  AnswersAreTrue'
  BY <1>7 DEF TakeResponse, Completes, TypeOK, config
<1>8. ASSUME NEW t \in Threads, StoreActivity(t) \/ StoreActive(t)
      PROVE  AnswersAreTrue'
  BY <1>1, <1>5, <1>8 DEF StoreActivity, StoreActive, netVars
<1> QED
  BY <1>1, <1>2, <1>3, <1>4, <1>6, <1>7, <1>8
  DEF Next, Tick, Query, Proceed, BeginQuery, LoadEnd, SampleClock, LoadActivity, Loading, Judge,
      LoadResult, SweepDecides, MarkDisconnected, WaitReturns, HeartbeatArrives, SampleStamp,
      Destroyed, vars, netVars

(***************************************************************************)
(* A send() by service reports success only for a message that was         *)
(* accepted, whatever answers to earlier calls come late.                  *)
(***************************************************************************)
THEOREM CommandsAreAccepted == Spec => []CommandWasAccepted
<1>1. Init => AnswersAreTrue
  BY DEF Init, AnswersAreTrue, CommandWasAccepted
<1>2. AnswersAreTrue => CommandWasAccepted
  BY DEF AnswersAreTrue
<1> QED BY <1>1, <1>2, AnswersStep, TypeCorrect, PTL DEF Spec

-----------------------------------------------------------------------------
(* Without keep-alive *)

\* A call that has still to store its result in state_.
ToStore(t) == op[t] = "send" /\ pc[t] # "publishActivity"

\* Whose result the state is, when no call has still to store one.
BelongsToCall ==
    \/ state = "UNKNOWN"
    \/ state = "ACTIVE" /\ \E t \in Threads : outcome[t] = "answered" \/ pc[t] = "publishActivity"
    \/ state = "TIMEOUT" /\ \E t \in Threads : outcome[t] = "timeout"
    \/ state = "DISCONNECTED" /\ ~inRegistry

\* Only calls move the state: no heartbeat, no check, and by topic nothing.
OnlyCalls ==
    ~useKeepAlive =>
        /\ \A t \in Threads :
              /\ pc[t] # "check"
              /\ op[t] = "send" <=> pc[t] \notin {"idle", "loadState", "markDisconnected"}
              /\ isTopicMode => pc[t] \in {"idle", "loadState"}
              /\ op[t] = "send" => outcome[t] = "none"
              /\ state = "UNKNOWN" => outcome[t] = "none" /\ pc[t] # "publishActivity"
        /\ isTopicMode => state = "UNKNOWN" /\ inRegistry
        /\ (\E t \in Threads : ToStore(t)) \/ BelongsToCall

\* Each step keeps it.
LEMMA OnlyCallsStep == TypeOK /\ OnlyCalls /\ [Next]_vars => OnlyCalls'
<1> SUFFICES ASSUME TypeOK, OnlyCalls, [Next]_vars, ~useKeepAlive, UNCHANGED config
             PROVE  OnlyCalls'
  <2>1. [Next]_vars => UNCHANGED config
    BY DEF Next, Tick, Query, Proceed, BeginQuery, LoadEnd, SampleClock, LoadActivity, Loading,
       Judge, LoadResult, SweepDecides, MarkDisconnected, Publish, NotReady, SendRequest,
       WaitReturns, StoreTimeout, HeartbeatArrives, SampleStamp, StoreActivity, StoreActive,
       ServiceAnswers, TakeResponse, Destroyed, vars
  <2> QED BY <2>1 DEF OnlyCalls, config
<1> USE DEF OnlyCalls, ToStore, BelongsToCall
<1>0. Exec \in Threads /\ useKeepAlive' = FALSE /\ isTopicMode' = isTopicMode
  BY DEF Threads, config, TypeOK
<1>1. CASE UNCHANGED <<state, inRegistry, pc, op, outcome>>
  BY <1>0, <1>1
<1>2. ASSUME NEW t \in Threads, NEW o \in Ops, BeginQuery(t, o)
      PROVE  OnlyCalls'
  <2>1. /\ pc[t] = "idle" /\ op[t] # "send"
        /\ pc'[t] = "loadState" /\ op'[t] # "send"
        /\ \A u \in Threads : u # t => pc'[u] = pc[u] /\ op'[u] = op[u]
        /\ state' = state /\ inRegistry' = inRegistry /\ outcome' = outcome
    BY <1>2, QueriesAssumption DEF BeginQuery, MayQuery, Enter, Checks, TypeOK, shared, callVars
  <2> QED BY <1>0, <2>1
<1>3. ASSUME NEW t \in Threads, LoadResult(t)
      PROVE  OnlyCalls'
  BY <1>0, <1>3 DEF LoadResult, Return, TypeOK, shared, callVars
<1>4. CASE SweepDecides
  BY <1>0, <1>4 DEF SweepDecides, Goto, Return, TypeOK, shared, callVars
<1>5. CASE MarkDisconnected
  <2>1. /\ pc'[Exec] = "idle" /\ op'[Exec] # "send" /\ op[Exec] # "send"
        /\ \A u \in Threads : u # Exec => pc'[u] = pc[u] /\ op'[u] = op[u]
        /\ state' = "DISCONNECTED" /\ ~inRegistry' /\ outcome' = outcome /\ ~isTopicMode
    BY <1>0, <1>5 DEF MarkDisconnected, Return, TypeOK, callVars
  <2> QED BY <1>0, <2>1
<1>6. ASSUME NEW t \in Threads, SendRequest(t)
      PROVE  OnlyCalls'
  BY <1>0, <1>6 DEF SendRequest, MaySend, Enter, TypeOK, shared
<1>7. ASSUME NEW t \in Threads, WaitReturns(t)
      PROVE  OnlyCalls'
  <2>1. pc[t] = "wait" /\ op[t] = "send" /\ pc'[t] \in {"stamp", "storeTimeout"}
    BY <1>0, <1>7 DEF WaitReturns, Goto, TypeOK
  <2> QED BY <1>0, <1>7, <2>1 DEF WaitReturns, Goto, TypeOK, shared, callVars
<1>8. ASSUME NEW t \in Threads, StoreTimeout(t)
      PROVE  OnlyCalls'
  BY <1>0, <1>8 DEF StoreTimeout, Return, TypeOK
<1>9. ASSUME NEW t \in Threads, SampleStamp(t)
      PROVE  OnlyCalls'
  BY <1>0, <1>9 DEF SampleStamp, TypeOK, shared, callVars
\* A thread that stores is in a call, not in a heartbeat.
<1>10. ASSUME NEW t \in Threads, StoreActivity(t) \/ StoreActive(t)
       PROVE  op[t] = "send" /\ ~isTopicMode
  BY <1>0, <1>10 DEF StoreActivity, StoreActive
<1>11. ASSUME NEW t \in Threads, StoreActivity(t)
       PROVE  OnlyCalls'
  <2>1. CASE pc[t] = "publish"
    BY <1>0, <1>10, <1>11, <2>1 DEF StoreActivity, Goto, TypeOK, callVars
  <2>2. CASE pc[t] # "publish"
    BY <1>0, <1>10, <1>11, <2>2 DEF StoreActivity, AfterMarking, Return, TypeOK
  <2> QED BY <2>1, <2>2
<1>12. ASSUME NEW t \in Threads, StoreActive(t)
       PROVE  OnlyCalls'
  <2>1. CASE pc[t] = "publish"
    BY <1>0, <1>10, <1>12, <2>1 DEF StoreActive, Goto, TypeOK, callVars
  <2>2. CASE pc[t] # "publish"
    BY <1>0, <1>10, <1>12, <2>2 DEF StoreActive, AfterMarking, Return, TypeOK
  <2> QED BY <2>1, <2>2
<1> QED
  BY <1>0, <1>1, <1>2, <1>3, <1>4, <1>5, <1>6, <1>7, <1>8, <1>9, <1>11, <1>12
  DEF Next, Tick, Query, Proceed, LoadEnd, SampleClock, LoadActivity, Loading, Judge, Publish,
      NotReady, HeartbeatArrives, ServiceAnswers, TakeResponse, Destroyed, vars, shared, callVars

(***************************************************************************)
(* Without keep-alive the state is the result of a call that no later one  *)
(* supersedes, however calls overlap, and by topic it stays UNKNOWN.       *)
(***************************************************************************)
THEOREM StateFollowsCalls == Spec => []StateIsLatestCalls
<1>1. Init => OnlyCalls
  BY DEF Init, OnlyCalls, BelongsToCall
<1>2. TypeOK /\ OnlyCalls => StateIsLatestCalls
  <2> SUFFICES ASSUME TypeOK, OnlyCalls, ~useKeepAlive, \A t \in Threads : op[t] # "send"
               PROVE  \/ state = "UNKNOWN" /\ \A t \in Threads : outcome[t] = "none"
                      \/ state = "ACTIVE" /\ \E t \in Threads : outcome[t] = "answered"
                      \/ state = "TIMEOUT" /\ \E t \in Threads : outcome[t] = "timeout"
                      \/ state = "DISCONNECTED" /\ ~inRegistry
    BY DEF OnlyCalls, StateIsLatestCalls
  <2> QED BY DEF OnlyCalls, ToStore, BelongsToCall
<1> QED BY <1>1, <1>2, OnlyCallsStep, TypeCorrect, PTL DEF Spec

-----------------------------------------------------------------------------
(* With keep-alive *)

\* The clock, the stamps and the history agree on their order.
StampsInOrder ==
    /\ lastActivityNs <= heardAt
    /\ heardAt <= clock
    /\ \A t \in Threads :
          /\ began[t] <= clock
          /\ pc[t] \in {"publish", "publishActivity", "publishState"} => nowNs[t] <= heardAt

\* What a check knows from the loads it has made so far.
CheckKnows ==
    \A t \in Threads : pc[t] = "check" =>
        /\ "activity" \notin toRead[t] => lastNs[t] <= heardAt
        /\ "clock" \notin toRead[t] => nowNs[t] >= began[t]
        /\ "state" \notin toRead[t] /\ sawEnd[t] =>
              /\ state # "UNKNOWN"
              /\ state = "ACTIVE" => heardAt >= began[t]

FreshInv == TypeOK /\ StampsInOrder /\ CheckKnows /\ LivelyStateIsRecent

\* The initial state satisfies the invariant.
LEMMA FreshInit == Init => FreshInv
<1> SUFFICES ASSUME Init PROVE FreshInv
  OBVIOUS
<1>1. TypeOK
  BY InitType
<1>2. StampsInOrder /\ CheckKnows /\ LivelyStateIsRecent
  BY DEF Init, StampsInOrder, CheckKnows, LivelyStateIsRecent
<1> QED BY <1>1, <1>2 DEF FreshInv

\* Each step keeps the invariant.
LEMMA FreshStep == FreshInv /\ [Next]_vars => FreshInv'
<1> SUFFICES ASSUME FreshInv, [Next]_vars
             PROVE  StampsInOrder' /\ CheckKnows' /\ LivelyStateIsRecent'
  BY StepType DEF FreshInv
<1> USE ThresholdIsNat DEF FreshInv
<1>t. TypeOK'
  BY StepType
<1>e. Exec \in Threads /\ MaxClock \in Nat
  BY BoundsAssumption DEF Threads
<1>1. CASE UNCHANGED <<useKeepAlive, clock, shared, pc, queryVars, heardAt>>
  BY <1>1 DEF StampsInOrder, CheckKnows, LivelyStateIsRecent, shared, queryVars
<1>2. CASE Tick
  BY <1>2, <1>e DEF Tick, StampsInOrder, CheckKnows, LivelyStateIsRecent, TypeOK, config, shared,
     queryVars
<1>3. ASSUME NEW t \in Threads, NEW o \in Ops, BeginQuery(t, o)
      PROVE  StampsInOrder' /\ CheckKnows' /\ LivelyStateIsRecent'
  <2>1. StampsInOrder'
    BY <1>3, <1>e DEF BeginQuery, Enter, StampsInOrder, TypeOK, shared
  <2>2. CheckKnows'
    BY <1>3 DEF BeginQuery, Enter, Checks, CheckKnows, Loads, TypeOK, shared
  <2>3. LivelyStateIsRecent'
    BY <1>3 DEF BeginQuery, Enter, Checks, LivelyStateIsRecent, TypeOK, shared, config
  <2> QED BY <2>1, <2>2, <2>3
<1>4. ASSUME NEW t \in Threads, LoadEnd(t) \/ SampleClock(t) \/ LoadActivity(t)
      PROVE  StampsInOrder' /\ CheckKnows' /\ LivelyStateIsRecent'
  <2>1. StampsInOrder' /\ LivelyStateIsRecent'
    BY <1>4, <1>e DEF LoadEnd, SampleClock, LoadActivity, Loading, StampsInOrder,
       LivelyStateIsRecent, TypeOK, shared, config
  <2>2. CheckKnows'
    <3>1. CASE LoadEnd(t)
      BY <3>1 DEF LoadEnd, Loading, CheckKnows, TypeOK, shared
    <3>2. CASE SampleClock(t) \/ LoadActivity(t)
      BY <3>2, <1>e DEF SampleClock, LoadActivity, Loading, CheckKnows, StampsInOrder, TypeOK, shared
    <3> QED BY <1>4, <3>1, <3>2
  <2> QED BY <2>1, <2>2
<1>5. ASSUME NEW t \in Threads, Judge(t)
      PROVE  StampsInOrder' /\ CheckKnows' /\ LivelyStateIsRecent'
  <2>1. StampsInOrder'
    BY <1>5, <1>e DEF Judge, Goto, StampsInOrder, TypeOK, queryVars
  <2>2. CheckKnows'
    BY <1>5 DEF Judge, Goto, CheckKnows, TypeOK, queryVars
  <2>3. ASSUME state' \in {"UNKNOWN", "ACTIVE"}
        PROVE  heardAt >= began[t] - Threshold
    <3>1. ~Expired(t) /\ state' = state
      BY <1>5, <2>3 DEF Judge
    <3>2. CASE sawEnd[t]
      <4>1. heardAt >= began[t]
        BY <1>5, <2>3, <3>1, <3>2 DEF Judge, CheckKnows
      <4> QED BY <4>1, <1>e DEF TypeOK
    <3>3. CASE ~sawEnd[t]
      <4>1. nowNs[t] - lastNs[t] <= Threshold
        BY <1>e, <3>1, <3>3 DEF Expired, TypeOK
      <4>2. lastNs[t] <= heardAt /\ nowNs[t] >= began[t]
        BY <1>5 DEF Judge, CheckKnows
      <4> QED BY <1>e, <4>1, <4>2 DEF TypeOK
    <3> QED BY <3>2, <3>3
  <2>4. LivelyStateIsRecent'
    BY <1>5, <2>3 DEF Judge, Goto, LivelyStateIsRecent, TypeOK, config, queryVars
  <2> QED BY <2>1, <2>2, <2>4
\* A thread that goes on to a step the invariant does not speak of.
<1>g. ASSUME NEW t \in Threads, NEW at \in {"markDisconnected", "stamp", "storeTimeout"},
             Goto(t, at), UNCHANGED <<config, clock, shared, heardAt>>
      PROVE  StampsInOrder' /\ CheckKnows' /\ LivelyStateIsRecent'
  BY <1>g, <1>e DEF Goto, StampsInOrder, CheckKnows, LivelyStateIsRecent, TypeOK, config, shared,
     queryVars
\* A thread that returns, whatever it has stored in state_ before that.
<1>r. ASSUME NEW t \in Threads, Return(t), UNCHANGED <<config, clock>>,
             lastActivityNs' <= heardAt', heardAt' \in heardAt..clock,
             \/ state' = state
             \/ state' \in {"TIMEOUT", "DISCONNECTED"}
             \/ state' = "ACTIVE" /\ heardAt' = clock
      PROVE  StampsInOrder' /\ CheckKnows' /\ LivelyStateIsRecent'
  <2>1. StampsInOrder'
    BY <1>r, <1>e DEF Return, StampsInOrder, TypeOK
  <2>2. CheckKnows'
    BY <1>r, <1>e DEF Return, CheckKnows, StampsInOrder, TypeOK
  <2>3. LivelyStateIsRecent'
    BY <1>r, <1>e DEF Return, LivelyStateIsRecent, StampsInOrder, TypeOK, config
  <2> QED BY <2>1, <2>2, <2>3
<1>o. lastActivityNs <= heardAt /\ heardAt \in heardAt..clock /\ clock \in heardAt..clock
  BY <1>e DEF StampsInOrder, TypeOK
<1>6. ASSUME NEW t \in Threads, LoadResult(t)
      PROVE  StampsInOrder' /\ CheckKnows' /\ LivelyStateIsRecent'
  BY <1>6, <1>r, <1>o DEF LoadResult, shared
<1>7. CASE SweepDecides
  BY <1>7, <1>e, <1>g, <1>r, <1>o DEF SweepDecides, shared
<1>8. CASE MarkDisconnected
  BY <1>8, <1>e, <1>r, <1>o DEF MarkDisconnected
<1>9. ASSUME NEW t \in Threads, SendRequest(t)
      PROVE  StampsInOrder' /\ CheckKnows' /\ LivelyStateIsRecent'
  BY <1>9 DEF SendRequest, Enter, StampsInOrder, CheckKnows, LivelyStateIsRecent, TypeOK, config,
     shared, queryVars
<1>10. ASSUME NEW t \in Threads, WaitReturns(t)
       PROVE  StampsInOrder' /\ CheckKnows' /\ LivelyStateIsRecent'
  BY <1>10, <1>g DEF WaitReturns
<1>11. ASSUME NEW t \in Threads, StoreTimeout(t)
       PROVE  StampsInOrder' /\ CheckKnows' /\ LivelyStateIsRecent'
  BY <1>11, <1>r, <1>o DEF StoreTimeout
<1>12. CASE HeartbeatArrives
  BY <1>12, <1>e DEF HeartbeatArrives, Enter, StampsInOrder, CheckKnows, LivelyStateIsRecent,
     TypeOK, config, shared, queryVars
<1>13. ASSUME NEW t \in Threads, SampleStamp(t)
       PROVE  StampsInOrder' /\ CheckKnows' /\ LivelyStateIsRecent'
  <2>1. StampsInOrder'
    BY <1>13, <1>e DEF SampleStamp, StampsInOrder, TypeOK, shared
  <2>2. CheckKnows'
    BY <1>13, <1>e, <1>o DEF SampleStamp, CheckKnows, TypeOK, shared
  <2>3. LivelyStateIsRecent'
    BY <1>13, <1>e, <1>o DEF SampleStamp, LivelyStateIsRecent, TypeOK, shared, config
  <2> QED BY <2>1, <2>2, <2>3
<1>14. ASSUME NEW t \in Threads, StoreActivity(t)
       PROVE  StampsInOrder' /\ CheckKnows' /\ LivelyStateIsRecent'
  <2>0. nowNs[t] <= heardAt
    BY <1>14 DEF StoreActivity, StampsInOrder
  <2>1. CASE pc[t] = "publish"
    BY <1>14, <1>e, <2>0, <2>1 DEF StoreActivity, Goto, StampsInOrder, CheckKnows,
       LivelyStateIsRecent, TypeOK, config, queryVars
  <2>2. CASE pc[t] # "publish"
    BY <1>14, <1>r, <1>o, <2>0, <2>2 DEF StoreActivity, AfterMarking
  <2> QED BY <2>1, <2>2
<1>15. ASSUME NEW t \in Threads, StoreActive(t)
       PROVE  StampsInOrder' /\ CheckKnows' /\ LivelyStateIsRecent'
  <2>1. CASE pc[t] = "publish"
    <3>1. StampsInOrder'
      BY <1>15, <1>e, <2>1 DEF StoreActive, Goto, StampsInOrder, TypeOK, queryVars
    <3>2. CheckKnows'
      BY <1>15, <1>e, <1>o, <2>1 DEF StoreActive, Goto, CheckKnows, StampsInOrder, TypeOK, queryVars
    <3>3. LivelyStateIsRecent'
      BY <1>15, <1>e, <1>o, <2>1 DEF StoreActive, Goto, LivelyStateIsRecent, StampsInOrder, TypeOK,
         config, queryVars
    <3> QED BY <3>1, <3>2, <3>3
  <2>2. CASE pc[t] # "publish"
    <3>1. lastActivityNs' <= heardAt'
      BY <1>15, <1>e, <1>o DEF StoreActive, TypeOK
    <3> QED BY <1>15, <1>r, <1>o, <2>2, <3>1 DEF StoreActive, AfterMarking
  <2> QED BY <2>1, <2>2
<1> QED
  BY <1>1, <1>2, <1>3, <1>4, <1>5, <1>6, <1>7, <1>8, <1>9, <1>10, <1>11, <1>12, <1>13, <1>14, <1>15
  DEF Next, Query, Proceed, Publish, NotReady, ServiceAnswers, TakeResponse, Destroyed, vars, config

(***************************************************************************)
(* With keep-alive no query says UNKNOWN or ACTIVE of a source whose last  *)
(* sign of life is more than two intervals before the query.               *)
(***************************************************************************)
THEOREM LivelinessIsRecent == Spec => []LivelyStateIsRecent
<1>1. FreshInv => LivelyStateIsRecent
  BY DEF FreshInv
<1> QED BY <1>1, FreshInit, FreshStep, PTL DEF Spec
=============================================================================
