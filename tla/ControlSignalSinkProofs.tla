----------------------- MODULE ControlSignalSinkProofs -----------------------
(***************************************************************************)
(* Proofs about ControlSignalSink, for any number of threads and messages, *)
(* any timeout and any clock bound.                                        *)
(***************************************************************************)
EXTENDS ControlSignalSink, TLAPS

(***************************************************************************)
(* The inductive invariant.                                                *)
(***************************************************************************)

\* Nothing that makes the sink look alive is around before the first message:
\* not state_, not a copy of it in a check, not a reception about to publish.
MessageFirst ==
    /\ state \in {"ACTIVE", "LOW_FREQ"} => latestMsg # NoMsg
    /\ \A t \in Threads : cur[t] \in {"ACTIVE", "LOW_FREQ"} => latestMsg # NoMsg
    /\ pc[Exec] \in {"stamp", "publish", "publishActivity", "publishState"}
          => latestMsg # NoMsg

\* While a read() holds msgMtx_ its copy stays the latest message.
CopyIsLatest ==
    \A t \in Threads :
        op[t] = "read" /\ pc[t] = "loadState" => outMsg[t] = latestMsg

\* The clock, the stamps and the history agree on their order.
StampsInOrder ==
    /\ lastActivityNs <= acceptedAt
    /\ acceptedAt <= clock
    /\ Publishing => nowNs[Exec] <= acceptedAt
    /\ \A t \in Threads : began[t] <= clock

\* What a check knows from the loads it has made so far.
CheckKnows ==
    \A t \in Threads : pc[t] = "check" =>
        /\ "activity" \notin toRead[t] => lastNs[t] <= acceptedAt
        /\ "clock" \notin toRead[t] => nowNs[t] >= began[t]
        /\ "state" \notin toRead[t] /\ cur[t] # "ACTIVE" /\ state = "ACTIVE"
              => acceptedAt >= began[t]

\* After its check, a read() may find ACTIVE only if a reception is recent.
CheckedReadIsFresh ==
    \A t \in Threads :
        op[t] = "read" /\ pc[t] \in {"lockMsg", "loadState"}
        /\ state = "ACTIVE" /\ TimeoutNs > 0
           => acceptedAt >= began[t] - HalfTimeout

SinkInv ==
    /\ TypeOK
    /\ MessageFirst
    /\ CopyIsLatest
    /\ StampsInOrder
    /\ CheckKnows
    /\ CheckedReadIsFresh

-----------------------------------------------------------------------------
(* Lemmas *)

\* Half a timeout is a natural number.
LEMMA HalfIsNat == HalfTimeout \in Nat
  BY TimeoutAssumption DEF HalfTimeout

\* Leaving a function clears the locals and keeps them well typed.
LEMMA ReturnType ==
  ASSUME TypeOK, NEW t \in Threads, Return(t)
  PROVE  /\ pc' \in [Threads -> PCs]
         /\ op' \in [Threads -> Ops]
         /\ toRead' \in [Threads -> SUBSET Loads]
         /\ cur' \in [Threads -> States]
         /\ nowNs' \in [Threads -> 0..MaxClock]
         /\ lastNs' \in [Threads -> 0..MaxClock]
         /\ outMsg' \in [Threads -> Msg \cup {NoMsg}]
         /\ began' \in [Threads -> 0..MaxClock]
         /\ late' \in [Threads -> BOOLEAN]
  BY ClockAssumption DEF TypeOK, Return, PCs, Ops, Loads, States

\* The initial state is well typed.
LEMMA InitType == Init => TypeOK
<1> SUFFICES ASSUME Init PROVE TypeOK
  OBVIOUS
<1>1. inRegistry \in BOOLEAN /\ escaped \in BOOLEAN
  BY DEF Init
<1> QED BY <1>1, ClockAssumption DEF Init, TypeOK, PCs, Ops, Loads, States

\* Every step keeps the types.
LEMMA StepType == TypeOK /\ [Next]_vars => TypeOK'
<1> SUFFICES ASSUME TypeOK, [Next]_vars
             PROVE  TypeOK'
  OBVIOUS
<1> USE ClockAssumption
<1>0. Exec \in Threads
  BY DEF Threads
<1>1. CASE Tick
  BY <1>1 DEF TypeOK, Tick, shared, locals
<1>2. ASSUME NEW t \in Threads, GetSink(t) \/ DropSink(t)
      PROVE  TypeOK'
  BY <1>2 DEF TypeOK, GetSink, DropSink, shared, locals
<1>3. ASSUME NEW t \in Threads, NEW o \in Ops, Begin(t, o)
      PROVE  TypeOK'
  BY <1>3 DEF TypeOK, Begin, shared, PCs, Loads
<1>4. ASSUME NEW t \in Threads, LoadCur(t) \/ SampleClock(t) \/ LoadActivity(t)
      PROVE  TypeOK'
  BY <1>4 DEF TypeOK, LoadCur, SampleClock, LoadActivity, Loading, shared, States
<1>5. ASSUME NEW t \in Threads, Judge(t)
      PROVE  TypeOK'
  <2>1. state' \in States
    BY <1>5 DEF TypeOK, Judge, States
  <2>2. CASE op[t] = "keepAlive"
    BY <1>5, <2>1, <2>2, ReturnType DEF TypeOK, Judge, AfterCheck
  <2>3. CASE op[t] # "keepAlive"
    BY <1>5, <2>1, <2>3 DEF TypeOK, Judge, AfterCheck, locals, PCs
  <2> QED BY <2>2, <2>3
<1>6. ASSUME NEW t \in Threads, CopyLatest(t)
      PROVE  TypeOK'
  BY <1>6 DEF TypeOK, CopyLatest, shared, PCs
<1>7. ASSUME NEW t \in Threads, LoadResult(t)
      PROVE  TypeOK'
  BY <1>7, ReturnType DEF TypeOK, LoadResult, shared
<1>8. CASE SweepDecides
  <2>1. CASE Return(Exec)
    BY <1>0, <1>8, <2>1, ReturnType DEF TypeOK, SweepDecides, shared
  <2>2. CASE ~Return(Exec)
    BY <1>0, <1>8, <2>2 DEF TypeOK, SweepDecides, shared, locals, PCs
  <2> QED BY <2>1, <2>2
<1>9. CASE MarkDisconnected
  BY <1>0, <1>9, ReturnType DEF TypeOK, MarkDisconnected, States
<1>10. ASSUME NEW m \in Msg, StoreMessage(m)
       PROVE  TypeOK'
  BY <1>0, <1>10 DEF TypeOK, StoreMessage, PCs, Ops
<1>11. CASE SampleStamp
  BY <1>0, <1>11 DEF TypeOK, SampleStamp, shared, PCs
<1>12. CASE StoreActivity
  <2>1. CASE pc[Exec] = "publish"
    BY <1>0, <1>12, <2>1 DEF TypeOK, StoreActivity, locals, PCs
  <2>2. CASE pc[Exec] # "publish"
    BY <1>0, <1>12, <2>2, ReturnType DEF TypeOK, StoreActivity
  <2> QED BY <2>1, <2>2
<1>13. CASE StoreActive
  <2>1. CASE pc[Exec] = "publish"
    BY <1>0, <1>13, <2>1 DEF TypeOK, StoreActive, locals, PCs, States
  <2>2. CASE pc[Exec] # "publish"
    BY <1>0, <1>13, <2>2, ReturnType DEF TypeOK, StoreActive, States
  <2> QED BY <2>1, <2>2
<1>14. CASE UNCHANGED vars
  BY <1>14 DEF TypeOK, vars, shared, locals
<1> QED
  BY <1>1, <1>2, <1>3, <1>4, <1>5, <1>6, <1>7, <1>8, <1>9, <1>10, <1>11, <1>12,
     <1>13, <1>14
  DEF Next, Query, Reception, Destroyed

(***************************************************************************)
(* TypeOK is an invariant of every sink.                                   *)
(***************************************************************************)
THEOREM TypeCorrect == Spec => []TypeOK
  BY InitType, StepType, PTL DEF Spec

-----------------------------------------------------------------------------
(* SinkInv is inductive *)

\* The initial state satisfies the invariant.
LEMMA InitInv == Init => SinkInv
<1> SUFFICES ASSUME Init PROVE SinkInv
  OBVIOUS
<1>1. TypeOK
  BY InitType
<1>2. MessageFirst /\ CopyIsLatest
  BY ThreadsAssumption DEF Init, MessageFirst, CopyIsLatest, Threads
<1>3. StampsInOrder /\ CheckKnows /\ CheckedReadIsFresh
  BY ThreadsAssumption DEF Init, StampsInOrder, CheckKnows, CheckedReadIsFresh, Publishing, Threads
<1> QED BY <1>1, <1>2, <1>3 DEF SinkInv

\* Each step keeps the invariant.
LEMMA StepInv == SinkInv /\ [Next]_vars => SinkInv'
<1> SUFFICES ASSUME SinkInv, [Next]_vars
             PROVE  MessageFirst' /\ CopyIsLatest' /\ StampsInOrder'
                    /\ CheckKnows' /\ CheckedReadIsFresh'
  BY StepType DEF SinkInv
<1> USE DEF SinkInv
<1>t. TypeOK'
  BY StepType
<1>e. Exec \in Threads
  BY DEF Threads
<1>h. HalfTimeout \in Nat /\ TimeoutNs \in Nat /\ MaxClock \in Nat
  BY HalfIsNat, TimeoutAssumption, ClockAssumption
<1>1. CASE Tick
  <2>1. MessageFirst' /\ CopyIsLatest'
    BY <1>1 DEF Tick, MessageFirst, CopyIsLatest, shared, locals
  <2>2. StampsInOrder'
    BY <1>1, <1>e, <1>h DEF Tick, StampsInOrder, Publishing, TypeOK, shared, locals
  <2>3. CheckKnows' /\ CheckedReadIsFresh'
    BY <1>1 DEF Tick, CheckKnows, CheckedReadIsFresh, shared, locals
  <2> QED BY <2>1, <2>2, <2>3
<1>2. ASSUME NEW t \in Threads, GetSink(t) \/ DropSink(t)
      PROVE  MessageFirst' /\ CopyIsLatest' /\ StampsInOrder' /\ CheckKnows'
             /\ CheckedReadIsFresh'
  BY <1>2 DEF GetSink, DropSink, MessageFirst, CopyIsLatest, StampsInOrder, Publishing,
     CheckKnows, CheckedReadIsFresh, shared, locals
<1>3. ASSUME NEW t \in Threads, NEW o \in Ops, Begin(t, o)
      PROVE  MessageFirst' /\ CopyIsLatest' /\ StampsInOrder' /\ CheckKnows'
             /\ CheckedReadIsFresh'
  <2>1. MessageFirst' /\ CopyIsLatest'
    BY <1>3, <1>e DEF Begin, MessageFirst, CopyIsLatest, TypeOK, shared
  <2>2. StampsInOrder'
    BY <1>3, <1>e, <1>h DEF Begin, StampsInOrder, Publishing, TypeOK, shared
  <2>3. CheckKnows'
    BY <1>3 DEF Begin, CheckKnows, Loads, TypeOK, shared
  <2>4. CheckedReadIsFresh'
    BY <1>3 DEF Begin, CheckedReadIsFresh, TypeOK, shared
  <2> QED BY <2>1, <2>2, <2>3, <2>4
<1>4. ASSUME NEW t \in Threads, LoadCur(t) \/ SampleClock(t) \/ LoadActivity(t)
      PROVE  MessageFirst' /\ CopyIsLatest' /\ StampsInOrder' /\ CheckKnows'
             /\ CheckedReadIsFresh'
  <2>1. MessageFirst' /\ CopyIsLatest' /\ CheckedReadIsFresh'
    BY <1>4, <1>e DEF LoadCur, SampleClock, LoadActivity, Loading, MessageFirst,
       CopyIsLatest, CheckedReadIsFresh, TypeOK, shared
  <2>2. StampsInOrder'
    BY <1>4, <1>e DEF LoadCur, SampleClock, LoadActivity, Loading, StampsInOrder,
       Publishing, TypeOK, shared
  <2>3. CheckKnows'
    BY <1>4, <1>h DEF LoadCur, SampleClock, LoadActivity, Loading, CheckKnows,
       StampsInOrder, TypeOK, shared
  <2> QED BY <2>1, <2>2, <2>3
<1>5. ASSUME NEW t \in Threads, Judge(t)
      PROVE  MessageFirst' /\ CopyIsLatest' /\ StampsInOrder' /\ CheckKnows'
             /\ CheckedReadIsFresh'
  <2>1. /\ pc' \in [Threads -> PCs]
        /\ pc[t] = "check" /\ pc'[t] # "check"
        /\ \A u \in Threads \ {t} : pc'[u] = pc[u] /\ op'[u] = op[u] /\ cur'[u] = cur[u]
              /\ toRead'[u] = toRead[u] /\ nowNs'[u] = nowNs[u] /\ lastNs'[u] = lastNs[u]
              /\ began'[u] = began[u] /\ outMsg'[u] = outMsg[u]
    BY <1>5, <1>t DEF Judge, AfterCheck, Return, TypeOK, locals
  <2>2. /\ op[t] = "keepAlive" => op'[t] = "none" /\ cur'[t] = "UNKNOWN"
                                   /\ pc'[t] = "idle" /\ began'[t] = 0
        /\ op[t] # "keepAlive" => op'[t] = op[t] /\ cur'[t] = cur[t]
              /\ began'[t] = began[t]
        /\ op[t] = "read" => pc'[t] = "lockMsg"
        /\ pc'[t] \in {"idle", "lockMsg", "loadState"}
    BY <1>5 DEF Judge, AfterCheck, Return, TypeOK, locals
  <2>3. /\ state' = "ACTIVE" => state = "ACTIVE"
        /\ state' = "LOW_FREQ" => state = "LOW_FREQ" \/ cur[t] \in {"ACTIVE", "LOW_FREQ"}
        /\ latestMsg' = latestMsg /\ lastActivityNs' = lastActivityNs
        /\ acceptedAt' = acceptedAt /\ clock' = clock
    BY <1>5 DEF Judge, Slow
  <2>4. MessageFirst' /\ CopyIsLatest'
    BY <1>e, <2>1, <2>2, <2>3 DEF MessageFirst, CopyIsLatest
  <2>5. StampsInOrder'
    BY <1>e, <1>h, <2>1, <2>2, <2>3 DEF StampsInOrder, Publishing, TypeOK
  <2>6. CheckKnows'
    BY <2>1, <2>2, <2>3 DEF CheckKnows
  <2>7. ASSUME op[t] = "read", state' = "ACTIVE", TimeoutNs > 0
        PROVE  acceptedAt >= began[t] - HalfTimeout
    <3>1. CASE cur[t] = "ACTIVE"
      <4>1. ~Slow(cur[t], nowNs[t] - lastNs[t]) /\ ~Expired(cur[t], nowNs[t] - lastNs[t])
        BY <1>5, <2>7 DEF Judge
      <4>2. nowNs[t] - lastNs[t] <= HalfTimeout
        BY <1>h, <2>7, <3>1, <4>1 DEF Slow, Expired, TypeOK
      <4>3. lastNs[t] <= acceptedAt /\ nowNs[t] >= began[t]
        BY <1>5 DEF Judge, CheckKnows
      <4> QED BY <1>h, <4>2, <4>3 DEF TypeOK
    <3>2. CASE cur[t] # "ACTIVE"
      <4>1. acceptedAt >= began[t]
        BY <1>5, <2>3, <2>7, <3>2 DEF Judge, CheckKnows
      <4> QED BY <1>h, <4>1 DEF TypeOK
    <3> QED BY <3>1, <3>2
  <2>8. CheckedReadIsFresh'
    <3> SUFFICES ASSUME NEW u \in Threads, op'[u] = "read",
                        pc'[u] \in {"lockMsg", "loadState"}, state' = "ACTIVE", TimeoutNs > 0
                 PROVE  acceptedAt' >= began'[u] - HalfTimeout
      BY DEF CheckedReadIsFresh
    <3>1. CASE u = t
      BY <2>2, <2>3, <2>7, <3>1
    <3>2. CASE u # t
      BY <2>1, <2>3, <3>2 DEF CheckedReadIsFresh
    <3> QED BY <3>1, <3>2
  <2> QED BY <2>4, <2>5, <2>6, <2>8
<1>6. ASSUME NEW t \in Threads, CopyLatest(t)
      PROVE  MessageFirst' /\ CopyIsLatest' /\ StampsInOrder' /\ CheckKnows'
             /\ CheckedReadIsFresh'
  <2>1. MessageFirst' /\ CopyIsLatest'
    BY <1>6, <1>e DEF CopyLatest, MessageFirst, CopyIsLatest, TypeOK, shared
  <2>2. StampsInOrder' /\ CheckKnows' /\ CheckedReadIsFresh'
    BY <1>6, <1>e DEF CopyLatest, StampsInOrder, Publishing, CheckKnows,
       CheckedReadIsFresh, TypeOK, shared
  <2> QED BY <2>1, <2>2
\* A thread that returns is in no phase the invariant speaks of.
<1>r. ASSUME NEW t \in Threads, Return(t), latestMsg' = latestMsg, clock' = clock,
             lastActivityNs' <= acceptedAt', acceptedAt' <= clock', acceptedAt' >= acceptedAt,
             \/ state' = state \/ state' = "DISCONNECTED"
             \/ state' = "ACTIVE" /\ acceptedAt' = clock /\ latestMsg # NoMsg
      PROVE  MessageFirst' /\ CopyIsLatest' /\ StampsInOrder' /\ CheckKnows'
             /\ CheckedReadIsFresh'
  <2>1. MessageFirst' /\ CopyIsLatest'
    BY <1>r, <1>e DEF Return, MessageFirst, CopyIsLatest, TypeOK
  <2>2. StampsInOrder'
    BY <1>r, <1>t, <1>e, <1>h DEF Return, StampsInOrder, Publishing, TypeOK
  <2>3. CheckKnows'
    BY <1>r, <1>t, <1>h DEF Return, CheckKnows, StampsInOrder, TypeOK
  <2>4. CheckedReadIsFresh'
    BY <1>r, <1>t, <1>h DEF Return, CheckedReadIsFresh, StampsInOrder, TypeOK
  <2> QED BY <2>1, <2>2, <2>3, <2>4
<1>o. lastActivityNs <= acceptedAt /\ acceptedAt <= clock /\ acceptedAt >= acceptedAt
      /\ clock >= acceptedAt
  BY <1>h DEF StampsInOrder, TypeOK
<1>7. ASSUME NEW t \in Threads, LoadResult(t)
      PROVE  MessageFirst' /\ CopyIsLatest' /\ StampsInOrder' /\ CheckKnows'
             /\ CheckedReadIsFresh'
  BY <1>7, <1>r, <1>o DEF LoadResult, shared
<1>8. CASE SweepDecides
  <2>1. CASE Return(Exec)
    BY <1>8, <1>r, <1>o, <1>e, <2>1 DEF SweepDecides, shared
  <2>2. CASE ~Return(Exec)
    BY <1>8, <1>e, <2>2 DEF SweepDecides, MessageFirst, CopyIsLatest, StampsInOrder,
       Publishing, CheckKnows, CheckedReadIsFresh, TypeOK, shared, locals
  <2> QED BY <2>1, <2>2
<1>9. CASE MarkDisconnected
  BY <1>9, <1>r, <1>o, <1>e DEF MarkDisconnected
<1>10. ASSUME NEW m \in Msg, StoreMessage(m)
       PROVE  MessageFirst' /\ CopyIsLatest' /\ StampsInOrder' /\ CheckKnows'
              /\ CheckedReadIsFresh'
  <2>1. m # NoMsg
    BY MsgAssumption
  <2>2. MessageFirst' /\ CopyIsLatest'
    BY <1>10, <1>e, <2>1 DEF StoreMessage, MsgMtxFree, MessageFirst, CopyIsLatest, TypeOK
  <2>3. StampsInOrder' /\ CheckKnows' /\ CheckedReadIsFresh'
    BY <1>10, <1>e DEF StoreMessage, StampsInOrder, Publishing, CheckKnows,
       CheckedReadIsFresh, TypeOK
  <2> QED BY <2>2, <2>3
<1>11. CASE SampleStamp
  <2>1. MessageFirst' /\ CopyIsLatest'
    BY <1>11, <1>e DEF SampleStamp, MessageFirst, CopyIsLatest, TypeOK, shared
  <2>2. StampsInOrder'
    BY <1>11, <1>e, <1>h, <1>o DEF SampleStamp, StampsInOrder, Publishing, TypeOK, shared
  <2>3. CheckKnows'
    BY <1>11, <1>e, <1>h, <1>o DEF SampleStamp, CheckKnows, TypeOK, shared
  <2>4. CheckedReadIsFresh'
    BY <1>11, <1>e, <1>h, <1>o DEF SampleStamp, CheckedReadIsFresh, TypeOK, shared
  <2> QED BY <2>1, <2>2, <2>3, <2>4
<1>12. CASE StoreActivity
  <2>1. nowNs[Exec] <= acceptedAt /\ latestMsg # NoMsg
    BY <1>12 DEF StoreActivity, StampsInOrder, MessageFirst, Publishing
  <2>2. CASE pc[Exec] = "publish"
    <3>1. MessageFirst' /\ CopyIsLatest'
      BY <1>12, <1>e, <2>1, <2>2 DEF StoreActivity, MessageFirst, CopyIsLatest, TypeOK, locals
    <3>2. StampsInOrder' /\ CheckKnows' /\ CheckedReadIsFresh'
      BY <1>12, <1>e, <2>1, <2>2 DEF StoreActivity, StampsInOrder, Publishing, CheckKnows,
         CheckedReadIsFresh, TypeOK, locals
    <3> QED BY <3>1, <3>2
  <2>3. CASE pc[Exec] # "publish"
    BY <1>12, <1>r, <1>o, <1>e, <2>1, <2>3 DEF StoreActivity
  <2> QED BY <2>2, <2>3
<1>13. CASE StoreActive
  <2>1. latestMsg # NoMsg /\ nowNs[Exec] <= acceptedAt
    BY <1>13 DEF StoreActive, MessageFirst, StampsInOrder, Publishing
  <2>2. CASE pc[Exec] = "publish"
    <3>1. MessageFirst' /\ CopyIsLatest'
      BY <1>13, <1>e, <2>1, <2>2 DEF StoreActive, MessageFirst, CopyIsLatest, TypeOK, locals
    <3>2. StampsInOrder'
      BY <1>13, <1>e, <1>h, <1>o, <2>1, <2>2 DEF StoreActive, StampsInOrder, Publishing,
         TypeOK, locals
    <3>3. CheckKnows'
      BY <1>13, <1>e, <1>h, <1>o, <2>2 DEF StoreActive, CheckKnows, StampsInOrder, TypeOK, locals
    <3>4. CheckedReadIsFresh'
      BY <1>13, <1>e, <1>h, <1>o, <2>2 DEF StoreActive, CheckedReadIsFresh, StampsInOrder,
         TypeOK, locals
    <3> QED BY <3>1, <3>2, <3>3, <3>4
  <2>3. CASE pc[Exec] # "publish"
    <3>1. lastActivityNs' <= acceptedAt' /\ acceptedAt' <= clock' /\ acceptedAt' >= acceptedAt
      BY <1>13, <1>o, <1>h DEF StoreActive, TypeOK
    <3> QED BY <1>13, <1>r, <1>e, <2>1, <2>3, <3>1 DEF StoreActive
  <2> QED BY <2>2, <2>3
<1>14. CASE UNCHANGED vars
  BY <1>14 DEF vars, shared, locals, MessageFirst, CopyIsLatest, StampsInOrder, Publishing,
     CheckKnows, CheckedReadIsFresh
<1> QED
  BY <1>1, <1>2, <1>3, <1>4, <1>5, <1>6, <1>7, <1>8, <1>9, <1>10, <1>11, <1>12,
     <1>13, <1>14
  DEF Next, Query, Reception, Destroyed

\* The invariant holds in every reachable state.
LEMMA InvHolds == Spec => []SinkInv
  BY InitInv, StepInv, PTL DEF Spec

(***************************************************************************)
(* A sink never shows ACTIVE or LOW_FREQ before its first message.         *)
(***************************************************************************)
THEOREM ActiveNeedsMessage == Spec => []NeverActiveWithoutMessage
<1>1. SinkInv => NeverActiveWithoutMessage
  BY DEF SinkInv, MessageFirst, NeverActiveWithoutMessage
<1> QED BY <1>1, InvHolds, PTL

(***************************************************************************)
(* A true read() returns the latest message, never msgT{}.                 *)
(***************************************************************************)
THEOREM ReadsLatest == Spec => []TrueReadReturnsLatest
<1>1. SinkInv => TrueReadReturnsLatest
  BY DEF SinkInv, MessageFirst, CopyIsLatest, TrueReadReturnsLatest, AboutToReturnTrue
<1> QED BY <1>1, InvHolds, PTL

(***************************************************************************)
(* A true read() has a reception at most half a timeout before the call.   *)
(***************************************************************************)
THEOREM ReadsFresh == Spec => []TrueReadIsFresh
<1>1. SinkInv => TrueReadIsFresh
  BY DEF SinkInv, CheckedReadIsFresh, TrueReadIsFresh, AboutToReturnTrue
<1> QED BY <1>1, InvHolds, PTL

-----------------------------------------------------------------------------
(* The removal of a sink while the application uses it only through the    *)
(* manager (getSinkState): no shared_ptr has been handed out.              *)

(***************************************************************************)
(* Why such a sink is safe: sinkMtx_ keeps queries and the removal apart,  *)
(* and only the executor runs callbacks.                                   *)
(***************************************************************************)
UnderSinkMtx(t) == op[t] \in {"getSinkState", "sweep"}

Confined ==
    /\ pc \in [Threads -> PCs] /\ op \in [Threads -> Ops]
    /\ held = {}
    /\ \A t \in Threads : t # Exec => op[t] \in {"none", "getSinkState"}
    /\ op[Exec] \notin {"read", "getState"}
    /\ \A t, u \in Threads : UnderSinkMtx(t) /\ UnderSinkMtx(u) => t = u
    /\ \A t \in Threads : pc[t] = "idle" <=> op[t] = "none"
    /\ pc[Exec] = "markDisconnected" => op[Exec] = "sweep"
    /\ \A t \in Threads : pc[t] # "idle" => inRegistry
    /\ state = "DISCONNECTED" => ~inRegistry

\* A thread outside every function.
LEMMA ReturnFrees ==
  ASSUME pc \in [Threads -> PCs], op \in [Threads -> Ops], NEW t \in Threads, Return(t)
  PROVE  /\ pc' \in [Threads -> PCs] /\ op' \in [Threads -> Ops]
         /\ pc'[t] = "idle" /\ op'[t] = "none"
         /\ \A u \in Threads : u # t => pc'[u] = pc[u] /\ op'[u] = op[u]
  BY DEF Return, PCs, Ops

\* A sink is confined to its manager until getSink() hands it out.
LifetimeInv == escaped \/ Confined

\* The initial state satisfies the invariant.
LEMMA LifetimeInit == Init => LifetimeInv
<1>1. Init => Confined
  BY DEF Init, Confined, UnderSinkMtx, Threads, PCs, Ops
<1> QED BY <1>1 DEF LifetimeInv

\* What has been handed out once has been handed out.
LEMMA EscapedStays == escaped /\ [Next]_vars => escaped'
  BY DEF Next, Tick, GetSink, DropSink, Query, Begin, LoadCur, SampleClock, LoadActivity,
     Loading, Judge, CopyLatest, LoadResult, SweepDecides, MarkDisconnected, Reception,
     StoreMessage, SampleStamp, StoreActivity, StoreActive, Destroyed, vars

\* Each step but getSink() keeps a sink confined.
LEMMA ConfinedStep == Confined /\ [Next]_vars => escaped' \/ Confined'
<1> SUFFICES ASSUME Confined, [Next]_vars
             PROVE  escaped' \/ Confined'
  OBVIOUS
<1>e. Exec \in Threads
  BY DEF Threads
<1>1. CASE Tick
  BY <1>1 DEF Tick, Confined, UnderSinkMtx, shared, locals
<1>2. ASSUME NEW t \in Threads, GetSink(t) \/ DropSink(t)
      PROVE  escaped' \/ Confined'
  BY <1>2 DEF GetSink, DropSink, Confined
<1>3. ASSUME NEW t \in Threads, NEW o \in Ops, Begin(t, o)
      PROVE  Confined'
  <2>1. /\ pc' \in [Threads -> PCs] /\ op' \in [Threads -> Ops]
        /\ pc'[t] = "check" /\ op'[t] = o
        /\ \A u \in Threads : u # t => pc'[u] = pc[u] /\ op'[u] = op[u]
        /\ inRegistry' = inRegistry /\ held' = held /\ state' = state /\ inRegistry
    BY <1>3 DEF Begin, Confined, PCs, Alive, shared
  <2>2. \/ o = "getSinkState" /\ SinkMtxFree
        \/ t = Exec /\ o = "keepAlive"
        \/ t = Exec /\ o = "sweep" /\ SinkMtxFree
    BY <1>3 DEF Begin, MayBegin, Confined
  <2> QED BY <1>e, <2>1, <2>2 DEF Confined, UnderSinkMtx, SinkMtxFree
<1>4. ASSUME NEW t \in Threads, LoadCur(t) \/ SampleClock(t) \/ LoadActivity(t)
      PROVE  Confined'
  BY <1>4 DEF LoadCur, SampleClock, LoadActivity, Loading, Confined, UnderSinkMtx, shared
<1>5. ASSUME NEW t \in Threads, Judge(t)
      PROVE  Confined'
  <2>0. state' # "DISCONNECTED" /\ inRegistry /\ inRegistry' = inRegistry /\ held' = held
    BY <1>5 DEF Judge, Confined
  <2>1. CASE op[t] = "keepAlive"
    BY <1>e, <1>5, <2>0, <2>1, ReturnFrees DEF Judge, AfterCheck, Confined, UnderSinkMtx
  <2>2. CASE op[t] # "keepAlive"
    BY <1>e, <1>5, <2>0, <2>2 DEF Judge, AfterCheck, Confined, UnderSinkMtx, locals, PCs
  <2> QED BY <2>1, <2>2
<1>6. ASSUME NEW t \in Threads, CopyLatest(t)
      PROVE  Confined'
  BY <1>e, <1>6 DEF CopyLatest, Confined, UnderSinkMtx, shared, PCs
<1>7. ASSUME NEW t \in Threads, LoadResult(t)
      PROVE  Confined'
  BY <1>e, <1>7, ReturnFrees DEF LoadResult, Confined, UnderSinkMtx, shared
<1>8. CASE SweepDecides
  <2>1. CASE Return(Exec)
    BY <1>e, <1>8, <2>1, ReturnFrees DEF SweepDecides, Confined, UnderSinkMtx, shared
  <2>2. CASE ~Return(Exec)
    BY <1>e, <1>8, <2>2 DEF SweepDecides, Confined, UnderSinkMtx, shared, locals, PCs
  <2> QED BY <2>1, <2>2
<1>9. CASE MarkDisconnected
  <2>1. \A t \in Threads : t # Exec => op[t] = "none"
    BY <1>e, <1>9 DEF MarkDisconnected, Confined, UnderSinkMtx
  <2> QED BY <1>e, <1>9, <2>1, ReturnFrees DEF MarkDisconnected, Confined, UnderSinkMtx
<1>10. ASSUME NEW m \in Msg, StoreMessage(m)
       PROVE  Confined'
  BY <1>e, <1>10 DEF StoreMessage, Alive, Confined, UnderSinkMtx, PCs, Ops
<1>11. CASE SampleStamp
  BY <1>e, <1>11 DEF SampleStamp, Confined, UnderSinkMtx, shared, PCs
<1>12. CASE StoreActivity
  <2>1. CASE Return(Exec)
    BY <1>e, <1>12, <2>1, ReturnFrees DEF StoreActivity, Confined, UnderSinkMtx
  <2>2. CASE ~Return(Exec)
    BY <1>e, <1>12, <2>2 DEF StoreActivity, Confined, UnderSinkMtx, locals, PCs
  <2> QED BY <2>1, <2>2
<1>13. CASE StoreActive
  <2>1. CASE Return(Exec)
    BY <1>e, <1>13, <2>1, ReturnFrees DEF StoreActive, Confined, UnderSinkMtx
  <2>2. CASE ~Return(Exec)
    BY <1>e, <1>13, <2>2 DEF StoreActive, Confined, UnderSinkMtx, locals, PCs
  <2> QED BY <2>1, <2>2
<1>14. CASE UNCHANGED vars
  BY <1>14 DEF vars, shared, locals, Confined, UnderSinkMtx
<1> QED
  BY <1>1, <1>2, <1>3, <1>4, <1>5, <1>6, <1>7, <1>8, <1>9, <1>10, <1>11, <1>12,
     <1>13, <1>14
  DEF Next, Query, Reception, Destroyed

\* The invariant holds in every reachable state.
LEMMA LifetimeHolds == Spec => []LifetimeInv
<1>1. LifetimeInv /\ [Next]_vars => LifetimeInv'
  BY EscapedStays, ConfinedStep DEF LifetimeInv
<1> QED BY <1>1, LifetimeInit, PTL DEF Spec

(***************************************************************************)
(* While nothing has been handed out, nothing runs inside a sink that has  *)
(* been destroyed.                                                         *)
(***************************************************************************)
THEOREM CallbacksOutlivedBySink == Spec => []NoUseAfterDestruction
<1>1. LifetimeInv => NoUseAfterDestruction
  BY DEF LifetimeInv, Confined, NoUseAfterDestruction, Alive
<1> QED BY <1>1, LifetimeHolds, PTL

-----------------------------------------------------------------------------
(* The end of a sink that somebody still holds *)

(***************************************************************************)
(* Why a marked sink is left alone: it is marked and taken out of sinks_   *)
(* in one critical section, by a visit that found it there, so it is       *)
(* marked once; a call that began after that and has loaded the state has  *)
(* seen DISCONNECTED, unless a message has come since.                     *)
(***************************************************************************)
MarkedInv ==
    /\ state = "DISCONNECTED" => ~inRegistry
    /\ op[Exec] = "sweep" \/ pc[Exec] = "markDisconnected" => inRegistry
    /\ Publishing \/ pc[Exec] = "stamp" => op[Exec] = "store"
    /\ \A t \in Threads : late[t] => ~inRegistry
    /\ \A t \in Threads :
          pc[t] = "check" /\ late[t] /\ "state" \notin toRead[t] /\ state = "DISCONNECTED"
             => cur[t] = "DISCONNECTED"

\* A thread that returns is in none of these phases.
LEMMA MarkedReturn ==
  ASSUME TypeOK, MarkedInv, NEW t \in Threads, Return(t), UNCHANGED inRegistry,
         state' = state \/ state' # "DISCONNECTED"
  PROVE  MarkedInv'
<1>1. Exec \in Threads
  BY DEF Threads
<1> QED BY <1>1 DEF TypeOK, MarkedInv, Return, Publishing

\* Every step keeps that.
LEMMA MarkedStep ==
  ASSUME TypeOK, MarkedInv, [Next]_vars
  PROVE  MarkedInv'
<1>e. Exec \in Threads
  BY DEF Threads
<1>1. CASE Tick
  BY <1>1 DEF Tick, MarkedInv, Publishing, shared, locals
<1>2. ASSUME NEW t \in Threads, GetSink(t) \/ DropSink(t)
      PROVE  MarkedInv'
  BY <1>2 DEF GetSink, DropSink, MarkedInv, Publishing, shared, locals
<1>3. ASSUME NEW t \in Threads, NEW o \in Ops, Begin(t, o)
      PROVE  MarkedInv'
  <2>1. o = "sweep" => inRegistry
    BY <1>3 DEF Begin, MayBegin
  <2>2. o # "store"
    BY <1>3, AppOpsAssumption DEF Begin, MayBegin
  <2> QED
    BY <1>e, <1>3, <2>1, <2>2 DEF Begin, TypeOK, MarkedInv, Publishing, Loads, shared
<1>4. ASSUME NEW t \in Threads, LoadCur(t) \/ SampleClock(t) \/ LoadActivity(t)
      PROVE  MarkedInv'
  BY <1>e, <1>4 DEF LoadCur, SampleClock, LoadActivity, Loading, TypeOK, MarkedInv, Publishing,
     shared
<1>5. ASSUME NEW t \in Threads, Judge(t)
      PROVE  MarkedInv'
  <2>0. inRegistry' = inRegistry /\ (state' = state \/ state' # "DISCONNECTED")
    BY <1>5 DEF Judge
  <2>1. CASE op[t] = "keepAlive"
    BY <1>5, <2>0, <2>1, MarkedReturn DEF Judge, AfterCheck
  <2>2. CASE op[t] # "keepAlive"
    BY <1>e, <1>5, <2>0, <2>2 DEF Judge, AfterCheck, TypeOK, MarkedInv, Publishing, locals
  <2> QED BY <2>1, <2>2
<1>6. ASSUME NEW t \in Threads, CopyLatest(t)
      PROVE  MarkedInv'
  BY <1>e, <1>6 DEF CopyLatest, TypeOK, MarkedInv, Publishing, shared
<1>7. ASSUME NEW t \in Threads, LoadResult(t)
      PROVE  MarkedInv'
  BY <1>7, MarkedReturn DEF LoadResult, shared
<1>8. CASE SweepDecides
  <2>1. CASE Return(Exec)
    BY <1>e, <1>8, <2>1, MarkedReturn DEF SweepDecides, shared
  <2>2. CASE ~Return(Exec)
    BY <1>e, <1>8, <2>2 DEF SweepDecides, TypeOK, MarkedInv, Publishing, shared, locals
  <2> QED BY <2>1, <2>2
<1>9. CASE MarkDisconnected
  <2>1. \A t \in Threads : ~late[t]
    BY <1>9 DEF MarkDisconnected, MarkedInv
  <2> QED BY <1>e, <1>9, <2>1 DEF MarkDisconnected, Return, TypeOK, MarkedInv, Publishing
<1>10. ASSUME NEW m \in Msg, StoreMessage(m)
       PROVE  MarkedInv'
  BY <1>e, <1>10 DEF StoreMessage, TypeOK, MarkedInv, Publishing
<1>11. CASE SampleStamp
  BY <1>e, <1>11 DEF SampleStamp, TypeOK, MarkedInv, Publishing, shared
<1>12. CASE StoreActivity
  <2>1. CASE pc[Exec] = "publish"
    BY <1>e, <1>12, <2>1 DEF StoreActivity, TypeOK, MarkedInv, Publishing, locals
  <2>2. CASE pc[Exec] # "publish"
    BY <1>e, <1>12, <2>2, MarkedReturn DEF StoreActivity
  <2> QED BY <2>1, <2>2
<1>13. CASE StoreActive
  <2>1. CASE pc[Exec] = "publish"
    BY <1>e, <1>13, <2>1 DEF StoreActive, TypeOK, MarkedInv, Publishing, locals
  <2>2. CASE pc[Exec] # "publish"
    BY <1>e, <1>13, <2>2, MarkedReturn DEF StoreActive
  <2> QED BY <2>1, <2>2
<1>14. CASE UNCHANGED vars
  BY <1>14 DEF vars, shared, locals, MarkedInv, Publishing
<1> QED
  BY <1>1, <1>2, <1>3, <1>4, <1>5, <1>6, <1>7, <1>8, <1>9, <1>10, <1>11, <1>12,
     <1>13, <1>14
  DEF Next, Query, Reception, Destroyed

\* Of all steps only a reception's store and a check's take a sink out of
\* DISCONNECTED, and the check of a late call does not.
LEMMA RevivingStep ==
  ASSUME TypeOK, MarkedInv, Next, state = "DISCONNECTED", state' # "DISCONNECTED"
  PROVE  \/ op[Exec] = "store" /\ state' = "ACTIVE"
         \/ \E t \in Threads : pc[t] = "check" /\ pc'[t] # "check" /\ ~late[t]
<1>1. ASSUME NEW t \in Threads, Judge(t)
      PROVE  pc[t] = "check" /\ pc'[t] # "check" /\ ~late[t]
  <2>1. pc[t] = "check" /\ toRead[t] = {}
    BY <1>1 DEF Judge
  <2>2. pc'[t] # "check"
    BY <1>1, <2>1 DEF Judge, AfterCheck, Return, TypeOK
  <2>3. cur[t] # "DISCONNECTED"
    BY <1>1 DEF Judge, Expired, Slow
  <2> QED BY <2>1, <2>2, <2>3 DEF MarkedInv
<1>2. CASE StoreActive
  BY <1>2 DEF StoreActive, MarkedInv, Publishing
<1>3. (\E t \in Threads : Judge(t)) \/ StoreActive
  BY DEF Next, Tick, GetSink, DropSink, Query, Begin, LoadCur, SampleClock, LoadActivity,
     Loading, CopyLatest, LoadResult, SweepDecides, MarkDisconnected, Reception, StoreMessage,
     SampleStamp, StoreActivity, Destroyed, shared, vars
<1> QED BY <1>1, <1>2, <1>3

(***************************************************************************)
(* A call that begins on a DISCONNECTED sink never takes it out of that    *)
(* state, however many threads hold and query it: only a message does, or  *)
(* a check that was under way when the sink was marked.                    *)
(***************************************************************************)
THEOREM MarkedIsLeftAlone == Spec => OnlyMessagesRevive
<1>1. Init => MarkedInv
  BY DEF Init, MarkedInv, Publishing, Threads
<1>2. TypeOK /\ MarkedInv /\ [Next]_vars => MarkedInv'
  BY MarkedStep
<1>3. TypeOK /\ MarkedInv /\ [Next]_vars
         => [state = "DISCONNECTED" /\ state' # "DISCONNECTED" =>
               \/ op[Exec] = "store" /\ state' = "ACTIVE"
               \/ \E t \in Threads : pc[t] = "check" /\ pc'[t] # "check" /\ ~late[t]]_vars
  BY RevivingStep
<1> QED BY <1>1, <1>2, <1>3, TypeCorrect, PTL DEF Spec, OnlyMessagesRevive

-----------------------------------------------------------------------------
(* The life cycle *)

\* Nobody but the executor uses the sink, and it only through the manager.
OnlyExec == AppThreads = {} /\ AppOps \subseteq {"getSinkState"}

\* The executor's loads are still true: nobody else stores.
SoleInv ==
    /\ held = {}
    /\ pc[Exec] # "idle" => inRegistry
    /\ state = "DISCONNECTED" => ~inRegistry
    /\ pc[Exec] = "check" =>
          /\ "state" \notin toRead[Exec] => cur[Exec] = state
          /\ "clock" \notin toRead[Exec] => nowNs[Exec] <= clock
          /\ "activity" \notin toRead[Exec] => lastNs[Exec] = lastActivityNs
    /\ pc[Exec] = "markDisconnected" => state = "TIMEOUT"
    /\ pc[Exec] = "publishActivity" => state = "ACTIVE"
    /\ pc[Exec] = "publishState" => lastActivityNs = nowNs[Exec]

\* Every step keeps that.
LEMMA SoleStep ==
  ASSUME OnlyExec, TypeOK, SoleInv, [Next]_vars
  PROVE  SoleInv'
<1>0. Threads = {Exec}
  BY DEF OnlyExec, Threads
<1> USE DEF SoleInv, TypeOK, shared, locals, Alive
<1>1. CASE Tick
  BY <1>0, <1>1, ClockAssumption DEF Tick
<1>2. CASE GetSink(Exec) \/ DropSink(Exec)
  BY <1>2 DEF GetSink, DropSink, OnlyExec
<1>3. ASSUME NEW o \in Ops, Begin(Exec, o)
      PROVE  SoleInv'
  BY <1>0, <1>3 DEF Begin, Loads
<1>4. CASE LoadCur(Exec)
  BY <1>0, <1>4 DEF LoadCur, Loading
<1>5. CASE SampleClock(Exec)
  BY <1>0, <1>5 DEF SampleClock, Loading
<1>6. CASE LoadActivity(Exec)
  BY <1>0, <1>6 DEF LoadActivity, Loading
<1>7. CASE Judge(Exec)
  <2>1. pc'[Exec] \in {"idle", "lockMsg", "loadState"} /\ state' # "DISCONNECTED"
    BY <1>0, <1>7 DEF Judge, AfterCheck, Return
  <2> QED BY <1>7, <2>1 DEF Judge
<1>8. CASE CopyLatest(Exec)
  BY <1>0, <1>8 DEF CopyLatest
<1>9. CASE LoadResult(Exec)
  BY <1>0, <1>9 DEF LoadResult, Return
<1>10. CASE SweepDecides
  <2>1. \/ pc'[Exec] = "idle"
        \/ pc'[Exec] = "markDisconnected" /\ state = "TIMEOUT" /\ inRegistry
    BY <1>0, <1>10 DEF SweepDecides, Return
  <2> QED BY <1>10, <2>1 DEF SweepDecides
<1>11. CASE MarkDisconnected
  BY <1>0, <1>11 DEF MarkDisconnected, Return
<1>12. ASSUME NEW m \in Msg, StoreMessage(m)
       PROVE  SoleInv'
  BY <1>0, <1>12 DEF StoreMessage
<1>13. CASE SampleStamp
  BY <1>0, <1>13 DEF SampleStamp
<1>14. CASE StoreActivity
  BY <1>0, <1>14 DEF StoreActivity, Return
<1>15. CASE StoreActive
  BY <1>0, <1>15 DEF StoreActive, Return
<1>16. CASE UNCHANGED vars
  BY <1>16 DEF vars
<1> QED
  BY <1>0, <1>1, <1>2, <1>3, <1>4, <1>5, <1>6, <1>7, <1>8, <1>9, <1>10, <1>11, <1>12, <1>13, <1>14,
     <1>15, <1>16 DEF Next, Query, Reception, Destroyed

\* Every step is one of the life cycle, or none.
LEMMA LifecycleStep ==
  ASSUME OnlyExec, TypeOK, SoleInv, [Next]_vars
  PROVE  [Lifecycle!Next]_(Lifecycle!vars)
<1>0. Threads = {Exec}
  BY DEF OnlyExec, Threads
<1> USE DEF shared, locals
<1>1. CASE Tick
  BY <1>1, ClockAssumption DEF Tick, TypeOK, Publishing, Lifecycle!Next, Lifecycle!Advance
<1>2. CASE Judge(Exec)
  <2>1. /\ cur[Exec] = state /\ nowNs[Exec] <= clock /\ lastNs[Exec] = lastActivityNs
        /\ ~Publishing
    BY <1>2 DEF Judge, SoleInv, Publishing
  <2>2. pc'[Exec] \in {"idle", "lockMsg", "loadState"} /\ ~Publishing'
    BY <1>0, <1>2 DEF Judge, AfterCheck, Return, TypeOK, Publishing
  <2>3. CASE Expired(cur[Exec], nowNs[Exec] - lastNs[Exec]) /\ state' = "TIMEOUT"
    <3>1. clock - lastActivityNs > TimeoutNs
      BY <2>1, <2>3, TimeoutAssumption, ClockAssumption, <1>0 DEF Expired, TypeOK
    <3>2. Lifecycle!Expire
      BY <1>2, <2>1, <2>2, <2>3, <3>1 DEF Judge, Expired, Lifecycle!Expire, Lifecycle!Age
    <3> QED BY <3>2 DEF Lifecycle!Next
  <2>4. CASE Slow(cur[Exec], nowNs[Exec] - lastNs[Exec]) /\ state' = "LOW_FREQ"
    <3>1. clock - lastActivityNs > TimeoutNs \div 2
      BY <2>1, <2>4, TimeoutAssumption, ClockAssumption, <1>0 DEF Slow, HalfTimeout, TypeOK
    <3>2. CASE state = "ACTIVE"
      <4>1. Lifecycle!Weaken
        BY <1>2, <2>1, <2>2, <2>4, <3>1, <3>2 DEF Judge, Slow, Lifecycle!Weaken, Lifecycle!Age
      <4> QED BY <4>1 DEF Lifecycle!Next
    <3>3. CASE state = "LOW_FREQ"
      BY <1>2, <2>1, <2>2, <2>4, <3>3 DEF Judge, Lifecycle!vars
    <3> QED BY <2>1, <2>4, <3>2, <3>3 DEF Slow
  <2>5. CASE state' = state
    BY <1>2, <2>1, <2>2, <2>5 DEF Judge, Lifecycle!vars
  <2> QED BY <1>2, <2>3, <2>4, <2>5 DEF Judge
<1>3. CASE MarkDisconnected
  <2>1. state = "TIMEOUT" /\ ~Publishing /\ ~Publishing'
    BY <1>0, <1>3 DEF MarkDisconnected, SoleInv, Return, TypeOK, Publishing
  <2>2. Lifecycle!Disconnect
    BY <1>3, <2>1 DEF MarkDisconnected, Lifecycle!Disconnect
  <2> QED BY <2>2 DEF Lifecycle!Next
<1>4. CASE SampleStamp
  <2>1. ~Publishing /\ Publishing' /\ nowNs'[Exec] = clock
    BY <1>0, <1>4 DEF SampleStamp, TypeOK, Publishing
  <2>2. state # "DISCONNECTED"
    BY <1>4 DEF SampleStamp, SoleInv
  <2>3. Lifecycle!Hear
    BY <1>4, <2>1, <2>2 DEF SampleStamp, Lifecycle!Hear
  <2> QED BY <2>3 DEF Lifecycle!Next
<1>5. CASE StoreActivity
  <2>1. CASE pc[Exec] = "publish"
    <3>1. Publishing /\ Publishing' /\ nowNs'[Exec] = nowNs[Exec]
      BY <1>0, <1>5, <2>1 DEF StoreActivity, TypeOK, Publishing
    <3> QED BY <1>5, <3>1 DEF StoreActivity, Lifecycle!vars
  <2>2. CASE pc[Exec] = "publishActivity"
    <3>1. Publishing /\ ~Publishing' /\ lastActivityNs' = nowNs[Exec] /\ state' = "ACTIVE"
      BY <1>0, <1>5, <2>2 DEF StoreActivity, Return, TypeOK, Publishing, SoleInv
    <3> QED BY <1>5, <3>1 DEF StoreActivity, Lifecycle!vars
  <2> QED BY <1>5, <2>1, <2>2 DEF StoreActivity
<1>6. CASE StoreActive
  <2>1. CASE pc[Exec] = "publish"
    <3>1. Publishing /\ Publishing' /\ nowNs'[Exec] = nowNs[Exec]
      BY <1>0, <1>6, <2>1 DEF StoreActive, TypeOK, Publishing
    <3> QED BY <1>6, <3>1 DEF StoreActive, Lifecycle!vars
  <2>2. CASE pc[Exec] = "publishState"
    <3>1. Publishing /\ ~Publishing' /\ lastActivityNs' = nowNs[Exec] /\ state' = "ACTIVE"
      BY <1>0, <1>6, <2>2 DEF StoreActive, Return, TypeOK, Publishing, SoleInv
    <3> QED BY <1>6, <3>1 DEF StoreActive, Lifecycle!vars
  <2> QED BY <1>6, <2>1, <2>2 DEF StoreActive
<1>7. ASSUME UNCHANGED <<clock, state, lastActivityNs>>, ~Publishing, ~Publishing'
      PROVE  UNCHANGED Lifecycle!vars
  BY <1>7 DEF Lifecycle!vars
<1>8. ASSUME NEW o \in Ops, Begin(Exec, o)
      PROVE  UNCHANGED <<clock, state, lastActivityNs>> /\ ~Publishing /\ ~Publishing'
  BY <1>0, <1>8 DEF Begin, TypeOK, Publishing
<1>9. CASE LoadCur(Exec) \/ SampleClock(Exec) \/ LoadActivity(Exec)
  <2>1. UNCHANGED <<clock, state, lastActivityNs>> /\ ~Publishing /\ ~Publishing'
    BY <1>9 DEF LoadCur, SampleClock, LoadActivity, Loading, Publishing
  <2> QED BY <1>7, <2>1
<1>10. CASE CopyLatest(Exec) \/ LoadResult(Exec) \/ SweepDecides
  <2>1. UNCHANGED <<clock, state, lastActivityNs>> /\ ~Publishing /\ ~Publishing'
    BY <1>0, <1>10 DEF CopyLatest, LoadResult, SweepDecides, Return, TypeOK, Publishing
  <2> QED BY <1>7, <2>1
<1>11. ASSUME NEW m \in Msg, StoreMessage(m)
       PROVE  UNCHANGED <<clock, state, lastActivityNs>> /\ ~Publishing /\ ~Publishing'
  BY <1>0, <1>11 DEF StoreMessage, TypeOK, Publishing
<1>12. CASE GetSink(Exec) \/ DropSink(Exec) \/ UNCHANGED vars
  BY <1>12 DEF GetSink, DropSink, vars, Publishing, Lifecycle!vars
<1> QED
  BY <1>0, <1>1, <1>2, <1>3, <1>4, <1>5, <1>6, <1>7, <1>8, <1>9, <1>10, <1>11, <1>12
  DEF Next, Query, Reception, Destroyed

(***************************************************************************)
(* A sink that only the executor uses, through the manager, goes through   *)
(* the documented life cycle, with any timeout and for any length of time. *)
(***************************************************************************)
THEOREM LifecycleKept ==
  ASSUME OnlyExec
  PROVE  Spec => LifecycleSpec
<1>1. Init => SoleInv /\ Lifecycle!Init
  BY ClockAssumption DEF Init, SoleInv, Threads, Lifecycle!Init, Publishing
<1>2. TypeOK /\ SoleInv /\ [Next]_vars => SoleInv'
  BY OnlyExec, SoleStep
<1>3. TypeOK /\ SoleInv /\ [Next]_vars => [Lifecycle!Next]_(Lifecycle!vars)
  BY OnlyExec, LifecycleStep
<1> QED BY <1>1, <1>2, <1>3, TypeCorrect, PTL DEF Spec, LifecycleSpec, Lifecycle!Spec
=============================================================================
