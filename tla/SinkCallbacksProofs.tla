-------------------------- MODULE SinkCallbacksProofs --------------------------
(***************************************************************************)
(* Proofs about SinkCallbacks, for any threads, channels, message types    *)
(* and callbacks, and any number of calls and registrations.               *)
(***************************************************************************)
EXTENDS SinkCallbacks, TLAPS

(***************************************************************************)
(* The inductive invariant.                                                *)
(***************************************************************************)

\* The thread in a loop over the sinks is the one that holds sinkMtx_; it has
\* sinks of its type to visit, and only it has any.
LockInv ==
    \A t \in Threads :
        /\ pc[t] \in {"visit", "install"} <=> sinkMtx = t
        /\ \A ch \in todo[t] : sinkMtx = t /\ ch \in sinks /\ TypeOf[ch] = tid[t]
        /\ pc[t] = "install" => at[t] \in todo[t] /\ applicator[t] \in CbsFor[tid[t]]

\* Somebody has set a callback of this type and not yet locked the sinks.
Coming(ty) == \E t \in Threads : pc[t] = "lockSinks" /\ tid[t] = ty

\* Somebody will install the callback that is set now on this sink.
Underway(ch) ==
    \E t \in Threads :
        /\ ch \in todo[t]
        /\ pc[t] = "install" /\ at[t] = ch => applicator[t] = typedCbs[TypeOf[ch]]

\* A sink has the callback of its type, or will get it.
Cared(ch) ==
    \/ typedCbs[TypeOf[ch]] = None
    \/ msgCb[ch] = typedCbs[TypeOf[ch]]
    \/ Coming(TypeOf[ch])
    \/ Underway(ch)

SinksCared == \A ch \in sinks : Cared(ch)

\* Who installs an outdated callback is followed by somebody with a newer one.
OutdatedFollowed ==
    \A t \in Threads :
        pc[t] = "install" /\ applicator[t] # typedCbs[tid[t]] /\ typedCbs[tid[t]] # None
           => Coming(tid[t])

CallbackInv == TypeOK /\ LockInv /\ SinksCared /\ OutdatedFollowed

-----------------------------------------------------------------------------
(* Types and the mutex *)

LEMMA CallbacksInit == Init => CallbackInv
<1> SUFFICES ASSUME Init PROVE CallbackInv
  OBVIOUS
<1>1. TypeOK
  BY BoundsAssumption, TypesAssumption DEF Init, TypeOK
<1>2. LockInv
  BY NoneAssumption DEF Init, LockInv
<1>3. SinksCared /\ OutdatedFollowed
  BY DEF Init, SinksCared, OutdatedFollowed
<1>4. QED
  BY <1>1, <1>2, <1>3 DEF CallbackInv

\* The callbacks of a type are callbacks.
LEMMA CbsAreCbs ==
  ASSUME NEW ty \in Type
  PROVE  CbsFor[ty] \subseteq Cb
  BY DEF Cb

LEMMA TypeStep ==
  ASSUME TypeOK, LockInv, [Next]_vars
  PROVE  TypeOK'
<1>1. ASSUME NEW t \in Threads, NEW ty \in Type, NEW c \in CbsFor[ty] \cup {None},
             BeginSet(t, ty, c)
      PROVE  TypeOK'
  BY <1>1, CbsAreCbs, BoundsAssumption DEF TypeOK, BeginSet, inCb
<1>2. ASSUME NEW t \in Threads, LockSinks(t)
      PROVE  TypeOK'
  BY <1>2 DEF TypeOK, LockSinks, ToVisit, inCb, counts
<1>3. ASSUME NEW t \in Threads, NEW ch \in Channel, CopyApplicator(t, ch)
      PROVE  TypeOK'
  BY <1>3 DEF TypeOK, CopyApplicator, inCb, counts
<1>4. ASSUME NEW t \in Threads, Install(t)
      PROVE  TypeOK'
  <2>1. at[t] \in Channel /\ applicator[t] \in CbsFor[TypeOf[at[t]]] /\ applicator[t] \in Cb
    BY <1>4, CbsAreCbs DEF TypeOK, LockInv, Install
  <2>2. /\ msgCb' \in [Channel -> Cb \cup {None}]
        /\ \A ch \in Channel : msgCb'[ch] \in CbsFor[TypeOf[ch]] \cup {None}
    BY <1>4, <2>1 DEF TypeOK, Install
  <2>3. QED
    BY <1>4, <2>2 DEF TypeOK, Install, inCb, counts
<1>5. ASSUME NEW t \in Threads, UnlockSinks(t)
      PROVE  TypeOK'
  BY <1>5 DEF TypeOK, UnlockSinks, inCb, counts
<1>6. ASSUME NEW ch \in Channel, OnReg(ch) \/ RemoveSink(ch) \/ Receive(ch)
      PROVE  TypeOK'
  <2>1. Exec \in Threads /\ TypeOf[ch] \in Type
    BY TypesAssumption DEF Threads
  <2>2. CASE OnReg(ch)
    BY <2>1, <2>2, BoundsAssumption DEF TypeOK, OnReg, ExecIdle, inCb
  <2>3. CASE RemoveSink(ch)
    BY <2>3 DEF TypeOK, RemoveSink, inCb, counts, locals
  <2>4. CASE Receive(ch)
    BY <2>4 DEF TypeOK, Receive, locals, counts
  <2>5. QED
    BY <1>6, <2>2, <2>3, <2>4
<1>7. CASE CallbackReturns
  BY <1>7 DEF TypeOK, CallbackReturns, locals, counts
<1>8. CASE NoMoreSets \/ UNCHANGED vars
  BY <1>8 DEF TypeOK, NoMoreSets, vars, locals, inCb, counts
<1>9. QED
  BY <1>1, <1>2, <1>3, <1>4, <1>5, <1>6, <1>7, <1>8 DEF Next, SetSteps

LEMMA LockStep ==
  ASSUME TypeOK, LockInv, [Next]_vars
  PROVE  LockInv'
<1>1. ASSUME NEW t \in Threads, NEW ty \in Type, NEW c \in CbsFor[ty] \cup {None},
             BeginSet(t, ty, c)
      PROVE  LockInv'
  BY <1>1 DEF TypeOK, LockInv, BeginSet
<1>2. ASSUME NEW t \in Threads, LockSinks(t)
      PROVE  LockInv'
  BY <1>2, NoneAssumption DEF TypeOK, LockInv, LockSinks, ToVisit
<1>3. ASSUME NEW t \in Threads, NEW ch \in Channel, CopyApplicator(t, ch)
      PROVE  LockInv'
  <2>1. typedCbs[tid[t]] \in CbsFor[tid[t]] \cup {None}
    BY DEF TypeOK
  <2>2. QED
    BY <1>3, <2>1 DEF TypeOK, LockInv, CopyApplicator
<1>4. ASSUME NEW t \in Threads, Install(t)
      PROVE  LockInv'
  BY <1>4 DEF TypeOK, LockInv, Install
<1>5. ASSUME NEW t \in Threads, UnlockSinks(t)
      PROVE  LockInv'
  BY <1>5, NoneAssumption DEF TypeOK, LockInv, UnlockSinks
<1>6. ASSUME NEW ch \in Channel, OnReg(ch) \/ RemoveSink(ch) \/ Receive(ch)
      PROVE  LockInv'
  <2>1. Exec \in Threads
    BY DEF Threads
  <2>2. CASE OnReg(ch)
    BY <2>1, <2>2, NoneAssumption DEF TypeOK, LockInv, OnReg, ExecIdle
  <2>3. CASE RemoveSink(ch)
    BY <2>3, NoneAssumption DEF TypeOK, LockInv, RemoveSink, locals
  <2>4. CASE Receive(ch)
    BY <2>4 DEF LockInv, Receive, locals
  <2>5. QED
    BY <1>6, <2>2, <2>3, <2>4
<1>7. CASE CallbackReturns
  BY <1>7 DEF LockInv, CallbackReturns, locals
<1>8. CASE NoMoreSets \/ UNCHANGED vars
  BY <1>8 DEF LockInv, NoMoreSets, vars, locals
<1>9. QED
  BY <1>1, <1>2, <1>3, <1>4, <1>5, <1>6, <1>7, <1>8 DEF Next, SetSteps

\* The types are invariant: no sink ever gets a callback for another type.
THEOREM TypeCorrect == Spec => []TypeOK
<1>1. Init => TypeOK /\ LockInv
  BY CallbacksInit DEF CallbackInv
<1>2. TypeOK /\ LockInv /\ [Next]_vars => TypeOK' /\ LockInv'
  BY TypeStep, LockStep
<1>3. QED
  BY <1>1, <1>2, PTL DEF Spec

-----------------------------------------------------------------------------
(* Every sink has the callback of its type, or will get it *)

LEMMA CaredStep ==
  ASSUME CallbackInv, [Next]_vars
  PROVE  SinksCared' /\ OutdatedFollowed'
<1> USE DEF CallbackInv
<1>1. ASSUME NEW t \in Threads, NEW ty \in Type, NEW c \in CbsFor[ty] \cup {None},
             BeginSet(t, ty, c)
      PROVE  SinksCared' /\ OutdatedFollowed'
  <2>1. Coming(ty)'
    BY <1>1 DEF BeginSet, TypeOK, Coming
  <2>2. \A sy \in Type : Coming(sy) => Coming(sy)'
    BY <1>1 DEF BeginSet, TypeOK, Coming
  <2>3. ASSUME NEW ch \in sinks', TypeOf[ch] # ty
        PROVE  Cared(ch)'
    <3>1. Underway(ch) => Underway(ch)'
      BY <1>1, <2>3 DEF BeginSet, TypeOK, LockInv, Underway
    <3>2. ch \in sinks /\ TypeOf[ch] \in Type /\ typedCbs'[TypeOf[ch]] = typedCbs[TypeOf[ch]]
      BY <1>1, <2>3, TypesAssumption DEF BeginSet, TypeOK
    <3>3. QED
      BY <1>1, <2>2, <3>1, <3>2 DEF SinksCared, Cared, BeginSet
  <2>4. SinksCared'
    BY <2>1, <2>3 DEF SinksCared, Cared
  <2>5. OutdatedFollowed'
    BY <1>1, <2>1, <2>2 DEF OutdatedFollowed, BeginSet, TypeOK
  <2>6. QED
    BY <2>4, <2>5
<1>2. ASSUME NEW t \in Threads, LockSinks(t)
      PROVE  SinksCared' /\ OutdatedFollowed'
  <2>1. \A u \in Threads : pc[u] # "install" /\ todo[u] = {}
    BY <1>2, NoneAssumption DEF LockSinks, LockInv, TypeOK
  <2>2. ASSUME NEW ch \in sinks
        PROVE  Cared(ch)'
    <3>1. CASE Coming(TypeOf[ch]) /\ tid[t] = TypeOf[ch]
      <4>1. ch \in todo'[t] /\ pc'[t] = "visit"
        BY <1>2, <3>1 DEF LockSinks, ToVisit, TypeOK
      <4>2. QED
        BY <4>1 DEF Cared, Underway
    <3>2. CASE Coming(TypeOf[ch]) /\ tid[t] # TypeOf[ch]
      BY <1>2, <3>2 DEF LockSinks, TypeOK, Cared, Coming
    <3>3. CASE ~Coming(TypeOf[ch])
      BY <1>2, <2>1, <3>3 DEF LockSinks, SinksCared, Cared, Underway
    <3>4. QED
      BY <3>1, <3>2, <3>3
  <2>3. QED
    BY <1>2, <2>1, <2>2 DEF SinksCared, OutdatedFollowed, LockSinks, TypeOK
<1>3. ASSUME NEW t \in Threads, NEW h \in Channel, CopyApplicator(t, h)
      PROVE  SinksCared' /\ OutdatedFollowed'
  <2>1. /\ sinks' = sinks /\ typedCbs' = typedCbs /\ msgCb' = msgCb /\ tid' = tid
        /\ h \in todo[t] /\ pc[t] = "visit" /\ TypeOf[h] = tid[t]
    BY <1>3 DEF CopyApplicator, LockInv
  <2>2. \A sy \in Type : Coming(sy) => Coming(sy)'
    BY <1>3 DEF CopyApplicator, TypeOK, Coming
  <2>3. ASSUME NEW ch \in sinks, Underway(ch)
        PROVE  Underway(ch)' \/ typedCbs[TypeOf[ch]] = None
    <3>1. PICK u \in Threads :
            /\ ch \in todo[u]
            /\ pc[u] = "install" /\ at[u] = ch => applicator[u] = typedCbs[TypeOf[ch]]
      BY <2>3 DEF Underway
    <3>2. u = t
      BY <2>1, <3>1 DEF LockInv
    <3>3. QED
      BY <1>3, <2>1, <3>1, <3>2 DEF CopyApplicator, Underway, TypeOK
  <2>4. SinksCared'
    BY <2>1, <2>2, <2>3, TypesAssumption DEF SinksCared, Cared, TypeOK
  <2>5. OutdatedFollowed'
    BY <1>3, <2>1, <2>2 DEF CopyApplicator, OutdatedFollowed, TypeOK
  <2>6. QED
    BY <2>4, <2>5
<1>4. ASSUME NEW t \in Threads, Install(t)
      PROVE  SinksCared' /\ OutdatedFollowed'
  <2>1. /\ sinks' = sinks /\ typedCbs' = typedCbs /\ tid' = tid
        /\ pc[t] = "install" /\ at[t] \in todo[t] /\ TypeOf[at[t]] = tid[t]
        /\ at[t] \in Channel
    BY <1>4 DEF Install, LockInv, TypeOK
  <2>2. \A sy \in Type : Coming(sy) => Coming(sy)'
    BY <1>4 DEF Install, TypeOK, Coming
  <2>0. PICK h \in Channel : h = at[t]
    BY <2>1
  <2>3. Cared(h)'
    <3>1. msgCb'[h] = applicator[t] /\ TypeOf[h] = tid[t]
      BY <1>4, <2>1, <2>0 DEF Install, TypeOK
    <3>2. CASE applicator[t] = typedCbs[tid[t]] \/ typedCbs[tid[t]] = None
      BY <2>1, <3>1, <3>2 DEF Cared
    <3>3. CASE applicator[t] # typedCbs[tid[t]] /\ typedCbs[tid[t]] # None
      BY <2>1, <2>2, <3>1, <3>3 DEF Cared, OutdatedFollowed, TypeOK
    <3>4. QED
      BY <3>2, <3>3
  <2>4. ASSUME NEW ch \in sinks, ch # h
        PROVE  Cared(ch)'
    <3>1. ch \in Channel /\ TypeOf[ch] \in Type /\ msgCb'[ch] = msgCb[ch]
      BY <1>4, <2>0, <2>4, TypesAssumption DEF Install, TypeOK
    <3>2. Underway(ch) => Underway(ch)'
      BY <1>4, <2>1, <2>0, <2>4 DEF Install, TypeOK, LockInv, Underway
    <3>3. QED
      BY <2>1, <2>2, <3>1, <3>2 DEF SinksCared, Cared
  <2>5. SinksCared'
    BY <2>1, <2>3, <2>4 DEF SinksCared
  <2>6. OutdatedFollowed'
    BY <1>4, <2>1, <2>2 DEF Install, OutdatedFollowed, TypeOK
  <2>7. QED
    BY <2>5, <2>6
<1>5. ASSUME NEW t \in Threads, UnlockSinks(t)
      PROVE  SinksCared' /\ OutdatedFollowed'
  <2>1. /\ UNCHANGED <<sinks, typedCbs, msgCb, tid, todo, at, applicator>>
        /\ todo[t] = {} /\ pc[t] = "visit"
        /\ \A u \in Threads : u # t => pc'[u] = pc[u]
        /\ pc'[t] = "idle"
    BY <1>5 DEF UnlockSinks, TypeOK
  <2>2. \A sy \in Type : Coming(sy) => Coming(sy)'
    BY <2>1 DEF Coming
  <2>3. \A ch \in sinks : Underway(ch) => Underway(ch)'
    BY <2>1 DEF Underway
  <2>4. QED
    BY <2>1, <2>2, <2>3, TypesAssumption DEF SinksCared, Cared, OutdatedFollowed, TypeOK
<1>6. ASSUME NEW h \in Channel, OnReg(h)
      PROVE  SinksCared' /\ OutdatedFollowed'
  <2>1. /\ typedCbs' = typedCbs /\ sinks' = sinks \cup {h}
        /\ \A ch \in Channel : ch # h => msgCb'[ch] = msgCb[ch]
        /\ \A u \in Threads : u # Exec => pc'[u] = pc[u] /\ tid'[u] = tid[u]
        /\ pc[Exec] = "idle" /\ pc'[Exec] = "visit" /\ todo'[Exec] = {h}
        /\ \A u \in Threads : pc[u] # "install" /\ todo[u] = {}
        /\ Exec \in Threads
    BY <1>6, NoneAssumption DEF OnReg, ExecIdle, TypeOK, LockInv, Threads
  <2>2. \A sy \in Type : Coming(sy) => Coming(sy)'
    BY <2>1 DEF Coming
  <2>3. Underway(h)'
    BY <2>1 DEF Underway
  <2>4. ASSUME NEW ch \in sinks, ch # h
        PROVE  Cared(ch)'
    BY <2>1, <2>2, <2>4, TypesAssumption DEF SinksCared, Cared, Underway, TypeOK
  <2>5. QED
    BY <2>1, <2>3, <2>4 DEF SinksCared, Cared, OutdatedFollowed
<1>7. ASSUME NEW h \in Channel, RemoveSink(h)
      PROVE  SinksCared' /\ OutdatedFollowed'
  BY <1>7, NoneAssumption
  DEF SinksCared, Cared, Coming, Underway, OutdatedFollowed, RemoveSink, locals, LockInv, TypeOK
<1>8. ASSUME NEW h \in Channel, Receive(h)
      PROVE  SinksCared' /\ OutdatedFollowed'
  BY <1>8 DEF SinksCared, Cared, Coming, Underway, OutdatedFollowed, Receive, locals
<1>9. CASE CallbackReturns \/ NoMoreSets \/ UNCHANGED vars
  BY <1>9 DEF SinksCared, Cared, Coming, Underway, OutdatedFollowed, CallbackReturns,
              NoMoreSets, vars, locals
<1>10. QED
  BY <1>1, <1>2, <1>3, <1>4, <1>5, <1>6, <1>7, <1>8, <1>9 DEF Next, SetSteps

\* When nobody is setting or applying callbacks, no sink has been left behind.
THEOREM NoSinkLeftBehind == Spec => []SinksUpToDate
<1>1. CallbackInv /\ [Next]_vars => CallbackInv'
  BY TypeStep, LockStep, CaredStep DEF CallbackInv
<1>2. CallbackInv => SinksUpToDate
  <2> SUFFICES ASSUME CallbackInv, Quiescent, NEW ch \in sinks
               PROVE  typedCbs[TypeOf[ch]] # None => msgCb[ch] = typedCbs[TypeOf[ch]]
    BY DEF SinksUpToDate
  <2>1. \A t \in Threads : todo[t] = {}
    BY DEF CallbackInv, LockInv, Quiescent
  <2>2. QED
    BY <2>1 DEF CallbackInv, SinksCared, Cared, Coming, Underway, Quiescent
<1>3. QED
  BY CallbacksInit, <1>1, <1>2, PTL DEF Spec

-----------------------------------------------------------------------------
(* The mutexes *)

\* The guards of SetSteps(t): what t needs to go on.
CanGoOn(t) ==
    \/ pc[t] = "lockSinks" /\ sinkMtx = None
    \/ pc[t] = "visit" /\ (todo[t] = {} \/ \E ch \in Channel : ch \in todo[t])
    \/ pc[t] = "install" /\ MsgCbFree(at[t])

\* A thread that cannot go on waits for one that can, also when that one is the
\* application and this one a callback of the sink it is about.
NobodyWaitsInACircle ==
    \A t \in Threads :
        pc[t] # "idle" /\ ~CanGoOn(t) => \E u \in Threads : sinkMtx = u /\ CanGoOn(u)

\* Whoever has sinkMtx_ comes to the end of its loop: with each step it has a sink
\* less to visit or has copied the applicator for the next, and nobody adds any.
LoopsEnd ==
    \A t \in Threads :
        sinkMtx = t /\ sinkMtx' = t /\ <<pc[t], todo[t]>>' # <<pc[t], todo[t]>> =>
            \/ todo'[t] \subseteq todo[t] /\ todo'[t] # todo[t]
            \/ todo'[t] = todo[t] /\ pc[t] = "visit" /\ pc'[t] = "install"

(***************************************************************************)
(* "Never taken crosswise": only sinkMtx_ is held for more than a step;    *)
(* whoever holds it waits for nobody, and holds it for two steps a sink at *)
(* most.  For any number of threads, and for calls from within a callback. *)
(***************************************************************************)
THEOREM NoDeadlock == Spec => [](NobodyWaitsInACircle) /\ [][LoopsEnd]_vars
<1>1. Init => TypeOK /\ LockInv
  BY CallbacksInit DEF CallbackInv
<1>2. TypeOK /\ LockInv /\ [Next]_vars => TypeOK' /\ LockInv'
  BY TypeStep, LockStep
<1>3. TypeOK /\ LockInv => NobodyWaitsInACircle
  <2> SUFFICES ASSUME TypeOK, LockInv, NEW t \in Threads, pc[t] # "idle", ~CanGoOn(t)
               PROVE  \E u \in Threads : sinkMtx = u /\ CanGoOn(u)
    BY DEF NobodyWaitsInACircle
  <2>1. ASSUME NEW u \in Threads, pc[u] \in {"visit", "install"}
        PROVE  CanGoOn(u)
    BY <2>1 DEF TypeOK, LockInv, CanGoOn, MsgCbFree
  <2>2. pc[t] = "lockSinks" /\ sinkMtx # None
    BY <2>1 DEF TypeOK, CanGoOn
  <2>3. PICK u \in Threads : sinkMtx = u
    BY <2>2 DEF TypeOK
  <2> QED BY <2>1, <2>3 DEF LockInv
<1>4. TypeOK /\ LockInv /\ [Next]_vars => [LoopsEnd]_vars
  <2> SUFFICES ASSUME TypeOK, LockInv, Next, NEW t \in Threads, sinkMtx = t, sinkMtx' = t,
                      <<pc[t], todo[t]>>' # <<pc[t], todo[t]>>
               PROVE  \/ todo'[t] \subseteq todo[t] /\ todo'[t] # todo[t]
                      \/ todo'[t] = todo[t] /\ pc[t] = "visit" /\ pc'[t] = "install"
    BY DEF LoopsEnd
  <2>0. t # None /\ pc[t] \in {"visit", "install"}
    BY NoneAssumption DEF LockInv
  <2>1. ASSUME NEW u \in Threads, NEW ty \in Type, NEW c \in CbsFor[ty] \cup {None},
               BeginSet(u, ty, c)
        PROVE  FALSE
    BY <2>0, <2>1 DEF TypeOK, BeginSet
  <2>2. ASSUME NEW u \in Threads, LockSinks(u) \/ UnlockSinks(u)
        PROVE  FALSE
    BY <2>0, <2>2 DEF LockSinks, UnlockSinks
  <2>3. ASSUME NEW u \in Threads, NEW ch \in Channel, CopyApplicator(u, ch)
        PROVE  \/ todo'[t] \subseteq todo[t] /\ todo'[t] # todo[t]
               \/ todo'[t] = todo[t] /\ pc[t] = "visit" /\ pc'[t] = "install"
    BY <2>3 DEF TypeOK, LockInv, CopyApplicator
  <2>4. ASSUME NEW u \in Threads, Install(u)
        PROVE  todo'[t] \subseteq todo[t] /\ todo'[t] # todo[t]
    BY <2>4 DEF TypeOK, LockInv, Install
  <2>5. ASSUME NEW ch \in Channel, OnReg(ch) \/ RemoveSink(ch) \/ Receive(ch)
        PROVE  FALSE
    BY <2>0, <2>5 DEF OnReg, RemoveSink, Receive, locals
  <2>6. CASE CallbackReturns \/ NoMoreSets
    BY <2>6 DEF CallbackReturns, NoMoreSets, locals, vars
  <2> QED BY <2>1, <2>2, <2>3, <2>4, <2>5, <2>6 DEF Next, SetSteps
<1>5. QED
  BY <1>1, <1>2, <1>3, <1>4, PTL DEF Spec
================================================================================
