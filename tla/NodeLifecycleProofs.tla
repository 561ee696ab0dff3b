-------------------------- MODULE NodeLifecycleProofs --------------------------
(***************************************************************************)
(* Proofs about NodeLifecycle: whatever the user, the network and the      *)
(* scheduler do.                                                           *)
(***************************************************************************)
EXTENDS NodeLifecycle, TLAPS

\* Before the init thread has made a handler there is none anywhere.
NoneBefore ==
    initThread \in {"none", "register", "timer", "construct"} =>
        reader = "none" /\ ~keyboard /\ ~oldKeyboard

\* Without a handler the terminal has not been touched, and what has been
\* changed has been saved.
TerminalKnown ==
    /\ reader = "none" => terminal = "cooked"
    /\ terminal = "raw" => saved = "cooked"

\* Who will join the handler's thread: the init thread has still to hand it
\* over, the pointer has it, the deletion has begun, or it is done.
HandlerKept ==
    ~raced =>
        \/ reader = "none"
        \/ initThread = "assign"
        \/ keyboard
        \/ phase \in {"resetJoin", "membersJoin"}
        \/ reader = "end" /\ terminal = "cooked"

\* What the destructor has done by when.
DestructorProgress ==
    /\ phase \in {"members", "membersJoin", "destroyed"} => initThread \in {"none", "end"}
    /\ phase \in {"membersJoin", "destroyed"} => ~keyboard
    /\ phase = "resetStore" /\ keyboard /\ ~oldKeyboard => raced
    /\ phase = "aborted" => reader = "none"

LifeInv == TypeOK /\ NoneBefore /\ TerminalKnown /\ HandlerKept /\ DestructorProgress

\* The initial state satisfies the invariant.
LEMMA InitInv == Init => LifeInv
  BY DEF Init, LifeInv, TypeOK, Phases, NoneBefore, TerminalKnown, HandlerKept, DestructorProgress

\* Each step keeps the invariant.
LEMMA StepInv == LifeInv /\ [Next]_vars => LifeInv'
<1> SUFFICES ASSUME LifeInv, [Next]_vars
             PROVE  LifeInv'
  OBVIOUS
<1> USE DEF LifeInv, TypeOK, Phases, NoneBefore, TerminalKnown, HandlerKept, DestructorProgress,
            handlerVars, pointerVars, sendVars
<1>1. CASE InitTimer
  BY <1>1 DEF InitTimer
<1>2. CASE Register
  BY <1>2 DEF Register, InitAt, InitGoto, Ended
<1>3. CASE CreateSendTimer
  BY <1>3 DEF CreateSendTimer, InitAt, InitGoto, Ended
<1>4. CASE ConstructHandler
  <2>1. TypeOK'
    BY <1>4 DEF ConstructHandler, InitAt, InitGoto, Ended
  <2>2. NoneBefore'
    BY <1>4 DEF ConstructHandler, InitAt, InitGoto, Ended
  <2>3. TerminalKnown'
    BY <1>4 DEF ConstructHandler, InitAt, InitGoto, Ended
  <2>4. HandlerKept'
    BY <1>4 DEF ConstructHandler, InitAt, InitGoto, Ended
  <2>5. DestructorProgress'
    BY <1>4 DEF ConstructHandler, InitAt, InitGoto, Ended
  <2> QED BY <2>1, <2>2, <2>3, <2>4, <2>5
<1>5. CASE AssignKeyboard
  <2>1. raced' \in BOOLEAN /\ (phase = "resetStore" => raced')
    BY <1>5 DEF AssignKeyboard
  <2> QED BY <1>5, <2>1 DEF AssignKeyboard, InitAt, InitGoto, Ended
<1>6a. CASE Key
  BY <1>6a DEF Key, ReaderAt, ReaderGoto, Ended
<1>6b. CASE LookAtRunning
  BY <1>6b DEF LookAtRunning, ReaderAt, ReaderGoto, Ended
<1>6c. CASE PollTimesOut
  BY <1>6c DEF PollTimesOut, ReaderAt, ReaderGoto, Ended
<1>6d. CASE OnKey
  <2>1. TypeOK'
    <3>1. ok' \in BOOLEAN
      BY <1>6d DEF OnKey, ReaderAt, ReaderGoto, Ended
    <3> QED BY <1>6d, <3>1 DEF OnKey, ReaderAt, ReaderGoto, Ended
  <2>2. NoneBefore'
    BY <1>6d DEF OnKey, ReaderAt, ReaderGoto, Ended
  <2>3. TerminalKnown'
    BY <1>6d DEF OnKey, ReaderAt, ReaderGoto, Ended
  <2>4. HandlerKept'
    BY <1>6d DEF OnKey, ReaderAt, ReaderGoto, Ended
  <2>5. DestructorProgress'
    BY <1>6d DEF OnKey, ReaderAt, ReaderGoto, Ended
  <2> QED BY <2>1, <2>2, <2>3, <2>4, <2>5
<1>7. CASE SendTimer
  BY <1>7 DEF SendTimer
<1>8a. CASE Interrupt
  <2>1. TypeOK'
    <3>1. ok' \in BOOLEAN
      BY <1>8a DEF Interrupt
    <3> QED BY <1>8a, <3>1 DEF Interrupt
  <2>2. NoneBefore'
    BY <1>8a DEF Interrupt
  <2>3. TerminalKnown'
    BY <1>8a DEF Interrupt
  <2>4. HandlerKept'
    BY <1>8a DEF Interrupt
  <2>5. DestructorProgress'
    BY <1>8a DEF Interrupt
  <2> QED BY <2>1, <2>2, <2>3, <2>4, <2>5
<1>8b. CASE SpinReturns
  BY <1>8b DEF SpinReturns
<1>9a. CASE ResetLoads
  BY <1>9a DEF ResetLoads
<1>9b. CASE ResetStores
  <2>1. TypeOK'
    <3>1. running' \in BOOLEAN /\ keyboard' \in BOOLEAN
      BY <1>9b DEF ResetStores
    <3> QED BY <1>9b, <3>1 DEF ResetStores
  <2>2. NoneBefore'
    BY <1>9b DEF ResetStores
  <2>3. TerminalKnown'
    BY <1>9b DEF ResetStores
  <2>4. HandlerKept'
    BY <1>9b DEF ResetStores
  <2>5. DestructorProgress'
    BY <1>9b DEF ResetStores
  <2> QED BY <2>1, <2>2, <2>3, <2>4, <2>5
<1>10a. CASE JoinInit
  BY <1>10a DEF JoinInit
<1>10b. CASE DestroyMembers
  <2>1. TypeOK'
    <3>1. running' \in BOOLEAN /\ keyboard' \in BOOLEAN
      BY <1>10b DEF DestroyMembers
    <3> QED BY <1>10b, <3>1 DEF DestroyMembers
  <2>2. NoneBefore'
    BY <1>10b DEF DestroyMembers
  <2>3. TerminalKnown'
    BY <1>10b DEF DestroyMembers
  <2>4. HandlerKept'
    BY <1>10b DEF DestroyMembers
  <2>5. DestructorProgress'
    BY <1>10b DEF DestroyMembers
  <2> QED BY <2>1, <2>2, <2>3, <2>4, <2>5
<1>11. CASE \/ HandlerDeleted("resetJoin", "joinInit")
            \/ HandlerDeleted("membersJoin", "destroyed")
  BY <1>11 DEF HandlerDeleted, Restore
<1>12. CASE UNCHANGED vars
  BY <1>12 DEF vars
<1> QED
  BY <1>1, <1>2, <1>3, <1>4, <1>5, <1>6a, <1>6b, <1>6c, <1>6d, <1>7, <1>8a,
     <1>8b, <1>9a, <1>9b, <1>10a, <1>10b, <1>11, <1>12
  DEF Next, InitSteps, ReaderSteps, Destructor, Over

\* The invariant holds in every reachable state.
LEMMA InvHolds == Spec => []LifeInv
  BY InitInv, StepInv, PTL DEF Spec

(***************************************************************************)
(* The types are invariant.                                                *)
(***************************************************************************)
THEOREM TypeCorrect == Spec => []TypeOK
<1>1. LifeInv => TypeOK
  BY DEF LifeInv
<1> QED BY <1>1, InvHolds, PTL

(***************************************************************************)
(* Wherever in the start-up the end comes, no thread of the node outlives  *)
(* it and the terminal is as it was, but for the race on keyboard_.        *)
(***************************************************************************)
THEOREM NothingIsLeft == Spec => []NothingLeftBehind
<1>1. LifeInv => NothingLeftBehind
  BY DEF LifeInv, TypeOK, NoneBefore, TerminalKnown, HandlerKept, DestructorProgress,
     NothingLeftBehind
<1> QED BY <1>1, InvHolds, PTL
=============================================================================
