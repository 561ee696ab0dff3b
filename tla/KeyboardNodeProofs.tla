-------------------------- MODULE KeyboardNodeProofs --------------------------
(***************************************************************************)
(* Proofs about KeyboardNode, for both message types, any keys in use, and *)
(* all setpoints and ramp steps that are natural numbers.                  *)
(***************************************************************************)
EXTENDS KeyboardNode, TLAPS

(***************************************************************************)
(* The inductive invariants.                                               *)
(***************************************************************************)
Low(a) == IF isJoy THEN 0 ELSE -Setpoint(a)

InRange(axes) == \A a \in Axes : Low(a) <= axes[a] /\ axes[a] <= Setpoint(a)

\* The setpoints bound the speeds and every frame made from them.
RangeInv ==
    /\ InRange(speed)
    /\ frame # NoFrame => InRange(frame.axes)
    /\ InRange(sent.axes)

\* A flag that is set has been asked for, and so has all motion.
AskedInv == pressed \subseteq asked /\ MotionIsAsked

\* No faster than: axis by axis.
Slower(axes1, axes2) == \A a \in Axes : Magnitude(axes1[a]) <= Magnitude(axes2[a])

OneStepFaster(axes1, axes2) ==
    \A a \in Axes : Magnitude(axes1[a]) <= Magnitude(axes2[a]) + Step(a)

\* The speeds are no faster than the frame they were last put in: the one on
\* its way, or the last that was sent.
StepInv ==
    running =>
        IF frame = NoFrame
        THEN Slower(speed, sent.axes)
        ELSE Slower(speed, frame.axes) /\ OneStepFaster(frame.axes, sent.axes)

-----------------------------------------------------------------------------
(* Lemmas *)

\* The type of message is settled when the node starts.
LEMMA ModeStays ==
  ASSUME [Next]_vars
  PROVE  isJoy' = isJoy
  BY DEF Next, Press, Hold, Release, SendTimer, Compose, Send, vars

\* While it stays, so do the tables that depend on it.
LEMMA SameTables ==
  ASSUME isJoy' = isJoy
  PROVE  /\ Axes' = Axes /\ MoveKeys' = MoveKeys /\ CommandKeys' = CommandKeys
         /\ Frame' = Frame /\ AtRest' = AtRest /\ NoFrame' = NoFrame
<1>1. Axes' = Axes /\ MoveKeys' = MoveKeys /\ CommandKeys' = CommandKeys
  BY DEF Axes, MoveKeys, CommandKeys
<1>2. AtRest' = AtRest
  BY <1>1 DEF AtRest
<1>3. NoFrame' = NoFrame
  BY <1>2 DEF NoFrame
<1>4. Frame' = Frame
  BY <1>1 DEF Frame
<1>5. QED
  BY <1>1, <1>2, <1>3, <1>4

\* Setpoints and steps are natural numbers.
LEMMA Parameters ==
  ASSUME NEW a \in Axes
  PROVE  Setpoint(a) \in Nat /\ Step(a) \in Nat
  BY SpeedAssumption DEF Setpoint, Step

\* RampToward goes toward its target, by a step at most, and not past it.
LEMMA Ramp ==
  ASSUME NEW current \in Int, NEW target \in Int, NEW step \in Nat,
         NEW r, r = RampToward(current, target, step)
  PROVE  /\ r \in Int
         /\ current <= target => current <= r /\ r <= target
         /\ target <= current => target <= r /\ r <= current
         /\ r <= current + step /\ current - step <= r
  BY DEF RampToward

\* Targets are within the setpoints; a Joy axis has no negative direction.
LEMMA Targets ==
  ASSUME TypeOK, NEW a \in Axes
  PROVE  /\ Target(a) \in Int
         /\ Low(a) <= Target(a) /\ Target(a) <= Setpoint(a)
         /\ Target(a) > 0 => Positive(a) \in pressed
         /\ Target(a) < 0 => Negative(a) \in pressed
<1>1. Setpoint(a) \in Nat
  BY Parameters
<1>2. isJoy => Negative(a) \notin pressed
  BY DEF TypeOK, Axes, Negative, None, Directions
<1>3. CASE isJoy
  BY <1>1, <1>2, <1>3 DEF Target, Low
<1>4. CASE ~isJoy
  BY <1>1, <1>4 DEF Target, Low
<1>5. QED
  BY <1>3, <1>4

\* A frame is never mistaken for the absence of one.
LEMMA FramesAreFrames == NoFrame \notin Frame
  BY DEF NoFrame, Frame, CommandKeys, None

\* What composing a frame yields.
LEMMA Composed ==
  ASSUME TypeOK, Compose
  PROVE  /\ speed' \in [Axes -> Int]
         /\ frame' \in Frame /\ frame' # NoFrame /\ frame'.axes = speed'
         /\ \A a \in Axes : speed'[a] = RampToward(speed[a], Target(a), Step(a))
<1>1. ASSUME NEW a \in Axes
      PROVE  RampToward(speed[a], Target(a), Step(a)) \in Int
  <2>1. speed[a] \in Int /\ Target(a) \in Int /\ Step(a) \in Nat
    BY Targets, Parameters DEF TypeOK
  <2>2. QED
    BY <2>1 DEF RampToward
<1>2. speed' \in [Axes -> Int]
  BY <1>1 DEF Compose
<1>3. Command \in CommandKeys \cup {None}
  BY DEF TypeOK, Command
<1>4. frame' \in Frame /\ frame'.axes = speed'
  BY <1>2, <1>3 DEF Compose, Frame
<1>5. QED
  BY <1>2, <1>4, FramesAreFrames DEF Compose

\* What a key can do to the speeds, the flags and the frames.
LEMMA KeyEffect ==
  ASSUME TypeOK, NEW k \in Keys, Press(k) \/ Hold(k) \/ Release(k)
  PROVE  /\ speed' = speed \/ speed' = AtRest
         /\ speed' \in [Axes -> Int]
         /\ UNCHANGED outgoing
         /\ running' \in BOOLEAN /\ (running' => running)
         /\ isJoy' = isJoy
<1>1. \E e \in {"PRESS", "HOLD", "RELEASE"} : OnKey(k, e)
  BY DEF Press, Hold, Release
<1>2. PICK e \in {"PRESS", "HOLD", "RELEASE"} : OnKey(k, e)
  BY <1>1
<1>3. AtRest \in [Axes -> Int]
  BY DEF AtRest
<1>4. speed' = speed \/ speed' = AtRest
  BY <1>2 DEF OnKey, MoveKey, BeginCommand, EndCommand, SpaceKey, CtrlC, Ignored, StopMotion
<1>5. running' \in BOOLEAN /\ (running' => running)
  <2>1. running' = running \/ running' = FALSE
    BY <1>2, Zenon DEF OnKey, MoveKey, BeginCommand, EndCommand, SpaceKey, CtrlC, Ignored
  <2>2. running = TRUE \/ running = FALSE
    BY DEF TypeOK
  <2>3. running' \in BOOLEAN
    BY <2>1, <2>2
  <2>4. running' => running
    BY <2>1, Zenon
  <2>5. QED
    BY <2>3, <2>4, Zenon
<1>6. UNCHANGED <<isJoy, outgoing>>
  BY DEF Press, Hold, Release
<1>7. QED
  BY <1>3, <1>4, <1>5, <1>6 DEF TypeOK

-----------------------------------------------------------------------------
(* Types *)

\* TypeOK holds initially ...
LEMMA TypeInit == Init => TypeOK
  BY FramesAreFrames
  DEF Init, TypeOK, AtRest, Frame, None

\* ... and after every event of a key ...
LEMMA TypeKey ==
  ASSUME TypeOK, NEW k \in Keys, Press(k) \/ Hold(k) \/ Release(k)
  PROVE  TypeOK'
<1>1. /\ speed' \in [Axes -> Int] /\ running' \in BOOLEAN
      /\ frame' \in Frame \cup {NoFrame} /\ sent' \in Frame
  BY KeyEffect DEF TypeOK, outgoing
<1>2. PICK e \in {"PRESS", "HOLD", "RELEASE"} : OnKey(k, e)
  BY DEF Press, Hold, Release
<1>3. Direction(k) \in Directions
  BY DEF Direction, Directions
<1>4. pressed' \subseteq Directions /\ asked' \subseteq Directions
  BY <1>2, <1>3 DEF TypeOK, OnKey, MoveKey, BeginCommand, EndCommand, SpaceKey, CtrlC,
                   Ignored, StopMotion
<1>5. /\ heldCmd' \in CommandKeys \cup {None} /\ buttons' \in CommandKeys \cup {None}
  BY <1>2 DEF TypeOK, OnKey, MoveKey, BeginCommand, EndCommand, SpaceKey, CtrlC, Ignored
<1>6. down' \subseteq Keys
  BY DEF TypeOK, Press, Hold, Release
<1>7. QED
  BY <1>1, <1>4, <1>5, <1>6, KeyEffect, SameTables DEF TypeOK

\* ... and every step of the send timer.
LEMMA TypeTimer ==
  ASSUME TypeOK, SendTimer
  PROVE  TypeOK'
<1>1. CASE Compose
  <2>1. isJoy' = isJoy
    BY <1>1 DEF Compose
  <2>2. QED
    BY <1>1, <2>1, Composed, SameTables DEF TypeOK, Compose
<1>2. CASE Send
  <2>1. isJoy' = isJoy
    BY <1>2 DEF Send
  <2>2. QED
    BY <1>2, <2>1, SameTables DEF TypeOK, Send
<1>3. QED
  BY <1>1, <1>2 DEF SendTimer

\* The types of the node, the keyboard and the history are invariant.
THEOREM TypeCorrect == Spec => []TypeOK
<1>1. TypeOK /\ [Next]_vars => TypeOK'
  <2> SUFFICES ASSUME TypeOK, [Next]_vars PROVE TypeOK'
    OBVIOUS
  <2>1. CASE UNCHANGED vars
    BY <2>1, SameTables DEF TypeOK, vars, outgoing
  <2>2. QED
    BY <2>1, TypeKey, TypeTimer DEF Next
<1>2. QED
  BY TypeInit, <1>1, PTL DEF Spec

-----------------------------------------------------------------------------
(* Setpoints *)

LEMMA RangeStep ==
  ASSUME TypeOK, RangeInv, [Next]_vars
  PROVE  RangeInv'
<1>0. /\ isJoy' = isJoy /\ Axes' = Axes /\ MoveKeys' = MoveKeys
      /\ CommandKeys' = CommandKeys /\ AtRest' = AtRest /\ NoFrame' = NoFrame
  BY ModeStays, SameTables
<1>1. InRange(AtRest)
  BY Parameters DEF InRange, Low, AtRest
<1>2. ASSUME NEW k \in Keys, Press(k) \/ Hold(k) \/ Release(k)
      PROVE  RangeInv'
  BY <1>0, <1>1, <1>2, KeyEffect DEF RangeInv, outgoing, InRange, Low
<1>3. CASE Compose
  <2>1. \A a \in Axes : Low(a) <= speed'[a] /\ speed'[a] <= Setpoint(a)
    <3> SUFFICES ASSUME NEW a \in Axes
                 PROVE  Low(a) <= speed'[a] /\ speed'[a] <= Setpoint(a)
      OBVIOUS
    <3>1. speed'[a] = RampToward(speed[a], Target(a), Step(a))
      BY <1>3, Composed
    <3>2. /\ speed[a] \in Int /\ Low(a) <= speed[a] /\ speed[a] <= Setpoint(a)
          /\ Target(a) \in Int /\ Low(a) <= Target(a) /\ Target(a) <= Setpoint(a)
          /\ Step(a) \in Nat /\ Setpoint(a) \in Int /\ Low(a) \in Int
      BY Targets, Parameters DEF TypeOK, RangeInv, InRange, Low
    <3>3. /\ speed[a] <= Target(a) => speed[a] <= speed'[a] /\ speed'[a] <= Target(a)
          /\ Target(a) <= speed[a] => Target(a) <= speed'[a] /\ speed'[a] <= speed[a]
          /\ speed'[a] \in Int
      BY <3>1, <3>2, Ramp
    <3>4. QED
      BY <3>2, <3>3
  <2>2. sent' = sent /\ frame'.axes = speed'
    BY <1>3, Composed DEF Compose
  <2>3. QED
    BY <1>0, <2>1, <2>2 DEF RangeInv, InRange, Low
<1>4. CASE Send
  BY <1>0, <1>4 DEF RangeInv, Send, InRange, Low
<1>5. CASE UNCHANGED vars
  BY <1>0, <1>5 DEF RangeInv, InRange, Low, vars, outgoing
<1>6. QED
  BY <1>2, <1>3, <1>4, <1>5 DEF Next, SendTimer

\* Every frame is within the setpoints, for any parameters.
THEOREM FramesWithinSetpoints == Spec => []WithinSetpoints
<1>1. Init => RangeInv
  BY Parameters DEF Init, RangeInv, InRange, Low, AtRest
<1>2. TypeOK /\ RangeInv /\ [Next]_vars => RangeInv'
  BY RangeStep
<1>3. RangeInv => WithinSetpoints
  BY DEF RangeInv, InRange, Low, WithinSetpoints
<1>4. QED
  BY TypeCorrect, <1>1, <1>2, <1>3, PTL DEF Spec

-----------------------------------------------------------------------------
(* The dead man's handle *)

LEMMA HandleStep ==
  ASSUME TypeOK, DeadMansHandle, [Next]_vars
  PROVE  DeadMansHandle'
<1>0. /\ isJoy' = isJoy /\ Axes' = Axes /\ MoveKeys' = MoveKeys
      /\ CommandKeys' = CommandKeys /\ AtRest' = AtRest /\ NoFrame' = NoFrame
  BY ModeStays, SameTables
<1>1. ASSUME NEW k \in Keys, Press(k) \/ Hold(k)
      PROVE  DeadMansHandle'
  <2>1. k \in down' /\ down \subseteq down' /\ \E e \in {"PRESS", "HOLD"} : OnKey(k, e)
    BY <1>1 DEF Press, Hold
  <2>2. PICK e \in {"PRESS", "HOLD"} : OnKey(k, e)
    BY <2>1
  <2>3. \A d \in pressed' : \E j \in down' \cap MoveKeys : Direction(j) = d
    BY <1>0, <2>1, <2>2 DEF DeadMansHandle, OnKey, MoveKey, BeginCommand, EndCommand, SpaceKey,
                      CtrlC, Ignored, StopMotion, Pressing
  <2>4. heldCmd' \in down' \cup {None} /\ (isJoy => buttons' = heldCmd')
    BY <1>0, <2>1, <2>2 DEF DeadMansHandle, OnKey, MoveKey, BeginCommand, EndCommand, SpaceKey,
                      CtrlC, Ignored
  <2>5. QED
    BY <1>0, <2>3, <2>4 DEF DeadMansHandle
<1>2. ASSUME NEW k \in Keys, Release(k)
      PROVE  DeadMansHandle'
  <2>1. down' = down \ {k} /\ OnKey(k, "RELEASE")
    BY <1>2 DEF Release
  <2>2. \A d \in pressed' : \E j \in down' \cap MoveKeys : Direction(j) = d
    <3>1. CASE k \in MoveKeys
      BY <1>0, <2>1, <3>1 DEF DeadMansHandle, OnKey, MoveKey, BeginCommand, EndCommand, SpaceKey,
                        CtrlC, Ignored, Pressing, MoveKeys, CommandKeys
    <3>2. CASE k \notin MoveKeys
      BY <1>0, <2>1, <3>2 DEF DeadMansHandle, OnKey, MoveKey, BeginCommand, EndCommand, SpaceKey,
                        CtrlC, Ignored, Pressing
    <3>3. QED
      BY <3>1, <3>2
  <2>3. heldCmd' \in down' \cup {None} /\ (isJoy => buttons' = heldCmd')
    BY <1>0, <2>1 DEF TypeOK, DeadMansHandle, OnKey, MoveKey, BeginCommand, EndCommand, SpaceKey,
                CtrlC, Ignored, Pressing, MoveKeys, CommandKeys, None
  <2>4. QED
    BY <1>0, <2>2, <2>3 DEF DeadMansHandle
<1>3. CASE SendTimer \/ UNCHANGED vars
  BY <1>0, <1>3 DEF DeadMansHandle, SendTimer, Compose, Send, vars
<1>4. QED
  BY <1>1, <1>2, <1>3 DEF Next

\* Nothing is commanded without a key that is down.
THEOREM NothingWithoutAFinger == Spec => []DeadMansHandle
<1>1. Init => DeadMansHandle
  BY DEF Init, DeadMansHandle
<1>2. TypeOK /\ DeadMansHandle /\ [Next]_vars => DeadMansHandle'
  BY HandleStep
<1>3. QED
  BY TypeCorrect, <1>1, <1>2, PTL DEF Spec

-----------------------------------------------------------------------------
(* Stops *)

LEMMA AskedStep ==
  ASSUME TypeOK, AskedInv, [Next]_vars
  PROVE  AskedInv'
<1>0. /\ isJoy' = isJoy /\ Axes' = Axes /\ MoveKeys' = MoveKeys
      /\ CommandKeys' = CommandKeys /\ AtRest' = AtRest /\ NoFrame' = NoFrame
  BY ModeStays, SameTables
<1>1. ASSUME NEW k \in Keys, Press(k) \/ Hold(k) \/ Release(k)
      PROVE  AskedInv'
  <2>1. PICK e \in {"PRESS", "HOLD", "RELEASE"} : OnKey(k, e)
    BY <1>1 DEF Press, Hold, Release
  <2>2. pressed' \subseteq asked'
    BY <2>1 DEF AskedInv, OnKey, MoveKey, BeginCommand, EndCommand, SpaceKey, CtrlC,
                Ignored, StopMotion
  <2>3. speed' = AtRest \/ (speed' = speed /\ asked \subseteq asked')
    BY <2>1 DEF OnKey, MoveKey, BeginCommand, EndCommand, SpaceKey, CtrlC, Ignored,
                StopMotion
  <2>4. CASE speed' = AtRest
    BY <1>0, <2>2, <2>4 DEF AskedInv, MotionIsAsked, AtRest
  <2>5. CASE speed' = speed /\ asked \subseteq asked'
    BY <1>0, <2>2, <2>5 DEF AskedInv, MotionIsAsked
  <2>6. QED
    BY <2>3, <2>4, <2>5
<1>2. CASE Compose
  <2>1. pressed' = pressed /\ asked' = asked
    BY <1>2 DEF Compose
  <2>2. ASSUME NEW a \in Axes
        PROVE  /\ speed'[a] > 0 => Positive(a) \in asked
               /\ speed'[a] < 0 => Negative(a) \in asked
    <3>1. speed'[a] = RampToward(speed[a], Target(a), Step(a))
      BY <1>2, Composed
    <3>2. speed[a] \in Int /\ Target(a) \in Int /\ Step(a) \in Nat
      BY Targets, Parameters DEF TypeOK
    <3>3. /\ speed'[a] \in Int
          /\ speed'[a] > 0 => speed[a] > 0 \/ Target(a) > 0
          /\ speed'[a] < 0 => speed[a] < 0 \/ Target(a) < 0
      BY <3>1, <3>2 DEF RampToward
    <3>4. QED
      <4>1. /\ Target(a) > 0 => Positive(a) \in asked
            /\ Target(a) < 0 => Negative(a) \in asked
        BY Targets DEF AskedInv
      <4>2. QED
        BY <3>3, <4>1 DEF AskedInv, MotionIsAsked
  <2>3. QED
    BY <1>0, <2>1, <2>2 DEF AskedInv, MotionIsAsked
<1>3. CASE Send \/ UNCHANGED vars
  BY <1>0, <1>3 DEF AskedInv, MotionIsAsked, Send, vars
<1>4. QED
  BY <1>1, <1>2, <1>3 DEF Next, SendTimer

\* SPACE and the E-stop leave no motion behind.
THEOREM StopsStopEverything == Spec => []MotionIsAsked
<1>1. Init => AskedInv
  BY DEF Init, AskedInv, MotionIsAsked, AtRest
<1>2. TypeOK /\ AskedInv /\ [Next]_vars => AskedInv'
  BY AskedStep
<1>3. AskedInv => MotionIsAsked
  BY DEF AskedInv
<1>4. QED
  BY TypeCorrect, <1>1, <1>2, <1>3, PTL DEF Spec

-----------------------------------------------------------------------------
(* Steps *)

LEMMA StepStep ==
  ASSUME TypeOK, StepInv, [Next]_vars
  PROVE  StepInv'
<1>0. /\ isJoy' = isJoy /\ Axes' = Axes /\ MoveKeys' = MoveKeys
      /\ CommandKeys' = CommandKeys /\ AtRest' = AtRest /\ NoFrame' = NoFrame
  BY ModeStays, SameTables
<1>1. ASSUME NEW k \in Keys, Press(k) \/ Hold(k) \/ Release(k)
      PROVE  StepInv'
  <2>1. /\ speed' = speed \/ speed' = AtRest
        /\ frame' = frame /\ sent' = sent /\ (running' => running)
    BY <1>1, KeyEffect DEF outgoing
  <2>2. /\ \A a \in Axes : sent.axes[a] \in Int
        /\ frame # NoFrame => \A a \in Axes : frame.axes[a] \in Int
    BY DEF TypeOK, Frame
  <2>3. Slower(speed, sent.axes) => Slower(speed', sent.axes)
    BY <2>1, <2>2 DEF Slower, AtRest, Magnitude
  <2>4. frame # NoFrame /\ Slower(speed, frame.axes) => Slower(speed', frame.axes)
    BY <2>1, <2>2 DEF Slower, AtRest, Magnitude
  <2>5. QED
    BY <1>0, <2>1, <2>3, <2>4 DEF StepInv, Slower, OneStepFaster
<1>2. CASE Compose
  <2>1. frame = NoFrame /\ running /\ sent' = sent /\ frame'.axes = speed'
        /\ frame' # NoFrame
    BY <1>2, Composed DEF Compose
  <2>2. ASSUME NEW a \in Axes
        PROVE  Magnitude(speed'[a]) <= Magnitude(sent.axes[a]) + Step(a)
    <3>1. speed'[a] = RampToward(speed[a], Target(a), Step(a))
      BY <1>2, Composed
    <3>2. speed[a] \in Int /\ Target(a) \in Int /\ Step(a) \in Nat
      BY Targets, Parameters DEF TypeOK
    <3>3. Magnitude(speed[a]) <= Magnitude(sent.axes[a])
      BY <2>1 DEF StepInv, Slower
    <3>4. /\ speed'[a] \in Int
          /\ speed'[a] <= speed[a] + Step(a) /\ speed[a] - Step(a) <= speed'[a]
      BY <3>1, <3>2, Ramp
    <3>5. sent.axes[a] \in Int
      BY DEF TypeOK, Frame
    <3>6. QED
      BY <3>2, <3>3, <3>4, <3>5 DEF Magnitude
  <2>3. \A a \in Axes : speed'[a] \in Int
    BY <1>2, Composed
  <2>4. QED
    BY <1>0, <2>1, <2>2, <2>3 DEF StepInv, Slower, OneStepFaster, Magnitude
<1>3. CASE Send
  BY <1>0, <1>3 DEF StepInv, Send, Slower
<1>4. CASE UNCHANGED vars
  BY <1>0, <1>4 DEF StepInv, Slower, OneStepFaster, vars, outgoing
<1>5. QED
  BY <1>1, <1>2, <1>3, <1>4 DEF Next, SendTimer

\* No axis gains more than a ramp step from one frame to the next.
THEOREM RampsAreGentle == Spec => NoLurch
<1>1. Init => StepInv
  BY DEF Init, StepInv, Slower, AtRest, Magnitude
<1>2. TypeOK /\ StepInv /\ [Next]_vars => StepInv'
  BY StepStep
<1>3. TypeOK /\ StepInv /\ [Next]_vars
         => [\A a \in Axes :
               Magnitude(sent'.axes[a]) <= Magnitude(sent.axes[a]) + Step(a)]_vars
  <2> SUFFICES ASSUME TypeOK, StepInv, [Next]_vars, NEW a \in Axes
               PROVE  Magnitude(sent'.axes[a]) <= Magnitude(sent.axes[a]) + Step(a)
    OBVIOUS
  <2>1. sent.axes[a] \in Int /\ Step(a) \in Nat
    BY Parameters DEF TypeOK, Frame
  <2>2. CASE sent' = sent
    BY <2>1, <2>2 DEF Magnitude
  <2>3. CASE sent' = frame /\ frame # NoFrame /\ running
    BY <2>3 DEF StepInv, OneStepFaster
  <2>4. ASSUME NEW k \in Keys, Press(k) \/ Hold(k) \/ Release(k)
        PROVE  sent' = sent
    BY <2>4 DEF Press, Hold, Release, outgoing
  <2>5. sent' = sent \/ (sent' = frame /\ frame # NoFrame /\ running)
    BY <2>4 DEF Next, SendTimer, Compose, Send, vars, outgoing
  <2>6. QED
    BY <2>2, <2>3, <2>5
<1>4. QED
  BY TypeCorrect, <1>1, <1>2, <1>3, PTL DEF Spec, NoLurch

-----------------------------------------------------------------------------
(* Coming to rest *)

\* What a ramp step leaves of a speed when nothing drives the axis.
Slowed(speed1, step) == IF Magnitude(speed1) > step THEN Magnitude(speed1) - step ELSE 0

\* Without a key the speeds change only when a frame is composed, and that frame
\* has no command and on each axis a ramp step less than there was.
SlowsDown ==
    down = {} /\ down' = {} =>
        IF frame = NoFrame /\ frame' # NoFrame
        THEN /\ frame'.cmd = None /\ frame'.axes = speed'
             /\ \A a \in Axes : Magnitude(speed'[a]) = Slowed(speed[a], Step(a))
        ELSE speed' = speed

(***************************************************************************)
(* The safe half of ComesToRest, and how long that takes: once every key   *)
(* has been let go of, each frame is a ramp step slower than the one       *)
(* before, down to zero, with any setpoints and steps.  The first frame    *)
(* after as many steps as the setpoint holds is at rest.                   *)
(***************************************************************************)
THEOREM EachFrameSlows == Spec => [][SlowsDown]_vars
<1>1. TypeOK /\ DeadMansHandle /\ [Next]_vars => [SlowsDown]_vars
  <2> SUFFICES ASSUME TypeOK, DeadMansHandle, Next, down = {}, down' = {}
               PROVE  SlowsDown
    BY DEF SlowsDown
  <2>1. pressed = {} /\ heldCmd = None
    BY DEF DeadMansHandle
  <2>2. CASE Compose
    <3>1. frame = NoFrame /\ frame' # NoFrame /\ frame'.axes = speed'
      BY <2>2, Composed DEF Compose
    <3>2. frame'.cmd = None
      BY <2>1, <2>2 DEF Compose, Command
    <3>3. ASSUME NEW a \in Axes
          PROVE  Magnitude(speed'[a]) = Slowed(speed[a], Step(a))
      <4>1. speed[a] \in Int /\ Step(a) \in Nat
        BY Parameters DEF TypeOK
      <4>2. speed'[a] = RampToward(speed[a], 0, Step(a))
        <5>1. Target(a) = 0
          BY <2>1 DEF Target
        <5> QED BY <2>2, <5>1, Composed
      <4> QED BY <4>1, <4>2 DEF RampToward, Magnitude, Slowed
    <3> QED BY <3>1, <3>2, <3>3 DEF SlowsDown
  <2>3. CASE Send
    BY <2>3 DEF Send, SlowsDown
  <2>4. ASSUME NEW k \in Keys, Press(k) \/ Hold(k) \/ Release(k)
        PROVE  FALSE
    BY <2>4 DEF Press, Hold, Release
  <2>5. QED
    BY <2>2, <2>3, <2>4 DEF Next, SendTimer
<1>2. QED
  BY TypeCorrect, NothingWithoutAFinger, <1>1, PTL DEF Spec
=============================================================================
