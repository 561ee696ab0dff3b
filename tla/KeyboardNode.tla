------------------------------ MODULE KeyboardNode ------------------------------
(***************************************************************************)
(* KeyboardSourceNode: what the keys do to the frames that the node sends. *)
(*                                                                         *)
(* The thread of the KeyboardHandler hands key events to _onKey, one at a  *)
(* time and under stateMtx_.  The send timer composes a frame under the    *)
(* same mutex and sends it after letting go of it: keys come in between.   *)
(* The events are those that KeyEvents promises: a key is down from its    *)
(* PRESS to its RELEASE, and may be HELD at any time in between.  How the  *)
(* handler gets at them is in KeyboardHandler.                             *)
(*                                                                         *)
(* Speeds are integers, in any unit in which the setpoints and steps are.  *)
(* A command stands for the button or sentinel values it is sent as.  The  *)
(* node is ready: its source is registered, and stays registered because a *)
(* topic source without keep-alive is never in TIMEOUT (see StatusTimer).  *)
(*                                                                         *)
(* Operators whose comment begins with (slip) are wrong variants of the    *)
(* definitions after them (see ControlSignalSink).                         *)
(***************************************************************************)
EXTENDS Integers

CONSTANTS
    Keys,          \* the keys the user uses
    MaxLinear,     \* max_setpoint_linear
    MaxAngular,    \* max_setpoint_angular
    StepLinear,    \* ramp_step_linear
    StepAngular    \* ramp_step_angular

\* The node does not look at its parameters: a negative setpoint or step is
\* accepted, and makes the ramp run the wrong way or away from its target.
ASSUME SpeedAssumption ==
    /\ MaxLinear \in Nat /\ MaxAngular \in Nat
    /\ StepLinear \in Nat /\ StepAngular \in Nat

VARIABLES
    isJoy,      \* initial_msg_type is Joy, else Twist: chosen at the start
    down,       \* the keys that are down: their last event is not RELEASE
    pressed,    \* the ...Pressed_ flags that are set
    speed,      \* joyAxes_; twistLinX_, twistLinY_, twistAngZ_
    heldCmd,    \* joyHeldCmdKey_, twistHeldCmdKey_
    buttons,    \* joyButtons_: the command whose values it holds
    frame,      \* local of the send timer: composed, not yet sent
    sent,       \* the last frame that went out
    running,    \* rclcpp has not been shut down
    asked       \* history: directions asked for since the last stop

outgoing == <<frame, sent>>
vars     == <<isJoy, down, pressed, speed, heldCmd, buttons, outgoing, running, asked>>

None == "UNKNOWN"   \* Key::UNKNOWN: no key, no command

MoveKeys ==
    {"W", "ARROW_UP", "S", "ARROW_DOWN", "A", "ARROW_LEFT", "D", "ARROW_RIGHT"}
       \cup (IF isJoy THEN {} ELSE {"Q", "E"})

CommandKeys ==
    IF isJoy THEN {"K1", "K2", "K3", "K4", "K5", "K6", "K7", "E", "R"} ELSE {"Z", "R"}

EstopKey == IF isJoy THEN "E" ELSE "Z"

\* The keys either type of message has a use for.
AllKeys ==
    {"W", "ARROW_UP", "S", "ARROW_DOWN", "A", "ARROW_LEFT", "D", "ARROW_RIGHT", "Q", "E",
     "Z", "R", "K1", "K2", "K3", "K4", "K5", "K6", "K7", "SPACE", "CTRL_C"}

ASSUME KeysAssumption == Keys \subseteq AllKeys

Directions == {"fwd", "bck", "left", "right", "strafeLeft", "strafeRight"}

Direction(k) ==
    IF k \in {"W", "ARROW_UP"} THEN "fwd"
    ELSE IF k \in {"S", "ARROW_DOWN"} THEN "bck"
    ELSE IF k \in {"A", "ARROW_LEFT"} THEN "left"
    ELSE IF k \in {"D", "ARROW_RIGHT"} THEN "right"
    ELSE IF k = "Q" THEN "strafeLeft" ELSE "strafeRight"

\* Joy has an axis for each direction, Twist one for each pair of them.
Axes == IF isJoy THEN {"fwd", "bck", "left", "right"} ELSE {"linX", "linY", "angZ"}

Positive(a) ==
    IF a = "linX" THEN "fwd" ELSE IF a = "linY" THEN "strafeLeft"
    ELSE IF a = "angZ" THEN "left" ELSE a

Negative(a) ==
    IF a = "linX" THEN "bck" ELSE IF a = "linY" THEN "strafeRight"
    ELSE IF a = "angZ" THEN "right" ELSE None

Angular     == {"left", "right", "angZ"}
Setpoint(a) == IF a \in Angular THEN MaxAngular ELSE MaxLinear
Step(a)     == IF a \in Angular THEN StepAngular ELSE StepLinear

AtRest  == [a \in Axes |-> 0]
Frame   == [axes : [Axes -> Int], cmd : CommandKeys \cup {None}]
NoFrame == [axes |-> AtRest, cmd |-> "none composed"]

-----------------------------------------------------------------------------
Init ==
    /\ isJoy \in BOOLEAN
    /\ down = {}
    /\ pressed = {}
    /\ speed = AtRest
    /\ heldCmd = None
    /\ buttons = None
    /\ frame = NoFrame
    /\ sent = [axes |-> AtRest, cmd |-> None]
    /\ running = TRUE
    /\ asked = {}

-----------------------------------------------------------------------------
(* _onKey *)

Pressing(e) == e \in {"PRESS", "HOLD"}

\* (slip) a release counts only when no other key stays down.
MoveKeyIgnoresRelease(k, e) ==
    /\ k \in MoveKeys
    /\ IF Pressing(e)
       THEN /\ pressed' = pressed \cup {Direction(k)}
            /\ asked' = asked \cup {Direction(k)}
       ELSE /\ pressed' = IF down = {k} THEN pressed \ {Direction(k)} ELSE pressed
            /\ UNCHANGED asked
    /\ UNCHANGED <<speed, heldCmd, buttons, running>>

MoveKey(k, e) ==
    /\ k \in MoveKeys
    /\ IF Pressing(e)
       THEN /\ pressed' = pressed \cup {Direction(k)}
            /\ asked' = asked \cup {Direction(k)}
       ELSE /\ pressed' = pressed \ {Direction(k)}
            /\ UNCHANGED asked
    /\ UNCHANGED <<speed, heldCmd, buttons, running>>

\* (slip) the flags are cleared, the speeds left to ramp down.
StopFlagsOnly == pressed' = {} /\ asked' = {} /\ UNCHANGED speed

\* Flags cleared and speeds set to zero at once.
StopMotion == pressed' = {} /\ asked' = {} /\ speed' = AtRest

\* (slip) any key that is not known otherwise becomes the command.
BeginAnyCommand(k, e) ==
    /\ k \notin MoveKeys /\ Pressing(e) /\ heldCmd # k
    /\ heldCmd' = k
    /\ buttons' = IF isJoy THEN k ELSE None
    /\ IF k = EstopKey THEN StopMotion ELSE UNCHANGED <<pressed, asked, speed>>
    /\ UNCHANGED running

\* The values of a new command replace those of the one before; the E-stop
\* stops motion as well.
BeginCommand(k, e) ==
    /\ k \in CommandKeys /\ Pressing(e) /\ heldCmd # k
    /\ heldCmd' = k
    /\ buttons' = IF isJoy THEN k ELSE None
    /\ IF k = EstopKey THEN StopMotion ELSE UNCHANGED <<pressed, asked, speed>>
    /\ UNCHANGED running

\* Only the key of the command in force ends it.
EndCommand(k, e) ==
    /\ k \in CommandKeys /\ e = "RELEASE" /\ heldCmd = k
    /\ heldCmd' = None
    /\ buttons' = None
    /\ UNCHANGED <<pressed, asked, speed, running>>

SpaceKey(k, e) ==
    /\ k = "SPACE" /\ Pressing(e)
    /\ heldCmd' = None
    /\ buttons' = None
    /\ StopMotion
    /\ UNCHANGED running

\* rclcpp::shutdown()
CtrlC(k, e) ==
    /\ k = "CTRL_C" /\ e = "PRESS"
    /\ running' = FALSE
    /\ UNCHANGED <<pressed, asked, speed, heldCmd, buttons>>

\* Every other event falls through the two switches.
Ignored(k, e) ==
    /\ \/ k \in CommandKeys /\ (Pressing(e) <=> heldCmd = k)
       \/ k = "SPACE" /\ ~Pressing(e)
       \/ k = "CTRL_C" /\ e # "PRESS"
       \/ k \notin MoveKeys \cup CommandKeys \cup {"SPACE", "CTRL_C"}
    /\ UNCHANGED <<pressed, asked, speed, heldCmd, buttons, running>>

OnKey(k, e) ==
    \/ MoveKey(k, e) \/ BeginCommand(k, e) \/ EndCommand(k, e)
    \/ SpaceKey(k, e) \/ CtrlC(k, e) \/ Ignored(k, e)

\* The events of the handler.
Press(k) ==
    /\ k \notin down
    /\ down' = down \cup {k}
    /\ OnKey(k, "PRESS")
    /\ UNCHANGED <<isJoy, outgoing>>

Hold(k) ==
    /\ k \in down
    /\ OnKey(k, "HOLD")
    /\ UNCHANGED <<isJoy, down, outgoing>>

Release(k) ==
    /\ k \in down
    /\ down' = down \ {k}
    /\ OnKey(k, "RELEASE")
    /\ UNCHANGED <<isJoy, outgoing>>

-----------------------------------------------------------------------------
(* _sendTimerCb *)

\* (slip) no clamp at the target.
RampPast(current, target, step) ==
    IF current < target THEN current + step
    ELSE IF current > target THEN current - step
    ELSE current

\* (slip) straight to the target.
RampAtOnce(current, target, step) == target

\* (slip) nothing pulls back to the target.
RampUpOnly(current, target, step) ==
    IF current >= target THEN current
    ELSE IF current + step < target THEN current + step ELSE target

RampToward(current, target, step) ==
    IF current < target
    THEN IF current + step < target THEN current + step ELSE target
    ELSE IF current - step > target THEN current - step ELSE target

Target(a) ==
    (IF Positive(a) \in pressed THEN Setpoint(a) ELSE 0)
      - (IF Negative(a) \in pressed THEN Setpoint(a) ELSE 0)

\* The command of a frame: values from joyButtons_, or made from the held key.
Command == IF heldCmd = None THEN None ELSE IF isJoy THEN buttons ELSE heldCmd

\* Under stateMtx_.
Compose ==
    /\ running /\ frame = NoFrame
    /\ speed' = [a \in Axes |-> RampToward(speed[a], Target(a), Step(a))]
    /\ frame' = [axes |-> speed', cmd |-> Command]
    /\ UNCHANGED <<isJoy, down, pressed, heldCmd, buttons, sent, running, asked>>

\* sendErased, after the mutex.  Nothing goes out once rclcpp is shut down.
Send ==
    /\ frame # NoFrame
    /\ frame' = NoFrame
    /\ sent' = IF running THEN frame ELSE sent
    /\ UNCHANGED <<isJoy, down, pressed, speed, heldCmd, buttons, running, asked>>

-----------------------------------------------------------------------------
SendTimer == Compose \/ Send

Next ==
    \/ \E k \in Keys : Press(k) \/ Hold(k) \/ Release(k)
    \/ SendTimer

Spec == Init /\ [][Next]_vars

\* The executor keeps the send timer going.
FairSpec == Spec /\ WF_vars(SendTimer)

-----------------------------------------------------------------------------
(* Properties *)

Magnitude(x) == IF x < 0 THEN -x ELSE x

\* Types.
TypeOK ==
    /\ isJoy \in BOOLEAN
    /\ down \subseteq Keys
    /\ pressed \subseteq Directions
    /\ speed \in [Axes -> Int]
    /\ heldCmd \in CommandKeys \cup {None}
    /\ buttons \in CommandKeys \cup {None}
    /\ frame \in Frame \cup {NoFrame}
    /\ sent \in Frame
    /\ running \in BOOLEAN
    /\ asked \subseteq Directions

\* No frame goes beyond the setpoints, whatever the order of keys and timer.
WithinSetpoints ==
    \A a \in Axes :
        /\ sent.axes[a] <= Setpoint(a)
        /\ sent.axes[a] >= (IF isJoy THEN 0 ELSE -Setpoint(a))

\* Nothing is commanded without a finger on its key: what drives an axis, and
\* the command in force, have a key that is down; and the buttons are those of
\* the command in force, never left over from another one.
DeadMansHandle ==
    /\ \A d \in pressed : \E k \in down \cap MoveKeys : Direction(k) = d
    /\ heldCmd \in down \cup {None}
    /\ isJoy => buttons = heldCmd

\* SPACE and the E-stop stop everything: an axis that moves has been asked to,
\* in that direction, since the last of them.
MotionIsAsked ==
    \A a \in Axes :
        /\ speed[a] > 0 => Positive(a) \in asked
        /\ speed[a] < 0 => Negative(a) \in asked

\* From one frame to the next no axis gains more than a ramp step, whatever
\* was pressed, released or stopped in between.
NoLurch ==
    [][\A a \in Axes :
          Magnitude(sent'.axes[a]) <= Magnitude(sent.axes[a]) + Step(a)]_vars

\* Once the user lets go of everything the frames come to rest and stay neutral.
ComesToRest ==
    <>[](down = {} /\ running) => <>[](sent = [axes |-> AtRest, cmd |-> None])
=============================================================================
