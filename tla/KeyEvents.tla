------------------------------- MODULE KeyEvents -------------------------------
(***************************************************************************)
(* What the listener of a KeyboardHandler may count on, by the description *)
(* of KeyEvent in keyboard_handler.h: a key that is up is PRESSed, one     *)
(* that is pressed is HELD any number of times, and then RELEASEd.  Ctrl-C *)
(* is only ever pressed.                                                   *)
(***************************************************************************)
CONSTANT Keys

VARIABLES
    pressed,    \* the keys whose last event is not RELEASE
    event       \* the event, if there is one: <<key, kind>>

vars == <<pressed, event>>

Init == pressed = {} /\ event = <<>>

Say(k, kind) == event' = <<k, kind>>

Press(k)   == k \in Keys \ pressed /\ pressed' = pressed \cup {k} /\ Say(k, "PRESS")
Hold(k)    == k \in pressed /\ Say(k, "HOLD") /\ UNCHANGED pressed
Release(k) == k \in pressed /\ pressed' = pressed \ {k} /\ Say(k, "RELEASE")
Quit       == Say("CTRL_C", "PRESS") /\ UNCHANGED pressed

NoEvent    == event' = <<>> /\ UNCHANGED pressed

Next == Quit \/ NoEvent \/ \E k \in Keys : Press(k) \/ Hold(k) \/ Release(k)

Spec == Init /\ [][Next]_vars
=============================================================================
