---------------------------- MODULE KeyboardHandler ----------------------------
(***************************************************************************)
(* The reader thread of keyboard_handler.h: from what a keyboard says to   *)
(* PRESS, HOLD and RELEASE.  Its two loops are _runStdin, which reads      *)
(* bytes from the terminal and makes up the releases, and _runEvdev, which *)
(* passes on the kernel's events.  The user, the keyboard's repeating and  *)
(* the queues between them and the thread are part of the model; creation  *)
(* and destruction of the handler are in NodeLifecycle.                    *)
(*                                                                         *)
(* Time counts in ticks, and matters to the terminal only.  An instant is  *)
(* kept as its age: how many ticks ago it was, where AgeCap stands for     *)
(* that long or longer.  An iteration of the loop waits in poll() for      *)
(* PollTime at most and may lose MaxDelay ticks in the callback, in the    *)
(* waits for the rest of a sequence and in the scheduler.                  *)
(*                                                                         *)
(* Operators whose comment begins with (slip) are wrong variants of the    *)
(* definitions after them (see ControlSignalSink).                         *)
(***************************************************************************)
EXTENDS Integers, Sequences

CONSTANTS
    TermKeys,       \* the keys the user strikes on a terminal
    EvdevKeys,      \* and on a keyboard read through evdev
    PollTime,       \* kPollMs
    ReleaseAfter,   \* kReleaseAfter
    RepeatTime,     \* a held key that has begun to repeat does so this often
    MaxDelay,       \* what an iteration may lose
    MaxQueue        \* bound of the model: bytes or events in the queue

\* Known to the decoders, of the keys this model needs; the other three are not.
Known    == {"W", "A", "D", "ARROW_UP", "ARROW_LEFT"}
Controls == {"LEFTCTRL", "RIGHTCTRL"}

ASSUME KeysAssumption ==
    /\ TermKeys \subseteq Known \cup {"ESCAPE"}
    /\ EvdevKeys \subseteq Known \cup Controls \cup {"C"}

\* How late a stroke may be read: after this iteration of the loop, and as many
\* as the queue may hold strokes.
Lag == (MaxQueue + 1) * MaxDelay

\* A key that has begun to repeat is read again before it counts as released.  When
\* it begins is not assumed: keyboards wait for 250 ms to a second.
ASSUME TimeAssumption ==
    /\ {PollTime, ReleaseAfter, RepeatTime, MaxDelay, MaxQueue} \subseteq Nat \ {0}
    /\ ReleaseAfter > RepeatTime + Lag

None   == "UNKNOWN"
NoEvent == <<>>
AgeCap == ReleaseAfter + Lag + 2 * (PollTime + MaxDelay)
Ages   == 0..AgeCap

VARIABLES
    mode,        \* mode_
    faulty,      \* events may get lost, and keys were down before evdev was opened
    down,        \* the keys the user holds down
    repeating,   \* the one of them that repeats (on a terminal: has begun to)
    queue,       \* bytes or events the thread has not read
    cut,         \* the rest of a sequence of which a part is in the queue
    pc,          \* where the thread is in its loop
    spent,       \* ticks of this iteration of the loop
    got,         \* the bytes _readStdinKey has
    now,         \* local of _runStdin: age of now
    keyDown,     \* the keys k with state[k].down
    lastEvent,   \* age of state[k].lastEvent
    ctrlHeld,    \* local of _runEvdev
    told,        \* history: the keys whose last event was not RELEASE
    event,       \* history: the event of this step of the loop
    struck,      \* history: the keys that were struck
    strokeAge,   \* history: age of the last stroke of each key
    torn,        \* history: a sequence came in parts
    heard        \* history: the key that repeats has been read while it does

user     == <<down, repeating, struck, strokeAge, torn, cut>>
keyState == <<keyDown, lastEvent, ctrlHeld>>
listener == <<told, event, heard>>
vars == <<mode, faulty, user, queue, pc, spent, got, now, keyState, listener>>

-----------------------------------------------------------------------------
(* Decoding *)

\* The bytes of a stroke.
Bytes(k) ==
    CASE k = "ARROW_UP"   -> <<"ESC", "[", "A">>
      [] k = "ARROW_LEFT" -> <<"ESC", "[", "D">>
      [] k = "ESCAPE"     -> <<"ESC">>
      [] k = "W"          -> <<"w">>
      [] k = "A"          -> <<"a">>
      [] k = "D"          -> <<"d">>

\* Letters count in either case.
DecodeAscii(c) ==
    CASE c = "w"          -> "W"
      [] c \in {"a", "A"} -> "A"
      [] c \in {"d", "D"} -> "D"
      [] OTHER            -> None

DecodeArrow(c) ==
    CASE c = "A" -> "ARROW_UP" [] c = "D" -> "ARROW_LEFT" [] OTHER -> None

More == "more"

\* (slip) the sequence ends where its second byte has been looked at.
AfterTwoBytes(c) ==
    IF got = <<>> THEN IF c = "ESC" THEN More ELSE DecodeAscii(c) ELSE None

\* (slip) an arrow has a fourth byte.
AfterFourBytes(c) ==
    CASE got = <<>>      -> IF c = "ESC" THEN More ELSE DecodeAscii(c)
      [] Len(got) \in 1..2 -> More
      [] OTHER           -> DecodeArrow(got[3])

\* What _readStdinKey makes of a byte that follows those it got: more is
\* wanted, or this is the key, which may be UNKNOWN.
After(c) ==
    CASE got = <<>>           -> IF c = "ESC" THEN More ELSE DecodeAscii(c)
      [] got = <<"ESC">>      -> IF c = "[" THEN More ELSE None
      [] got = <<"ESC", "[">> -> DecodeArrow(c)

-----------------------------------------------------------------------------
(* Init: the thread starts; nothing is known to be down. *)

\* devicePath "stdin" or "tty", or none in an X11 session, means the terminal
\* if there is one; otherwise evdev, which may be missing as well.
InputMode(wanted, hasTty, hasEvdev) ==
    IF wanted = "terminal" /\ hasTty THEN "STDIN" ELSE IF hasEvdev THEN "EVDEV" ELSE "none"

UserKeys == IF mode = "STDIN" THEN TermKeys ELSE EvdevKeys

Init ==
    /\ \E wanted \in {"terminal", "evdev"}, hasTty, hasEvdev \in BOOLEAN :
          mode = InputMode(wanted, hasTty, hasEvdev)
    /\ mode # "none"                \* the constructor throws
    /\ faulty \in BOOLEAN /\ (mode = "STDIN" => ~faulty)
    /\ down \in SUBSET UserKeys /\ (~faulty => down = {})
    /\ repeating \in down \cup {None} 
    /\ queue = <<>> /\ cut = <<>>
    /\ pc = "poll" /\ spent = 0
    /\ got = <<>> /\ now = 0
    /\ keyDown = {} /\ lastEvent = [k \in Known |-> 0]
    /\ ctrlHeld = FALSE
    /\ told = {} /\ event = NoEvent /\ heard = FALSE
    /\ struck = down /\ strokeAge = [k \in TermKeys |-> 0]
    /\ torn = FALSE

Older(age) == IF age < AgeCap THEN age + 1 ELSE age

\* The thread is not held up beyond what the model allows, and a key that has
\* begun to repeat goes on in time.
Tick ==
    /\ mode = "STDIN"
    /\ spent < PollTime + MaxDelay
    /\ repeating # None => strokeAge[repeating] < RepeatTime
    /\ spent' = spent + 1
    /\ now' = IF pc \in {"read", "sweep"} THEN now + 1 ELSE 0
    /\ lastEvent' = [k \in Known |-> IF k \in keyDown THEN Older(lastEvent[k]) ELSE 0]
    /\ strokeAge' = [k \in TermKeys |-> IF k \in struck THEN Older(strokeAge[k]) ELSE 0]
    /\ UNCHANGED <<mode, faulty, down, repeating, struck, torn, cut, queue, pc, got, keyDown,
                   ctrlHeld, listener>>

-----------------------------------------------------------------------------
(* The user at the terminal, and what the terminal makes of it *)

\* poll() returns as soon as there is something to read.
Arrive(bytes) ==
    /\ queue' = queue \o bytes
    /\ spent' = IF pc = "poll" /\ spent < PollTime THEN PollTime ELSE spent

Struck(k) ==
    /\ struck' = struck \cup {k}
    /\ strokeAge' = [strokeAge EXCEPT ![k] = 0]

Strike(k) ==
    /\ ~torn
    /\ Len(queue) + Len(Bytes(k)) <= MaxQueue
    /\ Arrive(Bytes(k))
    /\ Struck(k)

\* A key goes down: the terminal knows of no other that is.
Press(k) ==
    /\ mode = "STDIN" /\ k \notin down
    /\ Strike(k)
    /\ down' = {k} /\ repeating' = None /\ heard' = FALSE
    /\ UNCHANGED <<mode, faulty, torn, cut, pc, got, now, keyState, told, event>>

\* The first repeat comes after the keyboard's delay, however long that is.
BeginRepeat(k) ==
    /\ mode = "STDIN" /\ repeating = None /\ k \in down
    /\ Strike(k)
    /\ repeating' = k
    /\ UNCHANGED <<mode, faulty, down, torn, cut, pc, got, now, keyState, listener>>

Repeat ==
    /\ mode = "STDIN" /\ repeating # None /\ strokeAge[repeating] > 0
    /\ Strike(repeating)
    /\ UNCHANGED <<mode, faulty, down, repeating, torn, cut, pc, got, now, keyState, listener>>

LetGo ==
    /\ mode = "STDIN" /\ down # {}
    /\ down' = {} /\ repeating' = None /\ heard' = FALSE
    /\ UNCHANGED <<mode, faulty, struck, strokeAge, torn, cut, queue, pc, spent, got, now, keyState,
                   told, event>>

\* Over a slow line a sequence comes in two parts.  (Bound of the model: the
\* user strikes nothing after that.)
PressTorn(k) ==
    /\ mode = "STDIN" /\ down = {} /\ ~torn
    /\ Len(queue) + Len(Bytes(k)) <= MaxQueue
    /\ \E n \in 1..(Len(Bytes(k)) - 1) :
          /\ Arrive(SubSeq(Bytes(k), 1, n))
          /\ cut' = SubSeq(Bytes(k), n + 1, Len(Bytes(k)))
    /\ Struck(k)
    /\ torn' = TRUE
    /\ UNCHANGED <<mode, faulty, down, repeating, pc, got, now, keyState, listener>>

RestArrives ==
    /\ cut # <<>>
    /\ Arrive(cut)
    /\ cut' = <<>>
    /\ UNCHANGED <<mode, faulty, down, repeating, struck, strokeAge, torn, pc, got, now, keyState,
                   listener>>

-----------------------------------------------------------------------------
(* The callback, and the rest of an iteration *)

Say(k, kind) ==
    /\ event' = <<k, kind>>
    /\ told' = CASE k = "CTRL_C"     -> told
                 [] kind = "RELEASE" -> told \ {k}
                 [] OTHER            -> told \cup {k}

Due(k) == k \in keyDown /\ lastEvent[k] - now >= ReleaseAfter

NextIteration ==
    /\ pc = "sweep" /\ \A k \in Known : ~Due(k)
    /\ pc' = "poll"
    /\ now' = 0
    /\ spent' = IF queue = <<>> THEN 0 ELSE PollTime
    /\ event' = NoEvent
    /\ UNCHANGED <<mode, faulty, user, queue, got, keyState, told, heard>>

-----------------------------------------------------------------------------
(* _runStdin *)

PollReturns ==
    /\ mode = "STDIN" /\ pc = "poll"
    /\ \/ queue # <<>> /\ pc' = "ready"
       \/ queue = <<>> /\ spent >= PollTime /\ pc' = "timedOut"
    /\ UNCHANGED <<mode, faulty, user, queue, spent, got, now, keyState, listener>>

SampleNow ==
    /\ pc \in {"ready", "timedOut"}
    /\ now' = 0
    /\ pc' = IF pc = "ready" THEN "read" ELSE "sweep"
    /\ UNCHANGED <<mode, faulty, user, queue, spent, got, keyState, listener>>

ReadByte(k) == /\ pc = "read" /\ queue # <<>> /\ After(Head(queue)) = k
               /\ queue' = Tail(queue)

ReadOn ==
    /\ ReadByte(More)
    /\ got' = Append(got, Head(queue))
    /\ UNCHANGED <<mode, faulty, user, pc, spent, now, keyState, listener>>

\* (slip) one time stamp for all keys.
RenewAll(k) == [x \in Known |-> IF x \in keyDown \cup {k} THEN now ELSE 0]

\* (slip) only a press is stamped.
RenewOnPress(k) == IF k \in keyDown THEN lastEvent ELSE [lastEvent EXCEPT ![k] = now]

\* now was sampled before the key was read.
Renew(k) == [lastEvent EXCEPT ![k] = now]

ReadKey(k) ==
    /\ ReadByte(k)
    /\ Say(k, IF k \in keyDown THEN "HOLD" ELSE "PRESS")
    /\ heard' = (heard \/ k = repeating)
    /\ keyDown' = keyDown \cup {k}
    /\ lastEvent' = Renew(k)
    /\ got' = <<>> /\ pc' = "sweep"
    /\ UNCHANGED <<mode, faulty, user, spent, now, ctrlHeld>>

\* A byte that belongs nowhere, or a sequence that does not go on within 5 ms.
ReadNothing ==
    /\ \/ ReadByte(None)
       \/ pc = "read" /\ queue = <<>> /\ UNCHANGED queue
    /\ got' = <<>> /\ pc' = "sweep"
    /\ UNCHANGED <<mode, faulty, user, spent, now, keyState, listener>>

\* (slip) ks.down is left set.
ReleaseStaysDown(k) ==
    /\ pc = "sweep" /\ Due(k)
    /\ lastEvent' = [lastEvent EXCEPT ![k] = now]
    /\ Say(k, "RELEASE")
    /\ UNCHANGED <<mode, faulty, user, queue, pc, spent, got, now, keyDown, ctrlHeld, heard>>

Release(k) ==
    /\ pc = "sweep" /\ Due(k)
    /\ keyDown' = keyDown \ {k}
    /\ lastEvent' = [lastEvent EXCEPT ![k] = 0]
    /\ Say(k, "RELEASE")
    /\ UNCHANGED <<mode, faulty, user, queue, pc, spent, got, now, ctrlHeld, heard>>

-----------------------------------------------------------------------------
(* The keyboard under evdev, and _runEvdev *)

\* Release, press and repeat as the kernel numbers them.
Values == {0, 1, 2}

KernelEvent(k, value) ==
    /\ mode = "EVDEV" /\ Len(queue) < MaxQueue
    /\ \/ value = 1 /\ k \notin down /\ down' = down \cup {k} /\ repeating' = k
       \/ value = 2 /\ k = repeating /\ UNCHANGED <<down, repeating>>
       \/ /\ value = 0 /\ k \in down /\ down' = down \ {k}
          /\ repeating' = IF repeating = k THEN None ELSE repeating
    /\ \/ queue' = Append(queue, <<k, value>>)
       \/ faulty /\ UNCHANGED queue
    /\ struck' = struck \cup {k}
    /\ UNCHANGED <<mode, faulty, strokeAge, torn, cut, pc, spent, got, now, keyState, listener>>

\* (slip) while Ctrl is held nothing else is looked at.
EventKeyUnlessCtrl(k) == IF ctrlHeld \/ k \notin Known THEN None ELSE k

\* _decode
EventKey(k) == IF k \in Known THEN k ELSE None

ReadEvent ==
    /\ mode = "EVDEV" /\ pc = "poll" /\ queue # <<>>
    /\ queue' = Tail(queue)
    /\ pc' = "sweep"
    /\ LET k == Head(queue)[1]  value == Head(queue)[2] IN
       /\ ctrlHeld' = IF k \in Controls THEN value # 0 ELSE ctrlHeld
       /\ IF k = "C" /\ ctrlHeld /\ value = 1
          THEN Say("CTRL_C", "PRESS")
          ELSE IF EventKey(k) # None
          THEN Say(k, CASE value = 0 -> "RELEASE" [] value = 1 -> "PRESS" [] value = 2 -> "HOLD")
          ELSE UNCHANGED <<told, event>>
    /\ UNCHANGED <<mode, faulty, user, spent, got, now, keyDown, lastEvent, heard>>

-----------------------------------------------------------------------------
Next ==
    \/ Tick
    \/ \E k \in TermKeys : Press(k) \/ BeginRepeat(k) \/ PressTorn(k)
    \/ Repeat \/ LetGo \/ RestArrives
    \/ PollReturns \/ SampleNow \/ ReadOn \/ ReadNothing \/ NextIteration
    \/ \E k \in Known : ReadKey(k) \/ Release(k)
    \/ \E k \in EvdevKeys, value \in Values : KernelEvent(k, value)
    \/ ReadEvent

Spec == Init /\ [][Next]_vars

-----------------------------------------------------------------------------
(* Properties *)

\* Types.
TypeOK ==
    /\ mode \in {"STDIN", "EVDEV"} /\ faulty \in BOOLEAN
    /\ down \subseteq UserKeys /\ repeating \in down \cup {None}
    /\ Len(queue) <= MaxQueue
    /\ pc \in {"poll", "ready", "timedOut", "read", "sweep"}
    /\ spent \in 0..(PollTime + MaxDelay)
    /\ got \in {<<>>, <<"ESC">>, <<"ESC", "[">>}
    /\ now \in Ages
    /\ keyDown \subseteq Known /\ lastEvent \in [Known -> Ages]
    /\ ctrlHeld \in BOOLEAN /\ torn \in BOOLEAN /\ heard \in BOOLEAN
    /\ told \subseteq Known
    /\ event \in ((Known \cup {"CTRL_C"}) \X {"PRESS", "HOLD", "RELEASE"}) \cup {NoEvent}
    /\ struck \subseteq UserKeys /\ strokeAge \in [TermKeys -> Ages]

\* The listener's view, unless events got lost, in which case nothing is said.
Abstract == INSTANCE KeyEvents WITH
    Keys <- Known,
    pressed <- IF faulty THEN {} ELSE told,
    event <- IF faulty THEN NoEvent ELSE event

\* Each key goes through PRESS, HOLD..., RELEASE and over again, although the
\* terminal gives strokes only and the thread makes up the rest.
AlternatingEvents == Abstract!Spec

\* On a terminal a key the user no longer strikes is released in time, however
\* busy the other keys keep the thread: the robot's dead man's handle.  The last
\* stroke may be read late, and an iteration of the loop may find the key not
\* yet due, lose time after that, and be followed by one that waits.
ReleasedInTime ==
    mode = "STDIN" /\ ~torn =>
        \A k \in told \cap TermKeys :
            strokeAge[k] < ReleaseAfter + Lag + PollTime + 2 * MaxDelay

\* A held key on a terminal, once it has begun to repeat and has been read, is never
\* taken as released until the user lets go, however late the thread reads and
\* whatever else is in the queue.  A keyboard whose first repeat comes more than
\* ReleaseAfter after the press does get a RELEASE and another PRESS before that
\* (README, section 6).
RepeatingKeyStaysPressed ==
    [][\A k \in told \ told' : mode = "STDIN" => ~(heard /\ k = repeating)]_vars

\* Only keys that were struck have events: bytes of a sequence are not taken
\* for letters as long as it arrives in one piece.
OnlyStruckKeys == ~torn => told \subseteq struck

\* Under evdev the listener's view is the keyboard's, up to the events still in
\* the queue, and Ctrl counts as held only while one of the two keys is.
FirstOf(i) == \A j \in 1..(i - 1) : queue[j][1] # queue[i][1]
Silent(k)  == \A i \in 1..Len(queue) : queue[i][1] # k
ViewFollowsKeys ==
    mode = "EVDEV" /\ ~faulty =>
        /\ \A k \in EvdevKeys \cap Known : Silent(k) => (k \in told <=> k \in down)
        /\ \A i \in 1..Len(queue) :
              queue[i][1] \in Known /\ FirstOf(i) => (queue[i][1] \in told <=> queue[i][2] # 1)
        /\ ctrlHeld => \E k \in Controls \cap EvdevKeys : k \in down \/ ~Silent(k)
=============================================================================
