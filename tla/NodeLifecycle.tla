----------------------------- MODULE NodeLifecycle -----------------------------
(***************************************************************************)
(* KeyboardSourceNode from its constructor to its destructor: the one-shot *)
(* timer, the init thread that registers the source and creates the send   *)
(* timer and the KeyboardHandler, the handler's thread, Ctrl-C, and the    *)
(* destructor, which begins when the executor's threads have returned from *)
(* spin() but the init thread and the handler's may still run.             *)
(*                                                                         *)
(* keyboard_ is a plain unique_ptr.  The init thread assigns it and the    *)
(* destructor resets it, with nothing between them: where the two meet it  *)
(* is a data race, modelled as the order of their loads and stores.  What  *)
(* the keys do is in KeyboardNode, how they are read in KeyboardHandler.   *)
(*                                                                         *)
(* Operators whose comment begins with (slip) are wrong variants of the    *)
(* definitions after them (see ControlSignalSink).                         *)
(***************************************************************************)
EXTENDS Naturals

VARIABLES
    input,       \* what the handler's constructor will find to read
    ok,          \* rclcpp::ok()
    phase,       \* of the process and its main thread
    initThread,  \* where initThread_ is
    reader,      \* where the handler's thread is
    running,     \* the handler's running_
    keyboard,    \* keyboard_ holds the handler
    oldKeyboard, \* local of the destructor's reset(): what it loaded
    sendTimer,   \* sendTimer_: not created, waiting or in its callback
    stateMtx,    \* who has stateMtx_
    saved,       \* origTermios_, if savedTermios_
    terminal,    \* the terminal's settings
    raced        \* history: keyboard_ was assigned between reset()'s load and store

handlerVars == <<reader, running, saved, terminal>>
pointerVars == <<keyboard, oldKeyboard, raced>>
sendVars    == <<sendTimer, stateMtx>>
vars == <<input, ok, phase, initThread, handlerVars, pointerVars, sendVars>>

Phases == {"spin", "reset", "resetStore", "resetJoin", "joinInit", "members", "membersJoin",
           "destroyed", "aborted"}

\* Nothing of the process happens any more.
Ended == phase = "aborted"

-----------------------------------------------------------------------------
(* The constructor leaves the init timer running. *)
Init ==
    /\ input \in {"terminal", "evdev", "none"}
    /\ ok = TRUE
    /\ phase = "spin"
    /\ initThread = "none"
    /\ reader = "none" /\ running = FALSE
    /\ saved = "none" /\ terminal = "cooked"
    /\ keyboard = FALSE /\ oldKeyboard = FALSE /\ raced = FALSE
    /\ sendTimer = "none" /\ stateMtx = "free"

\* The one-shot timer.
InitTimer ==
    /\ phase = "spin" /\ initThread = "none"
    /\ initThread' = "register"
    /\ UNCHANGED <<input, ok, phase, handlerVars, pointerVars, sendVars>>

-----------------------------------------------------------------------------
(* _init, on its thread.  A process that has aborted has none. *)

InitAt(place) == ~Ended /\ initThread = place

InitGoto(place) == initThread' = place /\ UNCHANGED <<input, ok>>

\* registerSource returns, at the latest when its time limits are over.
Register ==
    /\ InitAt("register")
    /\ \E success \in BOOLEAN : InitGoto(IF success THEN "timer" ELSE "end")
    /\ UNCHANGED <<phase, handlerVars, pointerVars, sendVars>>

\* After rclcpp's shutdown the timer may be refused: nobody catches that.
CreateSendTimer ==
    /\ InitAt("timer")
    /\ \/ InitGoto("construct") /\ sendTimer' = "waiting" /\ UNCHANGED phase
       \/ ~ok /\ phase' = "aborted" /\ InitGoto("end") /\ UNCHANGED sendTimer
    /\ UNCHANGED <<handlerVars, pointerVars, stateMtx>>

\* KeyboardHandler(): nothing to read from is an exception nobody catches.
ConstructHandler ==
    /\ InitAt("construct")
    /\ IF input = "none"
       THEN phase' = "aborted" /\ InitGoto("end") /\ UNCHANGED handlerVars
       ELSE /\ InitGoto("assign")
            /\ reader' = "loop" /\ running' = TRUE
            /\ saved' = IF input = "terminal" THEN terminal ELSE "none"
            /\ terminal' = IF input = "terminal" THEN "raw" ELSE terminal
            /\ UNCHANGED phase
    /\ UNCHANGED <<pointerVars, sendVars>>

\* keyboard_ = make_unique...
AssignKeyboard ==
    /\ InitAt("assign")
    /\ keyboard' = TRUE
    /\ raced' = (phase = "resetStore")
    /\ InitGoto("end")
    /\ UNCHANGED <<phase, handlerVars, oldKeyboard, sendVars>>

-----------------------------------------------------------------------------
(* The handler's thread, whose keys go to _onKey *)

ReaderAt(place) == ~Ended /\ reader = place

ReaderGoto(place) ==
    /\ reader' = place
    /\ UNCHANGED <<input, phase, initThread, running, saved, terminal, pointerVars, sendVars>>

\* The condition of the loop.
LookAtRunning ==
    /\ ReaderAt("loop")
    /\ ReaderGoto(IF running THEN "poll" ELSE "end")
    /\ UNCHANGED ok

Key ==
    /\ ReaderAt("poll")
    /\ ReaderGoto("onKey")
    /\ UNCHANGED ok

\* (slip) poll() without a time limit.
PollForEver == ReaderAt("poll") /\ FALSE /\ ReaderGoto("loop") /\ UNCHANGED ok

PollTimesOut ==
    /\ ReaderAt("poll")
    /\ ReaderGoto("loop")
    /\ UNCHANGED ok

\* _onKey: under stateMtx_ Ctrl-C shuts rclcpp down.
OnKey ==
    /\ ReaderAt("onKey") /\ stateMtx = "free"
    /\ ReaderGoto("loop")
    /\ ok' \in {ok, FALSE}

ReaderSteps == LookAtRunning \/ PollTimesOut \/ OnKey

-----------------------------------------------------------------------------
(* The send timer, on the executor: spin() begins no callback after shutdown. *)

SendTimer ==
    /\ phase = "spin"
    /\ \/ ok /\ sendTimer = "waiting" /\ stateMtx = "free"
          /\ sendTimer' = "inCallback" /\ stateMtx' = "sendTimer"
       \/ sendTimer = "inCallback" /\ sendTimer' = "waiting" /\ stateMtx' = "free"
    /\ UNCHANGED <<input, ok, phase, initThread, handlerVars, pointerVars>>

-----------------------------------------------------------------------------
(* Shutdown *)

\* SIGINT, which the terminal sends for Ctrl-C.
Interrupt ==
    /\ phase = "spin" /\ ok' = FALSE
    /\ UNCHANGED <<input, phase, initThread, handlerVars, pointerVars, sendVars>>

\* spin() returns: no callback runs any more.
SpinReturns ==
    /\ phase = "spin" /\ ~ok /\ sendTimer # "inCallback"
    /\ phase' = "reset"
    /\ UNCHANGED <<input, ok, initThread, handlerVars, pointerVars, sendVars>>

\* keyboard_.reset() in the destructor: the load...
ResetLoads ==
    /\ phase = "reset"
    /\ oldKeyboard' = keyboard
    /\ phase' = "resetStore"
    /\ UNCHANGED <<input, ok, initThread, handlerVars, keyboard, raced, sendVars>>

\* ...the store, and the deletion of what was loaded.
ResetStores ==
    /\ phase = "resetStore"
    /\ keyboard' = FALSE
    /\ IF oldKeyboard THEN phase' = "resetJoin" /\ running' = FALSE
                      ELSE phase' = "joinInit" /\ UNCHANGED running
    /\ UNCHANGED <<input, ok, initThread, reader, saved, terminal, oldKeyboard, raced, sendVars>>

\* (slip) without a look at savedTermios_.
RestoreAlways == terminal' = saved

Restore == terminal' = IF saved # "none" THEN saved ELSE terminal

\* ~KeyboardHandler: the thread is joined, then the terminal restored.
HandlerDeleted(at, next) ==
    /\ phase = at /\ reader = "end"
    /\ Restore
    /\ phase' = next
    /\ UNCHANGED <<input, ok, initThread, reader, running, saved, pointerVars, sendVars>>

\* (slip) the thread is left to itself.
DetachInit ==
    /\ phase = "joinInit"
    /\ phase' = "members"
    /\ UNCHANGED <<input, ok, initThread, handlerVars, pointerVars, sendVars>>

JoinInit ==
    /\ phase = "joinInit" /\ initThread \in {"none", "end"}
    /\ phase' = "members"
    /\ UNCHANGED <<input, ok, initThread, handlerVars, pointerVars, sendVars>>

\* The members, last to first: a handler that came after the reset goes now,
\* before everything that its thread uses.
DestroyMembers ==
    /\ phase = "members"
    /\ IF keyboard THEN phase' = "membersJoin" /\ running' = FALSE
                   ELSE phase' = "destroyed" /\ UNCHANGED running
    /\ keyboard' = FALSE
    /\ UNCHANGED <<input, ok, initThread, reader, saved, terminal, oldKeyboard, raced, sendVars>>

Destructor ==
    \/ ResetLoads \/ ResetStores \/ JoinInit \/ DestroyMembers
    \/ HandlerDeleted("resetJoin", "joinInit") \/ HandlerDeleted("membersJoin", "destroyed")

InitSteps == Register \/ CreateSendTimer \/ ConstructHandler \/ AssignKeyboard

\* The process has ended, or does so.
Over == phase \in {"destroyed", "aborted"} /\ UNCHANGED vars

Next ==
    \/ InitTimer \/ InitSteps
    \/ Key \/ ReaderSteps
    \/ SendTimer
    \/ Interrupt \/ SpinReturns \/ Destructor
    \/ Over

Spec == Init /\ [][Next]_vars

\* Threads run on: registerSource is limited in time, and so are the loop of the
\* reader and a callback of the send timer.  Keys need not be struck.
FairSpec ==
    /\ Spec
    /\ WF_vars(InitSteps) /\ WF_vars(ReaderSteps)
    /\ WF_vars(SendTimer) /\ WF_vars(SpinReturns) /\ WF_vars(Destructor)

-----------------------------------------------------------------------------
(* Properties *)

\* Types.
TypeOK ==
    /\ input \in {"terminal", "evdev", "none"} /\ ok \in BOOLEAN
    /\ phase \in Phases
    /\ initThread \in {"none", "register", "timer", "construct", "assign", "end"}
    /\ reader \in {"none", "loop", "poll", "onKey", "end"}
    /\ running \in BOOLEAN /\ keyboard \in BOOLEAN
    /\ oldKeyboard \in BOOLEAN /\ raced \in BOOLEAN
    /\ sendTimer \in {"none", "waiting", "inCallback"} /\ stateMtx \in {"free", "sendTimer"}
    /\ saved \in {"none", "cooked"} /\ terminal \in {"cooked", "raw"}

\* When the node is gone no thread of its runs, and its process leaves the
\* terminal as it found it, wherever in the start-up Ctrl-C came -- unless the
\* handler was lost between the load and the store of the reset.
NothingLeftBehind ==
    /\ phase = "destroyed" /\ ~raced
          => reader \in {"none", "end"} /\ initThread \in {"none", "end"}
    /\ phase \in {"destroyed", "aborted"} /\ ~raced => terminal = "cooked"

\* Ctrl-C, from the keyboard or as a signal, ends the process: neither the
\* registration under way, nor a terminal on which nobody strikes a key, nor
\* the send timer keeps the destructor from returning.
ShutdownCompletes == ~ok ~> phase \in {"destroyed", "aborted"}
=============================================================================
