# A formal model of rv2_control_signal_transport

TLA+ modules, TLC configurations and TLAPS proofs for the control signal
transport: typed one-way channels between ROS 2 nodes (a *source* that sends, a
*sink* that receives), the manager that sets them up and clears them away, and
the keyboard node that is their first user. The models are written from the C++
under `src/`; file names below are relative to
`src/include/rv2_control_signal_transport/` (headers) and `src/src/` (sources).

Contents: [inventory](#1-inventory), [modules](#2-the-modules),
[runs](#3-the-runs), [fairness](#4-fairness), [proofs](#5-the-proofs),
[disagreements](#6-disagreements-between-code-and-comments),
[not modelled](#7-what-is-not-modelled), [plan](#8-plan).

## 1. Inventory

### ControlSignalSink (`control_signal_transport.h`)

- **State**: `state_` (UNKNOWN, ACTIVE, LOW_FREQ, TIMEOUT, DISCONNECTED) and
  `lastActivityNs_`, both relaxed atomics; `latestMsg_` under `msgMtx_`; `msgCb_`
  under `cbMtx_`.
- **Operations**: `_store` (from the subscription or the service), `read`,
  `getState`, `_checkTimeout` (before every query and in the keep-alive timer),
  `markDisconnected` (from the manager), `setMsgCallback`.
- **Hard**: the check loads three values and stores one, each step on its own; a
  reception, another check and `markDisconnected` come in between. Callbacks run
  on a raw `this`.
- **Correct when**: a true `read()` is fresh and is the latest message; a sink is
  not ACTIVE before its first message; the documented life cycle is followed;
  nothing but a message brings back a sink that was marked DISCONNECTED; nothing runs
  in a destroyed sink.

### ControlSignalSource (`control_signal_transport.h`)

- **State**: `state_`, `lastActivityNs_`, a publisher or a client, a keep-alive
  subscription or timer.
- **Operations**: `send` (publish, or call and wait), `_markActivity`,
  `_checkTimeout`, `markDisconnected`.
- **Hard**: `send()` writes TIMEOUT and ACTIVE by the result of a call, heartbeats
  and the age of the last one write them too; a call that times out leaves its
  request with the client; `cmdSuccess` is not always assigned.
- **Correct when**: what `send()` returns belongs to this request; the state
  reflects the last sign of life.

### ControlSignalManager (`control_signal_manager.h`)

- **State**: `sources_` and `sinks_`, each with a mutex; the maps
  `sourceTimeoutSinceNs_` and `sinkTimeoutSinceNs_` of the status timer;
  `typedCbs_` under `cbMtx_`.
- **Operations**: `registerSource` (request to the target's `_onReg`, two waits
  with a time limit), `_onReg`, `_statusTimerCb`, `setSinkMsgCallback` with
  `_applyCbToSink`, and queries (`getSink`, `getSinkState`, `getSource`, lists,
  `_onInfoReq`).
- **Hard**: the search for a duplicate and the insertion are in different critical
  sections with a network exchange between them; a late reply; a caller that is
  itself the executor; processes that die; sampling of states at some period;
  three nested mutexes and callbacks that call back.
- **Correct when**: a source exists only with its target's consent and no two
  count on one sink; every call returns; a silent peer is removed in time and a
  live one is not; every sink has the callback its type was given.

### ControlSignalFactory (`control_signal_factory.h`, `control_signal_factory.cpp`, `control_signal_types.cpp`)

- **State**: `registry_` from a type's name to its creators, `reverseRegistry_` from a
  message type to a name; filled before `main()` by static objects, and again when a
  component's library is loaded into a running process.
- **Operations**: `Register`, `CreateSource`, `CreateSink`, `typeKey`.
- **Hard**: `Register` overwrites silently, in both maps; nothing is locked.
- **Correct when**: `typeKey` names a creator of that message type, and a process
  accepts exactly what it has registered.

### KeyboardSourceNode (`keyboard_source_node.cpp`)

- **State**, under `stateMtx_`: which directions are pressed, the ramped axes, the
  command in force with its button values. Beside it `keyboard_`, a plain
  `unique_ptr`, `sendTimer_` and `initThread_`.
- **Operations**: `_onKey` (Joy and Twist handlers) on the keyboard's thread,
  `_sendTimerCb` on the executor; a one-shot timer that starts the init thread, which
  registers the source once and then makes the send timer and the handler; the
  destructor.
- **Hard**: keys overlap in any order and come between the composition of a frame
  and its sending; stops; Ctrl-C at any moment of the start-up, while the init
  thread may be about to assign what the destructor resets.
- **Correct when**: nothing is commanded without a key that is down; stops stop;
  the ramp is bounded and gentle; letting go brings the robot to rest; the node
  ends, with its threads joined and the terminal as it was.

### KeyboardHandler (`keyboard_handler.h`)

- **State**: a reader thread with `running_`, the file descriptor, the saved settings
  of the terminal; in terminal mode, for each key, whether it counts as down and when
  it was last read.
- **Operations**: the constructor (choice of the input), `_runEvdev`, `_runStdin`
  with `_readStdinKey`, the destructor.
- **Hard**: a terminal sends strokes only, so a release is 400 ms without a repeat;
  escape sequences arrive in pieces; an evdev queue may lose events; the thread is
  stopped by a flag that it sees when `poll()` comes to its time limit.
- **Correct when**: PRESS, HOLD and RELEASE of a key come in that order, a release
  in time, for keys that were struck, and the thread ends.

### How they interact

`registerSource` on one manager is a service call to `_onReg` on another, which
creates a sink with its factory; the caller creates the source after the reply.
Messages and heartbeats then flow between source and sink without the managers.
Each manager's status timer looks at its own objects only. All callbacks of a node
are in the default mutually exclusive callback group, so with one spinning thread
(`exec` in the models) one of them runs at a time; application threads and the
keyboard's threads are beside it.

## 2. The modules

| module | models | from |
|---|---|---|
| `ControlSignalSink` | one sink, each atomic access a step, any threads | `control_signal_transport.h`, `control_signal_manager.h` |
| `SinkLifecycle` | abstract: the life cycle a sink's user is promised | the `ControlSignalState` enum and its comments |
| `ControlSignalSource` | one source: `send()` against heartbeats, checks and removal | `control_signal_transport.h`, `control_signal_manager.h` |
| `StatusTimer` | `_statusTimerCb` and what changes between two runs of it | `control_signal_manager.h` |
| `Registration` | `registerSource` against `_onReg` over a network | `control_signal_manager.h` |
| `ControlSignalFactory` | the two maps, as values | `control_signal_factory.h`, `.cpp`, `control_signal_types.cpp` |
| `SinkCallbacks` | `setSinkMsgCallback` against `_onReg`, receptions, removals | `control_signal_manager.h`, `control_signal_transport.h` |
| `ControlSystem` | composition: nodes and a target, by whole operations | both, `_onReg` to `_statusTimerCb` |
| `KeyboardHandler` | both reader loops, the decoder, the user and the keyboard | `keyboard_handler.h` |
| `KeyEvents` | abstract: what a listener of the handler may count on | the `KeyEvent` enum and its comments |
| `KeyboardNode` | keys, ramp and frames of the keyboard node | `keyboard_source_node.cpp` |
| `NodeLifecycle` | the node from constructor to destructor, with all its threads | `keyboard_source_node.cpp`, `keyboard_handler.h` |
| `MC...` | values for the constants of the runs | |
| `...Proofs` | theorems and their proofs | |

Who builds on whom: `MCRegistration` takes what each process knows from
`ControlSignalFactory`; `Registration` and `SinkCallbacks` let entries vanish whenever
`StatusTimer` could remove them; `KeyboardHandler` shows the alternation of events that
`KeyboardNode` takes for granted; `ControlSystem` puts one step where `Registration`,
`StatusTimer`, `ControlSignalSource` and `ControlSignalSink` have many.

An operator whose comment begins with **(slip)** is a wrong variant of the
definition after it, of the kind a change to the code could introduce. No model
uses it. Put in the place of the right definition it makes a property fail: that
shows the property depends on what the definition says.

### ControlSignalSink

`pc` says where a thread is in the code, `op` in which function. `Begin`, the three
loads (`LoadCur`, `SampleClock`, `LoadActivity`, in any order, because relaxed loads
and the clock are not ordered) and `Judge` are `_checkTimeout`; `CopyLatest` and
`LoadResult` the rest of `read()` and `getState()`; `StoreMessage`, `SampleStamp` and
the two stores in either order are `_store`; `SweepDecides` and `MarkDisconnected`
are the timer's visit. Each atomic has one modification order and each thread its
own coherent view; the model gives a step's load the newest value, so a value older
than that is seen only through an early load. Loads that return older values for
longer are a matter of the hardware's store buffers, bounded in time far below
the timeouts in question.

`sinkMtx_` and `msgMtx_` are expressed by who is where (`SinkMtxFree`, `MsgMtxFree`).
`held` are the shared pointers `getSink()` handed out, `escaped` whether it ever has. `began`, `acceptedAt`, `escaped` and `late` (the call found the sink marked
already when it began) are history: no action reads them.

Whether TIMEOUT has lasted long enough for the removal is left open here and
decided in `StatusTimer`.

### StatusTimer

Everything is measured in ages, so no clock runs away. `tracked` is the domain of
the two `...TimeoutSinceNs_` maps and `since` the age of what they hold. `Sweep` is a
whole run of the timer; `landing` are the stores of concurrent checks of an
application that come between a visit's check and its load. Visits of one run
are a step because each entry is visited once and entries do not influence each
other. `now` is sampled once, before the visits (`:392`); what happens to an entry between that
sample and its visit is put before the sample. The executor may be late: two runs are at most `MaxGap` apart.

### Registration

Requests and replies travel, are delivered in any order or never, and die with
the process they are meant for. `ExecFree` is the executor of a manager when none of its
own callbacks is stuck in `registerSource`. A source and a sink remember the call
that made them, so that properties can tell which belongs to which. `OnReg` is one step although its look-up and its insertion
take the lock twice: both run in the mutually exclusive callback group, and nothing but the
status timer, which is in it too, removes. `RemoveSource`
and `RemoveSink` let the status timer remove anything at any time, which includes
everything `StatusTimer` allows. `rv2_interfaces` is not part of the repository;
`registerSource` refuses what does not validate, so what arrives is taken as valid.

### SinkCallbacks

`sinkMtx` is a variable because it is held across the loop over the sinks. The other
two mutexes guard single accesses. The callback of a message runs on the
executor after `_store` has let go of `cbMtx_`, and may itself call
`setSinkMsgCallback`. Types are kept apart: the erased callback is cast back
without a check, so a callback on a sink of another type would be undefined.

### ControlSignalSource

The threads and the steps of `_checkTimeout` are those of `ControlSignalSink`; a query
that loads DISCONNECTED stops there (`LoadEnd`). `isTopicMode` and `useKeepAlive` are chosen
at the start. `send()` is `Publish`, `NotReady`, or `SendRequest`, a wait that ends with the response or
at any moment without (`WaitReturns`), and the stores of what it came to. The client completes
a future only for the request it belongs to: that is rclcpp's, and marked external
(`Completes`). The executor takes responses in between callbacks, so a call from a callback never gets
its own. `Clear` is the caller's `cmdSuccess = false`, as the keyboard node has it.
A caller keeps the `shared_ptr` it got from `getSource()` for the call.

### KeyboardHandler

The user, the terminal line and the kernel's queue are part of the model, and external.
`pc` is where the thread is in its loop: at `poll()`, about to sample the clock, in
`_readStdinKey`, in the sweep that makes up releases. Time counts in ticks; every instant is
kept as its age, and an iteration may lose `MaxDelay` ticks besides its
`poll()`. Bytes of a sequence may arrive torn, after which the user of the model strikes
nothing. A held key begins to repeat after any delay, also one beyond `ReleaseAfter`, and from then on
repeats within `RepeatTime`. Under evdev events may get lost (`faulty`), and keys may be down when the
device is opened. `After` is the decoder: what a byte makes of those that came before it.

### KeyboardNode

`isJoy` is chosen at the start; every table of keys and axes depends on it. The
events are all that `KeyEvents` allows: a key is down from PRESS to RELEASE, and
may be HELD in between, also when another was pressed after it. `Compose` is the part of the send timer under the mutex, `Send` the
rest: keys can come between them. Speeds are integers in an arbitrary unit, since
nothing here depends on rounding.

### NodeLifecycle

`phase` is where the main thread is: `spin()`, then the destructor's `reset()` of `keyboard_`
in its load and its store, the join of the handler's thread, the join of the
init thread, and the members. The assignment of `keyboard_` on the init thread has no order with
`reset()`: the data race is modelled as the order of its accesses, and `raced` remembers that
the assignment fell between load and store. An exception on the init thread ends
the process (`aborted`).

### ControlSystem

A channel of topic mode with keep-alive, some nodes and one target. Messages and heartbeats go
by the channel's name, so every source drives whatever sink is there. Time
is left out; a timeout may come when what it waits for does not. Lost messages, crashes,
pauses and calls given up too early cost a fault each, of which there are `MaxFaults`.

## 3. The runs

A run that passes explores every state of its instance.

| run | states | checks | expects |
|---|---|---|---|
| `SinkShared` | 1.8 million | `TypeOK`, `NeverActiveWithoutMessage`, `TrueReadReturnsLatest`, `TrueReadIsFresh`, `NoUseAfterDestruction`, `OnlyMessagesRevive` | holds |
| `SinkLifecycleExec` | 11 thousand | `LifecycleSpec` (refinement) | holds |
| `SourceShared` | 1.1 million | `TypeOK`, `CommandWasAccepted`, `StateIsLatestCalls`, `LivelyStateIsRecent`, `SendReturns` | holds |
| `TimerMixed` | 185 thousand | `TypeOK`, `TrackedIsRegistered`, `RemovedInTime`, `SteadyRemovedAfterSilence` | holds |
| `RegMixed` | 112 thousand | `TypeOK`, `SourceWasAccepted`, `SourceHasItsSink`, `CallReturns`, `DuplicateRejected` | holds |
| `CbTwoTypes` | 94 thousand | `TypeOK`, `SinksUpToDate`, `SetReturns` | holds |
| `ChannelHeals` | 4.9 thousand | `ChannelIsServed` | holds |
| `KeyReading` | 1.9 million | `TypeOK`, `ReleasedInTime`, `OnlyStruckKeys`, `ViewFollowsKeys`, `AlternatingEvents` (refinement), `RepeatingKeyStaysPressed` | holds |
| `KeyDriving` | 468 thousand | `TypeOK`, `WithinSetpoints`, `DeadMansHandle`, `MotionIsAsked`, `NoLurch`, `ComesToRest` | holds |
| `NodeLife` | 238 | `TypeOK`, `NothingLeftBehind`, `ShutdownCompletes` | holds |
| `RegRace` | | `DuplicateRejected` | violated |
| `KeyEscape` | | `OnlyStruckKeys` | violated |

### What they show, and why the bounds are enough

- **SinkShared**: one application thread besides the executor. Two threads are
  enough for every pair of functions to overlap; the proofs cover more. Timeout
  2 and a clock to 3 put ages at zero, at half a timeout, at a timeout and beyond
  it, so all states are reached and a sink can expire and be removed within the
  clock. One message is enough for the properties, which tell a message from none
  and an old copy from a new one; the proofs cover any messages. A read that
  returns true had a reception at most half a timeout before the call began. While
  `getSink()` has handed nothing out, no function is inside the sink when it is destroyed. When it has,
  a removed sink is marked and lives on: only the store of a message, or a check that had begun before
  the mark, takes the mark away.
- **SinkLifecycleExec**: the executor alone, with `getSinkState()`, keep-alive and
  removal; clock to 5. The mapping counts a reception from the moment `_store`
  has sampled the clock, although its stores are still to come.
- **SourceShared**: one application thread and the executor, by topic and by service, with
  heartbeats and without. Without them the application calls twice and a callback once: the late response
  of a first call meets a second. Interval 1 and a clock to 3 put ages on both sides
  of the threshold of two intervals, so a source can expire and be removed.
- **TimerMixed**: three entries, so every kind of influence is there: a sink nobody
  looks at, a sink an application checks concurrently, a source with heartbeats
  and failing calls. The cap on ages is above the largest sum that the properties
  mention. Every entry that can expire is gone at the latest two runs after its two
  timeouts; whatever age alone can expire and the timer visits at least once per
  threshold is removed only after continuous silence.
- **RegMixed**: two managers, two channels, three calls, two crashes. `csmA` does not know
  the type of `ch2`, so requests are refused remotely and accepted ones locally.
  Two calls of one thread are what a late reply needs, two threads what a duplicate
  needs. No reply is taken for another call's; no two sources count on
  one sink, on the same manager or on different ones; every call returns, also one from a
  callback; and with one caller on each manager no source replaces another, which `RegRace` shows takes two.
- **CbTwoTypes**: three calls and three registrations: a second call can overtake the
  first between its two critical sections, and a channel can be registered again.
- **ChannelHeals**: two nodes, so that one can occupy the channel against the other, and five
  faults, enough for a lost reply (a sink without a source), a crash of the target
  (a source without a sink), a crash of a node and a pause in one behaviour.
  After the last fault the channel comes to work, whatever was left behind.
- **KeyReading**: a letter, and an arrow whose last byte is that of another letter; W, both
  Ctrl keys and C under evdev. A tick is some 60 ms: `poll()` 1, a release after 7, repeats within
  2 once they have begun, delays of 1 in each iteration, and three bytes or events in the queue, which is one sequence. `TimeAssumption` says what
  the times have to satisfy; the proofs allow all that do. 7 is the least that does with these times.
  A keyboard set to repeat more slowly than the release timeout (`kbdrate` goes down to two strokes a second)
  does not satisfy it: the code then releases and presses at each repeat.
  A stroke is read at most `Lag` after it was made, so a release comes at most
  `ReleaseAfter + Lag + PollTime + 2 * MaxDelay` after the last one: the two delays are those of the iteration
  that was too early for the release and of the one that makes it.
- **KeyEscape**: the same code where the user also has the Escape key.
- **KeyDriving**: turning left, strafing right, the E-stop and a second command for both kinds of
  messages, a key without a meaning, SPACE and Ctrl-C. Setpoint 3 with step 2, whose last step is shorter,
  and setpoint 1 with step 2, which is one shortened step. Two keys of one direction are left to the
  proofs, which allow any keys: a second arrow makes three times as many states, and the flag does not
  tell the two apart.
- **NodeLife**: no bounds; the module is finite as it stands.

`CHECK_DEADLOCK` stays on everywhere. A module in which the system may
rightly come to an end says so with an action of its own (`Destroyed`, `Quiet`,
`NoMoreSets`).

## 4. Fairness

Safety properties are checked and proved without any fairness. The six
liveness properties assume as little as they need:

- `CallReturns`: both waits of `registerSource` have time limits
  (`wait_for_service`, `wait_for`), and a thread whose wait is over runs on. Nothing
  is assumed of the network, the executors or the target.
- `SendReturns`: likewise the wait of `send()`, which has a limit also where
  `timeout_ns` is 0; no fairness of the service or of the executor.
- `SetReturns`: a thread that can take its next step eventually does. No
  fairness of the mutex is assumed beyond that, because the bound on calls ends
  the competition for it; unbounded competition is not judged.
- `ComesToRest`: the executor keeps the send timer going, which a wall timer on a
  spinning node does. The property is about a node that runs and a user who
  lets go for good.
- `ShutdownCompletes`: the threads of the node run on. Keys need not be struck, the
  registration need not succeed, and Ctrl-C need not come; `poll()` returns at its time limit.
- `ChannelIsServed`: timers, executors and applications that retry keep going, messages and heartbeats of a source and a
  sink that are there arrive again and again, and a target that is down is started. No faults are assumed, nor that a
  pause ends: the property asks for it.

## 5. The proofs

All theorems hold for every value of the constants that satisfies the
named assumptions (`ASSUME`) of their modules: any number of threads, messages,
channels, managers, calls and crashes, any timeouts, any natural setpoints and
ramp steps.

| theorem | establishes |
|---|---|
| `ControlSignalSinkProofs!TypeCorrect` | `TypeOK` |
| `!ActiveNeedsMessage`, `!ReadsLatest`, `!ReadsFresh` | the three claims about reads |
| `!CallbacksOutlivedBySink`, `!MarkedIsLeftAlone` | `NoUseAfterDestruction`, `OnlyMessagesRevive` |
| `!LifecycleKept` | the refinement `LifecycleSpec`, where only the executor uses the sink |
| `ControlSignalSourceProofs!TypeCorrect`, `!CommandsAreAccepted`, `!StateFollowsCalls`, `!LivelinessIsRecent` | the safety properties of `SourceShared` |
| `StatusTimerProofs!TypeCorrect`, `!NothingHeldAgainstNewcomers`, `!DeadPeerRemovedInTime`, `!SteadyRemoval` | all properties of `TimerMixed` |
| `RegistrationProofs!TypeCorrect`, `!SourcesAreAccepted`, `!SourcesHaveTheirSinks` | the invariants of `RegMixed` |
| `!OneCallerNoDuplicates` | `DuplicateRejected` of `RegMixed`, where each process has one calling thread; `RegRace` refutes it for two |
| `!KeysRightUnlessNameTaken` | what the factory's silent overwrite may do to `typeKey()`: exactly a name taken from another message type spoils it |
| `SinkCallbacksProofs!TypeCorrect`, `!NoSinkLeftBehind` | the safety properties of `CbTwoTypes` |
| `!NoDeadlock` | nobody waits in a circle for the mutexes, and who holds `sinkMtx_` comes to the end of its loop |
| `KeyboardHandlerProofs!TypeCorrect`, `!ViewIsTheKeyboards`, `!EventsAlternate` | `TypeOK`, `ViewFollowsKeys`, the refinement `AlternatingEvents` |
| `!NothingMistaken`, `!ReleasesInTime`, `!RepeatingIsNotReleased` | `OnlyStruckKeys`, `ReleasedInTime`, `RepeatingKeyStaysPressed`, where Escape is not used |
| `KeyboardNodeProofs!TypeCorrect`, `!FramesWithinSetpoints`, `!NothingWithoutAFinger`, `!StopsStopEverything`, `!RampsAreGentle` | the safety properties of `KeyDriving` |
| `!EachFrameSlows` | without a key down each frame is one ramp step slower, down to zero |
| `NodeLifecycleProofs!TypeCorrect`, `!NothingIsLeft` | the safety properties of `NodeLife` |

The inductive invariants, and why they are needed:

- **Reads** (`SinkInv`). That a read about to return true is fresh says nothing of
  how it got there. `CheckKnows` adds what the three loads made so far tell about
  the history, in whatever order they were made: the activity seen is no newer than the last acceptance,
  the sample of the clock no older than the call, and a state that was not ACTIVE
  when loaded and is now has been set by a reception since the call began. `CheckedReadIsFresh` carries the conclusion to
  the end of the call, past receptions that only make it better.
- **Lifetime** (`LifetimeInv`). Until `getSink()` is called, whoever is inside the
  sink holds `sinkMtx_` or is the executor; the removal needs both, so it finds
  nobody inside. After the removal the registry is empty and no call can begin.
- **Mark** (`MarkedInv`). A sink is marked once. A check that began on the marked sink, and has loaded
  the state while no message came, has loaded DISCONNECTED, and so ends without a store.
- **Timer** (`TimerInv`, `SilentWhileTracked`). An untracked entry is at most one gap
  past its threshold and a tracked one at most one gap past its second timeout. For
  removals: a tracked entry has been silent since before it was tracked, or it has
  been active after the last run, and then the next run sees it.
- **Registration** (`RegInv`). SUCCESS is on its way, or in a future, only for calls
  whose sink was made, and a sink that was made and not removed is in its place. With one
  calling thread in each process (`OneCallerEach`) the channel of a call under way has no
  source (`NoSourceYet`), so the search for a duplicate is still right when the source is put in.
  That is the exact border of `RegRace`, where two threads are between search and insertion.
- **Callbacks** (`CallbackInv`). A sink has its type's callback, or somebody who is
  going to install it is under way: in the loop with that sink still to do, or
  before the lock. `NoDeadlock` does not use ENABLED: `CanGoOn` writes out the guards of a
  thread's next step. What it leaves to `SetReturns` is fairness.
- **Keys** (`RangeInv`, `AskedInv`, `StepInv`). The frame under way lies between
  the speeds and the last frame sent, also when a stop comes between composing
  and sending. `EachFrameSlows` rests on `DeadMansHandle`: no key down means no target and no command.
- **Life cycle** (`SoleInv`). When the executor alone uses the sink, what its check has loaded is still so when
  it stores, and between the two stores of a reception the mapped state is ACTIVE already.
- **Source** (`AnswersAreTrue`, `OnlyCalls`, `FreshInv`). An answer on its way, in a future or in `cmdSuccess` was given for that very call. Without
  heartbeats no check gets past its first condition, so calls alone write the state, and each
  of their stores is of the outcome of a call that the state may still be of (`BelongsToCall`). `CheckKnows`
  is the sink's, with the stamps of heartbeats (`StampsInOrder`).
- **Keyboard** (`TerminalInv`, `EventsInv`). On a terminal the keys the thread counts as down are the listener's. Under evdev
  there is a set of keys in view that agrees with the listener's, and the queue
  *leads* from it to the keys that are down: the first event of a key fits the view, each
  other one the one before it, the last one the keyboard. `LeadsAppend` and `LeadsTail` are the
  two ends of the queue.
- **Decoder** (`StrokesInv`). Each byte of the queue continues the one before it, and the first one continues what
  the decoder has already got, so no byte is read as anything but its part of a stroke (`DecoderInStep`). This
  is what a lone ESC breaks; hence `NoEscape`, without which the theorem is false (`KeyEscape`).
- **Times** (`TimesInv`). A byte in the queue is as old as the last stroke of its key or older; its place in the queue
  bounds how long it still waits, since each iteration reads one stroke. `ReadInTime` adds the two up: no key's last stroke
  waits longer than `Lag`. `StampedInTime` turns that into a bound on what `lastEvent` can
  say, `SampledAfter` orders the sample of the clock and the stroke it is used for, and
  `NextStrokeInTime` says of the key that has begun to repeat, and has been read, that a stroke of it will be read before it is due. Only the strokes'
  ages are needed, not one for each byte: a key whose earlier stroke is in the queue has
  its last one at or behind that place.
- **Node** (`LifeInv`). Who has to join the handler's thread: the init thread has still
  to hand it over, `keyboard_` has it, the deletion has begun, or it is done (`HandlerKept`).

Only model-checked: the six liveness properties, since TLAPS does not reason about fairness and
ENABLED. `NoDeadlock` and `EachFrameSlows` prove what safety there is behind two of them. A theorem about
terminals with the Escape key or torn sequences would have to be a weaker one: `OnlyStruckKeys` says nothing once a
sequence was torn, and with Escape it is false.

## 6. Disagreements between code and comments

Two are kept as runs, with a trace:

- **RegRace**: two callers of `registerSource` for one channel with different targets
  both succeed; the second source replaces the first, whose sink stays behind.
- **KeyEscape**: `_readStdinKey` takes the byte after a lone ESC and drops both. Escape struck just before the up
  arrow eats the ESC of the arrow's sequence, `[` is ignored, and `A` turns the robot left. Other
  keys are ignored, says the file comment (`keyboard_handler.h:27`).

Others, seen while modelling and not kept as runs:

- The sink's `_checkTimeout` stores TIMEOUT by an activity it loaded before a message came
  (`control_signal_transport.h:516`): it lasts until the next message, and `getState()` says a sink has
  expired that has not (`:64`).
- The sink's `read()` returns `state_ == ACTIVE` (`:629`); its comment promises true for
  everything that has not expired (`:622`), which includes LOW_FREQ.
- The status timer samples states (`control_signal_manager.h:411`): calls that succeed
  between two failures go unseen, and the entry is removed as if it had been in TIMEOUT
  continuously (`:386`).
- `nullptr` erases a type's callback before the loop looks for it (`control_signal_manager.h:371`), so the sinks that
  exist keep theirs, against the comment at `:304`.
- W and the up arrow share a flag (`keyboard_source_node.cpp:330`); the release of one stops the other, although
  the header lists them as two keys for one motion (`:28`).
- DISCONNECTED of a source is not terminal (`control_signal_transport.h:299`): the stores of a `send()` or a heartbeat under way
  land on top of it.
- `send()` is documented to check the timeout first and to mark activity on a success response (`:370`);
  it checks nothing, and marks activity on any response, so a source without heartbeats is ACTIVE also
  where the service refused ("ACTIVE on success response", `:88`, `:257`). `StateIsLatestCalls` says
  answered, and not accepted.
- "Restore terminal before ROS shuts down" (`keyboard_source_node.cpp:164`): the destructor runs after rclcpp's
  shutdown.
- An assignment of `keyboard_` between the load and the store of the destructor's `reset()` loses the handler: its thread is
  never joined and the terminal stays raw. Hence `~raced` in `NothingLeftBehind`.
- A source that outlived its sink hears the heartbeats of the next sink, made for another
  node: it becomes ACTIVE again, and two sources drive one sink. `ControlSystem` has this; `ChannelIsServed`
  says that the channel works nevertheless.
- The keyboard node registers once, and without keep-alive: after a restart of its target it keeps sending to
  no one, and nothing makes it register again. `ChannelIsServed` is about channels with keep-alive and applications that retry.
- `getSink()` handed out a sink that is then removed: a reception still running, or the next one,
  puts ACTIVE over DISCONNECTED ("Terminal", `control_signal_transport.h:65`), and so may a check that
  loaded the state before the mark. These are the two exceptions of `OnlyMessagesRevive`.
- TIMEOUT is said to come to a sink that "was ACTIVE" (`control_signal_transport.h:57`, `:64`, `:158`); the code
  (`:517`) puts it on one that was never heard as well, as `src/README.md:73` has it. `SinkLifecycle` follows
  the code.
- On a terminal a key whose first repeat comes later than `kReleaseAfter` has a RELEASE and another PRESS
  while it is held (`keyboard_handler.h:314`): the robot hesitates. X keyboards wait for 660 ms by default.
- Registering a type under the name of another one overwrites it silently (`control_signal_factory.h:94`), and the
  other type's `typeKey()` then creates sources and sinks of the new one (`KeysRightUnlessNameTaken`).
- The timer also removes a live sink when its period exceeds `timeout_ns`, or
  when a stale TIMEOUT of an application's check is there at each of its runs:
  hence the conditions in `Steady`.
- `control_signal_manager.h:106` says that `registerSource` from a callback will
  deadlock; it returns after its time limit (`CallReturns`).
- A second command key takes the place of a held E-stop, and its release ends
  the command although the E-stop is still held (`keyboard_source_node.cpp:412`).
- The header calls command keys one-shot (`keyboard_source_node.cpp:29`); they are sent with
  every frame while held, as a later comment says (`:340`).

## 7. What is not modelled

- Unloading the keyboard node from a running container, where its callbacks may still
  run while it is destroyed.
- `validateControlSignalInfo` and the messages themselves: `rv2_interfaces` is not part of the repository.
- Strokes after a torn escape sequence (a bound of the model), `POLLHUP` without `POLLIN`, and a byte 0x03 on a
  terminal, which the terminal turns into SIGINT.
- A caller of `send()` that does not clear `cmdSuccess`.
- The client's table of pending requests, which grows by one with every `send()` that times out: it is
  inside rclcpp, and nothing here reads it.
- Loading of libraries that register types while others are looked up: the factory's maps are values
  here, not memory.
- The lists and `_onInfoReq`, which copy under one mutex and change nothing;
  `BaseControlSignalSource` and `BaseControlSignalSink`, which are interfaces.
- Quality of service, priorities, parameter declaration, launch files, logging.
- Negative setpoints and steps, which the node does not refuse: the models assume
  natural numbers (`SpeedAssumption`).

## 8. Plan

Done: all modules of the plan, with their runs; the safety properties of every passing run as theorems; the
refinements of `SinkLifecycle` and of `KeyEvents`; the borders of the two disagreements that are runs (`OneCallerEach`,
`NoEscape`).

Left, if the work goes on:

1. That `ControlSystem` is implemented by `Registration` and `StatusTimer` together; so far
   its steps are justified by comparison with theirs.
2. A node in a container: unloading against callbacks that still run.
