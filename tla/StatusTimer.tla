------------------------------ MODULE StatusTimer ------------------------------
(***************************************************************************)
(* The status timer of a ControlSignalManager: _statusTimerCb visits the   *)
(* registered sources and sinks, remembers since when it sees each one in  *)
(* TIMEOUT, and removes those it has seen there for too long.              *)
(*                                                                         *)
(* Time is the age of things: how long ago an entry was last active, how   *)
(* long ago TIMEOUT was first seen, how long ago the timer last ran.  The  *)
(* period of the timer is a request: what the executor delivers is some    *)
(* gap between two runs, at most MaxGap.  LOW_FREQ counts as ACTIVE here,  *)
(* as it does for the timer.  A visit checks and reads an entry under the  *)
(* mutex of its map; the whole sweep is one step.                          *)
(*                                                                         *)
(* Operators whose comment begins with (slip) are wrong variants of the    *)
(* definitions after them (see ControlSignalSink).                         *)
(***************************************************************************)
EXTENDS Integers

CONSTANTS
    Entries,      \* the channels of the registry
    Kind,         \* what is registered for each
    Threshold,    \* sinks: timeout_ns; keep-alive: 2 * keep_alive_interval_ns
    DiscTimeout,  \* disconnect_timeout_ns; 0 is "never remove"
    Queried,      \* entries an application queries through its own shared_ptr
    MaxGap,       \* the longest time between two runs of the timer
    AgeCap        \* bound of the model: ages above it are not told apart

Kinds == {"sink", "topicSource", "serviceSource",
          "keepAliveTopicSource", "keepAliveServiceSource"}

ASSUME KindAssumption == Kind \in [Entries -> Kinds]
ASSUME TimesAssumption ==
    /\ Threshold \in [Entries -> Nat]
    /\ DiscTimeout \in [Entries -> Nat]
    /\ MaxGap \in Nat \ {0}
ASSUME QueriedAssumption == Queried \subseteq Entries
ASSUME AgeCapAssumption ==
    /\ AgeCap \in Nat
    /\ \A e \in Entries : AgeCap > Threshold[e] + DiscTimeout[e] + 2 * MaxGap

VARIABLES
    registered,  \* the keys of sources_ and sinks_
    state,       \* state_ of each registered object
    age,         \* steadyNs() - lastActivityNs_
    tracked,     \* the keys of sourceTimeoutSinceNs_ and sinkTimeoutSinceNs_
    since,       \* now minus the time they hold
    sweepAge,    \* time since the timer last ran
    pending      \* an application's check has still to make this store

vars == <<registered, state, age, tracked, since, sweepAge, pending>>

States == {"UNKNOWN", "ACTIVE", "TIMEOUT"}

\* _checkTimeout can expire these by age ...
Timed(e) ==
    /\ Kind[e] \in {"sink", "keepAliveTopicSource", "keepAliveServiceSource"}
    /\ Threshold[e] > 0

\* ... send() tells these apart by its result ...
Calls(e) == Kind[e] \in {"serviceSource", "keepAliveServiceSource"}

\* ... and a message, a heartbeat or a response tells that these are alive.
Heard(e) == Kind[e] # "topicSource"

Older(a) == IF a < AgeCap THEN a + 1 ELSE a

-----------------------------------------------------------------------------
Init ==
    /\ registered = {}
    /\ state = [e \in Entries |-> "UNKNOWN"]
    /\ age = [e \in Entries |-> 0]
    /\ tracked = {}
    /\ since = [e \in Entries |-> 0]
    /\ sweepAge = 0
    /\ pending = [e \in Entries |-> "none"]

\* A new object under the key e, as _onReg and registerSource store it.  The
\* timer's own maps are left alone.  _onReg never replaces a sink; two racing
\* registerSource calls may replace a source.
Register(e) ==
    /\ e \in registered => Kind[e] # "sink"
    /\ registered' = registered \cup {e}
    /\ state' = [state EXCEPT ![e] = "UNKNOWN"]
    /\ age' = [age EXCEPT ![e] = 0]
    /\ pending' = [pending EXCEPT ![e] = "none"]
    /\ UNCHANGED <<tracked, since, sweepAge>>

\* _store, _markActivity: a message, a heartbeat, a response.
Activity(e) ==
    /\ e \in registered /\ Heard(e)
    /\ state' = [state EXCEPT ![e] = "ACTIVE"]
    /\ age' = [age EXCEPT ![e] = 0]
    /\ UNCHANGED <<registered, tracked, since, sweepAge, pending>>

\* (slip) send() that gives up for good.
SendGivesUp(e) ==
    /\ e \in registered /\ Calls(e)
    /\ state' = [state EXCEPT ![e] = "DISCONNECTED"]
    /\ UNCHANGED <<registered, age, tracked, since, sweepAge, pending>>

\* send() had no response in time.
SendFails(e) ==
    /\ e \in registered /\ Calls(e)
    /\ state' = [state EXCEPT ![e] = "TIMEOUT"]
    /\ UNCHANGED <<registered, age, tracked, since, sweepAge, pending>>

-----------------------------------------------------------------------------
(* An application's _checkTimeout, from its loads to its store *)

AppChecks(e) ==
    /\ e \in registered \cap Queried /\ Timed(e) /\ pending[e] = "none"
    /\ \/ age[e] > Threshold[e] /\ pending' = [pending EXCEPT ![e] = "TIMEOUT"]
       \/ /\ Kind[e] = "sink" /\ state[e] = "ACTIVE"           \* LOW_FREQ
          /\ age[e] > Threshold[e] \div 2 /\ age[e] <= Threshold[e]
          /\ pending' = [pending EXCEPT ![e] = "ACTIVE"]
    /\ UNCHANGED <<registered, state, age, tracked, since, sweepAge>>

AppStores(e) ==
    /\ pending[e] # "none"
    /\ state' = [state EXCEPT ![e] = pending[e]]
    /\ pending' = [pending EXCEPT ![e] = "none"]
    /\ UNCHANGED <<registered, age, tracked, since, sweepAge>>

-----------------------------------------------------------------------------
(* _statusTimerCb *)

\* What getState() leaves in state_.
Checked(e) == IF Timed(e) /\ age[e] > Threshold[e] THEN "TIMEOUT" ELSE state[e]

\* What the visit finds.  An application's store may land between the check and
\* the load of the visit: those of "landing" do.
Found(e, landing) == IF e \in landing THEN pending[e] ELSE Checked(e)

Seen(landing) ==
    {e \in registered : Found(e, landing) = "TIMEOUT" /\ DiscTimeout[e] > 0}

\* The entries in TIMEOUT for too long: seen before, and long enough ago.
Overdue(seen) == {e \in seen \cap tracked : since[e] > DiscTimeout[e]}

\* (slip) an entry that has recovered stays tracked.
TracksRecovered(seen, removed) == (tracked \cup seen) \ removed

\* (slip) an entry that has been removed stays tracked.
TracksRemoved(seen, removed) == (tracked \ registered) \cup seen

\* (slip) seeing a tracked entry again starts over.
TracksAnew(seen, removed) == seen \ tracked

\* What the timer tracks from now on.
Tracks(seen, removed) == ((tracked \ registered) \cup seen) \ removed

\* One run of the timer: check, track, mark and erase.
Sweep(landing) ==
    LET seen    == Seen(landing)
        removed == Overdue(seen)
    IN  /\ registered' = registered \ removed
        /\ tracked' = Tracks(seen, removed)
        /\ since' = [e \in Entries |-> IF e \in tracked \cap tracked' THEN since[e] ELSE 0]
        /\ state' = [e \in Entries |-> IF e \in registered' THEN Found(e, landing)
                                                           ELSE "UNKNOWN"]
        /\ age' = [e \in Entries |-> IF e \in registered' THEN age[e] ELSE 0]
        /\ pending' = [e \in Entries |-> IF e \in registered' \ landing THEN pending[e]
                                                                   ELSE "none"]
        /\ sweepAge' = 0

\* Time passes, but not so much that the timer is later than MaxGap.
Tick ==
    /\ sweepAge < MaxGap
    /\ sweepAge' = sweepAge + 1
    /\ age' = [e \in Entries |-> IF e \in registered THEN Older(age[e]) ELSE age[e]]
    /\ since' = [e \in Entries |-> IF e \in tracked THEN Older(since[e]) ELSE since[e]]
    /\ UNCHANGED <<registered, state, tracked, pending>>

-----------------------------------------------------------------------------
Next ==
    \/ \E e \in Entries : \/ Register(e) \/ Activity(e) \/ SendFails(e)
                          \/ AppChecks(e) \/ AppStores(e)
    \/ \E landing \in SUBSET {e \in Entries : pending[e] # "none"} : Sweep(landing)
    \/ Tick

Spec == Init /\ [][Next]_vars

-----------------------------------------------------------------------------
(* Properties *)

\* Types.  Nothing in the registry is ever DISCONNECTED.
TypeOK ==
    /\ registered \subseteq Entries
    /\ state \in [Entries -> States]
    /\ age \in [Entries -> 0..AgeCap]
    /\ tracked \subseteq Entries
    /\ since \in [Entries -> 0..AgeCap]
    /\ sweepAge \in 0..MaxGap
    /\ pending \in [Entries -> {"none", "ACTIVE", "TIMEOUT"}]

\* The timer holds nothing against a channel that is not registered: what is
\* registered under that name later starts with a clean record.
TrackedIsRegistered == tracked \subseteq registered

\* How long an entry in TIMEOUT for disconnect_timeout_ns has been silent.
SilenceBefore(e) == IF Timed(e) THEN Threshold[e] + DiscTimeout[e] ELSE DiscTimeout[e]

\* The timer runs at least once per threshold of e, only its age can expire e,
\* and no application looks at it.
Steady(e) ==
    /\ Timed(e) => MaxGap <= Threshold[e]
    /\ ~Calls(e)
    /\ e \notin Queried

\* A steady entry is removed only after it has shown no sign of life for both
\* its timeouts: TIMEOUT at two runs means TIMEOUT all the time between them.
SteadyRemovedAfterSilence ==
    [][\A e \in registered \ registered' :
          Steady(e) => age[e] > SilenceBefore(e)]_vars

\* A dead peer is noticed in time: an entry that can expire is gone at the
\* latest two runs of the timer after both its timeouts.
RemovedInTime ==
    \A e \in registered \ Queried :
        Timed(e) /\ DiscTimeout[e] > 0
            => age[e] <= Threshold[e] + DiscTimeout[e] + 2 * MaxGap
=============================================================================
