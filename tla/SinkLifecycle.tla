----------------------------- MODULE SinkLifecycle -----------------------------
(***************************************************************************)
(* What a sink promises its users: the life cycle of enum                  *)
(* ControlSignalState and its comments, with the thresholds of the state   *)
(* diagram (half a timeout, a timeout).  Each change is one step, so the   *)
(* state always agrees with the age of the last message when it changes.   *)
(***************************************************************************)
EXTENDS Integers

CONSTANT TimeoutNs     \* 0: messages never expire

VARIABLES
    st,        \* the state a user sees
    heardAt,   \* when the last message came (or the sink was made)
    now

vars == <<st, heardAt, now>>

Age == now - heardAt

Init == st = "UNKNOWN" /\ heardAt = now /\ now \in Nat

Advance == now' > now /\ UNCHANGED <<st, heardAt>>

\* Any reception makes the sink ACTIVE, unless it has been removed.
Hear ==
    /\ st # "DISCONNECTED"
    /\ st' = "ACTIVE"
    /\ heardAt' = now
    /\ UNCHANGED now

Weaken ==
    /\ TimeoutNs > 0 /\ Age > TimeoutNs \div 2
    /\ st = "ACTIVE"
    /\ st' = "LOW_FREQ"
    /\ UNCHANGED <<heardAt, now>>

Expire ==
    /\ TimeoutNs > 0 /\ Age > TimeoutNs
    /\ st \in {"UNKNOWN", "ACTIVE", "LOW_FREQ"}
    /\ st' = "TIMEOUT"
    /\ UNCHANGED <<heardAt, now>>

\* Only a sink in TIMEOUT is removed, and that is the end of it.
Disconnect ==
    /\ st = "TIMEOUT"
    /\ st' = "DISCONNECTED"
    /\ UNCHANGED <<heardAt, now>>

Next == Advance \/ Hear \/ Weaken \/ Expire \/ Disconnect

Spec == Init /\ [][Next]_vars
=============================================================================
