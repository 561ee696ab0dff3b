-------------------------- MODULE ControlSignalFactory --------------------------
(***************************************************************************)
(* The registry of control_signal_factory.h: from a type's name to what    *)
(* creates its sources and sinks, and from a message type back to a name.  *)
(*                                                                         *)
(* A process fills it before main() and, where a component's library is    *)
(* loaded later, then; nothing guards it.  Its two maps are a value here   *)
(* and Register a function of it.  A creator is what it is instantiated    *)
(* with: a message type and a service type, or void for topics only.       *)
(***************************************************************************)

NoService == "void"

\* The maps of Instance() when the first registration comes.
EmptyFactory == [registry |-> [n \in {} |-> <<>>], reverseRegistry |-> [m \in {} |-> <<>>]]

Put(map, key, value) == [k \in DOMAIN map \cup {key} |-> IF k = key THEN value ELSE map[k]]

\* Register<MsgT, SrvT>(name) overwrites what either map has for its key.
Register(f, name, msgT, srvT) ==
    [registry        |-> Put(f.registry, name, [msgT |-> msgT, srvT |-> srvT]),
     reverseRegistry |-> Put(f.reverseRegistry, msgT, name)]

\* CreateSource and CreateSink find a creator, or else throw.
Creates(f, name) == name \in DOMAIN f.registry

\* typeKey: no name is the empty string.
TypeKey(f, msgT) == IF msgT \in DOMAIN f.reverseRegistry THEN f.reverseRegistry[msgT] ELSE ""

\* What control_signal_types.cpp registers.
BuiltIn ==
    Register(Register(Register(EmptyFactory,
        "joy", "Joy", "ControlSignalJoy"),
        "twist", "Twist", "ControlSignalTwist"),
        "string", "String", NoService)
=============================================================================
