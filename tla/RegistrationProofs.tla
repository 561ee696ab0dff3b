-------------------------- MODULE RegistrationProofs --------------------------
(***************************************************************************)
(* Proofs about Registration, for any managers, channels and threads, any  *)
(* number of calls and of crashes.                                         *)
(***************************************************************************)
EXTENDS Registration, TLAPS

(***************************************************************************)
(* The inductive invariant: who may claim that a sink was made, and where  *)
(* the sinks that were made are.                                           *)
(***************************************************************************)

\* A thread is in its own call.
OwnCall ==
    \A t \in Threads :
        /\ pc[t] # "idle" => call[t] # None
        /\ call[t] # None => call[t].by = t

\* SUCCESS is said only of calls that a sink has been made for.
SuccessIsTrue ==
    /\ \A r \in replies : r.result = "SUCCESS" => r.call \in made
    /\ \A t \in Threads : pc[t] = "gotReply" /\ reply[t] = "SUCCESS" => call[t] \in made

\* A sink that was made and not removed is still in its place.
MadeIsThere == \A c \in made \ gone : sinks[c.to][c.ch] = c

RegInv ==
    /\ TypeOK
    /\ OwnCall
    /\ SuccessIsTrue
    /\ MadeIsThere
    /\ SourceWasAccepted

-----------------------------------------------------------------------------
(* Lemmas *)

\* A returning thread is idle; the others are where they were.
LEMMA ReturnEffect ==
  ASSUME TypeOK, OwnCall, NEW t \in Threads, Return(t)
  PROVE  /\ pc' \in [Threads -> {"idle", "waitService", "waitReply", "gotReply"}]
         /\ call' \in [Threads -> Call \cup {None}]
         /\ calls' = calls
         /\ reply' \in [Threads -> Results]
         /\ pc'[t] = "idle" /\ call'[t] = None
         /\ \A u \in Threads : u # t => pc'[u] = pc[u] /\ call'[u] = call[u] /\ reply'[u] = reply[u]
  BY DEF TypeOK, Return, Results

\* The initial state satisfies the invariant.
LEMMA InitInv == Init => RegInv
  BY BoundsAssumption
  DEF Init, RegInv, TypeOK, OwnCall, SuccessIsTrue, MadeIsThere, SourceWasAccepted, Results

\* Each step keeps the invariant.
LEMMA StepInv == RegInv /\ [Next]_vars => RegInv'
<1> SUFFICES ASSUME RegInv, [Next]_vars
             PROVE  RegInv'
  OBVIOUS
<1> USE DEF RegInv
<1>0. \A c \in Call : c.by \in Threads /\ c.to \in Csm /\ c.ch \in Channel /\ Home[c.by] \in Csm
  BY HomeAssumption DEF Call
<1>1. ASSUME NEW t \in Threads, NEW d \in Csm, NEW h \in Channel, BeginCall(t, d, h)
      PROVE  RegInv'
  <2> DEFINE c == [by |-> t, no |-> calls[t] + 1, to |-> d, ch |-> h]
  <2>1. c \in Call /\ c # None /\ c.by = t /\ calls[t] + 1 \in Nat
    BY <1>1, BoundsAssumption, NoneAssumption DEF BeginCall, TypeOK, Call
  <2>2. call' = [call EXCEPT ![t] = c] /\ calls' = [calls EXCEPT ![t] = @ + 1]
    BY <1>1 DEF BeginCall, TypeOK
  <2>3. TypeOK'
    BY <1>1, <2>1, <2>2 DEF BeginCall, TypeOK, netVars
  <2>4. OwnCall' /\ SuccessIsTrue'
    BY <1>1, <2>1, <2>2 DEF BeginCall, TypeOK, OwnCall, SuccessIsTrue, netVars
  <2>5. MadeIsThere' /\ SourceWasAccepted'
    BY <1>1 DEF BeginCall, MadeIsThere, SourceWasAccepted
  <2> QED BY <2>3, <2>4, <2>5
<1>2. ASSUME NEW t \in Threads, SendRequest(t)
      PROVE  RegInv'
  <2>1. call[t] \in Call
    BY <1>2 DEF SendRequest, TypeOK, OwnCall
  <2>2. TypeOK'
    BY <1>2, <2>1 DEF SendRequest, TypeOK
  <2>3. OwnCall' /\ SuccessIsTrue'
    BY <1>2 DEF SendRequest, TypeOK, OwnCall, SuccessIsTrue
  <2>4. MadeIsThere' /\ SourceWasAccepted'
    BY <1>2 DEF SendRequest, MadeIsThere, SourceWasAccepted
  <2> QED BY <2>2, <2>3, <2>4
<1>3. ASSUME NEW t \in Threads, Timeouts(t) \/ Refused(t)
      PROVE  RegInv'
  <2>1. Return(t) /\ UNCHANGED <<up, sources, sinks, netVars, made, gone, crashes>>
    BY <1>3 DEF Timeouts, ServiceUnavailable, ReplyTimeout, Refused
  <2> QED
    BY <2>1, ReturnEffect
    DEF TypeOK, OwnCall, SuccessIsTrue, MadeIsThere, SourceWasAccepted, netVars
<1>4. ASSUME NEW t \in Threads, Registered(t)
      PROVE  RegInv'
  <2>1. /\ call[t] \in Call /\ call[t] \in made /\ call[t].by = t
        /\ Home[t] \in Csm /\ call[t].ch \in Channel
    BY <1>0, <1>4, HomeAssumption DEF Registered, TypeOK, OwnCall, SuccessIsTrue
  <2>2. TypeOK' /\ OwnCall' /\ SuccessIsTrue'
    BY <1>4, <2>1, ReturnEffect DEF Registered, TypeOK, OwnCall, SuccessIsTrue, netVars
  <2>3. SourceWasAccepted'
    BY <1>4, <2>1 DEF Registered, TypeOK, SourceWasAccepted
  <2>4. MadeIsThere'
    BY <1>4 DEF Registered, MadeIsThere
  <2> QED BY <2>2, <2>3, <2>4
<1>5. ASSUME NEW r \in replies, TakeReply(r)
      PROVE  RegInv'
  <2> DEFINE t == r.call.by
  <2>1. r.call \in Call /\ r.result \in Results /\ t \in Threads
    BY <1>0 DEF TypeOK
  <2>2. CASE Awaits(t, r.call)
    <3>1. TypeOK'
      BY <1>5, <2>1, <2>2 DEF TakeReply, Awaits, TypeOK
    <3>2. OwnCall'
      BY <1>5, <2>1, <2>2 DEF TakeReply, Awaits, TypeOK, OwnCall
    <3>3. SuccessIsTrue'
      BY <1>5, <2>1, <2>2 DEF TakeReply, Awaits, TypeOK, SuccessIsTrue
    <3>4. MadeIsThere' /\ SourceWasAccepted'
      BY <1>5 DEF TakeReply, MadeIsThere, SourceWasAccepted
    <3> QED BY <3>1, <3>2, <3>3, <3>4
  <2>3. CASE ~Awaits(t, r.call)
    BY <1>5, <2>3
    DEF TakeReply, TypeOK, OwnCall, SuccessIsTrue, MadeIsThere, SourceWasAccepted
  <2> QED BY <2>2, <2>3
<1>6. ASSUME NEW c \in requests, OnReg(c)
      PROVE  RegInv'
  <2>1. c \in Call /\ c.to \in Csm /\ c.ch \in Channel
    BY <1>0 DEF TypeOK
  <2>2. Verdict(c) \in Results
    BY DEF Verdict, Results
  <2>3. [call |-> c, result |-> Verdict(c)] \in [call : Call, result : Results]
    BY <2>1, <2>2
  <2>4. CASE Verdict(c) = "SUCCESS"
    <3>1. sinks[c.to][c.ch] = None
      BY <2>4 DEF Verdict
    <3>2. /\ sinks' = [sinks EXCEPT ![c.to][c.ch] = c]
          /\ made' = made \cup {c} /\ requests' \subseteq requests
          /\ replies' = replies \cup {[call |-> c, result |-> Verdict(c)]}
          /\ UNCHANGED <<up, sources, pc, call, calls, reply, gone, crashes>>
      BY <1>6, <2>4 DEF OnReg, threadVars
    <3>5. TypeOK'
      BY <2>1, <2>3, <3>2 DEF TypeOK
    <3>6. OwnCall' /\ SourceWasAccepted'
      BY <3>2 DEF OwnCall, SourceWasAccepted
    <3>3. SuccessIsTrue'
      BY <1>6, <2>4 DEF OnReg, SuccessIsTrue, threadVars
    <3>4. ASSUME NEW b \in (made \ gone)'
          PROVE  sinks'[b.to][b.ch] = b
      <4>1. CASE b = c
        BY <1>6, <2>1, <2>4, <4>1 DEF OnReg, TypeOK
      <4>2. CASE b # c
        <5>1. b \in made \ gone /\ b \in Call /\ b # None
          BY <1>6, <2>4, <4>2, NoneAssumption DEF OnReg, TypeOK
        <5>2. sinks[b.to][b.ch] = b
          BY <5>1 DEF MadeIsThere
        <5>3. ~(b.to = c.to /\ b.ch = c.ch)
          BY <3>1, <5>1, <5>2
        <5> QED BY <1>0, <1>6, <2>1, <2>4, <5>1, <5>2, <5>3 DEF OnReg, TypeOK
      <4> QED BY <4>1, <4>2
    <3> QED BY <3>3, <3>4, <3>5, <3>6 DEF MadeIsThere
  <2>5. CASE Verdict(c) # "SUCCESS"
    BY <1>6, <2>1, <2>3, <2>5
    DEF OnReg, TypeOK, OwnCall, SuccessIsTrue, MadeIsThere, SourceWasAccepted, threadVars
  <2> QED BY <2>4, <2>5
<1>7. ASSUME NEW c \in Csm, NEW h \in Channel, RemoveSource(c, h)
      PROVE  RegInv'
  BY <1>7 DEF RemoveSource, TypeOK, OwnCall, SuccessIsTrue, MadeIsThere, SourceWasAccepted,
     threadVars, netVars
<1>8. ASSUME NEW c \in Csm, NEW h \in Channel, RemoveSink(c, h)
      PROVE  RegInv'
  <2>1. TypeOK' /\ OwnCall' /\ SuccessIsTrue' /\ SourceWasAccepted'
    BY <1>8 DEF RemoveSink, TypeOK, OwnCall, SuccessIsTrue, SourceWasAccepted, threadVars, netVars
  <2>2. MadeIsThere'
    BY <1>0, <1>8 DEF RemoveSink, TypeOK, MadeIsThere
  <2> QED BY <2>1, <2>2
<1>9. ASSUME NEW c \in Csm, Crash(c)
      PROVE  RegInv'
  <2>1. {sinks[c][h] : h \in {i \in Channel : sinks[c][i] # None}} \subseteq Call
    BY DEF TypeOK
  <2>2. TypeOK'
    BY <1>9, <2>1, BoundsAssumption DEF Crash, TypeOK, Results
  <2>3. OwnCall' /\ SuccessIsTrue' /\ SourceWasAccepted'
    BY <1>9 DEF Crash, TypeOK, OwnCall, SuccessIsTrue, SourceWasAccepted
  <2>4. ASSUME NEW b \in (made \ gone)'
        PROVE  sinks'[b.to][b.ch] = b
    <3>1. /\ b \in made \ gone /\ b \in Call /\ b # None
          /\ b \notin {sinks[c][h] : h \in {i \in Channel : sinks[c][i] # None}}
      BY <1>9, NoneAssumption DEF Crash, TypeOK
    <3>2. sinks[b.to][b.ch] = b /\ b.to \in Csm /\ b.ch \in Channel
      BY <1>0, <3>1 DEF MadeIsThere
    <3>3. b.to # c
      BY <3>1, <3>2
    <3> QED BY <1>9, <3>2, <3>3 DEF Crash, TypeOK
  <2> QED BY <2>2, <2>3, <2>4 DEF MadeIsThere
<1>10. ASSUME NEW c \in Csm, Restart(c)
       PROVE  RegInv'
  BY <1>10 DEF Restart, TypeOK, OwnCall, SuccessIsTrue, MadeIsThere, SourceWasAccepted,
     threadVars, netVars
<1>11. CASE UNCHANGED vars
  BY <1>11 DEF vars, threadVars, netVars, TypeOK, OwnCall, SuccessIsTrue, MadeIsThere,
     SourceWasAccepted
<1> QED
  BY <1>1, <1>2, <1>3, <1>4, <1>5, <1>6, <1>7, <1>8, <1>9, <1>10, <1>11
  DEF Next, Outcome, Quiet

\* The invariant holds in every reachable state.
LEMMA InvHolds == Spec => []RegInv
  BY InitInv, StepInv, PTL DEF Spec

(***************************************************************************)
(* The types are an invariant.                                             *)
(***************************************************************************)
THEOREM TypeCorrect == Spec => []TypeOK
<1>1. RegInv => TypeOK
  BY DEF RegInv
<1> QED BY <1>1, InvHolds, PTL

(***************************************************************************)
(* No source without its target's consent to this very registration.       *)
(***************************************************************************)
THEOREM SourcesAreAccepted == Spec => []SourceWasAccepted
<1>1. RegInv => SourceWasAccepted
  BY DEF RegInv
<1> QED BY <1>1, InvHolds, PTL

(***************************************************************************)
(* A source has a sink of its own, for as long as that is not removed.     *)
(***************************************************************************)
THEOREM SourcesHaveTheirSinks == Spec => []SourceHasItsSink
<1>1. RegInv => SourceHasItsSink
  BY DEF RegInv, SourceWasAccepted, MadeIsThere, SourceHasItsSink
<1> QED BY <1>1, InvHolds, PTL

-----------------------------------------------------------------------------
(* Duplicates, which two threads of one process can slip past the check *)

\* At most one thread of each process registers sources.
OneCallerEach == \A t, u \in Threads : Home[t] = Home[u] => t = u

\* While a call is under way its channel has no source yet.
NoSourceYet == \A t \in Threads : pc[t] # "idle" => sources[Home[t]][call[t].ch] = None

LEMMA NoSourceStep ==
  ASSUME OneCallerEach, RegInv, NoSourceYet, [Next]_vars
  PROVE  NoSourceYet'
<1> USE DEF NoSourceYet
<1>0. /\ pc \in [Threads -> {"idle", "waitService", "waitReply", "gotReply"}]
      /\ call \in [Threads -> Call \cup {None}]
      /\ sources \in [Csm -> [Channel -> Call \cup {None}]]
      /\ \A t \in Threads : pc[t] # "idle" => call[t] \in Call
      /\ \A t \in Threads : Home[t] \in Csm
  BY HomeAssumption DEF RegInv, TypeOK, OwnCall
<1>1. ASSUME NEW t \in Threads, NEW d \in Csm, NEW h \in Channel, BeginCall(t, d, h)
      PROVE  NoSourceYet'
  <2>1. call'[t].ch = h /\ sources[Home[t]][h] = None /\ sources' = sources
    BY <1>0, <1>1 DEF BeginCall
  <2>2. \A u \in Threads : u # t => pc'[u] = pc[u] /\ call'[u] = call[u]
    BY <1>0, <1>1 DEF BeginCall
  <2> QED BY <2>1, <2>2
<1>2. ASSUME NEW t \in Threads, SendRequest(t)
      PROVE  NoSourceYet'
  BY <1>0, <1>2 DEF SendRequest
<1>3. ASSUME NEW t \in Threads, Return(t), \A u \in Threads \ {t} : sources'[Home[u]] = sources[Home[u]]
      PROVE  NoSourceYet'
  <2>1. /\ pc'[t] = "idle"
        /\ \A u \in Threads : u # t => pc'[u] = pc[u] /\ call'[u] = call[u]
    BY <1>3, ReturnEffect DEF RegInv
  <2> QED BY <1>3, <2>1
<1>4. ASSUME NEW t \in Threads, Timeouts(t) \/ Refused(t)
      PROVE  NoSourceYet'
  BY <1>3, <1>4 DEF Timeouts, ServiceUnavailable, ReplyTimeout, Refused
<1>5. ASSUME NEW t \in Threads, Registered(t)
      PROVE  NoSourceYet'
  <2>1. \A u \in Threads \ {t} : Home[u] # Home[t]
    BY DEF OneCallerEach
  <2>2. \A u \in Threads \ {t} : sources'[Home[u]] = sources[Home[u]]
    BY <1>0, <1>5, <2>1 DEF Registered
  <2> QED BY <1>3, <1>5, <2>2 DEF Registered
<1>6. ASSUME NEW r \in replies, TakeReply(r)
      PROVE  NoSourceYet'
  <2>1. \A t \in Threads : pc'[t] # "idle" => pc[t] # "idle"
    BY <1>0, <1>6 DEF TakeReply, Awaits
  <2> QED BY <1>6, <2>1 DEF TakeReply
<1>7. ASSUME NEW c \in requests, OnReg(c)
      PROVE  NoSourceYet'
  BY <1>7 DEF OnReg, threadVars
<1>8. ASSUME NEW c \in Csm, NEW h \in Channel, RemoveSource(c, h) \/ RemoveSink(c, h)
      PROVE  NoSourceYet'
  <2>1. \A t \in Threads : pc'[t] = pc[t] /\ call'[t] = call[t]
    BY <1>8 DEF RemoveSource, RemoveSink, threadVars
  <2>2. \A d \in Csm, i \in Channel : sources[d][i] = None => sources'[d][i] = None
    BY <1>0, <1>8 DEF RemoveSource, RemoveSink
  <2>3. \A t \in Threads : pc[t] # "idle" => call[t].ch \in Channel
    BY <1>0 DEF Call
  <2> QED BY <1>0, <2>1, <2>2, <2>3
<1>9. ASSUME NEW c \in Csm, Crash(c)
      PROVE  NoSourceYet'
  <2>1. \A t \in Threads : pc'[t] # "idle" => /\ pc[t] # "idle" /\ call'[t] = call[t]
                                              /\ sources'[Home[t]] = sources[Home[t]]
    BY <1>0, <1>9 DEF Crash
  <2> QED BY <2>1
<1>10. ASSUME NEW c \in Csm, Restart(c)
       PROVE  NoSourceYet'
  BY <1>10 DEF Restart, threadVars
<1>11. CASE UNCHANGED vars
  BY <1>11 DEF vars, threadVars
<1> QED
  BY <1>1, <1>2, <1>4, <1>5, <1>6, <1>7, <1>8, <1>9, <1>10, <1>11 DEF Next, Outcome, Quiet

(***************************************************************************)
(* Duplicates are rejected as documented if each manager is called by one  *)
(* thread at most, whatever the targets, the timers, the network and the   *)
(* crashes do: what breaks it is the unlocked gap between the check of     *)
(* registerSource() and its store, and only for two callers.               *)
(***************************************************************************)
THEOREM OneCallerNoDuplicates == ASSUME OneCallerEach PROVE Spec => DuplicateRejected
<1> DEFINE Rejected == \A c \in Csm, h \in Channel :
              sources[c][h] # None => sources'[c][h] \in {None, sources[c][h]}
<1>1. Init => NoSourceYet
  BY DEF Init, NoSourceYet
<1>2. RegInv /\ NoSourceYet /\ [Next]_vars => NoSourceYet'
  BY NoSourceStep
<1>3. RegInv /\ NoSourceYet /\ [Next]_vars => [Rejected]_vars
  <2> SUFFICES ASSUME RegInv, NoSourceYet, Next PROVE Rejected
    OBVIOUS
  <2>1. sources \in [Csm -> [Channel -> Call \cup {None}]]
    BY DEF RegInv, TypeOK
  <2>2. CASE UNCHANGED sources
    BY <2>2
  <2>3. ASSUME NEW t \in Threads, Registered(t)
        PROVE  Rejected
    <3>1. sources[Home[t]][call[t].ch] = None
      BY <2>3 DEF Registered, NoSourceYet
    <3> QED BY <2>1, <2>3, <3>1 DEF Registered
  <2>4. ASSUME NEW d \in Csm, NEW i \in Channel, RemoveSource(d, i)
        PROVE  Rejected
    BY <2>1, <2>4 DEF RemoveSource
  <2>5. ASSUME NEW d \in Csm, Crash(d)
        PROVE  Rejected
    BY <2>1, <2>5 DEF Crash
  <2> QED
    BY <2>2, <2>3, <2>4, <2>5
    DEF Next, BeginCall, SendRequest, Timeouts, ServiceUnavailable, ReplyTimeout, Outcome, Refused,
        TakeReply, OnReg, RemoveSink, Restart, Quiet, vars
<1> QED BY <1>1, <1>2, <1>3, InvHolds, PTL DEF Spec, DuplicateRejected

-----------------------------------------------------------------------------
(* What a process knows: its factory *)

Factory == INSTANCE ControlSignalFactory

\* typeKey(M) names a type whose creator makes sources and sinks of M.
KeysFindTheirTypes(f) ==
    \A m \in DOMAIN f.reverseRegistry :
        /\ Factory!Creates(f, Factory!TypeKey(f, m))
        /\ f.registry[Factory!TypeKey(f, m)].msgT = m

\* What a registration does to the two maps, key by key.
LEMMA RegisterEffect ==
  ASSUME NEW f, NEW name, NEW msgT, NEW srvT
  PROVE  LET g == Factory!Register(f, name, msgT, srvT) IN
         /\ DOMAIN g.reverseRegistry = DOMAIN f.reverseRegistry \cup {msgT}
         /\ \A m \in DOMAIN g.reverseRegistry :
               Factory!TypeKey(g, m) = IF m = msgT THEN name ELSE Factory!TypeKey(f, m)
         /\ \A n : Factory!Creates(g, n) <=> n = name \/ Factory!Creates(f, n)
         /\ g.registry[name].msgT = msgT
         /\ \A n : Factory!Creates(f, n) /\ n # name => g.registry[n] = f.registry[n]
  BY DEF Factory!Register, Factory!Put, Factory!TypeKey, Factory!Creates

(***************************************************************************)
(* The border of the silent overwrite in Register().  From any registry    *)
(* whose keys are right, a registration leaves them right exactly if its   *)
(* name is not the key of another message type; nothing else it overwrites *)
(* (the entry of the same message type with another service type, a        *)
(* message type's earlier name) does harm.  When the name is taken from    *)
(* another type, that type's typeKey() creates sources and sinks of the    *)
(* new one.                                                                *)
(***************************************************************************)
THEOREM KeysRightUnlessNameTaken ==
  ASSUME NEW f, KeysFindTheirTypes(f), NEW name, NEW msgT, NEW srvT
  PROVE  LET g     == Factory!Register(f, name, msgT, srvT)
             taken == {m \in DOMAIN f.reverseRegistry \ {msgT} : Factory!TypeKey(f, m) = name}
         IN  /\ KeysFindTheirTypes(g) <=> taken = {}
             /\ \A m \in taken : g.registry[Factory!TypeKey(g, m)].msgT = msgT
<1> DEFINE g     == Factory!Register(f, name, msgT, srvT)
           taken == {m \in DOMAIN f.reverseRegistry \ {msgT} : Factory!TypeKey(f, m) = name}
<1>1. /\ DOMAIN g.reverseRegistry = DOMAIN f.reverseRegistry \cup {msgT}
      /\ \A m \in DOMAIN g.reverseRegistry :
            Factory!TypeKey(g, m) = IF m = msgT THEN name ELSE Factory!TypeKey(f, m)
      /\ \A n : Factory!Creates(g, n) <=> n = name \/ Factory!Creates(f, n)
      /\ g.registry[name].msgT = msgT
      /\ \A n : Factory!Creates(f, n) /\ n # name => g.registry[n] = f.registry[n]
  BY RegisterEffect
<1> HIDE DEF g
<1>2. \A m \in taken : m # msgT /\ m \in DOMAIN g.reverseRegistry /\ Factory!TypeKey(g, m) = name
  BY <1>1
<1>3. ASSUME taken = {}
      PROVE  KeysFindTheirTypes(g)
  <2> SUFFICES ASSUME NEW m \in DOMAIN g.reverseRegistry
               PROVE  /\ Factory!Creates(g, Factory!TypeKey(g, m))
                      /\ g.registry[Factory!TypeKey(g, m)].msgT = m
    BY DEF KeysFindTheirTypes
  <2>1. CASE m = msgT
    BY <1>1, <2>1
  <2>2. CASE m # msgT
    <3>1. /\ Factory!TypeKey(g, m) = Factory!TypeKey(f, m)
          /\ Factory!Creates(f, Factory!TypeKey(f, m))
          /\ f.registry[Factory!TypeKey(f, m)].msgT = m
      BY <1>1, <2>2 DEF KeysFindTheirTypes
    <3>2. Factory!TypeKey(f, m) # name
      BY <1>1, <1>3, <2>2
    <3> QED BY <1>1, <3>1, <3>2
  <2> QED BY <2>1, <2>2
<1>4. ASSUME KeysFindTheirTypes(g)
      PROVE  taken = {}
  BY <1>1, <1>2, <1>4 DEF KeysFindTheirTypes
<1>5. \A m \in taken : g.registry[Factory!TypeKey(g, m)].msgT = msgT
  BY <1>1, <1>2
<1> QED BY <1>3, <1>4, <1>5 DEF g

(***************************************************************************)
(* The theorem above is about the registries there are: what the library   *)
(* registers before main() has right keys, and so has every process that   *)
(* adds to it under names that are not taken from another type.            *)
(***************************************************************************)
LEMMA BuiltInKeys == KeysFindTheirTypes(Factory!BuiltIn)
<1> DEFINE f0 == Factory!EmptyFactory
           f1 == Factory!Register(f0, "joy", "Joy", "ControlSignalJoy")
           f2 == Factory!Register(f1, "twist", "Twist", "ControlSignalTwist")
           f3 == Factory!Register(f2, "string", "String", Factory!NoService)
<1>1. KeysFindTheirTypes(f0) /\ DOMAIN f0.reverseRegistry = {}
  BY DEF Factory!EmptyFactory, KeysFindTheirTypes
<1> HIDE DEF f0
<1>2. /\ KeysFindTheirTypes(f1)
      /\ DOMAIN f1.reverseRegistry = {"Joy"} /\ Factory!TypeKey(f1, "Joy") = "joy"
  BY <1>1, RegisterEffect, KeysRightUnlessNameTaken
<1> HIDE DEF f1
<1>3. /\ KeysFindTheirTypes(f2)
      /\ DOMAIN f2.reverseRegistry = {"Joy", "Twist"}
      /\ Factory!TypeKey(f2, "Joy") = "joy" /\ Factory!TypeKey(f2, "Twist") = "twist"
  BY <1>2, RegisterEffect, KeysRightUnlessNameTaken
<1> HIDE DEF f2
<1>4. KeysFindTheirTypes(f3)
  BY <1>3, KeysRightUnlessNameTaken
<1> QED BY <1>4 DEF f0, f1, f2, f3, Factory!BuiltIn
=============================================================================
