------------------------- MODULE KeyboardHandlerProofs -------------------------
(***************************************************************************)
(* Proofs about KeyboardHandler, for any keys, any durations that satisfy  *)
(* TimeAssumption and a queue of any length.                               *)
(***************************************************************************)
EXTENDS KeyboardHandler, SequenceTheorems, TLAPS

-----------------------------------------------------------------------------
(* The kernel's events on their way *)

KernelEvents == EvdevKeys \X Values

\* The key of the i-th event of q is not that of an event between j and i.
NoneBetween(q, j, i) == \A m \in (j + 1)..(i - 1) : q[m][1] # q[i][1]

\* q leads from the keys in view to those in held: the first event of a key goes
\* on from view, each other from the one before it, and the last leads to held.
Leads(view, q, held) ==
    /\ \A k \in EvdevKeys :
          (\A i \in 1..Len(q) : q[i][1] # k) => (k \in view <=> k \in held)
    /\ \A i \in 1..Len(q) : NoneBetween(q, 0, i) => (q[i][1] \in view <=> q[i][2] # 1)
    /\ \A i \in 1..Len(q) : \A j \in 1..(i - 1) :
          q[j][1] = q[i][1] /\ NoneBetween(q, j, i) => (q[j][2] # 0 <=> q[i][2] # 1)
    /\ \A i \in 1..Len(q) :
          (\A m \in (i + 1)..Len(q) : q[m][1] # q[i][1]) => (q[i][1] \in held <=> q[i][2] # 0)

\* What an event makes of the keys that are down.
AfterEvent(keys, k, value) == IF value = 0 THEN keys \ {k} ELSE keys \cup {k}

\* The kernel puts an event behind the others.
LEMMA LeadsAppend ==
  ASSUME NEW q \in Seq(KernelEvents), NEW view, NEW held, NEW k \in EvdevKeys,
         NEW value \in Values, Leads(view, q, held), k \in held <=> value # 1
  PROVE  Leads(view, Append(q, <<k, value>>), AfterEvent(held, k, value))
<1> DEFINE p  == Append(q, <<k, value>>)
           n  == Len(q)
           h2 == AfterEvent(held, k, value)
<1>1. /\ n \in Nat /\ Len(p) = n + 1
      /\ p[n + 1] = <<k, value>>
      /\ \A i \in 1..n : p[i] = q[i]
  BY AppendProperties
<1>2. /\ k \in h2 <=> value # 0
      /\ \A x : x # k => (x \in h2 <=> x \in held)
  BY DEF AfterEvent
<1> HIDE DEF p, h2
<1>3. \A x \in EvdevKeys : (\A i \in 1..Len(p) : p[i][1] # x) => (x \in view <=> x \in h2)
  <2> SUFFICES ASSUME NEW x \in EvdevKeys, \A i \in 1..Len(p) : p[i][1] # x
               PROVE  x \in view <=> x \in h2
    OBVIOUS
  <2>1. x # k
    BY <1>1
  <2>2. \A i \in 1..n : q[i][1] # x
    BY <1>1
  <2> QED BY <1>2, <2>1, <2>2 DEF Leads
<1>4. ASSUME NEW i \in 1..Len(p), NoneBetween(p, 0, i)
      PROVE  p[i][1] \in view <=> p[i][2] # 1
  <2>1. CASE i = n + 1
    <3>1. \A m \in 1..n : q[m][1] # k
      BY <1>1, <1>4, <2>1 DEF NoneBetween
    <3> QED BY <1>1, <2>1, <3>1 DEF Leads
  <2>2. CASE i \in 1..n
    <3>1. NoneBetween(q, 0, i)
      BY <1>1, <1>4, <2>2 DEF NoneBetween
    <3> QED BY <1>1, <2>2, <3>1 DEF Leads
  <2> QED BY <1>1, <2>1, <2>2
<1>5. ASSUME NEW i \in 1..Len(p), NEW j \in 1..(i - 1), p[j][1] = p[i][1], NoneBetween(p, j, i)
      PROVE  p[j][2] # 0 <=> p[i][2] # 1
  <2>1. CASE i = n + 1
    <3>1. j \in 1..n /\ q[j][1] = k /\ \A m \in (j + 1)..n : q[m][1] # q[j][1]
      BY <1>1, <1>5, <2>1 DEF NoneBetween
    <3> QED BY <1>1, <2>1, <3>1 DEF Leads
  <2>2. CASE i \in 1..n
    <3>1. j \in 1..n /\ q[j][1] = q[i][1] /\ NoneBetween(q, j, i)
      BY <1>1, <1>5, <2>2 DEF NoneBetween
    <3> QED BY <1>1, <2>2, <3>1 DEF Leads
  <2> QED BY <1>1, <2>1, <2>2
<1>6. ASSUME NEW i \in 1..Len(p), \A m \in (i + 1)..Len(p) : p[m][1] # p[i][1]
      PROVE  p[i][1] \in h2 <=> p[i][2] # 0
  <2>1. CASE i = n + 1
    BY <1>1, <1>2, <2>1
  <2>2. CASE i \in 1..n
    <3>1. \A m \in (i + 1)..n : q[m][1] # q[i][1]
      BY <1>1, <1>6, <2>2
    <3>2. q[i][1] # k
      BY <1>1, <1>6, <2>2
    <3> QED BY <1>1, <1>2, <2>2, <3>1, <3>2 DEF Leads
  <2> QED BY <1>1, <2>1, <2>2
<1> QED BY <1>3, <1>4, <1>5, <1>6 DEF Leads, p, h2

\* The thread takes the first one.
LEMMA LeadsTail ==
  ASSUME NEW q \in Seq(KernelEvents), NEW view, NEW held, q # <<>>, Leads(view, q, held)
  PROVE  /\ Head(q)[1] \in view <=> Head(q)[2] # 1
         /\ Leads(AfterEvent(view, Head(q)[1], Head(q)[2]), Tail(q), held)
<1> DEFINE t == Tail(q)
           n == Len(q)
           k == q[1][1]
           value == q[1][2]
           v2 == AfterEvent(view, k, value)
<1>1. /\ n \in Nat /\ n > 0 /\ Len(t) = n - 1 /\ Head(q) = q[1]
      /\ \A i \in 1..(n - 1) : t[i] = q[i + 1]
  BY HeadTailProperties, EmptySeq
<1>2. /\ k \in v2 <=> value # 0
      /\ \A x : x # k => (x \in v2 <=> x \in view)
  BY DEF AfterEvent
<1>3. k \in view <=> value # 1
  BY <1>1 DEF Leads, NoneBetween
<1> HIDE DEF t, v2
<1>4. ASSUME NEW x \in EvdevKeys, \A i \in 1..Len(t) : t[i][1] # x
      PROVE  x \in v2 <=> x \in held
  <2>1. \A i \in 2..n : q[i][1] # x
    <3> TAKE i \in 2..n
    <3>1. i - 1 \in 1..Len(t) /\ t[i - 1] = q[i]
      BY <1>1
    <3> QED BY <1>4, <3>1
  <2>2. CASE x = k
    <3>1. 1 \in 1..n /\ \A m \in (1 + 1)..n : q[m][1] # q[1][1]
      BY <1>1, <2>1, <2>2
    <3> QED BY <1>2, <2>2, <3>1 DEF Leads
  <2>3. CASE x # k
    <3>1. \A i \in 1..n : q[i][1] # x
      BY <1>1, <2>1, <2>3
    <3> QED BY <1>2, <2>3, <3>1 DEF Leads
  <2> QED BY <2>2, <2>3
<1>5. ASSUME NEW i \in 1..Len(t), NoneBetween(t, 0, i)
      PROVE  t[i][1] \in v2 <=> t[i][2] # 1
  <2>0. i + 1 \in 1..n /\ t[i] = q[i + 1]
    BY <1>1
  <2>1. NoneBetween(q, 1, i + 1)
    <3> SUFFICES ASSUME NEW m \in (1 + 1)..((i + 1) - 1) PROVE q[m][1] # q[i + 1][1]
      BY DEF NoneBetween
    <3>1. m - 1 \in (0 + 1)..(i - 1) /\ t[m - 1] = q[m]
      BY <1>1
    <3> QED BY <1>5, <2>0, <3>1 DEF NoneBetween
  <2>2. CASE q[i + 1][1] = k
    <3>1. 1 \in 1..((i + 1) - 1)
      OBVIOUS
    <3> QED BY <1>2, <2>0, <2>1, <2>2, <3>1 DEF Leads
  <2>3. CASE q[i + 1][1] # k
    <3>1. NoneBetween(q, 0, i + 1)
      BY <2>1, <2>3 DEF NoneBetween
    <3> QED BY <1>2, <2>0, <2>3, <3>1 DEF Leads
  <2> QED BY <2>2, <2>3
<1>6. ASSUME NEW i \in 1..Len(t), NEW j \in 1..(i - 1), t[j][1] = t[i][1], NoneBetween(t, j, i)
      PROVE  t[j][2] # 0 <=> t[i][2] # 1
  <2>0. /\ i + 1 \in 1..n /\ t[i] = q[i + 1]
        /\ j + 1 \in 1..((i + 1) - 1) /\ t[j] = q[j + 1]
    BY <1>1
  <2>1. NoneBetween(q, j + 1, i + 1)
    <3> SUFFICES ASSUME NEW m \in ((j + 1) + 1)..((i + 1) - 1) PROVE q[m][1] # q[i + 1][1]
      BY DEF NoneBetween
    <3>1. m - 1 \in (j + 1)..(i - 1) /\ t[m - 1] = q[m]
      BY <1>1
    <3> QED BY <1>6, <2>0, <3>1 DEF NoneBetween
  <2> QED BY <1>6, <2>0, <2>1 DEF Leads
<1>7. ASSUME NEW i \in 1..Len(t), \A m \in (i + 1)..Len(t) : t[m][1] # t[i][1]
      PROVE  t[i][1] \in held <=> t[i][2] # 0
  <2>0. i + 1 \in 1..n /\ t[i] = q[i + 1]
    BY <1>1
  <2>1. \A m \in ((i + 1) + 1)..n : q[m][1] # q[i + 1][1]
    <3> TAKE m \in ((i + 1) + 1)..n
    <3>1. m - 1 \in (i + 1)..Len(t) /\ t[m - 1] = q[m]
      BY <1>1
    <3> QED BY <1>7, <2>0, <3>1
  <2> QED BY <2>0, <2>1 DEF Leads
<1> QED BY <1>1, <1>3, <1>4, <1>5, <1>6, <1>7 DEF Leads, t, v2

-----------------------------------------------------------------------------
(* The invariant *)

\* The bytes of strokes.
Chars == {"ESC", "[", "A", "D", "w", "a", "d"}

\* On a terminal the thread keeps the listener's view; what is in the queue and
\* on its way are bytes, within the bound.
TerminalInv ==
    mode = "STDIN" =>
        /\ ~faulty /\ told = keyDown
        /\ queue \in Seq(Chars) /\ cut \in Seq(Chars)
        /\ Len(queue) + Len(cut) <= MaxQueue
        /\ cut # <<>> => torn

\* Under evdev the keyboard does, and the events of the queue lead from the
\* listener's view to the keys that are down.
EventsInv ==
    mode = "EVDEV" =>
        /\ pc \in {"poll", "sweep"} /\ keyDown = {} /\ cut = <<>> /\ now = 0
        /\ queue \in Seq(KernelEvents)
        /\ ~faulty => \E view \in SUBSET EvdevKeys :
              /\ view \cap Known = told
              /\ ctrlHeld => view \cap Controls # {}
              /\ Leads(view, queue, down)

\* The clock of an iteration was sampled in that iteration.
NowInv == pc \in {"read", "sweep"} => now <= spent

ReaderInv == TypeOK /\ TerminalInv /\ EventsInv /\ NowInv

\* No age of the model exceeds the cap.
LEMMA Durations ==
  /\ PollTime \in Nat /\ MaxDelay \in Nat /\ MaxQueue \in Nat /\ PollTime > 0
  /\ AgeCap \in Nat /\ PollTime + MaxDelay <= AgeCap
<1>1. Lag \in Nat
  BY TimeAssumption DEF Lag
<1> QED BY <1>1, TimeAssumption DEF AgeCap

\* An instant that gets older stays in range.
LEMMA OlderType == \A age \in Ages : Older(age) \in Ages
  BY Durations DEF Older, Ages

\* A stroke is one to three bytes.
LEMMA BytesType ==
  ASSUME NEW k \in TermKeys
  PROVE  Bytes(k) \in Seq(Chars) /\ Len(Bytes(k)) \in 1..3
<1>1. /\ Bytes("ARROW_UP") = <<"ESC", "[", "A">> /\ Bytes("ARROW_LEFT") = <<"ESC", "[", "D">>
      /\ Bytes("ESCAPE") = <<"ESC">> /\ Bytes("W") = <<"w">>
      /\ Bytes("A") = <<"a">> /\ Bytes("D") = <<"d">>
  BY DEF Bytes
<1>2. ASSUME NEW S, NEW a \in S, NEW b \in S, NEW c \in S
      PROVE  /\ <<a>> \in Seq(S) /\ Len(<<a>>) = 1
             /\ <<a, b, c>> \in Seq(S) /\ Len(<<a, b, c>>) = 3
  OBVIOUS
<1>3. k \in {"ARROW_UP", "ARROW_LEFT", "ESCAPE", "W", "A", "D"}
  BY KeysAssumption DEF Known
<1>4. /\ "ESC" \in Chars /\ "[" \in Chars /\ "A" \in Chars /\ "D" \in Chars
      /\ "w" \in Chars /\ "a" \in Chars /\ "d" \in Chars
  BY DEF Chars
<1>5. /\ <<"ESC", "[", "A">> \in Seq(Chars) /\ Len(<<"ESC", "[", "A">>) = 3
      /\ <<"ESC", "[", "D">> \in Seq(Chars) /\ Len(<<"ESC", "[", "D">>) = 3
  BY <1>2, <1>4
<1>6. \A c \in {"ESC", "w", "a", "d"} : <<c>> \in Seq(Chars) /\ Len(<<c>>) = 1
  BY <1>2, <1>4
<1>7. CASE k \in {"ARROW_UP", "ARROW_LEFT"}
  <2>1. Bytes(k) \in {<<"ESC", "[", "A">>, <<"ESC", "[", "D">>}
    BY <1>1, <1>7
  <2>2. Bytes(k) \in Seq(Chars) /\ Len(Bytes(k)) = 3
    BY <1>5, <2>1, Zenon
  <2> QED BY <2>2
<1>8. CASE k \in {"ESCAPE", "W", "A", "D"}
  <2>1. Bytes(k) \in {<<"ESC">>, <<"w">>, <<"a">>, <<"d">>}
    BY <1>1, <1>8
  <2>2. Bytes(k) \in Seq(Chars) /\ Len(Bytes(k)) = 1
    BY <1>6, <2>1, Zenon
  <2> QED BY <2>2
<1> QED BY <1>3, <1>7, <1>8

\* The initial state satisfies the invariant.
LEMMA InitInv == Init => ReaderInv
<1> SUFFICES ASSUME Init PROVE ReaderInv
  OBVIOUS
<1>1. mode \in {"STDIN", "EVDEV"} /\ (mode = "STDIN" => ~faulty)
  BY DEF Init, InputMode
<1>2. TypeOK
  <2>1. /\ faulty \in BOOLEAN /\ ctrlHeld \in BOOLEAN /\ torn \in BOOLEAN /\ heard \in BOOLEAN
    BY DEF Init
  <2>2. 0 \in Ages /\ 0 \in 0..(PollTime + MaxDelay) /\ Len(<<>>) <= MaxQueue
    BY Durations DEF Ages
  <2>3. lastEvent \in [Known -> Ages] /\ strokeAge \in [TermKeys -> Ages]
    BY <2>2 DEF Init
  <2> QED BY <1>1, <2>1, <2>2, <2>3 DEF Init, TypeOK, UserKeys, NoEvent
<1>3. TerminalInv
  BY <1>1, Durations, EmptySeq DEF Init, TerminalInv
<1>4. EventsInv
  <2>1. Leads({}, <<>>, {})
    BY DEF Leads
  <2>2. queue \in Seq(KernelEvents)
    BY DEF Init
  <2> QED BY <1>1, <2>1, <2>2 DEF Init, EventsInv
<1>5. NowInv
  BY DEF Init, NowInv
<1> QED BY <1>2, <1>3, <1>4, <1>5 DEF ReaderInv

-----------------------------------------------------------------------------
(* The user, the terminal and time keep it *)

LEMMA TickInv == ReaderInv /\ Tick => ReaderInv'
<1> SUFFICES ASSUME ReaderInv, Tick PROVE ReaderInv'
  OBVIOUS
<1>1. TypeOK'
  <2>1. UserKeys' = UserKeys
    BY DEF Tick, UserKeys
  <2>2. spent' \in 0..(PollTime + MaxDelay) /\ now' \in Ages
    BY Durations DEF ReaderInv, TypeOK, NowInv, Tick, Ages
  <2>3. lastEvent' \in [Known -> Ages] /\ strokeAge' \in [TermKeys -> Ages]
    BY OlderType, Durations DEF ReaderInv, TypeOK, Tick, Ages
  <2> QED BY <2>1, <2>2, <2>3 DEF ReaderInv, TypeOK, Tick, listener
<1>2. TerminalInv' /\ EventsInv'
  BY DEF ReaderInv, TerminalInv, EventsInv, Tick, listener
<1>3. NowInv'
  BY Durations DEF ReaderInv, TypeOK, NowInv, Tick, Ages
<1> QED BY <1>1, <1>2, <1>3 DEF ReaderInv

\* Bytes arrive behind the others, and the thread may wake.
LEMMA ArriveInv ==
  ASSUME ReaderInv, NEW bytes \in Seq(Chars), mode = "STDIN", Arrive(bytes),
         pc' = pc, now' = now
  PROVE  /\ queue' \in Seq(Chars) /\ Len(queue') = Len(queue) + Len(bytes)
         /\ Len(queue) \in Nat /\ Len(bytes) \in Nat
         /\ spent' \in 0..(PollTime + MaxDelay)
         /\ NowInv'
<1>1. queue \in Seq(Chars)
  BY DEF ReaderInv, TerminalInv
<1>2. /\ queue' \in Seq(Chars) /\ Len(queue') = Len(queue) + Len(bytes)
      /\ Len(queue) \in Nat /\ Len(bytes) \in Nat
  BY <1>1, ConcatProperties, LenProperties DEF Arrive
<1>3. spent' \in 0..(PollTime + MaxDelay) /\ spent' >= spent
  BY Durations DEF ReaderInv, TypeOK, Arrive
<1>4. NowInv'
  BY <1>3, Durations DEF ReaderInv, TypeOK, NowInv, Ages
<1> QED BY <1>2, <1>3, <1>4

\* A stroke is stamped.
LEMMA StruckType ==
  ASSUME TypeOK, mode = "STDIN", NEW k \in TermKeys, Struck(k)
  PROVE  struck' \subseteq UserKeys /\ strokeAge' \in [TermKeys -> Ages]
  BY Durations DEF TypeOK, Struck, UserKeys, Ages

\* A stroke that comes in one piece.
LEMMA StrikeInv ==
  ASSUME ReaderInv, mode = "STDIN", NEW k \in TermKeys, Strike(k),
         pc' = pc, now' = now, mode' = mode, faulty' = faulty, torn' = torn, cut' = cut,
         got' = got, keyState' = keyState, told' = told, event' = event,
         heard' \in BOOLEAN, down' \subseteq UserKeys, repeating' \in down' \cup {None}
  PROVE  ReaderInv'
<1>1. /\ queue' \in Seq(Chars) /\ Len(queue') = Len(queue) + Len(Bytes(k))
      /\ Len(queue) \in Nat /\ Len(Bytes(k)) \in Nat
      /\ spent' \in 0..(PollTime + MaxDelay)
      /\ NowInv'
  BY ArriveInv, BytesType DEF Strike
<1>2. struck' \subseteq UserKeys /\ strokeAge' \in [TermKeys -> Ages]
  BY StruckType DEF Strike, ReaderInv
<1>3. UserKeys' = UserKeys
  BY DEF UserKeys
<1>4. Len(queue') <= MaxQueue
  BY <1>1 DEF Strike
<1>5. TypeOK'
  BY <1>1, <1>2, <1>3, <1>4 DEF ReaderInv, TypeOK, keyState
<1>6. cut' = <<>> /\ Len(cut') = 0
  BY EmptySeq DEF ReaderInv, TerminalInv, Strike
<1>7. TerminalInv'
  BY <1>1, <1>4, <1>6, EmptySeq DEF ReaderInv, TerminalInv, keyState
<1>8. EventsInv'
  BY DEF EventsInv
<1> QED BY <1>1, <1>5, <1>7, <1>8 DEF ReaderInv

LEMMA PressInv == ASSUME ReaderInv, NEW k \in TermKeys, Press(k) PROVE ReaderInv'
<1>1. UserKeys = TermKeys
  BY DEF Press, UserKeys
<1>2. heard' \in BOOLEAN /\ down' \subseteq UserKeys /\ repeating' \in down' \cup {None}
  BY <1>1 DEF Press
<1> QED BY <1>2, StrikeInv DEF Press

LEMMA RepeatInv == ReaderInv /\ Repeat => ReaderInv'
<1> SUFFICES ASSUME ReaderInv, Repeat PROVE ReaderInv'
  OBVIOUS
<1>1. repeating \in TermKeys /\ heard \in BOOLEAN
  BY DEF ReaderInv, TypeOK, Repeat, UserKeys
<1>2. heard' \in BOOLEAN /\ down' \subseteq UserKeys /\ repeating' \in down' \cup {None}
  BY <1>1 DEF ReaderInv, TypeOK, Repeat, listener
<1> QED BY <1>1, <1>2, StrikeInv DEF Repeat, listener

LEMMA BeginRepeatInv == ASSUME ReaderInv, NEW k \in TermKeys, BeginRepeat(k) PROVE ReaderInv'
<1>1. UserKeys = TermKeys
  BY DEF BeginRepeat, UserKeys
<1>2. heard' \in BOOLEAN /\ down' \subseteq UserKeys /\ repeating' \in down' \cup {None}
  BY <1>1 DEF BeginRepeat, ReaderInv, TypeOK, listener
<1> QED BY <1>2, StrikeInv DEF BeginRepeat, listener

LEMMA LetGoInv == ReaderInv /\ LetGo => ReaderInv'
<1> SUFFICES ASSUME ReaderInv, LetGo PROVE ReaderInv'
  OBVIOUS
<1>1. TypeOK'
  BY DEF ReaderInv, TypeOK, LetGo, UserKeys, keyState
<1>2. TerminalInv'
  BY DEF ReaderInv, TerminalInv, LetGo, keyState
<1>3. EventsInv' /\ NowInv'
  BY DEF ReaderInv, EventsInv, NowInv, LetGo, keyState
<1> QED BY <1>1, <1>2, <1>3 DEF ReaderInv

\* The parts of a sequence are no longer than the whole.
LEMMA PressTornInv == ASSUME ReaderInv, NEW k \in TermKeys, PressTorn(k) PROVE ReaderInv'
<1> DEFINE all == Bytes(k)
<1>1. all \in Seq(Chars) /\ Len(all) \in 1..3
  BY BytesType
<1>2. PICK n \in 1..(Len(all) - 1) :
        /\ Arrive(SubSeq(all, 1, n))
        /\ cut' = SubSeq(all, n + 1, Len(all))
  BY DEF PressTorn
<1> HIDE DEF all
<1>3. /\ SubSeq(all, 1, n) \in Seq(Chars) /\ Len(SubSeq(all, 1, n)) = n
      /\ cut' \in Seq(Chars) /\ Len(cut') = Len(all) - n
  BY <1>1, <1>2, SubSeqProperties
<1>4. /\ queue' \in Seq(Chars) /\ Len(queue') = Len(queue) + n
      /\ Len(queue) \in Nat
      /\ spent' \in 0..(PollTime + MaxDelay)
      /\ NowInv'
  BY <1>2, <1>3, ArriveInv DEF PressTorn
<1>5. struck' \subseteq UserKeys /\ strokeAge' \in [TermKeys -> Ages]
  BY StruckType DEF PressTorn, ReaderInv
<1>6. Len(queue') + Len(cut') <= MaxQueue /\ Len(queue') <= MaxQueue
  BY <1>1, <1>3, <1>4, Durations DEF PressTorn, all
<1>7. UserKeys' = UserKeys /\ torn' \in BOOLEAN
  BY DEF UserKeys, PressTorn
<1>8. TypeOK'
  BY <1>4, <1>5, <1>6, <1>7 DEF ReaderInv, TypeOK, PressTorn, keyState, listener
<1>9. TerminalInv' /\ EventsInv'
  BY <1>3, <1>4, <1>6 DEF ReaderInv, TerminalInv, EventsInv, PressTorn, keyState, listener
<1> QED BY <1>4, <1>8, <1>9 DEF ReaderInv

LEMMA RestInv == ReaderInv /\ RestArrives => ReaderInv'
<1> SUFFICES ASSUME ReaderInv, RestArrives PROVE ReaderInv'
  OBVIOUS
<1>1. mode = "STDIN" /\ cut \in Seq(Chars)
  BY DEF ReaderInv, TypeOK, TerminalInv, EventsInv, RestArrives
<1>2. /\ queue' \in Seq(Chars) /\ Len(queue') = Len(queue) + Len(cut)
      /\ spent' \in 0..(PollTime + MaxDelay)
      /\ NowInv'
  BY <1>1, ArriveInv DEF RestArrives
<1>3. Len(queue') <= MaxQueue /\ cut' = <<>> /\ cut' \in Seq(Chars) /\ Len(cut') = 0
  BY <1>1, <1>2, EmptySeq DEF ReaderInv, TerminalInv, RestArrives
<1>4. Len(queue') + Len(cut') <= MaxQueue
  BY <1>2, <1>3 DEF ReaderInv, TerminalInv
<1>5. UserKeys' = UserKeys
  BY DEF UserKeys, RestArrives
<1>6. TypeOK'
  BY <1>2, <1>3, <1>5 DEF ReaderInv, TypeOK, RestArrives, keyState, listener
<1>7. TerminalInv' /\ EventsInv'
  BY <1>1, <1>2, <1>3, <1>4
  DEF ReaderInv, TerminalInv, EventsInv, RestArrives, keyState, listener
<1> QED BY <1>2, <1>6, <1>7 DEF ReaderInv

-----------------------------------------------------------------------------
(* The thread keeps it *)

\* What does not touch the queue, the view or the keys.
LEMMA LoopInv ==
  ReaderInv /\ (PollReturns \/ SampleNow \/ NextIteration) => ReaderInv'
<1> SUFFICES ASSUME ReaderInv, PollReturns \/ SampleNow \/ NextIteration PROVE ReaderInv'
  OBVIOUS
<1> USE DEF ReaderInv
<1>1. CASE PollReturns
  BY <1>1 DEF TypeOK, TerminalInv, EventsInv, NowInv, PollReturns, UserKeys, user, keyState, listener
<1>2. CASE SampleNow
  <2>1. now' \in Ages /\ NowInv'
    BY <1>2, Durations DEF TypeOK, NowInv, SampleNow, Ages, user
  <2>2. TypeOK'
    BY <1>2, <2>1 DEF TypeOK, SampleNow, UserKeys, user, keyState, listener
  <2>3. TerminalInv' /\ EventsInv'
    BY <1>2 DEF TerminalInv, EventsInv, SampleNow, user, keyState, listener
  <2> QED BY <2>1, <2>2, <2>3
<1>3. CASE NextIteration
  <2>1. now' \in Ages /\ spent' \in 0..(PollTime + MaxDelay) /\ NowInv'
    BY <1>3, Durations DEF NowInv, NextIteration, Ages
  <2>2. TypeOK'
    BY <1>3, <2>1 DEF TypeOK, NextIteration, UserKeys, NoEvent, user, keyState
  <2>3. TerminalInv' /\ EventsInv'
    BY <1>3 DEF TerminalInv, EventsInv, NextIteration, user, keyState
  <2> QED BY <2>1, <2>2, <2>3
<1> QED BY <1>1, <1>2, <1>3

\* A byte is taken from the queue.
LEMMA ReadByteInv ==
  ASSUME ReaderInv, mode = "STDIN", mode' = mode, user' = user,
         queue # <<>>, queue' = Tail(queue)
  PROVE  /\ Head(queue) \in Chars /\ queue' \in Seq(Chars)
         /\ Len(queue') <= MaxQueue /\ Len(queue') + Len(cut') <= MaxQueue
<1>1. queue \in Seq(Chars) /\ cut \in Seq(Chars) /\ Len(queue) + Len(cut) <= MaxQueue
  BY DEF ReaderInv, TerminalInv
<1>2. Head(queue) \in Chars /\ queue' \in Seq(Chars) /\ Len(queue') = Len(queue) - 1
  BY <1>1, HeadTailProperties
<1> QED BY <1>1, <1>2, LenProperties, Durations DEF user

\* A thread that reads bytes reads from the terminal.
LEMMA ReadingIsTerminal == ASSUME ReaderInv, pc = "read" PROVE mode = "STDIN"
  BY DEF ReaderInv, TypeOK, EventsInv

\* Two bytes in a row.
LEMMA PairAppended ==
  ASSUME NEW S, NEW a \in S, NEW b \in S
  PROVE  Append(<<a>>, b) = <<a, b>>
<1> DEFINE s == Append(<<a>>, b)
           t == <<a, b>>
<1>1. <<a>> \in Seq(S) /\ Len(<<a>>) = 1 /\ <<a>>[1] = a
  OBVIOUS
<1>2. t \in Seq(S) /\ Len(t) = 2 /\ t[1] = a /\ t[2] = b
  OBVIOUS
<1>3. s \in Seq(S) /\ Len(s) = 2 /\ s[1] = a /\ s[2] = b
  BY <1>1, AppendProperties
<1> HIDE DEF s, t
<1>4. \A i \in 1..Len(s) : s[i] = t[i]
  BY <1>2, <1>3
<1>5. s = t
  BY <1>2, <1>3, <1>4, SeqEqual
<1> QED BY <1>5 DEF s, t

\* A byte that leaves the decoder wanting more.
LEMMA GotGrows ==
  ASSUME ReaderInv, ReadOn
  PROVE  \/ Head(queue) = "ESC" /\ got' = <<"ESC">>
         \/ Head(queue) = "[" /\ got' = <<"ESC", "[">>
<1>1. CASE got = <<>>
  <2>1. Head(queue) = "ESC"
    BY <1>1 DEF ReadOn, ReadByte, After, DecodeAscii, More, None
  <2> QED BY <1>1, <2>1 DEF ReadOn
<1>2. CASE got = <<"ESC">>
  <2>1. Head(queue) = "["
    BY <1>2 DEF ReadOn, ReadByte, After, More, None
  <2>2. "ESC" \in Chars /\ "[" \in Chars
    BY DEF Chars
  <2>3. Append(<<"ESC">>, "[") = <<"ESC", "[">>
    BY <2>2, PairAppended
  <2> QED BY <1>2, <2>1, <2>3, Zenon DEF ReadOn
<1>3. CASE got = <<"ESC", "[">>
  BY <1>3 DEF ReadOn, ReadByte, After, DecodeArrow, More, None
<1> QED BY <1>1, <1>2, <1>3 DEF ReaderInv, TypeOK

LEMMA ReadOnInv == ReaderInv /\ ReadOn => ReaderInv'
<1> SUFFICES ASSUME ReaderInv, ReadOn PROVE ReaderInv'
  OBVIOUS
<1>1. mode = "STDIN"
  BY ReadingIsTerminal DEF ReadOn, ReadByte
<1>2. /\ Head(queue) \in Chars /\ queue' \in Seq(Chars)
      /\ Len(queue') <= MaxQueue /\ Len(queue') + Len(cut') <= MaxQueue
  BY <1>1, ReadByteInv DEF ReadOn, ReadByte
<1>3. got' \in {<<>>, <<"ESC">>, <<"ESC", "[">>}
  BY GotGrows
<1>4. TypeOK'
  BY <1>2, <1>3 DEF ReaderInv, TypeOK, ReadOn, UserKeys, user, keyState, listener
<1>5. TerminalInv' /\ EventsInv' /\ NowInv'
  BY <1>1, <1>2
  DEF ReaderInv, TerminalInv, EventsInv, NowInv, ReadOn, user, keyState, listener
<1> QED BY <1>4, <1>5 DEF ReaderInv

LEMMA ReadNothingInv == ReaderInv /\ ReadNothing => ReaderInv'
<1> SUFFICES ASSUME ReaderInv, ReadNothing PROVE ReaderInv'
  OBVIOUS
<1>1. mode = "STDIN" /\ pc = "read"
  BY ReadingIsTerminal DEF ReadNothing, ReadByte
<1>2. queue' \in Seq(Chars) /\ Len(queue') <= MaxQueue /\ Len(queue') + Len(cut') <= MaxQueue
  <2>1. CASE ReadByte(None)
    BY <1>1, <2>1, ReadByteInv DEF ReadNothing, ReadByte
  <2>2. CASE UNCHANGED queue
    BY <1>1, <2>2 DEF ReaderInv, TypeOK, TerminalInv, ReadNothing, user
  <2> QED BY <2>1, <2>2 DEF ReadNothing
<1>3. TypeOK'
  BY <1>2 DEF ReaderInv, TypeOK, ReadNothing, UserKeys, user, keyState, listener
<1>4. TerminalInv' /\ EventsInv' /\ NowInv'
  BY <1>1, <1>2
  DEF ReaderInv, TerminalInv, EventsInv, NowInv, ReadNothing, user, keyState, listener
<1> QED BY <1>3, <1>4 DEF ReaderInv

\* The listener hears of a known key.
LEMMA SayType ==
  ASSUME TypeOK, NEW k \in Known, NEW kind \in {"PRESS", "HOLD", "RELEASE"}, Say(k, kind)
  PROVE  /\ told' = IF kind = "RELEASE" THEN told \ {k} ELSE told \cup {k}
         /\ told' \subseteq Known
         /\ event' = <<k, kind>>
         /\ event' \in (Known \cup {"CTRL_C"}) \X {"PRESS", "HOLD", "RELEASE"}
<1>1. k # "CTRL_C"
  BY DEF Known
<1> QED BY <1>1 DEF Say, TypeOK

LEMMA ReadKeyInv == ASSUME ReaderInv, NEW k \in Known, ReadKey(k) PROVE ReaderInv'
<1>1. mode = "STDIN" /\ pc = "read"
  BY ReadingIsTerminal DEF ReadKey, ReadByte
<1>2. queue' \in Seq(Chars) /\ Len(queue') <= MaxQueue /\ Len(queue') + Len(cut') <= MaxQueue
  BY <1>1, ReadByteInv DEF ReadKey, ReadByte
<1>3. /\ told' = told \cup {k} /\ told' \subseteq Known
      /\ event' \in (Known \cup {"CTRL_C"}) \X {"PRESS", "HOLD", "RELEASE"}
  BY SayType DEF ReadKey, ReaderInv
<1>4. heard' \in BOOLEAN /\ lastEvent' \in [Known -> Ages]
  BY DEF ReaderInv, TypeOK, ReadKey, Renew
<1>5. TypeOK'
  BY <1>2, <1>3, <1>4 DEF ReaderInv, TypeOK, ReadKey, UserKeys, user
<1>6. TerminalInv' /\ EventsInv' /\ NowInv'
  BY <1>1, <1>2, <1>3 DEF ReaderInv, TerminalInv, EventsInv, NowInv, ReadKey, user
<1> QED BY <1>5, <1>6 DEF ReaderInv

LEMMA ReleaseInv == ASSUME ReaderInv, NEW k \in Known, Release(k) PROVE ReaderInv'
<1>1. mode = "STDIN" /\ k \in keyDown
  BY DEF ReaderInv, TypeOK, EventsInv, Release, Due
<1>2. /\ told' = told \ {k} /\ told' \subseteq Known
      /\ event' \in (Known \cup {"CTRL_C"}) \X {"PRESS", "HOLD", "RELEASE"}
  BY SayType DEF Release, ReaderInv
<1>3. lastEvent' \in [Known -> Ages]
  BY Durations DEF ReaderInv, TypeOK, Release, Ages
<1>4. TypeOK'
  BY <1>2, <1>3 DEF ReaderInv, TypeOK, Release, UserKeys, user
<1>5. TerminalInv' /\ EventsInv' /\ NowInv'
  BY <1>1, <1>2 DEF ReaderInv, TerminalInv, EventsInv, NowInv, Release, user
<1> QED BY <1>4, <1>5 DEF ReaderInv

-----------------------------------------------------------------------------
(* The keyboard under evdev keeps it *)

\* An event that is put into the queue, or lost.
LEMMA KernelEventInv ==
  ASSUME ReaderInv, NEW k \in EvdevKeys, NEW value \in Values, KernelEvent(k, value)
  PROVE  ReaderInv'
<1>1. mode = "EVDEV" /\ queue \in Seq(KernelEvents) /\ UserKeys = EvdevKeys /\ UserKeys' = EvdevKeys
  BY DEF ReaderInv, EventsInv, KernelEvent, UserKeys
<1>2. /\ down' = AfterEvent(down, k, value)
      /\ k \in down <=> value # 1
      /\ down' \subseteq EvdevKeys /\ repeating' \in down' \cup {None}
  <2>1. None \notin EvdevKeys
    BY KeysAssumption DEF None, Known, Controls
  <2> QED BY <1>1, <2>1 DEF ReaderInv, TypeOK, KernelEvent, AfterEvent
<1>3. <<k, value>> \in KernelEvents
  BY DEF KernelEvents
<1>4. queue' \in Seq(KernelEvents) /\ Len(queue') <= MaxQueue
  <2>1. CASE queue' = Append(queue, <<k, value>>)
    BY <1>1, <1>3, <2>1, AppendProperties, LenProperties, Durations DEF KernelEvent
  <2>2. CASE UNCHANGED queue
    BY <1>1, <2>2 DEF ReaderInv, TypeOK
  <2> QED BY <2>1, <2>2 DEF KernelEvent
<1>5. TypeOK'
  BY <1>1, <1>2, <1>4 DEF ReaderInv, TypeOK, KernelEvent, keyState, listener
<1>6. EventsInv'
  <2>1. ASSUME ~faulty
        PROVE  \E view \in SUBSET EvdevKeys :
                 /\ view \cap Known = told
                 /\ ctrlHeld => view \cap Controls # {}
                 /\ Leads(view, queue', down')
    <3>1. PICK view \in SUBSET EvdevKeys :
                 /\ view \cap Known = told
                 /\ ctrlHeld => view \cap Controls # {}
                 /\ Leads(view, queue, down)
      BY <1>1, <2>1 DEF ReaderInv, EventsInv
    <3>2. Leads(view, Append(queue, <<k, value>>), AfterEvent(down, k, value))
      BY <1>1, <1>2, <3>1, LeadsAppend
    <3>3. Leads(view, queue', down')
      BY <1>2, <2>1, <3>2 DEF KernelEvent
    <3> QED BY <3>1, <3>3
  <2> QED BY <1>1, <1>4, <2>1 DEF ReaderInv, EventsInv, KernelEvent, keyState, listener
<1>7. TerminalInv' /\ NowInv'
  BY <1>1 DEF ReaderInv, TerminalInv, NowInv, KernelEvent
<1> QED BY <1>5, <1>6, <1>7 DEF ReaderInv

\* An event that is read: the view of the keys goes on by it.
LEMMA ReadEventInv == ReaderInv /\ ReadEvent => ReaderInv'
<1> SUFFICES ASSUME ReaderInv, ReadEvent PROVE ReaderInv'
  OBVIOUS
<1> DEFINE k == Head(queue)[1]
           value == Head(queue)[2]
<1>1. mode = "EVDEV" /\ queue \in Seq(KernelEvents) /\ UserKeys' = UserKeys
  BY DEF ReaderInv, EventsInv, ReadEvent, UserKeys
<1>2. /\ Head(queue) \in KernelEvents /\ queue' \in Seq(KernelEvents)
      /\ Len(queue') <= MaxQueue
  BY <1>1, HeadTailProperties, LenProperties, Durations DEF ReaderInv, TypeOK, ReadEvent
<1>3. /\ k \in EvdevKeys /\ value \in Values
  BY <1>2 DEF KernelEvents
<1>4. ctrlHeld' = IF k \in Controls THEN value # 0 ELSE ctrlHeld
  BY DEF ReadEvent
<1>5. ctrlHeld' \in BOOLEAN
  BY <1>4 DEF ReaderInv, TypeOK
<1>6. /\ told' = IF k \in Known THEN AfterEvent(told, k, value) ELSE told
      /\ event' \in ((Known \cup {"CTRL_C"}) \X {"PRESS", "HOLD", "RELEASE"}) \cup {NoEvent}
  <2>1. CASE k = "C" /\ ctrlHeld /\ value = 1
    <3>1. k \notin Known /\ Say("CTRL_C", "PRESS")
      BY <2>1 DEF ReadEvent, Known
    <3> QED BY <3>1 DEF Say
  <2>2. CASE ~(k = "C" /\ ctrlHeld /\ value = 1) /\ EventKey(k) # None
    <3>1. k \in Known
      BY <2>2 DEF EventKey
    <3>2. \E kind \in {"PRESS", "HOLD", "RELEASE"} :
             Say(k, kind) /\ (kind = "RELEASE" <=> value = 0)
      BY <1>3, <2>2 DEF ReadEvent, Values
    <3> QED BY <3>1, <3>2, SayType DEF ReaderInv, AfterEvent
  <2>3. CASE ~(k = "C" /\ ctrlHeld /\ value = 1) /\ EventKey(k) = None
    <3>1. k \notin Known
      BY <2>3 DEF EventKey, Known, None
    <3>2. told' = told /\ event' = event
      BY <2>3 DEF ReadEvent
    <3> QED BY <3>1, <3>2 DEF ReaderInv, TypeOK
  <2> QED BY <2>1, <2>2, <2>3
<1>7. told' \subseteq Known
  BY <1>6 DEF ReaderInv, TypeOK, AfterEvent
<1> HIDE DEF k, value
<1>8. TypeOK'
  BY <1>1, <1>2, <1>5, <1>6, <1>7 DEF ReaderInv, TypeOK, ReadEvent, user
<1>9. ASSUME ~faulty
      PROVE  \E view \in SUBSET EvdevKeys :
               /\ view \cap Known = told'
               /\ ctrlHeld' => view \cap Controls # {}
               /\ Leads(view, queue', down')
  <2>1. PICK view \in SUBSET EvdevKeys :
               /\ view \cap Known = told
               /\ ctrlHeld => view \cap Controls # {}
               /\ Leads(view, queue, down)
    BY <1>1, <1>9 DEF ReaderInv, EventsInv
  <2> DEFINE next == AfterEvent(view, k, value)
  <2>2. queue # <<>> /\ queue' = Tail(queue) /\ down' = down
    BY DEF ReadEvent, user
  <2>3. Leads(next, queue', down')
    BY <1>1, <2>1, <2>2, LeadsTail DEF k, value
  <2>4. next \in SUBSET EvdevKeys /\ next \cap Known = told'
    BY <1>3, <1>6, <2>1 DEF AfterEvent
  <2>5. ctrlHeld' => next \cap Controls # {}
    BY <1>4, <2>1 DEF AfterEvent
  <2> QED BY <2>3, <2>4, <2>5
<1>10. EventsInv'
  BY <1>1, <1>2, <1>9 DEF ReaderInv, EventsInv, ReadEvent, user
<1>11. TerminalInv' /\ NowInv'
  BY <1>1, Durations
  DEF ReaderInv, TypeOK, TerminalInv, EventsInv, NowInv, ReadEvent, user
<1> QED BY <1>8, <1>10, <1>11 DEF ReaderInv

-----------------------------------------------------------------------------
(* What follows *)

\* Every step keeps the invariant.
LEMMA StepInv == ReaderInv /\ [Next]_vars => ReaderInv'
<1> SUFFICES ASSUME ReaderInv, [Next]_vars PROVE ReaderInv'
  OBVIOUS
<1>1. CASE UNCHANGED vars
  BY <1>1 DEF ReaderInv, TypeOK, TerminalInv, EventsInv, NowInv, UserKeys, vars, user, keyState,
              listener
<1> QED
  BY <1>1, TickInv, PressInv, BeginRepeatInv, PressTornInv, RepeatInv, LetGoInv, RestInv, LoopInv,
     ReadOnInv, ReadNothingInv, ReadKeyInv, ReleaseInv, KernelEventInv, ReadEventInv DEF Next

\* It holds in every reachable state.
LEMMA InvHolds == Spec => []ReaderInv
  BY InitInv, StepInv, PTL DEF Spec

(***************************************************************************)
(* The types are invariant, and so are the bounds of the queue and of the  *)
(* ages: no iteration of the loop is longer than the time limits allow.    *)
(***************************************************************************)
THEOREM TypeCorrect == Spec => []TypeOK
<1>1. ReaderInv => TypeOK
  BY DEF ReaderInv
<1> QED BY <1>1, InvHolds, PTL

(***************************************************************************)
(* Under evdev what the listener knows is what the keyboard is, but for    *)
(* the events that are still in the queue, with any keys in any number.    *)
(***************************************************************************)
THEOREM ViewIsTheKeyboards == Spec => []ViewFollowsKeys
<1>1. ReaderInv => ViewFollowsKeys
  <2> SUFFICES ASSUME ReaderInv, mode = "EVDEV", ~faulty
               PROVE  ViewFollowsKeys
    BY DEF ViewFollowsKeys
  <2>1. PICK view \in SUBSET EvdevKeys :
               /\ view \cap Known = told
               /\ ctrlHeld => view \cap Controls # {}
               /\ Leads(view, queue, down)
    BY DEF ReaderInv, EventsInv
  <2>2. \A k \in EvdevKeys : Silent(k) => (k \in view <=> k \in down)
    BY <2>1 DEF Leads, Silent
  <2>3. \A i \in 1..Len(queue) : FirstOf(i) => (queue[i][1] \in view <=> queue[i][2] # 1)
    BY <2>1 DEF Leads, NoneBetween, FirstOf
  <2>4. ctrlHeld => \E k \in Controls \cap EvdevKeys : k \in down \/ ~Silent(k)
    BY <2>1, <2>2
  <2> QED BY <2>1, <2>2, <2>3, <2>4 DEF ViewFollowsKeys
<1> QED BY <1>1, InvHolds, PTL

\* Under evdev the first event of the queue continues the listener's view.
LEMMA HeadContinues ==
  ASSUME ReaderInv, mode = "EVDEV", ~faulty, queue # <<>>, Head(queue)[1] \in Known
  PROVE  Head(queue)[1] \in told <=> Head(queue)[2] # 1
<1>1. PICK view \in SUBSET EvdevKeys : view \cap Known = told /\ Leads(view, queue, down)
  BY DEF ReaderInv, EventsInv
<1>2. queue \in Seq(KernelEvents)
  BY DEF ReaderInv, EventsInv
<1> QED BY <1>1, <1>2, LeadsTail

\* The event of a step is one that the listener may expect.
LEMMA EventExpected == ReaderInv /\ [Next]_vars => [Abstract!Next]_(Abstract!vars)
<1> SUFFICES ASSUME ReaderInv, [Next]_vars PROVE [Abstract!Next]_(Abstract!vars)
  OBVIOUS
<1>0. faulty' = faulty
  BY DEF Next, vars, Tick, Press, BeginRepeat, PressTorn, Repeat, LetGo, RestArrives, PollReturns,
         SampleNow, ReadOn, ReadNothing, NextIteration, ReadKey, Release, KernelEvent, ReadEvent
<1>1. CASE faulty
  BY <1>0, <1>1 DEF Abstract!vars
<1>2. ASSUME ~faulty, NEW k \in Known, ReadKey(k)
      PROVE  Abstract!Next
  <2>1. told = keyDown
    BY ReadingIsTerminal, <1>2 DEF ReaderInv, TerminalInv, ReadKey, ReadByte
  <2>2. /\ told' = told \cup {k}
        /\ event' = <<k, IF k \in told THEN "HOLD" ELSE "PRESS">>
    BY <1>2, <2>1, SayType DEF ReadKey, ReaderInv
  <2>3. Abstract!Press(k) \/ Abstract!Hold(k)
    BY <1>0, <1>2, <2>2 DEF Abstract!Press, Abstract!Hold, Abstract!Say
  <2> QED BY <2>3 DEF Abstract!Next
<1>3. ASSUME ~faulty, NEW k \in Known, Release(k)
      PROVE  Abstract!Next
  <2>1. k \in told
    BY <1>3 DEF ReaderInv, TypeOK, TerminalInv, EventsInv, Release, Due
  <2>2. told' = told \ {k} /\ event' = <<k, "RELEASE">>
    BY <1>3, SayType DEF Release, ReaderInv
  <2>3. Abstract!Release(k)
    BY <1>0, <1>3, <2>1, <2>2 DEF Abstract!Release, Abstract!Say
  <2> QED BY <2>3 DEF Abstract!Next
<1>4. ASSUME ~faulty, ReadEvent
      PROVE  [Abstract!Next]_(Abstract!vars)
  <2> DEFINE k == Head(queue)[1]
             value == Head(queue)[2]
  <2>0. mode = "EVDEV" /\ value \in Values
    BY <1>4, HeadTailProperties DEF ReaderInv, EventsInv, ReadEvent, KernelEvents
  <2>1. CASE k = "C" /\ ctrlHeld /\ value = 1
    <3>1. event' = <<"CTRL_C", "PRESS">> /\ told' = told
      BY <1>4, <2>1 DEF ReadEvent, Say
    <3> QED BY <1>0, <1>4, <3>1 DEF Abstract!Next, Abstract!Quit, Abstract!Say
  <2>2. CASE ~(k = "C" /\ ctrlHeld /\ value = 1) /\ k \in Known
    <3>1. k \in told <=> value # 1
      BY <1>4, <2>0, <2>2, HeadContinues DEF ReadEvent
    <3>2. EventKey(k) # None /\ EventKey(k) = k
      BY <2>2 DEF EventKey, Known, None
    <3>3. Say(k, CASE value = 0 -> "RELEASE" [] value = 1 -> "PRESS" [] value = 2 -> "HOLD")
      BY <1>4, <2>2, <3>2 DEF ReadEvent
    <3>4. CASE value = 0
      <4>1. told' = told \ {k} /\ event' = <<k, "RELEASE">>
        BY <2>2, <3>3, <3>4, SayType DEF ReaderInv
      <4>2. Abstract!Release(k)
        BY <1>0, <1>4, <3>1, <3>4, <4>1 DEF Abstract!Release, Abstract!Say
      <4> QED BY <2>2, <4>2 DEF Abstract!Next
    <3>5. CASE value = 1
      <4>1. told' = told \cup {k} /\ event' = <<k, "PRESS">>
        BY <2>2, <3>3, <3>5, SayType DEF ReaderInv
      <4>2. Abstract!Press(k)
        BY <1>0, <1>4, <2>2, <3>1, <3>5, <4>1 DEF Abstract!Press, Abstract!Say
      <4> QED BY <2>2, <4>2 DEF Abstract!Next
    <3>6. CASE value = 2
      <4>1. told' = told \cup {k} /\ event' = <<k, "HOLD">>
        BY <2>2, <3>3, <3>6, SayType DEF ReaderInv
      <4>2. Abstract!Hold(k)
        BY <1>0, <1>4, <3>1, <3>6, <4>1 DEF Abstract!Hold, Abstract!Say
      <4> QED BY <2>2, <4>2 DEF Abstract!Next
    <3> QED BY <2>0, <3>4, <3>5, <3>6 DEF Values
  <2>3. CASE ~(k = "C" /\ ctrlHeld /\ value = 1) /\ k \notin Known
    <3>1. told' = told /\ event' = event
      BY <1>4, <2>3 DEF ReadEvent, EventKey
    <3> QED BY <1>0, <3>1 DEF Abstract!vars
  <2> QED BY <2>1, <2>2, <2>3
<1>5. CASE NextIteration
  BY <1>0, <1>5 DEF NextIteration, Abstract!vars, Abstract!Next, Abstract!NoEvent, NoEvent
<1>6. CASE told' = told /\ event' = event
  BY <1>0, <1>6 DEF Abstract!vars
<1> QED
  BY <1>1, <1>2, <1>3, <1>4, <1>5, <1>6
  DEF Next, vars, Tick, Press, BeginRepeat, PressTorn, Repeat, LetGo, RestArrives, PollReturns,
      SampleNow, ReadOn, ReadNothing, KernelEvent, listener

(***************************************************************************)
(* From strokes of the terminal and from the kernel's events alike the     *)
(* listener hears PRESS, HOLD and RELEASE of each key in that order: the   *)
(* handler implements KeyEvents.                                           *)
(***************************************************************************)
THEOREM EventsAlternate == Spec => AlternatingEvents
<1>1. Init => Abstract!Init
  BY DEF Init, Abstract!Init, NoEvent
<1>2. QED
  BY <1>1, InvHolds, EventExpected, PTL DEF Spec, AlternatingEvents, Abstract!Spec
-----------------------------------------------------------------------------
(* The thread's clock *)

\* An iteration that has something to read, or is past poll(), has MaxDelay
\* ticks left at most, and its sample of the clock is no older than that.  The
\* decoder has part of a sequence only while it reads.  The user strikes nothing
\* after a torn sequence, and what was heard repeats.
ThreadInv ==
    mode = "STDIN" =>
        /\ got # <<>> => pc = "read"
        /\ queue # <<>> \/ pc # "poll" => spent >= PollTime
        /\ pc \in {"read", "sweep"} => now <= spent - PollTime
        /\ torn => down = {} /\ repeating = None
        /\ heard => repeating # None

\* The thread and the user keep it.
LEMMA ThreadStep == ReaderInv /\ ThreadInv /\ [Next]_vars => ThreadInv'
<1> SUFFICES ASSUME ReaderInv, ThreadInv, [Next]_vars PROVE ThreadInv'
  OBVIOUS
<1>0. TypeOK
  BY DEF ReaderInv
<1>1. CASE Tick
  BY <1>0, <1>1, Durations DEF TypeOK, ThreadInv, Tick, Ages, listener
<1>2. ASSUME NEW bytes, Arrive(bytes), UNCHANGED <<mode, pc, got, now>>,
             mode = "STDIN" /\ torn' => down' = {} /\ repeating' = None,
             mode = "STDIN" /\ heard' => repeating' # None
      PROVE  ThreadInv'
  <2>1. spent' >= spent /\ (pc # "poll" => spent' = spent) /\ (pc = "poll" => spent' >= PollTime)
    BY <1>0, <1>2, Durations DEF TypeOK, Arrive
  <2> QED BY <1>0, <1>2, <2>1, Durations DEF TypeOK, ThreadInv, Ages
<1>3. ASSUME NEW k \in TermKeys, Press(k)
      PROVE  ThreadInv'
  BY <1>2, <1>3 DEF Press, Strike
<1>16. ASSUME NEW k \in TermKeys, BeginRepeat(k)
       PROVE  ThreadInv'
  <2>1. k # None
    BY KeysAssumption DEF Known, None
  <2> QED BY <1>2, <1>16, <2>1 DEF BeginRepeat, Strike
<1>4. ASSUME NEW k \in TermKeys, PressTorn(k)
      PROVE  ThreadInv'
  <2>1. repeating = None
    BY <1>0, <1>4 DEF PressTorn, TypeOK
  <2> QED BY <1>2, <1>4, <2>1 DEF PressTorn, ThreadInv, listener
<1>5. CASE Repeat
  BY <1>2, <1>5 DEF Repeat, Strike
<1>6. CASE RestArrives
  BY <1>2, <1>6 DEF RestArrives, ThreadInv, listener
<1>7. CASE LetGo
  BY <1>7 DEF ThreadInv, LetGo
<1>8. CASE PollReturns
  BY <1>0, <1>8 DEF TypeOK, ThreadInv, PollReturns, user, listener
<1>9. CASE SampleNow
  BY <1>0, <1>9, Durations DEF TypeOK, ThreadInv, SampleNow, user, listener
<1>10. CASE ReadOn \/ ReadNothing
  BY <1>10 DEF ThreadInv, ReadOn, ReadNothing, ReadByte, user, listener
<1>11. CASE NextIteration
  BY <1>11, Durations DEF ThreadInv, NextIteration, user
<1>12. ASSUME NEW k \in Known, ReadKey(k) \/ Release(k)
       PROVE  ThreadInv'
  <2>1. k # None
    BY DEF Known, None
  <2> QED BY <1>12, <2>1 DEF ThreadInv, ReadKey, ReadByte, Release, user
<1>13. ASSUME NEW k \in EvdevKeys, NEW value \in Values, KernelEvent(k, value)
       PROVE  ThreadInv'
  BY <1>13 DEF ThreadInv, KernelEvent
<1>14. CASE ReadEvent
  BY <1>14 DEF ThreadInv, ReadEvent
<1>15. CASE UNCHANGED vars
  BY <1>15 DEF ThreadInv, vars, user, listener
<1> QED
  BY <1>1, <1>3, <1>4, <1>5, <1>6, <1>7, <1>8, <1>9, <1>10, <1>11, <1>12, <1>13, <1>14, <1>15,
     <1>16
  DEF Next

-----------------------------------------------------------------------------
(* Strokes in the queue *)

\* The user leaves Escape alone, whose byte is the first of every sequence.
NoEscape == "ESCAPE" \notin TermKeys

\* The key whose stroke ends in c; the other bytes of a sequence end none.
KeyOf(c) == IF c \in {"A", "D"} THEN DecodeArrow(c) ELSE DecodeAscii(c)

\* What the decoder has looked at before the i-th byte of the queue.
LastGot ==
    CASE got = <<>> -> None [] got = <<"ESC">> -> "ESC" [] got = <<"ESC", "[">> -> "["

Before(i) == IF i = 1 THEN LastGot ELSE queue[i - 1]

\* The byte that arrived last.
Newest == IF queue = <<>> THEN LastGot ELSE queue[Len(queue)]

\* The queue holds whole strokes, but for what the decoder has of the first.
Whole ==
    /\ \A i \in 1..Len(queue) :
          /\ queue[i] = "[" <=> Before(i) = "ESC"
          /\ queue[i] \in {"A", "D"} <=> Before(i) = "["
    /\ Newest \notin {"ESC", "["}

\* As long as nothing arrived torn, what is in the queue ends strokes of keys
\* that were struck, and the thread finds the rest of a sequence there.
StrokesInv ==
    mode = "STDIN" /\ ~torn =>
        /\ Whole
        /\ pc \in {"ready", "read"} => queue # <<>>
        /\ \A i \in 1..Len(queue) : KeyOf(queue[i]) \in struck \cup {None}
        /\ told \subseteq struck

\* Nothing comes out of the evdev queue that was not struck.
EventsStruckInv ==
    mode = "EVDEV" =>
        /\ \A i \in 1..Len(queue) : queue[i][1] \in struck
        /\ told \subseteq struck

\* A stroke: one key at its end, and the bytes of a sequence in their order.
IsStroke(b, k) ==
    /\ KeyOf(b[Len(b)]) = k /\ b[Len(b)] \notin {"ESC", "["}
    /\ b[1] \notin {"[", "A", "D"}
    /\ \A i \in 1..(Len(b) - 1) : KeyOf(b[i]) = None
    /\ \A i \in 2..Len(b) : /\ b[i] = "[" <=> b[i - 1] = "ESC"
                            /\ b[i] \in {"A", "D"} <=> b[i - 1] = "["

\* What ends the strokes.
LEMMA KeyOfBytes ==
  /\ KeyOf("ESC") = None /\ KeyOf("[") = None
  /\ KeyOf("w") = "W" /\ KeyOf("a") = "A" /\ KeyOf("d") = "D"
  /\ KeyOf("A") = "ARROW_UP" /\ KeyOf("D") = "ARROW_LEFT"
  /\ None \notin Known
  BY DEF KeyOf, DecodeArrow, DecodeAscii, None, Known

\* Every key the user has but Escape is struck like that.
LEMMA BytesAreStrokes ==
  ASSUME NoEscape, NEW k \in TermKeys
  PROVE  k \in Known /\ IsStroke(Bytes(k), k)
<1>1. k \in {"ARROW_UP", "ARROW_LEFT", "W", "A", "D"} /\ k \in Known
  BY KeysAssumption DEF Known, NoEscape
<1>2. ASSUME NEW a \in {"A", "D"}
      PROVE  IsStroke(<<"ESC", "[", a>>, KeyOf(a))
  <2> DEFINE b == <<"ESC", "[", a>>
  <2>1. Len(b) = 3 /\ b[1] = "ESC" /\ b[2] = "[" /\ b[3] = a
    OBVIOUS
  <2> HIDE DEF b
  <2>2. IsStroke(b, KeyOf(a))
    BY <2>1, KeyOfBytes DEF IsStroke
  <2> QED BY <2>2 DEF b
<1>3. ASSUME NEW c \in {"w", "a", "d"}
      PROVE  IsStroke(<<c>>, KeyOf(c))
  <2> DEFINE b == <<c>>
  <2>1. Len(b) = 1 /\ b[1] = c
    OBVIOUS
  <2> HIDE DEF b
  <2>2. IsStroke(b, KeyOf(c))
    BY <2>1, KeyOfBytes DEF IsStroke
  <2> QED BY <2>2 DEF b
<1>4. CASE k = "ARROW_UP"
  <2>1. Bytes(k) = <<"ESC", "[", "A">>
    BY <1>4 DEF Bytes
  <2> QED BY <1>1, <1>2, <1>4, <2>1, KeyOfBytes
<1>5. CASE k = "ARROW_LEFT"
  <2>1. Bytes(k) = <<"ESC", "[", "D">>
    BY <1>5 DEF Bytes
  <2> QED BY <1>1, <1>2, <1>5, <2>1, KeyOfBytes
<1>6. CASE k = "W"
  <2>1. Bytes(k) = <<"w">>
    BY <1>6 DEF Bytes
  <2> QED BY <1>1, <1>3, <1>6, <2>1, KeyOfBytes
<1>7. CASE k = "A"
  <2>1. Bytes(k) = <<"a">>
    BY <1>7 DEF Bytes
  <2> QED BY <1>1, <1>3, <1>7, <2>1, KeyOfBytes
<1>8. CASE k = "D"
  <2>1. Bytes(k) = <<"d">>
    BY <1>8 DEF Bytes
  <2> QED BY <1>1, <1>3, <1>8, <2>1, KeyOfBytes
<1> QED BY <1>1, <1>4, <1>5, <1>6, <1>7, <1>8

\* Bytes behind the others.
LEMMA QueueAppended ==
  ASSUME ReaderInv, mode = "STDIN", NEW b \in Seq(Chars), Arrive(b)
  PROVE  /\ Len(queue) \in Nat /\ Len(b) \in Nat /\ Len(queue') = Len(queue) + Len(b)
         /\ \A i \in 1..Len(queue) : queue'[i] = queue[i]
         /\ \A i \in 1..Len(b) : queue'[Len(queue) + i] = b[i]
<1>1. queue \in Seq(Chars) /\ queue' = queue \o b
  BY DEF ReaderInv, TerminalInv, Arrive
<1>2. Len(queue) \in Nat /\ Len(b) \in Nat /\ Len(queue') = Len(queue) + Len(b)
  BY <1>1, ConcatProperties, LenProperties
<1>3. \A i \in 1..Len(queue') : queue'[i] = IF i <= Len(queue) THEN queue[i]
                                                               ELSE b[i - Len(queue)]
  BY <1>1, ConcatProperties
<1>4. \A i \in 1..Len(b) : /\ Len(queue) + i \in 1..Len(queue')
                           /\ ~(Len(queue) + i <= Len(queue))
                           /\ (Len(queue) + i) - Len(queue) = i
  BY <1>2
<1> QED BY <1>2, <1>3, <1>4

\* The first byte is taken.
LEMMA QueueShifted ==
  ASSUME ReaderInv, mode = "STDIN", queue # <<>>, queue' = Tail(queue)
  PROVE  /\ Len(queue) \in Nat /\ Len(queue) >= 1 /\ Len(queue') = Len(queue) - 1
         /\ Head(queue) = queue[1] /\ queue[1] \in Chars
         /\ \A i \in 1..Len(queue') : queue'[i] = queue[i + 1] /\ i + 1 \in 1..Len(queue)
         /\ \A i \in 2..Len(queue) : i - 1 \in 1..Len(queue') /\ queue'[i - 1] = queue[i]
<1>1. queue \in Seq(Chars)
  BY DEF ReaderInv, TerminalInv
<1>2. /\ Len(queue) \in Nat /\ Len(queue) >= 1 /\ Len(queue') = Len(queue) - 1
      /\ Head(queue) = queue[1] /\ queue[1] \in Chars
      /\ \A i \in 1..Len(queue') : queue'[i] = queue[i + 1]
  BY <1>1, HeadTailProperties, LenProperties, EmptySeq
<1>3. \A i \in 2..Len(queue) : i - 1 \in 1..Len(queue') /\ (i - 1) + 1 = i
  BY <1>2
<1> QED BY <1>2, <1>3

\* A stroke behind whole strokes.
LEMMA WholeAppended ==
  ASSUME ReaderInv, mode = "STDIN", Whole, NEW b \in Seq(Chars), NEW k, Len(b) \in 1..3,
         IsStroke(b, k), Arrive(b), got' = got
  PROVE  Whole'
<1>0. PICK n \in Nat : n = Len(queue)
  BY QueueAppended
<1>1. /\ Len(b) \in Nat /\ Len(queue') = n + Len(b)
      /\ \A i \in 1..n : queue'[i] = queue[i]
      /\ \A i \in 1..Len(b) : queue'[n + i] = b[i]
  BY <1>0, QueueAppended
<1>2. queue \in Seq(Chars) /\ (queue = <<>> <=> n = 0)
  BY <1>0, EmptySeq DEF ReaderInv, TerminalInv
<1>3. LastGot' = LastGot
  BY DEF LastGot
<1>4. Newest' = b[Len(b)]
  <2>1. Len(b) \in 1..Len(b) /\ Len(queue') = n + Len(b) /\ Len(queue') > 0
    BY <1>1
  <2>2. queue' # <<>>
    BY <2>1
  <2> QED BY <1>1, <2>1, <2>2 DEF Newest
<1>5. ASSUME NEW i \in 1..n
      PROVE  queue'[i] = queue[i] /\ Before(i)' = Before(i)
  <2>1. i = 1 \/ i - 1 \in 1..n
    BY <1>1
  <2> QED BY <1>1, <1>3, <2>1 DEF Before
<1>6. queue'[n + 1] = b[1] /\ Before(n + 1)' = Newest
  <2>1. CASE n = 0
    BY <1>1, <1>2, <1>3, <2>1 DEF Before, Newest
  <2>2. CASE n > 0
    <3>1. n \in 1..n /\ n + 1 # 1 /\ (n + 1) - 1 = n /\ 1 \in 1..Len(b)
      BY <1>1, <2>2
    <3>2. Before(n + 1)' = queue'[(n + 1) - 1]
      BY <3>1 DEF Before
    <3> QED BY <1>0, <1>1, <1>2, <2>2, <3>1, <3>2 DEF Newest
  <2> QED BY <1>1, <2>1, <2>2
<1>7. ASSUME NEW i \in 2..Len(b)
      PROVE  queue'[n + i] = b[i] /\ Before(n + i)' = b[i - 1]
  <2>1. /\ i \in 1..Len(b) /\ i - 1 \in 1..Len(b) /\ n + i # 1
        /\ (n + i) - 1 = n + (i - 1)
    BY <1>1
  <2>2. Before(n + i)' = queue'[(n + i) - 1]
    BY <2>1 DEF Before
  <2> QED BY <1>1, <2>1, <2>2
<1>8. ASSUME NEW i \in 1..Len(queue')
      PROVE  /\ queue'[i] = "[" <=> Before(i)' = "ESC"
             /\ queue'[i] \in {"A", "D"} <=> Before(i)' = "["
  <2>1. CASE i \in 1..n
    BY <1>0, <1>5, <2>1 DEF Whole
  <2>2. CASE i = n + 1
    BY <1>6, <2>2 DEF Whole, IsStroke
  <2>3. CASE i - n \in 2..Len(b)
    <3>1. PICK j \in 2..Len(b) : i = n + j
      BY <1>1, <2>3
    <3> QED BY <1>7, <3>1 DEF IsStroke
  <2> QED BY <1>1, <2>1, <2>2, <2>3
<1> QED BY <1>4, <1>8 DEF Whole, IsStroke

\* A byte less: the decoder has looked at it, or it ended a stroke.
LEMMA WholeShifted ==
  ASSUME ReaderInv, mode = "STDIN", Whole, queue # <<>>, queue' = Tail(queue),
         \/ Head(queue) \in {"ESC", "["} /\ LastGot' = Head(queue)
         \/ Head(queue) \notin {"ESC", "["} /\ LastGot' = None
  PROVE  Whole' /\ (Head(queue) \in {"ESC", "["} => queue' # <<>>)
<1> DEFINE n == Len(queue)
<1>1. /\ n \in Nat /\ n >= 1 /\ Len(queue') = n - 1 /\ Head(queue) = queue[1]
      /\ \A i \in 1..Len(queue') : queue'[i] = queue[i + 1] /\ i + 1 \in 1..n
      /\ \A i \in 2..n : i - 1 \in 1..Len(queue') /\ queue'[i - 1] = queue[i]
  BY QueueShifted
<1>2. queue \in Seq(Chars) /\ queue' \in Seq(Chars) /\ (queue' = <<>> <=> n = 1)
  <2>1. queue \in Seq(Chars) /\ queue' \in Seq(Chars)
    BY HeadTailProperties DEF ReaderInv, TerminalInv
  <2>2. queue' = <<>> <=> Len(queue') = 0
    BY <2>1, EmptySeq
  <2> QED BY <1>1, <2>1, <2>2
<1>3. Newest = queue[n]
  BY DEF Newest
<1>4. Head(queue) \in {"ESC", "["} => queue' # <<>>
  BY <1>1, <1>2, <1>3 DEF Whole
<1>5. Newest' \notin {"ESC", "["}
  <2>1. CASE n = 1
    BY <1>1, <1>2, <1>3, <2>1 DEF Whole, Newest, None
  <2>2. CASE n > 1
    <3>1. n \in 2..n /\ queue' # <<>>
      BY <1>1, <1>2, <2>2
    <3>2. Newest' = queue[n]
      BY <1>1, <3>1 DEF Newest
    <3> QED BY <1>3, <3>2 DEF Whole
  <2> QED BY <1>1, <2>1, <2>2
<1> HIDE DEF n
<1>6. ASSUME NEW i \in 1..Len(queue')
      PROVE  /\ queue'[i] = "[" <=> Before(i)' = "ESC"
             /\ queue'[i] \in {"A", "D"} <=> Before(i)' = "["
  <2>1. /\ queue'[i] = queue[i + 1] /\ i + 1 \in 1..n
        /\ queue[i + 1] = "[" <=> Before(i + 1) = "ESC"
        /\ queue[i + 1] \in {"A", "D"} <=> Before(i + 1) = "["
    BY <1>1 DEF Whole, n
  <2>2. Before(i + 1) = queue[i]
    BY <1>1 DEF Before
  <2>3. CASE i = 1
    <3>1. Before(i)' = LastGot'
      BY <2>3 DEF Before
    <3> QED BY <1>1, <2>1, <2>2, <2>3, <3>1 DEF None
  <2>4. CASE i # 1
    <3>1. i - 1 \in 1..Len(queue') /\ (i - 1) + 1 = i
      BY <1>1, <2>4
    <3>2. Before(i)' = queue[i]
      BY <1>1, <2>4, <3>1 DEF Before
    <3> QED BY <2>1, <2>2, <3>2
  <2> QED BY <2>3, <2>4
<1> QED BY <1>4, <1>5, <1>6 DEF Whole

\* On whole strokes the decoder reads on within a sequence, and at its end finds
\* the key that was struck.
LEMMA DecoderInStep ==
  ASSUME ReaderInv, StrokesInv, mode = "STDIN", ~torn, pc = "read"
  PROVE  /\ queue # <<>>
         /\ \/ Head(queue) \in {"ESC", "["} /\ After(Head(queue)) = More
            \/ /\ Head(queue) \notin {"ESC", "["}
               /\ After(Head(queue)) = KeyOf(Head(queue)) /\ KeyOf(Head(queue)) \in Known
<1>1. queue # <<>> /\ Whole
  BY DEF StrokesInv
<1>2. Head(queue) = queue[1] /\ queue[1] \in Chars /\ 1 \in 1..Len(queue)
  <2>1. queue \in Seq(Chars)
    BY DEF ReaderInv, TerminalInv
  <2> QED BY <1>1, <2>1, HeadTailProperties, LenProperties, EmptySeq
<1>3. /\ Head(queue) = "[" <=> LastGot = "ESC"
      /\ Head(queue) \in {"A", "D"} <=> LastGot = "["
  BY <1>1, <1>2 DEF Whole, Before
<1>4. CASE got = <<>>
  <2>1. LastGot = None
    BY <1>4 DEF LastGot
  <2>2. Head(queue) \in {"ESC", "w", "a", "d"}
    BY <1>2, <1>3, <2>1 DEF Chars, None
  <2> QED BY <1>1, <1>4, <2>2 DEF After, KeyOf, DecodeAscii, Known
<1>5. CASE got = <<"ESC">>
  <2>1. LastGot = "ESC"
    BY <1>5 DEF LastGot
  <2> QED BY <1>1, <1>3, <1>5, <2>1 DEF After
<1>6. CASE got = <<"ESC", "[">>
  <2>1. LastGot = "["
    BY <1>6 DEF LastGot
  <2> QED BY <1>1, <1>3, <1>6, <2>1 DEF After, KeyOf, DecodeArrow, Known
<1> QED BY <1>4, <1>5, <1>6 DEF ReaderInv, TypeOK

\* A stroke comes in one piece.
LEMMA StrikeStrokes ==
  ASSUME NoEscape, ReaderInv, StrokesInv, mode = "STDIN", NEW k \in TermKeys, Strike(k),
         UNCHANGED <<mode, torn, pc, got, told>>
  PROVE  StrokesInv'
<1> DEFINE b == Bytes(k)
<1>1. b \in Seq(Chars) /\ Len(b) \in 1..3 /\ IsStroke(b, k) /\ k \in Known
  BY BytesType, BytesAreStrokes
<1> HIDE DEF b
<1>2. Arrive(b) /\ ~torn
  BY DEF Strike, b
<1>3. struck' = struck \cup {k}
  BY DEF Strike, Struck
<1>4. PICK n \in Nat : n = Len(queue)
  BY <1>1, <1>2, QueueAppended
<1>5. /\ Len(b) \in Nat /\ Len(queue') = n + Len(b)
      /\ \A i \in 1..n : queue'[i] = queue[i]
      /\ \A i \in 1..Len(b) : queue'[n + i] = b[i]
  BY <1>1, <1>2, <1>4, QueueAppended
<1>6. Whole'
  BY <1>1, <1>2, WholeAppended DEF StrokesInv
<1>7. queue' # <<>>
  <2>1. Len(queue') > 0
    BY <1>1, <1>5
  <2> QED BY <2>1
<1>8. ASSUME NEW i \in 1..Len(queue')
      PROVE  KeyOf(queue'[i]) \in struck' \cup {None}
  <2>1. CASE i \in 1..n
    BY <1>2, <1>3, <1>4, <1>5, <2>1 DEF StrokesInv
  <2>2. CASE i \notin 1..n
    <3>1. PICK j \in 1..Len(b) : i = n + j
      BY <1>5, <2>2
    <3>2. KeyOf(b[j]) \in {k, None}
      BY <1>1, <3>1 DEF IsStroke
    <3> QED BY <1>3, <1>5, <3>1, <3>2
  <2> QED BY <2>1, <2>2
<1> QED BY <1>2, <1>3, <1>6, <1>7, <1>8 DEF StrokesInv

\* A byte is read.
LEMMA ReadStrokes ==
  ASSUME ReaderInv, StrokesInv, mode = "STDIN", ~torn, pc = "read",
         ReadOn \/ \E k \in Known : ReadKey(k)
  PROVE  /\ ReadOn <=> Head(queue) \in {"ESC", "["}
         /\ \A k \in Known : ReadKey(k) => KeyOf(Head(queue)) = k
         /\ ReadOn => queue' # <<>>
         /\ Whole'
         /\ \A i \in 1..Len(queue') : KeyOf(queue'[i]) \in struck \cup {None}
         /\ KeyOf(Head(queue)) \in struck \cup {None}
<1>1. /\ queue # <<>> /\ queue' = Tail(queue)
      /\ \/ Head(queue) \in {"ESC", "["} /\ After(Head(queue)) = More
         \/ /\ Head(queue) \notin {"ESC", "["}
            /\ After(Head(queue)) = KeyOf(Head(queue)) /\ KeyOf(Head(queue)) \in Known
  BY DecoderInStep DEF ReadOn, ReadKey, ReadByte
<1>2. More \notin Known
  BY DEF More, Known
<1>3. ReadOn <=> Head(queue) \in {"ESC", "["}
  BY <1>1, <1>2 DEF ReadOn, ReadKey, ReadByte
<1>4. \A k \in Known : ReadKey(k) => KeyOf(Head(queue)) = k
  BY <1>1, <1>2 DEF ReadKey, ReadByte
<1>5. Whole' /\ (ReadOn => queue' # <<>>)
  <2>1. CASE ReadOn
    <3>1. LastGot' = Head(queue)
      BY <2>1, GotGrows DEF LastGot
    <3> QED BY <1>1, <1>3, <2>1, <3>1, WholeShifted DEF StrokesInv
  <2>2. CASE ~ReadOn
    <3>1. LastGot' = None
      BY <2>2 DEF ReadKey, LastGot
    <3> QED BY <1>1, <1>3, <2>2, <3>1, WholeShifted DEF StrokesInv
  <2> QED BY <2>1, <2>2
<1>6. \A i \in 1..Len(queue') : KeyOf(queue'[i]) \in struck \cup {None}
  BY <1>1, QueueShifted DEF StrokesInv
<1>7. KeyOf(Head(queue)) \in struck \cup {None}
  <2>1. Head(queue) = queue[1] /\ 1 \in 1..Len(queue)
    BY <1>1, QueueShifted
  <2> QED BY <2>1 DEF StrokesInv
<1> QED BY <1>3, <1>4, <1>5, <1>6, <1>7

\* Nothing is dropped.
LEMMA NothingDropped ==
  ASSUME ReaderInv, StrokesInv, mode = "STDIN", ~torn
  PROVE  ~ReadNothing
<1> SUFFICES ASSUME ReadNothing PROVE FALSE
  OBVIOUS
<1>1. pc = "read"
  BY DEF ReadNothing, ReadByte
<1> QED BY <1>1, DecoderInStep, KeyOfBytes DEF ReadNothing, ReadByte, More, None

\* Every step keeps it: without Escape, no byte is taken for a key that was not
\* struck.
LEMMA StrokesStep ==
  ASSUME NoEscape, ReaderInv, ThreadInv, StrokesInv, [Next]_vars
  PROVE  StrokesInv'
<1>0. mode' = mode /\ (torn => torn')
  BY DEF Next, vars, user, Tick, Press, BeginRepeat, PressTorn, Repeat, LetGo, RestArrives,
         PollReturns, SampleNow, ReadOn, ReadNothing, NextIteration, ReadKey, Release,
         KernelEvent, ReadEvent
<1> SUFFICES ASSUME mode = "STDIN", ~torn, ~torn' PROVE StrokesInv'
  BY <1>0 DEF StrokesInv
<1>1. CASE UNCHANGED <<queue, got, struck, told>> /\ (pc' = pc \/ pc' \notin {"ready", "read"})
  BY <1>0, <1>1 DEF StrokesInv, Whole, Newest, Before, LastGot
<1>2. ASSUME NEW k \in TermKeys, Press(k)
      PROVE  StrokesInv'
  BY <1>2, StrikeStrokes DEF Press
<1>17. ASSUME NEW k \in TermKeys, BeginRepeat(k)
       PROVE  StrokesInv'
  BY <1>17, StrikeStrokes DEF BeginRepeat, listener
<1>3. CASE Repeat
  <2>1. repeating \in TermKeys
    BY <1>3 DEF ReaderInv, TypeOK, Repeat, UserKeys
  <2> QED BY <1>3, <2>1, StrikeStrokes DEF Repeat, listener
<1>4. ASSUME NEW k \in TermKeys, PressTorn(k)
      PROVE  FALSE
  BY <1>4 DEF PressTorn
<1>5. CASE RestArrives
  BY <1>5 DEF RestArrives, ReaderInv, TerminalInv
<1>6. CASE Tick \/ LetGo
  BY <1>1, <1>6 DEF Tick, LetGo, listener
<1>7. CASE PollReturns
  BY <1>0, <1>7 DEF PollReturns, StrokesInv, Whole, Newest, Before, LastGot, user, listener
<1>8. CASE SampleNow
  BY <1>0, <1>8 DEF SampleNow, StrokesInv, Whole, Newest, Before, LastGot, user, listener
<1>9. CASE NextIteration
  BY <1>1, <1>9 DEF NextIteration, user
<1>10. CASE ReadOn
  <2>1. pc = "read"
    BY <1>10 DEF ReadOn, ReadByte
  <2> QED BY <1>0, <1>10, <2>1, ReadStrokes DEF ReadOn, StrokesInv, user, listener
<1>11. CASE ReadNothing
  BY <1>11, NothingDropped
<1>12. ASSUME NEW k \in Known, ReadKey(k)
       PROVE  StrokesInv'
  <2>1. pc = "read"
    BY <1>12 DEF ReadKey, ReadByte
  <2>2. told' = told \cup {k}
    BY <1>12, SayType DEF ReadKey, ReaderInv
  <2>3. k \in struck
    BY <1>12, <2>1, ReadStrokes, KeyOfBytes
  <2> QED BY <1>0, <1>12, <2>1, <2>2, <2>3, ReadStrokes DEF ReadKey, StrokesInv, user
<1>13. ASSUME NEW k \in Known, Release(k)
       PROVE  StrokesInv'
  <2>1. told' = told \ {k}
    BY <1>13, SayType DEF Release, ReaderInv
  <2> QED BY <1>0, <1>13, <2>1
          DEF Release, StrokesInv, Whole, Newest, Before, LastGot, user
<1>14. ASSUME NEW k \in EvdevKeys, NEW value \in Values, KernelEvent(k, value)
       PROVE  FALSE
  BY <1>14 DEF KernelEvent
<1>15. CASE ReadEvent
  BY <1>15 DEF ReadEvent
<1>16. CASE UNCHANGED vars
  BY <1>1, <1>16 DEF vars, user, listener
<1> QED
  BY <1>2, <1>3, <1>4, <1>5, <1>6, <1>7, <1>8, <1>9, <1>10, <1>11, <1>12, <1>13, <1>14, <1>15,
     <1>16, <1>17
  DEF Next

\* The same for evdev, where a key that was struck stays so.
LEMMA EventsStruckStep ==
  ASSUME ReaderInv, EventsStruckInv, [Next]_vars
  PROVE  EventsStruckInv'
<1>0. mode' = mode
  BY DEF Next, vars, user, Tick, Press, BeginRepeat, PressTorn, Repeat, LetGo, RestArrives,
         PollReturns, SampleNow, ReadOn, ReadNothing, NextIteration, ReadKey, Release,
         KernelEvent, ReadEvent
<1> SUFFICES ASSUME mode = "EVDEV" PROVE EventsStruckInv'
  BY <1>0 DEF EventsStruckInv
<1>1. queue \in Seq(KernelEvents)
  BY DEF ReaderInv, EventsInv
<1>2. CASE UNCHANGED <<queue, struck, told>>
  BY <1>0, <1>2 DEF EventsStruckInv
<1>3. ASSUME NEW k \in EvdevKeys, NEW value \in Values, KernelEvent(k, value)
      PROVE  EventsStruckInv'
  <2>1. struck' = struck \cup {k} /\ told' = told
    BY <1>3 DEF KernelEvent, listener
  <2>2. CASE UNCHANGED queue
    BY <1>0, <2>1, <2>2 DEF EventsStruckInv
  <2>3. CASE queue' = Append(queue, <<k, value>>)
    <3>1. <<k, value>> \in KernelEvents
      BY DEF KernelEvents
    <3>2. /\ Len(queue') = Len(queue) + 1 /\ Len(queue) \in Nat
          /\ \A i \in 1..Len(queue) : queue'[i] = queue[i]
          /\ queue'[Len(queue) + 1] = <<k, value>>
      BY <1>1, <2>3, <3>1, AppendProperties, LenProperties
    <3>3. \A i \in 1..Len(queue') : queue'[i][1] \in struck'
      BY <2>1, <3>2 DEF EventsStruckInv
    <3> QED BY <1>0, <2>1, <3>3 DEF EventsStruckInv
  <2> QED BY <1>3, <2>2, <2>3 DEF KernelEvent
<1>4. CASE ReadEvent
  <2> DEFINE k == Head(queue)[1]
  <2>1. queue # <<>> /\ queue' = Tail(queue) /\ struck' = struck
    BY <1>4 DEF ReadEvent, user
  <2>2. /\ Len(queue) \in Nat /\ Len(queue) >= 1 /\ Len(queue') = Len(queue) - 1
        /\ Head(queue) = queue[1]
        /\ \A i \in 1..Len(queue') : queue'[i] = queue[i + 1]
    BY <1>1, <2>1, HeadTailProperties, LenProperties, EmptySeq
  <2>3. \A i \in 1..Len(queue') : queue'[i][1] \in struck'
    BY <2>1, <2>2 DEF EventsStruckInv
  <2>4. told' \subseteq told \cup {k}
    <3>1. ASSUME NEW kind, Say(k, kind)
          PROVE  told' \subseteq told \cup {k}
      BY <3>1 DEF Say
    <3>2. Say("CTRL_C", "PRESS") => told' = told
      BY DEF Say
    <3>3. EventKey(k) # None => EventKey(k) = k
      BY DEF EventKey
    <3> QED BY <1>4, <3>1, <3>2, <3>3 DEF ReadEvent
  <2>5. k \in struck
    BY <2>2 DEF EventsStruckInv
  <2> QED BY <1>0, <2>1, <2>3, <2>4, <2>5 DEF EventsStruckInv
<1>5. ~ReadOn /\ ~ReadNothing /\ \A k \in Known : ~ReadKey(k)
  BY DEF ReaderInv, EventsInv, ReadOn, ReadNothing, ReadKey, ReadByte
<1>6. \A k \in Known : ~Release(k)
  BY DEF ReaderInv, EventsInv, Release, Due
<1>7. CASE PollReturns \/ SampleNow \/ NextIteration \/ UNCHANGED vars
  BY <1>2, <1>7 DEF PollReturns, SampleNow, NextIteration, vars, user, listener
<1>8. /\ ~Tick /\ ~Repeat /\ ~LetGo /\ ~RestArrives
      /\ \A k \in TermKeys : ~Press(k) /\ ~BeginRepeat(k) /\ ~PressTorn(k)
  BY DEF Tick, Repeat, LetGo, RestArrives, Press, BeginRepeat, PressTorn, ReaderInv, EventsInv
<1> QED BY <1>3, <1>4, <1>5, <1>6, <1>7, <1>8 DEF Next

(***************************************************************************)
(* As long as no sequence comes in parts and the user leaves Escape alone, *)
(* the listener hears only of keys that were struck, with any keys and a   *)
(* queue of any length: the decoder never gets out of step.                *)
(***************************************************************************)
THEOREM NothingMistaken == ASSUME NoEscape PROVE Spec => []OnlyStruckKeys
<1> DEFINE Inv == ReaderInv /\ ThreadInv /\ StrokesInv /\ EventsStruckInv
<1>1. Init => Inv
  <2> SUFFICES ASSUME Init PROVE Inv
    OBVIOUS
  <2>1. ThreadInv /\ EventsStruckInv
    BY DEF Init, ThreadInv, EventsStruckInv
  <2>2. StrokesInv
    BY DEF Init, StrokesInv, Whole, Newest, LastGot, None
  <2> QED BY <2>1, <2>2, InitInv
<1>2. Inv /\ [Next]_vars => Inv'
  BY StepInv, ThreadStep, StrokesStep, EventsStruckStep
<1>3. Inv => OnlyStruckKeys
  BY DEF OnlyStruckKeys, StrokesInv, EventsStruckInv, ReaderInv, TypeOK
<1> QED BY <1>1, <1>2, <1>3, PTL DEF Spec

-----------------------------------------------------------------------------
(* Strokes in time *)

\* What n iterations of the loop take at most while there is something to read.
Delay(n) == n * MaxDelay

\* When the i-th byte of the queue will have been read, at the point p of an
\* iteration that has taken s ticks: each iteration reads the stroke it finds
\* first, unless it is past that.
WaitAt(s, p, i) ==
    (PollTime + MaxDelay - s) + Delay(IF p \in {"poll", "ready", "read"} THEN i - 1 ELSE i)

Wait(i) == WaitAt(spent, pc, i)

\* A stroke is read within Lag.
ReadInTime ==
    \A i \in 1..Len(queue) :
        KeyOf(queue[i]) # None => strokeAge[KeyOf(queue[i])] + Wait(i) <= Lag

\* So no stamp is later than that, and no key that is due is left out.
StampedInTime ==
    \A k \in keyDown : /\ strokeAge[k] <= lastEvent[k] + Lag
                       /\ lastEvent[k] < ReleaseAfter + MaxDelay + spent

\* The i-th byte ends the first stroke, and the last of its key.
EndsOnly(i) ==
    /\ KeyOf(queue[i]) # None
    /\ \A j \in 1..(i - 1) : KeyOf(queue[j]) = None
    /\ \A j \in (i + 1)..Len(queue) : KeyOf(queue[j]) # KeyOf(queue[i])

\* What is about to be read was there when the clock was sampled.
SampledAfter ==
    pc = "read" => \A i \in 1..Len(queue) : EndsOnly(i) => now <= strokeAge[KeyOf(queue[i])]

\* The key that repeats has been read since its last stroke, or there is a stroke of
\* it to come that will be read in time.
NextStrokeInTime ==
    \/ lastEvent[repeating] <= strokeAge[repeating]
    \/ \E i \in 1..Len(queue) : /\ KeyOf(queue[i]) = repeating
                                /\ lastEvent[repeating] + Wait(i) <= RepeatTime + Lag

\* Once it has been read.
RepeatsInTime ==
    /\ repeating # None => strokeAge[repeating] <= RepeatTime
    /\ heard /\ repeating \in keyDown => NextStrokeInTime

TimesInv ==
    mode = "STDIN" /\ ~torn => ReadInTime /\ StampedInTime /\ SampledAfter /\ RepeatsInTime

\* Multiples of a duration.
LEMMA DelayFacts ==
  /\ \A n \in Nat : Delay(n) \in Nat /\ Delay(n + 1) = Delay(n) + MaxDelay
  /\ \A m, n \in Nat : m <= n => Delay(m) <= Delay(n)
  /\ Lag = Delay(MaxQueue) + MaxDelay /\ Lag \in Nat
<1>1. \A n \in Nat : Delay(n) \in Nat /\ Delay(n + 1) = Delay(n) + MaxDelay
  BY Durations DEF Delay
<1>2. ASSUME NEW m \in Nat, NEW n \in Nat, m <= n
      PROVE  Delay(m) <= Delay(n)
  <2>1. PICK d \in Nat : n = m + d
    BY <1>2
  <2>2. Delay(n) = Delay(m) + d * MaxDelay /\ d * MaxDelay \in Nat
    BY <2>1, Durations DEF Delay
  <2> QED BY <1>1, <2>2
<1>3. Lag = Delay(MaxQueue + 1)
  BY DEF Lag, Delay
<1> QED BY <1>1, <1>2, <1>3, Durations

\* What the times have to do with each other.
LEMMA TimeFacts ==
  /\ ReleaseAfter \in Nat /\ RepeatTime \in Nat
  /\ ReleaseAfter > RepeatTime + Lag
  /\ AgeCap = ReleaseAfter + Lag + 2 * (PollTime + MaxDelay)
  BY TimeAssumption DEF AgeCap

\* Ages grow by one or stay at the cap.
LEMMA OlderFacts ==
  /\ \A a \in Ages : /\ Older(a) \in Ages /\ a <= Older(a) /\ Older(a) <= a + 1
                     /\ a < AgeCap => Older(a) = a + 1
  /\ \A a, b \in Ages : a <= b => Older(a) <= Older(b)
  BY Durations DEF Older, Ages

\* What the invariants so far say of a terminal.
LEMMA TerminalFacts ==
  ASSUME ReaderInv, StrokesInv, mode = "STDIN", ~torn
  PROVE  /\ queue \in Seq(Chars) /\ Len(queue) \in Nat /\ Len(queue) <= MaxQueue
         /\ told = keyDown /\ keyDown \subseteq struck /\ struck \subseteq TermKeys
         /\ keyDown \subseteq Known /\ None \notin Known /\ None \notin TermKeys
         /\ lastEvent \in [Known -> Ages] /\ strokeAge \in [TermKeys -> Ages]
         /\ spent \in 0..(PollTime + MaxDelay) /\ now \in Ages
         /\ repeating \in TermKeys \cup {None}
         /\ \A i \in 1..Len(queue) : KeyOf(queue[i]) \in struck \cup {None}
<1>1. UserKeys = TermKeys /\ None \notin Known /\ None \notin TermKeys
  BY KeysAssumption DEF UserKeys, Known, None
<1>2. queue \in Seq(Chars) /\ Len(queue) \in Nat
  BY LenProperties DEF ReaderInv, TerminalInv
<1> QED BY <1>1, <1>2 DEF ReaderInv, TypeOK, TerminalInv, StrokesInv

\* No wait is longer than Lag, and what comes first does not wait longer.
LEMMA WaitFacts ==
  ASSUME NEW s \in 0..(PollTime + MaxDelay), NEW p
  PROVE  /\ \A i \in Nat \ {0} : WaitAt(s, p, i) \in Nat
         /\ \A i, j \in Nat \ {0} : i <= j => WaitAt(s, p, i) <= WaitAt(s, p, j)
         /\ \A i \in 1..MaxQueue : s >= PollTime => WaitAt(s, p, i) <= Lag
<1> DEFINE R == PollTime + MaxDelay - s
           D(i) == Delay(IF p \in {"poll", "ready", "read"} THEN i - 1 ELSE i)
<1>1. R \in Nat /\ (s >= PollTime => R <= MaxDelay)
  BY Durations
<1>2. \A i : WaitAt(s, p, i) = R + D(i)
  BY DEF WaitAt
<1>3. ASSUME NEW i \in Nat \ {0}
      PROVE  D(i) \in Nat /\ (i <= MaxQueue => D(i) <= Delay(MaxQueue))
  <2>1. i - 1 \in Nat /\ (i <= MaxQueue => i - 1 <= MaxQueue)
    BY Durations
  <2> QED BY <2>1, DelayFacts, Durations
<1>4. ASSUME NEW i \in Nat \ {0}, NEW j \in Nat \ {0}, i <= j
      PROVE  D(i) <= D(j)
  <2>1. i - 1 \in Nat /\ j - 1 \in Nat /\ i - 1 <= j - 1
    BY <1>4
  <2> QED BY <1>4, <2>1, DelayFacts
<1> HIDE DEF R, D
<1>5. \A i \in 1..MaxQueue : s >= PollTime => WaitAt(s, p, i) <= Lag
  <2> SUFFICES ASSUME NEW i \in 1..MaxQueue, s >= PollTime PROVE WaitAt(s, p, i) <= Lag
    OBVIOUS
  <2>1. i \in Nat \ {0} /\ i <= MaxQueue /\ Delay(MaxQueue) \in Nat
    BY DelayFacts, Durations
  <2>2. D(i) \in Nat /\ D(i) <= Delay(MaxQueue)
    BY <1>3, <2>1
  <2> QED BY <1>1, <1>2, <2>1, <2>2, DelayFacts, Durations
<1>6. \A i \in Nat \ {0} : WaitAt(s, p, i) \in Nat
  BY <1>1, <1>2, <1>3
<1>7. \A i, j \in Nat \ {0} : i <= j => WaitAt(s, p, i) <= WaitAt(s, p, j)
  BY <1>1, <1>2, <1>3, <1>4
<1> QED BY <1>5, <1>6, <1>7

\* A step that leaves the queue and the stamps alone, and loses no time.
LEMMA KeepTimes ==
  ASSUME ReaderInv, StrokesInv, TimesInv, mode = "STDIN", ~torn,
         UNCHANGED <<mode, torn, queue, strokeAge>>,
         keyDown' \subseteq keyDown, \A k \in keyDown' : lastEvent'[k] = lastEvent[k],
         \A k \in keyDown' : lastEvent[k] < ReleaseAfter + MaxDelay + spent',
         \A i \in 1..Len(queue) : Wait(i)' \in Int /\ Wait(i)' <= Wait(i),
         pc' = "read" => now' = 0 \/ (pc = "read" /\ now' = now),
         repeating' = None \/ (repeating' = repeating /\ heard' = heard)
  PROVE  TimesInv'
<1>0. Lag \in Nat /\ RepeatTime \in Nat /\ Ages \subseteq Nat
  BY DelayFacts, TimeFacts, Durations DEF Ages
<1>1. /\ Len(queue) \in Nat
      /\ keyDown \subseteq struck /\ struck \subseteq TermKeys /\ keyDown \subseteq Known
      /\ None \notin Known
      /\ \A k \in TermKeys : strokeAge[k] \in Nat
      /\ \A k \in Known : lastEvent[k] \in Nat
      /\ \A i \in 1..Len(queue) : KeyOf(queue[i]) \in struck \cup {None}
  BY <1>0, TerminalFacts
<1>2. ReadInTime /\ StampedInTime /\ SampledAfter /\ RepeatsInTime
  BY DEF TimesInv
<1>3. \A i \in 1..Len(queue) : Wait(i) \in Int
  <2>1. spent \in 0..(PollTime + MaxDelay)
    BY TerminalFacts
  <2>2. \A i \in 1..Len(queue) : i \in Nat \ {0}
    BY <1>1
  <2> QED BY <2>1, <2>2, WaitFacts DEF Wait
<1>4. ReadInTime'
  <2> SUFFICES ASSUME NEW i \in 1..Len(queue), KeyOf(queue[i]) # None
               PROVE  strokeAge[KeyOf(queue[i])] + Wait(i)' <= Lag
    BY DEF ReadInTime
  <2>1. strokeAge[KeyOf(queue[i])] + Wait(i) <= Lag /\ strokeAge[KeyOf(queue[i])] \in Nat
    BY <1>0, <1>1, <1>2 DEF ReadInTime
  <2> QED BY <1>0, <1>1, <1>3, <2>1
<1>5. StampedInTime'
  BY <1>0, <1>1, <1>2 DEF StampedInTime
<1>6. SampledAfter'
  <2> SUFFICES ASSUME pc' = "read", NEW i \in 1..Len(queue), EndsOnly(i)
               PROVE  now' <= strokeAge[KeyOf(queue[i])]
    BY DEF SampledAfter, EndsOnly
  <2>1. strokeAge[KeyOf(queue[i])] \in Nat
    BY <1>1 DEF EndsOnly
  <2>2. pc = "read" => now <= strokeAge[KeyOf(queue[i])]
    BY <1>2 DEF SampledAfter
  <2> QED BY <2>1, <2>2
<1>7. RepeatsInTime'
  <2>1. CASE repeating' = None
    BY <1>0, <1>1, <2>1 DEF RepeatsInTime
  <2>2. CASE repeating' = repeating /\ heard' = heard
    <3>1. repeating' # None => strokeAge'[repeating'] <= RepeatTime
      BY <1>2, <2>2 DEF RepeatsInTime
    <3>2. ASSUME heard', repeating' \in keyDown'
          PROVE  NextStrokeInTime'
      <4>1. /\ lastEvent'[repeating'] = lastEvent[repeating] /\ repeating \in keyDown /\ heard
            /\ lastEvent[repeating] \in Nat
        BY <1>0, <1>1, <2>2, <3>2
      <4>2. NextStrokeInTime
        BY <1>2, <4>1 DEF RepeatsInTime
      <4>3. ASSUME NEW i \in 1..Len(queue), lastEvent[repeating] + Wait(i) <= RepeatTime + Lag
            PROVE  lastEvent[repeating] + Wait(i)' <= RepeatTime + Lag
        BY <1>0, <1>1, <1>3, <4>1, <4>3
      <4> QED BY <2>2, <4>1, <4>2, <4>3 DEF NextStrokeInTime
    <3> QED BY <3>1, <3>2 DEF RepeatsInTime
  <2> QED BY <2>1, <2>2
<1> QED BY <1>4, <1>5, <1>6, <1>7 DEF TimesInv

\* The loop goes on.
LEMMA LoopTimes ==
  ASSUME ReaderInv, ThreadInv, StrokesInv, TimesInv, mode = "STDIN", ~torn,
         PollReturns \/ SampleNow \/ NextIteration
  PROVE  TimesInv'
<1>1. /\ Len(queue) \in Nat /\ (queue = <<>> <=> Len(queue) = 0)
      /\ spent \in 0..(PollTime + MaxDelay) /\ now \in Nat
      /\ keyDown \subseteq Known /\ \A k \in Known : lastEvent[k] \in Nat
      /\ PollTime \in Nat /\ MaxDelay \in Nat /\ ReleaseAfter \in Nat
  BY TerminalFacts, TimeFacts, Durations, EmptySeq DEF Ages
<1>2. \A i \in 1..Len(queue) : /\ Delay(i) \in Nat /\ Delay(i - 1) \in Nat
                               /\ Delay(i) = Delay(i - 1) + MaxDelay
  <2> TAKE i \in 1..Len(queue)
  <2>1. i \in Nat /\ i - 1 \in Nat /\ (i - 1) + 1 = i
    BY <1>1
  <2>2. Delay((i - 1) + 1) = Delay(i - 1) + MaxDelay
    BY <2>1, DelayFacts
  <2> QED BY <2>1, <2>2, DelayFacts
<1>3. StampedInTime
  BY DEF TimesInv
<1>4. CASE PollReturns \/ SampleNow
  <2>1. /\ UNCHANGED <<mode, torn, queue, strokeAge, keyDown, lastEvent, spent, repeating, heard>>
        /\ pc' = "read" => now' = 0
        /\ (pc' \in {"poll", "ready", "read"} <=> pc \in {"poll", "ready", "read"}) \/ queue = <<>>
    BY <1>4 DEF PollReturns, SampleNow, user, keyState, listener
  <2>2. \A i \in 1..Len(queue) : Wait(i)' \in Int /\ Wait(i)' <= Wait(i)
    <3> TAKE i \in 1..Len(queue)
    <3>1. Wait(i)' = Wait(i)
      BY <1>1, <2>1 DEF Wait, WaitAt
    <3>2. Wait(i) \in Int
      BY <1>1, <1>2 DEF Wait, WaitAt
    <3> QED BY <3>1, <3>2
  <2>3. \A k \in keyDown' : lastEvent[k] < ReleaseAfter + MaxDelay + spent'
    BY <1>3, <2>1 DEF StampedInTime
  <2> QED BY <2>1, <2>2, <2>3, KeepTimes
<1>5. CASE NextIteration
  <2>1. /\ UNCHANGED <<mode, torn, queue, strokeAge, keyDown, lastEvent, repeating, heard>>
        /\ pc = "sweep" /\ pc' = "poll" /\ spent' \in Nat
        /\ queue # <<>> => spent' = PollTime
    BY <1>1, <1>5 DEF NextIteration, user, keyState
  <2>2. \A i \in 1..Len(queue) : Wait(i)' \in Int /\ Wait(i)' <= Wait(i)
    <3> TAKE i \in 1..Len(queue)
    <3>1. spent' = PollTime
      BY <1>1, <2>1
    <3>2. /\ Wait(i)' = (PollTime + MaxDelay - PollTime) + Delay(i - 1)
          /\ Wait(i) = (PollTime + MaxDelay - spent) + Delay(i)
      BY <2>1, <3>1 DEF Wait, WaitAt
    <3> QED BY <1>1, <1>2, <3>2
  <2>3. \A k \in keyDown' : lastEvent[k] < ReleaseAfter + MaxDelay + spent'
    <3> TAKE k \in keyDown'
    <3>1. k \in keyDown /\ k \in Known /\ ~Due(k)
      BY <1>1, <1>5, <2>1 DEF NextIteration
    <3>2. now <= spent - PollTime
      BY <2>1 DEF ThreadInv
    <3> QED BY <1>1, <2>1, <3>1, <3>2 DEF Due
  <2> QED BY <2>1, <2>2, <2>3, KeepTimes
<1> QED BY <1>4, <1>5

\* The key that is let go repeats no more; one that is released is not down.
LEMMA GoTimes ==
  ASSUME ReaderInv, StrokesInv, TimesInv, mode = "STDIN", ~torn,
         LetGo \/ (\E k \in Known : Release(k)) \/ UNCHANGED vars
  PROVE  TimesInv'
<1>1. /\ UNCHANGED <<mode, torn, queue, strokeAge, spent, pc, now>>
      /\ keyDown' \subseteq keyDown
      /\ repeating' = None \/ (repeating' = repeating /\ heard' = heard)
  BY DEF LetGo, Release, vars, user, keyState, listener
<1>2. \A k \in keyDown' : lastEvent'[k] = lastEvent[k]
  <2>1. lastEvent \in [Known -> Ages] /\ keyDown \subseteq Known
    BY TerminalFacts
  <2> QED BY <1>1, <2>1 DEF LetGo, Release, vars, keyState
<1>3. \A i \in 1..Len(queue) : Wait(i)' \in Int /\ Wait(i)' <= Wait(i)
  <2> TAKE i \in 1..Len(queue)
  <2>1. Wait(i)' = Wait(i)
    BY <1>1 DEF Wait, WaitAt
  <2>2. Wait(i) \in Nat
    BY WaitFacts, TerminalFacts DEF Wait
  <2> QED BY <2>1, <2>2
<1>4. \A k \in keyDown' : lastEvent[k] < ReleaseAfter + MaxDelay + spent'
  BY <1>1 DEF TimesInv, StampedInTime
<1> QED BY <1>1, <1>2, <1>3, <1>4, KeepTimes

\* Time passes: what waits is one tick nearer to being read.
LEMMA TickTimes ==
  ASSUME ReaderInv, ThreadInv, StrokesInv, TimesInv, mode = "STDIN", ~torn, Tick
  PROVE  TimesInv'
<1>0. /\ Lag \in Nat /\ RepeatTime \in Nat /\ ReleaseAfter \in Nat
      /\ PollTime \in Nat /\ MaxDelay \in Nat /\ AgeCap \in Nat
      /\ AgeCap = ReleaseAfter + Lag + 2 * (PollTime + MaxDelay)
      /\ Ages \subseteq Nat /\ \A a \in Ages : a <= AgeCap
  BY DelayFacts, TimeFacts, Durations DEF Ages
<1>1. /\ Len(queue) \in Nat /\ spent \in 0..(PollTime + MaxDelay) /\ now \in Nat
      /\ keyDown \subseteq struck /\ struck \subseteq TermKeys /\ keyDown \subseteq Known
      /\ lastEvent \in [Known -> Ages] /\ strokeAge \in [TermKeys -> Ages]
      /\ \A i \in 1..Len(queue) : KeyOf(queue[i]) \in struck \cup {None}
  BY <1>0, TerminalFacts
<1>2. ReadInTime /\ StampedInTime /\ SampledAfter /\ RepeatsInTime
  BY DEF TimesInv
<1>3. /\ UNCHANGED <<mode, torn, queue, pc, keyDown, struck, repeating, heard>>
      /\ spent < PollTime + MaxDelay /\ spent' = spent + 1
      /\ \A k \in keyDown : lastEvent'[k] = Older(lastEvent[k])
      /\ \A k \in struck : strokeAge'[k] = Older(strokeAge[k])
      /\ pc = "read" => now' = now + 1
      /\ repeating # None => strokeAge[repeating] < RepeatTime
  BY <1>1 DEF Tick, listener
<1>4. ASSUME NEW i \in 1..Len(queue)
      PROVE  Wait(i) \in Nat /\ Wait(i)' = Wait(i) - 1
  <2>1. i \in Nat \ {0}
    BY <1>1
  <2>2. Wait(i) \in Nat
    BY <1>1, <2>1, WaitFacts DEF Wait
  <2>3. Delay(IF pc \in {"poll", "ready", "read"} THEN i - 1 ELSE i) \in Nat
    <3>1. i - 1 \in Nat
      BY <2>1
    <3> QED BY <2>1, <3>1, DelayFacts
  <2>4. Wait(i)' = (PollTime + MaxDelay - (spent + 1))
                     + Delay(IF pc \in {"poll", "ready", "read"} THEN i - 1 ELSE i)
    BY <1>3 DEF Wait, WaitAt
  <2>5. Wait(i) = (PollTime + MaxDelay - spent)
                     + Delay(IF pc \in {"poll", "ready", "read"} THEN i - 1 ELSE i)
    BY DEF Wait, WaitAt
  <2> HIDE DEF Wait
  <2> QED BY <1>0, <1>1, <2>2, <2>3, <2>4, <2>5
<1>5. ASSUME NEW k \in struck
      PROVE  /\ strokeAge[k] \in Ages /\ strokeAge[k] \in Nat
             /\ strokeAge'[k] \in Nat /\ strokeAge'[k] <= strokeAge[k] + 1
  BY <1>0, <1>1, <1>3, OlderFacts
<1>6. ASSUME NEW k \in keyDown
      PROVE  /\ lastEvent[k] \in Ages /\ lastEvent[k] \in Nat
             /\ lastEvent'[k] = lastEvent[k] + 1
  <2>1. lastEvent[k] \in Ages /\ lastEvent[k] \in Nat
    BY <1>0, <1>1
  <2>2. lastEvent[k] < AgeCap
    BY <1>0, <1>1, <1>2, <1>3, <2>1 DEF StampedInTime
  <2> QED BY <1>3, <2>1, <2>2, OlderFacts
<1>7. ReadInTime'
  <2> SUFFICES ASSUME NEW i \in 1..Len(queue), KeyOf(queue[i]) # None
               PROVE  strokeAge'[KeyOf(queue[i])] + Wait(i)' <= Lag
    BY <1>3 DEF ReadInTime
  <2>1. KeyOf(queue[i]) \in struck /\ strokeAge[KeyOf(queue[i])] + Wait(i) <= Lag
    BY <1>1, <1>2 DEF ReadInTime
  <2> QED BY <1>0, <1>4, <1>5, <2>1
<1>8. StampedInTime'
  <2> SUFFICES ASSUME NEW k \in keyDown
               PROVE  /\ strokeAge'[k] <= lastEvent'[k] + Lag
                      /\ lastEvent'[k] < ReleaseAfter + MaxDelay + spent'
    BY <1>3 DEF StampedInTime
  <2>1. strokeAge[k] <= lastEvent[k] + Lag /\ lastEvent[k] < ReleaseAfter + MaxDelay + spent
    BY <1>2 DEF StampedInTime
  <2>2. k \in struck
    BY <1>1
  <2> QED BY <1>0, <1>1, <1>3, <1>5, <1>6, <2>1, <2>2
<1>9. SampledAfter'
  <2> SUFFICES ASSUME pc = "read", NEW i \in 1..Len(queue), EndsOnly(i)
               PROVE  now' <= strokeAge'[KeyOf(queue[i])]
    BY <1>3 DEF SampledAfter, EndsOnly
  <2> DEFINE k == KeyOf(queue[i])
  <2>1. k \in struck /\ now <= strokeAge[k]
    BY <1>1, <1>2 DEF SampledAfter, EndsOnly
  <2>2. now <= spent - PollTime
    BY DEF ThreadInv
  <2>3. now' = now + 1 /\ now' <= AgeCap
    BY <1>0, <1>1, <1>3, <2>2
  <2>4. strokeAge'[k] = IF strokeAge[k] < AgeCap THEN strokeAge[k] + 1 ELSE strokeAge[k]
    BY <1>3, <2>1 DEF Older
  <2>5. strokeAge[k] \in Nat /\ strokeAge[k] <= AgeCap
    BY <1>0, <1>5, <2>1
  <2> QED BY <1>0, <1>1, <2>1, <2>3, <2>4, <2>5
<1>10. RepeatsInTime'
  <2>1. repeating # None => repeating \in TermKeys
    BY TerminalFacts
  <2>2. repeating # None => strokeAge'[repeating] <= RepeatTime
    <3> SUFFICES ASSUME repeating # None PROVE strokeAge'[repeating] <= RepeatTime
      OBVIOUS
    <3>1. strokeAge[repeating] \in Nat /\ strokeAge[repeating] < RepeatTime
      BY <1>0, <1>1, <1>3, <2>1
    <3>2. strokeAge'[repeating] = 0 \/ strokeAge'[repeating] = Older(strokeAge[repeating])
      BY <2>1 DEF Tick
    <3> QED BY <1>0, <3>1, <3>2 DEF Older
  <2>3. ASSUME heard, repeating \in keyDown
        PROVE  NextStrokeInTime'
    <3>1. ASSUME NEW i \in 1..Len(queue), lastEvent[repeating] + Wait(i) <= RepeatTime + Lag
          PROVE  lastEvent'[repeating] + Wait(i)' <= RepeatTime + Lag
      BY <1>0, <1>4, <1>6, <2>3, <3>1
    <3>2. ASSUME lastEvent[repeating] <= strokeAge[repeating]
          PROVE  lastEvent'[repeating] <= strokeAge'[repeating]
      <4>1. repeating \in struck
        BY <1>1, <2>3
      <4> QED BY <1>3, <1>5, <1>6, <2>3, <3>2, <4>1, OlderFacts
    <3>3. NextStrokeInTime
      BY <1>2, <2>3 DEF RepeatsInTime
    <3> QED BY <1>3, <3>1, <3>2, <3>3 DEF NextStrokeInTime
  <2> QED BY <1>3, <2>2, <2>3 DEF RepeatsInTime
<1> QED BY <1>7, <1>8, <1>9, <1>10 DEF TimesInv

\* A stroke arrives: it is the last of its key, and waits no longer than Lag.
LEMMA StrikeTimes ==
  ASSUME NoEscape, ReaderInv, ThreadInv, StrokesInv, TimesInv, mode = "STDIN",
         NEW k \in TermKeys, Strike(k), UNCHANGED <<mode, torn, pc, got, now, keyDown, lastEvent>>,
         repeating' \in {None, k}, heard' => heard /\ repeating = k /\ repeating' = k
  PROVE  TimesInv'
<1>0. /\ Lag \in Nat /\ RepeatTime \in Nat /\ ReleaseAfter \in Nat /\ MaxQueue \in Nat
      /\ PollTime \in Nat /\ MaxDelay \in Nat /\ Ages \subseteq Nat /\ ~torn
  BY DelayFacts, TimeFacts, Durations DEF Ages, Strike
<1>1. /\ spent \in 0..(PollTime + MaxDelay) /\ now \in Nat
      /\ queue \in Seq(Chars)
      /\ keyDown \subseteq struck /\ struck \subseteq TermKeys /\ keyDown \subseteq Known
      /\ None \notin Known /\ None \notin TermKeys
      /\ lastEvent \in [Known -> Ages] /\ strokeAge \in [TermKeys -> Ages]
      /\ \A i \in 1..Len(queue) : KeyOf(queue[i]) \in struck \cup {None}
  BY <1>0, TerminalFacts
<1>2. ReadInTime /\ StampedInTime /\ SampledAfter /\ RepeatsInTime
  BY <1>0 DEF TimesInv
<1> DEFINE b == Bytes(k)
<1>3. b \in Seq(Chars) /\ Len(b) \in 1..3 /\ IsStroke(b, k) /\ k \in Known
  BY BytesType, BytesAreStrokes
<1> HIDE DEF b
<1>4. Arrive(b) /\ Len(queue) + Len(b) <= MaxQueue
  BY DEF Strike, b
<1>5. PICK n \in Nat : n = Len(queue)
  BY <1>3, <1>4, QueueAppended
<1>6. /\ Len(queue') = n + Len(b) /\ Len(queue') <= MaxQueue
      /\ \A i \in 1..n : queue'[i] = queue[i]
      /\ \A i \in 1..Len(b) : queue'[n + i] = b[i]
  BY <1>3, <1>4, <1>5, QueueAppended
<1>7. \A x \in TermKeys : strokeAge'[x] = IF x = k THEN 0 ELSE strokeAge[x]
  BY <1>1 DEF Strike, Struck
<1>8. spent' \in 0..(PollTime + MaxDelay) /\ spent <= spent' /\ spent' >= PollTime
  BY <1>0, <1>1, <1>4 DEF ThreadInv, Arrive
<1>9. ASSUME NEW i \in 1..Len(queue')
      PROVE  /\ Wait(i)' \in Nat /\ Wait(i)' <= Lag
             /\ i <= n => Wait(i) \in Nat /\ Wait(i)' <= Wait(i)
  <2>1. i \in Nat \ {0} /\ i \in 1..MaxQueue
    BY <1>0, <1>3, <1>6
  <2>2. Wait(i)' = WaitAt(spent', pc, i)
    BY DEF Wait, WaitAt
  <2>3. WaitAt(spent', pc, i) \in Nat /\ WaitAt(spent', pc, i) <= Lag
    BY <1>8, <2>1, WaitFacts
  <2>4. Wait(i) \in Nat
    BY <1>1, <2>1, WaitFacts DEF Wait
  <2>5. WaitAt(spent', pc, i) <= Wait(i)
    <3>1. Delay(IF pc \in {"poll", "ready", "read"} THEN i - 1 ELSE i) \in Nat
      <4>1. i - 1 \in Nat
        BY <2>1
      <4> QED BY <2>1, <4>1, DelayFacts
    <3> QED BY <1>0, <1>1, <1>8, <3>1 DEF Wait, WaitAt
  <2> QED BY <2>2, <2>3, <2>4, <2>5
<1>10. ASSUME NEW i \in 1..Len(queue'), i > n
       PROVE  KeyOf(queue'[i]) \in {k, None}
  <2>1. PICK j \in 1..Len(b) : i = n + j
    BY <1>3, <1>6, <1>10
  <2> QED BY <1>3, <1>6, <2>1 DEF IsStroke
<1>11. n + Len(b) \in 1..Len(queue') /\ KeyOf(queue'[n + Len(b)]) = k
  BY <1>3, <1>6 DEF IsStroke
<1>12. \A i \in 1..Len(queue') : i <= n => i \in 1..n /\ i < n + Len(b)
  BY <1>3, <1>6
<1>13. ReadInTime'
  <2> SUFFICES ASSUME NEW i \in 1..Len(queue'), KeyOf(queue'[i]) # None
               PROVE  strokeAge'[KeyOf(queue'[i])] + Wait(i)' <= Lag
    BY DEF ReadInTime
  <2>1. CASE KeyOf(queue'[i]) = k
    BY <1>0, <1>7, <1>9, <2>1
  <2>2. CASE KeyOf(queue'[i]) # k
    <3>1. i \in 1..n /\ i <= n /\ queue'[i] = queue[i]
      BY <1>6, <1>10, <1>12, <2>2
    <3> DEFINE x == KeyOf(queue[i])
    <3>2. x \in TermKeys /\ strokeAge[x] + Wait(i) <= Lag /\ strokeAge[x] \in Nat
      BY <1>0, <1>1, <1>2, <1>5, <3>1 DEF ReadInTime
    <3>3. strokeAge'[x] = strokeAge[x]
      BY <1>7, <2>2, <3>1, <3>2
    <3> QED BY <1>0, <1>9, <3>1, <3>2, <3>3
  <2> QED BY <2>1, <2>2
<1>14. StampedInTime'
  <2> SUFFICES ASSUME NEW x \in keyDown
               PROVE  /\ strokeAge'[x] <= lastEvent[x] + Lag
                      /\ lastEvent[x] < ReleaseAfter + MaxDelay + spent'
    BY DEF StampedInTime
  <2>1. /\ strokeAge[x] <= lastEvent[x] + Lag /\ lastEvent[x] < ReleaseAfter + MaxDelay + spent
        /\ strokeAge[x] \in Nat /\ lastEvent[x] \in Nat /\ x \in TermKeys
    BY <1>0, <1>1, <1>2 DEF StampedInTime
  <2> QED BY <1>0, <1>1, <1>7, <1>8, <2>1
<1>15. SampledAfter'
  <2> SUFFICES ASSUME pc = "read", NEW i \in 1..Len(queue'), EndsOnly(i)'
               PROVE  now <= strokeAge'[KeyOf(queue'[i])]
    BY DEF SampledAfter
  <2>0. /\ KeyOf(queue'[i]) # None
        /\ \A j \in 1..(i - 1) : KeyOf(queue'[j]) = None
        /\ \A j \in (i + 1)..Len(queue') : KeyOf(queue'[j]) # KeyOf(queue'[i])
    BY DEF EndsOnly
  <2>1. i <= n
    <3> SUFFICES ASSUME i > n PROVE FALSE
      BY <1>6
    <3>1. queue # <<>> /\ Newest \notin {"ESC", "["}
      BY <1>0 DEF StrokesInv, Whole
    <3>2. n \in 1..n /\ queue[n] \in Chars /\ queue[n] \notin {"ESC", "["}
      <4>1. n # 0
        BY <1>1, <1>5, <3>1, EmptySeq
      <4>2. n \in 1..n
        BY <4>1
      <4> QED BY <1>1, <1>5, <3>1, <4>2, ElementOfSeq DEF Newest
    <3>3. KeyOf(queue[n]) # None
      BY <3>2, KeyOfBytes DEF Chars, None
    <3>4. n \in 1..(i - 1) /\ queue'[n] = queue[n]
      BY <1>6, <3>2
    <3> QED BY <2>0, <3>3, <3>4
  <2>2. i \in 1..n /\ queue'[i] = queue[i]
    BY <1>6, <2>1
  <2>3. KeyOf(queue[i]) # k
    <3>1. n + Len(b) \in (i + 1)..Len(queue')
      <4>1. PICK m \in 1..3 : m = Len(b)
        BY <1>3
      <4>2. Len(queue') = n + m
        BY <1>6, <4>1
      <4>3. n + m \in (i + 1)..(n + m)
        BY <2>2
      <4> QED BY <4>1, <4>2, <4>3
    <3> QED BY <1>11, <2>0, <2>2, <3>1
  <2>4. EndsOnly(i)
    <3>1. \A j \in 1..(i - 1) : j \in 1..n
      BY <2>2
    <3>2. \A j \in (i + 1)..n : j \in 1..n /\ j \in (i + 1)..Len(queue')
      <4>1. Len(queue') \in Nat /\ n <= Len(queue')
        BY <1>3, <1>6
      <4> QED BY <2>2, <4>1
    <3> QED BY <1>5, <1>6, <2>0, <2>2, <3>1, <3>2 DEF EndsOnly
  <2>5. now <= strokeAge[KeyOf(queue[i])] /\ KeyOf(queue[i]) \in TermKeys
    BY <1>1, <1>2, <1>5, <2>2, <2>4 DEF SampledAfter, EndsOnly
  <2> QED BY <1>7, <2>2, <2>3, <2>5
<1>16. RepeatsInTime'
  <2>1. strokeAge'[k] <= RepeatTime
    BY <1>0, <1>7
  <2>2. ASSUME heard', k \in keyDown
        PROVE  NextStrokeInTime'
    <3>1. /\ heard /\ repeating = k /\ repeating' = k
          /\ NextStrokeInTime /\ strokeAge[k] <= RepeatTime
          /\ lastEvent[k] \in Nat /\ strokeAge[k] \in Nat
      BY <1>0, <1>1, <1>2, <2>2 DEF RepeatsInTime
    <3>2. CASE lastEvent[k] <= strokeAge[k]
      <4>1. lastEvent[k] + Wait(n + Len(b))' <= RepeatTime + Lag
        BY <1>0, <1>9, <1>11, <3>1, <3>2
      <4> QED BY <1>11, <3>1, <4>1 DEF NextStrokeInTime
    <3>3. CASE \E i \in 1..Len(queue) : /\ KeyOf(queue[i]) = k
                                       /\ lastEvent[k] + Wait(i) <= RepeatTime + Lag
      <4>1. PICK i \in 1..n : /\ KeyOf(queue[i]) = k
                              /\ lastEvent[k] + Wait(i) <= RepeatTime + Lag
        BY <1>5, <3>3
      <4>2. i \in 1..Len(queue') /\ i <= n /\ queue'[i] = queue[i]
        BY <1>3, <1>6
      <4>3. lastEvent[k] + Wait(i)' <= RepeatTime + Lag
        BY <1>0, <1>9, <3>1, <4>1, <4>2
      <4> QED BY <3>1, <4>1, <4>2, <4>3 DEF NextStrokeInTime
    <3> QED BY <3>1, <3>2, <3>3 DEF NextStrokeInTime
  <2>3. heard' => repeating' = k
    OBVIOUS
  <2> QED BY <2>1, <2>2, <2>3 DEF RepeatsInTime
<1> QED BY <1>13, <1>14, <1>15, <1>16 DEF TimesInv

\* A byte less: no stroke waits longer than before.
LEMMA ShiftTimes ==
  ASSUME ReaderInv, StrokesInv, TimesInv, mode = "STDIN", ~torn, pc = "read",
         queue # <<>>, queue' = Tail(queue), pc' \in {"read", "sweep"},
         UNCHANGED <<spent, strokeAge, repeating>>
  PROVE  /\ \A i \in 1..Len(queue') :
               Wait(i)' \in Nat /\ Wait(i + 1) \in Nat /\ Wait(i)' <= Wait(i + 1)
         /\ ReadInTime'
         /\ heard /\ repeating \in keyDown /\ KeyOf(queue[1]) # repeating
            /\ lastEvent'[repeating] = lastEvent[repeating] => NextStrokeInTime'
<1>0. Lag \in Nat /\ RepeatTime \in Nat /\ Ages \subseteq Nat
  BY DelayFacts, TimeFacts, Durations DEF Ages
<1>1. /\ spent \in 0..(PollTime + MaxDelay)
      /\ keyDown \subseteq struck /\ struck \subseteq TermKeys /\ keyDown \subseteq Known
      /\ lastEvent \in [Known -> Ages] /\ strokeAge \in [TermKeys -> Ages]
      /\ \A i \in 1..Len(queue) : KeyOf(queue[i]) \in struck \cup {None}
  BY TerminalFacts
<1>2. ReadInTime /\ RepeatsInTime
  BY DEF TimesInv
<1>3. /\ Len(queue) \in Nat /\ Len(queue) >= 1 /\ Len(queue') = Len(queue) - 1
      /\ \A i \in 1..Len(queue') : queue'[i] = queue[i + 1] /\ i + 1 \in 1..Len(queue)
      /\ \A i \in 2..Len(queue) : i - 1 \in 1..Len(queue') /\ queue'[i - 1] = queue[i]
  BY QueueShifted
<1>4. ASSUME NEW i \in 1..Len(queue')
      PROVE  Wait(i)' \in Nat /\ Wait(i + 1) \in Nat /\ Wait(i)' <= Wait(i + 1)
  <2>1. i \in Nat \ {0} /\ i + 1 \in Nat \ {0} /\ i <= i + 1 /\ (i + 1) - 1 = i
    BY <1>3
  <2>2. Wait(i + 1) \in Nat /\ WaitAt(spent, pc, i) <= Wait(i + 1)
    BY <1>1, <2>1, WaitFacts DEF Wait
  <2>3. Wait(i)' = WaitAt(spent, pc', i)
    BY DEF Wait, WaitAt
  <2>4. WaitAt(spent, pc', i) \in Nat
    BY <1>1, <2>1, WaitFacts
  <2>5. WaitAt(spent, "sweep", i) = Wait(i + 1)
    BY <2>1 DEF Wait, WaitAt
  <2> QED BY <2>2, <2>3, <2>4, <2>5
<1>5. ReadInTime'
  <2> SUFFICES ASSUME NEW i \in 1..Len(queue'), KeyOf(queue'[i]) # None
               PROVE  strokeAge[KeyOf(queue'[i])] + Wait(i)' <= Lag
    BY DEF ReadInTime
  <2> DEFINE x == KeyOf(queue[i + 1])
  <2>1. queue'[i] = queue[i + 1] /\ i + 1 \in 1..Len(queue)
    BY <1>3
  <2>2. strokeAge[x] \in Nat /\ strokeAge[x] + Wait(i + 1) <= Lag
    BY <1>0, <1>1, <1>2, <2>1 DEF ReadInTime
  <2> HIDE DEF x
  <2>3. strokeAge[x] + Wait(i)' <= Lag
    BY <1>0, <1>4, <2>2
  <2> QED BY <2>1, <2>3 DEF x
<1>6. ASSUME heard, repeating \in keyDown, KeyOf(queue[1]) # repeating,
             lastEvent'[repeating] = lastEvent[repeating]
      PROVE  NextStrokeInTime'
  <2>1. NextStrokeInTime /\ lastEvent[repeating] \in Nat
    BY <1>0, <1>1, <1>2, <1>6 DEF RepeatsInTime
  <2>2. ASSUME NEW i \in 1..Len(queue), KeyOf(queue[i]) = repeating,
               lastEvent[repeating] + Wait(i) <= RepeatTime + Lag
        PROVE  NextStrokeInTime'
    <3>1. i \in 2..Len(queue)
      BY <1>3, <1>6, <2>2
    <3>2. PICK m \in 1..Len(queue') : i = m + 1 /\ queue'[m] = queue[i]
      <4>1. (i - 1) + 1 = i
        BY <3>1
      <4> QED BY <1>3, <3>1, <4>1
    <3>3. lastEvent[repeating] + Wait(m)' <= RepeatTime + Lag
      BY <1>0, <1>4, <2>1, <2>2, <3>2
    <3> QED BY <1>6, <2>2, <3>2, <3>3 DEF NextStrokeInTime
  <2> QED BY <1>6, <2>1, <2>2 DEF NextStrokeInTime
<1> QED BY <1>4, <1>5, <1>6

\* A sequence goes on: its first two bytes end no stroke.
LEMMA ReadOnTimes ==
  ASSUME ReaderInv, ThreadInv, StrokesInv, TimesInv, mode = "STDIN", ~torn, ReadOn
  PROVE  TimesInv'
<1>1. /\ pc = "read" /\ pc' = "read" /\ queue # <<>> /\ queue' = Tail(queue)
      /\ UNCHANGED <<mode, torn, spent, strokeAge, keyDown, lastEvent, repeating, heard, now>>
  BY DEF ReadOn, ReadByte, user, keyState, listener
<1>2. KeyOf(queue[1]) = None
  <2>1. Head(queue) \in {"ESC", "["} /\ Head(queue) = queue[1]
    BY <1>1, ReadStrokes, QueueShifted
  <2> QED BY <2>1, KeyOfBytes
<1>3. StampedInTime /\ SampledAfter /\ RepeatsInTime
  BY DEF TimesInv
<1>4. ReadInTime'
  BY <1>1, ShiftTimes
<1>5. StampedInTime'
  BY <1>1, <1>3 DEF StampedInTime
<1>6. SampledAfter'
  <2> SUFFICES ASSUME NEW i \in 1..Len(queue'), EndsOnly(i)'
               PROVE  now <= strokeAge[KeyOf(queue'[i])]
    BY <1>1 DEF SampledAfter
  <2>1. /\ KeyOf(queue'[i]) # None
        /\ \A j \in 1..(i - 1) : KeyOf(queue'[j]) = None
        /\ \A j \in (i + 1)..Len(queue') : KeyOf(queue'[j]) # KeyOf(queue'[i])
    BY DEF EndsOnly
  <2>2. /\ Len(queue) \in Nat /\ Len(queue') = Len(queue) - 1
        /\ queue'[i] = queue[i + 1] /\ i + 1 \in 1..Len(queue)
        /\ \A j \in 2..Len(queue) : j - 1 \in 1..Len(queue') /\ queue'[j - 1] = queue[j]
    BY <1>1, QueueShifted
  <2>3. ASSUME NEW j \in 1..((i + 1) - 1)
        PROVE  KeyOf(queue[j]) = None
    <3>1. CASE j = 1
      BY <1>2, <3>1
    <3>2. CASE j # 1
      <4>1. j \in 2..Len(queue) /\ j - 1 \in 1..(i - 1)
        BY <2>2, <3>2
      <4> QED BY <2>1, <2>2, <4>1
    <3> QED BY <3>1, <3>2
  <2>4. ASSUME NEW j \in ((i + 1) + 1)..Len(queue)
        PROVE  KeyOf(queue[j]) # KeyOf(queue[i + 1])
    <3>1. j \in 2..Len(queue) /\ j - 1 \in (i + 1)..Len(queue')
      BY <2>2
    <3> QED BY <2>1, <2>2, <3>1
  <2>5. EndsOnly(i + 1)
    BY <2>1, <2>2, <2>3, <2>4 DEF EndsOnly
  <2> QED BY <1>1, <1>3, <2>2, <2>5 DEF SampledAfter
<1>7. RepeatsInTime'
  <2>1. repeating # None => strokeAge[repeating] <= RepeatTime
    BY <1>3 DEF RepeatsInTime
  <2>2. heard /\ repeating \in keyDown => NextStrokeInTime'
    <3>1. repeating \in keyDown => KeyOf(queue[1]) # repeating
      BY <1>2, TerminalFacts
    <3> QED BY <1>1, <3>1, ShiftTimes
  <2> QED BY <1>1, <2>1, <2>2 DEF RepeatsInTime
<1> QED BY <1>4, <1>5, <1>6, <1>7 DEF TimesInv

\* A stroke is read: the stamp is not older than the stroke by more than Lag, and
\* no younger if it is the last one.
LEMMA ReadKeyTimes ==
  ASSUME ReaderInv, ThreadInv, StrokesInv, TimesInv, mode = "STDIN", ~torn,
         NEW k \in Known, ReadKey(k)
  PROVE  TimesInv'
<1>0. /\ Lag \in Nat /\ RepeatTime \in Nat /\ ReleaseAfter \in Nat /\ MaxQueue \in Nat
      /\ PollTime \in Nat /\ MaxDelay \in Nat /\ Ages \subseteq Nat /\ ReleaseAfter > 0
  BY DelayFacts, TimeFacts, Durations DEF Ages
<1>1. /\ pc = "read" /\ pc' = "sweep" /\ queue # <<>> /\ queue' = Tail(queue)
      /\ UNCHANGED <<mode, torn, spent, strokeAge, repeating, now>>
      /\ heard' = (heard \/ k = repeating) /\ keyDown' = keyDown \cup {k}
      /\ lastEvent' = [lastEvent EXCEPT ![k] = now]
  BY DEF ReadKey, ReadByte, Renew, user
<1>2. /\ spent \in 0..(PollTime + MaxDelay) /\ now \in Nat
      /\ Len(queue) \in Nat /\ Len(queue) <= MaxQueue
      /\ keyDown \subseteq struck /\ struck \subseteq TermKeys /\ keyDown \subseteq Known
      /\ lastEvent \in [Known -> Ages] /\ strokeAge \in [TermKeys -> Ages]
      /\ None \notin Known /\ repeating \in TermKeys \cup {None}
      /\ \A i \in 1..Len(queue) : KeyOf(queue[i]) \in struck \cup {None}
  BY <1>0, TerminalFacts
<1>3. ReadInTime /\ StampedInTime /\ SampledAfter /\ RepeatsInTime
  BY DEF TimesInv
<1>4. /\ Head(queue) = queue[1] /\ 1 \in 1..Len(queue) /\ Len(queue') = Len(queue) - 1
      /\ \A i \in 2..Len(queue) : i - 1 \in 1..Len(queue') /\ queue'[i - 1] = queue[i]
  BY <1>1, <1>2, QueueShifted
<1>5. KeyOf(queue[1]) = k /\ k # None /\ k \in struck
  BY <1>1, <1>2, <1>4, ReadStrokes
<1>6. now <= spent - PollTime
  BY <1>1 DEF ThreadInv
<1>7. \A x \in Known : lastEvent'[x] = IF x = k THEN now ELSE lastEvent[x]
  BY <1>1, <1>2
<1>8. /\ \A i \in 1..Len(queue') : Wait(i)' \in Nat
      /\ ReadInTime'
      /\ heard /\ repeating \in keyDown /\ k # repeating => NextStrokeInTime'
  BY <1>1, <1>2, <1>5, <1>7, ShiftTimes
<1>9. StampedInTime'
  <2> SUFFICES ASSUME NEW x \in keyDown \cup {k}
               PROVE  /\ strokeAge[x] <= lastEvent'[x] + Lag
                      /\ lastEvent'[x] < ReleaseAfter + MaxDelay + spent
    BY <1>1 DEF StampedInTime
  <2>1. CASE x = k
    <3>1. strokeAge[k] + Wait(1) <= Lag /\ strokeAge[k] \in Nat
      BY <1>0, <1>2, <1>3, <1>4, <1>5 DEF ReadInTime
    <3>2. Wait(1) \in Nat
      BY <1>2, WaitFacts DEF Wait
    <3> QED BY <1>0, <1>2, <1>6, <1>7, <2>1, <3>1, <3>2
  <2>2. CASE x # k
    <3>1. x \in keyDown /\ x \in Known
      BY <1>2, <2>2
    <3> QED BY <1>3, <1>7, <2>2, <3>1 DEF StampedInTime
  <2> QED BY <2>1, <2>2
<1>10. SampledAfter'
  BY <1>1 DEF SampledAfter
<1>11. RepeatsInTime'
  <2>1. repeating # None => strokeAge[repeating] <= RepeatTime
    BY <1>3 DEF RepeatsInTime
  <2>2. CASE repeating # k
    BY <1>1, <1>8, <2>1, <2>2 DEF RepeatsInTime
  <2>3. CASE repeating = k
    <3>1. ASSUME NEW i \in 1..Len(queue')
          PROVE  now + Wait(i)' <= RepeatTime + Lag
      <4>1. i \in Nat /\ i <= MaxQueue
        BY <1>0, <1>2, <1>4
      <4>2. Wait(i)' = (PollTime + MaxDelay - spent) + Delay(i)
        BY <1>1 DEF Wait, WaitAt
      <4>3. Delay(i) \in Nat /\ Delay(i) <= Delay(MaxQueue) /\ Lag = Delay(MaxQueue) + MaxDelay
        BY <1>0, <4>1, DelayFacts
      <4>4. Delay(MaxQueue) \in Nat
        BY <1>0, DelayFacts
      <4> QED BY <1>0, <1>2, <1>6, <4>2, <4>3, <4>4
    <3>2. ASSUME \A i \in 1..Len(queue') : KeyOf(queue'[i]) # k
          PROVE  now <= strokeAge[k]
      <4>1. \A j \in (1 + 1)..Len(queue) : KeyOf(queue[j]) # k
        BY <1>4, <3>2
      <4>2. EndsOnly(1)
        BY <1>5, <4>1 DEF EndsOnly
      <4> QED BY <1>1, <1>3, <1>4, <1>5, <4>2 DEF SampledAfter
    <3>3. NextStrokeInTime'
      BY <1>1, <1>7, <2>3, <3>1, <3>2 DEF NextStrokeInTime
    <3> QED BY <1>1, <2>1, <3>3 DEF RepeatsInTime
  <2> QED BY <2>2, <2>3
<1> QED BY <1>8, <1>9, <1>10, <1>11 DEF TimesInv

\* Every step keeps the times.
LEMMA TimesStep ==
  ASSUME NoEscape, ReaderInv, ThreadInv, StrokesInv, TimesInv, [Next]_vars
  PROVE  TimesInv'
<1>0. mode' = mode /\ (torn => torn')
  BY DEF Next, vars, user, Tick, Press, BeginRepeat, PressTorn, Repeat, LetGo, RestArrives,
         PollReturns, SampleNow, ReadOn, ReadNothing, NextIteration, ReadKey, Release,
         KernelEvent, ReadEvent
<1> SUFFICES ASSUME mode = "STDIN", ~torn, ~torn' PROVE TimesInv'
  BY <1>0 DEF TimesInv
<1>1. CASE Tick
  BY <1>1, TickTimes
<1>2. ASSUME NEW k \in TermKeys, Press(k)
      PROVE  TimesInv'
  BY <1>0, <1>2, StrikeTimes DEF Press, keyState
<1>13. ASSUME NEW k \in TermKeys, BeginRepeat(k)
       PROVE  TimesInv'
  <2>1. ~heard
    BY <1>13 DEF BeginRepeat, ThreadInv
  <2> QED BY <1>0, <1>13, <2>1, StrikeTimes DEF BeginRepeat, keyState, listener
<1>3. CASE Repeat
  <2>1. repeating \in TermKeys
    BY <1>3 DEF ReaderInv, TypeOK, Repeat, UserKeys
  <2> QED BY <1>3, <2>1, StrikeTimes DEF Repeat, keyState, listener
<1>4. ASSUME NEW k \in TermKeys, PressTorn(k)
      PROVE  FALSE
  BY <1>4 DEF PressTorn
<1>5. CASE RestArrives
  BY <1>5 DEF RestArrives, ReaderInv, TerminalInv
<1>6. CASE LetGo \/ (\E k \in Known : Release(k)) \/ UNCHANGED vars
  BY <1>6, GoTimes
<1>7. CASE PollReturns \/ SampleNow \/ NextIteration
  BY <1>7, LoopTimes
<1>8. CASE ReadOn
  BY <1>8, ReadOnTimes
<1>9. CASE ReadNothing
  BY <1>9, NothingDropped
<1>10. ASSUME NEW k \in Known, ReadKey(k)
       PROVE  TimesInv'
  BY <1>10, ReadKeyTimes
<1>11. ASSUME NEW k \in EvdevKeys, NEW value \in Values, KernelEvent(k, value)
       PROVE  FALSE
  BY <1>11 DEF KernelEvent
<1>12. CASE ReadEvent
  BY <1>12 DEF ReadEvent
<1> QED
  BY <1>1, <1>2, <1>3, <1>4, <1>5, <1>6, <1>7, <1>8, <1>9, <1>10, <1>11, <1>12,
     <1>13
  DEF Next

\* All that is needed for a terminal where sequences come whole.
TimedInv == ReaderInv /\ ThreadInv /\ StrokesInv /\ TimesInv

LEMMA InitTimed == Init => TimedInv
<1> SUFFICES ASSUME Init PROVE TimedInv
  OBVIOUS
<1>1. ThreadInv
  BY DEF Init, ThreadInv
<1>2. StrokesInv
  BY DEF Init, StrokesInv, Whole, Newest, LastGot, None
<1>3. ReaderInv
  BY InitInv
<1>4. mode = "STDIN" => repeating = None
  BY <1>3 DEF Init, InputMode, TypeOK, ReaderInv
<1>5. TimesInv
  BY <1>4, EmptySeq DEF Init, TimesInv, ReadInTime, StampedInTime, SampledAfter, RepeatsInTime
<1> QED BY <1>1, <1>2, <1>3, <1>5 DEF TimedInv

LEMMA StepTimed == ASSUME NoEscape, TimedInv, [Next]_vars PROVE TimedInv'
  BY StepInv, ThreadStep, StrokesStep, TimesStep DEF TimedInv

(***************************************************************************)
(* On a terminal a key the user no longer strikes is released in time, for *)
(* any durations for which a key that repeats outlasts the delays of the   *)
(* thread: no other key, however fast it repeats, keeps the thread from    *)
(* its sweep over the keys.                                                *)
(***************************************************************************)
THEOREM ReleasesInTime == ASSUME NoEscape PROVE Spec => []ReleasedInTime
<1>1. TimedInv => ReleasedInTime
  <2> SUFFICES ASSUME TimedInv, mode = "STDIN", ~torn, NEW k \in told \cap TermKeys
               PROVE  strokeAge[k] < ReleaseAfter + Lag + PollTime + 2 * MaxDelay
    BY DEF ReleasedInTime
  <2>1. /\ Lag \in Nat /\ ReleaseAfter \in Nat /\ PollTime \in Nat /\ MaxDelay \in Nat
        /\ Ages \subseteq Nat
    BY DelayFacts, TimeFacts, Durations DEF Ages
  <2>2. /\ k \in keyDown /\ spent \in 0..(PollTime + MaxDelay)
        /\ lastEvent[k] \in Nat /\ strokeAge[k] \in Nat
    BY <2>1, TerminalFacts DEF TimedInv
  <2>3. strokeAge[k] <= lastEvent[k] + Lag /\ lastEvent[k] < ReleaseAfter + MaxDelay + spent
    BY <2>2 DEF TimedInv, TimesInv, StampedInTime
  <2> QED BY <2>1, <2>2, <2>3
<1>2. Init => TimedInv
  BY InitTimed
<1>3. TimedInv /\ [Next]_vars => TimedInv'
  BY StepTimed
<1> QED BY <1>1, <1>2, <1>3, PTL DEF Spec

(***************************************************************************)
(* However late a held key begins to repeat on a terminal: once it has and *)
(* has been read it is not reported as released while it is held, although *)
(* strokes wait in the queue while others are read.  Only the sweep        *)
(* releases, and the key is not due.                                       *)
(***************************************************************************)
THEOREM RepeatingIsNotReleased == ASSUME NoEscape PROVE Spec => RepeatingKeyStaysPressed
<1>1. ASSUME TimedInv, [Next]_vars
      PROVE  [\A k \in told \ told' : mode = "STDIN" => ~(heard /\ k = repeating)]_vars
  <2> SUFFICES ASSUME Next, NEW k \in told \ told', mode = "STDIN", heard, k = repeating
               PROVE  FALSE
    BY <1>1
  <2>0. /\ Lag \in Nat /\ RepeatTime \in Nat /\ ReleaseAfter \in Nat /\ Ages \subseteq Nat
        /\ ReleaseAfter > RepeatTime + Lag
    BY DelayFacts, TimeFacts, Durations DEF Ages
  <2>1. k \in Known /\ k # None
    BY <1>1, KeyOfBytes DEF TimedInv, ReaderInv, TypeOK
  <2>2. ~torn
    BY <1>1, <2>1 DEF TimedInv, ThreadInv
  <2>3. Release(k)
    <3>1. ASSUME NEW x \in Known, Release(x)
          PROVE  x = k
      BY <1>1, <3>1, SayType DEF Release, TimedInv, ReaderInv
    <3>2. ASSUME NEW x \in Known, ReadKey(x)
          PROVE  FALSE
      BY <1>1, <3>2, SayType DEF ReadKey, TimedInv, ReaderInv
    <3> QED BY <3>1, <3>2 DEF Next, vars, user, listener, Tick, Press, BeginRepeat, PressTorn, Repeat,
              LetGo, RestArrives, PollReturns, SampleNow, ReadOn, ReadNothing, NextIteration,
              KernelEvent, ReadEvent
  <2>4. /\ k \in keyDown /\ lastEvent[k] \in Nat /\ strokeAge[k] \in Nat /\ now \in Nat
        /\ Len(queue) \in Nat /\ spent \in 0..(PollTime + MaxDelay)
    BY <1>1, <2>0, <2>2, TerminalFacts DEF TimedInv
  <2>5. lastEvent[k] >= ReleaseAfter
    BY <2>0, <2>3, <2>4 DEF Release, Due
  <2>6. NextStrokeInTime /\ strokeAge[k] <= RepeatTime
    BY <1>1, <2>1, <2>2, <2>4 DEF TimedInv, TimesInv, RepeatsInTime
  <2>7. ASSUME NEW i \in 1..Len(queue), lastEvent[k] + Wait(i) <= RepeatTime + Lag
        PROVE  FALSE
    <3>1. i \in Nat \ {0}
      BY <2>4
    <3>2. Wait(i) \in Nat
      BY <2>4, <3>1, WaitFacts DEF Wait
    <3> QED BY <2>0, <2>4, <2>5, <2>7, <3>2
  <2> QED BY <2>0, <2>4, <2>5, <2>6, <2>7 DEF NextStrokeInTime
<1>2. Init => TimedInv
  BY InitTimed
<1>3. TimedInv /\ [Next]_vars => TimedInv'
  BY StepTimed
<1> QED BY <1>1, <1>2, <1>3, PTL DEF Spec, RepeatingKeyStaysPressed
=============================================================================
