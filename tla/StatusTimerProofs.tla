--------------------------- MODULE StatusTimerProofs ---------------------------
(***************************************************************************)
(* Proofs about StatusTimer, for any registry, any timeouts and any gap    *)
(* between two runs of the timer.                                          *)
(***************************************************************************)
EXTENDS StatusTimer, TLAPS

\* The entries with both timeouts set and no application looking over them.
Removable(e) == Timed(e) /\ DiscTimeout[e] > 0 /\ e \notin Queried

(***************************************************************************)
(* Between two runs an untracked entry is at most sweepAge past its        *)
(* threshold, a tracked one at most sweepAge past disconnect_timeout_ns,   *)
(* and tracking began at most MaxGap past the threshold.                   *)
(***************************************************************************)
NoticedInTime ==
    \A e \in registered : Removable(e) =>
        /\ e \notin tracked => age[e] <= Threshold[e] + sweepAge
        /\ e \in tracked => /\ since[e] <= DiscTimeout[e] + sweepAge
                            /\ age[e] <= Threshold[e] + MaxGap + since[e]

TimerInv ==
    /\ TypeOK
    /\ TrackedIsRegistered
    /\ NoticedInTime
    /\ \A e \in Entries \ Queried : pending[e] = "none"

-----------------------------------------------------------------------------
(* Lemmas *)

\* Constants of the entries, with their types.
LEMMA Params ==
  ASSUME NEW e \in Entries
  PROVE  /\ Threshold[e] \in Nat /\ DiscTimeout[e] \in Nat
         /\ MaxGap \in Nat /\ MaxGap > 0 /\ AgeCap \in Nat
         /\ AgeCap > Threshold[e] + DiscTimeout[e] + 2 * MaxGap
  BY TimesAssumption, AgeCapAssumption

\* Growing older: by one, up to the cap.
LEMMA OlderBounds ==
  ASSUME NEW a \in 0..AgeCap
  PROVE  /\ Older(a) \in 0..AgeCap
         /\ Older(a) <= a + 1
         /\ a < AgeCap => Older(a) = a + 1
  BY AgeCapAssumption DEF Older

\* What a run of the timer does, entry by entry.
LEMMA SweepEffect ==
  ASSUME TypeOK, TrackedIsRegistered,
         NEW landing \in SUBSET {e \in Entries : pending[e] # "none"}, Sweep(landing)
  PROVE  /\ TypeOK'
         /\ TrackedIsRegistered'
         /\ sweepAge' = 0
         /\ \A e \in registered' :
               /\ e \in registered /\ age'[e] = age[e]
               /\ e \in tracked' <=> e \in Seen(landing)
               /\ e \in tracked' /\ e \in tracked =>
                     since'[e] = since[e] /\ since[e] <= DiscTimeout[e]
               /\ e \in tracked' /\ e \notin tracked => since'[e] = 0
         /\ \A e \in registered \ registered' :
               /\ e \in Seen(landing) /\ e \in tracked
               /\ since[e] > DiscTimeout[e]
         /\ \A e \in Entries : pending[e] = "none" => pending'[e] = "none"
<1> DEFINE seen    == Seen(landing)
           removed == Overdue(seen)
<1>1. /\ registered' = registered \ removed
      /\ tracked' = Tracks(seen, removed)
      /\ since' = [e \in Entries |-> IF e \in tracked \cap tracked' THEN since[e] ELSE 0]
      /\ state' = [e \in Entries |-> IF e \in registered' THEN Found(e, landing)
                                                          ELSE "UNKNOWN"]
      /\ age' = [e \in Entries |-> IF e \in registered' THEN age[e] ELSE 0]
      /\ pending' = [e \in Entries |-> IF e \in registered' \ landing THEN pending[e]
                                                                  ELSE "none"]
      /\ sweepAge' = 0
  BY DEF Sweep
<1>2. seen \subseteq registered /\ removed \subseteq seen /\ removed \subseteq tracked
  BY DEF Seen, Overdue
<1>3. tracked' = seen \ removed
  BY <1>1, <1>2 DEF Tracks, TrackedIsRegistered
<1>4. \A e \in registered : Found(e, landing) \in States
  BY DEF Found, Checked, TypeOK, States
<1>5. AgeCap \in Nat /\ MaxGap \in Nat
  BY AgeCapAssumption, TimesAssumption
<1>6. registered' \subseteq Entries /\ tracked' \subseteq registered'
  BY <1>1, <1>2, <1>3 DEF TypeOK
<1>7. TypeOK'
  <2>1. state' \in [Entries -> States]
    BY <1>1, <1>2, <1>4 DEF States
  <2>2. age' \in [Entries -> 0..AgeCap] /\ since' \in [Entries -> 0..AgeCap]
    BY <1>1, <1>5 DEF TypeOK
  <2>3. pending' \in [Entries -> {"none", "ACTIVE", "TIMEOUT"}]
    BY <1>1 DEF TypeOK
  <2>4. sweepAge' \in 0..MaxGap
    BY <1>1, <1>5
  <2> QED BY <1>6, <2>1, <2>2, <2>3, <2>4 DEF TypeOK
<1>8. \A e \in registered' :
         /\ e \in registered /\ age'[e] = age[e]
         /\ e \in tracked' <=> e \in Seen(landing)
         /\ e \in tracked' /\ e \notin tracked => since'[e] = 0
         /\ e \in tracked' /\ e \in tracked => since'[e] = since[e]
  BY <1>1, <1>2, <1>3, <1>6 DEF TypeOK
<1>9. ASSUME NEW e \in registered', e \in tracked', e \in tracked
      PROVE  since[e] <= DiscTimeout[e]
  <2>1. ~(since[e] > DiscTimeout[e])
    BY <1>3, <1>9 DEF Overdue
  <2>2. since[e] \in 0..AgeCap /\ DiscTimeout[e] \in Nat
    BY <1>6, Params DEF TypeOK
  <2> QED BY <1>5, <2>1, <2>2
<1>10. \A e \in registered \ registered' :
          e \in Seen(landing) /\ e \in tracked /\ since[e] > DiscTimeout[e]
  BY <1>1 DEF Overdue
<1>11. \A e \in Entries : pending[e] = "none" => pending'[e] = "none"
  BY <1>1
<1> QED BY <1>1, <1>6, <1>7, <1>8, <1>9, <1>10, <1>11 DEF TrackedIsRegistered

-----------------------------------------------------------------------------
(* TimerInv is inductive *)

\* The initial state satisfies the invariant.
LEMMA InitInv == Init => TimerInv
  BY TimesAssumption, AgeCapAssumption
  DEF Init, TimerInv, TypeOK, States, TrackedIsRegistered, NoticedInTime

\* Each step keeps the invariant.
LEMMA StepInv == TimerInv /\ [Next]_vars => TimerInv'
<1> SUFFICES ASSUME TimerInv, [Next]_vars
             PROVE  TimerInv'
  OBVIOUS
<1>n. AgeCap \in Nat /\ MaxGap \in Nat /\ sweepAge \in Nat
  BY AgeCapAssumption, TimesAssumption DEF TimerInv, TypeOK
<1>1. ASSUME NEW e \in Entries, Register(e)
      PROVE  TimerInv'
  <2>1. TypeOK' /\ TrackedIsRegistered'
    BY <1>1, <1>n DEF Register, TimerInv, TypeOK, TrackedIsRegistered, States
  <2>2. ASSUME NEW d \in registered', Removable(d), e = d
        PROVE  /\ d \notin tracked' => age'[d] <= Threshold[d] + sweepAge'
               /\ d \in tracked' => /\ since'[d] <= DiscTimeout[d] + sweepAge'
                                    /\ age'[d] <= Threshold[d] + MaxGap + since'[d]
    <3>1. age'[d] = 0 /\ since'[d] = since[d] /\ tracked' = tracked /\ sweepAge' = sweepAge
      BY <1>1, <2>2 DEF Register, TimerInv, TypeOK
    <3>2. Threshold[d] \in Nat /\ since[d] \in Nat
      BY <1>1, <1>n, <2>2, Params DEF TimerInv, TypeOK
    <3>3. d \in tracked => since[d] <= DiscTimeout[d] + sweepAge
      BY <2>2 DEF TimerInv, TrackedIsRegistered, NoticedInTime
    <3> QED BY <1>n, <3>1, <3>2, <3>3
  <2>3. NoticedInTime'
    BY <1>1, <2>2 DEF Register, TimerInv, TypeOK, NoticedInTime, Removable
  <2>4. \A d \in Entries \ Queried : pending'[d] = "none"
    BY <1>1 DEF Register, TimerInv, TypeOK
  <2> QED BY <2>1, <2>3, <2>4 DEF TimerInv
<1>2. ASSUME NEW e \in Entries, Activity(e)
      PROVE  TimerInv'
  <2>1. TypeOK' /\ TrackedIsRegistered'
    BY <1>2, <1>n DEF Activity, TimerInv, TypeOK, TrackedIsRegistered, States
  <2>2. ASSUME NEW d \in registered', Removable(d), e = d
        PROVE  /\ d \notin tracked' => age'[d] <= Threshold[d] + sweepAge'
               /\ d \in tracked' => /\ since'[d] <= DiscTimeout[d] + sweepAge'
                                    /\ age'[d] <= Threshold[d] + MaxGap + since'[d]
    <3>1. age'[d] = 0 /\ since'[d] = since[d] /\ tracked' = tracked /\ sweepAge' = sweepAge
      BY <1>2, <2>2 DEF Activity, TimerInv, TypeOK
    <3>2. Threshold[d] \in Nat /\ since[d] \in Nat
      BY <1>2, <1>n, <2>2, Params DEF TimerInv, TypeOK
    <3>3. d \in tracked => since[d] <= DiscTimeout[d] + sweepAge
      BY <2>2 DEF TimerInv, TrackedIsRegistered, NoticedInTime
    <3> QED BY <1>n, <3>1, <3>2, <3>3
  <2>3. NoticedInTime'
    BY <1>2, <2>2 DEF Activity, TimerInv, TypeOK, NoticedInTime, Removable
  <2>4. \A d \in Entries \ Queried : pending'[d] = "none"
    BY <1>2 DEF Activity, TimerInv
  <2> QED BY <2>1, <2>3, <2>4 DEF TimerInv
<1>3. ASSUME NEW e \in Entries, SendFails(e)
      PROVE  TimerInv'
  BY <1>3 DEF SendFails, TimerInv, TypeOK, TrackedIsRegistered, NoticedInTime, Removable, States
<1>4. ASSUME NEW e \in Entries, AppChecks(e)
      PROVE  TimerInv'
  BY <1>4 DEF AppChecks, TimerInv, TypeOK, TrackedIsRegistered, NoticedInTime, Removable
<1>5. ASSUME NEW e \in Entries, AppStores(e)
      PROVE  TimerInv'
  BY <1>5 DEF AppStores, TimerInv, TypeOK, TrackedIsRegistered, NoticedInTime, Removable, States
<1>6. ASSUME NEW landing \in SUBSET {e \in Entries : pending[e] # "none"}, Sweep(landing)
      PROVE  TimerInv'
  <2>1. ASSUME NEW e \in registered', Removable(e)
        PROVE  /\ e \notin tracked' => age'[e] <= Threshold[e] + sweepAge'
               /\ e \in tracked' => /\ since'[e] <= DiscTimeout[e] + sweepAge'
                                    /\ age'[e] <= Threshold[e] + MaxGap + since'[e]
    <3>1. /\ e \in registered /\ age'[e] = age[e] /\ sweepAge' = 0
          /\ e \in tracked' <=> e \in Seen(landing)
          /\ e \in tracked' /\ e \in tracked =>
                since'[e] = since[e] /\ since[e] <= DiscTimeout[e]
          /\ e \in tracked' /\ e \notin tracked => since'[e] = 0
      BY <1>6, SweepEffect DEF TimerInv
    <3>2. /\ e \in Entries /\ age[e] \in Nat /\ since[e] \in Nat
          /\ sweepAge <= MaxGap
      BY <3>1, <1>n DEF TimerInv, TypeOK
    <3>3. Threshold[e] \in Nat /\ DiscTimeout[e] \in Nat
      BY <3>2, Params
    <3>4. /\ e \notin tracked => age[e] <= Threshold[e] + sweepAge
          /\ e \in tracked => age[e] <= Threshold[e] + MaxGap + since[e]
      BY <2>1, <3>1 DEF TimerInv, NoticedInTime
    <3>5. CASE e \in tracked'
      BY <1>n, <3>1, <3>2, <3>3, <3>4, <3>5
    <3>6. CASE e \notin tracked'
      <4>1. e \notin landing
        BY <2>1, <3>2 DEF Removable, TimerInv
      <4>2. Checked(e) # "TIMEOUT"
        BY <2>1, <3>1, <3>6, <4>1 DEF Seen, Found, Removable
      <4>3. age[e] <= Threshold[e]
        BY <2>1, <3>2, <3>3, <4>2 DEF Checked, Removable
      <4> QED BY <3>1, <3>3, <3>6, <4>3
    <3> QED BY <3>5, <3>6
  <2>2. NoticedInTime'
    BY <2>1 DEF NoticedInTime
  <2> QED BY <1>6, <2>2, SweepEffect DEF TimerInv
<1>7. CASE Tick
  <2>1. TypeOK'
    BY <1>7, <1>n, OlderBounds DEF Tick, TimerInv, TypeOK
  <2>2. ASSUME NEW e \in registered, Removable(e)
        PROVE  /\ e \notin tracked' => age'[e] <= Threshold[e] + sweepAge'
               /\ e \in tracked' => /\ since'[e] <= DiscTimeout[e] + sweepAge'
                                    /\ age'[e] <= Threshold[e] + MaxGap + since'[e]
    <3>1. /\ age'[e] = Older(age[e]) /\ sweepAge' = sweepAge + 1 /\ tracked' = tracked
          /\ e \in tracked => since'[e] = Older(since[e])
      BY <1>7, <2>2 DEF Tick, TimerInv, TypeOK
    <3>2. e \in Entries /\ age[e] \in 0..AgeCap /\ since[e] \in 0..AgeCap /\ sweepAge < MaxGap
      BY <1>7, <2>2 DEF Tick, TimerInv, TypeOK
    <3>3. /\ Threshold[e] \in Nat /\ DiscTimeout[e] \in Nat
          /\ AgeCap > Threshold[e] + DiscTimeout[e] + 2 * MaxGap
      BY <3>2, Params
    <3>4. /\ Older(age[e]) <= age[e] + 1
          /\ Older(since[e]) <= since[e] + 1
          /\ since[e] < AgeCap => Older(since[e]) = since[e] + 1
      BY <3>2, OlderBounds
    <3>5. /\ e \notin tracked => age[e] <= Threshold[e] + sweepAge
          /\ e \in tracked => /\ since[e] <= DiscTimeout[e] + sweepAge
                              /\ age[e] <= Threshold[e] + MaxGap + since[e]
      BY <2>2 DEF TimerInv, NoticedInTime
    <3>6. Older(age[e]) \in Nat /\ Older(since[e]) \in Nat
      BY <1>n, <3>2, OlderBounds
    <3> QED BY <1>n, <3>1, <3>2, <3>3, <3>4, <3>5, <3>6
  <2>3. NoticedInTime'
    BY <1>7, <2>2 DEF Tick, NoticedInTime
  <2> QED BY <1>7, <2>1, <2>3 DEF Tick, TimerInv, TrackedIsRegistered
<1>8. CASE UNCHANGED vars
  BY <1>8 DEF vars, TimerInv, TypeOK, TrackedIsRegistered, NoticedInTime, Removable
<1> QED
  BY <1>1, <1>2, <1>3, <1>4, <1>5, <1>6, <1>7, <1>8 DEF Next

\* The invariant holds in every reachable state.
LEMMA InvHolds == Spec => []TimerInv
  BY InitInv, StepInv, PTL DEF Spec

(***************************************************************************)
(* The types are an invariant.                                             *)
(***************************************************************************)
THEOREM TypeCorrect == Spec => []TypeOK
<1>1. TimerInv => TypeOK
  BY DEF TimerInv
<1> QED BY <1>1, InvHolds, PTL

(***************************************************************************)
(* The timer never tracks a channel that is not registered.                *)
(***************************************************************************)
THEOREM NothingHeldAgainstNewcomers == Spec => []TrackedIsRegistered
<1>1. TimerInv => TrackedIsRegistered
  BY DEF TimerInv
<1> QED BY <1>1, InvHolds, PTL

(***************************************************************************)
(* A silent peer is gone two timer runs after its timeouts, at the latest. *)
(***************************************************************************)
THEOREM DeadPeerRemovedInTime == Spec => []RemovedInTime
<1>1. TimerInv => RemovedInTime
  <2> SUFFICES ASSUME TimerInv, NEW e \in registered \ Queried, Timed(e), DiscTimeout[e] > 0
               PROVE  age[e] <= Threshold[e] + DiscTimeout[e] + 2 * MaxGap
    BY DEF RemovedInTime
  <2>1. /\ e \in Entries /\ age[e] \in Nat /\ since[e] \in Nat
        /\ sweepAge \in Nat /\ sweepAge <= MaxGap
    BY TimesAssumption, AgeCapAssumption DEF TimerInv, TypeOK
  <2>2. Threshold[e] \in Nat /\ DiscTimeout[e] \in Nat /\ MaxGap \in Nat
    BY <2>1, Params
  <2>3. Removable(e)
    BY DEF Removable
  <2> QED BY <2>1, <2>2, <2>3 DEF TimerInv, NoticedInTime
<1> QED BY <1>1, InvHolds, PTL

-----------------------------------------------------------------------------
(* Removal only after continuous silence *)

(***************************************************************************)
(* A tracked steady entry was past its threshold when tracking began and   *)
(* has been silent since, or it has been active after the last run: then   *)
(* the next run finds it within its threshold, and stops tracking it.      *)
(***************************************************************************)
SilentWhileTracked ==
    /\ \A e \in registered :
          Steady(e) /\ state[e] = "TIMEOUT" => Timed(e) /\ age[e] > Threshold[e]
    /\ \A e \in tracked : Steady(e) =>
          /\ Timed(e) /\ DiscTimeout[e] > 0
          /\ age[e] > Threshold[e] + since[e] \/ age[e] <= sweepAge

\* A steady entry that the timer finds in TIMEOUT is past its threshold; if it
\* is tracked, it has been silent since before that.
LEMMA SeenIsSilent ==
  ASSUME TimerInv, SilentWhileTracked,
         NEW landing \in SUBSET {e \in Entries : pending[e] # "none"},
         NEW e \in Seen(landing), Steady(e)
  PROVE  /\ Timed(e) /\ DiscTimeout[e] > 0
         /\ age[e] > Threshold[e]
         /\ e \in tracked => age[e] > Threshold[e] + since[e]
<1>1. e \in Entries /\ e \in registered /\ e \notin landing /\ DiscTimeout[e] > 0
  BY DEF Seen, TimerInv, TypeOK, Steady
<1>2. Checked(e) = "TIMEOUT"
  BY <1>1 DEF Seen, Found
<1>3. Timed(e) /\ age[e] > Threshold[e]
  BY <1>1, <1>2 DEF Checked, SilentWhileTracked
<1>4. /\ MaxGap <= Threshold[e] /\ sweepAge <= MaxGap
      /\ sweepAge \in Nat /\ age[e] \in Nat /\ Threshold[e] \in Nat /\ MaxGap \in Nat
  BY <1>1, <1>3, Params, TimesAssumption, AgeCapAssumption DEF Steady, TimerInv, TypeOK
<1>5. e \in tracked => age[e] > Threshold[e] + since[e]
  BY <1>3, <1>4 DEF SilentWhileTracked
<1> QED BY <1>1, <1>3, <1>5

\* Each step keeps the strengthened invariant.
LEMMA SilenceStep == TimerInv /\ SilentWhileTracked /\ [Next]_vars => SilentWhileTracked'
<1> SUFFICES ASSUME TimerInv, SilentWhileTracked, [Next]_vars
             PROVE  SilentWhileTracked'
  OBVIOUS
<1>n. AgeCap \in Nat /\ MaxGap \in Nat /\ sweepAge \in Nat
  BY AgeCapAssumption, TimesAssumption DEF TimerInv, TypeOK
<1>1. ASSUME NEW e \in Entries, Register(e) \/ Activity(e)
      PROVE  SilentWhileTracked'
  BY <1>1, <1>n DEF Register, Activity, TimerInv, TypeOK, SilentWhileTracked
<1>2. ASSUME NEW e \in Entries, SendFails(e) \/ AppChecks(e) \/ AppStores(e)
      PROVE  SilentWhileTracked'
  BY <1>2 DEF SendFails, AppChecks, AppStores, Steady, TimerInv, TypeOK, SilentWhileTracked
<1>3. ASSUME NEW landing \in SUBSET {e \in Entries : pending[e] # "none"}, Sweep(landing)
      PROVE  SilentWhileTracked'
  <2>1. ASSUME NEW e \in registered', Steady(e), state'[e] = "TIMEOUT"
        PROVE  Timed(e) /\ age'[e] > Threshold[e]
    <3>1. e \in Entries /\ e \in registered /\ e \notin landing /\ age'[e] = age[e]
      BY <1>3, <2>1, SweepEffect DEF TimerInv, TypeOK, Steady
    <3>2. state'[e] = Checked(e)
      BY <1>3, <2>1, <3>1 DEF Sweep, Found
    <3> QED BY <2>1, <3>1, <3>2 DEF Checked, SilentWhileTracked
  <2>2. ASSUME NEW e \in tracked', Steady(e)
        PROVE  Timed(e) /\ DiscTimeout[e] > 0 /\ age'[e] > Threshold[e] + since'[e]
    <3>1. e \in registered'
      BY <1>3, <2>2, SweepEffect DEF TimerInv, TrackedIsRegistered
    <3>2. e \in Seen(landing) /\ age'[e] = age[e] /\ e \in Entries
          /\ (e \in tracked => since'[e] = since[e]) /\ (e \notin tracked => since'[e] = 0)
      BY <1>3, <2>2, <3>1, SweepEffect DEF TimerInv, TypeOK
    <3>3. Threshold[e] \in Nat
      BY <3>2, Params
    <3> QED BY <1>3, <2>2, <3>2, <3>3, SeenIsSilent
  <2> QED BY <2>1, <2>2 DEF SilentWhileTracked
<1>4. CASE Tick
  <2>1. ASSUME NEW e \in Entries, e \in registered
        PROVE  /\ age'[e] = Older(age[e]) /\ age[e] \in 0..AgeCap
               /\ Older(age[e]) \in 0..AgeCap /\ Older(age[e]) <= age[e] + 1
               /\ age[e] < AgeCap => Older(age[e]) = age[e] + 1
               /\ Older(age[e]) >= age[e]
    BY <1>4, <1>n, <2>1, OlderBounds DEF Tick, TimerInv, TypeOK, Older
  <2>2. ASSUME NEW e \in registered', Steady(e), state'[e] = "TIMEOUT"
        PROVE  Timed(e) /\ age'[e] > Threshold[e]
    <3>1. e \in registered /\ e \in Entries /\ state[e] = "TIMEOUT"
      BY <1>4, <2>2 DEF Tick, TimerInv, TypeOK
    <3>2. Timed(e) /\ age[e] > Threshold[e] /\ Threshold[e] \in Nat
      BY <2>2, <3>1, Params DEF SilentWhileTracked
    <3> QED BY <1>n, <2>1, <3>1, <3>2
  <2>3. ASSUME NEW e \in tracked', Steady(e)
        PROVE  /\ Timed(e) /\ DiscTimeout[e] > 0
               /\ age'[e] > Threshold[e] + since'[e] \/ age'[e] <= sweepAge'
    <3>1. /\ e \in tracked /\ e \in registered /\ e \in Entries
          /\ since'[e] = Older(since[e]) /\ since[e] \in 0..AgeCap
          /\ sweepAge' = sweepAge + 1 /\ sweepAge < MaxGap
      BY <1>4, <2>3 DEF Tick, TimerInv, TypeOK, TrackedIsRegistered
    <3>2. /\ Timed(e) /\ DiscTimeout[e] > 0
          /\ age[e] > Threshold[e] + since[e] \/ age[e] <= sweepAge
      BY <2>3, <3>1 DEF SilentWhileTracked
    <3>3. /\ Threshold[e] \in Nat /\ DiscTimeout[e] \in Nat
          /\ AgeCap > Threshold[e] + DiscTimeout[e] + 2 * MaxGap
      BY <3>1, Params
    <3>4. Older(since[e]) \in Nat /\ Older(since[e]) <= since[e] + 1
      BY <1>n, <3>1, OlderBounds
    <3>5. age[e] < AgeCap
      <4>1. /\ since[e] <= DiscTimeout[e] + sweepAge
            /\ age[e] <= Threshold[e] + MaxGap + since[e]
        BY <2>3, <3>1, <3>2 DEF TimerInv, NoticedInTime, Removable, Steady
      <4> QED BY <1>n, <2>1, <3>1, <3>3, <4>1
    <3>6. CASE age[e] > Threshold[e] + since[e]
      BY <1>n, <2>1, <3>1, <3>2, <3>3, <3>4, <3>5, <3>6
    <3>7. CASE age[e] <= sweepAge
      BY <1>n, <2>1, <3>1, <3>2, <3>7
    <3> QED BY <3>2, <3>6, <3>7
  <2> QED BY <2>2, <2>3 DEF SilentWhileTracked
<1>5. CASE UNCHANGED vars
  BY <1>5 DEF vars, SilentWhileTracked
<1> QED BY <1>1, <1>2, <1>3, <1>4, <1>5 DEF Next

(***************************************************************************)
(* A steady entry is removed only when it has been continuously silent for *)
(* both its timeouts.                                                      *)
(***************************************************************************)
THEOREM SteadyRemoval == Spec => SteadyRemovedAfterSilence
<1>1. Init => SilentWhileTracked
  BY DEF Init, SilentWhileTracked
<1>2. TimerInv /\ SilentWhileTracked /\ [Next]_vars
         => [\A e \in registered \ registered' : Steady(e) => age[e] > SilenceBefore(e)]_vars
  <2> SUFFICES ASSUME TimerInv, SilentWhileTracked, Next,
                      NEW e \in registered \ registered', Steady(e)
               PROVE  age[e] > SilenceBefore(e)
    OBVIOUS
  <2>1. PICK landing \in SUBSET {d \in Entries : pending[d] # "none"} : Sweep(landing)
    BY DEF Next, Register, Activity, SendFails, AppChecks, AppStores, Tick
  <2>2. e \in Seen(landing) /\ e \in tracked /\ since[e] > DiscTimeout[e]
    BY <2>1, SweepEffect DEF TimerInv
  <2>3. Timed(e) /\ age[e] > Threshold[e] + since[e]
    BY <2>2, SeenIsSilent
  <2>4. /\ e \in Entries /\ age[e] \in Nat /\ since[e] \in Nat
        /\ Threshold[e] \in Nat /\ DiscTimeout[e] \in Nat
    BY Params, AgeCapAssumption DEF TimerInv, TypeOK
  <2> QED BY <2>2, <2>3, <2>4 DEF SilenceBefore
<1> QED BY <1>1, <1>2, SilenceStep, InvHolds, PTL DEF Spec, SteadyRemovedAfterSilence
=============================================================================
