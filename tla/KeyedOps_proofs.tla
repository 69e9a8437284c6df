-------------------------- MODULE KeyedOps_proofs --------------------------
(***************************************************************************)
(* Proofs about KeyedOps, for any keys, callers, delays and options.       *)
(***************************************************************************)
EXTENDS KeyedOps, TLAPS

USE DelaysAssumption, OptionsAssumption, DrainAssumption
    DEF DelaysAssumption, OptionsAssumption, DrainAssumption

\* A change that the operation in progress may have missed is marked for the
\* next one; and once an operation has settled, what it left unsaved is marked
\* too, or has failed for good.
LeftForNext ==
    \A k \in Keys :
        /\ k \in operating /\ k \notin covers => k \in changed
        /\ promise[k] = "settled" /\ k \in stale
              => \/ k \in changed
                 \/ failures[k] > 0 /\ (stopped \/ ~Retry)

\* Nobody both left a callback and awaits the promise of the same key.
OneWayOfWaiting == \A k \in Keys : callbacks[k] \cap awaiting[k] = {}

\* A timer that nobody hurried leaves room for the minimal delay.
TimersLeaveRoom ==
    \A k \in Keys :
        timeout[k] # NoTimer /\ ~expedited /\ k \notin urgent
            => timeout[k] + sinceStart[k] >= MinDelay

WaitInv == ChangedHasTimer /\ CallersAnswered /\ OneWayOfWaiting
SaveInv == NothingLost /\ LeftForNext

-----------------------------------------------------------------------------
\* Slowing down retries never shortens a delay.
LEMMA SlowdownLengthens ==
    ASSUME NEW a \in Nat, NEW b \in Nat
    PROVE  a * (1 + b) \in Nat /\ a * (1 + b) >= a
  <1>1. a * b \in Nat
    OBVIOUS
  <1>2. a * (1 + b) = a + a * b
    OBVIOUS
  <1> QED BY <1>1, <1>2

\* What a timer can be set to.
LEMMA TicksFacts ==
    ASSUME TypeOK, NEW k \in Keys
    PROVE  /\ Ticks(k) \in Nat
           /\ ~expedited => Ticks(k) + sinceStart[k] >= MinDelay
  <1> DEFINE base == LargerOf(Delay, MinDelay - sinceStart[k])
  <1>1. sinceStart[k] \in 0..MinDelay /\ failures[k] \in Nat
    BY DEF TypeOK
  <1>2. base \in Nat /\ base >= MinDelay - sinceStart[k]
    BY <1>1 DEF LargerOf
  <1> HIDE DEF base
  <1>3. base * (1 + failures[k]) \in Nat /\ base * (1 + failures[k]) >= base
    BY <1>1, <1>2, SlowdownLengthens
  <1>4. Ticks(k) = IF expedited THEN 0 ELSE base * (1 + failures[k])
    BY DEF Ticks, base
  <1> QED BY <1>1, <1>2, <1>3, <1>4

\* The type invariant holds of every reachable state.
THEOREM TypeCorrect == Spec => []TypeOK
  <1>1. Init => TypeOK
    <2> SUFFICES ASSUME Init PROVE TypeOK
      OBVIOUS
    <2>1. timeout \in [Keys -> Nat \cup {NoTimer}]
      BY DEF Init
    <2>2. sinceStart \in [Keys -> 0..MinDelay] /\ failures \in [Keys -> 0..SlowdownCap]
      BY DEF Init
    <2> QED BY <2>1, <2>2 DEF Init, TypeOK
  <1>2. TypeOK /\ [Next]_vars => TypeOK'
    <2> SUFFICES ASSUME TypeOK, [Next]_vars PROVE TypeOK'
      OBVIOUS
    <2> USE DEF NoTimer, Callers, callerVars, ghostVars
    <2>1. ASSUME NEW k \in Keys, AddOperation(k) PROVE TypeOK'
      BY <2>1, TicksFacts DEF AddOperation, MarkChanged, Schedule, TypeOK
    <2>2. ASSUME NEW w \in Callers, NEW S \in SUBSET Keys, ExpediteAndWait(w, S),
                 UNCHANGED <<changed, operating, stopped, expedited, promise, failures,
                             sinceStart, draining, ghostVars>>
          PROVE  TypeOK'
      BY <2>2 DEF ExpediteAndWait, ScheduleNow, TypeOK
    <2>3. ASSUME NEW k \in Keys, Update(k) PROVE TypeOK'
      BY <2>3 DEF Update, TypeOK
    <2>4. ASSUME NEW k \in Keys, OperationSucceeds(k) PROVE TypeOK'
      BY <2>4 DEF OperationSucceeds, CallBack, TypeOK
    <2>5. ASSUME NEW k \in Keys, OperationFails(k) PROVE TypeOK'
      BY <2>5 DEF OperationFails, CallBack, SmallerOf, TypeOK
    <2>6. ASSUME NEW k \in Keys, CleanUp(k) PROVE TypeOK'
      BY <2>6, TicksFacts DEF CleanUp, FollowUp, TypeOK
    <2>7. ASSUME NEW S \in SUBSET Keys, ScheduleNow(S)
          PROVE  timeout' \in [Keys -> Nat \cup {NoTimer}] /\ urgent' \subseteq Keys
      BY <2>7 DEF ScheduleNow, TypeOK
    <2>8. CASE ExpediteOperations
      BY <2>7, <2>8 DEF ExpediteOperations, TypeOK
    <2>9. CASE StopOperations
      BY <2>7, <2>9 DEF StopOperations, TypeOK
    <2>10. CASE Wait \/ WaitReturns
      BY <2>10 DEF Wait, WaitReturns, TypeOK
    <2>11. CASE Tick
      BY <2>11 DEF Tick, SmallerOf, TypeOK
    <2>12. CASE UNCHANGED vars
      BY <2>12 DEF vars, TypeOK
    <2>13. ASSUME NEW k \in Keys, NEW w \in Waiters, ExpediteOperationAndWait(w, k)
           PROVE  TypeOK'
      BY <2>2, <2>13 DEF ExpediteOperationAndWait
    <2>14. CASE WaitTurn
      BY <2>2, <2>14 DEF WaitTurn, TypeOK
    <2> QED
      BY <2>1, <2>3, <2>4, <2>5, <2>6, <2>8, <2>9, <2>10, <2>11,
         <2>12, <2>13, <2>14 DEF Next
  <1> QED BY <1>1, <1>2, PTL DEF Spec

-----------------------------------------------------------------------------
\* Who is waiting, and for what, across every step.
LEMMA WaitStep ==
    ASSUME TypeOK, WaitInv, [Next]_vars
    PROVE  WaitInv'
  <1> USE DEF NoTimer, Callers, callerVars, ghostVars, WaitInv, ChangedHasTimer,
              CallersAnswered, OneWayOfWaiting, TypeOK
  <1>1. ASSUME NEW k \in Keys, AddOperation(k) PROVE WaitInv'
    BY <1>1, TicksFacts DEF AddOperation, MarkChanged, Schedule, Rearms
  <1>2. ASSUME NEW w \in Callers, NEW S \in SUBSET Keys,
               \A k \in Keys : w \notin waiting[k], ExpediteAndWait(w, S),
               UNCHANGED <<changed, operating, promise>>
        PROVE  WaitInv'
    BY <1>2 DEF ExpediteAndWait, ScheduleNow
  <1>3. ASSUME NEW k \in Keys, Update(k) PROVE WaitInv'
    BY <1>3 DEF Update
  <1>4. ASSUME NEW k \in Keys, OperationSucceeds(k) PROVE WaitInv'
    BY <1>4 DEF OperationSucceeds, CallBack
  <1>5. ASSUME NEW k \in Keys, OperationFails(k) PROVE WaitInv'
    BY <1>5 DEF OperationFails, CallBack
  <1>6. ASSUME NEW k \in Keys, CleanUp(k) PROVE WaitInv'
    BY <1>6, TicksFacts DEF CleanUp, FollowUp
  <1>7. CASE ExpediteOperations
    BY <1>7 DEF ExpediteOperations, ScheduleNow
  <1>8. CASE StopOperations
    BY <1>8 DEF StopOperations, ScheduleNow
  <1>9. CASE Wait \/ WaitReturns
    BY <1>9 DEF Wait, WaitReturns
  <1>10. CASE Tick
    BY <1>10 DEF Tick
  <1>11. CASE UNCHANGED vars
    BY <1>11 DEF vars
  <1>12. ASSUME NEW k \in Keys, NEW w \in Waiters, ExpediteOperationAndWait(w, k)
         PROVE  WaitInv'
    BY <1>2, <1>12 DEF ExpediteOperationAndWait
  <1>13. CASE WaitTurn
    BY <1>2, <1>13 DEF WaitTurn
  <1> QED
    BY <1>1, <1>3, <1>4, <1>5, <1>6, <1>7, <1>8, <1>9, <1>10, <1>11, <1>12, <1>13 DEF Next

\* What is unsaved, and what will save it, across every step.
LEMMA SaveStep ==
    ASSUME TypeOK, ChangedHasTimer, SaveInv, [Next]_vars
    PROVE  SaveInv'
  <1> USE DEF callerVars, ghostVars, ChangedHasTimer, SaveInv, NothingLost, LeftForNext,
              HasPendingOperation, TypeOK
  <1>1. ASSUME NEW k \in Keys, AddOperation(k) PROVE SaveInv'
    BY <1>1 DEF AddOperation, MarkChanged
  <1>2. ASSUME NEW k \in Keys, Update(k) PROVE SaveInv'
    BY <1>2 DEF Update
  <1>3. ASSUME NEW k \in Keys, OperationSucceeds(k) PROVE SaveInv'
    BY <1>3 DEF OperationSucceeds
  <1>4. ASSUME NEW k \in Keys, OperationFails(k) PROVE SaveInv'
    BY <1>4 DEF OperationFails, SmallerOf
  <1>5. ASSUME NEW k \in Keys, CleanUp(k) PROVE SaveInv'
    BY <1>5 DEF CleanUp
  <1>6. CASE ExpediteOperations \/ StopOperations
    BY <1>6 DEF ExpediteOperations, StopOperations
  <1>7. CASE Wait \/ WaitTurn \/ WaitReturns
    BY <1>7 DEF Wait, WaitTurn, WaitReturns
  <1>8. CASE Tick
    BY <1>8 DEF Tick
  <1>9. CASE UNCHANGED vars
    BY <1>9 DEF vars
  <1>10. ASSUME NEW k \in Keys, NEW w \in Waiters, ExpediteOperationAndWait(w, k)
         PROVE  SaveInv'
    BY <1>10 DEF ExpediteOperationAndWait
  <1> QED
    BY <1>1, <1>2, <1>3, <1>4, <1>5, <1>6, <1>7, <1>8, <1>9, <1>10 DEF Next

\* Room for the minimal delay, across every step.
LEMMA RoomStep ==
    ASSUME TypeOK, ChangedHasTimer, TimersLeaveRoom, [Next]_vars
    PROVE  TimersLeaveRoom'
  <1> USE DEF NoTimer, callerVars, ghostVars, TimersLeaveRoom, ChangedHasTimer, TypeOK
  <1>1. ASSUME NEW k \in Keys, AddOperation(k) PROVE TimersLeaveRoom'
    BY <1>1, TicksFacts DEF AddOperation, Schedule
  <1>2. ASSUME NEW k \in Keys, Update(k) PROVE TimersLeaveRoom'
    BY <1>2 DEF Update
  <1>3. ASSUME NEW k \in Keys, Settle(k) PROVE TimersLeaveRoom'
    BY <1>3 DEF Settle, OperationSucceeds, OperationFails
  <1>4. ASSUME NEW k \in Keys, CleanUp(k) PROVE TimersLeaveRoom'
    BY <1>4, TicksFacts DEF CleanUp, FollowUp
  <1>5. CASE ExpediteOperations \/ StopOperations
    BY <1>5 DEF ExpediteOperations, StopOperations
  <1>6. CASE Wait \/ WaitReturns
    BY <1>6 DEF Wait, WaitReturns
  <1>7. CASE Tick
    BY <1>7 DEF Tick, SmallerOf
  <1>8. CASE UNCHANGED vars
    BY <1>8 DEF vars
  <1>9. ASSUME NEW k \in Keys, NEW w \in Waiters, ExpediteOperationAndWait(w, k)
        PROVE  TimersLeaveRoom'
    BY <1>9 DEF ExpediteOperationAndWait, ExpediteAndWait, ScheduleNow
  <1>10. CASE WaitTurn
    BY <1>10 DEF WaitTurn, ExpediteAndWait, ScheduleNow
  <1> QED
    BY <1>1, <1>2, <1>3, <1>4, <1>5, <1>6, <1>7, <1>8, <1>9, <1>10 DEF Next, Settle

IInv == TypeOK /\ WaitInv /\ SaveInv /\ TimersLeaveRoom

\* The inductive invariant of the scheduler.
THEOREM Inductive == Spec => []IInv
  <1>1. Init => WaitInv /\ SaveInv /\ TimersLeaveRoom
    BY DEF Init, WaitInv, ChangedHasTimer, CallersAnswered, OneWayOfWaiting, SaveInv,
           NothingLost, LeftForNext, TimersLeaveRoom, NoTimer
  <1>2. TypeOK /\ WaitInv /\ SaveInv /\ TimersLeaveRoom /\ [Next]_vars
           => (WaitInv /\ SaveInv /\ TimersLeaveRoom)'
    <2> SUFFICES ASSUME TypeOK, WaitInv, SaveInv, TimersLeaveRoom, [Next]_vars
                 PROVE  (WaitInv /\ SaveInv /\ TimersLeaveRoom)'
      OBVIOUS
    <2>1. ChangedHasTimer
      BY DEF WaitInv
    <2> QED BY <2>1, WaitStep, SaveStep, RoomStep
  <1> QED BY <1>1, <1>2, TypeCorrect, PTL DEF Spec, IInv

\* No change is ever lost: while a key is unsaved, either work on it is
\* pending or its last attempt failed and is not to be retried.
THEOREM SavedOrPending == Spec => []NothingLost
  BY Inductive, PTL DEF IInv, SaveInv

\* A changed key has a timer or an operation in progress, and nothing else has.
THEOREM ChangesAreScheduled == Spec => []ChangedHasTimer
  BY Inductive, PTL DEF IInv, WaitInv

\* Whoever waits is known to a status with work ahead or to a promise in place.
THEOREM NoCallerForgotten == Spec => []CallersAnswered
  BY Inductive, PTL DEF IInv, WaitInv

\* Operations that nobody hurried start MinDelay ticks apart.
THEOREM OperationsAreSpaced == Spec => MinDelayKept
  <1> DEFINE Spaced ==
        \A k \in Keys :
            k \in operating' \ operating /\ ~expedited /\ k \notin urgent
               => sinceStart[k] = MinDelay
  <1>1. IInv /\ [Next]_vars => [Spaced]_vars
    <2> SUFFICES ASSUME IInv, Next, NEW k \in Keys, k \in operating' \ operating,
                        ~expedited, k \notin urgent
                 PROVE  sinceStart[k] = MinDelay
      OBVIOUS
    <2>1. \A j \in Keys :
             AddOperation(j) \/ OperationSucceeds(j) \/ OperationFails(j) \/ CleanUp(j)
                => operating' \subseteq operating
      BY DEF AddOperation, OperationSucceeds, OperationFails, CleanUp
    <2>2. ExpediteOperations \/ StopOperations \/ Wait \/ WaitTurn \/ WaitReturns \/ Tick
             => operating' = operating
      BY DEF ExpediteOperations, StopOperations, Wait, WaitTurn, WaitReturns, Tick
    <2>3. \A j \in Keys, w \in Waiters : ExpediteOperationAndWait(w, j)
             => operating' = operating
      BY DEF ExpediteOperationAndWait
    <2>4. PICK j \in Keys : Update(j)
      BY <2>1, <2>2, <2>3 DEF Next
    <2>5. k = j
      BY <2>4 DEF Update
    <2>6. timeout[k] = 0 /\ timeout[k] # NoTimer
      BY <2>4, <2>5 DEF Update, NoTimer
    <2> QED BY <2>6 DEF IInv, TimersLeaveRoom, TypeOK
  <1> HIDE DEF Spaced
  <1>2. Spec => [][Spaced]_vars
    BY <1>1, Inductive, PTL DEF Spec
  <1> QED BY <1>2 DEF MinDelayKept, Spaced

\* Under scheduleFromFirstAdd nothing puts off an operation that is scheduled:
\* later changes leave its timer alone, and whoever is in a hurry shortens it.
THEOREM KeepsFirstSchedule == Spec => NeverPutOff
  <1> DEFINE Kept ==
        FromFirstAdd => \A k \in Keys :
           timeout[k] # NoTimer /\ timeout'[k] # NoTimer => timeout'[k] <= timeout[k]
  <1>1. IInv /\ [Next]_vars => [Kept]_vars
    <2> SUFFICES ASSUME IInv, Next, FromFirstAdd, NEW k \in Keys, timeout[k] # NoTimer,
                        timeout'[k] # NoTimer
                 PROVE  timeout'[k] <= timeout[k]
      OBVIOUS
    <2>1. timeout[k] \in Nat /\ promise[k] = "none" /\ timeout \in [Keys -> Nat \cup {NoTimer}]
      BY DEF IInv, WaitInv, ChangedHasTimer, TypeOK
    <2>2. ASSUME NEW j \in Keys, AddOperation(j) PROVE timeout'[k] <= timeout[k]
      BY <2>1, <2>2 DEF AddOperation, Schedule, Rearms
    <2>3. ASSUME NEW S, ScheduleNow(S) PROVE timeout'[k] <= timeout[k]
      BY <2>1, <2>3 DEF ScheduleNow
    <2>4. ASSUME NEW j \in Keys, Update(j) \/ Settle(j) PROVE timeout'[k] <= timeout[k]
      BY <2>1, <2>4 DEF Update, Settle, OperationSucceeds, OperationFails
    <2>5. ASSUME NEW j \in Keys, CleanUp(j) PROVE timeout'[k] <= timeout[k]
      <3>1. j # k
        BY <2>1, <2>5 DEF CleanUp
      <3> QED BY <2>1, <2>5, <3>1 DEF CleanUp, FollowUp
    <2>6. CASE ExpediteOperations \/ StopOperations \/ WaitTurn
      BY <2>3, <2>6 DEF ExpediteOperations, StopOperations, WaitTurn, ExpediteAndWait
    <2>7. ASSUME NEW j \in Keys, NEW w \in Waiters, ExpediteOperationAndWait(w, j)
          PROVE  timeout'[k] <= timeout[k]
      BY <2>3, <2>7 DEF ExpediteOperationAndWait, ExpediteAndWait
    <2>8. CASE Wait \/ WaitReturns
      BY <2>1, <2>8 DEF Wait, WaitReturns
    <2>9. CASE Tick
      BY <2>1, <2>9 DEF Tick, NoTimer
    <2> QED BY <2>2, <2>4, <2>5, <2>6, <2>7, <2>8, <2>9 DEF Next, Settle
  <1> HIDE DEF Kept
  <1>2. Spec => [][Kept]_vars
    BY <1>1, Inductive, PTL DEF Spec
  <1> QED BY <1>2 DEF NeverPutOff, Kept
=============================================================================
