------------------------------ MODULE KeyedOps ------------------------------
(***************************************************************************)
(* The per-key scheduler of app/common/KeyedOps.ts, which decides when a   *)
(* document is pushed to external storage and when its snapshots are       *)
(* pruned.  A key that has changed gets a timer; when the timer fires the  *)
(* operation runs; when it settles, callbacks are resolved at once, and a  *)
(* later microtask (CleanUp) drops the promise and reschedules the key if  *)
(* it changed meanwhile.  Other code runs between any two of these steps.  *)
(*                                                                         *)
(* Time is counted in ticks: a timer is the number of ticks it has left.   *)
(* Ghost variables, read by properties only: stale, covers, owed, urgent.  *)
(***************************************************************************)
EXTENDS Integers, FiniteSets

CONSTANTS
    Keys,         \* the resources: document names
    Waiters,      \* callers of expediteOperationAndWait
    Drain,        \* the caller of wait(), which awaits many keys at once
    Delay,        \* options.delayBeforeOperationMs, in ticks
    MinDelay,     \* options.minDelayBetweenOperationsMs, in ticks
    Retry,        \* options.retry
    FromFirstAdd, \* options.scheduleFromFirstAdd
    SlowdownCap   \* the 5 of "1 + Math.min(5, status.failures)"

ASSUME DelaysAssumption == Delay \in Nat /\ MinDelay \in Nat /\ SlowdownCap \in Nat \ {0}
ASSUME OptionsAssumption == Retry \in BOOLEAN /\ FromFirstAdd \in BOOLEAN
ASSUME DrainAssumption == Drain \notin Waiters

NoTimer == -1
Callers == Waiters \cup {Drain}

VARIABLES
    changed,    \* _changed: the keys that need an operation
    operating,  \* _operating: the keys with an operation in progress
    stopped,    \* _stopped
    expedited,  \* expediteOperations has zeroed both delays
    timeout,    \* status.timeout: ticks left, or NoTimer
    promise,    \* status.promise: "none", "running", "refused" (stopped), "settled"
    failures,   \* status.failures, counted up to SlowdownCap
    callbacks,  \* status.callbacks: the callers to be called back
    awaiting,   \* the callers that await status.promise itself
    waiting,    \* the callers that have not returned from their call for the key
    sinceStart, \* now - history.lastStart, counted up to MinDelay
    draining,   \* wait() is in its loop
    stale,      \* ghost: keys with a change that no successful operation covers
    covers,     \* ghost: keys whose running operation started after every change
    owed,       \* ghost: callers whose key has not been operated on since they called
    urgent      \* ghost: keys whose timer was set with "immediate"

callerVars == <<callbacks, awaiting, waiting, owed>>
ghostVars == <<stale, covers>>
vars == <<changed, operating, stopped, expedited, timeout, promise, failures,
          callbacks, awaiting, waiting, sinceStart, draining, stale, covers, owed, urgent>>

\* Math.min, and the variant that takes Math.max instead.
SmallerOfSwapped(a, b) == IF a < b THEN b ELSE a
SmallerOf(a, b) == IF a < b THEN a ELSE b
LargerOf(a, b) == IF a > b THEN a ELSE b

TypeOK ==
    /\ changed \subseteq Keys
    /\ operating \subseteq Keys
    /\ stopped \in BOOLEAN
    /\ expedited \in BOOLEAN
    /\ timeout \in [Keys -> Nat \cup {NoTimer}]
    /\ promise \in [Keys -> {"none", "running", "refused", "settled"}]
    /\ failures \in [Keys -> 0..SlowdownCap]
    /\ callbacks \in [Keys -> SUBSET Callers]
    /\ awaiting \in [Keys -> SUBSET Callers]
    /\ waiting \in [Keys -> SUBSET Callers]
    /\ sinceStart \in [Keys -> 0..MinDelay]
    /\ draining \in BOOLEAN
    /\ stale \subseteq Keys
    /\ covers \subseteq Keys
    /\ owed \in [Keys -> SUBSET Callers]
    /\ urgent \subseteq Keys

Init ==
    /\ changed = {}
    /\ operating = {}
    /\ stopped = FALSE
    /\ expedited = FALSE
    /\ timeout = [k \in Keys |-> NoTimer]
    /\ promise = [k \in Keys |-> "none"]
    /\ failures = [k \in Keys |-> 0]
    /\ callbacks = [k \in Keys |-> {}]
    /\ awaiting = [k \in Keys |-> {}]
    /\ waiting = [k \in Keys |-> {}]
    /\ sinceStart = [k \in Keys |-> MinDelay]  \* no lastStart: no extra delay
    /\ draining = FALSE
    /\ stale = {}
    /\ covers = {}
    /\ owed = [k \in Keys |-> {}]
    /\ urgent = {}

HasPendingOperation(k) == k \in changed \/ k \in operating
HasPendingOperations == changed # {} \/ operating # {}

-----------------------------------------------------------------------------
\* _schedule

\* The delay before the operation on k, with the slow-down of retries; a
\* variant that forgets the minimal delay between operations.
TicksWithoutMinDelay(k) == IF expedited THEN 0 ELSE Delay * (1 + failures[k])
Ticks(k) ==
    IF expedited THEN 0
    ELSE LargerOf(Delay, MinDelay - sinceStart[k]) * (1 + failures[k])

\* A timer that has not fired yet is kept only under scheduleFromFirstAdd; a
\* variant that always restarts it.
RearmsAlways(k) == promise[k] = "none"
Rearms(k) == promise[k] = "none" /\ (timeout[k] = NoTimer \/ ~FromFirstAdd)

\* _schedule(k), with no hurry.
Schedule(k) ==
    /\ timeout' = IF Rearms(k) THEN [timeout EXCEPT ![k] = Ticks(k)] ELSE timeout
    /\ urgent' = IF Rearms(k) THEN urgent \ {k} ELSE urgent

\* _schedule(k, true) for every k of a set whose promise is absent.
ScheduleNow(S) ==
    /\ timeout' = [k \in Keys |-> IF k \in S THEN 0 ELSE timeout[k]]
    /\ urgent' = urgent \cup S

-----------------------------------------------------------------------------
\* The calls

\* _changed.add; a variant that leaves a change made during an operation to
\* that operation.
MarkChangedUnlessOperating(k) ==
    changed' = IF k \in operating THEN changed ELSE changed \cup {k}
MarkChanged(k) == changed' = changed \cup {k}

\* addOperation(k).  The caller has just changed the resource.
AddOperation(k) ==
    /\ MarkChanged(k)
    /\ stale' = stale \cup {k}
    /\ covers' = covers \ {k}
    /\ Schedule(k)
    /\ UNCHANGED <<operating, stopped, expedited, promise, failures, callerVars,
                   sinceStart, draining>>

\* expediteOperationAndWait for every key of S: a caller that finds a promise
\* awaits it, one that finds a change leaves a callback and hurries the timer,
\* and any other returns at once.
ExpediteAndWait(w, S) ==
    LET joins == {k \in S : promise[k] # "none"}
        hurries == {k \in S : promise[k] = "none" /\ k \in changed}
        Plus(f, T) == [k \in Keys |-> IF k \in T THEN f[k] \cup {w} ELSE f[k]]
    IN  /\ awaiting' = Plus(awaiting, joins)
        /\ callbacks' = Plus(callbacks, hurries)
        /\ waiting' = Plus(waiting, joins \cup hurries)
        /\ owed' = Plus(owed, S \cap changed)
        /\ ScheduleNow(hurries)

ExpediteOperationAndWait(w, k) ==
    /\ \A j \in Keys : w \notin waiting[j]
    /\ ExpediteAndWait(w, {k})
    /\ UNCHANGED <<changed, operating, stopped, expedited, promise, failures,
                   sinceStart, draining, ghostVars>>

\* expediteOperations()
ExpediteOperations ==
    /\ expedited' = TRUE
    /\ ScheduleNow({k \in Keys : timeout[k] # NoTimer /\ promise[k] = "none"})
    /\ UNCHANGED <<changed, operating, stopped, promise, failures, callerVars,
                   sinceStart, draining, ghostVars>>

\* stopOperations()
StopOperations ==
    /\ stopped' = TRUE
    /\ expedited' = TRUE
    /\ ScheduleNow({k \in Keys : timeout[k] # NoTimer /\ promise[k] = "none"})
    /\ UNCHANGED <<changed, operating, promise, failures, callerVars,
                   sinceStart, draining, ghostVars>>

\* wait() is called.
Wait ==
    /\ ~draining
    /\ draining' = TRUE
    /\ UNCHANGED <<changed, operating, stopped, expedited, timeout, promise, failures,
                   callerVars, sinceStart, ghostVars, urgent>>

\* A turn of the loop of wait(), begun when the turn before has been awaited.
WaitTurn ==
    /\ draining
    /\ HasPendingOperations
    /\ \A k \in Keys : Drain \notin waiting[k]
    /\ ExpediteAndWait(Drain, operating \cup changed)
    /\ UNCHANGED <<changed, operating, stopped, expedited, promise, failures,
                   sinceStart, draining, ghostVars>>

WaitReturns ==
    /\ draining
    /\ ~HasPendingOperations
    /\ \A k \in Keys : Drain \notin waiting[k]
    /\ draining' = FALSE
    /\ UNCHANGED <<changed, operating, stopped, expedited, timeout, promise, failures,
                   callerVars, sinceStart, ghostVars, urgent>>

-----------------------------------------------------------------------------
\* _update, and the handlers of the promise it creates

\* The timer of k fires and there is work to do; a stopped scheduler refuses it.
Update(k) ==
    /\ timeout[k] = 0
    /\ k \in changed
    /\ promise[k] = "none"
    /\ timeout' = [timeout EXCEPT ![k] = NoTimer]
    /\ changed' = changed \ {k}
    /\ operating' = operating \cup {k}
    /\ sinceStart' = [sinceStart EXCEPT ![k] = 0]
    /\ promise' = [promise EXCEPT ![k] = IF stopped THEN "refused" ELSE "running"]
    /\ covers' = covers \cup {k}
    /\ owed' = [owed EXCEPT ![k] = {}]
    /\ urgent' = urgent \ {k}
    /\ UNCHANGED <<stopped, expedited, failures, callbacks, awaiting, waiting,
                   draining, stale>>

\* The callbacks of k are called and dropped; a variant that drops them first.
DropCallbacks(k) == callbacks' = [callbacks EXCEPT ![k] = {}] /\ UNCHANGED waiting
CallBack(k) ==
    /\ waiting' = [waiting EXCEPT ![k] = @ \ callbacks[k]]
    /\ callbacks' = [callbacks EXCEPT ![k] = {}]

\* The first .then(): the operation succeeded.
OperationSucceeds(k) ==
    /\ promise[k] = "running"
    /\ promise' = [promise EXCEPT ![k] = "settled"]
    /\ failures' = [failures EXCEPT ![k] = 0]
    /\ CallBack(k)
    /\ stale' = IF k \in covers THEN stale \ {k} ELSE stale
    /\ UNCHANGED <<changed, operating, stopped, expedited, timeout, awaiting,
                   sinceStart, draining, covers, owed, urgent>>

\* The .catch(): the operation failed or was refused.
OperationFails(k) ==
    /\ promise[k] \in {"running", "refused"}
    /\ promise' = [promise EXCEPT ![k] = "settled"]
    /\ failures' = [failures EXCEPT ![k] = SmallerOf(SlowdownCap, @ + 1)]
    /\ changed' = IF Retry /\ ~stopped THEN changed \cup {k} ELSE changed
    /\ CallBack(k)
    /\ UNCHANGED <<operating, stopped, expedited, timeout, awaiting, sinceStart,
                   draining, stale, covers, owed, urgent>>

\* A key that changed during its operation is scheduled again; a variant that
\* only does so after a success.
FollowUpOnSuccess(k) ==
    LET again == k \in changed /\ failures[k] = 0
    IN  /\ timeout' = IF again THEN [timeout EXCEPT ![k] = Ticks(k)] ELSE timeout
        /\ urgent' = IF again THEN urgent \ {k} ELSE urgent
FollowUp(k) ==
    LET again == k \in changed
    IN  /\ timeout' = IF again THEN [timeout EXCEPT ![k] = Ticks(k)] ELSE timeout
        /\ urgent' = IF again THEN urgent \ {k} ELSE urgent

\* The second .then(): the promise goes away and resolves the callers that
\* await it; the key is rescheduled if it has changed, and its status entry,
\* with any callbacks in it, is deleted if it holds no information.
CleanUp(k) ==
    /\ promise[k] = "settled"
    /\ operating' = operating \ {k}
    /\ promise' = [promise EXCEPT ![k] = "none"]
    /\ waiting' = [waiting EXCEPT ![k] = @ \ awaiting[k]]
    /\ awaiting' = [awaiting EXCEPT ![k] = {}]
    /\ FollowUp(k)
    /\ callbacks' = IF k \notin changed /\ failures[k] = 0 /\ timeout[k] = NoTimer
                    THEN [callbacks EXCEPT ![k] = {}] ELSE callbacks
    /\ UNCHANGED <<changed, stopped, expedited, failures, sinceStart, draining,
                   owed, ghostVars>>

\* A tick of the clock.  A timer never fires early; a timer that is due fires
\* before the clock moves on, so that delays can be measured.
Tick ==
    /\ \A k \in Keys : timeout[k] # 0
    /\ \E k \in Keys : timeout[k] # NoTimer \/ sinceStart[k] < MinDelay
    /\ timeout' = [k \in Keys |-> IF timeout[k] > 0 THEN timeout[k] - 1 ELSE timeout[k]]
    /\ sinceStart' = [k \in Keys |-> SmallerOf(MinDelay, sinceStart[k] + 1)]
    /\ UNCHANGED <<changed, operating, stopped, expedited, promise, failures,
                   callerVars, draining, ghostVars, urgent>>

Settle(k) == OperationSucceeds(k) \/ OperationFails(k)

Next ==
    \/ \E k \in Keys :
          \/ AddOperation(k)
          \/ \E w \in Waiters : ExpediteOperationAndWait(w, k)
          \/ Update(k)
          \/ OperationSucceeds(k)
          \/ OperationFails(k)
          \/ CleanUp(k)
    \/ ExpediteOperations
    \/ StopOperations
    \/ Wait
    \/ WaitTurn
    \/ WaitReturns
    \/ Tick

Spec == Init /\ [][Next]_vars

\* Due timers fire, the handlers of a settled promise run, the loop of wait()
\* goes round: the event loop sees to that.  Time passes whatever the callers
\* do (SF: no caller acts infinitely often within a tick).  That operations
\* settle, and that one retried again and again succeeds in the end, is what
\* the callers assume of external storage.
Fairness ==
    /\ \A k \in Keys : WF_vars(Update(k)) /\ WF_vars(CleanUp(k))
    /\ \A k \in Keys : WF_vars(Settle(k)) /\ SF_vars(OperationSucceeds(k))
    /\ SF_vars(Tick) /\ WF_vars(WaitTurn) /\ WF_vars(WaitReturns)

FairSpec == Spec /\ Fairness

-----------------------------------------------------------------------------
\* Properties

\* A change that no successful operation covers is still scheduled or in
\* progress, or its last attempt failed and will not be retried.  So a flush
\* that sees hasPendingOperation(k) = false (HostedStorageManager.isAllSaved)
\* may trust it.
NothingLost ==
    \A k \in stale : \/ HasPendingOperation(k)
                     \/ failures[k] > 0 /\ (stopped \/ ~Retry)

\* A changed key has a timer exactly when no operation is in progress on it:
\* a change never sits without a timer, whatever failed or finished meanwhile,
\* and no timer fires for nothing (the early returns of _update are not taken).
ChangedHasTimer ==
    \A k \in Keys :
        /\ k \in operating <=> promise[k] # "none"
        /\ timeout[k] # NoTimer <=> k \in changed /\ promise[k] = "none"

\* Everyone who waits for a key will be answered: by a callback that is still
\* held by a status with work ahead of it, or by a promise still in place.
CallersAnswered ==
    \A k \in Keys :
        /\ waiting[k] = callbacks[k] \cup awaiting[k]
        /\ awaiting[k] # {} => promise[k] # "none"
        /\ callbacks[k] # {} => timeout[k] # NoTimer \/ promise[k] \in {"running", "refused"}

\* Unless someone hurried it, an operation starts no sooner than MinDelay
\* after the start of the one before (minDelayBetweenOperationsMs).
MinDelayKept ==
    [][\A k \in Keys :
         k \in operating' \ operating /\ ~expedited /\ k \notin urgent
            => sinceStart[k] = MinDelay]_vars

\* Under scheduleFromFirstAdd a scheduled operation is never put off: neither
\* by later changes nor by callers in a hurry.
NeverPutOff ==
    [][FromFirstAdd => \A k \in Keys :
         timeout[k] # NoTimer /\ timeout'[k] # NoTimer => timeout'[k] <= timeout[k]]_vars

\* "Re-schedules any pending operation on a resource for right now.  Returns
\* when operations on the resource are complete": who returns has seen an
\* operation start after the changes that preceded the call.
ReturnsWhenComplete ==
    [][\A k \in Keys : \A w \in waiting[k] \ waiting'[k] : w \notin owed[k]]_vars

\* Under scheduleFromFirstAdd every change is taken up by an operation,
\* however many more changes come.
ChangeTakenUp == \A k \in Keys : k \in changed ~> k \notin changed

\* No caller of expediteOperationAndWait waits for ever.
CallersReturn ==
    \A k \in Keys : \A w \in Waiters : w \in waiting[k] ~> w \notin waiting[k]

\* Once changes cease, wait() returns (closeStorage: "Make sure any pending
\* changes reach S3 first"), through failures and retries, and through
\* stopOperations in the middle of it.
ChangesCease == <>[][\A k \in Keys : ~AddOperation(k)]_vars
WaitEnds == ChangesCease => (draining ~> ~draining)

\* Once changes cease, every key is saved for good, unless operations were stopped.
EventuallySaved == ChangesCease => <>[](stopped \/ stale = {})
=============================================================================
