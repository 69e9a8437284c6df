---------------------------- MODULE WebhookQueue ----------------------------
(***************************************************************************)
(* The queue of webhook events of one document,                            *)
(* app/server/lib/WebhookQueue.ts: events are kept in memory, copied to a  *)
(* list in Redis, and sent in batches by a loop.  Each batch is taken off  *)
(* the memory at once and off Redis later, by a MULTI prepared before      *)
(* several awaits.  The process may crash, and the next one starts from    *)
(* the copy.  Redis executes the commands of a client in order, so a       *)
(* command takes effect when it is sent.  An lrange that fails is an       *)
(* unhandled rejection, on which the process exits (FlexServer.ts): a      *)
(* crash.                                                                  *)
(*                                                                         *)
(* Ghost variables: delivered, discarded, postponed.                       *)
(***************************************************************************)
EXTENDS Integers, Sequences, FiniteSets, SequencesExt

CONSTANTS
    Hooks,        \* ids of webhooks
    MaxEvents,    \* events made
    MaxPerCall,   \* events in one call of enqueue
    BatchSize,    \* the 100 of _sendLoop
    MaxQueueSize, \* MAX_QUEUE_SIZE
    MaxTroubles,  \* crashes, restarts, and commands of Redis that fail
    MaxClears,    \* calls that clear the queue
    Races         \* windows that the code leaves open and a run keeps closed or not

ASSUME BoundsAssumption ==
    /\ MaxEvents \in Nat /\ MaxPerCall \in Nat /\ BatchSize \in Nat \ {0}
    /\ MaxQueueSize \in Nat \ {0} /\ MaxTroubles \in Nat /\ MaxClears \in Nat

\* "load": an event is enqueued before the copy has been loaded;
\* "readd": an event is enqueued while a failed batch waits to be written back;
\* "unwritten": a failed batch is not written back, since Redis fails;
\* "clear": the queue is cleared between the two writes of another operation.
ASSUME RacesAssumption == Races \subseteq {"load", "readd", "unwritten", "clear"}

VARIABLES
    memory,     \* _webHookEventQueue
    redis,      \* the list at _redisQueueKey
    loading,    \* _getRedisQueuePromise: "reading", "read", "done"
    loaded,     \* what lrange returned
    stopping,   \* _shuttingDown
    accepted,   \* number of events enqueued so far
    caller,     \* enqueue: "idle", "pushing" (rpush sent), "waiting" (queue full)
    inHand,     \* the events between the rpush and the push
    loop,       \* _sendLoop: "off", "top", "sending", "answered", "recording", "ended"
    batch, aborted, success,   \* its local variables
    writeBack,  \* the events that its MULTI appends after the trim
    troubles, clears,  \* for the bounds
    delivered, discarded, postponed

queueVars == <<memory, redis>>
startVars == <<loading, loaded, stopping>>
callVars == <<accepted, caller, inHand>>
loopVars == <<loop, batch, aborted, success, writeBack>>
boundVars == <<troubles, clears>>
ghostVars == <<delivered, discarded, postponed>>
vars == <<queueVars, startVars, callVars, loopVars, boundVars, ghostVars>>

Events == [n : 1..MaxEvents, hook : Hooks]

\* A new process: nothing in memory, the copy is being loaded.
Starts ==
    /\ memory' = <<>> /\ loading' = "reading" /\ loaded' = <<>> /\ stopping' = FALSE
    /\ caller' = "idle" /\ inHand' = <<>>
    /\ loop' = "off" /\ batch' = <<>> /\ aborted' = FALSE /\ success' = FALSE
    /\ writeBack' = <<>>

Init ==
    /\ memory = <<>> /\ redis = <<>>
    /\ loading = "reading" /\ loaded = <<>> /\ stopping = FALSE
    /\ accepted = 0 /\ caller = "idle" /\ inHand = <<>>
    /\ loop = "off" /\ batch = <<>> /\ aborted = FALSE /\ success = FALSE /\ writeBack = <<>>
    /\ troubles = 0 /\ clears = 0
    /\ delivered = {} /\ discarded = {} /\ postponed = {}

\* _drainingQueue, for a queue of this length; a variant with the comparison
\* the wrong way round.
DrainingSwapped(queue) == Len(queue) <= MaxQueueSize
Draining(queue) == Len(queue) >= MaxQueueSize

\* _startSendLoop, when one is wanted.
LoopStarts(wanted) == loop' = IF wanted /\ loop = "off" THEN "top" ELSE loop

-----------------------------------------------------------------------------
\* _getRedisQueue

LoadReads ==
    /\ loading = "reading"
    /\ loading' = "read"
    /\ loaded' = redis
    /\ UNCHANGED <<queueVars, stopping, callVars, loopVars, boundVars, ghostVars>>

\* What was in the copy goes before what is in memory; a variant puts it there
\* as one element.
PrependedWhole(events) == <<events>> \o memory
Prepended(events) == events \o memory
LoadEnds ==
    /\ loading = "read"
    /\ loading' = "done"
    /\ loaded' = <<>>
    /\ memory' = Prepended(loaded)
    /\ LoopStarts(loaded # <<>>)
    /\ UNCHANGED <<redis, stopping, callVars, batch, aborted, success, writeBack, boundVars,
                   ghostVars>>

-----------------------------------------------------------------------------
\* enqueue.  The document calls it for one change at a time.

Calls == UNION {[1..k -> Hooks] : k \in 1..MaxPerCall}
NewEvents(hooks) == [i \in DOMAIN hooks |-> [n |-> accepted + i, hook |-> hooks[i]]]

EnqueueBegins(hooks) ==
    /\ caller = "idle" /\ ~stopping
    /\ accepted + Len(hooks) <= MaxEvents
    /\ loading = "done" \/ "load" \in Races
    /\ loop # "recording" \/ writeBack = <<>> \/ "readd" \in Races
    /\ accepted' = accepted + Len(hooks)
    /\ redis' = redis \o NewEvents(hooks)
    /\ inHand' = NewEvents(hooks)
    /\ caller' = "pushing"
    /\ UNCHANGED <<memory, startVars, loopVars, boundVars, ghostVars>>

\* The rpush is rejected although Redis has executed it: the caller is told, and
\* does not put the events in memory.  (When Redis has not, nothing changes.)
EnqueueFails ==
    /\ caller = "pushing" /\ troubles < MaxTroubles
    /\ troubles' = troubles + 1
    /\ inHand' = <<>>
    /\ caller' = "idle"
    /\ discarded' = discarded \cup ToSet(inHand)
    /\ UNCHANGED <<queueVars, startVars, accepted, loopVars, clears, delivered, postponed>>

\* New events go to the end; a variant puts them first.
AddedFirst(events) == events \o memory
Added(events) == memory \o events

EnqueuePushes ==
    /\ caller = "pushing"
    /\ memory' = Added(inHand)
    /\ inHand' = <<>>
    /\ caller' = "waiting"
    /\ LoopStarts(TRUE)
    /\ UNCHANGED <<redis, startVars, accepted, batch, aborted, success, writeBack, boundVars,
                   ghostVars>>

\* The caller goes on once there is room, or nothing to wait for.
EnqueueReturns ==
    /\ caller = "waiting"
    /\ ~Draining(memory) \/ stopping
    /\ caller' = "idle"
    /\ UNCHANGED <<queueVars, startVars, accepted, inHand, loopVars, boundVars, ghostVars>>

-----------------------------------------------------------------------------
\* _sendLoop

\* The events of the first one's webhook at the head of the queue.
BatchOf(queue) ==
    LET longest == IF Len(queue) < BatchSize THEN Len(queue) ELSE BatchSize
        same == {k \in 1..longest : \A i \in 1..k : queue[i].hook = queue[1].hook}
    IN  SubSeq(queue, 1, Cardinality(same))

loopFrame == <<startVars, callVars, boundVars>>

LoopTakes ==
    /\ loop = "top" /\ ~stopping /\ memory # <<>>
    /\ loop' = "sending"
    /\ batch' = BatchOf(memory)
    /\ aborted' = FALSE
    /\ UNCHANGED <<queueVars, loopFrame, success, writeBack, ghostVars>>

\* _sendWebhookWithRetries.  Events without an address count as delivered.
Sends ==
    /\ loop = "sending" /\ ~aborted
    /\ loop' = "answered"
    /\ success' = TRUE
    /\ delivered' = delivered \cup ToSet(batch)
    /\ UNCHANGED <<queueVars, loopFrame, batch, aborted, writeBack, discarded, postponed>>

GivesUp ==
    /\ loop = "sending" /\ ~aborted
    /\ loop' = "answered"
    /\ success' = FALSE
    /\ UNCHANGED <<queueVars, loopFrame, batch, aborted, writeBack, ghostVars>>

\* The next turn of the loop, with its local variables unset.
NextTurn == loop' = "top" /\ batch' = <<>> /\ aborted' = FALSE /\ success' = FALSE

\* The loop starts over when it finds itself aborted; a variant goes on.
GoesOnAlways == TRUE
GoesOn == ~aborted
LoopAborted ==
    /\ loop \in {"sending", "answered"} /\ aborted
    /\ loop = "answered" => ~GoesOn
    /\ NextTurn
    /\ UNCHANGED <<queueVars, loopFrame, writeBack, ghostVars>>

\* A batch that failed goes back to the end, unless the queue is full; a
\* variant that forgets it.
PutBackNever(rest) == FALSE
PutBack(rest) == ~success /\ ~Draining(rest)

\* The batch leaves the memory; its MULTI is prepared.
LoopRemoves ==
    LET rest == SubSeq(memory, Len(batch) + 1, Len(memory))
    IN  /\ loop = "answered" /\ GoesOn
        /\ PutBack(rest) => caller # "pushing" \/ "readd" \in Races
        /\ loop' = "recording"
        /\ writeBack' = IF PutBack(rest) THEN batch ELSE <<>>
        /\ memory' = IF PutBack(rest) THEN rest \o batch ELSE rest
        /\ postponed' = IF PutBack(rest) THEN postponed \cup ToSet(batch) ELSE postponed
        /\ discarded' = IF ~success /\ Draining(rest) THEN discarded \cup ToSet(batch)
                        ELSE discarded
        /\ UNCHANGED <<redis, loopFrame, batch, aborted, success, delivered>>

\* What the MULTI does; a variant that trims one event too many.
TrimmedTwice(list) == SubSeq(list, Len(batch) + 2, Len(list)) \o writeBack
Trimmed(list) == SubSeq(list, Len(batch) + 1, Len(list)) \o writeBack
LoopWrites ==
    /\ loop = "recording"
    /\ NextTurn
    /\ writeBack' = <<>>
    /\ redis' = Trimmed(redis)
    /\ UNCHANGED <<memory, loopFrame, ghostVars>>

\* Redis fails: the loop restarts.
LoopFails ==
    /\ loop = "recording" /\ troubles < MaxTroubles
    /\ writeBack = <<>> \/ "unwritten" \in Races
    /\ troubles' = troubles + 1
    /\ NextTurn
    /\ writeBack' = <<>>
    /\ UNCHANGED <<queueVars, startVars, callVars, clears, ghostVars>>

\* _sending stays set: no other loop starts.
LoopEnds ==
    /\ loop = "top" /\ stopping
    /\ loop' = "ended"
    /\ UNCHANGED <<queueVars, loopFrame, batch, aborted, success, writeBack, ghostVars>>

-----------------------------------------------------------------------------
\* Clearing, stopping, crashing

\* _loopAbort.abort(): what the turn of the loop looks at until it removes its batch.
LoopAborts == aborted' = (loop \in {"sending", "answered"})

\* The ways to list a set of numbers in order: there is one.
Ordered(S) ==
    {p \in [1..Cardinality(S) -> S] :
        Range(p) = S /\ \A i, j \in DOMAIN p : i < j => p[i] < p[j]}

\* clearSingleWebhookQueue(hook) and clearWebhookQueue(): the rest replaces the
\* copy, if anything was removed, and unless the MULTI fails.
Replaces(removed, kept) ==
    \/ redis' = (IF removed THEN kept ELSE redis) /\ UNCHANGED troubles
    \/ removed /\ troubles < MaxTroubles /\ troubles' = troubles + 1 /\ UNCHANGED redis

Staying(hooks) == {i \in DOMAIN memory : memory[i].hook \notin hooks}
Clear(hooks) ==
    \E place \in Ordered(Staying(hooks)) :
    LET kept == [i \in DOMAIN place |-> memory[place[i]]]
    IN  /\ clears < MaxClears /\ loading = "done" /\ ~stopping
        /\ (loop # "recording" /\ caller # "pushing") \/ "clear" \in Races
        /\ clears' = clears + 1
        /\ memory' = kept
        /\ Replaces(Len(kept) < Len(memory), kept)
        /\ LoopAborts
        /\ discarded' = discarded \cup {e \in ToSet(memory) : e.hook \in hooks}
        /\ UNCHANGED <<startVars, callVars, loop, batch, success, writeBack, delivered,
                       postponed>>

Shutdown ==
    /\ ~stopping
    /\ stopping' = TRUE
    /\ LoopAborts
    /\ UNCHANGED <<queueVars, loading, loaded, callVars, loop, batch, success, writeBack,
                   boundVars, ghostVars>>

\* The document is opened again, after its shutdown.
Restart ==
    /\ stopping /\ loop \in {"off", "ended"} /\ caller = "idle" /\ loading = "done"
    /\ troubles < MaxTroubles /\ troubles' = troubles + 1
    /\ Starts
    /\ UNCHANGED <<redis, accepted, clears, ghostVars>>

Crash ==
    /\ troubles < MaxTroubles
    /\ troubles' = troubles + 1
    /\ Starts
    /\ UNCHANGED <<redis, accepted, clears, ghostVars>>

-----------------------------------------------------------------------------

Clears == \E hooks \in {{h} : h \in Hooks} \cup {Hooks} : Clear(hooks)
LoopActs == LoopTakes \/ Sends \/ GivesUp \/ LoopAborted \/ LoopRemoves \/ LoopWrites
              \/ LoopFails \/ LoopEnds
Next == \/ LoadReads \/ LoadEnds
        \/ (\E hooks \in Calls : EnqueueBegins(hooks))
        \/ EnqueuePushes \/ EnqueueFails \/ EnqueueReturns
        \/ LoopActs
        \/ Clears \/ Shutdown \/ Restart \/ Crash

Spec == Init /\ [][Next]_vars

\* Redis answers, the loop runs, and an endpoint answers or is given up: it may
\* be so each time.
FairSpec ==
    /\ Spec
    /\ WF_vars(LoadReads) /\ WF_vars(LoadEnds)
    /\ WF_vars(EnqueuePushes) /\ WF_vars(EnqueueReturns)
    /\ WF_vars(LoopActs)

-----------------------------------------------------------------------------
\* Properties

\* The values that the variables take.
TypeOK ==
    /\ memory \in Seq(Events) /\ redis \in Seq(Events) /\ loaded \in Seq(Events)
    /\ loading \in {"reading", "read", "done"} /\ stopping \in BOOLEAN
    /\ accepted \in 0..MaxEvents
    /\ caller \in {"idle", "pushing", "waiting"} /\ inHand \in Seq(Events)
    /\ loop \in {"off", "top", "sending", "answered", "recording", "ended"}
    /\ batch \in Seq(Events) /\ writeBack \in Seq(Events)
    /\ aborted \in BOOLEAN /\ success \in BOOLEAN
    /\ delivered \subseteq Events /\ discarded \subseteq Events /\ postponed \subseteq Events

Numbers(events) == {e.n : e \in events}

\* The events still to be sent: neither delivered nor cleared nor dropped.
Unsent == (1..accepted) \ Numbers(delivered \cup discarded)

\* Every event still to be sent is in the copy, whatever the loop, a caller or
\* a user is doing: a crash loses none ("replicated on redis as backup",
\* "modifications to this queue should be replicated").  VIOLATED with the
\* windows that Races opens.
BackedUp == Unsent \subseteq Numbers(ToSet(redis))

\* Once the copy has been loaded, every event still to be sent is in memory, or
\* about to be: no step of the loop takes off an event it has not handled.
NotForgotten == loading = "done" => Unsent \subseteq Numbers(ToSet(memory) \cup ToSet(inHand))

\* An event is delivered after those of its webhook that came before it, save
\* the ones that failed and were put back ("in FIFO order"), through crashes.
FifoPerHook ==
    \A e \in delivered, f \in ToSet(memory) \cup ToSet(redis) \cup ToSet(loaded) :
        (f.hook = e.hook /\ f.n < e.n /\ f \notin postponed) => f \in delivered \cup discarded

\* The endpoint of a webhook fails again and again.
GivesUpOn(hook) == GivesUp /\ batch[1].hook = hook
KeepsFailing(hook) == []<><<GivesUpOn(hook)>>_vars

\* A full queue holds back the document until it has drained; for ever only
\* while a webhook keeps failing, until a user clears the queue: "New changes are
\* temporarily suspended. ... Please check webhooks settings, remove invalid
\* webhooks, and clean the queue."
CallersProceed ==
    (caller = "waiting" ~> caller # "waiting") \/ \E hook \in Hooks : KeepsFailing(hook)

\* Every event is delivered, cleared or dropped in the end, unless its own
\* webhook keeps failing or the document is shut down: one that fails does not
\* keep others from theirs ("giving other URLs a chance to receive events").
EventuallySent == \A e \in Events :
    \/ e \in ToSet(redis) ~> e \in delivered \cup discarded \/ stopping
    \/ KeepsFailing(e.hook)
=============================================================================
