---------------------------- MODULE DocWorkerMap ----------------------------
(***************************************************************************)
(* The assignment of documents to doc workers: the Redis-backed            *)
(* DocWorkerMap (app/gen-server/lib/DocWorkerMap.ts) with those who call   *)
(* it.  Home servers assign documents and remove workers that do not       *)
(* answer; workers register, claim the documents they open, release them   *)
(* as they shut down (FlexServer.ts), crash and come back under the same   *)
(* id; requests to /docs/:docId/assign (DocApi.ts) take a document away    *)
(* from a worker of the wrong group.                                       *)
(*                                                                         *)
(* assignDocWorker, addWorker and removeWorker hold the Redis lock         *)
(* "workers-lock"; setWorkerAvailability, releaseAssignment and the doc    *)
(* groups do not.  All of them are cut in steps at their commands, so that *)
(* others come between those that are made without the lock, and who holds *)
(* the lock may die between two of its own.                                *)
(***************************************************************************)
EXTENDS Naturals, Sequences, FiniteSets, Functions

CONSTANTS
    Workers, Docs,
    Homes,         \* home servers, one call at a time each
    Requests,      \* requests to /docs/:docId/assign in progress
    GroupOrder,    \* the keys of the "groups" hash, sorted
    Wanted,        \* how many workers each of those groups should have
    Preset,        \* info.group of each worker (GRIST_WORKER_GROUP), or Default
    Default,       \* DEFAULT_GROUP, also the group of whoever has none set
    DocGroups,     \* the groups that documents are moved to
    NoWorker,
    ShutdownTurns  \* the 3 of "retries < 3" in FlexServer._shutdown

Groups == Range(GroupOrder) \cup {Default}
Callers == Homes \cup Workers

ASSUME NamesAssumption ==
    Homes \cap Workers = {} /\ NoWorker \notin Workers /\ Default \notin Range(GroupOrder)
ASSUME GroupsAssumption ==
    /\ Wanted \in [Range(GroupOrder) -> Nat]
    /\ Preset \in [Workers -> Groups]
    /\ DocGroups \subseteq Groups
    /\ ShutdownTurns \in Nat \ {0}

VARIABLES
    workers,      \* "workers" and the hashes worker-{w}: the registered workers
    available,    \* "workers-available"
    availableIn,  \* "workers-available-{group}", and its twin by load
    workerGroup,  \* worker-{w}-group
    elected,      \* elections-{deployment}: per group, how often each worker is listed
    docsOf,       \* worker-{w}-docs
    assigned,     \* the docWorker of doc-{d}, or NoWorker
    docGroup,     \* doc-{d}-group
    lock,         \* workers-lock: Free, or what is done next under it and by whom,
                  \* or Abandoned
    call,         \* the call to assignDocWorker or removeWorker of each caller
    life,         \* where each worker is between its start and its end
    seenGroup,    \* the group that setWorkerAvailability has read
    serving,      \* the documents a worker has open and not muted
    muted,        \* the documents a worker has open and muted
    job,          \* what a worker's shutdown is doing about each document
    turns,        \* turns of the loop of the worker's shutdown
    request       \* the requests to /docs/:docId/assign

redisSets == <<workers, available, availableIn, workerGroup, elected>>
redisDocs == <<docsOf, assigned>>
workerVars == <<life, seenGroup, serving, muted, job, turns>>
vars == <<redisSets, redisDocs, docGroup, lock, call, workerVars, request>>

Free == <<"free", NoWorker>>
Abandoned == <<"abandoned", NoWorker>>
Idle == [step |-> "idle", doc |-> "none", worker |-> NoWorker]
Asking(step, d, w) == [step |-> step, doc |-> d, worker |-> w]

Running(w) == life[w] # "down"

Init ==
    /\ workers = {}
    /\ available = {}
    /\ availableIn = [g \in Groups |-> {}]
    /\ workerGroup = [w \in Workers |-> Default]
    /\ elected = [g \in Range(GroupOrder) |-> [w \in Workers |-> 0]]
    /\ docsOf = [w \in Workers |-> {}]
    /\ assigned = [d \in Docs |-> NoWorker]
    /\ docGroup = [d \in Docs |-> Default]
    /\ lock = Free
    /\ call = [c \in Callers |-> Idle]
    /\ life = [w \in Workers |-> "down"]
    /\ seenGroup = [w \in Workers |-> Default]
    /\ serving = [w \in Workers |-> {}]
    /\ muted = [w \in Workers |-> {}]
    /\ job = [w \in Workers |-> [d \in Docs |-> "none"]]
    /\ turns = [w \in Workers |-> 0]
    /\ request = [r \in Requests |-> Idle]

-----------------------------------------------------------------------------
\* A worker starts (FlexServer._addSelfAsWorker)

\* The groups that want more workers than were elected to them.
Vacant ==
    {i \in DOMAIN GroupOrder :
        FoldFunction(+, 0, elected[GroupOrder[i]]) < Wanted[GroupOrder[i]]}

\* addWorker, under the lock: contact info, and "workers".
AddWorker(w) ==
    /\ life[w] = "down"
    /\ lock = Free
    /\ workers' = workers \cup {w}
    /\ lock' = <<"group", w>>
    /\ life' = [life EXCEPT ![w] = "adding"]
    /\ UNCHANGED <<available, availableIn, workerGroup, elected, redisDocs, docGroup, call,
                   seenGroup, serving, muted, job, turns, request>>

\* The group of w is set to its own, if it has one, or to the first group with a
\* vacancy; with neither, it stays what it was.
SetGroup(w) ==
    /\ life[w] = "adding"
    /\ lock = <<"group", w>>
    /\ \/ /\ Preset[w] # Default
          /\ workerGroup' = [workerGroup EXCEPT ![w] = Preset[w]]
          /\ lock' = Free
       \/ /\ Preset[w] = Default /\ Vacant = {}
          /\ lock' = Free
          /\ UNCHANGED workerGroup
       \/ /\ Preset[w] = Default
          /\ \E i \in Vacant : /\ \A j \in Vacant : i <= j
                             /\ workerGroup' = [workerGroup EXCEPT ![w] = GroupOrder[i]]
          /\ lock' = <<"elect", w>>
    /\ life' = IF lock' = Free THEN [life EXCEPT ![w] = "added"] ELSE life
    /\ UNCHANGED <<workers, available, availableIn, elected, redisDocs, docGroup, call,
                   seenGroup, serving, muted, job, turns, request>>

\* w is listed in the group; one that comes back before it was removed is
\* listed twice.
Elect(w) ==
    /\ life[w] = "adding"
    /\ lock = <<"elect", w>>
    /\ elected' = [elected EXCEPT ![workerGroup[w]][w] = @ + 1]
    /\ lock' = Free
    /\ life' = [life EXCEPT ![w] = "added"]
    /\ UNCHANGED <<workers, available, availableIn, workerGroup, redisDocs, docGroup, call,
                   seenGroup, serving, muted, job, turns, request>>

\* setWorkerAvailability(w, true): w reads its group, and its contact info;
\* without that it throws, and the server does not start.
JoinReads(w) ==
    /\ life[w] = "added"
    /\ life' = [life EXCEPT ![w] = IF w \in workers THEN "joining" ELSE "down"]
    /\ seenGroup' = [seenGroup EXCEPT ![w] = workerGroup[w]]
    /\ UNCHANGED <<redisSets, redisDocs, docGroup, lock, call, serving, muted, job, turns,
                   request>>

\* ... joins those of the group that it has read,
JoinsGroup(w) ==
    /\ life[w] = "joining"
    /\ availableIn' = [availableIn EXCEPT ![seenGroup[w]] = @ \cup {w}]
    /\ seenGroup' = [seenGroup EXCEPT ![w] = Default]
    /\ life' = [life EXCEPT ![w] = IF Preset[w] = Default THEN "joined" ELSE "up"]
    /\ UNCHANGED <<workers, available, workerGroup, elected, redisDocs, docGroup, lock,
                   call, serving, muted, job, turns, request>>

\* ... and, unless it has a group of its own, those of the general pool.
JoinsAll(w) ==
    /\ life[w] = "joined"
    /\ available' = available \cup {w}
    /\ life' = [life EXCEPT ![w] = "up"]
    /\ UNCHANGED <<workers, availableIn, workerGroup, elected, redisDocs, docGroup, lock,
                   call, seenGroup, serving, muted, job, turns, request>>

-----------------------------------------------------------------------------
\* assignDocWorker(d), by home servers, and by workers that open d
\* (getDocWorkerOrAssign, from HostedStorageManager._claimDocument)

\* The document is open on worker c once c knows it is assigned to c.
Opens(c, d, w) ==
    serving' = IF c \in Workers /\ c = w THEN [serving EXCEPT ![c] = @ \cup {d}] ELSE serving

CanOpen(w, d) ==
    life[w] \in {"up", "parting", "parted", "draining", "leaving", "removing", "closing"}
    /\ d \notin serving[w] \cup muted[w]

\* A worker opens a document that is already its own.  One that belongs to
\* another worker is refused, with no effect.
OpenAssigned(w, d) ==
    /\ call[w] = Idle
    /\ CanOpen(w, d)
    /\ assigned[d] = w
    /\ Opens(w, d, w)
    /\ UNCHANGED <<redisSets, redisDocs, docGroup, lock, call, life, seenGroup, muted, job,
                   turns, request>>

\* d is seen to have no worker: the lock is asked for.
AssignBegins(c, d) ==
    /\ call[c] = Idle
    /\ c \in Workers => CanOpen(c, d)
    /\ assigned[d] = NoWorker
    /\ call' = [call EXCEPT ![c] = Asking("assign", d, NoWorker)]
    /\ UNCHANGED <<redisSets, redisDocs, docGroup, lock, workerVars, request>>

\* The workers that may be picked for d: the caller, if it is a worker that is
\* generally available; any worker available in the group of d; or else any
\* generally available worker.
Candidates(c, d) ==
    IF c \in Workers THEN {c} \cap available
    ELSE IF availableIn[docGroup[d]] # {} THEN availableIn[docGroup[d]] ELSE available

\* Under the lock: whether d is still free is checked again; a variant that
\* relies on what was seen without the lock.
TakenWhileWaitingIgnored(d) == FALSE
TakenWhileWaiting(d) == assigned[d] # NoWorker

\* A worker that does not get d cannot open it; the job of its shutdown that
\* waits for that fails with it.
OpeningFails(c, d) ==
    job' = IF c \in Workers /\ job[c][d] = "open"
           THEN [job EXCEPT ![c][d] = "none"] ELSE job

\* Someone else assigned d first, or nobody can be picked: the call is over.
AssignEnds(c) ==
    LET d == call[c].doc
    IN  /\ call[c].step = "assign"
        /\ lock = Free
        /\ TakenWhileWaiting(d) \/ Candidates(c, d) = {}
        /\ Opens(c, d, assigned[d])
        /\ IF assigned[d] = c THEN UNCHANGED job ELSE OpeningFails(c, d)
        /\ call' = [call EXCEPT ![c] = Idle]
        /\ UNCHANGED <<redisSets, redisDocs, docGroup, lock, life, seenGroup, muted, turns,
                       request>>

\* A worker is picked and its contact info is found; without it, the call fails.
AssignPicks(c, w) ==
    LET d == call[c].doc
    IN  /\ call[c].step = "assign"
        /\ lock = Free
        /\ ~TakenWhileWaiting(d)
        /\ w \in Candidates(c, d)
        /\ \/ /\ w \in workers
              /\ lock' = <<"assign", c>>
              /\ call' = [call EXCEPT ![c] = Asking("store", d, w)]
              /\ UNCHANGED job
           \/ /\ w \notin workers
              /\ OpeningFails(c, d)
              /\ call' = [call EXCEPT ![c] = Idle]
              /\ UNCHANGED lock
        /\ UNCHANGED <<redisSets, redisDocs, docGroup, life, seenGroup, serving, muted,
                       turns, request>>

\* The MULTI that stores the assignment; a variant without its first command.
StoreStatusOnly(d, w) == assigned' = [assigned EXCEPT ![d] = w] /\ UNCHANGED docsOf
Store(d, w) ==
    /\ docsOf' = [docsOf EXCEPT ![w] = @ \cup {d}]
    /\ assigned' = [assigned EXCEPT ![d] = w]

AssignStores(c) ==
    LET d == call[c].doc
        w == call[c].worker
    IN  /\ call[c].step = "store"
        /\ lock = <<"assign", c>>
        /\ Store(d, w)
        /\ Opens(c, d, w)
        /\ lock' = Free
        /\ call' = [call EXCEPT ![c] = Idle]
        /\ UNCHANGED <<redisSets, docGroup, life, seenGroup, muted, job, turns, request>>

-----------------------------------------------------------------------------
\* removeWorker(w), by a home server that found w dead (DocWorkerUtils.getWorker)
\* or by w itself at the end of its shutdown

HomeFindsDead(h, d) ==
    /\ call[h] = Idle
    /\ assigned[d] # NoWorker
    /\ ~Running(assigned[d])
    /\ call' = [call EXCEPT ![h] = Asking("remove", d, assigned[d])]
    /\ UNCHANGED <<redisSets, redisDocs, docGroup, lock, workerVars, request>>

AsksToRemove(c) == IF c \in Homes THEN call[c].step = "remove" ELSE life[c] = "leaving"
Removing(c) == IF c \in Homes THEN call[c].step = "removing" ELSE life[c] = "removing"
Removed(c) == IF c \in Homes THEN call[c].worker ELSE c

\* The lock is taken; w leaves the general pool.
RemoveLeavesAll(c) ==
    /\ AsksToRemove(c)
    /\ lock = Free
    /\ available' = available \ {Removed(c)}
    /\ lock' = <<"leave", c>>
    /\ IF c \in Homes
       THEN call' = [call EXCEPT ![c].step = "removing"] /\ UNCHANGED life
       ELSE life' = [life EXCEPT ![c] = "removing"] /\ UNCHANGED call
    /\ UNCHANGED <<workers, availableIn, workerGroup, elected, redisDocs, docGroup,
                   seenGroup, serving, muted, job, turns, request>>

\* The next command of c, which is removing a worker: from one step to another.
Removes(c, step, next) ==
    /\ Removing(c)
    /\ lock = <<step, c>>
    /\ lock' = <<next, c>>
    /\ UNCHANGED <<docGroup, call, workerVars, request>>

\* ... w leaves those of its group,
RemoveLeavesGroup(c) ==
    LET w == Removed(c)
    IN  /\ Removes(c, "leave", "backOut")
        /\ availableIn' = [availableIn EXCEPT ![workerGroup[w]] = @ \ {w}]
        /\ UNCHANGED <<workers, available, workerGroup, elected, redisDocs>>

\* ... and is struck off, if it was elected to that group.
RemoveBacksOut(c) ==
    LET w == Removed(c)
    IN  /\ Removes(c, "backOut", "unassign")
        /\ elected' = [g \in DOMAIN elected |->
                          IF g = workerGroup[w] THEN [elected[g] EXCEPT ![w] = 0]
                          ELSE elected[g]]
        /\ UNCHANGED <<workers, available, availableIn, workerGroup, redisDocs>>

\* The documents listed for w are read, and the MULTI deletes their assignments;
\* a variant in which it was not executed.
NothingFreed(w) == UNCHANGED assigned
Freed(w) == assigned' = [d \in Docs |-> IF d \in docsOf[w] THEN NoWorker ELSE assigned[d]]

RemoveUnassigns(c) ==
    /\ Removes(c, "unassign", "dropDocs")
    /\ Freed(Removed(c))
    /\ UNCHANGED <<redisSets, docsOf>>

\* The keys about w are deleted: its documents, its group, then its contact info.
RemoveDropsDocs(c) ==
    /\ Removes(c, "dropDocs", "dropGroup")
    /\ docsOf' = [docsOf EXCEPT ![Removed(c)] = {}]
    /\ UNCHANGED <<redisSets, assigned>>

RemoveDropsGroup(c) ==
    /\ Removes(c, "dropGroup", "dropInfo")
    /\ workerGroup' = [workerGroup EXCEPT ![Removed(c)] = Default]
    /\ UNCHANGED <<workers, available, availableIn, elected, redisDocs>>

RemoveEnds(c) ==
    /\ Removing(c)
    /\ lock = <<"dropInfo", c>>
    /\ workers' = workers \ {Removed(c)}
    /\ lock' = Free
    /\ IF c \in Homes
       THEN call' = [call EXCEPT ![c] = Idle] /\ UNCHANGED life
       ELSE life' = [life EXCEPT ![c] = "closing"] /\ UNCHANGED call
    /\ UNCHANGED <<available, availableIn, workerGroup, elected, redisDocs, docGroup,
                   seenGroup, serving, muted, job, turns, request>>

-----------------------------------------------------------------------------
\* releaseAssignment(w, d): a MULTI under no lock.  It deletes doc-{d}
\* whichever worker that names.
Release(w, d) ==
    /\ assigned' = [assigned EXCEPT ![d] = NoWorker]
    /\ docsOf' = [docsOf EXCEPT ![w] = @ \ {d}]

\* A worker shuts down (FlexServer._shutdown)

\* setWorkerAvailability(w, false): w reads its group,
PartReads(w) ==
    /\ life[w] = "up"
    /\ seenGroup' = [seenGroup EXCEPT ![w] = workerGroup[w]]
    /\ life' = [life EXCEPT ![w] = "parting"]
    /\ UNCHANGED <<redisSets, redisDocs, docGroup, lock, call, serving, muted, job, turns,
                   request>>

\* ... leaves the general pool,
PartsAll(w) ==
    /\ life[w] = "parting"
    /\ available' = available \ {w}
    /\ life' = [life EXCEPT ![w] = "parted"]
    /\ UNCHANGED <<workers, availableIn, workerGroup, elected, redisDocs, docGroup, lock,
                   call, seenGroup, serving, muted, job, turns, request>>

\* ... and the group that it has read.  The assignments there are now get turns
\* of the loop.
PartsGroup(w) ==
    /\ life[w] = "parted"
    /\ availableIn' = [availableIn EXCEPT ![seenGroup[w]] = @ \ {w}]
    /\ seenGroup' = [seenGroup EXCEPT ![w] = Default]
    /\ life' = [life EXCEPT ![w] = "draining"]
    /\ UNCHANGED <<workers, available, workerGroup, elected, redisDocs, docGroup, lock,
                   call, serving, muted, job, turns, request>>

\* The loop has turns left; a variant that allows one too many.
OneTurnMore(w) == turns[w] <= ShutdownTurns
TurnsLeft(w) == turns[w] < ShutdownTurns

\* One turn of the loop: every assigned document starts to close.  Its ActiveDoc,
\* open or being opened, is looked up now, before its flush is awaited.
JobFor(w, d) ==
    IF d \notin docsOf[w] THEN "none"
    ELSE IF d \in serving[w] \cup muted[w] \/ (call[w] # Idle /\ call[w].doc = d)
         THEN "open" ELSE "shut"
ShutdownTurn(w) ==
    /\ life[w] = "draining"
    /\ \A d \in Docs : job[w][d] = "none"
    /\ docsOf[w] # {}
    /\ TurnsLeft(w)
    /\ job' = [job EXCEPT ![w] = [d \in Docs |-> JobFor(w, d)]]
    /\ turns' = [turns EXCEPT ![w] = @ + 1]
    /\ UNCHANGED <<redisSets, redisDocs, docGroup, lock, call, life, seenGroup, serving,
                   muted, request>>

\* The flush is done: the ActiveDoc that was looked up is muted, unless it has been
\* closed since, and the assignment released.
ShutdownReleases(w, d) ==
    /\ \/ /\ job[w][d] = "open"
          /\ d \in serving[w] \cup muted[w]
          /\ serving' = [serving EXCEPT ![w] = @ \ {d}]
          /\ muted' = [muted EXCEPT ![w] = @ \cup {d}]
       \/ /\ job[w][d] = "shut"
          /\ UNCHANGED <<serving, muted>>
    /\ Release(w, d)
    /\ job' = [job EXCEPT ![w][d] = "none"]
    /\ UNCHANGED <<redisSets, docGroup, lock, call, life, seenGroup, turns, request>>

\* Closing the document failed; the error is logged.
ShutdownFails(w, d) ==
    /\ job[w][d] # "none"
    /\ job' = [job EXCEPT ![w][d] = "none"]
    /\ UNCHANGED <<redisSets, redisDocs, docGroup, lock, call, life, seenGroup, serving,
                   muted, turns, request>>

\* No assignments are left, or no turns: the worker removes itself.
ShutdownLeaves(w) ==
    /\ life[w] = "draining"
    /\ \A d \in Docs : job[w][d] = "none"
    /\ docsOf[w] = {} \/ ~TurnsLeft(w)
    /\ life' = [life EXCEPT ![w] = "leaving"]
    /\ UNCHANGED <<redisSets, redisDocs, docGroup, lock, call, seenGroup, serving, muted,
                   job, turns, request>>

\* The lock of a process that dies under it stays until LOCK_TIMEOUT; a variant in
\* which only an assignment sets a timeout.
LeavesAssignLock(c) == lock' = IF lock = <<"assign", c>> THEN Abandoned ELSE lock
LeavesLock(c) == lock' = IF lock[2] = c THEN Abandoned ELSE lock

\* The process of w ends, after shutdownAll or in a crash at any moment.
Ends(w) ==
    /\ Running(w)
    /\ life' = [life EXCEPT ![w] = "down"]
    /\ seenGroup' = [seenGroup EXCEPT ![w] = Default]
    /\ serving' = [serving EXCEPT ![w] = {}]
    /\ muted' = [muted EXCEPT ![w] = {}]
    /\ job' = [job EXCEPT ![w] = [d \in Docs |-> "none"]]
    /\ turns' = [turns EXCEPT ![w] = 0]
    /\ call' = [call EXCEPT ![w] = Idle]
    /\ request' = [r \in Requests |-> IF request[r].worker = w THEN Idle ELSE request[r]]
    /\ LeavesLock(w)
    /\ UNCHANGED <<redisSets, redisDocs, docGroup>>

\* The process of a home server ends, and another starts.
HomeDies(h) ==
    /\ call[h] # Idle
    /\ call' = [call EXCEPT ![h] = Idle]
    /\ LeavesLock(h)
    /\ UNCHANGED <<redisSets, redisDocs, docGroup, workerVars, request>>

LockExpires ==
    /\ lock = Abandoned
    /\ lock' = Free
    /\ UNCHANGED <<redisSets, redisDocs, docGroup, call, workerVars, request>>

\* An ActiveDoc is closed: it is inactive, or a request that has flushed and muted
\* it shuts it down.  Who has looked it up acts on it in vain from now on; the
\* assignment stays.
CloseDoc(w, d) ==
    /\ d \in serving[w] \cup muted[w]
    /\ serving' = [serving EXCEPT ![w] = @ \ {d}]
    /\ muted' = [muted EXCEPT ![w] = @ \ {d}]
    /\ job' = IF job[w][d] = "open" THEN [job EXCEPT ![w][d] = "shut"] ELSE job
    /\ request' = [r \in Requests |->
                     IF request[r] = Asking("flush", d, w) THEN Asking("release", d, w)
                     ELSE request[r]]
    /\ UNCHANGED <<redisSets, redisDocs, docGroup, lock, call, life, seenGroup, turns>>

-----------------------------------------------------------------------------
\* POST /docs/:docId/assign, handled by the worker that d is assigned to

\* An administrator moves d to a group (updateDocGroup, removeDocGroup).
UpdateDocGroup(d, g) ==
    /\ docGroup[d] # g
    /\ docGroup' = [docGroup EXCEPT ![d] = g]
    /\ UNCHANGED <<redisSets, redisDocs, lock, call, workerVars, request>>

\* d is found on a running worker w of the wrong group.
RequestReads(r, d) ==
    LET w == assigned[d]
    IN  /\ request[r] = Idle
        /\ w # NoWorker /\ Running(w)
        /\ docGroup[d] # workerGroup[w]
        /\ request' = [request EXCEPT ![r] = Asking("read", d, w)]
        /\ UNCHANGED <<redisSets, redisDocs, docGroup, lock, call, workerVars>>

\* Opening d there is refused, if d has gone elsewhere meanwhile.
RequestRefused(r) ==
    LET w == request[r].worker
        d == request[r].doc
    IN  /\ request[r].step = "read"
        /\ d \notin serving[w] \cup muted[w]
        /\ assigned[d] # w
        /\ request' = [request EXCEPT ![r] = Idle]
        /\ UNCHANGED <<redisSets, redisDocs, docGroup, lock, call, workerVars>>

\* The ActiveDoc is looked up once it is open and not muted; then it is flushed,
\* muted and shut down (CloseDoc),
RequestLooksUp(r) ==
    /\ request[r].step = "read"
    /\ request[r].doc \in serving[request[r].worker]
    /\ request' = [request EXCEPT ![r].step = "flush"]
    /\ UNCHANGED <<redisSets, redisDocs, docGroup, lock, call, workerVars>>

\* ... and released from the worker that was read at the start.
RequestReleases(r) ==
    /\ request[r].step = "release"
    /\ Release(request[r].worker, request[r].doc)
    /\ request' = [request EXCEPT ![r] = Idle]
    /\ UNCHANGED <<redisSets, docGroup, lock, call, workerVars>>

-----------------------------------------------------------------------------
WorkerStep(w) ==
    \/ AddWorker(w) \/ SetGroup(w) \/ Elect(w)
    \/ JoinReads(w) \/ JoinsGroup(w) \/ JoinsAll(w)
    \/ PartReads(w) \/ PartsAll(w) \/ PartsGroup(w)
    \/ ShutdownTurn(w) \/ ShutdownLeaves(w) \/ Ends(w)
    \/ \E d \in Docs : \/ OpenAssigned(w, d) \/ CloseDoc(w, d)
                       \/ ShutdownReleases(w, d) \/ ShutdownFails(w, d)

\* assignDocWorker and removeWorker, when it is the turn of c,
TakesLock(c) ==
    \/ AssignEnds(c) \/ \E w \in Workers : AssignPicks(c, w)
    \/ RemoveLeavesAll(c)

\* ... and until it gives the lock back.
UnderLock(c) ==
    \/ AssignStores(c)
    \/ RemoveLeavesGroup(c) \/ RemoveBacksOut(c)
    \/ RemoveUnassigns(c) \/ RemoveDropsDocs(c) \/ RemoveDropsGroup(c)
    \/ RemoveEnds(c)

HomeStep(h) == (\E d \in Docs : HomeFindsDead(h, d)) \/ HomeDies(h)

RequestStep(r) ==
    \/ \E d \in Docs : RequestReads(r, d)
    \/ RequestRefused(r) \/ RequestLooksUp(r) \/ RequestReleases(r)

Next ==
    \/ \E w \in Workers : WorkerStep(w)
    \/ \E c \in Callers :
          (\E d \in Docs : AssignBegins(c, d)) \/ TakesLock(c) \/ UnderLock(c)
    \/ \E h \in Homes : HomeStep(h)
    \/ \E r \in Requests : RequestStep(r)
    \/ \E d \in Docs, g \in DocGroups : UpdateDocGroup(d, g)
    \/ LockExpires

Spec == Init /\ [][Next]_vars

\* What is done under the lock goes on, or the lock expires; and home servers go
\* on: each request for a document leads a home server to look for its worker
\* again.  They compete for the lock (SF).
Fairness ==
    /\ WF_vars(\/ LockExpires
               \/ \E c \in Callers : UnderLock(c)
               \/ \E w \in Workers : SetGroup(w) \/ Elect(w))
    /\ \A h \in Homes :
          SF_vars(TakesLock(h)) /\ SF_vars(\E d \in Docs : HomeFindsDead(h, d))

FairSpec == Spec /\ Fairness

-----------------------------------------------------------------------------
\* Properties

Calls == [step : {"idle", "assign", "store", "remove", "removing"},
          doc : Docs \cup {"none"}, worker : Workers \cup {NoWorker}]

LockSteps == {"group", "elect", "assign", "leave", "backOut", "unassign", "dropDocs",
              "dropGroup", "dropInfo"}
Lives == {"down", "adding", "added", "joining", "joined", "up", "parting", "parted",
          "draining", "leaving", "removing", "closing"}
RequestCalls == [step : {"idle", "read", "flush", "release"}, doc : Docs \cup {"none"},
                 worker : Workers \cup {NoWorker}]

TypeOK ==
    /\ workers \subseteq Workers
    /\ available \subseteq Workers
    /\ availableIn \in [Groups -> SUBSET Workers]
    /\ workerGroup \in [Workers -> Groups]
    /\ elected \in [Range(GroupOrder) -> [Workers -> Nat]]
    /\ docsOf \in [Workers -> SUBSET Docs]
    /\ assigned \in [Docs -> Workers \cup {NoWorker}]
    /\ docGroup \in [Docs -> Groups]
    /\ lock \in {Free, Abandoned} \cup (LockSteps \X Callers)
    /\ call \in [Callers -> Calls]
    /\ life \in [Workers -> Lives]
    /\ seenGroup \in [Workers -> Groups]
    /\ serving \in [Workers -> SUBSET Docs]
    /\ muted \in [Workers -> SUBSET Docs]
    /\ job \in [Workers -> [Docs -> {"none", "open", "shut"}]]
    /\ turns \in [Workers -> 0..ShutdownTurns]
    /\ request \in [Requests -> RequestCalls]

\* The two records of an assignment agree in the direction that matters for
\* removal: what doc-{d} names has d in its set.  So removeWorker, which reads
\* the set, leaves no document behind that points to a worker nobody knows.
AssignmentListed == \A d \in Docs : assigned[d] # NoWorker => d \in docsOf[assigned[d]]

\* A document is only ever assigned to a registered worker, whose contact info
\* is there to be found, however assignments, removals and crashes interleave.
AssignedToRegistered == \A d \in Docs : assigned[d] # NoWorker => assigned[d] \in workers

\* An assignment never passes from one worker straight to another: it is
\* released, or its worker removed, in between.
NoDirectTransfer ==
    [][\A d \in Docs : assigned[d] # NoWorker => assigned'[d] \in {assigned[d], NoWorker}]_vars

\* The map that the servers see: a document has one known worker, gets another
\* only after it was taken from the first, and stays with none that is removed.
Assignment == INSTANCE DocAssignment WITH known <- workers, holder <- assigned
ImplementsAssignment == Assignment!Spec

\* A document whose worker is dead does not stay with it: the next home server
\* that looks for it removes the worker, even if others die holding the lock, and
\* whatever they had done until then; unless all home servers keep dying.
DeadWorkersLoseDocs ==
    \/ \A d \in Docs : \A w \in Workers :
          assigned[d] = w /\ ~Running(w) ~> assigned[d] # w \/ Running(w)
    \/ \A h \in Homes : []<><<HomeDies(h)>>_vars

\* "workers-available - the set of workers available for assignment (a subset
\* of the workers set)": of any worker picked there, the contact info is known.
AvailableAreRegistered == available \subseteq workers

\* "We'd now like to make sure (synchronously) that we never output anything new
\* to S3 about this document": two workers do not both have it open unmuted.
ServedByOne ==
    \A d \in Docs : \A v, w \in Workers : d \in serving[v] \cap serving[w] => v = w
=============================================================================
