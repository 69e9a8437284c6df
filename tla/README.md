# Formal models of grist-core

Grist keeps each document in a SQLite file on the disk of one *doc worker*, and
backs it up to external storage (S3). *Home servers* find or choose the worker
of a document in Redis. Browsers talk to the worker over websockets that break;
documents post webhooks; servers cache what the home database says. What must
not go wrong is spread over those parts: an edit reported as backed up must
survive crashes and moves between workers; a document must have at most one
worker; a page that reconnects must miss no message and repeat no request; an
event to be posted must survive a restart; a stale permission must be dropped.
These models are about that machinery, which is asynchronous from end to end and
hard to test in the orders that hurt. They are translated from the TypeScript
source; paths are relative to the repository.

## The system's parts

| part | state | operations | who it talks to |
| --- | --- | --- | --- |
| Keyed scheduler, `app/common/KeyedOps.ts` | per key: changed, operating, timer, promise, callbacks, failures, last start | add, expedite, wait, stop; timer, settle, clean-up | runs the pushes of the storage manager and the prunes of the pruner |
| Worker map, `app/gen-server/lib/DocWorkerMap.ts` | Redis: workers, available sets, groups, elections, assignments, checksums, `workers-lock` | add, remove, availability, assign, release, groups | home servers, doc workers |
| Doc worker life, `app/server/lib/FlexServer.ts` | registered, available, shutting down; open and muted documents | start, shutdown loop, remove itself | worker map, storage manager, document manager |
| Home server lookup, `DocWorkerUtils.ts`; reassignment, `DocApi.ts` | calls in progress | assign, remove a dead worker; flush, mute, release | worker map |
| Storage manager, `HostedStorageManager.ts` | local files, pending uploads, labels, latest versions | claim, fetch, create, mark as changed, push, flush, close, delete | scheduler, worker map, external storage, inventory |
| Checksummed storage, `ExternalStorage.ts` | checksum in Redis, hash on disk, version in memory | upload, download, versions, remove | S3, Redis, disk |
| Snapshot inventory and pruner, `DocSnapshots.ts` | list of versions on disk and in S3, what needs a flush | add, remove, versions, flush, prune | checksummed storage, scheduler, snapshot endpoints |
| Clients, `Comm.ts` and `Client.ts` on both sides, `GristWSConnection.ts` | a page's connection and pending requests; a Client's missed messages, sequence numbers, timers | dial, greet, send, resend, close, destroy, reload | pages, document manager |
| Webhook queue, `WebhookQueue.ts` | events in memory, their copy in Redis, the sending loop | load, enqueue, send, clear, shut down | endpoints, Redis, the document that waits |
| Cached values, `PubSubCache.ts`, `PubSubManager.ts`, `AsyncCreate.ts` | promises of values and of subscriptions, callbacks, the subscriber's connection | fetch, subscribe, invalidate, expire, reconnect | home database, Redis |
| Metadata manager, `HostedMetadataManager.ts` | batch of updates, timer, push | schedule, push, close | home database |
| Document manager, `DocManager.ts`, `ActiveDoc.ts` | open documents as promises, muted, migrating | open, apply actions, shut down | storage manager, data engine, clients |
| Others | | | action history, jobs, attachments, memory pool, data engine, access rules, home database, web client |

The hard behaviours: handlers that await in the middle and act on what they read
before; crashes between two writes to different stores; a lock that not
everyone takes; retries of calls that did have their effect; checksums that
expire; a shutdown loop that races with new work; messages lost with the
connection, each end learning of it in its own time; a queue kept in two places
that are written one after the other; promises that are dropped from a map and
go on. `PROJECT.json` lists them under `hazards`, each at its line, with the
properties aimed at it.

What makes each part correct:

- scheduler: no change and no waiting caller is lost; changes are taken up in
  the end; operations are spaced as asked;
- worker map: the two records of an assignment agree, name a registered worker,
  and change hands only through a release or a removal; the dead lose theirs;
- storage: what a flush reported as saved is in the latest version, and in
  every copy opened later; checksums describe versions that exist;
- inventory: one that starts with the current version misses none, and what is
  reported as saved is true; the current version is never removed; closing ends;
- clients: a request runs at most once and is settled in the end, messages are
  handled in order and without gaps, no page waits for nothing;
- webhooks: an event to be sent is in Redis and not forgotten in memory, is sent
  after the older ones of its webhook, and in the end; the document goes on;
- cached values: a stale value has its invalidation on the way, as long as no
  message was lost, and is dropped without waiting for its timer.

## The modules

Each module is one component; `MC*` modules give TLC its instances, `*_proofs`
modules hold the theorems. Two modules are abstract specifications.

### KeyedOps

One instance of the class `KeyedOps`, for any keys and both sets of options that
`HostedStorageManager` uses. `AddOperation`, `ExpediteOperationAndWait`,
`ExpediteOperations`, `StopOperations` and `Wait`/`WaitTurn`/`WaitReturns` are its
public methods; `Update` is the timer's callback `_update`; `OperationSucceeds`
and `OperationFails` are the two handlers that settle the promise; `CleanUp` is
the last `.then()`, which runs in a later microtask, so that other code can run
between. Time is counted in ticks; a timer that is due fires before time moves
on. Only the `history` map is abstracted, to the time since the last start.
`stale`, `covers`, `owed` and `urgent` are ghost variables: what has changed
since the last successful operation, whom the current one serves, and who was in
a hurry.

### DocAssignment and DocWorkerMap

`DocAssignment` is what the map promises: known workers, and a holder per
document, which is granted a free document and gives it back; a worker is removed
once it holds none. `DocWorkerMap` implements it (`known <- workers`,
`holder <- assigned`; the property `ImplementsAssignment`).

`DocWorkerMap` has Redis and its users together, since the rules of the map only
mean something with those that follow them: workers that start, open documents
(`OpenAssigned`, or the assign actions, as `getDocWorkerOrAssign` does), shut down
(`PartReads` to `ShutdownLeaves`, after `FlexServer._shutdown`) and die at any
moment (`Ends`) to return under the same id; home servers that assign
(`AssignBegins`, `AssignEnds`, `AssignPicks`, `AssignStores`), find and remove dead
workers (`HomeFindsDead`) and die too (`HomeDies`); requests that move a document to
another group (`RequestReads` to `RequestReleases`).

Every operation is cut at its commands, where others can come in between or a
crash can stop it: `addWorker` is `AddWorker`, `SetGroup`, `Elect`;
`setWorkerAvailability` is `JoinReads`, `JoinsGroup`, `JoinsAll` one way and
`PartReads`, `PartsAll`, `PartsGroup` the other, with the group it has read in
`seenGroup`; `removeWorker` is `RemoveLeavesAll`, `RemoveLeavesGroup`,
`RemoveBacksOut`, `RemoveUnassigns` (the MULTI), `RemoveDropsDocs`,
`RemoveDropsGroup`, `RemoveEnds`, for a home server and for a worker that removes
itself alike. `lock` says which command comes next under `workers-lock`, and whose
it is; when that process dies it becomes `Abandoned`, with the commands done so far
in effect, until `LockExpires`. A shutdown or a request acts on the `ActiveDoc` that
it looked up: once that one is closed (`CloseDoc`), muting it has no effect on one
opened since. The list of workers elected to a group is kept as how often each is in
it: its order is never used.

### DurableDocument and HostedStorage

`DurableDocument` is what the storage manager promises: at most one open copy,
and a set of saved edits that only grows and is in every copy opened from then
on. `HostedStorage` implements it (`open <- opened`; the property
`ImplementsDurable`), within the faults named below.

`HostedStorage` has one document: versions in the store, checksum in Redis
(`md5`), and for each worker its disk (`disk`, `localHash`), memory (`latest`,
`changed`, `push`) and where it is with the document (`doc`). Content is the set
of edits made, and a checksum is the content itself (MD5 collisions are left
out); a version id is an index. `KeepLocal`, `WipesFile`, `StartFetch` are the
outcomes of `_claimDocument`; `WipesFile`, `WipesHash`, `WipesLatest` the awaits of
`_wipeCache`; `FetchMoves` and `FetchRecords` the two halves of `downloadTo`. A claim
fails in any of these (`ClaimFails`), and the document is claimed again with what
was done so far: when the downloaded file was moved into place and its hash not
recorded, the file is found there. `PushStarts` to `PushShares` are the steps of
`_pushToS3` and of `ChecksummedExternalStorage.upload`, each of which can fail
(`PushFails`, with the version recorded in memory and not its hash, too) or be cut
short (`Crash`). When pushes run is KeyedOps' business: here one runs at any
time after a change, at most one at a time. The owner is the worker the document
is assigned to; that it changes hands only after a close or a death is an
assumption here, and `DocWorkerMap` says where it is not so (`ServedByOne`).

Two constants name the faults that the code does not survive, so that a run can
have the rest without them: `EarlyCrashes`, a crash of the owner while the store
has nothing, and `UnsharedFaults`, a push cut short when its version is in the
store and its checksum not in Redis.

### SnapshotInventory

The list of a document's versions, in its three places: the file of the worker
(`file`), the copy in the metadata store (`meta`), and the truth (`versions`).
`op` is what is done under the mutex of `DocSnapshotInventory`: `Reads` is
`_getSnapshots` with its cross-check against the latest version the process
knows and its `_reconstruct`; `PushUploads` and `PushAdds` are
`uploadAndAdd`; `Prunes` and `Removals` cut `remove` where the store has already
changed and the list has not; `Flush` is `flush`. Any step fails (`StepFails`). One
that reads the list from the metadata store has removed the file first, and leaves
none (`FileLeft`); with nothing to upload, each flush then fails (`NoFile`) until the
list is read again. An upload that is reported as failed may have had its effect,
and its version may have been recorded with or without its checksum
(`PushUnanswered`). The document is closed (`CloseFlushes`, `CloseEnds`: `flushDoc`
under `closeDocument`, which a flush that fails makes fail; the document is closed
nevertheless, since `ActiveDoc` only logs it), crashes, and is opened again with the
worker's files or without them, or with the list that a wipe which was cut short has
left. `prepareLocalDoc` flushes too, before it opens. A list, newest first
and in order of upload, is the set of its versions. Which old versions a prune
removes is a free choice: retention rules decide it, and the properties hold
whatever they say.

`Windows` opens three windows that the code has no remedy for: `"kept"`, a
process that starts with a list that lacks the latest version; `"removed"`, a
removal cut short before the list without the versions is flushed; `"given"`, a
client that asks to remove the current version by its id.

### ClientSession

A page and the `Client` objects that a worker makes for it. `Dial` is
`connect()` with `_onWebSocketConnection` and `setConnection` at the other end;
`ConnectSends` is `sendConnectMessage` after its await, with `getMissedMessages`
(`Gap`, `Kept`, `FirstNeeded`); `Send` is `sendMessage`, with the buffer of missed
messages that destroys a Client when it is full; `PageReceives` is
`_processReceivedMessage` of the page, for numbered messages and for
`clientConnect`, with `_resendPendingRequest` (`Resends`, `Rejects`). A
connection that is cut loses what is on the way; the ends learn of it one after
the other (`PageNoticesClose`, `ServerNoticesClose`), and what the server sends
in between is lost, or fails and is kept (`Fates`). The user may reload the page,
which keeps the id of its Client and starts numbering again.

`EarlySends` lets messages be sent between `setConnection` and the
`clientConnect`; `FirstDialLost` lets the first dial of a page fail, or its
connection be lost before that message: it is then dialled again as a reconnection,
by a page that knows nothing.

### WebhookQueue

The events of a document in memory and in Redis. Every `await` that others can
use separates two actions: `LoadReads`/`LoadEnds` (`_getRedisQueue`),
`EnqueueBegins`/`EnqueuePushes`/`EnqueueReturns` (`enqueue`, of one event or
several: rpush, push, wait for room; `EnqueueFails` when the rpush is rejected, though
Redis has it), and for `_sendLoop` `LoopTakes`, `Sends` or `GivesUp`, `LoopAborted`,
`LoopRemoves` (the batch leaves the memory and the MULTI is prepared),
`LoopWrites` (it runs) or `LoopFails`. `Clear`, which changes Redis unless its MULTI
fails (`Replaces`), `Shutdown`, `Restart` and `Crash` come at any time. An `lrange`
that fails rejects a promise that nobody handles, and the process exits
(`FlexServer.ts:814`): that is `Crash`. An endpoint fails as often as it likes, for
good too: `GivesUp` has no bound. The batch leaves the memory (line 475) before the
room is tested (line 485), so a batch taken from a queue that was just full is put
back, and the queue is full again. `delivered`, `discarded` and `postponed` are ghosts.

`Races` opens four windows that the code leaves open: an event enqueued before
the copy is loaded (`"load"`), or while a failed batch waits to be written back
(`"readd"`); a failed batch that is not written back since Redis fails
(`"unwritten"`); and a clearing between the two writes of another operation
(`"clear"`). Each alone makes TLC refute `BackedUp`, and each of the first three
`NotForgotten`.

### PubSubCache

One key in the cache of one server, over a Redis subscription, while this
server and others commit changes. `db` counts the changes; a value is the number
of the change it reflects. A fetch subscribes first and reads then
(`getValue`); a commit drops the server's own value and publishes an
invalidation (`Invalidate`, `Publish`, `Deliver`); the subscriber loses its
connection with the messages in it, and gets it back with its subscriptions, but
is told of nothing that it missed. Promises dropped from a map go on, and when
they fail take out of the map what is there by then (`mapGetOrSet`,
`ClearsRejected`). `missed` is a ghost: the values that a message was lost for,
which stay until their timer, as the code accepts. `LateFailures` lets a
subscription fail whose key has expired meanwhile.

## The runs

| run | what it shows | bounds | distinct states |
| --- | --- | --- | --- |
| `KeyedOps_uploads` | safety, and liveness under `FairSpec` | 2 keys, 1 waiter and `wait()` | 47 thousand |
| `KeyedOps_prunes` | spacing of operations | 2 keys, minimal delay, no other (the pruner's options) | 142 thousand |
| `DocWorkerMap_safety` | type, records, registration, the abstract map | 2 workers, 1 document, 1 home server, 1 request, 1 group | 2.0 million |
| `DocWorkerMap_live` | the dead lose their documents, under `FairSpec` | 1 worker, 2 home servers, 1 request, 1 group that wants a worker | 224 thousand |
| `HostedStorage_saved` | saved edits survive, checksums are honest, the abstract document | 2 workers, 3 edits, 4 versions | 2.4 million |
| `SnapshotInventory` | the list, the current version, and closing, under `FairSpec` | 3 versions, 3 faults, 1 call of an endpoint | 412 thousand |
| `SnapshotInventory_current` | **violated**: `CurrentKept`, with the window `"kept"` | 2 versions, 2 faults | |
| `ClientSession` | requests, messages and waiting, under `FairSpec` | 1 request per load, 2 loads, 2 disturbances, 1 event, 1 missed message, 5 Clients | 319 thousand |
| `ClientSession_early` | **violated**: `WaitingIsJustified`, with `EarlySends` | the same | |
| `WebhookQueue` | events, order, callers, under `FairSpec` | 2 webhooks, 3 events, up to 2 per call, batches of 2, room for 2, 1 trouble, 1 clearing, any number of failed batches | 355 thousand |
| `WebhookQueue_backup` | **violated**: `BackedUp`, with the race `"clear"` | the same | |
| `PubSubCache` | staleness, under `FairSpec` | 1 other server, 2 changes, 3 fetches, 1 fault | 530 thousand |

Why the bounds are enough. The keys of a scheduler only meet in `wait()`, which
two keys show. An assignment can go wrong between its worker, another one and
whoever removes the first; more workers only repeat these parts. A document can
be wrong on its return to a worker with an old copy, which takes two workers and
two edits; the third edit lets another push run in between, and four versions
let a push be repeated. A list is wrong by a version too few or too many: three
versions let one be added, one be removed and one stay, with a fault at each of
three steps. A session goes wrong when a connection breaks again before the page
has heard of the first break, hence two disturbances; five Clients are more than
two loads and two breaks can use up, and one message to keep lets the second
overflow. A batch of two and three events let a batch be the head of a longer
queue, with events of both webhooks; a queue of two fills, and is full again when a
batch is put back. Two changes and three fetches let a value be
read before a change and another after it. With two requests per load and no
liveness, `ClientSession` has 4.8 million states and the same invariants hold; so
do those of `WebhookQueue` with two troubles, so that a crash can follow a failed
command (1.1 million), those of `SnapshotInventory` with four faults and two calls
(1.5 million), and those of `DocWorkerMap` with a group that wants a worker (7.1
million; 14.6 million with two home servers).
The theorems below need no bounds. Symmetry is declared over workers, documents,
keys and edits only in runs without liveness, and nothing in the modules chooses
among them. Deadlock is allowed where a module has bounds on what users and
faults may do, since it stops when they are used up.

### Fairness

`KeyedOps!Fairness`: due timers and handlers of settled promises run (the event
loop); time passes, strongly, since callers do not act without end within one
tick; operations settle and, retried again and again, succeed in the end. The
last is what the code assumes of S3, not what it ensures: without it `retry`
promises nothing. `StopOperations` may happen, and the properties say what
remains true then.

`DocWorkerMap!Fairness`: what is done under the lock goes on while its process
lives, and the lock of a dead one expires (`LOCK_TIMEOUT`). Home servers go on asking
for documents and competing for the lock, each of them, which redlock retries (strong
fairness: the lock is free again and again). Nothing makes a worker start or shut
down. A home server may die at any step, again and again; `DeadWorkersLoseDocs`
excuses only that all of them do so for ever.

`SnapshotInventory!FairSpec`: the process goes on with what it holds the mutex
for, a scheduled push or prune runs (KeyedOps), and a close goes round its loop.
Nothing makes a user close, call or edit.

`ClientSession!FairSpec`: messages arrive on a connection that is up, both ends
of a broken one learn of it, access checks and methods return, the page's timers
dial again, the app reloads a pane that it was told to reload. Nothing makes a
connection break, a destroy timer fire or a user act.

`WebhookQueue!FairSpec`: Redis answers, the loop runs, and an endpoint answers or
is given up, possibly each time. Nothing makes an endpoint answer well: the two
liveness properties say instead what happens unless one keeps failing
(`KeepsFailing`). `CallersProceed` is refuted by TLC without that exemption: at a full
queue the failed batch is put back, again and again, and the document waits until a
user clears the queue, which the message that users see says. `EventuallySent`
exempts only the events of the webhook that fails: one that fails keeps no other
webhook's events from being sent.

`PubSubCache!Fairness`: the callbacks of a committed transaction are called and
messages get through while the connection is up. Nothing is asked of the timer:
`StaleIsDropped` does not wait for it.

`HostedStorage` has safety properties only.

### What the violations say

Each violation run checks one sentence of a comment against the code; the
`findings` of `PROJECT.json` quote them.

- `ClientSession_early` (15 steps): a response that is sent between
  `setConnection` and `clientConnect` reaches a page that is not established. It
  drops the message and yet counts it as received. After one more break the
  server sees no gap, does not ask for a reload, and has read the request, so
  that it is not sent again: the page waits for ever, which the comment at
  `Client.ts:436` says cannot be. `NeverStranded` fails there too.
- `WebhookQueue_backup` (8 steps): clearing replaces the list in Redis by what is
  in memory, which between the two writes of an enqueue or of the loop is not
  what it should have.
- `SnapshotInventory_current` (11 steps): the check that forbids removing the
  current version is made against the memory of the process, which after a crash
  that kept the local copy knows no version; the endpoint that removes unlisted
  snapshots then removes the current one.

Some definitions are kept in the modules and no run lists them, because they do
not hold, and TLC shows a short behaviour for each:

| definition | where it fails |
| --- | --- |
| `KeyedOps!ReturnsWhenComplete` | one key: expediting awaits an operation that may not cover the latest change; the loops in `flushDoc` and `wait` make up for it, `addToStorage` does not |
| `DocWorkerMap!AvailableAreRegistered` | 2 workers: `setWorkerAvailability` takes no lock, so that a worker that restarts may join between the commands of its removal |
| `DocWorkerMap!ServedByOne` | 2 workers: a document opened after a shutdown or a request has looked it up is served unmuted after its release |
| `WebhookQueue!CallersProceed` without its exemption | one webhook: an endpoint that keeps failing keeps a full queue full |
| `HostedStorage!SavedReachedStore` with `EarlyCrashes` | a document that was never pushed counts as saved after a crash |
| `HostedStorage!OpensCanonical` with `UnsharedFaults` | S3 is not canonical when Redis names an older version |
| `ClientSession!AnswersMatch` | a reloaded page reuses the Client of its tab and numbers its requests from 0 again |
| `ClientSession!WaitingIsJustified` with `FirstDialLost` | 18 steps, 3 disturbances: a page is reloaded and its first dial fails; the next is a reconnection, whose `clientConnect` speaks for the requests of the load before, so that one that is lost later is not sent again |
| `PubSubCache!Watched` with `LateFailures` | 5 steps: a subscription that fails late takes a newer one out of the map |

None of these is assumed away silently: they are named constants, or, for
`ServedByOne`, the ownership assumption of `HostedStorage`.

## What is proved

`KeyedOps_proofs` (any keys, callers, delays and options). The inductive
invariant adds to the checked properties what ties callbacks to work ahead,
failures to retries and ghosts to the promise. `NothingLost` alone is not
inductive: after a failure one has to know that the key went back to `changed`
unless it was stopped or there is no retry, and during an operation that it
covers what was changed before it. From it follow `SavedOrPending`,
`ChangesAreScheduled`, `NoCallerForgotten` and, with the time since the last
start, `OperationsAreSpaced`; and `KeepsFirstSchedule`, of every step.

`DocWorkerMap_proofs` (any workers, documents, home servers, requests, groups and
number of shutdown turns). `AssignmentListed` rests on the MULTIs: a removal
deletes the assignments that the worker's set lists before it drops the set, and
nothing is assigned to the worker in between (`Emptied`), even when the process that
removes it dies there, since its lock stays until it expires (`LockHeld`).
`AssignedToRegistered` needs to know what holds the lock: an assignment about to be
stored has its worker registered, and no removal can run in between
(`StoreIsSafe`). From these,
`RemovalFreesAll`, `AssignedWorkersAreKnown`, `AssignmentsAreNotStolen`, and
`MapImplementsAssignment`: every step registers, grants, gives back or removes in
the abstract map, or leaves it alone. `TypeCorrect` adds the types of the
variables that these do not mention.

`HostedStorage_proofs` (any workers, edits and number of versions, **and all
faults**). The invariant `BasicInv` says that only the live owner works on the
document, that whatever is in progress has a file and a backup, and that what has
been uploaded or moved into place is the latest version; then every checksum,
in Redis or on a disk, is that of a version in the store, even when pushes are
cut short between their steps (`ChecksumsAreHonest`).

`HostedStorage_saved_proofs` has two invariants over `BasicInv`. `SavedInv` needs
only that `UnsharedFaults` is `FALSE`: versions only grow (`Monotone`); a version
that a worker knows is in the store, and while the document is open its hash on disk,
which may be of an earlier one when a push or a fetch was only half recorded, is not
that of the latest next to an earlier version known (`KnowsVersion`); a copy in
use, and the backup of a push, have all that the latest version has
(`CoversLatest`); a copy with nothing to push, once there are versions, is the
one that its worker knows, unless it has just been moved into the place of an older
one (`NothingToPush`); and Redis names an older version
only during a push, or before one that will upload again (`SharedOrPushing`).
This gives `OpensCanonical` (`OpenCopiesAreCurrent`), wherever workers crash. The
delicate step is `PushUnchanged`, where a push ends because the backup has the
hash of the last upload: that hash names a stored version, so it has no more than
the latest, while the backup has no less; hence they are equal, nothing is lost by
not uploading, and since only one worker is at work on the document, Redis cannot
be left behind. `StoredInv` needs `EarlyCrashes` `FALSE` too (`NoFaults`): there are
versions as soon as a copy has nothing to push (`CopiesAreStored`), which is what
a crash before the first push breaks. With it come `SavedReachedStore`,
`NoSavedEditLost`, and that the storage implements `DurableDocument`
(`StorageIsDurable`). Each assumption is needed: TLC refutes `OpensCanonical` with
`UnsharedFaults`, and `SavedReachedStore` with `EarlyCrashes`.

`SnapshotInventory_proofs` (any number of versions, faults and calls). Each
result assumes closed only the windows with which TLC refutes it:

| property | refuted with | proved whatever |
| --- | --- | --- |
| `TypeOK` | | |
| `NothingMissed` | `"kept"` | `"removed"`, `"given"` |
| `CurrentKept` | `"kept"`, `"given"` | `"removed"` |
| `SavedIsTrue` | `"kept"`, `"removed"` | `"given"` |

The invariant `Inv`, for which only `"kept"` is closed, is a conjunction of named
parts: versions are those uploaded (`Numbered`), what is done under the mutex
belongs to who holds it (`AtWork`), the version the process knows is the last,
unless that is gone (`LatestRight`), a list lacks only versions newer than its
first (`ListsComplete`), and what reads and pushes have in hand has all that is to
be found (`ReadsAll`, `PushFinds`). A read that fails and leaves no file loses
nothing: the next one starts from the metadata store and is cross-checked, or that
list is complete. `ListsAreComplete` follows. For
`CurrentVersionStays`, `CurrentInv` adds what removers have chosen: a process that
knows the current version is refused its removal, and one that does not has read a
list that has it (`SafeRemovals`). For `SavedListIsTrue`, `NoneGone` adds that
lists have versions that are gone only between the steps of a removal.

`PubSubCache_proofs` (any servers, changes, fetches and faults). What makes
`StaleIsTold` inductive is the order of `getValue`: a value is read only after its
subscription holds, so that any change it does not reflect has been, or will be,
published to it; and an invalidation that is due or on its way finds the value in
the map, or a newer one. `EntryIsHeard` says that the value in the map is heard
for: its own subscription keeps its callback until the value expires, whatever
other subscriptions do. So `NoSilentStaleness` holds whatever `LateFailures` is: a
subscription that fails late may take a newer one out of the map, and what is lost
by it is another's watch, not this value's. That is why `CachedIsWatched` needs
`LateFailures` to be `FALSE`; with it TLC refutes `Watched`.

`WebhookQueue_proofs` (any webhooks, sizes and bounds). `BaseInv` needs only that
nothing is enqueued before the copy is loaded (`"load"` not in `Races`): until then
there is nothing in memory, and a batch that was not aborted is the head of the
memory (`BatchRight`), so that what leaves the memory was handled. With no race
open, `MirrorInv` adds that the copy has, in its order (`Embeds`), what is in memory
and on its way there; while the loop waits for its MULTI, it will once trimmed
(`Mirrored`), which is why a crash or a failure of Redis in that window costs at most
a second delivery, as does an rpush that was rejected and had its effect. Hence `CopyIsComplete` and `MemoryIsComplete`. For
`FirstInFirstOut`, which like `BaseInv` assumes only `"load"` closed, `OrderInv`
does without the copy being right: it follows the events that nothing has happened
to yet (`Fresh`). In the copy and in the memory they come after smaller numbers
only, even when a failed batch has been put back among them (`InTurn`); those of
the copy that the memory lacks were handled (`LeftOver`), so that a copy that lags
or has been trimmed by too much brings back no event out of turn; and none is
behind a delivered one (`Passed`).

`ClientSession_proofs` (any Clients, requests, loads and disturbances, whatever
`EarlySends` and `FirstDialLost` are): a page and a Client do not know of each
other what was lost, so `AtMostOnce` (`ExecutedOnce`) rests on what the two keep
(`ResumesRight`). Nothing is on its way but on the connection of the page, and
requests only once it is established (`Wires`); those that were never sent have
higher numbers than those that were (`NumbersRight`); those on their way have not
been executed, come in order, and after all that was executed and has no answer
(`QueueRight`); what was executed and has no answer, the Client that the page
knows has read (`ReadByClient`), and any greeting that speaks of requests says so
(`GreetingsRight`). So what a page sends again when it is greeted, sent or unsent
before, has not been executed (`ResendsOnce`), and a page that is given another
Client sends again only what was never sent.

The other direction, `MessagesInOrder` (`HandledInOrder`) and `NeverStranded`
(`NeverGivesUp`), assumes only that `EarlySends` is `FALSE`; with it TLC refutes
both. `OrderInv` adds to the invariant above what each Client holds: missed
messages with distinct numbers in its window, none of them below what the page
expects of that Client, and a window that starts later than that is flagged, so
that the next greeting says `needReload` (`HeldRight`). On an open connection the
queue is greetings and then messages numbered without a gap from what the page
expects (`Shape`), up to `nextSeqId` as long as the connection is up (`Fits`,
`Lined`). Before the page has been greeted, the queue is empty or opens with a
greeting whose missed messages bring the page to where the queue goes on, or that
makes the page reload (`Opens`, `LineRight`). The page counts on from what it has
handled (`PageRight`). `SpansCount` and `SpansHighest` relate a run of numbers to
the size and the highest number of a set of messages.

`WaitingIsJustified` (`NeverWaitsForNothing`) says that nothing a page waits for is
lost unnoticed: it assumes that `EarlySends` and `FirstDialLost` are `FALSE`, and
with either TLC refutes it. `WaitInv` adds to `OrderInv` where a request is. One
that was sent and not executed is on its way, or its connection does not work any
more and all that is still to be read from it was sent before (`OnWire`); then its
Client has not read it (`Unread`), and the greeting that follows says so
(`SaysRead`), so that the page sends it again. One that was executed and has no
answer is running, or its Client is gone, or the answer is owed (`Accounted`):
among the numbers that the Client has given and the page has not handled there is
one that no message around the Client has with another body (`Owed`). Stated this
way, `Owed` survives what loses or drops messages; the messages themselves, where
they are, come from `OrderInv`. `FirstDial` is where the second assumption bites:
the first connection of a page works until its `clientConnect`, whose Client has
read nothing.

The assumptions are the named `ASSUME`s of the modules: parameters have their
types, and names that must differ do.

Only model-checked: everything under fairness, which is out of the prover's reach
(`ChangeTakenUp`, `CallersReturn`, `WaitEnds`, `EventuallySaved`,
`DeadWorkersLoseDocs`, `ClosingEnds`, `RequestsSettle`, `CallersProceed`,
`EventuallySent`, `StaleIsDropped`).

## What is not modelled, and why

Most of the repository is user interface, SQL, routes and the engine that
evaluates formulas: code whose difficulty is in functions of data, not in orders
of steps. What is modelled is a small part of the lines, and most of what is
concurrent and stateful on the servers. Within it:

- The store is consistent: S3 has been so for years, and the code says that it
  relies on it. So the retries of reads in `ExternalStorage` are left out.
- Forks, `replace`, `deleteDoc` and labels in `HostedStorage`: a document that is
  gone needs the home database's word for it.
- A lock that expires under a live but slow holder; the checksums that
  `assignDocWorker` writes back, which would need `DocWorkerMap` and
  `HostedStorage` composed over a shared checksum.
- `setWorkerLoad`: it biases a choice that the model makes freely.
- Two workers that touch one inventory at once, a prune cut short in S3, labels,
  the closing of the pruner.
- Several pages of one user, the `clientConnect` that is repeated after 250 ms,
  authentication, the memory pool that bounds what is being sent.
- A new `ActiveDoc` that loads the list of webhooks before the old one's loop has
  recorded its last batch; statistics and delays between attempts.
- `clear()` of the cached values, at the end of the process.
- `HostedMetadataManager`: a timer and a batch in one process, with two losses
  that are listed under `hazards`.
- Data: the engine, actions, access rules, attachments, the home database. Jobs,
  access tokens, sessions: thin layers over libraries.

## Plan

What would add most, in order:

1. `DocWorkerMap` and `HostedStorage` composed, so that the owner of a document is
   the worker the map names, with the checksum both write.
2. `deleteDoc`, forks and `replace` in `HostedStorage`; `HostedMetadataManager`.
3. The opening and muting of documents (`DocManager` over `AsyncCreate`).
