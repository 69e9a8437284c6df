--------------------------- MODULE HostedStorage ---------------------------
(***************************************************************************)
(* One hosted document, kept in external storage (S3) and worked on by one *)
(* doc worker at a time: HostedStorageManager.ts over the                  *)
(* ChecksummedExternalStorage of ExternalStorage.ts.  A worker claims the  *)
(* document, takes its own old copy of it or fetches the latest version,   *)
(* applies edits, pushes versions, and closes.  What it knows is spread    *)
(* over its disk (the copy and localHash), its memory (latestVersion and   *)
(* what is pending), and Redis (sharedHash); a crash, a failed call or an  *)
(* expired key can leave any of them behind the others.                    *)
(*                                                                         *)
(* The content of the document is the set of edits in it, and a checksum   *)
(* is the content itself; a version id is an index in the store.  When     *)
(* operations run is the business of KeyedOps, and who owns the document   *)
(* that of DocWorkerMap: here, the owner changes when it has closed the    *)
(* document and released it, or has died.                                  *)
(***************************************************************************)
EXTENDS Integers, Sequences

CONSTANTS
    Workers,      \* doc workers
    Edits,        \* the edits that users make
    Nothing,      \* no file, no checksum, no worker
    MaxVersions,  \* bound: how many versions the store may get
    EarlyCrashes, \* a worker may crash before the first version is stored
    UnsharedFaults \* a push may be cut short, by a crash or by an error of Redis,
                   \* when its version is in the store and its checksum not in Redis

ASSUME NothingAssumption == Nothing \notin Workers /\ \A c \in SUBSET Edits : c # Nothing
ASSUME BoundAssumption == MaxVersions \in Nat \ {0}
ASSUME FaultsAssumption == EarlyCrashes \in BOOLEAN /\ UnsharedFaults \in BOOLEAN

Contents == SUBSET Edits

VARIABLES
    store,     \* the versions of the document in external storage, oldest first
    md5,       \* sharedHash in Redis: the content expected in the store
    owner,     \* the worker the document is assigned to
    up,        \* the workers whose process runs
    disk,      \* per worker, the local copy of the document
    localHash, \* per worker, the content last known to be in the store
    latest,    \* per worker, in memory: latestVersion, 0 if not known
    doc,       \* per worker: "closed"; "wiping", "wiped", "fetching" or "moved" while
               \* it is claimed; "open" or "closing"
    changed,   \* the workers with a push scheduled
    push,      \* per worker, the push in progress: its step and its backup
    saved      \* ghost: edits that some flush has reported to be backed up

externalVars == <<store, md5, owner>>
diskVars == <<disk, localHash>>
memoryVars == <<latest, doc, changed, push>>
vars == <<externalVars, up, diskVars, memoryVars, saved>>

NoPush == [step |-> "idle", backup |-> Nothing]
Pushes == [step : {"idle", "backed up", "uploaded", "recorded"},
           backup : Contents \cup {Nothing}]

TypeOK ==
    /\ store \in Seq(Contents) /\ Len(store) <= MaxVersions
    /\ md5 \in Contents \cup {Nothing}
    /\ owner \in Workers \cup {Nothing}
    /\ up \subseteq Workers
    /\ disk \in [Workers -> Contents \cup {Nothing}]
    /\ localHash \in [Workers -> Contents \cup {Nothing}]
    /\ latest \in [Workers -> 0..MaxVersions]
    /\ doc \in [Workers -> {"closed", "wiping", "wiped", "fetching", "moved",
                            "open", "closing"}]
    /\ changed \subseteq Workers
    /\ push \in [Workers -> Pushes]
    /\ saved \in Contents

Init ==
    /\ store = <<>>
    /\ md5 = Nothing
    /\ owner = Nothing
    /\ up = Workers
    /\ disk = [w \in Workers |-> Nothing]
    /\ localHash = [w \in Workers |-> Nothing]
    /\ latest = [w \in Workers |-> 0]
    /\ doc = [w \in Workers |-> "closed"]
    /\ changed = {}
    /\ push = [w \in Workers |-> NoPush]
    /\ saved = {}

\* _uploads.hasPendingOperation, on which isAllSaved relies
Pending(w) == w \in changed \/ push[w].step # "idle"

\* The content of the latest version
Latest == store[Len(store)]

\* The id of the latest version; a variant that expects the version to come.
NextId == Len(store) + 1
LatestId == Len(store)

-----------------------------------------------------------------------------
\* Who owns the document (DocWorkerMap)

Assign(w) ==
    /\ owner = Nothing
    /\ w \in up
    /\ owner' = w
    /\ UNCHANGED <<store, md5, up, diskVars, memoryVars, saved>>

\* A variant that does not wait for the document to be closed.
ReleaseWhileOpen(w) ==
    /\ owner = w
    /\ w \in up
    /\ owner' = Nothing
    /\ UNCHANGED <<store, md5, up, diskVars, memoryVars, saved>>
Release(w) ==
    /\ owner = w
    /\ w \in up
    /\ doc[w] = "closed"
    /\ owner' = Nothing
    /\ UNCHANGED <<store, md5, up, diskVars, memoryVars, saved>>

RemoveDead(w) ==
    /\ owner = w
    /\ w \notin up
    /\ owner' = Nothing
    /\ UNCHANGED <<store, md5, up, diskVars, memoryVars, saved>>

-----------------------------------------------------------------------------
\* Opening: prepareLocalDoc and _claimDocument

\* The local copy is good enough.  With no checksum to compare with, it is if
\* the store has nothing, or nothing but what this process put or got there.
\* A variant does not ask the store for its latest version.
AcceptsUnchecked(w) == md5 = Nothing \/ disk[w] = md5
Accepts(w) ==
    IF md5 = Nothing THEN store = <<>> \/ latest[w] = LatestId
                     ELSE disk[w] = md5

ClaimsDoc(w) == w \in up /\ owner = w /\ doc[w] = "closed"

KeepLocal(w) ==
    /\ ClaimsDoc(w)
    /\ disk[w] # Nothing
    /\ Accepts(w)
    /\ doc' = [doc EXCEPT ![w] = "open"]
    /\ UNCHANGED <<externalVars, up, diskVars, latest, changed, push, saved>>

\* _wipeCache, then on to _fetchFromS3: the file ...
WipesFile(w) ==
    /\ ClaimsDoc(w)
    /\ disk[w] # Nothing
    /\ ~Accepts(w)
    /\ disk' = [disk EXCEPT ![w] = Nothing]
    /\ doc' = [doc EXCEPT ![w] = "wiping"]
    /\ UNCHANGED <<externalVars, up, localHash, latest, changed, push, saved>>

\* ... its checksum ...
WipesHash(w) ==
    /\ doc[w] = "wiping"
    /\ localHash' = [localHash EXCEPT ![w] = Nothing]
    /\ doc' = [doc EXCEPT ![w] = "wiped"]
    /\ UNCHANGED <<externalVars, up, disk, latest, changed, push, saved>>

\* ... and what the process knows of it.
WipesLatest(w) ==
    /\ doc[w] = "wiped"
    /\ latest' = [latest EXCEPT ![w] = 0]
    /\ doc' = [doc EXCEPT ![w] = "fetching"]
    /\ UNCHANGED <<externalVars, up, diskVars, changed, push, saved>>

StartFetch(w) ==
    /\ ClaimsDoc(w)
    /\ disk[w] = Nothing
    /\ doc' = [doc EXCEPT ![w] = "fetching"]
    /\ UNCHANGED <<externalVars, up, diskVars, latest, changed, push, saved>>

\* downloadTo moves the file into place first ...
FetchMoves(w) ==
    /\ doc[w] = "fetching"
    /\ store # <<>>
    /\ disk' = [disk EXCEPT ![w] = Latest]
    /\ doc' = [doc EXCEPT ![w] = "moved"]
    /\ UNCHANGED <<externalVars, up, localHash, latest, changed, push, saved>>

\* ... and then records what it is.
FetchRecords(w) ==
    /\ doc[w] = "moved"
    /\ latest' = [latest EXCEPT ![w] = LatestId]
    /\ localHash' = [localHash EXCEPT ![w] = disk[w]]
    /\ doc' = [doc EXCEPT ![w] = "open"]
    /\ UNCHANGED <<externalVars, up, disk, changed, push, saved>>

\* A claim that fails leaves what it has done so far, and is made anew when the
\* document is next opened.  When it is the local checksum that cannot be
\* written, the process knows the version already, and a repeated download finds
\* the file in its way.
ClaimFails(w) ==
    /\ \/ doc[w] \in {"wiping", "wiped", "fetching"} /\ UNCHANGED latest
       \/ doc[w] = "moved" /\ latest' = [latest EXCEPT ![w] = LatestId]
    /\ doc' = [doc EXCEPT ![w] = "closed"]
    /\ UNCHANGED <<externalVars, up, diskVars, changed, push, saved>>

\* The store has no such document: ActiveDoc creates it, and marks it as changed.
CreateDoc(w) ==
    /\ doc[w] = "fetching"
    /\ store = <<>>
    /\ disk' = [disk EXCEPT ![w] = {}]
    /\ changed' = changed \cup {w}
    /\ doc' = [doc EXCEPT ![w] = "open"]
    /\ UNCHANGED <<externalVars, up, localHash, latest, push, saved>>

-----------------------------------------------------------------------------
\* Editing and closing

\* An edit, or an action that has no effect; both end in markAsChanged.
Edit(w, e) ==
    /\ doc[w] = "open"
    /\ disk' = [disk EXCEPT ![w] = @ \cup {e}]
    /\ changed' = changed \cup {w}
    /\ UNCHANGED <<externalVars, up, localHash, latest, doc, push, saved>>

Close(w) ==
    /\ doc[w] = "open"
    /\ doc' = [doc EXCEPT ![w] = "closing"]
    /\ UNCHANGED <<externalVars, up, diskVars, latest, changed, push, saved>>

\* flushDoc returns, for a backup or at the end of closeDocument.
FlushReturns(w) ==
    /\ doc[w] \in {"open", "closing"}
    /\ ~Pending(w)
    /\ saved' = saved \cup disk[w]
    /\ doc' = IF doc[w] = "closing" THEN [doc EXCEPT ![w] = "closed"] ELSE doc
    /\ UNCHANGED <<externalVars, up, diskVars, latest, changed, push>>

-----------------------------------------------------------------------------
\* Pushing: _pushToS3 and ChecksummedExternalStorage.upload

\* What a push begins with; a variant that records the checksum before the
\* upload.
RecordsFirst(w) ==
    /\ push' = [push EXCEPT ![w] = [step |-> "backed up", backup |-> disk[w]]]
    /\ localHash' = [localHash EXCEPT ![w] = disk[w]]
TakesBackup(w) ==
    /\ push' = [push EXCEPT ![w] = [step |-> "backed up", backup |-> disk[w]]]
    /\ UNCHANGED localHash

PushStarts(w) ==
    /\ w \in changed
    /\ push[w].step = "idle"
    /\ changed' = changed \ {w}
    /\ TakesBackup(w)
    /\ UNCHANGED <<externalVars, up, disk, latest, doc, saved>>

\* localHash says that the content is in the store already.
PushUnchanged(w) ==
    /\ push[w].step = "backed up"
    /\ push[w].backup = localHash[w]
    /\ push' = [push EXCEPT ![w] = NoPush]
    /\ UNCHANGED <<externalVars, up, diskVars, latest, doc, changed, saved>>

\* A new version in the store.
PushUploads(w) ==
    /\ push[w].step = "backed up"
    /\ push[w].backup # localHash[w]
    /\ Len(store) < MaxVersions
    /\ store' = Append(store, push[w].backup)
    /\ push' = [push EXCEPT ![w].step = "uploaded"]
    /\ UNCHANGED <<md5, owner, up, diskVars, latest, doc, changed, saved>>

\* latestVersion.save and localHash.save
PushRecords(w) ==
    /\ push[w].step = "uploaded"
    /\ latest' = [latest EXCEPT ![w] = LatestId]
    /\ localHash' = [localHash EXCEPT ![w] = push[w].backup]
    /\ push' = [push EXCEPT ![w].step = "recorded"]
    /\ UNCHANGED <<externalVars, up, disk, doc, changed, saved>>

\* sharedHash.save: the last step.
PushShares(w) ==
    /\ push[w].step = "recorded"
    /\ md5' = push[w].backup
    /\ push' = [push EXCEPT ![w] = NoPush]
    /\ UNCHANGED <<store, owner, up, diskVars, latest, doc, changed, saved>>

\* Any step fails, an upload with or without having had its effect, the writing
\* of the local checksum with the version known; the push is retried.
PushFails(w) ==
    /\ push[w].step # "idle"
    /\ push[w].step = "recorded" => UnsharedFaults
    /\ \/ UNCHANGED latest
       \/ push[w].step = "uploaded" /\ latest' = [latest EXCEPT ![w] = LatestId]
    /\ push' = [push EXCEPT ![w] = NoPush]
    /\ changed' = changed \cup {w}
    /\ UNCHANGED <<externalVars, up, diskVars, doc, saved>>

-----------------------------------------------------------------------------
\* The process of w dies, and starts again later with the same disk.
Crash(w) ==
    /\ w \in up
    /\ owner = w /\ store = <<>> => EarlyCrashes
    /\ owner = w /\ store # <<>> /\ md5 \notin {Nothing, Latest} => UnsharedFaults
    /\ up' = up \ {w}
    /\ latest' = [latest EXCEPT ![w] = 0]
    /\ doc' = [doc EXCEPT ![w] = "closed"]
    /\ changed' = changed \ {w}
    /\ push' = [push EXCEPT ![w] = NoPush]
    /\ UNCHANGED <<externalVars, diskVars, saved>>

Restart(w) ==
    /\ w \notin up
    /\ up' = up \cup {w}
    /\ UNCHANGED <<externalVars, diskVars, memoryVars, saved>>

\* CHECKSUM_TTL_MSEC
ChecksumExpires ==
    /\ md5 # Nothing
    /\ md5' = Nothing
    /\ UNCHANGED <<store, owner, up, diskVars, memoryVars, saved>>

Next ==
    \/ \E w \in Workers :
          \/ Assign(w) \/ Release(w) \/ RemoveDead(w)
          \/ KeepLocal(w) \/ WipesFile(w) \/ WipesHash(w) \/ WipesLatest(w)
          \/ StartFetch(w) \/ FetchMoves(w) \/ FetchRecords(w) \/ CreateDoc(w)
          \/ ClaimFails(w)
          \/ (\E e \in Edits : Edit(w, e)) \/ Close(w) \/ FlushReturns(w)
          \/ PushStarts(w) \/ PushUnchanged(w) \/ PushUploads(w)
          \/ PushRecords(w) \/ PushShares(w) \/ PushFails(w)
          \/ Crash(w) \/ Restart(w)
    \/ ChecksumExpires

Spec == Init /\ [][Next]_vars

-----------------------------------------------------------------------------
\* Properties

\* Once a flush has reported an edit as backed up, the document is never open
\* anywhere without it, through crashes, moves to other workers with copies of
\* their own, failed pushes and expired checksums.
NoSavedEditLost == \A w \in Workers : doc[w] = "open" => saved \subseteq disk[w]

\* What a flush has reported as backed up is in the latest version in the
\* store, which no later push has replaced by one without it.  "Make sure
\* document is backed up to s3."
SavedReachedStore == saved # {} => store # <<>> /\ saved \subseteq Latest

Stored(c) == \E i \in DOMAIN store : store[i] = c

\* A checksum, in Redis or on a disk, is only ever that of a version in the
\* store: a worker that trusts it, to keep its copy or to skip a push, trusts
\* something that can be fetched.
ChecksumsNameVersions ==
    /\ md5 # Nothing => Stored(md5)
    /\ \A w \in Workers : localHash[w] # Nothing => Stored(localHash[w])

\* "S3 is the canonical version": a document that is open has all that the
\* latest version in the store has.
OpensCanonical ==
    \A w \in Workers : doc[w] = "open" /\ store # <<>> => Latest \subseteq disk[w]

\* What the storage manager promises: the document is open with one worker at a
\* time, and every copy opened has all that a flush has reported before.
opened == [w \in Workers |-> IF doc[w] \in {"open", "closing"} THEN disk[w] ELSE Nothing]
Durable == INSTANCE DurableDocument WITH open <- opened
ImplementsDurable == Durable!Spec
=============================================================================
