------------------------- MODULE SnapshotInventory -------------------------
(***************************************************************************)
(* The inventory of the versions of one document: DocSnapshotInventory and *)
(* DocSnapshotPruner of app/server/lib/DocSnapshots.ts, with the calls     *)
(* that HostedStorageManager.ts and the snapshot endpoints of DocApi.ts    *)
(* make to them.  The truth is in the document store.  The list of         *)
(* versions is kept in a file of the worker, and copied to the metadata    *)
(* store when it is flushed; it is cross-checked against the last version  *)
(* that the process knows to be in the store, and made again from the      *)
(* store when it does not start with it.                                   *)
(*                                                                         *)
(* A version is a number, in order of upload, and a list, newest first, is *)
(* the set of its versions.  One worker; its process may crash, any call   *)
(* may fail, and the document may be opened again with the files the       *)
(* worker had, or without them (as on another worker).  The shutdown of    *)
(* the manager, which refuses prunes, is left out.                         *)
(***************************************************************************)
EXTENDS Integers, FiniteSets

CONSTANTS
    Nothing,      \* no file
    MaxVersions,  \* versions uploaded
    MaxFaults,    \* crashes, and calls that fail
    MaxRequests,  \* calls of the snapshot endpoints
    Windows       \* what a run lets go wrong where the code has no remedy

\* "kept": a process starts with a list that lacks the latest version;
\* "removed": a removal is cut short before the list without the versions is
\*     in the metadata store;
\* "given": a client asks to remove the current version.
ASSUME WindowsAssumption == Windows \subseteq {"kept", "removed", "given"}
ASSUME BoundsAssumption ==
    /\ MaxVersions \in Nat /\ MaxFaults \in Nat /\ MaxRequests \in Nat

Versions == 1..MaxVersions

ASSUME NothingAssumption == \A list \in SUBSET Versions : list # Nothing

VARIABLES
    versions,   \* versions in the document store
    last,       \* number of versions uploaded so far
    meta,       \* the list in the metadata store
    file,       \* the list on the worker's disk
    needFlush,  \* _needFlush
    latest,     \* _latestVersions, 0 when not known
    open,       \* the document is open
    closing,    \* closeDocument waits in flushDoc
    pending,    \* a push is scheduled
    synced,     \* the content of the document is that of the last upload
    op,         \* what is done under the mutex
    wanted,     \* a prune is scheduled
    unanswered, \* ghost: versions whose upload has been reported as failed
    remover,    \* what the pruner and a call of the API are about to remove
    faults, requests  \* for the bounds

storeVars == <<versions, last, unanswered, meta>>
diskVars == <<file, synced>>
docVars == <<open, closing, pending>>
removerVars == <<wanted, remover>>
boundVars == <<faults, requests>>
vars == <<storeVars, diskVars, needFlush, latest, docVars, op, removerVars, boundVars>>

Removers == {"pruner", "api"}
Idle == [step |-> "idle", ids |-> {}]
NoOp == [by |-> "nobody", step |-> "none", expect |-> 0, list |-> {}, new |-> 0]

\* The first of a list, 0 if it is empty.
First(list) == IF list = {} THEN 0 ELSE CHOOSE v \in list : \A u \in list : u <= v

\* isLocked, isSaved and isAllSaved
Free == op = NoOp
IsSaved == ~needFlush /\ Free
AllSaved == ~pending /\ IsSaved

\* What a crash would leave behind of a removal.
NothingGone ==
    /\ file # Nothing => file \subseteq versions
    /\ meta # Nothing => meta \subseteq versions

\* The document has just been created, with an inventory (prepareToCreateDoc),
\* or copied, without one (addToStorage).
Init ==
    /\ versions = {} /\ last = 0 /\ unanswered = {} /\ meta = Nothing
    /\ file \in {Nothing, {}} /\ needFlush = (file = {})
    /\ latest = 0 /\ open = TRUE /\ closing = FALSE
    /\ pending = TRUE /\ synced = FALSE
    /\ op = NoOp
    /\ wanted = (file = {}) /\ remover = [r \in Removers |-> Idle]
    /\ faults = 0 /\ requests = 0

Begins(by, step, expect) ==
    /\ Free
    /\ op' = [NoOp EXCEPT !.by = by, !.step = step, !.expect = expect]

-----------------------------------------------------------------------------
\* _getSnapshots, under the mutex: the list in the file, or else the one in the
\* metadata store, or else one made again from the store.

\* A list starts with the version expected; a variant does not look.
UsableAlways(list, expect) == list # Nothing
Usable(list, expect) ==
    /\ list # Nothing
    /\ expect = 0 \/ First(list) = expect

\* A variant puts the version expected in the list.
FoundExpected(list) == op' = [op EXCEPT !.step = "have", !.list = list \cup {op.expect}]
Found(list) == op' = [op EXCEPT !.step = "have", !.list = list]

FindInFile ==
    /\ op.step = "look"
    /\ Usable(file, op.expect)
    /\ Found(file)
    /\ UNCHANGED <<storeVars, diskVars, needFlush, latest, docVars, removerVars, boundVars>>

Downloads == op.step = "look" /\ ~Usable(file, op.expect) /\ meta # Nothing

\* The file is removed, and then downloaded, whether what comes can be used or
\* not.  Cut short, it leaves no file.
FindInMeta ==
    /\ Downloads
    /\ file' = meta
    /\ IF Usable(meta, op.expect) THEN Found(meta) ELSE op' = [op EXCEPT !.step = "rebuild"]
    /\ UNCHANGED <<storeVars, synced, needFlush, latest, docVars, removerVars, boundVars>>

FindNothing ==
    /\ op.step = "look"
    /\ ~Usable(file, op.expect)
    /\ meta = Nothing
    /\ op' = [op EXCEPT !.step = "rebuild"]
    /\ UNCHANGED <<storeVars, diskVars, needFlush, latest, docVars, removerVars, boundVars>>

\* ChecksummedExternalStorage.versions: what the store lists is not the latest
\* version that this process knows of.
Inconsistent == latest # 0 /\ First(versions) # latest

Reconstruct ==
    /\ op.step = "rebuild"
    /\ ~Inconsistent
    /\ Found(versions)
    /\ file' = versions
    /\ needFlush' = TRUE
    /\ UNCHANGED <<storeVars, synced, latest, docVars, removerVars, boundVars>>

\* _flush, the last thing done under the mutex; a variant does not record it.
FlushesAgain ==
    /\ meta' = IF needFlush THEN file ELSE meta
    /\ UNCHANGED needFlush
Flushes ==
    /\ meta' = IF needFlush THEN file ELSE meta
    /\ needFlush' = FALSE

\* What there is to flush has been lost in a download.
NoFile == needFlush /\ file = Nothing

Flush ==
    /\ op.step = "flush"
    /\ ~NoFile
    /\ Flushes
    /\ op' = NoOp
    /\ remover' = [r \in Removers |-> IF r = op.by THEN Idle ELSE remover[r]]
    /\ UNCHANGED <<versions, last, unanswered, diskVars, latest, docVars, wanted, boundVars>>

-----------------------------------------------------------------------------
\* Editing, and _pushToS3 with its uploadAndAdd

Edit ==
    /\ open /\ ~closing
    /\ last < MaxVersions
    /\ pending' = TRUE
    /\ synced' = FALSE
    /\ UNCHANGED <<storeVars, file, needFlush, latest, open, closing, op, removerVars, boundVars>>

\* A push that finds the content in the store: there is no version to add.
PushUnchanged ==
    /\ pending /\ synced
    /\ Free
    /\ pending' = FALSE
    /\ UNCHANGED <<storeVars, diskVars, needFlush, latest, open, closing, op, removerVars,
                   boundVars>>

PushUploads ==
    /\ pending /\ ~synced
    /\ last < MaxVersions
    /\ Free
    /\ last' = last + 1
    /\ versions' = versions \cup {last'}
    /\ latest' = last'
    /\ synced' = TRUE
    /\ pending' = FALSE
    /\ op' = [NoOp EXCEPT !.by = "push", !.step = "look", !.expect = latest, !.new = last']
    /\ UNCHANGED <<unanswered, meta, file, needFlush, open, closing, removerVars, boundVars>>

\* The upload has had its effect and fails, or what the process knows of it has
\* been recorded and not its checksum, or the checksum and not that in Redis: the
\* push is retried.
PushUnanswered ==
    /\ faults < MaxFaults
    /\ pending /\ ~synced
    /\ last + 1 < MaxVersions
    /\ Free
    /\ last' = last + 1
    /\ versions' = versions \cup {last'}
    /\ unanswered' = unanswered \cup {last'}
    /\ \/ UNCHANGED <<latest, synced>>
       \/ latest' = last' /\ synced' \in BOOLEAN
    /\ faults' = faults + 1
    /\ UNCHANGED <<meta, file, needFlush, docVars, op, removerVars, requests>>

\* A list made again has the version already.  Either way _onInventoryChange
\* asks for a prune.
PushAdds ==
    /\ op.by = "push" /\ op.step = "have"
    /\ IF First(op.list) = op.new
       THEN UNCHANGED <<file, needFlush>>
       ELSE file' = op.list \cup {op.new} /\ needFlush' = TRUE
    /\ op' = NoOp
    /\ wanted' = TRUE
    /\ UNCHANGED <<storeVars, synced, latest, docVars, remover, boundVars>>

-----------------------------------------------------------------------------
\* Choosing what to remove: classify, and the endpoints of DocApi

Step(r, step, ids) == remover' = [remover EXCEPT ![r] = [step |-> step, ids |-> ids]]

PruneStarts ==
    /\ wanted
    /\ remover["pruner"] = Idle
    /\ Begins("pruner", "look", 0)
    /\ wanted' = FALSE
    /\ Step("pruner", "listing", {})
    /\ UNCHANGED <<storeVars, diskVars, needFlush, latest, docVars, boundVars>>

\* Which versions are redundant depends on their times; the first never is.
PruneChooses ==
    /\ op.by = "pruner" /\ op.step = "have"
    /\ remover["pruner"].step = "listing"
    /\ \E ids \in SUBSET (op.list \ {First(op.list)}) : Step("pruner", "chosen", ids)
    /\ op' = NoOp
    /\ UNCHANGED <<storeVars, diskVars, needFlush, latest, docVars, wanted, boundVars>>

Requests(step, ids) ==
    /\ open /\ ~closing
    /\ requests < MaxRequests
    /\ remover["api"] = Idle
    /\ requests' = requests + 1
    /\ Step("api", step, ids)

\* GET snapshots
ApiReads ==
    /\ Requests("reading", {})
    /\ Begins("api", "look", latest)
    /\ UNCHANGED <<storeVars, diskVars, needFlush, latest, docVars, wanted, faults>>

\* select = "past": all versions in the store but the first.  A variant forgets
\* to leave that out.
PastAll == versions
Past == versions \ {First(versions)}
ApiRemovesPast ==
    /\ ~Inconsistent
    /\ Requests("chosen", Past)
    /\ UNCHANGED <<storeVars, diskVars, needFlush, latest, docVars, op, wanted, faults>>

\* snapshotIds
ApiRemovesGiven ==
    /\ \E ids \in SUBSET versions :
          /\ last \in ids => "given" \in Windows
          /\ Requests("chosen", ids)
    /\ UNCHANGED <<storeVars, diskVars, needFlush, latest, docVars, op, wanted, faults>>

\* select = "unlisted": the versions in the store now ...
ApiListsStore ==
    /\ ~Inconsistent
    /\ Requests("comparing", versions)
    /\ UNCHANGED <<storeVars, diskVars, needFlush, latest, docVars, op, wanted, faults>>

\* ... that are not in the list read next.
ApiLists ==
    /\ remover["api"].step = "comparing"
    /\ Begins("api", "look", latest)
    /\ Step("api", "listing", remover["api"].ids)
    /\ UNCHANGED <<storeVars, diskVars, needFlush, latest, docVars, wanted, boundVars>>

ApiChooses ==
    /\ op.by = "api" /\ op.step = "have"
    /\ \/ /\ remover["api"].step = "listing"
          /\ Step("api", "chosen", remover["api"].ids \ op.list)
       \/ /\ remover["api"].step = "reading"
          /\ Step("api", "idle", {})
    /\ op' = NoOp
    /\ UNCHANGED <<storeVars, diskVars, needFlush, latest, docVars, wanted, boundVars>>

-----------------------------------------------------------------------------
\* remove

RemoveStarts(r) ==
    /\ remover[r].step = "chosen"
    /\ Begins(r, "look", 0)
    /\ UNCHANGED <<storeVars, diskVars, needFlush, latest, docVars, removerVars, boundVars>>

Removing(r) == op.by = r /\ op.step = "have" /\ remover[r].step = "chosen"

RemoveNone(r) ==
    /\ Removing(r)
    /\ remover[r].ids = {}
    /\ op' = [op EXCEPT !.step = "flush"]
    /\ UNCHANGED <<storeVars, diskVars, needFlush, latest, docVars, removerVars, boundVars>>

\* ChecksummedExternalStorage.remove refuses the latest version it knows of.
RemoveRefused(r) ==
    /\ Removing(r)
    /\ latest \in remover[r].ids
    /\ op' = NoOp
    /\ Step(r, "idle", {})
    /\ UNCHANGED <<storeVars, diskVars, needFlush, latest, docVars, wanted, boundVars>>

\* What is left of the list that has been read; in a variant, all of it.
LeftAll(ids) == op.list
Left(ids) == op.list \ ids

RemoveFromStore(r) ==
    LET ids == remover[r].ids
    IN  /\ Removing(r)
        /\ ids # {} /\ latest \notin ids
        /\ versions' = versions \ ids
        /\ op' = [op EXCEPT !.step = "removed", !.list = Left(ids)]
        /\ UNCHANGED <<last, unanswered, meta, diskVars, needFlush, latest, docVars, removerVars,
                       boundVars>>

RemoveFromList ==
    /\ op.step = "removed"
    /\ file' = op.list
    /\ needFlush' = TRUE
    /\ op' = [op EXCEPT !.step = "flush"]
    /\ UNCHANGED <<storeVars, synced, latest, docVars, removerVars, boundVars>>

-----------------------------------------------------------------------------
\* Faults, closing and opening

\* What is left of the file when an operation is cut short
FileLeft == file' = file \/ (Downloads /\ file' = Nothing)

\* The step that is due cannot but fail.
Stuck == (op.step = "rebuild" /\ Inconsistent) \/ (op.step = "flush" /\ NoFile)

\* A call made under the mutex fails, of itself or since the store does not
\* become consistent or the file is gone.  A push is retried, a prune is not; a
\* failing flush makes closeDocument fail, with the document closed all the same.
StepFails ==
    /\ ~Free
    /\ \/ /\ faults < MaxFaults
          /\ NothingGone \/ "removed" \in Windows
          /\ faults' = faults + 1
       \/ Stuck /\ UNCHANGED faults
    /\ FileLeft
    /\ op' = NoOp
    /\ pending' = (pending \/ op.by = "push")
    /\ open' = (open /\ op.by # "close") /\ closing' = (closing /\ op.by # "close")
    /\ remover' = [r \in Removers |-> IF r = op.by THEN Idle ELSE remover[r]]
    /\ UNCHANGED <<storeVars, synced, needFlush, latest, wanted, requests>>

Crash ==
    /\ faults < MaxFaults
    /\ NothingGone \/ "removed" \in Windows
    /\ faults' = faults + 1
    /\ FileLeft
    /\ open' = FALSE /\ closing' = FALSE /\ pending' = FALSE
    /\ needFlush' = FALSE /\ latest' = 0
    /\ op' = NoOp
    /\ wanted' = FALSE /\ remover' = [r \in Removers |-> Idle]
    /\ UNCHANGED <<storeVars, synced, requests>>

Close ==
    /\ open /\ ~closing
    /\ closing' = TRUE
    /\ UNCHANGED <<storeVars, diskVars, needFlush, latest, open, pending, op, removerVars,
                   boundVars>>

\* flushDoc, once it has seen the pushes through; prepareLocalDoc calls it too,
\* before it opens a document.
CloseFlushes ==
    /\ closing \/ ~open
    /\ ~pending
    /\ needFlush
    /\ Begins("close", "flush", 0)
    /\ UNCHANGED <<storeVars, diskVars, needFlush, latest, docVars, removerVars, boundVars>>

CloseEnds ==
    /\ closing
    /\ AllSaved
    /\ closing' = FALSE /\ open' = FALSE
    /\ UNCHANGED <<storeVars, diskVars, needFlush, latest, pending, op, removerVars, boundVars>>

\* The list that will be read next has the latest version.
ListsLatest ==
    LET list == IF file # Nothing THEN file ELSE meta
    IN  list # Nothing => First(list) = last

\* The copy of the document is what Redis says, or the store has none: the
\* worker goes on with its files.
OpenKeeping ==
    /\ ~open
    /\ AllSaved
    /\ synced \/ versions = {}
    /\ ListsLatest \/ latest = last \/ "kept" \in Windows
    /\ open' = TRUE
    /\ UNCHANGED <<storeVars, diskVars, needFlush, latest, closing, pending, op, removerVars,
                   boundVars>>

\* _wipeCache, which clears the inventory, and _fetchFromS3.  A wipe that is cut
\* short has removed the document and not the list, and is not made again.
OpenFetching ==
    /\ ~open
    /\ AllSaved
    /\ versions # {}
    /\ \/ file' = Nothing /\ UNCHANGED faults
       \/ faults < MaxFaults /\ faults' = faults + 1 /\ UNCHANGED file
    /\ open' = TRUE
    /\ latest' = First(versions)
    /\ synced' = TRUE
    /\ UNCHANGED <<storeVars, needFlush, closing, pending, op, removerVars, requests>>

-----------------------------------------------------------------------------
Reads == FindInFile \/ FindInMeta \/ FindNothing \/ Reconstruct
Pushes == PushUnchanged \/ PushUploads \/ PushUnanswered \/ PushAdds
Prunes == PruneStarts \/ PruneChooses
Calls == ApiReads \/ ApiRemovesPast \/ ApiRemovesGiven \/ ApiListsStore
Removals ==
    \/ ApiLists \/ ApiChooses
    \/ \E r \in Removers :
          RemoveStarts(r) \/ RemoveNone(r) \/ RemoveRefused(r) \/ RemoveFromStore(r)
    \/ RemoveFromList

Next ==
    \/ Reads \/ Flush \/ Edit \/ Pushes \/ Prunes \/ Calls \/ Removals
    \/ StepFails \/ Crash \/ Close \/ CloseFlushes \/ CloseEnds \/ OpenKeeping \/ OpenFetching

Spec == Init /\ [][Next]_vars

\* The process goes on with what it has begun, and KeyedOps runs what is due.
Progress ==
    \/ Reads \/ Flush \/ PushUnchanged \/ PushUploads \/ PushAdds \/ Prunes \/ Removals
    \/ (Stuck /\ StepFails) \/ CloseFlushes \/ CloseEnds

FairSpec == Spec /\ WF_vars(Progress) /\ WF_vars(CloseEnds)

-----------------------------------------------------------------------------
\* Properties

Lists == (SUBSET Versions) \cup {Nothing}
Ops == [by : Removers \cup {"nobody", "push", "close"},
        step : {"none", "look", "rebuild", "have", "removed", "flush"},
        expect : 0..MaxVersions, list : SUBSET Versions, new : 0..MaxVersions]
RemoverStates == [step : {"idle", "reading", "comparing", "listing", "chosen"},
                  ids : SUBSET Versions]

\* The variables have the values the code gives them.
TypeOK ==
    /\ versions \subseteq Versions /\ last \in 0..MaxVersions /\ unanswered \subseteq Versions
    /\ meta \in Lists /\ file \in Lists
    /\ latest \in 0..MaxVersions
    /\ needFlush \in BOOLEAN /\ open \in BOOLEAN /\ closing \in BOOLEAN
    /\ pending \in BOOLEAN /\ synced \in BOOLEAN /\ wanted \in BOOLEAN
    /\ op \in Ops
    /\ remover \in [Removers -> RemoverStates]
    /\ faults \in 0..MaxFaults /\ requests \in 0..MaxRequests

\* "Removing most recent version by id is not something we should be doing":
\* whatever is pruned or removed, from whatever list, the current version stays
\* in the store, once its upload has returned.
CurrentKept == last # 0 => last \in versions \cup unanswered

\* The versions that an upload has returned
Known == versions \ unanswered

\* A list that starts with the current version lacks none that an upload has
\* returned: a version whose addition failed or was lost in a crash is found
\* again by the cross-check, and no removal undoes an addition.
NothingMissed ==
    last # 0 /\ file # Nothing /\ First(file) = last => Known \subseteq file

\* Once all is reported saved, the list in the metadata store, which the next
\* worker gets, has no version that is gone, and if it has the current one
\* it has all.
SavedIsTrue ==
    AllSaved /\ meta # Nothing =>
        /\ meta \subseteq versions
        /\ last # 0 /\ First(meta) = last => Known \subseteq meta

\* closeDocument returns, with pushes retried, prunes going on, and lists that
\* somebody's reading has left to be flushed.
ClosingEnds == closing ~> ~closing
=============================================================================
