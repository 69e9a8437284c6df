------------------------ MODULE HostedStorage_proofs ------------------------
(***************************************************************************)
(* Proofs about HostedStorage, for any workers, edits and number of        *)
(* versions.  What needs no push to be cut short between its upload and    *)
(* the sharing of its checksum is proved without that assumption.          *)
(***************************************************************************)
EXTENDS HostedStorage, TLAPS

USE NothingAssumption, BoundAssumption, FaultsAssumption
    DEF NothingAssumption, BoundAssumption, FaultsAssumption

Live(w) == doc[w] \in {"open", "closing"}

\* Only the owner works on the document, and only while it is up; only a
\* document that is open or closing has something to push.
Owned ==
    \A w \in Workers : /\ doc[w] # "closed" => owner = w /\ w \in up
                       /\ Pending(w) => Live(w)

\* A worker has a file once it has fetched or created one.
HasFile == \A w \in Workers : Live(w) \/ doc[w] = "moved" => disk[w] # Nothing

\* A push in progress has a backup.
HasBackup == \A w \in Workers : push[w].step # "idle" => push[w].backup # Nothing

\* What has been uploaded or fetched is the latest version.
InProgress ==
    \A w \in Workers :
        /\ push[w].step \in {"uploaded", "recorded"} => store # <<>> /\ push[w].backup = Latest
        /\ doc[w] = "moved" => store # <<>> /\ disk[w] = Latest

BasicInv == /\ TypeOK /\ Owned /\ HasFile /\ HasBackup /\ InProgress
            /\ ChecksumsNameVersions
-----------------------------------------------------------------------------
\* The latest version of a store that is not empty.
LEMMA LatestFacts ==
    ASSUME TypeOK, store # <<>>
    PROVE  /\ Len(store) \in DOMAIN store
           /\ Latest \in Contents
           /\ Stored(Latest)
  <1>1. store \in Seq(Contents)
    BY DEF TypeOK
  <1>2. Len(store) \in DOMAIN store
    BY <1>1
  <1>3. Latest \in Contents
    BY <1>1, <1>2 DEF Latest
  <1> QED BY <1>2, <1>3 DEF Latest, Stored

\* A new version leaves the earlier ones as they are.
LEMMA AppendFacts ==
    ASSUME TypeOK, NEW c \in Contents, store' = Append(store, c)
    PROVE  /\ store' \in Seq(Contents) /\ store' # <<>>
           /\ Len(store') = Len(store) + 1
           /\ Len(store) < MaxVersions => Len(store') <= MaxVersions
           /\ DOMAIN store' = DOMAIN store \cup {Len(store) + 1}
           /\ Latest' = c
           /\ \A i \in DOMAIN store : store'[i] = store[i]
           /\ \A b : Stored(b) => Stored(b)'
           /\ Stored(c)'
  <1>1. store \in Seq(Contents)
    BY DEF TypeOK
  <1>2. /\ store' \in Seq(Contents) /\ store' # <<>>
        /\ Len(store') = Len(store) + 1
        /\ DOMAIN store' = DOMAIN store \cup {Len(store) + 1}
        /\ store'[Len(store) + 1] = c
        /\ \A i \in DOMAIN store : store'[i] = store[i]
    BY <1>1
  <1>3. Latest' = c
    BY <1>2 DEF Latest
  <1>4. (\A b : Stored(b) => Stored(b)') /\ Stored(c)'
    BY <1>2 DEF Stored
  <1>5. Len(store) < MaxVersions => Len(store') <= MaxVersions
    <2>1. Len(store) \in Nat
      BY <1>1
    <2> QED BY <1>2, <2>1
  <1> QED BY <1>2, <1>3, <1>4, <1>5

\* Members of the types that steps assign.
LEMMA TypeFacts ==
    ASSUME TypeOK
    PROVE  /\ 0 \in 0..MaxVersions /\ LatestId \in 0..MaxVersions
           /\ NoPush \in Pushes /\ NoPush.step = "idle" /\ NoPush.backup = Nothing
           /\ \A c \in Contents : c # Nothing
  <1>1. Len(store) \in Nat /\ Len(store) <= MaxVersions
    BY DEF TypeOK
  <1>2. 0 \in 0..MaxVersions /\ LatestId \in 0..MaxVersions
    BY <1>1 DEF LatestId
  <1>3. NoPush \in Pushes /\ NoPush.step = "idle" /\ NoPush.backup = Nothing
    BY DEF NoPush, Pushes
  <1> QED BY <1>2, <1>3 DEF Contents

\* The steps of a push other than its start and its end change its step alone.
LEMMA StepOfPush ==
    ASSUME TypeOK, NEW w \in Workers,
           NEW s \in {"idle", "backed up", "uploaded", "recorded"},
           push' = [push EXCEPT ![w].step = s]
    PROVE  /\ push' \in [Workers -> Pushes]
           /\ push'[w].step = s /\ push'[w].backup = push[w].backup
           /\ \A v \in Workers : v # w => push'[v] = push[v]
  BY DEF TypeOK, Pushes

LEMMA InitBasic == Init => BasicInv
  <1> SUFFICES ASSUME Init PROVE BasicInv
    OBVIOUS
  <1>1. NoPush \in Pushes /\ NoPush.step = "idle"
    BY DEF NoPush, Pushes
  <1>2. TypeOK
    BY <1>1 DEF Init, TypeOK, Contents
  <1>3. Owned /\ HasFile /\ HasBackup /\ InProgress
    BY <1>1 DEF Init, Owned, HasFile, HasBackup, InProgress, Pending, Live
  <1>4. ChecksumsNameVersions
    BY DEF Init, ChecksumsNameVersions
  <1> QED BY <1>2, <1>3, <1>4 DEF BasicInv

\* Who owns the document.
LEMMA AssignBasic ==
    ASSUME BasicInv, NEW w \in Workers, Assign(w)
    PROVE  BasicInv'
  <1> USE TypeFacts DEF BasicInv, Assign, externalVars, diskVars, memoryVars
  <1>1. TypeOK'
    BY DEF TypeOK
  <1>2. Owned'
    BY DEF TypeOK, Owned, Pending, Live
  <1>3. HasFile' /\ HasBackup'
    BY DEF TypeOK, HasFile, HasBackup, Live
  <1>4. InProgress'
    BY DEF TypeOK, InProgress, Latest
  <1>5. ChecksumsNameVersions'
    BY DEF TypeOK, ChecksumsNameVersions, Stored
  <1> QED BY <1>1, <1>2, <1>3, <1>4, <1>5

\* Release changes nothing else.
LEMMA ReleaseBasic ==
    ASSUME BasicInv, NEW w \in Workers, Release(w)
    PROVE  BasicInv'
  <1> USE TypeFacts DEF BasicInv, Release, externalVars, diskVars, memoryVars
  <1>1. TypeOK'
    BY DEF TypeOK
  <1>2. Owned'
    BY DEF TypeOK, Owned, Pending, Live
  <1>3. HasFile' /\ HasBackup'
    BY DEF TypeOK, HasFile, HasBackup, Live
  <1>4. InProgress'
    BY DEF TypeOK, InProgress, Latest
  <1>5. ChecksumsNameVersions'
    BY DEF TypeOK, ChecksumsNameVersions, Stored
  <1> QED BY <1>1, <1>2, <1>3, <1>4, <1>5

\* RemoveDead changes nothing else.
LEMMA RemoveDeadBasic ==
    ASSUME BasicInv, NEW w \in Workers, RemoveDead(w)
    PROVE  BasicInv'
  <1> USE TypeFacts DEF BasicInv, RemoveDead, externalVars, diskVars, memoryVars
  <1>1. TypeOK'
    BY DEF TypeOK
  <1>2. Owned'
    BY DEF TypeOK, Owned, Pending, Live
  <1>3. HasFile' /\ HasBackup'
    BY DEF TypeOK, HasFile, HasBackup, Live
  <1>4. InProgress'
    BY DEF TypeOK, InProgress, Latest
  <1>5. ChecksumsNameVersions'
    BY DEF TypeOK, ChecksumsNameVersions, Stored
  <1> QED BY <1>1, <1>2, <1>3, <1>4, <1>5

\* Restart changes nothing else.
LEMMA RestartBasic ==
    ASSUME BasicInv, NEW w \in Workers, Restart(w)
    PROVE  BasicInv'
  <1> USE TypeFacts DEF BasicInv, Restart, externalVars, diskVars, memoryVars
  <1>1. TypeOK'
    BY DEF TypeOK
  <1>2. Owned'
    BY DEF TypeOK, Owned, Pending, Live
  <1>3. HasFile' /\ HasBackup'
    BY DEF TypeOK, HasFile, HasBackup, Live
  <1>4. InProgress'
    BY DEF TypeOK, InProgress, Latest
  <1>5. ChecksumsNameVersions'
    BY DEF TypeOK, ChecksumsNameVersions, Stored
  <1> QED BY <1>1, <1>2, <1>3, <1>4, <1>5

\* Opening a document.
LEMMA KeepLocalBasic ==
    ASSUME BasicInv, NEW w \in Workers, KeepLocal(w)
    PROVE  BasicInv'
  <1> USE TypeFacts DEF BasicInv, KeepLocal, ClaimsDoc, externalVars, diskVars, memoryVars
  <1>1. TypeOK'
    BY DEF TypeOK
  <1>2. Owned'
    BY DEF TypeOK, Owned, Pending, Live
  <1>3. HasFile' /\ HasBackup'
    BY DEF TypeOK, HasFile, HasBackup, Live
  <1>4. InProgress'
    BY DEF TypeOK, InProgress, Latest
  <1>5. ChecksumsNameVersions'
    BY DEF TypeOK, ChecksumsNameVersions, Stored
  <1> QED BY <1>1, <1>2, <1>3, <1>4, <1>5

\* ... whose local copy is not accepted: its file is removed,
LEMMA WipesFileBasic ==
    ASSUME BasicInv, NEW w \in Workers, WipesFile(w)
    PROVE  BasicInv'
  <1> USE TypeFacts DEF BasicInv, WipesFile, ClaimsDoc, externalVars, diskVars, memoryVars
  <1>1. TypeOK'
    BY DEF TypeOK
  <1>2. Owned'
    BY DEF TypeOK, Owned, Pending, Live
  <1>3. HasFile' /\ HasBackup'
    BY DEF TypeOK, HasFile, HasBackup, Live
  <1>4. InProgress'
    BY DEF TypeOK, InProgress, Latest
  <1>5. ChecksumsNameVersions'
    BY DEF TypeOK, ChecksumsNameVersions, Stored
  <1> QED BY <1>1, <1>2, <1>3, <1>4, <1>5

\* ... then its checksum,
LEMMA WipesHashBasic ==
    ASSUME BasicInv, NEW w \in Workers, WipesHash(w)
    PROVE  BasicInv'
  <1> USE TypeFacts DEF BasicInv, WipesHash, externalVars, diskVars, memoryVars
  <1>1. TypeOK'
    BY DEF TypeOK
  <1>2. Owned'
    BY DEF TypeOK, Owned, Pending, Live
  <1>3. HasFile' /\ HasBackup'
    BY DEF TypeOK, HasFile, HasBackup, Live
  <1>4. InProgress'
    BY DEF TypeOK, InProgress, Latest
  <1>5. ChecksumsNameVersions'
    BY DEF TypeOK, ChecksumsNameVersions, Stored
  <1> QED BY <1>1, <1>2, <1>3, <1>4, <1>5

\* ... then what the process knows of it.
LEMMA WipesLatestBasic ==
    ASSUME BasicInv, NEW w \in Workers, WipesLatest(w)
    PROVE  BasicInv'
  <1> USE TypeFacts DEF BasicInv, WipesLatest, externalVars, diskVars, memoryVars
  <1>1. TypeOK'
    BY DEF TypeOK
  <1>2. Owned'
    BY DEF TypeOK, Owned, Pending, Live
  <1>3. HasFile' /\ HasBackup'
    BY DEF TypeOK, HasFile, HasBackup, Live
  <1>4. InProgress'
    BY DEF TypeOK, InProgress, Latest
  <1>5. ChecksumsNameVersions'
    BY DEF TypeOK, ChecksumsNameVersions, Stored
  <1> QED BY <1>1, <1>2, <1>3, <1>4, <1>5

\* ... or not there.
LEMMA StartFetchBasic ==
    ASSUME BasicInv, NEW w \in Workers, StartFetch(w)
    PROVE  BasicInv'
  <1> USE TypeFacts DEF BasicInv, StartFetch, ClaimsDoc, externalVars, diskVars, memoryVars
  <1>1. TypeOK'
    BY DEF TypeOK
  <1>2. Owned'
    BY DEF TypeOK, Owned, Pending, Live
  <1>3. HasFile' /\ HasBackup'
    BY DEF TypeOK, HasFile, HasBackup, Live
  <1>4. InProgress'
    BY DEF TypeOK, InProgress, Latest
  <1>5. ChecksumsNameVersions'
    BY DEF TypeOK, ChecksumsNameVersions, Stored
  <1> QED BY <1>1, <1>2, <1>3, <1>4, <1>5

\* Fetching it.
LEMMA FetchMovesBasic ==
    ASSUME BasicInv, NEW w \in Workers, FetchMoves(w)
    PROVE  BasicInv'
  <1> USE TypeFacts DEF BasicInv, FetchMoves, externalVars, diskVars, memoryVars
  <1>1. Latest \in Contents /\ Latest # Nothing
    BY LatestFacts
  <1>2. TypeOK'
    BY <1>1 DEF TypeOK
  <1>3. Owned'
    BY DEF TypeOK, Owned, Pending, Live
  <1>4. HasFile' /\ HasBackup'
    BY <1>1 DEF TypeOK, HasFile, HasBackup, Live
  <1>5. InProgress'
    BY DEF TypeOK, InProgress, Latest
  <1>6. ChecksumsNameVersions'
    BY DEF TypeOK, ChecksumsNameVersions, Stored
  <1> QED BY <1>2, <1>3, <1>4, <1>5, <1>6

\* ... and recording what was fetched.
LEMMA FetchRecordsBasic ==
    ASSUME BasicInv, NEW w \in Workers, FetchRecords(w)
    PROVE  BasicInv'
  <1> USE TypeFacts DEF BasicInv, FetchRecords, externalVars, diskVars, memoryVars
  <1>1. disk[w] = Latest /\ Stored(disk[w])
    BY LatestFacts DEF InProgress
  <1>2. TypeOK'
    BY DEF TypeOK
  <1>3. Owned'
    BY DEF TypeOK, Owned, Pending, Live
  <1>4. HasFile' /\ HasBackup'
    BY DEF TypeOK, HasFile, HasBackup, Live
  <1>5. InProgress'
    BY DEF TypeOK, InProgress, Latest
  <1>6. ChecksumsNameVersions'
    BY <1>1 DEF TypeOK, ChecksumsNameVersions, Stored
  <1> QED BY <1>2, <1>3, <1>4, <1>5, <1>6

\* A claim that fails.
LEMMA ClaimFailsBasic ==
    ASSUME BasicInv, NEW w \in Workers, ClaimFails(w)
    PROVE  BasicInv'
  <1> USE TypeFacts DEF BasicInv, ClaimFails, externalVars, diskVars, memoryVars
  <1>1. TypeOK'
    BY DEF TypeOK
  <1>2. Owned'
    BY DEF TypeOK, Owned, Pending, Live
  <1>3. HasFile' /\ HasBackup'
    BY DEF TypeOK, HasFile, HasBackup, Live
  <1>4. InProgress'
    BY DEF TypeOK, InProgress, Latest
  <1>5. ChecksumsNameVersions'
    BY DEF TypeOK, ChecksumsNameVersions, Stored
  <1> QED BY <1>1, <1>2, <1>3, <1>4, <1>5

\* Creating it.
LEMMA CreateDocBasic ==
    ASSUME BasicInv, NEW w \in Workers, CreateDoc(w)
    PROVE  BasicInv'
  <1> USE TypeFacts DEF BasicInv, CreateDoc, externalVars, diskVars, memoryVars
  <1>1. {} \in Contents
    BY DEF Contents
  <1>2. TypeOK'
    BY <1>1 DEF TypeOK
  <1>3. Owned'
    BY DEF TypeOK, Owned, Pending, Live
  <1>4. HasFile' /\ HasBackup'
    BY <1>1 DEF TypeOK, HasFile, HasBackup, Live
  <1>5. InProgress'
    BY DEF TypeOK, InProgress, Latest
  <1>6. ChecksumsNameVersions'
    BY DEF TypeOK, ChecksumsNameVersions, Stored
  <1> QED BY <1>2, <1>3, <1>4, <1>5, <1>6

\* An edit.
LEMMA EditBasic ==
    ASSUME BasicInv, NEW w \in Workers, NEW e \in Edits, Edit(w, e)
    PROVE  BasicInv'
  <1> USE TypeFacts DEF BasicInv, Edit, externalVars, diskVars, memoryVars
  <1>1. disk[w] \in Contents
    BY DEF TypeOK, HasFile, Live
  <1>2. disk[w] \cup {e} \in Contents
    BY <1>1 DEF Contents
  <1>3. TypeOK'
    BY <1>2 DEF TypeOK
  <1>4. Owned'
    BY DEF TypeOK, Owned, Pending, Live
  <1>5. HasFile' /\ HasBackup'
    BY <1>2 DEF TypeOK, HasFile, HasBackup, Live
  <1>6. InProgress'
    BY DEF TypeOK, InProgress, Latest
  <1>7. ChecksumsNameVersions'
    BY DEF TypeOK, ChecksumsNameVersions, Stored
  <1> QED BY <1>3, <1>4, <1>5, <1>6, <1>7

\* Closing begins.
LEMMA CloseBasic ==
    ASSUME BasicInv, NEW w \in Workers, Close(w)
    PROVE  BasicInv'
  <1> USE TypeFacts DEF BasicInv, Close, externalVars, diskVars, memoryVars
  <1>1. TypeOK'
    BY DEF TypeOK
  <1>2. Owned'
    BY DEF TypeOK, Owned, Pending, Live
  <1>3. HasFile' /\ HasBackup'
    BY DEF TypeOK, HasFile, HasBackup, Live
  <1>4. InProgress'
    BY DEF TypeOK, InProgress, Latest
  <1>5. ChecksumsNameVersions'
    BY DEF TypeOK, ChecksumsNameVersions, Stored
  <1> QED BY <1>1, <1>2, <1>3, <1>4, <1>5

\* A flush returns.
LEMMA FlushReturnsBasic ==
    ASSUME BasicInv, NEW w \in Workers, FlushReturns(w)
    PROVE  BasicInv'
  <1> USE TypeFacts DEF BasicInv, FlushReturns, externalVars, diskVars, memoryVars
  <1>1. disk[w] \in Contents
    BY DEF TypeOK, HasFile, Live
  <1>2. saved' \in Contents
    BY <1>1 DEF TypeOK, Contents
  <1>3. TypeOK'
    BY <1>2 DEF TypeOK
  <1>4. Owned'
    BY DEF TypeOK, Owned, Pending, Live
  <1>5. HasFile' /\ HasBackup'
    BY DEF TypeOK, HasFile, HasBackup, Live
  <1>6. InProgress'
    BY DEF TypeOK, InProgress, Latest
  <1>7. ChecksumsNameVersions'
    BY DEF TypeOK, ChecksumsNameVersions, Stored
  <1> QED BY <1>3, <1>4, <1>5, <1>6, <1>7

\* A push starts.
LEMMA PushStartsBasic ==
    ASSUME BasicInv, NEW w \in Workers, PushStarts(w)
    PROVE  BasicInv'
  <1> USE TypeFacts DEF BasicInv, PushStarts, TakesBackup, externalVars, diskVars, memoryVars
  <1>1. disk[w] \in Contents
    BY DEF TypeOK, Owned, Pending, HasFile, Live
  <1>2. push'[w] \in Pushes /\ push'[w].step = "backed up" /\ push'[w].backup # Nothing
    BY <1>1 DEF TypeOK, Pushes
  <1>3. TypeOK'
    BY <1>1, <1>2 DEF TypeOK
  <1>4. Owned'
    BY <1>2 DEF TypeOK, Owned, Pending, Live
  <1>5. HasFile' /\ HasBackup'
    BY <1>2 DEF TypeOK, HasFile, HasBackup, Live
  <1>6. InProgress'
    BY <1>2 DEF TypeOK, InProgress, Latest
  <1>7. ChecksumsNameVersions'
    BY DEF TypeOK, ChecksumsNameVersions, Stored
  <1> QED BY <1>3, <1>4, <1>5, <1>6, <1>7

\* A push finds nothing to do.
LEMMA PushUnchangedBasic ==
    ASSUME BasicInv, NEW w \in Workers, PushUnchanged(w)
    PROVE  BasicInv'
  <1> USE TypeFacts DEF BasicInv, PushUnchanged, externalVars, diskVars, memoryVars
  <1>1. TypeOK'
    BY DEF TypeOK
  <1>2. Owned'
    BY DEF TypeOK, Owned, Pending, Live
  <1>3. HasFile' /\ HasBackup'
    BY DEF TypeOK, HasFile, HasBackup, Live
  <1>4. InProgress'
    BY DEF TypeOK, InProgress, Latest
  <1>5. ChecksumsNameVersions'
    BY DEF TypeOK, ChecksumsNameVersions, Stored
  <1> QED BY <1>1, <1>2, <1>3, <1>4, <1>5

\* A push fails.
LEMMA PushFailsBasic ==
    ASSUME BasicInv, NEW w \in Workers, PushFails(w)
    PROVE  BasicInv'
  <1> USE TypeFacts DEF BasicInv, PushFails, externalVars, diskVars, memoryVars
  <1>1. TypeOK'
    <2>1. latest' \in [Workers -> 0..MaxVersions]
      BY DEF TypeOK
    <2>2. push' \in [Workers -> Pushes] /\ changed' \subseteq Workers
      BY DEF TypeOK
    <2> QED BY <2>1, <2>2 DEF TypeOK
  <1>2. Owned'
    BY DEF TypeOK, Owned, Pending, Live
  <1>3. HasFile' /\ HasBackup'
    BY DEF TypeOK, HasFile, HasBackup, Live
  <1>4. InProgress'
    BY DEF TypeOK, InProgress, Latest
  <1>5. ChecksumsNameVersions'
    BY DEF TypeOK, ChecksumsNameVersions, Stored
  <1> QED BY <1>1, <1>2, <1>3, <1>4, <1>5

\* A push uploads.
LEMMA PushUploadsBasic ==
    ASSUME BasicInv, NEW w \in Workers, PushUploads(w)
    PROVE  BasicInv'
  <1> USE TypeFacts DEF BasicInv, PushUploads, externalVars, diskVars, memoryVars
  <1>1. push[w].backup \in Contents
    BY DEF TypeOK, HasBackup, Pushes
  <1>2. store' = Append(store, push[w].backup) /\ Len(store) < MaxVersions
    OBVIOUS
  <1>3. /\ store' \in Seq(Contents) /\ Len(store') <= MaxVersions
        /\ store' # <<>> /\ Latest' = push[w].backup
        /\ \A b : Stored(b) => Stored(b)'
    BY <1>1, <1>2, AppendFacts
  <1>4. \A v \in Workers : doc[v] = "moved" \/ push[v].step # "idle" => v = w
    BY DEF Owned, Pending, Live
  <1>5. /\ push' \in [Workers -> Pushes]
        /\ push'[w].step = "uploaded" /\ push'[w].backup = push[w].backup
        /\ \A v \in Workers : v # w => push'[v] = push[v]
    BY StepOfPush
  <1>6. TypeOK'
    BY <1>3, <1>5 DEF TypeOK
  <1>7. Owned'
    BY <1>5 DEF TypeOK, Owned, Pending, Live
  <1>8. HasFile' /\ HasBackup'
    <2>1. HasFile'
      BY DEF HasFile, Live
    <2>2. HasBackup'
      BY <1>5 DEF HasBackup
    <2> QED BY <2>1, <2>2
  <1>9. InProgress'
    BY <1>3, <1>4, <1>5 DEF InProgress, Owned, Pending, Live
  <1>10. ChecksumsNameVersions'
    BY <1>3 DEF ChecksumsNameVersions
  <1> QED BY <1>6, <1>7, <1>8, <1>9, <1>10

\* A push records its version.
LEMMA PushRecordsBasic ==
    ASSUME BasicInv, NEW w \in Workers, PushRecords(w)
    PROVE  BasicInv'
  <1> USE TypeFacts DEF BasicInv, PushRecords, externalVars, diskVars, memoryVars
  <1>1. push[w].backup \in Contents /\ Stored(push[w].backup)
    BY LatestFacts DEF InProgress
  <1>2. /\ push' \in [Workers -> Pushes]
        /\ push'[w].step = "recorded" /\ push'[w].backup = push[w].backup
        /\ \A v \in Workers : v # w => push'[v] = push[v]
    BY StepOfPush
  <1>3. TypeOK'
    BY <1>1, <1>2 DEF TypeOK
  <1>4. Owned'
    BY <1>2 DEF TypeOK, Owned, Pending, Live
  <1>5. HasFile' /\ HasBackup'
    BY <1>2 DEF TypeOK, HasFile, HasBackup, Live
  <1>6. Latest' = Latest
    BY DEF Latest
  <1>7. InProgress'
    BY <1>2, <1>6 DEF InProgress
  <1>8. ChecksumsNameVersions'
    BY <1>1 DEF TypeOK, ChecksumsNameVersions, Stored
  <1> QED BY <1>3, <1>4, <1>5, <1>7, <1>8

\* A push shares its checksum.
LEMMA PushSharesBasic ==
    ASSUME BasicInv, NEW w \in Workers, PushShares(w)
    PROVE  BasicInv'
  <1> USE TypeFacts DEF BasicInv, PushShares, externalVars, diskVars, memoryVars
  <1>1. push[w].backup \in Contents /\ Stored(push[w].backup)
    BY LatestFacts DEF InProgress
  <1>2. TypeOK'
    BY <1>1 DEF TypeOK
  <1>3. Owned'
    BY DEF TypeOK, Owned, Pending, Live
  <1>4. HasFile' /\ HasBackup'
    BY DEF TypeOK, HasFile, HasBackup, Live
  <1>5. InProgress'
    BY DEF TypeOK, InProgress, Latest
  <1>6. ChecksumsNameVersions'
    BY <1>1 DEF TypeOK, ChecksumsNameVersions, Stored
  <1> QED BY <1>2, <1>3, <1>4, <1>5, <1>6

\* A crash.
LEMMA CrashBasic ==
    ASSUME BasicInv, NEW w \in Workers, Crash(w)
    PROVE  BasicInv'
  <1> USE TypeFacts DEF BasicInv, Crash, externalVars, diskVars, memoryVars
  <1>1. TypeOK'
    BY DEF TypeOK
  <1>2. Owned'
    BY DEF TypeOK, Owned, Pending, Live
  <1>3. HasFile' /\ HasBackup'
    BY DEF TypeOK, HasFile, HasBackup, Live
  <1>4. InProgress'
    BY DEF TypeOK, InProgress, Latest
  <1>5. ChecksumsNameVersions'
    BY DEF TypeOK, ChecksumsNameVersions, Stored
  <1> QED BY <1>1, <1>2, <1>3, <1>4, <1>5

\* The checksum expires, or nothing happens.
LEMMA ExpiresBasic ==
    ASSUME BasicInv, ChecksumExpires \/ UNCHANGED vars
    PROVE  BasicInv'
  <1> USE TypeFacts DEF BasicInv, ChecksumExpires, vars, externalVars, diskVars, memoryVars
  <1>1. TypeOK'
    BY DEF TypeOK
  <1>2. Owned'
    BY DEF TypeOK, Owned, Pending, Live
  <1>3. HasFile' /\ HasBackup'
    BY DEF TypeOK, HasFile, HasBackup, Live
  <1>4. InProgress'
    BY DEF TypeOK, InProgress, Latest
  <1>5. ChecksumsNameVersions'
    BY DEF TypeOK, ChecksumsNameVersions, Stored
  <1> QED BY <1>1, <1>2, <1>3, <1>4, <1>5

LEMMA BasicStep ==
    ASSUME BasicInv, [Next]_vars
    PROVE  BasicInv'
  BY AssignBasic, ReleaseBasic, RemoveDeadBasic, RestartBasic,
     KeepLocalBasic, WipesFileBasic, WipesHashBasic, WipesLatestBasic,
     StartFetchBasic, FetchMovesBasic, FetchRecordsBasic, ClaimFailsBasic, CreateDocBasic, EditBasic, CloseBasic,
     FlushReturnsBasic, PushStartsBasic, PushUnchangedBasic,
     PushFailsBasic, PushUploadsBasic, PushRecordsBasic, PushSharesBasic,
     CrashBasic, ExpiresBasic DEF Next

\* Whatever fails, and wherever a worker crashes, the invariant holds.
THEOREM BasicInductive == Spec => []BasicInv
  BY InitBasic, BasicStep, PTL DEF Spec

\* The variables of the storage of a document keep their types.
THEOREM TypeCorrect == Spec => []TypeOK
  <1>1. BasicInv => TypeOK
    BY DEF BasicInv
  <1> QED BY <1>1, BasicInductive, PTL

\* A checksum that a worker trusts, to keep its copy (_claimDocument) or to
\* skip an upload (ChecksummedExternalStorage.upload), is that of a version it
\* could fetch, even when pushes are cut short between their steps.
THEOREM ChecksumsAreHonest == Spec => []ChecksumsNameVersions
  <1>1. BasicInv => ChecksumsNameVersions
    BY DEF BasicInv
  <1> QED BY <1>1, BasicInductive, PTL
=============================================================================
