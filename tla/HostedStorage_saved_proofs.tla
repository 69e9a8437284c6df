--------------------- MODULE HostedStorage_saved_proofs ---------------------
(***************************************************************************)
(* Proofs that open documents are the latest, and that what is reported as *)
(* saved is saved, for any workers, edits and number of versions, as long  *)
(* as no push is cut short between its upload and the sharing of its       *)
(* checksum; what is reported as saved also needs that no worker crashes   *)
(* before anything is stored.                                              *)
(***************************************************************************)
EXTENDS HostedStorage_proofs

NoFaults == ~EarlyCrashes /\ ~UnsharedFaults

\* No version lacks what an earlier one has.
Monotone == \A i, j \in DOMAIN store : i <= j => store[i] \subseteq store[j]

\* What a process knows of the version it put or got last.  Its checksum on the
\* disk may be that of an earlier one, but while the document is open it is not
\* that of the latest one next to an earlier version known.
KnowsVersion ==
    \A w \in Workers :
        /\ latest[w] # 0 => latest[w] \in DOMAIN store
        /\ Live(w) /\ store # <<>> /\ latest[w] # 0 /\ localHash[w] = Latest =>
              store[latest[w]] = Latest
        /\ push[w].step = "recorded" => latest[w] = Len(store)

\* A copy and a backup have all that the latest version has, and a copy has
\* all that its backup has.
CoversLatest ==
    \A w \in Workers :
        /\ Live(w) /\ store # <<>> => Latest \subseteq disk[w]
        /\ push[w].step # "idle" /\ store # <<>> => Latest \subseteq push[w].backup
        /\ push[w].step # "idle" => push[w].backup \subseteq disk[w]

\* A copy with nothing to push, once there are versions, is one of them: the
\* latest while the document is open, and the one its worker knows later on,
\* unless it has just been fetched in the place of an older one.
NothingToPush ==
    \A w \in Workers :
        /\ push[w].step # "idle" /\ w \notin changed => push[w].backup = disk[w]
        /\ disk[w] # Nothing /\ ~Pending(w) =>
              /\ Live(w) /\ store # <<>> => disk[w] = Latest
              /\ latest[w] # 0 /\ doc[w] # "moved" => disk[w] = store[latest[w]]

\* The checksum in Redis is only behind the store during a push, or before
\* the retry of one that will upload again.
SharedOrPushing ==
    store # <<>> /\ md5 \notin {Nothing, Latest} =>
        \E w \in Workers : /\ Pending(w)
                           /\ localHash[w] # Latest \/ push[w].step = "recorded"

SavedInv == Monotone /\ KnowsVersion /\ CoversLatest /\ NothingToPush /\ SharedOrPushing

\* A copy with nothing to push has been pushed: not so after a crash before the
\* first version.
CopiesAreStored == \A w \in Workers : disk[w] # Nothing /\ ~Pending(w) => store # <<>>

StoredInv == CopiesAreStored /\ SavedReachedStore
-----------------------------------------------------------------------------
\* Two workers are never both at work on the document.
LEMMA OneAtWork ==
    ASSUME BasicInv, NEW v \in Workers, NEW w \in Workers,
           doc[v] # "closed" \/ Pending(v), doc[w] # "closed" \/ owner = w
    PROVE  v = w
  BY DEF BasicInv, Owned, Live

\* While nothing is stored, every definition about the store keeps its value.
LEMMA SameStore ==
    ASSUME store' = store
    PROVE  Latest' = Latest /\ LatestId' = LatestId /\ (Monotone => Monotone')
  BY DEF Latest, LatestId, Monotone

LEMMA InitSaved == Init => SavedInv
  <1> SUFFICES ASSUME Init PROVE SavedInv
    OBVIOUS
  <1>1. NoPush.step = "idle"
    BY DEF NoPush
  <1>2. Monotone
    BY DEF Init, Monotone
  <1>3. KnowsVersion /\ CoversLatest /\ NothingToPush
    BY <1>1 DEF Init, KnowsVersion, CoversLatest, NothingToPush, Pending, Live
  <1>4. SharedOrPushing
    BY DEF Init, SharedOrPushing
  <1> QED BY <1>2, <1>3, <1>4 DEF SavedInv

\* Ownership alone changes.
LEMMA AssignSaved ==
    ASSUME BasicInv, SavedInv, NEW w \in Workers, Assign(w)
    PROVE  SavedInv'
  <1> USE TypeFacts DEF BasicInv, SavedInv, Assign, externalVars, diskVars, memoryVars
  <1>1. Latest' = Latest /\ LatestId' = LatestId /\ Monotone'
    BY SameStore
  <1>2. KnowsVersion'
    BY <1>1 DEF TypeOK, KnowsVersion, Live
  <1>3. CoversLatest'
    BY <1>1 DEF TypeOK, CoversLatest, Live
  <1>4. NothingToPush'
    BY <1>1 DEF TypeOK, NothingToPush, Pending, Live
  <1>5. SharedOrPushing'
    BY <1>1 DEF TypeOK, SharedOrPushing, Pending
  <1> QED BY <1>1, <1>2, <1>3, <1>4, <1>5

\* Ownership alone changes.
LEMMA ReleaseSaved ==
    ASSUME BasicInv, SavedInv, NEW w \in Workers, Release(w)
    PROVE  SavedInv'
  <1> USE TypeFacts DEF BasicInv, SavedInv, Release, externalVars, diskVars, memoryVars
  <1>1. Latest' = Latest /\ LatestId' = LatestId /\ Monotone'
    BY SameStore
  <1>2. KnowsVersion'
    BY <1>1 DEF TypeOK, KnowsVersion, Live
  <1>3. CoversLatest'
    BY <1>1 DEF TypeOK, CoversLatest, Live
  <1>4. NothingToPush'
    BY <1>1 DEF TypeOK, NothingToPush, Pending, Live
  <1>5. SharedOrPushing'
    BY <1>1 DEF TypeOK, SharedOrPushing, Pending
  <1> QED BY <1>1, <1>2, <1>3, <1>4, <1>5

\* Ownership alone changes.
LEMMA RemoveDeadSaved ==
    ASSUME BasicInv, SavedInv, NEW w \in Workers, RemoveDead(w)
    PROVE  SavedInv'
  <1> USE TypeFacts DEF BasicInv, SavedInv, RemoveDead, externalVars, diskVars, memoryVars
  <1>1. Latest' = Latest /\ LatestId' = LatestId /\ Monotone'
    BY SameStore
  <1>2. KnowsVersion'
    BY <1>1 DEF TypeOK, KnowsVersion, Live
  <1>3. CoversLatest'
    BY <1>1 DEF TypeOK, CoversLatest, Live
  <1>4. NothingToPush'
    BY <1>1 DEF TypeOK, NothingToPush, Pending, Live
  <1>5. SharedOrPushing'
    BY <1>1 DEF TypeOK, SharedOrPushing, Pending
  <1> QED BY <1>1, <1>2, <1>3, <1>4, <1>5

\* Nothing changes but that the worker is up.
LEMMA RestartSaved ==
    ASSUME BasicInv, SavedInv, NEW w \in Workers, Restart(w)
    PROVE  SavedInv'
  <1> USE TypeFacts DEF BasicInv, SavedInv, Restart, externalVars, diskVars, memoryVars
  <1>1. Latest' = Latest /\ LatestId' = LatestId /\ Monotone'
    BY SameStore
  <1>2. KnowsVersion'
    BY <1>1 DEF TypeOK, KnowsVersion, Live
  <1>3. CoversLatest'
    BY <1>1 DEF TypeOK, CoversLatest, Live
  <1>4. NothingToPush'
    BY <1>1 DEF TypeOK, NothingToPush, Pending, Live
  <1>5. SharedOrPushing'
    BY <1>1 DEF TypeOK, SharedOrPushing, Pending
  <1> QED BY <1>1, <1>2, <1>3, <1>4, <1>5

\* A local copy is kept: it is the latest version, if there are any.
LEMMA KeepLocalSaved ==
    ASSUME BasicInv, SavedInv, NEW w \in Workers, KeepLocal(w)
    PROVE  SavedInv'
  <1> USE TypeFacts DEF BasicInv, SavedInv, KeepLocal, ClaimsDoc, externalVars, diskVars, memoryVars
  <1>1. Latest' = Latest /\ LatestId' = LatestId /\ Monotone'
    BY SameStore
  <1>2. ~Pending(w) /\ store \in Seq(Contents)
    BY DEF TypeOK, Owned, Live
  <1>3. ASSUME store # <<>> PROVE disk[w] = Latest
    <2>1. CASE md5 = Nothing
      <3>1. latest[w] = LatestId /\ latest[w] # 0
        BY <1>2, <1>3, <2>1 DEF Accepts, LatestId
      <3> QED BY <1>2, <3>1 DEF NothingToPush, Latest, LatestId
    <2>2. CASE md5 # Nothing
      <3>1. \A v \in Workers : ~Pending(v)
        BY <1>2, OneAtWork
      <3>2. md5 = Latest
        BY <1>3, <2>2, <3>1 DEF SharedOrPushing
      <3> QED BY <2>2, <3>2 DEF Accepts
    <2> QED BY <2>1, <2>2
  <1>4. KnowsVersion'
    <2>1. store # <<>> /\ latest[w] # 0 => store[latest[w]] = Latest
      BY <1>2, <1>3 DEF NothingToPush
    <2>2. UNCHANGED <<store, latest, localHash, push>> /\ \A v \in Workers \ {w} : doc'[v] = doc[v]
      BY DEF TypeOK
    <2> HIDE DEF KeepLocal
    <2> QED BY <1>1, <2>1, <2>2 DEF KnowsVersion, Live
  <1>5. CoversLatest'
    BY <1>1, <1>3 DEF TypeOK, CoversLatest, Live
  <1>6. NothingToPush'
    BY <1>1, <1>2, <1>3 DEF TypeOK, NothingToPush, Pending, Live
  <1>7. SharedOrPushing'
    BY <1>1 DEF TypeOK, SharedOrPushing, Pending
  <1> QED BY <1>1, <1>4, <1>5, <1>6, <1>7

\* A copy that is dropped is no longer one that was pushed.
LEMMA WipesFileSaved ==
    ASSUME BasicInv, SavedInv, NEW w \in Workers, WipesFile(w)
    PROVE  SavedInv'
  <1> USE TypeFacts DEF BasicInv, SavedInv, WipesFile, ClaimsDoc, externalVars, diskVars, memoryVars
  <1>1. Latest' = Latest /\ LatestId' = LatestId /\ Monotone'
    BY SameStore
  <1>2. ~Pending(w)
    BY DEF TypeOK, Owned, Live
  <1>3. KnowsVersion'
    BY <1>1, <1>2 DEF TypeOK, KnowsVersion, Pending, Live
  <1>4. CoversLatest'
    BY <1>1, <1>2 DEF TypeOK, CoversLatest, Live, Pending
  <1>5. /\ disk'[w] = Nothing /\ ~Live(w)'
        /\ \A v \in Workers : v # w =>
              /\ disk'[v] = disk[v] /\ latest'[v] = latest[v] /\ doc'[v] = doc[v]
        /\ store' = store /\ changed' = changed /\ push' = push
    BY DEF TypeOK, Live
  <1>6. NothingToPush'
    <2> HIDE DEF WipesFile
    <2> QED BY <1>1, <1>2, <1>5 DEF NothingToPush, Pending, Live
  <1>7. SharedOrPushing'
    BY <1>1, <1>2 DEF TypeOK, SharedOrPushing, Pending
  <1> QED BY <1>1, <1>3, <1>4, <1>6, <1>7

\* Without its checksum, the next push uploads.
LEMMA WipesHashSaved ==
    ASSUME BasicInv, SavedInv, NEW w \in Workers, WipesHash(w)
    PROVE  SavedInv'
  <1> USE TypeFacts DEF BasicInv, SavedInv, WipesHash, externalVars, diskVars, memoryVars
  <1>1. Latest' = Latest /\ LatestId' = LatestId /\ Monotone'
    BY SameStore
  <1>2. ~Pending(w) /\ ~Live(w) /\ ~Live(w)'
    BY DEF TypeOK, Owned, Live
  <1>3. KnowsVersion'
    BY <1>1, <1>2 DEF TypeOK, KnowsVersion, Live, Pending
  <1>4. CoversLatest'
    BY <1>1, <1>2 DEF TypeOK, CoversLatest, Live, Pending
  <1>5. NothingToPush'
    BY <1>1, <1>2 DEF TypeOK, NothingToPush, Pending, Live
  <1>6. SharedOrPushing'
    BY <1>1, <1>2 DEF TypeOK, SharedOrPushing, Pending
  <1> QED BY <1>1, <1>3, <1>4, <1>5, <1>6

\* Without its version, the copy will be compared with the store.
LEMMA WipesLatestSaved ==
    ASSUME BasicInv, SavedInv, NEW w \in Workers, WipesLatest(w)
    PROVE  SavedInv'
  <1> USE TypeFacts DEF BasicInv, SavedInv, WipesLatest, externalVars, diskVars, memoryVars
  <1>1. Latest' = Latest /\ LatestId' = LatestId /\ Monotone'
    BY SameStore
  <1>2. ~Pending(w) /\ ~Live(w) /\ ~Live(w)'
    BY DEF TypeOK, Owned, Live
  <1>3. KnowsVersion'
    BY <1>1, <1>2 DEF TypeOK, KnowsVersion, Live, Pending
  <1>4. CoversLatest'
    BY <1>1, <1>2 DEF TypeOK, CoversLatest, Live, Pending
  <1>5. NothingToPush'
    BY <1>1, <1>2 DEF TypeOK, NothingToPush, Pending, Live
  <1>6. SharedOrPushing'
    BY <1>1, <1>2 DEF TypeOK, SharedOrPushing, Pending
  <1> QED BY <1>1, <1>3, <1>4, <1>5, <1>6

\* A fetch starts.
LEMMA StartFetchSaved ==
    ASSUME BasicInv, SavedInv, NEW w \in Workers, StartFetch(w)
    PROVE  SavedInv'
  <1> USE TypeFacts DEF BasicInv, SavedInv, StartFetch, ClaimsDoc, externalVars, diskVars, memoryVars
  <1>1. Latest' = Latest /\ LatestId' = LatestId /\ Monotone'
    BY SameStore
  <1>2. KnowsVersion'
    BY <1>1 DEF TypeOK, KnowsVersion, Live
  <1>3. CoversLatest'
    BY <1>1 DEF TypeOK, CoversLatest, Live
  <1>4. NothingToPush'
    BY <1>1 DEF TypeOK, NothingToPush, Pending, Live
  <1>5. SharedOrPushing'
    BY <1>1 DEF TypeOK, SharedOrPushing, Pending
  <1> QED BY <1>1, <1>2, <1>3, <1>4, <1>5

\* A fetched file is moved into place.
LEMMA FetchMovesSaved ==
    ASSUME BasicInv, SavedInv, NEW w \in Workers, FetchMoves(w)
    PROVE  SavedInv'
  <1> USE TypeFacts DEF BasicInv, SavedInv, FetchMoves, externalVars, diskVars, memoryVars
  <1>1. Latest' = Latest /\ LatestId' = LatestId /\ Monotone'
    BY SameStore
  <1>2. ~Pending(w) /\ ~Live(w) /\ ~Live(w)'
    BY DEF TypeOK, Owned, Live
  <1>3. Latest \in Contents
    BY LatestFacts
  <1>4. KnowsVersion'
    BY <1>1, <1>2 DEF TypeOK, KnowsVersion, Live
  <1>5. CoversLatest'
    BY <1>1, <1>2 DEF TypeOK, CoversLatest, Live, Pending
  <1>6. NothingToPush'
    BY <1>1, <1>2 DEF TypeOK, NothingToPush, Pending, Live
  <1>7. SharedOrPushing'
    BY <1>1 DEF TypeOK, SharedOrPushing, Pending
  <1> QED BY <1>1, <1>4, <1>5, <1>6, <1>7

\* What was fetched is the latest version.
LEMMA FetchRecordsSaved ==
    ASSUME BasicInv, SavedInv, NEW w \in Workers, FetchRecords(w)
    PROVE  SavedInv'
  <1> USE TypeFacts DEF BasicInv, SavedInv, FetchRecords, externalVars, diskVars, memoryVars
  <1>1. Latest' = Latest /\ LatestId' = LatestId /\ Monotone'
    BY SameStore
  <1>2. /\ ~Pending(w) /\ push[w].step = "idle"
        /\ store # <<>> /\ disk[w] = Latest /\ disk[w] # Nothing
    BY DEF Owned, Live, Pending, InProgress, HasFile
  <1>3. LatestId \in DOMAIN store /\ Latest = store[LatestId] /\ LatestId # 0
    BY <1>2, LatestFacts DEF Latest, LatestId, TypeOK
  <1>4. KnowsVersion'
    BY <1>1, <1>2, <1>3 DEF TypeOK, KnowsVersion, LatestId, Live
  <1>5. CoversLatest'
    BY <1>1, <1>2 DEF TypeOK, CoversLatest, Live
  <1>6. NothingToPush'
    BY <1>1, <1>2, <1>3 DEF TypeOK, NothingToPush, Pending, Live
  <1>7. SharedOrPushing'
    BY <1>1, <1>2 DEF TypeOK, SharedOrPushing, Pending
  <1> QED BY <1>1, <1>4, <1>5, <1>6, <1>7

\* A claim that fails once the file is in place leaves the latest version.
LEMMA ClaimFailsSaved ==
    ASSUME BasicInv, SavedInv, NEW w \in Workers, ClaimFails(w)
    PROVE  SavedInv'
  <1> USE TypeFacts DEF BasicInv, SavedInv, ClaimFails, externalVars, diskVars, memoryVars
  <1>1. Latest' = Latest /\ LatestId' = LatestId /\ Monotone'
    BY SameStore
  <1>2. ~Pending(w) /\ push[w].step = "idle" /\ ~Live(w) /\ ~Live(w)'
    BY DEF TypeOK, Owned, Live, Pending
  <1>3. doc[w] = "moved" =>
            /\ store # <<>> /\ disk[w] = Latest
            /\ LatestId \in DOMAIN store /\ Latest = store[LatestId] /\ LatestId # 0
    BY LatestFacts DEF InProgress, Latest, LatestId, TypeOK
  <1>4. KnowsVersion'
    BY <1>1, <1>2, <1>3 DEF TypeOK, KnowsVersion, Live
  <1>5. CoversLatest'
    BY <1>1, <1>2 DEF TypeOK, CoversLatest, Live
  <1>6. NothingToPush'
    BY <1>1, <1>2, <1>3 DEF TypeOK, NothingToPush, Pending, Live
  <1>7. SharedOrPushing'
    BY <1>1, <1>2 DEF TypeOK, SharedOrPushing, Pending
  <1> QED BY <1>1, <1>4, <1>5, <1>6, <1>7

\* A new document has a push to come.
LEMMA CreateDocSaved ==
    ASSUME BasicInv, SavedInv, NEW w \in Workers, CreateDoc(w)
    PROVE  SavedInv'
  <1> USE TypeFacts DEF BasicInv, SavedInv, CreateDoc, externalVars, diskVars, memoryVars
  <1>1. Latest' = Latest /\ LatestId' = LatestId /\ Monotone'
    BY SameStore
  <1>2. ~Pending(w) /\ push[w].step = "idle" /\ latest[w] = 0
    BY DEF Owned, Live, Pending, KnowsVersion
  <1>3. {} # Nothing
    BY DEF Contents
  <1>4. KnowsVersion'
    BY <1>1, <1>2, <1>3 DEF TypeOK, KnowsVersion, Live
  <1>5. CoversLatest'
    BY <1>1, <1>2 DEF TypeOK, CoversLatest, Live
  <1>6. NothingToPush'
    BY <1>1, <1>2 DEF TypeOK, NothingToPush, Pending, Live
  <1>7. SharedOrPushing'
    BY <1>1 DEF TypeOK, SharedOrPushing, Pending
  <1> QED BY <1>1, <1>4, <1>5, <1>6, <1>7

\* An edit adds to the copy, and has a push to come.
LEMMA EditSaved ==
    ASSUME BasicInv, SavedInv, NEW w \in Workers, NEW e \in Edits, Edit(w, e)
    PROVE  SavedInv'
  <1> USE TypeFacts DEF BasicInv, SavedInv, Edit, externalVars, diskVars, memoryVars
  <1>1. Latest' = Latest /\ LatestId' = LatestId /\ Monotone'
    BY SameStore
  <1>2. disk[w] \in Contents
    BY DEF TypeOK, HasFile, Live
  <1>3. disk[w] \cup {e} # Nothing
    BY <1>2 DEF Contents
  <1>4. KnowsVersion'
    BY <1>1 DEF TypeOK, KnowsVersion, Live
  <1>5. CoversLatest'
    BY <1>1 DEF TypeOK, CoversLatest, Live
  <1>6. NothingToPush'
    BY <1>1 DEF TypeOK, NothingToPush, Pending, Live
  <1>7. SharedOrPushing'
    BY <1>1 DEF TypeOK, SharedOrPushing, Pending
  <1> QED BY <1>1, <1>4, <1>5, <1>6, <1>7

\* A document that closes is still to be pushed.
LEMMA CloseSaved ==
    ASSUME BasicInv, SavedInv, NEW w \in Workers, Close(w)
    PROVE  SavedInv'
  <1> USE TypeFacts DEF BasicInv, SavedInv, Close, externalVars, diskVars, memoryVars
  <1>1. Latest' = Latest /\ LatestId' = LatestId /\ Monotone'
    BY SameStore
  <1>2. KnowsVersion'
    BY <1>1 DEF TypeOK, KnowsVersion, Live
  <1>3. CoversLatest'
    BY <1>1 DEF TypeOK, CoversLatest, Live
  <1>4. NothingToPush'
    BY <1>1 DEF TypeOK, NothingToPush, Pending, Live
  <1>5. SharedOrPushing'
    BY <1>1 DEF TypeOK, SharedOrPushing, Pending
  <1> QED BY <1>1, <1>2, <1>3, <1>4, <1>5

\* A flush leaves the copy as it is.
LEMMA FlushReturnsSaved ==
    ASSUME BasicInv, SavedInv, NEW w \in Workers, FlushReturns(w)
    PROVE  SavedInv'
  <1> USE TypeFacts DEF BasicInv, SavedInv, FlushReturns, externalVars, diskVars, memoryVars
  <1>1. Latest' = Latest /\ LatestId' = LatestId /\ Monotone'
    BY SameStore
  <1>2. KnowsVersion'
    BY <1>1 DEF TypeOK, KnowsVersion, Live
  <1>3. CoversLatest'
    BY <1>1 DEF TypeOK, CoversLatest, Live
  <1>4. NothingToPush'
    BY <1>1 DEF TypeOK, NothingToPush, Pending, Live
  <1>5. SharedOrPushing'
    BY <1>1 DEF TypeOK, SharedOrPushing, Pending
  <1> QED BY <1>1, <1>2, <1>3, <1>4, <1>5

\* A push starts with all that there is.
LEMMA PushStartsSaved ==
    ASSUME BasicInv, SavedInv, NEW w \in Workers, PushStarts(w)
    PROVE  SavedInv'
  <1> USE TypeFacts DEF BasicInv, SavedInv, PushStarts, TakesBackup, externalVars, diskVars, memoryVars
  <1>1. Latest' = Latest /\ LatestId' = LatestId /\ Monotone'
    BY SameStore
  <1>2. /\ Live(w)
        /\ push'[w].step = "backed up" /\ push'[w].backup = disk[w]
        /\ \A v \in Workers : v # w => push'[v] = push[v]
    BY DEF TypeOK, Owned, Pending
  <1>3. KnowsVersion'
    BY <1>1, <1>2 DEF TypeOK, KnowsVersion, Live
  <1>4. CoversLatest'
    BY <1>1, <1>2 DEF TypeOK, CoversLatest, Live
  <1>5. NothingToPush'
    BY <1>1, <1>2 DEF TypeOK, NothingToPush, Pending, Live
  <1>6. SharedOrPushing'
    BY <1>1, <1>2 DEF TypeOK, SharedOrPushing, Pending
  <1> QED BY <1>1, <1>3, <1>4, <1>5, <1>6

\* Every version comes before the latest one.
LEMMA LatestIsLast ==
    ASSUME TypeOK, NEW i \in DOMAIN store
    PROVE  store # <<>> /\ i <= Len(store) /\ Len(store) \in DOMAIN store
  <1>1. store \in Seq(Contents)
    BY DEF TypeOK
  <1>2. DOMAIN store = 1..Len(store) /\ Len(store) \in Nat
    BY <1>1
  <1>3. store # <<>>
    BY <1>1, <1>2
  <1> QED BY <1>2, <1>3

\* A push that finds nothing to do has a copy of the latest version.
LEMMA PushUnchangedSaved ==
    ASSUME BasicInv, SavedInv, NEW w \in Workers, PushUnchanged(w)
    PROVE  SavedInv'
  <1> USE TypeFacts DEF BasicInv, SavedInv, PushUnchanged, externalVars, diskVars, memoryVars
  <1>1. Latest' = Latest /\ LatestId' = LatestId /\ Monotone'
    BY SameStore
  <1>2. Pending(w) /\ Live(w) /\ push[w].backup # Nothing
    BY DEF Owned, Pending, HasBackup
  <1>3. store # <<>> /\ push[w].backup = Latest
    <2>1. Stored(localHash[w])
      BY <1>2 DEF ChecksumsNameVersions
    <2>2. PICK i \in DOMAIN store : store[i] = localHash[w]
      BY <2>1 DEF Stored
    <2>3. store # <<>> /\ i <= Len(store) /\ Len(store) \in DOMAIN store
      BY <2>2, LatestIsLast
    <2>4. localHash[w] \subseteq Latest
      BY <2>2, <2>3 DEF Monotone, Latest
    <2>5. Latest \subseteq push[w].backup
      BY <2>3 DEF CoversLatest
    <2> QED BY <2>3, <2>4, <2>5
  <1>4. md5 \in {Nothing, Latest}
    <2> SUFFICES ASSUME md5 \notin {Nothing, Latest} PROVE FALSE
      OBVIOUS
    <2>1. PICK v \in Workers : /\ Pending(v)
                               /\ localHash[v] # Latest \/ push[v].step = "recorded"
      BY <1>3 DEF SharedOrPushing
    <2>2. v = w
      BY <1>2, <2>1, OneAtWork DEF Live
    <2> QED BY <1>3, <2>1, <2>2
  <1>5. w \notin changed => disk[w] = Latest
    BY <1>3 DEF NothingToPush
  <1>6. latest[w] # 0 => store[latest[w]] = Latest
    BY <1>2, <1>3 DEF KnowsVersion
  <1>7. KnowsVersion'
    BY <1>1 DEF TypeOK, KnowsVersion, Live
  <1>8. CoversLatest'
    BY <1>1 DEF TypeOK, CoversLatest, Live
  <1>9. NothingToPush'
    BY <1>1, <1>3, <1>5, <1>6 DEF TypeOK, NothingToPush, Pending, Live
  <1>10. SharedOrPushing'
    BY <1>1, <1>4 DEF TypeOK, SharedOrPushing, Pending
  <1> QED BY <1>1, <1>7, <1>8, <1>9, <1>10

\* A push that fails has another to come.
LEMMA PushFailsSaved ==
    ASSUME ~UnsharedFaults, BasicInv, SavedInv, NEW w \in Workers, PushFails(w)
    PROVE  SavedInv'
  <1> USE TypeFacts DEF BasicInv, SavedInv, PushFails, externalVars, diskVars, memoryVars
  <1>1. Latest' = Latest /\ LatestId' = LatestId /\ Monotone'
    BY SameStore
  <1>2. Pending(w) /\ push[w].step # "recorded"
    BY DEF Pending
  <1>3. KnowsVersion'
    <2>1. push[w].step = "uploaded" => LatestId \in DOMAIN store /\ store[LatestId] = Latest
      BY LatestFacts DEF InProgress, Latest, LatestId
    <2> QED BY <1>1, <2>1 DEF TypeOK, KnowsVersion, Live
  <1>4. CoversLatest'
    BY <1>1 DEF TypeOK, CoversLatest, Live
  <1>5. NothingToPush'
    BY <1>1 DEF TypeOK, NothingToPush, Pending, Live
  <1>6. SharedOrPushing'
    BY <1>1, <1>2 DEF TypeOK, SharedOrPushing, Pending
  <1> QED BY <1>1, <1>3, <1>4, <1>5, <1>6

\* A version that is uploaded has all that the one before it has.
LEMMA PushUploadsSaved ==
    ASSUME BasicInv, SavedInv, NEW w \in Workers, PushUploads(w)
    PROVE  SavedInv'
  <1> USE TypeFacts DEF BasicInv, SavedInv, PushUploads, externalVars, diskVars, memoryVars
  <1>1. push[w].backup \in Contents /\ Pending(w) /\ Live(w)
    BY DEF TypeOK, HasBackup, Pushes, Owned, Pending
  <1>2. store' = Append(store, push[w].backup)
    OBVIOUS
  <1>3. /\ store' # <<>> /\ Latest' = push[w].backup
        /\ DOMAIN store' = DOMAIN store \cup {Len(store) + 1}
        /\ store'[Len(store) + 1] = push[w].backup
        /\ \A i \in DOMAIN store : store'[i] = store[i]
    <2>1. /\ store' # <<>> /\ Latest' = push[w].backup
          /\ Len(store') = Len(store) + 1
          /\ DOMAIN store' = DOMAIN store \cup {Len(store) + 1}
          /\ \A i \in DOMAIN store : store'[i] = store[i]
      BY <1>1, <1>2, AppendFacts
    <2>2. store'[Len(store) + 1] = push[w].backup
      BY <2>1 DEF Latest
    <2> QED BY <2>1, <2>2
  <1>4. /\ push'[w].step = "uploaded" /\ push'[w].backup = push[w].backup
        /\ \A v \in Workers : v # w => push'[v] = push[v]
    BY StepOfPush
  <1>5. \A v \in Workers : Pending(v) \/ Live(v) => v = w
    BY <1>1, OneAtWork DEF Live
  <1>6. store \in Seq(Contents) /\ DOMAIN store = 1..Len(store) /\ Len(store) \in Nat
    <2>1. store \in Seq(Contents)
      BY DEF TypeOK
    <2> HIDE DEF PushUploads
    <2> QED BY <2>1
  <1>7. \A i \in DOMAIN store : store[i] \subseteq push[w].backup
    <2> SUFFICES ASSUME NEW i \in DOMAIN store PROVE store[i] \subseteq push[w].backup
      OBVIOUS
    <2>1. store # <<>> /\ Len(store) \in DOMAIN store /\ i <= Len(store)
      <3> HIDE DEF PushUploads
      <3> QED BY <1>6
    <2>2. store[i] \subseteq Latest
      BY <2>1 DEF Monotone, Latest
    <2>3. Latest \subseteq push[w].backup
      BY <2>1 DEF CoversLatest
    <2> QED BY <2>2, <2>3
  <1>8. Monotone'
    <2> HIDE DEF PushUploads
    <2> SUFFICES ASSUME NEW i \in DOMAIN store', NEW j \in DOMAIN store', i <= j
                 PROVE  store'[i] \subseteq store'[j]
      BY DEF Monotone
    <2>1. CASE j \in DOMAIN store
      <3>1. i \in DOMAIN store
        BY <1>3, <1>6, <2>1
      <3> QED BY <1>3, <2>1, <3>1 DEF Monotone
    <2>2. CASE j = Len(store) + 1
      BY <1>3, <1>7, <2>2
    <2> QED BY <1>3, <2>1, <2>2
  <1>9. KnowsVersion'
    BY <1>3, <1>4, <1>5 DEF KnowsVersion, Pending, Live
  <1>10. CoversLatest'
    BY <1>3, <1>4, <1>5 DEF CoversLatest, Live, Pending
  <1>11. NothingToPush'
    BY <1>3, <1>4, <1>5 DEF NothingToPush, KnowsVersion, Pending, Live
  <1>12. SharedOrPushing'
    BY <1>3, <1>4 DEF SharedOrPushing, Pending
  <1> QED BY <1>8, <1>9, <1>10, <1>11, <1>12

\* A push in progress knows the latest version as its own.
LEMMA PushRecordsSaved ==
    ASSUME BasicInv, SavedInv, NEW w \in Workers, PushRecords(w)
    PROVE  SavedInv'
  <1> USE TypeFacts DEF BasicInv, SavedInv, PushRecords, externalVars, diskVars, memoryVars
  <1>1. Latest' = Latest /\ LatestId' = LatestId /\ Monotone'
    BY SameStore
  <1>2. /\ store # <<>> /\ push[w].backup = Latest
        /\ Live(w) /\ disk[w] # Nothing /\ doc[w] \notin {"fetching", "moved"}
    BY DEF InProgress, Owned, Pending, HasFile, Live
  <1>3. LatestId \in DOMAIN store /\ Latest = store[LatestId] /\ LatestId = Len(store)
    BY <1>2, LatestFacts DEF Latest, LatestId
  <1>4. /\ push'[w].step = "recorded" /\ push'[w].backup = push[w].backup
        /\ \A v \in Workers : v # w => push'[v] = push[v]
    BY StepOfPush
  <1>5. /\ latest'[w] = LatestId /\ localHash'[w] = Latest
        /\ \A v \in Workers : v # w => latest'[v] = latest[v] /\ localHash'[v] = localHash[v]
    BY <1>2 DEF TypeOK
  <1>6. /\ store' = store /\ disk' = disk /\ doc' = doc /\ changed' = changed
        /\ push[w].step = "uploaded"
    OBVIOUS
  <1> HIDE DEF PushRecords
  <1>7. KnowsVersion'
    BY <1>1, <1>2, <1>3, <1>4, <1>5, <1>6 DEF KnowsVersion, Live
  <1>8. CoversLatest'
    BY <1>1, <1>4, <1>6 DEF CoversLatest, Live
  <1>9. NothingToPush'
    BY <1>1, <1>2, <1>4, <1>5, <1>6 DEF NothingToPush, Pending, Live
  <1>10. SharedOrPushing'
    BY <1>4 DEF SharedOrPushing, Pending
  <1> QED BY <1>1, <1>7, <1>8, <1>9, <1>10

\* What is shared is the latest version.
LEMMA PushSharesSaved ==
    ASSUME BasicInv, SavedInv, NEW w \in Workers, PushShares(w)
    PROVE  SavedInv'
  <1> USE TypeFacts DEF BasicInv, SavedInv, PushShares, externalVars, diskVars, memoryVars
  <1>1. Latest' = Latest /\ LatestId' = LatestId /\ Monotone'
    BY SameStore
  <1>2. push[w].backup = Latest /\ Latest = store[LatestId] /\ latest[w] = LatestId /\ store # <<>>
    BY DEF InProgress, KnowsVersion, Latest, LatestId
  <1>3. KnowsVersion'
    BY <1>1 DEF TypeOK, KnowsVersion, Live
  <1>4. CoversLatest'
    BY <1>1 DEF TypeOK, CoversLatest, Live
  <1>5. NothingToPush'
    BY <1>1, <1>2 DEF TypeOK, NothingToPush, Pending, Live
  <1>6. SharedOrPushing'
    BY <1>1, <1>2 DEF TypeOK, SharedOrPushing, Pending
  <1> QED BY <1>1, <1>3, <1>4, <1>5, <1>6

\* A crash that is no such fault leaves nothing unshared.
LEMMA CrashSaved ==
    ASSUME ~UnsharedFaults, BasicInv, SavedInv, NEW w \in Workers, Crash(w)
    PROVE  SavedInv'
  <1> USE TypeFacts DEF BasicInv, SavedInv, Crash, externalVars, diskVars, memoryVars
  <1>1. Latest' = Latest /\ LatestId' = LatestId /\ Monotone'
    BY SameStore
  <1>2. owner # w => doc[w] = "closed" /\ ~Pending(w)
    BY DEF Owned, Live
  <1>3. owner = w => store = <<>> \/ md5 \in {Nothing, Latest}
    OBVIOUS
  <1>4. KnowsVersion'
    BY <1>1 DEF TypeOK, KnowsVersion, Live
  <1>5. CoversLatest'
    BY <1>1 DEF TypeOK, CoversLatest, Live
  <1>6. NothingToPush'
    BY <1>1, <1>2, <1>3 DEF TypeOK, NothingToPush, Pending, Live
  <1>7. SharedOrPushing'
    BY <1>1, <1>2, <1>3 DEF TypeOK, SharedOrPushing, Pending
  <1> QED BY <1>1, <1>4, <1>5, <1>6, <1>7

\* The checksum expires, or nothing happens.
LEMMA ExpiresSaved ==
    ASSUME SavedInv, ChecksumExpires \/ UNCHANGED vars
    PROVE  SavedInv'
  <1> USE DEF SavedInv, ChecksumExpires, vars, externalVars, diskVars, memoryVars
  <1>1. Latest' = Latest /\ Monotone'
    BY SameStore
  <1>2. KnowsVersion'
    BY <1>1 DEF KnowsVersion, Live
  <1>3. CoversLatest'
    BY <1>1 DEF CoversLatest, Live
  <1>4. NothingToPush'
    BY <1>1 DEF NothingToPush, Pending, Live
  <1>5. SharedOrPushing'
    BY <1>1 DEF SharedOrPushing, Pending
  <1> QED BY <1>1, <1>2, <1>3, <1>4, <1>5

\* As long as no push is cut short there, the invariant of saving holds.
THEOREM SavedInductive == ASSUME ~UnsharedFaults PROVE Spec => []SavedInv
  <1>1. BasicInv /\ SavedInv /\ [Next]_vars => SavedInv'
    BY AssignSaved, ReleaseSaved, RemoveDeadSaved, RestartSaved,
       KeepLocalSaved, WipesFileSaved, WipesHashSaved, WipesLatestSaved,
       StartFetchSaved, FetchMovesSaved, FetchRecordsSaved, ClaimFailsSaved, CreateDocSaved, EditSaved, CloseSaved,
       FlushReturnsSaved, PushStartsSaved, PushUnchangedSaved,
       PushFailsSaved, PushUploadsSaved, PushRecordsSaved, PushSharesSaved,
       CrashSaved, ExpiresSaved DEF Next
  <1> QED BY <1>1, InitSaved, BasicInductive, PTL DEF Spec

\* A document that _claimDocument has opened has all that the latest version
\* has, even after a crash before anything was stored.
THEOREM OpenCopiesAreCurrent == ASSUME ~UnsharedFaults PROVE Spec => []OpensCanonical
  <1>1. SavedInv => OpensCanonical
    BY DEF SavedInv, CoversLatest, OpensCanonical, Live
  <1> QED BY <1>1, SavedInductive, PTL

-----------------------------------------------------------------------------
\* A push that finds nothing to do, or has uploaded, leaves something stored.
LEMMA PushesLeaveVersions ==
    ASSUME BasicInv, NEW w \in Workers, PushUnchanged(w) \/ PushShares(w)
    PROVE  store # <<>>
  <1>1. CASE PushUnchanged(w)
    <2>1. localHash[w] # Nothing
      BY <1>1 DEF PushUnchanged, BasicInv, HasBackup
    <2>2. PICK i \in DOMAIN store : store[i] = localHash[w]
      BY <2>1 DEF BasicInv, ChecksumsNameVersions, Stored
    <2> QED BY <2>2, LatestIsLast DEF BasicInv
  <1>2. CASE PushShares(w)
    BY <1>2 DEF PushShares, BasicInv, InProgress
  <1> QED BY <1>1, <1>2

LEMMA NextCopies ==
    ASSUME ~EarlyCrashes, BasicInv, CopiesAreStored, [Next]_vars
    PROVE  CopiesAreStored'
  <1> USE TypeFacts DEF BasicInv, externalVars, diskVars, memoryVars
  <1>1. ASSUME NEW w \in Workers,
               \/ Assign(w) \/ Release(w) \/ RemoveDead(w) \/ Restart(w)
               \/ KeepLocal(w) \/ StartFetch(w) \/ FetchRecords(w)
               \/ WipesHash(w) \/ WipesLatest(w) \/ ClaimFails(w)
               \/ Close(w) \/ FlushReturns(w)
        PROVE  CopiesAreStored'
    BY <1>1 DEF CopiesAreStored, Pending, Assign, Release, RemoveDead, Restart,
       KeepLocal, StartFetch, FetchRecords, WipesHash, WipesLatest, ClaimFails, Close,
       FlushReturns
  <1>2. ASSUME NEW w \in Workers,
               WipesFile(w) \/ FetchMoves(w) \/ CreateDoc(w) \/ \E e \in Edits : Edit(w, e)
        PROVE  CopiesAreStored'
    BY <1>2 DEF TypeOK, CopiesAreStored, Pending, WipesFile, FetchMoves, CreateDoc, Edit
  <1>3. ASSUME NEW w \in Workers, PushStarts(w) \/ PushFails(w) \/ PushRecords(w)
        PROVE  CopiesAreStored'
    <2>1. Pending(w)' /\ Pending(w)
      <3>1. CASE PushStarts(w)
        BY <3>1 DEF TypeOK, Pending, PushStarts, TakesBackup
      <3>2. CASE PushFails(w)
        BY <3>2 DEF TypeOK, Pending, PushFails
      <3>3. CASE PushRecords(w)
        BY <3>3, StepOfPush DEF Pending, PushRecords
      <3> QED BY <1>3, <3>1, <3>2, <3>3
    <2>2. \A v \in Workers \ {w} : Pending(v)' = Pending(v)
      BY <1>3 DEF TypeOK, Pending, PushStarts, TakesBackup, PushFails, PushRecords
    <2>3. UNCHANGED <<store, disk>>
      BY <1>3 DEF PushStarts, PushFails, PushRecords
    <2> QED BY <2>1, <2>2, <2>3 DEF CopiesAreStored
  <1>4. ASSUME NEW w \in Workers, PushUnchanged(w) \/ PushShares(w)
        PROVE  CopiesAreStored'
    BY <1>4, PushesLeaveVersions DEF CopiesAreStored, PushUnchanged, PushShares
  <1>5. ASSUME NEW w \in Workers, PushUploads(w) PROVE CopiesAreStored'
    <2>1. push[w].backup \in Contents
      BY <1>5 DEF PushUploads, TypeOK, Pushes, HasBackup
    <2> QED BY <1>5, <2>1, AppendFacts DEF CopiesAreStored, PushUploads
  <1>6. ASSUME NEW w \in Workers, Crash(w) PROVE CopiesAreStored'
    <2>1. store = <<>> => ~Pending(w)
      BY <1>6 DEF Crash, Owned, Live
    <2>2. \A v \in Workers \ {w} : Pending(v)' = Pending(v)
      BY <1>6 DEF TypeOK, Pending, Crash
    <2> QED BY <1>6, <2>1, <2>2 DEF CopiesAreStored, Crash
  <1>7. CASE ChecksumExpires \/ UNCHANGED vars
    BY <1>7 DEF CopiesAreStored, Pending, ChecksumExpires, vars
  <1> QED BY <1>1, <1>2, <1>3, <1>4, <1>5, <1>6, <1>7 DEF Next

LEMMA NextReached ==
    ASSUME BasicInv, SavedInv, StoredInv, [Next]_vars
    PROVE  SavedReachedStore'
  <1> USE DEF externalVars, diskVars, memoryVars
  <1>1. ASSUME NEW w \in Workers, FlushReturns(w) PROVE SavedReachedStore'
    <2>1. disk[w] # Nothing /\ Live(w) /\ ~Pending(w)
      BY <1>1 DEF FlushReturns, BasicInv, HasFile, Live
    <2>2. store # <<>> /\ disk[w] = Latest
      BY <2>1 DEF StoredInv, CopiesAreStored, SavedInv, NothingToPush
    <2> QED BY <1>1, <2>2 DEF FlushReturns, StoredInv, SavedReachedStore, Latest
  <1>2. ASSUME NEW w \in Workers, PushUploads(w) PROVE SavedReachedStore'
    <2>1. push[w].backup \in Contents
      BY <1>2 DEF PushUploads, BasicInv, TypeOK, Pushes, HasBackup
    <2>2. store' # <<>> /\ Latest' = push[w].backup
      BY <1>2, <2>1, AppendFacts DEF PushUploads, BasicInv
    <2>3. store # <<>> => Latest \subseteq push[w].backup
      BY <1>2 DEF PushUploads, SavedInv, CoversLatest
    <2> QED BY <1>2, <2>2, <2>3 DEF PushUploads, StoredInv, SavedReachedStore
  <1>3. UNCHANGED <<store, saved>> => SavedReachedStore'
    BY DEF StoredInv, SavedReachedStore, Latest
  <1>4. \/ UNCHANGED <<store, saved>>
        \/ \E w \in Workers : FlushReturns(w) \/ PushUploads(w)
    BY DEF Next, vars, Assign, Release, RemoveDead, KeepLocal, WipesFile, WipesHash,
       WipesLatest, StartFetch, FetchMoves, FetchRecords, ClaimFails, CreateDoc, Edit, Close, PushStarts, PushUnchanged,
       PushRecords, PushShares, PushFails, Crash, Restart, ChecksumExpires
  <1> QED BY <1>1, <1>2, <1>3, <1>4

\* Without the two faults, every copy with nothing to push has been pushed.
THEOREM StoredInductive == ASSUME NoFaults PROVE Spec => []StoredInv
  <1>1. Init => StoredInv
    BY DEF Init, StoredInv, CopiesAreStored, SavedReachedStore
  <1>2. BasicInv /\ SavedInv /\ StoredInv /\ [Next]_vars => StoredInv'
    BY NextCopies, NextReached DEF NoFaults, StoredInv
  <1> QED BY <1>1, <1>2, BasicInductive, SavedInductive, PTL DEF Spec, NoFaults

\* "Make sure document is backed up to s3.": what flushDoc has reported as
\* backed up is in the latest version in the store.
THEOREM SavedIsInStore == ASSUME NoFaults PROVE Spec => []SavedReachedStore
  BY StoredInductive, PTL DEF StoredInv

\* No move of a document between workers, no crash and no retried push loses an
\* edit that flushDoc has reported as backed up.
THEOREM SavedEditsSurvive == ASSUME NoFaults PROVE Spec => []NoSavedEditLost
  <1>1. SavedInv /\ StoredInv => NoSavedEditLost
    BY DEF SavedInv, StoredInv, SavedReachedStore, CoversLatest, NoSavedEditLost, Live
  <1> QED BY <1>1, SavedInductive, StoredInductive, PTL DEF NoFaults

\* A worker that takes the document finds it open nowhere.
LEMMA OpenNowhere ==
    ASSUME BasicInv, NEW w \in Workers, doc[w] \notin {"open", "closing"}, owner = w
    PROVE  \A v \in Workers : opened[v] = Nothing
  <1>1. ASSUME NEW v \in Workers PROVE doc[v] \notin {"open", "closing"}
    BY OneAtWork
  <1> QED BY <1>1 DEF opened

\* A copy with every saved edit is opened.
LEMMA OpensDurable ==
    ASSUME BasicInv, NEW w \in Workers, doc[w] \notin {"open", "closing"}, owner = w,
           doc' = [doc EXCEPT ![w] = "open"], disk'[w] \in Contents, saved \subseteq disk'[w],
           \A v \in Workers \ {w} : disk'[v] = disk[v], UNCHANGED saved
    PROVE  Durable!Open(w)
  <1>1. \A v \in Workers : opened[v] = Nothing
    BY OpenNowhere
  <1>2. opened' = [opened EXCEPT ![w] = disk'[w]]
    BY DEF opened, BasicInv, TypeOK
  <1> QED BY <1>1, <1>2 DEF Durable!Open, Contents

\* Whatever opens, edits, flushes or closes the document does so in the
\* abstract; no other step can be noticed.
LEMMA DurableStep ==
    ASSUME BasicInv, SavedInv, StoredInv, SavedInv', StoredInv', Next
    PROVE  Durable!Next \/ UNCHANGED Durable!vars
  <1> USE TypeFacts DEF Durable!vars, externalVars, diskVars, memoryVars
  <1>1. TypeOK
    BY DEF BasicInv
  <1>2. ASSUME NEW w \in Workers,
               \/ Assign(w) \/ Release(w) \/ RemoveDead(w) \/ Restart(w)
               \/ PushStarts(w) \/ PushUnchanged(w) \/ PushUploads(w)
               \/ PushRecords(w) \/ PushShares(w) \/ PushFails(w)
        PROVE  UNCHANGED Durable!vars
    BY <1>2 DEF opened, Assign, Release, RemoveDead, Restart, PushStarts, TakesBackup,
       PushUnchanged, PushUploads, PushRecords, PushShares, PushFails
  <1>3. ASSUME NEW w \in Workers,
               \/ WipesFile(w) \/ WipesHash(w) \/ WipesLatest(w)
               \/ StartFetch(w) \/ FetchMoves(w) \/ ClaimFails(w) \/ Close(w)
        PROVE  UNCHANGED Durable!vars
    BY <1>3, <1>1 DEF opened, WipesFile, WipesHash, WipesLatest, StartFetch, FetchMoves,
       ClaimFails, Close, ClaimsDoc, TypeOK
  <1>4. ASSUME NEW w \in Workers, KeepLocal(w) PROVE Durable!Open(w)
    <2>1. NoSavedEditLost'
      BY DEF SavedInv, StoredInv, SavedReachedStore, CoversLatest, NoSavedEditLost, Live
    <2>2. doc'[w] = "open" /\ disk' = disk /\ saved' = saved
      BY <1>4, <1>1 DEF KeepLocal, TypeOK
    <2>3. disk[w] # Nothing
      BY <1>4 DEF KeepLocal, BasicInv, HasFile
    <2>4. saved \subseteq disk[w] /\ disk[w] \in Contents
      BY <1>1, <2>1, <2>2, <2>3 DEF NoSavedEditLost, TypeOK
    <2> QED BY <1>4, <2>4, OpensDurable DEF KeepLocal, ClaimsDoc
  <1>5. ASSUME NEW w \in Workers, FetchRecords(w) PROVE Durable!Open(w)
    <2>1. NoSavedEditLost'
      BY DEF SavedInv, StoredInv, SavedReachedStore, CoversLatest, NoSavedEditLost, Live
    <2>2. doc'[w] = "open" /\ disk' = disk /\ saved' = saved
      BY <1>5, <1>1 DEF FetchRecords, TypeOK
    <2>3. disk[w] # Nothing
      BY <1>5 DEF FetchRecords, BasicInv, HasFile
    <2>4. saved \subseteq disk[w] /\ disk[w] \in Contents
      BY <1>1, <2>1, <2>2, <2>3 DEF NoSavedEditLost, TypeOK
    <2>5. owner = w
      BY <1>5 DEF FetchRecords, BasicInv, Owned, Live
    <2> QED BY <1>5, <2>4, <2>5, OpensDurable DEF FetchRecords
  <1>6. ASSUME NEW w \in Workers, CreateDoc(w) PROVE Durable!Open(w)
    <2>1. saved = {}
      BY <1>6 DEF CreateDoc, StoredInv, SavedReachedStore
    <2>2. owner = w
      BY <1>6 DEF CreateDoc, BasicInv, Owned, Live
    <2>3. disk'[w] = {} /\ {} \in Contents
      BY <1>6, <1>1 DEF CreateDoc, TypeOK, Contents
    <2> QED BY <1>6, <1>1, <2>1, <2>2, <2>3, OpensDurable DEF CreateDoc, TypeOK
  <1>7. ASSUME NEW w \in Workers, NEW e \in Edits, Edit(w, e) PROVE Durable!Edit(w, e)
    <2>1. disk[w] \in Contents
      BY <1>7, <1>1 DEF Edit, BasicInv, HasFile, Live, TypeOK
    <2>2. opened[w] = disk[w] /\ opened[w] # Nothing
      BY <1>7, <1>1, <2>1 DEF Edit, opened
    <2>3. opened' = [opened EXCEPT ![w] = disk[w] \cup {e}]
      BY <1>7, <1>1 DEF Edit, opened, TypeOK
    <2> QED BY <1>7, <2>2, <2>3 DEF Edit, Durable!Edit
  <1>8. ASSUME NEW w \in Workers, FlushReturns(w) PROVE Durable!Flush(w) \/ Durable!Close(w)
    <2>1. disk[w] # Nothing
      BY <1>8 DEF FlushReturns, BasicInv, HasFile, Live
    <2>2. opened[w] = disk[w] /\ opened[w] # Nothing
      BY <1>8, <2>1 DEF FlushReturns, opened
    <2>3. CASE doc[w] = "open"
      <3>1. opened' = opened
        BY <1>8, <2>3 DEF FlushReturns, opened
      <3> QED BY <1>8, <2>2, <3>1 DEF FlushReturns, Durable!Flush
    <2>4. CASE doc[w] = "closing"
      <3>1. opened' = [opened EXCEPT ![w] = Nothing]
        BY <1>8, <1>1, <2>4 DEF FlushReturns, opened, TypeOK
      <3> QED BY <1>8, <2>2, <3>1 DEF FlushReturns, Durable!Close
    <2> QED BY <1>8, <2>3, <2>4 DEF FlushReturns
  <1>9. ASSUME NEW w \in Workers, Crash(w)
        PROVE  Durable!Close(w) \/ UNCHANGED Durable!vars
    BY <1>9, <1>1 DEF Crash, Durable!Close, opened, TypeOK
  <1>10. CASE ChecksumExpires
    BY <1>10 DEF ChecksumExpires, opened
  <1> QED BY <1>2, <1>3, <1>4, <1>5, <1>6, <1>7, <1>8, <1>9, <1>10 DEF Next, Durable!Next

\* The storage manager keeps the promise of an abstract document that is open
\* once at most, and opens with every edit that a flush has reported.
THEOREM StorageIsDurable == ASSUME NoFaults PROVE Spec => ImplementsDurable
  <1>1. Init => Durable!Init
    BY DEF Init, Durable!Init, opened
  <1>2. BasicInv /\ SavedInv /\ StoredInv /\ SavedInv' /\ StoredInv' /\ [Next]_vars
           => [Durable!Next]_(Durable!vars)
    BY DurableStep DEF vars, externalVars, diskVars, memoryVars, Durable!vars, opened
  <1> QED BY <1>1, <1>2, BasicInductive, SavedInductive, StoredInductive, PTL
             DEF Spec, NoFaults, ImplementsDurable, Durable!Spec
=============================================================================
