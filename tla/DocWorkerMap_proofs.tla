------------------------ MODULE DocWorkerMap_proofs ------------------------
(***************************************************************************)
(* Proofs about DocWorkerMap, for any workers, documents, home servers,    *)
(* groups and requests.                                                    *)
(***************************************************************************)
EXTENDS DocWorkerMap, TLAPS

RemovalSteps == {"leave", "backOut", "unassign", "dropDocs", "dropGroup", "dropInfo"}

\* Whoever is between two commands of a critical section holds the lock.
LockHeld ==
    \A c \in Callers : /\ call[c].step = "store" => lock = <<"assign", c>>
                       /\ Removing(c) => \E s \in RemovalSteps : lock = <<s, c>>

\* An assignment about to be stored is of a document that has none, to a worker
\* that is registered.
StoreIsSafe ==
    \A c \in Callers :
        call[c].step = "store" => /\ assigned[call[c].doc] = NoWorker
                                  /\ call[c].worker \in workers

\* Once a removal has deleted the assignments, the worker is given no other until
\* it is forgotten.
Emptied ==
    \A c \in Callers : \A s \in {"dropDocs", "dropGroup", "dropInfo"} :
        Removing(c) /\ lock = <<s, c>> => \A d \in Docs : assigned[d] # Removed(c)

\* The shapes of the variables that the proof is about.
MapTypes ==
    /\ workers \subseteq Workers
    /\ docsOf \in [Workers -> SUBSET Docs]
    /\ assigned \in [Docs -> Workers \cup {NoWorker}]
    /\ life \in [Workers -> Lives]

CallTypes ==
    /\ call \in [Callers -> Calls]
    /\ \A c \in Callers : call[c].step # "idle" => call[c].doc \in Docs
    /\ \A c \in Callers : call[c].step \in {"store", "remove", "removing"}
                             => call[c].worker \in Workers

RequestTypes ==
    /\ request \in [Requests -> RequestCalls]
    /\ \A r \in Requests : request[r].step # "idle"
                              => request[r].worker \in Workers /\ request[r].doc \in Docs

IInv ==
    /\ MapTypes /\ CallTypes /\ RequestTypes
    /\ LockHeld /\ StoreIsSafe /\ Emptied
    /\ AssignmentListed /\ AssignedToRegistered

USE NamesAssumption DEF NamesAssumption

LEMMA InitIInv == Init => IInv
  <1> SUFFICES ASSUME Init PROVE IInv
    OBVIOUS
  <1>1. MapTypes /\ CallTypes /\ RequestTypes
    BY DEF Init, MapTypes, CallTypes, RequestTypes, Calls, RequestCalls, Lives, Idle, Callers
  <1>2. LockHeld /\ StoreIsSafe /\ Emptied
    BY DEF Init, LockHeld, StoreIsSafe, Emptied, Removing, Idle, Callers
  <1>3. AssignmentListed /\ AssignedToRegistered
    BY DEF Init, AssignmentListed, AssignedToRegistered
  <1> QED BY <1>1, <1>2, <1>3 DEF IInv

-----------------------------------------------------------------------------
\* Who is inside a critical section, given the lock

Inside(c) == call[c].step = "store" \/ Removing(c)

LEMMA RemovedIsWorker ==
    ASSUME IInv, NEW c \in Callers, Removing(c) \/ AsksToRemove(c)
    PROVE  Removed(c) \in Workers
  BY DEF IInv, CallTypes, Removing, AsksToRemove, Removed, Callers

LEMMA OthersOutside ==
    ASSUME IInv, NEW s, NEW c, lock = <<s, c>>
    PROVE  \A b \in Callers : b # c => ~Inside(b)
  BY DEF IInv, LockHeld, Inside

LEMMA NobodyInside ==
    ASSUME IInv, lock \in {Free, Abandoned} \/ \E w \in Workers : lock \in {<<"group", w>>, <<"elect", w>>}
    PROVE  \A b \in Callers : ~Inside(b)
  BY DEF IInv, LockHeld, Inside, Free, Abandoned, RemovalSteps

\* With nobody inside, what protects critical sections holds whatever the lock is.
LEMMA NothingToProtect ==
    ASSUME (\A b \in Callers : ~Inside(b))'
    PROVE  LockHeld' /\ StoreIsSafe' /\ Emptied'
  BY DEF Inside, LockHeld, StoreIsSafe, Emptied

\* Steps outside of the critical sections, that change no record of an assignment
\* and no caller: they may only take a worker from one point of its life to another.
LEMMA QuietSteps ==
    ASSUME IInv, UNCHANGED <<workers, docsOf, assigned, lock, call>>, RequestTypes',
           \/ UNCHANGED life
           \/ \E w \in Workers, to \in Lives \ {"removing"} :
                 life[w] # "removing" /\ life' = [life EXCEPT ![w] = to]
    PROVE  IInv'
  <1>1. MapTypes' /\ CallTypes'
    BY DEF IInv, MapTypes, CallTypes
  <1>2. \A c \in Callers : Removing(c)' = Removing(c) /\ Removed(c)' = Removed(c)
    BY DEF IInv, MapTypes, Removing, Removed, Callers
  <1>3. LockHeld' /\ StoreIsSafe' /\ Emptied'
    BY <1>2 DEF IInv, LockHeld, StoreIsSafe, Emptied
  <1>4. AssignmentListed' /\ AssignedToRegistered'
    BY DEF IInv, AssignmentListed, AssignedToRegistered
  <1> QED BY <1>1, <1>3, <1>4 DEF IInv

-----------------------------------------------------------------------------
\* addWorker
LEMMA AddingSteps ==
    ASSUME IInv, NEW w \in Workers, AddWorker(w) \/ SetGroup(w) \/ Elect(w)
    PROVE  IInv'
  <1> USE DEF redisDocs
  <1>1. \A b \in Callers : ~Inside(b)
    BY NobodyInside DEF AddWorker, SetGroup, Elect
  <1>2. /\ workers' \in {workers, workers \cup {w}}
        /\ UNCHANGED <<docsOf, assigned, call, request>>
        /\ life' \in {life, [life EXCEPT ![w] = "adding"], [life EXCEPT ![w] = "added"]}
    BY DEF AddWorker, SetGroup, Elect
  <1>3. MapTypes' /\ CallTypes' /\ RequestTypes'
    BY <1>2 DEF IInv, MapTypes, CallTypes, RequestTypes, Lives
  <1>4. (\A b \in Callers : ~Inside(b))'
    BY <1>1, <1>2 DEF IInv, MapTypes, Inside, Removing, Callers
  <1>5. AssignmentListed' /\ AssignedToRegistered'
    BY <1>2 DEF IInv, AssignmentListed, AssignedToRegistered
  <1> QED BY <1>3, <1>4, <1>5, NothingToProtect DEF IInv

LEMMA LockExpiresStep ==
    ASSUME IInv, LockExpires
    PROVE  IInv'
  <1> USE DEF LockExpires, redisSets, redisDocs, workerVars
  <1>1. (\A b \in Callers : ~Inside(b))'
    BY NobodyInside DEF Inside, Removing
  <1>2. MapTypes' /\ CallTypes' /\ RequestTypes'
    BY DEF IInv, MapTypes, CallTypes, RequestTypes
  <1>3. AssignmentListed' /\ AssignedToRegistered'
    BY DEF IInv, AssignmentListed, AssignedToRegistered
  <1> QED BY <1>1, <1>2, <1>3, NothingToProtect DEF IInv

-----------------------------------------------------------------------------
\* assignDocWorker, and the call of a home server that found a worker dead: what
\* a caller asks for, before and after it has the lock.

\* A caller that takes no lock, and is in no critical section before or after.
LEMMA AskingSteps ==
    ASSUME IInv, NEW c \in Callers, ~Inside(c),
           NEW to \in Calls, call' = [call EXCEPT ![c] = to],
           to.step \in {"idle", "assign", "remove"},
           to.step # "idle" => to.doc \in Docs, to.step = "remove" => to.worker \in Workers,
           UNCHANGED <<workers, docsOf, assigned, lock, life, request>>
    PROVE  IInv'
  <1>1. MapTypes' /\ CallTypes' /\ RequestTypes'
    BY DEF IInv, MapTypes, CallTypes, RequestTypes
  <1>2. \A b \in Callers : /\ Inside(b)' <=> Inside(b)
                           /\ Removing(b)' <=> Removing(b)
                           /\ Inside(b) => b # c
    BY DEF IInv, CallTypes, Inside, Removing
  <1>3. LockHeld' /\ StoreIsSafe' /\ Emptied'
    BY <1>2 DEF IInv, CallTypes, Inside, LockHeld, StoreIsSafe, Emptied, Removed
  <1>4. AssignmentListed' /\ AssignedToRegistered'
    BY DEF IInv, AssignmentListed, AssignedToRegistered
  <1> QED BY <1>1, <1>3, <1>4 DEF IInv

LEMMA AssignBeginsStep ==
    ASSUME IInv, NEW c \in Callers, NEW d \in Docs, AssignBegins(c, d)
    PROVE  IInv'
  <1>1. CASE ~Removing(c)
    <2>1. ~Inside(c)
      BY <1>1 DEF AssignBegins, Inside, Idle
    <2>2. Asking("assign", d, NoWorker) \in Calls
      BY DEF Asking, Calls
    <2> QED
      BY <2>1, <2>2, AskingSteps DEF AssignBegins, Asking, redisSets, redisDocs, workerVars
  <1>2. CASE Removing(c)
    \* A worker may still open documents while it removes itself.
    <2> USE DEF AssignBegins, redisSets, redisDocs, workerVars
    <2>1. MapTypes' /\ CallTypes' /\ RequestTypes'
      BY DEF IInv, MapTypes, CallTypes, RequestTypes, Calls, Asking
    <2>2. c \in Workers
      BY <1>2 DEF Removing, Idle, Callers
    <2>3. \A b \in Callers : Removing(b)' = Removing(b) /\ Removed(b)' = Removed(b)
      BY <2>2 DEF Removing, Removed, Callers
    <2>4. \A b \in Callers : call'[b].step = "store" => b # c /\ call'[b] = call[b]
      BY DEF IInv, CallTypes, Asking
    <2>5. LockHeld' /\ StoreIsSafe' /\ Emptied'
      BY <2>3, <2>4 DEF IInv, LockHeld, StoreIsSafe, Emptied
    <2>6. AssignmentListed' /\ AssignedToRegistered'
      BY DEF IInv, AssignmentListed, AssignedToRegistered
    <2> QED BY <2>1, <2>5, <2>6 DEF IInv
  <1> QED BY <1>1, <1>2

LEMMA HomeFindsDeadStep ==
    ASSUME IInv, NEW h \in Homes, NEW d \in Docs, HomeFindsDead(h, d)
    PROVE  IInv'
  <1>1. assigned[d] \in Workers /\ Asking("remove", d, assigned[d]) \in Calls
    BY DEF HomeFindsDead, IInv, MapTypes, Asking, Calls
  <1>2. h \in Callers /\ ~Inside(h)
    BY DEF HomeFindsDead, Inside, Removing, Idle, Callers
  <1> QED
    BY <1>1, <1>2, AskingSteps
       DEF HomeFindsDead, Asking, redisSets, redisDocs, workerVars

\* With the lock free, nobody is inside: the call ends, or comes to storing.
LEMMA AssignTakesSteps ==
    ASSUME IInv, NEW c \in Callers, AssignEnds(c) \/ \E w \in Workers : AssignPicks(c, w)
    PROVE  IInv'
  <1> USE DEF AssignEnds, AssignPicks, redisSets, redisDocs
  <1>1. \A b \in Callers : ~Inside(b)
    BY NobodyInside
  <1>2. UNCHANGED <<workers, docsOf, assigned, life, request>>
    OBVIOUS
  <1>3. \/ call' = [call EXCEPT ![c] = Idle] /\ UNCHANGED lock
        \/ \E w \in workers : /\ call' = [call EXCEPT ![c] = Asking("store", call[c].doc, w)]
                              /\ lock' = <<"assign", c>>
                              /\ assigned[call[c].doc] = NoWorker
    BY DEF TakenWhileWaiting
  <1>4. call[c].doc \in Docs
    BY DEF IInv, CallTypes
  <1>5. MapTypes' /\ CallTypes' /\ RequestTypes'
    <2>1. MapTypes' /\ RequestTypes'
      BY <1>2 DEF IInv, MapTypes, RequestTypes
    <2>2. ASSUME call' = [call EXCEPT ![c] = Idle] PROVE CallTypes'
      <3>1. Idle \in Calls /\ Idle.step = "idle"
        BY DEF Idle, Calls
      <3> QED BY <2>2, <3>1 DEF IInv, CallTypes
    <2>3. ASSUME NEW w \in workers, call' = [call EXCEPT ![c] = Asking("store", call[c].doc, w)]
          PROVE  CallTypes'
      <3>1. w \in Workers
        BY DEF IInv, MapTypes
      <3> QED BY <2>3, <3>1, <1>4 DEF IInv, CallTypes, Calls, Asking
    <2> QED BY <2>1, <2>2, <2>3, <1>3
  <1>6. \A b \in Callers : ~Removing(b)'
    BY <1>1, <1>2, <1>3 DEF IInv, CallTypes, Inside, Removing, Asking, Idle
  <1>7. LockHeld' /\ StoreIsSafe' /\ Emptied'
    BY <1>1, <1>2, <1>3, <1>4, <1>6
       DEF IInv, CallTypes, LockHeld, StoreIsSafe, Emptied, Inside, Asking, Idle
  <1>8. AssignmentListed' /\ AssignedToRegistered'
    BY <1>2 DEF IInv, AssignmentListed, AssignedToRegistered
  <1> QED BY <1>5, <1>7, <1>8 DEF IInv

LEMMA AssignStoresStep ==
    ASSUME IInv, NEW c \in Callers, AssignStores(c)
    PROVE  IInv'
  <1> USE DEF AssignStores, redisSets, redisDocs
  <1>1. \A b \in Callers : b # c => ~Inside(b)
    BY OthersOutside
  <1>2. call[c].doc \in Docs /\ call[c].worker \in Workers
    BY DEF IInv, CallTypes
  <1>3. MapTypes' /\ CallTypes' /\ RequestTypes'
    BY <1>2 DEF Store, IInv, MapTypes, CallTypes, RequestTypes, Calls, Idle
  <1>4. ~Removing(c)
    BY DEF IInv, LockHeld, RemovalSteps
  <1>5. (\A b \in Callers : ~Inside(b))'
    BY <1>1, <1>4 DEF IInv, CallTypes, Inside, Removing, Idle
  <1>6. AssignmentListed' /\ AssignedToRegistered'
    BY <1>2 DEF Store, IInv, MapTypes, AssignmentListed, AssignedToRegistered, StoreIsSafe
  <1> QED BY <1>3, <1>5, <1>6, NothingToProtect DEF IInv

-----------------------------------------------------------------------------
\* removeWorker

LEMMA RemoveTakesStep ==
    ASSUME IInv, NEW c \in Callers, RemoveLeavesAll(c)
    PROVE  IInv'
  <1> USE DEF RemoveLeavesAll, redisDocs
  <1>1. \A b \in Callers : ~Inside(b)
    BY NobodyInside
  <1>2. Removed(c) \in Workers
    BY RemovedIsWorker
  <1>3. /\ call' \in {call, [call EXCEPT ![c].step = "removing"]}
        /\ c \in Homes => UNCHANGED life
        /\ c \notin Homes => UNCHANGED call /\ life' = [life EXCEPT ![c] = "removing"]
    OBVIOUS
  <1>4. MapTypes' /\ RequestTypes'
    BY <1>3 DEF IInv, MapTypes, RequestTypes, Lives, Callers
  <1>5. CallTypes'
    BY DEF IInv, CallTypes, Calls, AsksToRemove
  <1>6. \A b \in Callers : call'[b].step # "store"
    BY <1>1, <1>3 DEF IInv, CallTypes, Calls, Inside
  <1>7. \A b \in Callers : b # c => ~Removing(b)'
    BY <1>1, <1>3 DEF IInv, CallTypes, MapTypes, Inside, Removing, Callers
  <1>8. LockHeld' /\ StoreIsSafe' /\ Emptied'
    BY <1>6, <1>7 DEF LockHeld, StoreIsSafe, Emptied, RemovalSteps
  <1>9. AssignmentListed' /\ AssignedToRegistered'
    BY DEF IInv, AssignmentListed, AssignedToRegistered
  <1> QED BY <1>4, <1>5, <1>8, <1>9 DEF IInv

\* The commands of a removal but the last one.
LEMMA RemoveSteps ==
    ASSUME IInv, NEW c \in Callers,
           \/ RemoveLeavesGroup(c) \/ RemoveBacksOut(c) \/ RemoveUnassigns(c)
           \/ RemoveDropsDocs(c) \/ RemoveDropsGroup(c)
    PROVE  IInv'
  <1> USE DEF RemoveLeavesGroup, RemoveBacksOut, RemoveUnassigns, RemoveDropsDocs,
              RemoveDropsGroup, Removes, redisSets, redisDocs, workerVars
  <1>1. /\ Removing(c)
        /\ \E s \in RemovalSteps : lock = <<s, c>>
        /\ \E s \in RemovalSteps : lock' = <<s, c>>
        /\ UNCHANGED <<workers, call, life, request>>
    BY DEF RemovalSteps
  <1>2. Removed(c) \in Workers
    BY <1>1, RemovedIsWorker
  <1>3. \A b \in Callers : b # c => ~Inside(b)
    BY <1>1, OthersOutside
  <1>4. \/ UNCHANGED <<docsOf, assigned>>
        \/ UNCHANGED docsOf /\ Freed(Removed(c))
        \/ UNCHANGED assigned /\ docsOf' = [docsOf EXCEPT ![Removed(c)] = {}]
    OBVIOUS
  <1>5. MapTypes' /\ CallTypes' /\ RequestTypes'
    BY <1>1, <1>2, <1>4 DEF Freed, IInv, MapTypes, CallTypes, RequestTypes
  <1>6. /\ \A b \in Callers : Removing(b)' = Removing(b) /\ Removed(b)' = Removed(b)
        /\ \A b \in Callers : call[b].step # "store"
    BY <1>1, <1>3 DEF Removing, Removed, Inside, IInv, LockHeld, RemovalSteps
  <1>7. LockHeld' /\ StoreIsSafe'
    BY <1>1, <1>3, <1>6 DEF LockHeld, StoreIsSafe, Inside
  <1>8. Emptied'
    <2>1. CASE RemoveLeavesGroup(c) \/ RemoveBacksOut(c)
      BY <2>1, <1>3, <1>6 DEF Emptied, Inside
    <2>2. CASE RemoveUnassigns(c)
      <3>1. \A d \in Docs : assigned'[d] # Removed(c)
        BY <2>2, <1>2 DEF Freed, IInv, MapTypes, AssignmentListed
      <3> QED BY <2>2, <3>1, <1>3, <1>6 DEF Emptied, Inside
    <2>3. CASE RemoveDropsDocs(c) \/ RemoveDropsGroup(c)
      <3>1. \A d \in Docs : assigned[d] # Removed(c)
        BY <2>3 DEF IInv, Emptied
      <3> QED BY <2>3, <3>1, <1>3, <1>6 DEF Emptied, Inside
    <2> QED BY <2>1, <2>2, <2>3
  <1>9. AssignmentListed'
    <2>1. CASE RemoveDropsDocs(c)
      <3>1. \A d \in Docs : assigned[d] # Removed(c)
        BY <2>1 DEF IInv, Emptied
      <3> QED BY <2>1, <3>1, <1>2 DEF IInv, MapTypes, AssignmentListed
    <2>2. CASE UNCHANGED docsOf /\ (UNCHANGED assigned \/ Freed(Removed(c)))
      BY <2>2 DEF Freed, IInv, MapTypes, AssignmentListed
    <2> QED BY <2>1, <2>2
  <1>10. AssignedToRegistered'
    BY <1>1, <1>4 DEF Freed, IInv, AssignedToRegistered
  <1> QED BY <1>5, <1>7, <1>8, <1>9, <1>10 DEF IInv

\* A worker is forgotten after its documents were.
LEMMA RemoveEndsStep ==
    ASSUME IInv, NEW c \in Callers, RemoveEnds(c)
    PROVE  IInv' /\ \A d \in Docs : assigned[d] # Removed(c)
  <1> USE DEF RemoveEnds, redisDocs
  <1>1. Removed(c) \in Workers /\ \A d \in Docs : assigned[d] # Removed(c)
    BY RemovedIsWorker DEF IInv, Emptied
  <1>2. \A b \in Callers : b # c => ~Inside(b)
    BY OthersOutside
  <1>3. call[c].step # "store"
    BY DEF IInv, LockHeld
  <1>4. MapTypes' /\ RequestTypes'
    BY DEF IInv, MapTypes, RequestTypes, Lives, Callers
  <1>5. CallTypes'
    BY DEF IInv, CallTypes, Calls, Idle
  <1>6. (\A b \in Callers : ~Inside(b))'
    BY <1>2, <1>3 DEF IInv, CallTypes, MapTypes, Inside, Removing, Idle, Callers
  <1>7. AssignmentListed' /\ AssignedToRegistered'
    BY <1>1 DEF IInv, AssignmentListed, AssignedToRegistered
  <1> QED BY <1>1, <1>4, <1>5, <1>6, <1>7, NothingToProtect DEF IInv

-----------------------------------------------------------------------------
\* releaseAssignment, whoever calls it with whatever worker
LEMMA ReleaseStep ==
    ASSUME IInv, NEW w \in Workers, NEW d \in Docs, Release(w, d),
           UNCHANGED <<workers, lock, call, life>>, RequestTypes'
    PROVE  IInv'
  <1> USE DEF IInv, Release
  <1>1. MapTypes' /\ CallTypes'
    BY DEF MapTypes, CallTypes
  <1>2. \A c \in Callers : Removing(c)' = Removing(c) /\ Removed(c)' = Removed(c)
    BY DEF Removing, Removed
  <1>3. \A c \in Callers : Removing(c) => Removed(c) \in Workers
    BY RemovedIsWorker
  <1>4. LockHeld' /\ StoreIsSafe' /\ Emptied'
    BY <1>2, <1>3 DEF LockHeld, StoreIsSafe, Emptied, MapTypes, CallTypes
  <1>5. AssignmentListed' /\ AssignedToRegistered'
    BY DEF AssignmentListed, AssignedToRegistered, MapTypes
  <1> QED BY <1>1, <1>4, <1>5

\* A process that dies, inside a critical section or not.
LEMMA DyingSteps ==
    ASSUME IInv, NEW c \in Callers,
           \/ c \in Workers /\ Ends(c)
           \/ c \in Homes /\ HomeDies(c)
    PROVE  IInv'
  <1> USE DEF Ends, HomeDies, redisSets, redisDocs, workerVars
  <1>1. /\ call' = [call EXCEPT ![c] = Idle]
        /\ \/ life' = life
           \/ c \in Workers /\ life' = [life EXCEPT ![c] = "down"]
        /\ UNCHANGED <<workers, docsOf, assigned>>
        /\ LeavesLock(c)
    <2>1. CASE c \in Workers /\ Ends(c)
      BY <2>1
    <2>2. CASE c \in Homes /\ HomeDies(c)
      BY <2>2
    <2> QED BY <2>1, <2>2
  <1>2. MapTypes' /\ CallTypes'
    BY <1>1 DEF IInv, MapTypes, CallTypes, Calls, Lives, Idle
  <1>3. RequestTypes'
    BY DEF IInv, RequestTypes, RequestCalls, Idle
  <1>4. ~Inside(c)'
    BY <1>1 DEF IInv, CallTypes, MapTypes, Inside, Removing, Idle, Callers
  <1>5. \A b \in Callers : b # c => /\ Removing(b)' = Removing(b)
                                    /\ Removed(b)' = Removed(b)
                                    /\ call'[b] = call[b]
    BY <1>1 DEF IInv, CallTypes, MapTypes, Removing, Removed, Callers
  <1>6. \A b \in Callers : \A s : b # c /\ lock = <<s, b>> => lock' = lock
    BY <1>1 DEF LeavesLock
  <1>7. \A b \in Callers, s \in RemovalSteps : b # c /\ lock' = <<s, b>> => lock' = lock
    BY <1>1 DEF LeavesLock, Abandoned, RemovalSteps
  <1>8. LockHeld' /\ StoreIsSafe'
    BY <1>1, <1>4, <1>5, <1>6 DEF IInv, LockHeld, StoreIsSafe, Inside
  <1>9. Emptied'
    BY <1>1, <1>4, <1>5, <1>7 DEF IInv, Emptied, Inside, RemovalSteps
  <1>10. AssignmentListed' /\ AssignedToRegistered'
    BY <1>1 DEF IInv, AssignmentListed, AssignedToRegistered
  <1> QED BY <1>2, <1>3, <1>8, <1>9, <1>10 DEF IInv

-----------------------------------------------------------------------------
\* POST /docs/:docId/assign
LEMMA RequestSteps ==
    ASSUME IInv, NEW r \in Requests, RequestStep(r)
    PROVE  IInv'
  <1> USE DEF redisSets, redisDocs, workerVars
  <1>1. Idle \in RequestCalls /\ Idle.step = "idle"
    BY DEF Idle, RequestCalls
  <1>2. ASSUME NEW d \in Docs, RequestReads(r, d) PROVE IInv'
    <2>1. RequestTypes'
      BY <1>2 DEF RequestReads, IInv, MapTypes, RequestTypes, RequestCalls, Asking
    <2> QED BY <1>2, <2>1, QuietSteps DEF RequestReads
  <1>3. CASE RequestRefused(r)
    <2>1. RequestTypes'
      BY <1>1, <1>3 DEF RequestRefused, IInv, RequestTypes
    <2> QED BY <1>3, <2>1, QuietSteps DEF RequestRefused
  <1>4. CASE RequestLooksUp(r)
    <2>1. RequestTypes'
      BY <1>4 DEF RequestLooksUp, IInv, RequestTypes, RequestCalls
    <2> QED BY <1>4, <2>1, QuietSteps DEF RequestLooksUp
  <1>5. CASE RequestReleases(r)
    <2>1. request[r].worker \in Workers /\ request[r].doc \in Docs
      BY <1>5 DEF RequestReleases, IInv, RequestTypes
    <2>2. RequestTypes'
      BY <1>1, <1>5 DEF RequestReleases, IInv, RequestTypes
    <2> QED BY <1>5, <2>1, <2>2, ReleaseStep DEF RequestReleases
  <1> QED BY <1>2, <1>3, <1>4, <1>5 DEF RequestStep

\* The start, the shutdown and the end of a worker
LEMMA WorkerSteps ==
    ASSUME IInv, NEW w \in Workers, WorkerStep(w)
    PROVE  IInv'
  <1> USE DEF redisSets, redisDocs
  <1>1. RequestTypes
    BY DEF IInv
  <1>2. CASE JoinReads(w) \/ JoinsGroup(w) \/ JoinsAll(w)
    <2>1. UNCHANGED <<workers, docsOf, assigned, lock, call, request>>
      BY <1>2 DEF JoinReads, JoinsGroup, JoinsAll
    <2>2. \E to \in Lives \ {"removing"} :
             life[w] # "removing" /\ life' = [life EXCEPT ![w] = to]
      BY <1>2 DEF JoinReads, JoinsGroup, JoinsAll, Lives
    <2>3. RequestTypes'
      BY <1>1, <2>1 DEF RequestTypes
    <2> QED BY <2>1, <2>2, <2>3, QuietSteps
  <1>3. CASE PartReads(w) \/ PartsAll(w) \/ PartsGroup(w) \/ ShutdownLeaves(w)
    <2>1. UNCHANGED <<workers, docsOf, assigned, lock, call, request>>
      BY <1>3 DEF PartReads, PartsAll, PartsGroup, ShutdownLeaves
    <2>2. \E to \in Lives \ {"removing"} :
             life[w] # "removing" /\ life' = [life EXCEPT ![w] = to]
      BY <1>3 DEF PartReads, PartsAll, PartsGroup, ShutdownLeaves, Lives
    <2>3. RequestTypes'
      BY <1>1, <2>1 DEF RequestTypes
    <2> QED BY <2>1, <2>2, <2>3, QuietSteps
  <1>4. CASE \/ ShutdownTurn(w)
             \/ \E d \in Docs : OpenAssigned(w, d) \/ ShutdownFails(w, d)
    <2>1. UNCHANGED <<workers, docsOf, assigned, lock, call, life, request>>
      BY <1>4 DEF ShutdownTurn, OpenAssigned, ShutdownFails
    <2>2. RequestTypes'
      BY <1>1, <2>1 DEF RequestTypes
    <2> QED BY <2>1, <2>2, QuietSteps
  <1>5. ASSUME NEW d \in Docs, CloseDoc(w, d) PROVE IInv'
    <2>1. RequestTypes'
      BY <1>1, <1>5 DEF CloseDoc, RequestTypes, RequestCalls, Asking
    <2> QED BY <1>5, <2>1, QuietSteps DEF CloseDoc
  <1>6. ASSUME NEW d \in Docs, ShutdownReleases(w, d) PROVE IInv'
    <2>1. RequestTypes'
      BY <1>1, <1>6 DEF ShutdownReleases, RequestTypes
    <2> QED BY <1>6, <2>1, ReleaseStep DEF ShutdownReleases
  <1>7. CASE AddWorker(w) \/ SetGroup(w) \/ Elect(w)
    BY <1>7, AddingSteps
  <1>8. CASE Ends(w)
    BY <1>8, DyingSteps DEF Callers
  <1> QED BY <1>2, <1>3, <1>4, <1>5, <1>6, <1>7, <1>8 DEF WorkerStep

LEMMA CallerSteps ==
    ASSUME IInv, NEW c \in Callers,
           (\E d \in Docs : AssignBegins(c, d)) \/ TakesLock(c) \/ UnderLock(c)
    PROVE  IInv'
  <1>1. CASE TakesLock(c)
    BY <1>1, AssignTakesSteps, RemoveTakesStep DEF TakesLock
  <1>2. CASE UnderLock(c)
    BY <1>2, AssignStoresStep, RemoveSteps, RemoveEndsStep DEF UnderLock
  <1> QED BY <1>1, <1>2, AssignBeginsStep

LEMMA HomeSteps ==
    ASSUME IInv, NEW h \in Homes, HomeStep(h)
    PROVE  IInv'
  BY HomeFindsDeadStep, DyingSteps DEF HomeStep, Callers

\* The inductive invariant: the lock protects what is about to be stored and what
\* is being removed, and the two records of the assignments agree.
THEOREM Inductive == Spec => []IInv
  <1>1. IInv /\ [Next]_vars => IInv'
    <2> SUFFICES ASSUME IInv, [Next]_vars PROVE IInv'
      OBVIOUS
    <2>1. CASE UNCHANGED vars \/ \E d \in Docs, g \in DocGroups : UpdateDocGroup(d, g)
      <3>1. UNCHANGED <<workers, docsOf, assigned, lock, call, life, request>>
        BY <2>1 DEF vars, UpdateDocGroup, redisSets, redisDocs, workerVars
      <3>2. RequestTypes'
        BY <3>1 DEF IInv, RequestTypes
      <3> QED BY <3>1, <3>2, QuietSteps
    <2> QED
      BY <2>1, WorkerSteps, CallerSteps, HomeSteps, RequestSteps, LockExpiresStep DEF Next
  <1> QED BY <1>1, InitIInv, PTL DEF Spec

\* The set of a worker's documents has every document assigned to it, so that
\* removing the worker frees them all.
THEOREM RemovalFreesAll == Spec => []AssignmentListed
  BY Inductive, PTL DEF IInv

\* No document is ever assigned to a worker that has been forgotten.
THEOREM AssignedWorkersAreKnown == Spec => []AssignedToRegistered
  BY Inductive, PTL DEF IInv

-----------------------------------------------------------------------------
\* Every step of the detailed map registers a worker, grants, gives back or
\* removes, or leaves both records of the abstract map alone.
LEMMA AssignmentStep ==
    ASSUME IInv, Next PROVE Assignment!Next \/ UNCHANGED Assignment!vars
  <1> USE DEF redisDocs, redisSets, workerVars, Assignment!vars
  <1>1. ASSUME NEW docs \in SUBSET Docs, UNCHANGED workers,
               assigned' = [d \in Docs |-> IF d \in docs THEN NoWorker ELSE assigned[d]]
        PROVE  Assignment!Next
    BY <1>1 DEF Assignment!GiveBack, Assignment!Next
  <1>2. ASSUME NEW w \in Workers, NEW d \in Docs, Release(w, d), UNCHANGED workers
        PROVE  Assignment!Next
    <2>1. assigned' = [e \in Docs |-> IF e \in {d} THEN NoWorker ELSE assigned[e]]
      BY <1>2 DEF Release, IInv, MapTypes
    <2> QED BY <1>1, <1>2, <2>1
  <1>3. ASSUME NEW c \in Callers, UnderLock(c)
        PROVE  Assignment!Next \/ UNCHANGED Assignment!vars
    <2>1. CASE AssignStores(c)
      <3>1. call[c].doc \in Docs /\ call[c].worker \in Workers
        BY <2>1 DEF AssignStores, IInv, CallTypes
      <3>2. Assignment!Grant(call[c].doc, call[c].worker)
        BY <2>1 DEF AssignStores, Store, Assignment!Grant, IInv, StoreIsSafe
      <3> QED BY <3>1, <3>2 DEF Assignment!Next
    <2>2. CASE RemoveUnassigns(c)
      <3>1. Removed(c) \in Workers
        BY <2>2, RemovedIsWorker DEF RemoveUnassigns, Removes
      <3>2. docsOf[Removed(c)] \in SUBSET Docs
        BY <3>1 DEF IInv, MapTypes
      <3> QED BY <1>1, <2>2, <3>2 DEF RemoveUnassigns, Freed
    <2>3. CASE RemoveEnds(c)
      <3>1. Removed(c) \in Workers
        BY <2>3, RemovedIsWorker DEF RemoveEnds
      <3>2. Assignment!Remove(Removed(c))
        BY <2>3, RemoveEndsStep DEF RemoveEnds, Assignment!Remove
      <3> QED BY <3>1, <3>2 DEF Assignment!Next
    <2>4. CASE \/ RemoveLeavesGroup(c) \/ RemoveBacksOut(c)
               \/ RemoveDropsDocs(c) \/ RemoveDropsGroup(c)
      BY <2>4 DEF RemoveLeavesGroup, RemoveBacksOut, RemoveDropsDocs, RemoveDropsGroup
    <2> QED BY <1>3, <2>1, <2>2, <2>3, <2>4 DEF UnderLock
  <1>4. ASSUME NEW c \in Callers, TakesLock(c) \/ \E d \in Docs : AssignBegins(c, d)
        PROVE  UNCHANGED Assignment!vars
    BY <1>4 DEF TakesLock, AssignEnds, AssignPicks, RemoveLeavesAll, AssignBegins
  <1>5. ASSUME NEW w \in Workers, WorkerStep(w)
        PROVE  Assignment!Next \/ UNCHANGED Assignment!vars
    <2>1. CASE AddWorker(w)
      BY <2>1 DEF AddWorker, Assignment!Register, Assignment!Next
    <2>2. CASE \E d \in Docs : ShutdownReleases(w, d)
      BY <2>2, <1>2 DEF ShutdownReleases
    <2>3. CASE SetGroup(w) \/ Elect(w) \/ JoinReads(w) \/ JoinsGroup(w) \/ JoinsAll(w)
      BY <2>3 DEF SetGroup, Elect, JoinReads, JoinsGroup, JoinsAll
    <2>4. CASE \/ PartReads(w) \/ PartsAll(w) \/ PartsGroup(w)
               \/ ShutdownTurn(w) \/ ShutdownLeaves(w) \/ Ends(w)
      BY <2>4 DEF PartReads, PartsAll, PartsGroup, ShutdownTurn, ShutdownLeaves, Ends
    <2>5. CASE \E d \in Docs : OpenAssigned(w, d) \/ CloseDoc(w, d) \/ ShutdownFails(w, d)
      BY <2>5 DEF OpenAssigned, CloseDoc, ShutdownFails
    <2> QED BY <1>5, <2>1, <2>2, <2>3, <2>4, <2>5 DEF WorkerStep
  <1>6. ASSUME NEW h \in Homes, HomeStep(h)
        PROVE  UNCHANGED Assignment!vars
    BY <1>6 DEF HomeStep, HomeFindsDead, HomeDies
  <1>7. ASSUME NEW r \in Requests, RequestStep(r)
        PROVE  Assignment!Next \/ UNCHANGED Assignment!vars
    <2>1. CASE RequestReleases(r)
      <3>1. request[r].worker \in Workers /\ request[r].doc \in Docs
        BY <2>1 DEF RequestReleases, IInv, RequestTypes
      <3> QED BY <2>1, <3>1, <1>2 DEF RequestReleases
    <2>2. CASE RequestRefused(r) \/ RequestLooksUp(r) \/ \E d \in Docs : RequestReads(r, d)
      BY <2>2 DEF RequestRefused, RequestLooksUp, RequestReads
    <2> QED BY <1>7, <2>1, <2>2 DEF RequestStep
  <1>8. CASE LockExpires \/ \E d \in Docs, g \in DocGroups : UpdateDocGroup(d, g)
    BY <1>8 DEF LockExpires, UpdateDocGroup
  <1> QED BY <1>3, <1>4, <1>5, <1>6, <1>7, <1>8 DEF Next

\* The map of doc workers, with its lock, its half-done removals and its callers
\* that die anywhere, implements the abstract one.
THEOREM MapImplementsAssignment == Spec => ImplementsAssignment
  <1>1. Init => Assignment!Init
    BY DEF Init, Assignment!Init
  <1>2. IInv /\ [Next]_vars => [Assignment!Next]_(Assignment!vars)
    BY AssignmentStep DEF vars, redisSets, redisDocs, Assignment!vars
  <1> QED BY <1>1, <1>2, Inductive, PTL DEF Spec, ImplementsAssignment, Assignment!Spec

\* An assignment is never overwritten by another: the check made under the lock
\* still holds when the assignment is stored.
THEOREM AssignmentsAreNotStolen == Spec => NoDirectTransfer
  <1> DEFINE Kept == \A d \in Docs : assigned[d] # NoWorker
                                        => assigned'[d] \in {assigned[d], NoWorker}
  <1>1. IInv /\ [Next]_vars => [Kept]_vars
    <2> SUFFICES ASSUME IInv, Next PROVE Kept
      OBVIOUS
    <2>1. \/ Assignment!Next
          \/ UNCHANGED assigned
      BY AssignmentStep DEF Assignment!vars
    <2> QED
      BY <2>1 DEF Assignment!Next, Assignment!Register, Assignment!Grant,
         Assignment!GiveBack, Assignment!Remove, IInv, MapTypes
  <1> HIDE DEF Kept
  <1>2. Spec => [][Kept]_vars
    BY <1>1, Inductive, PTL DEF Spec
  <1> QED BY <1>2 DEF NoDirectTransfer, Kept

-----------------------------------------------------------------------------
\* The variables that IInv says nothing of have their types; who is about to be
\* elected has been given a group that has elections.
OtherTypes ==
    /\ available \subseteq Workers
    /\ availableIn \in [Groups -> SUBSET Workers]
    /\ workerGroup \in [Workers -> Groups]
    /\ elected \in [Range(GroupOrder) -> [Workers -> Nat]]
    /\ docGroup \in [Docs -> Groups]
    /\ lock \in {Free, Abandoned} \cup (LockSteps \X Callers)
    /\ \A w \in Workers : lock = <<"elect", w>> => workerGroup[w] \in Range(GroupOrder)
    /\ seenGroup \in [Workers -> Groups]
    /\ serving \in [Workers -> SUBSET Docs]
    /\ muted \in [Workers -> SUBSET Docs]
    /\ job \in [Workers -> [Docs -> {"none", "open", "shut"}]]
    /\ turns \in [Workers -> 0..ShutdownTurns]

LEMMA InitOtherTypes == Init => OtherTypes
  BY GroupsAssumption DEF Init, OtherTypes, Groups, GroupsAssumption, Free, LockSteps

\* The operators that actions share keep the types of what they assign.
LEMMA OpensTypes ==
    ASSUME OtherTypes, NEW c, NEW d \in Docs, NEW w, Opens(c, d, w)
    PROVE  serving' \in [Workers -> SUBSET Docs]
  BY DEF OtherTypes, Opens

LEMMA JobTypes ==
    ASSUME OtherTypes, NEW w, NEW d \in Docs, NEW to \in {"none", "shut"},
           job' = [job EXCEPT ![w][d] = to] \/ UNCHANGED job
    PROVE  job' \in [Workers -> [Docs -> {"none", "open", "shut"}]]
  <1>1. w \in Workers => [job[w] EXCEPT ![d] = to] \in [Docs -> {"none", "open", "shut"}]
    BY DEF OtherTypes
  <1> QED BY <1>1 DEF OtherTypes

\* Steps that change none of these variables.
LEMMA OtherTypesKept ==
    ASSUME OtherTypes,
           UNCHANGED <<available, availableIn, workerGroup, elected, docGroup, lock, seenGroup,
                       serving, muted, job, turns>>
    PROVE  OtherTypes'
  BY DEF OtherTypes

LEMMA StartTypes ==
    ASSUME IInv, OtherTypes, NEW w \in Workers,
           \/ AddWorker(w) \/ SetGroup(w) \/ Elect(w)
           \/ JoinReads(w) \/ JoinsGroup(w) \/ JoinsAll(w)
    PROVE  OtherTypes'
  <1> USE DEF redisSets, redisDocs
  <1>1. CASE AddWorker(w)
    BY <1>1 DEF AddWorker, OtherTypes, LockSteps, Callers
  <1>2. CASE SetGroup(w)
    <2>1. UNCHANGED <<available, availableIn, elected, docGroup, seenGroup, serving, muted,
                      job, turns>>
      BY <1>2 DEF SetGroup
    <2>2. Preset[w] \in Groups
      BY GroupsAssumption DEF GroupsAssumption
    <2>3. CASE lock' = Free /\ workerGroup' \in {workerGroup, [workerGroup EXCEPT ![w] = Preset[w]]}
      BY <2>1, <2>2, <2>3 DEF OtherTypes, Free
    <2>4. ASSUME NEW i \in Vacant, workerGroup' = [workerGroup EXCEPT ![w] = GroupOrder[i]],
                 lock' = <<"elect", w>>
          PROVE  OtherTypes'
      <3>1. GroupOrder[i] \in Range(GroupOrder) /\ GroupOrder[i] \in Groups
        BY DEF Vacant, Range, Groups
      <3> QED BY <2>1, <2>4, <3>1 DEF OtherTypes, LockSteps, Callers
    <2> QED BY <1>2, <2>3, <2>4 DEF SetGroup
  <1>3. CASE Elect(w)
    <2>1. workerGroup[w] \in Range(GroupOrder)
      BY <1>3 DEF Elect, OtherTypes
    <2>2. [elected[workerGroup[w]] EXCEPT ![w] = @ + 1] \in [Workers -> Nat]
      BY <2>1 DEF OtherTypes
    <2>3. elected' \in [Range(GroupOrder) -> [Workers -> Nat]]
      BY <1>3, <2>1, <2>2 DEF Elect, OtherTypes
    <2> QED BY <1>3, <2>3 DEF Elect, OtherTypes, Free
  <1>4. CASE JoinReads(w) \/ JoinsAll(w)
    BY <1>4 DEF JoinReads, JoinsAll, OtherTypes
  <1>5. CASE JoinsGroup(w)
    <2>1. seenGroup[w] \in Groups /\ Default \in Groups
      BY DEF OtherTypes, Groups
    <2> QED BY <1>5, <2>1 DEF JoinsGroup, OtherTypes
  <1> QED BY <1>1, <1>2, <1>3, <1>4, <1>5

LEMMA ShutdownTypes ==
    ASSUME IInv, OtherTypes, NEW w \in Workers,
           \/ PartReads(w) \/ PartsAll(w) \/ PartsGroup(w)
           \/ ShutdownTurn(w) \/ ShutdownLeaves(w)
           \/ \E d \in Docs : ShutdownReleases(w, d) \/ ShutdownFails(w, d)
    PROVE  OtherTypes'
  <1> USE DEF redisSets, redisDocs
  <1>1. CASE PartReads(w) \/ PartsAll(w) \/ ShutdownLeaves(w)
    BY <1>1 DEF PartReads, PartsAll, ShutdownLeaves, OtherTypes
  <1>2. CASE PartsGroup(w)
    <2>1. seenGroup[w] \in Groups /\ Default \in Groups
      BY DEF OtherTypes, Groups
    <2> QED BY <1>2, <2>1 DEF PartsGroup, OtherTypes
  <1>3. CASE ShutdownTurn(w)
    <2>1. \A d \in Docs : JobFor(w, d) \in {"none", "open", "shut"}
      BY DEF JobFor
    <2>2. turns[w] + 1 \in 0..ShutdownTurns
      BY <1>3, GroupsAssumption DEF ShutdownTurn, TurnsLeft, OtherTypes, GroupsAssumption
    <2> QED BY <1>3, <2>1, <2>2 DEF ShutdownTurn, OtherTypes
  <1>4. ASSUME NEW d \in Docs, ShutdownReleases(w, d) PROVE OtherTypes'
    <2>1. serving' \in [Workers -> SUBSET Docs] /\ muted' \in [Workers -> SUBSET Docs]
      <3>1. \/ UNCHANGED <<serving, muted>>
            \/ /\ serving' = [serving EXCEPT ![w] = @ \ {d}]
               /\ muted' = [muted EXCEPT ![w] = @ \cup {d}]
        BY <1>4 DEF ShutdownReleases
      <3>2. serving[w] \in SUBSET Docs /\ muted[w] \in SUBSET Docs
        BY DEF OtherTypes
      <3>3. [serving EXCEPT ![w] = @ \ {d}] \in [Workers -> SUBSET Docs]
        BY <3>2 DEF OtherTypes
      <3>4. [muted EXCEPT ![w] = @ \cup {d}] \in [Workers -> SUBSET Docs]
        BY <3>2 DEF OtherTypes
      <3> QED BY <3>1, <3>3, <3>4 DEF OtherTypes
    <2>2. job' \in [Workers -> [Docs -> {"none", "open", "shut"}]]
      BY <1>4, JobTypes DEF ShutdownReleases
    <2> QED BY <1>4, <2>1, <2>2 DEF ShutdownReleases, OtherTypes
  <1>5. ASSUME NEW d \in Docs, ShutdownFails(w, d) PROVE OtherTypes'
    BY <1>5, JobTypes DEF ShutdownFails, OtherTypes
  <1> QED BY <1>1, <1>2, <1>3, <1>4, <1>5

LEMMA OpenDocTypes ==
    ASSUME OtherTypes, NEW w \in Workers, NEW d \in Docs, OpenAssigned(w, d) \/ CloseDoc(w, d)
    PROVE  OtherTypes'
  <1> USE DEF redisSets, redisDocs
  <1>1. CASE OpenAssigned(w, d)
    BY <1>1, OpensTypes DEF OpenAssigned, OtherTypes
  <1>2. CASE CloseDoc(w, d)
    <2>1. job' \in [Workers -> [Docs -> {"none", "open", "shut"}]]
      BY <1>2, JobTypes DEF CloseDoc
    <2> QED BY <1>2, <2>1 DEF CloseDoc, OtherTypes
  <1> QED BY <1>1, <1>2

\* What assignDocWorker and removeWorker do.
LEMMA CallerTypes ==
    ASSUME IInv, OtherTypes, NEW c \in Callers,
           (\E d \in Docs : AssignBegins(c, d)) \/ TakesLock(c) \/ UnderLock(c)
    PROVE  OtherTypes'
  <1> USE DEF redisSets, redisDocs, workerVars
  <1>1. CASE \E d \in Docs : AssignBegins(c, d)
    BY <1>1, OtherTypesKept DEF AssignBegins
  <1>2. CASE AssignEnds(c) \/ \E w \in Workers : AssignPicks(c, w)
    <2>1. call[c].doc \in Docs
      BY <1>2 DEF AssignEnds, AssignPicks, IInv, CallTypes
    <2>2. job' \in [Workers -> [Docs -> {"none", "open", "shut"}]]
      BY <1>2, <2>1, JobTypes DEF AssignEnds, AssignPicks, OpeningFails
    <2>3. serving' \in [Workers -> SUBSET Docs]
      BY <1>2, <2>1, OpensTypes DEF AssignEnds, AssignPicks, OtherTypes
    <2>4. lock' \in {lock, <<"assign", c>>}
      BY <1>2 DEF AssignEnds, AssignPicks
    <2>5. UNCHANGED <<available, availableIn, workerGroup, elected, docGroup, seenGroup,
                      muted, turns>>
      BY <1>2 DEF AssignEnds, AssignPicks
    <2> QED BY <2>2, <2>3, <2>4, <2>5 DEF OtherTypes, LockSteps
  <1>3. CASE AssignStores(c)
    <2>1. call[c].doc \in Docs
      BY <1>3 DEF AssignStores, IInv, CallTypes
    <2> QED BY <1>3, <2>1, OpensTypes DEF AssignStores, OtherTypes, Free
  <1>4. CASE RemoveLeavesAll(c)
    BY <1>4 DEF RemoveLeavesAll, OtherTypes, LockSteps
  <1>5. CASE \/ RemoveLeavesGroup(c) \/ RemoveUnassigns(c)
             \/ RemoveDropsDocs(c) \/ RemoveDropsGroup(c)
    BY <1>5 DEF RemoveLeavesGroup, RemoveUnassigns, RemoveDropsDocs, RemoveDropsGroup,
       Removes, OtherTypes, LockSteps, Groups
  <1>6. CASE RemoveBacksOut(c)
    <2>1. Removed(c) \in Workers
      BY <1>6, RemovedIsWorker DEF RemoveBacksOut, Removes
    <2>2. elected' \in [Range(GroupOrder) -> [Workers -> Nat]]
      BY <1>6, <2>1 DEF RemoveBacksOut, OtherTypes
    <2> QED BY <1>6, <2>2 DEF RemoveBacksOut, Removes, OtherTypes, LockSteps
  <1>7. CASE RemoveEnds(c)
    BY <1>7 DEF RemoveEnds, OtherTypes, Free
  <1> QED
    BY <1>1, <1>2, <1>3, <1>4, <1>5, <1>6, <1>7 DEF TakesLock, UnderLock

LEMMA DyingTypes ==
    ASSUME OtherTypes,
           LockExpires \/ (\E h \in Homes : HomeDies(h)) \/ \E w \in Workers : Ends(w)
    PROVE  OtherTypes'
  <1> USE DEF redisSets, redisDocs, workerVars
  <1>1. ASSUME NEW c, LeavesLock(c), UNCHANGED workerGroup
        PROVE  /\ lock' \in {Free, Abandoned} \cup (LockSteps \X Callers)
               /\ \A w \in Workers : (lock = <<"elect", w>> => workerGroup[w] \in Range(GroupOrder))'
    BY <1>1 DEF LeavesLock, OtherTypes, Abandoned
  <1>2. ASSUME NEW h \in Homes, HomeDies(h) PROVE OtherTypes'
    BY <1>1, <1>2 DEF HomeDies, OtherTypes
  <1>3. ASSUME NEW w \in Workers, Ends(w) PROVE OtherTypes'
    BY <1>1, <1>3, GroupsAssumption DEF Ends, OtherTypes, Groups, GroupsAssumption
  <1>4. CASE LockExpires
    BY <1>4 DEF LockExpires, OtherTypes, Free
  <1> QED BY <1>2, <1>3, <1>4

\* Every variable keeps its type: in particular the loop of a shutdown stops at
\* its last turn, and groups, elections and calls name what exists.
THEOREM TypeCorrect == Spec => []TypeOK
  <1>1. IInv /\ OtherTypes /\ [Next]_vars => OtherTypes'
    <2> SUFFICES ASSUME IInv, OtherTypes, [Next]_vars PROVE OtherTypes'
      OBVIOUS
    <2> USE DEF redisSets, redisDocs, workerVars
    <2>1. CASE UNCHANGED vars
      BY <2>1, OtherTypesKept DEF vars
    <2>2. ASSUME NEW r \in Requests, RequestStep(r) PROVE OtherTypes'
      BY <2>2, OtherTypesKept
         DEF RequestStep, RequestReads, RequestRefused, RequestLooksUp, RequestReleases
    <2>3. ASSUME NEW d \in Docs, NEW g \in DocGroups, UpdateDocGroup(d, g) PROVE OtherTypes'
      BY <2>3, GroupsAssumption DEF UpdateDocGroup, OtherTypes, GroupsAssumption
    <2>4. ASSUME NEW w \in Workers, WorkerStep(w) PROVE OtherTypes'
      BY <2>4, StartTypes, ShutdownTypes, OpenDocTypes, DyingTypes DEF WorkerStep
    <2>5. ASSUME NEW h \in Homes, HomeStep(h) PROVE OtherTypes'
      <3>1. CASE \E d \in Docs : HomeFindsDead(h, d)
        BY <3>1, OtherTypesKept DEF HomeFindsDead
      <3> QED BY <2>5, <3>1, DyingTypes DEF HomeStep
    <2>6. CASE LockExpires
      BY <2>6, DyingTypes
    <2> QED BY <2>1, <2>2, <2>3, <2>4, <2>5, <2>6, CallerTypes DEF Next
  <1>2. IInv /\ OtherTypes => TypeOK
    BY DEF IInv, MapTypes, CallTypes, RequestTypes, OtherTypes, TypeOK
  <1> QED BY <1>1, <1>2, InitOtherTypes, Inductive, PTL DEF Spec
=============================================================================
