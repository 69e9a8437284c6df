---------------------- MODULE SnapshotInventory_proofs ----------------------
(***************************************************************************)
(* Proofs about SnapshotInventory, for any number of versions, requests    *)
(* and faults.  Each result assumes closed only the windows that break it. *)
(***************************************************************************)
EXTENDS SnapshotInventory, WellFoundedInduction, TLAPS

USE BoundsAssumption DEF BoundsAssumption

-----------------------------------------------------------------------------
\* A set of natural numbers that is not empty has a smallest element.
LEMMA Smallest ==
    ASSUME NEW S \in SUBSET Nat, S # {}
    PROVE  \E n \in S : \A m \in S : n <= m
  <1>1. PICK n \in S : \A m \in S : <<m, n>> \notin OpToRel(<, Nat)
    BY NatLessThanWellFounded, WFMin
  <1>2. \A m \in S : ~(m < n)
    BY <1>1 DEF OpToRel
  <1> QED BY <1>2

\* The first of a list that is not empty is its newest version.
LEMMA FirstFacts ==
    ASSUME NEW list \in SUBSET Versions
    PROVE  /\ list = {} => First(list) = 0
           /\ list # {} => First(list) \in list /\ \A u \in list : u <= First(list)
  <1>1. CASE list = {}
    BY <1>1 DEF First
  <1>2. CASE list # {}
    <2> DEFINE Ages == {n \in Nat : MaxVersions - n \in list}
    <2>1. \A v \in list : v \in Nat /\ v <= MaxVersions
      BY DEF Versions
    <2>2. PICK v \in list : TRUE
      BY <1>2
    <2>3. MaxVersions - v \in Ages
      BY <2>1, <2>2
    <2>4. PICK n \in Ages : \A m \in Ages : n <= m
      <3>1. Ages \in SUBSET Nat /\ Ages # {}
        BY <2>3
      <3> HIDE DEF Ages
      <3> QED BY <3>1, Smallest
    <2>5. ASSUME NEW u \in list PROVE u <= MaxVersions - n
      <3>1. MaxVersions - u \in Ages
        BY <2>1
      <3>2. n <= MaxVersions - u
        BY <2>4, <3>1
      <3> QED BY <2>1, <2>4, <3>2
    <2>6. \E w \in list : \A u \in list : u <= w
      BY <2>4, <2>5
    <2> QED BY <1>2, <2>6 DEF First
  <1> QED BY <1>1, <1>2

-----------------------------------------------------------------------------
\* Types

Steps == {"none", "look", "rebuild", "have", "removed", "flush"}
Doers == Removers \cup {"nobody", "push", "close"}

\* Ranges of the counters, and what stays in them.
LEMMA BoundFacts ==
    /\ 0 \in 0..MaxFaults /\ 0 \in 0..MaxRequests /\ 0 \in 0..MaxVersions
    /\ \A f \in 0..MaxFaults : f < MaxFaults => f + 1 \in 0..MaxFaults
    /\ \A q \in 0..MaxRequests : q < MaxRequests => q + 1 \in 0..MaxRequests
    /\ \A v \in 0..MaxVersions :
          v < MaxVersions => v + 1 \in 0..MaxVersions /\ v + 1 \in Versions
    /\ \A v \in Versions : v \in 0..MaxVersions
    /\ \A l \in SUBSET Versions : First(l) \in 0..MaxVersions
  <1>1. \A l \in SUBSET Versions : First(l) \in 0..MaxVersions
    <2> SUFFICES ASSUME NEW l \in SUBSET Versions PROVE First(l) \in 0..MaxVersions
      OBVIOUS
    <2>1. First(l) = 0 \/ First(l) \in l
      BY FirstFacts
    <2>2. First(l) = 0 \/ First(l) \in Versions
      BY <2>1
    <2> QED BY <2>2 DEF Versions
  <1> QED BY <1>1 DEF Versions

LEMMA NoOpFacts ==
    /\ NoOp \in Ops /\ NoOp.by = "nobody" /\ NoOp.step = "none"
    /\ NoOp.expect = 0 /\ NoOp.list = {}
  <1>1. NoOp.list = {}
    BY DEF NoOp
  <1> QED BY <1>1 DEF NoOp, Ops, Removers

\* What is done under the mutex, a step further.
LEMMA OpFields ==
    ASSUME NEW o \in Ops
    PROVE  /\ o.by \in Doers /\ o.step \in Steps /\ o.expect \in 0..MaxVersions
           /\ o.list \in SUBSET Versions /\ o.new \in 0..MaxVersions
  BY DEF Ops, Doers, Steps

LEMMA StepSet ==
    ASSUME op \in Ops, NEW s \in Steps, op' = [op EXCEPT !.step = s]
    PROVE  /\ op' \in Ops /\ op'.by = op.by /\ op'.step = s /\ op'.expect = op.expect
           /\ op'.list = op.list /\ op'.new = op.new
  BY DEF Ops, Steps

LEMMA ListSet ==
    ASSUME op \in Ops, NEW s \in Steps, NEW l \in SUBSET Versions,
           op' = [op EXCEPT !.step = s, !.list = l]
    PROVE  /\ op' \in Ops /\ op'.by = op.by /\ op'.step = s /\ op'.expect = op.expect
           /\ op'.list = l /\ op'.new = op.new
  BY DEF Ops, Steps

\* What is begun under the mutex.
LEMMA BeginFacts ==
    ASSUME NEW by \in Removers \cup {"close"}, NEW step \in Steps,
           NEW expect \in 0..MaxVersions, Begins(by, step, expect)
    PROVE  /\ Free /\ op' \in Ops /\ op'.by = by /\ op'.step = step
           /\ op'.expect = expect /\ op'.list = {}
  <1>1. op' = [by |-> by, step |-> step, expect |-> expect, list |-> {}, new |-> 0]
    BY DEF Begins, NoOp
  <1>2. {} \in SUBSET Versions
    OBVIOUS
  <1>3. op' \in Ops
    BY <1>1, <1>2, BoundFacts DEF Ops, Steps, Removers
  <1>4. Free
    BY DEF Begins
  <1>5. op'.by = by /\ op'.step = step /\ op'.expect = expect
    BY <1>1
  <1>6. op'.list = {}
    BY <1>1
  <1> QED BY <1>3, <1>4, <1>5, <1>6

LEMMA PushBeginFacts ==
    ASSUME NEW expect \in 0..MaxVersions, NEW new \in 0..MaxVersions,
           op' = [NoOp EXCEPT !.by = "push", !.step = "look", !.expect = expect, !.new = new]
    PROVE  /\ op' \in Ops /\ op'.by = "push" /\ op'.step = "look" /\ op'.expect = expect
           /\ op'.list = {} /\ op'.new = new
  <1>1. op' = [by |-> "push", step |-> "look", expect |-> expect, list |-> {}, new |-> new]
    BY DEF NoOp
  <1>2. {} \in SUBSET Versions
    OBVIOUS
  <1>3. op' \in Ops
    BY <1>1, <1>2 DEF Ops, Removers
  <1>4. op'.by = "push" /\ op'.step = "look" /\ op'.expect = expect /\ op'.new = new
    BY <1>1
  <1>5. op'.list = {}
    BY ONLY <1>1
  <1> QED BY <1>3, <1>4, <1>5

RemoverSteps == {"idle", "reading", "comparing", "listing", "chosen"}

LEMMA StepFacts ==
    ASSUME remover \in [Removers -> RemoverStates], NEW r \in Removers,
           NEW step \in RemoverSteps, NEW ids \in SUBSET Versions, Step(r, step, ids)
    PROVE  /\ remover' \in [Removers -> RemoverStates]
           /\ remover'[r].step = step /\ remover'[r].ids = ids
           /\ \A q \in Removers : q # r => remover'[q] = remover[q]
  BY DEF Step, RemoverStates, RemoverSteps

\* The pruner and the API, when they have nothing to do.
LEMMA IdleFacts ==
    /\ Idle \in RemoverStates /\ Idle.step = "idle" /\ Idle.ids = {}
    /\ \A r \in Removers : [q \in Removers |-> Idle][r] = Idle
    /\ [q \in Removers |-> Idle] \in [Removers -> RemoverStates]
  BY DEF Idle, RemoverStates, Versions

\* The version that a push has uploaded.
PushHasVersion == op.by = "push" => op.new \in Versions
Types == TypeOK /\ PushHasVersion

LEMMA InitTypes == Init => Types
  <1> SUFFICES ASSUME Init PROVE Types
    OBVIOUS
  <1>1. op \in Ops /\ op.by # "push" /\ remover \in [Removers -> RemoverStates]
    BY NoOpFacts, IdleFacts DEF Init
  <1>2. meta \in Lists /\ file \in Lists /\ needFlush \in BOOLEAN /\ wanted \in BOOLEAN
    <2>1. {} \in Lists /\ Nothing \in Lists
      BY DEF Lists
    <2> QED BY <2>1 DEF Init
  <1>3. versions \subseteq Versions /\ unanswered \subseteq Versions
    BY DEF Init
  <1>4. faults \in 0..MaxFaults /\ requests \in 0..MaxRequests /\ last \in 0..MaxVersions
        /\ latest \in 0..MaxVersions
    BY BoundFacts DEF Init
  <1> QED BY <1>1, <1>2, <1>3, <1>4 DEF Init, Types, TypeOK, PushHasVersion

\* What the operation under the mutex does next.
LEMMA NextStepTypes ==
    ASSUME op \in Ops, PushHasVersion, NEW s \in Steps,
           op' = [op EXCEPT !.step = s]
    PROVE  op' \in Ops /\ PushHasVersion'
  <1>1. op' \in Ops /\ op'.by = op.by /\ op'.new = op.new
    BY StepSet
  <1> QED BY <1>1 DEF PushHasVersion

LEMMA NextListTypes ==
    ASSUME op \in Ops, PushHasVersion, NEW s \in Steps, NEW l \in SUBSET Versions,
           op' = [op EXCEPT !.step = s, !.list = l]
    PROVE  op' \in Ops /\ PushHasVersion'
  <1>1. op' \in Ops /\ op'.by = op.by /\ op'.new = op.new
    BY ListSet
  <1> QED BY <1>1 DEF PushHasVersion

LEMMA NoOpTypes == op' = NoOp => op' \in Ops /\ PushHasVersion'
  BY NoOpFacts DEF PushHasVersion

LEMMA BeginTypes ==
    ASSUME NEW by \in Removers \cup {"close"}, NEW step \in Steps,
           NEW expect \in 0..MaxVersions, Begins(by, step, expect)
    PROVE  op' \in Ops /\ PushHasVersion'
  <1>1. op' \in Ops /\ op'.by = by
    BY BeginFacts
  <1> QED BY <1>1 DEF PushHasVersion, Removers

LEMMA ReadTypes == ASSUME Types, Reads PROVE Types'
  <1>0. op \in Ops /\ PushHasVersion /\ "have" \in Steps /\ "rebuild" \in Steps
        /\ versions \in SUBSET Versions
    BY DEF Types, TypeOK, Steps
  <1> USE DEF storeVars, diskVars, docVars, removerVars, boundVars
  <1>1. CASE FindInFile
    <2>1. file \in SUBSET Versions
      <3>1. file \in Lists /\ file # Nothing
        BY <1>1 DEF FindInFile, Usable, Types, TypeOK
      <3> QED BY <3>1 DEF Lists
    <2>2. op' \in Ops /\ PushHasVersion'
      BY <1>0, <1>1, <2>1, NextListTypes DEF FindInFile, Found
    <2> QED BY <1>1, <2>2 DEF FindInFile, Types, TypeOK
  <1>2. CASE FindInMeta
    <2>1. meta \in SUBSET Versions
      <3>1. meta \in Lists /\ meta # Nothing
        BY <1>2 DEF FindInMeta, Downloads, Types, TypeOK
      <3> QED BY <3>1 DEF Lists
    <2>2. op' \in Ops /\ PushHasVersion'
      <3>1. CASE Usable(meta, op.expect)
        BY <1>0, <1>2, <2>1, <3>1, NextListTypes DEF FindInMeta, Found
      <3>2. CASE ~Usable(meta, op.expect)
        BY <1>0, <1>2, <3>2, NextStepTypes DEF FindInMeta
      <3> QED BY <3>1, <3>2
    <2> QED BY <1>2, <2>2 DEF FindInMeta, Types, TypeOK
  <1>3. CASE FindNothing
    <2>1. op' \in Ops /\ PushHasVersion'
      BY <1>0, <1>3, NextStepTypes DEF FindNothing
    <2> QED BY <1>3, <2>1 DEF FindNothing, Types, TypeOK
  <1>4. CASE Reconstruct
    <2>1. op' \in Ops /\ PushHasVersion'
      BY <1>0, <1>4, NextListTypes DEF Reconstruct, Found
    <2>2. file' \in Lists /\ needFlush' \in BOOLEAN
      BY <1>0, <1>4 DEF Reconstruct, Lists
    <2> QED BY <1>4, <2>1, <2>2 DEF Reconstruct, Types, TypeOK
  <1> QED BY <1>1, <1>2, <1>3, <1>4 DEF Reads

LEMMA PushTypes == ASSUME Types, Edit \/ Pushes PROVE Types'
  <1> USE DEF storeVars, diskVars, docVars, removerVars, boundVars
  <1>1. CASE Edit
    BY <1>1 DEF Edit, Types, TypeOK, PushHasVersion
  <1>2. CASE PushUnchanged
    BY <1>2 DEF PushUnchanged, Types, TypeOK, PushHasVersion
  <1>3. CASE PushUploads
    <2>1. last' \in Versions /\ last' \in 0..MaxVersions /\ latest \in 0..MaxVersions
      BY <1>3, BoundFacts DEF PushUploads, Types, TypeOK
    <2>2. op' \in Ops /\ op'.new = last'
      <3>1. op' = [NoOp EXCEPT !.by = "push", !.step = "look", !.expect = latest, !.new = last']
        BY <1>3 DEF PushUploads
      <3> QED BY <2>1, <3>1, PushBeginFacts
    <2>3. versions' \subseteq Versions
      BY <1>3, <2>1 DEF PushUploads, Types, TypeOK
    <2> QED BY <1>3, <2>1, <2>2, <2>3 DEF PushUploads, Types, TypeOK, PushHasVersion
  <1>4. CASE PushUnanswered
    <2>1. last' \in Versions /\ last' \in 0..MaxVersions /\ faults' \in 0..MaxFaults
      <3>1. last < MaxVersions
        BY <1>4 DEF PushUnanswered, Types, TypeOK
      <3> QED BY <1>4, <3>1, BoundFacts DEF PushUnanswered, Types, TypeOK
    <2>2. versions' \subseteq Versions /\ unanswered' \subseteq Versions
      BY <1>4, <2>1 DEF PushUnanswered, Types, TypeOK
    <2>3. latest' \in 0..MaxVersions /\ synced' \in BOOLEAN
      BY <1>4, <2>1 DEF PushUnanswered, Types, TypeOK
    <2> QED BY <1>4, <2>1, <2>2, <2>3 DEF PushUnanswered, Types, TypeOK, PushHasVersion
  <1>5. CASE PushAdds
    <2>1. op.list \cup {op.new} \in Lists
      <3>1. op.list \in SUBSET Versions
        BY OpFields DEF Types, TypeOK
      <3>2. op.new \in Versions
        BY <1>5 DEF PushAdds, Types, PushHasVersion
      <3> QED BY <3>1, <3>2 DEF Lists
    <2>2. op' \in Ops /\ PushHasVersion'
      BY <1>5, NoOpTypes DEF PushAdds
    <2>3. file' \in Lists /\ needFlush' \in BOOLEAN
      BY <1>5, <2>1 DEF PushAdds, Types, TypeOK
    <2> QED BY <1>5, <2>2, <2>3 DEF PushAdds, Types, TypeOK
  <1> QED BY <1>1, <1>2, <1>3, <1>4, <1>5 DEF Pushes

LEMMA RequestTypes ==
    ASSUME Types, NEW step \in {"reading", "chosen", "comparing"},
           NEW ids \in SUBSET Versions, Requests(step, ids)
    PROVE  remover' \in [Removers -> RemoverStates] /\ requests' \in 0..MaxRequests
  <1>1. remover' \in [Removers -> RemoverStates]
    BY StepFacts DEF Requests, Removers, RemoverSteps, Types, TypeOK
  <1>2. requests' \in 0..MaxRequests
    BY BoundFacts DEF Requests, Types, TypeOK
  <1> QED BY <1>1, <1>2

LEMMA ChoiceTypes == ASSUME Types, Prunes \/ Calls \/ ApiLists \/ ApiChooses PROVE Types'
  <1> USE DEF storeVars, diskVars, docVars, removerVars, boundVars
  <1>0. /\ {} \in SUBSET Versions /\ op.list \in SUBSET Versions /\ versions \in SUBSET Versions
        /\ remover \in [Removers -> RemoverStates] /\ remover["api"].ids \in SUBSET Versions
        /\ "pruner" \in Removers /\ "api" \in Removers /\ "look" \in Steps
        /\ latest \in 0..MaxVersions /\ 0 \in 0..MaxVersions
        /\ {"listing", "chosen", "idle"} \subseteq RemoverSteps
    <2>1. op.list \in SUBSET Versions
      BY OpFields DEF Types, TypeOK
    <2>2. remover["api"].ids \in SUBSET Versions
      BY DEF RemoverStates, Removers, Types, TypeOK
    <2> QED BY <2>1, <2>2, BoundFacts DEF Types, TypeOK, Removers, Steps, RemoverSteps
  <1>1. CASE PruneStarts
    <2>1. op' \in Ops /\ PushHasVersion'
      BY <1>0, <1>1, BeginTypes DEF PruneStarts
    <2>2. remover' \in [Removers -> RemoverStates]
      BY <1>0, <1>1, StepFacts DEF PruneStarts
    <2> QED BY <1>1, <2>1, <2>2 DEF PruneStarts, Types, TypeOK
  <1>2. CASE PruneChooses
    <2>1. PICK ids \in SUBSET (op.list \ {First(op.list)}) : Step("pruner", "chosen", ids)
      BY <1>2 DEF PruneChooses
    <2>2. ids \in SUBSET Versions
      BY <1>0
    <2>3. remover' \in [Removers -> RemoverStates]
      BY <1>0, <2>1, <2>2, StepFacts
    <2>4. op' \in Ops /\ PushHasVersion'
      BY <1>2, NoOpTypes DEF PruneChooses
    <2> QED BY <1>2, <2>3, <2>4 DEF PruneChooses, Types, TypeOK
  <1>3. CASE ApiReads
    <2>1. op' \in Ops /\ PushHasVersion'
      BY <1>0, <1>3, BeginTypes DEF ApiReads
    <2>2. remover' \in [Removers -> RemoverStates] /\ requests' \in 0..MaxRequests
      BY <1>0, <1>3, RequestTypes DEF ApiReads
    <2> QED BY <1>3, <2>1, <2>2 DEF ApiReads, Types, TypeOK
  <1>4. CASE ApiRemovesPast
    <2>1. remover' \in [Removers -> RemoverStates] /\ requests' \in 0..MaxRequests
      <3>1. Past \in SUBSET Versions
        BY <1>0 DEF Past
      <3> QED BY <3>1, <1>4, RequestTypes DEF ApiRemovesPast
    <2> QED BY <1>4, <2>1 DEF ApiRemovesPast, Types, TypeOK, PushHasVersion
  <1>5. CASE ApiRemovesGiven
    <2>1. PICK ids \in SUBSET versions : Requests("chosen", ids)
      BY <1>5 DEF ApiRemovesGiven
    <2>2. ids \in SUBSET Versions
      BY <1>0
    <2>3. remover' \in [Removers -> RemoverStates] /\ requests' \in 0..MaxRequests
      BY <2>1, <2>2, RequestTypes
    <2> QED BY <1>5, <2>3 DEF ApiRemovesGiven, Types, TypeOK, PushHasVersion
  <1>6. CASE ApiListsStore
    <2>1. remover' \in [Removers -> RemoverStates] /\ requests' \in 0..MaxRequests
      BY <1>0, <1>6, RequestTypes DEF ApiListsStore
    <2> QED BY <1>6, <2>1 DEF ApiListsStore, Types, TypeOK, PushHasVersion
  <1>7. CASE ApiLists
    <2>1. op' \in Ops /\ PushHasVersion'
      BY <1>0, <1>7, BeginTypes DEF ApiLists
    <2>3. remover' \in [Removers -> RemoverStates]
      BY <1>0, <1>7, StepFacts DEF ApiLists
    <2> QED BY <1>7, <2>1, <2>3 DEF ApiLists, Types, TypeOK
  <1>8. CASE ApiChooses
    <2>1. remover["api"].ids \ op.list \in SUBSET Versions
      BY <1>0
    <2>2. remover' \in [Removers -> RemoverStates]
      <3>1. CASE Step("api", "chosen", remover["api"].ids \ op.list)
        BY <1>0, <2>1, <3>1, StepFacts
      <3>2. CASE Step("api", "idle", {})
        BY <1>0, <3>2, StepFacts
      <3> QED BY <1>8, <3>1, <3>2 DEF ApiChooses
    <2>3. op' \in Ops /\ PushHasVersion'
      BY <1>8, NoOpTypes DEF ApiChooses
    <2> QED BY <1>8, <2>2, <2>3 DEF ApiChooses, Types, TypeOK
  <1> QED BY <1>1, <1>2, <1>3, <1>4, <1>5, <1>6, <1>7, <1>8 DEF Prunes, Calls

LEMMA RemovalTypes ==
    ASSUME Types,
           \/ \E r \in Removers :
                 RemoveStarts(r) \/ RemoveNone(r) \/ RemoveRefused(r) \/ RemoveFromStore(r)
           \/ RemoveFromList
    PROVE  Types'
  <1> USE DEF storeVars, diskVars, docVars, removerVars, boundVars
  <1>0. /\ op \in Ops /\ PushHasVersion /\ op.list \in SUBSET Versions
        /\ {} \in SUBSET Versions /\ remover \in [Removers -> RemoverStates]
        /\ "look" \in Steps /\ "flush" \in Steps /\ "removed" \in Steps
        /\ "idle" \in RemoverSteps /\ 0 \in 0..MaxVersions
    <2>1. op.list \in SUBSET Versions
      BY OpFields DEF Types, TypeOK
    <2> QED BY <2>1, BoundFacts DEF Types, TypeOK, Steps, RemoverSteps
  <1>1. ASSUME NEW r \in Removers, RemoveStarts(r) PROVE Types'
    <2>1. op' \in Ops /\ PushHasVersion'
      BY <1>0, <1>1, BeginTypes DEF RemoveStarts
    <2> QED BY <1>1, <2>1 DEF RemoveStarts, Types, TypeOK
  <1>2. ASSUME NEW r \in Removers, RemoveNone(r) PROVE Types'
    <2>1. op' \in Ops /\ PushHasVersion'
      BY <1>0, <1>2, NextStepTypes DEF RemoveNone
    <2> QED BY <1>2, <2>1 DEF RemoveNone, Types, TypeOK
  <1>3. ASSUME NEW r \in Removers, RemoveRefused(r) PROVE Types'
    <2>1. remover' \in [Removers -> RemoverStates]
      BY <1>0, <1>3, StepFacts DEF RemoveRefused
    <2>2. op' \in Ops /\ PushHasVersion'
      BY <1>3, NoOpTypes DEF RemoveRefused
    <2> QED BY <1>3, <2>1, <2>2 DEF RemoveRefused, Types, TypeOK
  <1>4. ASSUME NEW r \in Removers, RemoveFromStore(r) PROVE Types'
    <2>1. Left(remover[r].ids) \in SUBSET Versions
      BY <1>0 DEF Left
    <2>2. op' \in Ops /\ PushHasVersion'
      BY <1>0, <1>4, <2>1, NextListTypes DEF RemoveFromStore
    <2>3. versions' \subseteq Versions
      BY <1>4 DEF RemoveFromStore, Types, TypeOK
    <2> QED BY <1>4, <2>2, <2>3 DEF RemoveFromStore, Types, TypeOK
  <1>5. CASE RemoveFromList
    <2>1. op' \in Ops /\ PushHasVersion'
      BY <1>0, <1>5, NextStepTypes DEF RemoveFromList
    <2>2. file' \in Lists
      BY <1>0, <1>5 DEF RemoveFromList, Lists
    <2> QED BY <1>5, <2>1, <2>2 DEF RemoveFromList, Types, TypeOK
  <1> QED BY <1>1, <1>2, <1>3, <1>4, <1>5

LEMMA OtherTypes ==
    ASSUME Types,
           \/ Flush \/ StepFails \/ Crash \/ Close \/ CloseFlushes \/ CloseEnds
           \/ OpenKeeping \/ OpenFetching \/ UNCHANGED vars
    PROVE  Types'
  <1> USE DEF storeVars, diskVars, docVars, removerVars, boundVars
  <1>0. ASSUME NEW by PROVE
          [r \in Removers |-> IF r = by THEN Idle ELSE remover[r]] \in [Removers -> RemoverStates]
    BY IdleFacts DEF Types, TypeOK
  <1>a. ASSUME FileLeft PROVE file' \in Lists
    BY <1>a DEF FileLeft, Lists, Types, TypeOK
  <1>1. CASE Flush
    <2>1. op' \in Ops /\ PushHasVersion'
      BY <1>1, NoOpTypes DEF Flush
    <2>2. meta' \in Lists /\ needFlush' \in BOOLEAN
      BY <1>1 DEF Flush, Flushes, Types, TypeOK
    <2>3. remover' \in [Removers -> RemoverStates]
      BY <1>0, <1>1 DEF Flush
    <2> QED BY <1>1, <2>1, <2>2, <2>3 DEF Flush, Types, TypeOK
  <1>2. CASE StepFails
    <2>1. faults' \in 0..MaxFaults
      BY <1>2, BoundFacts DEF StepFails, Types, TypeOK
    <2>2. remover' \in [Removers -> RemoverStates]
      BY <1>0, <1>2 DEF StepFails
    <2>3. pending' \in BOOLEAN /\ open' \in BOOLEAN /\ closing' \in BOOLEAN /\ file' \in Lists
      BY <1>a, <1>2 DEF StepFails
    <2>4. op' \in Ops /\ PushHasVersion'
      BY <1>2, NoOpTypes DEF StepFails
    <2> QED BY <1>2, <2>1, <2>2, <2>3, <2>4 DEF StepFails, Types, TypeOK
  <1>3. CASE Crash
    <2>1. faults' \in 0..MaxFaults /\ latest' \in 0..MaxVersions
      BY <1>3, BoundFacts DEF Crash, Types, TypeOK
    <2>2. op' \in Ops /\ PushHasVersion'
      BY <1>3, NoOpTypes DEF Crash
    <2>3. remover' \in [Removers -> RemoverStates]
      BY <1>3, IdleFacts DEF Crash
    <2>4. file' \in Lists
      BY <1>a, <1>3 DEF Crash
    <2> QED BY <1>3, <2>1, <2>2, <2>3, <2>4 DEF Crash, Types, TypeOK
  <1>4. CASE Close
    BY <1>4 DEF Close, Types, TypeOK, PushHasVersion
  <1>5. CASE CloseFlushes
    <2>1. op' \in Ops /\ PushHasVersion'
      BY <1>5, BeginTypes, BoundFacts DEF CloseFlushes, Steps
    <2> QED BY <1>5, <2>1 DEF CloseFlushes, Types, TypeOK
  <1>6. CASE CloseEnds
    BY <1>6 DEF CloseEnds, Types, TypeOK, PushHasVersion
  <1>7. CASE OpenKeeping
    BY <1>7 DEF OpenKeeping, Types, TypeOK, PushHasVersion
  <1>8. CASE OpenFetching
    <2>1. latest' \in 0..MaxVersions
      BY <1>8, BoundFacts DEF OpenFetching, Types, TypeOK
    <2>2. file' \in Lists
      BY <1>8 DEF OpenFetching, Lists, Types, TypeOK
    <2>3. faults' \in 0..MaxFaults
      BY <1>8, BoundFacts DEF OpenFetching, Types, TypeOK
    <2> QED BY <1>8, <2>1, <2>2, <2>3 DEF OpenFetching, Types, TypeOK, PushHasVersion
  <1>9. CASE UNCHANGED vars
    BY <1>9 DEF vars, Types, TypeOK, PushHasVersion
  <1> QED BY <1>1, <1>2, <1>3, <1>4, <1>5, <1>6, <1>7, <1>8, <1>9

LEMMA TypesKept == Types /\ [Next]_vars => Types'
  BY ReadTypes, PushTypes, ChoiceTypes, RemovalTypes, OtherTypes DEF Next, Removals

\* The variables have the values the code gives them.
THEOREM TypeCorrect == Spec => []TypeOK
  BY InitTypes, TypesKept, PTL DEF Spec, Types
-----------------------------------------------------------------------------
(***************************************************************************)
(* The inductive invariant, whatever is removed: a process starts with a   *)
(* list that has the latest version.                                       *)
(***************************************************************************)
UpTo(list, v) == \A u \in list : u <= v

\* All lists have versions uploaded so far.
Numbered ==
    /\ UpTo(versions, last) /\ UpTo(unanswered, last)
    /\ file # Nothing => UpTo(file, last)
    /\ meta # Nothing => UpTo(meta, last)
    /\ UpTo(op.list, last)
    /\ \A r \in Removers : UpTo(remover[r].ids, last)

\* Only an open document is pushed, and nothing is uploaded or removed before
\* the inventory has the version; only a document that closes, or is closed, is
\* flushed.
AtWork ==
    /\ Free \/ op.by # "nobody"
    /\ pending \/ op.by = "push" => open
    /\ op.by = "push" => /\ op.new = last /\ last \in versions /\ latest = last
                         /\ op.step \in {"look", "rebuild", "have"}
    /\ op.by = "close" => op.step = "flush" /\ ~pending /\ (closing \/ ~open)

\* What the process knows to be the latest version.
LatestRight ==
    /\ latest \in {0, last} \/ last \notin Known
    /\ latest # 0 => UpTo(Known, latest)
    /\ latest = 0 => op.expect = 0

\* A list lacks only versions newer than its first.
Complete(list) == \A v \in Known : v <= First(list) => v \in list
ListsComplete ==
    /\ file # Nothing => Complete(file)
    /\ meta # Nothing => Complete(meta)
    /\ Complete(op.list)

\* A process that has not yet opened the document, which may find old lists; from
\* then on what it reads without cross-check has all versions.
Fresh == /\ ~open /\ ~closing /\ ~wanted /\ \A r \in Removers : remover[r] = Idle
         /\ Free \/ op.by = "close"
ToRead == IF file # Nothing THEN file ELSE meta
Has(list, vs) == list # Nothing => vs \subseteq list
ReadsAll == latest = 0 /\ ~Fresh =>
    /\ Has(ToRead, Known)
    /\ op.step \in {"have", "removed"} => Known \subseteq op.list

\* The list that a push reads has all versions but the one it adds.
Earlier == Known \ {last}
PushFinds == op.by = "push" =>
    /\ op.step # "have" /\ op.expect # 0 => UpTo(Earlier, op.expect)
    /\ op.step # "have" /\ op.expect = 0 => Has(ToRead, Earlier)
    /\ op.step = "have" => Earlier \subseteq op.list

Inv == Numbered /\ AtWork /\ LatestRight /\ ListsComplete /\ ReadsAll /\ PushFinds

LEMMA SetFacts ==
    ASSUME Types
    PROVE  /\ versions \in SUBSET Versions /\ unanswered \in SUBSET Versions
           /\ Known \in SUBSET Versions /\ op.list \in SUBSET Versions
           /\ file # Nothing => file \in SUBSET Versions
           /\ meta # Nothing => meta \in SUBSET Versions
           /\ \A r \in Removers : remover[r].ids \in SUBSET Versions
           /\ \A v \in Versions : v \in Nat /\ v # 0
           /\ last \in Nat /\ latest \in Nat /\ op.expect \in Nat
  <1>1. op.list \in SUBSET Versions /\ op.expect \in 0..MaxVersions
    BY OpFields DEF Types, TypeOK
  <1>2. \A r \in Removers : remover[r].ids \in SUBSET Versions
    BY DEF Types, TypeOK, RemoverStates
  <1>3. \A v \in Versions : v \in Nat /\ v # 0
    BY DEF Versions
  <1>4. last \in Nat /\ latest \in Nat /\ op.expect \in Nat
    BY <1>1 DEF Types, TypeOK
  <1>5. file \in Lists /\ meta \in Lists /\ versions \in SUBSET Versions
        /\ unanswered \in SUBSET Versions
    BY DEF Types, TypeOK
  <1>6. /\ file # Nothing => file \in SUBSET Versions
        /\ meta # Nothing => meta \in SUBSET Versions
    BY <1>5 DEF Lists
  <1> QED BY <1>1, <1>2, <1>3, <1>4, <1>5, <1>6 DEF Known

\* A list whose first is the current version has no other to lack.
LEMMA CompleteOf ==
    ASSUME NEW list \in SUBSET Versions, NEW v \in Nat, Complete(list), UpTo(Known, v),
           First(list) = v
    PROVE  Known \subseteq list
  BY DEF Complete, UpTo

LEMMA CompleteEmpty ==
    ASSUME Types
    PROVE  Complete({})
  <1>1. First({}) = 0
    BY DEF First
  <1> QED BY <1>1, SetFacts DEF Complete

LEMMA KnownNumbered ==
    ASSUME Types, Numbered
    PROVE  UpTo(Known, last)
  BY DEF Numbered, UpTo, Known

\* The current version is the first of every list that has it.
LEMMA LastIsFirst ==
    ASSUME NEW list \in SUBSET Versions, UpTo(list, last), last \in list, last \in Nat
    PROVE  First(list) = last
  <1>1. First(list) \in list /\ \A u \in list : u <= First(list)
    BY FirstFacts
  <1>2. First(list) \in Nat /\ First(list) <= last /\ last <= First(list)
    <2>1. First(list) \in Versions
      BY <1>1
    <2> QED BY <1>1, <2>1 DEF UpTo, Versions
  <1> QED BY <1>2

-----------------------------------------------------------------------------
(***************************************************************************)
(* Steps that only begin or end an operation, or have nothing to do with   *)
(* the lists.                                                              *)
(***************************************************************************)
LEMMA ListsKept ==
    ASSUME Types, Types', Inv, UNCHANGED <<storeVars, latest>>,
           \A r \in Removers : UpTo(remover'[r].ids, last),
           \/ op' = op /\ file' = file
           \/ /\ file' \in {file, Nothing}
              /\ op'.list = {} /\ op'.step \notin {"have", "removed"} /\ op'.by # "push"
              /\ latest = 0 => op'.expect = 0
    PROVE  Numbered' /\ LatestRight' /\ ListsComplete' /\ PushFinds'
  <1> USE DEF storeVars
  <1>1. Known' = Known /\ Earlier' = Earlier
    BY DEF Known, Earlier
  <1>2. CASE op' = op /\ file' = file
    <2>1. ToRead' = ToRead
      BY <1>2 DEF ToRead
    <2> QED
      BY <1>1, <1>2, <2>1 DEF Inv, Numbered, LatestRight, ListsComplete, Complete, PushFinds
  <1>3. CASE /\ file' \in {file, Nothing}
             /\ op'.list = {} /\ op'.step \notin {"have", "removed"} /\ op'.by # "push"
             /\ latest = 0 => op'.expect = 0
    <2>1. Numbered'
      BY <1>3 DEF Inv, Numbered, UpTo
    <2>2. LatestRight' /\ PushFinds'
      BY <1>1, <1>3 DEF Inv, LatestRight, PushFinds
    <2>3. ListsComplete'
      BY <1>1, <1>3, CompleteEmpty DEF Inv, ListsComplete, Complete
    <2> QED BY <2>1, <2>2, <2>3
  <1> QED BY <1>2, <1>3

\* No operation is begun or goes on before the document is opened.
LEMMA ReadsKept ==
    ASSUME Inv, UNCHANGED <<storeVars, file, latest>>, ~Fresh,
           op' = op \/ op'.step \notin {"have", "removed"}
    PROVE  ReadsAll'
  <1>1. Known' = Known /\ ToRead' = ToRead
    BY DEF Known, ToRead, storeVars
  <1> QED BY <1>1 DEF Inv, ReadsAll

\* What is about to be removed changes for one remover at a time.
LEMMA RemoverSet ==
    ASSUME Types, Inv, NEW r \in Removers, NEW step \in RemoverSteps, NEW ids \in SUBSET Versions,
           UpTo(ids, last), Step(r, step, ids)
    PROVE  \A q \in Removers : UpTo(remover'[q].ids, last)
  <1>1. remover \in [Removers -> RemoverStates]
    BY DEF Types, TypeOK
  <1>2. remover'[r].ids = ids /\ \A q \in Removers : q # r => remover'[q] = remover[q]
    BY <1>1, StepFacts
  <1> QED BY <1>2 DEF Inv, Numbered

LEMMA FreshFacts ==
    ASSUME Fresh, Inv
    PROVE  /\ ~open /\ ~closing /\ ~pending /\ ~wanted
           /\ op.by \in {"nobody", "close"} /\ op.step \in {"none", "flush"}
           /\ \A r \in Removers : remover[r].step = "idle"
  BY IdleFacts, NoOpFacts DEF Fresh, Inv, AtWork, Free

\* Editing, closing, and a push of what is in the store already
LEMMA QuietSteps ==
    ASSUME Types, Types', Inv, Edit \/ PushUnchanged \/ Close \/ CloseEnds \/ UNCHANGED vars
    PROVE  Inv'
  <1> USE DEF storeVars, diskVars, docVars, removerVars, boundVars
  <1>1. /\ UNCHANGED <<storeVars, file, needFlush, latest>> /\ op' = op
        /\ UNCHANGED remover
    BY DEF Edit, PushUnchanged, Close, CloseEnds, vars
  <1>2. Numbered' /\ LatestRight' /\ ListsComplete' /\ PushFinds'
    BY <1>1, ListsKept DEF Inv, Numbered
  <1>3. CASE UNCHANGED vars
    BY <1>1, <1>2, <1>3 DEF vars, Inv, AtWork, ReadsAll, Known, ToRead, Fresh, Free
  <1>4. CASE Edit \/ PushUnchanged \/ Close \/ CloseEnds
    <2>1. ~Fresh
      BY <1>4, FreshFacts DEF Edit, PushUnchanged, Close, CloseEnds
    <2>2. ReadsAll'
      BY <1>1, <2>1, ReadsKept
    <2>3. ASSUME Edit \/ PushUnchanged \/ Close PROVE AtWork'
      BY <1>1, <2>3, NoOpFacts DEF Edit, PushUnchanged, Close, Inv, AtWork, Free
    <2>4. ASSUME CloseEnds PROVE AtWork'
      <3>1. ~pending /\ op = NoOp
        BY <2>4 DEF CloseEnds, AllSaved, IsSaved, Free
      <3> QED BY <1>1, <2>4, <3>1, NoOpFacts DEF CloseEnds, AtWork, Free
    <2>5. AtWork'
      BY <1>4, <2>3, <2>4 DEF Inv
    <2> QED BY <1>2, <2>2, <2>5 DEF Inv
  <1> QED BY <1>3, <1>4

\* An operation is begun under the mutex.
LEMMA BeginSteps ==
    ASSUME Types, Types', Inv,
           PruneStarts \/ ApiReads \/ ApiLists \/ CloseFlushes \/ \E r \in Removers : RemoveStarts(r)
    PROVE  Inv'
  <1> USE DEF storeVars, diskVars, docVars, removerVars, boundVars
  <1>0. /\ "look" \in Steps /\ "flush" \in Steps /\ "pruner" \in Removers /\ "api" \in Removers
        /\ latest \in 0..MaxVersions /\ 0 \in 0..MaxVersions /\ {} \in SUBSET Versions
        /\ remover \in [Removers -> RemoverStates]
        /\ \A r \in Removers : r \in Removers \cup {"close"}
        /\ {"listing", "reading"} \subseteq RemoverSteps
        /\ remover["api"].ids \in SUBSET Versions
    BY BoundFacts, SetFacts DEF Types, TypeOK, Steps, Removers, RemoverSteps
  <1>1. /\ UNCHANGED <<storeVars, file, needFlush, latest, open, closing, pending>>
        /\ \E by \in Removers \cup {"close"} :
              \/ Begins(by, "look", 0) \/ Begins(by, "look", latest) \/ Begins(by, "flush", 0)
    BY <1>0 DEF PruneStarts, ApiReads, ApiLists, CloseFlushes, RemoveStarts
  <1>2. PICK by \in Removers \cup {"close"} :
           Begins(by, "look", 0) \/ Begins(by, "look", latest) \/ Begins(by, "flush", 0)
    BY <1>1
  <1>3. /\ Free /\ op'.list = {} /\ op'.step \in {"look", "flush"} /\ op'.by = by
        /\ op'.expect \in {0, latest}
    BY <1>0, <1>2, BeginFacts
  <1>4. by # "push" /\ by # "nobody"
    BY DEF Removers
  <1>5. Numbered' /\ LatestRight' /\ ListsComplete' /\ PushFinds'
    <2>1. UpTo({}, last) /\ UpTo(remover["api"].ids, last)
      BY <1>0 DEF Inv, Numbered, UpTo
    <2>2. \/ UNCHANGED remover
          \/ Step("pruner", "listing", {})
          \/ Step("api", "reading", {})
          \/ Step("api", "listing", remover["api"].ids)
      BY DEF PruneStarts, ApiReads, Requests, ApiLists, CloseFlushes, RemoveStarts
    <2>3. CASE UNCHANGED remover
      BY <1>1, <1>3, <1>4, <2>3, ListsKept DEF Inv, Numbered
    <2>4. CASE ~UNCHANGED remover
      <3>1. \A q \in Removers : UpTo(remover'[q].ids, last)
        BY <1>0, <2>1, <2>2, <2>4, RemoverSet
      <3> QED BY <1>1, <1>3, <1>4, <3>1, ListsKept
    <2> QED BY <2>3, <2>4
  <1>6. AtWork'
    <2>1. CASE CloseFlushes
      <3>1. op'.by = "close" /\ op'.step = "flush"
        BY <1>0, <2>1, BeginFacts DEF CloseFlushes
      <3> QED BY <1>1, <2>1, <3>1 DEF CloseFlushes, Inv, AtWork
    <2>2. CASE ~CloseFlushes
      <3>1. op'.by \in Removers
        BY <1>0, <2>2, BeginFacts DEF PruneStarts, ApiReads, ApiLists, RemoveStarts
      <3> QED BY <1>1, <3>1 DEF Inv, AtWork, Removers
    <2> QED BY <2>1, <2>2
  <1>7. ReadsAll'
    <2>1. CASE ~Fresh
      BY <1>1, <1>3, <2>1, ReadsKept
    <2>2. CASE Fresh
      <3>1. CloseFlushes
        <4>1. CASE PruneStarts \/ ApiReads
          BY <2>2, <4>1, FreshFacts DEF PruneStarts, ApiReads, Requests
        <4>2. CASE ApiLists \/ \E r \in Removers : RemoveStarts(r)
          BY <1>0, <2>2, <4>2, FreshFacts DEF ApiLists, RemoveStarts
        <4> QED BY <4>1, <4>2
      <3>2. op'.by = "close"
        BY <1>0, <3>1, BeginFacts DEF CloseFlushes
      <3> QED BY <2>2, <3>1, <3>2 DEF CloseFlushes, Fresh, ReadsAll
    <2> QED BY <2>1, <2>2
  <1> QED BY <1>5, <1>6, <1>7 DEF Inv

\* The API notes what to remove, or to compare with a list.
LEMMA RequestSteps ==
    ASSUME Types, Types', Inv, ApiRemovesPast \/ ApiRemovesGiven \/ ApiListsStore
    PROVE  Inv'
  <1> USE DEF storeVars, diskVars, docVars, removerVars, boundVars
  <1>1. /\ UNCHANGED <<storeVars, file, needFlush, latest, open, closing, pending, wanted>>
        /\ op' = op /\ open
    BY DEF ApiRemovesPast, ApiRemovesGiven, ApiListsStore, Requests
  <1>2. PICK step \in {"chosen", "comparing"}, ids \in SUBSET versions : Step("api", step, ids)
    <2>1. Past \in SUBSET versions
      BY DEF Past
    <2> QED BY <2>1 DEF ApiRemovesPast, ApiRemovesGiven, ApiListsStore, Requests
  <1>3. \A q \in Removers : UpTo(remover'[q].ids, last)
    <2>1. ids \in SUBSET Versions /\ "api" \in Removers /\ step \in RemoverSteps
      BY SetFacts DEF Removers, RemoverSteps
    <2>2. UpTo(ids, last)
      BY DEF Inv, Numbered, UpTo
    <2> QED BY <1>2, <2>1, <2>2, RemoverSet
  <1>4. Numbered' /\ LatestRight' /\ ListsComplete' /\ PushFinds'
    BY <1>1, <1>3, ListsKept
  <1>5. AtWork'
    BY <1>1 DEF Inv, AtWork, Free
  <1>6. ReadsAll'
    <2>1. ~Fresh
      BY <1>1 DEF Fresh
    <2> QED BY <1>1, <2>1, ReadsKept
  <1> QED BY <1>4, <1>5, <1>6 DEF Inv

\* The pruner and the API have read a list, and the pruner or the API removes
\* nothing, for it is refused.
LEMMA EndSteps ==
    ASSUME Types, Types', Inv,
           PruneChooses \/ ApiChooses \/ \E r \in Removers : RemoveRefused(r)
    PROVE  Inv'
  <1> USE DEF storeVars, diskVars, docVars, removerVars, boundVars
  <1>0. /\ {} \in SUBSET Versions /\ "pruner" \in Removers /\ "api" \in Removers
        /\ {"idle", "chosen"} \subseteq RemoverSteps
        /\ UpTo({}, last)
    BY DEF Removers, RemoverSteps, UpTo
  <1>1. /\ UNCHANGED <<storeVars, file, needFlush, latest, open, closing, wanted>>
        /\ op' = NoOp /\ pending' = pending
    BY DEF PruneChooses, ApiChooses, RemoveRefused
  <1>2. /\ op'.by = "nobody" /\ op'.step = "none" /\ op'.expect = 0 /\ op'.list = {}
    BY <1>1, NoOpFacts
  <1>3. \A q \in Removers : UpTo(remover'[q].ids, last)
    <2>1. CASE PruneChooses
      <3>1. PICK ids \in SUBSET (op.list \ {First(op.list)}) : Step("pruner", "chosen", ids)
        BY <2>1 DEF PruneChooses
      <3>2. ids \in SUBSET Versions /\ UpTo(ids, last)
        BY SetFacts DEF Inv, Numbered, UpTo
      <3> QED BY <1>0, <3>1, <3>2, RemoverSet
    <2>2. CASE Step("api", "chosen", remover["api"].ids \ op.list)
      <3> DEFINE ids == remover["api"].ids \ op.list
      <3>1. ids \in SUBSET Versions /\ UpTo(ids, last)
        BY <1>0, SetFacts DEF Inv, Numbered, UpTo
      <3>2. Step("api", "chosen", ids)
        BY <2>2
      <3> HIDE DEF ids
      <3> QED BY <1>0, <3>1, <3>2, RemoverSet
    <2>3. ASSUME NEW r \in Removers, Step(r, "idle", {})
          PROVE  \A q \in Removers : UpTo(remover'[q].ids, last)
      BY <1>0, <2>3, RemoverSet
    <2> QED BY <1>0, <2>1, <2>2, <2>3 DEF ApiChooses, RemoveRefused
  <1>4. Numbered' /\ LatestRight' /\ ListsComplete' /\ PushFinds'
    BY <1>1, <1>2, <1>3, ListsKept
  <1>5. ~Fresh
    BY FreshFacts DEF PruneChooses, ApiChooses, RemoveRefused, Removing
  <1>6. AtWork'
    BY <1>1, <1>2 DEF Inv, AtWork, Free
  <1>7. ReadsAll'
    BY <1>1, <1>2, <1>5, ReadsKept
  <1> QED BY <1>4, <1>6, <1>7 DEF Inv

\* A step that fails may lose the file, if what it was to give does not start with
\* the version expected: the next read is cross-checked as well.
LEMMA FailSteps ==
    ASSUME Types, Types', Inv, StepFails
    PROVE  Inv'
  <1> USE DEF storeVars, diskVars, docVars, removerVars, boundVars
  <1>1. /\ UNCHANGED <<storeVars, needFlush, latest, wanted>> /\ ~Free
        /\ op' = NoOp /\ FileLeft /\ Known' = Known
        /\ pending' = (pending \/ op.by = "push")
        /\ open' = (open /\ op.by # "close") /\ closing' = (closing /\ op.by # "close")
    BY DEF StepFails, Known
  <1>2. /\ op'.by = "nobody" /\ op'.step = "none" /\ op'.expect = 0 /\ op'.list = {} /\ Free'
    BY <1>1, NoOpFacts DEF Free
  <1>3. \A q \in Removers : remover'[q] = Idle \/ remover'[q] = remover[q]
    BY DEF StepFails
  <1>4. Numbered' /\ LatestRight' /\ ListsComplete' /\ PushFinds'
    <2>1. \A q \in Removers : UpTo(remover'[q].ids, last)
      <3>1. UpTo({}, last)
        BY DEF UpTo
      <3> QED BY <1>3, <3>1, IdleFacts DEF Inv, Numbered
    <2>2. file' \in {file, Nothing}
      BY <1>1 DEF FileLeft
    <2> QED BY <1>1, <1>2, <2>1, <2>2, ListsKept
  <1>5. AtWork'
    BY <1>1, <1>2 DEF Inv, AtWork
  <1>6. ReadsAll'
    <2>1. CASE Fresh
      BY <1>1, <1>2, <1>3, <2>1 DEF Fresh, ReadsAll
    <2>2. CASE ~Fresh /\ latest = 0
      <3>1. op.expect = 0
        BY <2>2 DEF Inv, LatestRight
      <3>2. file' = file
        BY <1>1, <3>1 DEF FileLeft, Downloads, Usable
      <3> QED BY <1>1, <1>2, <2>2, <3>2, ReadsKept
    <2>3. CASE latest # 0
      BY <1>1, <2>3 DEF ReadsAll
    <2> QED BY <2>1, <2>2, <2>3
  <1> QED BY <1>4, <1>5, <1>6 DEF Inv

-----------------------------------------------------------------------------
(***************************************************************************)
(* Reading a list.                                                         *)
(***************************************************************************)

\* What is read has all that is to be found.
LEMMA FoundList ==
    ASSUME Types, Inv, op.step = "look", NEW list,
           \/ list = file
           \/ list = meta /\ (file = Nothing \/ op.expect # 0),
           Usable(list, op.expect)
    PROVE  /\ list \in SUBSET Versions /\ UpTo(list, last) /\ Complete(list)
           /\ latest = 0 /\ ~Fresh => Known \subseteq list
           /\ op.by = "push" => Earlier \subseteq list
  <1>1. list # Nothing /\ (list = file \/ list = meta)
    BY DEF Usable
  <1>2. list \in SUBSET Versions /\ UpTo(list, last) /\ Complete(list)
    BY <1>1, SetFacts DEF Inv, Numbered, ListsComplete
  <1>3. op.expect = 0 => list = ToRead
    BY <1>1 DEF ToRead
  <1>4. latest = 0 /\ ~Fresh => Known \subseteq list
    BY <1>1, <1>3 DEF Inv, ReadsAll, LatestRight, Has
  <1>5. op.by = "push" => Earlier \subseteq list
    <2>1. CASE op.expect = 0
      BY <1>1, <1>3, <2>1 DEF Inv, PushFinds, Has
    <2>2. CASE op.expect # 0
      <3>1. First(list) = op.expect
        BY <2>2 DEF Usable
      <3> QED BY <1>2, <2>2, <3>1 DEF Inv, PushFinds, Complete, UpTo, Earlier
    <2> QED BY <2>1, <2>2
  <1> QED BY <1>2, <1>4, <1>5

LEMMA FindSteps ==
    ASSUME Types, Types', Inv, FindInFile \/ FindInMeta \/ FindNothing
    PROVE  Inv'
  <1> USE DEF storeVars, diskVars, docVars, removerVars, boundVars
  <1>0. /\ op \in Ops /\ "have" \in Steps /\ "rebuild" \in Steps
    BY DEF Types, TypeOK, Steps
  <1>1. /\ UNCHANGED <<storeVars, needFlush, latest, docVars, removerVars>> /\ op.step = "look"
        /\ Known' = Known /\ Earlier' = Earlier
    BY DEF FindInFile, FindInMeta, Downloads, FindNothing, Known, Earlier
  <1>2. file' = file \/ (file' = meta /\ meta # Nothing)
    BY DEF FindInFile, FindInMeta, Downloads, FindNothing
  <1>3. \/ /\ op'.by = op.by /\ op'.step = "rebuild" /\ op'.expect = op.expect
           /\ op'.list = op.list /\ op'.new = op.new
           /\ op.expect = 0 => ToRead = Nothing /\ file' = file
        \/ /\ op'.by = op.by /\ op'.step = "have" /\ op'.expect = op.expect
           /\ op'.new = op.new /\ op'.list = file'
           /\ op'.list \in SUBSET Versions /\ UpTo(op'.list, last) /\ Complete(op'.list)
           /\ latest = 0 /\ ~Fresh => Known \subseteq op'.list
           /\ op.by = "push" => Earlier \subseteq op'.list
    <2>1. CASE FindInFile
      <3>1. file \in SUBSET Versions
        BY <1>1, <2>1, FoundList DEF FindInFile
      <3>2. op'.list = file /\ op'.by = op.by /\ op'.step = "have" /\ op'.expect = op.expect
            /\ op'.new = op.new /\ file' = file
        BY <1>0, <2>1, <3>1, ListSet DEF FindInFile, Found
      <3> QED BY <1>1, <2>1, <3>2, FoundList DEF FindInFile
    <2>2. CASE FindInMeta /\ Usable(meta, op.expect)
      <3>1. file = Nothing \/ op.expect # 0
        BY <2>2 DEF FindInMeta, Downloads, Usable
      <3>2. meta \in SUBSET Versions
        BY <1>1, <2>2, <3>1, FoundList
      <3>3. op'.list = meta /\ op'.by = op.by /\ op'.step = "have" /\ op'.expect = op.expect
            /\ op'.new = op.new /\ file' = meta
        BY <1>0, <2>2, <3>2, ListSet DEF FindInMeta, Found
      <3> QED BY <1>1, <2>2, <3>1, <3>3, FoundList
    <2>3. CASE (FindInMeta /\ ~Usable(meta, op.expect)) \/ FindNothing
      <3>1. op'.by = op.by /\ op'.step = "rebuild" /\ op'.expect = op.expect
            /\ op'.list = op.list /\ op'.new = op.new
        BY <1>0, <2>3, StepSet DEF FindInMeta, FindNothing
      <3>2. op.expect = 0 => ToRead = Nothing /\ file' = file
        BY <2>3 DEF FindInMeta, Downloads, FindNothing, Usable, ToRead
      <3> QED BY <3>1, <3>2
    <2> QED BY <2>1, <2>2, <2>3
  <1>4. Numbered' /\ LatestRight'
    BY <1>1, <1>2, <1>3 DEF Inv, Numbered, LatestRight
  <1>5. ListsComplete'
    BY <1>1, <1>2, <1>3 DEF Inv, ListsComplete, Complete
  <1>6. AtWork'
    <2>1. op.by \notin {"nobody", "close"}
      BY <1>1, NoOpFacts DEF Inv, AtWork, Free
    <2> QED BY <1>1, <1>3, <2>1 DEF Inv, AtWork
  <1>7. ReadsAll'
    <2>1. ~Fresh
      BY <1>1, FreshFacts
    <2>2. op.expect = 0 \/ latest # 0
      BY DEF Inv, LatestRight
    <2>3. ASSUME latest = 0, ~Fresh' PROVE Has(ToRead', Known)
      <3>1. CASE op'.step = "have"
        BY <1>3, <2>1, <2>3, <3>1, NothingAssumption DEF Has, ToRead
      <3>2. CASE op'.step = "rebuild"
        BY <1>1, <1>3, <2>1, <2>2, <2>3, <3>2 DEF Has, ToRead
      <3> QED BY <1>3, <3>1, <3>2
    <2>4. ASSUME latest = 0, ~Fresh', op'.step \in {"have", "removed"} PROVE Known \subseteq op'.list
      BY <1>3, <2>1, <2>4
    <2> QED BY <1>1, <2>3, <2>4 DEF ReadsAll, Has
  <1>8. PushFinds'
    <2>1. CASE op'.step = "have"
      BY <1>1, <1>3, <2>1 DEF PushFinds
    <2>2. CASE op'.step = "rebuild"
      <3>1. op.expect = 0 => ToRead' = Nothing
        BY <1>1, <1>3, <2>2 DEF ToRead
      <3> QED BY <1>1, <1>3, <2>2, <3>1 DEF Inv, PushFinds, Has
    <2> QED BY <1>3, <2>1, <2>2
  <1> QED BY <1>4, <1>5, <1>6, <1>7, <1>8 DEF Inv

LEMMA ReconstructStep ==
    ASSUME Types, Types', Inv, Reconstruct
    PROVE  Inv'
  <1> USE DEF storeVars, diskVars, docVars, removerVars, boundVars
  <1>0. /\ op \in Ops /\ "have" \in Steps /\ versions \in SUBSET Versions /\ op.step = "rebuild"
    BY DEF Types, TypeOK, Steps, Reconstruct
  <1>1. /\ UNCHANGED <<storeVars, latest, docVars, removerVars>> /\ file' = versions
        /\ Known' = Known /\ Earlier' = Earlier /\ versions # Nothing
    BY <1>0, NothingAssumption DEF Reconstruct, Known, Earlier
  <1>2. op'.list = versions /\ op'.by = op.by /\ op'.step = "have" /\ op'.expect = op.expect
        /\ op'.new = op.new
    BY <1>0, ListSet DEF Reconstruct, Found
  <1>3. Known \subseteq versions /\ Earlier \subseteq versions /\ Complete(versions)
    BY DEF Known, Earlier, Complete
  <1>4. Numbered' /\ LatestRight'
    BY <1>1, <1>2 DEF Inv, Numbered, LatestRight
  <1>5. ListsComplete'
    BY <1>1, <1>2, <1>3 DEF Inv, ListsComplete, Complete
  <1>6. AtWork'
    <2>1. op.by \notin {"nobody", "close"}
      BY <1>0, NoOpFacts DEF Inv, AtWork, Free
    <2> QED BY <1>1, <1>2, <2>1 DEF Inv, AtWork
  <1>7. ReadsAll' /\ PushFinds'
    BY <1>1, <1>2, <1>3 DEF ReadsAll, PushFinds, Has, ToRead
  <1> QED BY <1>4, <1>5, <1>6, <1>7 DEF Inv

-----------------------------------------------------------------------------
(***************************************************************************)
(* Removing.                                                               *)
(***************************************************************************)
LEMMA RemoveNoneStep ==
    ASSUME Types, Types', Inv, NEW r \in Removers, RemoveNone(r)
    PROVE  Inv'
  <1> USE DEF storeVars, diskVars, docVars, removerVars, boundVars
  <1>0. op \in Ops /\ "flush" \in Steps /\ op.by = r /\ op.step = "have" /\ r \notin {"push", "nobody", "close"}
    BY DEF Types, TypeOK, Steps, RemoveNone, Removing, Removers
  <1>1. /\ UNCHANGED <<storeVars, file, needFlush, latest, docVars, removerVars>>
        /\ Known' = Known /\ ToRead' = ToRead
    BY DEF RemoveNone, Known, ToRead
  <1>2. op'.list = op.list /\ op'.by = op.by /\ op'.step = "flush" /\ op'.expect = op.expect
    BY <1>0, StepSet DEF RemoveNone
  <1>3. Numbered' /\ LatestRight' /\ AtWork' /\ PushFinds'
    BY <1>0, <1>1, <1>2 DEF Inv, Numbered, LatestRight, AtWork, PushFinds
  <1>4. ListsComplete'
    BY <1>1, <1>2 DEF Inv, ListsComplete, Complete
  <1>5. ReadsAll'
    <2>1. ~Fresh
      BY <1>0, FreshFacts
    <2> QED BY <1>1, <1>2, <2>1, ReadsKept
  <1> QED BY <1>3, <1>4, <1>5 DEF Inv

\* What is removed from the store is removed from what has been read.
LEMMA RemoveFromStoreStep ==
    ASSUME Types, Types', Inv, NEW r \in Removers, RemoveFromStore(r)
    PROVE  Inv'
  <1> USE DEF storeVars, diskVars, docVars, removerVars, boundVars
  <1> DEFINE ids == remover[r].ids
  <1>0. op \in Ops /\ "removed" \in Steps /\ op.by = r /\ op.step = "have"
        /\ r \notin {"push", "nobody", "close"} /\ op.list \in SUBSET Versions
        /\ remover[r].step = "chosen" /\ latest \notin ids
    BY SetFacts DEF Types, TypeOK, Steps, RemoveFromStore, Removing, Removers
  <1>1. /\ UNCHANGED <<last, unanswered, meta, file, needFlush, latest, docVars, removerVars>>
        /\ versions' = versions \ ids
        /\ Known' = Known \ ids /\ ToRead' = ToRead
    BY DEF RemoveFromStore, Known, ToRead
  <1>2. op'.list = op.list \ ids /\ op'.by = op.by /\ op'.step = "removed"
        /\ op'.expect = op.expect
    <2>1. op.list \ ids \in SUBSET Versions
      BY <1>0
    <2> QED BY <1>0, <2>1, ListSet DEF RemoveFromStore, Left
  <1>3. AtWork' /\ PushFinds'
    BY <1>0, <1>1, <1>2 DEF Inv, AtWork, PushFinds
  <1>4. LatestRight'
    BY <1>1, <1>2 DEF Inv, LatestRight, UpTo
  <1>5. Numbered'
    BY <1>1, <1>2 DEF Inv, Numbered, UpTo
  <1>6. ListsComplete'
    <2>1. Complete(op.list)'
      <3>1. SUFFICES ASSUME NEW v \in Known \ ids, v <= First(op.list \ ids)
                     PROVE  v \in op.list \ ids
        BY <1>1, <1>2 DEF Complete
      <3>2. v \in Nat /\ v # 0
        BY SetFacts
      <3>3. op.list \ ids # {} /\ op.list # {}
        <4>1. First({}) = 0
          BY DEF First
        <4> QED BY <3>1, <3>2, <4>1
      <3>4. First(op.list \ ids) \in op.list
        BY <1>0, <3>3, FirstFacts
      <3>5. First(op.list \ ids) <= First(op.list) /\ First(op.list) \in op.list
        BY <1>0, <3>3, <3>4, FirstFacts
      <3>6. First(op.list) \in Nat /\ First(op.list \ ids) \in Nat
        BY <1>0, <3>4, <3>5, SetFacts
      <3>7. v <= First(op.list)
        BY <3>1, <3>2, <3>5, <3>6
      <3> QED BY <3>1, <3>7 DEF Inv, ListsComplete, Complete
    <2> QED BY <1>1, <2>1 DEF Inv, ListsComplete, Complete
  <1>7. ReadsAll'
    <2>1. ~Fresh
      BY <1>0, FreshFacts
    <2> QED BY <1>0, <1>1, <1>2, <2>1 DEF Inv, ReadsAll, Has
  <1> QED BY <1>3, <1>4, <1>5, <1>6, <1>7 DEF Inv

LEMMA RemoveFromListStep ==
    ASSUME Types, Types', Inv, RemoveFromList
    PROVE  Inv'
  <1> USE DEF storeVars, diskVars, docVars, removerVars, boundVars
  <1>0. /\ op \in Ops /\ "flush" \in Steps /\ op.step = "removed" /\ op.by # "push"
        /\ op.by \notin {"nobody", "close"} /\ op.list # Nothing
    BY SetFacts, NoOpFacts, NothingAssumption
       DEF Types, TypeOK, Steps, RemoveFromList, Inv, AtWork, Free
  <1>1. /\ UNCHANGED <<storeVars, latest, docVars, removerVars>> /\ Known' = Known
        /\ file' = op.list /\ needFlush' = TRUE
    BY DEF RemoveFromList, Known
  <1>2. op'.list = op.list /\ op'.by = op.by /\ op'.step = "flush" /\ op'.expect = op.expect
    BY <1>0, StepSet DEF RemoveFromList
  <1>3. Numbered' /\ LatestRight' /\ AtWork' /\ PushFinds'
    BY <1>0, <1>1, <1>2 DEF Inv, Numbered, LatestRight, AtWork, PushFinds
  <1>4. ListsComplete'
    BY <1>1, <1>2 DEF Inv, ListsComplete, Complete
  <1>5. ReadsAll'
    <2>1. ~Fresh
      BY <1>0, FreshFacts
    <2> QED BY <1>0, <1>1, <1>2, <2>1 DEF Inv, ReadsAll, Has, ToRead
  <1> QED BY <1>3, <1>4, <1>5 DEF Inv

\* The list in the metadata store becomes that of the file, if it has changed.
LEMMA FlushStep ==
    ASSUME Types, Types', Inv, Flush
    PROVE  Inv'
  <1> USE DEF storeVars, diskVars, docVars, removerVars, boundVars
  <1>0. op.step = "flush" /\ op.by # "push"
    BY DEF Flush, Inv, AtWork
  <1>1. /\ UNCHANGED <<versions, last, unanswered, file, latest, docVars, wanted>>
        /\ Known' = Known /\ (meta' = file \/ meta' = meta)
        /\ ~needFlush => meta' = meta
        /\ needFlush => meta' = file
        /\ needFlush' = FALSE
    BY DEF Flush, Flushes, Known
  <1>2. op'.list = {} /\ op'.by = "nobody" /\ op'.step = "none" /\ op'.expect = 0 /\ Free'
    BY NoOpFacts DEF Flush, Free
  <1>3. \A q \in Removers : remover'[q] = Idle \/ remover'[q] = remover[q]
    BY DEF Flush
  <1>4. Numbered' /\ LatestRight' /\ AtWork' /\ PushFinds'
    BY <1>0, <1>1, <1>2, <1>3, IdleFacts
       DEF Inv, Numbered, UpTo, LatestRight, AtWork, PushFinds
  <1>5. ListsComplete'
    BY <1>1, <1>2, CompleteEmpty DEF Inv, ListsComplete, Complete
  <1>6. ReadsAll'
    <2>1. CASE ~Fresh
      BY <1>0, <1>1, <1>2, <2>1 DEF Inv, ReadsAll, Has, ToRead
    <2>2. CASE Fresh
      BY <1>1, <1>2, <1>3, <2>2 DEF Fresh, ReadsAll
    <2> QED BY <2>1, <2>2
  <1> QED BY <1>4, <1>5, <1>6 DEF Inv

-----------------------------------------------------------------------------
(***************************************************************************)
(* Pushing.                                                                *)
(***************************************************************************)

\* What was known is no newer than the version known to be the latest, or is all
\* in the list that will be read.
LEMMA PushUploadsStep ==
    ASSUME Types, Types', Inv, PushUploads
    PROVE  Inv'
  <1> USE DEF storeVars, diskVars, docVars, removerVars, boundVars
  <1>0. /\ Free /\ pending /\ last + 1 \in Versions /\ latest \in 0..MaxVersions
        /\ last + 1 \in 0..MaxVersions /\ op.step = "none"
    BY BoundFacts, NoOpFacts DEF PushUploads, Types, TypeOK, Free
  <1>1. /\ UNCHANGED <<unanswered, meta, file, needFlush, open, closing, removerVars>>
        /\ last' = last + 1 /\ versions' = versions \cup {last + 1} /\ latest' = last + 1
        /\ pending' = FALSE /\ ToRead' = ToRead
    BY DEF PushUploads, ToRead
  <1>2. op'.by = "push" /\ op'.step = "look" /\ op'.expect = latest /\ op'.list = {}
        /\ op'.new = last + 1
    <2>1. op' = [NoOp EXCEPT !.by = "push", !.step = "look", !.expect = latest, !.new = last + 1]
      BY <1>1 DEF PushUploads
    <2> QED BY <1>0, <2>1, PushBeginFacts
  <1>3. \A v \in Versions : v <= last => v <= last + 1 /\ v # last + 1
    BY SetFacts
  <1>4. Earlier' \subseteq Known /\ Known \subseteq Known' /\ Known' \subseteq Known \cup {last + 1}
    BY <1>1 DEF Earlier, Known
  <1>5. Numbered'
    <2>1. UpTo(versions', last + 1)
      BY <1>1, <1>3, SetFacts DEF Inv, Numbered, UpTo
    <2>2. \A l \in SUBSET Versions : UpTo(l, last) => UpTo(l, last + 1)
      BY <1>3 DEF UpTo
    <2>3. UpTo(op'.list, last + 1)
      BY <1>2 DEF UpTo
    <2>4. \A r \in Removers : UpTo(remover'[r].ids, last + 1)
      BY <1>1, <2>2, SetFacts DEF Inv, Numbered
    <2> QED BY <1>1, <2>1, <2>2, <2>3, <2>4, SetFacts DEF Inv, Numbered
  <1>6. LatestRight'
    <2>1. UpTo(Known', last + 1)
      BY <1>3, <1>4, SetFacts DEF Inv, Numbered, UpTo, Known
    <2> QED BY <1>1, <2>1, SetFacts DEF LatestRight
  <1>7. AtWork'
    BY <1>0, <1>1, <1>2 DEF Inv, AtWork
  <1>8. ASSUME NEW l \in SUBSET Versions, UpTo(l, last), Complete(l)
        PROVE  Complete(l)'
    <2>1. ~(last + 1 <= First(l))
      <3>1. CASE l = {}
        BY <3>1, FirstFacts, SetFacts
      <3>2. CASE l # {}
        <4>1. First(l) \in l
          BY <3>2, FirstFacts
        <4> QED BY <1>8, <4>1, SetFacts DEF UpTo
      <3> QED BY <3>1, <3>2
    <2> QED BY <1>4, <1>8, <2>1 DEF Complete
  <1>9. ListsComplete'
    <2>1. Complete({})'
      BY CompleteEmpty, <1>8 DEF UpTo
    <2> QED BY <1>1, <1>2, <1>8, <2>1, SetFacts DEF Inv, Numbered, ListsComplete, Complete
  <1>10. ReadsAll'
    BY <1>1, SetFacts DEF ReadsAll
  <1>11. PushFinds'
    <2>1. latest # 0 => UpTo(Known, latest)
      BY DEF Inv, LatestRight
    <2>2. latest = 0 => Has(ToRead, Known)
      BY <1>0, FreshFacts DEF Inv, ReadsAll
    <2> QED BY <1>1, <1>2, <1>4, <2>1, <2>2 DEF PushFinds, UpTo, Has
  <1> QED BY <1>5, <1>6, <1>7, <1>9, <1>10, <1>11 DEF Inv

\* A version whose upload is not answered is not known, or is recorded as the latest.
LEMMA PushUnansweredStep ==
    ASSUME Types, Types', Inv, PushUnanswered
    PROVE  Inv'
  <1> USE DEF storeVars, diskVars, docVars, removerVars, boundVars
  <1>0. Free /\ pending /\ op.by = "nobody" /\ op.step = "none"
    BY NoOpFacts DEF PushUnanswered, Free
  <1>1. /\ UNCHANGED <<meta, file, needFlush, open, closing, pending, op, removerVars>>
        /\ last' = last + 1 /\ versions' = versions \cup {last + 1} /\ ToRead' = ToRead
        /\ unanswered' = unanswered \cup {last + 1} /\ latest' \in {latest, last + 1}
    BY DEF PushUnanswered, ToRead
  <1>2. \A v \in Versions : v <= last => v <= last + 1 /\ v # last + 1
    BY SetFacts
  <1>3. Known' = Known
    BY <1>1, <1>2, SetFacts DEF Inv, Numbered, UpTo, Known
  <1>4. Numbered'
    <2>1. UpTo(versions', last + 1) /\ UpTo(unanswered', last + 1)
      BY <1>1, <1>2, SetFacts DEF Inv, Numbered, UpTo
    <2>2. \A l \in SUBSET Versions : UpTo(l, last) => UpTo(l, last + 1)
      BY <1>2 DEF UpTo
    <2> QED BY <1>1, <2>1, <2>2, SetFacts DEF Inv, Numbered
  <1>5. LatestRight'
    <2>1. last + 1 # 0 /\ last + 1 \notin Known /\ UpTo(Known, last + 1)
      BY <1>2, SetFacts DEF Inv, Numbered, UpTo, Known
    <2> QED BY <1>1, <1>3, <2>1 DEF Inv, LatestRight
  <1>6. AtWork' /\ PushFinds'
    BY <1>0, <1>1 DEF Inv, AtWork, PushFinds, Free
  <1>7. ListsComplete'
    BY <1>1, <1>3 DEF Inv, ListsComplete, Complete
  <1>8. ReadsAll'
    <2>1. ~Fresh
      BY <1>0, FreshFacts
    <2>2. last + 1 # 0
      BY SetFacts
    <2> QED BY <1>0, <1>1, <1>3, <2>1, <2>2 DEF Inv, ReadsAll
  <1> QED BY <1>4, <1>5, <1>6, <1>7, <1>8 DEF Inv

\* The list that a push leaves has all that is known.
LEMMA PushAddsStep ==
    ASSUME Types, Types', Inv, PushAdds
    PROVE  Inv'
  <1> USE DEF storeVars, diskVars, docVars, removerVars, boundVars
  <1>0. /\ op.by = "push" /\ op.step = "have" /\ op.new = last /\ latest = last
        /\ last \in versions /\ last \in Versions
    BY SetFacts DEF PushAdds, Inv, AtWork
  <1>1. /\ UNCHANGED <<storeVars, latest, docVars, remover>> /\ Known' = Known
        /\ \/ file' = file
           \/ file' = op.list \cup {last}
    BY <1>0 DEF PushAdds, Known
  <1>2. op'.list = {} /\ op'.by = "nobody" /\ op'.step = "none" /\ op'.expect = 0 /\ Free'
    BY NoOpFacts DEF PushAdds, Free
  <1>3. op.list \cup {last} \in SUBSET Versions /\ UpTo(op.list \cup {last}, last)
    BY <1>0, SetFacts DEF Inv, Numbered, UpTo
  <1>4. Known \subseteq op.list \cup {last}
    BY <1>0 DEF Inv, PushFinds, Earlier
  <1>5. Numbered'
    BY <1>1, <1>2, <1>3 DEF Inv, Numbered, UpTo
  <1>6. LatestRight' /\ AtWork' /\ PushFinds'
    BY <1>0, <1>1, <1>2 DEF Inv, LatestRight, AtWork, PushFinds
  <1>7. ListsComplete'
    BY <1>1, <1>2, <1>4, CompleteEmpty DEF Inv, ListsComplete, Complete
  <1>8. ReadsAll'
    BY <1>0, <1>1, SetFacts DEF ReadsAll
  <1> QED BY <1>5, <1>6, <1>7, <1>8 DEF Inv

-----------------------------------------------------------------------------
(***************************************************************************)
(* Crashing and opening.                                                   *)
(***************************************************************************)
LEMMA CrashStep ==
    ASSUME Types, Types', Inv, Crash
    PROVE  Inv'
  <1> USE DEF storeVars, diskVars, docVars, removerVars, boundVars
  <1>1. /\ UNCHANGED storeVars /\ file' \in {file, Nothing} /\ Known' = Known
        /\ ~open' /\ ~closing' /\ ~pending' /\ ~wanted' /\ latest' = 0
        /\ remover' = [r \in Removers |-> Idle] /\ op' = NoOp
    BY DEF Crash, FileLeft, Known
  <1>2. op'.list = {} /\ op'.by = "nobody" /\ op'.step = "none" /\ op'.expect = 0 /\ Free'
    BY <1>1, NoOpFacts DEF Free
  <1>3. \A r \in Removers : remover'[r] = Idle
    BY <1>1, IdleFacts
  <1>4. Numbered' /\ LatestRight' /\ AtWork' /\ PushFinds'
    BY <1>1, <1>2, <1>3, IdleFacts
       DEF Inv, Numbered, UpTo, LatestRight, AtWork, PushFinds
  <1>5. ListsComplete'
    BY <1>1, <1>2, CompleteEmpty DEF Inv, ListsComplete, Complete
  <1>6. ReadsAll'
    BY <1>1, <1>2, <1>3 DEF ReadsAll, Fresh
  <1> QED BY <1>4, <1>5, <1>6 DEF Inv

\* The list that will be read starts with the current version, and so has all.
LEMMA OpenKeepingStep ==
    ASSUME Types, Types', Inv, "kept" \notin Windows, OpenKeeping
    PROVE  Inv'
  <1> USE DEF storeVars, diskVars, docVars, removerVars, boundVars
  <1>1. /\ UNCHANGED <<storeVars, file, needFlush, latest, closing, pending, op, removerVars>>
        /\ open' /\ (ListsLatest \/ latest = last) /\ Known' = Known /\ ToRead' = ToRead
        /\ Free
    BY DEF OpenKeeping, AllSaved, IsSaved, Known, ToRead
  <1>2. Numbered' /\ LatestRight' /\ ListsComplete' /\ PushFinds'
    BY <1>1, ListsKept DEF Inv, Numbered
  <1>3. AtWork'
    BY <1>1, NoOpFacts DEF Inv, AtWork, Free
  <1>4. ReadsAll'
    <2>1. CASE ~Fresh
      BY <1>1, <2>1, ReadsKept
    <2>2. CASE Fresh
      <3>1. op.step = "none"
        BY <1>1, NoOpFacts DEF Free
      <3>2. UpTo(Known, last) /\ last \in Nat
        BY KnownNumbered, SetFacts DEF Inv
      <3>3. ToRead # Nothing => ToRead \in SUBSET Versions /\ Complete(ToRead)
        BY SetFacts DEF Inv, ListsComplete, ToRead
      <3>4. CASE ListsLatest
        <4>1. ToRead # Nothing => First(ToRead) = last
          BY <3>4 DEF ListsLatest, ToRead
        <4>2. Has(ToRead, Known)
          BY <3>2, <3>3, <4>1, CompleteOf DEF Has
        <4> QED BY <1>1, <3>1, <4>2 DEF ReadsAll, Has
      <3>5. CASE latest = 0 /\ last = 0
        <4>1. Known = {}
          BY <3>2, <3>5, SetFacts DEF UpTo
        <4> QED BY <1>1, <3>1, <4>1 DEF ReadsAll, Has
      <3>6. CASE latest # 0
        BY <1>1, <3>6 DEF ReadsAll
      <3> QED BY <1>1, <3>4, <3>5, <3>6
    <2> QED BY <2>1, <2>2
  <1> QED BY <1>2, <1>3, <1>4 DEF Inv

\* The first version in the store is the latest that the process knows.
LEMMA OpenFetchingStep ==
    ASSUME Types, Types', Inv, OpenFetching
    PROVE  Inv'
  <1> USE DEF storeVars, diskVars, docVars, removerVars, boundVars
  <1>0. op = NoOp /\ op.step = "none" /\ op.by = "nobody" /\ op.list = {} /\ op.expect = 0
    BY NoOpFacts DEF OpenFetching, AllSaved, IsSaved, Free
  <1>1. /\ UNCHANGED <<storeVars, closing, pending, op, removerVars>>
        /\ open' /\ file' \in {file, Nothing} /\ latest' = First(versions) /\ Known' = Known
    BY DEF OpenFetching, Known
  <1>2. First(versions) \in versions /\ \A u \in versions : u <= First(versions)
    BY SetFacts, FirstFacts DEF OpenFetching
  <1>3. First(versions) \in Nat /\ First(versions) # 0
    BY <1>2, SetFacts
  <1>4. last \notin Known \/ First(versions) = last
    BY SetFacts, LastIsFirst DEF Inv, Numbered, Known
  <1>5. Numbered' /\ AtWork' /\ PushFinds'
    BY <1>0, <1>1 DEF Inv, Numbered, AtWork, PushFinds, Free
  <1>6. LatestRight'
    BY <1>0, <1>1, <1>2, <1>3, <1>4 DEF LatestRight, UpTo, Known
  <1>7. ListsComplete'
    BY <1>1 DEF Inv, ListsComplete, Complete
  <1>8. ReadsAll'
    BY <1>1, <1>3 DEF ReadsAll
  <1> QED BY <1>5, <1>6, <1>7, <1>8 DEF Inv

-----------------------------------------------------------------------------
LEMMA InvInit == Init => Inv
  <1> SUFFICES ASSUME Init PROVE Inv
    OBVIOUS
  <1>1. /\ op.list = {} /\ op.by = "nobody" /\ op.step = "none" /\ op.expect = 0 /\ Free
        /\ \A r \in Removers : remover[r] = Idle
    BY NoOpFacts, IdleFacts DEF Init, Free
  <1>2. Known = {}
    BY DEF Init, Known
  <1>3. Numbered /\ AtWork /\ LatestRight
    BY <1>1, <1>2, IdleFacts DEF Init, Numbered, UpTo, AtWork, LatestRight
  <1>4. ListsComplete /\ ReadsAll /\ PushFinds
    BY <1>1, <1>2 DEF ListsComplete, Complete, ReadsAll, PushFinds, Has
  <1> QED BY <1>3, <1>4 DEF Inv

LEMMA InvKept == "kept" \notin Windows /\ Types /\ Types' /\ Inv /\ [Next]_vars => Inv'
  <1> SUFFICES ASSUME "kept" \notin Windows, Types, Types', Inv, [Next]_vars PROVE Inv'
    OBVIOUS
  <1>1. CASE Reads
    BY <1>1, FindSteps, ReconstructStep DEF Reads
  <1>2. CASE Flush
    BY <1>2, FlushStep
  <1>3. CASE Edit \/ Close \/ CloseEnds \/ UNCHANGED vars
    BY <1>3, QuietSteps
  <1>4. CASE Pushes
    BY <1>4, QuietSteps, PushUploadsStep, PushUnansweredStep, PushAddsStep DEF Pushes
  <1>5. CASE Prunes
    BY <1>5, BeginSteps, EndSteps DEF Prunes
  <1>6. CASE Calls
    BY <1>6, BeginSteps, RequestSteps DEF Calls
  <1>7. CASE Removals
    BY <1>7, BeginSteps, EndSteps, RemoveNoneStep, RemoveFromStoreStep, RemoveFromListStep
       DEF Removals
  <1>8. CASE StepFails \/ CloseFlushes
    BY <1>8, FailSteps, BeginSteps
  <1>9. CASE Crash
    BY <1>9, CrashStep
  <1>10. CASE OpenKeeping \/ OpenFetching
    BY <1>10, OpenKeepingStep, OpenFetchingStep
  <1> QED BY <1>1, <1>2, <1>3, <1>4, <1>5, <1>6, <1>7, <1>8, <1>9, <1>10 DEF Next

\* Unless a process starts with a list that lacks the latest version, the lists,
\* the store and what the process knows agree as the inductive invariant says.
THEOREM Inductive == ASSUME "kept" \notin Windows PROVE Spec => [](TypeOK /\ Inv)
  <1>1. Types /\ Inv /\ [Next]_vars => (Types /\ Inv)'
    BY TypesKept, InvKept
  <1>2. Types /\ Inv => TypeOK /\ Inv
    BY DEF Types
  <1> QED BY InitTypes, InvInit, <1>1, <1>2, PTL DEF Spec

\* A list that starts with the current version lacks none, whatever is removed.
THEOREM ListsAreComplete == ASSUME "kept" \notin Windows PROVE Spec => []NothingMissed
  <1>1. Types /\ Inv => NothingMissed
    <2> SUFFICES ASSUME Types, Inv, file # Nothing, First(file) = last PROVE Known \subseteq file
      BY DEF NothingMissed
    <2>1. UpTo(Known, last) /\ last \in Nat /\ file \in SUBSET Versions /\ Complete(file)
      BY KnownNumbered, SetFacts DEF Inv, ListsComplete
    <2> QED BY <2>1, CompleteOf
  <1>2. Types /\ Inv /\ [Next]_vars => (Types /\ Inv)'
    BY TypesKept, InvKept
  <1> QED BY InitTypes, InvInit, <1>1, <1>2, PTL DEF Spec

-----------------------------------------------------------------------------
(***************************************************************************)
(* The current version, unless a client asks to remove it.                 *)
(***************************************************************************)

\* What is about to be removed has not the current version, or else the store
\* refuses to remove it.
Safe(ids) == last \in ids => latest = last \/ last \in unanswered
SafeRemovals == \A r \in Removers : remover[r].step = "chosen" => Safe(remover[r].ids)
CurrentInv == SafeRemovals /\ CurrentKept

\* One remover chooses what is safe to remove, or has nothing chosen.
LEMMA RemoverSafe ==
    ASSUME Types, SafeRemovals, UNCHANGED <<last, latest, unanswered>>,
           NEW r \in Removers, NEW step \in RemoverSteps, NEW ids \in SUBSET Versions,
           step = "chosen" => Safe(ids), Step(r, step, ids)
    PROVE  SafeRemovals'
  <1>1. remover \in [Removers -> RemoverStates]
    BY DEF Types, TypeOK
  <1>2. /\ remover'[r].step = step /\ remover'[r].ids = ids
        /\ \A q \in Removers : q # r => remover'[q] = remover[q]
    BY <1>1, StepFacts
  <1> QED BY <1>2 DEF SafeRemovals, Safe

\* Steps that choose nothing: removers go on, or stop.
LEMMA RemoversQuiet ==
    ASSUME SafeRemovals, UNCHANGED <<last, latest, unanswered>>,
           \A q \in Removers : remover'[q] = Idle \/ remover'[q] = remover[q]
    PROVE  SafeRemovals'
  BY IdleFacts DEF SafeRemovals, Safe

\* What the pruner and the API choose has not the current version, unless the
\* process knows it: if it does not, the list that it has read has it.
LEMMA ChoicesAreSafe ==
    ASSUME Types, Inv, CurrentInv, "given" \notin Windows,
           Prunes \/ Calls \/ ApiLists \/ ApiChooses
    PROVE  SafeRemovals'
  <1> USE DEF storeVars, diskVars, docVars, removerVars, boundVars
  <1>0. /\ {} \in SUBSET Versions /\ "pruner" \in Removers /\ "api" \in Removers
        /\ {"idle", "reading", "comparing", "listing", "chosen"} \subseteq RemoverSteps
        /\ remover["api"].ids \in SUBSET Versions /\ versions \in SUBSET Versions
        /\ SafeRemovals
    BY SetFacts DEF Removers, RemoverSteps, CurrentInv
  <1>1. UNCHANGED <<last, latest, unanswered>>
    BY DEF Prunes, PruneStarts, PruneChooses, Calls, ApiReads, ApiRemovesPast, ApiRemovesGiven,
       ApiListsStore, ApiLists, ApiChooses
  <1>2. CASE PruneStarts
    BY <1>0, <1>1, <1>2, RemoverSafe DEF PruneStarts
  <1>3. CASE PruneChooses
    <2>1. PICK ids \in SUBSET (op.list \ {First(op.list)}) : Step("pruner", "chosen", ids)
      BY <1>3 DEF PruneChooses
    <2>2. ids \in SUBSET Versions
      BY SetFacts
    <2>3. last \notin ids
      <3>1. last \in op.list => First(op.list) = last
        BY SetFacts, LastIsFirst DEF Inv, Numbered
      <3> QED BY <3>1
    <2> QED BY <1>0, <1>1, <2>1, <2>2, <2>3, RemoverSafe DEF Safe
  <1>4. CASE ApiReads \/ ApiListsStore
    BY <1>0, <1>1, <1>4, RemoverSafe DEF ApiReads, ApiListsStore, Requests
  <1>5. CASE ApiRemovesPast
    <2>1. last \notin Past /\ Past \in SUBSET Versions
      <3>1. last \in versions => First(versions) = last
        BY SetFacts, LastIsFirst DEF Inv, Numbered
      <3> QED BY <1>0, <3>1 DEF Past
    <2> QED BY <1>0, <1>1, <1>5, <2>1, RemoverSafe DEF ApiRemovesPast, Requests, Safe
  <1>6. CASE ApiRemovesGiven
    <2>1. PICK ids \in SUBSET versions : last \notin ids /\ Step("api", "chosen", ids)
      BY <1>6 DEF ApiRemovesGiven, Requests
    <2>2. ids \in SUBSET Versions
      BY <1>0
    <2> QED BY <1>0, <1>1, <2>1, <2>2, RemoverSafe DEF Safe
  <1>7. CASE ApiLists
    BY <1>0, <1>1, <1>7, RemoverSafe DEF ApiLists
  <1>8. CASE ApiChooses
    <2>1. CASE Step("api", "idle", {})
      BY <1>0, <1>1, <2>1, RemoverSafe
    <2>2. CASE Step("api", "chosen", remover["api"].ids \ op.list)
      <3> DEFINE ids == remover["api"].ids \ op.list
      <3>1. ids \in SUBSET Versions
        BY <1>0
      <3>2. Safe(ids)
        <4>1. SUFFICES ASSUME last \in ids, last \notin unanswered, latest # last PROVE FALSE
          BY DEF Safe
        <4>2. last # 0 /\ last \in Known
          BY <3>1, <4>1, SetFacts DEF CurrentInv, CurrentKept, Known
        <4>3. latest = 0
          BY <4>1, <4>2 DEF Inv, LatestRight
        <4>4. ~Fresh
          BY <1>8, FreshFacts DEF ApiChooses
        <4>5. Known \subseteq op.list
          BY <1>8, <4>3, <4>4 DEF Inv, ReadsAll, ApiChooses
        <4> QED BY <4>1, <4>2, <4>5
      <3>3. Step("api", "chosen", ids)
        BY <2>2
      <3> HIDE DEF ids
      <3> QED BY <1>0, <1>1, <3>1, <3>2, <3>3, RemoverSafe
    <2> QED BY <1>8, <2>1, <2>2 DEF ApiChooses
  <1> QED BY <1>2, <1>3, <1>4, <1>5, <1>6, <1>7, <1>8 DEF Prunes, Calls

\* A push makes a new current version, which nobody is about to remove.
LEMMA PushIsSafe ==
    ASSUME Types, Inv, CurrentInv, PushUploads \/ PushUnanswered
    PROVE  CurrentInv'
  <1> USE DEF storeVars, removerVars
  <1>1. /\ last' = last + 1 /\ versions' = versions \cup {last + 1} /\ remover' = remover
    BY DEF PushUploads, PushUnanswered
  <1>2. \A r \in Removers : last + 1 \notin remover[r].ids
    <2>1. \A v \in Versions : v <= last => v # last + 1
      BY SetFacts
    <2> QED BY <2>1, SetFacts DEF Inv, Numbered, UpTo
  <1> QED BY <1>1, <1>2 DEF CurrentInv, SafeRemovals, Safe, CurrentKept

\* Whoever removes versions has chosen them: the current one is not among them,
\* or the store refuses.
LEMMA NextCurrent ==
    ASSUME Types, Inv, CurrentInv, "given" \notin Windows, [Next]_vars
    PROVE  CurrentInv'
  <1> USE DEF storeVars, diskVars, docVars, removerVars, boundVars
  <1>1. CASE PushUploads \/ PushUnanswered
    BY <1>1, PushIsSafe
  <1>2. CASE Prunes \/ Calls \/ ApiLists \/ ApiChooses
    <2>1. UNCHANGED <<last, versions, unanswered>>
      BY <1>2 DEF Prunes, PruneStarts, PruneChooses, Calls, ApiReads, ApiRemovesPast,
         ApiRemovesGiven, ApiListsStore, ApiLists, ApiChooses
    <2> QED BY <1>2, <2>1, ChoicesAreSafe DEF CurrentInv, CurrentKept
  <1>3. ASSUME NEW r \in Removers, RemoveFromStore(r) PROVE CurrentInv'
    <2>1. /\ remover[r].step = "chosen" /\ latest \notin remover[r].ids
          /\ versions' = versions \ remover[r].ids
          /\ UNCHANGED <<last, latest, unanswered, remover>>
      BY <1>3 DEF RemoveFromStore, Removing
    <2>2. last \in remover[r].ids => last \in unanswered
      BY <2>1 DEF CurrentInv, SafeRemovals, Safe
    <2>3. CurrentKept'
      BY <2>1, <2>2 DEF CurrentInv, CurrentKept
    <2> QED BY <2>1, <2>3, RemoversQuiet DEF CurrentInv
  <1>4. CASE Crash
    <2>1. UNCHANGED <<last, versions, unanswered>> /\ remover' = [r \in Removers |-> Idle]
      BY <1>4 DEF Crash
    <2>2. SafeRemovals'
      BY <2>1, IdleFacts DEF SafeRemovals
    <2> QED BY <2>1, <2>2 DEF CurrentInv, CurrentKept
  <1>5. CASE OpenFetching
    <2>1. /\ UNCHANGED <<last, versions, unanswered, remover>> /\ latest' = First(versions)
      BY <1>5 DEF OpenFetching
    <2>2. last \in versions => First(versions) = last
      BY SetFacts, LastIsFirst DEF Inv, Numbered
    <2>3. \A r \in Removers : last \in remover[r].ids => last # 0
      BY SetFacts
    <2> QED BY <2>1, <2>2, <2>3 DEF CurrentInv, SafeRemovals, Safe, CurrentKept
  <1>6. ASSUME NEW r \in Removers, RemoveStarts(r) \/ RemoveNone(r) \/ RemoveRefused(r)
        PROVE  CurrentInv'
    <2>1. UNCHANGED <<last, latest, versions, unanswered>>
      BY <1>6 DEF RemoveStarts, RemoveNone, RemoveRefused
    <2>2. CASE UNCHANGED remover
      BY <2>1, <2>2, RemoversQuiet DEF CurrentInv, CurrentKept
    <2>3. CASE Step(r, "idle", {})
      <3>1. {} \in SUBSET Versions /\ "idle" \in RemoverSteps
        BY DEF RemoverSteps
      <3>2. SafeRemovals'
        BY <2>1, <2>3, <3>1, RemoverSafe DEF CurrentInv
      <3> QED BY <2>1, <3>2 DEF CurrentInv, CurrentKept
    <2> QED BY <1>6, <2>2, <2>3 DEF RemoveStarts, RemoveNone, RemoveRefused
  <1>7. CASE \/ Reads \/ Flush \/ Edit \/ PushUnchanged \/ PushAdds \/ RemoveFromList \/ StepFails
             \/ Close \/ CloseFlushes \/ CloseEnds \/ OpenKeeping \/ UNCHANGED vars
    <2>1. UNCHANGED <<last, latest, versions, unanswered>>
      BY <1>7 DEF Reads, FindInFile, FindInMeta, FindNothing, Reconstruct, Flush, Edit,
         PushUnchanged, PushAdds, RemoveFromList, StepFails, Close, CloseFlushes, CloseEnds,
         OpenKeeping, vars
    <2>2. \A q \in Removers : remover'[q] = Idle \/ remover'[q] = remover[q]
      <3>1. CASE Flush \/ StepFails
        BY <3>1 DEF Flush, StepFails
      <3>2. CASE ~(Flush \/ StepFails)
        BY <1>7, <3>2 DEF Reads, FindInFile, FindInMeta, FindNothing, Reconstruct, Edit,
           PushUnchanged, PushAdds, RemoveFromList, Close, CloseFlushes, CloseEnds,
           OpenKeeping, vars
      <3> QED BY <3>1, <3>2
    <2> QED BY <2>1, <2>2, RemoversQuiet DEF CurrentInv, CurrentKept
  <1> QED
    BY <1>1, <1>2, <1>3, <1>4, <1>5, <1>6, <1>7 DEF Next, Pushes, Removals

\* No prune, no removal of what is unlisted or past, and no combination of them
\* with pushes, crashes and openings takes the current version out of the store.
THEOREM CurrentVersionStays ==
    ASSUME "kept" \notin Windows, "given" \notin Windows PROVE Spec => []CurrentKept
  <1>1. Init => CurrentInv
    <2> SUFFICES ASSUME Init PROVE CurrentInv
      OBVIOUS
    <2>1. \A r \in Removers : remover[r] = Idle
      BY IdleFacts DEF Init
    <2> QED BY <2>1, IdleFacts DEF Init, CurrentInv, SafeRemovals, CurrentKept
  <1>2. Types /\ Inv /\ [Next]_vars => (Types /\ Inv)'
    BY TypesKept, InvKept
  <1>3. Types /\ Inv /\ CurrentInv /\ [Next]_vars => CurrentInv'
    BY NextCurrent
  <1>4. CurrentInv => CurrentKept
    BY DEF CurrentInv
  <1> QED BY InitTypes, InvInit, <1>1, <1>2, <1>3, <1>4, PTL DEF Spec

-----------------------------------------------------------------------------
(***************************************************************************)
(* What is gone, unless a removal is cut short.                            *)
(***************************************************************************)

\* Lists have versions that are gone only while a removal goes on.
NoneGone ==
    /\ op.step # "removed" /\ file # Nothing => file \subseteq versions
    /\ op.step \notin {"removed", "flush"} /\ meta # Nothing => meta \subseteq versions
    /\ op.step = "flush" /\ meta # Nothing =>
          (needFlush /\ file # Nothing) \/ meta \subseteq versions
    /\ op.list \subseteq versions

\* Steps that put down nothing, with no removal going on.
LEMMA GoneKept ==
    ASSUME NoneGone, UNCHANGED <<meta, file, needFlush>>, versions \subseteq versions',
           op'.list = {} \/ op'.list = op.list,
           op.step \notin {"removed", "flush"} \/ op'.step = op.step
    PROVE  NoneGone'
  BY DEF NoneGone

\* A removal goes from the store to the list and to the metadata store, and is not
\* left in between.
LEMMA NextGone ==
    ASSUME Types, Inv, NoneGone, "removed" \notin Windows, [Next]_vars
    PROVE  NoneGone'
  <1> USE DEF storeVars, diskVars, docVars, removerVars, boundVars
  <1>0. /\ op \in Ops /\ {"look", "rebuild", "have", "removed", "flush"} \subseteq Steps
        /\ NoOp.step = "none" /\ NoOp.list = {}
    BY NoOpFacts DEF Types, TypeOK, Steps
  <1>1. CASE FindInFile
    <2>1. file \in SUBSET Versions /\ op.step = "look"
      BY <1>1, SetFacts DEF FindInFile, Usable
    <2>2. op'.list = file /\ op'.step = "have"
      BY <1>0, <1>1, <2>1, ListSet DEF FindInFile, Found
    <2> QED BY <1>1, <2>1, <2>2 DEF FindInFile, Usable, NoneGone
  <1>2. CASE FindInMeta
    <2>1. meta \in SUBSET Versions /\ meta # Nothing /\ file' = meta /\ op.step = "look"
          /\ UNCHANGED <<versions, meta, needFlush>>
      BY <1>2, SetFacts DEF FindInMeta, Downloads
    <2>2. CASE Usable(meta, op.expect)
      <3>1. op'.list = meta /\ op'.step = "have"
        BY <1>0, <1>2, <2>1, <2>2, ListSet DEF FindInMeta, Found
      <3> QED BY <2>1, <3>1 DEF NoneGone
    <2>3. CASE ~Usable(meta, op.expect)
      <3>1. op'.list = op.list /\ op'.step = "rebuild"
        BY <1>0, <1>2, <2>3, StepSet DEF FindInMeta
      <3> QED BY <2>1, <3>1 DEF NoneGone
    <2> QED BY <2>2, <2>3
  <1>3. CASE FindNothing
    <2>1. op'.list = op.list /\ op'.step = "rebuild"
      BY <1>0, <1>3, StepSet DEF FindNothing
    <2> QED BY <1>3, <2>1, GoneKept DEF FindNothing
  <1>4. CASE Reconstruct
    <2>1. versions \in SUBSET Versions /\ op.step = "rebuild"
      BY <1>4, SetFacts DEF Reconstruct
    <2>2. op'.list = versions /\ op'.step = "have"
      BY <1>0, <1>4, <2>1, ListSet DEF Reconstruct, Found
    <2> QED BY <1>4, <2>1, <2>2 DEF Reconstruct, NoneGone
  <1>5. CASE Flush
    BY <1>0, <1>5 DEF Flush, NoFile, Flushes, NoneGone
  <1>6. CASE PushUploads
    <2>1. op.step = "none" /\ op'.list = {} /\ versions \subseteq versions'
      BY <1>0, <1>6 DEF PushUploads, Free, NoOp
    <2> QED BY <1>6, <2>1, GoneKept DEF PushUploads
  <1>7. CASE PushAdds
    <2>1. op.step = "have" /\ op'.list = {} /\ op'.step = "none"
          /\ op.new \in versions /\ UNCHANGED <<versions, meta>>
      BY <1>0, <1>7 DEF PushAdds, Inv, AtWork
    <2>2. file' = file \/ file' = op.list \cup {op.new}
      BY <1>7 DEF PushAdds
    <2> QED BY <2>1, <2>2 DEF NoneGone
  <1>8. CASE PruneStarts \/ ApiReads \/ ApiLists \/ CloseFlushes \/ \E r \in Removers : RemoveStarts(r)
    <2>1. /\ UNCHANGED <<versions, meta, file, needFlush>>
          /\ \E by, step, expect : Begins(by, step, expect)
      BY <1>8 DEF PruneStarts, ApiReads, ApiLists, CloseFlushes, RemoveStarts
    <2>2. op.step = "none" /\ op'.list = {}
      BY <1>0, <2>1 DEF Begins, Free, NoOp
    <2> QED BY <2>1, <2>2, GoneKept
  <1>9. CASE PruneChooses \/ ApiChooses \/ \E r \in Removers : RemoveRefused(r)
    BY <1>0, <1>9, GoneKept DEF PruneChooses, ApiChooses, RemoveRefused, Removing
  <1>10. CASE StepFails \/ Crash
    <2>1. /\ UNCHANGED <<versions, meta>> /\ file' \in {file, Nothing} /\ op' = NoOp
          /\ op.step = "removed" => NothingGone
          /\ op.step = "flush" => NothingGone \/ file = Nothing
      BY <1>10 DEF StepFails, Crash, FileLeft, Stuck, NoFile
    <2> QED BY <1>0, <2>1 DEF NoneGone, NothingGone
  <1>11. ASSUME NEW r \in Removers, RemoveNone(r) PROVE NoneGone'
    <2>1. op'.list = op.list /\ op'.step = "flush" /\ op.step = "have"
      BY <1>0, <1>11, StepSet DEF RemoveNone, Removing
    <2> QED BY <1>11, <2>1, GoneKept DEF RemoveNone
  <1>12. ASSUME NEW r \in Removers, RemoveFromStore(r) PROVE NoneGone'
    <2>1. op.list \ remover[r].ids \in SUBSET Versions
      BY SetFacts
    <2>2. op'.list = op.list \ remover[r].ids /\ op'.step = "removed"
      BY <1>0, <1>12, <2>1, ListSet DEF RemoveFromStore, Left
    <2> QED BY <1>12, <2>2 DEF RemoveFromStore, NoneGone
  <1>13. CASE RemoveFromList
    <2>1. op'.list = op.list /\ op'.step = "flush"
      BY <1>0, <1>13, StepSet DEF RemoveFromList
    <2>2. op.list # Nothing
      BY SetFacts, NothingAssumption
    <2> QED BY <1>13, <2>1, <2>2 DEF RemoveFromList, NoneGone
  <1>14. CASE OpenFetching
    BY <1>0, <1>14 DEF OpenFetching, AllSaved, IsSaved, Free, NoneGone
  <1>15. CASE \/ Edit \/ PushUnchanged \/ PushUnanswered \/ ApiRemovesPast \/ ApiRemovesGiven
              \/ ApiListsStore \/ Close \/ CloseEnds \/ OpenKeeping \/ UNCHANGED vars
    BY <1>15, GoneKept DEF Edit, PushUnchanged, PushUnanswered, ApiRemovesPast, ApiRemovesGiven,
       ApiListsStore, Close, CloseEnds, OpenKeeping, vars
  <1> QED
    BY <1>1, <1>2, <1>3, <1>4, <1>5, <1>6, <1>7, <1>8, <1>9, <1>10, <1>11, <1>12, <1>13, <1>14,
       <1>15
       DEF Next, Reads, Pushes, Prunes, Calls, Removals

\* What is in the metadata store when all is reported saved is true, even of a
\* current version that a client has removed.
THEOREM SavedListIsTrue ==
    ASSUME "kept" \notin Windows, "removed" \notin Windows PROVE Spec => []SavedIsTrue
  <1>1. Init => NoneGone
    BY NoOpFacts DEF Init, NoneGone
  <1>2. Types /\ Inv /\ [Next]_vars => (Types /\ Inv)'
    BY TypesKept, InvKept
  <1>3. Types /\ Inv /\ NoneGone /\ [Next]_vars => NoneGone'
    BY NextGone
  <1>4. Types /\ Inv /\ NoneGone => SavedIsTrue
    <2> SUFFICES ASSUME Types, Inv, NoneGone, Free, meta # Nothing
                 PROVE  /\ meta \subseteq versions
                        /\ First(meta) = last => Known \subseteq meta
      BY DEF SavedIsTrue, AllSaved, IsSaved
    <2>1. meta \subseteq versions
      BY NoOpFacts DEF NoneGone, Free
    <2>2. UpTo(Known, last) /\ last \in Nat /\ meta \in SUBSET Versions /\ Complete(meta)
      BY KnownNumbered, SetFacts DEF Inv, ListsComplete
    <2> QED BY <2>1, <2>2, CompleteOf
  <1> QED BY InitTypes, InvInit, <1>1, <1>2, <1>3, <1>4, PTL DEF Spec
=============================================================================
