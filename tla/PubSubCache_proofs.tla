------------------------- MODULE PubSubCache_proofs -------------------------
(***************************************************************************)
(* Proofs about PubSubCache, for any servers and any number of changes,    *)
(* fetches and faults.  That nobody is left with a stale value holds       *)
(* wherever subscriptions fail; that no subscription is left over assumes  *)
(* that none fails after its key has expired.                              *)
(***************************************************************************)
EXTENDS PubSubCache, TLAPS

USE OthersAssumption, BoundsAssumption DEF OthersAssumption, BoundsAssumption

\* There is a callback for the subscription in _watchedKeys, which has not failed;
\* and Redis sends the messages if a subscription with a callback is confirmed.
CallbacksRight ==
    /\ watch # 0 => watch \in callbacks /\ sub[watch] \in {"sent", "confirmed"}
    /\ connected /\ (\E j \in callbacks : sub[j] = "confirmed") => subscribed

\* The promise in the cache has not been rejected, waits or has waited for a
\* subscription that has its callback, and has waited for it before it read.  That
\* is the one in _watchedKeys, unless an older one that failed has taken it out.
EntryIsHeard ==
    entry # 0 =>
        /\ fetch[entry].step \in {"waiting", "read", "settled"}
        /\ fetch[entry].sub \in callbacks /\ sub[fetch[entry].sub] \in {"sent", "confirmed"}
        /\ fetch[entry].step # "waiting" => sub[fetch[entry].sub] = "confirmed"
        /\ watch \in {0, fetch[entry].sub}

IInv == TypeOK /\ CallbacksRight /\ EntryIsHeard /\ StaleIsTold

messages == <<db, messageVars, missed>>

-----------------------------------------------------------------------------
\* What the bounds have to do with each other.
LEMMA BoundFacts ==
    /\ 0 \in 0..MaxFetches /\ 0 \in 0..MaxChanges /\ 0 \notin Ids
    /\ Ids \subseteq 0..MaxFetches /\ 0..MaxFetches \ {0} \subseteq Ids
    /\ \A f \in 0..MaxFaults : f < MaxFaults => f + 1 \in 0..MaxFaults
    /\ \A n \in 0..MaxChanges : n < MaxChanges => n + 1 \in Changes \cap 0..MaxChanges
  BY DEF Ids, Changes

\* A promise that goes a step further is a promise.
LEMMA FetchFacts ==
    ASSUME NEW f \in Fetches
    PROVE  /\ \A to \in {"read", "settled", "rejected"} : [f EXCEPT !.step = to] \in Fetches
           /\ \A v \in 0..MaxChanges : [f EXCEPT !.step = "read", !.value = v] \in Fetches
           /\ \A j \in 0..MaxFetches :
                 [step |-> "waiting", sub |-> j, value |-> 0] \in Fetches
  BY BoundFacts DEF Fetches

LEMMA InitTypes == Init => TypeOK
  <1>1. NoFetch \in Fetches
    BY BoundFacts DEF NoFetch, Fetches
  <1>2. 0 \in 0..MaxFaults
    OBVIOUS
  <1> QED BY <1>1, <1>2, BoundFacts DEF Init, TypeOK

LEMMA CacheTypes ==
    ASSUME TypeOK, NEW i \in Ids,
           (\E j \in Ids : GetValue(i, j)) \/ FetchReads(i) \/ FetchSettles(i) \/ FetchFails(i)
    PROVE  TypeOK'
  <1> USE BoundFacts DEF TypeOK, messageVars, cacheVars, watchVars, Forgotten
  <1>1. ASSUME NEW j \in Ids, GetValue(i, j) PROVE TypeOK'
    <2>1. fetch' \in [Ids -> Fetches]
      BY <1>1, FetchFacts DEF GetValue
    <2>2. watch' \in 0..MaxFetches /\ sub' \in [Ids -> {"new", "sent", "confirmed", "failed"}]
      BY <1>1 DEF GetValue, Watches
    <2>3. callbacks' \subseteq Ids /\ subscribed' \in BOOLEAN
      BY <1>1 DEF GetValue, Watches
    <2>4. entry' = i /\ fetch'[i].step = "waiting"
      BY <1>1 DEF GetValue
    <2> QED BY <1>1, <2>1, <2>2, <2>3, <2>4 DEF GetValue
  <1>2. CASE FetchReads(i)
    <2>1. fetch' \in [Ids -> Fetches]
      BY <1>2, FetchFacts DEF FetchReads
    <2>2. entry # 0 => fetch'[entry].step \in {"waiting", "read", "settled"}
      BY <1>2 DEF FetchReads, Fetches
    <2> QED BY <1>2, <2>1, <2>2 DEF FetchReads
  <1>3. CASE FetchSettles(i)
    <2>1. fetch' \in [Ids -> Fetches]
      BY <1>3, FetchFacts DEF FetchSettles
    <2>2. entry # 0 => fetch'[entry].step \in {"waiting", "read", "settled"}
      BY <1>3 DEF FetchSettles, Fetches
    <2> QED BY <1>3, <2>1, <2>2 DEF FetchSettles
  <1>4. CASE FetchFails(i)
    <2>1. fetch' \in [Ids -> Fetches]
      BY <1>4, FetchFacts DEF FetchFails
    <2>2. faults' \in 0..MaxFaults
      BY <1>4 DEF FetchFails
    <2>3. entry' = 0
      BY <1>4 DEF FetchFails, ClearsRejected
    <2> QED BY <1>4, <2>1, <2>2, <2>3 DEF FetchFails
  <1> QED BY <1>1, <1>2, <1>3, <1>4

LEMMA WatchTypes ==
    ASSUME TypeOK,
           \/ \E j \in Ids : SubConfirmed(j) \/ SubFails(j)
           \/ Expire \/ Disconnect \/ Reconnect
    PROVE  TypeOK'
  <1> USE BoundFacts DEF TypeOK, messageVars, cacheVars, watchVars, Forgotten
  <1>1. ASSUME NEW j \in Ids, SubConfirmed(j) PROVE TypeOK'
    BY <1>1 DEF SubConfirmed
  <1>2. ASSUME NEW j \in Ids, SubFails(j) PROVE TypeOK'
    <2>1. fetch' \in [Ids -> Fetches]
      BY <1>2, FetchFacts DEF SubFails
    <2>2. faults' \in 0..MaxFaults
      BY <1>2 DEF SubFails
    <2>3. entry' \in 0..MaxFetches /\ watch' \in 0..MaxFetches /\ callbacks' \subseteq Ids
      BY <1>2 DEF SubFails, ClearsRejected
    <2>4. sub' \in [Ids -> {"new", "sent", "confirmed", "failed"}]
      BY <1>2 DEF SubFails
    <2>5. entry' # 0 => fetch'[entry'].step \in {"waiting", "read", "settled"}
      <3>1. entry' # 0 => WaitingFor(j) = {} /\ entry' = entry
        BY <1>2 DEF SubFails, ClearsRejected
      <3>2. WaitingFor(j) = {} => fetch' = fetch
        BY <1>2 DEF SubFails
      <3> QED BY <3>1, <3>2
    <2> QED BY <1>2, <2>1, <2>2, <2>3, <2>4, <2>5 DEF SubFails
  <1>3. CASE Expire
    <2>1. callbacks' \subseteq Ids /\ subscribed' \in BOOLEAN
      BY <1>3 DEF Expire, Unsubscribes
    <2> QED BY <1>3, <2>1 DEF Expire
  <1>4. CASE Disconnect
    <2>1. missed' \subseteq Ids
      BY <1>4 DEF Disconnect, Misses
    <2>2. faults' \in 0..MaxFaults
      BY <1>4 DEF Disconnect
    <2>3. inbox' \subseteq Servers \X Changes /\ connected' \in BOOLEAN /\ subscribed' \in BOOLEAN
      BY <1>4 DEF Disconnect
    <2> QED BY <1>4, <2>1, <2>2, <2>3 DEF Disconnect
  <1>5. CASE Reconnect
    BY <1>5 DEF Reconnect
  <1> QED BY <1>1, <1>2, <1>3, <1>4, <1>5

LEMMA MessageTypes ==
    ASSUME TypeOK, NEW s \in Servers,
           \/ Commit(s)
           \/ \E n \in Changes : Invalidate(s, n) \/ Publish(s, n)
                                 \/ PublishFails(s, n) \/ Deliver(s, n)
    PROVE  TypeOK'
  <1> USE BoundFacts DEF TypeOK, messageVars, cacheVars, watchVars, Forgotten
  <1>1. CASE Commit(s)
    <2>1. db' \in Changes /\ db' \in 0..MaxChanges
      BY <1>1 DEF Commit
    <2> QED BY <1>1, <2>1 DEF Commit
  <1>2. ASSUME NEW n \in Changes, Invalidate(s, n) PROVE TypeOK'
    BY <1>2 DEF Invalidate
  <1>3. ASSUME NEW n \in Changes, Publish(s, n) PROVE TypeOK'
    <2>1. missed' \subseteq Ids
      BY <1>3 DEF Publish, Misses
    <2>2. inbox' \subseteq Servers \X Changes
      BY <1>3 DEF Publish
    <2> QED BY <1>3, <2>1, <2>2 DEF Publish, Published
  <1>4. ASSUME NEW n \in Changes, PublishFails(s, n) PROVE TypeOK'
    <2>1. missed' \subseteq Ids
      BY <1>4 DEF PublishFails, Misses
    <2>2. faults' \in 0..MaxFaults
      BY <1>4 DEF PublishFails
    <2> QED BY <1>4, <2>1, <2>2 DEF PublishFails, Published
  <1>5. ASSUME NEW n \in Changes, Deliver(s, n) PROVE TypeOK'
    BY <1>5 DEF Deliver
  <1> QED BY <1>1, <1>2, <1>3, <1>4, <1>5

\* The variables have the values the code gives them, and no rejected promise is
\* cached.
THEOREM TypeCorrect == Spec => []TypeOK
  <1>1. TypeOK /\ [Next]_vars => TypeOK'
    <2>1. CASE UNCHANGED vars
      BY <2>1 DEF TypeOK, vars, messageVars, cacheVars, watchVars
    <2> QED BY <2>1, CacheTypes, WatchTypes, MessageTypes DEF Next
  <1> QED BY <1>1, InitTypes, PTL DEF Spec

-----------------------------------------------------------------------------
\* A value that the cache does not get and does not keep is told of as before.
LEMMA ToldAsBefore ==
    ASSUME StaleIsTold, UNCHANGED messages,
           entry' = 0 \/ ~HasRead' \/ (entry' = entry /\ fetch'[entry] = fetch[entry])
    PROVE  StaleIsTold'
  BY DEF StaleIsTold, Stale, HasRead, Value, Excused, OnItsWay, messages, messageVars

LEMMA CacheStep ==
    ASSUME IInv, NEW i \in Ids,
           (\E j \in Ids : GetValue(i, j)) \/ FetchReads(i) \/ FetchSettles(i) \/ FetchFails(i)
    PROVE  CallbacksRight' /\ EntryIsHeard' /\ StaleIsTold'
  <1> USE DEF Ids, messageVars, cacheVars, watchVars, Forgotten, messages
  <1>1. ASSUME NEW j \in Ids, GetValue(i, j)
        PROVE  CallbacksRight' /\ EntryIsHeard' /\ StaleIsTold'
    <2>1. /\ watch' = j /\ callbacks' = callbacks \cup {j} /\ connected' = connected
          /\ subscribed' = subscribed
          /\ sub'[j] \in {"sent", "confirmed"}
          /\ \A k \in callbacks' : sub'[k] = "confirmed" => k \in callbacks /\ sub[k] = "confirmed"
      <3>1. CASE watch # 0
        BY <1>1, <3>1 DEF GetValue, Watches, IInv, CallbacksRight
      <3>2. CASE watch = 0
        BY <1>1, <3>2 DEF GetValue, Watches, IInv, TypeOK
      <3> QED BY <3>1, <3>2
    <2>5. CallbacksRight'
      BY <2>1 DEF IInv, CallbacksRight
    <2>2. entry' = i /\ fetch'[i].step = "waiting" /\ fetch'[i].sub = j
      BY <1>1 DEF GetValue, IInv, TypeOK
    <2>3. EntryIsHeard'
      BY <2>1, <2>2 DEF EntryIsHeard
    <2>4. StaleIsTold'
      BY <1>1, <2>2, ToldAsBefore DEF GetValue, IInv, HasRead
    <2> QED BY <2>3, <2>4, <2>5
  <1>2. CASE FetchReads(i)
    <2>1. CallbacksRight' /\ EntryIsHeard'
      BY <1>2 DEF FetchReads, InEffect, IInv, CallbacksRight, EntryIsHeard, TypeOK
    <2>2. UNCHANGED messages /\ entry' = entry /\ db \in Int
      BY <1>2 DEF FetchReads, IInv, TypeOK
    <2>3. \A k \in Ids : fetch'[k] = IF k = i THEN [fetch[k] EXCEPT !.step = "read", !.value = db]
                                             ELSE fetch[k]
      BY <1>2 DEF FetchReads, IInv, TypeOK
    <2>4. CASE entry = i
      <3>1. fetch'[entry'].value = db
        BY <2>2, <2>3, <2>4 DEF IInv, TypeOK, Fetches
      <3>2. ~Stale'
        BY <2>2, <3>1 DEF Stale, Value
      <3> QED BY <2>1, <3>2 DEF StaleIsTold
    <2>5. CASE entry # i
      <3>1. entry = 0 \/ fetch'[entry] = fetch[entry]
        BY <2>3, <2>5, BoundFacts DEF IInv, TypeOK
      <3>2. StaleIsTold
        BY DEF IInv
      <3> HIDE DEF messages
      <3> QED BY <2>1, <2>2, <3>1, <3>2, ToldAsBefore
    <2> QED BY <2>1, <2>4, <2>5
  <1>3. CASE FetchSettles(i)
    <2>1. CallbacksRight' /\ EntryIsHeard'
      BY <1>3 DEF FetchSettles, IInv, CallbacksRight, EntryIsHeard, TypeOK
    <2>2. UNCHANGED messages /\ entry' = entry
      BY <1>3 DEF FetchSettles
    <2>3. \A k \in Ids : fetch'[k].value = fetch[k].value
                          /\ (fetch'[k].step \in {"read", "settled"}
                                 => fetch[k].step \in {"read", "settled"})
      BY <1>3 DEF FetchSettles, IInv, TypeOK, Fetches
    <2>4. Stale' => Stale /\ Value' = Value
      BY <2>2, <2>3, BoundFacts DEF Stale, HasRead, Value, IInv, TypeOK
    <2>5. StaleIsTold'
      BY <2>2, <2>4 DEF IInv, StaleIsTold, Excused, OnItsWay
    <2> QED BY <2>1, <2>5
  <1>4. CASE FetchFails(i)
    <2>1. CallbacksRight' /\ EntryIsHeard'
      BY <1>4 DEF FetchFails, ClearsRejected, IInv, CallbacksRight, EntryIsHeard
    <2> QED BY <1>4, <2>1, ToldAsBefore DEF FetchFails, ClearsRejected, IInv
  <1> QED BY <1>1, <1>2, <1>3, <1>4

LEMMA WatchStep ==
    ASSUME IInv,
           \/ \E j \in Ids : SubConfirmed(j) \/ SubFails(j)
           \/ Expire \/ Disconnect \/ Reconnect
    PROVE  CallbacksRight' /\ EntryIsHeard' /\ StaleIsTold'
  <1> USE DEF Ids, messageVars, cacheVars, watchVars, Forgotten, messages
  <1>1. ASSUME NEW j \in Ids, SubConfirmed(j)
        PROVE  CallbacksRight' /\ EntryIsHeard' /\ StaleIsTold'
    <2>1. CallbacksRight' /\ EntryIsHeard'
      BY <1>1 DEF SubConfirmed, IInv, CallbacksRight, EntryIsHeard, TypeOK
    <2> QED BY <1>1, <2>1, ToldAsBefore DEF SubConfirmed, IInv
  <1>2. ASSUME NEW j \in Ids, SubFails(j)
        PROVE  CallbacksRight' /\ EntryIsHeard' /\ StaleIsTold'
    <2>1. /\ entry' \in {entry, 0}
          /\ entry' # 0 => entry' = entry /\ fetch'[entry] = fetch[entry] /\ fetch[entry].sub # j
      BY <1>2, BoundFacts DEF SubFails, ClearsRejected, WaitingFor, IInv, EntryIsHeard, TypeOK
    <2>2. /\ callbacks' = callbacks \ {j} /\ watch' = 0 /\ subscribed' = subscribed
          /\ \A k \in Ids : k # j => sub'[k] = sub[k]
          /\ connected' = connected
      BY <1>2 DEF SubFails, IInv, TypeOK
    <2>3. CallbacksRight'
      BY <2>2 DEF IInv, CallbacksRight, TypeOK
    <2>4. EntryIsHeard'
      <3> SUFFICES ASSUME entry' # 0 PROVE EntryIsHeard'
        BY DEF EntryIsHeard
      <3>1. fetch[entry].sub \in Ids \ {j} /\ fetch'[entry'].sub = fetch[entry].sub
        <4>1. callbacks \subseteq Ids /\ EntryIsHeard
          BY DEF IInv, TypeOK
        <4> QED BY <2>1, <4>1 DEF EntryIsHeard
      <3>2. sub'[fetch[entry].sub] = sub[fetch[entry].sub]
        BY <2>2, <3>1
      <3> QED BY <2>1, <2>2, <3>1, <3>2 DEF IInv, EntryIsHeard
    <2> QED BY <1>2, <2>1, <2>3, <2>4, ToldAsBefore DEF SubFails, IInv
  <1>3. CASE Expire
    <2>1. CallbacksRight' /\ EntryIsHeard'
      BY <1>3 DEF Expire, Unsubscribes, IInv, CallbacksRight, EntryIsHeard
    <2> QED BY <1>3, <2>1, ToldAsBefore DEF Expire, IInv
  <1>4. CASE Disconnect
    <2>1. CallbacksRight' /\ EntryIsHeard'
      BY <1>4 DEF Disconnect, IInv, CallbacksRight, EntryIsHeard
    <2>2. CASE inbox = {}
      <3>1. UNCHANGED messages /\ entry' = entry /\ fetch' = fetch /\ StaleIsTold
        BY <1>4, <2>2 DEF Disconnect, IInv
      <3> HIDE DEF messages
      <3> QED BY <2>1, <3>1, ToldAsBefore
    <2>3. CASE inbox # {}
      <3>1. entry' # 0 => Excused'
        BY <1>4, <2>3 DEF Disconnect, Misses, Excused
      <3> QED BY <2>1, <3>1 DEF StaleIsTold, Stale, HasRead
    <2> QED BY <2>1, <2>2, <2>3
  <1>5. CASE Reconnect
    <2>1. CallbacksRight' /\ EntryIsHeard'
      BY <1>5 DEF Reconnect, IInv, CallbacksRight, EntryIsHeard
    <2> QED BY <1>5, <2>1, ToldAsBefore DEF Reconnect, IInv
  <1> QED BY <1>1, <1>2, <1>3, <1>4, <1>5

\* A promise that has read gets the messages, as long as there is a connection.
LEMMA ReadersAreSubscribed ==
    ASSUME IInv, HasRead PROVE callbacks # {} /\ (connected => subscribed)
  BY DEF IInv, CallbacksRight, EntryIsHeard, HasRead

LEMMA MessageStep ==
    ASSUME IInv, NEW s \in Servers,
           \/ Commit(s)
           \/ \E n \in Changes : Invalidate(s, n) \/ Publish(s, n)
                                 \/ PublishFails(s, n) \/ Deliver(s, n)
    PROVE  CallbacksRight' /\ EntryIsHeard' /\ StaleIsTold'
  <1> USE DEF Changes, messageVars, cacheVars, watchVars, Forgotten
  <1>1. UNCHANGED <<connected, fetch, watchVars>> /\ entry' \in {entry, 0}
    BY DEF Commit, Invalidate, Publish, PublishFails, Deliver
  <1>2. CallbacksRight' /\ EntryIsHeard'
    BY <1>1 DEF IInv, CallbacksRight, EntryIsHeard
  <1>3. SUFFICES ASSUME HasRead', Value' < db', ~Excused'
                 PROVE  OnItsWay(Value + 1)'
    BY <1>2 DEF StaleIsTold, Stale, OnItsWay
  <1>4. entry' = entry /\ HasRead /\ Value' = Value /\ Value \in Nat /\ db \in Nat
    <2>1. entry' = entry /\ entry \in Ids /\ fetch' = fetch
      BY <1>1, <1>3, BoundFacts DEF HasRead, IInv, TypeOK
    <2>2. fetch[entry].value \in Nat /\ db \in Nat
      BY <2>1 DEF IInv, TypeOK, Fetches
    <2> QED BY <1>3, <2>1, <2>2 DEF HasRead, Value
  <1>5. CASE Commit(s)
    <2>1. CASE Value < db
      <3>1. OnItsWay(Value + 1)
        BY <1>3, <1>5, <2>1, <1>4 DEF IInv, StaleIsTold, Stale, Excused, Commit
      <3> QED BY <1>4, <1>5, <3>1 DEF Commit, OnItsWay, IInv, TypeOK
    <2>2. CASE Value = db
      <3>1. Value + 1 \in due'[s]
        BY <1>5, <2>2 DEF Commit, IInv, TypeOK
      <3> QED BY <1>4, <3>1 DEF OnItsWay
    <2> QED BY <1>3, <1>4, <1>5, <2>1, <2>2 DEF Commit
  <1>6. ASSUME NEW n \in Changes,
               Invalidate(s, n) \/ Publish(s, n) \/ PublishFails(s, n) \/ Deliver(s, n)
        PROVE  OnItsWay(Value + 1)'
    <2>1. db' = db /\ missed \subseteq missed'
      BY <1>6 DEF Invalidate, Publish, PublishFails, Deliver, Misses
    <2>2. OnItsWay(Value + 1)
      BY <1>3, <1>4, <2>1 DEF IInv, StaleIsTold, Stale, Excused
    <2>3. CASE Invalidate(s, n)
      <3>1. s # "self"
        BY <2>3, <1>3 DEF Invalidate, HasRead
      <3> QED BY <1>4, <2>2, <2>3, <3>1 DEF Invalidate, OnItsWay, Servers, IInv, TypeOK
    <2>4. CASE Publish(s, n)
      <3>1. subscribed
        BY <2>4, <1>3, <1>4, ReadersAreSubscribed DEF Publish, Misses, Excused, HasRead
      <3>2. /\ \A r \in Servers : r # s => publishing'[r] = publishing[r]
            /\ publishing[s] \subseteq publishing'[s] \cup {n}
            /\ inbox' = inbox \cup {<<s, n>>} /\ due' = due
        BY <2>4, <3>1 DEF Publish, Published, IInv, TypeOK
      <3> QED BY <1>4, <2>2, <3>2 DEF OnItsWay, Servers
    <2>5. CASE PublishFails(s, n)
      <3>1. s = "self"
        BY <2>5, <1>3, <1>4 DEF PublishFails, Misses, Excused, HasRead
      <3>2. /\ \A r \in Others : publishing'[r] = publishing[r]
            /\ inbox' = inbox /\ due' = due
        BY <2>5, <3>1 DEF PublishFails, Published, IInv, TypeOK, Servers
      <3> QED BY <1>4, <2>2, <3>2 DEF OnItsWay
    <2>6. CASE Deliver(s, n)
      <3>1. s = "self"
        BY <2>6, <1>3, <1>4, ReadersAreSubscribed DEF Deliver, ActedOn, HasRead
      <3> QED BY <1>4, <2>2, <2>6, <3>1 DEF Deliver, OnItsWay
    <2> QED BY <1>6, <2>3, <2>4, <2>5, <2>6
  <1> QED BY <1>5, <1>6

\* The invariant that relates the cache, its subscription and the messages.
THEOREM Inductive == Spec => []IInv
  <1>1. Init => IInv
    BY InitTypes DEF Init, IInv, CallbacksRight, EntryIsHeard, StaleIsTold, Stale, HasRead
  <1>2. IInv /\ [Next]_vars => CallbacksRight' /\ EntryIsHeard' /\ StaleIsTold'
    <2>1. CASE UNCHANGED vars
      BY <2>1 DEF IInv, CallbacksRight, EntryIsHeard, StaleIsTold, Stale, HasRead, Value,
         Excused, OnItsWay, vars, messageVars, cacheVars, watchVars
    <2> QED BY <2>1, CacheStep, WatchStep, MessageStep DEF Next
  <1> QED BY <1>1, <1>2, TypeCorrect, PTL DEF Spec, IInv

\* "to be sure to catch any invalidation that happens after the fetch": the
\* invalidation of the first change that a cached value lacks is on its way.
THEOREM NoSilentStaleness == Spec => []StaleIsTold
  BY Inductive, PTL DEF IInv

-----------------------------------------------------------------------------
\* No step leaves a subscription over, or takes it from a value, as long as none
\* fails after its key has expired.
LEMMA NextWatched == ASSUME ~LateFailures PROVE IInv /\ Watched /\ [Next]_vars => Watched'
  <1> SUFFICES ASSUME IInv, Watched, [Next]_vars PROVE Watched'
    OBVIOUS
  <1> USE DEF cacheVars, watchVars, Forgotten
  <1>1. ASSUME NEW i \in Ids, NEW j \in Ids, GetValue(i, j) PROVE Watched'
    <2>1. watch' = j /\ callbacks' \subseteq {j}
      <3>1. CASE watch # 0
        BY <1>1, <3>1 DEF GetValue, Watches, Watched
      <3>2. CASE watch = 0
        <4>1. callbacks = {}
          BY <3>2, BoundFacts DEF Watched, IInv, TypeOK
        <4> QED BY <1>1, <3>2, <4>1 DEF GetValue, Watches
      <3> QED BY <3>1, <3>2
    <2> QED BY <2>1, BoundFacts DEF Watched
  <1>2. ASSUME NEW i \in Ids, FetchReads(i) \/ FetchSettles(i) \/ FetchFails(i) PROVE Watched'
    BY <1>2 DEF FetchReads, FetchSettles, FetchFails, ClearsRejected, Watched
  <1>3. ASSUME NEW j \in Ids, SubConfirmed(j) PROVE Watched'
    BY <1>3 DEF SubConfirmed, Watched
  <1>4. ASSUME NEW j \in Ids, SubFails(j) PROVE Watched'
    <2>1. watch = j /\ callbacks' = {} /\ watch' = 0
      BY <1>4 DEF SubFails, Watched
    <2>2. entry' = 0
      BY <1>4, <2>1, BoundFacts DEF SubFails, ClearsRejected, WaitingFor, Watched, IInv,
         EntryIsHeard, TypeOK
    <2> QED BY <2>1, <2>2 DEF Watched
  <1>5. CASE Expire
    <2>1. callbacks' = {}
      BY <1>5, BoundFacts DEF Expire, Unsubscribes, Watched, IInv, TypeOK
    <2> QED BY <1>5, <2>1 DEF Expire, Watched
  <1>6. CASE Disconnect \/ Reconnect
    BY <1>6 DEF Disconnect, Reconnect, Watched
  <1>7. ASSUME NEW s \in Servers,
               \/ Commit(s)
               \/ \E n \in Changes : Invalidate(s, n) \/ Publish(s, n)
                                     \/ PublishFails(s, n) \/ Deliver(s, n)
        PROVE  Watched'
    BY <1>7 DEF Commit, Invalidate, Publish, PublishFails, Deliver, Watched
  <1>8. CASE UNCHANGED vars
    BY <1>8 DEF vars, Watched
  <1> QED BY <1>1, <1>2, <1>3, <1>4, <1>5, <1>6, <1>7, <1>8 DEF Next

\* "if _cache[key] is set, then _watchedKeys[key] is set".
THEOREM CachedIsWatched == ASSUME ~LateFailures PROVE Spec => []Watched
  <1>1. Init => Watched
    BY DEF Init, Watched
  <1> QED BY <1>1, NextWatched, Inductive, PTL DEF Spec
=============================================================================
