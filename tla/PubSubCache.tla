---------------------------- MODULE PubSubCache ----------------------------
(***************************************************************************)
(* A value of the home database that servers cache, such as who has access *)
(* to a document: PubSubCache.ts, over a PubSubManager with Redis          *)
(* (PubSubManager.ts) and the maps of promises of AsyncCreate.ts, as       *)
(* HomeDBCaches uses it.  A server that commits a change drops its own     *)
(* value, and publishes an invalidation to the others.  The maps hold      *)
(* promises: what is dropped from a map goes on, and when it fails, takes  *)
(* out of the map whatever is there by then.                               *)
(*                                                                         *)
(* One key and the cache of one server: keys share no state, and the other *)
(* servers matter by the changes they commit.  A value is the number of   *)
(* the change that it reflects.  clear() is left out: it comes at the end. *)
(***************************************************************************)
EXTENDS Integers, FiniteSets

CONSTANTS
    Others,      \* the other servers that commit changes
    MaxChanges,  \* changes committed to the database
    MaxFetches,  \* calls of fetch, and subscriptions
    MaxFaults,   \* lost connections, and publications and fetches that fail
    LateFailures \* a subscription may fail when its key has expired meanwhile

ASSUME OthersAssumption == "self" \notin Others
ASSUME BoundsAssumption ==
    /\ MaxChanges \in Nat /\ MaxFetches \in Nat /\ MaxFaults \in Nat
    /\ LateFailures \in BOOLEAN

VARIABLES
    db,         \* the number of changes committed
    due,        \* per server, its changes whose invalidation is to be called
    publishing, \* per server, the invalidations on their way to Redis
    inbox,      \* the invalidations on their way from Redis, with who sent them
    connected,  \* the connection of the subscriber is up
    entry,      \* the promise in _cache, 0 if none
    fetch,      \* the promises made by getValue
    watch,      \* the subscription in _watchedKeys, 0 if none
    sub,        \* the subscriptions made
    callbacks,  \* _subscriptions of the PubSubManager
    subscribed, \* Redis sends the messages of the channel
    faults,     \* for the bound
    missed      \* ghost: the promises that a message was lost for

messageVars == <<due, publishing, inbox>>
cacheVars == <<entry, fetch>>
watchVars == <<watch, sub, callbacks, subscribed>>
vars == <<db, messageVars, connected, cacheVars, watchVars, faults, missed>>

Servers == Others \cup {"self"}
Ids == 1..MaxFetches
Changes == 1..MaxChanges
NoFetch == [step |-> "new", sub |-> 0, value |-> 0]
Fetches == [step : {"new", "waiting", "read", "settled", "rejected"},
            sub : 0..MaxFetches, value : 0..MaxChanges]

Init ==
    /\ db = 0
    /\ due = [s \in Servers |-> {}]
    /\ publishing = [s \in Servers |-> {}]
    /\ inbox = {}
    /\ connected = TRUE
    /\ entry = 0
    /\ fetch = [i \in Ids |-> NoFetch]
    /\ watch = 0
    /\ sub = [j \in Ids |-> "new"]
    /\ callbacks = {}
    /\ subscribed = FALSE
    /\ faults = 0
    /\ missed = {}

\* The key is deleted from _cache, with its timer, whatever promise is there.
Forgotten == entry' = 0

-----------------------------------------------------------------------------
\* getValue, when nothing is cached

\* The subscription there is, or a new one: PubSubManager.subscribe.
Watches(j) ==
    IF watch # 0
    THEN j = watch /\ UNCHANGED watchVars
    ELSE /\ sub[j] = "new" /\ \A k \in 1..(j - 1) : sub[k] # "new"
         /\ watch' = j
         /\ sub' = [sub EXCEPT ![j] = "sent"]
         /\ callbacks' = callbacks \cup {j}
         /\ UNCHANGED subscribed

GetValue(i, j) ==
    /\ entry = 0
    /\ fetch[i].step = "new" /\ \A k \in 1..(i - 1) : fetch[k].step # "new"
    /\ Watches(j)
    /\ fetch' = [fetch EXCEPT ![i] = [step |-> "waiting", sub |-> j, value |-> 0]]
    /\ entry' = i
    /\ UNCHANGED <<db, messageVars, connected, faults, missed>>

\* "wait it to take effect, to be sure to catch any invalidation that happens
\* after the fetch"; a variant does not wait.
InEffectSoon(j) == sub[j] # "failed"
InEffect(j) == sub[j] = "confirmed"

FetchReads(i) ==
    /\ fetch[i].step = "waiting"
    /\ InEffect(fetch[i].sub)
    /\ fetch' = [fetch EXCEPT ![i] = [@ EXCEPT !.step = "read", !.value = db]]
    /\ UNCHANGED <<db, messageVars, connected, entry, watchVars, faults, missed>>

FetchSettles(i) ==
    /\ fetch[i].step = "read"
    /\ fetch' = [fetch EXCEPT ![i] = [@ EXCEPT !.step = "settled"]]
    /\ UNCHANGED <<db, messageVars, connected, entry, watchVars, faults, missed>>

\* mapSetOrClear: each promise that is rejected deletes the key, whatever is
\* there; a variant keeps it.
KeepsRejected(promises) == UNCHANGED entry
ClearsRejected(promises) == entry' = IF promises = {} THEN entry ELSE 0

FetchFails(i) ==
    /\ faults < MaxFaults
    /\ fetch[i].step \in {"waiting", "read"}
    /\ InEffect(fetch[i].sub)
    /\ fetch' = [fetch EXCEPT ![i] = [@ EXCEPT !.step = "rejected"]]
    /\ ClearsRejected({i})
    /\ faults' = faults + 1
    /\ UNCHANGED <<db, messageVars, connected, watchVars, missed>>

-----------------------------------------------------------------------------
\* Subscriptions

\* SUBSCRIBE is carried out; if the callback is gone, so was its UNSUBSCRIBE,
\* which was sent next.
SubConfirmed(j) ==
    /\ connected
    /\ sub[j] = "sent"
    /\ sub' = [sub EXCEPT ![j] = "confirmed"]
    /\ subscribed' = (subscribed \/ j \in callbacks)
    /\ UNCHANGED <<db, messageVars, connected, cacheVars, watch, callbacks, faults, missed>>

\* The promise of the subscription is rejected, and those that wait for it are
\* too.
WaitingFor(j) == {i \in Ids : fetch[i].step = "waiting" /\ fetch[i].sub = j}
SubFails(j) ==
    /\ faults < MaxFaults
    /\ sub[j] = "sent"
    /\ watch = j \/ LateFailures
    /\ sub' = [sub EXCEPT ![j] = "failed"]
    /\ callbacks' = callbacks \ {j}
    /\ watch' = 0
    /\ fetch' = [i \in Ids |-> IF i \in WaitingFor(j)
                               THEN [fetch[i] EXCEPT !.step = "rejected"] ELSE fetch[i]]
    /\ ClearsRejected(WaitingFor(j))
    /\ faults' = faults + 1
    /\ UNCHANGED <<db, messageVars, connected, subscribed, missed>>

\* PubSubManager._unsubscribe; a variant leaves the callback.
UnsubscribesRedisOnly(j) ==
    /\ UNCHANGED callbacks
    /\ subscribed' = (subscribed /\ callbacks \ {j} # {})
Unsubscribes(j) ==
    /\ callbacks' = callbacks \ {j}
    /\ subscribed' = (subscribed /\ callbacks \ {j} # {})

\* The timer of the entry goes off, ttlMs after it was made: expire and
\* _onExpire.
Expire ==
    /\ entry # 0
    /\ Forgotten
    /\ IF watch # 0 THEN Unsubscribes(watch) ELSE UNCHANGED <<callbacks, subscribed>>
    /\ watch' = 0
    /\ UNCHANGED <<db, messageVars, connected, fetch, sub, faults, missed>>

-----------------------------------------------------------------------------
\* Changes and invalidations

Commit(s) ==
    /\ db < MaxChanges
    /\ db' = db + 1
    /\ due' = [due EXCEPT ![s] = @ \cup {db'}]
    /\ UNCHANGED <<publishing, inbox, connected, cacheVars, watchVars, faults, missed>>

\* invalidateKeys, called after the transaction: the own cache synchronously,
\* the others by a message.
Invalidate(s, n) ==
    /\ n \in due[s]
    /\ due' = [due EXCEPT ![s] = @ \ {n}]
    /\ publishing' = [publishing EXCEPT ![s] = @ \cup {n}]
    /\ IF s = "self" THEN Forgotten ELSE UNCHANGED entry
    /\ UNCHANGED <<db, inbox, connected, fetch, watchVars, faults, missed>>

\* A message that does not come is missed by the promise there is (ghost).
Misses == missed' = missed \cup ({entry} \ {0})
Published(s, n) ==
    /\ n \in publishing[s]
    /\ publishing' = [publishing EXCEPT ![s] = @ \ {n}]

Publish(s, n) ==
    /\ Published(s, n)
    /\ inbox' = IF subscribed THEN inbox \cup {<<s, n>>} ELSE inbox
    /\ IF connected THEN UNCHANGED missed ELSE Misses
    /\ UNCHANGED <<db, due, connected, cacheVars, watchVars, faults>>

PublishFails(s, n) ==
    /\ faults < MaxFaults
    /\ Published(s, n)
    /\ IF s = "self" THEN UNCHANGED missed ELSE Misses
    /\ faults' = faults + 1
    /\ UNCHANGED <<db, due, inbox, connected, cacheVars, watchVars>>

\* The messages that are acted on; a variant ignores the wrong ones.
ActedOnSwapped(s) == s = "self"
ActedOn(s) == s # "self"

Deliver(s, n) ==
    /\ <<s, n>> \in inbox
    /\ inbox' = inbox \ {<<s, n>>}
    /\ IF ActedOn(s) /\ callbacks # {} THEN Forgotten ELSE UNCHANGED entry
    /\ UNCHANGED <<db, due, publishing, connected, fetch, watchVars, faults, missed>>

\* The connection is lost with the messages in it.
Disconnect ==
    /\ faults < MaxFaults
    /\ connected
    /\ connected' = FALSE /\ subscribed' = FALSE
    /\ inbox' = {}
    /\ IF inbox = {} THEN UNCHANGED missed ELSE Misses
    /\ faults' = faults + 1
    /\ UNCHANGED <<db, due, publishing, cacheVars, watch, sub, callbacks>>

\* ioredis connects again, and subscribes to what it was subscribed to.
Reconnect ==
    /\ ~connected
    /\ connected' = TRUE
    /\ subscribed' = \E j \in callbacks : sub[j] = "confirmed"
    /\ UNCHANGED <<db, messageVars, cacheVars, watch, sub, callbacks, faults, missed>>

-----------------------------------------------------------------------------
Next ==
    \/ \E i, j \in Ids : GetValue(i, j)
    \/ \E i \in Ids : FetchReads(i) \/ FetchSettles(i) \/ FetchFails(i)
    \/ \E j \in Ids : SubConfirmed(j) \/ SubFails(j)
    \/ Expire \/ Disconnect \/ Reconnect
    \/ \E s \in Servers : Commit(s)
    \/ \E s \in Servers, n \in Changes :
          Invalidate(s, n) \/ Publish(s, n) \/ PublishFails(s, n) \/ Deliver(s, n)

Spec == Init /\ [][Next]_vars

\* A transaction's callbacks are called, and messages get through.  Nothing is
\* asked of the timer.
Fairness ==
    \A s \in Servers, n \in Changes :
        WF_vars(Invalidate(s, n)) /\ WF_vars(Publish(s, n)) /\ WF_vars(Deliver(s, n))

FairSpec == Spec /\ Fairness

-----------------------------------------------------------------------------
\* Properties

\* The variables have the values the code gives them; the cache holds no promise
\* that was rejected, which callers would go on getting.
TypeOK ==
    /\ db \in 0..MaxChanges
    /\ due \in [Servers -> SUBSET Changes]
    /\ publishing \in [Servers -> SUBSET Changes]
    /\ inbox \subseteq Servers \X Changes
    /\ connected \in BOOLEAN /\ subscribed \in BOOLEAN
    /\ entry \in 0..MaxFetches
    /\ fetch \in [Ids -> Fetches]
    /\ entry # 0 => fetch[entry].step \in {"waiting", "read", "settled"}
    /\ watch \in 0..MaxFetches
    /\ sub \in [Ids -> {"new", "sent", "confirmed", "failed"}]
    /\ callbacks \subseteq Ids
    /\ faults \in 0..MaxFaults
    /\ missed \subseteq Ids

\* What a caller of getValue gets, or will get, without another fetch.
HasRead == entry # 0 /\ fetch[entry].step \in {"read", "settled"}
Value == fetch[entry].value
Stale == HasRead /\ Value < db
Excused == entry \in missed

\* The invalidation of change n has yet to come.
OnItsWay(n) ==
    \/ \E s \in Servers : n \in due[s]
    \/ \E s \in Others : n \in publishing[s] \/ <<s, n>> \in inbox

\* A cached value that the database has left behind is about to be dropped: the
\* invalidation of the first change it does not reflect is on its way, unless a
\* message was lost for it.  "to be sure to catch any invalidation that happens
\* after the fetch".
StaleIsTold == Stale /\ ~Excused => OnItsWay(Value + 1)

\* "Invariant: if _cache[key] is set, then _watchedKeys[key] is set"; and no
\* subscription is left that the cache does not know of, and will never end.
Watched ==
    /\ entry # 0 => watch # 0
    /\ callbacks \subseteq {watch}

\* A value that has become stale is dropped without waiting for its timer,
\* unless a message for it is lost.
StaleIsDropped == \A i \in Ids : entry = i /\ Stale ~> entry # i \/ Excused
=============================================================================
