------------------------ MODULE ClientSession_proofs ------------------------
(***************************************************************************)
(* Proofs about ClientSession, for any number of Clients, requests, loads, *)
(* messages and disturbances.  That nothing is executed twice holds        *)
(* whatever EarlySends and FirstDialLost are; the order of messages needs  *)
(* EarlySends to be FALSE, and that no page waits for nothing needs both.  *)
(***************************************************************************)
EXTENDS ClientSession, SequenceTheorems, FiniteSetTheorems, WellFoundedInduction, TLAPS

USE BoundsAssumption DEF BoundsAssumption

-----------------------------------------------------------------------------
\* Types

\* A finite set of messages with a bound on their numbers: there is a highest.
Bounded(msgs) == IsFiniteSet(msgs) /\ \E b \in Nat : \A m \in msgs : m.seqId < b

IsGreeting(m) == "seqId" \notin DOMAIN m
Greetings == {m \in ConnectMessages : Bounded(m.missed)}
Messages == Numbered \cup Greetings

PageTypes ==
    /\ life \in Lives
    /\ attached \in Clients \cup {Nobody} /\ clientId \in Clients \cup {Nobody}
    /\ established \in BOOLEAN /\ wantReconnect \in BOOLEAN /\ redials \in BOOLEAN
    /\ firstConnect \in BOOLEAN /\ reloading \in BOOLEAN
    /\ lastSeqId \in Nat \cup {None}
    /\ nextReqId \in 0..MaxRequests
    /\ pending \in [ReqIds -> {"none", "unsent", "sent", "done", "rejected"}]

WireTypes ==
    /\ link \in [Clients -> {"none", "up", "closing", "down"}]
    /\ toServer \in [Clients -> Seq(Requests)]
    /\ toClient \in [Clients -> Seq(Messages)]

HeldTypes ==
    /\ nextSeqId \in [Clients -> Nat] /\ windowStart \in [Clients -> Nat]
    /\ missed \in [Clients -> SUBSET Numbered]
    /\ \A c \in Clients : IsFiniteSet(missed[c])
    /\ \A c \in Clients : \A m \in missed[c] : m.seqId < nextSeqId[c]

ClientTypes ==
    /\ created \in 0..MaxClients
    /\ socket \subseteq Clients /\ destroyed \subseteq Clients /\ doomed \subseteq Clients
    /\ unconfirmed \subseteq Clients /\ reloadPending \subseteq Clients
    /\ lastReqId \in [Clients -> ReqIds \cup {None}]
    /\ greeting \in [Clients -> Seq(Nat \cup {None})]

RunTypes ==
    /\ running \subseteq [client : Clients, life : Lives, req : ReqIds]
    /\ expected \in [Clients -> Nat]
    /\ executions \in [Lives -> [ReqIds -> Nat]]

Types == PageTypes /\ WireTypes /\ HeldTypes /\ ClientTypes /\ RunTypes

\* The types of the module, in their parts.
LEMMA TypesShow == Types => TypeOK
  <1> SUFFICES ASSUME Types PROVE TypeOK
    OBVIOUS
  <1> USE DEF Types, PageTypes, WireTypes, HeldTypes, ClientTypes, RunTypes
  <1>1. ASSUME NEW c \in Clients, NEW i \in DOMAIN toClient[c]
        PROVE  LET m == toClient[c][i]
               IN  IF "seqId" \in DOMAIN m THEN m.seqId \in Nat /\ m.body \in Bodies
                   ELSE /\ m.client \in Clients /\ m.needReload \in BOOLEAN
                        /\ \A n \in m.missed : n.seqId \in Nat /\ n.body \in Bodies
                        /\ m.lastReqId \in ReqIds \cup {None, Unspoken}
    <2>1. toClient[c][i] \in Messages
      OBVIOUS
    <2>2. PICK m : m = toClient[c][i]
      OBVIOUS
    <2>3. CASE m \in Numbered
      BY <2>2, <2>3 DEF Numbered
    <2>4. CASE m \in Greetings
      BY <2>2, <2>4 DEF Greetings, ConnectMessages, Numbered
    <2> QED BY <2>1, <2>2, <2>3, <2>4 DEF Messages
  <1>2. ASSUME NEW c \in Clients
        PROVE  /\ \A i \in DOMAIN toServer[c] : toServer[c][i] \in Requests
               /\ \A m \in missed[c] : m.seqId \in Nat /\ m.body \in Bodies
               /\ \A i \in DOMAIN greeting[c] : greeting[c][i] \in Nat \cup {None}
    <2>1. \A m \in missed[c] : m.seqId \in Nat /\ m.body \in Bodies
      BY DEF Numbered
    <2>2. /\ toServer[c] \in Seq(Requests) /\ greeting[c] \in Seq(Nat \cup {None})
      OBVIOUS
    <2>3. \A i \in DOMAIN toServer[c] : toServer[c][i] \in Requests
      BY <2>2
    <2>4. \A i \in DOMAIN greeting[c] : greeting[c][i] \in Nat \cup {None}
      BY <2>2
    <2> QED BY <2>1, <2>3, <2>4
  <1> QED BY <1>1, <1>2 DEF TypeOK

\* The two kinds of messages to a page.
LEMMA Kinds ==
    /\ \A m \in Numbered : m.seqId \in Nat /\ m.body \in Bodies /\ ~IsGreeting(m)
    /\ \A m \in ConnectMessages :
          /\ m.client \in Clients /\ m.missed \subseteq Numbered /\ m.needReload \in BOOLEAN
          /\ m.lastReqId \in ReqIds \cup {None, Unspoken} /\ IsGreeting(m)
    /\ \A m \in Messages : IF IsGreeting(m) THEN m \in Greetings ELSE m \in Numbered
  <1>1. \A m \in Numbered : m.seqId \in Nat /\ m.body \in Bodies /\ ~IsGreeting(m)
    BY DEF Numbered, IsGreeting
  <1>2. \A m \in ConnectMessages :
          /\ m.client \in Clients /\ m.missed \subseteq Numbered /\ m.needReload \in BOOLEAN
          /\ m.lastReqId \in ReqIds \cup {None, Unspoken} /\ IsGreeting(m)
    BY DEF ConnectMessages, IsGreeting
  <1> QED BY <1>1, <1>2 DEF Messages, Greetings

\* Responses and events.
LEMMA BodyFacts ==
    /\ \A l \in Lives, r \in ReqIds : [type |-> "response", life |-> l, req |-> r] \in Bodies
    /\ [type |-> "event"] \in Bodies
  BY DEF Bodies

\* A set of natural numbers that is not empty has a smallest element.
LEMMA Smallest ==
    ASSUME NEW S \in SUBSET Nat, S # {}
    PROVE  \E n \in S : \A m \in S : n <= m
  <1>1. PICK n \in S : \A m \in S : <<m, n>> \notin OpToRel(<, Nat)
    BY NatLessThanWellFounded, WFMin
  <1>2. \A m \in S : ~(m < n)
    BY <1>1 DEF OpToRel
  <1> QED BY <1>2

\* The highest number of a set of messages is that of one of them.
LEMMA HighestExists ==
    ASSUME NEW msgs \in SUBSET Numbered, msgs # {}, Bounded(msgs)
    PROVE  HighestOf(msgs) \in Nat
  <1>1. PICK b \in Nat : \A m \in msgs : m.seqId < b
    BY DEF Bounded
  <1>2. \A m \in msgs : m.seqId \in Nat
    BY Kinds
  <1> DEFINE Below == {n \in Nat : \E m \in msgs : m.seqId = b - n}
  <1>3. PICK n \in Below : \A k \in Below : n <= k
    <2>1. PICK m \in msgs : TRUE
      OBVIOUS
    <2>2. b - m.seqId \in Below
      BY <1>1, <1>2
    <2>3. Below \in SUBSET Nat /\ Below # {}
      BY <2>2
    <2> HIDE DEF Below
    <2> QED BY <2>3, Smallest
  <1>4. PICK m \in msgs : m.seqId = b - n
    BY <1>3
  <1>5. ASSUME NEW k \in msgs PROVE k.seqId <= m.seqId
    <2>1. b - k.seqId \in Below
      BY <1>1, <1>2
    <2>2. n <= b - k.seqId
      BY <1>3, <2>1
    <2> QED BY <1>2, <1>3, <1>4, <2>2
  <1>6. \E h \in msgs : \A k \in msgs : k.seqId <= h.seqId
    BY <1>5
  <1> QED BY <1>2, <1>6 DEF HighestOf

\* Lists: what queues lose and gain.
LEMMA TailFacts ==
    ASSUME NEW S, NEW l \in Seq(S), l # <<>>
    PROVE  /\ Head(l) \in S /\ Head(l) = l[1] /\ 1 \in 1..Len(l)
           /\ Tail(l) \in Seq(S) /\ Len(Tail(l)) = Len(l) - 1
           /\ \A i \in 1..Len(Tail(l)) : Tail(l)[i] = l[i + 1] /\ i + 1 \in 1..Len(l)
  OBVIOUS

LEMMA AppendFacts ==
    ASSUME NEW S, NEW l \in Seq(S), NEW e \in S
    PROVE  /\ Append(l, e) \in Seq(S) /\ Len(Append(l, e)) = Len(l) + 1
           /\ \A i \in 1..Len(l) + 1 : Append(l, e)[i] = IF i <= Len(l) THEN l[i] ELSE e
  BY AppendProperties

\* What sending keeps of the types; and the only thing that it does to a queue.
LEMMA SendFacts ==
    ASSUME Types, NEW c \in Clients, NEW body \in Bodies, Send(c, body),
           windowStart' = windowStart
    PROVE  /\ HeldTypes'
           /\ toClient' \in [Clients -> Seq(Messages)]
           /\ destroyed' \subseteq Clients /\ doomed' \subseteq Clients
           /\ \/ toClient' = toClient
              \/ \E m \in Numbered : /\ link[c] = "up"
                                     /\ toClient' = [toClient EXCEPT ![c] = Append(@, m)]
  <1> USE DEF Types, WireTypes, HeldTypes, ClientTypes
  <1>1. CASE c \in destroyed
    BY <1>1 DEF Send
  <1>2. CASE c \notin destroyed
    <2> DEFINE message == [seqId |-> nextSeqId[c], body |-> body]
    <2>1. message \in Numbered /\ message \in Messages /\ message.seqId = nextSeqId[c]
      BY DEF Numbered, Messages
    <2>2. PICK fate \in Fates(c) :
            LET full == fate = "fails" /\ Cardinality(missed[c]) >= MaxMissed
            IN  /\ nextSeqId' = [nextSeqId EXCEPT ![c] = @ + 1]
                /\ toClient' = IF fate = "arrives"
                               THEN [toClient EXCEPT ![c] = Append(@, message)] ELSE toClient
                /\ missed' = IF full THEN [missed EXCEPT ![c] = {}]
                             ELSE IF fate = "fails"
                                  THEN [missed EXCEPT ![c] = @ \cup {message}]
                                  ELSE missed
                /\ destroyed' = IF full THEN destroyed \cup {c} ELSE destroyed
                /\ doomed' = IF full THEN doomed \ {c} ELSE doomed
      BY <1>2 DEF Send
    <2>3. fate = "arrives" => link[c] = "up"
      BY <2>2 DEF Fates
    <2> HIDE DEF message
    <2>4. missed' \in [Clients -> SUBSET Numbered]
      BY <2>1, <2>2
    <2>5. nextSeqId' \in [Clients -> Nat]
      BY <2>2
    <2>10. ASSUME NEW d \in Clients PROVE IsFiniteSet(missed'[d])
      <3>1. IsFiniteSet(missed[d]) /\ IsFiniteSet(missed[d] \cup {message})
        BY FS_AddElement
      <3>2. missed'[d] \in {{}, missed[d], missed[d] \cup {message}}
        BY <2>2
      <3> QED BY <3>1, <3>2, FS_EmptySet
    <2>6. ASSUME NEW d \in Clients, NEW m \in missed'[d] PROVE m.seqId < nextSeqId'[d]
      <3>1. m \in missed[d] \/ (d = c /\ m = message)
        BY <2>2, <2>6
      <3>2. nextSeqId[d] \in Nat /\ nextSeqId'[d] = IF d = c THEN nextSeqId[d] + 1 ELSE nextSeqId[d]
        BY <2>2
      <3>3. m \in missed[d] => m.seqId < nextSeqId[d] /\ m.seqId \in Nat
        BY Kinds
      <3> QED BY <2>1, <3>1, <3>2, <3>3
    <2>7. toClient' \in [Clients -> Seq(Messages)]
      <3>1. Append(toClient[c], message) \in Seq(Messages)
        BY <2>1, AppendFacts
      <3> QED BY <2>2, <3>1
    <2>8. destroyed' \subseteq Clients /\ doomed' \subseteq Clients
      BY <2>2
    <2>9. toClient' = toClient \/ toClient' = [toClient EXCEPT ![c] = Append(@, message)]
      BY <2>2
    <2> QED BY <2>1, <2>2, <2>3, <2>4, <2>5, <2>6, <2>7, <2>8, <2>9, <2>10
  <1> QED BY <1>1, <1>2

\* The greeting of a Client that has read up to reqId, in its queue unless it
\* could not be sent; and what becomes of the websocket.
Greeted(c, reqId, seamless, fate, queue) ==
    \E m \in Greetings :
        /\ m.client = c
        /\ m.lastReqId = IF seamless THEN reqId ELSE Unspoken
        /\ toClient' = [toClient EXCEPT ![c] = IF fate # "arrives" THEN queue ELSE Append(queue, m)]
Relinked(c, fate) ==
    \E l \in {"up", "closing", link[c]} :
        /\ link' = [link EXCEPT ![c] = l]
        /\ IF fate = "arrives" THEN l \in {"up", "closing"} ELSE l = link[c]

\* What a greeting keeps of the types, and what it says.
LEMMA GreetFacts ==
    ASSUME Types, NEW c \in Clients, NEW isNew \in BOOLEAN, NEW seamless \in BOOLEAN,
           NEW last \in Nat \cup {None}, NEW fate, NEW queue \in Seq(Messages),
           Greet(c, isNew, seamless, last, fate, queue)
    PROVE  /\ lastReqId' \in [Clients -> ReqIds \cup {None}]
           /\ unconfirmed' \subseteq Clients /\ reloadPending' \subseteq Clients
           /\ missed' \in [Clients -> SUBSET Numbered]
           /\ windowStart' \in [Clients -> Nat]
           /\ \A d \in Clients : missed'[d] \subseteq missed[d]
           /\ link' \in [Clients -> {"none", "up", "closing", "down"}]
           /\ toClient' \in [Clients -> Seq(Messages)]
           /\ isNew => /\ lastReqId' = [lastReqId EXCEPT ![c] = None]
                       /\ Greeted(c, None, seamless, fate, queue)
           /\ ~isNew => lastReqId' = lastReqId /\ Greeted(c, lastReqId[c], seamless, fate, queue)
           /\ Relinked(c, fate)
  <1> USE DEF Types, WireTypes, HeldTypes, ClientTypes
  <1> DEFINE handed == IF seamless THEN Kept(c, FirstNeeded(c, last)) ELSE {}
             reqId == IF isNew THEN None ELSE lastReqId[c]
             m == [client |-> c, missed |-> handed, needReload |-> ~isNew /\ ~seamless,
                   lastReqId |-> IF seamless THEN reqId ELSE Unspoken]
  <1>1. reqId \in ReqIds \cup {None}
    OBVIOUS
  <1>2. handed \subseteq missed[c] /\ handed \in SUBSET Numbered
    BY DEF Kept
  <1>3. Bounded(handed)
    <2>1. nextSeqId[c] \in Nat /\ \A n \in handed : n.seqId < nextSeqId[c]
      BY <1>2
    <2>2. IsFiniteSet(handed)
      BY <1>2, FS_Subset
    <2> HIDE DEF handed
    <2> QED BY <2>1, <2>2 DEF Bounded
  <1>4. m \in Greetings /\ m.client = c /\ m.lastReqId = (IF seamless THEN reqId ELSE Unspoken)
    <2> HIDE DEF handed, reqId
    <2> QED BY <1>1, <1>2, <1>3 DEF Greetings, ConnectMessages
  <1>5. /\ lastReqId' = [lastReqId EXCEPT ![c] = reqId]
        /\ unconfirmed' \subseteq unconfirmed \cup {c}
        /\ reloadPending' \subseteq reloadPending \cup {c}
        /\ missed' = missed \/ missed' = [missed EXCEPT ![c] = {}]
        /\ windowStart' = windowStart
           \/ windowStart' = [windowStart EXCEPT ![c] = StartAfter(c, nextSeqId[c])]
    BY DEF Greet
  <1>6. toClient' = [toClient EXCEPT ![c] = IF fate # "arrives" THEN queue ELSE Append(queue, m)]
    BY DEF Greet
  <1>7. link' = [link EXCEPT ![c] =
                   IF fate = "arrives" THEN (IF ~isNew /\ ~seamless THEN "closing" ELSE "up")
                   ELSE @]
    BY DEF Greet
  <1> HIDE DEF m, handed
  <1>8. missed' \in [Clients -> SUBSET Numbered] /\ \A d \in Clients : missed'[d] \subseteq missed[d]
    BY <1>5
  <1>9. windowStart' \in [Clients -> Nat]
    BY <1>5 DEF StartAfter
  <1>10. toClient' \in [Clients -> Seq(Messages)]
    <2>1. Append(queue, m) \in Seq(Messages)
      BY <1>4, AppendFacts DEF Messages
    <2> QED BY <1>6, <2>1
  <1>11. link' \in [Clients -> {"none", "up", "closing", "down"}]
    BY <1>7
  <1>12. Relinked(c, fate)
    BY <1>7 DEF Relinked
  <1>13. Greeted(c, reqId, seamless, fate, queue)
    <2> HIDE DEF reqId
    <2> QED BY <1>4, <1>6 DEF Greeted
  <1>14. /\ isNew => /\ lastReqId' = [lastReqId EXCEPT ![c] = None]
                     /\ Greeted(c, None, seamless, fate, queue)
         /\ ~isNew => lastReqId' = lastReqId /\ Greeted(c, lastReqId[c], seamless, fate, queue)
    <2>1. (isNew => reqId = None) /\ (~isNew => reqId = lastReqId[c])
      OBVIOUS
    <2> HIDE DEF reqId
    <2> QED BY <1>5, <1>13, <2>1, ZenonT(60)
  <1>15. lastReqId' \in [Clients -> ReqIds \cup {None}]
    BY <1>1, <1>5
  <1>16. unconfirmed' \subseteq Clients /\ reloadPending' \subseteq Clients
    BY <1>5
  <1> QED BY <1>8, <1>9, <1>10, <1>11, <1>12, <1>14, <1>15, <1>16

\* Variables of the same part of the types.
heldVars == <<nextSeqId, windowStart, missed>>
otherVars == <<created, socket, destroyed, doomed, unconfirmed, reloadPending, lastReqId,
               greeting>>
runVars == <<running, expected, executions>>

LEMMA KeepTypes ==
    ASSUME Types
    PROVE  /\ UNCHANGED pageVars => PageTypes'
           /\ UNCHANGED wireVars => WireTypes'
           /\ UNCHANGED heldVars => HeldTypes'
           /\ UNCHANGED otherVars => ClientTypes'
           /\ UNCHANGED runVars => RunTypes'
  <1> USE DEF Types
  <1>1. UNCHANGED pageVars => PageTypes'
    BY DEF PageTypes, pageVars, connVars
  <1>2. UNCHANGED wireVars => WireTypes'
    BY DEF WireTypes, wireVars
  <1>3. UNCHANGED heldVars => HeldTypes'
    BY DEF HeldTypes, heldVars
  <1>4. UNCHANGED otherVars => ClientTypes'
    BY DEF ClientTypes, otherVars
  <1>5. UNCHANGED runVars => RunTypes'
    BY DEF RunTypes, runVars
  <1> QED BY <1>1, <1>2, <1>3, <1>4, <1>5

LEMMA HangsUpTypes ==
    ASSUME Types, NEW c \in Clients, HangsUp(c)
    PROVE  WireTypes'
  <1>1. <<>> \in Seq(Requests) /\ <<>> \in Seq(Messages)
    OBVIOUS
  <1> QED BY <1>1 DEF HangsUp, Types, WireTypes

\* A list in order has the members of its set.
LEMMA OrderedFacts ==
    ASSUME NEW S \in SUBSET ReqIds, NEW p \in Ordered(S)
    PROVE  /\ p \in Seq(ReqIds) /\ Len(p) \in Nat /\ DOMAIN p = 1..Len(p)
           /\ \A i \in 1..Len(p) : p[i] \in S
           /\ \A i, j \in 1..Len(p) : i < j => p[i] < p[j]
  <1> DEFINE n == Cardinality(S)
  <1>1. IsFiniteSet(ReqIds)
    BY FS_Interval DEF ReqIds
  <1>2. n \in Nat
    BY <1>1, FS_Subset, FS_CardinalityType
  <1>3. p \in [1..n -> S] /\ \A i, j \in DOMAIN p : i < j => p[i] < p[j]
    BY DEF Ordered
  <1> HIDE DEF n
  <1>4. p \in Seq(ReqIds) /\ Len(p) = n /\ DOMAIN p = 1..n
    BY <1>2, <1>3
  <1> QED BY <1>2, <1>3, <1>4

\* What Transmits does with a list of requests.
LEMMA TransmitsFacts ==
    ASSUME Types, NEW c \in Clients, NEW reqs \in Seq(ReqIds), Transmits(c, reqs)
    PROVE  /\ toServer' \in [Clients -> Seq(Requests)]
           /\ \A d \in Clients \ {c} : toServer'[d] = toServer[d]
           /\ link[c] # "up" => toServer' = toServer
           /\ link[c] = "up" =>
                 /\ Len(toServer'[c]) = Len(toServer[c]) + Len(reqs)
                 /\ \A i \in 1..Len(toServer'[c]) :
                       toServer'[c][i] = IF i <= Len(toServer[c]) THEN toServer[c][i]
                                         ELSE [life |-> life, req |-> reqs[i - Len(toServer[c])]]
  <1> USE DEF Types, WireTypes, PageTypes
  <1>1. CASE link[c] # "up"
    BY <1>1 DEF Transmits
  <1>2. CASE link[c] = "up"
    <2> DEFINE more == [i \in DOMAIN reqs |-> [life |-> life, req |-> reqs[i]]]
    <2>1. more \in Seq(Requests) /\ Len(more) = Len(reqs) /\ Len(reqs) \in Nat
          /\ \A i \in 1..Len(reqs) : more[i] = [life |-> life, req |-> reqs[i]]
      <3>1. DOMAIN reqs = 1..Len(reqs) /\ Len(reqs) \in Nat /\ \A i \in 1..Len(reqs) : reqs[i] \in ReqIds
        OBVIOUS
      <3>2. \A i \in 1..Len(reqs) : [life |-> life, req |-> reqs[i]] \in Requests
        BY <3>1 DEF Requests
      <3>3. more \in [1..Len(reqs) -> Requests]
        BY <3>1, <3>2
      <3> QED BY <3>1, <3>3
    <2>2. toServer' = [toServer EXCEPT ![c] = @ \o more]
      BY <1>2 DEF Transmits
    <2> HIDE DEF more
    <2>3. toServer[c] \in Seq(Requests) /\ toServer[c] \o more \in Seq(Requests)
      BY <2>1
    <2>4. toServer' \in [Clients -> Seq(Requests)] /\ toServer'[c] = toServer[c] \o more
      BY <2>2, <2>3
    <2>5. /\ Len(toServer[c] \o more) = Len(toServer[c]) + Len(reqs)
          /\ \A i \in 1..Len(toServer[c]) + Len(reqs) :
                (toServer[c] \o more)[i] = IF i <= Len(toServer[c]) THEN toServer[c][i]
                                           ELSE more[i - Len(toServer[c])]
      <3>1. Len(toServer[c] \o more) = Len(toServer[c]) + Len(more)
        BY <2>1, <2>3, ConcatProperties, ZenonT(60)
      <3>2. \A i \in 1..Len(toServer[c]) + Len(more) :
                (toServer[c] \o more)[i] = IF i <= Len(toServer[c]) THEN toServer[c][i]
                                           ELSE more[i - Len(toServer[c])]
        BY <2>1, <2>3, ConcatProperties
      <3> QED BY <2>1, <3>1, <3>2
    <2>6. \A i \in 1..Len(toServer[c]) + Len(reqs) :
             ~(i <= Len(toServer[c])) => i - Len(toServer[c]) \in 1..Len(reqs)
      BY <2>1, <2>3
    <2> QED BY <1>2, <2>1, <2>2, <2>4, <2>5, <2>6
  <1> QED BY <1>1, <1>2

LEMMA PageStepTypes ==
    ASSUME Types, MakeRequest \/ PageNoticesClose \/ ReloadPane \/ ReloadPage \/ DialFails
    PROVE  Types'
  <1> USE DEF Types
  <1>1. CASE MakeRequest
    <2>1. nextReqId \in ReqIds /\ nextReqId + 1 \in 0..MaxRequests
      BY <1>1 DEF MakeRequest, PageTypes, ReqIds
    <2>2. PageTypes'
      BY <1>1, <2>1 DEF MakeRequest, PageTypes, connVars
    <2>3. toServer' \in [Clients -> Seq(Requests)]
      <3>1. CASE ~established
        BY <1>1, <3>1 DEF MakeRequest, WireTypes
      <3>2. CASE established
        <4>1. <<nextReqId>> \in Seq(ReqIds)
          BY <2>1
        <4>2. CASE attached \in Clients
          BY <1>1, <3>2, <4>1, <4>2, TransmitsFacts DEF MakeRequest
        <4>3. CASE attached = Nobody
          <5>1. toServer' = toServer \/ toServer' = [toServer EXCEPT ![Nobody] = @ \o
                   [i \in DOMAIN <<nextReqId>> |-> [life |-> life, req |-> <<nextReqId>>[i]]]]
            BY <1>1, <3>2, <4>3 DEF MakeRequest, Transmits
          <5> QED BY <5>1 DEF WireTypes, Clients, Nobody
        <4> QED BY <4>2, <4>3 DEF PageTypes
      <3> QED BY <3>1, <3>2
    <2>4. UNCHANGED <<heldVars, otherVars, runVars, link, toClient>>
      BY <1>1 DEF MakeRequest, heldVars, otherVars, runVars, clientVars, resumeVars, ghostVars
    <2> QED BY <2>2, <2>3, <2>4, KeepTypes DEF WireTypes
  <1>2. CASE PageNoticesClose
    <2>1. UNCHANGED <<wireVars, heldVars, otherVars, runVars>>
      BY <1>2 DEF PageNoticesClose, heldVars, otherVars, runVars, clientVars, resumeVars, ghostVars
    <2>2. PageTypes'
      BY <1>2 DEF PageNoticesClose, PageTypes
    <2> QED BY <2>1, <2>2, KeepTypes
  <1>3. CASE DialFails
    <2>1. UNCHANGED <<wireVars, heldVars, otherVars, runVars>>
      BY <1>3 DEF DialFails, heldVars, otherVars, runVars, clientVars, resumeVars, ghostVars
    <2>2. PageTypes'
      BY <1>3 DEF DialFails, PageTypes
    <2> QED BY <2>1, <2>2, KeepTypes
  <1>4. CASE ReloadPane \/ ReloadPage
    <2>1. FreshConnection
      BY <1>4 DEF ReloadPane, ReloadPage
    <2>2. WireTypes'
      <3>1. CASE attached = Nobody
        BY <2>1, <3>1, KeepTypes DEF FreshConnection
      <3>2. CASE attached # Nobody
        BY <2>1, <3>2, HangsUpTypes DEF FreshConnection, PageTypes
      <3> QED BY <3>1, <3>2
    <2>3. UNCHANGED <<heldVars, otherVars, runVars, clientId>>
      BY <2>1 DEF FreshConnection, heldVars, otherVars, runVars, clientVars, resumeVars
    <2>4. life' \in Lives /\ nextReqId' \in 0..MaxRequests
      BY <1>4 DEF ReloadPane, ReloadPage, PageTypes, Lives
    <2>5. pending' \in [ReqIds -> {"none", "unsent", "sent", "done", "rejected"}]
      BY <1>4 DEF ReloadPane, ReloadPage, PageTypes
    <2>6. PageTypes'
      BY <2>1, <2>3, <2>4, <2>5 DEF FreshConnection, PageTypes
    <2> QED BY <2>2, <2>3, <2>6, KeepTypes
  <1> QED BY <1>1, <1>2, <1>3, <1>4

LEMMA DialTypes ==
    ASSUME Types, Dial
    PROVE  Types'
  <1> USE DEF Types
  <1> DEFINE c == IF Reuses THEN clientId ELSE created + 1
  <1>1. /\ c \in Clients /\ attached' = c /\ created' = IF Reuses THEN created ELSE c
        /\ socket' = socket \cup {c} /\ doomed' = doomed \ {c}
        /\ toServer' = [toServer EXCEPT ![c] = <<>>]
        /\ UNCHANGED <<life, clientId, established, wantReconnect, redials, firstConnect,
                       lastSeqId, nextReqId, pending, reloading, destroyed, nextSeqId,
                       running, executions>>
        /\ IF ~redials \/ ~Reuses
           THEN /\ Greet(c, ~redials, FALSE, None, "arrives", <<>>)
                /\ expected' = [expected EXCEPT ![c] = nextSeqId[c]]
                /\ UNCHANGED greeting
           ELSE /\ greeting' = [greeting EXCEPT ![c] = Append(@, lastSeqId)]
                /\ link' = [link EXCEPT ![c] = "up"]
                /\ toClient' = [toClient EXCEPT ![c] = <<>>]
                /\ UNCHANGED <<resumeVars, missed, expected>>
    BY DEF Dial
  <1> HIDE DEF c
  <1>2. PageTypes'
    BY <1>1 DEF PageTypes
  <1>3. created' \in 0..MaxClients /\ socket' \subseteq Clients /\ doomed' \subseteq Clients
        /\ destroyed' \subseteq Clients
    BY <1>1 DEF ClientTypes, Clients
  <1>4. toServer' \in [Clients -> Seq(Requests)]
    <2>1. <<>> \in Seq(Requests)
      OBVIOUS
    <2> QED BY <1>1, <2>1 DEF WireTypes
  <1>5. RunTypes'
    BY <1>1 DEF RunTypes, HeldTypes
  <1>6. CASE ~redials \/ ~Reuses
    <2>1. <<>> \in Seq(Messages) /\ None \in Nat \cup {None} /\ (~redials) \in BOOLEAN
      OBVIOUS
    <2>2. Greet(c, ~redials, FALSE, None, "arrives", <<>>) /\ UNCHANGED <<greeting, nextSeqId>>
      BY <1>1, <1>6
    <2>3. /\ lastReqId' \in [Clients -> ReqIds \cup {None}]
          /\ unconfirmed' \subseteq Clients /\ reloadPending' \subseteq Clients
          /\ missed' \in [Clients -> SUBSET Numbered]
          /\ windowStart' \in [Clients -> Nat]
          /\ \A d \in Clients : missed'[d] \subseteq missed[d]
          /\ link' \in [Clients -> {"none", "up", "closing", "down"}]
          /\ toClient' \in [Clients -> Seq(Messages)]
      BY <1>1, <2>1, <2>2, GreetFacts
    <2>4. WireTypes'
      BY <1>4, <2>3 DEF WireTypes
    <2>5. HeldTypes'
      <3>1. \A d \in Clients : IsFiniteSet(missed'[d])
        BY <2>3, FS_Subset DEF HeldTypes
      <3> QED BY <2>2, <2>3, <3>1 DEF HeldTypes
    <2>6. ClientTypes'
      BY <1>3, <2>2, <2>3 DEF ClientTypes
    <2> QED BY <1>2, <1>5, <2>4, <2>5, <2>6
  <1>7. CASE ~(~redials \/ ~Reuses)
    <2>1. <<>> \in Seq(Messages)
      OBVIOUS
    <2>2. WireTypes'
      BY <1>1, <1>4, <1>7, <2>1 DEF WireTypes
    <2>3. HeldTypes'
      BY <1>1, <1>7, KeepTypes DEF heldVars, resumeVars
    <2>4. greeting' \in [Clients -> Seq(Nat \cup {None})]
      <3>1. Append(greeting[c], lastSeqId) \in Seq(Nat \cup {None})
        BY <1>1, AppendFacts DEF ClientTypes, PageTypes
      <3> QED BY <1>1, <1>7, <3>1 DEF ClientTypes
    <2>5. ClientTypes'
      BY <1>1, <1>3, <1>7, <2>4 DEF ClientTypes, resumeVars
    <2> QED BY <1>2, <1>5, <2>2, <2>3, <2>5
  <1> QED BY <1>6, <1>7

LEMMA HandleTypes ==
    ASSUME Types, NEW c \in Clients, NEW msgs \in SUBSET Numbered, IsFiniteSet(msgs),
           Handle(c, msgs), UNCHANGED running
    PROVE  RunTypes'
  <1>1. Cardinality(msgs) \in Nat
    BY FS_CardinalityType
  <1> QED BY <1>1 DEF Handle, Types, RunTypes

\* What a page does with the first message of its queue.
LEMMA ReceiveTypes ==
    ASSUME Types, PageReceives
    PROVE  Types'
  <1> USE DEF Types
  <1> DEFINE c == attached
             message == Head(toClient[c])
             rest == [toClient EXCEPT ![c] = Tail(@)]
  <1>1. /\ c \in Clients /\ toClient[c] \in Seq(Messages) /\ toClient[c] # <<>>
        /\ UNCHANGED <<heldVars, otherVars, running, life, nextReqId>>
    BY DEF PageReceives, PageTypes, WireTypes, heldVars, otherVars, clientVars, resumeVars
  <1>2. message \in Messages /\ rest \in [Clients -> Seq(Messages)]
    BY <1>1, TailFacts DEF WireTypes
  <1>3. IF ~IsGreeting(message)
        THEN /\ PageReceivesMessage(c, message, rest)
             /\ UNCHANGED <<clientId, redials, firstConnect, reloading>>
        ELSE PageReceivesConnect(c, message, rest)
    BY DEF PageReceives, IsGreeting
  <1>4. HeldTypes' /\ ClientTypes'
    BY <1>1, KeepTypes
  <1> HIDE DEF message, rest
  <1>5. ASSUME Disconnects
        PROVE  /\ WireTypes' /\ attached' = Nobody /\ established' = FALSE
               /\ wantReconnect' = FALSE
    BY <1>1, <1>5, HangsUpTypes DEF Disconnects
  <1>6. UNCHANGED <<link, toServer>> /\ toClient' = rest => WireTypes'
    BY <1>2 DEF WireTypes
  <1>7. UNCHANGED ghostVars => RunTypes'
    BY <1>1, KeepTypes DEF ghostVars, runVars
  <1>8. CASE ~IsGreeting(message)
    <2>1. message \in Numbered /\ message.seqId \in Nat
      BY <1>2, <1>8, Kinds
    <2>2. CASE Unexpected({message})
      BY <1>1, <1>3, <1>4, <1>5, <1>7, <1>8, <2>2 DEF PageReceivesMessage, PageTypes
    <2>3. CASE ~Unexpected({message})
      <3>1. /\ lastSeqId' = message.seqId /\ toClient' = rest
            /\ UNCHANGED <<attached, established, wantReconnect, link, toServer, clientId, redials,
                           firstConnect, reloading>>
        BY <1>3, <1>8, <2>3 DEF PageReceivesMessage
      <3>2. pending' \in [ReqIds -> {"none", "unsent", "sent", "done", "rejected"}]
        BY <1>3, <1>8, <2>3 DEF PageReceivesMessage, PageTypes
      <3>3. PageTypes'
        BY <1>1, <2>1, <3>1, <3>2 DEF PageTypes
      <3>4. RunTypes'
        <4>1. CASE established
          <5>1. Handle(c, {message}) /\ IsFiniteSet({message}) /\ {message} \in SUBSET Numbered
            BY <1>3, <1>8, <2>1, <2>3, <4>1, FS_Singleton DEF PageReceivesMessage
          <5> QED BY <1>1, <5>1, HandleTypes
        <4>2. CASE ~established
          BY <1>3, <1>7, <1>8, <2>3, <4>2 DEF PageReceivesMessage
        <4> QED BY <4>1, <4>2
      <3> QED BY <1>4, <1>6, <3>1, <3>3, <3>4
    <2> QED BY <2>2, <2>3
  <1>9. CASE IsGreeting(message)
    <2>1. /\ message \in Greetings /\ message.client \in Clients
          /\ message.missed \in SUBSET Numbered /\ Bounded(message.missed)
          /\ IsFiniteSet(message.missed)
      BY <1>2, <1>9, Kinds DEF Greetings, Bounded
    <2>2. CASE established
      <3>1. toClient' = rest /\ UNCHANGED <<connVars, pending, link, toServer, ghostVars>>
        BY <1>3, <1>9, <2>2 DEF PageReceivesConnect
      <3> QED BY <1>1, <1>4, <1>6, <1>7, <3>1, KeepTypes DEF pageVars
    <2>3. CASE ~established
      <3> DEFINE needReload == message.needReload \/ (message.client # clientId /\ ~firstConnect)
                 answered == Settles(message.missed)
                 Sent(r) == r \notin answered /\ Resends(r, message.lastReqId)
      <3>1. clientId' \in Clients /\ firstConnect' = FALSE /\ redials' = redials
        BY <1>3, <1>9, <2>1, <2>3 DEF PageReceivesConnect
      <3>2. \/ /\ needReload /\ Disconnects /\ reloading' = TRUE
               /\ pending' = [r \in ReqIds |->
                                IF pending[r] = "sent" THEN "rejected" ELSE pending[r]]
               /\ UNCHANGED <<lastSeqId, ghostVars>>
            \/ /\ Disconnects
               /\ UNCHANGED <<lastSeqId, reloading, pending, ghostVars>>
            \/ /\ established' = TRUE
               /\ lastSeqId' = IF message.missed = {} THEN lastSeqId
                               ELSE HighestOf(message.missed)
               /\ Handle(c, message.missed)
               /\ pending' = [r \in ReqIds |->
                     IF r \in answered THEN "done" ELSE IF Sent(r) THEN "sent"
                     ELSE IF Rejects(r, message.lastReqId) THEN "rejected" ELSE pending[r]]
               /\ toClient' = rest
               /\ \E reqs \in Ordered({r \in ReqIds : Sent(r)}) : Transmits(c, reqs)
               /\ UNCHANGED <<attached, wantReconnect, reloading, link>>
        BY <1>3, <1>9, <2>3 DEF PageReceivesConnect
      <3>3. CASE /\ Disconnects /\ UNCHANGED <<lastSeqId, ghostVars>>
                 /\ reloading' \in {reloading, TRUE}
                 /\ pending' = pending \/ pending' = [r \in ReqIds |->
                                IF pending[r] = "sent" THEN "rejected" ELSE pending[r]]
        <4>1. PageTypes'
          BY <1>1, <1>5, <3>1, <3>3 DEF PageTypes
        <4> QED BY <1>4, <1>5, <1>7, <3>3, <4>1
      <3>4. CASE /\ established' = TRUE
                 /\ lastSeqId' = IF message.missed = {} THEN lastSeqId
                                 ELSE HighestOf(message.missed)
                 /\ Handle(c, message.missed)
                 /\ pending' = [r \in ReqIds |->
                       IF r \in answered THEN "done" ELSE IF Sent(r) THEN "sent"
                       ELSE IF Rejects(r, message.lastReqId) THEN "rejected" ELSE pending[r]]
                 /\ toClient' = rest
                 /\ \E reqs \in Ordered({r \in ReqIds : Sent(r)}) : Transmits(c, reqs)
                 /\ UNCHANGED <<attached, wantReconnect, reloading, link>>
        <4> HIDE DEF answered, Sent
        <4>1. pending' \in [ReqIds -> {"none", "unsent", "sent", "done", "rejected"}]
          BY <3>4 DEF PageTypes
        <4>2. lastSeqId' \in Nat \cup {None}
          BY <2>1, <3>4, HighestExists DEF PageTypes
        <4>3. PageTypes'
          BY <1>1, <3>1, <3>4, <4>1, <4>2 DEF PageTypes
        <4>4. RunTypes'
          BY <1>1, <2>1, <3>4, HandleTypes
        <4>5. WireTypes'
          <5>1. PICK reqs \in Ordered({r \in ReqIds : Sent(r)}) : Transmits(c, reqs)
            BY <3>4
          <5>2. {r \in ReqIds : Sent(r)} \in SUBSET ReqIds
            OBVIOUS
          <5>3. reqs \in Seq(ReqIds)
            BY <5>1, <5>2, OrderedFacts
          <5>4. toServer' \in [Clients -> Seq(Requests)]
            BY <1>1, <5>1, <5>3, TransmitsFacts
          <5> QED BY <1>2, <3>4, <5>4 DEF WireTypes
        <4> QED BY <1>4, <4>3, <4>4, <4>5
      <3> QED BY <3>2, <3>3, <3>4
    <2> QED BY <2>2, <2>3
  <1> QED BY <1>8, <1>9

\* The steps of a Client and of its connection.
LEMMA ClientStepTypes ==
    ASSUME Types, NEW c \in Clients, ClientActs(c)
    PROVE  Types'
  <1> USE DEF Types, serverFrame, boundVars
  <1>1. CASE Greets(c)
    <2>1. PICK i \in DOMAIN greeting[c], authorized \in BOOLEAN,
               fate \in {"arrives", "lost", "fails"} : ConnectSends(c, i, authorized, fate)
      BY <1>1 DEF Greets
    <2> DEFINE last == greeting[c][i]
               seamless == authorized /\ ~Gap(c, last)
    <2>2. /\ greeting[c] \in Seq(Nat \cup {None}) /\ i \in 1..Len(greeting[c])
          /\ last \in Nat \cup {None} /\ toClient[c] \in Seq(Messages) /\ seamless \in BOOLEAN
      BY DEF ClientTypes, WireTypes
    <2>3. /\ Greet(c, FALSE, seamless, last, fate, toClient[c])
          /\ greeting' = [greeting EXCEPT ![c] = SubSeq(@, 1, i - 1) \o SubSeq(@, i + 1, Len(@))]
          /\ UNCHANGED <<pageVars, expected, toServer, created, socket, destroyed, doomed,
                         nextSeqId, running, executions>>
      BY <2>1 DEF ConnectSends
    <2> HIDE DEF last, seamless
    <2>4. /\ lastReqId' \in [Clients -> ReqIds \cup {None}]
          /\ unconfirmed' \subseteq Clients /\ reloadPending' \subseteq Clients
          /\ missed' \in [Clients -> SUBSET Numbered]
          /\ windowStart' \in [Clients -> Nat]
          /\ \A d \in Clients : missed'[d] \subseteq missed[d]
          /\ link' \in [Clients -> {"none", "up", "closing", "down"}]
          /\ toClient' \in [Clients -> Seq(Messages)]
      BY <2>2, <2>3, GreetFacts
    <2>5. HeldTypes'
      <3>1. \A d \in Clients : IsFiniteSet(missed'[d])
        BY <2>4, FS_Subset DEF HeldTypes
      <3> QED BY <2>3, <2>4, <3>1 DEF HeldTypes
    <2>6. greeting' \in [Clients -> Seq(Nat \cup {None})]
      <3>1. /\ SubSeq(greeting[c], 1, i - 1) \in Seq(Nat \cup {None})
            /\ SubSeq(greeting[c], i + 1, Len(greeting[c])) \in Seq(Nat \cup {None})
        BY <2>2
      <3>2. SubSeq(greeting[c], 1, i - 1) \o SubSeq(greeting[c], i + 1, Len(greeting[c]))
              \in Seq(Nat \cup {None})
        BY <3>1
      <3> QED BY <2>3, <3>2 DEF ClientTypes
    <2>7. PageTypes' /\ RunTypes'
      BY <2>3, KeepTypes DEF runVars
    <2> QED BY <2>3, <2>4, <2>5, <2>6, <2>7 DEF WireTypes, ClientTypes
  <1>2. CASE ServerReceives(c)
    <2>1. toServer[c] \in Seq(Requests) /\ toServer[c] # <<>>
      BY <1>2 DEF ServerReceives, WireTypes
    <2>2. PICK request : request = Head(toServer[c])
      OBVIOUS
    <2>3. /\ request \in Requests /\ Tail(toServer[c]) \in Seq(Requests)
          /\ request.life \in Lives /\ request.req \in ReqIds
      <3>1. Head(toServer[c]) \in Requests /\ Tail(toServer[c]) \in Seq(Requests)
        BY <2>1, TailFacts
      <3> QED BY <2>2, <3>1 DEF Requests
    <2>4. /\ lastReqId' = [lastReqId EXCEPT ![c] = request.req]
          /\ running' = running \cup {[client |-> c, life |-> request.life, req |-> request.req]}
          /\ executions' = [executions EXCEPT ![request.life][request.req] = @ + 1]
          /\ toServer' = [toServer EXCEPT ![c] = Tail(@)]
          /\ UNCHANGED <<pageVars, expected, link, toClient, created, socket, destroyed, doomed,
                         nextSeqId, missed, windowStart, unconfirmed, reloadPending, greeting>>
      BY <1>2, <2>2 DEF ServerReceives
    <2>5. RunTypes'
      BY <2>3, <2>4 DEF RunTypes
    <2>6. WireTypes' /\ ClientTypes'
      BY <2>3, <2>4 DEF WireTypes, ClientTypes
    <2> QED BY <2>4, <2>5, <2>6, KeepTypes DEF heldVars
  <1>3. CASE Event(c)
    <2>1. /\ Send(c, [type |-> "event"]) /\ windowStart' = windowStart
          /\ UNCHANGED <<pageVars, runVars, link, toServer, created, socket, unconfirmed,
                         reloadPending, lastReqId, greeting>>
      BY <1>3 DEF Event, resumeVars, runVars, ghostVars
    <2>2. /\ HeldTypes' /\ toClient' \in [Clients -> Seq(Messages)]
          /\ destroyed' \subseteq Clients /\ doomed' \subseteq Clients
      BY <2>1, BodyFacts, SendFacts
    <2> QED BY <2>1, <2>2, KeepTypes DEF WireTypes, ClientTypes
  <1>4. CASE ServerNoticesClose(c)
    <2>1. UNCHANGED <<pageVars, wireVars, heldVars, runVars>>
      BY <1>4 DEF ServerNoticesClose, heldVars, runVars, resumeVars
    <2>2. ClientTypes'
      BY <1>4 DEF ServerNoticesClose, ClientTypes, resumeVars
    <2> QED BY <2>1, <2>2, KeepTypes
  <1>5. CASE DestroyTimer(c)
    <2>1. UNCHANGED <<pageVars, wireVars, runVars>>
      BY <1>5 DEF DestroyTimer, runVars
    <2>2. ClientTypes'
      BY <1>5 DEF DestroyTimer, ClientTypes, resumeVars
    <2>3. HeldTypes'
      BY <1>5, FS_EmptySet DEF DestroyTimer, HeldTypes, resumeVars
    <2> QED BY <2>1, <2>2, <2>3, KeepTypes
  <1>6. CASE Interrupt(c)
    <2>1. HangsUp(c) /\ UNCHANGED <<pageVars, heldVars, runVars>>
      BY <1>6 DEF Interrupt, heldVars, runVars, resumeVars, ghostVars
    <2>2. ClientTypes'
      BY <1>6 DEF Interrupt, ClientTypes, resumeVars
    <2> QED BY <2>1, <2>2, KeepTypes, HangsUpTypes
  <1>7. CASE Cut(c) \/ CloseCompletes(c)
    <2>1. HangsUp(c) /\ UNCHANGED <<pageVars, heldVars, otherVars, runVars>>
      BY <1>7 DEF Cut, CloseCompletes, heldVars, otherVars, runVars, clientVars, resumeVars,
         ghostVars
    <2> QED BY <2>1, KeepTypes, HangsUpTypes
  <1> QED BY <1>1, <1>2, <1>3, <1>4, <1>5, <1>6, <1>7 DEF ClientActs

LEMMA CompleteTypes ==
    ASSUME Types, NEW x \in running, Complete(x)
    PROVE  Types'
  <1> USE DEF Types
  <1>1. x.client \in Clients /\ x.life \in Lives /\ x.req \in ReqIds
    BY DEF RunTypes
  <1>2. /\ Send(x.client, [type |-> "response", life |-> x.life, req |-> x.req])
        /\ running' \subseteq running /\ windowStart' = windowStart
        /\ UNCHANGED <<pageVars, expected, executions, link, toServer, created, socket,
                       unconfirmed, reloadPending, lastReqId, greeting>>
    BY DEF Complete, serverFrame, resumeVars
  <1>3. /\ HeldTypes' /\ toClient' \in [Clients -> Seq(Messages)]
        /\ destroyed' \subseteq Clients /\ doomed' \subseteq Clients
    BY <1>1, <1>2, BodyFacts, SendFacts
  <1> QED BY <1>2, <1>3, KeepTypes DEF WireTypes, ClientTypes, RunTypes

LEMMA InitTypes == Init => Types
  <1> SUFFICES ASSUME Init PROVE Types
    OBVIOUS
  <1>1. PageTypes
    <2>1. 1 \in Lives /\ 0 \in 0..MaxRequests
      BY DEF Lives
    <2>2. /\ life = 1 /\ attached = Nobody /\ clientId = Nobody
          /\ established = FALSE /\ wantReconnect = TRUE /\ redials = FALSE
          /\ firstConnect = TRUE /\ lastSeqId = None /\ nextReqId = 0
          /\ pending = [r \in ReqIds |-> "none"] /\ reloading = FALSE
      BY DEF Init
    <2> QED BY <2>1, <2>2 DEF PageTypes
  <1> USE DEF Init
  <1>2. <<>> \in Seq(Requests) /\ <<>> \in Seq(Messages) /\ <<>> \in Seq(Nat \cup {None})
    OBVIOUS
  <1>3. WireTypes /\ ClientTypes
    BY <1>2 DEF WireTypes, ClientTypes
  <1>4. HeldTypes
    BY FS_EmptySet DEF HeldTypes
  <1>5. RunTypes
    BY DEF RunTypes
  <1> QED BY <1>1, <1>3, <1>4, <1>5 DEF Types

LEMMA NextTypes == Types /\ [Next]_vars => Types'
  <1> SUFFICES ASSUME Types, [Next]_vars PROVE Types'
    OBVIOUS
  <1>1. CASE UNCHANGED vars
    BY <1>1, KeepTypes DEF Types, vars, clientVars, resumeVars, ghostVars, heldVars, otherVars,
       runVars
  <1> QED
    BY <1>1, PageStepTypes, DialTypes, ReceiveTypes, ClientStepTypes, CompleteTypes
       DEF Next, PageActs

\* Every variable keeps its type: in particular what is resumed, answered and
\* counted names messages, requests and Clients that exist.
THEOREM TypeCorrect == Spec => []TypeOK
  BY InitTypes, NextTypes, TypesShow, PTL DEF Spec

-----------------------------------------------------------------------------
\* No request is executed twice

\* The requests of this load of the page: those executed, those it waits for.
Executed == {r \in ReqIds : executions[life][r] > 0}
Awaited == {r \in ReqIds : pending[r] = "sent"}

IsUp(c) == link[c] \in {"up", "closing"}

\* A connection that works is the page's; nothing is on its way on any other;
\* requests are on their way on an established one only.  Greetings are owed to
\* Clients that have been made, and on the page's connection to its own Client.
Wires ==
    \A c \in Clients :
        /\ IsUp(c) => c = attached
        /\ ~IsUp(c) => toServer[c] = <<>> /\ toClient[c] = <<>>
        /\ toServer[c] # <<>> => established
        /\ greeting[c] # <<>> => c <= created /\ (c = attached => c = clientId)
        /\ \A i \in 1..Len(toClient[c]) :
              IsGreeting(toClient[c][i]) => toClient[c][i].client = c

\* An established page talks to the Client it knows, and Clients have been made
\* before they are known.  Before the first connect nothing has been sent.
Established ==
    /\ attached <= created /\ clientId <= created
    /\ established => attached \in Clients /\ clientId = attached /\ ~firstConnect
    /\ firstConnect => Awaited = {}
    /\ attached = Nobody /\ wantReconnect => redials \/ firstConnect

\* Requests are numbered in order, and those kept for the next connection have
\* higher numbers than those sent.
NumbersRight ==
    \A r \in ReqIds :
        /\ pending[r] = "none" <=> r >= nextReqId
        /\ pending[r] = "unsent" => ~established /\ \A q \in Awaited : q < r

\* Nothing has been executed twice, or before it was sent.
OnceSoFar ==
    /\ \A l \in Lives, r \in ReqIds :
          executions[l][r] \in {0, 1} /\ (l > life => executions[l][r] = 0)
    /\ \A r \in Executed : pending[r] \notin {"none", "unsent"}

\* Requests on their way have not been executed, and follow each other and what
\* the page waits for in order.
QueueRight ==
    \A c \in Clients : \A i \in 1..Len(toServer[c]) :
        /\ toServer[c][i].life = life
        /\ toServer[c][i].req \notin Executed
        /\ pending[toServer[c][i].req] \notin {"none", "unsent"}
        /\ \A r \in Executed \cap Awaited : r < toServer[c][i].req
        /\ \A j \in 1..Len(toServer[c]) : i < j => toServer[c][i].req < toServer[c][j].req

\* What was executed, and has no answer, its Client has read ...
ReadByClient ==
    \A r \in Executed \cap Awaited : clientId \in Clients /\ r <= lastReqId[clientId]

\* ... and a greeting says so, until the page has been told.
GreetingsRight ==
    ~established =>
        \A c \in Clients : \A i \in 1..Len(toClient[c]) :
            IsGreeting(toClient[c][i]) /\ toClient[c][i].lastReqId # Unspoken
               => \A r \in Executed \cap Awaited : r <= toClient[c][i].lastReqId

OnceInv == /\ Types /\ Wires /\ Established /\ NumbersRight
           /\ OnceSoFar /\ QueueRight /\ ReadByClient /\ GreetingsRight

requestVars == <<life, executions, pending, nextReqId>>

LEMMA InitOnce == Init => OnceInv
  <1> SUFFICES ASSUME Init PROVE OnceInv
    OBVIOUS
  <1>1. Types
    BY InitTypes
  <1>2. \A c \in Clients : toServer[c] = <<>> /\ toClient[c] = <<>> /\ greeting[c] = <<>>
                           /\ link[c] = "none"
    BY DEF Init
  <1>3. /\ life = 1 /\ established = FALSE /\ firstConnect = TRUE /\ attached = Nobody
        /\ attached <= created /\ clientId <= created
        /\ nextReqId = 0 /\ \A r \in ReqIds : pending[r] = "none"
        /\ \A l \in Lives, r \in ReqIds : executions[l][r] = 0
    BY DEF Init, Nobody
  <1>4. 1 \in Lives /\ Executed = {} /\ Awaited = {}
    BY <1>3 DEF Lives, Executed, Awaited
  <1>5. Wires /\ QueueRight /\ GreetingsRight
    BY <1>2 DEF Wires, QueueRight, GreetingsRight, IsUp
  <1>6. Established /\ NumbersRight /\ OnceSoFar /\ ReadByClient
    BY <1>3, <1>4 DEF Established, NumbersRight, OnceSoFar, ReadByClient, ReqIds
  <1> QED BY <1>1, <1>5, <1>6 DEF OnceInv

\* Steps that touch nothing of this.
LEMMA QuietOnce ==
    ASSUME OnceInv, Types',
           UNCHANGED <<requestVars, attached, clientId, established, wantReconnect, redials,
                       firstConnect, wireVars, created, lastReqId, greeting>>
    PROVE  OnceInv'
  BY DEF OnceInv, Wires, Established, NumbersRight, OnceSoFar, QueueRight, ReadByClient,
     GreetingsRight, Executed, Awaited, IsUp, requestVars, wireVars

\* A connection ends, and the page has not noticed.
LEMMA HangsUpOnce ==
    ASSUME OnceInv, Types', NEW c \in Clients, HangsUp(c),
           UNCHANGED <<requestVars, attached, clientId, established, wantReconnect, redials,
                       firstConnect, created, lastReqId, greeting>>
    PROVE  OnceInv'
  <1> USE DEF OnceInv, requestVars
  <1>1. \A d \in Clients : IF d = c THEN ~IsUp(d)' /\ toServer'[d] = <<>> /\ toClient'[d] = <<>>
                           ELSE /\ IsUp(d)' = IsUp(d)
                                /\ toServer'[d] = toServer[d] /\ toClient'[d] = toClient[d]
    BY DEF HangsUp, IsUp, Types, WireTypes
  <1>2. Executed' = Executed /\ Awaited' = Awaited
    BY DEF Executed, Awaited
  <1>3. Wires'
    BY <1>1 DEF Wires
  <1>4. QueueRight' /\ GreetingsRight'
    BY <1>1, <1>2 DEF QueueRight, GreetingsRight
  <1> QED
    BY <1>2, <1>3, <1>4 DEF Established, NumbersRight, OnceSoFar, ReadByClient, Executed, Awaited

\* The page has no connection any more: it may reject what it waited for.
Detaches ==
    /\ attached' = Nobody /\ established' = FALSE
    /\ IF attached = Nobody THEN UNCHANGED wireVars ELSE HangsUp(attached)
    /\ UNCHANGED <<created, lastReqId, greeting, executions>>

LEMMA DetachedWires ==
    ASSUME OnceInv, Types', Detaches
    PROVE  /\ \A c \in Clients : ~IsUp(c)' /\ toServer'[c] = <<>> /\ toClient'[c] = <<>>
           /\ Wires' /\ QueueRight' /\ GreetingsRight'
  <1> USE DEF OnceInv
  <1>1. ASSUME NEW c \in Clients
        PROVE  ~IsUp(c)' /\ toServer'[c] = <<>> /\ toClient'[c] = <<>>
    <2>1. CASE c # attached
      <3>1. ~IsUp(c) /\ toServer[c] = <<>> /\ toClient[c] = <<>>
        BY <2>1 DEF Wires
      <3>2. link'[c] = link[c] /\ toServer'[c] = toServer[c] /\ toClient'[c] = toClient[c]
        BY <2>1 DEF Detaches, HangsUp, wireVars, Types, WireTypes
      <3> QED BY <3>1, <3>2 DEF IsUp
    <2>2. CASE c = attached
      <3>1. link'[c] = "down" /\ toServer'[c] = <<>> /\ toClient'[c] = <<>>
        BY <2>2 DEF Detaches, HangsUp, Types, WireTypes, Clients, Nobody
      <3> QED BY <3>1 DEF IsUp
    <2> QED BY <2>1, <2>2
  <1>2. \A c \in Clients : c # Nobody
    BY DEF Clients, Nobody
  <1>3. Wires'
    BY <1>1, <1>2 DEF Wires, Detaches
  <1>4. QueueRight' /\ GreetingsRight'
    BY <1>1 DEF QueueRight, GreetingsRight
  <1> QED BY <1>1, <1>3, <1>4

LEMMA DetachesOnce ==
    ASSUME OnceInv, Types', Detaches, UNCHANGED <<life, nextReqId>>,
           \A r \in ReqIds : \/ pending'[r] = pending[r]
                             \/ pending[r] \in {"unsent", "sent"} /\ pending'[r] = "rejected",
           Awaited' = {} \/ (clientId' = clientId /\ (firstConnect' => firstConnect)),
           wantReconnect' => redials' \/ firstConnect', clientId' <= created
    PROVE  OnceInv'
  <1> USE DEF OnceInv
  <1>1. Executed' = Executed /\ Awaited' \subseteq Awaited
    BY DEF Executed, Awaited, Detaches
  <1>2. Wires' /\ QueueRight' /\ GreetingsRight'
    BY DetachedWires
  <1>3. Established'
    <2>1. attached' <= created' /\ clientId' <= created'
      BY DEF Detaches, Nobody, Types, ClientTypes
    <2> QED BY <1>1, <2>1 DEF Established, Detaches
  <1>4. NumbersRight'
    <2>1. \A r \in ReqIds : /\ pending'[r] = "none" <=> pending[r] = "none"
                           /\ pending'[r] = "unsent" => pending[r] = "unsent"
      OBVIOUS
    <2> QED BY <1>1, <2>1 DEF NumbersRight, Detaches
  <1>5. OnceSoFar'
    <2>1. \A r \in Executed' : pending'[r] \notin {"none", "unsent"}
      BY <1>1 DEF OnceSoFar, Executed
    <2> QED BY <2>1 DEF OnceSoFar, Detaches
  <1>6. ReadByClient'
    BY <1>1 DEF ReadByClient, Detaches
  <1> QED BY <1>2, <1>3, <1>4, <1>5, <1>6

LEMMA LeavingOnce ==
    ASSUME OnceInv, Types', PageNoticesClose \/ DialFails \/ ReloadPane \/ ReloadPage
    PROVE  OnceInv'
  <1> USE DEF clientVars, resumeVars, ghostVars
  <1>0. clientId <= created
    BY DEF OnceInv, Established
  <1>1. CASE PageNoticesClose
    <2>1. attached \in Clients /\ link[attached] = "down"
      BY <1>1 DEF PageNoticesClose, OnceInv, Types, PageTypes
    <2>2. toServer[attached] = <<>> /\ toClient[attached] = <<>>
      BY <2>1 DEF OnceInv, Wires, IsUp
    <2>3. HangsUp(attached)
      BY <1>1, <2>1, <2>2 DEF PageNoticesClose, HangsUp, wireVars, OnceInv, Types, WireTypes
    <2>4. Detaches
      BY <1>1, <2>3 DEF Detaches, PageNoticesClose
    <2> QED BY <1>1, <1>0, <2>4, DetachesOnce DEF PageNoticesClose
  <1>2. CASE DialFails
    <2>1. Detaches \/ established
      BY <1>2 DEF Detaches, DialFails, OnceInv, Types, PageTypes
    <2>2. ~established
      BY <1>2 DEF DialFails, OnceInv, Established, Clients, Nobody
    <2> QED BY <1>2, <1>0, <2>1, <2>2, DetachesOnce DEF DialFails
  <1>3. CASE ReloadPane
    <2>1. Detaches
      BY <1>3 DEF Detaches, ReloadPane, FreshConnection
    <2>2. Awaited' = {}
      BY <1>3 DEF Awaited, ReloadPane, OnceInv, Types, PageTypes
    <2>3. \A r \in ReqIds : \/ pending'[r] = pending[r]
                            \/ pending[r] \in {"unsent", "sent"} /\ pending'[r] = "rejected"
      BY <1>3 DEF ReloadPane
    <2> QED BY <1>3, <1>0, <2>1, <2>2, <2>3, DetachesOnce DEF ReloadPane, FreshConnection
  <1>4. CASE ReloadPage
    <2>1. Detaches
      BY <1>4 DEF Detaches, ReloadPage, FreshConnection
    <2>2. Wires' /\ QueueRight' /\ GreetingsRight'
      BY <2>1, DetachedWires
    <2>3. Awaited' = {} /\ \A r \in ReqIds : pending'[r] = "none"
      BY <1>4 DEF Awaited, ReloadPage
    <2>4. life' = life + 1 /\ life \in Nat /\ life' \in Lives /\ executions' = executions
      BY <1>4 DEF ReloadPage, FreshConnection, OnceInv, Types, PageTypes, Lives
    <2>5. Executed' = {}
      BY <2>4 DEF Executed, OnceInv, OnceSoFar
    <2>6. Established'
      <3>1. attached' <= created' /\ clientId' <= created'
        BY <1>4, <1>0 DEF ReloadPage, FreshConnection, Nobody, OnceInv, Types, ClientTypes
      <3> QED BY <1>4, <2>3, <3>1 DEF ReloadPage, FreshConnection, Established
    <2>7. NumbersRight'
      BY <1>4, <2>3 DEF ReloadPage, NumbersRight, ReqIds
    <2>8. \A l \in Lives : l > life' => l > life
      BY <2>4 DEF Lives
    <2>9. OnceSoFar' /\ ReadByClient'
      BY <2>4, <2>5, <2>8 DEF OnceInv, OnceSoFar, ReadByClient
    <2> QED BY <2>2, <2>6, <2>7, <2>9 DEF OnceInv
  <1> QED BY <1>1, <1>2, <1>3, <1>4

\* A numbered message is no greeting.
LEMMA SendOnce ==
    ASSUME OnceInv, Types', NEW c \in Clients, NEW body \in Bodies, Send(c, body),
           windowStart' = windowStart,
           UNCHANGED <<requestVars, attached, clientId, established, wantReconnect, redials,
                       firstConnect, link, toServer, created, lastReqId, greeting>>
    PROVE  OnceInv'
  <1> USE DEF OnceInv
  <1>1. CASE toClient' = toClient
    BY <1>1, QuietOnce DEF wireVars
  <1>2. ASSUME NEW m \in Numbered, link[c] = "up",
               toClient' = [toClient EXCEPT ![c] = Append(@, m)]
        PROVE  OnceInv'
    <2>1. Executed' = Executed /\ Awaited' = Awaited /\ \A d \in Clients : IsUp(d)' = IsUp(d)
      BY DEF Executed, Awaited, IsUp, requestVars
    <2>2. IsUp(c) /\ ~IsGreeting(m) /\ m \in Messages
      BY <1>2, Kinds DEF IsUp, Messages
    <2>3. \A d \in Clients \ {c} : toClient'[d] = toClient[d]
      BY <1>2 DEF Types, WireTypes
    <2>4. /\ toClient[c] \in Seq(Messages) /\ toClient'[c] = Append(toClient[c], m)
      BY <1>2 DEF Types, WireTypes
    <2>5. \A i \in 1..Len(toClient'[c]) : IsGreeting(toClient'[c][i])
             => i \in 1..Len(toClient[c]) /\ toClient'[c][i] = toClient[c][i]
      BY <2>2, <2>4, AppendFacts
    <2>6. Wires'
      BY <2>1, <2>2, <2>3, <2>5 DEF Wires
    <2>7. GreetingsRight'
      BY <2>1, <2>3, <2>5 DEF GreetingsRight
    <2> QED
      BY <2>1, <2>6, <2>7 DEF Established, NumbersRight, OnceSoFar, QueueRight, ReadByClient,
         requestVars
  <1> QED BY <1>1, <1>2, SendFacts

LEMMA QueuedFacts ==
    ASSUME Types, NEW c \in Clients, NEW i \in 1..Len(toServer[c])
    PROVE  /\ toServer[c][i] \in Requests
           /\ toServer[c][i].life \in Lives /\ toServer[c][i].req \in ReqIds
  <1>1. toServer[c] \in Seq(Requests)
    BY DEF Types, WireTypes
  <1>2. toServer[c][i] \in Requests
    BY <1>1
  <1> QED BY <1>2 DEF Requests

\* A new request has the highest number.
LEMMA MakeRequestOnce ==
    ASSUME OnceInv, Types', MakeRequest
    PROVE  OnceInv'
  <1> USE DEF OnceInv, connVars, clientVars, resumeVars, ghostVars
  <1>1. /\ nextReqId \in ReqIds /\ nextReqId' = nextReqId + 1
        /\ pending' = [pending EXCEPT ![nextReqId] = IF established THEN "sent" ELSE "unsent"]
        /\ UNCHANGED <<life, attached, clientId, established, wantReconnect, redials,
                       firstConnect, link, toClient, created, lastReqId, greeting, executions>>
    BY DEF MakeRequest, Types, PageTypes, ReqIds
  <1>2. pending[nextReqId] = "none" /\ nextReqId \notin Executed /\ Executed' = Executed
    <2>1. pending[nextReqId] = "none"
      BY <1>1 DEF NumbersRight, ReqIds
    <2>2. Executed' = Executed
      BY <1>1 DEF Executed
    <2> QED BY <2>1, <2>2 DEF OnceSoFar
  <1>3. \A r \in ReqIds : pending'[r] = IF r # nextReqId THEN pending[r]
                                        ELSE IF established THEN "sent" ELSE "unsent"
    BY <1>1 DEF Types, PageTypes
  <1>4. \A r \in ReqIds : r # nextReqId /\ pending[r] # "none" => r < nextReqId
    BY <1>1 DEF NumbersRight, ReqIds
  <1>5. Executed' \cap Awaited' = Executed \cap Awaited
    BY <1>2, <1>3 DEF Awaited
  <1>6. IF established THEN Awaited' = Awaited \cup {nextReqId} ELSE Awaited' = Awaited
    BY <1>1, <1>2, <1>3 DEF Awaited
  <1>7. Established'
    BY <1>1, <1>6 DEF Established
  <1>8. NumbersRight'
    <2>1. \A r \in ReqIds : pending'[r] = "none" <=> r >= nextReqId'
      BY <1>1, <1>2, <1>3, <1>4 DEF NumbersRight, ReqIds
    <2>2. ASSUME NEW r \in ReqIds, pending'[r] = "unsent"
          PROVE  ~established' /\ \A q \in Awaited' : q < r
      <3>1. ~established /\ Awaited' = Awaited
        BY <1>3, <1>6, <2>2 DEF NumbersRight
      <3>2. CASE r = nextReqId
        BY <1>1, <1>2, <1>4, <3>1, <3>2 DEF Awaited
      <3>3. CASE r # nextReqId
        BY <1>1, <1>3, <2>2, <3>1, <3>3 DEF NumbersRight
      <3> QED BY <3>2, <3>3
    <2> QED BY <2>1, <2>2 DEF NumbersRight
  <1>9. OnceSoFar'
    BY <1>1, <1>2, <1>3 DEF OnceSoFar, Executed
  <1>10. ReadByClient' /\ GreetingsRight'
    BY <1>1, <1>5 DEF ReadByClient, GreetingsRight
  <1>11. CASE ~established \/ link[attached] # "up"
    <2>1. toServer' = toServer
      BY <1>11 DEF MakeRequest, Transmits
    <2>2. Wires'
      BY <1>1, <2>1 DEF Wires, IsUp
    <2>3. QueueRight'
      <3>1. \A c \in Clients : \A i \in 1..Len(toServer[c]) : toServer[c][i].req \in ReqIds
        BY QueuedFacts
      <3> QED BY <1>1, <1>2, <1>3, <1>5, <2>1, <3>1 DEF QueueRight
    <2> QED BY <1>7, <1>8, <1>9, <1>10, <2>2, <2>3
  <1>12. CASE established /\ link[attached] = "up"
    <2> DEFINE c == attached
               x == [life |-> life, req |-> nextReqId]
    <2>1. c \in Clients
      BY <1>12 DEF Established
    <2>2. /\ \A d \in Clients \ {c} : toServer'[d] = toServer[d]
          /\ Len(toServer'[c]) = Len(toServer[c]) + 1 /\ Len(toServer[c]) \in Nat
          /\ \A i \in 1..Len(toServer'[c]) :
                toServer'[c][i] = IF i <= Len(toServer[c]) THEN toServer[c][i] ELSE x
      <3>1. <<nextReqId>> \in Seq(ReqIds) /\ Len(<<nextReqId>>) = 1 /\ <<nextReqId>>[1] = nextReqId
        BY <1>1
      <3>2. Transmits(c, <<nextReqId>>)
        BY <1>12 DEF MakeRequest
      <3>3. /\ \A d \in Clients \ {c} : toServer'[d] = toServer[d]
            /\ Len(toServer'[c]) = Len(toServer[c]) + 1
            /\ \A i \in 1..Len(toServer'[c]) :
                  toServer'[c][i] =
                     IF i <= Len(toServer[c]) THEN toServer[c][i]
                     ELSE [life |-> life, req |-> <<nextReqId>>[i - Len(toServer[c])]]
        BY <1>12, <2>1, <3>1, <3>2, TransmitsFacts
      <3>4. Len(toServer[c]) \in Nat
        BY <2>1 DEF Types, WireTypes
      <3>5. \A i \in 1..Len(toServer'[c]) : ~(i <= Len(toServer[c])) => i - Len(toServer[c]) = 1
        BY <3>3, <3>4
      <3> QED BY <3>1, <3>3, <3>4, <3>5, ZenonT(60)
    <2>3. x.life = life /\ x.req = nextReqId
      OBVIOUS
    <2> HIDE DEF x
    <2>4. Wires'
      BY <1>1, <1>12, <2>2 DEF Wires, IsUp
    <2>5. ASSUME NEW d \in Clients, NEW i \in 1..Len(toServer'[d])
          PROVE  /\ toServer'[d][i].life = life
                 /\ toServer'[d][i].req \in ReqIds /\ toServer'[d][i].req \notin Executed
                 /\ pending'[toServer'[d][i].req] \notin {"none", "unsent"}
                 /\ \A r \in Executed \cap Awaited : r < toServer'[d][i].req
                 /\ \A j \in 1..Len(toServer'[d]) :
                       i < j => toServer'[d][i].req < toServer'[d][j].req
      <3>1. ASSUME NEW e \in Clients, NEW k \in 1..Len(toServer[e])
            PROVE  toServer[e][k].req \in ReqIds /\ toServer[e][k].req < nextReqId
        <4>1. toServer[e][k].req \in ReqIds
          BY QueuedFacts
        <4> QED BY <1>2, <1>4, <4>1 DEF QueueRight
      <3>2. CASE d # c
        BY <1>2, <1>3, <2>2, <3>1, <3>2 DEF QueueRight
      <3>3. CASE d = c /\ i <= Len(toServer[c])
        <4>1. i \in 1..Len(toServer[c]) /\ toServer'[c][i] = toServer[c][i]
          BY <2>2, <3>3
        <4>2. ASSUME NEW j \in 1..Len(toServer'[c]), i < j
              PROVE  toServer[c][i].req < toServer'[c][j].req
          BY <2>1, <2>2, <2>3, <3>1, <4>1, <4>2 DEF QueueRight
        <4> QED BY <1>2, <1>3, <2>1, <3>1, <3>3, <4>1, <4>2 DEF QueueRight
      <3>4. CASE d = c /\ ~(i <= Len(toServer[c]))
        <4>1. toServer'[c][i] = x /\ i = Len(toServer[c]) + 1
          BY <2>2, <3>4
        <4>2. \A r \in Executed \cap Awaited : r < nextReqId
          BY <1>2, <1>4 DEF Awaited
        <4>3. \A j \in 1..Len(toServer'[c]) : ~(i < j)
          BY <2>2, <4>1
        <4>4. pending'[nextReqId] = "sent"
          BY <1>1, <1>3, <1>12
        <4> QED BY <1>1, <1>2, <2>3, <3>4, <4>1, <4>2, <4>3, <4>4
      <3> QED BY <3>2, <3>3, <3>4
    <2>6. QueueRight'
      BY <1>1, <1>2, <1>5, <2>5 DEF QueueRight
    <2> QED BY <1>7, <1>8, <1>9, <1>10, <2>4, <2>6
  <1> QED BY <1>11, <1>12

\* The server reads the request that follows those it has read.
LEMMA ServerReceivesOnce ==
    ASSUME OnceInv, Types', NEW c \in Clients, ServerReceives(c)
    PROVE  OnceInv'
  <1> USE DEF OnceInv, serverFrame, pageVars, connVars
  <1>1. /\ toServer[c] \in Seq(Requests) /\ toServer[c] # <<>>
        /\ established /\ c = attached /\ c = clientId
    BY DEF ServerReceives, Types, WireTypes, Wires, Established
  <1>2. PICK h : h = Head(toServer[c])
    OBVIOUS
  <1>3. h = toServer[c][1] /\ 1 \in 1..Len(toServer[c])
    BY <1>1, <1>2, TailFacts
  <1>4. /\ h.life = life /\ h.req \in ReqIds /\ h.req \notin Executed
        /\ pending[h.req] \notin {"none", "unsent"}
        /\ \A r \in Executed \cap Awaited : r < h.req
        /\ \A j \in 1..Len(toServer[c]) : 1 < j => h.req < toServer[c][j].req
    BY <1>3, QueuedFacts DEF QueueRight
  <1>5. /\ lastReqId' = [lastReqId EXCEPT ![c] = h.req]
        /\ executions' = [executions EXCEPT ![h.life][h.req] = @ + 1]
        /\ toServer' = [toServer EXCEPT ![c] = Tail(@)]
        /\ UNCHANGED <<life, attached, clientId, established, wantReconnect, redials,
                       firstConnect, nextReqId, pending, link, toClient, created, greeting>>
    BY <1>2 DEF ServerReceives
  <1>6. life \in Lives /\ executions \in [Lives -> [ReqIds -> Nat]]
        /\ lastReqId \in [Clients -> ReqIds \cup {None}]
    BY DEF Types, PageTypes, RunTypes, ClientTypes
  <1>7. executions[life][h.req] = 0
    BY <1>4, <1>6 DEF OnceSoFar, Executed
  <1>8. \A l \in Lives, r \in ReqIds :
           executions'[l][r] = IF l = life /\ r = h.req THEN 1 ELSE executions[l][r]
    BY <1>4, <1>5, <1>6, <1>7
  <1>9. Executed' = Executed \cup {h.req} /\ Awaited' = Awaited
    BY <1>4, <1>5, <1>6, <1>8 DEF Executed, Awaited
  <1>10. OnceSoFar'
    <2>1. \A l \in Lives, r \in ReqIds :
             executions'[l][r] \in {0, 1} /\ (l > life' => executions'[l][r] = 0)
      BY <1>5, <1>6, <1>8 DEF OnceSoFar, Lives
    <2>2. \A r \in Executed' : pending'[r] \notin {"none", "unsent"}
      BY <1>4, <1>5, <1>9 DEF OnceSoFar
    <2> QED BY <2>1, <2>2 DEF OnceSoFar
  <1>11. ReadByClient'
    <2>1. lastReqId'[c] = h.req /\ clientId' = c
      BY <1>1, <1>5, <1>6
    <2>2. ASSUME NEW r \in Executed' \cap Awaited' PROVE r <= h.req
      <3>1. r \in ReqIds /\ (r = h.req \/ r \in Executed \cap Awaited)
        BY <1>4, <1>9 DEF Awaited
      <3>2. r < h.req => r <= h.req
        BY <1>4, <3>1 DEF ReqIds
      <3> QED BY <1>4, <3>1, <3>2 DEF ReqIds
    <2> QED BY <1>1, <2>1, <2>2 DEF ReadByClient
  <1>12. \A d \in Clients : IF d = c THEN toServer'[d] = Tail(toServer[c])
                            ELSE toServer'[d] = toServer[d] /\ toServer[d] = <<>>
    BY <1>1, <1>5 DEF Types, WireTypes, Wires
  <1>13. Wires' /\ Established' /\ NumbersRight' /\ GreetingsRight'
    BY <1>1, <1>5, <1>9, <1>12 DEF Wires, Established, NumbersRight, GreetingsRight, IsUp
  <1>14. QueueRight'
    <2> DEFINE t == Tail(toServer[c])
    <2>1. \A i \in 1..Len(t) : t[i] = toServer[c][i + 1] /\ i + 1 \in 1..Len(toServer[c])
      BY <1>1, TailFacts
    <2> HIDE DEF t
    <2>2. ASSUME NEW i \in 1..Len(t)
          PROVE  /\ t[i].life = life /\ t[i].req \notin Executed'
                 /\ pending[t[i].req] \notin {"none", "unsent"}
                 /\ \A r \in Executed' \cap Awaited : r < t[i].req
                 /\ \A j \in 1..Len(t) : i < j => t[i].req < t[j].req
      <3> DEFINE q == toServer[c]
      <3>1. PICK k \in 1..Len(q) : k = i + 1 /\ t[i] = q[k] /\ k > 1
        BY <2>1
      <3>2. /\ q[k].life = life /\ q[k].req \in ReqIds /\ q[k].req \notin Executed
            /\ pending[q[k].req] \notin {"none", "unsent"}
            /\ \A r \in Executed \cap Awaited : r < q[k].req
            /\ \A j \in 1..Len(q) : k < j => q[k].req < q[j].req
        BY QueuedFacts DEF QueueRight
      <3>3. h.req < q[k].req
        BY <1>4, <3>1
      <3> HIDE DEF q
      <3>4. ASSUME NEW j \in 1..Len(t), i < j PROVE t[i].req < t[j].req
        <4>1. j + 1 \in 1..Len(q) /\ k < j + 1 /\ t[j] = q[j + 1]
          BY <2>1, <3>1, <3>4 DEF q
        <4> QED BY <3>1, <3>2, <4>1
      <3>5. q[k].req # h.req
        BY <1>4, <3>2, <3>3 DEF ReqIds
      <3> QED BY <1>9, <3>1, <3>2, <3>3, <3>4, <3>5
    <2>3. \A d \in Clients : \A i \in 1..Len(toServer'[d]) : d = c
      BY <1>12
    <2> QED BY <1>5, <1>9, <1>12, <2>2, <2>3, ZenonT(60) DEF QueueRight, t
  <1> QED BY <1>10, <1>11, <1>13, <1>14

\* A greeting says what its Client has read.
LEMMA ConnectSendsOnce ==
    ASSUME OnceInv, Types', NEW c \in Clients, Greets(c)
    PROVE  OnceInv'
  <1> USE DEF OnceInv, serverFrame, pageVars, connVars
  <1>1. PICK i \in DOMAIN greeting[c], authorized \in BOOLEAN,
             fate \in {"arrives", "lost", "fails"} : ConnectSends(c, i, authorized, fate)
    BY DEF Greets
  <1> DEFINE last == greeting[c][i]
             seamless == authorized /\ ~Gap(c, last)
  <1>2. /\ greeting[c] \in Seq(Nat \cup {None}) /\ i \in 1..Len(greeting[c])
        /\ last \in Nat \cup {None} /\ toClient[c] \in Seq(Messages) /\ seamless \in BOOLEAN
    BY DEF Types, ClientTypes, WireTypes
  <1>3. /\ Greet(c, FALSE, seamless, last, fate, toClient[c]) /\ fate \in Fates(c)
        /\ greeting' = [greeting EXCEPT ![c] = SubSeq(@, 1, i - 1) \o SubSeq(@, i + 1, Len(@))]
        /\ UNCHANGED <<life, attached, clientId, established, wantReconnect, redials,
                       firstConnect, nextReqId, pending, toServer, created, executions>>
    BY <1>1 DEF ConnectSends
  <1> HIDE DEF last, seamless
  <1>4. Greeted(c, lastReqId[c], seamless, fate, toClient[c]) /\ Relinked(c, fate)
    <2>1. FALSE \in BOOLEAN
      OBVIOUS
    <2> QED BY <1>2, <1>3, <2>1, GreetFacts
  <1>5. lastReqId' = lastReqId
    <2>1. FALSE \in BOOLEAN
      OBVIOUS
    <2> QED BY <1>2, <1>3, <2>1, GreetFacts
  <1>6. fate = "arrives" => link[c] = "up"
    BY <1>3 DEF Fates
  <1>7. \A d \in Clients : IsUp(d)' = IsUp(d)
    BY <1>4, <1>6 DEF IsUp, Relinked, Types, WireTypes
  <1>8. greeting[c] # <<>> /\ \A d \in Clients : greeting'[d] # <<>> => greeting[d] # <<>>
    BY <1>2, <1>3 DEF Types, ClientTypes
  <1>9. PICK m \in Greetings :
          /\ m.client = c
          /\ m.lastReqId = IF seamless THEN lastReqId[c] ELSE Unspoken
          /\ toClient' = [toClient EXCEPT ![c] =
                             IF fate # "arrives" THEN toClient[c] ELSE Append(toClient[c], m)]
    BY <1>4 DEF Greeted
  <1>10. \A d \in Clients \ {c} : toClient'[d] = toClient[d]
    BY <1>9 DEF Types, WireTypes
  <1>11. \A k \in 1..Len(toClient'[c]) :
            \/ k \in 1..Len(toClient[c]) /\ toClient'[c][k] = toClient[c][k]
            \/ fate = "arrives" /\ toClient'[c][k] = m
    <2>1. m \in Messages
      BY DEF Messages
    <2>2. toClient'[c] = IF fate # "arrives" THEN toClient[c] ELSE Append(toClient[c], m)
      BY <1>9 DEF Types, WireTypes
    <2>3. CASE fate # "arrives"
      BY <2>2, <2>3
    <2>4. CASE fate = "arrives"
      <3>1. toClient'[c] = Append(toClient[c], m)
        BY <2>2, <2>4
      <3>2. /\ Len(Append(toClient[c], m)) = Len(toClient[c]) + 1 /\ Len(toClient[c]) \in Nat
            /\ \A k \in 1..Len(toClient[c]) + 1 :
                  Append(toClient[c], m)[k] = IF k <= Len(toClient[c]) THEN toClient[c][k] ELSE m
        BY <1>2, <2>1, AppendFacts
      <3> QED BY <2>4, <3>1, <3>2
    <2> QED BY <2>3, <2>4
  <1>12. Executed' = Executed /\ Awaited' = Awaited
    BY <1>3 DEF Executed, Awaited
  <1>13. Wires'
    <2>1. ~IsUp(c) => toClient'[c] = toClient[c]
      BY <1>6, <1>9 DEF IsUp, Types, WireTypes
    <2>2. ASSUME NEW d \in Clients
          PROVE  /\ IsUp(d)' => d = attached'
                 /\ ~IsUp(d)' => toServer'[d] = <<>> /\ toClient'[d] = <<>>
                 /\ toServer'[d] # <<>> => established'
                 /\ greeting'[d] # <<>> => d <= created' /\ (d = attached' => d = clientId')
      BY <1>3, <1>7, <1>8, <1>10, <2>1 DEF Wires
    <2>3. ASSUME NEW d \in Clients, NEW k \in 1..Len(toClient'[d]), IsGreeting(toClient'[d][k])
          PROVE  toClient'[d][k].client = d
      BY <1>9, <1>10, <1>11, <2>3 DEF Wires
    <2> QED BY <2>2, <2>3 DEF Wires
  <1>14. GreetingsRight'
    <2>1. ASSUME ~established, fate = "arrives", m.lastReqId # Unspoken,
                 NEW r \in Executed \cap Awaited
          PROVE  r <= m.lastReqId
      <3>1. c = clientId
        BY <1>6, <1>8, <2>1 DEF Wires, IsUp
      <3> QED BY <1>9, <2>1, <3>1 DEF ReadByClient
    <2> QED BY <1>3, <1>10, <1>11, <1>12, <2>1 DEF GreetingsRight
  <1>15. Established' /\ NumbersRight' /\ OnceSoFar' /\ QueueRight' /\ ReadByClient'
    BY <1>3, <1>5, <1>12 DEF Established, NumbersRight, OnceSoFar, QueueRight, ReadByClient
  <1> QED BY <1>13, <1>14, <1>15
\* A page that dials has nothing on its way, and what greets it at once says
\* nothing of what has been read; a Client of its own greets it later.
LEMMA DialOnce ==
    ASSUME OnceInv, Types', Dial
    PROVE  OnceInv'
  <1> USE DEF OnceInv
  <1>0. PICK c : c = IF Reuses THEN clientId ELSE created + 1
    OBVIOUS
  <1> DEFINE atOnce == ~redials \/ ~Reuses
  <1>1. /\ attached = Nobody /\ c \in Clients /\ attached' = c
        /\ created' = (IF Reuses THEN created ELSE c)
        /\ toServer' = [toServer EXCEPT ![c] = <<>>]
        /\ UNCHANGED <<life, clientId, established, wantReconnect, redials, firstConnect,
                       nextReqId, pending, executions>>
        /\ (redials \/ firstConnect)
    BY <1>0 DEF Dial, Established
  <1>2. /\ IF atOnce
           THEN /\ Greet(c, ~redials, FALSE, None, "arrives", <<>>)
                /\ UNCHANGED greeting
           ELSE /\ greeting' = [greeting EXCEPT ![c] = Append(@, lastSeqId)]
                /\ link' = [link EXCEPT ![c] = "up"]
                /\ toClient' = [toClient EXCEPT ![c] = <<>>]
                /\ UNCHANGED lastReqId
    BY <1>0 DEF Dial, resumeVars
  <1>3. /\ Reuses => c = clientId
        /\ ~Reuses => c = created + 1 /\ atOnce
        /\ ~atOnce => Reuses
        /\ ~atOnce => redials
    BY <1>0
  <1> HIDE DEF atOnce
  <1>4. \A d \in Clients : ~IsUp(d) /\ toServer[d] = <<>> /\ toClient[d] = <<>>
    BY <1>1 DEF Wires, Clients, Nobody
  <1>5. ~established /\ Executed' = Executed /\ Awaited' = Awaited
    BY <1>1 DEF Established, Executed, Awaited, Clients, Nobody
  <1>6. \A d \in Clients : toServer'[d] = <<>>
    BY <1>1, <1>4 DEF Types, WireTypes
  <1>7. created \in Nat /\ created <= created' /\ c <= created' /\ clientId <= created
    BY <1>1, <1>3 DEF Established, Types, ClientTypes, PageTypes, Clients, Nobody
  <1>8. Established'
    <2>1. attached' <= created' /\ clientId' <= created' /\ attached' # Nobody
      BY <1>1, <1>7 DEF Types, PageTypes, ClientTypes, Clients, Nobody
    <2> QED BY <1>1, <1>5, <2>1 DEF Established
  <1>9. NumbersRight' /\ OnceSoFar'
    BY <1>1, <1>5 DEF NumbersRight, OnceSoFar
  <1>10. QueueRight'
    BY <1>6 DEF QueueRight
  <1>11. CASE atOnce
    <2>1. <<>> \in Seq(Messages) /\ None \in Nat \cup {None} /\ FALSE \in BOOLEAN
          /\ (~redials) \in BOOLEAN
      OBVIOUS
    <2>2. /\ Relinked(c, "arrives")
          /\ \E reqId : Greeted(c, reqId, FALSE, "arrives", <<>>)
          /\ redials => lastReqId' = lastReqId
      BY <1>1, <1>2, <1>11, <2>1, GreetFacts
    <2>3. PICK m \in Greetings : /\ m.client = c /\ m.lastReqId = Unspoken
                                 /\ toClient' = [toClient EXCEPT ![c] = Append(<<>>, m)]
      BY <2>2 DEF Greeted
    <2>4. \A d \in Clients : d # c => ~IsUp(d)' /\ toClient'[d] = <<>>
      BY <1>4, <2>2, <2>3 DEF Relinked, IsUp, Types, WireTypes
    <2>5. IsUp(c)' /\ toClient'[c] = <<m>>
      <3>1. IsUp(c)'
        BY <1>1, <2>2 DEF Relinked, IsUp, Types, WireTypes
      <3>2. toClient'[c] = <<m>>
        BY <1>1, <2>3 DEF Types, WireTypes
      <3> QED BY <3>1, <3>2
    <2>6. \A i \in 1..Len(toClient'[c]) : toClient'[c][i] = m
      BY <2>5
    <2>7. ReadByClient'
      <3>1. redials \/ Awaited = {}
        BY <1>1 DEF Established
      <3> QED BY <1>1, <1>5, <2>2, <3>1 DEF ReadByClient
    <2>8. GreetingsRight'
      <3>1. \A d \in Clients : \A i \in 1..Len(toClient'[d]) : toClient'[d][i].lastReqId = Unspoken
        BY <2>3, <2>4, <2>6
      <3> QED BY <3>1 DEF GreetingsRight
    <2>9. Wires'
      <3>1. ASSUME NEW d \in Clients, greeting'[d] # <<>>
            PROVE  d <= created' /\ (d = c => d = clientId)
        <4>1. greeting[d] # <<>> /\ d <= created /\ d \in Nat
          BY <1>2, <1>11, <3>1 DEF Wires, Clients
        <4> QED BY <1>3, <1>7, <4>1 DEF Types, ClientTypes
      <3>2. \A d \in Clients : \A i \in 1..Len(toClient'[d]) : toClient'[d][i].client = d
        BY <2>3, <2>4, <2>6
      <3> QED BY <1>1, <1>6, <2>4, <2>5, <3>1, <3>2 DEF Wires
    <2> QED BY <1>8, <1>9, <1>10, <2>7, <2>8, <2>9
  <1>12. CASE ~atOnce
    <2>1. c = clientId /\ c <= created /\ created' = created
      BY <1>1, <1>3, <1>7, <1>12
    <2>2. \A d \in Clients : toClient'[d] = <<>>
      BY <1>2, <1>4, <1>12 DEF Types, WireTypes
    <2>3. \A d \in Clients : IF d = c THEN IsUp(d)' ELSE ~IsUp(d)' /\ greeting'[d] = greeting[d]
      BY <1>1, <1>2, <1>4, <1>12 DEF IsUp, Types, WireTypes, ClientTypes
    <2>4. Wires'
      BY <1>1, <1>6, <2>1, <2>2, <2>3 DEF Wires
    <2>5. GreetingsRight'
      BY <2>2 DEF GreetingsRight
    <2>6. ReadByClient'
      BY <1>1, <1>2, <1>5, <1>12 DEF ReadByClient
    <2> QED BY <1>8, <1>9, <1>10, <2>4, <2>5, <2>6
  <1> QED BY <1>11, <1>12

\* The page takes the first message of its queue, and may have its answers.
LEMMA PopsOnce ==
    ASSUME OnceInv, Types', attached \in Clients, toClient[attached] # <<>>,
           toClient' = [toClient EXCEPT ![attached] = Tail(@)],
           UNCHANGED <<life, nextReqId, executions, attached, clientId, established,
                       wantReconnect, redials, firstConnect, link, toServer, created, lastReqId,
                       greeting>>,
           \A r \in ReqIds : \/ pending'[r] = pending[r]
                             \/ pending[r] \in {"unsent", "sent"} /\ pending'[r] = "done"
    PROVE  OnceInv'
  <1> USE DEF OnceInv
  <1> DEFINE c == attached
  <1>1. /\ toClient[c] \in Seq(Messages) /\ toClient'[c] = Tail(toClient[c])
        /\ \A d \in Clients : d # c => toClient'[d] = toClient[d]
    BY DEF Types, WireTypes
  <1>2. \A i \in 1..Len(toClient'[c]) :
           toClient'[c][i] = toClient[c][i + 1] /\ i + 1 \in 1..Len(toClient[c])
    <2>1. \A i \in 1..Len(Tail(toClient[c])) :
             /\ Tail(toClient[c])[i] = toClient[c][i + 1]
             /\ i + 1 \in 1..Len(toClient[c])
      BY <1>1, TailFacts
    <2> QED BY <1>1, <2>1
  <1>3. IsUp(c)
    BY DEF Wires
  <1>4. Executed' = Executed /\ Awaited' \subseteq Awaited
    BY DEF Executed, Awaited
  <1>5. \A r \in ReqIds : /\ pending'[r] = "none" <=> pending[r] = "none"
                          /\ pending'[r] = "unsent" => pending[r] = "unsent"
    OBVIOUS
  <1>6. Wires'
    <2>1. ASSUME NEW d \in Clients, NEW i \in 1..Len(toClient'[d]), IsGreeting(toClient'[d][i])
          PROVE  toClient'[d][i].client = d
      BY <1>1, <1>2, <2>1 DEF Wires
    <2>2. \A d \in Clients : IsUp(d)' = IsUp(d)
      BY DEF IsUp
    <2> QED BY <1>1, <1>3, <2>1, <2>2 DEF Wires
  <1>7. Established'
    BY <1>4 DEF Established
  <1>8. NumbersRight'
    BY <1>4, <1>5 DEF NumbersRight
  <1>9. OnceSoFar'
    <2>1. \A r \in Executed' : pending'[r] \notin {"none", "unsent"}
      BY <1>4, <1>5 DEF OnceSoFar, Executed
    <2> QED BY <2>1 DEF OnceSoFar
  <1>10. QueueRight'
    <2>1. \A d \in Clients : \A i \in 1..Len(toServer[d]) : toServer[d][i].req \in ReqIds
      BY QueuedFacts
    <2> QED BY <1>4, <1>5, <2>1 DEF QueueRight
  <1>11. ReadByClient'
    BY <1>4 DEF ReadByClient
  <1>12. GreetingsRight'
    BY <1>1, <1>2, <1>4, SMTT(30) DEF GreetingsRight
  <1> QED BY <1>6, <1>7, <1>8, <1>9, <1>10, <1>11, <1>12

\* A page that is connected sends again what its Client had not read.
LEMMA ResendsOnce ==
    ASSUME OnceInv, Types', ~established, attached \in Clients, toClient[attached] # <<>>,
           NEW message, message = Head(toClient[attached]), IsGreeting(message),
           ~(message.client # clientId /\ ~firstConnect),
           NEW answered, answered = Settles(message.missed),
           NEW sent \in SUBSET ReqIds,
           \A r \in ReqIds :
              /\ r \in sent <=> r \notin answered /\ Resends(r, message.lastReqId)
              /\ pending'[r] = IF r \in answered THEN "done" ELSE IF r \in sent THEN "sent"
                               ELSE IF Rejects(r, message.lastReqId) THEN "rejected"
                               ELSE pending[r],
           toClient' = [toClient EXCEPT ![attached] = Tail(@)],
           \E reqs \in Ordered(sent) : Transmits(attached, reqs),
           established' = TRUE, clientId' = message.client, firstConnect' = FALSE,
           UNCHANGED <<life, nextReqId, executions, attached, wantReconnect, redials, link,
                       created, lastReqId, greeting>>
    PROVE  OnceInv'
  <1> USE DEF OnceInv
  <1>0. PICK c \in Clients : c = attached /\ c = attached'
    OBVIOUS
  <1>1. /\ toClient[c] \in Seq(Messages) /\ toClient[c] # <<>> /\ toClient'[c] = Tail(toClient[c])
        /\ \A d \in Clients : d # c => toClient'[d] = toClient[d]
    BY <1>0 DEF Types, WireTypes
  <1>2. /\ message \in Messages /\ message = toClient[c][1] /\ 1 \in 1..Len(toClient[c])
        /\ \A i \in 1..Len(Tail(toClient[c])) :
              /\ Tail(toClient[c])[i] = toClient[c][i + 1]
              /\ i + 1 \in 1..Len(toClient[c])
    BY <1>0, <1>1, TailFacts
  <1>3. /\ message.client = c /\ clientId' = c
        /\ message.lastReqId \in ReqIds \cup {None, Unspoken}
    BY <1>2, Kinds DEF Wires, Greetings
  <1>4. IsUp(c) /\ \A d \in Clients : toServer[d] = <<>>
    BY <1>0, <1>1 DEF Wires
  <1>5. Executed' = Executed
    BY DEF Executed
  <1> DEFINE L == message.lastReqId
  <1>6. \A r \in Executed \cap Awaited : L # Unspoken => r <= L
    BY <1>2 DEF GreetingsRight
  <1>7. \A r \in ReqIds :
           /\ pending[r] \in {"none", "unsent", "sent", "done", "rejected"}
           /\ r \in sent <=> /\ r \notin answered
                            /\ \/ pending[r] = "unsent"
                               \/ pending[r] = "sent" /\ L # Unspoken /\ ~(r <= L)
           /\ r \in answered => pending[r] \in {"unsent", "sent"}
           /\ pending'[r] = IF r \in answered THEN "done" ELSE IF r \in sent THEN "sent"
                            ELSE IF pending[r] = "sent" /\ L = Unspoken THEN "rejected"
                            ELSE pending[r]
    BY DEF Resends, SpokenFor, Rejects, Settles, Types, PageTypes
  <1> HIDE DEF L
  <1>8. \A r \in ReqIds : /\ pending'[r] = "none" <=> pending[r] = "none"
                          /\ pending'[r] # "unsent"
                          /\ r \in sent => pending'[r] = "sent"
                          /\ pending'[r] = "sent" /\ r \notin sent
                               => pending[r] = "sent" /\ L # Unspoken /\ r <= L
    BY <1>7
  <1>9. \A r \in ReqIds : r \in sent => r \notin Executed
    BY <1>6, <1>7 DEF OnceSoFar, Awaited
  <1>10. ASSUME NEW r \in Executed', r \in Awaited'
         PROVE  r \in ReqIds /\ r \in Executed \cap Awaited /\ L # Unspoken /\ r <= L
    BY <1>5, <1>8, <1>9, <1>10 DEF Executed, Awaited
  <1>11. Established'
    <2>1. c # Nobody /\ c <= created
      BY <1>0 DEF Clients, Nobody, Established
    <2> QED BY <1>0, <1>3, <2>1 DEF Established
  <1>12. NumbersRight'
    BY <1>8 DEF NumbersRight
  <1>13. OnceSoFar'
    <2>1. \A r \in Executed' : pending'[r] \notin {"none", "unsent"}
      BY <1>5, <1>8 DEF OnceSoFar, Executed
    <2> QED BY <2>1 DEF OnceSoFar
  <1>14. ReadByClient'
    <2>1. ASSUME NEW r \in Executed', r \in Awaited'
          PROVE  clientId' \in Clients /\ r <= lastReqId'[clientId']
      <3>1. r \in Executed \cap Awaited
        BY <1>10, <2>1
      <3>2. clientId' = clientId
        BY <3>1 DEF Established
      <3> QED BY <3>1, <3>2 DEF ReadByClient
    <2> QED BY <2>1 DEF ReadByClient
  <1>15. GreetingsRight'
    BY DEF GreetingsRight
  <1>16. PICK reqs \in Ordered(sent) : Transmits(c, reqs)
    BY <1>0
  <1>17. /\ reqs \in Seq(ReqIds) /\ Len(reqs) \in Nat
         /\ \A i \in 1..Len(reqs) : reqs[i] \in ReqIds /\ reqs[i] \in sent
         /\ \A i, j \in 1..Len(reqs) : i < j => reqs[i] < reqs[j]
    BY <1>16, OrderedFacts
  <1>18. /\ \A d \in Clients : d # c => toServer'[d] = <<>>
         /\ \A i \in 1..Len(toServer'[c]) : /\ i \in 1..Len(reqs)
                                            /\ toServer'[c][i] = [life |-> life, req |-> reqs[i]]
    <2>1. /\ \A d \in Clients \ {c} : toServer'[d] = toServer[d]
          /\ link[c] # "up" => toServer' = toServer
          /\ link[c] = "up" =>
                /\ Len(toServer'[c]) = Len(toServer[c]) + Len(reqs)
                /\ \A i \in 1..Len(toServer'[c]) :
                      toServer'[c][i] = IF i <= Len(toServer[c]) THEN toServer[c][i]
                                        ELSE [life |-> life, req |-> reqs[i - Len(toServer[c])]]
      BY <1>16, <1>17, TransmitsFacts
    <2>2. toServer[c] = <<>> /\ Len(toServer[c]) = 0
      BY <1>4
    <2>3. link[c] # "up" => toServer'[c] = <<>>
      BY <2>1, <2>2
    <2>4. ASSUME link[c] = "up", NEW i \in 1..Len(toServer'[c])
          PROVE  i \in 1..Len(reqs) /\ toServer'[c][i] = [life |-> life, req |-> reqs[i]]
      <3>1. Len(toServer'[c]) = Len(reqs) /\ i - 0 = i /\ ~(i <= 0)
        BY <1>17, <2>1, <2>2, <2>4
      <3> QED BY <2>1, <2>2, <2>4, <3>1
    <2> QED BY <1>4, <2>1, <2>3, <2>4
  <1>19. QueueRight'
    <2>1. ASSUME NEW i \in 1..Len(toServer'[c])
          PROVE  /\ toServer'[c][i].life = life'
                 /\ toServer'[c][i].req \notin Executed'
                 /\ pending'[toServer'[c][i].req] \notin {"none", "unsent"}
                 /\ \A r \in Executed' \cap Awaited' : r < toServer'[c][i].req
                 /\ \A j \in 1..Len(toServer'[c]) :
                       i < j => toServer'[c][i].req < toServer'[c][j].req
      <3>0. ASSUME NEW j \in 1..Len(toServer'[c])
            PROVE  /\ j \in 1..Len(reqs)
                   /\ toServer'[c][j].life = life /\ toServer'[c][j].req = reqs[j]
        <4>1. j \in 1..Len(reqs) /\ toServer'[c][j] = [life |-> life, req |-> reqs[j]]
          BY <1>18
        <4> QED BY <4>1
      <3>1. /\ i \in 1..Len(reqs) /\ toServer'[c][i].life = life /\ toServer'[c][i].req = reqs[i]
            /\ \A j \in 1..Len(toServer'[c]) : j \in 1..Len(reqs) /\ toServer'[c][j].req = reqs[j]
        BY <3>0
      <3>2. reqs[i] \in ReqIds /\ reqs[i] \in sent
        BY <1>17, <3>1
      <3>3. ASSUME NEW r \in Executed' \cap Awaited' PROVE r < reqs[i]
        <4>1. r \in ReqIds /\ r \in Awaited /\ r <= L /\ L # Unspoken
          BY <1>10
        <4>2. CASE pending[reqs[i]] = "unsent"
          BY <3>2, <4>1, <4>2 DEF NumbersRight
        <4>3. CASE ~(reqs[i] <= L)
          <5>1. L \in Int
            BY <1>3 DEF L, ReqIds, None, Unspoken
          <5> QED BY <3>2, <4>1, <4>3, <5>1 DEF ReqIds
        <4> QED BY <1>7, <3>2, <4>2, <4>3
      <3>4. \A j \in 1..Len(toServer'[c]) : i < j => reqs[i] < reqs[j]
        BY <1>17, <3>1
      <3> QED BY <1>5, <1>8, <1>9, <3>1, <3>2, <3>3, <3>4
    <2> QED BY <1>18, <2>1 DEF QueueRight
  <1>20. Wires'
    <2>1. \A d \in Clients : IsUp(d)' = IsUp(d)
      BY DEF IsUp
    <2>2. ASSUME NEW d \in Clients, NEW i \in 1..Len(toClient'[d]), IsGreeting(toClient'[d][i])
          PROVE  toClient'[d][i].client = d
      BY <1>1, <1>2, <2>2 DEF Wires
    <2>3. ASSUME NEW d \in Clients
          PROVE  /\ IsUp(d)' => d = attached'
                 /\ ~IsUp(d)' => toServer'[d] = <<>> /\ toClient'[d] = <<>>
                 /\ toServer'[d] # <<>> => established'
                 /\ greeting'[d] # <<>> => d <= created' /\ (d = attached' => d = clientId')
      BY <1>0, <1>1, <1>3, <1>4, <1>18, <2>1 DEF Wires
    <2> QED BY <2>2, <2>3 DEF Wires
  <1> QED BY <1>11, <1>12, <1>13, <1>14, <1>15, <1>19, <1>20

\* What a page does with the first message of its queue.
LEMMA ReceivesOnce ==
    ASSUME OnceInv, Types', PageReceives
    PROVE  OnceInv'
  <1> USE DEF clientVars, resumeVars, ghostVars, connVars
  <1>1. PICK message : message = Head(toClient[attached])
    OBVIOUS
  <1>2. PICK rest : rest = [toClient EXCEPT ![attached] = Tail(@)]
    OBVIOUS
  <1>3. /\ attached \in Clients /\ toClient[attached] # <<>>
        /\ UNCHANGED <<life, nextReqId, created, lastReqId, greeting>>
    BY DEF PageReceives, OnceInv, Types, PageTypes
  <1>4. IF ~IsGreeting(message)
        THEN /\ PageReceivesMessage(attached, message, rest)
             /\ UNCHANGED <<clientId, redials, firstConnect, reloading>>
        ELSE PageReceivesConnect(attached, message, rest)
    BY <1>1, <1>2 DEF PageReceives, IsGreeting
  <1>5. ASSUME Disconnects, executions' = executions
        PROVE  Detaches /\ wantReconnect' = FALSE
    BY <1>3, <1>5 DEF Disconnects, Detaches, Clients, Nobody
  <1>6. clientId <= created /\ attached <= created
    BY DEF OnceInv, Established
  <1>7. CASE ~IsGreeting(message)
    <2>1. CASE Unexpected({message})
      <3>1. /\ Disconnects /\ executions' = executions /\ pending' = pending
            /\ UNCHANGED <<clientId, redials, firstConnect>>
        BY <1>4, <1>7, <2>1 DEF PageReceivesMessage
      <3> QED BY <1>3, <1>5, <1>6, <3>1, DetachesOnce
    <2>2. CASE ~Unexpected({message})
      <3>1. /\ toClient' = rest
            /\ UNCHANGED <<clientId, redials, firstConnect, attached, established, wantReconnect,
                           link, toServer>>
        BY <1>4, <1>7, <2>2 DEF PageReceivesMessage
      <3>2. /\ executions' = executions
            /\ \A r \in ReqIds : \/ pending'[r] = pending[r]
                                 \/ pending[r] \in {"unsent", "sent"} /\ pending'[r] = "done"
        <4>1. CASE established
          <5>1. /\ executions' = executions
                /\ pending' = [r \in ReqIds |->
                                  IF r \in Settles({message}) THEN "done" ELSE pending[r]]
            BY <1>4, <1>7, <2>2, <4>1 DEF PageReceivesMessage, Handle
          <5>2. \A r \in Settles({message}) : pending[r] \in {"unsent", "sent"}
            BY DEF Settles
          <5> QED BY <5>1, <5>2
        <4>2. CASE ~established
          BY <1>4, <1>7, <2>2, <4>2 DEF PageReceivesMessage
        <4> QED BY <4>1, <4>2
      <3> QED BY <1>2, <1>3, <3>1, <3>2, PopsOnce
    <2> QED BY <2>1, <2>2
  <1>8. CASE IsGreeting(message) /\ established
    <2>1. toClient' = rest /\ UNCHANGED <<connVars, pending, link, toServer, ghostVars>>
      BY <1>4, <1>8 DEF PageReceivesConnect
    <2> QED BY <1>2, <1>3, <2>1, PopsOnce
  <1>9. CASE IsGreeting(message) /\ ~established
    <2>1. PICK needReload \in BOOLEAN :
             needReload <=> message.needReload \/ (message.client # clientId /\ ~firstConnect)
      BY Zenon
    <2>2. PICK answered : answered = Settles(message.missed)
      OBVIOUS
    <2>3. PICK sent \in SUBSET ReqIds :
             sent = {r \in ReqIds : r \notin answered /\ Resends(r, message.lastReqId)}
      OBVIOUS
    <2>4. message.client = attached
      <3>1. toClient[attached] \in Seq(Messages)
        BY <1>3 DEF OnceInv, Types, WireTypes
      <3>2. message = toClient[attached][1] /\ 1 \in 1..Len(toClient[attached])
        BY <1>1, <1>3, <3>1, TailFacts
      <3> QED BY <1>3, <1>9, <3>2 DEF OnceInv, Wires
    <2>5. /\ clientId' = message.client /\ firstConnect' = FALSE /\ redials' = redials
          /\ \/ /\ needReload /\ Disconnects /\ executions' = executions
                /\ pending' = [r \in ReqIds |->
                                 IF pending[r] = "sent" THEN "rejected" ELSE pending[r]]
             \/ ~needReload /\ Disconnects /\ executions' = executions /\ pending' = pending
             \/ /\ ~needReload /\ established' = TRUE /\ executions' = executions
                /\ pending' = [r \in ReqIds |->
                      IF r \in answered THEN "done" ELSE IF r \in sent THEN "sent"
                      ELSE IF Rejects(r, message.lastReqId) THEN "rejected" ELSE pending[r]]
                /\ toClient' = rest
                /\ \E reqs \in Ordered(sent) : Transmits(attached, reqs)
                /\ UNCHANGED <<attached, wantReconnect, link>>
      <3> DEFINE Sent(r) == r \notin Settles(message.missed) /\ Resends(r, message.lastReqId)
      <3>1. sent = {r \in ReqIds : Sent(r)} /\ \A r \in ReqIds : r \in sent <=> Sent(r)
        BY <2>2, <2>3
      <3>2. /\ clientId' = message.client /\ firstConnect' = FALSE /\ redials' = redials
            /\ \/ /\ needReload /\ Disconnects /\ executions' = executions
                  /\ pending' = [r \in ReqIds |->
                                   IF pending[r] = "sent" THEN "rejected" ELSE pending[r]]
               \/ ~needReload /\ Disconnects /\ executions' = executions /\ pending' = pending
               \/ /\ ~needReload /\ established' = TRUE /\ executions' = executions
                  /\ pending' = [r \in ReqIds |->
                        IF r \in Settles(message.missed) THEN "done" ELSE IF Sent(r) THEN "sent"
                        ELSE IF Rejects(r, message.lastReqId) THEN "rejected" ELSE pending[r]]
                  /\ toClient' = rest
                  /\ \E reqs \in Ordered({r \in ReqIds : Sent(r)}) : Transmits(attached, reqs)
                  /\ UNCHANGED <<attached, wantReconnect, link>>
        BY <1>4, <1>9, <2>1 DEF PageReceivesConnect, Handle
      <3> HIDE DEF Sent
      <3> QED BY <2>2, <3>1, <3>2
    <2>6. CASE /\ Disconnects /\ executions' = executions
               /\ \/ /\ needReload
                     /\ pending' = [r \in ReqIds |->
                                      IF pending[r] = "sent" THEN "rejected" ELSE pending[r]]
                  \/ ~needReload /\ pending' = pending
      <3>1. \A r \in ReqIds : \/ pending'[r] = pending[r]
                              \/ pending[r] \in {"unsent", "sent"} /\ pending'[r] = "rejected"
        BY <2>6
      <3>2. Awaited' = {} \/ clientId' = clientId
        <4>1. CASE needReload
          BY <2>6, <4>1 DEF Awaited
        <4>2. CASE ~needReload
          <5>1. message.client = clientId \/ Awaited = {}
            BY <2>1, <4>2 DEF OnceInv, Established
          <5> QED BY <2>5, <2>6, <4>2, <5>1 DEF Awaited
        <4> QED BY <4>1, <4>2
      <3> QED BY <1>3, <1>5, <1>6, <2>4, <2>5, <2>6, <3>1, <3>2, DetachesOnce
    <2>7. CASE /\ ~needReload /\ established' = TRUE /\ executions' = executions
               /\ pending' = [r \in ReqIds |->
                     IF r \in answered THEN "done" ELSE IF r \in sent THEN "sent"
                     ELSE IF Rejects(r, message.lastReqId) THEN "rejected" ELSE pending[r]]
               /\ toClient' = rest
               /\ \E reqs \in Ordered(sent) : Transmits(attached, reqs)
               /\ UNCHANGED <<attached, wantReconnect, link>>
      <3>1. ~(message.client # clientId /\ ~firstConnect)
        BY <2>1, <2>7
      <3>2. clientId' = message.client /\ firstConnect' = FALSE /\ redials' = redials
        BY <2>5
      <3>3. toClient' = [toClient EXCEPT ![attached] = Tail(@)]
        BY <1>2, <2>7
      <3>4. /\ established' = TRUE /\ ~established /\ IsGreeting(message)
            /\ UNCHANGED <<life, nextReqId, executions, attached, wantReconnect, redials, link,
                           created, lastReqId, greeting>>
        BY <1>3, <1>9, <2>7, <3>2
      <3>5. \A r \in ReqIds :
              /\ r \in sent <=> r \notin answered /\ Resends(r, message.lastReqId)
              /\ pending'[r] = IF r \in answered THEN "done" ELSE IF r \in sent THEN "sent"
                               ELSE IF Rejects(r, message.lastReqId) THEN "rejected"
                               ELSE pending[r]
        BY <2>3, <2>7
      <3>6. \E reqs \in Ordered(sent) : Transmits(attached, reqs)
        BY <2>7
      <3> QED BY <1>1, <1>3, <2>2, <3>1, <3>2, <3>3, <3>4, <3>5, <3>6, ResendsOnce
    <2> QED BY <2>5, <2>6, <2>7
  <1> QED BY <1>7, <1>8, <1>9

LEMMA NextOnce == OnceInv /\ [Next]_vars => OnceInv'
  <1> SUFFICES ASSUME OnceInv, [Next]_vars PROVE OnceInv'
    OBVIOUS
  <1> USE DEF serverFrame, clientVars, resumeVars, ghostVars, pageVars, connVars, wireVars,
              requestVars
  <1>1. Types'
    BY NextTypes DEF OnceInv
  <1>2. CASE UNCHANGED vars
    BY <1>1, <1>2, QuietOnce DEF vars
  <1>3. CASE PageActs
    BY <1>1, <1>3, MakeRequestOnce, DialOnce, LeavingOnce, ReceivesOnce DEF PageActs
  <1>4. ASSUME NEW c \in Clients, ClientActs(c) PROVE OnceInv'
    <2>1. CASE Greets(c)
      BY <1>1, <2>1, ConnectSendsOnce
    <2>2. CASE ServerReceives(c)
      BY <1>1, <2>2, ServerReceivesOnce
    <2>3. CASE Event(c)
      BY <1>1, <2>3, BodyFacts, SendOnce DEF Event
    <2>4. CASE ServerNoticesClose(c) \/ DestroyTimer(c)
      BY <1>1, <2>4, QuietOnce DEF ServerNoticesClose, DestroyTimer
    <2>5. CASE Interrupt(c) \/ Cut(c) \/ CloseCompletes(c)
      BY <1>1, <2>5, HangsUpOnce DEF Interrupt, Cut, CloseCompletes
    <2> QED BY <1>4, <2>1, <2>2, <2>3, <2>4, <2>5 DEF ClientActs
  <1>5. ASSUME NEW x \in running, Complete(x) PROVE OnceInv'
    <2>1. x.client \in Clients /\ x.life \in Lives /\ x.req \in ReqIds
      BY DEF OnceInv, Types, RunTypes
    <2> QED BY <1>1, <1>5, <2>1, BodyFacts, SendOnce DEF Complete
  <1> QED BY <1>2, <1>3, <1>4, <1>5 DEF Next

\* What a page sends again when it reconnects, its Client had not read: what the
\* two keep of requests and of numbers, on both sides of a connection that comes
\* and goes, agrees (_lastReceivedReqId, _resendPendingRequest).
THEOREM ResumesRight == Spec => []OnceInv
  BY InitOnce, NextOnce, PTL DEF Spec

\* No request is executed twice, however often its page reconnects, whatever is
\* lost, and whoever restarts or gives up.
THEOREM ExecutedOnce == Spec => []AtMostOnce
  <1>1. OnceInv => AtMostOnce
    BY DEF OnceInv, OnceSoFar, AtMostOnce
  <1> QED BY <1>1, ResumesRight, PTL

-----------------------------------------------------------------------------
\* Messages are handled in order

\* The messages have the numbers from first to next - 1.
Spans(msgs, first, next) ==
    /\ \A m \in msgs : m.seqId \in first..next - 1
    /\ \A n \in first..next - 1 : \E m \in msgs : m.seqId = n

\* A queue of k greetings, and then messages that are numbered from start on.
Shape(queue, k, start) ==
    /\ k \in 0..Len(queue)
    /\ \A i \in 1..Len(queue) :
          IF i <= k THEN IsGreeting(queue[i])
          ELSE ~IsGreeting(queue[i]) /\ queue[i].seqId = start + (i - k - 1)

\* The queue of c ends before the number next, and what c holds does not.  While
\* it owes a greeting, or closes, it has only greetings.
Fits(c, k, next) ==
    /\ next <= nextSeqId[c]
    /\ link[c] = "up" => next = nextSeqId[c]
    /\ greeting[c] # <<>> \/ link[c] = "closing" => k = Len(toClient[c])
    /\ \A m \in missed[c] : m.seqId >= next

Lined(c, start) ==
    \E k \in 0..Len(toClient[c]) :
        Shape(toClient[c], k, start) /\ Fits(c, k, start + (Len(toClient[c]) - k))

\* What a Client holds is in its window, each number once, and not below what the
\* page should handle next; no greeting asks for less.  A window that starts
\* after what the page should handle next is flagged.
HeldRight(c) ==
    /\ windowStart[c] <= nextSeqId[c] /\ expected[c] <= nextSeqId[c]
    /\ \A m \in missed[c] : m.seqId >= windowStart[c] /\ m.seqId >= expected[c]
    /\ \A m, n \in missed[c] : m.seqId = n.seqId => m = n
    /\ \A i \in 1..Len(greeting[c]) : greeting[c][i] # None => greeting[c][i] < expected[c]
    /\ windowStart[c] > expected[c] => c \in unconfirmed \cup reloadPending
    /\ IsUp(c) => c \in socket

\* The greeting that opens a connection hands over what the page lacks, and the
\* queue goes on from there; or it makes the page reload.
Opens(c, m) ==
    LET next == expected[c] + Cardinality(m.missed)
    IN  /\ IsGreeting(m)
        /\ IF m.needReload THEN link[c] = "closing"
           ELSE Spans(m.missed, expected[c], next) /\ Lined(c, next)

LineRight(c) ==
    IsUp(c) => IF established THEN Lined(c, expected[c])
               ELSE IF toClient[c] = <<>> THEN link[c] = "up" /\ greeting[c] # <<>>
               ELSE Opens(c, toClient[c][1])

\* A page knows the number of the last message of its Client that it has handled,
\* or none; it gives up only to reload.
PageRight ==
    /\ reloading => attached = Nobody
    /\ wantReconnect \/ reloading
    /\ firstConnect => lastSeqId = None
    /\ ~reloading /\ lastSeqId # None
          => clientId \in Clients /\ expected[clientId] = lastSeqId + 1

OrderInv == /\ OnceInv /\ PageRight /\ inOrder = TRUE
            /\ \A c \in Clients : HeldRight(c) /\ LineRight(c)

\* How many messages there are with the numbers from first to next - 1.
LEMMA SpansCount ==
    ASSUME NEW msgs \in SUBSET Numbered, IsFiniteSet(msgs),
           NEW first \in Nat, NEW next \in Nat, first <= next,
           \A m, n \in msgs : m.seqId = n.seqId => m = n,
           Spans(msgs, first, next)
    PROVE  next = first + Cardinality(msgs)
  <1> DEFINE numbers == first..next - 1
             f == [m \in msgs |-> m.seqId]
  <1>1. f \in Bijection(msgs, numbers)
    <2>1. f \in [msgs -> numbers]
      BY DEF Spans
    <2>2. \A m, n \in msgs : f[m] = f[n] => m = n
      OBVIOUS
    <2>3. \A n \in numbers : \E m \in msgs : f[m] = n
      BY DEF Spans
    <2> QED BY <2>1, <2>2, <2>3 DEF Bijection, Injection, Surjection, IsInjective
  <1>2. Cardinality(numbers) = Cardinality(msgs)
    BY <1>1, FS_Bijection DEF ExistsBijection
  <1>3. Cardinality(numbers) = IF first > next - 1 THEN 0 ELSE next - 1 - first + 1
    BY FS_Interval
  <1> HIDE DEF numbers
  <1> QED BY <1>2, <1>3

\* The highest number of such messages.
LEMMA SpansHighest ==
    ASSUME NEW msgs \in SUBSET Numbered, NEW first \in Nat, NEW next \in Nat,
           Spans(msgs, first, next), msgs # {}
    PROVE  HighestOf(msgs) = next - 1
  <1>1. \A m \in msgs : m.seqId \in Nat /\ m.seqId >= first /\ m.seqId <= next - 1
    BY Kinds DEF Spans
  <1>2. PICK m \in msgs : m.seqId = next - 1
    BY <1>1 DEF Spans
  <1>3. \A n \in msgs : n.seqId <= m.seqId
    BY <1>1, <1>2
  <1>4. PICK h \in msgs : h.seqId = HighestOf(msgs) /\ \A n \in msgs : n.seqId <= h.seqId
    BY <1>3 DEF HighestOf
  <1> QED BY <1>1, <1>2, <1>4

\* What becomes of the shape of a queue.
LEMMA ShapeOfTail ==
    ASSUME NEW queue \in Seq(Messages), queue # <<>>, NEW start \in Nat,
           NEW k \in 0..Len(queue), Shape(queue, k, start)
    PROVE  IF IsGreeting(queue[1]) THEN k > 0 /\ Shape(Tail(queue), k - 1, start)
           ELSE k = 0 /\ queue[1].seqId = start /\ Shape(Tail(queue), 0, start + 1)
  <1>1. /\ 1 \in 1..Len(queue) /\ Len(Tail(queue)) = Len(queue) - 1 /\ Len(queue) \in Nat
        /\ \A i \in 1..Len(Tail(queue)) : Tail(queue)[i] = queue[i + 1] /\ i + 1 \in 1..Len(queue)
    BY TailFacts
  <1>2. \A i \in 1..Len(queue) :
            IF i <= k THEN IsGreeting(queue[i])
            ELSE ~IsGreeting(queue[i]) /\ queue[i].seqId = start + (i - k - 1)
    BY DEF Shape
  <1>3. CASE IsGreeting(queue[1])
    <2>1. k > 0
      BY <1>1, <1>2, <1>3
    <2>2. ASSUME NEW i \in 1..Len(Tail(queue))
          PROVE  IF i <= k - 1 THEN IsGreeting(Tail(queue)[i])
                 ELSE /\ ~IsGreeting(Tail(queue)[i])
                      /\ Tail(queue)[i].seqId = start + (i - (k - 1) - 1)
      <3>1. /\ Tail(queue)[i] = queue[i + 1] /\ i + 1 \in 1..Len(queue)
            /\ (i + 1 <= k <=> i <= k - 1) /\ (i + 1) - k - 1 = i - (k - 1) - 1
        BY <1>1
      <3> QED BY <1>2, <3>1
    <2> QED BY <1>1, <1>3, <2>1, <2>2 DEF Shape
  <1>4. CASE ~IsGreeting(queue[1])
    <2>1. k = 0
      BY <1>1, <1>2, <1>4
    <2>2. queue[1].seqId = start + (1 - 0 - 1)
      BY <1>1, <1>2, <2>1
    <2>3. ASSUME NEW i \in 1..Len(Tail(queue))
          PROVE  /\ ~IsGreeting(Tail(queue)[i])
                 /\ Tail(queue)[i].seqId = start + 1 + (i - 0 - 1) /\ ~(i <= 0)
      <3>1. /\ Tail(queue)[i] = queue[i + 1] /\ i + 1 \in 1..Len(queue)
            /\ ~(i + 1 <= 0) /\ ~(i <= 0) /\ start + ((i + 1) - 0 - 1) = start + 1 + (i - 0 - 1)
        BY <1>1
      <3> QED BY <1>2, <2>1, <3>1
    <2> QED BY <1>1, <1>4, <2>1, <2>2, <2>3 DEF Shape
  <1> QED BY <1>3, <1>4

LEMMA ShapeOfAppend ==
    ASSUME NEW queue \in Seq(Messages), NEW start \in Nat, NEW m \in Messages,
           NEW k \in 0..Len(queue), Shape(queue, k, start)
    PROVE  IF IsGreeting(m)
           THEN k = Len(queue) => Shape(Append(queue, m), k + 1, start)
           ELSE m.seqId = start + (Len(queue) - k) => Shape(Append(queue, m), k, start)
  <1>1. /\ Len(queue) \in Nat /\ Len(Append(queue, m)) = Len(queue) + 1
        /\ \A i \in 1..Len(queue) + 1 :
              Append(queue, m)[i] = IF i <= Len(queue) THEN queue[i] ELSE m
    BY AppendFacts
  <1>2. \A i \in 1..Len(queue) :
            IF i <= k THEN IsGreeting(queue[i])
            ELSE ~IsGreeting(queue[i]) /\ queue[i].seqId = start + (i - k - 1)
    BY DEF Shape
  <1>3. CASE IsGreeting(m) /\ k = Len(queue)
    <2>1. \A i \in 1..Len(queue) + 1 : IsGreeting(Append(queue, m)[i]) /\ i <= k + 1
      BY <1>1, <1>2, <1>3
    <2> QED BY <1>1, <1>3, <2>1 DEF Shape
  <1>4. CASE ~IsGreeting(m) /\ m.seqId = start + (Len(queue) - k)
    <2>1. ASSUME NEW i \in 1..Len(queue) + 1
          PROVE  IF i <= k THEN IsGreeting(Append(queue, m)[i])
                 ELSE /\ ~IsGreeting(Append(queue, m)[i])
                      /\ Append(queue, m)[i].seqId = start + (i - k - 1)
      <3>1. CASE i <= Len(queue)
        BY <1>1, <1>2, <3>1
      <3>2. CASE ~(i <= Len(queue))
        <4>1. i = Len(queue) + 1 /\ ~(i <= k) /\ Append(queue, m)[i] = m
              /\ Len(queue) - k = i - k - 1
          BY <1>1, <3>2
        <4> QED BY <1>4, <4>1
      <3> QED BY <3>1, <3>2
    <2>2. k \in 0..Len(Append(queue, m))
      BY <1>1
    <2> QED BY <1>1, <1>4, <2>1, <2>2 DEF Shape
  <1> QED BY <1>3, <1>4

\* What steps leave alone: what c holds, owes, and what is known of it; its queue.
SameHeld(c) ==
    /\ nextSeqId'[c] = nextSeqId[c] /\ windowStart'[c] = windowStart[c]
    /\ missed'[c] = missed[c] /\ greeting'[c] = greeting[c] /\ expected'[c] = expected[c]
    /\ c \in unconfirmed \cup reloadPending <=> c \in unconfirmed' \cup reloadPending'
SameWire(c) == link'[c] = link[c] /\ toClient'[c] = toClient[c]

LEMMA Unmoved ==
    ASSUME NEW c \in Clients, HeldRight(c), LineRight(c), SameHeld(c)
    PROVE  /\ (IsUp(c)' => c \in socket') => HeldRight(c)'
           /\ SameWire(c) /\ established' = established => LineRight(c)'
  <1> USE DEF SameHeld
  <1>1. (IsUp(c)' => c \in socket') => HeldRight(c)'
    BY DEF HeldRight
  <1>2. ASSUME SameWire(c), established' = established
        PROVE  LineRight(c)'
    <2>1. \A s : Lined(c, s) => Lined(c, s)'
      BY <1>2 DEF Lined, Fits, SameWire
    <2>2. \A m : Opens(c, m) => Opens(c, m)'
      BY <1>2, <2>1 DEF Opens, SameWire
    <2>3. IsUp(c)' = IsUp(c)
      BY <1>2 DEF IsUp, SameWire
    <2> QED BY <1>2, <2>1, <2>2, <2>3 DEF LineRight, SameWire
  <1> QED BY <1>1, <1>2

\* Steps of the server that touch none of this, or only empty what a Client
\* holds, or forget a websocket that is down.
LEMMA QuietOrder ==
    ASSUME OrderInv, OnceInv', UNCHANGED <<connVars, nextSeqId, windowStart, greeting, expected>>,
           UNCHANGED <<link, toClient, unconfirmed, reloadPending, inOrder>>,
           \A c \in Clients : /\ missed'[c] = missed[c] \/ missed'[c] = {}
                              /\ IsUp(c) /\ c \in socket => c \in socket'
    PROVE  OrderInv'
  <1> USE DEF connVars
  <1>1. PageRight' /\ inOrder' = TRUE
    BY DEF OrderInv, PageRight
  <1>2. ASSUME NEW c \in Clients
        PROVE  HeldRight(c)' /\ LineRight(c)'
    <2>1. HeldRight(c) /\ LineRight(c)
      BY DEF OrderInv
    <2>2. IsUp(c)' = IsUp(c) /\ SameWire(c) /\ established' = established
      BY DEF IsUp, SameWire
    <2>3. IsUp(c)' => c \in socket'
      BY <2>1, <2>2 DEF HeldRight
    <2>4. CASE missed'[c] = missed[c]
      <3>1. SameHeld(c)
        BY <2>4 DEF SameHeld
      <3> QED BY <2>1, <2>2, <2>3, <3>1, Unmoved
    <2>5. CASE missed'[c] = {}
      <3>1. HeldRight(c)'
        BY <2>1, <2>3, <2>5 DEF HeldRight
      <3>2. \A s : Lined(c, s) => Lined(c, s)'
        BY <2>2, <2>5 DEF Lined, Fits, SameWire
      <3>3. \A m : Opens(c, m) => Opens(c, m)'
        BY <2>2, <3>2 DEF Opens, SameWire
      <3>4. LineRight(c)'
        BY <2>1, <2>2, <3>2, <3>3 DEF LineRight, SameWire
      <3> QED BY <3>1, <3>4
    <2> QED BY <2>4, <2>5
  <1> QED BY <1>1, <1>2 DEF OrderInv

\* A connection ends, and the page has not noticed.
LEMMA HangsUpOrder ==
    ASSUME OrderInv, OnceInv', NEW c \in Clients, HangsUp(c),
           UNCHANGED <<connVars, nextSeqId, windowStart, missed, greeting, expected>>,
           UNCHANGED <<unconfirmed, reloadPending, inOrder>>,
           \A d \in Clients \ {c} : d \in socket => d \in socket'
    PROVE  OrderInv'
  <1> USE DEF connVars
  <1>1. ~IsUp(c)' /\ \A d \in Clients \ {c} : IsUp(d)' = IsUp(d) /\ SameWire(d)
    BY DEF HangsUp, IsUp, SameWire, OrderInv, OnceInv, Types, WireTypes
  <1>2. PageRight' /\ inOrder' = TRUE
    BY DEF OrderInv, PageRight
  <1>3. ASSUME NEW d \in Clients
        PROVE  HeldRight(d)' /\ LineRight(d)'
    <2>1. HeldRight(d) /\ LineRight(d)
      BY DEF OrderInv
    <2>2. SameHeld(d) /\ established' = established
      BY DEF SameHeld
    <2>3. IsUp(d)' => d \in socket'
      BY <1>1, <2>1 DEF HeldRight
    <2>4. d # c => LineRight(d)'
      BY <1>1, <2>1, <2>2, Unmoved
    <2>5. d = c => LineRight(d)'
      BY <1>1 DEF LineRight
    <2> QED BY <2>1, <2>2, <2>3, <2>4, <2>5, Unmoved
  <1> QED BY <1>2, <1>3 DEF OrderInv

\* The page has no connection any more.
LEMMA DetachesOrder ==
    ASSUME OrderInv, OnceInv', Detaches, PageRight', inOrder' = inOrder,
           UNCHANGED <<socket, nextSeqId, windowStart, missed, expected, unconfirmed,
                       reloadPending>>
    PROVE  OrderInv'
  <1>1. \A c \in Clients : ~IsUp(c)'
    BY DetachedWires DEF OrderInv, OnceInv
  <1>2. ASSUME NEW c \in Clients
        PROVE  HeldRight(c)' /\ LineRight(c)'
    <2>1. HeldRight(c) /\ LineRight(c)
      BY DEF OrderInv
    <2>2. SameHeld(c)
      BY DEF SameHeld, Detaches
    <2> QED BY <1>1, <2>1, <2>2, Unmoved DEF LineRight
  <1> QED BY <1>2 DEF OrderInv

LEMMA LeavingOrder ==
    ASSUME OrderInv, OnceInv', PageNoticesClose \/ DialFails \/ ReloadPane \/ ReloadPage
    PROVE  OrderInv'
  <1> USE DEF clientVars, resumeVars, ghostVars
  <1>1. \A c \in Clients : c # Nobody
    BY DEF Clients, Nobody
  <1>2. CASE PageNoticesClose
    <2>1. attached \in Clients /\ link[attached] = "down" /\ ~IsUp(attached)
      BY <1>2 DEF PageNoticesClose, OrderInv, OnceInv, Types, PageTypes, IsUp
    <2>2. toServer[attached] = <<>> /\ toClient[attached] = <<>>
      BY <2>1 DEF OrderInv, OnceInv, Wires
    <2>3. HangsUp(attached)
      BY <1>2, <2>1, <2>2
         DEF PageNoticesClose, HangsUp, wireVars, OrderInv, OnceInv, Types, WireTypes
    <2>4. Detaches
      BY <1>2, <2>3 DEF Detaches, PageNoticesClose
    <2>5. PageRight'
      BY <1>2 DEF OrderInv, PageRight, PageNoticesClose
    <2> QED BY <1>2, <2>4, <2>5, DetachesOrder DEF PageNoticesClose
  <1>3. CASE DialFails
    <2>1. ~established /\ attached = Nobody
      BY <1>1, <1>3 DEF DialFails, OrderInv, OnceInv, Established
    <2>2. Detaches
      BY <1>3, <2>1 DEF Detaches, DialFails
    <2>3. PageRight'
      BY <1>3, <2>1 DEF OrderInv, PageRight, DialFails
    <2> QED BY <1>3, <2>2, <2>3, DetachesOrder DEF DialFails
  <1>4. CASE ReloadPane \/ ReloadPage
    <2>1. FreshConnection
      BY <1>4 DEF ReloadPane, ReloadPage
    <2>2. Detaches
      BY <2>1 DEF Detaches, FreshConnection
    <2>3. PageRight'
      BY <2>1 DEF FreshConnection, PageRight
    <2> QED BY <2>1, <2>2, <2>3, DetachesOrder DEF FreshConnection
  <1> QED BY <1>2, <1>3, <1>4

\* Where there is no gap, the Client holds what the page lacks, and nothing else.
LEMMA SeamlessFacts ==
    ASSUME OrderInv, NEW c \in Clients, NEW i \in 1..Len(greeting[c]),
           ~Gap(c, greeting[c][i])
    PROVE  /\ Kept(c, FirstNeeded(c, greeting[c][i])) = missed[c]
           /\ Spans(missed[c], expected[c], nextSeqId[c])
           /\ nextSeqId[c] = expected[c] + Cardinality(missed[c])
           /\ windowStart[c] <= expected[c]
           /\ missed[c] = {} => nextSeqId[c] = expected[c]
  <1> DEFINE last == greeting[c][i]
             first == FirstNeeded(c, last)
  <1>1. /\ nextSeqId[c] \in Nat /\ windowStart[c] \in Nat /\ expected[c] \in Nat
        /\ missed[c] \in SUBSET Numbered /\ IsFiniteSet(missed[c])
        /\ \A m \in missed[c] : m.seqId < nextSeqId[c]
    BY DEF OrderInv, OnceInv, Types, HeldTypes, RunTypes
  <1>2. last \in Nat \cup {None}
    BY DEF OrderInv, OnceInv, Types, ClientTypes
  <1>3. /\ windowStart[c] <= nextSeqId[c] /\ expected[c] <= nextSeqId[c]
        /\ \A m \in missed[c] : m.seqId >= windowStart[c] /\ m.seqId >= expected[c]
        /\ \A m, n \in missed[c] : m.seqId = n.seqId => m = n
        /\ last # None => last < expected[c]
        /\ windowStart[c] > expected[c] => c \in unconfirmed \cup reloadPending
    BY DEF OrderInv, HeldRight
  <1>4. /\ c \notin reloadPending /\ ~(last = None /\ c \in unconfirmed)
        /\ \A n \in first..nextSeqId[c] - 1 : \E m \in missed[c] : m.seqId = n
    BY DEF Gap, Lacks
  <1>5. first \in Nat /\ first <= expected[c]
    BY <1>1, <1>2, <1>3, <1>4 DEF FirstNeeded, None
  <1> HIDE DEF last, first
  <1>6. \A m \in missed[c] : m.seqId \in Nat /\ m.seqId >= expected[c] /\ m.seqId <= nextSeqId[c] - 1
    BY <1>1, <1>3, Kinds
  <1>7. first = expected[c] \/ (missed[c] = {} /\ expected[c] = nextSeqId[c])
    <2>1. CASE first < expected[c] /\ first <= nextSeqId[c] - 1
      <3>1. PICK m \in missed[c] : m.seqId = first
        BY <1>1, <1>4, <1>5, <2>1
      <3> QED BY <1>1, <1>5, <1>6, <2>1, <3>1
    <2>2. CASE ~(first < expected[c] /\ first <= nextSeqId[c] - 1)
      BY <1>1, <1>3, <1>5, <1>6, <2>2
    <2> QED BY <2>1, <2>2
  <1>8. Kept(c, first) = missed[c]
    BY <1>1, <1>5, <1>6 DEF Kept
  <1>9. Spans(missed[c], expected[c], nextSeqId[c])
    BY <1>1, <1>4, <1>6, <1>7 DEF Spans
  <1>10. nextSeqId[c] = expected[c] + Cardinality(missed[c])
    BY <1>1, <1>3, <1>9, SpansCount
  <1>11. windowStart[c] <= expected[c] /\ (missed[c] = {} => nextSeqId[c] = expected[c])
    <2>1. missed[c] = {} => nextSeqId[c] = expected[c]
      BY <1>1, <1>10, FS_EmptySet
    <2>2. CASE expected[c] = nextSeqId[c]
      BY <1>3, <2>1, <2>2
    <2>3. CASE expected[c] # nextSeqId[c]
      <3>1. \E m \in missed[c] : m.seqId = expected[c]
        BY <1>1, <1>3, <1>9, <2>3 DEF Spans
      <3>2. expected[c] >= windowStart[c]
        BY <1>3, <3>1
      <3> QED BY <1>1, <2>1, <3>2
    <2> QED BY <2>2, <2>3
  <1> QED BY <1>8, <1>9, <1>10, <1>11 DEF last, first

\* What a greeting does with the Client that sends it: to a Client that the page
\* knows again.
Resumes(c, seamless, last, fate, queue) ==
    /\ \A d \in Clients \ {c} :
          /\ missed'[d] = missed[d] /\ windowStart'[d] = windowStart[d] /\ SameWire(d)
          /\ d \in unconfirmed \cup reloadPending <=> d \in unconfirmed' \cup reloadPending'
    /\ ~seamless => c \in reloadPending'
    /\ seamless /\ fate # "fails" /\ Kept(c, FirstNeeded(c, last)) # {} => c \in unconfirmed'
    /\ IF fate # "fails" \/ ~seamless
       THEN missed'[c] = {} /\ windowStart'[c] = nextSeqId[c]
       ELSE missed'[c] = missed[c] /\ windowStart'[c] = windowStart[c]
    /\ IF fate # "arrives" THEN link'[c] = link[c] /\ toClient'[c] = queue
       ELSE /\ link'[c] = IF ~seamless THEN "closing" ELSE "up"
            /\ \E m \in Messages :
                 /\ toClient'[c] = Append(queue, m)
                 /\ IsGreeting(m) /\ (m.needReload <=> ~seamless)
                 /\ m.missed = IF seamless THEN Kept(c, FirstNeeded(c, last)) ELSE {}

LEMMA GreetParts ==
    ASSUME Types, NEW c \in Clients, NEW seamless \in BOOLEAN,
           NEW last \in Nat \cup {None}, NEW fate, NEW queue \in Seq(Messages),
           Greet(c, FALSE, seamless, last, fate, queue), windowStart[c] <= nextSeqId[c]
    PROVE  Resumes(c, seamless, last, fate, queue)
  <1> USE DEF Types, WireTypes, HeldTypes, ClientTypes
  <1> DEFINE handed == IF seamless THEN Kept(c, FirstNeeded(c, last)) ELSE {}
             m == [client |-> c, missed |-> handed, needReload |-> ~seamless,
                   lastReqId |-> IF seamless THEN lastReqId[c] ELSE Unspoken]
             settled == IF seamless THEN unconfirmed \ {c} ELSE unconfirmed
  <1>1. /\ reloadPending' = IF ~seamless THEN reloadPending \cup {c}
                            ELSE reloadPending \ {c}
        /\ unconfirmed' = IF fate # "fails" /\ handed # {} THEN settled \cup {c} ELSE settled
        /\ missed' = IF fate # "fails" \/ ~seamless THEN [missed EXCEPT ![c] = {}] ELSE missed
        /\ windowStart' = IF fate # "fails" \/ ~seamless
                          THEN [windowStart EXCEPT ![c] = StartAfter(c, nextSeqId[c])]
                          ELSE windowStart
        /\ toClient' = [toClient EXCEPT ![c] = IF fate # "arrives" THEN queue ELSE Append(queue, m)]
        /\ link' = [link EXCEPT ![c] =
                      IF fate = "arrives" THEN (IF ~seamless THEN "closing" ELSE "up")
                      ELSE @]
    BY DEF Greet
  <1>2. StartAfter(c, nextSeqId[c]) = nextSeqId[c]
    BY DEF StartAfter
  <1>3. /\ m \in Messages /\ IsGreeting(m) /\ (m.needReload <=> ~seamless)
        /\ m.missed = handed
    <2>1. handed \subseteq missed[c] /\ handed \in SUBSET Numbered
      BY DEF Kept
    <2>2. nextSeqId[c] \in Nat /\ \A n \in handed : n.seqId < nextSeqId[c]
      BY <2>1
    <2>3. IsFiniteSet(handed)
      BY <2>1, FS_Subset
    <2> HIDE DEF handed
    <2>4. Bounded(handed)
      BY <2>2, <2>3 DEF Bounded
    <2>5. (IF seamless THEN lastReqId[c] ELSE Unspoken) \in ReqIds \cup {None, Unspoken}
      OBVIOUS
    <2> QED BY <2>1, <2>4, <2>5 DEF Messages, Greetings, ConnectMessages, IsGreeting
  <1> HIDE DEF m
  <1>4. IF fate # "arrives" THEN link'[c] = link[c] /\ toClient'[c] = queue
        ELSE /\ link'[c] = IF ~seamless THEN "closing" ELSE "up"
             /\ toClient'[c] = Append(queue, m)
    BY <1>1
  <1>5. ASSUME NEW d \in Clients \ {c}
        PROVE  /\ missed'[d] = missed[d] /\ windowStart'[d] = windowStart[d] /\ SameWire(d)
               /\ d \in unconfirmed \cup reloadPending <=> d \in unconfirmed' \cup reloadPending'
    BY <1>1 DEF SameWire
  <1>6. /\ ~seamless => c \in reloadPending'
        /\ seamless /\ fate # "fails" /\ handed # {} => c \in unconfirmed'
        /\ IF fate # "fails" \/ ~seamless
           THEN missed'[c] = {} /\ windowStart'[c] = nextSeqId[c]
           ELSE missed'[c] = missed[c] /\ windowStart'[c] = windowStart[c]
    BY <1>1, <1>2
  <1> QED BY <1>3, <1>4, <1>5, <1>6 DEF Resumes

\* ... and at once.
LEMMA GreetsAtOnce ==
    ASSUME Types, NEW c \in Clients, NEW isNew \in BOOLEAN,
           Greet(c, isNew, FALSE, None, "arrives", <<>>), windowStart[c] <= nextSeqId[c]
    PROVE  /\ \A d \in Clients \ {c} :
                 /\ missed'[d] = missed[d] /\ windowStart'[d] = windowStart[d] /\ SameWire(d)
                 /\ d \in unconfirmed \cup reloadPending <=> d \in unconfirmed' \cup reloadPending'
           /\ missed'[c] = {} /\ windowStart'[c] = nextSeqId[c]
           /\ link'[c] = IF ~isNew THEN "closing" ELSE "up"
           /\ \E m \in Messages : /\ toClient'[c] = <<m>> /\ IsGreeting(m)
                                  /\ (m.needReload <=> ~isNew) /\ m.missed = {}
  <1> USE DEF Types, WireTypes, HeldTypes, ClientTypes
  <1> DEFINE m == [client |-> c, missed |-> {}, needReload |-> ~isNew, lastReqId |-> Unspoken]
  <1>1. /\ reloadPending' = IF ~isNew THEN reloadPending \cup {c} ELSE reloadPending \ {c}
        /\ unconfirmed' = IF isNew THEN unconfirmed \ {c} ELSE unconfirmed
        /\ missed' = [missed EXCEPT ![c] = {}]
        /\ windowStart' = [windowStart EXCEPT ![c] = StartAfter(c, nextSeqId[c])]
        /\ toClient' = [toClient EXCEPT ![c] = Append(<<>>, m)]
        /\ link' = [link EXCEPT ![c] = IF ~isNew THEN "closing" ELSE "up"]
    BY DEF Greet
  <1>2. StartAfter(c, nextSeqId[c]) = nextSeqId[c]
    BY DEF StartAfter
  <1>3. m \in Messages /\ IsGreeting(m) /\ (m.needReload <=> ~isNew) /\ m.missed = {}
    <2>1. Bounded({})
      BY FS_EmptySet DEF Bounded
    <2> QED BY <2>1 DEF Messages, Greetings, ConnectMessages, IsGreeting
  <1> HIDE DEF m
  <1>4. toClient'[c] = <<m>> /\ link'[c] = IF ~isNew THEN "closing" ELSE "up"
    BY <1>1
  <1>5. /\ missed'[c] = {} /\ windowStart'[c] = nextSeqId[c]
        /\ \A d \in Clients \ {c} :
              /\ missed'[d] = missed[d] /\ windowStart'[d] = windowStart[d] /\ SameWire(d)
              /\ d \in unconfirmed \cup reloadPending <=> d \in unconfirmed' \cup reloadPending'
    BY <1>1, <1>2 DEF SameWire
  <1> QED BY <1>3, <1>4, <1>5

\* A page connects: for the first time, to a Client that it knows again, or to a
\* new one that makes it reload.
LEMMA DialOrder ==
    ASSUME OrderInv, OnceInv', Dial
    PROVE  OrderInv'
  <1>0. PICK c \in Clients : c = IF Reuses THEN clientId ELSE created + 1
    BY DEF Dial
  <1>1. /\ attached = Nobody /\ wantReconnect /\ ~reloading
        /\ attached' = c /\ socket' = socket \cup {c}
        /\ UNCHANGED <<clientId, established, wantReconnect, redials, firstConnect,
                       lastSeqId, reloading, nextSeqId, inOrder>>
        /\ IF ~redials \/ ~Reuses
           THEN /\ Greet(c, ~redials, FALSE, None, "arrives", <<>>)
                /\ expected' = [expected EXCEPT ![c] = nextSeqId[c]]
                /\ UNCHANGED greeting
           ELSE /\ greeting' = [greeting EXCEPT ![c] = Append(@, lastSeqId)]
                /\ link' = [link EXCEPT ![c] = "up"]
                /\ toClient' = [toClient EXCEPT ![c] = <<>>]
                /\ UNCHANGED <<resumeVars, missed, expected>>
    BY <1>0 DEF Dial
  <1>2. IF Reuses THEN c = clientId ELSE c # clientId
    <2>1. clientId <= created /\ created \in Nat /\ clientId \in Int
      BY DEF OrderInv, OnceInv, Types, PageTypes, ClientTypes, Established, Clients, Nobody
    <2> QED BY <1>0, <2>1
  <1>3. /\ \A d \in Clients : d # Nobody /\ ~IsUp(d)
        /\ ~established /\ (redials \/ firstConnect)
        /\ firstConnect => lastSeqId = None
        /\ lastSeqId # None => clientId \in Clients /\ expected[clientId] = lastSeqId + 1
    BY <1>1 DEF OrderInv, OnceInv, Wires, Established, PageRight, Clients, Nobody
  <1>4. HeldRight(c) /\ windowStart[c] <= nextSeqId[c]
    BY <1>1 DEF OrderInv, HeldRight
  <1>5. /\ nextSeqId[c] \in Nat /\ expected[c] \in Nat /\ windowStart[c] \in Nat
        /\ missed[c] \in SUBSET Numbered /\ greeting[c] \in Seq(Nat \cup {None})
        /\ lastSeqId \in Nat \cup {None}
    BY <1>1 DEF OrderInv, OnceInv, Types, HeldTypes, RunTypes, ClientTypes, PageTypes
  <1>6. CASE ~redials \/ ~Reuses
    <2>1. /\ Greet(c, ~redials, FALSE, None, "arrives", <<>>) /\ greeting' = greeting
          /\ expected' = [expected EXCEPT ![c] = nextSeqId[c]]
      BY <1>1, <1>6
    <2>2. PICK isNew \in BOOLEAN : Greet(c, isNew, FALSE, None, "arrives", <<>>) /\ isNew = ~redials
      <3>1. (~redials) \in BOOLEAN
        OBVIOUS
      <3> QED BY <2>1, <3>1, Zenon
    <2>3. /\ \A d \in Clients \ {c} :
                /\ missed'[d] = missed[d] /\ windowStart'[d] = windowStart[d] /\ SameWire(d)
                /\ d \in unconfirmed \cup reloadPending <=> d \in unconfirmed' \cup reloadPending'
          /\ missed'[c] = {} /\ windowStart'[c] = nextSeqId[c]
          /\ link'[c] = IF ~isNew THEN "closing" ELSE "up"
          /\ \E m \in Messages : /\ toClient'[c] = <<m>> /\ IsGreeting(m)
                                 /\ (m.needReload <=> ~isNew) /\ m.missed = {}
      BY <1>4, <2>2, GreetsAtOnce DEF OrderInv, OnceInv
    <2>4. PICK m \in Messages : /\ toClient'[c] = <<m>> /\ IsGreeting(m)
                                /\ (m.needReload <=> redials) /\ m.missed = {}
                                /\ link'[c] = IF redials THEN "closing" ELSE "up"
      <3>1. ~isNew <=> redials
        BY <2>2
      <3> QED BY <2>3, <3>1
    <2>5. expected'[c] = nextSeqId[c] /\ \A d \in Clients \ {c} : expected'[d] = expected[d]
      BY <1>1, <2>1 DEF OrderInv, OnceInv, Types, RunTypes
    <2>6. toClient'[c] # <<>> /\ toClient'[c][1] = m /\ Len(toClient'[c]) = 1
      BY <2>4
    <2>7. PageRight' /\ inOrder' = TRUE
      <3>1. ~reloading' /\ lastSeqId' # None
               => clientId' \in Clients /\ expected'[clientId'] = lastSeqId' + 1
        BY <1>1, <1>2, <1>3, <1>6, <2>5
      <3> QED BY <1>1, <3>1 DEF OrderInv, PageRight
    <2>8. HeldRight(c)'
      <3>1. \A i \in 1..Len(greeting[c]) : greeting[c][i] # None => greeting[c][i] < nextSeqId[c]
        BY <1>4, <1>5 DEF HeldRight, None
      <3> QED BY <1>1, <1>5, <2>1, <2>3, <2>5, <3>1 DEF HeldRight
    <2>9. LineRight(c)'
      <3>1. CASE redials
        BY <1>1, <1>3, <2>4, <2>6, <3>1 DEF Opens, LineRight
      <3>2. CASE ~redials
        <4>1. link'[c] = "up" /\ ~m.needReload
          BY <2>4, <3>2
        <4>2. expected'[c] + Cardinality(m.missed) = nextSeqId'[c]
              /\ expected'[c] = nextSeqId'[c]
          BY <1>1, <1>5, <2>4, <2>5, FS_EmptySet
        <4>3. Spans(m.missed, expected'[c], nextSeqId'[c])
          BY <1>1, <1>5, <2>4, <4>2 DEF Spans
        <4>4. Lined(c, nextSeqId[c])'
          <5>1. Shape(toClient'[c], 1, nextSeqId'[c])
            BY <2>4, <2>6 DEF Shape
          <5>2. (Fits(c, 1, nextSeqId[c] + (1 - 1)))'
            BY <1>1, <1>5, <2>3, <2>6, <4>1 DEF Fits
          <5> QED BY <2>6, <5>1, <5>2 DEF Lined
        <4>5. Opens(c, m)'
          BY <2>4, <4>1, <4>2, <4>3, <4>4 DEF Opens
        <4> QED BY <1>1, <1>3, <2>6, <4>5 DEF LineRight
      <3> QED BY <3>1, <3>2
    <2>10. ASSUME NEW d \in Clients \ {c}
           PROVE  HeldRight(d)' /\ LineRight(d)'
      <3>1. HeldRight(d) /\ LineRight(d)
        BY DEF OrderInv
      <3>2. SameHeld(d) /\ ~IsUp(d)'
        BY <1>1, <1>3, <2>1, <2>3, <2>5 DEF SameHeld, SameWire, IsUp
      <3> QED BY <3>1, <3>2, Unmoved DEF LineRight
    <2> QED BY <2>7, <2>8, <2>9, <2>10 DEF OrderInv
  <1>7. CASE redials /\ Reuses
    <2>1. /\ greeting' = [greeting EXCEPT ![c] = Append(@, lastSeqId)]
          /\ link' = [link EXCEPT ![c] = "up"] /\ toClient' = [toClient EXCEPT ![c] = <<>>]
          /\ UNCHANGED <<windowStart, unconfirmed, reloadPending, missed, expected>>
      BY <1>1, <1>7 DEF resumeVars
    <2>2. lastSeqId # None => expected[c] = lastSeqId + 1
      BY <1>2, <1>3, <1>7
    <2>3. /\ Len(greeting'[c]) = Len(greeting[c]) + 1 /\ greeting'[c] # <<>>
          /\ \A i \in 1..Len(greeting[c]) + 1 :
                greeting'[c][i] = IF i <= Len(greeting[c]) THEN greeting[c][i] ELSE lastSeqId
      <3>1. greeting'[c] = Append(greeting[c], lastSeqId)
        BY <1>1, <2>1 DEF OrderInv, OnceInv, Types, ClientTypes
      <3>2. greeting'[c] # <<>>
        BY <1>5, <3>1
      <3> QED BY <1>5, <3>1, <3>2, AppendFacts
    <2>4. ASSUME NEW i \in 1..Len(greeting'[c]), greeting'[c][i] # None
          PROVE  greeting'[c][i] < expected[c]
      <3>1. CASE i <= Len(greeting[c])
        BY <1>4, <1>5, <2>3, <2>4, <3>1 DEF HeldRight
      <3>2. CASE ~(i <= Len(greeting[c]))
        BY <1>5, <2>2, <2>3, <2>4, <3>2 DEF None
      <3> QED BY <3>1, <3>2
    <2>5. HeldRight(c)'
      BY <1>1, <1>4, <2>1, <2>4 DEF HeldRight
    <2>6. LineRight(c)'
      BY <1>1, <1>3, <2>1, <2>3 DEF LineRight, OrderInv, OnceInv, Types, WireTypes
    <2>7. PageRight' /\ inOrder' = TRUE
      BY <1>1, <2>1 DEF OrderInv, PageRight
    <2>8. ASSUME NEW d \in Clients \ {c}
           PROVE  HeldRight(d)' /\ LineRight(d)'
      <3>1. HeldRight(d) /\ LineRight(d)
        BY DEF OrderInv
      <3>2. SameHeld(d) /\ ~IsUp(d)'
        BY <1>1, <1>3, <2>1
           DEF SameHeld, IsUp, OrderInv, OnceInv, Types, ClientTypes, WireTypes
      <3> QED BY <3>1, <3>2, Unmoved DEF LineRight
    <2> QED BY <2>5, <2>6, <2>7, <2>8 DEF OrderInv
  <1> QED BY <1>6, <1>7

\* A numbered message goes to the end of the queue, or is held, or is lost: and
\* in the order of the numbers, as no greeting is owed on a connection that works.
LEMMA SendOrder ==
    ASSUME OrderInv, OnceInv', ~EarlySends, NEW c \in Clients, NEW body \in Bodies,
           MaySend(c), Send(c, body),
           UNCHANGED <<connVars, link, socket, resumeVars, greeting, expected, inOrder>>
    PROVE  OrderInv'
  <1> USE DEF connVars, resumeVars
  <1>1. CASE c \in destroyed
    BY <1>1, QuietOrder DEF Send
  <1>2. CASE c \notin destroyed
    <2> DEFINE m == [seqId |-> nextSeqId[c], body |-> body]
    <2>1. PICK fate \in Fates(c) :
            LET full == fate = "fails" /\ Cardinality(missed[c]) >= MaxMissed
            IN  /\ nextSeqId' = [nextSeqId EXCEPT ![c] = @ + 1]
                /\ toClient' = IF fate = "arrives"
                               THEN [toClient EXCEPT ![c] = Append(@, m)] ELSE toClient
                /\ missed' = IF full THEN [missed EXCEPT ![c] = {}]
                             ELSE IF fate = "fails"
                                  THEN [missed EXCEPT ![c] = @ \cup {m}]
                                  ELSE missed
      BY <1>2 DEF Send
    <2>2. m \in Messages /\ ~IsGreeting(m) /\ m.seqId = nextSeqId[c]
      BY DEF Messages, Numbered, IsGreeting, OrderInv, OnceInv, Types, HeldTypes
    <2> HIDE DEF m
    <2>3. /\ nextSeqId[c] \in Nat /\ windowStart[c] \in Nat /\ expected[c] \in Nat
          /\ missed[c] \in SUBSET Numbered /\ toClient[c] \in Seq(Messages)
          /\ \A n \in missed[c] : n.seqId \in Nat /\ n.seqId < nextSeqId[c]
      <3>1. missed[c] \in SUBSET Numbered
        BY DEF OrderInv, OnceInv, Types, HeldTypes
      <3>2. \A n \in missed[c] : n.seqId \in Nat
        BY <3>1, Kinds
      <3> QED BY <3>1, <3>2 DEF OrderInv, OnceInv, Types, HeldTypes, RunTypes, WireTypes
    <2>4. HeldRight(c) /\ LineRight(c)
      BY DEF OrderInv
    <2>5. /\ nextSeqId'[c] = nextSeqId[c] + 1
          /\ missed'[c] = {} \/ missed'[c] = missed[c]
             \/ (missed'[c] = missed[c] \cup {m} /\ fate = "fails")
          /\ IF fate = "arrives" THEN toClient'[c] = Append(toClient[c], m) /\ missed'[c] = missed[c]
             ELSE toClient'[c] = toClient[c]
      BY <2>1 DEF OrderInv, OnceInv, Types, HeldTypes, WireTypes
    <2>6. /\ fate = "arrives" => link[c] = "up" /\ c \in socket
          /\ fate # "arrives" => link[c] # "up"
      BY <2>4, <2>1 DEF Fates, HeldRight, IsUp
    <2>7. IsUp(c)' = IsUp(c)
      BY DEF IsUp
    <2>8. \A n \in missed'[c] : n \in missed[c] \/ n = m
      BY <2>5
    <2>9. HeldRight(c)'
      <3>1. /\ windowStart'[c] <= nextSeqId'[c] /\ expected'[c] <= nextSeqId'[c]
            /\ \A n \in missed'[c] : n.seqId >= windowStart'[c] /\ n.seqId >= expected'[c]
        BY <2>2, <2>3, <2>4, <2>5, <2>8 DEF HeldRight
      <3>2. \A n, k \in missed'[c] : n.seqId = k.seqId => n = k
        <4>1. \A n, k \in missed[c] : n.seqId = k.seqId => n = k
          BY <2>4 DEF HeldRight
        <4>2. \A n \in missed[c] : n.seqId # m.seqId
          BY <2>2, <2>3
        <4> QED BY <2>8, <4>1, <4>2
      <3> QED BY <2>4, <2>7, <3>1, <3>2 DEF HeldRight
    <2>10. ASSUME fate # "arrives", NEW s \in Nat, Lined(c, s) PROVE Lined(c, s)'
      <3>1. PICK k \in 0..Len(toClient[c]) :
              Shape(toClient[c], k, s) /\ Fits(c, k, s + (Len(toClient[c]) - k))
        BY <2>10 DEF Lined
      <3>2. Fits(c, k, s + (Len(toClient[c]) - k))'
        <4>1. toClient'[c] = toClient[c] /\ Len(toClient[c]) \in Nat
          BY <2>3, <2>5, <2>10
        <4>2. s + (Len(toClient[c]) - k) \in Int
          BY <4>1
        <4> QED BY <2>2, <2>3, <2>5, <2>6, <2>8, <2>10, <3>1, <4>1, <4>2 DEF Fits
      <3> QED BY <2>5, <2>10, <3>1, <3>2 DEF Lined
    <2>11. ASSUME fate = "arrives", NEW s \in Nat, Lined(c, s) PROVE Lined(c, s)'
      <3>1. PICK k \in 0..Len(toClient[c]) :
              Shape(toClient[c], k, s) /\ Fits(c, k, s + (Len(toClient[c]) - k))
        BY <2>11 DEF Lined
      <3>2. s + (Len(toClient[c]) - k) = nextSeqId[c] /\ missed[c] = {} /\ greeting[c] = <<>>
        BY <2>3, <2>6, <2>11, <3>1 DEF Fits, MaySend
      <3>3. Len(toClient'[c]) = Len(toClient[c]) + 1 /\ Len(toClient[c]) \in Nat
            /\ Shape(toClient'[c], k, s)
        <4>1. toClient'[c] = Append(toClient[c], m) /\ Len(toClient[c]) \in Nat
          BY <2>3, <2>5, <2>11
        <4>2. Len(Append(toClient[c], m)) = Len(toClient[c]) + 1
          BY <2>2, <2>3, AppendFacts
        <4>3. Shape(Append(toClient[c], m), k, s)
          BY <2>2, <2>3, <3>1, <3>2, ShapeOfAppend
        <4> QED BY <4>1, <4>2, <4>3
      <3>4. s + (Len(toClient'[c]) - k) = nextSeqId'[c] /\ k \in 0..Len(toClient'[c])
        BY <2>3, <2>5, <3>2, <3>3
      <3>5. Fits(c, k, s + (Len(toClient[c]) - k))'
        BY <2>3, <2>5, <2>6, <2>11, <3>2, <3>4 DEF Fits
      <3> QED BY <3>3, <3>4, <3>5 DEF Lined
    <2>12. LineRight(c)'
      <3>1. CASE ~IsUp(c)
        BY <2>7, <3>1 DEF LineRight
      <3>2. CASE IsUp(c) /\ established
        BY <2>3, <2>4, <2>10, <2>11, <3>2 DEF LineRight
      <3>3. CASE IsUp(c) /\ ~established /\ toClient[c] = <<>>
        BY <2>4, <2>5, <2>6, <3>3 DEF LineRight, MaySend
      <3>4. CASE IsUp(c) /\ ~established /\ toClient[c] # <<>>
        <4>1. Opens(c, toClient[c][1]) /\ toClient[c][1] \in Messages
          BY <2>3, <2>4, <3>4 DEF LineRight
        <4>2. PICK g \in Messages : g = toClient[c][1]
          BY <4>1
        <4>3. g = toClient'[c][1] /\ toClient'[c] # <<>>
          BY <2>2, <2>3, <2>5, <3>4, <4>2, AppendFacts, SMTT(60)
        <4>4. IsGreeting(g) /\ (~g.needReload => expected[c] + Cardinality(g.missed) \in Nat)
          <5>1. IsGreeting(g)
            BY <4>1, <4>2 DEF Opens
          <5>2. IsFiniteSet(g.missed)
            BY <5>1, Kinds DEF Greetings, Bounded
          <5> QED BY <2>3, <5>1, <5>2, FS_CardinalityType
        <4>5. Opens(c, g)'
          BY <2>7, <2>10, <2>11, <4>1, <4>2, <4>4 DEF Opens
        <4> QED BY <4>3, <4>5, <3>4 DEF LineRight
      <3> QED BY <3>1, <3>2, <3>3, <3>4
    <2>13. ASSUME NEW d \in Clients \ {c}
           PROVE  HeldRight(d)' /\ LineRight(d)'
      <3>1. HeldRight(d) /\ LineRight(d)
        BY DEF OrderInv
      <3>2. SameHeld(d) /\ SameWire(d) /\ (IsUp(d)' => d \in socket')
        BY <2>1, <3>1 DEF SameHeld, SameWire, HeldRight, IsUp
      <3> QED BY <3>1, <3>2, Unmoved
    <2>14. PageRight' /\ inOrder' = TRUE
      BY DEF OrderInv, PageRight
    <2> QED BY <2>9, <2>12, <2>13, <2>14 DEF OrderInv
  <1> QED BY <1>1, <1>2

\* The page has taken the first message of its queue.
LEMMA PopsOrder ==
    ASSUME OrderInv, OnceInv', NEW c \in Clients, c = attached, toClient[c] # <<>>,
           UNCHANGED <<attached, wantReconnect, reloading, link, socket, nextSeqId, missed,
                       windowStart, unconfirmed, reloadPending, greeting>>,
           established', ~firstConnect', clientId' = c, inOrder' = TRUE,
           toClient' = [toClient EXCEPT ![c] = Tail(@)],
           NEW s \in Nat, NEW k \in 0..Len(toClient[c]), s >= expected[c],
           Shape(toClient[c], k, s), Fits(c, k, s + (Len(toClient[c]) - k)),
           expected' = [expected EXCEPT ![c] = IF IsGreeting(toClient[c][1]) THEN s ELSE s + 1],
           lastSeqId' # None => expected'[c] = lastSeqId' + 1
    PROVE  OrderInv'
  <1>1. /\ ~reloading /\ wantReconnect
        /\ HeldRight(c)
        /\ \A d \in Clients \ {c} : ~IsUp(d)
    BY DEF OrderInv, OnceInv, Wires, PageRight, Clients, Nobody
  <1>2. /\ nextSeqId[c] \in Nat /\ windowStart[c] \in Nat /\ expected[c] \in Nat
        /\ missed[c] \in SUBSET Numbered /\ toClient[c] \in Seq(Messages)
        /\ Len(toClient[c]) \in Nat \ {0} /\ greeting[c] \in Seq(Nat \cup {None})
    BY DEF OrderInv, OnceInv, Types, HeldTypes, RunTypes, WireTypes, ClientTypes
  <1>3. toClient'[c] = Tail(toClient[c]) /\ Len(toClient'[c]) = Len(toClient[c]) - 1
    BY <1>2, TailFacts DEF OrderInv, OnceInv, Types, WireTypes
  <1>4. PICK j \in 0..Len(toClient'[c]), t \in Nat :
           /\ expected'[c] = t /\ t >= s /\ Shape(toClient'[c], j, t)
           /\ t + (Len(toClient'[c]) - j) = s + (Len(toClient[c]) - k)
           /\ k = Len(toClient[c]) => j = Len(toClient'[c])
    <2>1. expected'[c] = IF IsGreeting(toClient[c][1]) THEN s ELSE s + 1
      BY DEF OrderInv, OnceInv, Types, RunTypes
    <2>2. CASE IsGreeting(toClient[c][1])
      <3>1. k > 0 /\ Shape(toClient'[c], k - 1, s)
        BY <1>2, <1>3, <2>2, ShapeOfTail
      <3>2. k - 1 \in 0..Len(toClient'[c])
            /\ s + (Len(toClient'[c]) - (k - 1)) = s + (Len(toClient[c]) - k)
        BY <1>2, <1>3, <3>1
      <3>3. expected'[c] = s /\ s >= s /\ (k = Len(toClient[c]) => k - 1 = Len(toClient'[c]))
        BY <1>2, <1>3, <2>1, <2>2
      <3> QED BY <3>1, <3>2, <3>3
    <2>3. CASE ~IsGreeting(toClient[c][1])
      <3>1. k = 0 /\ Shape(toClient'[c], 0, s + 1)
        BY <1>2, <1>3, <2>3, ShapeOfTail, SMTT(60)
      <3>2. 0 \in 0..Len(toClient'[c]) /\ s + 1 \in Nat /\ s + 1 >= s
            /\ (s + 1) + (Len(toClient'[c]) - 0) = s + (Len(toClient[c]) - k)
        BY <1>2, <1>3, <3>1
      <3>3. expected'[c] = s + 1 /\ (k = Len(toClient[c]) => 0 = Len(toClient'[c]))
        BY <1>2, <1>3, <2>1, <2>3, <3>1
      <3> QED BY <3>1, <3>2, <3>3
    <2> QED BY <2>2, <2>3
  <1>5. PageRight'
    BY <1>1 DEF OrderInv, PageRight
  <1>6. \A m \in missed[c] : m.seqId \in Nat
    BY <1>2, Kinds
  <1>7. /\ expected'[c] \in Nat /\ expected'[c] >= expected[c]
        /\ expected'[c] <= s + (Len(toClient[c]) - k) /\ s + (Len(toClient[c]) - k) \in Nat
    BY <1>2, <1>3, <1>4, SMTT(60)
  <1>8. HeldRight(c)'
    <2>1. /\ s + (Len(toClient[c]) - k) <= nextSeqId[c]
          /\ \A m \in missed[c] : m.seqId >= s + (Len(toClient[c]) - k)
      BY DEF Fits
    <2>2. \A m \in missed'[c] : m.seqId >= expected'[c]
      BY <1>6, <1>7, <2>1, SMTT(60)
    <2>3. ASSUME NEW i \in 1..Len(greeting'[c]), greeting'[c][i] # None
          PROVE  greeting'[c][i] < expected'[c]
      <3>1. greeting'[c][i] = greeting[c][i] /\ i \in 1..Len(greeting[c])
        OBVIOUS
      <3>2. greeting[c][i] < expected[c]
        BY <1>1, <2>3, <3>1 DEF HeldRight
      <3>3. greeting[c][i] \in Nat
        <4>1. greeting[c][i] \in Nat \cup {None}
          BY <1>2, <3>1
        <4> QED BY <2>3, <3>1, <4>1
      <3> QED BY <1>2, <1>7, <3>1, <3>2, <3>3
    <2>4. windowStart'[c] > expected'[c] => c \in unconfirmed' \cup reloadPending'
      BY <1>1, <1>2, <1>7 DEF HeldRight
    <2>5. expected'[c] <= nextSeqId'[c]
      BY <1>2, <1>7, <2>1
    <2>6. IsUp(c)' = IsUp(c)
      BY DEF IsUp
    <2> QED BY <1>1, <2>2, <2>3, <2>4, <2>5, <2>6 DEF HeldRight
  <1>9. LineRight(c)'
    <2>1. (Fits(c, j, t + (Len(toClient[c]) - j)))'
      BY <1>3, <1>4 DEF Fits
    <2>2. (Lined(c, expected[c]))'
      BY <1>4, <2>1 DEF Lined
    <2> QED BY <2>2 DEF LineRight
  <1>10. ASSUME NEW d \in Clients \ {c}
         PROVE  HeldRight(d)' /\ LineRight(d)'
    <2>1. HeldRight(d) /\ SameHeld(d) /\ ~IsUp(d)'
      BY <1>1 DEF OrderInv, SameHeld, IsUp
    <2> QED BY <2>1 DEF HeldRight, SameHeld, LineRight
  <1> QED BY <1>5, <1>8, <1>9, <1>10 DEF OrderInv

\* What a page does with the first message of its queue: it handles a numbered
\* message; a greeting it ignores, obeys, or resumes with.
Pops(c) == toClient' = [toClient EXCEPT ![c] = Tail(@)]
HandlesOne(c, message) ==
    /\ ~IsGreeting(message) /\ established /\ message.seqId = expected[c]
    /\ Pops(c) /\ Handle(c, {message}) /\ lastSeqId' = message.seqId
    /\ pending' = [r \in ReqIds |-> IF r \in Settles({message}) THEN "done" ELSE pending[r]]
    /\ UNCHANGED <<attached, clientId, established, wantReconnect, redials, firstConnect,
                   reloading, link, toServer>>
IgnoresGreeting(c, message) ==
    /\ IsGreeting(message) /\ established
    /\ Pops(c)
    /\ UNCHANGED <<connVars, pending, link, toServer, ghostVars>>
HasToReload(c, message) ==
    /\ IsGreeting(message) /\ ~established
    /\ Disconnects /\ reloading' = TRUE /\ firstConnect' = FALSE
    /\ pending' = [r \in ReqIds |-> IF pending[r] = "sent" THEN "rejected" ELSE pending[r]]
    /\ UNCHANGED <<lastSeqId, ghostVars>>
ToSend(message) ==
    {r \in ReqIds : r \notin Settles(message.missed) /\ Resends(r, message.lastReqId)}
ResumesWith(c, message) ==
    LET next == expected[c] + Cardinality(message.missed)
    IN  /\ IsGreeting(message) /\ ~established /\ (firstConnect \/ clientId = c)
        /\ Spans(message.missed, expected[c], next) /\ Lined(c, next)
        /\ established' = TRUE /\ clientId' = c /\ firstConnect' = FALSE
        /\ lastSeqId' = IF message.missed = {} THEN lastSeqId ELSE HighestOf(message.missed)
        /\ Handle(c, message.missed) /\ Pops(c)
        /\ pending' = [r \in ReqIds |->
              IF r \in Settles(message.missed) THEN "done" ELSE IF r \in ToSend(message) THEN "sent"
              ELSE IF Rejects(r, message.lastReqId) THEN "rejected" ELSE pending[r]]
        /\ \E reqs \in Ordered(ToSend(message)) : Transmits(c, reqs)
        /\ UNCHANGED <<attached, wantReconnect, redials, reloading, link>>

\* It never finds that something is missing.
LEMMA ReceivesParts ==
    ASSUME OrderInv, PageReceives
    PROVE  \E c \in Clients, message \in Messages :
              /\ c = attached /\ IsUp(c) /\ toClient[c] # <<>> /\ message = toClient[c][1]
              /\ UNCHANGED <<life, nextReqId, clientVars, running>>
              /\ \/ HandlesOne(c, message) \/ IgnoresGreeting(c, message)
                 \/ HasToReload(c, message) \/ ResumesWith(c, message)
  <1>1. PICK c \in Clients : c = attached /\ toClient[c] # <<>>
    BY DEF PageReceives, OrderInv, OnceInv, Types, PageTypes
  <1>2. /\ toClient[c] \in Seq(Messages) /\ expected[c] \in Nat
        /\ Head(toClient[c]) \in Messages /\ Head(toClient[c]) = toClient[c][1]
        /\ lastSeqId \in Nat \cup {None}
    <2>1. toClient[c] \in Seq(Messages) /\ expected[c] \in Nat /\ lastSeqId \in Nat \cup {None}
      BY DEF OrderInv, OnceInv, Types, WireTypes, RunTypes, PageTypes
    <2> QED BY <1>1, <2>1, TailFacts
  <1>3. PICK message \in Messages : message = Head(toClient[c]) /\ message = toClient[c][1]
    BY <1>2
  <1>4. PICK rest : rest = [toClient EXCEPT ![c] = Tail(@)]
    OBVIOUS
  <1>5. /\ UNCHANGED <<life, nextReqId, clientVars, running>>
        /\ IF ~IsGreeting(message)
           THEN /\ PageReceivesMessage(c, message, rest)
                /\ UNCHANGED <<clientId, redials, firstConnect, reloading>>
           ELSE PageReceivesConnect(c, message, rest)
    BY <1>1, <1>3, <1>4 DEF PageReceives, IsGreeting
  <1>6. IsUp(c) /\ ~reloading /\ LineRight(c) /\ PageRight
    BY <1>1 DEF OrderInv, OnceInv, Wires, PageRight, Clients, Nobody
  <1>7. CASE ~IsGreeting(message)
    <2>1. established
      BY <1>1, <1>3, <1>6, <1>7 DEF LineRight, Opens
    <2>2. clientId = c
      BY <1>1, <2>1 DEF OrderInv, OnceInv, Established
    <2>3. PICK k \in 0..Len(toClient[c]) : Shape(toClient[c], k, expected[c])
      BY <1>6, <2>1 DEF LineRight, Lined
    <2>4. message.seqId = expected[c]
      BY <1>1, <1>2, <1>3, <1>7, <2>3, ShapeOfTail
    <2>5. ~Unexpected({message})
      BY <1>6, <2>2, <2>4 DEF Unexpected, PageRight
    <2>6. HandlesOne(c, message)
      BY <1>4, <1>5, <1>7, <2>1, <2>4, <2>5 DEF HandlesOne, PageReceivesMessage, Pops
    <2> QED BY <1>1, <1>3, <1>5, <1>6, <2>6
  <1>8. CASE IsGreeting(message) /\ established
    <2>1. IgnoresGreeting(c, message)
      BY <1>4, <1>5, <1>8 DEF PageReceivesConnect, IgnoresGreeting, Pops
    <2> QED BY <1>1, <1>3, <1>5, <1>6, <2>1
  <1>9. CASE IsGreeting(message) /\ ~established
    <2>1. PICK needReload \in BOOLEAN :
             needReload <=> message.needReload \/ (message.client # clientId /\ ~firstConnect)
      BY Zenon
    <2>2. PICK sent : sent = ToSend(message)
      OBVIOUS
    <2>3. Opens(c, message)
      BY <1>1, <1>2, <1>3, <1>6, <1>9 DEF LineRight
    <2>4. /\ message.client = c /\ message.missed \in SUBSET Numbered
          /\ IsFiniteSet(message.missed) /\ Cardinality(message.missed) \in Nat
      <3>1. 1 \in 1..Len(toClient[c]) /\ message \in Greetings
        BY <1>1, <1>2, <1>3, <1>9, Kinds, TailFacts
      <3>2. message.client = c
        BY <1>3, <1>9, <3>1 DEF OrderInv, OnceInv, Wires
      <3>3. message.missed \in SUBSET Numbered /\ IsFiniteSet(message.missed)
        BY <3>1, Kinds DEF Greetings, Bounded
      <3> QED BY <3>2, <3>3, FS_CardinalityType
    <2>5. /\ clientId' = c /\ firstConnect' = FALSE /\ redials' = redials
          /\ \/ /\ needReload /\ Disconnects /\ reloading' = TRUE
                /\ pending' = [r \in ReqIds |->
                                 IF pending[r] = "sent" THEN "rejected" ELSE pending[r]]
                /\ UNCHANGED <<lastSeqId, ghostVars>>
             \/ ~needReload /\ Unexpected(message.missed)
             \/ /\ ~needReload /\ established' = TRUE
                /\ lastSeqId' = IF message.missed = {} THEN lastSeqId
                                ELSE HighestOf(message.missed)
                /\ Handle(c, message.missed)
                /\ pending' = [r \in ReqIds |->
                      IF r \in Settles(message.missed) THEN "done" ELSE IF r \in sent THEN "sent"
                      ELSE IF Rejects(r, message.lastReqId) THEN "rejected" ELSE pending[r]]
                /\ toClient' = rest
                /\ \E reqs \in Ordered(sent) : Transmits(c, reqs)
                /\ UNCHANGED <<attached, wantReconnect, reloading, link>>
      <3> DEFINE Sent(r) == r \notin Settles(message.missed) /\ Resends(r, message.lastReqId)
      <3>1. sent = {r \in ReqIds : Sent(r)} /\ \A r \in ReqIds : r \in sent <=> Sent(r)
        BY <2>2 DEF ToSend
      <3>2. /\ clientId' = message.client /\ firstConnect' = FALSE /\ redials' = redials
            /\ \/ /\ needReload /\ Disconnects /\ reloading' = TRUE
                  /\ pending' = [r \in ReqIds |->
                                   IF pending[r] = "sent" THEN "rejected" ELSE pending[r]]
                  /\ UNCHANGED <<lastSeqId, ghostVars>>
               \/ ~needReload /\ Unexpected(message.missed)
               \/ /\ ~needReload /\ established' = TRUE
                  /\ lastSeqId' = IF message.missed = {} THEN lastSeqId
                                  ELSE HighestOf(message.missed)
                  /\ Handle(c, message.missed)
                  /\ pending' = [r \in ReqIds |->
                        IF r \in Settles(message.missed) THEN "done" ELSE IF Sent(r) THEN "sent"
                        ELSE IF Rejects(r, message.lastReqId) THEN "rejected" ELSE pending[r]]
                  /\ toClient' = rest
                  /\ \E reqs \in Ordered({r \in ReqIds : Sent(r)}) : Transmits(c, reqs)
                  /\ UNCHANGED <<attached, wantReconnect, reloading, link>>
        BY <1>5, <1>9, <2>1 DEF PageReceivesConnect
      <3> HIDE DEF Sent
      <3> QED BY <2>4, <3>1, <3>2
    <2>6. CASE /\ needReload /\ Disconnects /\ reloading' = TRUE
               /\ pending' = [r \in ReqIds |->
                                IF pending[r] = "sent" THEN "rejected" ELSE pending[r]]
               /\ UNCHANGED <<lastSeqId, ghostVars>>
      <3>1. HasToReload(c, message)
        BY <1>9, <2>5, <2>6 DEF HasToReload
      <3> QED BY <1>1, <1>3, <1>5, <1>6, <3>1
    <2>7. CASE ~needReload
      <3> DEFINE next == expected[c] + Cardinality(message.missed)
      <3>1. /\ Spans(message.missed, expected[c], next) /\ Lined(c, next) /\ next \in Nat
            /\ firstConnect \/ clientId = c
        BY <1>2, <2>1, <2>3, <2>4, <2>7 DEF Opens
      <3>2. ~Unexpected(message.missed)
        <4>1. lastSeqId # None => expected[c] = lastSeqId + 1
          BY <1>6, <3>1 DEF PageRight
        <4>2. message.missed # {} => \E m \in message.missed : m.seqId = expected[c]
          <5>1. message.missed # {} => next > expected[c]
            BY <1>2, <2>4, FS_EmptySet
          <5> QED BY <1>2, <3>1, <5>1 DEF Spans
        <4> QED BY <4>1, <4>2 DEF Unexpected
      <3>3. ResumesWith(c, message)
        BY <1>4, <1>9, <2>2, <2>5, <2>7, <3>1, <3>2 DEF ResumesWith, Pops
      <3> QED BY <1>1, <1>3, <1>5, <1>6, <3>3
    <2> QED BY <2>5, <2>6, <2>7
  <1> QED BY <1>7, <1>8, <1>9

\* What a page handles is what comes next, whether it comes by itself or with a
\* greeting.
LEMMA ReceivesOrder ==
    ASSUME OrderInv, OnceInv', PageReceives
    PROVE  OrderInv'
  <1> USE DEF clientVars, resumeVars, ghostVars, connVars, Pops
  <1>1. PICK c \in Clients, message \in Messages :
              /\ c = attached /\ IsUp(c) /\ toClient[c] # <<>> /\ message = toClient[c][1]
              /\ UNCHANGED <<clientVars, running>>
              /\ \/ HandlesOne(c, message) \/ IgnoresGreeting(c, message)
                 \/ HasToReload(c, message) \/ ResumesWith(c, message)
    BY ReceivesParts
  <1>2. expected[c] \in Nat /\ inOrder = TRUE /\ expected \in [Clients -> Nat] /\ PageRight
        /\ ~reloading /\ HeldRight(c) /\ LineRight(c) /\ (established => clientId = c /\ ~firstConnect)
    BY <1>1 DEF OrderInv, OnceInv, Types, RunTypes, PageRight, Established, Clients, Nobody
  <1>3. CASE HandlesOne(c, message)
    <2>1. PICK k \in 0..Len(toClient[c]) :
             Shape(toClient[c], k, expected[c]) /\ Fits(c, k, expected[c] + (Len(toClient[c]) - k))
      BY <1>1, <1>2, <1>3 DEF LineRight, Lined, HandlesOne
    <2>2. /\ expected' = [expected EXCEPT ![c] = expected[c] + 1] /\ inOrder' = TRUE
          /\ expected'[c] = lastSeqId' + 1
      <3>1. Cardinality({message}) = 1
        BY FS_Singleton
      <3>2. expected' = [expected EXCEPT ![c] = expected[c] + 1]
        BY <1>3, <3>1 DEF Handle, HandlesOne
      <3>3. message.seqId \in expected[c]..expected[c] + 1 - 1
        BY <1>2, <1>3 DEF HandlesOne
      <3>4. inOrder' = TRUE
        BY <1>2, <1>3, <3>1, <3>3 DEF Handle, HandlesOne
      <3> QED BY <1>2, <1>3, <3>2, <3>4 DEF HandlesOne
    <2>3. /\ expected' = [expected EXCEPT ![c] = IF IsGreeting(toClient[c][1]) THEN expected[c]
                                                 ELSE expected[c] + 1]
          /\ toClient' = [toClient EXCEPT ![c] = Tail(@)]
          /\ expected[c] >= expected[c] /\ established' /\ ~firstConnect' /\ clientId' = c
      BY <1>1, <1>2, <1>3, <2>2 DEF HandlesOne
    <2> QED BY <1>1, <1>2, <1>3, <2>1, <2>2, <2>3, PopsOrder DEF HandlesOne
  <1>4. CASE IgnoresGreeting(c, message)
    <2>1. PICK k \in 0..Len(toClient[c]) :
             Shape(toClient[c], k, expected[c]) /\ Fits(c, k, expected[c] + (Len(toClient[c]) - k))
      BY <1>1, <1>2, <1>4 DEF LineRight, Lined, IgnoresGreeting
    <2>2. /\ expected' = [expected EXCEPT ![c] = expected[c]] /\ inOrder' = TRUE
          /\ expected[c] >= expected[c] /\ (lastSeqId' # None => expected'[c] = lastSeqId' + 1)
      BY <1>2, <1>4 DEF PageRight, IgnoresGreeting
    <2>3. /\ expected' = [expected EXCEPT ![c] = IF IsGreeting(toClient[c][1]) THEN expected[c]
                                                 ELSE expected[c] + 1]
          /\ toClient' = [toClient EXCEPT ![c] = Tail(@)]
          /\ established' /\ ~firstConnect' /\ clientId' = c
      BY <1>1, <1>2, <1>4, <2>2 DEF IgnoresGreeting
    <2> QED BY <1>1, <1>2, <1>4, <2>1, <2>2, <2>3, PopsOrder DEF IgnoresGreeting
  <1>5. CASE HasToReload(c, message)
    <2>1. Detaches
      BY <1>1, <1>5 DEF HasToReload, Disconnects, Detaches, Clients, Nobody
    <2>2. PageRight'
      BY <1>5 DEF PageRight, HasToReload, Disconnects
    <2> QED BY <1>1, <1>5, <2>1, <2>2, DetachesOrder DEF HasToReload
  <1>6. CASE ResumesWith(c, message)
    <2> DEFINE next == expected[c] + Cardinality(message.missed)
    <2>1. /\ message.missed \in SUBSET Numbered
          /\ IsFiniteSet(message.missed) /\ Cardinality(message.missed) \in Nat
      <3>1. message.missed \in SUBSET Numbered /\ IsFiniteSet(message.missed)
        BY <1>6, Kinds DEF ResumesWith, Greetings, Bounded
      <3> QED BY <3>1, FS_CardinalityType
    <2>2. Spans(message.missed, expected[c], next) /\ Lined(c, next)
          /\ next \in Nat /\ next >= expected[c]
      BY <1>2, <1>6, <2>1 DEF ResumesWith
    <2>3. PICK k \in 0..Len(toClient[c]) :
             Shape(toClient[c], k, next) /\ Fits(c, k, next + (Len(toClient[c]) - k))
      BY <2>2 DEF Lined
    <2>4. expected' = [expected EXCEPT ![c] = next] /\ inOrder' = TRUE /\ expected'[c] = next
      <3>1. expected' = [expected EXCEPT ![c] = next]
        BY <1>6 DEF Handle, ResumesWith
      <3>2. \A m \in message.missed :
               m.seqId \in expected[c]..expected[c] + Cardinality(message.missed) - 1
        <4>1. Spans(message.missed, expected[c], expected[c] + Cardinality(message.missed))
          BY <2>2
        <4> QED BY <1>2, <2>1, <4>1 DEF Spans
      <3>3. inOrder' = TRUE
        BY <1>2, <1>6, <3>2 DEF Handle, ResumesWith
      <3> QED BY <1>2, <3>1, <3>3
    <2>5. lastSeqId' # None => expected'[c] = lastSeqId' + 1
      <3>1. lastSeqId # None => expected[c] = lastSeqId + 1
        BY <1>2, <1>6 DEF PageRight, ResumesWith
      <3>2. lastSeqId' = IF message.missed = {} THEN lastSeqId ELSE HighestOf(message.missed)
        BY <1>6 DEF ResumesWith
      <3>3. CASE message.missed = {}
        <4>1. next = expected[c]
          BY <1>2, <3>3, FS_EmptySet
        <4> QED BY <2>4, <3>1, <3>2, <3>3, <4>1
      <3>4. CASE message.missed # {}
        <4> HIDE DEF next
        <4>1. HighestOf(message.missed) = next - 1
          BY <1>2, <2>1, <2>2, <3>4, SpansHighest
        <4> QED BY <2>2, <2>4, <3>2, <3>4, <4>1
      <3> QED BY <3>3, <3>4
    <2>6. /\ expected' = [expected EXCEPT ![c] = IF IsGreeting(toClient[c][1]) THEN next ELSE next + 1]
          /\ toClient' = [toClient EXCEPT ![c] = Tail(@)] /\ established' /\ ~firstConnect'
          /\ clientId' = c /\ UNCHANGED <<attached, wantReconnect, reloading, link>>
      BY <1>1, <1>6, <2>4 DEF ResumesWith
    <2> HIDE DEF next
    <2> QED BY <1>1, <2>2, <2>3, <2>4, <2>5, <2>6, PopsOrder
  <1> QED BY <1>1, <1>3, <1>4, <1>5, <1>6

LEMMA AppendNotEmpty ==
    ASSUME NEW S, NEW l \in Seq(S), NEW e \in S
    PROVE  Append(l, e) # <<>>
  <1>1. Len(Append(l, e)) = Len(l) + 1 /\ Len(l) \in Nat
    BY AppendFacts
  <1>2. Len(Append(l, e)) # 0
    BY <1>1
  <1> QED BY <1>2

\* A list without one of its elements.
Without(l, i) == SubSeq(l, 1, i - 1) \o SubSeq(l, i + 1, Len(l))

LEMMA WithoutFacts ==
    ASSUME NEW S, NEW l \in Seq(S), NEW i \in 1..Len(l)
    PROVE  \A j \in 1..Len(Without(l, i)) : \E h \in 1..Len(l) : Without(l, i)[j] = l[h]
  <1> DEFINE before == SubSeq(l, 1, i - 1)
             after == SubSeq(l, i + 1, Len(l))
  <1>1. /\ before \in Seq(S) /\ Len(before) = i - 1 /\ \A j \in 1..i - 1 : before[j] = l[j]
        /\ after \in Seq(S) /\ Len(after) = Len(l) - i
        /\ \A j \in 1..Len(l) - i : after[j] = l[i + j]
    OBVIOUS
  <1> HIDE DEF before, after
  <1>2. /\ Len(before \o after) = Len(before) + Len(after)
        /\ \A j \in 1..Len(before) + Len(after) :
              (before \o after)[j] = IF j <= Len(before) THEN before[j] ELSE after[j - Len(before)]
    BY <1>1, ConcatProperties
  <1>3. ASSUME NEW j \in 1..Len(before \o after)
        PROVE  \E h \in 1..Len(l) : (before \o after)[j] = l[h]
    <2>1. CASE j <= i - 1
      BY <1>1, <1>2, <2>1
    <2>2. CASE ~(j <= i - 1)
      <3>1. j - (i - 1) \in 1..Len(l) - i /\ i + (j - (i - 1)) \in 1..Len(l)
        BY <1>1, <1>2, <2>2
      <3> QED BY <1>1, <1>2, <2>2, <3>1
    <2> QED BY <2>1, <2>2
  <1> QED BY <1>3 DEF Without, before, after

\* A greeting hands over what the page lacks, or makes it reload.
LEMMA ConnectSendsOrder ==
    ASSUME OrderInv, OnceInv', NEW c \in Clients, Greets(c)
    PROVE  OrderInv'
  <1> USE DEF serverFrame, pageVars, connVars, boundVars
  <1>1. PICK i \in DOMAIN greeting[c], authorized \in BOOLEAN, fate \in {"arrives", "lost", "fails"} :
           ConnectSends(c, i, authorized, fate)
    BY DEF Greets
  <1>2. /\ greeting[c] \in Seq(Nat \cup {None}) /\ i \in 1..Len(greeting[c])
        /\ greeting[c] # <<>> /\ greeting[c][i] \in Nat \cup {None}
        /\ nextSeqId[c] \in Nat /\ windowStart[c] \in Nat /\ expected[c] \in Nat
        /\ missed[c] \in SUBSET Numbered /\ toClient[c] \in Seq(Messages)
        /\ Len(toClient[c]) \in Nat
    BY SMTT(60) DEF OrderInv, OnceInv, Types, ClientTypes, HeldTypes, RunTypes, WireTypes
  <1>3. HeldRight(c) /\ LineRight(c)
    BY DEF OrderInv
  <1> DEFINE last == greeting[c][i]
             seamless == authorized /\ ~Gap(c, last)
  <1>4. /\ fate \in Fates(c)
        /\ Greet(c, FALSE, seamless, last, fate, toClient[c])
        /\ greeting' = [greeting EXCEPT ![c] = SubSeq(@, 1, i - 1) \o SubSeq(@, i + 1, Len(@))]
        /\ UNCHANGED <<connVars, socket, nextSeqId, expected, inOrder>>
    BY <1>1 DEF ConnectSends
  <1>5. seamless \in BOOLEAN /\ (seamless => ~Gap(c, greeting[c][i]))
    OBVIOUS
  <1> HIDE DEF last, seamless
  <1>6. Resumes(c, seamless, last, fate, toClient[c])
    <2>1. last \in Nat \cup {None} /\ Types /\ windowStart[c] <= nextSeqId[c]
      BY <1>2, <1>3 DEF last, OrderInv, OnceInv, HeldRight
    <2> QED BY <1>2, <1>4, <1>5, <2>1, GreetParts
  <1>7. \A j \in 1..Len(greeting'[c]) : \E h \in 1..Len(greeting[c]) : greeting'[c][j] = greeting[c][h]
    <2>1. greeting'[c] = Without(greeting[c], i)
      BY <1>4 DEF Without, OrderInv, OnceInv, Types, ClientTypes
    <2>2. \A j \in 1..Len(Without(greeting[c], i)) :
             \E h \in 1..Len(greeting[c]) : Without(greeting[c], i)[j] = greeting[c][h]
      BY <1>2, WithoutFacts, SMTT(60)
    <2> QED BY <2>1, <2>2
  <1> USE DEF Resumes
  <1>8. IF fate = "arrives" THEN link[c] = "up" /\ c \in socket /\ IsUp(c) /\ IsUp(c)'
        ELSE IsUp(c)' = IsUp(c)
    BY <1>3, <1>4, <1>6 DEF Fates, IsUp, HeldRight
  <1>9. seamless =>
            /\ Kept(c, FirstNeeded(c, last)) = missed[c]
            /\ Spans(missed[c], expected[c], nextSeqId[c])
            /\ nextSeqId[c] = expected[c] + Cardinality(missed[c])
            /\ windowStart[c] <= expected[c]
            /\ missed[c] = {} => nextSeqId[c] = expected[c]
    BY <1>2, <1>5, SeamlessFacts DEF last
  <1>10. HeldRight(c)'
    <2>1. \A j \in 1..Len(greeting'[c]) :
             greeting'[c][j] # None => greeting'[c][j] < expected'[c]
      BY <1>3, <1>4, <1>7 DEF HeldRight
    <2>2. \/ missed'[c] = {} /\ windowStart'[c] = nextSeqId[c]
          \/ missed'[c] = missed[c] /\ windowStart'[c] = windowStart[c]
      BY <1>6
    <2>3. nextSeqId'[c] = nextSeqId[c] /\ (IsUp(c)' => c \in socket')
      BY <1>3, <1>4, <1>8 DEF HeldRight
    <2>4. windowStart'[c] > expected'[c] => c \in unconfirmed' \cup reloadPending'
      BY <1>2, <1>4, <1>6, <1>9
    <2> HIDE DEF Resumes
    <2>5. /\ windowStart'[c] <= nextSeqId'[c] /\ expected'[c] <= nextSeqId'[c]
          /\ \A m \in missed'[c] : m.seqId >= windowStart'[c] /\ m.seqId >= expected'[c]
          /\ \A m, n \in missed'[c] : m.seqId = n.seqId => m = n
      BY <1>2, <1>3, <1>4, <2>2, <2>3 DEF HeldRight
    <2> QED BY <2>1, <2>3, <2>4, <2>5 DEF HeldRight
  <1>11. ASSUME IsUp(c), NEW s \in Nat, Lined(c, s)
         PROVE  Lined(c, s)'
    <2>1. PICK k \in 0..Len(toClient[c]) :
             Shape(toClient[c], k, s) /\ Fits(c, k, s + (Len(toClient[c]) - k))
      BY <1>11 DEF Lined
    <2>2. k = Len(toClient[c]) /\ s + (Len(toClient[c]) - k) = s
      BY <1>2, <2>1 DEF Fits
    <2>3. CASE fate # "arrives"
      <3>1. (Fits(c, k, s + (Len(toClient[c]) - k)))'
        BY <1>4, <1>6, <2>1, <2>2, <2>3 DEF Fits
      <3> QED BY <1>6, <2>1, <2>3, <3>1 DEF Lined
    <2>4. CASE fate = "arrives"
      <3>1. PICK m \in Messages : toClient'[c] = Append(toClient[c], m) /\ IsGreeting(m)
        BY <1>6, <2>4
      <3>2. Len(toClient'[c]) = Len(toClient[c]) + 1 /\ Shape(toClient'[c], k + 1, s)
        BY <1>2, <2>1, <2>2, <3>1, AppendFacts, ShapeOfAppend
      <3>3. k + 1 \in 0..Len(toClient'[c]) /\ s + (Len(toClient'[c]) - (k + 1)) = s
            /\ k + 1 = Len(toClient'[c])
        BY <1>2, <2>2, <3>2
      <3>4. (Fits(c, k + 1, s))'
        BY <1>4, <1>6, <1>8, <2>1, <2>2, <2>4, <3>3 DEF Fits
      <3> QED BY <3>2, <3>3, <3>4 DEF Lined
    <2> QED BY <2>3, <2>4
  <1>12. LineRight(c)'
    <2>1. CASE ~IsUp(c)
      BY <1>8, <2>1 DEF LineRight
    <2>2. CASE IsUp(c) /\ established
      BY <1>2, <1>3, <1>4, <1>11, <2>2 DEF LineRight
    <2>3. CASE IsUp(c) /\ ~established /\ toClient[c] = <<>>
      <3>1. fate = "arrives"
        BY <1>3, <1>4, <2>3 DEF LineRight, HeldRight, Fates
      <3>2. PICK m \in Messages :
               /\ toClient'[c] = Append(toClient[c], m) /\ IsGreeting(m)
               /\ m.needReload <=> ~seamless
               /\ m.missed = IF seamless THEN Kept(c, FirstNeeded(c, last)) ELSE {}
        BY <1>6, <3>1
      <3>3. toClient'[c] = <<m>>
        BY <2>3, <3>2
      <3>4. CASE ~seamless
        BY <1>4, <1>6, <2>3, <3>1, <3>2, <3>3, <3>4 DEF LineRight, Opens
      <3>5. CASE seamless
        <4>1. m.missed = missed[c] /\ Spans(m.missed, expected[c], nextSeqId[c])
              /\ expected[c] + Cardinality(m.missed) = nextSeqId[c]
          BY <1>9, <3>2, <3>5
        <4>2. Lined(c, nextSeqId[c])'
          <5>1. Len(toClient'[c]) = 1 /\ toClient'[c][1] = m
            BY <3>3
          <5>2. Shape(toClient'[c], 1, nextSeqId'[c])
            BY <3>2, <5>1 DEF Shape
          <5>3. (Fits(c, 1, nextSeqId[c] + (1 - 1)))'
            BY <1>2, <1>4, <1>6, <3>1, <5>1 DEF Fits
          <5> QED BY <5>1, <5>2, <5>3 DEF Lined
        <4>3. Opens(c, m)'
          BY <1>4, <2>3, <3>2, <3>5, <4>1, <4>2 DEF Opens
        <4> QED BY <1>4, <2>3, <3>3, <4>3 DEF LineRight
      <3> QED BY <3>4, <3>5
    <2>4. CASE IsUp(c) /\ ~established /\ toClient[c] # <<>>
      <3>1. Opens(c, toClient[c][1]) /\ toClient[c][1] \in Messages
        BY <1>2, <1>3, <2>4 DEF LineRight
      <3>2. PICK g \in Messages : g = toClient[c][1]
        BY <3>1
      <3>3. g = toClient'[c][1] /\ toClient'[c] # <<>>
        <4>1. CASE fate # "arrives"
          BY <1>6, <2>4, <3>2, <4>1
        <4>2. CASE fate = "arrives"
          <5>1. PICK m \in Messages : toClient'[c] = Append(toClient[c], m)
            BY <1>6, <4>2
          <5> QED BY <1>2, <2>4, <3>2, <5>1, AppendFacts, SMTT(60)
        <4> QED BY <4>1, <4>2
      <3>4. IsGreeting(g) /\ expected[c] + Cardinality(g.missed) \in Nat
        <4>1. IsGreeting(g)
          BY <3>1, <3>2 DEF Opens
        <4>2. IsFiniteSet(g.missed)
          BY <4>1, Kinds DEF Greetings, Bounded
        <4> QED BY <1>2, <4>1, <4>2, FS_CardinalityType
      <3>5. link[c] = "closing" => link'[c] = "closing"
        BY <1>6, <1>8
      <3>6. Opens(c, g)'
        BY <1>4, <1>11, <2>4, <3>1, <3>2, <3>4, <3>5 DEF Opens
      <3> QED BY <1>4, <2>4, <3>3, <3>6 DEF LineRight
    <2> QED BY <2>1, <2>2, <2>3, <2>4
  <1>13. PageRight' /\ inOrder' = TRUE
    BY <1>4 DEF OrderInv, PageRight
  <1>14. ASSUME NEW d \in Clients \ {c}
         PROVE  HeldRight(d)' /\ LineRight(d)'
    <2>1. HeldRight(d) /\ LineRight(d)
      BY DEF OrderInv
    <2>2. SameHeld(d) /\ SameWire(d) /\ (IsUp(d)' => d \in socket')
      BY <1>4, <1>6, <2>1 DEF SameHeld, SameWire, HeldRight, IsUp
    <2> QED BY <1>4, <2>1, <2>2, Unmoved
  <1> QED BY <1>10, <1>12, <1>13, <1>14 DEF OrderInv

LEMMA InitOrder == Init => OrderInv
  <1> SUFFICES ASSUME Init PROVE OrderInv
    OBVIOUS
  <1>1. OnceInv
    BY InitOnce
  <1>2. PageRight /\ inOrder = TRUE
    BY DEF Init, PageRight
  <1>3. ASSUME NEW c \in Clients PROVE HeldRight(c) /\ LineRight(c)
    BY DEF Init, HeldRight, LineRight, IsUp, Clients, Nobody, None
  <1> QED BY <1>1, <1>2, <1>3 DEF OrderInv

LEMMA NextOrder ==
    ASSUME ~EarlySends, OrderInv, [Next]_vars
    PROVE  OrderInv'
  <1> USE DEF serverFrame, clientVars, resumeVars, ghostVars, pageVars, connVars, wireVars
  <1>1. OnceInv'
    BY NextOnce DEF OrderInv
  <1>2. CASE UNCHANGED vars
    BY <1>1, <1>2, QuietOrder DEF vars
  <1>3. CASE PageActs
    <2>1. CASE MakeRequest
      BY <1>1, <2>1, QuietOrder DEF MakeRequest
    <2> QED BY <1>1, <1>3, <2>1, DialOrder, LeavingOrder, ReceivesOrder DEF PageActs
  <1>4. ASSUME NEW c \in Clients, ClientActs(c) PROVE OrderInv'
    <2>1. CASE Greets(c)
      BY <1>1, <2>1, ConnectSendsOrder
    <2>2. CASE ServerReceives(c)
      BY <1>1, <2>2, QuietOrder DEF ServerReceives
    <2>3. CASE Event(c)
      BY <1>1, <2>3, BodyFacts, SendOrder DEF Event
    <2>4. CASE ServerNoticesClose(c)
      BY <1>1, <2>4, QuietOrder DEF ServerNoticesClose, IsUp
    <2>5. CASE DestroyTimer(c)
      <3>1. \A d \in Clients : missed'[d] = missed[d] \/ missed'[d] = {}
        BY <2>5 DEF DestroyTimer, OrderInv, OnceInv, Types, HeldTypes
      <3> QED BY <1>1, <2>5, <3>1, QuietOrder DEF DestroyTimer
    <2>6. CASE Interrupt(c) \/ Cut(c) \/ CloseCompletes(c)
      BY <1>1, <2>6, HangsUpOrder DEF Interrupt, Cut, CloseCompletes
    <2> QED BY <1>4, <2>1, <2>2, <2>3, <2>4, <2>5, <2>6 DEF ClientActs
  <1>5. ASSUME NEW x \in running, Complete(x) PROVE OrderInv'
    <2>1. x.client \in Clients /\ x.life \in Lives /\ x.req \in ReqIds
      BY DEF OrderInv, OnceInv, Types, RunTypes
    <2> QED BY <1>1, <1>5, <2>1, BodyFacts, SendOrder DEF Complete
  <1> QED BY <1>2, <1>3, <1>4, <1>5 DEF Next

\* While no message is sent between a new connection and its greeting, a page
\* that was told neither to reload nor to stop has handled every message of its
\* Client, once and in order: gaps, windows and flags tell the server all that
\* it needs (getMissedMessages), wherever connections break.
THEOREM HandledInOrder ==
    ASSUME ~EarlySends
    PROVE  Spec => []MessagesInOrder
  <1>1. OrderInv => MessagesInOrder
    BY DEF OrderInv, MessagesInOrder
  <1>2. OrderInv /\ [Next]_vars => OrderInv'
    BY NextOrder
  <1> QED BY <1>1, <1>2, InitOrder, PTL DEF Spec

\* Nor does a page ever give up for a gap that the server did not see: it stops
\* reconnecting only for a reload.
THEOREM NeverGivesUp ==
    ASSUME ~EarlySends
    PROVE  Spec => []NeverStranded
  <1>1. OrderInv => NeverStranded
    BY DEF OrderInv, PageRight, NeverStranded, Stranded
  <1>2. OrderInv /\ [Next]_vars => OrderInv'
    BY NextOrder
  <1> QED BY <1>1, <1>2, InitOrder, PTL DEF Spec

-----------------------------------------------------------------------------
\* A page never waits for nothing

\* The numbered messages that a message brings; and those of c that are held or
\* on their way.
Carried(m) == IF IsGreeting(m) THEN m.missed ELSE {m}
Around(c) == missed[c] \cup UNION {Carried(toClient[c][i]) : i \in 1..Len(toClient[c])}

\* The answer to request r; and it is still to come: there is a number, of those
\* that the page should handle yet, that no other message has.
Answer(r) == [type |-> "response", life |-> life, req |-> r]
Owed(c, r) == \E n \in expected[c]..nextSeqId[c] - 1 :
                 \A m \in Around(c) : m.seqId = n => m.body = Answer(r)

\* Clients have been made before they are used, and a Client that is gone, or is
\* about to go, has no connection that works.
Made ==
    /\ \A c \in Clients : c \in socket \cup destroyed \cup doomed => c <= created
    /\ \A x \in running : x.client <= created
Ended == \A c \in destroyed \cup doomed : link[c] # "up"

SeqIdsBelow == \A c \in Clients : \A m \in Around(c) : m.seqId < nextSeqId[c]

\* The first connection of a page works until its clientConnect, and its Client
\* has read nothing.
FirstDial ==
    firstConnect =>
        /\ ~redials
        /\ \/ attached = Nobody
           \/ /\ IsUp(attached) /\ toClient[attached] # <<>>
              /\ lastReqId[attached] = None

\* What was not executed, its Client has not read; a greeting says what its Client
\* has read.
Unread ==
    ~firstConnect /\ ~reloading =>
        /\ clientId \in Clients
        /\ \A r \in ReqIds \ Executed :
              pending[r] \in {"none", "unsent", "sent"} => r > lastReqId[clientId]
SaysRead ==
    ~established =>
        \A c \in Clients : \A i \in 1..Len(toClient[c]) :
            IsGreeting(toClient[c][i]) /\ toClient[c][i].lastReqId # Unspoken
               => toClient[c][i].lastReqId = lastReqId[c]

\* A request that was sent and not executed is on its way, or was lost with a
\* connection that does not work any more.
OnWire ==
    established =>
        \A r \in Awaited \ Executed :
            \/ \E i \in 1..Len(toServer[attached]) : toServer[attached][i].req = r
            \/ /\ link[attached] # "up"
               /\ \A i \in 1..Len(toServer[attached]) : toServer[attached][i].req < r

\* A request that was executed, and has no answer, is being executed, or its
\* answer is to come; unless the Client is gone.
Accounted ==
    \A r \in Awaited \cap Executed :
        /\ clientId \in Clients
        /\ \/ [client |-> clientId, life |-> life, req |-> r] \in running
           \/ clientId \in destroyed
           \/ Owed(clientId, r)

WaitParts == /\ Made /\ Ended /\ SeqIdsBelow /\ FirstDial
             /\ Unread /\ SaysRead /\ OnWire /\ Accounted
WaitInv == OrderInv /\ WaitParts

\* What is around a Client, and the types of it.
LEMMA AroundFacts ==
    ASSUME Types, NEW c \in Clients
    PROVE  /\ Around(c) \subseteq Numbered
           /\ \A i \in 1..Len(toClient[c]) : Carried(toClient[c][i]) \subseteq Around(c)
           /\ missed[c] \subseteq Around(c)
           /\ toClient[c] = <<>> => Around(c) = missed[c]
  <1>1. missed[c] \subseteq Numbered /\ toClient[c] \in Seq(Messages)
    BY DEF Types, HeldTypes, WireTypes
  <1>2. \A i \in 1..Len(toClient[c]) : Carried(toClient[c][i]) \subseteq Numbered
    <2> SUFFICES ASSUME NEW i \in 1..Len(toClient[c])
                 PROVE  Carried(toClient[c][i]) \subseteq Numbered
      OBVIOUS
    <2>1. PICK m \in Messages : m = toClient[c][i]
      BY <1>1
    <2>2. Carried(m) \subseteq Numbered
      BY Kinds DEF Carried, Greetings
    <2> QED BY <2>1, <2>2
  <1>3. \A i \in 1..Len(toClient[c]) : Carried(toClient[c][i]) \subseteq Around(c)
    BY DEF Around
  <1>4. Around(c) \subseteq Numbered
    BY <1>1, <1>2 DEF Around
  <1>5. missed[c] \subseteq Around(c)
    BY DEF Around
  <1>6. toClient[c] = <<>> => Around(c) = missed[c]
    BY DEF Around
  <1> QED BY <1>3, <1>4, <1>5, <1>6

\* What is around a Client does not grow when nothing is added to what it holds,
\* nor to its queue.
LEMMA AroundShrinks ==
    ASSUME NEW c \in Clients, missed'[c] \subseteq missed[c],
           \A i \in 1..Len(toClient'[c]) : Carried(toClient'[c][i]) \subseteq Around(c)
    PROVE  Around(c)' \subseteq Around(c)
  <1> SUFFICES ASSUME NEW m \in Around(c)' PROVE m \in Around(c)
    OBVIOUS
  <1>1. m \in missed'[c] \/ \E i \in 1..Len(toClient'[c]) : m \in Carried(toClient'[c][i])
    BY DEF Around
  <1>2. m \in missed[c] => m \in Around(c)
    BY DEF Around
  <1> QED BY <1>1, <1>2

\* Then what is owed stays owed.
LEMMA OwedStays ==
    ASSUME NEW c \in Clients, NEW r, Owed(c, r), Around(c)' \subseteq Around(c),
           UNCHANGED <<life, nextSeqId>>, expected'[c] = expected[c]
    PROVE  Owed(c, r)'
  BY DEF Owed, Answer

LEMMA InitWait == Init => WaitInv
  <1> SUFFICES ASSUME Init PROVE WaitInv
    OBVIOUS
  <1>1. OrderInv
    BY InitOrder
  <1>2. /\ \A c \in Clients : toClient[c] = <<>> /\ missed[c] = {}
        /\ \A r \in ReqIds : pending[r] = "none"
    BY DEF Init
  <1>3. Awaited = {} /\ \A c \in Clients : Around(c) = {}
    <2>1. \A c \in Clients : Around(c) = missed[c]
      BY <1>1, <1>2, AroundFacts DEF OrderInv, OnceInv
    <2> QED BY <1>2, <2>1 DEF Awaited
  <1>4. Made /\ Ended /\ SeqIdsBelow
    BY <1>3 DEF Init, Made, Ended, SeqIdsBelow
  <1>5. FirstDial /\ Unread /\ SaysRead /\ OnWire /\ Accounted
    BY <1>2, <1>3 DEF Init, FirstDial, Unread, SaysRead, OnWire, Accounted
  <1> QED BY <1>1, <1>4, <1>5 DEF WaitInv, WaitParts

\* Steps that touch nothing of this, but that a Client may hold less, or forget its
\* websocket, or go; and that a connection which is not a first one may end.
LEMMA CalmWait ==
    ASSUME WaitInv, OrderInv',
           UNCHANGED <<pageVars, created, nextSeqId, lastReqId, running, expected, executions>>,
           socket' \subseteq socket,
           \A c \in Clients :
              /\ missed'[c] \subseteq missed[c]
              /\ c \in destroyed => c \in destroyed'
              /\ c \in (destroyed' \cup doomed') \ (destroyed \cup doomed)
                    => c <= created /\ link'[c] # "up"
              /\ \/ link'[c] = link[c] /\ toServer'[c] = toServer[c] /\ toClient'[c] = toClient[c]
                 \/ /\ link'[c] = "down" /\ toServer'[c] = <<>> /\ toClient'[c] = <<>>
                    /\ ~(firstConnect /\ attached = c)
    PROVE  WaitInv'
  <1> USE DEF pageVars, connVars
  <1>1. Types /\ Types'
    BY DEF WaitInv, OrderInv, OnceInv
  <1>2. Executed' = Executed /\ Awaited' = Awaited
    BY DEF Executed, Awaited
  <1>3. ASSUME NEW c \in Clients PROVE Around(c)' \subseteq Around(c)
    <2>1. CASE toClient'[c] = toClient[c]
      BY <1>1, <2>1, AroundFacts, AroundShrinks
    <2>2. CASE toClient'[c] = <<>>
      BY <2>2, AroundShrinks
    <2> QED BY <2>1, <2>2
  <1>4. Made' /\ Ended'
    BY <1>1 DEF WaitInv, WaitParts, Made, Ended, Types, ClientTypes
  <1>5. SeqIdsBelow'
    BY <1>3 DEF WaitInv, WaitParts, SeqIdsBelow
  <1>6. attached \in Clients \cup {Nobody}
    BY <1>1 DEF Types, PageTypes
  <1>7. FirstDial'
    BY <1>6 DEF WaitInv, WaitParts, FirstDial, IsUp
  <1>8. Unread' /\ SaysRead'
    BY <1>2 DEF WaitInv, WaitParts, Unread, SaysRead
  <1>9. OnWire'
    <2>1. established => attached \in Clients
      BY DEF WaitInv, OrderInv, OnceInv, Established
    <2> QED BY <1>2, <2>1 DEF WaitInv, WaitParts, OnWire
  <1>10. Accounted'
    <2> SUFFICES ASSUME NEW r \in Awaited \cap Executed
                 PROVE  /\ clientId \in Clients
                        /\ \/ [client |-> clientId, life |-> life, req |-> r] \in running
                           \/ clientId \in destroyed'
                           \/ Owed(clientId, r)'
      BY <1>2 DEF Accounted
    <2>1. /\ clientId \in Clients
          /\ \/ [client |-> clientId, life |-> life, req |-> r] \in running
             \/ clientId \in destroyed
             \/ Owed(clientId, r)
      BY DEF WaitInv, WaitParts, Accounted
    <2>2. PICK c \in Clients : c = clientId
      BY <2>1
    <2>3. Owed(c, r) => Owed(c, r)'
      BY <1>3, OwedStays
    <2> QED BY <2>1, <2>2, <2>3 DEF Owed, Around
  <1> QED BY <1>4, <1>5, <1>7, <1>8, <1>9, <1>10 DEF WaitInv, WaitParts

\* The page has no connection any more: nothing is on its way.
LEMMA DetachesWait ==
    ASSUME WaitInv, OrderInv', Detaches,
           UNCHANGED <<socket, destroyed, doomed, nextSeqId, missed, expected, running>>,
           firstConnect' => ~redials',
           \/ UNCHANGED <<life, clientId, pending, firstConnect, reloading>>
           \/ Awaited' = {} /\ (firstConnect' \/ reloading')
    PROVE  WaitInv'
  <1>1. OnceInv /\ Types'
    BY DEF WaitInv, OrderInv, OnceInv
  <1>2. \A c \in Clients : ~IsUp(c)' /\ toServer'[c] = <<>> /\ toClient'[c] = <<>>
    BY <1>1, DetachedWires
  <1>3. UNCHANGED <<created, lastReqId, executions>> /\ attached' = Nobody /\ ~established'
    BY DEF Detaches
  <1>4. \A c \in Clients : Around(c)' \subseteq Around(c)
    BY <1>2, AroundShrinks
  <1>5. Made' /\ Ended'
    BY <1>1, <1>2, <1>3 DEF WaitInv, WaitParts, Made, Ended, IsUp, Types, ClientTypes
  <1>6. SeqIdsBelow'
    BY <1>4 DEF WaitInv, WaitParts, SeqIdsBelow
  <1>7. FirstDial' /\ SaysRead' /\ OnWire'
    BY <1>2, <1>3 DEF FirstDial, SaysRead, OnWire
  <1>8. CASE Awaited' = {} /\ (firstConnect' \/ reloading')
    BY <1>5, <1>6, <1>7, <1>8 DEF WaitInv, WaitParts, Unread, Accounted
  <1>9. CASE UNCHANGED <<life, clientId, pending, firstConnect, reloading>>
    <2>1. Executed' = Executed /\ Awaited' = Awaited
      BY <1>3, <1>9 DEF Executed, Awaited
    <2>2. Unread'
      BY <1>3, <1>9, <2>1 DEF WaitInv, WaitParts, Unread
    <2>3. Accounted'
      <3> SUFFICES ASSUME NEW r \in Awaited \cap Executed
                   PROVE  /\ clientId' \in Clients
                          /\ \/ [client |-> clientId', life |-> life', req |-> r] \in running'
                             \/ clientId' \in destroyed'
                             \/ Owed(clientId, r)'
        BY <2>1 DEF Accounted
      <3>1. /\ clientId \in Clients
            /\ \/ [client |-> clientId, life |-> life, req |-> r] \in running
               \/ clientId \in destroyed
               \/ Owed(clientId, r)
        BY DEF WaitInv, WaitParts, Accounted
      <3>2. PICK c \in Clients : c = clientId
        BY <3>1
      <3>3. Owed(c, r) => Owed(c, r)'
        BY <1>4, <1>9, OwedStays
      <3> QED BY <1>9, <3>1, <3>2, <3>3 DEF Owed, Around
    <2> QED BY <1>5, <1>6, <1>7, <2>2, <2>3 DEF WaitInv, WaitParts
  <1> QED BY <1>8, <1>9

\* No first connection ends without the page having been greeted.
LEMMA LeavingWait ==
    ASSUME ~FirstDialLost, WaitInv, OrderInv', PageNoticesClose \/ DialFails \/ ReloadPane \/ ReloadPage
    PROVE  WaitInv'
  <1> USE DEF clientVars, resumeVars, ghostVars
  <1>1. OnceInv /\ \A c \in Clients : c # Nobody
    BY DEF WaitInv, OrderInv, Clients, Nobody
  <1>2. CASE PageNoticesClose
    <2>1. attached \in Clients /\ link[attached] = "down" /\ ~IsUp(attached)
      BY <1>1, <1>2 DEF PageNoticesClose, OnceInv, Types, PageTypes, IsUp
    <2>2. toServer[attached] = <<>> /\ toClient[attached] = <<>>
      BY <1>1, <2>1 DEF OnceInv, Wires
    <2>3. HangsUp(attached)
      BY <1>1, <1>2, <2>1, <2>2
         DEF PageNoticesClose, HangsUp, wireVars, OnceInv, Types, WireTypes
    <2>4. Detaches
      BY <1>2, <2>3 DEF Detaches, PageNoticesClose
    <2>5. ~firstConnect
      BY <1>1, <2>1 DEF WaitInv, WaitParts, FirstDial
    <2> QED BY <1>2, <2>4, <2>5, DetachesWait DEF PageNoticesClose
  <1>3. CASE DialFails
    <2>1. ~established /\ attached = Nobody
      BY <1>1, <1>3 DEF DialFails, OnceInv, Established
    <2>2. Detaches
      BY <1>3, <2>1 DEF Detaches, DialFails
    <2>3. ~firstConnect
      BY <1>3, <2>1 DEF DialFails, MayBreak, WaitInv, WaitParts, FirstDial
    <2> QED BY <1>3, <2>2, <2>3, DetachesWait DEF DialFails
  <1>4. CASE ReloadPane \/ ReloadPage
    <2>1. FreshConnection /\ missed' = missed
      BY <1>4 DEF ReloadPane, ReloadPage, FreshConnection
    <2>2. Detaches
      BY <2>1 DEF Detaches, FreshConnection
    <2>3. Awaited' = {}
      BY <1>1, <1>4 DEF Awaited, ReloadPane, ReloadPage, OnceInv, Types, PageTypes
    <2> QED BY <2>1, <2>2, <2>3, DetachesWait DEF FreshConnection
  <1> QED BY <1>2, <1>3, <1>4

\* A new request has not been read by anybody, and is on its way or waits for a
\* connection.
LEMMA MakeRequestWait ==
    ASSUME WaitInv, OrderInv', MakeRequest
    PROVE  WaitInv'
  <1> USE DEF connVars, clientVars, resumeVars, ghostVars
  <1>1. OnceInv /\ Types
    BY DEF WaitInv, OrderInv, OnceInv
  <1>2. /\ nextReqId \in ReqIds
        /\ pending' = [pending EXCEPT ![nextReqId] = IF established THEN "sent" ELSE "unsent"]
        /\ IF established THEN Transmits(attached, <<nextReqId>>) ELSE UNCHANGED toServer
        /\ UNCHANGED <<life, attached, clientId, established, redials, firstConnect, reloading,
                       link, toClient, created, socket, destroyed, doomed, nextSeqId, missed,
                       lastReqId, running, expected, executions>>
    <2>1. nextReqId \in ReqIds
      BY <1>1 DEF MakeRequest, Types, PageTypes, ReqIds
    <2> QED BY <2>1 DEF MakeRequest
  <1>3. pending[nextReqId] = "none" /\ nextReqId \notin Executed /\ Executed' = Executed
    <2>1. pending[nextReqId] = "none"
      BY <1>1, <1>2 DEF OnceInv, NumbersRight, ReqIds
    <2>2. Executed' = Executed
      BY <1>2 DEF Executed
    <2> QED BY <1>1, <2>1, <2>2 DEF OnceInv, OnceSoFar
  <1>4. \A r \in ReqIds : pending'[r] = IF r # nextReqId THEN pending[r]
                                        ELSE IF established THEN "sent" ELSE "unsent"
    BY <1>1, <1>2 DEF Types, PageTypes
  <1>5. Executed' \cap Awaited' = Executed \cap Awaited
    BY <1>3, <1>4 DEF Awaited
  <1>6. Made' /\ Ended' /\ SeqIdsBelow' /\ FirstDial' /\ SaysRead' /\ Accounted'
    BY <1>2, <1>5 DEF WaitInv, WaitParts, Made, Ended, SeqIdsBelow, FirstDial, SaysRead, Accounted,
       Around, Owed, Answer, IsUp
  <1>7. Unread'
    <2>1. ASSUME NEW r \in ReqIds \ Executed, pending'[r] \in {"none", "unsent", "sent"}
          PROVE  pending[r] \in {"none", "unsent", "sent"}
      BY <1>3, <1>4, <2>1
    <2> QED BY <1>2, <1>3, <2>1 DEF WaitInv, WaitParts, Unread
  <1>8. OnWire'
    <2> SUFFICES ASSUME established, NEW r \in Awaited' \ Executed
                 PROVE  \/ \E i \in 1..Len(toServer'[attached]) : toServer'[attached][i].req = r
                        \/ /\ link[attached] # "up"
                           /\ \A i \in 1..Len(toServer'[attached]) : toServer'[attached][i].req < r
      BY <1>2, <1>3 DEF OnWire
    <2>0. PICK c \in Clients : c = attached
      BY <1>1 DEF OnceInv, Established
    <2>1. /\ link[c] # "up" => toServer' = toServer
          /\ link[c] = "up" =>
                /\ Len(toServer'[c]) = Len(toServer[c]) + 1
                /\ \A i \in 1..Len(toServer'[c]) :
                      toServer'[c][i] = IF i <= Len(toServer[c]) THEN toServer[c][i]
                                        ELSE [life |-> life, req |-> <<nextReqId>>[i - Len(toServer[c])]]
      <3>1. <<nextReqId>> \in Seq(ReqIds) /\ Len(<<nextReqId>>) = 1
        BY <1>2
      <3> QED BY <1>1, <1>2, <2>0, <3>1, TransmitsFacts
    <2>2. toServer[c] \in Seq(Requests) /\ Len(toServer[c]) \in Nat
      BY <1>1 DEF Types, WireTypes
    <2>3. CASE r = nextReqId
      <3>1. CASE link[c] = "up"
        <4>1. /\ Len(toServer[c]) + 1 \in 1..Len(toServer'[c])
              /\ ~(Len(toServer[c]) + 1 <= Len(toServer[c]))
              /\ (Len(toServer[c]) + 1) - Len(toServer[c]) = 1
          BY <2>1, <2>2, <3>1
        <4>2. toServer'[c][Len(toServer[c]) + 1] = [life |-> life, req |-> <<nextReqId>>[1]]
          BY <2>1, <3>1, <4>1
        <4>3. toServer'[c][Len(toServer[c]) + 1].req = nextReqId
          BY <4>2
        <4> QED BY <2>0, <2>3, <4>1, <4>3
      <3>2. CASE link[c] # "up"
        <4>1. ASSUME NEW i \in 1..Len(toServer[c]) PROVE toServer[c][i].req < nextReqId
          <5>1. toServer[c][i].req \in ReqIds /\ pending[toServer[c][i].req] # "none"
            BY <1>1, QueuedFacts DEF OnceInv, QueueRight
          <5> QED BY <1>1, <1>2, <5>1 DEF OnceInv, NumbersRight, ReqIds
        <4> QED BY <2>0, <2>1, <2>3, <3>2, <4>1
      <3> QED BY <3>1, <3>2
    <2>4. CASE r # nextReqId
      <3>1. r \in Awaited
        BY <1>4, <2>4 DEF Awaited
      <3>2. \/ \E i \in 1..Len(toServer[c]) : toServer[c][i].req = r
            \/ /\ link[c] # "up"
               /\ \A i \in 1..Len(toServer[c]) : toServer[c][i].req < r
        BY <2>0, <3>1 DEF WaitInv, WaitParts, OnWire
      <3>3. ASSUME link[c] = "up", NEW i \in 1..Len(toServer[c])
            PROVE  i \in 1..Len(toServer'[c]) /\ toServer'[c][i] = toServer[c][i]
        <4>1. i <= Len(toServer[c]) /\ i \in 1..Len(toServer'[c])
          BY <2>1, <2>2, <3>3
        <4> QED BY <2>1, <3>3, <4>1
      <3> QED BY <2>0, <2>1, <3>2, <3>3
    <2> QED BY <2>3, <2>4
  <1> QED BY <1>6, <1>7, <1>8 DEF WaitInv, WaitParts

\* The server reads a request, which is then being executed.
LEMMA ServerReceivesWait ==
    ASSUME WaitInv, OrderInv', NEW c \in Clients, ServerReceives(c)
    PROVE  WaitInv'
  <1> USE DEF serverFrame, pageVars, connVars
  <1>1. OnceInv /\ Types
    BY DEF WaitInv, OrderInv, OnceInv
  <1>2. /\ toServer[c] \in Seq(Requests) /\ toServer[c] # <<>> /\ Len(toServer[c]) \in Nat
        /\ established /\ c = attached /\ c = clientId /\ ~firstConnect
    BY <1>1 DEF ServerReceives, Types, WireTypes, OnceInv, Wires, Established
  <1>3. PICK h : h = Head(toServer[c])
    OBVIOUS
  <1>4. /\ h = toServer[c][1] /\ 1 \in 1..Len(toServer[c]) /\ h.life = life /\ h.req \in ReqIds
        /\ Len(Tail(toServer[c])) = Len(toServer[c]) - 1
        /\ \A i \in 1..Len(Tail(toServer[c])) :
              Tail(toServer[c])[i] = toServer[c][i + 1] /\ i + 1 \in 1..Len(toServer[c])
        /\ pending[h.req] \notin {"none", "unsent"}
        /\ \A j \in 1..Len(toServer[c]) : 1 < j => h.req < toServer[c][j].req
    <2>1. /\ h = toServer[c][1] /\ 1 \in 1..Len(toServer[c])
          /\ Len(Tail(toServer[c])) = Len(toServer[c]) - 1
          /\ \A i \in 1..Len(Tail(toServer[c])) :
                Tail(toServer[c])[i] = toServer[c][i + 1] /\ i + 1 \in 1..Len(toServer[c])
      BY <1>2, <1>3, TailFacts
    <2> QED BY <1>1, <2>1, QueuedFacts DEF OnceInv, QueueRight
  <1>5. /\ lastReqId' = [lastReqId EXCEPT ![c] = h.req]
        /\ running' = running \cup {[client |-> c, life |-> h.life, req |-> h.req]}
        /\ executions' = [executions EXCEPT ![h.life][h.req] = @ + 1]
        /\ toServer' = [toServer EXCEPT ![c] = Tail(@)]
        /\ UNCHANGED <<life, attached, clientId, established, redials, firstConnect, reloading,
                       nextReqId, pending, link, toClient, created, socket, destroyed, doomed,
                       nextSeqId, missed, expected>>
    BY <1>3 DEF ServerReceives
  <1>6. life \in Lives /\ executions \in [Lives -> [ReqIds -> Nat]]
        /\ lastReqId \in [Clients -> ReqIds \cup {None}] /\ toServer \in [Clients -> Seq(Requests)]
    BY <1>1 DEF Types, PageTypes, RunTypes, ClientTypes, WireTypes
  <1>7. Executed' = Executed \cup {h.req} /\ Awaited' = Awaited
    <2>1. \A r \in ReqIds : executions'[life][r] = IF r = h.req THEN executions[life][r] + 1
                                                   ELSE executions[life][r]
      BY <1>4, <1>5, <1>6
    <2> QED BY <1>4, <1>5, <1>6, <2>1 DEF Executed, Awaited
  <1>8. lastReqId'[c] = h.req /\ toServer'[c] = Tail(toServer[c])
    BY <1>5, <1>6
  <1>9. Made'
    BY <1>1, <1>2, <1>5 DEF WaitInv, WaitParts, Made, OnceInv, Established
  <1>10. Ended' /\ SeqIdsBelow' /\ FirstDial' /\ SaysRead'
    BY <1>2, <1>5 DEF WaitInv, WaitParts, Ended, SeqIdsBelow, FirstDial, SaysRead, Around
  <1>11. ASSUME NEW r \in ReqIds \ Executed', pending[r] \in {"none", "unsent", "sent"}
         PROVE  /\ r > h.req
                /\ r \in Awaited => \/ \E j \in 1..Len(toServer[c]) : 1 < j /\ toServer[c][j].req = r
                                    \/ /\ link[c] # "up"
                                       /\ \A i \in 1..Len(toServer[c]) : toServer[c][i].req < r
    <2>1. r \in ReqIds \ Executed /\ r # h.req
      BY <1>7, <1>11
    <2>2. CASE pending[r] = "none"
      BY <1>1, <1>4, <2>1, <2>2 DEF OnceInv, NumbersRight, ReqIds, Awaited, Types, PageTypes
    <2>3. CASE pending[r] = "unsent"
      BY <1>1, <1>2, <2>1, <2>3 DEF OnceInv, NumbersRight
    <2>4. CASE pending[r] = "sent"
      <3>1. r \in Awaited \ Executed
        BY <2>1, <2>4 DEF Awaited
      <3>2. \/ \E i \in 1..Len(toServer[c]) : toServer[c][i].req = r
            \/ /\ link[c] # "up"
               /\ \A i \in 1..Len(toServer[c]) : toServer[c][i].req < r
        BY <1>2, <3>1 DEF WaitInv, WaitParts, OnWire
      <3>3. \A i \in 1..Len(toServer[c]) : toServer[c][i].req = r => 1 < i
        BY <1>2, <1>4, <2>1
      <3> QED BY <1>4, <2>1, <3>2, <3>3 DEF ReqIds
    <2> QED BY <1>11, <2>2, <2>3, <2>4
  <1>12. Unread'
    BY <1>2, <1>5, <1>8, <1>11 DEF Unread
  <1>13. OnWire'
    <2> SUFFICES ASSUME NEW r \in Awaited \ Executed'
                 PROVE  \/ \E i \in 1..Len(toServer'[c]) : toServer'[c][i].req = r
                        \/ /\ link[c] # "up"
                           /\ \A i \in 1..Len(toServer'[c]) : toServer'[c][i].req < r
      BY <1>2, <1>5, <1>7 DEF OnWire
    <2>1. \/ \E j \in 1..Len(toServer[c]) : 1 < j /\ toServer[c][j].req = r
          \/ /\ link[c] # "up"
             /\ \A i \in 1..Len(toServer[c]) : toServer[c][i].req < r
      BY <1>11 DEF Awaited
    <2>2. ASSUME NEW j \in 1..Len(toServer[c]), 1 < j
          PROVE  j - 1 \in 1..Len(toServer'[c]) /\ toServer'[c][j - 1] = toServer[c][j]
      <3>1. j - 1 \in 1..Len(Tail(toServer[c])) /\ (j - 1) + 1 = j
        BY <1>2, <1>4, <2>2
      <3> QED BY <1>4, <1>8, <3>1
    <2>3. (\A i \in 1..Len(toServer[c]) : toServer[c][i].req < r)
             => \A i \in 1..Len(toServer'[c]) : toServer'[c][i].req < r
      BY <1>4, <1>8
    <2> QED BY <2>1, <2>2, <2>3
  <1>14. Accounted'
    <2> SUFFICES ASSUME NEW r \in Awaited \cap Executed'
                 PROVE  \/ [client |-> c, life |-> life, req |-> r] \in running'
                        \/ c \in destroyed
                        \/ Owed(c, r)'
      BY <1>2, <1>5, <1>7 DEF Accounted, Owed
    <2>1. CASE r = h.req
      BY <1>4, <1>5, <2>1
    <2>2. CASE r \in Executed
      <3>1. \/ [client |-> c, life |-> life, req |-> r] \in running
            \/ c \in destroyed
            \/ Owed(c, r)
        BY <1>2, <2>2 DEF WaitInv, WaitParts, Accounted
      <3>2. Around(c)' = Around(c)
        BY <1>5 DEF Around
      <3>3. Owed(c, r) => Owed(c, r)'
        BY <1>5, <3>2, OwedStays
      <3> QED BY <1>5, <3>1, <3>3
    <2> QED BY <1>7, <2>1, <2>2
  <1> QED BY <1>9, <1>10, <1>12, <1>13, <1>14 DEF WaitInv, WaitParts

\* A message that is sent has a number of its own: if it is the answer to a
\* request, that answer is to come.
LEMMA SendWait ==
    ASSUME WaitInv, OrderInv', NEW c \in Clients, c <= created, NEW body \in Bodies, Send(c, body),
           UNCHANGED <<pageVars, link, toServer, created, socket, resumeVars, greeting, expected,
                       executions>>,
           running' \subseteq running,
           \A x \in running \ running' :
              x.client = c /\ body = [type |-> "response", life |-> x.life, req |-> x.req]
    PROVE  WaitInv'
  <1> USE DEF pageVars, connVars, resumeVars
  <1>1. OnceInv /\ Types /\ Types'
    BY DEF WaitInv, OrderInv, OnceInv
  <1>2. Executed' = Executed /\ Awaited' = Awaited
    BY DEF Executed, Awaited
  <1>3. /\ \A d \in Clients : /\ d # c \/ c \in destroyed => Around(d)' \subseteq Around(d)
                              /\ d # c \/ c \in destroyed => nextSeqId'[d] = nextSeqId[d]
                              /\ d \in destroyed => d \in destroyed'
                              /\ d \in (destroyed' \cup doomed') \ (destroyed \cup doomed)
                                    => d = c /\ link[c] # "up"
        /\ c \notin destroyed =>
              /\ nextSeqId'[c] = nextSeqId[c] + 1
              /\ \A m \in Around(c)' : \/ m \in Around(c)
                                       \/ m = [seqId |-> nextSeqId[c], body |-> body]
        /\ \A d \in Clients : \A i \in 1..Len(toClient'[d]) : IsGreeting(toClient'[d][i])
             => i \in 1..Len(toClient[d]) /\ toClient'[d][i] = toClient[d][i]
        /\ \A d \in Clients : toClient[d] # <<>> => toClient'[d] # <<>>
    <2>1. CASE c \in destroyed
      BY <2>1 DEF Send, Around
    <2>2. CASE c \notin destroyed
      <3> DEFINE m == [seqId |-> nextSeqId[c], body |-> body]
      <3>1. PICK fate \in Fates(c) :
              LET full == fate = "fails" /\ Cardinality(missed[c]) >= MaxMissed
              IN  /\ nextSeqId' = [nextSeqId EXCEPT ![c] = @ + 1]
                  /\ toClient' = IF fate = "arrives"
                                 THEN [toClient EXCEPT ![c] = Append(@, m)] ELSE toClient
                  /\ missed' = IF full THEN [missed EXCEPT ![c] = {}]
                               ELSE IF fate = "fails"
                                    THEN [missed EXCEPT ![c] = @ \cup {m}]
                                    ELSE missed
                  /\ destroyed' = IF full THEN destroyed \cup {c} ELSE destroyed
                  /\ doomed' = IF full THEN doomed \ {c} ELSE doomed
        BY <2>2 DEF Send
      <3>2. m \in Messages /\ m \in Numbered /\ ~IsGreeting(m)
        BY <1>1 DEF Messages, Numbered, IsGreeting, Types, HeldTypes
      <3> HIDE DEF m
      <3>3. /\ toClient[c] \in Seq(Messages) /\ toClient \in [Clients -> Seq(Messages)]
            /\ nextSeqId \in [Clients -> Nat] /\ missed \in [Clients -> SUBSET Numbered]
        BY <1>1 DEF Types, WireTypes, HeldTypes
      <3>4. /\ \A d \in Clients \ {c} : /\ toClient'[d] = toClient[d] /\ missed'[d] = missed[d]
                                        /\ nextSeqId'[d] = nextSeqId[d]
            /\ nextSeqId'[c] = nextSeqId[c] + 1
            /\ \A n \in missed'[c] : n \in missed[c] \/ n = m
            /\ toClient'[c] = toClient[c] \/ toClient'[c] = Append(toClient[c], m)
        BY <3>1, <3>3
      <3>5. fate = "fails" => link[c] # "up"
        <4>1. IsUp(c) => c \in socket
          BY DEF WaitInv, OrderInv, HeldRight
        <4> QED BY <3>1, <4>1 DEF Fates, IsUp
      <3>6. ASSUME NEW i \in 1..Len(toClient'[c])
            PROVE  \/ i \in 1..Len(toClient[c]) /\ toClient'[c][i] = toClient[c][i]
                   \/ toClient'[c][i] = m
        <4>1. Len(toClient[c]) \in Nat
          BY <3>3
        <4> QED BY <3>2, <3>3, <3>4, <4>1, AppendFacts
      <3>7. \A n \in Around(c)' : n \in Around(c) \/ n = m
        <4> SUFFICES ASSUME NEW n \in Around(c)' PROVE n \in Around(c) \/ n = m
          OBVIOUS
        <4>1. n \in missed'[c] \/ \E i \in 1..Len(toClient'[c]) : n \in Carried(toClient'[c][i])
          BY DEF Around
        <4>2. CASE n \in missed'[c]
          BY <3>4, <4>2 DEF Around
        <4>3. ASSUME NEW i \in 1..Len(toClient'[c]), n \in Carried(toClient'[c][i])
              PROVE  n \in Around(c) \/ n = m
          <5>1. CASE i \in 1..Len(toClient[c]) /\ toClient'[c][i] = toClient[c][i]
            BY <1>1, <4>3, <5>1, AroundFacts
          <5>2. CASE toClient'[c][i] = m
            BY <3>2, <4>3, <5>2 DEF Carried
          <5> QED BY <3>6, <5>1, <5>2
        <4> QED BY <4>1, <4>2, <4>3
      <3>8. \A d \in Clients \ {c} : Around(d)' \subseteq Around(d)
        BY <3>4 DEF Around
      <3>9. \A d \in Clients : \A i \in 1..Len(toClient'[d]) : IsGreeting(toClient'[d][i])
               => i \in 1..Len(toClient[d]) /\ toClient'[d][i] = toClient[d][i]
        BY <3>2, <3>4, <3>6
      <3>10. \A d \in Clients : toClient[d] # <<>> => toClient'[d] # <<>>
        BY <3>2, <3>3, <3>4, AppendNotEmpty
      <3> QED BY <2>2, <3>1, <3>4, <3>5, <3>7, <3>8, <3>9, <3>10 DEF m
    <2> QED BY <2>1, <2>2
  <1>4. /\ expected[c] \in Nat /\ nextSeqId[c] \in Nat /\ expected[c] <= nextSeqId[c]
        /\ \A m \in Around(c) : m.seqId < nextSeqId[c] /\ m.seqId \in Nat
    <2>1. \A m \in Around(c) : m.seqId \in Nat
      BY <1>1, AroundFacts, Kinds
    <2> QED BY <1>1, <2>1 DEF WaitInv, WaitParts, SeqIdsBelow, OrderInv, HeldRight,
           Types, HeldTypes, RunTypes
  <1>5. Made' /\ Ended'
    BY <1>1, <1>3 DEF WaitInv, WaitParts, Made, Ended, Types, ClientTypes
  <1>6. SeqIdsBelow'
    <2> SUFFICES ASSUME NEW d \in Clients, NEW m \in Around(d)' PROVE m.seqId < nextSeqId'[d]
      BY DEF SeqIdsBelow
    <2>1. CASE d # c \/ c \in destroyed
      BY <1>3, <2>1 DEF WaitInv, WaitParts, SeqIdsBelow
    <2>2. CASE d = c /\ c \notin destroyed
      BY <1>3, <1>4, <2>2
    <2> QED BY <2>1, <2>2
  <1>7. FirstDial' /\ Unread' /\ OnWire'
    <2>1. attached \in Clients \cup {Nobody}
      BY <1>1 DEF Types, PageTypes
    <2> QED BY <1>2, <1>3, <2>1 DEF WaitInv, WaitParts, FirstDial, Unread, OnWire, IsUp
  <1>8. SaysRead'
    BY <1>3 DEF WaitInv, WaitParts, SaysRead
  <1>9. ASSUME NEW d \in Clients, NEW r, Owed(d, r), d \notin destroyed PROVE Owed(d, r)'
    <2>1. CASE d # c \/ c \in destroyed
      BY <1>3, <1>9, <2>1 DEF Owed, Answer
    <2>2. CASE d = c /\ c \notin destroyed
      <3>1. PICK n \in expected[c]..nextSeqId[c] - 1 :
               \A m \in Around(c) : m.seqId = n => m.body = Answer(r)
        BY <1>9, <2>2 DEF Owed
      <3>2. n \in expected'[c]..nextSeqId'[c] - 1 /\ n # nextSeqId[c]
        BY <1>3, <1>4, <2>2
      <3>3. \A m \in Around(c)' : m.seqId = n => m.body = Answer(r)
        BY <1>3, <2>2, <3>1, <3>2
      <3>4. Answer(r)' = Answer(r)
        BY DEF Answer
      <3> QED BY <2>2, <3>2, <3>3, <3>4 DEF Owed
    <2> QED BY <2>1, <2>2
  <1>10. ASSUME NEW r \in ReqIds, [client |-> c, life |-> life, req |-> r] \in running \ running',
                c \notin destroyed
         PROVE  Owed(c, r)'
    <2>1. body = Answer(r)'
      BY <1>10 DEF Answer
    <2>2. \A m \in Around(c)' : m.seqId = nextSeqId[c] => m.body = Answer(r)'
      BY <1>3, <1>4, <1>10, <2>1
    <2>3. nextSeqId[c] \in expected'[c]..nextSeqId'[c] - 1
      BY <1>3, <1>4, <1>10
    <2> QED BY <2>2, <2>3 DEF Owed
  <1>11. Accounted'
    <2> SUFFICES ASSUME NEW r \in Awaited \cap Executed
                 PROVE  /\ clientId \in Clients
                        /\ \/ [client |-> clientId, life |-> life, req |-> r] \in running'
                           \/ clientId \in destroyed'
                           \/ Owed(clientId, r)'
      BY <1>2 DEF Accounted
    <2>1. /\ clientId \in Clients
          /\ \/ [client |-> clientId, life |-> life, req |-> r] \in running
             \/ clientId \in destroyed
             \/ Owed(clientId, r)
      BY DEF WaitInv, WaitParts, Accounted
    <2>2. PICK d \in Clients : d = clientId
      BY <2>1
    <2>3. CASE d \in destroyed
      BY <1>3, <2>2, <2>3
    <2>4. CASE Owed(d, r) /\ d \notin destroyed
      <3>1. Owed(d, r)'
        BY <1>9, <2>4
      <3> QED BY <2>2, <3>1 DEF Owed, Around
    <2>5. CASE [client |-> d, life |-> life, req |-> r] \in running /\ d \notin destroyed
      <3>1. CASE [client |-> d, life |-> life, req |-> r] \in running'
        BY <2>2, <3>1
      <3>2. CASE [client |-> d, life |-> life, req |-> r] \notin running'
        <4>1. d = c /\ r \in ReqIds
          BY <2>5, <3>2 DEF Awaited
        <4>2. Owed(c, r)'
          BY <1>10, <2>5, <3>2, <4>1
        <4> QED BY <2>2, <4>1, <4>2 DEF Owed, Around
      <3> QED BY <3>1, <3>2
    <2> QED BY <2>1, <2>2, <2>3, <2>4, <2>5 DEF Owed
  <1> QED BY <1>5, <1>6, <1>7, <1>8, <1>11 DEF WaitInv, WaitParts

\* A greeting brings nothing that its Client did not hold, and what it says of
\* requests is what its Client has read.
Rewires(c, isNew, seamless, fate, queue) ==
    /\ \A d \in Clients : Around(d)' \subseteq Around(d)
    /\ \A d \in Clients \ {c} :
          toClient'[d] = toClient[d] /\ link'[d] = link[d] /\ lastReqId'[d] = lastReqId[d]
    /\ lastReqId'[c] = IF isNew THEN None ELSE lastReqId[c]
    /\ link'[c] = IF fate = "arrives" THEN (IF ~isNew /\ ~seamless THEN "closing" ELSE "up")
                  ELSE link[c]
    /\ fate = "arrives" => toClient'[c] # <<>>
    /\ fate # "arrives" => toClient'[c] = queue
    /\ \A i \in 1..Len(toClient'[c]) :
          \/ i \in 1..Len(queue) /\ toClient'[c][i] = queue[i]
          \/ toClient'[c][i].lastReqId \in {Unspoken, lastReqId'[c]}

LEMMA GreetAround ==
    ASSUME Types, NEW c \in Clients, NEW isNew \in BOOLEAN, NEW seamless \in BOOLEAN,
           NEW last \in Nat \cup {None}, NEW fate, NEW queue \in Seq(Messages),
           queue = <<>> \/ queue = toClient[c],
           Greet(c, isNew, seamless, last, fate, queue)
    PROVE  Rewires(c, isNew, seamless, fate, queue)
  <1> USE DEF Types, WireTypes, HeldTypes, ClientTypes
  <1> DEFINE handed == IF seamless THEN Kept(c, FirstNeeded(c, last)) ELSE {}
             reqId == IF isNew THEN None ELSE lastReqId[c]
             m == [client |-> c, missed |-> handed, needReload |-> ~isNew /\ ~seamless,
                   lastReqId |-> IF seamless THEN reqId ELSE Unspoken]
  <1>1. /\ lastReqId' = [lastReqId EXCEPT ![c] = reqId]
        /\ missed' = missed \/ missed' = [missed EXCEPT ![c] = {}]
        /\ toClient' = [toClient EXCEPT ![c] = IF fate # "arrives" THEN queue ELSE Append(queue, m)]
        /\ link' = [link EXCEPT ![c] =
                      IF fate = "arrives" THEN (IF ~isNew /\ ~seamless THEN "closing" ELSE "up")
                      ELSE @]
    BY DEF Greet
  <1>2. handed \subseteq missed[c]
    BY DEF Kept
  <1>3. m \in Messages /\ IsGreeting(m)
    <2>1. handed \in SUBSET Numbered /\ reqId \in ReqIds \cup {None}
      BY <1>2
    <2>2. nextSeqId[c] \in Nat /\ (\A n \in handed : n.seqId < nextSeqId[c]) /\ IsFiniteSet(handed)
      BY <1>2, FS_Subset
    <2> HIDE DEF handed, reqId
    <2>3. Bounded(handed)
      BY <2>2 DEF Bounded
    <2> QED BY <2>1, <2>3 DEF Messages, Greetings, ConnectMessages, IsGreeting
  <1>4. m.missed = handed /\ m.lastReqId = IF seamless THEN reqId ELSE Unspoken
    OBVIOUS
  <1> HIDE DEF m, handed, reqId
  <1>5. /\ \A d \in Clients \ {c} : /\ toClient'[d] = toClient[d] /\ link'[d] = link[d]
                                    /\ lastReqId'[d] = lastReqId[d] /\ missed'[d] = missed[d]
        /\ lastReqId'[c] = reqId /\ missed'[c] \subseteq missed[c]
        /\ link'[c] = IF fate = "arrives" THEN (IF ~isNew /\ ~seamless THEN "closing" ELSE "up")
                      ELSE link[c]
        /\ toClient'[c] = IF fate # "arrives" THEN queue ELSE Append(queue, m)
    BY <1>1
  <1>6. ASSUME NEW i \in 1..Len(toClient'[c])
        PROVE  \/ i \in 1..Len(queue) /\ toClient'[c][i] = queue[i]
               \/ toClient'[c][i] = m
    <2>1. CASE fate # "arrives"
      BY <1>5, <2>1
    <2>2. CASE fate = "arrives"
      <3>1. Len(queue) \in Nat /\ toClient'[c] = Append(queue, m)
        BY <1>5, <2>2
      <3> QED BY <1>3, <3>1, AppendFacts
    <2> QED BY <2>1, <2>2
  <1>7. \A d \in Clients : Around(d)' \subseteq Around(d)
    <2>1. \A d \in Clients \ {c} : Around(d)' = Around(d)
      BY <1>5 DEF Around
    <2>2. ASSUME NEW i \in 1..Len(toClient'[c])
          PROVE  Carried(toClient'[c][i]) \subseteq Around(c)
      <3>1. CASE i \in 1..Len(queue) /\ toClient'[c][i] = queue[i]
        <4>1. queue # <<>>
          BY <3>1
        <4> QED BY <3>1, <4>1, AroundFacts
      <3>2. CASE toClient'[c][i] = m
        BY <1>2, <1>3, <1>4, <3>2, AroundFacts DEF Carried
      <3> QED BY <1>6, <3>1, <3>2
    <2>3. Around(c)' \subseteq Around(c)
      BY <1>5, <2>2, AroundShrinks
    <2> QED BY <2>1, <2>3
  <1>8. fate = "arrives" => toClient'[c] # <<>>
    BY <1>3, <1>5, AppendNotEmpty
  <1>9. m.lastReqId \in {Unspoken, lastReqId'[c]}
    BY <1>4, <1>5
  <1> QED BY <1>5, <1>6, <1>7, <1>8, <1>9 DEF reqId, Rewires

LEMMA ConnectSendsWait ==
    ASSUME WaitInv, OrderInv', NEW c \in Clients, Greets(c)
    PROVE  WaitInv'
  <1> USE DEF serverFrame, pageVars, connVars
  <1>1. OnceInv /\ Types
    BY DEF WaitInv, OrderInv, OnceInv
  <1>2. PICK i \in DOMAIN greeting[c], authorized \in BOOLEAN, fate \in {"arrives", "lost", "fails"} :
           ConnectSends(c, i, authorized, fate)
    BY DEF Greets
  <1> DEFINE last == greeting[c][i]
             seamless == authorized /\ ~Gap(c, last)
  <1>3. /\ fate \in Fates(c)
        /\ Greet(c, FALSE, seamless, last, fate, toClient[c])
        /\ UNCHANGED <<life, attached, clientId, established, redials, firstConnect, reloading,
                       pending, toServer, created, socket, destroyed, doomed, nextSeqId, running,
                       expected, executions>>
    BY <1>2 DEF ConnectSends
  <1>4. seamless \in BOOLEAN /\ last \in Nat \cup {None} /\ toClient[c] \in Seq(Messages)
    <2>1. greeting[c] \in Seq(Nat \cup {None}) /\ i \in 1..Len(greeting[c])
      BY <1>1 DEF Types, ClientTypes
    <2> QED BY <1>1, <2>1 DEF Types, WireTypes
  <1> HIDE DEF last, seamless
  <1>5. /\ \A d \in Clients : Around(d)' \subseteq Around(d)
        /\ \A d \in Clients \ {c} :
              toClient'[d] = toClient[d] /\ link'[d] = link[d] /\ lastReqId'[d] = lastReqId[d]
        /\ lastReqId'[c] = lastReqId[c]
        /\ link'[c] = IF fate = "arrives" THEN (IF ~seamless THEN "closing" ELSE "up")
                      ELSE link[c]
        /\ fate = "arrives" => toClient'[c] # <<>>
        /\ fate # "arrives" => toClient'[c] = toClient[c]
        /\ \A j \in 1..Len(toClient'[c]) :
              \/ j \in 1..Len(toClient[c]) /\ toClient'[c][j] = toClient[c][j]
              \/ toClient'[c][j].lastReqId \in {Unspoken, lastReqId'[c]}
    <2>1. Rewires(c, FALSE, seamless, fate, toClient[c])
      BY <1>1, <1>3, <1>4, GreetAround
    <2> QED BY <2>1 DEF Rewires
  <1>6. fate = "arrives" => link[c] = "up"
    BY <1>3 DEF Fates
  <1>7. Executed' = Executed /\ Awaited' = Awaited
    BY <1>3 DEF Executed, Awaited
  <1>8. Made' /\ Ended' /\ SeqIdsBelow'
    BY <1>1, <1>3, <1>5, <1>6 DEF WaitInv, WaitParts, Made, Ended, SeqIdsBelow, Types, ClientTypes
  <1>9. attached \in Clients \cup {Nobody} /\ (established => attached \in Clients)
    BY <1>1 DEF Types, PageTypes, OnceInv, Established
  <1>10. FirstDial'
    BY <1>3, <1>5, <1>6, <1>9 DEF WaitInv, WaitParts, FirstDial, IsUp
  <1>11. Unread' /\ OnWire'
    <2>1. \A d \in Clients : lastReqId'[d] = lastReqId[d] /\ (link[d] # "up" => link'[d] # "up")
      BY <1>5, <1>6
    <2> QED BY <1>3, <1>7, <1>9, <2>1 DEF WaitInv, WaitParts, Unread, OnWire
  <1>12. SaysRead'
    BY <1>3, <1>5 DEF WaitInv, WaitParts, SaysRead
  <1>13. Accounted'
    <2> SUFFICES ASSUME NEW r \in Awaited \cap Executed
                 PROVE  /\ clientId \in Clients
                        /\ \/ [client |-> clientId, life |-> life, req |-> r] \in running
                           \/ clientId \in destroyed
                           \/ Owed(clientId, r)'
      BY <1>3, <1>7 DEF Accounted
    <2>1. /\ clientId \in Clients
          /\ \/ [client |-> clientId, life |-> life, req |-> r] \in running
             \/ clientId \in destroyed
             \/ Owed(clientId, r)
      BY DEF WaitInv, WaitParts, Accounted
    <2>2. PICK d \in Clients : d = clientId /\ d = clientId'
      BY <1>3, <2>1
    <2>3. Owed(d, r) => Owed(d, r)'
      BY <1>3, <1>5, OwedStays
    <2> QED BY <2>1, <2>2, <2>3 DEF Owed, Around
  <1> QED BY <1>8, <1>10, <1>11, <1>12, <1>13 DEF WaitInv, WaitParts

\* A new connection: what is owed is held by a Client that the page knows again, or
\* the page is told to reload.
LEMMA DialWait ==
    ASSUME WaitInv, OrderInv', Dial
    PROVE  WaitInv'
  <1>1. OnceInv /\ Types /\ Types'
    BY DEF WaitInv, OrderInv, OnceInv
  <1>2. PICK c \in Clients : c = IF Reuses THEN clientId ELSE created + 1
    BY DEF Dial
  <1>3. /\ attached = Nobody /\ attached' = c /\ socket' = socket \cup {c} /\ doomed' = doomed \ {c}
        /\ created' = (IF Reuses THEN created ELSE c)
        /\ UNCHANGED <<life, clientId, established, redials, firstConnect, reloading, pending,
                       destroyed, nextSeqId, running, executions>>
        /\ redials \/ firstConnect
        /\ IF ~redials \/ ~Reuses
           THEN /\ Greet(c, ~redials, FALSE, None, "arrives", <<>>)
                /\ expected' = [expected EXCEPT ![c] = nextSeqId[c]]
           ELSE /\ link' = [link EXCEPT ![c] = "up"]
                /\ toClient' = [toClient EXCEPT ![c] = <<>>]
                /\ UNCHANGED <<resumeVars, missed, expected>>
    BY <1>1, <1>2 DEF Dial, OnceInv, Established
  <1>4. /\ \A d \in Clients : d # Nobody /\ toClient[d] = <<>> /\ ~IsUp(d)
        /\ ~established
    BY <1>1, <1>3 DEF OnceInv, Wires, Established, Clients, Nobody
  <1>5. created \in Nat /\ created <= created' /\ c <= created' /\ clientId <= created
        /\ created' \in Nat /\ \A x \in running : x.client \in Nat
    BY <1>1, <1>2, <1>3 DEF Types, Types, ClientTypes, RunTypes, OnceInv, Established, Reuses, Clients
  <1>6. /\ \A d \in Clients : Around(d)' \subseteq Around(d)
        /\ \A d \in Clients \ {c} : toClient'[d] = <<>> /\ link'[d] = link[d]
        /\ \A d \in Clients : lastReqId'[d] = IF d = c /\ ~redials THEN None ELSE lastReqId[d]
        /\ \A i \in 1..Len(toClient'[c]) : toClient'[c][i].lastReqId \in {Unspoken, lastReqId'[c]}
        /\ ~redials => toClient'[c] # <<>> /\ IsUp(c)'
    <2>1. CASE ~redials \/ ~Reuses
      <3>1. (~redials) \in BOOLEAN /\ FALSE \in BOOLEAN /\ <<>> \in Seq(Messages)
        OBVIOUS
      <3>2. Greet(c, ~redials, FALSE, None, "arrives", <<>>)
        BY <1>3, <2>1
      <3>3. Rewires(c, ~redials, FALSE, "arrives", <<>>)
        BY <1>1, <3>1, <3>2, GreetAround
      <3>4. \A i \in 1..Len(toClient'[c]) : toClient'[c][i].lastReqId \in {Unspoken, lastReqId'[c]}
        BY <3>3 DEF Rewires
      <3>5. \A d \in Clients : lastReqId'[d] = IF d = c /\ ~redials THEN None ELSE lastReqId[d]
        BY <3>3 DEF Rewires
      <3>6. /\ \A d \in Clients \ {c} : toClient'[d] = <<>> /\ link'[d] = link[d]
            /\ ~redials => toClient'[c] # <<>> /\ IsUp(c)'
            /\ \A d \in Clients : Around(d)' \subseteq Around(d)
        BY <1>4, <3>3 DEF Rewires, IsUp
      <3> QED BY <3>4, <3>5, <3>6
    <2>2. CASE redials /\ Reuses
      <3>1. \A d \in Clients : toClient'[d] = <<>> /\ missed'[d] = missed[d]
                               /\ lastReqId'[d] = lastReqId[d]
        BY <1>1, <1>3, <1>4, <2>2 DEF Types, WireTypes, resumeVars
      <3>2. \A d \in Clients : Around(d)' \subseteq Around(d)
        BY <3>1, AroundShrinks
      <3>3. \A d \in Clients \ {c} : link'[d] = link[d]
        BY <1>1, <1>3, <2>2 DEF Types, WireTypes
      <3> QED BY <2>2, <3>1, <3>2, <3>3
    <2> QED BY <2>1, <2>2
  <1>7. Executed' = Executed /\ Awaited' = Awaited
    BY <1>3 DEF Executed, Awaited
  <1>8. Made'
    <2>1. \A d \in Clients : d \in socket' \cup destroyed' \cup doomed' => d <= created'
      BY <1>3, <1>5 DEF WaitInv, WaitParts, Made, Clients
    <2>2. \A x \in running' : x.client <= created'
      BY <1>3, <1>5 DEF WaitInv, WaitParts, Made
    <2> QED BY <2>1, <2>2 DEF Made
  <1>9. Ended'
    <2>1. c \notin destroyed
      <3>1. CASE Reuses
        BY <1>2, <3>1 DEF Reuses
      <3>2. CASE ~Reuses
        BY <1>2, <1>5, <3>2 DEF WaitInv, WaitParts, Made
      <3> QED BY <3>1, <3>2
    <2>2. \A d \in destroyed \cup doomed : d \in Clients
      BY <1>1 DEF Types, ClientTypes
    <2> QED BY <1>3, <1>6, <2>1, <2>2 DEF WaitInv, WaitParts, Ended
  <1>10. SeqIdsBelow'
    BY <1>3, <1>6 DEF WaitInv, WaitParts, SeqIdsBelow
  <1>11. FirstDial'
    BY <1>3, <1>6 DEF WaitInv, WaitParts, FirstDial
  <1>12. Unread'
    <2>1. ~firstConnect => \A d \in Clients : lastReqId'[d] = lastReqId[d]
      BY <1>3, <1>6
    <2> QED BY <1>3, <1>7, <2>1 DEF WaitInv, WaitParts, Unread
  <1>13. SaysRead' /\ OnWire'
    BY <1>3, <1>4, <1>6 DEF SaysRead, OnWire
  <1>14. Accounted'
    <2> SUFFICES ASSUME NEW r \in Awaited \cap Executed
                 PROVE  /\ clientId \in Clients
                        /\ \/ [client |-> clientId, life |-> life, req |-> r] \in running
                           \/ clientId \in destroyed
                           \/ Owed(clientId, r)'
      BY <1>3, <1>7 DEF Accounted
    <2>1. /\ clientId \in Clients
          /\ \/ [client |-> clientId, life |-> life, req |-> r] \in running
             \/ clientId \in destroyed
             \/ Owed(clientId, r)
      BY DEF WaitInv, WaitParts, Accounted
    <2>2. redials
      BY <1>1, <1>3 DEF OnceInv, Established
    <2>3. PICK d \in Clients : d = clientId /\ d = clientId'
      BY <1>3, <2>1
    <2>4. expected'[d] = expected[d]
      <3>1. ~Reuses => d # c
        BY <1>2, <1>5, <2>3
      <3> QED BY <1>1, <1>3, <2>2, <3>1 DEF Types, RunTypes
    <2>5. Owed(d, r) => Owed(d, r)'
      BY <1>3, <1>6, <2>4, OwedStays
    <2> QED BY <2>1, <2>3, <2>5 DEF Owed, Around
  <1> QED BY <1>8, <1>9, <1>10, <1>11, <1>12, <1>13, <1>14 DEF WaitInv, WaitParts

\* Taking a message from its queue leaves less around a Client.
LEMMA AroundPops ==
    ASSUME Types, NEW c \in Clients, toClient[c] # <<>>, Pops(c), missed' = missed
    PROVE  /\ \A d \in Clients : Around(d)' \subseteq Around(d)
           /\ Carried(toClient[c][1]) \subseteq Around(c)
  <1>1. /\ toClient[c] \in Seq(Messages) /\ toClient'[c] = Tail(toClient[c])
        /\ \A d \in Clients \ {c} : toClient'[d] = toClient[d]
    BY DEF Types, WireTypes, Pops
  <1>2. /\ 1 \in 1..Len(toClient[c])
        /\ \A i \in 1..Len(Tail(toClient[c])) :
              Tail(toClient[c])[i] = toClient[c][i + 1] /\ i + 1 \in 1..Len(toClient[c])
    BY <1>1, TailFacts
  <1>3. \A i \in 1..Len(toClient[c]) : Carried(toClient[c][i]) \subseteq Around(c)
    BY AroundFacts
  <1>4. Around(c)' \subseteq Around(c)
    <2>1. \A i \in 1..Len(toClient'[c]) : Carried(toClient'[c][i]) \subseteq Around(c)
      BY <1>1, <1>2, <1>3
    <2> QED BY <2>1, AroundShrinks
  <1>5. \A d \in Clients \ {c} : Around(d)' = Around(d)
    BY <1>1 DEF Around
  <1> QED BY <1>2, <1>3, <1>4, <1>5

\* A page that stays connected takes a message, and may have an answer.
LEMMA TakesWait ==
    ASSUME WaitInv, OrderInv', NEW c \in Clients, c = attached, toClient[c] # <<>>, established,
           Pops(c), UNCHANGED <<life, nextReqId, clientVars, running>>,
           UNCHANGED <<attached, clientId, established, redials, firstConnect, reloading, link,
                       toServer, executions>>,
           \A r \in ReqIds : \/ pending'[r] = pending[r]
                             \/ pending[r] \in {"unsent", "sent"} /\ pending'[r] = "done",
           \A r \in Awaited' \cap Executed : Owed(c, r) => Owed(c, r)'
    PROVE  WaitInv'
  <1> USE DEF clientVars, resumeVars
  <1>1. OnceInv /\ Types
    BY DEF WaitInv, OrderInv, OnceInv
  <1>2. Executed' = Executed /\ Awaited' \subseteq Awaited
    BY DEF Executed, Awaited
  <1>3. \A d \in Clients : Around(d)' \subseteq Around(d)
    BY <1>1, AroundPops
  <1>4. clientId = c /\ ~firstConnect
    BY <1>1 DEF OnceInv, Established
  <1>5. Made' /\ Ended' /\ FirstDial' /\ SaysRead'
    BY <1>4 DEF WaitInv, WaitParts, Made, Ended, FirstDial, SaysRead
  <1>6. SeqIdsBelow'
    BY <1>3 DEF WaitInv, WaitParts, SeqIdsBelow
  <1>7. Unread'
    <2>1. \A r \in ReqIds : pending'[r] \in {"none", "unsent", "sent"}
                              => pending[r] \in {"none", "unsent", "sent"}
      OBVIOUS
    <2> QED BY <1>2, <2>1 DEF WaitInv, WaitParts, Unread
  <1>8. OnWire'
    BY <1>2 DEF WaitInv, WaitParts, OnWire
  <1>9. Accounted'
    <2> SUFFICES ASSUME NEW r \in Awaited' \cap Executed
                 PROVE  \/ [client |-> c, life |-> life, req |-> r] \in running
                        \/ c \in destroyed
                        \/ Owed(c, r)'
      BY <1>2, <1>4 DEF Accounted, Owed
    <2>1. \/ [client |-> c, life |-> life, req |-> r] \in running
          \/ c \in destroyed
          \/ Owed(c, r)
      BY <1>2, <1>4 DEF WaitInv, WaitParts, Accounted
    <2> QED BY <2>1
  <1> QED BY <1>5, <1>6, <1>7, <1>8, <1>9 DEF WaitInv, WaitParts

LEMMA HandlesOneWait ==
    ASSUME WaitInv, OrderInv', NEW c \in Clients, c = attached, toClient[c] # <<>>,
           NEW message \in Messages, message = toClient[c][1],
           UNCHANGED <<life, nextReqId, clientVars, running>>, HandlesOne(c, message)
    PROVE  WaitInv'
  <1>1. Types
    BY DEF WaitInv, OrderInv, OnceInv
  <1>2. /\ ~IsGreeting(message) /\ established /\ message.seqId = expected[c] /\ Pops(c)
        /\ pending' = [r \in ReqIds |-> IF r \in Settles({message}) THEN "done" ELSE pending[r]]
        /\ UNCHANGED <<attached, clientId, established, redials, firstConnect, reloading, link,
                       toServer, executions>>
        /\ missed' = missed /\ nextSeqId' = nextSeqId
    BY DEF HandlesOne, Handle, clientVars
  <1>3. expected \in [Clients -> Nat] /\ nextSeqId \in [Clients -> Nat]
    BY <1>1 DEF Types, RunTypes, HeldTypes
  <1>4. expected'[c] = expected[c] + 1
    <2>1. expected' = [expected EXCEPT ![c] = @ + Cardinality({message})]
      BY DEF HandlesOne, Handle
    <2>2. Cardinality({message}) = 1
      BY FS_Singleton
    <2> QED BY <1>3, <2>1, <2>2
  <1>5. /\ \A d \in Clients : Around(d)' \subseteq Around(d)
        /\ message \in Around(c)
    BY <1>1, <1>2, AroundPops DEF Carried
  <1>6. \A r \in ReqIds : \/ pending'[r] = pending[r]
                          \/ pending[r] \in {"unsent", "sent"} /\ pending'[r] = "done"
    BY <1>2 DEF Settles
  <1>7. ASSUME NEW r \in Awaited' \cap Executed, Owed(c, r)
        PROVE  Owed(c, r)'
    <2>1. PICK n \in expected[c]..nextSeqId[c] - 1 :
             \A m \in Around(c) : m.seqId = n => m.body = Answer(r)
      BY <1>7 DEF Owed
    <2>2. r \in ReqIds /\ pending'[r] = "sent" /\ r \notin Settles({message})
      BY <1>2, <1>7 DEF Awaited
    <2>3. pending[r] = "sent"
      BY <1>6, <2>2
    <2>4. n # expected[c]
      <3> SUFFICES ASSUME n = expected[c] PROVE FALSE
        OBVIOUS
      <3>1. message.body = Answer(r)
        BY <1>2, <1>5, <2>1
      <3>2. message.body.type = "response" /\ message.body.req = r
        BY <3>1 DEF Answer
      <3> QED BY <2>2, <2>3, <3>2 DEF Settles
    <2>5. n \in expected'[c]..nextSeqId'[c] - 1
      BY <1>2, <1>3, <1>4, <2>4
    <2>6. \A m \in Around(c)' : m.seqId = n => m.body = Answer(r)'
      BY <1>5, <2>1 DEF Answer
    <2> QED BY <2>5, <2>6 DEF Owed
  <1> QED BY <1>2, <1>6, <1>7, TakesWait

\* A page that resumes has the answers that it lacked, and sends again what its
\* Client has not read.
LEMMA ResumesWait ==
    ASSUME WaitInv, OrderInv', NEW c \in Clients, c = attached, toClient[c] # <<>>,
           NEW message \in Messages, message = toClient[c][1], ~reloading,
           UNCHANGED <<life, nextReqId, clientVars, running>>, ResumesWith(c, message)
    PROVE  WaitInv'
  <1> USE DEF clientVars, resumeVars
  <1>1. OnceInv /\ Types
    BY DEF WaitInv, OrderInv, OnceInv
  <1> DEFINE L == message.lastReqId
             sent == ToSend(message)
             answered == Settles(message.missed)
             next == expected[c] + Cardinality(message.missed)
  <1>2. /\ IsGreeting(message) /\ ~established /\ (firstConnect \/ clientId = c)
        /\ Spans(message.missed, expected[c], next)
        /\ established' = TRUE /\ clientId' = c /\ firstConnect' = FALSE
        /\ Pops(c) /\ expected' = [expected EXCEPT ![c] = next]
        /\ pending' = [r \in ReqIds |->
              IF r \in answered THEN "done" ELSE IF r \in sent THEN "sent"
              ELSE IF Rejects(r, L) THEN "rejected" ELSE pending[r]]
        /\ \E reqs \in Ordered(sent) : Transmits(c, reqs)
        /\ UNCHANGED <<life, attached, redials, reloading, link, created, socket, destroyed,
                       doomed, nextSeqId, missed, lastReqId, running, executions>>
    BY DEF ResumesWith, Handle
  <1>3. /\ toClient[c] \in Seq(Messages) /\ 1 \in 1..Len(toClient[c])
        /\ L \in ReqIds \cup {None, Unspoken}
        /\ message.missed \in SUBSET Numbered /\ Cardinality(message.missed) \in Nat
    <2>1. toClient[c] \in Seq(Messages) /\ message \in Greetings
      BY <1>1, <1>2, Kinds DEF Types, WireTypes
    <2>2. message.missed \in SUBSET Numbered /\ IsFiniteSet(message.missed)
      BY <1>2, Kinds DEF Greetings, Bounded
    <2> QED BY <1>2, <2>1, <2>2, TailFacts, Kinds, FS_CardinalityType DEF Greetings
  <1>4. L # Unspoken => L = lastReqId[c]
    BY <1>2, <1>3 DEF WaitInv, WaitParts, SaysRead
  <1>5. \A r \in ReqIds :
           /\ r \in sent <=> /\ r \notin answered
                             /\ \/ pending[r] = "unsent"
                                \/ pending[r] = "sent" /\ L # Unspoken /\ ~(r <= L)
           /\ r \in answered => pending[r] \in {"unsent", "sent"}
           /\ pending'[r] = IF r \in answered THEN "done" ELSE IF r \in sent THEN "sent"
                            ELSE IF pending[r] = "sent" /\ L = Unspoken THEN "rejected"
                            ELSE pending[r]
    BY <1>2 DEF ToSend, Resends, SpokenFor, Rejects, Settles
  <1>6. /\ \A d \in Clients : Around(d)' \subseteq Around(d)
        /\ message.missed \subseteq Around(c)
    BY <1>1, <1>2, AroundPops DEF Carried
  <1>7. /\ expected[c] \in Nat /\ nextSeqId[c] \in Nat /\ next \in Nat /\ expected'[c] = next
        /\ lastReqId[c] \in ReqIds \cup {None}
    BY <1>1, <1>2, <1>3 DEF Types, RunTypes, HeldTypes, ClientTypes
  <1>8. /\ firstConnect => lastReqId[c] = None /\ Awaited = {}
        /\ ~firstConnect => clientId = c
    <2>1. c # Nobody
      BY DEF Clients, Nobody
    <2> QED BY <1>1, <1>2, <2>1 DEF WaitInv, WaitParts, FirstDial, OnceInv, Established
  <1>9. sent \in SUBSET ReqIds /\ \A r \in Executed : r \in ReqIds /\ pending[r] # "unsent"
    BY <1>1 DEF ToSend, OnceInv, OnceSoFar, Executed
  <1> HIDE DEF L, sent, answered, next
  <1>10. Executed' = Executed
    BY <1>2 DEF Executed
  <1>11. Made' /\ Ended' /\ FirstDial' /\ SaysRead'
    BY <1>2 DEF WaitInv, WaitParts, Made, Ended, FirstDial, SaysRead
  <1>12. SeqIdsBelow'
    BY <1>2, <1>6 DEF WaitInv, WaitParts, SeqIdsBelow
  <1>13. ASSUME NEW r \in ReqIds \ Executed, pending[r] \in {"none", "unsent", "sent"}
         PROVE  r > lastReqId[c]
    <2>1. CASE firstConnect
      BY <1>8, <2>1 DEF ReqIds, None
    <2>2. CASE ~firstConnect
      BY <1>8, <1>13, <2>2 DEF WaitInv, WaitParts, Unread
    <2> QED BY <2>1, <2>2
  <1>14. Unread'
    <2>1. \A r \in ReqIds : pending'[r] \in {"none", "unsent", "sent"}
                              => pending[r] \in {"none", "unsent", "sent"}
      BY <1>5
    <2> QED BY <1>2, <1>10, <1>13, <2>1 DEF Unread
  <1>15. OnWire'
    <2> SUFFICES ASSUME NEW r \in Awaited' \ Executed
                 PROVE  \/ \E i \in 1..Len(toServer'[c]) : toServer'[c][i].req = r
                        \/ /\ link[c] # "up"
                           /\ \A i \in 1..Len(toServer'[c]) : toServer'[c][i].req < r
      BY <1>2, <1>10 DEF OnWire
    <2>1. r \in sent
      <3> SUFFICES ASSUME r \notin sent PROVE FALSE
        OBVIOUS
      <3>1. r \in ReqIds /\ pending'[r] = "sent"
        BY DEF Awaited
      <3>2. pending[r] = "sent" /\ L # Unspoken /\ r <= L
        BY <1>5, <3>1
      <3>3. r > lastReqId[c]
        BY <1>13, <3>1, <3>2
      <3> QED BY <1>4, <1>7, <3>1, <3>2, <3>3 DEF ReqIds, None
    <2>2. PICK reqs \in Ordered(sent) : Transmits(c, reqs)
      BY <1>2
    <2>3. /\ reqs \in Seq(ReqIds) /\ Len(reqs) \in Nat
          /\ \E i \in 1..Len(reqs) : reqs[i] = r
      <3>1. reqs \in Seq(ReqIds) /\ Len(reqs) \in Nat /\ DOMAIN reqs = 1..Len(reqs)
        BY <1>9, <2>2, OrderedFacts
      <3> QED BY <2>1, <3>1 DEF Ordered
    <2>4. toServer[c] = <<>> /\ Len(toServer[c]) = 0
      BY <1>1, <1>2 DEF OnceInv, Wires
    <2>5. /\ link[c] # "up" => toServer' = toServer
          /\ link[c] = "up" =>
                /\ Len(toServer'[c]) = Len(toServer[c]) + Len(reqs)
                /\ \A i \in 1..Len(toServer'[c]) :
                      toServer'[c][i] = IF i <= Len(toServer[c]) THEN toServer[c][i]
                                        ELSE [life |-> life, req |-> reqs[i - Len(toServer[c])]]
      BY <1>1, <2>2, <2>3, TransmitsFacts
    <2>6. CASE link[c] # "up"
      BY <2>4, <2>5, <2>6
    <2>7. CASE link[c] = "up"
      <3>1. PICK i \in 1..Len(reqs) : reqs[i] = r
        BY <2>3
      <3>2. i \in 1..Len(toServer'[c]) /\ ~(i <= 0) /\ i - 0 = i
        BY <2>3, <2>4, <2>5, <2>7
      <3>3. toServer'[c][i] = [life |-> life, req |-> r]
        BY <2>4, <2>5, <2>7, <3>1, <3>2
      <3>4. toServer'[c][i].req = r
        BY <3>3
      <3> QED BY <3>2, <3>4
    <2> QED BY <2>6, <2>7
  <1>16. Accounted'
    <2> SUFFICES ASSUME NEW r \in Awaited' \cap Executed
                 PROVE  \/ [client |-> c, life |-> life, req |-> r] \in running
                        \/ c \in destroyed
                        \/ Owed(c, r)'
      BY <1>2, <1>10 DEF Accounted, Owed
    <2>1. r \in ReqIds /\ pending'[r] = "sent" /\ pending[r] # "unsent"
      BY <1>9 DEF Awaited
    <2>2. r \notin sent
      <3> SUFFICES ASSUME r \in sent PROVE FALSE
        OBVIOUS
      <3>1. pending[r] = "sent" /\ L # Unspoken /\ ~(r <= L)
        BY <1>5, <2>1
      <3> QED BY <1>1, <1>2, <1>3, <2>1, <3>1 DEF OnceInv, GreetingsRight, Awaited, L
    <2>3. r \notin answered /\ pending[r] = "sent" /\ r \in Awaited
      BY <1>5, <2>1, <2>2 DEF Awaited
    <2>4. clientId = c
      BY <1>8, <2>3
    <2>5. \/ [client |-> c, life |-> life, req |-> r] \in running
          \/ c \in destroyed
          \/ Owed(c, r)
      BY <2>3, <2>4 DEF WaitInv, WaitParts, Accounted
    <2>6. ASSUME Owed(c, r) PROVE Owed(c, r)'
      <3>1. PICK n \in expected[c]..nextSeqId[c] - 1 :
               \A m \in Around(c) : m.seqId = n => m.body = Answer(r)
        BY <2>6 DEF Owed
      <3>2. ~(n < next)
        <4> SUFFICES ASSUME n < next PROVE FALSE
          OBVIOUS
        <4>1. n \in expected[c]..next - 1
          BY <1>7
        <4>2. PICK m \in message.missed : m.seqId = n
          BY <1>2, <4>1 DEF Spans
        <4>3. m.body = Answer(r)
          BY <1>6, <3>1, <4>2
        <4>4. m.body.type = "response" /\ m.body.req = r
          BY <4>3 DEF Answer
        <4> QED BY <2>1, <2>3, <4>4 DEF answered, Settles
      <3>3. n \in expected'[c]..nextSeqId'[c] - 1
        BY <1>2, <1>7, <3>2
      <3>4. \A m \in Around(c)' : m.seqId = n => m.body = Answer(r)'
        BY <1>2, <1>6, <3>1 DEF Answer
      <3> QED BY <3>3, <3>4 DEF Owed
    <2> QED BY <2>5, <2>6
  <1> QED BY <1>11, <1>12, <1>14, <1>15, <1>16 DEF WaitInv, WaitParts

LEMMA ReceivesWait ==
    ASSUME WaitInv, OrderInv', PageReceives
    PROVE  WaitInv'
  <1>1. PICK c \in Clients, message \in Messages :
              /\ c = attached /\ IsUp(c) /\ toClient[c] # <<>> /\ message = toClient[c][1]
              /\ UNCHANGED <<life, nextReqId, clientVars, running>>
              /\ \/ HandlesOne(c, message) \/ IgnoresGreeting(c, message)
                 \/ HasToReload(c, message) \/ ResumesWith(c, message)
    BY ReceivesParts DEF WaitInv
  <1>2. OnceInv /\ Types /\ ~reloading
    BY <1>1 DEF WaitInv, OrderInv, OnceInv, PageRight, Clients, Nobody
  <1>3. CASE HandlesOne(c, message)
    BY <1>1, <1>3, HandlesOneWait
  <1>4. CASE IgnoresGreeting(c, message)
    <2>1. /\ established /\ Pops(c) /\ missed' = missed /\ nextSeqId' = nextSeqId
          /\ UNCHANGED <<attached, clientId, established, redials, firstConnect, reloading, link,
                         toServer, executions, pending, expected>>
      BY <1>1, <1>4 DEF IgnoresGreeting, connVars, ghostVars, clientVars
    <2>2. Around(c)' \subseteq Around(c)
      BY <1>1, <1>2, <2>1, AroundPops
    <2>3. \A r : Owed(c, r) => Owed(c, r)'
      BY <1>1, <2>1, <2>2, OwedStays
    <2> QED BY <1>1, <2>1, <2>3, TakesWait
  <1>5. CASE HasToReload(c, message)
    <2>1. /\ Disconnects /\ reloading' = TRUE /\ firstConnect' = FALSE
          /\ pending' = [r \in ReqIds |-> IF pending[r] = "sent" THEN "rejected" ELSE pending[r]]
          /\ UNCHANGED <<executions, expected, socket, destroyed, doomed, nextSeqId, missed, running,
                         created, lastReqId, greeting>>
      BY <1>1, <1>5 DEF HasToReload, ghostVars, clientVars, resumeVars
    <2>2. Detaches
      BY <1>1, <2>1 DEF Disconnects, Detaches, Clients, Nobody
    <2>3. Awaited' = {}
      BY <2>1 DEF Awaited
    <2> QED BY <2>1, <2>2, <2>3, DetachesWait
  <1>6. CASE ResumesWith(c, message)
    BY <1>1, <1>2, <1>6, ResumesWait
  <1> QED BY <1>1, <1>3, <1>4, <1>5, <1>6

LEMMA NextWait ==
    ASSUME ~EarlySends, ~FirstDialLost, WaitInv, [Next]_vars
    PROVE  WaitInv'
  <1> USE DEF clientVars, resumeVars, ghostVars, wireVars, serverFrame
  <1>1. OrderInv' /\ OnceInv /\ Types
    BY NextOrder DEF WaitInv, OrderInv, OnceInv
  <1>2. CASE UNCHANGED vars
    BY <1>1, <1>2, CalmWait DEF vars
  <1>3. CASE PageActs
    BY <1>1, <1>3, MakeRequestWait, DialWait, ReceivesWait, LeavingWait DEF PageActs
  <1>4. ASSUME NEW c \in Clients, HangsUp(c), ~(firstConnect /\ attached = c), socket' \subseteq socket,
               UNCHANGED <<pageVars, created, destroyed, doomed, nextSeqId, missed, resumeVars,
                           running, ghostVars>>
        PROVE  WaitInv'
    <2>1. /\ link'[c] = "down" /\ toServer'[c] = <<>> /\ toClient'[c] = <<>>
          /\ \A d \in Clients \ {c} : link'[d] = link[d] /\ toServer'[d] = toServer[d]
                                      /\ toClient'[d] = toClient[d]
      BY <1>1, <1>4 DEF HangsUp, Types, WireTypes
    <2> QED BY <1>1, <1>4, <2>1, CalmWait
  <1>5. ASSUME NEW c \in Clients, MayBreak(c) PROVE ~(firstConnect /\ attached = c)
    BY <1>1, <1>5 DEF MayBreak, WaitInv, WaitParts, FirstDial, OnceInv, Established
  <1>6. ASSUME NEW c \in Clients, ClientActs(c) PROVE WaitInv'
    <2>1. CASE Greets(c)
      BY <1>1, <2>1, ConnectSendsWait
    <2>2. CASE ServerReceives(c)
      BY <1>1, <2>2, ServerReceivesWait
    <2>3. CASE Event(c)
      BY <1>1, <2>3, BodyFacts, SendWait DEF Event
    <2>4. CASE ServerNoticesClose(c)
      <3>1. c <= created /\ doomed' \subseteq doomed \cup {c}
        BY <2>4 DEF ServerNoticesClose, WaitInv, WaitParts, Made
      <3> QED BY <1>1, <2>4, <3>1, CalmWait DEF ServerNoticesClose
    <2>5. CASE DestroyTimer(c)
      <3>1. \A d \in Clients : missed'[d] \subseteq missed[d]
        BY <1>1, <2>5 DEF DestroyTimer, Types, HeldTypes
      <3> QED BY <1>1, <2>5, <3>1, CalmWait DEF DestroyTimer
    <2>6. CASE Interrupt(c)
      BY <1>4, <1>5, <2>6 DEF Interrupt
    <2>7. CASE Cut(c)
      BY <1>4, <1>5, <2>7 DEF Cut
    <2>8. CASE CloseCompletes(c)
      <3>1. ~(firstConnect /\ attached = c)
        <4>1. c # Nobody
          BY DEF Clients, Nobody
        <4> QED BY <2>8, <4>1 DEF CloseCompletes, WaitInv, WaitParts, FirstDial
      <3> QED BY <1>4, <2>8, <3>1 DEF CloseCompletes
    <2> QED BY <1>6, <2>1, <2>2, <2>3, <2>4, <2>5, <2>6, <2>7, <2>8 DEF ClientActs
  <1>7. ASSUME NEW x \in running, Complete(x) PROVE WaitInv'
    <2>1. /\ x.client \in Clients /\ x.life \in Lives /\ x.req \in ReqIds
          /\ x.client <= created
      BY <1>1 DEF Types, RunTypes, WaitInv, WaitParts, Made
    <2>2. PICK c \in Clients, body \in Bodies :
             c = x.client /\ body = [type |-> "response", life |-> x.life, req |-> x.req]
      BY <2>1, BodyFacts
    <2>3. /\ Send(c, body) /\ running' \subseteq running
          /\ \A y \in running \ running' :
                y.client = c /\ body = [type |-> "response", life |-> y.life, req |-> y.req]
      BY <1>7, <2>2 DEF Complete
    <2> QED BY <1>1, <1>7, <2>1, <2>2, <2>3, SendWait DEF Complete
  <1> QED BY <1>2, <1>3, <1>6, <1>7 DEF Next

\* An answer that is to come, on a connection that works, is on its way.
LEMMA OwedIsOnItsWay ==
    ASSUME WaitInv, established, NEW c \in Clients, c = attached, link[c] = "up",
           NEW r, Owed(c, r)
    PROVE  \E i \in 1..Len(toClient[c]) :
              ~IsGreeting(toClient[c][i]) /\ toClient[c][i].body = Answer(r)
  <1>1. Types /\ LineRight(c) /\ IsUp(c)
    BY DEF WaitInv, OrderInv, OnceInv, IsUp
  <1>2. /\ expected[c] \in Nat /\ nextSeqId[c] \in Nat /\ Len(toClient[c]) \in Nat
    BY <1>1 DEF Types, RunTypes, HeldTypes, WireTypes
  <1>3. PICK k \in 0..Len(toClient[c]) :
           /\ Shape(toClient[c], k, expected[c])
           /\ Fits(c, k, expected[c] + (Len(toClient[c]) - k))
    BY <1>1 DEF LineRight, Lined
  <1>4. expected[c] + (Len(toClient[c]) - k) = nextSeqId[c]
    BY <1>3 DEF Fits
  <1>5. PICK n \in expected[c]..nextSeqId[c] - 1 :
           \A m \in Around(c) : m.seqId = n => m.body = Answer(r)
    BY DEF Owed
  <1>6. PICK i \in 1..Len(toClient[c]) :
           ~(i <= k) /\ expected[c] + (i - k - 1) = n
    <2>1. /\ k + (n - expected[c]) + 1 \in 1..Len(toClient[c])
          /\ ~(k + (n - expected[c]) + 1 <= k)
          /\ expected[c] + ((k + (n - expected[c]) + 1) - k - 1) = n
      BY <1>2, <1>4
    <2> QED BY <2>1
  <1>7. ~IsGreeting(toClient[c][i]) /\ toClient[c][i].seqId = n
    BY <1>3, <1>6 DEF Shape
  <1>8. toClient[c][i] \in Around(c)
    BY <1>1, <1>7, AroundFacts DEF Carried
  <1> QED BY <1>5, <1>7, <1>8

LEMMA WaitShows == WaitInv => WaitingIsJustified
  <1> SUFFICES ASSUME WaitInv, NEW r \in ReqIds, established, pending[r] = "sent",
                      link[attached] = "up"
               PROVE  \/ \E i \in DOMAIN toServer[attached] :
                            toServer[attached][i] = [life |-> life, req |-> r]
                      \/ [client |-> attached, life |-> life, req |-> r] \in running
                      \/ \E i \in DOMAIN toClient[attached] :
                            LET m == toClient[attached][i]
                            IN  /\ "seqId" \in DOMAIN m
                                /\ m.body = [type |-> "response", life |-> life, req |-> r]
    BY DEF WaitingIsJustified
  <1>1. OnceInv /\ Types
    BY DEF WaitInv, OrderInv, OnceInv
  <1>2. PICK c \in Clients : c = attached /\ c = clientId
    BY <1>1 DEF OnceInv, Established
  <1>3. /\ toServer[c] \in Seq(Requests) /\ toClient[c] \in Seq(Messages)
        /\ DOMAIN toServer[c] = 1..Len(toServer[c]) /\ DOMAIN toClient[c] = 1..Len(toClient[c])
    BY <1>1 DEF Types, WireTypes
  <1>4. r \in Awaited
    BY DEF Awaited
  <1>5. CASE r \notin Executed
    <2>1. PICK i \in 1..Len(toServer[c]) : toServer[c][i].req = r
      BY <1>2, <1>4, <1>5 DEF WaitInv, WaitParts, OnWire
    <2>2. toServer[c][i] = [life |-> life, req |-> r]
      <3>1. toServer[c][i] \in Requests /\ toServer[c][i].life = life
        BY <1>1, QueuedFacts DEF OnceInv, QueueRight
      <3> QED BY <2>1, <3>1 DEF Requests
    <2> QED BY <1>2, <1>3, <2>2
  <1>6. CASE r \in Executed
    <2>1. \/ [client |-> c, life |-> life, req |-> r] \in running
          \/ c \in destroyed
          \/ Owed(c, r)
      BY <1>2, <1>4, <1>6 DEF WaitInv, WaitParts, Accounted
    <2>2. c \notin destroyed
      BY <1>2 DEF WaitInv, WaitParts, Ended
    <2>3. ASSUME Owed(c, r)
          PROVE  \E i \in 1..Len(toClient[c]) :
                    ~IsGreeting(toClient[c][i]) /\ toClient[c][i].body = Answer(r)
      BY <1>2, <2>3, OwedIsOnItsWay
    <2> QED BY <1>2, <1>3, <2>1, <2>2, <2>3 DEF IsGreeting, Answer
  <1> QED BY <1>5, <1>6

\* A page never waits for nothing: while no message is sent between a new
\* connection and its greeting, and the first connection of a page lives until that
\* greeting, a request for which an established page waits is on its way, being
\* executed, or its answer is on its way, wherever else connections break.
THEOREM NeverWaitsForNothing ==
    ASSUME ~EarlySends, ~FirstDialLost
    PROVE  Spec => []WaitingIsJustified
  <1>1. WaitInv /\ [Next]_vars => WaitInv'
    BY NextWait
  <1> QED BY <1>1, InitWait, WaitShows, PTL DEF Spec

=============================================================================
