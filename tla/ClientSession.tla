--------------------------- MODULE ClientSession ---------------------------
(***************************************************************************)
(* A browser page and the Client objects a doc worker keeps for it: the    *)
(* protocol of app/server/lib/{Comm,Client}.ts and of                      *)
(* app/client/components/{Comm,GristWSConnection}.ts, by which a page that *)
(* loses its websocket resumes where it was, or learns that it has to      *)
(* reload.  Numbered messages (responses and events) go to the page;       *)
(* numbered requests go to the server, and each runs on its own.           *)
(*                                                                         *)
(* A Client has at most one websocket and the page has at most one.  Once  *)
(* it is cut, what is in flight is lost, and the two ends learn of it each *)
(* in its own time; what is sent meanwhile is lost or reported as failed.  *)
(* Ghost variables: executions, expected, inOrder, answeredBy.             *)
(***************************************************************************)
EXTENDS Integers, Sequences, FiniteSets

CONSTANTS
    MaxClients,   \* Client objects made
    MaxRequests,  \* requests numbered by one load of the page
    MaxLives,     \* loads of the page
    MaxBreaks,    \* connections cut, and loads of the page after the first
    MaxEvents,    \* messages that answer nothing
    MaxMissed,    \* clientMaxMissedMessages
    EarlySends,   \* messages may be sent between setConnection and clientConnect
    FirstDialLost \* the first connection of a page may be lost before its clientConnect

ASSUME BoundsAssumption ==
    /\ MaxClients \in Nat \ {0} /\ MaxRequests \in Nat \ {0}
    /\ MaxLives \in Nat \ {0} /\ MaxBreaks \in Nat
    /\ MaxEvents \in Nat /\ MaxMissed \in Nat
    /\ EarlySends \in BOOLEAN /\ FirstDialLost \in BOOLEAN

Clients == 1..MaxClients
ReqIds == 0..MaxRequests - 1
Lives == 1..MaxLives
None == -1        \* null: nothing received yet
Nobody == 0       \* no Client: no websocket, or no clientId
Unspoken == -2    \* an undefined lastReceivedReqId

VARIABLES
    \* the page
    life,         \* which load of the page this is
    attached,     \* _ws: the Client at the other end, or Nobody
    clientId,     \* _clientId as kept in the session storage
    established,  \* _established
    wantReconnect, \* _wantReconnect
    redials,      \* isReconnecting: this is not the first dial of the connection
    firstConnect, \* _firstConnect
    lastSeqId,    \* _lastReceivedSeqId
    nextReqId,    \* nextRequestNumber
    pending,      \* pendingRequests, by number
    reloading,    \* the pane is to be reloaded
    \* the websockets, by Client
    link,         \* "none", "up", "closing" (by the server), "down"
    toServer, toClient,
    \* the Clients
    created,      \* how many there have been
    socket,       \* the Clients with a _websocket
    destroyed, doomed,  \* _destroyed; those with a _destroyTimer
    nextSeqId, missed, windowStart, lastReqId,
    unconfirmed, reloadPending,  \* the Clients with the flag set
    greeting,     \* the lastSeqIds of the sendConnectMessage calls in _isAuthorized
    running,      \* requests being executed: [client, life, req]
    \* the bounds
    breaks, events,
    \* ghosts
    executions,   \* how often each request has been executed
    expected,     \* the number of the next message the page should handle
    inOrder,      \* every message was handled when it was its turn
    answeredBy    \* the load of the page whose request each answer answers

wireVars == <<link, toServer, toClient>>
connVars == <<attached, clientId, established, wantReconnect, redials,
              firstConnect, lastSeqId, reloading>>
pageVars == <<life, connVars, nextReqId, pending>>
resumeVars == <<windowStart, lastReqId, unconfirmed, reloadPending>>
clientVars == <<created, socket, destroyed, doomed, nextSeqId, missed,
                resumeVars, greeting>>
ghostVars == <<executions, expected, inOrder, answeredBy>>
boundVars == <<breaks, events>>
vars == <<pageVars, wireVars, clientVars, running, boundVars, ghostVars>>

Bodies == [type : {"response"}, life : Lives, req : ReqIds] \cup [type : {"event"}]
Numbered == [seqId : Nat, body : Bodies]

Init ==
    /\ life = 1 /\ attached = Nobody /\ clientId = Nobody
    /\ established = FALSE /\ wantReconnect = TRUE /\ redials = FALSE
    /\ firstConnect = TRUE /\ lastSeqId = None /\ nextReqId = 0
    /\ pending = [r \in ReqIds |-> "none"] /\ reloading = FALSE
    /\ link = [c \in Clients |-> "none"]
    /\ toServer = [c \in Clients |-> <<>>] /\ toClient = [c \in Clients |-> <<>>]
    /\ created = 0 /\ socket = {} /\ destroyed = {} /\ doomed = {}
    /\ nextSeqId = [c \in Clients |-> 0] /\ missed = [c \in Clients |-> {}]
    /\ windowStart = [c \in Clients |-> 0] /\ lastReqId = [c \in Clients |-> None]
    /\ unconfirmed = {} /\ reloadPending = {}
    /\ greeting = [c \in Clients |-> <<>>] /\ running = {}
    /\ breaks = 0 /\ events = 0
    /\ executions = [l \in Lives |-> [r \in ReqIds |-> 0]]
    /\ expected = [c \in Clients |-> 0] /\ inOrder = TRUE
    /\ answeredBy = [r \in ReqIds |-> Nobody]

-----------------------------------------------------------------------------
\* Messages to the page

\* What is held from seqId on, and a variant that is one off; the start of the
\* window when what is below seqId is dropped (_dropMissedMessages).
KeptAfter(c, seqId) == {m \in missed[c] : m.seqId > seqId}
Kept(c, seqId) == {m \in missed[c] : m.seqId >= seqId}
StartBefore(c, seqId) == seqId - 1
StartAfter(c, seqId) == IF windowStart[c] < seqId THEN seqId ELSE windowStart[c]

\* A message sent on c's websocket arrives, is lost without notice, or fails.
Fates(c) ==
    IF c \notin socket \/ link[c] = "closing" THEN {"fails"}
    ELSE IF link[c] = "up" THEN {"arrives"} ELSE {"lost", "fails"}

\* sendMessage: what cannot be sent is kept for the next connection, and a
\* Client with too much to keep is destroyed.
MaySend(c) == EarlySends \/ c \notin socket \/ greeting[c] = <<>>
Send(c, body) ==
    IF c \in destroyed THEN UNCHANGED <<nextSeqId, toClient, missed, destroyed, doomed>>
    ELSE \E fate \in Fates(c) :
        LET message == [seqId |-> nextSeqId[c], body |-> body]
            full == fate = "fails" /\ Cardinality(missed[c]) >= MaxMissed
        IN  /\ nextSeqId' = [nextSeqId EXCEPT ![c] = @ + 1]
            /\ toClient' = IF fate = "arrives"
                           THEN [toClient EXCEPT ![c] = Append(@, message)] ELSE toClient
            /\ missed' = IF full THEN [missed EXCEPT ![c] = {}]
                         ELSE IF fate = "fails" THEN [missed EXCEPT ![c] = @ \cup {message}]
                         ELSE missed
            /\ destroyed' = IF full THEN destroyed \cup {c} ELSE destroyed
            /\ doomed' = IF full THEN doomed \ {c} ELSE doomed

\* getMissedMessages(lastSeqId): a gap, or what the page needs; and variants
\* that trust a page which received nothing, or that forget a pending reload.
FirstNeeded(c, last) == IF last = None THEN windowStart[c] ELSE last + 1
Lacks(c, first) == \E i \in first..nextSeqId[c] - 1 : \A m \in missed[c] : m.seqId # i
GapTrusting(c, last) == c \in reloadPending \/ Lacks(c, FirstNeeded(c, last))
GapForgetting(c, last) ==
    (last = None /\ c \in unconfirmed) \/ Lacks(c, FirstNeeded(c, last))
Gap(c, last) ==
    \/ c \in reloadPending
    \/ last = None /\ c \in unconfirmed
    \/ Lacks(c, FirstNeeded(c, last))

\* sendConnectMessage after its await: seamless means that there is no gap.
Greet(c, isNew, seamless, last, fate, queue) ==
    LET handed == IF seamless THEN Kept(c, FirstNeeded(c, last)) ELSE {}
        needReload == ~isNew /\ ~seamless
        sent == fate # "fails"
        drops == sent \/ ~seamless
        settled == IF isNew \/ seamless THEN unconfirmed \ {c} ELSE unconfirmed
        reqId == IF isNew THEN None ELSE lastReqId[c]
    IN  /\ lastReqId' = [lastReqId EXCEPT ![c] = reqId]
        /\ reloadPending' = IF needReload THEN reloadPending \cup {c} ELSE reloadPending \ {c}
        /\ unconfirmed' = IF sent /\ handed # {} THEN settled \cup {c} ELSE settled
        /\ missed' = IF drops THEN [missed EXCEPT ![c] = {}] ELSE missed
        /\ windowStart' = IF drops THEN [windowStart EXCEPT ![c] = StartAfter(c, nextSeqId[c])]
                          ELSE windowStart
        /\ toClient' = [toClient EXCEPT ![c] =
              IF fate # "arrives" THEN queue
              ELSE Append(queue, [client |-> c, missed |-> handed, needReload |-> needReload,
                                  lastReqId |-> IF seamless THEN reqId ELSE Unspoken])]
        /\ link' = [link EXCEPT ![c] =
              IF fate = "arrives" THEN (IF needReload THEN "closing" ELSE "up") ELSE @]

-----------------------------------------------------------------------------
\* The page

\* The ways to list a set of numbers in order: there is one.
Ordered(S) ==
    {p \in [1..Cardinality(S) -> S] :
        /\ \A n \in S : \E i \in DOMAIN p : p[i] = n
        /\ \A i, j \in DOMAIN p : i < j => p[i] < p[j]}

\* What send() does with requests: unestablished, it keeps them.
Transmits(c, reqs) ==
    toServer' = IF link[c] = "up"
                THEN [toServer EXCEPT ![c] = @ \o
                        [i \in DOMAIN reqs |-> [life |-> life, req |-> reqs[i]]]]
                ELSE toServer

\* _makeRequest
MakeRequest ==
    /\ nextReqId < MaxRequests
    /\ ~reloading
    /\ nextReqId' = nextReqId + 1
    /\ pending' = [pending EXCEPT ![nextReqId] = IF established THEN "sent" ELSE "unsent"]
    /\ IF established THEN Transmits(attached, <<nextReqId>>) ELSE UNCHANGED toServer
    /\ UNCHANGED <<life, connVars, link, toClient, clientVars, running, boundVars, ghostVars>>

\* connect(), and _onWebSocketConnection at the other end: the page's Client
\* is reused unless it is gone or has a websocket.
Reuses == clientId # Nobody /\ clientId \notin destroyed /\ clientId \notin socket
Dial ==
    LET c == IF Reuses THEN clientId ELSE created + 1
        atOnce == ~redials \/ ~Reuses
    IN  /\ attached = Nobody /\ wantReconnect /\ ~reloading
        /\ c \in Clients
        /\ created' = IF Reuses THEN created ELSE c
        /\ attached' = c
        /\ socket' = socket \cup {c}
        /\ doomed' = doomed \ {c}
        /\ toServer' = [toServer EXCEPT ![c] = <<>>]
        /\ IF atOnce
           THEN /\ Greet(c, ~redials, FALSE, None, "arrives", <<>>)
                /\ expected' = [expected EXCEPT ![c] = nextSeqId[c]]
                /\ UNCHANGED greeting
           ELSE /\ greeting' = [greeting EXCEPT ![c] = Append(@, lastSeqId)]
                /\ link' = [link EXCEPT ![c] = "up"]
                /\ toClient' = [toClient EXCEPT ![c] = <<>>]
                /\ UNCHANGED <<resumeVars, missed, expected>>
        /\ UNCHANGED <<life, clientId, established, wantReconnect, redials, firstConnect,
                       lastSeqId, nextReqId, pending, reloading, destroyed, nextSeqId,
                       running, boundVars, executions, inOrder, answeredBy>>

\* A page that ends its connection: what is on the way is lost.
HangsUp(c) ==
    /\ link' = [link EXCEPT ![c] = "down"]
    /\ toServer' = [toServer EXCEPT ![c] = <<>>]
    /\ toClient' = [toClient EXCEPT ![c] = <<>>]

\* disconnect()
Disconnects ==
    /\ HangsUp(attached)
    /\ attached' = Nobody
    /\ established' = FALSE
    /\ wantReconnect' = FALSE

\* A set of numbered messages, without gaps, is handled in order.
Settles(msgs) ==
    {r \in ReqIds : pending[r] \in {"unsent", "sent"} /\
        \E m \in msgs : m.body.type = "response" /\ m.body.req = r}
Handle(c, msgs) ==
    /\ answeredBy' = [r \in ReqIds |->
          IF r \notin Settles(msgs) THEN answeredBy[r]
          ELSE (CHOOSE m \in msgs : m.body.type = "response" /\ m.body.req = r).body.life]
    /\ inOrder' = (inOrder /\ \A m \in msgs :
          m.seqId \in expected[c]..expected[c] + Cardinality(msgs) - 1)
    /\ expected' = [expected EXCEPT ![c] = @ + Cardinality(msgs)]
    /\ UNCHANGED executions
HighestOf(msgs) == (CHOOSE m \in msgs : \A n \in msgs : n.seqId <= m.seqId).seqId
\* The first of the messages is not the one after the last received.
Unexpected(msgs) ==
    /\ lastSeqId # None /\ msgs # {}
    /\ \A m \in msgs : m.seqId # lastSeqId + 1

\* _processReceivedMessage on a numbered message.
PageReceivesMessage(c, message, rest) ==
    IF Unexpected({message})
    THEN /\ Disconnects
         /\ UNCHANGED <<lastSeqId, pending, ghostVars>>
    ELSE /\ lastSeqId' = message.seqId
         /\ toClient' = rest
         /\ IF established
            THEN /\ Handle(c, {message})
                 /\ pending' = [r \in ReqIds |->
                       IF r \in Settles({message}) THEN "done" ELSE pending[r]]
            ELSE UNCHANGED <<pending, ghostVars>>
         /\ UNCHANGED <<attached, established, wantReconnect, link, toServer>>

\* _resendPendingRequest: the requests that the server has not read are sent
\* again, those it does not speak for are rejected; and variants that send again
\* whatever has no answer, or nothing.
SpokenForNever(r, lastReceived) == FALSE
SpokenForAlways(r, lastReceived) == lastReceived # Unspoken
SpokenFor(r, lastReceived) == lastReceived # Unspoken /\ r <= lastReceived
Resends(r, lastReceived) ==
    \/ pending[r] = "unsent"
    \/ pending[r] = "sent" /\ lastReceived # Unspoken /\ ~SpokenFor(r, lastReceived)
Rejects(r, lastReceived) == pending[r] = "sent" /\ lastReceived = Unspoken

\* _processReceivedMessage on clientConnect.
PageReceivesConnect(c, message, rest) ==
    LET needReload == message.needReload \/ (message.client # clientId /\ ~firstConnect)
        answered == Settles(message.missed)
        Sent(r) == r \notin answered /\ Resends(r, message.lastReqId)
    IN  IF established
        THEN /\ toClient' = rest
             /\ UNCHANGED <<connVars, pending, link, toServer, ghostVars>>
        ELSE /\ clientId' = message.client
             /\ firstConnect' = FALSE
             /\ UNCHANGED redials
             /\ \/ /\ needReload
                   /\ Disconnects
                   /\ reloading' = TRUE
                   /\ pending' = [r \in ReqIds |->
                         IF pending[r] = "sent" THEN "rejected" ELSE pending[r]]
                   /\ UNCHANGED <<lastSeqId, ghostVars>>
                \/ /\ ~needReload /\ Unexpected(message.missed)
                   /\ Disconnects
                   /\ UNCHANGED <<lastSeqId, reloading, pending, ghostVars>>
                \/ /\ ~needReload /\ ~Unexpected(message.missed)
                   /\ established' = TRUE
                   /\ lastSeqId' = IF message.missed = {} THEN lastSeqId
                                   ELSE HighestOf(message.missed)
                   /\ Handle(c, message.missed)
                   /\ pending' = [r \in ReqIds |->
                         IF r \in answered THEN "done" ELSE IF Sent(r) THEN "sent"
                         ELSE IF Rejects(r, message.lastReqId) THEN "rejected" ELSE pending[r]]
                   /\ toClient' = rest
                   /\ \E reqs \in Ordered({r \in ReqIds : Sent(r)}) : Transmits(c, reqs)
                   /\ UNCHANGED <<attached, wantReconnect, reloading, link>>

PageReceives ==
    /\ attached # Nobody /\ toClient[attached] # <<>>
    /\ LET c == attached
           message == Head(toClient[c])
           rest == [toClient EXCEPT ![c] = Tail(@)]
       IN  IF "seqId" \in DOMAIN message
           THEN /\ PageReceivesMessage(c, message, rest)
                /\ UNCHANGED <<clientId, redials, firstConnect, reloading>>
           ELSE PageReceivesConnect(c, message, rest)
    /\ UNCHANGED <<life, nextReqId, clientVars, running, boundVars>>

\* onclose: the page will dial again.
PageNoticesClose ==
    /\ attached # Nobody /\ link[attached] = "down"
    /\ attached' = Nobody /\ established' = FALSE /\ redials' = TRUE
    /\ UNCHANGED <<life, clientId, wantReconnect, firstConnect, lastSeqId, reloading,
                   nextReqId, pending, wireVars, clientVars, running, boundVars, ghostVars>>

\* A new GristWSConnection.
FreshConnection ==
    /\ IF attached = Nobody THEN UNCHANGED wireVars ELSE HangsUp(attached)
    /\ attached' = Nobody /\ established' = FALSE /\ wantReconnect' = TRUE
    /\ redials' = FALSE /\ firstConnect' = TRUE /\ lastSeqId' = None
    /\ reloading' = FALSE
    /\ UNCHANGED <<clientId, clientVars, running, events, executions, expected, inOrder>>

\* The app reloads its pane: the connection is disposed, and its requests are
\* rejected (releaseDocConnection).
ReloadPane ==
    /\ reloading
    /\ FreshConnection
    /\ pending' = [r \in ReqIds |->
          IF pending[r] \in {"unsent", "sent"} THEN "rejected" ELSE pending[r]]
    /\ UNCHANGED <<life, nextReqId, breaks, answeredBy>>

\* The user reloads the page: it forgets all but the clientId.
ReloadPage ==
    /\ life < MaxLives /\ breaks < MaxBreaks
    /\ life' = life + 1
    /\ breaks' = breaks + 1
    /\ FreshConnection
    /\ nextReqId' = 0
    /\ pending' = [r \in ReqIds |-> "none"]
    /\ answeredBy' = [r \in ReqIds |-> Nobody]

-----------------------------------------------------------------------------
\* The server

serverFrame == <<pageVars, boundVars, expected, inOrder, answeredBy>>

\* The rest of sendConnectMessage, once _isAuthorized has answered.
ConnectSends(c, i, authorized, fate) ==
    LET last == greeting[c][i]
    IN  /\ fate \in Fates(c)
        /\ Greet(c, FALSE, authorized /\ ~Gap(c, last), last, fate, toClient[c])
        /\ greeting' = [greeting EXCEPT ![c] =
              SubSeq(@, 1, i - 1) \o SubSeq(@, i + 1, Len(@))]
        /\ UNCHANGED <<serverFrame, toServer, created, socket, destroyed, doomed, nextSeqId,
                       running, executions>>

\* _onMessage, up to the call of the method.
ServerReceives(c) ==
    /\ c \in socket /\ toServer[c] # <<>>
    /\ LET request == Head(toServer[c])
       IN  /\ lastReqId' = [lastReqId EXCEPT ![c] = request.req]
           /\ running' = running \cup {[client |-> c, life |-> request.life, req |-> request.req]}
           /\ executions' = [executions EXCEPT ![request.life][request.req] = @ + 1]
    /\ toServer' = [toServer EXCEPT ![c] = Tail(@)]
    /\ UNCHANGED <<serverFrame, link, toClient, created, socket, destroyed, doomed, nextSeqId,
                   missed, windowStart, unconfirmed, reloadPending, greeting>>

\* _onMessage, from the answer of the method.
Complete(x) ==
    /\ MaySend(x.client)
    /\ running' = running \ {x}
    /\ Send(x.client, [type |-> "response", life |-> x.life, req |-> x.req])
    /\ UNCHANGED <<serverFrame, link, toServer, created, socket, resumeVars, greeting, executions>>

\* Any other message for the client of a page.
Event(c) ==
    /\ c <= created /\ events < MaxEvents /\ MaySend(c)
    /\ events' = events + 1
    /\ Send(c, [type |-> "event"])
    /\ UNCHANGED <<pageVars, link, toServer, created, socket, resumeVars, greeting, running,
                   breaks, ghostVars>>

\* _onClose
ServerNoticesClose(c) ==
    /\ c \in socket /\ link[c] = "down"
    /\ socket' = socket \ {c}
    /\ doomed' = IF c \in destroyed THEN doomed ELSE doomed \cup {c}
    /\ UNCHANGED <<serverFrame, wireVars, created, destroyed, nextSeqId, missed, resumeVars,
                   greeting, running, executions>>

\* destroy(), by the timer.
DestroyTimer(c) ==
    /\ c \in doomed
    /\ doomed' = doomed \ {c}
    /\ destroyed' = destroyed \cup {c}
    /\ missed' = [missed EXCEPT ![c] = {}]
    /\ UNCHANGED <<serverFrame, wireVars, created, socket, nextSeqId, resumeVars, greeting,
                   running, executions>>

\* What is left out where FirstDialLost is FALSE.
MayBreak(c) ==
    /\ breaks < MaxBreaks
    /\ FirstDialLost \/ redials \/ established \/ attached # c

\* interruptConnection: it removes the listeners, so that no timer starts.
Interrupt(c) ==
    /\ c \in socket /\ MayBreak(c)
    /\ breaks' = breaks + 1
    /\ socket' = socket \ {c}
    /\ HangsUp(c)
    /\ UNCHANGED <<pageVars, created, destroyed, doomed, nextSeqId, missed, resumeVars, greeting,
                   running, events, ghostVars>>

-----------------------------------------------------------------------------
\* The network

\* A connection is cut.
Cut(c) ==
    /\ link[c] \in {"up", "closing"} /\ MayBreak(c)
    /\ breaks' = breaks + 1
    /\ HangsUp(c)
    /\ UNCHANGED <<pageVars, clientVars, running, events, ghostVars>>

\* A dial that does not reach the server: onclose again.
DialFails ==
    /\ attached = Nobody /\ wantReconnect /\ ~reloading /\ MayBreak(attached)
    /\ breaks' = breaks + 1
    /\ redials' = TRUE
    /\ UNCHANGED <<life, attached, clientId, established, wantReconnect, firstConnect,
                   lastSeqId, reloading, nextReqId, pending, wireVars, clientVars, running,
                   events, ghostVars>>

\* A connection that the server closes ends once all has been delivered.
CloseCompletes(c) ==
    /\ link[c] = "closing" /\ toClient[c] = <<>>
    /\ HangsUp(c)
    /\ UNCHANGED <<pageVars, clientVars, running, boundVars, ghostVars>>

-----------------------------------------------------------------------------

Greets(c) ==
    \E i \in DOMAIN greeting[c], authorized \in BOOLEAN, fate \in {"arrives", "lost", "fails"} :
        ConnectSends(c, i, authorized, fate)
PageActs == MakeRequest \/ Dial \/ DialFails \/ PageReceives \/ PageNoticesClose \/ ReloadPane
                \/ ReloadPage
ClientActs(c) == Greets(c) \/ ServerReceives(c) \/ Event(c) \/ ServerNoticesClose(c)
                   \/ DestroyTimer(c) \/ Interrupt(c) \/ Cut(c) \/ CloseCompletes(c)
Next == PageActs \/ (\E c \in Clients : ClientActs(c)) \/ (\E x \in running : Complete(x))

Spec == Init /\ [][Next]_vars

\* Messages arrive, the ends of a cut connection learn of it, methods answer,
\* access checks return, timers of the page run.  Nothing makes a connection
\* break, a timer of the server fire or a user act.
FairSpec ==
    /\ Spec
    /\ WF_vars(Dial) /\ WF_vars(PageReceives) /\ WF_vars(PageNoticesClose) /\ WF_vars(ReloadPane)
    /\ \A c \in Clients : /\ WF_vars(Greets(c)) /\ WF_vars(ServerReceives(c))
                          /\ WF_vars(ServerNoticesClose(c)) /\ WF_vars(CloseCompletes(c))
    /\ \A c \in Clients, l \in Lives, r \in ReqIds :
          WF_vars(LET x == [client |-> c, life |-> l, req |-> r] IN x \in running /\ Complete(x))

-----------------------------------------------------------------------------
\* Properties

ConnectMessages == [client : Clients, missed : SUBSET Numbered, needReload : BOOLEAN,
                    lastReqId : ReqIds \cup {None, Unspoken}]
Requests == [life : Lives, req : ReqIds]

\* The values that the variables take.
TypeOK ==
    /\ life \in Lives
    /\ attached \in Clients \cup {Nobody} /\ clientId \in Clients \cup {Nobody}
    /\ established \in BOOLEAN /\ wantReconnect \in BOOLEAN /\ redials \in BOOLEAN
    /\ firstConnect \in BOOLEAN /\ reloading \in BOOLEAN
    /\ lastSeqId \in Nat \cup {None}
    /\ nextReqId \in 0..MaxRequests
    /\ pending \in [ReqIds -> {"none", "unsent", "sent", "done", "rejected"}]
    /\ link \in [Clients -> {"none", "up", "closing", "down"}]
    /\ \A c \in Clients :
         /\ \A i \in DOMAIN toServer[c] : toServer[c][i] \in Requests
         /\ \A i \in DOMAIN toClient[c] :
              LET m == toClient[c][i]
              IN  IF "seqId" \in DOMAIN m THEN m.seqId \in Nat /\ m.body \in Bodies
                  ELSE /\ m.client \in Clients /\ m.needReload \in BOOLEAN
                       /\ \A n \in m.missed : n.seqId \in Nat /\ n.body \in Bodies
                       /\ m.lastReqId \in ReqIds \cup {None, Unspoken}
         /\ \A m \in missed[c] : m.seqId \in Nat /\ m.body \in Bodies
         /\ \A i \in DOMAIN greeting[c] : greeting[c][i] \in Nat \cup {None}
    /\ created \in 0..MaxClients
    /\ socket \subseteq Clients /\ destroyed \subseteq Clients /\ doomed \subseteq Clients
    /\ unconfirmed \subseteq Clients /\ reloadPending \subseteq Clients
    /\ nextSeqId \in [Clients -> Nat] /\ windowStart \in [Clients -> Nat]
    /\ expected \in [Clients -> Nat]
    /\ lastReqId \in [Clients -> ReqIds \cup {None}]
    /\ running \subseteq [client : Clients, life : Lives, req : ReqIds]

\* No request is executed twice, however often its page reconnects: what is
\* sent again had not been read (Comm._resendPendingRequest, _lastReceivedReqId).
AtMostOnce == \A l \in Lives, r \in ReqIds : executions[l][r] <= 1

\* A page that was told neither to reload nor to stop has handled every
\* numbered message of its Client up to the last one, each once and in order
\* (getMissedMessages and its gaps, the windows and flags it relies on).
MessagesInOrder == inOrder

\* A request for which an established page waits is on its way, being executed,
\* or its answer is on its way: a page never waits for nothing on a connection
\* that works (what the comments at getMissedMessages call load-bearing).
WaitingIsJustified ==
    \A r \in ReqIds :
        (established /\ pending[r] = "sent" /\ link[attached] = "up") =>
            \/ \E i \in DOMAIN toServer[attached] :
                  toServer[attached][i] = [life |-> life, req |-> r]
            \/ [client |-> attached, life |-> life, req |-> r] \in running
            \/ \E i \in DOMAIN toClient[attached] :
                  LET m == toClient[attached][i]
                  IN  /\ "seqId" \in DOMAIN m
                      /\ m.body = [type |-> "response", life |-> life, req |-> r]

\* A page that has given up its connection without being told to reload.
Stranded == ~wantReconnect /\ ~reloading

\* A page goes on reconnecting as long as it loses its connection (the comment on
\* GristWSConnection): it stops for a reload only.  EarlySends makes it false.
NeverStranded == ~Stranded

\* VIOLATED.  The answer to a request is the answer to that request, and not
\* to one that an earlier load of the page gave the same number.
AnswersMatch == \A r \in ReqIds : answeredBy[r] \in {Nobody, life}

\* Every request is settled in the end, or its page reloaded, unless the page
\* has been stranded.
RequestsSettle ==
    \A r \in ReqIds : pending[r] \in {"unsent", "sent"}
                        ~> (pending[r] \in {"none", "done", "rejected"} \/ Stranded)
=============================================================================
