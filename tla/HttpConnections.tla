----------------------------- MODULE HttpConnections -----------------------------
\* The connections of the server that ExpressKernelServer listens with, from
\* their start until close() resolves: requests that are answered, fail and go
\* through the error handlers, and upgrades, which WebSocketRealtimeServer turns
\* into clients of a WebSocketEventHub. All handlers here run without an await;
\* what interleaves are connections, clients, broadcasts and close().
EXTENDS HttpErrors, FiniteSets

CONSTANTS
    Sockets,         \* connections
    Identities,      \* what an authenticator makes of a request
    Paths,           \* paths of upgrades
    WebsocketPaths,  \* those that a WebSocketRealtimeServer may be for
    ErrorHandlers,   \* what may be registered as error handlers
    Handlers,        \* what its options.handlers may do with an error
    Errors,          \* errors of a request
    Recipients,      \* what a recipient resolver may return
    MaxAttached,     \* bound: calls of attach()
    MaxRequests,     \* bound: requests of a connection
    MaxRegistered,   \* bound: calls of register() for a client
    MaxBroadcasts    \* bound: messages of the hub

ASSUME HandlersAssumption ==
    /\ ErrorHandlers \subseteq Seq({"HttpErrorHandler"})
    /\ Handlers \subseteq Seq(CustomKinds)

\* A resolver returns an array.
ASSUME RecipientsAssumption ==
    \A recipients \in Recipients : recipients \in Seq(ToSet(recipients))

ASSUME BoundsAssumption == {MaxAttached, MaxRequests, MaxRegistered, MaxBroadcasts} \subseteq Nat

VARIABLES
    errorHandlers,   \* those of this server
    attached,        \* the websocketPath of every attach()
    server,          \* "listening", "closing", "closed"
    socket,          \* what each connection is for
    requests,        \* requests so far, per connection
    clients,         \* WebSocketEventHub.clients
    registered,      \* identities of each client, one per 'close' listener
    received,        \* what a client that is OPEN was sent
    late,            \* history: clients registered after they had closed
    broadcasts       \* messages so far

httpVars == <<errorHandlers, requests>>
hubVars == <<clients, registered, received, late, broadcasts>>
vars == <<attached, server, socket, httpVars, hubVars>>

(***************************************************************************)
(* What a connection is for: nothing now, a request, one whose answer has     *)
(* begun, one that a handler claimed without an answer, an upgrade nobody     *)
(* took, a client that is OPEN, or CLOSING.                                  *)
(***************************************************************************)
Alive == {"idle", "request", "responding", "claimed", "ignored", "open", "leaving"}

Init ==
    /\ errorHandlers \in ErrorHandlers
    /\ attached = <<>>
    /\ server = "listening"
    /\ socket = [s \in Sockets |-> "none"]
    /\ requests = [s \in Sockets |-> 0]
    /\ clients = <<>>
    /\ registered = [s \in Sockets |-> <<>>]
    /\ received = [s \in Sockets |-> <<>>]
    /\ late = {}
    /\ broadcasts = 0

\* WebSocketRealtimeServer.attach()
Attach(path) ==
    /\ Len(attached) < MaxAttached
    /\ attached' = Append(attached, path)
    /\ UNCHANGED <<server, socket, httpVars, hubVars>>

Connect(s) ==
    /\ server = "listening"
    /\ socket[s] = "none"
    /\ socket' = [socket EXCEPT ![s] = "idle"]
    /\ UNCHANGED <<attached, server, httpVars, hubVars>>

(***************************************************************************)
(* Requests.                                                                 *)
(***************************************************************************)
Request(s) ==
    /\ socket[s] = "idle"
    /\ requests[s] < MaxRequests
    /\ socket' = [socket EXCEPT ![s] = "request"]
    /\ requests' = [requests EXCEPT ![s] = @ + 1]
    /\ UNCHANGED <<attached, server, errorHandlers, hubVars>>

\* A controller sends the head of a response, and the rest later.
Responds(s) ==
    /\ socket[s] = "request"
    /\ socket' = [socket EXCEPT ![s] = "responding"]
    /\ UNCHANGED <<attached, server, httpVars, hubVars>>

Answers(s) ==
    /\ socket[s] \in {"request", "responding"}
    /\ socket' = [socket EXCEPT ![s] = "idle"]
    /\ UNCHANGED <<attached, server, httpVars, hubVars>>

\* What the error handlers make of an error, given what those of the application
\* do with it.
Failure(s, error, customs) ==
    ErrorHandled(errorHandlers, customs, error, IF socket[s] = "responding" THEN 200 ELSE 0)

Fails(s, error) ==
    /\ socket[s] \in {"request", "responding"}
    /\ \E customs \in Handlers :
          LET end == Failure(s, error, customs).end
          IN socket' = [socket EXCEPT ![s] = CASE end = "answered"  -> "idle"
                                               [] end = "claimed"   -> "claimed"
                                               [] OTHER             -> "closed"]
    /\ UNCHANGED <<attached, server, httpVars, hubVars>>

(***************************************************************************)
(* WebSocketEventHub.                                                        *)
(***************************************************************************)
ClientsOf(identity) == IF identity \in DOMAIN clients THEN clients[identity] ELSE {}

\* Mutant: a client takes the place of the others of its identity.
RegisterAlone(s, identity, isOpen) ==
    /\ clients' = [i \in DOMAIN clients \cup {identity} |->
                      IF i = identity THEN {s} ELSE clients[i]]
    /\ registered' = [registered EXCEPT ![s] = Append(@, identity)]
    /\ received' = [received EXCEPT ![s] = IF isOpen THEN Append(@, "connection_ack") ELSE @]

\* register(): the client joins the others of its identity and is told, if it
\* is OPEN.
Register(s, identity, isOpen) ==
    /\ clients' = [i \in DOMAIN clients \cup {identity} |->
                      IF i = identity THEN ClientsOf(i) \cup {s} ELSE clients[i]]
    /\ registered' = [registered EXCEPT ![s] = Append(@, identity)]
    /\ received' = [received EXCEPT ![s] = IF isOpen THEN Append(@, "connection_ack") ELSE @]

\* Mutant: the identity leaves with one of its clients.
UnregisterAll(s) ==
    clients' = [i \in DOMAIN clients \ ToSet(registered[s]) |-> clients[i]]

\* unregister() by every 'close' listener of the client: nothing is left of an
\* identity without clients.
Unregister(s) ==
    LET left == [i \in DOMAIN clients |->
                    IF i \in ToSet(registered[s]) THEN clients[i] \ {s} ELSE clients[i]]
    IN clients' = [i \in {j \in DOMAIN left : left[j] # {}} |-> left[i]]

\* An application registers a client again, under another identity or the same,
\* and perhaps too late.
RegisterAgain(s, identity) ==
    /\ Len(registered[s]) \in 1..MaxRegistered - 1
    /\ Register(s, identity, socket[s] = "open")
    /\ late' = IF socket[s] = "closed" THEN late \cup {s} ELSE late
    /\ UNCHANGED <<attached, server, socket, httpVars, broadcasts>>

\* sendToRecipient() for every recipient in turn, the same one again if it is
\* named twice: clients that are not OPEN are left out.
Send(recipients) ==
    /\ broadcasts < MaxBroadcasts
    /\ broadcasts' = broadcasts + 1
    /\ received' = [s \in Sockets |->
          LET times == Cardinality({n \in DOMAIN recipients : s \in ClientsOf(recipients[n])})
          IN IF socket[s] = "open" THEN received[s] \o [n \in 1..times |-> broadcasts']
             ELSE received[s]]
    /\ UNCHANGED <<attached, server, socket, httpVars, clients, registered, late>>

\* broadcast() of an event to those the resolver names, and broadcastToAll().
Broadcast == \E recipients \in Recipients : Send(recipients)
BroadcastToAll == Send(SetToSeq(DOMAIN clients))

(***************************************************************************)
(* Upgrades.                                                                 *)
(***************************************************************************)
\* Mutant: an upgrade that is refused keeps its connection.
RefuseWithoutDestroy(s, path) ==
    /\ path \in ToSet(attached)
    /\ socket' = [socket EXCEPT ![s] = "refused"]
    /\ UNCHANGED <<clients, registered, received>>

\* The authenticator throws, 401 is written and the socket destroyed; or ws
\* finds the handshake invalid and does the same.
Refuse(s, path) ==
    /\ path \in ToSet(attached)
    /\ socket' = [socket EXCEPT ![s] = "closed"]
    /\ UNCHANGED <<clients, registered, received>>

\* No listener of the server is for the path: each returns, or throws as the path
\* is none and the application handles that as an uncaught exception.
Ignore(s, path) ==
    /\ path \notin ToSet(attached)
    /\ socket' = [socket EXCEPT ![s] = "ignored"]
    /\ UNCHANGED <<clients, registered, received>>

\* The first listener for the path registers the client. ws throws when another
\* one upgrades the same socket, and that one destroys it, what it was sent too.
Accept(s, path, identity) ==
    /\ path \in ToSet(attached)
    /\ LET alone == Len(SelectSeq(attached, LAMBDA p : p = path)) = 1
       IN /\ Register(s, identity, alone)
          /\ socket' = [socket EXCEPT ![s] = IF alone THEN "open" ELSE "leaving"]

\* A request to upgrade; without a listener node takes it for another request.
Upgrade(s) ==
    /\ socket[s] = "idle"
    /\ attached # <<>>
    /\ \E path \in Paths :
          \/ Ignore(s, path)
          \/ Refuse(s, path)
          \/ \E identity \in Identities : Accept(s, path, identity)
    /\ UNCHANGED <<attached, server, httpVars, late, broadcasts>>

(***************************************************************************)
(* Connections end.                                                         *)
(***************************************************************************)
\* The other side goes away; a client may begin to close instead.
Disconnect(s) ==
    /\ socket[s] \in Alive
    /\ \/ /\ socket[s] = "open"
          /\ socket' = [socket EXCEPT ![s] = "leaving"]
          /\ UNCHANGED clients
       \/ /\ socket' = [socket EXCEPT ![s] = "closed"]
          /\ IF socket[s] \in {"open", "leaving"} THEN Unregister(s) ELSE UNCHANGED clients
    /\ received' = [received EXCEPT ![s] = <<>>]
    /\ UNCHANGED <<attached, server, httpVars, registered, late, broadcasts>>

\* ws waits no longer for the other side to close and emits 'close'.
Closes(s) ==
    /\ socket[s] = "leaving"
    /\ Unregister(s)
    /\ socket' = [socket EXCEPT ![s] = "closed"]
    /\ UNCHANGED <<attached, server, httpVars, registered, received, late, broadcasts>>

\* node's keep-alive timeout; close() does the same to idle connections at once.
TimesOut(s) ==
    /\ socket[s] = "idle"
    /\ socket' = [socket EXCEPT ![s] = "closed"]
    /\ UNCHANGED <<attached, server, httpVars, hubVars>>

\* ExpressKernelServer.close(): the server takes no more connections.
Close ==
    /\ server = "listening"
    /\ server' = "closing"
    /\ UNCHANGED <<attached, socket, httpVars, hubVars>>

\* node calls back once all connections have ended, and close() resolves.
Closed ==
    /\ server = "closing"
    /\ \A s \in Sockets : socket[s] \in {"none", "closed"}
    /\ server' = "closed"
    /\ UNCHANGED <<attached, socket, httpVars, hubVars>>

Next ==
    \/ \E path \in WebsocketPaths : Attach(path)
    \/ Broadcast
    \/ BroadcastToAll
    \/ Close
    \/ Closed
    \/ \E s \in Sockets :
          \/ Connect(s)
          \/ Request(s)
          \/ Responds(s)
          \/ Answers(s)
          \/ \E error \in Errors : Fails(s, error)
          \/ \E identity \in Identities : RegisterAgain(s, identity)
          \/ Upgrade(s)
          \/ Disconnect(s)
          \/ Closes(s)
          \/ TimesOut(s)

\* Requests are answered or fail, node's and ws's timers expire, node calls back.
\* Nothing makes a client go, or a handler that claimed a request answer it.
Fairness ==
    /\ WF_vars(Closed)
    /\ \A s \in Sockets :
          /\ WF_vars(Answers(s) \/ \E error \in Errors : Fails(s, error))
          /\ WF_vars(Closes(s))
          /\ WF_vars(TimesOut(s))

Spec == Init /\ [][Next]_vars /\ Fairness
-----------------------------------------------------------------------------
\* The hub knows every client that has not closed under all its identities, and
\* beside those only clients that were registered too late: their 'close' is
\* over, and they stay.
HubMirrorsSockets ==
    \A i \in Identities :
        LET alive == {s \in Sockets : socket[s] \in {"open", "leaving"}
                                      /\ i \in ToSet(registered[s])}
        IN /\ alive \subseteq ClientsOf(i)
           /\ ClientsOf(i) \subseteq alive \cup late
           /\ i \in DOMAIN clients => ClientsOf(i) # {}

\* Of two connections of one identity the one that joined later has been sent
\* the end of what the other was sent, each after its acknowledgement, whoever
\* else of this identity came and went meanwhile.
SameStream ==
    \A s, t \in Sockets :
        (/\ socket[s] = "open" /\ socket[t] = "open"
         /\ Len(registered[s]) = 1 /\ registered[s] = registered[t])
        => /\ Head(received[s]) = "connection_ack"
           /\ \/ IsSuffix(Tail(received[s]), Tail(received[t]))
              \/ IsSuffix(Tail(received[t]), Tail(received[s]))

\* What docs/reference/express-kernel-server.md says of HttpErrorHandler; a
\* number that is no status cannot be sent.
Documented(error) ==
    CASE error.syntax                      -> 400
      [] ~error.syntax /\ error.tooLarge   -> 413
      [] OTHER -> IF HttpStatus(error) \in StatusCodes THEN HttpStatus(error) ELSE 500

\* Whatever a request fails with, it is answered as documented, or by a handler
\* of the application, or not at all; and never as if nothing had happened once
\* a part of another answer is with the client. Only errors that are malformed may
\* be answered with 500 whatever their status.
FailuresAnswered ==
    \A s \in {t \in Sockets : socket[t] \in {"request", "responding"}},
       error \in Errors, customs \in Handlers :
        LET result == Failure(s, error, customs)
            begun == socket[s] = "responding"
            declined == ToSet(customs) \subseteq {"declines"}
        IN /\ result.end = "answered" => ~begun
           /\ result.end = "destroyed" => begun \/ "answersAndDeclines" \in ToSet(customs)
           /\ result.end = "claimed" => "claims" \in ToSet(customs)
           /\ result.end = "answered" /\ declined /\ errorHandlers # <<>> =>
                 \/ result.head = Documented(error)
                 \/ result.head = 500 /\ error.malformed

\* close() resolves, unless a client stays, an upgrade was ignored or a handler
\* claimed a request and the other side does not go: it has no time limit.
CloseSettles ==
    \/ server = "closing" ~> server = "closed"
    \/ []<>(\E s \in Sockets : socket[s] \in {"open", "ignored", "claimed"})
=================================================================================
