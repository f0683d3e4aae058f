-------------------------- MODULE HttpConnectionsProofs --------------------------
\* Proof that the hub of WebSocketEventHub holds the clients whose connection is
\* open and, beside them, only those that were registered too late, and that the
\* open clients of one identity are sent the same messages in the same order, for
\* any connections, identities and bounds. And that the error handlers answer a
\* request as documented, for any errors and any row of handlers.
EXTENDS HttpConnections, FiniteSetTheorems, WellFoundedInduction, TLAPS

\* A connection that is, or has been, a client's.
Client(s) == socket[s] \in {"open", "leaving", "closed"}

Shape ==
    /\ socket = [s \in Sockets |-> socket[s]]
    /\ registered \in [Sockets -> Seq(Identities)]
    /\ late \subseteq Sockets
    /\ DOMAIN clients \subseteq Identities
    /\ \A i \in DOMAIN clients : clients[i] \subseteq Sockets

\* Only clients are registered, and too late only those that have closed.
RegisteredAreClients ==
    /\ \A s \in Sockets : registered[s] # <<>> => Client(s)
    /\ \A s \in late : socket[s] = "closed" /\ registered[s] # <<>>

IInv == Shape /\ RegisteredAreClients /\ HubMirrorsSockets

\* The clients under i that have not closed.
Living(i) ==
    {s \in Sockets : socket[s] \in {"open", "leaving"} /\ i \in ToSet(registered[s])}

Mirrored(i) ==
    /\ Living(i) \subseteq ClientsOf(i)
    /\ ClientsOf(i) \subseteq Living(i) \cup late
    /\ i \in DOMAIN clients => ClientsOf(i) # {}

LEMMA HubIsMirrored == HubMirrorsSockets <=> \A i \in Identities : Mirrored(i)
  BY DEF HubMirrorsSockets, Mirrored, Living

LEMMA InitIInv == Init => IInv
<1> SUFFICES ASSUME Init PROVE IInv
  OBVIOUS
<1> USE DEF Init
<1>1. Shape
  BY DEF Shape
<1>2. RegisteredAreClients
  BY DEF RegisteredAreClients
<1>3. ASSUME NEW i \in Identities PROVE Mirrored(i)
  BY DEF Mirrored, Living, ClientsOf
<1> QED
  BY <1>1, <1>2, <1>3, HubIsMirrored DEF IInv

\* A connection that was never a client's may do what it likes.
LEMMA SocketMoves ==
  ASSUME IInv, NEW s \in Sockets, NEW state,
         ~Client(s) \/ state = socket[s],
         socket' = [socket EXCEPT ![s] = state],
         UNCHANGED <<clients, registered, late>>
  PROVE  IInv'
<1> USE DEF IInv
<1>1. Shape'
  BY DEF Shape
<1>2. registered[s] = <<>> \/ state = socket[s]
  BY DEF RegisteredAreClients
<1>3. RegisteredAreClients'
  BY <1>2 DEF RegisteredAreClients, Client, Shape
<1>4. \A i \in Identities : Living(i)' = Living(i)
  BY <1>2 DEF Living, Shape, ToSet
<1>5. HubMirrorsSockets'
  BY <1>4, HubIsMirrored DEF HubMirrorsSockets, Living, Mirrored, ClientsOf
<1> QED
  BY <1>1, <1>3, <1>5

LEMMA AppendToSet ==
  ASSUME NEW S, NEW seq \in Seq(S), NEW e \in S
  PROVE  ToSet(Append(seq, e)) = ToSet(seq) \cup {e}
<1>1. /\ DOMAIN Append(seq, e) = DOMAIN seq \cup {Len(seq) + 1}
      /\ Append(seq, e)[Len(seq) + 1] = e
      /\ \A n \in DOMAIN seq : Append(seq, e)[n] = seq[n]
  OBVIOUS
<1> QED
  BY <1>1 DEF ToSet

\* One more listener: the identity has one more client.
LEMMA RegisterIInv ==
  ASSUME IInv, NEW s \in Sockets, NEW identity \in Identities, NEW isOpen,
         Register(s, identity, isOpen),
         NEW state, socket' = [socket EXCEPT ![s] = state],
         \/ state \in {"open", "leaving"} /\ late' = late /\ (Client(s) => state = socket[s])
         \/ state = "closed" /\ socket[s] = "closed" /\ late' = late \cup {s}
  PROVE  IInv'
<1> USE DEF IInv
<1>1. /\ DOMAIN clients' = DOMAIN clients \cup {identity}
      /\ \A i \in Identities : ClientsOf(i)' = IF i = identity THEN ClientsOf(i) \cup {s} ELSE ClientsOf(i)
  BY DEF Register, ClientsOf
<1>2. registered' = [registered EXCEPT ![s] = Append(@, identity)]
  BY DEF Register
<1>3. /\ registered' \in [Sockets -> Seq(Identities)]
      /\ registered'[s] # <<>>
      /\ ToSet(registered'[s]) = ToSet(registered[s]) \cup {identity}
      /\ \A t \in Sockets \ {s} : registered'[t] = registered[t] /\ socket'[t] = socket[t]
      /\ socket'[s] = state
  <2>1. registered[s] \in Seq(Identities)
    BY DEF Shape
  <2>2. ToSet(Append(registered[s], identity)) = ToSet(registered[s]) \cup {identity}
    BY <2>1, AppendToSet
  <2>3. registered'[s] = Append(registered[s], identity) /\ registered'[s] # <<>>
    BY <1>2, <2>1 DEF Shape
  <2>4. registered' \in [Sockets -> Seq(Identities)]
    BY <1>2, <2>1 DEF Shape
  <2>5. \A t \in Sockets \ {s} : registered'[t] = registered[t] /\ socket'[t] = socket[t]
    BY <1>2 DEF Shape
  <2>6. socket'[s] = state
    BY DEF Shape
  <2> QED
    BY <2>2, <2>3, <2>4, <2>5, <2>6
<1>4. Shape'
  BY <1>1, <1>3 DEF Shape, Register, ClientsOf
<1>5. RegisteredAreClients'
  BY <1>3 DEF RegisteredAreClients, Client, Shape
<1>6. ASSUME NEW i \in Identities PROVE Mirrored(i)'
  <2>1. Mirrored(i)
    BY HubIsMirrored
  <2>2. s \notin Living(i) => i \notin ToSet(registered[s]) \/ state = "closed"
    <3>1. ~Client(s) => registered[s] = <<>>
      BY DEF RegisteredAreClients
    <3>2. registered[s] = <<>> => ToSet(registered[s]) = {}
      BY DEF ToSet
    <3> QED
      BY <3>1, <3>2 DEF Living, Client
  <2>3. Living(i)' = IF i = identity /\ state # "closed" THEN Living(i) \cup {s} ELSE Living(i)
    BY <1>3, <2>2 DEF Living, Client
  <2> QED
    BY <1>1, <2>1, <2>3 DEF Mirrored
<1> QED
  BY <1>4, <1>5, <1>6, HubIsMirrored DEF HubMirrorsSockets, Mirrored, Living

\* A client closes and its listeners take it out of every identity it had.
LEMMA UnregisterIInv ==
  ASSUME IInv, NEW s \in Sockets, socket[s] \in {"open", "leaving"},
         Unregister(s), socket' = [socket EXCEPT ![s] = "closed"],
         UNCHANGED <<registered, late>>
  PROVE  IInv'
<1> USE DEF IInv
<1>1. /\ DOMAIN clients' \subseteq DOMAIN clients
      /\ \A i \in DOMAIN clients' : clients'[i] # {}
      /\ \A i \in Identities : ClientsOf(i)' = IF i \in ToSet(registered[s]) THEN ClientsOf(i) \ {s} ELSE ClientsOf(i)
  BY DEF Unregister, ClientsOf
<1>2. Shape'
  BY <1>1 DEF Shape, ClientsOf
<1>3. RegisteredAreClients'
  BY DEF RegisteredAreClients, Client, Shape
<1>4. ASSUME NEW i \in Identities PROVE Mirrored(i)'
  <2>1. Mirrored(i) /\ s \notin late
    BY HubIsMirrored DEF RegisteredAreClients
  <2>2. Living(i)' = Living(i) \ {s}
    BY DEF Living, Shape
  <2>3. i \notin ToSet(registered[s]) => s \notin ClientsOf(i)
    BY <2>1 DEF Mirrored, Living
  <2> QED
    BY <1>1, <2>1, <2>2, <2>3 DEF Mirrored, ClientsOf
<1> QED
  BY <1>2, <1>3, <1>4, HubIsMirrored DEF HubMirrorsSockets, Mirrored, Living

LEMMA UpgradeIInv ==
  ASSUME IInv, NEW s \in Sockets, Upgrade(s)
  PROVE  IInv'
<1> USE DEF Upgrade
<1>1. PICK path \in Paths :
          \/ Ignore(s, path)
          \/ Refuse(s, path)
          \/ \E identity \in Identities : Accept(s, path, identity)
  OBVIOUS
<1>2. ~Client(s) /\ late' = late
  BY DEF Client
<1>3. CASE Ignore(s, path)
  BY <1>2, <1>3, SocketMoves DEF Ignore
<1>4. CASE Refuse(s, path)
  BY <1>2, <1>4, SocketMoves DEF Refuse
<1>5. ASSUME NEW identity \in Identities, Accept(s, path, identity)
      PROVE  IInv'
  <2> DEFINE alone == Len(SelectSeq(attached, LAMBDA p : p = path)) = 1
  <2>1. /\ Register(s, identity, alone)
        /\ socket' = [socket EXCEPT ![s] = IF alone THEN "open" ELSE "leaving"]
    BY <1>5 DEF Accept
  <2> HIDE DEF alone
  <2> DEFINE state == IF alone THEN "open" ELSE "leaving"
  <2>2. state \in {"open", "leaving"} /\ socket' = [socket EXCEPT ![s] = state]
    BY <2>1
  <2> HIDE DEF state
  <2> QED
    BY <1>2, <2>1, <2>2, RegisterIInv
<1> QED
  BY <1>1, <1>3, <1>4, <1>5

LEMMA RegisterAgainIInv ==
  ASSUME IInv, NEW s \in Sockets, NEW identity \in Identities,
         RegisterAgain(s, identity)
  PROVE  IInv'
<1>1. registered[s] # <<>>
  BY BoundsAssumption DEF RegisterAgain, IInv, Shape
<1>2. Client(s)
  BY <1>1 DEF IInv, RegisteredAreClients
<1>3. Register(s, identity, socket[s] = "open")
  BY DEF RegisterAgain
<1>4. socket' = [socket EXCEPT ![s] = socket[s]]
  BY DEF RegisterAgain, IInv, Shape
<1>5. late' = IF socket[s] = "closed" THEN late \cup {s} ELSE late
  BY DEF RegisterAgain
<1> QED
  BY <1>2, <1>3, <1>4, <1>5, RegisterIInv DEF Client

LEMMA DisconnectIInv ==
  ASSUME IInv, NEW s \in Sockets, Disconnect(s)
  PROVE  IInv'
<1>1. UNCHANGED <<registered, late>>
  BY DEF Disconnect
<1>2. CASE socket[s] = "open" /\ socket' = [socket EXCEPT ![s] = "leaving"] /\ UNCHANGED clients
  <2>1. Shape'
    BY <1>1, <1>2 DEF IInv, Shape
  <2>2. RegisteredAreClients'
    BY <1>1, <1>2 DEF IInv, Shape, RegisteredAreClients, Client
  <2>3. \A i \in Identities : Living(i)' = Living(i)
    BY <1>1, <1>2 DEF IInv, Shape, Living
  <2>4. \A i \in Identities : Mirrored(i)'
    BY <1>1, <1>2, <2>3, HubIsMirrored DEF IInv, Mirrored, ClientsOf
  <2> QED
    BY <2>1, <2>2, <2>4 DEF IInv, HubMirrorsSockets, Mirrored, Living
<1>3. CASE socket[s] \in {"open", "leaving"} /\ Unregister(s) /\ socket' = [socket EXCEPT ![s] = "closed"]
  BY <1>1, <1>3, UnregisterIInv
<1>4. CASE socket[s] \notin {"open", "leaving"} /\ UNCHANGED clients /\ socket' = [socket EXCEPT ![s] = "closed"]
  <2>1. ~Client(s)
    BY <1>4 DEF Disconnect, Alive, Client
  <2> QED
    BY <1>1, <1>4, <2>1, SocketMoves
<1> QED
  BY <1>2, <1>3, <1>4 DEF Disconnect

LEMMA RequestIInv ==
  ASSUME IInv, NEW s \in Sockets,
         \/ Connect(s) \/ Request(s) \/ Responds(s) \/ Answers(s) \/ TimesOut(s)
         \/ \E error \in Errors : Fails(s, error)
  PROVE  IInv'
<1>1. ~Client(s) /\ UNCHANGED <<clients, registered, late>>
  BY DEF Connect, Request, Responds, Answers, TimesOut, Fails, Client, hubVars
<1>2. \E state : socket' = [socket EXCEPT ![s] = state]
  BY DEF Connect, Request, Responds, Answers, TimesOut, Fails
<1> QED
  BY <1>1, <1>2, SocketMoves

LEMMA NextIInv == IInv /\ [Next]_vars => IInv'
<1> SUFFICES ASSUME IInv, [Next]_vars PROVE IInv'
  OBVIOUS
<1>1. ASSUME UNCHANGED <<socket, clients, registered, late>> PROVE IInv'
  BY <1>1 DEF IInv, Shape, RegisteredAreClients, Client, HubMirrorsSockets, ClientsOf
<1>2. CASE UNCHANGED vars
  BY <1>1, <1>2 DEF vars, hubVars
<1>3. ASSUME NEW path \in WebsocketPaths, Attach(path) PROVE IInv'
  BY <1>1, <1>3 DEF Attach, hubVars
<1>4. CASE Broadcast \/ BroadcastToAll
  BY <1>1, <1>4 DEF Broadcast, BroadcastToAll, Send
<1>5. CASE Close \/ Closed
  BY <1>1, <1>5 DEF Close, Closed, hubVars
<1>6. ASSUME NEW s \in Sockets, Closes(s) PROVE IInv'
  BY <1>6, UnregisterIInv DEF Closes
<1> QED
  BY <1>2, <1>3, <1>4, <1>5, <1>6, RequestIInv, RegisterAgainIInv, UpgradeIInv,
     DisconnectIInv DEF Next

\* The hub mirrors the connections, whatever clients come, go, are registered
\* again and are sent meanwhile.
THEOREM HubMirrorsSocketsHolds == Spec => []HubMirrorsSockets
<1>1. IInv => HubMirrorsSockets
  BY DEF IInv
<1> QED
  BY <1>1, InitIInv, NextIInv, PTL DEF Spec

(***************************************************************************)
(* What the clients of one identity are sent.                               *)
(***************************************************************************)
Messages == Nat \cup {"connection_ack"}

\* Only a client is sent something, the acknowledgement before all else.
Acknowledged ==
    /\ received \in [Sockets -> Seq(Messages)]
    /\ broadcasts \in Nat
    /\ \A s \in Sockets : ~Client(s) => received[s] = <<>>
    /\ \A s \in Sockets : socket[s] = "open" =>
          received[s] # <<>> /\ Head(received[s]) = "connection_ack"

LEMMA SuffixPositions ==
  ASSUME NEW S, NEW x \in Seq(S), NEW y \in Seq(S)
  PROVE  IsSuffix(x, y) <=> /\ Len(x) <= Len(y)
                            /\ \A n \in 1..Len(x) : x[n] = y[Len(y) - Len(x) + n]
<1> DEFINE rx == Reverse(x)
           ry == Reverse(y)
<1>1. /\ rx \in Seq(S) /\ Len(rx) = Len(x)
      /\ ry \in Seq(S) /\ Len(ry) = Len(y)
  BY DEF Reverse
<1>2. /\ \A n \in 1..Len(x) : rx[n] = x[Len(x) - n + 1]
      /\ \A n \in 1..Len(y) : ry[n] = y[Len(y) - n + 1]
  BY DEF Reverse
<1> HIDE DEF rx, ry
<1>3. IsPrefix(rx, ry) <=> /\ Len(x) <= Len(y)
                           /\ \A n \in 1..Len(x) : rx[n] = ry[n]
  <2>1. Len(x) <= Len(y) => (SubSeq(rx, 1, Len(rx)) = SubSeq(ry, 1, Len(rx))
                               <=> \A n \in 1..Len(x) : rx[n] = ry[n])
    BY <1>1
  <2> QED
    BY <1>1, <2>1 DEF IsPrefix
<1>4. Len(x) <= Len(y) => ((\A n \in 1..Len(x) : rx[n] = ry[n])
                             <=> \A n \in 1..Len(x) : x[n] = y[Len(y) - Len(x) + n])
  <2> SUFFICES ASSUME Len(x) <= Len(y)
               PROVE  (\A n \in 1..Len(x) : rx[n] = ry[n])
                        <=> \A n \in 1..Len(x) : x[n] = y[Len(y) - Len(x) + n]
    OBVIOUS
  <2>1. \A n \in 1..Len(x) : rx[n] = x[Len(x) - n + 1] /\ ry[n] = y[Len(y) - n + 1]
    BY <1>2
  <2>2. ASSUME \A n \in 1..Len(x) : rx[n] = ry[n], NEW n \in 1..Len(x)
        PROVE  x[n] = y[Len(y) - Len(x) + n]
    <3> DEFINE m == Len(x) - n + 1
    <3>1. m \in 1..Len(x) /\ Len(x) - m + 1 = n /\ Len(y) - m + 1 = Len(y) - Len(x) + n
      OBVIOUS
    <3> HIDE DEF m
    <3> QED
      BY <2>1, <2>2, <3>1
  <2>3. ASSUME \A n \in 1..Len(x) : x[n] = y[Len(y) - Len(x) + n], NEW n \in 1..Len(x)
        PROVE  rx[n] = ry[n]
    <3> DEFINE m == Len(x) - n + 1
    <3>1. m \in 1..Len(x) /\ Len(y) - Len(x) + m = Len(y) - n + 1
      OBVIOUS
    <3>2. rx[n] = x[m] /\ ry[n] = y[Len(y) - n + 1]
      BY <2>1
    <3> HIDE DEF m
    <3> QED
      BY <2>3, <3>1, <3>2
  <2> QED
    BY <2>2, <2>3
<1> QED
  BY <1>3, <1>4 DEF IsSuffix, rx, ry

\* What both are sent keeps one a suffix of the other.
LEMMA SuffixExtended ==
  ASSUME NEW S, NEW x \in Seq(S), NEW y \in Seq(S), NEW more \in Seq(S),
         IsSuffix(x, y)
  PROVE  IsSuffix(x \o more, y \o more)
<1> DEFINE u == x \o more
           v == y \o more
<1>1. /\ Len(x) <= Len(y)
      /\ \A n \in 1..Len(x) : x[n] = y[Len(y) - Len(x) + n]
  BY SuffixPositions
<1>2. /\ u \in Seq(S) /\ Len(u) = Len(x) + Len(more)
      /\ v \in Seq(S) /\ Len(v) = Len(y) + Len(more)
  OBVIOUS
<1>3. /\ \A n \in 1..Len(x) : u[n] = x[n]
      /\ \A n \in 1..Len(more) : u[Len(x) + n] = more[n]
      /\ \A n \in 1..Len(y) : v[n] = y[n]
      /\ \A n \in 1..Len(more) : v[Len(y) + n] = more[n]
  OBVIOUS
<1> HIDE DEF u, v
<1>4. ASSUME NEW n \in 1..Len(u) PROVE u[n] = v[Len(v) - Len(u) + n]
  <2>1. CASE n \in 1..Len(x)
    <3>1. Len(v) - Len(u) + n = Len(y) - Len(x) + n /\ Len(y) - Len(x) + n \in 1..Len(y)
      BY <1>1, <1>2, <2>1
    <3> QED
      BY <1>1, <1>3, <2>1, <3>1
  <2>2. CASE n \notin 1..Len(x)
    <3> DEFINE m == n - Len(x)
    <3>1. /\ m \in 1..Len(more)
          /\ n = Len(x) + m
          /\ Len(v) - Len(u) + n = Len(y) + m
      BY <1>2, <2>2
    <3> QED
      BY <1>3, <3>1
  <2> QED
    BY <2>1, <2>2
<1>5. Len(u) <= Len(v)
  BY <1>1, <1>2
<1>6. IsSuffix(u, v) <=> /\ Len(u) <= Len(v)
                         /\ \A n \in 1..Len(u) : u[n] = v[Len(v) - Len(u) + n]
  BY ONLY <1>2, SuffixPositions
<1> QED
  BY <1>4, <1>5, <1>6 DEF u, v

LEMMA EmptySuffix == ASSUME NEW S, NEW y \in Seq(S) PROVE IsSuffix(<<>>, y)
<1> DEFINE x == <<>>
<1>1. x \in Seq(S) /\ Len(x) = 0
  OBVIOUS
<1> HIDE DEF x
<1>2. IsSuffix(x, y) <=> /\ Len(x) <= Len(y)
                         /\ \A n \in 1..Len(x) : x[n] = y[Len(y) - Len(x) + n]
  BY <1>1, SuffixPositions
<1> QED
  BY <1>1, <1>2 DEF x

\* One of two streams is the end of the other.
Joined(x, y) == IsSuffix(Tail(x), Tail(y)) \/ IsSuffix(Tail(y), Tail(x))

LEMMA JoinedExtended ==
  ASSUME NEW S, NEW x \in Seq(S), NEW y \in Seq(S), NEW more \in Seq(S),
         x # <<>>, y # <<>>, Joined(x, y)
  PROVE  Joined(x \o more, y \o more)
<1>1. Tail(x) \in Seq(S) /\ Tail(y) \in Seq(S)
  OBVIOUS
<1>2. Tail(x \o more) = Tail(x) \o more /\ Tail(y \o more) = Tail(y) \o more
  OBVIOUS
<1> QED
  BY <1>1, <1>2, SuffixExtended DEF Joined

Alike(s, t) ==
    /\ socket[s] = "open" /\ socket[t] = "open"
    /\ Len(registered[s]) = 1 /\ registered[s] = registered[t]

StreamInv ==
    /\ Acknowledged
    /\ \A s, t \in Sockets : Alike(s, t) => Joined(received[s], received[t])

LEMMA StreamInvSuffices == StreamInv => SameStream
  BY DEF StreamInv, Acknowledged, SameStream, Alike, Joined

LEMMA InitStream == Init => StreamInv
  BY DEF Init, StreamInv, Acknowledged, Alike, Client

\* Nothing is sent and no client opens.
LEMMA NothingSent ==
  ASSUME StreamInv, UNCHANGED <<registered, received, broadcasts>>,
         \A t \in Sockets : socket'[t] = "open" => socket[t] = "open",
         \A t \in Sockets : Client(t) => Client(t)'
  PROVE  StreamInv'
  BY DEF StreamInv, Acknowledged, Alike

\* A connection that is not open any more, or is another client's.
LEMMA OthersJoined ==
  ASSUME IInv, StreamInv, NEW s \in Sockets, NEW state,
         socket' = [socket EXCEPT ![s] = state],
         received' \in [Sockets -> Seq(Messages)],
         \A t \in Sockets \ {s} : registered'[t] = registered[t] /\ received'[t] = received[t],
         broadcasts' = broadcasts,
         state \in {"open", "leaving", "closed"},
         state = "open" => received'[s] # <<>> /\ Head(received'[s]) = "connection_ack",
         state = "open" => \/ Len(registered'[s]) # 1
                           \/ Tail(received'[s]) = <<>>
  PROVE  StreamInv'
<1>1. socket'[s] = state /\ \A t \in Sockets \ {s} : socket'[t] = socket[t]
  BY DEF IInv, Shape
<1>2. Acknowledged'
  BY <1>1 DEF StreamInv, Acknowledged, Client
<1>3. ASSUME NEW t \in Sockets, NEW u \in Sockets, Alike(t, u)'
      PROVE  Joined(received'[t], received'[u])
  <2>1. CASE t # s /\ u # s
    <3>1. Alike(t, u)
      BY <1>1, <1>3, <2>1 DEF Alike
    <3> QED
      BY <2>1, <3>1 DEF StreamInv
  <2>2. CASE t = s \/ u = s
    <3>1. Tail(received'[s]) = <<>>
      BY <1>1, <1>3, <2>2 DEF Alike
    <3>2. received'[t] # <<>> /\ received'[u] # <<>>
      BY <1>2, <1>3 DEF Acknowledged, Alike
    <3>3. Tail(received'[t]) \in Seq(Messages) /\ Tail(received'[u]) \in Seq(Messages)
      BY <3>2
    <3> QED
      BY <2>2, <3>1, <3>3, EmptySuffix DEF Joined
  <2> QED
    BY <2>1, <2>2
<1> QED
  BY <1>2, <1>3 DEF StreamInv

LEMMA SetToSeqIsSeq ==
  ASSUME NEW S, IsFiniteSet(S)
  PROVE  SetToSeq(S) \in Seq(S)
<1> DEFINE n == Cardinality(S)
<1>1. n \in Nat /\ ExistsBijection(1..n, S)
  BY FS_CardinalityType
<1> HIDE DEF n
<1>2. PICK f \in Bijection(1..n, S) : TRUE
  BY <1>1 DEF ExistsBijection
<1>3. f \in [1..n -> S] /\ IsInjective(f)
  BY <1>2 DEF Bijection, Injection, IsInjective
<1>4. SetToSeq(S) \in [1..n -> S]
  BY <1>3 DEF SetToSeq, n
<1> QED
  BY <1>1, <1>4

\* Two clients of the same identities are sent the same, and as often.
LEMMA SendStream ==
  ASSUME IInv, StreamInv, NEW R, NEW recipients \in Seq(R), Send(recipients)
  PROVE  StreamInv'
<1> DEFINE Named(s) == {n \in DOMAIN recipients : s \in ClientsOf(recipients[n])}
           More(s) == [n \in 1..Cardinality(Named(s)) |-> broadcasts']
<1>1. /\ UNCHANGED <<socket, registered>>
      /\ broadcasts' = broadcasts + 1
      /\ received' = [s \in Sockets |-> IF socket[s] = "open" THEN received[s] \o More(s)
                                        ELSE received[s]]
  BY DEF Send
<1>2. broadcasts' \in Nat
  BY <1>1 DEF StreamInv, Acknowledged
<1>3. ASSUME NEW s \in Sockets PROVE More(s) \in Seq(Messages)
  <2>1. IsFiniteSet(DOMAIN recipients)
    <3>1. DOMAIN recipients = 1..Len(recipients) /\ Len(recipients) \in Nat
      OBVIOUS
    <3> QED
      BY <3>1, FS_Interval
  <2>2. IsFiniteSet(Named(s))
    BY <2>1, FS_Subset
  <2> DEFINE n == Cardinality(Named(s))
  <2>3. n \in Nat
    BY <2>2, FS_CardinalityType
  <2> HIDE DEF n
  <2>4. [m \in 1..n |-> broadcasts'] \in [1..n -> Messages]
    BY <1>2 DEF Messages
  <2>5. [m \in 1..n |-> broadcasts'] \in Seq(Messages)
    BY <2>3, <2>4
  <2> QED
    BY <2>5 DEF n
<1> HIDE DEF More
<1>4. ASSUME NEW s \in Sockets, socket[s] = "open"
      PROVE  /\ received[s] \in Seq(Messages) /\ received[s] # <<>>
             /\ received'[s] = received[s] \o More(s)
             /\ received'[s] \in Seq(Messages) /\ received'[s] # <<>>
             /\ Head(received'[s]) = Head(received[s])
  <2>1. received[s] \in Seq(Messages) /\ received[s] # <<>>
    BY <1>4 DEF StreamInv, Acknowledged
  <2>2. received'[s] = received[s] \o More(s)
    BY <1>1, <1>4
  <2> QED
    BY <1>3, <2>1, <2>2
<1>5. \A s \in Sockets : socket[s] # "open" => received'[s] = received[s]
  BY <1>1
<1>6. Acknowledged'
  <2>1. \A s \in Sockets : received'[s] \in Seq(Messages)
    BY <1>4, <1>5 DEF StreamInv, Acknowledged
  <2>2. received' \in [Sockets -> Seq(Messages)]
    BY <1>1, <2>1
  <2>3. \A s \in Sockets : ~Client(s)' => received'[s] = <<>>
    BY <1>1, <1>5 DEF StreamInv, Acknowledged, Client
  <2>4. \A s \in Sockets : socket'[s] = "open" =>
           received'[s] # <<>> /\ Head(received'[s]) = "connection_ack"
    BY <1>1, <1>4 DEF StreamInv, Acknowledged
  <2> QED
    BY <1>2, <2>2, <2>3, <2>4 DEF Acknowledged
<1>7. ASSUME NEW s \in Sockets, NEW t \in Sockets, Alike(s, t)'
      PROVE  Joined(received'[s], received'[t])
  <2>1. Alike(s, t)
    BY <1>1, <1>7 DEF Alike
  <2>2. ASSUME NEW u \in Sockets, socket[u] = "open", NEW r
        PROVE  u \in ClientsOf(r) <=> r \in Identities /\ r \in ToSet(registered[u])
    <3>1. u \notin late
      BY <2>2 DEF IInv, RegisteredAreClients
    <3>2. r \notin Identities => ClientsOf(r) = {}
      BY DEF IInv, Shape, ClientsOf
    <3>3. r \in Identities => Mirrored(r)
      BY HubIsMirrored DEF IInv
    <3> QED
      BY <2>2, <3>1, <3>2, <3>3 DEF Mirrored, Living
  <2>3. Named(s) = Named(t)
    BY <2>1, <2>2 DEF Alike
  <2>4. More(s) = More(t)
    BY <2>3 DEF More
  <2>5. Joined(received[s], received[t])
    BY <2>1 DEF StreamInv
  <2> QED
    BY <1>3, <1>4, <2>1, <2>4, <2>5, JoinedExtended DEF Alike
<1> QED
  BY <1>6, <1>7 DEF StreamInv

\* The hub has finitely many identities at a time.
FiniteHub == IsFiniteSet(DOMAIN clients)

LEMMA RegisterFinite ==
  ASSUME FiniteHub, NEW s, NEW identity, NEW isOpen, Register(s, identity, isOpen)
  PROVE  FiniteHub'
<1>1. DOMAIN clients' = DOMAIN clients \cup {identity}
  BY DEF Register
<1> QED
  BY <1>1, FS_AddElement DEF FiniteHub

LEMMA UnregisterFinite ==
  ASSUME FiniteHub, NEW s, Unregister(s)
  PROVE  FiniteHub'
<1>1. DOMAIN clients' \subseteq DOMAIN clients
  BY DEF Unregister
<1> QED
  BY <1>1, FS_Subset DEF FiniteHub

LEMMA FiniteStep == FiniteHub /\ [Next]_vars => FiniteHub'
<1> SUFFICES ASSUME FiniteHub, [Next]_vars PROVE FiniteHub'
  OBVIOUS
<1>1. ASSUME UNCHANGED clients PROVE FiniteHub'
  BY <1>1 DEF FiniteHub
<1>2. CASE UNCHANGED vars \/ Broadcast \/ BroadcastToAll \/ Close \/ Closed
             \/ \E path \in WebsocketPaths : Attach(path)
  BY <1>1, <1>2 DEF vars, hubVars, Broadcast, BroadcastToAll, Send, Close, Closed, Attach
<1>3. ASSUME NEW s \in Sockets,
             \/ Connect(s) \/ Request(s) \/ Responds(s) \/ Answers(s) \/ TimesOut(s)
             \/ \E error \in Errors : Fails(s, error)
      PROVE  FiniteHub'
  BY <1>1, <1>3 DEF Connect, Request, Responds, Answers, TimesOut, Fails, hubVars
<1>4. ASSUME NEW s \in Sockets,
             \/ \E identity \in Identities : RegisterAgain(s, identity)
             \/ Upgrade(s) \/ Disconnect(s) \/ Closes(s)
      PROVE  FiniteHub'
  BY <1>1, <1>4, RegisterFinite, UnregisterFinite
  DEF RegisterAgain, Upgrade, Ignore, Refuse, Accept, Disconnect, Closes
<1> QED
  BY <1>2, <1>3, <1>4 DEF Next

LEMMA UpgradeStream ==
  ASSUME IInv, StreamInv, NEW s \in Sockets, Upgrade(s)
  PROVE  StreamInv'
<1>1. ~Client(s) /\ received[s] = <<>> /\ registered[s] = <<>> /\ broadcasts' = broadcasts
  BY DEF Upgrade, Client, IInv, RegisteredAreClients, StreamInv, Acknowledged
<1>2. PICK path \in Paths :
          \/ Ignore(s, path)
          \/ Refuse(s, path)
          \/ \E identity \in Identities : Accept(s, path, identity)
  BY DEF Upgrade
<1>3. CASE Ignore(s, path) \/ Refuse(s, path)
  BY <1>1, <1>3, NothingSent DEF Ignore, Refuse, Client, IInv, Shape
<1>4. ASSUME NEW identity \in Identities, Accept(s, path, identity)
      PROVE  StreamInv'
  <2>1. PICK alone \in BOOLEAN :
           /\ Register(s, identity, alone)
           /\ socket' = [socket EXCEPT ![s] = IF alone THEN "open" ELSE "leaving"]
    BY <1>4 DEF Accept
  <2> DEFINE state == IF alone THEN "open" ELSE "leaving"
             to == IF alone THEN <<"connection_ack">> ELSE <<>>
  <2>2. to \in Seq(Messages)
    <3>1. "connection_ack" \in Messages
      BY DEF Messages
    <3>2. <<"connection_ack">> \in Seq(Messages) /\ <<>> \in Seq(Messages)
      BY <3>1
    <3> QED
      BY <3>2
  <2>3. received' = [received EXCEPT ![s] = to]
    BY <1>1, <2>1 DEF Register, StreamInv, Acknowledged
  <2>4. received \in [Sockets -> Seq(Messages)]
    BY DEF StreamInv, Acknowledged
  <2>5. received' \in [Sockets -> Seq(Messages)] /\ received'[s] = to
    BY <2>2, <2>3, <2>4
  <2>6. \A t \in Sockets \ {s} : registered'[t] = registered[t] /\ received'[t] = received[t]
    BY <2>1, <2>3, <2>4 DEF Register, IInv, Shape
  <2>7. state = "open" => to # <<>> /\ Head(to) = "connection_ack" /\ Tail(to) = <<>>
    OBVIOUS
  <2>8. state \in {"open", "leaving"} /\ socket' = [socket EXCEPT ![s] = state]
    BY <2>1
  <2> HIDE DEF state, to
  <2> QED
    BY <1>1, <2>5, <2>6, <2>7, <2>8, OthersJoined
<1> QED
  BY <1>2, <1>3, <1>4

LEMMA RegisterAgainStream ==
  ASSUME IInv, StreamInv, NEW s \in Sockets, NEW identity \in Identities,
         RegisterAgain(s, identity)
  PROVE  StreamInv'
<1> DEFINE open == socket[s] = "open"
           to == IF open THEN Append(received[s], "connection_ack") ELSE received[s]
<1>1. /\ Register(s, identity, open) /\ broadcasts' = broadcasts
      /\ socket' = [socket EXCEPT ![s] = socket[s]]
  BY DEF RegisterAgain, IInv, Shape
<1>2. registered[s] \in Seq(Identities) /\ Len(registered[s]) >= 1 /\ registered[s] # <<>>
  BY BoundsAssumption DEF RegisterAgain, IInv, Shape
<1>3. socket[s] \in {"open", "leaving", "closed"}
  BY <1>2 DEF IInv, RegisteredAreClients, Client
<1>4. Len(registered'[s]) # 1
  <2>1. registered'[s] = Append(registered[s], identity)
    BY <1>1 DEF Register, IInv, Shape
  <2> QED
    BY <1>2, <2>1
<1>5. received \in [Sockets -> Seq(Messages)]
  BY DEF StreamInv, Acknowledged
<1>6. to \in Seq(Messages)
  BY <1>5 DEF Messages
<1>7. received' = [received EXCEPT ![s] = to]
  BY <1>1 DEF Register
<1>8. received' \in [Sockets -> Seq(Messages)] /\ received'[s] = to
  BY <1>5, <1>6, <1>7
<1>9. \A t \in Sockets \ {s} : registered'[t] = registered[t] /\ received'[t] = received[t]
  BY <1>1, <1>5, <1>7 DEF Register, IInv, Shape
<1>10. open => to # <<>> /\ Head(to) = "connection_ack"
  BY <1>5 DEF StreamInv, Acknowledged
<1> HIDE DEF to
<1> QED
  BY <1>1, <1>3, <1>4, <1>8, <1>9, <1>10, OthersJoined

LEMMA DisconnectStream ==
  ASSUME IInv, StreamInv, NEW s \in Sockets, Disconnect(s)
  PROVE  StreamInv'
<1>1. PICK state \in {"leaving", "closed"} : socket' = [socket EXCEPT ![s] = state]
  BY DEF Disconnect
<1>2. /\ received' = [received EXCEPT ![s] = <<>>]
      /\ registered' = registered /\ broadcasts' = broadcasts
  BY DEF Disconnect
<1>3. received \in [Sockets -> Seq(Messages)] /\ <<>> \in Seq(Messages)
  BY DEF StreamInv, Acknowledged
<1>4. received' \in [Sockets -> Seq(Messages)]
  BY <1>2, <1>3
<1>5. \A t \in Sockets \ {s} : registered'[t] = registered[t] /\ received'[t] = received[t]
  BY <1>2, <1>3
<1> QED
  BY <1>1, <1>2, <1>4, <1>5, OthersJoined

LEMMA RequestStream ==
  ASSUME IInv, StreamInv, NEW s \in Sockets,
         \/ Connect(s) \/ Request(s) \/ Responds(s) \/ Answers(s) \/ TimesOut(s)
         \/ \E error \in Errors : Fails(s, error)
  PROVE  StreamInv'
<1>1. ~Client(s) /\ UNCHANGED <<registered, received, broadcasts>>
  BY DEF Connect, Request, Responds, Answers, TimesOut, Fails, Client, hubVars
<1>2. PICK state : socket' = [socket EXCEPT ![s] = state] /\ state # "open"
  <2>1. CASE Connect(s) \/ Request(s) \/ Responds(s) \/ Answers(s) \/ TimesOut(s)
    BY <2>1 DEF Connect, Request, Responds, Answers, TimesOut
  <2>2. ASSUME NEW error \in Errors, Fails(s, error)
        PROVE  \E state : socket' = [socket EXCEPT ![s] = state] /\ state # "open"
    BY <2>2 DEF Fails
  <2> QED
    BY <2>1, <2>2
<1> QED
  BY <1>1, <1>2, NothingSent DEF Client, IInv, Shape

LEMMA NextStream == IInv /\ FiniteHub /\ StreamInv /\ [Next]_vars => StreamInv'
<1> SUFFICES ASSUME IInv, FiniteHub, StreamInv, [Next]_vars PROVE StreamInv'
  OBVIOUS
<1>1. CASE UNCHANGED vars \/ Close \/ Closed \/ \E path \in WebsocketPaths : Attach(path)
  BY <1>1, NothingSent DEF vars, hubVars, Close, Closed, Attach, Client
<1>2. CASE Broadcast
  <2>1. PICK recipients \in Recipients : Send(recipients)
    BY <1>2 DEF Broadcast
  <2> QED
    BY <2>1, RecipientsAssumption, SendStream
<1>3. CASE BroadcastToAll
  BY <1>3, SetToSeqIsSeq, SendStream DEF BroadcastToAll, FiniteHub
<1>4. ASSUME NEW s \in Sockets, Closes(s) PROVE StreamInv'
  BY <1>4, NothingSent DEF Closes, IInv, Shape, Client
<1> QED
  BY <1>1, <1>2, <1>3, <1>4, UpgradeStream, RegisterAgainStream, DisconnectStream,
     RequestStream DEF Next

\* Of two clients of one identity the later one has been sent, after its
\* acknowledgement, the end of what the other was sent.
THEOREM SameStreamHolds == Spec => []SameStream
<1>1. Init => FiniteHub
  <2>1. DOMAIN <<>> = {}
    OBVIOUS
  <2> QED
    BY <2>1, FS_EmptySet DEF Init, FiniteHub
<1> QED
  BY <1>1, InitIInv, NextIInv, FiniteStep, InitStream, NextStream, StreamInvSuffices, PTL
  DEF Spec

(***************************************************************************)
(* Errors.  Induction and recursion over 0..N come first, with sets in the   *)
(* place of predicates.                                                      *)
(***************************************************************************)

\* A set of numbers has a least one.
LEMMA Least ==
  ASSUME NEW T, T \subseteq Nat, T # {}
  PROVE  \E m \in T : \A n \in T : m <= n
<1> DEFINE R == OpToRel(<, Nat)
<1>1. IsWellFoundedOn(R, Nat)
  BY NatLessThanWellFounded
<1>2. \A x, y \in Nat : x < y => <<x, y>> \in R
  BY DEF OpToRel
<1> HIDE DEF R
<1>3. PICK m \in T : \A n \in T : ~ (<<n, m>> \in R)
  BY <1>1, WFMin
<1>4. ASSUME NEW n \in T PROVE m <= n
  <2>1. m \in Nat /\ n \in Nat
    OBVIOUS
  <2>2. ~(n < m)
    BY <1>2, <1>3, <2>1
  <2> QED
    BY <2>1, <2>2
<1> QED
  BY <1>4

\* Induction, with a set of numbers for the predicate.
LEMMA UpTo ==
  ASSUME NEW N \in Nat, NEW T, 0 \in T, \A n \in Nat : n < N /\ n \in T => n + 1 \in T
  PROVE  0..N \subseteq T
<1> SUFFICES ASSUME (0..N) \ T # {} PROVE FALSE
  OBVIOUS
<1> DEFINE D == (0..N) \ T
<1>1. PICK m \in D : \A n \in D : m <= n
  <2>1. D \subseteq Nat /\ D # {}
    OBVIOUS
  <2> HIDE DEF D
  <2> QED
    BY <2>1, Least
<1>2. m # 0
  BY <1>1
<1>3. m - 1 \in 0..N /\ m - 1 < N /\ m - 1 \in Nat /\ (m - 1) + 1 = m /\ ~(m <= m - 1)
  BY <1>1, <1>2
<1>4. m - 1 \in T
  BY <1>1, <1>3
<1> QED
  BY <1>1, <1>3, <1>4

\* A function on 0..N is given by its first value and a step for each of the others.
Computes(g, r, N, step) ==
    g[0] = r /\ \A n \in 1..N : g[n] = step[n][g[n - 1]]

LEMMA Recursion ==
  ASSUME NEW S, NEW r \in S, NEW N \in Nat, NEW step \in [1..N -> [S -> S]]
  PROVE  \E g \in [0..N -> S] : Computes(g, r, N, step)
<1> DEFINE Good(n, g) == g[0] = r /\ \A k \in 1..n : g[k] = step[k][g[k - 1]]
           T == {n \in 0..N : \E g \in [0..n -> S] : Good(n, g)}
<1>1. 0 \in T
  <2>1. [k \in 0..0 |-> r] \in [0..0 -> S] /\ Good(0, [k \in 0..0 |-> r])
    OBVIOUS
  <2>2. 0 \in 0..N
    OBVIOUS
  <2> HIDE DEF Good
  <2> QED
    BY <2>1, <2>2
<1>2. ASSUME NEW n \in Nat, n < N, n \in T PROVE n + 1 \in T
  <2>1. PICK g \in [0..n -> S] : Good(n, g)
    BY <1>2
  <2> DEFINE v == step[n + 1][g[n]]
             h == [k \in 0..(n + 1) |-> IF k = n + 1 THEN v ELSE g[k]]
  <2>2. n + 1 \in 1..N /\ n \in 0..n /\ 0 \in 0..n
    BY <1>2
  <2>3. v \in S
    BY <2>2
  <2>4. \A k \in 0..(n + 1) : k = n + 1 \/ k \in 0..n
    BY <1>2
  <2>5. h \in [0..(n + 1) -> S]
    BY <2>3, <2>4
  <2>6. h[0] = r
    BY <2>1, <2>2
  <2>7. ASSUME NEW k \in 1..(n + 1) PROVE h[k] = step[k][h[k - 1]]
    <3>1. k - 1 \in 0..n /\ k - 1 # n + 1 /\ k \in 0..(n + 1)
      BY <1>2
    <3>2. h[k - 1] = g[k - 1]
      BY <3>1
    <3>3. CASE k = n + 1
      BY <3>1, <3>2, <3>3
    <3>4. CASE k # n + 1
      <4>1. k \in 1..n /\ h[k] = g[k]
        BY <1>2, <3>1, <3>4
      <4> QED
        BY <2>1, <3>2, <4>1
    <3> QED
      BY <3>3, <3>4
  <2> HIDE DEF h
  <2>8. Good(n + 1, h)
    BY <2>6, <2>7
  <2>9. n + 1 \in 0..N /\ \E f \in [0..(n + 1) -> S] : Good(n + 1, f)
    BY <2>2, <2>5, <2>8
  <2> HIDE DEF Good
  <2> QED
    BY <2>9
<1>3. N \in T
  <2> HIDE DEF T
  <2>1. 0..N \subseteq T
    BY <1>1, <1>2, UpTo
  <2>2. N \in 0..N
    OBVIOUS
  <2> QED
    BY <2>1, <2>2
<1> QED
  BY <1>3 DEF Computes

(***************************************************************************)
(* The handlers of HttpErrorHandler, one after the other.                    *)
(***************************************************************************)
Responses(error) ==
    [error : {error}, head : {0} \cup StatusCodes, status : {0} \cup StatusCodes,
     end : {"", "answered", "claimed", "threw"}]

\* The numbers the handlers send are status codes, and 0 is none.
LEMMA Codes ==
    /\ {400, 413, 500, CustomStatus} \subseteq StatusCodes
    /\ 0 \notin StatusCodes /\ None \notin StatusCodes
  BY NoneAssumption DEF StatusCodes, CustomStatus

\* A response with a head written is a response, and so is one whose handler threw.
LEMMA AnsweredIsResponse ==
  ASSUME NEW error, NEW r \in Responses(error), NEW h \in StatusCodes
  PROVE  [r EXCEPT !.head = h, !.end = "answered"] \in Responses(error)
  BY ZenonT(60) DEF Responses

LEMMA ThrownIsResponse ==
  ASSUME NEW error, NEW r \in Responses(error)
  PROVE  [r EXCEPT !.error = Thrown, !.end = ""] \in Responses(Thrown)
  BY ZenonT(60) DEF Responses

LEMMA TryType ==
  ASSUME NEW error, NEW r \in Responses(error), NEW handler
  PROVE  Try(handler, r) \in Responses(error)
<1>1. ASSUME NEW end \in {"", "answered", "claimed", "threw"}
      PROVE  [r EXCEPT !.end = end] \in Responses(error)
  BY DEF Responses
<1>2. ASSUME NEW h \in StatusCodes, NEW end \in {"", "answered", "claimed", "threw"}
      PROVE  [r EXCEPT !.head = h, !.end = end] \in Responses(error)
  BY DEF Responses
<1>3. r.error = error
  BY DEF Responses
<1>4. CASE r.end # "" \/ Declines(handler, r.error)
  BY <1>4 DEF Try
<1>5. CASE ~(r.end # "" \/ Declines(handler, r.error)) /\ handler = "claims"
  <2>1. Try(handler, r) = [r EXCEPT !.end = "claimed"]
    BY <1>5 DEF Try
  <2> QED
    BY <1>1, <2>1
<1>6. CASE ~(r.end # "" \/ Declines(handler, r.error)) /\ handler # "claims"
  <2> DEFINE fails == \/ handler = "throws"
                      \/ r.head # 0
                      \/ StatusOf(handler, r.error) \notin StatusCodes
  <2>1. CASE fails
    <3>1. Try(handler, r) = [r EXCEPT !.end = "threw"]
      BY <1>6, <2>1 DEF Try
    <3> QED
      BY <1>1, <3>1
  <2>3. CASE ~fails /\ handler = "HttpError" /\ r.error.malformed
    <3>1. PICK h \in StatusCodes : h = StatusOf(handler, r.error)
      BY <2>3
    <3>2. Try(handler, r) = [r EXCEPT !.status = h, !.end = "threw"]
      BY <1>6, <2>3, <3>1 DEF Try
    <3>3. [r EXCEPT !.status = h, !.end = "threw"] \in Responses(error)
      BY DEF Responses
    <3> QED
      BY ONLY <3>2, <3>3
  <2>2. CASE ~fails /\ ~(handler = "HttpError" /\ r.error.malformed)
    <3>1. PICK end \in {"", "answered"} :
             Try(handler, r) = [r EXCEPT !.head = StatusOf(handler, r.error), !.end = end]
      <4> HIDE DEF fails
      <4>1. Try(handler, r) =
               [r EXCEPT !.head = StatusOf(handler, r.error),
                         !.end = IF handler = "answersAndDeclines" THEN "" ELSE "answered"]
        BY <1>6, <2>2 DEF Try, fails
      <4> QED
        BY ONLY <4>1
    <3> QED
      <4>1. PICK h \in StatusCodes : h = StatusOf(handler, r.error)
        BY <2>2
      <4>2. Try(handler, r) = [r EXCEPT !.head = h, !.end = end]
        BY ONLY <3>1, <4>1
      <4>3. end \in {"", "answered", "claimed", "threw"}
        OBVIOUS
      <4> QED
        <5>1. [r EXCEPT !.head = h, !.end = end] \in Responses(error)
          BY <1>2, <4>3
        <5> QED
          BY ONLY <4>2, <5>1
  <2> QED
    BY <2>1, <2>2, <2>3
<1> QED
  BY <1>4, <1>5, <1>6

LEMMA ChainFacts ==
  ASSUME NEW customs \in Seq(CustomKinds)
  PROVE  /\ Len(customs) \in Nat
         /\ Len(Chain(customs)) = Len(customs) + 4
         /\ Chain(customs)[1] = "SyntaxError" /\ Chain(customs)[2] = "PayloadTooLarge"
         /\ \A n \in 1..Len(customs) : Chain(customs)[n + 2] = customs[n]
         /\ Chain(customs)[Len(customs) + 3] = "HttpError"
         /\ Chain(customs)[Len(customs) + 4] = "Unhandled"
<1> DEFINE Names == CustomKinds \cup {"SyntaxError", "PayloadTooLarge", "HttpError", "Unhandled"}
<1>1. customs \in Seq(Names) /\ Len(customs) \in Nat
  OBVIOUS
<1> DEFINE front == <<"SyntaxError", "PayloadTooLarge">> \o customs
<1>2. /\ front \in Seq(Names) /\ Len(front) = Len(customs) + 2
      /\ front[1] = "SyntaxError" /\ front[2] = "PayloadTooLarge"
      /\ \A n \in 1..Len(customs) : front[n + 2] = customs[n]
  <2>1. <<"SyntaxError", "PayloadTooLarge">> \in Seq(Names)
    OBVIOUS
  <2> HIDE DEF Names
  <2> QED
    BY <1>1, <2>1
<1>3. Chain(customs) = front \o <<"HttpError", "Unhandled">>
  BY DEF Chain
<1> HIDE DEF front
<1>4. /\ Len(Chain(customs)) = Len(front) + 2
      /\ \A n \in 1..Len(front) : Chain(customs)[n] = front[n]
      /\ Chain(customs)[Len(front) + 1] = "HttpError"
      /\ Chain(customs)[Len(front) + 2] = "Unhandled"
  <2>1. <<"HttpError", "Unhandled">> \in Seq(Names)
    OBVIOUS
  <2> HIDE DEF Names
  <2> QED
    BY <1>2, <1>3, <2>1
<1>5. 1 \in 1..Len(front) /\ 2 \in 1..Len(front) /\ \A n \in 1..Len(customs) : n + 2 \in 1..Len(front)
  BY <1>1, <1>2
<1> QED
  BY <1>1, <1>2, <1>4, <1>5

\* What Handling is at each handler.
LEMMA HandlingSteps ==
  ASSUME NEW customs \in Seq(CustomKinds), NEW error, NEW r \in Responses(error)
  PROVE  /\ Handling(customs, r)[0] = r
         /\ \A n \in 1..Len(Chain(customs)) :
               Handling(customs, r)[n] = Try(Chain(customs)[n], Handling(customs, r)[n - 1])
<1> DEFINE N == Len(Chain(customs))
           S == Responses(error)
           step == [n \in 1..N |-> [x \in S |-> Try(Chain(customs)[n], x)]]
<1>1. N \in Nat
  BY ChainFacts
<1>2. step \in [1..N -> [S -> S]]
  <2> HIDE DEF S, N
  <2>1. ASSUME NEW n \in 1..N, NEW x \in S PROVE Try(Chain(customs)[n], x) \in S
    BY TryType DEF S
  <2> QED
    BY <2>1
<1>3. \E g \in [0..N -> S] : Computes(g, r, N, step)
  <2> HIDE DEF S, N, step
  <2>1. r \in S
    BY DEF S
  <2> QED
    BY <1>1, <1>2, <2>1, Recursion
<1>4. PICK g \in [0..N -> S] : g[0] = r /\ \A n \in 1..N : g[n] = step[n][g[n - 1]]
  <2> HIDE DEF S, N, step
  <2> QED
    BY <1>3 DEF Computes
<1>5. \A n \in 1..N : g[n] = Try(Chain(customs)[n], g[n - 1])
  <2> HIDE DEF S, N
  <2>1. \A n \in 1..N : n - 1 \in 0..N
    BY <1>1
  <2> QED
    BY <1>4, <2>1
<1>6. g = [n \in 0..N |-> IF n = 0 THEN r ELSE Try(Chain(customs)[n], g[n - 1])]
  <2> HIDE DEF S, N, step
  <2>1. \A n \in 0..N : n = 0 \/ n \in 1..N
    BY <1>1
  <2> QED
    BY <1>4, <1>5, <2>1
<1>7. Handling(customs, r) =
         CHOOSE f : f = [n \in 0..N |-> IF n = 0 THEN r ELSE Try(Chain(customs)[n], f[n - 1])]
  BY Zenon DEF Handling
<1> DEFINE f == Handling(customs, r)
<1>8. f = [n \in 0..N |-> IF n = 0 THEN r ELSE Try(Chain(customs)[n], f[n - 1])]
  <2> HIDE DEF N, f
  <2>1. \E h : h = [n \in 0..N |-> IF n = 0 THEN r ELSE Try(Chain(customs)[n], h[n - 1])]
    BY <1>6, Zenon
  <2> QED
    BY <1>7, <2>1, Zenon DEF f
<1> HIDE DEF f, N
<1>9. f[0] = r /\ \A n \in 1..N : f[n] = Try(Chain(customs)[n], f[n - 1])
  <2>1. 0 \in 0..N /\ \A n \in 1..N : n \in 0..N /\ n # 0
    BY <1>1
  <2> QED
    BY <1>8, <2>1
<1> QED
  BY <1>9 DEF f, N

(***************************************************************************)
(* What HttpErrorHandler makes of an error.                                  *)
(***************************************************************************)
\* Up to the n-th handler: nothing is answered twice, nobody claims but an
\* application that does, and where all its handlers decline, those that are over
\* have declined, an answer is the one that is documented, and only for want of a
\* status or for an error that is malformed one throws.
Fallible(error) == Documented(error) = 500 \/ error.malformed

Handled(customs, error, head, status, n, x) ==
    /\ x \in Responses(error)
    /\ head # 0 => x.head # 0 /\ x.end # "answered"
    /\ x.head # 0 /\ x.end # "answered" =>
          head # 0 \/ "answersAndDeclines" \in ToSet(customs)
    /\ x.end = "claimed" => "claims" \in ToSet(customs)
    /\ n = Len(Chain(customs)) => x.end # ""
    /\ ToSet(customs) \subseteq {"declines"} /\ head = 0 =>
          /\ x.end = "" => /\ x.head = 0
                           /\ \A m \in 1..n : Declines(Chain(customs)[m], error)
          /\ x.end = "answered" => x.head = Documented(error)
          /\ x.end = "threw" => x.head = 0 /\ Fallible(error)
          /\ x.status \in {status, Documented(error)}

\* The answer of the first handler that does not decline, if none of the application
\* does.
LEMMA Answer ==
  ASSUME NEW customs \in Seq(CustomKinds), ToSet(customs) \subseteq {"declines"},
         NEW error, NEW n \in 1..Len(Chain(customs)),
         \A m \in 1..(n - 1) : Declines(Chain(customs)[m], error),
         ~Declines(Chain(customs)[n], error)
  PROVE  /\ Chain(customs)[n] \notin {"claims", "throws", "answersAndDeclines"}
         /\ IF StatusOf(Chain(customs)[n], error) \in StatusCodes
            THEN StatusOf(Chain(customs)[n], error) = Documented(error)
            ELSE Documented(error) = 500
<1> DEFINE L == Len(customs)
<1>1. /\ L \in Nat /\ Len(Chain(customs)) = L + 4
      /\ Chain(customs)[1] = "SyntaxError" /\ Chain(customs)[2] = "PayloadTooLarge"
      /\ \A m \in 1..L : Chain(customs)[m + 2] = customs[m]
      /\ Chain(customs)[L + 3] = "HttpError" /\ Chain(customs)[L + 4] = "Unhandled"
  BY ChainFacts
<1>2. \A m \in 1..L : customs[m] = "declines"
  BY DEF ToSet
<1>3. n = 1 \/ n = 2 \/ n = L + 3 \/ n = L + 4 \/ (n \in 3..(L + 2) /\ n - 2 \in 1..L)
  BY <1>1
<1>4. {"SyntaxError", "PayloadTooLarge", "HttpError", "Unhandled"} \cap CustomKinds = {}
  BY DEF CustomKinds
<1>s. /\ StatusOf("SyntaxError", error) = 400
      /\ StatusOf("PayloadTooLarge", error) = 413
      /\ StatusOf("HttpError", error) =
            IF HttpStatus(error) = None THEN 500 ELSE HttpStatus(error)
      /\ StatusOf("Unhandled", error) = 500
  BY <1>4 DEF StatusOf
<1>5. n >= 2 => ~error.syntax
  <2>1. n >= 2 => 1 \in 1..(n - 1)
    BY <1>1
  <2> QED
    BY <1>1, <2>1 DEF Declines
<1>6. n >= 3 => ~PayloadTooLarge(error)
  <2>1. n >= 3 => 2 \in 1..(n - 1)
    BY <1>1
  <2> QED
    BY <1>1, <2>1 DEF Declines
<1>7. CASE n = 1
  BY <1>1, <1>s, <1>7, Codes DEF Declines, Documented
<1>8. CASE n = 2
  <2>1. PayloadTooLarge(error) /\ ~error.syntax
    BY <1>1, <1>5, <1>8 DEF Declines
  <2>2. Documented(error) = 413
    BY <2>1, Codes DEF PayloadTooLarge, Documented
  <2>3. StatusOf(Chain(customs)[n], error) = 413
    BY <1>1, <1>s, <1>8
  <2> QED
    BY <1>1, <1>8, <2>2, <2>3, Codes
<1>9. n >= 3 => Documented(error) = IF HttpStatus(error) \in StatusCodes THEN HttpStatus(error)
                                    ELSE 500
  BY <1>5, <1>6 DEF PayloadTooLarge, Documented
<1>10. CASE n = L + 3
  <2>1. StatusOf(Chain(customs)[n], error) =
           IF HttpStatus(error) = None THEN 500 ELSE HttpStatus(error)
    BY <1>1, <1>s, <1>10
  <2>2. n >= 3
    BY <1>1, <1>10
  <2> QED
    BY <1>1, <1>9, <1>10, <2>1, <2>2, Codes
<1>11. CASE n = L + 4
  <2>1. n >= 3 /\ L + 3 \in 1..(n - 1)
    BY <1>1, <1>11
  <2>2. HttpStatus(error) \in {None, 0}
    BY <1>1, <2>1 DEF Declines
  <2>3. Documented(error) = 500
    BY <1>9, <2>1, <2>2, Codes
  <2>4. StatusOf("Unhandled", error) = 500
    BY <1>s
  <2> QED
    BY <1>1, <1>11, <2>3, <2>4, Codes
<1>12. ~(n \in 3..(L + 2) /\ n - 2 \in 1..L)
  <2> SUFFICES ASSUME n \in 3..(L + 2), n - 2 \in 1..L PROVE FALSE
    OBVIOUS
  <2>1. (n - 2) + 2 = n
    OBVIOUS
  <2>2. Chain(customs)[(n - 2) + 2] = customs[n - 2]
    BY <1>1
  <2>3. Chain(customs)[n] = "declines"
    BY <1>2, <2>1, <2>2
  <2> QED
    BY <2>3 DEF Declines
<1> QED
  BY <1>3, <1>7, <1>8, <1>10, <1>11, <1>12

LEMMA HandledNext ==
  ASSUME NEW customs \in Seq(CustomKinds), NEW error, NEW head, NEW status,
         NEW n \in 1..Len(Chain(customs)), NEW x, Handled(customs, error, head, status, n - 1, x)
  PROVE  Handled(customs, error, head, status, n, Try(Chain(customs)[n], x))
<1> DEFINE h == Chain(customs)[n]
           y == Try(h, x)
<1> SUFFICES Handled(customs, error, head, status, n, y)
  OBVIOUS
<1>x. x \in Responses(error)
  BY DEF Handled
<1>1. /\ x.error = error /\ x.end \in {"", "answered", "claimed", "threw"}
      /\ y \in Responses(error)
  BY <1>x, TryType DEF Responses
<1>2. /\ Len(customs) \in Nat /\ Len(Chain(customs)) = Len(customs) + 4
      /\ n = Len(Chain(customs)) => h = "Unhandled"
      /\ h \in {"claims", "answersAndDeclines"} => h \in ToSet(customs)
  <2>1. n = 1 \/ n = 2 \/ n = Len(customs) + 3 \/ n = Len(customs) + 4
        \/ (n \in 3..(Len(customs) + 2) /\ n - 2 \in 1..Len(customs) /\ (n - 2) + 2 = n)
    BY ChainFacts
  <2>2. \A m \in 1..Len(customs) : customs[m] \in ToSet(customs)
    BY DEF ToSet
  <2>3. CASE n \in 3..(Len(customs) + 2) /\ n - 2 \in 1..Len(customs) /\ (n - 2) + 2 = n
    <3>1. h = customs[n - 2]
      BY <2>3, ChainFacts
    <3>2. n # Len(Chain(customs))
      BY <2>3, ChainFacts
    <3> QED
      BY <2>2, <2>3, <3>1, <3>2, ChainFacts
  <2>4. CASE n = 1 \/ n = 2 \/ n = Len(customs) + 3 \/ n = Len(customs) + 4
    BY <2>4, ChainFacts
  <2> QED
    BY <2>1, <2>3, <2>4
<1>3. CASE x.end # ""
  <2>1. y = x
    BY <1>3 DEF Try
  <2> HIDE DEF y, h
  <2> QED
    BY <1>1, <1>3, <2>1 DEF Handled
<1>4. CASE x.end = "" /\ Declines(h, error)
  <2>1. y = x
    BY <1>1, <1>4 DEF Try
  <2>2. n # Len(Chain(customs))
    <3>1. ~Declines("Unhandled", error)
      BY DEF Declines
    <3> QED
      BY <1>2, <1>4, <3>1
  <2>3. \A m \in 1..n : m = n \/ m \in 1..(n - 1)
    BY <1>2
  <2>4. ToSet(customs) \subseteq {"declines"} /\ head = 0 =>
           x.head = 0 /\ x.status \in {status, Documented(error)} /\ \A m \in 1..n : Declines(Chain(customs)[m], error)
    BY <1>1, <1>4, <2>3 DEF Handled
  <2> HIDE DEF y, h
  <2> QED
    BY <1>1, <1>4, <2>1, <2>2, <2>4 DEF Handled
<1>5. CASE x.end = "" /\ ~Declines(h, error)
  <2> DEFINE Plain == ToSet(customs) \subseteq {"declines"} /\ head = 0
  <2>s. Plain => x.status \in {status, Documented(error)}
    BY DEF Handled
  <2>1. Plain => /\ x.head = 0
                 /\ h \notin {"claims", "throws", "answersAndDeclines"}
                 /\ IF StatusOf(h, error) \in StatusCodes
                    THEN StatusOf(h, error) = Documented(error)
                    ELSE Documented(error) = 500
    <3> SUFFICES ASSUME Plain
                 PROVE  /\ x.head = 0
                        /\ h \notin {"claims", "throws", "answersAndDeclines"}
                        /\ IF StatusOf(h, error) \in StatusCodes
                           THEN StatusOf(h, error) = Documented(error)
                           ELSE Documented(error) = 500
      OBVIOUS
    <3>1. x.head = 0 /\ \A m \in 1..(n - 1) : Declines(Chain(customs)[m], error)
      BY <1>1, <1>5 DEF Handled
    <3>2. ToSet(customs) \subseteq {"declines"} /\ ~Declines(Chain(customs)[n], error)
      BY <1>5
    <3> HIDE DEF Plain
    <3>3. /\ Chain(customs)[n] \notin {"claims", "throws", "answersAndDeclines"}
          /\ IF StatusOf(Chain(customs)[n], error) \in StatusCodes
             THEN StatusOf(Chain(customs)[n], error) = Documented(error)
             ELSE Documented(error) = 500
      BY <3>1, <3>2, Answer
    <3> QED
      BY <3>1, <3>3
  <2>3. CASE h = "claims"
    <3>1. y = [x EXCEPT !.end = "claimed"]
      BY <1>1, <1>5, <2>3 DEF Try
    <3>2. y.end = "claimed" /\ y.head = x.head /\ y.status = x.status
      BY <1>1, <1>x, <3>1 DEF Responses
    <3> HIDE DEF y
    <3> QED
      BY <1>1, <1>2, <1>5, <2>1, <2>3, <3>2 DEF Handled
  <2>4. CASE h # "claims" /\ (h = "throws" \/ x.head # 0 \/ StatusOf(h, error) \notin StatusCodes)
    <3>1. y = [x EXCEPT !.end = "threw"]
      BY <1>1, <1>5, <2>4 DEF Try
    <3>2. y.end = "threw" /\ y.head = x.head /\ y.status = x.status
      BY <1>1, <1>x, <3>1 DEF Responses
    <3>3. Plain => Fallible(error)
      BY <2>1, <2>4 DEF Fallible
    <3> HIDE DEF y, h
    <3> QED
      BY <1>1, <1>5, <2>s, <2>1, <3>2, <3>3 DEF Handled
  <2>6. CASE /\ h = "HttpError" /\ error.malformed
             /\ x.head = 0 /\ StatusOf(h, error) \in StatusCodes
    <3>1. y = [x EXCEPT !.status = StatusOf(h, error), !.end = "threw"]
      BY <1>1, <1>5, <2>6 DEF Try
    <3>2. y.end = "threw" /\ y.head = x.head /\ y.status = StatusOf(h, error)
      BY <1>1, <1>x, <3>1 DEF Responses
    <3>3. Plain => Fallible(error) /\ y.status = Documented(error)
      BY <2>1, <2>6, <3>2 DEF Fallible
    <3> HIDE DEF y, h
    <3> QED
      BY <1>1, <1>5, <2>1, <2>6, <3>2, <3>3 DEF Handled
  <2>5. CASE /\ h # "claims" /\ h # "throws"
             /\ x.head = 0 /\ StatusOf(h, error) \in StatusCodes
             /\ ~(h = "HttpError" /\ error.malformed)
    <3> DEFINE end == IF h = "answersAndDeclines" THEN "" ELSE "answered"
    <3>1. y = [x EXCEPT !.head = StatusOf(h, error), !.end = end]
      BY <1>1, <1>5, <2>5 DEF Try
    <3>2. y.end = end /\ y.head = StatusOf(h, error) /\ y.status = x.status
      BY <1>1, <1>x, <3>1 DEF Responses
    <3>3. n = Len(Chain(customs)) => y.end # ""
      BY <1>2, <3>2
    <3>4. head = 0
      BY <1>1, <1>5, <2>5 DEF Handled
    <3>5. Plain => /\ y.end = "answered" /\ y.head = Documented(error)
                   /\ y.status \in {status, Documented(error)}
      BY <2>s, <2>1, <2>5, <3>2
    <3>6. y.end # "answered" => y.end = "" /\ "answersAndDeclines" \in ToSet(customs)
      BY <1>2, <3>2
    <3>7. y.end \in {"", "answered"}
      BY <3>2
    <3> HIDE DEF y, h, end
    <3> QED
      BY <1>1, <3>3, <3>4, <3>5, <3>6, <3>7 DEF Handled
  <2> QED
    BY <2>3, <2>4, <2>5, <2>6
<1> QED
  BY <1>1, <1>3, <1>4, <1>5

\* HttpErrorHandler settles the response one way or the other.
LEMMA ErrorIsHandled ==
  ASSUME NEW customs \in Seq(CustomKinds), NEW error, NEW r \in Responses(error), r.end = ""
  PROVE  Handled(customs, error, r.head, r.status, Len(Chain(customs)), HandleError(customs, r))
<1> DEFINE f == Handling(customs, r)
           T == {n \in Nat : Handled(customs, error, r.head, r.status, n, f[n])}
<1>n. PICK N : N = Len(Chain(customs))
  OBVIOUS
<1>1. N \in Nat /\ N # 0
  <2>1. Len(customs) \in Nat /\ N = Len(customs) + 4
    BY <1>n, ChainFacts
  <2> QED
    BY ONLY <2>1
<1>2. f[0] = r /\ \A n \in 1..N : f[n] = Try(Chain(customs)[n], f[n - 1])
  BY <1>n, HandlingSteps
<1> HIDE DEF f
<1>3. 0 \in T
  <2>1. \A m \in 1..0 : FALSE
    BY ONLY TRUE
  <2>2. Handled(customs, error, r.head, r.status, 0, r)
    BY <1>1, <1>n, <2>1 DEF Handled
  <2> QED
    BY <1>2, <2>2
<1>4. ASSUME NEW n \in Nat, n < N, n \in T PROVE n + 1 \in T
  <2>1. n + 1 \in 1..N /\ (n + 1) - 1 = n /\ n + 1 \in Nat
    BY ONLY <1>1, <1>4, n \in Nat
  <2>2. Handled(customs, error, r.head, r.status, (n + 1) - 1, f[n])
    BY <1>4, <2>1
  <2>3. Handled(customs, error, r.head, r.status, n + 1, Try(Chain(customs)[n + 1], f[n]))
    BY <1>n, <2>1, <2>2, HandledNext
  <2>4. f[n + 1] = Try(Chain(customs)[n + 1], f[n])
    BY <1>2, <2>1
  <2> QED
    BY <2>1, <2>3, <2>4
<1>5. N \in T
  <2> HIDE DEF T
  <2>1. 0..N \subseteq T
    BY <1>1, <1>3, <1>4, UpTo
  <2>2. N \in 0..N
    BY ONLY <1>1
  <2> QED
    BY <2>1, <2>2
<1> QED
  BY <1>n, <1>5 DEF HandleError, f

(***************************************************************************)
(* What the error handlers of the server make of it.                         *)
(***************************************************************************)
LEMMA ThrownIsDocumented == Documented(Thrown) = 500 /\ ~Thrown.malformed
<1>1. HttpStatus(Thrown) = None
  BY DEF HttpStatus, Thrown
<1>2. ~Thrown.syntax /\ ~Thrown.tooLarge /\ ~Thrown.malformed
  BY DEF Thrown
<1> QED
  BY <1>1, <1>2, Codes DEF Documented

LEMMA RegisteredFacts ==
  ASSUME NEW handlers \in Seq({"HttpErrorHandler"})
  PROVE  /\ Len(Registered(handlers)) \in Nat \ {0}
         /\ \A n \in 1..Len(Registered(handlers)) :
               IF handlers = <<>> THEN Registered(handlers)[n] = "default"
               ELSE Registered(handlers)[n] = "HttpErrorHandler"
<1>1. CASE handlers = <<>>
  <2>1. Registered(handlers) = <<"default">>
    BY <1>1 DEF Registered
  <2> QED
    BY <1>1, <2>1
<1>2. CASE handlers # <<>>
  <2>1. Registered(handlers) = handlers /\ Len(handlers) \in Nat \ {0}
    BY <1>2 DEF Registered
  <2> QED
    BY <1>2, <2>1
<1> QED
  BY <1>1, <1>2

\* One error handler: it passes the response on, settles it, or throws.
Unchanged(handler, r, w) ==
    w = r /\ (r.end = "" => handler = "default" /\ r.head # 0)
Defaulted(handler, r, w) ==
    /\ r.end = "" /\ handler = "default" /\ r.head = 0
    /\ w = [r EXCEPT !.head = 500, !.end = "answered"]
Left(customs, error, handler, r, z, w) ==
    /\ r.end = "" /\ handler = "HttpErrorHandler"
    /\ Handled(customs, error, r.head, r.status, Len(Chain(customs)), z)
    /\ w = IF z.end = "threw" THEN [z EXCEPT !.error = Thrown, !.end = ""] ELSE z

LEMMA ApplyCases ==
  ASSUME NEW customs \in Seq(CustomKinds), NEW error, NEW r \in Responses(error),
         NEW handler \in {"default", "HttpErrorHandler"}
  PROVE  \/ Unchanged(handler, r, Apply(handler, customs, r))
         \/ Defaulted(handler, r, Apply(handler, customs, r))
         \/ \E z \in Responses(error) :
               Left(customs, error, handler, r, z, Apply(handler, customs, r))
<1>1. CASE r.end # ""
  BY <1>1 DEF Apply, Unchanged
<1>2. CASE r.end = "" /\ handler = "HttpErrorHandler"
  <2>1. Handled(customs, error, r.head, r.status, Len(Chain(customs)), HandleError(customs, r))
    BY <1>2, ErrorIsHandled
  <2>2. HandleError(customs, r) \in Responses(error)
    BY <2>1 DEF Handled
  <2>3. Apply(handler, customs, r) =
           IF HandleError(customs, r).end = "threw"
           THEN [HandleError(customs, r) EXCEPT !.error = Thrown, !.end = ""]
           ELSE HandleError(customs, r)
    BY <1>2 DEF Apply
  <2>4. Left(customs, error, handler, r, HandleError(customs, r), Apply(handler, customs, r))
    BY <1>2, <2>1, <2>3 DEF Left
  <2> QED
    BY <2>2, <2>4
<1>3. CASE r.end = "" /\ handler = "default" /\ r.head # 0
  <2>1. DefaultErrorHandler(r) = r
    BY <1>3 DEF DefaultErrorHandler
  <2> QED
    BY <1>3, <2>1 DEF Apply, Unchanged
<1>4. CASE r.end = "" /\ handler = "default" /\ r.head = 0
  <2>1. DefaultErrorHandler(r) = Try("Unhandled", r)
    BY <1>4 DEF DefaultErrorHandler
  <2>2. ~Declines("Unhandled", r.error) /\ StatusOf("Unhandled", r.error) = 500
    BY DEF Declines, StatusOf, CustomKinds
  <2>3. Try("Unhandled", r) = [r EXCEPT !.head = 500, !.end = "answered"]
    <3>1. 500 \in StatusCodes
      BY Codes
    <3>2. ~(r.end # "" \/ Declines("Unhandled", r.error))
      BY <1>4, <2>2
    <3>3. ~(r.head # 0 \/ StatusOf("Unhandled", r.error) \notin StatusCodes)
      <4>1. StatusOf("Unhandled", r.error) \in StatusCodes
        BY ONLY <2>2, <3>1
      <4> QED
        BY ONLY <1>4, <4>1
    <3> QED
      BY <2>2, <3>2, <3>3 DEF Try
  <2>4. [r EXCEPT !.head = 500, !.end = "answered"].end = "answered"
    BY DEF Responses
  <2> QED
    BY <1>4, <2>1, <2>3, <2>4 DEF Apply, Defaulted
<1> QED
  BY <1>1, <1>2, <1>3, <1>4

Outcomes(error) == Responses(error) \cup Responses(Thrown)

LEMMA ApplyType ==
  ASSUME NEW customs \in Seq(CustomKinds), NEW error, NEW r \in Outcomes(error),
         NEW handler \in {"default", "HttpErrorHandler"}
  PROVE  Apply(handler, customs, r) \in Outcomes(error)
<1>1. PICK e : r \in Responses(e) /\ Responses(e) \subseteq Outcomes(error)
  BY DEF Outcomes
<1>2. [r EXCEPT !.head = 500, !.end = "answered"] \in Responses(e)
  <2>1. 500 \in StatusCodes
    BY Codes
  <2>2. r \in Responses(e)
    BY <1>1
  <2> QED
    BY ONLY <2>1, <2>2, AnsweredIsResponse, Zenon
<1>3. ASSUME NEW z \in Responses(e)
      PROVE  [z EXCEPT !.error = Thrown, !.end = ""] \in Responses(Thrown)
  BY ONLY ThrownIsResponse, Zenon
<1>4. r \in Responses(e)
  BY <1>1
<1>5. Apply(handler, customs, r) \in Responses(e) \cup Responses(Thrown)
  <2>1. CASE Unchanged(handler, r, Apply(handler, customs, r))
    <3>1. Apply(handler, customs, r) = r
      BY ONLY <2>1, Zenon DEF Unchanged
    <3> QED
      BY ONLY <1>4, <3>1, Zenon
  <2>2. CASE Defaulted(handler, r, Apply(handler, customs, r))
    <3>1. Apply(handler, customs, r) = [r EXCEPT !.head = 500, !.end = "answered"]
      BY ONLY <2>2, Zenon DEF Defaulted
    <3> QED
      BY ONLY <1>2, <3>1, Zenon
  <2>3. ASSUME NEW z \in Responses(e),
               Left(customs, e, handler, r, z, Apply(handler, customs, r))
        PROVE  Apply(handler, customs, r) \in Responses(e) \cup Responses(Thrown)
    <3>1. Apply(handler, customs, r)
             = IF z.end = "threw" THEN [z EXCEPT !.error = Thrown, !.end = ""] ELSE z
      BY ONLY <2>3, Zenon DEF Left
    <3> QED
      BY ONLY <1>3, <3>1, z \in Responses(e), Zenon
  <2> QED
    BY <1>4, <2>1, <2>2, <2>3, ApplyCases, Zenon
<1>6. Responses(e) \cup Responses(Thrown) \subseteq Outcomes(error)
  BY <1>1 DEF Outcomes
<1> QED
  BY <1>5, <1>6

\* After m error handlers: nothing is answered twice, nobody claims but an
\* application that does, and where all its handlers decline, an answer of
\* HttpErrorHandler is the documented one, or 500 for an error that is malformed,
\* and nothing but that or a status that cannot be sent leaves it to the next.
Expected(error, head) == head = Documented(error) \/ (head = 500 /\ error.malformed)

Passed(handlers, customs, error, head, m, y) ==
    /\ y \in Outcomes(error)
    /\ head # 0 => y.head # 0 /\ y.end # "answered"
    /\ y.head # 0 /\ y.end # "answered" =>
          head # 0 \/ "answersAndDeclines" \in ToSet(customs)
    /\ y.end = "claimed" => "claims" \in ToSet(customs)
    /\ ToSet(customs) \subseteq {"declines"} /\ head = 0 /\ handlers # <<>> =>
          /\ y.end = "answered" => Expected(error, y.head)
          /\ y.end = "" => /\ y.head = 0
                           /\ y.status \in {0, 500, Documented(error)}
                           /\ \/ m = 0 /\ y.error = error
                              \/ y.error = Thrown /\ Fallible(error)

LEMMA PassedNext ==
  ASSUME NEW handlers, NEW customs \in Seq(CustomKinds), NEW error, NEW head,
         NEW m \in Nat, m # 0, NEW y, Passed(handlers, customs, error, head, m - 1, y),
         NEW handler \in {"default", "HttpErrorHandler"},
         handler = "default" => handlers = <<>>
  PROVE  Passed(handlers, customs, error, head, m, Apply(handler, customs, y))
<1> DEFINE w == Apply(handler, customs, y)
           Plain == ToSet(customs) \subseteq {"declines"} /\ head = 0 /\ handlers # <<>>
<1>0. y \in Outcomes(error)
  BY DEF Passed
<1>1. PICK e \in {error, Thrown} : y \in Responses(e)
  BY <1>0 DEF Outcomes
<1>2. w \in Outcomes(error)
  BY <1>0, ApplyType
<1>3. y.error = e
  BY <1>1 DEF Responses
<1>4. ASSUME Unchanged(handler, y, w) PROVE Passed(handlers, customs, error, head, m, w)
  <2>0. w = y /\ (y.end = "" => handler = "default")
    BY <1>4 DEF Unchanged
  <2>1. Plain => y.end # "" /\ (y.end = "answered" => Expected(error, y.head))
    BY <2>0 DEF Passed
  <2>2. /\ head # 0 => y.head # 0 /\ y.end # "answered"
        /\ y.head # 0 /\ y.end # "answered" =>
              head # 0 \/ "answersAndDeclines" \in ToSet(customs)
        /\ y.end = "claimed" => "claims" \in ToSet(customs)
    BY DEF Passed
  <2>3. Passed(handlers, customs, error, head, m, y)
    BY <1>0, <2>1, <2>2 DEF Passed
  <2> QED
    BY <2>0, <2>3
<1>5. ASSUME Defaulted(handler, y, w) PROVE Passed(handlers, customs, error, head, m, w)
  <2>0. /\ y.end = "" /\ handler = "default" /\ y.head = 0
        /\ w = [y EXCEPT !.head = 500, !.end = "answered"]
    BY <1>5 DEF Defaulted
  <2>1. w.head = 500 /\ w.end = "answered"
    <3> HIDE DEF w
    <3>1. /\ [y EXCEPT !.head = 500, !.end = "answered"].head = 500
          /\ [y EXCEPT !.head = 500, !.end = "answered"].end = "answered"
      BY <1>1 DEF Responses
    <3> QED
      BY <2>0, <3>1
  <2>2. ~Plain
    BY <2>0
  <2>3. head = 0
    BY <2>0 DEF Passed
  <2> HIDE DEF w
  <2> QED
    BY <1>2, <2>1, <2>2, <2>3 DEF Passed
<1>6. ASSUME NEW z \in Responses(e), Left(customs, e, handler, y, z, w)
      PROVE  Passed(handlers, customs, error, head, m, w)
  <2>0. /\ y.end = "" /\ Handled(customs, e, y.head, y.status, Len(Chain(customs)), z)
        /\ w = IF z.end = "threw" THEN [z EXCEPT !.error = Thrown, !.end = ""] ELSE z
    BY <1>6 DEF Left
  <2>1. /\ y.head # 0 => z.head # 0 /\ z.end # "answered"
        /\ z.head # 0 /\ z.end # "answered" =>
              y.head # 0 \/ "answersAndDeclines" \in ToSet(customs)
        /\ z.end = "claimed" => "claims" \in ToSet(customs)
        /\ z.end # ""
    BY <2>0 DEF Handled
  <2>2. /\ head # 0 => y.head # 0
        /\ y.head # 0 => head # 0 \/ "answersAndDeclines" \in ToSet(customs)
    BY <2>0 DEF Passed
  <2>3. Plain => /\ y.head = 0
                 /\ z.end = "answered" => Expected(error, z.head)
                 /\ z.end = "threw" => z.head = 0 /\ Fallible(error)
                 /\ z.status \in {0, 500, Documented(error)}
    <3> SUFFICES ASSUME Plain
                 PROVE  /\ y.head = 0
                        /\ z.end = "answered" => Expected(error, z.head)
                        /\ z.end = "threw" => z.head = 0 /\ Fallible(error)
                        /\ z.status \in {0, 500, Documented(error)}
      OBVIOUS
    <3>1. /\ y.head = 0
          /\ y.status \in {0, 500, Documented(error)}
          /\ \/ y.error = error
             \/ y.error = Thrown /\ Fallible(error)
      BY <2>0 DEF Passed
    <3>3. /\ z.end = "answered" => z.head = Documented(e)
          /\ z.end = "threw" => z.head = 0 /\ Fallible(e)
          /\ z.status \in {y.status, Documented(e)}
      BY <2>0, <3>1 DEF Handled
    <3>4. CASE y.error = error
      BY <1>3, <3>1, <3>3, <3>4 DEF Expected
    <3>5. CASE y.error = Thrown /\ Fallible(error)
      <4>1. Documented(e) = 500
        BY <1>3, <3>5, ThrownIsDocumented
      <4> QED
        BY <3>1, <3>3, <3>5, <4>1 DEF Expected, Fallible
    <3> QED
      BY <3>1, <3>4, <3>5
  <2>4. CASE z.end = "threw"
    <3>1. w.error = Thrown /\ w.head = z.head /\ w.status = z.status /\ w.end = ""
      <4>1. w = [z EXCEPT !.error = Thrown, !.end = ""]
        BY <2>0, <2>4
      <4> HIDE DEF w
      <4>2. z \in [error : {e}, head : {0} \cup StatusCodes, status : {0} \cup StatusCodes,
                   end : {"", "answered", "claimed", "threw"}]
        BY DEF Responses
      <4> QED
        BY ONLY <4>1, <4>2
    <3> HIDE DEF w
    <3>2. Plain => /\ w.head = 0 /\ w.status \in {0, 500, Documented(error)}
                   /\ w.error = Thrown /\ Fallible(error)
      BY <2>3, <2>4, <3>1
    <3>3. w.end # "answered" /\ w.end # "claimed"
      BY <3>1
    <3>4. head # 0 => w.head # 0
      BY <2>1, <2>2, <2>4, <3>1
    <3>5. w.head # 0 => head # 0 \/ "answersAndDeclines" \in ToSet(customs)
      BY <2>1, <2>2, <2>4, <3>1
    <3> QED
      BY <1>2, <3>2, <3>3, <3>4, <3>5, Zenon DEF Passed
  <2>5. CASE z.end # "threw"
    <3>1. w = z
      BY <2>0, <2>5
    <3> HIDE DEF w
    <3>2. /\ head # 0 => w.head # 0 /\ w.end # "answered"
          /\ w.head # 0 /\ w.end # "answered" =>
                head # 0 \/ "answersAndDeclines" \in ToSet(customs)
          /\ w.end = "claimed" => "claims" \in ToSet(customs)
      BY ONLY <2>1, <2>2, <3>1
    <3>3. Plain => (w.end = "answered" => Expected(error, w.head))
      BY ONLY <2>3, <3>1
    <3>4. w.end # ""
      BY ONLY <2>1, <3>1
    <3> QED
      BY ONLY <1>2, <3>2, <3>3, <3>4, Zenon DEF Passed, Plain
  <2> QED
    BY <2>4, <2>5
<1>7. \/ Unchanged(handler, y, w)
      \/ Defaulted(handler, y, w)
      \/ \E z \in Responses(e) : Left(customs, e, handler, y, z, w)
  BY <1>1, ApplyCases
<1> HIDE DEF w
<1>8. Passed(handlers, customs, error, head, m, w)
  BY <1>4, <1>5, <1>6, <1>7
<1> QED
  BY <1>8 DEF w

\* What Passing is after each error handler.
LEMMA PassingSteps ==
  ASSUME NEW handlers \in Seq({"HttpErrorHandler"}), NEW customs \in Seq(CustomKinds),
         NEW error, NEW r \in Responses(error)
  PROVE  /\ Passing(handlers, customs, r)[0] = r
         /\ \A n \in 1..Len(Registered(handlers)) :
               Passing(handlers, customs, r)[n] =
                  Apply(Registered(handlers)[n], customs, Passing(handlers, customs, r)[n - 1])
<1> DEFINE N == Len(Registered(handlers))
           S == Outcomes(error)
           Next1(n, x) == Apply(Registered(handlers)[n], customs, x)
           step == [n \in 1..N |-> [x \in S |-> Next1(n, x)]]
<1>1. N \in Nat
  BY RegisteredFacts
<1>2. step \in [1..N -> [S -> S]]
  <2>1. \A n \in 1..N : Registered(handlers)[n] \in {"default", "HttpErrorHandler"}
    BY RegisteredFacts
  <2> HIDE DEF S, N
  <2>2. ASSUME NEW n \in 1..N, NEW x \in S PROVE Next1(n, x) \in S
    BY <2>1, ApplyType DEF S
  <2> HIDE DEF Next1
  <2> QED
    BY <2>2
<1>3. \E g \in [0..N -> S] : Computes(g, r, N, step)
  <2>1. r \in S
    BY DEF Outcomes
  <2> HIDE DEF S, N, step
  <2> QED
    BY <1>1, <1>2, <2>1, Recursion
<1>4. PICK g \in [0..N -> S] : g[0] = r /\ \A n \in 1..N : g[n] = step[n][g[n - 1]]
  <2> HIDE DEF S, N, step
  <2> QED
    BY <1>3 DEF Computes
<1>5. \A n \in 1..N : g[n] = Next1(n, g[n - 1])
  <2> HIDE DEF S, N, Next1
  <2>1. \A n \in 1..N : n - 1 \in 0..N
    BY <1>1
  <2> QED
    BY <1>4, <2>1
<1>6. g = [n \in 0..N |-> IF n = 0 THEN r ELSE Next1(n, g[n - 1])]
  <2> HIDE DEF S, N, step, Next1
  <2>1. \A n \in 0..N : n = 0 \/ n \in 1..N
    BY <1>1
  <2> QED
    BY <1>4, <1>5, <2>1
<1>7. Passing(handlers, customs, r) =
         CHOOSE f : f = [n \in 0..N |-> IF n = 0 THEN r ELSE Next1(n, f[n - 1])]
  BY Zenon DEF Passing
<1> DEFINE f == Passing(handlers, customs, r)
<1>8. f = [n \in 0..N |-> IF n = 0 THEN r ELSE Next1(n, f[n - 1])]
  <2> HIDE DEF N, f, Next1
  <2>1. \E h : h = [n \in 0..N |-> IF n = 0 THEN r ELSE Next1(n, h[n - 1])]
    BY <1>6, Zenon
  <2> QED
    BY <1>7, <2>1, Zenon DEF f
<1>9. f[0] = r /\ \A n \in 1..N : f[n] = Next1(n, f[n - 1])
  <2> HIDE DEF f, N, Next1
  <2>1. 0 \in 0..N /\ \A n \in 1..N : n \in 0..N /\ n # 0
    BY <1>1
  <2> QED
    BY <1>8, <2>1
<1> HIDE DEF f
<1> QED
  BY <1>9 DEF f

LEMMA RowIsPassed ==
  ASSUME NEW handlers \in Seq({"HttpErrorHandler"}), NEW customs \in Seq(CustomKinds),
         NEW error, NEW r \in Responses(error), r.end = "", r.status = 0
  PROVE  Passed(handlers, customs, error, r.head, Len(Registered(handlers)),
                Passing(handlers, customs, r)[Len(Registered(handlers))])
<1> DEFINE f == Passing(handlers, customs, r)
           T == {m \in Nat : Passed(handlers, customs, error, r.head, m, f[m])}
<1>n. PICK N : N = Len(Registered(handlers))
  OBVIOUS
<1>1. N \in Nat
  BY <1>n, RegisteredFacts
<1>2. f[0] = r /\ \A m \in 1..N : f[m] = Apply(Registered(handlers)[m], customs, f[m - 1])
  <2>1. /\ Passing(handlers, customs, r)[0] = r
        /\ \A n \in 1..Len(Registered(handlers)) :
              Passing(handlers, customs, r)[n] =
                 Apply(Registered(handlers)[n], customs, Passing(handlers, customs, r)[n - 1])
    BY ONLY PassingSteps, handlers \in Seq({"HttpErrorHandler"}), customs \in Seq(CustomKinds),
            r \in Responses(error)
  <2> QED
    BY <1>n, <2>1
<1> HIDE DEF f
<1>3. 0 \in T
  <2>1. r \in Outcomes(error) /\ r.error = error
    BY DEF Outcomes, Responses
  <2>2. Passed(handlers, customs, error, r.head, 0, r)
    BY <2>1 DEF Passed
  <2> QED
    BY <1>2, <2>2
<1>4. ASSUME NEW m \in Nat, m < N, m \in T PROVE m + 1 \in T
  <2>1. m + 1 \in 1..N /\ (m + 1) - 1 = m /\ m + 1 \in Nat /\ m + 1 # 0
    <3>1. m < N /\ m \in Nat
      BY <1>4
    <3> QED
      BY ONLY <1>1, <3>1
  <2>2. f[m + 1] = Apply(Registered(handlers)[m + 1], customs, f[m])
    BY <1>2, <2>1
  <2>3. /\ Registered(handlers)[m + 1] \in {"default", "HttpErrorHandler"}
        /\ Registered(handlers)[m + 1] = "default" => handlers = <<>>
    BY <1>n, <2>1, RegisteredFacts
  <2>4. Passed(handlers, customs, error, r.head, (m + 1) - 1, f[m])
    BY <1>4, <2>1
  <2>5. Passed(handlers, customs, error, r.head, m + 1,
               Apply(Registered(handlers)[m + 1], customs, f[m]))
    BY <2>1, <2>3, <2>4, PassedNext
  <2> QED
    BY <2>1, <2>2, <2>5
<1>5. 0..N \subseteq T
  <2> HIDE DEF T
  <2> QED
    BY <1>1, <1>3, <1>4, UpTo
<1>6. N \in T
  <2>1. N \in 0..N
    BY ONLY <1>1
  <2> HIDE DEF T
  <2> QED
    BY <1>5, <2>1
<1> QED
  BY <1>6, <1>n DEF f

LEMMA EveryFailure ==
  ASSUME NEW handlers \in Seq({"HttpErrorHandler"}), NEW customs \in Seq(CustomKinds),
         NEW error, NEW head \in {0} \cup StatusCodes
  PROVE  LET result == ErrorHandled(handlers, customs, error, head)
         IN /\ result.end = "answered" => head = 0
            /\ result.end = "destroyed" =>
                  head # 0 \/ "answersAndDeclines" \in ToSet(customs)
            /\ result.end = "claimed" => "claims" \in ToSet(customs)
            /\ result.end = "answered" /\ ToSet(customs) \subseteq {"declines"}
                  /\ handlers # <<>> => Expected(error, result.head)
<1> DEFINE r == [error |-> error, head |-> head, status |-> 0, end |-> ""]
<1>1. r \in Responses(error) /\ r.end = "" /\ r.head = head /\ r.status = 0
  BY DEF Responses
<1>N. PICK N : N = Len(Registered(handlers))
  OBVIOUS
<1>0. N # 0
  BY <1>N, RegisteredFacts
<1>y. PICK y : y = Passing(handlers, customs, r)[N]
  OBVIOUS
<1>2. Passed(handlers, customs, error, head, N, y)
  <2> HIDE DEF r
  <2>1. Passed(handlers, customs, error, r.head, Len(Registered(handlers)),
               Passing(handlers, customs, r)[Len(Registered(handlers))])
    BY <1>1, RowIsPassed
  <2> QED
    BY ONLY <2>1, <1>1, <1>N, <1>y
<1>3. PICK w : w = ErrorHandled(handlers, customs, error, head)
  OBVIOUS
<1>4. w = FinalHandler(y)
  BY <1>3, <1>N, <1>y DEF ErrorHandled
<1> HIDE DEF r
<1>5. /\ head # 0 => y.head # 0 /\ y.end # "answered"
      /\ y.head # 0 /\ y.end # "answered" =>
            head # 0 \/ "answersAndDeclines" \in ToSet(customs)
      /\ y.end = "claimed" => "claims" \in ToSet(customs)
      /\ ToSet(customs) \subseteq {"declines"} /\ head = 0 /\ handlers # <<>> =>
            /\ y.end = "answered" => Expected(error, y.head)
            /\ y.end = "" => /\ y.head = 0 /\ Fallible(error)
                             /\ y.status \in {0, 500, Documented(error)}
  BY <1>0, <1>2 DEF Passed
<1>6. y \in [error : {error, Thrown}, head : {0} \cup StatusCodes,
            status : {0} \cup StatusCodes, end : {"", "answered", "claimed", "threw"}]
  BY <1>2 DEF Passed, Outcomes, Responses
<1>7. CASE y.end # ""
  <2>1. w = y
    BY <1>4, <1>7 DEF FinalHandler
  <2>2. y.end # "destroyed"
    BY ONLY <1>6
  <2>3. /\ w.end = "answered" => head = 0
        /\ w.end = "destroyed" => head # 0 \/ "answersAndDeclines" \in ToSet(customs)
        /\ w.end = "claimed" => "claims" \in ToSet(customs)
        /\ w.end = "answered" /\ ToSet(customs) \subseteq {"declines"}
              /\ handlers # <<>> => Expected(error, w.head)
    <3>1. w.end = "answered" => head = 0
      BY ONLY <1>5, <2>1
    <3>2. w.end = "claimed" => "claims" \in ToSet(customs)
      BY ONLY <1>5, <2>1
    <3>3. w.end = "answered" /\ ToSet(customs) \subseteq {"declines"}
              /\ handlers # <<>> => Expected(error, w.head)
      BY ONLY <1>5, <2>1, <3>1, Zenon
    <3> QED
      BY ONLY <2>1, <2>2, <3>1, <3>2, <3>3, Zenon
  <2> QED
    BY ONLY <1>3, <2>3, Zenon
<1>8. CASE y.end = "" /\ y.head = 0
  <2>0. PICK status : status = IF y.status \in 400..599 THEN y.status ELSE 500
    OBVIOUS
  <2>1. w = [y EXCEPT !.head = status, !.end = "answered"]
    BY <1>4, <1>8, <2>0 DEF FinalHandler
  <2>2. w.head = status /\ w.end = "answered"
    BY ONLY <1>6, <2>1
  <2>3. head = 0
    BY <1>5, <1>8
  <2>4. Fallible(error) /\ y.status \in {0, 500, Documented(error)} => Expected(error, status)
    <3>1. status = 500 \/ (status = y.status /\ y.status # 0)
      <4>1. 0 \notin 400..599
        BY ONLY TRUE
      <4> QED
        BY ONLY <2>0, <4>1, Zenon
    <3>2. Fallible(error) => Expected(error, 500)
      BY DEF Fallible, Expected
    <3>3. Expected(error, Documented(error))
      BY DEF Expected
    <3> QED
      BY <3>1, <3>2, <3>3, Zenon
  <2>5. ToSet(customs) \subseteq {"declines"} /\ handlers # <<>> => Expected(error, w.head)
    BY <1>5, <1>8, <2>2, <2>3, <2>4
  <2> QED
    BY ONLY <1>3, <2>2, <2>3, <2>5
<1>9. CASE y.end = "" /\ y.head # 0
  <2>1. w = [y EXCEPT !.end = "destroyed"]
    BY <1>4, <1>9 DEF FinalHandler
  <2>2. w.end = "destroyed"
    BY <1>6, <2>1
  <2> QED
    BY <1>3, <1>5, <1>9, <2>2
<1> QED
  BY <1>7, <1>8, <1>9

\* The error handlers are those that the server started with.
HandlersOf == errorHandlers \in ErrorHandlers

LEMMA HandlersStay == HandlersOf /\ [Next]_vars => HandlersOf'
<1> SUFFICES ASSUME HandlersOf, [Next]_vars PROVE HandlersOf'
  OBVIOUS
<1>1. errorHandlers' = errorHandlers
  BY DEF Next, vars, httpVars, hubVars, Attach, Broadcast, BroadcastToAll, Send, Close,
         Closed, Connect, Request, Responds, Answers, Fails, RegisterAgain, Upgrade,
         Disconnect, Closes, TimesOut
<1> QED
  BY <1>1 DEF HandlersOf

\* Whatever handlers the server and the application have and whatever a request
\* fails with, applyErrorHandlers() and HttpErrorHandler answer it as documented,
\* or with 500 if it is malformed, and never after a part of another answer.
THEOREM FailuresAnsweredHolds == Spec => []FailuresAnswered
<1>1. Init => HandlersOf
  BY DEF Init, HandlersOf
<1>2. HandlersOf => FailuresAnswered
  <2> SUFFICES ASSUME HandlersOf,
                      NEW s \in {t \in Sockets : socket[t] \in {"request", "responding"}},
                      NEW error \in Errors, NEW customs \in Handlers
               PROVE  LET result == Failure(s, error, customs)
                          begun == socket[s] = "responding"
                          declined == ToSet(customs) \subseteq {"declines"}
                      IN /\ result.end = "answered" => ~begun
                         /\ result.end = "destroyed" =>
                               begun \/ "answersAndDeclines" \in ToSet(customs)
                         /\ result.end = "claimed" => "claims" \in ToSet(customs)
                         /\ result.end = "answered" /\ declined /\ errorHandlers # <<>> =>
                               Expected(error, result.head)
    BY Zenon DEF FailuresAnswered, Expected
  <2>1. errorHandlers \in Seq({"HttpErrorHandler"}) /\ customs \in Seq(CustomKinds)
    BY HandlersAssumption DEF HandlersOf
  <2>2. PICK head : head = IF socket[s] = "responding" THEN 200 ELSE 0
    OBVIOUS
  <2>3. head \in {0} \cup StatusCodes /\ (head # 0 <=> socket[s] = "responding")
    BY <2>2 DEF StatusCodes
  <2>4. Failure(s, error, customs) = ErrorHandled(errorHandlers, customs, error, head)
    BY <2>2 DEF Failure
  <2>5. LET result == ErrorHandled(errorHandlers, customs, error, head)
        IN /\ result.end = "answered" => head = 0
           /\ result.end = "destroyed" =>
                 head # 0 \/ "answersAndDeclines" \in ToSet(customs)
           /\ result.end = "claimed" => "claims" \in ToSet(customs)
           /\ result.end = "answered" /\ ToSet(customs) \subseteq {"declines"}
                 /\ errorHandlers # <<>> => Expected(error, result.head)
    BY <2>1, <2>3, EveryFailure
  <2> QED
    BY <2>3, <2>4, <2>5
<1> QED
  BY <1>1, <1>2, HandlersStay, PTL DEF Spec
==================================================================================
