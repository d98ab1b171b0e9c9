-------------------------- MODULE TransportProofs --------------------------
(***************************************************************************)
(* Theorems about the TCP transport, for any number of servers, connections,*)
(* requests, processes and departures: the registry, the count, peace, and  *)
(* that the transport is the network the servers rely on.                   *)
(***************************************************************************)
EXTENDS TransportProperties, FiniteSetTheorems, TLAPS

-----------------------------------------------------------------------------
(* The types.  What lies at an acceptor's end are requests, what lies at an *)
(* opener's are replies.                                                    *)
Requests ==
  [kind : {"request"}, id : 1..MaxRequests, from : Processes, to : [node : Node]]
Replies ==
  [kind : {"reply"}, id : 1..MaxRequests, from : Processes, to : Processes]

OpenerEnds ==
  [state : {"opening", "handled", "orphan", "reset", "closed"}, in : Seq(Replies),
   fin : BOOLEAN, rst : BOOLEAN]
AcceptorEnds ==
  [state : {"none", "backlog", "handled", "closed"}, in : Seq(Requests),
   fin : BOOLEAN, rst : BOOLEAN]
Ends == [opener : OpenerEnds, acceptor : AcceptorEnds]
Nodes == [opener : Node, acceptor : Node]
Connection == [nodes : Nodes, ends : Ends, waiting : Requests]

Endpoint == Node \X Nat
Registry == UNION {[E -> Nat] : E \in SUBSET Endpoint}

ServersInv ==
  /\ status \in [Node -> {"up", "stopped", "gone"}]
  /\ boot \in [Node -> 1..MaxBoot]
  /\ sockets \in [Node -> Registry]
  /\ numConnections \in [Node -> Nat]
  /\ departures \in Nat

(* No server calls itself; a connect under way has no other end yet; only   *)
(* an open end holds messages; only a process that is alive has sockets, and*)
(* none that was stopped has one that it accepted.                          *)
EndsInv(c) ==
  LET opener == connections[c].ends.opener
      acceptor == connections[c].ends.acceptor
      nodes == connections[c].nodes
  IN
  /\ nodes.opener # nodes.acceptor
  /\ opener.state = "opening" => acceptor.state = "none"
  /\ ~ IsOpen(opener) => opener.in = <<>>
  /\ ~ IsOpen(acceptor) => acceptor.in = <<>>
  /\ opener.state # "closed" => Alive(nodes.opener)
  /\ acceptor.state \in {"backlog", "handled"} => status[nodes.acceptor] = "up"

ConnectionsInv ==
  /\ connections \in Seq(Connection)
  /\ Len(connections) <= MaxConnections
  /\ \A c \in DOMAIN connections : EndsInv(c)

(* A registered socket is one end of its connection, under the endpoint of  *)
(* the other, and has handlers or was reset; a socket with handlers is      *)
(* registered.                                                              *)
OpenerHas(node, e, c) ==
  /\ connections[c].nodes.opener = node
  /\ e = Listening(connections[c].nodes.acceptor)
  /\ connections[c].ends.opener.state \in {"handled", "reset"}

AcceptorHas(node, e, c) ==
  /\ connections[c].nodes.acceptor = node
  /\ e = Ephemeral(connections[c].nodes.opener, c)
  /\ connections[c].ends.acceptor.state = "handled"

IsRegistered(node, e, c) == Has(node, e) /\ sockets[node][e] = c

RegistryInv ==
  /\ \A node \in Node : \A e \in DOMAIN sockets[node] :
       /\ sockets[node][e] \in DOMAIN connections
       /\ \/ OpenerHas(node, e, sockets[node][e])
          \/ AcceptorHas(node, e, sockets[node][e])
  /\ \A c \in DOMAIN connections : LET nodes == connections[c].nodes IN
       /\ connections[c].ends.opener.state = "handled" =>
            IsRegistered(nodes.opener, Listening(nodes.acceptor), c)
       /\ connections[c].ends.acceptor.state = "handled" =>
            IsRegistered(nodes.acceptor, Ephemeral(nodes.opener, c), c)

(* The connections whose end at the node has been a connection: it was      *)
(* connected, refused, accepted or closed.  Each was counted at most once.  *)
Past(node) ==
  {c \in DOMAIN connections :
     \/ /\ connections[c].nodes.opener = node
        /\ connections[c].ends.opener.state # "opening"
     \/ /\ connections[c].nodes.acceptor = node
        /\ connections[c].ends.acceptor.state \notin {"none", "backlog"}}

CountInv ==
  \A node \in Node :
    /\ IsFiniteSet(DOMAIN sockets[node])
    /\ numConnections[node] >= Cardinality(DOMAIN sockets[node])
    /\ numConnections[node] <= Cardinality(Past(node))
    /\ departures = 0 => numConnections[node] = Cardinality(DOMAIN sockets[node])

(* While nobody ended or stopped a process no end was closed and none is    *)
(* told to close.                                                           *)
InPeace(ends) ==
  /\ ~ ends.opener.fin /\ ~ ends.opener.rst
  /\ ~ ends.acceptor.fin /\ ~ ends.acceptor.rst
  /\ ends.opener.state \in {"opening", "handled", "orphan"}
  /\ ends.opener.state # "opening" => ends.acceptor.state \in {"backlog", "handled"}

PeaceInv ==
  departures = 0 =>
    /\ \A node \in Node : status[node] = "up"
    /\ \A c \in DOMAIN connections : InPeace(connections[c].ends)

SocketsInv == ServersInv /\ ConnectionsInv /\ RegistryInv /\ CountInv /\ PeaceInv

-----------------------------------------------------------------------------
(* The messages.  Those on their way to one end of a connection: what waits *)
(* to be written at the connect, or lies in the end's socket.               *)
Queue(c, side) ==
  IF side = "acceptor" /\ connections[c].ends.opener.state = "opening"
  THEN <<connections[c].waiting>>
  ELSE connections[c].ends[side].in

WasReceived(message) == \E receipt \in received : receipt.message = message

(* The process at the opener's end, as long as that end was not closed.     *)
IsOpener(c, process) ==
  connections[c].ends.opener.state # "closed" =>
    process = ThisProcess(connections[c].nodes.opener)

SentRequests == {message \in sent : message.kind = "request"}

HistoryInv ==
  /\ sent \subseteq Messages
  /\ IsFiniteSet(SentRequests)
  /\ \A message \in sent : message.id <= Cardinality(SentRequests)
  /\ \A m, n \in SentRequests : m.id = n.id => m = n
  /\ received \subseteq [message : Messages, by : Processes]
  /\ \A receipt \in received : receipt.message \in sent
  /\ merged \subseteq sent

(* A request was received for each reply, sent or owed; a reply that is owed*)
(* was not sent, and is owed once.                                          *)
WasAsked(reply) ==
  \E receipt \in received :
    /\ receipt.message.kind = "request" /\ receipt.message.id = reply.id
    /\ receipt.by = reply.from /\ receipt.message.from = reply.to

RepliesInv ==
  /\ owed \subseteq [reply : Replies, endpoint : Node \X (1..MaxConnections)]
  /\ \A message \in sent : message.kind = "reply" => WasAsked(message)
  /\ \A answer \in owed :
       LET c == answer.endpoint[2] IN
       /\ WasAsked(answer.reply)
       /\ answer.reply \notin sent
       /\ c \in DOMAIN connections
       /\ answer.endpoint = Ephemeral(connections[c].nodes.opener, c)
       /\ IsOpener(c, answer.reply.to)
       /\ departures = 0 => Has(answer.reply.from.node, answer.endpoint)
  /\ \A a, b \in owed : a.reply.id = b.reply.id => a = b

(* A message is on its way once, was sent, was not received, and is on its  *)
(* way to its addressee.                                                    *)
Entry(c, side, i, message) ==
  /\ c \in DOMAIN connections /\ side \in Sides /\ i \in DOMAIN Queue(c, side)
  /\ message = Queue(c, side)[i]

Addressed(c, side, message) ==
  /\ side = "acceptor" => /\ message.to.node = connections[c].nodes.acceptor
                          /\ IsOpener(c, message.from)
  /\ side = "opener" => IsOpener(c, message.to)

QueuesInv ==
  /\ \A c, side, i, message : Entry(c, side, i, message) =>
       message \in sent /\ ~ WasReceived(message) /\ Addressed(c, side, message)
  /\ \A c, side, i, d, other, j, message :
       Entry(c, side, i, message) /\ Entry(d, other, j, message) =>
         c = d /\ side = other /\ i = j

(* Nothing else is lost in peace.                                           *)
LossInv ==
  departures = 0 =>
    \A message \in sent : \/ message \in merged \/ WasReceived(message)
                          \/ \E c, side, i : Entry(c, side, i, message)

MessagesInv == HistoryInv /\ RepliesInv /\ QueuesInv /\ LossInv

-----------------------------------------------------------------------------
(* Changes of connections.                                                  *)

LEMMA ConnectionFields ==
  ASSUME ConnectionsInv, NEW c \in DOMAIN connections
  PROVE  /\ c \in 1..Len(connections) /\ c \in Nat /\ c > 0
         /\ connections[c] \in Connection
         /\ connections[c].nodes \in Nodes /\ connections[c].ends \in Ends
         /\ connections[c].waiting \in Requests
         /\ connections[c].nodes.opener \in Node /\ connections[c].nodes.acceptor \in Node
         /\ connections[c].ends.opener \in OpenerEnds
         /\ connections[c].ends.acceptor \in AcceptorEnds
<1>1. connections \in Seq(Connection)
  BY DEF ConnectionsInv
<1>2. c \in 1..Len(connections) /\ c \in Nat /\ c > 0 /\ connections[c] \in Connection
  BY <1>1
<1>3. /\ connections[c].nodes \in Nodes /\ connections[c].ends \in Ends
      /\ connections[c].waiting \in Requests
  BY <1>2 DEF Connection
<1>4. connections[c].nodes.opener \in Node /\ connections[c].nodes.acceptor \in Node
  BY <1>3 DEF Nodes
<1>5. /\ connections[c].ends.opener \in OpenerEnds
      /\ connections[c].ends.acceptor \in AcceptorEnds
  BY <1>3 DEF Ends
<1> QED BY <1>2, <1>3, <1>4, <1>5

(* The ends of one connection change.                                       *)
Changes(c, ends) ==
  /\ ends \in Ends
  /\ connections' = [connections EXCEPT ![c].ends = ends]

LEMMA ChangesOne ==
  ASSUME ConnectionsInv, NEW c \in DOMAIN connections, NEW ends, Changes(c, ends)
  PROVE  /\ connections' \in Seq(Connection) /\ Len(connections') = Len(connections)
         /\ DOMAIN connections' = DOMAIN connections
         /\ \A d \in DOMAIN connections : d # c => connections'[d] = connections[d]
         /\ connections'[c].ends = ends
         /\ connections'[c].nodes = connections[c].nodes
         /\ connections'[c].waiting = connections[c].waiting
<1> DEFINE old == connections[c]
           new == [nodes |-> old.nodes, ends |-> ends, waiting |-> old.waiting]
<1>1. old \in Connection /\ connections \in Seq(Connection)
  BY ConnectionFields DEF ConnectionsInv
<1>2. ends \in Ends
  BY DEF Changes
<1>3. new \in Connection
  BY <1>1, <1>2 DEF Connection
<1>4. [old EXCEPT !.ends = ends] = new
  BY <1>1, <1>2 DEF Connection
<1>5. connections' = [connections EXCEPT ![c] = new]
  BY <1>4 DEF Changes
<1> HIDE DEF new
<1>6. /\ connections' \in Seq(Connection) /\ Len(connections') = Len(connections)
      /\ DOMAIN connections' = DOMAIN connections
      /\ \A d \in DOMAIN connections : d # c => connections'[d] = connections[d]
      /\ connections'[c] = new
  BY <1>1, <1>3, <1>5
<1> QED BY <1>6 DEF new

(* Some ends are closed, and the others hear of it.                         *)
ClosedEnd(c, side, gone, overtaken) ==
  LET ends == connections[c].ends IN
  IF <<c, side>> \in gone
  THEN IF ends[side].state = "none" THEN ends[side] ELSE End("closed")
  ELSE IF <<c, Other(side)>> \in gone /\ IsOpen(ends[Other(side)])
  THEN Notified(ends[side], ends[Other(side)], overtaken)
  ELSE ends[side]

(* What is left of an end when the ends in `gone` are closed.               *)
IsLeft(c, side, gone) ==
  LET old == connections[c].ends[side]
      new == connections'[c].ends[side]
  IN
  IF <<c, side>> \in gone /\ old.state # "none" THEN new = End("closed")
  ELSE new.state = old.state /\ new.in = old.in

LEMMA FlagsSet ==
  ASSUME NEW States, NEW Queues,
         NEW end \in [state : States, in : Queues, fin : BOOLEAN, rst : BOOLEAN],
         NEW fin \in BOOLEAN, NEW rst \in BOOLEAN,
         NEW new, new = [end EXCEPT !.fin = fin, !.rst = rst]
  PROVE  /\ new \in [state : States, in : Queues, fin : BOOLEAN, rst : BOOLEAN]
         /\ new.state = end.state /\ new.in = end.in
OBVIOUS

LEMMA NotifiedKeeps ==
  ASSUME NEW end, NEW gone, NEW overtaken \in BOOLEAN,
         \/ end \in OpenerEnds /\ gone \in AcceptorEnds
         \/ end \in AcceptorEnds /\ gone \in OpenerEnds
  PROVE  /\ end \in OpenerEnds => Notified(end, gone, overtaken) \in OpenerEnds
         /\ end \in AcceptorEnds => Notified(end, gone, overtaken) \in AcceptorEnds
         /\ Notified(end, gone, overtaken).state = end.state
         /\ Notified(end, gone, overtaken).in = end.in
<1> DEFINE unread == gone.in # <<>> \/ gone.state = "backlog"
           fin == end.fin \/ ~unread \/ (overtaken /\ gone.state # "backlog")
           rst == end.rst \/ unread
           new == [end EXCEPT !.fin = fin, !.rst = rst]
<1>1. end.fin \in BOOLEAN /\ end.rst \in BOOLEAN
  BY DEF OpenerEnds, AcceptorEnds
<1>2. fin \in BOOLEAN /\ rst \in BOOLEAN
  BY <1>1
<1>3. Notified(end, gone, overtaken) = IF ~IsOpen(end) THEN end ELSE new
  BY DEF Notified
<1>4. new = [end EXCEPT !.fin = fin, !.rst = rst]
  OBVIOUS
<1> HIDE DEF fin, rst, new
<1>5. end \in OpenerEnds => new \in OpenerEnds /\ new.state = end.state /\ new.in = end.in
  BY <1>2, <1>4, FlagsSet DEF OpenerEnds
<1>6. end \in AcceptorEnds =>
        new \in AcceptorEnds /\ new.state = end.state /\ new.in = end.in
  BY <1>2, <1>4, FlagsSet DEF AcceptorEnds
<1> QED BY <1>3, <1>5, <1>6

LEMMA ClosedEndKeeps ==
  ASSUME ConnectionsInv, NEW c \in DOMAIN connections, NEW gone,
         NEW overtaken \in BOOLEAN
  PROVE  /\ ClosedEnd(c, "opener", gone, overtaken) \in OpenerEnds
         /\ ClosedEnd(c, "acceptor", gone, overtaken) \in AcceptorEnds
         /\ \A side \in Sides :
              IF <<c, side>> \in gone /\ connections[c].ends[side].state # "none"
              THEN ClosedEnd(c, side, gone, overtaken) = End("closed")
              ELSE /\ ClosedEnd(c, side, gone, overtaken).state
                        = connections[c].ends[side].state
                   /\ ClosedEnd(c, side, gone, overtaken).in
                        = connections[c].ends[side].in
<1> DEFINE opener == connections[c].ends.opener
           acceptor == connections[c].ends.acceptor
<1>1. opener \in OpenerEnds /\ acceptor \in AcceptorEnds
  BY ConnectionFields
<1> HIDE DEF opener, acceptor
<1>2. End("closed") \in OpenerEnds /\ End("closed") \in AcceptorEnds
  BY DEF End, OpenerEnds, AcceptorEnds
<1>3. opener.state # "none"
  BY <1>1 DEF OpenerEnds
<1>4. ClosedEnd(c, "opener", gone, overtaken)
        = IF <<c, "opener">> \in gone THEN End("closed")
          ELSE IF <<c, "acceptor">> \in gone /\ IsOpen(acceptor)
          THEN Notified(opener, acceptor, overtaken) ELSE opener
  BY <1>3 DEF ClosedEnd, Other, opener, acceptor
<1>5. ClosedEnd(c, "acceptor", gone, overtaken)
        = IF <<c, "acceptor">> \in gone
          THEN IF acceptor.state = "none" THEN acceptor ELSE End("closed")
          ELSE IF <<c, "opener">> \in gone /\ IsOpen(opener)
          THEN Notified(acceptor, opener, overtaken) ELSE acceptor
  BY DEF ClosedEnd, Other, opener, acceptor
<1>6. /\ Notified(opener, acceptor, overtaken) \in OpenerEnds
      /\ Notified(opener, acceptor, overtaken).state = opener.state
      /\ Notified(opener, acceptor, overtaken).in = opener.in
  BY <1>1, NotifiedKeeps
<1>7. /\ Notified(acceptor, opener, overtaken) \in AcceptorEnds
      /\ Notified(acceptor, opener, overtaken).state = acceptor.state
      /\ Notified(acceptor, opener, overtaken).in = acceptor.in
  BY <1>1, NotifiedKeeps
<1>8. IF <<c, "opener">> \in gone /\ opener.state # "none"
      THEN ClosedEnd(c, "opener", gone, overtaken) = End("closed")
      ELSE /\ ClosedEnd(c, "opener", gone, overtaken).state = opener.state
           /\ ClosedEnd(c, "opener", gone, overtaken).in = opener.in
  BY <1>3, <1>4, <1>6
<1>9. IF <<c, "acceptor">> \in gone /\ acceptor.state # "none"
      THEN ClosedEnd(c, "acceptor", gone, overtaken) = End("closed")
      ELSE /\ ClosedEnd(c, "acceptor", gone, overtaken).state = acceptor.state
           /\ ClosedEnd(c, "acceptor", gone, overtaken).in = acceptor.in
  BY <1>5, <1>7
<1>10. ClosedEnd(c, "opener", gone, overtaken) \in OpenerEnds
  BY <1>1, <1>2, <1>4, <1>6
<1>11. ClosedEnd(c, "acceptor", gone, overtaken) \in AcceptorEnds
  BY <1>1, <1>2, <1>5, <1>7
<1> QED BY <1>8, <1>9, <1>10, <1>11 DEF Sides, opener, acceptor

LEMMA ClosingEnds ==
  ASSUME ConnectionsInv, NEW gone, NEW overtaken \in BOOLEAN,
         connections' = Closing(gone, overtaken)
  PROVE  /\ connections' \in Seq(Connection) /\ Len(connections') = Len(connections)
         /\ DOMAIN connections' = DOMAIN connections
         /\ \A c \in DOMAIN connections :
              /\ connections'[c].nodes = connections[c].nodes
              /\ connections'[c].waiting = connections[c].waiting
              /\ IsLeft(c, "opener", gone) /\ IsLeft(c, "acceptor", gone)
<1> DEFINE ends(c) == [opener |-> ClosedEnd(c, "opener", gone, overtaken),
                       acceptor |-> ClosedEnd(c, "acceptor", gone, overtaken)]
           new(c) == [nodes |-> connections[c].nodes, ends |-> ends(c),
                      waiting |-> connections[c].waiting]
<1>1. connections \in Seq(Connection) /\ DOMAIN connections = 1..Len(connections)
  BY DEF ConnectionsInv
<1>2. ASSUME NEW c \in DOMAIN connections
      PROVE  /\ ends(c) \in Ends
             /\ new(c) \in Connection
             /\ connections'[c] = new(c)
  <2>1. ends(c) \in Ends
    BY ClosedEndKeeps DEF Ends
  <2>2. /\ connections[c] \in Connection /\ connections[c].nodes \in Nodes
        /\ connections[c].waiting \in Requests
    BY ConnectionFields
  <2>3. new(c) \in Connection
    BY <2>1, <2>2 DEF Connection
  <2>4. connections'[c] =
          [connections[c] EXCEPT !.ends =
             [side \in Sides |-> ClosedEnd(c, side, gone, overtaken)]]
    BY DEF Closing, ClosedEnd
  <2>5. [side \in Sides |-> ClosedEnd(c, side, gone, overtaken)] = ends(c)
    BY DEF Sides
  <2>6. [connections[c] EXCEPT !.ends = ends(c)] = new(c)
    <3> HIDE DEF ends
    <3> QED BY <2>1, <2>2 DEF Connection
  <2> QED BY <2>1, <2>3, <2>4, <2>5, <2>6
<1>3. DOMAIN connections' = DOMAIN connections
  BY DEF Closing
<1>4. connections' = [c \in 1..Len(connections) |-> connections'[c]]
  BY <1>1 DEF Closing
<1>5. connections' \in Seq(Connection) /\ Len(connections') = Len(connections)
  <2>1. \A c \in 1..Len(connections) : connections'[c] \in Connection
    BY <1>1, <1>2
  <2> QED BY <1>1, <1>4, <2>1
<1>6. ASSUME NEW c \in DOMAIN connections
      PROVE  /\ connections'[c].nodes = connections[c].nodes
             /\ connections'[c].waiting = connections[c].waiting
             /\ IsLeft(c, "opener", gone) /\ IsLeft(c, "acceptor", gone)
  <2>1. connections'[c] = new(c)
    BY <1>2
  <2>2. /\ connections'[c].ends.opener = ClosedEnd(c, "opener", gone, overtaken)
        /\ connections'[c].ends.acceptor = ClosedEnd(c, "acceptor", gone, overtaken)
    BY <2>1
  <2>3. IsLeft(c, "opener", gone) /\ IsLeft(c, "acceptor", gone)
    BY <2>2, ClosedEndKeeps DEF IsLeft, Sides
  <2> QED BY <2>1, <2>3
<1> QED BY <1>3, <1>5, <1>6

-----------------------------------------------------------------------------
(* Registries.                                                              *)

LEMMA RegistryWith ==
  ASSUME NEW registry \in Registry, NEW endpoint \in Endpoint, NEW c \in Nat,
         NEW new, new = With(registry, endpoint, c)
  PROVE  /\ new \in Registry
         /\ DOMAIN new = DOMAIN registry \cup {endpoint}
         /\ \A e \in DOMAIN new : new[e] = IF e = endpoint THEN c ELSE registry[e]
<1>1. PICK E \in SUBSET Endpoint : registry \in [E -> Nat]
  BY DEF Registry
<1>2. new \in [E \cup {endpoint} -> Nat] /\ E \cup {endpoint} \in SUBSET Endpoint
  BY <1>1 DEF With
<1>3. new \in Registry
  BY <1>2 DEF Registry
<1> QED BY <1>3 DEF With

LEMMA RegistryWithout ==
  ASSUME NEW registry \in Registry, NEW endpoint,
         NEW new, new = Without(registry, endpoint)
  PROVE  /\ new \in Registry
         /\ DOMAIN new = DOMAIN registry \ {endpoint}
         /\ \A e \in DOMAIN new : new[e] = registry[e]
<1>1. PICK E \in SUBSET Endpoint : registry \in [E -> Nat]
  BY DEF Registry
<1>2. new \in [E \ {endpoint} -> Nat] /\ E \ {endpoint} \in SUBSET Endpoint
  BY <1>1 DEF Without, Restrict
<1>3. new \in Registry
  BY <1>2 DEF Registry
<1> QED BY <1>3 DEF Without, Restrict

LEMMA RegistryEmpty == << >> \in Registry /\ DOMAIN << >> = {}
<1>1. DOMAIN << >> = {} /\ << >> = [e \in {} |-> 0]
  OBVIOUS
<1>2. << >> \in [{} -> Nat]
  BY <1>1
<1> QED BY <1>1, <1>2 DEF Registry

(* What is registered under a listening endpoint was opened here, what is   *)
(* registered under an ephemeral one was accepted.                          *)
LEMMA RegisteredSides ==
  ASSUME ConnectionsInv, RegistryInv, NEW node \in Node,
         NEW e \in DOMAIN sockets[node], NEW c, c = sockets[node][e]
  PROVE  /\ c \in DOMAIN connections
         /\ e[2] = 0 => OpenerHas(node, e, c) /\ SideOf(node, c) = "opener"
         /\ e[2] # 0 => /\ AcceptorHas(node, e, c) /\ SideOf(node, c) = "acceptor"
                        /\ c = e[2]
<1>1. c \in DOMAIN connections /\ (OpenerHas(node, e, c) \/ AcceptorHas(node, e, c))
  BY DEF RegistryInv
<1>2. c > 0
  BY <1>1, ConnectionFields
<1>3. connections[c].nodes.opener # connections[c].nodes.acceptor
  BY <1>1 DEF ConnectionsInv, EndsInv
<1>4. OpenerHas(node, e, c) => e[2] = 0 /\ connections[c].nodes.acceptor # node
  <2>1. ASSUME NEW peer, e = Listening(peer) PROVE e[2] = 0
    BY <2>1 DEF Listening
  <2>2. OpenerHas(node, e, c) =>
          /\ connections[c].nodes.opener = node
          /\ e = Listening(connections[c].nodes.acceptor)
    BY DEF OpenerHas
  <2> QED BY <1>3, <2>1, <2>2
<1>5. AcceptorHas(node, e, c) =>
        e[2] = c /\ e[2] # 0 /\ connections[c].nodes.opener # node
  <2>1. ASSUME NEW peer, e = Ephemeral(peer, c) PROVE e[2] = c
    BY <2>1 DEF Ephemeral
  <2>2. AcceptorHas(node, e, c) =>
          /\ connections[c].nodes.acceptor = node
          /\ e = Ephemeral(connections[c].nodes.opener, c)
    BY DEF AcceptorHas
  <2> QED BY <1>2, <1>3, <2>1, <2>2
<1>6. OpenerHas(node, e, c) => SideOf(node, c) = "opener"
  BY <1>4 DEF SideOf, NodeOf, Sides, OpenerHas
<1>7. AcceptorHas(node, e, c) => SideOf(node, c) = "acceptor"
  BY <1>5 DEF SideOf, NodeOf, Sides, AcceptorHas
<1> QED BY <1>1, <1>4, <1>5, <1>6, <1>7

LEMMA PastGrows ==
  ASSUME ConnectionsInv', NEW node, \A c \in Past(node) : c \in Past(node)'
  PROVE  /\ Cardinality(Past(node)) \in Nat /\ Cardinality(Past(node)') \in Nat
         /\ Cardinality(Past(node)) <= Cardinality(Past(node)')
         /\ IsFiniteSet(Past(node)')
<1>1. Past(node)' \subseteq 1..Len(connections') /\ Len(connections') \in Nat
  BY DEF Past, ConnectionsInv
<1>2. IsFiniteSet(1..Len(connections'))
  BY <1>1, FS_Interval
<1>3. IsFiniteSet(Past(node)')
  BY <1>1, <1>2, FS_Subset
<1>4. Past(node) \subseteq Past(node)'
  OBVIOUS
<1> QED BY <1>3, <1>4, FS_Subset, FS_CardinalityType

-----------------------------------------------------------------------------
(* The events, one at a time.  First those that leave the registries alone: *)
(* an end may be refused, orphaned or reset, and messages come and go.      *)
Quiet(old, new) ==
  /\ new.opener.state = "handled" => old.opener.state = "handled"
  /\ old.opener.state \in {"handled", "reset"} => new.opener.state \in {"handled", "reset"}
  /\ new.acceptor.state = "handled" <=> old.acceptor.state = "handled"
  /\ old.opener.state # "opening" => new.opener.state # "opening"
  /\ old.acceptor.state \notin {"none", "backlog"} =>
       new.acceptor.state \notin {"none", "backlog"}

LEMMA ConnectionsChange ==
  ASSUME ConnectionsInv, NEW c \in DOMAIN connections, NEW ends, Changes(c, ends),
         status' = status, EndsInv(c)'
  PROVE  ConnectionsInv'
<1>1. /\ connections' \in Seq(Connection) /\ Len(connections') = Len(connections)
      /\ DOMAIN connections' = DOMAIN connections
      /\ \A d \in DOMAIN connections : d # c => connections'[d] = connections[d]
  BY ChangesOne
<1>2. ASSUME NEW d \in DOMAIN connections, d # c PROVE EndsInv(d)'
  <2>1. EndsInv(d) /\ connections'[d] = connections[d]
    BY <1>1, <1>2 DEF ConnectionsInv
  <2> QED BY <2>1 DEF EndsInv, Alive
<1> QED BY <1>1, <1>2 DEF ConnectionsInv

(* While the registries stay as they are.                                   *)
LEMMA CountsKeep ==
  ASSUME ServersInv, CountInv, ConnectionsInv',
         UNCHANGED <<sockets, numConnections, departures>>,
         \A node \in Node : \A c \in Past(node) : c \in Past(node)'
  PROVE  CountInv'
<1> SUFFICES ASSUME NEW node \in Node
             PROVE  /\ IsFiniteSet(DOMAIN sockets[node])
                    /\ numConnections[node] >= Cardinality(DOMAIN sockets[node])
                    /\ numConnections[node] <= Cardinality(Past(node)')
                    /\ departures = 0 =>
                         numConnections[node] = Cardinality(DOMAIN sockets[node])
  BY DEF CountInv
<1>1. /\ Cardinality(Past(node)) \in Nat /\ Cardinality(Past(node)') \in Nat
      /\ Cardinality(Past(node)) <= Cardinality(Past(node)')
  BY PastGrows
<1>2. numConnections[node] \in Nat
  BY DEF ServersInv
<1> QED BY <1>1, <1>2 DEF CountInv

LEMMA QuietSteps ==
  ASSUME SocketsInv, NEW c \in DOMAIN connections, NEW ends, Changes(c, ends),
         UNCHANGED <<status, boot, sockets, numConnections, departures>>,
         EndsInv(c)', Quiet(connections[c].ends, ends), departures = 0 => InPeace(ends)
  PROVE  SocketsInv'
<1>1. ConnectionsInv'
  BY ConnectionsChange DEF SocketsInv
<1>2. /\ DOMAIN connections' = DOMAIN connections
      /\ \A d \in DOMAIN connections : d # c => connections'[d] = connections[d]
      /\ connections'[c].ends = ends
      /\ connections'[c].nodes = connections[c].nodes
  BY ChangesOne DEF SocketsInv
<1>3. ServersInv'
  BY DEF SocketsInv, ServersInv
<1>4. ASSUME NEW d \in DOMAIN connections
      PROVE  /\ connections'[d].nodes = connections[d].nodes
             /\ Quiet(connections[d].ends, connections'[d].ends)
             /\ PeaceInv => (departures = 0 => InPeace(connections'[d].ends))
  BY <1>2 DEF Quiet, PeaceInv
<1>5. RegistryInv'
  <2>1. ASSUME NEW node \in Node, NEW e \in DOMAIN sockets[node],
               NEW d, d = sockets[node][e]
        PROVE  d \in DOMAIN connections /\ (OpenerHas(node, e, d) \/ AcceptorHas(node, e, d))'
    <3>1. d \in DOMAIN connections /\ (OpenerHas(node, e, d) \/ AcceptorHas(node, e, d))
      BY <2>1 DEF SocketsInv, RegistryInv
    <3>2. /\ connections'[d].nodes = connections[d].nodes
          /\ Quiet(connections[d].ends, connections'[d].ends)
      BY <1>4, <3>1
    <3>3. OpenerHas(node, e, d) => OpenerHas(node, e, d)'
      BY <3>2 DEF Quiet, OpenerHas
    <3>4. AcceptorHas(node, e, d) => AcceptorHas(node, e, d)'
      BY <3>2 DEF Quiet, AcceptorHas
    <3> QED BY <3>1, <3>3, <3>4
  <2>2. ASSUME NEW d \in DOMAIN connections
        PROVE  /\ connections'[d].ends.opener.state = "handled" =>
                    connections[d].ends.opener.state = "handled"
               /\ connections'[d].ends.acceptor.state = "handled" =>
                    connections[d].ends.acceptor.state = "handled"
               /\ connections'[d].nodes = connections[d].nodes
    BY <1>4 DEF Quiet
  <2>3. \A node, e, d : IsRegistered(node, e, d)' <=> IsRegistered(node, e, d)
    BY DEF IsRegistered, Has
  <2> QED BY <1>2, <2>1, <2>2, <2>3 DEF SocketsInv, RegistryInv
<1>6. CountInv'
  <2>1. ASSUME NEW node \in Node, NEW d \in Past(node) PROVE d \in Past(node)'
    <3>1. d \in DOMAIN connections
      BY DEF Past
    <3> QED BY <1>2, <1>4, <3>1 DEF Past, Quiet
  <2> QED BY <1>1, <2>1, CountsKeep DEF SocketsInv
<1>7. PeaceInv'
  BY <1>2, <1>4 DEF SocketsInv, PeaceInv
<1> QED BY <1>1, <1>3, <1>5, <1>6, <1>7 DEF SocketsInv

(* A connect begins.                                                        *)
LEMMA OpeningStep ==
  ASSUME SocketsInv, NEW node \in Node, NEW peer \in Node, NEW message \in Requests,
         node # peer, Alive(node), Len(connections) < MaxConnections,
         connections' = Append(connections, NewConnection(node, peer, message)),
         UNCHANGED <<status, boot, sockets, numConnections, departures>>
  PROVE  /\ SocketsInv'
         /\ DOMAIN connections' = DOMAIN connections \cup {Len(connections')}
         /\ Len(connections') \notin DOMAIN connections
         /\ \A c \in DOMAIN connections : connections'[c] = connections[c]
         /\ connections'[Len(connections')] = NewConnection(node, peer, message)
<1> DEFINE new == NewConnection(node, peer, message)
<1>1. connections \in Seq(Connection) /\ MaxConnections \in Nat
  BY BoundsAssumption DEF SocketsInv, ConnectionsInv
<1>2. new \in Connection
  <2>1. End("opening") \in OpenerEnds /\ End("none") \in AcceptorEnds
    BY DEF End, OpenerEnds, AcceptorEnds
  <2>2. [opener |-> End("opening"), acceptor |-> End("none")] \in Ends
    BY <2>1 DEF Ends
  <2>3. [opener |-> node, acceptor |-> peer] \in Nodes
    BY DEF Nodes
  <2> QED BY <2>2, <2>3 DEF NewConnection, Connection
<1> HIDE DEF new
<1>3. connections' = Append(connections, new)
  BY DEF new
<1>4. /\ connections' \in Seq(Connection)
      /\ Len(connections') = Len(connections) + 1
      /\ DOMAIN connections' = DOMAIN connections \cup {Len(connections')}
      /\ Len(connections') \notin DOMAIN connections
      /\ \A c \in DOMAIN connections : connections'[c] = connections[c]
      /\ connections'[Len(connections')] = new
  BY <1>1, <1>2, <1>3
<1> DEFINE k == Len(connections')
<1> HIDE DEF k
<1>5. /\ new.nodes.opener = node /\ new.nodes.acceptor = peer
      /\ new.ends.opener = End("opening") /\ new.ends.acceptor = End("none")
  BY DEF new, NewConnection
<1>6. ConnectionsInv'
  <2>1. ASSUME NEW c \in DOMAIN connections PROVE EndsInv(c)'
    <3>1. EndsInv(c) /\ connections'[c] = connections[c]
      BY <1>4 DEF SocketsInv, ConnectionsInv
    <3> QED BY <3>1 DEF EndsInv, Alive
  <2>2. ASSUME NEW c, c = Len(connections') PROVE EndsInv(c)'
    <3>1. connections'[c] = new
      BY <1>4, <2>2
    <3> QED BY <1>5, <3>1 DEF EndsInv, End, IsOpen, Alive
  <2>3. Len(connections') <= MaxConnections
    BY <1>1, <1>4
  <2> QED BY <1>4, <2>1, <2>2, <2>3 DEF ConnectionsInv
<1>7. ServersInv'
  BY DEF SocketsInv, ServersInv
<1>8. RegistryInv'
  <2>1. ASSUME NEW n \in Node, NEW e \in DOMAIN sockets[n], NEW d, d = sockets[n][e]
        PROVE  d \in DOMAIN connections' /\ (OpenerHas(n, e, d) \/ AcceptorHas(n, e, d))'
    <3>1. d \in DOMAIN connections /\ (OpenerHas(n, e, d) \/ AcceptorHas(n, e, d))
      BY <2>1 DEF SocketsInv, RegistryInv
    <3>2. d \in DOMAIN connections' /\ connections'[d] = connections[d]
      BY <1>4, <3>1
    <3> QED BY <3>1, <3>2 DEF OpenerHas, AcceptorHas
  <2>2. \A n, e, d : IsRegistered(n, e, d)' <=> IsRegistered(n, e, d)
    BY DEF IsRegistered, Has
  <2>3. /\ connections'[Len(connections')].ends.opener.state # "handled"
        /\ connections'[Len(connections')].ends.acceptor.state # "handled"
    BY <1>4, <1>5 DEF End
  <2> QED BY <1>4, <2>1, <2>2, <2>3 DEF SocketsInv, RegistryInv
<1>9. CountInv'
  <2>1. ASSUME NEW n \in Node, NEW c \in Past(n) PROVE c \in Past(n)'
    BY <1>4 DEF Past
  <2> QED BY <1>6, <2>1, CountsKeep DEF SocketsInv
<1>10. PeaceInv'
  <2>1. InPeace(new.ends)
    BY <1>5 DEF InPeace, End
  <2> QED BY <1>4, <2>1 DEF SocketsInv, PeaceInv
<1> QED BY <1>4, <1>6, <1>7, <1>8, <1>9, <1>10 DEF SocketsInv, new

(* A socket gets its handlers and is registered: at the connect callback or *)
(* at the connection callback.                                              *)
Saved(node, e, old, new, nodes, c) ==
  /\ old.opener.state \in {"handled", "reset"} => new.opener.state \in {"handled", "reset"}
  /\ old.acceptor.state = "handled" => new.acceptor.state = "handled"
  /\ new.opener.state = "handled" =>
       \/ old.opener.state = "handled"
       \/ node = nodes.opener /\ e = Listening(nodes.acceptor)
  /\ new.acceptor.state = "handled" =>
       \/ old.acceptor.state = "handled"
       \/ node = nodes.acceptor /\ e = Ephemeral(nodes.opener, c)
  /\ old.opener.state # "opening" => new.opener.state # "opening"
  /\ old.acceptor.state \notin {"none", "backlog"} =>
       new.acceptor.state \notin {"none", "backlog"}

LEMMA SavingStep ==
  ASSUME SocketsInv, NEW c \in DOMAIN connections, NEW ends, Changes(c, ends),
         UNCHANGED <<status, boot, departures>>, EndsInv(c)',
         departures = 0 => InPeace(ends),
         NEW node \in Node, NEW endpoint \in Endpoint, Save(node, endpoint, c),
         ~ Has(node, endpoint), c \notin Past(node), c \in Past(node)',
         (OpenerHas(node, endpoint, c) \/ AcceptorHas(node, endpoint, c))',
         Saved(node, endpoint, connections[c].ends, ends, connections[c].nodes, c)
  PROVE  SocketsInv'
<1>1. ConnectionsInv'
  BY ConnectionsChange DEF SocketsInv
<1>2. /\ DOMAIN connections' = DOMAIN connections
      /\ \A d \in DOMAIN connections : d # c => connections'[d] = connections[d]
      /\ connections'[c].ends = ends
      /\ connections'[c].nodes = connections[c].nodes
      /\ c \in Nat
  BY ChangesOne, ConnectionFields DEF SocketsInv
<1>3. sockets \in [Node -> Registry] /\ numConnections \in [Node -> Nat]
  BY DEF SocketsInv, ServersInv
<1>4. PICK new : new = With(sockets[node], endpoint, c)
  OBVIOUS
<1>5. /\ new \in Registry /\ DOMAIN new = DOMAIN sockets[node] \cup {endpoint}
      /\ new[endpoint] = c
      /\ \A e \in DOMAIN sockets[node] : e # endpoint /\ new[e] = sockets[node][e]
  <2>1. sockets[node] \in Registry /\ endpoint \notin DOMAIN sockets[node]
    BY <1>3 DEF Has
  <2>2. /\ new \in Registry /\ DOMAIN new = DOMAIN sockets[node] \cup {endpoint}
        /\ \A e \in DOMAIN new : new[e] = IF e = endpoint THEN c ELSE sockets[node][e]
    <3>1. PICK registry : registry = sockets[node]
      OBVIOUS
    <3>2. registry \in Registry /\ new = With(registry, endpoint, c) /\ c \in Nat
      BY <1>2, <1>4, <2>1, <3>1
    <3>3. /\ new \in Registry /\ DOMAIN new = DOMAIN registry \cup {endpoint}
          /\ \A e \in DOMAIN new : new[e] = IF e = endpoint THEN c ELSE registry[e]
      BY <3>2, RegistryWith
    <3> QED BY <3>1, <3>3
  <2> QED BY <2>1, <2>2
<1>6. sockets' = [sockets EXCEPT ![node] = new]
  BY <1>4 DEF Save
<1>7. /\ sockets'[node] = new
      /\ \A n \in Node : n # node => sockets'[n] = sockets[n]
      /\ sockets' \in [Node -> Registry]
  BY <1>3, <1>5, <1>6
<1>8. /\ numConnections'[node] = numConnections[node] + 1
      /\ \A n \in Node : n # node => numConnections'[n] = numConnections[n]
      /\ numConnections' \in [Node -> Nat]
  BY <1>3 DEF Save
<1>9. ServersInv'
  BY <1>7, <1>8 DEF SocketsInv, ServersInv
<1>10. ASSUME NEW n \in Node, NEW d \in Past(n) PROVE d \in Past(n)'
  <2>1. d \in DOMAIN connections
    BY DEF Past
  <2>2. d = c => Saved(node, endpoint, connections[d].ends, connections'[d].ends,
                       connections[d].nodes, d) /\ connections'[d].nodes = connections[d].nodes
    BY <1>2
  <2>3. d # c => connections'[d] = connections[d]
    BY <1>2, <2>1
  <2> QED BY <1>2, <2>1, <2>2, <2>3 DEF Past, Saved
<1>11. RegistryInv'
  <2>1. ASSUME NEW n \in Node, NEW e \in DOMAIN sockets'[n], NEW d, d = sockets'[n][e]
        PROVE  d \in DOMAIN connections /\ (OpenerHas(n, e, d) \/ AcceptorHas(n, e, d))'
    <3>1. CASE n = node /\ e = endpoint
      BY <1>5, <1>7, <2>1, <3>1
    <3>2. CASE ~ (n = node /\ e = endpoint)
      <4>1. e \in DOMAIN sockets[n] /\ d = sockets[n][e]
        BY <1>5, <1>7, <2>1, <3>2
      <4>2. d \in DOMAIN connections /\ (OpenerHas(n, e, d) \/ AcceptorHas(n, e, d))
        BY <4>1 DEF SocketsInv, RegistryInv
      <4>3. CASE d # c
        <5>1. connections'[d] = connections[d]
          BY <1>2, <4>2, <4>3
        <5> QED BY <4>2, <5>1 DEF OpenerHas, AcceptorHas
      <4>4. CASE d = c
        <5>1. OpenerHas(n, e, d) => OpenerHas(n, e, d)'
          BY <1>2, <4>4 DEF OpenerHas, Saved
        <5>2. AcceptorHas(n, e, d) => AcceptorHas(n, e, d)'
          BY <1>2, <4>4 DEF AcceptorHas, Saved
        <5> QED BY <4>2, <5>1, <5>2
      <4> QED BY <4>3, <4>4
    <3> QED BY <3>1, <3>2
  <2> DEFINE Kept(n, e, d) == e \in DOMAIN sockets'[n] /\ sockets'[n][e] = d
  <2>2. ASSUME NEW n \in Node, NEW e, NEW d, IsRegistered(n, e, d) PROVE Kept(n, e, d)
    BY <1>5, <1>7, <2>2 DEF IsRegistered, Has
  <2>3. Kept(node, endpoint, c)
    BY <1>5, <1>7
  <2> HIDE DEF Kept
  <2>4. ASSUME NEW d \in DOMAIN connections
        PROVE  /\ d # c => connections'[d] = connections[d]
               /\ connections[d].nodes.opener \in Node /\ connections[d].nodes.acceptor \in Node
               /\ connections'[d].nodes = connections[d].nodes
    BY <1>2, ConnectionFields DEF SocketsInv
  <2>5. ASSUME NEW d \in DOMAIN connections, connections'[d].ends.opener.state = "handled"
        PROVE  Kept(connections[d].nodes.opener, Listening(connections[d].nodes.acceptor), d)
    <3>1. CASE connections[d].ends.opener.state = "handled"
      <4>1. IsRegistered(connections[d].nodes.opener,
                         Listening(connections[d].nodes.acceptor), d)
        BY <3>1 DEF SocketsInv, RegistryInv
      <4> QED BY <2>2, <2>4, <4>1
    <3>2. CASE connections[d].ends.opener.state # "handled"
      <4>1. d = c
        BY <2>4, <2>5, <3>2
      <4> QED BY <1>2, <2>3, <2>5, <3>2, <4>1 DEF Saved
    <3> QED BY <3>1, <3>2
  <2>6. ASSUME NEW d \in DOMAIN connections, connections'[d].ends.acceptor.state = "handled"
        PROVE  Kept(connections[d].nodes.acceptor, Ephemeral(connections[d].nodes.opener, d), d)
    <3>1. CASE connections[d].ends.acceptor.state = "handled"
      <4>1. IsRegistered(connections[d].nodes.acceptor,
                         Ephemeral(connections[d].nodes.opener, d), d)
        BY <3>1 DEF SocketsInv, RegistryInv
      <4> QED BY <2>2, <2>4, <4>1
    <3>2. CASE connections[d].ends.acceptor.state # "handled"
      <4>1. d = c
        BY <2>4, <2>6, <3>2
      <4> QED BY <1>2, <2>3, <2>6, <3>2, <4>1 DEF Saved
    <3> QED BY <3>1, <3>2
  <2> QED BY <1>2, <2>1, <2>4, <2>5, <2>6 DEF RegistryInv, IsRegistered, Has, Kept, Listening, Ephemeral
<1>12. CountInv'
  <2>1. ASSUME NEW n \in Node, n # node
        PROVE  /\ IsFiniteSet(DOMAIN sockets[n])'
               /\ (numConnections[n] >= Cardinality(DOMAIN sockets[n]))'
               /\ (numConnections[n] <= Cardinality(Past(n)))'
               /\ (departures = 0 => numConnections[n] = Cardinality(DOMAIN sockets[n]))'
    <3>1. sockets'[n] = sockets[n] /\ numConnections'[n] = numConnections[n]
      BY <1>7, <1>8, <2>1
    <3>2. /\ Cardinality(Past(n)) \in Nat /\ Cardinality(Past(n)') \in Nat
          /\ Cardinality(Past(n)) <= Cardinality(Past(n)')
      BY <1>1, <1>10, PastGrows
    <3>3. numConnections[n] \in Nat
      BY <1>3
    <3> QED BY <3>1, <3>2, <3>3 DEF SocketsInv, CountInv
  <2>2. /\ IsFiniteSet(DOMAIN sockets[node])'
        /\ Cardinality(DOMAIN sockets[node]) \in Nat
        /\ Cardinality(DOMAIN sockets[node])' = Cardinality(DOMAIN sockets[node]) + 1
    <3>1. IsFiniteSet(DOMAIN sockets[node]) /\ endpoint \notin DOMAIN sockets[node]
      BY DEF SocketsInv, CountInv, Has
    <3>2. DOMAIN sockets'[node] = DOMAIN sockets[node] \cup {endpoint}
      BY <1>5, <1>7
    <3> QED BY <3>1, <3>2, FS_AddElement, FS_CardinalityType
  <2>3. /\ Cardinality(Past(node)) \in Nat /\ Cardinality(Past(node)') \in Nat
        /\ Cardinality(Past(node)) + 1 <= Cardinality(Past(node)')
    <3>1. IsFiniteSet(Past(node)')
      BY <1>1, <1>10, PastGrows
    <3>2. Past(node) \subseteq Past(node)' /\ Past(node) \cup {c} \subseteq Past(node)'
      BY <1>10
    <3>3. IsFiniteSet(Past(node)) /\ IsFiniteSet(Past(node) \cup {c})
      BY <3>1, <3>2, FS_Subset
    <3>4. Cardinality(Past(node) \cup {c}) = Cardinality(Past(node)) + 1
      BY <3>3, FS_AddElement
    <3>5. Cardinality(Past(node) \cup {c}) <= Cardinality(Past(node)')
      BY <3>1, <3>2, FS_Subset
    <3> QED BY <3>1, <3>3, <3>4, <3>5, FS_CardinalityType
  <2>4. numConnections[node] \in Nat
    BY <1>3
  <2>5. /\ numConnections[node] >= Cardinality(DOMAIN sockets[node])
        /\ numConnections[node] <= Cardinality(Past(node))
        /\ departures = 0 => numConnections[node] = Cardinality(DOMAIN sockets[node])
    BY DEF SocketsInv, CountInv
  <2>6. /\ numConnections'[node] >= Cardinality(DOMAIN sockets[node])'
        /\ numConnections'[node] <= Cardinality(Past(node)')
        /\ departures' = 0 => numConnections'[node] = Cardinality(DOMAIN sockets[node])'
    BY <1>8, <2>2, <2>3, <2>4, <2>5
  <2> QED BY <2>1, <2>2, <2>6 DEF CountInv
<1>13. PeaceInv'
  BY <1>2 DEF SocketsInv, PeaceInv
<1> QED BY <1>1, <1>9, <1>11, <1>12, <1>13 DEF SocketsInv

(* A socket ends and is removed.                                            *)
LEMMA RemovingStep ==
  ASSUME SocketsInv, NEW c \in DOMAIN connections, NEW side \in Sides,
         connections[c].ends[side].state = "handled",
         NEW ends, Changes(c, ends), ends[side] = End("closed"),
         ends[Other(side)] = connections[c].ends[Other(side)],
         UNCHANGED <<status, boot, departures>>, departures # 0,
         EndsInv(c)', Remove(NodeOf(c, side), PeerEndpoint(c, side))
  PROVE  SocketsInv'
<1>1. ConnectionsInv'
  BY ConnectionsChange DEF SocketsInv
<1>2. /\ DOMAIN connections' = DOMAIN connections
      /\ \A d \in DOMAIN connections : d # c => connections'[d] = connections[d]
      /\ connections'[c].ends = ends
      /\ connections'[c].nodes = connections[c].nodes
      /\ c \in Nat
  BY ChangesOne, ConnectionFields DEF SocketsInv
<1>3. sockets \in [Node -> Registry] /\ numConnections \in [Node -> Nat]
  BY DEF SocketsInv, ServersInv
<1>4. PICK node, endpoint : node = NodeOf(c, side) /\ endpoint = PeerEndpoint(c, side)
  OBVIOUS
<1>5. /\ \/ /\ side = "opener" /\ node = connections[c].nodes.opener
            /\ endpoint = Listening(connections[c].nodes.acceptor)
         \/ /\ side = "acceptor" /\ node = connections[c].nodes.acceptor
            /\ endpoint = Ephemeral(connections[c].nodes.opener, c)
      /\ connections[c].nodes.opener # connections[c].nodes.acceptor
      /\ node \in Node
  BY <1>4, ConnectionFields DEF NodeOf, PeerEndpoint, Sides, SocketsInv, ConnectionsInv, EndsInv
<1>6. IsRegistered(node, endpoint, c)
  BY <1>5 DEF SocketsInv, RegistryInv
<1>7. PICK registry, new : registry = sockets[node] /\ new = Without(registry, endpoint)
  OBVIOUS
<1>8. /\ new \in Registry /\ DOMAIN new = DOMAIN registry \ {endpoint}
      /\ \A e \in DOMAIN new : new[e] = registry[e]
  <2>1. registry \in Registry
    BY <1>3, <1>5, <1>7
  <2>2. new = Without(registry, endpoint)
    BY <1>7
  <2>3. new \in Registry
    BY <2>1, <2>2, RegistryWithout
  <2>4. DOMAIN new = DOMAIN registry \ {endpoint}
    BY <2>1, <2>2, RegistryWithout
  <2>5. \A e \in DOMAIN new : new[e] = registry[e]
    BY <2>2 DEF Without, Restrict
  <2> QED BY <2>3, <2>4, <2>5
<1>9. sockets' = [sockets EXCEPT ![node] = new] /\ UNCHANGED numConnections
  BY <1>4, <1>7 DEF Remove
<1>10. /\ sockets'[node] = new
       /\ \A n \in Node : n # node => sockets'[n] = sockets[n]
       /\ sockets' \in [Node -> Registry]
  BY <1>3, <1>5, <1>8, <1>9
<1>11. ServersInv'
  BY <1>9, <1>10 DEF SocketsInv, ServersInv
<1>12. \/ /\ side = "opener" /\ ends.opener = End("closed")
          /\ ends.acceptor = connections[c].ends.acceptor
       \/ /\ side = "acceptor" /\ ends.acceptor = End("closed")
          /\ ends.opener = connections[c].ends.opener
  BY DEF Sides, Other
<1>13. ASSUME NEW n \in Node, NEW d \in Past(n) PROVE d \in Past(n)'
  <2>1. d \in DOMAIN connections
    BY DEF Past
  <2>2. d # c => connections'[d] = connections[d]
    BY <1>2, <2>1
  <2> QED BY <1>2, <1>12, <2>1, <2>2 DEF Past, End
<1>14. RegistryInv'
  <2>1. ASSUME NEW n \in Node, NEW e \in DOMAIN sockets'[n], NEW d, d = sockets'[n][e]
        PROVE  d \in DOMAIN connections /\ (OpenerHas(n, e, d) \/ AcceptorHas(n, e, d))'
    <3>1. e \in DOMAIN sockets[n] /\ d = sockets[n][e] /\ ~ (n = node /\ e = endpoint)
      BY <1>7, <1>8, <1>10, <2>1
    <3>2. d \in DOMAIN connections /\ (OpenerHas(n, e, d) \/ AcceptorHas(n, e, d))
      BY <3>1 DEF SocketsInv, RegistryInv
    <3>3. CASE d # c
      <4>1. connections'[d] = connections[d]
        BY <1>2, <3>2, <3>3
      <4> QED BY <3>2, <4>1 DEF OpenerHas, AcceptorHas
    <3>4. CASE d = c
      <4>1. OpenerHas(n, e, d) => OpenerHas(n, e, d)'
        BY <1>2, <1>5, <1>12, <3>1, <3>4 DEF OpenerHas
      <4>2. AcceptorHas(n, e, d) => AcceptorHas(n, e, d)'
        BY <1>2, <1>5, <1>12, <3>1, <3>4 DEF AcceptorHas
      <4> QED BY <3>2, <4>1, <4>2
    <3> QED BY <3>3, <3>4
  <2> DEFINE Kept(n, e, d) == e \in DOMAIN sockets'[n] /\ sockets'[n][e] = d
  <2>2. ASSUME NEW n \in Node, NEW e, NEW d, IsRegistered(n, e, d), d # c \/ n # node
        PROVE  Kept(n, e, d)
    BY <1>6, <1>7, <1>8, <1>10, <2>2 DEF IsRegistered, Has
  <2> HIDE DEF Kept
  <2>3. ASSUME NEW d \in DOMAIN connections
        PROVE  /\ d # c => connections'[d] = connections[d]
               /\ connections[d].nodes.opener \in Node /\ connections[d].nodes.acceptor \in Node
               /\ connections'[d].nodes = connections[d].nodes
               /\ connections'[d].ends.opener.state = "handled" =>
                    /\ connections[d].ends.opener.state = "handled"
                    /\ d # c \/ connections[d].nodes.opener # node
               /\ connections'[d].ends.acceptor.state = "handled" =>
                    /\ connections[d].ends.acceptor.state = "handled"
                    /\ d # c \/ connections[d].nodes.acceptor # node
    <3>1. CASE d # c
      BY <1>2, <3>1, ConnectionFields DEF SocketsInv
    <3>2. CASE d = c
      BY <1>2, <1>5, <1>12, <3>2, ConnectionFields DEF SocketsInv, End
    <3> QED BY <3>1, <3>2
  <2>4. ASSUME NEW d \in DOMAIN connections
        PROVE  /\ connections'[d].ends.opener.state = "handled" =>
                    Kept(connections[d].nodes.opener,
                         Listening(connections[d].nodes.acceptor), d)
               /\ connections'[d].ends.acceptor.state = "handled" =>
                    Kept(connections[d].nodes.acceptor,
                         Ephemeral(connections[d].nodes.opener, d), d)
    <3>1. /\ connections[d].ends.opener.state = "handled" =>
               IsRegistered(connections[d].nodes.opener,
                            Listening(connections[d].nodes.acceptor), d)
          /\ connections[d].ends.acceptor.state = "handled" =>
               IsRegistered(connections[d].nodes.acceptor,
                            Ephemeral(connections[d].nodes.opener, d), d)
      BY DEF SocketsInv, RegistryInv
    <3> QED BY <2>2, <2>3, <3>1
  <2> QED BY <1>2, <2>1, <2>3, <2>4 DEF RegistryInv, IsRegistered, Has, Kept, Listening, Ephemeral
<1>15. CountInv'
  <2>1. ASSUME NEW n \in Node
        PROVE  /\ IsFiniteSet(DOMAIN sockets'[n])
               /\ numConnections[n] >= Cardinality(DOMAIN sockets'[n])
               /\ numConnections[n] <= Cardinality(Past(n)')
    <3>1. /\ Cardinality(Past(n)) \in Nat /\ Cardinality(Past(n)') \in Nat
          /\ Cardinality(Past(n)) <= Cardinality(Past(n)')
      BY <1>1, <1>13, PastGrows
    <3>2. DOMAIN sockets'[n] \subseteq DOMAIN sockets[n]
      BY <1>7, <1>8, <1>10
    <3>3. IsFiniteSet(DOMAIN sockets[n])
      BY DEF SocketsInv, CountInv
    <3>4. /\ IsFiniteSet(DOMAIN sockets'[n])
          /\ Cardinality(DOMAIN sockets'[n]) <= Cardinality(DOMAIN sockets[n])
          /\ Cardinality(DOMAIN sockets'[n]) \in Nat /\ Cardinality(DOMAIN sockets[n]) \in Nat
      BY <3>2, <3>3, FS_Subset, FS_CardinalityType
    <3>5. /\ numConnections[n] >= Cardinality(DOMAIN sockets[n])
          /\ numConnections[n] <= Cardinality(Past(n))
          /\ numConnections[n] \in Nat
      BY <1>3 DEF SocketsInv, CountInv
    <3> QED BY <3>1, <3>4, <3>5
  <2> QED BY <1>9, <2>1 DEF CountInv
<1>16. PeaceInv'
  BY DEF PeaceInv
<1> QED BY <1>1, <1>11, <1>14, <1>15, <1>16 DEF SocketsInv

(* A process ends or is stopped: its registry is given up, and so are all   *)
(* its sockets, or those that stop() destroys.                              *)
Leaves(node, gone, state) ==
  /\ status' = [status EXCEPT ![node] = state]
  /\ sockets' = [sockets EXCEPT ![node] = << >>]
  /\ \/ numConnections' = numConnections
     \/ numConnections' = [numConnections EXCEPT ![node] = 0]
  /\ boot' = boot
  /\ state \in {"stopped", "gone"}
  /\ \A c \in DOMAIN connections :
       LET opener == connections[c].ends.opener
           acceptor == connections[c].ends.acceptor
       IN
       /\ connections[c].nodes.opener # node => <<c, "opener">> \notin gone
       /\ connections[c].nodes.acceptor # node => <<c, "acceptor">> \notin gone
       /\ connections[c].nodes.opener = node /\ (state = "gone" \/ opener.state = "handled") =>
            <<c, "opener">> \in gone
       /\ /\ connections[c].nodes.acceptor = node
          /\ acceptor.state \in {"backlog", "handled"}
          => <<c, "acceptor">> \in gone

LEMMA LeavingStep ==
  ASSUME SocketsInv, NEW node \in Node, NEW gone, NEW overtaken \in BOOLEAN, NEW state,
         connections' = Closing(gone, overtaken), Leaves(node, gone, state),
         departures' \in Nat, departures' # 0
  PROVE  SocketsInv'
<1>1. /\ connections' \in Seq(Connection) /\ Len(connections') = Len(connections)
      /\ DOMAIN connections' = DOMAIN connections
      /\ \A c \in DOMAIN connections :
           /\ connections'[c].nodes = connections[c].nodes
           /\ IsLeft(c, "opener", gone) /\ IsLeft(c, "acceptor", gone)
  BY ClosingEnds DEF SocketsInv
<1>2. /\ status \in [Node -> {"up", "stopped", "gone"}]
      /\ sockets \in [Node -> Registry]
      /\ numConnections \in [Node -> Nat]
  BY DEF SocketsInv, ServersInv
<1>3. /\ status'[node] = state
      /\ \A n \in Node : n # node => status'[n] = status[n]
      /\ status' \in [Node -> {"up", "stopped", "gone"}]
  BY <1>2 DEF Leaves
<1>4. /\ sockets'[node] = << >>
      /\ \A n \in Node : n # node => sockets'[n] = sockets[n]
      /\ sockets' \in [Node -> Registry]
  BY <1>2, RegistryEmpty DEF Leaves
<1>5. /\ \A n \in Node : n # node => numConnections'[n] = numConnections[n]
      /\ numConnections' \in [Node -> Nat]
      /\ numConnections'[node] \in {0, numConnections[node]}
  BY <1>2 DEF Leaves
<1>6. ServersInv'
  BY <1>3, <1>4, <1>5 DEF SocketsInv, ServersInv, Leaves
<1>7. ASSUME NEW c \in DOMAIN connections
      PROVE  /\ \/ connections'[c].ends.opener = End("closed")
                \/ /\ connections'[c].ends.opener.state = connections[c].ends.opener.state
                   /\ connections'[c].ends.opener.in = connections[c].ends.opener.in
             /\ \/ connections'[c].ends.acceptor = End("closed")
                \/ /\ connections'[c].ends.acceptor.state = connections[c].ends.acceptor.state
                   /\ connections'[c].ends.acceptor.in = connections[c].ends.acceptor.in
             /\ connections[c].ends.acceptor.state = "none" =>
                  connections'[c].ends.acceptor.state = "none"
    BY <1>1 DEF IsLeft
<1>8. ASSUME NEW c \in DOMAIN connections
      PROVE  /\ connections[c].nodes.opener # node =>
                  /\ connections'[c].ends.opener.state = connections[c].ends.opener.state
                  /\ connections'[c].ends.opener.in = connections[c].ends.opener.in
             /\ connections[c].nodes.acceptor # node =>
                  /\ connections'[c].ends.acceptor.state = connections[c].ends.acceptor.state
                  /\ connections'[c].ends.acceptor.in = connections[c].ends.acceptor.in
    <2>1. /\ connections[c].nodes.opener # node => <<c, "opener">> \notin gone
          /\ connections[c].nodes.acceptor # node => <<c, "acceptor">> \notin gone
      BY DEF Leaves
    <2> QED BY <1>1, <2>1 DEF IsLeft
<1>9. ASSUME NEW c \in DOMAIN connections
      PROVE  /\ /\ connections[c].nodes.opener = node
                /\ state = "gone" \/ connections[c].ends.opener.state = "handled"
                => connections'[c].ends.opener.state = "closed"
             /\ connections[c].nodes.acceptor = node =>
                  connections'[c].ends.acceptor.state \notin {"backlog", "handled"}
  <2>1. connections[c].ends.opener.state # "none"
    BY ConnectionFields DEF SocketsInv, OpenerEnds
  <2>2. /\ /\ connections[c].nodes.opener = node
           /\ state = "gone" \/ connections[c].ends.opener.state = "handled"
           => <<c, "opener">> \in gone
        /\ /\ connections[c].nodes.acceptor = node
           /\ connections[c].ends.acceptor.state \in {"backlog", "handled"}
           => <<c, "acceptor">> \in gone
    BY DEF Leaves
  <2>3. End("closed").state = "closed"
    BY DEF End
  <2> QED BY <1>1, <2>1, <2>2, <2>3 DEF IsLeft
<1>10. ConnectionsInv'
  <2>1. ASSUME NEW c \in DOMAIN connections PROVE EndsInv(c)'
    <3>1. EndsInv(c)
      BY DEF SocketsInv, ConnectionsInv
    <3>2. connections'[c].nodes = connections[c].nodes
      BY <1>1
    <3>3. connections[c].nodes.opener \in Node /\ connections[c].nodes.acceptor \in Node
      BY ConnectionFields DEF SocketsInv
    <3>4. End("closed").state = "closed" /\ End("closed").in = <<>>
      BY DEF End
    <3>5. (connections[c].ends.opener.state = "opening" => connections[c].ends.acceptor.state = "none")'
      BY <1>7, <3>1, <3>4 DEF EndsInv
    <3>6. (/\ ~ IsOpen(connections[c].ends.opener) => connections[c].ends.opener.in = <<>>
           /\ ~ IsOpen(connections[c].ends.acceptor) => connections[c].ends.acceptor.in = <<>>)'
      BY <1>7, <3>1, <3>4 DEF EndsInv, IsOpen
    <3>7. connections'[c].ends.opener.state # "closed" =>
            status'[connections[c].nodes.opener] # "gone"
      <4>1. connections'[c].ends.opener.state # "closed" =>
              connections[c].ends.opener.state # "closed"
        BY <1>7, <3>4
      <4>2. connections[c].ends.opener.state # "closed" =>
              status[connections[c].nodes.opener] # "gone"
        BY <3>1 DEF EndsInv, Alive
      <4>3. CASE connections[c].nodes.opener # node
        BY <1>3, <3>3, <4>1, <4>2, <4>3
      <4>4. CASE connections[c].nodes.opener = node
        BY <1>3, <1>9, <4>4
      <4> QED BY <4>3, <4>4
    <3>8. connections'[c].ends.acceptor.state \in {"backlog", "handled"} =>
            status'[connections[c].nodes.acceptor] = "up"
      <4>1. CASE connections[c].nodes.acceptor # node
        BY <1>3, <1>8, <3>1, <3>3, <4>1 DEF EndsInv
      <4>2. CASE connections[c].nodes.acceptor = node
        BY <1>9, <4>2
      <4> QED BY <4>1, <4>2
    <3>9. connections[c].nodes.opener # connections[c].nodes.acceptor
      BY <3>1 DEF EndsInv
    <3> QED BY <3>2, <3>5, <3>6, <3>7, <3>8, <3>9 DEF EndsInv, Alive
  <2> QED BY <1>1, <2>1 DEF SocketsInv, ConnectionsInv
<1>11. RegistryInv'
  <2>1. ASSUME NEW n \in Node, NEW e \in DOMAIN sockets'[n], NEW d, d = sockets'[n][e]
        PROVE  d \in DOMAIN connections /\ (OpenerHas(n, e, d) \/ AcceptorHas(n, e, d))'
    <3>1. n # node /\ e \in DOMAIN sockets[n] /\ d = sockets[n][e]
      BY <1>4, <2>1, RegistryEmpty
    <3>2. d \in DOMAIN connections /\ (OpenerHas(n, e, d) \/ AcceptorHas(n, e, d))
      BY <3>1 DEF SocketsInv, RegistryInv
    <3>3. OpenerHas(n, e, d) => OpenerHas(n, e, d)'
      BY <1>1, <1>8, <3>1, <3>2 DEF OpenerHas
    <3>4. AcceptorHas(n, e, d) => AcceptorHas(n, e, d)'
      BY <1>1, <1>8, <3>1, <3>2 DEF AcceptorHas
    <3> QED BY <3>2, <3>3, <3>4
  <2> DEFINE Kept(n, e, d) == e \in DOMAIN sockets'[n] /\ sockets'[n][e] = d
  <2>2. ASSUME NEW n \in Node, NEW e, NEW d, IsRegistered(n, e, d), n # node
        PROVE  Kept(n, e, d)
    BY <1>4, <2>2 DEF IsRegistered, Has
  <2> HIDE DEF Kept
  <2>3. ASSUME NEW d \in DOMAIN connections
        PROVE  /\ connections'[d].ends.opener.state = "handled" =>
                    Kept(connections[d].nodes.opener,
                         Listening(connections[d].nodes.acceptor), d)
               /\ connections'[d].ends.acceptor.state = "handled" =>
                    Kept(connections[d].nodes.acceptor,
                         Ephemeral(connections[d].nodes.opener, d), d)
    <3>1. /\ connections[d].ends.opener.state = "handled" =>
               IsRegistered(connections[d].nodes.opener,
                            Listening(connections[d].nodes.acceptor), d)
          /\ connections[d].ends.acceptor.state = "handled" =>
               IsRegistered(connections[d].nodes.acceptor,
                            Ephemeral(connections[d].nodes.opener, d), d)
      BY DEF SocketsInv, RegistryInv
    <3>2. End("closed").state # "handled"
      BY DEF End
    <3>3. /\ connections'[d].ends.opener.state = "handled" =>
               connections[d].ends.opener.state = "handled" /\ connections[d].nodes.opener # node
          /\ connections'[d].ends.acceptor.state = "handled" =>
               connections[d].ends.acceptor.state = "handled" /\ connections[d].nodes.acceptor # node
      BY <1>7, <1>9, <3>2
    <3>4. connections[d].nodes.opener \in Node /\ connections[d].nodes.acceptor \in Node
      BY ConnectionFields DEF SocketsInv
    <3> QED BY <2>2, <3>1, <3>3, <3>4
  <2> QED BY <1>1, <2>1, <2>3 DEF RegistryInv, IsRegistered, Has, Kept, Listening, Ephemeral
<1>12. CountInv'
  <2>1. ASSUME NEW n \in Node, NEW c \in Past(n) PROVE c \in Past(n)'
    <3>1. c \in DOMAIN connections
      BY DEF Past
    <3> QED BY <1>1, <1>7, <3>1 DEF Past, End
  <2>2. ASSUME NEW n \in Node
        PROVE  /\ IsFiniteSet(DOMAIN sockets'[n])
               /\ numConnections'[n] >= Cardinality(DOMAIN sockets'[n])
               /\ numConnections'[n] <= Cardinality(Past(n)')
    <3>1. /\ Cardinality(Past(n)) \in Nat /\ Cardinality(Past(n)') \in Nat
          /\ Cardinality(Past(n)) <= Cardinality(Past(n)')
      BY <1>10, <2>1, PastGrows
    <3>2. /\ numConnections[n] >= Cardinality(DOMAIN sockets[n])
          /\ numConnections[n] <= Cardinality(Past(n))
          /\ numConnections[n] \in Nat /\ numConnections'[n] \in Nat
          /\ IsFiniteSet(DOMAIN sockets[n])
      BY <1>2, <1>5 DEF SocketsInv, CountInv
    <3>3. CASE n = node
      <4>1. DOMAIN sockets'[n] = {}
        BY <1>4, <3>3, RegistryEmpty
      <4>2. IsFiniteSet(DOMAIN sockets'[n]) /\ Cardinality(DOMAIN sockets'[n]) = 0
        BY <4>1, FS_EmptySet
      <4>3. numConnections'[n] \in {0, numConnections[n]}
        BY <1>5, <3>3
      <4> QED BY <3>1, <3>2, <4>2, <4>3
    <3>4. CASE n # node
      <4>1. sockets'[n] = sockets[n] /\ numConnections'[n] = numConnections[n]
        BY <1>4, <1>5, <3>4
      <4> QED BY <3>1, <3>2, <4>1
    <3> QED BY <3>3, <3>4
  <2> QED BY <2>2 DEF CountInv
<1>13. PeaceInv'
  BY DEF PeaceInv
<1> QED BY <1>6, <1>10, <1>11, <1>12, <1>13 DEF SocketsInv

(* A process ends: killed, or by a write that fails.                        *)
LEMMA DyingStep ==
  ASSUME SocketsInv, NEW node \in Node, NEW overtaken \in BOOLEAN, Die(node, overtaken),
         departures' \in Nat, departures' # 0
  PROVE  SocketsInv'
<1> DEFINE gone == EndsOf(node)
<1>1. \A c \in DOMAIN connections :
        /\ <<c, "opener">> \in gone <=> connections[c].nodes.opener = node
        /\ <<c, "acceptor">> \in gone <=> connections[c].nodes.acceptor = node
  BY DEF EndsOf, NodeOf, Sides
<1>2. connections' = Closing(gone, overtaken)
  BY DEF Die
<1> HIDE DEF gone
<1>3. Leaves(node, gone, "gone")
  BY <1>1 DEF Leaves, Die
<1> QED BY <1>2, <1>3, LeavingStep

(* Every socket with handlers is registered, so stop() destroys it.         *)
LEMMA StoppingStep ==
  ASSUME SocketsInv, NEW node \in Node, Stop(node)
  PROVE  SocketsInv'
<1> DEFINE gone == DestroyedByClose(node)
<1>1. \A c \in DOMAIN connections :
        /\ <<c, "opener">> \in gone <=>
             /\ connections[c].nodes.opener = node
             /\ Registered(node, c) \/ connections[c].ends.opener.state = "backlog"
        /\ <<c, "acceptor">> \in gone <=>
             /\ connections[c].nodes.acceptor = node
             /\ Registered(node, c) \/ connections[c].ends.acceptor.state = "backlog"
  BY DEF DestroyedByClose, EndsOf, NodeOf, Sides
<1>2. ASSUME NEW c \in DOMAIN connections
      PROVE  /\ /\ connections[c].nodes.opener = node
                /\ connections[c].ends.opener.state = "handled"
                => Registered(node, c)
             /\ /\ connections[c].nodes.acceptor = node
                /\ connections[c].ends.acceptor.state = "handled"
                => Registered(node, c)
  <2>1. ASSUME NEW e, IsRegistered(node, e, c) PROVE Registered(node, c)
    BY <2>1 DEF IsRegistered, Has, Registered
  <2> QED BY <2>1 DEF SocketsInv, RegistryInv
<1>3. PICK overtaken \in BOOLEAN : connections' = Closing(gone, overtaken)
  BY DEF Stop
<1> HIDE DEF gone
<1>4. Leaves(node, gone, "stopped")
  BY <1>1, <1>2 DEF Leaves, Stop
<1>5. departures' \in Nat /\ departures' # 0
  BY DEF Stop, SocketsInv, ServersInv
<1> QED BY <1>3, <1>4, <1>5, LeavingStep

LEMMA StartingStep ==
  ASSUME SocketsInv, NEW node \in Node, Start(node)
  PROVE  SocketsInv'
<1>1. UNCHANGED <<sockets, numConnections, connections, departures>>
  BY DEF Start, historyVars
<1>2. /\ status' \in [Node -> {"up", "stopped", "gone"}]
      /\ boot' \in [Node -> 1..MaxBoot]
      /\ \A n \in Node : status'[n] # status[n] => status[n] = "gone" /\ status'[n] = "up"
      /\ status[node] = "gone"
  BY BoundsAssumption DEF Start, SocketsInv, ServersInv
<1>3. ServersInv'
  BY <1>1, <1>2 DEF SocketsInv, ServersInv
<1>4. ConnectionsInv'
  <2>1. ASSUME NEW c \in DOMAIN connections PROVE EndsInv(c)'
    <3>1. EndsInv(c) /\ connections[c].nodes.opener \in Node
                     /\ connections[c].nodes.acceptor \in Node
      BY ConnectionFields DEF SocketsInv, ConnectionsInv
    <3> QED BY <1>1, <1>2, <3>1 DEF EndsInv, Alive
  <2> QED BY <1>1, <2>1 DEF SocketsInv, ConnectionsInv
<1>5. RegistryInv'
  BY <1>1 DEF SocketsInv, RegistryInv, OpenerHas, AcceptorHas, IsRegistered, Has
<1>6. CountInv'
  BY <1>1 DEF SocketsInv, CountInv, Past
<1>7. PeaceInv'
  BY <1>1, <1>2 DEF SocketsInv, PeaceInv
<1> QED BY <1>3, <1>4, <1>5, <1>6, <1>7 DEF SocketsInv

-----------------------------------------------------------------------------
(* What each action does to one connection.                                 *)

(* One end changes.                                                         *)
EndIs(c, side, end) ==
  connections' = [connections EXCEPT ![c].ends[side] = end]

EndsOn(side) == IF side = "opener" THEN OpenerEnds ELSE AcceptorEnds
MessagesTo(side) == IF side = "opener" THEN Replies ELSE Requests

LEMMA EndFields ==
  ASSUME ConnectionsInv, NEW c \in DOMAIN connections, NEW side \in Sides
  PROVE  /\ connections[c].ends[side] \in EndsOn(side)
         /\ connections[c].ends[side].in \in Seq(MessagesTo(side))
         /\ connections[c].ends[side].fin \in BOOLEAN
         /\ connections[c].ends[side].rst \in BOOLEAN
         /\ NodeOf(c, side) \in Node
<1>1. /\ connections[c].ends.opener \in OpenerEnds
      /\ connections[c].ends.acceptor \in AcceptorEnds
      /\ connections[c].nodes.opener \in Node /\ connections[c].nodes.acceptor \in Node
  BY ConnectionFields
<1>2. CASE side = "opener"
  BY <1>1, <1>2 DEF EndsOn, MessagesTo, NodeOf, OpenerEnds
<1>3. CASE side = "acceptor"
  BY <1>1, <1>3 DEF EndsOn, MessagesTo, NodeOf, AcceptorEnds
<1> QED BY <1>2, <1>3 DEF Sides

LEMMA EndChanges ==
  ASSUME ConnectionsInv, NEW c \in DOMAIN connections, NEW side \in Sides,
         NEW end \in EndsOn(side), EndIs(c, side, end)
  PROVE  \E ends : /\ Changes(c, ends) /\ ends[side] = end
                   /\ ends[Other(side)] = connections[c].ends[Other(side)]
<1> DEFINE old == connections[c].ends
           ends == IF side = "opener"
                   THEN [opener |-> end, acceptor |-> old.acceptor]
                   ELSE [opener |-> old.opener, acceptor |-> end]
<1>1. /\ old \in Ends /\ old.opener \in OpenerEnds /\ old.acceptor \in AcceptorEnds
      /\ connections[c] \in Connection
  BY ConnectionFields
<1>2. ends \in Ends
  BY <1>1 DEF Ends, EndsOn
<1>3. [old EXCEPT ![side] = end] = ends
  <2> HIDE DEF old
  <2>1. old = [opener |-> old.opener, acceptor |-> old.acceptor]
    BY <1>1 DEF Ends
  <2>2. CASE side = "opener"
    BY <1>1, <2>1, <2>2 DEF Ends, old
  <2>3. CASE side = "acceptor"
    BY <1>1, <2>1, <2>3 DEF Ends, old
  <2> QED BY <2>2, <2>3 DEF Sides
<1>4. connections' = [connections EXCEPT ![c].ends = ends]
  BY <1>3 DEF EndIs
<1>5. ends[side] = end /\ ends[Other(side)] = connections[c].ends[Other(side)]
  BY DEF Sides, Other
<1> HIDE DEF ends
<1>6. Changes(c, ends)
  BY <1>2, <1>4 DEF Changes
<1> QED BY <1>5, <1>6

LEMMA EndFacts ==
  ASSUME ConnectionsInv, NEW c \in DOMAIN connections, NEW side \in Sides,
         NEW end \in EndsOn(side), EndIs(c, side, end)
  PROVE  /\ DOMAIN connections' = DOMAIN connections
         /\ \A d \in DOMAIN connections : d # c => connections'[d] = connections[d]
         /\ connections'[c].ends[side] = end
         /\ connections'[c].ends[Other(side)] = connections[c].ends[Other(side)]
         /\ connections'[c].nodes = connections[c].nodes
         /\ connections'[c].waiting = connections[c].waiting
<1>1. PICK ends : /\ Changes(c, ends) /\ ends[side] = end
                  /\ ends[Other(side)] = connections[c].ends[Other(side)]
  BY EndChanges
<1>2. /\ DOMAIN connections' = DOMAIN connections
      /\ \A d \in DOMAIN connections : d # c => connections'[d] = connections[d]
      /\ connections'[c].ends = ends
      /\ connections'[c].nodes = connections[c].nodes
      /\ connections'[c].waiting = connections[c].waiting
  BY <1>1, ChangesOne
<1> QED BY <1>1, <1>2

(* An end's state stays, its messages or flags change.                      *)
LEMMA SameStateStep ==
  ASSUME SocketsInv, NEW c \in DOMAIN connections, NEW side \in Sides,
         NEW end \in EndsOn(side), EndIs(c, side, end),
         end.state = connections[c].ends[side].state,
         IsOpen(end) \/ end.in = connections[c].ends[side].in,
         departures = 0 => ~ end.fin /\ ~ end.rst,
         UNCHANGED <<status, boot, sockets, numConnections, departures>>
  PROVE  SocketsInv'
<1>1. PICK ends : /\ Changes(c, ends) /\ ends[side] = end
                  /\ ends[Other(side)] = connections[c].ends[Other(side)]
  BY EndChanges DEF SocketsInv
<1>2. /\ connections'[c].ends = ends
      /\ connections'[c].nodes = connections[c].nodes
  BY <1>1, ChangesOne DEF SocketsInv
<1>3. /\ ends.opener.state = connections[c].ends.opener.state
      /\ ends.acceptor.state = connections[c].ends.acceptor.state
      /\ IsOpen(ends.opener) \/ ends.opener.in = connections[c].ends.opener.in
      /\ IsOpen(ends.acceptor) \/ ends.acceptor.in = connections[c].ends.acceptor.in
  <2>1. CASE side = "opener"
    BY <1>1, <2>1 DEF Other
  <2>2. CASE side = "acceptor"
    BY <1>1, <2>2 DEF Other
  <2> QED BY <2>1, <2>2 DEF Sides
<1>4. EndsInv(c)'
  <2>1. EndsInv(c)
    BY DEF SocketsInv, ConnectionsInv
  <2> QED BY <1>2, <1>3, <2>1 DEF EndsInv, IsOpen, Alive
<1>5. departures = 0 => InPeace(ends)
  <2>1. departures = 0 => InPeace(connections[c].ends)
    BY DEF SocketsInv, PeaceInv
  <2>2. CASE side = "opener"
    BY <1>1, <1>3, <2>1, <2>2 DEF InPeace, Other
  <2>3. CASE side = "acceptor"
    BY <1>1, <1>3, <2>1, <2>3 DEF InPeace, Other
  <2> QED BY <2>2, <2>3 DEF Sides
<1>6. Quiet(connections[c].ends, ends)
  BY <1>3 DEF Quiet
<1> QED BY <1>1, <1>4, <1>5, <1>6, QuietSteps

(* The updates of an end.                                                   *)
LEMMA QueueSet ==
  ASSUME NEW side \in Sides, NEW end \in EndsOn(side),
         NEW queue \in Seq(MessagesTo(side)), NEW new, new = [end EXCEPT !.in = queue]
  PROVE  /\ new \in EndsOn(side) /\ new.state = end.state /\ new.in = queue
         /\ new.fin = end.fin /\ new.rst = end.rst
<1>1. CASE side = "opener"
  <2>1. end \in OpenerEnds /\ queue \in Seq(Replies)
    BY <1>1 DEF EndsOn, MessagesTo
  <2>2. /\ new \in OpenerEnds /\ new.state = end.state /\ new.in = queue
        /\ new.fin = end.fin /\ new.rst = end.rst
    BY <2>1 DEF OpenerEnds
  <2> QED BY <1>1, <2>2 DEF EndsOn
<1>2. CASE side = "acceptor"
  <2>1. end \in AcceptorEnds /\ queue \in Seq(Requests)
    BY <1>2 DEF EndsOn, MessagesTo
  <2>2. /\ new \in AcceptorEnds /\ new.state = end.state /\ new.in = queue
        /\ new.fin = end.fin /\ new.rst = end.rst
    BY <2>1 DEF AcceptorEnds
  <2> QED BY <1>2, <2>2 DEF EndsOn
<1> QED BY <1>1, <1>2 DEF Sides

LEMMA RstSet ==
  ASSUME NEW side \in Sides, NEW end \in EndsOn(side), NEW new, new = [end EXCEPT !.rst = TRUE]
  PROVE  new \in EndsOn(side) /\ new.state = end.state /\ new.in = end.in
<1>1. CASE side = "opener"
  <2>1. new \in OpenerEnds /\ new.state = end.state /\ new.in = end.in
    BY <1>1 DEF OpenerEnds, EndsOn
  <2> QED BY <1>1, <2>1 DEF EndsOn
<1>2. CASE side = "acceptor"
  <2>1. new \in AcceptorEnds /\ new.state = end.state /\ new.in = end.in
    BY <1>2 DEF AcceptorEnds, EndsOn
  <2> QED BY <1>2, <2>1 DEF EndsOn
<1> QED BY <1>1, <1>2 DEF Sides

(* A write ends the process, reaches the other end's socket, or is answered *)
(* by a reset.                                                              *)
Arrives(c, side, message) ==
  \E end \in EndsOn(side) :
    /\ EndIs(c, side, end) /\ end.state = connections[c].ends[side].state /\ IsOpen(end)
    /\ end.in = Append(connections[c].ends[side].in, message)
    /\ departures = 0 => ~ end.fin /\ ~ end.rst

Bounces(c, side) ==
  \E end \in EndsOn(side) :
    /\ EndIs(c, side, end) /\ end.state = connections[c].ends[side].state
    /\ end.in = connections[c].ends[side].in

Dies(node) == departures # 0 /\ \E overtaken \in BOOLEAN : Die(node, overtaken)

LEMMA WriteCases ==
  ASSUME SocketsInv, NEW node \in Node, NEW c \in DOMAIN connections, NEW side \in Sides,
         SideOf(node, c) = side, connections[c].ends[side].state \in {"handled", "reset"},
         NEW message \in MessagesTo(Other(side)), Write(node, c, message)
  PROVE  \/ Dies(node)
         \/ /\ \/ Arrives(c, Other(side), message)
               \/ departures # 0 /\ Bounces(c, side)
            /\ owed' = {answer \in owed : answer.reply # message}
            /\ UNCHANGED <<status, boot, sockets, numConnections>>
<1> DEFINE here == connections[c].ends[side]
           there == connections[c].ends[Other(side)]
<1>1. Other(side) \in Sides
  BY DEF Other, Sides
<1>2. here \in EndsOn(side) /\ there \in EndsOn(Other(side))
  BY <1>1, EndFields DEF SocketsInv
<1>3. departures = 0 => /\ ~ here.rst /\ here.state # "reset"
                        /\ ~ there.fin /\ ~ there.rst /\ IsOpen(there)
  <2> SUFFICES ASSUME departures = 0
               PROVE  /\ ~ here.rst /\ here.state # "reset"
                      /\ ~ there.fin /\ ~ there.rst /\ IsOpen(there)
    OBVIOUS
  <2>1. InPeace(connections[c].ends)
    BY DEF SocketsInv, PeaceInv
  <2>2. EndsInv(c)
    BY DEF SocketsInv, ConnectionsInv
  <2>3. CASE side = "opener"
    BY <2>1, <2>3 DEF InPeace, Other, IsOpen
  <2>4. CASE side = "acceptor"
    <3>1. connections[c].ends.acceptor.state \in {"handled", "reset"}
      BY <2>4
    <3>2. connections[c].ends.opener.state # "opening"
      BY <2>2, <3>1 DEF EndsInv
    <3> QED BY <2>1, <2>4, <3>1, <3>2 DEF InPeace, Other, IsOpen
  <2> QED BY <2>3, <2>4 DEF Sides
<1>4. CASE WriteFails(here)
  <2>1. departures # 0
    BY <1>3, <1>4 DEF WriteFails
  <2>2. \E overtaken \in BOOLEAN : Die(node, overtaken)
    BY <1>4 DEF Write
  <2> QED BY <2>1, <2>2 DEF Dies
<1>5. CASE ~ WriteFails(here) /\ IsOpen(there)
  <2>1. PICK end : end = [there EXCEPT !.in = Append(there.in, message)]
    OBVIOUS
  <2>2. Append(there.in, message) \in Seq(MessagesTo(Other(side)))
    <3>1. there.in \in Seq(MessagesTo(Other(side)))
      BY <1>1, EndFields DEF SocketsInv
    <3> QED BY <3>1
  <2>3. EndIs(c, Other(side), end)
    BY <1>5, <2>1 DEF Write, Written, EndIs
  <2> HIDE DEF there
  <2>4. /\ end \in EndsOn(Other(side)) /\ end.state = there.state
        /\ end.in = Append(there.in, message)
        /\ end.fin = there.fin /\ end.rst = there.rst
    <3>1. PICK far, queue : far = Other(side) /\ queue = Append(there.in, message)
      OBVIOUS
    <3>2. /\ far \in Sides /\ there \in EndsOn(far) /\ queue \in Seq(MessagesTo(far))
          /\ end = [there EXCEPT !.in = queue]
      BY <1>1, <1>2, <2>1, <2>2, <3>1
    <3>3. /\ end \in EndsOn(far) /\ end.state = there.state /\ end.in = queue
          /\ end.fin = there.fin /\ end.rst = there.rst
      BY <3>2, QueueSet
    <3> QED BY <3>1, <3>3
  <2>5. IsOpen(end)
    BY <1>5, <2>4 DEF IsOpen
  <2>6. departures = 0 => ~ end.fin /\ ~ end.rst
    BY <1>3, <2>4
  <2>7. Arrives(c, Other(side), message)
    BY <2>3, <2>4, <2>5, <2>6 DEF Arrives, there
  <2> QED BY <1>5, <2>7 DEF Write, there
<1>6. CASE ~ WriteFails(here) /\ ~ IsOpen(there)
  <2>1. PICK end : end = [here EXCEPT !.rst = TRUE]
    OBVIOUS
  <2>2. EndIs(c, side, end)
    BY <1>6, <2>1 DEF Write, Written, EndIs
  <2>3. /\ end \in EndsOn(side) /\ end.state = here.state /\ end.in = here.in
    BY <1>2, <2>1, RstSet
  <2>4. departures # 0 /\ Bounces(c, side)
    BY <1>3, <1>6, <2>2, <2>3 DEF Bounces
  <2> QED BY <1>6, <2>4 DEF Write
<1> QED BY <1>4, <1>5, <1>6

LEMMA WritingStep ==
  ASSUME SocketsInv, NEW node \in Node, NEW c \in DOMAIN connections, NEW side \in Sides,
         SideOf(node, c) = side, connections[c].ends[side].state \in {"handled", "reset"},
         NEW message \in MessagesTo(Other(side)), Write(node, c, message),
         departures' = departures
  PROVE  SocketsInv'
<1>1. CASE Dies(node)
  <2>1. departures' \in Nat /\ departures' # 0
    BY <1>1 DEF Dies, SocketsInv, ServersInv
  <2> QED BY <1>1, <2>1, DyingStep DEF Dies
<1>2. CASE Arrives(c, Other(side), message) /\ UNCHANGED <<status, boot, sockets, numConnections>>
  <2>1. Other(side) \in Sides
    BY DEF Other, Sides
  <2> QED BY <1>2, <2>1, SameStateStep DEF Arrives
<1>3. CASE /\ departures # 0 /\ Bounces(c, side)
           /\ UNCHANGED <<status, boot, sockets, numConnections>>
  BY <1>3, SameStateStep DEF Bounces
<1> QED BY <1>1, <1>2, <1>3, WriteCases

-----------------------------------------------------------------------------
(* Each action keeps the sockets and the registries in order.               *)

LEMMA PeaceOfEnd ==
  ASSUME SocketsInv, NEW c \in DOMAIN connections, NEW side \in Sides,
         \/ connections[c].ends[side].fin \/ connections[c].ends[side].rst
         \/ connections[c].ends[side].state = "closed" /\ side = "opener"
         \/ \E node \in Node : status[node] # "up"
  PROVE  departures # 0
<1> SUFFICES ASSUME departures = 0 PROVE FALSE
  OBVIOUS
<1>1. InPeace(connections[c].ends) /\ \A node \in Node : status[node] = "up"
  BY DEF SocketsInv, PeaceInv
<1>2. CASE side = "opener"
  BY <1>1, <1>2 DEF InPeace
<1>3. CASE side = "acceptor"
  BY <1>1, <1>3 DEF InPeace
<1> QED BY <1>2, <1>3 DEF Sides

LEMMA ProcessType ==
  ASSUME ServersInv, NEW node \in Node
  PROVE  ThisProcess(node) \in Processes
BY DEF ServersInv, ThisProcess, Processes

LEMMA RequestType ==
  ASSUME ServersInv, HistoryInv, NEW node \in Node, NEW peer \in Node,
         Request(node, peer).id <= MaxRequests
  PROVE  /\ Request(node, peer) \in Requests
         /\ Request(node, peer).id = Cardinality(SentRequests) + 1
         /\ Cardinality(SentRequests) \in Nat
<1> DEFINE id == Cardinality(SentRequests) + 1
<1>1. Cardinality(SentRequests) \in Nat /\ MaxRequests \in Nat
  BY FS_CardinalityType, BoundsAssumption DEF HistoryInv
<1>2. Request(node, peer) =
        [kind |-> "request", id |-> id, from |-> ThisProcess(node), to |-> [node |-> peer]]
  BY DEF Request, SentRequests
<1>3. Request(node, peer).id = id
  BY <1>2
<1>4. id \in 1..MaxRequests
  BY <1>1, <1>3
<1>5. ThisProcess(node) \in Processes
  BY ProcessType
<1> HIDE DEF id
<1>6. Request(node, peer) \in Requests
  BY <1>2, <1>4, <1>5 DEF Requests
<1> QED BY <1>1, <1>3, <1>6 DEF id

(* What a process sends requests on: a socket it opened.                    *)
LEMMA RequestSocket ==
  ASSUME SocketsInv, NEW node \in Node, NEW peer \in Node, Has(node, Listening(peer)),
         NEW c, c = sockets[node][Listening(peer)]
  PROVE  /\ c \in DOMAIN connections /\ SideOf(node, c) = "opener"
         /\ connections[c].nodes.opener = node /\ connections[c].nodes.acceptor = peer
         /\ connections[c].ends.opener.state \in {"handled", "reset"}
<1>1. PICK e : e = Listening(peer)
  OBVIOUS
<1>2. e \in DOMAIN sockets[node] /\ e[2] = 0 /\ e[1] = peer /\ c = sockets[node][e]
  BY <1>1 DEF Has, Listening
<1>3. c \in DOMAIN connections /\ OpenerHas(node, e, c) /\ SideOf(node, c) = "opener"
  BY <1>2, RegisteredSides DEF SocketsInv
<1>4. connections[c].nodes.opener = node /\ connections[c].nodes.acceptor = peer
  BY <1>2, <1>3 DEF OpenerHas, Listening
<1> QED BY <1>3, <1>4 DEF OpenerHas

LEMMA SendRequestSockets ==
  ASSUME SocketsInv, HistoryInv, NEW node \in Node, NEW peer \in Node, SendRequest(node, peer)
  PROVE  SocketsInv'
<1>1. PICK message : message = Request(node, peer)
  OBVIOUS
<1>2. message \in Requests /\ message \in MessagesTo(Other("opener"))
  BY <1>1, RequestType DEF SendRequest, SocketsInv, MessagesTo, Other
<1>3. departures' = departures
  BY DEF SendRequest
<1>4. CASE Has(node, Listening(peer))
  <2>1. PICK c : c = sockets[node][Listening(peer)]
    OBVIOUS
  <2>2. /\ c \in DOMAIN connections /\ SideOf(node, c) = "opener"
        /\ connections[c].ends.opener.state \in {"handled", "reset"}
    BY <1>4, <2>1, RequestSocket
  <2>3. Write(node, c, message)
    BY <1>1, <1>4, <2>1 DEF SendRequest
  <2>4. "opener" \in Sides
    BY DEF Sides
  <2> QED BY <1>2, <1>3, <2>2, <2>3, <2>4, WritingStep
<1>5. CASE ~ Has(node, Listening(peer))
  <2>1. /\ node # peer /\ Alive(node) /\ Len(connections) < MaxConnections
        /\ connections' = Append(connections, NewConnection(node, peer, message))
        /\ UNCHANGED <<status, boot, sockets, numConnections, departures>>
    BY <1>1, <1>5 DEF SendRequest, processVars
  <2> QED BY <1>2, <2>1, OpeningStep
<1> QED BY <1>4, <1>5

(* What it answers on: a socket it accepted, the one the request came from. *)
LEMMA ReplySocket ==
  ASSUME SocketsInv, RepliesInv, NEW node \in Node, NEW answer \in owed,
         Has(node, answer.endpoint), NEW c, c = sockets[node][answer.endpoint]
  PROVE  /\ c \in DOMAIN connections /\ SideOf(node, c) = "acceptor" /\ c = answer.endpoint[2]
         /\ connections[c].ends.acceptor.state = "handled"
         /\ answer.reply \in Replies /\ IsOpener(c, answer.reply.to)
<1>1. PICK e : e = answer.endpoint
  OBVIOUS
<1>2. answer.reply \in Replies /\ e \in Node \X (1..MaxConnections)
  BY <1>1 DEF RepliesInv
<1>3. e[2] # 0
  BY <1>2, BoundsAssumption
<1>4. /\ c \in DOMAIN connections /\ AcceptorHas(node, e, c) /\ SideOf(node, c) = "acceptor"
      /\ c = e[2]
  <2>1. e \in DOMAIN sockets[node] /\ c = sockets[node][e]
    BY <1>1 DEF Has
  <2> QED BY <1>3, <2>1, RegisteredSides DEF SocketsInv
<1>5. IsOpener(c, answer.reply.to)
  BY <1>1, <1>4 DEF RepliesInv
<1> QED BY <1>1, <1>2, <1>4, <1>5 DEF AcceptorHas

LEMMA SendReplySockets ==
  ASSUME SocketsInv, RepliesInv, NEW node \in Node, NEW answer \in owed, SendReply(node, answer)
  PROVE  SocketsInv'
<1>1. departures' = departures
  BY DEF SendReply
<1>2. CASE Has(node, answer.endpoint)
  <2>1. PICK c, message : c = sockets[node][answer.endpoint] /\ message = answer.reply
    OBVIOUS
  <2>2. /\ c \in DOMAIN connections /\ SideOf(node, c) = "acceptor"
        /\ connections[c].ends.acceptor.state \in {"handled", "reset"}
        /\ message \in Replies
    BY <1>2, <2>1, ReplySocket
  <2>3. Write(node, c, message)
    BY <1>2, <2>1 DEF SendReply
  <2>4. "acceptor" \in Sides /\ message \in MessagesTo(Other("acceptor"))
    BY <2>2 DEF Sides, MessagesTo, Other
  <2> QED BY <1>1, <2>2, <2>3, <2>4, WritingStep
<1>3. CASE ~ Has(node, answer.endpoint)
  <2>1. UNCHANGED <<status, boot, sockets, numConnections, connections, departures>>
    BY <1>3 DEF SendReply
  <2> QED BY <2>1 DEF SocketsInv, ServersInv, ConnectionsInv, EndsInv, Alive, RegistryInv,
                      OpenerHas, AcceptorHas, IsRegistered, Has, CountInv, Past, PeaceInv
<1> QED BY <1>2, <1>3

LEMMA WrittenToType ==
  ASSUME NEW message \in Requests, NEW state \in {"handled", "orphan"}
  PROVE  /\ WrittenTo(message, state) \in Ends
         /\ WrittenTo(message, state).opener = End(state)
         /\ WrittenTo(message, state).acceptor.state = "backlog"
         /\ WrittenTo(message, state).acceptor.in = <<message>>
         /\ ~ WrittenTo(message, state).acceptor.fin /\ ~ WrittenTo(message, state).acceptor.rst
<1>1. PICK backlog, queue, acceptor :
        /\ backlog = End("backlog") /\ queue = <<message>>
        /\ acceptor = [backlog EXCEPT !.in = queue]
  OBVIOUS
<1>2. /\ backlog \in AcceptorEnds /\ backlog.state = "backlog"
      /\ ~ backlog.fin /\ ~ backlog.rst
  BY <1>1 DEF AcceptorEnds, End
<1>3. End(state) \in OpenerEnds
  BY DEF End, OpenerEnds
<1>4. /\ acceptor \in AcceptorEnds
      /\ acceptor.state = "backlog" /\ acceptor.in = <<message>>
      /\ ~ acceptor.fin /\ ~ acceptor.rst
  <2>1. /\ backlog \in EndsOn("acceptor") /\ "acceptor" \in Sides
        /\ queue \in Seq(MessagesTo("acceptor"))
    BY <1>1, <1>2 DEF EndsOn, MessagesTo, Sides
  <2>2. /\ acceptor \in EndsOn("acceptor") /\ acceptor.state = backlog.state
        /\ acceptor.in = queue /\ acceptor.fin = backlog.fin /\ acceptor.rst = backlog.rst
    <3>1. acceptor = [backlog EXCEPT !.in = queue]
      BY <1>1
    <3> QED BY <2>1, <3>1, QueueSet
  <2> QED BY <1>1, <1>2, <2>2 DEF EndsOn
<1>5. WrittenTo(message, state) = [opener |-> End(state), acceptor |-> acceptor]
  BY <1>1 DEF WrittenTo
<1>6. WrittenTo(message, state) \in Ends
  BY <1>3, <1>4, <1>5 DEF Ends
<1> QED BY <1>4, <1>5, <1>6

LEMMA ConnectedSockets ==
  ASSUME SocketsInv, NEW c \in DOMAIN connections, Connected(c)
  PROVE  SocketsInv'
<1> DEFINE nodes == connections[c].nodes
           old == connections[c].ends
<1>1. /\ nodes.opener \in Node /\ nodes.acceptor \in Node
      /\ old \in Ends /\ connections[c].waiting \in Requests
      /\ old.opener.state = "opening" /\ old.acceptor.state = "none"
      /\ nodes.opener # nodes.acceptor
      /\ status[nodes.opener] # "gone" /\ status[nodes.acceptor] = "up"
  BY ConnectionFields DEF SocketsInv, ConnectionsInv, EndsInv, Connected, NodeOf, Alive
<1>2. PICK message : message = connections[c].waiting
  OBVIOUS
<1>3. UNCHANGED <<status, boot, departures>>
  BY DEF Connected, historyVars
<1>4. ASSUME NEW state \in {"handled", "orphan"}, NEW ends, ends = WrittenTo(message, state),
             connections' = [connections EXCEPT ![c].ends = ends]
      PROVE  /\ Changes(c, ends) /\ EndsInv(c)' /\ InPeace(ends)
             /\ connections'[c].ends = ends /\ connections'[c].nodes = nodes
             /\ ends.opener.state = state /\ ends.acceptor.state = "backlog"
  <2>1. /\ ends \in Ends /\ ends.opener = End(state) /\ ends.acceptor.state = "backlog"
        /\ ~ ends.acceptor.fin /\ ~ ends.acceptor.rst
    BY <1>1, <1>2, <1>4, WrittenToType
  <2>2. Changes(c, ends)
    BY <1>4, <2>1 DEF Changes
  <2>3. connections'[c].ends = ends /\ connections'[c].nodes = nodes
    BY <2>2, ChangesOne DEF SocketsInv
  <2>4. /\ ends.opener.state = state /\ ends.opener.in = <<>>
        /\ ~ ends.opener.fin /\ ~ ends.opener.rst
    BY <2>1 DEF End
  <2>5. EndsInv(c)'
    BY <1>1, <1>3, <2>1, <2>3, <2>4 DEF EndsInv, IsOpen, Alive
  <2> QED BY <2>1, <2>2, <2>3, <2>4, <2>5 DEF InPeace
<1> DEFINE endpoint == Listening(nodes.acceptor)
<1>5. PeerEndpoint(c, "opener") = endpoint /\ NodeOf(c, "opener") = nodes.opener
  BY DEF PeerEndpoint, NodeOf
<1>6. CASE Has(nodes.opener, endpoint)
  <2>1. PICK ends : ends = WrittenTo(message, "orphan")
    OBVIOUS
  <2>2. /\ connections' = [connections EXCEPT ![c].ends = ends]
        /\ UNCHANGED <<sockets, numConnections>>
    BY <1>2, <1>5, <1>6, <2>1 DEF Connected, DuplicateEnds
  <2>3. /\ Changes(c, ends) /\ EndsInv(c)' /\ InPeace(ends)
        /\ ends.opener.state = "orphan" /\ ends.acceptor.state = "backlog"
    BY <1>4, <2>1, <2>2
  <2>4. Quiet(connections[c].ends, ends)
    BY <1>1, <2>3 DEF Quiet
  <2> QED BY <1>3, <2>2, <2>3, <2>4, QuietSteps
<1>7. CASE ~ Has(nodes.opener, endpoint)
  <2>1. PICK ends : ends = WrittenTo(message, "handled")
    OBVIOUS
  <2>2. /\ connections' = [connections EXCEPT ![c].ends = ends]
        /\ Save(nodes.opener, endpoint, c)
    BY <1>2, <1>5, <1>7, <2>1 DEF Connected
  <2>3. /\ Changes(c, ends) /\ EndsInv(c)' /\ InPeace(ends)
        /\ connections'[c].ends = ends /\ connections'[c].nodes = nodes
        /\ ends.opener.state = "handled" /\ ends.acceptor.state = "backlog"
    BY <1>4, <2>1, <2>2
  <2>4. PICK node, e : node = nodes.opener /\ e = endpoint
    OBVIOUS
  <2>5. node \in Node /\ e \in Endpoint
    BY <1>1, <2>4 DEF Endpoint, Listening
  <2>6. c \notin Past(node)
    BY <1>1, <2>4 DEF Past
  <2>7. DOMAIN connections' = DOMAIN connections
    BY <2>3, ChangesOne DEF SocketsInv
  <2>8. c \in Past(node)' /\ OpenerHas(node, e, c)'
    BY <2>3, <2>4, <2>7 DEF Past, OpenerHas, Listening
  <2>9. Saved(node, e, connections[c].ends, ends, connections[c].nodes, c)
    BY <1>1, <2>3, <2>4 DEF Saved
  <2>10. Save(node, e, c) /\ ~ Has(node, e)
    BY <1>7, <2>2, <2>4
  <2> QED BY <1>3, <2>3, <2>5, <2>6, <2>8, <2>9, <2>10, SavingStep
<1> QED BY <1>6, <1>7

LEMMA RefusedSockets ==
  ASSUME SocketsInv, NEW c \in DOMAIN connections, Refused(c)
  PROVE  SocketsInv'
<1>1. PICK end : end = End("closed")
  OBVIOUS
<1>2. end \in EndsOn("opener") /\ "opener" \in Sides /\ EndIs(c, "opener", end)
  <2>1. end \in OpenerEnds
    BY <1>1 DEF OpenerEnds, End
  <2>2. EndIs(c, "opener", end)
    BY <1>1 DEF Refused, EndIs
  <2> QED BY <2>1, <2>2 DEF EndsOn, Sides
<1>3. PICK ends : /\ Changes(c, ends) /\ ends.opener = end
                  /\ ends.acceptor = connections[c].ends.acceptor
  BY <1>2, EndChanges DEF SocketsInv, Other
<1>4. UNCHANGED <<status, boot, sockets, numConnections, departures>>
  BY DEF Refused, processVars, historyVars
<1>5. connections[c].nodes.acceptor \in Node /\ status[connections[c].nodes.acceptor] # "up"
  BY ConnectionFields DEF SocketsInv, Refused, NodeOf
<1>6. departures # 0
  BY <1>2, <1>5, PeaceOfEnd
<1>7. connections'[c].ends = ends /\ connections'[c].nodes = connections[c].nodes
  BY <1>3, ChangesOne DEF SocketsInv
<1>8. EndsInv(c) /\ connections[c].ends.opener.state = "opening"
  BY DEF SocketsInv, ConnectionsInv, Refused
<1>9. EndsInv(c)'
  BY <1>1, <1>3, <1>4, <1>7, <1>8 DEF EndsInv, End, Alive, IsOpen
<1>10. Quiet(connections[c].ends, ends)
  BY <1>1, <1>3, <1>8 DEF Quiet, End
<1> QED BY <1>3, <1>4, <1>6, <1>9, <1>10, QuietSteps

LEMMA AcceptedSockets ==
  ASSUME SocketsInv, NEW c \in DOMAIN connections, Accepted(c)
  PROVE  SocketsInv'
<1> DEFINE nodes == connections[c].nodes
           acceptor == connections[c].ends.acceptor
<1>1. /\ nodes.opener \in Node /\ nodes.acceptor \in Node /\ c \in Nat /\ c # 0
      /\ acceptor \in AcceptorEnds /\ acceptor.state = "backlog"
      /\ EndsInv(c)
  BY ConnectionFields DEF SocketsInv, ConnectionsInv, Accepted
<1>2. PICK end : end = [acceptor EXCEPT !.state = "handled"]
  OBVIOUS
<1>3. /\ end \in AcceptorEnds /\ end.state = "handled" /\ end.in = acceptor.in
      /\ end.fin = acceptor.fin /\ end.rst = acceptor.rst
  BY <1>1, <1>2 DEF AcceptorEnds
<1>4. /\ connections' = [connections EXCEPT ![c].ends.acceptor.state = "handled"]
      /\ Save(NodeOf(c, "acceptor"), PeerEndpoint(c, "acceptor"), c)
      /\ UNCHANGED <<status, boot, departures>>
  BY DEF Accepted, historyVars
<1>5. end \in EndsOn("acceptor") /\ "acceptor" \in Sides /\ EndIs(c, "acceptor", end)
  BY <1>2, <1>3, <1>4 DEF EndsOn, Sides, EndIs
<1>6. PICK ends : /\ Changes(c, ends) /\ ends.acceptor = end
                  /\ ends.opener = connections[c].ends.opener
  BY <1>5, EndChanges DEF SocketsInv, Other
<1>7. /\ connections'[c].ends = ends /\ connections'[c].nodes = connections[c].nodes
      /\ DOMAIN connections' = DOMAIN connections
  BY <1>6, ChangesOne DEF SocketsInv
<1>8. EndsInv(c)'
  BY <1>1, <1>3, <1>4, <1>6, <1>7 DEF EndsInv, Alive, IsOpen
<1>9. departures = 0 => InPeace(ends)
  BY <1>1, <1>3, <1>6 DEF SocketsInv, PeaceInv, InPeace
<1>10. PICK node, e : node = nodes.acceptor /\ e = Ephemeral(nodes.opener, c)
  OBVIOUS
<1>11. node \in Node /\ e \in Endpoint /\ e[2] = c /\ Save(node, e, c)
  BY <1>1, <1>4, <1>10 DEF Endpoint, Ephemeral, NodeOf, PeerEndpoint
<1>12. ~ Has(node, e)
  <2>1. SUFFICES ASSUME e \in DOMAIN sockets[node] PROVE FALSE
    BY DEF Has
  <2>2. PICK d : d = sockets[node][e]
    OBVIOUS
  <2>3. AcceptorHas(node, e, d) /\ d = e[2]
    BY <1>1, <1>11, <2>1, <2>2, RegisteredSides DEF SocketsInv
  <2> QED BY <1>1, <1>11, <2>3 DEF AcceptorHas
<1>13. c \notin Past(node)
  BY <1>1, <1>10 DEF Past, EndsInv
<1>14. c \in Past(node)' /\ AcceptorHas(node, e, c)'
  BY <1>3, <1>6, <1>7, <1>10 DEF Past, AcceptorHas, Ephemeral
<1>15. Saved(node, e, connections[c].ends, ends, connections[c].nodes, c)
  BY <1>1, <1>3, <1>6, <1>10 DEF Saved
<1> QED BY <1>4, <1>6, <1>8, <1>9, <1>11, <1>12, <1>13, <1>14, <1>15, SavingStep

LEMMA DataSockets ==
  ASSUME SocketsInv, NEW c \in DOMAIN connections, NEW side \in Sides, NEW count,
         Data(c, side, count)
  PROVE  SocketsInv'
<1> DEFINE end == connections[c].ends[side]
<1>1. /\ end \in EndsOn(side) /\ end.in \in Seq(MessagesTo(side))
      /\ end.state = "handled" /\ count \in 1..Len(end.in)
  BY EndFields DEF SocketsInv, Data
<1>2. PICK new, queue : /\ queue = SubSeq(end.in, count + 1, Len(end.in))
                        /\ new = [end EXCEPT !.in = queue]
  OBVIOUS
<1>3. EndIs(c, side, new)
  BY <1>2 DEF Data, EndIs
<1>4. queue \in Seq(MessagesTo(side))
  BY <1>1, <1>2
<1>5. /\ new \in EndsOn(side) /\ new.state = end.state
      /\ new.fin = end.fin /\ new.rst = end.rst
  <2> HIDE DEF end
  <2>1. new = [end EXCEPT !.in = queue] /\ end \in EndsOn(side)
    BY <1>1, <1>2
  <2> QED BY <1>4, <2>1, QueueSet
<1>6. departures = 0 => ~ end.fin /\ ~ end.rst
  BY PeaceOfEnd
<1>7. UNCHANGED <<status, boot, sockets, numConnections, departures>>
  BY DEF Data
<1>8. IsOpen(new)
  BY <1>1, <1>5 DEF IsOpen
<1> QED BY <1>3, <1>5, <1>6, <1>7, <1>8, SameStateStep

LEMMA EndOfStreamSockets ==
  ASSUME SocketsInv, NEW c \in DOMAIN connections, NEW side \in Sides, EndOfStream(c, side)
  PROVE  SocketsInv'
<1> DEFINE old == connections[c].ends[side]
<1>1. /\ old \in EndsOn(side) /\ old.fin
      /\ EndsInv(c) /\ departures # 0
      /\ UNCHANGED <<status, boot, departures>>
  BY EndFields, PeaceOfEnd DEF SocketsInv, ConnectionsInv, EndOfStream, historyVars
<1>2. PICK end : end = End("closed")
  OBVIOUS
<1>3. end \in EndsOn(side) /\ end.state = "closed" /\ end.in = <<>>
  <2>1. end \in OpenerEnds
    BY <1>2 DEF OpenerEnds, End
  <2>2. end \in AcceptorEnds
    BY <1>2 DEF AcceptorEnds, End
  <2>3. end.state = "closed" /\ end.in = <<>>
    BY <1>2 DEF End
  <2> QED BY <2>1, <2>2, <2>3 DEF EndsOn
<1>4. EndIs(c, side, end)
  BY <1>2 DEF EndOfStream, EndIs
<1>5. PICK ends : /\ Changes(c, ends) /\ ends[side] = end
                  /\ ends[Other(side)] = connections[c].ends[Other(side)]
  BY <1>3, <1>4, EndChanges DEF SocketsInv
<1>6. connections'[c].ends = ends /\ connections'[c].nodes = connections[c].nodes
  BY <1>5, ChangesOne DEF SocketsInv
<1>7. \/ old.state = "handled"
      \/ /\ old.state = "orphan" /\ side = "opener"
         /\ UNCHANGED <<sockets, numConnections>>
  <2>1. side = "acceptor" => old.state # "orphan"
    BY <1>1 DEF EndsOn, AcceptorEnds
  <2> QED BY <2>1 DEF EndOfStream, Sides
<1>8. EndsInv(c)'
  <2>1. CASE side = "opener"
    BY <1>1, <1>3, <1>5, <1>6, <1>7, <2>1 DEF EndsInv, Other, Alive, IsOpen
  <2>2. CASE side = "acceptor"
    BY <1>1, <1>3, <1>5, <1>6, <1>7, <2>2 DEF EndsInv, Other, Alive, IsOpen
  <2> QED BY <2>1, <2>2 DEF Sides
<1>9. CASE old.state = "handled"
  <2>1. Remove(NodeOf(c, side), PeerEndpoint(c, side))
    BY <1>9 DEF EndOfStream
  <2> QED BY <1>1, <1>2, <1>5, <1>8, <1>9, <2>1, RemovingStep
<1>10. CASE old.state # "handled"
  <2>1. Quiet(connections[c].ends, ends)
    BY <1>3, <1>5, <1>7, <1>10 DEF Quiet, Other
  <2> QED BY <1>1, <1>5, <1>7, <1>8, <1>10, <2>1, QuietSteps
<1> QED BY <1>9, <1>10

LEMMA ResetSockets ==
  ASSUME SocketsInv, NEW c \in DOMAIN connections, Reset(c)
  PROVE  SocketsInv'
<1> DEFINE old == connections[c].ends.opener
<1>1. /\ EndsInv(c) /\ old.state \in {"handled", "orphan"}
      /\ UNCHANGED <<status, boot, sockets, numConnections, departures>>
  BY DEF SocketsInv, ConnectionsInv, Reset, processVars, historyVars
<1>2. PICK state, end : /\ state = IF old.state = "handled" THEN "reset" ELSE "closed"
                        /\ end = End(state)
  OBVIOUS
<1>3. /\ end \in OpenerEnds /\ end.state = state /\ end.in = <<>>
  <2>1. state \in {"reset", "closed"}
    BY <1>2
  <2>2. end = End(state)
    BY <1>2
  <2> QED BY <2>1, <2>2 DEF OpenerEnds, End
<1>4. EndIs(c, "opener", end)
  BY <1>2 DEF Reset, EndIs
<1>5. "opener" \in Sides /\ end \in EndsOn("opener")
  BY <1>3 DEF Sides, EndsOn
<1>6. PICK ends : /\ Changes(c, ends) /\ ends.opener = end
                  /\ ends.acceptor = connections[c].ends.acceptor
  BY <1>4, <1>5, EndChanges DEF SocketsInv, Other
<1>7. connections'[c].ends = ends /\ connections'[c].nodes = connections[c].nodes
  BY <1>6, ChangesOne DEF SocketsInv
<1>8. EndsInv(c)'
  BY <1>1, <1>2, <1>3, <1>6, <1>7 DEF EndsInv, Alive, IsOpen
<1>9. Quiet(connections[c].ends, ends)
  BY <1>1, <1>2, <1>3, <1>6 DEF Quiet
<1>10. departures # 0
  BY <1>5, PeaceOfEnd DEF Reset
<1> QED BY <1>1, <1>6, <1>8, <1>9, <1>10, QuietSteps

LEMMA ResetOfAcceptedSockets ==
  ASSUME SocketsInv, NEW c \in DOMAIN connections, ResetOfAccepted(c)
  PROVE  SocketsInv' /\ Dies(NodeOf(c, "acceptor")) /\ NodeOf(c, "acceptor") \in Node
<1>1. "acceptor" \in Sides /\ connections[c].ends.acceptor.rst
  BY DEF Sides, ResetOfAccepted
<1>2. departures # 0 /\ departures' = departures /\ departures \in Nat
  BY <1>1, PeaceOfEnd DEF ResetOfAccepted, historyVars, SocketsInv, ServersInv
<1>3. PICK node \in Node : node = NodeOf(c, "acceptor")
  BY <1>1, EndFields DEF SocketsInv
<1>4. PICK overtaken \in BOOLEAN : Die(node, overtaken)
  BY <1>3 DEF ResetOfAccepted
<1> QED BY <1>2, <1>3, <1>4, DyingStep DEF Dies

LEMMA ExitSockets ==
  ASSUME SocketsInv, NEW node \in Node, Exit(node)
  PROVE  SocketsInv'
<1>1. departures' \in Nat /\ departures' # 0
  BY DEF Exit, SocketsInv, ServersInv
<1>2. PICK overtaken \in BOOLEAN : Die(node, overtaken)
  BY DEF Exit
<1> QED BY <1>1, <1>2, DyingStep

-----------------------------------------------------------------------------
(* What the steps do to the messages on their way: some are lost, one is    *)
(* added, or one end reads some.                                            *)

CanBeRead(c, side) ==
  \/ side = "acceptor" /\ connections[c].ends.opener.state = "opening"
  \/ Readable(c, side)

(* Connections keep their nodes, and an opener's end its process.           *)
OpenersStay ==
  \A c \in DOMAIN connections :
    /\ c \in DOMAIN connections' /\ connections'[c].nodes = connections[c].nodes
    /\ connections'[c].ends.opener.state # "closed" =>
         /\ connections[c].ends.opener.state # "closed"
         /\ boot'[connections[c].nodes.opener] = boot[connections[c].nodes.opener]

Loses ==
  /\ OpenersStay
  /\ \A c, side, i, message : Entry(c, side, i, message)' =>
       Entry(c, side, i, message) /\ (CanBeRead(c, side)' => CanBeRead(c, side))

Keeps == \A c, side, i, message : Entry(c, side, i, message) => Entry(c, side, i, message)'

Adds(d, other, j, new) ==
  /\ OpenersStay
  /\ \A c, side, i, message : Entry(c, side, i, message)' =>
       \/ Entry(c, side, i, message) /\ (CanBeRead(c, side)' => CanBeRead(c, side))
       \/ c = d /\ side = other /\ i = j /\ message = new
  /\ Keeps
  /\ Entry(d, other, j, new)' /\ Addressed(d, other, new)'

Reads(d, other, count) ==
  /\ OpenersStay
  /\ \A c, side, i, message : Entry(c, side, i, message)' =>
       /\ i \in Nat \ {0} /\ (CanBeRead(c, side)' => CanBeRead(c, side))
       /\ c = d /\ side = other => Entry(c, side, i + count, message)
       /\ c # d \/ side # other => Entry(c, side, i, message)

LEMMA QueueType ==
  ASSUME ConnectionsInv, NEW c \in DOMAIN connections, NEW side \in Sides
  PROVE  Queue(c, side) \in Seq(MessagesTo(side))
<1>1. /\ connections[c].waiting \in Requests
      /\ connections[c].ends[side].in \in Seq(MessagesTo(side))
  BY ConnectionFields, EndFields
<1>2. CASE side = "acceptor" /\ connections[c].ends.opener.state = "opening"
  <2>1. Queue(c, side) = <<connections[c].waiting>> /\ MessagesTo(side) = Requests
    BY <1>2 DEF Queue, MessagesTo
  <2>2. PICK m \in Requests : m = connections[c].waiting
    BY <1>1
  <2> QED BY <2>1, <2>2
<1>3. CASE ~ (side = "acceptor" /\ connections[c].ends.opener.state = "opening")
  BY <1>1, <1>3 DEF Queue
<1> QED BY <1>2, <1>3

LEMMA EntryType ==
  ASSUME ConnectionsInv, NEW c, NEW side, NEW i, NEW message, Entry(c, side, i, message)
  PROVE  /\ c \in DOMAIN connections /\ side \in Sides /\ i \in Nat \ {0}
         /\ message \in MessagesTo(side)
<1>1. c \in DOMAIN connections /\ side \in Sides
  BY DEF Entry
<1>2. PICK queue : queue = Queue(c, side)
  OBVIOUS
<1>3. queue \in Seq(MessagesTo(side))
  BY <1>1, <1>2, QueueType
<1>4. i \in DOMAIN queue /\ message = queue[i]
  BY <1>2 DEF Entry
<1> QED BY <1>1, <1>3, <1>4

(* The kinds of messages.                                                   *)
LEMMA MessageKinds ==
  /\ \A m \in Requests : /\ m.kind = "request" /\ m.id \in 1..MaxRequests
                         /\ m.from \in Processes /\ m.to \in [node : Node]
                         /\ m \in Messages
  /\ \A m \in Replies : /\ m.kind = "reply" /\ m.id \in 1..MaxRequests
                        /\ m.from \in Processes /\ m.to \in Processes
                        /\ m \in Messages
  /\ \A m \in Messages : /\ m.kind = "request" <=> m \in Requests
                         /\ m.kind = "reply" <=> m \in Replies
                         /\ m.kind \in {"request", "reply"} /\ m.id \in 1..MaxRequests
<1>1. \A m \in Requests : /\ m.kind = "request" /\ m.id \in 1..MaxRequests
                          /\ m.from \in Processes /\ m.to \in [node : Node]
  BY DEF Requests
<1>2. \A m \in Replies : /\ m.kind = "reply" /\ m.id \in 1..MaxRequests
                         /\ m.from \in Processes /\ m.to \in Processes
  BY DEF Replies
<1>3. Messages = Requests \cup Replies
  BY DEF Messages, Requests, Replies
<1> QED BY <1>1, <1>2, <1>3

LEMMA OpenerStays ==
  ASSUME OpenersStay, NEW c \in DOMAIN connections, NEW process, IsOpener(c, process)
  PROVE  c \in DOMAIN connections' /\ IsOpener(c, process)'
<1>1. /\ c \in DOMAIN connections' /\ connections'[c].nodes = connections[c].nodes
      /\ connections'[c].ends.opener.state # "closed" =>
           /\ connections[c].ends.opener.state # "closed"
           /\ boot'[connections[c].nodes.opener] = boot[connections[c].nodes.opener]
  BY DEF OpenersStay
<1> QED BY <1>1 DEF IsOpener, ThisProcess

LEMMA AddressedStays ==
  ASSUME ConnectionsInv, OpenersStay, NEW c, NEW side, NEW i, NEW message,
         Entry(c, side, i, message), Addressed(c, side, message)
  PROVE  Addressed(c, side, message)'
<1>1. c \in DOMAIN connections
  BY DEF Entry
<1>2. connections'[c].nodes = connections[c].nodes
  BY <1>1 DEF OpenersStay
<1> QED BY <1>1, <1>2, OpenerStays DEF Addressed

LEMMA LosingQueues ==
  ASSUME ConnectionsInv, QueuesInv, Loses, sent \subseteq sent', received' = received
  PROVE  QueuesInv'
<1>1. ASSUME NEW c, NEW side, NEW i, NEW message, Entry(c, side, i, message)'
      PROVE  /\ Entry(c, side, i, message)
             /\ message \in sent' /\ ~ WasReceived(message)' /\ Addressed(c, side, message)'
  <2>1. Entry(c, side, i, message)
    BY <1>1 DEF Loses
  <2>2. message \in sent /\ ~ WasReceived(message) /\ Addressed(c, side, message)
    BY <2>1 DEF QueuesInv
  <2>3. Addressed(c, side, message)'
    BY <2>1, <2>2, AddressedStays DEF Loses
  <2> QED BY <2>1, <2>2, <2>3 DEF WasReceived
<1>2. ASSUME NEW c, NEW side, NEW i, NEW d, NEW other, NEW j, NEW message,
             Entry(c, side, i, message)', Entry(d, other, j, message)'
      PROVE  c = d /\ side = other /\ i = j
  BY <1>1, <1>2 DEF QueuesInv
<1> QED BY <1>1, <1>2 DEF QueuesInv

LEMMA AddingQueues ==
  ASSUME ConnectionsInv, QueuesInv, HistoryInv, NEW d, NEW other, NEW j, NEW new,
         Adds(d, other, j, new), new \notin sent, sent' = sent \cup {new}, received' = received
  PROVE  QueuesInv'
<1>1. ~ WasReceived(new)
  BY DEF HistoryInv, WasReceived
<1>2. ASSUME NEW c, NEW side, NEW i, NEW message, Entry(c, side, i, message)'
      PROVE  /\ \/ Entry(c, side, i, message) /\ message \in sent
                \/ c = d /\ side = other /\ i = j /\ message = new
             /\ message \in sent' /\ ~ WasReceived(message)' /\ Addressed(c, side, message)'
  <2>1. CASE Entry(c, side, i, message)
    <3>1. message \in sent /\ ~ WasReceived(message) /\ Addressed(c, side, message)
      BY <2>1 DEF QueuesInv
    <3>2. Addressed(c, side, message)'
      BY <2>1, <3>1, AddressedStays DEF Adds
    <3> QED BY <2>1, <3>1, <3>2 DEF WasReceived
  <2>2. CASE c = d /\ side = other /\ i = j /\ message = new
    BY <1>1, <2>2 DEF Adds, WasReceived
  <2> QED BY <1>2, <2>1, <2>2 DEF Adds
<1>3. ASSUME NEW c, NEW side, NEW i, NEW e, NEW another, NEW k, NEW message,
             Entry(c, side, i, message)', Entry(e, another, k, message)'
      PROVE  c = e /\ side = another /\ i = k
  <2>1. \/ Entry(c, side, i, message) /\ message \in sent
        \/ c = d /\ side = other /\ i = j /\ message = new
    BY <1>2, <1>3
  <2>2. \/ Entry(e, another, k, message) /\ message \in sent
        \/ e = d /\ another = other /\ k = j /\ message = new
    BY <1>2, <1>3
  <2> QED BY <2>1, <2>2 DEF QueuesInv
<1> QED BY <1>2, <1>3 DEF QueuesInv

LEMMA ReadingQueues ==
  ASSUME ConnectionsInv, QueuesInv, NEW d, NEW other, NEW count \in Nat \ {0},
         Reads(d, other, count), sent' = sent, NEW new, Entry(d, other, 1, new),
         \A receipt \in received' \ received : receipt.message = new
  PROVE  QueuesInv'
<1>1. ASSUME NEW c, NEW side, NEW i, NEW message, Entry(c, side, i, message)'
      PROVE  /\ c = d /\ side = other => Entry(c, side, i + count, message)
             /\ c # d \/ side # other => Entry(c, side, i, message)
             /\ message \in sent /\ ~ WasReceived(message)' /\ Addressed(c, side, message)'
  <2>1. PICK k : /\ Entry(c, side, k, message) /\ ~ (c = d /\ side = other /\ k = 1)
                 /\ c = d /\ side = other => k = i + count
                 /\ c # d \/ side # other => k = i
    <3>1. CASE c = d /\ side = other
      <4>1. i + count # 1 /\ Entry(c, side, i + count, message)
        BY <1>1, <3>1 DEF Reads
      <4> QED BY <3>1, <4>1
    <3>2. CASE c # d \/ side # other
      BY <1>1, <3>2 DEF Reads
    <3> QED BY <3>1, <3>2
  <2>2. message \in sent /\ ~ WasReceived(message) /\ Addressed(c, side, message)
    BY <2>1 DEF QueuesInv
  <2>3. message # new
    BY <2>1 DEF QueuesInv
  <2>4. ~ WasReceived(message)'
    BY <2>2, <2>3 DEF WasReceived
  <2>5. Addressed(c, side, message)'
    BY <2>1, <2>2, AddressedStays DEF Reads
  <2> QED BY <2>1, <2>2, <2>4, <2>5
<1>2. ASSUME NEW c, NEW side, NEW i, NEW e, NEW another, NEW k, NEW message,
             Entry(c, side, i, message)', Entry(e, another, k, message)'
      PROVE  c = e /\ side = another /\ i = k
  <2>1. i \in Nat /\ k \in Nat
    BY <1>2 DEF Reads
  <2>2. c = e /\ side = another
    BY <1>1, <1>2 DEF QueuesInv
  <2>3. CASE c = d /\ side = other
    <3>1. Entry(c, side, i + count, message) /\ Entry(e, another, k + count, message)
      BY <1>1, <1>2, <2>2, <2>3
    <3>2. i + count = k + count
      BY <3>1 DEF QueuesInv
    <3> QED BY <2>1, <2>2, <3>2
  <2>4. CASE c # d \/ side # other
    <3>1. Entry(c, side, i, message) /\ Entry(e, another, k, message)
      BY <1>1, <1>2, <2>2, <2>4
    <3> QED BY <3>1 DEF QueuesInv
  <2> QED BY <2>3, <2>4
<1> QED BY <1>1, <1>2 DEF QueuesInv

(* Steps that lose messages, or keep them all.                              *)
LEMMA LosesFrom ==
  ASSUME OpenersStay, DOMAIN connections' = DOMAIN connections,
         \A c \in DOMAIN connections : \A side \in Sides :
           /\ Queue(c, side)' = Queue(c, side) \/ Queue(c, side)' = <<>>
           /\ CanBeRead(c, side)' /\ Queue(c, side)' # <<>> => CanBeRead(c, side)
  PROVE  Loses
<1>1. ASSUME NEW c, NEW side, NEW i, NEW message, Entry(c, side, i, message)'
      PROVE  Entry(c, side, i, message) /\ (CanBeRead(c, side)' => CanBeRead(c, side))
  <2>1. c \in DOMAIN connections /\ side \in Sides
    BY <1>1 DEF Entry
  <2>2. Queue(c, side)' # <<>>
    BY <1>1 DEF Entry
  <2>3. Queue(c, side)' = Queue(c, side)
    BY <2>1, <2>2
  <2>4. Entry(c, side, i, message)
    BY <1>1, <2>1, <2>3 DEF Entry
  <2> QED BY <2>1, <2>2, <2>4
<1> QED BY <1>1 DEF Loses

LEMMA KeepsFrom ==
  ASSUME DOMAIN connections \subseteq DOMAIN connections',
         \A c \in DOMAIN connections : \A side \in Sides : Queue(c, side)' = Queue(c, side)
  PROVE  Keeps
<1>1. ASSUME NEW c, NEW side, NEW i, NEW message, Entry(c, side, i, message)
      PROVE  Entry(c, side, i, message)'
  <2>1. c \in DOMAIN connections /\ side \in Sides
    BY <1>1 DEF Entry
  <2>2. Queue(c, side)' = Queue(c, side)
    BY <2>1
  <2> QED BY <1>1, <2>1, <2>2 DEF Entry
<1> QED BY <1>1 DEF Keeps

(* One connection changes, the processes stay.                              *)
LEMMA OneLoses ==
  ASSUME ConnectionsInv, NEW c \in DOMAIN connections, NEW ends, Changes(c, ends),
         UNCHANGED <<status, boot>>,
         ends.opener.state # "closed" => connections[c].ends.opener.state # "closed",
         \A side \in Sides :
           /\ Queue(c, side)' = Queue(c, side) \/ Queue(c, side)' = <<>>
           /\ CanBeRead(c, side)' /\ Queue(c, side)' # <<>> => CanBeRead(c, side)
  PROVE  /\ Loses
         /\ (\A side \in Sides : Queue(c, side)' = Queue(c, side)) => Keeps
<1>1. /\ DOMAIN connections' = DOMAIN connections
      /\ \A d \in DOMAIN connections : d # c => connections'[d] = connections[d]
      /\ connections'[c].ends = ends
      /\ connections'[c].nodes = connections[c].nodes
  BY ChangesOne
<1>2. OpenersStay
  BY <1>1 DEF OpenersStay
<1>3. ASSUME NEW d \in DOMAIN connections, d # c, NEW side \in Sides
      PROVE  /\ Queue(d, side)' = Queue(d, side)
             /\ CanBeRead(d, side)' <=> CanBeRead(d, side)
  <2>1. connections'[d] = connections[d]
    BY <1>1, <1>3
  <2> QED BY <2>1 DEF Queue, CanBeRead, Readable, NodeOf
<1>4. Loses
  BY <1>1, <1>2, <1>3, LosesFrom
<1>5. ASSUME \A side \in Sides : Queue(c, side)' = Queue(c, side) PROVE Keeps
  BY <1>1, <1>3, <1>5, KeepsFrom
<1> QED BY <1>4, <1>5

LEMMA ConnectedLoses ==
  ASSUME SocketsInv, NEW c \in DOMAIN connections, Connected(c)
  PROVE  Loses /\ Keeps
<1>1. /\ connections[c].waiting \in Requests
      /\ connections[c].ends.opener.state = "opening"
      /\ connections[c].ends.opener.in = <<>>
  BY ConnectionFields DEF SocketsInv, ConnectionsInv, EndsInv, Connected, IsOpen
<1>2. PICK message, state :
        /\ message = connections[c].waiting /\ state \in {"handled", "orphan"}
        /\ connections' = [connections EXCEPT ![c].ends = WrittenTo(message, state)]
  BY DEF Connected, DuplicateEnds
<1>3. PICK ends : ends = WrittenTo(message, state)
  OBVIOUS
<1>4. /\ ends \in Ends /\ ends.opener = End(state) /\ ends.acceptor.in = <<message>>
      /\ ends.acceptor.state = "backlog"
  BY <1>1, <1>2, <1>3, WrittenToType
<1>5. Changes(c, ends)
  BY <1>2, <1>3, <1>4 DEF Changes
<1>6. connections'[c].ends = ends
  BY <1>5, ChangesOne DEF SocketsInv
<1>7. /\ Queue(c, "acceptor")' = Queue(c, "acceptor") /\ CanBeRead(c, "acceptor")
      /\ Queue(c, "opener")' = <<>> /\ Queue(c, "opener") = <<>>
  BY <1>1, <1>2, <1>4, <1>6 DEF Queue, CanBeRead, End
<1>8. \A side \in Sides : /\ Queue(c, side)' = Queue(c, side)
                          /\ CanBeRead(c, side)' /\ Queue(c, side)' # <<>> => CanBeRead(c, side)
  BY <1>7 DEF Sides
<1>9. UNCHANGED <<status, boot>>
  BY DEF Connected
<1> QED BY <1>1, <1>5, <1>8, <1>9, OneLoses DEF SocketsInv

LEMMA RefusedLoses ==
  ASSUME SocketsInv, NEW c \in DOMAIN connections, Refused(c)
  PROVE  Loses
<1>1. PICK end : end = End("closed")
  OBVIOUS
<1>2. end \in OpenerEnds /\ end.state = "closed" /\ end.in = <<>>
  BY <1>1 DEF OpenerEnds, End
<1>3. end \in EndsOn("opener") /\ "opener" \in Sides /\ EndIs(c, "opener", end)
  BY <1>1, <1>2 DEF EndsOn, Sides, Refused, EndIs
<1>4. PICK ends : /\ Changes(c, ends) /\ ends.opener = end
                  /\ ends.acceptor = connections[c].ends.acceptor
  BY <1>3, EndChanges DEF SocketsInv, Other
<1>5. connections'[c].ends = ends
  BY <1>4, ChangesOne DEF SocketsInv
<1>6. /\ connections[c].ends.opener.state = "opening"
      /\ connections[c].ends.acceptor.in = <<>>
  BY DEF SocketsInv, ConnectionsInv, EndsInv, Refused, IsOpen
<1>7. Queue(c, "acceptor")' = <<>> /\ Queue(c, "opener")' = <<>>
  BY <1>2, <1>4, <1>5, <1>6 DEF Queue
<1>8. \A side \in Sides : Queue(c, side)' = <<>>
  BY <1>7 DEF Sides
<1>9. UNCHANGED <<status, boot>>
  BY DEF Refused, processVars
<1> QED BY <1>2, <1>4, <1>8, <1>9, OneLoses DEF SocketsInv

LEMMA AcceptedLoses ==
  ASSUME SocketsInv, NEW c \in DOMAIN connections, Accepted(c)
  PROVE  Loses /\ Keeps
<1> DEFINE acceptor == connections[c].ends.acceptor
<1>1. /\ acceptor \in AcceptorEnds /\ acceptor.state = "backlog"
      /\ connections[c].ends.opener.state # "opening"
      /\ status[NodeOf(c, "acceptor")] = "up"
  BY ConnectionFields DEF SocketsInv, ConnectionsInv, EndsInv, Accepted, NodeOf
<1>2. PICK end : end = [acceptor EXCEPT !.state = "handled"]
  OBVIOUS
<1>3. /\ end \in AcceptorEnds /\ end.state = "handled" /\ end.in = acceptor.in
  BY <1>1, <1>2 DEF AcceptorEnds
<1>4. end \in EndsOn("acceptor") /\ "acceptor" \in Sides /\ EndIs(c, "acceptor", end)
  BY <1>2, <1>3 DEF EndsOn, Sides, EndIs, Accepted
<1>5. PICK ends : /\ Changes(c, ends) /\ ends.acceptor = end
                  /\ ends.opener = connections[c].ends.opener
  BY <1>4, EndChanges DEF SocketsInv, Other
<1>6. connections'[c].ends = ends /\ connections'[c].nodes = connections[c].nodes
  BY <1>5, ChangesOne DEF SocketsInv
<1>7. UNCHANGED <<status, boot>>
  BY DEF Accepted
<1>8. /\ Queue(c, "acceptor")' = Queue(c, "acceptor") /\ CanBeRead(c, "acceptor")
      /\ Queue(c, "opener")' = Queue(c, "opener")
      /\ CanBeRead(c, "opener")' <=> CanBeRead(c, "opener")
  BY <1>1, <1>3, <1>5, <1>6, <1>7 DEF Queue, CanBeRead, Readable, NodeOf
<1>9. \A side \in Sides : /\ Queue(c, side)' = Queue(c, side)
                          /\ CanBeRead(c, side)' => CanBeRead(c, side)
  BY <1>8 DEF Sides
<1> QED BY <1>5, <1>7, <1>9, OneLoses DEF SocketsInv

(* An open end is closed or reset.                                          *)
LEMMA ClosingLoses ==
  ASSUME SocketsInv, NEW c \in DOMAIN connections, NEW side \in Sides,
         NEW end \in EndsOn(side), EndIs(c, side, end), end.in = <<>>,
         end.state \in {"closed", "reset"},
         connections[c].ends[side].state \in {"handled", "orphan"},
         UNCHANGED <<status, boot>>
  PROVE  Loses
<1>1. PICK ends : /\ Changes(c, ends) /\ ends[side] = end
                  /\ ends[Other(side)] = connections[c].ends[Other(side)]
  BY EndChanges DEF SocketsInv
<1>2. connections'[c].ends = ends /\ connections'[c].nodes = connections[c].nodes
  BY <1>1, ChangesOne DEF SocketsInv
<1>3. EndsInv(c)
  BY DEF SocketsInv, ConnectionsInv
<1>4. /\ Queue(c, side)' = <<>>
      /\ Queue(c, Other(side))' = Queue(c, Other(side))
      /\ CanBeRead(c, Other(side))' => CanBeRead(c, Other(side))
      /\ ends.opener.state # "closed" => connections[c].ends.opener.state # "closed"
  <2>1. CASE side = "opener"
    BY <1>1, <1>2, <2>1 DEF Queue, CanBeRead, Readable, NodeOf, Other
  <2>2. CASE side = "acceptor"
    BY <1>1, <1>2, <1>3, <2>2 DEF Queue, CanBeRead, Readable, NodeOf, Other, EndsInv
  <2> QED BY <2>1, <2>2 DEF Sides
<1>5. \A s \in Sides : /\ Queue(c, s)' = Queue(c, s) \/ Queue(c, s)' = <<>>
                       /\ CanBeRead(c, s)' /\ Queue(c, s)' # <<>> => CanBeRead(c, s)
  <2>1. \A s \in Sides : s = side \/ s = Other(side)
    BY DEF Sides, Other
  <2> QED BY <1>4, <2>1
<1> QED BY <1>1, <1>4, <1>5, OneLoses DEF SocketsInv

LEMMA EndOfStreamLoses ==
  ASSUME SocketsInv, NEW c \in DOMAIN connections, NEW side \in Sides, EndOfStream(c, side)
  PROVE  Loses
<1>1. PICK end : end = End("closed")
  OBVIOUS
<1>2. end \in OpenerEnds /\ end \in AcceptorEnds /\ end.state = "closed" /\ end.in = <<>>
  <2>1. end \in OpenerEnds
    BY <1>1 DEF OpenerEnds, End
  <2>2. end \in AcceptorEnds
    BY <1>1 DEF AcceptorEnds, End
  <2> QED BY <1>1, <2>1, <2>2 DEF End
<1>3. end \in EndsOn(side) /\ EndIs(c, side, end)
  BY <1>1, <1>2 DEF EndsOn, EndIs, EndOfStream
<1>4. UNCHANGED <<status, boot>> /\ connections[c].ends[side].state \in {"handled", "orphan"}
  BY DEF EndOfStream
<1> QED BY <1>2, <1>3, <1>4, ClosingLoses

LEMMA ResetLoses ==
  ASSUME SocketsInv, NEW c \in DOMAIN connections, Reset(c)
  PROVE  Loses
<1>1. PICK state \in {"closed", "reset"} :
        connections' = [connections EXCEPT ![c].ends.opener = End(state)]
  BY DEF Reset
<1>2. PICK end : end = End(state)
  OBVIOUS
<1>3. end \in OpenerEnds /\ end.state \in {"closed", "reset"} /\ end.in = <<>>
  BY <1>2 DEF OpenerEnds, End
<1>4. "opener" \in Sides /\ end \in EndsOn("opener") /\ EndIs(c, "opener", end)
  BY <1>1, <1>2, <1>3 DEF EndsOn, EndIs, Sides
<1>5. /\ UNCHANGED <<status, boot>>
      /\ connections[c].ends.opener.state \in {"handled", "orphan"}
  BY DEF Reset, processVars
<1> QED BY <1>3, <1>4, <1>5, ClosingLoses

LEMMA LeavingLoses ==
  ASSUME SocketsInv, NEW gone, NEW overtaken \in BOOLEAN,
         connections' = Closing(gone, overtaken), boot' = boot,
         \A node \in Node : status'[node] = "up" => status[node] = "up"
  PROVE  Loses
<1>1. /\ DOMAIN connections' = DOMAIN connections
      /\ \A c \in DOMAIN connections :
           /\ connections'[c].nodes = connections[c].nodes
           /\ connections'[c].waiting = connections[c].waiting
           /\ IsLeft(c, "opener", gone) /\ IsLeft(c, "acceptor", gone)
  BY ClosingEnds DEF SocketsInv
<1>2. ASSUME NEW c \in DOMAIN connections, NEW side \in Sides
      PROVE  \/ /\ connections'[c].ends[side].state = "closed"
                /\ connections'[c].ends[side].in = <<>>
             \/ /\ connections'[c].ends[side].state = connections[c].ends[side].state
                /\ connections'[c].ends[side].in = connections[c].ends[side].in
  <2>1. IsLeft(c, side, gone)
    BY <1>1 DEF Sides
  <2> QED BY <2>1 DEF IsLeft, End
<1>3. "opener" \in Sides /\ "acceptor" \in Sides
  BY DEF Sides
<1>4. OpenersStay
  <2>1. ASSUME NEW c \in DOMAIN connections
        PROVE  connections'[c].ends.opener.state # "closed" =>
                 connections[c].ends.opener.state # "closed"
    BY <1>2, <1>3
  <2> QED BY <1>1, <2>1 DEF OpenersStay
<1>5. ASSUME NEW c \in DOMAIN connections, NEW side \in Sides
      PROVE  /\ Queue(c, side)' = Queue(c, side) \/ Queue(c, side)' = <<>>
             /\ CanBeRead(c, side)' => CanBeRead(c, side)
  <2>1. /\ connections[c].ends.opener.state = "opening" =>
             connections[c].ends.acceptor.in = <<>>
        /\ NodeOf(c, side) \in Node
    BY EndFields DEF SocketsInv, ConnectionsInv, EndsInv, IsOpen
  <2>2. \/ connections'[c].ends.opener.state = "closed"
        \/ connections'[c].ends.opener.state = connections[c].ends.opener.state
    BY <1>2, <1>3
  <2>3. \/ connections'[c].ends.acceptor.in = <<>>
        \/ connections'[c].ends.acceptor.in = connections[c].ends.acceptor.in
    BY <1>2, <1>3
  <2>4. Queue(c, side)' = Queue(c, side) \/ Queue(c, side)' = <<>>
    <3>1. CASE side = "opener"
      BY <1>2, <3>1 DEF Queue
    <3>2. CASE side = "acceptor"
      BY <1>1, <2>1, <2>2, <2>3, <3>2 DEF Queue
    <3> QED BY <3>1, <3>2 DEF Sides
  <2>5. CanBeRead(c, side)' => CanBeRead(c, side)
    <3>1. Readable(c, side)' => Readable(c, side)
      BY <1>1, <1>2, <2>1 DEF Readable, NodeOf
    <3> QED BY <2>2, <3>1 DEF CanBeRead
  <2> QED BY <2>4, <2>5
<1> QED BY <1>1, <1>4, <1>5, LosesFrom

LEMMA DyingLoses ==
  ASSUME SocketsInv, NEW node \in Node, NEW overtaken \in BOOLEAN, Die(node, overtaken)
  PROVE  Loses
<1>1. \A n \in Node : status'[n] = "up" => status[n] = "up"
  BY DEF Die, SocketsInv, ServersInv
<1>2. PICK gone : gone = EndsOf(node)
  OBVIOUS
<1>3. connections' = Closing(gone, overtaken) /\ boot' = boot
  BY <1>2 DEF Die
<1> QED BY <1>1, <1>3, LeavingLoses

LEMMA StoppingLoses ==
  ASSUME SocketsInv, NEW node \in Node, Stop(node)
  PROVE  Loses
<1>1. \A n \in Node : status'[n] = "up" => status[n] = "up"
  BY DEF Stop, SocketsInv, ServersInv
<1>2. PICK gone : gone = DestroyedByClose(node)
  OBVIOUS
<1>3. PICK overtaken \in BOOLEAN : connections' = Closing(gone, overtaken)
  BY <1>2 DEF Stop
<1>4. boot' = boot
  BY DEF Stop
<1> QED BY <1>1, <1>3, <1>4, LeavingLoses

LEMMA StartingLoses ==
  ASSUME SocketsInv, NEW node \in Node, Start(node)
  PROVE  Loses
<1>1. /\ connections' = connections /\ status[node] = "gone"
      /\ \A n \in Node : n # node => status'[n] = status[n] /\ boot'[n] = boot[n]
  BY DEF Start, SocketsInv, ServersInv
<1>2. ASSUME NEW c \in DOMAIN connections
      PROVE  /\ EndsInv(c)
             /\ connections[c].nodes.opener \in Node /\ connections[c].nodes.acceptor \in Node
  BY ConnectionFields DEF SocketsInv, ConnectionsInv
<1>3. OpenersStay
  BY <1>1, <1>2 DEF OpenersStay, EndsInv, Alive
<1>4. ASSUME NEW c \in DOMAIN connections, NEW side \in Sides
      PROVE  Queue(c, side)' = Queue(c, side) /\ (CanBeRead(c, side)' => CanBeRead(c, side))
  <2>1. Queue(c, side)' = Queue(c, side)
    BY <1>1 DEF Queue
  <2>2. Readable(c, side)' => Readable(c, side)
    <3>1. connections[c].ends[side].state \in {"backlog", "handled"} => NodeOf(c, side) # node
      <4>1. CASE side = "opener"
        <5>1. connections[c].ends.opener.state # "closed" => connections[c].nodes.opener # node
          BY <1>1, <1>2 DEF EndsInv, Alive
        <5> QED BY <4>1, <5>1 DEF NodeOf
      <4>2. CASE side = "acceptor"
        BY <1>1, <1>2, <4>2 DEF EndsInv, NodeOf
      <4> QED BY <4>1, <4>2 DEF Sides
    <3>2. NodeOf(c, side) \in Node
      BY EndFields DEF SocketsInv
    <3> QED BY <1>1, <3>1, <3>2 DEF Readable, NodeOf
  <2> QED BY <1>1, <2>1, <2>2 DEF CanBeRead
<1> QED BY <1>1, <1>3, <1>4, LosesFrom

LEMMA OpeningAdds ==
  ASSUME SocketsInv, NEW node \in Node, NEW peer \in Node, NEW message \in Requests,
         node # peer, Alive(node), Len(connections) < MaxConnections,
         connections' = Append(connections, NewConnection(node, peer, message)),
         UNCHANGED <<status, boot, sockets, numConnections, departures>>,
         message.from = ThisProcess(node), message.to.node = peer
  PROVE  \E d, other, j : Adds(d, other, j, message)
<1>1. PICK k : k = Len(connections')
  OBVIOUS
<1>2. /\ DOMAIN connections' = DOMAIN connections \cup {k} /\ k \notin DOMAIN connections
      /\ \A c \in DOMAIN connections : connections'[c] = connections[c]
      /\ connections'[k] = NewConnection(node, peer, message)
  BY <1>1, OpeningStep
<1>3. /\ connections'[k].ends.opener.state = "opening"
      /\ connections'[k].ends.opener.in = <<>>
      /\ connections'[k].waiting = message
      /\ connections'[k].nodes.opener = node /\ connections'[k].nodes.acceptor = peer
  BY <1>2 DEF NewConnection, End
<1>4. Queue(k, "acceptor")' = <<message>> /\ Queue(k, "opener")' = <<>>
  BY <1>3 DEF Queue
<1>5. OpenersStay
  BY <1>2 DEF OpenersStay
<1>6. ASSUME NEW c \in DOMAIN connections, NEW side \in Sides
      PROVE  Queue(c, side)' = Queue(c, side) /\ (CanBeRead(c, side)' <=> CanBeRead(c, side))
  <2>1. connections'[c] = connections[c]
    BY <1>2
  <2> QED BY <2>1 DEF Queue, CanBeRead, Readable, NodeOf
<1>7. Keeps
  BY <1>2, <1>6, KeepsFrom
<1>8. ASSUME NEW c, NEW side, NEW i, NEW m, Entry(c, side, i, m)'
      PROVE  \/ Entry(c, side, i, m) /\ (CanBeRead(c, side)' => CanBeRead(c, side))
             \/ c = k /\ side = "acceptor" /\ i = 1 /\ m = message
  <2>1. c \in DOMAIN connections \cup {k} /\ side \in Sides
    BY <1>2, <1>8 DEF Entry
  <2>2. CASE c \in DOMAIN connections
    BY <1>6, <1>8, <2>1, <2>2 DEF Entry
  <2>3. CASE c = k
    <3>1. side = "acceptor"
      BY <1>4, <1>8, <2>1, <2>3 DEF Entry, Sides
    <3>2. i = 1 /\ m = message
      BY <1>4, <1>8, <2>3, <3>1 DEF Entry
    <3> QED BY <2>3, <3>1, <3>2
  <2> QED BY <2>1, <2>2, <2>3
<1>9. Entry(k, "acceptor", 1, message)'
  BY <1>2, <1>4 DEF Entry, Sides
<1>10. Addressed(k, "acceptor", message)'
  BY <1>3 DEF Addressed, IsOpener, ThisProcess
<1>11. Adds(k, "acceptor", 1, message)
  BY <1>5, <1>7, <1>8, <1>9, <1>10 DEF Adds
<1> QED BY <1>11

LEMMA ArrivingAdds ==
  ASSUME SocketsInv, NEW c \in DOMAIN connections, NEW side \in Sides,
         NEW message \in MessagesTo(side), Arrives(c, side, message),
         UNCHANGED <<status, boot>>, Addressed(c, side, message)
  PROVE  \E d, other, j : Adds(d, other, j, message)
<1>1. PICK end \in EndsOn(side) :
        /\ EndIs(c, side, end) /\ end.state = connections[c].ends[side].state /\ IsOpen(end)
        /\ end.in = Append(connections[c].ends[side].in, message)
  BY DEF Arrives
<1>2. /\ DOMAIN connections' = DOMAIN connections
      /\ \A d \in DOMAIN connections : d # c => connections'[d] = connections[d]
      /\ connections'[c].ends[side] = end
      /\ connections'[c].ends[Other(side)] = connections[c].ends[Other(side)]
      /\ connections'[c].nodes = connections[c].nodes
      /\ connections'[c].waiting = connections[c].waiting
  BY <1>1, EndFacts DEF SocketsInv
<1>3. EndsInv(c)
  BY DEF SocketsInv, ConnectionsInv
<1>4. /\ connections[c].ends.opener.state # "opening"
      /\ connections'[c].ends.opener.state = connections[c].ends.opener.state
      /\ connections'[c].ends[side].state = connections[c].ends[side].state
      /\ connections'[c].ends[Other(side)].state = connections[c].ends[Other(side)].state
  <2>1. CASE side = "opener"
    BY <1>1, <1>2, <2>1 DEF Other, IsOpen
  <2>2. CASE side = "acceptor"
    BY <1>1, <1>2, <1>3, <2>2 DEF Other, IsOpen, EndsInv
  <2> QED BY <2>1, <2>2 DEF Sides
<1>5. PICK queue : queue = Queue(c, side)
  OBVIOUS
<1>6. /\ queue \in Seq(MessagesTo(side)) /\ Queue(c, side)' = Append(queue, message)
      /\ Queue(c, Other(side))' = Queue(c, Other(side))
  <2>1. queue \in Seq(MessagesTo(side))
    BY <1>5, QueueType DEF SocketsInv
  <2> QED BY <1>1, <1>2, <1>4, <1>5, <2>1 DEF Queue
<1>7. PICK k : k = Len(queue) + 1
  OBVIOUS
<1>8. \A s \in Sides : s = side \/ s = Other(side)
  BY DEF Sides, Other
<1>9. OpenersStay
  BY <1>2, <1>4 DEF OpenersStay
<1>10. ASSUME NEW d \in DOMAIN connections, NEW s \in Sides
       PROVE  CanBeRead(d, s)' => CanBeRead(d, s)
  <2>1. CASE d # c
    <3>1. connections'[d] = connections[d]
      BY <1>2, <2>1
    <3> QED BY <3>1 DEF CanBeRead, Readable, NodeOf
  <2>2. CASE d = c
    <3>1. connections'[c].ends[s].state = connections[c].ends[s].state
      BY <1>4, <1>8
    <3> QED BY <1>2, <1>4, <2>2, <3>1 DEF CanBeRead, Readable, NodeOf
  <2> QED BY <2>1, <2>2
<1>11. ASSUME NEW d \in DOMAIN connections, NEW s \in Sides, ~ (d = c /\ s = side)
       PROVE  Queue(d, s)' = Queue(d, s)
  <2>1. CASE d # c
    <3>1. connections'[d] = connections[d]
      BY <1>2, <2>1
    <3> QED BY <3>1 DEF Queue
  <2>2. CASE d = c
    BY <1>6, <1>8, <1>11, <2>2
  <2> QED BY <2>1, <2>2
<1>12. ASSUME NEW d, NEW s, NEW i, NEW m, Entry(d, s, i, m)'
       PROVE  \/ Entry(d, s, i, m) /\ (CanBeRead(d, s)' => CanBeRead(d, s))
              \/ d = c /\ s = side /\ i = k /\ m = message
  <2>1. d \in DOMAIN connections /\ s \in Sides
    BY <1>2, <1>12 DEF Entry
  <2>2. CASE d = c /\ s = side
    <3>1. i \in DOMAIN Append(queue, message) /\ m = Append(queue, message)[i]
      BY <1>6, <1>12, <2>2 DEF Entry
    <3>2. CASE i = k
      BY <1>6, <1>7, <2>2, <3>1, <3>2
    <3>3. CASE i # k
      <4>1. i \in DOMAIN queue /\ m = queue[i]
        BY <1>6, <1>7, <3>1, <3>3
      <4> QED BY <1>5, <1>10, <2>1, <2>2, <4>1 DEF Entry
    <3> QED BY <3>2, <3>3
  <2>3. CASE ~ (d = c /\ s = side)
    <3>1. Entry(d, s, i, m)
      BY <1>11, <1>12, <2>1, <2>3 DEF Entry
    <3> QED BY <1>10, <2>1, <3>1
  <2> QED BY <2>2, <2>3
<1>13. Keeps
  <2>1. ASSUME NEW d, NEW s, NEW i, NEW m, Entry(d, s, i, m) PROVE Entry(d, s, i, m)'
    <3>1. d \in DOMAIN connections /\ s \in Sides
      BY <2>1 DEF Entry
    <3>2. CASE d = c /\ s = side
      <4>1. i \in DOMAIN queue /\ m = queue[i]
        BY <1>5, <2>1, <3>2 DEF Entry
      <4>2. i \in DOMAIN Append(queue, message) /\ m = Append(queue, message)[i]
        BY <1>6, <4>1
      <4> QED BY <1>2, <1>6, <3>1, <3>2, <4>2 DEF Entry
    <3>3. CASE ~ (d = c /\ s = side)
      BY <1>2, <1>11, <2>1, <3>1, <3>3 DEF Entry
    <3> QED BY <3>2, <3>3
  <2> QED BY <2>1 DEF Keeps
<1>14. Entry(c, side, k, message)'
  <2>1. k \in DOMAIN Append(queue, message) /\ message = Append(queue, message)[k]
    BY <1>6, <1>7
  <2> QED BY <1>2, <1>6, <2>1 DEF Entry
<1>15. Addressed(c, side, message)'
  BY <1>2, <1>9, OpenerStays DEF Addressed
<1>16. Adds(c, side, k, message)
  BY <1>9, <1>12, <1>13, <1>14, <1>15 DEF Adds
<1> QED BY <1>16

LEMMA BouncingLoses ==
  ASSUME SocketsInv, NEW c \in DOMAIN connections, NEW side \in Sides, Bounces(c, side),
         UNCHANGED <<status, boot>>
  PROVE  Loses
<1>1. PICK end \in EndsOn(side) :
        /\ EndIs(c, side, end) /\ end.state = connections[c].ends[side].state
        /\ end.in = connections[c].ends[side].in
  BY DEF Bounces
<1>2. PICK ends : /\ Changes(c, ends) /\ ends[side] = end
                  /\ ends[Other(side)] = connections[c].ends[Other(side)]
  BY <1>1, EndChanges DEF SocketsInv
<1>3. /\ connections'[c].ends = ends /\ connections'[c].nodes = connections[c].nodes
      /\ connections'[c].waiting = connections[c].waiting
  BY <1>2, ChangesOne DEF SocketsInv
<1>4. \A s \in Sides : /\ ends[s].state = connections[c].ends[s].state
                       /\ ends[s].in = connections[c].ends[s].in
  <2>1. \A s \in Sides : s = side \/ s = Other(side)
    BY DEF Sides, Other
  <2> QED BY <1>1, <1>2, <2>1
<1>5. "opener" \in Sides
  BY DEF Sides
<1>6. \A s \in Sides : Queue(c, s)' = Queue(c, s) /\ (CanBeRead(c, s)' => CanBeRead(c, s))
  BY <1>3, <1>4, <1>5 DEF Queue, CanBeRead, Readable, NodeOf
<1> QED BY <1>2, <1>4, <1>5, <1>6, OneLoses DEF SocketsInv

LEMMA DataReads ==
  ASSUME SocketsInv, NEW c \in DOMAIN connections, NEW side \in Sides, NEW count,
         Data(c, side, count)
  PROVE  LET queue == connections[c].ends[side].in IN
         /\ count \in Nat \ {0} /\ Reads(c, side, count)
         /\ Entry(c, side, 1, Head(queue))
         /\ \A i \in 2..count : Entry(c, side, i, queue[i])
         /\ \A d, s, i, m : Entry(d, s, i, m) =>
              \/ m = Head(queue) \/ (i \in 2..count /\ m = queue[i])
              \/ \E j : Entry(d, s, j, m)'
<1> DEFINE end == connections[c].ends[side]
           queue == end.in
           rest == SubSeq(queue, count + 1, Len(queue))
<1>1. /\ end \in EndsOn(side) /\ queue \in Seq(MessagesTo(side))
      /\ end.state = "handled" /\ count \in 1..Len(queue)
  BY EndFields DEF SocketsInv, Data
<1>2. /\ rest \in Seq(MessagesTo(side)) /\ Len(rest) = Len(queue) - count
      /\ \A i \in 1..Len(rest) : rest[i] = queue[i + count]
      /\ count \in Nat \ {0} /\ Len(queue) \in Nat
      /\ DOMAIN queue = 1..Len(queue) /\ DOMAIN rest = 1..Len(rest)
      /\ Head(queue) = queue[1]
  BY <1>1
<1>3. PICK new : new = [end EXCEPT !.in = rest]
  OBVIOUS
<1>4. EndIs(c, side, new)
  BY <1>3 DEF Data, EndIs
<1>5. new \in EndsOn(side) /\ new.state = end.state /\ new.in = rest
  <2> HIDE DEF rest, end
  <2> QED BY <1>1, <1>2, <1>3, QueueSet
<1> HIDE DEF rest, queue
<1>6. /\ DOMAIN connections' = DOMAIN connections
      /\ \A d \in DOMAIN connections : d # c => connections'[d] = connections[d]
      /\ connections'[c].ends[side] = new
      /\ connections'[c].ends[Other(side)] = connections[c].ends[Other(side)]
      /\ connections'[c].nodes = connections[c].nodes
      /\ connections'[c].waiting = connections[c].waiting
  BY <1>4, <1>5, EndFacts DEF SocketsInv
<1>7. \A s \in Sides : s = side \/ s = Other(side)
  BY DEF Sides, Other
<1>8. /\ connections[c].ends.opener.state # "opening"
      /\ \A s \in Sides : connections'[c].ends[s].state = connections[c].ends[s].state
  <2>1. EndsInv(c)
    BY DEF SocketsInv, ConnectionsInv
  <2>2. connections[c].ends.opener.state # "opening"
    BY <1>1, <2>1 DEF EndsInv, Sides
  <2> QED BY <1>5, <1>6, <1>7, <2>2
<1>9. "opener" \in Sides
  BY DEF Sides
<1>10. /\ Queue(c, side) = queue /\ Queue(c, side)' = rest
       /\ Queue(c, Other(side))' = Queue(c, Other(side))
  <2>1. connections'[c].ends.opener.state # "opening"
    BY <1>8, <1>9
  <2> QED BY <1>5, <1>6, <1>8, <2>1 DEF Queue, queue
<1>11. OpenersStay
  BY <1>6, <1>8, <1>9 DEF OpenersStay, Data
<1>12. ASSUME NEW d \in DOMAIN connections, NEW s \in Sides
       PROVE  /\ CanBeRead(d, s)' => CanBeRead(d, s)
              /\ ~ (d = c /\ s = side) => Queue(d, s)' = Queue(d, s)
  <2>1. CASE d # c
    <3>1. connections'[d] = connections[d]
      BY <1>6, <2>1
    <3> QED BY <2>1, <3>1 DEF CanBeRead, Readable, NodeOf, Queue, Data
  <2>2. CASE d = c
    <3>1. s = side \/ Queue(d, s)' = Queue(d, s)
      BY <1>7, <1>10, <2>2
    <3>2. CanBeRead(d, s)' => CanBeRead(d, s)
      BY <1>6, <1>8, <1>9, <2>2 DEF CanBeRead, Readable, NodeOf, Data
    <3> QED BY <2>2, <3>1, <3>2
  <2> QED BY <2>1, <2>2
<1>13. Reads(c, side, count)
  <2>1. ASSUME NEW d, NEW s, NEW i, NEW m, Entry(d, s, i, m)'
        PROVE  /\ i \in Nat \ {0} /\ (CanBeRead(d, s)' => CanBeRead(d, s))
               /\ d = c /\ s = side => Entry(d, s, i + count, m)
               /\ d # c \/ s # side => Entry(d, s, i, m)
    <3>1. d \in DOMAIN connections /\ s \in Sides
      BY <1>6, <2>1 DEF Entry
    <3>2. CASE d = c /\ s = side
      <4>1. i \in 1..Len(rest) /\ m = rest[i]
        BY <1>2, <1>10, <2>1, <3>2 DEF Entry
      <4>2. i + count \in 1..Len(queue) /\ m = queue[i + count] /\ i \in Nat \ {0}
        BY <1>1, <1>2, <4>1
      <4>3. Entry(d, s, i + count, m)
        BY <1>2, <1>10, <3>1, <3>2, <4>2 DEF Entry
      <4> QED BY <1>12, <3>1, <3>2, <4>2, <4>3
    <3>3. CASE ~ (d = c /\ s = side)
      <4>1. Entry(d, s, i, m)
        BY <1>12, <2>1, <3>1, <3>3 DEF Entry
      <4>2. i \in Nat \ {0}
        BY <4>1, EntryType DEF SocketsInv
      <4> QED BY <1>12, <3>1, <3>3, <4>1, <4>2
    <3> QED BY <3>2, <3>3
  <2> QED BY <1>11, <2>1 DEF Reads
<1>14. \A i \in 1..count : Entry(c, side, i, queue[i])
  BY <1>1, <1>2, <1>10 DEF Entry
<1>15. ASSUME NEW d, NEW s, NEW i, NEW m, Entry(d, s, i, m)
       PROVE  \/ m = queue[1] \/ (i \in 2..count /\ m = queue[i])
              \/ \E j : Entry(d, s, j, m)'
  <2>1. d \in DOMAIN connections /\ s \in Sides
    BY <1>15 DEF Entry
  <2>2. CASE d = c /\ s = side
    <3>1. i \in 1..Len(queue) /\ m = queue[i]
      BY <1>2, <1>10, <1>15, <2>2 DEF Entry
    <3>2. CASE i <= count
      BY <1>2, <3>1, <3>2
    <3>3. CASE ~ i <= count
      <4>1. PICK j : j = i - count
        OBVIOUS
      <4>2. j \in 1..Len(rest) /\ m = rest[j]
        BY <1>1, <1>2, <3>1, <3>3, <4>1
      <4>3. Entry(d, s, j, m)'
        BY <1>2, <1>6, <1>10, <2>1, <2>2, <4>2 DEF Entry
      <4> QED BY <4>3
    <3> QED BY <3>2, <3>3
  <2>3. CASE ~ (d = c /\ s = side)
    <3>1. Entry(d, s, i, m)'
      BY <1>6, <1>12, <1>15, <2>1, <2>3 DEF Entry
    <3> QED BY <3>1
  <2> QED BY <2>2, <2>3
<1> QED BY <1>2, <1>13, <1>14, <1>15 DEF queue

-----------------------------------------------------------------------------
(* Each action keeps the messages in order.                                 *)
TransportInv == SocketsInv /\ MessagesInv

SocketsStay == \A node \in Node : \A e \in DOMAIN sockets[node] : e \in DOMAIN sockets'[node]

LEMMA RepliesStay ==
  ASSUME ServersInv, RepliesInv, OpenersStay, owed' \subseteq owed, received' = received,
         \A message \in sent' : \/ message \in sent
                                \/ message.kind = "reply" => WasAsked(message),
         \A answer \in owed' : answer.reply \in sent' => answer.reply \in sent,
         departures' = 0 => departures = 0 /\ SocketsStay
  PROVE  RepliesInv'
<1>1. \A reply : WasAsked(reply)' <=> WasAsked(reply)
  BY DEF WasAsked
<1>2. ASSUME NEW answer \in owed, NEW c, c = answer.endpoint[2]
      PROVE  /\ answer.reply \in Replies /\ answer.endpoint \in Node \X (1..MaxConnections)
             /\ WasAsked(answer.reply) /\ answer.reply \notin sent
             /\ c \in DOMAIN connections'
             /\ connections'[c].nodes = connections[c].nodes
             /\ answer.endpoint = Ephemeral(connections[c].nodes.opener, c)
             /\ IsOpener(c, answer.reply.to)'
             /\ departures = 0 => Has(answer.reply.from.node, answer.endpoint)
  <2>1. /\ answer.reply \in Replies /\ answer.endpoint \in Node \X (1..MaxConnections)
        /\ WasAsked(answer.reply) /\ answer.reply \notin sent
        /\ c \in DOMAIN connections
        /\ answer.endpoint = Ephemeral(connections[c].nodes.opener, c)
        /\ IsOpener(c, answer.reply.to)
        /\ departures = 0 => Has(answer.reply.from.node, answer.endpoint)
    BY <1>2 DEF RepliesInv
  <2>2. /\ c \in DOMAIN connections' /\ IsOpener(c, answer.reply.to)'
        /\ connections'[c].nodes = connections[c].nodes
    BY <2>1, OpenerStays DEF OpenersStay
  <2> QED BY <2>1, <2>2
<1>3. ASSUME NEW answer \in owed PROVE answer.reply.from.node \in Node
  BY <1>2, MessageKinds DEF Processes
<1>4. ASSUME NEW answer \in owed'
      PROVE  (LET c == answer.endpoint[2] IN
              /\ WasAsked(answer.reply)
              /\ answer.reply \notin sent
              /\ c \in DOMAIN connections
              /\ answer.endpoint = Ephemeral(connections[c].nodes.opener, c)
              /\ IsOpener(c, answer.reply.to)
              /\ departures = 0 => Has(answer.reply.from.node, answer.endpoint))'
  <2>1. PICK c : c = answer.endpoint[2]
    OBVIOUS
  <2>2. answer \in owed
    OBVIOUS
  <2>3. departures' = 0 => Has(answer.reply.from.node, answer.endpoint)'
    BY <1>2, <1>3, <2>1, <2>2 DEF Has, SocketsStay
  <2>4. answer.reply \notin sent'
    BY <1>2, <2>1, <2>2
  <2>5. /\ WasAsked(answer.reply)' /\ c \in DOMAIN connections'
        /\ answer.endpoint = Ephemeral(connections'[c].nodes.opener, c)
        /\ IsOpener(c, answer.reply.to)'
    BY <1>1, <1>2, <2>1, <2>2
  <2> QED BY <2>1, <2>3, <2>4, <2>5 DEF Ephemeral
<1>5. owed' \subseteq [reply : Replies, endpoint : Node \X (1..MaxConnections)]
  BY DEF RepliesInv
<1>6. \A message \in sent' : message.kind = "reply" => WasAsked(message)'
  BY <1>1 DEF RepliesInv
<1>7. \A a, b \in owed' : a.reply.id = b.reply.id => a = b
  BY DEF RepliesInv
<1> QED BY <1>4, <1>5, <1>6, <1>7 DEF RepliesInv

LEMMA LosingMessages ==
  ASSUME TransportInv, Loses, UNCHANGED <<sent, received, merged>>, owed' \subseteq owed,
         departures' = 0 => departures = 0 /\ Keeps /\ SocketsStay
  PROVE  MessagesInv'
<1>1. HistoryInv'
  BY DEF TransportInv, MessagesInv, HistoryInv, SentRequests
<1>2. RepliesInv'
  BY RepliesStay DEF TransportInv, MessagesInv, SocketsInv, Loses
<1>3. QueuesInv'
  BY LosingQueues DEF TransportInv, MessagesInv, SocketsInv
<1>4. LossInv'
  <2> SUFFICES ASSUME departures' = 0, NEW message \in sent,
                      ~ message \in merged, ~ WasReceived(message)
               PROVE  \E c, side, i : Entry(c, side, i, message)'
    BY DEF LossInv, WasReceived
  <2>1. PICK c, side, i : Entry(c, side, i, message)
    BY DEF TransportInv, MessagesInv, LossInv
  <2>2. Entry(c, side, i, message)'
    BY <2>1 DEF Keeps
  <2> QED BY <2>2
<1> QED BY <1>1, <1>2, <1>3, <1>4 DEF MessagesInv

(* A message is sent that was not sent before.                              *)
LEMMA SendingMessages ==
  ASSUME TransportInv, NEW new, new \notin sent, sent' = sent \cup {new},
         UNCHANGED <<received, merged, departures>>, owed' \subseteq owed,
         HistoryInv', new.kind = "reply" => WasAsked(new),
         \A answer \in owed' : answer.reply # new,
         \/ \E d, other, j : Adds(d, other, j, new) /\ SocketsStay
         \/ departures # 0 /\ Loses
  PROVE  MessagesInv'
<1>1. /\ ServersInv /\ ConnectionsInv /\ RepliesInv /\ QueuesInv /\ LossInv /\ HistoryInv
      /\ OpenersStay
  BY DEF TransportInv, MessagesInv, SocketsInv, Adds, Loses
<1>2. RepliesInv'
  <2>1. \A message \in sent' : \/ message \in sent
                               \/ message.kind = "reply" => WasAsked(message)
    OBVIOUS
  <2>2. \A answer \in owed' : answer.reply \in sent' => answer.reply \in sent
    OBVIOUS
  <2> QED BY <1>1, <2>1, <2>2, RepliesStay
<1>3. CASE departures # 0 /\ Loses
  <2>1. QueuesInv'
    BY <1>1, <1>3, LosingQueues
  <2>2. LossInv'
    BY <1>3 DEF LossInv
  <2> QED BY <1>2, <2>1, <2>2 DEF MessagesInv
<1>4. ASSUME NEW d, NEW other, NEW j, Adds(d, other, j, new)
      PROVE  MessagesInv'
  <2>1. QueuesInv'
    BY <1>1, <1>4, AddingQueues
  <2>2. LossInv'
    <3> SUFFICES ASSUME departures = 0, NEW message \in sent',
                        ~ message \in merged, ~ WasReceived(message)
                 PROVE  \E c, side, i : Entry(c, side, i, message)'
      BY DEF LossInv, WasReceived
    <3>1. CASE message = new
      BY <1>4, <3>1 DEF Adds
    <3>2. CASE message \in sent
      <4>1. PICK c, side, i : Entry(c, side, i, message)
        BY <1>1, <3>2 DEF LossInv
      <4>2. Entry(c, side, i, message)'
        BY <1>4, <4>1 DEF Adds, Keeps
      <4> QED BY <4>2
    <3> QED BY <3>1, <3>2
  <2> QED BY <1>2, <2>1, <2>2 DEF MessagesInv
<1> QED BY <1>3, <1>4

(* What a write does to the messages.                                       *)
LEMMA WritingMoves ==
  ASSUME SocketsInv, NEW node \in Node, NEW c \in DOMAIN connections, NEW side \in Sides,
         SideOf(node, c) = side, connections[c].ends[side].state \in {"handled", "reset"},
         NEW message \in MessagesTo(Other(side)), Write(node, c, message),
         Addressed(c, Other(side), message)
  PROVE  /\ \/ \E d, other, j : Adds(d, other, j, message) /\ SocketsStay
            \/ departures # 0 /\ Loses
         /\ \/ owed' = {answer \in owed : answer.reply.from.node # node}
            \/ owed' = {answer \in owed : answer.reply # message}
<1>1. CASE Dies(node)
  <2>1. Loses
    BY <1>1, DyingLoses DEF Dies
  <2> QED BY <1>1, <2>1 DEF Dies, Die
<1>2. CASE /\ Arrives(c, Other(side), message) /\ UNCHANGED <<status, boot, sockets>>
           /\ owed' = {answer \in owed : answer.reply # message}
  <2>1. Other(side) \in Sides
    BY DEF Other, Sides
  <2>2. PICK far : far = Other(side)
    OBVIOUS
  <2>3. \E d, other, j : Adds(d, other, j, message)
    BY <1>2, <2>1, <2>2, ArrivingAdds
  <2> QED BY <1>2, <2>3 DEF SocketsStay
<1>3. CASE /\ departures # 0 /\ Bounces(c, side) /\ UNCHANGED <<status, boot>>
           /\ owed' = {answer \in owed : answer.reply # message}
  BY <1>3, BouncingLoses
<1> QED BY <1>1, <1>2, <1>3, WriteCases

(* What the sends do to the messages on their way.                          *)
LEMMA RequestMoves ==
  ASSUME TransportInv, NEW node \in Node, NEW peer \in Node, SendRequest(node, peer),
         NEW message, message = Request(node, peer)
  PROVE  /\ message \in Requests /\ message \in Messages /\ message \notin sent
         /\ message.kind = "request" /\ message.id = Cardinality(SentRequests) + 1
         /\ Cardinality(SentRequests) \in Nat
         /\ sent' = sent \cup {message}
         /\ UNCHANGED <<received, merged, departures>>
         /\ owed' \subseteq owed
         /\ \/ \E d, other, j : Adds(d, other, j, message) /\ SocketsStay
            \/ departures # 0 /\ Loses
<1>2. SocketsInv /\ HistoryInv /\ RepliesInv /\ ServersInv
  BY DEF TransportInv, MessagesInv, SocketsInv
<1>3. /\ message \in Requests /\ message.id = Cardinality(SentRequests) + 1
      /\ Cardinality(SentRequests) \in Nat
  BY <1>2, RequestType DEF SendRequest
<1>4. /\ message.from = ThisProcess(node) /\ message.to.node = peer
      /\ message.kind = "request"
  BY DEF Request
<1>5. /\ sent' = sent \cup {message}
      /\ UNCHANGED <<received, merged, departures>>
  BY DEF SendRequest
<1>6. message \notin sent /\ message \in Messages
  <2>1. \A m \in sent : m.id <= Cardinality(SentRequests)
    BY <1>2 DEF HistoryInv
  <2> QED BY <1>3, <2>1, MessageKinds
<1>7. /\ owed' \subseteq owed
      /\ \/ \E d, other, j : Adds(d, other, j, message) /\ SocketsStay
         \/ departures # 0 /\ Loses
  <2>1. CASE Has(node, Listening(peer))
    <3>1. PICK c : c = sockets[node][Listening(peer)]
      OBVIOUS
    <3>2. /\ c \in DOMAIN connections /\ SideOf(node, c) = "opener"
          /\ connections[c].nodes.opener = node /\ connections[c].nodes.acceptor = peer
          /\ connections[c].ends.opener.state \in {"handled", "reset"}
      BY <1>2, <2>1, <3>1, RequestSocket
    <3>3. Write(node, c, message)
      BY <2>1, <3>1 DEF SendRequest
    <3>4. "opener" \in Sides /\ Other("opener") = "acceptor" /\ message \in MessagesTo("acceptor")
      BY <1>3 DEF Sides, Other, MessagesTo
    <3>5. Addressed(c, "acceptor", message)
      BY <1>4, <3>2 DEF Addressed, IsOpener
    <3>6. /\ \/ \E d, other, j : Adds(d, other, j, message) /\ SocketsStay
             \/ departures # 0 /\ Loses
          /\ \/ owed' = {answer \in owed : answer.reply.from.node # node}
             \/ owed' = {answer \in owed : answer.reply # message}
      BY <1>2, <3>2, <3>3, <3>4, <3>5, WritingMoves
    <3> QED BY <3>6
  <2>2. CASE ~ Has(node, Listening(peer))
    <3>1. /\ node # peer /\ Alive(node) /\ Len(connections) < MaxConnections
          /\ connections' = Append(connections, NewConnection(node, peer, message))
          /\ UNCHANGED <<status, boot, sockets, numConnections, departures, owed>>
      BY <2>2 DEF SendRequest, processVars
    <3>2. \E d, other, j : Adds(d, other, j, message)
      BY <1>2, <1>3, <1>4, <3>1, OpeningAdds
    <3> QED BY <3>1, <3>2 DEF SocketsStay
  <2> QED BY <2>1, <2>2
<1> QED BY <1>3, <1>4, <1>5, <1>6, <1>7

LEMMA SendRequestMessages ==
  ASSUME TransportInv, NEW node \in Node, NEW peer \in Node, SendRequest(node, peer)
  PROVE  MessagesInv'
<1>1. PICK message : message = Request(node, peer)
  OBVIOUS
<1>2. HistoryInv /\ RepliesInv
  BY DEF TransportInv, MessagesInv
<1>3. /\ message \in Messages /\ message \notin sent
      /\ message.kind = "request" /\ message.id = Cardinality(SentRequests) + 1
      /\ Cardinality(SentRequests) \in Nat
      /\ sent' = sent \cup {message}
      /\ UNCHANGED <<received, merged, departures>>
      /\ owed' \subseteq owed
      /\ \/ \E d, other, j : Adds(d, other, j, message) /\ SocketsStay
         \/ departures # 0 /\ Loses
  BY <1>1, RequestMoves
<1>4. HistoryInv'
  <2>1. SentRequests' = SentRequests \cup {message}
    BY <1>3 DEF SentRequests
  <2>2. /\ IsFiniteSet(SentRequests')
        /\ Cardinality(SentRequests') = Cardinality(SentRequests) + 1
    <3>1. IsFiniteSet(SentRequests) /\ message \notin SentRequests
      BY <1>2, <1>3 DEF HistoryInv, SentRequests
    <3> QED BY <2>1, <3>1, FS_AddElement
  <2>3. \A m \in sent' : m.id <= Cardinality(SentRequests')
    <3>1. \A m \in sent : m.id \in 1..MaxRequests /\ m.id <= Cardinality(SentRequests)
      BY <1>2, MessageKinds DEF HistoryInv
    <3> QED BY <1>3, <2>2, <3>1, BoundsAssumption
  <2>4. \A m, n \in SentRequests' : m.id = n.id => m = n
    <3>1. \A m \in SentRequests : m.id # message.id
      <4>1. \A m \in SentRequests : m.id \in 1..MaxRequests /\ m.id <= Cardinality(SentRequests)
        BY <1>2, MessageKinds DEF HistoryInv, SentRequests
      <4> QED BY <1>3, <4>1, BoundsAssumption
    <3>2. \A m, n \in SentRequests : m.id = n.id => m = n
      BY <1>2 DEF HistoryInv
    <3> QED BY <2>1, <3>1, <3>2
  <2>5. /\ sent' \subseteq Messages
        /\ received' \subseteq [message : Messages, by : Processes]
        /\ \A receipt \in received' : receipt.message \in sent'
        /\ merged' \subseteq sent'
    BY <1>2, <1>3 DEF HistoryInv
  <2> QED BY <2>2, <2>3, <2>4, <2>5 DEF HistoryInv
<1>5. \A answer \in owed : answer.reply # message
  BY <1>2, <1>3, MessageKinds DEF RepliesInv
<1> QED BY <1>3, <1>4, <1>5, SendingMessages

LEMMA ReplyMoves ==
  ASSUME TransportInv, NEW node \in Node, NEW answer \in owed, SendReply(node, answer),
         NEW message, message = answer.reply
  PROVE  /\ message \in Replies /\ message \in Messages /\ message \notin sent
         /\ message.kind = "reply" /\ message.id \in 1..MaxRequests
         /\ WasAsked(message)
         /\ sent' = sent \cup {message}
         /\ UNCHANGED <<received, merged, departures>>
         /\ owed' \subseteq owed /\ \A a \in owed' : a.reply # message
         /\ \/ \E d, other, j : Adds(d, other, j, message) /\ SocketsStay
            \/ departures # 0 /\ Loses
<1>2. SocketsInv /\ HistoryInv /\ RepliesInv /\ ServersInv
  BY DEF TransportInv, MessagesInv, SocketsInv
<1>3. /\ message \in Replies /\ message \notin sent /\ WasAsked(message)
      /\ departures = 0 => Has(message.from.node, answer.endpoint)
      /\ \A a \in owed : a.reply = message => a = answer
  BY <1>2 DEF RepliesInv
<1>4. /\ message \in Messages /\ message.kind = "reply" /\ message.id \in 1..MaxRequests
  BY <1>3, MessageKinds
<1>5. /\ sent' = sent \cup {message}
      /\ UNCHANGED <<received, merged, departures>>
      /\ message.from.node = node
  BY DEF SendReply
<1>6. /\ owed' \subseteq owed
      /\ \A a \in owed' : a.reply # message
      /\ \/ \E d, other, j : Adds(d, other, j, message) /\ SocketsStay
         \/ departures # 0 /\ Loses
  <2>1. CASE Has(node, answer.endpoint)
    <3>1. PICK c : c = sockets[node][answer.endpoint]
      OBVIOUS
    <3>2. /\ c \in DOMAIN connections /\ SideOf(node, c) = "acceptor"
          /\ connections[c].ends.acceptor.state = "handled"
          /\ IsOpener(c, message.to)
      BY <1>2, <2>1, <3>1, ReplySocket
    <3>3. Write(node, c, message)
      BY <2>1, <3>1 DEF SendReply
    <3>4. "acceptor" \in Sides /\ Other("acceptor") = "opener" /\ message \in MessagesTo("opener")
      BY <1>3 DEF Sides, Other, MessagesTo
    <3>5. Addressed(c, "opener", message)
      BY <3>2 DEF Addressed
    <3>6. /\ \/ \E d, other, j : Adds(d, other, j, message) /\ SocketsStay
             \/ departures # 0 /\ Loses
          /\ \/ owed' = {a \in owed : a.reply.from.node # node}
             \/ owed' = {a \in owed : a.reply # message}
      BY <1>2, <3>2, <3>3, <3>4, <3>5, WritingMoves
    <3> QED BY <1>5, <3>6
  <2>2. CASE ~ Has(node, answer.endpoint)
    <3>1. owed' = owed \ {answer} /\ UNCHANGED <<status, boot, sockets, connections>>
      BY <2>2 DEF SendReply
    <3>2. departures # 0
      BY <1>3, <1>5, <2>2
    <3>3. Loses
      BY <3>1 DEF Loses, OpenersStay, Entry, Queue, CanBeRead, Readable, NodeOf
    <3> QED BY <1>3, <3>1, <3>2, <3>3
  <2> QED BY <2>1, <2>2
<1> QED BY <1>3, <1>4, <1>5, <1>6

LEMMA SendReplyMessages ==
  ASSUME TransportInv, NEW node \in Node, NEW answer \in owed, SendReply(node, answer)
  PROVE  MessagesInv'
<1>1. PICK message : message = answer.reply
  OBVIOUS
<1>2. HistoryInv
  BY DEF TransportInv, MessagesInv
<1>3. /\ message \in Messages /\ message \notin sent
      /\ message.kind = "reply" /\ message.id \in 1..MaxRequests
      /\ WasAsked(message)
      /\ sent' = sent \cup {message}
      /\ UNCHANGED <<received, merged, departures>>
      /\ owed' \subseteq owed /\ \A a \in owed' : a.reply # message
      /\ \/ \E d, other, j : Adds(d, other, j, message) /\ SocketsStay
         \/ departures # 0 /\ Loses
  BY <1>1, ReplyMoves
<1>4. HistoryInv'
  <2>1. SentRequests' = SentRequests
    BY <1>3 DEF SentRequests
  <2>2. message.id <= Cardinality(SentRequests)
    <3>1. PICK receipt \in received : /\ receipt.message.kind = "request"
                                      /\ receipt.message.id = message.id
      BY <1>3 DEF WasAsked
    <3>2. receipt.message \in sent
      BY <1>2 DEF HistoryInv
    <3> QED BY <1>2, <3>1, <3>2 DEF HistoryInv
  <2> QED BY <1>2, <1>3, <2>1, <2>2 DEF HistoryInv
<1> QED BY <1>3, <1>4, SendingMessages

LEMMA DataMessages ==
  ASSUME TransportInv, NEW c \in DOMAIN connections, NEW side \in Sides, NEW count,
         Data(c, side, count)
  PROVE  MessagesInv'
<1>1. /\ SocketsInv /\ HistoryInv /\ RepliesInv /\ QueuesInv /\ LossInv
      /\ ServersInv /\ ConnectionsInv /\ RegistryInv
  BY DEF TransportInv, MessagesInv, SocketsInv
<1>2. PICK node, message, queue :
        /\ node = NodeOf(c, side) /\ queue = connections[c].ends[side].in
        /\ message = Head(queue)
  OBVIOUS
<1>3. /\ count \in Nat \ {0} /\ Reads(c, side, count)
      /\ Entry(c, side, 1, message)
      /\ \A i \in 2..count : Entry(c, side, i, queue[i])
      /\ \A d, s, i, m : Entry(d, s, i, m) =>
           \/ m = message \/ (i \in 2..count /\ m = queue[i])
           \/ \E j : Entry(d, s, j, m)'
  BY <1>1, <1>2, DataReads
<1>4. /\ message \in sent /\ ~ WasReceived(message) /\ Addressed(c, side, message)
      /\ \A i \in 2..count : queue[i] \in sent
  BY <1>1, <1>3 DEF QueuesInv
<1>5. node \in Node /\ message \in MessagesTo(side) /\ message \in Messages
  BY <1>1, <1>2, <1>3, <1>4, EntryType, EndFields DEF HistoryInv
<1>6. PICK receipt, answer :
        /\ receipt = [message |-> message, by |-> ThisProcess(node)]
        /\ answer = [reply |-> Reply(node, message), endpoint |-> PeerEndpoint(c, side)]
  OBVIOUS
<1>7. /\ merged' = merged \cup {queue[i] : i \in 2..count}
      /\ \/ /\ status[node] = "up"
            /\ received' = received \cup {receipt}
            /\ owed' = owed \cup (IF message.kind = "request" THEN {answer} ELSE {})
         \/ status[node] # "up" /\ UNCHANGED <<received, owed>>
      /\ UNCHANGED <<status, boot, sockets, numConnections, sent, departures>>
  BY <1>2, <1>6 DEF Data
<1>8. /\ receipt.message = message /\ receipt.by = ThisProcess(node)
      /\ answer.reply = Reply(node, message) /\ answer.endpoint = PeerEndpoint(c, side)
      /\ answer \in [reply : {Reply(node, message)}, endpoint : {PeerEndpoint(c, side)}]
  BY <1>6
<1>9. ThisProcess(node) \in Processes
  BY <1>1, <1>5, ProcessType
<1>10. HistoryInv'
  <2>1. receipt \in [message : Messages, by : Processes]
    BY <1>5, <1>6, <1>9
  <2>2. /\ received' \subseteq [message : Messages, by : Processes]
        /\ \A r \in received' : r.message \in sent
    BY <1>1, <1>4, <1>7, <1>8, <2>1 DEF HistoryInv
  <2>3. merged' \subseteq sent
    BY <1>1, <1>4, <1>7 DEF HistoryInv
  <2> QED BY <1>1, <1>7, <2>2, <2>3 DEF HistoryInv, SentRequests
<1>11. QueuesInv'
  <2>1. \A r \in received' \ received : r.message = message
    BY <1>7, <1>8
  <2> QED BY <1>1, <1>3, <1>7, <2>1, ReadingQueues
<1>12. LossInv'
  <2> SUFFICES ASSUME departures = 0, NEW m \in sent, m \notin merged', ~ WasReceived(m)'
               PROVE  \E d, s, i : Entry(d, s, i, m)'
    BY <1>7 DEF LossInv
  <2>1. status[node] = "up"
    BY <1>1, <1>5 DEF SocketsInv, PeaceInv
  <2>2. m # message
    BY <1>7, <1>8, <2>1 DEF WasReceived
  <2>3. m \notin merged /\ ~ WasReceived(m)
    BY <1>7 DEF WasReceived
  <2>4. PICK d, s, i : Entry(d, s, i, m)
    BY <1>1, <2>3 DEF LossInv
  <2>5. ~ (i \in 2..count /\ m = queue[i])
    BY <1>7
  <2> QED BY <1>3, <2>2, <2>4, <2>5
<1>13. RepliesInv'
  <2>1. \A reply : WasAsked(reply) => WasAsked(reply)'
    BY <1>7 DEF WasAsked
  <2>2. /\ DOMAIN connections \subseteq DOMAIN connections'
        /\ \A d \in DOMAIN connections : connections'[d].nodes = connections[d].nodes
        /\ \A d \in DOMAIN connections : \A process : IsOpener(d, process) => IsOpener(d, process)'
    BY <1>3, OpenerStays DEF Reads, OpenersStay
  <2>3. ASSUME NEW a \in owed
        PROVE  LET d == a.endpoint[2] IN
               /\ WasAsked(a.reply)' /\ a.reply \notin sent /\ d \in DOMAIN connections'
               /\ a.endpoint = Ephemeral(connections'[d].nodes.opener, d)
               /\ IsOpener(d, a.reply.to)'
               /\ departures = 0 => Has(a.reply.from.node, a.endpoint)
    BY <1>1, <2>1, <2>2 DEF RepliesInv
  <2>4. CASE owed' = owed
    <3>1. \A m \in sent : m.kind = "reply" => WasAsked(m)'
      BY <1>1, <2>1 DEF RepliesInv
    <3>2. /\ owed \subseteq [reply : Replies, endpoint : Node \X (1..MaxConnections)]
          /\ \A a, b \in owed : a.reply.id = b.reply.id => a = b
      BY <1>1 DEF RepliesInv
    <3> QED BY <1>7, <2>3, <2>4, <3>1, <3>2 DEF RepliesInv, Has, Ephemeral
  <2>5. CASE /\ message.kind = "request" /\ owed' = owed \cup {answer}
             /\ received' = received \cup {receipt}
    <3>1. side = "acceptor" /\ message \in Requests
      BY <1>5, <2>5, MessageKinds DEF MessagesTo, Sides
    <3>2. PICK reply : reply = Reply(node, message)
      OBVIOUS
    <3>3. reply = [kind |-> "reply", id |-> message.id, from |-> ThisProcess(node),
                   to |-> message.from]
      BY <3>2 DEF Reply
    <3>4. message.id \in 1..MaxRequests /\ message.from \in Processes
      BY <3>1, MessageKinds
    <3>5. reply \in Replies
      BY <1>9, <3>3, <3>4 DEF Replies
    <3>6. /\ c \in Nat /\ c \in 1..MaxConnections
          /\ connections[c].nodes.opener \in Node
          /\ answer.endpoint = Ephemeral(connections[c].nodes.opener, c)
          /\ node = connections[c].nodes.acceptor
      <4>1. c \in 1..Len(connections) /\ Len(connections) <= MaxConnections /\ c \in Nat
        BY <1>1, ConnectionFields DEF ConnectionsInv
      <4>2. c \in 1..MaxConnections
        BY <1>1, <4>1, BoundsAssumption DEF ConnectionsInv
      <4> QED BY <1>1, <1>2, <1>8, <3>1, <4>1, <4>2, ConnectionFields DEF PeerEndpoint, NodeOf
    <3>7. /\ answer.reply = reply /\ answer.endpoint[2] = c
          /\ answer.endpoint \in Node \X (1..MaxConnections)
      BY <1>8, <3>2, <3>6 DEF Ephemeral
    <3>8. answer \in [reply : Replies, endpoint : Node \X (1..MaxConnections)]
      BY <1>6, <1>8, <3>2, <3>5, <3>7
    <3>9. /\ reply.id = message.id /\ reply.from = ThisProcess(node)
          /\ reply.to = message.from /\ reply.kind = "reply"
      BY <3>3
    <3>10. WasAsked(reply)'
      BY <1>8, <2>5, <3>9 DEF WasAsked
    <3>11. ASSUME NEW r, WasAsked(r), r.id = message.id PROVE FALSE
      <4>1. PICK other \in received : other.message.kind = "request" /\ other.message.id = r.id
        BY <3>11 DEF WasAsked
      <4>2. other.message \in SentRequests /\ message \in SentRequests
        BY <1>1, <1>4, <2>5, <4>1 DEF HistoryInv, SentRequests
      <4>3. other.message = message
        BY <1>1, <3>11, <4>1, <4>2 DEF HistoryInv
      <4> QED BY <1>4, <4>3 DEF WasReceived
    <3>12. reply \notin sent
      BY <1>1, <3>9, <3>11 DEF RepliesInv
    <3>13. \A a \in owed : a.reply.id # message.id
      BY <1>1, <3>11 DEF RepliesInv
    <3>14. IsOpener(c, reply.to)'
      BY <1>4, <2>2, <3>1, <3>9 DEF Addressed
    <3>15. Has(reply.from.node, answer.endpoint)
      <4>1. connections[c].ends.acceptor.state = "handled"
        BY <3>1 DEF Data
      <4>2. IsRegistered(node, answer.endpoint, c)
        BY <1>1, <3>6, <4>1 DEF RegistryInv
      <4>3. reply.from.node = node
        BY <3>9 DEF ThisProcess
      <4> QED BY <4>2, <4>3 DEF IsRegistered
    <3>16. \A m \in sent : m.kind = "reply" => WasAsked(m)'
      BY <1>1, <2>1 DEF RepliesInv
    <3>17. ASSUME NEW a \in owed'
           PROVE  LET d == a.endpoint[2] IN
                  /\ WasAsked(a.reply)' /\ a.reply \notin sent /\ d \in DOMAIN connections'
                  /\ a.endpoint = Ephemeral(connections'[d].nodes.opener, d)
                  /\ IsOpener(d, a.reply.to)'
                  /\ departures = 0 => Has(a.reply.from.node, a.endpoint)
      <4>1. CASE a \in owed
        BY <2>3, <4>1
      <4>2. CASE a = answer
        BY <2>2, <3>6, <3>7, <3>10, <3>12, <3>14, <3>15, <4>2
      <4> QED BY <2>5, <4>1, <4>2
    <3>18. /\ owed' \subseteq [reply : Replies, endpoint : Node \X (1..MaxConnections)]
           /\ \A a, b \in owed' : a.reply.id = b.reply.id => a = b
      <4>1. /\ owed \subseteq [reply : Replies, endpoint : Node \X (1..MaxConnections)]
            /\ \A a, b \in owed : a.reply.id = b.reply.id => a = b
        BY <1>1 DEF RepliesInv
      <4> QED BY <2>5, <3>7, <3>8, <3>9, <3>13, <4>1
    <3> QED BY <1>7, <3>16, <3>17, <3>18 DEF RepliesInv, Has, Ephemeral
  <2> QED BY <1>7, <2>4, <2>5
<1> QED BY <1>10, <1>11, <1>12, <1>13 DEF MessagesInv

(* Steps that lose everything, or nothing, of what an end had.              *)
LEMMA SavingStays ==
  ASSUME ServersInv, NEW node \in Node, NEW endpoint, NEW c, Save(node, endpoint, c)
  PROVE  SocketsStay
<1>1. /\ \A n \in Node : n # node => sockets'[n] = sockets[n]
      /\ sockets'[node] = With(sockets[node], endpoint, c)
  BY DEF Save, ServersInv
<1>2. DOMAIN sockets[node] \subseteq DOMAIN With(sockets[node], endpoint, c)
  BY DEF With
<1> QED BY <1>1, <1>2 DEF SocketsStay

LEMMA ConnectedMessages ==
  ASSUME TransportInv, NEW c \in DOMAIN connections, Connected(c)
  PROVE  MessagesInv'
<1>1. SocketsInv /\ ServersInv
  BY DEF TransportInv, SocketsInv
<1>2. Loses /\ Keeps
  BY <1>1, ConnectedLoses
<1>3. "opener" \in Sides /\ NodeOf(c, "opener") \in Node
  BY <1>1, EndFields DEF SocketsInv, Sides
<1>4. SocketsStay
  <2>1. \/ sockets' = sockets
        \/ Save(NodeOf(c, "opener"), PeerEndpoint(c, "opener"), c)
    BY DEF Connected
  <2>2. PICK node \in Node : node = NodeOf(c, "opener")
    BY <1>3
  <2>3. PICK endpoint : endpoint = PeerEndpoint(c, "opener")
    OBVIOUS
  <2>4. sockets' = sockets => SocketsStay
    BY DEF SocketsStay
  <2>5. Save(node, endpoint, c) => SocketsStay
    BY <1>1, SavingStays
  <2> QED BY <2>1, <2>2, <2>3, <2>4, <2>5
<1>5. UNCHANGED <<sent, received, merged, owed, departures>>
  BY DEF Connected, historyVars
<1> QED BY <1>2, <1>4, <1>5, LosingMessages

LEMMA AcceptedMessages ==
  ASSUME TransportInv, NEW c \in DOMAIN connections, Accepted(c)
  PROVE  MessagesInv'
<1>1. SocketsInv /\ ServersInv
  BY DEF TransportInv, SocketsInv
<1>2. Loses /\ Keeps
  BY <1>1, AcceptedLoses
<1>3. "acceptor" \in Sides /\ NodeOf(c, "acceptor") \in Node
  BY <1>1, EndFields DEF SocketsInv, Sides
<1>4. SocketsStay
  <2>1. PICK node \in Node : node = NodeOf(c, "acceptor")
    BY <1>3
  <2>2. PICK endpoint : endpoint = PeerEndpoint(c, "acceptor")
    OBVIOUS
  <2>3. Save(node, endpoint, c)
    BY <2>1, <2>2 DEF Accepted
  <2> QED BY <1>1, <2>3, SavingStays
<1>5. UNCHANGED <<sent, received, merged, owed, departures>>
  BY DEF Accepted, historyVars
<1> QED BY <1>2, <1>4, <1>5, LosingMessages

LEMMA RefusedMessages ==
  ASSUME TransportInv, NEW c \in DOMAIN connections, Refused(c)
  PROVE  MessagesInv'
<1>1. SocketsInv /\ "opener" \in Sides /\ "acceptor" \in Sides
  BY DEF TransportInv, Sides
<1>2. status[NodeOf(c, "acceptor")] # "up" /\ NodeOf(c, "acceptor") \in Node
  BY <1>1, EndFields DEF Refused, SocketsInv
<1>3. departures # 0
  BY <1>1, <1>2, PeaceOfEnd
<1>4. UNCHANGED <<sent, received, merged, owed, departures>>
  BY DEF Refused, historyVars, processVars
<1> QED BY <1>1, <1>3, <1>4, RefusedLoses, LosingMessages

LEMMA EndOfStreamMessages ==
  ASSUME TransportInv, NEW c \in DOMAIN connections, NEW side \in Sides, EndOfStream(c, side)
  PROVE  MessagesInv'
<1>1. SocketsInv
  BY DEF TransportInv
<1>2. departures # 0
  BY <1>1, PeaceOfEnd DEF EndOfStream
<1>3. UNCHANGED <<sent, received, merged, owed, departures>>
  BY DEF EndOfStream, historyVars
<1> QED BY <1>1, <1>2, <1>3, EndOfStreamLoses, LosingMessages

LEMMA ResetMessages ==
  ASSUME TransportInv, NEW c \in DOMAIN connections, Reset(c)
  PROVE  MessagesInv'
<1>1. SocketsInv /\ "opener" \in Sides
  BY DEF TransportInv, Sides
<1>2. departures # 0
  BY <1>1, PeaceOfEnd DEF Reset
<1>3. UNCHANGED <<sent, received, merged, owed, departures>>
  BY DEF Reset, historyVars, processVars
<1> QED BY <1>1, <1>2, <1>3, ResetLoses, LosingMessages

LEMMA DyingMessages ==
  ASSUME TransportInv, NEW node \in Node, NEW overtaken \in BOOLEAN, Die(node, overtaken),
         departures' # 0, UNCHANGED <<sent, received, merged>>
  PROVE  MessagesInv'
<1>1. SocketsInv /\ owed' \subseteq owed
  BY DEF TransportInv, Die
<1> QED BY <1>1, DyingLoses, LosingMessages

LEMMA ResetOfAcceptedMessages ==
  ASSUME TransportInv, NEW c \in DOMAIN connections, ResetOfAccepted(c)
  PROVE  MessagesInv'
<1>1. Dies(NodeOf(c, "acceptor")) /\ NodeOf(c, "acceptor") \in Node
  BY ResetOfAcceptedSockets DEF TransportInv
<1>2. PICK node \in Node : node = NodeOf(c, "acceptor")
  BY <1>1
<1>3. PICK overtaken \in BOOLEAN : departures # 0 /\ Die(node, overtaken)
  BY <1>1, <1>2 DEF Dies
<1>4. UNCHANGED <<sent, received, merged, departures>>
  BY DEF ResetOfAccepted, historyVars
<1> QED BY <1>3, <1>4, DyingMessages

LEMMA ExitMessages ==
  ASSUME TransportInv, NEW node \in Node, Exit(node)
  PROVE  MessagesInv'
<1>1. PICK overtaken \in BOOLEAN : Die(node, overtaken)
  BY DEF Exit
<1>2. departures' # 0 /\ UNCHANGED <<sent, received, merged>>
  BY DEF Exit, TransportInv, SocketsInv, ServersInv
<1> QED BY <1>1, <1>2, DyingMessages

LEMMA StopMessages ==
  ASSUME TransportInv, NEW node \in Node, Stop(node)
  PROVE  MessagesInv'
<1>1. /\ departures' # 0 /\ UNCHANGED <<sent, received, merged>> /\ owed' = owed
      /\ SocketsInv
  BY DEF Stop, TransportInv, SocketsInv, ServersInv
<1> QED BY <1>1, StoppingLoses, LosingMessages

LEMMA StartMessages ==
  ASSUME TransportInv, NEW node \in Node, Start(node)
  PROVE  MessagesInv'
<1>1. /\ UNCHANGED <<sent, received, merged, owed, departures>> /\ SocketsInv
  BY DEF Start, TransportInv, historyVars
<1>2. departures # 0
  BY DEF Start, TransportInv, SocketsInv, PeaceInv
<1> QED BY <1>1, <1>2, StartingLoses, LosingMessages

-----------------------------------------------------------------------------
(* The inductive invariant.                                                 *)
LEMMA InitTransport ==
  ASSUME Init
  PROVE  TransportInv
<1>1. connections = <<>> /\ DOMAIN connections = {}
  BY DEF Init
<1>2. \A node \in Node : sockets[node] \in Registry /\ DOMAIN sockets[node] = {}
  BY RegistryEmpty DEF Init
<1>3. ServersInv
  BY <1>2, BoundsAssumption DEF Init, ServersInv
<1>4. ConnectionsInv
  BY <1>1, BoundsAssumption DEF ConnectionsInv
<1>5. RegistryInv
  BY <1>1, <1>2 DEF RegistryInv
<1>6. CountInv
  <2> SUFFICES ASSUME NEW node \in Node
               PROVE  /\ IsFiniteSet(DOMAIN sockets[node])
                      /\ numConnections[node] >= Cardinality(DOMAIN sockets[node])
                      /\ numConnections[node] <= Cardinality(Past(node))
                      /\ departures = 0 =>
                           numConnections[node] = Cardinality(DOMAIN sockets[node])
    BY DEF CountInv
  <2>1. Past(node) = {} /\ DOMAIN sockets[node] = {} /\ numConnections[node] = 0
    BY <1>1, <1>2 DEF Past, Init
  <2> QED BY <2>1, FS_EmptySet
<1>7. PeaceInv
  BY <1>1 DEF PeaceInv, Init
<1>8. sent = {} /\ received = {} /\ merged = {} /\ owed = {} /\ SentRequests = {}
  BY DEF Init, SentRequests
<1>9. HistoryInv
  BY <1>8, FS_EmptySet DEF HistoryInv
<1>10. RepliesInv
  BY <1>8 DEF RepliesInv
<1>11. QueuesInv
  BY <1>1 DEF QueuesInv, Entry
<1>12. LossInv
  BY <1>8 DEF LossInv
<1> QED BY <1>3, <1>4, <1>5, <1>6, <1>7, <1>9, <1>10, <1>11, <1>12
        DEF TransportInv, SocketsInv, MessagesInv

LEMMA NextKeepsTransport ==
  ASSUME TransportInv, [Next]_vars
  PROVE  TransportInv'
<1>1. SocketsInv /\ HistoryInv /\ RepliesInv
  BY DEF TransportInv, MessagesInv
<1>2. ASSUME NEW c \in DOMAIN connections, SocketEvent(c)
      PROVE  TransportInv'
  <2>1. ASSUME Connected(c) PROVE TransportInv'
    BY <1>1, <2>1, ConnectedSockets, ConnectedMessages DEF TransportInv
  <2>2. ASSUME Refused(c) PROVE TransportInv'
    BY <1>1, <2>2, RefusedSockets, RefusedMessages DEF TransportInv
  <2>3. ASSUME Accepted(c) PROVE TransportInv'
    BY <1>1, <2>3, AcceptedSockets, AcceptedMessages DEF TransportInv
  <2>4. ASSUME NEW side \in Sides, EndOfStream(c, side) PROVE TransportInv'
    BY <1>1, <2>4, EndOfStreamSockets, EndOfStreamMessages DEF TransportInv
  <2>5. ASSUME NEW side \in Sides, NEW count, Data(c, side, count) PROVE TransportInv'
    BY <1>1, <2>5, DataSockets, DataMessages DEF TransportInv
  <2>6. ASSUME Reset(c) PROVE TransportInv'
    BY <1>1, <2>6, ResetSockets, ResetMessages DEF TransportInv
  <2>7. ASSUME ResetOfAccepted(c) PROVE TransportInv'
    BY <1>1, <2>7, ResetOfAcceptedSockets, ResetOfAcceptedMessages DEF TransportInv
  <2> QED BY <1>2, <2>1, <2>2, <2>3, <2>4, <2>5, <2>6, <2>7 DEF SocketEvent
<1>3. ASSUME NEW node \in Node, NEW peer \in Node, SendRequest(node, peer)
      PROVE  TransportInv'
  BY <1>1, <1>3, SendRequestSockets, SendRequestMessages DEF TransportInv
<1>4. ASSUME NEW node \in Node, NEW answer \in owed, SendReply(node, answer)
      PROVE  TransportInv'
  BY <1>1, <1>4, SendReplySockets, SendReplyMessages DEF TransportInv
<1>5. ASSUME NEW node \in Node, Exit(node) PROVE TransportInv'
  BY <1>1, <1>5, ExitSockets, ExitMessages DEF TransportInv
<1>6. ASSUME NEW node \in Node, Stop(node) PROVE TransportInv'
  BY <1>1, <1>6, StoppingStep, StopMessages DEF TransportInv
<1>7. ASSUME NEW node \in Node, Start(node) PROVE TransportInv'
  BY <1>1, <1>7, StartingStep, StartMessages DEF TransportInv
<1>8. CASE UNCHANGED vars
  <2>1. UNCHANGED <<status, boot, sockets, numConnections, owed, connections, sent, received,
                    merged, departures>>
    BY <1>8 DEF vars, processVars, historyVars
  <2>2. SocketsInv'
    BY <1>1, <2>1 DEF SocketsInv, ServersInv, ConnectionsInv, EndsInv, Alive, RegistryInv,
                      OpenerHas, AcceptorHas, IsRegistered, Has, CountInv, Past, PeaceInv
  <2>3. Loses /\ Keeps
    BY <2>1 DEF Loses, Keeps, OpenersStay, Entry, Queue, CanBeRead, Readable, NodeOf
  <2>4. SocketsStay
    BY <2>1 DEF SocketsStay
  <2>5. MessagesInv'
    BY <2>1, <2>3, <2>4, LosingMessages
  <2> QED BY <2>2, <2>5 DEF TransportInv
<1> QED BY <1>2, <1>3, <1>4, <1>5, <1>6, <1>7, <1>8 DEF Next

(* The sockets, the registries and the messages are in order in every       *)
(* process and at every moment.                                             *)
THEOREM TransportInvariant == Spec => []TransportInv
<1> QED BY InitTransport, NextKeepsTransport, PTL DEF Spec

-----------------------------------------------------------------------------
(* What follows from it.                                                    *)
LEMMA RegistryAgrees ==
  ASSUME SocketsInv
  PROVE  RegistryHoldsHandledSockets
<1> SUFFICES ASSUME NEW c \in DOMAIN connections, NEW side \in Sides
             PROVE  LET node == NodeOf(c, side)
                        state == connections[c].ends[side].state
                        registered == IsRegistered(node, PeerEndpoint(c, side), c)
                    IN  /\ state = "handled" => registered
                        /\ registered => \/ state = "handled"
                                         \/ state = "reset" /\ side = "opener"
  BY DEF RegistryHoldsHandledSockets, IsRegistered
<1>1. PICK node, e : node = NodeOf(c, side) /\ e = PeerEndpoint(c, side)
  OBVIOUS
<1>2. node \in Node /\ c # 0
  BY <1>1, EndFields, ConnectionFields DEF SocketsInv
<1>3. connections[c].ends[side].state = "handled" => IsRegistered(node, e, c)
  BY <1>1 DEF SocketsInv, RegistryInv, NodeOf, PeerEndpoint, Sides
<1>4. ASSUME IsRegistered(node, e, c)
      PROVE  \/ connections[c].ends[side].state = "handled"
             \/ connections[c].ends[side].state = "reset" /\ side = "opener"
  <2>1. e \in DOMAIN sockets[node] /\ c = sockets[node][e]
    BY <1>4 DEF IsRegistered, Has
  <2>2. CASE side = "opener"
    <3>1. e[2] = 0
      BY <1>1, <2>2 DEF PeerEndpoint, Listening
    <3>2. OpenerHas(node, e, c)
      BY <1>2, <2>1, <3>1, RegisteredSides DEF SocketsInv
    <3> QED BY <2>2, <3>2 DEF OpenerHas
  <2>3. CASE side = "acceptor"
    <3>1. e[2] # 0
      BY <1>1, <1>2, <2>3 DEF PeerEndpoint, Ephemeral
    <3>2. AcceptorHas(node, e, c)
      BY <1>2, <2>1, <3>1, RegisteredSides DEF SocketsInv
    <3> QED BY <2>3, <3>2 DEF AcceptorHas
  <2> QED BY <2>2, <2>3 DEF Sides
<1> QED BY <1>1, <1>3, <1>4

LEMMA CountBounded ==
  ASSUME SocketsInv, NEW node \in Node
  PROVE  numConnections[node] \in 0..MaxConnections
<1>1. Past(node) \subseteq 1..Len(connections) /\ Len(connections) \in Nat
  BY DEF Past, SocketsInv, ConnectionsInv
<1>2. IsFiniteSet(1..Len(connections)) /\ Cardinality(1..Len(connections)) = Len(connections)
  <2>1. PICK n \in Nat : n = Len(connections)
    BY <1>1
  <2>2. IsFiniteSet(1..n) /\ Cardinality(1..n) = IF 1 > n THEN 0 ELSE n - 1 + 1
    BY FS_Interval
  <2> QED BY <2>1, <2>2
<1>3. Cardinality(Past(node)) <= Len(connections) /\ Cardinality(Past(node)) \in Nat
  BY <1>1, <1>2, FS_Subset, FS_CardinalityType
<1>4. /\ numConnections[node] \in Nat /\ numConnections[node] <= Cardinality(Past(node))
      /\ Len(connections) <= MaxConnections /\ MaxConnections \in Nat
  BY BoundsAssumption DEF SocketsInv, ServersInv, CountInv, ConnectionsInv
<1> QED BY <1>1, <1>3, <1>4

LEMMA EndTypes ==
  ASSUME SocketsInv, NEW c \in DOMAIN connections, NEW side \in Sides,
         NEW end, end = connections[c].ends[side]
  PROVE  /\ end.state \in EndStates /\ Range(end.in) \subseteq Messages
         /\ end.fin \in BOOLEAN /\ end.rst \in BOOLEAN
<1>1. /\ end \in EndsOn(side) /\ end.in \in Seq(MessagesTo(side))
      /\ end.fin \in BOOLEAN /\ end.rst \in BOOLEAN
  BY EndFields DEF SocketsInv
<1>2. end.state \in EndStates
  BY <1>1 DEF EndsOn, OpenerEnds, AcceptorEnds, EndStates
<1>3. MessagesTo(side) \subseteq Messages
  BY MessageKinds DEF MessagesTo
<1>4. Range(end.in) \subseteq MessagesTo(side)
  BY <1>1 DEF Range
<1> QED BY <1>1, <1>2, <1>3, <1>4

LEMMA RegistryTypes ==
  ASSUME SocketsInv, NEW node \in Node
  PROVE  /\ DOMAIN sockets[node] \subseteq Node \X (0..MaxConnections)
         /\ Range(sockets[node]) \subseteq DOMAIN connections
<1>1. ASSUME NEW e \in DOMAIN sockets[node]
      PROVE  sockets[node][e] \in DOMAIN connections /\ e \in Node \X (0..MaxConnections)
  <2>1. PICK c : c = sockets[node][e]
    OBVIOUS
  <2>2. c \in DOMAIN connections /\ (OpenerHas(node, e, c) \/ AcceptorHas(node, e, c))
    BY <2>1 DEF SocketsInv, RegistryInv
  <2>3. c \in 1..Len(connections) /\ Len(connections) \in Nat /\ Len(connections) <= MaxConnections
    BY <2>2, ConnectionFields DEF SocketsInv, ConnectionsInv
  <2>4. c \in 0..MaxConnections /\ 0 \in 0..MaxConnections
    BY <2>3, BoundsAssumption
  <2>5. connections[c].nodes.opener \in Node /\ connections[c].nodes.acceptor \in Node
    BY <2>2, ConnectionFields DEF SocketsInv
  <2> QED BY <2>1, <2>2, <2>4, <2>5 DEF OpenerHas, AcceptorHas, Listening, Ephemeral
<1> QED BY <1>1 DEF Range

LEMMA TypesFollow ==
  ASSUME TransportInv
  PROVE  TransportTypeOK
<1>1. SocketsInv /\ ServersInv /\ HistoryInv /\ RepliesInv
  BY DEF TransportInv, SocketsInv, MessagesInv
<1>2. numConnections \in [Node -> 0..MaxConnections]
  BY <1>1, CountBounded DEF ServersInv
<1>3. \A c \in DOMAIN connections : \A side \in Sides :
        LET end == connections[c].ends[side] IN
        /\ end.state \in EndStates /\ Range(end.in) \subseteq Messages
        /\ end.fin \in BOOLEAN /\ end.rst \in BOOLEAN
  BY <1>1, EndTypes
<1>4. owed \subseteq [reply : Messages, endpoint : Node \X (1..MaxConnections)]
  BY <1>1, MessageKinds DEF RepliesInv
<1> QED BY <1>1, <1>2, <1>3, <1>4, RegistryTypes
        DEF TransportTypeOK, ServersInv, HistoryInv

(* Where a message may be.                                                  *)
LEMMA WhereMessagesAre ==
  ASSUME SocketsInv, NEW message
  PROVE  /\ message \in InFlight <=>
              \E c, side, i : Entry(c, side, i, message) /\ CanBeRead(c, side)
         /\ message \in InOrphans <=>
              \E c, i : /\ Entry(c, "opener", i, message)
                        /\ connections[c].ends.opener.state = "orphan"
<1>1. "opener" \in Sides /\ "acceptor" \in Sides
  BY DEF Sides
<1>2. ASSUME NEW c \in DOMAIN connections, NEW side \in Sides
      PROVE  LET waits == side = "acceptor" /\ connections[c].ends.opener.state = "opening"
             IN  /\ ~ waits => Queue(c, side) = connections[c].ends[side].in
                 /\ waits => /\ Queue(c, side) = <<connections[c].waiting>>
                             /\ connections[c].ends[side].state = "none"
  BY DEF Queue, SocketsInv, ConnectionsInv, EndsInv
<1>3. message \in Waiting <=>
        \E c \in DOMAIN connections : /\ connections[c].ends.opener.state = "opening"
                                      /\ message = connections[c].waiting
  BY DEF Waiting
<1>4. message \in InSockets <=>
        \E c \in DOMAIN connections : \E side \in Sides :
          Readable(c, side) /\ message \in Range(connections[c].ends[side].in)
  <2> DEFINE Read == {e \in (DOMAIN connections) \X Sides : Readable(e[1], e[2])}
  <2>1. message \in InSockets <=>
          \E end \in Read : message \in Range(connections[end[1]].ends[end[2]].in)
    BY DEF InSockets
  <2>2. ASSUME NEW end \in Read
        PROVE  end[1] \in DOMAIN connections /\ end[2] \in Sides /\ Readable(end[1], end[2])
    OBVIOUS
  <2>3. ASSUME NEW c \in DOMAIN connections, NEW side \in Sides, Readable(c, side)
        PROVE  <<c, side>> \in Read
    BY <2>3
  <2> HIDE DEF Read
  <2>4. ASSUME NEW c \in DOMAIN connections, NEW side \in Sides,
               Readable(c, side) /\ message \in Range(connections[c].ends[side].in)
        PROVE  \E end \in Read : message \in Range(connections[end[1]].ends[end[2]].in)
    <3>1. PICK end : end = <<c, side>>
      OBVIOUS
    <3>2. end \in Read /\ end[1] = c /\ end[2] = side
      BY <2>3, <2>4, <3>1
    <3> QED BY <2>4, <3>2
  <2> QED BY <2>1, <2>2, <2>4
<1>5. ASSUME message \in InFlight
      PROVE  \E c, side, i : Entry(c, side, i, message) /\ CanBeRead(c, side)
  <2>1. CASE message \in Waiting
    <3>1. PICK c \in DOMAIN connections : /\ connections[c].ends.opener.state = "opening"
                                          /\ message = connections[c].waiting
      BY <1>3, <2>1
    <3>2. Queue(c, "acceptor") = <<message>>
      BY <1>1, <1>2, <3>1
    <3>3. Entry(c, "acceptor", 1, message)
      BY <1>1, <3>2 DEF Entry
    <3> QED BY <3>1, <3>3 DEF CanBeRead
  <2>2. CASE message \in InSockets
    <3>1. PICK c \in DOMAIN connections, side \in Sides :
            Readable(c, side) /\ message \in Range(connections[c].ends[side].in)
      BY <1>4, <2>2
    <3>2. Queue(c, side) = connections[c].ends[side].in
      BY <1>2, <3>1 DEF Readable
    <3>3. PICK i \in DOMAIN Queue(c, side) : message = Queue(c, side)[i]
      BY <3>1, <3>2 DEF Range
    <3>4. Entry(c, side, i, message)
      BY <3>3 DEF Entry
    <3> QED BY <3>1, <3>4 DEF CanBeRead
  <2> QED BY <1>5, <2>1, <2>2 DEF InFlight
<1>6. ASSUME NEW c, NEW side, NEW i, Entry(c, side, i, message), CanBeRead(c, side)
      PROVE  message \in InFlight
  <2>1. c \in DOMAIN connections /\ side \in Sides
    BY <1>6 DEF Entry
  <2>2. CASE side = "acceptor" /\ connections[c].ends.opener.state = "opening"
    <3>1. Queue(c, side) = <<connections[c].waiting>>
      BY <1>2, <2>1, <2>2
    <3>2. message = connections[c].waiting
      BY <1>6, <3>1 DEF Entry
    <3> QED BY <1>3, <2>1, <2>2, <3>2 DEF InFlight
  <2>3. CASE ~ (side = "acceptor" /\ connections[c].ends.opener.state = "opening")
    <3>1. Queue(c, side) = connections[c].ends[side].in /\ Readable(c, side)
      BY <1>2, <1>6, <2>1, <2>3 DEF CanBeRead
    <3>2. message \in Range(connections[c].ends[side].in)
      BY <1>6, <3>1 DEF Entry, Range
    <3> QED BY <1>4, <2>1, <3>1, <3>2 DEF InFlight
  <2> QED BY <2>2, <2>3
<1>7. message \in InOrphans <=>
        \E c \in DOMAIN connections : /\ connections[c].ends.opener.state = "orphan"
                                      /\ message \in Range(connections[c].ends.opener.in)
  BY DEF InOrphans
<1>8. \A c \in DOMAIN connections :
        message \in Range(connections[c].ends.opener.in) <=> \E i : Entry(c, "opener", i, message)
  <2>1. \A c \in DOMAIN connections : Queue(c, "opener") = connections[c].ends.opener.in
    BY DEF Queue
  <2> QED BY <1>1, <2>1 DEF Entry, Range
<1>9. \A c, i : Entry(c, "opener", i, message) => c \in DOMAIN connections
  BY DEF Entry
<1> QED BY <1>5, <1>6, <1>7, <1>8, <1>9

LEMMA LossesInPeace ==
  ASSUME TransportInv
  PROVE  NothingElseIsLostInPeace
<1>1. SocketsInv /\ HistoryInv /\ QueuesInv /\ LossInv
  BY DEF TransportInv, MessagesInv
<1> SUFFICES ASSUME departures = 0
             PROVE  sent = UNION {InFlight, merged, InOrphans,
                                  {receipt.message : receipt \in received}}
  BY DEF NothingElseIsLostInPeace
<1>2. ASSUME NEW message \in sent
      PROVE  \/ message \in InFlight \/ message \in merged \/ message \in InOrphans
             \/ \E receipt \in received : message = receipt.message
  <2> SUFFICES ASSUME NEW c, NEW side, NEW i, Entry(c, side, i, message)
               PROVE  message \in InFlight \/ message \in InOrphans
    BY <1>1 DEF LossInv, WasReceived
  <2>1. c \in DOMAIN connections /\ side \in Sides /\ i \in DOMAIN Queue(c, side)
    BY DEF Entry
  <2>2. InPeace(connections[c].ends) /\ EndsInv(c) /\ status[NodeOf(c, side)] = "up"
    BY <1>1, <2>1, EndFields DEF SocketsInv, PeaceInv, ConnectionsInv
  <2>3. CASE CanBeRead(c, side)
    BY <1>1, <2>3, WhereMessagesAre
  <2>4. CASE ~ CanBeRead(c, side)
    <3>1. side = "opener"
      BY <2>1, <2>2, <2>4 DEF CanBeRead, Readable, InPeace, Sides
    <3>2. Queue(c, side) # <<>>
      BY <2>1
    <3>3. connections[c].ends.opener.in # <<>>
      BY <3>1, <3>2 DEF Queue
    <3>4. connections[c].ends.opener.state = "orphan"
      BY <2>2, <2>4, <3>1, <3>3 DEF CanBeRead, Readable, EndsInv, IsOpen
    <3> QED BY <1>1, <3>1, <3>4, WhereMessagesAre
  <2> QED BY <2>3, <2>4
<1>3. ASSUME NEW message,
             \/ message \in InFlight \/ message \in merged \/ message \in InOrphans
             \/ \E receipt \in received : message = receipt.message
      PROVE  message \in sent
  <2>1. \A c, side, i : Entry(c, side, i, message) => message \in sent
    BY <1>1 DEF QueuesInv
  <2>2. CASE message \in InFlight \/ message \in InOrphans
    BY <1>1, <2>1, <2>2, WhereMessagesAre
  <2>3. CASE message \in merged \/ \E receipt \in received : message = receipt.message
    BY <1>1, <2>3 DEF HistoryInv
  <2> QED BY <1>3, <2>2, <2>3
<1> QED BY <1>2, <1>3

-----------------------------------------------------------------------------
(* The state properties, for every cluster.                                 *)

(* Every value of a cluster of any size has its type; in particular the     *)
(* registry's count never exceeds the connections that were opened.         *)
THEOREM TransportTypes == Spec => []TransportTypeOK
<1> QED BY TransportInvariant, TypesFollow, PTL

(* However connects, accepts, resets and stops interleave, a socket with the*)
(* handlers of accept() is the one registered for its peer, and the others  *)
(* are not registered unless an error destroyed them.                       *)
THEOREM HandledSocketsAreRegistered == Spec => []RegistryHoldsHandledSockets
<1>1. TransportInv => RegistryHoldsHandledSockets
  BY RegistryAgrees DEF TransportInv
<1> QED BY <1>1, TransportInvariant, PTL

(* count() is never less than the registry, and exact until somebody ends a *)
(* process.                                                                 *)
THEOREM CountIsAnUpperBound == Spec => []CountCoversRegistry
<1>1. TransportInv => CountCoversRegistry
  BY DEF TransportInv, SocketsInv, CountInv, CountCoversRegistry
<1> QED BY <1>1, TransportInvariant, PTL

(* The exceptions of the sockets start no chain of exits by themselves.     *)
THEOREM NoProcessDiesInPeace == Spec => []ProcessesSurviveInPeace
<1>1. TransportInv => ProcessesSurviveInPeace
  BY DEF TransportInv, SocketsInv, PeaceInv, ProcessesSurviveInPeace
<1> QED BY <1>1, TransportInvariant, PTL

(* While nobody ends a process, merged reads and orphans alone cost messages.*)
THEOREM LossesInPeaceAreKnown == Spec => []NothingElseIsLostInPeace
<1> QED BY TransportInvariant, LossesInPeace, PTL

-----------------------------------------------------------------------------
(* After stop() a process serves nobody.                                    *)
LEMMA StoppedStays ==
  ASSUME TransportInv, [Next]_vars, NEW node \in Node, status[node] = "stopped"
  PROVE  /\ status'[node] # "up"
         /\ \A receipt \in received' \ received : receipt.by # ThisProcess(node)
<1>1. ServersInv /\ SocketsInv
  BY DEF TransportInv, SocketsInv
<1>2. ASSUME NEW n \in Node, NEW overtaken \in BOOLEAN, Die(n, overtaken)
      PROVE  status'[node] # "up"
  BY <1>1, <1>2 DEF Die, ServersInv
<1>3. ASSUME NEW n \in Node, NEW c, NEW message, Write(n, c, message)
      PROVE  status'[node] # "up"
  BY <1>2, <1>3 DEF Write
<1>4. ASSUME NEW c \in DOMAIN connections, SocketEvent(c)
      PROVE  /\ status'[node] # "up"
             /\ \A receipt \in received' \ received : receipt.by # ThisProcess(node)
  <2>1. ASSUME ResetOfAccepted(c) PROVE status'[node] # "up" /\ received' = received
    <3>1. PICK n \in Node : n = NodeOf(c, "acceptor")
      BY <1>1, <2>1, ResetOfAcceptedSockets
    <3>2. PICK overtaken \in BOOLEAN : Die(n, overtaken)
      BY <2>1, <3>1 DEF ResetOfAccepted
    <3> QED BY <1>2, <2>1, <3>2 DEF ResetOfAccepted, historyVars
  <2>2. ASSUME NEW side \in Sides, NEW count, Data(c, side, count)
        PROVE  /\ status' = status
               /\ \A receipt \in received' \ received : receipt.by # ThisProcess(node)
    <3>1. PICK n : n = NodeOf(c, side)
      OBVIOUS
    <3>2. \/ received' = received
          \/ /\ status[n] = "up"
             /\ \A receipt \in received' \ received : receipt.by = ThisProcess(n)
      BY <2>2, <3>1 DEF Data
    <3>3. status[n] = "up" => ThisProcess(n) # ThisProcess(node)
      BY DEF ThisProcess
    <3> QED BY <2>2, <3>2, <3>3 DEF Data
  <2>3. ASSUME Connected(c) \/ Refused(c) \/ Accepted(c) \/ Reset(c)
        PROVE  status' = status /\ received' = received
    BY <2>3 DEF Connected, Refused, Accepted, Reset, processVars, historyVars
  <2>4. ASSUME NEW side \in Sides, EndOfStream(c, side)
        PROVE  status' = status /\ received' = received
    BY <2>4 DEF EndOfStream, historyVars
  <2> QED BY <1>4, <2>1, <2>2, <2>3, <2>4 DEF SocketEvent
<1>5. ASSUME NEW n \in Node, NEW peer \in Node, SendRequest(n, peer)
      PROVE  status'[node] # "up" /\ received' = received
  <2>1. received' = received
    BY <1>5 DEF SendRequest
  <2>2. \/ status' = status
        \/ Write(n, sockets[n][Listening(peer)], Request(n, peer))
    BY <1>5 DEF SendRequest, processVars
  <2> QED BY <1>3, <2>1, <2>2
<1>6. ASSUME NEW n \in Node, NEW answer \in owed, SendReply(n, answer)
      PROVE  status'[node] # "up" /\ received' = received
  <2>1. received' = received
    BY <1>6 DEF SendReply
  <2>2. \/ status' = status
        \/ Write(n, sockets[n][answer.endpoint], answer.reply)
    BY <1>6 DEF SendReply
  <2> QED BY <1>3, <2>1, <2>2
<1>7. ASSUME NEW n \in Node, Exit(n) \/ Stop(n) \/ Start(n)
      PROVE  status'[node] # "up" /\ received' = received
  BY <1>1, <1>2, <1>7 DEF Exit, Stop, Start, ServersInv, historyVars
<1>8. CASE UNCHANGED vars
  BY <1>8 DEF vars, processVars, historyVars
<1> QED BY <1>4, <1>5, <1>6, <1>7, <1>8 DEF Next

LEMMA OnlyOwnConnects ==
  ASSUME SocketsInv, NEW node \in Node, status[node] # "up"
  PROVE  DOMAIN sockets[node] \subseteq {Listening(peer) : peer \in Node}
<1> SUFFICES ASSUME NEW e \in DOMAIN sockets[node]
             PROVE  e \in {Listening(peer) : peer \in Node}
  OBVIOUS
<1>1. PICK c : c = sockets[node][e]
  OBVIOUS
<1>2. c \in DOMAIN connections /\ (OpenerHas(node, e, c) \/ AcceptorHas(node, e, c))
  BY <1>1 DEF SocketsInv, RegistryInv
<1>3. EndsInv(c) /\ connections[c].nodes.acceptor \in Node
  BY <1>2, ConnectionFields DEF SocketsInv, ConnectionsInv
<1>4. ~ AcceptorHas(node, e, c)
  BY <1>3 DEF AcceptorHas, EndsInv
<1> QED BY <1>2, <1>3, <1>4 DEF OpenerHas

LEMMA OnlyOwnConnectsNext ==
  SocketsInv' => \A node \in Node : status'[node] # "up" =>
                   DOMAIN sockets'[node] \subseteq {Listening(peer) : peer \in Node}
<1> DEFINE Own == \A node \in Node : status[node] # "up" =>
                    DOMAIN sockets[node] \subseteq {Listening(peer) : peer \in Node}
<1>1. SocketsInv => Own
  BY OnlyOwnConnects
<1>2. SocketsInv' => Own'
  <2> HIDE DEF Own
  <2> QED BY <1>1, PTL
<1> QED BY <1>2 DEF Listening

(* From its stop on, in every step of every cluster, a process has no       *)
(* socket that it accepted: a connect of its own may still end and be       *)
(* registered, under the endpoint its peer listens on, and nothing else is. *)
(* And no message is received by it.                                        *)
THEOREM StoppedProcessesServeNobody == Spec => StoppedServesNobody
<1> DEFINE Step ==
      \A node \in Node : status[node] = "stopped" =>
        /\ DOMAIN sockets'[node] \subseteq {Listening(peer) : peer \in Node}
        /\ \A receipt \in received' \ received : receipt.by # ThisProcess(node)
<1>1. TransportInv /\ [Next]_vars => [Step]_vars
  <2> SUFFICES ASSUME TransportInv, [Next]_vars PROVE Step
    OBVIOUS
  <2>1. SocketsInv'
    BY NextKeepsTransport DEF TransportInv
  <2> QED BY <2>1, StoppedStays, OnlyOwnConnectsNext
<1>2. Spec => [][Step]_vars
  <2> HIDE DEF Step
  <2> QED BY <1>1, TransportInvariant, PTL DEF Spec
<1> QED BY <1>2 DEF StoppedServesNobody

-----------------------------------------------------------------------------
(* The transport implements the network.  A step that loses messages maps to*)
(* Lose, a send to a send, and a read to Receive, in which the messages that*)
(* the read merged are lost as well.                                        *)
LEMMA WhereMessagesAreNext ==
  SocketsInv' => \A message : message \in InFlight' =>
                   \E c, side, i : Entry(c, side, i, message)' /\ CanBeRead(c, side)'
<1> DEFINE Found == \A message : message \in InFlight =>
                      \E c, side, i : Entry(c, side, i, message) /\ CanBeRead(c, side)
<1>1. SocketsInv => Found
  BY WhereMessagesAre
<1>2. SocketsInv' => Found'
  <2> HIDE DEF Found
  <2> QED BY <1>1, PTL
<1> QED BY <1>2

LEMMA FlightLost ==
  ASSUME SocketsInv, SocketsInv', Loses
  PROVE  InFlight' \subseteq InFlight
<1> SUFFICES ASSUME NEW message \in InFlight' PROVE message \in InFlight
  OBVIOUS
<1>1. PICK c, side, i : Entry(c, side, i, message)' /\ CanBeRead(c, side)'
  BY WhereMessagesAreNext
<1>2. Entry(c, side, i, message) /\ CanBeRead(c, side)
  BY <1>1 DEF Loses
<1> QED BY <1>2, WhereMessagesAre

LEMMA FlightAdded ==
  ASSUME SocketsInv, SocketsInv', NEW d, NEW other, NEW j, NEW new, Adds(d, other, j, new)
  PROVE  InFlight' \subseteq InFlight \cup {new}
<1> SUFFICES ASSUME NEW message \in InFlight', message # new PROVE message \in InFlight
  OBVIOUS
<1>1. PICK c, side, i : Entry(c, side, i, message)' /\ CanBeRead(c, side)'
  BY WhereMessagesAreNext
<1>2. Entry(c, side, i, message) /\ CanBeRead(c, side)
  BY <1>1 DEF Adds
<1> QED BY <1>2, WhereMessagesAre

LEMMA FlightRead ==
  ASSUME TransportInv, SocketsInv', NEW d, NEW other, NEW count \in Nat \ {0},
         Reads(d, other, count), NEW new, Entry(d, other, 1, new)
  PROVE  InFlight' \subseteq InFlight \ {new}
<1> SUFFICES ASSUME NEW message \in InFlight'
             PROVE  message \in InFlight /\ message # new
  OBVIOUS
<1>1. SocketsInv /\ QueuesInv
  BY DEF TransportInv, MessagesInv
<1>2. PICK c, side, i : Entry(c, side, i, message)' /\ CanBeRead(c, side)'
  BY WhereMessagesAreNext
<1>3. i \in Nat \ {0} /\ CanBeRead(c, side)
  BY <1>2 DEF Reads
<1>4. PICK k : /\ Entry(c, side, k, message)
               /\ ~ (c = d /\ side = other /\ k = 1)
  <2>1. CASE c = d /\ side = other
    <3>1. Entry(c, side, i + count, message) /\ i + count # 1
      BY <1>2, <1>3, <2>1 DEF Reads
    <3> QED BY <3>1
  <2>2. CASE c # d \/ side # other
    BY <1>2, <2>2 DEF Reads
  <2> QED BY <2>1, <2>2
<1>5. message # new
  BY <1>1, <1>4 DEF QueuesInv
<1>6. message \in InFlight
  BY <1>1, <1>3, <1>4, WhereMessagesAre
<1> QED BY <1>5, <1>6

LEMMA LosingIsLose ==
  ASSUME TransportInv, TransportInv', Loses, UNCHANGED <<sent, received>>
  PROVE  Abstract!NetworkNext
<1>1. InFlight' \subseteq InFlight
  BY FlightLost DEF TransportInv
<1> QED BY <1>1 DEF Abstract!NetworkNext, Abstract!Lose

LEMMA SendingAdds ==
  ASSUME TransportInv, TransportInv', NEW message,
         \/ \E d, other, j : Adds(d, other, j, message) /\ SocketsStay
         \/ departures # 0 /\ Loses
  PROVE  InFlight' \subseteq InFlight \cup {message}
<1>1. SocketsInv /\ SocketsInv'
  BY DEF TransportInv
<1>2. CASE Loses
  BY <1>1, <1>2, FlightLost
<1>3. ASSUME NEW d, NEW other, NEW j, Adds(d, other, j, message)
      PROVE  InFlight' \subseteq InFlight \cup {message}
  BY <1>1, <1>3, FlightAdded
<1> QED BY <1>2, <1>3

LEMMA SendRequestIsSend ==
  ASSUME TransportInv, TransportInv', NEW node \in Node, NEW peer \in Node,
         SendRequest(node, peer)
  PROVE  Abstract!NetworkNext
<1>1. PICK message : message = Request(node, peer)
  OBVIOUS
<1>2. /\ message \notin sent /\ message.kind = "request"
      /\ message.id = Cardinality(SentRequests) + 1
      /\ Cardinality(SentRequests) \in Nat
      /\ sent' = sent \cup {message} /\ received' = received
      /\ \/ \E d, other, j : Adds(d, other, j, message) /\ SocketsStay
         \/ departures # 0 /\ Loses
  BY <1>1, RequestMoves
<1>3. \A other \in sent : other.id # message.id
  <2>1. \A other \in sent : other.id \in Nat /\ other.id <= Cardinality(SentRequests)
    BY MessageKinds, BoundsAssumption DEF TransportInv, MessagesInv, HistoryInv
  <2> QED BY <1>2, <2>1
<1>4. InFlight' \subseteq InFlight \cup {message}
  BY <1>2, SendingAdds
<1>5. Abstract!SendRequest(message) /\ message \in sent' \ sent
  BY <1>2, <1>3, <1>4 DEF Abstract!SendRequest
<1> QED BY <1>5 DEF Abstract!NetworkNext

LEMMA SendReplyIsSend ==
  ASSUME TransportInv, TransportInv', NEW node \in Node, NEW answer \in owed,
         SendReply(node, answer)
  PROVE  Abstract!NetworkNext
<1>1. PICK message : message = answer.reply
  OBVIOUS
<1>2. /\ message \notin sent /\ message.kind = "reply" /\ WasAsked(message)
      /\ sent' = sent \cup {message} /\ received' = received
      /\ \/ \E d, other, j : Adds(d, other, j, message) /\ SocketsStay
         \/ departures # 0 /\ Loses
  BY <1>1, ReplyMoves
<1>3. InFlight' \subseteq InFlight \cup {message}
  BY <1>2, SendingAdds
<1>4. Abstract!SendReply(message) /\ message \in sent' \ sent
  BY <1>2, <1>3 DEF Abstract!SendReply, WasAsked
<1> QED BY <1>4 DEF Abstract!NetworkNext

LEMMA DataIsReceive ==
  ASSUME TransportInv, TransportInv', NEW c \in DOMAIN connections, NEW side \in Sides,
         NEW count, Data(c, side, count)
  PROVE  Abstract!NetworkNext
<1>1. SocketsInv /\ SocketsInv' /\ QueuesInv
  BY DEF TransportInv, MessagesInv
<1>2. PICK node, message, receipt, process :
        /\ node = NodeOf(c, side) /\ message = Head(connections[c].ends[side].in)
        /\ process = ThisProcess(node) /\ receipt = [message |-> message, by |-> process]
  OBVIOUS
<1>3. /\ count \in Nat \ {0} /\ Reads(c, side, count)
      /\ Entry(c, side, 1, message)
  BY <1>1, <1>2, DataReads
<1>4. InFlight' \subseteq InFlight \ {message}
  BY <1>1, <1>3, FlightRead
<1>5. /\ message \in sent /\ ~ WasReceived(message) /\ Addressed(c, side, message)
  BY <1>1, <1>3 DEF QueuesInv
<1>6. CASE status[node] # "up"
  <2>1. UNCHANGED <<sent, received>>
    BY <1>2, <1>6 DEF Data
  <2> QED BY <1>4, <2>1 DEF Abstract!NetworkNext, Abstract!Lose
<1>7. CASE status[node] = "up"
  <2>1. received' = received \cup {receipt} /\ sent' = sent
    BY <1>2, <1>7 DEF Data
  <2>2. message \in InFlight
    <3>1. CanBeRead(c, side)
      BY <1>2, <1>7 DEF CanBeRead, Readable, Data
    <3> QED BY <1>1, <1>3, <3>1, WhereMessagesAre
  <2>3. Abstract!MayReceive(process, message)
    <3>1. process.node = node
      BY <1>2 DEF ThisProcess
    <3>2. CASE side = "acceptor"
      <4>1. message \in Requests
        BY <1>1, <1>3, <3>2, EntryType DEF SocketsInv, MessagesTo
      <4> QED BY <1>2, <1>5, <3>1, <3>2, <4>1, MessageKinds
              DEF Abstract!MayReceive, Addressed, NodeOf
    <3>3. CASE side = "opener"
      <4>1. message \in Replies
        BY <1>1, <1>3, <3>3, EntryType DEF SocketsInv, MessagesTo
      <4>2. connections[c].ends.opener.state = "handled"
        BY <3>3 DEF Data
      <4>3. message.to = process
        BY <1>2, <1>5, <3>3, <4>2 DEF Addressed, IsOpener, NodeOf
      <4> QED BY <4>1, <4>3, MessageKinds DEF Abstract!MayReceive
    <3> QED BY <3>2, <3>3 DEF Sides
  <2>4. receipt.message = message /\ receipt.by = process
    BY <1>2
  <2>5. receipt \in received' \ received
    BY <1>5, <2>1, <2>4 DEF WasReceived
  <2>6. Abstract!Receive(receipt.message, receipt.by)
    BY <1>2, <1>4, <2>1, <2>2, <2>3, <2>4 DEF Abstract!Receive
  <2> QED BY <2>5, <2>6 DEF Abstract!NetworkNext
<1> QED BY <1>6, <1>7

LEMMA InitIsNetwork ==
  ASSUME Init
  PROVE  Abstract!NetworkInit
<1>1. DOMAIN connections = {}
  BY DEF Init
<1>2. InFlight = {}
  BY <1>1 DEF InFlight, Waiting, InSockets
<1> QED BY <1>2 DEF Init, Abstract!NetworkInit

LEMMA StepIsNetwork ==
  ASSUME TransportInv, TransportInv', [Next]_vars
  PROVE  [Abstract!NetworkNext]_(Abstract!networkVars)
<1>1. SocketsInv
  BY DEF TransportInv
<1>2. ASSUME NEW c \in DOMAIN connections, SocketEvent(c)
      PROVE  Abstract!NetworkNext
  <2>1. ASSUME NEW side \in Sides, NEW count, Data(c, side, count)
        PROVE  Abstract!NetworkNext
    BY <2>1, DataIsReceive
  <2>2. ASSUME NEW side \in Sides, EndOfStream(c, side)
        PROVE  Loses /\ UNCHANGED <<sent, received>>
    BY <1>1, <2>2, EndOfStreamLoses DEF EndOfStream, historyVars
  <2>3. ASSUME Connected(c) \/ Refused(c) \/ Accepted(c) \/ Reset(c)
        PROVE  Loses /\ UNCHANGED <<sent, received>>
    <3>1. Loses
      BY <1>1, <2>3, ConnectedLoses, RefusedLoses, AcceptedLoses, ResetLoses
    <3> QED BY <2>3, <3>1 DEF Connected, Refused, Accepted, Reset, historyVars
  <2>4. ASSUME ResetOfAccepted(c)
        PROVE  Loses /\ UNCHANGED <<sent, received>>
    <3>1. PICK node \in Node : node = NodeOf(c, "acceptor") /\ Dies(node)
      BY <1>1, <2>4, ResetOfAcceptedSockets
    <3>2. PICK overtaken \in BOOLEAN : Die(node, overtaken)
      BY <3>1 DEF Dies
    <3>3. Loses
      BY <1>1, <3>2, DyingLoses
    <3> QED BY <2>4, <3>3 DEF ResetOfAccepted, historyVars
  <2> QED BY <1>2, <2>1, <2>2, <2>3, <2>4, LosingIsLose DEF SocketEvent
<1>3. ASSUME NEW node \in Node, Exit(node) \/ Stop(node) \/ Start(node)
      PROVE  Abstract!NetworkNext
  <2>1. UNCHANGED <<sent, received>>
    BY <1>3 DEF Exit, Stop, Start, historyVars
  <2>2. Exit(node) => Loses
    BY <1>1, DyingLoses DEF Exit
  <2>3. Loses
    BY <1>1, <1>3, <2>2, StoppingLoses, StartingLoses
  <2> QED BY <2>1, <2>3, LosingIsLose
<1>4. CASE UNCHANGED vars
  <2>1. UNCHANGED <<status, connections, sent, received>>
    BY <1>4 DEF vars, processVars, historyVars
  <2>2. InFlight' = InFlight
    BY <2>1 DEF InFlight, Waiting, InSockets, Readable, NodeOf
  <2> QED BY <2>1, <2>2 DEF Abstract!networkVars
<1> QED BY <1>2, <1>3, <1>4, SendRequestIsSend, SendReplyIsSend DEF Next

(* Whatever sockets are opened, orphaned, reset and closed, in a cluster of *)
(* any size: a message is received at most once, by its addressee, and a    *)
(* reply only by the process that asked.                                    *)
THEOREM TransportIsNetwork == Spec => ImplementsNetwork
<1>1. Init => Abstract!NetworkInit
  BY InitIsNetwork
<1>2. TransportInv /\ TransportInv' /\ [Next]_vars =>
        [Abstract!NetworkNext]_(Abstract!networkVars)
  BY StepIsNetwork
<1>3. Spec => Abstract!NetworkSpec
  BY <1>1, <1>2, TransportInvariant, PTL DEF Spec, Abstract!NetworkSpec
<1> QED BY <1>3 DEF ImplementsNetwork
=============================================================================
