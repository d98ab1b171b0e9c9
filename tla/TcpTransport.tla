---------------------------- MODULE TcpTransport ----------------------------
(***************************************************************************)
(* The TCP transport and its connection registry                            *)
(* (src/net/transport/tcp/tcp.ts and connection-registry.ts) in the         *)
(* processes of all servers, socket by socket: connections that are opened  *)
(* twice, sockets without handlers, reads that take several messages, the   *)
(* FIN or RST that follows the end of a process, and what stop() leaves.    *)
(*                                                                          *)
(* A connection has two ends.  The kernel's part is modelled as the code    *)
(* sees it: an end that is closed leaves a FIN at the other, or an RST if   *)
(* data was unread; data that reaches a closed end comes back as an RST.    *)
(***************************************************************************)
EXTENDS Naturals, Sequences, FiniteSets, Functions

CONSTANTS
  Node,            \* the servers; each listens on one endpoint
  MaxConnections,  \* bound: connections ever opened
  MaxRequests,     \* bound: requests ever sent
  MaxBoot,         \* bound: processes a server ever has
  MaxDepartures    \* bound: processes ended or stopped from outside

ASSUME BoundsAssumption ==
  /\ {MaxConnections, MaxRequests, MaxBoot, MaxDepartures} \subseteq Nat
  /\ MaxBoot > 0

VARIABLES
  status,          \* of a server's process: "up", "stopped" or "gone"
  boot,            \* number of the server's present process
  sockets,         \* its registry: endpoint -> connection
  numConnections,  \* the registry's count
  connections,     \* every connection ever opened
  owed,            \* replies to requests a process received, not yet sent
  sent, received,  \* history: of the messages
  merged,          \* history: messages lost because a read took several
  departures       \* history: how often somebody ended or stopped a process

processVars == <<status, boot, sockets, numConnections, owed>>
historyVars == <<sent, received, merged, departures>>
vars == <<processVars, connections, historyVars>>

-----------------------------------------------------------------------------
(* Endpoints: port 0 is the one a server listens on, port c the one that    *)
(* its end of connection c was given.                                       *)
Listening(node) == <<node, 0>>
Ephemeral(node, c) == <<node, c>>

ThisProcess(node) == [node |-> node, boot |-> boot[node]]

Alive(node) == status[node] # "gone"

Sides == {"opener", "acceptor"}
Other(side) == IF side = "opener" THEN "acceptor" ELSE "opener"

(* An end of a connection: "opening" until the connect callback, "backlog"  *)
(* until the connection callback; then "handled", with the handlers of      *)
(* accept(), or "orphan", without; "reset" is a socket destroyed by an      *)
(* error, of which the registry does not hear.                              *)
EndStates == {"none", "opening", "backlog", "handled", "orphan", "reset", "closed"}
End(state) == [state |-> state, in |-> <<>>, fin |-> FALSE, rst |-> FALSE]
IsOpen(end) == end.state \in {"backlog", "handled", "orphan"}

(* The endpoint under which a side knows the other.                         *)
(* Mutant: a peer is always known by the endpoint it listens on.            *)
PeerListening(c, side) == Listening(connections[c].nodes[Other(side)])

PeerEndpoint(c, side) ==
  IF side = "opener" THEN Listening(connections[c].nodes.acceptor)
                     ELSE Ephemeral(connections[c].nodes.opener, c)

NodeOf(c, side) == connections[c].nodes[side]

(* The side of a connection that is the node's; no server calls itself.     *)
SideOf(node, c) == CHOOSE side \in Sides : NodeOf(c, side) = node

-----------------------------------------------------------------------------
(* The registry.                                                            *)
Has(node, endpoint) == endpoint \in DOMAIN sockets[node]

With(registry, endpoint, c) ==
  [e \in DOMAIN registry \cup {endpoint} |-> IF e = endpoint THEN c ELSE registry[e]]

(* Mutant: a saved socket is not counted.                                   *)
SaveUncounted(node, endpoint, c) ==
  /\ sockets' = [sockets EXCEPT ![node] = With(@, endpoint, c)]
  /\ UNCHANGED numConnections

Save(node, endpoint, c) ==
  /\ sockets' = [sockets EXCEPT ![node] = With(@, endpoint, c)]
  /\ numConnections' = [numConnections EXCEPT ![node] = @ + 1]

(* Mutant: the connection's entry is cleared but stays.                     *)
Cleared(registry, endpoint) == [registry EXCEPT ![endpoint] = 0]

Without(registry, endpoint) == Restrict(registry, DOMAIN registry \ {endpoint})

(* Mutant: the socket is destroyed but stays registered.                    *)
RemoveNothing(node, endpoint) == UNCHANGED <<sockets, numConnections>>

Remove(node, endpoint) ==
  /\ sockets' = [sockets EXCEPT ![node] = Without(@, endpoint)]
  /\ UNCHANGED numConnections

-----------------------------------------------------------------------------
(* The kernel.                                                              *)

(* What an end becomes when the other is closed with or without unread data;*)
(* unread data that was still on its way meets the closed end after the FIN.*)
Notified(end, gone, overtaken) ==
  LET unread == gone.in # <<>> \/ gone.state = "backlog"
  IN  IF ~IsOpen(end) THEN end
      ELSE [end EXCEPT !.fin = @ \/ ~unread \/ (overtaken /\ gone.state # "backlog"),
                       !.rst = @ \/ unread]

(* The ends of a node's connections.                                        *)
EndsOf(node) ==
  {end \in (DOMAIN connections) \X Sides : NodeOf(end[1], end[2]) = node}

(* Connections after the ends in `gone` are closed.                         *)
Closing(gone, overtaken) ==
  [c \in DOMAIN connections |->
     LET old == connections[c]
         New(side) ==
           IF <<c, side>> \in gone
           THEN IF old.ends[side].state = "none" THEN old.ends[side] ELSE End("closed")
           ELSE IF <<c, Other(side)>> \in gone /\ IsOpen(old.ends[Other(side)])
           THEN Notified(old.ends[side], old.ends[Other(side)], overtaken)
           ELSE old.ends[side]
     IN  [old EXCEPT !.ends = [side \in Sides |-> New(side)]]]

(* The end of a process: all its sockets are closed.                        *)
Die(node, overtaken) ==
  /\ status' = [status EXCEPT ![node] = "gone"]
  /\ sockets' = [sockets EXCEPT ![node] = << >>]
  /\ numConnections' = [numConnections EXCEPT ![node] = 0]
  /\ owed' = {answer \in owed : answer.reply.from.node # node}
  /\ connections' = Closing(EndsOf(node), overtaken)
  /\ UNCHANGED boot

WriteFails(end) == end.state = "reset" \/ end.rst

(* Mutant: what is written before the peer accepted the connection is lost. *)
WrittenToHandled(ends, side, message) ==
  IF ends[Other(side)].state = "handled"
  THEN [ends EXCEPT ![Other(side)].in = Append(@, message)]
  ELSE ends

(* The ends of a connection after one of them wrote a message.              *)
Written(ends, side, message) ==
  IF IsOpen(ends[Other(side)])
  THEN [ends EXCEPT ![Other(side)].in = Append(@, message)]
  ELSE [ends EXCEPT ![side].rst = TRUE]

(* socket.write: an error is thrown from its callback and ends the process. *)
Write(node, c, message) ==
  LET side == SideOf(node, c)
  IN  IF WriteFails(connections[c].ends[side])
      THEN \E overtaken \in BOOLEAN : Die(node, overtaken)
      ELSE /\ connections' = [connections EXCEPT ![c].ends = Written(@, side, message)]
           /\ owed' = {answer \in owed : answer.reply # message}
           /\ UNCHANGED <<status, boot, sockets, numConnections>>

-----------------------------------------------------------------------------
(* send() of a request, by any process, since a timer may survive stop():   *)
(* over the registered connection, or a new one, where the message waits.   *)
NewConnection(node, peer, message) ==
  [nodes   |-> [opener |-> node, acceptor |-> peer],
   ends    |-> [opener |-> End("opening"), acceptor |-> End("none")],
   waiting |-> message]

Request(node, peer) ==
  [kind |-> "request", id |-> Cardinality({m \in sent : m.kind = "request"}) + 1,
   from |-> ThisProcess(node), to |-> [node |-> peer]]

SendRequest(node, peer) ==
  LET message == Request(node, peer) IN
  /\ node # peer
  /\ Alive(node)
  /\ message.id <= MaxRequests
  /\ sent' = sent \cup {message}
  /\ IF Has(node, Listening(peer))
     THEN Write(node, sockets[node][Listening(peer)], message)
     ELSE /\ Len(connections) < MaxConnections
          /\ connections' = Append(connections, NewConnection(node, peer, message))
          /\ UNCHANGED processVars
  /\ UNCHANGED <<received, merged, departures>>

(* send() of a reply, also after stop(): to the endpoint the request came   *)
(* from.  If its connection is gone nobody listens there and the connect is *)
(* refused.                                                                 *)
SendReply(node, answer) ==
  /\ answer \in owed
  /\ answer.reply.from.node = node
  /\ sent' = sent \cup {answer.reply}
  /\ IF Has(node, answer.endpoint)
     THEN Write(node, sockets[node][answer.endpoint], answer.reply)
     ELSE /\ owed' = owed \ {answer}
          /\ UNCHANGED <<status, boot, sockets, numConnections, connections>>
  /\ UNCHANGED <<received, merged, departures>>

(* The ends after the connect callback has written the waiting message.     *)
WrittenTo(message, state) ==
  [opener   |-> End(state),
   acceptor |-> [End("backlog") EXCEPT !.in = <<message>>]]

(* Mutant: a socket that lost the race of two connects is reset.            *)
DestroyedEnds(message) ==
  [opener |-> End("closed"), acceptor |-> [End("backlog") EXCEPT !.rst = TRUE]]

(* accept() found another socket registered: this one gets no handlers, and *)
(* is written to all the same.                                              *)
DuplicateEnds(message) == WrittenTo(message, "orphan")

(* The connect callback, with accept() and the write that waited for it.    *)
Connected(c) ==
  LET node == NodeOf(c, "opener")
      endpoint == PeerEndpoint(c, "opener")
      message == connections[c].waiting
  IN
  /\ connections[c].ends.opener.state = "opening"
  /\ status[NodeOf(c, "acceptor")] = "up"
  /\ IF Has(node, endpoint)
     THEN /\ connections' = [connections EXCEPT ![c].ends = DuplicateEnds(message)]
          /\ UNCHANGED <<sockets, numConnections>>
     ELSE /\ connections' = [connections EXCEPT ![c].ends = WrittenTo(message, "handled")]
          /\ Save(node, endpoint, c)
  /\ UNCHANGED <<status, boot, owed, historyVars>>

(* The peer does not listen: send() rejects, the message is lost.           *)
Refused(c) ==
  /\ connections[c].ends.opener.state = "opening"
  /\ status[NodeOf(c, "acceptor")] # "up"
  /\ connections' = [connections EXCEPT ![c].ends.opener = End("closed")]
  /\ UNCHANGED <<processVars, historyVars>>

(* The server's connection callback, accept() again.                        *)
Accepted(c) ==
  LET node == NodeOf(c, "acceptor") IN
  /\ connections[c].ends.acceptor.state = "backlog"
  /\ Save(node, PeerEndpoint(c, "acceptor"), c)
  /\ connections' = [connections EXCEPT ![c].ends.acceptor.state = "handled"]
  /\ UNCHANGED <<status, boot, owed, historyVars>>

-----------------------------------------------------------------------------
(* The 'data' handler: one read takes one or more messages, the codec       *)
(* decodes the first of them, and the receivers are called with it unless   *)
(* stop() detached the server's.                                            *)
Reply(node, message) ==
  [kind |-> "reply", id |-> message.id, from |-> ThisProcess(node), to |-> message.from]

Data(c, side, count) ==
  LET end == connections[c].ends[side]
      node == NodeOf(c, side)
      message == Head(end.in)
      answer == [reply |-> Reply(node, message), endpoint |-> PeerEndpoint(c, side)]
  IN
  /\ end.state = "handled"
  /\ count \in 1..Len(end.in)
  /\ connections' = [connections EXCEPT
       ![c].ends[side].in = SubSeq(@, count + 1, Len(@))]
  /\ merged' = merged \cup {end.in[i] : i \in 2..count}
  /\ IF status[node] = "up"
     THEN /\ received' = received \cup {[message |-> message, by |-> ThisProcess(node)]}
          /\ owed' = owed \cup (IF message.kind = "request" THEN {answer} ELSE {})
     ELSE UNCHANGED <<received, owed>>
  /\ UNCHANGED <<status, boot, sockets, numConnections, sent, departures>>

(* Mutant: a socket ends only at the side that opened the connection.       *)
EndOfOpened(c, side) ==
  LET end == connections[c].ends[side] IN
  /\ side = "opener" /\ end.fin /\ end.in = <<>>
  /\ connections' = [connections EXCEPT ![c].ends[side] = End("closed")]
  /\ \/ end.state = "handled" /\ Remove(NodeOf(c, side), PeerEndpoint(c, side))
     \/ end.state = "orphan" /\ UNCHANGED <<sockets, numConnections>>
  /\ UNCHANGED <<status, boot, owed, historyVars>>

(* The 'end' handler; an orphan's socket ends by itself once it has nothing *)
(* that nobody reads.                                                       *)
EndOfStream(c, side) ==
  LET end == connections[c].ends[side] IN
  /\ end.fin /\ end.in = <<>>
  /\ connections' = [connections EXCEPT ![c].ends[side] = End("closed")]
  /\ \/ end.state = "handled" /\ Remove(NodeOf(c, side), PeerEndpoint(c, side))
     \/ end.state = "orphan" /\ UNCHANGED <<sockets, numConnections>>
  /\ UNCHANGED <<status, boot, owed, historyVars>>

(* An 'error' event of a socket.  connect() put a handler on a socket it    *)
(* made, which does nothing by now, and the dead socket stays registered.   *)
Reset(c) ==
  LET end == connections[c].ends.opener IN
  /\ end.rst /\ ~end.fin
  /\ end.state \in {"handled", "orphan"}
  /\ connections' = [connections EXCEPT
       ![c].ends.opener = End(IF end.state = "handled" THEN "reset" ELSE "closed")]
  /\ UNCHANGED <<processVars, historyVars>>

(* Nothing handles the error of a socket that was accepted: an uncaught     *)
(* exception, which ends the process.                                       *)
ResetOfAccepted(c) ==
  LET end == connections[c].ends.acceptor IN
  /\ end.rst /\ ~end.fin
  /\ end.state = "handled"
  /\ \E overtaken \in BOOLEAN : Die(NodeOf(c, "acceptor"), overtaken)
  /\ UNCHANGED historyVars

-----------------------------------------------------------------------------
(* From outside: a process is killed, or told to stop, or started again.    *)
Exit(node) ==
  /\ Alive(node)
  /\ departures < MaxDepartures
  /\ \E overtaken \in BOOLEAN : Die(node, overtaken)
  /\ departures' = departures + 1
  /\ UNCHANGED <<sent, received, merged>>

(* Server.stop(): the receiver is detached, close() stops listening and     *)
(* destroys every registered socket.  Connects under way, sockets that were *)
(* never registered, and responses held up are left.                        *)
Registered(node, c) == c \in {sockets[node][e] : e \in DOMAIN sockets[node]}

(* Mutant: connections not yet accepted are left to be accepted.            *)
DestroyedByCloseSavedOnly(node) == {end \in EndsOf(node) : Registered(node, end[1])}

DestroyedByClose(node) ==
  {end \in EndsOf(node) :
     \/ Registered(node, end[1])
     \/ connections[end[1]].ends[end[2]].state = "backlog"}

Stop(node) ==
  /\ status[node] = "up"
  /\ departures < MaxDepartures
  /\ status' = [status EXCEPT ![node] = "stopped"]
  /\ \E overtaken \in BOOLEAN :
       connections' = Closing(DestroyedByClose(node), overtaken)
  /\ sockets' = [sockets EXCEPT ![node] = << >>]
  /\ departures' = departures + 1
  /\ UNCHANGED <<boot, numConnections, owed, sent, received, merged>>

Start(node) ==
  /\ status[node] = "gone"
  /\ boot[node] < MaxBoot
  /\ status' = [status EXCEPT ![node] = "up"]
  /\ boot' = [boot EXCEPT ![node] = @ + 1]
  /\ UNCHANGED <<sockets, numConnections, owed, connections, historyVars>>

-----------------------------------------------------------------------------
Init ==
  /\ status = [node \in Node |-> "up"]
  /\ boot = [node \in Node |-> 1]
  /\ sockets = [node \in Node |-> << >>]
  /\ numConnections = [node \in Node |-> 0]
  /\ connections = <<>>
  /\ owed = {}
  /\ sent = {} /\ received = {} /\ merged = {} /\ departures = 0

SocketEvent(c) ==
  \/ Connected(c) \/ Refused(c) \/ Accepted(c)
  \/ \E side \in Sides : \/ EndOfStream(c, side)
                         \/ \E count \in 1..MaxRequests : Data(c, side, count)
  \/ Reset(c) \/ ResetOfAccepted(c)

Next ==
  \/ \E c \in DOMAIN connections : SocketEvent(c)
  \/ \E node \in Node :
       \/ \E peer \in Node : SendRequest(node, peer)
       \/ \E answer \in owed : SendReply(node, answer)
       \/ Exit(node) \/ Stop(node) \/ Start(node)

Spec == Init /\ [][Next]_vars
=============================================================================
