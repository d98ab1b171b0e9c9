------------------------ MODULE TransportProperties ------------------------
(***************************************************************************)
(* The properties of the TCP transport.                                     *)
(***************************************************************************)
EXTENDS TcpTransport

(* A message that may still be received: it waits for its connection, or    *)
(* lies in a socket whose 'data' handler will read it in a process that     *)
(* still listens to its transport.  What lies in an orphan is never read.   *)
Waiting == {connections[c].waiting : c \in
             {d \in DOMAIN connections : connections[d].ends.opener.state = "opening"}}

Readable(c, side) ==
  /\ connections[c].ends[side].state \in {"backlog", "handled"}
  /\ status[NodeOf(c, side)] = "up"

InSockets == UNION {Range(connections[end[1]].ends[end[2]].in) :
                      end \in {e \in (DOMAIN connections) \X Sides :
                                 Readable(e[1], e[2])}}

InFlight == Waiting \cup InSockets

-----------------------------------------------------------------------------
(* Types of the sockets, the registries and the messages in them.           *)
Processes == [node : Node, boot : 1..MaxBoot]
Messages ==
  [kind : {"request"}, id : 1..MaxRequests, from : Processes, to : [node : Node]]
  \cup [kind : {"reply"}, id : 1..MaxRequests, from : Processes, to : Processes]

TransportTypeOK ==
  /\ status \in [Node -> {"up", "stopped", "gone"}]
  /\ boot \in [Node -> 1..MaxBoot]
  /\ \A node \in Node :
       /\ DOMAIN sockets[node] \subseteq Node \X (0..MaxConnections)
       /\ Range(sockets[node]) \subseteq DOMAIN connections
  /\ numConnections \in [Node -> 0..MaxConnections]
  /\ \A c \in DOMAIN connections : \A side \in Sides :
       LET end == connections[c].ends[side] IN
       /\ end.state \in EndStates
       /\ Range(end.in) \subseteq Messages
       /\ end.fin \in BOOLEAN /\ end.rst \in BOOLEAN
  /\ sent \subseteq Messages
  /\ received \subseteq [message : Messages, by : Processes]
  /\ owed \subseteq [reply : Messages, endpoint : Node \X (1..MaxConnections)]

(* What Raft.tla assumes of Send and Deliverable: whatever sockets are      *)
(* opened, orphaned, reset and closed, each message is received at most     *)
(* once, by its addressee, and a reply only by the process that asked.      *)
Abstract == INSTANCE Network WITH inFlight <- InFlight

ImplementsNetwork == Abstract!NetworkSpec

(* The registry and the handlers of accept() agree: a socket has handlers   *)
(* exactly if it is the one registered under its peer's endpoint, but for a *)
(* socket that a connection error destroyed, which stays registered; so     *)
(* requests to a peer share one socket that is read.                        *)
RegistryHoldsHandledSockets ==
  \A c \in DOMAIN connections : \A side \in Sides :
    LET node == NodeOf(c, side)
        state == connections[c].ends[side].state
        registered == /\ Has(node, PeerEndpoint(c, side))
                      /\ sockets[node][PeerEndpoint(c, side)] = c
    IN  /\ state = "handled" => registered
        /\ registered => \/ state = "handled"
                         \/ state = "reset" /\ side = "opener"

(* While nobody has ended or stopped a process, every request that was sent *)
(* is on its way, was received, or was lost in a read that took several     *)
(* messages, and every reply also unless it lies in an orphan: losing the   *)
(* race of two connects costs no request.                                   *)
InOrphans == UNION {Range(connections[c].ends.opener.in) :
                      c \in {d \in DOMAIN connections :
                               connections[d].ends.opener.state = "orphan"}}

NothingElseIsLostInPeace ==
  departures = 0 =>
    sent = UNION {InFlight, merged, InOrphans, {receipt.message : receipt \in received}}

(* The exceptions of the sockets (a failed write throws, an accepted socket *)
(* has no error handler) end no process unless somebody ended or stopped    *)
(* another one first.                                                       *)
ProcessesSurviveInPeace == departures = 0 => \A node \in Node : status[node] = "up"

(* count() is the number of sockets the registry holds until a socket is    *)
(* removed from it, and never less than that.                               *)
CountCoversRegistry ==
  \A node \in Node :
    /\ numConnections[node] >= Cardinality(DOMAIN sockets[node])
    /\ departures = 0 => numConnections[node] = Cardinality(DOMAIN sockets[node])

(* After stop() a process serves nobody: the only sockets it registers are  *)
(* those of its own connects, under way or made later, and what they bring  *)
(* is read by no one.                                                       *)
StoppedServesNobody ==
  [][\A node \in Node : status[node] = "stopped" =>
       /\ DOMAIN sockets'[node] \subseteq {Listening(peer) : peer \in Node}
       /\ \A receipt \in received' \ received : receipt.by # ThisProcess(node)]_vars

-----------------------------------------------------------------------------
(* The event loop gets to the events of a connection's sockets.             *)
EventsHandled ==
  \A c \in 1..MaxConnections : WF_vars(c \in DOMAIN connections /\ SocketEvent(c))

FairSpec == Spec /\ EventsHandled

(* A server that registered a socket notices when the other end is closed:  *)
(* it removes the socket, finds it reset, or comes to an end itself.        *)
HalfClosed(c) ==
  /\ c \in DOMAIN connections
  /\ {connections[c].ends[side].state : side \in Sides} = {"handled", "closed"}

ClosureIsNoticed == \A c \in 1..MaxConnections : HalfClosed(c) ~> ~HalfClosed(c)
=============================================================================
