------------------------------ MODULE Network ------------------------------
(***************************************************************************)
(* What the servers may expect of the transport (ITransport,                *)
(* src/net/transport/types.ts): a message is received at most once, by a    *)
(* process of the server it is addressed to; an answer only by the process  *)
(* that asked, and only if the request was received.  Messages may be lost  *)
(* at any time and overtake one another.  TcpTransport implements this.     *)
(***************************************************************************)
EXTENDS Naturals

CONSTANT Node

VARIABLES
  sent,      \* every message ever given to send()
  inFlight,  \* those that may still be received
  received   \* those that a receiver was called with, and in which process

networkVars == <<sent, inFlight, received>>

(* A request is for a server, a reply for the process that asked.           *)
MayReceive(process, message) ==
  IF message.kind = "request" THEN process.node = message.to.node
                              ELSE process = message.to

NetworkInit == sent = {} /\ inFlight = {} /\ received = {}

SendRequest(message) ==
  /\ message.kind = "request"
  /\ \A other \in sent : other.id # message.id
  /\ sent' = sent \cup {message}
  /\ inFlight' \subseteq inFlight \cup {message}
  /\ UNCHANGED received

SendReply(message) ==
  /\ message.kind = "reply"
  /\ message \notin sent
  /\ \E receipt \in received :
       /\ receipt.message.kind = "request" /\ receipt.message.id = message.id
       /\ receipt.by = message.from /\ receipt.message.from = message.to
  /\ sent' = sent \cup {message}
  /\ inFlight' \subseteq inFlight \cup {message}
  /\ UNCHANGED received

Receive(message, process) ==
  /\ message \in inFlight
  /\ MayReceive(process, message)
  /\ received' = received \cup {[message |-> message, by |-> process]}
  /\ inFlight' \subseteq inFlight \ {message}
  /\ UNCHANGED sent

Lose ==
  /\ inFlight' \subseteq inFlight
  /\ UNCHANGED <<sent, received>>

NetworkNext ==
  \/ \E message \in sent' \ sent : SendRequest(message) \/ SendReply(message)
  \/ \E receipt \in received' \ received : Receive(receipt.message, receipt.by)
  \/ Lose

NetworkSpec == NetworkInit /\ [][NetworkNext]_networkVars
=============================================================================
