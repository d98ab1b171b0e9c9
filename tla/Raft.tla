-------------------------------- MODULE Raft --------------------------------
(***************************************************************************)
(* A cluster of src/server.ts servers: the state of each and the messages   *)
(* between them.                                                            *)
(***************************************************************************)
EXTENDS FollowerState, CandidateState

(* A message that leaves the state as it is, or only makes it a follower:   *)
(* a response that is not for the state the server is in, a refused vote,   *)
(* or a request that finds a candidate or a leader of its term or a later   *)
(* one.                                                                     *)
HasNoHandler(m) ==
  LET s == m.to.server IN
  CASE m.type = "RequestVoteRequest" -> role[s] # "follower"
    [] m.type = "AppendEntriesRequest" ->
         \/ role[s] = "leader"
         \/ role[s] = "candidate" /\ m.term < currentTerm[s]
    [] m.type = "RequestVoteResponse" -> role[s] # "candidate" \/ ~ m.voteGranted
    [] OTHER -> role[s] # "leader"

ReceiveResponseOfNewerTerm(m) ==
  Deliverable(m) /\ IsResponse(m) /\ StepDown(m.to.server, m)

ReceiveUnhandled(m) ==
  Deliverable(m) /\ ~ IsNewer(m.to.server, m) /\ HasNoHandler(m) /\ Ignore(m)

Receive(m) ==
  \/ ReceiveRequestVoteRequest(m)
  \/ ReceiveAppendEntriesRequest(m)
  \/ ReceiveVote(m)
  \/ YieldToLeader(m)
  \/ ReceiveAppendEntriesResponse(m)
  \/ ReceiveResponseOfNewerTerm(m)
  \/ ReceiveUnhandled(m)

Next ==
  \/ \E s \in Server :
       \/ Start(s)
       \/ Crash(s)
       \/ Timeout(s)
       \/ TimeoutWithoutLog(s)
       \/ Heartbeat(s)
       \/ \E command \in Command : Execute(s, command)
  \/ \E w \in BagToSet(pending) : WriteDone(w) \/ WriteFails(w)
  \/ \E m \in BagToSet(messages) : Receive(m)

Spec == Init /\ [][Next]_vars

-----------------------------------------------------------------------------
(* Fairness.  While a server leads, its interval timer fires every 10 ms    *)
(* and the network that keeps losing heartbeats sometimes delivers one; the *)
(* event loop gets to a message that has arrived and to a write that ended. *)
(* Nothing is assumed of elections.                                         *)
HeartbeatArrives(s, p) ==
  /\ Heartbeat(s)
  /\ \E m \in BagToSet(messages') :
       m.to.server = p /\ (m \in BagToSet(messages) => messages'[m] > messages[m])

ReceiveHeartbeat(s, p) ==
  \E m \in BagToSet(messages) :
    /\ m.type = "AppendEntriesRequest"
    /\ m.from.server = s /\ m.to.server = p /\ m.term = currentTerm[s]
    /\ Receive(m)

ReceiveAny == \E m \in BagToSet(messages) : Receive(m)

FinishWrite == \E w \in BagToSet(pending) : WriteDone(w)

Fairness ==
  /\ WF_vars(ReceiveAny)
  /\ WF_vars(FinishWrite)
  /\ \A s \in Server : \A p \in Peers(s) :
       /\ WF_vars(HeartbeatArrives(s, p))
       /\ SF_vars(ReceiveHeartbeat(s, p))

FairSpec == Spec /\ Fairness
=============================================================================
