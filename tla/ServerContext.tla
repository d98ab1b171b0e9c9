--------------------------- MODULE ServerContext ---------------------------
(***************************************************************************)
(* What src/server.ts gives the three states of a server: the term and the  *)
(* vote with their files, the log, the election timer, the state object, and*)
(* the sending of messages.  The states' handlers are in FollowerState,     *)
(* CandidateState and LeaderState; Raft puts them together.                 *)
(*                                                                          *)
(* An action is what one event of the Node.js event loop runs to the end:   *)
(* a message received, a timer, a client request or a finished file write.  *)
(***************************************************************************)
EXTENDS RpcMessage, Bags

ASSUME ClusterAssumption == IsFiniteSet(Server) /\ Cardinality(Server) >= 2

VARIABLES
  role,         \* the type of the state object, or "down"
  boot,         \* how many times the server's process was started
  currentTerm,
  votedFor,
  leaderId,     \* the leader a follower object redirects clients to
  timer,        \* is the election timer running?
  candidates,   \* candidate objects made so far: each still listens to the timer
  serverVotes,  \* the votes of the newest candidate object
  log,
  commitIndex,
  matchIndex,   \* per follower that answered; the entries keyed by position are 0
  nextIndex,    \* per follower that answered; NaN stands for undefined too
  inSync,       \* DurableValue.inSync of the two files
  disk,         \* what the two files hold, Null when empty or absent
  pending,      \* bag of file writes under way and the response each holds up
  messages      \* bag of messages in flight

stateVars == <<role, leaderId, timer, serverVotes, matchIndex, nextIndex>>
termVars == <<currentTerm, votedFor, inSync>>
logVars == <<log, commitIndex>>
processVars == <<boot, candidates, disk>>
vars == <<stateVars, termVars, logVars, processVars, pending, messages>>

Role == {"down", "follower", "candidate", "leader"}
Unknown == [p \in Server |-> Null]
Undefined == [p \in Server |-> NaN]

Up(s) == role[s] # "down"
ProcessOf(s) == [server |-> s, boot |-> boot[s]]
Peers(s) == Server \ {s}

Init ==
  /\ role = [s \in Server |-> "down"]
  /\ boot = [s \in Server |-> 0]
  /\ currentTerm = [s \in Server |-> 0]
  /\ votedFor = [s \in Server |-> Null]
  /\ leaderId = [s \in Server |-> Null]
  /\ timer = [s \in Server |-> FALSE]
  /\ candidates = [s \in Server |-> 0]
  /\ serverVotes = [s \in Server |-> {}]
  /\ log = [s \in Server |-> EmptyLog]
  /\ commitIndex = [s \in Server |-> 0]
  /\ matchIndex = [s \in Server |-> Unknown]
  /\ nextIndex = [s \in Server |-> Undefined]
  /\ inSync = [s \in Server |-> [term |-> FALSE, vote |-> FALSE]]
  /\ disk = [s \in Server |-> [term |-> Null, vote |-> Null]]
  /\ pending = EmptyBag
  /\ messages = EmptyBag

-----------------------------------------------------------------------------
(* Sending.  A message is lost when its receiver is gone, when the          *)
(* connection fails, or when another message reaches the receiver in the    *)
(* same read (tcp.ts:47-51); the messages that will arrive are put in       *)
(* flight, in no particular order.                                          *)

Reachable(process) == Up(process.server) /\ process = ProcessOf(process.server)

Send(received, batch) ==
  \E sent \in SUBSET {m \in batch : Reachable(m.to)} :
    messages' = (messages (-) SetToBag(received)) (+) SetToBag(sent)

Take(received) == messages' = messages (-) SetToBag(received)

Deliverable(m) == m \in BagToSet(messages) /\ Reachable(m.to)

(* A response waits for updatePersistentState: a file that is not in sync   *)
(* is written first, the term's and then the vote's.                        *)
WriteOf(file, value, reply) == [file |-> file, value |-> value, reply |-> reply]

VoteWrite(s, reply) ==
  IF inSync'[s].vote THEN {} ELSE {WriteOf("vote", votedFor'[s], reply)}

(* Mutant: the term goes to the vote's file.                                *)
FirstWriteToVoteFile(s, reply) ==
  IF inSync'[s].term THEN VoteWrite(s, reply)
  ELSE {WriteOf("vote", currentTerm'[s], reply)}

FirstWrite(s, reply) ==
  IF inSync'[s].term THEN VoteWrite(s, reply)
  ELSE {WriteOf("term", currentTerm'[s], reply)}

Respond(m, reply) ==
  LET first == FirstWrite(m.to.server, reply) IN
  /\ pending' = pending (+) SetToBag(first)
  /\ IF first = {} THEN Send({m}, {reply}) ELSE Take({m})

-----------------------------------------------------------------------------
(* Mutant: a new term keeps the vote of the old one.                        *)
SetTermKeepingVote(s, term, vote) ==
  /\ currentTerm' = [currentTerm EXCEPT ![s] = term]
  /\ votedFor' = [votedFor EXCEPT ![s] = IF vote = Null THEN @ ELSE vote]
  /\ inSync' = [inSync EXCEPT ![s] = [term |-> FALSE, vote |-> FALSE]]

(* setCurrentTerm and setVotedFor: a new term forgets the vote.             *)
SetTermAndVote(s, term, vote) ==
  /\ currentTerm' = [currentTerm EXCEPT ![s] = term]
  /\ votedFor' = [votedFor EXCEPT ![s] = vote]
  /\ inSync' = [inSync EXCEPT ![s] = [term |-> FALSE, vote |-> FALSE]]

(* Mutant: a message of the server's own term makes it a follower too.      *)
IsNewerOrSame(s, m) == m.term >= currentTerm[s]

IsNewer(s, m) == m.term > currentTerm[s]

TermAfter(s, m) == IF IsNewer(s, m) THEN m.term ELSE currentTerm[s]

(* Mutant: the server becomes a follower but stays in its term.             *)
ForgetVoteOnly(s, m) ==
  IF IsNewer(s, m) THEN SetTermAndVote(s, currentTerm[s], Null)
  ELSE UNCHANGED termVars

(* Server.handleRpcMessage: a newer term is adopted before the state sees   *)
(* the message.                                                             *)
AdoptTerm(s, m) ==
  IF IsNewer(s, m) THEN SetTermAndVote(s, TermAfter(s, m), Null)
  ELSE UNCHANGED termVars

(* Mutant: a reset stops the timer and does not start it.                   *)
StopTimer(s, resets) == timer' = [timer EXCEPT ![s] = @ /\ ~ resets]

ResetTimer(s, resets) == timer' = [timer EXCEPT ![s] = @ \/ resets]

(* transitionTo("follower", leader) and FollowerState.enter, for a server   *)
(* of any role.  A server that already is a follower keeps its object, and  *)
(* its timer unless the message resets it.                                  *)
BecomeFollower(s, leader, resets) ==
  /\ role' = [role EXCEPT ![s] = "follower"]
  /\ leaderId' = [leaderId EXCEPT ![s] = leader]
  /\ ResetTimer(s, resets \/ role[s] # "follower")
  /\ serverVotes' = [serverVotes EXCEPT ![s] = {}]
  /\ matchIndex' = [matchIndex EXCEPT ![s] = Unknown]
  /\ nextIndex' = [nextIndex EXCEPT ![s] = Undefined]

LeaderKnownAfter(s) == IF role[s] = "follower" THEN leaderId[s] ELSE Null

(* A response or a vote request of a newer term that makes the server a     *)
(* follower and then has nothing to say to it.                              *)
StepDown(s, m) ==
  /\ IsNewer(s, m)
  /\ AdoptTerm(s, m)
  /\ BecomeFollower(s, LeaderKnownAfter(s), FALSE)
  /\ Take({m})
  /\ UNCHANGED <<logVars, processVars, pending>>

Ignore(m) ==
  /\ Take({m})
  /\ UNCHANGED <<stateVars, termVars, logVars, processVars, pending>>

-----------------------------------------------------------------------------
(* The process.                                                             *)

(* Mutant: the term's file is not read.                                     *)
ZeroTerm(s) == 0

StoredTerm(s) == IF disk[s].term = Null THEN 0 ELSE disk[s].term

(* Server.start: the term is read from its file, or 0 is written to it; the *)
(* vote is not read.  Nothing reaches the server before it is a follower.   *)
Start(s) ==
  /\ ~ Up(s)
  /\ boot' = [boot EXCEPT ![s] = @ + 1]
  /\ currentTerm' = [currentTerm EXCEPT ![s] = StoredTerm(s)]
  /\ disk' = [disk EXCEPT ![s].term = IF @ = Null THEN 0 ELSE @]
  /\ inSync' = [inSync EXCEPT ![s].term = TRUE]
  /\ BecomeFollower(s, Null, FALSE)
  /\ UNCHANGED <<votedFor, candidates, logVars, pending, messages>>

(* The process dies and its memory with it.  A write under way may have     *)
(* reached the file; messages to the process and its responses are lost.    *)
Stored(s, file) ==
  {disk[s][file]} \cup
  {w.value : w \in {w \in BagToSet(pending) : w.reply.from.server = s /\ w.file = file}}

Die(s) ==
  /\ role' = [role EXCEPT ![s] = "down"]
  /\ leaderId' = [leaderId EXCEPT ![s] = Null]
  /\ timer' = [timer EXCEPT ![s] = FALSE]
  /\ candidates' = [candidates EXCEPT ![s] = 0]
  /\ serverVotes' = [serverVotes EXCEPT ![s] = {}]
  /\ matchIndex' = [matchIndex EXCEPT ![s] = Unknown]
  /\ nextIndex' = [nextIndex EXCEPT ![s] = Undefined]
  /\ SetTermAndVote(s, 0, Null)
  /\ log' = [log EXCEPT ![s] = EmptyLog]
  /\ commitIndex' = [commitIndex EXCEPT ![s] = 0]
  /\ \E term \in Stored(s, "term"), vote \in Stored(s, "vote") :
       disk' = [disk EXCEPT ![s] = [term |-> term, vote |-> vote]]
  /\ pending' = Restrict(pending, {w \in BagToSet(pending) : w.reply.from.server # s})
  /\ messages' = Restrict(messages, {m \in BagToSet(messages) : m.to.server # s})
  /\ UNCHANGED boot

Crash(s) == Up(s) /\ Die(s)

-----------------------------------------------------------------------------
(* The end of a file write (src/storage/storage.ts:90-99).  The value       *)
(* counts as in sync whatever was set while the write was under way.        *)
MarkInSync(w) ==
  inSync' = [inSync EXCEPT ![w.reply.from.server][w.file] = TRUE]

(* A granted vote resets the timer once it is sent, in whatever state the   *)
(* server is by then (src/state/follower.ts:199-212).                       *)
GrantsVote(m) == m.type = "RequestVoteResponse" /\ m.voteGranted

SendThenResetTimer(s, reply) ==
  \/ /\ Send({}, {reply})
     /\ ResetTimer(s, GrantsVote(reply))
  \/ UNCHANGED <<messages, timer>>      \* the connection is refused

(* The term's write is followed by the vote's unless the vote is in sync;   *)
(* then the response is sent.                                               *)
WriteDone(w) ==
  LET s == w.reply.from.server
      next == IF w.file = "term" THEN VoteWrite(s, w.reply) ELSE {}
  IN /\ w \in BagToSet(pending)
     /\ disk' = [disk EXCEPT ![s][w.file] = w.value]
     /\ MarkInSync(w)
     /\ UNCHANGED <<currentTerm, votedFor, role, leaderId, serverVotes, matchIndex,
                    nextIndex, logVars, boot, candidates>>
     /\ pending' = (pending (-) SetToBag({w})) (+) SetToBag(next)
     /\ IF next = {} THEN SendThenResetTimer(s, w.reply)
        ELSE UNCHANGED <<messages, timer>>

(* The write fails: the response is dropped, the value counts as in sync.   *)
WriteFails(w) ==
  /\ w \in BagToSet(pending)
  /\ MarkInSync(w)
  /\ pending' = pending (-) SetToBag({w})
  /\ UNCHANGED <<currentTerm, votedFor, stateVars, logVars, processVars, messages>>
=============================================================================
