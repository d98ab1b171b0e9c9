----------------------------- MODULE RaftProofs -----------------------------
(***************************************************************************)
(* Theorems about Raft, for every set of servers and of commands: the types,*)
(* and that nothing is ever committed.  Their inductive invariant is the one*)
(* that the theorems of ElectionProofs and LogProofs start from.            *)
(***************************************************************************)
EXTENDS RaftLemmas

-----------------------------------------------------------------------------
(* The inductive invariant.  To keep the commit index at zero it says that  *)
(* no message reports a commit and no match index is above zero; to keep    *)
(* the types, that candidates and leaders have a last entry to name.        *)

StateInv ==
  /\ role \in [Server -> Role]
  /\ leaderId \in [Server -> Server \cup {Null}]
  /\ timer \in [Server -> BOOLEAN]
  /\ serverVotes \in [Server -> SUBSET Server]
  /\ matchIndex \in [Server -> [Server -> {0, Null}]]
  /\ nextIndex \in [Server -> [Server -> Int \cup {NaN}]]

TermInv ==
  /\ currentTerm \in [Server -> Nat]
  /\ votedFor \in [Server -> Server \cup {Null}]
  /\ inSync \in [Server -> [term : BOOLEAN, vote : BOOLEAN]]

LogInv == log \in [Server -> Seq(LogEntry)] /\ commitIndex \in [Server -> {0}]

ProcessInv ==
  /\ boot \in [Server -> Nat]
  /\ candidates \in [Server -> Nat]
  /\ disk \in [Server -> [term : Nat \cup {Null}, vote : Server \cup {Null}]]

ReportsNoCommit(m) ==
  /\ m.type = "AppendEntriesRequest" => m.leaderCommit = 0
  /\ m.type = "AppendEntriesResponse" => m.followerCommit = 0

PendingInv ==
  /\ IsABag(pending)
  /\ \A w \in BagToSet(pending) : w \in Write /\ ReportsNoCommit(w.reply)

MessagesInv ==
  /\ IsABag(messages)
  /\ \A m \in BagToSet(messages) : m \in Message /\ ReportsNoCommit(m)

ServerInv == StateInv /\ TermInv /\ LogInv /\ ProcessInv

(* A server that is a candidate or a leader after a step has a last entry   *)
(* to name in its messages.  This is not said of the middle of an election  *)
(* (src/state/candidate.ts:125): with no entry that election has raised the *)
(* term when it throws, and the step leaves the server down instead.        *)
StanderHasLog ==
  \A s \in Server : role[s] \in {"candidate", "leader"} => log[s] # <<>>

IInv == ServerInv /\ PendingInv /\ MessagesInv /\ StanderHasLog

(* The invariant contains the types and that nothing is committed.          *)
LEMMA InvariantImplies == IInv => TypeOK /\ NothingCommitted
<1> SUFFICES ASSUME IInv PROVE TypeOK /\ NothingCommitted
  OBVIOUS
<1> USE DEF IInv, ServerInv
<1>1. ServersTypeOK
  <2>1. matchIndex \in [Server -> [Server -> Nat \cup {Null}]]
    <3>1. \A s \in Server : matchIndex[s] \in [Server -> Nat \cup {Null}]
      BY DEF StateInv
    <3> QED BY <3>1 DEF StateInv
  <2> QED BY <2>1 DEF ServersTypeOK, StateInv, TermInv, LogInv, ProcessInv
<1>2. TypeOK
  BY <1>1 DEF TypeOK, PendingInv, MessagesInv
<1>3. NothingCommitted
  BY MedianOfZeros DEF NothingCommitted, StateInv, LogInv
<1> QED BY <1>2, <1>3

LEMMA InitInvariant == Init => IInv
<1> SUFFICES ASSUME Init PROVE IInv
  OBVIOUS
<1>1. IsABag(EmptyBag) /\ BagToSet(EmptyBag) = {}
  BY SetToBagElements DEF EmptyBag
<1>2. EmptyLog \in Seq(LogEntry)
  BY DEF EmptyLog, Sentinel, LogEntry
<1>3. StateInv
  BY DEF Init, StateInv, Role, Unknown, Undefined
<1>4. TermInv /\ ProcessInv
  BY DEF Init, TermInv, ProcessInv
<1>5. LogInv
  BY <1>2 DEF Init, LogInv
<1>6. PendingInv /\ MessagesInv
  BY <1>1 DEF Init, PendingInv, MessagesInv
<1>7. StanderHasLog
  BY DEF Init, StanderHasLog
<1> QED BY <1>3, <1>4, <1>5, <1>6, <1>7 DEF IInv, ServerInv

-----------------------------------------------------------------------------
(* What the shared steps keep of it.                                        *)

LEMMA SendKeeps ==
  ASSUME MessagesInv, NEW received, NEW batch, Send(received, batch),
         \A m \in batch : m \in Message /\ ReportsNoCommit(m)
  PROVE  MessagesInv'
  BY SendElements DEF MessagesInv, ReportsNoCommit

LEMMA TakeKeeps ==
  ASSUME MessagesInv, NEW received, Take(received)
  PROVE  MessagesInv'
  BY TakeElements DEF MessagesInv, ReportsNoCommit

LEMMA VoteWriteType ==
  ASSUME TermInv', NEW s \in Server, NEW reply \in Responses
  PROVE  \A w \in VoteWrite(s, reply) : w \in Write /\ w.reply = reply
  BY DEF VoteWrite, WriteOf, Write, TermInv

LEMMA RespondKeeps ==
  ASSUME MessagesInv, PendingInv, TermInv', NEW m, NEW reply \in Responses,
         m.to.server \in Server, ReportsNoCommit(reply), Respond(m, reply)
  PROVE  MessagesInv' /\ PendingInv'
<1>1. \A w \in FirstWrite(m.to.server, reply) : w \in Write /\ w.reply = reply
  <2>1. CASE inSync'[m.to.server].term
    BY <2>1, VoteWriteType DEF FirstWrite
  <2>2. CASE ~ inSync'[m.to.server].term
    BY <2>2 DEF FirstWrite, WriteOf, Write, TermInv
  <2> QED BY <2>1, <2>2
<1>2. reply \in Message
  BY DEF Message
<1>3. /\ IsABag(messages')
      /\ BagToSet(messages') \subseteq BagToSet(messages) \cup {reply}
      /\ IsABag(pending')
      /\ BagToSet(pending') \subseteq
           BagToSet(pending) \cup FirstWrite(m.to.server, reply)
  BY RespondElements DEF MessagesInv, PendingInv
<1>4. MessagesInv'
  BY <1>2, <1>3 DEF MessagesInv, ReportsNoCommit
<1>5. PendingInv'
  BY <1>1, <1>3 DEF PendingInv, ReportsNoCommit
<1> QED BY <1>4, <1>5

LEMMA SetTermAndVoteKeeps ==
  ASSUME TermInv, NEW s \in Server, NEW t \in Nat, NEW v \in Server \cup {Null},
         SetTermAndVote(s, t, v)
  PROVE  TermInv'
  BY DEF TermInv, SetTermAndVote

LEMMA AdoptTermKeeps ==
  ASSUME TermInv, NEW s \in Server, NEW m, m.term \in Nat, AdoptTerm(s, m)
  PROVE  TermInv' /\ TermAfter(s, m) \in Nat /\ currentTerm'[s] = TermAfter(s, m)
<1>1. CASE IsNewer(s, m)
  <2>1. SetTermAndVote(s, m.term, Null) /\ TermAfter(s, m) = m.term
    BY <1>1 DEF AdoptTerm, TermAfter
  <2> QED BY <2>1, SetTermAndVoteKeeps DEF SetTermAndVote, TermInv
<1>2. CASE ~ IsNewer(s, m)
  BY <1>2 DEF AdoptTerm, TermAfter, termVars, TermInv
<1> QED BY <1>1, <1>2

LEMMA BecomeFollowerKeeps ==
  ASSUME StateInv, NEW s \in Server, NEW leader \in Server \cup {Null},
         NEW resets \in BOOLEAN, BecomeFollower(s, leader, resets)
  PROVE  StateInv'
<1>1. Unknown \in [Server -> {0, Null}] /\ Undefined \in [Server -> Int \cup {NaN}]
  BY DEF Unknown, Undefined
<1> QED BY <1>1 DEF StateInv, BecomeFollower, ResetTimer, Role

(* A server that became a follower needs no entry, the others keep theirs.  *)
LEMMA FollowerNeedsNoEntry ==
  ASSUME StateInv, StanderHasLog, NEW s \in Server,
         role' = [role EXCEPT ![s] = "follower"],
         \A p \in Server \ {s} : log'[p] = log[p]
  PROVE  StanderHasLog'
  BY DEF StateInv, StanderHasLog

-----------------------------------------------------------------------------
(* One lemma per action: each keeps the invariant.                          *)

LEMMA StartKeeps == ASSUME IInv, NEW s \in Server, Start(s) PROVE IInv'
<1> USE DEF IInv, ServerInv
<1>1. StateInv'
  BY BecomeFollowerKeeps DEF Start
<1>2. TermInv'
  BY DEF Start, StoredTerm, TermInv, ProcessInv
<1>3. LogInv' /\ PendingInv' /\ MessagesInv'
  BY DEF Start, logVars, LogInv, PendingInv, MessagesInv, ReportsNoCommit
<1>4. ProcessInv'
  BY DEF Start, ProcessInv
<1>5. StanderHasLog'
  BY FollowerNeedsNoEntry DEF Start, BecomeFollower, logVars
<1> QED BY <1>1, <1>2, <1>3, <1>4, <1>5

LEMMA DieKeeps == ASSUME IInv, NEW s \in Server, Die(s) PROVE IInv'
<1> USE DEF IInv, ServerInv
<1>1. StateInv'
  BY DEF Die, StateInv, Role, Unknown, Undefined
<1>2. TermInv'
  <2>1. SetTermAndVote(s, 0, Null)
    BY DEF Die
  <2> QED BY <2>1, SetTermAndVoteKeeps
<1>3. LogInv'
  <2>1. EmptyLog \in Seq(LogEntry)
    BY DEF EmptyLog, Sentinel, LogEntry
  <2> QED BY <2>1 DEF Die, LogInv
<1>4. ProcessInv'
  <2>1. Stored(s, "term") \subseteq Nat \cup {Null}
    BY DEF Stored, Write, PendingInv, ProcessInv
  <2>2. Stored(s, "vote") \subseteq Server \cup {Null}
    BY DEF Stored, Write, PendingInv, ProcessInv
  <2>3. PICK term \in Nat \cup {Null}, vote \in Server \cup {Null} :
          disk' = [disk EXCEPT ![s] = [term |-> term, vote |-> vote]]
    BY <2>1, <2>2 DEF Die
  <2>4. disk' \in [Server -> [term : Nat \cup {Null}, vote : Server \cup {Null}]]
    BY <2>3 DEF ProcessInv
  <2> QED BY <2>4 DEF Die, ProcessInv
<1>5. PendingInv'
  <2> DEFINE rest == {w \in BagToSet(pending) : w.reply.from.server # s}
  <2>1. rest \in SUBSET DOMAIN pending
    BY DEF BagToSet
  <2>2. pending' = Restrict(pending, rest)
    BY DEF Die
  <2> HIDE DEF rest
  <2>3. IsABag(pending') /\ BagToSet(pending') \subseteq BagToSet(pending)
    BY <2>1, <2>2, RestrictElements DEF PendingInv
  <2> QED BY <2>3 DEF PendingInv, ReportsNoCommit
<1>6. MessagesInv'
  <2> DEFINE rest == {m \in BagToSet(messages) : m.to.server # s}
  <2>1. rest \in SUBSET DOMAIN messages
    BY DEF BagToSet
  <2>2. messages' = Restrict(messages, rest)
    BY DEF Die
  <2> HIDE DEF rest
  <2>3. IsABag(messages') /\ BagToSet(messages') \subseteq BagToSet(messages)
    BY <2>1, <2>2, RestrictElements DEF MessagesInv
  <2> QED BY <2>3 DEF MessagesInv, ReportsNoCommit
<1>7. StanderHasLog'
  BY DEF Die, StateInv, StanderHasLog, LogInv
<1> QED BY <1>1, <1>2, <1>3, <1>4, <1>5, <1>6, <1>7

(* An election: the requests it sends are messages.                         *)
LEMMA TimeoutKeeps == ASSUME IInv, NEW s \in Server, Timeout(s) PROVE IInv'
<1> USE DEF IInv, ServerInv
<1> DEFINE elections == ElectionsAfterTimeout(s)
           term == currentTerm[s] + elections
           batch == {RequestVoteRequest(ProcessOf(s), ProcessOf(p), t) :
                       p \in Peers(s), t \in (currentTerm[s] + 1)..term}
<1>1. elections \in Nat /\ CandidatesAfterTimeout(s) \in Nat
  BY DEF ElectionsAfterTimeout, CandidatesAfterTimeout, ProcessInv
<1>2. term \in Nat /\ currentTerm[s] \in Nat
  BY <1>1 DEF TermInv
<1>3. StartElections(s, elections)
  BY DEF Timeout
<1>4. StateInv'
  BY <1>3 DEF StartElections, ResetTimer, StateInv, Role, Unknown, Undefined
<1>5. TermInv'
  <2>1. SetTermAndVote(s, term, s)
    BY <1>3 DEF StartElections
  <2> HIDE DEF term
  <2> QED BY <1>2, <2>1, SetTermAndVoteKeeps
<1>6. LogInv' /\ PendingInv'
  BY DEF Timeout, logVars, LogInv, PendingInv, ReportsNoCommit
<1>7. ProcessInv'
  BY <1>1 DEF Timeout, ProcessInv
<1>8. MessagesInv'
  <2>1. \A m \in batch : m \in Message /\ ReportsNoCommit(m)
    <3>1. \A p \in Server : ProcessOf(p) \in Process
      BY DEF ProcessOf, Process, ProcessInv
    <3> SUFFICES ASSUME NEW p \in Peers(s), NEW t \in (currentTerm[s] + 1)..term
                 PROVE  LET m == RequestVoteRequest(ProcessOf(s), ProcessOf(p), t)
                        IN m \in Message /\ ReportsNoCommit(m)
      OBVIOUS
    <3>2. t \in Nat /\ p \in Server
      BY <1>2 DEF Peers
    <3>3. RequestVoteRequest(ProcessOf(s), ProcessOf(p), t) \in RequestVoteRequests
      BY <3>1, <3>2, RequestVoteRequestType
    <3> QED BY <3>3 DEF Message, RequestVoteRequests, ReportsNoCommit
  <2>2. Send({}, batch)
    BY <1>3 DEF StartElections
  <2> HIDE DEF batch
  <2> QED BY <2>1, <2>2, SendKeeps
<1>9. StanderHasLog'
  BY <1>3 DEF Timeout, StartElections, logVars, StateInv, StanderHasLog
<1> QED BY <1>4, <1>5, <1>6, <1>7, <1>8, <1>9

(* What a leader sends of a log with an entry are messages.                 *)
LEMMA SendAppendEntriesKeeps ==
  ASSUME IInv, NEW s \in Server, NEW received, NEW entries \in Seq(LogEntry),
         entries # <<>>, NEW next \in [Server -> Int \cup {NaN}],
         SendAppendEntries(s, received, next, entries)
  PROVE  MessagesInv'
<1> USE DEF IInv, ServerInv
<1> DEFINE batch == {AppendEntriesTo(s, p, next[p], entries) : p \in Peers(s)}
<1>1. \A p \in Peers(s) : /\ AppendEntriesTo(s, p, next[p], entries) \in Message
                          /\ ReportsNoCommit(AppendEntriesTo(s, p, next[p], entries))
  <2> TAKE p \in Peers(s)
  <2>1. p \in Server
    BY DEF Peers
  <2>2. ProcessOf(s) \in Process /\ ProcessOf(p) \in Process
    BY <2>1 DEF ProcessOf, Process, ProcessInv
  <2>3. LastIndex(entries) \in Nat /\ LastTerm(entries) \in Nat
    BY LastEntryType
  <2>4. Slice(entries, next[p]) \in Seq(LogEntry)
    BY <2>1, SliceType
  <2>5. currentTerm[s] \in Nat /\ commitIndex[s] = 0
    BY DEF TermInv, LogInv
  <2>6. ProcessOf(s).server \in Server
    BY <2>2 DEF Process
  <2>7. AppendEntriesTo(s, p, next[p], entries) \in AppendEntriesRequests
    BY <2>2, <2>3, <2>4, <2>5, <2>6
    DEF AppendEntriesTo, AppendEntriesRequest, AppendEntriesRequests
  <2> QED BY <2>5, <2>7 DEF Message, ReportsNoCommit, AppendEntriesTo,
                            AppendEntriesRequest
<1>2. Send(received, batch)
  BY DEF SendAppendEntries
<1>3. \A m \in batch : m \in Message /\ ReportsNoCommit(m)
  BY <1>1
<1> HIDE DEF batch
<1> QED BY <1>2, <1>3, SendKeeps

LEMMA HeartbeatKeeps == ASSUME IInv, NEW s \in Server, Heartbeat(s) PROVE IInv'
<1> USE DEF IInv, ServerInv
<1>1. MessagesInv'
  <2>1. log[s] \in Seq(LogEntry) /\ log[s] # <<>>
    BY DEF Heartbeat, LogInv, StanderHasLog
  <2>2. nextIndex[s] \in [Server -> Int \cup {NaN}]
    BY DEF StateInv
  <2>3. SendAppendEntries(s, {}, nextIndex[s], log[s])
    BY DEF Heartbeat
  <2> QED BY <2>1, <2>2, <2>3, SendAppendEntriesKeeps
<1>2. StateInv' /\ TermInv' /\ LogInv' /\ ProcessInv'
  BY DEF Heartbeat, stateVars, termVars, logVars, processVars,
         StateInv, TermInv, LogInv, ProcessInv
<1>3. PendingInv' /\ StanderHasLog'
  BY DEF Heartbeat, stateVars, logVars, PendingInv, ReportsNoCommit, StanderHasLog
<1> QED BY <1>1, <1>2, <1>3

LEMMA ExecuteKeeps ==
  ASSUME IInv, NEW s \in Server, NEW command \in Command, Execute(s, command)
  PROVE  IInv'
<1> USE DEF IInv, ServerInv
<1> DEFINE entry == [index |-> NextIndex(log[s]), term |-> currentTerm[s],
                     command |-> command]
<1>1. entry \in LogEntry
  BY DEF LogEntry, NextIndex, LogInv, TermInv
<1>2. /\ SendAppendEntries(s, {}, nextIndex[s], Append(log[s], entry))
      /\ log' = [log EXCEPT ![s] = Append(@, entry)]
      /\ role[s] = "leader"
  BY DEF Execute
<1>3. UNCHANGED <<stateVars, termVars, commitIndex, processVars, pending>>
  BY DEF Execute
<1> HIDE DEF entry
<1>4. Append(log[s], entry) \in Seq(LogEntry) /\ Append(log[s], entry) # <<>>
  BY <1>1, AppendType DEF LogInv
<1>5. MessagesInv'
  <2>1. nextIndex[s] \in [Server -> Int \cup {NaN}]
    BY DEF StateInv
  <2> QED BY <1>2, <1>4, <2>1, SendAppendEntriesKeeps
<1>6. LogInv'
  BY <1>2, <1>3, <1>4 DEF LogInv
<1>7. StateInv' /\ TermInv' /\ ProcessInv'
  BY <1>3 DEF stateVars, termVars, processVars, StateInv, TermInv, ProcessInv
<1>8. PendingInv'
  BY <1>3 DEF PendingInv, ReportsNoCommit
<1>9. StanderHasLog'
  BY <1>2, <1>3, <1>4 DEF stateVars, LogInv, StanderHasLog
<1> QED BY <1>5, <1>6, <1>7, <1>8, <1>9

(* The write's response goes out, or the vote's write is under way.         *)
LEMMA WriteDoneKeeps ==
  ASSUME IInv, NEW w \in BagToSet(pending), WriteDone(w)
  PROVE  IInv'
<1> USE DEF IInv, ServerInv
<1> DEFINE s == w.reply.from.server
           next == IF w.file = "term" THEN VoteWrite(s, w.reply) ELSE {}
<1>1. /\ w \in Write /\ w.reply \in Responses /\ w.reply \in Message
      /\ s \in Server /\ ReportsNoCommit(w.reply)
  <2>1. w \in Write /\ ReportsNoCommit(w.reply)
    BY DEF PendingInv
  <2>2. w.reply \in Responses
    BY <2>1 DEF Write
  <2>3. w.reply \in Message
    BY <2>2 DEF Message
  <2> QED BY <2>1, <2>2, <2>3, MessageTypes
<1>2. /\ disk' = [disk EXCEPT ![s][w.file] = w.value]
      /\ inSync' = [inSync EXCEPT ![s][w.file] = TRUE]
      /\ UNCHANGED <<currentTerm, votedFor, role, leaderId, serverVotes,
                     matchIndex, nextIndex, logVars, boot, candidates>>
      /\ pending' = (pending (-) SetToBag({w})) (+) SetToBag(next)
      /\ IF next = {} THEN SendThenResetTimer(s, w.reply)
         ELSE UNCHANGED <<messages, timer>>
  BY DEF WriteDone, MarkInSync
<1> HIDE DEF s, next
<1>3. TermInv'
  BY <1>1, <1>2 DEF TermInv, Write
<1>4. ProcessInv'
  BY <1>1, <1>2 DEF ProcessInv, Write
<1>5. LogInv' /\ StanderHasLog'
  BY <1>2 DEF logVars, LogInv, StanderHasLog
<1>6. timer' \in [Server -> BOOLEAN] /\ MessagesInv'
  <2>1. CASE SendThenResetTimer(s, w.reply)
    <3>1. CASE /\ Send({}, {w.reply})
               /\ ResetTimer(s, GrantsVote(w.reply))
      <4>1. MessagesInv'
        BY <1>1, <3>1, SendKeeps
      <4>2. GrantsVote(w.reply) \in BOOLEAN /\ timer[s] \in BOOLEAN
        BY <1>1 DEF GrantsVote, StateInv
      <4>3. (timer[s] \/ GrantsVote(w.reply)) \in BOOLEAN
        BY <4>2
      <4>4. timer' \in [Server -> BOOLEAN]
        BY <1>1, <3>1, <4>3 DEF ResetTimer, StateInv
      <4> QED BY <4>1, <4>4
    <3>2. CASE UNCHANGED <<messages, timer>>
      BY <3>2 DEF StateInv, MessagesInv, ReportsNoCommit
    <3> QED BY <2>1, <3>1, <3>2 DEF SendThenResetTimer
  <2>2. CASE UNCHANGED <<messages, timer>>
    BY <2>2 DEF StateInv, MessagesInv, ReportsNoCommit
  <2> QED BY <1>2, <2>1, <2>2
<1>7. StateInv'
  BY <1>2, <1>6 DEF StateInv
<1>8. PendingInv'
  <2>1. \A x \in next : x \in Write /\ x.reply = w.reply
    BY <1>1, <1>3, VoteWriteType DEF next
  <2> DEFINE rest == pending (-) SetToBag({w})
  <2>2. IsABag(rest) /\ BagToSet(rest) \subseteq BagToSet(pending)
    BY SetToBagElements, BagDifferenceElements DEF PendingInv
  <2>3. pending' = rest (+) SetToBag(next)
    BY <1>2
  <2> HIDE DEF rest
  <2>4. IsABag(pending') /\ BagToSet(pending') = BagToSet(rest) \cup next
    BY <2>2, <2>3, SetToBagElements, BagUnionElements
  <2> QED BY <1>1, <2>1, <2>2, <2>4 DEF PendingInv, ReportsNoCommit
<1> QED BY <1>3, <1>4, <1>5, <1>6, <1>7, <1>8

LEMMA WriteFailsKeeps ==
  ASSUME IInv, NEW w \in BagToSet(pending), WriteFails(w)
  PROVE  IInv'
<1> USE DEF IInv, ServerInv
<1>1. w \in Write
  BY DEF PendingInv
<1>2. TermInv'
  BY <1>1 DEF WriteFails, MarkInSync, TermInv, Write
<1>3. StateInv' /\ LogInv' /\ ProcessInv' /\ StanderHasLog'
  BY DEF WriteFails, stateVars, logVars, processVars, StateInv, LogInv, ProcessInv,
         StanderHasLog
<1>4. MessagesInv'
  BY DEF WriteFails, MessagesInv, ReportsNoCommit
<1>5. PendingInv'
  <2>1. IsABag(pending') /\ BagToSet(pending') \subseteq BagToSet(pending)
    BY SetToBagElements, BagDifferenceElements DEF PendingInv, WriteFails
  <2> QED BY <2>1 DEF PendingInv, ReportsNoCommit
<1> QED BY <1>2, <1>3, <1>4, <1>5

-----------------------------------------------------------------------------
(* The messages received.                                                   *)

LEMMA MessageInFlight ==
  ASSUME MessagesInv, NEW m \in BagToSet(messages)
  PROVE  /\ m \in Message /\ ReportsNoCommit(m)
         /\ m.from \in Process /\ m.to \in Process /\ m.term \in Nat
         /\ m.from.server \in Server /\ m.to.server \in Server
  BY MessageTypes DEF MessagesInv

LEMMA LeaderKnownType ==
  ASSUME StateInv, NEW s \in Server
  PROVE  LeaderKnownAfter(s) \in Server \cup {Null}
  BY DEF StateInv, LeaderKnownAfter

LEMMA ReceiveRequestVoteRequestKeeps ==
  ASSUME IInv, NEW m \in BagToSet(messages), ReceiveRequestVoteRequest(m)
  PROVE  IInv'
<1> USE DEF IInv, ServerInv
<1> DEFINE s == m.to.server
           granted == VoteGranted(currentTerm'[s], votedFor'[s], m)
           reply == RequestVoteResponse(m.to, m.from, TermAfter(s, m), granted)
           resets == granted /\ FirstWrite(s, reply) = {}
<1>1. /\ AdoptTerm(s, m) /\ BecomeFollower(s, LeaderKnownAfter(s), resets)
      /\ Respond(m, reply) /\ UNCHANGED <<logVars, processVars>>
  BY DEF ReceiveRequestVoteRequest
<1>2. s \in Server /\ m.to \in Process /\ m.from \in Process /\ m.term \in Nat
  BY MessageInFlight
<1>3. reply \in Responses /\ ReportsNoCommit(reply)
  <2>1. granted \in BOOLEAN
    BY DEF VoteGranted
  <2>2. TermAfter(s, m) \in Nat
    BY <1>1, <1>2, AdoptTermKeeps
  <2>3. reply \in RequestVoteResponses
    BY <1>2, <2>1, <2>2, RequestVoteResponseType
  <2> QED BY <2>3 DEF Responses, RequestVoteResponses, ReportsNoCommit
<1>4. resets \in BOOLEAN
  BY DEF VoteGranted
<1> HIDE DEF reply, resets
<1>5. TermInv'
  BY <1>1, <1>2, AdoptTermKeeps
<1>6. StateInv'
  BY <1>1, <1>2, <1>4, BecomeFollowerKeeps, LeaderKnownType
<1>7. LogInv' /\ ProcessInv'
  BY <1>1 DEF logVars, processVars, LogInv, ProcessInv
<1>8. PendingInv' /\ MessagesInv'
  BY <1>1, <1>2, <1>3, <1>5, RespondKeeps
<1>9. StanderHasLog'
  BY <1>1, <1>2, FollowerNeedsNoEntry DEF BecomeFollower, logVars
<1> QED BY <1>5, <1>6, <1>7, <1>8, <1>9

LEMMA ReceiveAppendEntriesRequestKeeps ==
  ASSUME IInv, NEW m \in BagToSet(messages), ReceiveAppendEntriesRequest(m)
  PROVE  IInv'
<1> USE DEF IInv, ServerInv
<1> DEFINE s == m.to.server
           accepted == Accepts(s, m)
           reply == AppendEntriesResponse(m.to, m.from, TermAfter(s, m),
                                          commitIndex'[s], accepted)
<1>1. /\ m.type = "AppendEntriesRequest"
      /\ AdoptTerm(s, m) /\ BecomeFollower(s, m.leaderId, TRUE)
      /\ log' = [log EXCEPT ![s] = IF accepted THEN StoreEntries(@, m.entries) ELSE @]
      /\ commitIndex' = [commitIndex EXCEPT ![s] =
                           IF accepted THEN CommitAfter(s, m) ELSE @]
      /\ Respond(m, reply) /\ UNCHANGED processVars
  BY DEF ReceiveAppendEntriesRequest
<1>2. /\ s \in Server /\ m.to \in Process /\ m.from \in Process /\ m.term \in Nat
      /\ m \in Message /\ ReportsNoCommit(m)
  BY MessageInFlight
<1>3. m \in AppendEntriesRequests
  BY <1>1, <1>2, MessageTypes
<1>4. accepted \in BOOLEAN
  BY DEF Accepts, LogMatches
<1>5. LogInv'
  <2>1. m.entries \in Seq(LogEntry)
    BY <1>3 DEF AppendEntriesRequests
  <2>2. log[s] \in Seq(LogEntry)
    BY <1>2 DEF LogInv
  <2>3. StoreEntries(log[s], m.entries) \in Seq(LogEntry)
    BY <2>1, <2>2, StoreEntriesType
  <2>4. CommitAfter(s, m) = 0
    BY <1>1, <1>2 DEF CommitAfter, LogInv, ReportsNoCommit
  <2> HIDE DEF accepted, s
  <2> QED BY <1>1, <1>2, <2>2, <2>3, <2>4 DEF LogInv
<1>6. reply \in Responses /\ ReportsNoCommit(reply)
  <2>1. TermAfter(s, m) \in Nat
    BY <1>1, <1>2, AdoptTermKeeps
  <2>2. commitIndex'[s] = 0
    BY <1>2, <1>5 DEF LogInv
  <2>3. reply \in AppendEntriesResponses
    BY <1>2, <1>4, <2>1, <2>2, AppendEntriesResponseType
  <2>4. reply.followerCommit = 0 /\ reply.type = "AppendEntriesResponse"
    BY <2>2 DEF AppendEntriesResponse
  <2> QED BY <2>3, <2>4 DEF Responses, ReportsNoCommit
<1> HIDE DEF reply, accepted
<1>7. TermInv'
  BY <1>1, <1>2, AdoptTermKeeps
<1>8. StateInv'
  <2>1. m.leaderId \in Server
    BY <1>3 DEF AppendEntriesRequests
  <2> QED BY <1>1, <1>2, <2>1, BecomeFollowerKeeps
<1>9. ProcessInv'
  BY <1>1 DEF processVars, ProcessInv
<1>10. PendingInv' /\ MessagesInv'
  BY <1>1, <1>2, <1>6, <1>7, RespondKeeps
<1>11. StanderHasLog'
  <2>1. \A p \in Server \ {s} : log'[p] = log[p]
    BY <1>1 DEF LogInv
  <2> QED BY <1>1, <1>2, <2>1, FollowerNeedsNoEntry DEF BecomeFollower
<1> QED BY <1>5, <1>7, <1>8, <1>9, <1>10, <1>11

(* A candidate that wins sends its first heartbeats, of a log with an entry.*)
LEMMA ReceiveVoteKeeps ==
  ASSUME IInv, NEW m \in BagToSet(messages), ReceiveVote(m)
  PROVE  IInv'
<1> USE DEF IInv, ServerInv
<1> DEFINE s == m.to.server
           votes == serverVotes[s] \cup {m.from.server}
<1>1. /\ role[s] = "candidate"
      /\ serverVotes' = [serverVotes EXCEPT ![s] = votes]
      /\ \/ BecomeLeader(s, {m})
         \/ Take({m}) /\ UNCHANGED <<role, leaderId, timer, matchIndex, nextIndex>>
      /\ UNCHANGED <<termVars, logVars, processVars, pending>>
  BY DEF ReceiveVote
<1>2. s \in Server /\ m.from.server \in Server
  BY MessageInFlight
<1>3. votes \in SUBSET Server
  BY <1>2 DEF StateInv
<1> HIDE DEF s, votes
<1>4. TermInv' /\ LogInv' /\ ProcessInv' /\ PendingInv'
  BY <1>1 DEF termVars, logVars, processVars, TermInv, LogInv, ProcessInv,
              PendingInv, ReportsNoCommit
<1>5. CASE BecomeLeader(s, {m})
  <2>1. Undefined \in [Server -> Int \cup {NaN}] /\ Unknown \in [Server -> {0, Null}]
    BY DEF Undefined, Unknown
  <2>2. StateInv'
    BY <1>1, <1>2, <1>3, <1>5, <2>1 DEF BecomeLeader, StateInv, Role
  <2>3. log[s] \in Seq(LogEntry) /\ log[s] # <<>>
    BY <1>1, <1>2 DEF LogInv, StanderHasLog
  <2>4. MessagesInv'
    BY <1>2, <1>5, <2>1, <2>3, SendAppendEntriesKeeps DEF BecomeLeader
  <2>5. StanderHasLog'
    BY <1>1, <1>5, <2>3 DEF BecomeLeader, logVars, StateInv, StanderHasLog
  <2> QED BY <1>4, <2>2, <2>4, <2>5
<1>6. CASE Take({m}) /\ UNCHANGED <<role, leaderId, timer, matchIndex, nextIndex>>
  <2>1. StateInv'
    BY <1>1, <1>3, <1>6 DEF StateInv
  <2>2. MessagesInv'
    BY <1>6, TakeKeeps
  <2>3. StanderHasLog'
    BY <1>1, <1>6 DEF logVars, StanderHasLog
  <2> QED BY <1>4, <2>1, <2>2, <2>3
<1> QED BY <1>1, <1>5, <1>6

LEMMA YieldToLeaderKeeps ==
  ASSUME IInv, NEW m \in BagToSet(messages), YieldToLeader(m)
  PROVE  IInv'
<1> USE DEF IInv, ServerInv
<1> DEFINE s == m.to.server
<1>1. /\ m.type = "AppendEntriesRequest" /\ BecomeFollower(s, m.leaderId, TRUE) /\ Take({m})
      /\ UNCHANGED <<termVars, logVars, processVars, pending>>
  BY DEF YieldToLeader
<1>2. s \in Server /\ m \in AppendEntriesRequests
  BY <1>1, MessageInFlight, MessageTypes
<1>3. StateInv'
  BY <1>1, <1>2, BecomeFollowerKeeps DEF AppendEntriesRequests
<1>4. TermInv' /\ LogInv' /\ ProcessInv' /\ PendingInv'
  BY <1>1 DEF termVars, logVars, processVars, TermInv, LogInv, ProcessInv,
              PendingInv, ReportsNoCommit
<1>5. MessagesInv'
  BY <1>1, TakeKeeps
<1>6. StanderHasLog'
  BY <1>1, <1>2, FollowerNeedsNoEntry DEF BecomeFollower, logVars
<1> QED BY <1>3, <1>4, <1>5, <1>6

(* The match index a follower's answer leaves is zero, so the leader's      *)
(* commit index stays where it is.                                          *)
LEMMA ReceiveAppendEntriesResponseKeeps ==
  ASSUME IInv, NEW m \in BagToSet(messages), ReceiveAppendEntriesResponse(m)
  PROVE  IInv'
<1> USE DEF IInv, ServerInv
<1> DEFINE s == m.to.server
           match == MatchIndexAfter(s, m)
<1>1. /\ m.type = "AppendEntriesResponse"
      /\ matchIndex' = [matchIndex EXCEPT ![s] = match]
      /\ nextIndex' = [nextIndex EXCEPT ![s][m.followerId] = NextIndexAfter(s, m)]
      /\ commitIndex' = [commitIndex EXCEPT ![s] = LeaderCommitAfter(s, match)]
      /\ Take({m})
      /\ UNCHANGED <<role, leaderId, timer, serverVotes, termVars, log, processVars,
                     pending>>
  BY DEF ReceiveAppendEntriesResponse
<1>2. s \in Server /\ m \in AppendEntriesResponses /\ ReportsNoCommit(m)
  BY <1>1, MessageInFlight, MessageTypes
<1>3. m.followerId \in Server /\ m.followerCommit = 0
  BY <1>1, <1>2 DEF AppendEntriesResponses, ReportsNoCommit
<1>4. match \in [Server -> {0, Null}]
  BY <1>2, <1>3 DEF MatchIndexAfter, StateInv
<1>5. NextIndexAfter(s, m) \in Int \cup {NaN}
  <2>1. nextIndex[s][m.followerId] \in Int \cup {NaN}
    BY <1>2, <1>3 DEF StateInv
  <2> QED BY <1>3, <2>1 DEF NextIndexAfter, Decrement
<1>6. LeaderCommitAfter(s, match) = 0
  <2>1. MedianMatchIndex(match) = 0 /\ commitIndex[s] = 0
    BY <1>2, <1>4, MedianOfZeros DEF LogInv
  <2>2. Committable(s, match) = {}
    BY <2>1 DEF Committable
  <2> QED BY <2>1, <2>2 DEF LeaderCommitAfter
<1> HIDE DEF match
<1>7. StateInv'
  BY <1>1, <1>2, <1>3, <1>4, <1>5 DEF StateInv
<1>8. LogInv'
  BY <1>1, <1>6 DEF LogInv
<1>9. TermInv' /\ ProcessInv' /\ PendingInv'
  BY <1>1 DEF termVars, processVars, TermInv, ProcessInv, PendingInv, ReportsNoCommit
<1>10. MessagesInv'
  BY <1>1, TakeKeeps
<1>11. StanderHasLog'
  BY <1>1 DEF StanderHasLog
<1> QED BY <1>7, <1>8, <1>9, <1>10, <1>11

LEMMA ReceiveResponseOfNewerTermKeeps ==
  ASSUME IInv, NEW m \in BagToSet(messages), ReceiveResponseOfNewerTerm(m)
  PROVE  IInv'
<1> USE DEF IInv, ServerInv
<1> DEFINE s == m.to.server
<1>1. /\ AdoptTerm(s, m) /\ BecomeFollower(s, LeaderKnownAfter(s), FALSE) /\ Take({m})
      /\ UNCHANGED <<logVars, processVars, pending>>
  BY DEF ReceiveResponseOfNewerTerm, StepDown
<1>2. s \in Server /\ m.term \in Nat
  BY MessageInFlight
<1>3. StateInv'
  BY <1>1, <1>2, BecomeFollowerKeeps, LeaderKnownType
<1>4. TermInv'
  BY <1>1, <1>2, AdoptTermKeeps
<1>5. LogInv' /\ ProcessInv' /\ PendingInv'
  BY <1>1 DEF logVars, processVars, LogInv, ProcessInv, PendingInv, ReportsNoCommit
<1>6. MessagesInv'
  BY <1>1, TakeKeeps
<1>7. StanderHasLog'
  BY <1>1, <1>2, FollowerNeedsNoEntry DEF BecomeFollower, logVars
<1> QED BY <1>3, <1>4, <1>5, <1>6, <1>7

LEMMA ReceiveUnhandledKeeps ==
  ASSUME IInv, NEW m \in BagToSet(messages), ReceiveUnhandled(m)
  PROVE  IInv'
<1>1. Take({m}) /\ UNCHANGED <<stateVars, termVars, logVars, processVars, pending>>
  BY DEF ReceiveUnhandled, Ignore
<1>2. MessagesInv'
  BY <1>1, TakeKeeps DEF IInv
<1> QED BY <1>1, <1>2 DEF IInv, ServerInv, stateVars, termVars, logVars, processVars,
           StateInv, TermInv, LogInv, ProcessInv, PendingInv, ReportsNoCommit,
           StanderHasLog

-----------------------------------------------------------------------------
LEMMA StutterKeeps == ASSUME IInv, UNCHANGED vars PROVE IInv'
  BY DEF IInv, ServerInv, vars, stateVars, termVars, logVars, processVars,
         StateInv, TermInv, LogInv, ProcessInv, PendingInv, MessagesInv,
         ReportsNoCommit, StanderHasLog

(* Every step keeps the invariant.                                          *)
LEMMA NextKeeps == IInv /\ [Next]_vars => IInv'
<1> SUFFICES ASSUME IInv, [Next]_vars PROVE IInv'
  OBVIOUS
<1>1. ASSUME NEW s \in Server,
             \/ Start(s)
             \/ Crash(s)
             \/ Timeout(s)
             \/ TimeoutWithoutLog(s)
             \/ Heartbeat(s)
             \/ \E command \in Command : Execute(s, command)
      PROVE  IInv'
  <2>1. CASE Start(s)
    BY <2>1, StartKeeps
  <2>2. CASE Crash(s)
    BY <2>2, DieKeeps DEF Crash
  <2>3. CASE Timeout(s)
    BY <2>3, TimeoutKeeps
  <2>4. CASE TimeoutWithoutLog(s)
    BY <2>4, DieKeeps DEF TimeoutWithoutLog
  <2>5. CASE Heartbeat(s)
    BY <2>5, HeartbeatKeeps
  <2>6. CASE \E command \in Command : Execute(s, command)
    BY <2>6, ExecuteKeeps
  <2> QED BY <1>1, <2>1, <2>2, <2>3, <2>4, <2>5, <2>6
<1>2. ASSUME NEW w \in BagToSet(pending), WriteDone(w) \/ WriteFails(w)
      PROVE  IInv'
  BY <1>2, WriteDoneKeeps, WriteFailsKeeps
<1>3. ASSUME NEW m \in BagToSet(messages), Receive(m) PROVE IInv'
  <2>1. CASE ReceiveRequestVoteRequest(m)
    BY <2>1, ReceiveRequestVoteRequestKeeps
  <2>2. CASE ReceiveAppendEntriesRequest(m)
    BY <2>2, ReceiveAppendEntriesRequestKeeps
  <2>3. CASE ReceiveVote(m)
    BY <2>3, ReceiveVoteKeeps
  <2>4. CASE YieldToLeader(m)
    BY <2>4, YieldToLeaderKeeps
  <2>5. CASE ReceiveAppendEntriesResponse(m)
    BY <2>5, ReceiveAppendEntriesResponseKeeps
  <2>6. CASE ReceiveResponseOfNewerTerm(m)
    BY <2>6, ReceiveResponseOfNewerTermKeeps
  <2>7. CASE ReceiveUnhandled(m)
    BY <2>7, ReceiveUnhandledKeeps
  <2> QED BY <1>3, <2>1, <2>2, <2>3, <2>4, <2>5, <2>6, <2>7 DEF Receive
<1>4. CASE UNCHANGED vars
  BY <1>4, StutterKeeps
<1> QED BY <1>1, <1>2, <1>3, <1>4 DEF Next

THEOREM Invariant == Spec => []IInv
  BY InitInvariant, NextKeeps, PTL DEF Spec

(* In every reachable state the variables hold what the code stores.        *)
THEOREM TypeCorrect == Spec => []TypeOK
  BY Invariant, InvariantImplies, PTL

(* However many servers answer, no leader and no follower commits an entry. *)
THEOREM NothingIsCommitted == Spec => []NothingCommitted
  BY Invariant, InvariantImplies, PTL
=============================================================================
