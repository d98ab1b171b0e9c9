--------------------------- MODULE ElectionProofs ---------------------------
(***************************************************************************)
(* Theorems about terms, votes, roles and the timer: every server keeps     *)
(* the promise of ServerLifecycle, never waits without a timer, and grants  *)
(* no vote of a term it stood in.                                           *)
(***************************************************************************)
EXTENDS RaftProofs

(* A candidate has made a candidate object, so that its next timeout takes  *)
(* it to a later term; a server that is down has no vote and no timer.      *)
RoleInv ==
  \A s \in Server :
    /\ role[s] = "candidate" => candidates[s] > 0
    /\ role[s] = "down" => votedFor[s] = Null /\ ~ timer[s]

ServerPart == RoleInv /\ ElectionTimerArmed

(* What a step does to the servers: one starts, one moves on within the     *)
(* same process, or all stay what they are.                                 *)
Starts(s) == Lifecycle!Boot(s) /\ boot' = [boot EXCEPT ![s] = @ + 1]

MovesOn(s) ==
  /\ \/ Lifecycle!Adopt(s) \/ Lifecycle!Stand(s) \/ Lifecycle!Win(s)
     \/ Lifecycle!Yield(s) \/ Lifecycle!Exit(s)
  /\ boot' = boot

Stays == UNCHANGED <<role, currentTerm, votedFor, boot>>

Moves == Stays \/ \E s \in Server : Starts(s) \/ MovesOn(s)

KeepsUp == \A s \in Server : Up(s) => Up(s)'

-----------------------------------------------------------------------------
LEMMA ServersStay ==
  ASSUME ServerPart, UNCHANGED <<role, currentTerm, votedFor, boot, timer, candidates>>
  PROVE  ServerPart' /\ Moves /\ KeepsUp
  BY DEF ServerPart, RoleInv, ElectionTimerArmed, Moves, Stays, KeepsUp, Up

(* A request or a response that finds a follower or is of a newer term.     *)
LEMMA AdoptMoves ==
  ASSUME StateInv, TermInv, ServerPart, NEW s \in Server, Up(s),
         NEW m, m.term \in Nat, AdoptTerm(s, m),
         NEW leader, NEW resets \in BOOLEAN, BecomeFollower(s, leader, resets),
         role[s] = "follower" \/ IsNewer(s, m), UNCHANGED <<boot, candidates>>
  PROVE  ServerPart' /\ Moves /\ KeepsUp
<1> USE DEF ServerPart
<1>1. /\ role' = [role EXCEPT ![s] = "follower"]
      /\ timer' = [timer EXCEPT ![s] = @ \/ (resets \/ role[s] # "follower")]
  BY DEF BecomeFollower, ResetTimer
<1>2. ElectionTimerArmed' /\ KeepsUp
  BY <1>1 DEF ElectionTimerArmed, KeepsUp, Up, StateInv
<1>3. CASE IsNewer(s, m)
  <2>1. /\ currentTerm' = [currentTerm EXCEPT ![s] = m.term]
        /\ votedFor' = [votedFor EXCEPT ![s] = Null]
    BY <1>3 DEF AdoptTerm, SetTermAndVote, TermAfter
  <2>2. currentTerm'[s] = m.term /\ m.term > currentTerm[s]
    BY <1>3, <2>1 DEF TermInv, IsNewer
  <2>3. Lifecycle!Adopt(s)
    BY <1>1, <2>1, <2>2 DEF Lifecycle!Adopt, Lifecycle!MoveToTerm, Lifecycle!Move, Up
  <2>4. RoleInv'
    BY <1>1, <2>1 DEF RoleInv, StateInv, TermInv
  <2> QED BY <1>2, <2>3, <2>4 DEF Moves, MovesOn
<1>4. CASE ~ IsNewer(s, m)
  <2>1. role' = role /\ UNCHANGED <<currentTerm, votedFor>>
    BY <1>1, <1>4 DEF AdoptTerm, termVars, StateInv
  <2>2. RoleInv'
    BY <1>1, <2>1 DEF RoleInv, StateInv
  <2> QED BY <1>2, <2>1, <2>2 DEF Moves, Stays
<1> QED BY <1>3, <1>4

LEMMA StartMoves ==
  ASSUME IInv, ServerPart, NEW s \in Server, Start(s)
  PROVE  ServerPart' /\ Moves /\ KeepsUp
<1> USE DEF IInv, ServerInv, ServerPart
<1>1. /\ role[s] = "down" /\ votedFor' = votedFor /\ candidates' = candidates
      /\ boot' = [boot EXCEPT ![s] = @ + 1]
      /\ currentTerm' = [currentTerm EXCEPT ![s] = StoredTerm(s)]
      /\ role' = [role EXCEPT ![s] = "follower"]
      /\ timer' = [timer EXCEPT ![s] = @ \/ (FALSE \/ role[s] # "follower")]
  BY DEF Start, Up, BecomeFollower, ResetTimer
<1>2. StoredTerm(s) \in Nat /\ currentTerm'[s] = StoredTerm(s)
  BY <1>1 DEF StoredTerm, ProcessInv, TermInv
<1>3. votedFor' = [votedFor EXCEPT ![s] = Null]
  BY <1>1 DEF RoleInv, TermInv
<1>4. Lifecycle!Boot(s)
  BY <1>1, <1>2, <1>3 DEF Lifecycle!Boot, Lifecycle!MoveToTerm, Lifecycle!Move
<1>5. RoleInv' /\ ElectionTimerArmed' /\ KeepsUp
  BY <1>1 DEF RoleInv, ElectionTimerArmed, KeepsUp, Up, StateInv
<1> QED BY <1>1, <1>4, <1>5 DEF Moves, Starts

LEMMA DieMoves ==
  ASSUME IInv, ServerPart, NEW s \in Server, Up(s), Die(s)
  PROVE  ServerPart' /\ Moves
<1> USE DEF IInv, ServerInv, ServerPart
<1>1. /\ role' = [role EXCEPT ![s] = "down"]
      /\ currentTerm' = [currentTerm EXCEPT ![s] = 0]
      /\ votedFor' = [votedFor EXCEPT ![s] = Null]
      /\ timer' = [timer EXCEPT ![s] = FALSE]
      /\ candidates' = [candidates EXCEPT ![s] = 0]
      /\ boot' = boot
  BY DEF Die, SetTermAndVote
<1>2. Lifecycle!Exit(s)
  BY <1>1 DEF Lifecycle!Exit, Lifecycle!Move, Up
<1>3. RoleInv' /\ ElectionTimerArmed'
  BY <1>1 DEF RoleInv, ElectionTimerArmed, StateInv, TermInv, ProcessInv
<1> QED BY <1>1, <1>2, <1>3 DEF Moves, MovesOn

LEMMA TimeoutMoves ==
  ASSUME IInv, ServerPart, NEW s \in Server, Timeout(s)
  PROVE  ServerPart' /\ Moves /\ KeepsUp
<1> USE DEF IInv, ServerInv, ServerPart
<1> DEFINE elections == ElectionsAfterTimeout(s)
<1>1. elections \in Nat /\ elections > 0 /\ CandidatesAfterTimeout(s) > 0
  BY DEF ElectionsAfterTimeout, CandidatesAfterTimeout, ProcessInv, RoleInv
<1>2. /\ currentTerm' = [currentTerm EXCEPT ![s] = currentTerm[s] + elections]
      /\ votedFor' = [votedFor EXCEPT ![s] = s]
      /\ role' = [role EXCEPT ![s] = "candidate"]
      /\ timer' = [timer EXCEPT ![s] = @ \/ TRUE]
      /\ candidates' = [candidates EXCEPT ![s] = CandidatesAfterTimeout(s)]
      /\ boot' = boot /\ timer[s]
  BY DEF Timeout, StartElections, SetTermAndVote, ResetTimer
<1> HIDE DEF elections
<1>3. currentTerm'[s] = currentTerm[s] + elections /\ currentTerm[s] \in Nat
  BY <1>2 DEF TermInv
<1>4. Lifecycle!Stand(s)
  <2>1. role[s] # "down"
    BY <1>2 DEF RoleInv
  <2>2. currentTerm'[s] \in Nat /\ currentTerm'[s] > currentTerm[s]
    BY <1>1, <1>3
  <2>3. currentTerm' = [currentTerm EXCEPT ![s] = currentTerm'[s]]
    BY <1>2, <1>3
  <2> QED BY <1>2, <2>1, <2>2, <2>3
          DEF Lifecycle!Stand, Lifecycle!MoveToTerm, Lifecycle!Move
<1>5. RoleInv' /\ ElectionTimerArmed' /\ KeepsUp
  BY <1>1, <1>2
  DEF RoleInv, ElectionTimerArmed, KeepsUp, Up, StateInv, TermInv, ProcessInv
<1> QED BY <1>2, <1>4, <1>5 DEF Moves, MovesOn

LEMMA ReceiveVoteMoves ==
  ASSUME IInv, ServerPart, NEW m \in BagToSet(messages), ReceiveVote(m)
  PROVE  ServerPart' /\ Moves /\ KeepsUp
<1> USE DEF IInv, ServerInv, ServerPart
<1> DEFINE s == m.to.server
<1>1. /\ s \in Server /\ role[s] = "candidate"
      /\ UNCHANGED <<currentTerm, votedFor, boot, candidates>>
  BY MessageInFlight DEF ReceiveVote, termVars, processVars
<1>2. CASE BecomeLeader(s, {m})
  <2>1. /\ role' = [role EXCEPT ![s] = "leader"]
        /\ timer' = [timer EXCEPT ![s] = FALSE]
    BY <1>2 DEF BecomeLeader
  <2>2. /\ currentTerm' = [currentTerm EXCEPT ![s] = currentTerm[s]]
        /\ votedFor' = [votedFor EXCEPT ![s] = votedFor[s]]
    BY <1>1 DEF TermInv
  <2>3. Lifecycle!Win(s)
    BY <1>1, <2>1, <2>2 DEF Lifecycle!Win, Lifecycle!Move
  <2>4. RoleInv' /\ ElectionTimerArmed' /\ KeepsUp
    BY <1>1, <2>1 DEF RoleInv, ElectionTimerArmed, KeepsUp, Up, StateInv
  <2> QED BY <1>1, <2>3, <2>4 DEF Moves, MovesOn
<1>3. CASE UNCHANGED <<role, timer>>
  BY <1>1, <1>3, ServersStay
<1> QED BY <1>2, <1>3 DEF ReceiveVote

LEMMA YieldToLeaderMoves ==
  ASSUME IInv, ServerPart, NEW m \in BagToSet(messages), YieldToLeader(m)
  PROVE  ServerPart' /\ Moves /\ KeepsUp
<1> USE DEF IInv, ServerInv, ServerPart
<1> DEFINE s == m.to.server
<1>1. /\ s \in Server /\ role[s] = "candidate"
      /\ UNCHANGED <<currentTerm, votedFor, boot, candidates>>
      /\ role' = [role EXCEPT ![s] = "follower"]
      /\ timer' = [timer EXCEPT ![s] = @ \/ (TRUE \/ role[s] # "follower")]
  BY MessageInFlight DEF YieldToLeader, termVars, processVars, BecomeFollower, ResetTimer
<1>2. /\ currentTerm' = [currentTerm EXCEPT ![s] = currentTerm[s]]
      /\ votedFor' = [votedFor EXCEPT ![s] = votedFor[s]]
  BY <1>1 DEF TermInv
<1>3. Lifecycle!Yield(s)
  BY <1>1, <1>2 DEF Lifecycle!Yield, Lifecycle!Move
<1>4. RoleInv' /\ ElectionTimerArmed' /\ KeepsUp
  BY <1>1 DEF RoleInv, ElectionTimerArmed, KeepsUp, Up, StateInv
<1> QED BY <1>1, <1>3, <1>4 DEF Moves, MovesOn

(* The reset that follows a held-up grant reaches a server that is up: its  *)
(* writes end with its process.                                             *)
LEMMA WriteDoneMoves ==
  ASSUME IInv, ServerPart, NEW w \in BagToSet(pending), WriteDone(w),
         Up(w.reply.from.server)
  PROVE  ServerPart' /\ Moves /\ KeepsUp
<1> USE DEF IInv, ServerInv, ServerPart
<1> DEFINE s == w.reply.from.server
<1>1. UNCHANGED <<role, currentTerm, votedFor, boot, candidates>>
  BY DEF WriteDone
<1>2. \/ timer' = [timer EXCEPT ![s] = @ \/ GrantsVote(w.reply)]
      \/ timer' = timer
  BY DEF WriteDone, SendThenResetTimer, ResetTimer
<1>3. CASE timer' = timer
  BY <1>1, <1>3, ServersStay
<1>4. CASE timer' = [timer EXCEPT ![s] = @ \/ GrantsVote(w.reply)]
  <2>1. RoleInv' /\ ElectionTimerArmed' /\ KeepsUp
    BY <1>1, <1>4 DEF RoleInv, ElectionTimerArmed, KeepsUp, Up, StateInv
  <2> QED BY <1>1, <2>1 DEF Moves, Stays
<1> QED BY <1>2, <1>3, <1>4

-----------------------------------------------------------------------------
(* What is on its way: messages in flight and responses held up by a write. *)
OnTheWay == BagToSet(messages) \cup Responding

(* What is known of a message whose sender is still the same process.       *)
Bounded(m) ==
  LET f == m.from.server IN
  /\ m.from.boot <= boot[f]
  /\ Up(f) /\ m.from = ProcessOf(f) =>
       /\ m.term <= currentTerm[f]
       /\ GrantsVote(m) /\ votedFor[f] = f => m.term < currentTerm[f]

(* A write under way belongs to a process that is up.                       *)
WritesOfUp == \A m \in Responding : Up(m.from.server)

SentInv == \A m \in OnTheWay : Bounded(m)

ElectionInv == ServerPart /\ WritesOfUp /\ SentInv

(* A step adds no more than new messages, which are as Bounded says.        *)
Adds(new) ==
  /\ OnTheWay' \subseteq OnTheWay \cup new
  /\ Responding' \subseteq Responding \cup new
  /\ \A m \in new : Bounded(m)' /\ Up(m.from.server)'

LEMMA OnTheWayTypes ==
  ASSUME IInv
  PROVE  /\ Responding \subseteq OnTheWay
         /\ \A m \in OnTheWay :
              /\ m \in Message /\ m.from \in Process /\ m.from.server \in Server
              /\ m.from.boot \in Nat /\ m.term \in Nat
<1>1. \A m \in OnTheWay : m \in Message
  BY DEF OnTheWay, Responding, IInv, PendingInv, MessagesInv, Write, Message
<1> QED BY <1>1, MessageTypes DEF OnTheWay, Process

(* Whatever a server does, what is known of earlier messages stays true: it *)
(* moves to a later term, keeps its term and its vote, or is gone.          *)
LEMMA EarlierStayBounded ==
  ASSUME IInv, Moves, NEW m \in OnTheWay, Bounded(m)
  PROVE  Bounded(m)'
<1> USE DEF IInv, ServerInv
<1> DEFINE f == m.from.server
<1>1. /\ f \in Server /\ m.from.boot \in Nat /\ m.term \in Nat
      /\ m.from \in Process
  BY OnTheWayTypes
<1>2. boot[f] \in Nat /\ currentTerm[f] \in Nat
  BY <1>1 DEF ProcessInv, TermInv
<1>3. CASE Stays
  BY <1>3 DEF Stays, Bounded, Up, ProcessOf
<1>4. ASSUME NEW s \in Server, Starts(s) PROVE Bounded(m)'
  <2>1. CASE f = s
    <3>1. boot'[f] = boot[f] + 1
      BY <1>1, <1>4, <2>1 DEF Starts, ProcessInv
    <3>2. m.from.boot < boot'[f]
      BY <1>1, <1>2, <3>1 DEF Bounded
    <3>3. m.from # ProcessOf(f)'
      BY <1>1, <1>2, <3>1, <3>2 DEF ProcessOf
    <3> QED BY <1>1, <1>2, <3>1, <3>2, <3>3 DEF Bounded
  <2>2. CASE f # s
    <3>1. /\ boot'[f] = boot[f] /\ role'[f] = role[f]
          /\ currentTerm'[f] = currentTerm[f] /\ votedFor'[f] = votedFor[f]
      BY <1>1, <1>4, <2>2
      DEF Starts, Lifecycle!Boot, Lifecycle!MoveToTerm, Lifecycle!Move,
          ProcessInv, StateInv, TermInv
    <3> QED BY <3>1 DEF Bounded, Up, ProcessOf
  <2> QED BY <2>1, <2>2
<1>5. ASSUME NEW s \in Server, MovesOn(s) PROVE Bounded(m)'
  <2> USE DEF Lifecycle!MoveToTerm, Lifecycle!Move
  <2>1. CASE f # s
    <3>1. /\ boot'[f] = boot[f] /\ role'[f] = role[f]
          /\ currentTerm'[f] = currentTerm[f] /\ votedFor'[f] = votedFor[f]
      BY <1>1, <1>5, <2>1
      DEF MovesOn, Lifecycle!Adopt, Lifecycle!Stand, Lifecycle!Win, Lifecycle!Yield,
          Lifecycle!Exit, ProcessInv, StateInv, TermInv
    <3> QED BY <3>1 DEF Bounded, Up, ProcessOf
  <2>2. CASE f = s /\ Lifecycle!Exit(s)
    <3>1. role'[f] = "down" /\ boot' = boot
      BY <1>1, <1>5, <2>2 DEF MovesOn, Lifecycle!Exit, StateInv
    <3> QED BY <3>1 DEF Bounded, Up
  <2>3. CASE f = s /\ (Lifecycle!Win(s) \/ Lifecycle!Yield(s))
    <3>1. /\ boot' = boot /\ role[f] # "down"
          /\ currentTerm'[f] = currentTerm[f] /\ votedFor'[f] = votedFor[f]
      BY <1>1, <1>5, <2>3 DEF MovesOn, Lifecycle!Win, Lifecycle!Yield, TermInv
    <3> QED BY <3>1 DEF Bounded, Up, ProcessOf
  <2>4. CASE f = s /\ (Lifecycle!Adopt(s) \/ Lifecycle!Stand(s))
    <3>1. /\ boot' = boot /\ role[f] # "down"
          /\ currentTerm'[f] > currentTerm[f] /\ currentTerm'[f] \in Nat
      BY <1>1, <1>5, <2>4 DEF MovesOn, Lifecycle!Adopt, Lifecycle!Stand
    <3>2. m.from = ProcessOf(f)' => m.term < currentTerm'[f]
      BY <1>1, <1>2, <3>1 DEF Bounded, Up, ProcessOf
    <3> QED BY <1>1, <1>2, <3>1, <3>2 DEF Bounded
  <2> QED BY <1>5, <2>1, <2>2, <2>3, <2>4 DEF MovesOn
<1> QED BY <1>3, <1>4, <1>5 DEF Moves

LEMMA StepKeepsElectionInv ==
  ASSUME IInv, ElectionInv, ServerPart', Moves, KeepsUp, NEW new, Adds(new)
  PROVE  ElectionInv'
<1>1. SentInv'
  BY EarlierStayBounded DEF Adds, ElectionInv, SentInv
<1>2. WritesOfUp'
  BY OnTheWayTypes DEF Adds, ElectionInv, WritesOfUp, KeepsUp
<1> QED BY <1>1, <1>2 DEF ElectionInv

-----------------------------------------------------------------------------
(* What the shared steps add to what is on its way.                         *)

LEMMA SendAdds ==
  ASSUME IInv, NEW received, NEW batch, Send(received, batch), pending' = pending,
         \A m \in batch : Bounded(m)' /\ Up(m.from.server)'
  PROVE  Adds(batch)
  BY SendElements DEF Adds, OnTheWay, Responding, IInv, MessagesInv

LEMMA TakeAdds ==
  ASSUME IInv, NEW received, Take(received), pending' = pending
  PROVE  Adds({})
  BY TakeElements DEF Adds, OnTheWay, Responding, IInv, MessagesInv

LEMMA NothingSentAdds ==
  ASSUME UNCHANGED <<messages, pending>>
  PROVE  Adds({})
  BY DEF Adds, OnTheWay, Responding

LEMMA RespondAdds ==
  ASSUME IInv, NEW m, NEW reply, Respond(m, reply),
         Bounded(reply)', Up(reply.from.server)'
  PROVE  Adds({reply})
<1>1. \A w \in FirstWrite(m.to.server, reply) : w.reply = reply
  BY DEF FirstWrite, VoteWrite, WriteOf
<1>2. /\ BagToSet(messages') \subseteq BagToSet(messages) \cup {reply}
      /\ BagToSet(pending') \subseteq
           BagToSet(pending) \cup FirstWrite(m.to.server, reply)
  BY RespondElements DEF IInv, MessagesInv, PendingInv
<1>3. Responding' \subseteq Responding \cup {reply}
  BY <1>1, <1>2 DEF Responding
<1> QED BY <1>2, <1>3 DEF Adds, OnTheWay

(* The end of a write lets its response go, or holds it up by another write.*)
LEMMA WriteDoneAdds ==
  ASSUME IInv, NEW w \in BagToSet(pending), WriteDone(w)
  PROVE  Adds({})
<1> DEFINE next == IF w.file = "term" THEN VoteWrite(w.reply.from.server, w.reply)
                   ELSE {}
           rest == pending (-) SetToBag({w})
<1>1. /\ pending' = rest (+) SetToBag(next)
      /\ Send({}, {w.reply}) \/ messages' = messages
  BY DEF WriteDone, SendThenResetTimer
<1>2. \A x \in next : x.reply = w.reply
  BY DEF VoteWrite, WriteOf
<1>3. IsABag(rest) /\ BagToSet(rest) \subseteq BagToSet(pending)
  BY SetToBagElements, BagDifferenceElements DEF IInv, PendingInv
<1> HIDE DEF next, rest
<1>4. BagToSet(pending') = BagToSet(rest) \cup next
  BY <1>1, <1>3, SetToBagElements, BagUnionElements
<1>5. Responding' \subseteq Responding
  BY <1>2, <1>3, <1>4 DEF Responding
<1>6. BagToSet(messages') \subseteq BagToSet(messages) \cup {w.reply}
  BY <1>1, SendElements DEF IInv, MessagesInv
<1>7. w.reply \in Responding
  BY DEF Responding
<1> QED BY <1>5, <1>6, <1>7 DEF Adds, OnTheWay

LEMMA WriteFailsAdds ==
  ASSUME IInv, NEW w \in BagToSet(pending), WriteFails(w)
  PROVE  Adds({})
<1>1. BagToSet(pending') \subseteq BagToSet(pending) /\ messages' = messages
  BY SetToBagElements, BagDifferenceElements DEF WriteFails, IInv, PendingInv
<1> QED BY <1>1 DEF Adds, OnTheWay, Responding

(* A message that a server sends within its process, of a term no later     *)
(* than the one it has then, is as Bounded says.                            *)
LEMMA OwnMessageBounded ==
  ASSUME ProcessInv, NEW s \in Server, NEW m, m.from = ProcessOf(s),
         boot' = boot, Up(s)', m.term <= currentTerm'[s],
         GrantsVote(m) => votedFor'[s] # s
  PROVE  Bounded(m)' /\ Up(m.from.server)'
<1>1. m.from.server = s /\ m.from.boot = boot[s] /\ boot[s] <= boot[s]
  BY DEF ProcessOf, ProcessInv
<1> QED BY <1>1 DEF Bounded, Up

LEMMA Receiver ==
  ASSUME IInv, NEW m \in BagToSet(messages), Deliverable(m)
  PROVE  /\ m.to.server \in Server /\ Up(m.to.server)
         /\ m.to = ProcessOf(m.to.server)
  BY MessageInFlight DEF IInv, Deliverable, Reachable

-----------------------------------------------------------------------------
(* One lemma per action.                                                    *)

LEMMA StartKeepsElection ==
  ASSUME IInv, ElectionInv, NEW s \in Server, Start(s)
  PROVE  ElectionInv' /\ Moves
<1>1. ServerPart' /\ Moves /\ KeepsUp
  BY StartMoves DEF ElectionInv
<1>2. Adds({})
  BY NothingSentAdds DEF Start
<1> QED BY <1>1, <1>2, StepKeepsElectionInv

(* What is on its way from the process that dies is no longer bounded by    *)
(* it; its writes end.                                                      *)
LEMMA DieKeepsElection ==
  ASSUME IInv, ElectionInv, NEW s \in Server, Up(s), Die(s)
  PROVE  ElectionInv' /\ Moves
<1> USE DEF IInv, ServerInv
<1>1. ServerPart' /\ Moves
  BY DieMoves DEF ElectionInv
<1> DEFINE writes == {w \in BagToSet(pending) : w.reply.from.server # s}
           rest == {m \in BagToSet(messages) : m.to.server # s}
<1>2. BagToSet(pending') \subseteq writes
  <2>1. pending' = Restrict(pending, writes)
    BY DEF Die
  <2>2. DOMAIN pending' = writes
    BY <2>1 DEF Restrict
  <2> QED BY <2>2 DEF BagToSet
<1>3. BagToSet(messages') \subseteq BagToSet(messages)
  <2>1. messages' = Restrict(messages, rest)
    BY DEF Die
  <2>2. DOMAIN messages' = rest
    BY <2>1 DEF Restrict
  <2> QED BY <2>2 DEF BagToSet
<1>4. OnTheWay' \subseteq OnTheWay
  BY <1>2, <1>3 DEF OnTheWay, Responding
<1>5. SentInv'
  BY <1>1, <1>4, EarlierStayBounded DEF ElectionInv, SentInv
<1>6. WritesOfUp'
  <2>1. \A m \in Responding' : m \in Responding /\ m.from.server # s
    BY <1>2 DEF Responding
  <2>2. \A p \in Server \ {s} : role'[p] = role[p]
    BY DEF Die, StateInv
  <2> QED BY <2>1, <2>2, OnTheWayTypes DEF ElectionInv, WritesOfUp, Up
<1> QED BY <1>1, <1>5, <1>6 DEF ElectionInv

LEMMA TimeoutKeepsElection ==
  ASSUME IInv, ElectionInv, NEW s \in Server, Timeout(s)
  PROVE  ElectionInv' /\ Moves
<1> USE DEF IInv, ServerInv
<1>1. ServerPart' /\ Moves /\ KeepsUp
  BY TimeoutMoves DEF ElectionInv
<1> DEFINE term == currentTerm[s] + ElectionsAfterTimeout(s)
           requests == {RequestVoteRequest(ProcessOf(s), ProcessOf(p), t) :
                          p \in Peers(s), t \in (currentTerm[s] + 1)..term}
<1> HIDE DEF requests
<1>2. PICK batch : batch = requests
  OBVIOUS
<1>3. /\ Send({}, batch) /\ pending' = pending /\ boot' = boot
      /\ role' = [role EXCEPT ![s] = "candidate"]
      /\ currentTerm' = [currentTerm EXCEPT ![s] = term]
  BY <1>2 DEF Timeout, StartElections, SetTermAndVote, requests
<1>4. currentTerm'[s] = term /\ Up(s)'
  BY <1>3 DEF TermInv, StateInv, Up
<1>5. term \in Int
  BY DEF TermInv, ElectionsAfterTimeout, ProcessInv
<1>6. ASSUME NEW m \in batch PROVE Bounded(m)' /\ Up(m.from.server)'
  <2>1. PICK p \in Peers(s), t \in (currentTerm[s] + 1)..term :
          m = RequestVoteRequest(ProcessOf(s), ProcessOf(p), t)
    BY <1>2, <1>6 DEF requests
  <2> HIDE DEF term
  <2>2. t <= term
    BY <1>5 DEF TermInv
  <2>3. m.type = "RequestVoteRequest" /\ m.from = ProcessOf(s) /\ m.term = t
    BY <2>1 DEF RequestVoteRequest, EncodeThenDecode
  <2> QED BY <1>3, <1>4, <2>2, <2>3, OwnMessageBounded DEF GrantsVote
<1>7. Adds(batch)
  BY <1>3, <1>6, SendAdds
<1> QED BY <1>1, <1>7, StepKeepsElectionInv

(* What a leader sends is of its own term.                                  *)
LEMMA SendAppendEntriesAdds ==
  ASSUME IInv, NEW s \in Server, Up(s)', UNCHANGED <<boot, currentTerm, pending>>,
         NEW received, NEW next, NEW entries,
         SendAppendEntries(s, received, next, entries)
  PROVE  \E batch : Adds(batch)
<1> USE DEF IInv, ServerInv
<1>1. PICK batch : batch = {AppendEntriesTo(s, p, next[p], entries) : p \in Peers(s)}
  OBVIOUS
<1>2. Send(received, batch)
  BY <1>1 DEF SendAppendEntries
<1>3. ASSUME NEW m \in batch PROVE Bounded(m)' /\ Up(m.from.server)'
  <2>1. /\ m.type = "AppendEntriesRequest" /\ m.from = ProcessOf(s)
        /\ m.term = currentTerm[s]
    BY <1>1, <1>3 DEF AppendEntriesTo, AppendEntriesRequest
  <2>2. currentTerm[s] <= currentTerm'[s]
    BY DEF TermInv
  <2> QED BY <2>1, <2>2, OwnMessageBounded DEF GrantsVote
<1> QED BY <1>2, <1>3, SendAdds

LEMMA HeartbeatKeepsElection ==
  ASSUME IInv, ElectionInv, NEW s \in Server, Heartbeat(s)
  PROVE  ElectionInv' /\ Moves
<1>1. /\ SendAppendEntries(s, {}, nextIndex[s], log[s])
      /\ role[s] = "leader"
      /\ UNCHANGED <<role, currentTerm, votedFor, boot, timer, candidates, pending>>
  BY DEF Heartbeat, stateVars, termVars, processVars
<1>2. ServerPart' /\ Moves /\ KeepsUp
  BY <1>1, ServersStay DEF ElectionInv
<1>3. Up(s)'
  BY <1>1 DEF Up
<1>4. \E batch : Adds(batch)
  BY <1>1, <1>3, SendAppendEntriesAdds
<1> QED BY <1>2, <1>4, StepKeepsElectionInv

LEMMA ExecuteKeepsElection ==
  ASSUME IInv, ElectionInv, NEW s \in Server, NEW command \in Command,
         Execute(s, command)
  PROVE  ElectionInv' /\ Moves
<1>1. /\ \E entries : SendAppendEntries(s, {}, nextIndex[s], entries)
      /\ role[s] = "leader"
      /\ UNCHANGED <<role, currentTerm, votedFor, boot, timer, candidates, pending>>
  BY DEF Execute, stateVars, termVars, processVars
<1>2. ServerPart' /\ Moves /\ KeepsUp
  BY <1>1, ServersStay DEF ElectionInv
<1>3. Up(s)'
  BY <1>1 DEF Up
<1>4. \E batch : Adds(batch)
  BY <1>1, <1>3, SendAppendEntriesAdds
<1> QED BY <1>2, <1>4, StepKeepsElectionInv

LEMMA WriteDoneKeepsElection ==
  ASSUME IInv, ElectionInv, NEW w \in BagToSet(pending), WriteDone(w)
  PROVE  ElectionInv' /\ Moves
<1>1. w.reply \in Responding
  BY DEF Responding
<1>2. ServerPart' /\ Moves /\ KeepsUp
  BY <1>1, WriteDoneMoves DEF ElectionInv, WritesOfUp
<1> QED BY <1>2, WriteDoneAdds, StepKeepsElectionInv

LEMMA WriteFailsKeepsElection ==
  ASSUME IInv, ElectionInv, NEW w \in BagToSet(pending), WriteFails(w)
  PROVE  ElectionInv' /\ Moves
<1>1. ServerPart' /\ Moves /\ KeepsUp
  BY ServersStay DEF ElectionInv, WriteFails, stateVars, processVars
<1> QED BY <1>1, WriteFailsAdds, StepKeepsElectionInv

LEMMA ReceiveRequestVoteRequestKeepsElection ==
  ASSUME IInv, ElectionInv, NEW m \in BagToSet(messages), ReceiveRequestVoteRequest(m)
  PROVE  ElectionInv' /\ Moves
<1> USE DEF IInv, ServerInv
<1> DEFINE s == m.to.server
           granted == VoteGranted(currentTerm'[s], votedFor'[s], m)
           answer == RequestVoteResponse(m.to, m.from, TermAfter(s, m), granted)
           resets == granted /\ FirstWrite(s, answer) = {}
<1>1. /\ s \in Server /\ Up(s) /\ m.to = ProcessOf(s)
      /\ m.term \in Nat /\ m.candidateId = Null
  <2>1. m.term \in Nat /\ m \in RequestVoteRequests
    BY MessageInFlight, MessageTypes DEF ReceiveRequestVoteRequest
  <2> QED BY <2>1, Receiver DEF ReceiveRequestVoteRequest, HandledByFollower,
                                RequestVoteRequests
<1>2. /\ AdoptTerm(s, m) /\ BecomeFollower(s, LeaderKnownAfter(s), resets)
      /\ role[s] = "follower" \/ IsNewer(s, m)
      /\ Respond(m, answer) /\ UNCHANGED <<boot, candidates>>
  BY DEF ReceiveRequestVoteRequest, HandledByFollower, processVars
<1>3. granted \in BOOLEAN /\ (granted => votedFor'[s] = Null)
  BY <1>1 DEF VoteGranted
<1> HIDE DEF granted
<1>4. answer.from = m.to /\ answer.term = TermAfter(s, m)
      /\ GrantsVote(answer) = granted
  BY <1>3 DEF RequestVoteResponse, GrantsVote
<1>5. resets \in BOOLEAN
  BY <1>3
<1> HIDE DEF answer, resets
<1>6. ServerPart' /\ Moves /\ KeepsUp
  BY <1>1, <1>2, <1>5, AdoptMoves DEF ElectionInv
<1>7. PICK reply : reply = answer
  OBVIOUS
<1>8. Bounded(reply)' /\ Up(reply.from.server)'
  <2>1. Up(s)'
    BY <1>1, <1>6 DEF KeepsUp
  <2>2. currentTerm'[s] = TermAfter(s, m) /\ TermAfter(s, m) \in Nat
    BY <1>1, <1>2, AdoptTermKeeps
  <2>3. GrantsVote(reply) => votedFor'[s] # s
    BY <1>1, <1>3, <1>4, <1>7, ServerAssumption
  <2> QED BY <1>1, <1>2, <1>4, <1>7, <2>1, <2>2, <2>3, OwnMessageBounded
<1>9. Adds({reply})
  BY <1>2, <1>7, <1>8, RespondAdds
<1> QED BY <1>6, <1>9, StepKeepsElectionInv

LEMMA ReceiveAppendEntriesRequestKeepsElection ==
  ASSUME IInv, ElectionInv, NEW m \in BagToSet(messages), ReceiveAppendEntriesRequest(m)
  PROVE  ElectionInv' /\ Moves
<1> USE DEF IInv, ServerInv
<1> DEFINE s == m.to.server
<1>1. /\ s \in Server /\ Up(s) /\ m.to = ProcessOf(s) /\ m.term \in Nat
  BY MessageInFlight, Receiver DEF ReceiveAppendEntriesRequest, HandledByFollower
<1>2. /\ AdoptTerm(s, m) /\ BecomeFollower(s, m.leaderId, TRUE)
      /\ role[s] = "follower" \/ IsNewer(s, m)
      /\ \E commit, accepted :
           Respond(m, AppendEntriesResponse(m.to, m.from, TermAfter(s, m),
                                            commit, accepted))
      /\ UNCHANGED <<boot, candidates>>
  BY DEF ReceiveAppendEntriesRequest, HandledByFollower, processVars
<1>3. ServerPart' /\ Moves /\ KeepsUp
  BY <1>1, <1>2, AdoptMoves DEF ElectionInv
<1>4. PICK reply : /\ Respond(m, reply) /\ reply.type = "AppendEntriesResponse"
                   /\ reply.from = m.to /\ reply.term = TermAfter(s, m)
  BY <1>2 DEF AppendEntriesResponse
<1>5. Bounded(reply)' /\ Up(reply.from.server)'
  <2>1. Up(s)'
    BY <1>1, <1>3 DEF KeepsUp
  <2>2. currentTerm'[s] = TermAfter(s, m) /\ TermAfter(s, m) \in Nat
    BY <1>1, <1>2, AdoptTermKeeps
  <2> QED BY <1>1, <1>2, <1>4, <2>1, <2>2, OwnMessageBounded DEF GrantsVote
<1>6. Adds({reply})
  BY <1>4, <1>5, RespondAdds
<1> QED BY <1>3, <1>6, StepKeepsElectionInv

LEMMA ReceiveVoteKeepsElection ==
  ASSUME IInv, ElectionInv, NEW m \in BagToSet(messages), ReceiveVote(m)
  PROVE  ElectionInv' /\ Moves
<1> USE DEF IInv, ServerInv
<1> DEFINE s == m.to.server
<1>1. ServerPart' /\ Moves /\ KeepsUp
  BY ReceiveVoteMoves DEF ElectionInv
<1>2. /\ s \in Server /\ Up(s)
      /\ UNCHANGED <<boot, currentTerm, pending>>
      /\ BecomeLeader(s, {m}) \/ Take({m})
  BY Receiver DEF ReceiveVote, processVars, termVars
<1>3. Up(s)'
  BY <1>1, <1>2 DEF KeepsUp
<1>4. \E batch : Adds(batch)
  BY <1>2, <1>3, SendAppendEntriesAdds, TakeAdds DEF BecomeLeader
<1> QED BY <1>1, <1>4, StepKeepsElectionInv

LEMMA YieldToLeaderKeepsElection ==
  ASSUME IInv, ElectionInv, NEW m \in BagToSet(messages), YieldToLeader(m)
  PROVE  ElectionInv' /\ Moves
<1>1. ServerPart' /\ Moves /\ KeepsUp
  BY YieldToLeaderMoves DEF ElectionInv
<1>2. Adds({})
  BY TakeAdds DEF YieldToLeader
<1> QED BY <1>1, <1>2, StepKeepsElectionInv

LEMMA ReceiveAppendEntriesResponseKeepsElection ==
  ASSUME IInv, ElectionInv, NEW m \in BagToSet(messages),
         ReceiveAppendEntriesResponse(m)
  PROVE  ElectionInv' /\ Moves
<1>1. /\ UNCHANGED <<role, currentTerm, votedFor, boot, timer, candidates, pending>>
      /\ Take({m})
  BY DEF ReceiveAppendEntriesResponse, termVars, processVars
<1>2. ServerPart' /\ Moves /\ KeepsUp
  BY <1>1, ServersStay DEF ElectionInv
<1>3. Adds({})
  BY <1>1, TakeAdds
<1> QED BY <1>2, <1>3, StepKeepsElectionInv

LEMMA ReceiveResponseOfNewerTermKeepsElection ==
  ASSUME IInv, ElectionInv, NEW m \in BagToSet(messages),
         ReceiveResponseOfNewerTerm(m)
  PROVE  ElectionInv' /\ Moves
<1> USE DEF IInv, ServerInv
<1> DEFINE s == m.to.server
<1>1. /\ s \in Server /\ Up(s) /\ m.term \in Nat
  BY MessageInFlight, Receiver DEF ReceiveResponseOfNewerTerm
<1>2. /\ IsNewer(s, m) /\ AdoptTerm(s, m)
      /\ BecomeFollower(s, LeaderKnownAfter(s), FALSE)
      /\ Take({m}) /\ UNCHANGED <<boot, candidates, pending>>
  BY DEF ReceiveResponseOfNewerTerm, StepDown, processVars
<1>3. ServerPart' /\ Moves /\ KeepsUp
  BY <1>1, <1>2, AdoptMoves DEF ElectionInv
<1>4. Adds({})
  BY <1>2, TakeAdds
<1> QED BY <1>3, <1>4, StepKeepsElectionInv

LEMMA ReceiveUnhandledKeepsElection ==
  ASSUME IInv, ElectionInv, NEW m \in BagToSet(messages), ReceiveUnhandled(m)
  PROVE  ElectionInv' /\ Moves
<1>1. /\ UNCHANGED <<role, currentTerm, votedFor, boot, timer, candidates, pending>>
      /\ Take({m})
  BY DEF ReceiveUnhandled, Ignore, stateVars, termVars, processVars
<1>2. ServerPart' /\ Moves /\ KeepsUp
  BY <1>1, ServersStay DEF ElectionInv
<1>3. Adds({})
  BY <1>1, TakeAdds
<1> QED BY <1>2, <1>3, StepKeepsElectionInv

LEMMA StutterKeepsElection ==
  ASSUME IInv, ElectionInv, UNCHANGED vars
  PROVE  ElectionInv' /\ Moves
<1>1. UNCHANGED <<role, currentTerm, votedFor, boot, timer, candidates, messages, pending>>
  BY DEF vars, stateVars, termVars, processVars
<1>2. ServerPart' /\ Moves /\ KeepsUp
  BY <1>1, ServersStay DEF ElectionInv
<1>3. Adds({})
  BY <1>1, NothingSentAdds
<1> QED BY <1>2, <1>3, StepKeepsElectionInv

-----------------------------------------------------------------------------
(* Every step of Raft keeps the invariant and is a step of the promise.     *)
LEMMA NextKeepsElection ==
  ASSUME IInv, ElectionInv, [Next]_vars
  PROVE  ElectionInv' /\ Moves
<1>1. ASSUME NEW s \in Server,
             \/ Start(s)
             \/ Crash(s)
             \/ Timeout(s)
             \/ TimeoutWithoutLog(s)
             \/ Heartbeat(s)
             \/ \E command \in Command : Execute(s, command)
      PROVE  ElectionInv' /\ Moves
  <2>1. CASE Start(s)
    BY <2>1, StartKeepsElection
  <2>2. CASE Crash(s)
    BY <2>2, DieKeepsElection DEF Crash
  <2>3. CASE Timeout(s)
    BY <2>3, TimeoutKeepsElection
  <2>4. CASE TimeoutWithoutLog(s)
    <3>1. Up(s) /\ Die(s)
      BY <2>4 DEF TimeoutWithoutLog, ElectionInv, ServerPart, RoleInv, Up
    <3> QED BY <3>1, DieKeepsElection
  <2>5. CASE Heartbeat(s)
    BY <2>5, HeartbeatKeepsElection
  <2>6. CASE \E command \in Command : Execute(s, command)
    BY <2>6, ExecuteKeepsElection
  <2> QED BY <1>1, <2>1, <2>2, <2>3, <2>4, <2>5, <2>6
<1>2. ASSUME NEW w \in BagToSet(pending), WriteDone(w) \/ WriteFails(w)
      PROVE  ElectionInv' /\ Moves
  BY <1>2, WriteDoneKeepsElection, WriteFailsKeepsElection
<1>3. ASSUME NEW m \in BagToSet(messages), Receive(m) PROVE ElectionInv' /\ Moves
  <2>1. CASE ReceiveRequestVoteRequest(m)
    BY <2>1, ReceiveRequestVoteRequestKeepsElection
  <2>2. CASE ReceiveAppendEntriesRequest(m)
    BY <2>2, ReceiveAppendEntriesRequestKeepsElection
  <2>3. CASE ReceiveVote(m)
    BY <2>3, ReceiveVoteKeepsElection
  <2>4. CASE YieldToLeader(m)
    BY <2>4, YieldToLeaderKeepsElection
  <2>5. CASE ReceiveAppendEntriesResponse(m)
    BY <2>5, ReceiveAppendEntriesResponseKeepsElection
  <2>6. CASE ReceiveResponseOfNewerTerm(m)
    BY <2>6, ReceiveResponseOfNewerTermKeepsElection
  <2>7. CASE ReceiveUnhandled(m)
    BY <2>7, ReceiveUnhandledKeepsElection
  <2> QED BY <1>3, <2>1, <2>2, <2>3, <2>4, <2>5, <2>6, <2>7 DEF Receive
<1>4. CASE UNCHANGED vars
  BY <1>4, StutterKeepsElection
<1> QED BY <1>1, <1>2, <1>3, <1>4 DEF Next

LEMMA InitElection == Init => ElectionInv
<1> SUFFICES ASSUME Init PROVE ElectionInv
  OBVIOUS
<1>1. BagToSet(EmptyBag) = {}
  BY SetToBagElements DEF EmptyBag
<1>2. ServerPart
  BY DEF Init, ServerPart, RoleInv, ElectionTimerArmed
<1>3. Responding = {} /\ OnTheWay = {}
  BY <1>1 DEF Init, Responding, OnTheWay
<1> QED BY <1>2, <1>3 DEF ElectionInv, WritesOfUp, SentInv

THEOREM ElectionInvariant == Spec => [](IInv /\ ElectionInv)
<1>1. Init => IInv /\ ElectionInv
  BY InitInvariant, InitElection
<1>2. IInv /\ ElectionInv /\ [Next]_vars => (IInv /\ ElectionInv)'
  BY NextKeeps, NextKeepsElection
<1> QED BY <1>1, <1>2, PTL DEF Spec

LEMMA ElectionInvImplies ==
  IInv /\ ElectionInv =>
    ElectionTimerArmed /\ NoMessageAheadOfItsSender /\ NoGrantAfterStanding
<1> SUFFICES ASSUME IInv, ElectionInv
             PROVE  /\ ElectionTimerArmed
                    /\ NoMessageAheadOfItsSender /\ NoGrantAfterStanding
  OBVIOUS
<1>1. ASSUME NEW s \in Server, NEW m \in SentBy(s)
      PROVE  /\ m.term <= currentTerm[s]
             /\ GrantsVote(m) /\ votedFor[s] = s => m.term < currentTerm[s]
  <2>1. m \in OnTheWay /\ Up(s) /\ m.from = ProcessOf(s) /\ m.from.server = s
    BY <1>1 DEF SentBy, OnTheWay, ProcessOf
  <2>2. Bounded(m)
    BY <2>1 DEF ElectionInv, SentInv
  <2> QED BY <2>1, <2>2 DEF Bounded
<1> QED BY <1>1 DEF ElectionInv, ServerPart, NoMessageAheadOfItsSender,
                    NoGrantAfterStanding

(* No server waits for a leader with its election timer stopped.            *)
THEOREM WaitersHaveTimers == Spec => []ElectionTimerArmed
  BY ElectionInvariant, ElectionInvImplies, PTL

(* Nothing on its way is of a term that its sender has not reached.         *)
THEOREM SendersReachTheirTerms == Spec => []NoMessageAheadOfItsSender
  BY ElectionInvariant, ElectionInvImplies, PTL

(* No server's grant is of the term that the server stands in.              *)
THEOREM StandersGrantNothing == Spec => []NoGrantAfterStanding
  BY ElectionInvariant, ElectionInvImplies, PTL

-----------------------------------------------------------------------------
(* What Moves says of the servers is a step of ServerLifecycle, or none.    *)
LEMMA MovesAreOfLifecycle ==
  ASSUME Moves
  PROVE  [Lifecycle!LifecycleNext]_(Lifecycle!lifecycleVars)
  BY DEF Moves, Stays, Starts, MovesOn, Lifecycle!LifecycleNext,
         Lifecycle!lifecycleVars

(* Every server of every cluster keeps the promise of ServerLifecycle.      *)
THEOREM ServersKeepTheirPromise == Spec => ImplementsLifecycle
<1>1. Init => Lifecycle!LifecycleInit
  BY DEF Init, Lifecycle!LifecycleInit
<1>2. IInv /\ ElectionInv /\ [Next]_vars
        => [Lifecycle!LifecycleNext]_(Lifecycle!lifecycleVars)
  BY NextKeepsElection, MovesAreOfLifecycle
<1> QED BY <1>1, <1>2, ElectionInvariant, PTL
        DEF Spec, ImplementsLifecycle, Lifecycle!LifecycleSpec

-----------------------------------------------------------------------------
(* What follows from the promise alone: the vote is a function of servers,  *)
(* and who stands or leads has its own.  This is inductive as it stands,    *)
(* since a server changes its vote only when it changes its state.          *)
PromisedVotes ==
  /\ DOMAIN role = Server /\ DOMAIN votedFor = Server
  /\ Lifecycle!StandersVoteForThemselves

LEMMA MoveKeepsVotes ==
  ASSUME PromisedVotes, NEW s \in Server, NEW to, NEW t, NEW v \in {s, Null},
         Lifecycle!Move(s, to, t, v), to \in {"candidate", "leader"} => v = s
  PROVE  PromisedVotes'
  BY DEF PromisedVotes, Lifecycle!StandersVoteForThemselves, Lifecycle!Move

LEMMA LifecycleStepKeepsVotes ==
  ASSUME PromisedVotes, [Lifecycle!LifecycleNext]_(Lifecycle!lifecycleVars)
  PROVE  PromisedVotes'
<1>1. CASE UNCHANGED Lifecycle!lifecycleVars
  BY <1>1 DEF PromisedVotes, Lifecycle!StandersVoteForThemselves,
              Lifecycle!lifecycleVars
<1>2. ASSUME NEW s \in Server, NEW t,
             \/ Lifecycle!Move(s, "follower", t, Null)
             \/ Lifecycle!Move(s, "candidate", t, s)
             \/ Lifecycle!Move(s, "down", t, Null)
      PROVE  PromisedVotes'
  BY <1>2, MoveKeepsVotes
<1>3. ASSUME NEW s \in Server,
             \/ Lifecycle!Boot(s) \/ Lifecycle!Adopt(s)
             \/ Lifecycle!Stand(s) \/ Lifecycle!Exit(s)
      PROVE  PromisedVotes'
  <2>1. PICK t : \/ Lifecycle!Move(s, "follower", t, Null)
                 \/ Lifecycle!Move(s, "candidate", t, s)
                 \/ Lifecycle!Move(s, "down", t, Null)
    BY <1>3 DEF Lifecycle!Boot, Lifecycle!Adopt, Lifecycle!Stand, Lifecycle!Exit,
                Lifecycle!MoveToTerm, Lifecycle!Move
  <2> QED BY <1>2, <2>1
<1>4. ASSUME NEW s \in Server, Lifecycle!Win(s) \/ Lifecycle!Yield(s)
      PROVE  PromisedVotes'
  <2>1. role[s] = "candidate" /\ votedFor[s] = s
    BY <1>4 DEF Lifecycle!Win, Lifecycle!Yield, PromisedVotes,
                Lifecycle!StandersVoteForThemselves
  <2>2. \E to \in {"leader", "follower"} : \E t : Lifecycle!Move(s, to, t, s)
    BY <1>4, <2>1 DEF Lifecycle!Win, Lifecycle!Yield
  <2> QED BY <2>2, MoveKeepsVotes
<1> QED BY <1>1, <1>3, <1>4 DEF Lifecycle!LifecycleNext

(* A server has no vote but its own, and has it as long as it stands or     *)
(* leads: a consequence of the promise, whatever the votes it granted.      *)
THEOREM OwnVotesOnly == Spec => []Lifecycle!StandersVoteForThemselves
<1>1. Lifecycle!LifecycleInit => PromisedVotes
  BY DEF Lifecycle!LifecycleInit, PromisedVotes, Lifecycle!StandersVoteForThemselves
<1>2. PromisedVotes /\ [Lifecycle!LifecycleNext]_(Lifecycle!lifecycleVars)
        => PromisedVotes'
  BY LifecycleStepKeepsVotes
<1>3. PromisedVotes => Lifecycle!StandersVoteForThemselves
  BY DEF PromisedVotes
<1> QED BY <1>1, <1>2, <1>3, ServersKeepTheirPromise, PTL
        DEF ImplementsLifecycle, Lifecycle!LifecycleSpec
=============================================================================
