--------------------------- MODULE CandidateState ---------------------------
(***************************************************************************)
(* The candidate's handlers, src/state/candidate.ts, and the election timer *)
(* (src/election-timer/election-timer.ts) that drives it.                   *)
(*                                                                          *)
(* exit() does not remove the listener that enter() gave the timer, so the  *)
(* timer's timeout reaches every follower and candidate object the server   *)
(* ever made: the oldest listener, a follower's, makes a server that is not *)
(* a candidate enter a new candidate object; then each candidate object     *)
(* starts an election, the new one, added while the listeners are visited,  *)
(* included.                                                                *)
(***************************************************************************)
EXTENDS LeaderState

IsMajority(votes) == Cardinality(votes) >= Cardinality(Server) \div 2 + 1

CandidatesAfterTimeout(s) ==
  IF role[s] = "candidate" THEN candidates[s] ELSE candidates[s] + 1

ElectionsAfterTimeout(s) ==
  IF role[s] = "candidate" THEN candidates[s] ELSE candidates[s] + 2

(* One startElection after the other: each takes the next term and requests *)
(* votes for it.                                                            *)
StartElections(s, elections) ==
  LET term == currentTerm[s] + elections IN
  /\ SetTermAndVote(s, term, s)
  /\ role' = [role EXCEPT ![s] = "candidate"]
  /\ leaderId' = [leaderId EXCEPT ![s] = Null]
  /\ ResetTimer(s, TRUE)
  /\ serverVotes' = [serverVotes EXCEPT ![s] = {s}]
  /\ matchIndex' = [matchIndex EXCEPT ![s] = Unknown]
  /\ nextIndex' = [nextIndex EXCEPT ![s] = Undefined]
  /\ Send({}, {RequestVoteRequest(ProcessOf(s), ProcessOf(p), t) :
               p \in Peers(s), t \in (currentTerm[s] + 1)..term})

(* Mutant: an empty log does not keep a server from standing.               *)
TimeoutWhateverTheLog(s) ==
  /\ timer[s]
  /\ StartElections(s, ElectionsAfterTimeout(s))
  /\ candidates' = [candidates EXCEPT ![s] = CandidatesAfterTimeout(s)]
  /\ UNCHANGED <<boot, disk, logVars, pending>>

Timeout(s) ==
  /\ timer[s]
  /\ log[s] # <<>>
  /\ StartElections(s, ElectionsAfterTimeout(s))
  /\ candidates' = [candidates EXCEPT ![s] = CandidatesAfterTimeout(s)]
  /\ UNCHANGED <<boot, disk, logVars, pending>>

(* requestVotes reads the term of the last entry.  With no entry at all, not*)
(* even the sentinel, it throws: the server is a candidate and in the next  *)
(* term by then, but has sent and stored nothing of it, and an exception in *)
(* a timer's callback ends the process.                                     *)
TimeoutWithoutLog(s) ==
  /\ timer[s]
  /\ log[s] = <<>>
  /\ Die(s)

ReceiveVote(m) ==
  LET s == m.to.server
      votes == serverVotes[s] \cup {m.from.server}
  IN /\ m.type = "RequestVoteResponse"
     /\ Deliverable(m)
     /\ role[s] = "candidate" /\ ~ IsNewer(s, m)
     /\ m.voteGranted
     /\ serverVotes' = [serverVotes EXCEPT ![s] = votes]
     /\ IF IsMajority(votes) THEN BecomeLeader(s, {m})
        ELSE /\ Take({m})
             /\ UNCHANGED <<role, leaderId, timer, matchIndex, nextIndex>>
     /\ UNCHANGED <<termVars, logVars, processVars, pending>>

(* The request makes the candidate a follower; it is not answered.          *)
YieldToLeader(m) ==
  LET s == m.to.server IN
  /\ m.type = "AppendEntriesRequest"
  /\ Deliverable(m)
  /\ role[s] = "candidate"
  /\ m.term = currentTerm[s]
  /\ BecomeFollower(s, m.leaderId, TRUE)
  /\ Take({m})
  /\ UNCHANGED <<termVars, logVars, processVars, pending>>
=============================================================================
