--------------------------- MODULE FollowerState ---------------------------
(***************************************************************************)
(* The follower's handlers, src/state/follower.ts.  A server of any role    *)
(* that gets a request of a newer term is a follower by the time its state  *)
(* sees the request (src/server.ts:113-132).                                *)
(***************************************************************************)
EXTENDS ServerContext

(* Mutant: a newer term does not make a candidate or a leader a follower.   *)
HandledByFollowersOnly(m) == Deliverable(m) /\ role[m.to.server] = "follower"

HandledByFollower(m) ==
  /\ Deliverable(m)
  /\ role[m.to.server] = "follower" \/ IsNewer(m.to.server, m)

(* Mutant: a vote is granted whatever the vote already given.               *)
VoteGrantedAnyway(term, vote, m) == m.term >= term

(* The vote is granted but never recorded: nothing here calls setVotedFor.  *)
VoteGranted(term, vote, m) == m.term >= term /\ vote \in {Null, m.candidateId}

ReceiveRequestVoteRequest(m) ==
  LET s == m.to.server
      granted == VoteGranted(currentTerm'[s], votedFor'[s], m)
      reply == RequestVoteResponse(m.to, m.from, TermAfter(s, m), granted)
      sent == FirstWrite(s, reply) = {}
  IN /\ m.type = "RequestVoteRequest"
     /\ HandledByFollower(m)
     /\ AdoptTerm(s, m)
     /\ BecomeFollower(s, LeaderKnownAfter(s), granted /\ sent)
     /\ Respond(m, reply)
     /\ UNCHANGED <<logVars, processVars>>

(* Mutant: the entry before the new ones is not looked for.                 *)
LogAlwaysMatches(s, m) == TRUE

(* The log has the entry before the new ones (which the leader takes to be  *)
(* the last of its own log, see LeaderState).                               *)
LogMatches(s, m) ==
  /\ HasEntry(log[s], m.prevLogIndex)
  /\ GetEntry(log[s], m.prevLogIndex).term = m.prevLogTerm

Accepts(s, m) == m.term >= currentTerm[s] /\ LogMatches(s, m)

CommitAfter(s, m) ==
  LET n == Len(m.entries) IN
  IF m.leaderCommit <= commitIndex[s] THEN commitIndex[s]
  ELSE IF n > 0 /\ m.entries[n].index < m.leaderCommit THEN m.entries[n].index
  ELSE m.leaderCommit

(* The sender becomes the leader of the follower and its timer is reset     *)
(* before the term is looked at.                                            *)
ReceiveAppendEntriesRequest(m) ==
  LET s == m.to.server
      accepted == Accepts(s, m)
  IN /\ m.type = "AppendEntriesRequest"
     /\ HandledByFollower(m)
     /\ AdoptTerm(s, m)
     /\ BecomeFollower(s, m.leaderId, TRUE)
     /\ log' = [log EXCEPT ![s] = IF accepted THEN StoreEntries(@, m.entries) ELSE @]
     /\ commitIndex' = [commitIndex EXCEPT ![s] =
                          IF accepted THEN CommitAfter(s, m) ELSE @]
     /\ Respond(m, AppendEntriesResponse(m.to, m.from, TermAfter(s, m),
                                         commitIndex'[s], accepted))
     /\ UNCHANGED processVars
=============================================================================
