---------------------------- MODULE LeaderState ----------------------------
(***************************************************************************)
(* The leader's handlers, src/state/leader.ts.  enter() runs `for ... in`   *)
(* over the array of server ids: matchIndex and nextIndex are initialised   *)
(* under the array's positions, which no follower is called by, and hold    *)
(* nothing for a follower until it answers.                                 *)
(***************************************************************************)
EXTENDS ServerContext

AppendEntriesTo(s, p, index, entries) ==
  AppendEntriesRequest(ProcessOf(s), ProcessOf(p), currentTerm[s], commitIndex[s],
                       LastIndex(entries), LastTerm(entries), Slice(entries, index))

SendAppendEntries(s, received, next, entries) ==
  Send(received, {AppendEntriesTo(s, p, next[p], entries) : p \in Peers(s)})

(* The timer is stopped by the exit of the candidate.                       *)
BecomeLeader(s, received) ==
  /\ role' = [role EXCEPT ![s] = "leader"]
  /\ leaderId' = [leaderId EXCEPT ![s] = s]
  /\ timer' = [timer EXCEPT ![s] = FALSE]
  /\ matchIndex' = [matchIndex EXCEPT ![s] = Unknown]
  /\ nextIndex' = [nextIndex EXCEPT ![s] = Undefined]
  /\ SendAppendEntries(s, received, Undefined, log[s])

(* The interval timer.                                                      *)
Heartbeat(s) ==
  /\ role[s] = "leader"
  /\ SendAppendEntries(s, {}, nextIndex[s], log[s])
  /\ UNCHANGED <<stateVars, termVars, logVars, processVars, pending>>

(* The append of a client's command; the client is answered when the entry  *)
(* is applied.                                                              *)
Execute(s, command) ==
  LET entry == [index |-> NextIndex(log[s]), term |-> currentTerm[s],
                command |-> command]
  IN /\ role[s] = "leader"
     /\ log' = [log EXCEPT ![s] = Append(@, entry)]
     /\ SendAppendEntries(s, {}, nextIndex[s], Append(log[s], entry))
     /\ UNCHANGED <<stateVars, termVars, commitIndex, processVars, pending>>

-----------------------------------------------------------------------------
(* getMedianMatchIndex: of the Cardinality(Server) - 1 zeros under array    *)
(* positions and the match index of each follower that answered, sorted,    *)
(* the one in the middle, the lower of two.                                 *)
Answered(match) == {p \in Server : match[p] # Null}

CountUpTo(match, v) ==
  Cardinality(Server) - 1 + Cardinality({p \in Answered(match) : match[p] <= v})

MedianPosition(count) ==
  IF count % 2 = 1 THEN count \div 2 ELSE count \div 2 - 1

MedianMatchIndex(match) ==
  LET values == {0} \cup {match[p] : p \in Answered(match)}
      count == Cardinality(Server) - 1 + Cardinality(Answered(match))
  IN Min({v \in values : CountUpTo(match, v) > MedianPosition(count)})

(* Mutant: entries are committed without a majority.                        *)
CommittableByLeader(s, match) ==
  {N \in (commitIndex[s] + 1)..LastIndex(log[s]) :
     GetEntry(log[s], N).term = currentTerm[s]}

(* The loop down from the median stops at the first N it commits.           *)
Committable(s, match) ==
  {N \in (commitIndex[s] + 1)..MedianMatchIndex(match) :
     GetEntry(log[s], N).term = currentTerm[s]}

LeaderCommitAfter(s, match) ==
  LET ns == Committable(s, match) IN
  IF ns = {} THEN commitIndex[s] ELSE Max(ns)

(* undefined - 1 is NaN, and NaN - 1 is NaN.                                *)
Decrement(index) == IF index = NaN THEN NaN ELSE index - 1

NextIndexAfter(s, m) ==
  IF m.success THEN m.followerCommit + 1
  ELSE Decrement(nextIndex[s][m.followerId])

MatchIndexAfter(s, m) ==
  IF m.success THEN [matchIndex[s] EXCEPT ![m.followerId] = m.followerCommit]
  ELSE matchIndex[s]

ReceiveAppendEntriesResponse(m) ==
  LET s == m.to.server IN
  /\ m.type = "AppendEntriesResponse"
  /\ Deliverable(m)
  /\ role[s] = "leader" /\ ~ IsNewer(s, m)
  /\ matchIndex' = [matchIndex EXCEPT ![s] = MatchIndexAfter(s, m)]
  /\ nextIndex' = [nextIndex EXCEPT ![s][m.followerId] = NextIndexAfter(s, m)]
  /\ commitIndex' = [commitIndex EXCEPT ![s] = LeaderCommitAfter(s, MatchIndexAfter(s, m))]
  /\ Take({m})
  /\ UNCHANGED <<role, leaderId, timer, serverVotes, termVars, log, processVars, pending>>
=============================================================================
