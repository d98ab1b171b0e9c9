------------------------------- MODULE MCRaft -------------------------------
(***************************************************************************)
(* Raft with its counters bounded, for TLC.  A run sweeps one or several    *)
(* instances: which one a behaviour belongs to is chosen with its initial   *)
(* state.                                                                   *)
(***************************************************************************)
EXTENDS RaftProperties

CONSTANT Instances   \* those of this run

VARIABLE instance

(* What an instance bounds.                                                 *)
Smallest ==
  [servers     |-> 2,      \* the servers ever started
   commands    |-> FALSE,  \* do clients send commands?
   term        |-> 2,      \* no server goes past this term
   boot        |-> 1,      \* processes per server
   inFlight    |-> 2,      \* messages in flight, in all
   pending     |-> 1,      \* file writes under way, in all
   log         |-> 1,      \* entries per log, the sentinel included
   countdown   |-> 1,      \* how far below zero a leader counts a nextIndex
   writeErrors |-> FALSE]  \* may a file write fail?

(* The instances of the runs, named in their cfg.                           *)
Elections == [Smallest EXCEPT !.servers = 3, !.term = 3, !.countdown = 0]

Restarts == [Smallest EXCEPT !.term = 3, !.boot = 2, !.pending = 2, !.countdown = 0,
                             !.writeErrors = TRUE]

Replication == [Smallest EXCEPT !.term = 5, !.log = 3, !.commands = TRUE]

Emptying == [Smallest EXCEPT !.term = 6, !.log = 2, !.inFlight = 1, !.commands = TRUE]

ClusterInstances == {Elections, Restarts, Replication, Emptying}
LivenessInstances == {[Smallest EXCEPT !.term = 4]}
ElectionSafetyInstances == {[Smallest EXCEPT !.servers = 3]}
TermPerElectionInstances == {Smallest}
PersistenceInstances == {[Smallest EXCEPT !.term = 3]}
SentinelInstances == {[Smallest EXCEPT !.term = 3, !.log = 2, !.commands = TRUE]}

Symmetry == Permutations(Server)

InBounds ==
  /\ BagCardinality(messages) <= instance.inFlight
  /\ BagCardinality(pending) <= instance.pending
  /\ Cardinality({s \in Server : boot[s] > 0}) <= instance.servers
  /\ \A s \in Server :
       /\ boot[s] <= instance.boot
       /\ currentTerm[s] <= instance.term
       /\ Len(log[s]) <= instance.log
       /\ \A p \in Server :
            nextIndex[s][p] = NaN \/ nextIndex[s][p] >= - instance.countdown

MCInit == Init /\ instance \in Instances

MCNext ==
  /\ UNCHANGED instance
  /\ \/ \E s \in Server :
          \/ Start(s) /\ InBounds'
          \/ boot[s] < instance.boot /\ Crash(s)
          \/ Timeout(s) /\ InBounds'
          \/ TimeoutWithoutLog(s)
          \/ Heartbeat(s) /\ InBounds'
          \/ /\ instance.commands
             /\ \E command \in Command : Execute(s, command) /\ InBounds'
     \/ \E w \in BagToSet(pending) :
          \/ WriteDone(w) /\ InBounds'
          \/ instance.writeErrors /\ WriteFails(w)
     \/ \E m \in BagToSet(messages) :
          \/ ReceiveRequestVoteRequest(m) /\ InBounds'
          \/ ReceiveAppendEntriesRequest(m) /\ InBounds'
          \/ ReceiveVote(m) /\ InBounds'
          \/ YieldToLeader(m)
          \/ ReceiveAppendEntriesResponse(m) /\ InBounds'
          \/ ReceiveResponseOfNewerTerm(m) /\ InBounds'
          \/ ReceiveUnhandled(m)

MCSpec == MCInit /\ [][MCNext]_<<vars, instance>>

(* Fairness of Raft for the steps that stay within the bounds.              *)
MCFairness ==
  /\ WF_vars(UNCHANGED instance /\ ReceiveAny /\ InBounds')
  /\ WF_vars(UNCHANGED instance /\ FinishWrite /\ InBounds')
  /\ \A s \in Server : \A p \in Peers(s) :
       /\ WF_vars(UNCHANGED instance /\ HeartbeatArrives(s, p) /\ InBounds')
       /\ SF_vars(UNCHANGED instance /\ ReceiveHeartbeat(s, p) /\ InBounds')

MCFairSpec == MCSpec /\ MCFairness
=============================================================================
