--------------------------- MODULE RaftProperties ---------------------------
(***************************************************************************)
(* What the servers keep true, and what the repository says of them.        *)
(***************************************************************************)
EXTENDS Raft

(* The variables hold what the code stores in them, and nothing but         *)
(* responses is held up by a file write.                                    *)
ServersTypeOK ==
  /\ role \in [Server -> Role]
  /\ boot \in [Server -> Nat]
  /\ currentTerm \in [Server -> Nat]
  /\ votedFor \in [Server -> Server \cup {Null}]
  /\ leaderId \in [Server -> Server \cup {Null}]
  /\ timer \in [Server -> BOOLEAN]
  /\ candidates \in [Server -> Nat]
  /\ serverVotes \in [Server -> SUBSET Server]
  /\ log \in [Server -> Seq(LogEntry)]
  /\ commitIndex \in [Server -> Nat]
  /\ matchIndex \in [Server -> [Server -> Nat \cup {Null}]]
  /\ nextIndex \in [Server -> [Server -> Int \cup {NaN}]]
  /\ inSync \in [Server -> [term : BOOLEAN, vote : BOOLEAN]]
  /\ disk \in [Server -> [term : Nat \cup {Null}, vote : Server \cup {Null}]]

Write == [file : {"term"}, value : Nat, reply : Responses]
         \cup [file : {"vote"}, value : Server \cup {Null}, reply : Responses]

TypeOK ==
  /\ ServersTypeOK
  /\ IsABag(pending) /\ BagToSet(pending) \subseteq Write
  /\ IsABag(messages) /\ BagToSet(messages) \subseteq Message

-----------------------------------------------------------------------------
(* Terms and votes.                                                         *)

Responding == {w.reply : w \in BagToSet(pending)}

SentBy(s) ==
  {m \in BagToSet(messages) \cup Responding : Up(s) /\ m.from = ProcessOf(s)}

Lifecycle == INSTANCE ServerLifecycle
  WITH NoVote <- Null, state <- role, term <- currentTerm, vote <- votedFor

(* Every server keeps the promise of ServerLifecycle about its term, vote   *)
(* and role, through timeouts of any number of leaked listeners, messages   *)
(* of any age and restarts.                                                 *)
ImplementsLifecycle == Lifecycle!LifecycleSpec

(* A server that stood in a term has granted nobody's request in that term: *)
(* neither a grant on its way nor one held up by a file write is of the     *)
(* term it voted for itself in.                                             *)
NoGrantAfterStanding ==
  \A s \in Server : votedFor[s] = s =>
    \A m \in SentBy(s) : GrantsVote(m) => m.term < currentTerm[s]

(* Nothing a process sent, or will send when its files are written, is of a *)
(* term it has not reached: a term raises other servers' only after some    *)
(* server stood in it.                                                      *)
NoMessageAheadOfItsSender ==
  \A s \in Server : \A m \in SentBy(s) : m.term <= currentTerm[s]

(* A server that waits for a leader has its election timer running, however *)
(* it came to wait: no sequence of elections, heartbeats and yields leaves  *)
(* it without one.                                                          *)
ElectionTimerArmed ==
  \A s \in Server : role[s] \in {"follower", "candidate"} => timer[s]

(* No write, not even one that ends after later ones, leaves in the term's  *)
(* file a term its server has not reached, so a restart never skips ahead.  *)
TermFileNotAhead ==
  \A s \in Server : Up(s) =>
    /\ disk[s].term \in 0..currentTerm[s]
    /\ \A w \in BagToSet(pending) :
         w.reply.from.server = s /\ w.file = "term" => w.value <= currentTerm[s]

(* While a server leads, every server that is up reaches its term; so of    *)
(* two leaders of different terms the earlier one steps down.               *)
LeaderTermSpreads ==
  \A s, p \in Server :
    role[s] = "leader" ~>
      role[s] # "leader" \/ ~ Up(p) \/ currentTerm[p] >= currentTerm[s]

-----------------------------------------------------------------------------
(* Logs.                                                                    *)

(* The entry at a position has that index, terms never decrease along a log *)
(* and none is later than the server's own: what getEntry, hasEntry and the *)
(* comparison with the last term rely on.                                   *)
LogWellFormed ==
  \A s \in Server : \A i \in DOMAIN log[s] :
    /\ log[s][i].index = i - 1
    /\ log[s][i].term <= currentTerm[s]
    /\ i > 1 => log[s][i - 1].term <= log[s][i].term

(* A log grows only at a leader, by an entry of its term; the log of another*)
(* server is only ever cut back to a prefix.  A follower never takes an     *)
(* entry from a leader: it accepts only messages whose preceding entry is   *)
(* the leader's last, which leaves no entry of the message to append.       *)
LogGrowsOnlyAtLeader ==
  [][\A s \in Server : Up(s) /\ role'[s] # "down" /\ log'[s] # log[s] =>
       LET kept == SubSeq(log'[s], 1, Len(log'[s]) - 1) IN
       IF role'[s] = "leader"
       THEN kept = log[s] /\ LastTerm(log'[s]) = currentTerm[s]
       ELSE Len(log'[s]) < Len(log[s]) /\ log'[s] = SubSeq(log[s], 1, Len(log'[s]))
    ]_vars

(* A follower whose log was cut to nothing, the sentinel included, only     *)
(* follows from then on, with an empty log: no leader gives it an entry     *)
(* again, and it neither stands nor leads, because its next election throws *)
(* (src/state/candidate.ts:125) and ends the process.                       *)
EmptiedServersOnlyFollow ==
  [][\A s \in Server : Up(s) /\ log[s] = <<>> /\ role'[s] # "down" =>
       role'[s] = "follower" /\ log'[s] = <<>>]_vars

(* No entry is ever committed, for two reasons that hide each other: the    *)
(* zeros a leader keeps under array positions are the median of its match   *)
(* indices whoever answers, and a follower reports its commit index, which  *)
(* it has from the leader, where its last matching index is meant.          *)
NothingCommitted ==
  \A s \in Server :
    /\ commitIndex[s] = 0
    /\ role[s] = "leader" => MedianMatchIndex(matchIndex[s]) = 0

-----------------------------------------------------------------------------
(* What the repository says and the code does not do.                       *)

(* Of one term there is at most one leader: a vote is "...candidateId that  *)
(* received vote in current term..." (src/server.ts:107-108) and a majority *)
(* of votes makes a leader (src/state/candidate.ts:159-162).                *)
ElectionSafety ==
  \A s, t \in Server :
    role[s] = "leader" /\ role[t] = "leader" /\ currentTerm[s] = currentTerm[t]
      => s = t

(* "After transitioning to a candidate, the server increments its current   *)
(* term" (src/state/candidate.ts:134-136): once.                            *)
ElectionRaisesTermByOne ==
  [][\A s \in Server :
       votedFor'[s] = s /\ currentTerm'[s] # currentTerm[s]
         => currentTerm'[s] = currentTerm[s] + 1]_vars

(* "Before responding to an RPC request, the recipient Server updates       *)
(* persistent state on stable storage" (src/server.ts:135-138): a response  *)
(* under way is of no later term than the file of its sender.               *)
PersistBeforeResponding ==
  \A m \in BagToSet(messages) :
    IsResponse(m) /\ Up(m.from.server) => m.term <= disk[m.from.server].term

(* "To satisfy this requirement, we create an empty log entry on all        *)
(* servers" (src/log/log.ts:9-15): the first index is taken by it.          *)
SentinelKept == \A s \in Server : log[s] # <<>> /\ log[s][1] = Sentinel
=============================================================================
