----------------------------- MODULE ApplyLoop -----------------------------
(***************************************************************************)
(* Server.setCommitIndexAndExecuteUnapplied (src/server.ts:145-161) and the *)
(* observable state machine (src/state-machine) of one server: calls that   *)
(* overlap because each waits for the user's state machine between two      *)
(* entries, a log that grows and is cut meanwhile, and clients that wait    *)
(* for the result of their command.                                         *)
(*                                                                          *)
(* In the cluster of Raft.tla nothing is ever committed, so that these      *)
(* calls are not made; here their callers' conditions are all that limits   *)
(* them.                                                                    *)
(***************************************************************************)
EXTENDS Naturals, Sequences

CONSTANTS
  Buffer,    \* command buffers; listeners are kept by a buffer's identity
  MaxIndex,  \* bound: entries of the log and commit indices
  MaxCalls   \* bound: calls ever made

ASSUME BoundAssumption == MaxIndex \in Nat /\ MaxCalls \in Nat

VARIABLES
  log,          \* the entries' commands, without the sentinel
  commitIndex, lastApplied,
  calls,        \* calls that wait for the state machine to execute an entry
  started,      \* calls made so far
  listeners,    \* commands whose client waits
  highest,      \* history: the highest commit index there ever was
  finished,     \* history: executions that ended well
  answers,      \* history: how often the client of a command was answered
  broken        \* history: did an execution fail, or a cut reach an entry that had
                \* been committed

serverVars == <<log, commitIndex, lastApplied, calls, started, listeners>>
vars == <<serverVars, highest, finished, answers, broken>>

Execution == [call : Nat, index : Nat, command : Buffer]

Used == {log[i] : i \in DOMAIN log} \cup {e.command : e \in finished \cup calls}

Init ==
  /\ log = <<>> /\ commitIndex = 0 /\ lastApplied = 0
  /\ calls = {} /\ started = 0 /\ listeners = {}
  /\ highest = 0 /\ finished = {} /\ answers = [command \in Buffer |-> 0] /\ broken = FALSE

-----------------------------------------------------------------------------
(* Mutants of the loop's head: it executes `undefined` for a missing entry, *)
(* one entry too many, only the last, the one after the field lastApplied,  *)
(* or all but the last.                                                     *)
WaitingCall(call, index, command) == [call |-> call, index |-> index, command |-> command]

IterateUndefined(call, applied, commit, others) ==
  /\ calls' = others \cup
       {WaitingCall(call, i, IF i \in DOMAIN log THEN log[i] ELSE "undefined") :
          i \in (applied + 1)..commit \cap {applied + 1}}
  /\ UNCHANGED broken

IterateTooFar(call, applied, commit, others) ==
  /\ calls' = others \cup
       {WaitingCall(call, i, log[i]) : i \in DOMAIN log \cap {applied + 1}}
  /\ UNCHANGED broken

IterateLast(call, applied, commit, others) ==
  /\ calls' = others \cup
       {WaitingCall(call, i, log[i]) : i \in DOMAIN log \cap (applied + 1)..commit \cap {commit}}
  /\ UNCHANGED broken

IterateFromField(call, applied, commit, others) ==
  /\ calls' = others \cup
       {WaitingCall(call, i, log[i]) :
          i \in DOMAIN log \cap (lastApplied + 1)..commit \cap {lastApplied + 1}}
  /\ UNCHANGED broken

IterateShort(call, applied, commit, others) ==
  /\ calls' = others \cup
       {WaitingCall(call, i, log[i]) :
          i \in DOMAIN log \cap (applied + 1)..(commit - 1) \cap {applied + 1}}
  /\ broken' = (broken \/ (applied < commit /\ applied + 1 \notin DOMAIN log))

(* The head of the loop, after the call has applied the entries up to       *)
(* `applied`: it ends, or executes the next entry, or fails on the command  *)
(* of an entry the log does not have.                                       *)
Iterate(call, applied, commit, others) ==
  /\ calls' = others \cup
       {WaitingCall(call, i, log[i]) :
          i \in {j \in DOMAIN log : j = applied + 1 /\ j <= commit}}
  /\ broken' = (broken \/ (applied < commit /\ applied + 1 \notin DOMAIN log))

(* The index is set whatever it was.                                        *)
SetCommitIndexAndExecuteUnapplied(index) ==
  /\ started < MaxCalls
  /\ commitIndex' = index
  /\ highest' = IF index > highest THEN index ELSE highest
  /\ started' = started + 1
  /\ Iterate(started + 1, lastApplied, index, calls)
  /\ UNCHANGED <<log, lastApplied, listeners, finished, answers>>

(* A leader commits an entry of its log that its followers have.            *)
LeaderCommits(index) ==
  /\ index \in DOMAIN log /\ index > commitIndex
  /\ SetCommitIndexAndExecuteUnapplied(index)

(* A follower compares the leader's commit index with its own, and then     *)
(* takes that or the index of the last entry of the message, which may be   *)
(* lower than its own; a message without entries counts as one with an      *)
(* entry beyond all.                                                        *)
FollowerCommits(leaderCommit, lastNewEntry) ==
  /\ leaderCommit > commitIndex
  /\ SetCommitIndexAndExecuteUnapplied(
       IF lastNewEntry < leaderCommit THEN lastNewEntry ELSE leaderCommit)

(* Mutant: listeners are told of every execution.                           *)
KeepListeners(command) ==
  /\ answers' = [answers EXCEPT ![command] = IF command \in listeners THEN @ + 1 ELSE @]
  /\ UNCHANGED listeners

(* Mutant: listeners are dropped before they are told.                      *)
DropListeners(command) ==
  /\ listeners' = listeners \ {command}
  /\ UNCHANGED answers

NotifyExecuted(command) ==
  /\ answers' = [answers EXCEPT ![command] = IF command \in listeners THEN @ + 1 ELSE @]
  /\ listeners' = listeners \ {command}

(* The state machine has executed an entry: its client is answered, and the *)
(* call that waited marks it applied and goes on.                           *)
Executed(execution) ==
  /\ execution \in calls
  /\ finished' = finished \cup {execution}
  /\ NotifyExecuted(execution.command)
  /\ lastApplied' = execution.index
  /\ Iterate(execution.call, execution.index, commitIndex, calls \ {execution})
  /\ UNCHANGED <<log, commitIndex, highest, started>>

(* The state machine rejects: so does the call, and the client still waits. *)
ExecutionFails(execution) ==
  /\ execution \in calls
  /\ calls' = calls \ {execution}
  /\ broken' = TRUE
  /\ UNCHANGED <<log, commitIndex, highest, lastApplied, started, listeners, finished, answers>>

-----------------------------------------------------------------------------
(* What else happens to the log: a client's command at a leader (leader.ts) *)
(* with its listener, and entries that a follower takes or cuts off.        *)
OnceExecuted(command) == listeners' = listeners \cup {command}

Execute(command) ==
  /\ command \notin Used
  /\ Len(log) < MaxIndex
  /\ log' = Append(log, command)
  /\ OnceExecuted(command)
  /\ UNCHANGED <<commitIndex, highest, lastApplied, calls, started, finished, answers, broken>>

Store(command) ==
  /\ command \notin Used
  /\ Len(log) < MaxIndex
  /\ log' = Append(log, command)
  /\ UNCHANGED <<commitIndex, highest, lastApplied, calls, started, listeners, finished,
                 answers, broken>>

Truncate(index) ==
  /\ index \in DOMAIN log
  /\ log' = SubSeq(log, 1, index - 1)
  /\ broken' = (broken \/ index <= highest)
  /\ UNCHANGED <<commitIndex, highest, lastApplied, calls, started, listeners, finished, answers>>

Next ==
  \/ \E index \in 1..MaxIndex : LeaderCommits(index) \/ Truncate(index)
  \/ \E leaderCommit, lastNewEntry \in 0..MaxIndex :
       FollowerCommits(leaderCommit, lastNewEntry)
  \/ \E execution \in calls : Executed(execution) \/ ExecutionFails(execution)
  \/ \E command \in Buffer : Execute(command) \/ Store(command)

Spec == Init /\ [][Next]_vars

(* The state machine ends every execution, one way or the other.            *)
ExecutionsEnd ==
  \A call \in 1..MaxCalls, index \in 1..MaxIndex :
    WF_vars(\E execution \in calls :
              /\ execution.call = call /\ execution.index = index
              /\ Executed(execution) \/ ExecutionFails(execution))

FairSpec == Spec /\ ExecutionsEnd

-----------------------------------------------------------------------------
IsExecuted(index) == \E e \in finished : e.index = index

ApplyTypeOK ==
  /\ log \in Seq(Buffer)
  /\ commitIndex \in Nat /\ highest \in Nat /\ lastApplied \in Nat /\ started \in Nat
  /\ calls \subseteq Execution /\ finished \subseteq Execution
  /\ listeners \subseteq Buffer
  /\ answers \in [Buffer -> Nat]
  /\ broken \in BOOLEAN

(* However calls overlap, and though both indices may go back: every entry *)
(* up to lastApplied has been executed, and nothing is applied or executed  *)
(* that was not committed by then.                                          *)
AppliedWasExecuted ==
  /\ lastApplied <= highest
  /\ \A index \in 1..lastApplied : IsExecuted(index)
  /\ \A e \in calls \cup finished : e.index <= highest

(* No execution skips an entry: when one is executed, the one before it has *)
(* been.                                                                    *)
ExecutedInOrder ==
  \A e \in calls \cup finished : e.index = 1 \/ IsExecuted(e.index - 1)

(* An entry is executed more than once only by different calls: a call goes *)
(* from entry to entry and never back.                                      *)
NoCallGoesBack ==
  \A e \in calls :
    /\ \A other \in calls : other.call = e.call => other = e
    /\ \A done \in finished : done.call = e.call => done.index < e.index

(* A client is answered at most once, though overlapping calls execute its  *)
(* command again, and only after it was executed.                           *)
AnsweredOnce ==
  \A command \in Buffer :
    /\ answers[command] <= 1
    /\ command \in listeners => answers[command] = 0
    /\ answers[command] = 1 => \E e \in finished : e.command = command

(* Unless an execution fails or an entry is cut that had been committed,    *)
(* lastApplied comes to the commit index whichever of the overlapping calls *)
(* is last, and the client of an entry that stays committed gets its answer.*)
CatchesUp == []<>(lastApplied >= commitIndex \/ broken)

IsCommitted(command) == \E i \in DOMAIN log : i <= commitIndex /\ log[i] = command

ClientsAreAnswered ==
  \A command \in Buffer :
    command \in listeners /\ IsCommitted(command)
      ~> (answers[command] = 1 \/ broken \/ ~ IsCommitted(command))

-----------------------------------------------------------------------------
(* What the repository says and the code does not do.                       *)

(* "Volatile state on all servers...(initialized to 0, increases            *)
(* monotonically)" (src/server.ts:195): lastApplied never goes back, not    *)
(* even while no execution fails and no committed entry is cut.             *)
LastAppliedIncreases == [][broken' \/ lastApplied' >= lastApplied]_vars
=============================================================================
