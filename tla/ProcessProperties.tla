------------------------- MODULE ProcessProperties -------------------------
(***************************************************************************)
(* What one server keeps from the inside (ServerProcess): its timers, its   *)
(* term's file, and what stop() leaves.                                     *)
(***************************************************************************)
EXTENDS ServerProcess

(* Types.  A server that has entered the cluster has a term, if only NaN.   *)
ProcessTypeOK ==
  /\ currentTerm \in Nat \cup {Null, NaN} /\ termInSync \in BOOLEAN
  /\ termFile = Absent \/ \A i \in 1..Len(termFile) : termFile[i] \in 0..NotADigit
  /\ \A op \in termOps :
       /\ op.caller \in Slots \cup {0}
       /\ op.step \in {"open", "put", "done", "failed"}
  /\ votedFor \in {Null, Self} /\ voteInSync \in BOOLEAN
  /\ running \in BOOLEAN /\ visiting \in 0..Len(listeners)
  /\ phase \in {"off", "access", "read", "write", "started"}
  /\ role \in {"noop", "follower", "candidate", "leader"}
  /\ interval \in BOOLEAN /\ receiving \in BOOLEAN
  /\ \A slot \in Slots :
       /\ responses[slot].awaits \in {"nothing", "term", "vote", "socket"}
       /\ responses[slot].awaits = "term" <=> \E op \in termOps : op.caller = slot
  /\ phase = "started" => currentTerm # Null

(* Once stop() has been called on a started server and has left no election *)
(* timer, no timer runs again in that process and nothing is received.      *)
(* Writes and responses that were under way end later (server.ts:218): a    *)
(* vote granted before must not start the timer (follower.ts:210).  A       *)
(* leader's exit() leaves a timer that such a vote has started; then stop() *)
(* has left one, and the promise does not hold.                             *)
StopIsFinal == history.silent => ~ running /\ ~ interval /\ ~ receiving /\ Idle

(* Heartbeats are sent by leaders only and by every leader; whoever else is *)
(* in the cluster has a timer running, so that it stands one day.  Late     *)
(* resets, timeouts and messages change role and timers in any order.       *)
TimersFollowRole ==
  /\ interval => role = "leader"
  /\ receiving /\ Idle => IF role = "leader" THEN interval ELSE running

(* Visiting the listeners one by one, leaked ones and new ones included     *)
(* (election-timer.ts:36), a timeout ends with the term that Raft.tla gives *)
(* it in one step (ElectionsDue).                                           *)
TimeoutRunsElections ==
  [][~ Idle /\ visiting' = 0 /\ phase' # "off" => currentTerm' = history.target]_vars

(* A process killed between the opening and the writing of the term's file  *)
(* leaves nothing in it, which reads as NaN (storage.ts:126) and not as the *)
(* null of EmptyFileReadsAsNull below.  No message, election, write or      *)
(* restart ever gets such a server back to a number.                        *)
Poisoned ==
  /\ currentTerm \in {Null, NaN}
  /\ Term!Exists /\ DeserializeInteger(termFile) = NaN

PoisonedForever == [][Poisoned => Poisoned']_vars

(* Writes that overlap may leave the digits of one over those of another:   *)
(* a 9 over a 10 is a 90.  Whatever is cut off, the file never holds more   *)
(* digits than the highest term the server was ever in.  Unless writes of   *)
(* different widths overlapped or one failed, it is empty, holds the text   *)
(* NaN, or holds a number no higher than that term: then no restart puts the*)
(* server ahead of where it was.                                            *)
TermFileNotFarAhead ==
  LET text == TextIn(termFile) IN
  /\ LeadingDigits(text) <= Len(DigitsOf[history.highest])
  /\ ~ history.mixed =>
       text \in {<<>>, <<NotADigit>>} \cup {DigitsOf[n] : n \in 0..history.highest}

(* As long as a process writes one unchanging term at a time and no write   *)
(* fails, a term that counts as in sync (storage.ts:98) is in the file.     *)
QuietFileHoldsTerm ==
  history.quiet /\ termInSync /\ termOps = {} =>
    Term!Exists /\ DeserializeInteger(termFile) = currentTerm

(* What ServerLifecycle promises of a server is kept by each of these steps *)
(* too; a server that is poisoned, or has not entered the cluster, is down. *)
InCluster == phase = "started" /\ currentTerm # NaN

Lifecycle == INSTANCE ServerLifecycle WITH
  Server <- {Self}, NoVote <- Null,
  state <- [s \in {Self} |-> IF InCluster THEN role ELSE "down"],
  term <- [s \in {Self} |-> IF InCluster THEN currentTerm ELSE 0],
  vote <- [s \in {Self} |-> IF InCluster THEN votedFor ELSE Null]

ProcessImplementsLifecycle == Lifecycle!LifecycleSpec

-----------------------------------------------------------------------------
(* What the repository says and the code does not do.                       *)

(* "The value is null until it is `read` from the disk path, and is null    *)
(* when `read` is called but the disk path does not exist or is empty"      *)
(* (src/storage/storage.ts:104-107): a start that reads a term's file with  *)
(* nothing in it gives the server a term that counts as unset.              *)
EmptyFileReadsAsNull ==
  [][phase = "read" /\ phase' = "started" /\ TextIn(termFile) = <<>>
       => currentTerm' = Null]_vars
=============================================================================
