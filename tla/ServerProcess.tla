--------------------------- MODULE ServerProcess ---------------------------
(***************************************************************************)
(* One server from the inside (src/server.ts): start() and stop() from the  *)
(* signal handlers of the command line, its election timer listener by      *)
(* listener, its term's file step by step, the responses that wait for the  *)
(* files, and crashes.  Nothing ever reads the vote's file: of its writes   *)
(* only the end counts.  Other servers appear as the messages they may send.*)
(* Raft.tla has the same server with each of these in one step.             *)
(***************************************************************************)
EXTENDS ElectionTimer, FiniteSets, SequencesExt

CONSTANTS
  Null, NaN, Absent, Self,
  Radix,         \* digits of a term in its file; ten in the code
  Slots,         \* bound: responses held up at once
  MaxTerm,       \* bound: terms ever set
  MaxListeners,  \* bound: state objects made by a process
  MaxBoot        \* bound: processes of the server

ASSUME SlotsAssumption == 0 \notin Slots

ASSUME RadixAssumption == Radix \in Nat /\ Radix > 1

ASSUME ValuesAssumption ==
  /\ MaxTerm \in Nat
  /\ Null \notin Nat /\ NaN \notin Nat /\ Null # NaN
  /\ Absent \notin Seq(0..Radix)

VARIABLES
  currentTerm, termInSync, termFile, termOps,
  votedFor, voteInSync,
  phase,      \* of start(): "off", "access", "read", "write", "started"
  receiving,  \* is the receiver attached and the transport listening
  role,       \* type of the state object
  interval,   \* does the leader's interval timer run
  responses,  \* responses held up, and for what
  boot,
  history     \* what the properties compare with (Recorded)

termVars == <<currentTerm, termInSync, termFile, termOps>>
voteVars == <<votedFor, voteInSync>>
timerVars == <<running, listeners, visiting>>
serverVars == <<phase, receiving, role, interval, responses, boot>>
vars == <<termVars, voteVars, timerVars, serverVars, history>>

-----------------------------------------------------------------------------
(* Texts are sequences of characters: the digits, and one more for the text *)
(* "NaN".  parseInt reads the digits a text begins with.                    *)
NotADigit == Radix

DigitsOf[n \in Nat] ==
  IF n < Radix THEN <<n>> ELSE Append(DigitsOf[n \div Radix], n % Radix)

SerializeInteger(n) ==
  CASE n = Null -> <<>> [] n = NaN -> <<NotADigit>> [] OTHER -> DigitsOf[n]

LeadingDigits(text) ==
  SelectInSeq(text \o <<NotADigit>>, LAMBDA c : c = NotADigit) - 1

NumberOf(digits) ==
  LET value[n \in 0..Len(digits)] ==
        IF n = 0 THEN 0 ELSE value[n - 1] * Radix + digits[n]
  IN value[Len(digits)]

DeserializeInteger(text) ==
  IF LeadingDigits(text) = 0 THEN NaN
  ELSE NumberOf(SubSeq(text, 1, LeadingDigits(text)))

TextIn(file) == IF file = Absent THEN <<>> ELSE file

Term == INSTANCE DurableValue
  WITH value <- currentTerm, inSync <- termInSync, file <- termFile, ops <- termOps,
       Serialize <- SerializeInteger, Deserialize <- DeserializeInteger

SetVote(vote) == votedFor' = vote /\ voteInSync' = FALSE

NoResponse == [grants |-> FALSE, awaits |-> "nothing", lost |-> FALSE]

Init ==
  /\ currentTerm = Null /\ termInSync = FALSE /\ termOps = {}
  /\ termFile \in {Absent, <<>>} \cup {SerializeInteger(n) : n \in 1..2}
  /\ votedFor = Null /\ voteInSync = FALSE
  /\ running = FALSE /\ listeners = <<>> /\ visiting = 0
  /\ phase = "off" /\ receiving = FALSE /\ role = "noop" /\ interval = FALSE
  /\ responses = [slot \in Slots |-> NoResponse]
  /\ boot = 0
  /\ history = [highest |-> IF Len(TextIn(termFile)) = 0 THEN 0 ELSE DeserializeInteger(termFile),
                quiet |-> TRUE, mixed |-> FALSE, silent |-> FALSE, target |-> Null]

(* A timeout calls its listeners in one event; every other event waits.     *)
Idle == visiting = 0

-----------------------------------------------------------------------------
(* The process.                                                             *)

Forgotten ==
  /\ Term!Forget /\ SetVote(Null)
  /\ running' = FALSE /\ listeners' = <<>> /\ visiting' = 0
  /\ phase' = "off" /\ receiving' = FALSE /\ role' = "noop" /\ interval' = FALSE
  /\ responses' = [slot \in Slots |-> NoResponse]
  /\ UNCHANGED boot

Crash == phase # "off" /\ Forgotten

Boot ==
  /\ phase = "off" /\ boot < MaxBoot
  /\ phase' = "access"
  /\ boot' = boot + 1
  /\ UNCHANGED <<termVars, voteVars, timerVars, receiving, role, interval, responses>>

(* The end of start(): the receiver is attached, the transport listens and  *)
(* the server is a follower.                                                *)
EnterCluster ==
  /\ phase' = "started"
  /\ receiving' = TRUE
  /\ role' = "follower"
  /\ On("follower") /\ StartTimer
  /\ UNCHANGED <<visiting, interval, responses, boot>>

(* start() writes as caller 0.                                              *)
AccessDone ==
  /\ Idle /\ phase = "access"
  /\ IF Term!Exists
     THEN phase' = "read" /\ UNCHANGED termVars
     ELSE /\ Term!SetValue(0) /\ Term!BeginWrite(0)
          /\ phase' = "write"
          /\ UNCHANGED termFile
  /\ UNCHANGED <<voteVars, timerVars, receiving, role, interval, responses, boot>>

ReadDone ==
  /\ Idle /\ phase = "read"
  /\ Term!Read
  /\ EnterCluster
  /\ UNCHANGED <<termFile, termOps, voteVars>>

(* The callback goes on after it rejects: deserializing nothing throws.     *)
ReadFails == phase = "read" /\ Forgotten

(* Only a state's exit() stops what the state started, and before start()   *)
(* has ended there is neither state nor receiver.  The connections are      *)
(* destroyed, and a reply to one that is gone is refused.                   *)
Stop ==
  /\ Idle /\ phase # "off"
  /\ IF role \in {"follower", "candidate"} THEN StopTimer ELSE UNCHANGED running
  /\ interval' = FALSE
  /\ receiving' = FALSE
  /\ responses' = [slot \in Slots |->
       [responses[slot] EXCEPT !.lost = responses[slot].awaits # "nothing"]]
  /\ UNCHANGED <<termVars, voteVars, listeners, visiting, phase, role, boot>>

-----------------------------------------------------------------------------
(* Responses.                                                               *)

Free == {slot \in Slots : responses[slot].awaits = "nothing"}

Hold(slot, grants, awaits) ==
  responses' = [responses EXCEPT ![slot] = [grants |-> grants, awaits |-> awaits, lost |-> FALSE]]

(* sendRpcMessage and updatePersistentState: the term's write, the vote's,  *)
(* the socket, each unless it is not needed.                                *)
Respond(grants) ==
  /\ Free # {}
  /\ LET slot == CHOOSE slot \in Free : TRUE IN
     /\ Hold(slot, grants, IF ~ termInSync' THEN "term"
                           ELSE IF ~ voteInSync' THEN "vote" ELSE "socket")
     /\ IF termInSync' THEN UNCHANGED termOps ELSE Term!BeginWrite(slot)

Advance(slot, awaits) == responses' = [responses EXCEPT ![slot].awaits = awaits]
Drop(slot) == responses' = [responses EXCEPT ![slot] = NoResponse]

(* The callback of a response's write.                                      *)
WriteEnds(slot, failed, next) == IF failed THEN Drop(slot) ELSE Advance(slot, next)

(* A start() whose write failed leaves nothing that keeps the process alive.*)
TermCallback(op) ==
  /\ Idle
  /\ IF op.caller = 0
     THEN IF op.step = "failed" THEN op \in termOps /\ Forgotten
          ELSE Term!Callback(op) /\ EnterCluster /\ UNCHANGED voteVars
     ELSE /\ Term!Callback(op)
          /\ WriteEnds(op.caller, op.step = "failed", IF voteInSync THEN "socket" ELSE "vote")
          /\ UNCHANGED <<voteVars, timerVars, phase, receiving, role, interval, boot>>

VoteCallback(slot) ==
  /\ Idle
  /\ responses[slot].awaits = "vote"
  /\ voteInSync' = TRUE
  /\ \E failed \in BOOLEAN : WriteEnds(slot, failed, "socket")
  /\ UNCHANGED <<votedFor, termVars, timerVars, phase, receiving, role, interval, boot>>

(* The system's share of a write; no listener of a timeout looks at a file.  *)
TermFileStep(op) ==
  /\ Idle
  /\ Term!Truncate(op) \/ Term!Put(op) \/ Term!Fail(op)
  /\ UNCHANGED <<voteVars, timerVars, serverVars>>

(* Mutant: a response is sent although its connection was closed.           *)
SendEndsAfterStop(slot) ==
  /\ Idle
  /\ responses[slot].awaits = "socket"
  /\ IF responses[slot].grants THEN ResetTimer ELSE UNCHANGED running
  /\ Drop(slot)
  /\ UNCHANGED <<termVars, voteVars, listeners, visiting, phase, receiving, role, interval,
                 boot>>

(* The socket has taken the response, or it fails.  Whoever the server is by*)
(* then, a vote it granted resets the timer.                                *)
SendEnds(slot) ==
  /\ Idle
  /\ responses[slot].awaits = "socket"
  /\ \/ ~ responses[slot].lost /\ responses[slot].grants /\ ResetTimer
     \/ UNCHANGED running
  /\ Drop(slot)
  /\ UNCHANGED <<termVars, voteVars, listeners, visiting, phase, receiving, role, interval,
                 boot>>

-----------------------------------------------------------------------------
(* Messages.  One that changes nothing is not a step.                       *)

(* Mutant: a term that is not known to be older is taken for newer.         *)
IsNotOlder(t) == currentTerm # NaN => t > currentTerm

IsNewer(t) == currentTerm # NaN /\ t > currentTerm
IsCurrent(t) == currentTerm # NaN /\ t >= currentTerm

SetTermAndVote(t, vote) == Term!SetValue(t) /\ SetVote(vote)

AdoptTerm(t) ==
  IF IsNewer(t) THEN SetTermAndVote(t, Null)
  ELSE UNCHANGED <<currentTerm, termInSync, votedFor, voteInSync>>

RoleFor(t) == IF IsNewer(t) THEN "follower" ELSE role

(* Mutant: a leader that steps down goes on sending heartbeats.             *)
BecomeFollowerOnly(resets) ==
  /\ role' = "follower"
  /\ UNCHANGED interval
  /\ IF role = "follower" THEN UNCHANGED listeners ELSE On("follower")
  /\ IF resets \/ role # "follower" THEN StartTimer ELSE UNCHANGED running

(* transitionTo("follower"): a follower keeps its object.                   *)
BecomeFollower(resets) ==
  /\ role' = "follower"
  /\ interval' = FALSE
  /\ IF role = "follower" THEN UNCHANGED listeners ELSE On("follower")
  /\ IF resets \/ role # "follower" THEN StartTimer ELSE UNCHANGED running

Received(t) ==
  /\ Idle /\ receiving
  /\ AdoptTerm(t)
  /\ UNCHANGED <<termFile, visiting, phase, receiving, boot>>

AppendToFollower(t) ==
  /\ Received(t)
  /\ RoleFor(t) = "follower"
  /\ BecomeFollower(TRUE)
  /\ Respond(FALSE)

AppendToCandidate(t) ==
  /\ Received(t)
  /\ RoleFor(t) = "candidate" /\ IsCurrent(t)
  /\ BecomeFollower(TRUE)
  /\ UNCHANGED <<termOps, responses>>

VoteRequest(t) ==
  /\ Received(t)
  /\ RoleFor(t) = "follower"
  /\ BecomeFollower(FALSE)
  /\ Respond(IsCurrent(t) /\ votedFor' = Null)

(* A response, which the follower that the server becomes ignores.          *)
NewerResponse(t) ==
  /\ Received(t)
  /\ IsNewer(t)
  /\ BecomeFollower(FALSE)
  /\ UNCHANGED <<termOps, responses>>

Win ==
  /\ Idle /\ receiving /\ role = "candidate"
  /\ role' = "leader"
  /\ StopTimer
  /\ interval' = TRUE
  /\ UNCHANGED <<termVars, voteVars, listeners, visiting, phase, receiving, responses, boot>>

Receive ==
  \/ Win
  \/ \E t \in 0..MaxTerm :
       AppendToFollower(t) \/ AppendToCandidate(t) \/ VoteRequest(t) \/ NewerResponse(t)

-----------------------------------------------------------------------------
(* The election timeout.                                                    *)

(* How many elections Raft.tla counts for one timeout.                      *)
CandidateListeners == Cardinality({i \in DOMAIN listeners : listeners[i] = "candidate"})

ElectionsDue ==
  IF role = "candidate" THEN CandidateListeners ELSE CandidateListeners + 2

TermAfter(elections) == IF currentTerm = NaN THEN NaN ELSE currentTerm + elections

Timeout ==
  /\ Idle
  /\ Elapse
  /\ currentTerm # NaN => currentTerm + ElectionsDue <= MaxTerm
  /\ role # "candidate" => Len(listeners) < MaxListeners
  /\ UNCHANGED <<termVars, voteVars, serverVars>>

(* Mutant: a new term forgets the vote that was just given to it.           *)
StartElectionVotingFirst ==
  /\ SetTermAndVote(TermAfter(1), Null)
  /\ ResetTimer
  /\ UNCHANGED <<termFile, termOps>>

StartElection ==
  /\ SetTermAndVote(TermAfter(1), Self)
  /\ ResetTimer
  /\ UNCHANGED <<termFile, termOps>>

(* A follower's listener makes whoever is not a candidate one, and its new  *)
(* listener is the last to be called.                                       *)
VisitFollower ==
  /\ listeners[visiting] = "follower"
  /\ IF role = "candidate"
     THEN UNCHANGED <<termVars, voteVars, running, listeners, role, interval>>
     ELSE /\ role' = "candidate"
          /\ interval' = FALSE
          /\ On("candidate")
          /\ StartElection

VisitCandidate ==
  /\ listeners[visiting] = "candidate"
  /\ StartElection
  /\ UNCHANGED <<listeners, role, interval>>

Visit ==
  /\ ~ Idle
  /\ VisitFollower \/ VisitCandidate
  /\ Visited
  /\ UNCHANGED <<phase, receiving, responses, boot>>

-----------------------------------------------------------------------------
(* What the properties compare with: the highest term ever set; is at   *)
(* most one write, of the current term, under way at a time in this process;*)
(* did writes of different widths overlap or a write fail; did stop() find  *)
(* or leave no timer; and the term that a timeout is to end with.           *)
Fails == \E op \in termOps' : op.step = "failed"

Recorded ==
  history' = [
    highest |-> IF currentTerm' \in {Null, NaN} \/ currentTerm' <= history.highest
                THEN history.highest ELSE currentTerm',
    quiet |-> \/ boot' # boot
              \/ /\ history.quiet /\ ~ Fails
                 /\ Cardinality(termOps') <= 1
                 /\ termOps # {} => currentTerm' \in {Null, currentTerm},
    mixed |-> \/ history.mixed \/ Fails
              \/ \E op, other \in termOps' : Len(op.text) # Len(other.text),
    silent |-> /\ phase' = "started"
               /\ history.silent \/ (receiving /\ ~ receiving' /\ ~ running'),
    target |-> IF visiting' = 0 THEN Null
               ELSE IF Idle THEN TermAfter(ElectionsDue) ELSE history.target]

Callbacks ==
  \/ AccessDone \/ ReadDone \/ ReadFails
  \/ \E op \in termOps : TermCallback(op)
  \/ \E slot \in Slots : VoteCallback(slot) \/ SendEnds(slot)

FileSteps == \E op \in termOps : TermFileStep(op)

Next ==
  /\ Boot \/ Crash \/ Stop \/ Callbacks \/ FileSteps \/ Receive \/ Timeout \/ Visit
  /\ Recorded

Spec == Init /\ [][Next]_vars
=============================================================================
