--------------------------- MODULE ProcessProofs ---------------------------
(***************************************************************************)
(* Proofs about ServerProcess, for every number of responses and listeners, *)
(* every term and every radix: the timers follow the role, a stopped server *)
(* stays silent, a timeout runs the elections it is due, the term's file    *)
(* stays behind the terms, what counts as in sync is in it, a poisoned file *)
(* stays poisoned, and the server keeps what ServerLifecycle promises.      *)
(***************************************************************************)
EXTENDS ProcessProperties, FiniteSetTheorems, NaturalsInduction,
        WellFoundedInduction, TLAPS

(* The callers of the writes: start(), or a response that waits for its     *)
(* term, each with one write.                                               *)
CallersInv ==
  /\ \A op \in termOps :
       op = [caller |-> op.caller, text |-> op.text, step |-> op.step]
  /\ \A op \in termOps :
       IF op.caller = 0 THEN phase = "write"
       ELSE op.caller \in Slots /\ responses[op.caller].awaits = "term"
  /\ \A op, other \in termOps : op.caller = other.caller => op = other
  /\ \A slot \in Slots : responses[slot].awaits # "nothing" => phase = "started"

PhaseInv ==
  /\ role = "noop" <=> phase # "started"
  /\ role = "noop" => listeners = <<>> /\ ~ running /\ ~ receiving /\ Idle /\ ~ interval
  /\ role # "noop" => listeners # <<>> /\ listeners[1] = "follower"

(* A candidate has a listener that starts elections.                        *)
CandidateFrom(first) == \E i \in first..Len(listeners) : listeners[i] = "candidate"

(* During a visit the timer of a candidate runs or will run before the end. *)
VisitInv ==
  /\ role = "candidate" => CandidateFrom(1)
  /\ ~ Idle =>
       /\ visiting \in 1..Len(listeners)
       /\ role # "candidate" => visiting = 1
       /\ role = "candidate" => running \/ CandidateFrom(visiting)

TimerInv ==
  /\ interval => role = "leader"
  /\ receiving /\ role = "leader" => interval
  /\ receiving /\ Idle /\ role # "leader" => running

(* After stop() no response can be sent any more.                           *)
SilentInv ==
  history.silent =>
    /\ ~ running /\ ~ interval /\ ~ receiving /\ Idle
    /\ phase = "started"
    /\ \A slot \in Slots : responses[slot].awaits # "nothing" => responses[slot].lost

Response == [grants : BOOLEAN, awaits : {"nothing", "term", "vote", "socket"}, lost : BOOLEAN]

Types ==
  /\ listeners \in Seq({"follower", "candidate"})
  /\ visiting \in Nat
  /\ role \in {"noop", "follower", "candidate", "leader"}
  /\ phase \in {"off", "access", "read", "write", "started"}
  /\ running \in BOOLEAN /\ interval \in BOOLEAN /\ receiving \in BOOLEAN
  /\ responses \in [Slots -> Response]

(* Inductive.                                                               *)
IInv == Types /\ CallersInv /\ PhaseInv /\ VisitInv /\ TimerInv /\ SilentInv

LEMMA InitInv == Init => IInv
<1> SUFFICES ASSUME Init PROVE IInv
  OBVIOUS
<1>1. /\ termOps = {} /\ running = FALSE /\ listeners = <<>> /\ visiting = 0
      /\ phase = "off" /\ receiving = FALSE /\ role = "noop" /\ interval = FALSE
      /\ responses = [slot \in Slots |-> [grants |-> FALSE, awaits |-> "nothing", lost |-> FALSE]]
      /\ history.silent = FALSE
  BY DEF Init, NoResponse
<1>2. Types
  <2>1. listeners \in Seq({"follower", "candidate"}) /\ visiting \in Nat
    BY <1>1
  <2>2. responses \in [Slots -> Response]
    BY <1>1 DEF Response
  <2> QED BY <1>1, <2>1, <2>2 DEF Types
<1>3. CallersInv
  BY <1>1 DEF CallersInv
<1>4. PhaseInv /\ VisitInv /\ TimerInv /\ SilentInv
  BY <1>1 DEF PhaseInv, VisitInv, TimerInv, SilentInv, Idle
<1> QED BY <1>2, <1>3, <1>4 DEF IInv

(* What Recorded says of a stop.                                            *)
LEMMA SilentAfter ==
  ASSUME Recorded
  PROVE  history'.silent =>
           /\ phase' = "started"
           /\ history.silent \/ (receiving /\ ~ receiving' /\ ~ running')
  BY DEF Recorded

(* A process that is gone.                                                  *)
LEMMA ForgottenStep ==
  ASSUME IInv, Forgotten, Recorded
  PROVE  IInv'
<1>1. /\ termOps' = {} /\ running' = FALSE /\ listeners' = <<>> /\ visiting' = 0
      /\ phase' = "off" /\ receiving' = FALSE /\ role' = "noop" /\ interval' = FALSE
      /\ responses' = [slot \in Slots |-> [grants |-> FALSE, awaits |-> "nothing", lost |-> FALSE]]
  BY DEF Forgotten, NoResponse, Term!Forget
<1>2. Types'
  <2>1. (listeners \in Seq({"follower", "candidate"}) /\ visiting \in Nat)'
    BY <1>1
  <2>2. responses' \in [Slots -> Response]
    BY <1>1 DEF Response
  <2> QED BY <1>1, <2>1, <2>2 DEF Types
<1>3. CallersInv'
  BY <1>1 DEF CallersInv
<1>4. PhaseInv' /\ VisitInv' /\ TimerInv'
  BY <1>1 DEF PhaseInv, VisitInv, TimerInv, Idle
<1>5. SilentInv'
  BY <1>1, SilentAfter DEF SilentInv
<1> QED BY <1>2, <1>3, <1>4, <1>5 DEF IInv

(* An event that leaves the timers and the role alone.                      *)
LEMMA TimersUntouched ==
  ASSUME IInv, Recorded, UNCHANGED <<timerVars, role, interval, receiving>>,
         phase' = phase \/ (phase # "started" /\ phase' # "started")
  PROVE  /\ PhaseInv' /\ VisitInv' /\ TimerInv'
         /\ history'.silent => history.silent
<1>1. PhaseInv' /\ VisitInv' /\ TimerInv'
  BY DEF IInv, PhaseInv, VisitInv, TimerInv, CandidateFrom, timerVars, Idle
<1>2. history'.silent => history.silent
  BY SilentAfter
<1> QED BY <1>1, <1>2

LEMMA BootStep ==
  ASSUME IInv, Recorded, Boot
  PROVE  IInv'
<1>1. UNCHANGED <<termOps, responses, timerVars, receiving, role, interval>> /\ phase' = "access" /\ phase = "off"
  BY DEF Boot, termVars
<1>2. Types'
  BY <1>1 DEF IInv, Types, timerVars
<1>3. CallersInv'
  BY <1>1 DEF IInv, CallersInv
<1>4. PhaseInv' /\ VisitInv' /\ TimerInv'
  BY <1>1, TimersUntouched
<1>5. SilentInv'
  BY <1>1, SilentAfter DEF SilentInv
<1> QED BY <1>2, <1>3, <1>4, <1>5 DEF IInv

LEMMA AccessStep ==
  ASSUME IInv, Recorded, AccessDone
  PROVE  IInv'
<1>1. /\ UNCHANGED <<responses, timerVars, receiving, role, interval>>
      /\ phase' \in {"read", "write"} /\ phase = "access"
  BY DEF AccessDone, termVars
<1>2. Types'
  BY <1>1 DEF IInv, Types, timerVars
<1>3. CallersInv'
  <2>1. CASE phase' = "read" /\ UNCHANGED termVars
    BY <1>1, <2>1 DEF IInv, CallersInv, termVars
  <2>2. CASE phase' = "write" /\ Term!BeginWrite(0)
    <3> DEFINE new == [caller |-> 0, text |-> SerializeInteger(currentTerm'), step |-> "open"]
    <3>1. termOps' = termOps \cup {new}
      BY <2>2 DEF Term!BeginWrite
    <3>2. new.caller = 0 /\ \A op \in termOps : op.caller \in Slots /\ op.caller # 0
      BY <1>1 DEF IInv, CallersInv
    <3> HIDE DEF new
    <3>3. new = [caller |-> new.caller, text |-> new.text, step |-> new.step]
      BY DEF new
    <3> QED BY <1>1, <2>2, <3>1, <3>2, <3>3, SlotsAssumption DEF IInv, CallersInv
  <2> QED BY <2>1, <2>2 DEF AccessDone
<1>4. PhaseInv' /\ VisitInv' /\ TimerInv'
  BY <1>1, TimersUntouched
<1>5. SilentInv'
  BY <1>1, SilentAfter DEF SilentInv
<1> QED BY <1>2, <1>3, <1>4, <1>5 DEF IInv

(* start() ends: from no state at all to a follower's.                      *)
LEMMA EnterStep ==
  ASSUME IInv, Recorded, EnterCluster, phase # "started"
  PROVE  Types' /\ PhaseInv' /\ VisitInv' /\ TimerInv' /\ SilentInv'
<1>1. /\ phase' = "started" /\ receiving' = TRUE /\ role' = "follower"
      /\ listeners' = Append(listeners, "follower") /\ running' = TRUE
      /\ UNCHANGED <<visiting, interval, responses>>
  BY DEF EnterCluster, On, StartTimer
<1>2. listeners = <<>> /\ visiting = 0 /\ ~ interval /\ ~ receiving /\ role = "noop"
  BY DEF IInv, PhaseInv, Idle
<1>3. listeners' = <<"follower">>
  BY <1>1, <1>2
<1>4. listeners' \in Seq({"follower", "candidate"}) /\ listeners' # <<>> /\ listeners'[1] = "follower"
  BY <1>3
<1>5. Types'
  BY <1>1, <1>4 DEF IInv, Types
<1>6. PhaseInv' /\ VisitInv' /\ TimerInv'
  BY <1>1, <1>2, <1>4 DEF PhaseInv, VisitInv, TimerInv, Idle
<1>7. SilentInv'
  BY <1>1, <1>2, SilentAfter DEF IInv, SilentInv
<1> QED BY <1>5, <1>6, <1>7

LEMMA ReadStep ==
  ASSUME IInv, Recorded, ReadDone
  PROVE  IInv'
<1>1. phase = "read" /\ EnterCluster /\ UNCHANGED <<termOps, responses>> /\ phase' = "started"
  BY DEF ReadDone, EnterCluster
<1>2. Types' /\ PhaseInv' /\ VisitInv' /\ TimerInv' /\ SilentInv'
  BY <1>1, EnterStep
<1>3. CallersInv'
  BY <1>1 DEF IInv, CallersInv
<1> QED BY <1>2, <1>3 DEF IInv

LEMMA StopStep ==
  ASSUME IInv, Recorded, Stop
  PROVE  IInv'
<1>1. /\ Idle /\ UNCHANGED <<termOps, listeners, visiting, phase, role>>
      /\ interval' = FALSE /\ receiving' = FALSE
      /\ running' = IF role \in {"follower", "candidate"} THEN FALSE ELSE running
      /\ responses' = [slot \in Slots |->
           [responses[slot] EXCEPT !.lost = responses[slot].awaits # "nothing"]]
  BY DEF Stop, StopTimer, termVars
<1>2. \A slot \in Slots :
        /\ responses'[slot] \in Response
        /\ responses'[slot].awaits = responses[slot].awaits
        /\ responses'[slot].lost = (responses[slot].awaits # "nothing")
  <2>1. \A slot \in Slots : responses[slot] \in Response
    BY DEF IInv, Types
  <2> QED BY <1>1, <2>1 DEF Response
<1>3. Types'
  BY <1>1, <1>2 DEF IInv, Types
<1>4. CallersInv'
  BY <1>1, <1>2 DEF IInv, CallersInv
<1>5. PhaseInv' /\ VisitInv' /\ TimerInv'
  BY <1>1 DEF IInv, PhaseInv, VisitInv, TimerInv, CandidateFrom, Idle
<1>6. SilentInv'
  BY <1>1, <1>2, SilentAfter DEF IInv, SilentInv, Idle
<1> QED BY <1>3, <1>4, <1>5, <1>6 DEF IInv

(* A response goes on or is given up: it is not called back any more.       *)
LEMMA ResponseMoves ==
  ASSUME IInv, NEW slot \in Slots, NEW failed, NEW next \in {"vote", "socket"},
         WriteEnds(slot, failed, next)
  PROVE  /\ responses' \in [Slots -> Response]
         /\ \A other \in Slots \ {slot} : responses'[other] = responses[other]
         /\ responses'[slot].awaits # "nothing" => responses'[slot].lost = responses[slot].lost
<1>1. responses \in [Slots -> Response]
  BY DEF IInv, Types
<1>2. CASE responses' = [responses EXCEPT ![slot] = NoResponse]
  BY <1>1, <1>2 DEF NoResponse, Response
<1>3. CASE responses' = [responses EXCEPT ![slot].awaits = next]
  BY <1>1, <1>3 DEF Response
<1> QED BY <1>2, <1>3 DEF WriteEnds, Drop, Advance

LEMMA TermCallbackStep ==
  ASSUME IInv, Recorded, NEW op \in termOps, TermCallback(op)
  PROVE  IInv'
<1>1. CASE Forgotten
  BY <1>1, ForgottenStep
<1>2. CASE op.caller = 0 /\ Term!Callback(op) /\ EnterCluster
  <2>1. phase = "write" /\ phase' = "started" /\ UNCHANGED responses /\ termOps' = termOps \ {op}
    BY <1>2 DEF Term!Callback, EnterCluster, IInv, CallersInv
  <2>2. Types' /\ PhaseInv' /\ VisitInv' /\ TimerInv' /\ SilentInv'
    BY <1>2, <2>1, EnterStep
  <2>3. CallersInv'
    BY <1>2, <2>1 DEF IInv, CallersInv
  <2> QED BY <2>2, <2>3 DEF IInv
<1>3. CASE /\ op.caller # 0 /\ Term!Callback(op)
           /\ WriteEnds(op.caller, op.step = "failed", IF voteInSync THEN "socket" ELSE "vote")
           /\ UNCHANGED <<timerVars, phase, receiving, role, interval, boot>>
  <2> DEFINE next == IF voteInSync THEN "socket" ELSE "vote"
  <2>1. op.caller \in Slots /\ responses[op.caller].awaits = "term" /\ termOps' = termOps \ {op}
    BY <1>3 DEF Term!Callback, IInv, CallersInv
  <2>2. next \in {"vote", "socket"} /\ WriteEnds(op.caller, op.step = "failed", next)
    BY <1>3
  <2> HIDE DEF next
  <2>3. /\ responses' \in [Slots -> Response]
        /\ \A other \in Slots \ {op.caller} : responses'[other] = responses[other]
        /\ responses'[op.caller].awaits # "nothing" => responses'[op.caller].lost = responses[op.caller].lost
    BY <2>1, <2>2, ResponseMoves
  <2>4. Types'
    BY <1>3, <2>3 DEF IInv, Types, timerVars
  <2>5. CallersInv'
    BY <1>3, <2>1, <2>3 DEF IInv, CallersInv
  <2>6. PhaseInv' /\ VisitInv' /\ TimerInv' /\ (history'.silent => history.silent)
    BY <1>3, TimersUntouched
  <2>7. SilentInv'
    BY <1>3, <2>1, <2>3, <2>6 DEF IInv, SilentInv, timerVars, Idle
  <2> QED BY <2>4, <2>5, <2>6, <2>7 DEF IInv
<1> QED BY <1>1, <1>2, <1>3 DEF TermCallback

LEMMA VoteCallbackStep ==
  ASSUME IInv, Recorded, NEW slot \in Slots, VoteCallback(slot)
  PROVE  IInv'
<1>1. PICK failed \in BOOLEAN : WriteEnds(slot, failed, "socket")
  BY DEF VoteCallback
<1>2. /\ responses[slot].awaits = "vote"
      /\ UNCHANGED <<termOps, timerVars, phase, receiving, role, interval, boot>>
  BY DEF VoteCallback, termVars
<1>3. /\ responses' \in [Slots -> Response]
      /\ \A other \in Slots \ {slot} : responses'[other] = responses[other]
      /\ responses'[slot].awaits # "nothing" => responses'[slot].lost = responses[slot].lost
  BY <1>1, ResponseMoves
<1>4. Types'
  BY <1>2, <1>3 DEF IInv, Types, timerVars
<1>5. CallersInv'
  BY <1>2, <1>3 DEF IInv, CallersInv
<1>6. PhaseInv' /\ VisitInv' /\ TimerInv' /\ (history'.silent => history.silent)
  BY <1>2, TimersUntouched
<1>7. SilentInv'
  BY <1>2, <1>3, <1>6 DEF IInv, SilentInv, timerVars, Idle
<1> QED BY <1>4, <1>5, <1>6, <1>7 DEF IInv

LEMMA TermFileStepKeeps ==
  ASSUME IInv, Recorded, NEW op \in termOps, TermFileStep(op)
  PROVE  IInv'
<1>1. UNCHANGED <<timerVars, phase, receiving, role, interval, responses>>
  BY DEF TermFileStep, serverVars
<1>2. PICK step : termOps' = (termOps \ {op}) \cup {[op EXCEPT !.step = step]}
  BY DEF TermFileStep, Term!Truncate, Term!Put, Term!Fail, Term!At
<1>3. [op EXCEPT !.step = step] = [caller |-> op.caller, text |-> op.text, step |-> step]
  <2>1. op = [caller |-> op.caller, text |-> op.text, step |-> op.step]
    BY DEF IInv, CallersInv
  <2> QED BY <2>1
<1>4. CallersInv'
  BY <1>1, <1>2, <1>3 DEF IInv, CallersInv
<1>5. PhaseInv' /\ VisitInv' /\ TimerInv' /\ (history'.silent => history.silent)
  BY <1>1, TimersUntouched
<1>6. SilentInv'
  BY <1>1, <1>5 DEF IInv, SilentInv, timerVars, Idle
<1>7. Types'
  BY <1>1 DEF IInv, Types, timerVars
<1> QED BY <1>4, <1>5, <1>6, <1>7 DEF IInv

(* A grant that is late arms the timer of whoever is there by then, but not *)
(* after a stop.                                                            *)
LEMMA SendStep ==
  ASSUME IInv, Recorded, NEW slot \in Slots, SendEnds(slot)
  PROVE  IInv'
<1>1. /\ Idle /\ responses[slot].awaits = "socket"
      /\ running' = running \/ (running' = TRUE /\ ~ responses[slot].lost)
      /\ responses' = [responses EXCEPT ![slot] = NoResponse]
      /\ UNCHANGED <<termOps, listeners, visiting, phase, receiving, role, interval>>
  BY DEF SendEnds, Drop, ResetTimer, termVars
<1>2. responses' \in [Slots -> Response]
  BY <1>1 DEF IInv, Types, Response, NoResponse
<1>3. /\ \A other \in Slots \ {slot} : responses'[other] = responses[other]
      /\ responses'[slot].awaits = "nothing"
  BY <1>1 DEF IInv, Types, NoResponse
<1>4. Types'
  BY <1>1, <1>2 DEF IInv, Types
<1>5. CallersInv'
  BY <1>1, <1>3 DEF IInv, CallersInv
<1>6. phase = "started"
  BY <1>1 DEF IInv, CallersInv
<1>7. PhaseInv' /\ VisitInv' /\ TimerInv'
  BY <1>1, <1>6 DEF IInv, PhaseInv, VisitInv, TimerInv, CandidateFrom, Idle
<1>8. SilentInv'
  BY <1>1, <1>3, SilentAfter DEF IInv, SilentInv, Idle
<1> QED BY <1>4, <1>5, <1>7, <1>8 DEF IInv

LEMMA RespondKeeps ==
  ASSUME IInv, phase = "started", phase' = phase, NEW grants \in BOOLEAN, Respond(grants)
  PROVE  responses' \in [Slots -> Response] /\ CallersInv'
<1> DEFINE slot == CHOOSE slot \in Free : TRUE
           awaits == IF ~ termInSync' THEN "term" ELSE IF ~ voteInSync' THEN "vote" ELSE "socket"
           new == [caller |-> slot, text |-> SerializeInteger(currentTerm'), step |-> "open"]
<1>1. slot \in Slots /\ responses[slot].awaits = "nothing"
  BY DEF Respond, Free
<1>2. /\ responses' = [responses EXCEPT ![slot] =
                         [grants |-> grants, awaits |-> awaits, lost |-> FALSE]]
      /\ IF termInSync' THEN UNCHANGED termOps ELSE termOps' = termOps \cup {new}
  BY DEF Respond, Hold, Term!BeginWrite
<1>3. awaits \in {"term", "vote", "socket"} /\ (~ termInSync' => awaits = "term")
  OBVIOUS
<1>4. new.caller = slot /\ new = [caller |-> new.caller, text |-> new.text, step |-> new.step]
  OBVIOUS
<1> HIDE DEF slot, awaits, new
<1>5. responses \in [Slots -> Response]
  BY DEF IInv, Types
<1>6. responses' \in [Slots -> Response]
  BY <1>1, <1>2, <1>3, <1>5 DEF Response
<1>7. /\ \A other \in Slots \ {slot} : responses'[other] = responses[other]
      /\ responses'[slot].awaits = awaits
  BY <1>1, <1>2, <1>5
<1>8. \A op \in termOps : op.caller # slot
  BY <1>1 DEF IInv, CallersInv
<1>9. CASE termInSync'
  BY <1>2, <1>6, <1>7, <1>8, <1>9 DEF IInv, CallersInv
<1>10. CASE ~ termInSync'
  <2>1. termOps' = termOps \cup {new} /\ awaits = "term" /\ slot # 0
    BY <1>1, <1>2, <1>3, <1>10, SlotsAssumption
  <2> QED BY <1>1, <1>4, <1>6, <1>7, <1>8, <2>1 DEF IInv, CallersInv
<1> QED BY <1>9, <1>10

LEMMA FollowerKeeps ==
  ASSUME IInv, NEW t, Received(t), NEW resets \in BOOLEAN, BecomeFollower(resets), Recorded
  PROVE  /\ PhaseInv' /\ VisitInv' /\ TimerInv' /\ SilentInv'
         /\ phase = "started" /\ phase' = phase
         /\ (responses' \in [Slots -> Response] => Types')
<1>1. /\ Idle /\ receiving /\ UNCHANGED <<visiting, phase, receiving>>
      /\ role' = "follower" /\ interval' = FALSE
      /\ listeners' = IF role = "follower" THEN listeners ELSE Append(listeners, "follower")
      /\ running' = IF resets \/ role # "follower" THEN TRUE ELSE running
  BY DEF Received, BecomeFollower, On, StartTimer
<1>2. role # "noop" /\ phase = "started" /\ (role = "follower" => running)
  BY <1>1 DEF IInv, PhaseInv, TimerInv
<1>3. /\ listeners' \in Seq({"follower", "candidate"})
      /\ listeners' # <<>> /\ listeners'[1] = "follower"
  BY <1>1, <1>2 DEF IInv, Types, PhaseInv
<1>4. responses' \in [Slots -> Response] => Types'
  BY <1>1, <1>3 DEF IInv, Types
<1>5. PhaseInv' /\ VisitInv' /\ TimerInv'
  BY <1>1, <1>2, <1>3 DEF IInv, Types, PhaseInv, VisitInv, TimerInv, Idle
<1>6. SilentInv'
  BY <1>1, SilentAfter DEF IInv, SilentInv
<1> QED BY <1>1, <1>2, <1>4, <1>5, <1>6

LEMMA WinStep ==
  ASSUME IInv, Recorded, Win
  PROVE  IInv'
<1>1. /\ Idle /\ receiving /\ role = "candidate" /\ role' = "leader"
      /\ running' = FALSE /\ interval' = TRUE
      /\ UNCHANGED <<termOps, listeners, visiting, phase, receiving, responses>>
  BY DEF Win, StopTimer, termVars
<1>2. Types' /\ CallersInv'
  BY <1>1 DEF IInv, Types, CallersInv
<1>3. PhaseInv' /\ VisitInv' /\ TimerInv'
  BY <1>1 DEF IInv, PhaseInv, VisitInv, TimerInv, Idle
<1>4. SilentInv'
  BY <1>1, SilentAfter DEF IInv, SilentInv
<1> QED BY <1>2, <1>3, <1>4 DEF IInv

LEMMA ReceiveStep ==
  ASSUME IInv, Recorded, Receive
  PROVE  IInv'
<1>1. CASE Win
  BY <1>1, WinStep
<1>2. ASSUME NEW t \in 0..MaxTerm, AppendToFollower(t) PROVE IInv'
  BY <1>2, FollowerKeeps, RespondKeeps DEF AppendToFollower, IInv
<1>3. ASSUME NEW t \in 0..MaxTerm, VoteRequest(t) PROVE IInv'
  <2>1. (IsCurrent(t) /\ votedFor' = Null) \in BOOLEAN
    OBVIOUS
  <2>2. Received(t) /\ BecomeFollower(FALSE) /\ Respond(IsCurrent(t) /\ votedFor' = Null)
    BY <1>3 DEF VoteRequest
  <2>3. /\ PhaseInv' /\ VisitInv' /\ TimerInv' /\ SilentInv'
        /\ phase = "started" /\ phase' = phase
        /\ (responses' \in [Slots -> Response] => Types')
    BY <2>2, FollowerKeeps
  <2>4. responses' \in [Slots -> Response] /\ CallersInv'
    BY <2>1, <2>2, <2>3, RespondKeeps
  <2> QED BY <2>3, <2>4 DEF IInv
<1>4. ASSUME NEW t \in 0..MaxTerm, AppendToCandidate(t) \/ NewerResponse(t) PROVE IInv'
  <2>1. Received(t) /\ (BecomeFollower(TRUE) \/ BecomeFollower(FALSE)) /\ UNCHANGED <<termOps, responses>>
    BY <1>4 DEF AppendToCandidate, NewerResponse
  <2>2. /\ PhaseInv' /\ VisitInv' /\ TimerInv' /\ SilentInv'
        /\ phase = "started" /\ phase' = phase
        /\ (responses' \in [Slots -> Response] => Types')
    BY <2>1, FollowerKeeps
  <2>3. responses' \in [Slots -> Response] /\ CallersInv'
    BY <2>1, <2>2 DEF IInv, Types, CallersInv
  <2> QED BY <2>2, <2>3 DEF IInv
<1> QED BY <1>1, <1>2, <1>3, <1>4 DEF Receive

LEMMA TimeoutStep ==
  ASSUME IInv, Recorded, Timeout
  PROVE  IInv'
<1>1. /\ Idle /\ running /\ running' = FALSE /\ visiting' = 1
      /\ UNCHANGED <<termOps, listeners, phase, receiving, role, interval, responses>>
  BY DEF Timeout, Elapse, termVars, serverVars
<1>2. role # "noop" /\ 1 \in 1..Len(listeners)
  BY <1>1 DEF IInv, Types, PhaseInv
<1>3. Types' /\ CallersInv'
  BY <1>1 DEF IInv, Types, CallersInv
<1>4. PhaseInv' /\ VisitInv' /\ TimerInv'
  BY <1>1, <1>2 DEF IInv, PhaseInv, VisitInv, TimerInv, CandidateFrom, Idle
<1>5. SilentInv'
  BY <1>1, SilentAfter DEF IInv, SilentInv
<1> QED BY <1>3, <1>4, <1>5 DEF IInv

(* A listener has returned: in every case the server is a candidate, and one*)
(* that ran an election has a timer.                                        *)
LEMMA VisitStep ==
  ASSUME IInv, Recorded, Visit
  PROVE  IInv'
<1>1. /\ ~ Idle /\ UNCHANGED <<phase, receiving, responses>>
      /\ visiting' = IF visiting < Len(listeners') THEN visiting + 1 ELSE 0
  BY DEF Visit, Visited
<1>2. /\ visiting \in 1..Len(listeners) /\ visiting \in Nat
      /\ listeners \in Seq({"follower", "candidate"})
      /\ role # "noop" /\ listeners # <<>> /\ listeners[1] = "follower"
  BY <1>1 DEF IInv, Types, PhaseInv, VisitInv
<1>3. /\ role' = "candidate" /\ interval' = FALSE
      /\ UNCHANGED termOps /\ running' \in BOOLEAN
      /\ listeners' \in Seq({"follower", "candidate"})
      /\ listeners' # <<>> /\ listeners'[1] = "follower"
      /\ CandidateFrom(1)'
      /\ running' \/ \E i \in (visiting + 1)..Len(listeners') : listeners'[i] = "candidate"
  <2>1. CASE VisitFollower /\ role = "candidate"
    <3>1. /\ listeners[visiting] = "follower"
          /\ UNCHANGED <<termOps, running, listeners, role, interval>>
      BY <2>1 DEF VisitFollower, termVars
    <3>2. interval = FALSE /\ CandidateFrom(1) /\ (running \/ CandidateFrom(visiting))
      BY <1>1, <2>1 DEF IInv, Types, VisitInv, TimerInv
    <3>3. running \/ \E i \in (visiting + 1)..Len(listeners) : listeners[i] = "candidate"
      BY <1>2, <3>1, <3>2 DEF CandidateFrom
    <3> QED BY <1>2, <2>1, <3>1, <3>2, <3>3 DEF IInv, Types, CandidateFrom
  <2>2. CASE VisitFollower /\ role # "candidate"
    <3>1. /\ role' = "candidate" /\ interval' = FALSE /\ running' = TRUE /\ UNCHANGED termOps
          /\ listeners' = Append(listeners, "candidate")
      BY <2>2 DEF VisitFollower, On, StartElection, ResetTimer
    <3>2. listeners'[Len(listeners) + 1] = "candidate" /\ Len(listeners') = Len(listeners) + 1
      BY <1>2, <3>1
    <3>3. CandidateFrom(1)'
      BY <1>2, <3>2 DEF CandidateFrom
    <3> QED BY <1>2, <3>1, <3>3
  <2>3. CASE VisitCandidate
    <3>1. /\ listeners[visiting] = "candidate" /\ running' = TRUE
          /\ UNCHANGED <<termOps, listeners, role, interval>>
      BY <2>3 DEF VisitCandidate, StartElection, ResetTimer
    <3>2. role = "candidate"
      BY <1>1, <1>2, <3>1 DEF IInv, VisitInv
    <3>3. interval = FALSE /\ CandidateFrom(1)
      BY <3>2 DEF IInv, Types, VisitInv, TimerInv
    <3> QED BY <1>2, <3>1, <3>2, <3>3 DEF CandidateFrom
  <2> QED BY <2>1, <2>2, <2>3 DEF Visit
<1>4. Types'
  <2>1. visiting' \in Nat
    BY <1>1, <1>2
  <2> QED BY <1>1, <1>3, <2>1 DEF IInv, Types
<1>5. CallersInv'
  BY <1>1, <1>3 DEF IInv, CallersInv
<1>6. phase = "started"
  BY <1>2 DEF IInv, PhaseInv
<1>7. PhaseInv'
  BY <1>1, <1>3, <1>6 DEF PhaseInv
<1>8. VisitInv'
  <2>1. CASE visiting < Len(listeners')
    BY <1>1, <1>2, <1>3, <2>1 DEF VisitInv, CandidateFrom, Idle
  <2>2. CASE ~ (visiting < Len(listeners'))
    BY <1>1, <1>2, <1>3, <2>2 DEF VisitInv, Idle
  <2> QED BY <2>1, <2>2
<1>9. TimerInv'
  <2>1. Len(listeners') \in Nat
    BY <1>3
  <2>2. Idle' => running'
    BY <1>1, <1>2, <1>3, <2>1 DEF Idle
  <2> QED BY <1>3, <2>2 DEF TimerInv
<1>10. SilentInv'
  BY <1>1, SilentAfter DEF IInv, SilentInv
<1> QED BY <1>4, <1>5, <1>7, <1>8, <1>9, <1>10 DEF IInv

LEMMA NextKeepsInv ==
  ASSUME IInv, [Next]_vars
  PROVE  IInv'
<1>1. CASE Next
  <2> USE <1>1 DEF Next
  <2>1. CASE Boot
    BY <2>1, BootStep
  <2>2. CASE Crash
    BY <2>2, ForgottenStep DEF Crash
  <2>3. CASE Stop
    BY <2>3, StopStep
  <2>4. CASE Callbacks
    BY <2>4, AccessStep, ReadStep, ForgottenStep, TermCallbackStep, VoteCallbackStep, SendStep
       DEF Callbacks, ReadFails
  <2>5. CASE FileSteps
    BY <2>5, TermFileStepKeeps DEF FileSteps
  <2>6. CASE Receive
    BY <2>6, ReceiveStep
  <2>7. CASE Timeout
    BY <2>7, TimeoutStep
  <2>8. CASE Visit
    BY <2>8, VisitStep
  <2> QED BY <2>1, <2>2, <2>3, <2>4, <2>5, <2>6, <2>7, <2>8
<1>2. CASE UNCHANGED vars
  BY <1>2 DEF vars, termVars, voteVars, timerVars, serverVars, IInv, Types, CallersInv, PhaseInv,
              VisitInv, TimerInv, SilentInv, CandidateFrom, Idle
<1> QED BY <1>1, <1>2

THEOREM ProcessInvariant == Spec => []IInv
<1> QED BY InitInv, NextKeepsInv, PTL DEF Spec

(* However many votes are held up, a stop that leaves no timer running is   *)
(* the last that is heard of the process (server.ts:218).                   *)
THEOREM StoppedForGood == Spec => []StopIsFinal
<1>1. IInv => StopIsFinal
  BY DEF IInv, SilentInv, StopIsFinal
<1> QED BY <1>1, ProcessInvariant, PTL

(* However many listeners have leaked, whoever is in the cluster without    *)
(* leading it has an election timer, and leaders alone send heartbeats.     *)
THEOREM TimersAndRoles == Spec => []TimersFollowRole
<1>1. IInv => TimersFollowRole
  BY DEF IInv, TimerInv, TimersFollowRole
<1> QED BY <1>1, ProcessInvariant, PTL

-----------------------------------------------------------------------------
Digits == 0..(Radix - 1)

(* Induction over the naturals, for a set.                                  *)
LEMMA StrongInduction ==
  ASSUME NEW S, \A n \in Nat : (\A m \in 0..(n - 1) : m \in S) => n \in S
  PROVE  \A n \in Nat : n \in S
<1> DEFINE Less == OpToRel(<, Nat)
           Rest == Nat \ S
<1> SUFFICES ASSUME Rest # {} PROVE FALSE
  OBVIOUS
<1>1. IsWellFoundedOn(Less, Nat)
  BY NatLessThanWellFounded
<1>2. \A i, j \in Nat : i < j => <<i, j>> \in Less
  BY DEF OpToRel
<1>0. Rest \in SUBSET Nat
  OBVIOUS
<1> HIDE DEF Less, Rest
<1>3. PICK k \in Rest : \A j \in Rest : ~ (<<j, k>> \in Less)
  BY <1>0, <1>1, WFMin, Zenon
<1>4. k \in Nat /\ k \notin S
  BY <1>0 DEF Rest
<1>5. \A m \in 0..(k - 1) : m \in Nat /\ m < k
  BY <1>4
<1>6. \A m \in 0..(k - 1) : m \notin Rest
  BY <1>2, <1>3, <1>4, <1>5
<1>7. \A m \in 0..(k - 1) : m \in S
  BY <1>5, <1>6 DEF Rest
<1> QED BY <1>4, <1>7

LEMMA StepInduction ==
  ASSUME NEW S, 0 \in S, \A n \in Nat : n \in S => n + 1 \in S
  PROVE  \A n \in Nat : n \in S
<1>1. ASSUME NEW n \in Nat, \A m \in 0..(n - 1) : m \in S PROVE n \in S
  <2>1. CASE n = 0
    BY <2>1
  <2>2. CASE n # 0
    <3>1. n - 1 \in Nat /\ n - 1 \in 0..(n - 1) /\ n = (n - 1) + 1
      BY <2>2
    <3>2. n - 1 \in S
      BY <1>1, <3>1
    <3>3. PICK k \in Nat : k = n - 1
      BY <3>1
    <3> QED BY <3>1, <3>2, <3>3
  <2> QED BY <2>1, <2>2
<1> QED BY <1>1, StrongInduction

(* A set of numbers has its least element: what Min chooses is there.       *)
LEMMA LeastElement ==
  ASSUME NEW K \in SUBSET Nat, K # {}
  PROVE  Min(K) \in K /\ \A j \in K : Min(K) <= j
<1> DEFINE S == {n \in Nat : \A j \in K : n <= j}
<1>1. SUFFICES ASSUME \A k \in K : \E j \in K : ~ (k <= j)
               PROVE  FALSE
  <2>1. (\E k \in K : \A j \in K : k <= j) => Min(K) \in K /\ \A j \in K : Min(K) <= j
    BY DEF Min
  <2> QED BY <2>1
<1> DEFINE Out == Nat \ K
<1>2. ASSUME NEW n \in Nat, \A m \in 0..(n - 1) : m \in Out PROVE n \in Out
  <2>1. SUFFICES ASSUME n \in K PROVE FALSE
    OBVIOUS
  <2>2. PICK j \in K : ~ (n <= j)
    BY <1>1, <2>1
  <2>3. j \in 0..(n - 1)
    BY <2>2
  <2> QED BY <1>2, <2>2, <2>3
<1> HIDE DEF Out
<1>3. \A n \in Nat : n \in Out
  BY <1>2, StrongInduction
<1> QED BY <1>3 DEF Out

LEMMA Division ==
  ASSUME NEW n \in Nat
  PROVE  /\ n \div Radix \in Nat /\ n % Radix \in Digits
         /\ n = (n \div Radix) * Radix + (n % Radix)
         /\ n >= Radix => n \div Radix < n /\ n \div Radix >= 1
<1>1. n \div Radix \in Nat /\ n % Radix \in Digits
  BY RadixAssumption DEF Digits
<1>2. n = (n \div Radix) * Radix + (n % Radix)
  BY RadixAssumption
<1>3. PICK q \in Nat, r \in Digits : q = n \div Radix /\ r = n % Radix
  BY <1>1
<1>4. r \in Nat /\ r < Radix
  BY RadixAssumption DEF Digits
<1>5. n >= Radix => q >= 1
  BY <1>2, <1>3, <1>4, RadixAssumption
<1>6. q >= 1 => q < q * Radix
  BY RadixAssumption
<1>7. n >= Radix => q < n
  BY <1>2, <1>3, <1>4, <1>5, <1>6, RadixAssumption
<1> QED BY <1>1, <1>2, <1>3, <1>5, <1>7

Tabulates(f, n) ==
  /\ f \in [0..n -> Seq(Digits)]
  /\ \A i \in 0..n :
       f[i] = IF i < Radix THEN <<i>> ELSE Append(f[i \div Radix], i % Radix)

LEMMA Tables == \A n \in Nat : \E f : Tabulates(f, n)
<1> DEFINE S == {n \in Nat : \E f : Tabulates(f, n)}
<1>1. 0 \in S
  <2> DEFINE f == [i \in 0..0 |-> <<i>>]
  <2>1. \A i \in 0..0 : i = 0 /\ <<i>> \in Seq(Digits) /\ i < Radix
    BY RadixAssumption DEF Digits
  <2>2. Tabulates(f, 0)
    BY <2>1 DEF Tabulates
  <2> QED BY <2>2
<1>2. ASSUME NEW n \in Nat, n \in S PROVE n + 1 \in S
  <2>1. PICK f : Tabulates(f, n)
    BY <1>2
  <2> DEFINE v == IF n + 1 < Radix THEN <<n + 1>>
                  ELSE Append(f[(n + 1) \div Radix], (n + 1) % Radix)
             g == [i \in 0..(n + 1) |-> IF i = n + 1 THEN v ELSE f[i]]
  <2>2. f \in [0..n -> Seq(Digits)]
    BY <2>1 DEF Tabulates
  <2>3. v \in Seq(Digits)
    <3>1. CASE n + 1 < Radix
      <4>1. n + 1 \in Digits
        BY <3>1, RadixAssumption DEF Digits
      <4>2. <<n + 1>> \in Seq(Digits)
        BY <4>1
      <4> QED BY <3>1, <4>2
    <3>2. CASE n + 1 >= Radix
      <4>1. n + 1 \in Nat
        OBVIOUS
      <4>2. (n + 1) \div Radix \in 0..n /\ (n + 1) % Radix \in Digits
        BY <3>2, <4>1, Division
      <4>3. f[(n + 1) \div Radix] \in Seq(Digits)
        BY <2>2, <4>2
      <4> HIDE DEF Digits
      <4>4. Append(f[(n + 1) \div Radix], (n + 1) % Radix) \in Seq(Digits)
        BY <4>2, <4>3
      <4>5. ~ (n + 1 < Radix)
        BY <3>2, RadixAssumption
      <4> QED BY <4>4, <4>5
    <3> QED BY <3>1, <3>2, RadixAssumption
  <2>4. \A i \in 0..(n + 1) : i = n + 1 \/ i \in 0..n
    OBVIOUS
  <2>5. \A i \in 0..n : i # n + 1 /\ i \in 0..(n + 1)
    OBVIOUS
  <2>6. \A i \in 0..(n + 1) : i >= Radix => i \div Radix \in 0..n
    <3> SUFFICES ASSUME NEW i \in 0..(n + 1), i >= Radix PROVE i \div Radix \in 0..n
      OBVIOUS
    <3>1. i \in Nat /\ i <= n + 1
      OBVIOUS
    <3> QED BY <3>1, Division
  <2> HIDE DEF v
  <2>7. g \in [0..(n + 1) -> Seq(Digits)]
    BY <2>2, <2>3, <2>4
  <2>8. \A i \in 0..n : g[i] = f[i]
    BY <2>5
  <2>9. g[n + 1] = v /\ n + 1 \in 0..(n + 1)
    OBVIOUS
  <2> HIDE DEF g
  <2>10. \A i \in 0..n :
          g[i] = IF i < Radix THEN <<i>> ELSE Append(g[i \div Radix], i % Radix)
    <3> TAKE i \in 0..n
    <3>1. f[i] = IF i < Radix THEN <<i>> ELSE Append(f[i \div Radix], i % Radix)
      BY <2>1 DEF Tabulates
    <3>2. ~ (i < Radix) => g[i \div Radix] = f[i \div Radix]
      BY <2>5, <2>6, <2>8, RadixAssumption
    <3> QED BY <2>8, <3>1, <3>2
  <2>11. g[n + 1] = IF n + 1 < Radix THEN <<n + 1>>
                    ELSE Append(g[(n + 1) \div Radix], (n + 1) % Radix)
    <3>1. ~ (n + 1 < Radix) => g[(n + 1) \div Radix] = f[(n + 1) \div Radix]
      BY <2>6, <2>8, <2>9, RadixAssumption
    <3> QED BY <2>9, <3>1 DEF v
  <2>12. Tabulates(g, n + 1)
    BY <2>4, <2>7, <2>10, <2>11 DEF Tabulates
  <2> QED BY <2>12
<1> HIDE DEF S
<1>3. \A n \in Nat : n \in S
  BY <1>1, <1>2, StepInduction
<1> QED BY <1>3 DEF S

LEMMA TablesAgree ==
  ASSUME NEW m \in Nat, NEW n \in Nat, NEW f, NEW g, Tabulates(f, m), Tabulates(g, n)
  PROVE  \A i \in Nat : i <= m /\ i <= n => f[i] = g[i]
<1> DEFINE S == {i \in Nat : i <= m /\ i <= n => f[i] = g[i]}
<1>1. ASSUME NEW i \in Nat, \A j \in 0..(i - 1) : j \in S PROVE i \in S
  <2> SUFFICES ASSUME i <= m, i <= n PROVE f[i] = g[i]
    OBVIOUS
  <2>1. i \in 0..m /\ i \in 0..n
    OBVIOUS
  <2>2. /\ f[i] = IF i < Radix THEN <<i>> ELSE Append(f[i \div Radix], i % Radix)
        /\ g[i] = IF i < Radix THEN <<i>> ELSE Append(g[i \div Radix], i % Radix)
    BY <2>1 DEF Tabulates
  <2>3. CASE i < Radix
    BY <2>2, <2>3
  <2>4. CASE ~ (i < Radix)
    <3>1. i \div Radix \in Nat /\ i \div Radix < i
      BY <2>4, Division, RadixAssumption
    <3>2. PICK q \in Nat : q = i \div Radix /\ q < i
      BY <3>1
    <3>3. f[q] = g[q]
      BY <1>1, <3>2
    <3> QED BY <2>2, <2>4, <3>2, <3>3
  <2> QED BY <2>3, <2>4
<1> HIDE DEF S
<1>2. \A i \in Nat : i \in S
  BY <1>1, StrongInduction
<1> QED BY <1>2 DEF S

(* The recursion has a solution, so that DigitsOf is one.                   *)
LEMMA DigitsOfIs ==
  DigitsOf = [n \in Nat |-> IF n < Radix THEN <<n>>
                            ELSE Append(DigitsOf[n \div Radix], n % Radix)]
<1> DEFINE table(n) == CHOOSE f : Tabulates(f, n)
           d == [n \in Nat |-> table(n)[n]]
<1>1. \A n \in Nat : Tabulates(table(n), n)
  BY Tables
<1> HIDE DEF table
<1>2. \A n \in Nat : \A i \in 0..n : d[i] = table(n)[i]
  <2> TAKE n \in Nat
  <2> TAKE i \in 0..n
  <2>1. i \in Nat /\ i <= n /\ i <= i
    OBVIOUS
  <2>2. table(i)[i] = table(n)[i]
    BY <1>1, <2>1, TablesAgree
  <2> QED BY <2>1, <2>2
<1>3. \A n \in Nat : d[n] = IF n < Radix THEN <<n>>
                            ELSE Append(d[n \div Radix], n % Radix)
  <2> TAKE n \in Nat
  <2>1. n \in 0..n
    OBVIOUS
  <2>2. table(n)[n] = IF n < Radix THEN <<n>>
                      ELSE Append(table(n)[n \div Radix], n % Radix)
    BY <1>1, <2>1 DEF Tabulates
  <2>3. ~ (n < Radix) => n \div Radix \in 0..n
    BY Division, RadixAssumption
  <2> HIDE DEF d
  <2> QED BY <1>2, <2>1, <2>2, <2>3
<1>4. d = [n \in Nat |-> IF n < Radix THEN <<n>> ELSE Append(d[n \div Radix], n % Radix)]
  <2>1. d = [n \in Nat |-> d[n]]
    OBVIOUS
  <2> HIDE DEF d
  <2> QED BY <1>3, <2>1
<1> HIDE DEF d
<1> QED BY <1>4 DEF DigitsOf

LEMMA DigitsOfStep ==
  ASSUME NEW n \in Nat
  PROVE  DigitsOf[n] = IF n < Radix THEN <<n>>
                       ELSE Append(DigitsOf[n \div Radix], n % Radix)
<1> DEFINE d == [k \in Nat |-> IF k < Radix THEN <<k>>
                               ELSE Append(DigitsOf[k \div Radix], k % Radix)]
<1>1. d[n] = IF n < Radix THEN <<n>> ELSE Append(DigitsOf[n \div Radix], n % Radix)
  OBVIOUS
<1> HIDE DEF d
<1>2. DigitsOf = d
  BY DigitsOfIs DEF d
<1> QED BY <1>1, <1>2

(* The digits of a term, of which there is one at least.                    *)
LEMMA DigitsOfType ==
  \A n \in Nat : DigitsOf[n] \in Seq(Digits) /\ Len(DigitsOf[n]) >= 1
<1> DEFINE S == {n \in Nat : DigitsOf[n] \in Seq(Digits) /\ Len(DigitsOf[n]) >= 1}
<1>1. ASSUME NEW n \in Nat, \A m \in 0..(n - 1) : m \in S PROVE n \in S
  <2> SUFFICES DigitsOf[n] \in Seq(Digits) /\ Len(DigitsOf[n]) >= 1
    OBVIOUS
  <2>1. CASE n < Radix
    <3>1. n \in Digits
      BY <2>1, RadixAssumption DEF Digits
    <3>2. <<n>> \in Seq(Digits) /\ Len(<<n>>) >= 1
      BY <3>1
    <3>3. DigitsOf[n] = <<n>>
      BY <2>1, DigitsOfStep
    <3> QED BY <3>2, <3>3
  <2>2. CASE ~ (n < Radix)
    <3>1. PICK q, r : q = n \div Radix /\ r = n % Radix
      OBVIOUS
    <3>2. q \in 0..(n - 1) /\ r \in Digits
      <4>1. n >= Radix
        BY <2>2, RadixAssumption
      <4>2. q \in Nat /\ r \in Digits /\ q < n
        BY <3>1, <4>1, Division
      <4> QED BY <4>2
    <3>3. DigitsOf[q] \in Seq(Digits)
      BY <1>1, <3>2
    <3>4. DigitsOf[n] = Append(DigitsOf[q], r)
      BY <2>2, <3>1, DigitsOfStep
    <3>5. \A s \in Seq(Digits) : Append(s, r) \in Seq(Digits) /\ Len(Append(s, r)) >= 1
      BY <3>2
    <3> QED BY <3>3, <3>4, <3>5
  <2> QED BY <2>1, <2>2
<1> HIDE DEF S
<1>2. \A n \in Nat : n \in S
  BY <1>1, StrongInduction
<1> QED BY <1>2 DEF S

LEMMA DivisionMonotone ==
  ASSUME NEW m \in Nat, NEW n \in Nat, m <= n
  PROVE  m \div Radix <= n \div Radix
<1>1. PICK q, r : q = m \div Radix /\ r = m % Radix
  OBVIOUS
<1>2. PICK p, t : p = n \div Radix /\ t = n % Radix
  OBVIOUS
<1>3. /\ q \in Nat /\ r \in Nat /\ r < Radix /\ m = q * Radix + r
      /\ p \in Nat /\ t \in Nat /\ t < Radix /\ n = p * Radix + t
  BY <1>1, <1>2, Division, RadixAssumption DEF Digits
<1>4. SUFFICES ASSUME q >= p + 1 PROVE FALSE
  BY <1>1, <1>2, <1>3
<1>5. q * Radix >= (p + 1) * Radix
  BY <1>3, <1>4, RadixAssumption
<1>6. (p + 1) * Radix = p * Radix + Radix
  BY <1>3, RadixAssumption
<1>7. p * Radix \in Nat /\ q * Radix \in Nat
  BY <1>3, RadixAssumption
<1> QED BY <1>3, <1>5, <1>6, <1>7, RadixAssumption

(* A later term has no fewer digits.                                        *)
LEMMA LaterTermsAreNoShorter ==
  \A n \in Nat : \A m \in 0..n : Len(DigitsOf[m]) <= Len(DigitsOf[n])
<1> DEFINE S == {n \in Nat : \A m \in 0..n : Len(DigitsOf[m]) <= Len(DigitsOf[n])}
<1>1. ASSUME NEW n \in Nat, \A k \in 0..(n - 1) : k \in S PROVE n \in S
  <2> SUFFICES ASSUME NEW m \in 0..n PROVE Len(DigitsOf[m]) <= Len(DigitsOf[n])
    OBVIOUS
  <2>1. m \in Nat /\ m <= n
    OBVIOUS
  <2>2. CASE m < Radix
    <3>1. DigitsOf[m] = <<m>> /\ Len(<<m>>) = 1
      BY <2>1, <2>2, DigitsOfStep
    <3>2. DigitsOf[n] \in Seq(Digits) /\ Len(DigitsOf[n]) >= 1
      BY DigitsOfType
    <3> QED BY <3>1, <3>2
  <2>3. CASE ~ (m < Radix)
    <3>1. PICK q, r : q = m \div Radix /\ r = m % Radix
      OBVIOUS
    <3>2. PICK p, t : p = n \div Radix /\ t = n % Radix
      OBVIOUS
    <3>3. /\ q \in Nat /\ p \in 0..(n - 1) /\ q <= p
          /\ r \in Digits /\ t \in Digits /\ ~ (n < Radix)
      BY <2>1, <2>3, <3>1, <3>2, Division, DivisionMonotone, RadixAssumption
    <3>4. Len(DigitsOf[q]) <= Len(DigitsOf[p])
      BY <1>1, <3>3
    <3>5. DigitsOf[q] \in Seq(Digits) /\ DigitsOf[p] \in Seq(Digits)
      BY <3>3, DigitsOfType
    <3>6. DigitsOf[m] = Append(DigitsOf[q], r) /\ DigitsOf[n] = Append(DigitsOf[p], t)
      BY <2>1, <2>3, <3>1, <3>2, <3>3, DigitsOfStep
    <3>7. \A s \in Seq(Digits), x \in Digits : Len(Append(s, x)) = Len(s) + 1 /\ Len(s) \in Nat
      OBVIOUS
    <3> QED BY <3>3, <3>4, <3>5, <3>6, <3>7
  <2> QED BY <2>2, <2>3
<1> HIDE DEF S
<1>2. \A n \in Nat : n \in S
  BY <1>1, StrongInduction
<1> QED BY <1>2 DEF S

(* The values of the beginnings of a sequence of digits.                    *)
Values(digits, f, n) ==
  /\ f \in [0..n -> Nat]
  /\ f[0] = 0
  /\ \A i \in 1..n : f[i] = f[i - 1] * Radix + digits[i]

LEMMA NatTimes ==
  ASSUME NEW a \in Nat, NEW b \in Nat
  PROVE  a * b \in Nat
  OBVIOUS

LEMMA ValuesExist ==
  ASSUME NEW ds \in Seq(Digits)
  PROVE  \A n \in Nat : n <= Len(ds) => \E f : Values(ds, f, n)
<1> DEFINE S == {n \in Nat : n <= Len(ds) => \E f : Values(ds, f, n)}
<1>1. 0 \in S
  <2> DEFINE f == [i \in 0..0 |-> 0]
  <2>1. Values(ds, f, 0)
    BY DEF Values
  <2> QED BY <2>1
<1>2. ASSUME NEW n \in Nat, n \in S PROVE n + 1 \in S
  <2> SUFFICES ASSUME n + 1 <= Len(ds) PROVE \E f : Values(ds, f, n + 1)
    OBVIOUS
  <2>1. PICK f : Values(ds, f, n)
    BY <1>2
  <2> DEFINE v == f[n] * Radix + ds[n + 1]
             g == [i \in 0..(n + 1) |-> IF i = n + 1 THEN v ELSE f[i]]
  <2>2. f \in [0..n -> Nat] /\ f[0] = 0
    BY <2>1 DEF Values
  <2>3. f[n] \in Nat /\ ds[n + 1] \in Nat
    BY <2>2 DEF Digits
  <2>4. v \in Nat
    BY <2>3, NatTimes, RadixAssumption
  <2>5. \A i \in 0..(n + 1) : i = n + 1 \/ i \in 0..n
    OBVIOUS
  <2>6. \A i \in 0..n : i # n + 1 /\ i \in 0..(n + 1)
    OBVIOUS
  <2> HIDE DEF v
  <2>7. g \in [0..(n + 1) -> Nat]
    BY <2>2, <2>4, <2>5
  <2>8. (\A i \in 0..n : g[i] = f[i]) /\ g[n + 1] = v
    BY <2>6
  <2> HIDE DEF g
  <2>9. g[0] = 0
    BY <2>2, <2>8
  <2>10. \A i \in 1..(n + 1) : g[i] = g[i - 1] * Radix + ds[i]
    <3> TAKE i \in 1..(n + 1)
    <3>1. CASE i = n + 1
      <4>1. i - 1 = n /\ n \in 0..n
        BY <3>1
      <4> QED BY <2>8, <3>1, <4>1 DEF v
    <3>2. CASE i # n + 1
      <4>1. i \in 1..n /\ i \in 0..n /\ i - 1 \in 0..n
        BY <3>2
      <4>2. f[i] = f[i - 1] * Radix + ds[i]
        BY <2>1, <4>1 DEF Values
      <4> QED BY <2>8, <4>1, <4>2
    <3> QED BY <3>1, <3>2
  <2>11. Values(ds, g, n + 1)
    BY <2>7, <2>9, <2>10 DEF Values
  <2> QED BY <2>11
<1> HIDE DEF S
<1>3. \A n \in Nat : n \in S
  BY <1>1, <1>2, StepInduction
<1> QED BY <1>3 DEF S

LEMMA ValuesAgree ==
  ASSUME NEW ds, NEW es, NEW m \in Nat, NEW n \in Nat, m <= n,
         \A i \in 1..m : ds[i] = es[i],
         NEW f, NEW g, Values(ds, f, m), Values(es, g, n)
  PROVE  f[m] = g[m]
<1> DEFINE S == {i \in Nat : i <= m => f[i] = g[i]}
<1>1. 0 \in S
  BY DEF Values
<1>2. ASSUME NEW i \in Nat, i \in S PROVE i + 1 \in S
  <2> SUFFICES ASSUME i + 1 <= m PROVE f[i + 1] = g[i + 1]
    OBVIOUS
  <2>1. i + 1 \in 1..m /\ i + 1 \in 1..n /\ (i + 1) - 1 = i
    OBVIOUS
  <2>2. f[i + 1] = f[i] * Radix + ds[i + 1] /\ g[i + 1] = g[i] * Radix + es[i + 1]
    BY <2>1 DEF Values
  <2>3. f[i] = g[i]
    BY <1>2, <2>1
  <2> QED BY <2>1, <2>2, <2>3
<1> HIDE DEF S
<1>3. \A i \in Nat : i \in S
  BY <1>1, <1>2, StepInduction
<1> QED BY <1>3 DEF S

(* The recursion has a solution.                                            *)
LEMMA NumberOfIs ==
  ASSUME NEW ds \in Seq(Digits)
  PROVE  \E f : Values(ds, f, Len(ds)) /\ NumberOf(ds) = f[Len(ds)]
<1> DEFINE V(f) == [n \in 0..Len(ds) |-> IF n = 0 THEN 0 ELSE f[n - 1] * Radix + ds[n]]
           value == CHOOSE f : f = V(f)
<1>1. Len(ds) \in Nat
  OBVIOUS
<1>2. PICK g : Values(ds, g, Len(ds))
  BY <1>1, ValuesExist
<1>3. g \in [0..Len(ds) -> Nat] /\ g[0] = 0
  BY <1>2 DEF Values
<1>4. \A n \in 0..Len(ds) : g[n] = IF n = 0 THEN 0 ELSE g[n - 1] * Radix + ds[n]
  BY <1>1, <1>2 DEF Values
<1>5. g = V(g)
  BY <1>3, <1>4
<1> HIDE DEF V
<1>6. value = V(value)
  BY <1>5
<1>7. NumberOf(ds) = value[Len(ds)]
  BY DEF NumberOf, V
<1> HIDE DEF value
<1>8. \A n \in 0..Len(ds) : V(value)[n] = IF n = 0 THEN 0 ELSE value[n - 1] * Radix + ds[n]
  BY DEF V
<1>9. \A n \in 0..Len(ds) : value[n] = IF n = 0 THEN 0 ELSE value[n - 1] * Radix + ds[n]
  BY <1>6, <1>8
<1>10. DOMAIN V(value) = 0..Len(ds)
  BY DEF V
<1> DEFINE S == {n \in Nat : n <= Len(ds) => value[n] = g[n]}
<1>11. \A n \in Nat : n \in S
  <2>1. 0 \in S
    BY <1>1, <1>3, <1>9
  <2>2. ASSUME NEW n \in Nat, n \in S PROVE n + 1 \in S
    <3> SUFFICES ASSUME n + 1 <= Len(ds) PROVE value[n + 1] = g[n + 1]
      OBVIOUS
    <3>1. n + 1 \in 0..Len(ds) /\ n + 1 # 0 /\ (n + 1) - 1 = n
      BY <1>1
    <3>2. value[n] = g[n]
      BY <1>1, <2>2
    <3> QED BY <1>4, <1>9, <3>1, <3>2
  <2> HIDE DEF S
  <2> QED BY <2>1, <2>2, StepInduction
<1>12. value[Len(ds)] = g[Len(ds)]
  BY <1>1, <1>11
<1> QED BY <1>2, <1>7, <1>12

LEMMA NumberOfType ==
  ASSUME NEW ds \in Seq(Digits)
  PROVE  NumberOf(ds) \in Nat
<1>1. PICK f : Values(ds, f, Len(ds)) /\ NumberOf(ds) = f[Len(ds)]
  BY NumberOfIs
<1>2. f \in [0..Len(ds) -> Nat] /\ Len(ds) \in 0..Len(ds)
  BY <1>1 DEF Values
<1> QED BY <1>1, <1>2

LEMMA NumberOfAppend ==
  ASSUME NEW ds \in Seq(Digits), NEW d \in Digits
  PROVE  NumberOf(Append(ds, d)) = NumberOf(ds) * Radix + d
<1>1. PICK n \in Nat : n = Len(ds)
  OBVIOUS
<1>2. PICK es \in Seq(Digits) : es = Append(ds, d)
  <2>1. Append(ds, d) \in Seq(Digits)
    OBVIOUS
  <2> QED BY <2>1
<1>3. Len(es) = n + 1 /\ es[n + 1] = d /\ \A i \in 1..n : ds[i] = es[i]
  BY <1>1, <1>2
<1>4. PICK f : Values(ds, f, n) /\ NumberOf(ds) = f[n]
  BY <1>1, NumberOfIs
<1>5. PICK g : Values(es, g, n + 1) /\ NumberOf(es) = g[n + 1]
  BY <1>3, NumberOfIs
<1>6. f[n] = g[n]
  <2>1. PICK m \in Nat : m = n + 1 /\ n <= m
    OBVIOUS
  <2>2. Values(ds, f, n)
    BY <1>4
  <2>3. Values(es, g, m)
    BY <1>5, <2>1
  <2>4. \A i \in 1..n : ds[i] = es[i]
    BY <1>3
  <2> HIDE <1>4, <1>5
  <2> QED BY <2>1, <2>2, <2>3, <2>4, ValuesAgree
<1>7. n + 1 \in 1..(n + 1) /\ (n + 1) - 1 = n
  OBVIOUS
<1>8. g[n + 1] = g[n] * Radix + es[n + 1]
  BY <1>5, <1>7 DEF Values
<1> QED BY <1>2, <1>3, <1>4, <1>5, <1>6, <1>8

LEMMA NumberOfOne ==
  ASSUME NEW d \in Digits
  PROVE  NumberOf(<<d>>) = d
<1>1. PICK es \in Seq(Digits) : es = <<d>> /\ Len(es) = 1 /\ es[1] = d
  <2>1. <<d>> \in Seq(Digits) /\ Len(<<d>>) = 1 /\ <<d>>[1] = d
    OBVIOUS
  <2> QED BY <2>1
<1>2. PICK g : Values(es, g, 1) /\ NumberOf(es) = g[1]
  BY <1>1, NumberOfIs
<1>3. g[1] = g[0] * Radix + es[1] /\ g[0] = 0
  <2>1. 1 \in 1..1 /\ 1 - 1 = 0
    OBVIOUS
  <2> QED BY <1>2, <2>1 DEF Values
<1>4. 0 * Radix = 0 /\ d \in Nat
  BY RadixAssumption DEF Digits
<1> QED BY <1>1, <1>2, <1>3, <1>4

(* What is read of a term's digits is the term.                             *)
LEMMA NumberOfDigits ==
  \A n \in Nat : NumberOf(DigitsOf[n]) = n
<1> DEFINE S == {n \in Nat : NumberOf(DigitsOf[n]) = n}
<1>1. ASSUME NEW n \in Nat, \A m \in 0..(n - 1) : m \in S PROVE n \in S
  <2> SUFFICES NumberOf(DigitsOf[n]) = n
    OBVIOUS
  <2>1. CASE n < Radix
    <3>1. n \in Digits
      BY <2>1, RadixAssumption DEF Digits
    <3> QED BY <2>1, <3>1, DigitsOfStep, NumberOfOne
  <2>2. CASE ~ (n < Radix)
    <3>1. PICK q, r : q = n \div Radix /\ r = n % Radix
      OBVIOUS
    <3>2. q \in 0..(n - 1) /\ r \in Digits /\ n = q * Radix + r
      <4>1. n >= Radix
        BY <2>2, RadixAssumption
      <4>2. q \in Nat /\ r \in Digits /\ q < n /\ n = q * Radix + r
        BY <3>1, <4>1, Division
      <4> QED BY <4>2
    <3>3. DigitsOf[q] \in Seq(Digits) /\ NumberOf(DigitsOf[q]) = q
      BY <1>1, <3>2, DigitsOfType
    <3>4. DigitsOf[n] = Append(DigitsOf[q], r)
      BY <2>2, <3>1, DigitsOfStep
    <3>5. NumberOf(Append(DigitsOf[q], r)) = NumberOf(DigitsOf[q]) * Radix + r
      BY <3>2, <3>3, NumberOfAppend
    <3> QED BY <3>2, <3>3, <3>4, <3>5
  <2> QED BY <2>1, <2>2
<1> HIDE DEF S
<1>2. \A n \in Nat : n \in S
  BY <1>1, StrongInduction
<1> QED BY <1>2 DEF S

-----------------------------------------------------------------------------
(* Texts.                                                                   *)
Character == 0..NotADigit
Text == Seq(Character)

LEMMA DigitsAreText ==
  /\ Digits \subseteq Character /\ NotADigit \notin Digits
  /\ Seq(Digits) \subseteq Text
  /\ <<>> \in Text /\ <<NotADigit>> \in Text /\ <<>> # Absent /\ <<NotADigit>> # Absent
  /\ Absent \notin Text
<1>1. /\ Digits \subseteq Character /\ NotADigit \notin Digits
      /\ NotADigit \in Character
  BY RadixAssumption DEF Digits, Character, NotADigit
<1>2. Seq(Digits) \subseteq Seq(Character)
  BY <1>1
<1>4. <<>> \in Seq(Character) /\ <<NotADigit>> \in Seq(Character)
  BY <1>1
<1>3. Absent \notin Text
  BY ValuesAssumption DEF Text, Character, NotADigit
<1> QED BY <1>1, <1>2, <1>3, <1>4 DEF Text

LEMMA LeadingDigitsAre ==
  ASSUME NEW text \in Text
  PROVE  /\ LeadingDigits(text) \in 0..Len(text)
         /\ \A i \in 1..LeadingDigits(text) : text[i] \in Digits
         /\ LeadingDigits(text) < Len(text) => text[LeadingDigits(text) + 1] = NotADigit
<1> DEFINE t == text \o <<NotADigit>>
           I == {i \in 1..Len(t) : t[i] = NotADigit}
<1>1. Len(text) \in Nat /\ \A i \in 1..Len(text) : text[i] \in Character
  BY DEF Text
<1>2. Len(t) = Len(text) + 1 /\ t[Len(text) + 1] = NotADigit
      /\ \A i \in 1..Len(text) : t[i] = text[i]
  BY <1>1 DEF Text
<1>3. LeadingDigits(text) = (IF I # {} THEN Min(I) ELSE 0) - 1
  BY DEF LeadingDigits, SelectInSeq
<1> HIDE DEF t
<1>4. Len(text) + 1 \in I /\ I \in SUBSET Nat
  BY <1>1, <1>2
<1> HIDE DEF I
<1>5. PICK m : m = Min(I)
  OBVIOUS
<1>6. m \in I /\ \A i \in I : m <= i
  BY <1>4, <1>5, LeastElement
<1>7. m \in 1..(Len(text) + 1) /\ t[m] = NotADigit /\ LeadingDigits(text) = m - 1
  BY <1>2, <1>3, <1>4, <1>5, <1>6 DEF I
<1>8. \A i \in 1..(m - 1) : text[i] \in Digits
  <2> TAKE i \in 1..(m - 1)
  <2>1. i \in 1..Len(text) /\ i \in 1..Len(t) /\ ~ (m <= i)
    BY <1>1, <1>2, <1>7
  <2>2. t[i] # NotADigit
    BY <1>6, <2>1 DEF I
  <2> QED BY <1>1, <1>2, <2>1, <2>2, RadixAssumption DEF Digits, Character, NotADigit
<1> QED BY <1>1, <1>2, <1>7, <1>8

LEMMA NoLeadingDigits ==
  /\ LeadingDigits(<<>>) = 0
  /\ \A text \in Text : Len(text) > 0 /\ text[1] = NotADigit => LeadingDigits(text) = 0
<1>1. LeadingDigits(<<>>) = 0
  BY DigitsAreText, LeadingDigitsAre
<1>2. ASSUME NEW text \in Text, Len(text) > 0, text[1] = NotADigit
      PROVE  LeadingDigits(text) = 0
  <2>1. Len(text) \in Nat
    BY DEF Text
  <2>2. LeadingDigits(text) >= 1 => 1 \in 1..LeadingDigits(text)
    BY <2>1, LeadingDigitsAre
  <2> QED BY <1>2, <2>1, <2>2, LeadingDigitsAre, DigitsAreText
<1> QED BY <1>1, <1>2

LEMMA AllDigitsLead ==
  ASSUME NEW text \in Seq(Digits)
  PROVE  LeadingDigits(text) = Len(text)
<1>1. text \in Text /\ Len(text) \in Nat /\ \A i \in 1..Len(text) : text[i] \in Digits
  BY DigitsAreText
<1>2. PICK n : n = LeadingDigits(text)
  OBVIOUS
<1>3. n \in 0..Len(text) /\ (n < Len(text) => text[n + 1] = NotADigit)
  BY <1>1, <1>2, LeadingDigitsAre
<1>4. n < Len(text) => n + 1 \in 1..Len(text)
  BY <1>1, <1>3
<1> QED BY <1>1, <1>2, <1>3, <1>4, DigitsAreText

(* What parseInt makes of a text: a number, unless the text begins with no  *)
(* digit.                                                                   *)
LEMMA DeserializedIs ==
  ASSUME NEW text \in Text
  PROVE  /\ DeserializeInteger(text) \in Nat \cup {NaN}
         /\ DeserializeInteger(text) = NaN <=> LeadingDigits(text) = 0
         /\ text = <<>> => DeserializeInteger(text) = NaN
<1>1. PICK n : n = LeadingDigits(text)
  OBVIOUS
<1>2. n \in 0..Len(text) /\ \A i \in 1..n : text[i] \in Digits
  BY <1>1, LeadingDigitsAre
<1>3. SubSeq(text, 1, n) \in Seq(Digits)
  BY <1>2 DEF Text
<1>4. NumberOf(SubSeq(text, 1, n)) \in Nat
  BY <1>3, NumberOfType
<1>5. DeserializeInteger(text) = IF n = 0 THEN NaN ELSE NumberOf(SubSeq(text, 1, n))
  BY <1>1 DEF DeserializeInteger
<1> QED BY <1>1, <1>4, <1>5, NoLeadingDigits, ValuesAssumption

(* What was written is read again.                                          *)
LEMMA SerializedIs ==
  ASSUME NEW n \in Nat \cup {NaN}
  PROVE  /\ SerializeInteger(n) \in Text /\ Len(SerializeInteger(n)) >= 1
         /\ n \in Nat => SerializeInteger(n) = DigitsOf[n]
         /\ n = NaN => SerializeInteger(n) = <<NotADigit>>
         /\ DeserializeInteger(SerializeInteger(n)) = n
<1>1. CASE n = NaN
  <2>1. SerializeInteger(n) = <<NotADigit>>
    BY <1>1, ValuesAssumption DEF SerializeInteger
  <2>2. Len(<<NotADigit>>) = 1 /\ <<NotADigit>>[1] = NotADigit
    OBVIOUS
  <2>3. DeserializeInteger(<<NotADigit>>) = NaN
    BY <2>2, DigitsAreText, NoLeadingDigits, DeserializedIs
  <2> QED BY <1>1, <2>1, <2>2, <2>3, DigitsAreText, ValuesAssumption
<1>2. CASE n \in Nat
  <2>1. SerializeInteger(n) = DigitsOf[n]
    BY <1>2, ValuesAssumption DEF SerializeInteger
  <2>2. PICK ds \in Seq(Digits) : ds = DigitsOf[n] /\ Len(ds) >= 1
    BY <1>2, DigitsOfType
  <2>3. LeadingDigits(ds) = Len(ds) /\ Len(ds) # 0
    BY <2>2, AllDigitsLead
  <2>4. SubSeq(ds, 1, Len(ds)) = ds
    OBVIOUS
  <2>5. DeserializeInteger(ds) = NumberOf(ds)
    BY <2>3, <2>4 DEF DeserializeInteger
  <2>6. NumberOf(ds) = n
    BY <1>2, <2>2, NumberOfDigits
  <2> QED BY <1>2, <2>1, <2>2, <2>5, <2>6, DigitsAreText, ValuesAssumption
<1> QED BY <1>1, <1>2

LEMMA RestIs ==
  ASSUME NEW S, NEW s \in Seq(S), NEW n \in Nat
  PROVE  /\ SubSeq(s, n + 1, Len(s)) \in Seq(S)
         /\ Len(SubSeq(s, n + 1, Len(s))) = IF n >= Len(s) THEN 0 ELSE Len(s) - n
         /\ SubSeq(s, 0 + 1, Len(s)) = s
  OBVIOUS

LEMMA EmptyConcat ==
  ASSUME NEW S, NEW s \in Seq(S), NEW r \in Seq(S)
  PROVE  /\ Len(r) = 0 => s \o r = s
         /\ s = <<>> => s \o r = r
  OBVIOUS

(* A text written over another.                                             *)
LEMMA OverlayIs ==
  ASSUME NEW old \in Text, NEW text \in Text
  PROVE  /\ Term!Overlay(old, text) \in Text
         /\ Len(Term!Overlay(old, text)) = IF Len(text) >= Len(old) THEN Len(text) ELSE Len(old)
         /\ \A i \in 1..Len(text) : Term!Overlay(old, text)[i] = text[i]
         /\ Len(old) <= Len(text) => Term!Overlay(old, text) = text
         /\ text = <<>> => Term!Overlay(old, text) = old
<1> DEFINE rest == SubSeq(old, Len(text) + 1, Len(old))
<1>1. Len(old) \in Nat /\ Len(text) \in Nat
  BY DEF Text
<1>2. /\ rest \in Text
      /\ Len(rest) = IF Len(text) >= Len(old) THEN 0 ELSE Len(old) - Len(text)
  BY <1>1, RestIs DEF Text
<1>3. Term!Overlay(old, text) = text \o rest
  BY DEF Term!Overlay
<1>4. text = <<>> => rest = old
  BY <1>1, RestIs DEF Text
<1> HIDE DEF rest
<1>5. PICK r \in Text : r = rest
  BY <1>2
<1>6. /\ text \o r \in Text /\ Len(text \o r) = Len(text) + Len(r)
      /\ \A i \in 1..Len(text) : (text \o r)[i] = text[i]
  BY <1>1 DEF Text
<1>7. (Len(r) = 0 => text \o r = text) /\ (text = <<>> => text \o r = r)
  BY EmptyConcat DEF Text
<1> QED BY <1>1, <1>2, <1>3, <1>4, <1>5, <1>6, <1>7

-----------------------------------------------------------------------------
(* The term, its file and its writes.                                       *)
ValueInv ==
  /\ currentTerm \in Nat \cup {Null, NaN} /\ termInSync \in BOOLEAN
  /\ termFile \in Text \cup {Absent}
  /\ IsFiniteSet(termOps)
  /\ \A op \in termOps :
       /\ op.text \in Text /\ op.step \in {"open", "put", "done", "failed"}
       /\ op.step \in {"put", "done"} => termFile # Absent
  /\ votedFor \in {Null, Self} /\ voteInSync \in BOOLEAN
  /\ boot \in Nat

(* A process has a term from the moment it reads or sets one; who reads NaN *)
(* writes nothing else; every response that waits for its write has one.    *)
StartInv ==
  /\ phase \in {"off", "access", "read"} <=> currentTerm = Null
  /\ currentTerm = Null => termOps = {} /\ ~ termInSync
  /\ phase = "read" => termFile # Absent
  /\ phase # "started" => votedFor = Null
  /\ currentTerm = NaN => \A op \in termOps : op.text = <<NotADigit>>
  /\ \A slot \in Slots :
       responses[slot].awaits = "term" => \E op \in termOps : op.caller = slot

TermInv == IInv /\ ValueInv /\ StartInv

(* What an event may do to the term of a server in the cluster: it stays,   *)
(* or is set to a later one; NaN stays NaN.                                 *)
TermMoves ==
  \/ UNCHANGED <<currentTerm, termInSync>>
  \/ /\ termInSync' = FALSE
     /\ \/ currentTerm = NaN /\ currentTerm' = NaN
        \/ currentTerm \in Nat /\ currentTerm' \in Nat /\ currentTerm' > currentTerm

NewWrite(caller) ==
  [caller |-> caller, text |-> SerializeInteger(currentTerm'), step |-> "open"]

Begins(caller) == ~ termInSync' /\ termOps' = termOps \cup {NewWrite(caller)}

Runs ==
  /\ phase = "started" /\ UNCHANGED <<phase, termFile, boot>>
  /\ TermMoves
  /\ UNCHANGED termOps \/ \E slot \in Slots : Begins(slot)

Waits ==
  /\ UNCHANGED termVars
  /\ \/ UNCHANGED <<phase, boot>>
     \/ phase = "off" /\ phase' = "access" /\ boot' = boot + 1
     \/ phase = "access" /\ phase' = "read" /\ termFile # Absent /\ UNCHANGED boot

Creates ==
  /\ phase = "access" /\ termFile = Absent /\ phase' = "write"
  /\ currentTerm' = 0 /\ termInSync' = FALSE /\ Begins(0)
  /\ UNCHANGED <<termFile, boot>>

Reads ==
  /\ phase = "read" /\ phase' = "started"
  /\ Term!Read
  /\ UNCHANGED <<termFile, termOps, boot>>

CallsBack(op) ==
  /\ Term!Callback(op) /\ UNCHANGED boot
  /\ \/ UNCHANGED phase /\ op.caller # 0
     \/ phase = "write" /\ phase' = "started" /\ op.step = "done"

Goes(op) ==
  /\ Term!Truncate(op) \/ Term!Put(op) \/ Term!Fail(op)
  /\ UNCHANGED <<phase, boot>>

TermStep ==
  \/ Forgotten
  \/ Waits
  \/ Runs
  \/ Creates
  \/ Reads
  \/ \E op \in termOps : CallsBack(op) \/ Goes(op)

(* What every step keeps of the vote, and of who waits for the term.       *)
Others ==
  /\ votedFor' \in {Null, Self} /\ voteInSync' \in BOOLEAN
  /\ phase' # "started" => votedFor' = Null
  /\ \A slot \in Slots :
       responses'[slot].awaits = "term" => \E op \in termOps' : op.caller = slot

-----------------------------------------------------------------------------
LEMMA InCluster_HasTerm ==
  ASSUME TermInv, phase = "started"
  PROVE  currentTerm \in Nat \cup {NaN} /\ currentTerm # Null
  BY ValuesAssumption DEF TermInv, ValueInv, StartInv

LEMMA ReceivedMoves ==
  ASSUME TermInv, NEW t \in 0..MaxTerm, Received(t)
  PROVE  /\ phase = "started" /\ UNCHANGED <<phase, termFile, boot>>
         /\ TermMoves
         /\ votedFor' \in {votedFor, Null} /\ voteInSync' \in BOOLEAN
<1>1. phase = "started" /\ UNCHANGED <<phase, termFile, boot>> /\ AdoptTerm(t)
  BY DEF TermInv, IInv, PhaseInv, Received
<1>2. currentTerm \in Nat \cup {NaN}
  BY <1>1, InCluster_HasTerm
<1>3. t \in Nat
  BY ValuesAssumption
<1>4. TermMoves
  BY <1>1, <1>2, <1>3, ValuesAssumption
     DEF AdoptTerm, IsNewer, SetTermAndVote, Term!SetValue, TermMoves
<1>5. votedFor' \in {votedFor, Null} /\ voteInSync' \in BOOLEAN
  BY <1>1 DEF AdoptTerm, SetTermAndVote, SetVote, TermInv, ValueInv
<1> QED BY <1>1, <1>4, <1>5

LEMMA RespondBegins ==
  ASSUME TermInv, NEW grants, Respond(grants)
  PROVE  /\ UNCHANGED termOps \/ \E slot \in Slots : Begins(slot)
         /\ \A slot \in Slots :
              responses'[slot].awaits = "term" => \E op \in termOps' : op.caller = slot
<1> DEFINE slot == CHOOSE slot \in Free : TRUE
           awaits == IF ~ termInSync' THEN "term" ELSE IF ~ voteInSync' THEN "vote" ELSE "socket"
<1>1. slot \in Slots
  BY DEF Respond, Free
<1>2. /\ responses' = [responses EXCEPT ![slot] =
                         [grants |-> grants, awaits |-> awaits, lost |-> FALSE]]
      /\ IF termInSync' THEN UNCHANGED termOps ELSE termOps' = termOps \cup {NewWrite(slot)}
  BY DEF Respond, Hold, Term!BeginWrite, NewWrite
<1>3. NewWrite(slot).caller = slot
  BY DEF NewWrite
<1>4. awaits = "term" => ~ termInSync'
  OBVIOUS
<1> HIDE DEF slot, awaits
<1>5. responses \in [Slots -> Response]
  BY DEF TermInv, IInv, Types
<1>6. /\ \A other \in Slots \ {slot} : responses'[other] = responses[other]
      /\ responses'[slot].awaits = awaits
  BY <1>1, <1>2, <1>5
<1>7. UNCHANGED termOps \/ Begins(slot)
  BY <1>2 DEF Begins
<1>8. \A other \in Slots :
        responses'[other].awaits = "term" => \E op \in termOps' : op.caller = other
  <2> SUFFICES ASSUME NEW other \in Slots, responses'[other].awaits = "term"
               PROVE  \E op \in termOps' : op.caller = other
    OBVIOUS
  <2>1. CASE other = slot
    BY <1>2, <1>3, <1>4, <1>6, <2>1
  <2>2. CASE other # slot
    <3>1. \E op \in termOps : op.caller = other
      BY <1>6, <2>2 DEF TermInv, StartInv
    <3> QED BY <1>2, <3>1
  <2> QED BY <2>1, <2>2
<1> QED BY <1>1, <1>7, <1>8

(* An event of a server in the cluster.                                     *)
LEMMA ReceiveRuns ==
  ASSUME TermInv, Receive
  PROVE  Runs /\ Others
<1>1. CASE Win
  <2>1. phase = "started" /\ UNCHANGED <<termVars, voteVars, phase, boot, responses>>
    BY <1>1 DEF Win, TermInv, IInv, PhaseInv
  <2>2. UNCHANGED <<currentTerm, termInSync, termFile, termOps, votedFor, voteInSync, phase, responses>>
    BY <2>1 DEF termVars, voteVars
  <2>3. Runs
    BY <2>1, <2>2 DEF Runs, TermMoves
  <2>4. Others
    BY <2>1, <2>2 DEF Others, TermInv, ValueInv, StartInv
  <2> QED BY <2>3, <2>4
<1>2. ASSUME NEW t \in 0..MaxTerm, NEW grants, Received(t), Respond(grants)
      PROVE  Runs /\ Others
  BY <1>2, ReceivedMoves, RespondBegins DEF Runs, Others, TermInv, ValueInv
<1>3. ASSUME NEW t \in 0..MaxTerm, Received(t), UNCHANGED <<termOps, responses>>
      PROVE  Runs /\ Others
  BY <1>3, ReceivedMoves DEF Runs, Others, TermInv, ValueInv, StartInv
<1>4. ASSUME NEW t \in 0..MaxTerm, AppendToFollower(t) PROVE Runs /\ Others
  <2>1. Received(t) /\ Respond(FALSE)
    BY <1>4 DEF AppendToFollower
  <2> QED BY <1>2, <2>1
<1>5. ASSUME NEW t \in 0..MaxTerm, VoteRequest(t) PROVE Runs /\ Others
  <2>1. Received(t) /\ Respond(IsCurrent(t) /\ votedFor' = Null)
    BY <1>5 DEF VoteRequest
  <2> QED BY <1>2, <2>1
<1>6. ASSUME NEW t \in 0..MaxTerm, AppendToCandidate(t) \/ NewerResponse(t)
      PROVE  Runs /\ Others
  <2>1. Received(t) /\ UNCHANGED <<termOps, responses>>
    BY <1>6 DEF AppendToCandidate, NewerResponse
  <2> QED BY <1>3, <2>1
<1> QED BY <1>1, <1>4, <1>5, <1>6 DEF Receive

LEMMA VisitRuns ==
  ASSUME TermInv, Visit
  PROVE  Runs /\ UNCHANGED termOps /\ Others
<1>1. phase = "started" /\ UNCHANGED <<phase, responses, boot>>
  BY DEF Visit, TermInv, IInv, PhaseInv
<1>2. currentTerm \in Nat \cup {NaN}
  BY <1>1, InCluster_HasTerm
<1>3. CASE StartElection
  <2>1. /\ currentTerm' = TermAfter(1) /\ termInSync' = FALSE /\ UNCHANGED <<termFile, termOps>>
        /\ votedFor' = Self /\ voteInSync' = FALSE
    BY <1>3 DEF StartElection, SetTermAndVote, Term!SetValue, SetVote
  <2>2. currentTerm = NaN => currentTerm' = NaN
    BY <2>1 DEF TermAfter
  <2>3. currentTerm \in Nat => currentTerm' = currentTerm + 1
    BY <2>1, ValuesAssumption DEF TermAfter
  <2>4. TermMoves
    BY <1>2, <2>1, <2>2, <2>3 DEF TermMoves
  <2>5. Runs
    BY <1>1, <2>1, <2>4 DEF Runs
  <2>6. Others
    BY <1>1, <2>1 DEF Others, TermInv, StartInv
  <2> QED BY <2>1, <2>5, <2>6
<1>4. CASE UNCHANGED <<termVars, voteVars>>
  <2>1. UNCHANGED <<currentTerm, termInSync, termFile, termOps, votedFor, voteInSync>>
    BY <1>4 DEF termVars, voteVars
  <2>2. Runs
    BY <1>1, <2>1 DEF Runs, TermMoves
  <2>3. Others
    BY <1>1, <2>1 DEF Others, TermInv, ValueInv, StartInv
  <2> QED BY <2>1, <2>2, <2>3
<1> QED BY <1>3, <1>4 DEF Visit, VisitFollower, VisitCandidate

LEMMA Unchanged_Others ==
  ASSUME TermInv, UNCHANGED <<votedFor, voteInSync, termOps>>,
         phase' = phase \/ phase # "started" \/ votedFor = Null,
         \A slot \in Slots : responses'[slot].awaits = "term" =>
                               responses[slot].awaits = "term"
  PROVE  Others
  BY DEF Others, TermInv, ValueInv, StartInv

(* The process and the system.                                              *)
LEMMA ForgottenOthers ==
  ASSUME Forgotten
  PROVE  Others
<1>1. /\ votedFor' = Null /\ voteInSync' = FALSE
      /\ responses' = [slot \in Slots |-> [grants |-> FALSE, awaits |-> "nothing", lost |-> FALSE]]
  BY DEF Forgotten, SetVote, NoResponse
<1> QED BY <1>1 DEF Others

LEMMA BootWaits ==
  ASSUME TermInv, Boot
  PROVE  Waits /\ Others
<1>1. /\ phase = "off" /\ phase' = "access" /\ boot' = boot + 1 /\ UNCHANGED termVars
      /\ UNCHANGED <<votedFor, voteInSync, termOps, responses>>
  BY DEF Boot, termVars, voteVars
<1>2. Waits
  BY <1>1 DEF Waits
<1>3. Others
  BY <1>1, Unchanged_Others
<1> QED BY <1>2, <1>3

LEMMA AccessMoves ==
  ASSUME TermInv, AccessDone
  PROVE  (Waits \/ Creates) /\ Others
<1>1. /\ phase = "access" /\ UNCHANGED <<votedFor, voteInSync, responses, boot>>
      /\ phase' \in {"read", "write"}
  BY DEF AccessDone, voteVars
<1>2. \A slot \in Slots : responses[slot].awaits = "nothing"
  BY <1>1 DEF TermInv, IInv, CallersInv
<1>3. votedFor = Null
  BY <1>1 DEF TermInv, StartInv
<1>4. Others
  BY <1>1, <1>2, <1>3 DEF Others, TermInv, ValueInv
<1>5. CASE Term!Exists /\ phase' = "read" /\ UNCHANGED termVars
  BY <1>1, <1>4, <1>5 DEF Waits, Term!Exists
<1>6. CASE /\ ~ Term!Exists /\ Term!SetValue(0) /\ Term!BeginWrite(0)
           /\ phase' = "write" /\ UNCHANGED termFile
  BY <1>1, <1>4, <1>6 DEF Creates, Term!Exists, Term!SetValue, Term!BeginWrite, Begins, NewWrite
<1> QED BY <1>4, <1>5, <1>6 DEF AccessDone

LEMMA ReadMoves ==
  ASSUME TermInv, ReadDone
  PROVE  Reads /\ Others
<1>1. /\ phase = "read" /\ phase' = "started" /\ Term!Read
      /\ UNCHANGED <<termFile, termOps, votedFor, voteInSync, responses, boot>>
  BY DEF ReadDone, EnterCluster, voteVars
<1>2. votedFor = Null
  BY <1>1 DEF TermInv, StartInv
<1> QED BY <1>1, <1>2, Unchanged_Others DEF Reads

LEMMA StopWaits ==
  ASSUME TermInv, Stop
  PROVE  Waits /\ Others
<1>1. /\ UNCHANGED termVars /\ UNCHANGED <<phase, boot, votedFor, voteInSync, termOps>>
      /\ responses' = [slot \in Slots |->
           [responses[slot] EXCEPT !.lost = responses[slot].awaits # "nothing"]]
  BY DEF Stop, termVars, voteVars
<1>2. \A slot \in Slots : responses[slot] \in Response
  BY DEF TermInv, IInv, Types
<1>3. \A slot \in Slots : responses'[slot].awaits = responses[slot].awaits
  BY <1>1, <1>2 DEF Response
<1> QED BY <1>1, <1>3, Unchanged_Others DEF Waits

LEMMA VoteCallbackWaits ==
  ASSUME TermInv, NEW slot \in Slots, VoteCallback(slot)
  PROVE  Waits /\ Others
<1>1. PICK failed \in BOOLEAN : WriteEnds(slot, failed, "socket")
  BY DEF VoteCallback
<1>2. /\ UNCHANGED termVars /\ UNCHANGED <<phase, boot, votedFor, termOps>>
      /\ voteInSync' = TRUE
  BY DEF VoteCallback, termVars
<1>3. \A other \in Slots : responses'[other].awaits = "term" => responses[other].awaits = "term"
  <2>1. responses \in [Slots -> Response]
    BY DEF TermInv, IInv, Types
  <2>2. CASE responses' = [responses EXCEPT ![slot] = NoResponse]
    BY <2>1, <2>2 DEF NoResponse
  <2>3. CASE responses' = [responses EXCEPT ![slot].awaits = "socket"]
    BY <2>1, <2>3 DEF Response
  <2> QED BY <1>1, <2>2, <2>3 DEF WriteEnds, Drop, Advance
<1>4. Others
  BY <1>2, <1>3 DEF Others, TermInv, ValueInv, StartInv
<1> QED BY <1>2, <1>4 DEF Waits

LEMMA SendWaits ==
  ASSUME TermInv, NEW slot \in Slots, SendEnds(slot)
  PROVE  Waits /\ Others
<1>1. /\ UNCHANGED termVars /\ UNCHANGED <<phase, boot, votedFor, voteInSync, termOps>>
      /\ responses' = [responses EXCEPT ![slot] = NoResponse]
  BY DEF SendEnds, Drop, termVars, voteVars
<1>2. \A other \in Slots : responses'[other].awaits = "term" => responses[other].awaits = "term"
  BY <1>1 DEF NoResponse, TermInv, IInv, Types
<1> QED BY <1>1, <1>2, Unchanged_Others DEF Waits

LEMMA TimeoutWaits ==
  ASSUME TermInv, Timeout
  PROVE  Waits /\ Others
<1>1. /\ UNCHANGED termVars
      /\ UNCHANGED <<phase, boot, votedFor, voteInSync, termOps, responses>>
  BY DEF Timeout, termVars, voteVars, serverVars
<1> QED BY <1>1, Unchanged_Others DEF Waits

LEMMA FileStepGoes ==
  ASSUME TermInv, NEW op \in termOps, TermFileStep(op)
  PROVE  Goes(op) /\ Others
<1>1. /\ Term!Truncate(op) \/ Term!Put(op) \/ Term!Fail(op)
      /\ UNCHANGED <<votedFor, voteInSync, phase, boot, responses>>
  BY DEF TermFileStep, voteVars, serverVars
<1>2. PICK step : termOps' = (termOps \ {op}) \cup {[op EXCEPT !.step = step]}
  BY <1>1 DEF Term!Truncate, Term!Put, Term!Fail, Term!At
<1>3. [op EXCEPT !.step = step].caller = op.caller
  <2>1. op = [caller |-> op.caller, text |-> op.text, step |-> op.step]
    BY DEF TermInv, IInv, CallersInv
  <2> QED BY <2>1
<1>4. \A other \in termOps : \E after \in termOps' : after.caller = other.caller
  BY <1>2, <1>3
<1>5. Others
  BY <1>1, <1>4 DEF Others, TermInv, ValueInv, StartInv
<1> QED BY <1>1, <1>5 DEF Goes

LEMMA TermCallbackEnds ==
  ASSUME TermInv, NEW op \in termOps, TermCallback(op)
  PROVE  (Forgotten \/ CallsBack(op)) /\ Others
<1>1. CASE Forgotten
  BY <1>1, ForgottenOthers
<1>2. CASE /\ op.caller = 0 /\ op.step # "failed"
           /\ Term!Callback(op) /\ EnterCluster /\ UNCHANGED voteVars
  <2>1. /\ phase = "write" /\ phase' = "started"
        /\ UNCHANGED <<votedFor, voteInSync, responses, boot>>
    BY <1>2 DEF EnterCluster, TermInv, IInv, CallersInv, voteVars
  <2>2. \A slot \in Slots : responses[slot].awaits = "nothing"
    BY <2>1 DEF TermInv, IInv, CallersInv
  <2>3. Others
    BY <2>1, <2>2 DEF Others, TermInv, ValueInv, StartInv
  <2>4. op.step = "done"
    BY <1>2 DEF Term!Callback
  <2> QED BY <1>2, <2>1, <2>3, <2>4 DEF CallsBack
<1>3. CASE /\ op.caller # 0 /\ Term!Callback(op)
           /\ WriteEnds(op.caller, op.step = "failed", IF voteInSync THEN "socket" ELSE "vote")
           /\ UNCHANGED <<voteVars, phase, boot>>
  <2>1. /\ op.caller \in Slots /\ responses[op.caller].awaits = "term"
        /\ termOps' = termOps \ {op}
    BY <1>3 DEF Term!Callback, TermInv, IInv, CallersInv
  <2>2. responses \in [Slots -> Response]
    BY DEF TermInv, IInv, Types
  <2>3. /\ responses'[op.caller].awaits # "term"
        /\ \A other \in Slots \ {op.caller} : responses'[other] = responses[other]
    <3>1. CASE responses' = [responses EXCEPT ![op.caller] = NoResponse]
      BY <2>1, <2>2, <3>1 DEF NoResponse
    <3>2. CASE responses' = [responses EXCEPT ![op.caller].awaits =
                               IF voteInSync THEN "socket" ELSE "vote"]
      BY <2>1, <2>2, <3>2 DEF Response
    <3> QED BY <1>3, <3>1, <3>2 DEF WriteEnds, Drop, Advance
  <2>4. Others
    BY <1>3, <2>1, <2>3 DEF Others, TermInv, ValueInv, StartInv, voteVars
  <2> QED BY <1>3, <2>4 DEF CallsBack
<1> QED BY <1>1, <1>2, <1>3 DEF TermCallback

LEMMA StepsOfTheTerm ==
  ASSUME TermInv, Next
  PROVE  TermStep /\ Others /\ Recorded
<1>1. CASE Boot
  BY <1>1, BootWaits DEF TermStep, Next
<1>2. CASE Crash
  BY <1>2, ForgottenOthers DEF Crash, TermStep, Next
<1>3. CASE Stop
  BY <1>3, StopWaits DEF TermStep, Next
<1>4. CASE Callbacks
  <2>1. CASE ReadFails
    BY <2>1, ForgottenOthers DEF ReadFails, TermStep, Next
  <2>2. CASE \E op \in termOps : TermCallback(op)
    BY <2>2, TermCallbackEnds DEF TermStep, Next
  <2>3. CASE \E slot \in Slots : VoteCallback(slot) \/ SendEnds(slot)
    BY <2>3, VoteCallbackWaits, SendWaits DEF TermStep, Next
  <2> QED BY <1>4, <2>1, <2>2, <2>3, AccessMoves, ReadMoves DEF Callbacks, TermStep, Next
<1>5. CASE FileSteps
  BY <1>5, FileStepGoes DEF FileSteps, TermStep, Next
<1>6. CASE Receive
  BY <1>6, ReceiveRuns DEF TermStep, Next
<1>7. CASE Timeout
  BY <1>7, TimeoutWaits DEF TermStep, Next
<1>8. CASE Visit
  BY <1>8, VisitRuns DEF TermStep, Next
<1> QED BY <1>1, <1>2, <1>3, <1>4, <1>5, <1>6, <1>7, <1>8 DEF Next

-----------------------------------------------------------------------------
(* These steps keep the invariant.                                          *)
LEMMA BeginsIs ==
  ASSUME TermInv, NEW caller, Begins(caller), currentTerm' \in Nat \cup {NaN}
  PROVE  /\ IsFiniteSet(termOps') /\ termOps \subseteq termOps'
         /\ \A op \in termOps' : op \in termOps \/ op = NewWrite(caller)
         /\ NewWrite(caller).text \in Text /\ NewWrite(caller).step = "open"
         /\ NewWrite(caller).caller = caller
         /\ NewWrite(caller).text = SerializeInteger(currentTerm')
         /\ currentTerm' = NaN => NewWrite(caller).text = <<NotADigit>>
<1>1. PICK n \in Nat \cup {NaN} : n = currentTerm'
  OBVIOUS
<1>2. SerializeInteger(n) \in Text /\ (n = NaN => SerializeInteger(n) = <<NotADigit>>)
  BY SerializedIs
<1>3. termOps' = termOps \cup {NewWrite(caller)} /\ IsFiniteSet(termOps)
  BY DEF Begins, TermInv, ValueInv
<1>4. IsFiniteSet(termOps')
  BY <1>3, FS_AddElement
<1> QED BY <1>1, <1>2, <1>3, <1>4 DEF NewWrite

(* One write that goes on.                                                  *)
LEMMA AtIs ==
  ASSUME TermInv, NEW op \in termOps, NEW step, termOps' = Term!At(op, step)
  PROVE  LET new == [caller |-> op.caller, text |-> op.text, step |-> step] IN
         /\ IsFiniteSet(termOps')
         /\ termOps' = (termOps \ {op}) \cup {new}
<1> DEFINE new == [caller |-> op.caller, text |-> op.text, step |-> step]
<1>1. op = [caller |-> op.caller, text |-> op.text, step |-> op.step]
  BY DEF TermInv, IInv, CallersInv
<1>2. [op EXCEPT !.step = step] = new
  BY <1>1
<1>3. termOps' = (termOps \ {op}) \cup {new}
  BY <1>2 DEF Term!At
<1>4. IsFiniteSet(termOps) /\ IsFiniteSet(termOps \ {op})
  BY FS_RemoveElement DEF TermInv, ValueInv
<1>5. IsFiniteSet((termOps \ {op}) \cup {new})
  BY <1>4, FS_AddElement
<1> QED BY <1>3, <1>5

LEMMA TermStepKeepsValues ==
  ASSUME TermInv, TermStep, Others
  PROVE  ValueInv' /\ StartInv'
<1> USE DEF Others
<1>1. CASE Forgotten
  <2>1. /\ currentTerm' = Null /\ termInSync' = FALSE /\ termOps' = {} /\ phase' = "off"
        /\ UNCHANGED <<termFile, boot>> /\ votedFor' = Null
    BY <1>1 DEF Forgotten, Term!Forget, SetVote
  <2>2. IsFiniteSet({})
    BY FS_EmptySet
  <2>3. ValueInv'
    BY <2>1, <2>2 DEF ValueInv, TermInv
  <2>4. StartInv'
    BY <2>1, ValuesAssumption DEF StartInv
  <2> QED BY <2>3, <2>4
<1>2. CASE Waits
  <2>1. UNCHANGED <<currentTerm, termInSync, termFile, termOps>>
    BY <1>2 DEF Waits, termVars
  <2>2. ValueInv'
    BY <1>2, <2>1 DEF ValueInv, TermInv, Waits
  <2>3. StartInv'
    BY <1>2, <2>1 DEF StartInv, TermInv, Waits
  <2> QED BY <2>2, <2>3
<1>3. CASE Runs
  <2>1. /\ phase = "started" /\ UNCHANGED <<phase, termFile, boot>> /\ TermMoves
        /\ UNCHANGED termOps \/ \E slot \in Slots : Begins(slot)
    BY <1>3 DEF Runs
  <2>2. currentTerm \in Nat \cup {NaN}
    BY <2>1, InCluster_HasTerm
  <2>3. /\ currentTerm' \in Nat \cup {NaN} /\ termInSync' \in BOOLEAN
        /\ currentTerm' = NaN => currentTerm = NaN
    BY <2>1, <2>2, ValuesAssumption DEF TermMoves, TermInv, ValueInv
  <2>4. currentTerm' # Null
    BY <2>3, ValuesAssumption
  <2>5. CASE UNCHANGED termOps
    <3>1. ValueInv'
      BY <2>1, <2>3, <2>5 DEF ValueInv, TermInv
    <3>2. StartInv'
      BY <2>1, <2>3, <2>4, <2>5 DEF StartInv, TermInv
    <3> QED BY <3>1, <3>2
  <2>6. CASE \E slot \in Slots : Begins(slot)
    <3>1. PICK slot \in Slots : Begins(slot)
      BY <2>6
    <3>2. PICK new : new = NewWrite(slot)
      OBVIOUS
    <3>3. /\ IsFiniteSet(termOps') /\ termOps \subseteq termOps'
          /\ \A op \in termOps' : op \in termOps \/ op = new
          /\ new.text \in Text /\ new.step = "open"
          /\ currentTerm' = NaN => new.text = <<NotADigit>>
      BY <2>3, <3>1, <3>2, BeginsIs
    <3>4. ValueInv'
      BY <2>1, <2>3, <3>3 DEF ValueInv, TermInv
    <3>5. StartInv'
      BY <2>1, <2>3, <2>4, <3>3 DEF StartInv, TermInv
    <3> QED BY <3>4, <3>5
  <2> QED BY <2>1, <2>5, <2>6
<1>4. CASE Creates
  <2>1. /\ phase = "access" /\ phase' = "write" /\ UNCHANGED <<termFile, boot>>
        /\ currentTerm' = 0 /\ termInSync' = FALSE /\ Begins(0)
    BY <1>4 DEF Creates
  <2>2. currentTerm' \in Nat \cup {NaN} /\ currentTerm' # Null /\ currentTerm' # NaN
    BY <2>1, ValuesAssumption
  <2>3. PICK new : new = NewWrite(0)
    OBVIOUS
  <2>4. /\ IsFiniteSet(termOps')
        /\ \A op \in termOps' : op \in termOps \/ op = new
        /\ new.text \in Text /\ new.step = "open"
    BY <2>1, <2>2, <2>3, BeginsIs
  <2>5. ValueInv'
    BY <2>1, <2>2, <2>4 DEF ValueInv, TermInv
  <2>6. StartInv'
    BY <2>1, <2>2 DEF StartInv
  <2> QED BY <2>5, <2>6
<1>5. CASE Reads
  <2>1. /\ phase = "read" /\ phase' = "started" /\ termInSync' = TRUE
        /\ currentTerm' = DeserializeInteger(termFile)
        /\ UNCHANGED <<termFile, termOps, boot>>
    BY <1>5 DEF Reads, Term!Read
  <2>2. termFile \in Text /\ termOps = {}
    BY <2>1 DEF TermInv, ValueInv, StartInv
  <2>3. DeserializeInteger(termFile) \in Nat \cup {NaN}
    BY <2>2, DeserializedIs
  <2>4. currentTerm' \in Nat \cup {NaN} /\ currentTerm' # Null
    BY <2>1, <2>3, ValuesAssumption
  <2>5. ValueInv'
    BY <2>1, <2>4 DEF ValueInv, TermInv
  <2>6. StartInv'
    BY <2>1, <2>2, <2>4 DEF StartInv
  <2> QED BY <2>5, <2>6
<1>6. ASSUME NEW op \in termOps, CallsBack(op) PROVE ValueInv' /\ StartInv'
  <2>1. /\ termInSync' = TRUE /\ termOps' = termOps \ {op}
        /\ UNCHANGED <<currentTerm, termFile, boot>>
        /\ UNCHANGED phase \/ (phase = "write" /\ phase' = "started")
    BY <1>6 DEF CallsBack, Term!Callback
  <2>2. IsFiniteSet(termOps')
    BY <2>1, FS_RemoveElement DEF TermInv, ValueInv
  <2>3. ValueInv'
    BY <2>1, <2>2 DEF ValueInv, TermInv
  <2>4. StartInv'
    BY <2>1 DEF StartInv, TermInv
  <2> QED BY <2>3, <2>4
<1>7. ASSUME NEW op \in termOps, Goes(op) PROVE ValueInv' /\ StartInv'
  <2>1. /\ UNCHANGED <<currentTerm, termInSync, phase, boot>>
        /\ Term!Truncate(op) \/ Term!Put(op) \/ Term!Fail(op)
    BY <1>7 DEF Goes, Term!Truncate, Term!Put, Term!Fail
  <2>2. op.text \in Text /\ (op.step = "put" => termFile \in Text)
    BY DEF TermInv, ValueInv
  <2>3. /\ termFile' \in Text \/ UNCHANGED termFile
        /\ \E step \in {"put", "done", "failed"} :
             /\ termOps' = Term!At(op, step)
             /\ step \in {"put", "done"} => termFile' \in Text
    <3>1. CASE Term!Truncate(op)
      BY <3>1, DigitsAreText DEF Term!Truncate
    <3>2. CASE Term!Put(op)
      BY <2>2, <3>2, OverlayIs DEF Term!Put
    <3>3. CASE Term!Fail(op)
      <4>1. CASE UNCHANGED termFile
        BY <3>3, <4>1 DEF Term!Fail
      <4>2. CASE /\ op.step = "put"
                 /\ \E n \in 0..Len(op.text) :
                      termFile' = Term!Overlay(termFile, SubSeq(op.text, 1, n))
        <5>1. PICK n \in 0..Len(op.text) :
                termFile' = Term!Overlay(termFile, SubSeq(op.text, 1, n))
          BY <4>2
        <5>2. SubSeq(op.text, 1, n) \in Text
          BY <2>2, <5>1 DEF Text
        <5>3. Term!Overlay(termFile, SubSeq(op.text, 1, n)) \in Text
          BY <2>2, <4>2, <5>2, OverlayIs
        <5> QED BY <3>3, <5>1, <5>3 DEF Term!Fail
      <4> QED BY <3>3, <4>1, <4>2 DEF Term!Fail
    <3> QED BY <2>1, <3>1, <3>2, <3>3
  <2>4. PICK step \in {"put", "done", "failed"} :
          /\ termOps' = Term!At(op, step)
          /\ step \in {"put", "done"} => termFile' \in Text
    BY <2>3
  <2>5. PICK new : new = [caller |-> op.caller, text |-> op.text, step |-> step]
    OBVIOUS
  <2>6. /\ IsFiniteSet(termOps') /\ termOps' = (termOps \ {op}) \cup {new}
        /\ new.step = step /\ new.text = op.text
    BY <2>4, <2>5, AtIs
  <2>7. termFile # Absent => termFile' # Absent
    BY <2>3, DigitsAreText
  <2>8. step \in {"put", "done"} => termFile' # Absent
    BY <2>4, DigitsAreText
  <2>9. /\ termFile' \in Text \cup {Absent}
        /\ \A other \in termOps' :
             /\ other.text \in Text /\ other.step \in {"open", "put", "done", "failed"}
             /\ other.step \in {"put", "done"} => termFile' # Absent
    BY <2>2, <2>3, <2>6, <2>7, <2>8 DEF TermInv, ValueInv
  <2>10. ValueInv'
    BY <2>1, <2>6, <2>9 DEF ValueInv, TermInv
  <2>11. StartInv'
    BY <2>1, <2>6, <2>7 DEF StartInv, TermInv
  <2> QED BY <2>10, <2>11
<1> QED BY <1>1, <1>2, <1>3, <1>4, <1>5, <1>6, <1>7 DEF TermStep

LEMMA TermInitially == Init => TermInv
<1> SUFFICES ASSUME Init PROVE TermInv
  OBVIOUS
<1>1. /\ currentTerm = Null /\ termInSync = FALSE /\ termOps = {}
      /\ termFile \in {Absent, <<>>} \cup {SerializeInteger(n) : n \in 1..2}
      /\ votedFor = Null /\ voteInSync = FALSE /\ phase = "off" /\ boot = 0
      /\ responses = [slot \in Slots |-> [grants |-> FALSE, awaits |-> "nothing", lost |-> FALSE]]
  BY DEF Init, NoResponse
<1>2. termFile \in Text \cup {Absent}
  <2>1. \A n \in Nat : SerializeInteger(n) \in Text
    BY SerializedIs
  <2> QED BY <1>1, <2>1, DigitsAreText
<1>3. ValueInv
  BY <1>1, <1>2, FS_EmptySet DEF ValueInv
<1>4. StartInv
  BY <1>1, ValuesAssumption DEF StartInv
<1> QED BY <1>3, <1>4, InitInv DEF TermInv

LEMMA TermInvStep ==
  ASSUME TermInv, [Next]_vars
  PROVE  TermInv'
<1>1. IInv'
  BY NextKeepsInv DEF TermInv
<1>2. CASE Next
  BY <1>1, <1>2, StepsOfTheTerm, TermStepKeepsValues DEF TermInv
<1>3. CASE UNCHANGED vars
  BY <1>1, <1>3 DEF vars, termVars, voteVars, serverVars, TermInv, ValueInv, StartInv
<1> QED BY <1>2, <1>3

LEMMA TermInvariant == Spec => []TermInv
<1> QED BY TermInitially, TermInvStep, PTL DEF Spec

(* For every number of listeners, responses and terms: the types, and that  *)
(* a server which has entered the cluster has a term, if only NaN           *)
(* (server.ts:170), and holds responses up only as long as their writes     *)
(* are under way.                                                           *)
THEOREM ProcessTypes == Spec => []ProcessTypeOK
<1>1. TermInv => ProcessTypeOK
  <2> SUFFICES ASSUME TermInv PROVE ProcessTypeOK
    OBVIOUS
  <2>1. /\ currentTerm \in Nat \cup {Null, NaN} /\ termInSync \in BOOLEAN
        /\ votedFor \in {Null, Self} /\ voteInSync \in BOOLEAN
        /\ phase = "started" => currentTerm # Null
    BY DEF TermInv, ValueInv, StartInv
  <2>2. termFile = Absent \/ \A i \in 1..Len(termFile) : termFile[i] \in 0..NotADigit
    <3>1. \A text \in Text : \A i \in 1..Len(text) : text[i] \in Character
      <4>1. \A text \in Seq(Character) : \A i \in 1..Len(text) : text[i] \in Character
        OBVIOUS
      <4> QED BY <4>1 DEF Text
    <3> QED BY <3>1 DEF TermInv, ValueInv, Character
  <2>3. \A op \in termOps :
          op.caller \in Slots \cup {0} /\ op.step \in {"open", "put", "done", "failed"}
    BY DEF TermInv, ValueInv, IInv, CallersInv
  <2>4. /\ running \in BOOLEAN /\ interval \in BOOLEAN /\ receiving \in BOOLEAN
        /\ phase \in {"off", "access", "read", "write", "started"}
        /\ role \in {"noop", "follower", "candidate", "leader"}
    BY DEF TermInv, IInv, Types
  <2>5. visiting \in 0..Len(listeners)
    BY DEF TermInv, IInv, Types, VisitInv, Idle
  <2>6. \A slot \in Slots :
          /\ responses[slot].awaits \in {"nothing", "term", "vote", "socket"}
          /\ responses[slot].awaits = "term" <=> \E op \in termOps : op.caller = slot
    <3>1. \A slot \in Slots : responses[slot] \in Response
      BY DEF TermInv, IInv, Types
    <3> QED BY <3>1, SlotsAssumption DEF Response, TermInv, IInv, CallersInv, StartInv
  <2> QED BY <2>1, <2>2, <2>3, <2>4, <2>5, <2>6 DEF ProcessTypeOK
<1> QED BY <1>1, TermInvariant, PTL

-----------------------------------------------------------------------------
(* The texts that terms up to n have in a file.                             *)
TermTexts(n) == {<<NotADigit>>} \cup {DigitsOf[m] : m \in 0..n}

(* No write is of more digits than the highest term has, and so is no file. *)
FileInv ==
  /\ history.highest \in Nat
  /\ currentTerm \in Nat => currentTerm <= history.highest
  /\ \A op \in termOps : op.text \in TermTexts(history.highest)
  /\ Len(TextIn(termFile)) <= Len(DigitsOf[history.highest])

(* As long as all writes under way are of one width, each leaves its text.  *)
OrderedInv ==
  ~ history.mixed =>
    /\ \A op, other \in termOps : Len(op.text) = Len(other.text)
    /\ \A op \in termOps :
         op.step = "put" => termFile = <<>> \/ Len(termFile) = Len(op.text)
    /\ TextIn(termFile) \in {<<>>} \cup TermTexts(history.highest)

LEMMA TermTextsAre ==
  ASSUME NEW n \in Nat, NEW text \in TermTexts(n)
  PROVE  /\ text \in Text /\ Len(text) <= Len(DigitsOf[n])
         /\ \A m \in Nat : m >= n => text \in TermTexts(m)
<1>1. CASE text = <<NotADigit>>
  <2>1. Len(text) = 1
    BY <1>1
  <2>2. Len(DigitsOf[n]) >= 1 /\ Len(DigitsOf[n]) \in Nat
    BY DigitsOfType
  <2>3. text \in Text
    BY <1>1, DigitsAreText
  <2>4. \A m \in Nat : text \in TermTexts(m)
    BY <1>1 DEF TermTexts
  <2> QED BY <2>1, <2>2, <2>3, <2>4
<1>2. CASE \E k \in 0..n : text = DigitsOf[k]
  <2>1. PICK k \in 0..n : text = DigitsOf[k]
    BY <1>2
  <2>2. k \in Nat /\ k <= n
    BY <2>1
  <2>3. text \in Text
    BY <2>1, <2>2, DigitsOfType, DigitsAreText
  <2>4. Len(text) <= Len(DigitsOf[n])
    BY <2>1, LaterTermsAreNoShorter
  <2>5. \A m \in Nat : m >= n => text \in TermTexts(m)
    <3> SUFFICES ASSUME NEW m \in Nat, m >= n PROVE text \in TermTexts(m)
      OBVIOUS
    <3>1. k \in 0..m
      BY <2>2
    <3> QED BY <2>1, <3>1 DEF TermTexts
  <2> QED BY <2>3, <2>4, <2>5
<1> QED BY <1>1, <1>2 DEF TermTexts

LEMMA SerializedTexts ==
  ASSUME NEW n \in Nat \cup {NaN}, NEW highest \in Nat, n \in Nat => n <= highest
  PROVE  SerializeInteger(n) \in TermTexts(highest)
<1>1. CASE n = NaN
  BY <1>1, SerializedIs DEF TermTexts
<1>2. CASE n \in Nat
  <2>1. n \in 0..highest
    BY <1>2
  <2> QED BY <1>2, <2>1, SerializedIs DEF TermTexts
<1> QED BY <1>1, <1>2

(* What Recorded notes.                                                     *)
LEMMA HighestAfter ==
  ASSUME TermInv, FileInv, TermInv', Recorded
  PROVE  /\ history'.highest \in Nat /\ history'.highest >= history.highest
         /\ currentTerm' \in Nat => currentTerm' <= history'.highest
<1>1. PICK high \in Nat : high = history.highest
  BY DEF FileInv
<1>2. PICK now : now = currentTerm'
  OBVIOUS
<1>3. history'.highest = IF now \in {Null, NaN} \/ now <= high THEN high ELSE now
  BY <1>1, <1>2 DEF Recorded
<1>4. now \in Nat \cup {Null, NaN}
  BY <1>2 DEF TermInv, ValueInv
<1>5. now \in Nat => now # Null /\ now # NaN
  BY ValuesAssumption
<1>6. /\ history'.highest \in Nat /\ history'.highest >= high
      /\ now \in Nat => now <= history'.highest
  BY <1>3, <1>4, <1>5
<1> QED BY <1>1, <1>2, <1>6

LEMMA MixedAfter ==
  ASSUME Recorded, ~ history'.mixed
  PROVE  /\ ~ history.mixed
         /\ \A op \in termOps' : op.step # "failed"
         /\ \A op, other \in termOps' : Len(op.text) = Len(other.text)
  BY DEF Recorded, Fails

(* Where the writes after a step come from, and the file.                   *)
LEMMA WritesAfter ==
  ASSUME TermInv, TermInv', TermStep
  PROVE  \A op \in termOps' :
           \/ \E old \in termOps : op.text = old.text
           \/ currentTerm' \in Nat \cup {NaN} /\ op.text = SerializeInteger(currentTerm')
<1>1. CASE Forgotten
  BY <1>1 DEF Forgotten, Term!Forget
<1>2. CASE UNCHANGED termOps
  BY <1>2
<1>3. CASE \E caller : Begins(caller)
  <2>1. PICK caller : Begins(caller)
    BY <1>3
  <2>2. termOps' = termOps \cup {NewWrite(caller)}
    BY <2>1 DEF Begins
  <2>3. NewWrite(caller).text = SerializeInteger(currentTerm')
    BY DEF NewWrite
  <2>4. currentTerm' \in Nat \cup {NaN}
    <3>1. termOps' # {}
      BY <2>2
    <3> QED BY <3>1 DEF TermInv, ValueInv, StartInv
  <2> QED BY <2>2, <2>3, <2>4
<1>4. CASE \E op \in termOps : CallsBack(op)
  BY <1>4 DEF CallsBack, Term!Callback
<1>5. CASE \E op \in termOps : Goes(op)
  <2>1. PICK op \in termOps : Goes(op)
    BY <1>5
  <2>2. PICK step : termOps' = Term!At(op, step)
    BY <2>1 DEF Goes, Term!Truncate, Term!Put, Term!Fail
  <2>3. PICK new : new = [caller |-> op.caller, text |-> op.text, step |-> step]
    OBVIOUS
  <2>4. termOps' = (termOps \ {op}) \cup {new} /\ new.text = op.text
    BY <2>2, <2>3, AtIs
  <2> QED BY <2>4
<1> QED BY <1>1, <1>2, <1>3, <1>4, <1>5 DEF TermStep, Waits, Runs, Creates, Reads, termVars

LEMMA FileAfter ==
  ASSUME TermInv, TermStep
  PROVE  \/ UNCHANGED termFile
         \/ \E op \in termOps : Goes(op)
  BY DEF TermStep, Forgotten, Term!Forget, Waits, termVars, Runs, Creates, Reads, CallsBack,
         Term!Callback

(* A write in progress puts no more into the file than there was or than its*)
(* text has.                                                                *)
LEMMA PutLengths ==
  ASSUME TermInv, NEW op \in termOps, Goes(op), ~ UNCHANGED termFile
  PROVE  /\ termFile' \in Text
         /\ \/ Len(termFile') <= Len(TextIn(termFile))
            \/ Len(termFile') <= Len(op.text)
<1>1. op.text \in Text /\ (op.step = "put" => termFile \in Text /\ TextIn(termFile) = termFile)
  BY DigitsAreText DEF TermInv, ValueInv, TextIn
<1>2. CASE Term!Truncate(op)
  <2>1. termFile' = <<>> /\ Len(termFile') = 0 /\ Len(op.text) \in Nat
    BY <1>1, <1>2 DEF Term!Truncate, Text
  <2> QED BY <2>1, DigitsAreText
<1>3. CASE Term!Put(op)
  <2>1. /\ termFile' \in Text
        /\ Len(termFile') = IF Len(op.text) >= Len(termFile) THEN Len(op.text) ELSE Len(termFile)
    BY <1>1, <1>3, OverlayIs DEF Term!Put
  <2>2. Len(op.text) \in Nat /\ Len(termFile) \in Nat
    BY <1>1, <1>3 DEF Text, Term!Put
  <2> QED BY <1>1, <1>3, <2>1, <2>2 DEF Term!Put
<1>4. CASE Term!Fail(op)
  <2>1. PICK n \in 0..Len(op.text) : termFile' = Term!Overlay(termFile, SubSeq(op.text, 1, n))
    BY <1>4 DEF Term!Fail
  <2>2. SubSeq(op.text, 1, n) \in Text /\ Len(SubSeq(op.text, 1, n)) = n
    BY <1>1, <2>1 DEF Text
  <2>3. PICK piece \in Text : piece = SubSeq(op.text, 1, n) /\ Len(piece) = n
    BY <2>2
  <2>4. op.step = "put" /\ termFile \in Text
    BY <1>1, <1>4 DEF Term!Fail
  <2>5. /\ termFile' \in Text
        /\ Len(termFile') = IF n >= Len(termFile) THEN n ELSE Len(termFile)
    BY <2>1, <2>3, <2>4, OverlayIs
  <2>6. Len(op.text) \in Nat /\ Len(termFile) \in Nat
    BY <1>1, <2>4 DEF Text
  <2> QED BY <1>1, <2>1, <2>4, <2>5, <2>6
<1> QED BY <1>2, <1>3, <1>4 DEF Goes

LEMMA FileInvStep ==
  ASSUME TermInv, FileInv, TermInv', TermStep, Recorded
  PROVE  FileInv'
<1>1. PICK high \in Nat : high = history.highest
  BY DEF FileInv
<1>2. PICK higher \in Nat : higher = history'.highest
  BY HighestAfter
<1>3. higher >= high /\ (currentTerm' \in Nat => currentTerm' <= higher)
  BY <1>1, <1>2, HighestAfter
<1>4. \A op \in termOps : op.text \in TermTexts(high)
  BY <1>1 DEF FileInv
<1>5. \A op \in termOps' : op.text \in TermTexts(higher)
  <2> SUFFICES ASSUME NEW op \in termOps' PROVE op.text \in TermTexts(higher)
    OBVIOUS
  <2>1. ASSUME NEW old \in termOps, op.text = old.text PROVE op.text \in TermTexts(higher)
    BY <1>3, <1>4, <2>1, TermTextsAre
  <2>2. CASE currentTerm' \in Nat \cup {NaN} /\ op.text = SerializeInteger(currentTerm')
    <3>1. PICK now \in Nat \cup {NaN} : now = currentTerm'
      BY <2>2
    <3> QED BY <1>3, <2>2, <3>1, SerializedTexts
  <2> QED BY <2>1, <2>2, WritesAfter
<1>6. Len(TextIn(termFile)) <= Len(DigitsOf[high]) /\ Len(DigitsOf[high]) <= Len(DigitsOf[higher])
  <2>1. high \in 0..higher
    BY <1>3
  <2> QED BY <1>1, <2>1, LaterTermsAreNoShorter DEF FileInv
<1>7. TextIn(termFile) \in Text
  BY DigitsAreText DEF TextIn, TermInv, ValueInv
<1>8. Len(DigitsOf[high]) \in Nat /\ Len(DigitsOf[higher]) \in Nat /\ Len(TextIn(termFile)) \in Nat
  BY <1>7, DigitsOfType DEF Text
<1>9. Len(TextIn(termFile)') <= Len(DigitsOf[higher])
  <2>1. CASE UNCHANGED termFile
    <3>1. TextIn(termFile)' = TextIn(termFile)
      BY <2>1 DEF TextIn
    <3> QED BY <1>6, <1>8, <3>1
  <2>2. ASSUME NEW op \in termOps, Goes(op), ~ UNCHANGED termFile
        PROVE  Len(TextIn(termFile)') <= Len(DigitsOf[higher])
    <3>1. /\ termFile' \in Text
          /\ Len(termFile') <= Len(TextIn(termFile)) \/ Len(termFile') <= Len(op.text)
      BY <2>2, PutLengths
    <3>2. TextIn(termFile)' = termFile' /\ Len(termFile') \in Nat
      BY <3>1, DigitsAreText DEF TextIn, Text
    <3>3. op.text \in Text /\ Len(op.text) <= Len(DigitsOf[high])
      BY <1>4, TermTextsAre
    <3>4. Len(op.text) \in Nat
      BY <3>3 DEF Text
    <3> QED BY <1>6, <1>8, <3>1, <3>2, <3>3, <3>4
  <2> QED BY <2>1, <2>2, FileAfter
<1> QED BY <1>2, <1>3, <1>5, <1>9 DEF FileInv

(* Only a truncation makes a write ready to put its text.                   *)
LEMMA PutsAfter ==
  ASSUME TermInv, TermStep, UNCHANGED termFile, ~ \E op \in termOps : Goes(op)
  PROVE  \A op \in termOps' : op.step = "put" => op \in termOps
<1>1. CASE \E caller : Begins(caller)
  <2>1. PICK caller : Begins(caller)
    BY <1>1
  <2>2. termOps' = termOps \cup {NewWrite(caller)} /\ NewWrite(caller).step = "open"
    BY <2>1 DEF Begins, NewWrite
  <2> QED BY <2>2
<1>2. CASE termOps' \subseteq termOps
  BY <1>2
<1> QED BY <1>1, <1>2 DEF TermStep, Forgotten, Term!Forget, Waits, termVars, Runs, Creates, Reads,
                          CallsBack, Term!Callback

LEMMA OrderedInvStep ==
  ASSUME TermInv, FileInv, OrderedInv, TermInv', FileInv', TermStep, Recorded
  PROVE  OrderedInv'
<1> SUFFICES ASSUME ~ history'.mixed PROVE OrderedInv'
  BY DEF OrderedInv
<1>1. /\ ~ history.mixed
      /\ \A op \in termOps' : op.step # "failed"
      /\ \A op, other \in termOps' : Len(op.text) = Len(other.text)
  BY MixedAfter
<1>2. /\ \A op, other \in termOps : Len(op.text) = Len(other.text)
      /\ \A op \in termOps :
           op.step = "put" => termFile = <<>> \/ Len(termFile) = Len(op.text)
      /\ TextIn(termFile) \in {<<>>} \cup TermTexts(history.highest)
  BY <1>1 DEF OrderedInv
<1>3. PICK high \in Nat, higher \in Nat : high = history.highest /\ higher = history'.highest
  BY HighestAfter DEF FileInv
<1>4. \A text \in {<<>>} \cup TermTexts(high) : text \in {<<>>} \cup TermTexts(higher)
  BY <1>3, HighestAfter, TermTextsAre
<1>5. CASE UNCHANGED termFile /\ ~ \E op \in termOps : Goes(op)
  <2>1. \A op \in termOps' : op.step = "put" => termFile' = <<>> \/ Len(termFile') = Len(op.text)
    BY <1>2, <1>5, PutsAfter
  <2>2. TextIn(termFile)' \in {<<>>} \cup TermTexts(higher)
    BY <1>2, <1>3, <1>4, <1>5 DEF TextIn
  <2> QED BY <1>1, <1>3, <2>1, <2>2 DEF OrderedInv
<1>6. ASSUME NEW op \in termOps, Goes(op) PROVE OrderedInv'
  <2>1. op.text \in TermTexts(high) /\ op.text \in Text
    BY <1>3, TermTextsAre DEF FileInv
  <2>2. CASE Term!Truncate(op)
    <3>1. termFile' = <<>> /\ TextIn(termFile)' = <<>>
      BY <2>2, DigitsAreText DEF Term!Truncate, TextIn
    <3> QED BY <1>1, <3>1 DEF OrderedInv
  <2>3. CASE Term!Put(op)
    <3>1. /\ op.step = "put" /\ termFile' = Term!Overlay(termFile, op.text)
          /\ termOps' = Term!At(op, "done")
      BY <2>3 DEF Term!Put
    <3>2. termFile \in Text
      BY <3>1 DEF TermInv, ValueInv
    <3>3. Len(termFile) <= Len(op.text)
      <4>1. termFile = <<>> => Len(termFile) = 0
        OBVIOUS
      <4>2. Len(termFile) \in Nat /\ Len(op.text) \in Nat
        BY <2>1, <3>2 DEF Text
      <4> QED BY <1>2, <3>1, <4>1, <4>2
    <3>4. termFile' = op.text
      BY <2>1, <3>1, <3>2, <3>3, OverlayIs
    <3>5. TextIn(termFile)' \in {<<>>} \cup TermTexts(higher)
      BY <1>4, <2>1, <3>4, DigitsAreText DEF TextIn
    <3>6. PICK new : new = [caller |-> op.caller, text |-> op.text, step |-> "done"]
      OBVIOUS
    <3>7. termOps' = (termOps \ {op}) \cup {new} /\ new.text = op.text
      BY <3>1, <3>6, AtIs
    <3>8. \A other \in termOps' : Len(termFile') = Len(other.text)
      BY <1>1, <3>4, <3>7
    <3> QED BY <1>1, <1>3, <3>5, <3>8 DEF OrderedInv
  <2>4. CASE Term!Fail(op)
    <3>1. PICK new : new = [caller |-> op.caller, text |-> op.text, step |-> "failed"]
      OBVIOUS
    <3>2. new \in termOps' /\ new.step = "failed"
      BY <2>4, <3>1, AtIs DEF Term!Fail
    <3> QED BY <1>1, <3>2
  <2> QED BY <1>6, <2>2, <2>3, <2>4 DEF Goes
<1> QED BY <1>5, <1>6, FileAfter

LEMMA FileInitially == Init => FileInv /\ OrderedInv
<1> SUFFICES ASSUME Init PROVE FileInv /\ OrderedInv
  OBVIOUS
<1>1. /\ currentTerm = Null /\ termOps = {} /\ history.mixed = FALSE
      /\ history.highest = IF Len(TextIn(termFile)) = 0 THEN 0 ELSE DeserializeInteger(termFile)
  BY DEF Init
<1>2. currentTerm \notin Nat
  BY <1>1, ValuesAssumption
<1>3. Len(DigitsOf[0]) >= 1 /\ Len(DigitsOf[0]) \in Nat
  BY DigitsOfType
<1>4. CASE termFile \in {Absent, <<>>}
  <2>1. TextIn(termFile) = <<>>
    BY <1>4 DEF TextIn
  <2>2. Len(TextIn(termFile)) = 0
    BY <2>1
  <2>3. history.highest = 0
    BY <1>1, <2>2
  <2> QED BY <1>1, <1>2, <1>3, <2>1, <2>2, <2>3 DEF FileInv, OrderedInv
<1>5. CASE \E n \in 1..2 : termFile = SerializeInteger(n)
  <2>1. PICK n \in 1..2 : termFile = SerializeInteger(n)
    BY <1>5
  <2>2. n \in Nat /\ n \in 0..n
    BY <2>1
  <2>3. /\ termFile \in Text /\ Len(termFile) >= 1 /\ termFile = DigitsOf[n]
        /\ DeserializeInteger(termFile) = n
    BY <2>1, <2>2, SerializedIs
  <2>4. TextIn(termFile) = termFile
    BY <2>3, DigitsAreText DEF TextIn
  <2>5. Len(termFile) \in Nat
    BY <2>3 DEF Text
  <2>6. Len(TextIn(termFile)) # 0
    BY <2>3, <2>4, <2>5
  <2>7. history.highest = n
    BY <1>1, <2>3, <2>6
  <2>8. FileInv
    BY <1>1, <1>2, <2>2, <2>3, <2>4, <2>5, <2>7 DEF FileInv
  <2>9. OrderedInv
    BY <1>1, <2>2, <2>3, <2>4, <2>7 DEF OrderedInv, TermTexts
  <2> QED BY <2>8, <2>9
<1> QED BY <1>4, <1>5 DEF Init

-----------------------------------------------------------------------------
(* A process that writes one unchanging term at a time: the write goes from *)
(* an empty file to its text.                                               *)
QuietInv ==
  history.quiet =>
    /\ \A op, other \in termOps : op = other
    /\ \A op \in termOps :
         /\ op.text = SerializeInteger(currentTerm) /\ ~ termInSync /\ op.step # "failed"
         /\ op.step = "put" => termFile = <<>>
         /\ op.step = "done" => termFile = op.text
    /\ termInSync /\ termOps = {} => Term!Exists /\ DeserializeInteger(termFile) = currentTerm

LEMMA AtMostOne ==
  ASSUME NEW S, IsFiniteSet(S), Cardinality(S) <= 1, NEW x \in S, NEW y \in S
  PROVE  x = y
<1> SUFFICES ASSUME x # y PROVE FALSE
  OBVIOUS
<1>1. IsFiniteSet({x}) /\ Cardinality({x}) = 1
  BY FS_Singleton
<1>2. IsFiniteSet({x} \cup {y}) /\ Cardinality({x} \cup {y}) = 2
  <2>1. y \notin {x}
    OBVIOUS
  <2>2. Cardinality({x} \cup {y}) = Cardinality({x}) + 1
    BY <1>1, <2>1, FS_AddElement
  <2>3. Cardinality({x} \cup {y}) = 2
    BY <1>1, <2>2
  <2>4. IsFiniteSet({x} \cup {y})
    BY <1>1, FS_AddElement
  <2> QED BY <2>3, <2>4
<1>3. ({x} \cup {y}) \subseteq S
  OBVIOUS
<1>4. Cardinality({x} \cup {y}) <= Cardinality(S) /\ Cardinality(S) \in Nat
  BY <1>3, FS_Subset, FS_CardinalityType
<1> QED BY <1>2, <1>4

LEMMA QuietAfter ==
  ASSUME TermInv', Recorded, history'.quiet
  PROVE  \/ boot' # boot
         \/ /\ history.quiet
            /\ \A op \in termOps' : op.step # "failed"
            /\ \A op, other \in termOps' : op = other
            /\ termOps # {} => currentTerm' \in {Null, currentTerm}
<1>1. \/ boot' # boot
      \/ /\ history.quiet /\ ~ Fails
         /\ Cardinality(termOps') <= 1
         /\ termOps # {} => currentTerm' \in {Null, currentTerm}
  BY DEF Recorded
<1>2. IsFiniteSet(termOps')
  BY DEF TermInv, ValueInv
<1>3. Cardinality(termOps') <= 1 => \A op, other \in termOps' : op = other
  BY <1>2, AtMostOne
<1> QED BY <1>1, <1>3 DEF Fails

LEMMA QuietInvStep ==
  ASSUME TermInv, QuietInv, TermInv', TermStep, Recorded
  PROVE  QuietInv'
<1> SUFFICES ASSUME history'.quiet PROVE QuietInv'
  BY DEF QuietInv
<1>1. CASE boot' # boot
  <2>1. Waits /\ phase = "off"
    BY <1>1 DEF TermStep, Forgotten, Waits, Runs, Creates, Reads, CallsBack, Goes
  <2>2. termOps' = {} /\ ~ termInSync'
    BY <2>1 DEF Waits, termVars, TermInv, StartInv
  <2> QED BY <2>2 DEF QuietInv
<1>2. CASE boot' = boot
  <2>1. /\ history.quiet
        /\ \A op \in termOps' : op.step # "failed"
        /\ \A op, other \in termOps' : op = other
        /\ termOps # {} => currentTerm' \in {Null, currentTerm}
    BY <1>2, QuietAfter
  <2>2. /\ \A op, other \in termOps : op = other
        /\ \A op \in termOps :
             /\ op.text = SerializeInteger(currentTerm) /\ ~ termInSync /\ op.step # "failed"
             /\ op.step = "put" => termFile = <<>>
             /\ op.step = "done" => termFile = op.text
        /\ termInSync /\ termOps = {} =>
             Term!Exists /\ DeserializeInteger(termFile) = currentTerm
    BY <2>1 DEF QuietInv
  <2>3. ASSUME NEW caller, Begins(caller), termOps = {} PROVE QuietInv'
    <3>1. termOps' = {NewWrite(caller)} /\ ~ termInSync'
      BY <2>3 DEF Begins
    <3>2. NewWrite(caller).text = SerializeInteger(currentTerm') /\ NewWrite(caller).step = "open"
      BY DEF NewWrite
    <3> QED BY <3>1, <3>2 DEF QuietInv
  <2>4. CASE Forgotten
    <3>1. termOps' = {} /\ ~ termInSync'
      BY <2>4 DEF Forgotten, Term!Forget
    <3> QED BY <3>1 DEF QuietInv
  <2>5. CASE Waits
    BY <2>2, <2>5 DEF Waits, termVars, QuietInv, Term!Exists
  <2>6. CASE Runs
    <3>1. /\ TermMoves /\ UNCHANGED termFile /\ currentTerm' # Null
          /\ UNCHANGED termOps \/ \E slot \in Slots : Begins(slot)
      BY <2>6 DEF Runs, TermInv, StartInv
    <3>2. CASE termOps = {}
      <4>1. CASE UNCHANGED termOps
        <5>1. termInSync' => UNCHANGED <<currentTerm, termInSync>>
          BY <3>1 DEF TermMoves
        <5> QED BY <2>2, <3>1, <3>2, <4>1, <5>1 DEF QuietInv, Term!Exists
      <4> QED BY <2>3, <3>1, <3>2, <4>1
    <3>3. CASE termOps # {}
      <4>1. currentTerm' = currentTerm
        BY <2>1, <3>1, <3>3
      <4>2. ~ termInSync'
        BY <2>2, <3>1, <3>3 DEF TermMoves
      <4>3. termOps' \subseteq termOps
        BY <2>1, <3>1, <3>3 DEF Begins
      <4> QED BY <2>1, <2>2, <3>1, <4>1, <4>2, <4>3 DEF QuietInv
    <3> QED BY <3>2, <3>3
  <2>7. CASE Creates
    <3>1. termOps = {} /\ Begins(0)
      BY <2>7 DEF Creates, TermInv, StartInv
    <3> QED BY <2>3, <3>1
  <2>8. CASE Reads
    <3>1. phase = "read" /\ currentTerm' = DeserializeInteger(termFile) /\ UNCHANGED <<termFile, termOps>>
      BY <2>8 DEF Reads, Term!Read
    <3>2. termOps' = {} /\ termFile # Absent
      BY <3>1 DEF TermInv, StartInv
    <3> QED BY <3>1, <3>2 DEF QuietInv, Term!Exists
  <2>9. ASSUME NEW op \in termOps, CallsBack(op) PROVE QuietInv'
    <3>1. /\ op.step \in {"done", "failed"} /\ termOps' = termOps \ {op}
          /\ UNCHANGED <<currentTerm, termFile>>
      BY <2>9 DEF CallsBack, Term!Callback
    <3>2. termOps' = {} /\ op.step = "done"
      BY <2>2, <3>1
    <3>3. termFile = SerializeInteger(currentTerm) /\ termFile # Absent
      BY <2>2, <3>2 DEF TermInv, ValueInv
    <3>4. currentTerm \in Nat \cup {NaN}
      BY DEF TermInv, ValueInv, StartInv
    <3>5. DeserializeInteger(SerializeInteger(currentTerm)) = currentTerm
      BY <3>4, SerializedIs
    <3> QED BY <3>1, <3>2, <3>3, <3>5 DEF QuietInv, Term!Exists
  <2>10. ASSUME NEW op \in termOps, Goes(op) PROVE QuietInv'
    <3>1. /\ UNCHANGED <<currentTerm, termInSync>> /\ ~ termInSync
          /\ op.text = SerializeInteger(currentTerm)
      BY <2>2, <2>10 DEF Goes, Term!Truncate, Term!Put, Term!Fail
    <3>2. ASSUME NEW step, termOps' = Term!At(op, step)
          PROVE  \E new : /\ termOps' = {new} /\ new.text = op.text /\ new.step = step
      <4>1. PICK new : new = [caller |-> op.caller, text |-> op.text, step |-> step]
        OBVIOUS
      <4>2. termOps' = (termOps \ {op}) \cup {new}
        BY <3>2, <4>1, AtIs
      <4>3. termOps \ {op} = {}
        BY <2>2
      <4> QED BY <4>1, <4>2, <4>3
    <3>3. CASE Term!Truncate(op)
      <4>1. termFile' = <<>> /\ termOps' = Term!At(op, "put")
        BY <3>3 DEF Term!Truncate
      <4>2. PICK new : termOps' = {new} /\ new.text = op.text /\ new.step = "put"
        BY <3>2, <4>1
      <4> QED BY <3>1, <4>1, <4>2 DEF QuietInv
    <3>4. CASE Term!Put(op)
      <4>1. /\ termFile' = Term!Overlay(termFile, op.text) /\ termOps' = Term!At(op, "done")
            /\ termFile = <<>>
        BY <2>2, <3>4 DEF Term!Put
      <4>2. op.text \in Text /\ termFile \in Text /\ Len(termFile) = 0 /\ Len(op.text) \in Nat
        BY <4>1, DigitsAreText DEF TermInv, ValueInv, Text
      <4>3. termFile' = op.text
        BY <4>1, <4>2, OverlayIs
      <4>4. PICK new : termOps' = {new} /\ new.text = op.text /\ new.step = "done"
        BY <3>2, <4>1
      <4> QED BY <3>1, <4>3, <4>4 DEF QuietInv
    <3>5. CASE Term!Fail(op)
      <4>1. PICK new : termOps' = {new} /\ new.step = "failed"
        BY <3>2, <3>5 DEF Term!Fail
      <4> QED BY <2>1, <4>1
    <3> QED BY <2>10, <3>3, <3>4, <3>5 DEF Goes
  <2> QED BY <2>4, <2>5, <2>6, <2>7, <2>8, <2>9, <2>10 DEF TermStep
<1> QED BY <1>1, <1>2

(* Inductive.                                                               *)
WritesInv == TermInv /\ FileInv /\ OrderedInv /\ QuietInv

LEMMA WritesInvStep ==
  ASSUME WritesInv, [Next]_vars
  PROVE  WritesInv'
<1>1. TermInv'
  BY TermInvStep DEF WritesInv
<1>2. CASE Next
  <2>1. TermStep /\ Recorded
    BY <1>2, StepsOfTheTerm DEF WritesInv
  <2>2. FileInv'
    BY <1>1, <2>1, FileInvStep DEF WritesInv
  <2>3. OrderedInv' /\ QuietInv'
    BY <1>1, <2>1, <2>2, OrderedInvStep, QuietInvStep DEF WritesInv
  <2> QED BY <1>1, <2>2, <2>3 DEF WritesInv
<1>3. CASE UNCHANGED vars
  <2>1. UNCHANGED <<currentTerm, termInSync, termFile, termOps, history>>
    BY <1>3 DEF vars, termVars
  <2>2. FileInv' /\ OrderedInv'
    BY <2>1 DEF WritesInv, FileInv, OrderedInv, TextIn
  <2>3. QuietInv'
    BY <2>1 DEF WritesInv, QuietInv, Term!Exists
  <2> QED BY <1>1, <2>2, <2>3 DEF WritesInv
<1> QED BY <1>2, <1>3

LEMMA WritesInvariant == Spec => []WritesInv
<1>1. Init => QuietInv
  BY DEF Init, QuietInv
<1>2. Init => WritesInv
  BY <1>1, TermInitially, FileInitially DEF WritesInv
<1> QED BY <1>2, WritesInvStep, PTL DEF Spec

(* Whatever writes overlap, fail or are cut off by crashes, the file never  *)
(* begins with more digits than the highest term the server was in.  As long*)
(* as none failed and none of different widths overlapped, it is empty, it  *)
(* holds the text NaN, or a number no higher than that term.                *)
THEOREM FileStaysBehind == Spec => []TermFileNotFarAhead
<1>1. WritesInv => TermFileNotFarAhead
  <2> SUFFICES ASSUME WritesInv PROVE TermFileNotFarAhead
    OBVIOUS
  <2>1. PICK text \in Text : text = TextIn(termFile)
    BY DigitsAreText DEF WritesInv, TermInv, ValueInv, TextIn
  <2>2. PICK high \in Nat : high = history.highest
    BY DEF WritesInv, FileInv
  <2>3. LeadingDigits(text) <= Len(DigitsOf[high])
    <3>1. Len(text) <= Len(DigitsOf[high])
      BY <2>1, <2>2 DEF WritesInv, FileInv
    <3>2. LeadingDigits(text) \in 0..Len(text)
      BY LeadingDigitsAre
    <3>3. Len(text) \in Nat /\ Len(DigitsOf[high]) \in Nat
      BY DigitsOfType DEF Text
    <3> QED BY <3>1, <3>2, <3>3
  <2>4. ~ history.mixed => text \in {<<>>} \cup TermTexts(high)
    BY <2>1, <2>2 DEF WritesInv, OrderedInv
  <2> QED BY <2>1, <2>2, <2>3, <2>4 DEF TermFileNotFarAhead, TermTexts
<1> QED BY <1>1, WritesInvariant, PTL

(* For every term and every radix: what a process that writes one term at a *)
(* time counts as in sync is read back from the file as it was.             *)
THEOREM InSyncIsInTheFile == Spec => []QuietFileHoldsTerm
<1>1. WritesInv => QuietFileHoldsTerm
  BY DEF WritesInv, QuietInv, QuietFileHoldsTerm
<1> QED BY <1>1, WritesInvariant, PTL

-----------------------------------------------------------------------------
(* A write of NaN over what reads as NaN.                                   *)
IsNotANumber(text) == text \in Text /\ Len(text) = 1 /\ text[1] = NotADigit

LEMMA NaNOverNaN ==
  ASSUME NEW file \in Text, DeserializeInteger(file) = NaN, NEW text, IsNotANumber(text)
  PROVE  DeserializeInteger(Term!Overlay(file, text)) = NaN
<1>1. text \in Text /\ Len(text) = 1 /\ text[1] = NotADigit
  BY DEF IsNotANumber
<1>2. PICK after \in Text : after = Term!Overlay(file, text)
  BY <1>1, OverlayIs
<1>3. Len(file) \in Nat /\ 1 \in 1..Len(text)
  BY <1>1 DEF Text
<1>4. Len(after) = IF Len(text) >= Len(file) THEN Len(text) ELSE Len(file)
  BY <1>1, <1>2, OverlayIs
<1>5. after[1] = text[1]
  BY <1>1, <1>2, <1>3, OverlayIs
<1>6. Len(after) > 0
  BY <1>1, <1>3, <1>4
<1> QED BY <1>1, <1>2, <1>5, <1>6, NoLeadingDigits, DeserializedIs

LEMMA PieceOfNaN ==
  ASSUME NEW text, IsNotANumber(text), NEW n \in 0..Len(text)
  PROVE  SubSeq(text, 1, n) = <<>> \/ IsNotANumber(SubSeq(text, 1, n))
<1>1. text \in Seq(Character) /\ Len(text) = 1 /\ text[1] = NotADigit
  BY DEF IsNotANumber, Text
<1>2. CASE n = 0
  BY <1>1, <1>2
<1>3. CASE n = 1
  <2>1. SubSeq(text, 1, 1) \in Seq(Character)
    BY <1>1
  <2>2. Len(SubSeq(text, 1, 1)) = 1
    BY <1>1
  <2>3. SubSeq(text, 1, 1)[1] = text[1]
    BY <1>1
  <2> QED BY <1>1, <1>3, <2>1, <2>2, <2>3 DEF IsNotANumber, Text
<1> QED BY <1>1, <1>2, <1>3

(* No step of such a server gets it back to a number.                       *)
LEMMA StaysPoisoned ==
  ASSUME TermInv, TermStep, Poisoned
  PROVE  Poisoned'
<1>1. /\ currentTerm \in {Null, NaN} /\ currentTerm \notin Nat
      /\ termFile \in Text /\ DeserializeInteger(termFile) = NaN
  BY ValuesAssumption DEF Poisoned, Term!Exists, TermInv, ValueInv
<1>2. CASE UNCHANGED termFile /\ currentTerm' \in {Null, NaN}
  BY <1>1, <1>2, DigitsAreText DEF Poisoned, Term!Exists
<1>3. CASE Forgotten
  BY <1>2, <1>3 DEF Forgotten, Term!Forget
<1>4. CASE Waits
  BY <1>1, <1>2, <1>4 DEF Waits, termVars
<1>5. CASE Runs
  BY <1>1, <1>2, <1>5 DEF Runs, TermMoves
<1>6. ~ Creates
  BY <1>1, DigitsAreText DEF Creates
<1>7. CASE Reads
  BY <1>1, <1>2, <1>7 DEF Reads, Term!Read
<1>8. ASSUME NEW op \in termOps, CallsBack(op) PROVE Poisoned'
  BY <1>1, <1>2, <1>8 DEF CallsBack, Term!Callback
<1>9. ASSUME NEW op \in termOps, Goes(op) PROVE Poisoned'
  <2>1. UNCHANGED currentTerm /\ op.text = <<NotADigit>>
    BY <1>1, <1>9 DEF Goes, Term!Truncate, Term!Put, Term!Fail, TermInv, StartInv
  <2>2. PICK text \in Text : text = op.text /\ IsNotANumber(text)
    <3>1. Len(<<NotADigit>>) = 1 /\ <<NotADigit>>[1] = NotADigit
      OBVIOUS
    <3> QED BY <2>1, <3>1, DigitsAreText DEF IsNotANumber
  <2>3. CASE UNCHANGED termFile
    BY <1>1, <2>1, <2>3, DigitsAreText DEF Poisoned, Term!Exists
  <2>4. CASE termFile' = <<>>
    <3>1. DeserializeInteger(<<>>) = NaN
      BY DigitsAreText, DeserializedIs
    <3> QED BY <1>1, <2>1, <2>4, <3>1, DigitsAreText DEF Poisoned, Term!Exists
  <2>5. ASSUME NEW piece, piece = <<>> \/ IsNotANumber(piece),
               termFile' = Term!Overlay(termFile, piece)
        PROVE  Poisoned'
    <3>1. CASE piece = <<>>
      BY <1>1, <2>3, <2>5, <3>1, OverlayIs, DigitsAreText
    <3>2. CASE IsNotANumber(piece)
      <4>1. DeserializeInteger(termFile') = NaN
        BY <1>1, <2>5, <3>2, NaNOverNaN
      <4>2. termFile' \in Text
        BY <1>1, <2>5, <3>2, OverlayIs DEF IsNotANumber
      <4> QED BY <1>1, <2>1, <4>1, <4>2, DigitsAreText DEF Poisoned, Term!Exists
    <3> QED BY <2>5, <3>1, <3>2
  <2>6. CASE Term!Truncate(op)
    BY <2>4, <2>6 DEF Term!Truncate
  <2>7. CASE Term!Put(op)
    BY <2>2, <2>5, <2>7 DEF Term!Put
  <2>8. CASE Term!Fail(op)
    <3>1. CASE \E n \in 0..Len(op.text) : termFile' = Term!Overlay(termFile, SubSeq(op.text, 1, n))
      <4>1. PICK n \in 0..Len(text) : termFile' = Term!Overlay(termFile, SubSeq(text, 1, n))
        BY <2>2, <3>1
      <4>2. SubSeq(text, 1, n) = <<>> \/ IsNotANumber(SubSeq(text, 1, n))
        BY <2>2, PieceOfNaN
      <4> QED BY <2>5, <4>1, <4>2
    <3> QED BY <2>3, <2>8, <3>1 DEF Term!Fail
  <2> QED BY <1>9, <2>6, <2>7, <2>8 DEF Goes
<1> QED BY <1>3, <1>4, <1>5, <1>6, <1>7, <1>8, <1>9 DEF TermStep

(* For every term, radix and number of writes: once the file of a server    *)
(* that is down or has read NaN reads as NaN, it does for ever              *)
(* (storage.ts:126).                                                        *)
THEOREM PoisonIsForGood == Spec => PoisonedForever
<1> DEFINE Step == Poisoned => Poisoned'
<1>1. ASSUME TermInv, [Next]_vars PROVE [Step]_vars
  <2>1. CASE Next
    BY <1>1, <2>1, StepsOfTheTerm, StaysPoisoned
  <2> QED BY <1>1, <2>1
<1> HIDE DEF Step
<1>2. Spec => [][Step]_vars
  BY <1>1, TermInvariant, PTL DEF Spec
<1> QED BY <1>2 DEF Step, PoisonedForever

-----------------------------------------------------------------------------
(* The listeners that will start an election, from a position on.           *)
ElectionsFrom(first, heard) ==
  Cardinality({i \in first..Len(heard) : heard[i] = "candidate"})

(* During a timeout: what is left of it makes up the term it is to end with.*)
TargetInv ==
  ~ Idle =>
    history.target = IF currentTerm = NaN THEN NaN
                     ELSE currentTerm + ElectionsFrom(visiting, listeners)
                                      + (IF role = "candidate" THEN 0 ELSE 2)

Heard == Seq({"follower", "candidate"})

LEMMA ElectionsAre ==
  ASSUME NEW heard \in Heard, NEW first \in Nat
  PROVE  /\ IsFiniteSet({i \in first..Len(heard) : heard[i] = "candidate"})
         /\ ElectionsFrom(first, heard) \in Nat
         /\ first > Len(heard) => ElectionsFrom(first, heard) = 0
<1> DEFINE E == {i \in first..Len(heard) : heard[i] = "candidate"}
<1>1. Len(heard) \in Nat
  BY DEF Heard
<1>2. IsFiniteSet(first..Len(heard))
  BY <1>1, FS_Interval
<1>3. IsFiniteSet(E)
  <2>1. E \subseteq first..Len(heard)
    OBVIOUS
  <2> QED BY <1>2, <2>1, FS_Subset
<1>4. ElectionsFrom(first, heard) = Cardinality(E)
  BY DEF ElectionsFrom
<1>5. first > Len(heard) => E = {}
  BY <1>1
<1> QED BY <1>3, <1>4, <1>5, FS_CardinalityType, FS_EmptySet

LEMMA NextElection ==
  ASSUME NEW heard \in Heard, NEW first \in 1..Len(heard)
  PROVE  ElectionsFrom(first, heard) =
           ElectionsFrom(first + 1, heard) + (IF heard[first] = "candidate" THEN 1 ELSE 0)
<1> DEFINE E == {i \in first..Len(heard) : heard[i] = "candidate"}
           F == {i \in (first + 1)..Len(heard) : heard[i] = "candidate"}
<1>1. Len(heard) \in Nat /\ first \in Nat /\ first + 1 \in Nat
  BY DEF Heard
<1>2. IsFiniteSet(F) /\ Cardinality(F) \in Nat
  BY <1>1, ElectionsAre DEF ElectionsFrom
<1>3. first \notin F
  BY <1>1
<1>4. E = IF heard[first] = "candidate" THEN F \cup {first} ELSE F
  <2>1. \A i : i \in first..Len(heard) <=> i \in (first + 1)..Len(heard) \/ i = first
    BY <1>1
  <2> QED BY <2>1
<1>5. Cardinality(F \cup {first}) = Cardinality(F) + 1
  BY <1>2, <1>3, FS_AddElement
<1>6. Cardinality(E) = Cardinality(F) + (IF heard[first] = "candidate" THEN 1 ELSE 0)
  <2> HIDE DEF E, F
  <2> QED BY <1>2, <1>4, <1>5
<1> QED BY <1>6 DEF ElectionsFrom

LEMMA OneMoreListener ==
  ASSUME NEW heard \in Heard, NEW first \in 1..(Len(heard) + 1)
  PROVE  ElectionsFrom(first, Append(heard, "candidate")) = ElectionsFrom(first, heard) + 1
<1> DEFINE last == Len(heard) + 1
           E == {i \in first..Len(heard) : heard[i] = "candidate"}
           F == {i \in first..last : Append(heard, "candidate")[i] = "candidate"}
<1>1. Len(heard) \in Nat
  BY DEF Heard
<1>2. /\ Len(Append(heard, "candidate")) = last
      /\ Append(heard, "candidate")[last] = "candidate"
      /\ \A i \in 1..Len(heard) : Append(heard, "candidate")[i] = heard[i]
  BY DEF Heard
<1>3. first \in Nat /\ first >= 1
  BY <1>1
<1>4. F = E \cup {last}
  <2>1. \A i : i \in first..last <=> i \in first..Len(heard) \/ i = last
    BY <1>1
  <2>2. \A i \in first..Len(heard) : i \in 1..Len(heard)
    BY <1>1, <1>3
  <2> HIDE DEF last
  <2> QED BY <1>2, <2>1, <2>2
<1>5. last \notin E
  BY <1>1
<1>6. IsFiniteSet(E) /\ Cardinality(E) \in Nat
  BY ElectionsAre DEF ElectionsFrom
<1>7. Cardinality(E \cup {last}) = Cardinality(E) + 1
  BY <1>5, <1>6, FS_AddElement
<1>8. ElectionsFrom(first, heard) = Cardinality(E)
  BY DEF ElectionsFrom
<1>9. ElectionsFrom(first, Append(heard, "candidate")) = Cardinality(F)
  BY <1>2 DEF ElectionsFrom
<1> QED BY <1>4, <1>7, <1>8, <1>9

(* Where a timeout starts and ends, and what goes on meanwhile.             *)
LEMMA VisitOrIdle ==
  ASSUME TermInv, Next
  PROVE  \/ Timeout
         \/ Visit
         \/ visiting' = 0 /\ (Idle \/ phase' = "off")
<1>1. CASE Boot
  BY <1>1 DEF Boot, timerVars, TermInv, IInv, PhaseInv, Idle
<1>2. CASE Forgotten
  BY <1>2 DEF Forgotten
<1>3. CASE Stop
  BY <1>3 DEF Stop, Idle
<1>4. CASE Callbacks
  <2>1. CASE AccessDone
    BY <2>1 DEF AccessDone, timerVars, Idle
  <2>2. CASE ReadDone
    BY <2>2 DEF ReadDone, EnterCluster, Idle
  <2>3. ASSUME NEW op \in termOps, TermCallback(op) PROVE visiting' = 0 /\ Idle
    BY <2>3 DEF TermCallback, Forgotten, EnterCluster, timerVars, Idle
  <2>4. ASSUME NEW slot \in Slots, VoteCallback(slot) \/ SendEnds(slot)
        PROVE  visiting' = 0 /\ Idle
    BY <2>4 DEF VoteCallback, SendEnds, timerVars, Idle
  <2> QED BY <1>2, <1>4, <2>1, <2>2, <2>3, <2>4 DEF Callbacks, ReadFails
<1>5. CASE FileSteps
  BY <1>5 DEF FileSteps, TermFileStep, timerVars, Idle
<1>6. CASE Receive
  BY <1>6 DEF Receive, Win, AppendToFollower, AppendToCandidate, VoteRequest, NewerResponse,
              Received, Idle
<1> QED BY <1>1, <1>2, <1>3, <1>4, <1>5, <1>6 DEF Next, Crash

LEMMA TargetAfter ==
  ASSUME Recorded
  PROVE  visiting' # 0 =>
           history'.target = IF Idle THEN TermAfter(ElectionsDue) ELSE history.target
  BY DEF Recorded

LEMMA TimeoutTarget ==
  ASSUME TermInv, Timeout, Recorded
  PROVE  TargetInv'
<1>1. /\ visiting' = 1 /\ Idle
      /\ UNCHANGED <<currentTerm, listeners, role>>
  BY DEF Timeout, Elapse, termVars, serverVars
<1>2. history'.target = TermAfter(ElectionsDue)
  BY <1>1, TargetAfter
<1>3. listeners \in Heard
  BY DEF Heard, TermInv, IInv, Types
<1>4. CandidateListeners = ElectionsFrom(1, listeners)
  <2>1. DOMAIN listeners = 1..Len(listeners)
    BY <1>3 DEF Heard
  <2> QED BY <2>1 DEF CandidateListeners, ElectionsFrom
<1>5. phase = "started"
  BY DEF Timeout, Elapse, TermInv, IInv, PhaseInv
<1>6. currentTerm \in Nat \cup {NaN}
  BY <1>5, InCluster_HasTerm
<1>7. PICK due \in Nat : due = ElectionsFrom(1, listeners)
  BY <1>3, ElectionsAre
<1>8. PICK now \in Nat \cup {NaN} : now = currentTerm
  BY <1>6
<1>9. TermAfter(ElectionsDue) =
        IF now = NaN THEN NaN ELSE now + due + (IF role = "candidate" THEN 0 ELSE 2)
  <2>1. CASE now = NaN
    BY <1>8, <2>1 DEF TermAfter
  <2>2. CASE now # NaN
    BY <1>4, <1>7, <1>8, <2>2 DEF TermAfter, ElectionsDue
  <2> QED BY <2>1, <2>2
<1> QED BY <1>1, <1>2, <1>7, <1>8, <1>9 DEF TargetInv

(* One listener after the other: those still to come make up what is        *)
(* missing.                                                                 *)
LEMMA VisitTarget ==
  ASSUME TermInv, TargetInv, Visit
  PROVE  /\ role' = "candidate"
         /\ listeners' \in Heard /\ visiting \in Nat /\ visiting + 1 \in Nat
         /\ currentTerm' \in Nat \cup {NaN}
         /\ history.target = IF currentTerm' = NaN THEN NaN
                             ELSE currentTerm' + ElectionsFrom(visiting + 1, listeners')
<1>1. /\ visiting \in 1..Len(listeners) /\ visiting \in Nat /\ visiting + 1 \in Nat
      /\ listeners \in Heard /\ listeners[1] = "follower"
      /\ role # "candidate" => visiting = 1
      /\ Len(listeners) \in Nat
  BY DEF Visit, TermInv, IInv, Types, PhaseInv, VisitInv, Heard
<1>2. PICK v \in Nat : v = visiting
  BY <1>1
<1>3. phase = "started"
  BY DEF Visit, TermInv, IInv, PhaseInv
<1>4. PICK now \in Nat \cup {NaN} : now = currentTerm
  BY <1>3, InCluster_HasTerm
<1>5. PICK due \in Nat : due = ElectionsFrom(v + 1, listeners)
  BY <1>1, <1>2, ElectionsAre
<1>6. ElectionsFrom(v, listeners) = due + (IF listeners[v] = "candidate" THEN 1 ELSE 0)
  BY <1>1, <1>2, <1>5, NextElection
<1>7. PICK target : target = history.target
  OBVIOUS
<1>8. target = IF now = NaN THEN NaN
               ELSE now + (due + (IF listeners[v] = "candidate" THEN 1 ELSE 0))
                        + (IF role = "candidate" THEN 0 ELSE 2)
  BY <1>2, <1>4, <1>6, <1>7 DEF TargetInv, Visit
<1>9. ASSUME StartElection PROVE currentTerm' = IF now = NaN THEN NaN ELSE now + 1
  BY <1>4, <1>9 DEF StartElection, SetTermAndVote, Term!SetValue, TermAfter
<1>10. now \in Nat => now # NaN /\ now + 1 \in Nat /\ now + 1 # NaN
  BY ValuesAssumption
<1>11. CASE VisitFollower /\ role = "candidate"
  <2>1. listeners[v] = "follower" /\ UNCHANGED <<currentTerm, listeners, role>>
    BY <1>2, <1>11 DEF VisitFollower, termVars
  <2>2. target = IF now = NaN THEN NaN ELSE now + due
    BY <1>8, <1>11, <2>1
  <2> QED BY <1>1, <1>2, <1>4, <1>5, <1>7, <1>11, <2>1, <2>2
<1>12. CASE VisitFollower /\ role # "candidate"
  <2>1. /\ listeners[v] = "follower" /\ role' = "candidate"
        /\ listeners' = Append(listeners, "candidate") /\ StartElection
    BY <1>2, <1>12 DEF VisitFollower, On
  <2>2. v + 1 \in 1..(Len(listeners) + 1)
    BY <1>1, <1>2
  <2>3. ElectionsFrom(v + 1, listeners') = due + 1
    BY <1>1, <1>5, <2>1, <2>2, OneMoreListener
  <2>4. listeners' \in Heard
    BY <1>1, <2>1 DEF Heard
  <2>5. target = IF now = NaN THEN NaN ELSE now + due + 2
    BY <1>8, <1>12, <2>1
  <2>6. currentTerm' = IF now = NaN THEN NaN ELSE now + 1
    BY <1>9, <2>1
  <2>7. now \in Nat => now + due + 2 = (now + 1) + (due + 1)
    OBVIOUS
  <2>8. target = IF currentTerm' = NaN THEN NaN ELSE currentTerm' + (due + 1)
    BY <1>10, <2>5, <2>6, <2>7
  <2>9. currentTerm' \in Nat \cup {NaN}
    BY <1>10, <2>6
  <2> QED BY <1>1, <1>2, <1>7, <2>1, <2>3, <2>4, <2>8, <2>9
<1>13. CASE VisitCandidate
  <2>1. listeners[v] = "candidate" /\ StartElection /\ UNCHANGED <<listeners, role>>
    BY <1>2, <1>13 DEF VisitCandidate
  <2>2. role = "candidate"
    BY <1>1, <1>2, <2>1
  <2>3. target = IF now = NaN THEN NaN ELSE now + due + 1
    BY <1>8, <2>1, <2>2
  <2>4. currentTerm' = IF now = NaN THEN NaN ELSE now + 1
    BY <1>9, <2>1
  <2>5. now \in Nat => now + due + 1 = (now + 1) + due
    OBVIOUS
  <2>6. target = IF currentTerm' = NaN THEN NaN ELSE currentTerm' + due
    BY <1>10, <2>3, <2>4, <2>5
  <2>7. currentTerm' \in Nat \cup {NaN}
    BY <1>10, <2>4
  <2> QED BY <1>1, <1>2, <1>5, <1>7, <2>1, <2>2, <2>6, <2>7
<1> QED BY <1>11, <1>12, <1>13 DEF Visit

LEMMA VisitEnds ==
  ASSUME TermInv, TargetInv, Visit, Recorded
  PROVE  /\ TargetInv'
         /\ visiting' = 0 => currentTerm' = history.target
<1>1. /\ role' = "candidate"
      /\ listeners' \in Heard /\ visiting \in Nat /\ visiting + 1 \in Nat
      /\ currentTerm' \in Nat \cup {NaN}
      /\ history.target = IF currentTerm' = NaN THEN NaN
                          ELSE currentTerm' + ElectionsFrom(visiting + 1, listeners')
  BY VisitTarget
<1>2. ~ Idle /\ visiting' = IF visiting < Len(listeners') THEN visiting + 1 ELSE 0
  BY DEF Visit, Visited
<1>3. PICK heard \in Heard : heard = listeners'
  BY <1>1
<1>4. PICK now \in Nat \cup {NaN} : now = currentTerm'
  BY <1>1
<1>5. PICK due \in Nat : due = ElectionsFrom(visiting + 1, heard)
  BY <1>1, ElectionsAre
<1>6. Len(heard) \in Nat
  BY DEF Heard
<1>7. CASE visiting < Len(heard)
  <2>1. visiting' = visiting + 1 /\ visiting' # 0
    BY <1>1, <1>2, <1>3, <1>7
  <2>2. history'.target = history.target
    BY <1>2, <2>1, TargetAfter
  <2>3. now \in Nat => now + due + 0 = now + due
    OBVIOUS
  <2>4. history.target = IF now = NaN THEN NaN ELSE now + due
    BY <1>1, <1>3, <1>4, <1>5
  <2>5. history'.target = IF now = NaN THEN NaN ELSE now + due + 0
    BY <2>2, <2>3, <2>4
  <2>6. ElectionsFrom(visiting, listeners)' = due
    BY <1>3, <1>5, <2>1
  <2> QED BY <1>1, <1>4, <2>1, <2>5, <2>6 DEF TargetInv
<1>8. CASE ~ (visiting < Len(heard))
  <2>1. visiting' = 0 /\ visiting + 1 > Len(heard)
    BY <1>1, <1>2, <1>3, <1>6, <1>8
  <2>2. due = 0
    BY <1>1, <1>5, <2>1, ElectionsAre
  <2>3. history.target = now
    BY <1>1, <1>3, <1>4, <1>5, <2>2
  <2>4. TargetInv'
    BY <2>1 DEF TargetInv, Idle
  <2> QED BY <1>4, <2>3, <2>4
<1> QED BY <1>7, <1>8

LEMMA TargetInvStep ==
  ASSUME TermInv, TargetInv, [Next]_vars
  PROVE  /\ TargetInv'
         /\ ~ Idle /\ visiting' = 0 /\ phase' # "off" => currentTerm' = history.target
<1>1. CASE Next
  <2>1. Recorded
    BY <1>1 DEF Next
  <2>2. CASE Timeout
    BY <2>1, <2>2, TimeoutTarget DEF Timeout
  <2>3. CASE Visit
    BY <2>1, <2>3, VisitEnds
  <2>4. CASE visiting' = 0 /\ (Idle \/ phase' = "off")
    BY <2>4 DEF TargetInv, Idle
  <2> QED BY <1>1, <2>2, <2>3, <2>4, VisitOrIdle
<1>2. CASE UNCHANGED vars
  <2>1. UNCHANGED <<visiting, listeners, currentTerm, role, history>>
    BY <1>2 DEF vars, termVars, timerVars, serverVars
  <2> QED BY <2>1 DEF TargetInv, Idle
<1> QED BY <1>1, <1>2

LEMMA TargetInvariant == Spec => [](TermInv /\ TargetInv)
<1>1. Init => TargetInv
  BY DEF Init, TargetInv, Idle
<1>2. ASSUME TermInv /\ TargetInv, [Next]_vars PROVE (TermInv /\ TargetInv)'
  BY <1>2, TermInvStep, TargetInvStep
<1> QED BY <1>1, <1>2, TermInitially, PTL DEF Spec

(* However many listeners have leaked and whatever the term: a timeout ends *)
(* in the term that Raft.tla gives it in one step (election-timer.ts:36).   *)
THEOREM TimeoutsRunTheirElections == Spec => TimeoutRunsElections
<1> DEFINE Step == ~ Idle /\ visiting' = 0 /\ phase' # "off" => currentTerm' = history.target
<1>1. ASSUME TermInv /\ TargetInv, [Next]_vars PROVE [Step]_vars
  BY <1>1, TargetInvStep
<1> HIDE DEF Step
<1>2. Spec => [][Step]_vars
  BY <1>1, TargetInvariant, PTL DEF Spec
<1> QED BY <1>2 DEF Step, TimeoutRunsElections

-----------------------------------------------------------------------------
(* What the steps of a server in the cluster are to its life.               *)
Adopts ==
  /\ currentTerm' \in Nat /\ currentTerm' > currentTerm
  /\ role' = "follower" /\ votedFor' = Null

Stands ==
  /\ currentTerm' \in Nat /\ currentTerm' > currentTerm
  /\ role' = "candidate" /\ votedFor' = Self

Wins == role = "candidate" /\ role' = "leader" /\ UNCHANGED <<currentTerm, votedFor>>

Yields == role = "candidate" /\ role' = "follower" /\ UNCHANGED <<currentTerm, votedFor>>

LifeGoesOn ==
  /\ UNCHANGED phase
  /\ Adopts \/ Stands \/ Wins \/ Yields \/ UNCHANGED <<role, currentTerm, votedFor>>

LEMMA ReceivedLife ==
  ASSUME TermInv, InCluster, NEW t \in 0..MaxTerm, Received(t), role' = "follower",
         IsNewer(t) \/ role \in {"follower", "candidate"}
  PROVE  LifeGoesOn
<1>1. AdoptTerm(t) /\ UNCHANGED phase
  BY DEF Received
<1>2. currentTerm \in Nat /\ t \in Nat
  BY InCluster_HasTerm, ValuesAssumption DEF InCluster
<1>3. CASE IsNewer(t)
  <2>1. currentTerm' = t /\ votedFor' = Null /\ t > currentTerm
    BY <1>1, <1>3 DEF AdoptTerm, IsNewer, SetTermAndVote, SetVote, Term!SetValue
  <2> QED BY <1>1, <1>2, <2>1 DEF LifeGoesOn, Adopts
<1>4. CASE ~ IsNewer(t)
  <2>1. UNCHANGED <<currentTerm, votedFor>>
    BY <1>1, <1>4 DEF AdoptTerm
  <2> QED BY <1>1, <1>4, <2>1 DEF LifeGoesOn, Yields
<1> QED BY <1>3, <1>4

LEMMA ReceiveLife ==
  ASSUME TermInv, InCluster, Receive
  PROVE  LifeGoesOn
<1>1. CASE Win
  BY <1>1 DEF Win, termVars, voteVars, LifeGoesOn, Wins
<1>2. ASSUME NEW t \in 0..MaxTerm, AppendToFollower(t) \/ VoteRequest(t)
      PROVE  LifeGoesOn
  <2>1. Received(t) /\ RoleFor(t) = "follower" /\ role' = "follower"
    BY <1>2 DEF AppendToFollower, VoteRequest, BecomeFollower
  <2>2. IsNewer(t) \/ role = "follower"
    BY <2>1 DEF RoleFor
  <2> QED BY <2>1, <2>2, ReceivedLife
<1>3. ASSUME NEW t \in 0..MaxTerm, AppendToCandidate(t) PROVE LifeGoesOn
  <2>1. Received(t) /\ RoleFor(t) = "candidate" /\ role' = "follower"
    BY <1>3 DEF AppendToCandidate, BecomeFollower
  <2>2. IsNewer(t) \/ role = "candidate"
    BY <2>1 DEF RoleFor
  <2> QED BY <2>1, <2>2, ReceivedLife
<1>4. ASSUME NEW t \in 0..MaxTerm, NewerResponse(t) PROVE LifeGoesOn
  BY <1>4, ReceivedLife DEF NewerResponse, BecomeFollower
<1> QED BY <1>1, <1>2, <1>3, <1>4 DEF Receive

LEMMA VisitLife ==
  ASSUME TermInv, InCluster, Visit
  PROVE  LifeGoesOn
<1>1. currentTerm \in Nat /\ currentTerm # NaN /\ UNCHANGED phase
  BY InCluster_HasTerm, ValuesAssumption DEF InCluster, Visit
<1>2. ASSUME StartElection
      PROVE  currentTerm' \in Nat /\ currentTerm' > currentTerm /\ votedFor' = Self
  BY <1>1, <1>2 DEF StartElection, SetTermAndVote, SetVote, Term!SetValue, TermAfter
<1>3. CASE VisitFollower
  BY <1>1, <1>2, <1>3 DEF VisitFollower, termVars, voteVars, LifeGoesOn, Stands
<1>4. CASE VisitCandidate
  <2>1. listeners[visiting] = "candidate" /\ StartElection /\ UNCHANGED role
    BY <1>4 DEF VisitCandidate
  <2>2. role = "candidate"
    BY <2>1 DEF Visit, TermInv, IInv, PhaseInv, VisitInv
  <2> QED BY <1>1, <1>2, <2>1, <2>2 DEF LifeGoesOn, Stands
<1> QED BY <1>3, <1>4 DEF Visit

LEMMA LifeInCluster ==
  ASSUME TermInv, InCluster, Next
  PROVE  Forgotten \/ LifeGoesOn
<1>1. phase = "started"
  BY DEF InCluster
<1>2. ~ Boot
  BY <1>1 DEF Boot
<1>3. CASE Crash
  BY <1>3 DEF Crash
<1>4. CASE Stop
  BY <1>4 DEF Stop, termVars, voteVars, LifeGoesOn
<1>5. CASE Callbacks
  <2>1. ~ AccessDone /\ ~ ReadDone /\ ~ ReadFails
    BY <1>1 DEF AccessDone, ReadDone, ReadFails
  <2>2. ASSUME NEW op \in termOps, TermCallback(op) PROVE Forgotten \/ LifeGoesOn
    <3>1. op.caller # 0
      BY <1>1 DEF TermInv, IInv, CallersInv
    <3> QED BY <2>2, <3>1 DEF TermCallback, Term!Callback, voteVars, LifeGoesOn
  <2>3. ASSUME NEW slot \in Slots, VoteCallback(slot) \/ SendEnds(slot) PROVE LifeGoesOn
    BY <2>3 DEF VoteCallback, SendEnds, termVars, voteVars, LifeGoesOn
  <2> QED BY <1>5, <2>1, <2>2, <2>3 DEF Callbacks
<1>6. CASE FileSteps
  BY <1>6 DEF FileSteps, TermFileStep, Term!Truncate, Term!Put, Term!Fail, voteVars, serverVars,
              LifeGoesOn
<1>7. CASE Timeout
  BY <1>7 DEF Timeout, termVars, voteVars, serverVars, LifeGoesOn
<1> QED BY <1>2, <1>3, <1>4, <1>5, <1>6, <1>7, ReceiveLife, VisitLife DEF Next

(* Into the cluster: out of start(), as a follower that has not voted.      *)
LEMMA LifeBegins ==
  ASSUME TermInv, TermInv', ~ InCluster, InCluster', Next
  PROVE  role' = "follower" /\ votedFor' = Null /\ currentTerm' \in Nat
<1>1. phase' = "started" /\ currentTerm' # NaN /\ currentTerm' \in Nat
  BY DEF InCluster, TermInv, ValueInv, StartInv
<1>2. phase # "started"
  <2> SUFFICES ASSUME phase = "started" PROVE FALSE
    OBVIOUS
  <2>1. currentTerm = NaN /\ currentTerm \notin Nat
    BY ValuesAssumption DEF InCluster
  <2>2. TermStep
    BY StepsOfTheTerm
  <2>3. UNCHANGED currentTerm
    BY <1>1, <2>1, <2>2
       DEF TermStep, Forgotten, Waits, termVars, Runs, TermMoves, Creates, Reads, CallsBack,
           Term!Callback, Goes, Term!Truncate, Term!Put, Term!Fail
  <2> QED BY <1>1, <2>1, <2>3
<1>3. votedFor = Null
  BY <1>2 DEF TermInv, StartInv
<1>4. CASE ReadDone
  BY <1>1, <1>3, <1>4 DEF ReadDone, EnterCluster, voteVars
<1>5. ASSUME NEW op \in termOps, TermCallback(op) PROVE role' = "follower" /\ votedFor' = Null
  BY <1>1, <1>2, <1>3, <1>5 DEF TermCallback, Forgotten, EnterCluster, voteVars
<1>6. UNCHANGED phase \/ phase' # "started" \/ ReadDone \/ \E op \in termOps : TermCallback(op)
  <2>1. CASE Receive
    BY <2>1, ReceiveRuns DEF Runs
  <2>2. CASE Callbacks
    BY <2>2 DEF Callbacks, AccessDone, ReadFails, Forgotten, VoteCallback, SendEnds
  <2>3. CASE FileSteps
    BY <2>3 DEF FileSteps, TermFileStep, serverVars
  <2> QED BY <2>1, <2>2, <2>3
          DEF Next, Boot, Crash, Forgotten, Stop, Timeout, serverVars, Visit
<1> QED BY <1>1, <1>2, <1>4, <1>5, <1>6

(* The life of one server in ServerLifecycle.                               *)
LifeState == [s \in {Self} |-> IF InCluster THEN role ELSE "down"]
LifeTerm == [s \in {Self} |-> IF InCluster THEN currentTerm ELSE 0]
LifeVote == [s \in {Self} |-> IF InCluster THEN votedFor ELSE Null]

LEMMA LifeMoves ==
  ASSUME NEW to, NEW t, NEW v,
         LifeState' = [s \in {Self} |-> to], LifeTerm' = [s \in {Self} |-> t],
         LifeVote' = [s \in {Self} |-> v]
  PROVE  Lifecycle!Move(Self, to, t, v)
<1>1. /\ LifeState' = [LifeState EXCEPT ![Self] = to]
      /\ LifeTerm' = [LifeTerm EXCEPT ![Self] = t]
      /\ LifeVote' = [LifeVote EXCEPT ![Self] = v]
  BY DEF LifeState, LifeTerm, LifeVote
<1> QED BY <1>1 DEF Lifecycle!Move, LifeState, LifeTerm, LifeVote

LEMMA LifeStep ==
  ASSUME TermInv, TermInv', Next
  PROVE  Lifecycle!LifecycleNext \/ UNCHANGED <<LifeState, LifeTerm, LifeVote>>
<1>1. CASE ~ InCluster /\ ~ InCluster'
  <2>1. UNCHANGED <<LifeState, LifeTerm, LifeVote>>
    BY <1>1 DEF LifeState, LifeTerm, LifeVote
  <2> QED BY <2>1
<1>2. CASE ~ InCluster /\ InCluster'
  <2>1. role' = "follower" /\ votedFor' = Null /\ currentTerm' \in Nat
    BY <1>2, LifeBegins
  <2>2. /\ LifeState' = [s \in {Self} |-> "follower"]
        /\ LifeTerm' = [s \in {Self} |-> currentTerm'] /\ LifeVote' = [s \in {Self} |-> Null]
    BY <1>2, <2>1 DEF LifeState, LifeTerm, LifeVote
  <2>3. Lifecycle!Move(Self, "follower", currentTerm', Null)
    BY <2>2, LifeMoves
  <2>4. LifeState[Self] = "down" /\ LifeTerm'[Self] = currentTerm'
    BY <1>2, <2>2 DEF LifeState
  <2>5. Lifecycle!Boot(Self)
    BY <2>1, <2>3, <2>4 DEF Lifecycle!Boot, Lifecycle!MoveToTerm, LifeState, LifeTerm
  <2> QED BY <2>5 DEF Lifecycle!LifecycleNext
<1>3. CASE InCluster /\ Forgotten
  <2>1. ~ InCluster'
    BY <1>3 DEF Forgotten, InCluster
  <2>2. /\ LifeState' = [s \in {Self} |-> "down"]
        /\ LifeTerm' = [s \in {Self} |-> 0] /\ LifeVote' = [s \in {Self} |-> Null]
    BY <2>1 DEF LifeState, LifeTerm, LifeVote
  <2>3. Lifecycle!Move(Self, "down", 0, Null)
    BY <2>2, LifeMoves
  <2>4. LifeState[Self] # "down"
    BY <1>3 DEF LifeState, InCluster, TermInv, IInv, PhaseInv, Types
  <2>5. Lifecycle!Exit(Self)
    BY <2>3, <2>4 DEF Lifecycle!Exit, LifeState
  <2> QED BY <2>5 DEF Lifecycle!LifecycleNext
<1>4. CASE InCluster /\ LifeGoesOn
  <2>1. currentTerm \in Nat
    BY <1>4, InCluster_HasTerm DEF InCluster
  <2>2. currentTerm' \in Nat /\ InCluster'
    BY <1>4, <2>1, ValuesAssumption DEF LifeGoesOn, Adopts, Stands, Wins, Yields, InCluster
  <2>3. /\ LifeState = [s \in {Self} |-> role] /\ LifeTerm = [s \in {Self} |-> currentTerm]
        /\ LifeVote = [s \in {Self} |-> votedFor]
    BY <1>4 DEF LifeState, LifeTerm, LifeVote
  <2>4. /\ LifeState' = [s \in {Self} |-> role'] /\ LifeTerm' = [s \in {Self} |-> currentTerm']
        /\ LifeVote' = [s \in {Self} |-> votedFor']
    BY <2>2 DEF LifeState, LifeTerm, LifeVote
  <2>5. Lifecycle!Move(Self, role', currentTerm', votedFor')
    BY <2>4, LifeMoves
  <2>6. /\ LifeState[Self] = role /\ LifeTerm[Self] = currentTerm /\ LifeVote[Self] = votedFor
        /\ LifeTerm'[Self] = currentTerm'
    BY <2>3, <2>4
  <2>7. role # "down"
    BY DEF TermInv, IInv, Types
  <2>8. CASE Adopts
    <3>1. Lifecycle!Adopt(Self)
      BY <2>5, <2>6, <2>7, <2>8
         DEF Adopts, Lifecycle!Adopt, Lifecycle!MoveToTerm, LifeState, LifeTerm
    <3> QED BY <3>1 DEF Lifecycle!LifecycleNext
  <2>9. CASE Stands
    <3>1. Lifecycle!Stand(Self)
      BY <2>5, <2>6, <2>7, <2>9
         DEF Stands, Lifecycle!Stand, Lifecycle!MoveToTerm, LifeState, LifeTerm
    <3> QED BY <3>1 DEF Lifecycle!LifecycleNext
  <2>10. CASE Wins
    <3>1. Lifecycle!Win(Self)
      BY <2>5, <2>6, <2>10 DEF Wins, Lifecycle!Win, LifeState, LifeTerm, LifeVote
    <3> QED BY <3>1 DEF Lifecycle!LifecycleNext
  <2>11. CASE Yields
    <3>1. Lifecycle!Yield(Self)
      BY <2>5, <2>6, <2>11 DEF Yields, Lifecycle!Yield, LifeState, LifeTerm, LifeVote
    <3> QED BY <3>1 DEF Lifecycle!LifecycleNext
  <2>12. CASE UNCHANGED <<role, currentTerm, votedFor>>
    BY <2>3, <2>4, <2>12
  <2> QED BY <1>4, <2>8, <2>9, <2>10, <2>11, <2>12 DEF LifeGoesOn
<1> QED BY <1>1, <1>2, <1>3, <1>4, LifeInCluster

(* The server from the inside, with its listeners, writes and crashes, keeps*)
(* what ServerLifecycle promises of it and ElectionProofs proves from it.   *)
THEOREM ProcessIsLifecycle == Spec => ProcessImplementsLifecycle
<1>1. Init => Lifecycle!LifecycleInit
  BY DEF Init, Lifecycle!LifecycleInit, InCluster
<1>2. ASSUME TermInv, TermInv', [Next]_vars
      PROVE  [Lifecycle!LifecycleNext]_(Lifecycle!lifecycleVars)
  <2>1. CASE Next
    BY <1>2, <2>1, LifeStep DEF Lifecycle!lifecycleVars, LifeState, LifeTerm, LifeVote
  <2>2. CASE UNCHANGED vars
    BY <2>2 DEF vars, termVars, voteVars, serverVars, Lifecycle!lifecycleVars, InCluster
  <2> QED BY <1>2, <2>1, <2>2
<1> QED BY <1>1, <1>2, TermInvariant, PTL DEF Spec, ProcessImplementsLifecycle, Lifecycle!LifecycleSpec
=============================================================================
