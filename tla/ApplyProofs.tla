---------------------------- MODULE ApplyProofs ----------------------------
(***************************************************************************)
(* Theorems about ApplyLoop, for any number of calls, entries and clients.  *)
(***************************************************************************)
EXTENDS ApplyLoop, SequenceTheorems, TLAPS

(* What a waiting call has behind it: it is one of the calls made, and the  *)
(* entries before the one it waits for have all been executed.  This, and   *)
(* that the commit index has been as high as it is, is what the invariants  *)
(* below lack to be inductive.                                              *)
CallInv ==
  /\ commitIndex <= highest
  /\ \A e \in calls \cup finished : e.call <= started /\ e.index >= 1
  /\ \A e \in calls : \A i \in 1..(e.index - 1) : IsExecuted(i)

IInv ==
  /\ ApplyTypeOK
  /\ AppliedWasExecuted
  /\ ExecutedInOrder
  /\ NoCallGoesBack
  /\ AnsweredOnce
  /\ CallInv

(* The head of the loop adds at most one waiting call: this one, for the    *)
(* entry after the applied ones, which is committed.                        *)
LEMMA IterateAddsOne ==
  ASSUME log \in Seq(Buffer), NEW call \in Nat, NEW applied \in Nat, NEW commit \in Nat,
         NEW others \in SUBSET Execution, broken \in BOOLEAN,
         Iterate(call, applied, commit, others)
  PROVE  /\ calls' \subseteq Execution
         /\ broken' \in BOOLEAN
         /\ \A e \in calls' \ others : e.call = call /\ e.index = applied + 1 /\ e.index <= commit
         /\ \A e, other \in calls' \ others : e = other
         /\ others \subseteq calls'
<1> DEFINE Next1 == {j \in DOMAIN log : j = applied + 1 /\ j <= commit}
<1>1. calls' = others \cup {WaitingCall(call, i, log[i]) : i \in Next1}
  BY DEF Iterate
<1>2. \A i \in Next1 : i = applied + 1 /\ i <= commit /\ i \in Nat /\ log[i] \in Buffer
  OBVIOUS
<1>3. \A e \in calls' \ others : \E i \in Next1 : e = WaitingCall(call, i, log[i])
  BY <1>1
<1>4. \A e \in calls' \ others : e \in Execution /\ e.call = call /\ e.index = applied + 1
                                 /\ e.index <= commit
  BY <1>2, <1>3 DEF WaitingCall, Execution
<1>5. \A e, other \in calls' \ others : e = other
  BY <1>2, <1>3
<1>6. broken' \in BOOLEAN
  BY DEF Iterate
<1> QED
  BY <1>1, <1>4, <1>5, <1>6

LEMMA InitHolds == Init => IInv
<1> SUFFICES ASSUME Init PROVE IInv
  OBVIOUS
<1>1. ApplyTypeOK
  <2>1. <<>> \in Seq(Buffer)
    OBVIOUS
  <2>2. [command \in Buffer |-> 0] \in [Buffer -> Nat]
    OBVIOUS
  <2> QED
    BY <2>1, <2>2 DEF Init, ApplyTypeOK
<1>2. AppliedWasExecuted /\ ExecutedInOrder /\ NoCallGoesBack /\ CallInv
  BY DEF Init, AppliedWasExecuted, ExecutedInOrder, NoCallGoesBack, CallInv
<1>3. AnsweredOnce
  <2> SUFFICES ASSUME NEW command \in Buffer
               PROVE  /\ answers[command] <= 1
                      /\ answers[command] = 0 /\ answers[command] # 1
    BY DEF AnsweredOnce
  <2>1. answers[command] = 0
    BY DEF Init
  <2> QED
    BY <2>1
<1> QED
  BY <1>1, <1>2, <1>3 DEF IInv

LEMMA SetCommitKeepsIInv ==
  ASSUME IInv, NEW index \in Nat, SetCommitIndexAndExecuteUnapplied(index)
  PROVE  IInv'
<1>1. /\ started \in Nat /\ commitIndex' = index
      /\ started' = started + 1 /\ lastApplied' = lastApplied /\ finished' = finished
      /\ answers' = answers /\ listeners' = listeners /\ log' = log
      /\ lastApplied \in Nat /\ highest \in Nat /\ calls \subseteq Execution
      /\ finished \subseteq Execution
  BY DEF SetCommitIndexAndExecuteUnapplied, IInv, ApplyTypeOK
<1>0. highest' \in Nat /\ highest' >= highest /\ commitIndex' <= highest'
  BY <1>1 DEF SetCommitIndexAndExecuteUnapplied
<1>2. /\ calls' \subseteq Execution
      /\ broken' \in BOOLEAN
      /\ \A e \in calls' \ calls : e.call = started + 1 /\ e.index = lastApplied + 1
                                   /\ e.index <= index
      /\ \A e, other \in calls' \ calls : e = other
  BY <1>1, IterateAddsOne DEF SetCommitIndexAndExecuteUnapplied, IInv, ApplyTypeOK
<1>3. \A e \in calls \cup finished : /\ e.call \in Nat /\ e.index \in Nat /\ e.call <= started
                                     /\ e.index >= 1 /\ e.index <= highest
  BY <1>1 DEF IInv, CallInv, AppliedWasExecuted, Execution
<1>4. \A i : IsExecuted(i)' <=> IsExecuted(i)
  BY <1>1 DEF IsExecuted
<1>5. ApplyTypeOK'
  BY <1>1, <1>2, <1>0 DEF IInv, ApplyTypeOK
<1>6. AppliedWasExecuted'
  BY <1>1, <1>2, <1>3, <1>4, <1>0 DEF IInv, AppliedWasExecuted
<1>7. ExecutedInOrder'
  <2>1. \A e \in calls' \ calls : e.index = 1 \/ IsExecuted(e.index - 1)
    BY <1>1, <1>2 DEF IInv, AppliedWasExecuted
  <2> QED
    BY <1>1, <1>4, <2>1 DEF IInv, ExecutedInOrder
<1>8. NoCallGoesBack'
  <2>1. \A e \in calls : e.call # started + 1
    BY <1>1, <1>3
  <2>2. \A e \in finished : e.call # started + 1
    BY <1>1, <1>3
  <2> QED
    BY <1>1, <1>2, <2>1, <2>2 DEF IInv, NoCallGoesBack
<1>9. AnsweredOnce'
  BY <1>1 DEF IInv, AnsweredOnce
<1>10. CallInv'
  <2>1. \A e \in calls' \cup finished' : e.call <= started' /\ e.index >= 1
    BY <1>1, <1>2, <1>3
  <2>2. \A e \in calls' : \A i \in 1..(e.index - 1) : IsExecuted(i)
    <3> SUFFICES ASSUME NEW e \in calls', NEW i \in 1..(e.index - 1) PROVE IsExecuted(i)
      OBVIOUS
    <3>1. CASE e \in calls
      BY <3>1 DEF IInv, CallInv
    <3>2. CASE e \notin calls
      <4>1. e.index - 1 = lastApplied
        BY <1>1, <1>2, <3>2
      <4> QED
        BY <4>1 DEF IInv, AppliedWasExecuted
    <3> QED
      BY <3>1, <3>2
  <2> QED
    BY <1>4, <1>0, <2>1, <2>2 DEF CallInv
<1> QED
  BY <1>5, <1>6, <1>7, <1>8, <1>9, <1>10 DEF IInv

LEMMA ExecutedKeepsIInv ==
  ASSUME IInv, NEW execution \in calls, Executed(execution)
  PROVE  IInv'
<1> DEFINE others == calls \ {execution}
<1>1. /\ finished' = finished \cup {execution} /\ lastApplied' = execution.index
      /\ commitIndex' = commitIndex /\ highest' = highest /\ started' = started /\ log' = log
      /\ highest \in Nat /\ commitIndex <= highest
      /\ execution \in Execution /\ others \subseteq Execution /\ finished \subseteq Execution
      /\ execution.call \in Nat /\ execution.index \in Nat /\ execution.command \in Buffer
      /\ commitIndex \in Nat /\ started \in Nat
  BY DEF Executed, IInv, ApplyTypeOK, CallInv, Execution
<1>2. /\ calls' \subseteq Execution
      /\ broken' \in BOOLEAN
      /\ \A e \in calls' \ others : /\ e.call = execution.call /\ e.index = execution.index + 1
                                    /\ e.index <= commitIndex
      /\ \A e, other \in calls' \ others : e = other
  BY <1>1, IterateAddsOne DEF Executed, IInv, ApplyTypeOK
<1>3. \A e \in calls \cup finished : /\ e.call \in Nat /\ e.index \in Nat /\ e.call <= started
                                     /\ e.index >= 1 /\ e.index <= highest
  BY <1>1 DEF IInv, CallInv, AppliedWasExecuted, Execution
<1>4. (\A i : IsExecuted(i) => IsExecuted(i)') /\ IsExecuted(execution.index)'
  BY <1>1 DEF IsExecuted
<1>5. \A i \in 1..execution.index : IsExecuted(i)'
  <2>1. \A i \in 1..(execution.index - 1) : IsExecuted(i)
    BY DEF IInv, CallInv
  <2>2. \A i \in 1..execution.index : i \in 1..(execution.index - 1) \/ i = execution.index
    BY <1>1
  <2> QED
    BY <1>4, <2>1, <2>2
<1>6. ApplyTypeOK'
  <2>1. listeners' \subseteq Buffer /\ answers' \in [Buffer -> Nat]
    BY <1>1 DEF Executed, NotifyExecuted, IInv, ApplyTypeOK
  <2> QED
    BY <1>1, <1>2, <2>1 DEF IInv, ApplyTypeOK
<1>7. AppliedWasExecuted'
  BY <1>1, <1>2, <1>3, <1>5 DEF AppliedWasExecuted
<1>8. ExecutedInOrder'
  <2> SUFFICES ASSUME NEW e \in calls' \cup finished' PROVE e.index = 1 \/ IsExecuted(e.index - 1)'
    BY DEF ExecutedInOrder
  <2>1. CASE e \in calls \cup finished
    BY <1>4, <2>1 DEF IInv, ExecutedInOrder
  <2>2. CASE e \notin calls \cup finished
    <3>1. e.index - 1 = execution.index
      BY <1>1, <1>2, <2>2
    <3> QED
      BY <1>4, <3>1
  <2> QED
    BY <2>1, <2>2
<1>9. NoCallGoesBack'
  <2>1. \A e \in others : e.call # execution.call
    BY DEF IInv, NoCallGoesBack
  <2>2. \A done \in finished : done.call = execution.call => done.index < execution.index
    BY DEF IInv, NoCallGoesBack
  <2> SUFFICES ASSUME NEW e \in calls'
               PROVE  /\ \A other \in calls' : other.call = e.call => other = e
                      /\ \A done \in finished' : done.call = e.call => done.index < e.index
    BY DEF NoCallGoesBack
  <2>3. CASE e \in others
    BY <1>1, <1>2, <2>1, <2>3 DEF IInv, NoCallGoesBack
  <2>4. CASE e \notin others
    <3>1. e.call = execution.call /\ e.index = execution.index + 1
      BY <1>2, <2>4
    <3>2. \A other \in calls' : other.call = e.call => other = e
      BY <1>2, <2>1, <2>4, <3>1
    <3>3. \A done \in finished' : done.call = e.call => done.index < e.index
      <4> SUFFICES ASSUME NEW done \in finished', done.call = e.call PROVE done.index < e.index
        OBVIOUS
      <4>1. CASE done = execution
        BY <1>1, <3>1, <4>1
      <4>2. CASE done \in finished
        BY <1>1, <1>3, <2>2, <3>1, <4>2
      <4> QED
        BY <1>1, <4>1, <4>2
    <3> QED
      BY <3>2, <3>3
  <2> QED
    BY <2>3, <2>4
<1>10. AnsweredOnce'
  <2> SUFFICES ASSUME NEW command \in Buffer
               PROVE  /\ answers'[command] <= 1
                      /\ command \in listeners' => answers'[command] = 0
                      /\ answers'[command] = 1 => \E e \in finished' : e.command = command
    BY DEF AnsweredOnce
  <2>1. /\ answers[command] \in Nat /\ answers[command] <= 1
        /\ command \in listeners => answers[command] = 0
        /\ answers[command] = 1 => \E e \in finished : e.command = command
    BY DEF IInv, AnsweredOnce, ApplyTypeOK
  <2>2. /\ listeners' = listeners \ {execution.command}
        /\ answers'[command] = IF command = execution.command /\ command \in listeners
                               THEN answers[command] + 1 ELSE answers[command]
    BY DEF Executed, NotifyExecuted, IInv, ApplyTypeOK
  <2>3. CASE command = execution.command
    BY <1>1, <2>1, <2>2, <2>3
  <2>4. CASE command # execution.command
    BY <1>1, <2>1, <2>2, <2>4
  <2> QED
    BY <2>3, <2>4
<1>11. CallInv'
  <2>1. \A e \in calls' \cup finished' : e.call <= started' /\ e.index >= 1
    BY <1>1, <1>2, <1>3
  <2>2. \A e \in calls' : \A i \in 1..(e.index - 1) : IsExecuted(i)'
    <3> SUFFICES ASSUME NEW e \in calls', NEW i \in 1..(e.index - 1) PROVE IsExecuted(i)'
      OBVIOUS
    <3>1. CASE e \in others
      BY <1>4, <3>1 DEF IInv, CallInv
    <3>2. CASE e \notin others
      BY <1>1, <1>2, <1>5, <3>2
    <3> QED
      BY <3>1, <3>2
  <2> QED
    BY <1>1, <2>1, <2>2 DEF CallInv
<1> QED
  BY <1>6, <1>7, <1>8, <1>9, <1>10, <1>11 DEF IInv

(* A step that neither finishes an execution nor starts one keeps IInv.     *)
LEMMA OtherStepsKeepIInv ==
  ASSUME IInv,
         \/ \E execution \in calls : ExecutionFails(execution)
         \/ \E command \in Buffer : Execute(command) \/ Store(command)
         \/ \E index \in 1..MaxIndex : Truncate(index)
  PROVE  IInv'
<1>1. /\ calls' \subseteq calls /\ finished' = finished /\ lastApplied' = lastApplied
      /\ commitIndex' = commitIndex /\ highest' = highest /\ started' = started
      /\ answers' = answers
      /\ broken' \in BOOLEAN
  BY DEF ExecutionFails, Execute, OnceExecuted, Store, Truncate, IInv, ApplyTypeOK
<1>2. log' \in Seq(Buffer)
  <2>1. ASSUME NEW index \in 1..MaxIndex, Truncate(index)
        PROVE  log' \in Seq(Buffer)
    <3>1. log \in Seq(Buffer) /\ index \in 1..Len(log) /\ log' = SubSeq(log, 1, index - 1)
      BY <2>1 DEF Truncate, IInv, ApplyTypeOK
    <3>2. \A i \in 1..(index - 1) : log[i] \in Buffer
      BY <3>1
    <3> QED
      BY <3>1, <3>2, SubSeqProperties
  <2>2. ASSUME NEW command \in Buffer, Execute(command) \/ Store(command)
        PROVE  log' \in Seq(Buffer)
    <3>1. log \in Seq(Buffer) /\ log' = Append(log, command)
      BY <2>2 DEF Execute, OnceExecuted, Store, IInv, ApplyTypeOK
    <3> QED
      BY <3>1
  <2>3. CASE \E execution \in calls : ExecutionFails(execution)
    BY <2>3 DEF ExecutionFails, IInv, ApplyTypeOK
  <2> QED
    BY <2>1, <2>2, <2>3
<1>3. \A i : IsExecuted(i)' <=> IsExecuted(i)
  BY <1>1 DEF IsExecuted
<1>4. listeners' \subseteq Buffer
      /\ \A b \in listeners' : b \in listeners \/ b \notin Used
  BY DEF ExecutionFails, Execute, OnceExecuted, Store, Truncate, IInv, ApplyTypeOK
<1>5. AnsweredOnce'
  <2>1. \A b \in Buffer : b \notin Used => answers[b] = 0
    <3> SUFFICES ASSUME NEW b \in Buffer, b \notin Used PROVE answers[b] = 0
      OBVIOUS
    <3>1. \A e \in finished : e.command # b
      BY DEF Used
    <3>2. answers[b] \in Nat /\ answers[b] <= 1 /\ answers[b] # 1
      BY <3>1 DEF IInv, AnsweredOnce, ApplyTypeOK
    <3> QED
      BY <3>2
  <2> QED
    BY <1>1, <1>4, <2>1 DEF IInv, AnsweredOnce
<1>6. ApplyTypeOK'
  BY <1>1, <1>2, <1>4 DEF IInv, ApplyTypeOK
<1>7. AppliedWasExecuted' /\ ExecutedInOrder' /\ NoCallGoesBack' /\ CallInv'
  BY <1>1, <1>3 DEF IInv, AppliedWasExecuted, ExecutedInOrder, NoCallGoesBack, CallInv
<1> QED
  BY <1>5, <1>6, <1>7 DEF IInv

LEMMA StepKeepsIInv == IInv /\ [Next]_vars => IInv'
<1> SUFFICES ASSUME IInv, [Next]_vars PROVE IInv'
  OBVIOUS
<1>1. CASE \/ \E index \in 1..MaxIndex : LeaderCommits(index)
           \/ \E leaderCommit, lastNewEntry \in 0..MaxIndex :
                FollowerCommits(leaderCommit, lastNewEntry)
  <2>1. \E index \in Nat : SetCommitIndexAndExecuteUnapplied(index)
    BY <1>1, BoundAssumption DEF LeaderCommits, FollowerCommits
  <2> QED
    BY <2>1, SetCommitKeepsIInv
<1>2. CASE \E execution \in calls : Executed(execution)
  BY <1>2, ExecutedKeepsIInv
<1>3. CASE \E execution \in calls : ExecutionFails(execution)
  BY <1>3, OtherStepsKeepIInv
<1>4. CASE \E command \in Buffer : Execute(command) \/ Store(command)
  BY <1>4, OtherStepsKeepIInv
<1>5. CASE \E index \in 1..MaxIndex : Truncate(index)
  BY <1>5, OtherStepsKeepIInv
<1>6. CASE UNCHANGED vars
  BY <1>6 DEF vars, serverVars, IInv, ApplyTypeOK, AppliedWasExecuted, ExecutedInOrder,
              NoCallGoesBack, AnsweredOnce, CallInv, IsExecuted
<1> QED
  BY <1>1, <1>2, <1>3, <1>4, <1>5, <1>6 DEF Next

THEOREM LoopInvariant == Spec => []IInv
BY InitHolds, StepKeepsIInv, PTL DEF Spec

-----------------------------------------------------------------------------
(* Every entry up to lastApplied has been executed, and none that was never *)
(* committed, though both indices may go back (server.ts:148-159).          *)
THEOREM EntriesApplied == Spec => []AppliedWasExecuted
BY LoopInvariant, PTL DEF IInv

(* Overlapping calls leave no gap.                                          *)
THEOREM EntriesInOrder == Spec => []ExecutedInOrder
BY LoopInvariant, PTL DEF IInv

(* Each call executes each entry once at most, in order.                    *)
THEOREM CallsGoForward == Spec => []NoCallGoesBack
BY LoopInvariant, PTL DEF IInv

(* A client gets one answer at most, after the execution of its command     *)
(* (observable-state-machine.ts:19-26).                                     *)
THEOREM OneAnswer == Spec => []AnsweredOnce
BY LoopInvariant, PTL DEF IInv

(* The variables keep their types.                                          *)
THEOREM ApplyTypes == Spec => []ApplyTypeOK
BY LoopInvariant, PTL DEF IInv
=============================================================================
