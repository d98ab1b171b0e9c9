----------------------------- MODULE LogProofs -----------------------------
(***************************************************************************)
(* Theorems about the logs and the term's file: a log is well formed, grows *)
(* only at a leader and never again once it was cut to nothing, and no file *)
(* holds a term its server has not reached.                                 *)
(***************************************************************************)
EXTENDS ElectionProofs

(* The entries of a message, as the leader that is its sender takes them    *)
(* from its log, come no later than the one the message says they follow.   *)
HoldsNothingNew(m) ==
  m.type = "AppendEntriesRequest" =>
    \A k \in DOMAIN m.entries : m.entries[k].index <= m.prevLogIndex

RequestsHoldNothingNew == \A m \in BagToSet(messages) : HoldsNothingNew(m)

(* A server that is down is in term 0 and has only the sentinel: the term   *)
(* it starts in is no earlier than its log's.                               *)
DownInTermZero == \A s \in Server : role[s] = "down" => currentTerm[s] = 0

DownHasEmptyLog == \A s \in Server : role[s] = "down" => log[s] = EmptyLog

(* The terms in the file or on their way to it.                             *)
FilesNotAhead == \A s \in Server : Up(s) => disk[s].term \in 0..currentTerm[s]

TermWriteOf(w) == w.file = "term" => w.value <= currentTerm[w.reply.from.server]

TermWritesNotAhead == \A w \in BagToSet(pending) : TermWriteOf(w)

LogsInv ==
  /\ DownInTermZero /\ DownHasEmptyLog
  /\ LogWellFormed /\ RequestsHoldNothingNew
  /\ FilesNotAhead /\ TermWritesNotAhead

-----------------------------------------------------------------------------
(* Logs.                                                                    *)

(* The log of a server in a term.                                           *)
WellFormed(l, t) ==
  \A i \in DOMAIN l :
    /\ l[i].index = i - 1
    /\ l[i].term <= t
    /\ i > 1 => l[i - 1].term <= l[i].term

(* Whatever the index, a slice holds entries of the log.                    *)
LEMMA SliceElements ==
  ASSUME NEW l \in Seq(LogEntry), NEW index \in Int \cup {NaN}
  PROVE  \A k \in DOMAIN Slice(l, index) :
           \E i \in DOMAIN l : Slice(l, index)[k] = l[i]
<1> DEFINE first == IF index = NaN \/ (index < 0 /\ Len(l) + index < 0) THEN 0
                    ELSE IF index < 0 THEN Len(l) + index
                    ELSE index
<1>1. first \in Nat
  BY LogAssumption
<1>2. Slice(l, index) = SubSeq(l, first + 1, Len(l))
  BY DEF Slice
<1> HIDE DEF first
<1>3. Len(l) \in Nat /\ DOMAIN l = 1..Len(l)
  OBVIOUS
<1>4. \A k \in DOMAIN SubSeq(l, first + 1, Len(l)) :
        /\ k \in 1..(Len(l) - first)
        /\ SubSeq(l, first + 1, Len(l))[k] = l[first + k]
  BY <1>1, <1>3
<1> QED BY <1>1, <1>2, <1>3, <1>4

(* What a leader sends of a well-formed log holds nothing new.              *)
LEMMA SliceHoldsNothingNew ==
  ASSUME NEW l \in Seq(LogEntry), NEW t \in Nat, WellFormed(l, t),
         NEW index \in Int \cup {NaN}
  PROVE  \A k \in DOMAIN Slice(l, index) : Slice(l, index)[k].index <= LastIndex(l)
<1> TAKE k \in DOMAIN Slice(l, index)
<1>1. PICK i \in DOMAIN l : Slice(l, index)[k] = l[i]
  BY SliceElements
<1>2. i \in 1..Len(l) /\ Len(l) \in Nat
  OBVIOUS
<1>3. l[i].index = i - 1
  BY DEF WellFormed
<1> QED BY <1>1, <1>2, <1>3 DEF LastIndex

(* A log that has the entry which entries follow, and they follow none but  *)
(* entries of their own index or later, keeps a prefix of itself.           *)
LEMMA StoreEntriesCuts ==
  ASSUME NEW l \in Seq(LogEntry), NEW es \in Seq(LogEntry), NEW prev \in Nat,
         HasEntry(l, prev), \A k \in DOMAIN es : es[k].index <= prev
  PROVE  \/ StoreEntries(l, es) = l
         \/ \E n \in 0..(Len(l) - 1) : StoreEntries(l, es) = SubSeq(l, 1, n)
<1> DEFINE conflicts == Conflicts(l, es)
           next == {k \in DOMAIN es : es[k].index = NextIndex(l)}
<1>1. StoreEntries(l, es) =
        IF conflicts # {} THEN TruncateAt(l, es[Min(conflicts)].index)
        ELSE IF next # {} THEN l \o SubSeq(es, Min(next), Len(es)) ELSE l
  BY DEF StoreEntries
<1>2. Len(l) \in Nat /\ prev < Len(l)
  BY DEF HasEntry, LastIndex
<1>3. \A k \in DOMAIN es : es[k].index \in 0..(Len(l) - 1)
  <2> TAKE k \in DOMAIN es
  <2>1. es[k] \in LogEntry /\ es[k].index <= prev
    OBVIOUS
  <2> QED BY <1>2, <2>1 DEF LogEntry
<1>4. next = {}
  BY <1>2, <1>3 DEF NextIndex
<1>5. conflicts \in SUBSET DOMAIN es /\ conflicts \in SUBSET Nat
  BY DEF Conflicts
<1> HIDE DEF conflicts, next
<1>6. CASE conflicts # {}
  <2>1. Min(conflicts) \in conflicts
    BY <1>5, <1>6, MinElement
  <2>2. es[Min(conflicts)].index \in 0..(Len(l) - 1)
    BY <1>3, <1>5, <2>1
  <2> QED BY <1>1, <1>6, <2>2 DEF TruncateAt
<1>7. CASE conflicts = {}
  BY <1>1, <1>4, <1>7
<1> QED BY <1>6, <1>7

LEMMA PrefixWellFormed ==
  ASSUME NEW l \in Seq(LogEntry), NEW t, WellFormed(l, t), NEW n \in 0..(Len(l) - 1)
  PROVE  WellFormed(SubSeq(l, 1, n), t)
<1>1. Len(l) \in Nat /\ DOMAIN l = 1..Len(l) /\ n \in Nat
  OBVIOUS
<1>2. /\ DOMAIN SubSeq(l, 1, n) = 1..n
      /\ \A i \in 1..n : SubSeq(l, 1, n)[i] = l[i]
  BY <1>1
<1> QED BY <1>1, <1>2 DEF WellFormed

(* The entry a leader appends is the next one and of a term no earlier.     *)
LEMMA AppendWellFormed ==
  ASSUME NEW l \in Seq(LogEntry), NEW t \in Nat, WellFormed(l, t),
         NEW entry \in LogEntry, entry.index = NextIndex(l), entry.term = t
  PROVE  WellFormed(Append(l, entry), t)
<1> DEFINE longer == Append(l, entry)
<1>1. /\ Len(l) \in Nat /\ DOMAIN l = 1..Len(l) /\ DOMAIN longer = 1..(Len(l) + 1)
      /\ longer[Len(l) + 1] = entry
      /\ \A i \in 1..Len(l) : longer[i] = l[i]
  OBVIOUS
<1> HIDE DEF longer
<1>2. ASSUME NEW i \in 1..(Len(l) + 1)
      PROVE  /\ longer[i].index = i - 1
             /\ longer[i].term <= t
             /\ i > 1 => longer[i - 1].term <= longer[i].term
  <2>1. CASE i \in 1..Len(l)
    BY <1>1, <2>1 DEF WellFormed
  <2>2. CASE i = Len(l) + 1
    <3>1. i > 1 => longer[i - 1].term <= t
      BY <1>1, <2>2 DEF WellFormed
    <3> QED BY <1>1, <2>2, <3>1 DEF NextIndex
  <2> QED BY <1>1, <2>1, <2>2
<1> QED BY <1>1, <1>2 DEF WellFormed, longer

(* A log stays well formed when its server moves to a later term.           *)
LEMMA LaterTermWellFormed ==
  ASSUME NEW l \in Seq(LogEntry), NEW t \in Nat, WellFormed(l, t),
         NEW u \in Nat, t <= u
  PROVE  WellFormed(l, u)
<1>1. \A i \in DOMAIN l : l[i].term \in Nat
  <2> TAKE i \in DOMAIN l
  <2>1. l[i] \in LogEntry
    OBVIOUS
  <2> QED BY <2>1 DEF LogEntry
<1> QED BY <1>1 DEF WellFormed

-----------------------------------------------------------------------------
(* What a step does to the logs: one grows at a leader, one is cut back at  *)
(* a follower, one is gone with its process, or all stay with theirs.       *)
LogGrows(s) ==
  /\ role[s] = "leader" /\ UNCHANGED <<role, currentTerm>>
  /\ \E entry \in LogEntry :
       /\ entry.index = NextIndex(log[s]) /\ entry.term = currentTerm[s]
       /\ log' = [log EXCEPT ![s] = Append(@, entry)]

LogIsCut(s) ==
  /\ role' = [role EXCEPT ![s] = "follower"]
  /\ \E n \in 0..(Len(log[s]) - 1) : log' = [log EXCEPT ![s] = SubSeq(@, 1, n)]

LogIsGone(s) ==
  role' = [role EXCEPT ![s] = "down"] /\ log' = [log EXCEPT ![s] = EmptyLog]

LogsMove ==
  \/ UNCHANGED log /\ KeepsUp
  \/ \E s \in Server : LogGrows(s) \/ LogIsCut(s) \/ LogIsGone(s)

LEMMA ExecuteMovesLogs ==
  ASSUME IInv, NEW s \in Server, NEW command \in Command, Execute(s, command)
  PROVE  LogGrows(s)
<1> DEFINE entry == [index |-> NextIndex(log[s]), term |-> currentTerm[s],
                     command |-> command]
<1>1. entry \in LogEntry
  BY DEF LogEntry, NextIndex, IInv, ServerInv, LogInv, TermInv
<1>2. /\ role[s] = "leader" /\ UNCHANGED <<role, currentTerm>>
      /\ log' = [log EXCEPT ![s] = Append(@, entry)]
  BY DEF Execute, stateVars, termVars
<1>3. entry.index = NextIndex(log[s]) /\ entry.term = currentTerm[s]
  OBVIOUS
<1> HIDE DEF entry
<1> QED BY <1>1, <1>2, <1>3 DEF LogGrows

(* A follower accepts a request only if it has the entry that the request's *)
(* entries do not go beyond, so that it has nothing to append.              *)
LEMMA ReceiveAppendEntriesRequestMovesLogs ==
  ASSUME IInv, RequestsHoldNothingNew,
         NEW m \in BagToSet(messages), ReceiveAppendEntriesRequest(m)
  PROVE  LogsMove
<1> USE DEF IInv, ServerInv
<1> DEFINE s == m.to.server
           accepted == Accepts(s, m)
           stored == StoreEntries(log[s], m.entries)
<1>1. /\ m.type = "AppendEntriesRequest"
      /\ BecomeFollower(s, m.leaderId, TRUE)
      /\ log' = [log EXCEPT ![s] = IF accepted THEN StoreEntries(@, m.entries) ELSE @]
  BY DEF ReceiveAppendEntriesRequest
<1>2. s \in Server /\ m \in AppendEntriesRequests /\ log[s] \in Seq(LogEntry)
  BY <1>1, MessageInFlight, MessageTypes DEF LogInv
<1>3. role' = [role EXCEPT ![s] = "follower"] /\ KeepsUp
  BY <1>1, <1>2 DEF BecomeFollower, StateInv, KeepsUp, Up
<1>4. CASE accepted
  <2>1. HasEntry(log[s], m.prevLogIndex)
    BY <1>4 DEF Accepts, LogMatches
  <2>2. m.entries \in Seq(LogEntry) /\ m.prevLogIndex \in Nat
    BY <1>2 DEF AppendEntriesRequests
  <2>3. \A k \in DOMAIN m.entries : m.entries[k].index <= m.prevLogIndex
    BY <1>1 DEF RequestsHoldNothingNew, HoldsNothingNew
  <2>4. \/ stored = log[s]
        \/ \E n \in 0..(Len(log[s]) - 1) : stored = SubSeq(log[s], 1, n)
    BY <1>2, <2>1, <2>2, <2>3, StoreEntriesCuts
  <2>5. log' = [log EXCEPT ![s] = stored]
    BY <1>1, <1>4
  <2> HIDE DEF stored, s, accepted
  <2>6. CASE stored = log[s]
    BY <1>2, <1>3, <2>5, <2>6 DEF LogsMove, LogInv
  <2>7. CASE \E n \in 0..(Len(log[s]) - 1) : stored = SubSeq(log[s], 1, n)
    <3>1. PICK n \in 0..(Len(log[s]) - 1) : stored = SubSeq(log[s], 1, n)
      BY <2>7
    <3>2. log' = [log EXCEPT ![s] = SubSeq(@, 1, n)]
      BY <2>5, <3>1
    <3> QED BY <1>2, <1>3, <3>2 DEF LogIsCut, LogsMove
  <2> QED BY <2>4, <2>6, <2>7
<1>5. CASE ~ accepted
  <2>1. log' = log
    BY <1>1, <1>5 DEF LogInv
  <2> QED BY <1>3, <2>1 DEF LogsMove
<1> QED BY <1>4, <1>5

LEMMA DieMovesLogs ==
  ASSUME IInv, NEW s \in Server, Die(s)
  PROVE  LogIsGone(s)
  BY DEF LogIsGone, Die

(* The other steps leave the logs alone and end no process.                 *)
LEMMA BecomeFollowerKeepsUp ==
  ASSUME StateInv, NEW s \in Server, NEW leader, NEW resets,
         BecomeFollower(s, leader, resets)
  PROVE  KeepsUp
  BY DEF BecomeFollower, StateInv, KeepsUp, Up

LEMMA NextMovesLogs ==
  ASSUME IInv, RequestsHoldNothingNew, [Next]_vars
  PROVE  LogsMove
<1> USE DEF IInv, ServerInv
<1>1. ASSUME NEW s \in Server,
             \/ Start(s)
             \/ Crash(s)
             \/ Timeout(s)
             \/ TimeoutWithoutLog(s)
             \/ Heartbeat(s)
             \/ \E command \in Command : Execute(s, command)
      PROVE  LogsMove
  <2>1. CASE Start(s)
    BY <2>1, BecomeFollowerKeepsUp DEF Start, logVars, LogsMove
  <2>2. CASE Timeout(s)
    <3>1. role' = [role EXCEPT ![s] = "candidate"] /\ log' = log
      BY <2>2 DEF Timeout, StartElections, logVars
    <3> QED BY <3>1 DEF LogsMove, StateInv, KeepsUp, Up
  <2>3. CASE Heartbeat(s)
    BY <2>3 DEF Heartbeat, stateVars, logVars, LogsMove, KeepsUp, Up
  <2>4. CASE Crash(s) \/ TimeoutWithoutLog(s)
    BY <2>4, DieMovesLogs DEF Crash, TimeoutWithoutLog, LogsMove
  <2>5. CASE \E command \in Command : Execute(s, command)
    BY <2>5, ExecuteMovesLogs DEF LogsMove
  <2> QED BY <1>1, <2>1, <2>2, <2>3, <2>4, <2>5
<1>2. ASSUME NEW w \in BagToSet(pending), WriteDone(w) \/ WriteFails(w)
      PROVE  LogsMove
  BY <1>2 DEF WriteDone, WriteFails, stateVars, logVars, LogsMove, KeepsUp, Up
<1>3. ASSUME NEW m \in BagToSet(messages), Receive(m) PROVE LogsMove
  <2> m.to.server \in Server
    BY MessageInFlight
  <2>1. CASE ReceiveRequestVoteRequest(m) \/ YieldToLeader(m)
    BY <2>1, BecomeFollowerKeepsUp
    DEF ReceiveRequestVoteRequest, YieldToLeader, logVars, LogsMove
  <2>2. CASE ReceiveVote(m)
    BY <2>2 DEF ReceiveVote, BecomeLeader, logVars, LogsMove, StateInv, KeepsUp, Up
  <2>3. CASE ReceiveAppendEntriesRequest(m)
    BY <2>3, ReceiveAppendEntriesRequestMovesLogs
  <2>4. CASE ReceiveResponseOfNewerTerm(m)
    BY <2>4, BecomeFollowerKeepsUp
    DEF ReceiveResponseOfNewerTerm, StepDown, logVars, LogsMove
  <2>5. CASE ReceiveAppendEntriesResponse(m) \/ ReceiveUnhandled(m)
    BY <2>5 DEF ReceiveAppendEntriesResponse, ReceiveUnhandled, Ignore, stateVars,
                logVars, LogsMove, KeepsUp, Up
  <2> QED BY <1>3, <2>1, <2>2, <2>3, <2>4, <2>5 DEF Receive
<1>4. CASE UNCHANGED vars
  BY <1>4 DEF vars, stateVars, logVars, LogsMove, KeepsUp, Up
<1> QED BY <1>1, <1>2, <1>3, <1>4 DEF Next

-----------------------------------------------------------------------------
(* What a step does to the terms: a server that is up after it is in a term *)
(* no earlier than before.                                                  *)
TermsGrow == \A s \in Server : Up(s)' => currentTerm[s] <= currentTerm'[s]

LEMMA MovesGrowTerms ==
  ASSUME IInv, DownInTermZero, Moves
  PROVE  TermsGrow /\ DownInTermZero'
<1> USE DEF IInv, ServerInv, TermsGrow, DownInTermZero, TermInv, StateInv, Up
<1>1. CASE Stays
  BY <1>1 DEF Stays
<1>2. ASSUME NEW s \in Server, Starts(s)
      PROVE  TermsGrow /\ DownInTermZero'
  <2>1. /\ role[s] = "down" /\ currentTerm'[s] \in Nat
        /\ role' = [role EXCEPT ![s] = "follower"]
        /\ currentTerm' = [currentTerm EXCEPT ![s] = currentTerm'[s]]
    BY <1>2 DEF Starts, Lifecycle!Boot, Lifecycle!MoveToTerm, Lifecycle!Move
  <2> QED BY <2>1
<1>3. ASSUME NEW s \in Server, MovesOn(s)
      PROVE  TermsGrow /\ DownInTermZero'
  <2>1. CASE Lifecycle!Exit(s)
    BY <2>1 DEF Lifecycle!Exit, Lifecycle!Move
  <2>2. CASE Lifecycle!Adopt(s) \/ Lifecycle!Stand(s)
    <3>1. /\ currentTerm'[s] > currentTerm[s] /\ currentTerm'[s] \in Nat
          /\ currentTerm' = [currentTerm EXCEPT ![s] = currentTerm'[s]]
          /\ \/ role' = [role EXCEPT ![s] = "follower"]
             \/ role' = [role EXCEPT ![s] = "candidate"]
      BY <2>2 DEF Lifecycle!Adopt, Lifecycle!Stand, Lifecycle!MoveToTerm, Lifecycle!Move
    <3>2. \A p \in Server : p # s =>
            role'[p] = role[p] /\ currentTerm'[p] = currentTerm[p]
      BY <3>1
    <3>3. role'[s] # "down" /\ currentTerm[s] <= currentTerm'[s]
      BY <3>1
    <3>4. \A p \in Server : currentTerm[p] <= currentTerm[p]
      OBVIOUS
    <3>5. DownInTermZero'
      BY <3>2, <3>3
    <3>6. TermsGrow
      BY <3>2, <3>3, <3>4
    <3> QED BY <3>5, <3>6
  <2>3. CASE Lifecycle!Win(s) \/ Lifecycle!Yield(s)
    <3>1. /\ currentTerm' = currentTerm /\ role[s] = "candidate"
          /\ \/ role' = [role EXCEPT ![s] = "leader"]
             \/ role' = [role EXCEPT ![s] = "follower"]
      BY <2>3 DEF Lifecycle!Win, Lifecycle!Yield, Lifecycle!Move
    <3> QED BY <3>1
  <2> QED BY <1>3, <2>1, <2>2, <2>3 DEF MovesOn
<1> QED BY <1>1, <1>2, <1>3 DEF Moves

(* A log that grew, was cut or stayed is well formed in its server's term.  *)
LEMMA LogsStayWellFormed ==
  ASSUME IInv, IInv', LogWellFormed, LogsMove, TermsGrow,
         DownHasEmptyLog, DownInTermZero'
  PROVE  LogWellFormed' /\ DownHasEmptyLog'
<1> USE DEF IInv, ServerInv
<1>1. ASSUME NEW p \in Server PROVE WellFormed(log[p], currentTerm[p])
  BY DEF LogWellFormed, WellFormed
<1>2. WellFormed(EmptyLog, 0)
  BY DEF WellFormed, EmptyLog, Sentinel
<1>3. \A p \in Server : /\ log[p] \in Seq(LogEntry)
                        /\ currentTerm[p] \in Nat /\ currentTerm'[p] \in Nat
  BY DEF LogInv, TermInv
<1>4. DownHasEmptyLog'
  <2>1. CASE KeepsUp /\ log' = log
    BY <2>1 DEF DownHasEmptyLog, KeepsUp, Up
  <2>2. ASSUME NEW s \in Server, LogGrows(s) PROVE DownHasEmptyLog'
    BY <2>2 DEF LogGrows, DownHasEmptyLog, LogInv
  <2>3. ASSUME NEW s \in Server, LogIsCut(s) PROVE DownHasEmptyLog'
    BY <2>3 DEF LogIsCut, DownHasEmptyLog, LogInv, StateInv
  <2>4. ASSUME NEW s \in Server, LogIsGone(s) PROVE DownHasEmptyLog'
    BY <2>4 DEF LogIsGone, DownHasEmptyLog, LogInv, StateInv
  <2> QED BY <2>1, <2>2, <2>3, <2>4 DEF LogsMove
<1>5. ASSUME NEW p \in Server PROVE WellFormed(log'[p], currentTerm'[p])
  <2>1. CASE ~ Up(p)'
    <3>1. currentTerm'[p] = 0 /\ log'[p] = EmptyLog
      BY <1>4, <2>1 DEF DownInTermZero, DownHasEmptyLog, Up
    <3> QED BY <1>2, <3>1
  <2>2. CASE Up(p)' /\ log'[p] = log[p]
    <3>1. currentTerm[p] <= currentTerm'[p]
      BY <2>2 DEF TermsGrow
    <3> QED BY <1>1, <1>3, <2>2, <3>1, LaterTermWellFormed
  <2>3. ASSUME NEW s \in Server, Up(p)', log'[p] # log[p], LogGrows(s)
        PROVE  WellFormed(log'[p], currentTerm'[p])
    <3>1. PICK entry \in LogEntry :
            /\ entry.index = NextIndex(log[s]) /\ entry.term = currentTerm[s]
            /\ log' = [log EXCEPT ![s] = Append(@, entry)]
      BY <2>3 DEF LogGrows
    <3>2. p = s /\ log'[p] = Append(log[p], entry)
      BY <2>3, <3>1 DEF LogInv
    <3>3. currentTerm'[p] = currentTerm[p]
      BY <2>3 DEF LogGrows
    <3> QED BY <1>1, <1>3, <3>1, <3>2, <3>3, AppendWellFormed
  <2>4. ASSUME NEW s \in Server, Up(p)', log'[p] # log[p], LogIsCut(s)
        PROVE  WellFormed(log'[p], currentTerm'[p])
    <3>1. PICK n \in 0..(Len(log[s]) - 1) : log' = [log EXCEPT ![s] = SubSeq(@, 1, n)]
      BY <2>4 DEF LogIsCut
    <3>2. p = s /\ log'[p] = SubSeq(log[p], 1, n)
      BY <2>4, <3>1 DEF LogInv
    <3>3. WellFormed(log'[p], currentTerm[p])
      BY <1>1, <1>3, <3>2, PrefixWellFormed
    <3>4. log'[p] \in Seq(LogEntry)
      BY DEF LogInv
    <3>5. currentTerm[p] <= currentTerm'[p]
      BY <2>4 DEF TermsGrow
    <3> QED BY <1>3, <3>3, <3>4, <3>5, LaterTermWellFormed
  <2>5. ASSUME NEW s \in Server, Up(p)', log'[p] # log[p], LogIsGone(s)
        PROVE  FALSE
    BY <2>5 DEF LogIsGone, LogInv, StateInv, Up
  <2> QED BY <2>1, <2>2, <2>3, <2>4, <2>5 DEF LogsMove
<1> QED BY <1>4, <1>5 DEF LogWellFormed, WellFormed

-----------------------------------------------------------------------------
(* The requests in flight: a step adds none, or a leader's.                 *)

LEMMA NoneAdded ==
  ASSUME RequestsHoldNothingNew, NEW new,
         BagToSet(messages') \subseteq BagToSet(messages) \cup new,
         \A m \in new : m.type # "AppendEntriesRequest"
  PROVE  RequestsHoldNothingNew'
  BY DEF RequestsHoldNothingNew, HoldsNothingNew

LEMMA TakeAddsNone ==
  ASSUME IInv, RequestsHoldNothingNew, NEW received, Take(received)
  PROVE  RequestsHoldNothingNew'
<1>1. BagToSet(messages') \subseteq BagToSet(messages)
  BY TakeElements DEF IInv, MessagesInv
<1> QED BY <1>1 DEF RequestsHoldNothingNew, HoldsNothingNew

LEMMA UnchangedAddsNone ==
  ASSUME RequestsHoldNothingNew, UNCHANGED messages
  PROVE  RequestsHoldNothingNew'
  BY DEF RequestsHoldNothingNew, HoldsNothingNew

LEMMA RespondAddsNone ==
  ASSUME IInv, RequestsHoldNothingNew, NEW m, NEW reply, Respond(m, reply),
         reply.type # "AppendEntriesRequest"
  PROVE  RequestsHoldNothingNew'
<1> DEFINE new == {reply}
<1>1. BagToSet(messages') \subseteq BagToSet(messages) \cup new
  BY RespondElements DEF IInv, MessagesInv, PendingInv
<1>2. \A x \in new : x.type # "AppendEntriesRequest"
  OBVIOUS
<1> HIDE DEF new
<1> QED BY <1>1, <1>2, NoneAdded

LEMMA SendAppendEntriesHoldsNothingNew ==
  ASSUME IInv, RequestsHoldNothingNew, NEW s \in Server, NEW received,
         NEW l \in Seq(LogEntry), WellFormed(l, currentTerm[s]),
         NEW next \in [Server -> Int \cup {NaN}],
         SendAppendEntries(s, received, next, l)
  PROVE  RequestsHoldNothingNew'
<1> DEFINE batch == {AppendEntriesTo(s, p, next[p], l) : p \in Peers(s)}
<1>1. currentTerm[s] \in Nat
  BY DEF IInv, ServerInv, TermInv
<1>2. \A p \in Peers(s) : HoldsNothingNew(AppendEntriesTo(s, p, next[p], l))
  <2> TAKE p \in Peers(s)
  <2>1. next[p] \in Int \cup {NaN}
    BY DEF Peers
  <2>2. \A k \in DOMAIN Slice(l, next[p]) : Slice(l, next[p])[k].index <= LastIndex(l)
    BY <1>1, <2>1, SliceHoldsNothingNew
  <2>3. /\ AppendEntriesTo(s, p, next[p], l).entries = Slice(l, next[p])
        /\ AppendEntriesTo(s, p, next[p], l).prevLogIndex = LastIndex(l)
    BY DEF AppendEntriesTo, AppendEntriesRequest
  <2> QED BY <2>2, <2>3 DEF HoldsNothingNew
<1>3. Send(received, batch)
  BY DEF SendAppendEntries
<1>4. \A m \in batch : HoldsNothingNew(m)
  BY <1>2
<1> HIDE DEF batch
<1>5. BagToSet(messages') \subseteq BagToSet(messages) \cup batch
  BY <1>3, SendElements DEF IInv, MessagesInv
<1> QED BY <1>4, <1>5 DEF RequestsHoldNothingNew, HoldsNothingNew

LEMMA ServerStepsHoldNothingNew ==
  ASSUME IInv, LogWellFormed, RequestsHoldNothingNew, NEW s \in Server,
         \/ Start(s)
         \/ Die(s)
         \/ Timeout(s)
         \/ Heartbeat(s)
         \/ \E command \in Command : Execute(s, command)
  PROVE  RequestsHoldNothingNew'
<1> USE DEF IInv, ServerInv
<1>1. /\ log[s] \in Seq(LogEntry) /\ currentTerm[s] \in Nat
      /\ nextIndex[s] \in [Server -> Int \cup {NaN}]
      /\ WellFormed(log[s], currentTerm[s])
  BY DEF LogInv, TermInv, StateInv, LogWellFormed, WellFormed
<1>2. CASE Start(s)
  BY <1>2, UnchangedAddsNone DEF Start
<1>3. CASE Die(s)
  <2> DEFINE rest == {m \in BagToSet(messages) : m.to.server # s}
  <2>1. messages' = Restrict(messages, rest)
    BY <1>3 DEF Die
  <2>2. DOMAIN messages' = rest
    BY <2>1 DEF Restrict
  <2>3. BagToSet(messages') \subseteq BagToSet(messages)
    BY <2>2 DEF BagToSet
  <2> QED BY <2>3 DEF RequestsHoldNothingNew, HoldsNothingNew
<1>4. CASE Timeout(s)
  <2> DEFINE requests ==
        {RequestVoteRequest(ProcessOf(s), ProcessOf(p), t) :
           p \in Peers(s),
           t \in (currentTerm[s] + 1)..(currentTerm[s] + ElectionsAfterTimeout(s))}
  <2>1. Send({}, requests)
    BY <1>4 DEF Timeout, StartElections
  <2>2. \A m \in requests : m.type # "AppendEntriesRequest"
    <3>1. \A from, to, t : RequestVoteRequest(from, to, t).type = "RequestVoteRequest"
      BY DEF RequestVoteRequest, EncodeThenDecode
    <3> QED BY <3>1
  <2> HIDE DEF requests
  <2>3. BagToSet(messages') \subseteq BagToSet(messages) \cup requests
    BY <2>1, SendElements DEF MessagesInv
  <2> QED BY <2>2, <2>3, NoneAdded
<1>5. CASE Heartbeat(s)
  BY <1>1, <1>5, SendAppendEntriesHoldsNothingNew DEF Heartbeat
<1>6. ASSUME NEW command \in Command, Execute(s, command)
      PROVE  RequestsHoldNothingNew'
  <2> DEFINE entry == [index |-> NextIndex(log[s]), term |-> currentTerm[s],
                       command |-> command]
  <2>1. entry \in LogEntry
    BY <1>1 DEF LogEntry, NextIndex
  <2>2. SendAppendEntries(s, {}, nextIndex[s], Append(log[s], entry))
    BY <1>6 DEF Execute
  <2>3. entry.index = NextIndex(log[s]) /\ entry.term = currentTerm[s]
    OBVIOUS
  <2> HIDE DEF entry
  <2>4. Append(log[s], entry) \in Seq(LogEntry)
    BY <1>1, <2>1, AppendType
  <2>5. WellFormed(Append(log[s], entry), currentTerm[s])
    BY <1>1, <2>1, <2>3, AppendWellFormed
  <2> QED BY <1>1, <2>2, <2>4, <2>5, SendAppendEntriesHoldsNothingNew
<1> QED BY <1>2, <1>3, <1>4, <1>5, <1>6

LEMMA ReceiveHoldsNothingNew ==
  ASSUME IInv, LogWellFormed, RequestsHoldNothingNew,
         NEW m \in BagToSet(messages), Receive(m)
  PROVE  RequestsHoldNothingNew'
<1> USE DEF IInv, ServerInv
<1> DEFINE s == m.to.server
<1>1. s \in Server
  BY MessageInFlight
<1>2. CASE ReceiveRequestVoteRequest(m)
  BY <1>2, RespondAddsNone DEF ReceiveRequestVoteRequest, RequestVoteResponse
<1>3. CASE ReceiveAppendEntriesRequest(m)
  BY <1>3, RespondAddsNone DEF ReceiveAppendEntriesRequest, AppendEntriesResponse
<1>4. CASE ReceiveVote(m)
  <2>1. CASE BecomeLeader(s, {m})
    <3>1. log[s] \in Seq(LogEntry) /\ WellFormed(log[s], currentTerm[s])
      BY <1>1 DEF LogInv, LogWellFormed, WellFormed
    <3>2. Undefined \in [Server -> Int \cup {NaN}]
      BY DEF Undefined
    <3> QED BY <1>1, <2>1, <3>1, <3>2, SendAppendEntriesHoldsNothingNew
            DEF BecomeLeader
  <2>2. CASE Take({m})
    BY <2>2, TakeAddsNone
  <2> QED BY <1>4, <2>1, <2>2 DEF ReceiveVote
<1>5. CASE YieldToLeader(m) \/ ReceiveAppendEntriesResponse(m)
  BY <1>5, TakeAddsNone DEF YieldToLeader, ReceiveAppendEntriesResponse
<1>6. CASE ReceiveResponseOfNewerTerm(m) \/ ReceiveUnhandled(m)
  BY <1>6, TakeAddsNone
  DEF ReceiveResponseOfNewerTerm, StepDown, ReceiveUnhandled, Ignore
<1> QED BY <1>2, <1>3, <1>4, <1>5, <1>6 DEF Receive

LEMMA NextHoldsNothingNew ==
  ASSUME IInv, LogWellFormed, RequestsHoldNothingNew, [Next]_vars
  PROVE  RequestsHoldNothingNew'
<1>1. ASSUME NEW s \in Server,
             \/ Start(s)
             \/ Crash(s)
             \/ Timeout(s)
             \/ TimeoutWithoutLog(s)
             \/ Heartbeat(s)
             \/ \E command \in Command : Execute(s, command)
      PROVE  RequestsHoldNothingNew'
  BY <1>1, ServerStepsHoldNothingNew DEF Crash, TimeoutWithoutLog
<1>2. ASSUME NEW w \in BagToSet(pending), WriteDone(w) \/ WriteFails(w)
      PROVE  RequestsHoldNothingNew'
  <2>1. w.reply.type # "AppendEntriesRequest"
    BY DEF IInv, PendingInv, Write, Responses, RequestVoteResponses,
           AppendEntriesResponses
  <2>2. Send({}, {w.reply}) \/ UNCHANGED messages
    BY <1>2 DEF WriteDone, SendThenResetTimer, WriteFails
  <2>3. CASE Send({}, {w.reply})
    <3> DEFINE new == {w.reply}
    <3>1. \A x \in new : x.type # "AppendEntriesRequest"
      BY <2>1
    <3>2. Send({}, new)
      BY <2>3
    <3> HIDE DEF new
    <3>3. BagToSet(messages') \subseteq BagToSet(messages) \cup new
      BY <3>2, SendElements DEF IInv, MessagesInv
    <3> QED BY <3>1, <3>3, NoneAdded
  <2>4. CASE UNCHANGED messages
    BY <2>4, UnchangedAddsNone
  <2> QED BY <2>2, <2>3, <2>4
<1>3. ASSUME NEW m \in BagToSet(messages), Receive(m) PROVE RequestsHoldNothingNew'
  BY <1>3, ReceiveHoldsNothingNew
<1>4. CASE UNCHANGED vars
  BY <1>4, UnchangedAddsNone DEF vars
<1> QED BY <1>1, <1>2, <1>3, <1>4 DEF Next

-----------------------------------------------------------------------------
(* The term's files.  A write that is added holds the term its server is in *)
(* after the step; a file changes by the end of one of its server's writes, *)
(* or before the server is up.                                              *)
HoldsOwnTerm(w) == w.file = "term" => w.value = currentTerm[w.reply.from.server]

LEMMA RespondWrites ==
  ASSUME IInv, NEW m \in BagToSet(messages), NEW reply, reply.from = m.to,
         Respond(m, reply)
  PROVE  \A w \in BagToSet(pending') : w \in BagToSet(pending) \/ HoldsOwnTerm(w)'
<1>1. BagToSet(pending') \subseteq BagToSet(pending) \cup FirstWrite(m.to.server, reply)
  BY RespondElements DEF IInv, MessagesInv, PendingInv
<1>2. \A w \in FirstWrite(m.to.server, reply) : HoldsOwnTerm(w)'
  BY DEF FirstWrite, VoteWrite, WriteOf, HoldsOwnTerm
<1> QED BY <1>1, <1>2

LEMMA NextWrites ==
  ASSUME IInv, [Next]_vars
  PROVE  \A w \in BagToSet(pending') : w \in BagToSet(pending) \/ HoldsOwnTerm(w)'
<1> DEFINE Writes ==
      \A w \in BagToSet(pending') : w \in BagToSet(pending) \/ HoldsOwnTerm(w)'
<1> SUFFICES Writes
  OBVIOUS
<1>1. ASSUME NEW s \in Server,
             \/ Start(s)
             \/ Crash(s)
             \/ Timeout(s)
             \/ TimeoutWithoutLog(s)
             \/ Heartbeat(s)
             \/ \E command \in Command : Execute(s, command)
      PROVE  Writes
  <2>1. CASE Die(s)
    <3> DEFINE rest == {w \in BagToSet(pending) : w.reply.from.server # s}
    <3>1. pending' = Restrict(pending, rest)
      BY <2>1 DEF Die
    <3>2. DOMAIN pending' = rest
      BY <3>1 DEF Restrict
    <3> QED BY <3>2 DEF BagToSet
  <2>2. CASE UNCHANGED pending
    BY <2>2
  <2> QED BY <1>1, <2>1, <2>2
          DEF Start, Crash, Timeout, TimeoutWithoutLog, Heartbeat, Execute
<1>2. ASSUME NEW w \in BagToSet(pending), WriteDone(w) PROVE Writes
  <2> DEFINE next == IF w.file = "term" THEN VoteWrite(w.reply.from.server, w.reply)
                     ELSE {}
             rest == pending (-) SetToBag({w})
  <2>1. pending' = rest (+) SetToBag(next)
    BY <1>2 DEF WriteDone
  <2>2. \A x \in next : x.file = "vote"
    BY DEF VoteWrite, WriteOf
  <2>3. IsABag(rest) /\ BagToSet(rest) \subseteq BagToSet(pending)
    BY SetToBagElements, BagDifferenceElements DEF IInv, PendingInv
  <2> HIDE DEF next, rest
  <2>4. BagToSet(pending') = BagToSet(rest) \cup next
    BY <2>1, <2>3, SetToBagElements, BagUnionElements
  <2> QED BY <2>2, <2>3, <2>4 DEF HoldsOwnTerm
<1>3. ASSUME NEW w \in BagToSet(pending), WriteFails(w) PROVE Writes
  <2>1. BagToSet(pending') \subseteq BagToSet(pending)
    BY <1>3, SetToBagElements, BagDifferenceElements DEF WriteFails, IInv, PendingInv
  <2> QED BY <2>1
<1>4. ASSUME NEW m \in BagToSet(messages), Receive(m) PROVE Writes
  <2>1. CASE ReceiveRequestVoteRequest(m)
    <3>1. PICK granted : Respond(m, RequestVoteResponse(m.to, m.from,
                                      TermAfter(m.to.server, m), granted))
      BY <2>1 DEF ReceiveRequestVoteRequest
    <3> QED BY <3>1, RespondWrites DEF RequestVoteResponse
  <2>2. CASE ReceiveAppendEntriesRequest(m)
    <3>1. PICK commit, success : Respond(m, AppendEntriesResponse(m.to, m.from,
                                              TermAfter(m.to.server, m), commit, success))
      BY <2>2 DEF ReceiveAppendEntriesRequest
    <3> QED BY <3>1, RespondWrites DEF AppendEntriesResponse
  <2>3. CASE UNCHANGED pending
    BY <2>3
  <2> QED BY <1>4, <2>1, <2>2, <2>3
          DEF Receive, ReceiveVote, YieldToLeader, ReceiveAppendEntriesResponse,
              ReceiveResponseOfNewerTerm, StepDown, ReceiveUnhandled, Ignore
<1>5. CASE UNCHANGED vars
  BY <1>5 DEF vars
<1> QED BY <1>1, <1>2, <1>3, <1>4, <1>5 DEF Next

(* What became of the term's file of a server that is up after the step.    *)
LEMMA NextFiles ==
  ASSUME IInv, RoleInv, [Next]_vars, NEW s \in Server, Up(s)'
  PROVE  \/ Up(s) /\ disk'[s].term = disk[s].term
         \/ ~ Up(s) /\ disk'[s].term = currentTerm'[s]
         \/ \E w \in BagToSet(pending) :
              /\ w.reply.from.server = s /\ w.file = "term" /\ disk'[s].term = w.value
<1> USE DEF IInv, ServerInv
<1> DEFINE Kept == Up(s) /\ disk'[s].term = disk[s].term
           Read == ~ Up(s) /\ disk'[s].term = currentTerm'[s]
           Written(w) == /\ w.reply.from.server = s /\ w.file = "term"
                         /\ disk'[s].term = w.value
<1> SUFFICES Kept \/ Read \/ \E w \in BagToSet(pending) : Written(w)
  OBVIOUS
<1>1. ASSUME NEW p \in Server, Start(p) PROVE Kept \/ Read
  <2>1. /\ ~ Up(p) /\ role' = [role EXCEPT ![p] = "follower"]
        /\ currentTerm' = [currentTerm EXCEPT ![p] = StoredTerm(p)]
        /\ disk' = [disk EXCEPT ![p].term = IF @ = Null THEN 0 ELSE @]
    BY <1>1 DEF Start, BecomeFollower
  <2>2. CASE p = s
    <3>1. disk'[s].term = IF disk[s].term = Null THEN 0 ELSE disk[s].term
      BY <2>1, <2>2 DEF ProcessInv
    <3> QED BY <2>1, <2>2, <3>1 DEF StoredTerm, TermInv
  <2>3. CASE p # s
    BY <2>1, <2>3 DEF ProcessInv, StateInv, Up
  <2> QED BY <2>2, <2>3
<1>2. ASSUME NEW p \in Server, Die(p) PROVE Kept
  <2>1. p # s /\ role'[s] = role[s]
    BY <1>2 DEF Die, StateInv, Up
  <2>2. disk'[s] = disk[s]
    BY <1>2, <2>1 DEF Die, ProcessInv
  <2> QED BY <2>1, <2>2 DEF Up
<1>3. ASSUME NEW w \in BagToSet(pending), WriteDone(w) PROVE Kept \/ Written(w)
  <2>1. /\ w.reply.from.server \in Server /\ w.file \in {"term", "vote"}
    BY MessageTypes DEF PendingInv, Write, Message
  <2>2. disk' = [disk EXCEPT ![w.reply.from.server][w.file] = w.value] /\ role' = role
    BY <1>3 DEF WriteDone
  <2> QED BY <2>1, <2>2 DEF ProcessInv, Up
<1>4. ASSUME disk' = disk, NEW p \in Server, Up(p), NEW r,
             role' = [role EXCEPT ![p] = r]
      PROVE  Kept
  BY <1>4 DEF StateInv, Up
<1>5. ASSUME UNCHANGED <<disk, role>> PROVE Kept
  BY <1>5 DEF Up
<1> HIDE DEF Kept, Read, Written
<1>6. ASSUME NEW p \in Server,
             \/ Start(p)
             \/ Crash(p)
             \/ Timeout(p)
             \/ TimeoutWithoutLog(p)
             \/ Heartbeat(p)
             \/ \E command \in Command : Execute(p, command)
      PROVE  Kept \/ Read
  <2>1. CASE Timeout(p)
    <3>1. Up(p)
      BY <2>1 DEF Timeout, RoleInv, Up
    <3>2. role' = [role EXCEPT ![p] = "candidate"] /\ disk' = disk
      BY <2>1 DEF Timeout, StartElections
    <3> QED BY <1>4, <3>1, <3>2
  <2>2. CASE Heartbeat(p) \/ \E command \in Command : Execute(p, command)
    BY <1>5, <2>2 DEF Heartbeat, Execute, stateVars, processVars
  <2> QED BY <1>1, <1>2, <1>6, <2>1, <2>2 DEF Crash, TimeoutWithoutLog
<1>7. ASSUME NEW w \in BagToSet(pending), WriteFails(w) PROVE Kept
  BY <1>5, <1>7 DEF WriteFails, stateVars, processVars
<1>8. ASSUME NEW m \in BagToSet(messages), Receive(m) PROVE Kept
  <2>1. Deliverable(m) /\ disk' = disk
    BY <1>8 DEF Receive, ReceiveRequestVoteRequest, ReceiveAppendEntriesRequest,
                HandledByFollower, ReceiveVote, YieldToLeader,
                ReceiveAppendEntriesResponse, ReceiveResponseOfNewerTerm, StepDown,
                ReceiveUnhandled, Ignore, processVars
  <2>2. m.to.server \in Server /\ Up(m.to.server)
    BY <2>1, Receiver
  <2>3. \/ \E r : role' = [role EXCEPT ![m.to.server] = r]
        \/ role' = role
    BY <1>8 DEF Receive, ReceiveRequestVoteRequest, ReceiveAppendEntriesRequest,
                BecomeFollower, ReceiveVote, BecomeLeader, YieldToLeader,
                ReceiveAppendEntriesResponse, ReceiveResponseOfNewerTerm, StepDown,
                ReceiveUnhandled, Ignore, stateVars
  <2> QED BY <1>4, <1>5, <2>1, <2>2, <2>3
<1>9. CASE UNCHANGED vars
  BY <1>5, <1>9 DEF vars, stateVars, processVars
<1> QED BY <1>3, <1>6, <1>7, <1>8, <1>9 DEF Next

LEMMA FilesStayBehind ==
  ASSUME IInv, IInv', ElectionInv, ElectionInv', TermsGrow, [Next]_vars,
         FilesNotAhead, TermWritesNotAhead
  PROVE  FilesNotAhead' /\ TermWritesNotAhead'
<1> USE DEF IInv, ServerInv
<1>1. ASSUME NEW s \in Server, Up(s)' PROVE disk'[s].term \in 0..currentTerm'[s]
  <2>1. /\ currentTerm[s] \in Nat /\ currentTerm'[s] \in Nat
        /\ currentTerm[s] <= currentTerm'[s]
    BY <1>1 DEF TermInv, TermsGrow
  <2>2. CASE Up(s) /\ disk'[s].term = disk[s].term
    BY <2>1, <2>2 DEF FilesNotAhead
  <2>3. CASE disk'[s].term = currentTerm'[s]
    BY <2>1, <2>3
  <2>4. ASSUME NEW w \in BagToSet(pending), w.reply.from.server = s,
               w.file = "term", disk'[s].term = w.value
        PROVE  disk'[s].term \in 0..currentTerm'[s]
    <3>1. w.value \in Nat /\ w.value <= currentTerm[s]
      BY <2>4 DEF PendingInv, Write, TermWritesNotAhead, TermWriteOf
    <3> QED BY <2>1, <2>4, <3>1
  <2> QED BY <1>1, <2>2, <2>3, <2>4, NextFiles DEF ElectionInv, ServerPart
<1>2. ASSUME NEW w \in BagToSet(pending') PROVE TermWriteOf(w)'
  <2>1. w \in Write /\ w.reply.from.server \in Server
    BY MessageTypes DEF PendingInv, Write, Message
  <2> DEFINE s == w.reply.from.server
  <2>2. Up(s)'
    BY DEF ElectionInv, WritesOfUp, Responding
  <2>3. /\ currentTerm[s] \in Nat /\ currentTerm'[s] \in Nat
        /\ currentTerm[s] <= currentTerm'[s]
    BY <2>1, <2>2 DEF TermInv, TermsGrow
  <2>4. CASE w \in BagToSet(pending) /\ w.file = "term"
    <3>1. w.value \in Nat /\ w.value <= currentTerm[s]
      BY <2>1, <2>4 DEF Write, TermWritesNotAhead, TermWriteOf
    <3> QED BY <2>3, <3>1 DEF TermWriteOf
  <2>5. CASE HoldsOwnTerm(w)'
    BY <2>3, <2>5 DEF HoldsOwnTerm, TermWriteOf
  <2>6. CASE w.file # "term"
    BY <2>6 DEF TermWriteOf
  <2> QED BY <2>4, <2>5, <2>6, NextWrites
<1> QED BY <1>1, <1>2 DEF FilesNotAhead, TermWritesNotAhead

-----------------------------------------------------------------------------
LEMMA InitLogs == Init => LogsInv
<1> SUFFICES ASSUME Init PROVE LogsInv
  OBVIOUS
<1>1. BagToSet(EmptyBag) = {}
  BY SetToBagElements DEF EmptyBag
<1>2. \A s \in Server : log[s] = EmptyLog /\ currentTerm[s] = 0 /\ ~ Up(s)
  BY DEF Init, Up
<1>3. LogWellFormed
  BY <1>2 DEF LogWellFormed, EmptyLog, Sentinel
<1>4. RequestsHoldNothingNew /\ TermWritesNotAhead
  BY <1>1 DEF Init, RequestsHoldNothingNew, TermWritesNotAhead
<1> QED BY <1>2, <1>3, <1>4
        DEF LogsInv, DownInTermZero, DownHasEmptyLog, FilesNotAhead

LEMMA NextKeepsLogs ==
  IInv /\ ElectionInv /\ LogsInv /\ [Next]_vars => LogsInv' /\ LogsMove
<1> SUFFICES ASSUME IInv, ElectionInv, LogsInv, [Next]_vars PROVE LogsInv' /\ LogsMove
  OBVIOUS
<1> USE DEF LogsInv
<1>1. IInv' /\ ElectionInv' /\ Moves
  BY NextKeeps, NextKeepsElection
<1>2. TermsGrow /\ DownInTermZero'
  BY <1>1, MovesGrowTerms
<1>3. LogsMove
  BY NextMovesLogs
<1>4. LogWellFormed' /\ DownHasEmptyLog'
  BY <1>1, <1>2, <1>3, LogsStayWellFormed
<1>5. RequestsHoldNothingNew'
  BY NextHoldsNothingNew
<1>6. FilesNotAhead' /\ TermWritesNotAhead'
  BY <1>1, <1>2, FilesStayBehind
<1> QED BY <1>2, <1>3, <1>4, <1>5, <1>6

THEOREM LogsInvariant == Spec => [](IInv /\ ElectionInv /\ LogsInv)
<1>1. Init => IInv /\ ElectionInv /\ LogsInv
  BY InitInvariant, InitElection, InitLogs
<1>2. IInv /\ ElectionInv /\ LogsInv /\ [Next]_vars => (IInv /\ ElectionInv /\ LogsInv)'
  BY NextKeeps, NextKeepsElection, NextKeepsLogs
<1> QED BY <1>1, <1>2, PTL DEF Spec

LEMMA LogsInvImplies == IInv /\ LogsInv => LogWellFormed /\ TermFileNotAhead
  BY DEF LogsInv, FilesNotAhead, TermWritesNotAhead, TermWriteOf, TermFileNotAhead

(* An entry is at the position of its index and of a term no earlier than   *)
(* the entry before it has, and no later than its server's.                 *)
THEOREM LogsAreWellFormed == Spec => []LogWellFormed
  BY LogsInvariant, LogsInvImplies, PTL

(* No file of a term, nor a write under way to it, is ahead of its server.  *)
THEOREM TermFilesStayBehind == Spec => []TermFileNotAhead
  BY LogsInvariant, LogsInvImplies, PTL

-----------------------------------------------------------------------------
(* Only a leader's log grows.                                               *)
GrowsOrIsCut(s) ==
  LET kept == SubSeq(log'[s], 1, Len(log'[s]) - 1) IN
  IF role'[s] = "leader"
  THEN kept = log[s] /\ LastTerm(log'[s]) = currentTerm[s]
  ELSE Len(log'[s]) < Len(log[s]) /\ log'[s] = SubSeq(log[s], 1, Len(log'[s]))

LEMMA LogsMoveAtLeader ==
  ASSUME IInv, LogsMove, NEW s \in Server, role'[s] # "down", log'[s] # log[s]
  PROVE  GrowsOrIsCut(s)
<1> USE DEF IInv, ServerInv
<1>1. log[s] \in Seq(LogEntry) /\ Len(log[s]) \in Nat
  BY DEF LogInv
<1>2. ASSUME NEW p \in Server, LogGrows(p) PROVE GrowsOrIsCut(s)
  <2>1. PICK entry \in LogEntry :
          entry.term = currentTerm[p] /\ log' = [log EXCEPT ![p] = Append(@, entry)]
    BY <1>2 DEF LogGrows
  <2>2. p = s /\ log'[s] = Append(log[s], entry) /\ role'[s] = "leader"
    BY <1>2, <2>1 DEF LogInv, LogGrows
  <2>3. /\ SubSeq(Append(log[s], entry), 1, Len(Append(log[s], entry)) - 1) = log[s]
        /\ Len(Append(log[s], entry)) = Len(log[s]) + 1
        /\ Append(log[s], entry)[Len(log[s]) + 1] = entry
    BY <1>1
  <2>4. LastTerm(log'[s]) = entry.term
    BY <1>1, <2>2, <2>3 DEF LastTerm, LastIndex, GetEntry
  <2> QED BY <2>1, <2>2, <2>3, <2>4 DEF GrowsOrIsCut
<1>3. ASSUME NEW p \in Server, LogIsCut(p) PROVE GrowsOrIsCut(s)
  <2>1. PICK n \in 0..(Len(log[p]) - 1) : log' = [log EXCEPT ![p] = SubSeq(@, 1, n)]
    BY <1>3 DEF LogIsCut
  <2>2. p = s /\ log'[s] = SubSeq(log[s], 1, n) /\ role'[s] = "follower"
    BY <1>3, <2>1 DEF LogInv, LogIsCut, StateInv
  <2>3. Len(SubSeq(log[s], 1, n)) = n
    BY <1>1, <2>2
  <2> QED BY <1>1, <2>1, <2>2, <2>3 DEF GrowsOrIsCut
<1>4. ASSUME NEW p \in Server, LogIsGone(p) PROVE FALSE
  BY <1>4 DEF LogIsGone, LogInv, StateInv
<1> QED BY <1>2, <1>3, <1>4 DEF LogsMove

(* In every step of every cluster the log of a server that stays up grows   *)
(* by a leader's own entry, is cut back to a prefix, or stays.              *)
THEOREM LogsGrowOnlyAtLeaders == Spec => LogGrowsOnlyAtLeader
<1> DEFINE LogStep ==
      \A s \in Server :
        Up(s) /\ role'[s] # "down" /\ log'[s] # log[s] => GrowsOrIsCut(s)
<1>1. IInv /\ ElectionInv /\ LogsInv /\ [Next]_vars => [LogStep]_vars
  BY NextKeepsLogs, LogsMoveAtLeader
<1>2. Spec => [][LogStep]_vars
  <2> HIDE DEF LogStep
  <2> QED BY <1>1, LogsInvariant, PTL DEF Spec
<1> QED BY <1>2 DEF LogGrowsOnlyAtLeader, GrowsOrIsCut

-----------------------------------------------------------------------------
(* A log that was cut to nothing stays so while its process lives: there is *)
(* nothing left to cut, and only a leader, which has an entry, would append.*)
LEMMA EmptyLogStays ==
  ASSUME IInv, IInv', LogsMove,
         NEW s \in Server, Up(s), log[s] = <<>>, role'[s] # "down"
  PROVE  role'[s] = "follower" /\ log'[s] = <<>>
<1> USE DEF IInv, ServerInv
<1>1. log'[s] = <<>>
  <2>1. CASE UNCHANGED log
    BY <2>1
  <2>2. ASSUME NEW p \in Server, p # s, LogGrows(p) \/ LogIsCut(p) \/ LogIsGone(p)
        PROVE  log'[s] = log[s]
    BY <2>2 DEF LogGrows, LogIsCut, LogIsGone, LogInv
  <2>3. ~ LogGrows(s)
    BY DEF LogGrows, StanderHasLog
  <2>4. ~ LogIsCut(s)
    <3>1. 0..(Len(log[s]) - 1) = {}
      OBVIOUS
    <3> QED BY <3>1 DEF LogIsCut
  <2>5. ~ LogIsGone(s)
    BY DEF LogIsGone, StateInv
  <2> QED BY <2>1, <2>2, <2>3, <2>4, <2>5 DEF LogsMove
<1>2. role'[s] \in Role /\ role'[s] \notin {"candidate", "leader"}
  BY <1>1 DEF StateInv, StanderHasLog
<1> QED BY <1>1, <1>2 DEF Role

(* A server whose log was cut to nothing gets no entry again and neither    *)
(* stands nor leads: it follows until it ends, in its next election at the  *)
(* latest.                                                                  *)
THEOREM EmptiedServersFollow == Spec => EmptiedServersOnlyFollow
<1> DEFINE FollowsStep ==
      \A s \in Server : Up(s) /\ log[s] = <<>> /\ role'[s] # "down" =>
        role'[s] = "follower" /\ log'[s] = <<>>
<1>1. IInv /\ ElectionInv /\ LogsInv /\ [Next]_vars => [FollowsStep]_vars
  <2> SUFFICES ASSUME IInv, LogsInv, [Next]_vars PROVE FollowsStep
    OBVIOUS
  <2>1. IInv'
    BY NextKeeps
  <2>2. LogsMove
    BY NextMovesLogs DEF LogsInv
  <2> QED BY <2>1, <2>2, EmptyLogStays
<1>2. Spec => [][FollowsStep]_vars
  <2> HIDE DEF FollowsStep
  <2> QED BY <1>1, LogsInvariant, PTL DEF Spec
<1> QED BY <1>2 DEF EmptiedServersOnlyFollow
=============================================================================
