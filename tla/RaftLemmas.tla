----------------------------- MODULE RaftLemmas -----------------------------
(***************************************************************************)
(* Facts the proofs about Raft rest on: bags, messages, logs, the median.   *)
(***************************************************************************)
EXTENDS RaftProperties, FiniteSetTheorems, WellFoundedInduction, TLAPS

-----------------------------------------------------------------------------
(* Bags of messages and of writes.                                          *)

(* The union of two bags is a bag of the elements of both.                  *)
LEMMA BagUnionElements ==
  ASSUME NEW B, NEW C, IsABag(B), IsABag(C)
  PROVE  /\ IsABag(B (+) C)
         /\ BagToSet(B (+) C) = BagToSet(B) \cup BagToSet(C)
  BY DEF IsABag, BagToSet, (+)

(* Taking elements out of a bag leaves a bag of elements that were there.   *)
LEMMA BagDifferenceElements ==
  ASSUME NEW B, NEW C, IsABag(B), IsABag(C)
  PROVE  /\ IsABag(B (-) C)
         /\ BagToSet(B (-) C) \subseteq BagToSet(B)
  BY DEF IsABag, BagToSet, (-)

LEMMA SetToBagElements ==
  ASSUME NEW S
  PROVE  IsABag(SetToBag(S)) /\ BagToSet(SetToBag(S)) = S
  BY DEF IsABag, BagToSet, SetToBag

LEMMA RestrictElements ==
  ASSUME NEW B, IsABag(B), NEW S \in SUBSET DOMAIN B
  PROVE  IsABag(Restrict(B, S)) /\ BagToSet(Restrict(B, S)) \subseteq BagToSet(B)
  BY DEF IsABag, BagToSet, Restrict

(* What is in flight after a send was in flight before or has been sent.    *)
LEMMA SendElements ==
  ASSUME NEW received, NEW batch, IsABag(messages), Send(received, batch)
  PROVE  /\ IsABag(messages')
         /\ BagToSet(messages') \subseteq BagToSet(messages) \cup batch
<1>1. PICK sent \in SUBSET {m \in batch : Reachable(m.to)} :
        messages' = (messages (-) SetToBag(received)) (+) SetToBag(sent)
  BY DEF Send
<1> DEFINE rest == messages (-) SetToBag(received)
<1>2. IsABag(rest) /\ BagToSet(rest) \subseteq BagToSet(messages)
  BY SetToBagElements, BagDifferenceElements
<1>3. IsABag(SetToBag(sent)) /\ BagToSet(SetToBag(sent)) = sent
  BY SetToBagElements
<1> HIDE DEF rest
<1>4. /\ IsABag(rest (+) SetToBag(sent))
      /\ BagToSet(rest (+) SetToBag(sent)) = BagToSet(rest) \cup sent
  BY <1>2, <1>3, BagUnionElements
<1>5. messages' = rest (+) SetToBag(sent)
  BY <1>1 DEF rest
<1> QED
  BY <1>1, <1>2, <1>4, <1>5

LEMMA TakeElements ==
  ASSUME NEW received, IsABag(messages), Take(received)
  PROVE  /\ IsABag(messages')
         /\ BagToSet(messages') \subseteq BagToSet(messages)
  BY SetToBagElements, BagDifferenceElements DEF Take

(* A response is in flight or held up by its first write.                   *)
LEMMA RespondElements ==
  ASSUME NEW m, NEW reply, IsABag(messages), IsABag(pending), Respond(m, reply)
  PROVE  /\ IsABag(messages')
         /\ BagToSet(messages') \subseteq BagToSet(messages) \cup {reply}
         /\ IsABag(pending')
         /\ BagToSet(pending') \subseteq
              BagToSet(pending) \cup FirstWrite(m.to.server, reply)
<1> DEFINE first == FirstWrite(m.to.server, reply)
<1>1. pending' = pending (+) SetToBag(first)
  BY DEF Respond
<1>2. Send({m}, {reply}) \/ Take({m})
  BY DEF Respond
<1> HIDE DEF first
<1>3. IsABag(pending') /\ BagToSet(pending') = BagToSet(pending) \cup first
  BY <1>1, SetToBagElements, BagUnionElements
<1>4. /\ IsABag(messages')
      /\ BagToSet(messages') \subseteq BagToSet(messages) \cup {reply}
  <2>1. CASE Send({m}, {reply})
    BY <2>1, SendElements
  <2>2. CASE Take({m})
    BY <2>2, TakeElements
  <2> QED BY <1>2, <2>1, <2>2
<1> QED
  BY <1>3, <1>4 DEF first

-----------------------------------------------------------------------------
(* The messages the code makes are messages.                                *)

LEMMA RequestVoteRequestType ==
  ASSUME NEW from \in Process, NEW to \in Process, NEW term \in Nat
  PROVE  RequestVoteRequest(from, to, term) \in RequestVoteRequests
  BY DEF RequestVoteRequest, EncodeThenDecode, RequestVoteRequests

LEMMA RequestVoteResponseType ==
  ASSUME NEW from \in Process, NEW to \in Process, NEW term \in Nat,
         NEW granted \in BOOLEAN
  PROVE  RequestVoteResponse(from, to, term, granted) \in RequestVoteResponses
  BY DEF RequestVoteResponse, RequestVoteResponses

LEMMA AppendEntriesResponseType ==
  ASSUME NEW from \in Process, NEW to \in Process, NEW term \in Nat,
         NEW commit \in Nat, NEW success \in BOOLEAN
  PROVE  AppendEntriesResponse(from, to, term, commit, success)
           \in AppendEntriesResponses
  BY DEF AppendEntriesResponse, AppendEntriesResponses, Process

(* A message of a type has the fields of the type.                          *)
LEMMA MessageTypes ==
  ASSUME NEW m \in Message
  PROVE  /\ m.from \in Process /\ m.to \in Process /\ m.term \in Nat
         /\ m.from.server \in Server /\ m.to.server \in Server
         /\ m.type = "RequestVoteRequest" => m \in RequestVoteRequests
         /\ m.type = "RequestVoteResponse" => m \in RequestVoteResponses
         /\ m.type = "AppendEntriesRequest" => m \in AppendEntriesRequests
         /\ m.type = "AppendEntriesResponse" => m \in AppendEntriesResponses
  BY DEF Message, Responses, RequestVoteRequests, RequestVoteResponses,
         AppendEntriesRequests, AppendEntriesResponses, Process

-----------------------------------------------------------------------------
(* Logs stay sequences of entries.                                          *)

(* A set of naturals that is not empty has a least element.                 *)
LEMMA MinElement ==
  ASSUME NEW K \in SUBSET Nat, K # {}
  PROVE  Min(K) \in K /\ \A j \in K : Min(K) <= j
<1> DEFINE Less == OpToRel(<, Nat)
<1>1. IsWellFoundedOn(Less, Nat)
  BY NatLessThanWellFounded
<1>2. \A i, j \in Nat : i < j => <<i, j>> \in Less
  BY DEF OpToRel
<1> HIDE DEF Less
<1>3. PICK k \in K : \A j \in K : ~ (<<j, k>> \in Less)
  BY <1>1, WFMin, Zenon
<1>4. \A j \in K : ~ (j < k)
  BY <1>2, <1>3
<1>5. \A j \in K : k <= j
  <2> TAKE j \in K
  <2>1. j \in Nat /\ k \in Nat
    OBVIOUS
  <2>2. ~ (j < k)
    BY <1>4
  <2> QED BY <2>1, <2>2
<1> QED BY <1>5 DEF Min

LEMMA SliceType ==
  ASSUME NEW l \in Seq(LogEntry), NEW index \in Int \cup {NaN}
  PROVE  Slice(l, index) \in Seq(LogEntry)
  BY LogAssumption DEF Slice

LEMMA StoreEntriesType ==
  ASSUME NEW l \in Seq(LogEntry), NEW es \in Seq(LogEntry)
  PROVE  StoreEntries(l, es) \in Seq(LogEntry)
<1> DEFINE conflicts == Conflicts(l, es)
           next == {k \in DOMAIN es : es[k].index = NextIndex(l)}
<1>1. conflicts \in SUBSET 1..Len(es) /\ next \in SUBSET 1..Len(es)
  BY DEF Conflicts
<1>2. StoreEntries(l, es) =
        IF conflicts # {} THEN TruncateAt(l, es[Min(conflicts)].index)
        ELSE IF next # {} THEN l \o SubSeq(es, Min(next), Len(es)) ELSE l
  BY DEF StoreEntries
<1>3. \A k \in conflicts : es[k].index \in Nat /\ HasEntry(l, es[k].index)
  <2> TAKE k \in conflicts
  <2>1. k \in DOMAIN es /\ HasEntry(l, es[k].index)
    BY DEF Conflicts
  <2>2. es[k] \in LogEntry
    BY <2>1
  <2> QED BY <2>1, <2>2 DEF LogEntry
<1> HIDE DEF conflicts, next
<1>4. CASE conflicts # {}
  <2> Len(es) \in Nat
    OBVIOUS
  <2>1. Min(conflicts) \in conflicts
    BY <1>1, <1>4, MinElement
  <2>2. \A i \in Nat : HasEntry(l, i) => SubSeq(l, 1, i) \in Seq(LogEntry)
    BY DEF HasEntry, LastIndex
  <2> QED BY <1>2, <1>3, <1>4, <2>1, <2>2 DEF TruncateAt
<1>5. CASE conflicts = {} /\ next # {}
  <2>1. Len(es) \in Nat
    OBVIOUS
  <2>2. next \in SUBSET Nat
    BY <1>1, <2>1
  <2>3. Min(next) \in next
    BY <1>5, <2>2, MinElement
  <2>4. Min(next) \in 1..Len(es)
    BY <1>1, <2>3
  <2>5. SubSeq(es, Min(next), Len(es)) \in Seq(LogEntry)
    BY <2>4
  <2> QED BY <1>2, <1>5, <2>5
<1>6. CASE conflicts = {} /\ next = {}
  BY <1>2, <1>6
<1> QED BY <1>4, <1>5, <1>6

LEMMA AppendType ==
  ASSUME NEW l \in Seq(LogEntry), NEW entry \in LogEntry
  PROVE  Append(l, entry) \in Seq(LogEntry) /\ Append(l, entry) # <<>>
<1>1. Append(l, entry) \in Seq(LogEntry)
  OBVIOUS
<1>2. Len(Append(l, entry)) = Len(l) + 1 /\ Len(l) \in Nat
  OBVIOUS
<1>3. Len(<<>>) = 0
  OBVIOUS
<1>4. Append(l, entry) # <<>>
  BY <1>2, <1>3
<1> QED BY <1>1, <1>4

(* The last entry of a log that has one: its index and its term.            *)
LEMMA LastEntryType ==
  ASSUME NEW l \in Seq(LogEntry), l # <<>>
  PROVE  LastIndex(l) \in Nat /\ LastTerm(l) \in Nat
<1>1. Len(l) \in Nat \ {0}
  OBVIOUS
<1>2. Len(l) \in DOMAIN l
  BY <1>1
<1>3. l[Len(l)] \in LogEntry
  BY <1>2
<1>4. LastIndex(l) + 1 = Len(l)
  BY <1>1 DEF LastIndex
<1> QED BY <1>1, <1>3, <1>4 DEF LastIndex, LastTerm, GetEntry, LogEntry

-----------------------------------------------------------------------------
(* The median of zeros.                                                     *)

(* Whichever followers answered, if every match index they left is zero, so *)
(* is the median of these and of the zeros under array positions.           *)
LEMMA MedianOfZeros ==
  ASSUME NEW match \in [Server -> {0, Null}]
  PROVE  MedianMatchIndex(match) = 0
<1> DEFINE answered == Answered(match)
           values == {0} \cup {match[p] : p \in answered}
           count == Cardinality(Server) - 1 + Cardinality(answered)
<1>1. values = {0}
  BY DEF Answered
<1>2. {p \in answered : match[p] <= 0} = answered
  BY DEF Answered
<1>3. CountUpTo(match, 0) = count
  BY <1>2 DEF CountUpTo
<1>4. Cardinality(Server) \in Nat /\ Cardinality(answered) \in Nat
  <2>1. IsFiniteSet(Server) /\ answered \subseteq Server
    BY ClusterAssumption DEF Answered
  <2> QED BY <2>1, FS_Subset, FS_CardinalityType
<1>5. count \in Nat \ {0}
  BY <1>4, ClusterAssumption
<1>6. MedianMatchIndex(match)
        = Min({v \in values : CountUpTo(match, v) > MedianPosition(count)})
  BY DEF MedianMatchIndex
<1> HIDE DEF answered, values, count
<1>7. count > MedianPosition(count)
  BY <1>5 DEF MedianPosition
<1>8. {v \in values : CountUpTo(match, v) > MedianPosition(count)} = {0}
  BY <1>1, <1>3, <1>7
<1>9. Min({0}) = 0
  BY DEF Min
<1> QED BY <1>6, <1>8, <1>9
=============================================================================
