-------------------------- MODULE EntryLoopProofs --------------------------
(***************************************************************************)
(* The AppendEntries receiver's loop computes StoreEntries, for logs of any *)
(* length and terms: theorems about EntryLoop.                              *)
(***************************************************************************)
EXTENDS EntryLoop, NaturalsInduction, SequenceTheorems,
        WellFoundedInduction, TLAPS

(* What the loop relies on of its inputs: the entries of one message are    *)
(* those of consecutive places in the leader's log.                         *)
Consecutive(es) ==
  \A k \in DOMAIN es : es[k].index = es[1].index + k - 1

(* After some of the entries the log is what StoreEntries makes of these.   *)
LoopInv ==
  /\ given \in Seq(LogEntry)
  /\ entries \in Seq(LogEntry)
  /\ Consecutive(entries)
  /\ position \in 0..Len(entries)
  /\ stored = StoreEntries(given, SubSeq(entries, 1, position))

-----------------------------------------------------------------------------
(* One element of a sequence.                                               *)
LEMMA SliceOfOne ==
  ASSUME NEW S, NEW s \in Seq(S), NEW i \in 1..Len(s)
  PROVE  /\ SubSeq(s, i, i) \in Seq(S)
         /\ Len(SubSeq(s, i, i)) = 1
         /\ SubSeq(s, i, i)[1] = s[i]
<1>1. Len(SubSeq(s, i, i)) = 1
  OBVIOUS
<1>2. SubSeq(s, i, i) \in Seq(S)
  OBVIOUS
<1>3. SubSeq(s, i, i)[1] = s[i]
  OBVIOUS
<1> QED BY <1>1, <1>2, <1>3

(* A set of numbers has its least element: what Min chooses is there.       *)
LEMMA MinElement ==
  ASSUME NEW K \in SUBSET Nat, K # {}
  PROVE  Min(K) \in K /\ \A j \in K : Min(K) <= j
<1> DEFINE Less == OpToRel(<, Nat)
<1>1. IsWellFoundedOn(Less, Nat)
  BY NatLessThanWellFounded
<1>2. \A i, j \in Nat : i < j => <<i, j>> \in Less
  BY DEF OpToRel
<1> HIDE DEF Less
<1>3. PICK k \in K : \A j \in K : ~ (<<j, k>> \in Less)
  BY <1>1, WFMin, Zenon
<1>4. \A j \in K : ~ (j < k)
  BY <1>2, <1>3
<1>5. \A j \in K : k <= j
  <2> TAKE j \in K
  <2>1. j \in Nat /\ k \in Nat
    OBVIOUS
  <2>2. ~ (j < k)
    BY <1>4
  <2> QED BY <2>1, <2>2
<1> QED BY <1>5 DEF Min

LEMMA LeastOfOne ==
  ASSUME NEW n \in Nat
  PROVE  Min({n}) = n
<1>1. {n} \in SUBSET Nat /\ {n} # {}
  OBVIOUS
<1>2. Min({n}) \in {n}
  BY <1>1, MinElement
<1> QED BY <1>2

LEMMA LogsAreSequences ==
  ASSUME NEW l \in Logs
  PROVE  /\ l \in Seq(LogEntry)
         /\ \A i \in DOMAIN l : l[i].index = i - 1
<1>1. PICK n \in 1..MaxLen : l \in LogsOfLength(n)
  BY DEF Logs
<1>2. n \in Nat /\ n > 0 /\ MaxTerm \in Nat
  BY LengthsAssumption
<1>3. /\ l \in [1..n -> [index : 0..(n - 1), term : 0..MaxTerm, command : {NoCommand}]]
      /\ l[1] = Sentinel
      /\ \A i \in 2..n : l[i].index = i - 1
  BY <1>1 DEF LogsOfLength
<1>4. [index : 0..(n - 1), term : 0..MaxTerm, command : {NoCommand}] \subseteq LogEntry
  BY <1>2 DEF LogEntry
<1>5. l \in [1..n -> LogEntry]
  BY <1>3, <1>4
<1>6. l[1].index = 0
  BY <1>3 DEF Sentinel
<1> QED BY <1>2, <1>3, <1>5, <1>6

LEMMA SlicesAreConsecutive ==
  ASSUME NEW l \in Logs, NEW index \in Int \cup {NaN}
  PROVE  Slice(l, index) \in Seq(LogEntry) /\ Consecutive(Slice(l, index))
<1> DEFINE first == IF index = NaN \/ (index < 0 /\ Len(l) + index < 0) THEN 0
                    ELSE IF index < 0 THEN Len(l) + index
                    ELSE index
<1>1. first \in Nat
  BY LogAssumption, LogsAreSequences
<1>2. Slice(l, index) = SubSeq(l, first + 1, Len(l))
  BY DEF Slice
<1> HIDE DEF first
<1>3. /\ l \in Seq(LogEntry) /\ Len(l) \in Nat /\ DOMAIN l = 1..Len(l)
      /\ \A i \in 1..Len(l) : l[i].index = i - 1
  BY LogsAreSequences
<1> DEFINE es == SubSeq(l, first + 1, Len(l))
<1>4. /\ es \in Seq(LogEntry)
      /\ \A k \in DOMAIN es : /\ k \in 1..(Len(l) - first) /\ 1 \in DOMAIN es
                              /\ es[k] = l[first + k]
  BY <1>1, <1>3
<1>5. \A k \in DOMAIN es : es[k].index = first + k - 1
  BY <1>1, <1>3, <1>4
<1>6. Consecutive(es)
  <2> HIDE DEF es
  <2> QED BY <1>1, <1>4, <1>5 DEF Consecutive
<1> QED BY <1>2, <1>4, <1>6

-----------------------------------------------------------------------------
(* The first p entries of a message: which of them conflict with the log,   *)
(* and which is next.                                                       *)
Conflicting(g, es, p) ==
  {k \in 1..p : es[k].index < Len(g) /\ es[k].term # LastTerm(g)}

Following(g, es, p) == {k \in 1..p : es[k].index = Len(g)}

LEMMA FirstEntries ==
  ASSUME NEW es \in Seq(LogEntry), NEW p \in 0..Len(es)
  PROVE  /\ SubSeq(es, 1, p) \in Seq(LogEntry)
         /\ Len(SubSeq(es, 1, p)) = p
         /\ DOMAIN SubSeq(es, 1, p) = 1..p
         /\ \A k \in 1..p : SubSeq(es, 1, p)[k] = es[k]
  OBVIOUS

LEMMA EntryIndices ==
  ASSUME NEW es \in Seq(LogEntry), Consecutive(es)
  PROVE  \A k \in 1..Len(es) : /\ es[k] \in LogEntry
                               /\ es[k].index \in Nat
                               /\ es[k].index = es[1].index + k - 1
                               /\ es[1].index \in Nat
<1>1. \A k \in 1..Len(es) : es[k] \in LogEntry /\ 1 \in 1..Len(es)
  OBVIOUS
<1>2. DOMAIN es = 1..Len(es)
  OBVIOUS
<1> QED BY <1>1, <1>2 DEF Consecutive, LogEntry

LEMMA StoredOfFirst ==
  ASSUME NEW g \in Seq(LogEntry), NEW es \in Seq(LogEntry), Consecutive(es),
         NEW p \in 0..Len(es)
  PROVE  StoreEntries(g, SubSeq(es, 1, p)) =
           IF Conflicting(g, es, p) # {}
           THEN SubSeq(g, 1, es[Min(Conflicting(g, es, p))].index)
           ELSE IF Following(g, es, p) # {}
           THEN g \o SubSeq(es, Min(Following(g, es, p)), p)
           ELSE g
<1> DEFINE front == SubSeq(es, 1, p)
           C == Conflicting(g, es, p)
           N == Following(g, es, p)
<1>1. p \in Nat /\ Len(g) \in Nat /\ Len(es) \in Nat /\ p <= Len(es)
  OBVIOUS
<1>2. /\ front \in Seq(LogEntry) /\ Len(front) = p /\ DOMAIN front = 1..p
      /\ \A k \in 1..p : front[k] = es[k]
  BY FirstEntries
<1>3. \A k \in 1..p : es[k].index \in Nat
  BY <1>1, EntryIndices
<1> HIDE DEF front
<1>4. Conflicts(g, front) = C
  BY <1>1, <1>2, <1>3 DEF Conflicts, HasEntry, LastIndex, Conflicting
<1>5. {k \in DOMAIN front : front[k].index = NextIndex(g)} = N
  BY <1>1, <1>2, <1>3 DEF NextIndex, Following
<1>6. StoreEntries(g, front) =
        IF C # {} THEN SubSeq(g, 1, front[Min(C)].index)
        ELSE IF N # {} THEN g \o SubSeq(front, Min(N), p)
        ELSE g
  BY <1>2, <1>4, <1>5 DEF StoreEntries, TruncateAt
<1>7. C \in SUBSET (1..p) /\ N \in SUBSET (1..p) /\ C \in SUBSET Nat /\ N \in SUBSET Nat
  BY <1>1 DEF Conflicting, Following
<1> HIDE DEF C, N
<1>8. C # {} => front[Min(C)] = es[Min(C)]
  BY <1>2, <1>7, MinElement
<1>9. N # {} => SubSeq(front, Min(N), p) = SubSeq(es, Min(N), p)
  <2> SUFFICES ASSUME N # {} PROVE SubSeq(front, Min(N), p) = SubSeq(es, Min(N), p)
    OBVIOUS
  <2>1. PICK n : n = Min(N)
    OBVIOUS
  <2>2. n \in 1..p
    BY <1>7, <2>1, MinElement
  <2>3. SubSeq(SubSeq(es, 1, p), n, p) = SubSeq(es, n, p)
    BY <1>1, <2>2
  <2> QED BY <2>1, <2>3 DEF front
<1>10. StoreEntries(g, front) =
        IF C # {} THEN SubSeq(g, 1, es[Min(C)].index)
        ELSE IF N # {} THEN g \o SubSeq(es, Min(N), p)
        ELSE g
  BY <1>6, <1>8, <1>9
<1> QED BY <1>10 DEF front, C, N

(* What one iteration makes of the log.                                     *)
Iterated(l, entry) ==
  IF HasEntry(l, entry.index)
  THEN IF entry.term # LastTerm(l) THEN TruncateAt(l, entry.index) ELSE l
  ELSE IF entry.index = NextIndex(l) THEN Append(l, entry) ELSE l

(* A cut leaves the index just passed as the next one, so that the entries  *)
(* after it are beyond the log; what is appended makes its successor next.  *)
LEMMA OneMoreEntry ==
  ASSUME NEW g \in Seq(LogEntry), NEW es \in Seq(LogEntry), Consecutive(es),
         NEW p \in 0..(Len(es) - 1)
  PROVE  StoreEntries(g, SubSeq(es, 1, p + 1))
           = Iterated(StoreEntries(g, SubSeq(es, 1, p)), es[p + 1])
<1> DEFINE C(q) == Conflicting(g, es, q)
           N(q) == Following(g, es, q)
           S(q) == StoreEntries(g, SubSeq(es, 1, q))
           e == es[p + 1]
           a == es[1].index
           n == Len(g)
<1>1. /\ p \in Nat /\ n \in Nat /\ Len(es) \in Nat /\ p + 1 \in 1..Len(es)
      /\ p \in 0..Len(es) /\ p + 1 \in 0..Len(es)
  OBVIOUS
<1>2. /\ a \in Nat
      /\ \A k \in 1..(p + 1) : es[k].index = a + k - 1
  BY <1>1, EntryIndices
<1>3. e.index = a + p /\ e \in LogEntry
  BY <1>1, <1>2
<1>4. \A q \in {p, p + 1} :
        S(q) = IF C(q) # {} THEN SubSeq(g, 1, es[Min(C(q))].index)
               ELSE IF N(q) # {} THEN g \o SubSeq(es, Min(N(q)), q)
               ELSE g
  BY <1>1, StoredOfFirst
<1>5. /\ C(p) \in SUBSET (1..p) /\ C(p) \in SUBSET Nat
      /\ C(p + 1) = C(p) \cup (IF a + p < n /\ e.term # LastTerm(g) THEN {p + 1} ELSE {})
  BY <1>1, <1>2, <1>3 DEF Conflicting
<1>6. \A k \in 1..p : es[k].index = a + k - 1
  BY <1>1, <1>2
<1>7. /\ N(p) \in SUBSET (1..p) /\ N(p) \in SUBSET Nat
      /\ N(p + 1) = N(p) \cup (IF a + p = n THEN {p + 1} ELSE {})
      /\ \A k \in N(p) : a + k - 1 = n
  <2>1. N(p) \in SUBSET (1..p) /\ N(p) \in SUBSET Nat
    BY <1>1 DEF Following
  <2>2. \A k \in N(p) : a + k - 1 = n
    BY <1>6 DEF Following
  <2>3. \A k : k \in 1..(p + 1) <=> k \in 1..p \/ k = p + 1
    BY <1>1
  <2>4. es[p + 1].index = n <=> a + p = n
    BY <1>3
  <2>5. N(p + 1) = N(p) \cup (IF a + p = n THEN {p + 1} ELSE {})
    BY <2>3, <2>4 DEF Following
  <2> QED BY <2>1, <2>2, <2>5
<1>8. \A k \in C(p) : a + k - 1 < n
  BY <1>6 DEF Conflicting
<1> HIDE DEF C, N, S, a, n
<1>9. CASE C(p) # {}
  <2>1. PICK k : k = Min(C(p))
    OBVIOUS
  <2>2. k \in C(p) /\ \A j \in C(p) : k <= j
    BY <1>5, <1>9, <2>1, MinElement
  <2>3. k \in 1..p /\ es[k].index = a + k - 1 /\ a + k - 1 < n
    BY <1>5, <1>6, <1>8, <2>2
  <2>4. PICK m : m = Min(C(p + 1))
    OBVIOUS
  <2>5. C(p + 1) \in SUBSET Nat /\ C(p + 1) # {} /\ k \in C(p + 1)
    BY <1>1, <1>5, <1>9, <2>2
  <2>6. m \in C(p + 1) /\ m <= k
    BY <2>4, <2>5, MinElement
  <2>7. m = k
    BY <1>1, <1>5, <2>2, <2>3, <2>6
  <2>8. S(p) = SubSeq(g, 1, a + k - 1) /\ S(p + 1) = SubSeq(g, 1, a + k - 1)
    BY <1>4, <1>9, <2>1, <2>3, <2>4, <2>5, <2>7
  <2>9. Len(S(p)) = a + k - 1
    BY <1>1, <1>2, <2>3, <2>8 DEF n
  <2>10. a + k - 1 < a + p
    BY <1>1, <1>2, <2>3
  <2>11. ~ HasEntry(S(p), e.index) /\ e.index # NextIndex(S(p))
    BY <1>1, <1>2, <1>3, <2>3, <2>9, <2>10 DEF HasEntry, LastIndex, NextIndex
  <2>12. Iterated(S(p), e) = S(p)
    BY <2>11 DEF Iterated
  <2> QED BY <2>8, <2>12 DEF S
<1>10. CASE C(p) = {} /\ N(p) # {}
  <2>1. PICK k : k = Min(N(p))
    OBVIOUS
  <2>2. k \in N(p)
    BY <1>7, <1>10, <2>1, MinElement
  <2>3. k \in 1..p /\ a + k - 1 = n
    BY <1>7, <2>2
  <2>4. ~ (a + p < n) /\ a + p # n
    BY <1>1, <1>2, <2>3
  <2>5. C(p + 1) = {} /\ N(p + 1) = N(p)
    BY <1>5, <1>7, <1>10, <2>4
  <2>6. S(p) = g \o SubSeq(es, k, p) /\ S(p + 1) = g \o SubSeq(es, k, p + 1)
    BY <1>4, <1>10, <2>1, <2>5
  <2>7. /\ SubSeq(es, k, p) \in Seq(LogEntry)
        /\ Len(SubSeq(es, k, p)) = p - k + 1
        /\ SubSeq(es, k, p + 1) = Append(SubSeq(es, k, p), e)
    BY <1>1, <2>3
  <2>8. Len(S(p)) = a + p
    <3>1. PICK t \in Seq(LogEntry) : t = SubSeq(es, k, p) /\ Len(t) = p - k + 1
      BY <2>7
    <3>2. Len(g \o t) = n + Len(t)
      BY DEF n
    <3> QED BY <1>1, <1>2, <2>3, <2>6, <3>1, <3>2
  <2>9. ~ HasEntry(S(p), e.index) /\ e.index = NextIndex(S(p))
    BY <1>1, <1>2, <1>3, <2>8 DEF HasEntry, LastIndex, NextIndex
  <2>10. g \o Append(SubSeq(es, k, p), e) = Append(g \o SubSeq(es, k, p), e)
    <3>1. PICK t \in Seq(LogEntry) : t = SubSeq(es, k, p)
      BY <2>7
    <3>2. g \o Append(t, e) = Append(g \o t, e)
      BY <1>3
    <3> QED BY <3>1, <3>2
  <2>11. Iterated(S(p), e) = S(p + 1)
    BY <2>6, <2>7, <2>9, <2>10 DEF Iterated
  <2> QED BY <2>11 DEF S
<1>11. CASE C(p) = {} /\ N(p) = {}
  <2>1. S(p) = g
    BY <1>4, <1>11
  <2>2. HasEntry(g, e.index) <=> a + p < n
    BY <1>1, <1>2, <1>3 DEF HasEntry, LastIndex, n
  <2>3. NextIndex(g) = n
    BY DEF NextIndex, n
  <2>4. CASE a + p < n /\ e.term # LastTerm(g)
    <3>1. C(p + 1) = {p + 1}
      BY <1>5, <1>11, <2>4
    <3>2. Min(C(p + 1)) = p + 1
      BY <1>1, <3>1, LeastOfOne
    <3>3. S(p + 1) = SubSeq(g, 1, e.index)
      BY <1>4, <3>1, <3>2
    <3>4. Iterated(g, e) = SubSeq(g, 1, e.index)
      BY <2>2, <2>4 DEF Iterated, TruncateAt
    <3> QED BY <2>1, <3>3, <3>4 DEF S
  <2>5. CASE a + p = n
    <3>1. C(p + 1) = {} /\ N(p + 1) = {p + 1}
      BY <1>1, <1>2, <1>5, <1>7, <1>11, <2>5
    <3>2. Min(N(p + 1)) = p + 1
      BY <1>1, <3>1, LeastOfOne
    <3>3. S(p + 1) = g \o SubSeq(es, p + 1, p + 1)
      BY <1>4, <3>1, <3>2
    <3>4. SubSeq(es, p + 1, p + 1) = <<e>>
      <4>1. /\ SubSeq(es, p + 1, p + 1) \in Seq(LogEntry)
            /\ Len(SubSeq(es, p + 1, p + 1)) = 1
            /\ SubSeq(es, p + 1, p + 1)[1] = e
        BY <1>1, SliceOfOne DEF e
      <4>2. <<e>> \in Seq(LogEntry) /\ Len(<<e>>) = 1 /\ <<e>>[1] = e
        BY <1>3
      <4>3. PICK t \in Seq(LogEntry) : t = SubSeq(es, p + 1, p + 1) /\ Len(t) = 1 /\ t[1] = e
        BY <4>1
      <4>4. PICK u \in Seq(LogEntry) : u = <<e>> /\ Len(u) = 1 /\ u[1] = e
        BY <4>2
      <4>5. Len(t) = Len(u) /\ \A i \in 1..Len(t) : t[i] = u[i]
        BY <4>3, <4>4
      <4>6. t = u
        BY <4>5, SeqEqual, Zenon
      <4> QED BY <4>3, <4>4, <4>6
    <3>5. g \o <<e>> = Append(g, e)
      BY <1>3
    <3>6. Iterated(g, e) = Append(g, e)
      BY <1>1, <1>3, <2>2, <2>3, <2>5 DEF Iterated
    <3> QED BY <2>1, <3>3, <3>4, <3>5, <3>6 DEF S
  <2>6. CASE a + p # n /\ ~ (a + p < n /\ e.term # LastTerm(g))
    <3>1. C(p + 1) = {} /\ N(p + 1) = {}
      BY <1>5, <1>7, <1>11, <2>6
    <3>2. S(p + 1) = g
      BY <1>4, <3>1
    <3>3. Iterated(g, e) = g
      BY <1>3, <2>2, <2>3, <2>6 DEF Iterated
    <3> QED BY <2>1, <3>2, <3>3 DEF S
  <2> QED BY <2>4, <2>5, <2>6
<1> QED BY <1>9, <1>10, <1>11

-----------------------------------------------------------------------------
LEMMA LoopStarts == LoopInit => LoopInv
<1> SUFFICES ASSUME LoopInit PROVE LoopInv
  OBVIOUS
<1>1. given \in Seq(LogEntry)
  <2>1. given \in Logs \/ given = <<>>
    BY DEF LoopInit
  <2>2. given \in Logs => given \in Seq(LogEntry)
    BY LogsAreSequences
  <2>3. <<>> \in Seq(LogEntry)
    OBVIOUS
  <2> QED BY <2>1, <2>2, <2>3
<1>2. PICK l \in Logs, index \in Int \cup {NaN} : entries = Slice(l, index)
  BY LengthsAssumption DEF LoopInit
<1>3. entries \in Seq(LogEntry) /\ Consecutive(entries)
  BY <1>2, SlicesAreConsecutive
<1>4. position = 0 /\ stored = given /\ 0 \in 0..Len(entries)
  BY <1>3 DEF LoopInit
<1>5. StoreEntries(given, SubSeq(entries, 1, 0)) = given
  <2>1. Conflicting(given, entries, 0) = {} /\ Following(given, entries, 0) = {}
    BY DEF Conflicting, Following
  <2> QED BY <1>1, <1>3, <1>4, <2>1, StoredOfFirst
<1> QED BY <1>1, <1>3, <1>4, <1>5 DEF LoopInv

(* An iteration takes the log to what StoreEntries makes of one more entry. *)
LEMMA VisitKeepsInv ==
  ASSUME LoopInv, Visit
  PROVE  LoopInv'
<1>1. /\ given \in Seq(LogEntry) /\ entries \in Seq(LogEntry) /\ Consecutive(entries)
      /\ position \in 0..(Len(entries) - 1)
      /\ stored = StoreEntries(given, SubSeq(entries, 1, position))
  BY DEF LoopInv, Visit
<1>2. given' = given /\ entries' = entries /\ position' = position + 1
  BY DEF Visit
<1>3. stored' = Iterated(stored, entries[position + 1])
  BY DEF Visit, StoreEntry, Iterated
<1>4. StoreEntries(given, SubSeq(entries, 1, position + 1)) = stored'
  BY <1>1, <1>3, OneMoreEntry
<1>5. position' \in 0..Len(entries)
  BY <1>1, <1>2
<1> QED BY <1>1, <1>2, <1>4, <1>5 DEF LoopInv

THEOREM LoopInvariant == LoopSpec => []LoopInv
<1>1. LoopInv /\ [Visit]_loopVars => LoopInv'
  BY VisitKeepsInv DEF loopVars, LoopInv
<1> QED BY <1>1, LoopStarts, PTL DEF LoopSpec

(* The receiver's loop computes StoreEntries, for every slice of a leader's *)
(* log and every follower's log, of any length.                             *)
THEOREM LoopComputesStoreEntries == LoopSpec => []LoopStoresEntries
<1>1. LoopInv => LoopStoresEntries
  <2> SUFFICES ASSUME LoopInv, position = Len(entries)
               PROVE  stored = StoreEntries(given, entries)
    BY DEF LoopStoresEntries
  <2>1. SubSeq(entries, 1, Len(entries)) = entries
    BY DEF LoopInv
  <2> QED BY <2>1 DEF LoopInv
<1> QED BY <1>1, LoopInvariant, PTL
=============================================================================
