-------------------------------- MODULE Log --------------------------------
(***************************************************************************)
(* The in-memory log of src/log/log.ts as operators on sequences.  The      *)
(* array entries[i] of the code is element i+1 of the sequence, so the      *)
(* JavaScript array indices appear below shifted by one.  The log starts    *)
(* with a sentinel entry of index 0 and term 0.                             *)
(***************************************************************************)
EXTENDS Integers, Sequences, FiniteSetsExt

CONSTANTS Command,  \* the client commands, and the empty one of the sentinel
          NoCommand,
          NaN       \* the JavaScript number that is neither less nor greater than any

ASSUME LogAssumption == NoCommand \notin Command /\ NaN \notin Int

LogEntry == [index : Nat, term : Nat, command : Command \cup {NoCommand}]

Sentinel == [index |-> 0, term |-> 0, command |-> NoCommand]
EmptyLog == <<Sentinel>>

LastIndex(log) == Len(log) - 1
NextIndexFromOne(log) == Len(log) + 1   \* mutant: counts the sentinel as index 1
NextIndex(log) == Len(log)
HasEntry(log, index) == LastIndex(log) >= index
GetEntry(log, index) == log[index + 1]
LastTerm(log) == GetEntry(log, LastIndex(log)).term

(* Array.prototype.slice(index): from the end when index is negative, the   *)
(* whole array when it is NaN or undefined.                                 *)
Slice(log, index) ==
  LET first == IF index = NaN \/ (index < 0 /\ Len(log) + index < 0) THEN 0
               ELSE IF index < 0 THEN Len(log) + index
               ELSE index
  IN SubSeq(log, first + 1, Len(log))

TruncateAt(log, index) == SubSeq(log, 1, index)

(***************************************************************************)
(* The loop of the AppendEntries receiver (src/state/follower.ts:127-141)   *)
(* over the entries of one message, whose indices are consecutive: an entry *)
(* the log already has a place for is dropped, and the log truncated at it  *)
(* if its term differs from the log's LAST term; the one that is next is    *)
(* appended.  Nothing is appended after a truncation, which leaves the      *)
(* index just passed as the next one.                                       *)
(***************************************************************************)
ConflictsByOwnTerm(log, entries) ==      \* mutant: compares with the entry there
  {k \in DOMAIN entries : HasEntry(log, entries[k].index)
                          /\ entries[k].term # GetEntry(log, entries[k].index).term}

Conflicts(log, entries) ==
  {k \in DOMAIN entries : HasEntry(log, entries[k].index)
                          /\ entries[k].term # LastTerm(log)}

StoreEntries(log, entries) ==
  LET conflicts == Conflicts(log, entries)
      next == {k \in DOMAIN entries : entries[k].index = NextIndex(log)}
  IN IF conflicts # {} THEN TruncateAt(log, entries[Min(conflicts)].index)
     ELSE IF next # {} THEN log \o SubSeq(entries, Min(next), Len(entries))
     ELSE log
=============================================================================
