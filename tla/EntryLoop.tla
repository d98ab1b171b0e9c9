----------------------------- MODULE EntryLoop -----------------------------
(***************************************************************************)
(* The AppendEntries receiver's loop over the entries of one message, one   *)
(* iteration a step (src/state/follower.ts:127-141), from every log and     *)
(* every message a leader can make of a log.  Log states what the loop      *)
(* computes as the operator StoreEntries, which the handler's action uses.  *)
(***************************************************************************)
EXTENDS Log

CONSTANTS MaxLen,   \* entries of a log, the sentinel included
          MaxTerm,  \* the last term of an entry
          MaxBack   \* how far below zero a slice may start

ASSUME LengthsAssumption == {MaxLen, MaxTerm, MaxBack} \subseteq Nat

VARIABLES given,    \* the log before the message
          entries,  \* those of the message
          position, \* how many of them were visited
          stored    \* the log now

loopVars == <<given, entries, position, stored>>

(* Logs of servers: the sentinel, then entries of terms that never decrease.*)
LogsOfLength(n) ==
  {log \in [1..n -> [index : 0..(n - 1), term : 0..MaxTerm, command : {NoCommand}]] :
     /\ log[1] = Sentinel
     /\ \A i \in 2..n : log[i].index = i - 1 /\ log[i].term \in log[i - 1].term..MaxTerm
                        /\ log[i].term > 0}

Logs == UNION {LogsOfLength(n) : n \in 1..MaxLen}

LoopInit ==
  /\ given \in Logs \cup {<<>>}
  /\ entries \in {Slice(log, index) : log \in Logs,
                                      index \in {NaN} \cup (-MaxBack)..MaxLen}
  /\ position = 0
  /\ stored = given

StoreEntry(entry) ==
  IF HasEntry(stored, entry.index)
  THEN stored' = IF entry.term # LastTerm(stored) THEN TruncateAt(stored, entry.index)
                 ELSE stored
  ELSE stored' = IF entry.index = NextIndex(stored) THEN Append(stored, entry)
                 ELSE stored

Visit ==
  /\ position < Len(entries)
  /\ position' = position + 1
  /\ StoreEntry(entries[position + 1])
  /\ UNCHANGED <<given, entries>>

LoopSpec == LoopInit /\ [][Visit]_loopVars

-----------------------------------------------------------------------------
(* The loop ends with the log that StoreEntries names in one step, for      *)
(* every slice of every leader's log and every follower's log, also the     *)
(* empty one that a cut at the sentinel leaves behind.  What it computes is *)
(* not what the comments of the loop say (:133, :136): after a cut none of  *)
(* the message's entries is appended, though none is in the log then.       *)
LoopStoresEntries ==
  position = Len(entries) => stored = StoreEntries(given, entries)
=============================================================================
