---------------------------- MODULE DurableValue ----------------------------
(***************************************************************************)
(* A value with a file (BaseDurableValue, src/storage/storage.ts).  One     *)
(* fs.writeFile is several steps of the file system: it opens the file,     *)
(* which cuts it to nothing, writes its text from position 0, and calls     *)
(* back.  Nothing keeps two of them apart, and a process may end between    *)
(* any two steps.                                                           *)
(***************************************************************************)
EXTENDS Naturals, Sequences

CONSTANTS
  Serialize(_), Deserialize(_),
  Null,    \* the value before it is read or set
  Absent   \* the file before it is first opened for writing

VARIABLES value, inSync, file, ops

(* Mutant: a value that was read or written once counts as in sync.         *)
SetValueUnseen(newValue) == value' = newValue /\ UNCHANGED inSync

SetValue(newValue) ==
  /\ inSync' = FALSE
  /\ value' = newValue

(* write(), for a caller that has found the value, as it is by then, not in *)
(* sync.                                                                    *)
BeginWrite(caller) ==
  ops' = ops \cup {[caller |-> caller, text |-> Serialize(value'), step |-> "open"]}

At(op, step) == (ops \ {op}) \cup {[op EXCEPT !.step = step]}

(* Mutant: a text is added to the end of the file.                          *)
AddTo(old, text) == old \o text

(* What is in the file after a text was written over it.                    *)
Overlay(old, text) == text \o SubSeq(old, Len(text) + 1, Len(old))

Truncate(op) ==
  /\ op \in ops /\ op.step = "open"
  /\ file' = <<>>
  /\ ops' = At(op, "put")
  /\ UNCHANGED <<value, inSync>>

Put(op) ==
  /\ op \in ops /\ op.step = "put"
  /\ file' = Overlay(file, op.text)
  /\ ops' = At(op, "done")
  /\ UNCHANGED <<value, inSync>>

(* The open fails, or the write does after some of the text.                *)
Fail(op) ==
  /\ op \in ops
  /\ \/ op.step = "open" /\ UNCHANGED file
     \/ /\ op.step = "put"
        /\ \E n \in 0..Len(op.text) : file' = Overlay(file, SubSeq(op.text, 1, n))
  /\ ops' = At(op, "failed")
  /\ UNCHANGED <<value, inSync>>

(* The callback: whatever came of the write, and whatever was set since, the*)
(* value counts as in sync.                                                 *)
Callback(op) ==
  /\ op \in ops /\ op.step \in {"done", "failed"}
  /\ inSync' = TRUE
  /\ ops' = ops \ {op}
  /\ UNCHANGED <<value, file>>

Exists == file # Absent

(* Mutant: what was read is not kept.                                       *)
ReadOnly == inSync' = TRUE /\ UNCHANGED value

Read ==
  /\ value' = Deserialize(file)
  /\ inSync' = TRUE

(* The process ends: the calls under way stop where they are.               *)
Forget ==
  /\ value' = Null /\ inSync' = FALSE /\ ops' = {}
  /\ UNCHANGED file
=============================================================================
