--------------------------- MODULE ElectionTimer ---------------------------
(***************************************************************************)
(* The election timer (src/election-timer/election-timer.ts).  A timeout    *)
(* visits the listeners one after the other, those added during the visit   *)
(* included; off() is given functions that were never registered, so that   *)
(* no listener ever goes.  Durations are left out: a running timer may      *)
(* elapse.                                                                  *)
(***************************************************************************)
EXTENDS Naturals, Sequences

VARIABLES
  running,
  listeners,  \* to 'timeout', in the order they were added
  visiting    \* position of the one that is called, 0 outside of a timeout

On(listener) == listeners' = Append(listeners, listener)

StartTimer == running' = TRUE
StopTimer == running' = FALSE

(* reset() stops the timer and starts it.                                   *)
ResetTimer == running' = TRUE

Elapse ==
  /\ running
  /\ running' = FALSE
  /\ visiting' = 1
  /\ UNCHANGED listeners

(* Mutant: a listener added during the visit is not called.                 *)
VisitedOfBefore == visiting' = IF visiting < Len(listeners) THEN visiting + 1 ELSE 0

(* The listener at `visiting` has returned, having perhaps added another.   *)
Visited == visiting' = IF visiting < Len(listeners') THEN visiting + 1 ELSE 0
=============================================================================
