-------------------------- MODULE ServerLifecycle --------------------------
(***************************************************************************)
(* What each server promises about its term and its vote, whatever it hears *)
(* and whenever its timer elapses.  This is the abstract specification that *)
(* src/server.ts and src/state implement: a process only moves to later     *)
(* terms; in one term it is first a follower without a vote or a candidate  *)
(* that voted for itself, a candidate may win or yield once, and a leader   *)
(* remains the leader of its term; and the only server a server ever has    *)
(* down as its vote is itself.                                              *)
(***************************************************************************)
EXTENDS Integers

CONSTANTS Server, NoVote

VARIABLES state,    \* "down", "follower", "candidate" or "leader"
          term,
          vote

lifecycleVars == <<state, term, vote>>

LifecycleInit ==
  /\ state = [s \in Server |-> "down"]
  /\ term = [s \in Server |-> 0]
  /\ vote = [s \in Server |-> NoVote]

Move(s, to, t, v) ==
  /\ state' = [state EXCEPT ![s] = to]
  /\ term' = [term EXCEPT ![s] = t]
  /\ vote' = [vote EXCEPT ![s] = v]

MoveToTerm(s, to, v) == term'[s] \in Nat /\ Move(s, to, term'[s], v)

(* The process starts in the term its file holds.                           *)
Boot(s) == state[s] = "down" /\ MoveToTerm(s, "follower", NoVote)

(* A message of a later term makes it a follower that has not voted.        *)
Adopt(s) ==
  /\ state[s] # "down"
  /\ term'[s] > term[s]
  /\ MoveToTerm(s, "follower", NoVote)

(* A timeout makes it a candidate of a later term.                          *)
Stand(s) ==
  /\ state[s] # "down"
  /\ term'[s] > term[s]
  /\ MoveToTerm(s, "candidate", s)

Win(s) == state[s] = "candidate" /\ Move(s, "leader", term[s], vote[s])

Yield(s) == state[s] = "candidate" /\ Move(s, "follower", term[s], vote[s])

Exit(s) == state[s] # "down" /\ Move(s, "down", 0, NoVote)

LifecycleNext ==
  \E s \in Server :
    Boot(s) \/ Adopt(s) \/ Stand(s) \/ Win(s) \/ Yield(s) \/ Exit(s)

LifecycleSpec == LifecycleInit /\ [][LifecycleNext]_lifecycleVars

(* A consequence of the promise: who stands or leads voted for itself, and  *)
(* nobody's vote is another server.                                         *)
StandersVoteForThemselves ==
  \A s \in Server :
    /\ vote[s] \in {s, NoVote}
    /\ state[s] \in {"candidate", "leader"} => vote[s] = s
=============================================================================
