---------------------------- MODULE CoroutinePool ----------------------------
(***************************************************************************)
(* What a pool of coroutines promises to those who run functions on it,    *)
(* without slots, borders, resume chains or a collector.  A function is    *)
(* given to a coroutine that is new or waiting in the pool; from then on   *)
(* the coroutine is out of the pool until its function has returned, and   *)
(* one that leaves the pool in any other way is never given a function     *)
(* again.                                                                  *)
(***************************************************************************)
EXTENDS Integers

CONSTANTS Coroutines, Idle

VARIABLES
  made,   \* the coroutines that exist
  free,   \* those that wait for a function
  task,   \* the function each coroutine is in, Idle if none
  asked   \* functions passed to the pool so far, numbered in order

vars == <<made, free, task, asked>>

Init ==
  /\ made = {} /\ free = {}
  /\ task = [co \in Coroutines |-> Idle]
  /\ asked = 0

(* A function is passed; it may be that the coroutine does not take it.     *)
Take(co) ==
  /\ co \in free \/ co \notin made
  /\ task[co] = Idle
  /\ asked' = asked + 1
  /\ made' = made \cup {co} /\ free' = free \ {co}
  /\ task' \in {task, [task EXCEPT ![co] = asked + 1]}

(* The function returns. *)
Return(co) ==
  /\ task[co] # Idle /\ co \notin free
  /\ task' = [task EXCEPT ![co] = Idle]
  /\ free' = free \cup {co}
  /\ UNCHANGED <<made, asked>>

(* Functions that fail or are closed end; their coroutines do not return.   *)
End(S) ==
  /\ S \subseteq made \ free
  /\ task' = [co \in Coroutines |-> IF co \in S THEN Idle ELSE task[co]]
  /\ UNCHANGED <<made, free, asked>>

(* The pool may let go of coroutines that wait. *)
Forget(S) ==
  /\ free' = free \ S
  /\ UNCHANGED <<made, task, asked>>

Next ==
  \/ \E co \in Coroutines : Take(co) \/ Return(co)
  \/ \E S \in SUBSET Coroutines : End(S) \/ Forget(S)

Safe == Init /\ [][Next]_vars

=============================================================================
