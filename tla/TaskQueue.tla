----------------------------- MODULE TaskQueue -----------------------------
(***************************************************************************)
(* What an event loop promises to the threads that give it work: tasks run *)
(* one at a time, each once, in the order in which they were submitted,    *)
(* and every submitted task runs.                                          *)
(*                                                                         *)
(* EventLoop is shown to implement this module.                            *)
(***************************************************************************)
EXTENDS Sequences

CONSTANTS
  Tasks        (* names of tasks; a name is free again when its task ran   *)

VARIABLES
  waiting      (* submitted tasks that have not run, oldest first          *)

Init == waiting = <<>>

Submit(t) ==
  /\ \A i \in DOMAIN waiting : waiting[i] # t
  /\ waiting' = Append(waiting, t)

Run ==
  /\ waiting # <<>>
  /\ waiting' = Tail(waiting)

Next == Run \/ \E t \in Tasks : Submit(t)

Steps == Init /\ [][Next]_waiting

(* Every submitted task runs. *)
Fairness == WF_waiting(Run)

Spec == Steps /\ Fairness
=============================================================================
