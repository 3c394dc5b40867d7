------------------------------- MODULE Timers -------------------------------
(***************************************************************************)
(* What the time wheel promises its clients, without the wheel: every      *)
(* pending timer has a number of ticks left; a refresh restarts it, a tick *)
(* of the clock brings every timer one tick closer, and a timer whose      *)
(* ticks are used up runs its callback (unless it was cancelled) and is    *)
(* forgotten.  At most one timer is pending for an id.                     *)
(*                                                                         *)
(* TimeWheel is shown to implement this module.                            *)
(***************************************************************************)
EXTENDS Integers

CONSTANTS
  Ids,     (* timer ids                                                    *)
  Delays,  (* delays, positive numbers of ticks, a client asks for         *)
  Idle,    (* no timer is pending for an id                                *)
  NoId     (* no callback is running                                       *)

VARIABLES
  timer,   (* id -> the pending timer, or Idle                             *)
  running  (* the id whose timer is being carried out, or NoId             *)

vars == <<timer, running>>

Pending(id) == timer[id] # Idle

Init ==
  /\ timer = [id \in Ids |-> Idle]
  /\ running = NoId

Set(id, d) ==
  /\ ~Pending(id)
  /\ timer' = [timer EXCEPT ![id] = [delay |-> d, left |-> d, canceled |-> FALSE]]
  /\ UNCHANGED running

(* A refresh restarts the timer, even one that is already due. *)
Flush(id) ==
  /\ Pending(id) /\ running # id
  /\ timer' = [timer EXCEPT ![id].left = timer[id].delay]
  /\ UNCHANGED running

(* A cancelled timer stays pending until its ticks are used up. *)
Cancel(id) ==
  /\ Pending(id)
  /\ timer' = [timer EXCEPT ![id].canceled = TRUE]
  /\ UNCHANGED running

(* A tick is taken only when every due timer has been carried out. *)
Tick ==
  /\ \A id \in Ids : Pending(id) => timer[id].left > 0
  /\ timer' = [id \in Ids |-> IF Pending(id)
                              THEN [timer[id] EXCEPT !.left = @ - 1]
                              ELSE Idle]
  /\ UNCHANGED running

Expire(id) ==
  /\ running = NoId
  /\ Pending(id) /\ timer[id].left = 0
  /\ running' = id
  /\ UNCHANGED timer

Finish ==
  /\ running # NoId
  /\ timer' = [timer EXCEPT ![running] = Idle]
  /\ running' = NoId

Next ==
  \/ \E id \in Ids : \/ \E d \in Delays : Set(id, d)
                     \/ Flush(id)
                     \/ Cancel(id)
                     \/ Expire(id)
  \/ Tick
  \/ Finish

Spec == Init /\ [][Next]_vars
=============================================================================
