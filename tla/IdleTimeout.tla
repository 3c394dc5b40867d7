---------------------------- MODULE IdleTimeout ----------------------------
(***************************************************************************)
(* How connections use the time wheel of their loop to close themselves    *)
(* when idle: Connection's EnableTimeoutDelInLoop, DisableTimeoutDelInLoop,*)
(* HanderEvent, Release and ReleaseInloop of Sever.hpp over TimeWheel.     *)
(* A connection's timer id is its connection id (_Timer_Id), and the       *)
(* callback of its timer is Release, which queues ReleaseInloop.           *)
(*                                                                         *)
(* All connections here belong to one loop; its handlers and tasks run one *)
(* at a time, between the steps in which the wheel clears a slot.  With    *)
(* Reuse = FALSE their user enables a timeout only when the connection's   *)
(* last timer has ended.                                                   *)
(***************************************************************************)
EXTENDS TimeWheel, Sequences

VARIABLES
  enabled,   (* Is_Enable_Time_del                                         *)
  status,    (* "open", or "closed" once _Status is DISCONNECTED           *)
  releases,  (* ReleaseInloop tasks queued on the loop, in order           *)
  due,       (* how many of them run before the timerfd is handled again   *)
  idle,      (* history: seconds since the connection last had an event    *)
  released   (* history: the connections released for another reason than  *)
             (* a timer, or by a timer that ran out with the timeout on    *)

connVars == <<enabled, status, releases, due, idle, released>>
allVars == <<vars, connVars>>

(* The timer ids of this module are connections. *)
Conns == Ids

InitConns ==
  /\ Init
  /\ enabled = [c \in Conns |-> FALSE]
  /\ status = [c \in Conns |-> "open"]
  /\ releases = <<>>
  /\ due = 0
  /\ idle = [c \in Conns |-> 0]
  /\ released = {}

(* Mistake: a timer is added only where one exists already. *)
EnableTimeoutDelInLoopInverted(c, sec) ==
  /\ Quiet
  /\ status[c] = "open"
  /\ Reuse \/ ~HasTimer(c)
  /\ enabled' = [enabled EXCEPT ![c] = TRUE]
  /\ IF HasTimer(c) THEN SetTimeTask(c, sec) ELSE UNCHANGED vars
  /\ idle' = [idle EXCEPT ![c] = 0]
  /\ UNCHANGED <<status, releases, due, released>>

(***************************************************************************)
(* A timer that exists is refreshed, and a second object is added for the  *)
(* id in any case; _timers then names the new one.                         *)
(***************************************************************************)
EnableTimeoutDelInLoop(c, sec) ==
  /\ Quiet
  /\ status[c] = "open"
  /\ Reuse \/ ~HasTimer(c)
  /\ enabled' = [enabled EXCEPT ![c] = TRUE]
  /\ \E t \in Tasks :
       /\ ~Live(t)
       /\ LET refreshed == IF HasTimer(c)
                           THEN Push(wheels, timers[c], task[timers[c]].time)
                           ELSE wheels
          IN  wheels' = Push(refreshed, t, sec)
       /\ timers' = [timers EXCEPT ![c] = t]
       /\ task' = [task EXCEPT ![t] = [id |-> c, time |-> sec, canceled |-> FALSE]]
       /\ age' = [u \in Tasks |-> IF u \in {t, timers[c]} THEN 0 ELSE age[u]]
  /\ idle' = [idle EXCEPT ![c] = 0]
  /\ UNCHANGED <<tick, clearing, dying, lost, corrupt, pending>>
  /\ UNCHANGED <<status, releases, due, released>>

(* Mistake: DisableTimeoutDel never reaches the wheel. *)
CancelTimerNever(c) == UNCHANGED vars

(* What both DisableTimeoutDelInLoop and ReleaseInloop do to the timer. *)
CancelTimer(c) ==
  IF HasTimer(c)
  THEN RemoveTimeTask(c)
  ELSE UNCHANGED vars

DisableTimeoutDelInLoop(c) ==
  /\ Quiet
  /\ status[c] = "open"
  /\ enabled' = [enabled EXCEPT ![c] = FALSE]
  /\ CancelTimer(c)
  /\ UNCHANGED <<status, releases, due, idle, released>>

(* Mistake: the refresh is left to the message callback. *)
HanderEventNoFlush(c) ==
  /\ Quiet
  /\ status[c] = "open"
  /\ idle' = [idle EXCEPT ![c] = 0]
  /\ UNCHANGED <<vars, enabled, status, releases, due, released>>

(* Any event of the connection's channel ends in HanderEvent. *)
HanderEvent(c) ==
  /\ Quiet
  /\ status[c] = "open"
  /\ idle' = [idle EXCEPT ![c] = 0]
  /\ IF enabled[c] /\ HasTimer(c) THEN FlushTimeTask(c) ELSE UNCHANGED vars
  /\ UNCHANGED <<enabled, status, releases, due, released>>

(* Release for another reason than the timer: the peer closed, an error.   *)
(* The code queues as many releases of one connection as it is asked for;  *)
(* here a bound: one that is queued is not followed by another.            *)
Release(c) ==
  /\ Quiet
  /\ status[c] = "open" /\ ~\E i \in DOMAIN releases : releases[i] = c
  /\ releases' = Append(releases, c)
  /\ released' = released \union {c}
  /\ UNCHANGED <<vars, enabled, status, due, idle>>

(* Mistake: the connection is closed and its timer left alone. *)
ReleaseInloopKeepsTimer ==
  /\ Quiet
  /\ releases # <<>>
  /\ LET c == Head(releases) IN
       /\ status' = [status EXCEPT ![c] = "closed"]
       /\ UNCHANGED <<enabled, vars>>
  /\ releases' = Tail(releases)
  /\ due' = IF due = 0 THEN 0 ELSE due - 1
  /\ UNCHANGED <<idle, released>>

ReleaseInloop ==
  /\ Quiet
  /\ releases # <<>>
  /\ LET c == Head(releases) IN
       /\ status' = [status EXCEPT ![c] = "closed"]
       /\ enabled' = IF HasTimer(c) THEN [enabled EXCEPT ![c] = FALSE] ELSE enabled
       /\ CancelTimer(c)
  /\ releases' = Tail(releases)
  /\ due' = IF due = 0 THEN 0 ELSE due - 1
  /\ UNCHANGED <<idle, released>>

(* The destructor of an object that was not cancelled queues ReleaseInloop. *)
Expire ==
  /\ ExcuteTimer
  /\ IF task[dying].canceled
     THEN UNCHANGED <<releases, due, released>>
     ELSE LET c == task[dying].id IN
            /\ releases' = Append(releases, c)
            /\ due' = Len(releases) + 1
            /\ released' = IF enabled[c] THEN released \union {c} ELSE released
  /\ UNCHANGED <<enabled, status, idle>>

(* The timerfd is handled once in a round of the loop, after any number of *)
(* other handlers, which may have queued releases.  Those and the ones     *)
(* that callbacks queue run at the end of the round.                       *)
Ring ==
  /\ due = 0
  /\ OneTime
  /\ due' = Len(releases)
  /\ UNCHANGED <<enabled, status, releases, idle, released>>

Drop ==
  /\ \E t \in Tasks : DropReference(t)
  /\ UNCHANGED connVars

Second ==
  /\ Elapse
  /\ idle' = [c \in Conns |-> Older(idle[c])]
  /\ UNCHANGED <<enabled, status, releases, due, released>>

NextConns ==
  \/ \E c \in Conns :
       \/ \E sec \in Delays : EnableTimeoutDelInLoop(c, sec)
       \/ DisableTimeoutDelInLoop(c)
       \/ HanderEvent(c)
       \/ Release(c)
  \/ ReleaseInloop
  \/ Expire
  \/ Ring
  \/ Drop
  \/ Second

SpecConns ==
  /\ InitConns /\ [][NextConns]_allVars
  /\ WF_allVars(Second) /\ WF_allVars(Ring) /\ WF_allVars(Drop)
  /\ WF_allVars(Expire) /\ WF_allVars(ReleaseInloop)

-----------------------------------------------------------------------------
ConnTypeOK ==
  /\ TypeOK
  /\ enabled \in [Conns -> BOOLEAN]
  /\ status \in [Conns -> {"open", "closed"}]
  /\ releases \in Seq(Conns)
  /\ due \in 0 .. Len(releases)
  /\ idle \in [Conns -> 0 .. Capacity]
  /\ released \in SUBSET Conns

(* A timer that runs out while its connection's timeout is switched off    *)
(* does not close it: each closed connection was released for another      *)
(* reason, or by a timer that ran out with the timeout on.  (Switching off *)
(* after that moment comes too late: the release is queued by then.)       *)
DisableStopsTimer ==
  \A c \in Conns : status[c] = "closed" => c \in released

(* A timer never closes a connection in use: when the callback runs, the   *)
(* connection has had no event for its timeout, less one second.           *)
IdleBeforeClose ==
  InCallback => idle[task[dying].id] + 1 >= task[dying].time

(* A closed connection has no timer left that would release it again, when *)
(* its descriptor number may already belong to another connection.         *)
NoTimerAfterClose ==
  \A t \in Tasks : Live(t) /\ status[task[t].id] = "closed" => task[t].canceled

(* A connection with the timeout on and no more events is closed: again    *)
(* and again it is closed, switched off or just had an event.              *)
IdleConnectionsClose ==
  \A c \in Conns : []<>(enabled[c] /\ status[c] = "open" => idle[c] = 0)
=============================================================================
