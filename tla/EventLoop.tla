----------------------------- MODULE EventLoop -----------------------------
(***************************************************************************)
(* The event loop of Sever.hpp: EventLoop::Start alternates between        *)
(* epoll_wait, the handlers of the channels it reported and RunAlltask.    *)
(* Other threads hand over tasks with QueueInLoop: they push under the     *)
(* mutex, release it, and then write the eventfd that wakes epoll_wait.    *)
(*                                                                         *)
(* What tasks and handlers do is left out, but for the one thing that      *)
(* comes back to the loop: they may queue tasks themselves.                *)
(***************************************************************************)
EXTENDS Integers, Sequences

CONSTANTS
  Producers,  (* threads other than the loop's that queue tasks            *)
  Loop,       (* the loop's own thread                                     *)
  Tasks,      (* names of tasks; a name is free again when its task ran    *)
  EfdMax      (* largest value of the eventfd's counter, 2^64 - 2          *)

ASSUME LoopAssumption ==
  /\ Loop \notin Producers
  /\ EfdMax \in Nat \ {0}

VARIABLES
  phase,      (* "poll", "handlers" or "tasks": where Start is             *)
  active,     (* channels reported by epoll_wait and not yet handled       *)
  queue,      (* _task_queue                                               *)
  batch,      (* the rest of _task, swapped out of _task_queue             *)
  efd,        (* the counter of _eventfd                                   *)
  io,         (* some other channel of the loop is ready                   *)
  owes        (* threads that pushed a task and not yet wrote the eventfd  *)

vars == <<phase, active, queue, batch, efd, io, owes>>

Threads == Producers \union {Loop}

(* The loop's own thread is in its code, not in a queueing call. *)
Running(p) == phase = p /\ Loop \notin owes

IsQueued(t) ==
  \/ \E i \in DOMAIN queue : queue[i] = t
  \/ \E i \in DOMAIN batch : batch[i] = t

Init ==
  /\ phase = "poll"
  /\ active = {}
  /\ queue = <<>>
  /\ batch = <<>>
  /\ efd = 0
  /\ io = FALSE
  /\ owes = {}

(* Mistake: the loop's own thread is taken to be awake already. *)
QueueInLoopNoSelfWake(th, t) ==
  /\ th \notin owes
  /\ th = Loop => phase # "poll"
  /\ ~IsQueued(t)
  /\ queue' = Append(queue, t)
  /\ owes' = IF th = Loop THEN owes ELSE owes \union {th}
  /\ UNCHANGED <<phase, active, batch, efd, io>>

(* QueueInLoop up to the release of the mutex.  The loop's own thread gets *)
(* here from a handler or a task (Connection::Release).                    *)
QueueInLoop(th, t) ==
  /\ th \notin owes
  /\ th = Loop => phase # "poll"
  /\ ~IsQueued(t)
  /\ queue' = Append(queue, t)
  /\ owes' = owes \union {th}
  /\ UNCHANGED <<phase, active, batch, efd, io>>

(* Mistake: a full counter is not expected. *)
WeakUpFdOverflow(th) ==
  /\ th \in owes
  /\ owes' = owes \ {th}
  /\ efd' = efd + 1
  /\ UNCHANGED <<phase, active, queue, batch, io>>

(* The rest of QueueInLoop.  The eventfd does not block: a write to a full *)
(* counter fails with EAGAIN, which Weak_Up_fd ignores.                    *)
WeakUpFd(th) ==
  /\ th \in owes
  /\ owes' = owes \ {th}
  /\ efd' = IF efd < EfdMax THEN efd + 1 ELSE efd
  /\ UNCHANGED <<phase, active, queue, batch, io>>

IoReady ==
  /\ ~io
  /\ io' = TRUE
  /\ UNCHANGED <<phase, active, queue, batch, efd, owes>>

Ready == (IF efd > 0 THEN {"eventfd"} ELSE {}) \union (IF io THEN {"io"} ELSE {})

(* epoll_wait without a timeout, level-triggered: it returns every channel *)
(* that is ready, or none when a signal interrupts its sleep.              *)
Poll ==
  /\ Running("poll")
  /\ Ready # {}
  /\ active' = Ready
  /\ phase' = "handlers"
  /\ UNCHANGED <<queue, batch, efd, io, owes>>

PollInterrupted ==
  /\ Running("poll")
  /\ Ready = {}
  /\ phase' = "handlers"
  /\ UNCHANGED <<active, queue, batch, efd, io, owes>>

(* One read empties the counter, whatever its value. *)
ReadEventFd ==
  /\ Running("handlers")
  /\ "eventfd" \in active
  /\ active' = active \ {"eventfd"}
  /\ efd' = 0
  /\ UNCHANGED <<phase, queue, batch, io, owes>>

HanderEvent ==
  /\ Running("handlers")
  /\ "io" \in active
  /\ active' = active \ {"io"}
  /\ io' = FALSE
  /\ UNCHANGED <<phase, queue, batch, efd, owes>>

(* RunAlltask up to the release of the mutex. *)
SwapTasks ==
  /\ Running("handlers")
  /\ active = {}
  /\ batch' = queue
  /\ queue' = <<>>
  /\ phase' = "tasks"
  /\ UNCHANGED <<active, efd, io, owes>>

(* Mistake: the newest task of the batch runs first. *)
RunTaskNewestFirst ==
  /\ Running("tasks")
  /\ batch # <<>>
  /\ batch' = SubSeq(batch, 1, Len(batch) - 1)
  /\ UNCHANGED <<phase, active, queue, efd, io, owes>>

RunTask ==
  /\ Running("tasks")
  /\ batch # <<>>
  /\ batch' = Tail(batch)
  /\ UNCHANGED <<phase, active, queue, efd, io, owes>>

(* Mistake: RunAlltask goes on as long as there are tasks. *)
EndTasksWhenDrained ==
  /\ Running("tasks")
  /\ batch = <<>>
  /\ IF queue = <<>> THEN phase' = "poll" ELSE UNCHANGED phase
  /\ batch' = queue
  /\ queue' = <<>>
  /\ UNCHANGED <<active, efd, io, owes>>

EndTasks ==
  /\ Running("tasks")
  /\ batch = <<>>
  /\ phase' = "poll"
  /\ UNCHANGED <<active, queue, batch, efd, io, owes>>

Next ==
  \/ \E th \in Threads : \/ \E t \in Tasks : QueueInLoop(th, t)
                         \/ WeakUpFd(th)
  \/ IoReady
  \/ Poll \/ PollInterrupted
  \/ ReadEventFd \/ HanderEvent
  \/ SwapTasks \/ RunTask \/ EndTasks

(* epoll_wait returns when a channel is ready, handlers and tasks return,  *)
(* and no thread stops between its push and its write.                     *)
Fairness ==
  /\ \A th \in Threads : WF_vars(WeakUpFd(th))
  /\ WF_vars(Poll)
  /\ WF_vars(ReadEventFd)
  /\ WF_vars(HanderEvent)
  /\ WF_vars(SwapTasks)
  /\ WF_vars(RunTask)
  /\ WF_vars(EndTasks)

Spec == Init /\ [][Next]_vars /\ Fairness

-----------------------------------------------------------------------------
(* The types of the variables. *)
TypeOK ==
  /\ phase \in {"poll", "handlers", "tasks"}
  /\ active \in SUBSET {"eventfd", "io"}
  /\ queue \in Seq(Tasks)
  /\ batch \in Seq(Tasks)
  /\ efd \in 0 .. EfdMax
  /\ io \in BOOLEAN
  /\ owes \in SUBSET Threads

(* No wake-up is lost: when the loop is in epoll_wait with tasks in its    *)
(* queue, the eventfd is readable or a thread is about to write it.        *)
NoLostWakeup ==
  phase = "poll" /\ queue # <<>> => efd > 0 \/ owes # {}

(* Why it holds: outside the handlers, where the counter is emptied before *)
(* the queue is, every task in the queue has its wake-up outstanding.      *)
WakeupInv ==
  /\ TypeOK
  /\ queue # <<>> /\ phase # "handlers" => efd > 0 \/ owes # {}
  /\ phase # "tasks" => batch = <<>>
  /\ phase # "handlers" => active = {}

(* The loop's two queues are one to the threads that give it work.         *)
Promise == INSTANCE TaskQueue WITH waiting <- batch \o queue

(* Tasks run once each, in the order of the pushes.                        *)
ImplementsTaskQueue == Promise!Steps

(* Neither kind of work waits for ever on the other: a ready channel is    *)
(* handled even when tasks keep queueing tasks, since those wait for the   *)
(* next round of the loop, and all tasks run, however busy the channels.   *)
IoIsHandled == io ~> ~io
WorkGetsDone == IoIsHandled /\ Promise!Fairness
=============================================================================
