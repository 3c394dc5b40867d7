-------------------------- MODULE EventLoopProofs --------------------------
(***************************************************************************)
(* Theorems about EventLoop for any number of threads and tasks and any    *)
(* bound of the eventfd's counter.                                         *)
(***************************************************************************)
EXTENDS EventLoop, SequenceTheorems, TLAPS

(* The strengthened invariant: the types, and the place of every wake-up. *)
THEOREM WakeupsKept == Spec => []WakeupInv
  <1>1. Init => WakeupInv
    <2>. SUFFICES ASSUME Init PROVE WakeupInv
      OBVIOUS
    <2>1. efd \in 0 .. EfdMax
      BY LoopAssumption DEF LoopAssumption, Init
    <2>2. <<>> \in Seq(Tasks)
      OBVIOUS
    <2>3. queue \in Seq(Tasks) /\ batch \in Seq(Tasks)
      BY <2>2, Zenon DEF Init
    <2>4. TypeOK
      BY <2>1, <2>3 DEF Init, TypeOK
    <2>. QED  BY <2>4, Zenon DEF Init, WakeupInv
  <1>2. WakeupInv /\ [Next]_vars => WakeupInv'
    <2>. SUFFICES ASSUME WakeupInv, [Next]_vars PROVE WakeupInv'
      OBVIOUS
    <2>. USE DEF WakeupInv, TypeOK
    <2>1. ASSUME NEW th \in Threads, NEW t \in Tasks, QueueInLoop(th, t)
          PROVE  WakeupInv'
      <3>1. queue' \in Seq(Tasks)
        BY <2>1, AppendProperties DEF QueueInLoop
      <3>. QED  BY <2>1, <3>1 DEF QueueInLoop
    <2>2. ASSUME NEW th \in Threads, WeakUpFd(th)
          PROVE  WakeupInv'
      BY <2>2, LoopAssumption DEF WeakUpFd, LoopAssumption
    <2>3. CASE IoReady
      BY <2>3 DEF IoReady
    <2>4. CASE Poll
      BY <2>4 DEF Poll, Ready, Running
    <2>5. CASE PollInterrupted
      BY <2>5 DEF PollInterrupted, Running
    <2>6. CASE ReadEventFd
      BY <2>6, LoopAssumption DEF ReadEventFd, Running, LoopAssumption
    <2>7. CASE HanderEvent
      BY <2>7 DEF HanderEvent, Running
    <2>8. CASE SwapTasks
      BY <2>8 DEF SwapTasks, Running
    <2>9. CASE RunTask
      <3>1. batch' \in Seq(Tasks)
        BY <2>9, HeadTailProperties DEF RunTask
      <3>. QED  BY <2>9, <3>1 DEF RunTask, Running
    <2>10. CASE EndTasks
      BY <2>10 DEF EndTasks, Running
    <2>11. CASE UNCHANGED vars
      BY <2>11 DEF vars
    <2>. QED
      BY <2>1, <2>2, <2>3, <2>4, <2>5, <2>6, <2>7, <2>8, <2>9, <2>10, <2>11 DEF Next
  <1>. QED  BY <1>1, <1>2, PTL DEF Spec

(* Every variable keeps its type; the counter of the eventfd never exceeds *)
(* its largest value.                                                      *)
THEOREM TypeCorrect == Spec => []TypeOK
  <1>1. WakeupInv => TypeOK
    BY DEF WakeupInv
  <1>. QED  BY <1>1, WakeupsKept, PTL

(* The loop never sleeps on a non-empty queue without a wake-up coming. *)
THEOREM WakeupsNotLost == Spec => []NoLostWakeup
  <1>1. WakeupInv => NoLostWakeup
    BY DEF WakeupInv, NoLostWakeup
  <1>. QED  BY <1>1, WakeupsKept, PTL

-----------------------------------------------------------------------------
(* The tasks to run are the rest of the batch followed by the queue.       *)

LEMMA ConcatSubmit ==
  ASSUME NEW b \in Seq(Tasks), NEW q \in Seq(Tasks), NEW t \in Tasks,
         \A i \in DOMAIN q : q[i] # t,
         \A i \in DOMAIN b : b[i] # t
  PROVE  /\ b \o Append(q, t) = Append(b \o q, t)
         /\ \A i \in DOMAIN (b \o q) : (b \o q)[i] # t
  OBVIOUS

LEMMA ConcatRun ==
  ASSUME NEW b \in Seq(Tasks), NEW q \in Seq(Tasks), b # <<>>
  PROVE  b \o q # <<>> /\ Tail(b) \o q = Tail(b \o q)
  OBVIOUS

(* Every step of the loop is a submission to the promised queue, the run   *)
(* of its oldest task, or leaves it alone: tasks run once, in order.       *)
THEOREM TasksRunInOrder == Spec => ImplementsTaskQueue
  <1>1. Init => Promise!Init
    BY DEF Init, Promise!Init
  <1>2. WakeupInv /\ [Next]_vars => [Promise!Next]_(batch \o queue)
    <2>. SUFFICES ASSUME WakeupInv, [Next]_vars
                  PROVE  Promise!Next \/ UNCHANGED (batch \o queue)
      OBVIOUS
    <2>1. ASSUME NEW th \in Threads, NEW t \in Tasks, QueueInLoop(th, t)
          PROVE  Promise!Submit(t)
      <3>1. batch \o Append(queue, t) = Append(batch \o queue, t)
        BY <2>1, ConcatSubmit DEF WakeupInv, TypeOK, QueueInLoop, IsQueued
      <3>2. \A i \in DOMAIN (batch \o queue) : (batch \o queue)[i] # t
        BY <2>1, ConcatSubmit DEF WakeupInv, TypeOK, QueueInLoop, IsQueued
      <3>. QED  BY <2>1, <3>1, <3>2 DEF QueueInLoop, Promise!Submit
    <2>2. CASE RunTask
      <3>1. batch \o queue # <<>> /\ Tail(batch) \o queue = Tail(batch \o queue)
        BY <2>2, ConcatRun DEF WakeupInv, TypeOK, RunTask
      <3>. QED  BY <2>2, <3>1 DEF RunTask, Promise!Next, Promise!Run
    <2>3. CASE SwapTasks
      <3>1. batch = <<>> /\ batch' = queue /\ queue' = <<>> /\ queue \in Seq(Tasks)
        BY <2>3 DEF WakeupInv, TypeOK, SwapTasks, Running
      <3>. QED  BY <3>1
    <2>4. CASE \E th \in Threads : WeakUpFd(th)
      BY <2>4 DEF WeakUpFd
    <2>5. CASE IoReady \/ Poll \/ PollInterrupted \/ ReadEventFd \/ HanderEvent \/ EndTasks
      BY <2>5 DEF IoReady, Poll, PollInterrupted, ReadEventFd, HanderEvent, EndTasks
    <2>6. CASE UNCHANGED vars
      BY <2>6 DEF vars
    <2>. QED  BY <2>1, <2>2, <2>3, <2>4, <2>5, <2>6 DEF Next, Promise!Next
  <1>. QED  BY <1>1, <1>2, WakeupsKept, PTL DEF Spec, ImplementsTaskQueue, Promise!Steps
=============================================================================
