--------------------------- MODULE LoopThreadPool ---------------------------
(***************************************************************************)
(* LoopThread and LoopThreadPool: TcpSever::Start creates the threads one  *)
(* after the other, waits for the loop of each, and from then on deals the *)
(* connections out to the loops in turn.                                   *)
(*                                                                         *)
(* A LoopThread's std::thread is its first member: it runs while the       *)
(* condition variable, the mutex and _loop behind it are still to be       *)
(* constructed.  What it did to them is then overwritten.                  *)
(***************************************************************************)
EXTENDS Naturals

CONSTANT
  MaxThreads    (* bound: most threads of a pool                           *)

ASSUME PoolAssumption == MaxThreads \in Nat

Indices == 0 .. MaxThreads

VARIABLES
  Thread_Cnt,   (* Set_Slave_Thread_Cnt, before Start                      *)
  main,         (* where the caller of Start is: "new", "members", "lock", *)
                (* "test", "wait", and "serving" when Create has returned  *)
  current,      (* Create's i                                              *)
  thread,       (* where each LoopThread's thread is                       *)
  mutex,        (* _mutex: "raw" before it is constructed, "free", or who  *)
                (* holds it                                                *)
  loop,         (* _loop: "raw", "null", or "set" to the thread's EventLoop*)
  slaves,       (* _Slave_Event_Loops: what Get_EventLoop returned         *)
  next,         (* _next_EventLoop                                         *)
  load,         (* history: connections given to each loop, counted from   *)
                (* the loop that got fewest                                *)
  clobbered     (* history: a constructor met a thread that was ahead of it*)

threadVars == <<thread, mutex, loop>>
poolVars == <<slaves, next, load>>
vars == <<Thread_Cnt, main, current, threadVars, poolVars, clobbered>>

Pool == {i \in Indices : i < Thread_Cnt}

Init ==
  /\ Thread_Cnt \in 0 .. MaxThreads
  /\ main = IF Thread_Cnt > 0 THEN "new" ELSE "serving"
  /\ current = 0
  /\ thread = [i \in Indices |-> "unborn"]
  /\ mutex = [i \in Indices |-> "raw"]
  /\ loop = [i \in Indices |-> "raw"]
  /\ slaves = [i \in Indices |-> "null"]
  /\ next = 0
  /\ load = [i \in Indices |-> 0]
  /\ clobbered = FALSE

-----------------------------------------------------------------------------
(* The thread. *)

ConstructEventLoop(i) ==
  /\ thread[i] = "born"
  /\ thread' = [thread EXCEPT ![i] = "lock"]
  /\ UNCHANGED <<Thread_Cnt, main, current, mutex, loop, poolVars, clobbered>>

(* A mutex that is not constructed holds what memory held: it may look     *)
(* free or taken.                                                          *)
Lock(i) ==
  /\ thread[i] = "lock"
  /\ mutex[i] \in {"free", "raw"}
  /\ mutex' = [mutex EXCEPT ![i] = "thread"]
  /\ thread' = [thread EXCEPT ![i] = "publish"]
  /\ UNCHANGED <<Thread_Cnt, main, current, loop, poolVars, clobbered>>

LockHangs(i) ==
  /\ thread[i] = "lock" /\ mutex[i] = "raw"
  /\ thread' = [thread EXCEPT ![i] = "hung"]
  /\ clobbered' = TRUE
  /\ UNCHANGED <<Thread_Cnt, main, current, mutex, loop, poolVars>>

Publish(i) ==
  /\ thread[i] = "publish"
  /\ loop' = [loop EXCEPT ![i] = "set"]
  /\ thread' = [thread EXCEPT ![i] = "notify"]
  /\ UNCHANGED <<Thread_Cnt, main, current, mutex, poolVars, clobbered>>

(* Mistake: the waiting thread is not notified. *)
NotifyNobody(i) ==
  /\ thread[i] = "notify"
  /\ thread' = [thread EXCEPT ![i] = "unlock"]
  /\ UNCHANGED <<Thread_Cnt, main, current, mutex, loop, poolVars, clobbered>>

NotifyAll(i) ==
  /\ thread[i] = "notify"
  /\ thread' = [thread EXCEPT ![i] = "unlock"]
  /\ main' = IF main = "wait" /\ current = i THEN "lock" ELSE main
  /\ UNCHANGED <<Thread_Cnt, current, mutex, loop, poolVars, clobbered>>

Unlock(i) ==
  /\ thread[i] = "unlock"
  /\ mutex' = [mutex EXCEPT ![i] = "free"]
  /\ thread' = [thread EXCEPT ![i] = "start"]
  /\ UNCHANGED <<Thread_Cnt, main, current, loop, poolVars, clobbered>>

(* _loop->Start() reads the member again, outside of the lock: when the    *)
(* constructor has overwritten it, a null pointer is dereferenced (which   *)
(* ends the process; here only the thread stops, and nothing is left out). *)
Start(i) ==
  /\ thread[i] = "start"
  /\ thread' = [thread EXCEPT ![i] = IF loop[i] = "set" THEN "looping" ELSE "crashed"]
  /\ UNCHANGED <<Thread_Cnt, main, current, mutex, loop, poolVars, clobbered>>

Thread_Entry(i) ==
  \/ ConstructEventLoop(i) \/ Lock(i) \/ LockHangs(i)
  \/ Publish(i) \/ NotifyAll(i) \/ Unlock(i) \/ Start(i)

-----------------------------------------------------------------------------
(* The caller of Create. *)

(* new LoopThread(): the member _thread, which runs from now on. *)
NewThread ==
  /\ main = "new"
  /\ main' = "members"
  /\ thread' = [thread EXCEPT ![current] = "born"]
  /\ UNCHANGED <<Thread_Cnt, current, mutex, loop, poolVars, clobbered>>

(* The other members: _cond, _mutex, _loop(nullptr). *)
ConstructMembers ==
  /\ main = "members"
  /\ main' = "lock"
  /\ mutex' = [mutex EXCEPT ![current] = "free"]
  /\ loop' = [loop EXCEPT ![current] = "null"]
  /\ clobbered' = (clobbered \/ mutex[current] # "raw")
  /\ UNCHANGED <<Thread_Cnt, current, thread, poolVars>>

GetLock ==
  /\ main = "lock" /\ mutex[current] = "free"
  /\ main' = "test"
  /\ mutex' = [mutex EXCEPT ![current] = "main"]
  /\ UNCHANGED <<Thread_Cnt, current, thread, loop, poolVars, clobbered>>

(* wait() gives the mutex up and sleeps. *)
Wait ==
  /\ main = "test" /\ loop[current] = "null"
  /\ main' = "wait"
  /\ mutex' = [mutex EXCEPT ![current] = "free"]
  /\ UNCHANGED <<Thread_Cnt, current, thread, loop, poolVars, clobbered>>

WakeSpuriously ==
  /\ main = "wait"
  /\ main' = "lock"
  /\ UNCHANGED <<Thread_Cnt, current, threadVars, poolVars, clobbered>>

(* Mistake: _loop is not tested, whoever gets the mutex takes it. *)
Get_EventLoopUntested ==
  /\ main = "test"
  /\ slaves' = [slaves EXCEPT ![current] = loop[current]]
  /\ mutex' = [mutex EXCEPT ![current] = "free"]
  /\ current' = current + 1
  /\ main' = IF current' < Thread_Cnt THEN "new" ELSE "serving"
  /\ UNCHANGED <<Thread_Cnt, thread, loop, next, load, clobbered>>

Get_EventLoop ==
  /\ main = "test" /\ loop[current] # "null"
  /\ slaves' = [slaves EXCEPT ![current] = loop[current]]
  /\ mutex' = [mutex EXCEPT ![current] = "free"]
  /\ current' = current + 1
  /\ main' = IF current' < Thread_Cnt THEN "new" ELSE "serving"
  /\ UNCHANGED <<Thread_Cnt, thread, loop, next, load, clobbered>>

Create ==
  NewThread \/ ConstructMembers \/ GetLock \/ Wait \/ Get_EventLoop

-----------------------------------------------------------------------------
(* Counting from the loop that got fewest: only the differences matter. *)
Counted(counts) ==
  IF \A i \in Pool : counts[i] > 0
  THEN [i \in Indices |-> IF i \in Pool THEN counts[i] - 1 ELSE 0]
  ELSE counts

(* Mistake: the index is not taken modulo the number of threads. *)
AdvancedNoWrap == next + 1

(* Mistake: the last loop of several is left out. *)
AdvancedSkipsLast == (next + 1) % (IF Thread_Cnt > 1 THEN Thread_Cnt - 1 ELSE 1)

Advanced == (next + 1) % Thread_Cnt

(* NewConnection in the base loop; it keeps the connection when there are  *)
(* no threads.                                                             *)
Get_Next_EventLoop ==
  /\ main = "serving"
  /\ next' = IF Thread_Cnt = 0 THEN next ELSE Advanced
  /\ load' = IF Thread_Cnt = 0 THEN load
             ELSE Counted([load EXCEPT ![next'] = @ + 1])
  /\ UNCHANGED <<Thread_Cnt, main, current, threadVars, slaves, clobbered>>

Next ==
  \/ \E i \in Indices : Thread_Entry(i)
  \/ Create
  \/ WakeSpuriously
  \/ Get_Next_EventLoop

(* Threads run on; no one owes a spurious wake-up or a connection.  A      *)
(* thread gets a mutex that is free again and again (hence SF): it would   *)
(* only miss it if the caller woke up for nothing for ever.                *)
Fairness ==
  /\ \A i \in Indices : WF_vars(Thread_Entry(i)) /\ SF_vars(Lock(i))
  /\ WF_vars(Create)

Spec == Init /\ [][Next]_vars /\ Fairness

-----------------------------------------------------------------------------
TypeOK ==
  /\ Thread_Cnt \in 0 .. MaxThreads
  /\ main \in {"new", "members", "lock", "test", "wait", "serving"}
  /\ current \in 0 .. Thread_Cnt
  /\ main # "serving" => current < Thread_Cnt
  /\ thread \in [Indices -> {"unborn", "born", "lock", "hung", "publish", "notify",
                             "unlock", "start", "crashed", "looping"}]
  /\ mutex \in [Indices -> {"raw", "free", "main", "thread"}]
  /\ loop \in [Indices -> {"raw", "null", "set"}]
  /\ slaves \in [Indices -> {"raw", "null", "set"}]
  /\ next \in Indices /\ (Thread_Cnt > 0 => next < Thread_Cnt)
  /\ load \in [Indices -> Nat]
  /\ clobbered \in BOOLEAN

(* Every loop that Create hands to the server was set by its own thread,   *)
(* which had constructed it and goes on to run it, even if the constructor *)
(* of LoopThread came late.                                                *)
LoopsAreReady ==
  \A i \in Indices : i < current =>
    slaves[i] = "set" /\ thread[i] \in {"notify", "unlock", "start", "looping"}

(* No loop is two connections ahead of another.                            *)
FairShare == \A i, j \in Pool : load[i] <= load[j] + 1

(* Start gets to the base loop, and every thread to its own, whether the   *)
(* caller or the thread is first at the mutex, unless a thread was ahead   *)
(* of the constructor of its LoopThread.                                   *)
PoolStarts ==
  /\ <>(clobbered \/ main = "serving")
  /\ \A i \in Indices : thread[i] = "born" ~> (clobbered \/ thread[i] = "looping")

(* The same without the exception.                                         *)
PoolAlwaysStarts == <>(main = "serving")
=============================================================================
