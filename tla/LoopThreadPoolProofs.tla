------------------------ MODULE LoopThreadPoolProofs ------------------------
(***************************************************************************)
(* Proofs about LoopThreadPool, for pools of any size.                     *)
(***************************************************************************)
EXTENDS LoopThreadPool, TLAPS

ReadyThreads == {"notify", "unlock", "start", "looping"}

(* A loop is set only by its thread, stays set once Create has returned it *)
(* (so that the thread finds it there when it starts), and the caller      *)
(* tests no _loop that is not constructed.                                 *)
HandshakeInv ==
  /\ LoopsAreReady
  /\ \A i \in Indices : i < current => loop[i] = "set"
  /\ \A i \in Indices : loop[i] = "set" => thread[i] \in ReadyThreads
  /\ \A i \in Indices :
       i > current \/ (i = current /\ main = "new") =>
         loop[i] = "raw" /\ thread[i] = "unborn"
  /\ main \in {"lock", "test", "wait"} => loop[current] # "raw"

(* The loops up to _next_EventLoop are one connection ahead of the others. *)
TurnInv == \A i \in Pool : load[i] = IF 1 <= i /\ i <= next THEN 1 ELSE 0

PoolInv == TypeOK /\ HandshakeInv /\ TurnInv

(* The index is advanced to its successor, or back to the first loop.      *)
LEMMA AdvanceWraps ==
  ASSUME NEW C \in Nat \ {0}, NEW n \in 0 .. C - 1
  PROVE  (n + 1) % C = IF n + 1 < C THEN n + 1 ELSE 0
<1>1. CASE n + 1 < C
  <2>1. (n + 1) % C = n + 1
    BY <1>1
  <2> QED
    BY <1>1, <2>1
<1>2. CASE ~(n + 1 < C)
  <2>1. n + 1 = C
    BY <1>2
  <2>2. C % C = 0
    OBVIOUS
  <2> QED
    BY <1>2, <2>1, <2>2
<1> QED
  BY <1>1, <1>2

LEMMA InitPool == Init => PoolInv
<1> SUFFICES ASSUME Init PROVE PoolInv
  OBVIOUS
<1> USE PoolAssumption
<1>1. Indices = 0 .. MaxThreads /\ Pool \subseteq Indices
  BY DEF Indices, Pool
<1>2. TypeOK
  <2>1. Thread_Cnt \in 0 .. MaxThreads /\ Thread_Cnt \in Nat /\ 0 \in Indices
    BY DEF Init, Indices
  <2>2. current \in 0 .. Thread_Cnt /\ (main # "serving" => current < Thread_Cnt)
    BY <2>1 DEF Init
  <2>3. main \in {"new", "members", "lock", "test", "wait", "serving"}
    BY DEF Init
  <2>4. next \in Indices /\ (Thread_Cnt > 0 => next < Thread_Cnt)
    BY <2>1 DEF Init
  <2>5. load \in [Indices -> Nat]
    BY DEF Init
  <2>6. /\ thread \in [Indices -> {"unborn", "born", "lock", "hung", "publish", "notify",
                                   "unlock", "start", "crashed", "looping"}]
        /\ mutex \in [Indices -> {"raw", "free", "main", "thread"}]
        /\ loop \in [Indices -> {"raw", "null", "set"}]
        /\ slaves \in [Indices -> {"raw", "null", "set"}]
        /\ clobbered \in BOOLEAN
    BY DEF Init
  <2> QED
    BY <2>1, <2>2, <2>3, <2>4, <2>5, <2>6 DEF TypeOK
<1>3. HandshakeInv
  BY <1>1 DEF Init, HandshakeInv, LoopsAreReady
<1>4. TurnInv
  BY <1>1 DEF Init, TurnInv, Indices, Pool
<1> QED
  BY <1>2, <1>3, <1>4 DEF PoolInv

(* A step of one of the threads. *)
LEMMA ThreadKeepsPool ==
  ASSUME PoolInv, NEW i \in Indices, Thread_Entry(i)
  PROVE  PoolInv'
<1> USE DEF PoolInv
<1>0. UNCHANGED <<Thread_Cnt, current, poolVars>> /\ Pool' = Pool
  BY DEF Thread_Entry, ConstructEventLoop, Lock, LockHangs, Publish, NotifyAll, Unlock, Start,
         poolVars, Pool
<1>1. TurnInv'
  BY <1>0 DEF TurnInv, poolVars
<1>2. \/ main' = main
      \/ main = "wait" /\ main' = "lock"
  BY DEF Thread_Entry, ConstructEventLoop, Lock, LockHangs, Publish, NotifyAll, Unlock, Start
<1>3. TypeOK'
  <2>1. thread' \in [Indices -> {"unborn", "born", "lock", "hung", "publish", "notify",
                                 "unlock", "start", "crashed", "looping"}]
    BY DEF TypeOK, Thread_Entry, ConstructEventLoop, Lock, LockHangs, Publish, NotifyAll, Unlock, Start
  <2>2. mutex' \in [Indices -> {"raw", "free", "main", "thread"}]
    BY DEF TypeOK, Thread_Entry, ConstructEventLoop, Lock, LockHangs, Publish, NotifyAll, Unlock, Start
  <2>3. loop' \in [Indices -> {"raw", "null", "set"}]
    BY DEF TypeOK, Thread_Entry, ConstructEventLoop, Lock, LockHangs, Publish, NotifyAll, Unlock, Start
  <2>4. clobbered' \in BOOLEAN
    BY DEF TypeOK, Thread_Entry, ConstructEventLoop, Lock, LockHangs, Publish, NotifyAll, Unlock, Start
  <2> QED
    BY <1>0, <1>2, <2>1, <2>2, <2>3, <2>4 DEF TypeOK, poolVars
<1>4. thread[i] # "unborn"
  BY DEF Thread_Entry, ConstructEventLoop, Lock, LockHangs, Publish, NotifyAll, Unlock, Start
<1>5. /\ thread[i] \in ReadyThreads /\ loop[i] = "set" => thread'[i] \in ReadyThreads
      /\ \A j \in Indices : j # i => thread'[j] = thread[j] /\ loop'[j] = loop[j]
      /\ loop'[i] = loop[i] \/ (loop'[i] = "set" /\ thread'[i] \in ReadyThreads)
  BY DEF TypeOK, ReadyThreads, Thread_Entry, ConstructEventLoop, Lock, LockHangs, Publish,
         NotifyAll, Unlock, Start
<1>6. HandshakeInv'
  <2>1. LoopsAreReady'
    BY <1>0, <1>5 DEF HandshakeInv, LoopsAreReady, ReadyThreads, poolVars
  <2>2. /\ (\A j \in Indices : j < current => loop[j] = "set")'
        /\ (\A j \in Indices : loop[j] = "set" => thread[j] \in ReadyThreads)'
    BY <1>0, <1>5 DEF HandshakeInv
  <2>3. (\A j \in Indices : j > current \/ (j = current /\ main = "new") =>
                               loop[j] = "raw" /\ thread[j] = "unborn")'
    BY <1>0, <1>2, <1>4, <1>5 DEF HandshakeInv
  <2>4. (main \in {"lock", "test", "wait"} => loop[current] # "raw")'
    <3>1. current \in Nat
      BY PoolAssumption DEF TypeOK
    <3>2. main' \in {"lock", "test", "wait"} => main \in {"lock", "test", "wait"} /\ current \in Indices
      BY <1>2, <3>1, PoolAssumption DEF TypeOK, Indices
    <3> QED
      BY <1>0, <1>5, <3>2 DEF HandshakeInv
  <2> QED
    BY <2>1, <2>2, <2>3, <2>4 DEF HandshakeInv
<1> QED
  BY <1>1, <1>3, <1>6

(* A step of the caller of Create. *)
LEMMA CreateKeepsPool ==
  ASSUME PoolInv, Create \/ WakeSpuriously
  PROVE  PoolInv'
<1> USE PoolAssumption DEF PoolInv
<1>0. UNCHANGED <<Thread_Cnt, next, load>> /\ Pool' = Pool
  BY DEF Create, NewThread, ConstructMembers, GetLock, Wait, WakeSpuriously, Get_EventLoop,
         poolVars, Pool
<1>1. TurnInv'
  BY <1>0 DEF TurnInv
<1>2. current \in Indices /\ current \in Nat /\ Thread_Cnt \in Nat /\ Thread_Cnt <= MaxThreads
  BY DEF TypeOK, Indices
<1>3. CASE NewThread
  <2>1. TypeOK'
    BY <1>2, <1>3 DEF NewThread, TypeOK, poolVars
  <2>2. HandshakeInv'
    BY <1>2, <1>3 DEF NewThread, TypeOK, HandshakeInv, LoopsAreReady, ReadyThreads, Indices, poolVars
  <2> QED
    BY <1>1, <2>1, <2>2
<1>4. CASE ConstructMembers
  <2>1. TypeOK'
    BY <1>2, <1>4 DEF ConstructMembers, TypeOK, poolVars
  <2>2. HandshakeInv'
    BY <1>2, <1>4 DEF ConstructMembers, TypeOK, HandshakeInv, LoopsAreReady, ReadyThreads, Indices, poolVars
  <2> QED
    BY <1>1, <2>1, <2>2
<1>5. CASE GetLock \/ Wait \/ WakeSpuriously
  <2>1. TypeOK'
    BY <1>2, <1>5 DEF GetLock, Wait, WakeSpuriously, TypeOK, poolVars, threadVars
  <2>2. UNCHANGED <<current, thread, loop, slaves>> /\ main \in {"lock", "test", "wait"}
        /\ main' \in {"lock", "test", "wait"}
    BY <1>5 DEF GetLock, Wait, WakeSpuriously, poolVars, threadVars
  <2>3. HandshakeInv'
    BY <2>2 DEF HandshakeInv, LoopsAreReady
  <2> QED
    BY <1>1, <2>1, <2>3
<1>6. CASE Get_EventLoop
  <2>1. loop[current] = "set" /\ thread[current] \in ReadyThreads
    BY <1>2, <1>6 DEF Get_EventLoop, TypeOK, HandshakeInv
  <2>2. current < Thread_Cnt /\ current' = current + 1
    BY <1>6 DEF Get_EventLoop, TypeOK
  <2>3. main' = (IF current' < Thread_Cnt THEN "new" ELSE "serving")
    BY <1>6 DEF Get_EventLoop
  <2>4. UNCHANGED <<thread, loop, clobbered>>
    BY <1>6 DEF Get_EventLoop
  <2>5. slaves' = [slaves EXCEPT ![current] = "set"]
    BY <1>6, <2>1 DEF Get_EventLoop
  <2>6. mutex' \in [Indices -> {"raw", "free", "main", "thread"}]
    BY <1>2, <1>6 DEF Get_EventLoop, TypeOK
  <2>7. TypeOK'
    <3>1. current' \in 0 .. Thread_Cnt /\ (main' # "serving" => current' < Thread_Cnt)
      BY <1>2, <2>2, <2>3
    <3>2. main' \in {"new", "members", "lock", "test", "wait", "serving"}
      BY <2>3
    <3>3. slaves' \in [Indices -> {"raw", "null", "set"}]
      BY <2>5 DEF TypeOK
    <3> QED
      BY <1>0, <2>4, <2>6, <3>1, <3>2, <3>3 DEF TypeOK
  <2>8. LoopsAreReady'
    <3>1. ASSUME NEW j \in Indices, j < current + 1
          PROVE  slaves'[j] = "set" /\ thread[j] \in ReadyThreads
      <4>1. CASE j = current
        BY <1>2, <2>1, <2>5, <4>1 DEF TypeOK
      <4>2. CASE j # current
        <5>1. j < current
          BY <1>2, <3>1, <4>2 DEF Indices
        <5> QED
          BY <2>5, <4>2, <5>1 DEF HandshakeInv, LoopsAreReady, ReadyThreads, TypeOK
      <4> QED
        BY <4>1, <4>2
    <3> QED
      BY <2>2, <2>4, <3>1 DEF LoopsAreReady, ReadyThreads
  <2>9. (\A j \in Indices : j > current \/ (j = current /\ main = "new") =>
                               loop[j] = "raw" /\ thread[j] = "unborn")'
    BY <1>2, <2>2, <2>4 DEF HandshakeInv, Indices
  <2>10. (\A j \in Indices : j < current => loop[j] = "set")'
    BY <1>2, <2>1, <2>2, <2>4 DEF HandshakeInv, Indices
  <2>11. HandshakeInv'
    BY <2>3, <2>4, <2>8, <2>9, <2>10 DEF HandshakeInv
  <2> QED
    BY <1>1, <2>7, <2>11
<1> QED
  BY <1>3, <1>4, <1>5, <1>6 DEF Create

(* A connection is given to the next loop. *)
LEMMA NextLoopKeepsPool ==
  ASSUME PoolInv, Get_Next_EventLoop
  PROVE  PoolInv'
<1> USE PoolAssumption DEF PoolInv
<1>0. UNCHANGED <<Thread_Cnt, main, current, thread, mutex, loop, slaves, clobbered>> /\ Pool' = Pool
  BY DEF Get_Next_EventLoop, threadVars, Pool
<1>1. HandshakeInv'
  BY <1>0 DEF HandshakeInv, LoopsAreReady
<1>2. CASE Thread_Cnt = 0
  <2>1. UNCHANGED <<next, load>>
    BY <1>2 DEF Get_Next_EventLoop
  <2> QED
    BY <1>0, <1>1, <2>1 DEF TypeOK, TurnInv
<1>3. CASE Thread_Cnt # 0
  <2> DEFINE counts == [load EXCEPT ![next'] = @ + 1]
  <2>1. Thread_Cnt \in Nat \ {0} /\ Thread_Cnt <= MaxThreads /\ next \in 0 .. Thread_Cnt - 1
    BY <1>3 DEF TypeOK, Indices
  <2>2. next' = IF next + 1 < Thread_Cnt THEN next + 1 ELSE 0
    BY <1>3, <2>1, AdvanceWraps DEF Get_Next_EventLoop, Advanced
  <2>3. load' = Counted(counts)
    BY <1>3 DEF Get_Next_EventLoop
  <2>4. next' \in Nat /\ next' < Thread_Cnt /\ next' \in Indices
    BY <2>1, <2>2 DEF Indices
  <2>5. counts \in [Indices -> Nat]
    BY <2>4 DEF TypeOK
  <2>6. \A i \in Pool : i \in Indices /\ i \in Nat /\ i < Thread_Cnt
    BY DEF Pool, Indices
  <2>7. \A i \in Pool : counts[i] = (IF i = next' THEN load[i] + 1 ELSE load[i])
    BY <2>4, <2>6 DEF TypeOK
  <2>8. load' \in [Indices -> Nat]
    <3>1. CASE \A i \in Pool : counts[i] > 0
      <4>1. load' = [i \in Indices |-> IF i \in Pool THEN counts[i] - 1 ELSE 0]
        BY <2>3, <3>1 DEF Counted
      <4>2. \A i \in Pool : counts[i] - 1 \in Nat
        BY <2>5, <2>6, <3>1
      <4> QED
        BY <4>1, <4>2
    <3>2. CASE ~(\A i \in Pool : counts[i] > 0)
      <4>1. load' = counts
        BY <2>3, <3>2 DEF Counted
      <4> QED
        BY <2>5, <4>1
    <3> QED
      BY <3>1, <3>2
  <2>9. TypeOK'
    BY <1>0, <2>4, <2>8 DEF TypeOK
  <2>10. TurnInv'
    <3>1. CASE next + 1 < Thread_Cnt
      <4>1. 0 \in Pool /\ next' = next + 1
        BY <2>1, <2>2, <3>1 DEF Pool, Indices
      <4>2. counts[0] = 0
        BY <2>1, <2>7, <4>1 DEF TurnInv
      <4>3. load' = counts
        BY <2>3, <4>1, <4>2 DEF Counted
      <4>4. \A i \in Pool : counts[i] = IF 1 <= i /\ i <= next + 1 THEN 1 ELSE 0
        BY <2>1, <2>6, <2>7, <4>1 DEF TurnInv
      <4> QED
        BY <1>0, <4>1, <4>3, <4>4 DEF TurnInv
    <3>2. CASE ~(next + 1 < Thread_Cnt)
      <4>1. next' = 0 /\ next + 1 = Thread_Cnt
        BY <2>1, <2>2, <3>2
      <4>2. \A i \in Pool : counts[i] = 1
        BY <2>1, <2>6, <2>7, <4>1 DEF TurnInv
      <4>3. \A i \in Pool : load'[i] = 0
        BY <2>3, <2>6, <4>2 DEF Counted
      <4>4. \A i \in Pool : ~(1 <= i /\ i <= 0)
        BY <2>6
      <4> QED
        BY <1>0, <4>1, <4>3, <4>4 DEF TurnInv
    <3> QED
      BY <3>1, <3>2
  <2> QED
    BY <1>1, <2>9, <2>10
<1> QED
  BY <1>2, <1>3

THEOREM PoolCorrect == Spec => []PoolInv
<1>1. PoolInv /\ [Next]_vars => PoolInv'
  <2> SUFFICES ASSUME PoolInv, [Next]_vars PROVE PoolInv'
    OBVIOUS
  <2>1. CASE UNCHANGED vars
    BY <2>1 DEF vars, threadVars, poolVars, PoolInv, TypeOK, HandshakeInv, LoopsAreReady, TurnInv, Pool
  <2>2. CASE Next
    BY <2>2, ThreadKeepsPool, CreateKeepsPool, NextLoopKeepsPool DEF Next
  <2> QED
    BY <2>1, <2>2
<1> QED
  BY <1>1, InitPool, PTL DEF Spec

(* The variables keep their types: the index stays inside of the pool.     *)
THEOREM TypeCorrect == Spec => []TypeOK
BY PoolCorrect, PTL DEF PoolInv

(* Whatever the threads of a starting pool do, ahead of their constructors *)
(* or not, the server gets only loops that their threads have made.        *)
THEOREM LoopsReady == Spec => []LoopsAreReady
BY PoolCorrect, PTL DEF PoolInv, HandshakeInv

(* In a pool of any size no loop gets two connections more than another.   *)
THEOREM Fair == Spec => []FairShare
<1>1. PoolInv => FairShare
  <2> SUFFICES ASSUME PoolInv, NEW i \in Pool, NEW j \in Pool PROVE load[i] <= load[j] + 1
    BY DEF FairShare
  <2> QED
    BY DEF PoolInv, TurnInv
<1> QED
  BY <1>1, PoolCorrect, PTL
=============================================================================
