-------------------------- MODULE IdleTimeoutProofs --------------------------
(***************************************************************************)
(* Theorems about IdleTimeout: what the timeout of a connection promises   *)
(* when it is enabled only while the connection has no timer, for every    *)
(* capacity of the ring and every set of connections, timer objects and    *)
(* delays, and however often it is switched off and on.                    *)
(***************************************************************************)
EXTENDS IdleTimeout, TimeWheelProofs

(* The fields of the connections have their types. *)
ConnTypes ==
  /\ enabled \in [Conns -> BOOLEAN]
  /\ status \in [Conns -> {"open", "closed"}]
  /\ releases \in Seq(Conns)
  /\ due \in 0 .. Len(releases)
  /\ idle \in [Conns -> 0 .. Capacity]
  /\ released \in SUBSET Conns

(* A timer that exists was set by EnableTimeoutDel; while it can still run *)
(* its callback its connection is open, has the timeout on, and has been   *)
(* idle for at least as long as the timer was not refreshed.               *)
ArmedFor(t) ==
  /\ enabled[task[t].id]
  /\ status[task[t].id] = "open"
  /\ idle[task[t].id] >= age[t]

TimerInv ==
  \A t \in Tasks : Live(t) /\ ~task[t].canceled => ArmedFor(t)

(* What is queued to be released, or was, was released for a reason: a     *)
(* timer only queues a release while it is armed.                          *)
ReasonInv ==
  /\ DisableStopsTimer
  /\ \A i \in 1 .. Len(releases) : releases[i] \in released

ConnInv ==
  /\ ObjectInv
  /\ DeadlineInv
  /\ Named
  /\ ConnTypes
  /\ TimerInv
  /\ ReasonInv

-----------------------------------------------------------------------------
(* The wheel under connections that have one timer each.                   *)

(* Enabling the timeout of a connection without a timer only sets one. *)
LEMMA EnableSetsTimer ==
  ASSUME WheelAssumption, Reuse = FALSE, ConnInv, NEW c \in Conns, NEW sec \in Delays,
         EnableTimeoutDelInLoop(c, sec)
  PROVE  ~HasTimer(c) /\ sec \in Times /\ SetTimeTask(c, sec)
  <1>1. TypeOK
    BY DEF ConnInv, ObjectInv
  <1>3. ~HasTimer(c)
    BY DEF EnableTimeoutDelInLoop
  <1>4. sec \in Times
    BY DEF WheelAssumption, Times
  <1>5. PICK t \in Tasks :
          /\ ~Live(t)
          /\ wheels' = Push(wheels, t, sec)
          /\ timers' = [timers EXCEPT ![c] = t]
          /\ task' = [task EXCEPT ![t] = [id |-> c, time |-> sec, canceled |-> FALSE]]
          /\ age' = [u \in Tasks |-> IF u \in {t, timers[c]} THEN 0 ELSE age[u]]
    BY <1>3 DEF EnableTimeoutDelInLoop
  <1>6. timers[c] \notin Tasks
    BY <1>3, WheelAssumption DEF HasTimer, WheelAssumption
  <1>7. age' = [age EXCEPT ![t] = 0]
    BY <1>1, <1>5, <1>6 DEF TypeOK
  <1>8. PushBack(t, sec) /\ UNCHANGED <<tick, clearing, dying, pending>>
    BY <1>5 DEF PushBack, EnableTimeoutDelInLoop, Quiet, InCallback
  <1>. QED  BY <1>3, <1>4, <1>5, <1>7, <1>8 DEF SetTimeTask

(* Every step of the connections is a step of the wheel, one timer each. *)
LEMMA WheelSteps ==
  ASSUME WheelAssumption, Reuse = FALSE, ConnInv, [NextConns]_allVars
  PROVE  OneTimerStep
  <1>1. ASSUME NEW c \in Conns, NEW sec \in Delays, EnableTimeoutDelInLoop(c, sec)
        PROVE  OneTimerStep
    BY <1>1, EnableSetsTimer DEF OneTimerStep, Conns
  <1>2. ASSUME NEW c \in Conns, DisableTimeoutDelInLoop(c)
        PROVE  OneTimerStep
    BY <1>2 DEF DisableTimeoutDelInLoop, CancelTimer, OneTimerStep, Conns
  <1>3. ASSUME NEW c \in Conns, HanderEvent(c)
        PROVE  OneTimerStep
    BY <1>3 DEF HanderEvent, OneTimerStep, Conns
  <1>4. ASSUME NEW c \in Conns, Release(c)
        PROVE  OneTimerStep
    BY <1>4 DEF Release, OneTimerStep
  <1>5. CASE ReleaseInloop
    <2>1. Head(releases) \in Conns
      BY <1>5 DEF ReleaseInloop, ConnInv, ConnTypes
    <2>. QED  BY <1>5, <2>1 DEF ReleaseInloop, CancelTimer, OneTimerStep, Conns
  <1>6. CASE Expire \/ Ring \/ Drop \/ Second
    BY <1>6 DEF Expire, Ring, Drop, Second, OneTimerStep
  <1>7. CASE UNCHANGED allVars
    BY <1>7 DEF allVars, OneTimerStep
  <1>. QED  BY <1>1, <1>2, <1>3, <1>4, <1>5, <1>6, <1>7 DEF NextConns

(* What is known of the wheel alone is kept by such steps. *)
LEMMA WheelStepKeeps ==
  ASSUME WheelAssumption, ObjectInv, DeadlineInv, Named, OneTimerStep
  PROVE  ObjectInv' /\ DeadlineInv' /\ Named'
  <1>1. Named'
    BY NamedStep
  <1>2. CASE \E id \in Ids : \/ ~HasTimer(id) /\ \E d \in Times : SetTimeTask(id, d)
                             \/ FlushTimeTask(id)
                             \/ RemoveTimeTask(id)
    BY <1>1, <1>2, SetTimeTaskObjects, FlushTimeTaskObjects, RemoveTimeTaskObjects,
       SetTimeTaskDeadline, FlushTimeTaskDeadline, RemoveTimeTaskDeadline
  <1>3. CASE Elapse
    BY <1>1, <1>3, ElapseObjects, ElapseDeadline
  <1>4. CASE OneTime
    BY <1>1, <1>4, OneTimeObjects, OneTimeDeadline
  <1>5. CASE \E t \in Tasks : DropReference(t)
    BY <1>1, <1>5, DropReferenceObjects, DropReferenceDeadline
  <1>6. CASE ExcuteTimer
    BY <1>1, <1>6, ExcuteTimerObjects, ExcuteTimerDeadline
  <1>7. CASE UNCHANGED vars
    BY <1>1, <1>7 DEF vars, wheelVars, ObjectInv, TypeOK, Live, InSlots, HasTimer,
                      DeadlineInv, FarEnough, Unread, SlotAfter
  <1>. QED  BY <1>2, <1>3, <1>4, <1>5, <1>6, <1>7 DEF OneTimerStep

(* Every field of the connections keeps its type. *)
LEMMA ConnTypesStep ==
  ASSUME WheelAssumption, Reuse = FALSE, ConnInv, [NextConns]_allVars
  PROVE  ConnTypes'
  <1>1. ConnTypes /\ ObjectInv /\ 0 \in 0 .. Capacity
    BY DEF ConnInv, WheelAssumption
  <1>2. ASSUME NEW c \in Conns, NEW sec \in Delays, EnableTimeoutDelInLoop(c, sec)
        PROVE  ConnTypes'
    <2>1. /\ enabled' = [enabled EXCEPT ![c] = TRUE]
          /\ idle' = [idle EXCEPT ![c] = 0]
          /\ UNCHANGED <<status, releases, due, released>>
      BY <1>2 DEF EnableTimeoutDelInLoop
    <2>. QED  BY <1>1, <2>1 DEF ConnTypes
  <1>3. ASSUME NEW c \in Conns, DisableTimeoutDelInLoop(c)
        PROVE  ConnTypes'
    <2>1. /\ enabled' = [enabled EXCEPT ![c] = FALSE]
          /\ UNCHANGED <<status, releases, due, idle, released>>
      BY <1>3 DEF DisableTimeoutDelInLoop
    <2>. QED  BY <1>1, <2>1 DEF ConnTypes
  <1>4. ASSUME NEW c \in Conns, HanderEvent(c)
        PROVE  ConnTypes'
    <2>1. /\ idle' = [idle EXCEPT ![c] = 0]
          /\ UNCHANGED <<enabled, status, releases, due, released>>
      BY <1>4 DEF HanderEvent
    <2>. QED  BY <1>1, <2>1 DEF ConnTypes
  <1>5. ASSUME NEW c \in Conns, Release(c)
        PROVE  ConnTypes'
    <2>1. /\ releases' = Append(releases, c)
          /\ released' = released \union {c}
          /\ UNCHANGED <<enabled, status, due, idle>>
      BY <1>5 DEF Release
    <2>2. releases' \in Seq(Conns) /\ Len(releases') = Len(releases) + 1
      BY <1>1, <2>1 DEF ConnTypes
    <2>. QED  BY <1>1, <2>1, <2>2 DEF ConnTypes
  <1>6. CASE ReleaseInloop
    <2>1. PICK c \in Conns : c = Head(releases)
      BY <1>1, <1>6 DEF ReleaseInloop, ConnTypes
    <2>2. /\ status' = [status EXCEPT ![c] = "closed"]
          /\ enabled' = IF HasTimer(c) THEN [enabled EXCEPT ![c] = FALSE] ELSE enabled
          /\ releases' = Tail(releases) /\ releases # <<>>
          /\ due' = IF due = 0 THEN 0 ELSE due - 1
          /\ UNCHANGED <<idle, released>>
      BY <1>6, <2>1 DEF ReleaseInloop
    <2>3. releases' \in Seq(Conns) /\ Len(releases') = Len(releases) - 1
      BY <1>1, <2>2 DEF ConnTypes
    <2>4. due' \in 0 .. Len(releases')
      BY <1>1, <2>2, <2>3 DEF ConnTypes
    <2>. QED  BY <1>1, <2>2, <2>3, <2>4 DEF ConnTypes
  <1>7. CASE Expire
    <2>1. task[dying].id \in Conns
      BY <1>1, <1>7 DEF Expire, ExcuteTimer, ObjectInv, TypeOK, Live, TaskRecord, Conns
    <2>2. CASE task[dying].canceled
      BY <1>1, <1>7, <2>2 DEF Expire, ConnTypes
    <2>3. CASE ~task[dying].canceled
      <3>1. /\ releases' = Append(releases, task[dying].id)
            /\ due' = Len(releases) + 1
            /\ released' \in SUBSET Conns
            /\ UNCHANGED <<enabled, status, idle>>
        BY <1>1, <1>7, <2>1, <2>3 DEF Expire, ConnTypes
      <3>2. /\ releases' \in Seq(Conns)
            /\ Len(releases') = Len(releases) + 1 /\ Len(releases) \in Nat
        BY <1>1, <2>1, <3>1 DEF ConnTypes
      <3>. QED  BY <1>1, <3>1, <3>2 DEF ConnTypes
    <2>. QED  BY <2>2, <2>3
  <1>8. CASE Drop \/ UNCHANGED allVars
    BY <1>1, <1>8 DEF Drop, allVars, connVars, ConnTypes
  <1>10. CASE Ring
    <2>1. Len(releases) \in Nat
      BY <1>1 DEF ConnTypes
    <2>. QED  BY <1>1, <1>10, <2>1 DEF Ring, ConnTypes
  <1>9. CASE Second
    BY <1>1, <1>9 DEF Second, Older, ConnTypes, WheelAssumption
  <1>. QED  BY <1>2, <1>3, <1>4, <1>5, <1>6, <1>7, <1>8, <1>9, <1>10 DEF NextConns

(* The timer of a connection and its fields stay as TimerInv says, step by *)
(* step: a handler that clears a field also cancels or refreshes the timer.*)
LEMMA TimerInvStep ==
  ASSUME WheelAssumption, Reuse = FALSE, ConnInv, [NextConns]_allVars
  PROVE  TimerInv'
  <1>. DEFINE Kept(t) == ~task'[t].canceled => ArmedFor(t)'
  <1>. SUFFICES ASSUME NEW t \in Tasks, Live(t)' PROVE Kept(t)
    BY DEF TimerInv
  <1>1. TypeOK /\ ConnTypes /\ ObjectInv
    BY DEF ConnInv, ObjectInv
  <1>2. \A u \in Tasks : Live(u) => /\ task[u].id \in Conns
                                    /\ timers[task[u].id] = u
                                    /\ HasTimer(task[u].id)
                                    /\ ~task[u].canceled => ArmedFor(u)
    BY WheelAssumption
    DEF ConnInv, ObjectInv, Named, TimerInv, TaskRecord, HasTimer, Conns, WheelAssumption
  <1>3. ASSUME NEW c \in Conns, NEW sec \in Delays, EnableTimeoutDelInLoop(c, sec)
        PROVE  Kept(t)
    <2>1. /\ ~HasTimer(c) /\ sec \in Times
          /\ status[c] = "open" /\ UNCHANGED status
          /\ enabled' = [enabled EXCEPT ![c] = TRUE]
          /\ idle' = [idle EXCEPT ![c] = 0]
      BY <1>3, EnableSetsTimer DEF EnableTimeoutDelInLoop
    <2>2. PICK u \in Tasks :
            /\ task' = [task EXCEPT ![u] = [id |-> c, time |-> sec, canceled |-> FALSE]]
            /\ PushBack(u, sec)
            /\ age' = [age EXCEPT ![u] = 0]
            /\ UNCHANGED <<clearing, dying>>
      BY <1>3, EnableSetsTimer DEF SetTimeTask
    <2>3. CASE t = u
      <3>1. task'[t].id = c /\ age'[t] = 0
        BY <1>1, <2>2, <2>3 DEF TypeOK
      <3>2. enabled'[c] /\ status'[c] = "open" /\ idle'[c] = 0
        BY <1>1, <2>1 DEF ConnTypes
      <3>. QED  BY <3>1, <3>2 DEF ArmedFor
    <2>4. CASE t # u
      <3>1. Live(t)
        BY <1>1, <2>1, <2>2, <2>4, PushBackEffect DEF Live, InSlots
      <3>2. task[t].id # c /\ task'[t] = task[t] /\ age'[t] = age[t]
        BY <1>1, <1>2, <2>1, <2>2, <2>4, <3>1 DEF TypeOK
      <3>. QED  BY <1>1, <1>2, <2>1, <3>1, <3>2 DEF ConnTypes, ArmedFor
    <2>. QED  BY <2>3, <2>4
  <1>4. ASSUME NEW c \in Conns, CancelTimer(c),
               UNCHANGED idle,
               \A d \in Conns : d # c => enabled'[d] = enabled[d] /\ status'[d] = status[d]
        PROVE  Kept(t)
    <2>1. CASE HasTimer(c)
      <3>1. timers[c] \in Tasks /\ task[timers[c]].id = c /\ task[timers[c]] \in TaskRecord
        BY <1>1, <2>1 DEF ObjectInv, TypeOK, HasTimer, Conns
      <3>2. /\ task' = [task EXCEPT ![timers[c]].canceled = TRUE]
            /\ UNCHANGED <<wheels, clearing, dying, lost, age>>
        BY <1>4, <2>1 DEF CancelTimer, RemoveTimeTask
      <3>3. Live(t)
        BY <3>2 DEF Live, InSlots
      <3>4. CASE t = timers[c]
        <4>1. task'[t].id = task[t].id /\ task'[t].canceled
          BY <1>1, <3>1, <3>2, <3>4 DEF TypeOK, TaskRecord
        <4>. QED  BY <1>2, <1>4, <3>3, <4>1
      <3>5. CASE t # timers[c]
        <4>1. task'[t] = task[t] /\ task[t].id # c
          BY <1>1, <1>2, <3>2, <3>3, <3>5 DEF TypeOK
        <4>. QED  BY <1>2, <1>4, <3>2, <3>3, <4>1 DEF ArmedFor
      <3>. QED  BY <3>4, <3>5
    <2>2. CASE ~HasTimer(c)
      <3>1. UNCHANGED <<wheels, task, clearing, dying, lost, age>>
        BY <1>4, <2>2 DEF CancelTimer, vars, wheelVars
      <3>2. Live(t)
        BY <3>1 DEF Live, InSlots
      <3>3. task[t].id # c
        BY <1>2, <2>2, <3>2
      <3>. QED  BY <1>2, <1>4, <3>1, <3>2, <3>3 DEF ArmedFor
    <2>. QED  BY <2>1, <2>2
  <1>5. ASSUME NEW c \in Conns, DisableTimeoutDelInLoop(c)
        PROVE  Kept(t)
    <2>1. /\ CancelTimer(c) /\ UNCHANGED <<idle, status>>
          /\ enabled' = [enabled EXCEPT ![c] = FALSE]
      BY <1>5 DEF DisableTimeoutDelInLoop
    <2>. QED  BY <1>1, <1>4, <2>1 DEF ConnTypes
  <1>6. CASE ReleaseInloop
    <2>1. PICK c \in Conns : c = Head(releases)
      BY <1>1, <1>6 DEF ReleaseInloop, ConnTypes
    <2>2. /\ CancelTimer(c) /\ UNCHANGED idle
          /\ status' = [status EXCEPT ![c] = "closed"]
          /\ enabled' = IF HasTimer(c) THEN [enabled EXCEPT ![c] = FALSE] ELSE enabled
      BY <1>6, <2>1 DEF ReleaseInloop
    <2>. QED  BY <1>1, <1>4, <2>2 DEF ConnTypes
  <1>7. ASSUME NEW c \in Conns, HanderEvent(c)
        PROVE  Kept(t)
    <2>1. /\ idle' = [idle EXCEPT ![c] = 0]
          /\ IF enabled[c] /\ HasTimer(c) THEN FlushTimeTask(c) ELSE UNCHANGED vars
          /\ UNCHANGED <<enabled, status, releases>>
      BY <1>7 DEF HanderEvent
    <2>2. CASE enabled[c] /\ HasTimer(c)
      <3>1. PICK u \in Tasks : u = timers[c] /\ Live(u) /\ task[u].id = c /\ task[u].time \in Times
        BY <1>1, <2>2 DEF ObjectInv, TypeOK, HasTimer, TaskRecord, Conns
      <3>2. /\ PushBack(u, task[u].time)
            /\ age' = [age EXCEPT ![u] = 0]
            /\ UNCHANGED <<task, clearing, dying>>
        BY <2>1, <2>2, <3>1 DEF FlushTimeTask
      <3>3. Live(t)
        BY <1>1, <3>1, <3>2, PushBackEffect DEF Live, InSlots
      <3>4. CASE t = u
        <4>1. idle'[c] = 0 /\ age'[t] = 0 /\ task'[t] = task[t] /\ task[t].id = c
          BY <1>1, <2>1, <3>1, <3>2, <3>4 DEF TypeOK, ConnTypes
        <4>. QED  BY <1>2, <2>1, <3>3, <4>1 DEF ArmedFor
      <3>5. CASE t # u
        <4>1. task[t].id # c /\ age'[t] = age[t]
          BY <1>1, <1>2, <3>1, <3>2, <3>3, <3>5 DEF TypeOK
        <4>. QED  BY <1>1, <1>2, <2>1, <3>2, <3>3, <4>1 DEF ArmedFor, ConnTypes
      <3>. QED  BY <3>4, <3>5
    <2>3. CASE ~(enabled[c] /\ HasTimer(c))
      <3>1. UNCHANGED <<wheels, task, clearing, dying, lost, age>>
        BY <2>1, <2>3 DEF vars, wheelVars
      <3>2. Live(t)
        BY <3>1 DEF Live, InSlots
      <3>3. ~task[t].canceled => task[t].id # c
        BY <1>2, <2>3, <3>2 DEF ArmedFor
      <3>. QED  BY <1>1, <1>2, <2>1, <3>1, <3>2, <3>3 DEF ArmedFor, ConnTypes
    <2>. QED  BY <2>2, <2>3
  <1>8. CASE Expire
    <2>1. dying \in Tasks /\ t # dying /\ Live(t)
      BY <1>1, <1>8, WheelAssumption
      DEF Expire, ExcuteTimer, TypeOK, ObjectInv, Live, InSlots, WheelAssumption
    <2>2. task'[t] = task[t] /\ age'[t] = age[t]
      BY <1>1, <1>8, <2>1 DEF Expire, ExcuteTimer, TypeOK
    <2>. QED  BY <1>2, <1>8, <2>1, <2>2 DEF Expire, ArmedFor
  <1>9. CASE Ring
    <2>1. SlotAfter(1) \in Slots
      <3>1. 1 + tick \in Int
        BY <1>1 DEF TypeOK, Slots, WheelAssumption
      <3>. QED  BY <3>1, SlotInRing DEF SlotAfter
    <2>2. Live(t)
      BY <1>1, <1>9, <2>1 DEF Ring, OneTime, Live, InSlots, TypeOK
    <2>. QED  BY <1>2, <1>9, <2>2 DEF Ring, OneTime, ArmedFor
  <1>10. CASE Drop
    <2>1. Live(t)
      BY <1>10, WheelAssumption DEF Drop, DropReference, Live, InSlots, WheelAssumption
    <2>. QED  BY <1>2, <1>10, <2>1 DEF Drop, DropReference, connVars, ArmedFor
  <1>11. CASE Second
    <2>1. Live(t) /\ UNCHANGED <<task, enabled, status>>
      BY <1>11 DEF Second, Elapse, wheelVars, Live, InSlots
    <2>2. /\ age'[t] = Older(age[t]) /\ age[t] \in 0 .. Capacity
          /\ idle'[task[t].id] = Older(idle[task[t].id]) /\ idle[task[t].id] \in 0 .. Capacity
      BY <1>1, <1>2, <1>11, <2>1 DEF Second, Elapse, TypeOK, ConnTypes
    <2>3. idle[task[t].id] >= age[t] => idle'[task[t].id] >= age'[t]
      BY <2>2 DEF Older, WheelAssumption
    <2>. QED  BY <1>2, <2>1, <2>3 DEF ArmedFor
  <1>12. CASE (\E c \in Conns : Release(c)) \/ UNCHANGED allVars
    <2>1. Live(t) /\ UNCHANGED <<task, age, enabled, status, idle>>
      BY <1>12 DEF Release, allVars, connVars, vars, wheelVars, Live, InSlots
    <2>. QED  BY <1>2, <2>1 DEF ArmedFor
  <1>. HIDE DEF Kept
  <1>. QED  BY <1>3, <1>5, <1>6, <1>7, <1>8, <1>9, <1>10, <1>11, <1>12 DEF NextConns

(* Every step that closes or releases a connection has a reason for it: a  *)
(* destructor that was not cancelled is armed, so its timeout is on.       *)
LEMMA ReasonInvStep ==
  ASSUME WheelAssumption, ConnInv, [NextConns]_allVars
  PROVE  ReasonInv'
  <1>1. ConnTypes /\ ObjectInv /\ TypeOK /\ TimerInv /\ ReasonInv
    BY DEF ConnInv, ObjectInv
  <1>2. CASE UNCHANGED <<status, releases, released>>
    BY <1>1, <1>2 DEF ReasonInv, DisableStopsTimer
  <1>3. ASSUME NEW c \in Conns, releases' = Append(releases, c),
               released' = released \union {c}, UNCHANGED status
        PROVE  ReasonInv'
    <2>1. Len(releases') = Len(releases) + 1 /\ Len(releases) \in Nat
      BY <1>1, <1>3 DEF ConnTypes
    <2>2. ASSUME NEW i \in 1 .. Len(releases') PROVE releases'[i] \in released'
      <3>1. CASE i = Len(releases) + 1
        BY <1>1, <1>3, <3>1 DEF ConnTypes
      <3>2. CASE i # Len(releases) + 1
        <4>1. i \in 1 .. Len(releases) /\ releases \in Seq(Conns)
          BY <1>1, <2>1, <3>2 DEF ConnTypes
        <4>2. releases'[i] = releases[i]
          BY <1>3, <4>1
        <4>. QED  BY <1>1, <1>3, <4>1, <4>2 DEF ReasonInv
      <3>. QED  BY <3>1, <3>2
    <2>. QED  BY <1>1, <1>3, <2>2 DEF ReasonInv, DisableStopsTimer
  <1>4. ASSUME NEW c \in Conns, Release(c)
        PROVE  ReasonInv'
    BY <1>3, <1>4 DEF Release
  <1>5. CASE ReleaseInloop
    <2>1. /\ releases # <<>> /\ releases' = Tail(releases) /\ UNCHANGED released
          /\ status' = [status EXCEPT ![Head(releases)] = "closed"]
      BY <1>5 DEF ReleaseInloop
    <2>2. /\ Len(releases) \in Nat \ {0} /\ Len(releases') = Len(releases) - 1
          /\ Head(releases) = releases[1]
          /\ \A i \in 1 .. Len(releases') : releases'[i] = releases[i + 1]
      BY <1>1, <2>1 DEF ConnTypes
    <2>3. Head(releases) \in released
      BY <1>1, <2>2 DEF ReasonInv
    <2>4. DisableStopsTimer'
      BY <1>1, <2>1, <2>3 DEF ReasonInv, DisableStopsTimer, ConnTypes
    <2>5. ASSUME NEW i \in 1 .. Len(releases') PROVE releases'[i] \in released'
      <3>1. i + 1 \in 1 .. Len(releases)
        BY <2>2
      <3>. QED  BY <1>1, <2>1, <2>2, <3>1 DEF ReasonInv
    <2>. QED  BY <2>4, <2>5 DEF ReasonInv
  <1>6. CASE Expire
    <2>1. CASE task[dying].canceled
      BY <1>2, <1>6, <2>1 DEF Expire
    <2>2. CASE ~task[dying].canceled
      <3>1. dying \in Tasks /\ Live(dying) /\ task[dying].id \in Conns
        BY <1>1, <1>6 DEF Expire, ExcuteTimer, ObjectInv, TypeOK, Live, TaskRecord, Conns
      <3>2. enabled[task[dying].id]
        BY <1>1, <2>2, <3>1 DEF TimerInv, ArmedFor
      <3>. QED  BY <1>3, <1>6, <2>2, <3>1, <3>2 DEF Expire
    <2>. QED  BY <2>1, <2>2
  <1>7. ASSUME NEW c \in Conns, NEW sec \in Delays, EnableTimeoutDelInLoop(c, sec)
        PROVE  ReasonInv'
    BY <1>2, <1>7 DEF EnableTimeoutDelInLoop
  <1>8. ASSUME NEW c \in Conns, DisableTimeoutDelInLoop(c) \/ HanderEvent(c)
        PROVE  ReasonInv'
    BY <1>2, <1>8 DEF DisableTimeoutDelInLoop, HanderEvent
  <1>9. CASE Ring \/ Drop \/ Second \/ UNCHANGED allVars
    BY <1>2, <1>9 DEF Ring, Drop, Second, allVars, connVars
  <1>. QED  BY <1>4, <1>5, <1>6, <1>7, <1>8, <1>9 DEF NextConns

-----------------------------------------------------------------------------
(* What the timeout promises.                                              *)

(* The timer objects, their deadlines and the fields of the connections    *)
(* agree in every behaviour in which no connection gets a second timer     *)
(* while it has one.                                                       *)
LEMMA ConnectionsCorrect ==
  ASSUME Reuse = FALSE
  PROVE  SpecConns => []ConnInv
  <1>1. InitConns => ConnInv
    <2>. SUFFICES ASSUME InitConns PROVE ConnInv
      OBVIOUS
    <2>1. TypeOK
      <3>1. tick \in Slots /\ pending \in 0 .. MaxPending /\ age \in [Tasks -> 0 .. Capacity]
        BY WheelAssumption DEF WheelAssumption, InitConns, Init, Slots
      <3>. QED  BY <3>1 DEF InitConns, Init, TypeOK
    <2>2. \A t \in Tasks : ~Live(t)
      BY WheelAssumption DEF WheelAssumption, InitConns, Init, Live, InSlots
    <2>3. ObjectInv /\ DeadlineInv /\ Named /\ TimerInv
      BY <2>1, <2>2 DEF InitConns, Init, ObjectInv, HasTimer, DeadlineInv, InSlots, Named, TimerInv
    <2>4. ConnTypes
      <3>1. 0 \in 0 .. Capacity
        BY WheelAssumption DEF WheelAssumption
      <3>. QED  BY <3>1 DEF InitConns, ConnTypes
    <2>5. ReasonInv
      BY DEF InitConns, ReasonInv, DisableStopsTimer
    <2>. QED  BY <2>3, <2>4, <2>5 DEF ConnInv
  <1>2. ConnInv /\ [NextConns]_allVars => ConnInv'
    <2>. SUFFICES ASSUME ConnInv, [NextConns]_allVars PROVE ConnInv'
      OBVIOUS
    <2>1. ObjectInv' /\ DeadlineInv' /\ Named'
      <3>1. OneTimerStep
        BY WheelAssumption, WheelSteps
      <3>. QED  BY <3>1, WheelAssumption, WheelStepKeeps DEF ConnInv
    <2>2. ConnTypes' /\ TimerInv' /\ ReasonInv'
      BY WheelAssumption, ConnTypesStep, TimerInvStep, ReasonInvStep
    <2>. QED  BY <2>1, <2>2 DEF ConnInv
  <1>. QED  BY <1>1, <1>2, PTL DEF SpecConns

(* Every variable of the wheel and of its connections keeps its type. *)
THEOREM ConnTypeCorrect ==
  ASSUME Reuse = FALSE
  PROVE  SpecConns => []ConnTypeOK
  <1>1. ConnInv => ConnTypeOK
    BY DEF ConnInv, ObjectInv, ConnTypes, ConnTypeOK
  <1>. QED  BY <1>1, ConnectionsCorrect, PTL

(* A timer that runs out while the timeout is off closes nothing: every    *)
(* object that could still queue a release is armed for a connection with  *)
(* the timeout on, so each release that is queued has a reason, and so has *)
(* each close, however often the timeout was switched off and on.          *)
THEOREM DisableReachesTheTimer ==
  ASSUME Reuse = FALSE
  PROVE  SpecConns => []DisableStopsTimer
  <1>1. ConnInv => DisableStopsTimer
    BY DEF ConnInv, ReasonInv
  <1>. QED  BY <1>1, ConnectionsCorrect, PTL

(* Closing cancels: no object that could still release a connection is     *)
(* left when its descriptor number goes to another one.                    *)
THEOREM CloseReachesTheTimer ==
  ASSUME Reuse = FALSE
  PROVE  SpecConns => []NoTimerAfterClose
  <1>1. ConnInv => NoTimerAfterClose
    BY DEF ConnInv, TimerInv, ArmedFor, NoTimerAfterClose
  <1>. QED  BY <1>1, ConnectionsCorrect, PTL

(* A connection in use is not closed by its timer: when the callback runs, *)
(* all but one second of the timeout passed without an event of the        *)
(* connection.                                                             *)
THEOREM OnlyIdleConnectionsClose ==
  ASSUME Reuse = FALSE
  PROVE  SpecConns => []IdleBeforeClose
  <1>1. ConnInv => IdleBeforeClose
    <2>. SUFFICES ASSUME ConnInv, InCallback
                  PROVE  idle[task[dying].id] + 1 >= task[dying].time
      BY DEF IdleBeforeClose
    <2>1. dying \in Tasks /\ Live(dying) /\ FarEnough(dying, 0) /\ ~task[dying].canceled
      BY DEF ConnInv, ObjectInv, TypeOK, DeadlineInv, Live, InCallback
    <2>2. /\ task[dying].time \in 1 .. Capacity /\ age[dying] \in 0 .. Capacity
          /\ task[dying].id \in Conns
      BY <2>1 DEF ConnInv, ObjectInv, TypeOK, TaskRecord, Times, Conns
    <2>3. age[dying] + 1 >= task[dying].time
      BY <2>1, <2>2, WheelAssumption DEF FarEnough, Unread, WheelAssumption
    <2>4. idle[task[dying].id] >= age[dying] /\ idle[task[dying].id] \in 0 .. Capacity
      BY <2>1, <2>2 DEF ConnInv, TimerInv, ArmedFor, ConnTypes
    <2>. QED  BY <2>2, <2>3, <2>4, WheelAssumption DEF WheelAssumption
  <1>. QED  BY <1>1, ConnectionsCorrect, PTL

(* Such connections keep the rules of the wheel:                           *)
(* no id gets a second timer, so its entry always names the object that    *)
(* will run the callback.                                                  *)
THEOREM ConnectionsKeepTheRules ==
  ASSUME Reuse = FALSE
  PROVE  SpecConns => Init /\ [][OneTimerStep]_vars /\ []EntryNamesTheTimer
  <1>1. InitConns => Init
    BY DEF InitConns
  <1>2. ConnInv /\ [NextConns]_allVars => [OneTimerStep]_vars
    BY WheelAssumption, WheelSteps
  <1>3. ConnInv => EntryNamesTheTimer
    BY DEF ConnInv, ObjectInv, Named, EntryNamesTheTimer, TaskRecord
  <1>. QED  BY <1>1, <1>2, <1>3, ConnectionsCorrect, PTL DEF SpecConns
=============================================================================
