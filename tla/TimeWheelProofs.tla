-------------------------- MODULE TimeWheelProofs --------------------------
(***************************************************************************)
(* Theorems about TimeWheel for every capacity of the ring, every set of   *)
(* ids, objects and delays; and that it implements Timers.                 *)
(***************************************************************************)
EXTENDS TimeWheel, TLAPS

-----------------------------------------------------------------------------
(* Arithmetic of the ring.                                                 *)

(* A slot number is in the ring. *)
LEMMA SlotInRing ==
  ASSUME WheelAssumption, NEW x \in Int
  PROVE  x % Capacity \in Slots
  BY DEF WheelAssumption, Slots

(* One turn ahead of the hand every slot is reached by exactly one delay. *)
LEMMA SlotAhead ==
  ASSUME WheelAssumption, NEW h \in Slots, NEW d \in Times
  PROVE  (d + h) % Capacity = IF d + h < Capacity THEN d + h ELSE d + h - Capacity
  BY DEF WheelAssumption, Slots, Times

(* Two delays of one turn that reach the same slot are equal. *)
LEMMA SlotInjective ==
  ASSUME WheelAssumption, NEW h \in Slots, NEW d \in Times, NEW e \in Times,
         (d + h) % Capacity = (e + h) % Capacity
  PROVE  d = e
  <1>. USE DEF WheelAssumption, Slots, Times
  <1>1. (d + h) % Capacity = IF d + h < Capacity THEN d + h ELSE d + h - Capacity
    BY SlotAhead
  <1>2. (e + h) % Capacity = IF e + h < Capacity THEN e + h ELSE e + h - Capacity
    BY SlotAhead
  <1>. QED  BY <1>1, <1>2

(* Every slot is some delay of one turn ahead of the hand. *)
LEMMA SlotSurjective ==
  ASSUME WheelAssumption, NEW h \in Slots, NEW s \in Slots
  PROVE  \E d \in Times : s = (d + h) % Capacity
  <1>. USE DEF WheelAssumption, Slots, Times
  <1>. DEFINE d == IF s > h THEN s - h ELSE s - h + Capacity
  <1>1. d \in Times
    OBVIOUS
  <1>2. (d + h) % Capacity = IF d + h < Capacity THEN d + h ELSE d + h - Capacity
    BY <1>1, SlotAhead
  <1>3. s = (d + h) % Capacity
    BY <1>2
  <1>. HIDE DEF d
  <1>. QED  BY <1>1, <1>3

(* A step of the hand brings every other slot one tick nearer. *)
LEMMA SlotNearer ==
  ASSUME WheelAssumption, NEW h \in Slots, NEW d \in Times, d # 1,
         NEW g \in Slots, g = (1 + h) % Capacity
  PROVE  (d - 1 + g) % Capacity = (d + h) % Capacity
  <1>. USE DEF WheelAssumption, Slots, Times
  <1>1. (d + h) % Capacity = IF d + h < Capacity THEN d + h ELSE d + h - Capacity
    BY SlotAhead
  <1>2. g = IF 1 + h < Capacity THEN 1 + h ELSE 1 + h - Capacity
    BY SlotAhead
  <1>3. PICK e \in Times : e = d - 1
    OBVIOUS
  <1>4. (e + g) % Capacity = IF e + g < Capacity THEN e + g ELSE e + g - Capacity
    BY SlotAhead
  <1>. QED  BY <1>1, <1>2, <1>3, <1>4

-----------------------------------------------------------------------------
(* The objects of the wheel.                                               *)

(* A push_back only adds references to the object, in a slot or lost. *)
LEMMA PushBackEffect ==
  ASSUME WheelAssumption, TypeOK, NEW t \in Tasks, NEW d \in Times, PushBack(t, d)
  PROVE  /\ wheels' \in [Slots -> SUBSET Tasks]
         /\ lost' \in SUBSET Tasks
         /\ corrupt' \in BOOLEAN
         /\ lost \subseteq lost' /\ lost' \subseteq lost \union {t}
         /\ \A s \in Slots : /\ wheels[s] \subseteq wheels'[s]
                             /\ wheels'[s] \subseteq wheels[s] \union {t}
         /\ \/ t \in lost'
            \/ SlotAfter(d) \in Slots /\ t \in wheels'[SlotAfter(d)]
  <1>1. SlotAfter(d) \in Slots
    <2>1. d + tick \in Int
      BY DEF Times, TypeOK, Slots, WheelAssumption
    <2>. QED  BY <2>1, SlotInRing DEF SlotAfter
  <1>2. CASE InCallback /\ SlotAfter(d) = tick
    BY <1>2 DEF PushBack, TypeOK
  <1>3. CASE ~(InCallback /\ SlotAfter(d) = tick)
    BY <1>1, <1>3 DEF PushBack, Push, TypeOK
  <1>. QED  BY <1>2, <1>3

LEMMA SetTimeTaskObjects ==
  ASSUME WheelAssumption, ObjectInv, NEW id \in Ids, NEW d \in Times, SetTimeTask(id, d)
  PROVE  ObjectInv'
  <1>1. PICK t \in Tasks : /\ ~Live(t)
                           /\ timers' = [timers EXCEPT ![id] = t]
                           /\ task' = [task EXCEPT ![t] = [id |-> id, time |-> d, canceled |-> FALSE]]
                           /\ PushBack(t, d)
                           /\ age' = [age EXCEPT ![t] = 0]
                           /\ UNCHANGED <<tick, clearing, dying, pending>>
    BY DEF SetTimeTask
  <1>2. [id |-> id, time |-> d, canceled |-> FALSE] \in TaskRecord
    BY DEF TaskRecord
  <1>3. TypeOK
    BY DEF ObjectInv
  <1>4. /\ wheels' \in [Slots -> SUBSET Tasks]
        /\ lost' \in SUBSET Tasks
        /\ corrupt' \in BOOLEAN
        /\ lost \subseteq lost' /\ lost' \subseteq lost \union {t}
        /\ \A s \in Slots : /\ wheels[s] \subseteq wheels'[s]
                            /\ wheels'[s] \subseteq wheels[s] \union {t}
        /\ \/ t \in lost'
           \/ SlotAfter(d) \in Slots /\ t \in wheels'[SlotAfter(d)]
    BY <1>1, <1>3, PushBackEffect
  <1>5. TypeOK'
    BY <1>1, <1>2, <1>3, <1>4 DEF TypeOK, WheelAssumption
  <1>6. Live(t)' /\ \A u \in Tasks : u # t => (Live(u)' <=> Live(u))
    BY <1>1, <1>4 DEF Live, InSlots
  <1>7. \A u \in Tasks : Live(u)' => task'[u] \in TaskRecord
    BY <1>1, <1>2, <1>3, <1>6 DEF ObjectInv, TypeOK
  <1>8. ASSUME NEW i \in Ids, HasTimer(i)'
        PROVE  Live(timers[i])' /\ task'[timers'[i]].id = i
    <2>1. CASE i = id
      BY <1>1, <1>3, <1>6, <2>1 DEF TypeOK
    <2>2. CASE i # id
      <3>1. timers'[i] = timers[i] /\ HasTimer(i)
        BY <1>1, <1>3, <1>8, <2>2 DEF TypeOK, HasTimer
      <3>2. Live(timers[i]) /\ task[timers[i]].id = i /\ timers[i] \in Tasks
        BY <3>1, <1>3 DEF ObjectInv, HasTimer, TypeOK
      <3>3. timers[i] # t
        BY <3>2, <1>1
      <3>. QED  BY <1>1, <1>3, <1>6, <3>1, <3>2, <3>3 DEF TypeOK
    <2>. QED  BY <2>1, <2>2
  <1>9. dying' # NoTask => dying' \notin clearing' /\ ~InSlots(dying)' /\ dying' \notin lost'
    <2>1. dying # t
      BY <1>1 DEF Live
    <2>. QED  BY <1>1, <1>4, <2>1 DEF ObjectInv, InSlots
  <1>. QED  BY <1>5, <1>7, <1>8, <1>9 DEF ObjectInv
LEMMA FlushTimeTaskObjects ==
  ASSUME WheelAssumption, ObjectInv, NEW id \in Ids, FlushTimeTask(id)
  PROVE  ObjectInv'
  <1>. DEFINE t == timers[id]
  <1>1. TypeOK
    BY DEF ObjectInv
  <1>2. t \in Tasks /\ Live(t) /\ t # dying
    BY <1>1 DEF ObjectInv, TypeOK, FlushTimeTask, HasTimer
  <1>3. task[t].time \in Times
    BY <1>2 DEF ObjectInv, TaskRecord
  <1>4. /\ wheels' \in [Slots -> SUBSET Tasks]
        /\ lost' \in SUBSET Tasks
        /\ corrupt' \in BOOLEAN
        /\ lost \subseteq lost' /\ lost' \subseteq lost \union {t}
        /\ \A s \in Slots : /\ wheels[s] \subseteq wheels'[s]
                            /\ wheels'[s] \subseteq wheels[s] \union {t}
    BY <1>1, <1>2, <1>3, PushBackEffect DEF FlushTimeTask
  <1>5. /\ age' = [age EXCEPT ![t] = 0]
        /\ UNCHANGED <<tick, timers, task, clearing, dying, pending>>
    BY DEF FlushTimeTask
  <1>. HIDE DEF t
  <1>6. TypeOK'
    BY <1>1, <1>2, <1>4, <1>5 DEF TypeOK, WheelAssumption
  <1>7. \A u \in Tasks : Live(u)' <=> Live(u)
    BY <1>2, <1>4, <1>5 DEF Live, InSlots
  <1>8. \A i \in Ids : HasTimer(i)' => HasTimer(i) /\ timers[i] \in Tasks
    BY <1>1, <1>5 DEF HasTimer, TypeOK
  <1>9. \A i \in Ids : HasTimer(i)' => Live(timers[i])' /\ task'[timers'[i]].id = i
    BY <1>5, <1>7, <1>8 DEF ObjectInv
  <1>10. dying' # NoTask => dying' \notin clearing' /\ ~InSlots(dying)' /\ dying' \notin lost'
    BY <1>2, <1>4, <1>5 DEF ObjectInv, InSlots
  <1>. QED  BY <1>5, <1>6, <1>7, <1>9, <1>10 DEF ObjectInv

LEMMA RemoveTimeTaskObjects ==
  ASSUME WheelAssumption, ObjectInv, NEW id \in Ids, RemoveTimeTask(id)
  PROVE  ObjectInv'
  <1>. DEFINE t == timers[id]
              r == [task[t] EXCEPT !.canceled = TRUE]
  <1>1. TypeOK
    BY DEF ObjectInv
  <1>2. t \in Tasks /\ Live(t)
    BY <1>1 DEF ObjectInv, TypeOK, RemoveTimeTask, HasTimer
  <1>3. r \in TaskRecord /\ r.id = task[t].id
    BY <1>2 DEF ObjectInv, TaskRecord
  <1>4. /\ task' = [task EXCEPT ![t] = r]
        /\ UNCHANGED <<tick, wheels, timers, clearing, dying, lost, corrupt, pending, age>>
    BY <1>1, <1>2 DEF RemoveTimeTask, TypeOK
  <1>. HIDE DEF t, r
  <1>5. TypeOK'
    BY <1>1, <1>2, <1>3, <1>4 DEF TypeOK
  <1>6. \A u \in Tasks : (Live(u)' <=> Live(u)) /\ task'[u].id = task[u].id
    BY <1>1, <1>2, <1>3, <1>4 DEF Live, InSlots, TypeOK
  <1>7. \A u \in Tasks : Live(u)' => task'[u] \in TaskRecord
    BY <1>1, <1>2, <1>3, <1>4, <1>6 DEF ObjectInv, TypeOK
  <1>8. \A i \in Ids : HasTimer(i)' => HasTimer(i) /\ timers[i] \in Tasks
    BY <1>1, <1>4 DEF HasTimer, TypeOK
  <1>. QED  BY <1>4, <1>5, <1>6, <1>7, <1>8 DEF ObjectInv, InSlots

LEMMA ElapseObjects ==
  ASSUME WheelAssumption, ObjectInv, Elapse
  PROVE  ObjectInv'
  <1>1. TypeOK'
    BY DEF ObjectInv, TypeOK, Elapse, wheelVars, Older, WheelAssumption
  <1>. QED  BY <1>1 DEF ObjectInv, Elapse, wheelVars, Live, InSlots, HasTimer

LEMMA OneTimeObjects ==
  ASSUME WheelAssumption, ObjectInv, OneTime
  PROVE  ObjectInv'
  <1>1. TypeOK
    BY DEF ObjectInv
  <1>2. tick' \in Slots /\ tick' = SlotAfter(1)
    <2>1. 1 + tick \in Int
      BY <1>1 DEF TypeOK, Slots, WheelAssumption
    <2>. QED  BY <2>1, SlotInRing DEF OneTime, SlotAfter
  <1>3. TypeOK'
    BY <1>1, <1>2 DEF TypeOK, OneTime, WheelAssumption
  <1>4. \A t \in Tasks : Live(t)' <=> Live(t)
    BY <1>1, <1>2 DEF Live, InSlots, OneTime, Quiet, TypeOK
  <1>5. \A id \in Ids : HasTimer(id) => timers[id] \in Tasks
    BY <1>1 DEF HasTimer, TypeOK
  <1>. QED  BY <1>3, <1>4, <1>5 DEF ObjectInv, OneTime, Quiet, HasTimer

LEMMA DropReferenceObjects ==
  ASSUME WheelAssumption, ObjectInv, NEW t \in Tasks, DropReference(t)
  PROVE  ObjectInv'
  <1>1. TypeOK
    BY DEF ObjectInv
  <1>2. TypeOK'
    BY <1>1 DEF TypeOK, DropReference
  <1>3. \A u \in Tasks : Live(u)' <=> Live(u)
    BY <1>1 DEF Live, InSlots, DropReference, TypeOK, WheelAssumption
  <1>4. \A id \in Ids : HasTimer(id) => timers[id] \in Tasks
    BY <1>1 DEF HasTimer, TypeOK
  <1>5. dying' # NoTask => dying' \notin clearing' /\ ~InSlots(dying)' /\ dying' \notin lost'
    BY <1>1 DEF DropReference, InSlots
  <1>. QED  BY <1>2, <1>3, <1>4, <1>5 DEF ObjectInv, DropReference, HasTimer

LEMMA ExcuteTimerObjects ==
  ASSUME WheelAssumption, ObjectInv, ExcuteTimer
  PROVE  ObjectInv'
  <1>1. TypeOK
    BY DEF ObjectInv
  <1>2. dying \in Tasks /\ Live(dying) /\ task[dying] \in TaskRecord /\ task[dying].id \in Ids
    BY <1>1 DEF ObjectInv, ExcuteTimer, TypeOK, Live, TaskRecord
  <1>3. TypeOK'
    BY <1>1, <1>2 DEF TypeOK, ExcuteTimer, WheelAssumption
  <1>4. dying' = NoTask /\ \A u \in Tasks : u = dying => ~Live(u)'
    BY <1>2 DEF ExcuteTimer, Live, InSlots, ObjectInv, WheelAssumption
  <1>5. \A u \in Tasks : u # dying => (Live(u)' <=> Live(u)) /\ task'[u] = task[u]
    BY <1>1, <1>2 DEF ExcuteTimer, Live, InSlots, TypeOK, WheelAssumption
  <1>6. \A u \in Tasks : Live(u)' => task'[u] \in TaskRecord
    <2>. TAKE u \in Tasks
    <2>. HAVE Live(u)'
    <2>1. u # dying
      BY <1>4
    <2>. QED  BY <1>5, <2>1 DEF ObjectInv
  <1>7. ASSUME NEW id \in Ids, HasTimer(id)'
        PROVE  Live(timers[id])' /\ task'[timers'[id]].id = id
    <2>1. id # task[dying].id /\ timers'[id] = timers[id] /\ HasTimer(id)
      BY <1>1, <1>2, <1>7 DEF ExcuteTimer, TypeOK, HasTimer
    <2>2. timers[id] \in Tasks /\ Live(timers[id]) /\ task[timers[id]].id = id
      BY <1>1, <2>1 DEF ObjectInv, TypeOK, HasTimer
    <2>3. timers[id] # dying
      BY <2>1, <2>2
    <2>. QED  BY <1>5, <2>1, <2>2, <2>3
  <1>. QED  BY <1>3, <1>4, <1>6, <1>7 DEF ObjectInv

(* The delays of all clients are delays of one turn of the ring. *)
LEMMA ClientSteps ==
  ASSUME WheelAssumption, Client
  PROVE  \E id \in Ids : \/ \E d \in Times : SetTimeTask(id, d)
                         \/ FlushTimeTask(id)
                         \/ RemoveTimeTask(id)
  BY DEF Client, WheelAssumption, Times

(* The objects of the wheel stay as ObjectInv describes them. *)
THEOREM ObjectsCorrect == Spec => []ObjectInv
  <1>1. Init => ObjectInv
    <2>. SUFFICES ASSUME Init PROVE ObjectInv
      OBVIOUS
    <2>1. TypeOK
      <3>1. tick \in Slots /\ pending \in 0 .. MaxPending /\ age \in [Tasks -> 0 .. Capacity]
        BY WheelAssumption DEF WheelAssumption, Init, Slots
      <3>. QED  BY <3>1 DEF Init, TypeOK
    <2>2. \A t \in Tasks : ~Live(t)
      BY WheelAssumption DEF WheelAssumption, Init, Live, InSlots
    <2>. QED  BY <2>1, <2>2 DEF Init, ObjectInv, HasTimer
  <1>2. ObjectInv /\ [Next]_vars => ObjectInv'
    <2>. SUFFICES ASSUME ObjectInv, [Next]_vars PROVE ObjectInv'
      OBVIOUS
    <2>1. CASE Client
      BY <2>1, WheelAssumption, ClientSteps, SetTimeTaskObjects, FlushTimeTaskObjects,
         RemoveTimeTaskObjects
    <2>2. CASE Elapse
      BY <2>2, WheelAssumption, ElapseObjects
    <2>3. CASE OneTime
      BY <2>3, WheelAssumption, OneTimeObjects
    <2>4. CASE \E t \in Tasks : DropReference(t)
      BY <2>4, WheelAssumption, DropReferenceObjects
    <2>5. CASE ExcuteTimer
      BY <2>5, WheelAssumption, ExcuteTimerObjects
    <2>6. CASE UNCHANGED vars
      BY <2>6 DEF vars, wheelVars, ObjectInv, TypeOK, Live, InSlots, HasTimer
    <2>. QED  BY <2>1, <2>2, <2>3, <2>4, <2>5, <2>6 DEF Next
  <1>. QED  BY <1>1, <1>2, PTL DEF Spec

(* Every variable keeps its type: the hand stays in the ring, entries name *)
(* objects of the pool, saturated counters stay below their bound.         *)
THEOREM TypeCorrect == Spec => []TypeOK
  <1>1. ObjectInv => TypeOK
    BY DEF ObjectInv
  <1>. QED  BY <1>1, ObjectsCorrect, PTL
-----------------------------------------------------------------------------
(* Deadlines.                                                              *)

(* An object just set or refreshed is far enough d ticks ahead. *)
LEMMA SetTimeTaskDeadline ==
  ASSUME WheelAssumption, ObjectInv, DeadlineInv, NEW id \in Ids, NEW d \in Times,
         SetTimeTask(id, d)
  PROVE  DeadlineInv'
  <1>1. PICK t \in Tasks : /\ ~Live(t)
                           /\ task' = [task EXCEPT ![t] = [id |-> id, time |-> d, canceled |-> FALSE]]
                           /\ PushBack(t, d)
                           /\ age' = [age EXCEPT ![t] = 0]
                           /\ UNCHANGED <<tick, clearing, dying, pending>>
    BY DEF SetTimeTask
  <1>2. TypeOK
    BY DEF ObjectInv
  <1>3. /\ lost \subseteq lost'
        /\ \A s \in Slots : /\ wheels[s] \subseteq wheels'[s]
                            /\ wheels'[s] \subseteq wheels[s] \union {t}
        /\ t \in lost' \/ t \in wheels'[SlotAfter(d)]
    BY <1>1, <1>2, PushBackEffect
  <1>4. \A u \in Tasks, e \in Nat : u # t => (FarEnough(u, e)' <=> FarEnough(u, e))
    BY <1>1, <1>2 DEF FarEnough, Unread, TypeOK
  <1>5. task'[t].time = d /\ age'[t] = 0 /\ Unread' \in {0, 1}
    BY <1>1, <1>2 DEF TypeOK, Unread
  <1>6. FarEnough(t, d)'
    <2>1. d \in Int
      BY DEF Times, WheelAssumption
    <2>2. PICK u \in {0, 1} : u = Unread'
      BY <1>5
    <2>3. d + u <= 0 + 1 + d
      BY <2>1
    <2>. QED  BY <1>5, <2>2, <2>3 DEF FarEnough
  <1>7. \A e \in Times : SlotAfter(e)' = SlotAfter(e) /\ SlotAfter(e) \in Slots
    <2>1. \A e \in Times : e + tick \in Int
      BY <1>2 DEF TypeOK, Slots, Times, WheelAssumption
    <2>. QED  BY <1>1, <2>1, SlotInRing DEF SlotAfter
  <1>8. ASSUME NEW u \in Tasks, InSlots(u)', u \notin lost'
        PROVE  \E e \in Times : u \in wheels'[SlotAfter(e)'] /\ FarEnough(u, e)'
    <2>1. CASE u = t
      BY <1>3, <1>6, <1>7, <1>8, <2>1
    <2>2. CASE u # t
      <3>1. InSlots(u) /\ u \notin lost
        BY <1>3, <1>8, <2>2 DEF InSlots
      <3>2. PICK e \in Times : u \in wheels[SlotAfter(e)] /\ FarEnough(u, e)
        BY <3>1 DEF DeadlineInv
      <3>3. e \in Nat
        BY DEF Times
      <3>. QED  BY <1>3, <1>4, <1>7, <2>2, <3>2, <3>3
    <2>. QED  BY <2>1, <2>2
  <1>9. \A u \in clearing : u # t /\ (InSlots(u) => InSlots(u)')
    BY <1>1, <1>2, <1>3 DEF Live, TypeOK, InSlots
  <1>10. \A u \in clearing' : ~InSlots(u)' /\ u \notin lost' => FarEnough(u, 0)'
    BY <1>1, <1>2, <1>3, <1>4, <1>9 DEF DeadlineInv, TypeOK
  <1>11. dying # t
    BY <1>1 DEF Live
  <1>12. dying' # NoTask => FarEnough(dying, 0)'
    <2>. HAVE dying' # NoTask
    <2>1. dying \in Tasks /\ FarEnough(dying, 0) /\ dying' = dying
      BY <1>1, <1>2 DEF DeadlineInv, TypeOK
    <2>. QED  BY <1>1, <1>2, <1>11, <2>1 DEF FarEnough, Unread, TypeOK
  <1>. QED  BY <1>1, <1>8, <1>10, <1>12 DEF DeadlineInv

LEMMA FlushTimeTaskDeadline ==
  ASSUME WheelAssumption, ObjectInv, DeadlineInv, NEW id \in Ids, FlushTimeTask(id)
  PROVE  DeadlineInv'
  <1>1. TypeOK
    BY DEF ObjectInv
  <1>2. PICK t \in Tasks : t = timers[id] /\ Live(t) /\ t # dying
    BY <1>1 DEF ObjectInv, TypeOK, FlushTimeTask, HasTimer
  <1>3. PICK d \in Times : d = task[t].time
    BY <1>2 DEF ObjectInv, TaskRecord
  <1>4. /\ PushBack(t, d)
        /\ age' = [age EXCEPT ![t] = 0]
        /\ UNCHANGED <<tick, timers, task, clearing, dying, pending>>
    BY <1>2, <1>3 DEF FlushTimeTask
  <1>6. /\ lost \subseteq lost'
        /\ \A s \in Slots : /\ wheels[s] \subseteq wheels'[s]
                            /\ wheels'[s] \subseteq wheels[s] \union {t}
        /\ t \in lost' \/ t \in wheels'[SlotAfter(d)]
    BY <1>1, <1>2, <1>3, <1>4, PushBackEffect
  <1>7. \A u \in Tasks, e \in Nat : u # t => (FarEnough(u, e)' <=> FarEnough(u, e))
    BY <1>1, <1>2, <1>4 DEF FarEnough, Unread, TypeOK
  <1>8. FarEnough(t, d)'
    <2>1. age'[t] = 0 /\ Unread' \in {0, 1} /\ task'[t].time = d
      BY <1>1, <1>2, <1>3, <1>4 DEF TypeOK, Unread
    <2>. QED  BY <1>3, <2>1 DEF FarEnough, Times, WheelAssumption
  <1>9. \A e \in Times : SlotAfter(e)' = SlotAfter(e) /\ SlotAfter(e) \in Slots
    <2>1. \A e \in Times : e + tick \in Int
      BY <1>1 DEF TypeOK, Slots, Times, WheelAssumption
    <2>. QED  BY <1>4, <2>1, SlotInRing DEF SlotAfter
  <1>10. ASSUME NEW u \in Tasks, InSlots(u)', u \notin lost'
         PROVE  \E e \in Times : u \in wheels'[SlotAfter(e)'] /\ FarEnough(u, e)'
    <2>1. CASE u = t
      BY <1>3, <1>6, <1>8, <1>9, <1>10, <2>1
    <2>2. CASE u # t
      <3>1. InSlots(u) /\ u \notin lost
        BY <1>6, <1>10, <2>2 DEF InSlots
      <3>2. PICK e \in Times : u \in wheels[SlotAfter(e)] /\ FarEnough(u, e)
        BY <3>1 DEF DeadlineInv
      <3>3. e \in Nat
        BY DEF Times
      <3>. QED  BY <1>6, <1>7, <1>9, <2>2, <3>2, <3>3
    <2>. QED  BY <2>1, <2>2
  <1>11. \A u \in clearing' : ~InSlots(u)' /\ u \notin lost' => FarEnough(u, 0)'
    <2>. TAKE u \in clearing'
    <2>. HAVE ~InSlots(u)' /\ u \notin lost'
    <2>1. SlotAfter(d) \in Slots
      BY <1>3, <1>9
    <2>2. u # t /\ u \in clearing /\ ~InSlots(u) /\ u \notin lost
      BY <1>4, <1>6, <2>1 DEF InSlots
    <2>. QED  BY <1>1, <1>7, <2>2 DEF DeadlineInv, TypeOK
  <1>12. dying' # NoTask => FarEnough(dying, 0)'
    <2>. HAVE dying' # NoTask
    <2>1. dying \in Tasks /\ FarEnough(dying, 0) /\ dying' = dying
      BY <1>1, <1>4 DEF DeadlineInv, TypeOK
    <2>. QED  BY <1>1, <1>2, <1>4, <2>1 DEF FarEnough, Unread, TypeOK
  <1>. QED  BY <1>4, <1>10, <1>11, <1>12 DEF DeadlineInv
LEMMA RemoveTimeTaskDeadline ==
  ASSUME WheelAssumption, ObjectInv, DeadlineInv, NEW id \in Ids, RemoveTimeTask(id)
  PROVE  DeadlineInv'
  <1>1. TypeOK
    BY DEF ObjectInv
  <1>2. PICK u \in Tasks : u = timers[id] /\ task[u] \in TaskRecord
    BY <1>1 DEF ObjectInv, TypeOK, RemoveTimeTask, HasTimer
  <1>3. /\ UNCHANGED <<tick, wheels, clearing, dying, lost, pending, age>>
        /\ task' = [task EXCEPT ![u].canceled = TRUE]
    BY <1>2 DEF RemoveTimeTask
  <1>4. \A t \in Tasks : task'[t].time = task[t].time
    BY <1>1, <1>2, <1>3 DEF TypeOK, TaskRecord
  <1>5. \A t \in Tasks, d \in Nat : FarEnough(t, d)' <=> FarEnough(t, d)
    BY <1>3, <1>4 DEF FarEnough, Unread
  <1>6. \A d \in Times : d \in Nat /\ SlotAfter(d)' = SlotAfter(d)
    BY <1>3 DEF SlotAfter, Times, WheelAssumption
  <1>7. \A t \in Tasks : InSlots(t)' <=> InSlots(t)
    BY <1>3 DEF InSlots
  <1>8. ASSUME NEW t \in Tasks, InSlots(t)', t \notin lost'
        PROVE  \E d \in Times : t \in wheels'[SlotAfter(d)'] /\ FarEnough(t, d)'
    <2>1. PICK d \in Times : t \in wheels[SlotAfter(d)] /\ FarEnough(t, d)
      BY <1>3, <1>7, <1>8 DEF DeadlineInv
    <2>. QED  BY <1>3, <1>5, <1>6, <2>1
  <1>9. \A t \in clearing' : ~InSlots(t)' /\ t \notin lost' => FarEnough(t, 0)'
    BY <1>1, <1>3, <1>5, <1>7 DEF DeadlineInv, TypeOK
  <1>10. dying' # NoTask => FarEnough(dying, 0)'
    <2>. SUFFICES ASSUME NEW t \in Tasks, t = dying, FarEnough(t, 0) PROVE FarEnough(t, 0)'
      BY <1>1, <1>3 DEF DeadlineInv, TypeOK, FarEnough
    <2>. QED  BY <1>5
  <1>. QED  BY <1>8, <1>9, <1>10 DEF DeadlineInv

(* Without a new reference, a second that passes keeps what is far enough. *)
LEMMA ElapseDeadline ==
  ASSUME WheelAssumption, ObjectInv, DeadlineInv, Elapse
  PROVE  DeadlineInv'
  <1>1. TypeOK
    BY DEF ObjectInv
  <1>2. \A t \in Tasks, d \in Nat : Live(t) /\ FarEnough(t, d) => FarEnough(t, d)'
    <2>. SUFFICES ASSUME NEW t \in Tasks, NEW d \in Nat, Live(t), FarEnough(t, d)
                  PROVE  FarEnough(t, d)'
      OBVIOUS
    <2>1. task[t].time \in 1 .. Capacity /\ task' = task
      BY DEF ObjectInv, TaskRecord, Times, Elapse, wheelVars
    <2>2. age'[t] = Older(age[t]) /\ age[t] \in 0 .. Capacity
      BY <1>1 DEF TypeOK, Elapse
    <2>3. pending' > 0 /\ pending \in Nat
      BY <1>1 DEF TypeOK, Elapse, WheelAssumption
    <2>. QED  BY <2>1, <2>2, <2>3 DEF FarEnough, Unread, Older, WheelAssumption
  <1>3. UNCHANGED <<tick, wheels, clearing, dying, lost>>
    BY DEF Elapse, wheelVars
  <1>4. \A d \in Times : d \in Nat /\ SlotAfter(d)' = SlotAfter(d)
    BY <1>3 DEF SlotAfter, Times, WheelAssumption
  <1>5. ASSUME NEW t \in Tasks, InSlots(t)', t \notin lost'
        PROVE  \E d \in Times : t \in wheels'[SlotAfter(d)'] /\ FarEnough(t, d)'
    <2>1. InSlots(t) /\ t \notin lost /\ Live(t)
      BY <1>3, <1>5 DEF InSlots, Live
    <2>2. PICK d \in Times : t \in wheels[SlotAfter(d)] /\ FarEnough(t, d)
      BY <2>1 DEF DeadlineInv
    <2>. QED  BY <1>2, <1>3, <1>4, <2>1, <2>2
  <1>6. \A t \in clearing' : ~InSlots(t)' /\ t \notin lost' => FarEnough(t, 0)'
    BY <1>1, <1>2, <1>3 DEF DeadlineInv, TypeOK, InSlots, Live
  <1>7. dying' # NoTask => FarEnough(dying, 0)'
    <2>. SUFFICES ASSUME NEW t \in Tasks, t = dying, FarEnough(t, 0) PROVE FarEnough(t, 0)'
      BY <1>1, <1>3 DEF DeadlineInv, TypeOK, FarEnough
    <2>. QED  BY <1>2 DEF Live
  <1>. QED  BY <1>5, <1>6, <1>7 DEF DeadlineInv

(* A tick uses up the unread second: what is in the next slot has no other *)
(* tick to wait for, and every other reference is one tick nearer.         *)
LEMMA OneTimeDeadline ==
  ASSUME WheelAssumption, ObjectInv, DeadlineInv, OneTime
  PROVE  DeadlineInv'
  <1>1. TypeOK
    BY DEF ObjectInv
  <1>2. /\ UNCHANGED <<timers, task, dying, lost, corrupt, age>>
        /\ tick' = SlotAfter(1)
        /\ clearing' = wheels[SlotAfter(1)]
        /\ wheels' = [wheels EXCEPT ![SlotAfter(1)] = {}]
        /\ pending > 0 /\ pending' = 0 /\ clearing = {} /\ dying = NoTask
    BY DEF OneTime, Quiet
  <1>3. \A t \in Tasks, d \in Nat :
          Live(t) /\ d > 0 /\ FarEnough(t, d) => FarEnough(t, d - 1)'
    <2>. SUFFICES ASSUME NEW t \in Tasks, NEW d \in Nat, d > 0, Live(t), FarEnough(t, d)
                  PROVE  FarEnough(t, d - 1)'
      OBVIOUS
    <2>1. task[t].time \in 1 .. Capacity
      BY DEF ObjectInv, TaskRecord, Times
    <2>2. age[t] \in 0 .. Capacity
      BY <1>1 DEF TypeOK
    <2>. QED  BY <1>2, <2>1, <2>2 DEF FarEnough, Unread, WheelAssumption
  <1>4. \A t \in Tasks, d \in Nat, e \in Nat :
          Live(t) /\ d <= e /\ FarEnough(t, d) => FarEnough(t, e)
    <2>. SUFFICES ASSUME NEW t \in Tasks, NEW d \in Nat, NEW e \in Nat,
                         d <= e, Live(t), FarEnough(t, d)
                  PROVE  FarEnough(t, e)
      OBVIOUS
    <2>1. task[t].time \in 1 .. Capacity
      BY DEF ObjectInv, TaskRecord, Times
    <2>2. age[t] \in 0 .. Capacity
      BY <1>1 DEF TypeOK
    <2>. QED  BY <2>1, <2>2 DEF FarEnough, Unread, WheelAssumption
  <1>5. \A d \in Times : d \in Nat /\ d > 0 /\ d + tick \in Int
    BY <1>1 DEF Times, TypeOK, Slots, WheelAssumption
  <1>6. \A d \in Times : SlotAfter(d) \in Slots
    BY <1>5, SlotInRing DEF SlotAfter
  <1>7. 1 \in Times
    BY DEF Times, WheelAssumption
  <1>8. \A d \in Times : d # 1 => d - 1 \in Times /\ SlotAfter(d - 1)' = SlotAfter(d)
    <2>. SUFFICES ASSUME NEW d \in Times, d # 1
                  PROVE  d - 1 \in Times /\ SlotAfter(d - 1)' = SlotAfter(d)
      OBVIOUS
    <2>1. d - 1 \in Times
      BY DEF Times, WheelAssumption
    <2>2. PICK g \in Slots : g = tick' /\ g = (1 + tick) % Capacity
      BY <1>2, <1>6, <1>7 DEF SlotAfter
    <2>3. (d - 1 + g) % Capacity = (d + tick) % Capacity
      BY <1>1, <2>2, SlotNearer DEF TypeOK
    <2>. QED  BY <2>1, <2>2, <2>3 DEF SlotAfter
  <1>9. \A d \in Times : SlotAfter(d) = SlotAfter(1) => d = 1
    BY <1>1, <1>7, SlotInjective DEF SlotAfter, TypeOK
  <1>10. ASSUME NEW t \in Tasks, InSlots(t)', t \notin lost'
         PROVE  \E d \in Times : t \in wheels'[SlotAfter(d)'] /\ FarEnough(t, d)'
    <2>1. PICK s \in Slots : t \in wheels[s] /\ s # SlotAfter(1)
      BY <1>1, <1>2, <1>10 DEF InSlots, TypeOK
    <2>2. PICK g \in Times : s = SlotAfter(g)
      BY <1>1, SlotSurjective DEF SlotAfter, TypeOK
    <2>3. InSlots(t) /\ t \notin lost /\ Live(t) /\ g # 1
      BY <1>2, <1>10, <2>1, <2>2 DEF InSlots, Live
    <2>4. PICK d \in Times : t \in wheels[SlotAfter(d)] /\ FarEnough(t, d)
      BY <2>3 DEF DeadlineInv
    <2>5. CASE d = 1
      <3>1. FarEnough(t, g)
        BY <1>4, <1>5, <2>3, <2>4, <2>5
      <3>2. FarEnough(t, g - 1)'
        BY <1>3, <1>5, <2>3, <3>1
      <3>. QED  BY <1>1, <1>2, <1>8, <2>1, <2>2, <2>3, <3>2 DEF TypeOK
    <2>6. CASE d # 1
      <3>1. FarEnough(t, d - 1)'
        BY <1>3, <1>5, <2>3, <2>4
      <3>2. t \in wheels'[SlotAfter(d)]
        BY <1>1, <1>2, <1>6, <1>9, <2>4, <2>6 DEF TypeOK
      <3>. QED  BY <1>8, <2>6, <3>1, <3>2
    <2>. QED  BY <2>5, <2>6
  <1>11. ASSUME NEW t \in clearing', ~InSlots(t)', t \notin lost'
         PROVE  FarEnough(t, 0)'
    <2>1. t \in Tasks /\ t \in wheels[SlotAfter(1)] /\ InSlots(t) /\ Live(t) /\ t \notin lost
      BY <1>1, <1>2, <1>6, <1>7, <1>11 DEF InSlots, Live, TypeOK
    <2>2. PICK d \in Times : t \in wheels[SlotAfter(d)] /\ FarEnough(t, d)
      BY <2>1 DEF DeadlineInv
    <2>3. d = 1
      BY <1>1, <1>2, <1>6, <1>9, <1>11, <2>2 DEF InSlots, TypeOK
    <2>4. FarEnough(t, 1 - 1)'
      BY <1>3, <1>5, <2>1, <2>2, <2>3
    <2>. QED  BY <2>4
  <1>. QED  BY <1>2, <1>10, <1>11 DEF DeadlineInv
LEMMA DropReferenceDeadline ==
  ASSUME WheelAssumption, ObjectInv, DeadlineInv, NEW u \in Tasks, DropReference(u)
  PROVE  DeadlineInv'
  <1>1. TypeOK
    BY DEF ObjectInv
  <1>2. UNCHANGED <<tick, wheels, task, lost, pending, age>> /\ clearing' \subseteq clearing
    BY DEF DropReference
  <1>3. \A t \in Tasks, d \in Nat : FarEnough(t, d)' <=> FarEnough(t, d)
    BY <1>2 DEF FarEnough, Unread
  <1>4. \A d \in Times : d \in Nat /\ SlotAfter(d)' = SlotAfter(d)
    BY <1>2 DEF SlotAfter, Times, WheelAssumption
  <1>5. \A t \in Tasks : InSlots(t)' <=> InSlots(t)
    BY <1>2 DEF InSlots
  <1>6. ASSUME NEW t \in Tasks, InSlots(t)', t \notin lost'
        PROVE  \E d \in Times : t \in wheels'[SlotAfter(d)'] /\ FarEnough(t, d)'
    <2>1. PICK d \in Times : t \in wheels[SlotAfter(d)] /\ FarEnough(t, d)
      BY <1>2, <1>5, <1>6 DEF DeadlineInv
    <2>. QED  BY <1>2, <1>3, <1>4, <2>1
  <1>7. \A t \in clearing' : ~InSlots(t)' /\ t \notin lost' => FarEnough(t, 0)'
    BY <1>1, <1>2, <1>3, <1>5 DEF DeadlineInv, TypeOK
  <1>8. dying' # NoTask => FarEnough(dying, 0)'
    <2>. HAVE dying' # NoTask
    <2>1. dying' = u /\ u \in clearing /\ ~InSlots(u) /\ u \notin lost
      BY DEF DropReference
    <2>2. FarEnough(u, 0)'
      BY <1>3, <2>1 DEF DeadlineInv
    <2>. QED  BY <2>1, <2>2 DEF FarEnough
  <1>. QED  BY <1>6, <1>7, <1>8 DEF DeadlineInv

LEMMA ExcuteTimerDeadline ==
  ASSUME WheelAssumption, ObjectInv, DeadlineInv, ExcuteTimer
  PROVE  DeadlineInv'
  <1>1. TypeOK
    BY DEF ObjectInv
  <1>2. /\ UNCHANGED <<tick, wheels, clearing, lost, pending>> /\ dying' = NoTask
        /\ task' = [task EXCEPT ![dying] = Blank]
        /\ age' = [age EXCEPT ![dying] = 0]
    BY DEF ExcuteTimer
  <1>3. \A t \in Tasks, d \in Nat : t # dying => (FarEnough(t, d)' <=> FarEnough(t, d))
    BY <1>1, <1>2 DEF FarEnough, Unread, TypeOK
  <1>4. \A d \in Times : d \in Nat /\ SlotAfter(d)' = SlotAfter(d)
    BY <1>2 DEF SlotAfter, Times, WheelAssumption
  <1>5. \A t \in Tasks : InSlots(t)' <=> InSlots(t)
    BY <1>2 DEF InSlots
  <1>6. dying \notin clearing /\ ~InSlots(dying)
    BY DEF ObjectInv, ExcuteTimer
  <1>7. ASSUME NEW t \in Tasks, InSlots(t)', t \notin lost'
        PROVE  \E d \in Times : t \in wheels'[SlotAfter(d)'] /\ FarEnough(t, d)'
    <2>1. PICK d \in Times : t \in wheels[SlotAfter(d)] /\ FarEnough(t, d)
      BY <1>2, <1>5, <1>7 DEF DeadlineInv
    <2>2. t # dying
      BY <1>5, <1>6, <1>7
    <2>. QED  BY <1>2, <1>3, <1>4, <2>1, <2>2
  <1>8. \A t \in clearing' : ~InSlots(t)' /\ t \notin lost' => FarEnough(t, 0)'
    BY <1>1, <1>2, <1>3, <1>5, <1>6 DEF DeadlineInv, TypeOK
  <1>. QED  BY <1>2, <1>7, <1>8 DEF DeadlineInv

(* Deadlines hold in every behaviour of the wheel, whatever delays, ids    *)
(* and callbacks its clients use.                                          *)
LEMMA DeadlinesHold == Spec => []DeadlineInv
  <1>1. Init => DeadlineInv
    BY DEF Init, DeadlineInv, InSlots
  <1>2. ObjectInv /\ DeadlineInv /\ [Next]_vars => DeadlineInv'
    <2>. SUFFICES ASSUME ObjectInv, DeadlineInv, [Next]_vars PROVE DeadlineInv'
      OBVIOUS
    <2>1. CASE Client
      BY <2>1, WheelAssumption, ClientSteps, SetTimeTaskDeadline, FlushTimeTaskDeadline,
         RemoveTimeTaskDeadline
    <2>2. CASE Elapse
      BY <2>2, WheelAssumption, ElapseDeadline
    <2>3. CASE OneTime
      BY <2>3, WheelAssumption, OneTimeDeadline
    <2>4. CASE \E t \in Tasks : DropReference(t)
      BY <2>4, WheelAssumption, DropReferenceDeadline
    <2>5. CASE ExcuteTimer
      BY <2>5, WheelAssumption, ExcuteTimerDeadline
    <2>6. CASE UNCHANGED vars
      BY <2>6 DEF vars, wheelVars, DeadlineInv, InSlots, FarEnough, Unread, SlotAfter
    <2>. QED  BY <2>1, <2>2, <2>3, <2>4, <2>5, <2>6 DEF Next
  <1>. QED  BY <1>1, <1>2, ObjectsCorrect, PTL DEF Spec

(* No callback runs more than one second before the delay since the last   *)
(* refresh is over.                                                        *)
THEOREM NoEarlyCallback == Spec => []NeverEarly
  <1>1. ObjectInv /\ DeadlineInv => NeverEarly
    <2>. SUFFICES ASSUME ObjectInv, DeadlineInv, dying # NoTask
                  PROVE  age[dying] + 1 >= task[dying].time
      BY DEF NeverEarly
    <2>1. dying \in Tasks /\ Live(dying) /\ FarEnough(dying, 0)
      BY DEF ObjectInv, TypeOK, DeadlineInv, Live
    <2>2. task[dying].time \in 1 .. Capacity /\ age[dying] \in 0 .. Capacity
      BY <2>1 DEF ObjectInv, TypeOK, TaskRecord, Times
    <2>. QED  BY <2>1, <2>2, WheelAssumption DEF FarEnough, Unread, WheelAssumption
  <1>. QED  BY <1>1, ObjectsCorrect, DeadlinesHold, PTL
-----------------------------------------------------------------------------
(* Clients that set one timer at a time for an id.                         *)

(* The steps of a wheel none of whose clients sets a second timer. *)
OneTimerStep ==
  \/ \E id \in Ids : \/ ~HasTimer(id) /\ \E d \in Times : SetTimeTask(id, d)
                     \/ FlushTimeTask(id)
                     \/ RemoveTimeTask(id)
  \/ Elapse
  \/ OneTime
  \/ \E t \in Tasks : DropReference(t)
  \/ ExcuteTimer
  \/ UNCHANGED vars

(* An object that exists is the one its id's entry names. *)
Named == \A t \in Tasks : Live(t) => timers[task[t].id] = t

(* Such steps keep the entries of all existing objects. *)
LEMMA NamedStep ==
  ASSUME WheelAssumption, ObjectInv, OneTimerStep, Named
  PROVE  Named'
  <1>. SUFFICES ASSUME NEW t \in Tasks, Live(t)' PROVE timers'[task'[t].id] = t
    BY DEF Named
  <1>1. TypeOK
    BY DEF ObjectInv
  <1>2. Live(t) => task[t].id \in Ids /\ timers[task[t].id] = t
    BY DEF ObjectInv, TaskRecord, Named
  <1>3. ASSUME NEW id \in Ids, NEW d \in Times, SetTimeTask(id, d), ~HasTimer(id)
        PROVE  timers'[task'[t].id] = t
    <2>1. PICK u \in Tasks : /\ ~Live(u)
                             /\ timers' = [timers EXCEPT ![id] = u]
                             /\ task' = [task EXCEPT ![u] = [id |-> id, time |-> d, canceled |-> FALSE]]
                             /\ PushBack(u, d)
                             /\ UNCHANGED <<clearing, dying>>
      BY <1>3 DEF SetTimeTask
    <2>2. CASE t = u
      BY <1>1, <2>1, <2>2 DEF TypeOK
    <2>3. CASE t # u
      <3>1. Live(t)
        BY <1>1, <2>1, <2>3, PushBackEffect DEF Live, InSlots
      <3>2. task[t].id # id
        BY <1>2, <1>3, <3>1, WheelAssumption DEF HasTimer, WheelAssumption
      <3>. QED  BY <1>1, <1>2, <2>1, <2>3, <3>1, <3>2 DEF TypeOK
    <2>. QED  BY <2>2, <2>3
  <1>4. ASSUME NEW id \in Ids, FlushTimeTask(id)
        PROVE  timers'[task'[t].id] = t
    <2>1. PICK u \in Tasks : u = timers[id] /\ Live(u) /\ task[u].time \in Times
      BY <1>1, <1>4 DEF ObjectInv, TypeOK, FlushTimeTask, HasTimer, TaskRecord
    <2>2. PushBack(u, task[u].time) /\ UNCHANGED <<timers, task, clearing, dying>>
      BY <1>4, <2>1 DEF FlushTimeTask
    <2>3. Live(t)
      BY <1>1, <2>1, <2>2, PushBackEffect DEF Live, InSlots
    <2>. QED  BY <1>2, <2>2, <2>3
  <1>5. ASSUME NEW id \in Ids, RemoveTimeTask(id)
        PROVE  timers'[task'[t].id] = t
    <2>1. timers[id] \in Tasks /\ task[timers[id]] \in TaskRecord
      BY <1>1, <1>5 DEF ObjectInv, TypeOK, RemoveTimeTask, HasTimer
    <2>2. Live(t) /\ task'[t].id = task[t].id
      BY <1>1, <1>5, <2>1 DEF RemoveTimeTask, Live, InSlots, TypeOK, TaskRecord
    <2>. QED  BY <1>2, <1>5, <2>2 DEF RemoveTimeTask
  <1>6. CASE \E id \in Ids : \/ ~HasTimer(id) /\ \E d \in Times : SetTimeTask(id, d)
                            \/ FlushTimeTask(id)
                            \/ RemoveTimeTask(id)
    BY <1>3, <1>4, <1>5, <1>6
  <1>7. CASE Elapse
    BY <1>2, <1>7 DEF Elapse, wheelVars, Live, InSlots
  <1>8. CASE OneTime
    <2>1. SlotAfter(1) \in Slots
      <3>1. 1 + tick \in Int
        BY <1>1 DEF TypeOK, Slots, WheelAssumption
      <3>. QED  BY <3>1, SlotInRing DEF SlotAfter
    <2>2. Live(t)
      BY <1>1, <1>8, <2>1 DEF OneTime, Live, InSlots, TypeOK
    <2>. QED  BY <1>2, <1>8, <2>2 DEF OneTime
  <1>9. ASSUME NEW u \in Tasks, DropReference(u)
        PROVE  timers'[task'[t].id] = t
    <2>1. Live(t)
      BY <1>9, WheelAssumption DEF DropReference, Live, InSlots, WheelAssumption
    <2>. QED  BY <1>2, <1>9, <2>1 DEF DropReference
  <1>10. CASE ExcuteTimer
    <2>1. t # dying /\ Live(t)
      BY <1>10, WheelAssumption DEF ExcuteTimer, ObjectInv, Live, InSlots, WheelAssumption
    <2>2. task[t].id # task[dying].id
      <3>1. dying \in Tasks /\ Live(dying)
        BY <1>1, <1>10 DEF ExcuteTimer, TypeOK, Live
      <3>. QED  BY <1>2, <2>1, <3>1 DEF Named
    <2>. QED  BY <1>1, <1>2, <1>10, <2>1, <2>2 DEF ExcuteTimer, TypeOK
  <1>11. CASE UNCHANGED vars
    BY <1>2, <1>11 DEF vars, wheelVars, Live, InSlots
  <1>. QED  BY <1>6, <1>7, <1>8, <1>9, <1>10, <1>11 DEF OneTimerStep

(* As long as no client sets a timer for an id that has one, refreshes and *)
(* cancellations reach the very object that will run the callback.         *)
THEOREM EntriesCorrect ==
  ASSUME Reuse = FALSE
  PROVE  Spec => []EntryNamesTheTimer
  <1>1. Init => Named
    BY WheelAssumption DEF WheelAssumption, Init, Live, InSlots, Named
  <1>2. ObjectInv /\ Named /\ [Next]_vars => Named'
    <2>1. [Next]_vars => OneTimerStep
      <3>1. Client => OneTimerStep
        BY WheelAssumption DEF Client, OneTimerStep, WheelAssumption, Times
      <3>. QED  BY <3>1 DEF Next, OneTimerStep
    <2>. QED  BY <2>1, WheelAssumption, NamedStep
  <1>3. ObjectInv /\ Named => EntryNamesTheTimer
    BY DEF ObjectInv, EntryNamesTheTimer, TaskRecord, Named
  <1>. QED  BY <1>1, <1>2, <1>3, ObjectsCorrect, PTL DEF Spec

-----------------------------------------------------------------------------
(* The wheel implements Timers, and loses no timer, as long as no callback *)
(* deals with a timer of a whole turn of the ring.                         *)

(* What set_time_task and flush do when push_back is not forgotten. *)
Sets(id, d) ==
  \E t \in Tasks :
    /\ ~Live(t)
    /\ timers' = [timers EXCEPT ![id] = t]
    /\ task' = [task EXCEPT ![t] = [id |-> id, time |-> d, canceled |-> FALSE]]
    /\ wheels' = Push(wheels, t, d)
    /\ UNCHANGED <<tick, clearing, dying, lost, corrupt>>

Refreshes(id) ==
  /\ HasTimer(id) /\ timers[id] # dying
  /\ wheels' = Push(wheels, timers[id], task[timers[id]].time)
  /\ UNCHANGED <<tick, timers, task, clearing, dying, lost, corrupt>>

(* Only a delay of a whole turn comes back to the slot under the hand. *)
LEMMA PushIsKept ==
  ASSUME WheelAssumption, TypeOK, NEW t \in Tasks, NEW d \in Times,
         InCallback => d # Capacity, PushBack(t, d)
  PROVE  wheels' = Push(wheels, t, d) /\ UNCHANGED <<lost, corrupt>>
  <1>1. tick \in Slots
    BY DEF TypeOK
  <1>2. (d + tick) % Capacity = IF d + tick < Capacity THEN d + tick ELSE d + tick - Capacity
    BY <1>1, SlotAhead
  <1>3. SlotAfter(d) = tick => d = Capacity
    BY <1>1, <1>2 DEF SlotAfter, WheelAssumption, Slots, Times
  <1>. QED  BY <1>3 DEF PushBack

(* Handlers, and callbacks that keep to lesser delays, push for good. *)
LEMMA ClientPushes ==
  ASSUME WheelAssumption, Capacity \notin CallbackDelays, ObjectInv, Client
  PROVE  \E id \in Ids : \/ /\ Reuse \/ ~HasTimer(id)
                            /\ \E d \in Delays \union CallbackDelays : Sets(id, d)
                         \/ Refreshes(id)
                         \/ RemoveTimeTask(id)
  <1>1. TypeOK /\ Delays \subseteq Times /\ CallbackDelays \subseteq Times
    BY DEF ObjectInv, WheelAssumption, Times
  <1>2. ASSUME NEW id \in Ids, NEW d \in Times, SetTimeTask(id, d), InCallback => d # Capacity
        PROVE  Sets(id, d)
    BY <1>1, <1>2, PushIsKept DEF SetTimeTask, Sets
  <1>3. ASSUME NEW id \in Ids, FlushTimeTask(id),
               InCallback => task[timers[id]].time # Capacity
        PROVE  Refreshes(id)
    <2>1. timers[id] \in Tasks /\ task[timers[id]].time \in Times
      BY <1>1, <1>3 DEF FlushTimeTask, HasTimer, TypeOK, ObjectInv, TaskRecord
    <2>. QED  BY <1>1, <1>3, <2>1, PushIsKept DEF FlushTimeTask, Refreshes
  <1>4. Quiet => ~InCallback
    BY DEF Quiet, InCallback
  <1>. QED  BY <1>1, <1>2, <1>3, <1>4 DEF Client

-----------------------------------------------------------------------------
(* While callbacks keep to delays of less than a turn no push lands in the *)
(* slot that is being cleared, and no timer is lost.  (With a whole turn   *)
(* it does: see NoTimerLost.)  The refinement below needs this.            *)
LEMMA NoTimerIsLost ==
  ASSUME Capacity \notin CallbackDelays
  PROVE  Spec => []NoTimerLost
  <1>1. Init => NoTimerLost
    BY DEF Init, NoTimerLost
  <1>2. ObjectInv /\ NoTimerLost /\ [Next]_vars => NoTimerLost'
    <2>. SUFFICES ASSUME ObjectInv, [Next]_vars, lost = {} PROVE lost' = {}
      BY DEF NoTimerLost
    <2>1. CASE Client
      BY <2>1, WheelAssumption, ClientPushes DEF Sets, Refreshes, RemoveTimeTask
    <2>2. CASE Elapse \/ OneTime \/ (\E t \in Tasks : DropReference(t)) \/ ExcuteTimer
               \/ UNCHANGED vars
      BY <2>2 DEF Elapse, OneTime, DropReference, ExcuteTimer, vars, wheelVars
    <2>. QED  BY <2>1, <2>2 DEF Next
  <1>. QED  BY <1>1, <1>2, ObjectsCorrect, PTL DEF Spec

-----------------------------------------------------------------------------
(* The last reference of an object.                                        *)

(* d ticks ahead of a hand h is the last slot of w that references t. *)
LastRef(w, h, t, d) ==
  /\ t \in w[(d + h) % Capacity]
  /\ \A e \in d + 1 .. Capacity : t \notin w[(e + h) % Capacity]

(* Every object in the slots has a last reference, and none of its         *)
(* references is further ahead than its delay.                             *)
LastInv ==
  \A t \in Tasks : InSlots(t) =>
    \E d \in Times : LastRef(wheels, tick, t, d) /\ d <= task[t].time

(* The last reference is unique, so that Left finds it. *)
LEMMA LastRefUnique ==
  ASSUME WheelAssumption, NEW w, NEW h, NEW t, NEW d \in Times, NEW e \in Times,
         LastRef(w, h, t, d), LastRef(w, h, t, e)
  PROVE  d = e
  <1>1. d \in 1 .. Capacity /\ e \in 1 .. Capacity /\ Capacity \in Nat
    BY DEF Times, WheelAssumption
  <1>2. ~(d < e) /\ ~(e < d)
    BY <1>1 DEF LastRef
  <1>. QED  BY <1>1, <1>2

LEMMA LeftIsLast ==
  ASSUME WheelAssumption, TypeOK, NEW t \in Tasks, NEW d \in Times,
         LastRef(wheels, tick, t, d)
  PROVE  InSlots(t) /\ Left(t) = d
  <1>1. SlotAfter(d) \in Slots
    <2>1. d + tick \in Int
      BY DEF TypeOK, Slots, Times, WheelAssumption
    <2>. QED  BY <2>1, SlotInRing DEF SlotAfter
  <1>2. InSlots(t)
    BY <1>1 DEF InSlots, LastRef, SlotAfter
  <1>3. \A e \in Times : LastRef(wheels, tick, t, e) <=>
                           /\ t \in wheels[SlotAfter(e)]
                           /\ \A g \in e + 1 .. Capacity : t \notin wheels[SlotAfter(g)]
    BY DEF LastRef, SlotAfter
  <1>4. Left(t) \in Times /\ LastRef(wheels, tick, t, Left(t))
    BY <1>2, <1>3 DEF Left
  <1>. QED  BY <1>2, <1>4, LastRefUnique

(* The same of the next state. *)
LEMMA LeftIsLastNext ==
  ASSUME WheelAssumption, TypeOK', NEW t \in Tasks, NEW d \in Times,
         LastRef(wheels', tick', t, d)
  PROVE  InSlots(t)' /\ Left(t)' = d
  <1>1. SlotAfter(d)' \in Slots
    <2>1. d + tick' \in Int
      BY DEF TypeOK, Slots, Times, WheelAssumption
    <2>. QED  BY <2>1, SlotInRing DEF SlotAfter
  <1>2. InSlots(t)'
    BY <1>1 DEF InSlots, LastRef, SlotAfter
  <1>3. \A e \in Times : LastRef(wheels', tick', t, e) <=>
                           /\ t \in wheels'[SlotAfter(e)']
                           /\ \A g \in e + 1 .. Capacity : t \notin wheels'[SlotAfter(g)']
    BY DEF LastRef, SlotAfter
  <1>4. Left(t)' \in Times /\ LastRef(wheels', tick', t, Left(t)')
    BY <1>2, <1>3 DEF Left
  <1>. QED  BY <1>2, <1>4, LastRefUnique

(* A whole turn of the ring ends where it began. *)
LEMMA FullTurn ==
  ASSUME WheelAssumption, NEW h \in Slots
  PROVE  (Capacity + h) % Capacity = h
  <1>1. Capacity \in Times
    BY DEF Times, WheelAssumption
  <1>2. (Capacity + h) % Capacity
          = IF Capacity + h < Capacity THEN Capacity + h ELSE Capacity + h - Capacity
    BY <1>1, SlotAhead
  <1>. QED  BY <1>2 DEF Slots, WheelAssumption

(* Where nothing is pushed or cleared the last reference stays. *)
LEMMA LastRefKept ==
  ASSUME WheelAssumption, TypeOK, NEW t \in Tasks, NEW d \in Times, UNCHANGED tick,
         \A s \in Slots : t \in wheels'[s] <=> t \in wheels[s],
         LastRef(wheels, tick, t, d)
  PROVE  LastRef(wheels', tick', t, d)
  <1>1. \A e \in d .. Capacity : (e + tick) % Capacity \in Slots
    <2>1. \A e \in d .. Capacity : e + tick \in Int
      BY DEF TypeOK, Slots, Times, WheelAssumption
    <2>. QED  BY <2>1, SlotInRing
  <1>2. d \in d .. Capacity /\ d + 1 .. Capacity \subseteq d .. Capacity
    BY DEF Times, WheelAssumption
  <1>. QED  BY <1>1, <1>2 DEF LastRef

(* A push beyond all references of an object becomes its last one. *)
LEMMA PushIsLast ==
  ASSUME WheelAssumption, TypeOK, NEW t \in Tasks, NEW d \in Times, UNCHANGED tick,
         wheels' = Push(wheels, t, d),
         \A e \in d + 1 .. Capacity : t \notin wheels[SlotAfter(e)]
  PROVE  /\ LastRef(wheels', tick', t, d)
         /\ \A u \in Tasks : u # t =>
              \A s \in Slots : u \in wheels'[s] <=> u \in wheels[s]
  <1>1. \A e \in Times : SlotAfter(e) \in Slots
    <2>1. \A e \in Times : e + tick \in Int
      BY DEF TypeOK, Slots, Times, WheelAssumption
    <2>. QED  BY <2>1, SlotInRing DEF SlotAfter
  <1>2. \A e \in d + 1 .. Capacity : e \in Times /\ SlotAfter(e) # SlotAfter(d)
    <2>. TAKE e \in d + 1 .. Capacity
    <2>1. e \in Times /\ e # d
      BY DEF Times, WheelAssumption
    <2>. QED  BY <2>1, SlotInjective DEF SlotAfter, TypeOK
  <1>3. /\ t \in wheels'[SlotAfter(d)]
        /\ \A s \in Slots : s # SlotAfter(d) => wheels'[s] = wheels[s]
        /\ \A u \in Tasks : u # t => (u \in wheels'[SlotAfter(d)] <=> u \in wheels[SlotAfter(d)])
    BY <1>1 DEF Push, TypeOK
  <1>4. \A e \in d + 1 .. Capacity : t \notin wheels'[SlotAfter(e)]
    BY <1>1, <1>2, <1>3
  <1>. QED  BY <1>3, <1>4 DEF LastRef, SlotAfter

(* A tick brings the last reference one slot nearer or drops it. *)
LEMMA TickIsNearer ==
  ASSUME WheelAssumption, TypeOK, OneTime, NEW t \in Tasks, NEW d \in Times,
         LastRef(wheels, tick, t, d)
  PROVE  IF d = 1 THEN ~InSlots(t)'
                  ELSE d - 1 \in Times /\ LastRef(wheels', tick', t, d - 1)
  <1>1. /\ tick \in Slots /\ 1 \in Times
        /\ \A e \in Times : SlotAfter(e) \in Slots
        /\ \A e \in Times : SlotAfter(e) = SlotAfter(1) => e = 1
    <2>1. tick \in Slots /\ 1 \in Times /\ \A e \in Times : e + tick \in Int
      BY DEF TypeOK, Slots, Times, WheelAssumption
    <2>. QED  BY <2>1, SlotInRing, SlotInjective DEF SlotAfter
  <1>2. /\ tick' = SlotAfter(1) /\ tick' \in Slots
        /\ wheels'[SlotAfter(1)] = {}
        /\ \A s \in Slots : s # SlotAfter(1) => wheels'[s] = wheels[s]
    BY <1>1 DEF OneTime, TypeOK
  <1>3. t \in wheels[SlotAfter(d)] /\ \A e \in d + 1 .. Capacity : t \notin wheels[SlotAfter(e)]
    BY DEF LastRef, SlotAfter
  <1>4. CASE d = 1
    <2>. SUFFICES ASSUME NEW s \in Slots, t \in wheels'[s] PROVE FALSE
      BY <1>4 DEF InSlots
    <2>1. PICK e \in Times : s = SlotAfter(e)
      BY <1>1, SlotSurjective DEF SlotAfter
    <2>2. e # 1 /\ t \in wheels[SlotAfter(e)]
      BY <1>2, <2>1
    <2>3. e \in d + 1 .. Capacity
      BY <1>4, <2>2 DEF Times, WheelAssumption
    <2>. QED  BY <1>3, <2>2, <2>3
  <1>5. CASE d # 1
    <2>1. d - 1 \in Times /\ d \in Nat
      BY <1>5 DEF Times, WheelAssumption
    <2>2. \A e \in Times : e # 1 => (e - 1 + tick') % Capacity = SlotAfter(e)
      <3>1. tick' = (1 + tick) % Capacity
        BY <1>2 DEF SlotAfter
      <3>. QED  BY <1>1, <1>2, <3>1, SlotNearer DEF SlotAfter
    <2>3. t \in wheels'[(d - 1 + tick') % Capacity]
      BY <1>1, <1>2, <1>3, <1>5, <2>2
    <2>4. ASSUME NEW e \in d - 1 + 1 .. Capacity
          PROVE  t \notin wheels'[(e + tick') % Capacity]
      <3>1. CASE e = Capacity
        <4>1. (Capacity + tick') % Capacity = tick'
          BY <1>2, FullTurn
        <4>. QED  BY <1>2, <3>1, <4>1
      <3>2. CASE e # Capacity
        <4>1. e + 1 \in d + 1 .. Capacity /\ e + 1 \in Times /\ e + 1 # 1 /\ (e + 1) - 1 = e
          BY <2>1, <3>2 DEF Times, WheelAssumption
        <4>2. (e + tick') % Capacity = SlotAfter(e + 1)
          BY <2>2, <4>1
        <4>. QED  BY <1>1, <1>2, <1>3, <4>1, <4>2
      <3>. QED  BY <3>1, <3>2
    <2>. QED  BY <1>5, <2>1, <2>3, <2>4 DEF LastRef
  <1>. QED  BY <1>4, <1>5

-----------------------------------------------------------------------------
(* The refinement.                                                         *)

WheelInv ==
  /\ ObjectInv
  /\ Named
  /\ lost = {}
  /\ LastInv

(* The timer that Promise sees under an id, and the callback that runs. *)
TimerOf(id) ==
  IF HasTimer(id)
  THEN [delay |-> task[timers[id]].time,
        left |-> Left(timers[id]),
        canceled |-> task[timers[id]].canceled]
  ELSE NoTask

TimersNow == [id \in Ids |-> TimerOf(id)]

RunningNow == IF dying = NoTask THEN NoId ELSE task[dying].id

(* What the entry of an id names. *)
LEMMA EntryFacts ==
  ASSUME WheelAssumption, WheelInv
  PROVE  /\ TypeOK
         /\ \A id \in Ids : HasTimer(id) => /\ timers[id] \in Tasks
                                            /\ Live(timers[id])
                                            /\ task[timers[id]] \in TaskRecord
                                            /\ task[timers[id]].id = id
                                            /\ task[timers[id]].time \in Times
         /\ \A t \in Tasks : Live(t) => /\ task[t].id \in Ids
                                        /\ timers[task[t].id] = t
                                        /\ HasTimer(task[t].id)
                                        /\ task[t].time \in Times
         /\ \A t \in Tasks : Left(t) \in Nat
  <1>1. TypeOK
    BY DEF WheelInv, ObjectInv
  <1>2. \A t \in Tasks : Left(t) \in Nat
    <2>. TAKE t \in Tasks
    <2>1. CASE InSlots(t)
      <3>1. PICK d \in Times : LastRef(wheels, tick, t, d)
        BY <2>1 DEF WheelInv, LastInv
      <3>2. Left(t) = d
        BY <1>1, <3>1, LeftIsLast
      <3>. QED  BY <3>2 DEF Times, WheelAssumption
    <2>2. CASE ~InSlots(t)
      BY <2>2 DEF Left
    <2>. QED  BY <2>1, <2>2
  <1>. QED  BY <1>1, <1>2
            DEF WheelInv, ObjectInv, Named, HasTimer, TaskRecord, WheelAssumption, TypeOK

(* An id has a timer in Promise exactly when it has one in _timers. *)
LEMMA PendingHasTimer ==
  ASSUME WheelAssumption, WheelInv, NEW id \in Ids
  PROVE  HasTimer(id) <=> TimersNow[id] # NoTask
  <1>1. CASE HasTimer(id)
    <2>1. /\ task[timers[id]].time \in Nat
          /\ task[timers[id]].canceled \in BOOLEAN
          /\ Left(timers[id]) \in Nat
      BY <1>1, EntryFacts DEF TaskRecord, Times, WheelAssumption
    <2>2. TimersNow[id] \in [delay : Nat, left : Nat, canceled : BOOLEAN]
      BY <1>1, <2>1 DEF TimersNow, TimerOf
    <2>. QED  BY <1>1, <2>2 DEF WheelAssumption
  <1>2. CASE ~HasTimer(id)
    BY <1>2 DEF TimersNow, TimerOf
  <1>. QED  BY <1>1, <1>2

LEMMA LeftKept ==
  ASSUME WheelAssumption, WheelInv, TypeOK', NEW t \in Tasks, UNCHANGED tick,
         \A s \in Slots : t \in wheels'[s] <=> t \in wheels[s]
  PROVE  Left(t)' = Left(t)
  <1>1. TypeOK
    BY EntryFacts
  <1>2. CASE InSlots(t)
    <2>1. PICK d \in Times : LastRef(wheels, tick, t, d)
      BY <1>2 DEF WheelInv, LastInv
    <2>2. Left(t) = d
      BY <1>1, <2>1, LeftIsLast
    <2>3. LastRef(wheels', tick', t, d)
      BY <1>1, <2>1, LastRefKept
    <2>4. Left(t)' = d
      BY <2>3, LeftIsLastNext
    <2>. QED  BY <2>2, <2>4
  <1>3. CASE ~InSlots(t)
    BY <1>3 DEF InSlots, Left
  <1>. QED  BY <1>2, <1>3

(* A new timer starts with its full delay. *)
LEMMA SetRefines ==
  ASSUME WheelAssumption, WheelInv, TypeOK', NEW id \in Ids, ~HasTimer(id),
         NEW d \in Times, Sets(id, d)
  PROVE  /\ LastInv'
         /\ TimersNow' = [TimersNow EXCEPT ![id] = [delay |-> d, left |-> d, canceled |-> FALSE]]
         /\ UNCHANGED RunningNow
  <1>1. PICK t \in Tasks :
          /\ ~Live(t)
          /\ timers' = [timers EXCEPT ![id] = t]
          /\ task' = [task EXCEPT ![t] = [id |-> id, time |-> d, canceled |-> FALSE]]
          /\ wheels' = Push(wheels, t, d)
          /\ UNCHANGED <<tick, clearing, dying, lost, corrupt>>
    BY DEF Sets
  <1>2. TypeOK
    BY EntryFacts
  <1>3. \A e \in d + 1 .. Capacity : t \notin wheels[SlotAfter(e)]
    <2>1. \A e \in d + 1 .. Capacity : e + tick \in Int
      BY <1>2 DEF TypeOK, Slots, Times, WheelAssumption
    <2>. QED  BY <1>1, <2>1, SlotInRing DEF SlotAfter, Live, InSlots
  <1>4. /\ LastRef(wheels', tick', t, d)
        /\ \A u \in Tasks : u # t => \A s \in Slots : u \in wheels'[s] <=> u \in wheels[s]
    BY <1>1, <1>2, <1>3, PushIsLast
  <1>5. task'[t] = [id |-> id, time |-> d, canceled |-> FALSE]
        /\ \A u \in Tasks : u # t => task'[u] = task[u]
    BY <1>1, <1>2 DEF TypeOK
  <1>6. LastInv'
    <2>. SUFFICES ASSUME NEW u \in Tasks, InSlots(u)'
                  PROVE  \E e \in Times : LastRef(wheels', tick', u, e) /\ e <= task'[u].time
      BY DEF LastInv
    <2>1. CASE u = t
      <3>1. task'[u].time = d /\ d <= d
        BY <1>5, <2>1 DEF Times, WheelAssumption
      <3>. QED  BY <1>4, <2>1, <3>1
    <2>2. CASE u # t
      <3>1. InSlots(u)
        BY <1>4, <2>2 DEF InSlots
      <3>2. PICK e \in Times : LastRef(wheels, tick, u, e) /\ e <= task[u].time
        BY <3>1 DEF WheelInv, LastInv
      <3>3. LastRef(wheels', tick', u, e)
        BY <1>1, <1>2, <1>4, <2>2, <3>2, LastRefKept
      <3>. QED  BY <1>5, <2>2, <3>2, <3>3
    <2>. QED  BY <2>1, <2>2
  <1>7. TimerOf(id)' = [delay |-> d, left |-> d, canceled |-> FALSE]
    <2>1. timers'[id] = t /\ HasTimer(id)'
      BY <1>1, <1>2, WheelAssumption DEF TypeOK, HasTimer, WheelAssumption
    <2>2. Left(t)' = d
      BY <1>4, LeftIsLastNext
    <2>3. Left(timers[id])' = d
      BY <2>1, <2>2 DEF Left, InSlots, SlotAfter
    <2>4. task'[timers'[id]] = [id |-> id, time |-> d, canceled |-> FALSE]
      BY <1>5, <2>1
    <2>. QED  BY <2>1, <2>3, <2>4 DEF TimerOf, HasTimer
  <1>8. ASSUME NEW i \in Ids, i # id
        PROVE  TimerOf(i)' = TimerOf(i)
    <2>1. timers'[i] = timers[i]
      BY <1>1, <1>2, <1>8 DEF TypeOK
    <2>2. CASE HasTimer(i)
      <3>1. timers[i] \in Tasks /\ timers[i] # t
        BY <1>1, <2>2, EntryFacts
      <3>2. Left(timers[i])' = Left(timers[i])
        <4>1. PICK u \in Tasks : u = timers[i]
          BY <3>1
        <4>2. Left(u)' = Left(u)
          BY <1>1, <1>4, <3>1, <4>1, LeftKept
        <4>. QED  BY <2>1, <4>1, <4>2 DEF Left, InSlots, SlotAfter
      <3>. QED  BY <1>5, <2>1, <2>2, <3>1, <3>2 DEF TimerOf, HasTimer
    <2>3. CASE ~HasTimer(i)
      BY <2>1, <2>3 DEF TimerOf, HasTimer
    <2>. QED  BY <2>2, <2>3
  <1>9. UNCHANGED RunningNow
    <2>1. dying # t
      BY <1>1 DEF Live
    <2>. QED  BY <1>1, <1>2, <1>5, <2>1 DEF RunningNow, TypeOK
  <1>. QED  BY <1>6, <1>7, <1>8, <1>9 DEF TimersNow

(* A refreshed timer starts again with its full delay, which is further    *)
(* ahead than the references it already had.                               *)
LEMMA RefreshRefines ==
  ASSUME WheelAssumption, WheelInv, TypeOK', NEW id \in Ids, Refreshes(id)
  PROVE  /\ LastInv'
         /\ TimersNow' = [TimersNow EXCEPT ![id].left = TimersNow[id].delay]
         /\ UNCHANGED RunningNow /\ RunningNow # id
  <1>1. PICK t \in Tasks : t = timers[id] /\ Live(t) /\ task[t].id = id /\ task[t].time \in Times
    BY EntryFacts DEF Refreshes
  <1>2. PICK d \in Times : d = task[t].time
    BY <1>1
  <1>3. /\ HasTimer(id) /\ t # dying
        /\ wheels' = Push(wheels, t, d)
        /\ UNCHANGED <<tick, timers, task, clearing, dying, lost, corrupt>>
    BY <1>1, <1>2 DEF Refreshes
  <1>4. TypeOK
    BY EntryFacts
  <1>5. \A e \in d + 1 .. Capacity : t \notin wheels[SlotAfter(e)]
    <2>1. CASE InSlots(t)
      <3>1. PICK l \in Times : LastRef(wheels, tick, t, l) /\ l <= d
        BY <1>2, <2>1 DEF WheelInv, LastInv
      <3>2. d + 1 .. Capacity \subseteq l + 1 .. Capacity
        BY <3>1 DEF Times, WheelAssumption
      <3>. QED  BY <3>1, <3>2 DEF LastRef, SlotAfter
    <2>2. CASE ~InSlots(t)
      <3>1. \A e \in d + 1 .. Capacity : e + tick \in Int
        BY <1>4 DEF TypeOK, Slots, Times, WheelAssumption
      <3>. QED  BY <2>2, <3>1, SlotInRing DEF SlotAfter, InSlots
    <2>. QED  BY <2>1, <2>2
  <1>6. /\ LastRef(wheels', tick', t, d)
        /\ \A u \in Tasks : u # t => \A s \in Slots : u \in wheels'[s] <=> u \in wheels[s]
    BY <1>3, <1>4, <1>5, PushIsLast
  <1>7. LastInv'
    <2>. SUFFICES ASSUME NEW u \in Tasks, InSlots(u)'
                  PROVE  \E e \in Times : LastRef(wheels', tick', u, e) /\ e <= task'[u].time
      BY DEF LastInv
    <2>1. CASE u = t
      <3>1. d <= task'[u].time
        BY <1>2, <1>3, <2>1 DEF Times, WheelAssumption
      <3>. QED  BY <1>6, <2>1, <3>1
    <2>2. CASE u # t
      <3>1. InSlots(u)
        BY <1>6, <2>2 DEF InSlots
      <3>2. PICK e \in Times : LastRef(wheels, tick, u, e) /\ e <= task[u].time
        BY <3>1 DEF WheelInv, LastInv
      <3>3. LastRef(wheels', tick', u, e)
        BY <1>3, <1>4, <1>6, <2>2, <3>2, LastRefKept
      <3>. QED  BY <1>3, <3>2, <3>3
    <2>. QED  BY <2>1, <2>2
  <1>8. TimerOf(id)' = [TimerOf(id) EXCEPT !.left = TimerOf(id).delay]
    <2>1. Left(t)' = d
      <3>1. Left(t)' = d
        BY <1>6, LeftIsLastNext
      <3>. QED  BY <3>1
    <2>2. Left(timers[id])' = d
      BY <1>1, <1>3, <2>1 DEF Left, InSlots, SlotAfter
    <2>3. TimerOf(id)' = [delay |-> d, left |-> d, canceled |-> task[t].canceled]
      BY <1>1, <1>2, <1>3, <2>2 DEF TimerOf, HasTimer
    <2>4. TimerOf(id) = [delay |-> d, left |-> Left(t), canceled |-> task[t].canceled]
      BY <1>1, <1>2, <1>3 DEF TimerOf
    <2>. QED  BY <2>3, <2>4
  <1>9. ASSUME NEW i \in Ids, i # id
        PROVE  TimerOf(i)' = TimerOf(i)
    <2>1. CASE HasTimer(i)
      <3>1. PICK u \in Tasks : u = timers[i] /\ u # t
        BY <1>1, <1>9, <2>1, EntryFacts
      <3>2. Left(u)' = Left(u)
        BY <1>3, <1>6, <3>1, LeftKept
      <3>3. Left(timers[i])' = Left(timers[i])
        BY <1>3, <3>1, <3>2 DEF Left, InSlots, SlotAfter
      <3>. QED  BY <1>3, <2>1, <3>3 DEF TimerOf, HasTimer
    <2>2. CASE ~HasTimer(i)
      BY <1>3, <2>2 DEF TimerOf, HasTimer
    <2>. QED  BY <2>1, <2>2
  <1>10. UNCHANGED RunningNow /\ RunningNow # id
    <2>1. dying # NoTask => task[dying].id # id
      <3>1. dying # NoTask => dying \in Tasks /\ Live(dying)
        BY <1>4 DEF TypeOK, Live
      <3>. QED  BY <1>1, <1>3, <3>1, EntryFacts
    <2>. QED  BY <1>3, <2>1, WheelAssumption DEF RunningNow, WheelAssumption
  <1>11. TimersNow' = [TimersNow EXCEPT ![id] = TimerOf(id)']
    BY <1>9 DEF TimersNow
  <1>12. TimersNow[id] = TimerOf(id)
    BY DEF TimersNow
  <1>. QED  BY <1>7, <1>8, <1>10, <1>11, <1>12

(* A step that leaves slots, hand, entries and records alone is seen by    *)
(* nobody, but for the callback that starts or ends.                       *)
LEMMA UnseenStep ==
  ASSUME UNCHANGED <<tick, wheels, timers, task>>
  PROVE  (LastInv => LastInv') /\ UNCHANGED TimersNow
  BY DEF LastInv, InSlots, TimersNow, TimerOf, HasTimer, Left, SlotAfter

(* A cancelled timer stays where it is. *)
LEMMA RemoveRefines ==
  ASSUME WheelAssumption, WheelInv, TypeOK', NEW id \in Ids, RemoveTimeTask(id)
  PROVE  /\ LastInv'
         /\ TimersNow' = [TimersNow EXCEPT ![id].canceled = TRUE]
         /\ UNCHANGED RunningNow
  <1>1. PICK t \in Tasks : t = timers[id] /\ task[t] \in TaskRecord /\ task[t].id = id
    BY EntryFacts DEF RemoveTimeTask
  <1>2. /\ HasTimer(id) /\ t # dying
        /\ task' = [task EXCEPT ![t].canceled = TRUE]
        /\ UNCHANGED <<tick, wheels, timers, clearing, dying>>
    BY <1>1 DEF RemoveTimeTask
  <1>3. TypeOK
    BY EntryFacts
  <1>4. /\ task'[t].time = task[t].time /\ task'[t].canceled
        /\ task'[t].canceled = TRUE
        /\ \A u \in Tasks : task'[u].time = task[u].time
        /\ \A u \in Tasks : u # t => task'[u] = task[u]
    BY <1>1, <1>2, <1>3 DEF TypeOK, TaskRecord
  <1>5. LastInv'
    BY <1>2, <1>4 DEF WheelInv, LastInv, InSlots
  <1>6. \A i \in Ids : Left(timers[i])' = Left(timers[i]) /\ (HasTimer(i)' <=> HasTimer(i))
    BY <1>2 DEF Left, InSlots, SlotAfter, HasTimer
  <1>7. TimerOf(id)' = [TimerOf(id) EXCEPT !.canceled = TRUE]
    <2>1. TimerOf(id)' = [delay |-> task[t].time, left |-> Left(timers[id]), canceled |-> TRUE]
      BY <1>1, <1>2, <1>4, <1>6 DEF TimerOf
    <2>2. TimerOf(id) = [delay |-> task[t].time, left |-> Left(timers[id]),
                         canceled |-> task[t].canceled]
      BY <1>1, <1>2 DEF TimerOf
    <2>3. PICK y : y = TRUE
      OBVIOUS
    <2>4. [TimerOf(id) EXCEPT !.canceled = TRUE] = [TimerOf(id) EXCEPT !.canceled = y]
      BY <2>3
    <2>5. [TimerOf(id) EXCEPT !.canceled = y]
            = [delay |-> task[t].time, left |-> Left(timers[id]), canceled |-> y]
      BY <2>2
    <2>. QED  BY <2>1, <2>3, <2>4, <2>5
  <1>8. ASSUME NEW i \in Ids, i # id
        PROVE  TimerOf(i)' = TimerOf(i)
    <2>1. HasTimer(i) => timers[i] \in Tasks /\ timers[i] # t
      BY <1>1, <1>8, EntryFacts
    <2>. QED  BY <1>2, <1>4, <1>6, <2>1 DEF TimerOf
  <1>9. TimersNow' = [TimersNow EXCEPT ![id] = TimerOf(id)']
    BY <1>8 DEF TimersNow
  <1>10. TimersNow[id] = TimerOf(id)
    BY DEF TimersNow
  <1>11. UNCHANGED RunningNow
    BY <1>2, <1>3, <1>4 DEF RunningNow, TypeOK
  <1>. QED  BY <1>5, <1>7, <1>9, <1>10, <1>11

(* No timer is due when the hand moves, and each comes one tick nearer. *)
LEMMA OneTimeRefines ==
  ASSUME WheelAssumption, WheelInv, TypeOK', OneTime
  PROVE  /\ LastInv'
         /\ \A id \in Ids : HasTimer(id) => TimerOf(id).left > 0
         /\ TimersNow' = [id \in Ids |-> IF HasTimer(id)
                                          THEN [TimerOf(id) EXCEPT !.left = @ - 1]
                                          ELSE NoTask]
         /\ UNCHANGED RunningNow
  <1>1. UNCHANGED <<timers, task, dying>> /\ clearing = {} /\ dying = NoTask /\ lost = {}
    BY DEF OneTime, Quiet, WheelInv
  <1>2. TypeOK
    BY EntryFacts
  <1>3. ASSUME NEW t \in Tasks, InSlots(t)
        PROVE  \E d \in Times : /\ Left(t) = d /\ Left(t)' = d - 1
                                /\ InSlots(t)' => /\ d - 1 \in Times
                                                  /\ LastRef(wheels', tick', t, d - 1)
                                                  /\ d - 1 <= task[t].time
    <2>1. PICK d \in Times : LastRef(wheels, tick, t, d) /\ d <= task[t].time
      BY <1>3 DEF WheelInv, LastInv
    <2>2. Left(t) = d
      BY <1>2, <2>1, LeftIsLast
    <2>3. CASE d = 1
      <3>1. ~InSlots(t)'
        BY <1>2, <2>1, <2>3, TickIsNearer
      <3>2. Left(t)' = d - 1
        BY <2>3, <3>1 DEF Left
      <3>. QED  BY <2>2, <3>1, <3>2
    <2>4. CASE d # 1
      <3>1. PICK e \in Times : e = d - 1 /\ LastRef(wheels', tick', t, e)
        BY <1>2, <2>1, <2>4, TickIsNearer
      <3>2. Left(t)' = e
        BY <3>1, LeftIsLastNext
      <3>3. task[t].time \in Times
        BY <1>3, EntryFacts DEF Live
      <3>4. e <= task[t].time
        BY <2>1, <3>1, <3>3 DEF Times, WheelAssumption
      <3>. QED  BY <2>2, <3>1, <3>2, <3>4
    <2>. QED  BY <2>3, <2>4
  <1>4. \A t \in Tasks : InSlots(t)' => InSlots(t)
    <2>1. \A s \in Slots : wheels'[s] \subseteq wheels[s]
      BY <1>2 DEF OneTime, TypeOK
    <2>. QED  BY <2>1 DEF InSlots
  <1>5. LastInv'
    <2>. SUFFICES ASSUME NEW t \in Tasks, InSlots(t)'
                  PROVE  \E e \in Times : LastRef(wheels', tick', t, e) /\ e <= task'[t].time
      BY DEF LastInv
    <2>. QED  BY <1>1, <1>3, <1>4
  <1>6. ASSUME NEW id \in Ids, HasTimer(id)
        PROVE  TimerOf(id).left > 0 /\ TimerOf(id)' = [TimerOf(id) EXCEPT !.left = @ - 1]
    <2>1. PICK t \in Tasks : t = timers[id] /\ Live(t)
      BY <1>6, EntryFacts
    <2>2. InSlots(t)
      BY <1>1, <2>1, WheelAssumption DEF Live, WheelAssumption
    <2>3. PICK d \in Times : Left(t) = d /\ Left(t)' = d - 1
      BY <1>3, <2>2
    <2>4. Left(timers[id])' = d - 1
      BY <1>1, <2>1, <2>3 DEF Left, InSlots, SlotAfter
    <2>5. TimerOf(id) = [delay |-> task[t].time, left |-> d, canceled |-> task[t].canceled]
      BY <1>6, <2>1, <2>3 DEF TimerOf
    <2>6. TimerOf(id)' = [delay |-> task[t].time, left |-> d - 1, canceled |-> task[t].canceled]
      BY <1>1, <1>6, <2>1, <2>4 DEF TimerOf, HasTimer
    <2>. QED  BY <2>5, <2>6 DEF Times, WheelAssumption
  <1>7. \A id \in Ids : ~HasTimer(id) => TimerOf(id)' = NoTask
    BY <1>1 DEF TimerOf, HasTimer
  <1>8. UNCHANGED RunningNow
    BY <1>1 DEF RunningNow
  <1>. QED  BY <1>5, <1>6, <1>7, <1>8 DEF TimersNow

(* The destructor of an object starts only when its ticks are used up. *)
LEMMA DropRefines ==
  ASSUME WheelAssumption, WheelInv, NEW t \in Tasks, DropReference(t)
  PROVE  /\ LastInv' /\ UNCHANGED TimersNow
         /\ \/ UNCHANGED RunningNow
            \/ \E id \in Ids : /\ HasTimer(id) /\ TimerOf(id).left = 0
                               /\ RunningNow = NoId /\ RunningNow' = id
  <1>1. /\ UNCHANGED <<tick, wheels, timers, task>> /\ dying = NoTask
        /\ dying' = IF InSlots(t) THEN NoTask ELSE t
        /\ t \in clearing
    BY DEF DropReference, WheelInv
  <1>2. LastInv' /\ UNCHANGED TimersNow
    BY <1>1, UnseenStep DEF WheelInv
  <1>3. CASE InSlots(t)
    BY <1>1, <1>2, <1>3 DEF RunningNow
  <1>4. CASE ~InSlots(t)
    <2>1. PICK id \in Ids : id = task[t].id /\ timers[id] = t /\ HasTimer(id)
      BY <1>1, EntryFacts DEF Live
    <2>2. TimerOf(id).left = 0
      BY <1>4, <2>1 DEF TimerOf, Left
    <2>3. RunningNow = NoId /\ RunningNow' = id
      BY <1>1, <1>4, <2>1, WheelAssumption DEF RunningNow, WheelAssumption
    <2>. QED  BY <1>2, <2>1, <2>2, <2>3
  <1>. QED  BY <1>3, <1>4

(* Its end forgets the timer. *)
LEMMA ExcuteRefines ==
  ASSUME WheelAssumption, WheelInv, ExcuteTimer
  PROVE  /\ LastInv'
         /\ RunningNow # NoId /\ RunningNow' = NoId
         /\ TimersNow' = [TimersNow EXCEPT ![RunningNow] = NoTask]
  <1>1. TypeOK
    BY EntryFacts
  <1>2. PICK t \in Tasks : t = dying /\ Live(t) /\ ~InSlots(t)
    BY <1>1 DEF ExcuteTimer, TypeOK, WheelInv, ObjectInv, Live
  <1>3. PICK id \in Ids : id = task[t].id /\ timers[id] = t /\ HasTimer(id)
    BY <1>2, EntryFacts
  <1>4. /\ timers' = [timers EXCEPT ![id] = NoTask]
        /\ task' = [task EXCEPT ![t] = Blank]
        /\ dying # NoTask /\ dying' = NoTask
        /\ UNCHANGED <<tick, wheels>>
    BY <1>2, <1>3 DEF ExcuteTimer
  <1>5. RunningNow = id /\ RunningNow' = NoId /\ RunningNow # NoId
    BY <1>2, <1>3, <1>4, WheelAssumption DEF RunningNow, WheelAssumption
  <1>6. \A u \in Tasks : u # t => task'[u] = task[u]
    BY <1>1, <1>4 DEF TypeOK
  <1>7. LastInv'
    <2>. SUFFICES ASSUME NEW u \in Tasks, InSlots(u)'
                  PROVE  \E e \in Times : LastRef(wheels', tick', u, e) /\ e <= task'[u].time
      BY DEF LastInv
    <2>1. InSlots(u) /\ u # t
      BY <1>2, <1>4 DEF InSlots
    <2>2. PICK e \in Times : LastRef(wheels, tick, u, e) /\ e <= task[u].time
      BY <2>1 DEF WheelInv, LastInv
    <2>. QED  BY <1>4, <1>6, <2>1, <2>2
  <1>8. TimerOf(id)' = NoTask
    BY <1>1, <1>4 DEF TimerOf, HasTimer, TypeOK
  <1>9. ASSUME NEW i \in Ids, i # id
        PROVE  TimerOf(i)' = TimerOf(i)
    <2>1. timers'[i] = timers[i]
      BY <1>1, <1>4, <1>9 DEF TypeOK
    <2>2. CASE HasTimer(i)
      <3>1. PICK u \in Tasks : u = timers[i] /\ u # t
        BY <1>3, <1>9, <2>2, EntryFacts
      <3>2. Left(u)' = Left(u)
        BY <1>4 DEF Left, InSlots, SlotAfter
      <3>3. Left(timers[i])' = Left(timers[i])
        BY <2>1, <3>1, <3>2 DEF Left, InSlots, SlotAfter
      <3>. QED  BY <1>6, <2>1, <2>2, <3>1, <3>3 DEF TimerOf, HasTimer
    <2>3. CASE ~HasTimer(i)
      BY <2>1, <2>3 DEF TimerOf, HasTimer
    <2>. QED  BY <2>2, <2>3
  <1>. QED  BY <1>5, <1>7, <1>8, <1>9 DEF TimersNow

(* What Promise sees of a step of the wheel is a step of Promise or none. *)
LEMMA StepRefines ==
  ASSUME WheelAssumption, Reuse = FALSE, Capacity \notin CallbackDelays,
         WheelInv, TypeOK', [Next]_vars
  PROVE  LastInv' /\ [Promise!Next]_<<TimersNow, RunningNow>>
  <1>1. \A id \in Ids : HasTimer(id) <=> TimersNow[id] # NoTask
    BY PendingHasTimer
  <1>2. CASE Client
    <2>1. PICK id \in Ids : \/ ~HasTimer(id) /\ \E d \in Delays \union CallbackDelays : Sets(id, d)
                           \/ Refreshes(id)
                           \/ RemoveTimeTask(id)
      BY <1>2, ClientPushes DEF WheelInv
    <2>2. ASSUME ~HasTimer(id), NEW d \in Delays \union CallbackDelays, Sets(id, d)
          PROVE  LastInv' /\ Promise!Set(id, d)
      <3>1. d \in Times
        BY DEF WheelAssumption, Times
      <3>2. /\ LastInv'
            /\ TimersNow' = [TimersNow EXCEPT ![id] = [delay |-> d, left |-> d, canceled |-> FALSE]]
            /\ UNCHANGED RunningNow
        BY <2>2, <3>1, SetRefines
      <3>. QED  BY <1>1, <2>2, <3>2 DEF Promise!Set, Promise!Pending, TimersNow, TimerOf, RunningNow
    <2>3. ASSUME Refreshes(id)
          PROVE  LastInv' /\ Promise!Flush(id)
      <3>1. HasTimer(id)
        BY <2>3 DEF Refreshes
      <3>2. /\ LastInv'
            /\ TimersNow' = [TimersNow EXCEPT ![id].left = TimersNow[id].delay]
            /\ UNCHANGED RunningNow /\ RunningNow # id
        BY <2>3, RefreshRefines
      <3>. QED  BY <1>1, <3>1, <3>2 DEF Promise!Flush, Promise!Pending, TimersNow, TimerOf, RunningNow
    <2>4. ASSUME RemoveTimeTask(id)
          PROVE  LastInv' /\ Promise!Cancel(id)
      <3>1. HasTimer(id)
        BY <2>4 DEF RemoveTimeTask
      <3>2. /\ LastInv'
            /\ TimersNow' = [TimersNow EXCEPT ![id].canceled = TRUE]
            /\ UNCHANGED RunningNow
        BY <2>4, RemoveRefines
      <3>. QED  BY <1>1, <3>1, <3>2 DEF Promise!Cancel, Promise!Pending, TimersNow, TimerOf, RunningNow
    <2>. QED  BY <2>1, <2>2, <2>3, <2>4 DEF Promise!Next
  <1>3. CASE OneTime
    <2>1. /\ LastInv'
          /\ \A id \in Ids : HasTimer(id) => TimerOf(id).left > 0
          /\ TimersNow' = [id \in Ids |-> IF HasTimer(id)
                                           THEN [TimerOf(id) EXCEPT !.left = @ - 1]
                                           ELSE NoTask]
          /\ UNCHANGED RunningNow
      BY <1>3, OneTimeRefines
    <2>2. /\ \A id \in Ids : TimersNow[id] # NoTask => TimersNow[id].left > 0
          /\ TimersNow' = [id \in Ids |-> IF TimersNow[id] # NoTask
                                           THEN [TimersNow[id] EXCEPT !.left = @ - 1]
                                           ELSE NoTask]
      BY <1>1, <2>1 DEF TimersNow
    <2>3. Promise!Tick
      BY <2>1, <2>2 DEF Promise!Tick, Promise!Pending, TimersNow, TimerOf, RunningNow
    <2>. QED  BY <2>1, <2>3 DEF Promise!Next
  <1>4. ASSUME NEW t \in Tasks, DropReference(t)
        PROVE  LastInv' /\ [Promise!Next]_<<TimersNow, RunningNow>>
    <2>1. LastInv' /\ UNCHANGED TimersNow
      BY <1>4, DropRefines
    <2>2. CASE UNCHANGED RunningNow
      BY <2>1, <2>2
    <2>3. ASSUME NEW id \in Ids, HasTimer(id), TimerOf(id).left = 0,
                 RunningNow = NoId, RunningNow' = id
          PROVE  Promise!Expire(id)
      <3>1. TimersNow[id] # NoTask /\ TimersNow[id].left = 0
        BY <1>1, <2>3 DEF TimersNow
      <3>. QED  BY <2>1, <2>3, <3>1
                DEF Promise!Expire, Promise!Pending, TimersNow, TimerOf, RunningNow
    <2>. QED  BY <1>4, <2>1, <2>2, <2>3, DropRefines DEF Promise!Next
  <1>5. CASE ExcuteTimer
    <2>1. /\ LastInv'
          /\ RunningNow # NoId /\ RunningNow' = NoId
          /\ TimersNow' = [TimersNow EXCEPT ![RunningNow] = NoTask]
      BY <1>5, ExcuteRefines
    <2>2. Promise!Finish
      BY <2>1 DEF Promise!Finish, TimersNow, TimerOf, RunningNow
    <2>. QED  BY <2>1, <2>2 DEF Promise!Next
  <1>6. CASE Elapse \/ UNCHANGED vars
    <2>1. UNCHANGED <<tick, wheels, timers, task, dying>>
      BY <1>6 DEF Elapse, vars, wheelVars
    <2>2. LastInv' /\ UNCHANGED TimersNow
      BY <2>1, UnseenStep DEF WheelInv
    <2>. QED  BY <2>1, <2>2 DEF RunningNow
  <1>. QED  BY <1>2, <1>3, <1>4, <1>5, <1>6 DEF Next

(* The wheel keeps the promise of Timers when its clients keep its rules:  *)
(* one timer for an id, and none of a whole turn set or refreshed from a   *)
(* callback.  Every timer then runs exactly its delay of ticks after its   *)
(* last refresh, unless it was cancelled.                                  *)
THEOREM TimersImplemented ==
  ASSUME Reuse = FALSE, Capacity \notin CallbackDelays
  PROVE  Spec => ImplementsTimers
  <1>1. Init => LastInv /\ Named /\ Promise!Init
    <2>. SUFFICES ASSUME Init PROVE LastInv /\ Named /\ Promise!Init
      OBVIOUS
    <2>1. \A t \in Tasks : ~Live(t) /\ ~InSlots(t)
      BY WheelAssumption DEF WheelAssumption, Init, Live, InSlots
    <2>. QED  BY <2>1 DEF LastInv, Named, Init, Promise!Init, HasTimer
  <1>2. ObjectInv /\ Named /\ [Next]_vars => Named'
    <2>1. Client => OneTimerStep
      BY WheelAssumption DEF Client, OneTimerStep, WheelAssumption, Times
    <2>2. [Next]_vars => OneTimerStep
      BY <2>1 DEF Next, OneTimerStep
    <2>. QED  BY <2>2, WheelAssumption, NamedStep
  <1>3. /\ ObjectInv /\ ObjectInv' /\ NoTimerLost /\ Named /\ LastInv /\ [Next]_vars
        => LastInv' /\ [Promise!Next]_<<TimersNow, RunningNow>>
    BY WheelAssumption, StepRefines DEF WheelInv, NoTimerLost, ObjectInv
  <1>4. Spec => [](Named /\ LastInv)
    BY <1>1, <1>2, <1>3, ObjectsCorrect, NoTimerIsLost, PTL DEF Spec
  <1>5. Spec => Promise!Init /\ [][Promise!Next]_<<TimersNow, RunningNow>>
    BY <1>1, <1>3, <1>4, ObjectsCorrect, NoTimerIsLost, PTL DEF Spec
  <1>6. [Promise!Next]_<<TimersNow, RunningNow>> => [Promise!Next]_(Promise!vars)
    BY DEF Promise!vars, TimersNow, TimerOf, RunningNow
  <1>. QED  BY <1>5, <1>6, PTL DEF ImplementsTimers, Promise!Spec
=============================================================================
