----------------------------- MODULE TimeWheel -----------------------------
(***************************************************************************)
(* The time wheel of an event loop (time_task and time_task_wheel of       *)
(* Sever.hpp).  A timer is an object owned by the shared_ptrs kept in the  *)
(* slots of a ring; a tick clears the slot under the hand, and an object   *)
(* whose last reference goes runs its callback in its destructor and then  *)
(* erases its id from _timers.  A refresh adds a reference in a later      *)
(* slot.                                                                   *)
(*                                                                         *)
(* All operations run in the loop's own thread (set_time_task_loop and its *)
(* sisters go through RunInLoop), so each is one step; the clearing of a   *)
(* slot is several steps, because callbacks run in the middle of it and    *)
(* may call the wheel again.                                               *)
(***************************************************************************)
EXTENDS Integers, FiniteSets

CONSTANTS
  Capacity,      (* slots of the ring, 60 in the code                      *)
  Ids,           (* timer ids                                              *)
  Tasks,         (* the timer objects that can exist at the same time      *)
  Delays,        (* delays given to set_time_task by handlers              *)
  CallbackDelays,(* delays of the timers that timers' callbacks deal with  *)
  Reuse,         (* may a client set a timer for an id that has one?       *)
  MaxPending,    (* expirations counted by the timerfd before saturation   *)
  NoTask, NoId

ASSUME WheelAssumption ==
  /\ Capacity \in Nat \ {0}
  /\ Delays \subseteq 1 .. Capacity
  /\ CallbackDelays \subseteq 1 .. Capacity
  /\ Reuse \in BOOLEAN
  /\ MaxPending \in Nat \ {0}
  /\ NoTask \notin Tasks
  /\ NoTask \notin [delay : Nat, left : Nat, canceled : BOOLEAN]
  /\ NoId \notin Ids

VARIABLES
  tick,      (* _tick, the hand                                            *)
  wheels,    (* _wheels, the objects referenced from each slot             *)
  timers,    (* _timers, id -> the object its weak_ptr names, or NoTask    *)
  task,      (* the objects: _id, _time, _canceled                         *)
  clearing,  (* references of the slot being cleared, not yet dropped      *)
  dying,     (* the object whose destructor runs, or NoTask                *)
  lost,      (* objects whose reference was forgotten without being dropped *)
  corrupt,   (* the vector being cleared was reallocated under clear()     *)
  pending,   (* expirations the timerfd holds                              *)
  age        (* history: seconds since an object was set or refreshed      *)

wheelVars == <<tick, wheels, timers, task, clearing, dying, lost, corrupt>>
vars == <<wheelVars, pending, age>>

Slots == 0 .. Capacity - 1
Times == 1 .. Capacity
Blank == [id |-> NoId, time |-> 1, canceled |-> FALSE]
TaskRecord == [id : Ids, time : Times, canceled : BOOLEAN]

HasTimer(id) == timers[id] # NoTask

(* The slot that the hand reaches after d ticks. *)
SlotAfter(d) == (d + tick) % Capacity

InSlots(t) == \E s \in Slots : t \in wheels[s]

(* An object exists while some reference counts for it; a lost one is      *)
(* counted for ever.                                                       *)
Live(t) == InSlots(t) \/ t \in clearing \/ t = dying \/ t \in lost

(* The seconds a client can have seen pass, saturated. *)
Older(a) == IF a < Capacity THEN a + 1 ELSE a

Init ==
  /\ tick = 0
  /\ wheels = [s \in Slots |-> {}]
  /\ timers = [id \in Ids |-> NoTask]
  /\ task = [t \in Tasks |-> Blank]
  /\ clearing = {}
  /\ dying = NoTask
  /\ lost = {}
  /\ corrupt = FALSE
  /\ pending = 0
  /\ age = [t \in Tasks |-> 0]

Quiet == clearing = {} /\ dying = NoTask /\ ~corrupt
InCallback == dying # NoTask /\ ~task[dying].canceled /\ ~corrupt

(***************************************************************************)
(* push_back into the slot d ticks ahead.  The slot under the hand is a    *)
(* vector in the middle of clear() while its references are dropped: an    *)
(* element appended to it is forgotten when clear() resets the size, or,   *)
(* when the vector has to grow, the storage being walked is freed.         *)
(***************************************************************************)
Push(w, t, d) == [w EXCEPT ![SlotAfter(d)] = @ \union {t}]

PushBack(t, d) ==
  IF InCallback /\ SlotAfter(d) = tick
  THEN /\ UNCHANGED wheels
       /\ lost' = lost \union {t}
       /\ corrupt' \in BOOLEAN
  ELSE /\ wheels' = Push(wheels, t, d)
       /\ UNCHANGED <<lost, corrupt>>

SetTimeTask(id, d) ==
  \E t \in Tasks :
    /\ ~Live(t)
    /\ timers' = [timers EXCEPT ![id] = t]
    /\ task' = [task EXCEPT ![t] = [id |-> id, time |-> d, canceled |-> FALSE]]
    /\ PushBack(t, d)
    /\ age' = [age EXCEPT ![t] = 0]
    /\ UNCHANGED <<tick, clearing, dying, pending>>

(* Mistake: a refresh that only marks the object as young. *)
FlushTimeTaskNoPush(id) ==
  /\ HasTimer(id) /\ timers[id] # dying
  /\ age' = [age EXCEPT ![timers[id]] = 0]
  /\ UNCHANGED wheelVars
  /\ UNCHANGED pending

(* No caller refreshes an id from that id's own callback, where lock()     *)
(* would return null.                                                      *)
FlushTimeTask(id) ==
  /\ HasTimer(id) /\ timers[id] # dying
  /\ PushBack(timers[id], task[timers[id]].time)
  /\ age' = [age EXCEPT ![timers[id]] = 0]
  /\ UNCHANGED <<tick, timers, task, clearing, dying, pending>>

(* An object in its destructor cannot be locked and is left alone. *)
RemoveTimeTask(id) ==
  /\ HasTimer(id) /\ timers[id] # dying
  /\ task' = [task EXCEPT ![timers[id]].canceled = TRUE]
  /\ UNCHANGED <<tick, wheels, timers, clearing, dying, lost, corrupt, pending, age>>

(* One second: the timerfd counts an expiration, whatever the loop does. *)
Elapse ==
  /\ pending' = IF pending < MaxPending THEN pending + 1 ELSE pending
  /\ age' = [t \in Tasks |-> Older(age[t])]
  /\ UNCHANGED wheelVars

(* Mistake: the hand is not wrapped at the end of the ring. *)
OneTimeNoWrap ==
  /\ Quiet
  /\ pending > 0
  /\ pending' = 0
  /\ tick' = tick + 1
  /\ clearing' = wheels[SlotAfter(1)]
  /\ wheels' = [wheels EXCEPT ![SlotAfter(1)] = {}]
  /\ UNCHANGED <<timers, task, dying, lost, corrupt, age>>

(* Mistake: the slot is cleared before the hand moves on to the next. *)
OneTimeClearsFirst ==
  /\ Quiet
  /\ pending > 0
  /\ pending' = 0
  /\ tick' = SlotAfter(1)
  /\ clearing' = wheels[tick]
  /\ wheels' = [wheels EXCEPT ![tick] = {}]
  /\ UNCHANGED <<timers, task, dying, lost, corrupt, age>>

(* OneTime: one read empties the timerfd's counter, and the hand moves by  *)
(* one slot whatever the count was.                                        *)
OneTime ==
  /\ Quiet
  /\ pending > 0
  /\ pending' = 0
  /\ tick' = SlotAfter(1)
  /\ clearing' = wheels[SlotAfter(1)]
  /\ wheels' = [wheels EXCEPT ![SlotAfter(1)] = {}]
  /\ UNCHANGED <<timers, task, dying, lost, corrupt, age>>

(* clear() drops the next reference; the last one destroys the object. *)
DropReference(t) ==
  /\ dying = NoTask /\ ~corrupt
  /\ t \in clearing
  /\ clearing' = clearing \ {t}
  /\ dying' = IF InSlots(t) \/ t \in lost THEN NoTask ELSE t
  /\ UNCHANGED <<tick, wheels, timers, task, lost, corrupt, pending, age>>

(* Mistake: a cancelled object returns from its destructor before _release. *)
ExcuteTimerUnlessCanceled ==
  /\ dying # NoTask /\ ~corrupt
  /\ timers' = IF task[dying].canceled
               THEN timers
               ELSE [timers EXCEPT ![task[dying].id] = NoTask]
  /\ task' = [task EXCEPT ![dying] = Blank]
  /\ age' = [age EXCEPT ![dying] = 0]
  /\ dying' = NoTask
  /\ UNCHANGED <<tick, wheels, clearing, lost, corrupt, pending>>

(* The destructor ends: _release erases whatever entry the id has. *)
ExcuteTimer ==
  /\ dying # NoTask /\ ~corrupt
  /\ timers' = [timers EXCEPT ![task[dying].id] = NoTask]
  /\ task' = [task EXCEPT ![dying] = Blank]
  /\ age' = [age EXCEPT ![dying] = 0]
  /\ dying' = NoTask
  /\ UNCHANGED <<tick, wheels, clearing, lost, corrupt, pending>>

(* What the rest of the program may ask of the wheel: a handler or a task  *)
(* of the loop between two ticks, or the callback of an expiring timer,    *)
(* which sets and refreshes timers of the CallbackDelays only.             *)
Client ==
  \E id \in Ids :
    \/ /\ Reuse \/ ~HasTimer(id)
       /\ \/ Quiet /\ \E d \in Delays : SetTimeTask(id, d)
          \/ InCallback /\ \E d \in CallbackDelays : SetTimeTask(id, d)
    \/ Quiet /\ (FlushTimeTask(id) \/ RemoveTimeTask(id))
    \/ /\ InCallback /\ HasTimer(id)
       /\ \/ task[timers[id]].time \in CallbackDelays /\ FlushTimeTask(id)
          \/ RemoveTimeTask(id)

Next ==
  \/ Client
  \/ Elapse
  \/ OneTime
  \/ \E t \in Tasks : DropReference(t)
  \/ ExcuteTimer

(* Seconds pass, the loop reads a readable timerfd, clear() goes on and    *)
(* callbacks return.                                                       *)
Fairness ==
  /\ WF_vars(Elapse)
  /\ WF_vars(OneTime)
  /\ WF_vars(\E t \in Tasks : DropReference(t))
  /\ WF_vars(ExcuteTimer)

Spec == Init /\ [][Next]_vars /\ Fairness

-----------------------------------------------------------------------------
(* The types of the variables. *)
TypeOK ==
  /\ tick \in Slots
  /\ wheels \in [Slots -> SUBSET Tasks]
  /\ timers \in [Ids -> Tasks \union {NoTask}]
  /\ task \in [Tasks -> TaskRecord \union {Blank}]
  /\ clearing \in SUBSET Tasks
  /\ dying \in Tasks \union {NoTask}
  /\ lost \in SUBSET Tasks
  /\ corrupt \in BOOLEAN
  /\ pending \in 0 .. MaxPending
  /\ age \in [Tasks -> 0 .. Capacity]

(* The ticks until the hand has passed every slot that references t: the   *)
(* moment its last reference goes.                                         *)
Left(t) ==
  IF InSlots(t)
  THEN CHOOSE d \in Times : /\ t \in wheels[SlotAfter(d)]
                            /\ \A e \in d + 1 .. Capacity : t \notin wheels[SlotAfter(e)]
  ELSE 0

(* The entry of an id names an object that exists and carries that id, and *)
(* every object that exists is the one its id's entry names: HasTimer, a   *)
(* refresh and a cancellation always reach the object that will run the    *)
(* callback (_timers against _wheels).                                     *)
EntryNamesTheTimer ==
  /\ \A id \in Ids : HasTimer(id) => Live(timers[id]) /\ task[timers[id]].id = id
  /\ \A t \in Tasks : Live(t) => task[t].id \in Ids /\ timers[task[t].id] = t

(* A callback never runs more than one second early: when a destructor     *)
(* runs, all but at most one second of the object's delay has passed since *)
(* it was set or last refreshed (an idle connection is never closed while  *)
(* it was used within the timeout less one second).                        *)
NeverEarly ==
  dying # NoTask => age[dying] + 1 >= task[dying].time

(***************************************************************************)
(* Why it holds.  A tick that is read late counts for seconds that passed  *)
(* before, so an unread expiration is worth one second.  Every object has  *)
(* a reference d ticks ahead of the hand that is far enough: the seconds   *)
(* seen since the last refresh and the d ticks to come make up its delay,  *)
(* less one second.  Its last reference is at least as far.                *)
(***************************************************************************)
Unread == IF pending > 0 THEN 1 ELSE 0

FarEnough(t, d) == task[t].time + Unread <= age[t] + 1 + d

DeadlineInv ==
  /\ \A t \in Tasks : InSlots(t) /\ t \notin lost =>
       \E d \in Times : t \in wheels[SlotAfter(d)] /\ FarEnough(t, d)
  /\ \A t \in clearing : ~InSlots(t) /\ t \notin lost => FarEnough(t, 0)
  /\ dying # NoTask => FarEnough(dying, 0)

(* Objects that exist are set up, entries name existing objects with their *)
(* id, and nothing references an object in its destructor.                 *)
ObjectInv ==
  /\ TypeOK
  /\ \A t \in Tasks : Live(t) => task[t] \in TaskRecord
  /\ \A id \in Ids : HasTimer(id) => Live(timers[id]) /\ task[timers[id]].id = id
  /\ dying # NoTask => dying \notin clearing /\ ~InSlots(dying) /\ dying \notin lost

(* Every object that exists is owned by a slot, so that its callback will  *)
(* run or be cancelled.  It fails for a callback that sets a timer of a    *)
(* whole turn, which is how a longer timer would be chained: set_time_task *)
(* then pushes into the vector that clear() is about to empty.             *)
NoTimerLost == lost = {}

(* A timer that is not refreshed for ever goes away: again and again each  *)
(* id either has no timer or has one that was restarted just now.          *)
TimersEnd ==
  \A id \in Ids : []<>(HasTimer(id) => Left(timers[id]) = task[timers[id]].time)

(* The wheel keeps the promise of Timers: expiry exactly delay ticks after *)
(* the last refresh, none before, none twice, a cancelled one never.       *)
Promise == INSTANCE Timers WITH
  Delays <- Delays \union CallbackDelays,
  Idle <- NoTask,
  timer <- [id \in Ids |->
              IF HasTimer(id)
              THEN [delay |-> task[timers[id]].time,
                    left |-> Left(timers[id]),
                    canceled |-> task[timers[id]].canceled]
              ELSE NoTask],
  running <- IF dying = NoTask THEN NoId ELSE task[dying].id

ImplementsTimers == Promise!Spec
=============================================================================
