-------------------------- MODULE TcpServerProofs --------------------------
(***************************************************************************)
(* Theorems about TcpServer for every number of loops, connections and     *)
(* descriptors, and every way the message callbacks may react.             *)
(***************************************************************************)
EXTENDS TcpServer, TLAPS

-----------------------------------------------------------------------------
(* The handlers as functions of the connection.                            *)

(* Connections with a given number, loop, socket and count of closes whose *)
(* handlers run; S has the states they can be in.                          *)
Handled(S, f, l, o, k) ==
  [status : S, fd : {f}, loop : {l}, open : {o}, ev : SUBSET {"in", "out"},
   in : BOOLEAN, out : 0 .. 2, releases : Nat, closes : {k}]

(* No handler touches the number, the loop or the socket; a state changes  *)
(* to DISCONNECTING only.                                                  *)
LEMMA ReleaseHandled ==
  ASSUME NEW S, NEW f, NEW l, NEW o, NEW k, NEW r \in Handled(S, f, l, o, k)
  PROVE  Release(r) \in Handled(S, f, l, o, k)
  BY DEF Release, Handled

LEMMA SendHandled ==
  ASSUME NEW S, NEW f, NEW l, NEW o, NEW k, NEW r \in Handled(S, f, l, o, k)
  PROVE  Send(r) \in Handled(S, f, l, o, k) /\ SendNothing(r) \in Handled(S, f, l, o, k)
  <1>1. \A e \in SUBSET {"in", "out"}, n \in 0 .. 2 :
          [r EXCEPT !.out = n, !.ev = e] \in Handled(S, f, l, o, k)
    BY DEF Handled
  <1>2. (IF Partial THEN 2 ELSE 1) \in 0 .. 2
    OBVIOUS
  <1>3. r.ev \union {"out"} \in SUBSET {"in", "out"}
    BY DEF Handled
  <1>4. Send(r) \in Handled(S, f, l, o, k)
    BY <1>1, <1>2, <1>3 DEF Send
  <1>5. SendNothing(r) \in Handled(S, f, l, o, k)
    BY <1>3 DEF SendNothing, Handled
  <1>. QED  BY <1>4, <1>5

LEMMA EndShutdownHandled ==
  ASSUME NEW S, NEW f, NEW l, NEW o, NEW k, NEW r \in Handled(S, f, l, o, k)
  PROVE  EndShutdown(r) \in Handled(S, f, l, o, k)
  BY ReleaseHandled DEF EndShutdown, Handled

LEMMA FinishHandled ==
  ASSUME NEW S, NEW f, NEW l, NEW o, NEW k, NEW r \in Handled(S, f, l, o, k),
         "DISCONNECTING" \in S
  PROVE  Finish(r) \in Handled(S, f, l, o, k)
  <1>1. [r EXCEPT !.status = "DISCONNECTING"] \in Handled(S, f, l, o, k)
    BY DEF Handled
  <1>. QED  BY <1>1, EndShutdownHandled DEF Finish

LEMMA MessageHandled ==
  ASSUME ServerAssumption,
         NEW S, NEW f, NEW l, NEW o, NEW k, NEW r \in Handled(S, f, l, o, k),
         "DISCONNECTING" \in S, NEW m \in Reactions
  PROVE  Message(r, m) \in Handled(S, f, l, o, k)
  <1>1. [r EXCEPT !.in = FALSE] \in Handled(S, f, l, o, k)
    BY DEF Handled
  <1>2. m \in {"wait", "echo", "finish", "close", "blank"}
    BY DEF ServerAssumption
  <1>3. Send([r EXCEPT !.in = FALSE]) \in Handled(S, f, l, o, k)
    BY <1>1, SendHandled
  <1>4. React(r, m) \in Handled(S, f, l, o, k)
    <2>1. CASE m = "wait"
      BY <2>1 DEF React
    <2>2. CASE m = "echo"
      BY <2>2, <1>3 DEF React
    <2>3. CASE m = "finish"
      BY <2>3, <1>3, FinishHandled DEF React
    <2>4. CASE m = "close"
      BY <2>4, <1>1, FinishHandled DEF React
    <2>5. CASE m = "blank"
      BY <2>5, <1>1, SendHandled DEF React
    <2>. QED  BY <1>2, <2>1, <2>2, <2>3, <2>4, <2>5
  <1>. QED  BY <1>4 DEF Message

LEMMA ShutDownHandled ==
  ASSUME ServerAssumption,
         NEW S, NEW f, NEW l, NEW o, NEW k, NEW r \in Handled(S, f, l, o, k),
         "DISCONNECTING" \in S, NEW m \in Reactions
  PROVE  ShutDownInLoop(r, m) \in Handled(S, f, l, o, k)
  <1>1. [r EXCEPT !.status = "DISCONNECTING"] \in Handled(S, f, l, o, k)
    BY DEF Handled
  <1>2. Message([r EXCEPT !.status = "DISCONNECTING"], m) \in Handled(S, f, l, o, k)
    BY <1>1, MessageHandled
  <1>. QED  BY <1>2, EndShutdownHandled DEF ShutDownInLoop

LEMMA HanderReadHandled ==
  ASSUME ServerAssumption,
         NEW S, NEW f, NEW l, NEW o, NEW k, NEW r \in Handled(S, f, l, o, k),
         "DISCONNECTING" \in S, NEW m \in Reactions, NEW c, rx[c] \in BOOLEAN, NEW no
  PROVE  HanderRead(r, c, no, m) \in Handled(S, f, l, o, k)
  <1>1. [r EXCEPT !.in = @ \/ rx[c]] \in Handled(S, f, l, o, k)
    BY DEF Handled
  <1>. QED  BY <1>1, MessageHandled, ShutDownHandled DEF HanderRead

LEMMA HanderWriteHandled ==
  ASSUME ServerAssumption,
         NEW S, NEW f, NEW l, NEW o, NEW k, NEW r \in Handled(S, f, l, o, k),
         "DISCONNECTING" \in S, NEW m \in Reactions, NEW c, NEW no, NEW all \in BOOLEAN
  PROVE  HanderWrite(r, c, no, m, all) \in Handled(S, f, l, o, k)
  <1>1. AfterSend(r, all) \in Handled(S, f, l, o, k)
    <2>1. [r EXCEPT !.out = 1] \in Handled(S, f, l, o, k)
      BY DEF Handled
    <2>2. [r EXCEPT !.out = 0, !.ev = @ \ {"out"}] \in Handled(S, f, l, o, k)
      <3>1. \A e \in SUBSET {"in", "out"}, n \in 0 .. 2 :
              [r EXCEPT !.out = n, !.ev = e] \in Handled(S, f, l, o, k)
        BY DEF Handled
      <3>2. PICK n \in 0 .. 2 : n = 0
        OBVIOUS
      <3>3. r.ev \ {"out"} \in SUBSET {"in", "out"}
        BY DEF Handled
      <3>4. [r EXCEPT !.out = n, !.ev = @ \ {"out"}] \in Handled(S, f, l, o, k)
        BY <3>1, <3>3
      <3>. QED  BY <3>2, <3>4
    <2>. QED  BY <2>1, <2>2, ReleaseHandled DEF AfterSend
  <1>2. Release(Message(r, m)) \in Handled(S, f, l, o, k)
    BY MessageHandled, ReleaseHandled
  <1>. QED  BY <1>1, <1>2 DEF HanderWrite

LEMMA HanderEventsHandled ==
  ASSUME ServerAssumption,
         NEW S, NEW f, NEW l, NEW o, NEW k, NEW r \in Handled(S, f, l, o, k),
         "DISCONNECTING" \in S, NEW m1 \in Reactions, NEW m2 \in Reactions,
         NEW c, rx[c] \in BOOLEAN, NEW no, NEW rev, NEW all \in BOOLEAN
  PROVE  HanderEvents(r, c, no, rev, m1, m2, all) \in Handled(S, f, l, o, k)
  <1>. DEFINE read == IF "in" \in rev THEN HanderRead(r, c, no, m1) ELSE r
              no1 == IF "in" \in rev THEN ErrnoAfter(c, no) ELSE no
  <1>1. read \in Handled(S, f, l, o, k)
    BY HanderReadHandled
  <1>2. HanderWrite(read, c, no1, m2, all) \in Handled(S, f, l, o, k)
    <2>. HIDE DEF read, no1
    <2>. QED  BY <1>1, HanderWriteHandled
  <1>3. HanderClose(read, m2) \in Handled(S, f, l, o, k)
    <2>. HIDE DEF read
    <2>. QED  BY <1>1, MessageHandled, ReleaseHandled DEF HanderClose
  <1>. QED  BY <1>1, <1>2, <1>3 DEF HanderEvents

-----------------------------------------------------------------------------
(* The inductive invariant.                                                *)

(* A connection has its number and its loop from its acceptance on.        *)
BornInv ==
  \A c \in Conns :
    /\ c > newest => conn[c] = Unborn /\ timer[c] = NoTimers
    /\ c <= newest => conn[c].fd \in Fds /\ conn[c].status # "UNBORN"
    /\ conn[c].status = "CONNECTING" => Open(c)

(* Open sockets have numbers of their own. *)
FdInv == \A c, d \in Conns : Open(c) /\ Open(d) /\ conn[c].fd = conn[d].fd => c = d

(* Tasks are about accepted connections and, but for the removal from the  *)
(* server's map, run in the connection's own loop.                         *)
TaskInv ==
  \A l \in Loops : \A i \in 1 .. Len(tasks[l]) :
    /\ tasks[l][i].c <= newest
    /\ tasks[l][i].op # "remove" => conn[tasks[l][i].c].loop = l

(* Only handlers see events, those of open connections of their loop. *)
ActiveInv ==
  \A l \in Loops, c \in Conns : active[l][c] # {} =>
    phase[l] = "handlers" /\ Open(c) /\ conn[c].loop = l

(* A loop that runs tasks has one left of the batch it took. *)
BatchInv == \A l \in Loops : phase[l] = "tasks" => batch[l] \in 1 .. Len(tasks[l])

(* NewConnection runs in a handler of the base loop. *)
CreatingInv ==
  /\ creating = "accept" => newest < ConnCnt
  /\ creating \in {"establish", "insert"} => newest >= 1
  /\ creating # "no" => phase[Base] = "handlers"

(* The server's own EnableTimeoutDel is queued once for a connection. *)
EnableInv ==
  \A l \in Loops : \A i \in 1 .. Len(tasks[l]) : tasks[l][i].op = "enable" =>
    /\ EnableCnt > 0
    /\ timer[tasks[l][i].c].enables = 0
    /\ \A k \in Loops : \A j \in 1 .. Len(tasks[k]) :
         tasks[k][j] = tasks[l][i] => k = l /\ j = i

CoreInv ==
  /\ TypeOK
  /\ BornInv
  /\ FdInv
  /\ TaskInv
  /\ ActiveInv
  /\ BatchInv
  /\ CreatingInv
  /\ EnableInv
  /\ PollersAgree

(***************************************************************************)
(* Without timers a connection is released only by its own handlers, and   *)
(* all releases of a round run in the tasks of that round.                 *)
(***************************************************************************)
ReleaseInv ==
  \A l \in Loops : \A i \in 1 .. Len(tasks[l]) : tasks[l][i].op = "release" =>
    \/ phase[l] = "handlers" /\ Open(tasks[l][i].c)
    \/ phase[l] = "tasks" /\ i <= batch[l]

(* A release that comes again after the close finds the number, where it   *)
(* is in use again, with a connection the loop does not know yet.          *)
StaleInv ==
  \A l \in Loops : \A i \in 1 .. Len(tasks[l]) :
    tasks[l][i].op = "release" /\ ~Open(tasks[l][i].c) =>
      \A d \in Conns : Open(d) /\ conn[d].loop = l /\ conn[d].fd = conn[tasks[l][i].c].fd =>
        /\ conn[d].ev = {}
        /\ \A j \in 1 .. Len(tasks[l]) : tasks[l][j] = Task("established", d) => j > i

(* Nothing has happened to a connection that is to be established. *)
Untouched(c) ==
  /\ Open(c)
  /\ \A l \in Loops, f \in Fds : chans[l][f] # c
  /\ \A l \in Loops : active[l][c] = {}
  /\ \A l \in Loops : \A i \in 1 .. Len(tasks[l]) :
       tasks[l][i].c = c => tasks[l][i].op \in {"enable", "established"}

EstablishInv ==
  /\ \A l \in Loops : \A i \in 1 .. Len(tasks[l]) : tasks[l][i].op = "established" =>
       /\ Untouched(tasks[l][i].c)
       /\ \A j \in 1 .. Len(tasks[l]) : tasks[l][j] = tasks[l][i] => j = i
  /\ creating = "establish" =>
       /\ Untouched(newest)
       /\ \A l \in Loops : \A i \in 1 .. Len(tasks[l]) : tasks[l][i] # Task("established", newest)

(* An open connection is in the server's map or about to be inserted; only *)
(* closed ones are erased.                                                 *)
OwnedInv ==
  /\ \A c \in Conns : Open(c) => \/ c \in conns
                                 \/ c = newest /\ creating \in {"establish", "insert"}
  /\ \A l \in Loops : \A i \in 1 .. Len(tasks[l]) :
       tasks[l][i].op = "remove" => ~Open(tasks[l][i].c)

ServedInv ==
  /\ CoreInv
  /\ ReleaseInv
  /\ StaleInv
  /\ EstablishInv
  /\ OwnedInv
  /\ EstablishedIsServed

-----------------------------------------------------------------------------
(* The task queues.                                                        *)

(* The first d tasks of the queue of l are gone, the others are kept. *)
Kept(l, d) ==
  /\ Len(tasks'[l]) >= Len(tasks[l]) - d
  /\ \A i \in 1 .. Len(tasks[l]) - d : tasks'[l][i] = tasks[l][i + d]

(* Why a task may appear in the queue of l. *)
NewRelease(l, c) ==
  /\ phase[l] = "handlers" /\ phase'[l] = "handlers" /\ conn[c].loop = l /\ c <= newest
  /\ (active[l][c] # {} /\ active'[l][c] = {}) \/ timer[c].armed # {}

NewRemove(l, c) ==
  /\ l = Base /\ c <= newest /\ ~Open(c)'
  /\ \E k \in Loops : k # Base /\ phase[k] = "tasks" /\ tasks[k][1] = Task("release", c)

NewEnable(l, c) ==
  /\ EnableCnt > 0 /\ c = newest + 1 /\ newest' = c
  /\ conn'[c].loop = l /\ timer'[c] = NoTimers
  /\ tasks' = [tasks EXCEPT ![l] = Append(@, Task("enable", c))]

NewEstablished(l, c) ==
  /\ creating = "establish" /\ creating' = "insert"
  /\ c = newest /\ conn[c].loop = l /\ l # Base
  /\ tasks' = [tasks EXCEPT ![l] = Append(@, Task("established", c))]

WhyNew(l, x) ==
  \E c \in Conns :
    \/ x = Task("release", c) /\ NewRelease(l, c)
    \/ x = Task("remove", c) /\ NewRemove(l, c)
    \/ x = Task("enable", c) /\ NewEnable(l, c)
    \/ x = Task("established", c) /\ NewEstablished(l, c)

NewTask(l, i) == \E x \in TaskRecord : x = tasks'[l][i] /\ WhyNew(l, x)

(* At most one task is taken from a queue, by the loop that runs it. *)
QueueStep(l) ==
  \/ /\ phase[l] = "tasks" /\ Len(tasks[l]) >= 1
     /\ batch'[l] = batch[l] - 1
     /\ phase'[l] = IF batch[l] = 1 THEN "poll" ELSE "tasks"
     /\ Kept(l, 1)
     /\ \A i \in Len(tasks[l]) .. Len(tasks'[l]) : NewTask(l, i)
  \/ /\ phase[l] = "tasks" => phase'[l] = "tasks" /\ batch'[l] = batch[l]
     /\ phase[l] # "tasks" /\ phase'[l] = "tasks" =>
          batch'[l] = Len(tasks[l]) /\ Len(tasks[l]) >= 1
     /\ phase[l] = "handlers" /\ phase'[l] = "poll" => Len(tasks[l]) = 0
     /\ Kept(l, 0)
     /\ \A i \in Len(tasks[l]) + 1 .. Len(tasks'[l]) : NewTask(l, i)

(* Facts of sequences, once. *)
LEMMA TailElements ==
  ASSUME NEW T, NEW s \in Seq(T), s # <<>>
  PROVE  /\ Len(s) \in Nat /\ Len(s) >= 1 /\ Head(s) = s[1] /\ s[1] \in T
         /\ Tail(s) \in Seq(T) /\ Len(Tail(s)) = Len(s) - 1
         /\ \A i \in 1 .. Len(s) - 1 : Tail(s)[i] = s[i + 1]
  OBVIOUS

LEMMA AppendElements ==
  ASSUME NEW T, NEW s \in Seq(T), NEW x \in T
  PROVE  /\ Append(s, x) \in Seq(T) /\ Len(Append(s, x)) = Len(s) + 1
         /\ \A i \in 1 .. Len(s) : Append(s, x)[i] = s[i]
         /\ Append(s, x)[Len(s) + 1] = x
  OBVIOUS

LEMMA ConcatElements ==
  ASSUME NEW T, NEW s \in Seq(T), NEW n \in Nat, NEW x \in T
  PROVE  LET r == s \o [i \in 1 .. n |-> x]
         IN  /\ r \in Seq(T) /\ Len(r) = Len(s) + n
             /\ \A i \in 1 .. Len(s) : r[i] = s[i]
             /\ \A i \in Len(s) + 1 .. Len(r) : r[i] = x
  <1>. DEFINE q == [i \in 1 .. n |-> x]
  <1>1. q \in Seq(T) /\ Len(q) = n
    OBVIOUS
  <1>2. \A i \in 1 .. n : q[i] = x
    OBVIOUS
  <1>. HIDE DEF q
  <1>3. s \o q \in Seq(T) /\ Len(s \o q) = Len(s) + n
    BY <1>1
  <1>4. \A i \in 1 .. Len(s) : (s \o q)[i] = s[i]
    BY <1>1
  <1>5. \A i \in Len(s) + 1 .. Len(s) + n : (s \o q)[i] = q[i - Len(s)] /\ i - Len(s) \in 1 .. n
    BY <1>1
  <1>. QED  BY <1>2, <1>3, <1>4, <1>5 DEF q

-----------------------------------------------------------------------------
(* The steps, with what the invariant says of them.                        *)

Statuses == {"CONNECTING", "CONNECTED", "DISCONNECTING", "DISCONNECTED"}

(* An open connection has been accepted. *)
LEMMA OpenIsBorn ==
  ASSUME ServerAssumption, CoreInv, NEW c \in Conns, Open(c)
  PROVE  c <= newest /\ conn[c] \in ConnRecord /\ conn[c].fd \in Fds /\ conn[c].status \in Statuses
  <1>1. c \in Int /\ newest \in Int
    BY DEF CoreInv, TypeOK, Conns, ServerAssumption
  <1>2. ~(c > newest)
    BY DEF CoreInv, BornInv, Open, Unborn
  <1>3. conn[c] \in ConnRecord
    BY DEF CoreInv, TypeOK, ConnRecord
  <1>4. conn[c].fd \in Fds /\ conn[c].status # "UNBORN"
    BY <1>1, <1>2 DEF CoreInv, BornInv
  <1>. QED  BY <1>1, <1>2, <1>3, <1>4 DEF ConnRecord, Statuses

(* The loop takes a task of c, the first of its queue. *)
TaskStep(l, op, c) ==
  /\ Head(tasks[l]) = Task(op, c) /\ tasks[l][1] = Task(op, c)
  /\ Head(tasks[l]).c = c
  /\ c <= newest /\ newest >= 1
  /\ op # "remove" => conn[c].loop = l
  /\ phase[l] = "tasks" /\ batch[l] \in 1 .. Len(tasks[l])
  /\ Len(tasks[l]) \in Nat /\ Len(tasks[l]) >= 1
  /\ Tail(tasks[l]) \in Seq(TaskRecord) /\ Len(Tail(tasks[l])) = Len(tasks[l]) - 1
  /\ \A i \in 1 .. Len(tasks[l]) - 1 : Tail(tasks[l])[i] = tasks[l][i + 1]
  /\ batch' = [batch EXCEPT ![l] = @ - 1]
  /\ phase' = [phase EXCEPT ![l] = IF batch[l] = 1 THEN "poll" ELSE "tasks"]

LEMMA TakesFacts ==
  ASSUME ServerAssumption, CoreInv, NEW l \in Loops, NEW op, Takes(l, op)
  PROVE  \E c \in Conns : TaskStep(l, op, c)
  <1>1. tasks[l] \in Seq(TaskRecord)
    BY DEF CoreInv, TypeOK, TaskRecord
  <1>2. phase[l] = "tasks" /\ Head(tasks[l]).op = op
    BY DEF Takes
  <1>3. batch[l] \in 1 .. Len(tasks[l]) /\ tasks[l] # <<>>
    BY <1>1, <1>2 DEF CoreInv, BatchInv
  <1>4. /\ Len(tasks[l]) \in Nat /\ Len(tasks[l]) >= 1
        /\ Head(tasks[l]) = tasks[l][1] /\ tasks[l][1] \in TaskRecord
        /\ Tail(tasks[l]) \in Seq(TaskRecord) /\ Len(Tail(tasks[l])) = Len(tasks[l]) - 1
        /\ \A i \in 1 .. Len(tasks[l]) - 1 : Tail(tasks[l])[i] = tasks[l][i + 1]
    BY <1>1, <1>3, TailElements
  <1>5. PICK c \in Conns : c = tasks[l][1].c
    BY <1>4 DEF TaskRecord
  <1>6. tasks[l][1] = Task(op, c)
    BY <1>2, <1>4, <1>5 DEF TaskRecord, Task
  <1>7. c <= newest /\ (op # "remove" => conn[c].loop = l)
    BY <1>4, <1>5, <1>6 DEF CoreInv, TaskInv, Task
  <1>8. newest >= 1
    BY <1>7 DEF Conns, CoreInv, TypeOK, ServerAssumption
  <1>. QED  BY <1>2, <1>3, <1>4, <1>5, <1>6, <1>7, <1>8 DEF Takes, TaskStep

(* The loop handles the events of c, whose handlers return r. *)
EventStep(l, c, r) ==
  /\ phase[l] = "handlers" /\ active[l][c] # {}
  /\ conn' = [conn EXCEPT ![c] = [r EXCEPT !.releases = 0]]
  /\ IF r.ev # conn[c].ev THEN UpdateEvent(l, conn[c].fd, c, r.ev)
                          ELSE UNCHANGED <<chans, epoll>>
  /\ tasks' = [tasks EXCEPT ![l] = @ \o [i \in 1 .. r.releases |-> Task("release", c)]]
  /\ active' = [active EXCEPT ![l][c] = {}]
  /\ errno' \in [Loops -> {"again", "other"}]
  /\ rx' \in [Conns -> BOOLEAN] /\ full' \in [Conns -> BOOLEAN]
  /\ UNCHANGED <<timer, gone, phase, batch, baseVars>>

(* HanderEvent is a step of the handlers' result. *)
LEMMA HanderEventIs ==
  ASSUME ServerAssumption, CoreInv, NEW l \in Loops, HanderEvent(l)
  PROVE  \E c \in Conns, m1 \in Reactions, m2 \in Reactions, all \in BOOLEAN :
           LET r == HanderEvents(conn[c], c, errno[l], active[l][c], m1, m2, all) IN
           /\ r \in Handled(Statuses, conn[c].fd, conn[c].loop, conn[c].open, conn[c].closes)
           /\ EventStep(l, c, r)
  <1>1. PICK c \in Conns, m1 \in Reactions, m2 \in Reactions,
             all \in (IF Partial THEN BOOLEAN ELSE {TRUE}) :
          LET rev == active[l][c]
              r == HanderEvents(conn[c], c, errno[l], rev, m1, m2, all)
              releases == [i \in 1 .. r.releases |-> Task("release", c)]
          IN
          /\ phase[l] = "handlers" /\ rev # {}
          /\ conn' = [conn EXCEPT ![c] = [r EXCEPT !.releases = 0]]
          /\ IF r.ev # conn[c].ev THEN UpdateEvent(l, r.fd, c, r.ev)
                                  ELSE UNCHANGED <<chans, epoll>>
          /\ tasks' = [tasks EXCEPT ![l] = @ \o releases]
          /\ active' = [active EXCEPT ![l][c] = {}]
          /\ errno' = [errno EXCEPT ![l] = ErrnoAfter(c, @)]
          /\ rx' = [rx EXCEPT ![c] = @ /\ "in" \notin rev]
          /\ full' = [full EXCEPT ![c] = @ \/ (~all /\ "out" \in rev /\ r.out = 1)]
          /\ UNCHANGED <<timer, gone, phase, batch, baseVars>>
    BY DEF HanderEvent
  <1>. DEFINE r == HanderEvents(conn[c], c, errno[l], active[l][c], m1, m2, all)
              H == Handled(Statuses, conn[c].fd, conn[c].loop, conn[c].open, conn[c].closes)
  <1>2. Open(c)
    BY <1>1 DEF CoreInv, ActiveInv
  <1>3. conn[c] \in H
    BY <1>2, OpenIsBorn DEF ConnRecord, Handled
  <1>4. "DISCONNECTING" \in Statuses /\ all \in BOOLEAN /\ rx[c] \in BOOLEAN
    BY DEF Statuses, CoreInv, TypeOK
  <1>5. r \in H
    BY <1>3, <1>4, HanderEventsHandled
  <1>6. r.fd = conn[c].fd
    BY <1>5 DEF Handled
  <1>7. errno' \in [Loops -> {"again", "other"}]
    <2>1. ErrnoAfter(c, errno[l]) \in {"again", "other"}
      BY DEF ErrnoAfter, CoreInv, TypeOK
    <2>. QED  BY <1>1, <2>1 DEF CoreInv, TypeOK
  <1>8. rx' \in [Conns -> BOOLEAN]
    BY <1>1 DEF CoreInv, TypeOK
  <1>9. full' \in [Conns -> BOOLEAN]
    <2>. HIDE DEF r
    <2>. QED  BY <1>1 DEF CoreInv, TypeOK
  <1>10. /\ phase[l] = "handlers" /\ active[l][c] # {}
         /\ conn' = [conn EXCEPT ![c] = [r EXCEPT !.releases = 0]]
         /\ IF r.ev # conn[c].ev THEN UpdateEvent(l, r.fd, c, r.ev)
                                 ELSE UNCHANGED <<chans, epoll>>
         /\ tasks' = [tasks EXCEPT ![l] = @ \o [i \in 1 .. r.releases |-> Task("release", c)]]
         /\ active' = [active EXCEPT ![l][c] = {}]
         /\ UNCHANGED <<timer, gone, phase, batch, baseVars>>
    BY <1>1
  <1>11. r \in H /\ EventStep(l, c, r)
    <2>. HIDE DEF r
    <2>. QED  BY <1>5, <1>6, <1>7, <1>8, <1>9, <1>10 DEF EventStep
  <1>. QED  BY <1>4, <1>11

(* What the handlers of an event leave of a connection. *)
LEMMA HanderEventFacts ==
  ASSUME ServerAssumption, CoreInv, NEW l \in Loops, HanderEvent(l)
  PROVE  \E c \in Conns :
         \E r \in Handled(Statuses, conn[c].fd, conn[c].loop, conn[c].open, conn[c].closes) :
           EventStep(l, c, r)
  BY HanderEventIs

(* The poller's calls keep the types of its map and the epoll set. *)
LEMMA UpdateEventTyped ==
  ASSUME TypeOK, NEW l \in Loops, NEW f \in Fds, NEW c \in Conns,
         NEW ev \in SUBSET {"in", "out"}, UpdateEvent(l, f, c, ev)
  PROVE  /\ chans' \in [Loops -> [Fds -> Conns \union {NoConn}]]
         /\ epoll' \in [Loops -> [Fds -> (SUBSET {"in", "out"}) \union {Off}]]
  <1>1. chans' \in [Loops -> [Fds -> Conns \union {NoConn}]]
    <2>. DEFINE C == Conns \union {NoConn}
    <2>1. c \in C /\ chans \in [Loops -> [Fds -> C]]
      BY DEF TypeOK
    <2>2. chans' = chans \/ chans' = [chans EXCEPT ![l][f] = c]
      BY DEF UpdateEvent
    <2>. HIDE DEF C
    <2>3. chans' \in [Loops -> [Fds -> C]]
      BY <2>1, <2>2
    <2>. QED  BY <2>3 DEF C
  <1>. DEFINE S == (SUBSET {"in", "out"}) \union {Off}
              v == IF chans[l][f] = NoConn THEN ev
                   ELSE IF epoll[l][f] = Off THEN Off ELSE ev
  <1>2. v \in S /\ epoll \in [Loops -> [Fds -> S]]
    BY DEF TypeOK
  <1>3. epoll' = [epoll EXCEPT ![l][f] = v]
    BY DEF UpdateEvent
  <1>. HIDE DEF S, v
  <1>4. epoll' \in [Loops -> [Fds -> S]]
    BY <1>2, <1>3
  <1>. QED  BY <1>1, <1>4 DEF S

LEMMA RemoveEventTyped ==
  ASSUME TypeOK, NEW l \in Loops, NEW f \in Fds, NEW closing \in BOOLEAN, RemoveEvent(l, f, closing)
  PROVE  /\ chans' \in [Loops -> [Fds -> Conns \union {NoConn}]]
         /\ epoll' \in [Loops -> [Fds -> (SUBSET {"in", "out"}) \union {Off}]]
  <1>1. chans' \in [Loops -> [Fds -> Conns \union {NoConn}]]
    BY DEF RemoveEvent, TypeOK
  <1>2. \A k \in Loops : [epoll[k] EXCEPT ![f] = Off] \in [Fds -> (SUBSET {"in", "out"}) \union {Off}]
    BY DEF TypeOK
  <1>3. epoll' \in [Loops -> [Fds -> (SUBSET {"in", "out"}) \union {Off}]]
    BY <1>2 DEF RemoveEvent, TypeOK
  <1>. QED  BY <1>1, <1>3

(* A timer object more, a cancelled one, and one that is gone. *)
LEMMA TimersTyped ==
  ASSUME ServerAssumption, NEW t \in TimerRecord
  PROVE  /\ t.enables < EnableCnt => WithTimer(t) \in TimerRecord
         /\ Canceled(t) \in TimerRecord
         /\ \A k \in 1 .. EnableCnt :
              Destroyed(t, k) \in TimerRecord
  <1>1. \A a, b \in SUBSET (1 .. EnableCnt), e, n \in 0 .. EnableCnt :
          [t EXCEPT !.enables = n, !.armed = a, !.entry = e] \in TimerRecord
    BY DEF TimerRecord
  <1>2. \A a, b \in SUBSET (1 .. EnableCnt), e \in 0 .. EnableCnt :
          [t EXCEPT !.armed = a, !.canceled = b, !.entry = e] \in TimerRecord
    BY DEF TimerRecord
  <1>3. t.armed \in SUBSET (1 .. EnableCnt) /\ t.canceled \in SUBSET (1 .. EnableCnt)
        /\ t.enables \in 0 .. EnableCnt /\ t.entry \in 0 .. EnableCnt
    BY DEF TimerRecord
  <1>4. ASSUME t.enables < EnableCnt PROVE WithTimer(t) \in TimerRecord
    <2>. DEFINE k == t.enables + 1
    <2>1. k \in 1 .. EnableCnt /\ k \in 0 .. EnableCnt /\ EnableCnt \in Nat
      BY <1>3, <1>4 DEF ServerAssumption
    <2>2. t.armed \union {k} \in SUBSET (1 .. EnableCnt)
      BY <1>3, <2>1
    <2>. QED  BY <1>1, <2>1, <2>2 DEF WithTimer
  <1>5. Canceled(t) \in TimerRecord
    <2>1. \A b \in SUBSET (1 .. EnableCnt) : [t EXCEPT !.canceled = b] \in TimerRecord
      BY DEF TimerRecord
    <2>2. t.entry # 0 => t.canceled \union {t.entry} \in SUBSET (1 .. EnableCnt)
      BY <1>3 DEF ServerAssumption
    <2>. QED  BY <2>1, <2>2 DEF Canceled
  <1>6. \A k \in 1 .. EnableCnt :
          Destroyed(t, k) \in TimerRecord
    <2>1. PICK z \in 0 .. EnableCnt : z = 0
      BY DEF ServerAssumption
    <2>2. \A k \in 1 .. EnableCnt : t.armed \ {k} \in SUBSET (1 .. EnableCnt)
                                    /\ t.canceled \ {k} \in SUBSET (1 .. EnableCnt)
      BY <1>3
    <2>3. \A k \in 1 .. EnableCnt :
            [t EXCEPT !.armed = @ \ {k}, !.canceled = @ \ {k}, !.entry = z] \in TimerRecord
      BY <1>2, <2>2
    <2>. QED  BY <2>1, <2>3 DEF Destroyed
  <1>. QED  BY <1>4, <1>5, <1>6

(* What a handler or a task makes of a connection. *)
LEMMA HandledTyped ==
  ASSUME NEW c \in Conns, conn[c] \in ConnRecord,
         NEW r \in Handled(Statuses, conn[c].fd, conn[c].loop, conn[c].open, conn[c].closes)
  PROVE  [r EXCEPT !.releases = 0] \in ConnRecord
  BY DEF Handled, ConnRecord, Statuses

LEMMA ReleasedTyped ==
  ASSUME NEW r \in ConnRecord
  PROVE  Closed(r) \in ConnRecord
  <1>1. \A s \in {"UNBORN", "CONNECTING", "CONNECTED", "DISCONNECTING", "DISCONNECTED"},
           n \in 0 .. 2, o \in BOOLEAN :
          [r EXCEPT !.status = s, !.open = o, !.closes = n] \in ConnRecord
    BY DEF ConnRecord
  <1>2. (IF r.closes < 2 THEN r.closes + 1 ELSE r.closes) \in 0 .. 2
    BY DEF ConnRecord
  <1>3. PICK o \in BOOLEAN : o = FALSE
    OBVIOUS
  <1>4. [r EXCEPT !.status = "DISCONNECTED", !.open = o,
                  !.closes = IF @ < 2 THEN @ + 1 ELSE @] \in ConnRecord
    BY <1>1, <1>2
  <1>. QED  BY <1>3, <1>4 DEF Closed

LEMMA AcceptedTyped ==
  ASSUME ServerAssumption, NEW f \in Fds, NEW l \in Loops
  PROVE  [Unborn EXCEPT !.status = "CONNECTING", !.fd = f, !.loop = l, !.open = TRUE] \in ConnRecord
  <1>1. Unborn \in ConnRecord
    BY DEF Unborn, ConnRecord, Loops, ServerAssumption
  <1>2. \A o \in BOOLEAN : [Unborn EXCEPT !.status = "CONNECTING", !.fd = f, !.loop = l, !.open = o] \in ConnRecord
    BY <1>1 DEF ConnRecord
  <1>3. PICK o \in BOOLEAN : o = TRUE
    OBVIOUS
  <1>. QED  BY <1>2, <1>3

LEMMA NextLoop ==
  ASSUME ServerAssumption, TypeOK
  PROVE  /\ Get_Next_EventLoop \in Loops
         /\ WorkerCnt # 0 => Get_Next_EventLoop - 1 \in Nat
  <1>1. CASE WorkerCnt = 0
    BY <1>1 DEF Get_Next_EventLoop, Loops, Base
  <1>2. CASE WorkerCnt # 0
    <2>1. WorkerCnt \in Nat /\ WorkerCnt >= 1 /\ next + 1 \in Nat
      BY <1>2 DEF ServerAssumption, TypeOK
    <2>2. (next + 1) % WorkerCnt \in 0 .. WorkerCnt - 1
      BY <2>1
    <2>. QED  BY <1>2, <2>1, <2>2 DEF Get_Next_EventLoop, Loops
  <1>. QED  BY <1>1, <1>2

LEMMA ReventsTyped ==
  ASSUME NEW c, NEW mask, mask # Off => mask \in SUBSET {"in", "out"}
  PROVE  Revents(c, mask) \in SUBSET {"in", "out", "hup", "err"}
  <1>1. CASE mask = Off
    BY <1>1 DEF Revents
  <1>2. CASE mask # Off
    BY <1>2 DEF Revents
  <1>. QED  BY <1>1, <1>2

(* Every step keeps the types. *)
LEMMA TypeStep ==
  ASSUME ServerAssumption, CoreInv, [Next]_vars
  PROVE  TypeOK'
  <1>. USE DEF kernelVars, loopVars, baseVars
  <1>0. TypeOK
    BY DEF CoreInv
  <1>1. ASSUME NEW c \in Conns, DataArrives(c) PROVE TypeOK'
    BY <1>0, <1>1 DEF TypeOK, DataArrives
  <1>2. ASSUME NEW c \in Conns, PeerLeaves(c) PROVE TypeOK'
    BY <1>0, <1>2 DEF TypeOK, PeerLeaves
  <1>3. ASSUME NEW c \in Conns, SendBufferDrains(c) PROVE TypeOK'
    BY <1>0, <1>3 DEF TypeOK, SendBufferDrains
  <1>4. ASSUME NEW l \in Loops, Poll(l) PROVE TypeOK'
    <2>1. \A c \in Conns :
            Reported(l)[c] \in SUBSET {"in", "out", "hup", "err"}
      <3>1. \A f \in Fds : epoll[l][f] # Off => epoll[l][f] \in SUBSET {"in", "out"}
        BY <1>0, <1>4 DEF TypeOK
      <3>2. \A o \in Conns, f \in Fds :
              Revents(o, epoll[l][f]) \in SUBSET {"in", "out", "hup", "err"}
        BY <3>1, ReventsTyped
      <3>. TAKE c \in Conns
      <3>. DEFINE Q == {Revents(o, epoll[l][f]) :
                          f \in {g \in Fds : chans[l][g] = c}, o \in Owner(conn[c].fd)}
      <3>3. Owner(conn[c].fd) \subseteq Conns
        BY DEF Owner
      <3>4. \A q \in Q : q \in SUBSET {"in", "out", "hup", "err"}
        BY <3>2, <3>3
      <3>5. Reported(l)[c] = UNION Q
        BY DEF Reported
      <3>. HIDE DEF Q
      <3>. QED  BY <3>4, <3>5
    <2>2. Reported(l) \in [Conns -> SUBSET {"in", "out", "hup", "err"}]
      BY <2>1 DEF Reported
    <2>. QED  BY <1>0, <1>4, <2>2 DEF TypeOK, Poll
  <1>5. ASSUME NEW l \in Loops, PollInterrupted(l) PROVE TypeOK'
    BY <1>0, <1>5 DEF TypeOK, PollInterrupted
  <1>6. ASSUME NEW l \in Loops, HanderEvent(l) PROVE TypeOK'
    <2>0. PICK c \in Conns :
            \E r \in Handled(Statuses, conn[c].fd, conn[c].loop, conn[c].open, conn[c].closes) :
              EventStep(l, c, r)
      BY <1>6, HanderEventFacts
    <2>1. PICK r \in Handled(Statuses, conn[c].fd, conn[c].loop, conn[c].open, conn[c].closes) :
            EventStep(l, c, r)
      BY <2>0
    <2>. USE DEF EventStep
    <2>2. Open(c) /\ r.releases \in Nat /\ r.ev \in SUBSET {"in", "out"}
      BY <2>1 DEF CoreInv, ActiveInv, Handled
    <2>3. conn[c].fd \in Fds /\ conn[c] \in ConnRecord
      BY <2>2, OpenIsBorn
    <2>4. conn' \in [Conns -> ConnRecord]
      BY <1>0, <2>1, <2>3, HandledTyped DEF TypeOK
    <2>5. /\ chans' \in [Loops -> [Fds -> Conns \union {NoConn}]]
          /\ epoll' \in [Loops -> [Fds -> (SUBSET {"in", "out"}) \union {Off}]]
      BY <1>0, <2>1, <2>2, <2>3, UpdateEventTyped DEF TypeOK
    <2>6. tasks' \in [Loops -> Seq(TaskRecord)]
      <3>1. Task("release", c) \in TaskRecord /\ tasks[l] \in Seq(TaskRecord)
        BY <1>0 DEF TypeOK, Task, TaskRecord
      <3>2. tasks[l] \o [i \in 1 .. r.releases |-> Task("release", c)] \in Seq(TaskRecord)
        BY <3>1, <2>2, ConcatElements
      <3>. QED  BY <1>0, <2>1, <3>2 DEF TypeOK
    <2>7. active' \in [Loops -> [Conns -> SUBSET {"in", "out", "hup", "err"}]]
      BY <1>0, <2>1 DEF TypeOK
    <2>. QED  BY <1>0, <2>1, <2>4, <2>5, <2>6, <2>7 DEF TypeOK
  <1>7. ASSUME NEW l \in Loops, EnableTimeoutDel(l) PROVE TypeOK'
    <2>1. PICK c \in Conns : /\ timer[c].enables \in 1 .. EnableCnt - 1
                             /\ timer' = [timer EXCEPT ![c] = WithTimer(@)]
                             /\ UNCHANGED <<conn, chans, epoll, errno, kernelVars, loopVars, baseVars>>
      BY <1>7 DEF EnableTimeoutDel
    <2>2. timer[c] \in TimerRecord /\ timer[c].enables < EnableCnt
      BY <1>0, <2>1 DEF TypeOK, ServerAssumption
    <2>3. timer' \in [Conns -> TimerRecord]
      BY <1>0, <2>1, <2>2, TimersTyped DEF TypeOK
    <2>. QED  BY <1>0, <2>1, <2>3 DEF TypeOK
  <1>8. ASSUME NEW l \in Loops, ExcuteTimer(l) PROVE TypeOK'
    <2>0. PICK c \in Conns : \E k \in timer[c].armed :
            /\ tasks' = IF k \in timer[c].canceled
                        THEN tasks
                        ELSE [tasks EXCEPT ![l] = Append(@, Task("release", c))]
            /\ timer' = [timer EXCEPT ![c] = Destroyed(@, k)]
            /\ UNCHANGED <<conn, chans, epoll, errno, kernelVars, phase, active, batch, baseVars>>
      BY <1>8 DEF ExcuteTimer
    <2>1. PICK k \in timer[c].armed :
            /\ tasks' = IF k \in timer[c].canceled
                        THEN tasks
                        ELSE [tasks EXCEPT ![l] = Append(@, Task("release", c))]
            /\ timer' = [timer EXCEPT ![c] = Destroyed(@, k)]
            /\ UNCHANGED <<conn, chans, epoll, errno, kernelVars, phase, active, batch, baseVars>>
      BY <2>0
    <2>2. timer[c] \in TimerRecord /\ timer[c].armed \in SUBSET (1 .. EnableCnt)
      BY <1>0 DEF TypeOK, TimerRecord
    <2>3. timer' \in [Conns -> TimerRecord]
      <3>1. k \in 1 .. EnableCnt
        BY <2>1, <2>2
      <3>2. Destroyed(timer[c], k) \in TimerRecord
        BY <2>2, <3>1, TimersTyped
      <3>. QED  BY <1>0, <2>1, <3>2 DEF TypeOK
    <2>4. Task("release", c) \in TaskRecord
      BY DEF Task, TaskRecord
    <2>5. tasks' \in [Loops -> Seq(TaskRecord)]
      BY <1>0, <2>1, <2>4, AppendElements DEF TypeOK
    <2>. QED  BY <1>0, <2>1, <2>3, <2>5 DEF TypeOK
  <1>9. ASSUME NEW l \in Loops, SwapTasks(l) PROVE TypeOK'
    <2>1. Len(tasks[l]) \in Nat
      BY <1>0 DEF TypeOK
    <2>. QED  BY <1>0, <1>9, <2>1 DEF TypeOK, SwapTasks
  <1>10. ASSUME NEW l \in Loops, NEW op, Takes(l, op)
         PROVE  /\ phase' \in [Loops -> {"poll", "handlers", "tasks"}]
                /\ batch' \in [Loops -> Nat]
                /\ Rest(l) \in [Loops -> Seq(TaskRecord)]
                /\ Head(tasks[l]).c \in Conns /\ Head(tasks[l]).c <= newest
                /\ conn[Head(tasks[l]).c].fd \in Fds
    <2>1. PICK c \in Conns : TaskStep(l, op, c)
      BY <1>10, TakesFacts
    <2>2. batch[l] - 1 \in Nat
      BY <2>1 DEF TaskStep
    <2>. QED  BY <1>0, <2>1, <2>2 DEF TypeOK, Rest, CoreInv, BornInv, TaskStep
  <1>11. ASSUME NEW l \in Loops, RunEnable(l) PROVE TypeOK'
    <2>. DEFINE c == Head(tasks[l]).c
    <2>1. Takes(l, "enable") /\ timer' = [timer EXCEPT ![c] = WithTimer(@)] /\ tasks' = Rest(l)
          /\ UNCHANGED <<conn, chans, epoll, errno, kernelVars, active, baseVars>>
      BY <1>11 DEF RunEnable
    <2>2. PICK d \in Conns : TaskStep(l, "enable", d)
      BY <2>1, TakesFacts
    <2>3. EnableCnt > 0 /\ timer[d].enables = 0 /\ timer[d] \in TimerRecord
      <3>1. 1 \in 1 .. Len(tasks[l]) /\ tasks[l][1].op = "enable" /\ tasks[l][1].c = d
        BY <2>2 DEF TaskStep, Task
      <3>2. EnableCnt > 0 /\ timer[tasks[l][1].c].enables = 0
        BY <3>1 DEF CoreInv, EnableInv
      <3>. QED  BY <1>0, <3>1, <3>2 DEF TypeOK
    <2>4. timer' \in [Conns -> TimerRecord]
      BY <1>0, <2>1, <2>2, <2>3, TimersTyped DEF TypeOK, TaskStep
    <2>. QED  BY <1>0, <1>10, <2>1, <2>4 DEF TypeOK
  <1>12. ASSUME NEW c \in Conns, conn[c].fd \in Fds, EstablishedInLoop(c)
         PROVE  /\ conn' \in [Conns -> ConnRecord]
                /\ chans' \in [Loops -> [Fds -> Conns \union {NoConn}]]
                /\ epoll' \in [Loops -> [Fds -> (SUBSET {"in", "out"}) \union {Off}]]
    <2>1. conn[c] \in ConnRecord /\ conn[c].loop \in Loops
      BY <1>0 DEF TypeOK, ConnRecord
    <2>2. [conn[c] EXCEPT !.ev = {"in"}] \in ConnRecord
      BY <2>1 DEF ConnRecord
    <2>3. CASE conn[c].status = "CONNECTING"
      <3>1. conn' = [conn EXCEPT ![c] = [conn[c] EXCEPT !.ev = {"in"}]]
        BY <1>12, <2>3 DEF EstablishedInLoop
      <3>2. conn' \in [Conns -> ConnRecord]
        BY <1>0, <2>2, <3>1 DEF TypeOK
      <3>. QED  BY <1>0, <1>12, <2>1, <2>3, <3>2, UpdateEventTyped DEF EstablishedInLoop
    <2>4. CASE conn[c].status # "CONNECTING"
      BY <1>0, <1>12, <2>4 DEF TypeOK, EstablishedInLoop
    <2>. QED  BY <2>3, <2>4
  <1>13. ASSUME NEW l \in Loops, RunEstablished(l) PROVE TypeOK'
    BY <1>0, <1>10, <1>12, <1>13 DEF TypeOK, RunEstablished
  <1>14. ASSUME NEW l \in Loops, ReleaseInloop(l) PROVE TypeOK'
    <2>. DEFINE c == Head(tasks[l]).c
    <2>1. /\ Takes(l, "release")
          /\ conn' = [conn EXCEPT ![c] = Closed(@)]
          /\ RemoveEvent(l, conn[c].fd, Open(c))
          /\ timer' = [timer EXCEPT ![c] = Canceled(@)]
          /\ rx' = [rx EXCEPT ![c] = FALSE]
          /\ full' = [full EXCEPT ![c] = FALSE]
          /\ RemoveConnection(l, c)
          /\ UNCHANGED <<errno, gone, active, next, newest, creating>>
      BY <1>14 DEF ReleaseInloop
    <2>2. c \in Conns /\ conn[c].fd \in Fds
      BY <1>10, <2>1
    <2>. HIDE DEF c
    <2>3. conn[c] \in ConnRecord /\ timer[c] \in TimerRecord /\ Open(c) \in BOOLEAN
      BY <1>0, <2>2 DEF TypeOK, Open, ConnRecord
    <2>4. conn' \in [Conns -> ConnRecord]
      BY <1>0, <2>1, <2>2, <2>3, ReleasedTyped DEF TypeOK
    <2>5. timer' \in [Conns -> TimerRecord]
      BY <1>0, <2>1, <2>2, <2>3, TimersTyped DEF TypeOK
    <2>6. /\ chans' \in [Loops -> [Fds -> Conns \union {NoConn}]]
          /\ epoll' \in [Loops -> [Fds -> (SUBSET {"in", "out"}) \union {Off}]]
      BY <1>0, <2>1, <2>2, <2>3, RemoveEventTyped
    <2>7. tasks' \in [Loops -> Seq(TaskRecord)] /\ conns' \in SUBSET Conns
      <3>1. Rest(l) \in [Loops -> Seq(TaskRecord)]
        BY <1>10, <2>1
      <3>2. Task("remove", c) \in TaskRecord /\ Base \in Loops
        BY <2>2 DEF Task, TaskRecord, Base, Loops, ServerAssumption
      <3>3. [Rest(l) EXCEPT ![Base] = Append(@, Task("remove", c))] \in [Loops -> Seq(TaskRecord)]
        BY <3>1, <3>2, AppendElements
      <3>. QED  BY <1>0, <2>1, <3>1, <3>3 DEF RemoveConnection, TypeOK
    <2>8. rx' \in [Conns -> BOOLEAN] /\ full' \in [Conns -> BOOLEAN]
      BY <1>0, <2>1, <2>2 DEF TypeOK
    <2>. QED  BY <1>0, <1>10, <2>1, <2>4, <2>5, <2>6, <2>7, <2>8 DEF TypeOK
  <1>15. ASSUME RemoveConnectionInLoop PROVE TypeOK'
    <2>1. Base \in Loops
      BY DEF Base, Loops, ServerAssumption
    <2>. QED  BY <1>0, <1>10, <1>15, <2>1 DEF TypeOK, RemoveConnectionInLoop
  <1>16. ASSUME Accept PROVE TypeOK'
    <2>. DEFINE c == newest + 1
                l == Get_Next_EventLoop
    <2>1. PICK f \in Fds :
            /\ conn' = [conn EXCEPT ![c] = [Unborn EXCEPT !.status = "CONNECTING",
                                              !.fd = f, !.loop = l, !.open = TRUE]]
            /\ creating = "accept" /\ newest' = c
            /\ next' = IF WorkerCnt = 0 THEN next ELSE l - 1
            /\ creating' = "establish"
            /\ timer' = IF EnableCnt > 0 /\ l = Base
                        THEN [timer EXCEPT ![c] = WithTimer(@)] ELSE timer
            /\ tasks' = IF EnableCnt > 0 /\ l # Base
                        THEN [tasks EXCEPT ![l] = Append(@, Task("enable", c))] ELSE tasks
            /\ UNCHANGED <<chans, epoll, errno, kernelVars, phase, active, batch, conns>>
      BY <1>16 DEF Accept
    <2>2. c \in Conns /\ newest' \in 0 .. ConnCnt /\ c > newest
      BY <1>0, <2>1 DEF CoreInv, CreatingInv, TypeOK, Conns, ServerAssumption
    <2>3. l \in Loops /\ next' \in Nat
      BY <1>0, <2>1, NextLoop DEF TypeOK
    <2>4. timer[c] \in TimerRecord /\ timer[c] = NoTimers
      BY <1>0, <2>2 DEF TypeOK, CoreInv, BornInv
    <2>. HIDE DEF c, l
    <2>5. conn' \in [Conns -> ConnRecord]
      BY <1>0, <2>1, <2>2, <2>3, AcceptedTyped DEF TypeOK
    <2>6. timer' \in [Conns -> TimerRecord]
      <3>1. EnableCnt > 0 => WithTimer(timer[c]) \in TimerRecord
        BY <2>4, TimersTyped DEF NoTimers
      <3>. QED  BY <1>0, <2>1, <2>2, <3>1 DEF TypeOK
    <2>7. tasks' \in [Loops -> Seq(TaskRecord)]
      <3>1. Task("enable", c) \in TaskRecord
        BY <2>2 DEF Task, TaskRecord
      <3>. DEFINE u == Append(tasks[l], Task("enable", c))
      <3>2. u \in Seq(TaskRecord)
        BY <1>0, <2>3, <3>1, AppendElements DEF TypeOK
      <3>3. tasks \in [Loops -> Seq(TaskRecord)]
        BY <1>0 DEF TypeOK
      <3>4. tasks' = tasks \/ tasks' = [tasks EXCEPT ![l] = u]
        BY <2>1
      <3>. HIDE DEF u
      <3>. QED  BY <2>3, <3>2, <3>3, <3>4
    <2>. QED  BY <1>0, <2>1, <2>2, <2>3, <2>5, <2>6, <2>7 DEF TypeOK
  <1>17. ASSUME AcceptFails PROVE TypeOK'
    BY <1>0, <1>17 DEF TypeOK, AcceptFails
  <1>18. ASSUME Established PROVE TypeOK'
    <2>. DEFINE l == conn[newest].loop
    <2>1. /\ creating = "establish" /\ creating' = "insert"
          /\ IF l = Base
             THEN EstablishedInLoop(newest) /\ UNCHANGED tasks
             ELSE /\ tasks' = [tasks EXCEPT ![l] = Append(@, Task("established", newest))]
                  /\ UNCHANGED <<conn, chans, epoll>>
          /\ UNCHANGED <<timer, errno, kernelVars, phase, active, batch, conns, next, newest>>
      BY <1>18 DEF Established
    <2>2. newest \in Conns /\ newest <= newest
      BY <1>0, <2>1 DEF CoreInv, CreatingInv, TypeOK, Conns, ServerAssumption
    <2>3. conn[newest] \in ConnRecord /\ conn[newest].fd \in Fds /\ l \in Loops
      BY <1>0, <2>2 DEF CoreInv, BornInv, TypeOK, ConnRecord
    <2>. HIDE DEF l
    <2>4. Task("established", newest) \in TaskRecord
      BY <2>2 DEF Task, TaskRecord
    <2>5. tasks' \in [Loops -> Seq(TaskRecord)]
      <3>. DEFINE u == Append(tasks[l], Task("established", newest))
      <3>1. u \in Seq(TaskRecord) /\ tasks \in [Loops -> Seq(TaskRecord)]
        BY <1>0, <2>3, <2>4, AppendElements DEF TypeOK
      <3>2. tasks' = tasks \/ tasks' = [tasks EXCEPT ![l] = u]
        BY <2>1
      <3>. HIDE DEF u
      <3>. QED  BY <2>3, <3>1, <3>2
    <2>6. /\ conn' \in [Conns -> ConnRecord]
          /\ chans' \in [Loops -> [Fds -> Conns \union {NoConn}]]
          /\ epoll' \in [Loops -> [Fds -> (SUBSET {"in", "out"}) \union {Off}]]
      BY <1>0, <1>12, <2>1, <2>2, <2>3 DEF TypeOK
    <2>. QED  BY <1>0, <2>1, <2>5, <2>6 DEF TypeOK
  <1>19. ASSUME Insert PROVE TypeOK'
    <2>1. newest \in Conns
      BY <1>0, <1>19 DEF CoreInv, CreatingInv, TypeOK, Conns, ServerAssumption, Insert
    <2>. QED  BY <1>0, <1>19, <2>1 DEF TypeOK, Insert
  <1>20. CASE UNCHANGED vars
    BY <1>0, <1>20 DEF TypeOK, vars
  <1>. QED
    BY <1>1, <1>2, <1>3, <1>4, <1>5, <1>6, <1>7, <1>8, <1>9, <1>11, <1>13, <1>14, <1>15, <1>16,
       <1>17, <1>18, <1>19, <1>20 DEF Next, LoopStep, BaseStep

-----------------------------------------------------------------------------
(* What a step does to the queues, the objects and the loops.              *)

LEMMA SameQueue ==
  ASSUME CoreInv, NEW l \in Loops, tasks'[l] = tasks[l],
         phase[l] = "tasks" => phase'[l] = "tasks" /\ batch'[l] = batch[l],
         phase[l] # "tasks" /\ phase'[l] = "tasks" => batch'[l] = Len(tasks[l]) /\ Len(tasks[l]) >= 1,
         phase[l] = "handlers" /\ phase'[l] = "poll" => Len(tasks[l]) = 0
  PROVE  QueueStep(l)
  <1>1. Len(tasks[l]) \in Nat
    BY DEF CoreInv, TypeOK
  <1>2. Kept(l, 0)
    BY <1>1 DEF Kept
  <1>3. \A i \in Len(tasks[l]) + 1 .. Len(tasks'[l]) : NewTask(l, i)
    BY <1>1
  <1>. QED  BY <1>2, <1>3 DEF QueueStep

LEMMA LongerQueue ==
  ASSUME CoreInv, NEW l \in Loops, phase'[l] = phase[l], batch'[l] = batch[l],
         NEW x \in TaskRecord, NEW n \in Nat,
         Len(tasks'[l]) = Len(tasks[l]) + n,
         \A i \in 1 .. Len(tasks[l]) : tasks'[l][i] = tasks[l][i],
         \A i \in Len(tasks[l]) + 1 .. Len(tasks'[l]) : tasks'[l][i] = x,
         n # 0 => WhyNew(l, x)
  PROVE  QueueStep(l)
  <1>1. Len(tasks[l]) \in Nat
    BY DEF CoreInv, TypeOK
  <1>2. Kept(l, 0)
    BY <1>1 DEF Kept
  <1>3. \A i \in Len(tasks[l]) + 1 .. Len(tasks'[l]) : NewTask(l, i)
    BY <1>1 DEF NewTask
  <1>. QED  BY <1>2, <1>3 DEF QueueStep

LEMMA AppendedQueue ==
  ASSUME CoreInv, NEW l \in Loops, NEW x \in TaskRecord,
         tasks' = [tasks EXCEPT ![l] = Append(@, x)],
         phase' = phase, batch' = batch, WhyNew(l, x)
  PROVE  \A k \in Loops : QueueStep(k)
  <1>1. tasks \in [Loops -> Seq(TaskRecord)]
    BY DEF CoreInv, TypeOK
  <1>2. tasks'[l] = Append(tasks[l], x)
    BY <1>1
  <1>3. QueueStep(l)
    BY <1>1, <1>2, AppendElements, LongerQueue
  <1>4. ASSUME NEW k \in Loops, k # l PROVE QueueStep(k)
    BY <1>1, <1>4, SameQueue
  <1>. QED  BY <1>3, <1>4

(* The task is gone from the loop's queue; queue k may get another one. *)
LEMMA ShorterQueue ==
  ASSUME ServerAssumption, CoreInv, NEW l \in Loops, NEW op, NEW c \in Conns, TaskStep(l, op, c),
         tasks'[l] = Tail(tasks[l])
  PROVE  QueueStep(l)
  <1>1. Len(tasks[l]) \in Nat
    BY DEF CoreInv, TypeOK
  <1>2. Kept(l, 1)
    BY <1>1 DEF Kept, TaskStep
  <1>3. \A i \in Len(tasks[l]) .. Len(tasks'[l]) : NewTask(l, i)
    BY <1>1 DEF TaskStep
  <1>4. batch'[l] = batch[l] - 1 /\ phase'[l] = IF batch[l] = 1 THEN "poll" ELSE "tasks"
    BY DEF TaskStep, CoreInv, TypeOK
  <1>. QED  BY <1>2, <1>3, <1>4 DEF QueueStep, TaskStep

LEMMA TakenQueue ==
  ASSUME ServerAssumption, CoreInv, NEW l \in Loops, NEW op, NEW c \in Conns, TaskStep(l, op, c),
         tasks' = Rest(l)
  PROVE  \A k \in Loops : QueueStep(k)
  <1>1. tasks'[l] = Tail(tasks[l])
    BY DEF Rest, CoreInv, TypeOK
  <1>2. ASSUME NEW k \in Loops, k # l
        PROVE  tasks'[k] = tasks[k] /\ phase'[k] = phase[k] /\ batch'[k] = batch[k]
    BY <1>2 DEF Rest, CoreInv, TypeOK, TaskStep
  <1>3. ASSUME NEW k \in Loops, k # l PROVE QueueStep(k)
    BY <1>2, <1>3, SameQueue
  <1>. QED  BY <1>1, <1>3, ShorterQueue

LEMMA QueuesStep ==
  ASSUME ServerAssumption, CoreInv, [Next]_vars
  PROVE  \A k \in Loops : QueueStep(k)
  <1>. USE DEF kernelVars, loopVars, baseVars
  <1>0. /\ tasks \in [Loops -> Seq(TaskRecord)] /\ phase \in [Loops -> {"poll", "handlers", "tasks"}]
        /\ batch \in [Loops -> Nat] /\ Base \in Loops
    BY DEF CoreInv, TypeOK, Base, Loops, ServerAssumption
  <1>1. ASSUME UNCHANGED <<tasks, phase, batch>> PROVE \A k \in Loops : QueueStep(k)
    BY <1>1, SameQueue
  <1>2. ASSUME NEW c \in Conns, DataArrives(c) \/ PeerLeaves(c) \/ SendBufferDrains(c)
        PROVE  \A k \in Loops : QueueStep(k)
    BY <1>1, <1>2 DEF DataArrives, PeerLeaves, SendBufferDrains
  <1>3. ASSUME NEW l \in Loops, Poll(l) \/ PollInterrupted(l)
        PROVE  \A k \in Loops : QueueStep(k)
    <2>1. tasks' = tasks /\ batch' = batch /\ phase[l] = "poll"
          /\ phase' = [phase EXCEPT ![l] = "handlers"]
      BY <1>3 DEF Poll, PollInterrupted
    <2>2. ASSUME NEW k \in Loops PROVE QueueStep(k)
      BY <1>0, <2>1, SameQueue
    <2>. QED  BY <2>2
  <1>4. ASSUME NEW l \in Loops, HanderEvent(l) PROVE \A k \in Loops : QueueStep(k)
    <2>0. PICK c \in Conns :
            \E r \in Handled(Statuses, conn[c].fd, conn[c].loop, conn[c].open, conn[c].closes) :
              EventStep(l, c, r)
      BY <1>4, HanderEventFacts
    <2>1. PICK r \in Handled(Statuses, conn[c].fd, conn[c].loop, conn[c].open, conn[c].closes) :
            EventStep(l, c, r)
      BY <2>0
    <2>2. /\ phase[l] = "handlers" /\ active[l][c] # {} /\ r.releases \in Nat
          /\ tasks' = [tasks EXCEPT ![l] = @ \o [i \in 1 .. r.releases |-> Task("release", c)]]
          /\ UNCHANGED <<phase, batch>>
      BY <2>1 DEF EventStep, Handled
    <2>3. Task("release", c) \in TaskRecord
      BY DEF Task, TaskRecord
    <2>4. WhyNew(l, Task("release", c))
      <3>0. phase'[l] = "handlers"
        BY <2>2
      <3>1. Open(c) /\ conn[c].loop = l
        BY <2>2 DEF CoreInv, ActiveInv
      <3>2. c <= newest
        BY <3>1, OpenIsBorn
      <3>3. active'[l][c] = {}
        BY <2>1 DEF EventStep, CoreInv, TypeOK
      <3>. QED  BY <2>2, <3>0, <3>1, <3>2, <3>3 DEF WhyNew, NewRelease
    <2>5. QueueStep(l)
      <3>. DEFINE n == r.releases
                  x == Task("release", c)
                  u == tasks[l] \o [i \in 1 .. n |-> x]
      <3>1. tasks'[l] = u
        BY <1>0, <2>2
      <3>2. n \in Nat /\ x \in TaskRecord /\ tasks[l] \in Seq(TaskRecord)
        BY <1>0, <2>2, <2>3
      <3>. HIDE DEF n, x
      <3>3. /\ Len(u) = Len(tasks[l]) + n
            /\ \A i \in 1 .. Len(tasks[l]) : u[i] = tasks[l][i]
            /\ \A i \in Len(tasks[l]) + 1 .. Len(u) : u[i] = x
        BY <3>2, ConcatElements
      <3>4. WhyNew(l, x)
        BY <2>4 DEF x
      <3>. HIDE DEF u
      <3>. QED  BY <2>2, <3>1, <3>2, <3>3, <3>4, LongerQueue
    <2>6. ASSUME NEW k \in Loops, k # l PROVE QueueStep(k)
      BY <1>0, <2>2, <2>6, SameQueue
    <2>. QED  BY <2>5, <2>6
  <1>5. ASSUME NEW l \in Loops, EnableTimeoutDel(l) PROVE \A k \in Loops : QueueStep(k)
    BY <1>1, <1>5 DEF EnableTimeoutDel
  <1>6. ASSUME NEW l \in Loops, ExcuteTimer(l) PROVE \A k \in Loops : QueueStep(k)
    <2>1. PICK c \in Conns :
            /\ timer[c].armed # {} /\ phase[l] = "handlers" /\ conn[c].loop = l
            /\ tasks' = tasks \/ tasks' = [tasks EXCEPT ![l] = Append(@, Task("release", c))]
            /\ UNCHANGED <<phase, batch>>
      BY <1>6 DEF ExcuteTimer
    <2>2. Task("release", c) \in TaskRecord
      BY DEF Task, TaskRecord
    <2>3. c <= newest
      <3>1. c \in Int /\ newest \in Int
        BY DEF CoreInv, TypeOK, Conns, ServerAssumption
      <3>. QED  BY <2>1, <3>1 DEF CoreInv, BornInv, NoTimers
    <2>4. WhyNew(l, Task("release", c))
      BY <2>1, <2>3 DEF WhyNew, NewRelease
    <2>. QED  BY <1>1, <2>1, <2>2, <2>4, AppendedQueue
  <1>7. ASSUME NEW l \in Loops, SwapTasks(l) PROVE \A k \in Loops : QueueStep(k)
    <2>1. ASSUME NEW k \in Loops PROVE QueueStep(k)
      <3>1. /\ Len(tasks[l]) \in Nat /\ (tasks[l] # <<>> => Len(tasks[l]) >= 1)
            /\ (tasks[l] = <<>> => Len(tasks[l]) = 0)
        BY <1>0
      <3>. QED  BY <1>0, <1>7, <3>1, SameQueue DEF SwapTasks
    <2>. QED  BY <2>1
  <1>8. ASSUME NEW l \in Loops, RunEnable(l) \/ RunEstablished(l)
        PROVE  \A k \in Loops : QueueStep(k)
    <2>1. PICK op \in {"enable", "established"} : Takes(l, op) /\ tasks' = Rest(l)
      BY <1>8 DEF RunEnable, RunEstablished
    <2>. QED  BY <2>1, TakesFacts, TakenQueue
  <1>9. ASSUME NEW l \in Loops, ReleaseInloop(l) PROVE \A k \in Loops : QueueStep(k)
    <2>1. Takes(l, "release")
      BY <1>9 DEF ReleaseInloop
    <2>2. PICK c \in Conns : TaskStep(l, "release", c)
      BY <2>1, TakesFacts
    <2>3. RemoveConnection(l, c) /\ conn' = [conn EXCEPT ![c] = Closed(@)]
      BY <1>9, <2>2 DEF ReleaseInloop, TaskStep
    <2>4. CASE l = Base
      BY <2>2, <2>3, <2>4, TakenQueue DEF RemoveConnection
    <2>5. CASE l # Base
      <3>1. tasks' = [Rest(l) EXCEPT ![Base] = Append(@, Task("remove", c))]
        BY <2>3, <2>5 DEF RemoveConnection
      <3>2. tasks'[l] = Tail(tasks[l]) /\ tasks'[Base] = Append(tasks[Base], Task("remove", c))
        BY <1>0, <2>5, <3>1 DEF Rest
      <3>3. ASSUME NEW k \in Loops, k # l
            PROVE  phase'[k] = phase[k] /\ batch'[k] = batch[k]
                   /\ (k # Base => tasks'[k] = tasks[k])
        BY <1>0, <2>2, <3>1, <3>3 DEF TaskStep, Rest
      <3>4. QueueStep(l)
        BY <2>2, <3>2, ShorterQueue
      <3>5. QueueStep(Base)
        <4>1. Task("remove", c) \in TaskRecord
          BY DEF Task, TaskRecord
        <4>2. ~Open(c)'
          <5>1. conn[c] \in ConnRecord
            BY DEF CoreInv, TypeOK
          <5>2. conn'[c] = Closed(conn[c])
            BY <2>3 DEF CoreInv, TypeOK
          <5>. QED  BY <5>1, <5>2 DEF Open, Closed, ConnRecord
        <4>3. WhyNew(Base, Task("remove", c))
          BY <2>2, <2>5, <4>2 DEF WhyNew, NewRemove, TaskStep
        <4>. DEFINE x == Task("remove", c)
        <4>4. x \in TaskRecord /\ WhyNew(Base, x)
          BY <4>1, <4>3
        <4>. HIDE DEF x
        <4>5. /\ Len(tasks'[Base]) = Len(tasks[Base]) + 1
              /\ \A i \in 1 .. Len(tasks[Base]) : tasks'[Base][i] = tasks[Base][i]
              /\ \A i \in Len(tasks[Base]) + 1 .. Len(tasks'[Base]) : tasks'[Base][i] = x
          <5>1. tasks'[Base] = Append(tasks[Base], x) /\ tasks[Base] \in Seq(TaskRecord)
            BY <1>0, <3>2 DEF x
          <5>. QED  BY <4>4, <5>1, AppendElements
        <4>6. phase'[Base] = phase[Base] /\ batch'[Base] = batch[Base]
          BY <1>0, <2>5, <3>3
        <4>. QED  BY <1>0, <4>4, <4>5, <4>6, LongerQueue
      <3>6. ASSUME NEW k \in Loops, k # l, k # Base PROVE QueueStep(k)
        BY <3>3, <3>6, SameQueue
      <3>. QED  BY <3>4, <3>5, <3>6
    <2>. QED  BY <2>4, <2>5
  <1>10. ASSUME RemoveConnectionInLoop PROVE \A k \in Loops : QueueStep(k)
    BY <1>0, <1>10, TakesFacts, TakenQueue DEF RemoveConnectionInLoop
  <1>11. ASSUME Accept PROVE \A k \in Loops : QueueStep(k)
    <2>. DEFINE c == newest + 1
                l == Get_Next_EventLoop
    <2>1. PICK f \in Fds :
            /\ conn' = [conn EXCEPT ![c] = [Unborn EXCEPT !.status = "CONNECTING",
                                              !.fd = f, !.loop = l, !.open = TRUE]]
            /\ creating = "accept" /\ newest' = c
            /\ timer' = IF EnableCnt > 0 /\ l = Base
                        THEN [timer EXCEPT ![c] = WithTimer(@)] ELSE timer
            /\ tasks' = IF EnableCnt > 0 /\ l # Base
                        THEN [tasks EXCEPT ![l] = Append(@, Task("enable", c))] ELSE tasks
            /\ UNCHANGED <<phase, batch>>
      BY <1>11 DEF Accept
    <2>2. c \in Conns /\ c > newest
      BY <2>1 DEF CoreInv, CreatingInv, TypeOK, Conns, ServerAssumption
    <2>3. l \in Loops
      BY NextLoop DEF CoreInv
    <2>4. timer[c] = NoTimers
      BY <2>2 DEF CoreInv, BornInv
    <2>5. conn'[c].loop = l
      <3>. HIDE DEF c, l
      <3>. QED  BY <2>1, <2>2 DEF CoreInv, TypeOK, Unborn
    <2>6. CASE EnableCnt > 0 /\ l # Base
      <3>1. tasks' = [tasks EXCEPT ![l] = Append(@, Task("enable", c))] /\ timer' = timer
        BY <2>1, <2>6
      <3>2. Task("enable", c) \in TaskRecord
        BY <2>2 DEF Task, TaskRecord
      <3>3. WhyNew(l, Task("enable", c))
        BY <2>1, <2>2, <2>4, <2>5, <2>6, <3>1 DEF WhyNew, NewEnable
      <3>. HIDE DEF c, l
      <3>. QED  BY <2>1, <2>3, <3>1, <3>2, <3>3, AppendedQueue
    <2>7. CASE ~(EnableCnt > 0 /\ l # Base)
      BY <1>1, <2>1, <2>7
    <2>. QED  BY <2>6, <2>7
  <1>12. ASSUME AcceptFails \/ Insert PROVE \A k \in Loops : QueueStep(k)
    BY <1>1, <1>12 DEF AcceptFails, Insert
  <1>13. ASSUME Established PROVE \A k \in Loops : QueueStep(k)
    <2>. DEFINE l == conn[newest].loop
    <2>1. newest \in Conns /\ l \in Loops
      <3>1. newest \in Conns
        BY <1>13 DEF CoreInv, CreatingInv, TypeOK, Conns, ServerAssumption, Established
      <3>. QED  BY <3>1 DEF CoreInv, TypeOK, ConnRecord
    <2>2. CASE l = Base
      BY <1>1, <1>13, <2>2 DEF Established
    <2>3. CASE l # Base
      <3>1. /\ tasks' = [tasks EXCEPT ![l] = Append(@, Task("established", newest))]
            /\ creating = "establish" /\ creating' = "insert" /\ UNCHANGED <<phase, batch>>
        BY <1>13, <2>3 DEF Established
      <3>2. Task("established", newest) \in TaskRecord
        BY <2>1 DEF Task, TaskRecord
      <3>3. WhyNew(l, Task("established", newest))
        BY <2>1, <2>3, <3>1 DEF WhyNew, NewEstablished
      <3>. HIDE DEF l
      <3>. QED  BY <2>1, <3>1, <3>2, <3>3, AppendedQueue
    <2>. QED  BY <2>2, <2>3
  <1>14. CASE UNCHANGED vars
    BY <1>1, <1>14 DEF vars
  <1>. QED
    BY <1>2, <1>3, <1>4, <1>5, <1>6, <1>7, <1>8, <1>9, <1>10, <1>11, <1>12, <1>13, <1>14
    DEF Next, LoopStep, BaseStep

(* An accepted connection keeps its number and loop, and its socket until  *)
(* the loop runs a release of it.                                          *)
OldStep(c) == c <= newest =>
  /\ conn'[c].fd = conn[c].fd /\ conn'[c].loop = conn[c].loop
  /\ conn'[c].status # "UNBORN"
  /\ conn'[c].status = "CONNECTING" => conn'[c].open
  /\ conn'[c].open => conn[c].open
  /\ conn[c].open /\ ~conn'[c].open =>
       phase[conn[c].loop] = "tasks" /\ tasks[conn[c].loop][1] = Task("release", c)

(* A connection that is accepted gets a number that no open one has. *)
Accepted(c) ==
  /\ newest' = c /\ c = newest + 1 /\ phase[Base] = "handlers"
  /\ creating = "accept" /\ creating' = "establish"
  /\ conn'[c].open /\ conn'[c].status = "CONNECTING" /\ conn'[c].fd \in Fds /\ conn'[c].ev = {}
  /\ \A d \in Conns : conn[d].open => conn[d].fd # conn'[c].fd
  /\ \A d \in Conns : d # c => conn'[d] = conn[d]
  /\ UNCHANGED <<chans, epoll, phase, active>>

NewStep(c) == c > newest =>
  \/ c > newest' /\ conn'[c] = conn[c] /\ timer'[c] = timer[c]
  \/ Accepted(c)

LEMMA ConnChanges ==
  ASSUME ServerAssumption, CoreInv, newest' = newest,
         \A e \in Conns : e > newest => timer'[e] = timer[e],
         NEW d \in Conns, d <= newest, NEW u, conn' = [conn EXCEPT ![d] = u],
         u.fd = conn[d].fd, u.loop = conn[d].loop, u.status # "UNBORN",
         u.status = "CONNECTING" => u.open, u.open => conn[d].open,
         conn[d].open /\ ~u.open =>
           phase[conn[d].loop] = "tasks" /\ tasks[conn[d].loop][1] = Task("release", d)
  PROVE  \A c \in Conns : OldStep(c) /\ NewStep(c)
  <1>1. conn'[d] = u /\ \A e \in Conns : e # d => conn'[e] = conn[e]
    BY DEF CoreInv, TypeOK
  <1>2. newest \in Int /\ \A e \in Conns : e \in Int
    BY DEF CoreInv, TypeOK, Conns, ServerAssumption
  <1>3. OldStep(d)
    BY <1>1 DEF OldStep
  <1>4. ASSUME NEW c \in Conns, c # d PROVE OldStep(c)
    BY <1>1, <1>4 DEF OldStep, CoreInv, BornInv, Open
  <1>5. ASSUME NEW c \in Conns PROVE NewStep(c)
    BY <1>1, <1>2 DEF NewStep
  <1>. QED  BY <1>3, <1>4, <1>5

LEMMA ConnsStep ==
  ASSUME ServerAssumption, CoreInv, [Next]_vars
  PROVE  newest' \in {newest, newest + 1} /\ \A c \in Conns : OldStep(c) /\ NewStep(c)
  <1>. USE DEF kernelVars, loopVars, baseVars
  <1>. DEFINE Goal == newest' \in {newest, newest + 1} /\ \A c \in Conns : OldStep(c) /\ NewStep(c)
  <1>0. newest \in Int /\ (\A e \in Conns : e \in Int) /\ Base \in Loops
        /\ conn \in [Conns -> ConnRecord] /\ timer \in [Conns -> TimerRecord]
    BY DEF CoreInv, TypeOK, Conns, ServerAssumption, Base, Loops
  <1>1. ASSUME conn' = conn, newest' = newest,
               \A e \in Conns : e > newest => timer'[e] = timer[e]
        PROVE  Goal
    <2>1. ASSUME NEW c \in Conns PROVE OldStep(c)
      BY <1>1 DEF OldStep, CoreInv, BornInv, Open
    <2>2. ASSUME NEW c \in Conns PROVE NewStep(c)
      BY <1>1 DEF NewStep
    <2>. QED  BY <1>1, <2>1, <2>2
  <1>2. ASSUME NEW c \in Conns, DataArrives(c) \/ PeerLeaves(c) \/ SendBufferDrains(c) PROVE Goal
    BY <1>1, <1>2 DEF DataArrives, PeerLeaves, SendBufferDrains
  <1>3. ASSUME NEW l \in Loops, Poll(l) \/ PollInterrupted(l) \/ SwapTasks(l) PROVE Goal
    BY <1>1, <1>3 DEF Poll, PollInterrupted, SwapTasks
  <1>4. ASSUME NEW l \in Loops, HanderEvent(l) PROVE Goal
    <2>0. PICK c \in Conns :
            \E r \in Handled(Statuses, conn[c].fd, conn[c].loop, conn[c].open, conn[c].closes) :
              EventStep(l, c, r)
      BY <1>4, HanderEventFacts
    <2>1. PICK r \in Handled(Statuses, conn[c].fd, conn[c].loop, conn[c].open, conn[c].closes) :
            EventStep(l, c, r)
      BY <2>0
    <2>. DEFINE u == [r EXCEPT !.releases = 0]
    <2>2. u.fd = conn[c].fd /\ u.loop = conn[c].loop /\ u.status # "UNBORN" /\ u.open = conn[c].open
      BY DEF Handled, Statuses
    <2>3. conn' = [conn EXCEPT ![c] = u] /\ newest' = newest /\ timer' = timer /\ active[l][c] # {}
      BY <2>1 DEF EventStep
    <2>4. Open(c)
      BY <2>3 DEF CoreInv, ActiveInv
    <2>5. c <= newest
      BY <2>4, OpenIsBorn
    <2>. HIDE DEF u
    <2>. QED  BY <2>2, <2>3, <2>4, <2>5, ConnChanges DEF Open
  <1>5. ASSUME NEW l \in Loops, EnableTimeoutDel(l) PROVE Goal
    <2>1. PICK c \in Conns : /\ active[l][c] # {} /\ timer' = [timer EXCEPT ![c] = WithTimer(@)]
                             /\ UNCHANGED <<conn, newest>>
      BY <1>5 DEF EnableTimeoutDel
    <2>2. c <= newest
      BY <2>1, OpenIsBorn DEF CoreInv, ActiveInv
    <2>. QED  BY <1>0, <1>1, <2>1, <2>2
  <1>6. ASSUME NEW l \in Loops, ExcuteTimer(l) PROVE Goal
    <2>1. PICK c \in Conns : \E k \in timer[c].armed :
            timer' = [timer EXCEPT ![c] = Destroyed(@, k)] /\ UNCHANGED <<conn, newest>>
      BY <1>6 DEF ExcuteTimer
    <2>2. c <= newest
      BY <1>0, <2>1 DEF CoreInv, BornInv, NoTimers
    <2>. QED  BY <1>0, <1>1, <2>1, <2>2
  <1>7. ASSUME NEW l \in Loops, RunEnable(l) PROVE Goal
    <2>1. PICK c \in Conns : TaskStep(l, "enable", c)
      BY <1>7, TakesFacts DEF RunEnable
    <2>2. c <= newest /\ timer' = [timer EXCEPT ![c] = WithTimer(@)] /\ UNCHANGED <<conn, newest>>
      BY <1>7, <2>1 DEF RunEnable, TaskStep
    <2>. QED  BY <1>0, <1>1, <2>2
  <1>8. ASSUME NEW d \in Conns, d <= newest, EstablishedInLoop(d), timer' = timer, newest' = newest
        PROVE  Goal
    <2>1. CASE conn[d].status = "CONNECTING"
      <3>. DEFINE u == [conn[d] EXCEPT !.ev = {"in"}]
      <3>1. conn' = [conn EXCEPT ![d] = u]
        BY <1>8, <2>1 DEF EstablishedInLoop
      <3>2. conn[d] \in ConnRecord /\ conn[d].open
        BY <1>0, <2>1 DEF CoreInv, BornInv, Open
      <3>3. /\ u.fd = conn[d].fd /\ u.loop = conn[d].loop /\ u.status = conn[d].status
            /\ u.open = conn[d].open
        BY <3>2 DEF ConnRecord
      <3>. HIDE DEF u
      <3>. QED  BY <1>8, <2>1, <3>1, <3>2, <3>3, ConnChanges
    <2>2. CASE conn[d].status # "CONNECTING"
      BY <1>1, <1>8, <2>2 DEF EstablishedInLoop
    <2>. QED  BY <2>1, <2>2
  <1>9. ASSUME NEW l \in Loops, RunEstablished(l) PROVE Goal
    <2>1. PICK c \in Conns : TaskStep(l, "established", c)
      BY <1>9, TakesFacts DEF RunEstablished
    <2>. QED  BY <1>8, <1>9, <2>1 DEF RunEstablished, TaskStep
  <1>10. ASSUME NEW l \in Loops, ReleaseInloop(l) PROVE Goal
    <2>1. PICK c \in Conns : TaskStep(l, "release", c)
      BY <1>10, TakesFacts DEF ReleaseInloop
    <2>. DEFINE u == Closed(conn[c])
    <2>2. conn' = [conn EXCEPT ![c] = u] /\ timer' = [timer EXCEPT ![c] = Canceled(@)]
          /\ newest' = newest /\ c <= newest /\ conn[c].loop = l /\ phase[l] = "tasks"
          /\ tasks[l][1] = Task("release", c)
      BY <1>10, <2>1 DEF ReleaseInloop, TaskStep
    <2>3. /\ u.fd = conn[c].fd /\ u.loop = conn[c].loop /\ u.status = "DISCONNECTED"
          /\ u.open = FALSE
      BY <1>0 DEF Closed, ConnRecord
    <2>4. \A e \in Conns : e > newest => timer'[e] = timer[e]
      BY <1>0, <2>2
    <2>. HIDE DEF u
    <2>. QED  BY <2>2, <2>3, <2>4, ConnChanges
  <1>11. ASSUME RemoveConnectionInLoop \/ AcceptFails \/ Insert PROVE Goal
    BY <1>1, <1>11 DEF RemoveConnectionInLoop, AcceptFails, Insert
  <1>12. ASSUME Accept PROVE Goal
    <2>. DEFINE c == newest + 1
                l == Get_Next_EventLoop
    <2>1. PICK f \in Fds :
            /\ Owner(f) = {}
            /\ conn' = [conn EXCEPT ![c] = [Unborn EXCEPT !.status = "CONNECTING",
                                              !.fd = f, !.loop = l, !.open = TRUE]]
            /\ creating = "accept" /\ newest' = c /\ phase[Base] = "handlers"
            /\ creating' = "establish"
            /\ timer' = IF EnableCnt > 0 /\ l = Base
                        THEN [timer EXCEPT ![c] = WithTimer(@)] ELSE timer
            /\ UNCHANGED <<chans, epoll, phase, active>>
      BY <1>12 DEF Accept
    <2>2. c \in Conns /\ c > newest
      BY <2>1 DEF CoreInv, CreatingInv, TypeOK, Conns, ServerAssumption
    <2>3. \A d \in Conns : d # c => conn'[d] = conn[d] /\ timer'[d] = timer[d]
      <3>. HIDE DEF c, l
      <3>. QED  BY <1>0, <2>1, <2>2
    <2>4. conn'[c].open /\ conn'[c].status = "CONNECTING" /\ conn'[c].fd = f /\ conn'[c].ev = {}
      <3>1. conn'[c] = [Unborn EXCEPT !.status = "CONNECTING",
                                              !.fd = f, !.loop = l, !.open = TRUE]
        BY <1>0, <2>1, <2>2
      <3>. HIDE DEF c, l
      <3>. QED  BY <3>1 DEF Unborn
    <2>5. \A d \in Conns : conn[d].open => conn[d].fd # f
      BY <2>1 DEF Owner, Open
    <2>6. Accepted(c)
      BY <2>1, <2>2, <2>3, <2>4, <2>5 DEF Accepted
    <2>7. ASSUME NEW d \in Conns PROVE NewStep(d)
      BY <1>0, <2>1, <2>2, <2>3, <2>6 DEF NewStep
    <2>8. ASSUME NEW d \in Conns PROVE OldStep(d)
      BY <1>0, <2>1, <2>2, <2>3 DEF OldStep, CoreInv, BornInv, Open
    <2>. QED  BY <2>1, <2>7, <2>8
  <1>13. ASSUME Established PROVE Goal
    <2>1. newest \in Conns /\ newest <= newest
      BY <1>13 DEF CoreInv, CreatingInv, TypeOK, Conns, ServerAssumption, Established
    <2>2. CASE conn[newest].loop = Base
      BY <1>8, <1>13, <2>1, <2>2 DEF Established
    <2>3. CASE conn[newest].loop # Base
      BY <1>1, <1>13, <2>3 DEF Established
    <2>. QED  BY <2>2, <2>3
  <1>14. CASE UNCHANGED vars
    BY <1>1, <1>14 DEF vars
  <1>. QED
    BY <1>2, <1>3, <1>4, <1>5, <1>6, <1>7, <1>9, <1>10, <1>11, <1>12, <1>13, <1>14
    DEF Next, LoopStep, BaseStep

(* A queue after the step: d tasks are gone, and new ones may follow. *)
Moved(l, d) ==
  /\ d = 1 => /\ phase[l] = "tasks" /\ Len(tasks[l]) >= 1
              /\ batch'[l] = batch[l] - 1
              /\ phase'[l] = IF batch[l] = 1 THEN "poll" ELSE "tasks"
  /\ d = 0 => /\ phase[l] = "tasks" => phase'[l] = "tasks" /\ batch'[l] = batch[l]
              /\ phase[l] # "tasks" /\ phase'[l] = "tasks" =>
                   batch'[l] = Len(tasks[l]) /\ Len(tasks[l]) >= 1
              /\ phase[l] = "handlers" /\ phase'[l] = "poll" => Len(tasks[l]) = 0
  /\ Len(tasks'[l]) >= Len(tasks[l]) - d
  /\ \A i \in 1 .. Len(tasks'[l]) :
       \/ i + d \in 1 .. Len(tasks[l]) /\ tasks'[l][i] = tasks[l][i + d]
       \/ i + d > Len(tasks[l]) /\ NewTask(l, i)

LEMMA QueuesMoved ==
  ASSUME ServerAssumption, CoreInv, [Next]_vars
  PROVE  \E D \in [Loops -> {0, 1}] : \A l \in Loops : Moved(l, D[l])
  <1>1. ASSUME NEW l \in Loops PROVE \E d \in {0, 1} : Moved(l, d)
    <2>1. QueueStep(l)
      BY QueuesStep
    <2>2. Len(tasks[l]) \in Nat /\ Len(tasks'[l]) \in Nat
      BY TypeStep DEF CoreInv, TypeOK
    <2>3. CASE /\ phase[l] = "tasks" /\ Len(tasks[l]) >= 1
               /\ batch'[l] = batch[l] - 1
               /\ phase'[l] = IF batch[l] = 1 THEN "poll" ELSE "tasks"
               /\ Kept(l, 1)
               /\ \A i \in Len(tasks[l]) .. Len(tasks'[l]) : NewTask(l, i)
      <3>1. Moved(l, 1)
        BY <2>2, <2>3 DEF Moved, Kept
      <3>. QED  BY <3>1
    <2>4. CASE /\ phase[l] = "tasks" => phase'[l] = "tasks" /\ batch'[l] = batch[l]
               /\ phase[l] # "tasks" /\ phase'[l] = "tasks" =>
                    batch'[l] = Len(tasks[l]) /\ Len(tasks[l]) >= 1
               /\ phase[l] = "handlers" /\ phase'[l] = "poll" => Len(tasks[l]) = 0
               /\ Kept(l, 0)
               /\ \A i \in Len(tasks[l]) + 1 .. Len(tasks'[l]) : NewTask(l, i)
      <3>1. Moved(l, 0)
        BY <2>2, <2>4 DEF Moved, Kept
      <3>. QED  BY <3>1
    <2>. QED  BY <2>1, <2>3, <2>4 DEF QueueStep
  <1>. DEFINE D == [l \in Loops |-> CHOOSE d \in {0, 1} : Moved(l, d)]
  <1>2. \A l \in Loops : Moved(l, D[l]) /\ D[l] \in {0, 1}
    BY <1>1
  <1>3. D \in [Loops -> {0, 1}]
    BY <1>2
  <1>. QED  BY <1>2, <1>3

-----------------------------------------------------------------------------
(* The parts of the invariant.                                             *)

LEMMA BornStep ==
  ASSUME ServerAssumption, CoreInv, [Next]_vars
  PROVE  BornInv'
  <1>1. newest \in Int /\ newest' \in Int /\ \A c \in Conns : c \in Int
    BY TypeStep DEF CoreInv, TypeOK, Conns, ServerAssumption
  <1>2. newest' \in {newest, newest + 1} /\ \A c \in Conns : OldStep(c) /\ NewStep(c)
    BY ConnsStep
  <1>3. ASSUME NEW c \in Conns, c <= newest
        PROVE  conn'[c].fd \in Fds /\ conn'[c].status # "UNBORN"
               /\ (conn'[c].status = "CONNECTING" => conn'[c].open) /\ c <= newest'
    BY <1>1, <1>2, <1>3 DEF OldStep, CoreInv, BornInv
  <1>4. ASSUME NEW c \in Conns, c > newest, c > newest'
        PROVE  conn'[c] = Unborn /\ timer'[c] = NoTimers
    BY <1>1, <1>2, <1>4 DEF NewStep, Accepted, CoreInv, BornInv
  <1>5. ASSUME NEW c \in Conns, c > newest, c <= newest'
        PROVE  conn'[c].fd \in Fds /\ conn'[c].status = "CONNECTING" /\ conn'[c].open
    BY <1>1, <1>2, <1>5 DEF NewStep, Accepted
  <1>. QED  BY <1>1, <1>3, <1>4, <1>5 DEF BornInv, Open, Unborn

LEMMA FdStep ==
  ASSUME ServerAssumption, CoreInv, [Next]_vars
  PROVE  FdInv'
  <1>1. newest \in Int /\ newest' \in Int /\ \A c \in Conns : c \in Int
    BY TypeStep DEF CoreInv, TypeOK, Conns, ServerAssumption
  <1>2. \A c \in Conns : OldStep(c) /\ NewStep(c)
    BY ConnsStep
  <1>3. ASSUME NEW c \in Conns, conn'[c].open
        PROVE  \/ conn[c].open /\ conn'[c].fd = conn[c].fd
               \/ Accepted(c)
    <2>1. CASE c <= newest
      BY <1>2, <1>3, <2>1 DEF OldStep
    <2>2. CASE c > newest
      BY <1>2, <1>3, <2>2 DEF NewStep
    <2>. QED  BY <1>1, <2>1, <2>2
  <1>4. ASSUME NEW c \in Conns, NEW d \in Conns, conn'[c].open, conn'[d].open, conn'[c].fd = conn'[d].fd
        PROVE  c = d
    BY <1>3, <1>4 DEF Accepted, CoreInv, FdInv, Open
  <1>. QED  BY <1>4 DEF FdInv, Open

LEMMA TaskInvStep ==
  ASSUME ServerAssumption, CoreInv, [Next]_vars
  PROVE  TaskInv'
  <1>1. newest \in Int /\ newest' \in Int /\ \A c \in Conns : c \in Int
    BY TypeStep DEF CoreInv, TypeOK, Conns, ServerAssumption
  <1>2. newest' \in {newest, newest + 1} /\ \A c \in Conns : OldStep(c) /\ NewStep(c)
    BY ConnsStep
  <1>3. PICK D \in [Loops -> {0, 1}] : \A l \in Loops : Moved(l, D[l])
    BY QueuesMoved
  <1>4. ASSUME NEW l \in Loops, NEW i \in 1 .. Len(tasks'[l])
        PROVE  /\ tasks'[l][i].c <= newest'
               /\ tasks'[l][i].op # "remove" => conn'[tasks'[l][i].c].loop = l
    <2>1. CASE i + D[l] \in 1 .. Len(tasks[l]) /\ tasks'[l][i] = tasks[l][i + D[l]]
      <3>. DEFINE x == tasks[l][i + D[l]]
      <3>1. x \in TaskRecord
        BY <2>1 DEF CoreInv, TypeOK
      <3>2. x.c \in Conns
        BY <3>1 DEF TaskRecord
      <3>3. x.c <= newest /\ (x.op # "remove" => conn[x.c].loop = l)
        BY <2>1 DEF CoreInv, TaskInv
      <3>4. conn'[x.c].loop = conn[x.c].loop
        BY <1>2, <3>2, <3>3 DEF OldStep
      <3>. HIDE DEF x
      <3>5. tasks'[l][i] = x
        BY <2>1 DEF x
      <3>. QED  BY <1>1, <1>2, <3>2, <3>3, <3>4, <3>5
    <2>2. CASE NewTask(l, i)
      <3>1. PICK x \in TaskRecord : x = tasks'[l][i] /\ WhyNew(l, x)
        BY <2>2 DEF NewTask
      <3>2. PICK c \in Conns :
              \/ x = Task("release", c) /\ NewRelease(l, c)
              \/ x = Task("remove", c) /\ NewRemove(l, c)
              \/ x = Task("enable", c) /\ NewEnable(l, c)
              \/ x = Task("established", c) /\ NewEstablished(l, c)
        BY <3>1 DEF WhyNew
      <3>3. CASE x = Task("release", c) /\ NewRelease(l, c)
        <4>1. x.c = c /\ c <= newest /\ conn[c].loop = l
          BY <3>3 DEF Task, NewRelease
        <4>. QED  BY <1>1, <1>2, <3>1, <4>1 DEF OldStep
      <3>4. CASE x = Task("remove", c) /\ NewRemove(l, c)
        <4>1. x.c = c /\ c <= newest /\ x.op = "remove"
          BY <3>4 DEF Task, NewRemove
        <4>. QED  BY <1>1, <1>2, <3>1, <4>1
      <3>5. CASE x = Task("enable", c) /\ NewEnable(l, c)
        <4>1. x.c = c /\ c = newest' /\ conn'[c].loop = l
          BY <3>5 DEF Task, NewEnable
        <4>. QED  BY <1>1, <3>1, <4>1
      <3>6. CASE x = Task("established", c) /\ NewEstablished(l, c)
        <4>1. x.c = c /\ c = newest /\ conn[c].loop = l
          BY <3>6 DEF Task, NewEstablished
        <4>. QED  BY <1>1, <1>2, <3>1, <4>1 DEF OldStep
      <3>. QED  BY <3>2, <3>3, <3>4, <3>5, <3>6
    <2>. QED  BY <1>3, <2>1, <2>2 DEF Moved
  <1>. QED  BY <1>4 DEF TaskInv

LEMMA BatchStep ==
  ASSUME ServerAssumption, CoreInv, [Next]_vars
  PROVE  BatchInv'
  <1>1. PICK D \in [Loops -> {0, 1}] : \A l \in Loops : Moved(l, D[l])
    BY QueuesMoved
  <1>2. ASSUME NEW l \in Loops, phase'[l] = "tasks" PROVE batch'[l] \in 1 .. Len(tasks'[l])
    <2>1. Len(tasks[l]) \in Nat /\ Len(tasks'[l]) \in Nat
      BY TypeStep DEF CoreInv, TypeOK
    <2>2. phase[l] = "tasks" => batch[l] \in 1 .. Len(tasks[l])
      BY DEF CoreInv, BatchInv
    <2>3. CASE D[l] = 0
      BY <1>1, <1>2, <2>1, <2>2, <2>3 DEF Moved
    <2>4. CASE D[l] = 1
      BY <1>1, <1>2, <2>1, <2>2, <2>4 DEF Moved
    <2>. QED  BY <2>3, <2>4
  <1>. QED  BY <1>2 DEF BatchInv

LEMMA CreatingStep ==
  ASSUME ServerAssumption, CoreInv, [Next]_vars
  PROVE  CreatingInv'
  <1>. USE DEF kernelVars, loopVars, baseVars
  <1>0. /\ newest \in Int /\ ConnCnt \in Nat /\ Base \in Loops
        /\ phase \in [Loops -> {"poll", "handlers", "tasks"}]
        /\ creating \in {"no", "accept", "establish", "insert"}
        /\ creating = "accept" => newest < ConnCnt
        /\ creating \in {"establish", "insert"} => newest >= 1
        /\ creating # "no" => phase[Base] = "handlers"
    BY DEF CoreInv, TypeOK, Conns, ServerAssumption, CreatingInv, Base, Loops
  <1>1. ASSUME UNCHANGED <<creating, newest, phase>> PROVE CreatingInv'
    BY <1>0, <1>1 DEF CreatingInv
  <1>2. ASSUME NEW c \in Conns, DataArrives(c) \/ PeerLeaves(c) \/ SendBufferDrains(c)
        PROVE  CreatingInv'
    BY <1>1, <1>2 DEF DataArrives, PeerLeaves, SendBufferDrains
  <1>3. ASSUME NEW l \in Loops, Poll(l) PROVE CreatingInv'
    BY <1>0, <1>3 DEF Poll, CreatingInv, Waiting
  <1>4. ASSUME NEW l \in Loops, PollInterrupted(l) PROVE CreatingInv'
    BY <1>0, <1>4 DEF PollInterrupted, CreatingInv
  <1>5. ASSUME NEW l \in Loops, HanderEvent(l) \/ EnableTimeoutDel(l) \/ ExcuteTimer(l)
        PROVE  CreatingInv'
    BY <1>1, <1>5, HanderEventFacts DEF EventStep, EnableTimeoutDel, ExcuteTimer
  <1>6. ASSUME NEW l \in Loops, SwapTasks(l) PROVE CreatingInv'
    BY <1>0, <1>6 DEF SwapTasks, CreatingInv
  <1>7. ASSUME NEW l \in Loops, NEW op, Takes(l, op), UNCHANGED <<creating, newest>>
        PROVE  CreatingInv'
    BY <1>0, <1>7 DEF Takes, CreatingInv
  <1>8. ASSUME NEW l \in Loops, RunEnable(l) \/ RunEstablished(l) \/ ReleaseInloop(l)
        PROVE  CreatingInv'
    BY <1>7, <1>8 DEF RunEnable, RunEstablished, ReleaseInloop
  <1>9. ASSUME RemoveConnectionInLoop PROVE CreatingInv'
    BY <1>0, <1>7, <1>9 DEF RemoveConnectionInLoop
  <1>10. ASSUME Accept PROVE CreatingInv'
    <2>1. newest >= 0
      BY DEF CoreInv, TypeOK
    <2>2. creating' = "establish" /\ newest' = newest + 1 /\ phase[Base] = "handlers" /\ phase' = phase
      BY <1>10 DEF Accept
    <2>. QED  BY <1>0, <2>1, <2>2 DEF CreatingInv
  <1>11. ASSUME AcceptFails PROVE CreatingInv'
    BY <1>0, <1>11 DEF AcceptFails, CreatingInv
  <1>12. ASSUME Established PROVE CreatingInv'
    BY <1>0, <1>12 DEF Established, CreatingInv
  <1>13. ASSUME Insert PROVE CreatingInv'
    BY <1>0, <1>13 DEF Insert, CreatingInv
  <1>14. CASE UNCHANGED vars
    BY <1>1, <1>14 DEF vars
  <1>. QED
    BY <1>2, <1>3, <1>4, <1>5, <1>6, <1>8, <1>9, <1>10, <1>11, <1>12, <1>13, <1>14
    DEF Next, LoopStep, BaseStep

(* Events reach a connection only by the epoll_wait of its own loop. *)
Reports(l, c) == active'[l][c] # {} =>
  \/ active[l][c] # {} /\ phase[l] = "handlers" /\ phase'[l] = "handlers"
  \/ phase[l] = "poll" /\ phase'[l] = "handlers" /\ Open(c) /\ conn[c].loop = l
     /\ \E f \in Fds : chans[l][f] = c

LEMMA ReportsStep ==
  ASSUME ServerAssumption, CoreInv, [Next]_vars
  PROVE  \A l \in Loops, c \in Conns : Reports(l, c)
  <1>. USE DEF kernelVars, loopVars, baseVars
  <1>. DEFINE Goal == \A l \in Loops, c \in Conns : Reports(l, c)
  <1>0. /\ phase \in [Loops -> {"poll", "handlers", "tasks"}]
        /\ active \in [Loops -> [Conns -> SUBSET {"in", "out", "hup", "err"}]]
        /\ \A l \in Loops, c \in Conns : active[l][c] # {} => phase[l] = "handlers"
        /\ Base \in Loops
    BY DEF CoreInv, TypeOK, ActiveInv, Base, Loops, ServerAssumption
  <1>1. ASSUME UNCHANGED <<active, phase>> PROVE Goal
    BY <1>0, <1>1 DEF Reports
  <1>2. ASSUME NEW c \in Conns, DataArrives(c) \/ PeerLeaves(c) \/ SendBufferDrains(c) PROVE Goal
    BY <1>1, <1>2 DEF DataArrives, PeerLeaves, SendBufferDrains
  <1>3. ASSUME NEW l \in Loops, Poll(l) PROVE Goal
    <2>1. phase[l] = "poll" /\ phase' = [phase EXCEPT ![l] = "handlers"]
          /\ active' = [active EXCEPT ![l] = Reported(l)]
      BY <1>3 DEF Poll
    <2>2. ASSUME NEW c \in Conns, Reported(l)[c] # {}
          PROVE  Open(c) /\ conn[c].loop = l /\ \E f \in Fds : chans[l][f] = c
      <3>. DEFINE Q == {Revents(o, epoll[l][f]) :
                          f \in {g \in Fds : chans[l][g] = c}, o \in Owner(conn[c].fd)}
      <3>1. Reported(l)[c] = UNION Q
        BY DEF Reported
      <3>2. PICK f \in Fds, o \in Conns : chans[l][f] = c /\ Revents(o, epoll[l][f]) # {}
        <4>1. PICK q \in Q : q # {}
          <5>. HIDE DEF Q
          <5>. QED  BY <2>2, <3>1
        <4>. QED  BY <4>1 DEF Owner
      <3>3. c # NoConn
        BY DEF Conns, ServerAssumption
      <3>4. Open(c) /\ conn[c].loop = l
        BY <3>2, <3>3 DEF CoreInv, PollersAgree
      <3>. QED  BY <3>2, <3>4
    <2>. QED  BY <1>0, <2>1, <2>2 DEF Reports
  <1>4. ASSUME NEW l \in Loops, PollInterrupted(l) PROVE Goal
    BY <1>0, <1>4 DEF PollInterrupted, Reports
  <1>5. ASSUME NEW l \in Loops, HanderEvent(l) PROVE Goal
    <2>1. PICK d \in Conns : active' = [active EXCEPT ![l][d] = {}] /\ phase' = phase
      BY <1>5, HanderEventFacts DEF EventStep
    <2>. QED  BY <1>0, <2>1 DEF Reports
  <1>6. ASSUME NEW l \in Loops, EnableTimeoutDel(l) \/ ExcuteTimer(l) PROVE Goal
    BY <1>1, <1>6 DEF EnableTimeoutDel, ExcuteTimer
  <1>7. ASSUME NEW l \in Loops, SwapTasks(l) PROVE Goal
    BY <1>0, <1>7 DEF SwapTasks, Reports
  <1>8. ASSUME NEW l \in Loops, NEW op, Takes(l, op), active' = active PROVE Goal
    BY <1>0, <1>8 DEF Takes, Reports
  <1>9. ASSUME NEW l \in Loops, RunEnable(l) \/ RunEstablished(l) \/ ReleaseInloop(l) PROVE Goal
    BY <1>8, <1>9 DEF RunEnable, RunEstablished, ReleaseInloop
  <1>10. ASSUME RemoveConnectionInLoop PROVE Goal
    BY <1>0, <1>8, <1>10 DEF RemoveConnectionInLoop
  <1>11. ASSUME Accept \/ AcceptFails \/ Established \/ Insert PROVE Goal
    BY <1>1, <1>11 DEF Accept, AcceptFails, Established, Insert
  <1>12. CASE UNCHANGED vars
    BY <1>1, <1>12 DEF vars
  <1>. QED
    BY <1>2, <1>3, <1>4, <1>5, <1>6, <1>7, <1>9, <1>10, <1>11, <1>12 DEF Next, LoopStep, BaseStep

LEMMA ActiveStep ==
  ASSUME ServerAssumption, CoreInv, [Next]_vars
  PROVE  ActiveInv'
  <1>1. ASSUME NEW l \in Loops, NEW c \in Conns, active'[l][c] # {}
        PROVE  phase'[l] = "handlers" /\ conn'[c].open /\ conn'[c].loop = l
    <2>1. /\ phase[l] \in {"poll", "handlers"} /\ phase'[l] = "handlers"
          /\ Open(c) /\ conn[c].loop = l
      BY <1>1, ReportsStep DEF Reports, CoreInv, ActiveInv
    <2>2. c <= newest
      BY <2>1, OpenIsBorn
    <2>3. conn'[c].loop = conn[c].loop /\ (~conn'[c].open => phase[l] = "tasks")
      BY <2>1, <2>2, ConnsStep DEF OldStep, Open
    <2>. QED  BY <2>1, <2>3
  <1>. QED  BY <1>1 DEF ActiveInv, Open

(* The first timer of a connection is the one of the server. *)
FirstTimer(c) == timer[c].enables = 0 =>
  \/ timer'[c].enables = 0
  \/ c > newest
  \/ \E l \in Loops : tasks[l][1] = Task("enable", c) /\ Len(tasks[l]) >= 1 /\ tasks' = Rest(l)

LEMMA FirstTimerStep ==
  ASSUME ServerAssumption, CoreInv, [Next]_vars
  PROVE  \A c \in Conns : FirstTimer(c)
  <1>. USE DEF kernelVars, loopVars, baseVars
  <1>. DEFINE Goal == \A c \in Conns : FirstTimer(c)
  <1>0. /\ newest \in Int /\ (\A e \in Conns : e \in Int) /\ Base \in Loops
        /\ timer \in [Conns -> TimerRecord]
    BY DEF CoreInv, TypeOK, Conns, ServerAssumption, Base, Loops
  <1>1. ASSUME timer' = timer PROVE Goal
    BY <1>1 DEF FirstTimer
  <1>2. ASSUME NEW c \in Conns, DataArrives(c) \/ PeerLeaves(c) \/ SendBufferDrains(c) PROVE Goal
    BY <1>1, <1>2 DEF DataArrives, PeerLeaves, SendBufferDrains
  <1>3. ASSUME NEW l \in Loops, Poll(l) \/ PollInterrupted(l) \/ HanderEvent(l) \/ SwapTasks(l)
                                \/ RunEstablished(l)
        PROVE  Goal
    BY <1>1, <1>3, HanderEventFacts DEF Poll, PollInterrupted, EventStep, SwapTasks, RunEstablished
  <1>4. ASSUME NEW d \in Conns, NEW u, timer' = [timer EXCEPT ![d] = u],
               timer[d].enables = 0 =>
                 \/ u.enables = 0
                 \/ d > newest
                 \/ \E l \in Loops : tasks[l][1] = Task("enable", d) /\ Len(tasks[l]) >= 1
                                     /\ tasks' = Rest(l)
        PROVE  Goal
    <2>1. timer'[d] = u /\ \A c \in Conns : c # d => timer'[c] = timer[c]
      BY <1>0, <1>4
    <2>2. FirstTimer(d)
      BY <1>4, <2>1 DEF FirstTimer
    <2>3. ASSUME NEW c \in Conns, c # d PROVE FirstTimer(c)
      BY <2>1, <2>3 DEF FirstTimer
    <2>. QED  BY <2>2, <2>3
  <1>5. ASSUME NEW l \in Loops, EnableTimeoutDel(l) PROVE Goal
    <2>1. PICK c \in Conns : /\ timer[c].enables \in 1 .. EnableCnt - 1
                             /\ timer' = [timer EXCEPT ![c] = WithTimer(@)]
      BY <1>5 DEF EnableTimeoutDel
    <2>2. timer[c].enables # 0
      BY <2>1 DEF ServerAssumption
    <2>. QED  BY <1>4, <2>1, <2>2
  <1>6. ASSUME NEW l \in Loops, ExcuteTimer(l) PROVE Goal
    <2>1. PICK c \in Conns : \E k \in timer[c].armed : timer' = [timer EXCEPT ![c] = Destroyed(@, k)]
      BY <1>6 DEF ExcuteTimer
    <2>2. \A k : Destroyed(timer[c], k).enables = timer[c].enables
      BY <1>0 DEF Destroyed, TimerRecord
    <2>. QED  BY <1>4, <2>1, <2>2
  <1>7. ASSUME NEW l \in Loops, RunEnable(l) PROVE Goal
    <2>1. PICK c \in Conns : TaskStep(l, "enable", c)
      BY <1>7, TakesFacts DEF RunEnable
    <2>2. /\ timer' = [timer EXCEPT ![c] = WithTimer(@)] /\ tasks' = Rest(l)
          /\ tasks[l][1] = Task("enable", c) /\ Len(tasks[l]) >= 1
      BY <1>7, <2>1 DEF RunEnable, TaskStep
    <2>. QED  BY <1>4, <2>2
  <1>8. ASSUME NEW l \in Loops, ReleaseInloop(l) PROVE Goal
    <2>1. PICK c \in Conns : TaskStep(l, "release", c)
      BY <1>8, TakesFacts DEF ReleaseInloop
    <2>2. timer' = [timer EXCEPT ![c] = Canceled(@)]
      BY <1>8, <2>1 DEF ReleaseInloop, TaskStep
    <2>3. Canceled(timer[c]).enables = timer[c].enables
      BY <1>0 DEF Canceled, TimerRecord
    <2>. QED  BY <1>4, <2>2, <2>3
  <1>9. ASSUME Accept PROVE Goal
    <2>1. timer' = timer \/ timer' = [timer EXCEPT ![newest + 1] = WithTimer(@)]
      BY <1>9 DEF Accept
    <2>2. newest + 1 \in Conns /\ newest + 1 > newest
      BY <1>9 DEF CoreInv, CreatingInv, TypeOK, Conns, ServerAssumption, Accept
    <2>. QED  BY <1>1, <1>4, <2>1, <2>2
  <1>10. ASSUME RemoveConnectionInLoop \/ AcceptFails \/ Established \/ Insert PROVE Goal
    BY <1>1, <1>10 DEF RemoveConnectionInLoop, AcceptFails, Established, Insert
  <1>11. CASE UNCHANGED vars
    BY <1>1, <1>11 DEF vars
  <1>. QED
    BY <1>2, <1>3, <1>5, <1>6, <1>7, <1>8, <1>9, <1>10, <1>11 DEF Next, LoopStep, BaseStep

LEMMA EnableStep ==
  ASSUME ServerAssumption, CoreInv, [Next]_vars
  PROVE  EnableInv'
  <1>1. newest \in Int /\ newest' \in Int /\ (\A c \in Conns : c \in Int)
        /\ tasks \in [Loops -> Seq(TaskRecord)]
    BY TypeStep DEF CoreInv, TypeOK, Conns, ServerAssumption
  <1>2. PICK D \in [Loops -> {0, 1}] : \A l \in Loops : Moved(l, D[l])
    BY QueuesMoved
  (* An old task is about an accepted connection, a new one about the next. *)
  <1>3. ASSUME NEW l \in Loops, NEW i \in 1 .. Len(tasks'[l]), tasks'[l][i].op = "enable"
        PROVE  \/ /\ i + D[l] \in 1 .. Len(tasks[l]) /\ tasks'[l][i] = tasks[l][i + D[l]]
                  /\ tasks'[l][i].c <= newest
               \/ /\ EnableCnt > 0 /\ tasks'[l][i].c = newest + 1 /\ timer'[newest + 1] = NoTimers
                  /\ tasks' = [tasks EXCEPT ![l] = Append(@, Task("enable", newest + 1))]
    <2>1. CASE i + D[l] \in 1 .. Len(tasks[l]) /\ tasks'[l][i] = tasks[l][i + D[l]]
      BY <2>1 DEF CoreInv, TaskInv
    <2>2. CASE NewTask(l, i)
      <3>1. PICK x \in TaskRecord : x = tasks'[l][i] /\ WhyNew(l, x)
        BY <2>2 DEF NewTask
      <3>2. PICK c \in Conns : x = Task("enable", c) /\ NewEnable(l, c)
        BY <1>3, <3>1 DEF WhyNew, Task
      <3>. QED  BY <3>1, <3>2 DEF NewEnable, Task
    <2>. QED  BY <1>2, <2>1, <2>2 DEF Moved
  <1>4. ASSUME NEW l \in Loops, NEW i \in 1 .. Len(tasks'[l]), tasks'[l][i].op = "enable",
               NEW k \in Loops, NEW j \in 1 .. Len(tasks'[k]), tasks'[k][j] = tasks'[l][i]
        PROVE  k = l /\ j = i
    <2>1. tasks'[k][j].op = "enable" /\ tasks'[k][j].c = tasks'[l][i].c
      BY <1>4
    <2>2. CASE tasks'[l][i].c <= newest
      <3>1. /\ i + D[l] \in 1 .. Len(tasks[l]) /\ tasks'[l][i] = tasks[l][i + D[l]]
            /\ j + D[k] \in 1 .. Len(tasks[k]) /\ tasks'[k][j] = tasks[k][j + D[k]]
        BY <1>1, <1>3, <1>4, <2>1, <2>2
      <3>2. k = l /\ j + D[k] = i + D[l]
        BY <1>4, <3>1 DEF CoreInv, EnableInv
      <3>. QED  BY <3>2
    <2>3. CASE ~(tasks'[l][i].c <= newest)
      <3>1. /\ tasks' = [tasks EXCEPT ![l] = Append(@, Task("enable", newest + 1))]
            /\ tasks' = [tasks EXCEPT ![k] = Append(@, Task("enable", newest + 1))]
            /\ tasks'[l][i].c = newest + 1
        BY <1>1, <1>3, <1>4, <2>1, <2>3
      <3>2. k = l
        <4>1. Len(tasks[l]) \in Nat /\ Len(tasks'[l]) = Len(tasks[l]) + 1
          BY <1>1, <3>1
        <4>. QED  BY <1>1, <3>1, <4>1
      <3>3. ASSUME NEW n \in 1 .. Len(tasks'[l]), tasks'[l][n] = tasks'[l][i] PROVE n = Len(tasks[l]) + 1
        <4>1. Len(tasks[l]) \in Nat /\ Len(tasks'[l]) = Len(tasks[l]) + 1
              /\ \A m \in 1 .. Len(tasks[l]) : tasks'[l][m] = tasks[l][m]
          BY <1>1, <3>1
        <4>2. CASE n <= Len(tasks[l])
          <5>1. tasks'[l][n] = tasks[l][n] /\ tasks[l][n].c <= newest
            BY <4>1, <4>2 DEF CoreInv, TaskInv
          <5>. QED  BY <1>1, <3>1, <3>3, <5>1
        <4>. QED  BY <4>1, <4>2
      <3>. QED  BY <1>4, <3>2, <3>3
    <2>. QED  BY <2>2, <2>3
  <1>5. ASSUME NEW l \in Loops, NEW i \in 1 .. Len(tasks'[l]), tasks'[l][i].op = "enable"
        PROVE  EnableCnt > 0 /\ timer'[tasks'[l][i].c].enables = 0
    <2>1. CASE tasks'[l][i].c <= newest
      <3>1. /\ i + D[l] \in 1 .. Len(tasks[l]) /\ tasks'[l][i] = tasks[l][i + D[l]]
        BY <1>1, <1>3, <1>5, <2>1
      <3>2. PICK c \in Conns : c = tasks[l][i + D[l]].c
        <4>1. tasks[l][i + D[l]] \in TaskRecord
          BY <1>1, <3>1
        <4>. QED  BY <4>1 DEF TaskRecord
      <3>3. EnableCnt > 0 /\ timer[c].enables = 0 /\ c <= newest
        BY <1>5, <2>1, <3>1, <3>2 DEF CoreInv, EnableInv
      <3>4. ASSUME NEW k \in Loops, tasks[k][1] = Task("enable", c), Len(tasks[k]) >= 1,
                   tasks' = Rest(k)
            PROVE  FALSE
        <4>1. tasks[k][1] = tasks[l][i + D[l]]
          <5>1. tasks[l][i + D[l]] \in TaskRecord
            BY <1>1, <3>1
          <5>. QED  BY <1>5, <3>1, <3>2, <3>4, <5>1 DEF Task, TaskRecord
        <4>2. 1 \in 1 .. Len(tasks[k]) /\ tasks[k] # <<>>
          BY <1>1, <3>4
        <4>3. k = l /\ i + D[l] = 1
          BY <1>5, <3>1, <4>1, <4>2 DEF CoreInv, EnableInv
        <4>4. i = 1 /\ tasks'[l] = Tail(tasks[l])
          <5>1. tasks' = [tasks EXCEPT ![l] = Tail(tasks[l])]
            BY <3>4, <4>3 DEF Rest
          <5>2. D[l] \in {0, 1} /\ i \in Nat /\ i >= 1
            OBVIOUS
          <5>. QED  BY <1>1, <4>3, <5>1, <5>2
        <4>5. 2 \in 1 .. Len(tasks[l]) /\ tasks'[l][1] = tasks[l][2]
          BY <1>1, <1>5, <4>2, <4>3, <4>4
        <4>6. tasks[l][2] = tasks[l][1]
          BY <3>1, <4>1, <4>3, <4>4, <4>5
        <4>7. tasks[l][1].op = "enable"
          BY <3>4, <4>3 DEF Task
        <4>. QED  BY <4>2, <4>3, <4>5, <4>6, <4>7 DEF CoreInv, EnableInv
      <3>5. timer'[c].enables = 0
        BY <1>1, <3>3, <3>4, FirstTimerStep DEF FirstTimer
      <3>. QED  BY <3>1, <3>2, <3>3, <3>5
    <2>2. CASE ~(tasks'[l][i].c <= newest)
      BY <1>1, <1>3, <1>5, <2>2 DEF NoTimers
    <2>. QED  BY <2>1, <2>2
  <1>. QED  BY <1>4, <1>5 DEF EnableInv

LEMMA Registered ==
  ASSUME CoreInv, NEW l \in Loops, NEW f \in Fds, NEW c \in Conns, c # NoConn, chans[l][f] = c
  PROVE  Open(c) /\ conn[c].loop = l /\ conn[c].fd = f /\ epoll[l][f] = conn[c].ev
  BY DEF CoreInv, PollersAgree

LEMMA NumberIsOwn ==
  ASSUME CoreInv, NEW c \in Conns, Open(c), NEW l \in Loops, NEW f \in Fds, f = conn[c].fd
  PROVE  chans[l][f] \in {NoConn, c}
  <1>1. chans[l][f] \in Conns \union {NoConn}
    BY DEF CoreInv, TypeOK
  <1>2. ASSUME NEW d \in Conns, chans[l][f] = d, d # NoConn PROVE d = c
    <2>1. Open(d) /\ conn[d].fd = f
      BY <1>2, Registered
    <2>. QED  BY <2>1 DEF CoreInv, FdInv
  <1>. QED  BY <1>1, <1>2

LEMMA UpdateAgrees ==
  ASSUME ServerAssumption, CoreInv, NEW c \in Conns, Open(c), NEW u, conn' = [conn EXCEPT ![c] = u],
         u.open, u.fd = conn[c].fd, u.loop = conn[c].loop,
         \/ UpdateEvent(conn[c].loop, conn[c].fd, c, u.ev)
         \/ u.ev = conn[c].ev /\ UNCHANGED <<chans, epoll>>
  PROVE  PollersAgree'
  <1>. DEFINE l == conn[c].loop
              f == conn[c].fd
  <1>0. /\ l \in Loops /\ f \in Fds /\ c # NoConn
        /\ conn'[c] = u /\ (\A d \in Conns : d # c => conn'[d] = conn[d])
        /\ chans \in [Loops -> [Fds -> Conns \union {NoConn}]]
        /\ epoll \in [Loops -> [Fds -> (SUBSET {"in", "out"}) \union {Off}]]
        /\ conn[c].ev # Off
    <2>1. conn[c] \in ConnRecord /\ f \in Fds
      BY OpenIsBorn
    <2>2. c # NoConn
      BY DEF Conns, ServerAssumption
    <2>. QED  BY <2>1, <2>2 DEF CoreInv, TypeOK, ConnRecord, Off
  <1>1. \A k \in Loops, g \in Fds : chans[k][g] = c => k = l /\ g = f
    BY <1>0, Registered
  <1>2. chans[l][f] \in {NoConn, c}
    BY <1>0, NumberIsOwn
  <1>3. chans[l][f] = c => epoll[l][f] = conn[c].ev
    <2>1. ASSUME NEW k \in Loops, NEW g \in Fds, chans[k][g] = c PROVE epoll[k][g] = conn[c].ev
      BY <1>0, <2>1, Registered
    <2>2. l \in Loops /\ f \in Fds
      BY <1>0
    <2>. HIDE DEF l, f
    <2>. QED  BY <2>1, <2>2
  <1>. HIDE DEF l, f
  <1>4. /\ \A k \in Loops, g \in Fds : ~(k = l /\ g = f) =>
             chans'[k][g] = chans[k][g] /\ epoll'[k][g] = epoll[k][g]
        /\ \/ chans'[l][f] = c /\ epoll'[l][f] = u.ev
           \/ chans'[l][f] = NoConn /\ epoll'[l][f] = Off
    <2>1. CASE u.ev = conn[c].ev /\ UNCHANGED <<chans, epoll>>
      <3>1. chans' = chans /\ epoll' = epoll
        BY <2>1
      <3>2. chans[l][f] = NoConn => epoll[l][f] = Off
        BY <1>0 DEF CoreInv, PollersAgree
      <3>. QED  BY <1>2, <1>3, <2>1, <3>1, <3>2
    <2>2. CASE UpdateEvent(conn[c].loop, conn[c].fd, c, u.ev)
      <3>1. UpdateEvent(l, f, c, u.ev)
        BY <2>2 DEF l, f
      <3>2. CASE chans[l][f] = NoConn
        BY <1>0, <3>1, <3>2 DEF UpdateEvent
      <3>3. CASE chans[l][f] = c
        BY <1>0, <1>3, <3>1, <3>3 DEF UpdateEvent
      <3>. QED  BY <1>2, <3>2, <3>3
    <2>. QED  BY <2>1, <2>2
  <1>5. ASSUME NEW k \in Loops, NEW g \in Fds
        PROVE  IF chans'[k][g] = NoConn THEN epoll'[k][g] = Off
               ELSE /\ conn'[chans'[k][g]].open /\ conn'[chans'[k][g]].loop = k
                    /\ conn'[chans'[k][g]].fd = g /\ epoll'[k][g] = conn'[chans'[k][g]].ev
    <2>1. CASE k = l /\ g = f
      BY <1>0, <1>4, <2>1 DEF l, f
    <2>2. CASE ~(k = l /\ g = f)
      <3>1. chans'[k][g] = chans[k][g] /\ epoll'[k][g] = epoll[k][g] /\ chans[k][g] # c
        BY <1>1, <1>4, <2>2
      <3>2. CASE chans[k][g] = NoConn
        BY <3>1, <3>2 DEF CoreInv, PollersAgree
      <3>3. CASE chans[k][g] # NoConn
        BY <1>0, <3>1, <3>3 DEF CoreInv, PollersAgree, Open
      <3>. QED  BY <3>2, <3>3
    <2>. QED  BY <2>1, <2>2
  <1>. QED  BY <1>5 DEF PollersAgree, Open

LEMMA EstablishedAgrees ==
  ASSUME ServerAssumption, CoreInv, NEW c \in Conns, EstablishedInLoop(c)
  PROVE  PollersAgree'
  <1>1. CASE conn[c].status = "CONNECTING"
    <2>. DEFINE u == [conn[c] EXCEPT !.ev = {"in"}]
    <2>1. Open(c)
      BY <1>1 DEF CoreInv, BornInv
    <2>2. conn[c] \in ConnRecord /\ conn[c].loop \in Loops /\ conn[c].fd \in Fds
      BY <2>1, OpenIsBorn DEF ConnRecord
    <2>3. /\ u.open /\ u.fd = conn[c].fd /\ u.loop = conn[c].loop /\ u.ev = {"in"}
          /\ conn' = [conn EXCEPT ![c] = u]
      BY <1>1, <2>1, <2>2 DEF EstablishedInLoop, Open, ConnRecord
    <2>4. UpdateEvent(conn[c].loop, conn[c].fd, c, u.ev)
      BY <1>1, <2>3 DEF EstablishedInLoop
    <2>. HIDE DEF u
    <2>. QED  BY <2>1, <2>3, <2>4, UpdateAgrees
  <1>2. CASE conn[c].status # "CONNECTING"
    BY <1>2 DEF EstablishedInLoop, CoreInv, PollersAgree, Open
  <1>. QED  BY <1>1, <1>2

LEMMA ReleaseAgrees ==
  ASSUME ServerAssumption, CoreInv, NEW c \in Conns, c <= newest,
         conn' = [conn EXCEPT ![c] = Closed(@)],
         RemoveEvent(conn[c].loop, conn[c].fd, Open(c))
  PROVE  PollersAgree'
  <1>. DEFINE l == conn[c].loop
              f == conn[c].fd
  <1>0. /\ l \in Loops /\ f \in Fds /\ c # NoConn
        /\ (\A d \in Conns : d # c => conn'[d] = conn[d])
        /\ chans \in [Loops -> [Fds -> Conns \union {NoConn}]]
        /\ epoll \in [Loops -> [Fds -> (SUBSET {"in", "out"}) \union {Off}]]
    BY DEF CoreInv, TypeOK, BornInv, ConnRecord, Conns, ServerAssumption
  <1>1. /\ chans' = [chans EXCEPT ![l][f] = NoConn]
        /\ epoll' = [k \in Loops |-> IF k = l \/ Open(c)
                                     THEN [epoll[k] EXCEPT ![f] = Off] ELSE epoll[k]]
    BY DEF RemoveEvent
  <1>2. \A k \in Loops, g \in Fds : chans[k][g] = c => k = l /\ g = f
    BY <1>0, Registered
  <1>3. ASSUME Open(c), NEW k \in Loops, k # l PROVE chans[k][f] = NoConn
    <2>1. chans[k][f] \in {NoConn, c}
      BY <1>0, <1>3, NumberIsOwn
    <2>. QED  BY <1>0, <1>2, <1>3, <2>1
  <1>. HIDE DEF l, f
  <1>4. ASSUME NEW k \in Loops, NEW g \in Fds
        PROVE  IF chans'[k][g] = NoConn THEN epoll'[k][g] = Off
               ELSE /\ conn'[chans'[k][g]].open /\ conn'[chans'[k][g]].loop = k
                    /\ conn'[chans'[k][g]].fd = g /\ epoll'[k][g] = conn'[chans'[k][g]].ev
    <2>1. CASE k = l /\ g = f
      BY <1>0, <1>1, <2>1
    <2>2. CASE ~(k = l /\ g = f)
      <3>1. chans'[k][g] = chans[k][g] /\ chans[k][g] # c
        BY <1>0, <1>1, <1>2, <2>2
      <3>2. CASE chans[k][g] = NoConn
        <4>1. epoll[k][g] = Off
          BY <3>2 DEF CoreInv, PollersAgree
        <4>2. epoll'[k][g] \in {epoll[k][g], Off}
          BY <1>0, <1>1
        <4>. QED  BY <3>1, <3>2, <4>1, <4>2
      <3>3. CASE chans[k][g] # NoConn
        <4>1. epoll'[k][g] = epoll[k][g]
          BY <1>0, <1>1, <1>3, <2>2, <3>3
        <4>. QED  BY <1>0, <3>1, <3>3, <4>1 DEF CoreInv, PollersAgree, Open
      <3>. QED  BY <3>2, <3>3
    <2>. QED  BY <2>1, <2>2
  <1>. QED  BY <1>4 DEF PollersAgree, Open

LEMMA PollersStep ==
  ASSUME ServerAssumption, CoreInv, [Next]_vars
  PROVE  PollersAgree'
  <1>. USE DEF kernelVars, loopVars, baseVars
  <1>1. ASSUME UNCHANGED <<conn, chans, epoll>> PROVE PollersAgree'
    BY <1>1 DEF CoreInv, PollersAgree, Open
  <1>2. ASSUME NEW c \in Conns, DataArrives(c) \/ PeerLeaves(c) \/ SendBufferDrains(c)
        PROVE  PollersAgree'
    BY <1>1, <1>2 DEF DataArrives, PeerLeaves, SendBufferDrains
  <1>3. ASSUME NEW l \in Loops, \/ Poll(l) \/ PollInterrupted(l) \/ EnableTimeoutDel(l)
                               \/ ExcuteTimer(l) \/ SwapTasks(l) \/ RunEnable(l)
        PROVE  PollersAgree'
    BY <1>1, <1>3 DEF Poll, PollInterrupted, EnableTimeoutDel, ExcuteTimer, SwapTasks, RunEnable
  <1>4. ASSUME NEW l \in Loops, HanderEvent(l) PROVE PollersAgree'
    <2>0. PICK c \in Conns :
            \E r \in Handled(Statuses, conn[c].fd, conn[c].loop, conn[c].open, conn[c].closes) :
              EventStep(l, c, r)
      BY <1>4, HanderEventFacts
    <2>1. PICK r \in Handled(Statuses, conn[c].fd, conn[c].loop, conn[c].open, conn[c].closes) :
            EventStep(l, c, r)
      BY <2>0
    <2>. DEFINE u == [r EXCEPT !.releases = 0]
    <2>2. u.fd = conn[c].fd /\ u.loop = conn[c].loop /\ u.open = conn[c].open /\ u.ev = r.ev
      BY DEF Handled
    <2>3. conn' = [conn EXCEPT ![c] = u] /\ active[l][c] # {}
          /\ (\/ UpdateEvent(l, conn[c].fd, c, r.ev)
              \/ r.ev = conn[c].ev /\ UNCHANGED <<chans, epoll>>)
      BY <2>1 DEF EventStep
    <2>4. Open(c) /\ conn[c].loop = l
      BY <2>3 DEF CoreInv, ActiveInv
    <2>. HIDE DEF u
    <2>. QED  BY <2>2, <2>3, <2>4, UpdateAgrees DEF Open
  <1>5. ASSUME NEW l \in Loops, RunEstablished(l) PROVE PollersAgree'
    <2>1. PICK c \in Conns : TaskStep(l, "established", c)
      BY <1>5, TakesFacts DEF RunEstablished
    <2>. QED  BY <1>5, <2>1, EstablishedAgrees DEF RunEstablished, TaskStep
  <1>6. ASSUME NEW l \in Loops, ReleaseInloop(l) PROVE PollersAgree'
    <2>1. PICK c \in Conns : TaskStep(l, "release", c)
      BY <1>6, TakesFacts DEF ReleaseInloop
    <2>2. /\ conn' = [conn EXCEPT ![c] = Closed(@)] /\ conn[c].loop = l /\ c <= newest
          /\ RemoveEvent(l, conn[c].fd, Open(c))
      BY <1>6, <2>1 DEF ReleaseInloop, TaskStep
    <2>. QED  BY <2>2, ReleaseAgrees
  <1>7. ASSUME RemoveConnectionInLoop \/ AcceptFails \/ Insert PROVE PollersAgree'
    BY <1>1, <1>7 DEF RemoveConnectionInLoop, AcceptFails, Insert
  <1>8. ASSUME Accept PROVE PollersAgree'
    <2>1. newest' = newest + 1 /\ newest \in Int /\ newest + 1 \in Conns
      BY <1>8 DEF CoreInv, CreatingInv, TypeOK, Conns, ServerAssumption, Accept
    <2>2. Accepted(newest + 1)
      BY <2>1, ConnsStep DEF NewStep
    <2>3. /\ \A d \in Conns : d # newest + 1 => conn'[d] = conn[d]
          /\ UNCHANGED <<chans, epoll>>
      BY <2>2 DEF Accepted
    <2>4. ~Open(newest + 1)
      BY <2>1, OpenIsBorn
    <2>5. \A l \in Loops, f \in Fds : chans[l][f] \in Conns \union {NoConn}
      BY DEF CoreInv, TypeOK
    <2>. QED  BY <2>3, <2>4, <2>5 DEF CoreInv, PollersAgree, Open
  <1>9. ASSUME Established PROVE PollersAgree'
    <2>1. newest \in Conns
      BY <1>9 DEF CoreInv, CreatingInv, TypeOK, Conns, ServerAssumption, Established
    <2>2. CASE conn[newest].loop = Base
      BY <1>9, <2>1, <2>2, EstablishedAgrees DEF Established
    <2>3. CASE conn[newest].loop # Base
      BY <1>1, <1>9, <2>3 DEF Established
    <2>. QED  BY <2>2, <2>3
  <1>10. CASE UNCHANGED vars
    BY <1>1, <1>10 DEF vars
  <1>. QED
    BY <1>2, <1>3, <1>4, <1>5, <1>6, <1>7, <1>8, <1>9, <1>10 DEF Next, LoopStep, BaseStep

LEMMA CoreInit ==
  ASSUME ServerAssumption, Init
  PROVE  CoreInv
  <1>1. TypeOK
    <2>1. Unborn \in ConnRecord
      BY DEF Unborn, ConnRecord, Loops, ServerAssumption
    <2>2. NoTimers \in TimerRecord
      BY DEF NoTimers, TimerRecord, ServerAssumption
    <2>3. <<>> \in Seq(TaskRecord)
      OBVIOUS
    <2>. QED  BY <2>1, <2>2, <2>3 DEF TypeOK, Init, ServerAssumption
  <1>2. BornInv
    BY DEF BornInv, Init, Unborn, Conns, ServerAssumption, Open
  <1>3. FdInv /\ ActiveInv /\ PollersAgree
    BY DEF FdInv, ActiveInv, PollersAgree, Init, Unborn, Open
  <1>4. TaskInv /\ EnableInv /\ BatchInv
    BY DEF TaskInv, EnableInv, BatchInv, Init
  <1>5. CreatingInv
    BY DEF CreatingInv, Init
  <1>. QED  BY <1>1, <1>2, <1>3, <1>4, <1>5 DEF CoreInv

LEMMA CoreStep ==
  ASSUME ServerAssumption, CoreInv, [Next]_vars
  PROVE  CoreInv'
  BY TypeStep, BornStep, FdStep, TaskInvStep, ActiveStep, BatchStep, CreatingStep, EnableStep,
     PollersStep DEF CoreInv

-----------------------------------------------------------------------------
(* Every part of the state keeps its type, whatever callbacks and peers do *)
(* and however many timers a connection has.                               *)
THEOREM TypeCorrect == Spec => []TypeOK
  <1>1. Init => CoreInv
    BY CoreInit, ServerAssumption
  <1>2. CoreInv /\ [Next]_vars => CoreInv'
    BY CoreStep, ServerAssumption
  <1>3. CoreInv => TypeOK
    BY DEF CoreInv
  <1>. QED  BY <1>1, <1>2, <1>3, PTL DEF Spec

(* Each poller and the epoll set of its loop name the same open connection *)
(* of that loop for every descriptor number, although ReleaseInloop frees  *)
(* numbers that Accept uses again and stale releases go by the number.     *)
THEOREM PollersCorrect == Spec => []PollersAgree
  <1>1. Init => CoreInv
    BY CoreInit, ServerAssumption
  <1>2. CoreInv /\ [Next]_vars => CoreInv'
    BY CoreStep, ServerAssumption
  <1>3. CoreInv => PollersAgree
    BY DEF CoreInv
  <1>. QED  BY <1>1, <1>2, <1>3, PTL DEF Spec

-----------------------------------------------------------------------------
(* Without timers: what a step does to the registrations and to the map.   *)

(* The step runs EstablishedInLoop of the connection. *)
Establishing(c) ==
  \/ /\ phase[conn[c].loop] = "tasks" /\ tasks[conn[c].loop][1] = Task("established", c)
     /\ Len(tasks[conn[c].loop]) >= 1 /\ tasks' = Rest(conn[c].loop)
  \/ creating = "establish" /\ creating' = "insert" /\ c = newest /\ conn[c].loop = Base

(* Only its handlers and EstablishedInLoop register a connection or change *)
(* its events; only a release of its number in its loop unregisters it.    *)
ChannelStep(c) ==
  /\ conn'[c].ev # conn[c].ev => active[conn[c].loop][c] # {} \/ Establishing(c) \/ Accepted(c)
  /\ \A k \in Loops, g \in Fds : chans'[k][g] = c =>
       chans[k][g] = c \/ active[k][c] # {} \/ Establishing(c)
  /\ Open(c) =>
       /\ conn'[c].ev # conn[c].ev => chans'[conn[c].loop][conn[c].fd] = c
       /\ chans[conn[c].loop][conn[c].fd] = c =>
            \/ chans'[conn[c].loop][conn[c].fd] = c
            \/ \E d \in Conns : /\ phase[conn[c].loop] = "tasks" /\ Len(tasks[conn[c].loop]) >= 1
                                /\ tasks[conn[c].loop][1] = Task("release", d)
                                /\ conn[d].fd = conn[c].fd /\ conn[d].loop = conn[c].loop
                                /\ ~conn'[d].open

LEMMA UpdatedChannel ==
  ASSUME ServerAssumption, CoreInv, NEW c \in Conns, Open(c), NEW u, conn' = [conn EXCEPT ![c] = u],
         \/ UpdateEvent(conn[c].loop, conn[c].fd, c, u.ev)
         \/ u.ev = conn[c].ev /\ UNCHANGED <<chans, epoll>>,
         active[conn[c].loop][c] # {} \/ Establishing(c)
  PROVE  \A d \in Conns : ChannelStep(d)
  <1>. DEFINE l == conn[c].loop
              f == conn[c].fd
  <1>0. /\ l \in Loops /\ f \in Fds /\ c # NoConn
        /\ conn'[c] = u /\ (\A d \in Conns : d # c => conn'[d] = conn[d])
        /\ chans \in [Loops -> [Fds -> Conns \union {NoConn}]]
    <2>1. conn[c] \in ConnRecord /\ f \in Fds
      BY OpenIsBorn
    <2>2. c # NoConn
      BY DEF Conns, ServerAssumption
    <2>. QED  BY <2>1, <2>2 DEF CoreInv, TypeOK, ConnRecord
  <1>1. \/ chans' = [chans EXCEPT ![l][f] = c]
        \/ chans' = chans /\ (u.ev = conn[c].ev \/ chans[l][f] # NoConn)
    <2>1. CASE u.ev = conn[c].ev /\ UNCHANGED <<chans, epoll>>
      <3>1. chans' = chans
        BY <2>1
      <3>. QED  BY <2>1, <3>1
    <2>2. CASE UpdateEvent(l, f, c, u.ev)
      <3>. HIDE DEF l, f
      <3>1. CASE chans[l][f] = NoConn
        <4>1. chans' = [chans EXCEPT ![l][f] = c]
          BY <2>2, <3>1 DEF UpdateEvent
        <4>. QED  BY <4>1
      <3>2. CASE chans[l][f] # NoConn
        <4>1. chans' = chans
          BY <2>2, <3>2 DEF UpdateEvent
        <4>. QED  BY <3>2, <4>1
      <3>. QED  BY <3>1, <3>2
    <2>. QED  BY <2>1, <2>2
  <1>2. chans[l][f] \in {NoConn, c}
    BY <1>0, NumberIsOwn
  <1>. HIDE DEF l, f
  <1>3. /\ \A k \in Loops, g \in Fds : chans'[k][g] = chans[k][g] \/ (k = l /\ g = f /\ chans'[k][g] = c)
        /\ u.ev # conn[c].ev => chans'[l][f] = c
        /\ chans[l][f] = c => chans'[l][f] = c
    BY <1>0, <1>1, <1>2
  <1>4. ChannelStep(c)
    BY <1>0, <1>3 DEF ChannelStep, l, f
  <1>5. ASSUME NEW d \in Conns, d # c PROVE ChannelStep(d)
    <2>1. \A k \in Loops, g \in Fds : chans'[k][g] = d => chans[k][g] = d
      BY <1>3, <1>5
    <2>2. ASSUME Open(d), chans[conn[d].loop][conn[d].fd] = d
          PROVE  chans'[conn[d].loop][conn[d].fd] = d
      <3>1. conn[d] \in ConnRecord /\ conn[d].fd \in Fds
        BY <2>2, OpenIsBorn
      <3>2. conn[d].loop \in Loops
        BY <3>1 DEF ConnRecord
      <3>3. conn[d].fd # f
        BY <1>5, <2>2 DEF CoreInv, FdInv, f
      <3>. QED  BY <1>3, <2>2, <3>1, <3>2, <3>3
    <2>. QED  BY <1>0, <1>5, <2>1, <2>2 DEF ChannelStep
  <1>. QED  BY <1>4, <1>5

LEMMA ChannelsStep ==
  ASSUME ServerAssumption, CoreInv, [Next]_vars
  PROVE  \A c \in Conns : ChannelStep(c)
  <1>. USE DEF kernelVars, loopVars, baseVars
  <1>. DEFINE Goal == \A c \in Conns : ChannelStep(c)
  <1>1. ASSUME UNCHANGED <<conn, chans>> PROVE Goal
    BY <1>1 DEF ChannelStep
  <1>2. ASSUME NEW c \in Conns, DataArrives(c) \/ PeerLeaves(c) \/ SendBufferDrains(c) PROVE Goal
    BY <1>1, <1>2 DEF DataArrives, PeerLeaves, SendBufferDrains
  <1>3. ASSUME NEW l \in Loops, \/ Poll(l) \/ PollInterrupted(l) \/ EnableTimeoutDel(l)
                               \/ ExcuteTimer(l) \/ SwapTasks(l) \/ RunEnable(l)
        PROVE  Goal
    BY <1>1, <1>3 DEF Poll, PollInterrupted, EnableTimeoutDel, ExcuteTimer, SwapTasks, RunEnable
  <1>4. ASSUME NEW l \in Loops, HanderEvent(l) PROVE Goal
    <2>0. PICK c \in Conns :
            \E r \in Handled(Statuses, conn[c].fd, conn[c].loop, conn[c].open, conn[c].closes) :
              EventStep(l, c, r)
      BY <1>4, HanderEventFacts
    <2>1. PICK r \in Handled(Statuses, conn[c].fd, conn[c].loop, conn[c].open, conn[c].closes) :
            EventStep(l, c, r)
      BY <2>0
    <2>. DEFINE u == [r EXCEPT !.releases = 0]
    <2>2. u.ev = r.ev
      BY DEF Handled
    <2>3. conn' = [conn EXCEPT ![c] = u] /\ active[l][c] # {}
          /\ (\/ UpdateEvent(l, conn[c].fd, c, r.ev)
              \/ r.ev = conn[c].ev /\ UNCHANGED <<chans, epoll>>)
      BY <2>1 DEF EventStep
    <2>4. Open(c) /\ conn[c].loop = l
      BY <2>3 DEF CoreInv, ActiveInv
    <2>. HIDE DEF u
    <2>. QED  BY <2>2, <2>3, <2>4, UpdatedChannel
  <1>5. ASSUME NEW c \in Conns, EstablishedInLoop(c), Establishing(c) PROVE Goal
    <2>1. CASE conn[c].status = "CONNECTING"
      <3>. DEFINE u == [conn[c] EXCEPT !.ev = {"in"}]
      <3>1. Open(c) /\ conn[c] \in ConnRecord
        BY <2>1, OpenIsBorn DEF CoreInv, BornInv
      <3>2. u.ev = {"in"} /\ conn' = [conn EXCEPT ![c] = u]
        BY <1>5, <2>1, <3>1 DEF EstablishedInLoop, ConnRecord
      <3>3. UpdateEvent(conn[c].loop, conn[c].fd, c, u.ev)
        BY <1>5, <2>1, <3>2 DEF EstablishedInLoop
      <3>. HIDE DEF u
      <3>. QED  BY <1>5, <3>1, <3>2, <3>3, UpdatedChannel
    <2>2. CASE conn[c].status # "CONNECTING"
      BY <1>1, <1>5, <2>2 DEF EstablishedInLoop
    <2>. QED  BY <2>1, <2>2
  <1>6. ASSUME NEW l \in Loops, RunEstablished(l) PROVE Goal
    <2>1. PICK c \in Conns : TaskStep(l, "established", c)
      BY <1>6, TakesFacts DEF RunEstablished
    <2>2. EstablishedInLoop(c) /\ Establishing(c)
      BY <1>6, <2>1 DEF RunEstablished, TaskStep, Establishing
    <2>. QED  BY <1>5, <2>2
  <1>7. ASSUME NEW l \in Loops, ReleaseInloop(l) PROVE Goal
    <2>1. PICK c \in Conns : TaskStep(l, "release", c)
      BY <1>7, TakesFacts DEF ReleaseInloop
    <2>2. /\ conn' = [conn EXCEPT ![c] = Closed(@)] /\ conn[c].loop = l
          /\ chans' = [chans EXCEPT ![l][conn[c].fd] = NoConn]
          /\ phase[l] = "tasks" /\ Len(tasks[l]) >= 1 /\ tasks[l][1] = Task("release", c)
      BY <1>7, <2>1 DEF ReleaseInloop, TaskStep, RemoveEvent
    <2>3. (\A d \in Conns : conn'[d].ev = conn[d].ev) /\ ~conn'[c].open
      <3>1. conn[c] \in ConnRecord /\ conn \in [Conns -> ConnRecord]
        BY DEF CoreInv, TypeOK
      <3>2. Closed(conn[c]).ev = conn[c].ev /\ ~Closed(conn[c]).open
        BY <3>1 DEF Closed, ConnRecord
      <3>. QED  BY <2>2, <3>1, <3>2
    <2>4. /\ chans \in [Loops -> [Fds -> Conns \union {NoConn}]]
          /\ \A d \in Conns : d # NoConn
      BY DEF CoreInv, TypeOK, Conns, ServerAssumption
    <2>5. ASSUME NEW d \in Conns PROVE ChannelStep(d)
      <3>1. \A k \in Loops, g \in Fds : chans'[k][g] = d => chans[k][g] = d
        BY <2>2, <2>4
      <3>2. ASSUME Open(d), chans[conn[d].loop][conn[d].fd] = d,
                   chans'[conn[d].loop][conn[d].fd] # d
            PROVE  conn[d].loop = l /\ conn[d].fd = conn[c].fd
        <4>1. conn[d] \in ConnRecord /\ conn[d].fd \in Fds
          BY <3>2, OpenIsBorn
        <4>2. conn[d].loop \in Loops
          BY <4>1 DEF ConnRecord
        <4>. QED  BY <2>2, <2>4, <3>2, <4>1, <4>2
      <3>. QED  BY <2>2, <2>3, <3>1, <3>2 DEF ChannelStep
    <2>. QED  BY <2>5
  <1>8. ASSUME RemoveConnectionInLoop \/ AcceptFails \/ Insert PROVE Goal
    BY <1>1, <1>8 DEF RemoveConnectionInLoop, AcceptFails, Insert
  <1>9. ASSUME Accept PROVE Goal
    <2>1. newest' = newest + 1 /\ newest \in Int /\ newest + 1 \in Conns
      BY <1>9 DEF CoreInv, CreatingInv, TypeOK, Conns, ServerAssumption, Accept
    <2>2. Accepted(newest + 1)
      BY <2>1, ConnsStep DEF NewStep
    <2>3. ~Open(newest + 1)
      BY <2>1, OpenIsBorn
    <2>4. ASSUME NEW c \in Conns PROVE ChannelStep(c)
      BY <2>2, <2>3 DEF ChannelStep, Accepted
    <2>. QED  BY <2>4
  <1>10. ASSUME Established PROVE Goal
    <2>1. newest \in Conns
      BY <1>10 DEF CoreInv, CreatingInv, TypeOK, Conns, ServerAssumption, Established
    <2>2. CASE conn[newest].loop = Base
      <3>1. EstablishedInLoop(newest) /\ Establishing(newest)
        BY <1>10, <2>2 DEF Established, Establishing
      <3>. QED  BY <1>5, <2>1, <3>1
    <2>3. CASE conn[newest].loop # Base
      BY <1>1, <1>10, <2>3 DEF Established
    <2>. QED  BY <2>2, <2>3
  <1>11. CASE UNCHANGED vars
    BY <1>1, <1>11 DEF vars
  <1>. QED
    BY <1>2, <1>3, <1>4, <1>6, <1>7, <1>8, <1>9, <1>10, <1>11 DEF Next, LoopStep, BaseStep

(* The base loop erases a connection that was closed, and inserts the one  *)
(* that NewConnection created when it is done with it.                     *)
MapStep ==
  /\ \A c \in conns : c \in conns' \/ ~conn'[c].open
                      \/ (Len(tasks[Base]) >= 1 /\ tasks[Base][1] = Task("remove", c))
  /\ creating' = "establish" => creating = "establish" \/ newest' # newest
  /\ creating \in {"establish", "insert"} => creating' \in {"establish", "insert"} \/ newest \in conns'

LEMMA MapsStep ==
  ASSUME ServerAssumption, CoreInv, [Next]_vars
  PROVE  MapStep
  <1>. USE DEF kernelVars, loopVars, baseVars
  <1>1. ASSUME UNCHANGED <<conns, creating>> PROVE MapStep
    BY <1>1 DEF MapStep
  <1>2. ASSUME NEW c \in Conns, DataArrives(c) \/ PeerLeaves(c) \/ SendBufferDrains(c) PROVE MapStep
    BY <1>1, <1>2 DEF DataArrives, PeerLeaves, SendBufferDrains
  <1>3. ASSUME NEW l \in Loops, Poll(l) PROVE MapStep
    <2>1. creating # "no" => phase[Base] = "handlers"
      BY DEF CoreInv, CreatingInv
    <2>2. conns' = conns /\ phase[l] = "poll" /\ (creating' # creating => l = Base /\ creating' = "accept")
      BY <1>3 DEF Poll
    <2>. QED  BY <2>1, <2>2 DEF MapStep
  <1>4. ASSUME NEW l \in Loops, \/ PollInterrupted(l) \/ HanderEvent(l) \/ EnableTimeoutDel(l)
                               \/ ExcuteTimer(l) \/ SwapTasks(l) \/ RunEnable(l) \/ RunEstablished(l)
        PROVE  MapStep
    BY <1>1, <1>4, HanderEventFacts
    DEF PollInterrupted, EventStep, EnableTimeoutDel, ExcuteTimer, SwapTasks, RunEnable, RunEstablished
  <1>5. ASSUME NEW l \in Loops, ReleaseInloop(l) PROVE MapStep
    <2>1. PICK c \in Conns : TaskStep(l, "release", c)
      BY <1>5, TakesFacts DEF ReleaseInloop
    <2>2. /\ conn' = [conn EXCEPT ![c] = Closed(@)] /\ creating' = creating
          /\ conns' = conns \/ conns' = conns \ {c}
      BY <1>5, <2>1 DEF ReleaseInloop, TaskStep, RemoveConnection
    <2>3. ~conn'[c].open
      <3>1. conn[c] \in ConnRecord /\ conn \in [Conns -> ConnRecord]
        BY DEF CoreInv, TypeOK
      <3>. QED  BY <2>2, <3>1 DEF Closed, ConnRecord
    <2>. QED  BY <2>2, <2>3 DEF MapStep
  <1>6. ASSUME RemoveConnectionInLoop PROVE MapStep
    <2>0. Base \in Loops
      BY DEF Base, Loops, ServerAssumption
    <2>1. PICK c \in Conns : TaskStep(Base, "remove", c)
      BY <1>6, <2>0, TakesFacts DEF RemoveConnectionInLoop
    <2>2. conns' = conns \ {c} /\ creating' = creating /\ Len(tasks[Base]) >= 1
          /\ tasks[Base][1] = Task("remove", c)
      BY <1>6, <2>1 DEF RemoveConnectionInLoop, TaskStep
    <2>. QED  BY <2>2 DEF MapStep
  <1>7. ASSUME Accept PROVE MapStep
    <2>1. newest' = newest + 1 /\ newest \in Int /\ conns' = conns /\ creating = "accept"
      BY <1>7 DEF CoreInv, TypeOK, ServerAssumption, Accept
    <2>. QED  BY <2>1 DEF MapStep
  <1>8. ASSUME AcceptFails \/ Established \/ Insert PROVE MapStep
    BY <1>8 DEF AcceptFails, Established, Insert, MapStep
  <1>9. CASE UNCHANGED vars
    BY <1>1, <1>9 DEF vars
  <1>. QED
    BY <1>2, <1>3, <1>4, <1>5, <1>6, <1>7, <1>8, <1>9 DEF Next, LoopStep, BaseStep

-----------------------------------------------------------------------------
(* Without timers: every open and established connection is served.        *)

(* Where a task of the queue after the step comes from. *)
Origin(l, d, i, op, c) ==
  \/ /\ i + d \in 1 .. Len(tasks[l]) /\ tasks[l][i + d] = Task(op, c)
     /\ c <= newest /\ (op # "remove" => conn[c].loop = l)
  \/ /\ i + d > Len(tasks[l])
     /\ op = "release" => NewRelease(l, c)
     /\ op = "remove" => NewRemove(l, c)
     /\ op = "enable" => NewEnable(l, c)
     /\ op = "established" => NewEstablished(l, c)

LEMMA TaskOrigin ==
  ASSUME CoreInv, NEW l \in Loops, NEW d \in {0, 1}, Moved(l, d),
         NEW i \in 1 .. Len(tasks'[l]), NEW op, NEW c \in Conns, tasks'[l][i] = Task(op, c)
  PROVE  Origin(l, d, i, op, c)
  <1>1. CASE i + d \in 1 .. Len(tasks[l]) /\ tasks'[l][i] = tasks[l][i + d]
    <2>1. tasks[l][i + d] = Task(op, c)
      BY <1>1
    <2>2. c <= newest /\ (op # "remove" => conn[c].loop = l)
      BY <1>1, <2>1 DEF CoreInv, TaskInv, Task
    <2>. QED  BY <1>1, <2>1, <2>2 DEF Origin
  <1>2. CASE i + d > Len(tasks[l]) /\ NewTask(l, i)
    <2>1. WhyNew(l, Task(op, c))
      BY <1>2 DEF NewTask
    <2>2. PICK e \in Conns :
            \/ Task(op, c) = Task("release", e) /\ NewRelease(l, e)
            \/ Task(op, c) = Task("remove", e) /\ NewRemove(l, e)
            \/ Task(op, c) = Task("enable", e) /\ NewEnable(l, e)
            \/ Task(op, c) = Task("established", e) /\ NewEstablished(l, e)
      BY <2>1 DEF WhyNew
    <2>3. \A o1, o2, c1, c2 : Task(o1, c1) = Task(o2, c2) => o1 = o2 /\ c1 = c2
      BY DEF Task
    <2>4. CASE Task(op, c) = Task("release", e) /\ NewRelease(l, e)
      <3>1. op = "release" /\ c = e
        BY <2>3, <2>4
      <3>. QED  BY <1>2, <2>4, <3>1 DEF Origin
    <2>5. CASE Task(op, c) = Task("remove", e) /\ NewRemove(l, e)
      <3>1. op = "remove" /\ c = e
        BY <2>3, <2>5
      <3>. QED  BY <1>2, <2>5, <3>1 DEF Origin
    <2>6. CASE Task(op, c) = Task("enable", e) /\ NewEnable(l, e)
      <3>1. op = "enable" /\ c = e
        BY <2>3, <2>6
      <3>. QED  BY <1>2, <2>6, <3>1 DEF Origin
    <2>7. CASE Task(op, c) = Task("established", e) /\ NewEstablished(l, e)
      <3>1. op = "established" /\ c = e
        BY <2>3, <2>7
      <3>. QED  BY <1>2, <2>7, <3>1 DEF Origin
    <2>. QED  BY <2>2, <2>4, <2>5, <2>6, <2>7
  <1>. QED  BY <1>1, <1>2 DEF Moved

(* The tasks of a queue are about connections. *)
LEMMA TaskTyped ==
  ASSUME TypeOK, NEW l \in Loops, NEW i \in 1 .. Len(tasks[l])
  PROVE  tasks[l][i].c \in Conns /\ tasks[l][i] = Task(tasks[l][i].op, tasks[l][i].c)
  <1>1. tasks[l][i] \in TaskRecord
    BY DEF TypeOK
  <1>. QED  BY <1>1 DEF TaskRecord, Task

LEMMA TaskTypedNext ==
  ASSUME TypeOK', NEW l \in Loops, NEW i \in 1 .. Len(tasks'[l])
  PROVE  tasks'[l][i].c \in Conns /\ tasks'[l][i] = Task(tasks'[l][i].op, tasks'[l][i].c)
  <1>1. tasks'[l][i] \in TaskRecord
    BY DEF TypeOK
  <1>. QED  BY <1>1 DEF TaskRecord, Task

(* A connection that the loop's handlers run for stays open in the step. *)
LEMMA HandledStaysOpen ==
  ASSUME ServerAssumption, CoreInv, [Next]_vars, NEW c \in Conns, Open(c),
         phase[conn[c].loop] = "handlers"
  PROVE  conn'[c].open
  <1>1. c <= newest
    BY OpenIsBorn
  <1>. QED  BY <1>1, ConnsStep DEF OldStep, Open

LEMMA ReleaseStep ==
  ASSUME ServerAssumption, EnableCnt = 0, CoreInv, ReleaseInv, [Next]_vars
  PROVE  ReleaseInv'
  <1>1. PICK D \in [Loops -> {0, 1}] : \A l \in Loops : Moved(l, D[l])
    BY QueuesMoved
  <1>2. ASSUME NEW l \in Loops, NEW i \in 1 .. Len(tasks'[l]), tasks'[l][i].op = "release"
        PROVE  \/ phase'[l] = "handlers" /\ conn'[tasks'[l][i].c].open
               \/ phase'[l] = "tasks" /\ i <= batch'[l]
    <2>1. PICK c \in Conns : tasks'[l][i] = Task("release", c) /\ tasks'[l][i].c = c
      BY <1>2, TypeStep, TaskTypedNext
    <2>2. Origin(l, D[l], i, "release", c) /\ D[l] \in {0, 1} /\ Moved(l, D[l])
      BY <1>1, <1>2, <2>1, TaskOrigin
    <2>3. Len(tasks[l]) \in Nat /\ batch[l] \in Nat /\ phase'[l] \in {"poll", "handlers", "tasks"}
          /\ phase[l] \in {"poll", "handlers", "tasks"}
      BY TypeStep DEF CoreInv, TypeOK
    <2>4. CASE i + D[l] \in 1 .. Len(tasks[l]) /\ tasks[l][i + D[l]] = Task("release", c)
               /\ conn[c].loop = l
      <3>1. \/ phase[l] = "handlers" /\ Open(c)
            \/ phase[l] = "tasks" /\ i + D[l] <= batch[l]
        BY <2>4 DEF ReleaseInv, Task
      <3>2. CASE phase[l] = "handlers" /\ Open(c)
        <4>1. conn'[c].open
          BY <2>4, <3>2, HandledStaysOpen
        <4>2. D[l] = 0
          BY <2>2, <3>2 DEF Moved
        <4>3. phase'[l] # "poll" /\ (phase'[l] = "tasks" => batch'[l] = Len(tasks[l]))
          BY <2>2, <2>3, <2>4, <3>2, <4>2 DEF Moved
        <4>. QED  BY <2>1, <2>3, <2>4, <4>1, <4>2, <4>3
      <3>3. CASE phase[l] = "tasks" /\ i + D[l] <= batch[l]
        BY <2>2, <2>3, <3>3 DEF Moved
      <3>. QED  BY <3>1, <3>2, <3>3
    <2>5. CASE NewRelease(l, c)
      <3>1. timer[c].armed = {}
        BY DEF CoreInv, TypeOK, TimerRecord
      <3>2. phase[l] = "handlers" /\ phase'[l] = "handlers" /\ active[l][c] # {}
        BY <2>5, <3>1 DEF NewRelease
      <3>3. Open(c) /\ conn[c].loop = l
        BY <3>2 DEF CoreInv, ActiveInv
      <3>. QED  BY <2>1, <3>2, <3>3, HandledStaysOpen
    <2>. QED  BY <2>2, <2>4, <2>5 DEF Origin
  <1>. QED  BY <1>2 DEF ReleaseInv, Open

LEMMA StaleStep ==
  ASSUME ServerAssumption, EnableCnt = 0, CoreInv, ReleaseInv, StaleInv, [Next]_vars
  PROVE  StaleInv'
  <1>0. PICK D \in [Loops -> {0, 1}] : \A l \in Loops : Moved(l, D[l])
    BY QueuesMoved
  <1>1. newest \in Int /\ \A e \in Conns : e \in Int
    BY DEF CoreInv, TypeOK, Conns, ServerAssumption
  <1>2. ASSUME NEW l \in Loops, NEW i \in 1 .. Len(tasks'[l]), NEW c \in Conns,
               tasks'[l][i] = Task("release", c), ~conn'[c].open,
               NEW d \in Conns, conn'[d].open, conn'[d].loop = l, conn'[d].fd = conn'[c].fd
        PROVE  /\ conn'[d].ev = {}
               /\ \A j \in 1 .. Len(tasks'[l]) : tasks'[l][j] = Task("established", d) => j > i
    <2>. DEFINE n == D[l]
    <2>1. Origin(l, n, i, "release", c) /\ n \in {0, 1} /\ Moved(l, n) /\ Len(tasks[l]) \in Nat
      BY <1>0, <1>2, TaskOrigin DEF CoreInv, TypeOK
    <2>. HIDE DEF n
    <2>2. /\ i + n \in 1 .. Len(tasks[l]) /\ tasks[l][i + n] = Task("release", c)
          /\ c <= newest /\ conn[c].loop = l
      <3>1. ~NewRelease(l, c)
        <4>1. ASSUME NewRelease(l, c) PROVE FALSE
          <5>1. timer[c].armed = {}
            BY DEF CoreInv, TypeOK, TimerRecord
          <5>2. phase[l] = "handlers" /\ active[l][c] # {}
            BY <4>1, <5>1 DEF NewRelease
          <5>3. Open(c) /\ conn[c].loop = l
            BY <5>2 DEF CoreInv, ActiveInv
          <5>. QED  BY <1>2, <5>2, <5>3, HandledStaysOpen
        <4>. QED  BY <4>1
      <3>. QED  BY <2>1, <3>1 DEF Origin
    <2>3. conn'[c].fd = conn[c].fd /\ phase[l] = "tasks"
      <3>1. conn'[c].fd = conn[c].fd
        BY <2>2, ConnsStep DEF OldStep
      <3>2. phase[l] = "tasks" \/ (phase[l] = "handlers" /\ Open(c))
        BY <2>2 DEF ReleaseInv, Task
      <3>. QED  BY <1>2, <2>2, <3>1, <3>2, HandledStaysOpen
    <2>4. CASE Accepted(d)
      <3>1. conn'[d].ev = {} /\ d = newest + 1
        BY <2>4 DEF Accepted
      <3>2. ASSUME NEW j \in 1 .. Len(tasks'[l]), tasks'[l][j] = Task("established", d) PROVE FALSE
        <4>1. Origin(l, n, j, "established", d)
          BY <2>1, <3>2, TaskOrigin
        <4>. QED  BY <1>1, <3>1, <4>1 DEF Origin, NewEstablished
      <3>. QED  BY <3>1, <3>2
    <2>5. CASE ~Accepted(d)
      <3>1. d <= newest
        <4>1. d > newest => d > newest' /\ conn'[d] = conn[d]
          BY <2>5, ConnsStep DEF NewStep
        <4>2. d > newest => ~conn[d].open
          BY <1>1, OpenIsBorn DEF Open
        <4>. QED  BY <1>1, <1>2, <4>1, <4>2
      <3>2. Open(d) /\ conn[d].loop = l /\ conn[d].fd = conn[c].fd
        BY <1>2, <2>3, <3>1, ConnsStep DEF OldStep, Open
      <3>3. d # c
        BY <1>2
      <3>4. ~Open(c)
        BY <3>2, <3>3 DEF CoreInv, FdInv
      <3>5. /\ conn[d].ev = {}
            /\ \A j \in 1 .. Len(tasks[l]) : tasks[l][j] = Task("established", d) => j > i + n
        BY <2>2, <3>2, <3>4 DEF StaleInv, Task
      <3>6. ~Establishing(d)
        <4>1. ASSUME Len(tasks[l]) >= 1 PROVE tasks[l][1] # Task("established", d)
          BY <2>1, <2>2, <3>5, <4>1
        <4>2. creating # "establish" \/ l # Base
          BY <2>3 DEF CoreInv, CreatingInv
        <4>. QED  BY <3>2, <4>1, <4>2 DEF Establishing
      <3>7. active[l][d] = {}
        BY <2>3 DEF CoreInv, ActiveInv
      <3>8. conn'[d].ev = {}
        BY <2>5, <3>2, <3>5, <3>6, <3>7, ChannelsStep DEF ChannelStep
      <3>9. ASSUME NEW j \in 1 .. Len(tasks'[l]), tasks'[l][j] = Task("established", d) PROVE j > i
        <4>1. Origin(l, n, j, "established", d)
          BY <2>1, <3>9, TaskOrigin
        <4>. QED  BY <2>1, <2>2, <3>5, <4>1 DEF Origin
      <3>. QED  BY <3>8, <3>9
    <2>. QED  BY <2>4, <2>5
  <1>3. ASSUME NEW l \in Loops, NEW i \in 1 .. Len(tasks'[l]), tasks'[l][i].op = "release",
               ~conn'[tasks'[l][i].c].open,
               NEW d \in Conns, conn'[d].open, conn'[d].loop = l,
               conn'[d].fd = conn'[tasks'[l][i].c].fd
        PROVE  /\ conn'[d].ev = {}
               /\ \A j \in 1 .. Len(tasks'[l]) : tasks'[l][j] = Task("established", d) => j > i
    <2>1. PICK c \in Conns : tasks'[l][i] = Task("release", c) /\ tasks'[l][i].c = c
      BY <1>3, TypeStep, TaskTypedNext
    <2>. QED  BY <1>2, <1>3, <2>1
  <1>. QED  BY <1>3 DEF StaleInv, Open

(* What a step may do to a connection that is to be established: establish *)
(* it, or nothing.                                                         *)
LEMMA UntouchedStep ==
  ASSUME ServerAssumption, EnableCnt = 0, CoreInv, [Next]_vars,
         NEW c \in Conns, Untouched(c), ~Establishing(c)
  PROVE  Untouched(c)'
  <1>1. c <= newest /\ conn[c].loop \in Loops
    BY OpenIsBorn DEF Untouched, ConnRecord
  <1>2. \A k \in Loops : \A j \in 1 .. Len(tasks[k]) : tasks[k][j] # Task("release", c)
    BY DEF Untouched, Task
  <1>3. conn'[c].open
    <2>1. ASSUME ~conn'[c].open PROVE FALSE
      <3>1. phase[conn[c].loop] = "tasks" /\ tasks[conn[c].loop][1] = Task("release", c)
        BY <1>1, <2>1, ConnsStep DEF OldStep, Untouched, Open
      <3>2. 1 \in 1 .. Len(tasks[conn[c].loop])
        BY <1>1, <3>1 DEF CoreInv, BatchInv, TypeOK
      <3>. QED  BY <1>1, <1>2, <3>1, <3>2
    <2>. QED  BY <2>1
  <1>4. \A k \in Loops, g \in Fds : chans'[k][g] # c
    BY ChannelsStep DEF ChannelStep, Untouched
  <1>5. \A k \in Loops : active'[k][c] = {}
    BY ReportsStep DEF Reports, Untouched
  <1>6. PICK D \in [Loops -> {0, 1}] : \A l \in Loops : Moved(l, D[l])
    BY QueuesMoved
  <1>7. ASSUME NEW l \in Loops, NEW i \in 1 .. Len(tasks'[l]), tasks'[l][i].c = c
        PROVE  tasks'[l][i].op \in {"enable", "established"}
    <2>. DEFINE op == tasks'[l][i].op
    <2>1. tasks'[l][i] = Task(op, c) /\ op \in {"enable", "established", "release", "remove"}
      <3>1. tasks'[l][i] \in TaskRecord
        BY TypeStep DEF TypeOK
      <3>. QED  BY <1>7, <3>1 DEF TaskRecord, Task
    <2>. HIDE DEF op
    <2>2. Origin(l, D[l], i, op, c)
      BY <1>6, <2>1, TaskOrigin
    <2>3. CASE i + D[l] \in 1 .. Len(tasks[l]) /\ tasks[l][i + D[l]] = Task(op, c)
      BY <2>3 DEF Untouched, Task, op
    <2>4. ~NewRelease(l, c)
      BY DEF NewRelease, Untouched, CoreInv, TypeOK, TimerRecord
    <2>5. ~NewRemove(l, c)
      <3>1. ASSUME NEW k \in Loops, phase[k] = "tasks", tasks[k][1] = Task("release", c) PROVE FALSE
        <4>1. 1 \in 1 .. Len(tasks[k])
          BY <3>1 DEF CoreInv, BatchInv, TypeOK
        <4>. QED  BY <1>2, <3>1, <4>1
      <3>. QED  BY <3>1 DEF NewRemove
    <2>. QED  BY <2>1, <2>2, <2>3, <2>4, <2>5 DEF Origin, op
  <1>. QED  BY <1>3, <1>4, <1>5, <1>7 DEF Untouched, Open

LEMMA EstablishStep ==
  ASSUME ServerAssumption, EnableCnt = 0, CoreInv, EstablishInv, [Next]_vars
  PROVE  EstablishInv'
  <1>0. PICK D \in [Loops -> {0, 1}] : \A l \in Loops : Moved(l, D[l])
    BY QueuesMoved
  <1>1. /\ newest \in Int /\ newest' \in Int /\ (\A e \in Conns : e \in Int)
        /\ tasks \in [Loops -> Seq(TaskRecord)]
    BY TypeStep DEF CoreInv, TypeOK, Conns, ServerAssumption
  <1>2. newest' \in {newest, newest + 1} /\ \A c \in Conns : OldStep(c) /\ NewStep(c)
    BY ConnsStep
  <1>3. ASSUME NEW l \in Loops, NEW i \in 1 .. Len(tasks'[l]), NEW c \in Conns,
               tasks'[l][i] = Task("established", c)
        PROVE  /\ Untouched(c)'
               /\ \A j \in 1 .. Len(tasks'[l]) : tasks'[l][j] = Task("established", c) => j = i
    <2>1. Origin(l, D[l], i, "established", c) /\ Moved(l, D[l]) /\ D[l] \in {0, 1}
      BY <1>0, <1>3, TaskOrigin
    <2>2. CASE /\ i + D[l] \in 1 .. Len(tasks[l]) /\ tasks[l][i + D[l]] = Task("established", c)
               /\ conn[c].loop = l
      <3>1. /\ Untouched(c)
            /\ \A j \in 1 .. Len(tasks[l]) : tasks[l][j] = Task("established", c) => j = i + D[l]
        BY <2>2 DEF EstablishInv, Task
      <3>2. ~(creating = "establish" /\ c = newest)
        BY <2>2 DEF EstablishInv
      <3>3. ~Establishing(c)
        <4>1. ASSUME tasks[l][1] = Task("established", c), Len(tasks[l]) >= 1, tasks' = Rest(l)
              PROVE  FALSE
          <5>1. 1 \in 1 .. Len(tasks[l])
            BY <1>1, <4>1
          <5>2. i + D[l] = 1
            BY <3>1, <4>1, <5>1
          <5>3. i = 1 /\ tasks'[l] = Tail(tasks[l])
            <6>1. tasks' = [tasks EXCEPT ![l] = Tail(tasks[l])]
              BY <4>1 DEF Rest
            <6>2. i \in Nat /\ i >= 1
              OBVIOUS
            <6>. QED  BY <1>1, <2>1, <5>2, <6>1, <6>2
          <5>4. 2 \in 1 .. Len(tasks[l]) /\ tasks'[l][1] = tasks[l][2]
            BY <1>1, <4>1, <5>1, <5>3
          <5>. QED  BY <1>3, <3>1, <5>2, <5>3, <5>4
        <4>. QED  BY <2>2, <3>2, <4>1 DEF Establishing
      <3>4. Untouched(c)'
        BY <3>1, <3>3, UntouchedStep
      <3>5. ASSUME NEW j \in 1 .. Len(tasks'[l]), tasks'[l][j] = Task("established", c) PROVE j = i
        <4>1. Origin(l, D[l], j, "established", c)
          BY <1>0, <3>5, TaskOrigin
        <4>2. ~NewEstablished(l, c)
          BY <3>2 DEF NewEstablished
        <4>3. j + D[l] = i + D[l]
          BY <3>1, <4>1, <4>2 DEF Origin
        <4>. QED  BY <2>1, <4>3
      <3>. QED  BY <3>4, <3>5
    <2>3. CASE NewEstablished(l, c)
      <3>1. /\ creating = "establish" /\ c = newest /\ conn[c].loop = l /\ l # Base
            /\ tasks' = [tasks EXCEPT ![l] = Append(@, Task("established", c))]
        BY <2>3 DEF NewEstablished
      <3>2. /\ Untouched(c)
            /\ \A k \in Loops : \A j \in 1 .. Len(tasks[k]) : tasks[k][j] # Task("established", c)
        BY <3>1 DEF EstablishInv
      <3>3. ~Establishing(c)
        <4>1. ASSUME Len(tasks[l]) >= 1 PROVE tasks[l][1] # Task("established", c)
          <5>1. 1 \in 1 .. Len(tasks[l])
            BY <1>1, <4>1
          <5>. QED  BY <3>2, <5>1
        <4>. QED  BY <3>1, <4>1 DEF Establishing
      <3>4. Untouched(c)'
        BY <3>2, <3>3, UntouchedStep
      <3>5. ASSUME NEW j \in 1 .. Len(tasks'[l]), tasks'[l][j] = Task("established", c)
            PROVE  j = Len(tasks[l]) + 1
        <4>1. Task("established", c) \in TaskRecord
          BY DEF Task, TaskRecord
        <4>2. /\ Len(tasks[l]) \in Nat /\ Len(tasks'[l]) = Len(tasks[l]) + 1
              /\ \A m \in 1 .. Len(tasks[l]) : tasks'[l][m] = tasks[l][m]
          <5>1. tasks'[l] = Append(tasks[l], Task("established", c)) /\ tasks[l] \in Seq(TaskRecord)
            BY <1>1, <3>1
          <5>. QED  BY <4>1, <5>1, AppendElements
        <4>3. ~(j <= Len(tasks[l]))
          BY <3>2, <3>5, <4>2
        <4>. QED  BY <4>2, <4>3
      <3>. QED  BY <1>3, <3>4, <3>5
    <2>. QED  BY <2>1, <2>2, <2>3 DEF Origin
  <1>4. ASSUME creating' = "establish"
        PROVE  /\ Untouched(newest)' /\ newest' \in Conns
               /\ \A l \in Loops : \A i \in 1 .. Len(tasks'[l]) :
                    tasks'[l][i] # Task("established", newest')
    <2>1. newest' \in Conns
      <3>1. newest' >= 1 /\ newest' \in 0 .. ConnCnt
        BY <1>4, CreatingStep, TypeStep DEF CreatingInv, TypeOK
      <3>. QED  BY <3>1 DEF Conns, ServerAssumption
    <2>2. ASSUME NEW l \in Loops, NEW i \in 1 .. Len(tasks'[l]), NEW c \in Conns, c = newest',
                 tasks'[l][i] = Task("established", c)
          PROVE  i + D[l] \in 1 .. Len(tasks[l]) /\ tasks[l][i + D[l]] = Task("established", c)
                 /\ c <= newest
      <3>1. Origin(l, D[l], i, "established", c)
        BY <1>0, <2>2, TaskOrigin
      <3>. QED  BY <1>4, <3>1 DEF Origin, NewEstablished
    <2>3. CASE newest' = newest
      <3>1. creating = "establish"
        BY <1>4, <2>3, MapsStep DEF MapStep
      <3>2. /\ Untouched(newest)
            /\ \A l \in Loops : \A i \in 1 .. Len(tasks[l]) : tasks[l][i] # Task("established", newest)
        BY <3>1 DEF EstablishInv
      <3>3. PICK c \in Conns : c = newest
        BY <2>1, <2>3
      <3>4. ~Establishing(c)
        <4>1. ASSUME NEW l \in Loops, Len(tasks[l]) >= 1 PROVE tasks[l][1] # Task("established", c)
          <5>1. 1 \in 1 .. Len(tasks[l])
            BY <1>1, <4>1
          <5>. QED  BY <3>2, <3>3, <5>1
        <4>2. conn[c].loop \in Loops
          BY DEF CoreInv, TypeOK, ConnRecord
        <4>. QED  BY <1>4, <4>1, <4>2 DEF Establishing
      <3>5. Untouched(c)'
        BY <3>2, <3>3, <3>4, UntouchedStep
      <3>6. Untouched(newest)'
        BY <2>3, <3>3, <3>5 DEF Untouched, Open
      <3>. QED  BY <2>1, <2>2, <2>3, <3>2, <3>6
    <2>4. CASE newest' # newest
      <3>1. PICK c \in Conns : c = newest' /\ c = newest + 1
        BY <1>2, <2>1, <2>4
      <3>2. Accepted(c)
        BY <1>1, <1>2, <3>1 DEF NewStep
      <3>3. ~Open(c)
        BY <1>1, <3>1, OpenIsBorn
      <3>4. \A k \in Loops, g \in Fds : chans'[k][g] # c
        <4>1. c # NoConn
          BY DEF Conns, ServerAssumption
        <4>. QED  BY <3>2, <3>3, <4>1, Registered DEF Accepted
      <3>5. \A k \in Loops : active'[k][c] = {}
        BY <3>2, <3>3 DEF Accepted, CoreInv, ActiveInv
      <3>6. ASSUME NEW l \in Loops, NEW i \in 1 .. Len(tasks'[l]), tasks'[l][i].c = c
            PROVE  tasks'[l][i].op = "enable"
        <4>. DEFINE op == tasks'[l][i].op
        <4>1. tasks'[l][i] = Task(op, c) /\ op \in {"enable", "established", "release", "remove"}
          <5>1. tasks'[l][i] \in TaskRecord
            BY TypeStep DEF TypeOK
          <5>. QED  BY <3>6, <5>1 DEF TaskRecord, Task
        <4>. HIDE DEF op
        <4>2. Origin(l, D[l], i, op, c)
          BY <1>0, <4>1, TaskOrigin
        <4>3. ~(c <= newest) /\ c # newest
          BY <1>1, <3>1
        <4>. QED  BY <4>1, <4>2, <4>3 DEF Origin, NewRelease, NewRemove, NewEstablished, op
      <3>7. conn'[c].open
        BY <3>2 DEF Accepted
      <3>8. Untouched(newest)'
        BY <3>1, <3>4, <3>5, <3>6, <3>7 DEF Untouched, Open
      <3>9. ~(newest' <= newest)
        BY <1>1, <3>1
      <3>. QED  BY <2>1, <2>2, <3>8, <3>9
    <2>. QED  BY <2>3, <2>4
  <1>5. ASSUME NEW l \in Loops, NEW i \in 1 .. Len(tasks'[l]), tasks'[l][i].op = "established"
        PROVE  /\ Untouched(tasks[l][i].c)'
               /\ \A j \in 1 .. Len(tasks'[l]) : tasks'[l][j] = tasks'[l][i] => j = i
    <2>1. PICK c \in Conns : tasks'[l][i] = Task("established", c) /\ tasks'[l][i].c = c
      BY <1>5, TypeStep, TaskTypedNext
    <2>2. Untouched(c)'
      BY <1>3, <2>1
    <2>3. Untouched(tasks[l][i].c)'
      BY <2>1, <2>2 DEF Untouched, Open
    <2>. QED  BY <1>3, <2>1, <2>3
  <1>. QED  BY <1>4, <1>5 DEF EstablishInv

LEMMA OwnedStep ==
  ASSUME ServerAssumption, EnableCnt = 0, CoreInv, OwnedInv, [Next]_vars
  PROVE  OwnedInv'
  <1>0. PICK D \in [Loops -> {0, 1}] : \A l \in Loops : Moved(l, D[l])
    BY QueuesMoved
  <1>1. newest \in Int /\ (\A e \in Conns : e \in Int) /\ Base \in Loops
        /\ tasks \in [Loops -> Seq(TaskRecord)]
    BY DEF CoreInv, TypeOK, Conns, ServerAssumption, Base, Loops
  <1>2. newest' \in {newest, newest + 1} /\ \A c \in Conns : OldStep(c) /\ NewStep(c)
    BY ConnsStep
  <1>3. ASSUME NEW c \in Conns, conn'[c].open
        PROVE  c \in conns' \/ (c = newest' /\ creating' \in {"establish", "insert"})
    <2>1. CASE Accepted(c)
      BY <2>1 DEF Accepted
    <2>2. CASE ~Accepted(c)
      <3>1. Open(c) /\ c <= newest
        BY <1>1, <1>2, <1>3, <2>2, OpenIsBorn DEF OldStep, NewStep, Open
      <3>2. CASE c \in conns
        <4>1. ASSUME Len(tasks[Base]) >= 1, tasks[Base][1] = Task("remove", c) PROVE FALSE
          <5>1. 1 \in 1 .. Len(tasks[Base])
            BY <1>1, <4>1
          <5>. QED  BY <1>1, <3>1, <4>1, <5>1 DEF OwnedInv, Task
        <4>. QED  BY <1>3, <3>2, <4>1, MapsStep DEF MapStep
      <3>3. CASE c = newest /\ creating \in {"establish", "insert"}
        <4>1. newest' = newest
          <5>1. ASSUME newest' # newest PROVE FALSE
            <6>1. newest' = newest + 1 /\ newest' \in Conns
              <7>1. newest' = newest + 1
                BY <1>2, <5>1
              <7>2. newest' \in 0 .. ConnCnt /\ newest \in 0 .. ConnCnt
                BY TypeStep DEF TypeOK, CoreInv
              <7>. QED  BY <7>1, <7>2 DEF Conns, ServerAssumption
            <6>2. PICK d \in Conns : d = newest' /\ d = newest + 1
              BY <6>1
            <6>3. Accepted(d)
              BY <1>1, <1>2, <6>2 DEF NewStep
            <6>. QED  BY <3>3, <6>3 DEF Accepted
          <5>. QED  BY <5>1
        <4>. QED  BY <3>3, <4>1, MapsStep DEF MapStep
      <3>. QED  BY <3>1, <3>2, <3>3 DEF OwnedInv
    <2>. QED  BY <2>1, <2>2
  <1>4. ASSUME NEW l \in Loops, NEW i \in 1 .. Len(tasks'[l]), tasks'[l][i].op = "remove"
        PROVE  ~conn'[tasks'[l][i].c].open
    <2>1. PICK c \in Conns : tasks'[l][i] = Task("remove", c) /\ tasks'[l][i].c = c
      BY <1>4, TypeStep, TaskTypedNext
    <2>2. Origin(l, D[l], i, "remove", c)
      BY <1>0, <2>1, TaskOrigin
    <2>3. CASE i + D[l] \in 1 .. Len(tasks[l]) /\ tasks[l][i + D[l]] = Task("remove", c)
               /\ c <= newest
      <3>1. tasks[l][i + D[l]].op = "remove" /\ tasks[l][i + D[l]].c = c
        BY <2>3 DEF Task
      <3>2. ~Open(c)
        BY <2>3, <3>1 DEF OwnedInv
      <3>. QED  BY <1>2, <2>1, <2>3, <3>2 DEF OldStep, Open
    <2>4. CASE NewRemove(l, c)
      BY <2>1, <2>4 DEF NewRemove, Open
    <2>. QED  BY <2>2, <2>3, <2>4 DEF Origin
  <1>. QED  BY <1>3, <1>4 DEF OwnedInv, Open

LEMMA ServedStep ==
  ASSUME ServerAssumption, EnableCnt = 0, CoreInv, StaleInv, EstablishedIsServed, [Next]_vars
  PROVE  EstablishedIsServed'
  <1>1. PollersAgree' /\ TypeOK'
    BY PollersStep, TypeStep
  <1>2. ASSUME NEW c \in Conns, conn'[c].open, conn'[c].ev # {}
        PROVE  /\ chans'[conn'[c].loop][conn'[c].fd] = c
               /\ conn'[c].loop \in Loops /\ conn'[c].fd \in Fds
    <2>1. newest \in Int /\ \A e \in Conns : e \in Int
      BY DEF CoreInv, TypeOK, Conns, ServerAssumption
    <2>2. OldStep(c) /\ NewStep(c) /\ ~Accepted(c)
      BY <1>2, ConnsStep DEF Accepted
    <2>3. Open(c) /\ c <= newest
      BY <1>2, <2>1, <2>2, OpenIsBorn DEF OldStep, NewStep, Open
    <2>4. conn'[c].loop = conn[c].loop /\ conn'[c].fd = conn[c].fd
      BY <2>2, <2>3 DEF OldStep
    <2>. DEFINE l == conn[c].loop
                f == conn[c].fd
    <2>5. l \in Loops /\ f \in Fds /\ Len(tasks[l]) \in Nat
      BY <2>3, OpenIsBorn DEF ConnRecord, CoreInv, TypeOK
    <2>6. ChannelStep(c)
      BY ChannelsStep
    <2>7. CASE conn'[c].ev # conn[c].ev
      BY <2>3, <2>4, <2>5, <2>6, <2>7 DEF ChannelStep
    <2>8. CASE conn'[c].ev = conn[c].ev
      <3>1. chans[l][f] = c
        BY <1>2, <2>3, <2>8 DEF EstablishedIsServed
      <3>2. ASSUME NEW d \in Conns, Len(tasks[l]) >= 1, tasks[l][1] = Task("release", d),
                   conn[d].fd = f, conn[d].loop = l, phase[l] = "tasks", d # c
            PROVE  FALSE
        <4>1. ~Open(d)
          BY <2>3, <3>2 DEF CoreInv, FdInv
        <4>2. 1 \in 1 .. Len(tasks[l])
          BY <2>5, <3>2
        <4>3. tasks[l][1].op = "release" /\ tasks[l][1].c = d
          BY <3>2 DEF Task
        <4>4. conn[c].ev = {}
          <5>1. l = conn[c].loop /\ conn[c].fd = conn[d].fd
            BY <3>2
          <5>. HIDE DEF l, f
          <5>. QED  BY <2>3, <2>5, <4>1, <4>2, <4>3, <5>1 DEF StaleInv
        <4>. QED  BY <1>2, <2>8, <4>4
      <3>. QED  BY <1>2, <2>3, <2>4, <2>5, <2>6, <3>1, <3>2 DEF ChannelStep
    <2>. QED  BY <2>7, <2>8
  <1>3. ASSUME NEW c \in Conns, conn'[c].open, conn'[c].ev # {}
        PROVE  epoll'[conn'[c].loop][conn'[c].fd] = conn'[c].ev
    <2>1. c # NoConn
      BY DEF Conns, ServerAssumption
    <2>2. \A k \in Loops, g \in Fds : chans'[k][g] = c => epoll'[k][g] = conn'[c].ev
      BY <1>1, <2>1 DEF PollersAgree
    <2>. QED  BY <1>2, <1>3, <2>2
  <1>. QED  BY <1>2, <1>3 DEF EstablishedIsServed, Open

LEMMA ServedInit ==
  ASSUME ServerAssumption, Init
  PROVE  ServedInv
  <1>1. ReleaseInv /\ StaleInv /\ EstablishInv
    BY DEF ReleaseInv, StaleInv, EstablishInv, Init
  <1>2. OwnedInv /\ EstablishedIsServed
    BY DEF OwnedInv, EstablishedIsServed, Init, Unborn, Open
  <1>. QED  BY <1>1, <1>2, CoreInit DEF ServedInv

LEMMA ServedNext ==
  ASSUME ServerAssumption, EnableCnt = 0, ServedInv, [Next]_vars
  PROVE  ServedInv'
  BY CoreStep, ReleaseStep, StaleStep, EstablishStep, OwnedStep, ServedStep DEF ServedInv

(* Who owns what the queues and the pollers point to. *)
LEMMA ServedOwned ==
  ASSUME ServerAssumption, EnableCnt = 0, ServedInv
  PROVE  NoDanglingPointer
  <1>1. ASSUME NEW c \in Conns, Open(c) PROVE Exists(c)
    BY <1>1 DEF ServedInv, OwnedInv, Exists
  <1>2. ASSUME NEW l \in Loops, NEW i \in DOMAIN tasks[l] PROVE Exists(tasks[l][i].c)
    <2>1. i \in 1 .. Len(tasks[l]) /\ tasks[l][i] \in TaskRecord
      BY DEF ServedInv, CoreInv, TypeOK
    <2>2. PICK c \in Conns : c = tasks[l][i].c /\ tasks[l][i] = Task(tasks[l][i].op, c)
      BY <2>1 DEF TaskRecord, Task
    <2>3. CASE tasks[l][i].op \in {"release", "remove"}
      BY <2>2, <2>3 DEF Exists, OwningTasks, Queued
    <2>4. CASE tasks[l][i].op = "established"
      BY <1>1, <2>1, <2>2, <2>4 DEF ServedInv, EstablishInv, Untouched
    <2>5. CASE tasks[l][i].op = "enable"
      BY <2>1, <2>5 DEF ServedInv, CoreInv, EnableInv
    <2>. QED  BY <2>1, <2>3, <2>4, <2>5 DEF TaskRecord
  <1>3. ASSUME NEW l \in Loops, NEW f \in Fds, chans[l][f] # NoConn PROVE Exists(chans[l][f])
    <2>1. PICK c \in Conns : c = chans[l][f]
      BY <1>3 DEF ServedInv, CoreInv, TypeOK
    <2>2. Open(c)
      BY <1>3, <2>1, Registered DEF ServedInv
    <2>. QED  BY <1>1, <2>1, <2>2
  <1>4. ASSUME NEW l \in Loops, NEW c \in Conns, active[l][c] # {} PROVE Exists(c)
    BY <1>1, <1>4 DEF ServedInv, CoreInv, ActiveInv
  <1>. QED  BY <1>2, <1>3, <1>4 DEF NoDanglingPointer

(* Where no idle timeout is enabled, an established connection that is not *)
(* closed stays registered with its loop, for every number of loops,       *)
(* connections and descriptors: the second release of a connection cannot  *)
(* come after its number is registered again.                              *)
THEOREM EstablishedServed ==
  ASSUME EnableCnt = 0
  PROVE  Spec => []EstablishedIsServed
  <1>1. Init => ServedInv
    BY ServedInit, ServerAssumption
  <1>2. ServedInv /\ [Next]_vars => ServedInv'
    BY ServedNext, ServerAssumption
  <1>3. ServedInv => EstablishedIsServed
    BY DEF ServedInv
  <1>. QED  BY <1>1, <1>2, <1>3, PTL DEF Spec

(* Where no idle timeout is enabled, no task and no event reaches a        *)
(* connection that was destroyed.                                          *)
THEOREM NothingDangles ==
  ASSUME EnableCnt = 0
  PROVE  Spec => []NoDanglingPointer
  <1>1. Init => ServedInv
    BY ServedInit, ServerAssumption
  <1>2. ServedInv /\ [Next]_vars => ServedInv'
    BY ServedNext, ServerAssumption
  <1>3. ServedInv => NoDanglingPointer
    BY ServedOwned, ServerAssumption
  <1>. QED  BY <1>1, <1>2, <1>3, PTL DEF Spec

-----------------------------------------------------------------------------
(***************************************************************************)
(* Why a connection is closed.  A release is only queued of a connection   *)
(* that owes its peer nothing, or whose peer reset it; the peer left or    *)
(* the user shut the connection down.                                      *)
(***************************************************************************)
Settled(r, g) ==
  /\ r.out = 0 \/ g = "rst"
  /\ g # "no" \/ r.status = "DISCONNECTING"

(* The connection is written to while it has output, and while its         *)
(* handlers run it calls Release when it is settled.                       *)
Minded(r, g) ==
  /\ "out" \in r.ev => r.out > 0
  /\ r.releases > 0 => Settled(r, g)

LEMMA SendMinded ==
  ASSUME NEW S, NEW f, NEW l, NEW o, NEW k, NEW r \in Handled(S, f, l, o, k), NEW g,
         Minded(r, g), r.releases = 0 \/ g = "rst"
  PROVE  /\ Minded(Send(r), g) /\ Send(r).releases = r.releases
         /\ Send(r).status = r.status /\ (r.out > 0 => Send(r).out > 0)
  <1>1. CASE r.status = "DISCONNECTED"
    BY <1>1 DEF Send
  <1>2. CASE r.status # "DISCONNECTED"
    <2>1. PICK n \in {1, 2} : n = IF Partial THEN 2 ELSE 1
      OBVIOUS
    <2>2. Send(r) = [r EXCEPT !.out = n, !.ev = @ \union {"out"}]
      BY <1>2, <2>1 DEF Send
    <2>3. /\ Send(r).out = n /\ Send(r).releases = r.releases /\ Send(r).status = r.status
      BY <2>2 DEF Handled
    <2>4. r.releases \in Nat
      BY DEF Handled
    <2>. HIDE DEF Send
    <2>. QED  BY <2>1, <2>3, <2>4 DEF Minded, Settled
  <1>. QED  BY <1>1, <1>2

LEMMA EndShutdownMinded ==
  ASSUME NEW S, NEW f, NEW l, NEW o, NEW k, NEW r \in Handled(S, f, l, o, k), NEW g,
         Minded(r, g), r.status = "DISCONNECTING"
  PROVE  /\ Minded(EndShutdown(r), g) /\ EndShutdown(r).status = "DISCONNECTING"
         /\ EndShutdown(r).out = r.out
  <1>1. CASE r.out > 0
    <2>1. EndShutdown(r) = [r EXCEPT !.ev = @ \union {"out"}]
      BY <1>1 DEF EndShutdown
    <2>2. /\ EndShutdown(r).out = r.out /\ EndShutdown(r).releases = r.releases
          /\ EndShutdown(r).status = r.status
      BY <2>1 DEF Handled
    <2>. HIDE DEF EndShutdown
    <2>. QED  BY <1>1, <2>2 DEF Minded, Settled
  <1>2. CASE ~(r.out > 0)
    <2>1. EndShutdown(r) = [r EXCEPT !.releases = @ + 1]
      BY <1>2 DEF EndShutdown, Release
    <2>2. /\ EndShutdown(r).out = r.out /\ EndShutdown(r).ev = r.ev
          /\ EndShutdown(r).status = r.status /\ r.out = 0
      BY <1>2, <2>1 DEF Handled
    <2>. HIDE DEF EndShutdown
    <2>. QED  BY <2>2 DEF Minded, Settled
  <1>. QED  BY <1>1, <1>2

LEMMA FinishMinded ==
  ASSUME NEW S, NEW f, NEW l, NEW o, NEW k, NEW r \in Handled(S, f, l, o, k), NEW g,
         Minded(r, g), "DISCONNECTING" \in S
  PROVE  Minded(Finish(r), g) /\ Finish(r).status = "DISCONNECTING" /\ Finish(r).out = r.out
  <1>. DEFINE u == [r EXCEPT !.status = "DISCONNECTING"]
  <1>1. /\ u \in Handled(S, f, l, o, k) /\ u.status = "DISCONNECTING"
        /\ u.out = r.out /\ u.ev = r.ev /\ u.releases = r.releases
    BY DEF Handled
  <1>2. Minded(u, g)
    BY <1>1 DEF Minded, Settled
  <1>3. Finish(r) = EndShutdown(u)
    BY DEF Finish
  <1>. HIDE DEF u
  <1>. QED  BY <1>1, <1>2, <1>3, EndShutdownMinded

(* The message callback may answer what it took, not after a Release. *)
LEMMA MessageMinded ==
  ASSUME ServerAssumption, "blank" \notin Reactions,
         NEW S, NEW f, NEW l, NEW o, NEW k, NEW r \in Handled(S, f, l, o, k), NEW g,
         "DISCONNECTING" \in S, NEW m \in Reactions,
         Minded(r, g), r.releases = 0 \/ g = "rst"
  PROVE  /\ Minded(Message(r, m), g)
         /\ r.out > 0 => Message(r, m).out > 0
         /\ r.status = "DISCONNECTING" => Message(r, m).status = "DISCONNECTING"
  <1>. DEFINE u == [r EXCEPT !.in = FALSE]
  <1>1. /\ u \in Handled(S, f, l, o, k) /\ u.status = r.status
        /\ u.out = r.out /\ u.ev = r.ev /\ u.releases = r.releases
    BY DEF Handled
  <1>2. Minded(u, g)
    BY <1>1 DEF Minded, Settled
  <1>3. m \in {"wait", "echo", "finish", "close"}
    BY DEF ServerAssumption
  <1>4. /\ m = "wait" => React(r, m) = r
        /\ m = "echo" => React(r, m) = Send(u)
        /\ m = "finish" => React(r, m) = Finish(Send(u))
        /\ m = "close" => React(r, m) = Finish(u)
    BY DEF React
  <1>. HIDE DEF u
  <1>5. /\ Minded(Send(u), g) /\ Send(u).status = u.status /\ (u.out > 0 => Send(u).out > 0)
        /\ Send(u) \in Handled(S, f, l, o, k)
    BY <1>1, <1>2, SendMinded, SendHandled
  <1>6. /\ Minded(React(r, m), g)
        /\ r.out > 0 => React(r, m).out > 0
        /\ r.status = "DISCONNECTING" => React(r, m).status = "DISCONNECTING"
    <2>1. CASE m = "wait"
      BY <1>4, <2>1
    <2>2. CASE m = "echo"
      BY <1>1, <1>4, <1>5, <2>2
    <2>3. CASE m = "finish"
      BY <1>1, <1>4, <1>5, <2>3, FinishMinded
    <2>4. CASE m = "close"
      BY <1>1, <1>2, <1>4, <2>4, FinishMinded
    <2>. QED  BY <1>3, <2>1, <2>2, <2>3, <2>4
  <1>. QED  BY <1>6 DEF Message

LEMMA ShutDownMinded ==
  ASSUME ServerAssumption, "blank" \notin Reactions,
         NEW S, NEW f, NEW l, NEW o, NEW k, NEW r \in Handled(S, f, l, o, k), NEW g,
         "DISCONNECTING" \in S, NEW m \in Reactions,
         Minded(r, g), r.releases = 0
  PROVE  /\ Minded(ShutDownInLoop(r, m), g)
         /\ r.out > 0 => ShutDownInLoop(r, m).out > 0
  <1>. DEFINE u == [r EXCEPT !.status = "DISCONNECTING"]
              v == Message(u, m)
  <1>1. /\ u \in Handled(S, f, l, o, k) /\ u.status = "DISCONNECTING"
        /\ u.out = r.out /\ u.ev = r.ev /\ u.releases = 0
    BY DEF Handled
  <1>2. Minded(u, g)
    BY <1>1 DEF Minded
  <1>3. ShutDownInLoop(r, m) = EndShutdown(v)
    BY DEF ShutDownInLoop
  <1>4. /\ v \in Handled(S, f, l, o, k) /\ Minded(v, g) /\ v.status = "DISCONNECTING"
        /\ u.out > 0 => v.out > 0
    <2>. HIDE DEF u
    <2>. QED  BY <1>1, <1>2, MessageHandled, MessageMinded
  <1>. HIDE DEF u, v
  <1>. QED  BY <1>1, <1>3, <1>4, EndShutdownMinded

LEMMA HanderReadMinded ==
  ASSUME ServerAssumption, "blank" \notin Reactions,
         NEW S, NEW f, NEW l, NEW o, NEW k, NEW r \in Handled(S, f, l, o, k),
         "DISCONNECTING" \in S, NEW m \in Reactions, NEW c, rx[c] \in BOOLEAN, NEW no,
         Minded(r, gone[c]), r.releases = 0
  PROVE  /\ Minded(HanderRead(r, c, no, m), gone[c])
         /\ r.out > 0 => HanderRead(r, c, no, m).out > 0
  <1>. DEFINE u == [r EXCEPT !.in = @ \/ rx[c]]
  <1>1. /\ u \in Handled(S, f, l, o, k) /\ u.out = r.out /\ u.ev = r.ev /\ u.releases = 0
    BY DEF Handled
  <1>2. Minded(u, gone[c])
    BY <1>1 DEF Minded
  <1>3. HanderRead(r, c, no, m) = IF RecvFails(c, no) THEN ShutDownInLoop(r, m) ELSE Message(u, m)
    BY DEF HanderRead
  <1>. HIDE DEF u
  <1>4. /\ Minded(Message(u, m), gone[c])
        /\ u.out > 0 => Message(u, m).out > 0
    BY <1>1, <1>2, MessageMinded
  <1>. QED  BY <1>1, <1>3, <1>4, ShutDownMinded

(* The other handlers release a connection that the peer reset. *)
LEMMA ResetMinded ==
  ASSUME ServerAssumption, "blank" \notin Reactions,
         NEW S, NEW f, NEW l, NEW o, NEW k, NEW r \in Handled(S, f, l, o, k),
         "DISCONNECTING" \in S, NEW m \in Reactions,
         Minded(r, "rst")
  PROVE  Minded(Release(Message(r, m)), "rst")
  <1>. DEFINE v == Message(r, m)
  <1>1. v \in Handled(S, f, l, o, k) /\ Minded(v, "rst")
    BY MessageHandled, MessageMinded
  <1>. HIDE DEF v
  <1>2. Release(v).ev = v.ev /\ Release(v).out = v.out
    BY <1>1 DEF Release, Handled
  <1>. QED  BY <1>1, <1>2 DEF Minded, Settled, v

LEMMA AfterSendMinded ==
  ASSUME NEW S, NEW f, NEW l, NEW o, NEW k, NEW r \in Handled(S, f, l, o, k), NEW g,
         NEW all \in BOOLEAN, Minded(r, g), r.out > 0
  PROVE  Minded(AfterSend(r, all), g)
  <1>0. r.releases > 0 => g = "rst"
    BY DEF Minded, Settled
  <1>1. CASE r.out = 2 /\ ~all
    <2>. DEFINE u == [r EXCEPT !.out = 1]
    <2>1. u.ev = r.ev /\ u.out = 1 /\ u.releases = r.releases
      BY DEF Handled
    <2>2. AfterSend(r, all) = u
      BY <1>1 DEF AfterSend
    <2>. HIDE DEF u
    <2>. QED  BY <1>0, <2>1, <2>2 DEF Minded, Settled
  <1>2. CASE ~(r.out = 2 /\ ~all)
    <2>. DEFINE sent == [r EXCEPT !.out = 0, !.ev = @ \ {"out"}]
    <2>1. /\ "out" \notin sent.ev /\ sent.out = 0 /\ sent.releases = r.releases
          /\ sent.status = r.status
      BY DEF Handled
    <2>2. AfterSend(r, all) = IF r.status = "DISCONNECTING" THEN Release(sent) ELSE sent
      BY <1>2 DEF AfterSend
    <2>3. /\ "out" \notin Release(sent).ev /\ Release(sent).out = 0
          /\ Release(sent).status = r.status
      BY DEF Release, Handled
    <2>. HIDE DEF sent
    <2>4. Minded(sent, g)
      BY <1>0, <2>1 DEF Minded, Settled
    <2>5. r.status = "DISCONNECTING" => Minded(Release(sent), g)
      BY <2>3 DEF Minded, Settled
    <2>. QED  BY <2>2, <2>4, <2>5
  <1>. QED  BY <1>1, <1>2

LEMMA HanderEventsMinded ==
  ASSUME ServerAssumption, "blank" \notin Reactions,
         NEW S, NEW f, NEW l, NEW o, NEW k, NEW r \in Handled(S, f, l, o, k),
         "DISCONNECTING" \in S, NEW m1 \in Reactions, NEW m2 \in Reactions,
         NEW c, rx[c] \in BOOLEAN, NEW no, NEW rev, NEW all \in BOOLEAN,
         Minded(r, gone[c]), r.releases = 0,
         "out" \in rev => r.out > 0, "hup" \in rev => gone[c] = "rst"
  PROVE  Minded(HanderEvents(r, c, no, rev, m1, m2, all), gone[c])
  <1>. DEFINE read == IF "in" \in rev THEN HanderRead(r, c, no, m1) ELSE r
              no1 == IF "in" \in rev THEN ErrnoAfter(c, no) ELSE no
  <1>1. read \in Handled(S, f, l, o, k) /\ Minded(read, gone[c]) /\ (r.out > 0 => read.out > 0)
    BY HanderReadHandled, HanderReadMinded
  <1>2. HanderEvents(r, c, no, rev, m1, m2, all) =
          IF "out" \in rev THEN HanderWrite(read, c, no1, m2, all)
          ELSE IF "hup" \in rev THEN HanderClose(read, m2)
          ELSE read
    BY DEF HanderEvents
  <1>. HIDE DEF read, no1
  <1>3. ASSUME "out" \in rev PROVE Minded(HanderWrite(read, c, no1, m2, all), gone[c])
    <2>1. read.out > 0
      BY <1>1, <1>3
    <2>2. CASE gone[c] = "rst"
      <3>1. HanderWrite(read, c, no1, m2, all) = Release(Message(read, m2))
        BY <2>2 DEF HanderWrite, SendFails
      <3>. QED  BY <1>1, <2>2, <3>1, ResetMinded
    <2>3. CASE gone[c] # "rst"
      <3>1. HanderWrite(read, c, no1, m2, all) = AfterSend(read, all)
        BY <2>1, <2>3 DEF HanderWrite, SendFails
      <3>. QED  BY <1>1, <2>1, <3>1, AfterSendMinded
    <2>. QED  BY <2>2, <2>3
  <1>4. ASSUME "hup" \in rev PROVE Minded(HanderClose(read, m2), gone[c])
    BY <1>1, <1>4, ResetMinded DEF HanderClose
  <1>. QED  BY <1>1, <1>2, <1>3, <1>4

(* Connections are written to, and events of writing and hang-ups wait, for *)
(* a reason; all that have a release queued are settled.                   *)
MindedInv ==
  /\ \A c \in Conns : "out" \in conn[c].ev => conn[c].out > 0
  /\ \A l \in Loops, c \in Conns :
       /\ "out" \in active[l][c] => conn[c].out > 0
       /\ "hup" \in active[l][c] => gone[c] = "rst"
  /\ \A l \in Loops : \A i \in 1 .. Len(tasks[l]) : tasks[l][i].op = "release" =>
       /\ active[l][tasks[l][i].c] = {}
       /\ Open(tasks[l][i].c) => Settled(conn[tasks[l][i].c], gone[tasks[l][i].c])

(* What a step does to a connection's output, and to what is known of it.  *)
MindedStep(c) ==
  /\ gone[c] = "rst" => gone'[c] = "rst"
  /\ gone[c] # "no" => gone'[c] # "no"
  /\ "out" \in conn'[c].ev => conn'[c].out > 0
  /\ \/ conn'[c].out = conn[c].out /\ (conn'[c].status = conn[c].status \/ ~conn'[c].open)
     \/ Accepted(c)
     \/ /\ \A l \in Loops : active'[l][c] = {}
        /\ \E l \in Loops : active[l][c] # {}
  /\ \A l \in Loops :
       /\ \/ active'[l][c] = {} \/ active'[l][c] = active[l][c]
          \/ /\ phase[l] = "poll"
             /\ "out" \in active'[l][c] => conn'[c].out > 0
             /\ "hup" \in active'[l][c] => gone'[c] = "rst"
       /\ active[l][c] # {} /\ active'[l][c] = {} /\ Len(tasks'[l]) > Len(tasks[l]) =>
            Settled(conn'[c], gone'[c])

(* What epoll_wait reports agrees with the channel and with the kernel.    *)
LEMMA ReportedMinded ==
  ASSUME ServerAssumption, CoreInv, MindedInv, NEW l \in Loops, NEW c \in Conns
  PROVE  /\ "out" \in Reported(l)[c] => conn[c].out > 0
         /\ "hup" \in Reported(l)[c] => gone[c] = "rst"
  <1>. DEFINE Q == {Revents(o, epoll[l][f]) :
                      f \in {g \in Fds : chans[l][g] = c}, o \in Owner(conn[c].fd)}
  <1>1. Reported(l)[c] = UNION Q
    BY DEF Reported
  <1>2. ASSUME NEW e \in Reported(l)[c], e \in {"out", "hup"}
        PROVE  (e = "out" => e \in conn[c].ev) /\ (e = "hup" => gone[c] = "rst")
    <2>1. PICK f \in Fds, o \in Conns :
            chans[l][f] = c /\ o \in Owner(conn[c].fd) /\ e \in Revents(o, epoll[l][f])
      <3>1. PICK q \in Q : e \in q
        <4>. HIDE DEF Q
        <4>. QED  BY <1>1, <1>2
      <3>. QED  BY <3>1 DEF Owner
    <2>2. c # NoConn
      BY DEF Conns, ServerAssumption
    <2>3. Open(c) /\ conn[c].fd = f /\ epoll[l][f] = conn[c].ev
      BY <2>1, <2>2, Registered
    <2>4. o = c
      BY <2>1, <2>3 DEF Owner, CoreInv, FdInv
    <2>5. conn[c].ev \in SUBSET {"in", "out"}
      <3>1. conn[c] \in ConnRecord
        BY <2>3, OpenIsBorn
      <3>. QED  BY <3>1 DEF ConnRecord
    <2>6. e \in Revents(c, conn[c].ev)
      BY <2>1, <2>3, <2>4
    <2>7. "hup" \notin conn[c].ev /\ conn[c].ev # Off
      BY <2>5 DEF Off
    <2>8. e \in conn[c].ev \/ (gone[c] = "rst" /\ e \in {"hup", "err"})
      <3>. DEFINE ev == conn[c].ev
      <3>1. e \in Revents(c, ev) /\ ev # Off
        BY <2>6, <2>7
      <3>. HIDE DEF ev
      <3>2. CASE gone[c] = "rst"
        BY <3>1, <3>2 DEF Revents, ev
      <3>3. CASE gone[c] # "rst"
        BY <3>1, <3>3 DEF Revents, ev
      <3>. QED  BY <3>2, <3>3
    <2>. QED  BY <2>7, <2>8
  <1>. QED  BY <1>2 DEF MindedInv

LEMMA MindedSteps ==
  ASSUME ServerAssumption, EnableCnt = 0, "blank" \notin Reactions, CoreInv, MindedInv, [Next]_vars
  PROVE  \A c \in Conns : MindedStep(c)
  <1>. USE DEF kernelVars, loopVars, baseVars
  <1>. DEFINE Goal == \A c \in Conns : MindedStep(c)
  <1>0. /\ \A c \in Conns : "out" \in conn[c].ev => conn[c].out > 0
        /\ conn \in [Conns -> ConnRecord] /\ gone \in [Conns -> {"no", "fin", "rst"}]
        /\ active \in [Loops -> [Conns -> SUBSET {"in", "out", "hup", "err"}]]
        /\ tasks \in [Loops -> Seq(TaskRecord)]
    BY DEF CoreInv, TypeOK, MindedInv
  <1>1. ASSUME UNCHANGED <<conn, active>>,
               \A c \in Conns : /\ gone[c] = "rst" => gone'[c] = "rst"
                                /\ gone[c] # "no" => gone'[c] # "no"
        PROVE  Goal
    BY <1>0, <1>1 DEF MindedStep
  <1>2. ASSUME NEW c \in Conns, DataArrives(c) \/ PeerLeaves(c) \/ SendBufferDrains(c) PROVE Goal
    BY <1>0, <1>1, <1>2 DEF DataArrives, PeerLeaves, SendBufferDrains
  <1>3. ASSUME NEW l \in Loops, \/ PollInterrupted(l) \/ EnableTimeoutDel(l) \/ ExcuteTimer(l)
                               \/ SwapTasks(l) \/ RunEnable(l)
        PROVE  Goal
    BY <1>1, <1>3 DEF PollInterrupted, EnableTimeoutDel, ExcuteTimer, SwapTasks, RunEnable
  <1>4. ASSUME NEW l \in Loops, Poll(l) PROVE Goal
    <2>1. /\ phase[l] = "poll" /\ active' = [active EXCEPT ![l] = Reported(l)]
          /\ UNCHANGED <<conn, gone, tasks>>
      BY <1>4 DEF Poll
    <2>2. \A c \in Conns : active[l][c] = {}
      BY <2>1 DEF CoreInv, ActiveInv
    <2>3. ASSUME NEW c \in Conns PROVE MindedStep(c)
      BY <1>0, <2>1, <2>2, ReportedMinded DEF MindedStep
    <2>. QED  BY <2>3
  <1>5. ASSUME NEW l \in Loops, HanderEvent(l) PROVE Goal
    <2>0. PICK c \in Conns, m1 \in Reactions, m2 \in Reactions, all \in BOOLEAN :
            LET r == HanderEvents(conn[c], c, errno[l], active[l][c], m1, m2, all) IN
            /\ r \in Handled(Statuses, conn[c].fd, conn[c].loop, conn[c].open, conn[c].closes)
            /\ EventStep(l, c, r)
      BY <1>5, HanderEventIs
    <2>. DEFINE r == HanderEvents(conn[c], c, errno[l], active[l][c], m1, m2, all)
                u == [r EXCEPT !.releases = 0]
    <2>1. EventStep(l, c, r)
          /\ r \in Handled(Statuses, conn[c].fd, conn[c].loop, conn[c].open, conn[c].closes)
      BY <2>0
    <2>2. Open(c) /\ conn[c].loop = l /\ (\A k \in Loops : k # l => active[k][c] = {})
      BY <2>1 DEF EventStep, CoreInv, ActiveInv
    <2>3. Minded(r, gone[c])
      <3>1. conn[c] \in Handled(Statuses, conn[c].fd, conn[c].loop, conn[c].open, conn[c].closes)
            /\ conn[c].releases = 0
        BY <2>2, OpenIsBorn DEF ConnRecord, Handled
      <3>2. Minded(conn[c], gone[c])
        BY <1>0, <3>1 DEF Minded
      <3>3. /\ "out" \in active[l][c] => conn[c].out > 0
            /\ "hup" \in active[l][c] => gone[c] = "rst"
        BY DEF MindedInv
      <3>4. "DISCONNECTING" \in Statuses /\ rx[c] \in BOOLEAN
        BY DEF Statuses, CoreInv, TypeOK
      <3>. QED  BY <3>1, <3>2, <3>3, <3>4, HanderEventsMinded
    <2>. HIDE DEF r
    <2>4. u.ev = r.ev /\ u.out = r.out /\ u.status = r.status /\ r.releases \in Nat
      BY <2>1 DEF Handled
    <2>5. /\ conn' = [conn EXCEPT ![c] = u] /\ active' = [active EXCEPT ![l][c] = {}] /\ gone' = gone
          /\ tasks' = [tasks EXCEPT ![l] = @ \o [i \in 1 .. r.releases |-> Task("release", c)]]
      BY <2>1 DEF EventStep
    <2>. HIDE DEF u
    <2>6. Len(tasks'[l]) > Len(tasks[l]) => r.releases > 0
      <3>. DEFINE n == r.releases
      <3>1. Task("release", c) \in TaskRecord
        BY DEF Task, TaskRecord
      <3>2. tasks'[l] = tasks[l] \o [i \in 1 .. n |-> Task("release", c)]
        BY <1>0, <2>5
      <3>3. Len(tasks'[l]) = Len(tasks[l]) + n
        <4>. HIDE DEF n
        <4>1. n \in Nat
          BY <2>4 DEF n
        <4>. QED  BY <1>0, <3>1, <3>2, <4>1, ConcatElements
      <3>4. Len(tasks[l]) \in Nat
        BY <1>0
      <3>. QED  BY <2>4, <3>3, <3>4
    <2>7. MindedStep(c)
      <3>1. conn'[c] = u /\ gone'[c] = gone[c] /\ (\A k \in Loops : active'[k][c] = {})
        BY <1>0, <2>2, <2>5
      <3>2. active[l][c] # {} /\ (\A k \in Loops : active[k][c] # {} => k = l)
        BY <2>1, <2>2 DEF EventStep
      <3>3. /\ "out" \in u.ev => u.out > 0
            /\ r.releases > 0 => Settled(u, gone[c])
        BY <2>3, <2>4 DEF Minded, Settled
      <3>. QED  BY <2>6, <3>1, <3>2, <3>3 DEF MindedStep
    <2>8. ASSUME NEW d \in Conns, d # c PROVE MindedStep(d)
      <3>1. conn'[d] = conn[d] /\ gone'[d] = gone[d] /\ (\A k \in Loops : active'[k][d] = active[k][d])
        BY <1>0, <2>5, <2>8
      <3>. QED  BY <1>0, <3>1 DEF MindedStep
    <2>. QED  BY <2>7, <2>8
  <1>6. ASSUME NEW c \in Conns, EstablishedInLoop(c), UNCHANGED <<active, gone>> PROVE Goal
    <2>1. CASE conn[c].status = "CONNECTING"
      <3>1. conn' = [conn EXCEPT ![c] = [conn[c] EXCEPT !.ev = {"in"}]]
        BY <1>6, <2>1 DEF EstablishedInLoop
      <3>2. /\ conn'[c].ev = {"in"} /\ conn'[c].out = conn[c].out /\ conn'[c].status = conn[c].status
            /\ \A d \in Conns : d # c => conn'[d] = conn[d]
        BY <1>0, <3>1 DEF ConnRecord
      <3>. QED  BY <1>0, <1>6, <3>2 DEF MindedStep
    <2>2. CASE conn[c].status # "CONNECTING"
      BY <1>1, <1>6, <2>2 DEF EstablishedInLoop
    <2>. QED  BY <2>1, <2>2
  <1>7. ASSUME NEW l \in Loops, RunEstablished(l) PROVE Goal
    <2>1. PICK c \in Conns : TaskStep(l, "established", c)
      BY <1>7, TakesFacts DEF RunEstablished
    <2>. QED  BY <1>6, <1>7, <2>1 DEF RunEstablished, TaskStep
  <1>8. ASSUME NEW l \in Loops, ReleaseInloop(l) PROVE Goal
    <2>1. PICK c \in Conns : TaskStep(l, "release", c)
      BY <1>8, TakesFacts DEF ReleaseInloop
    <2>2. conn' = [conn EXCEPT ![c] = Closed(@)] /\ UNCHANGED <<active, gone>>
      BY <1>8, <2>1 DEF ReleaseInloop, TaskStep
    <2>3. Closed(conn[c]).ev = conn[c].ev /\ Closed(conn[c]).out = conn[c].out /\ ~Closed(conn[c]).open
      BY <1>0 DEF Closed, ConnRecord
    <2>4. /\ conn'[c].ev = conn[c].ev /\ conn'[c].out = conn[c].out /\ ~conn'[c].open
          /\ \A d \in Conns : d # c => conn'[d] = conn[d]
      BY <1>0, <2>2, <2>3
    <2>. QED  BY <1>0, <2>2, <2>4 DEF MindedStep
  <1>9. ASSUME RemoveConnectionInLoop \/ AcceptFails \/ Insert PROVE Goal
    BY <1>1, <1>9 DEF RemoveConnectionInLoop, AcceptFails, Insert
  <1>10. ASSUME Accept PROVE Goal
    <2>1. newest' = newest + 1 /\ newest \in Int /\ newest + 1 \in Conns /\ UNCHANGED <<active, gone>>
      BY <1>10 DEF CoreInv, CreatingInv, TypeOK, Conns, ServerAssumption, Accept
    <2>2. Accepted(newest + 1)
      BY <2>1, ConnsStep DEF NewStep
    <2>. QED  BY <1>0, <2>1, <2>2 DEF MindedStep, Accepted
  <1>11. ASSUME Established PROVE Goal
    <2>1. newest \in Conns
      BY <1>11 DEF CoreInv, CreatingInv, TypeOK, Conns, ServerAssumption, Established
    <2>2. CASE conn[newest].loop = Base
      BY <1>6, <1>11, <2>1, <2>2 DEF Established
    <2>3. CASE conn[newest].loop # Base
      BY <1>1, <1>11, <2>3 DEF Established
    <2>. QED  BY <2>2, <2>3
  <1>12. CASE UNCHANGED vars
    BY <1>1, <1>12 DEF vars
  <1>. QED
    BY <1>2, <1>3, <1>4, <1>5, <1>7, <1>8, <1>9, <1>10, <1>11, <1>12 DEF Next, LoopStep, BaseStep

LEMMA MindedInit ==
  ASSUME ServerAssumption, Init
  PROVE  MindedInv
  BY DEF Init, MindedInv, Unborn

LEMMA MindedNext ==
  ASSUME ServerAssumption, EnableCnt = 0, "blank" \notin Reactions, CoreInv, ReleaseInv, MindedInv,
         [Next]_vars
  PROVE  MindedInv'
  <1>0. PICK D \in [Loops -> {0, 1}] : \A l \in Loops : Moved(l, D[l])
    BY QueuesMoved
  <1>1. \A c \in Conns : MindedStep(c)
    BY MindedSteps
  <1>2. ASSUME NEW c \in Conns PROVE "out" \in conn'[c].ev => conn'[c].out > 0
    BY <1>1 DEF MindedStep
  <1>3. ASSUME NEW l \in Loops, NEW c \in Conns, active'[l][c] # {}
        PROVE  /\ "out" \in active'[l][c] => conn'[c].out > 0
               /\ "hup" \in active'[l][c] => gone'[c] = "rst"
    <2>1. CASE active'[l][c] = active[l][c]
      <3>1. Open(c) /\ conn[c].loop = l /\ phase[l] = "handlers"
        BY <1>3, <2>1 DEF CoreInv, ActiveInv
      <3>2. conn'[c].open
        BY <3>1, HandledStaysOpen
      <3>3. c <= newest /\ newest \in Int /\ c \in Int
        BY <3>1, OpenIsBorn DEF CoreInv, TypeOK, Conns, ServerAssumption
      <3>4. ~Accepted(c)
        BY <3>3 DEF Accepted
      <3>5. conn'[c].out = conn[c].out
        BY <1>1, <1>3, <3>2, <3>4 DEF MindedStep
      <3>6. gone[c] = "rst" => gone'[c] = "rst"
        BY <1>1 DEF MindedStep
      <3>. QED  BY <2>1, <3>5, <3>6 DEF MindedInv
    <2>2. CASE active'[l][c] # active[l][c]
      BY <1>1, <1>3, <2>2 DEF MindedStep
    <2>. QED  BY <2>1, <2>2
  <1>4. ASSUME NEW l \in Loops, NEW i \in 1 .. Len(tasks'[l]), tasks'[l][i].op = "release"
        PROVE  /\ active'[l][tasks'[l][i].c] = {}
               /\ conn'[tasks'[l][i].c].open =>
                    Settled(conn'[tasks'[l][i].c], gone'[tasks'[l][i].c])
    <2>1. PICK c \in Conns : tasks'[l][i] = Task("release", c) /\ tasks'[l][i].c = c
      BY <1>4, TypeStep, TaskTypedNext
    <2>2. Origin(l, D[l], i, "release", c) /\ D[l] \in {0, 1} /\ Moved(l, D[l])
      BY <1>0, <1>4, <2>1, TaskOrigin
    <2>3. Len(tasks[l]) \in Nat /\ phase[l] \in {"poll", "handlers", "tasks"}
      BY DEF CoreInv, TypeOK
    <2>4. CASE i + D[l] \in 1 .. Len(tasks[l]) /\ tasks[l][i + D[l]] = Task("release", c)
               /\ conn[c].loop = l /\ c <= newest
      <3>1. active[l][c] = {} /\ (Open(c) => Settled(conn[c], gone[c])) /\ phase[l] # "poll"
        <4>1. PICK j \in 1 .. Len(tasks[l]) : tasks[l][j].op = "release" /\ tasks[l][j].c = c
          BY <2>4 DEF Task
        <4>2. active[l][c] = {} /\ (Open(c) => Settled(conn[c], gone[c]))
          BY <4>1 DEF MindedInv
        <4>3. phase[l] # "poll"
          BY <4>1 DEF ReleaseInv
        <4>. QED  BY <4>2, <4>3
      <3>2. active'[l][c] = {}
        <4>1. \/ active'[l][c] = {} \/ active'[l][c] = active[l][c]
              \/ phase[l] = "poll"
          BY <1>1 DEF MindedStep
        <4>. QED  BY <3>1, <4>1
      <3>3. ASSUME conn'[c].open PROVE Settled(conn'[c], gone'[c])
        <4>0. newest \in Int /\ c \in Int
          BY DEF CoreInv, TypeOK, Conns, ServerAssumption
        <4>1. Open(c)
          BY <2>4, <3>3, ConnsStep DEF OldStep, Open
        <4>2. ~Accepted(c)
          BY <2>4, <4>0 DEF Accepted
        <4>3. \A k \in Loops : active[k][c] = {}
          BY <2>4, <3>1 DEF CoreInv, ActiveInv
        <4>4. conn'[c].out = conn[c].out /\ conn'[c].status = conn[c].status
          BY <1>1, <3>3, <4>2, <4>3 DEF MindedStep
        <4>. QED  BY <1>1, <3>1, <4>1, <4>4 DEF MindedStep, Settled
      <3>. QED  BY <2>1, <3>2, <3>3
    <2>5. CASE i + D[l] > Len(tasks[l]) /\ NewRelease(l, c)
      <3>1. timer[c].armed = {}
        BY DEF CoreInv, TypeOK, TimerRecord
      <3>2. phase[l] = "handlers" /\ active[l][c] # {} /\ active'[l][c] = {}
        BY <2>5, <3>1 DEF NewRelease
      <3>3. D[l] = 0
        BY <2>2, <3>2 DEF Moved
      <3>4. Len(tasks'[l]) > Len(tasks[l])
        BY <1>4, <2>3, <2>5, <3>3, TypeStep DEF TypeOK
      <3>. QED  BY <1>1, <2>1, <3>2, <3>4 DEF MindedStep
    <2>. QED  BY <2>2, <2>4, <2>5 DEF Origin
  <1>. QED  BY <1>2, <1>3, <1>4 DEF MindedInv, Open

(* A connection is closed by the release at the head of its loop's tasks.  *)
LEMMA ClosedSettled ==
  ASSUME ServerAssumption, CoreInv, MindedInv, [Next]_vars, NEW c \in Conns, Open(c), ~conn'[c].open
  PROVE  Settled(conn[c], gone[c])
  <1>1. c <= newest /\ conn[c].loop \in Loops
    BY OpenIsBorn DEF ConnRecord
  <1>2. phase[conn[c].loop] = "tasks" /\ tasks[conn[c].loop][1] = Task("release", c)
    BY <1>1, ConnsStep DEF OldStep, Open
  <1>3. Len(tasks[conn[c].loop]) \in Nat /\ 1 <= Len(tasks[conn[c].loop])
    BY <1>1, <1>2 DEF CoreInv, TypeOK, BatchInv
  <1>. QED  BY <1>1, <1>2, <1>3 DEF MindedInv, Task

(* Where no idle timeout is enabled and callbacks do not send nothing, a   *)
(* connection is closed only after its peer left or the user asked for it, *)
(* whatever several handlers of one event do to it.                        *)
THEOREM ClosedWithReason ==
  ASSUME EnableCnt = 0, "blank" \notin Reactions
  PROVE  Spec => ClosedForAReason
  <1>1. Init => ServedInv /\ MindedInv
    BY ServedInit, MindedInit, ServerAssumption
  <1>2. ServedInv /\ MindedInv /\ [Next]_vars => (ServedInv /\ MindedInv)'
    BY ServedNext, MindedNext, ServerAssumption DEF ServedInv
  <1>3. ServedInv /\ MindedInv /\ [Next]_vars =>
          [\A c \in Conns : Open(c) /\ ~Open(c)' =>
             gone[c] # "no" \/ conn[c].status = "DISCONNECTING"]_vars
    BY ClosedSettled, ServerAssumption DEF ServedInv, Settled, Open
  <1>. QED  BY <1>1, <1>2, <1>3, PTL DEF Spec, ClosedForAReason

(* Under the same conditions no output of a connection is dropped unless   *)
(* its peer reset it: every release waits for the output buffer.           *)
THEOREM OutputSent ==
  ASSUME EnableCnt = 0, "blank" \notin Reactions
  PROVE  Spec => NothingUnsent
  <1>1. Init => ServedInv /\ MindedInv
    BY ServedInit, MindedInit, ServerAssumption
  <1>2. ServedInv /\ MindedInv /\ [Next]_vars => (ServedInv /\ MindedInv)'
    BY ServedNext, MindedNext, ServerAssumption DEF ServedInv
  <1>3. ServedInv /\ MindedInv /\ [Next]_vars =>
          [\A c \in Conns : Open(c) /\ conn[c].out > 0 /\ ~Open(c)' => gone[c] = "rst"]_vars
    BY ClosedSettled, ServerAssumption DEF ServedInv, Settled, Open
  <1>. QED  BY <1>1, <1>2, <1>3, PTL DEF Spec, NothingUnsent

=============================================================================
