----------------------------- MODULE TcpServer -----------------------------
(***************************************************************************)
(* The life of connections in TcpSever: accepted by the base loop, served  *)
(* by a loop of the pool, released by that loop and erased from the map by *)
(* the base loop (Poller, Channel, Socket, Acceptor, Connection, TcpSever  *)
(* and LoopThreadPool::Get_Next_EventLoop of Sever.hpp) over what they     *)
(* share: the task queues of the loops, the pollers' maps from descriptor  *)
(* numbers to channels, and the kernel's descriptors and epoll sets.       *)
(*                                                                         *)
(* An output buffer is reduced to the sends that empty it, an input buffer *)
(* to "holds data", the timers of a connection to the objects TimeWheel    *)
(* keeps for it (they may expire in any round), and the queues to the      *)
(* order EventLoop is shown to keep.  User callbacks react to a message in *)
(* one of the ways of Reactions.                                           *)
(***************************************************************************)
EXTENDS Integers, Sequences, FiniteSets

CONSTANTS
  WorkerCnt,    (* _Thread_cnt: loops 1 .. WorkerCnt; loop 0 is _base_loop *)
  ConnCnt,      (* connections that clients open                           *)
  Fds,          (* descriptor numbers left for connections                 *)
  EnableCnt,    (* calls of EnableTimeoutDel on one connection: the first  *)
                (* is the server's own (Enable_Is_Delay_del)               *)
  Partial,      (* may the kernel take only a part of the output buffer?   *)
  Signals,      (* may a signal interrupt epoll_wait?                      *)
  Reactions,    (* what the message callback may do, see React             *)
  NoConn

ASSUME ServerAssumption ==
  /\ WorkerCnt \in Nat
  /\ ConnCnt \in Nat
  /\ Fds \subseteq Nat
  /\ EnableCnt \in Nat
  /\ Partial \in BOOLEAN
  /\ Signals \in BOOLEAN
  /\ Reactions \subseteq {"wait", "echo", "finish", "close", "blank"}
  /\ NoConn \notin 1 .. ConnCnt

Base == 0
Loops == 0 .. WorkerCnt
Conns == 1 .. ConnCnt

VARIABLES
  conn,      (* the Connection objects                                     *)
  timer,     (* the timer objects of a connection and its entry in _timers *)
  chans,     (* Poller::_channels of each loop: number -> connection       *)
  epoll,     (* the kernel's epoll set of each loop: number -> events      *)
  errno,     (* of each loop's thread: "again" (EAGAIN, EINTR) or "other"  *)
  rx,        (* the kernel holds received data                             *)
  gone,      (* "no", or the peer's "fin" or "rst"                         *)
  full,      (* the kernel's send buffer is full                           *)
  phase,     (* of each loop: "poll", "handlers" or "tasks"                *)
  active,    (* of each loop: connection -> reported events, not handled   *)
  tasks,     (* of each loop: the rest of its batch, then _task_queue      *)
  batch,     (* of each loop: how many of its tasks are the batch's        *)
  conns,     (* TcpSever::_conns                                           *)
  next,      (* LoopThreadPool::_next_EventLoop                            *)
  newest,    (* _conn_id                                                   *)
  creating   (* the acceptor: "no", or reported and then how far           *)
             (* NewConnection got: "accept", "establish", "insert"         *)

kernelVars == <<rx, gone, full>>
loopVars == <<phase, active, tasks, batch>>
baseVars == <<conns, next, newest, creating>>
vars == <<conn, timer, chans, epoll, errno, kernelVars, loopVars, baseVars>>

Off == {"off"}   \* not in the epoll set

Task(op, c) == [op |-> op, c |-> c]

Open(c) == conn[c].open
Owner(f) == {c \in Conns : Open(c) /\ conn[c].fd = f}

Unborn == [status |-> "UNBORN", fd |-> 0, loop |-> 0, open |-> FALSE,
           ev |-> {}, in |-> FALSE, out |-> 0, releases |-> 0, closes |-> 0]

NoTimers == [armed |-> {}, canceled |-> {}, entry |-> 0, enables |-> 0]

Init ==
  /\ conn = [c \in Conns |-> Unborn]
  /\ timer = [c \in Conns |-> NoTimers]
  /\ chans = [l \in Loops |-> [f \in Fds |-> NoConn]]
  /\ epoll = [l \in Loops |-> [f \in Fds |-> Off]]
  /\ errno = [l \in Loops |-> "other"]
  /\ rx = [c \in Conns |-> FALSE]
  /\ gone = [c \in Conns |-> "no"]
  /\ full = [c \in Conns |-> FALSE]
  /\ phase = [l \in Loops |-> "poll"]
  /\ active = [l \in Loops |-> [c \in Conns |-> {}]]
  /\ tasks = [l \in Loops |-> <<>>]
  /\ batch = [l \in Loops |-> 0]
  /\ conns = {}
  /\ next = 0
  /\ newest = 0
  /\ creating = "no"

-----------------------------------------------------------------------------
(***************************************************************************)
(* Who owns a Connection: _conns, NewConnection while it runs, the tasks   *)
(* that captured a ConnPtr, and the timer objects whose callback did (also *)
(* the cancelled ones).  The other tasks hold a plain pointer.             *)
(* The code keeps the functors of a batch until all of it ran, so that an  *)
(* object may live a little longer there; here a task's reference goes     *)
(* when the task is taken, and whatever dangles in the code dangles here.  *)
(***************************************************************************)

(* Mistake: Release binds a plain this, as the comment in the code has it. *)
OwningTasksRaw == {"remove"}
OwningTasks == {"release", "remove"}

Queued(l, op, c) == \E i \in DOMAIN tasks[l] : tasks[l][i] = Task(op, c)

Exists(c) ==
  \/ c \in conns
  \/ c = newest /\ creating \in {"establish", "insert"}
  \/ \E l \in Loops, op \in OwningTasks : Queued(l, op, c)
  \/ timer[c].armed # {}

-----------------------------------------------------------------------------
(* The peers and the kernel.                                               *)

DataArrives(c) ==
  /\ Open(c) /\ gone[c] = "no" /\ ~rx[c]
  /\ rx' = [rx EXCEPT ![c] = TRUE]
  /\ UNCHANGED <<conn, timer, chans, epoll, errno, gone, full, loopVars, baseVars>>

PeerLeaves(c) ==
  /\ Open(c)
  /\ \/ gone[c] = "no" /\ gone' = [gone EXCEPT ![c] = "fin"]
     \/ gone[c] # "rst" /\ gone' = [gone EXCEPT ![c] = "rst"]
  /\ UNCHANGED <<conn, timer, chans, epoll, errno, rx, full, loopVars, baseVars>>

SendBufferDrains(c) ==
  /\ Open(c) /\ full[c]
  /\ full' = [full EXCEPT ![c] = FALSE]
  /\ UNCHANGED <<conn, timer, chans, epoll, errno, rx, gone, loopVars, baseVars>>

(* The events epoll_wait reports for the connection that owns a number. *)
Revents(c, mask) ==
  IF mask = Off THEN {} ELSE
  {e \in mask : \/ e = "in" /\ (rx[c] \/ gone[c] # "no")
                \/ e = "out" /\ (~full[c] \/ gone[c] = "rst")}
  \union (IF gone[c] = "rst" THEN {"hup", "err"} ELSE {})

(* What the loop's next epoll_wait reports, by the channel it looks up. *)
Reported(l) ==
  [c \in Conns |->
     UNION {Revents(o, epoll[l][f]) : f \in {g \in Fds : chans[l][g] = c},
                                      o \in Owner(conn[c].fd)}]

-----------------------------------------------------------------------------
(* The poller.                                                             *)

UpdateEvent(l, f, c, ev) ==
  IF chans[l][f] = NoConn
  THEN (* EPOLL_CTL_ADD *)
       /\ chans' = [chans EXCEPT ![l][f] = c]
       /\ epoll' = [epoll EXCEPT ![l][f] = ev]
  ELSE (* EPOLL_CTL_MOD fails on a number that is not in the set *)
       /\ epoll' = [epoll EXCEPT ![l][f] = IF @ = Off THEN Off ELSE ev]
       /\ UNCHANGED chans

(* Mistake: only the kernel forgets the number. *)
RemoveEventKeepsChannel(l, f, closing) ==
  /\ epoll' = [k \in Loops |-> IF k = l \/ closing
                               THEN [epoll[k] EXCEPT ![f] = Off]
                               ELSE epoll[k]]
  /\ UNCHANGED chans

(* RemoveEvent, and the close of the socket when it still is open: the     *)
(* kernel takes a closed descriptor out of every epoll set.  Both go by    *)
(* the number, whoever owns it now.                                        *)
RemoveEvent(l, f, closing) ==
  /\ chans' = [chans EXCEPT ![l][f] = NoConn]
  /\ epoll' = [k \in Loops |-> IF k = l \/ closing
                               THEN [epoll[k] EXCEPT ![f] = Off]
                               ELSE epoll[k]]

(* The timerfd is reported when a timer of the loop may expire, the        *)
(* listening socket when a client waits, the eventfd when tasks do.        *)
Waiting == newest < ConnCnt
Ready(l) ==
  \/ \E c \in Conns : Reported(l)[c] # {}
  \/ tasks[l] # <<>>
  \/ \E c \in Conns : conn[c].loop = l /\ timer[c].armed # {}
  \/ l = Base /\ Waiting

Poll(l) ==
  /\ phase[l] = "poll"
  /\ Ready(l)
  /\ phase' = [phase EXCEPT ![l] = "handlers"]
  /\ active' = [active EXCEPT ![l] = Reported(l)]
  /\ creating' = IF l = Base /\ Waiting THEN "accept" ELSE creating
  /\ UNCHANGED <<conn, timer, chans, epoll, errno, kernelVars, tasks, batch,
                 conns, next, newest>>

(* EINTR, which stays in errno until another call of the thread fails. *)
PollInterrupted(l) ==
  /\ Signals
  /\ phase[l] = "poll"
  /\ ~Ready(l)
  /\ phase' = [phase EXCEPT ![l] = "handlers"]
  /\ errno' = [errno EXCEPT ![l] = "again"]
  /\ UNCHANGED <<conn, timer, chans, epoll, kernelVars, active, tasks, batch, baseVars>>

-----------------------------------------------------------------------------
(***************************************************************************)
(* The handlers of Connection as functions of the object: "r" is its       *)
(* record, "m" the reaction of the message callback, "releases" counts the *)
(* calls of Release, each of which queues a ReleaseInloop.                 *)
(***************************************************************************)
Release(r) == [r EXCEPT !.releases = @ + 1]

(* SendInLoop with data; Send is called from callbacks, in the loop. *)
Send(r) ==
  IF r.status = "DISCONNECTED" THEN r
  ELSE [r EXCEPT !.out = IF Partial THEN 2 ELSE 1, !.ev = @ \union {"out"}]

(* SendInLoop with no data. *)
SendNothing(r) ==
  IF r.status = "DISCONNECTED" THEN r ELSE [r EXCEPT !.ev = @ \union {"out"}]

(* ShutDownInLoop after the message callback.  (Mistake: it does not wait  *)
(* for the output buffer.)                                                 *)
EndShutdownAtOnce(r) == Release(r)

EndShutdown(r) ==
  IF r.out > 0 THEN [r EXCEPT !.ev = @ \union {"out"}] ELSE Release(r)

(* ShutDownInLoop when _Inbuffer is empty. *)
Finish(r) == EndShutdown([r EXCEPT !.status = "DISCONNECTING"])

(* The message callback: leave an incomplete message in the buffer, answer *)
(* it, answer and Shutdown, Shutdown, or Send an empty answer.             *)
React(r, m) ==
  LET taken == [r EXCEPT !.in = FALSE] IN
  CASE m = "wait"   -> r
    [] m = "echo"   -> Send(taken)
    [] m = "finish" -> Finish(Send(taken))
    [] m = "close"  -> Finish(taken)
    [] m = "blank"  -> SendNothing(taken)

Message(r, m) == IF r.in THEN React(r, m) ELSE r

ShutDownInLoop(r, m) ==
  EndShutdown(Message([r EXCEPT !.status = "DISCONNECTING"], m))

(* Mistake: the 0 that Recv gets at the end of the stream is no error. *)
RecvFailsOnErrorOnly(c, no) == ~rx[c] /\ gone[c] = "rst"

(* Recv: a result of 0 or less is an error unless errno, which only a      *)
(* failed call sets, reads EAGAIN or EINTR.                                *)
RecvFails(c, no) == ~rx[c] /\ (gone[c] = "rst" \/ (gone[c] = "fin" /\ no = "other"))

HanderRead(r, c, no, m) ==
  IF RecvFails(c, no)
  THEN ShutDownInLoop(r, m)
  ELSE Message([r EXCEPT !.in = @ \/ rx[c]], m)

(* Send: the same reading of errno; sending nothing returns 0. *)
SendFails(r, c, no) == gone[c] = "rst" \/ (r.out = 0 /\ no = "other")

(* Mistake: a drained connection is taken to be a finished one. *)
AfterSendFinished(r, all) ==
  IF r.out = 2 /\ ~all
  THEN [r EXCEPT !.out = 1]
  ELSE Release([r EXCEPT !.out = 0, !.ev = @ \ {"out"}])

(* A send that got through took all of the output buffer or a part. *)
AfterSend(r, all) ==
  IF r.out = 2 /\ ~all
  THEN [r EXCEPT !.out = 1]
  ELSE LET sent == [r EXCEPT !.out = 0, !.ev = @ \ {"out"}]
       IN  IF r.status = "DISCONNECTING" THEN Release(sent) ELSE sent

HanderWrite(r, c, no, m, all) ==
  IF SendFails(r, c, no)
  THEN Release(Message(r, m))
  ELSE AfterSend(r, all)

(* HanderErr is the same. *)
HanderClose(r, m) == Release(Message(r, m))

(* A call that failed with an error of its own leaves that in errno. *)
ErrnoAfter(c, no) == IF gone[c] = "rst" /\ ~rx[c] THEN "other" ELSE no

(* Channel::HanderEvent: the read handler, then one of the others. *)
HanderEvents(r, c, no, rev, m1, m2, all) ==
  LET read == IF "in" \in rev THEN HanderRead(r, c, no, m1) ELSE r
      no1 == IF "in" \in rev THEN ErrnoAfter(c, no) ELSE no
  IN  IF "out" \in rev THEN HanderWrite(read, c, no1, m2, all)
      ELSE IF "hup" \in rev THEN HanderClose(read, m2)
      ELSE read

HanderEvent(l) ==
  \E c \in Conns, m1, m2 \in Reactions, all \in (IF Partial THEN BOOLEAN ELSE {TRUE}) :
    LET rev == active[l][c]
        r == HanderEvents(conn[c], c, errno[l], rev, m1, m2, all)
        releases == [i \in 1 .. r.releases |-> Task("release", c)]
    IN
    /\ phase[l] = "handlers" /\ rev # {}
    /\ conn' = [conn EXCEPT ![c] = [r EXCEPT !.releases = 0]]
    /\ IF r.ev # conn[c].ev THEN UpdateEvent(l, r.fd, c, r.ev)
                            ELSE UNCHANGED <<chans, epoll>>
    /\ tasks' = [tasks EXCEPT ![l] = @ \o releases]
    /\ active' = [active EXCEPT ![l][c] = {}]
    /\ errno' = [errno EXCEPT ![l] = ErrnoAfter(c, @)]
    /\ rx' = [rx EXCEPT ![c] = @ /\ "in" \notin rev]
    /\ full' = [full EXCEPT ![c] = @ \/ (~all /\ "out" \in rev /\ r.out = 1)]
    /\ UNCHANGED <<timer, gone, phase, batch, baseVars>>

-----------------------------------------------------------------------------
(* Timers: see TimeWheel and IdleTimeout.                                  *)

(* EnableTimeoutDelInLoop adds an object, also to an id that has one. *)
WithTimer(t) == LET k == t.enables + 1 IN
  [t EXCEPT !.enables = k, !.armed = @ \union {k}, !.entry = k]

Canceled(t) ==
  IF t.entry = 0 THEN t ELSE [t EXCEPT !.canceled = @ \union {t.entry}]

(* ~time_task removes the entry of the id, whatever object it names. *)
Destroyed(t, k) == [t EXCEPT !.armed = @ \ {k}, !.canceled = @ \ {k}, !.entry = 0]

(* A callback of the user's enables the timeout once more, before the rest *)
(* of the connection's event is handled.                                   *)
EnableTimeoutDel(l) ==
  \E c \in Conns :
    /\ phase[l] = "handlers" /\ active[l][c] # {}
    /\ timer[c].enables \in 1 .. EnableCnt - 1
    /\ timer' = [timer EXCEPT ![c] = WithTimer(@)]
    /\ UNCHANGED <<conn, chans, epoll, errno, kernelVars, loopVars, baseVars>>

(* The last reference to a timer object goes: its callback is Release. *)
ExcuteTimer(l) ==
  \E c \in Conns : \E k \in timer[c].armed :
    /\ phase[l] = "handlers" /\ conn[c].loop = l
    /\ tasks' = IF k \in timer[c].canceled
                THEN tasks
                ELSE [tasks EXCEPT ![l] = Append(@, Task("release", c))]
    /\ timer' = [timer EXCEPT ![c] = Destroyed(@, k)]
    /\ UNCHANGED <<conn, chans, epoll, errno, kernelVars, phase, active, batch, baseVars>>

-----------------------------------------------------------------------------
(* Tasks.                                                                  *)

SwapTasks(l) ==
  /\ phase[l] = "handlers"
  /\ \A c \in Conns : active[l][c] = {}
  /\ l = Base => creating = "no"
  /\ phase' = [phase EXCEPT ![l] = IF tasks[l] = <<>> THEN "poll" ELSE "tasks"]
  /\ batch' = [batch EXCEPT ![l] = Len(tasks[l])]
  /\ UNCHANGED <<conn, timer, chans, epoll, errno, kernelVars, active, tasks, baseVars>>

(* The loop takes the next task of its batch.  Once a task of a destroyed  *)
(* connection would run nothing is known of the program.                   *)
Takes(l, op) ==
  /\ phase[l] = "tasks"
  /\ Head(tasks[l]).op = op
  /\ Exists(Head(tasks[l]).c)
  /\ batch' = [batch EXCEPT ![l] = @ - 1]
  /\ phase' = [phase EXCEPT ![l] = IF batch[l] = 1 THEN "poll" ELSE "tasks"]

Rest(l) == [tasks EXCEPT ![l] = Tail(@)]

EstablishedInLoop(c) ==
  IF conn[c].status = "CONNECTING"
  THEN /\ conn' = [conn EXCEPT ![c].ev = {"in"}]
       /\ UpdateEvent(conn[c].loop, conn[c].fd, c, {"in"})
  ELSE UNCHANGED <<conn, chans, epoll>>

RunEnable(l) ==
  /\ Takes(l, "enable")
  /\ timer' = [timer EXCEPT ![Head(tasks[l]).c] = WithTimer(@)]
  /\ tasks' = Rest(l)
  /\ UNCHANGED <<conn, chans, epoll, errno, kernelVars, active, baseVars>>

RunEstablished(l) ==
  /\ Takes(l, "established")
  /\ EstablishedInLoop(Head(tasks[l]).c)
  /\ tasks' = Rest(l)
  /\ UNCHANGED <<timer, errno, kernelVars, active, baseVars>>

(* Mistake: the map is changed from the connection's own thread. *)
RemoveConnectionAtOnce(l, c) ==
  /\ conns' = conns \ {c}
  /\ tasks' = Rest(l)

(* The base loop erases the connection itself, or is given a task. *)
RemoveConnection(l, c) ==
  IF l = Base
  THEN /\ conns' = conns \ {c}
       /\ tasks' = Rest(l)
  ELSE /\ tasks' = [Rest(l) EXCEPT ![Base] = Append(@, Task("remove", c))]
       /\ UNCHANGED conns

Closed(r) ==
  [r EXCEPT !.status = "DISCONNECTED", !.open = FALSE,
            !.closes = IF @ < 2 THEN @ + 1 ELSE @]

ReleaseInloop(l) ==
  LET c == Head(tasks[l]).c IN
  /\ Takes(l, "release")
  /\ conn' = [conn EXCEPT ![c] = Closed(@)]
  /\ RemoveEvent(l, conn[c].fd, Open(c))
  /\ timer' = [timer EXCEPT ![c] = Canceled(@)]
  /\ rx' = [rx EXCEPT ![c] = FALSE]
  /\ full' = [full EXCEPT ![c] = FALSE]
  /\ RemoveConnection(l, c)
  /\ UNCHANGED <<errno, gone, active, next, newest, creating>>

RemoveConnectionInLoop ==
  /\ Takes(Base, "remove")
  /\ conns' = conns \ {Head(tasks[Base]).c}
  /\ tasks' = Rest(Base)
  /\ UNCHANGED <<conn, timer, chans, epoll, errno, kernelVars, active,
                 next, newest, creating>>

-----------------------------------------------------------------------------
(* New connections.                                                        *)

(* Mistake: the index is not wrapped at the end of the pool. *)
Get_Next_EventLoopNoWrap == IF WorkerCnt = 0 THEN Base ELSE next + 2

(* Round robin, from the pool's second loop on. *)
Get_Next_EventLoop == IF WorkerCnt = 0 THEN Base ELSE ((next + 1) % WorkerCnt) + 1

(* Acceptor::HanderRead up to the server's own EnableTimeoutDel, which the *)
(* base loop runs itself for a connection of its own.                      *)
Accept ==
  LET c == newest + 1
      l == Get_Next_EventLoop
  IN
  /\ phase[Base] = "handlers" /\ creating = "accept"
  /\ \E f \in Fds :
       /\ Owner(f) = {}
       /\ conn' = [conn EXCEPT ![c] = [Unborn EXCEPT !.status = "CONNECTING",
                                         !.fd = f, !.loop = l, !.open = TRUE]]
  /\ newest' = c
  /\ next' = IF WorkerCnt = 0 THEN next ELSE l - 1
  /\ creating' = "establish"
  /\ timer' = IF EnableCnt > 0 /\ l = Base
              THEN [timer EXCEPT ![c] = WithTimer(@)] ELSE timer
  /\ tasks' = IF EnableCnt > 0 /\ l # Base
              THEN [tasks EXCEPT ![l] = Append(@, Task("enable", c))] ELSE tasks
  /\ UNCHANGED <<chans, epoll, errno, kernelVars, phase, active, batch, conns>>

(* accept fails when no descriptor number is left. *)
AcceptFails ==
  /\ phase[Base] = "handlers" /\ creating = "accept"
  /\ \A f \in Fds : Owner(f) # {}
  /\ creating' = "no"
  /\ errno' = [errno EXCEPT ![Base] = "other"]
  /\ UNCHANGED <<conn, timer, chans, epoll, kernelVars, loopVars, conns, next, newest>>

Established ==
  LET l == conn[newest].loop IN
  /\ creating = "establish"
  /\ creating' = "insert"
  /\ IF l = Base
     THEN /\ EstablishedInLoop(newest)
          /\ UNCHANGED tasks
     ELSE /\ tasks' = [tasks EXCEPT ![l] = Append(@, Task("established", newest))]
          /\ UNCHANGED <<conn, chans, epoll>>
  /\ UNCHANGED <<timer, errno, kernelVars, phase, active, batch, conns, next, newest>>

Insert ==
  /\ creating = "insert"
  /\ creating' = "no"
  /\ conns' = conns \union {newest}
  /\ UNCHANGED <<conn, timer, chans, epoll, errno, kernelVars, loopVars, next, newest>>

LoopStep(l) ==
  \/ Poll(l)
  \/ PollInterrupted(l)
  \/ HanderEvent(l)
  \/ EnableTimeoutDel(l)
  \/ ExcuteTimer(l)
  \/ SwapTasks(l)
  \/ RunEnable(l)
  \/ RunEstablished(l)
  \/ ReleaseInloop(l)

BaseStep == RemoveConnectionInLoop \/ Accept \/ AcceptFails \/ Established \/ Insert

Next ==
  \/ \E c \in Conns : DataArrives(c) \/ PeerLeaves(c) \/ SendBufferDrains(c)
  \/ \E l \in Loops : LoopStep(l)
  \/ BaseStep

(* Every loop's thread goes on: epoll_wait returns when something is       *)
(* ready, handlers and tasks return.  A peer reads what it is sent.        *)
Fairness ==
  /\ \A l \in Loops : /\ WF_vars(Poll(l)) /\ WF_vars(HanderEvent(l)) /\ WF_vars(SwapTasks(l))
                      /\ WF_vars(RunEnable(l) \/ RunEstablished(l) \/ ReleaseInloop(l))
  /\ WF_vars(BaseStep)
  /\ \A c \in Conns : WF_vars(SendBufferDrains(c))

Spec == Init /\ [][Next]_vars /\ Fairness

-----------------------------------------------------------------------------
ConnRecord ==
  [status : {"UNBORN", "CONNECTING", "CONNECTED", "DISCONNECTING", "DISCONNECTED"},
   fd : Fds \union {0}, loop : Loops, open : BOOLEAN,
   ev : SUBSET {"in", "out"}, in : BOOLEAN, out : 0 .. 2,
   releases : {0}, closes : 0 .. 2]

TimerRecord ==
  [armed : SUBSET (1 .. EnableCnt), canceled : SUBSET (1 .. EnableCnt),
   entry : 0 .. EnableCnt, enables : 0 .. EnableCnt]

TaskRecord == [op : {"enable", "established", "release", "remove"}, c : Conns]

TypeOK ==
  /\ conn \in [Conns -> ConnRecord]
  /\ timer \in [Conns -> TimerRecord]
  /\ chans \in [Loops -> [Fds -> Conns \union {NoConn}]]
  /\ epoll \in [Loops -> [Fds -> (SUBSET {"in", "out"}) \union {Off}]]
  /\ errno \in [Loops -> {"again", "other"}]
  /\ rx \in [Conns -> BOOLEAN]
  /\ gone \in [Conns -> {"no", "fin", "rst"}]
  /\ full \in [Conns -> BOOLEAN]
  /\ phase \in [Loops -> {"poll", "handlers", "tasks"}]
  /\ active \in [Loops -> [Conns -> SUBSET {"in", "out", "hup", "err"}]]
  /\ tasks \in [Loops -> Seq(TaskRecord)]
  /\ batch \in [Loops -> Nat]
  /\ conns \in SUBSET Conns
  /\ next \in Nat
  /\ newest \in 0 .. ConnCnt
  /\ creating \in {"no", "accept", "establish", "insert"}

(* A loop's poller and the kernel's epoll set know the same descriptors,   *)
(* and each under the open connection of that loop that owns the number:   *)
(* the assertion in Poller::Poll cannot fail, and no event reaches the     *)
(* handlers of another connection, although numbers are used again as soon *)
(* as ReleaseInloop closed them.                                           *)
PollersAgree ==
  \A l \in Loops, f \in Fds :
    LET c == chans[l][f] IN
    IF c = NoConn
    THEN epoll[l][f] = Off
    ELSE Open(c) /\ conn[c].loop = l /\ conn[c].fd = f /\ epoll[l][f] = conn[c].ev

(* A connection that was established and not closed stays registered with  *)
(* its loop: whatever happens to other connections, its events arrive.     *)
EstablishedIsServed ==
  \A c \in Conns :
    Open(c) /\ conn[c].ev # {} =>
      /\ chans[conn[c].loop][conn[c].fd] = c
      /\ epoll[conn[c].loop][conn[c].fd] = conn[c].ev

(* No loop runs a task of a connection that was destroyed, or handles an   *)
(* event of its channel: tasks and pollers hold plain pointers, and the    *)
(* connection is owned by _conns, by ConnPtrs in tasks and by its timers.  *)
NoDanglingPointer ==
  /\ \A l \in Loops : \A i \in DOMAIN tasks[l] : Exists(tasks[l][i].c)
  /\ \A l \in Loops, f \in Fds : chans[l][f] # NoConn => Exists(chans[l][f])
  /\ \A l \in Loops, c \in Conns : active[l][c] # {} => Exists(c)

(* Shutdown is graceful: a connection is closed with unsent output only    *)
(* when its peer has reset it.                                             *)
NothingUnsent ==
  [][\A c \in Conns : Open(c) /\ conn[c].out > 0 /\ ~Open(c)' => gone[c] = "rst"]_vars

(* A connection without a timeout is closed for a reason only: its peer    *)
(* left it, or the user asked for it with Shutdown.                        *)
ClosedForAReason ==
  [][\A c \in Conns : Open(c) /\ ~Open(c)' =>
       gone[c] # "no" \/ conn[c].status = "DISCONNECTING"]_vars

(* The close callback runs once for a connection. *)
ClosedOnce == \A c \in Conns : conn[c].closes <= 1

(* A connection whose peer left is closed and erased from _conns, also     *)
(* when the peer left before NewConnection inserted it.                    *)
GoneIsErased ==
  \A c \in Conns : gone[c] # "no" ~> ~Open(c) /\ c \notin conns
=============================================================================
