# A TLA+ verification project for the Reactor-style TCP library

The library (`src/Sever_final/Sever.hpp`, one header; `src/source/*.hpp` is an
earlier copy with one file per class) is a Muduo-like server: one thread runs an
event loop around `epoll_wait`, accepts connections and hands them to the event
loops of a pool of threads. `src/Http/Http.hpp` builds an HTTP server on it.
This directory holds TLA+ models of it, TLC configurations that check them on
small instances, and TLAPS proofs of what matters most for every size.

All names in the models are the code's own (`HanderRead`, `TcpSever`, ...), and
line numbers below are those of `Sever.hpp` unless another file is named.

## 1. The system

| Component | State it keeps | Operations | What must be true of it |
|---|---|---|---|
| Time wheel (`time_task`, `time_task_wheel`, 447-555, 782-846) | `_tick`, 60 slots of `shared_ptr`s, `_timers` (id to `weak_ptr`), a timerfd | set, flush, remove, `OneTime`, destructor of an object | a timer runs once, after its delay counted from the last refresh, not before, not when cancelled; `_timers` names the object that will run |
| Event loop (`EventLoop`, 558-705) | `_task_queue` under a mutex, an eventfd, the round it is in | `QueueInLoop`, `RunInLoop`, `Start`, `RunAlltask` | no wake-up lost; tasks run once, in order, all of them; I/O not starved by tasks |
| Poller and Channel (315-441, 708-779) | `_channels` (descriptor number to `Channel*`), the epoll set, event masks | `UpdateEvent`, `RemoveEvent`, `Poll`, `HanderEvent` | the map and the kernel agree; an event reaches the connection it is for |
| Connection (1156-1423) | status, input and output buffer, timer flag, callbacks | event handlers, `Send`, `Shutdown`, `Release`, timeouts, `ChangeProtocal` | closed once, for a reason, after its output went out; idle ones closed, busy ones not; alive as long as somebody points to it |
| Socket (924-1098) | a descriptor | `Recv`, `Send`, `Accept`, `Close` | results of calls are told apart correctly |
| Acceptor, TcpSever (1101-1142, 1426-1519) | `_conns`, `_conn_id` | `NewConnection`, `RemoveConnection`, `RunAfter` | `_conns` holds the open connections, and every closed one leaves it |
| LoopThread, LoopThreadPool (849-919) | threads, mutex and condition variable, loops, round-robin index | `Create`, `Get_EventLoop`, `Thread_Entry`, `Get_Next_EventLoop` | a loop is published before it is used; the pool starts; connections are spread evenly |
| Buffer (58-233), Any (238-312) | bytes and two positions; a typed box | write, read, grow; clone, swap | a byte queue; deep copies |
| HTTP parser and server (`Http.hpp` 645-895, 897-1147) | parser state per connection, routes, root | `RecvHttpRequest`, `OnMessage`, `Route` | the same request however it is cut into segments; every request answered once, errors answered and closed; bounded memory for a line |
| HTTP utilities (`Http.hpp` 6-450) | none | `split`, `UrlEnCode`, `UrlDecode`, `VaildPath`, `ExMime`, files | coding inverts; a query is read back; an answer fits the files that are there |
| Echo server (`echo/echoserver.cc`) | a context per connection, a root | `OnMessage`, `HandleRequest` | as for the HTTP server |
| Logging, examples, tests | - | - | not part of the server's behaviour |

How they interact. All of a connection's handlers run in the thread of its loop;
threads meet in four places only: the task queue of a loop (mutex and eventfd),
the base loop's `_conns` (reached by tasks), reference counts of connections,
and the kernel's descriptor numbers. A connection is created by the base loop,
which queues `EnableTimeoutDelInLoop` and `EstablishedInLoop` on the
connection's loop and inserts it into `_conns`; it is closed by its own loop in
`ReleaseInloop`, which is always a queued task, and that queues
`RemoveConnectionInLoop` back on the base loop. The time wheel is one more
channel of each loop; its callback for a connection is `Release`.

What is hard to test here: tasks of two loops in unusual orders while a
connection is being set up; several reasons to release one connection in the
same round; descriptor numbers that are used again while stale tasks and timers
still go by the number; `errno` read after a call that did not fail; references
in a ring that wraps, dropped while callbacks run; wake-ups around the moment
the eventfd is read; threads that run before their object is constructed; HTTP
requests cut at any byte and pipelined, with `OnMessage` called again from the
`Shutdown` at its own end; files that vanish between two looks at them.
`PROJECT.json` lists these hazards at their lines.

## 2. The modules

| Module | Models | Abstract specification | Proofs |
|---|---|---|---|
| `Timers` | what a wheel promises: per-id countdowns | - | - |
| `TimeWheel` | `time_task_wheel` and `time_task` | implements `Timers` | `TimeWheelProofs` |
| `IdleTimeout` | Connection's use of the wheel; extends `TimeWheel` | - | `IdleTimeoutProofs` |
| `TaskQueue` | what a loop promises: a FIFO in which everything runs | - | - |
| `EventLoop` | `EventLoop` (queue, eventfd, round) | implements `TaskQueue` | `EventLoopProofs` |
| `ByteQueue` | what a buffer promises: bytes out once, in order; lines | - | - |
| `Buffer` | `Buffer` (vector, two positions) | implements `ByteQueue` | `BufferProofs` |
| `TcpServer` | Poller, Channel, Socket, Connection, Acceptor, TcpSever, round robin, over the kernel | - | `TcpServerProofs` |
| `LoopThreadPool` | `LoopThread`, `LoopThreadPool`, `TcpSever::Start` | - | `LoopThreadPoolProofs` |
| `HttpMessage` | what a line of a request says (no state) | - | - |
| `HttpReader` | how a request is read byte by byte (no state; extends `HttpMessage`) | - | - |
| `HttpStream` | what an HTTP connection promises (extends `HttpReader`) | - | - |
| `HttpContent` | the parser `HttpContent` (extends `HttpMessage`) | - | - |
| `HttpServer` | `Http_Server::OnMessage` (extends `HttpContent`) | implements `HttpStream` | `HttpServerProofs` |
| `EchoServer` | `OnMessage` of `echoserver.cc` (extends `HttpContent`, `HttpReader`) | - | - |
| `UrlCode` | `split`, URL coding, `VaildPath`, `ExMime`, `ParseHttpLine`'s target (no state) | reference definitions in `HttpTarget` | `HttpTargetProofs` |
| `HttpTarget` | `Route`, `IsFileHandler`, `FileHandler`, `Dispather`; `HandleRequest` of the echo server (extends `UrlCode`) | answers looked up at once | `HttpTargetProofs` |

The abstract modules `Timers`, `TaskQueue`, `ByteQueue` and `HttpStream` are
mapped to the functions whose promise they state, in the same files as the modules
that implement them. `TaskQueue` and `HttpStream` name their two halves: `Steps`,
which `EventLoop` and `HttpServer` are proved to implement (`ImplementsTaskQueue`,
`ImplementsHttpStream`), and `Fairness`, which TLC checks (in `WorkGetsDone` and
`EverythingIsAnswered`).

`TimeWheel`. A timer object is an element of `Tasks`; `wheels[s]` is the set of
objects referenced from slot `s`, so "the last reference goes" is "in no slot
any more". Two references to one object in the same slot are one element: both
go in the same `clear()`. `OneTime` reads the timerfd and moves `_wheels[_tick]`
to `clearing`; `DropReference` drops one reference; a dropped last reference
makes the object `dying`, in whose destructor the callback runs (and may call
the wheel: `InCallback`), and `ExcuteTimer` ends the destructor. A push into the
slot being cleared is lost (`lost`), and when the vector grows its storage is
freed under the loop that walks it (`corrupt`). `Elapse` is a second of the
timerfd; `pending` its count, saturated at `MaxPending`. `age` is history: the
seconds since a timer was set or refreshed.

`IdleTimeout`. The same wheel with the connection's five operations as its only
clients. Handlers of one round may queue `ReleaseInloop` before the timerfd is
handled in that round, and the callbacks of timers queue more; all of these run
before the timerfd is handled again. `due` counts them, and `Ring` waits until
they ran. What the code does not bound is bounded once: a connection has one
queued release of a reason other than its timer (`Release`). `enabled` may be
switched on and off any number of times; with `Reuse = FALSE` the user enables it
only when the connection's last timer has ended, which the code does not ask
(`idle_reenable`). `released` is history: the connections released for another
reason, or by a timer that ran out while the timeout was on. The close itself is
a later task, so that `DisableTimeoutDel` between the two comes too late, in the
code as in the model, and `DisableStopsTimer` speaks of the moment the timer ran
out.

`EventLoop`. `QueueInLoop` and `WeakUpFd` are the two halves of `QueueInLoop`,
between which any thread may run; the loop's own thread is one of the callers.
`batch` is the vector swapped out by `RunAlltask`. The eventfd's counter has a
limit at which a write fails.

`Buffer`. A value of the class is a record of the vector's cells, its size and
the two positions; the methods are operators on it, and the actions are the
calls made by `HanderRead`, `Send` and `SendInLoop` (which go through a second
buffer), `HanderWrite` and the message callbacks. Bytes are a small set with a
line feed in it; a resized vector's new cells are `Zero`, and cells behind the
data keep what they held. `overrun` records a copy past the vector's end or a
failed assertion, `peak` (history) the most bytes ever held. The positions are
not wrapped at 2^64.

`TcpServer`. One action per handler or task; a handler runs to its end in one
step, because other threads can only see its effects in task queues, `_conns` and
descriptor numbers. `HanderEvents` is `Channel::HanderEvent` as a function of the
connection's record, built from `HanderRead`, `HanderWrite`, `HanderClose` (the
error handler is the same), `ShutDownInLoop` and `SendInLoop`; the tasks that it
queues are appended together. What is kept of the data: whether the input buffer
holds any, how many sends the output buffer needs (0, 1 or 2). User code is the
message callback, which may leave an incomplete message alone, answer, answer and
shut down, shut down, or send an empty answer, and any callback may call
`EnableTimeoutDel`. `tasks[l]` is the rest of the loop's batch followed by its
queue, the order that `EventLoop` is shown to keep; that a sleeping loop is woken
is `EventLoop`'s `NoLostWakeup`. Timers are the objects `TimeWheel` keeps for a
connection, which may expire in any round; the same `_timers` entry that
`IdleTimeout` models is `timer[c].entry`. `Exists` says who owns a connection.
There the model is harsher than the code: `RunAlltask` keeps the functors of a
batch, and the `ConnPtr`s they captured, until the whole batch ran, while here a
task's reference goes when the task is taken. After a task of a destroyed
connection would run nothing is known any more, and the model stops that loop
there. The kernel (sockets, epoll sets, numbers that are free again after `close`)
is modelled from how the code uses it.

`LoopThreadPool`. Every step that another thread can see is an action: the
thread's (construct the `EventLoop`, lock, publish, notify, unlock, and `Start`,
which reads the member `_loop` again without the lock) and the caller's (start the
thread, construct the other members, lock, test, wait, return). `std::thread` is
`LoopThread`'s first member, so the thread may get to the mutex before
`ConstructMembers`, which then overwrites what it did: `Start` may then find a
null pointer (`"crashed"`). A mutex that is not constructed holds what memory
held, and locking it may succeed or hang (`LockHangs`). `clobbered` is history and
records that this happened. A wait may wake up for nothing (`WakeSpuriously`).
`load` counts the connections of each loop from the one that got fewest.

`HttpMessage`, `HttpContent`, `HttpServer`. A stream is a sequence of atoms: line
feed, carriage return, the header `Connection: keep-alive`, the header
`Content-Length` with one length, and whole well-formed request lines; a segment
or a line may end between any two of them, so that a broken line, a request line
with something behind it, and a header with a longer value all occur. Inside of
the parser one iteration of `RecvHttpHead`'s loop is one step (`pc`). The
functions fall through as the `switch` does, and a malformed line leaves the
parser in `HEAD` with status 400, as in the code (line 723 of `Http.hpp`).
`OnMessage`'s loop and its re-entry through `ShutDownInLoop` do the same thing
next (parse what is left, if anything), and are one disjunct: `AnswerRequest`.
`HanderRead` also happens on a connection that shuts down, as in `TcpServer`; why
else a connection closes, and partial sends, are left to `TcpServer`.

`HttpStream` is told byte by byte with the reader of `HttpReader`. The refinement
maps the parser's state to the reader's up to the first error; from there on both
only wait for the close. What arrives between an error and the close is parsed
anew by the code, and may even be answered: the mapping hides it.

`EchoServer`. The same parser, but `OnMessage` begins every time with a new
context, because it asks the connection's `Any` for a `ConnContext` and stored a
`ConnContext*`. `seen` is history, the text of the current request.

`UrlCode`, `HttpTarget`. Text is a sequence of bytes. From `pc = "target"` a
target is put together from pieces, and in each such state the coding functions
are compared with reference definitions; a target that `ParseHttpLine` takes
becomes a request to either server, whose looks at the file system (`IsRegular`,
`IsDirectory`, `ReadFile`) are steps between which `Change` adds or removes a
file. Names are short (`i.h` and `.h` for `index.html` and `.html`); the MIME
table is that one entry; users' handlers are sets of paths. `Targets` is the
request line's expression, which lets spaces stand around a target. A target that
decodes to an empty path (`%`, say) makes `FileHandler` of `Http_Server` take the
last character of an empty string, which is undefined: it may read the root as a
directory or as a file (`ReadRoot`, with every outcome of reading a directory),
and `AnswerIsTimely` says nothing of that one case.

## 3. The runs

| Run | Question | Result |
|---|---|---|
| `wheel` | does the ring keep the promise of `Timers`, with delays from one tick to the whole ring, and callbacks that set and refresh timers of less than a whole ring and cancel any? | holds: exact expiry, never early, `_timers` names what exists, all timers end |
| `wheel_chained` | and when a callback sets a timer of the whole ring? | violated: the timer is lost |
| `idle` | are connections closed when idle, only then, and never by a timer that ran out while the timeout was off? | holds when it is enabled only without a timer |
| `idle_reenable` | and when it is enabled while there is a timer? | violated: a busy connection is closed |
| `loop` | is a wake-up lost, a task lost, doubled or reordered, or I/O starved? | holds |
| `buffer` | is the buffer a queue of bytes, does every write fit, and does memory follow what is held? | holds |
| `server` | do pollers, kernel, ownership and `_conns` stay consistent, is nothing unsent lost, is every connection whose peer left erased? | holds without timeouts |
| `server_timeout` | do pollers and kernel agree when timers release connections that are released anyway, with interrupted waits? | holds |
| `http` | are the answers those of the stream, however it is cut and pipelined; is the input bounded; does `OnMessage` return? | holds up to the first error of a connection |
| `target` | do the coding functions invert and take apart what was put together; is each answer right for the files at some moment? | holds |
| `pool` | does the pool start, with loops that are ready, and is its round robin fair? | holds unless a thread overtakes the construction of its `LoopThread` |
| `echo` | is a sound request refused? | violated: when it arrives in two parts |

Five more configurations are kept beside the runs as reproductions of what the
code does; each ends in a counterexample (`tlc -config <cfg> <module>`):

| Configuration | Module, property | What it shows |
|---|---|---|
| `server_dangling.cfg` | `TcpServer`, `NoDanglingPointer` | with the timeout on, `EstablishedInLoop` runs for a connection that is destroyed already |
| `server_reuse.cfg` | `TcpServer`, `EstablishedIsServed` | a left-over timer unregisters another connection with the same number |
| `server_closes.cfg` | `TcpServer`, `ClosedOnce` | the close callback runs twice on a reset |
| `server_signal.cfg` | `TcpServer`, `GoneIsErased` | `EINTR` is still in `errno`, and a closed peer goes unnoticed |
| `pool_race.cfg` | `LoopThreadPool`, `PoolAlwaysStarts` | a thread is ahead of the constructor of its `LoopThread`, and `Start` hangs |

The findings of the runs, each with the sentence of the documentation or comment
it contradicts, are in `PROJECT.json`. In words, with those of the other
configurations:

* `RunAfter(f, 60)` from a timer's callback goes into the very slot that is
  being cleared, and `f` never runs (the README recommends chaining `RunAfter`).
* `EnableTimeoutDelInLoop` adds a second timer object to a connection that has
  one, although the comment in `source/Connection.hpp` says it does not. The
  object `_timers` no longer names is neither refreshed nor cancelled. It closes
  a busy connection; or it releases a closed one a second time, and then
  `Channel::Remove`, which goes by number, unregisters whoever has that number.
* `NewConnection` queues two tasks that hold a plain pointer. When the timeout
  expires between them, the connection can be released, erased and destroyed
  before the second one runs.
* On a reset, `EPOLLIN` and `EPOLLHUP` arrive together and both handlers release
  the connection: the close callback runs twice.
* `Recv` looks at `errno` after `recv` returned 0, which does not set it. After
  an interrupted `epoll_wait` the end of a stream goes unnoticed for ever
  (`source/Socket.hpp:107` says of that branch that nothing was read).
* `LoopThread`'s thread is its first member. When it publishes `_loop` before
  the initialiser `_loop(nullptr)` runs, or locks a mutex that is not constructed,
  `Get_EventLoop` waits for ever, and `TcpSever::Start` never gets to the base
  loop (the README says of `Start` that it starts the main loop); or the thread
  calls `Start()` on the null pointer.
* The echo server parses each message with a new context, so a request in two
  segments is refused with 400, and each message leaks a `ConnContext`. It also
  handles one request of a message: the next one waits for more input.

Met on the way, seen in the text rather than in a run: `HttpResponse::SetHeader`
inserts and does not replace, so for `HEAD` a `Content-Length` that a handler set
stays although the comment at `Http.hpp:1090` wants 0, and a handler's own
`Connection` header decides whether the connection stays open; requests that were
pipelined behind one that closes are still answered; an error response may say
`keep-alive` and is followed by the close all the same; the 405 of `Route` cannot
be reached, because the request line's expression only takes the five methods it
knows; the echo server's redirect is sent without a `Location`; a `Content-Length`
that is no number makes `stol` throw.

Bounds and why they are enough.

* `wheel`: a ring of 3 slots, two ids and two objects, delays at 1 and at the
  ring's size, 1 and 2 in callbacks (`CallbackDelays`): the hand wraps several
  times, references of one object lie before and behind the hand. Nothing in the
  wheel depends on 60 but the modulus, and the proofs cover every size.
  `MaxPending = 2` tells one expiration from more.
* `wheel_chained`: the same ring and objects, and the one delay that is in question.
* `idle`: two connections, a ring of 3, a timeout of 2, any number of enables and
  disables, one release queued for each connection besides its timer's. The proofs
  cover every ring and delay; `idle_reenable`: a ring of 4 with delays 1 and 3, so
  that the two objects of a connection end at different times.
* `loop`: two threads and the loop, three tasks whose names are free again when
  they ran, so that runs are unbounded; the counter's limit is 2.
* `buffer`: a vector of two bytes at first, writes of up to two (`MaxLen`), at most
  four held (`MaxHeld`), three values of a byte: the vector is compacted with
  data that overlaps its new place, grown with and without free space in front,
  and lines end at every position. The proofs cover every size.
* `server`: two connections (`ConnCnt`), one loop besides the base loop and one
  descriptor number, so that the second connection always gets the first one's
  number while the first one's tasks may still be queued. The output buffer
  needs at most two sends. In `server_timeout` a connection may have two timer
  objects (`EnableCnt`).
* `http`: lines of up to three atoms (`MAX_LINE`), one body length (2), segments of
  up to two atoms (`MaxSegment`), or of four that hold the end of a request and the
  next one, or of eight that hold two requests; `MaxLate` bounds segments after
  an error. Input of a connection is unbounded: states repeat because the parser
  empties the buffer. The proofs cover every alphabet, limit and length.
* `echo`: the same alphabet with a request of HTTP/1.0.
* `target`: every sequence of three of thirteen pieces (`MaxPieces`), every tree of
  four names, one change while a request is handled (`MaxChanges`; with one, a
  file is never replaced by a directory). Three pieces give an escape followed
  and preceded by anything, two separators with text between them, and a path
  of two levels.
* `pool`: up to three threads (`MaxThreads`); the proofs cover every number.
* `CHECK_DEADLOCK FALSE` in the `server`, `http`, `echo` and `wheel_chained`
  configurations: a server without clients, and whose clients have all come and
  gone, waits, and a closed connection does nothing more.

Fairness. `TimeWheel` and `IdleTimeout`: seconds pass, a readable timerfd is
read, `clear()` goes on, callbacks and tasks return. `EventLoop`: a thread that
pushed goes on to write, and the loop's own steps are taken, `epoll_wait`
included because it is level-triggered and has no timeout. Nothing obliges a
thread to queue a task or a peer to send. `TcpServer`: the steps of the loops'
threads, and that peers read what they are sent (`SendBufferDrains`), without
which a connection with output stays open rightly. `HttpServer`: the loop's
thread goes on, and the output goes out in the end even if input keeps coming.
That is strong fairness of `HanderWrite`: `epoll_wait` is level-triggered and
reports the two events together, so the write cannot be passed over for ever,
but an action of the model that reads input disables it in between.
`LoopThreadPool`: threads go on, and a thread that finds the mutex free again
and again gets it (strong fairness of `Lock`): it could only miss it if the
caller woke up spuriously for ever. No one owes a spurious wake-up or a
connection.

Every property of a passing run is broken by a mutant of the code it is about
(the definitions marked "Mistake"; `PROJECT.json` pairs them).

## 4. The proofs

`TimeWheelProofs` (for every `Capacity`, `Ids`, `Tasks`, `Delays`, ...):

* `TypeCorrect`: `Spec => []TypeOK`. It needs `ObjectInv`: an object that exists
  has been set up, the entry of an id names an existing object with that id, and
  nothing references an object in its destructor. Without these `ExcuteTimer`
  could erase the entry of no id.
* `NoEarlyCallback`: `Spec => []NeverEarly`. The invariant `DeadlineInv` says that
  every object has a reference `d` ticks ahead of the hand with
  `time + unread <= age + 1 + d`, where `unread` is 1 while an expiration is
  waiting in the timerfd. A tick lowers `d` and `unread` together, a second
  raises `age` and possibly `unread`; an object with a reference in the slot
  being cleared either has another far enough ahead or is due. The arithmetic of
  the ring (`SlotAhead`, `SlotInjective`, `SlotSurjective`, `SlotNearer`) is
  proved once and cited.
* `EntriesCorrect`: when no client sets a timer for an id that has one
  (`Reuse = FALSE`, what `EnableTimeoutDel` violates), `_timers` names exactly the
  objects that exist.

and, when besides `Reuse = FALSE` callbacks set no timer of a whole turn of the ring
(`Capacity \notin CallbackDelays`). The code does not ask this of callbacks, and
without it the promise is broken (`wheel_chained`): it is a rule for the users of
the wheel, which the connections of `IdleTimeout` keep, since their callbacks set no
timers.

* `TimersImplemented`: `Spec => ImplementsTimers`. No push lands in
  the slot whose `clear()` is running (`PushIsKept`, `NoTimerIsLost`). `LastInv`
  says that the reference of an object that is farthest ahead is as far ahead as
  the abstract countdown has left, so that the countdown ends with the last
  reference: a tick brings every reference nearer (`TickIsNearer`), except that
  the one in the slot being cleared would next be a whole turn away
  (`FullTurn`), and a push is the new last one (`PushIsLast`). `StepRefines` has one
  case for each action.

`IdleTimeoutProofs` (for every ring, set of connections and delays; with
`Reuse = FALSE`, since an `EnableTimeoutDel` beside a timer breaks the promise, see
`idle_reenable`):

* `ConnectionsCorrect`: `ConnInv` is inductive. It takes the wheel's own invariants
  (`ObjectInv`, `DeadlineInv`, `Named`) through `WheelSteps`, which says that
  a connection's operations are steps of the wheel's clients, and adds
  `TimerInv`: a timer that can still call back belongs to an open connection with
  its timeout on, idle for at least as long as the timer was not refreshed; and
  `ReasonInv`: what is queued to be released is in `released`, which carries
  `DisableStopsTimer` from the moment a timer runs out to the close.
* `ConnTypeCorrect`, `DisableReachesTheTimer` (`DisableStopsTimer`),
  `CloseReachesTheTimer` (`NoTimerAfterClose`) and `OnlyIdleConnectionsClose`
  follow; the last joins `TimerInv` with the deadline arithmetic of `DeadlineInv`.
* `ConnectionsKeepTheRules`: these clients keep to what the theorems about the
  wheel assume of its clients, one timer for an id.

`EventLoopProofs` (for every set of threads and tasks and every counter limit):

* `WakeupsNotLost`: `Spec => []NoLostWakeup`, from `WakeupInv`: outside the handlers
  a non-empty queue has its wake-up outstanding. In the handlers it need not,
  since the eventfd is read before the queue is swapped; this is why the property
  alone is not inductive.
* `TasksRunInOrder`: `Spec => ImplementsTaskQueue`. Each step maps to a step of
  `TaskQueue` or a stutter under `waiting <- batch \o queue`; the concatenation
  lemmas are `ConcatSubmit` and `ConcatRun`.

`BufferProofs` (for every first size and every length of writes):

* `BufferCorrect`: the conjunction of the types, `NoOverrun` and `MemoryBounded` is
  inductive. `RoomIsMade` says what `EnsureWriteSpaceSize` returns in each of its
  three cases: the same contents, room for the write, and a larger vector only
  when the free space in front is shorter than the write, which is why the
  vector stays below twice the contents after it grew. `AppendAppends` adds the
  copy. `TypeCorrect`, `WritesFit` and `MemoryStaysBounded` are its parts.
* `QueueImplemented`: `Spec => ImplementsByteQueue`, the whole refinement, under
  `queue <- Contents(buffer)`; `ReadTakes` says what is left after a read.

`LoopThreadPoolProofs` (for every number of threads):

* `PoolCorrect`: `PoolInv` is inductive. `HandshakeInv` adds to `LoopsAreReady`
  that only a thread sets its `_loop`, that nothing was constructed of the threads
  to come, and that the caller never tests a `_loop` that is not constructed;
  without the last, the caller could take garbage for a loop; and that the loops
  of the threads already waited for stay published, so that no `Start` of theirs
  finds a null pointer. `TurnInv` says which loops are one connection ahead: those
  up to `_next_EventLoop`. It carries `FairShare`, which alone is not inductive.
  `TypeCorrect`, `LoopsReady` and `Fair` are its parts.

`HttpServerProofs` (for every alphabet, line limit, body length and segments):

* `ParserCorrect`: `ParserInv` is inductive. It says for each point of the fall
  through the three functions what the parser may have left in the buffer:
  before `RecvHttpLine` anything; after it, a parser still in `LINE` has exhausted
  the lines; after `RecvHttpHead` one in `HEAD` has; after `RecvHttpBody` one in
  `BODY` has emptied the buffer and still lacks bytes. `LineType` and
  `AfterLineType` are about the first line feed, whose existence
  (`LeastExists`) comes from the well-foundedness of the finite subsets' order.
  `TypeCorrect`, `AwaitsMore` and `InputStaysBounded` are its parts.
* `StreamImplemented`: `Spec => ImplementsHttpStream`, the whole refinement. The
  reader of `HttpStream` takes a text byte by byte, through a function that recurs
  along the text (`Stream!After`); the parser takes whole lines and as much
  of a body as is there. That function exists and is unique (`ReadsExists`,
  `ReadsAgree`: a first place where it were not, or where two of them differed,
  contradicts the step before it), which gives it back as two rules,
  `AfterNothing` and `AfterOneMore`. `PrefixRead` says that the bytes of an
  unfinished line change nothing but the reader's line, `LineRead`, `TooLongRead`
  and `BodyRead` what a whole line, a line past `MAX_LINE` and a stretch of
  a body do. `StreamInv` adds to `ParserInv` what the mapping relies on: a parser
  at the start of a message has an empty request, one in `BODY` lacks bytes, a
  connection that refused its input is not open any more, and one with an answer
  to send is not closed. Then one lemma for each
  action (`ArriveStep` to `WriteStep`) shows the step or the stutter.

`HttpTargetProofs` (for texts of every length). `UrlDecode`, `split` and the
flattening of `UrlEnCode` are recursive functions along a text. The induction
theorems of the library are out of reach, so each claim is proved by descent: the
places where it fails would have a least (`LeastExists`) or a last one
(`LastExists`), at which it does not fail. `Chain` is the pattern that `UrlDecode`
and `split` share, a function that stops, skips, or puts something in front of
its value at a later place; `ChainExists` and `ChainType` say once that there is
such a function and what its values are, and `DecodeUnfolds` and `SplitUnfolds`
give the two functions as rules. With these:

* `CodingIsInverted`: `Spec => []CodingInverts`. The code of each byte stands where
  the codes before it end (`EncodeIs`, `PiecesInPlace`), and there the decoder reads
  that byte (`DecodeOneCode`), from the last to the first (`CodingRoundTrip`).
* `SplitTakesRuns`: `Spec => []SplitIsMaximalRuns`. From an offset at which a run may
  begin, `split` returns the list of the runs from there on (`SplitListsRuns`): the
  next separator ends the first of them (`FindIs`, `FirstRun`), or is at the
  offset itself (`NoRunAtSeparator`).
* `ParamsAreRecovered`: `Spec => []ParamsRecovered`. A code holds neither `&` nor `=`
  (`CodeIsOnePiece`), so that `split` finds the three pairs (`SplitThree`) and the
  first `=` of each is the one that was put there (`PairIs`).
* `AnswersAreTimely`: `Spec => []AnswerIsTimely`, for paths of every length, all trees
  of the four names, and up to one change of a file during a request
  (`TargetAssumption`; with more the property would be too strong, because a file
  and a directory could change places between two looks). The inductive
  invariant is `TimelyInv`: at each point of `HandleRequest` it says which looks have
  failed, each at some tree that was seen since the request came, which name was
  found (`FoundInv`), and that these trees differ by one file (`Apart`). That
  suffices because of three facts. A name leads in the smaller of two trees to the
  same place as in the larger, or nowhere (`WalkMono`), so that a look which fails in
  the larger tree fails in both. A name without dots leads to its own pieces or
  nowhere (`PlainWalk`), and a name and the same with `.html` are not both touched by
  the change of one file (`HtmlNames`, `SameLevel`). A name that leads to a file ends in
  that file's last piece (`EndsAtFile`), whatever dots come before, which gives
  the type of the page (`PageType`). For these, `SplitConcat` says that `split` of two
  texts joined by a separator is the two lists one after the other.
  `HtmlIsTimely`, `RedirectIsTimely` and `MissingIsTimely` draw the conclusions for the
  three answers that rest on several looks; `HttpLooksAtOnce` is the one look of
  `Http_Server`, with the exception of the empty path.

`TcpServerProofs` (for every number of worker loops, connections and descriptor
numbers, partial sends, signals and reactions of the callbacks):

* `TypeCorrect` and `PollersCorrect` hold with and without timeouts. `CoreInv` is
  inductive: besides the types and `PollersAgree` it says that open sockets have
  numbers of their own (`FdInv`), that tasks run in the loop of their connection
  (`TaskInv`), that events are only handled for open connections of the loop
  (`ActiveInv`), where `NewConnection` is (`CreatingInv`), and that the server's own
  `EnableTimeoutDel` is queued once (`EnableInv`). The handlers are treated once,
  as functions of the connection that leave number, loop and socket alone
  (`Handled` and the lemmas about it).
* `EstablishedServed` and `NothingDangles` are for servers without timeouts
  (`EnableCnt = 0`); with them both fail, see the configurations `server_reuse`
  and `server_dangling`. `ServedInv` is the life of a descriptor number: all
  releases of a round run in the tasks of that round (`ReleaseInv`), so that a
  release which comes after the close can find its number in use again only by a
  connection that its loop does not know yet (`StaleInv`); a connection is
  untouched by all but its own tasks until `EstablishedInLoop` ran
  (`EstablishInv`), and open ones are owned by `_conns` or about to be
  (`OwnedInv`). Each of the four is needed for the others: without `ReleaseInv` a
  release left over from an earlier round would take another connection out of the
  poller, which is just what a timer's release does.
* `ClosedWithReason` and `OutputSent` (`ClosedForAReason` and `NothingUnsent`) assume
  also that callbacks do not send nothing (`"blank" \notin Reactions`), since `Send`
  of no bytes closes the connection. `MindedInv` says that a connection is only
  written to while it has output, that a reported hang-up is one, and that
  a connection with a release queued is settled (its output is out or its peer
  reset it, and its peer left or it was shut down) and will see no event of this
  round any more. The last part is what a handler relies on that releases first
  and calls the message callback, or another handler, afterwards.
  `HanderEventsMinded` follows the handlers of one event in their order.

Assumptions are those named in the modules (`WheelAssumption`, `LoopAssumption`,
`BufferAssumption`, `PoolAssumption`, `HttpAssumption`, `TargetAssumption`,
`ServerAssumption`), and those of single theorems named above. `WheelAssumption`
asks of `NoTask` that it is none of the values a countdown can have, as model
values are not. Only model-checked: every liveness property (`TimersEnd`,
`IdleConnectionsClose`, `WorkGetsDone`, `GoneIsErased`, `EverythingIsAnswered`,
`PoolStarts`), since liveness under fairness is out of the prover's reach; and the
echo server, whose run shows what it does wrong. Every other property of a passing
run is a theorem, with the assumptions named above.

## 5. Not modelled, and the plan

Not modelled: logging, the set-up of sockets, tables of MIME types and status
words, the text of responses, `WriteFile` (without a caller), examples and tests
(clients of the library). Of `Any` only the type test of `Get` matters to the
models; its copies live within one call of one thread. Where `src/source/`
differs from the header (`Release` and the timers bind a plain `this` there, and
`DisableTimeoutDel` calls itself), the header supersedes it.

Known and not covered by a property: a loop that was busy for more than a second
moves the hand once for all the expirations it reads, so that its timers run late;
no code assigns `CONNECTED`, so that `Connected()` is always false;
`DisableTimeoutDel` after a second enable leaves one object alive (the same cause
as `idle_reenable`); sending no bytes closes the connection, because `send`
returns 0; `ChangeProtocalInLoop` drops the event callback, and `_Write_Cb` is
never called.

What a next step could add:

1. `ChangeProtocal`, and the server without a pool, where the base loop runs at
   once what it would otherwise queue.
2. Several changes of the files during one request, with directories in the
   place of files.
