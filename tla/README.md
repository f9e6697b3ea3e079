# Formal models of molerat

TLA+ modules, TLC runs and TLAPS proofs about molerat, a C library of
*tasklets* (lightweight cooperative threads scheduled onto POSIX threads) and
of the network code built on them. The modules are written from the source,
`src/` and `include/molerat/`; paths below are relative to the repository.

## 1. The system

### Components

| component | state | operations | properties that make it correct |
|---|---|---|---|
| run queues (`src/tasklet.c`) | per tasklet: `runq`, `runq_next`, `runq_prev`; per run queue: `head`, `current`, `current_state`, `stop_waiting`, `worker_waiting`, a mutex, a condition variable | `tasklet_run`, `tasklet_stop`, `tasklet_fini`, `run_queue_run`, the worker threads | a tasklet told to run runs once more, also when told during its run; handlers of tasklets with one mutex exclude each other; after `tasklet_fini` no run queue and no worker knows the tasklet; `tasklet_stop` returns |
| wait lists (`src/tasklet.c`) | per tasklet: `wait`, `wait_next`, `wait_prev`, `waited`, `unwaiting`; per list: `head`, `up_count`, `unwaiting` | `wait_list_wait`, `_down`, `_up`, `_set`, `_broadcast`, `_fini`, `tasklet_unwait` | no lost wake-up; `wait_list_fini` returns, and not before every thread that is on its way to the list's mutex has been there; no tasklet left on no list and no run queue |
| threads (`src/thread.c`) | mutexes, condition variables, *mutex transfer* with veto, thread-local storage | wrappers over pthreads and the skinny-mutex submodule | those of the primitives |
| bounded queue (`src/queue.c`) | a ring of items, `waiters`, `waiters_state` | `queue_push`, `queue_shift` | FIFO, bounded, neither side waits for ever when it could proceed |
| poll thread and timers (`src/poll_common.c`) | the poll mutex, `thread_woken`, `thread_stopping`, a circular list of timers | `timer_set`, `_cancel`, `_wait`, `_fini`; the loop prepare - poll - dispatch - run queue | no timer is slept through; none fires early or after it was cancelled |
| back ends (`src/poll_poll.c`, `src/poll_epoll.c`) | watched descriptors, a `pollfds` array with slots and a list of updates, or an epoll set and a list of gone descriptors | `watched_fd_create`, `_destroy`, `_set_interest`, `_set_handler` | a handler sees events of its own descriptor that did happen, and none after `watched_fd_destroy` |
| sockets (`src/socket.c`) | simple sockets with two wait lists; a connector with a list of addresses; server sockets with several acceptors | `read`, `write`, `close`, `partial_close`, `accept`, connect with retries | a reader or writer that was told to wait is woken by readiness, close or error; a connection attempt ends in a socket or an error |
| streams, delimited streams (`src/stream.c`, `src/delim_stream.c`) | bytes left in the chunk, the state of the chunk header | chunked writing and reading of one stream over another | what is read is what was written, wherever the transport cuts it |
| HTTP reader and writer | parser state, a buffer with bytes to carry over | prebody, body, next message | no byte is lost or given twice between messages |
| HTTP server | list of connections, one tasklet each, a timeout timer | accept, serve, time out, destroy | each connection is destroyed once |
| socket transport (`src/socket_transport.c`) | an accepting tasklet, a handler call-back | accept, destroy | no call-back after destroy |
| application (`src/application.c`) | counters of runs and stops | `application_run`, `application_stop` | the n-th run ends by the n-th stop |
| growing buffers (`src/buffer.c`), base utilities | characters, capacity, a frozen flag | append, print, freeze | nothing is cut off, and nothing moves once it is frozen |

### How they interact

A handler runs on a worker thread with its tasklet's mutex held. It calls a
non-blocking operation (read a socket, shift a queue, wait for a timer). If the
operation cannot proceed it puts the tasklet on a wait list and says so, and
the handler returns. Whoever makes progress possible (the poll thread, another
tasklet) signals the wait list, which calls `tasklet_run`, which puts the
tasklet on a run queue (that of the calling thread), and wakes the worker.
`tasklet_stop` and `tasklet_fini` take a tasklet off its wait list and its run
queue, and wait if another worker is running it. The locks are ordered:
tasklet mutex, then the mutex of the object (poll, wait list), then that of the
run queue. Two places go against the order, and are the hard part of the code:
a worker wants a tasklet's mutex after it has taken the tasklet off its queue
(*mutex transfer*: it queues for the mutex before releasing the run queue's, and can
be vetoed), and `tasklet_unwait` wants a wait list's mutex after having read
which list under the tasklet's own lock (it announces itself in `unwaiting`,
and `wait_list_fini` waits for the announced).

### What is hard

The hazards are in `PROJECT.json`, each at its line. The main ones: unlocked
reads of `t->runq`; a condition variable shared by workers and stoppers;
stops of a tasklet that a worker has in its hands; a wait list destroyed under
threads that leave it; timers removed from a list while it is walked; events
left over from an earlier poll; slots moved while they are walked; connections
that time out, end and are destroyed at the same time.

## 2. How the modules are arranged

1. `TaskletSched`: what run queues promise. `RunQueue`: the run queues in
   detail, over raw links. `RunQueueSched`: the refinement.
2. `WaitList`: wait lists over the scheduling of `TaskletSched`.
3. `BoundedQueue`: a bounded FIFO. `Queue`: the queue over its wait list, and
   its ring, refining the FIFO.
4. `TimerService`: what timers promise. `PollTimers`: the loop of the poll
   thread, its wake-up, the timer list, refining that.
5. `WatchedFds`: the interface between sockets and back ends. `PollSlots` and
   `PollEvents`: the two back ends, poll(2) and epoll, under the loop.
6. `Socket`: client sockets with their connector, and simple sockets.
   `ServerSocket`. `SocketsOverPoll` joins both to `PollSlots`,
   `SocketOverEpoll` joins client sockets to `PollEvents`.
7. `DelimStream`, `HttpReader`, `HttpWriter` (with the growing buffer),
   `HttpServer`, `SocketTransport`, `Application`, put together by `Services`.

`RunQueueProofs`, `WaitListProofs`, `QueueProofs`, `PollTimersProofs`,
`PollSlotsProofs` and `ServicesProofs` hold the theorems. `SequenceLemmas` and
`CircleLemmas` are what several of them need about sequences, sets of numbers and circular
doubly linked lists. The `MC` modules give constants their values.

Left to do: the echo server and the reading side of the HTTP client.

## 3. Modules

### RunQueue, and what it promises

`RunQueue` has the fields of `struct tasklet` and `struct run_queue` as
functions, and one process per thread. A thread of `RunQ` is the worker of the
run queue with its name; a thread of `Client` is any other. A critical section
under a run queue's mutex is one action. The exception is the end of a handler:
the worker keeps the mutex on its way to the label `next`, and is then at
`pc = "next"`, where it locks others out (`Unlocked`). The unlocked read of
`t->runq` that comes before each critical section is an action (`RunRead`,
`StopRead`), and the retry when it turns out stale is another
(`RunRetry`). The loops of `tasklet_stop` and `tasklet_fini` have such a retry
too, which no execution takes (`StopFindsTasklet`), so it is not an action.

| code | actions |
|---|---|
| `tasklet_run` | `CallRun`, `RunRead`, `RunEnqueue`, `RunMark`, `RunRetry` |
| `tasklet_stop`, `tasklet_fini` | `CallStop` / `CallFini`, `StopRead`, `StopQueued`, `StopOwn`, `StopForeign`, `StopWaited` |
| `run_queue_run`, worker threads | `Enter`, `Sleep`, `Wake`, `Transfer`, `Vetoed`, `ReturnDestroyed`, `ReturnIdle`, `ReturnRequeue`, `NextTasklet` |
| tasklet mutexes | `Lock`, `Unlock`, `Transfer`, `Veto` |
| condition variables | `blocked`, `SpuriousWakeup` |

What a caller must respect is in the guards: the tasklet's mutex is held for
`tasklet_stop` and `tasklet_fini`; a thread holds one tasklet mutex at a time;
nobody calls `tasklet_run` on a tasklet that is being finalized
(`FiniIsFinal` of `WaitList` shows that wait lists do not). A run queue is
serviced by one thread. With `ForeignStop = FALSE`, `tasklet_stop` is only
called by the handler of the tasklet; `tasklet_fini` can come from anywhere.

`TaskletSched` is the promise: a tasklet is *pending*, *running* or *gone*.
`RunQueueSched` maps the detailed state to it (`ImplementsSched`).
The mapping reads pending off `runq`, `current` and `current_state`.

### WaitList

Wait lists as sequences, with the two `unwaiting` counts, over abstract
scheduling (`pending`, `stopped`). Handlers are processes (`pc`), since a
tasklet's mutex serializes all that is done on its behalf. `tasklet_unwait` is
split where it changes mutex (`UnwaitAnnounce`, then `UnwaitRemove` or
`UnwaitGone`), `wait_list_fini` where it changes mutex per tasklet (`FiniRun`,
`FiniDetach`) and where it waits (`FiniWoken`). Lists in `Sema` are used with
`down`, `up` and `set`, the others with `wait` and `broadcast`, which is how
the source uses every one of its lists. All calls of `wait_list_down` are for
one unit. No call is made on a list that is being finalized, except by the
tasklets that leave it.

### Queue, and what it promises

`BoundedQueue` is a first-in first-out queue of at most `MaxSize` items, and
`Queue` is the ring and the wait list of `src/queue.c`. The queue has no lock.
Its users call it from handlers that share a mutex, so a call is one action, and
`running` is the one handler that runs. A call either waits
(`PushWaits`, `ShiftWaits`: the handler returns) or goes ahead (`PushItem`,
`ShiftItem`). Both decide on `waiters_state` first (`StateIf`); `Tokens` and
`Flipped` are what `flip_waiters_state` does to the count and to the waiters.
The wait list is the one of `WaitList` reduced to what a queue sees of it: who is
on it in which order, and the count. `Others` and `NextInLine` are
`tasklet_unwait`. `NoItem` is memory that is not initialized: `TypeOK` and
`ImplementsFIFO` fail if it is ever returned. `Slot` is `write & (capacity - 1)`,
the capacity being a power of two and `write` less than twice the capacity.

### PollTimers, and what it promises

`PollTimers` has the fields of `struct timer` and `struct poll_common` under
their names. Whatever holds the poll mutex from beginning to end is one action;
`dispatch_timers`, which gives the mutex away to nobody but is interesting for
what it does to its list, is one action for each timer (`DispatchDue`,
`DispatchNotDue`), and operations wait meanwhile (`Unlocked`). Outside the
mutex the thread reads the clock and enters the poll in one step (`Poll`), and
an operation can come before or after it.

| code | actions |
|---|---|
| `timer_init`, `_fini`, `_set`, `_cancel`, `_wait` | `TimerInit`, `TimerFini`, `TimerSet`, `TimerCancel`, `TimerWait` |
| `poll_thread` | `Prepare`, `Poll` or `SkipPoll`, `Dispatch`, `RunTasklets`, `ThreadEnds` |
| return of `poll`, `epoll_pwait` | `PollWoken`, `PollTimesOut`, `PollFindsEvent` |
| `dispatch_timers` | `Dispatch` (up to its loop), `DispatchDue`, `DispatchNotDue` |
| `poll_common_stop`, `time_now` | `PollStop`, `Tick` |

`Backend` says what a wake-up is: a byte in a pipe, or a signal. `until` is the
local `timeout`, kept as the time at which it ends; `Forever` is the -1 of the
code. It, `sawWake`, `cursor` and `dispatchNow` get a fixed value when the
thread has no more use for them. `wanted` is history: the timers that have been
set and not cancelled. The code has no such variable; that it reads the same off
its list and `fired` is a conjunct of `OneCircle`. `PollStop` is called at exit, when
no timer is left (the code asserts it), and ends the thread: the runs do not check
for deadlock. Wait lists are sets, since a broadcast wakes all and
takes none off. Bounds: `MaxTime` on the clock, `MaxWakes` on the bytes in
the pipe, `Millisecond` and `IntMax` small so that rounding and the width of
an int matter. Two timers are the fewest that make a list with a head, a tail
and a neighbour to be relinked; the theorems of section 7 are about any number of
them, and about both back ends (`poll_timers` runs with the pipe, which has the
more states).

`TimerService` is the promise. A timer is `none`, `idle`, `armed` or `fired`, and
`Fire` wants it armed and its window begun.

### The back ends and the sockets

`WatchedFds` is what the two sides share: `call`, by which a socket's thread is in
the back end and may have to wait for the poll lock, and `event`, by which the
poll thread is in a handler. `ready` is what the system would report. A
descriptor is a number that is not used again, so that a stale use of a
`watched_fd` shows.

`PollSlots` has the two arrays of `src/poll_poll.c` as one sequence of records (they
have the same indices), the slot numbers, and the list of updates.
`poll_prepare` is one step for each update (`SyncNext`), `poll_dispatch` one step
for each slot and each return of a handler (`DispatchSlot`, `Handled`), so that
handlers change things under the walk; the lock is held meanwhile (`Unlocked`), except
that `watched_fd_create` does not take it. `PollNothing` stands for time-outs, signals
and polls that are skipped for a timer, at any time.

`PollEvents` is `src/poll_epoll.c`. `edge` is epoll's own ready list: what becomes ready
for an interest is reported once, and `watched_fd_set_interest` returns at once when the
interest is there already. `ee` outlives a skipped poll (`PollSkipped`), as in the code.

| code | actions of `PollSlots` | of `PollEvents` |
|---|---|---|
| `watched_fd_create`, `_set_interest`, `_set_handler`, `_destroy` | `Create`, `SetInterest`, `SetHandler`, `Destroy` | the same |
| `poll_prepare` | `SyncNext`, `Prepared` | `Prepare` |
| `poll_poll` | `PollReady`, `PollNothing` | `PollReady`, `PollNothing`, `PollSkipped` |
| `poll_dispatch` | `BeginDispatch`, `DispatchSlot`, `Handled`, `EndDispatch` | `BeginDispatch`, `DispatchEvent`, `Handled`, `EndDispatch` |

`Socket` has three actors. The connector's tasklet tries the addresses, one descriptor
for each (`OpenNext`, `Connect`, `NotConnected`, `GiveUp`), and ends by handing its
descriptor to the socket (`Adopt`, `Adopted`) or with an error. The owner's tasklet
calls read, write, shutdown, close and destroy in any order; a call that would block is
taken apart into its wait on the list (`WaitReady`), its call of
`watched_fd_set_interest` (`Arm`) and its return (`Waiting`), since the
poll thread's handlers (`HandleSocket`, `HandleConnector`) run without the socket's
mutex. A handler wakes readers and writers in two steps. The vtable is read before the
call is entered (`OwnerCalls`, `Enter`), and `via` says which it was. `ServerSocket` is
one acceptor over several listening descriptors, with the loop over `s->fds` taken apart
(`Scan`, `Accept`, `ArmAll`), and its destruction, also of a socket of which only some
descriptors could be bound.

In `SocketsOverPoll` the `subject` of a behaviour is a client or a server socket: they
share nothing but the back end, which one of them keeps busy, and so the state spaces
add up. Over epoll only the client socket is modelled: it is where the two back ends
differ for their users (section 6).

### Services

The modules of `Services` do not use each other's state, and `subject` says whose
behaviour it is, as above. `HttpServer` does use readers and writers; it abstracts
what they do to the outcomes that its code tells apart (progress, done, an error).

* `DelimStream` is the writer and the reader of `src/delim_stream.c`, call by call, over
  a pipe that takes and gives parts. Bytes know their stream and position, the two
  bytes of a chunk header their part. A reader that is at the end of a truncated stream
  ends as `"aborted"`, since the code runs into an assertion.
* `HttpReader` reads `Wire`, the cells of three pipelined requests (with a chunked
  body, none, and one of known length), in pieces of any size, through the prebody
  buffer and the caller's. `Execute` is `http_parser_execute` as `src/http_reader.c` uses
  it: it consumes up to the callback that pauses it. That a request has one head, which comes before its
  end, is assumed of the wire (`WireAssumption`), since the parser calls nothing back otherwise.
* `HttpWriter` is `src/http_writer.c` over the buffer of `src/buffer.c`: what is printed
  (`Header`, `HeadersOver`) grows the buffer, which is then frozen and written out in
  parts, with waits and failures between them.
* `HttpServer` has each connection with its tasklet, its exchange and its timeout, which
  exclude each other by the connection's mutex (`holder`) when they need it.
  `connection_destroy_locked` is two steps, `RemoveConnection` under the server's mutex
  and `FreeConnection`; `http_server_destroy` is `DestroyHttpServer`, `NextVictim`,
  `Transferred` and `BackToServer`, with the mutex transfer that can be vetoed.
* `SocketTransport` is the server of `src/socket_transport.c`: `ss_accept` (`AcceptBegins`,
  `CallHandler`, `HandlerReturns`, `AcceptEnds`), which gives up the mutex for the handler,
  and `ss_destroy` (`DestroyTransport`, `WaitOver`, `FreeTransport`).
* `Application` is `application_run` and `application_stop`, with the signals pending for
  the main thread.

## 4. Runs

| run | model | properties | what it shows |
|---|---|---|---|
| `run_queue` (pass) | `RunQueue.cfg` | `TypeOK`, `ListWellFormed`, `HandlerHoldsMutex`, `FiniIsFinal`, `NoMissedSignal`, `StopFindsTasklet`, `ImplementsSched`, `RunTakesEffect` | A worker, a poll thread and a client run, stop and finalize two tasklets that share a mutex: every interleaving of tasklet_run, tasklet_fini (from a handler, from another run queue, from a client) and run_queue_run keeps the queues well formed and implements TaskletSched. |
| `run_queue_live` (pass) | `RunQueueLive.cfg` | `PendingRuns`, `StopReturns` | Under fair scheduling and fair mutexes a tasklet told to run is run or stopped, and tasklet_stop and tasklet_fini return, while another tasklet keeps the worker busy forever. |
| `foreign_stop_returns` (violation) | `ForeignStopReturns.cfg` | `StopReturns` | tasklet_stop of a tasklet that a worker is about to run, overtaken by a tasklet_run: the stopper and the worker wait for each other forever. |
| `foreign_stop_run` (violation) | `ForeignStopRun.cfg` | `RunTakesEffect` | After tasklet_stop has taken a tasklet from a worker that was about to run it, tasklet_run on it does nothing. |
| `wait_list` (pass) | `WaitList.cfg` | `TypeOK`, `UnwaitingCounts`, `FiniIsFinal`, `NoDanglingTasklet`, `NoLostWakeup` | Two tasklets wait on, move between and leave a semaphore and a broadcast list while other threads signal and destroy the lists: the accounting of threads on their way to a list is exact, wait_list_fini outlasts them, no tasklet is left dangling, and whoever is at the head when there is something to be had is awake. |
| `wait_list_live` (pass) | `WaitListLive.cfg` | `WaitCallsReturn` | Under fair scheduling wait_list_fini returns, and so does tasklet_unwait, also when they meet. |
| `queue` (pass) | `Queue.cfg` | `TypeOK`, `TokensExact`, `NobodyForgotten`, `ImplementsFIFO`, `WaitersGo` | Two producers and a consumer share the one wait list and a ring of two slots that grows while it is wrapped: it is a first-in first-out queue of at most three items, its count is always what there is to be had, a waiter that could go ahead is awake or behind one that will pass it on, and the consumer does not wait for ever while there is an item. |
| `poll_timers` (pass) | `PollTimers.cfg` | `TypeOK`, `NoOversleep`, `OneCircle`, `WaitersAwake`, `ImplementsService`, `DispatchesAllDue`, `OverdueFires`, `StopEnds` | Two timers are set, moved, cancelled and finalized, and waited for by a tasklet, in every order against the steps of the poll thread: none fires early, twice or after it was cancelled, the thread never sleeps past one unless a wake-up is on its way, dispatch_timers reaches all that are due, and what is overdue fires. |
| `poll_long_timer` (violation) | `PollLongTimer.cfg` | `NoOversleep` | A timer that is further ahead than an int has milliseconds makes the timeout negative, and the poll thread sleeps for ever. |
| `sockets` (pass) | `Sockets.cfg` | `TypeOK`, `NoStrayCall`, `SlotsOK`, `NoLostReadiness`, `NothingLeaks`, `EveryoneServed` | A client socket that tries two addresses, or a server socket with up to two descriptors and two connections, over the poll(2) back end: handlers are only called for what exists, the slots stay consistent while they are walked, every wait reaches poll(2), nothing stays open, and who waits is served. |
| `epoll_lost_wakeup` (violation) | `EpollLostWakeup.cfg` | `NoLostReadiness` | Over epoll an event that is dispatched between a read or write that would block and its wait on the list wakes nobody, and the interest set after it is skipped as already registered: the tasklet sleeps on a ready socket. |
| `services` (pass) | `Services.cfg` | `StreamsDelimited`, `BodyIntact`, `MessageIntact`, `ServersSound`, `CallsReturn` | Delimited streams over a transport that cuts anywhere and may end anywhere, the HTTP reader on three pipelined requests, the HTTP writer and its buffer over two messages, the HTTP server with two connections, their timeouts, exchanges and its destruction, the socket transport with its destruction, and three runs and stops of the application. |


Bounds of the last runs. `NFds = 2` descriptors are the fewest for a hole in the arrays
that another slot moves into, and for a connector that tries a second address after the
first failed; `MaxArrivals = 2` connections are two for one descriptor or one for each. For epoll
one descriptor shows the loss, and `GoneBatch = 100` is the code's. Chunks of at most
`MaxChunk = 2` bytes in streams of `MaxBytes = 3` make a stream of several chunks, and
`PipeSize = 3` holds a header and one byte, so that both sides wait inside headers and
chunks. `MaxRead = 4` cuts the wire anywhere, and reads over the end of a request. A buffer that
starts at `StartCapacity = 2` and texts of up to `MaxText = 7` grow it twice, and meet its
capacity exactly. Two connections are the fewest for an array with an element that moves,
and let both race with the destruction; `MaxMessages = 3` connections of the transport,
three runs and two interrupts let each come before, during and after the call that waits.
The theorems of section 7 are about any number of descriptors and connections.

## 5. Fairness

Weak fairness on the steps of a thread that only needs the processor. Strong
fairness on steps that need a mutex, which other threads can take and release
for ever: pthread mutexes do not starve a waiter on the platforms in question,
but nothing weaker than that makes any of the liveness properties true. Strong
fairness of `RunDone` says that the retry loop of `tasklet_run`, which is
lock-free and not wait-free, is not overtaken for ever. Handlers and critical
sections of clients end (`ReturnStep`, `Unlock`): that is the contract of
handlers. Nothing is assumed of calls being made.

In `Queue`, a tasklet that is to be run again and again is run (strong fairness
of `Start`: handlers take turns at one mutex), and a handler that is run again and
again at some time uses the queue (`Push` or `Shift`). With two
consumers `WaitersGo` does not hold: the first in the list stays there when it goes
ahead, so all that is added is for it, and the second depends on the first
leaving the list. The property is therefore about tasklets that are alone on
their side, the consumer in the run.

In `PollTimers` the poll thread goes on when it can (`WF_vars(PollThread)`).
That its poll finds an event of a descriptor is not part of it
(`PollFindsEvent`), nor is the passing of time: `OverdueFires` is about timers
whose time has come.

In `SocketsOverPoll` the poll thread and the handlers go on (weak fairness of `Poller` and
`Handler`), poll(2) is not for ever interrupted or skipped when it has something to report
(strong fairness of `PollReady`), the tasklets of connector, owner and acceptor and the
calls into the back end get their mutex at some time (strong fairness), and connect(2)
is answered. The owner need not make another call, and no data or connection has to come.
In `Services` those that destroy something go on and get the mutexes they want (strong fairness
of `Destroyer`, `Teardown` and `Destroying`), handlers of the transport return (`Accepting`), and
the main thread goes on. No exchange ends, no timer fires and no peer answers by
assumption. `ss_destroy` waits while handlers are being called, so that connections
which never stop coming would delay it for ever: `TransportDestroyed` is about the
`MaxMessages` that come.

## 6. Findings

`tasklet_stop` of a tasklet that another thread's worker has taken off its
queue and is about to run, which `test/queue_test.c` does, meets two defects,
each a run that ends in a counterexample.

* `ForeignStopReturns`: a `tasklet_run` overwrites `CURRENT_STOPPED` with
  `CURRENT_REQUEUE` (`src/tasklet.c:235`) after the veto and before the worker
  looks. The worker goes back to waiting for the mutex, which the stopper
  holds while it waits for the worker.
* `ForeignStopRun`: after a successful veto the worker goes to `next` without
  clearing `t->runq`. A later `tasklet_run` finds it set and does nothing.
  (`tasklet_fini` has the same path, harmless since the tasklet is gone.)

`PollLongTimer`: `poll_poll` turns the timeout into an int of milliseconds
(`src/poll_poll.c:289`, and the parameter of `epoll_pwait` at
`src/poll_epoll.c:204`). For more than 24.8 days it can come out negative, which
means no timeout: on an idle system the timer is slept through. What
`test/timer_test.c:39` says of every timer, that it fires at most 100 ms after
its latest time, then fails.

`EpollLostWakeup`: a read finds nothing; then data comes, and the poll thread dispatches
the event for an interest that is still set from before; then the read puts its
tasklet on the wait list, and `watched_fd_set_interest` returns at once, since the interest
is there (`src/poll_epoll.c:135`). epoll is edge-triggered and reports nothing more, and
the tasklet sleeps on a socket that is ready, against `include/molerat/stream.h:25`. Over
poll(2), `NoLostReadiness` holds of the same socket.

Of the first two: the library itself calls `tasklet_stop` from outside the handler at
`src/http_server.c:221` and `src/socket_transport.c:88`.

Met while modelling, and kept in the models as they are, without a run of their own:

* `http_reader_body` loses bytes: body bytes that were in the prebody buffer are copied to the
  caller's, and when the `stream_read` that follows has to wait or fails, its result is returned
  and the count of the copied bytes is forgotten (`src/http_reader.c:330-380`). `BodyIntact` is
  about the other bytes (`viaPrebody`).
* `growbuf_vprintf` takes text that fits but for its terminator for a success, where `vsnprintf` has
  put a null in the place of the last character (`src/buffer.c:115`). `MessageIntact` makes that
  exception.
* `client_socket_close` and `client_socket_destroy` assert that the vtable has not changed
  (`src/socket.c:602`, `620`), though they are entered after it was read without the mutex; the
  comment at `src/socket.c:540-542` says why the other operations cannot rely on that. The owner of
  `Socket` then ends as `"aborted"`.
* A delimited stream whose underlying stream ends inside a chunk runs the reader into an assertion
  (`DelimStream`, `"aborted"`).
* When the poll is skipped, `poll_dispatch` of epoll goes through the events of the last poll again,
  whose descriptors may have been freed since (`src/poll_epoll.c:202`; `PollSkipped`).
* `http_server_destroy` does not wait for exchanges: their connections are freed under them. The last
  conjunct of `ConnectionsSound` is about the time before.
* Bytes of a pipelined request that are left in the reader's buffer are not parsed before more
  bytes come (`src/http_reader.c:129`).
* An error of `accept` makes the handlers of the HTTP and echo servers return without having waited,
  stopped or been run again, which `src/tasklet.c:549` asserts against.

## 7. Proofs

`RunQueueProofs` proves, for all values of the constants that satisfy
`ConstantsAssumption`, in four layers of invariants. The first three are for both
values of `ForeignStop`:

* `TypeCorrect`: `Spec => []TypeOK`. The inductive invariant `Typed` adds
  what a thread in a call knows of it (`CallFits`): without it the tasklet
  named by a call, or the run queue a stopper waits on, could be the null
  value, and `Remove` or `Enqueue` would leave the types.
* `HandlersAreExclusive`: `Spec => []HandlerHoldsMutex`. The invariant is
  extended back to the time before the handler starts (`HandlerOK`): a worker
  that waits in `mutex_transfer`, or comes out of it vetoed, still has
  `current = mine`. `Unlock` and `ReturnIdle` are the interesting steps: they
  release a mutex, and only the invariant says whose.
* `OneHandlerPerMutex` follows: two workers never run handlers of tasklets that
  share a mutex at once.
* `StopNeedsNoRetry`: `Spec => []StopFindsTasklet`. A stop or fini call holds the
  tasklet's mutex or has it transferred to it (`CallSafe`), so no worker moves the
  tasklet between the unlocked read of `runq` and the critical section, and a
  `tasklet_run` of another thread leaves `runq` alone once it is set.

The fourth layer, `QInv`, assumes `~ForeignStop`. Every `tasklet_stop` under `src/` is made by
a handler on its own tasklet, and without that `RunTakesEffect` and `StopReturns` are
false: the runs `foreign_stop_run` and `foreign_stop_returns` show it. `QInv` says of each run
queue that the tasklets whose `runq` names it form one circle through `head`
(`ListOK`), when it has a current tasklet (`CurrentOK`), and who may sleep on its
condition variable and why (`CondOK`); and of each thread in `tasklet_stop` or
`tasklet_fini` that it waits only if it has asked to be woken (`StopOK`). From it:

* `ListsAreCircles` (`ListWellFormed`), `FiniReleases` (`FiniIsFinal`) and
  `SignalsArrive` (`NoMissedSignal`). The delicate steps are those that change
  which tasklets count as queued without touching a link: a worker that comes to `next`, a
  tasklet dropped by a veto, a `tasklet_fini` that returns.
  `RemoveUnlinks` and `EnqueueLinks` say what the raw link operations do to a
  circle; `CircleLemmas` has the general facts.
* `SchedulesTasklets`: `Spec => ImplementsSched`. `Listed` follows the links, so
  `ListedIsQueued` needs `QInv` to say that it finds what is queued. From then
  on a tasklet is pending if some run queue owes it a run (`Owes`) and running if a
  worker serves it (`Serves`), both of which imply `runq[t] = r`: so one
  step changes at most one tasklet's state, and that change is a step of
  `TaskletSched`.
* `RunIsNotLost`: `Spec => RunTakesEffect`.

The proofs go thread by thread: a step changes `pc` and `call` of one thread
(`Moves`, `Undisturbed`), except `StopForeign`, whose veto moves others.

`QueueProofs` proves about `Queue`, for every `MaxSize`, initial capacity and
number of tasklets and items:

* `TypeCorrect` and `TokensAreExact`, from the inductive invariant `IInv`. `RingOK`
  says that the slots in use hold items; `TokensExact` is part of the invariant
  since only the count stands between `queue_shift` and an empty ring when
  `waiters_state` says that the queue has been empty.
* `RingImplementsFIFO`: `Spec => ImplementsFIFO`. `StoreAppends` and `TakeRemoves`
  say what the two operations do to the items from `read` on, wrapped and resized
  rings included; from there `PushAppends` and `ShiftRemoves` are about sequences.

* `NobodyStarves`: `Spec => []NobodyForgotten`. `WInv` says that a sleeping waiter is of the side
  that the list counts for now, since a flip wakes all of the other, and that the first of the list is
  awake if the count is not zero. The proof is in what happens when the first one leaves.

`WaitListProofs` proves all invariants of `WaitList`, for any finite set of tasklets, any wait lists
and any bound on the counts, from one invariant `IInv` (theorem `Invariance`):

* `TypeCorrect`: in particular `up_count` and both `unwaiting` counts stay natural numbers.
* `UnwaitingIsExact` (`UnwaitingCounts`). A tasklet that `wait_list_fini` takes off
  its list while the thread is on its way moves from one count to the other (`FiniDetach`);
  `RemovedOne` and the finiteness of `Tasklet` turn this into a statement about cardinalities.
* `FiniIsSafe` (`FiniIsFinal`): from the counts, since `fini` is done only with `unwaiting = 0`.
* `AssertionsHold` (`NoDanglingTasklet`). `wait_list_fini` calls `tasklet_run` before it takes the tasklet off
  the list: `HeadRun` says that between these two the tasklet is to be run, or was stopped.
* `WakeupsArrive` (`NoLostWakeup`). `HeadAwake` is stronger than the property: a
  stopped tasklet at the head must be on its way out, and what it leaves is passed on.

`PollTimersProofs` proves about `PollTimers`, for any number of timers and
tasklets, both back ends, and any clock:

* `TypeCorrect` and `TimersFormOneCircle`. The list is the raw `next` and `prev`;
  `Circle` says that they are each other's inverse on the armed timers and that
  no smaller set is closed under `next`. `CircleWithout` and `CircleWith` show that
  this survives taking a timer out and putting one before the head.
* `TimersKeepPromise`: `Spec => ImplementsService`. What makes `DispatchDue` a
  `Fire` is that the timer the walk is at is armed (part of `Linked`), and that
  the walk does not use a time from the future (`ClockOK`).
* `SleepsInTime`: `Spec => []NoOversleep` if `NoOverflow`, which the finding above
  shows to be needed. The invariant `Handshake` says that between the
  computing of the timeout and the end of the poll either `woken` is set and a
  wake-up is on its way, or nothing has changed that the timeout depends on.
* `NoWaiterForgotten`: `Spec => []WaitersAwake`.
* `DispatchReachesAll`: `Spec => DispatchesAllDue`. The invariant `Walk` says that
  the timers between the head and the one the walk is at (`WalkedOver`) are
  chained and not due, also after the head itself has been taken out. When the
  walk ends they are closed under `next`, so they are the whole circle.

`PollSlotsProofs` proves all invariants of `SocketsOverPoll`, for any number of descriptors and of arriving
connections. `Inv` (theorem `JointInvariant`) has three parts, each kept by the steps of the others:

* `SlotsInv`, of the back end. Agreement of the arrays is not inductive: `Handled` would remove a slot and
  free its `watched_fd` while it is on the list of updates. What forbids that is `HandledIsOpen`,
  which the poll lock keeps (`Unlocked` in `Destroy`), and `GoneAreUpdated` with no interest, so that
  the next `poll_prepare` frees what is gone as it takes it off the list. `RemovedSlot` is the move of the last
  slot into the hole, `UpdatedList`, `UnlistedList` and `TailList` are the three changes of the list. It needs
  that the sockets hand the back end only what exists.
* `ClientInv`, of the client socket, its connector and its owner. The socket has at most one descriptor that is open
  (`Descriptors`), and a pending call is about that one (`ClientCalls`). `Attempt` says why
  the connector may be freed before the handler of its descriptor is changed: an attempt is reported
  once, after which the descriptor is not armed (`Unarmed`: it has no interest, and no slot but the one whose event
  has been delivered) until its interest is set again, which is after the change. `OwnerCovered` says what must reach the owner who sleeps.
* `ServerInv`, of the server socket: where its three loops over the descriptors are and which of them are open
  by then (`Loops`, `Listeners`), and that the acceptor has a token or each descriptor will give it one
  (`AcceptorCovered`).

`Covered(w, e, late)` is what the wake-up argument turns on: the interest is in the array that
poll(2) is given, or on the list of updates with the wake-up pipe written to if the thread is polling, or an
event that includes it is being dispatched, and has not yet gone out to those who wait for `e` (the handler wakes the
readers, then the writers: `late`). From `Inv` follow
`SlotsStayOK`, `NoHandlerDangles` (`NoStrayCall`), `ReadinessIsNotLost` (`NoLostReadiness`), `NoDescriptorLeaks`
(`NothingLeaks`) and `SocketsTypeCorrect`, whose bounds on the arrays are the pigeonhole principle (`AtMostAll`).
In `SocketsOverPoll` a behaviour is of one client socket or of one server socket (`subject`).

`ServicesProofs` is about `Services`, whose components share no variable, one section for each.

* `ServersStaySound`: `Spec => []ServersSound`, for any number of connections.
  For the HTTP server, `ArraySound` needs to know that a connection being destroyed is locked by its
  destroyer and alive (`TeardownSound`), which makes its index valid when `remove_connection` uses it, and
  `ExchangeSound` says why a timeout takes no connection from an exchange: the timer is off
  meanwhile. For the transport, `TransportInv` ties both counters and the mutex to where the two
  threads are.
* `StreamsStayDelimited`: `Spec => []StreamsDelimited`, for any chunk size, any number of streams of any length and any
  capacity of the pipe. Nothing that relates the states of the reader and the writer directly is
  inductive: between them are bytes of which the reader has yet to find out that they begin, continue
  or end a stream. So the invariant `DelimInv` says that there is a `Path` of places, one between any two bytes
  of the pipe, on which each byte leads from one place to the next (`Leads`), from where the
  reader is (`ReaderAt`) to where the writer is (`Frontier`); every place is one that the writer has been at
  (`Passed`). A step of the writer makes the path longer at one end (`PathExtended`), one of the reader
  makes it shorter at the other (`PathRest`); `PayloadRun` is why a reader in the middle of a chunk may take
  as many bytes as the chunk has left without looking at them. `Given` is the property, at all times.
* `BodiesArriveIntact`: `Spec => []BodyIntact`, for any wire that consists of requests and any sizes of the reads.
  `ReadInv` says where the parser is (`Parsed`, `LastHead`): between requests or in a head, before the line
  feed that ends one and is looked at twice, in a body, or at its end. In a body the caller has all that was
  consumed of it, but for what went through the prebody buffer (`Collected`). `ExecuteRuns`
  says what one call of the parser does; `HeadParsed` and `BodyParsed` what the grammar of requests
  (`WireAssumption`) makes of it: in a head the parser is paused only by its end, in a body only by the end of the
  request. `BodyOf` picks the body bytes by their places, in order, since the prover knows nothing of `SelectSeq`;
  `Enumerable` is the existence of that order.
* `MessagesArriveIntact`: `Spec => []MessageIntact`, for lines and bodies of any length and any initial
  size of the buffer. `BufferSound` says that a buffer holds no more than its
  capacity and has lost no character but where `growbuf_vprintf` lets one go; `WriterInv` that what is on the wire
  is the first part of the buffer and then of the body. `Capacity` is a recursive function: `CapacityDoubles`
  shows that it is what its definition says, and `CapacityGrows` that some number of doublings
  makes room for any length, so that `Reserve` exists.

Every invariant and action property of the passing runs is stated by one of these theorems. Only model-checked:
`CallsReturn` and all other liveness properties, which with `ENABLED` are out of reach of the prover; the epoll
back end (`SocketOverEpoll`); `NoOversleep` without the hypothesis `NoOverflow`, and the run queues with
`ForeignStop`, both of which are findings.

## 8. Not modelled

* Creation and exit-time destruction of run queues, of the default worker and of the poll singleton with
  its back end; thread creation and thread-local storage; errors of pthread calls, which abort.
* `queue_fini`, which frees memory; growth of the arrays of `src/poll_poll.c`, the wake-up pipe beyond one
  byte in `PollSlots` (`PollTimers` counts its bytes).
* A `close(2)` that fails, and whatever the system then thinks of the descriptor; addresses, their
  formatting and `getaddrinfo`; several acceptors on one server socket; server sockets over epoll.
* Headers: their collection, sorting, lookup and formatting, and the parser itself. `http-parser` and
  skinny-mutex are submodules whose sources are not in the repository: `http_parser_execute`,
  `mutex_transfer` and `mutex_veto_transfer` are modelled from how the code uses them.
* The HTTP client's handlers that read the answer (a sequential chain over the HTTP reader), the echo
  server (its socket use is that of the owner in `Socket`), the `main` programs.
* `src/base.c`, comparison and shifting in `src/buffer.c`, `src/http_status_gen.c`, `src/bsd/sort.c`: no state
  that two steps could disagree about.
