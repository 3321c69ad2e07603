# A TLA+ model of cosec-examples

The repository is a collection of small C++ programs.  The one that carries the most logic of its
own is `select`, a server built from scratch on a thread pool, a `select()` reactor and composed
asynchronous operations; the asio servers, the two-process benchmark and the Qt programs follow.
This project models all of these but the benchmarks, the drawing and the algorithms.  Source paths below are relative to the repository.

## 1. Inventory

| Component | State | Operations | Interacts with |
|---|---|---|---|
| `select`: `thread_pool` | `tasks_`, `busy_workers_`, `stopping_`, one thread-local `deferred_task` per worker | worker loop, `operator()(kind, task)`, `stop`, `join` (from the destructor) | runs the tasks of reactor, listener and sessions; tasks call it back |
| `select`: `select_reactor` | `events_`, `fd_sets_`, `to_be_closed_`, `stopping_`, a pipe | `run`, `handle`, `close`, `stop` | posts handlers to the pool; called by every worker; blocked in the kernel |
| `select`: asynchronous operations, session | `in_buf_`, `out_buf_`, `a_`, `reading_b_`, the continuation that is pending | `async_read_some`, `async_write_some`, `async_read_until`, `async_write`, three callbacks | reactor, pool, the peer |
| `select`: `tcp_listener`, `main` | the listening socket, the signal pipe | accept loop, shutdown on a signal | all of the above; destroys them in a fixed order |
| `asio-shared`: `chat` | `queue_` with a count of remaining receivers per message, `sessions_` | `session_created`, `session_destroyed`, `message_received`, `send` | a strand; one session per client |
| `asio-utils` | the session in the listener's hands, fibers and their owner | accept chain, `start`, exception handling, `spawn` | all asio servers |
| `asio-basic`, `-advanced`, `-stackfull-coro` | the calculator session | read a, read b, write, 15 s time limits | `asio-utils` |
| `interprocess-copy` | two eventfds, shared memory, a pipe | one benchmark step and its counterpart | parent and child process |
| `gui-progress` | `running_`, `cancelled_`, queued signals | run/cancel button, copy loop, close | GUI thread and copying thread |
| `treeview` | the tree of notes, persistent parent pointers | insert, remove, move, drop, edit | model and view |
| `block-scene` | blocks, ports, connections | create, connect, delete | scene and items |
| `geohash` | `date_`, `tries_`, requests under way | request, reply, retry | network |
| `atomic`, `thread-pool`, `utils`, `anf`, `generator` | counters; buffers; truth tables | | |
| `et`, `asm-basic`, `schema-serial`, `item-models`, `delegates-sql`, `locale-resources`, `layouts-painting` | no state of their own, or Qt's | | not modelled |

What is hard about them: the pool and the reactor are shared by all threads and hand work to each
other across two mutexes, two condition variables, a pipe and a system call; the reactor's view of
the world (the mask) is old when it is used; closing and stopping race with a blocked `select()`;
the stream cuts lines anywhere; peers go away at any time; in the chat, a session disappears in the
middle of a broadcast; a coroutine is owned in turn by whoever will resume it next, on any thread; an
operation is limited by a timer that may fire after it has succeeded; two processes share counters that
add up; Qt programs keep raw pointers to things that the next click deletes.  `PROJECT.json` lists
each such place under "hazards".

What makes each part correct:

- pool: no task is lost or run twice, no worker sleeps while a task has nobody to run it, nothing
  starts after `stop()`, the destructor returns;
- reactor: no registration, close or stop goes unnoticed by a blocked `select()`, no descriptor is
  closed under it, a handler is called when its operation is possible, `run()` returns after `stop()`;
- session: the bytes of the stream are used once and in order, one answer per two lines, every
  callback once, bounded memory;
- chat: a message is freed exactly when its last receiver has it, receivers see one order;
- calculator: the answers are the products of the lines in pairs however the stream is cut, one
  operation uses a session's buffers at a time, nothing a peer does ends the server, with deadlines
  every session ends;
- coroutines: the state is never used after its destruction, and is destroyed with its last owner;
- two processes: the child works on the operation that the parent has begun, a round that has ended
  has delivered, neither waits for ever;
- copying with a progress bar: what the user is told is true, every copy is reported, the window does
  not go while a copy runs;
- trees and scenes: both directions of every link agree after any sequence of edits.

## 2. Modules

| Module | Models |
|---|---|
| `TaskExecutor` | the abstract executor: the life cycle of a task as its submitter sees it |
| `ThreadPool` | `select/src/thread_pool.cpp`; implements `TaskExecutor` |
| `ThreadPoolProofs` | theorems about `ThreadPool`: wake-ups and the busy count; the places of a task and the refinement |
| `SelectReactor` | `select/src/select_reactor.cpp` and the part of the kernel it uses |
| `SelectSession` | `session` of `select/src/main.cpp` on `composite_async_ops.hpp` and `async_file_descriptor.hpp` |
| `Chat` | `asio-shared/src/chat.cpp` and `chat_session.cpp` |
| `CalcServer` | `calc_session` and `main()` of `asio-basic`, `asio-advanced`, `asio-stackfull-coro`, on `tcp_listener`, `socket_session` and the signal interrupter of `asio-utils` |
| `Spawn` | `asio-utils/include/ce/spawn.hpp`, with the session of `asio-stackfull-coro` as the coroutine |
| `InterprocessCopy` | both processes of `interprocess-copy` |
| `FileCopy` | window and copier of `gui-progress` |
| `NotesModel` | the model, the entities and the window of `treeview` |
| `BlockScene` | scene, blocks, ports, connections, properties of `block-scene` |
| `SelectReactorProofs`, `SelectSessionProofs`, `ChatProofs`, `CalcServerProofs`, `BlockSceneProofs` | theorems about the module each is named after |
| `ProtocolProofs` | theorems about `Spawn` and `InterprocessCopy` |
| `DesktopProofs` | theorems about `FileCopy` and `NotesModel` |
| `MC*` | the modules TLC is run on |

Two programs are modelled in two modules each, because the questions need different detail.  `CalcServer`
takes a coroutine for what it does to the peer; `Spawn` takes the protocol for a sequence of
operations and follows the ownership.

An operator with the comment "mutant" stands before the definition it is a wrong version of; no
specification uses it.

**ThreadPool.**  A critical section of `mutex_` never blocks inside, so it is one action.  A worker is
`ready` (owes itself a lock of `mutex_`), `waiting` on `queue_not_empty_`, `running` tasks,
`finishing` (between the last task and the lock) or `exited`.  The decision after the lock (leave,
wait, take a task) is `Loop`; `Relock` contains it because the code goes round the loop without
unlocking.  `operator()` is split where the code is: `Submit` up to the mutex, where `stopping_` has
been read, and `Enqueue`, the critical section, which does not read it again.  Dispatch pushes on
the `stack` of the calling worker, defer uses its slot.  `JoinBegin`, `JoinWake` and `Destroy` are
the destructor.  Condition variables may wake spuriously.  The pool's owner destroys it only when
no client is inside a call.

**SelectReactor.**  `run()` holds `mutex_` except during `select()`, so the code between two
`select()` calls is one action, `Pass`: it closes `to_be_closed_`, returns if stopping, handles the
*first* reported key and enters `select()` again.  Only the first, because of `if(--count)`: with one
key reported the count is then 0 and the loops find nothing more, with several they are left.
A key is an operation and a descriptor; masks are sets of keys.  `SelectReturn` reports every watched key that is ready at that moment; the pipe is
a number of bytes.  `handle` with an empty handler is the action `cancel`.  A closed descriptor's
number can be opened again.  `Owned` are the descriptors whose registered handler is the last owner
of the socket, as with sessions (each handler holds the `shared_ptr`): `stop()` closes them, under a
blocked `select()` too.  The history `dropped` is what `stop()` destroyed.
`Cancellable` are those on which clients cancel or which they close through the reactor.
A client registers one handler per key at a time and closes a descriptor only when no handler of it
is under way; sessions and the listener keep to that.  `stop()` is called once `run()` has begun:
in the program its only caller is a handler that `run()` dispatched.

**SelectSession.**  The session is a chain of callbacks; the code between two suspensions is one
action.  The operators from a state to the set of its successors carry the names of the operations, once
as posted (run later by the executor) and once as dispatched (run in place).  `retry` is what is
registered with the reactor.  When the buffer is full without a newline, `async_read_until` reports the
line as too long and starts a read all the same, with the callback that was moved into the report;
`ReadOn` is that read, which can only call the callback again: on the session that has been moved away,
which ends the process (`CalledAgain`).  The bytes are digits and newlines; bytes of the enlarged buffer that
were not read are junk.  Parsing may fail for any line.  The peer sends, takes, closes (`closed`,
and `rst` once data reaches the closed socket) or aborts.

**Chat.**  The handlers of one session exclude each other.  A function given to the strand runs inside
the call when the strand is idle, else it waits in `strand` while the caller goes on; with one thread
it never waits.  `sessions`, `queue` and the count `rem` of each message are `sessions_`, `queue_` and
`senders_remaining_`, the last modulo `Wide` as unsigned numbers are.  `Assigned` is the loop in which a
message begins to count its receivers.  `Destroyed`, `Message` and
`Written` are the functions that chat.cpp gives to the strand.  The history `due` is, for each session,
what it still has to be sent, in the order of the queue.  A step that would follow a pointer to
something gone sets `crashed`.  The code is right only while sessions leave at certain moments;
`Harmless` says which, `orderly` remembers whether all did, and the properties are about orderly
histories.  `Harmless` is what the counters need: TLC refutes the properties when one of its
conjuncts is dropped.

**CalcServer.**  A handler is one action: those of a session run on its strand, those of the listener
form a chain.  `limited` tells the forms apart: without, it is `asio-basic` on one thread; with, it is
one of the other two, which have the same limits and differ in form only.  `ReadSome` is the
inside of `async_read_until`: it takes any part of what has arrived.  `Timeout` closes the stream at any
moment before the handler has run, so that it also beats an operation that has just succeeded.  `Ended`
is what the last owner's going does.  An exception that nothing catches is `Escape`: on the main thread
it unwinds `main()`, which waits for the pool; on a thread of the pool it ends the process.

**Spawn.**  Frame 0 is the startup function, frame k the handler of the k-th operation.  `owns` is the
set of frames whose pointer to the `fiber_data` is not null, `mem` is the `fiber_data` with its fiber,
`f_` holding the suspended coroutine, the caller's context or nothing.  Without a strand the handler of
an operation may run while the frame that initiated it is on its way out (`leaving`).  `Destroy` is
`destroy_at()` by an owner, `Unwind` the forced unwinding of a suspended stack.  `mem.ub` says who has used
the state after its destruction.  When a frame or the coroutine has, anything may follow, and the model stops
(`GoesOn`).  A finalizer of a stack that is unwound always has; it destroys a handler and two
executors once too often, from which the program may well go on, and so does the model.  `execute()` that
throws in a finalizer ends the program (`FinalizeThrows`).

**InterprocessCopy.**  What is copied is the number of the round.  Copies have a beginning and an end, so
that two processes can be inside the same memory.  An eventfd is a counter: writing adds, reading takes
all of it, and the child cuts the number in operation and length.  The pipe moves byte by byte.

**FileCopy.**  The window's event loop and the copier's thread.  Signals wait in `events` in their order,
the call of `copyFile()` in `asked`; the cancellation flag is written across the threads.  The message box
runs an event loop of its own, so that signals are delivered while it is open (`Deliver`), and the
rest of `done()` comes after it (`Dismiss`).  The bar ignores what is above 100 (`Shown`).

**NotesModel.**  Entities are numbered in the order of creation.  Deleting and the second half of a drag
remove one selected row at a time; what Qt does to the selection in between is part of `RemoveRow`, with
`endInsertRows()` at its end as in the code.  A drop writes the rows out and reads them back as new
entities; `name` remembers whose copy each is, and `stale` which copies were made without what was only in the
editor then.  One row is dragged at a time.  `Subtree(x)` is what goes when x is destroyed and what is
written out with it: the least set that holds x and the items of its folders.

**BlockScene.**  A connection is named after its output port, which it shares its life with.  Both
pointers of a connection and its input are kept, and the destructors are functions on `scene`, applied in
Qt's order of deleting children.  A Delete works through copies of the selection in two passes.  The
history variable `clean` excludes two ways to a dangling pointer that are known (section 5).

## 3. Runs

| Run | Shows |
|---|---|
| `pool` | `NoSleepOnBacklog`, `Conservation`, `NoStartAfterStop`, `ImplementsExecutor`, `QueuedTaskRuns`, `JoinReturns` hold |
| `reactor` | `WakeupPending`, `WatchedStayOpen`, `StarvedOnlyByEarlier`, `RequestsHonoured` hold; what `stop()` closes by destroying handlers is the one exception in `WatchedStayOpen` |
| `session` | `StreamIntact`, `LinesMatchAnswers`, `CallbackOnce`, `PairAnswered` hold for lines of any length; a line longer than the buffer is the one exception in `CallbackOnce` |
| `chat` | `CountsExact`, `NoDangling`, `DeliveredInOrder`, `QueueDrains` hold in orderly histories |
| `calc` | `OneOperation`, `AnswersExact`, `EndsForAReason`, `SessionsContained`, `SessionsEnd`, `QueuedIsAccepted` hold for all three forms; the listener's failures are the exceptions in the last and in `SessionsContained` |
| `spawn` | `NoUseAfterDestroy`, `NothingLeaks`, `EndIsReported` hold; who uses the state after its destruction is the finalizer of a stack that is unwound, always, and the startup function, when the first initiation of all throws |
| `interprocess` | `TurnsRespected`, `RoundDelivers` hold, and `BothExit` unless a call fails |
| `copy` | `OneCopy`, `ResultTrue`, `CopyIsReported` hold |
| `notes` | `OneOwner`, `ParentPointers`, `SingleExact`, `EditsKept` hold; the copies that a drag makes of the note in the editor are the exception in `EditsKept` |
| `blocks` | `LinksMutual`, `NoDangling` hold in clean histories, `ShownIsSelected` always |
| `reactor_starvation` | **violated**: `HandlerCalled`; `--count` ends the loops too early |
| `spawn_unwind` | **violated**: `DestroyedOnce`; forced unwinding destroys the `fiber_data` a second time |

The type invariants of `ThreadPool` and `SelectReactor` are theorems; in the other modules `TypeOK` is a
conjunct of an invariant of the run.

The violated properties are what comments of the code say; the findings in `PROJECT.json` quote them.

Bounds.  *pool*: three workers, one client, three tasks.  A lost wake-up needs one worker asleep, one notified
and one busy; a slot that is in use needs a running task and two deferred ones.  The theorems
cover all sizes.  *reactor*: descriptor 1 (read), 2 (read and write) and 3, which does not fit an
`fd_set`; 1 is owned by its handler, 2 is cancelled and closed by clients; a pipe of one byte, so that it is
often full.  *session*: a buffer of three bytes and seven bytes in all, in lines of any length (three lines and
a half, a pair and the beginning of the next; a line that fits exactly, one that is a byte longer, also after
a pair), an answer of two bytes and room for three, so that the second answer is written in two pieces.
The capacity of the string starts at one byte and doubles.  *chat*: three sessions (a sender, a
fast and a slow receiver), a queue of two so that it is full with a third line under way, one or two
threads; with two threads one line less.  A count below zero wraps at 16.  *calc*: two peers, the
first with one of the scripts of `MCCalcServer` (two pairs; a line that reaches the limit of three with
its line end, an empty one and one that is never ended; one that does not parse; one that is too
long), one thread besides the main one, one failure.  *spawn*: four operations, one more than the three
that the session's loop consists of, so that it comes to its second round.  *interprocess*: four rounds,
one for each way, blocks of one byte and of three, a pipe of two.  *copy*: three clicks on Run, files
that tell their size, grow, or tell none.  *notes*: four entities ever, two selected rows; a folder with a note in it that is
dragged makes four.  *blocks*: two blocks of up to two inputs and two outputs each, two selected items: a
connection and one of its ends, or both ends.

Fairness.  *pool*: a worker that can go on does (the operating system schedules it and hands out the
mutex), tasks return, a call past its check takes the mutex, a join under way goes on.  Nobody has
to submit, stop or join.  *reactor*: `select()` returns once something it watches is ready, and its
thread gets the mutex.  Clients, signals and the network owe nothing.  *session*: workers run its
tasks, the reactor reports readability, a peer that stays takes what it was sent, data to a
closed socket is answered by a reset.  *chat*: the `io_context` runs what is ready; a write ends, well
or not, because a client reads or its connection breaks.  *calc*: threads run ready handlers,
the kernel delivers what was sent, time passes.  A peer owes nothing, neither to send nor to
read: `Written` has no fairness.  *interprocess*: both processes are scheduled when they are not blocked.  *copy*: both event loops
go on; the user, who has to dismiss the box, owes nothing.

## 4. Proofs

**ThreadPoolProofs**, for every finite non-empty set of workers, any clients, any tasks.  The
invariant `IInv` is `TypeOK`, `StackMeansRunning` (only a running worker has tasks on its stack),
`BusyCount` and `NoSleepOnBacklog`.  They need each other: that no wake-up is lost rests on the busy
count, because `operator()` skips the notification when the count equals the number of workers, and
only an exact count says that then nobody sleeps; the count is exact only if a worker that leaves
its tasks was running.  Theorems: `Invariance`, `TypeCorrect`, `BusyCountCorrect`, `NoLostWakeup` and
the action property `NoStartAfterStopCorrect`.  The lemmas before them say how moving one worker
changes the sets of workers and their cardinalities.

The second half of the module builds on that.  `PInv` says that queue, stacks, slots and the calls
under way hold distinct tasks and no two of them the same one, that together with `finished` and
`dropped` they hold all that were `submitted`, and who may still hold one (`HoldersAlive`: a worker's slot
only while it runs tasks, nobody after the destructor).  That a task is moved and not copied needs
the target not to have it yet, hence the disjointness of every two places.  Every step of the pool is one
of seven moves between places, and each of these is an action of `TaskExecutor` or a stutter.  Theorems:
`PlacesInvariance`, `ConservationCorrect`, `Refinement`.

**SelectReactorProofs**, for any set of keys, any size of `fd_set` and pipe.  `WakeInv` adds to
`MasksMatchEvents` and `WakeupPending` that the pipe is always registered until `stop()`, that
`run()` began before it, and that between two passes requests are pending in the pipe or will be
read by the next pass.  Theorems: `WakeInvariance`, `TypeCorrect`, `MasksCorrect`, `NoLostInterrupt`.
`FdInv` follows the descriptors: what is registered fits and is open, and what `select()` watches is
still registered, under way, cancelled, waiting to be closed or dropped by `stop()`, hence not closed by
anybody else.  Theorem: `WatchedStayOpenCorrect`, whatever handlers own.

**SelectSessionProofs**, for any sizes.  `EInv` lists the ways in which a session waits for its next task:
about to begin; with a line found; with the error of a full buffer, which is left only after a line that does
not fit, and with the read that was started all the same; with a read of n bytes done or waiting for the reactor; answering; ended.  Each says what
the buffer holds, how many lines were used, and that no newline lies before `idx`: that is why going on
from `idx` misses none.  Nothing is assumed of the peer's lines.  The lemmas take one operation
each (`ReadFills`, `Enlarged`, `TooLong`, `ReadUntil`, `LineUsed`, `WriteDone`, `ReadDone`, `ReadOnKills`), so
that an action is the composition of lemmas as it is of calls.  Theorems: `SessionInvariance`,
`StreamIntactCorrect`, `LinesMatchAnswersCorrect`, `CallbackOnceCorrect`.

**ProtocolProofs**.  `Spawn`, for any number of operations, with and without a strand.  `SInv` orders the frames (all
but the latest are on their way out), limits the owners to the startup function and the latest
handler, and distinguishes five stages of the coroutine: waiting, inside a frame, ending, stuck in an
`execute()` that threw, gone; and the history in which the first initiation threw.  Each stage says who
has used the state after its destruction: the finalizer once the stack was unwound, the startup function in that
history, nobody else.  Theorems:
`SpawnInvariance`, `NoUseAfterDestroyCorrect`, `NothingLeaksCorrect`, `EndIsReportedCorrect`.

`InterprocessCopy`, for any lengths that the mask can hold, any pipe and any number of rounds.
`CInv` says whose turn it is by what the two counters and the two program counters are together (an
eventfd adds up, so that a second message before the first was read would be taken for another
operation), that the bytes in the pipe and those still to be written are those the child still has to
read, and where the data of the round is.  Theorems: `CopyInvariance`, `TurnsRespectedCorrect`,
`RoundDeliversCorrect`.

**DesktopProofs**.  `FileCopy`, for any files and any number of runs.  `FInv`: a running copy is in one
place (the call that is queued, the copier, a result on its way, the box); a result is the last signal in
the queue, because the next copy cannot start before it is dismissed; the last percentage precedes it.  Without
the order of the signals the bar of a complete copy could not be shown to be at 100.  Theorems:
`CopierInvariance`, `OneCopyCorrect`, `ResultTrueCorrect`.

`NotesModel`, for any number of entities and any selection.  `NotesInv`: an entity is in one list, once;
lists are of folders that exist; what exists is in every set that holds the root and is closed under
"items of" (`Shape`, which excludes cycles: what is below x without x would be such a set, see `NoCycle`);
pointers (`Hanging`); typed text, but for the copies in `stale` (`Edited`); and, with one row being deleted or dragged, that the names are
right once its subtree has gone (`Aimed`).  The lemmas about an action first say which entity is in
which list after it (`Inserted`, `Taken`, `DroppedLists`) and then only use that.  A drop numbers its
copies by an injection, and that the copies of a move amount to what is removed later is a bijection between the
entities before the drop and those that will be left (`NamesEqual`).  Theorems: `NotesInvariance`,
`OneOwnerCorrect`, `ParentPointersCorrect`, `SingleExactCorrect`, `EditsKeptCorrect`.

**ChatProofs**, for any sessions, threads and lines, any size of the queue and any counter that can count
the sessions.  `Plain` holds in every history: types, numbers of lines, and that with one thread nothing
waits for the strand.  `Right` holds while all departures were harmless.  It says that messages are
numbered in the order of the queue and of the strand's functions (so that "behind" can be said by comparing
numbers, wherever the entries have moved), who is in `sessions_` and what each waiting function still
relies on, that a session is marked with a message in the queue, that the count of an entry is the number
of sessions in `Waiting`, and that what a session has been sent is the first part of `due`, followed by
what it is marked with (`Place`) and by what the queue holds behind that (`Rest`).  The counts cannot be shown
without the marks, the marks not without the functions that wait, and none of them for
departures that are not harmless: the three theorems about the properties say nothing of a session that
disconnects in the middle of a broadcast at a moment that `Harmless` does not allow, as most do not.  A write that has ended and a session that leaves both move a session along the
queue, take it off counts and erase the front; one lemma (`ServedRight`) covers both.  Theorems:
`ChatInvariance`, `CountsExactCorrect`, `NoDanglingCorrect`, `DeliveredInOrderCorrect`.

**BlockSceneProofs**, for any number of blocks and ports.  Deleting ports is a loop, a recursive function
in the model; `KilledExists` and `KilledSteps` show that its states exist and follow from one another (`Upwards` is
induction over an interval, stated for a set so that the provers can use it), and lemmas about one round carry
to the whole.  `EditorInv`: in clean histories every connection that is not dragged and its input name each
other and exist, the one that is dragged has a place for its input; the selection and the panel name what
exists, and which blocks are selected is what the panel shows.  Theorems: `EditorInvariance`,
`LinksMutualCorrect`, `NoDanglingCorrect`, `ShownIsSelectedCorrect`.

**CalcServerProofs**, for any number of peers, whatever they send, any limits, threads and faults.  `KInv`:
a session has none or exactly one operation and is open only with one; a peer that has not been accepted
has no session; a thread was lost only where the listener has dropped a connection before its session
began.  `AnswerInv` adds what each session has done to its script: what is in the buffer and not yet sent is
the part of the script behind the line used last, the lines used are those answered and the one being
answered, the answers so far are right, and a session that ended logged what happened to it.
`LineBetween`, `LineOfMore` and `NextLineExists` say that a line found in a part of the stream is the
next line of the whole; `LongServed` that only a line that is too long fills the buffer.  What digits
amount to is a recursive function; that it is a number is shown by an induction over an interval stated for
a set (`Upwards`).  Theorems: `ServerInvariance`, `OneOperationCorrect`, `SessionsContainedCorrect`,
`AnswersInvariance`, `AnswersExactCorrect`, `EndsForAReasonCorrect`.

The inductive invariants were checked by TLC on the instances of the runs, with a bound for quantifiers
over Nat.  The proofs use the assumptions of the modules and nothing else.
Every invariant and every action property of a passing run, and the refinement, is proved.

Only model-checked: liveness, that is `QueuedTaskRuns`, `JoinReturns`, `RequestsHonoured`, `PairAnswered`,
`QueueDrains`, `SessionsEnd`, `QueuedIsAccepted`, `BothExit`, `CopyIsReported` and `StarvedOnlyByEarlier`; the prover
has neither fairness nor ENABLED.

## 5. Known disagreements

Places where the code does not do what its comments say, or what a reader would expect.  The first two
are runs.  The others are in the models, as transitions of the code, and the properties exclude them by
name or do not ask for the contrary.

- `select`: `--count` (run `reactor_starvation`).  A cancel between `select()` and the lock makes `run()`
  throw; the server cancels nothing.  `stop()` destroys handlers and closes the sockets they own under a
  blocked `select()`, as it does to every session that waits when the server is stopped:
  `WatchedStayOpen` excludes these.  A line longer than the buffer calls the callback of `async_read_until`
  twice and ends the process: `CallbackOnce` excludes it.  A write that would block is retried when the socket is *readable*, so that
  it may wait for ever: `PairAnswered` allows it.  SIGPIPE is not handled: a peer that resets its
  connection ends the server.
- `spawn`: forced unwinding destroys the `fiber_data` twice (run `spawn_unwind`): the finalizer always uses a
  handler and executors that are gone.  If the very first initiation throws, the startup function destroys
  it once more, on a stack that is free.  `NoUseAfterDestroy` says that these happen then and only then.  A
  completion handler that throws is called where no exception may leave.
- `asio-utils`: `remote_endpoint()` of a peer that is gone throws in `create_logger()` and again in the
  `catch` clause that wants to log it, out of `run()`; the initiation of `async_accept` is outside the
  `try`.  Either costs a thread or the process: `SessionsContained` excludes the connection that is dropped
  so.  `main()` drops the exit code of the program.
- `asio-basic`: an end of the stream in the middle of a line is logged as a graceful one, because with an
  error `n` is always 0.
- `chat`: a session that leaves takes its own messages off their counts too; the text is taken by reference
  in a function that may run later when there are several threads; a write in flight refers to a session
  that may be gone.  The properties are about histories without such departures (`Harmless`).
- `interprocess-copy`: `~fork()` asks for `uncaught_exceptions()` after `main()` has caught, hence the child
  is never killed and the parent waits for it.  `BothExit` is about runs without a failure.
- `gui-progress`: a file that tells no size divides by zero; `CopyIsReported` excludes it.  With a wrong size
  the bar does not end at 100; `ResultTrue` is about the right one.  `QFile` holds written data back until
  `copyFile()` returns, after `done()`, and nobody hears of a failure then: that a copy is complete means
  that every block was accepted by `write()`.
- `treeview`: `removeRows()` ends with `endInsertRows()`, so that deleting several selected rows deletes the
  wrong ones or leaves some, although `mainwindow.cpp` speaks of "any kind of multiple selections";
  `SingleExact` is about one row.  The items inside a dropped folder have no parent pointer, which
  `parent()` follows (`nested`).  A note that is dragged while it is edited is copied without what was
  typed last, and that text is lost: `EditsKept` excludes these copies (`stale`).
- `block-scene`: a connection dropped on an occupied input leaves the older one with an input that does not
  know it; Delete in the middle of a drag over an input does the same (`clean`).

## 6. Not modelled

*select*: exceptions out of tasks (they end the process), failures of `select()` and of the pipe other than
EINTR and EWOULDBLOCK, `join()` called by a task or called twice, memory exhaustion, logging,
parsing and arithmetic of the numbers, `async_read` (no program calls it); the listener and the
teardown, which need a composition of pool and reactor.  *asio*: rate limiting, which delays reads;
numbers with leading zeros or a sign; wording of the log; the compile-time adapters.  *treeview*: `moveRows()`,
which no program calls; a drag of several rows, of which Qt removes whole ranges.  *Qt*: drawing, geometry, dialogs, translations, databases.  `geohash`:
its requests and retries are small and planned.  `utils` helpers, `anf`, `et`, `generator`, `asm-basic`:
sequential algorithms without state, compared with each other by their own programs.  `atomic` and
`thread-pool`: benchmarks.  The other components marked `not_modelled` in `PROJECT.json` are I/O or
generated code.

## 7. Plan

1. `SelectServer`: listener, signal and teardown composed with the promises of pool and reactor.
2. `Geohash`: late replies and retries.
