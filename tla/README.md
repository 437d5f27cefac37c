# TealScript in TLA+

TLA+ models of the TealScript runtime (`src/src/`), TLC instances that check
them, and machine-checked proofs: every safety property, action property and
refinement the passing runs check is also a theorem, some under a named assumption on the host or the scripts. Paths below
are relative to the repository; `runtime.hpp` is short for
`src/tealscript_runtime.hpp`, and so on.

## 1. The system

TealScript is an interpreter, embedded in a C++ host, for programs that are
data-flow graphs. A *template* is a script body with parameters and fields
(`this.f`); a *cell* is an instance of one, with a source (another cell, an
input, an extern cell on another host or a constant) for every parameter. The
runtime executes the cells over and over, in the host's thread (`run_cycle`) or in
worker threads (`run_mt`).

| component | state | operations | who it talks to |
|---|---|---|---|
| scheduler, `runtime.hpp` `run_mt` | shared draw counter, one `execution_context` per thread, `termination_requested_`, `failure_` | draw a cell, `try_lock`, read arguments, execute the body, publish, write the named output, unlock | cells, host |
| runtime life cycle, `runtime.hpp` | `thread_mode_`, `threads_` under `threads_mtp_`, the two flags | `run_mt`, `stop_mt`, `wait`, `run_cycle`, `set_*_thread_mode`, `terminate`, destructor | host threads, worker threads |
| cells, `tealscript_cells.hpp` | `val_`, `locker_`, `cell_self_values_`, argument descriptions | `value`, `set_value`, `try_lock`, `unlock` | scheduler, host (inputs), network (extern cells) |
| values, `tealscript_value.hpp` | `valbox`: a shared pointer to a box | copy (shares the box), `assign` and operators (write it in place), `clone` | everything |
| bodies, `tealscript_statement.hpp`, `tealscript_expr.hpp`, `tealscript_exec_ctx.hpp` | stack frames, `return_result_`, return / break / continue requests | statements, expressions, calls of script and host functions | fields, arguments, flags (`exit()`) |
| command queue, `inc/command_queue.hpp`, `inc/threaded_queue_processing_base.hpp` | two job queues, a pool of workers, a control thread that grows and shrinks it | `enqueue`, `dequeue`, create, kill, shut down | every network job |
| external-values server and client, `runtime.hpp` | subscriptions, last sent values, job chains that enqueue themselves | subscribe, publish changed values, apply a publication, start, stop | command queue, UDP, cells |
| UDP server / client, `inc/net/udp_server_muxed.hpp`, `udp_client_muxed.hpp` | connections by id and by address, activity times, polling jobs | receive, send, close, time out, stop | command queue, mux / demux |
| packet mux / demux, `inc/net/net_data_transfer.hpp` | outgoing and incoming messages by 16-bit channel number | split, interleave, reassemble, expire | UDP |
| reader-writer spin mutex, `inc/mt_synchro.hpp` | reader and writer counts, pending counts | shared and exclusive lock, try, upgrade | nobody: a replacement of `std::shared_mutex` that no build turns on |
| lexer, parser, code generator, JSON, serialization, utilities, extensions | sequential | text and bytes in and out | the loader, the bodies |

What is hard here, and invisible to the repository's examples (it has no tests of
these parts): any thread executes any cell, so every piece of a thread's own state
(`return_result_`, the frame) passes from cell to cell; values are shared pointers
that operators write in place, so the locks around a value protect the pointer and
not what it points to; a body can leave by `return`, by its end, by `exit()` or by
an exception; host calls that join threads hold the lock that a body may want;
network jobs are self-perpetuating chains on a pool that other code shuts down.

What makes each part correct: one execution of a cell at a time, a lock that is
always given back, no cell starved, every thread stops (scheduler); a published
value is one its cell computed and does not change under its readers (values); the
two execution modes never overlap, every thread is joined once, every call returns,
nothing outlives the runtime (life cycle); every job is executed once and the pool
keeps within its bounds (queue); a subscriber ends up with the current value over a
lossy network (external values); a reassembled message is one that was sent
(mux / demux). `PROJECT.json` lists the hazards line by line.

## 2. Modules

| module | what it is |
|---|---|
| `CellScheduler` | the worker threads of `run_mt`, the cells' locks, arguments, fields, published values and outputs |
| `CellActors` | the abstract specification: one actor per cell, values that never change |
| `MCCellScheduler` | two-cell graphs and scripts for TLC |
| `CellScheduler_proofs` | proofs about `CellScheduler` for all constants |
| `CellActors_proofs` | the step-by-step proof that `CellScheduler` implements `CellActors` |
| `RuntimeLifecycle` | the host's calls, `threads_mtp_`, joins, modes, flags |
| `MCRuntimeLifecycle` | host programs for TLC |
| `RuntimeLifecycle_proofs` | proofs about `RuntimeLifecycle` for all constants |
| `JobPool` | the abstract specification of a command queue: an accepted job is executed once or dropped at the end |
| `CommandQueue` | the queues, workers, control thread and destructor of `command_queue` |
| `MCCommandQueue` | jobs for TLC |
| `CommandQueue_proofs` | proofs about `CommandQueue`, that it implements `JobPool` among them |
| `ServerLifecycle` | the self-perpetuating jobs of the network side on one queue, and the host that starts and stops them |
| `MCServerLifecycle`, `ServerLifecycle_proofs` | its instance and its proofs |
| `ExternSync` | subscriptions and publications between two nodes over a lossy network |
| `MCExternSync`, `ExternSync_proofs` | its instance and its proofs |
| `PacketTransfer` | one direction of a UDP connection: `send` and its threads, the muxer, the network, the demuxer |
| `MCPacketTransfer`, `PacketTransfer_proofs` | message lengths for TLC, and proofs for all constants |
| `StructuredFlow` | the abstract specification of a body's control flow: jumps to where they lead |
| `Statements` | the tree walker: nested `exec()` calls, jump flags, exceptions |
| `MCStatements`, `Statements_proofs` | all programs of one shape for TLC, and proofs for all programs |

How they compose: the jobs of `ServerLifecycle` run on the pool that `JobPool` specifies
(any queued job may be next, a bounded number at once, the rest dropped when it closes), which
`CommandQueue` is shown to implement. `ExternSync` is what one pass of the publishing and the
subscribing job of `ServerLifecycle` does, over a network whose datagrams may be lost and
reordered; `PacketTransfer` shows that a datagram of several packets arrives whole or not at all
(and perhaps twice). A step of a body in `CellScheduler` is what
the statements of `Statements` do to shared state.

### CellScheduler

A value is a *box* (`valbox::box_`) and everything that holds a value holds a box:
`val` (cells' `val_`), `outputs`, the `frame` of a thread (the arguments it has
read) and its `return_result`. `heap` says what each box holds. Boxes are named
after what owns them for ever (the undefined value a node starts with, the field of
a cell, a cached constant) or taken from `Slots` when an execution computes a new
value. A box nobody points to is free again and is reset, so that the state space
does not depend on rubbish (`Settle`); allocation picks one free box, as which one
is irrelevant.

What a box holds is an author and a mark: who computed it, and one of `Marks`
when a property must see that a value changed. This is all the properties tell
apart.

A thread's `pc` follows the loop of `run_mt`:

    draw --(flag set)--> gone
    draw -> try --(busy)--> draw
            try -> exec -> publish -> [output] -> unlock -> draw
                   exec --(exception)--> unwind -> fail -> gone

`Draw` is the serialised choice of the next cell, `Enter` / `Skip` the two outcomes of
`try_lock`, `ReadArg` one argument, then the body. A body is abstracted to the set
`Ops[c]` of the steps on shared state it may take, in any order, at most `MaxSteps` of
them before it ends:

| op | script | effect on shared state |
|---|---|---|
| bump | `++this.f` | writes the field's box in place |
| store | `this.f = a` | writes the field's box in place with the contents of an argument |
| poke | `a = e`, `++a` | writes the argument's box, which belongs to its source |
| call | a script function | leaves a box in the thread's `return_result_` |
| new, self, arg | `return e`, `return this.f`, `return a` | sets `return_result_` to a new box, the field's box, the argument's box |
| exit | `exit()` in the body | sets `termination_requested_`, requests a return, sets no result |
| halt | `exit()` in a script function | sets `termination_requested_`; the body goes on |
| relay | the value of that function, used: `return f()`, `this.f = f()`, `++f()` | the value is `return_result_` as an earlier return of this thread left it (`runtime.hpp:2095`): its box is returned, copied into the field or written |
| throw | an exception | leaves the loop, sets `failure_` after unlocking |

`exit`, `halt` and `relay` describe the default configuration, programmatic termination
enabled. `Publish` and `SetOutput` are the two writes after a body that requested a return;
`FallOff` publishes nothing. `Unlock` is the destructor of `shut_on_destroy`, on both paths. The host may
write inputs, call `terminate()`, and start the threads again when all have gone. A
cell has one field; several behave alike.

### RuntimeLifecycle

`hpc[h]` is how far a host thread is in the call `call[h]`; `writer` and `readers` are
`threads_mtp_`. Whether a waiting writer holds up new readers is left open by the C++
standard: `WritersFirst` says which. A worker tests the flags, executes a body,
and tests again; the body may call `exit()`, throw, or ask for
`hardware_concurrency()`, which takes the lock shared. Names of workers stand for the
`std::thread` objects: `stop_mt` forgets all of them and the next `run_mt` makes new ones.
Stopping, joining, forgetting and the mode change are separate steps, as are the test and
the mode change of `run_cycle`, which takes no lock.

The hosts of the runs: `main` may make every driving call in any order, `watcher` only
waits. This is what the code requires of its host, and what the proofs assume
(`OneDriver`, `OneWaiter`): `run_cycle` beside a `run_mt` of
*another* host thread would overlap (nothing in the code prevents it), and two callers of
`wait` may join the same thread. The interpreter (`examples/interpreter/main.cpp`)
drives the runtime from one thread.

### PacketTransfer

`AddMessage`, `FetchOutChunk` and `Transmit` are the steps of `udp_client_muxed::send`, each
under `muxer_mtp_` or outside it as in the code: the threads share the muxer, and each
sends whatever packet comes next, of any message, until the muxer is empty. The server's
send does the same but ignores a failing `sendto`, which is `Transmit` followed by `Lose`.
What a packet holds is its *piece*: the message it was cut from and its place in
it, which the code does not send and the properties read. `ReceiveEarly` is a packet that
comes and will come again; `stale` are the incomplete messages that `set_incoming_data`
drops first: any set, as the model has no clock. (The client drops them, after 180 s,
only when a message is complete; that is a subset of these steps.) `dropped` and `overtook` are
history variables. The socket, once closed, stays closed: one connection is modelled.

The identifiers are 16 bits wide and nothing in the code keeps one from being used again
while the receiver has a buffer from its last use: 65,536 messages within the life of a
stale buffer (120 s at the server) and the two messages mix. `IdsAge` is the assumption that
this does not happen. The runs and the two integrity theorems make it; without it `Integrity` and
`OneMessagePerId` do not hold. A message may be delivered twice, when all
its packets are repeated: the code has no memory of messages that are complete, and
nothing here says otherwise.

### CommandQueue

`epc[t]` is where a thread, be it a caller or a worker whose job enqueues another, is in `enqueue`:
it has seen the queue open (`push`), has pushed and notified and now looks at `num_workers_`
(`count`), and creates a worker under `workers_mtp_` in two stores, the list and its length
(`create`, `store`). `wpc[w]` is the loop of a worker: the test of the flags, the two
`try_dequeue` calls of `dequeue`, the wait and the two calls after it, the job. `cpc` is the control
thread, `dpc` the destructor: it drains the queues, waits for the control thread, and joins
the workers with `workers_mtp_` held.

Abstracted: the lock-free queues keep the order of one producer, which nothing relies on with several
consumers, so they are sets. `update_stats` averages samples of the load into a
decision; here the control thread may decide anything the bounds allow. The
steps of `kill_someone` (pop, store, terminate, notify) are one, as all happen in
the control thread with the lock held; its `join` is another. `MinWorkers` is 0, as the
runtime passes it. A job is a name; `Follow` says which job it enqueues.

### ServerLifecycle

Jobs of a kind are alike, so the queue is a count per kind: `pub` (`pp_subs_functor_`), `poll`
(the UDP server's polling job), `input` (a datagram), `stop` (a failure stops the server), `ext`
(the subscribing job). `at` counts running jobs at the places where a job has done half its
work: it has published and not yet looked whether to go on (`published`), is about to
enqueue itself (`pub_again`, `ext_again`), is in `stop()` and waits for the
polling job (`stop_wait`). `hpc` is where the host is in `start_net_server`,
`stop_net_server`, `load`, `run_mt` or the destructor, with each wait for a flag a
state of its own. `lapsed` and `raced` are history.

`Careful` restricts one action, `StartSubs`: the host calls `start_net_server` only when publishing is
disabled and the pool holds no job of an earlier start, the subscribing one excepted (`Quiet`). The code
does not ask for it; without it `QueueIsThere` does not hold (two chains share one running flag, and stop
waits for one of them only). Every other call may come at any time, `stop_net_server` right after
`start_net_server` included.

`ppserver` is the pointer `ppserver_`, and the server object lives on while `ppserver_.reset()`
waits in its destructor (`ServerExists`). The polling job always finds the object. A publishing job
with somebody to publish to finds the pointer set but in two situations, which `ServerIsThere` names and which
are faults of the code, as `ppserver_->send` (`runtime.hpp:2398`) then goes through a null pointer:

- `late`: `stop_net_server` waits for `pp_subs_functor_running_`, which the job itself raises. A first pass
  that is still in the queue is not waited for. If extern cells keep the queue alive the pass runs after
  `ppserver_` was reset, and finds whoever subscribed before the stop.
- `stale`: a subscription that outlives the job which should clear it, because it was handled when
  a termination had ended that job, or because the queue was destroyed with the first pass in it. The
  next `start_net_server` enqueues the publishing job before it makes the server, and the pass finds the
  subscription and no server.

Each flag is history: raised at the step at which the fault becomes possible, and lowered when the publishing job
clears the subscriptions. Without either exception TLC finds the null pointer.

`NetServerStops` has three exceptions, each of which is needed and a fault of the code: the queue
is destroyed before the UDP server whose polling job was on it (`QueueGoneFirst`); every
worker of the pool is in a `stop()` that waits for the polling job (`PoolExhausted`); the
started flag is raised after the job that clears it has ended (`raced`).

### ExternSync

The server's `subs` is `net_subs_`, from a connection and a remote name to one alias and the
last value sent; `net` the datagrams under way. `Ask` is one request of the
subscribing job, by the present connection or a new one, as `get_connected_client` judges by
milliseconds; `Publish` one entry of the publishing job's pass. The pools of both nodes handle
datagrams in any order, which delivering out of order covers. Time is not part of
the state: a connection may expire and a server restart at any moment. A value is the cell that
had it and how often it had changed, which is what tells an old value from a
new one. Duplicates are `PacketTransfer`'s.

A name is subscribed to once per connection, under the last alias that asked: of several extern cells
for one remote cell the server feeds one at a time. `Converges` claims what holds nonetheless.

### Statements

`stack` is the nest of `exec()` calls, each with where it is; `jumps` the flags `break_`,
`continue_` and `return_requested_`. Statements are numbered and `kind` is chosen in `Init`,
so that one run covers all programs of a shape. `Parsed` is what the parser accepts of a program:
`Nested` tells which statements it reads while `loops_nesting_` is not empty, and only there may a
`break` or `continue` be. A `while` and a `for` are both a `loop`: they
differ in what is evaluated with the condition. Frames and their unwinding objects and the
values of expressions are left out. `StructuredFlow` has
neither flags nor unwinding: a jump goes to the statement it leads to in one step. What `continue`
does is the code's choice, in both: the body starts again, with neither the condition nor the
increment evaluated.

`Evaluates` is an expression: a call of `exit()` in it sets the flag of return and the expression is evaluated to
its end, so the statement it is part of goes on (a condition still chooses its branch, which then returns at
once), and it may throw besides (`Throws`). Since `throw` is the only `exec()` that does not look at the flags,
an exception may be on its way with a return pending: the `catch` it reaches does nothing (unless it is a `throw` itself), and leaving a
function clears the request. `StructuredFlow` says what this amounts to (`AfterExitAndThrow`): a `try` of
the same function stops the exception and the function returns; otherwise it leaves the function and is
an exception like any other. `exited` is history and tells a return that `exit()` asked for.

## 3. Runs

| run | expects | what it shows |
|---|---|---|
| `sched_wild` | pass | scripts that do everything, a host that interferes at any moment: exclusion, no lost lock, outputs agree with values at rest, a cell that returns only new values shows its own |
| `sched_tidy` | pass | scripts that do not write arguments, return fields, call `exit()` or use the value of a function that does, cells in a cycle: no data race, a published value never changes, fields are private, the scheduler implements the actors |
| `sched_live` | pass | three threads, two cells, calls, exceptions, and `exit()` in functions whose value is used: every cell is served for ever, every thread stops when told |
| `sched_counter` | violation | the documented counter returns its field: readers hold the box that the next execution increments |
| `sched_exit` | violation | a cell that calls `exit()` publishes another cell's value |
| `runtime_life` | pass | modes never overlap, joins are unique, nothing outlives the runtime, every call returns unless it deadlocks with `hardware_concurrency()` |
| `runtime_stop` | violation | that deadlock |
| `packets_safe` | pass | only whole messages arrive, identifiers do not mix messages, no packet is left in the muxer, waiting messages take turns, a message of which nothing is lost arrives |
| `job_queue` | pass | every accepted job is executed once or dropped at the end and none is forgotten, the pool keeps within its bound, the destructor returns and leaves no thread, unless it joins a worker that waits for the lock it holds |
| `server_life` | pass | jobs find the queue, the polling job its server, the publishing job the pointer to it but in two situations; publishing goes on while enabled, chains end with the program, a stop returns but in three situations. The properties name each |
| `extern_sync` | pass | an extern cell shows only values its remote cell had, and comes to show the last one |
| `statements` | pass | flags and unwinding amount to structured jumps; a statement begins with nothing pending but a return that `exit()` asked for, and a body leaves no `break` or `continue` behind |

Bounds. Two threads and two cells suffice for every conflict between an executing
thread and one that reads, publishes or is refused the same cell; `sched_live` has more
threads than cells, so that a thread may be refused everything. `MaxSteps = 1` allows a body one
in-place write or call before it ends, which separates "before" from "after" a
write; two marks let a property see a value change. `Slots` bounds the
computed values alive at once; where every box is held (in `sched_wild` only, when the two threads
keep old results) an execution that would compute one more value waits or ends otherwise. The
`Symmetry` of the scheduler runs permutes threads, which no safety property
tells apart; the liveness run uses none. In `runtime_life` two workers give the join loop
an intermediate state; deadlock is not checked there because after the destructor
nothing moves.

In `packets_safe` two
identifiers for three messages of two, two and one packets force a reuse and a wrap. Two
packets make a first and a last one, one packet takes the path without a buffer, and two threads send
each other's packets; a message with a packet in the middle is only covered by the
theorems. Deadlock is not checked: when all is sent, nothing moves.

`job_queue` has a pool of one worker at most, names for four (the excess a caller, the job and the control
thread may create, and one being joined), and two jobs, one enqueued by the other;
the same properties hold with two workers and five names, in a run of four minutes. `server_life` has
a pool of two and two failures, the least that exhausts the pool; it passes as well with three
and three, and with one and one. `extern_sync` has two aliases of one remote cell, one name
without a cell, two connections, two datagrams and a value that changes once: enough for an old value to
overtake a new one on the other connection. `statements` runs every legal assignment of kinds to
a tree of seven statements with a function of three, 11,310 programs, any expression of which may throw or call `exit()`: three levels, so that a
jump crosses a statement that it does not concern.
Nothing moves in these four either when the work is done.

Fairness. `FairSpec` of `CellScheduler` is weak fairness of every thread's loop: an operating
system runs every runnable thread, and each step of the loop is non-blocking (`try_lock`
does not wait; the spin lock of the draw is one step). Nothing is assumed of the host. In
`RuntimeLifecycle` hosts inside a call and workers are weakly fair, and a host that waits for
`threads_mtp_` while others take and release it in turn gets it at some point (strong
fairness of the two lock steps): those holders are other calls, and the host
leaves the lock free between them. `FairSpec` of `PacketTransfer` makes a thread in `send`
go on and what the network does not lose arrive; nothing makes the host send.
In `CommandQueue` every thread goes on; that a worker which is created over and over runs at
last (strong fairness of the first test) is the second the runtime
leaves between two killings. In `ServerLifecycle` the host goes on within a call, and a
job that could begin again and again is begun: the pool takes jobs from a queue. In `ExternSync`
fairness speaks of the cells the server has: requests and values for such a cell, sent again and again,
are not all lost, and a job that has work for it again and again does it. Nothing
is assumed of names without a cell, whose answers may fill the network
but for the datagrams that get lost.

Disagreements with the documentation (`findings` in `PROJECT.json`): the three violation
runs. README.md line 23 promises node execution that is safe without user-managed
locks; a returned field is a data race, `exit()` lets one cell publish another's
value, and stopping can deadlock with a body that asks for the number of threads.

## 4. Proofs

Every theorem holds for all values of the constants that satisfy the module's `ASSUME`, which TLC
evaluates in the runs. What a theorem assumes besides is in the second column.

`CellScheduler_proofs` and `CellActors_proofs`, for every set of threads and cells, every graph, every
script abstraction and every bound:

| theorem | states | rests on |
|---|---|---|
| `TypeCorrect` | `[]TypeOK` | `TypeInv` |
| `Exclusion` | `[]MutualExclusion` | `LockInv` |
| `NoLostLock` | `[]LocksAreHeld` | `LockInv` |
| `OutputsAgree` | `[]OutputAgrees` | `LockInv`, `OutputFollows` |
| `TidyProgramsDoNotRace` | `TidyProgram => []NoDataRace` | `LockInv`, `FieldsHidden` |
| `TidyValuesAreStable` | `TidyProgram => PublishedStable` | `FieldsHidden`, `TypeInv` |
| `TidyFieldsArePrivate` | `TidyProgram => FieldsPrivate` | `FieldsKeep` |
| `TidyValuesAreOwn` | `TidyProgram /\ NoExit => []OwnValues` | `FieldsHidden`, `ResultIsOwn` |
| `ThreadsImplementActors` | `TidyProgram /\ NoExit => ImplementsActors` | `TidyInv` |

`TidyProgram`: no body writes an argument or returns a field. `NoExit`: none calls `exit()` in its body or uses the value of a function
that does. The two
violation runs of the scheduler are programs without one or the other.

The assumptions are the module's own (`ProgramAssumption`, `BoxAssumption`): the draw order
is a non-empty sequence of cells that contains every cell, sources are cells, inputs or
constants. The inductive invariants:

- `TypeInv` is `TypeOK` with two facts it needs: a thread about to publish has a defined
  result (`return_result` is `NoBox` only before the first return), and a frame holds no
  more arguments than the cell has and is empty outside an execution.
- `LockInv` is `MutualExclusion` and `LocksAreHeld` together; neither is inductive alone: a
  second thread is kept out because the lock set covers the first, and the unlock of one
  thread keeps the set exact because no other thread executes the same cell.
- `OutputFollows`: between the two writes the thread that publishes has already stored in
  `val` what it will store in `outputs`.
- `FieldsHidden`: in a tidy program no pointer outside a cell (values, outputs, frames,
  results) refers to the box of a field. So in-place writes touch private boxes only.

- `ResultIsOwn`: what a thread is about to publish carries the name of the cell it executes, or
  is an argument it read, of a cell that returns arguments.
- `TidyInv` adds that constants keep their value. In the refinement the actor of a cell is described through the
  one thread that executes it (`ActorOfHolder`, from exclusion) or is at rest; a step leaves every
  other actor alone (`OtherCellsKeep`), because boxes somebody points to keep their value
  (`ReachedBoxesKeep`). Then each action is one action of the actor, or none: `Enter` begins,
  `ReadArg` observes, writes to the field remember, `Publish` publishes, a body that ends
  without a result abandons, `Unlock` rests.

`RuntimeLifecycle_proofs`, for every set of hosts and workers and every mix of calls:

| theorem | states | rests on |
|---|---|---|
| `TypeCorrect` | `[]TypeOK` | `IInv` |
| `NoThreadJoinedTwice` | `OneWaiter => []JoinedOnce` | `IInv` |
| `CycleIsAlone` | `OneDriver => []CycleRunsAlone` | `IInv`, `ModeInv` |
| `ModeTellsOfThreads` | `OneDriver => []ThreadsImplyMulti` | `IInv`, `ModeInv` |
| `DestructorJoins` | `OneDriver => []NothingOutlivesRuntime` | `IInv`, `ModeInv` |

`OneDriver`: one host at most does more than wait; `OneWaiter`: one host at most waits. `IInv` says which
places of a call hold `threads_mtp_` and how, that workers exist only while they are in `threads_` and
that a join proceeds through that list; `ModeInv` what the
driver, which reads the mode without a lock, may conclude from it at every place of its call.

`CommandQueue_proofs`, for every set of jobs, callers and names of workers:

| theorem | states | rests on |
|---|---|---|
| `TypeCorrect` | `[]TypeOK` | `IInv` |
| `DestructorLeavesNobody` | `[]NothingOutlives` | `IInv` |
| `QueueImplementsPool` | `ImplementsJobPool` | `IInv` |
| `PoolStaysBounded` | `[]PoolBounded` | `IInv`, `SizeInv` |

`IInv` is about where a job is: with one thread, one worker or one queue and nowhere twice (`WithWorkers`,
`WithThreads`, `Apart`), a job that another enqueues not before that one runs (`FollowInv`); and
about which workers are alive: those in the list, the one being created, the one being joined.

`PoolBounded` is about an unlocked read: a thread that finds no worker creates one later, when there may be
others. `SizeInv` bounds the workers there are together with the threads that will create one
(`CreatorsBounded`). Its key is `OneCreator`: a worker's own job enqueues only while that worker is
in the list or has just been taken out, so beside the callers one worker at most can have seen
none. That is where the `+ 1` of the bound comes from. `CountInv` says by how much the stored length may lag. This
theorem alone needs the callers to be finitely many (`CallersAssumption`).

`ServerLifecycle_proofs`, for every size of the pool:

| theorem | states | rests on |
|---|---|---|
| `TypeCorrect` | `[]TypeOK` | `FlagInv`, `CountInv` |
| `JobsFindTheQueue` | `Careful => []QueueIsThere` | `IInv` |
| `JobsFindTheServer` | `Careful => []ServerIsThere` | `IInv` |
| `PublishingGoesOn` | `Careful => []PublisherAlive` | `IInv` |

`Careful` is the condition on `start_net_server` of section 2 and nothing more. `JobsFindTheServer` excepts
`late` and `stale`, as the property does.

`IInv` counts: of each chain there is one job, queued or running; one of the flags that
`stop_net_server` waits for is raised as long as that job may enqueue itself again (`PublishInv`,
`SubscribeInv`, `PollInv`). `LiveInv` says that publishing, enabled and never ended by a termination, has its job.
`SubscribedInv` follows the subscriptions: one made while there is a publishing job is cleared by it before
the host can reset the pointer, and what is left after that is `late` or `stale`.

`ExternSync_proofs`, for every set of cells, aliases and connections: `TypeCorrect` (`[]TypeOK`) and
`OnlyRemoteValues` (`[]ShowsRemote`), from the invariant that every entry, datagram and extern cell holds a
value its remote cell has had.

`PacketTransfer_proofs`, for every set of messages and threads, every length and number
of identifiers:

| theorem | states | rests on |
|---|---|---|
| `MessagesArriveWhole` | `IdsAge => []Integrity` | `IInv` |
| `IdsDoNotMix` | `IdsAge => []OneMessagePerId` | `IInv` |
| `SendersEmptyTheMuxer` | `[]NothingLeftBehind` | `SendersPresent` |
| `NoHeadOfLineBlocking` | `TakesTurns` | `TurnInv`, `TypeInv` |
| `TypeCorrect` | `[]TypeOK` | `TypeInv` |

`Integrity` is not inductive: whether a buffer that becomes complete holds one message depends on
all that is in flight. `IInv` says that every packet between the muxer and the demuxer is
genuine (its piece is the one its header names), and that an identifier stands for one
message wherever it appears (`OneUser`): in the muxer, at a thread, in the network, in a
buffer. Every step but `AddMessage` only hands an identifier on (`HandedOn`). The last argument is one of
counting: as many fragments as the message has packets, all of them below that
number, are all of them (`AllFragments`).

`TakesTurns` speaks of what happened since a message was last served (`overtook`); `TurnInv` ties it to the
muxer: from the key served next the messages are taken in a circular order (`Before`), and one that was
served since another was is behind it. A fetch moves the message it takes from to the end
(`FetchTurn`), and a message added, wherever its identifier puts it, has overtaken nobody (`AddTurn`).

`Statements_proofs`, for every program the parser accepts and calls of any depth:

| theorem | states | rests on |
|---|---|---|
| `TypeCorrect` | `[]TypeOK` | `IInv` |
| `NothingStaysPending` | `[]NothingPending` | `IInv` |
| `FlagsAreStructuredJumps` | `ImplementsStructuredFlow` | `IInv` |

`NothingPending` is not inductive: that a body ends without a pending `break` depends on every loop below it on
the stack. `IInv` says that all calls but the last are in progress and that a statement the parser read in a
loop is in a loop (`InLoop`: a loop below it runs its body, with no call of a function between), that one jump at most is
pending, and a `break` or `continue` only where a loop will
take it; `ExitInv` that whenever a statement begins or an exception is on its way nothing is pending but what
`exit()` asked for. The parser's promise (`StatementsAssumption`) is what starts this: without it a `break` outside a
loop would pass to the next cell of the thread. In the refinement a pending jump
stands for the stack it leads to (`JumpAhead`). A call that is not what the jump looks for may then be left
without a visible step (`SameJumps`, `PassingStep`), and when the call is reached the stack is the one
that was announced (`TopJumps`, `ArrivingStep`). What a pending return stands for depends
on whether a `throw` is reached with it (`LateThrow`); the `try` and the function such an exception meets
leave it what it is (`LateCatch`, `LateLeave`).

What stays with TLC: the liveness properties (`EveryCellServed`, `WorkersStop`,
`CallsReturnUnlessDeadlocked`, `ArrivesUnlessDropped`, `EveryJobServed`, `DestructorReturns`, `NetServerStops`,
`ChainsEnd`, `Converges`), as the prover handles neither fairness nor `ENABLED`; and the three
violations (`NoRaceAmongThreads`, `OwnValues` of a program with `exit()`, `StopReturns`), which are counterexamples.

## 5. Not modelled

- Lexer, parser, code generation, JSON, serialization, utilities and the extensions are sequential
  conversions of data without shared state.
- Sockets are I/O. The TCP classes are not used by the runtime. `shared_mutex` of `mt_synchro.hpp` is compiled
  only with `TEAL_USE_CUSTOM_SHARED_MUTEX`, which no build file defines.
- Of UDP: the two tables of connections of the server and their clean-up, and the client's receiving job,
  notifications and `close`; `ServerLifecycle` has the server's jobs and `ExternSync` a client that is replaced.
- Of the scheduler: extern cells as sources (they behave like inputs written by the network), graph changes
  while the threads run, and a graph without cells. Of the life cycle: `unterminate`, `fail` and `unfail` as calls of the
  host, which set a flag, and `run_cycles`, which repeats `run_cycle`. Of values and expressions: their contents.
- `deferred_command_queue`, which the runtime does not use, and `unsubscribe`, which nothing calls.
- Vendored and third-party code (eigen, emhash, concurrentqueue, the unicode tables, Bullet) is not the
  project's own; it is most of the source tree's lines.

## 6. What is left

In order of importance: the server's tables of connections (two identifiers of one peer, the clean-up beside
the polling job) and the client's receiving job and `close`, on the pool of `JobPool`; a channel that delivers
any of the messages sent, and a proof that `PacketTransfer` implements it.
