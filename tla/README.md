# Async++ in TLA+

Models, model checks and proofs for Async++, a C++ library of tasks:
schedulers that run them, continuations that follow them, and combinators that
wait for several. Paths below are relative to the repository
(`include/async++/`, `src/`).

## 1. The system

| component | state | operations |
|---|---|---|
| **work-stealing queue** (`src/work_steal_queue.h`) | `array`, `top`, `bottom`; old arrays are kept | `push`, `pop` by the owner, `steal` by anybody, destructor |
| **thread pool** (`src/threadpool_scheduler.cpp`) | a queue per worker, a public queue, the list of sleeping workers, `shutdown`, one lock | `thread_task_loop`, `steal_task`, `schedule`, start of the threads, destructor |
| **wait event** (`src/task_wait_event.h`) | mutex, condition variable, mask of events; in the waiter's stack frame | `wait`, `try_wait`, `signal` |
| **continuation vector** (`continuation_vector.h`) | one atomic word: inline pointer or vector, locked or not; a mutex in the vector | `try_add`, `flush_and_lock`, destructor |
| **task object, run handle** (`task_base.h`, `task.h`, `scheduler.h`, `ref_count.h`) | state, reference count, function, result, continuations | `spawn`, `make_task`, `then` on tasks and shared tasks, `run`, `cancel`, unwrapping, moves and destructors |
| **event_task, local_task** (`task.h`) | a task object set by hand, or embedded in a frame | `set`, `set_exception`, destructors |
| **when_all, when_any** (`when_all_any.h`) | a shared counted state with an event and a list | a continuation per task, registration |
| **fifo queue, fifo_scheduler** (`src/fifo_queue.h`, `src/scheduler.cpp`) | ring buffer, lock | `push`, `pop`, `try_run_one_task` |
| **wait handlers** (`src/scheduler.cpp`) | a function pointer per thread | the generic one sleeps; a pool's worker runs other tasks |
| **parallel algorithms** (`parallel_*.h`) | frames of recursive calls, each with a `local_task` | `parallel_for`, `parallel_map_reduce`, `parallel_invoke` |
| **partitioners** (`partitioner.h`, `range.h`) | a range, a grain size, a number of threads, the last thread | `split` |
| **others** | | cancellation token, singleton, allocation, traits, the GTK example |

A task that finishes stores its state and flushes its continuations, which
schedules them; a continuation that comes too late is scheduled by whoever
brought it. A scheduler gets a run handle and must run it or drop it; dropping
it cancels the task. A worker that waits adds a continuation that signals its
event, registers the event in the pool's list, and sleeps; `schedule` signals
the event last registered. `when_all` and `when_any` attach continuations that
run inline in the thread that finishes each task. The parallel algorithms put a
task for the second half of a range into the frame that handles the first; its
destructor waits, on a pool by running other tasks, and then spins until the
scheduler has let go of it.

What is hard here: the lock-free queue and its two indices; the unlocked test
of `num_waiters`; an event in a stack frame that others signal; a word that
changes its form while it is attached to and flushed; locks taken in both
orders; waits nested in one another on one stack; exceptions out of `then()`
and `schedule()`; reference counts without owners; tasks that live in frames which
exceptions leave; results that depend on which thread took which part. `PROJECT.json` lists each
hazard with its line and with the properties that watch it.

What makes each component correct:

* queue: every task leaves it exactly once; the owner takes the newest and
  thieves the oldest; an operation that returns nothing missed nothing it had
  to find;
* pool: a scheduled task runs; workers do not sleep while there is work; a wait
  returns when the task has finished and no signal reaches its event later; the
  destructor returns, with the queues empty;
* event: a signal is not lost, and never touches a dead event;
* continuations: scheduled once each, in order, after the result is there;
* tasks: settle once; counts are exact; nothing leaks, nothing is used freed;
* events: one of those who set an event wins; an abandoned event is cancelled;
* parallel algorithms: every element once and in order, exceptions surface,
  nothing outlives the frame it refers to, and calls end;
* combinators: one winner, complete results, a state that lives exactly as long
  as it is used;
* fifo: first in, first out, over every wrap and growth.

## 2. Modules

| module | models | main abstractions |
|---|---|---|
| `WorkStealQueue` | the queue, one step per atomic access | sequential consistency; `size_t` has `WordMod` values; a task is its push number |
| `WorkDeque` | what the queue promises: a deque | `ImplementsDeque` in `WorkStealQueue` |
| `..._proofs` | theorems about the module of that name; `ContinuationVector_proofs` is also about `PoolLocks`, `ParallelAlgorithms_proofs` about `Partitioner` | section 4 |
| `ThreadPool` | workers as stacks of frames, the pool's lock, list of sleepers, destructor | queues are atomic deques (justified by `WorkStealQueue`), continuations a set (by `ContinuationVector`), `signal` and `wait` atomic (by `TaskWaitEvent`); the program the pool runs is a constant |
| `ContinuationVector` | the word, the vector and the mutex, one step per access | a continuation is the thread that attaches it |
| `Continuations` | what the vector promises | `ImplementsContinuations` in `ContinuationVector` |
| `PoolLocks` | `ContinuationVector` composed with the pool's lock and its sleepers; the finishing worker's `schedule()` is the push, the test for sleepers and the critical section | any sleeper may be woken; only the one task is in the queues |
| `TaskWaitEvent` | the event, its waiter, the threads that signal it | one waiter |
| `TaskLifecycle` | states, counts, handles, unwrapping, deletion | finishing is one step; who continues and returns whom, which tasks are shared and which come from `make_task` are constants |
| `EventTask` | the event object: setting it in two steps, `get_task`, the destructor test by test, move assignment | an event task's continuations are those of `TaskLifecycle` |
| `WhenAllAny` | threads around an `EventTask`: `when_all` and `when_any`, with registration against completion and `then()` that throws; or a program's own threads that share the event | tasks are numbers; which of the three it is, is chosen at the start |
| `Partitioner` | the splits of `partitioner.h` and `parallel_invoke.h` as operators | a range is a range of integers |
| `ParallelAlgorithms` | calls as frames on the stacks of threads, `local_task`, a pool whose workers run tasks while they wait, the inline scheduler | the queues are a set; the value is that of a reduction in the free monoid: a sequence of elements and initial values |
| `FifoQueue` | the ring and its runners | the lock makes `push` and `pop` single steps |
| `MC...` | small instances: programs for the pool, families of tasks, first indices of a queue | |

Variables keep the names of the code where one exists (`top`, `bottom`,
`waiters`, `public`, `refs`); `opc`, `tpc`, `pc`, `fpc`, `rpc`, `cpc`, `wpc`,
`spc` say where a thread is. Definitions introduced by "Faulty variant" are
plausible bugs: no specification uses them, and putting one in the place of the
definition that follows it makes the property named in `PROJECT.json`
(`mutants`) fail. They show that each property can fail.

How the composition goes: `ThreadPool` uses the promises of `WorkDeque`,
`Continuations` and `TaskWaitEvent` instead of their steps. `LoopStealMisses`
has the one exception the queue makes: a thief may miss a last task the owner
is popping, which is what `StealMissesOnlyContested` says. Where two detailed
components matter together, `PoolLocks` composes them step by step. `WhenAllAny`
extends `EventTask`, and `ParallelAlgorithms` extends `Partitioner`, whose splits
it applies in the frames.

## 3. Runs

Bounds are constants of the configurations. Those that cap something the code
does not cap: `MaxPush` (pushes on a queue), `WordMod` (values of an index),
`InitSize` (first array, 32 in the code), and `MaxDepth`, which is not a limit
on behaviour but the largest stack the finite scripts can build.

| run | bounds | shows |
|---|---|---|
| `Wsq` | 2 thieves, 3 pushes, 1 slot, words mod 8, indices that start just below the wrap | `Conservation`, `StealSound`, `PopMissesOnlyEmpty`, `StealMissesOnlyContested`, the refinement `ImplementsDeque`, and under fairness `EveryTaskLeaves` and `StealReturns`. One slot and three pushes give an array that grows twice with thieves holding an old one, and slots that are reused; two thieves race each other and the owner for the last task; the indices wrap in every phase of an operation |
| `Cv` | 4 continuations | `OneOwner`, `NoLatePush`, the refinement `ImplementsContinuations`, `EveryContinuationRuns`; four is enough for one inline, two in the vector, one waiting for the mutex, and any of them late |
| `Pool` | 3 workers, a program of 4 tasks | `NoDanglingEvent`, `NoLostWakeup`, `WaitMeansFinished`, `DestructorDrains`, `PoolStops`. One task spawns two and waits for the first; the second waits for the task that spawned it, on another worker or on top of its wait, and nobody waits for it; a last task comes from outside just before the destructor. Three workers are needed for a thread that another one starts to start a third |
| `Locks` | 2 waiting workers, 2 other continuations | `ReturnedClean`, `EndsOrLockCycle`; with two waiters one can be asleep, and so make `schedule` need the lock, while the other attaches |
| `Task` | 5 tasks: a shared task with two continuations, which return one shared task, which returns a task from `make_task`; `schedule()` may throw and handles may be overwritten | `CountsAreExact`, `SettlesOnce`, `EveryTaskEnds`; two continuations are needed for the vector, one for the inline form, and two tasks that unwrap the same task for counts above 1 |
| `When` | 4 tasks or threads, `then()` may throw, events may be assigned to | `RefsAreExact`, `SetWhenAllDone`, `OneWinner`, `AbandonedIsCanceled`, `EventSets` |
| `Parallel` | 0, 1, 3 or 4 elements, 2 workers and a thread outside, 3 as the number of processors, grain 0, 2 or automatic; functions, reductions and `schedule()` may throw, tasks may be dropped | `ResultInOrder`, `ChunkPerThread`, `TasksInsideFrames`, `ErrorsSurface`, `AlgorithmEnds`. Four elements make a tree of three tasks with two levels, so that a worker waits in a frame above and below other tasks; three processors leave an odd thread to share out |
| `Event` | 2 threads that schedule, 1 that finishes | `SignalledEventExists`, `NoMissedNotify`, `FinishedEndsWait` |
| `Fifo` | 7 pushes, 2 slots, 2 runners | `FifoOrder`, `EveryTaskSettles`; the ring grows to 4 and to 8 with head anywhere |

Safety and liveness share a run, and no run uses symmetry, which would not be
sound for liveness. `Wsq`, `Cv`, `Pool` and `Parallel` also check the type invariant
of their module.
Deadlock is not checked because each of these systems stops for good: a
destroyed queue or pool, tasks that are all freed. Whether it stops too early is
what the liveness properties, `EndsOrLockCycle` and `DestructorDrains` say.

Some properties have a condition. In `TaskLifecycle` nothing is said of the
program once `schedule()` has thrown a continuation back (its function object
is then destroyed twice), and `EveryTaskEnds` excepts runs in which a handle that
held a task was assigned to; the variable `mishaps` remembers both. `EventSets`
excepts events that were assigned to, `RefsAreExact` the handler of the last task,
which may delete a deleted state (below), and `PoolStops` tasks that wait for a task
below them on the same stack.

### Where the code disagrees with its comments

These three are runs that expect a violation; `PROJECT.json` quotes both
sides.

* `AnyPartial`: `when_any` moves its list into the result when the first task
  finishes, while the loop that fills the list may still run. The result misses
  tasks, and the loop goes on to index a moved-from vector.
* `LocksCycle`: a worker that waits attaches its continuation with the pool's
  lock held and may need the vector's mutex; the finishing worker schedules
  with that mutex held and may need the pool's lock. It takes a task with
  at least two waiters and continuations on the same pool: the first of these is
  pushed and blocks its scheduler, those behind it are never passed on.
* `TaskThrow`: a `schedule()` that throws in `run_continuation` makes the task
  be cancelled twice, and its own continuation scheduled twice.

More were met while modelling and have no run of their own:

* The destructor of a pool is documented to drop tasks that have not started
  (`scheduler_fwd.h:144`). The workers run them: that is what `DestructorDrains`
  says.
* Assigning to a `task_run_handle` that holds a task (`scheduler.h:113`) drops
  the reference and does not cancel, against the comment at `scheduler.h:117`.
  The task stays pending, and with a continuation it is part of a cycle of
  references: this is the exception in `EveryTaskEnds`.
* Assigning to an event that was not set (`task.h:185`) does not cancel it, against
  the comment at `task.h:196`: this is the exception in `EventSets`.
* A wait of a pool runs any task it finds on top of the waiting one
  (`threadpool_scheduler.cpp:204`). If that task waits for the one below it,
  neither goes on although the task waited for may have finished, against
  `scheduler.h:88`: this is the exception in `PoolStops`, and the program of
  `Pool` has such a pair.
* When `then()` throws for the last task of `when_all` or `when_any` and the other
  continuations are done, or there is one task only, the state is deleted before the
  handler calls `remove_ref(0)` on it (`when_all_any.h:135`, `163`, `196`, `233`).
  The call finds 0 == 0 if the count is still there to be found, and deletes the
  state a second time, against the comment above it, which only wants no leak.
  The variable `deleted` counts the deletions; `DeletedTwice` is the exception in
  `RefsAreExact`, and is true of a state TLC reaches.

### Fairness

Weak fairness of each thread: the operating system runs a thread that can run.
Strong fairness is used in two places: `StealCas` in `WorkStealQueue`, because
a weak compare-exchange may fail without cause but not for ever, and
`TaskWaitEvent`, where a mutex is released and taken again and again and a
thread that wants it gets it in the end. Compare-exchange loops elsewhere need
only weak fairness because the spurious failures are left without fairness. The
owner of a queue is assumed to go on calling `pop()`, as the loop of a worker
does; nobody is assumed to push, to schedule or to finish a task outside the
pool. In `TaskLifecycle` one fairness condition says that, while there
are handles, calls or task objects left, some one of them is run or dropped.
Runners call `run_all_tasks()` again and again (`FifoQueue`). In
`ParallelAlgorithms` each thread runs on, and a worker that waits or is idle takes
some task if there is one.

## 4. Proofs

`WorkStealQueue_proofs` proves, for every number of thieves, every word width,
every first size and every number of pushes below half the width, and wherever
the two indices start, so that they may wrap around at any moment:

* `TypeCorrect`, `TasksConserved`, `StealsOldest`: the invariants of `Wsq`;
* `NoOverrun`: the queued tasks fit in the array, so that `push()` overwrites
  none, although it compares with a value of `top` that may be stale;
* `PopMisses`, `StealMisses`: the action properties of `Wsq`;
* `ImplementsTheDeque`: the refinement `ImplementsDeque`. `push()` takes effect when it
  publishes `bottom` (or throws), `pop()` when it has reread `top` or wins the
  compare-exchange, `steal()` in its compare-exchange; the lemmas `...Unseen` say that
  the deque is the same before and after every other step, also when the array is
  replaced.

The assumption is `SizeAssumption` of `WorkStealQueue`. The number of words and the
first size are powers of two, as the code takes a slot by `index & (size() - 1)`: it
says that the number of words has no odd factor but 1 and that the size is one of its
factors. `Starts` is any set of words.

The inductive invariant is `Started`, that is `IInv(s)` for the index `s` the queue
started at. It speaks of `Top(s)`, `End(s)` and so on: how far past `s` an index is, a
number that does not wrap. `SignedDifference`, `SmallInc` and `SmallSpan` relate the
words of the code to these numbers (`to_signed` of a difference of words is their
difference, negative or not), and `PlaceSlot` says that the slots go on where an index
wraps around, which needs the size of the array to divide the number of words;
`DoubleDivides` is why it still does after `grow()`.

`IInv` is needed because `Conservation` says nothing about local copies. It has
`Indices` (where the owner's copies of the indices stand relative to the shared ones in
each phase of an operation), `Fits` (the window of queued tasks fits in the array, with
a slot to spare while push fills it), `Placed` (queued, in hand and gone exclude each
other), and `Knows`, what a thief may rely on: if its copy of `top` is still current,
the slot it will read or has read holds the oldest task, in whichever array it looked.
Arrays are only ever appended, and the live part of an old one stays what it was as
long as `top` does not move: that is why an old array is good enough for a thief. There
is a lemma per action (`...Inv`) and one for what it does to the deque, and lemmas
about slots (`DistinctPlaces`), arrays (`GrowShape`, `PutShape`) and the
tasks of consecutive slots as a sequence (`ItemsPush`, `ItemsPop`, `ItemsSteal`).

The other proof modules have the same shape: an inductive invariant `IInv`, a lemma
per action or per part of it, and theorems that follow from `IInv`. TLC
checked each `IInv` on the constants of the module's run before it was proved.

`ThreadPool_proofs`: for any number of workers and any program of finitely many
tasks, `TypeCorrect` (which says that no stack exceeds `MaxDepth`), `NoDangling`,
`NoTaskLeftAsleep`, `Drained` and the action property `WaitReturnsReady`: all the
safety properties of `Pool`. The assumptions are the module's own. The invariant
describes what the properties leave open:

* `Frames`: the stack of a worker alternates `thread_task_loop` and a task, and
  every frame but the innermost stands where it made the next call. This is
  what bounds the stack, and what an event, a frame's address, means;
* `Queued`, `Running`: a task is queued in one place, or runs in one frame, and
  its state says which;
* `Signals`: a continuation and its event belong to a wait that goes on, and
  signal it once. A worker leaves `relock` only after that signal, and then nothing
  that knows the event is left: this is `NoDanglingEvent`;
* `Sleepers`, `Work`: the list names, once each, workers asleep or just woken; a
  worker appends itself with the lock held and the public queue empty, and who
  sleeps has an empty queue of its own. A push while all sleep would have
  needed a worker that runs: this is `NoLostWakeup`;
* `Starts`, `Ends`: the threads not yet started are divided among the workers
  that will start them, and workers leave once `shutdown` is set and nothing is
  left: this is `DestructorDrains`.

`ContinuationVector_proofs`: for any set of continuations, `TypeCorrect`,
`PushesInTime`, `EachHasOneOwner`, and `RefinesContinuations`: the initial states and
steps of `ImplementsContinuations`. The invariant has two halves. `Control` says
what the word can be (`Words`: an inline pointer is replaced only by the vector
that contains it, so that a vector allocated for a compare-exchange that failed
may be used for the next), how far the finisher is (`Flushing`), and who has the
mutex (`Exclusive`, which contains `NoLatePush`); it is inductive by itself. `Placed`
says where each continuation is. The refinement needs both: a step that puts a
continuation in the word or the vector appends it to what waits, and one that
flushes takes the first.

In the same module, about `PoolLocks`: `PoolKeepsVector` proves that
the composition with the pool implements the specification of the vector, so that
all its theorems hold there; from it and `WaitsRight` (who has the
pool's lock, and that a listed worker is asleep) follows `WaitLeavesNothing`, that
is `ReturnedClean`.

`TaskWaitEvent_proofs`: for any set of threads that schedule work, `TypeCorrect`,
`EventExists`, `NotifyComes`, and `CriticalSections` (the mutex excludes). The
invariant says who has the mutex and `impl->lock` (`MutexHeld`, `LockHeld`), that
nobody can be inside `schedule()` with an event already off the list (`Listed`), and
that the waiter knows of the end only after the finisher's signal (`FinishSeen`);
the last two are the two ways an event stays alive while it is signalled.

`TaskLifecycle_proofs`: for any set of tasks, whichever continues or returns which
(the assumption is only that a task from `make_task()` continues none),
`ExactCounts` and `SettledOnce`, and what no run states: `NoUseAfterFree` (what a
handle, a continuation, the program or a task that unwraps refers to is not
deleted) and `PassedOnce` (until `schedule()` has thrown, a continuation is passed on
once, which `TaskThrow` refutes without that condition). `CountsAreExact` needs `Shape`:
a task that is to be run is pending and in one place, a continuation in a vector
that was not flushed keeps its parent alive and is alive itself, and a deleted
task has a count of 0. `Exact` then follows for each step from the changes of the
seven parts of the sum (`Moves`, `Balance`), two of which are cardinalities, of the
continuations whose function is there (`KidsDrop`, `KidsAdd`) and of the tasks
that wait to unwrap (`UnwrapBegins`, `UnwrapEnds`).

`WhenAllAny_proofs`: for any number of tasks, whether `then()` may throw and
events may be assigned to, or not: `ExactReferences`, `AllDelivered`, `FirstWins`,
`NoneAbandoned`, `DeletedUnused`, and the action property `SetOnce` (an event that
was set stays so). The counts are cardinalities, which `Stages` (which tasks have
a continuation) makes possible to follow; `OneLock` and `Winner` tell who sets
the event, and `Deleted` what deletion means: no reference is left, and the
destructor of the event has run or is running. `ExactReferences` is about throwing
`then()` too: every `remove_ref()` finds what is counted, and the state is deleted
once, unless it is the handler with no references to give back. `DeletedUnused` says
where the loop is when the state is deleted: at its last task, with nothing left
but to return or to leave by that handler.

`FifoQueue_proofs`: for every first size that is a power of two, every number of
pushes and runners: `TypeCorrect` (the indices stay in the array and the size a
power of two, so that the mask is a remainder), `FirstInFirstOut`, and what no run
states: `RunsOnce`, and `DestroyedSettled` (a destroyed queue leaves no task that was
neither run nor cancelled). `FifoOrder` is almost inductive; `Taken` adds who has
the tasks that were given out.

`ParallelAlgorithms_proofs` is first about the splits of `Partitioner`: for ranges,
grain sizes and numbers of threads of any size, a split leaves two adjoining parts
that are the range, each smaller than it and not empty, or the whole
(`StaticSplitPartitions`, `AutoSplitPartitions`, `InvokeSplitPartitions`).
`AutoSplitPartitions` adds that the two parts share out exactly the threads of the
range, and `GrainInBounds` that the chosen grain is between 1 and 2048. The only
assumption is that `hardware_concurrency()` is positive.

Then about the calls, for any pool, ranges of any length, every partitioner, both
schedulers, exceptions anywhere and dropped tasks: `TypeCorrect`, `NothingOutlives`
(`TasksInsideFrames`), `ErrorsReachTheCaller` (`ErrorsSurface`), and `AppliedOnce`: no
element is passed to the function twice, and every element was when the algorithm
returns. They follow from `IInv`. A frame is named by its range, so that all four
need to know that ranges do not collide:

* `Tree`: the ranges of calls and tasks are in one another or apart (`Laminar`); a
  call has its range, or both parts of it (`Shapes`); what is inside the range of
  a call, and can still do something, is in the part it has not joined
  (`Nested`); and a task that is still held has the call that spawned it in
  progress (`Covered`), which is `TasksInsideFrames`;
* `Stacks`: a stack holds each call once, and a call of the recursion is above its
  caller, so that a return resumes the call that made it although a worker that waits
  runs calls of other branches on top;
* `Errors`: what has thrown is in a call, in a task its call has yet to join, or in
  the answer;
* `Fresh`, `Due`: an element no call has reached was not applied, and, unless
  something has thrown, an element that was not applied is ahead of a call or in a
  queued task;
* `Ended`: with the outermost call everything is gone.

The parts of `IInv` are operators on any calls, tasks and stacks. The lemmas about
them (`...Tree`, `...Keeps`, `...Errors`, `...Fresh`, `...Due`) are about what can be
done to those: spawning, running, recursing, returning, ending, canceling, releasing.
`Spawn` on the inline scheduler is spawning and then running, with no state of the
model between.

Last about the values, with a second invariant, `VInv`, on top of the first (TLC
checked it before it was proved): `ResultIsInOrder` (`ResultInOrder`) and
`ChunksPerThread` (`ChunkPerThread`), for the same pools, ranges and exceptions.

* `Spells`: a value is that of its range: it begins with the initial value and has
  each element once, in order. A part's value is joined on the right of what is on
  its left, so that order is kept only because `Tree` says which parts adjoin;
* `Worth`: a value has as many chunks as its range is to have. With
  `static_partitioner` this is `StaticChunks` of the length. With `auto_partitioner`
  (`Allowed`) it is at most the threads the range was given, and (processors - 1) more
  for each task inside the range that moved; with a grain of 1 at least those threads, or the
  length;
* `Entitled`, `Effective`, `Divided`, `Unsplit`: the threads a range was given, by
  the caller, by the task or by the whole; that a task which moved goes by all
  processors instead; and how a split shares them and the length out, the larger
  share to the left with the larger half. The lower bound on the chunks needs both
  halves to be rounded in the same direction;
* `Splitters` (`LastSplit`): the test of `auto_partitioner`, whether this thread split
  the range last, is true of exactly the calls whose task did not move. Stacks come in
  here: a worker that waits may run tasks of its own call, and these did not move.

`StaticChunks` is a recursive function, and that it is what its equation says
(`Follows`) is shown by the least number for which it would not be (`LeastNumber`):
`WFMin` and `NatLessThanWellFounded` take no operator parameter, as induction
would. `ResultInOrder` states the order by indices, not by a fold or a filter of the
value, which no prover here expands.

Only model-checked is liveness, which needs fairness, and with it the fairness part
of the refinements: `EveryTaskLeaves`, `StealReturns`, `EveryContinuationRuns`,
`PoolStops`, `EveryTaskEnds`, `EventSets`, `AlgorithmEnds`, `FinishedEndsWait`,
`EveryTaskSettles`, `EndsOrLockCycle`.

Every invariant that a run checks and expects to hold is a theorem too.

## 5. Not modelled, and why

Weak memory: all modules are sequentially consistent; the queue relies on
fences the paper cited in its header proves sufficient. The singleton
(`singleton.h`) is a static local variable, or double-checked initialisation that
is right or wrong by its memory order alone. The build with
`BROKEN_JOIN_IN_DESTRUCTOR`, the Windows exit path and thread-local storage are
platform matters. A pool of 0 threads, which the constructor does not refuse, is
outside the model (`NumThreads` is positive). The thread scheduler makes a detached thread for
each task and has no state. Values, their types and their copying are abstracted.
What happens after undefined behaviour is not followed further than its first step: a
second destructor of the state of `when_all` (`WhenAllAny`), and a push from a
continuation of a task that `~fifo_queue` cancels, which would lock a mutex that is
destroyed before the queue (`scheduler.cpp:195-198`). `Destroy` of
`ContinuationVector` finds the vector flushed: an unfinished task with continuations is
not destroyed, as each of them has a reference to it. In `ParallelAlgorithms` a worker
that waits may take one more task although the one it waits for has finished, as
it may if that happens between its test and its look at the queues. Iterators (`range.h`)
only forward. The cancellation token is one flag. Allocation, traits and the
example have no protocol.

## 6. Plan

Done, in this order: the queue and its proofs, the continuation vector, the
pool, the locks, tasks, combinators, the event, the ring; then events that the
program sets, shared and ready-made tasks, waits below one another in the pool,
the partitioners and their proofs, the parallel algorithms.

Then the proofs: the queue, the partitioners, the event, the combinators, the
continuation vector with the pool's lock, the ring, the pool, tasks, the parallel
algorithms and their values.

What is left to prove is liveness, which no backend of TLAPS here reaches.
