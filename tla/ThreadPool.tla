----------------------------- MODULE ThreadPool -----------------------------
(***************************************************************************)
(* src/src/threadpool_scheduler.cpp with the task_wait_event of            *)
(* src/src/task_wait_event.h: worker threads that run tasks, steal from    *)
(* each other, sleep when they find nothing and, inside a task that waits  *)
(* for another one, run whatever they find on top of the waiting task.     *)
(*                                                                         *)
(* A worker is a stack of frames, as in the program: a call of             *)
(* thread_task_loop (with the task it waits for, or None for the worker's  *)
(* main loop), and a task being run.  Critical sections of impl->lock are  *)
(* single actions except the one that ends in going to sleep, which is     *)
(* visible to the unlocked test of num_waiters.  The work-stealing queues  *)
(* are the abstract deques WorkStealQueue implements, and a task's         *)
(* continuations are those of ContinuationVector.                          *)
(*                                                                         *)
(* The user program is a constant: what each task does, and what the       *)
(* thread that owns the pool does before it destroys it.                   *)
(***************************************************************************)
EXTENDS Integers, Sequences, FiniteSets

CONSTANTS
    NumThreads,    \* threads of the pool
    Tasks, None,   \* the tasks; None is the empty task_wait_handle
    Script,        \* for each task, the operations it performs
    MainScript     \* the operations of the thread that owns the pool

Ops == [op : {"spawn", "wait"}, task : Tasks]

ASSUME PoolAssumption ==
    /\ NumThreads \in Nat \ {0}
    /\ IsFiniteSet(Tasks) /\ None \notin Tasks
    /\ Script \in [Tasks -> Seq(Ops)]
    /\ MainScript \in Seq(Ops)

Workers == 0..(NumThreads - 1)
Main == NumThreads                  \* the thread that owns the pool
Threads == Workers \union {Main}
Free == -1                          \* nobody holds impl->lock

\* A wait event lives in a stack frame: the thread and the depth of the frame.
MaxDepth == 2 * Cardinality(Tasks) + 1
Events == Threads \X (1..MaxDepth)

VARIABLES
    stack,      \* the frames of each worker, innermost last
    deque,      \* thread_data[w].queue
    public,     \* public_queue
    waiters,    \* waiters[0 .. num_waiters)
    lock,       \* holder of impl->lock
    shutdown,
    pending,    \* event_mask of the wait events: <<event, kind>> pairs
    tstate,     \* task state: "finished" once the result is stored, "flushed"
                \* once the continuations are locked
    conts,      \* events a task's continuations will signal
    range,      \* size of the thread range each worker still has to start
    handle,     \* thread_data[w].handle was assigned
    mpc, mip    \* where the owning thread is, its position in MainScript

queues == <<deque, public>>
sleepers == <<waiters, lock, pending>>
tasks == <<tstate, conts>>
threads == <<range, handle>>
main == <<mpc, mip>>
vars == <<stack, queues, sleepers, shutdown, tasks, threads, main>>

-----------------------------------------------------------------------------
(* Frames. *)

Frame(k, t) == [kind |-> k, task |-> t, pc |-> IF k = "loop" THEN "check" ELSE "op",
                ip |-> 1, added |-> FALSE, left |-> {}, fin |-> FALSE]

Depth(w) == Len(stack[w])
Top(w) == stack[w][Depth(w)]
Event(w) == <<w, Depth(w)>>
At(w, k, p) == stack[w] # <<>> /\ Top(w).kind = k /\ Top(w).pc = p

\* The innermost frame becomes f.
Set(w, f) == stack' = [stack EXCEPT ![w] = [stack[w] EXCEPT ![Depth(w)] = f]]
Go(w, p) == Set(w, [Top(w) EXCEPT !.pc = p])
GoSteal(w) == Set(w, [Top(w) EXCEPT !.pc = "steal", !.left = Workers \ {w}, !.fin = FALSE])

\* The loop runs t, and starts over at its first test afterwards.
Call(w, t) ==
    /\ stack' = [stack EXCEPT ![w] =
                   Append([stack[w] EXCEPT
                             ![Depth(w)] = [Top(w) EXCEPT !.pc = "check", !.left = {}]],
                          Frame("run", t))]
    /\ tstate' = [tstate EXCEPT ![t] = "running"]
    /\ UNCHANGED conts

\* thread_task_loop returns: the task below it goes on after its wait().
Return(w) ==
    LET below == SubSeq(stack[w], 1, Depth(w) - 1)
    IN  stack' = [stack EXCEPT ![w] =
                    IF below = <<>> THEN <<>> ELSE [below EXCEPT ![Len(below)].ip = @ + 1]]

\* task_wait_event: the pending events of e, and signal().
Mask(e) == {k \in {"finished", "available"} : <<e, k>> \in pending}
Clear(e) == pending' = {p \in pending : p[1] # e}
Signal(e, kind) == pending' = pending \union {<<e, kind>>}

\* Wakes the sleeper registered last, if there is one.
WakeOne ==
    IF waiters = <<>> THEN UNCHANGED <<waiters, pending>>
    ELSE /\ Signal(waiters[Len(waiters)], "available")
         /\ waiters' = SubSeq(waiters, 1, Len(waiters) - 1)

\* on_finish(): the continuation signals e.  It runs at once when the task has
\* finished; while the result is stored but the continuations not yet locked,
\* it may still be added.
OnFinish(t, e) ==
    \/ /\ tstate[t] # "flushed"
       /\ conts' = [conts EXCEPT ![t] = @ \union {e}]
       /\ UNCHANGED pending
    \/ /\ tstate[t] \in {"finished", "flushed"}
       /\ Signal(e, "finished")
       /\ UNCHANGED conts

Ready(t) == tstate[t] \in {"finished", "flushed"}

-----------------------------------------------------------------------------
Init ==
    /\ stack = [w \in Workers |-> <<>>]
    /\ deque = [w \in Workers |-> <<>>]
    /\ public = <<>>
    /\ waiters = <<>> /\ lock = Free /\ shutdown = FALSE
    /\ pending = {}
    /\ tstate = [t \in Tasks |-> "new"]
    /\ conts = [t \in Tasks |-> {}]
    /\ range = [w \in Workers |-> IF w = 0 THEN NumThreads ELSE 0]
    /\ handle = [w \in Workers |-> w = 0]
    /\ mpc = "op" /\ mip = 1

-----------------------------------------------------------------------------
(* Starting the threads: recursive_spawn_worker_thread, worker_thread. *)

\* The thread that takes the upper half of w's range.
Half(w) == range[w] \div 2
Child(w) == w + Half(w)

\* It may run before its handle is stored.
StartThread(w) ==
    /\ range[w] > 1 /\ range[Child(w)] = 0
    /\ range' = [range EXCEPT ![Child(w)] = range[w] - Half(w)]
    /\ UNCHANGED <<stack, queues, sleepers, shutdown, tasks, handle, main>>

AssignHandle(w) ==
    /\ range[w] > 1 /\ range[Child(w)] # 0
    /\ handle' = [handle EXCEPT ![Child(w)] = TRUE]
    /\ range' = [range EXCEPT ![w] = Half(w)]
    /\ UNCHANGED <<stack, queues, sleepers, shutdown, tasks, main>>

EnterMainLoop(w) ==
    /\ range[w] = 1
    /\ range' = [range EXCEPT ![w] = -1]
    /\ stack' = [stack EXCEPT ![w] = <<Frame("loop", None)>>]
    /\ UNCHANGED <<queues, sleepers, shutdown, tasks, handle, main>>

Exited(w) == range[w] = -1 /\ stack[w] = <<>>

-----------------------------------------------------------------------------
(* thread_task_loop. *)

\* Faulty variant: the task's state counts even when a continuation will still
\* signal the event.
LoopCheckReady(w) ==
    /\ At(w, "loop", "check")
    /\ IF Top(w).task # None /\ Ready(Top(w).task) THEN Return(w) ELSE Go(w, "pop")
    /\ UNCHANGED <<queues, sleepers, shutdown, tasks, threads, main>>

\* Has the awaited task finished?  Once a continuation was added only its
\* signal counts.
LoopCheck(w) ==
    /\ At(w, "loop", "check")
    /\ LET f == Top(w)
           done == /\ f.task # None
                   /\ IF f.added THEN "finished" \in Mask(Event(w)) ELSE Ready(f.task)
       IN  /\ IF done THEN Return(w) ELSE Go(w, "pop")
           /\ pending' = IF f.added THEN pending \ {<<Event(w), "finished">>} ELSE pending
    /\ UNCHANGED <<queues, waiters, lock, shutdown, tasks, threads, main>>

LoopPop(w) ==
    /\ At(w, "loop", "pop")
    /\ IF deque[w] # <<>>
       THEN /\ Call(w, deque[w][Len(deque[w])])
            /\ deque' = [deque EXCEPT ![w] = SubSeq(@, 1, Len(@) - 1)]
       ELSE /\ GoSteal(w)
            /\ UNCHANGED <<deque, tasks>>
    /\ UNCHANGED <<public, sleepers, shutdown, threads, main>>

\* steal_task: one victim after the other, in any order.
LoopSteal(w) ==
    /\ At(w, "loop", "steal")
    /\ \E v \in Top(w).left :
          /\ deque[v] # <<>>
          /\ Call(w, Head(deque[v]))
          /\ deque' = [deque EXCEPT ![v] = Tail(@)]
    /\ UNCHANGED <<public, sleepers, shutdown, threads, main>>

\* A victim with nothing to steal, or whose only task its owner is popping.
LoopStealMisses(w) ==
    /\ At(w, "loop", "steal")
    /\ \E v \in Top(w).left :
          /\ deque[v] = <<>> \/ (Len(deque[v]) = 1 /\ At(v, "loop", "pop"))
          /\ Set(w, [Top(w) EXCEPT !.left = @ \ {v}])
    /\ UNCHANGED <<queues, sleepers, shutdown, tasks, threads, main>>

\* Faulty variants of the critical section: a worker leaves or goes to sleep
\* without looking at the public queue.
LoopExitAtOnce(w) ==
    /\ At(w, "loop", "steal") /\ Top(w).left = {} /\ lock = Free
    /\ Top(w).task = None /\ shutdown
    /\ Return(w)
    /\ UNCHANGED <<queues, sleepers, shutdown, tasks, threads, main>>
LoopPrepareAtOnce(w) ==
    /\ At(w, "loop", "steal") /\ Top(w).left = {} /\ lock = Free
    /\ Top(w).task # None \/ ~ shutdown
    /\ lock' = w
    /\ IF Top(w).task # None /\ ~ Top(w).added
       THEN OnFinish(Top(w).task, Event(w))
       ELSE UNCHANGED <<conts, pending>>
    /\ Set(w, [Top(w) EXCEPT !.pc = "append", !.added = Top(w).task # None])
    /\ UNCHANGED <<queues, waiters, shutdown, tstate, threads, main>>

\* Under the lock: take a public task, leave when shutting down, or prepare to
\* sleep.
LoopPublic(w) ==
    /\ At(w, "loop", "steal") /\ Top(w).left = {} /\ lock = Free
    /\ public # <<>>
    /\ Call(w, Head(public))
    /\ public' = Tail(public)
    /\ UNCHANGED <<deque, sleepers, shutdown, threads, main>>

LoopExit(w) ==
    /\ At(w, "loop", "steal") /\ Top(w).left = {} /\ lock = Free
    /\ public = <<>>
    /\ Top(w).task = None /\ shutdown
    /\ Return(w)
    /\ UNCHANGED <<queues, sleepers, shutdown, tasks, threads, main>>

LoopPrepare(w) ==
    /\ At(w, "loop", "steal") /\ Top(w).left = {} /\ lock = Free
    /\ public = <<>>
    /\ Top(w).task # None \/ ~ shutdown
    /\ lock' = w
    /\ IF Top(w).task # None /\ ~ Top(w).added
       THEN OnFinish(Top(w).task, Event(w))
       ELSE UNCHANGED <<conts, pending>>
    /\ Set(w, [Top(w) EXCEPT !.pc = "append", !.added = Top(w).task # None])
    /\ UNCHANGED <<queues, waiters, shutdown, tstate, threads, main>>

LoopAppend(w) ==
    /\ At(w, "loop", "append")
    /\ waiters' = Append(waiters, Event(w))
    /\ lock' = Free
    /\ Go(w, "sleep")
    /\ UNCHANGED <<queues, pending, shutdown, tasks, threads, main>>

\* event.wait() returns the pending events and clears them.
LoopWake(w) ==
    /\ At(w, "loop", "sleep") /\ Mask(Event(w)) # {}
    /\ Set(w, [Top(w) EXCEPT !.pc = "relock", !.fin = "finished" \in Mask(Event(w))])
    /\ Clear(Event(w))
    /\ UNCHANGED <<queues, waiters, lock, shutdown, tasks, threads, main>>

\* Faulty variant: the event stays in the list.
RemoveNothing(s, e) == s

\* Position of an event in the list; the last one fills the gap it leaves.
Remove(s, e) ==
    IF \E i \in 1..Len(s) : s[i] = e
    THEN LET i == CHOOSE i \in 1..Len(s) :
                     s[i] = e /\ \A j \in 1..Len(s) : s[j] = e => i <= j
         IN  SubSeq([s EXCEPT ![i] = s[Len(s)]], 1, Len(s) - 1)
    ELSE s

\* Faulty variant: every wake-up ends the wait.
LoopRelockReturns(w) ==
    /\ At(w, "loop", "relock") /\ lock = Free
    /\ waiters' = Remove(waiters, Event(w))
    /\ IF Top(w).task # None THEN Return(w) ELSE GoSteal(w)
    /\ UNCHANGED <<queues, lock, pending, shutdown, tasks, threads, main>>

LoopRelock(w) ==
    /\ At(w, "loop", "relock") /\ lock = Free
    /\ waiters' = Remove(waiters, Event(w))
    /\ IF Top(w).task # None /\ Top(w).fin THEN Return(w) ELSE GoSteal(w)
    /\ UNCHANGED <<queues, lock, pending, shutdown, tasks, threads, main>>

LoopStep(w) ==
    \/ LoopCheck(w) \/ LoopPop(w) \/ LoopSteal(w) \/ LoopStealMisses(w)
    \/ LoopPublic(w) \/ LoopExit(w) \/ LoopPrepare(w) \/ LoopAppend(w)
    \/ LoopWake(w) \/ LoopRelock(w)

-----------------------------------------------------------------------------
(* A task running on a worker. *)

NextOp(w) == Script[Top(w).task][Top(w).ip]
HasOp(w, k) == /\ At(w, "run", "op")
               /\ Top(w).ip <= Len(Script[Top(w).task])
               /\ NextOp(w).op = k

\* schedule() from inside the pool: push on the worker's own queue ...
RunSpawn(w) ==
    /\ HasOp(w, "spawn")
    /\ tstate[NextOp(w).task] = "new"
    /\ deque' = [deque EXCEPT ![w] = Append(@, NextOp(w).task)]
    /\ tstate' = [tstate EXCEPT ![NextOp(w).task] = "queued"]
    /\ Go(w, "test")
    /\ UNCHANGED <<public, sleepers, shutdown, conts, threads, main>>

Advance(w) == Set(w, [Top(w) EXCEPT !.pc = "op", !.ip = @ + 1])

\* ... look at num_waiters without the lock ...
RunTestWaiters(w) ==
    /\ At(w, "run", "test")
    /\ IF waiters = <<>> THEN Advance(w) ELSE Go(w, "wake")
    /\ UNCHANGED <<queues, sleepers, shutdown, tasks, threads, main>>

\* ... and wake a sleeper, if there still is one.
RunWake(w) ==
    /\ At(w, "run", "wake") /\ lock = Free
    /\ WakeOne
    /\ Advance(w)
    /\ UNCHANGED <<queues, lock, shutdown, tasks, threads, main>>

\* wait() enters the wait handler unless the task is ready.
RunWait(w) ==
    /\ HasOp(w, "wait")
    /\ IF Ready(NextOp(w).task)
       THEN /\ Advance(w)
            /\ UNCHANGED pending
       ELSE /\ stack' = [stack EXCEPT ![w] = Append(@, Frame("loop", NextOp(w).task))]
            /\ Clear(<<w, Depth(w) + 1>>)
    /\ UNCHANGED <<queues, waiters, lock, shutdown, tasks, threads, main>>

\* The function returned: store the result, ...
RunFinish(w) ==
    /\ At(w, "run", "op")
    /\ Top(w).ip > Len(Script[Top(w).task])
    /\ tstate' = [tstate EXCEPT ![Top(w).task] = "finished"]
    /\ Go(w, "flush")
    /\ UNCHANGED <<queues, sleepers, shutdown, conts, threads, main>>

\* ... signal the waiters of the task one by one, ...
RunFlush(w) ==
    /\ At(w, "run", "flush")
    /\ \E e \in conts[Top(w).task] :
          /\ Signal(e, "finished")
          /\ conts' = [conts EXCEPT ![Top(w).task] = @ \ {e}]
    /\ UNCHANGED <<stack, queues, waiters, lock, shutdown, tstate, threads, main>>

\* ... and return to the loop that ran it.
RunReturn(w) ==
    /\ At(w, "run", "flush")
    /\ conts[Top(w).task] = {}
    /\ tstate' = [tstate EXCEPT ![Top(w).task] = "flushed"]
    /\ stack' = [stack EXCEPT ![w] = SubSeq(@, 1, Len(@) - 1)]
    /\ UNCHANGED <<queues, sleepers, shutdown, conts, threads, main>>

RunStep(w) ==
    \/ RunSpawn(w) \/ RunTestWaiters(w) \/ RunWake(w) \/ RunWait(w)
    \/ RunFinish(w) \/ RunFlush(w) \/ RunReturn(w)

-----------------------------------------------------------------------------
(* The thread that owns the pool. *)

MainOp(k) == /\ mpc = "op" /\ mip <= Len(MainScript) /\ MainScript[mip].op = k
MainTask == MainScript[mip].task
MainEvent == <<Main, 1>>

\* schedule() from outside the pool.
MainSpawn ==
    /\ MainOp("spawn") /\ lock = Free
    /\ tstate[MainTask] = "new"
    /\ public' = Append(public, MainTask)
    /\ tstate' = [tstate EXCEPT ![MainTask] = "queued"]
    /\ WakeOne
    /\ mip' = mip + 1
    /\ UNCHANGED <<stack, deque, lock, shutdown, conts, threads, mpc>>

\* generic_wait_handler (src/src/scheduler.cpp): add a continuation and sleep.
MainWait ==
    /\ MainOp("wait")
    /\ IF Ready(MainTask)
       THEN /\ mip' = mip + 1
            /\ UNCHANGED <<pending, conts, mpc>>
       ELSE /\ OnFinish(MainTask, MainEvent)
            /\ mpc' = "sleep"
            /\ UNCHANGED mip
    /\ UNCHANGED <<stack, queues, waiters, lock, shutdown, tstate, threads>>

MainWake ==
    /\ mpc = "sleep" /\ Mask(MainEvent) # {}
    /\ Clear(MainEvent)
    /\ mpc' = "op" /\ mip' = mip + 1
    /\ UNCHANGED <<stack, queues, waiters, lock, shutdown, tasks, threads>>

\* Faulty variant: shutdown is set and nobody is told.
MainShutdownSilent ==
    /\ mpc = "op" /\ mip > Len(MainScript) /\ lock = Free
    /\ shutdown' = TRUE
    /\ mpc' = "join" /\ mip' = 0
    /\ UNCHANGED <<stack, queues, sleepers, lock, tasks, threads>>

\* The destructor tells every sleeper, ...
MainShutdown ==
    /\ mpc = "op" /\ mip > Len(MainScript) /\ lock = Free
    /\ shutdown' = TRUE
    /\ pending' = pending \union {<<waiters[i], "available">> : i \in 1..Len(waiters)}
    /\ waiters' = <<>>
    /\ mpc' = "join" /\ mip' = 0
    /\ UNCHANGED <<stack, queues, lock, tasks, threads>>

\* ... and joins the threads in order.
MainJoin ==
    /\ mpc = "join" /\ mip < NumThreads
    /\ Exited(mip)
    /\ mip' = mip + 1
    /\ mpc' = IF mip + 1 = NumThreads THEN "done" ELSE "join"
    /\ UNCHANGED <<stack, queues, sleepers, shutdown, tasks, threads>>

MainStep == MainSpawn \/ MainWait \/ MainWake \/ MainShutdown \/ MainJoin

WorkerStep(w) == StartThread(w) \/ AssignHandle(w) \/ EnterMainLoop(w) \/ LoopStep(w) \/ RunStep(w)

Next == MainStep \/ \E w \in Workers : WorkerStep(w)

Spec == Init /\ [][Next]_vars

-----------------------------------------------------------------------------
(* Properties. *)

FrameSet == [kind : {"loop", "run"}, task : Tasks \union {None},
             pc : {"check", "pop", "steal", "append", "sleep", "relock",
                   "op", "test", "wake", "flush"},
             ip : Nat, added : BOOLEAN, left : SUBSET Workers, fin : BOOLEAN]

\* Every variable has its type, and the list of sleepers fits its array.
TypeOK ==
    /\ stack \in [Workers -> Seq(FrameSet)]
    /\ deque \in [Workers -> Seq(Tasks)] /\ public \in Seq(Tasks)
    /\ waiters \in Seq(Events) /\ Len(waiters) <= NumThreads
    /\ lock \in Workers \union {Free} /\ shutdown \in BOOLEAN
    /\ pending \subseteq Events \X {"finished", "available"}
    /\ tstate \in [Tasks -> {"new", "queued", "running", "finished", "flushed"}]
    /\ conts \in [Tasks -> SUBSET Events]
    /\ range \in [Workers -> -1..NumThreads] /\ handle \in [Workers -> BOOLEAN]
    /\ mpc \in {"op", "sleep", "join", "done"} /\ mip \in Nat

\* A wait event that another thread may still signal is in a live frame: its
\* loop has not returned, so no signal reaches a destroyed event.  The list of
\* sleepers names each worker at most once, so it never outgrows its array of
\* NumThreads entries.
LiveEvent(e) ==
    IF e[1] = Main THEN mpc = "sleep"
    ELSE /\ e[2] <= Depth(e[1])
         /\ stack[e[1]][e[2]].kind = "loop"

NoDanglingEvent ==
    /\ \A i \in 1..Len(waiters) :
          /\ LiveEvent(waiters[i])
          /\ At(waiters[i][1], "loop", "sleep") \/ At(waiters[i][1], "loop", "relock")
    /\ \A i, j \in 1..Len(waiters) : waiters[i][1] = waiters[j][1] => i = j
    /\ \A t \in Tasks : \A e \in conts[t] : LiveEvent(e)

\* Workers never all sleep while there is something to run: the unlocked test
\* of num_waiters and a wake-up that reaches a worker which leaves its loop
\* lose no task.
Asleep(w) == At(w, "loop", "sleep") /\ Mask(Event(w)) = {}

NoLostWakeup ==
    (\A w \in Workers : Asleep(w)) =>
        public = <<>> /\ \A w \in Workers : deque[w] = <<>>

\* The wait handler returns only when the awaited task has finished, and
\* nobody signals its event any more.
WaitMeansFinished ==
    [][ \A w \in Workers :
          Len(stack'[w]) < Depth(w) /\ Top(w).kind = "loop" /\ Top(w).task # None
            => /\ Ready(Top(w).task)
               /\ \A t \in Tasks : Event(w) \notin conts'[t]
               /\ \A i \in 1..Len(waiters') : waiters'[i] # Event(w) ]_vars

\* The destructor joins only threads whose handle was assigned (each thread is
\* started by a thread of smaller index), and when it returns every task that
\* was scheduled has run: no worker leaves while work remains.
DestructorDrains ==
    /\ mpc = "join" => handle[mip]
    /\ mpc = "done" =>
          /\ public = <<>> /\ \A w \in Workers : Exited(w) /\ deque[w] = <<>>
          /\ waiters = <<>> /\ lock = Free
          /\ \A t \in Tasks : tstate[t] \in {"new", "flushed"}

-----------------------------------------------------------------------------
(* Fairness: the operating system runs every thread that can run. *)

FairSpec == /\ Spec
            /\ WF_vars(MainStep)
            /\ \A w \in Workers : WF_vars(WorkerStep(w))

\* A worker that waits has taken a task that waits for one below it on the same
\* stack.  Neither can go on, whatever happens to the task waited for first.
Buried(w) ==
    \E i, j \in 1..Depth(w) :
        /\ i < j /\ stack[w][i].kind = "run" /\ stack[w][j].kind = "loop"
        /\ stack[w][i].task = stack[w][j].task

\* Every run of the program comes to its end: the wait of the owning thread
\* returns, so do the waits of the tasks, and the destructor joins all threads.
\* The one thing that can stop it is a task buried under a wait for itself.
PoolStops == <>(mpc = "done" \/ \E w \in Workers : Buried(w))
=============================================================================
