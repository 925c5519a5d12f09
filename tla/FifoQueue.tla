------------------------------ MODULE FifoQueue ------------------------------
(***************************************************************************)
(* src/src/fifo_queue.h: the ring buffer behind the public queue of a      *)
(* thread pool and behind fifo_scheduler (src/src/scheduler.cpp), whose    *)
(* lock makes push() and pop() single steps.  Indices are reduced with     *)
(* `& (size - 1)`, the remainder for the power of two a size always is.    *)
(* One slot stays free, so that head = tail means empty.                   *)
(*                                                                         *)
(* A task is its push number.  out is the sequence of tasks that left, in  *)
(* order, to be run or cancelled; done are those that were run or          *)
(* cancelled.  Each runner calls run_all_tasks() again and again.          *)
(***************************************************************************)
EXTENDS Integers, Sequences

CONSTANTS InitSize,    \* slots of the first array (32 in the code)
          MaxPush,     \* bound: number of calls of push()
          Runners      \* threads that call try_run_one_task()

ASSUME FifoAssumption ==
    /\ InitSize \in {2, 4, 8, 16, 32}
    /\ MaxPush \in Nat

None == 0
Tasks == 1..MaxPush

VARIABLES
    items, size,   \* the array and its number of slots
    head, tail,
    npush,         \* calls of push() so far
    refused,       \* tasks whose push() threw
    out, done,
    running,       \* the task each runner is running, or None
    closed         \* the queue was destroyed

ring == <<items, size, head, tail>>
vars == <<ring, npush, refused, out, done, running, closed>>

Init ==
    /\ size = InitSize
    /\ items = [s \in 0..(InitSize - 1) |-> None]
    /\ head = 0 /\ tail = 0
    /\ npush = 0 /\ refused = {}
    /\ out = <<>> /\ done = {}
    /\ running = [r \in Runners |-> None]
    /\ closed = FALSE

-----------------------------------------------------------------------------
(* The ring. *)

Succ(i) == (i + 1) % size

Full == head = Succ(tail)

Length == (tail - head) % size

\* The tasks in the queue, the oldest first.
Queued == [i \in 1..Length |-> items[(head + i - 1) % size]]

\* Faulty variant: the array is copied slot by slot, from slot 0.
DoubledFromZero ==
    [s \in 0..(2 * size - 1) |-> IF s < size THEN items[s] ELSE None]

\* The copy starts at head, and takes the free slot with it.
Doubled ==
    [s \in 0..(2 * size - 1) |->
        IF s < size THEN items[(s + head) % size] ELSE None]

-----------------------------------------------------------------------------
(* push(), called with the lock held. *)

Grow(t) ==
    /\ Full
    /\ head' = 0 /\ tail' = size
    /\ items' = [Doubled EXCEPT ![size - 1] = t]
    /\ size' = 2 * size

Store(t) ==
    /\ ~ Full
    /\ items' = [items EXCEPT ![tail] = t]
    /\ tail' = Succ(tail)
    /\ UNCHANGED <<size, head>>

Push ==
    /\ ~ closed /\ npush < MaxPush
    /\ npush' = npush + 1
    /\ Grow(npush') \/ Store(npush')
    /\ UNCHANGED <<refused, out, done, running, closed>>

\* No memory for the larger array: the exception destroys the handle, which
\* cancels the task, and leaves the queue as it was.
PushThrows ==
    /\ ~ closed /\ npush < MaxPush /\ Full
    /\ npush' = npush + 1
    /\ refused' = refused \union {npush'}
    /\ done' = done \union {npush'}
    /\ UNCHANGED <<ring, out, running, closed>>

(* try_run_one_task(): pop() with the lock held, and the task without it.  A
   runner whose pop() finds the queue empty changes nothing. *)

Take(r) ==
    /\ ~ closed /\ running[r] = None
    /\ head # tail
    /\ running' = [running EXCEPT ![r] = items[head]]
    /\ out' = Append(out, items[head])
    /\ head' = Succ(head)
    /\ UNCHANGED <<items, size, tail, npush, refused, done, closed>>

Finish(r) ==
    /\ running[r] # None
    /\ done' = done \union {running[r]}
    /\ running' = [running EXCEPT ![r] = None]
    /\ UNCHANGED <<ring, npush, refused, out, closed>>

\* Faulty variant: the destructor leaves the tasks alone.
DestroyLeaks ==
    /\ ~ closed /\ \A r \in Runners : running[r] = None
    /\ closed' = TRUE
    /\ UNCHANGED <<ring, npush, refused, out, done, running>>

\* The destructor cancels what was never run.  Nobody may be using the queue, not
\* even a continuation of a task that is cancelled: schedule() would lock a mutex
\* that is destroyed before the queue (scheduler.cpp:195-198).
Destroy ==
    /\ ~ closed /\ \A r \in Runners : running[r] = None
    /\ out' = out \o Queued
    /\ done' = done \union {Queued[i] : i \in DOMAIN Queued}
    /\ closed' = TRUE
    /\ UNCHANGED <<ring, npush, refused, running>>

Next ==
    \/ Push \/ PushThrows \/ Destroy
    \/ \E r \in Runners : Take(r) \/ Finish(r)

Spec == Init /\ [][Next]_vars

-----------------------------------------------------------------------------
(* Properties. *)

\* Only then is `& (n - 1)` the remainder: n has no odd divisor.
PowerOfTwo(n) == n \in Nat \ {0} /\ \A d \in 1..n : n % d = 0 /\ d % 2 = 1 => d = 1

TypeOK ==
    /\ PowerOfTwo(size) /\ size >= 2
    /\ items \in [0..(size - 1) -> Tasks \union {None}]
    /\ head \in 0..(size - 1) /\ tail \in 0..(size - 1)
    /\ npush \in 0..MaxPush
    /\ refused \subseteq 1..npush /\ done \subseteq 1..npush
    /\ out \in Seq(1..npush)
    /\ running \in [Runners -> Tasks \union {None}]
    /\ closed \in BOOLEAN

\* The tasks that left and then the tasks in the ring are the accepted pushes
\* in their order: no wrap and no growth loses, repeats or reorders a task.
FifoOrder ==
    LET order == out \o (IF closed THEN <<>> ELSE Queued)
    IN  /\ \A i, j \in 1..Len(order) : i < j => order[i] < order[j]
        /\ {order[i] : i \in 1..Len(order)} = (1..npush) \ refused

-----------------------------------------------------------------------------
(* Fairness: each runner calls run_all_tasks() again and again, and tasks
   return. *)

FairSpec ==
    /\ Spec
    /\ \A r \in Runners : WF_vars(Take(r)) /\ WF_vars(Finish(r))

\* A task given to the scheduler is run or cancelled, also when the scheduler is
\* destroyed before its turn.
EveryTaskSettles == \A t \in Tasks : npush >= t ~> t \in done
=============================================================================
