------------------------------ MODULE PoolLocks ------------------------------
(***************************************************************************)
(* Two locks of the library that meet: the mutex of a continuation vector  *)
(* (continuation_vector.h) and the lock of a thread pool.                  *)
(* thread_task_loop calls on_finish() with impl->lock held, which may take *)
(* the mutex; flush_and_lock() schedules each continuation with the mutex  *)
(* held, and schedule() may take impl->lock.                               *)
(*                                                                         *)
(* One task is waited for by several workers of a pool, has other          *)
(* continuations that are scheduled on the same pool, and is finished by a *)
(* worker of it.  The vector is ContinuationVector, step for step.         *)
(***************************************************************************)
EXTENDS ContinuationVector

CONSTANT Waiters      \* the continuations that wait handlers attach, and the
                      \* workers that run these handlers

ASSUME WaitersAssumption == Waiters \subseteq Conts

Free == None          \* nobody holds impl->lock

VARIABLES
    lock,        \* holder of impl->lock between two steps
    sleepers,    \* workers in impl->waiters
    wpc,         \* where each waiting worker is in thread_task_loop
    spc          \* where the finishing worker is in schedule()

pool == <<lock, sleepers, wpc, spc>>
allVars == <<vars, pool>>

PoolInit ==
    /\ Init
    /\ lock = Free /\ sleepers = {}
    /\ wpc = [w \in Waiters |-> "awake"] /\ spc = "idle"

Loop(w, p) == wpc' = [wpc EXCEPT ![w] = p]

\* The continuation of a wait handler has signalled the event of its worker.
Signalled(w) == runs[w] = 1

-----------------------------------------------------------------------------
(* thread_task_loop of a worker that waits for the task. *)

\* Nothing to run: keep the lock, to attach the continuation and to sleep.
GiveUp(w) ==
    /\ wpc[w] = "awake" /\ lock = Free
    /\ lock' = w
    /\ Loop(w, "locked")
    /\ UNCHANGED <<vars, sleepers, spc>>

\* on_finish(), in the critical section, the first time.
Attach(w) ==
    /\ wpc[w] = "locked"
    /\ AddStep(w)
    /\ UNCHANGED pool

\* Faulty variant: the worker sleeps without unlocking.
SleepLocked(w) ==
    /\ wpc[w] = "locked" /\ pc[w] \in {"added", "ran"}
    /\ sleepers' = sleepers \union {w}
    /\ Loop(w, "asleep")
    /\ UNCHANGED <<vars, lock, spc>>

Sleep(w) ==
    /\ wpc[w] = "locked" /\ pc[w] \in {"added", "ran"}
    /\ sleepers' = sleepers \union {w}
    /\ lock' = Free
    /\ Loop(w, "asleep")
    /\ UNCHANGED <<vars, spc>>

\* Faulty variant: every wake-up ends the wait.
WakeReturns(w) ==
    /\ wpc[w] = "asleep" /\ lock = Free
    /\ Signalled(w) \/ w \notin sleepers
    /\ sleepers' = sleepers \ {w}
    /\ Loop(w, "returned")
    /\ UNCHANGED <<vars, lock, spc>>

\* The event was signalled, by the continuation or by schedule(), which took
\* the worker off the list.
Wake(w) ==
    /\ wpc[w] = "asleep" /\ lock = Free
    /\ Signalled(w) \/ w \notin sleepers
    /\ sleepers' = sleepers \ {w}
    /\ Loop(w, IF Signalled(w) THEN "returned" ELSE "awake")
    /\ UNCHANGED <<vars, lock, spc>>

\* The test at the top of the loop: of the task, until the continuation is
\* attached, and then of the event.
Leave(w) ==
    /\ wpc[w] = "awake"
    /\ IF pc[w] = "new" THEN state = "finished" ELSE Signalled(w)
    /\ Loop(w, "returned")
    /\ UNCHANGED <<vars, lock, sleepers, spc>>

WaiterStep(w) == GiveUp(w) \/ Attach(w) \/ Sleep(w) \/ Wake(w) \/ Leave(w)

-----------------------------------------------------------------------------
(* schedule(). *)

\* Which sleeper is woken makes no difference here.
WakeSleeper ==
    IF sleepers = {} THEN UNCHANGED sleepers
    ELSE \E s \in sleepers : sleepers' = sleepers \ {s}

\* A thread outside the pool does everything with the lock held.
ScheduleOutside == lock = Free /\ WakeSleeper

\* The flush passes on the continuation x: the handler of a wait signals its
\* event, and another one is pushed to the queue of the finishing worker.
Deliver(x) ==
    /\ spc = "idle"
    /\ spc' = IF x \in Conts \ Waiters THEN "test" ELSE "idle"
    /\ UNCHANGED <<lock, sleepers, wpc>>

DeliverInline == FlushInline /\ Deliver(fdata.ptr)
DeliverOne == FlushOne /\ Deliver(vector[fnext])

\* A worker of the pool needs no lock when nobody sleeps ...
ScheduleTest ==
    /\ spc = "test"
    /\ spc' = IF sleepers = {} THEN "idle" ELSE "lock"
    /\ UNCHANGED <<vars, lock, sleepers, wpc>>

\* ... and else takes it, and tests again.
ScheduleInside ==
    /\ spc = "lock" /\ lock = Free
    /\ WakeSleeper
    /\ spc' = "idle"
    /\ UNCHANGED <<vars, lock, wpc>>

FinishOther ==
    /\ spc = "idle"
    /\ \/ StoreState \/ FlushLoad \/ FlushCasSucceeds \/ FlushCasFails
       \/ FlushLock \/ FlushClear
    /\ UNCHANGED pool

FinisherStep == FinishOther \/ DeliverInline \/ DeliverOne \/ ScheduleTest \/ ScheduleInside

\* then(), by a thread outside the pool.
ThenAdd(c) ==
    /\ pc[c] # "run"
    /\ AddStep(c)
    /\ UNCHANGED pool

ThenRun(c) ==
    /\ RunDirectly(c)
    /\ ScheduleOutside
    /\ UNCHANGED <<lock, wpc, spc>>

PoolNext ==
    \/ FinisherStep
    \/ \E w \in Waiters : WaiterStep(w)
    \/ \E c \in Conts \ Waiters : ThenAdd(c) \/ ThenRun(c)

PoolSpec == PoolInit /\ [][PoolNext]_allVars

-----------------------------------------------------------------------------
(* Properties. *)

\* A waiting worker holds impl->lock and wants the mutex of the vector; the
\* finishing worker holds the mutex and wants impl->lock.
LockCycle ==
    \E w \in Waiters :
        /\ lock = w /\ pc[w] = "lock"
        /\ mutex = Finisher /\ spc = "lock"

\* A worker that saw that the task was ready has not attached anything.
Unattached(w) == w \in Waiters /\ pc[w] = "new"

AllDone == /\ fpc = "done" /\ spc = "idle"
           /\ \A w \in Waiters : wpc[w] = "returned"
           /\ \A c \in Conts : Unattached(c) \/ pc[c] \in {"added", "ran"}

\* A worker whose wait has returned is not in the list of sleepers and has no
\* continuation left that would signal its event.
ReturnedClean ==
    \A w \in Waiters :
        wpc[w] = "returned" =>
            /\ w \notin sleepers /\ lock # w
            /\ Unattached(w) \/ runs[w] = 1
            /\ \A k \in 1..Len(Waiting) : Waiting[k] # w

-----------------------------------------------------------------------------
(* Fairness: every thread that can move does. *)

PoolFairSpec ==
    /\ PoolSpec
    /\ WF_allVars(FinisherStep)
    /\ \A w \in Waiters : WF_allVars(WaiterStep(w))
    /\ \A c \in Conts \ Waiters : WF_allVars(ThenAdd(c) \/ ThenRun(c))

\* The two locks block the threads in that one way only: every run either ends
\* with all continuations passed on and all waits returned, or in the cycle.
EndsOrLockCycle == <>(AllDone \/ LockCycle)

\* scheduler_fwd.h:34: schedule() "should result in t.run() being called at
\* some future point"; a continuation attached to the task gets that far.
ContinuationsScheduled == \A c \in Conts \ Waiters : <>(runs[c] = 1)
=============================================================================
