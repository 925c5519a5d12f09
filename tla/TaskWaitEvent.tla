---------------------------- MODULE TaskWaitEvent ----------------------------
(***************************************************************************)
(* src/src/task_wait_event.h: a mutex, a condition variable and a mask of  *)
(* pending events, in the stack frame of a thread that waits.  Other       *)
(* threads signal it: the thread that finishes the awaited task, once, and *)
(* threads that schedule work on the pool, while they hold impl->lock and  *)
(* the event is in impl->waiters.  The waiting thread is thread_task_loop  *)
(* (threadpool_scheduler.cpp:240-266): it frees the event when it returns. *)
(* ThreadPool takes signal() and wait() for single steps; this module says *)
(* why it may.                                                             *)
(***************************************************************************)
EXTENDS FiniteSets, Naturals

CONSTANTS Pokers,      \* threads that schedule work
          Finisher, Waiter, Nobody

ASSUME EventAssumption ==
    Finisher # Waiter /\ {Finisher, Waiter, Nobody} \intersect Pokers = {}
    /\ Nobody \notin {Finisher, Waiter}

Signallers == Pokers \union {Finisher}
Kind(s) == IF s = Finisher THEN "finished" ELSE "available"

VARIABLES
    mask,       \* event_mask
    mutex,      \* holder of the event's mutex
    blocked,    \* the waiter is in cond().wait() and was not notified
    lock,       \* holder of impl->lock
    listed,     \* the event is in impl->waiters
    wpc, got,   \* where the waiter is, the events wait() returned
    spc         \* where each signaller is

event == <<mask, mutex, blocked>>
pool == <<lock, listed>>
waiter == <<wpc, got>>
vars == <<event, pool, waiter, spc>>

Init ==
    /\ mask = {} /\ mutex = Nobody /\ blocked = FALSE
    /\ lock = Nobody /\ listed = FALSE
    /\ wpc = "list" /\ got = {}
    /\ spc = [s \in Signallers |-> "idle"]

-----------------------------------------------------------------------------
(* The waiter. *)

Step(p) == wpc' = p

\* Registers as a sleeper, in the critical section of impl->lock.
List ==
    /\ wpc = "list" /\ lock = Nobody
    /\ listed' = TRUE
    /\ Step("enter")
    /\ UNCHANGED <<event, lock, got, spc>>

\* wait() takes the mutex, at first and each time the condition variable
\* returns.
Enter ==
    /\ wpc = "enter" \/ (wpc = "cond" /\ ~ blocked)
    /\ mutex = Nobody
    /\ mutex' = Waiter
    /\ Step("test")
    /\ UNCHANGED <<mask, blocked, pool, got, spc>>

\* Faulty variant: blocks without looking at the mask.
BlockAlways ==
    /\ wpc = "test"
    /\ blocked' = TRUE
    /\ mutex' = Nobody
    /\ Step("cond")
    /\ UNCHANGED <<mask, pool, got, spc>>

\* No event: block, and release the mutex in the same step.
Block ==
    /\ wpc = "test" /\ mask = {}
    /\ blocked' = TRUE
    /\ mutex' = Nobody
    /\ Step("cond")
    /\ UNCHANGED <<mask, pool, got, spc>>

\* A condition variable may return without having been notified.
Spurious ==
    /\ wpc = "cond" /\ blocked
    /\ blocked' = FALSE
    /\ UNCHANGED <<mask, mutex, pool, waiter, spc>>

Take ==
    /\ wpc = "test" /\ mask # {}
    /\ got' = mask /\ mask' = {}
    /\ mutex' = Nobody
    /\ Step("relock")
    /\ UNCHANGED <<blocked, pool, spc>>

\* Faulty variant: the waiter returns without taking impl->lock again.
UnlistUnlocked ==
    /\ wpc = "relock"
    /\ listed' = FALSE
    /\ \E p \in IF "finished" \in got THEN {"gone"} ELSE {"try", "list"} : Step(p)
    /\ UNCHANGED <<event, lock, got, spc>>

\* Leaves the list; once the task has finished, returns and frees the event.
\* Otherwise it finds something to run, and starts over, or sleeps again.
Unlist ==
    /\ wpc = "relock" /\ lock = Nobody
    /\ listed' = FALSE
    /\ \E p \in IF "finished" \in got THEN {"gone"} ELSE {"try", "list"} : Step(p)
    /\ UNCHANGED <<event, lock, got, spc>>

\* try_wait(task_finished) at the top of the loop.
TryWait ==
    /\ wpc = "try" /\ mutex = Nobody
    /\ mask' = mask \ {"finished"}
    /\ Step(IF "finished" \in mask THEN "gone" ELSE "list")
    /\ UNCHANGED <<mutex, blocked, pool, got, spc>>

WaiterStep == List \/ Enter \/ Block \/ Take \/ Unlist \/ TryWait

-----------------------------------------------------------------------------
(* signal(). *)

Go(s, p) == spc' = [spc EXCEPT ![s] = p]

\* The continuation of the task, once, on a thread of its own ...
FinishTask ==
    /\ spc[Finisher] = "idle"
    /\ Go(Finisher, "lock")
    /\ UNCHANGED <<event, pool, waiter>>

\* ... and schedule(), which finds the event in the list.
Poke(s) ==
    /\ s \in Pokers /\ spc[s] = "idle"
    /\ lock = Nobody /\ listed
    /\ lock' = s
    /\ Go(s, "lock")
    /\ UNCHANGED <<event, listed, waiter>>

SetMask(s) ==
    /\ spc[s] = "lock" /\ mutex = Nobody
    /\ mutex' = s
    /\ mask' = mask \union {Kind(s)}
    /\ Go(s, "notify")
    /\ UNCHANGED <<blocked, pool, waiter>>

\* Faulty variant: nobody is notified.
NotifyNobody(s) ==
    /\ spc[s] = "notify"
    /\ Go(s, "unlock")
    /\ UNCHANGED <<event, pool, waiter>>

Notify(s) ==
    /\ spc[s] = "notify"
    /\ blocked' = FALSE
    /\ Go(s, "unlock")
    /\ UNCHANGED <<mask, mutex, pool, waiter>>

\* The finisher never signals again; schedule() takes the event off the list
\* and unlocks.
Unlock(s) ==
    /\ spc[s] = "unlock"
    /\ mutex' = Nobody
    /\ Go(s, IF s = Finisher THEN "done" ELSE "unlist")
    /\ UNCHANGED <<mask, blocked, pool, waiter>>

Dequeue(s) ==
    /\ spc[s] = "unlist"
    /\ listed' = FALSE /\ lock' = Nobody
    /\ Go(s, "idle")
    /\ UNCHANGED <<event, waiter>>

SignalStep(s) == SetMask(s) \/ Notify(s) \/ Unlock(s) \/ Dequeue(s)

Next ==
    \/ WaiterStep \/ Spurious
    \/ FinishTask
    \/ \E s \in Signallers : Poke(s) \/ SignalStep(s)

Spec == Init /\ [][Next]_vars

-----------------------------------------------------------------------------
(* Properties. *)

TypeOK ==
    /\ mask \subseteq {"finished", "available"} /\ got \subseteq {"finished", "available"}
    /\ mutex \in Signallers \union {Waiter, Nobody}
    /\ blocked \in BOOLEAN /\ listed \in BOOLEAN
    /\ lock \in Pokers \union {Nobody}
    /\ wpc \in {"list", "enter", "test", "cond", "relock", "try", "gone"}
    /\ spc \in [Signallers -> {"idle", "lock", "notify", "unlock", "unlist", "done"}]
    \* a critical section has one thread in it
    /\ \A s \in Signallers : spc[s] \in {"notify", "unlock"} => mutex = s

\* A thread inside signal() works on an event that still exists: the
\* notification is given with the mutex held (task_wait_event.h:101), and a
\* signal for new work with impl->lock held.
SignalledEventExists ==
    \A s \in Signallers :
        spc[s] \in {"lock", "notify", "unlock"} => wpc # "gone"

\* A pending event and a blocked waiter never stay together: whoever set the
\* mask is about to notify.
NoMissedNotify ==
    blocked /\ mask # {} => \E s \in Signallers : spc[s] = "notify"

-----------------------------------------------------------------------------
(* Fairness: threads inside wait() and signal() run on, and get a mutex that is
   released again and again. *)

FairSpec ==
    /\ Spec
    /\ SF_vars(WaiterStep)
    /\ \A s \in Signallers : SF_vars(SignalStep(s))

\* A waiter whose task has finished returns, however often it is woken for new
\* work.
FinishedEndsWait == spc[Finisher] # "idle" ~> wpc = "gone"
=============================================================================
