---------------------------- MODULE TaskLifecycle ----------------------------
(***************************************************************************)
(* The life of a task object: include/async++/task_base.h, task.h,         *)
(* scheduler.h and ref_count.h.  A task is created by spawn() or then(),   *)
(* its run handle goes to a scheduler, which runs it or lets go of it, and *)
(* it finishes with a result, with an exception, or with the result of the *)
(* task its function returned (unwrapping).  Reference counts are those of *)
(* the code, one increment and decrement at a time; what they should count *)
(* is a property.                                                          *)
(*                                                                         *)
(* then() consumes a task object and copies a shared_task.  A task with one *)
(* continuation uses the inline form of continuation_vector, whose pointer *)
(* stays in the word when the vector is locked.  The races on that word    *)
(* are those of ContinuationVector; here a finishing task is one step.     *)
(***************************************************************************)
EXTENDS Integers, FiniteSets

CONSTANTS
    Tasks, None,
    Parent,            \* the task each one is a continuation of, or None
    Inner,             \* the task its function returns, or None
    Shared,            \* tasks the program makes shared_tasks of
    Made,              \* tasks that come from make_task() instead of spawn()
    SchedulerThrows,   \* schedule(), or then() while unwrapping, may throw
    HandlesOverwritten \* a scheduler may assign to a handle that holds a task

ASSUME LifecycleAssumption ==
    /\ None \notin Tasks
    /\ Parent \in [Tasks -> Tasks \union {None}]
    /\ Inner \in [Tasks -> Tasks \union {None}]
    /\ Shared \subseteq Tasks /\ Made \subseteq {t \in Tasks : Parent[t] = None}
    /\ SchedulerThrows \in BOOLEAN /\ HandlesOverwritten \in BOOLEAN

VARIABLES
    state,      \* task_base::state; "none" before the task is created
    refs,       \* ref_count
    destroys,   \* how often the function object was destroyed
    flushes,    \* how often run_continuations() was called
    cont,       \* continuations: inline when there is one, else in the vector
    user,       \* the program holds a task object
    todo,       \* calls of run_continuation() about to be made for the task
    held,       \* run handles schedulers hold
    freed,      \* the object was deleted
    mishaps     \* "thrown": schedule() threw a continuation back;
                \* "overwritten": a handle that held a task was assigned to

objects == <<state, refs, destroys, flushes, cont>>
places == <<user, todo, held>>
vars == <<objects, places, freed, mishaps>>

Init ==
    /\ state = [t \in Tasks |-> "none"]
    /\ refs = [t \in Tasks |-> 0]
    /\ destroys = [t \in Tasks |-> 0]
    /\ flushes = [t \in Tasks |-> 0]
    /\ cont = [t \in Tasks |-> {}]
    /\ user = [t \in Tasks |-> FALSE]
    /\ todo = [t \in Tasks |-> 0]
    /\ held = [t \in Tasks |-> 0]
    /\ freed = [t \in Tasks |-> FALSE]
    /\ mishaps = {}

Final == {"completed", "canceled"}
Ready(t) == state[t] \in Final

\* Nothing is said of the program once a task was canceled twice: its function
\* object was destroyed twice.
Defined == "thrown" \notin mishaps

Live(t) == state[t] # "none" /\ ~ freed[t]

-----------------------------------------------------------------------------
(* Building blocks. *)

\* Adds n to the count of x; several changes to counts are summed.
Ref(x, n) == [y \in Tasks |-> IF y = x THEN n ELSE 0]
Count(d) == refs' = [y \in Tasks |-> refs[y] + d[y]]
Plus(d, e) == [y \in Tasks |-> d[y] + e[y]]
NoRef == [y \in Tasks |-> 0]

\* References then() and unwrapping add to the task they continue.
Copies(t) == IF t \in Shared THEN 1 ELSE 0

\* The function object of a continuation owns the parent: destroying it lets
\* go of one reference.
DropFunc(t) == Ref(Parent[t], -1)

\* destroy_func(), n times.
Destroy(t, n) == destroys' = [destroys EXCEPT ![t] = @ + n]

\* The final state and run_continuations(), n times: each passes the inline
\* continuation on, if there is one; the vector is emptied.
Settle(t, s, n) ==
    /\ state' = [state EXCEPT ![t] = s]
    /\ flushes' = [flushes EXCEPT ![t] = @ + n]

Pass(t, n) ==
    [y \in Tasks |-> IF y \notin cont[t] THEN 0 ELSE IF cont[t] = {y} THEN n ELSE 1]

-----------------------------------------------------------------------------
(* spawn() and then(). *)

\* One reference for the task object returned, one for the run handle.  When
\* schedule() throws, the handle cancels the task, and the task object dies
\* with the exception.
Spawn(t) ==
    /\ Defined /\ Parent[t] = None /\ t \notin Made /\ state[t] = "none"
    /\ \/ /\ state' = [state EXCEPT ![t] = "pending"]
          /\ Count(Ref(t, 2))
          /\ user' = [user EXCEPT ![t] = TRUE]
          /\ held' = [held EXCEPT ![t] = 1]
          /\ UNCHANGED <<destroys, flushes>>
       \/ /\ SchedulerThrows
          /\ Destroy(t, 1)
          /\ Settle(t, "canceled", 1)
          /\ UNCHANGED <<refs, user, held>>
    /\ UNCHANGED <<cont, todo, freed, mishaps>>

\* make_task() and make_exception_task(): a task that has settled from the start.
Make(t) ==
    /\ Defined /\ t \in Made /\ Parent[t] = None /\ state[t] = "none"
    /\ \E s \in Final : state' = [state EXCEPT ![t] = s]
    /\ Count(Ref(t, 1))
    /\ user' = [user EXCEPT ![t] = TRUE]
    /\ UNCHANGED <<destroys, flushes, cont, todo, held, freed, mishaps>>

\* Adds the continuation to the parent, or runs it directly when that has
\* finished.  The parent's task object moves into the function of t; of a
\* shared_task there is then a copy.
Then(t) ==
    /\ Defined /\ Parent[t] # None /\ state[t] = "none"
    /\ user[Parent[t]] /\ Live(Parent[t])
    /\ state' = [state EXCEPT ![t] = "pending"]
    /\ Count(Plus(Ref(t, 2), Ref(Parent[t], Copies(Parent[t]))))
    /\ user' = [user EXCEPT ![t] = TRUE, ![Parent[t]] = Parent[t] \in Shared]
    /\ IF Ready(Parent[t])
       THEN todo' = [todo EXCEPT ![t] = @ + 1] /\ UNCHANGED cont
       ELSE cont' = [cont EXCEPT ![Parent[t]] = @ \union {t}] /\ UNCHANGED todo
    /\ UNCHANGED <<destroys, flushes, held, freed, mishaps>>

\* The program drops its task object.
Forget(t) ==
    /\ Defined /\ user[t]
    /\ user' = [user EXCEPT ![t] = FALSE]
    /\ Count(Ref(t, -1))
    /\ UNCHANGED <<state, destroys, flushes, cont, todo, held, freed, mishaps>>

-----------------------------------------------------------------------------
(* run_continuation() and run handles. *)

\* The scheduler takes the handle, or it throws: the handle it was given
\* cancels the task, and the catch block of run_continuation() cancels it too.
Schedule(t) ==
    /\ Defined /\ todo[t] > 0
    /\ \/ /\ todo' = [todo EXCEPT ![t] = @ - 1]
          /\ held' = [held EXCEPT ![t] = @ + 1]
          /\ UNCHANGED <<objects, mishaps>>
       \/ /\ SchedulerThrows
          /\ mishaps' = mishaps \union {"thrown"}
          /\ Destroy(t, 2)
          /\ Settle(t, "canceled", 2)
          /\ todo' = [y \in Tasks |-> todo[y] + Pass(t, 2)[y] - Ref(t, 1)[y]]
          /\ Count(Plus(Ref(t, -1), Plus(DropFunc(t), DropFunc(t))))
          /\ UNCHANGED <<held, cont>>
    /\ UNCHANGED <<user, freed>>

Release(t) == held' = [held EXCEPT ![t] = @ - 1]

\* task_func::cancel() by a handle that goes away at the same time.
CancelHeld(t) ==
    /\ Release(t)
    /\ Destroy(t, 1)
    /\ Settle(t, "canceled", 1)
    /\ todo' = [y \in Tasks |-> todo[y] + Pass(t, 1)[y]]
    /\ Count(Plus(Ref(t, -1), DropFunc(t)))

\* run(): the function returns a value.
RunValue(t) ==
    /\ Defined /\ held[t] > 0 /\ Inner[t] = None
    /\ Release(t)
    /\ Destroy(t, 1)
    /\ Settle(t, "completed", 1)
    /\ todo' = [y \in Tasks |-> todo[y] + Pass(t, 1)[y]]
    /\ Count(Plus(Ref(t, -1), DropFunc(t)))
    /\ UNCHANGED <<cont, user, freed, mishaps>>

\* The function throws, or a value-based continuation finds its parent
\* canceled.
RunCancels(t) ==
    /\ Defined /\ held[t] > 0
    /\ CancelHeld(t)
    /\ UNCHANGED <<cont, user, freed, mishaps>>

\* Faulty variant: the parent is not kept alive for the inner task.
RunUnwrapUncounted(t) ==
    /\ Defined /\ held[t] > 0 /\ Inner[t] # None
    /\ user[Inner[t]] /\ Live(Inner[t])
    /\ Release(t)
    /\ Destroy(t, 1)
    /\ state' = [state EXCEPT ![t] = "unwrapped"]
    /\ user' = [user EXCEPT ![Inner[t]] = Inner[t] \in Shared]
    /\ Count(Plus(Ref(t, -1), DropFunc(t)))
    /\ UNCHANGED <<flushes, cont, todo, freed, mishaps>>

\* The function returns a task: unwrapped_finish() attaches a continuation to
\* it, which owns that task and a new reference to t.
RunUnwrap(t) ==
    /\ Defined /\ held[t] > 0 /\ Inner[t] # None
    /\ user[Inner[t]] /\ Live(Inner[t])
    /\ Release(t)
    /\ Destroy(t, 1)
    /\ state' = [state EXCEPT ![t] = "unwrapped"]
    /\ user' = [user EXCEPT ![Inner[t]] = Inner[t] \in Shared]
    /\ Count(Plus(Plus(Ref(t, -1), Ref(t, 1)), Plus(Ref(Inner[t], Copies(Inner[t])), DropFunc(t))))
    /\ UNCHANGED <<flushes, cont, todo, freed, mishaps>>

\* then() throws in unwrapped_finish(): the inner task is let go of and t is
\* cancelled, without its function, which is gone.
RunUnwrapThrows(t) ==
    /\ Defined /\ SchedulerThrows /\ held[t] > 0 /\ Inner[t] # None
    /\ user[Inner[t]] /\ Live(Inner[t])
    /\ Release(t)
    /\ Destroy(t, 1)
    /\ Settle(t, "canceled", 1)
    /\ user' = [user EXCEPT ![Inner[t]] = Inner[t] \in Shared]
    /\ todo' = [y \in Tasks |-> todo[y] + Pass(t, 1)[y]]
    /\ Count(Plus(Ref(t, -1), Plus(Ref(Inner[t], Copies(Inner[t]) - 1), DropFunc(t))))
    /\ UNCHANGED <<cont, freed, mishaps>>

\* Faulty variant: the function of an unwrapped task is destroyed again, as the
\* generic cancel() would.
UnwrapDestroys(t) ==
    /\ Defined /\ state[t] = "unwrapped" /\ Ready(Inner[t])
    /\ Settle(t, state[Inner[t]], 1)
    /\ Destroy(t, IF state[Inner[t]] = "canceled" THEN 1 ELSE 0)
    /\ todo' = [y \in Tasks |-> todo[y] + Pass(t, 1)[y]]
    /\ Count(Plus(Ref(t, -1), Ref(Inner[t], -1)))
    /\ UNCHANGED <<cont, user, held, freed, mishaps>>

\* unwrapped_func: the outcome of the inner task becomes that of t, unless its
\* result cannot be copied.
Unwrap(t) ==
    /\ Defined /\ state[t] = "unwrapped" /\ Ready(Inner[t])
    /\ \E s \in {state[Inner[t]], "canceled"} : Settle(t, s, 1)
    /\ todo' = [y \in Tasks |-> todo[y] + Pass(t, 1)[y]]
    /\ Count(Plus(Ref(t, -1), Ref(Inner[t], -1)))
    /\ UNCHANGED <<destroys, cont, user, held, freed, mishaps>>

\* Faulty variant: the destructor of the handle does not cancel.
DropHandleSilently(t) ==
    /\ Defined /\ held[t] > 0
    /\ Release(t)
    /\ Count(Ref(t, -1))
    /\ UNCHANGED <<state, destroys, flushes, cont, user, todo, freed, mishaps>>

\* ~task_run_handle: the scheduler lets go of a task it did not run.
DropHandle(t) ==
    /\ Defined /\ held[t] > 0
    /\ CancelHeld(t)
    /\ UNCHANGED <<cont, user, freed, mishaps>>

\* Move assignment to a handle that holds t.
Overwrite(t) ==
    /\ Defined /\ HandlesOverwritten /\ held[t] > 0
    /\ mishaps' = mishaps \union {"overwritten"}
    /\ Release(t)
    /\ Count(Ref(t, -1))
    /\ UNCHANGED <<state, destroys, flushes, cont, user, todo, freed>>

-----------------------------------------------------------------------------
\* The last reference is gone: a function that is still there is destroyed,
\* and a continuation that is still in the vector is released.
Delete(t) ==
    /\ Defined /\ Live(t) /\ refs[t] = 0
    /\ freed' = [freed EXCEPT ![t] = TRUE]
    /\ IF state[t] = "pending" THEN Destroy(t, 1) ELSE UNCHANGED destroys
    /\ Count(Plus(IF state[t] = "pending" THEN DropFunc(t) ELSE NoRef,
                  IF flushes[t] = 0 THEN [y \in Tasks |-> IF y \in cont[t] THEN -1 ELSE 0] ELSE NoRef))
    /\ UNCHANGED <<state, flushes, cont, places, mishaps>>

TaskStep(t) ==
    \/ Schedule(t) \/ RunValue(t) \/ RunCancels(t) \/ RunUnwrap(t)
    \/ RunUnwrapThrows(t) \/ Unwrap(t) \/ DropHandle(t) \/ Overwrite(t) \/ Delete(t)

Next == \E t \in Tasks : Spawn(t) \/ Make(t) \/ Then(t) \/ Forget(t) \/ TaskStep(t)

Spec == Init /\ [][Next]_vars

-----------------------------------------------------------------------------
(* Properties. *)

TypeOK ==
    /\ state \in [Tasks -> {"none", "pending", "unwrapped"} \union Final]
    /\ mishaps \subseteq {"thrown", "overwritten"}
    /\ refs \in [Tasks -> IF Defined THEN Nat ELSE Int]
    /\ destroys \in [Tasks -> Nat] /\ flushes \in [Tasks -> Nat]
    /\ cont \in [Tasks -> SUBSET Tasks]
    /\ user \in [Tasks -> BOOLEAN] /\ freed \in [Tasks -> BOOLEAN]
    /\ todo \in [Tasks -> Nat] /\ held \in [Tasks -> Nat]

One(b) == IF b THEN 1 ELSE 0

\* The references to t that exist: the task object, run handles, calls in
\* progress, the parent's continuation vector, the function of a continuation
\* of t, and the continuation that unwraps t or waits to finish it.
References(t) ==
    One(user[t]) + held[t] + todo[t]
    + One(state[t] = "unwrapped")
    + One(\E p \in Tasks : t \in cont[p] /\ flushes[p] = 0 /\ Live(p))
    + Cardinality({c \in Tasks : Parent[c] = t /\ state[c] # "none" /\ destroys[c] = 0})
    + Cardinality({o \in Tasks : Inner[o] = t /\ state[o] = "unwrapped"})

\* The count of each object is the number of references to it, through
\* continuations, unwrapping and cancellation: no leak, and no object that is
\* deleted while somebody still uses it.
CountsAreExact ==
    Defined =>
        \A t \in Tasks : IF freed[t] THEN References(t) = 0
                       ELSE state[t] # "none" => refs[t] = References(t)

\* Each task that has a function settles once and its function object is
\* destroyed once, whether it returned, threw, was dropped by its scheduler,
\* unwraps another task, fails to, or was refused by schedule() inside spawn().
SettlesOnce ==
    Defined =>
        \A t \in Tasks :
            /\ flushes[t] = One(Ready(t) /\ t \notin Made)
            /\ destroys[t] = One((Ready(t) \/ state[t] = "unwrapped" \/ freed[t]) /\ t \notin Made)

\* continuation_vector.h:138: "If the data is locked then the inline pointer is
\* already gone": a continuation is passed on, and scheduled, once.
PassedOnOnce == \A t \in Tasks : todo[t] + held[t] <= 1

-----------------------------------------------------------------------------
(* Fairness: as long as some handle is held or some task object is, one of
   them is run or let go of in the end; which one is not said. *)

FairSpec == Spec /\ WF_vars(\E t \in Tasks : TaskStep(t) \/ Forget(t))

\* Every task settles in the end, with a value, an exception or as canceled, and
\* its object is freed: no reference is left over in a cycle of tasks.  A task
\* whose run handle is overwritten is the exception: it never settles, and it
\* and its continuation keep each other alive.
EveryTaskEnds ==
    <>[](mishaps # {} \/ \A t \in Tasks : state[t] # "none" => Ready(t) /\ freed[t])
=============================================================================
