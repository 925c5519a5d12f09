------------------------------- MODULE EventTask -------------------------------
(***************************************************************************)
(* event_task of include/async++/task.h (basic_event): a task that is set  *)
(* by hand.  The event object is shared by whoever may set it; the last    *)
(* one to let go destroys it.  Another part of the program holds the task. *)
(*                                                                         *)
(* The module has the object and its operations; WhenAllAny has the        *)
(* threads that use it.                                                    *)
(***************************************************************************)

VARIABLES
    event,    \* task_base::state
    user,     \* the task object from get_task(): "none", "held" or "dropped"
    dpc       \* where the destructor is; "none" before it is called

eventVars == <<event, user, dpc>>

Settled == event \in {"completed", "canceled"}

EventInit(u) == event = "pending" /\ user = u /\ dpc = "none"

EventTypeOK ==
    /\ event \in {"pending", "locked", "completed", "canceled"}
    /\ user \in {"none", "held", "dropped"}
    /\ dpc \in {"none", "ready", "unique", "cancel", "gone", "overwritten"}

-----------------------------------------------------------------------------
(* Setting the event, in two steps: a value or an exception.  After an
   assignment to the event it has another task. *)

CanLock == event = "pending" /\ dpc # "overwritten"
Lock == CanLock /\ event' = "locked"

\* set_result() and finish(), or cancel_base(): for set_exception(), and when
\* the function given to set_with() throws.
Complete == event' = "completed"
Cancel == event' = "canceled"

-----------------------------------------------------------------------------
(* The task object. *)

\* get_task() may be called once, by somebody who has the event.
GetTask ==
    /\ user = "none" /\ dpc = "none"
    /\ user' = "held"
    /\ UNCHANGED <<event, dpc>>

DropTask ==
    /\ user = "held"
    /\ user' = "dropped"
    /\ UNCHANGED <<event, dpc>>

-----------------------------------------------------------------------------
(* The destructor. *)

TestReady ==
    /\ dpc = "ready"
    /\ dpc' = IF Settled THEN "gone" ELSE "unique"
    /\ UNCHANGED <<event, user>>

\* Faulty variant: the test is the wrong way round.
TestUniqueReversed ==
    /\ dpc = "unique"
    /\ dpc' = IF user = "held" THEN "gone" ELSE "cancel"
    /\ UNCHANGED <<event, user>>

\* Is the event the only one that has the task?
TestUnique ==
    /\ dpc = "unique"
    /\ dpc' = IF user = "held" THEN "cancel" ELSE "gone"
    /\ UNCHANGED <<event, user>>

\* set_exception(abandoned_event_task).
CancelAbandoned ==
    /\ dpc = "cancel"
    /\ event' = IF CanLock THEN "canceled" ELSE event
    /\ dpc' = "gone"
    /\ UNCHANGED user

Destructor == TestReady \/ TestUnique \/ CancelAbandoned

\* Move assignment to an event: the task it had is dropped as it is.
Overwrite ==
    /\ dpc = "none"
    /\ dpc' = "overwritten"
    /\ UNCHANGED <<event, user>>
=============================================================================
