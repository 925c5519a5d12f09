------------------------------ MODULE WhenAllAny ------------------------------
(***************************************************************************)
(* include/async++/when_all_any.h, in the forms for ranges and for several *)
(* arguments.  A thread registers a continuation with each of N tasks,     *)
(* which other threads finish at any moment.                               *)
(*                                                                         *)
(* when_all: each continuation writes its finished task into the shared    *)
(* result; whoever drops the last reference to the shared state deletes    *)
(* it, and the destructor sets the event.                                  *)
(*                                                                         *)
(* when_any: the first continuation to get there moves the list of tasks   *)
(* into the event, whatever the registering thread has put into it so far. *)
(*                                                                         *)
(* event: an event_task the program shares among N of its own threads.     *)
(* Each sets it, with a value or an exception, or does not; each then lets *)
(* go of it.                                                               *)
(***************************************************************************)
EXTENDS EventTask, Integers, FiniteSets

CONSTANTS N,            \* number of tasks (an empty range makes no state)
          ThenThrows,   \* then() may throw
          Overwrites    \* the program may assign to its event

ASSUME WhenAssumption ==
    N \in Nat \ {0} /\ ThenThrows \in BOOLEAN /\ Overwrites \in BOOLEAN

Tasks == 1..N

VARIABLES
    kind,        \* "all", "any" or "event"
    done,        \* tasks that have finished
    rpc, next,   \* where the registering thread is, and with which task
    cpc,         \* where each continuation is
    result,      \* elements of state->result that hold a task
    winner,      \* index in the result of when_any
    delivered,   \* elements of the list the event was set with
    refs,        \* ref_count of the state
    deleted      \* how many times remove_ref() has deleted the state

registration == <<kind, rpc, next>>
outcome == <<winner, delivered>>
others == <<done, registration, cpc, result, outcome, refs, deleted>>
vars == <<eventVars, others>>

\* when_any first puts a copy of the task into its list.
FirstStep == IF kind = "any" THEN "store" ELSE "then"

Init ==
    /\ kind \in {"all", "any", "event"}
    /\ done = {}
    /\ rpc = (IF kind = "event" THEN "registered" ELSE FirstStep) /\ next = 1
    /\ cpc = [t \in Tasks |-> IF kind = "event" THEN "attached" ELSE "none"]
    /\ EventInit(IF kind = "event" THEN "none" ELSE "held")
    /\ result = {} /\ winner = 0 /\ delivered = {}
    /\ refs = N /\ deleted = 0

\* The destructor of when_all_state sets the event; then the event is destroyed.
Delete ==
    /\ dpc' = IF dpc = "none" THEN "ready" ELSE dpc
    /\ IF kind = "all"
       THEN Complete /\ delivered' = result
       ELSE UNCHANGED <<event, delivered>>

\* remove_ref(n) deletes the state if it finds exactly n references, also if it
\* is deleted already and n is 0.  While another thread still destroys it the
\* count is there to be found; once the memory is freed it may hold anything.
\* What a second destructor does to a dead object is left out.
RemoveRef(n) ==
    /\ refs' = refs - n
    /\ IF refs = n /\ deleted = 0 THEN Delete ELSE UNCHANGED <<event, dpc, delivered>>
    /\ \/ refs = n /\ deleted' = deleted + 1
       \/ (refs # n \/ (deleted > 0 /\ dpc = "gone")) /\ UNCHANGED deleted
    /\ UNCHANGED <<user, winner>>

-----------------------------------------------------------------------------
(* Tasks finish; a continuation that is attached starts.  A thread of the
   program that has the event goes to set it, or lets go of it. *)

Finish(t) ==
    /\ t \notin done
    /\ done' = done \union {t}
    /\ \/ cpc' = [cpc EXCEPT ![t] = IF @ = "attached" THEN "set" ELSE @]
       \/ kind = "event" /\ cpc' = [cpc EXCEPT ![t] = "drop"]
    /\ UNCHANGED <<eventVars, registration, result, outcome, refs, deleted>>

-----------------------------------------------------------------------------
(* The loop that registers the tasks. *)

Store ==
    /\ rpc = "store"
    /\ result' = result \union {next}
    /\ rpc' = "then"
    /\ UNCHANGED <<eventVars, kind, done, next, cpc, outcome, refs, deleted>>

Advance ==
    /\ rpc' = IF next = N THEN "registered" ELSE FirstStep
    /\ next' = IF next = N THEN next ELSE next + 1
    /\ UNCHANGED kind

Attach ==
    /\ rpc = "then" /\ next \notin done
    /\ cpc' = [cpc EXCEPT ![next] = "attached"]
    /\ Advance
    /\ UNCHANGED <<eventVars, done, result, outcome, refs, deleted>>

\* The task has finished already: the inline scheduler runs the continuation
\* before then() returns.
AttachRuns ==
    /\ rpc = "then" /\ next \in done
    /\ cpc' = [cpc EXCEPT ![next] = "set"]
    /\ rpc' = "inline"
    /\ UNCHANGED <<eventVars, kind, done, next, result, outcome, refs, deleted>>

InlineReturns ==
    /\ rpc = "inline" /\ cpc[next] = "finished"
    /\ Advance
    /\ UNCHANGED <<eventVars, done, cpc, result, outcome, refs, deleted>>

\* The function object passed to then() is destroyed with its reference, which
\* may be the last one.
AttachThrows ==
    /\ ThenThrows /\ rpc = "then"
    /\ RemoveRef(1)
    /\ rpc' = IF refs = 1 THEN "unwind" ELSE "catch"
    /\ UNCHANGED <<kind, done, next, cpc, result>>

\* The handler is reached when the destructor, if it runs, has returned.
Caught == rpc = "catch" \/ (rpc = "unwind" /\ dpc = "gone")

\* Faulty variant: counts the task that threw among those that follow.
CatchOneMore ==
    /\ Caught
    /\ RemoveRef(N - next + 1)
    /\ rpc' = "thrown"
    /\ UNCHANGED <<kind, done, next, cpc, result>>

\* Gives back the references of the tasks that follow, none after the last one.
Catch ==
    /\ Caught
    /\ RemoveRef(N - next)
    /\ rpc' = "thrown"
    /\ UNCHANGED <<kind, done, next, cpc, result>>

-----------------------------------------------------------------------------
(* The continuations. *)

Go(t, p) == cpc' = [cpc EXCEPT ![t] = p]

\* Faulty variant: the reference is dropped before the result is written.
WriteLate(t) ==
    /\ kind = "all" /\ cpc[t] = "set"
    /\ RemoveRef(1)
    /\ Go(t, "finished")
    /\ result' = result \union {t}
    /\ UNCHANGED <<done, registration>>

\* when_all: state->result[index] = std::move(t).
Write(t) ==
    /\ kind = "all" /\ cpc[t] = "set"
    /\ result' = result \union {t}
    /\ Go(t, "drop")
    /\ UNCHANGED <<eventVars, done, registration, outcome, refs, deleted>>

\* Faulty variant: the state of the event is tested, not exchanged.
SetUnlocked(t) ==
    /\ kind # "all" /\ cpc[t] = "set"
    /\ Go(t, IF CanLock THEN "move" ELSE "drop")
    /\ UNCHANGED <<eventVars, done, registration, result, outcome, refs, deleted>>

\* set_with(), set() or set_exception(): only one thread locks the event ...
Set(t) ==
    /\ kind # "all" /\ cpc[t] = "set"
    /\ \/ Lock /\ Go(t, "move")
       \/ ~ CanLock /\ Go(t, "drop") /\ UNCHANGED event
    /\ UNCHANGED <<user, dpc, done, registration, result, outcome, refs, deleted>>

\* ... and stores its result, or an exception.  when_any moves its list into
\* the result; a second one would find the list empty.
Move(t) ==
    /\ cpc[t] = "move"
    /\ winner' = t
    /\ delivered' = IF winner = 0 THEN result ELSE {}
    /\ Complete \/ (kind = "event" /\ Cancel)
    /\ Go(t, "drop")
    /\ UNCHANGED <<user, dpc, done, registration, result, refs, deleted>>

\* Faulty variant: the reference is never dropped.
KeepRef(t) ==
    /\ cpc[t] = "drop"
    /\ Go(t, "finished")
    /\ UNCHANGED <<eventVars, done, registration, result, outcome, refs, deleted>>

\* The function object is destroyed.
Drop(t) ==
    /\ cpc[t] = "drop"
    /\ RemoveRef(1)
    /\ Go(t, "finished")
    /\ UNCHANGED <<done, registration, result>>

Register == Store \/ Attach \/ AttachRuns \/ InlineReturns \/ AttachThrows \/ Catch
Continuation(t) == Write(t) \/ Set(t) \/ Move(t) \/ Drop(t)

\* The program gets the task of its own event, drops the task it was given
\* (also while an exception of then() leaves when_all or when_any), or assigns
\* to its event before any thread uses it.
UserStep ==
    /\ \/ kind = "event" /\ refs > 0 /\ GetTask
       \/ rpc \in {"registered", "thrown"} /\ DropTask
       \/ kind = "event" /\ Overwrites /\ done = {} /\ Overwrite
    /\ UNCHANGED others

Destroy == Destructor /\ UNCHANGED others

Next == Register \/ UserStep \/ Destroy \/ \E t \in Tasks : Finish(t) \/ Continuation(t)

Spec == Init /\ [][Next]_vars

-----------------------------------------------------------------------------
(* Properties. *)

Using == {"attached", "set", "move", "drop"}
Thrown == {"unwind", "catch", "thrown"}

\* Every variable has its type; only tasks that have finished are written into
\* the result of when_all, and nothing is delivered that is not in the list.
TypeOK ==
    /\ EventTypeOK
    /\ kind \in {"all", "any", "event"}
    /\ done \subseteq Tasks /\ next \in Tasks
    /\ rpc \in {"store", "then", "inline", "registered"} \union Thrown
    /\ cpc \in [Tasks -> {"none", "finished"} \union Using]
    /\ result \subseteq (IF kind = "all" THEN done ELSE Tasks)
    /\ delivered \subseteq result
    /\ winner \in 0..N
    /\ refs \in 0..N /\ deleted \in 0..2

\* The number of references is that of the continuations that still use the
\* state and of the tasks still to be registered.
CountIsExact ==
    refs = Cardinality({t \in Tasks : cpc[t] \in Using})
           + (CASE rpc \in {"store", "then"} -> N - next + 1
                [] rpc \in {"inline", "catch"} -> N - next
                [] OTHER -> 0)

\* The handler of the last task gives back 0 references of a state that is
\* deleted, or is being deleted, and may delete it again.
DeletedTwice == deleted = 2 /\ rpc = "thrown" /\ next = N

\* The count is exact, also after then() threw, and the state is deleted with the
\* last reference: once, but for the handler of the last task, which still uses
\* it when all others are done.
RefsAreExact ==
    /\ CountIsExact
    /\ IF refs > 0 THEN deleted = 0 ELSE deleted = 1 \/ DeletedTwice

\* The event of when_all is set when the last task has finished and not before,
\* and its result then has every task: those before the one for which then()
\* threw, if it did.
SetWhenAllDone ==
    kind = "all" /\ event = "completed" =>
        LET given == IF rpc \in Thrown THEN 1..(next - 1) ELSE Tasks
        IN  given \subseteq done /\ delivered = given

\* The first thread to lock an event wins and stays the winner, whether it sets
\* a value or an exception.  The index in the result of when_any names a task
\* that has finished and is in the list: no second continuation moves the list
\* away.
OneWinner ==
    /\ winner # 0 => Settled /\ winner \in done /\ (kind = "any" => winner \in delivered)
    /\ Cardinality({t \in Tasks : cpc[t] = "move"}) = (IF event = "locked" THEN 1 ELSE 0)

\* Whoever holds the task of an event that is gone does not wait for ever: the
\* event was set, or its destructor, which tests twice before it acts, has
\* cancelled it.
AbandonedIsCanceled == dpc = "gone" /\ user = "held" => Settled

\* when_all_any.h:33: the result of when_any has the "list of tasks that were
\* passed in".
ResultComplete == kind = "any" /\ winner # 0 => delivered = Tasks

-----------------------------------------------------------------------------
(* Fairness: threads run on; tasks finish when they like. *)

FairSpec ==
    /\ Spec
    /\ WF_vars(Register) /\ WF_vars(Destroy)
    /\ \A t \in Tasks : WF_vars(Continuation(t))

\* Once all tasks are registered the event is set, when they have all finished
\* or when any of them has.  The task of an event of the program settles when
\* its threads are done with the event, unless another one was assigned to it.
EventSets ==
    /\ rpc = "registered" /\ ((kind = "all" /\ done = Tasks) \/ (kind = "any" /\ done # {}))
          ~> event = "completed"
    /\ user = "held" /\ done = Tasks
          ~> Settled \/ user = "dropped" \/ dpc = "overwritten"
=============================================================================
