------------------------- MODULE ContinuationVector -------------------------
(***************************************************************************)
(* src/include/async++/continuation_vector.h and the part of task_base.h   *)
(* that uses it: threads attach continuations to a task while another      *)
(* thread finishes it.  No continuation may be lost between the two, and   *)
(* none may be scheduled twice or before the task has its result.          *)
(*                                                                         *)
(* The atomic word is a record: an inline continuation, or (once there are *)
(* two) a vector protected by a mutex, and the is_locked flag.  Each       *)
(* continuation is attached by a thread of its own, named after it.        *)
(***************************************************************************)
EXTENDS Naturals, Sequences, FiniteSets

CONSTANTS Conts,      \* continuations, and the threads that attach them
          None        \* the null pointer

Finisher == "finisher"

\* The finishing thread has a name of its own.
ASSUME NoneAssumption == {None, Finisher} \intersect Conts = {} /\ None # Finisher

Cell(v, p, l) == [is_vector |-> v, ptr |-> p, is_locked |-> l]

VARIABLES
    state,        \* task_base::state: "pending" or "finished"
    cell,         \* atomic_data; ptr is None when is_vector is set
    vector,       \* contents of the vector_data in atomic_data
    mutex,        \* holder of its lock, or None
    pc,           \* where each attaching thread is
    data,         \* its copy of atomic_data
    cached,       \* contents of the vector_data it allocated, or <<>>
    fpc,          \* where the finishing thread is
    fdata,        \* its copy of atomic_data
    fnext,        \* position of the flush in the vector
    runs          \* how many times each continuation was scheduled

atomic == <<state, cell>>
slow == <<vector, mutex>>
adders == <<pc, data, cached>>
finisher == <<fpc, fdata, fnext>>
vars == <<atomic, slow, adders, finisher, runs>>

Init ==
    /\ state = "pending"
    /\ cell = Cell(FALSE, None, FALSE)
    /\ vector = <<>> /\ mutex = None
    /\ pc = [c \in Conts |-> "new"]
    /\ data = [c \in Conts |-> Cell(FALSE, None, FALSE)]
    /\ cached = [c \in Conts |-> <<>>]
    /\ fpc = "executing" /\ fdata = Cell(FALSE, None, FALSE) /\ fnext = 1
    /\ runs = [c \in Conts |-> 0]

Schedule(c) == runs' = [runs EXCEPT ![c] = @ + 1]

-----------------------------------------------------------------------------
(* add_continuation() and try_add(). *)

\* A finished task runs the continuation directly.
CheckState(c) ==
    /\ pc[c] = "new"
    /\ pc' = [pc EXCEPT ![c] = IF state = "finished" THEN "run" ELSE "load"]
    /\ UNCHANGED <<atomic, slow, data, cached, finisher, runs>>

\* Faulty variants: the new vector without the continuation it takes over, or
\* with the two in the wrong order.
PrepareForgetful(c, d) ==
    /\ data' = [data EXCEPT ![c] = d]
    /\ pc' = [pc EXCEPT ![c] = IF d.is_locked THEN "run"
                               ELSE IF d.is_vector THEN "lock" ELSE "cas"]
    /\ cached' = [cached EXCEPT ![c] = IF @ = <<>> THEN <<c>> ELSE @]
PrepareSwapped(c, d) ==
    /\ data' = [data EXCEPT ![c] = d]
    /\ pc' = [pc EXCEPT ![c] = IF d.is_locked THEN "run"
                               ELSE IF d.is_vector THEN "lock" ELSE "cas"]
    /\ cached' = [cached EXCEPT ![c] =
                    IF ~ d.is_locked /\ ~ d.is_vector /\ d.ptr # None /\ @ = <<>>
                    THEN <<c, d.ptr>> ELSE @]

\* The body of the loop up to the compare-exchange, for a value d of the word:
\* fail when locked, lock the mutex of a vector, or prepare the new value.  The
\* vector that takes over from an inline continuation is allocated once.
Prepare(c, d) ==
    /\ data' = [data EXCEPT ![c] = d]
    /\ pc' = [pc EXCEPT ![c] = IF d.is_locked THEN "run"
                               ELSE IF d.is_vector THEN "lock" ELSE "cas"]
    /\ cached' = [cached EXCEPT ![c] =
                    IF ~ d.is_locked /\ ~ d.is_vector /\ d.ptr # None /\ @ = <<>>
                    THEN <<d.ptr, c>> ELSE @]

LoadData(c) ==
    /\ pc[c] = "load"
    /\ Prepare(c, cell)
    /\ UNCHANGED <<atomic, slow, finisher, runs>>

CasSucceeds(c) ==
    /\ pc[c] = "cas" /\ cell = data[c]
    /\ IF data[c].ptr = None
       THEN /\ cell' = Cell(FALSE, c, FALSE)
            /\ UNCHANGED vector
       ELSE /\ cell' = Cell(TRUE, None, FALSE)
            /\ vector' = cached[c]
    /\ pc' = [pc EXCEPT ![c] = "added"]
    /\ UNCHANGED <<state, mutex, data, cached, finisher, runs>>

\* Another thread changed the word, or the weak form failed spuriously.
CasFails(c) ==
    /\ pc[c] = "cas"
    /\ Prepare(c, cell)
    /\ UNCHANGED <<atomic, slow, finisher, runs>>

LockVector(c) ==
    /\ pc[c] = "lock" /\ mutex = None
    /\ mutex' = c
    /\ pc' = [pc EXCEPT ![c] = "recheck"]
    /\ UNCHANGED <<atomic, vector, data, cached, finisher, runs>>

\* Faulty variants: the word is not tested again, or the mutex is kept.
NoRecheck(c) ==
    /\ pc[c] = "recheck"
    /\ pc' = [pc EXCEPT ![c] = "push"]
    /\ UNCHANGED <<atomic, slow, data, cached, finisher, runs>>
RecheckKeepsMutex(c) ==
    /\ pc[c] = "recheck"
    /\ pc' = [pc EXCEPT ![c] = IF cell.is_locked THEN "run" ELSE "push"]
    /\ UNCHANGED <<atomic, slow, data, cached, finisher, runs>>

\* Locked meanwhile: give up.
Recheck(c) ==
    /\ pc[c] = "recheck"
    /\ IF cell.is_locked
       THEN /\ mutex' = None
            /\ pc' = [pc EXCEPT ![c] = "run"]
       ELSE /\ pc' = [pc EXCEPT ![c] = "push"]
            /\ UNCHANGED mutex
    /\ UNCHANGED <<atomic, vector, data, cached, finisher, runs>>

PushBack(c) ==
    /\ pc[c] = "push"
    /\ vector' = Append(vector, c)
    /\ mutex' = None
    /\ pc' = [pc EXCEPT ![c] = "added"]
    /\ UNCHANGED <<atomic, data, cached, finisher, runs>>

\* try_add() failed, or was not tried: the task has finished.
RunDirectly(c) ==
    /\ pc[c] = "run"
    /\ Schedule(c)
    /\ pc' = [pc EXCEPT ![c] = "ran"]
    /\ UNCHANGED <<atomic, slow, data, cached, finisher>>

-----------------------------------------------------------------------------
(* finish() or cancel_base(), and flush_and_lock(). *)

StoreState ==
    /\ fpc = "executing"
    /\ state' = "finished"
    /\ fpc' = "load"
    /\ UNCHANGED <<cell, slow, adders, fdata, fnext, runs>>

FlushLoad ==
    /\ fpc = "load"
    /\ fdata' = cell
    /\ fpc' = "cas"
    /\ UNCHANGED <<atomic, slow, adders, fnext, runs>>

FlushCasSucceeds ==
    /\ fpc = "cas" /\ cell = fdata
    /\ cell' = [cell EXCEPT !.is_locked = TRUE]
    /\ fpc' = IF fdata.is_vector THEN "lock" ELSE "inline"
    /\ UNCHANGED <<state, slow, adders, fdata, fnext, runs>>

FlushCasFails ==
    /\ fpc = "cas"
    /\ fdata' = cell
    /\ UNCHANGED <<atomic, slow, adders, fpc, fnext, runs>>

FlushInline ==
    /\ fpc = "inline"
    /\ IF fdata.ptr = None THEN UNCHANGED runs ELSE Schedule(fdata.ptr)
    /\ fpc' = "done"
    /\ UNCHANGED <<atomic, slow, adders, fdata, fnext>>

\* Faulty variant: the flush walks the vector without its mutex.
FlushUnlocked ==
    /\ fpc = "lock"
    /\ fpc' = "flush"
    /\ UNCHANGED <<atomic, slow, adders, fdata, fnext, runs>>

FlushLock ==
    /\ fpc = "lock" /\ mutex = None
    /\ mutex' = Finisher
    /\ fpc' = "flush"
    /\ UNCHANGED <<atomic, vector, adders, fdata, fnext, runs>>

\* Each continuation is scheduled with the mutex held.
FlushOne ==
    /\ fpc = "flush" /\ fnext <= Len(vector)
    /\ Schedule(vector[fnext])
    /\ fnext' = fnext + 1
    /\ UNCHANGED <<atomic, slow, adders, fpc, fdata>>

FlushClear ==
    /\ fpc = "flush" /\ fnext > Len(vector)
    /\ vector' = <<>>
    /\ mutex' = None
    /\ fpc' = "done"
    /\ UNCHANGED <<atomic, adders, fdata, fnext, runs>>

-----------------------------------------------------------------------------
\* No thread uses the task any more.
Quiet == fpc = "done" /\ \A c \in Conts : pc[c] \in {"added", "ran"}

\* The destructor releases the references still held.  Until the task has finished
\* each of its continuations has a reference to it, or its thread waits for it:
\* with any of them attached it is not destroyed before.
Destroy ==
    /\ Quiet
    /\ fpc' = "destroyed"
    /\ vector' = <<>>
    /\ cell' = IF ~ cell.is_vector /\ ~ cell.is_locked THEN Cell(FALSE, None, FALSE)
               ELSE cell
    /\ UNCHANGED <<state, mutex, adders, fdata, fnext, runs>>

AddStep(c) ==
    \/ CheckState(c) \/ LoadData(c) \/ CasSucceeds(c) \/ CasFails(c)
    \/ LockVector(c) \/ Recheck(c) \/ PushBack(c) \/ RunDirectly(c)

FinishStep ==
    \/ StoreState \/ FlushLoad \/ FlushCasSucceeds \/ FlushCasFails \/ FlushInline
    \/ FlushLock \/ FlushOne \/ FlushClear

Next == FinishStep \/ Destroy \/ \E c \in Conts : AddStep(c)

Spec == Init /\ [][Next]_vars

-----------------------------------------------------------------------------
(* Properties. *)

Cells == [is_vector : BOOLEAN, ptr : Conts \union {None}, is_locked : BOOLEAN]

\* Every variable has its type; the vector form is only used from two
\* elements on (continuation_vector.h:102).
TypeOK ==
    /\ state \in {"pending", "finished"}
    /\ cell \in Cells
    /\ vector \in Seq(Conts)
    /\ mutex \in Conts \union {None, Finisher}
    /\ pc \in [Conts -> {"new", "load", "cas", "lock", "recheck", "push", "run",
                         "added", "ran"}]
    /\ data \in [Conts -> Cells]
    /\ cached \in [Conts -> Seq(Conts)]
    /\ fpc \in {"executing", "load", "cas", "inline", "lock", "flush", "done",
                "destroyed"}
    /\ fdata \in Cells
    /\ fnext \in Nat \ {0}
    /\ runs \in [Conts -> Nat]
    /\ cell.is_vector /\ fpc \notin {"done", "destroyed"} => Len(vector) >= 2

\* Continuations attached and not scheduled yet, in the order they came.
Waiting ==
    IF cell.is_vector THEN SubSeq(vector, fnext, Len(vector))
    ELSE IF cell.ptr # None /\ fpc \notin {"done", "destroyed"} THEN <<cell.ptr>>
    ELSE <<>>

\* A continuation is with the thread that attaches it, or waits once, or was
\* scheduled once, whichever way the attaching threads and the finishing thread
\* interleave; none is left when the task is destroyed.
OneOwner ==
    \A c \in Conts :
        LET places == {k \in 1..Len(Waiting) : Waiting[k] = c}
        IN  CASE pc[c] \in {"new", "load", "cas", "lock", "recheck", "push", "run"} ->
                    places = {} /\ runs[c] = 0
              [] pc[c] = "added" ->
                    \/ runs[c] = 0 /\ Cardinality(places) = 1 /\ ~ Quiet
                    \/ runs[c] = 1 /\ places = {}
              [] pc[c] = "ran" -> places = {} /\ runs[c] = 1

\* No thread changes the vector while the flush walks it, or after it was
\* cleared: the lock is tested again with the mutex held.
NoLatePush ==
    \A c \in Conts :
        pc[c] = "push" => mutex = c /\ fpc \notin {"flush", "done", "destroyed"}

C == INSTANCE Continuations WITH finished <- (state = "finished"), waiting <- Waiting

\* The vector implements the promise about continuations: scheduled only after
\* the result is there, once each, in the order they were attached, and those
\* waiting are all scheduled in the end.
ImplementsContinuations == C!Spec

-----------------------------------------------------------------------------
(* Fairness: every thread is scheduled, and a compare-exchange that could
   succeed does not fail spuriously forever. *)

AddProgress(c) ==
    \/ CheckState(c) \/ LoadData(c) \/ CasSucceeds(c) \/ LockVector(c) \/ Recheck(c)
    \/ PushBack(c) \/ RunDirectly(c)
    \/ cell # data[c] /\ CasFails(c)

FinishProgress ==
    \/ StoreState \/ FlushLoad \/ FlushCasSucceeds \/ FlushInline
    \/ FlushLock \/ FlushOne \/ FlushClear
    \/ cell # fdata /\ FlushCasFails

FairSpec == Spec /\ WF_vars(FinishProgress) /\ \A c \in Conts : WF_vars(AddProgress(c))

\* Every continuation is scheduled in the end, also when the threads meet on
\* the mutex.
EveryContinuationRuns == \A c \in Conts : <>(runs[c] = 1)
=============================================================================
