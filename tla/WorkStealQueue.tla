--------------------------- MODULE WorkStealQueue ---------------------------
(***************************************************************************)
(* src/src/work_steal_queue.h: the Chase-Lev work-stealing deque that each *)
(* pool worker owns.  One owner pushes and pops at the bottom, any number  *)
(* of thieves steal at the top.  Every atomic access is one action, in a   *)
(* sequentially consistent memory: the fences of the code order the two    *)
(* accesses (bottom before top, top before bottom) the algorithm needs     *)
(* ordered.  Indices are machine words that wrap, compared through         *)
(* to_signed as in the code.                                               *)
(*                                                                         *)
(* A task is its push number.  taken counts the run handles to a task that *)
(* left the queue: it must end at exactly one for each task, since none    *)
(* means a task that never runs and two a task that runs after it is freed.*)
(***************************************************************************)
EXTENDS Integers, Sequences

CONSTANTS
    Thieves,    \* threads that call steal()
    WordMod,    \* number of values of a std::size_t
    InitSize,   \* slots of the first array (32 in the code)
    MaxPush,    \* bound: number of calls of push()
    Starts      \* initial values of both indices: 0 for a new queue, other
                \* words for a queue that has pushed and popped so much before

ASSUME SizeAssumption ==
    /\ WordMod \in Nat /\ MaxPush \in Nat \ {0} /\ InitSize \in Nat \ {0}
    /\ WordMod >= 2 /\ WordMod % 2 = 0
    \* powers of two: no odd factor but 1, and the size is a factor
    /\ \A n, m \in 1..WordMod : n * m = WordMod => n % 2 = 0 \/ n = 1
    /\ \E m \in 1..WordMod : InitSize * m = WordMod
    /\ MaxPush < WordMod \div 2
    /\ Starts \subseteq 0..(WordMod - 1)

None == 0                      \* the null void* of an empty run handle
Tasks == 1..MaxPush
Handles == Tasks \union {None}
Words == 0..(WordMod - 1)

VARIABLES
    top, bottom,   \* the two shared indices
    arrays,        \* every circular_array allocated; the last is `array`
    opc,           \* where the owner is inside push() or pop()
    ob, ot,        \* the owner's b and t
    ox,            \* the task the owner pushes, or read from the bottom slot
    tpc,           \* where each thief is inside steal()
    tt, ta, tx,    \* each thief's t, a (an index in arrays) and x
    npush,         \* calls of push() so far
    taken          \* run handles given out, per task (and null ones, which
                   \* would be dereferenced)

shared == <<top, bottom, arrays>>
ownerVars == <<opc, ob, ot, ox>>
thiefVars == <<tpc, tt, ta, tx>>
history == <<npush, taken>>
vars == <<shared, ownerVars, thiefVars, history>>

-----------------------------------------------------------------------------
(* Unsigned arithmetic and the circular array. *)

Inc(x) == IF x = WordMod - 1 THEN 0 ELSE x + 1
Dec(x) == IF x = 0 THEN WordMod - 1 ELSE x - 1
Sub(x, y) == IF x >= y THEN x - y ELSE (x + WordMod) - y
\* Faulty variant: the difference of two indices taken as unsigned.
UnsignedDifference(x) == x

ToSigned(x) == IF x > (WordMod \div 2) - 1 THEN x - WordMod ELSE x

Empty(n) == [size |-> n, items |-> [s \in 0..(n - 1) |-> None]]
Get(a, i) == a.items[i % a.size]
Put(a, i, x) == [a EXCEPT !.items[i % a.size] = x]

\* The indices a loop `for (i = t; i != b; i++)` visits.
Span(t, b) == {i \in Words : Sub(i, t) < Sub(b, t)}

\* Faulty variant: the size field grows, the allocation does not.
GrowSizeOnly(a, t, b) == [a EXCEPT !.size = 2 * @]

\* Twice the slots; the slots outside [t, b) stay uninitialised (None).
Grow(a, t, b) ==
    [size |-> 2 * a.size,
     items |-> [s \in 0..(2 * a.size - 1) |->
                  IF \E i \in Span(t, b) : i % (2 * a.size) = s
                  THEN Get(a, CHOOSE i \in Span(t, b) : i % (2 * a.size) = s)
                  ELSE None]]

Current == arrays[Len(arrays)]

Give(x) == taken' = [taken EXCEPT ![x] = @ + 1]

-----------------------------------------------------------------------------
Init ==
    /\ top \in Starts
    /\ bottom = top
    /\ arrays = <<Empty(InitSize)>>
    /\ opc = "idle" /\ ob = 0 /\ ot = 0 /\ ox = None
    /\ tpc = [i \in Thieves |-> "idle"]
    /\ tt = [i \in Thieves |-> 0]
    /\ ta = [i \in Thieves |-> 1]
    /\ tx = [i \in Thieves |-> None]
    /\ npush = 0
    /\ taken = [x \in Handles |-> 0]

-----------------------------------------------------------------------------
(* push(): owner only. *)

\* Faulty variant: > where the code tests >=.
PushBeginLate ==
    /\ opc = "idle" /\ npush < MaxPush
    /\ npush' = npush + 1
    /\ ox' = npush + 1
    /\ ob' = bottom
    /\ ot' = top
    /\ opc' = IF ToSigned(Sub(bottom, top)) > Current.size
              THEN "push_grow" ELSE "push_put"
    /\ UNCHANGED <<shared, thiefVars, taken>>

\* Loads bottom, top and array, and decides whether the array is full.
\* to_signed(a->size()) is the size: an array of half as many pointers as there
\* are words, for which it would be negative, does not fit in memory.
PushBegin ==
    /\ opc = "idle" /\ npush < MaxPush
    /\ npush' = npush + 1
    /\ ox' = npush + 1
    /\ ob' = bottom
    /\ ot' = top
    /\ opc' = IF ToSigned(Sub(bottom, top)) >= Current.size
              THEN "push_grow" ELSE "push_put"
    /\ UNCHANGED <<shared, thiefVars, taken>>

\* Copies into an array nobody else sees yet, then publishes that array.
PushGrow ==
    /\ opc = "push_grow"
    /\ arrays' = Append(arrays, Grow(Current, ot, ob))
    /\ opc' = "push_put"
    /\ UNCHANGED <<top, bottom, ob, ot, ox, thiefVars, history>>

\* grow() runs out of memory: the exception leaves push() before x was turned
\* into a void*, so the handle still owns the task.
PushGrowThrows ==
    /\ opc = "push_grow"
    /\ Give(ox)
    /\ opc' = "idle"
    /\ UNCHANGED <<shared, ob, ot, ox, thiefVars, npush>>

PushPut ==
    /\ opc = "push_put"
    /\ arrays' = [arrays EXCEPT ![Len(arrays)] = Put(@, ob, ox)]
    /\ opc' = "push_publish"
    /\ UNCHANGED <<top, bottom, ob, ot, ox, thiefVars, history>>

PushPublish ==
    /\ opc = "push_publish"
    /\ bottom' = Inc(ob)
    /\ opc' = "idle"
    /\ UNCHANGED <<top, arrays, ob, ot, ox, thiefVars, history>>

-----------------------------------------------------------------------------
(* pop(): owner only. *)

\* Early exit on an empty queue; otherwise b becomes b - 1.
PopBegin ==
    /\ opc = "idle"
    /\ ToSigned(Sub(bottom, top)) > 0
    /\ ob' = Dec(bottom)
    /\ ot' = top
    /\ opc' = "pop_reserve"
    /\ UNCHANGED <<shared, ox, thiefVars, history>>

PopEmpty ==
    /\ opc = "idle"
    /\ ToSigned(Sub(bottom, top)) <= 0
    /\ UNCHANGED vars

PopReserve ==
    /\ opc = "pop_reserve"
    /\ bottom' = ob
    /\ opc' = "pop_reread"
    /\ UNCHANGED <<top, arrays, ob, ot, ox, thiefVars, history>>

\* Re-reads top after the fence.  Thieves may have emptied the queue, may have
\* left only the task at b to race for, or b is out of their reach.
PopReread ==
    /\ opc = "pop_reread"
    /\ ot' = top
    /\ \/ /\ ToSigned(Sub(ob, top)) < 0
          /\ opc' = "pop_restore"
          /\ UNCHANGED <<ox, taken>>
       \/ /\ ob = top
          /\ ox' = Get(Current, ob)
          /\ opc' = "pop_cas"
          /\ UNCHANGED taken
       \/ /\ ToSigned(Sub(ob, top)) >= 0 /\ ob # top
          /\ ox' = Get(Current, ob)
          /\ Give(Get(Current, ob))
          /\ opc' = "idle"
    /\ UNCHANGED <<shared, ob, thiefVars, npush>>

\* Faulty variant: top is stored without being compared.
PopStoreTop ==
    /\ opc = "pop_cas"
    /\ top' = Inc(ot) /\ Give(ox)
    /\ opc' = "pop_restore"
    /\ UNCHANGED <<bottom, arrays, ob, ot, ox, thiefVars, npush>>

\* Faulty variant: the weak form, which may fail although top is the same.
PopCasWeak ==
    /\ opc = "pop_cas"
    /\ \/ top = ot /\ top' = Inc(ot) /\ Give(ox)
       \/ UNCHANGED <<top, taken>>
    /\ opc' = "pop_restore"
    /\ UNCHANGED <<bottom, arrays, ob, ot, ox, thiefVars, npush>>

\* The strong compare-exchange on the last element.
PopCas ==
    /\ opc = "pop_cas"
    /\ IF top = ot
       THEN top' = Inc(ot) /\ Give(ox)
       ELSE UNCHANGED <<top, taken>>
    /\ opc' = "pop_restore"
    /\ UNCHANGED <<bottom, arrays, ob, ot, ox, thiefVars, npush>>

\* Faulty variant: bottom is left lowered.
PopRestoreMissing ==
    /\ opc = "pop_restore"
    /\ opc' = "idle"
    /\ UNCHANGED <<shared, ob, ot, ox, thiefVars, history>>

PopRestore ==
    /\ opc = "pop_restore"
    /\ bottom' = Inc(ob)
    /\ opc' = "idle"
    /\ UNCHANGED <<top, arrays, ob, ot, ox, thiefVars, history>>

-----------------------------------------------------------------------------
(* steal(): any thief. *)

\* Faulty variant: a retry goes on with the value of top it failed with.
StealKeepTop(i) ==
    /\ tpc[i] \in {"idle", "retry"} /\ opc # "destroyed"
    /\ tt' = [tt EXCEPT ![i] = IF tpc[i] = "retry" THEN @ ELSE top]
    /\ tpc' = [tpc EXCEPT ![i] = "bottom"]
    /\ UNCHANGED <<shared, ownerVars, ta, tx, history>>

StealReadTop(i) ==
    /\ tpc[i] \in {"idle", "retry"} /\ opc # "destroyed"
    /\ tt' = [tt EXCEPT ![i] = top]
    /\ tpc' = [tpc EXCEPT ![i] = "bottom"]
    /\ UNCHANGED <<shared, ownerVars, ta, tx, history>>

\* Faulty variant: <= 1 where the code tests <= 0.
StealLeavesLast(i) ==
    /\ tpc[i] = "bottom"
    /\ tpc' = [tpc EXCEPT ![i] = IF ToSigned(Sub(bottom, tt[i])) <= 1
                                 THEN "idle" ELSE "array"]
    /\ UNCHANGED <<shared, ownerVars, tt, ta, tx, history>>

\* Gives up if the queue looks empty.
StealReadBottom(i) ==
    /\ tpc[i] = "bottom"
    /\ tpc' = [tpc EXCEPT ![i] = IF ToSigned(Sub(bottom, tt[i])) <= 0
                                 THEN "idle" ELSE "array"]
    /\ UNCHANGED <<shared, ownerVars, tt, ta, tx, history>>

\* Faulty variant: the thief keeps the array pointer of an earlier call.
StealKeepArray(i) ==
    /\ tpc[i] = "array"
    /\ tpc' = [tpc EXCEPT ![i] = "item"]
    /\ UNCHANGED <<shared, ownerVars, tt, ta, tx, history>>

StealReadArray(i) ==
    /\ tpc[i] = "array"
    /\ ta' = [ta EXCEPT ![i] = Len(arrays)]
    /\ tpc' = [tpc EXCEPT ![i] = "item"]
    /\ UNCHANGED <<shared, ownerVars, tt, tx, history>>

\* May race with a push() that reuses the slot: the value is then discarded,
\* because the compare-exchange fails.
StealReadItem(i) ==
    /\ tpc[i] = "item"
    /\ tx' = [tx EXCEPT ![i] = Get(arrays[ta[i]], tt[i])]
    /\ tpc' = [tpc EXCEPT ![i] = "cas"]
    /\ UNCHANGED <<shared, ownerVars, tt, ta, history>>

StealCas(i) ==
    /\ tpc[i] = "cas"
    /\ top = tt[i]
    /\ top' = Inc(tt[i])
    /\ Give(tx[i])
    /\ tpc' = [tpc EXCEPT ![i] = "idle"]
    /\ UNCHANGED <<bottom, arrays, ownerVars, tt, ta, tx, npush>>

\* The weak compare-exchange failed, because top moved or spuriously.
StealCasFails(i) ==
    /\ tpc[i] = "cas"
    /\ tpc' = [tpc EXCEPT ![i] = "retry"]
    /\ UNCHANGED <<shared, ownerVars, tt, ta, tx, history>>

-----------------------------------------------------------------------------
\* The destructor, when no thread uses the queue any more, drops the handles
\* still in it.
Destroy ==
    /\ opc = "idle" /\ \A i \in Thieves : tpc[i] = "idle"
    /\ opc' = "destroyed"
    /\ taken' = [x \in Handles |->
                   IF \E i \in Span(top, bottom) : Get(Current, i) = x
                   THEN taken[x] + 1 ELSE taken[x]]
    /\ UNCHANGED <<shared, ob, ot, ox, thiefVars, npush>>

OwnerStep == \/ PushBegin \/ PushGrow \/ PushGrowThrows \/ PushPut \/ PushPublish
             \/ PopBegin \/ PopEmpty \/ PopReserve \/ PopReread \/ PopCas \/ PopRestore

ThiefStep(i) == \/ StealReadTop(i) \/ StealReadBottom(i) \/ StealReadArray(i)
                \/ StealReadItem(i) \/ StealCas(i) \/ StealCasFails(i)

Next == OwnerStep \/ Destroy \/ \E i \in Thieves : ThiefStep(i)

Spec == Init /\ [][Next]_vars

-----------------------------------------------------------------------------
(* Properties. *)

\* Between lowering bottom and restoring it, pop() has not decided yet: the
\* slot at ob still belongs to the queue.
MidPop == opc \in {"pop_reread", "pop_cas", "pop_restore"}
EffBottom == IF MidPop THEN Inc(ob) ELSE bottom

\* Indices of the queued tasks, and the tasks themselves, oldest first.
Window == IF opc = "destroyed" THEN {} ELSE Span(top, EffBottom)
Deque == IF opc = "destroyed" THEN <<>>
         ELSE [k \in 1..Sub(EffBottom, top) |->
                 Get(Current, (top + (k - 1)) % WordMod)]

\* The task push() was called with and has not queued yet.
InHand == IF opc \in {"push_grow", "push_put", "push_publish"} THEN {ox} ELSE {}

\* Every variable has its type, and a thief's array is one that was allocated.
TypeOK ==
    /\ top \in Words /\ bottom \in Words
    /\ Len(arrays) >= 1
    /\ \A k \in 1..Len(arrays) :
          /\ arrays[k].size \in Nat \ {0}
          /\ arrays[k] \in [size : {arrays[k].size},
                            items : [0..(arrays[k].size - 1) -> Handles]]
    /\ opc \in {"idle", "push_grow", "push_put", "push_publish", "pop_reserve",
                "pop_reread", "pop_cas", "pop_restore", "destroyed"}
    /\ ob \in Words /\ ot \in Words /\ ox \in Handles
    /\ tpc \in [Thieves -> {"idle", "retry", "bottom", "array", "item", "cas"}]
    /\ tt \in [Thieves -> Words]
    /\ ta \in [Thieves -> 1..Len(arrays)]
    /\ tx \in [Thieves -> Handles]
    /\ npush \in 0..MaxPush
    /\ taken \in [Handles -> Nat]

\* Every task given to push() is in exactly one place: with the caller, in one
\* slot of the queue, or handed out once.  Neither the race for the last
\* element, nor a growing array, nor a reused slot loses or duplicates a task,
\* and the null handle is never given out as a task.
Conservation ==
    /\ taken[None] = 0
    /\ \A x \in Tasks :
          LET slots == {i \in Window : Get(Current, i) = x}
          IN  /\ x > npush => taken[x] = 0 /\ slots = {}
              /\ x <= npush =>
                    \/ x \in InHand /\ taken[x] = 0 /\ slots = {}
                    \/ x \notin InHand /\ taken[x] = 0 /\ \E i \in Window : slots = {i}
                    \/ x \notin InHand /\ taken[x] = 1 /\ slots = {}

\* The queued tasks fit in the current array, so that no two live indices
\* share a slot and push() never overwrites a task, although it compares
\* bottom with a value of top that may be stale.
NeverOverrun ==
    /\ Sub(EffBottom, top) <= Current.size
    /\ opc \in {"push_put", "push_publish"} => Sub(bottom, top) < Current.size

\* A thief whose compare-exchange is going to succeed holds the oldest queued
\* task, even if it read the slot from an array that push() replaced since, or
\* while pop() was lowering bottom.
StealSound ==
    \A i \in Thieves :
        tpc[i] = "cas" /\ tt[i] = top =>
            /\ top \in Window
            /\ tx[i] = Get(Current, top)

\* A pop() that has to restore bottom leaves an empty queue: an owner that gets
\* no task from it may go on to steal and to sleep without leaving work behind.
PopMissesOnlyEmpty ==
    [][ opc = "pop_restore" /\ opc' = "idle"
          => Window = {} /\ Window' = {} ]_vars

\* steal() comes back without a task only if the queue is empty or its only
\* task is the one the owner is racing for inside pop(): the task a thief
\* "might have missed" has a thread that takes it (threadpool_scheduler.cpp:166).
StealMissesOnlyContested ==
    [][ \A i \in Thieves :
          tpc[i] = "bottom" /\ tpc'[i] = "idle" =>
             Window = {} \/ (MidPop /\ Window = {ob}) ]_vars

WD == INSTANCE WorkDeque WITH
        Tasks <- Tasks,
        deque <- Deque,
        issued <- (1..npush) \ InHand,
        taken <- [x \in Tasks |-> taken[x]]

\* The queue implements the abstract deque: the owner takes the newest task,
\* thieves the oldest, each operation taking effect in one atomic step.
ImplementsDeque == WD!Spec

-----------------------------------------------------------------------------
(* Fairness: threads are scheduled, the owner keeps calling pop() as the loop
   of a worker does, and a weak compare-exchange that could succeed does not
   fail spuriously forever. *)

ThiefProgress(i) == \/ StealReadBottom(i) \/ StealReadArray(i) \/ StealReadItem(i)
                    \/ StealCas(i)
                    \/ tpc[i] = "retry" /\ StealReadTop(i)
                    \/ top # tt[i] /\ StealCasFails(i)

OwnerProgress == \/ PushGrow \/ PushPut \/ PushPublish
                 \/ PopBegin \/ PopReserve \/ PopReread \/ PopCas \/ PopRestore

Fairness == /\ WF_vars(OwnerProgress)
            /\ \A i \in Thieves : WF_vars(ThiefProgress(i)) /\ SF_vars(StealCas(i))

FairSpec == Spec /\ Fairness

\* Every task given to push() is handed out in the end, whatever the races
\* between the owner and the thieves.
EveryTaskLeaves == \A x \in Tasks : npush >= x ~> taken[x] = 1

\* A call of steal() returns: each retry is paid for by a task that left.
StealReturns == \A i \in Thieves : tpc[i] # "idle" ~> tpc[i] = "idle"
=============================================================================
