----------------------------- MODULE WorkDeque ------------------------------
(***************************************************************************)
(* What a work-stealing queue promises to the thread pool: the tasks of    *)
(* one worker form a double-ended queue.  The owner appends at the bottom  *)
(* and takes the newest task back; thieves take the oldest one; destroying *)
(* the queue releases whatever is left.  Every task leaves it once.        *)
(***************************************************************************)
EXTENDS Naturals, Sequences

CONSTANT Tasks     \* the tasks that may be offered to the queue

VARIABLES
    deque,    \* tasks in the queue, oldest first
    issued,   \* tasks that were offered to push()
    taken     \* how many run handles to each task were given out

vars == <<deque, issued, taken>>

Init == /\ deque = <<>>
        /\ issued = {}
        /\ taken = [x \in Tasks |-> 0]

Give(x) == taken' = [taken EXCEPT ![x] = @ + 1]

\* push() succeeded: x is the newest task.
Push(x) == /\ x \notin issued
           /\ issued' = issued \union {x}
           /\ deque' = Append(deque, x)
           /\ UNCHANGED taken

\* push() threw: the handle stays with the caller.
Refuse(x) == /\ x \notin issued
             /\ issued' = issued \union {x}
             /\ Give(x)
             /\ UNCHANGED deque

\* pop() returned a task: the newest one.
PopNewest == /\ deque # <<>>
             /\ Give(deque[Len(deque)])
             /\ deque' = SubSeq(deque, 1, Len(deque) - 1)
             /\ UNCHANGED issued

\* steal() returned a task: the oldest one.
StealOldest == /\ deque # <<>>
               /\ Give(Head(deque))
               /\ deque' = Tail(deque)
               /\ UNCHANGED issued

\* The destructor released every task still queued.
Drain == /\ deque' = <<>>
         /\ taken' = [x \in Tasks |->
                        IF \E i \in 1..Len(deque) : deque[i] = x
                        THEN taken[x] + 1 ELSE taken[x]]
         /\ UNCHANGED issued

Next == \/ \E x \in Tasks : Push(x) \/ Refuse(x)
        \/ PopNewest
        \/ StealOldest
        \/ Drain

Spec == Init /\ [][Next]_vars
=============================================================================
