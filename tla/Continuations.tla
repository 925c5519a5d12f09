--------------------------- MODULE Continuations ----------------------------
(***************************************************************************)
(* What a task promises about its continuations: one attached before the   *)
(* task finished waits for it; when the task finishes, those waiting are   *)
(* scheduled in the order they were attached, and one that comes too late  *)
(* is scheduled at once by whoever brought it.                             *)
(***************************************************************************)
EXTENDS Naturals, Sequences

CONSTANT Conts

VARIABLES finished,   \* the task has its result
          waiting,    \* attached continuations, in order
          runs        \* how many times each one was scheduled

vars == <<finished, waiting, runs>>

Init == finished = FALSE /\ waiting = <<>> /\ runs = [c \in Conts |-> 0]

IsWaiting(c) == \E k \in 1..Len(waiting) : waiting[k] = c

Attach(c) == /\ ~ IsWaiting(c) /\ runs[c] = 0
             /\ waiting' = Append(waiting, c)
             /\ UNCHANGED <<finished, runs>>

Finish == /\ ~ finished
          /\ finished' = TRUE
          /\ UNCHANGED <<waiting, runs>>

Flush == /\ finished /\ waiting # <<>>
         /\ runs' = [runs EXCEPT ![Head(waiting)] = @ + 1]
         /\ waiting' = Tail(waiting)
         /\ UNCHANGED finished

RunNow(c) == /\ finished /\ ~ IsWaiting(c) /\ runs[c] = 0
             /\ runs' = [runs EXCEPT ![c] = @ + 1]
             /\ UNCHANGED <<finished, waiting>>

Next == Finish \/ Flush \/ \E c \in Conts : Attach(c) \/ RunNow(c)

Spec == Init /\ [][Next]_vars /\ WF_vars(Flush)
=============================================================================
