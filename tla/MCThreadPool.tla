---------------------------- MODULE MCThreadPool ----------------------------
(***************************************************************************)
(* User programs for ThreadPool.  Each program is a script per task and    *)
(* one for the thread that owns the pool.                                  *)
(***************************************************************************)
EXTENDS ThreadPool, TLC

CONSTANTS r, a, b, c      \* the tasks

spawn(t) == [op |-> "spawn", task |-> t]
wait(t) == [op |-> "wait", task |-> t]

\* Fork and join: a and b are children of r, which waits for b only; a waits for
\* r, and nobody for a.  A task c nobody waits for follows from outside.
ForkJoin == (r :> <<spawn(b), spawn(a), wait(b)>>) @@ (a :> <<wait(r)>>)
            @@ (b :> <<>>) @@ (c :> <<>>)
ForkJoinMain == <<spawn(r), wait(r), spawn(c)>>
=============================================================================
