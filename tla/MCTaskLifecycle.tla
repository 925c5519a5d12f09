--------------------------- MODULE MCTaskLifecycle ---------------------------
(***************************************************************************)
(* Small families of tasks for TaskLifecycle.                              *)
(***************************************************************************)
EXTENDS TaskLifecycle, TLC

CONSTANTS r, c, d, e, i, j     \* the tasks

\* c continues r and d continues c.
ChainParent == (c :> r) @@ (d :> c) @@ [t \in Tasks |-> None]

\* d and e continue c.
ForkParent == (d :> c) @@ (e :> c) @@ [t \in Tasks |-> None]

\* d and e return i, which returns j.
ForkInner == (d :> i) @@ (e :> i) @@ (i :> j) @@ [t \in Tasks |-> None]

\* No task returns a task.
PlainInner == [t \in Tasks |-> None]
=============================================================================
