-------------------------- MODULE ParallelAlgorithms --------------------------
(***************************************************************************)
(* parallel_for, parallel_map_reduce and parallel_invoke (parallel_for.h,  *)
(* parallel_reduce.h, parallel_invoke.h) over local_spawn (task.h).        *)
(*                                                                         *)
(* A call splits its range, spawns the second part as a local_task, which  *)
(* lives in the frame of the call, handles the first part by recursion,    *)
(* and gets the result of the task.  The destructor of the local_task      *)
(* waits for the task, and then spins until the scheduler has dropped its  *)
(* reference, also when the first part has thrown.                         *)
(*                                                                         *)
(* A call is known by its range: <<first, end>>.  Its value is that of     *)
(* parallel_map_reduce in the free monoid: the sequence of the elements,   *)
(* with Initial for each use of the initial value.  The other algorithms   *)
(* do the same and have no value.                                          *)
(*                                                                         *)
(* The queues of the pool are a set: in which order its threads find tasks *)
(* is the business of ThreadPool.                                          *)
(***************************************************************************)
EXTENDS Partitioner, Sequences, FiniteSets

CONSTANTS
    Sizes, Grains,    \* lengths of ranges, and grains for static_partitioner
    Pool, Outside,    \* threads of the pool, and one that is not in it
    Throws            \* functions and schedule() may throw, a scheduler drop a task

Threads == Pool \union {Outside}
Initial == 0

ASSUME ParallelAssumption ==
    /\ Sizes \subseteq Nat /\ Grains \subseteq Nat
    /\ Outside \notin Pool /\ NoThread \notin Threads
    /\ Throws \in BOOLEAN

VARIABLES
    algorithm,   \* [split, sched]: how ranges are split, who runs tasks
    whole,       \* the partitioner of the range
    frame,       \* the calls in progress
    stack,       \* for each thread, calls and the tasks they run in, innermost last
    task,        \* the local tasks spawned: state, scheduler's reference, value
    applied,     \* how often each element was passed to the function
    moved,       \* tasks that ran on another thread than spawned them
    faulty,      \* something has thrown, or a task was dropped
    answer       \* what the outermost call returned or threw

input == <<algorithm, whole>>
vars == <<input, frame, stack, task, applied, moved, faulty, answer>>

Id(p) == <<p.first, p.end>>

Call(p) == [part |-> p, pc |-> "split", next |-> p.first, sub |-> <<0, 0>>,
            value |-> <<>>, ok |-> TRUE]

Put(f, x, y) == [z \in DOMAIN f \union {x} |-> IF z = x THEN y ELSE f[z]]
Remove(f, x) == [z \in DOMAIN f \ {x} |-> f[z]]

Top(t) == stack[t][Len(stack[t])]
Push(t, c) == stack' = [stack EXCEPT ![t] = Append(@, c)]
Pop(t) == stack' = [stack EXCEPT ![t] = SubSeq(@, 1, Len(@) - 1)]

\* The innermost call of t is at p.
At(t, p) == stack[t] # <<>> /\ Top(t) \in DOMAIN frame /\ frame[Top(t)].pc = p
Here(t) == frame[Top(t)]
Become(t, f) == frame' = [frame EXCEPT ![Top(t)] = f]

Final == {"completed", "canceled"}

Init ==
    /\ \E split \in {"static", "auto", "invoke"}, sched \in {"pool", "inline"} :
          algorithm = [split |-> split, sched |-> sched]
    /\ \E n \in Sizes, t \in Threads :
          /\ \E g \in IF algorithm.split = "static" THEN Grains ELSE {auto_grain_size(n)} :
                whole = NewPartitioner(1, 1 + n, g)
          /\ stack = [u \in Threads |-> IF u = t THEN <<Id(whole)>> ELSE <<>>]
    /\ frame = Put(<<>>, Id(whole), Call(whole))
    /\ task = <<>>
    /\ applied = [i \in Elements(whole) |-> 0]
    /\ moved = {} /\ faulty = FALSE
    /\ answer = [state |-> "none", value |-> <<>>]

-----------------------------------------------------------------------------
(* A call. *)

Split(p, t) ==
    CASE algorithm.split = "static" -> static_split(p)
      [] algorithm.split = "auto" -> auto_split(p, t)
      [] algorithm.split = "invoke" -> invoke_split(p)

\* The range is not split: the call goes through it.
BeginLoop(t) ==
    /\ At(t, "split")
    /\ LET p == Here(t).part
       IN  /\ Length(Split(p, t).sub) = 0
           /\ Become(t, [Here(t) EXCEPT !.value = <<Initial>>,
                           !.pc = IF Length(p) = 0 THEN "leave" ELSE "loop"])
    /\ UNCHANGED <<input, stack, task, applied, moved, faulty, answer>>

Apply(t) ==
    /\ At(t, "loop")
    /\ LET i == Here(t).next
           last == i + 1 = Here(t).part.end
       IN  /\ applied' = [applied EXCEPT ![i] = @ + 1]
           /\ \/ /\ Become(t, [Here(t) EXCEPT !.value = Append(Here(t).value, i),
                                 !.next = i + 1, !.pc = IF last THEN "leave" ELSE "loop"])
                 /\ UNCHANGED faulty
              \/ /\ Throws
                 /\ Become(t, [Here(t) EXCEPT !.ok = FALSE, !.pc = "leave"])
                 /\ faulty' = TRUE
    /\ UNCHANGED <<input, stack, task, moved, answer>>

\* local_task: one reference is its own, the other the scheduler's.  The inline
\* scheduler runs the task before schedule() returns.
Spawn(t) ==
    /\ At(t, "split")
    /\ LET s == Split(Here(t).part, t)
           k == Id(s.sub)
           inline == algorithm.sched = "inline"
           here == [frame EXCEPT ![Top(t)] =
                       [Here(t) EXCEPT !.part = s.rest, !.sub = k, !.pc = "spawned"]]
       IN  /\ Length(s.sub) # 0
           /\ task' = Put(task, k, [part |-> s.sub, held |-> TRUE, value |-> <<>>,
                                    state |-> IF inline THEN "running" ELSE "queued"])
           /\ frame' = IF inline THEN Put(here, k, Call(s.sub)) ELSE here
           /\ IF inline THEN Push(t, k) ELSE UNCHANGED stack
    /\ UNCHANGED <<input, applied, moved, faulty, answer>>

\* schedule() throws in the constructor of the local_task.
SpawnThrows(t) ==
    /\ Throws /\ At(t, "split") /\ algorithm.sched = "pool"
    /\ Length(Split(Here(t).part, t).sub) # 0
    /\ Become(t, [Here(t) EXCEPT !.ok = FALSE, !.pc = "leave"])
    /\ faulty' = TRUE
    /\ UNCHANGED <<input, stack, task, applied, moved, answer>>

\* The recursive call for the part that stayed.
Recurse(t) ==
    /\ At(t, "spawned")
    /\ LET p == Here(t).part
       IN  /\ frame' = Put([frame EXCEPT ![Top(t)] = [Here(t) EXCEPT !.pc = "rest"]], Id(p), Call(p))
           /\ Push(t, Id(p))
    /\ UNCHANGED <<input, task, applied, moved, faulty, answer>>

\* Faulty variants: the parts are combined in the other order; the exception
\* of the task is not rethrown.
JoinReversed(t) ==
    /\ At(t, "join")
    /\ LET k == task[Here(t).sub]
       IN  /\ k.state \in Final
           /\ Become(t, [Here(t) EXCEPT !.value = k.value \o Here(t).value,
                           !.ok = Here(t).ok /\ k.state = "completed", !.pc = "spin"])
    /\ UNCHANGED <<input, stack, task, applied, moved, faulty, answer>>
JoinSwallows(t) ==
    /\ At(t, "join")
    /\ LET k == task[Here(t).sub]
       IN  /\ k.state \in Final
           /\ Become(t, [Here(t) EXCEPT !.value = Here(t).value \o k.value, !.pc = "spin"])
    /\ UNCHANGED <<input, stack, task, applied, moved, faulty, answer>>

\* get(), or only the wait() of the destructor when the part that stayed threw;
\* then the two values are reduced, which may throw too.
Join(t) ==
    /\ At(t, "join")
    /\ LET k == task[Here(t).sub]
           both == Here(t).ok /\ k.state = "completed"
       IN  /\ k.state \in Final
           /\ \E throws \in {FALSE, Throws /\ both} :
                 /\ Become(t, [Here(t) EXCEPT !.value = Here(t).value \o k.value,
                                 !.ok = both /\ ~ throws, !.pc = "spin"])
                 /\ faulty' = (faulty \/ throws)
    /\ UNCHANGED <<input, stack, task, applied, moved, answer>>

\* Faulty variant: one look at the reference count.
SpinOnce(t) ==
    /\ At(t, "spin")
    /\ Become(t, [Here(t) EXCEPT !.pc = "leave"])
    /\ UNCHANGED <<input, stack, task, applied, moved, faulty, answer>>

\* The rest of ~local_task: until is_unique_ref().
Spin(t) ==
    /\ At(t, "spin")
    /\ ~ task[Here(t).sub].held
    /\ Become(t, [Here(t) EXCEPT !.pc = "leave"])
    /\ UNCHANGED <<input, stack, task, applied, moved, faulty, answer>>

\* The call returns, or throws: into the task it was the function of, into the
\* call below it, or into the program.
Leave(t) ==
    /\ At(t, "leave")
    /\ LET c == Top(t)
           f == frame[c]
           below == stack[t][Len(stack[t]) - 1]
       IN  IF c \in DOMAIN task
           THEN /\ task' = [task EXCEPT ![c] =
                             [task[c] EXCEPT !.value = f.value,
                                !.state = IF f.ok THEN "completed" ELSE "canceled"]]
                /\ frame' = Remove(frame, c)
                /\ UNCHANGED <<stack, answer>>
           ELSE /\ Pop(t)
                /\ IF c = Id(whole)
                   THEN /\ answer' = [state |-> IF f.ok THEN "returned" ELSE "thrown",
                                      value |-> f.value]
                        /\ frame' = Remove(frame, c)
                   ELSE /\ frame' = [Remove(frame, c) EXCEPT ![below] =
                                       [frame[below] EXCEPT !.pc = "join",
                                          !.value = f.value, !.ok = f.ok]]
                        /\ UNCHANGED answer
                /\ UNCHANGED task
    /\ UNCHANGED <<input, applied, moved, faulty>>

-----------------------------------------------------------------------------
(* The scheduler. *)

\* Faulty variant: a thread that waits does nothing else.
FreeWhenIdle(t) == t \in Pool /\ stack[t] = <<>>

\* A worker runs tasks in its main loop and while it waits.  It tests whether its
\* own task has finished before it looks for one to run, and may still find one
\* when it finishes in between; the model lets it do so at any later time.
Free(t) == t \in Pool /\ (stack[t] = <<>> \/ At(t, "join"))

\* The task may be dropped instead, which cancels it.
Take(t) ==
    /\ Free(t)
    /\ \E k \in DOMAIN task :
          /\ task[k].state = "queued"
          /\ Push(t, k)
          /\ \/ /\ task' = [task EXCEPT ![k].state = "running"]
                /\ frame' = Put(frame, k, Call(task[k].part))
                /\ moved' = IF task[k].part.last = t THEN moved ELSE moved \union {k}
                /\ UNCHANGED faulty
             \/ /\ Throws
                /\ task' = [task EXCEPT ![k].state = "canceled"]
                /\ faulty' = TRUE
                /\ UNCHANGED <<frame, moved>>
    /\ UNCHANGED <<input, applied, answer>>

\* The run handle drops its reference, after the continuations of the task.
Release(t) ==
    /\ stack[t] # <<>> /\ Top(t) \notin DOMAIN frame
    /\ task' = [task EXCEPT ![Top(t)].held = FALSE]
    /\ Pop(t)
    /\ UNCHANGED <<input, frame, applied, moved, faulty, answer>>

Step(t) ==
    \/ BeginLoop(t) \/ Apply(t) \/ Spawn(t) \/ SpawnThrows(t) \/ Recurse(t)
    \/ Join(t) \/ Spin(t) \/ Leave(t) \/ Take(t) \/ Release(t)

Next == \E t \in Threads : Step(t)

Spec == Init /\ [][Next]_vars

-----------------------------------------------------------------------------
(* Properties. *)

\* Every variable has its type, and calls are parts of the range.
Calls == {c \in (1..whole.end) \X (1..whole.end) : c[1] <= c[2]}

TypeOK ==
    /\ DOMAIN frame \subseteq Calls /\ DOMAIN task \subseteq Calls
    /\ \A c \in DOMAIN frame :
          frame[c].pc \in {"split", "loop", "spawned", "rest", "join", "spin", "leave"}
    /\ \A k \in DOMAIN task : task[k].state \in {"queued", "running"} \union Final
    /\ stack \in [Threads -> Seq(DOMAIN frame \union DOMAIN task)]
    /\ moved \subseteq DOMAIN task
    /\ faulty \in BOOLEAN /\ answer.state \in {"none", "returned", "thrown"}

\* The chunks static_partitioner makes of n elements.
StaticChunks[n \in Nat] ==
    IF n <= 1 \/ n <= whole.grain THEN 1
    ELSE StaticChunks[(n + 1) \div 2] + StaticChunks[n \div 2]

Chunks == Cardinality({i \in DOMAIN answer.value : answer.value[i] = Initial})

\* The value is that of a sequential reduction, except that the initial value
\* is used once per chunk: it begins with the initial value, and has every
\* element once, in order, whoever ran which part.  With static_partitioner the
\* number of chunks, and so the value, does not depend on the threads.
InOrder(v) ==
    \A i, j \in DOMAIN v : i < j /\ v[i] # Initial /\ v[j] # Initial => v[i] < v[j]

ResultInOrder ==
    /\ answer.state = "returned" =>
          LET v == answer.value
          IN  /\ v # <<>> /\ v[1] = Initial /\ InOrder(v)
              /\ {v[i] : i \in DOMAIN v} \ {Initial} = Elements(whole)
    /\ answer.state = "returned" /\ algorithm.split = "static" =>
          Chunks = StaticChunks[Length(whole)]
    /\ \A i \in Elements(whole) : applied[i] <= 1

\* partitioner.h, auto_partitioner: one chunk for each thread, and more only for
\* tasks that another thread took.
ChunkPerThread ==
    answer.state = "returned" /\ algorithm.split = "auto" /\ whole.grain = 1 =>
        LET atMost == HardwareConcurrency + Cardinality(moved) * (HardwareConcurrency - 1)
            atLeast == IF HardwareConcurrency < Length(whole)
                       THEN HardwareConcurrency ELSE Length(whole)
        IN  Chunks <= atMost /\ Chunks >= atLeast

\* Nothing outlives the frame it refers to: while the scheduler has a reference
\* to a local_task, or the task runs, the call that spawned it is still in
\* progress; when the outermost call has returned or thrown no part of it runs.
TasksInsideFrames ==
    /\ \A k \in DOMAIN task : task[k].held =>
          \E c \in DOMAIN frame :
              frame[c].sub = k /\ frame[c].pc \in {"spawned", "rest", "join", "spin"}
    /\ answer.state # "none" => \A t \in Threads : stack[t] = <<>>

\* The algorithm throws if and only if something has thrown in any part of it,
\* or a part was dropped.
ErrorsSurface == answer.state # "none" => (answer.state = "thrown" <=> faulty)

-----------------------------------------------------------------------------
(* Fairness: every thread runs on; a worker that is free takes a task. *)

FairSpec == Spec /\ \A t \in Threads : WF_vars(Step(t))

\* Every call ends, however waits are nested on the stacks of the workers.
AlgorithmEnds == <>(answer.state # "none")
=============================================================================
