---------------------- MODULE ParallelAlgorithms_proofs ----------------------
(***************************************************************************)
(* What the splits of Partitioner guarantee, for ranges, grain sizes and   *)
(* numbers of threads of any size: the two parts are the range, in order   *)
(* and without overlap; the recursion of the parallel algorithms ends; and *)
(* auto_partitioner hands out exactly the threads it was given.            *)
(*                                                                         *)
(* And what that means for the calls of ParallelAlgorithms, for any pool   *)
(* and any range, with exceptions and dropped tasks: the calls form a tree *)
(* of ranges, in which nothing outlives what it refers to (IInv); and the  *)
(* value of each is that of its range, in as many chunks as the threads it *)
(* was given, and the tasks in it that moved, account for (VInv).          *)
(***************************************************************************)
EXTENDS ParallelAlgorithms, SequenceTheorems, FiniteSetTheorems, WellFoundedInduction, TLAPS
\* The partitioners of ranges of any length; Ids are the thread ids.
Partitioners(Ids) ==
    {p \in [first : Int, end : Int, grain : Nat, threads : Nat, last : Ids] : p.first <= p.end}

\* s is p in two adjoining parts.  When there are two, both are smaller than p
\* and neither is empty; when there is one, it is all of p.
Halves(p, s) ==
    /\ s.rest.first = p.first /\ s.rest.end = s.sub.first /\ s.sub.end = p.end
    /\ Length(s.rest) >= 0 /\ Length(s.sub) >= 0
    /\ Length(s.sub) # 0 => Length(s.rest) \in 1..(Length(p) - 1)
                            /\ Length(s.sub) \in 1..(Length(p) - 1)

-----------------------------------------------------------------------------
(* Adjoining parts partition the elements. *)

\* Halves have the elements of the whole, those of the first below those of
\* the second.
LEMMA HalvesPartition ==
    ASSUME NEW p, NEW s, p.first \in Int, p.end \in Int, s.sub.first \in Int, Halves(p, s)
    PROVE  /\ Elements(s.rest) \union Elements(s.sub) = Elements(p)
           /\ \A i \in Elements(s.rest), j \in Elements(s.sub) : i < j
<1>1. p.first <= s.sub.first /\ s.sub.first <= p.end
  BY DEF Halves, Length
<1>2. Elements(s.rest) = p.first .. (s.sub.first - 1)
  BY DEF Halves, Elements
<1>3. Elements(s.sub) = s.sub.first .. (p.end - 1)
  BY DEF Halves, Elements
<1>4. Elements(p) = p.first .. (p.end - 1)
  BY DEF Elements
<1> QED
  BY <1>1, <1>2, <1>3, <1>4

\* A range that is not split stays whole, and what is returned is empty.
LEMMA WholeHalves ==
    ASSUME NEW Ids, NoThread \in Ids, NEW p \in Partitioners(Ids)
    PROVE  /\ Halves(p, Whole(p))
           /\ Whole(p).sub.first = p.end
           /\ Length(Whole(p).sub) = 0
  BY DEF Partitioners, Halves, Whole, NewPartitioner, Length

\* A range of two elements or more, cut strictly inside it, has two parts.
LEMMA CutHalves ==
    ASSUME NEW Ids, NEW p \in Partitioners(Ids), NEW i \in Int,
           p.first < i, i <= p.end
    PROVE  /\ Halves(p, Cut(p, i))
           /\ Cut(p, i).sub.first = i
  BY DEF Partitioners, Halves, Cut, Length

-----------------------------------------------------------------------------
(* static_partitioner and parallel_invoke. *)

\* split() of static_partitioner: every element is in one part, the parts keep
\* their order, the recursion ends, and a range that is not split again is
\* within the grain size (or one element, when the grain size is 0).
THEOREM StaticSplitPartitions ==
    ASSUME NEW Ids, NoThread \in Ids, NEW p \in Partitioners(Ids)
    PROVE  LET s == static_split(p)
           IN  /\ Halves(p, s)
               /\ Elements(s.rest) \union Elements(s.sub) = Elements(p)
               /\ \A i \in Elements(s.rest), j \in Elements(s.sub) : i < j
               /\ Length(s.sub) = 0 => Length(p) <= p.grain \/ Length(p) = 1
<1> DEFINE s == static_split(p)
           mid == p.first + (Length(p) + 1) \div 2
<1>1. p.first \in Int /\ p.end \in Int /\ p.grain \in Nat /\ p.first <= p.end
  BY DEF Partitioners
<1>2. /\ Halves(p, s) /\ s.sub.first \in Int
      /\ Length(s.sub) = 0 => Length(p) <= p.grain \/ Length(p) = 1
  <2>1. CASE Length(p) <= p.grain
    BY <2>1, <1>1, WholeHalves DEF static_split
  <2>2. CASE ~ (Length(p) <= p.grain)
    <3>1. mid \in Int /\ p.first < mid /\ mid <= p.end
      BY <2>2, <1>1 DEF Length
    <3>2. s = Cut(p, mid)
      BY <2>2 DEF static_split
    <3>3. Halves(p, s) /\ s.sub.first = mid
      BY <3>1, <3>2, CutHalves
    <3>4. Length(s.sub) = p.end - mid
      BY <3>3 DEF Halves, Length
    <3>5. Length(s.sub) = 0 => Length(p) = 1
      BY <3>4, <2>2, <1>1 DEF Length
    <3> QED
      BY <3>1, <3>3, <3>5
  <2> QED
    BY <2>1, <2>2
<1> QED
  BY <1>1, <1>2, HalvesPartition

\* parallel_invoke: the same, down to single functions.
THEOREM InvokeSplitPartitions ==
    ASSUME NEW Ids, NoThread \in Ids, NEW p \in Partitioners(Ids)
    PROVE  LET s == invoke_split(p)
           IN  /\ Halves(p, s)
               /\ Elements(s.rest) \union Elements(s.sub) = Elements(p)
               /\ \A i \in Elements(s.rest), j \in Elements(s.sub) : i < j
               /\ Length(s.sub) = 0 => Length(p) <= 1
<1> DEFINE s == invoke_split(p)
           mid == p.first + Length(p) \div 2
<1>1. p.first \in Int /\ p.end \in Int /\ p.first <= p.end
  BY DEF Partitioners
<1>2. /\ Halves(p, s) /\ s.sub.first \in Int
      /\ Length(s.sub) = 0 => Length(p) <= 1
  <2>1. CASE Length(p) <= 1
    BY <2>1, <1>1, WholeHalves DEF invoke_split
  <2>2. CASE ~ (Length(p) <= 1)
    <3>1. mid \in Int /\ p.first < mid /\ mid < p.end
      BY <2>2, <1>1 DEF Length
    <3>2. s = Cut(p, mid)
      BY <2>2 DEF invoke_split
    <3>3. Halves(p, s) /\ s.sub.first = mid
      BY <3>1, <3>2, <1>1, CutHalves
    <3>4. Length(s.sub) = p.end - mid
      BY <3>3 DEF Halves, Length
    <3> QED
      BY <3>1, <3>3, <3>4, <1>1
  <2> QED
    BY <2>1, <2>2
<1> QED
  BY <1>1, <1>2, HalvesPartition

-----------------------------------------------------------------------------
(* auto_partitioner. *)

\* The grain size that is chosen for a range of any length is usable.
THEOREM GrainInBounds == \A dist \in Nat : auto_grain_size(dist) \in 1..2048
<1> SUFFICES ASSUME NEW dist \in Nat PROVE auto_grain_size(dist) \in 1..2048
  OBVIOUS
<1>1. HardwareConcurrency \in Nat /\ 8 * HardwareConcurrency > 0
  BY HardwareAssumption
<1>2. dist \div (8 * HardwareConcurrency) \in Int
  BY <1>1
<1> QED
  BY <1>2 DEF auto_grain_size

\* The grain of an auto partitioner, as a type.
LEMMA GrainIsNatural == ASSUME NEW n \in Nat PROVE auto_grain_size(n) \in Nat
<1>1. HardwareConcurrency \in Nat /\ 8 * HardwareConcurrency > 0
  BY HardwareAssumption
<1>2. n \div (8 * HardwareConcurrency) \in Int
  BY <1>1
<1> QED
  BY <1>2 DEF auto_grain_size

\* The number of threads a split goes by.
ThreadsFor(p, thread) == IF p.last # thread THEN HardwareConcurrency ELSE p.threads

\* split() of auto_partitioner: what static_partitioner guarantees; and the two
\* parts share out the threads of the range, at least one each, and remember
\* who split them.
THEOREM AutoSplitPartitions ==
    ASSUME NEW Ids, NoThread \in Ids, NEW p \in Partitioners(Ids), NEW thread \in Ids
    PROVE  LET s == auto_split(p, thread)
           IN  /\ Halves(p, s)
               /\ Elements(s.rest) \union Elements(s.sub) = Elements(p)
               /\ \A i \in Elements(s.rest), j \in Elements(s.sub) : i < j
               /\ Length(s.sub) # 0 =>
                      /\ s.rest.threads + s.sub.threads = ThreadsFor(p, thread)
                      /\ s.rest.threads >= 1 /\ s.sub.threads >= 1
                      /\ s.rest.last = thread /\ s.sub.last = thread
<1> DEFINE s == auto_split(p, thread)
           n == ThreadsFor(p, thread)
           q == [p EXCEPT !.last = thread]
           mid == p.first + (Length(p) + 1) \div 2
<1>1. /\ p.first \in Int /\ p.end \in Int /\ p.grain \in Nat /\ p.first <= p.end
      /\ n \in Nat
  BY HardwareAssumption DEF Partitioners, ThreadsFor
<1>2. CASE Length(p) <= p.grain \/ n <= 1
  <2>1. s = Whole(p)
    BY <1>2 DEF auto_split, ThreadsFor
  <2> QED
    BY <2>1, <1>1, WholeHalves, HalvesPartition
<1>3. CASE ~ (Length(p) <= p.grain \/ n <= 1)
  <2>1. /\ q \in Partitioners(Ids) /\ q.first = p.first /\ q.end = p.end
        /\ q.grain = p.grain /\ q.last = thread
    BY DEF Partitioners
  <2>2. Length(q) = Length(p)
    BY <2>1 DEF Length
  <2>3. static_split(q) = Cut(q, mid)
    BY <1>3, <2>1, <2>2 DEF static_split
  <2>4. mid \in Int /\ p.first < mid /\ mid <= p.end
    BY <1>1, <1>3 DEF Length
  <2>5. s = [rest |-> [Cut(q, mid).rest EXCEPT !.threads = Keep(n)],
             sub  |-> [Cut(q, mid).sub EXCEPT !.threads = n \div 2]]
    BY <1>3, <2>3 DEF auto_split, ThreadsFor
  <2>6. /\ s.rest = [q EXCEPT !.end = mid, !.threads = Keep(n)]
        /\ s.sub = [q EXCEPT !.first = mid, !.threads = n \div 2]
    BY <2>1, <2>5 DEF Cut, Partitioners
  <2>7. /\ s.rest.first = p.first /\ s.rest.end = mid
        /\ s.sub.first = mid /\ s.sub.end = p.end
        /\ s.rest.threads = Keep(n) /\ s.sub.threads = n \div 2
        /\ s.rest.last = thread /\ s.sub.last = thread
    BY <2>1, <2>6 DEF Partitioners
  <2>8. Halves(p, s)
    BY <2>7, <2>4, <1>1 DEF Halves, Length
  <2>9. /\ Keep(n) + n \div 2 = n
        /\ Keep(n) >= 1 /\ n \div 2 >= 1
    BY <1>1, <1>3 DEF Keep
  <2> HIDE DEF s
  <2>10. s.rest.threads + s.sub.threads = n
    BY <2>7, <2>9
  <2>11. s.rest.threads >= 1 /\ s.sub.threads >= 1
    BY <2>7, <2>9
  <2>12. /\ Elements(s.rest) \union Elements(s.sub) = Elements(p)
         /\ \A i \in Elements(s.rest), j \in Elements(s.sub) : i < j
    BY <2>4, <2>7, <2>8, <1>1, HalvesPartition
  <2>13. s = auto_split(p, thread)
    BY DEF s
  <2> QED
    BY <2>7, <2>8, <2>10, <2>11, <2>12, <2>13
<1> QED
  BY <1>2, <1>3

-----------------------------------------------------------------------------
(* Ranges as pairs. *)

\* One range is in another, is outside it, or has elements.
Within(x, c) == c[1] <= x[1] /\ x[2] <= c[2]
Apart(x, c) == x[2] <= c[1] \/ c[2] <= x[1]
Proper(x) == x[1] < x[2]
Has(x, i) == x[1] <= i /\ i < x[2]

\* r and s are a range c in two parts.
InTwo(c, r, s) == r[1] = c[1] /\ r[2] = s[1] /\ s[2] = c[2] /\ Proper(r) /\ Proper(s)

-----------------------------------------------------------------------------
(* The inductive invariant.  It is stated of any calls F, tasks T and stacks *)
(* S, so that an action that does two things can be taken in two steps.  w   *)
(* is the range of the outermost call.                                       *)

Ranges == Int \X Int
Parts == Partitioners(Threads \union {NoThread})
Pcs == {"split", "loop", "spawned", "rest", "join", "spin", "leave"}
Frames == [part : Parts, pc : Pcs, next : Int, sub : Ranges, value : Seq(Int), ok : BOOLEAN]
Locals == [part : Parts, held : BOOLEAN, value : Seq(Int),
           state : {"queued", "running"} \union Final]

IsCalls(F) == DOMAIN F \subseteq Ranges /\ F \in [DOMAIN F -> Frames]
IsTasks(T) == DOMAIN T \subseteq Ranges /\ T \in [DOMAIN T -> Locals]

\* The part of a call that stays.
Kept(f) == Id(f.part)

\* Calls that have spawned a task.
Parents == {"spawned", "rest", "join", "spin"}

\* What can still do something.
Touched(F, T) == DOMAIN F \union DOMAIN T
Live(x, F, T) == x \in DOMAIN F \/ (x \in DOMAIN T /\ T[x].held)

\* A call has its range, or both parts of it, depending on where it is.
CallShape(c, f, T, w) ==
    /\ Within(c, w) /\ (c # w => Proper(c))
    /\ f.pc \in {"split", "loop"} => Kept(f) = c
    /\ f.pc = "split" => f.next = c[1]
    /\ f.pc = "loop" => Has(c, f.next)
    /\ f.pc \in Parents => InTwo(c, Kept(f), f.sub) /\ f.sub \in DOMAIN T
    /\ f.pc \in {"split", "loop", "spawned", "rest"} => f.ok

TaskShape(k, g, F, w) ==
    /\ Within(k, w) /\ k # w /\ Proper(k)
    /\ Id(g.part) = k
    /\ g.state = "running" <=> k \in DOMAIN F
    /\ g.state \notin Final => g.held

Shapes(F, T, w) ==
    /\ \A c \in DOMAIN F : CallShape(c, F[c], T, w)
    /\ \A k \in DOMAIN T : TaskShape(k, T[k], F, w)

\* Calls and tasks are in one another, or apart.
Laminar(X) == \A a, b \in X : Within(a, b) \/ Within(b, a) \/ Apart(a, b)

\* What may be inside a call f, depending on where it is.
Inner(x, f, F, T) ==
    /\ f.pc \notin {"split", "loop"}
    /\ f.pc = "spawned" => Within(x, f.sub) /\ (Live(x, F, T) => T[f.sub].held)
    /\ f.pc = "rest" =>
          Within(x, Kept(f)) \/ (Within(x, f.sub) /\ (Live(x, F, T) => T[f.sub].held))
    /\ f.pc \in {"join", "spin"} /\ Live(x, F, T) => Within(x, f.sub) /\ T[f.sub].held
    /\ f.pc = "leave" => ~ Live(x, F, T)

Inside(x, c) == Within(x, c) /\ x # c

Nested(F, T) ==
    /\ \A c \in DOMAIN F : \A x \in Touched(F, T) : Inside(x, c) => Inner(x, F[c], F, T)
    /\ \A k \in DOMAIN T \ DOMAIN F : \A x \in Touched(F, T) :
          Inside(x, k) => ~ Live(x, F, T) /\ T[k].state # "queued"

\* A task that is still held was spawned by a call that is in progress, and
\* that has it joined only when it is finished.
Waited(k, f, T) == f.sub = k /\ f.pc \in Parents /\ (f.pc = "spin" => T[k].state \in Final)
Covered(F, T) == \A k \in DOMAIN T : T[k].held => \E c \in DOMAIN F : Waited(k, F[c], T)

Tree(F, T, w) == Shapes(F, T, w) /\ Laminar(Touched(F, T)) /\ Nested(F, T) /\ Covered(F, T)

\* What is on a stack is in progress, or is a finished task that is still held; a
\* call of the recursion is above its caller; and everything is there once.
On(S, t, n, x) == n \in 1..Len(S[t]) /\ S[t][n] = x
Called(S, F, t, n, x) == \E c \in DOMAIN F : On(S, t, n - 1, c) /\ F[c].pc = "rest" /\ Kept(F[c]) = x
Placed(S, F, T, w, t, n, x) ==
    /\ x \in DOMAIN F \/ (x \in DOMAIN T /\ T[x].held /\ T[x].state \in Final)
    /\ x \in DOMAIN T \/ (n = 1 /\ x = w) \/ Called(S, F, t, n, x)
Stacks(S, F, T, w) ==
    /\ \A t \in Threads : \A n \in Nat : \A x \in Ranges : On(S, t, n, x) => Placed(S, F, T, w, t, n, x)
    /\ \A t, u \in Threads : \A n, m \in Nat : \A x \in Ranges :
          On(S, t, n, x) /\ On(S, u, m, x) => t = u /\ n = m

\* What has thrown is on its way to the outermost call.
Failing(f, T) == ~ f.ok \/ (f.pc \in {"spawned", "rest", "join"} /\ T[f.sub].state = "canceled")
Errors(F, T, fault, thrown) ==
    /\ ~ fault => /\ \A c \in DOMAIN F : F[c].ok
                  /\ \A k \in DOMAIN T : T[k].state # "canceled"
                  /\ ~ thrown
    /\ fault => thrown \/ \E c \in DOMAIN F : Failing(F[c], T)

\* No call has reached element i of these yet: A counts the applications.
Ahead(c, f, i) ==
    \/ f.pc = "split" /\ Has(c, i)
    \/ f.pc = "loop" /\ f.next <= i /\ i < c[2]
    \/ f.pc = "spawned" /\ Has(Kept(f), i)
Fresh(F, T, A) ==
    \A i \in DOMAIN A :
        /\ A[i] <= 1
        /\ \A c \in DOMAIN F : Ahead(c, F[c], i) => A[i] = 0
        /\ \A k \in DOMAIN T : T[k].state = "queued" /\ Has(k, i) => A[i] = 0

\* Unless something has thrown, an element that was not passed to the function
\* is still ahead of a call, or in a task that is queued.
Due(F, T, A, fault) ==
    ~ fault => \A i \in DOMAIN A :
        \/ A[i] = 1
        \/ \E c \in DOMAIN F : Ahead(c, F[c], i)
        \/ \E k \in DOMAIN T : T[k].state = "queued" /\ Has(k, i)

\* After the outermost call nothing is left.
Thrown == answer.state = "thrown"
Ended == answer.state # "none" =>
            /\ \A t \in Threads : stack[t] = <<>>
            /\ DOMAIN frame = {} /\ \A k \in DOMAIN task : ~ task[k].held

\* The types the proof needs; TypeOK has less.
Types ==
    /\ algorithm \in [split : {"static", "auto", "invoke"}, sched : {"pool", "inline"}]
    /\ whole \in Parts /\ whole.first = 1
    /\ IsCalls(frame) /\ IsTasks(task)
    /\ stack \in [Threads -> Seq(Ranges)]
    /\ applied \in [Elements(whole) -> Nat]
    /\ moved \subseteq DOMAIN task
    /\ faulty \in BOOLEAN
    /\ answer \in [state : {"none", "returned", "thrown"}, value : Seq(Int)]

IInv ==
    /\ Types /\ Tree(frame, task, Id(whole)) /\ Stacks(stack, frame, task, Id(whole))
    /\ Errors(frame, task, faulty, Thrown)
    /\ Fresh(frame, task, applied) /\ Due(frame, task, applied, faulty) /\ Ended

-----------------------------------------------------------------------------
(* Values: the second inductive invariant, on top of the first. *)

\* Where the initial value was used, and how often.
Initials(v) == {i \in DOMAIN v : v[i] = Initial}
Count(v) == Cardinality(Initials(v))

\* v is the value of the elements from a up to b, each once and in order.
Spells(v, a, b) ==
    /\ v \in Seq(Int) /\ v # <<>> /\ v[1] = Initial /\ InOrder(v)
    /\ {v[i] : i \in DOMAIN v} \ {Initial} = a .. (b - 1)

Size(x) == x[2] - x[1]

\* The tasks in x that were taken by another thread.
MovedIn(x, M) == Cardinality({k \in M : Within(k, x)})

\* What does not change: how ranges are split, and into how many chunks.
Rules == [split |-> algorithm.split, grain |-> whole.grain, chunks |-> StaticChunks, whole |-> Id(whole)]

\* The chunks of v are within what n threads, and the tasks that moved, allow.
Allowed(v, x, n, M, r) ==
    /\ Count(v) <= n + (HardwareConcurrency - 1) * MovedIn(x, M)
    /\ r.grain = 1 => Count(v) >= n \/ Count(v) >= Size(x)

\* v is the value of the range x, which is to use n threads.
Worth(v, x, n, M, r) ==
    /\ Spells(v, x[1], x[2])
    /\ r.split = "static" => Count(v) = r.chunks[Size(x)]
    /\ r.split = "auto" => Allowed(v, x, n, M, r)

\* The threads a call goes by: all of them, when its task has moved.
Effective(c, n, M, r) == IF c \in M \/ c = r.whole THEN HardwareConcurrency ELSE n

\* A call that does not split its range, and one that does.
Unsplit(c, n, M, r) ==
    /\ r.split = "static" => r.chunks[Size(c)] = 1
    /\ r.split = "auto" /\ r.grain = 1 => Size(c) <= 1 \/ Effective(c, n, M, r) <= 1

Divided(c, x, y, a, b, n, M, r) ==
    /\ r.split = "static" => r.chunks[Size(c)] = r.chunks[Size(x)] + r.chunks[Size(y)]
    /\ r.split = "auto" =>
          /\ b >= 1 /\ a \in {b, b + 1} /\ a + b = Effective(c, n, M, r)
          /\ Size(x) \in {Size(y), Size(y) + 1}

\* The threads that the range of a call was given.
Entitled(c, n, F, T, r) ==
    IF c = r.whole THEN n = HardwareConcurrency
    ELSE IF c \in DOMAIN T THEN n = T[c].part.threads
    ELSE \E b \in DOMAIN F : F[b].pc = "rest" /\ Kept(F[b]) = c /\ n = F[b].part.threads

\* What is known of the value of a call.
CallWorth(c, f, n, T, M, r) ==
    /\ f.pc = "split" => c = r.whole \/ f.part.threads = n
    /\ f.pc = "loop" => Spells(f.value, c[1], f.next) /\ Count(f.value) = 1 /\ Unsplit(c, n, M, r)
    /\ f.pc \in Parents => Divided(c, Kept(f), f.sub, f.part.threads, T[f.sub].part.threads, n, M, r)
    /\ f.pc = "join" /\ f.ok => Worth(f.value, Kept(f), f.part.threads, M, r)
    /\ f.pc \in {"spin", "leave"} /\ f.ok => Worth(f.value, c, n, M, r)

CallsWorth(F, T, M, r) ==
    \A c \in DOMAIN F : \A n \in Nat : Entitled(c, n, F, T, r) => CallWorth(c, F[c], n, T, M, r)

TaskWorth(k, g, M, r) == g.state = "completed" => Worth(g.value, k, g.part.threads, M, r)
TasksWorth(T, M, r) == \A k \in DOMAIN T : TaskWorth(k, T[k], M, r)

\* Every part has the grain size of the whole, and no more threads than there
\* are; those of auto_partitioner have one at least.
Equipped(p, r) == p.grain = r.grain /\ p.threads <= HardwareConcurrency
Sharing(p, r) == Equipped(p, r) /\ (r.split = "auto" => p.threads >= 1)
Shared(F, T, r) ==
    /\ \A c \in DOMAIN F : Equipped(F[c].part, r) /\ (F[c].pc \in Parents => Sharing(F[c].part, r))
    /\ \A k \in DOMAIN T : Sharing(T[k].part, r)

\* auto_partitioner sees in which thread the range was split last.
LastSplit(t, c, f, M, r) ==
    /\ f.pc = "split" => IF c = r.whole THEN f.part.last = NoThread
                         ELSE c \in M <=> f.part.last # t
    /\ f.pc = "spawned" => f.part.last = t
Splitters(S, F, M, r) ==
    r.split = "auto" =>
        \A t \in Threads : \A n \in Nat : \A c \in DOMAIN F : On(S, t, n, c) => LastSplit(t, c, F[c], M, r)

\* Tasks that moved are no longer queued.
Moved(T, M) == IsFiniteSet(M) /\ \A k \in M : k \in DOMAIN T /\ T[k].state # "queued"

Valued(S, F, T, M, r) ==
    /\ Moved(T, M) /\ Shared(F, T, r) /\ Splitters(S, F, M, r)
    /\ CallsWorth(F, T, M, r) /\ TasksWorth(T, M, r)

VInv ==
    /\ Valued(stack, frame, task, moved, Rules)
    /\ answer.state = "returned" =>
          Worth(answer.value, Id(whole), HardwareConcurrency, moved, Rules)

-----------------------------------------------------------------------------
(* Ranges. *)

\* Within is a partial order.
LEMMA WithinOrder ==
    /\ \A a \in Ranges : Within(a, a)
    /\ \A a, b, c \in Ranges : Within(a, b) /\ Within(b, c) => Within(a, c)
    /\ \A a, b \in Ranges : Within(a, b) /\ Within(b, a) => a = b
  BY DEF Ranges, Within

\* Parts of ranges that are apart are apart, and have no element in common.
LEMMA ApartParts ==
    /\ \A a, b \in Ranges : Apart(a, b) <=> Apart(b, a)
    /\ \A a, b, x \in Ranges : Within(x, a) /\ Apart(a, b) => Apart(x, b)
    /\ \A a, b, x \in Ranges : Within(x, a) /\ Within(x, b) /\ Proper(x) => ~ Apart(a, b)
  BY DEF Ranges, Within, Apart, Proper

\* The two parts of a range.
LEMMA InTwoParts ==
    \A c, r, s \in Ranges : InTwo(c, r, s) =>
        /\ Inside(r, c) /\ Inside(s, c) /\ Apart(r, s)
        /\ Proper(r) /\ Proper(s)
  BY DEF Ranges, Within, Inside, Apart, Proper, InTwo

\* A range inside one that nothing else is inside of, except what is apart from
\* it, makes no difference to the others.
LEMMA LaminarGrows ==
    ASSUME NEW X, X \subseteq Ranges, Laminar(X), NEW c \in X, NEW k \in Ranges, Within(k, c),
           \A x \in X : Inside(x, c) => Apart(x, k)
    PROVE  Laminar(X \union {k})
  <1>1. \A x \in X : Within(x, k) \/ Within(k, x) \/ Apart(x, k)
    <2>1. SUFFICES ASSUME NEW x \in X
                   PROVE  Within(x, k) \/ Within(k, x) \/ Apart(x, k)
      OBVIOUS
    <2>2. Within(x, c) \/ Within(c, x) \/ Apart(x, c)
      BY DEF Laminar
    <2> QED BY <2>1, <2>2, WithinOrder, ApartParts DEF Inside
  <1>2. Within(k, k)
    BY WithinOrder
  <1> QED BY <1>1, <1>2, ApartParts DEF Laminar

-----------------------------------------------------------------------------
(* The steps the actions are made of.  F and T become F1 and T1. *)

\* The call c becomes f.
Alters(F, F1, c, f) ==
    /\ IsCalls(F1) /\ c \in DOMAIN F /\ f \in Frames
    /\ DOMAIN F1 = DOMAIN F /\ F1[c] = f
    /\ \A d \in DOMAIN F : d # c => F1[d] = F[d]

\* The call x is entered.
Enters(F, F1, x, f) ==
    /\ IsCalls(F1) /\ x \in Ranges /\ f \in Frames
    /\ DOMAIN F1 = DOMAIN F \union {x} /\ F1[x] = f
    /\ \A d \in DOMAIN F : d # x => F1[d] = F[d]

\* The call c is left.
Leaves(F, F1, c) ==
    /\ IsCalls(F1) /\ c \in DOMAIN F /\ DOMAIN F1 = DOMAIN F \ {c}
    /\ \A d \in DOMAIN F : d # c => F1[d] = F[d]

\* The task k becomes g.
TaskIs(T, T1, k, g) ==
    /\ IsTasks(T1) /\ k \in Ranges /\ g \in Locals
    /\ DOMAIN T1 = DOMAIN T \union {k} /\ T1[k] = g
    /\ \A j \in DOMAIN T : j # k => T1[j] = T[j]

\* A call that is just entered.
First(x, f) == f.pc = "split" /\ Kept(f) = x /\ f.next = x[1] /\ f.ok

Given(F, T, w) == IsCalls(F) /\ IsTasks(T) /\ w \in Ranges /\ Tree(F, T, w)

\* Both parts stay, and the call goes on: from f to g.
Goes(c, f, g, T) ==
    /\ g.sub = f.sub
    /\ \/ f.pc = "split" /\ g.pc = "loop" /\ g.next = f.next /\ g.ok = f.ok /\ Kept(g) = Kept(f)
          /\ Proper(c)
       \/ f.pc = "loop" /\ g.pc = "loop" /\ g.next = f.next + 1 /\ g.next < c[2]
          /\ g.ok = f.ok /\ Kept(g) = Kept(f)
       \/ f.pc \in {"split", "loop"} /\ g.pc = "leave"
          /\ (g.ok => IF f.pc = "split" THEN ~ Proper(c) ELSE f.next + 1 = c[2])
       \/ f.pc = "join" /\ g.pc = "spin" /\ T[f.sub].state \in Final /\ Kept(g) = Kept(f)
       \/ f.pc = "spin" /\ g.pc = "leave" /\ ~ T[f.sub].held

\* How it goes on, if something throws or not.
Result(f, g, T, throws) ==
    g.ok <=> f.ok /\ ~ throws /\ (f.pc = "join" => T[f.sub].state = "completed")

\* The function is applied to i.
Applies(A, A1, i) == A1 = [A EXCEPT ![i] = @ + 1]

\* A task is spawned.
Spawns(F, F1, T, T1, c, f, k, g) ==
    /\ Alters(F, F1, c, f) /\ TaskIs(T, T1, k, g)
    /\ F[c].pc = "split" /\ f.pc = "spawned" /\ f.sub = k /\ f.ok = F[c].ok
    /\ InTwo(c, Kept(f), k)
    /\ Id(g.part) = k /\ g.held /\ g.state = "queued"

\* A task is run.
Runs(F, F1, T, T1, k, f, g) ==
    /\ Enters(F, F1, k, f) /\ First(k, f)
    /\ k \in DOMAIN T /\ TaskIs(T, T1, k, g)
    /\ T[k].state = "queued" /\ g.state = "running" /\ g.held = T[k].held /\ g.part = T[k].part

\* The recursive call x.
Recurses(F, F1, c, f, x, g) ==
    /\ c \in DOMAIN F /\ F[c].pc = "spawned" /\ x = Kept(F[c])
    /\ IsCalls(F1) /\ DOMAIN F1 = DOMAIN F \union {x}
    /\ f \in Frames /\ g \in Frames /\ F1[x] = g
    /\ (x # c => F1[c] = f)
    /\ \A d \in DOMAIN F : d # x /\ d # c => F1[d] = F[d]
    /\ f.pc = "rest" /\ f.sub = F[c].sub /\ Kept(f) = Kept(F[c]) /\ f.ok = F[c].ok
    /\ First(x, g)

\* A task ends; a call returns into b; a task is dropped, or released.
EndsTask(F, F1, T, T1, c, g) ==
    /\ Leaves(F, F1, c) /\ c \in DOMAIN T /\ TaskIs(T, T1, c, g)
    /\ F[c].pc = "leave" /\ g.held = T[c].held /\ g.part = T[c].part
    /\ g.state = IF F[c].ok THEN "completed" ELSE "canceled"
Returns(F, F1, T, c, b, f) ==
    /\ IsCalls(F1) /\ c \in DOMAIN F \ DOMAIN T /\ b \in DOMAIN F /\ b # c
    /\ DOMAIN F1 = DOMAIN F \ {c} /\ f \in Frames /\ F1[b] = f
    /\ \A d \in DOMAIN F : d # b /\ d # c => F1[d] = F[d]
    /\ F[c].pc = "leave" /\ F[b].pc = "rest" /\ Kept(F[b]) = c
    /\ f.pc = "join" /\ f.sub = F[b].sub /\ Kept(f) = Kept(F[b]) /\ f.ok = F[c].ok
Cancels(T, T1, k, g) ==
    /\ k \in DOMAIN T /\ TaskIs(T, T1, k, g)
    /\ T[k].state = "queued" /\ g.state = "canceled" /\ g.held = T[k].held /\ g.part = T[k].part
Releases(F, T, T1, k, g) ==
    /\ k \in DOMAIN T \ DOMAIN F /\ TaskIs(T, T1, k, g) /\ T[k].state \in Final
    /\ ~ g.held /\ g.state = T[k].state /\ g.part = T[k].part

-----------------------------------------------------------------------------
(* The tree of calls. *)

\* What the tree says of its parts.
LEMMA TreeFacts ==
    ASSUME NEW F, NEW T, NEW w, Given(F, T, w)
    PROVE  /\ Touched(F, T) \subseteq Ranges /\ DOMAIN F \subseteq Touched(F, T)
           /\ DOMAIN T \subseteq Touched(F, T) /\ Laminar(Touched(F, T))
           /\ \A c \in DOMAIN F : F[c] \in Frames /\ CallShape(c, F[c], T, w) /\ Live(c, F, T)
           /\ \A k \in DOMAIN T : T[k] \in Locals /\ TaskShape(k, T[k], F, w)
           /\ \A c \in DOMAIN F : \A x \in Touched(F, T) : Inside(x, c) => Inner(x, F[c], F, T)
           /\ \A k \in DOMAIN T \ DOMAIN F : \A x \in Touched(F, T) :
                Inside(x, k) => ~ Live(x, F, T) /\ T[k].state # "queued"
  BY DEF Given, IsCalls, IsTasks, Tree, Shapes, Nested, Touched, Live

\* A part of a range has its kind.
LEMMA KeptRange == \A f \in Frames : Kept(f) \in Ranges /\ f.sub \in Ranges
  BY DEF Frames, Kept, Id, Parts, Partitioners, Ranges

\* What is inside a call is also inside those the call is inside of.
LEMMA InnerDown ==
    ASSUME NEW F, NEW T, NEW f \in Frames, NEW x \in Ranges, NEW y \in Ranges, Within(y, x),
           Inner(x, f, F, T), Live(x, F, T)
    PROVE  Inner(y, f, F, T)
  <1>1. Kept(f) \in Ranges /\ f.sub \in Ranges
    BY KeptRange
  <1> QED BY <1>1, WithinOrder DEF Inner

\* A call that nothing is inside of: a new range in it is inside only what the
\* call is inside of.
LEMMA NewRange ==
    ASSUME NEW F, NEW T, NEW w, Given(F, T, w), NEW c \in DOMAIN F,
           NEW k \in Ranges, Inside(k, c), Proper(k),
           \A x \in Touched(F, T) : Inside(x, c) => Apart(x, k)
    PROVE  /\ k \notin Touched(F, T) /\ Laminar(Touched(F, T) \union {k})
           /\ \A d \in DOMAIN F : Inside(k, d) => d = c \/ Inner(k, F[d], F, T)
           /\ \A j \in DOMAIN T \ DOMAIN F : ~ Within(k, j)
           /\ \A x \in Touched(F, T) : ~ Inside(x, k)
               \/ (Within(x, k) /\ Inside(x, c))
  <1>1. /\ Touched(F, T) \subseteq Ranges /\ c \in Touched(F, T) /\ c \in Ranges
        /\ Laminar(Touched(F, T)) /\ Live(c, F, T)
    BY TreeFacts
  <1>2. k \notin Touched(F, T)
    BY ApartParts, WithinOrder
  <1>3. Laminar(Touched(F, T) \union {k})
    BY <1>1, LaminarGrows DEF Inside
  <1>4. \A x \in Touched(F, T) : Within(k, x) => x = c \/ Inside(c, x)
    <2>1. SUFFICES ASSUME NEW x \in Touched(F, T), Within(k, x), x # c
                   PROVE  Inside(c, x)
      OBVIOUS
    <2>2. x \in Ranges /\ Within(k, c)
      BY <1>1 DEF Inside
    <2>3. ~ Apart(x, c) /\ ~ Apart(x, k)
      BY <1>1, <2>1, <2>2, ApartParts, WithinOrder
    <2>4. ~ Within(x, c)
      BY <2>1, <2>3 DEF Inside
    <2> QED BY <1>1, <2>1, <2>3, <2>4 DEF Laminar, Inside
  <1>5. \A d \in DOMAIN F : Inside(k, d) => d = c \/ Inner(k, F[d], F, T)
    <2>1. SUFFICES ASSUME NEW d \in DOMAIN F, Inside(k, d), d # c
                   PROVE  Inner(k, F[d], F, T)
      OBVIOUS
    <2>2. d \in Touched(F, T) /\ F[d] \in Frames /\ d \in Ranges
      BY TreeFacts
    <2>3. Inside(c, d)
      BY <1>4, <2>1, <2>2 DEF Inside
    <2>4. Inner(c, F[d], F, T)
      BY <1>1, <2>3, TreeFacts
    <2> QED BY <1>1, <2>2, <2>4, InnerDown DEF Inside
  <1>6. \A j \in DOMAIN T \ DOMAIN F : ~ Within(k, j)
    <2>1. SUFFICES ASSUME NEW j \in DOMAIN T \ DOMAIN F, Within(k, j) PROVE FALSE
      OBVIOUS
    <2>2. j \in Touched(F, T) /\ j # c
      BY TreeFacts
    <2>3. Inside(c, j)
      BY <1>4, <2>1, <2>2
    <2> QED BY <1>1, <2>3, TreeFacts
  <1>7. \A x \in Touched(F, T) : Inside(x, k) => Inside(x, c)
    <2>1. SUFFICES ASSUME NEW x \in Touched(F, T), Inside(x, k) PROVE Inside(x, c)
      OBVIOUS
    <2>2. x \in Ranges
      BY <1>1
    <2> QED BY <1>1, <2>1, <2>2, WithinOrder DEF Inside
  <1> QED BY <1>2, <1>3, <1>5, <1>6, <1>7 DEF Inside

-----------------------------------------------------------------------------
(* The tree after each step. *)

\* The facts about a new tree, put together.
LEMMA TreeFrom ==
    ASSUME NEW F, NEW T, NEW w \in Ranges, IsCalls(F), IsTasks(T), Laminar(Touched(F, T)),
           \A c \in DOMAIN F : CallShape(c, F[c], T, w),
           \A k \in DOMAIN T : TaskShape(k, T[k], F, w),
           \A c \in DOMAIN F : \A x \in Touched(F, T) : Inside(x, c) => Inner(x, F[c], F, T),
           \A k \in DOMAIN T \ DOMAIN F : \A x \in Touched(F, T) :
              Inside(x, k) => ~ Live(x, F, T) /\ T[k].state # "queued",
           Covered(F, T)
    PROVE  Given(F, T, w)
  BY DEF Given, Tree, Shapes, Nested

\* A call that begins its loop, applies the function, leaves or joins keeps the
\* tree.
LEMMA GoesTree ==
    ASSUME NEW F, NEW F1, NEW T, NEW w, Given(F, T, w), NEW c, NEW f,
           Alters(F, F1, c, f), Goes(c, F[c], f, T)
    PROVE  Given(F1, T, w)
  <1>1. w \in Ranges /\ IsCalls(F1) /\ IsTasks(T) /\ Touched(F1, T) = Touched(F, T)
    BY DEF Given, Alters, Touched
  <1>2. /\ \A x : Live(x, F1, T) <=> Live(x, F, T)
        /\ \A x, g : Inner(x, g, F1, T) <=> Inner(x, g, F, T)
        /\ DOMAIN F1 = DOMAIN F
    <2>1. DOMAIN F1 = DOMAIN F
      BY DEF Alters
    <2>2. \A x : Live(x, F1, T) <=> Live(x, F, T)
      BY <2>1 DEF Live
    <2> QED BY <2>1, <2>2 DEF Inner
  <1>3. c \in DOMAIN F /\ F1[c] = f /\ \A d \in DOMAIN F : d # c => F1[d] = F[d]
    BY DEF Alters
  <1>4. F[c] \in Frames /\ f \in Frames /\ CallShape(c, F[c], T, w) /\ c \in Ranges
    BY <1>3, TreeFacts DEF Alters, Given, IsCalls
  <1>5. CallShape(c, f, T, w)
    <2>1. f.next \in Int /\ F[c].next \in Int
      BY <1>4 DEF Frames
    <2> QED BY <1>4, <2>1 DEF CallShape, Goes, Parents, Has, Proper, Ranges
  <1>6. \A k \in DOMAIN T : TaskShape(k, T[k], F1, w)
    BY <1>2, TreeFacts DEF TaskShape
  <1>7. \A x \in Touched(F, T) : Inside(x, c) => Inner(x, f, F, T)
    <2>1. SUFFICES ASSUME NEW x \in Touched(F, T), Inner(x, F[c], F, T)
                   PROVE  Inner(x, f, F, T)
      BY <1>3, TreeFacts
    <2> QED BY <2>1 DEF Inner, Goes
  <1>8. Covered(F1, T)
    <2>1. SUFFICES ASSUME NEW k \in DOMAIN T, T[k].held
                   PROVE  \E d \in DOMAIN F1 : Waited(k, F1[d], T)
      BY DEF Covered
    <2>2. PICK d \in DOMAIN F : Waited(k, F[d], T)
      BY <2>1 DEF Given, Tree, Covered
    <2>3. CASE d # c
      BY <1>2, <1>3, <2>2, <2>3
    <2>4. CASE d = c
      <3>1. Waited(k, f, T)
        BY <2>1, <2>2, <2>4 DEF Waited, Goes, Parents
      <3> QED BY <1>2, <1>3, <3>1
    <2> QED BY <2>3, <2>4
  <1>9. \A d \in DOMAIN F : CallShape(d, F1[d], T, w)
    BY <1>3, <1>5, TreeFacts
  <1>10. Laminar(Touched(F1, T))
    BY <1>1, TreeFacts
  <1>11. \A d \in DOMAIN F1 : \A x \in Touched(F1, T) : Inside(x, d) => Inner(x, F1[d], F1, T)
    BY <1>1, <1>2, <1>3, <1>7, TreeFacts
  <1>12. \A k \in DOMAIN T \ DOMAIN F1 : \A x \in Touched(F1, T) :
              Inside(x, k) => ~ Live(x, F1, T) /\ T[k].state # "queued"
    BY <1>1, <1>2, TreeFacts
  <1> QED BY <1>1, <1>2, <1>6, <1>8, <1>9, <1>10, <1>11, <1>12, TreeFrom

\* local_task: a call that gives one part of its range to a new task keeps the
\* tree, and the task is new.
LEMMA SpawnsTree ==
    ASSUME NEW F, NEW F1, NEW T, NEW T1, NEW w, Given(F, T, w), NEW c, NEW f, NEW k, NEW g,
           Spawns(F, F1, T, T1, c, f, k, g)
    PROVE  Given(F1, T1, w) /\ k \notin Touched(F, T)
  <1>1. /\ IsCalls(F1) /\ IsTasks(T1) /\ w \in Ranges /\ c \in DOMAIN F /\ c \in Ranges /\ k \in Ranges
        /\ f \in Frames /\ F[c] \in Frames /\ Kept(f) \in Ranges
        /\ DOMAIN F1 = DOMAIN F /\ DOMAIN T1 = DOMAIN T \union {k}
        /\ F1[c] = f /\ T1[k] = g
        /\ \A d \in DOMAIN F : d # c => F1[d] = F[d]
        /\ \A j \in DOMAIN T : j # k => T1[j] = T[j]
    BY KeptRange, TreeFacts DEF Given, Spawns, Alters, TaskIs, IsCalls, IsTasks
  <1>2. /\ F[c].pc = "split" /\ f.pc = "spawned" /\ f.sub = k /\ f.ok = F[c].ok
        /\ InTwo(c, Kept(f), k) /\ Id(g.part) = k /\ g.held /\ g.state = "queued"
    BY DEF Spawns
  <1>3. \A x \in Touched(F, T) : ~ Inside(x, c)
    BY <1>1, <1>2, TreeFacts DEF Inner
  <1>4. Inside(k, c) /\ Proper(k)
    BY <1>1, <1>2, InTwoParts
  <1>5. /\ k \notin Touched(F, T) /\ Laminar(Touched(F, T) \union {k})
        /\ \A d \in DOMAIN F : Inside(k, d) => d = c \/ Inner(k, F[d], F, T)
        /\ \A j \in DOMAIN T \ DOMAIN F : ~ Within(k, j)
        /\ \A x \in Touched(F, T) : ~ Inside(x, k)
    BY <1>1, <1>3, <1>4, NewRange
  <1>6. /\ k \notin DOMAIN F /\ k \notin DOMAIN T
        /\ Touched(F1, T1) = Touched(F, T) \union {k}
    BY <1>1, <1>5 DEF Touched
  <1>7. /\ \A x \in Touched(F, T) : Live(x, F1, T1) <=> Live(x, F, T)
        /\ \A j \in DOMAIN T : T1[j] = T[j]
    BY <1>1, <1>6 DEF Live, Touched
  <1>8. \A d \in DOMAIN F : CallShape(d, F1[d], T1, w)
    <2>1. \A d \in DOMAIN F : d # c => CallShape(d, F1[d], T1, w)
      BY <1>1, TreeFacts DEF CallShape
    <2>2. CallShape(c, f, T1, w)
      <3>1. CallShape(c, F[c], T, w)
        BY <1>1, TreeFacts
      <3> QED BY <1>1, <1>2, <3>1 DEF CallShape, Parents
    <2> QED BY <1>1, <2>1, <2>2
  <1>9. \A j \in DOMAIN T1 : TaskShape(j, T1[j], F1, w)
    <2>1. \A j \in DOMAIN T : TaskShape(j, T1[j], F1, w)
      BY <1>1, <1>7, TreeFacts DEF TaskShape
    <2>2. TaskShape(k, g, F1, w)
      <3>1. Within(c, w)
        BY <1>1, TreeFacts DEF CallShape
      <3>2. Within(k, w) /\ k # w
        BY <1>1, <1>4, <3>1, WithinOrder DEF Inside
      <3> QED BY <1>1, <1>2, <1>4, <1>6, <3>2 DEF TaskShape, Final
    <2> QED BY <1>1, <2>1, <2>2
  <1>10. \A d \in DOMAIN F : \A x \in Touched(F, T) \union {k} :
            Inside(x, d) => Inner(x, F1[d], F1, T1)
    <2>1. SUFFICES ASSUME NEW d \in DOMAIN F, NEW x \in Touched(F, T) \union {k}, Inside(x, d)
                   PROVE  Inner(x, F1[d], F1, T1)
      OBVIOUS
    <2>2. CASE d = c
      <3>1. x = k
        BY <1>3, <2>1, <2>2
      <3>2. Within(k, k)
        BY <1>1, WithinOrder
      <3> QED BY <1>1, <1>2, <2>2, <3>1, <3>2 DEF Inner
    <2>3. CASE d # c
      <3>1. F1[d] = F[d] /\ CallShape(d, F[d], T, w)
        BY <1>1, <2>3, TreeFacts
      <3>2. F[d].pc \in Parents => F[d].sub \in DOMAIN T /\ T1[F[d].sub] = T[F[d].sub]
        BY <1>7, <3>1 DEF CallShape
      <3>3. Inner(x, F[d], F, T)
        BY <1>5, <2>1, <2>3, TreeFacts
      <3>4. CASE x # k
        BY <1>7, <2>1, <3>1, <3>2, <3>3, <3>4 DEF Inner, Parents
      <3>5. CASE x = k
        <4>1. Inner(c, F[d], F, T) /\ Live(c, F, T)
          <5>1. Inside(c, d)
            <6>1. c \in Touched(F, T) /\ d \in Touched(F, T) /\ d \in Ranges
              BY <1>1, TreeFacts
            <6>2. Within(k, d) /\ Within(k, c)
              BY <1>4, <2>1, <3>5 DEF Inside
            <6>3. ~ Apart(c, d) /\ ~ Inside(d, c)
              BY <1>1, <1>3, <1>4, <6>1, <6>2, ApartParts
            <6>4. Laminar(Touched(F, T))
              BY TreeFacts
            <6> QED BY <2>3, <6>1, <6>3, <6>4 DEF Laminar, Inside
          <5> QED BY <1>1, <5>1, TreeFacts
        <4>2. Within(k, c) /\ F[d] \in Frames /\ Kept(F[d]) \in Ranges /\ F[d].sub \in Ranges
          BY <1>4, KeptRange, TreeFacts DEF Inside
        <4>3. F[d].pc \notin {"split", "loop", "leave"}
          BY <4>1 DEF Inner
        <4>4. F[d].pc = "spawned" => Within(k, F[d].sub) /\ T[F[d].sub].held
          BY <1>1, <4>1, <4>2, WithinOrder DEF Inner
        <4>5. F[d].pc = "rest" => Within(k, Kept(F[d])) \/ (Within(k, F[d].sub) /\ T[F[d].sub].held)
          BY <1>1, <4>1, <4>2, WithinOrder DEF Inner
        <4>6. F[d].pc \in {"join", "spin"} => Within(k, F[d].sub) /\ T[F[d].sub].held
          BY <1>1, <4>1, <4>2, WithinOrder DEF Inner
        <4> QED BY <3>1, <3>2, <3>5, <4>3, <4>4, <4>5, <4>6 DEF Inner, Parents
      <3> QED BY <3>4, <3>5
    <2> QED BY <2>2, <2>3
  <1>11. \A j \in DOMAIN T1 \ DOMAIN F1 : \A x \in Touched(F1, T1) :
              Inside(x, j) => ~ Live(x, F1, T1) /\ T1[j].state # "queued"
    <2>1. SUFFICES ASSUME NEW j \in DOMAIN T1 \ DOMAIN F1, NEW x \in Touched(F1, T1), Inside(x, j)
                   PROVE  ~ Live(x, F1, T1) /\ T1[j].state # "queued"
      OBVIOUS
    <2>2. x # k
      BY <1>1, <1>5, <2>1 DEF Inside
    <2>3. x \in Touched(F, T)
      BY <1>6, <2>1, <2>2
    <2>4. j # k
      BY <1>5, <2>1, <2>3
    <2>5. j \in DOMAIN T \ DOMAIN F
      BY <1>1, <2>1, <2>4
    <2> QED BY <1>7, <2>1, <2>3, <2>5, TreeFacts
  <1>12. Covered(F1, T1)
    <2>1. SUFFICES ASSUME NEW j \in DOMAIN T1, T1[j].held
                   PROVE  \E d \in DOMAIN F1 : Waited(j, F1[d], T1)
      BY DEF Covered
    <2>2. CASE j = k
      <3>1. Waited(k, f, T1)
        BY <1>2 DEF Waited, Parents
      <3> QED BY <1>1, <2>2, <3>1
    <2>3. CASE j # k
      <3>1. j \in DOMAIN T /\ T[j].held /\ T1[j] = T[j]
        BY <1>1, <1>7, <2>1, <2>3
      <3>2. PICK d \in DOMAIN F : Waited(j, F[d], T)
        BY <3>1 DEF Given, Tree, Covered
      <3>3. d # c
        BY <1>2, <3>2 DEF Waited, Parents
      <3>4. Waited(j, F1[d], T1)
        BY <1>1, <3>1, <3>2, <3>3 DEF Waited
      <3> QED BY <1>1, <3>4
    <2> QED BY <2>2, <2>3
  <1>13. Laminar(Touched(F1, T1))
    BY <1>5, <1>6
  <1>14. \A d \in DOMAIN F1 : \A x \in Touched(F1, T1) : Inside(x, d) => Inner(x, F1[d], F1, T1)
    BY <1>1, <1>6, <1>10
  <1>15. Given(F1, T1, w)
    BY <1>1, <1>8, <1>9, <1>11, <1>12, <1>13, <1>14, TreeFrom
  <1> QED BY <1>5, <1>15

\* A queued task that is taken, and whose call begins, keeps the tree.
LEMMA RunsTree ==
    ASSUME NEW F, NEW F1, NEW T, NEW T1, NEW w, Given(F, T, w), NEW k, NEW f, NEW g,
           Runs(F, F1, T, T1, k, f, g)
    PROVE  Given(F1, T1, w) /\ k \notin DOMAIN F
  <1>1. /\ IsCalls(F1) /\ IsTasks(T1) /\ w \in Ranges /\ k \in Ranges /\ k \in DOMAIN T
        /\ DOMAIN F1 = DOMAIN F \union {k} /\ DOMAIN T1 = DOMAIN T
        /\ F1[k] = f /\ T1[k] = g
        /\ \A d \in DOMAIN F : d # k => F1[d] = F[d]
        /\ \A j \in DOMAIN T : j # k => T1[j] = T[j]
    BY DEF Given, Runs, Enters, TaskIs
  <1>2. /\ T[k].state = "queued" /\ g.state = "running" /\ g.held = T[k].held /\ g.part = T[k].part
        /\ f.pc = "split" /\ Kept(f) = k /\ f.next = k[1] /\ f.ok
    BY DEF Runs, First
  <1>3. TaskShape(k, T[k], F, w)
    BY <1>1, TreeFacts
  <1>4. k \notin DOMAIN F /\ T[k].held
    BY <1>2, <1>3 DEF TaskShape, Final
  <1>5. /\ Touched(F1, T1) = Touched(F, T)
        /\ \A j \in DOMAIN T : T1[j].held = T[j].held
        /\ \A d \in DOMAIN F : F1[d] = F[d]
    BY <1>1, <1>2, <1>4 DEF Touched
  <1>6. \A x : Live(x, F1, T1) <=> Live(x, F, T)
    BY <1>1, <1>4, <1>5 DEF Live
  <1>7. \A d \in DOMAIN F1 : CallShape(d, F1[d], T1, w)
    <2>1. \A d \in DOMAIN F : CallShape(d, F1[d], T1, w)
      BY <1>1, <1>5, TreeFacts DEF CallShape
    <2>2. CallShape(k, f, T1, w)
      BY <1>2, <1>3 DEF CallShape, TaskShape, Parents
    <2> QED BY <1>1, <2>1, <2>2
  <1>8. \A j \in DOMAIN T1 : TaskShape(j, T1[j], F1, w)
    <2>1. \A j \in DOMAIN T : j # k => TaskShape(j, T1[j], F1, w)
      BY <1>1, TreeFacts DEF TaskShape
    <2>2. TaskShape(k, g, F1, w)
      BY <1>1, <1>2, <1>3, <1>4 DEF TaskShape
    <2> QED BY <1>1, <2>1, <2>2
  <1>9. \A d \in DOMAIN F1 : \A x \in Touched(F1, T1) : Inside(x, d) => Inner(x, F1[d], F1, T1)
    <2>1. SUFFICES ASSUME NEW d \in DOMAIN F1, NEW x \in Touched(F, T), Inside(x, d)
                   PROVE  Inner(x, F1[d], F1, T1)
      BY <1>5
    <2>2. d # k
      BY <1>1, <1>2, <1>4, <2>1, TreeFacts
    <2>3. d \in DOMAIN F /\ F1[d] = F[d] /\ Inner(x, F[d], F, T) /\ CallShape(d, F[d], T, w)
      BY <1>1, <1>5, <2>1, <2>2, TreeFacts
    <2>4. F[d].pc \in Parents => T1[F[d].sub].held = T[F[d].sub].held
      BY <1>5, <2>3 DEF CallShape
    <2> QED BY <1>6, <2>3, <2>4 DEF Inner, Parents
  <1>10. \A j \in DOMAIN T1 \ DOMAIN F1 : \A x \in Touched(F1, T1) :
              Inside(x, j) => ~ Live(x, F1, T1) /\ T1[j].state # "queued"
    BY <1>1, <1>5, <1>6, TreeFacts
  <1>11. Covered(F1, T1)
    <2>1. SUFFICES ASSUME NEW j \in DOMAIN T, T[j].held
                   PROVE  \E d \in DOMAIN F1 : Waited(j, F1[d], T1)
      BY <1>1, <1>5 DEF Covered
    <2>2. PICK d \in DOMAIN F : Waited(j, F[d], T)
      BY <2>1 DEF Given, Tree, Covered
    <2>3. Waited(j, F1[d], T1)
      BY <1>1, <1>2, <1>5, <2>2 DEF Waited, Final
    <2> QED BY <1>1, <2>3
  <1>12. Laminar(Touched(F1, T1))
    BY <1>5, TreeFacts
  <1>13. Given(F1, T1, w)
    BY <1>1, <1>7, <1>8, <1>9, <1>10, <1>11, <1>12, TreeFrom
  <1> QED BY <1>4, <1>13

\* A call that calls itself for the other part of its range keeps the tree, and
\* that part had no call and no task.
LEMMA RecursesTree ==
    ASSUME NEW F, NEW F1, NEW T, NEW w, Given(F, T, w), NEW c, NEW f, NEW x, NEW g,
           Recurses(F, F1, c, f, x, g)
    PROVE  Given(F1, T, w) /\ x \notin Touched(F, T)
  <1>1. /\ IsCalls(F1) /\ IsTasks(T) /\ w \in Ranges /\ c \in DOMAIN F /\ c \in Ranges
        /\ F[c] \in Frames /\ CallShape(c, F[c], T, w)
        /\ x \in Ranges /\ F[c].sub \in Ranges /\ x = Kept(F[c])
        /\ DOMAIN F1 = DOMAIN F \union {x} /\ F1[x] = g
    BY KeptRange, TreeFacts DEF Given, Recurses, IsCalls
  <1>2. /\ F[c].pc = "spawned" /\ f.pc = "rest" /\ f.sub = F[c].sub /\ Kept(f) = x /\ f.ok = F[c].ok
        /\ g.pc = "split" /\ Kept(g) = x /\ g.next = x[1] /\ g.ok
    BY DEF Recurses, First
  <1>3. InTwo(c, x, f.sub) /\ f.sub \in DOMAIN T /\ F[c].ok
    BY <1>1, <1>2 DEF CallShape, Parents
  <1>4. Inside(x, c) /\ Proper(x) /\ Apart(x, f.sub)
    BY <1>1, <1>2, <1>3, InTwoParts
  <1>5. \A y \in Touched(F, T) : Inside(y, c) =>
            Within(y, f.sub) /\ (Live(y, F, T) => T[f.sub].held)
    BY <1>1, <1>2, TreeFacts DEF Inner
  <1>6. \A y \in Touched(F, T) : Inside(y, c) => Apart(y, x)
    <2>1. f.sub \in Ranges /\ Touched(F, T) \subseteq Ranges
      BY <1>1, <1>2, TreeFacts
    <2> QED BY <1>1, <1>4, <1>5, <2>1, ApartParts
  <1>7. /\ x \notin Touched(F, T) /\ Laminar(Touched(F, T) \union {x})
        /\ \A d \in DOMAIN F : Inside(x, d) => d = c \/ Inner(x, F[d], F, T)
        /\ \A j \in DOMAIN T \ DOMAIN F : ~ Within(x, j)
        /\ \A y \in Touched(F, T) : ~ Inside(y, x) \/ (Within(y, x) /\ Inside(y, c))
    BY <1>1, <1>4, <1>6, NewRange
  <1>8. \A y \in Touched(F, T) : y # w => Proper(y)
    BY TreeFacts DEF Touched, CallShape, TaskShape
  <1>9. \A y \in Touched(F, T) : ~ Inside(y, x)
    <2>1. SUFFICES ASSUME NEW y \in Touched(F, T), Within(y, x), Inside(y, c) PROVE FALSE
      BY <1>7
    <2>2. y \in Ranges /\ Apart(y, x)
      BY <1>6, <2>1, TreeFacts
    <2>3. y # w
      BY <1>1, <2>1, <2>2, WithinOrder DEF CallShape, Inside
    <2>4. Proper(y) /\ Within(y, y)
      BY <1>8, <2>1, <2>2, <2>3, WithinOrder
    <2> QED BY <1>1, <2>1, <2>2, <2>4, ApartParts
  <1>10. /\ x \notin DOMAIN F /\ x \notin DOMAIN T /\ x # c
         /\ Touched(F1, T) = Touched(F, T) \union {x}
    BY <1>1, <1>4, <1>7 DEF Touched, Inside
  <1>11. F1[c] = f /\ \A d \in DOMAIN F : d # c => F1[d] = F[d]
    BY <1>10 DEF Recurses
  <1>12. \A y \in Touched(F, T) : Live(y, F1, T) <=> Live(y, F, T)
    <2>1. \A y \in Touched(F, T) : y # x
      BY <1>7
    <2> QED BY <1>1, <2>1 DEF Live
  <1>13. \A d \in DOMAIN F1 : CallShape(d, F1[d], T, w)
    <2>1. \A d \in DOMAIN F : d # c => CallShape(d, F1[d], T, w)
      BY <1>11, TreeFacts
    <2>2. CallShape(c, f, T, w)
      BY <1>1, <1>2, <1>3 DEF CallShape, Parents
    <2>3. CallShape(x, g, T, w)
      <3>1. Within(x, w)
        BY <1>1, <1>4, WithinOrder DEF CallShape, Inside
      <3> QED BY <1>2, <1>4, <3>1 DEF CallShape, Parents
    <2> QED BY <1>1, <1>11, <2>1, <2>2, <2>3
  <1>14. \A j \in DOMAIN T : TaskShape(j, T[j], F1, w)
    BY <1>1, <1>10, TreeFacts DEF TaskShape
  <1>15. \A d \in DOMAIN F1 : \A y \in Touched(F1, T) : Inside(y, d) => Inner(y, F1[d], F1, T)
    <2>1. SUFFICES ASSUME NEW d \in DOMAIN F1, NEW y \in Touched(F, T) \union {x}, Inside(y, d)
                   PROVE  Inner(y, F1[d], F1, T)
      BY <1>10
    <2>2. d # x
      BY <1>9, <2>1 DEF Inside
    <2>3. d \in DOMAIN F
      BY <1>1, <2>1, <2>2
    <2>4. CASE d = c /\ y = x
      <3>1. Within(x, x)
        BY <1>1, WithinOrder
      <3> QED BY <1>2, <1>11, <2>4, <3>1 DEF Inner
    <2>5. CASE d = c /\ y # x
      <3>1. y \in Touched(F, T)
        BY <2>1, <2>5
      <3>2. Within(y, f.sub) /\ (Live(y, F1, T) => T[f.sub].held)
        BY <1>5, <1>12, <2>1, <2>5, <3>1
      <3> QED BY <1>2, <1>11, <2>5, <3>2 DEF Inner
    <2>6. CASE d # c /\ y # x
      <3>1. y \in Touched(F, T)
        BY <2>1, <2>6
      <3>2. Inner(y, F[d], F, T)
        BY <2>1, <2>3, <3>1, TreeFacts
      <3> QED BY <1>11, <1>12, <2>3, <2>6, <3>1, <3>2 DEF Inner
    <2>7. CASE d # c /\ y = x
      <3>1. F1[d] = F[d] /\ d \in Ranges /\ d \in Touched(F, T)
        BY <1>11, <2>3, <2>7, TreeFacts
      <3>2. Inside(c, d)
        <4>1. Laminar(Touched(F, T)) /\ c \in Touched(F, T)
          BY <1>1, TreeFacts
        <4>2. Within(x, d) /\ Within(x, c)
          BY <1>4, <2>1, <2>7 DEF Inside
        <4>3. ~ Apart(c, d)
          BY <1>1, <1>4, <3>1, <4>2, ApartParts
        <4>4. ~ Within(d, c)
          <5>1. SUFFICES ASSUME Within(d, c) PROVE FALSE
            OBVIOUS
          <5>2. Apart(d, x)
            BY <1>6, <2>7, <3>1, <5>1 DEF Inside
          <5>3. Within(x, x)
            BY <1>1, WithinOrder
          <5> QED BY <1>1, <1>4, <3>1, <4>2, <5>2, <5>3, ApartParts
        <4> QED BY <2>7, <3>1, <4>1, <4>3, <4>4 DEF Laminar, Inside
      <3>3. Inner(c, F[d], F, T) /\ Live(c, F, T)
        BY <1>1, <2>3, <3>2, TreeFacts
      <3>4. Within(x, c) /\ F[d] \in Frames /\ Kept(F[d]) \in Ranges /\ F[d].sub \in Ranges
        BY <1>4, <2>3, KeptRange, TreeFacts DEF Inside
      <3>5. F[d].pc \notin {"split", "loop", "leave"}
        BY <3>3 DEF Inner
      <3>6. F[d].pc = "spawned" => Within(x, F[d].sub) /\ T[F[d].sub].held
        BY <1>1, <3>3, <3>4, WithinOrder DEF Inner
      <3>7. F[d].pc = "rest" => Within(x, Kept(F[d])) \/ (Within(x, F[d].sub) /\ T[F[d].sub].held)
        BY <1>1, <3>3, <3>4, WithinOrder DEF Inner
      <3>8. F[d].pc \in {"join", "spin"} => Within(x, F[d].sub) /\ T[F[d].sub].held
        BY <1>1, <3>3, <3>4, WithinOrder DEF Inner
      <3> QED BY <2>7, <3>1, <3>5, <3>6, <3>7, <3>8 DEF Inner
    <2> QED BY <2>4, <2>5, <2>6, <2>7
  <1>16. \A j \in DOMAIN T \ DOMAIN F1 : \A y \in Touched(F1, T) :
              Inside(y, j) => ~ Live(y, F1, T) /\ T[j].state # "queued"
    <2>1. SUFFICES ASSUME NEW j \in DOMAIN T \ DOMAIN F1, NEW y \in Touched(F1, T), Inside(y, j)
                   PROVE  ~ Live(y, F1, T) /\ T[j].state # "queued"
      OBVIOUS
    <2>2. j \in DOMAIN T \ DOMAIN F
      BY <1>1, <2>1
    <2>3. y \in Touched(F, T)
      BY <1>7, <1>10, <2>1, <2>2 DEF Inside
    <2> QED BY <1>12, <2>1, <2>2, <2>3, TreeFacts
  <1>17. Covered(F1, T)
    <2>1. SUFFICES ASSUME NEW j \in DOMAIN T, T[j].held
                   PROVE  \E d \in DOMAIN F1 : Waited(j, F1[d], T)
      BY DEF Covered
    <2>2. PICK d \in DOMAIN F : Waited(j, F[d], T)
      BY <2>1 DEF Given, Tree, Covered
    <2>3. CASE d # c
      BY <1>1, <1>11, <2>2, <2>3
    <2>4. CASE d = c
      <3>1. Waited(j, f, T)
        BY <1>2, <2>2, <2>4 DEF Waited, Parents
      <3> QED BY <1>1, <1>11, <3>1
    <2> QED BY <2>3, <2>4
  <1>18. Laminar(Touched(F1, T))
    BY <1>7, <1>10
  <1>19. Given(F1, T, w)
    BY <1>1, <1>13, <1>14, <1>15, <1>16, <1>17, <1>18, TreeFrom
  <1> QED BY <1>7, <1>19

\* The call of a task that returns, and leaves its result in the task, keeps the
\* tree; the task is still held.
LEMMA EndsTaskTree ==
    ASSUME NEW F, NEW F1, NEW T, NEW T1, NEW w, Given(F, T, w), NEW c, NEW g,
           EndsTask(F, F1, T, T1, c, g)
    PROVE  Given(F1, T1, w) /\ T[c].held
  <1>1. /\ IsCalls(F1) /\ IsTasks(T1) /\ w \in Ranges /\ c \in DOMAIN F /\ c \in DOMAIN T
        /\ DOMAIN F1 = DOMAIN F \ {c} /\ DOMAIN T1 = DOMAIN T /\ T1[c] = g
        /\ \A d \in DOMAIN F : d # c => F1[d] = F[d]
        /\ \A j \in DOMAIN T : j # c => T1[j] = T[j]
    BY DEF Given, EndsTask, Leaves, TaskIs
  <1>2. F[c].pc = "leave" /\ g.held = T[c].held /\ g.part = T[c].part /\ g.state \in Final
    BY DEF EndsTask, Final
  <1>3. TaskShape(c, T[c], F, w) /\ T[c].state = "running" /\ T[c].held
    <2>1. TaskShape(c, T[c], F, w)
      BY <1>1, TreeFacts
    <2> QED BY <1>1, <2>1 DEF TaskShape, Final
  <1>4. /\ Touched(F1, T1) = Touched(F, T)
        /\ \A j \in DOMAIN T : T1[j].held = T[j].held
        /\ \A d \in DOMAIN F1 : d \in DOMAIN F /\ F1[d] = F[d]
    BY <1>1, <1>2 DEF Touched
  <1>5. \A x : Live(x, F1, T1) <=> Live(x, F, T)
    BY <1>1, <1>3, <1>4 DEF Live
  <1>6. \A d \in DOMAIN F1 : CallShape(d, F1[d], T1, w)
    BY <1>1, <1>4, TreeFacts DEF CallShape
  <1>7. \A j \in DOMAIN T1 : TaskShape(j, T1[j], F1, w)
    <2>1. \A j \in DOMAIN T : j # c => TaskShape(j, T1[j], F1, w)
      BY <1>1, TreeFacts DEF TaskShape
    <2>2. TaskShape(c, g, F1, w)
      BY <1>1, <1>2, <1>3 DEF TaskShape, Final
    <2> QED BY <1>1, <2>1, <2>2
  <1>8. \A d \in DOMAIN F1 : \A x \in Touched(F1, T1) : Inside(x, d) => Inner(x, F1[d], F1, T1)
    <2>1. SUFFICES ASSUME NEW d \in DOMAIN F1, NEW x \in Touched(F, T), Inside(x, d)
                   PROVE  Inner(x, F1[d], F1, T1)
      BY <1>4
    <2>2. F1[d] = F[d] /\ Inner(x, F[d], F, T) /\ CallShape(d, F[d], T, w)
      BY <1>4, <2>1, TreeFacts
    <2>3. F[d].pc \in Parents => T1[F[d].sub].held = T[F[d].sub].held
      BY <1>4, <2>2 DEF CallShape
    <2> QED BY <1>5, <2>2, <2>3 DEF Inner, Parents
  <1>9. \A j \in DOMAIN T1 \ DOMAIN F1 : \A x \in Touched(F1, T1) :
              Inside(x, j) => ~ Live(x, F1, T1) /\ T1[j].state # "queued"
    <2>1. SUFFICES ASSUME NEW j \in DOMAIN T1 \ DOMAIN F1, NEW x \in Touched(F, T), Inside(x, j)
                   PROVE  ~ Live(x, F, T) /\ T1[j].state # "queued"
      BY <1>4, <1>5
    <2>2. CASE j = c
      <3>1. Inner(x, F[c], F, T)
        BY <1>1, <2>1, <2>2, TreeFacts
      <3> QED BY <1>1, <1>2, <2>2, <3>1 DEF Inner, Final
    <2>3. CASE j # c
      <3>1. j \in DOMAIN T \ DOMAIN F /\ T1[j] = T[j]
        BY <1>1, <2>1, <2>3
      <3> QED BY <2>1, <3>1, TreeFacts
    <2> QED BY <2>2, <2>3
  <1>10. Covered(F1, T1)
    <2>1. SUFFICES ASSUME NEW j \in DOMAIN T, T[j].held
                   PROVE  \E d \in DOMAIN F1 : Waited(j, F1[d], T1)
      BY <1>1, <1>4 DEF Covered
    <2>2. PICK d \in DOMAIN F : Waited(j, F[d], T)
      BY <2>1 DEF Given, Tree, Covered
    <2>3. d # c
      BY <1>2, <2>2 DEF Waited, Parents
    <2>4. F1[d] = F[d] /\ d \in DOMAIN F1
      BY <1>1, <2>3
    <2>5. Waited(j, F1[d], T1)
      BY <1>1, <1>2, <2>2, <2>4 DEF Waited
    <2> QED BY <2>4, <2>5
  <1>11. Laminar(Touched(F1, T1))
    BY <1>4, TreeFacts
  <1>12. Given(F1, T1, w)
    BY <1>1, <1>6, <1>7, <1>8, <1>9, <1>10, <1>11, TreeFrom
  <1> QED BY <1>3, <1>12

\* A call of the recursion that returns to its caller keeps the tree.
LEMMA ReturnsTree ==
    ASSUME NEW F, NEW F1, NEW T, NEW w, Given(F, T, w), NEW c, NEW b, NEW f,
           Returns(F, F1, T, c, b, f)
    PROVE  Given(F1, T, w)
  <1>1. /\ IsCalls(F1) /\ IsTasks(T) /\ w \in Ranges /\ c \in DOMAIN F /\ c \notin DOMAIN T
        /\ b \in DOMAIN F /\ b # c /\ DOMAIN F1 = DOMAIN F \ {c} /\ F1[b] = f
        /\ \A d \in DOMAIN F : d # b /\ d # c => F1[d] = F[d]
    BY DEF Given, Returns
  <1>2. /\ F[c].pc = "leave" /\ F[b].pc = "rest" /\ Kept(F[b]) = c
        /\ f.pc = "join" /\ f.sub = F[b].sub /\ Kept(f) = Kept(F[b])
    BY DEF Returns
  <1>3. Touched(F1, T) \subseteq Touched(F, T) /\ c \notin Touched(F1, T)
    BY <1>1 DEF Touched
  <1>4. \A x : Live(x, F1, T) => Live(x, F, T)
    BY <1>1 DEF Live
  <1>5. \A d \in DOMAIN F1 : CallShape(d, F1[d], T, w)
    <2>1. \A d \in DOMAIN F1 : d # b => CallShape(d, F1[d], T, w)
      BY <1>1, TreeFacts
    <2>2. CallShape(b, F[b], T, w)
      BY <1>1, TreeFacts
    <2>3. CallShape(b, f, T, w)
      BY <1>2, <2>2 DEF CallShape, Parents
    <2> QED BY <1>1, <2>1, <2>3
  <1>6. \A j \in DOMAIN T : TaskShape(j, T[j], F1, w)
    BY <1>1, TreeFacts DEF TaskShape
  <1>7. \A d \in DOMAIN F1 : \A x \in Touched(F1, T) : Inside(x, d) => Inner(x, F1[d], F1, T)
    <2>1. SUFFICES ASSUME NEW d \in DOMAIN F1, NEW x \in Touched(F1, T), Inside(x, d)
                   PROVE  Inner(x, F1[d], F1, T)
      OBVIOUS
    <2>2. x \in Touched(F, T) /\ x # c /\ d \in DOMAIN F
      BY <1>1, <1>3, <2>1
    <2>3. Inner(x, F[d], F, T)
      BY <2>1, <2>2, TreeFacts
    <2>4. CASE d # b
      <3>1. F1[d] = F[d]
        BY <1>1, <2>1, <2>4
      <3> QED BY <1>4, <2>3, <3>1 DEF Inner
    <2>5. CASE d = b
      <3>1. Within(x, c) => ~ Live(x, F, T)
        BY <1>1, <1>2, <2>2, TreeFacts DEF Inside, Inner
      <3>2. Within(x, c) \/ (Within(x, f.sub) /\ (Live(x, F, T) => T[f.sub].held))
        BY <1>2, <2>3, <2>5 DEF Inner
      <3>3. Inner(x, f, F1, T)
        BY <1>2, <1>4, <3>1, <3>2 DEF Inner
      <3> QED BY <1>1, <2>5, <3>3
    <2> QED BY <2>4, <2>5
  <1>8. \A j \in DOMAIN T \ DOMAIN F1 : \A x \in Touched(F1, T) :
              Inside(x, j) => ~ Live(x, F1, T) /\ T[j].state # "queued"
    <2>1. \A j \in DOMAIN T \ DOMAIN F1 : j \in DOMAIN T \ DOMAIN F
      BY <1>1
    <2> QED BY <1>3, <1>4, <2>1, TreeFacts
  <1>9. Covered(F1, T)
    <2>1. SUFFICES ASSUME NEW j \in DOMAIN T, T[j].held
                   PROVE  \E d \in DOMAIN F1 : Waited(j, F1[d], T)
      BY DEF Covered
    <2>2. PICK d \in DOMAIN F : Waited(j, F[d], T)
      BY <2>1 DEF Given, Tree, Covered
    <2>3. d # c
      BY <1>2, <2>2 DEF Waited, Parents
    <2>4. CASE d # b
      BY <1>1, <2>2, <2>3, <2>4
    <2>5. CASE d = b
      <3>1. Waited(j, f, T)
        BY <1>2, <2>2, <2>5 DEF Waited, Parents
      <3> QED BY <1>1, <3>1
    <2> QED BY <2>4, <2>5
  <1>10. Laminar(Touched(F1, T))
    BY <1>3, TreeFacts DEF Laminar
  <1> QED BY <1>1, <1>5, <1>6, <1>7, <1>8, <1>9, <1>10, TreeFrom

\* A task that is canceled before it was taken keeps the tree.
LEMMA CancelsTree ==
    ASSUME NEW F, NEW T, NEW T1, NEW w, Given(F, T, w), NEW k, NEW g, Cancels(T, T1, k, g)
    PROVE  Given(F, T1, w) /\ T[k].held /\ k \notin DOMAIN F
  <1>1. /\ IsCalls(F) /\ IsTasks(T1) /\ w \in Ranges /\ k \in DOMAIN T
        /\ DOMAIN T1 = DOMAIN T /\ T1[k] = g
        /\ \A j \in DOMAIN T : j # k => T1[j] = T[j]
    BY DEF Given, Cancels, TaskIs
  <1>2. T[k].state = "queued" /\ g.state = "canceled" /\ g.held = T[k].held /\ g.part = T[k].part
    BY DEF Cancels
  <1>3. TaskShape(k, T[k], F, w)
    BY <1>1, TreeFacts
  <1>4. k \notin DOMAIN F /\ T[k].held
    BY <1>2, <1>3 DEF TaskShape, Final
  <1>5. /\ Touched(F, T1) = Touched(F, T)
        /\ \A j \in DOMAIN T : T1[j].held = T[j].held
    BY <1>1, <1>2 DEF Touched
  <1>6. \A x : Live(x, F, T1) <=> Live(x, F, T)
    BY <1>1, <1>5 DEF Live
  <1>7. \A d \in DOMAIN F : CallShape(d, F[d], T1, w)
    BY <1>1, TreeFacts DEF CallShape
  <1>8. \A j \in DOMAIN T1 : TaskShape(j, T1[j], F, w)
    <2>1. TaskShape(k, g, F, w)
      BY <1>2, <1>3, <1>4 DEF TaskShape, Final
    <2> QED BY <1>1, <2>1, TreeFacts
  <1>9. \A d \in DOMAIN F : \A x \in Touched(F, T1) : Inside(x, d) => Inner(x, F[d], F, T1)
    <2>1. SUFFICES ASSUME NEW d \in DOMAIN F, NEW x \in Touched(F, T), Inside(x, d)
                   PROVE  Inner(x, F[d], F, T1)
      BY <1>5
    <2>2. Inner(x, F[d], F, T) /\ CallShape(d, F[d], T, w)
      BY <2>1, TreeFacts
    <2>3. F[d].pc \in Parents => T1[F[d].sub].held = T[F[d].sub].held
      BY <1>5, <2>2 DEF CallShape
    <2> QED BY <1>6, <2>2, <2>3 DEF Inner, Parents
  <1>10. \A j \in DOMAIN T1 \ DOMAIN F : \A x \in Touched(F, T1) :
              Inside(x, j) => ~ Live(x, F, T1) /\ T1[j].state # "queued"
    BY <1>1, <1>2, <1>5, <1>6, TreeFacts
  <1>11. Covered(F, T1)
    <2>1. SUFFICES ASSUME NEW j \in DOMAIN T, T[j].held
                   PROVE  \E d \in DOMAIN F : Waited(j, F[d], T1)
      BY <1>1, <1>5 DEF Covered
    <2>2. PICK d \in DOMAIN F : Waited(j, F[d], T)
      BY <2>1 DEF Given, Tree, Covered
    <2> QED BY <1>1, <1>2, <2>2 DEF Waited, Final
  <1>12. Laminar(Touched(F, T1))
    BY <1>5, TreeFacts
  <1>13. Given(F, T1, w)
    BY <1>1, <1>7, <1>8, <1>9, <1>10, <1>11, <1>12, TreeFrom
  <1> QED BY <1>4, <1>13

\* The release of the last reference of a finished task keeps the tree.
LEMMA ReleasesTree ==
    ASSUME NEW F, NEW T, NEW T1, NEW w, Given(F, T, w), NEW k, NEW g, Releases(F, T, T1, k, g)
    PROVE  Given(F, T1, w)
  <1>1. /\ IsCalls(F) /\ IsTasks(T1) /\ w \in Ranges /\ k \in DOMAIN T \ DOMAIN F
        /\ DOMAIN T1 = DOMAIN T /\ T1[k] = g
        /\ \A j \in DOMAIN T : j # k => T1[j] = T[j]
    BY DEF Given, Releases, TaskIs
  <1>2. T[k].state \in Final /\ ~ g.held /\ g.state = T[k].state /\ g.part = T[k].part
    BY DEF Releases
  <1>3. /\ Touched(F, T1) = Touched(F, T)
        /\ \A j \in DOMAIN T : T1[j].held => T[j].held
        /\ \A j \in DOMAIN T : T1[j].state = T[j].state
    BY <1>1, <1>2 DEF Touched
  <1>4. \A x : Live(x, F, T1) => Live(x, F, T) /\ x # k
    BY <1>1, <1>2, <1>3 DEF Live
  <1>5. \A d \in DOMAIN F : CallShape(d, F[d], T1, w)
    BY <1>1, TreeFacts DEF CallShape
  <1>6. \A j \in DOMAIN T1 : TaskShape(j, T1[j], F, w)
    <2>1. TaskShape(k, T[k], F, w)
      BY <1>1, TreeFacts
    <2>2. TaskShape(k, g, F, w)
      BY <1>1, <1>2, <2>1 DEF TaskShape
    <2> QED BY <1>1, <2>2, TreeFacts
  <1>7. \A x \in Touched(F, T) : Within(x, k) => ~ Live(x, F, T1)
    BY <1>1, <1>4, TreeFacts DEF Inside
  <1>8. \A d \in DOMAIN F : \A x \in Touched(F, T1) : Inside(x, d) => Inner(x, F[d], F, T1)
    <2>1. SUFFICES ASSUME NEW d \in DOMAIN F, NEW x \in Touched(F, T), Inside(x, d)
                   PROVE  Inner(x, F[d], F, T1)
      BY <1>3
    <2>2. Inner(x, F[d], F, T) /\ CallShape(d, F[d], T, w)
      BY <2>1, TreeFacts
    <2>3. F[d].pc \in Parents /\ F[d].sub # k => T1[F[d].sub] = T[F[d].sub]
      BY <1>1, <2>2 DEF CallShape
    <2>4. F[d].sub = k /\ Within(x, F[d].sub) => ~ Live(x, F, T1)
      BY <1>7
    <2> QED BY <1>4, <2>2, <2>3, <2>4 DEF Inner, Parents
  <1>9. \A j \in DOMAIN T1 \ DOMAIN F : \A x \in Touched(F, T1) :
              Inside(x, j) => ~ Live(x, F, T1) /\ T1[j].state # "queued"
    BY <1>1, <1>3, <1>4, TreeFacts
  <1>10. Covered(F, T1)
    <2>1. SUFFICES ASSUME NEW j \in DOMAIN T, T[j].held
                   PROVE  \E d \in DOMAIN F : Waited(j, F[d], T1)
      BY <1>1, <1>3 DEF Covered
    <2>2. PICK d \in DOMAIN F : Waited(j, F[d], T)
      BY <2>1 DEF Given, Tree, Covered
    <2> QED BY <1>3, <2>2 DEF Waited
  <1>11. Laminar(Touched(F, T1))
    BY <1>3, TreeFacts
  <1> QED BY <1>1, <1>5, <1>6, <1>8, <1>9, <1>10, <1>11, TreeFrom

-----------------------------------------------------------------------------
(* The stacks after each step. *)

IsStacks(S) == S \in [Threads -> Seq(Ranges)]

Pushes(S, S1, t, x) ==
    /\ IsStacks(S1) /\ t \in Threads /\ x \in Ranges /\ Len(S[t]) \in Nat
    /\ \A u \in Threads : \A n, y : On(S1, u, n, y) <=>
          On(S, u, n, y) \/ (u = t /\ n = Len(S[t]) + 1 /\ y = x)

\* What is popped is z.
Pops(S, S1, t, z) ==
    /\ IsStacks(S1) /\ t \in Threads /\ z \in Ranges /\ Len(S[t]) \in Nat
    /\ On(S, t, Len(S[t]), z)
    /\ \A u \in Threads : \A n, y : On(S1, u, n, y) <=> On(S, u, n, y) /\ ~ (u = t /\ n = Len(S[t]))

\* What the stacks depend on stays as it is, except for those in Z.
Keeps(F, F1, T, T1, Z) ==
    /\ \A x \in Ranges \ Z :
          x \in DOMAIN F \/ (x \in DOMAIN T /\ T[x].held /\ T[x].state \in Final) =>
          x \in DOMAIN F1 \/ (x \in DOMAIN T1 /\ T1[x].held /\ T1[x].state \in Final)
    /\ DOMAIN T \subseteq DOMAIN T1
    /\ \A c \in DOMAIN F : F[c].pc = "rest" /\ Kept(F[c]) \notin Z =>
          c \in DOMAIN F1 /\ F1[c].pc = "rest" /\ Kept(F1[c]) = Kept(F[c])

\* The innermost call.
LEMMA TopOn ==
    ASSUME NEW S, IsStacks(S), NEW t \in Threads, S[t] # <<>>
    PROVE  /\ Len(S[t]) \in Nat /\ Len(S[t]) >= 1
           /\ On(S, t, Len(S[t]), S[t][Len(S[t])]) /\ S[t][Len(S[t])] \in Ranges
  <1>1. S[t] \in Seq(Ranges)
    BY DEF IsStacks
  <1>2. Len(S[t]) \in Nat /\ Len(S[t]) # 0
    BY <1>1, EmptySeq
  <1>3. Len(S[t]) \in 1..Len(S[t])
    BY <1>2
  <1> QED BY <1>1, <1>2, <1>3, ElementOfSeq DEF On

\* Push() and Pop().
LEMMA PushOn ==
    ASSUME NEW S, IsStacks(S), NEW t \in Threads, NEW x \in Ranges
    PROVE  Pushes(S, [S EXCEPT ![t] = Append(@, x)], t, x)
  <1>1. S[t] \in Seq(Ranges) /\ S \in [Threads -> Seq(Ranges)]
    BY DEF IsStacks
  <1>2. PICK n \in Nat : n = Len(S[t])
    BY <1>1, LenProperties
  <1>3. PICK s \in Seq(Ranges) : s = Append(S[t], x)
    BY <1>1, AppendProperties
  <1>4. Len(s) = n + 1 /\ s[n + 1] = x /\ \A i \in 1..n : s[i] = S[t][i]
    BY <1>1, <1>2, <1>3, AppendProperties
  <1>5. PICK S1 : S1 = [S EXCEPT ![t] = s]
    OBVIOUS
  <1>6. S1 \in [Threads -> Seq(Ranges)] /\ S1[t] = s /\ \A u \in Threads : u # t => S1[u] = S[u]
    BY <1>1, <1>5
  <1>7. \A u \in Threads : \A m, y : u # t => (On(S1, u, m, y) <=> On(S, u, m, y))
    BY <1>6 DEF On
  <1>8. \A m, y : On(S1, t, m, y) <=> On(S, t, m, y) \/ (m = n + 1 /\ y = x)
    <2>1. 1..(n + 1) = (1..n) \union {n + 1} /\ n + 1 \notin 1..n
      BY <1>2
    <2> QED BY <1>2, <1>4, <1>6, <2>1 DEF On
  <1>9. S1 = [S EXCEPT ![t] = Append(@, x)]
    BY <1>3, <1>5
  <1>10. Pushes(S, S1, t, x)
    BY <1>2, <1>6, <1>7, <1>8 DEF Pushes, IsStacks
  <1> QED BY <1>9, <1>10

\* What popping does to a stack, element by element.
LEMMA PopOn ==
    ASSUME NEW S, IsStacks(S), NEW t \in Threads, S[t] # <<>>
    PROVE  Pops(S, [S EXCEPT ![t] = SubSeq(@, 1, Len(@) - 1)], t, S[t][Len(S[t])])
  <1>1. S[t] \in Seq(Ranges) /\ S \in [Threads -> Seq(Ranges)]
    BY DEF IsStacks
  <1>2. PICK n \in Nat : n + 1 = Len(S[t])
    <2>1. Len(S[t]) \in Nat /\ Len(S[t]) >= 1
      BY TopOn
    <2>2. Len(S[t]) - 1 \in Nat /\ (Len(S[t]) - 1) + 1 = Len(S[t])
      BY <2>1
    <2> QED BY <2>2
  <1>3. PICK s : s = SubSeq(S[t], 1, n)
    OBVIOUS
  <1>4. s \in Seq(Ranges) /\ Len(s) = n /\ \A i \in 1..n : s[i] = S[t][i]
    <2>1. \A i \in 1..n : i \in 1..Len(S[t])
      BY <1>2
    <2>2. \A i \in 1..n : S[t][i] \in Ranges
      BY <1>1, <2>1, ElementOfSeq
    <2> QED BY <1>1, <1>2, <1>3, <2>1, <2>2, SubSeqProperties
  <1>5. PICK S1 : S1 = [S EXCEPT ![t] = s]
    OBVIOUS
  <1>6. S1 \in [Threads -> Seq(Ranges)] /\ S1[t] = s /\ \A u \in Threads : u # t => S1[u] = S[u]
    BY <1>1, <1>4, <1>5
  <1>7. \A u \in Threads : \A m, y : u # t => (On(S1, u, m, y) <=> On(S, u, m, y))
    BY <1>6 DEF On
  <1>8. \A m, y : On(S1, t, m, y) <=> On(S, t, m, y) /\ m # n + 1
    <2>1. 1..(n + 1) = (1..n) \union {n + 1} /\ n + 1 \notin 1..n
      BY <1>2
    <2> QED BY <1>2, <1>4, <1>6, <2>1 DEF On
  <1>9. S1 = [S EXCEPT ![t] = SubSeq(@, 1, Len(@) - 1)]
    <2>1. Len(S[t]) - 1 = n
      BY <1>2
    <2> QED BY <1>3, <1>5, <2>1
  <1>10. Pops(S, S1, t, S[t][Len(S[t])])
    <2>1. On(S, t, Len(S[t]), S[t][Len(S[t])]) /\ S[t][Len(S[t])] \in Ranges
      BY TopOn
    <2>2. Len(S[t]) \in Nat
      BY <1>2
    <2>3. \A u \in Threads : \A m, y :
             On(S1, u, m, y) <=> On(S, u, m, y) /\ ~ (u = t /\ m = Len(S[t]))
      BY <1>2, <1>7, <1>8
    <2> QED BY <1>6, <2>1, <2>2, <2>3 DEF Pops, IsStacks
  <1> QED BY <1>9, <1>10

\* A stack on which nothing is is empty.
LEMMA NothingOn ==
    ASSUME NEW S, IsStacks(S), NEW t \in Threads, \A n \in Nat : \A x \in Ranges : ~ On(S, t, n, x)
    PROVE  S[t] = <<>>
  BY TopOn

\* A place on a stack.
LEMMA OnPlace ==
    ASSUME NEW S, IsStacks(S), NEW t \in Threads, NEW n, NEW x, On(S, t, n, x)
    PROVE  n \in Nat /\ n >= 1 /\ x \in Ranges
  <1>1. S[t] \in Seq(Ranges) /\ Len(S[t]) \in Nat
    BY DEF IsStacks
  <1> QED BY <1>1, ElementOfSeq DEF On

\* A step that removes no call leaves the stacks right.
LEMMA StacksStay ==
    ASSUME NEW S, NEW F, NEW F1, NEW T, NEW T1, NEW w,
           Stacks(S, F, T, w), Keeps(F, F1, T, T1, {})
    PROVE  Stacks(S, F1, T1, w)
  <1>1. SUFFICES ASSUME NEW t \in Threads, NEW n \in Nat, NEW x \in Ranges,
                        Placed(S, F, T, w, t, n, x)
                 PROVE  Placed(S, F1, T1, w, t, n, x)
    BY DEF Stacks
  <1>2. x \in DOMAIN F1 \/ (x \in DOMAIN T1 /\ T1[x].held /\ T1[x].state \in Final)
    BY <1>1 DEF Placed, Keeps
  <1>3. Called(S, F, t, n, x) => Called(S, F1, t, n, x)
    BY DEF Called, Keeps
  <1> QED BY <1>1, <1>2, <1>3 DEF Placed, Keeps

\* So does one that pushes a call or a finished task that was not there before,
LEMMA StacksPush ==
    ASSUME NEW S, NEW S1, NEW F, NEW F1, NEW T, NEW T1, NEW w, NEW t \in Threads, NEW x \in Ranges,
           Stacks(S, F, T, w), Keeps(F, F1, T, T1, {}), Pushes(S, S1, t, x),
           ~ (x \in DOMAIN F \/ (x \in DOMAIN T /\ T[x].held /\ T[x].state \in Final)),
           x \in DOMAIN F1 \/ (x \in DOMAIN T1 /\ T1[x].held /\ T1[x].state \in Final),
           x \in DOMAIN T1 \/ \E c \in DOMAIN F1 :
               On(S, t, Len(S[t]), c) /\ F1[c].pc = "rest" /\ Kept(F1[c]) = x
    PROVE  Stacks(S1, F1, T1, w)
  <1>1. Stacks(S, F1, T1, w)
    BY StacksStay
  <1>2. \A u \in Threads : \A n, y : On(S, u, n, y) => On(S1, u, n, y)
    BY DEF Pushes
  <1>3. \A u \in Threads : \A n \in Nat : \A y : Called(S, F1, u, n, y) => Called(S1, F1, u, n, y)
    BY <1>2 DEF Called
  <1>4. \A u \in Threads : \A n \in Nat : \A y \in Ranges : On(S, u, n, y) => Placed(S1, F1, T1, w, u, n, y)
    BY <1>1, <1>3 DEF Stacks, Placed
  <1>5. \A u \in Threads : \A n \in Nat : ~ On(S, u, n, x)
    BY DEF Stacks, Placed
  <1>6. Placed(S1, F1, T1, w, t, Len(S[t]) + 1, x)
    <2>1. Len(S[t]) \in Nat /\ (Len(S[t]) + 1) - 1 = Len(S[t])
      BY DEF Pushes
    <2>2. x \in DOMAIN T1 \/ Called(S1, F1, t, Len(S[t]) + 1, x)
      BY <1>2, <2>1 DEF Called
    <2> QED BY <2>2 DEF Placed
  <1>7. \A u \in Threads : \A n, y : On(S1, u, n, y) <=>
            On(S, u, n, y) \/ (u = t /\ n = Len(S[t]) + 1 /\ y = x)
    BY DEF Pushes
  <1>8. \A u \in Threads : \A n \in Nat : \A y \in Ranges : On(S1, u, n, y) => Placed(S1, F1, T1, w, u, n, y)
    BY <1>4, <1>6, <1>7
  <1>9. \A u, v \in Threads : \A n, m \in Nat : \A y \in Ranges :
            On(S1, u, n, y) /\ On(S1, v, m, y) => u = v /\ n = m
    BY <1>1, <1>5, <1>7 DEF Stacks
  <1> QED BY <1>8, <1>9 DEF Stacks

\* and one that pops what it removes.
LEMMA StacksPop ==
    ASSUME NEW S, NEW S1, NEW F, NEW F1, NEW T, NEW T1, NEW w, NEW t \in Threads, NEW z,
           IsStacks(S), Stacks(S, F, T, w), Keeps(F, F1, T, T1, {z}), Pops(S, S1, t, z)
    PROVE  Stacks(S1, F1, T1, w)
  <1>1. /\ \A u \in Threads : \A n, y : On(S1, u, n, y) <=> On(S, u, n, y) /\ ~ (u = t /\ n = Len(S[t]))
        /\ On(S, t, Len(S[t]), z) /\ Len(S[t]) \in Nat /\ z \in Ranges
    BY DEF Pops
  <1>2. \A u \in Threads : \A n \in Nat : \A y \in Ranges : On(S1, u, n, y) => On(S, u, n, y) /\ y # z
    BY <1>1 DEF Stacks
  <1>3. \A u, v \in Threads : \A n, m \in Nat : \A y \in Ranges :
            On(S1, u, n, y) /\ On(S1, v, m, y) => u = v /\ n = m
    BY <1>2 DEF Stacks
  <1>4. SUFFICES ASSUME NEW u \in Threads, NEW n \in Nat, NEW y \in Ranges, On(S1, u, n, y)
                 PROVE  Placed(S1, F1, T1, w, u, n, y)
    BY <1>3 DEF Stacks
  <1>5. Placed(S, F, T, w, u, n, y) /\ y # z /\ On(S, u, n, y)
    BY <1>2, <1>4 DEF Stacks
  <1>6. y \in DOMAIN F1 \/ (y \in DOMAIN T1 /\ T1[y].held /\ T1[y].state \in Final)
    BY <1>5 DEF Placed, Keeps
  <1>7. Called(S, F, u, n, y) => Called(S1, F1, u, n, y)
    <2>1. SUFFICES ASSUME NEW c \in DOMAIN F, On(S, u, n - 1, c), F[c].pc = "rest", Kept(F[c]) = y
                   PROVE  Called(S1, F1, u, n, y)
      BY DEF Called
    <2>2. c \in DOMAIN F1 /\ F1[c].pc = "rest" /\ Kept(F1[c]) = y
      BY <1>5, <2>1 DEF Keeps
    <2>3. ~ (u = t /\ n - 1 = Len(S[t]))
      <3>1. n \in 1..Len(S[u])
        BY <1>5 DEF On
      <3> QED BY <1>1, <3>1
    <2>4. On(S1, u, n - 1, c)
      BY <1>1, <2>1, <2>3
    <2> QED BY <2>2, <2>4 DEF Called
  <1> QED BY <1>5, <1>6, <1>7 DEF Placed, Keeps

-----------------------------------------------------------------------------
(* What the steps keep of the stacks. *)

\* A step of a call on its own removes none.
LEMMA GoesKeeps ==
    ASSUME NEW F, NEW F1, NEW T, NEW c, NEW f, Alters(F, F1, c, f), Goes(c, F[c], f, T)
    PROVE  Keeps(F, F1, T, T, {})
  <1>1. F[c].pc # "rest" /\ DOMAIN F1 = DOMAIN F /\ \A d \in DOMAIN F : d # c => F1[d] = F[d]
    BY DEF Alters, Goes
  <1> QED BY <1>1 DEF Keeps

\* Spawning a task removes no call.
LEMMA SpawnsKeeps ==
    ASSUME NEW F, NEW F1, NEW T, NEW T1, NEW c, NEW f, NEW k, NEW g,
           Spawns(F, F1, T, T1, c, f, k, g), k \notin Touched(F, T)
    PROVE  Keeps(F, F1, T, T1, {})
  <1>1. /\ F[c].pc # "rest" /\ DOMAIN F1 = DOMAIN F
        /\ \A d \in DOMAIN F : d # c => F1[d] = F[d]
        /\ DOMAIN T \subseteq DOMAIN T1
        /\ \A j \in DOMAIN T : T1[j] = T[j]
    BY DEF Spawns, Alters, TaskIs, Touched
  <1> QED BY <1>1 DEF Keeps

\* Running a task removes no call.
LEMMA RunsKeeps ==
    ASSUME NEW F, NEW F1, NEW T, NEW T1, NEW k, NEW f, NEW g,
           Runs(F, F1, T, T1, k, f, g), k \notin DOMAIN F
    PROVE  Keeps(F, F1, T, T1, {})
  <1>1. /\ DOMAIN F \subseteq DOMAIN F1 /\ \A d \in DOMAIN F : F1[d] = F[d]
        /\ DOMAIN T1 = DOMAIN T /\ T[k].state \notin Final
        /\ \A j \in DOMAIN T : j # k => T1[j] = T[j]
    BY DEF Runs, Enters, TaskIs, Final
  <1> QED BY <1>1 DEF Keeps

\* A recursive call removes no call.
LEMMA RecursesKeeps ==
    ASSUME NEW F, NEW F1, NEW T, NEW c, NEW f, NEW x, NEW g,
           Recurses(F, F1, c, f, x, g), x \notin Touched(F, T)
    PROVE  Keeps(F, F1, T, T, {})
  <1>1. /\ DOMAIN F \subseteq DOMAIN F1 /\ F[c].pc # "rest"
        /\ \A d \in DOMAIN F : d # c => F1[d] = F[d]
    BY DEF Recurses, Touched
  <1> QED BY <1>1 DEF Keeps

\* The end of a task removes its call; the task is still held, and finished.
LEMMA EndsTaskKeeps ==
    ASSUME NEW F, NEW F1, NEW T, NEW T1, NEW c, NEW g, EndsTask(F, F1, T, T1, c, g), T[c].held
    PROVE  Keeps(F, F1, T, T1, {})
  <1>1. /\ DOMAIN F1 = DOMAIN F \ {c} /\ F[c].pc # "rest"
        /\ \A d \in DOMAIN F : d # c => F1[d] = F[d]
        /\ DOMAIN T1 = DOMAIN T /\ T1[c] = g /\ g.held /\ g.state \in Final /\ c \in DOMAIN T
        /\ \A j \in DOMAIN T : j # c => T1[j] = T[j]
    BY DEF EndsTask, Leaves, TaskIs, Final
  <1> QED BY <1>1 DEF Keeps

\* A return removes the call that returns.
LEMMA ReturnsKeeps ==
    ASSUME NEW F, NEW F1, NEW T, NEW c, NEW b, NEW f, Returns(F, F1, T, c, b, f)
    PROVE  Keeps(F, F1, T, T, {c})
  <1>1. /\ DOMAIN F1 = DOMAIN F \ {c} /\ F[c].pc # "rest" /\ Kept(F[b]) = c
        /\ \A d \in DOMAIN F : d # b /\ d # c => F1[d] = F[d]
    BY DEF Returns
  <1> QED BY <1>1 DEF Keeps

\* Canceling a task removes no call.
LEMMA CancelsKeeps ==
    ASSUME NEW F, NEW T, NEW T1, NEW k, NEW g, Cancels(T, T1, k, g)
    PROVE  Keeps(F, F, T, T1, {})
  <1>1. /\ DOMAIN T1 = DOMAIN T /\ T[k].state \notin Final
        /\ \A j \in DOMAIN T : j # k => T1[j] = T[j]
    BY DEF Cancels, TaskIs, Final
  <1> QED BY <1>1 DEF Keeps

\* The release of a task removes the task.
LEMMA ReleasesKeeps ==
    ASSUME NEW F, NEW T, NEW T1, NEW k, NEW g, Releases(F, T, T1, k, g)
    PROVE  Keeps(F, F, T, T1, {k})
  <1>1. DOMAIN T1 = DOMAIN T /\ \A j \in DOMAIN T : j # k => T1[j] = T[j]
    BY DEF Releases, TaskIs
  <1> QED BY <1>1 DEF Keeps

-----------------------------------------------------------------------------
(* Errors after each step. *)

\* A call throws, or the reduction after the join.
LEMMA GoesErrors ==
    ASSUME NEW F, NEW F1, NEW T, NEW w, NEW c, NEW f, Given(F, T, w),
           Alters(F, F1, c, f), Goes(c, F[c], f, T),
           NEW fault \in BOOLEAN, NEW fault1 \in BOOLEAN, NEW throws \in BOOLEAN, NEW thrown \in BOOLEAN,
           Result(F[c], f, T, throws), fault1 <=> fault \/ throws, Errors(F, T, fault, thrown)
    PROVE  Errors(F1, T, fault1, thrown)
  <1>1. /\ DOMAIN F1 = DOMAIN F /\ c \in DOMAIN F /\ F1[c] = f
        /\ \A d \in DOMAIN F : d # c => F1[d] = F[d]
        /\ CallShape(c, F[c], T, w)
    BY TreeFacts DEF Alters
  <1>2. CASE ~ fault1
    <2>1. /\ \A d \in DOMAIN F : F[d].ok
          /\ \A k \in DOMAIN T : T[k].state # "canceled"
          /\ ~ thrown
      BY <1>2 DEF Errors
    <2>2. F[c].pc = "join" => T[F[c].sub].state \in Final /\ F[c].sub \in DOMAIN T
      BY <1>1 DEF Goes, CallShape, Parents
    <2>3. f.ok
      BY <1>1, <1>2, <2>1, <2>2 DEF Final, Result
    <2> QED BY <1>1, <1>2, <2>1, <2>3 DEF Errors
  <1>3. CASE throws
    <2>1. Failing(F1[c], T)
      BY <1>1, <1>3 DEF Failing, Result
    <2> QED BY <1>1, <1>3, <2>1 DEF Errors
  <1>4. CASE fault
    <2>1. thrown \/ \E d \in DOMAIN F : Failing(F[d], T)
      BY <1>4 DEF Errors
    <2>2. Failing(F[c], T) => Failing(f, T)
      BY DEF Failing, Goes, Result
    <2>3. thrown \/ \E d \in DOMAIN F1 : Failing(F1[d], T)
      BY <1>1, <2>1, <2>2
    <2> QED BY <1>4, <2>3 DEF Errors
  <1> QED BY <1>2, <1>3, <1>4

\* A new task has not failed.
LEMMA SpawnsErrors ==
    ASSUME NEW F, NEW F1, NEW T, NEW T1, NEW w, Given(F, T, w), NEW c, NEW f, NEW k, NEW g,
           Spawns(F, F1, T, T1, c, f, k, g), k \notin Touched(F, T),
           NEW fault \in BOOLEAN, NEW thrown \in BOOLEAN, Errors(F, T, fault, thrown)
    PROVE  Errors(F1, T1, fault, thrown)
  <1>1. /\ DOMAIN F1 = DOMAIN F /\ c \in DOMAIN F /\ F1[c] = f /\ f.ok = F[c].ok /\ F[c].pc = "split"
        /\ \A d \in DOMAIN F : d # c => F1[d] = F[d]
        /\ DOMAIN T1 = DOMAIN T \union {k} /\ T1[k].state = "queued"
        /\ \A j \in DOMAIN T : T1[j] = T[j]
        /\ \A d \in DOMAIN F : CallShape(d, F[d], T, w)
    BY TreeFacts DEF Spawns, Alters, TaskIs, Touched
  <1>2. F[c].ok
    BY <1>1 DEF CallShape
  <1>3. \A d \in DOMAIN F : Failing(F[d], T) => d # c
    BY <1>1, <1>2 DEF Failing
  <1>4. \A d \in DOMAIN F : Failing(F[d], T) => Failing(F1[d], T1)
    <2>1. SUFFICES ASSUME NEW d \in DOMAIN F, Failing(F[d], T) PROVE Failing(F1[d], T1)
      OBVIOUS
    <2>2. F1[d] = F[d] /\ CallShape(d, F[d], T, w)
      BY <1>1, <1>3, <2>1
    <2>3. F[d].pc \in Parents => T1[F[d].sub] = T[F[d].sub]
      BY <1>1, <2>2 DEF CallShape
    <2> QED BY <2>1, <2>2, <2>3 DEF Failing, Parents
  <1>5. CASE fault
    BY <1>1, <1>4, <1>5 DEF Errors
  <1>6. CASE ~ fault
    BY <1>1, <1>2, <1>6 DEF Errors
  <1> QED BY <1>5, <1>6

\* A task that is taken keeps what has failed.
LEMMA RunsErrors ==
    ASSUME NEW F, NEW F1, NEW T, NEW T1, NEW w, Given(F, T, w), NEW k, NEW f, NEW g,
           Runs(F, F1, T, T1, k, f, g), k \notin DOMAIN F,
           NEW fault \in BOOLEAN, NEW thrown \in BOOLEAN, Errors(F, T, fault, thrown)
    PROVE  Errors(F1, T1, fault, thrown)
  <1>1. /\ DOMAIN F1 = DOMAIN F \union {k} /\ F1[k].ok
        /\ \A d \in DOMAIN F : F1[d] = F[d]
        /\ DOMAIN T1 = DOMAIN T /\ T[k].state = "queued" /\ T1[k].state = "running"
        /\ \A j \in DOMAIN T : j # k => T1[j] = T[j]
    BY DEF Runs, Enters, First, TaskIs
  <1>2. \A d \in DOMAIN F : Failing(F[d], T) => Failing(F1[d], T1)
    <2>1. \A d \in DOMAIN F : F[d].pc \in Parents => F[d].sub \in DOMAIN T
      BY TreeFacts DEF CallShape
    <2> QED BY <1>1, <2>1 DEF Failing, Parents
  <1>3. CASE fault
    BY <1>1, <1>2, <1>3 DEF Errors
  <1>4. CASE ~ fault
    BY <1>1, <1>4 DEF Errors
  <1> QED BY <1>3, <1>4

\* So does a recursive call.
LEMMA RecursesErrors ==
    ASSUME NEW F, NEW F1, NEW T, NEW c, NEW f, NEW x, NEW g,
           Recurses(F, F1, c, f, x, g), x \notin Touched(F, T),
           NEW fault \in BOOLEAN, NEW thrown \in BOOLEAN, Errors(F, T, fault, thrown)
    PROVE  Errors(F1, T, fault, thrown)
  <1>1. /\ DOMAIN F1 = DOMAIN F \union {x} /\ F1[x].ok /\ c \in DOMAIN F /\ F1[c] = f
        /\ F[c].pc = "spawned" /\ f.pc = "rest" /\ f.sub = F[c].sub /\ f.ok = F[c].ok
        /\ \A d \in DOMAIN F : d # c => F1[d] = F[d]
    BY DEF Recurses, First, Touched
  <1>2. \A d \in DOMAIN F : Failing(F[d], T) => Failing(F1[d], T)
    BY <1>1 DEF Failing
  <1>3. CASE fault
    BY <1>1, <1>2, <1>3 DEF Errors
  <1>4. CASE ~ fault
    BY <1>1, <1>4 DEF Errors
  <1> QED BY <1>3, <1>4

\* A call that waits for an unfinished task sees how it ends.
LEMMA TaskFails ==
    ASSUME NEW F, NEW T, NEW w, Given(F, T, w), NEW k \in DOMAIN T, T[k].held, T[k].state \notin Final
    PROVE  \E d \in DOMAIN F : F[d].sub = k /\ F[d].pc \in {"spawned", "rest", "join"}
  <1>1. PICK d \in DOMAIN F : Waited(k, F[d], T)
    BY DEF Given, Tree, Covered
  <1> QED BY <1>1 DEF Waited, Parents

\* The failure of a call is that of its task, which the parent has not joined.
LEMMA EndsTaskErrors ==
    ASSUME NEW F, NEW F1, NEW T, NEW T1, NEW w, Given(F, T, w), NEW c, NEW g,
           EndsTask(F, F1, T, T1, c, g), T[c].held,
           NEW fault \in BOOLEAN, NEW thrown \in BOOLEAN, Errors(F, T, fault, thrown)
    PROVE  Errors(F1, T1, fault, thrown)
  <1>1. /\ DOMAIN F1 = DOMAIN F \ {c} /\ c \in DOMAIN F /\ F[c].pc = "leave" /\ c \in DOMAIN T
        /\ \A d \in DOMAIN F : d # c => F1[d] = F[d]
        /\ DOMAIN T1 = DOMAIN T /\ T1[c] = g
        /\ \A j \in DOMAIN T : j # c => T1[j] = T[j]
        /\ g.state = IF F[c].ok THEN "completed" ELSE "canceled"
    BY DEF EndsTask, Leaves, TaskIs
  <1>2. T[c].state = "running"
    BY <1>1, TreeFacts DEF TaskShape
  <1>3. PICK e \in DOMAIN F : F[e].sub = c /\ F[e].pc \in {"spawned", "rest", "join"}
    BY <1>1, <1>2, TaskFails DEF Final
  <1>4. e \in DOMAIN F1 /\ F1[e] = F[e]
    BY <1>1, <1>3
  <1>5. CASE ~ fault
    BY <1>1, <1>5 DEF Errors
  <1>6. CASE fault /\ ~ F[c].ok
    <2>1. Failing(F1[e], T1)
      BY <1>1, <1>3, <1>4, <1>6 DEF Failing
    <2> QED BY <1>4, <1>6, <2>1 DEF Errors
  <1>7. CASE fault /\ F[c].ok
    <2>1. \A d \in DOMAIN F : Failing(F[d], T) => d # c
      BY <1>1, <1>7 DEF Failing
    <2>2. \A d \in DOMAIN F : Failing(F[d], T) => d \in DOMAIN F1 /\ Failing(F1[d], T1)
      <3>1. SUFFICES ASSUME NEW d \in DOMAIN F, Failing(F[d], T)
                     PROVE  d \in DOMAIN F1 /\ Failing(F1[d], T1)
        OBVIOUS
      <3>2. d \in DOMAIN F1 /\ F1[d] = F[d] /\ CallShape(d, F[d], T, w)
        BY <1>1, <2>1, <3>1, TreeFacts
      <3>3. F[d].pc \in Parents => F[d].sub \in DOMAIN T
        BY <3>2 DEF CallShape
      <3> QED BY <1>1, <1>2, <3>1, <3>2, <3>3 DEF Failing, Parents
    <2> QED BY <1>7, <2>2 DEF Errors
  <1> QED BY <1>5, <1>6, <1>7

\* The failure of a call of the recursion is that of its caller.
LEMMA ReturnsErrors ==
    ASSUME NEW F, NEW F1, NEW T, NEW w, Given(F, T, w), NEW c, NEW b, NEW f,
           Returns(F, F1, T, c, b, f),
           NEW fault \in BOOLEAN, NEW thrown \in BOOLEAN, Errors(F, T, fault, thrown)
    PROVE  Errors(F1, T, fault, thrown)
  <1>1. /\ DOMAIN F1 = DOMAIN F \ {c} /\ c \in DOMAIN F /\ b \in DOMAIN F /\ b # c
        /\ F[c].pc = "leave" /\ F[b].pc = "rest" /\ F1[b] = f /\ f.pc = "join"
        /\ f.sub = F[b].sub /\ f.ok = F[c].ok
        /\ \A d \in DOMAIN F : d # b /\ d # c => F1[d] = F[d]
    BY DEF Returns
  <1>2. F[b].ok
    BY <1>1, TreeFacts DEF CallShape
  <1>3. Failing(F[c], T) \/ Failing(F[b], T) => Failing(F1[b], T)
    BY <1>1, <1>2 DEF Failing
  <1>4. (\E d \in DOMAIN F : Failing(F[d], T)) => \E d \in DOMAIN F1 : Failing(F1[d], T)
    BY <1>1, <1>3
  <1>5. CASE fault
    BY <1>4, <1>5 DEF Errors
  <1>6. CASE ~ fault
    BY <1>1, <1>6 DEF Errors
  <1> QED BY <1>5, <1>6

\* A canceled task is one that some call has still to join.
LEMMA CancelsErrors ==
    ASSUME NEW F, NEW T, NEW T1, NEW w, Given(F, T, w), NEW k, NEW g, Cancels(T, T1, k, g), T[k].held
    PROVE  \E d \in DOMAIN F : Failing(F[d], T1)
  <1>1. k \in DOMAIN T /\ T[k].state \notin Final /\ T1[k].state = "canceled"
    BY DEF Cancels, TaskIs, Final
  <1>2. PICK d \in DOMAIN F : F[d].sub = k /\ F[d].pc \in {"spawned", "rest", "join"}
    BY <1>1, TaskFails
  <1>3. Failing(F[d], T1)
    BY <1>1, <1>2 DEF Failing
  <1> QED BY <1>3

\* A task that is released has been joined: its failure is that of the parent.
LEMMA ReleasesErrors ==
    ASSUME NEW F, NEW T, NEW T1, NEW w, Given(F, T, w), NEW k, NEW g, Releases(F, T, T1, k, g),
           NEW fault \in BOOLEAN, NEW thrown \in BOOLEAN, Errors(F, T, fault, thrown)
    PROVE  Errors(F, T1, fault, thrown)
  <1>1. DOMAIN T1 = DOMAIN T /\ \A j \in DOMAIN T : T1[j].state = T[j].state
    BY DEF Releases, TaskIs
  <1>2. \A d \in DOMAIN F : Failing(F[d], T) => Failing(F[d], T1)
    <2>1. \A d \in DOMAIN F : F[d].pc \in Parents => F[d].sub \in DOMAIN T
      BY TreeFacts DEF CallShape
    <2> QED BY <1>1, <2>1 DEF Failing, Parents
  <1>3. CASE fault
    BY <1>2, <1>3 DEF Errors
  <1>4. CASE ~ fault
    BY <1>1, <1>4 DEF Errors
  <1> QED BY <1>3, <1>4

-----------------------------------------------------------------------------
(* Elements that are not reached yet, after each step. *)

Counts(A, w) == A \in [w[1]..(w[2] - 1) -> Nat]

\* What is ahead of a call is in it.
LEMMA AheadHas ==
    ASSUME NEW F, NEW T, NEW w, Given(F, T, w), NEW c \in DOMAIN F, NEW i \in Int, Ahead(c, F[c], i)
    PROVE  Has(c, i)
  <1>1. CallShape(c, F[c], T, w) /\ F[c] \in Frames /\ Kept(F[c]) \in Ranges /\ F[c].sub \in Ranges
        /\ c \in Ranges
    BY KeptRange, TreeFacts
  <1>2. F[c].next \in Int
    BY <1>1 DEF Frames
  <1>3. CASE F[c].pc = "split"
    BY <1>3 DEF Ahead
  <1>4. CASE F[c].pc = "loop"
    BY <1>1, <1>2, <1>4 DEF Ahead, CallShape, Has, Ranges
  <1>5. CASE F[c].pc = "spawned"
    <2>1. InTwo(c, Kept(F[c]), F[c].sub) /\ Has(Kept(F[c]), i)
      BY <1>1, <1>5 DEF Ahead, CallShape, Parents
    <2> QED BY <1>1, <2>1 DEF InTwo, Has, Proper, Ranges
  <1> QED BY <1>3, <1>4, <1>5 DEF Ahead

\* When a call loops over an element, nothing else has it ahead.
LEMMA OneAhead ==
    ASSUME NEW F, NEW T, NEW w, Given(F, T, w), NEW c \in DOMAIN F, F[c].pc = "loop",
           NEW i \in Int, Has(c, i)
    PROVE  /\ \A d \in DOMAIN F : d # c => ~ Ahead(d, F[d], i)
           /\ \A k \in DOMAIN T : T[k].state = "queued" => ~ Has(k, i)
  <1>1. /\ Touched(F, T) \subseteq Ranges /\ c \in Touched(F, T) /\ c \in Ranges
        /\ Laminar(Touched(F, T)) /\ Live(c, F, T)
    BY TreeFacts
  <1>2. \A x \in Touched(F, T) : Has(x, i) => x = c \/ Inside(c, x)
    <2>1. SUFFICES ASSUME NEW x \in Touched(F, T), Has(x, i), x # c PROVE Inside(c, x)
      OBVIOUS
    <2>2. ~ Apart(c, x)
      BY <1>1, <2>1 DEF Has, Apart, Ranges
    <2>3. ~ Inside(x, c)
      BY TreeFacts DEF Inner
    <2> QED BY <1>1, <2>1, <2>2, <2>3 DEF Laminar, Inside
  <1>3. \A d \in DOMAIN F : d # c => ~ Ahead(d, F[d], i)
    <2>1. SUFFICES ASSUME NEW d \in DOMAIN F, d # c, Ahead(d, F[d], i) PROVE FALSE
      OBVIOUS
    <2>2. Has(d, i) /\ d \in Touched(F, T)
      BY <2>1, AheadHas, TreeFacts
    <2>3. Inner(c, F[d], F, T)
      BY <1>1, <1>2, <2>1, <2>2, TreeFacts
    <2>4. F[d].pc = "spawned" /\ Has(Kept(F[d]), i) /\ Within(c, F[d].sub)
      BY <2>1, <2>3 DEF Inner, Ahead
    <2>5. InTwo(d, Kept(F[d]), F[d].sub)
      BY <2>4, TreeFacts DEF CallShape, Parents
    <2>6. Kept(F[d]) \in Ranges /\ F[d].sub \in Ranges
      BY KeptRange, TreeFacts
    <2> QED BY <1>1, <2>4, <2>5, <2>6 DEF InTwo, Has, Within, Ranges
  <1>4. \A k \in DOMAIN T : T[k].state = "queued" => ~ Has(k, i)
    <2>1. SUFFICES ASSUME NEW k \in DOMAIN T, T[k].state = "queued", Has(k, i) PROVE FALSE
      OBVIOUS
    <2>2. k \notin DOMAIN F /\ k \in Touched(F, T)
      BY <2>1, TreeFacts DEF TaskShape
    <2>3. Inside(c, k)
      BY <1>2, <2>1, <2>2
    <2> QED BY <1>1, <2>2, <2>3, TreeFacts
  <1> QED BY <1>3, <1>4

\* A call goes on without a use of the function.
LEMMA GoesFresh ==
    ASSUME NEW F, NEW F1, NEW T, NEW A, NEW w, Given(F, T, w), Counts(A, w), NEW c, NEW f,
           Alters(F, F1, c, f), Goes(c, F[c], f, T), F[c].pc # "loop", Fresh(F, T, A)
    PROVE  Fresh(F1, T, A)
  <1>1. /\ DOMAIN F1 = DOMAIN F /\ c \in DOMAIN F /\ F1[c] = f
        /\ \A d \in DOMAIN F : d # c => F1[d] = F[d]
        /\ CallShape(c, F[c], T, w) /\ c \in Ranges
    BY TreeFacts DEF Alters
  <1>2. \A i \in DOMAIN A : i \in Int
    BY DEF Counts, Given, Ranges
  <1>3. \A i \in DOMAIN A : Ahead(c, f, i) => Ahead(c, F[c], i)
    BY <1>1, <1>2 DEF Ahead, Goes, CallShape, Has, Ranges
  <1> QED BY <1>1, <1>3 DEF Fresh

\* A use of the function.
LEMMA AppliesFresh ==
    ASSUME NEW F, NEW F1, NEW T, NEW A, NEW A1, NEW w, Given(F, T, w), Counts(A, w), NEW c, NEW f,
           Alters(F, F1, c, f), Goes(c, F[c], f, T), F[c].pc = "loop",
           Applies(A, A1, F[c].next), Fresh(F, T, A)
    PROVE  Fresh(F1, T, A1) /\ Counts(A1, w)
  <1>1. /\ DOMAIN F1 = DOMAIN F /\ c \in DOMAIN F /\ F1[c] = f
        /\ \A d \in DOMAIN F : d # c => F1[d] = F[d]
        /\ CallShape(c, F[c], T, w) /\ c \in Ranges /\ F[c] \in Frames /\ f \in Frames
    BY TreeFacts DEF Alters
  <1>2. PICK i \in Int : i = F[c].next
    BY <1>1 DEF Frames
  <1>3. Has(c, i) /\ Ahead(c, F[c], i)
    BY <1>1, <1>2 DEF CallShape, Ahead, Has, Ranges
  <1>4. i \in DOMAIN A
    BY <1>1, <1>2, <1>3 DEF Given, Counts, CallShape, Within, Has, Ranges
  <1>5. A[i] = 0
    BY <1>1, <1>3, <1>4 DEF Fresh
  <1>6. /\ DOMAIN A1 = DOMAIN A /\ A1[i] = 1 /\ \A j \in DOMAIN A : j # i => A1[j] = A[j]
    BY <1>2, <1>4, <1>5 DEF Counts, Applies
  <1>7. Counts(A1, w)
    BY <1>2, <1>4, <1>5 DEF Counts, Applies
  <1>8. \A j \in DOMAIN A : j \in Int
    BY DEF Counts, Given, Ranges
  <1>9. \A j \in DOMAIN A : Ahead(c, f, j) => Ahead(c, F[c], j) /\ j # i
    BY <1>1, <1>2, <1>8 DEF Ahead, Goes
  <1>10. /\ \A d \in DOMAIN F : d # c => ~ Ahead(d, F[d], i)
         /\ \A k \in DOMAIN T : T[k].state = "queued" => ~ Has(k, i)
    BY <1>1, <1>3, OneAhead
  <1>11. \A j \in DOMAIN A : \A d \in DOMAIN F : Ahead(d, F1[d], j) => Ahead(d, F[d], j) /\ j # i
    BY <1>1, <1>9, <1>10
  <1>12. Fresh(F1, T, A1)
    BY <1>1, <1>6, <1>10, <1>11 DEF Fresh
  <1> QED BY <1>7, <1>12

\* A call that spawns a task has applied nothing, nor have its two parts.
LEMMA SpawnsFresh ==
    ASSUME NEW F, NEW F1, NEW T, NEW T1, NEW A, NEW w, Given(F, T, w), Counts(A, w),
           NEW c, NEW f, NEW k, NEW g,
           Spawns(F, F1, T, T1, c, f, k, g), k \notin Touched(F, T), Fresh(F, T, A)
    PROVE  Fresh(F1, T1, A)
  <1>1. /\ DOMAIN F1 = DOMAIN F /\ c \in DOMAIN F /\ F1[c] = f /\ F[c].pc = "split" /\ f.pc = "spawned"
        /\ InTwo(c, Kept(f), k) /\ f \in Frames /\ k \in Ranges
        /\ \A d \in DOMAIN F : d # c => F1[d] = F[d]
        /\ DOMAIN T1 = DOMAIN T \union {k} /\ \A j \in DOMAIN T : T1[j] = T[j]
    BY DEF Spawns, Alters, TaskIs, Touched
  <1>2. c \in Ranges /\ Kept(f) \in Ranges /\ \A i \in DOMAIN A : i \in Int
    BY <1>1, KeptRange, TreeFacts DEF Counts, Given, Ranges
  <1>3. \A i \in DOMAIN A : Has(Kept(f), i) \/ Has(k, i) => Has(c, i)
    BY <1>1, <1>2 DEF InTwo, Has, Proper, Ranges
  <1>4. \A i \in DOMAIN A : Has(c, i) => A[i] = 0
    BY <1>1 DEF Fresh, Ahead
  <1>5. \A i \in DOMAIN A : Ahead(c, f, i) => A[i] = 0
    BY <1>1, <1>3, <1>4 DEF Ahead
  <1> QED BY <1>1, <1>3, <1>4, <1>5 DEF Fresh

\* A queued task that becomes a call has applied nothing.
LEMMA RunsFresh ==
    ASSUME NEW F, NEW F1, NEW T, NEW T1, NEW A, NEW k, NEW f, NEW g,
           Runs(F, F1, T, T1, k, f, g), k \notin DOMAIN F, Fresh(F, T, A)
    PROVE  Fresh(F1, T1, A)
  <1>1. /\ DOMAIN F1 = DOMAIN F \union {k} /\ F1[k].pc = "split"
        /\ \A d \in DOMAIN F : F1[d] = F[d]
        /\ DOMAIN T1 = DOMAIN T /\ T[k].state = "queued" /\ T1[k].state = "running" /\ k \in DOMAIN T
        /\ \A j \in DOMAIN T : j # k => T1[j] = T[j]
    BY DEF Runs, Enters, First, TaskIs
  <1>2. \A i \in DOMAIN A : Ahead(k, F1[k], i) => Has(k, i)
    BY <1>1 DEF Ahead
  <1> QED BY <1>1, <1>2 DEF Fresh

\* The part left for the recursion is handed from the caller to the new call.
LEMMA RecursesFresh ==
    ASSUME NEW F, NEW F1, NEW T, NEW A, NEW c, NEW f, NEW x, NEW g,
           Recurses(F, F1, c, f, x, g), x \notin Touched(F, T), Fresh(F, T, A)
    PROVE  Fresh(F1, T, A)
  <1>1. /\ DOMAIN F1 = DOMAIN F \union {x} /\ F1[x].pc = "split" /\ c \in DOMAIN F
        /\ F1[c].pc = "rest" /\ F[c].pc = "spawned" /\ x = Kept(F[c])
        /\ \A d \in DOMAIN F : d # c => F1[d] = F[d]
    BY DEF Recurses, First, Touched
  <1>2. \A i \in DOMAIN A : Ahead(x, F1[x], i) => Ahead(c, F[c], i)
    BY <1>1 DEF Ahead
  <1>3. \A i \in DOMAIN A : ~ Ahead(c, F1[c], i)
    BY <1>1 DEF Ahead
  <1> QED BY <1>1, <1>2, <1>3 DEF Fresh

\* The end of a task applies nothing.
LEMMA EndsTaskFresh ==
    ASSUME NEW F, NEW F1, NEW T, NEW T1, NEW A, NEW c, NEW g,
           EndsTask(F, F1, T, T1, c, g), Fresh(F, T, A)
    PROVE  Fresh(F1, T1, A)
  <1>1. /\ DOMAIN F1 \subseteq DOMAIN F /\ \A d \in DOMAIN F1 : F1[d] = F[d]
        /\ DOMAIN T1 = DOMAIN T /\ T1[c].state # "queued"
        /\ \A j \in DOMAIN T : j # c => T1[j] = T[j]
    BY DEF EndsTask, Leaves, TaskIs
  <1> QED BY <1>1 DEF Fresh

\* A return applies nothing.
LEMMA ReturnsFresh ==
    ASSUME NEW F, NEW F1, NEW T, NEW A, NEW c, NEW b, NEW f, Returns(F, F1, T, c, b, f), Fresh(F, T, A)
    PROVE  Fresh(F1, T, A)
  <1>1. /\ DOMAIN F1 = DOMAIN F \ {c} /\ F1[b].pc = "join"
        /\ \A d \in DOMAIN F : d # b /\ d # c => F1[d] = F[d]
    BY DEF Returns
  <1>2. \A i \in DOMAIN A : ~ Ahead(b, F1[b], i)
    BY <1>1 DEF Ahead
  <1> QED BY <1>1, <1>2 DEF Fresh

\* A canceled task applies nothing.
LEMMA CancelsFresh ==
    ASSUME NEW F, NEW T, NEW T1, NEW A, NEW k, NEW g, Cancels(T, T1, k, g), Fresh(F, T, A)
    PROVE  Fresh(F, T1, A)
  <1>1. /\ DOMAIN T1 = DOMAIN T /\ T1[k].state # "queued"
        /\ \A j \in DOMAIN T : j # k => T1[j] = T[j]
    BY DEF Cancels, TaskIs
  <1> QED BY <1>1 DEF Fresh

\* The release of a task applies nothing.
LEMMA ReleasesFresh ==
    ASSUME NEW F, NEW T, NEW T1, NEW A, NEW k, NEW g, Releases(F, T, T1, k, g), Fresh(F, T, A)
    PROVE  Fresh(F, T1, A)
  <1>1. DOMAIN T1 = DOMAIN T /\ \A j \in DOMAIN T : T1[j].state = T[j].state
    BY DEF Releases, TaskIs
  <1> QED BY <1>1 DEF Fresh

-----------------------------------------------------------------------------
(* Elements that are still due, after each step. *)

\* A call that does not fail and goes on drops no element.
LEMMA GoesDue ==
    ASSUME NEW F, NEW F1, NEW T, NEW A, NEW w, Given(F, T, w), Counts(A, w), NEW c, NEW f,
           Alters(F, F1, c, f), Goes(c, F[c], f, T), F[c].pc # "loop",
           NEW fault \in BOOLEAN, NEW fault1 \in BOOLEAN, NEW throws \in BOOLEAN,
           Result(F[c], f, T, throws), fault1 <=> fault \/ throws, Due(F, T, A, fault)
    PROVE  Due(F1, T, A, fault1)
  <1>1. /\ DOMAIN F1 = DOMAIN F /\ c \in DOMAIN F /\ F1[c] = f
        /\ \A d \in DOMAIN F : d # c => F1[d] = F[d]
        /\ CallShape(c, F[c], T, w) /\ c \in Ranges
    BY TreeFacts DEF Alters
  <1>2. \A i \in DOMAIN A : i \in Int
    BY DEF Counts, Given, Ranges
  <1>3. CASE ~ throws
    <2>1. F[c].pc = "split" => f.ok
      BY <1>1, <1>3 DEF Result, CallShape
    <2>2. F[c].pc # "split" => \A i \in DOMAIN A : ~ Ahead(c, F[c], i)
      BY DEF Ahead, Goes
    <2>3. F[c].pc = "split" => \A i \in DOMAIN A : Ahead(c, F[c], i) => Ahead(c, f, i)
      <3> SUFFICES ASSUME F[c].pc = "split", NEW i \in Int, Ahead(c, F[c], i)
                   PROVE  Ahead(c, f, i)
        BY <1>2
      <3>1. Has(c, i) /\ c[1] \in Int /\ c[2] \in Int
        BY <1>1 DEF Ahead, Ranges
      <3>2. f.pc = "loop" /\ f.next = F[c].next
        <4>1. Proper(c)
          BY <3>1 DEF Has, Proper
        <4> QED BY <2>1, <4>1 DEF Goes
      <3>3. F[c].next = c[1]
        BY <1>1 DEF CallShape
      <3> QED BY <3>1, <3>2, <3>3 DEF Ahead, Has
    <2>4. \A i \in DOMAIN A : \A d \in DOMAIN F : Ahead(d, F[d], i) => Ahead(d, F1[d], i)
      BY <1>1, <2>2, <2>3
    <2> QED BY <1>1, <1>3, <2>4 DEF Due
  <1>4. CASE throws
    BY <1>4 DEF Due
  <1> QED BY <1>3, <1>4

\* An element that was ahead of a call in its loop is applied, or still ahead.
LEMMA AppliesDue ==
    ASSUME NEW F, NEW F1, NEW T, NEW A, NEW A1, NEW w, Given(F, T, w), Counts(A, w), NEW c, NEW f,
           Alters(F, F1, c, f), Goes(c, F[c], f, T), F[c].pc = "loop",
           Applies(A, A1, F[c].next), Fresh(F, T, A),
           NEW fault \in BOOLEAN, NEW fault1 \in BOOLEAN, NEW throws \in BOOLEAN,
           Result(F[c], f, T, throws), fault1 <=> fault \/ throws, Due(F, T, A, fault)
    PROVE  Due(F1, T, A1, fault1)
  <1>1. /\ DOMAIN F1 = DOMAIN F /\ c \in DOMAIN F /\ F1[c] = f
        /\ \A d \in DOMAIN F : d # c => F1[d] = F[d]
        /\ CallShape(c, F[c], T, w) /\ c \in Ranges /\ F[c] \in Frames /\ f \in Frames
    BY TreeFacts DEF Alters
  <1>2. PICK i \in Int : i = F[c].next
    BY <1>1 DEF Frames
  <1>3. Has(c, i) /\ Ahead(c, F[c], i)
    BY <1>1, <1>2 DEF CallShape, Ahead, Has, Ranges
  <1>4. i \in DOMAIN A
    BY <1>1, <1>2, <1>3 DEF Given, Counts, CallShape, Within, Has, Ranges
  <1>5. A[i] = 0
    BY <1>1, <1>3, <1>4 DEF Fresh
  <1>6. /\ DOMAIN A1 = DOMAIN A /\ A1[i] = 1 /\ \A j \in DOMAIN A : j # i => A1[j] = A[j]
    BY <1>2, <1>4, <1>5 DEF Counts, Applies
  <1>7. \A j \in DOMAIN A : j \in Int
    BY DEF Counts, Given, Ranges
  <1>8. CASE ~ throws
    <2>1. f.ok
      BY <1>1, <1>8 DEF Result, CallShape
    <2>2. \A j \in DOMAIN A : Ahead(c, F[c], j) /\ j # i => Ahead(c, f, j)
      <3> SUFFICES ASSUME NEW j \in Int, Ahead(c, F[c], j), j # i PROVE Ahead(c, f, j)
        BY <1>7
      <3>1. i <= j /\ j < c[2] /\ c[2] \in Int
        BY <1>1, <1>2 DEF Ahead, Ranges
      <3>2. f.pc = "loop" /\ f.next = i + 1
        <4>1. i + 1 # c[2]
          BY <3>1
        <4> QED BY <1>2, <2>1, <4>1 DEF Goes
      <3> QED BY <3>1, <3>2 DEF Ahead
    <2>3. \A j \in DOMAIN A : j # i => \A d \in DOMAIN F : Ahead(d, F[d], j) => Ahead(d, F1[d], j)
      BY <1>1, <2>2
    <2> QED BY <1>1, <1>6, <1>8, <2>3 DEF Due
  <1>9. CASE throws
    BY <1>9 DEF Due
  <1> QED BY <1>8, <1>9

\* What was ahead of the call that splits is ahead of it or in the new task.
LEMMA SpawnsDue ==
    ASSUME NEW F, NEW F1, NEW T, NEW T1, NEW A, NEW w, Given(F, T, w), Counts(A, w),
           NEW c, NEW f, NEW k, NEW g,
           Spawns(F, F1, T, T1, c, f, k, g), k \notin Touched(F, T),
           NEW fault \in BOOLEAN, Due(F, T, A, fault)
    PROVE  Due(F1, T1, A, fault)
  <1>1. /\ DOMAIN F1 = DOMAIN F /\ c \in DOMAIN F /\ F1[c] = f /\ F[c].pc = "split" /\ f.pc = "spawned"
        /\ InTwo(c, Kept(f), k) /\ f \in Frames /\ k \in Ranges
        /\ \A d \in DOMAIN F : d # c => F1[d] = F[d]
        /\ DOMAIN T1 = DOMAIN T \union {k} /\ \A j \in DOMAIN T : T1[j] = T[j]
        /\ T1[k].state = "queued"
    BY DEF Spawns, Alters, TaskIs, Touched
  <1>2. c \in Ranges /\ Kept(f) \in Ranges /\ \A i \in DOMAIN A : i \in Int
    BY <1>1, KeptRange, TreeFacts DEF Counts, Given, Ranges
  <1>3. \A i \in DOMAIN A : Has(c, i) => Has(Kept(f), i) \/ Has(k, i)
    BY <1>1, <1>2 DEF InTwo, Has, Proper, Ranges
  <1>4. \A i \in DOMAIN A : Ahead(c, F[c], i) => Ahead(c, f, i) \/ Has(k, i)
    BY <1>1, <1>3 DEF Ahead
  <1>5. SUFFICES ASSUME ~ fault, NEW i \in DOMAIN A, A[i] # 1
                 PROVE  \/ \E d \in DOMAIN F1 : Ahead(d, F1[d], i)
                        \/ \E j \in DOMAIN T1 : T1[j].state = "queued" /\ Has(j, i)
    BY DEF Due
  <1>6. CASE \E d \in DOMAIN F : Ahead(d, F[d], i)
    BY <1>1, <1>4, <1>6
  <1>7. CASE \E j \in DOMAIN T : T[j].state = "queued" /\ Has(j, i)
    BY <1>1, <1>7
  <1> QED BY <1>5, <1>6, <1>7 DEF Due

\* What was in the queued task is ahead of its call.
LEMMA RunsDue ==
    ASSUME NEW F, NEW F1, NEW T, NEW T1, NEW A, NEW k, NEW f, NEW g,
           Runs(F, F1, T, T1, k, f, g), k \notin DOMAIN F,
           NEW fault \in BOOLEAN, Due(F, T, A, fault)
    PROVE  Due(F1, T1, A, fault)
  <1>1. /\ DOMAIN F1 = DOMAIN F \union {k} /\ F1[k].pc = "split"
        /\ \A d \in DOMAIN F : F1[d] = F[d]
        /\ DOMAIN T1 = DOMAIN T
        /\ \A j \in DOMAIN T : j # k => T1[j] = T[j]
    BY DEF Runs, Enters, First, TaskIs
  <1>2. \A i \in DOMAIN A : Has(k, i) => Ahead(k, F1[k], i)
    BY <1>1 DEF Ahead
  <1>3. SUFFICES ASSUME ~ fault, NEW i \in DOMAIN A, A[i] # 1
                 PROVE  \/ \E d \in DOMAIN F1 : Ahead(d, F1[d], i)
                        \/ \E j \in DOMAIN T1 : T1[j].state = "queued" /\ Has(j, i)
    BY DEF Due
  <1>4. CASE \E d \in DOMAIN F : Ahead(d, F[d], i)
    BY <1>1, <1>4
  <1>5. CASE \E j \in DOMAIN T : T[j].state = "queued" /\ Has(j, i)
    <2>1. PICK j \in DOMAIN T : T[j].state = "queued" /\ Has(j, i)
      BY <1>5
    <2> QED BY <1>1, <1>2, <2>1
  <1> QED BY <1>3, <1>4, <1>5 DEF Due

\* What was ahead of the caller is ahead of the new call.
LEMMA RecursesDue ==
    ASSUME NEW F, NEW F1, NEW T, NEW A, NEW c, NEW f, NEW x, NEW g,
           Recurses(F, F1, c, f, x, g), x \notin Touched(F, T),
           NEW fault \in BOOLEAN, Due(F, T, A, fault)
    PROVE  Due(F1, T, A, fault)
  <1>1. /\ DOMAIN F1 = DOMAIN F \union {x} /\ F1[x].pc = "split" /\ c \in DOMAIN F
        /\ F[c].pc = "spawned" /\ x = Kept(F[c])
        /\ \A d \in DOMAIN F : d # c => F1[d] = F[d]
    BY DEF Recurses, First, Touched
  <1>2. \A i \in DOMAIN A : Ahead(c, F[c], i) => Ahead(x, F1[x], i)
    BY <1>1 DEF Ahead
  <1> QED BY <1>1, <1>2 DEF Due

\* A call that ends its task has nothing ahead.
LEMMA EndsTaskDue ==
    ASSUME NEW F, NEW F1, NEW T, NEW T1, NEW A, NEW w, Given(F, T, w), NEW c, NEW g,
           EndsTask(F, F1, T, T1, c, g), NEW fault \in BOOLEAN, Due(F, T, A, fault)
    PROVE  Due(F1, T1, A, fault)
  <1>1. /\ DOMAIN F1 = DOMAIN F \ {c} /\ (\A d \in DOMAIN F : d # c => F1[d] = F[d])
        /\ F[c].pc = "leave" /\ c \in DOMAIN F /\ c \in DOMAIN T
        /\ DOMAIN T1 = DOMAIN T /\ \A j \in DOMAIN T : j # c => T1[j] = T[j]
    BY DEF EndsTask, Leaves, TaskIs
  <1>2. T[c].state = "running"
    BY <1>1, TreeFacts DEF TaskShape
  <1>3. \A i \in DOMAIN A : ~ Ahead(c, F[c], i)
    BY <1>1 DEF Ahead
  <1> QED BY <1>1, <1>2, <1>3 DEF Due

\* A call that returns has nothing ahead.
LEMMA ReturnsDue ==
    ASSUME NEW F, NEW F1, NEW T, NEW A, NEW c, NEW b, NEW f, Returns(F, F1, T, c, b, f),
           NEW fault \in BOOLEAN, Due(F, T, A, fault)
    PROVE  Due(F1, T, A, fault)
  <1>1. /\ DOMAIN F1 = DOMAIN F \ {c} /\ F[c].pc = "leave" /\ F[b].pc = "rest"
        /\ \A d \in DOMAIN F : d # b /\ d # c => F1[d] = F[d]
    BY DEF Returns
  <1>2. \A i \in DOMAIN A : ~ Ahead(b, F[b], i) /\ ~ Ahead(c, F[c], i)
    BY <1>1 DEF Ahead
  <1> QED BY <1>1, <1>2 DEF Due

\* A task that is released is not queued.
LEMMA ReleasesDue ==
    ASSUME NEW F, NEW T, NEW T1, NEW A, NEW k, NEW g, Releases(F, T, T1, k, g),
           NEW fault \in BOOLEAN, Due(F, T, A, fault)
    PROVE  Due(F, T1, A, fault)
  <1>1. DOMAIN T1 = DOMAIN T /\ \A j \in DOMAIN T : T1[j].state = T[j].state
    BY DEF Releases, TaskIs
  <1> QED BY <1>1 DEF Due

-----------------------------------------------------------------------------
(* Splits, functions and records. *)

\* The parts of a range are partitioners.
LEMMA PartsOfParts ==
    ASSUME NEW Ids, NoThread \in Ids, NEW p \in Partitioners(Ids)
    PROVE  /\ Whole(p).rest \in Partitioners(Ids) /\ Whole(p).sub \in Partitioners(Ids)
           /\ \A i \in Int : p.first <= i /\ i <= p.end =>
                 Cut(p, i).rest \in Partitioners(Ids) /\ Cut(p, i).sub \in Partitioners(Ids)
           /\ \A n \in Nat : [p EXCEPT !.threads = n] \in Partitioners(Ids)
           /\ \A u \in Ids : [p EXCEPT !.last = u] \in Partitioners(Ids)
                             /\ Length([p EXCEPT !.last = u]) = Length(p)
  <1>1. /\ p.first \in Int /\ p.end \in Int /\ p.grain \in Nat /\ p.threads \in Nat /\ p.last \in Ids
        /\ p.first <= p.end
    BY DEF Partitioners
  <1>2. Whole(p).rest \in Partitioners(Ids) /\ Whole(p).sub \in Partitioners(Ids)
    BY <1>1 DEF Whole, NewPartitioner, Partitioners
  <1>3. \A i \in Int : p.first <= i /\ i <= p.end =>
           Cut(p, i).rest \in Partitioners(Ids) /\ Cut(p, i).sub \in Partitioners(Ids)
    BY <1>1 DEF Cut, Partitioners
  <1>4. \A n \in Nat : [p EXCEPT !.threads = n] \in Partitioners(Ids)
    BY <1>1 DEF Partitioners
  <1>5. \A u \in Ids : [p EXCEPT !.last = u] \in Partitioners(Ids)
                       /\ Length([p EXCEPT !.last = u]) = Length(p)
    BY <1>1 DEF Partitioners, Length
  <1> QED BY <1>2, <1>3, <1>4, <1>5

\* So are those of a split.
LEMMA StaticParts ==
    ASSUME NEW Ids, NoThread \in Ids, NEW p \in Partitioners(Ids)
    PROVE  static_split(p).rest \in Partitioners(Ids) /\ static_split(p).sub \in Partitioners(Ids)
  <1> DEFINE mid == p.first + (Length(p) + 1) \div 2
  <1>1. CASE Length(p) <= p.grain
    BY <1>1, PartsOfParts DEF static_split
  <1>2. CASE ~ (Length(p) <= p.grain)
    <2>1. mid \in Int /\ p.first <= mid /\ mid <= p.end
      BY <1>2 DEF Length, Partitioners
    <2>2. static_split(p) = Cut(p, mid)
      BY <1>2 DEF static_split
    <2> HIDE DEF mid
    <2> QED BY <2>1, <2>2, PartsOfParts
  <1> QED BY <1>1, <1>2

\* The two parts of parallel_invoke are ranges.
LEMMA InvokeParts ==
    ASSUME NEW Ids, NoThread \in Ids, NEW p \in Partitioners(Ids)
    PROVE  invoke_split(p).rest \in Partitioners(Ids) /\ invoke_split(p).sub \in Partitioners(Ids)
  <1> DEFINE mid == p.first + Length(p) \div 2
  <1>1. CASE Length(p) <= 1
    BY <1>1, PartsOfParts DEF invoke_split
  <1>2. CASE ~ (Length(p) <= 1)
    <2>1. mid \in Int /\ p.first <= mid /\ mid <= p.end
      BY <1>2 DEF Length, Partitioners
    <2>2. invoke_split(p) = Cut(p, mid)
      BY <1>2 DEF invoke_split
    <2> HIDE DEF mid
    <2> QED BY <2>1, <2>2, PartsOfParts
  <1> QED BY <1>1, <1>2

\* The two parts of an auto_partitioner are ranges.
LEMMA AutoParts ==
    ASSUME NEW Ids, NoThread \in Ids, NEW p \in Partitioners(Ids), NEW t \in Ids
    PROVE  auto_split(p, t).rest \in Partitioners(Ids) /\ auto_split(p, t).sub \in Partitioners(Ids)
  <1>1. PICK n \in Nat : n = ThreadsFor(p, t)
    BY HardwareAssumption DEF ThreadsFor, Partitioners
  <1>2. CASE Length(p) <= p.grain \/ n <= 1
    BY <1>1, <1>2, PartsOfParts DEF auto_split, ThreadsFor
  <1>3. CASE ~ (Length(p) <= p.grain \/ n <= 1)
    <2>1. PICK cut : cut = static_split([p EXCEPT !.last = t])
      OBVIOUS
    <2>2. cut.rest \in Partitioners(Ids) /\ cut.sub \in Partitioners(Ids)
      BY <2>1, PartsOfParts, StaticParts
    <2>3. Keep(n) \in Nat /\ n \div 2 \in Nat
      BY DEF Keep
    <2>4. auto_split(p, t) = [rest |-> [cut.rest EXCEPT !.threads = Keep(n)],
                              sub  |-> [cut.sub EXCEPT !.threads = n \div 2]]
      BY <1>1, <1>3, <2>1 DEF auto_split, ThreadsFor
    <2>5. /\ [cut.rest EXCEPT !.threads = Keep(n)] \in Partitioners(Ids)
          /\ [cut.sub EXCEPT !.threads = n \div 2] \in Partitioners(Ids)
      BY <2>2, <2>3, PartsOfParts
    <2> QED BY <2>4, <2>5
  <1> QED BY <1>2, <1>3

\* A split that gives something away gives two parts.
LEMMA SplitParts ==
    ASSUME NEW t \in Threads, NEW p \in Parts, algorithm.split \in {"static", "auto", "invoke"}
    PROVE  /\ Split(p, t).rest \in Parts /\ Split(p, t).sub \in Parts
           /\ Length(Split(p, t).sub) # 0 => InTwo(Id(p), Id(Split(p, t).rest), Id(Split(p, t).sub))
  <1> DEFINE Ids == Threads \union {NoThread}
  <1>1. NoThread \in Ids /\ t \in Ids /\ p \in Partitioners(Ids) /\ Parts = Partitioners(Ids)
    BY DEF Parts
  <1>2. PICK s : s = Split(p, t)
    OBVIOUS
  <1> HIDE DEF Ids
  <1>3. Halves(p, s)
    <2>1. Halves(p, static_split(p)) /\ Halves(p, auto_split(p, t)) /\ Halves(p, invoke_split(p))
      BY <1>1, StaticSplitPartitions, AutoSplitPartitions, InvokeSplitPartitions
    <2> QED BY <1>2, <2>1 DEF Split
  <1>4. s.rest \in Parts /\ s.sub \in Parts
    BY <1>1, <1>2, StaticParts, AutoParts, InvokeParts DEF Split
  <1>5. Length(s.sub) # 0 => InTwo(Id(p), Id(s.rest), Id(s.sub))
    BY <1>1, <1>3, <1>4 DEF Halves, InTwo, Id, Proper, Length, Partitioners
  <1> QED BY <1>2, <1>4, <1>5

\* A partitioner as a pair.
LEMMA IdRange == \A p \in Parts : Id(p) \in Ranges /\ Id(p)[1] = p.first /\ Id(p)[2] = p.end
                                  /\ Id(p)[1] <= Id(p)[2]
  BY DEF Id, Parts, Partitioners, Ranges

\* The frame of a call that is just entered.
LEMMA CallFrame ==
    ASSUME NEW p \in Parts
    PROVE  Call(p) \in Frames /\ First(Id(p), Call(p))
  <1>1. p.first \in Int /\ <<0, 0>> \in Ranges /\ <<>> \in Seq(Int)
    BY EmptySeq DEF Parts, Partitioners, Ranges
  <1>2. Call(p) \in Frames
    BY <1>1 DEF Call, Frames, Pcs
  <1>3. First(Id(p), Call(p))
    BY IdRange DEF First, Call, Kept
  <1> QED BY <1>2, <1>3

\* Put() and Remove(), and one value of a function changed.
LEMMA PutTask ==
    ASSUME NEW T, IsTasks(T), NEW k \in Ranges, NEW g \in Locals
    PROVE  TaskIs(T, Put(T, k, g), k, g)
  <1>1. PICK T1 : T1 = Put(T, k, g)
    OBVIOUS
  <1>2. /\ DOMAIN T1 = DOMAIN T \union {k} /\ T1[k] = g
        /\ \A j \in DOMAIN T : j # k => T1[j] = T[j]
        /\ T1 = [z \in DOMAIN T1 |-> T1[z]]
    BY <1>1 DEF Put
  <1>3. \A j \in DOMAIN T1 : T1[j] \in Locals
    BY <1>2 DEF IsTasks
  <1>4. IsTasks(T1)
    BY <1>2, <1>3 DEF IsTasks
  <1> QED BY <1>1, <1>2, <1>4 DEF TaskIs

\* An assignment to a task changes that task.
LEMMA ExceptTask ==
    ASSUME NEW T, IsTasks(T), NEW k \in DOMAIN T, NEW g \in Locals
    PROVE  TaskIs(T, [T EXCEPT ![k] = g], k, g)
  <1>1. PICK T1 : T1 = [T EXCEPT ![k] = g]
    OBVIOUS
  <1>2. /\ DOMAIN T1 = DOMAIN T /\ T1[k] = g
        /\ \A j \in DOMAIN T : j # k => T1[j] = T[j]
        /\ T1 = [z \in DOMAIN T1 |-> T1[z]]
    BY <1>1 DEF IsTasks
  <1>3. \A j \in DOMAIN T1 : T1[j] \in Locals
    BY <1>2 DEF IsTasks
  <1>4. IsTasks(T1)
    BY <1>2, <1>3 DEF IsTasks
  <1> QED BY <1>1, <1>2, <1>4 DEF TaskIs, IsTasks

\* An assignment to a call changes that call.
LEMMA ExceptCall ==
    ASSUME NEW F, IsCalls(F), NEW c \in DOMAIN F, NEW f \in Frames
    PROVE  Alters(F, [F EXCEPT ![c] = f], c, f)
  <1>1. PICK F1 : F1 = [F EXCEPT ![c] = f]
    OBVIOUS
  <1>2. /\ DOMAIN F1 = DOMAIN F /\ F1[c] = f
        /\ \A d \in DOMAIN F : d # c => F1[d] = F[d]
        /\ F1 = [z \in DOMAIN F1 |-> F1[z]]
    BY <1>1 DEF IsCalls
  <1>3. \A d \in DOMAIN F1 : F1[d] \in Frames
    BY <1>2 DEF IsCalls
  <1>4. IsCalls(F1)
    BY <1>2, <1>3 DEF IsCalls
  <1> QED BY <1>1, <1>2, <1>4 DEF Alters

\* Putting a call there is entering it,
LEMMA PutCall ==
    ASSUME NEW F, IsCalls(F), NEW x \in Ranges, NEW f \in Frames
    PROVE  Enters(F, Put(F, x, f), x, f)
  <1>1. PICK F1 : F1 = Put(F, x, f)
    OBVIOUS
  <1>2. /\ DOMAIN F1 = DOMAIN F \union {x} /\ F1[x] = f
        /\ \A d \in DOMAIN F : d # x => F1[d] = F[d]
        /\ F1 = [z \in DOMAIN F1 |-> F1[z]]
    BY <1>1 DEF Put
  <1>3. \A d \in DOMAIN F1 : F1[d] \in Frames
    BY <1>2 DEF IsCalls
  <1>4. IsCalls(F1)
    BY <1>2, <1>3 DEF IsCalls
  <1> QED BY <1>1, <1>2, <1>4 DEF Enters

\* and removing it is leaving it.
LEMMA RemoveCall ==
    ASSUME NEW F, IsCalls(F), NEW c \in DOMAIN F
    PROVE  Leaves(F, Remove(F, c), c)
  <1>1. PICK F1 : F1 = Remove(F, c)
    OBVIOUS
  <1>2. /\ DOMAIN F1 = DOMAIN F \ {c}
        /\ \A d \in DOMAIN F : d # c => F1[d] = F[d]
        /\ F1 = [z \in DOMAIN F1 |-> F1[z]]
    BY <1>1 DEF Remove
  <1>3. \A d \in DOMAIN F1 : F1[d] \in Frames
    BY <1>2 DEF IsCalls
  <1>4. IsCalls(F1)
    BY <1>2, <1>3 DEF IsCalls
  <1> QED BY <1>1, <1>2, <1>4 DEF Leaves

-----------------------------------------------------------------------------
(* The invariant. *)

\* The invariant of any stacks, calls, tasks and counts.
Good(S, F, T, A, fault, thrown, w) ==
    /\ IsStacks(S) /\ Given(F, T, w) /\ Stacks(S, F, T, w)
    /\ Errors(F, T, fault, thrown) /\ Fresh(F, T, A) /\ Due(F, T, A, fault) /\ Counts(A, w)
    /\ fault \in BOOLEAN /\ thrown \in BOOLEAN

\* The invariant, as it is stated of any calls, tasks and stacks,
LEMMA InvGood ==
    ASSUME IInv
    PROVE  /\ Good(stack, frame, task, applied, faulty, Thrown, Id(whole))
           /\ Id(whole) \in Ranges /\ whole \in Parts /\ algorithm.split \in {"static", "auto", "invoke"}
  <1>1. Types
    BY DEF IInv
  <1>2. whole \in Parts /\ algorithm.split \in {"static", "auto", "invoke"} /\ faulty \in BOOLEAN
    BY <1>1 DEF Types
  <1>3. Id(whole) \in Ranges /\ Id(whole)[1] = whole.first /\ Id(whole)[2] = whole.end
    BY <1>2, IdRange
  <1>4. Given(frame, task, Id(whole)) /\ IsStacks(stack)
    BY <1>1, <1>3 DEF Given, Types, IsStacks, IInv
  <1>5. Counts(applied, Id(whole))
    BY <1>1, <1>3 DEF Counts, Types, Elements
  <1>6. Thrown \in BOOLEAN
    BY DEF Thrown
  <1> QED BY <1>2, <1>3, <1>4, <1>5, <1>6 DEF Good, IInv

\* What is left to prove of a step that does not end the outermost call.
Rest == /\ UNCHANGED <<algorithm, whole, answer>>
        /\ moved' \subseteq DOMAIN task' /\ faulty' \in BOOLEAN

\* and back, for a step that does not end the outermost call.
LEMMA InvNext ==
    ASSUME IInv, answer.state = "none", Rest,
           Good(stack', frame', task', applied', faulty', Thrown, Id(whole))
    PROVE  IInv'
  <1>1. algorithm' = algorithm /\ whole' = whole /\ answer' = answer
    BY DEF Rest
  <1>2. Types'
    <2>1. /\ IsCalls(frame') /\ IsTasks(task') /\ IsStacks(stack') /\ Counts(applied', Id(whole))
      BY DEF Good, Given
    <2>2. Types
      BY DEF IInv
    <2>3. Id(whole)[1] = whole.first /\ Id(whole)[2] = whole.end
      BY InvGood, IdRange
    <2>4. applied' \in [Elements(whole) -> Nat]
      BY <2>1, <2>3 DEF Counts, Elements
    <2> QED BY <1>1, <2>1, <2>2, <2>4 DEF Types, Rest, IsStacks, IsCalls, IsTasks, Elements
  <1>3. Tree(frame, task, Id(whole))'
    BY <1>1 DEF Good, Given
  <1>4. Stacks(stack, frame, task, Id(whole))'
    BY <1>1 DEF Good
  <1>5. Errors(frame, task, faulty, Thrown)'
    <2>1. Thrown' = Thrown
      BY <1>1 DEF Thrown
    <2> QED BY <2>1 DEF Good
  <1>6. Fresh(frame, task, applied)' /\ Due(frame, task, applied, faulty)'
    BY DEF Good
  <1>7. Ended'
    BY <1>1 DEF Ended
  <1> QED BY <1>2, <1>3, <1>4, <1>5, <1>6, <1>7 DEF IInv

-----------------------------------------------------------------------------
(* The actions. *)

\* While there is something to do the outermost call is in progress.
LEMMA InProgress ==
    ASSUME IInv,
           \/ DOMAIN frame # {} \/ \E t \in Threads : stack[t] # <<>>
           \/ \E k \in DOMAIN task : task[k].held
    PROVE  answer.state = "none"
  BY DEF IInv, Ended

\* The innermost call of a thread.
LEMMA AtCall ==
    ASSUME IInv, NEW t \in Threads, NEW p, At(t, p)
    PROVE  /\ Top(t) \in DOMAIN frame /\ frame[Top(t)].pc = p /\ Here(t) = frame[Top(t)]
           /\ frame[Top(t)] \in Frames /\ CallShape(Top(t), frame[Top(t)], task, Id(whole))
           /\ Top(t) \in Ranges /\ answer.state = "none"
           /\ Pops(stack, [stack EXCEPT ![t] = SubSeq(@, 1, Len(@) - 1)], t, Top(t))
           /\ On(stack, t, Len(stack[t]), Top(t)) /\ Len(stack[t]) \in Nat
  <1>1. Top(t) \in DOMAIN frame /\ frame[Top(t)].pc = p /\ stack[t] # <<>>
    BY DEF At
  <1>2. IsStacks(stack) /\ Given(frame, task, Id(whole))
    BY InvGood DEF Good
  <1>3. answer.state = "none"
    BY <1>1, InProgress
  <1>4. Top(t) \in Ranges /\ On(stack, t, Len(stack[t]), Top(t)) /\ Len(stack[t]) \in Nat
    BY <1>1, <1>2, TopOn DEF Top
  <1>5. Pops(stack, [stack EXCEPT ![t] = SubSeq(@, 1, Len(@) - 1)], t, Top(t))
    BY <1>1, <1>2, PopOn DEF Top
  <1> QED BY <1>1, <1>2, <1>3, <1>4, <1>5, TreeFacts DEF Here

\* A call that goes on, and does not use the function.
LEMMA GoesOn ==
    ASSUME IInv, NEW c \in DOMAIN frame, NEW f \in Frames, NEW throws \in BOOLEAN,
           answer.state = "none", frame' = [frame EXCEPT ![c] = f],
           Goes(c, frame[c], f, task), frame[c].pc # "loop",
           Result(frame[c], f, task, throws), faulty' = (faulty \/ throws),
           UNCHANGED <<input, stack, task, applied, moved, answer>>
    PROVE  IInv'
  <1>1. Good(stack, frame, task, applied, faulty, Thrown, Id(whole))
    BY InvGood
  <1>2. Given(frame, task, Id(whole)) /\ IsCalls(frame)
    BY <1>1 DEF Good, Given
  <1>3. Alters(frame, frame', c, f)
    BY <1>2, ExceptCall
  <1>4. Given(frame', task, Id(whole))
    BY <1>2, <1>3, GoesTree
  <1>5. Stacks(stack, frame', task, Id(whole))
    BY <1>1, <1>3, GoesKeeps, StacksStay DEF Good
  <1>6. Errors(frame', task, faulty', Thrown)
    <2>1. faulty \in BOOLEAN /\ faulty' \in BOOLEAN /\ Thrown \in BOOLEAN
      BY <1>1 DEF Good
    <2>2. Errors(frame, task, faulty, Thrown)
      BY <1>1 DEF Good
    <2> QED BY <1>2, <1>3, <2>1, <2>2, GoesErrors
  <1>7. Fresh(frame', task, applied) /\ Due(frame', task, applied, faulty')
    <2>1. Fresh(frame', task, applied)
      BY <1>1, <1>2, <1>3, GoesFresh DEF Good
    <2>2. faulty \in BOOLEAN /\ faulty' \in BOOLEAN /\ Counts(applied, Id(whole))
          /\ Due(frame, task, applied, faulty)
      BY <1>1 DEF Good
    <2>3. Due(frame', task, applied, faulty')
      BY <1>2, <1>3, <2>2, GoesDue
    <2> QED BY <2>1, <2>3
  <1>8. Good(stack', frame', task', applied', faulty', Thrown, Id(whole))
    BY <1>1, <1>4, <1>5, <1>6, <1>7 DEF Good
  <1>9. Rest
    <2>1. moved \subseteq DOMAIN task /\ faulty \in BOOLEAN
      BY DEF IInv, Types
    <2> QED BY <2>1 DEF Rest, input
  <1> QED BY <1>8, <1>9, InvNext

\* The invariant is kept when a call finds its range too small to split,
LEMMA BeginLoopInv ==
    ASSUME IInv, NEW t \in Threads, BeginLoop(t)
    PROVE  IInv'
  <1>1. PICK c : c = Top(t)
    OBVIOUS
  <1>2. /\ c \in DOMAIN frame /\ frame[c].pc = "split" /\ frame[c] \in Frames /\ Here(t) = frame[c]
        /\ CallShape(c, frame[c], task, Id(whole)) /\ c \in Ranges /\ answer.state = "none"
    BY <1>1, AtCall DEF BeginLoop
  <1>3. PICK pc \in {"leave", "loop"} :
           pc = IF Length(frame[c].part) = 0 THEN "leave" ELSE "loop"
    OBVIOUS
  <1>4. PICK f : f = [frame[c] EXCEPT !.value = <<Initial>>, !.pc = pc]
    OBVIOUS
  <1>5. frame' = [frame EXCEPT ![c] = f]
    BY <1>1, <1>2, <1>3, <1>4 DEF BeginLoop, Become
  <1>6. <<Initial>> \in Seq(Int)
    BY DEF Initial
  <1>7. /\ f \in Frames /\ f.pc = pc /\ f.sub = frame[c].sub /\ f.next = frame[c].next
        /\ f.ok = frame[c].ok /\ f.part = frame[c].part
    BY <1>2, <1>4, <1>6 DEF Frames, Pcs
  <1>8. pc = "loop" <=> Proper(c)
    <2>1. frame[c].part \in Parts /\ c = Id(frame[c].part)
      BY <1>2 DEF Frames, CallShape, Kept
    <2>2. c[1] = frame[c].part.first /\ c[2] = frame[c].part.end /\ c[1] <= c[2]
      BY <2>1, IdRange
    <2> QED BY <1>2, <1>3, <2>2 DEF Length, Proper, Ranges
  <1>9. Goes(c, frame[c], f, task)
    BY <1>2, <1>7, <1>8 DEF Goes, Kept
  <1>10. Result(frame[c], f, task, FALSE)
    BY <1>2, <1>7 DEF Result
  <1>11. faulty' = (faulty \/ FALSE) /\ UNCHANGED <<input, stack, task, applied, moved, answer>>
    <2>1. faulty \in BOOLEAN
      BY DEF IInv, Types
    <2> QED BY <2>1 DEF BeginLoop
  <1> QED BY <1>2, <1>5, <1>7, <1>9, <1>10, <1>11, GoesOn

\* when spawning a task throws,
LEMMA SpawnThrowsInv ==
    ASSUME IInv, NEW t \in Threads, SpawnThrows(t)
    PROVE  IInv'
  <1>1. PICK c : c = Top(t)
    OBVIOUS
  <1>2. /\ c \in DOMAIN frame /\ frame[c].pc = "split" /\ frame[c] \in Frames /\ Here(t) = frame[c]
        /\ answer.state = "none"
    BY <1>1, AtCall DEF SpawnThrows
  <1>3. PICK f : f = [frame[c] EXCEPT !.ok = FALSE, !.pc = "leave"]
    OBVIOUS
  <1>4. frame' = [frame EXCEPT ![c] = f]
    BY <1>1, <1>2, <1>3 DEF SpawnThrows, Become
  <1>5. f \in Frames /\ f.pc = "leave" /\ f.sub = frame[c].sub /\ f.ok = FALSE
    BY <1>2, <1>3 DEF Frames, Pcs
  <1>6. Goes(c, frame[c], f, task)
    BY <1>2, <1>5 DEF Goes
  <1>7. Result(frame[c], f, task, TRUE)
    BY <1>5 DEF Result
  <1>8. faulty' = (faulty \/ TRUE) /\ UNCHANGED <<input, stack, task, applied, moved, answer>>
    BY DEF SpawnThrows
  <1> QED BY <1>2, <1>4, <1>5, <1>6, <1>7, <1>8, GoesOn

\* when a call finds the task it waits for finished,
LEMMA JoinInv ==
    ASSUME IInv, NEW t \in Threads, Join(t)
    PROVE  IInv'
  <1>1. PICK c : c = Top(t)
    OBVIOUS
  <1>2. /\ c \in DOMAIN frame /\ frame[c].pc = "join" /\ frame[c] \in Frames /\ Here(t) = frame[c]
        /\ CallShape(c, frame[c], task, Id(whole)) /\ answer.state = "none"
    BY <1>1, AtCall DEF Join
  <1>3. PICK k : k = task[frame[c].sub]
    OBVIOUS
  <1>4. k \in Locals
    <2>1. frame[c].sub \in DOMAIN task
      BY <1>2 DEF CallShape, Parents
    <2>2. IsTasks(task)
      BY InvGood DEF Good, Given
    <2> QED BY <1>3, <2>1, <2>2 DEF IsTasks
  <1>5. PICK both \in BOOLEAN : both <=> frame[c].ok /\ k.state = "completed"
    OBVIOUS
  <1>6. PICK throws \in BOOLEAN :
           /\ frame' = [frame EXCEPT ![c] = [frame[c] EXCEPT !.value = frame[c].value \o k.value,
                                               !.ok = (frame[c].ok /\ k.state = "completed") /\ ~ throws,
                                               !.pc = "spin"]]
           /\ faulty' = (faulty \/ throws)
    <2>1. PICK throws \in {FALSE, Throws /\ (frame[c].ok /\ k.state = "completed")} :
             /\ Become(t, [frame[c] EXCEPT !.value = frame[c].value \o k.value,
                             !.ok = (frame[c].ok /\ k.state = "completed") /\ ~ throws, !.pc = "spin"])
             /\ faulty' = (faulty \/ throws)
      BY <1>1, <1>2, <1>3 DEF Join
    <2>2. throws \in BOOLEAN
      OBVIOUS
    <2> QED BY <1>1, <2>1, <2>2 DEF Become
  <1>7. PICK ok \in BOOLEAN : ok = ((frame[c].ok /\ k.state = "completed") /\ ~ throws)
    OBVIOUS
  <1>8. PICK v : v = frame[c].value \o k.value
    OBVIOUS
  <1>9. v \in Seq(Int)
    BY <1>2, <1>4, <1>8, ConcatProperties DEF Frames, Locals
  <1>10. PICK f : f = [frame[c] EXCEPT !.value = v, !.ok = ok, !.pc = "spin"]
    OBVIOUS
  <1>11. frame' = [frame EXCEPT ![c] = f]
    BY <1>6, <1>7, <1>8, <1>10
  <1>12. f \in Frames /\ f.pc = "spin" /\ f.sub = frame[c].sub /\ f.ok = ok /\ f.part = frame[c].part
    BY <1>2, <1>9, <1>10 DEF Frames, Pcs
  <1>13. Goes(c, frame[c], f, task)
    <2>1. task[frame[c].sub].state \in Final
      BY <1>1, <1>2 DEF Join
    <2> QED BY <1>2, <1>12, <2>1 DEF Goes, Kept
  <1>14. Result(frame[c], f, task, throws)
    BY <1>2, <1>3, <1>7, <1>12 DEF Result
  <1>15. UNCHANGED <<input, stack, task, applied, moved, answer>>
    BY DEF Join
  <1>16. c \in DOMAIN frame /\ f \in Frames /\ frame[c].pc # "loop" /\ answer.state = "none"
    BY <1>2, <1>12
  <1>17. faulty' = (faulty \/ throws)
    BY <1>6
  <1> QED BY <1>11, <1>13, <1>14, <1>15, <1>16, <1>17, GoesOn

\* when it finds the last reference of that task released,
LEMMA SpinInv ==
    ASSUME IInv, NEW t \in Threads, Spin(t)
    PROVE  IInv'
  <1>1. PICK c : c = Top(t)
    OBVIOUS
  <1>2. /\ c \in DOMAIN frame /\ frame[c].pc = "spin" /\ frame[c] \in Frames /\ Here(t) = frame[c]
        /\ answer.state = "none"
    BY <1>1, AtCall DEF Spin
  <1>3. PICK f : f = [frame[c] EXCEPT !.pc = "leave"]
    OBVIOUS
  <1>4. frame' = [frame EXCEPT ![c] = f]
    BY <1>1, <1>2, <1>3 DEF Spin, Become
  <1>5. f \in Frames /\ f.pc = "leave" /\ f.sub = frame[c].sub /\ f.ok = frame[c].ok
    BY <1>2, <1>3 DEF Frames, Pcs
  <1>6. Goes(c, frame[c], f, task)
    <2>1. ~ task[frame[c].sub].held
      BY <1>1, <1>2 DEF Spin
    <2> QED BY <1>2, <1>5, <2>1 DEF Goes
  <1>7. Result(frame[c], f, task, FALSE)
    BY <1>2, <1>5 DEF Result
  <1>8. faulty' = (faulty \/ FALSE) /\ UNCHANGED <<input, stack, task, applied, moved, answer>>
    <2>1. faulty \in BOOLEAN
      BY DEF IInv, Types
    <2> QED BY <2>1 DEF Spin
  <1> QED BY <1>2, <1>4, <1>5, <1>6, <1>7, <1>8, GoesOn

\* and when it applies the function.
LEMMA ApplyInv ==
    ASSUME IInv, NEW t \in Threads, Apply(t)
    PROVE  IInv'
  <1>1. PICK c : c = Top(t)
    OBVIOUS
  <1>2. /\ c \in DOMAIN frame /\ frame[c].pc = "loop" /\ frame[c] \in Frames /\ Here(t) = frame[c]
        /\ CallShape(c, frame[c], task, Id(whole)) /\ c \in Ranges /\ answer.state = "none"
    BY <1>1, AtCall DEF Apply
  <1>3. PICK i \in Int : i = frame[c].next
    BY <1>2 DEF Frames
  <1>4. /\ c = Id(frame[c].part) /\ frame[c].part \in Parts
        /\ c[2] = frame[c].part.end /\ frame[c].part.end \in Int /\ i < frame[c].part.end
    <2>1. c = Id(frame[c].part) /\ frame[c].part \in Parts
      BY <1>2 DEF Frames, CallShape, Kept
    <2>2. c[2] = frame[c].part.end
      BY <2>1, IdRange
    <2> QED BY <1>2, <1>3, <2>1, <2>2 DEF CallShape, Has, Ranges
  <1>5. PICK f \in Frames, throws \in BOOLEAN :
           /\ frame' = [frame EXCEPT ![c] = f] /\ faulty' = (faulty \/ throws)
           /\ Goes(c, frame[c], f, task) /\ (f.ok <=> frame[c].ok /\ ~ throws)
    <2>1. CASE Become(t, [frame[c] EXCEPT !.value = Append(frame[c].value, i),
                            !.next = i + 1, !.pc = IF i + 1 = frame[c].part.end THEN "leave" ELSE "loop"])
               /\ UNCHANGED faulty
      <3>1. PICK v : v = Append(frame[c].value, i)
        OBVIOUS
      <3>2. v \in Seq(Int)
        BY <1>2, <3>1, AppendProperties DEF Frames
      <3>3. PICK j \in Int : j = i + 1
        OBVIOUS
      <3>4. PICK pc \in {"leave", "loop"} : pc = IF i + 1 = frame[c].part.end THEN "leave" ELSE "loop"
        OBVIOUS
      <3>5. PICK f : f = [frame[c] EXCEPT !.value = v, !.next = j, !.pc = pc]
        OBVIOUS
      <3>6. frame' = [frame EXCEPT ![c] = f]
        BY <1>1, <2>1, <3>1, <3>3, <3>4, <3>5 DEF Become
      <3>7. /\ f \in Frames /\ f.next = j /\ f.pc = pc /\ f.sub = frame[c].sub
            /\ f.ok = frame[c].ok /\ f.part = frame[c].part
        BY <1>2, <3>2, <3>5 DEF Frames, Pcs
      <3>8. IF pc = "loop" THEN j < c[2] ELSE i + 1 = c[2]
        BY <1>4, <3>3, <3>4
      <3>9. Goes(c, frame[c], f, task)
        BY <1>2, <1>3, <3>3, <3>7, <3>8 DEF Goes, Kept
      <3>10. faulty' = (faulty \/ FALSE)
        <4>1. faulty \in BOOLEAN
          BY DEF IInv, Types
        <4> QED BY <2>1, <4>1
      <3>11. f.ok <=> frame[c].ok /\ ~ FALSE
        BY <3>7
      <3> QED BY <3>6, <3>7, <3>9, <3>10, <3>11
    <2>2. CASE Become(t, [frame[c] EXCEPT !.ok = FALSE, !.pc = "leave"]) /\ faulty' = TRUE
      <3>1. PICK f : f = [frame[c] EXCEPT !.ok = FALSE, !.pc = "leave"]
        OBVIOUS
      <3>2. frame' = [frame EXCEPT ![c] = f]
        BY <1>1, <2>2, <3>1 DEF Become
      <3>3. f \in Frames /\ f.pc = "leave" /\ f.sub = frame[c].sub /\ f.ok = FALSE
        BY <1>2, <3>1 DEF Frames, Pcs
      <3>4. Goes(c, frame[c], f, task)
        BY <1>2, <3>3 DEF Goes
      <3>5. faulty' = (faulty \/ TRUE) /\ (f.ok <=> frame[c].ok /\ ~ TRUE)
        BY <2>2, <3>3
      <3> QED BY <3>2, <3>3, <3>4, <3>5
    <2> QED BY <1>2, <1>3, <2>1, <2>2 DEF Apply
  <1>6. Good(stack, frame, task, applied, faulty, Thrown, Id(whole))
    BY InvGood
  <1>7. Given(frame, task, Id(whole)) /\ IsCalls(frame)
    BY <1>6 DEF Good, Given
  <1>8. Alters(frame, frame', c, f)
    BY <1>2, <1>5, <1>7, ExceptCall
  <1>9. Given(frame', task, Id(whole))
    BY <1>5, <1>7, <1>8, GoesTree
  <1>10. Stacks(stack, frame', task, Id(whole))
    BY <1>5, <1>6, <1>8, GoesKeeps, StacksStay DEF Good
  <1>11. Errors(frame', task, faulty', Thrown)
    <2>1. Result(frame[c], f, task, throws)
      BY <1>2, <1>5 DEF Result
    <2>2. faulty \in BOOLEAN /\ faulty' \in BOOLEAN /\ Thrown \in BOOLEAN /\ (faulty' <=> faulty \/ throws)
      BY <1>5, <1>6 DEF Good
    <2>3. Errors(frame, task, faulty, Thrown)
      BY <1>6 DEF Good
    <2> QED BY <1>5, <1>7, <1>8, <2>1, <2>2, <2>3, GoesErrors
  <1>12. Applies(applied, applied', frame[c].next)
    BY <1>2 DEF Apply, Applies
  <1>13. Fresh(frame', task, applied') /\ Counts(applied', Id(whole))
    <2>1. Counts(applied, Id(whole)) /\ Fresh(frame, task, applied)
      BY <1>6 DEF Good
    <2> QED BY <1>2, <1>5, <1>7, <1>8, <1>12, <2>1, AppliesFresh
  <1>14. Due(frame', task, applied', faulty')
    <2>1. Counts(applied, Id(whole)) /\ Fresh(frame, task, applied) /\ Due(frame, task, applied, faulty)
          /\ faulty \in BOOLEAN
      BY <1>6 DEF Good
    <2>2. Result(frame[c], f, task, throws)
      BY <1>2, <1>5 DEF Result
    <2>3. faulty' \in BOOLEAN /\ (faulty' <=> faulty \/ throws)
      BY <1>5, <2>1
    <2> QED BY <1>2, <1>5, <1>7, <1>8, <1>12, <2>1, <2>2, <2>3, AppliesDue
  <1>15. UNCHANGED <<input, stack, task, moved, answer>>
    BY DEF Apply
  <1>16. Good(stack', frame', task', applied', faulty', Thrown, Id(whole))
    BY <1>5, <1>6, <1>9, <1>10, <1>11, <1>13, <1>14, <1>15 DEF Good
  <1>17. Rest
    <2>1. moved \subseteq DOMAIN task /\ faulty \in BOOLEAN
      BY DEF IInv, Types
    <2> QED BY <1>5, <1>15, <2>1 DEF Rest, input
  <1> QED BY <1>2, <1>16, <1>17, InvNext

\* The scheduler's part: a task that is run.
LEMMA RunsGood ==
    ASSUME NEW S, NEW S1, NEW F, NEW F1, NEW T, NEW T1, NEW A, NEW fault, NEW thrown, NEW w,
           NEW t \in Threads, NEW k, NEW f, NEW g,
           Good(S, F, T, A, fault, thrown, w), Runs(F, F1, T, T1, k, f, g), Pushes(S, S1, t, k)
    PROVE  Good(S1, F1, T1, A, fault, thrown, w)
  <1>1. /\ IsStacks(S1) /\ Given(F, T, w) /\ Stacks(S, F, T, w) /\ Errors(F, T, fault, thrown)
        /\ Fresh(F, T, A) /\ Due(F, T, A, fault) /\ Counts(A, w) /\ fault \in BOOLEAN /\ thrown \in BOOLEAN
    BY DEF Good, Pushes
  <1>2. Given(F1, T1, w) /\ k \notin DOMAIN F
    BY <1>1, RunsTree
  <1>3. /\ k \in Ranges /\ k \in DOMAIN F1 /\ k \in DOMAIN T1 /\ T[k].state \notin Final
    BY DEF Runs, Enters, TaskIs, Final
  <1>4. Stacks(S1, F1, T1, w)
    <2>1. Keeps(F, F1, T, T1, {})
      BY <1>2, RunsKeeps
    <2> QED BY <1>1, <1>2, <1>3, <2>1, StacksPush
  <1>5. Errors(F1, T1, fault, thrown)
    BY <1>1, <1>2, RunsErrors
  <1>6. Fresh(F1, T1, A) /\ Due(F1, T1, A, fault)
    BY <1>1, <1>2, RunsFresh, RunsDue
  <1> QED BY <1>1, <1>2, <1>4, <1>5, <1>6 DEF Good

\* Spawning a task keeps every part of the invariant.
LEMMA SpawnsGood ==
    ASSUME NEW S, NEW F, NEW F1, NEW T, NEW T1, NEW A, NEW fault, NEW thrown, NEW w,
           NEW c, NEW f, NEW k, NEW g,
           Good(S, F, T, A, fault, thrown, w), Spawns(F, F1, T, T1, c, f, k, g)
    PROVE  Good(S, F1, T1, A, fault, thrown, w) /\ k \notin Touched(F, T)
  <1>1. /\ IsStacks(S) /\ Given(F, T, w) /\ Stacks(S, F, T, w) /\ Errors(F, T, fault, thrown)
        /\ Fresh(F, T, A) /\ Due(F, T, A, fault) /\ Counts(A, w) /\ fault \in BOOLEAN /\ thrown \in BOOLEAN
    BY DEF Good
  <1>2. Given(F1, T1, w) /\ k \notin Touched(F, T)
    BY <1>1, SpawnsTree
  <1>3. Stacks(S, F1, T1, w)
    <2>1. Keeps(F, F1, T, T1, {})
      BY <1>2, SpawnsKeeps
    <2> QED BY <1>1, <2>1, StacksStay
  <1>4. Errors(F1, T1, fault, thrown)
    BY <1>1, <1>2, SpawnsErrors
  <1>5. Fresh(F1, T1, A) /\ Due(F1, T1, A, fault)
    BY <1>1, <1>2, SpawnsFresh, SpawnsDue
  <1> QED BY <1>1, <1>2, <1>3, <1>4, <1>5 DEF Good

\* The task of a spawn.
LocalTask(p, state) == [part |-> p, held |-> TRUE, value |-> <<>>, state |-> state]

\* A new task.
LEMMA LocalTaskType ==
    ASSUME NEW p \in Parts, NEW state \in {"queued", "running"}
    PROVE  /\ LocalTask(p, state) \in Locals /\ LocalTask(p, state).part = p
           /\ LocalTask(p, state).held /\ LocalTask(p, state).state = state
  <1>1. <<>> \in Seq(Int)
    BY EmptySeq
  <1> QED BY <1>1 DEF LocalTask, Locals

\* The invariant is kept when a call spawns a task, which the inline scheduler
\* runs at once,
LEMMA SpawnInv ==
    ASSUME IInv, NEW t \in Threads, Spawn(t)
    PROVE  IInv'
  <1>1. PICK c : c = Top(t)
    OBVIOUS
  <1>2. /\ c \in DOMAIN frame /\ frame[c].pc = "split" /\ frame[c] \in Frames /\ Here(t) = frame[c]
        /\ CallShape(c, frame[c], task, Id(whole)) /\ c \in Ranges /\ answer.state = "none"
    BY <1>1, AtCall DEF Spawn
  <1>3. PICK s : s = Split(frame[c].part, t)
    OBVIOUS
  <1>4. /\ s.rest \in Parts /\ s.sub \in Parts /\ InTwo(c, Id(s.rest), Id(s.sub))
    <2>1. Length(s.sub) # 0
      BY <1>2, <1>3 DEF Spawn
    <2>2. frame[c].part \in Parts /\ Id(frame[c].part) = c
      BY <1>2 DEF Frames, CallShape, Kept
    <2>3. algorithm.split \in {"static", "auto", "invoke"}
      BY InvGood
    <2> QED BY <1>3, <2>1, <2>2, <2>3, SplitParts
  <1>5. PICK p \in Parts : p = s.sub
    BY <1>4
  <1>6. PICK k \in Ranges : k = Id(p)
    BY IdRange
  <1>7. PICK f : f = [frame[c] EXCEPT !.part = s.rest, !.sub = k, !.pc = "spawned"]
    OBVIOUS
  <1>8. /\ f \in Frames /\ f.part = s.rest /\ f.sub = k /\ f.pc = "spawned" /\ f.ok = frame[c].ok
    BY <1>2, <1>4, <1>7 DEF Frames, Pcs
  <1>9. PICK F1 : F1 = [frame EXCEPT ![c] = f]
    OBVIOUS
  <1>10. PICK T1 : T1 = Put(task, k, LocalTask(p, "queued"))
    OBVIOUS
  <1>11. Good(stack, frame, task, applied, faulty, Thrown, Id(whole))
    BY InvGood
  <1>12. IsCalls(frame) /\ IsTasks(task) /\ IsStacks(stack)
    BY <1>11 DEF Good, Given
  <1>13. Spawns(frame, F1, task, T1, c, f, k, LocalTask(p, "queued"))
    <2>1. Alters(frame, F1, c, f)
      BY <1>2, <1>8, <1>9, <1>12, ExceptCall
    <2>2. /\ LocalTask(p, "queued") \in Locals /\ LocalTask(p, "queued").part = p
          /\ LocalTask(p, "queued").held /\ LocalTask(p, "queued").state = "queued"
      BY LocalTaskType
    <2>3. TaskIs(task, T1, k, LocalTask(p, "queued"))
      BY <1>10, <1>12, <2>2, PutTask
    <2>4. InTwo(c, Kept(f), k)
      BY <1>4, <1>5, <1>6, <1>8 DEF Kept
    <2> QED BY <1>2, <1>6, <1>8, <2>1, <2>2, <2>3, <2>4 DEF Spawns
  <1>14. Good(stack, F1, T1, applied, faulty, Thrown, Id(whole)) /\ k \notin Touched(frame, task)
    BY <1>11, <1>13, SpawnsGood
  <1>15. UNCHANGED <<input, applied, moved, faulty, answer>>
    BY DEF Spawn
  <1>16. DOMAIN T1 = DOMAIN task \union {k}
    BY <1>10 DEF Put
  <1>17. moved \subseteq DOMAIN task /\ faulty \in BOOLEAN
    BY DEF IInv, Types
  <1>18. CASE algorithm.sched # "inline"
    <2>1. frame' = F1 /\ task' = T1 /\ stack' = stack
      BY <1>1, <1>2, <1>3, <1>5, <1>6, <1>7, <1>9, <1>10, <1>18 DEF Spawn, LocalTask
    <2>2. Good(stack', frame', task', applied', faulty', Thrown, Id(whole))
      BY <1>14, <1>15, <2>1
    <2>3. Rest
      BY <1>15, <1>16, <1>17, <2>1 DEF Rest, input
    <2> QED BY <1>2, <2>2, <2>3, InvNext
  <1>19. CASE algorithm.sched = "inline"
    <2>1. /\ frame' = Put(F1, k, Call(p)) /\ task' = Put(task, k, LocalTask(p, "running"))
          /\ stack' = [stack EXCEPT ![t] = Append(@, k)]
      BY <1>1, <1>2, <1>3, <1>5, <1>6, <1>7, <1>9, <1>19 DEF Spawn, LocalTask, Push
    <2>2. Pushes(stack, stack', t, k)
      BY <1>12, <2>1, PushOn
    <2>3. Enters(F1, frame', k, Call(p)) /\ First(k, Call(p))
      <3>1. IsCalls(F1)
        BY <1>14 DEF Good, Given
      <3> QED BY <1>6, <2>1, <3>1, PutCall, CallFrame
    <2>4. /\ LocalTask(p, "running") \in Locals /\ LocalTask(p, "running").part = p
          /\ LocalTask(p, "running").held /\ LocalTask(p, "running").state = "running"
      BY LocalTaskType
    <2>5. TaskIs(task, task', k, LocalTask(p, "running"))
      BY <1>12, <2>1, <2>4, PutTask
    <2>6. /\ k \in DOMAIN T1 /\ T1[k] = LocalTask(p, "queued")
          /\ \A j \in DOMAIN task : j # k => T1[j] = task[j]
      BY <1>10 DEF Put
    <2>7. TaskIs(T1, task', k, LocalTask(p, "running"))
      BY <1>16, <2>5, <2>6 DEF TaskIs
    <2>8. T1[k].state = "queued" /\ T1[k].held /\ T1[k].part = p
      BY <2>6, LocalTaskType
    <2>9. LocalTask(p, "running").held = T1[k].held
      BY <2>6 DEF LocalTask
    <2>10. Runs(F1, frame', T1, task', k, Call(p), LocalTask(p, "running"))
      BY <2>3, <2>4, <2>6, <2>7, <2>8, <2>9 DEF Runs
    <2>11. Good(stack', frame', task', applied, faulty, Thrown, Id(whole))
      BY <1>14, <2>2, <2>10, RunsGood
    <2>12. Good(stack', frame', task', applied', faulty', Thrown, Id(whole))
      BY <1>15, <2>11
    <2>13. Rest
      <3>1. DOMAIN task' = DOMAIN task \union {k}
        BY <2>5 DEF TaskIs
      <3> QED BY <1>15, <1>17, <3>1 DEF Rest, input
    <2> QED BY <1>2, <2>12, <2>13, InvNext
  <1> QED BY <1>18, <1>19

\* when it calls itself for the rest of its range,
LEMMA RecurseInv ==
    ASSUME IInv, NEW t \in Threads, Recurse(t)
    PROVE  IInv'
  <1>1. PICK c : c = Top(t)
    OBVIOUS
  <1>2. /\ c \in DOMAIN frame /\ frame[c].pc = "spawned" /\ frame[c] \in Frames /\ Here(t) = frame[c]
        /\ answer.state = "none" /\ On(stack, t, Len(stack[t]), c)
    BY <1>1, AtCall DEF Recurse
  <1>3. PICK p \in Parts : p = frame[c].part
    BY <1>2 DEF Frames
  <1>4. PICK x \in Ranges : x = Id(p)
    BY IdRange
  <1>5. x = Kept(frame[c])
    BY <1>3, <1>4 DEF Kept
  <1>6. PICK f : f = [frame[c] EXCEPT !.pc = "rest"]
    OBVIOUS
  <1>7. f \in Frames /\ f.pc = "rest" /\ f.sub = frame[c].sub /\ Kept(f) = Kept(frame[c]) /\ f.ok = frame[c].ok
    BY <1>2, <1>6 DEF Frames, Pcs, Kept
  <1>8. PICK G : G = [frame EXCEPT ![c] = f]
    OBVIOUS
  <1>9. frame' = Put(G, x, Call(p)) /\ stack' = [stack EXCEPT ![t] = Append(@, x)]
    BY <1>1, <1>2, <1>3, <1>4, <1>6, <1>8 DEF Recurse, Push
  <1>10. Good(stack, frame, task, applied, faulty, Thrown, Id(whole))
    BY InvGood
  <1>11. Given(frame, task, Id(whole)) /\ IsCalls(frame) /\ IsStacks(stack)
    BY <1>10 DEF Good, Given
  <1>12. Alters(frame, G, c, f)
    BY <1>2, <1>7, <1>8, <1>11, ExceptCall
  <1>13. Enters(G, frame', x, Call(p)) /\ First(x, Call(p))
    <2>1. IsCalls(G)
      BY <1>12 DEF Alters
    <2> QED BY <1>4, <1>9, <2>1, PutCall, CallFrame
  <1>14. Recurses(frame, frame', c, f, x, Call(p))
    <2>1. /\ IsCalls(frame') /\ DOMAIN frame' = DOMAIN G \union {x} /\ frame'[x] = Call(p)
          /\ \A d \in DOMAIN G : d # x => frame'[d] = G[d]
          /\ Call(p) \in Frames
      BY <1>13 DEF Enters
    <2>2. /\ DOMAIN G = DOMAIN frame /\ G[c] = f /\ \A d \in DOMAIN frame : d # c => G[d] = frame[d]
      BY <1>12 DEF Alters
    <2> QED BY <1>2, <1>5, <1>7, <1>13, <2>1, <2>2 DEF Recurses
  <1>15. Given(frame', task, Id(whole)) /\ x \notin Touched(frame, task)
    BY <1>11, <1>14, RecursesTree
  <1>16. Stacks(stack', frame', task, Id(whole)) /\ IsStacks(stack')
    <2>1. Pushes(stack, stack', t, x)
      BY <1>9, <1>11, PushOn
    <2>2. Keeps(frame, frame', task, task, {})
      BY <1>14, <1>15, RecursesKeeps
    <2>3. ~ (x \in DOMAIN frame \/ (x \in DOMAIN task /\ task[x].held /\ task[x].state \in Final))
      BY <1>15 DEF Touched
    <2>4. /\ x \in DOMAIN frame' /\ c \in DOMAIN frame' /\ frame'[c].pc = "rest" /\ Kept(frame'[c]) = x
      BY <1>2, <1>5, <1>14, <1>15 DEF Recurses, Touched
    <2>5. Stacks(stack, frame, task, Id(whole))
      BY <1>10 DEF Good
    <2>6. x \in DOMAIN task \/ \E d \in DOMAIN frame' :
               On(stack, t, Len(stack[t]), d) /\ frame'[d].pc = "rest" /\ Kept(frame'[d]) = x
      BY <1>2, <2>4
    <2>7. x \in DOMAIN frame' \/ (x \in DOMAIN task /\ task[x].held /\ task[x].state \in Final)
      BY <2>4
    <2>8. Stacks(stack', frame', task, Id(whole))
      BY <2>1, <2>2, <2>3, <2>5, <2>6, <2>7, StacksPush
    <2> QED BY <2>1, <2>8 DEF Pushes
  <1>17. Errors(frame', task, faulty, Thrown)
    BY <1>10, <1>14, <1>15, RecursesErrors DEF Good
  <1>18. Fresh(frame', task, applied) /\ Due(frame', task, applied, faulty)
    BY <1>10, <1>14, <1>15, RecursesFresh, RecursesDue DEF Good
  <1>19. UNCHANGED <<input, task, applied, moved, faulty, answer>>
    BY DEF Recurse
  <1>20. Good(stack', frame', task', applied', faulty', Thrown, Id(whole))
    BY <1>10, <1>15, <1>16, <1>17, <1>18, <1>19 DEF Good
  <1>21. Rest
    <2>1. moved \subseteq DOMAIN task /\ faulty \in BOOLEAN
      BY DEF IInv, Types
    <2> QED BY <1>19, <2>1 DEF Rest, input
  <1> QED BY <1>2, <1>20, <1>21, InvNext

\* when a thread takes a queued task,
LEMMA TakeInv ==
    ASSUME IInv, NEW t \in Threads, Take(t)
    PROVE  IInv'
  <1>1. Good(stack, frame, task, applied, faulty, Thrown, Id(whole))
    BY InvGood
  <1>2. Given(frame, task, Id(whole)) /\ IsCalls(frame) /\ IsTasks(task) /\ IsStacks(stack)
    BY <1>1 DEF Good, Given
  <1>3. PICK k \in DOMAIN task :
           /\ task[k].state = "queued" /\ Push(t, k)
           /\ \/ /\ task' = [task EXCEPT ![k].state = "running"]
                 /\ frame' = Put(frame, k, Call(task[k].part))
                 /\ moved' = IF task[k].part.last = t THEN moved ELSE moved \union {k}
                 /\ UNCHANGED faulty
              \/ /\ task' = [task EXCEPT ![k].state = "canceled"]
                 /\ faulty' = TRUE
                 /\ UNCHANGED <<frame, moved>>
    BY DEF Take
  <1>4. /\ task[k] \in Locals /\ TaskShape(k, task[k], frame, Id(whole)) /\ k \in Ranges
        /\ task[k].part \in Parts /\ Id(task[k].part) = k /\ task[k].held
    <2>1. task[k] \in Locals /\ TaskShape(k, task[k], frame, Id(whole)) /\ k \in Ranges
      BY <1>2, TreeFacts DEF IsTasks
    <2> QED BY <1>3, <2>1 DEF Locals, TaskShape, Final
  <1>5. answer.state = "none"
    BY <1>4, InProgress
  <1>6. Pushes(stack, stack', t, k)
    BY <1>2, <1>3, <1>4, PushOn DEF Push
  <1>7. UNCHANGED <<input, applied, answer>>
    BY DEF Take
  <1>8. moved \subseteq DOMAIN task /\ faulty \in BOOLEAN
    BY DEF IInv, Types
  <1>9. CASE /\ task' = [task EXCEPT ![k].state = "running"]
             /\ frame' = Put(frame, k, Call(task[k].part))
             /\ moved' = IF task[k].part.last = t THEN moved ELSE moved \union {k}
             /\ UNCHANGED faulty
    <2>1. PICK g : g = [task[k] EXCEPT !.state = "running"]
      OBVIOUS
    <2>2. /\ g \in Locals /\ g.state = "running" /\ g.held = task[k].held /\ g.part = task[k].part
      BY <1>4, <2>1 DEF Locals
    <2>3. task' = [task EXCEPT ![k] = g]
      BY <1>9, <2>1
    <2>4. TaskIs(task, task', k, g)
      BY <1>2, <2>2, <2>3, ExceptTask
    <2>5. Enters(frame, frame', k, Call(task[k].part)) /\ First(k, Call(task[k].part))
      BY <1>2, <1>4, <1>9, PutCall, CallFrame
    <2>6. Runs(frame, frame', task, task', k, Call(task[k].part), g)
      BY <1>3, <2>2, <2>4, <2>5 DEF Runs
    <2>7. Good(stack', frame', task', applied, faulty, Thrown, Id(whole))
      BY <1>1, <1>6, <2>6, RunsGood
    <2>8. Good(stack', frame', task', applied', faulty', Thrown, Id(whole))
      BY <1>7, <1>9, <2>7
    <2>9. Rest
      <3>1. DOMAIN task' = DOMAIN task
        BY <2>4 DEF TaskIs
      <3> QED BY <1>7, <1>8, <1>9, <3>1 DEF Rest, input
    <2> QED BY <1>5, <2>8, <2>9, InvNext
  <1>10. CASE /\ task' = [task EXCEPT ![k].state = "canceled"]
              /\ faulty' = TRUE
              /\ UNCHANGED <<frame, moved>>
    <2>1. PICK g : g = [task[k] EXCEPT !.state = "canceled"]
      OBVIOUS
    <2>2. /\ g \in Locals /\ g.state = "canceled" /\ g.held = task[k].held /\ g.part = task[k].part
      BY <1>4, <2>1 DEF Locals, Final
    <2>3. task' = [task EXCEPT ![k] = g]
      BY <1>10, <2>1
    <2>4. TaskIs(task, task', k, g)
      BY <1>2, <2>2, <2>3, ExceptTask
    <2>5. Cancels(task, task', k, g)
      BY <1>3, <2>2, <2>4 DEF Cancels
    <2>6. Given(frame, task', Id(whole)) /\ k \notin DOMAIN frame
      BY <1>2, <2>5, CancelsTree
    <2>7. Stacks(stack', frame, task', Id(whole)) /\ IsStacks(stack')
      <3>1. Keeps(frame, frame, task, task', {})
        BY <2>5, CancelsKeeps
      <3>2. ~ (k \in DOMAIN frame \/ (k \in DOMAIN task /\ task[k].held /\ task[k].state \in Final))
        BY <1>3, <2>6 DEF Final
      <3>3. k \in DOMAIN task' /\ task'[k].held /\ task'[k].state \in Final
        BY <1>4, <2>2, <2>4 DEF TaskIs, Final
      <3>4. Stacks(stack, frame, task, Id(whole))
        BY <1>1 DEF Good
      <3>5. Stacks(stack', frame, task', Id(whole))
        BY <1>4, <1>6, <3>1, <3>2, <3>3, <3>4, StacksPush
      <3> QED BY <1>6, <3>5 DEF Pushes
    <2>8. Errors(frame, task', faulty', Thrown)
      <3>1. \E d \in DOMAIN frame : Failing(frame[d], task')
        BY <1>2, <1>4, <2>5, CancelsErrors
      <3> QED BY <1>10, <3>1 DEF Errors
    <2>9. Fresh(frame, task', applied) /\ Due(frame, task', applied, faulty')
      <3>1. Due(frame, task', applied, faulty')
        BY <1>10 DEF Due
      <3> QED BY <1>1, <2>5, <3>1, CancelsFresh DEF Good
    <2>10. Good(stack', frame', task', applied', faulty', Thrown, Id(whole))
      BY <1>1, <1>7, <1>10, <2>6, <2>7, <2>8, <2>9 DEF Good
    <2>11. Rest
      <3>1. DOMAIN task' = DOMAIN task
        BY <2>4 DEF TaskIs
      <3> QED BY <1>7, <1>8, <1>10, <3>1 DEF Rest, input
    <2> QED BY <1>5, <2>10, <2>11, InvNext
  <1> QED BY <1>3, <1>9, <1>10

\* when the thread that ran a task releases it,
LEMMA ReleaseInv ==
    ASSUME IInv, NEW t \in Threads, Release(t)
    PROVE  IInv'
  <1>1. Good(stack, frame, task, applied, faulty, Thrown, Id(whole))
    BY InvGood
  <1>2. /\ Given(frame, task, Id(whole)) /\ IsCalls(frame) /\ IsTasks(task) /\ IsStacks(stack)
        /\ Stacks(stack, frame, task, Id(whole))
    BY <1>1 DEF Good, Given
  <1>3. PICK k : k = Top(t)
    OBVIOUS
  <1>4. stack[t] # <<>> /\ k \notin DOMAIN frame
    BY <1>3 DEF Release
  <1>5. answer.state = "none"
    BY <1>4, InProgress
  <1>6. /\ Pops(stack, stack', t, k) /\ k \in Ranges /\ On(stack, t, Len(stack[t]), k) /\ Len(stack[t]) \in Nat
    BY <1>2, <1>3, <1>4, PopOn, TopOn DEF Release, Pop, Top
  <1>7. Placed(stack, frame, task, Id(whole), t, Len(stack[t]), k)
    BY <1>2, <1>6 DEF Stacks
  <1>8. k \in DOMAIN task /\ task[k].held /\ task[k].state \in Final
    BY <1>4, <1>7 DEF Placed
  <1>9. PICK g : g = [task[k] EXCEPT !.held = FALSE]
    OBVIOUS
  <1>10. g \in Locals /\ ~ g.held /\ g.state = task[k].state /\ g.part = task[k].part
    BY <1>2, <1>8, <1>9 DEF IsTasks, Locals
  <1>11. TaskIs(task, task', k, g)
    <2>1. task' = [task EXCEPT ![k] = g]
      BY <1>3, <1>9 DEF Release
    <2> QED BY <1>2, <1>8, <1>10, <2>1, ExceptTask
  <1>12. Releases(frame, task, task', k, g)
    BY <1>4, <1>8, <1>10, <1>11 DEF Releases
  <1>13. Given(frame, task', Id(whole))
    BY <1>2, <1>12, ReleasesTree
  <1>14. Stacks(stack', frame, task', Id(whole)) /\ IsStacks(stack')
    <2>1. Keeps(frame, frame, task, task', {k})
      BY <1>12, ReleasesKeeps
    <2>2. Stacks(stack', frame, task', Id(whole))
      BY <1>2, <1>6, <2>1, StacksPop
    <2> QED BY <1>6, <2>2 DEF Pops
  <1>15. Errors(frame, task', faulty, Thrown)
    BY <1>1, <1>2, <1>12, ReleasesErrors DEF Good
  <1>16. Fresh(frame, task', applied) /\ Due(frame, task', applied, faulty)
    BY <1>1, <1>12, ReleasesFresh, ReleasesDue DEF Good
  <1>17. UNCHANGED <<input, frame, applied, moved, faulty, answer>>
    BY DEF Release
  <1>18. Good(stack', frame', task', applied', faulty', Thrown, Id(whole))
    BY <1>1, <1>13, <1>14, <1>15, <1>16, <1>17 DEF Good
  <1>19. Rest
    <2>1. moved \subseteq DOMAIN task /\ faulty \in BOOLEAN
      BY DEF IInv, Types
    <2>2. DOMAIN task' = DOMAIN task
      BY <1>8, <1>11 DEF TaskIs
    <2> QED BY <1>17, <2>1, <2>2 DEF Rest, input
  <1> QED BY <1>5, <1>18, <1>19, InvNext

\* A call leaves into the task it is the function of.
LEMMA LeaveTaskInv ==
    ASSUME IInv, NEW t \in Threads, NEW c, c = Top(t), c \in DOMAIN frame, frame[c].pc = "leave",
           c \in DOMAIN task,
           task' = [task EXCEPT ![c] = [task[c] EXCEPT !.value = frame[c].value,
                      !.state = IF frame[c].ok THEN "completed" ELSE "canceled"]],
           frame' = Remove(frame, c), UNCHANGED <<input, stack, applied, moved, faulty, answer>>
    PROVE  IInv'
  <1>1. Good(stack, frame, task, applied, faulty, Thrown, Id(whole))
    BY InvGood
  <1>2. /\ Given(frame, task, Id(whole)) /\ IsCalls(frame) /\ IsTasks(task) /\ IsStacks(stack)
        /\ Stacks(stack, frame, task, Id(whole))
    BY <1>1 DEF Good, Given
  <1>3. PICK state \in Final : state = IF frame[c].ok THEN "completed" ELSE "canceled"
    BY DEF Final
  <1>4. PICK g : g = [task[c] EXCEPT !.value = frame[c].value, !.state = state]
    OBVIOUS
  <1>5. task[c] \in Locals /\ frame[c].value \in Seq(Int)
    BY <1>2 DEF IsTasks, IsCalls, Frames
  <1>6. g \in Locals /\ g.held = task[c].held /\ g.part = task[c].part /\ g.state = state
    BY <1>4, <1>5 DEF Locals
  <1>7. task' = [task EXCEPT ![c] = g]
    BY <1>3, <1>4
  <1>8. EndsTask(frame, frame', task, task', c, g)
    <2>1. TaskIs(task, task', c, g)
      <3>1. TaskIs(task, [task EXCEPT ![c] = g], c, g)
        BY <1>2, <1>6, ExceptTask
      <3> QED BY <1>7, <3>1
    <2>2. Leaves(frame, frame', c)
      BY <1>2, RemoveCall
    <2> QED BY <1>3, <1>6, <2>1, <2>2 DEF EndsTask
  <1>9. Given(frame', task', Id(whole)) /\ task[c].held
    BY <1>2, <1>8, EndsTaskTree
  <1>10. Stacks(stack, frame', task', Id(whole))
    <2>1. Keeps(frame, frame', task, task', {})
      BY <1>8, <1>9, EndsTaskKeeps
    <2> QED BY <1>2, <2>1, StacksStay
  <1>11. Errors(frame', task', faulty, Thrown)
    BY <1>1, <1>2, <1>8, <1>9, EndsTaskErrors DEF Good
  <1>12. Fresh(frame', task', applied) /\ Due(frame', task', applied, faulty)
    BY <1>1, <1>2, <1>8, EndsTaskFresh, EndsTaskDue DEF Good
  <1>13. Good(stack', frame', task', applied', faulty', Thrown, Id(whole))
    BY <1>1, <1>9, <1>10, <1>11, <1>12 DEF Good
  <1>14. Rest
    <2>1. moved \subseteq DOMAIN task /\ faulty \in BOOLEAN
      BY DEF IInv, Types
    <2>2. DOMAIN task' = DOMAIN task
      BY <1>8 DEF EndsTask, TaskIs
    <2> QED BY <2>1, <2>2 DEF Rest, input
  <1>15. answer.state = "none"
    BY InProgress
  <1> QED BY <1>13, <1>14, <1>15, InvNext

\* A call of the recursion leaves into the call below it.
LEMMA LeaveCallInv ==
    ASSUME IInv, NEW t \in Threads, NEW c, c = Top(t), c \in DOMAIN frame, frame[c].pc = "leave",
           c \notin DOMAIN task, c # Id(whole), NEW b, b = stack[t][Len(stack[t]) - 1],
           On(stack, t, Len(stack[t]), c), Len(stack[t]) \in Nat, Pops(stack, stack', t, c),
           frame' = [Remove(frame, c) EXCEPT ![b] =
                       [frame[b] EXCEPT !.pc = "join", !.value = frame[c].value, !.ok = frame[c].ok]],
           UNCHANGED <<input, task, applied, moved, faulty, answer>>
    PROVE  IInv'
  <1>1. Good(stack, frame, task, applied, faulty, Thrown, Id(whole))
    BY InvGood
  <1>2. /\ Given(frame, task, Id(whole)) /\ IsCalls(frame) /\ IsTasks(task) /\ IsStacks(stack)
        /\ Stacks(stack, frame, task, Id(whole)) /\ c \in Ranges
    BY <1>1 DEF Good, Given, IsCalls
  <1>3. Called(stack, frame, t, Len(stack[t]), c)
    <2>1. Placed(stack, frame, task, Id(whole), t, Len(stack[t]), c)
      BY <1>2 DEF Stacks
    <2> QED BY <2>1 DEF Placed
  <1>4. b \in DOMAIN frame /\ frame[b].pc = "rest" /\ Kept(frame[b]) = c /\ b # c
    BY <1>3 DEF Called, On
  <1>5. frame[b] \in Frames /\ frame[c] \in Frames
    BY <1>2, <1>4 DEF IsCalls
  <1>6. PICK f : f = [frame[b] EXCEPT !.pc = "join", !.value = frame[c].value, !.ok = frame[c].ok]
    OBVIOUS
  <1>7. f \in Frames /\ f.pc = "join" /\ f.sub = frame[b].sub /\ f.part = frame[b].part /\ f.ok = frame[c].ok
    BY <1>5, <1>6 DEF Frames, Pcs
  <1>8. PICK G : G = Remove(frame, c)
    OBVIOUS
  <1>9. Leaves(frame, G, c)
    BY <1>2, <1>8, RemoveCall
  <1>10. Alters(G, frame', b, f)
    <2>1. frame' = [G EXCEPT ![b] = f]
      BY <1>6, <1>8
    <2>2. IsCalls(G) /\ b \in DOMAIN G
      BY <1>4, <1>9 DEF Leaves
    <2>3. Alters(G, [G EXCEPT ![b] = f], b, f)
      BY <1>7, <2>2, ExceptCall
    <2> QED BY <2>1, <2>3
  <1>11. Returns(frame, frame', task, c, b, f)
    <2>1. /\ DOMAIN G = DOMAIN frame \ {c} /\ \A d \in DOMAIN frame : d # c => G[d] = frame[d]
      BY <1>9 DEF Leaves
    <2>2. /\ IsCalls(frame') /\ DOMAIN frame' = DOMAIN G /\ frame'[b] = f
          /\ \A d \in DOMAIN G : d # b => frame'[d] = G[d]
      BY <1>10 DEF Alters
    <2> QED BY <1>4, <1>7, <2>1, <2>2 DEF Returns, Kept
  <1>12. Given(frame', task, Id(whole))
    BY <1>2, <1>11, ReturnsTree
  <1>13. Stacks(stack', frame', task, Id(whole)) /\ IsStacks(stack')
    <2>1. Keeps(frame, frame', task, task, {c})
      BY <1>11, ReturnsKeeps
    <2>2. Stacks(stack', frame', task, Id(whole))
      BY <1>2, <2>1, StacksPop
    <2> QED BY <2>2 DEF Pops
  <1>14. Errors(frame', task, faulty, Thrown)
    BY <1>1, <1>2, <1>11, ReturnsErrors DEF Good
  <1>15. Fresh(frame', task, applied) /\ Due(frame', task, applied, faulty)
    BY <1>1, <1>11, ReturnsFresh, ReturnsDue DEF Good
  <1>16. Good(stack', frame', task', applied', faulty', Thrown, Id(whole))
    BY <1>1, <1>12, <1>13, <1>14, <1>15 DEF Good
  <1>17. Rest
    <2>1. moved \subseteq DOMAIN task /\ faulty \in BOOLEAN
      BY DEF IInv, Types
    <2> QED BY <2>1 DEF Rest, input
  <1>18. answer.state = "none"
    BY InProgress
  <1> QED BY <1>16, <1>17, <1>18, InvNext

\* When the outermost call leaves, it is the only one, no task is held, and
\* nothing else is on a stack.
LEMMA LastCall ==
    ASSUME NEW S, NEW S1, NEW F, NEW T, NEW w, NEW t \in Threads,
           Given(F, T, w), IsStacks(S), Stacks(S, F, T, w), Pops(S, S1, t, w),
           w \in DOMAIN F, F[w].pc = "leave"
    PROVE  /\ DOMAIN F = {w} /\ \A k \in DOMAIN T : ~ T[k].held
           /\ \A u \in Threads : S1[u] = <<>>
  <1>1. \A x \in Touched(F, T) : x # w => ~ Live(x, F, T)
    BY TreeFacts DEF Touched, CallShape, TaskShape, Inside, Inner
  <1>2. DOMAIN F = {w}
    BY <1>1, TreeFacts
  <1>3. \A k \in DOMAIN T : ~ T[k].held
    BY <1>1, TreeFacts DEF TaskShape, Live
  <1>4. /\ IsStacks(S1) /\ On(S, t, Len(S[t]), w) /\ Len(S[t]) \in Nat /\ w \in Ranges
        /\ \A u \in Threads : \A n, y : On(S1, u, n, y) <=> On(S, u, n, y) /\ ~ (u = t /\ n = Len(S[t]))
    BY DEF Pops
  <1>5. \A u \in Threads : \A n \in Nat : \A y \in Ranges : On(S, u, n, y) => y = w
    BY <1>2, <1>3 DEF Stacks, Placed
  <1>6. \A u \in Threads : \A n \in Nat : \A y \in Ranges : ~ On(S1, u, n, y)
    BY <1>4, <1>5 DEF Stacks
  <1>7. \A u \in Threads : S1[u] = <<>>
    BY <1>4, <1>6, NothingOn
  <1> QED BY <1>2, <1>3, <1>7

\* The tree, when the last call is gone.
LEMMA LastTree ==
    ASSUME NEW F, NEW F1, NEW T, NEW w, Given(F, T, w), Leaves(F, F1, w), DOMAIN F = {w},
           \A k \in DOMAIN T : ~ T[k].held
    PROVE  Given(F1, T, w)
  <1>1. DOMAIN F1 = {} /\ IsCalls(F1) /\ IsTasks(T) /\ w \in Ranges
    BY DEF Leaves, Given
  <1>2. Touched(F1, T) \subseteq Touched(F, T) /\ \A x : ~ Live(x, F1, T)
    BY <1>1 DEF Touched, Live
  <1>3. \A k \in DOMAIN T : k \notin DOMAIN F
    BY TreeFacts DEF TaskShape
  <1>4. \A k \in DOMAIN T : TaskShape(k, T[k], F1, w)
    BY <1>1, <1>3, TreeFacts DEF TaskShape
  <1>5. \A k \in DOMAIN T \ DOMAIN F1 : \A x \in Touched(F1, T) :
              Inside(x, k) => ~ Live(x, F1, T) /\ T[k].state # "queued"
    BY <1>2, <1>3, TreeFacts
  <1>6. Laminar(Touched(F1, T))
    BY <1>2, TreeFacts DEF Laminar
  <1>7. Covered(F1, T)
    BY DEF Covered
  <1> QED BY <1>1, <1>4, <1>5, <1>6, <1>7, TreeFrom

\* The outermost call leaves into the program.
LEMMA LeaveWholeInv ==
    ASSUME IInv, NEW t \in Threads, NEW c, c = Top(t), c \in DOMAIN frame, frame[c].pc = "leave",
           c = Id(whole), Pops(stack, stack', t, c),
           answer' = [state |-> IF frame[c].ok THEN "returned" ELSE "thrown", value |-> frame[c].value],
           frame' = Remove(frame, c), UNCHANGED <<input, task, applied, moved, faulty>>
    PROVE  IInv'
  <1>1. Good(stack, frame, task, applied, faulty, Thrown, Id(whole))
    BY InvGood
  <1>2. /\ Given(frame, task, Id(whole)) /\ IsCalls(frame) /\ IsTasks(task) /\ IsStacks(stack)
        /\ Stacks(stack, frame, task, Id(whole))
    BY <1>1 DEF Good, Given
  <1>3. DOMAIN frame = {c} /\ (\A k \in DOMAIN task : ~ task[k].held) /\ \A u \in Threads : stack'[u] = <<>>
    <2>1. Given(frame, task, c) /\ Stacks(stack, frame, task, c) /\ IsStacks(stack)
      BY <1>2
    <2> QED BY <2>1, LastCall, Zenon
  <1>4. Leaves(frame, frame', c)
    BY <1>2, RemoveCall
  <1>5. DOMAIN frame' = {} /\ IsCalls(frame')
    BY <1>3, <1>4 DEF Leaves
  <1>6. Given(frame', task, Id(whole))
    BY <1>2, <1>3, <1>4, LastTree
  <1>7. whole' = whole /\ task' = task /\ applied' = applied /\ faulty' = faulty /\ moved' = moved
        /\ algorithm' = algorithm
    BY DEF input
  <1>8. IsStacks(stack')
    BY DEF Pops
  <1>9. Types'
    <2>1. frame[c].value \in Seq(Int)
      BY <1>2 DEF IsCalls, Frames
    <2>2. answer' \in [state : {"none", "returned", "thrown"}, value : Seq(Int)]
      <3>1. PICK s \in {"returned", "thrown"} : s = IF frame[c].ok THEN "returned" ELSE "thrown"
        OBVIOUS
      <3> QED BY <2>1, <3>1
    <2>3. Types
      BY DEF IInv
    <2> QED BY <1>5, <1>7, <1>8, <2>2, <2>3 DEF Types, IsStacks, IsCalls, IsTasks, Elements
  <1>10. Tree(frame, task, Id(whole))'
    BY <1>6, <1>7 DEF Given
  <1>11. Stacks(stack, frame, task, Id(whole))'
    <2>1. \A u \in Threads : \A n, x : ~ On(stack', u, n, x)
      <3>1. SUFFICES ASSUME NEW u \in Threads, NEW n, NEW x, On(stack', u, n, x) PROVE FALSE
        OBVIOUS
      <3>2. stack'[u] = <<>> /\ Len(<<>>) = 0
        BY <1>3, EmptySeq
      <3> QED BY <3>1, <3>2 DEF On
    <2> QED BY <2>1 DEF Stacks
  <1>12. Errors(frame, task, faulty, Thrown)'
    <2>1. Errors(frame, task, faulty, Thrown) /\ faulty \in BOOLEAN
      BY <1>1 DEF Good
    <2>2. answer.state = "none"
      BY InProgress
    <2>3. ~ Thrown
      BY <2>2 DEF Thrown
    <2>4. Thrown' <=> ~ frame[c].ok
      BY DEF Thrown
    <2>5. faulty => ~ frame[c].ok
      BY <1>3, <2>1, <2>3 DEF Errors, Failing
    <2>6. ~ faulty => frame[c].ok /\ \A k \in DOMAIN task : task[k].state # "canceled"
      BY <2>1 DEF Errors
    <2> QED BY <1>5, <1>7, <2>4, <2>5, <2>6 DEF Errors
  <1>13. Fresh(frame, task, applied)' /\ Due(frame, task, applied, faulty)'
    <2>1. Fresh(frame, task, applied) /\ Due(frame, task, applied, faulty)
      BY <1>1 DEF Good
    <2>2. \A i \in DOMAIN applied : ~ Ahead(c, frame[c], i)
      BY DEF Ahead
    <2>3. Fresh(frame, task, applied)'
      BY <1>5, <1>7, <2>1 DEF Fresh
    <2>4. Due(frame, task, applied, faulty)'
      BY <1>3, <1>5, <1>7, <2>1, <2>2 DEF Due
    <2> QED BY <2>3, <2>4
  <1>14. Ended'
    BY <1>3, <1>5, <1>7 DEF Ended
  <1> QED BY <1>9, <1>10, <1>11, <1>12, <1>13, <1>14 DEF IInv

\* The invariant is kept when a call returns: to its caller, to its task, or to
\* the user.
LEMMA LeaveInv ==
    ASSUME IInv, NEW t \in Threads, Leave(t)
    PROVE  IInv'
  <1>1. PICK c : c = Top(t)
    OBVIOUS
  <1>2. PICK b : b = stack[t][Len(stack[t]) - 1]
    OBVIOUS
  <1>3. /\ c \in DOMAIN frame /\ frame[c].pc = "leave"
        /\ On(stack, t, Len(stack[t]), c) /\ Len(stack[t]) \in Nat
        /\ Pops(stack, [stack EXCEPT ![t] = SubSeq(@, 1, Len(@) - 1)], t, c)
    BY <1>1, AtCall DEF Leave
  <1>4. UNCHANGED <<input, applied, moved, faulty>>
    BY DEF Leave
  <1>5. CASE c \in DOMAIN task
    <2>1. /\ task' = [task EXCEPT ![c] = [task[c] EXCEPT !.value = frame[c].value,
                      !.state = IF frame[c].ok THEN "completed" ELSE "canceled"]]
          /\ frame' = Remove(frame, c) /\ UNCHANGED <<stack, answer>>
      BY <1>1, <1>5 DEF Leave
    <2> QED BY <1>1, <1>3, <1>4, <1>5, <2>1, LeaveTaskInv
  <1>6. CASE c \notin DOMAIN task
    <2>1. Pops(stack, stack', t, c)
      BY <1>1, <1>3, <1>6 DEF Leave, Pop
    <2>2. CASE c = Id(whole)
      <3>1. /\ answer' = [state |-> IF frame[c].ok THEN "returned" ELSE "thrown", value |-> frame[c].value]
            /\ frame' = Remove(frame, c) /\ UNCHANGED task
        BY <1>1, <1>6, <2>2 DEF Leave
      <3> QED BY <1>1, <1>3, <1>4, <2>1, <2>2, <3>1, LeaveWholeInv
    <2>3. CASE c # Id(whole)
      <3>1. /\ frame' = [Remove(frame, c) EXCEPT ![b] =
                       [frame[b] EXCEPT !.pc = "join", !.value = frame[c].value, !.ok = frame[c].ok]]
            /\ UNCHANGED <<task, answer>>
        BY <1>1, <1>2, <1>6, <2>3 DEF Leave
      <3> QED BY <1>1, <1>2, <1>3, <1>4, <1>6, <2>1, <2>3, <3>1, LeaveCallInv
    <2> QED BY <2>2, <2>3
  <1> QED BY <1>5, <1>6

-----------------------------------------------------------------------------
(* The theorems. *)

\* Nothing, as a function and as a sequence.
LEMMA EmptyFunction ==
    /\ DOMAIN <<>> = {} /\ Len(<<>>) = 0 /\ IsTasks(<<>>) /\ IsCalls(<<>>)
    /\ <<>> \in Seq(Ranges) /\ <<>> \in Seq(Int)
  <1>1. DOMAIN <<>> = {} /\ Len(<<>>) = 0 /\ <<>> \in Seq(Ranges) /\ <<>> \in Seq(Int)
    BY EmptySeq
  <1>2. <<>> = [i \in {} |-> 0]
    BY <1>1
  <1> QED BY <1>1, <1>2 DEF IsTasks, IsCalls

\* A call that is the only one there is.
LEMMA FirstTree ==
    ASSUME NEW w \in Ranges, w[1] <= w[2], NEW F, NEW f, Enters(<<>>, F, w, f), First(w, f)
    PROVE  Given(F, <<>>, w)
  <1>1. DOMAIN F = {w} /\ F[w] = f /\ IsCalls(F) /\ IsTasks(<<>>) /\ DOMAIN <<>> = {}
    BY EmptyFunction DEF Enters
  <1>2. Touched(F, <<>>) = {w}
    BY <1>1 DEF Touched
  <1>3. Laminar(Touched(F, <<>>))
    BY <1>2, WithinOrder DEF Laminar
  <1>4. \A c \in DOMAIN F : CallShape(c, F[c], <<>>, w)
    BY <1>1, WithinOrder DEF First, CallShape, Parents
  <1>5. \A c \in DOMAIN F : \A x \in Touched(F, <<>>) : ~ Inside(x, c)
    BY <1>1, <1>2 DEF Inside
  <1>6. Covered(F, <<>>)
    BY <1>1 DEF Covered
  <1> QED BY <1>1, <1>3, <1>4, <1>5, <1>6, TreeFrom

\* The invariant holds initially.
LEMMA InitInv == Init => IInv
  <1> SUFFICES ASSUME Init PROVE IInv
    OBVIOUS
  <1>1. /\ algorithm \in [split : {"static", "auto", "invoke"}, sched : {"pool", "inline"}]
        /\ algorithm.split \in {"static", "auto", "invoke"}
    BY DEF Init
  <1>2. PICK n \in Sizes, t \in Threads :
           /\ \E g \in IF algorithm.split = "static" THEN Grains ELSE {auto_grain_size(n)} :
                 whole = NewPartitioner(1, 1 + n, g)
           /\ stack = [u \in Threads |-> IF u = t THEN <<Id(whole)>> ELSE <<>>]
    BY DEF Init
  <1>3. n \in Nat
    BY ParallelAssumption
  <1>4. PICK g \in Nat : whole = NewPartitioner(1, 1 + n, g)
    <2>2. auto_grain_size(n) \in Nat
      BY <1>3, GrainIsNatural
    <2>3. Grains \subseteq Nat
      BY ParallelAssumption
    <2> QED BY <1>2, <2>2, <2>3
  <1>5. /\ whole \in Parts /\ whole.first = 1 /\ whole.first <= whole.end
    BY <1>3, <1>4 DEF Parts, Partitioners, NewPartitioner
  <1>6. PICK w \in Ranges : w = Id(whole)
    BY <1>5, IdRange
  <1>7. w[1] <= w[2] /\ w[1] = whole.first /\ w[2] = whole.end
    BY <1>5, <1>6, IdRange
  <1>8. Enters(<<>>, frame, w, Call(whole)) /\ First(w, Call(whole))
    BY <1>5, <1>6, PutCall, CallFrame, EmptyFunction DEF Init
  <1>9. Given(frame, <<>>, w) /\ DOMAIN frame = {w} /\ frame[w] = Call(whole) /\ IsCalls(frame)
    BY <1>7, <1>8, FirstTree, EmptyFunction DEF Enters
  <1>10. task = <<>> /\ DOMAIN task = {} /\ IsTasks(task) /\ moved = {} /\ faulty = FALSE
         /\ answer = [state |-> "none", value |-> <<>>]
         /\ applied = [i \in Elements(whole) |-> 0]
    BY EmptyFunction DEF Init
  <1>11. IsStacks(stack) /\ \A u \in Threads : \A m, x : On(stack, u, m, x) => u = t /\ m = 1 /\ x = w
    <2>1. \A u \in Threads : u # t => stack[u] = <<>>
      BY <1>2
    <2>2. stack[t] = <<w>>
      BY <1>2, <1>6
    <2>3. <<w>> \in Seq(Ranges) /\ Len(<<w>>) = 1 /\ <<w>>[1] = w
      OBVIOUS
    <2>4. IsStacks(stack)
      BY <1>2, <1>6, <2>3, EmptyFunction DEF IsStacks
    <2>5. \A m : m \in 1..1 => m = 1
      OBVIOUS
    <2>6. \A m : m \notin 1..0
      OBVIOUS
    <2> QED BY <2>1, <2>2, <2>3, <2>4, <2>5, <2>6, EmptyFunction DEF On
  <1>12. Types
    <2>1. answer \in [state : {"none", "returned", "thrown"}, value : Seq(Int)]
      BY <1>10, EmptyFunction
    <2> QED BY <1>1, <1>5, <1>9, <1>10, <1>11, <2>1 DEF Types, IsStacks
  <1>13. Tree(frame, task, Id(whole))
    BY <1>6, <1>9, <1>10 DEF Given
  <1>14. Stacks(stack, frame, task, Id(whole))
    <2>1. \A u \in Threads : \A m \in Nat : \A x \in Ranges :
             On(stack, u, m, x) => Placed(stack, frame, task, w, u, m, x)
      BY <1>9, <1>11 DEF Placed
    <2> QED BY <1>6, <1>11, <2>1 DEF Stacks
  <1>15. Errors(frame, task, faulty, Thrown)
    BY <1>8, <1>9, <1>10 DEF Errors, Thrown, First
  <1>16. Fresh(frame, task, applied) /\ Due(frame, task, applied, faulty)
    <2>1. frame[w].pc = "split"
      BY <1>8, <1>9 DEF First
    <2>2. \A i \in Elements(whole) : Has(w, i)
      BY <1>5, <1>7 DEF Elements, Has, Parts, Partitioners
    <2>3. Due(frame, task, applied, faulty)
      BY <1>9, <1>10, <2>1, <2>2 DEF Due, Ahead
    <2> QED BY <1>10, <2>3 DEF Fresh
  <1>17. Ended
    BY <1>10 DEF Ended
  <1> QED BY <1>12, <1>13, <1>14, <1>15, <1>16, <1>17 DEF IInv

\* Steps that change nothing.
LEMMA StutterInv == IInv /\ UNCHANGED vars => IInv'
  <1> SUFFICES ASSUME IInv, UNCHANGED vars PROVE IInv'
    OBVIOUS
  <1>1. /\ algorithm' = algorithm /\ whole' = whole /\ frame' = frame /\ stack' = stack /\ task' = task
        /\ applied' = applied /\ moved' = moved /\ faulty' = faulty /\ answer' = answer
    BY DEF vars, input
  <1>2. Types'
    BY <1>1 DEF IInv, Types, IsCalls, IsTasks, Elements
  <1>3. Tree(frame, task, Id(whole))' /\ Stacks(stack, frame, task, Id(whole))' /\ Fresh(frame, task, applied)'
        /\ Due(frame, task, applied, faulty)'
    BY <1>1 DEF IInv
  <1>4. Errors(frame, task, faulty, Thrown)' /\ Ended'
    BY <1>1 DEF IInv, Ended, Thrown
  <1> QED BY <1>2, <1>3, <1>4 DEF IInv

\* The calls form a tree of ranges, whatever the threads do.
THEOREM Invariance == Spec => []IInv
  <1>1. Init => IInv
    BY InitInv
  <1>2. IInv /\ [Next]_vars => IInv'
    <2> SUFFICES ASSUME IInv, [Next]_vars PROVE IInv'
      OBVIOUS
    <2>1. ASSUME NEW t \in Threads, Step(t) PROVE IInv'
      <3>1. CASE BeginLoop(t)
        BY <3>1, BeginLoopInv
      <3>2. CASE Apply(t)
        BY <3>2, ApplyInv
      <3>3. CASE Spawn(t)
        BY <3>3, SpawnInv
      <3>4. CASE SpawnThrows(t)
        BY <3>4, SpawnThrowsInv
      <3>5. CASE Recurse(t)
        BY <3>5, RecurseInv
      <3>6. CASE Join(t)
        BY <3>6, JoinInv
      <3>7. CASE Spin(t)
        BY <3>7, SpinInv
      <3>8. CASE Leave(t)
        BY <3>8, LeaveInv
      <3>9. CASE Take(t)
        BY <3>9, TakeInv
      <3>10. CASE Release(t)
        BY <3>10, ReleaseInv
      <3> QED BY <2>1, <3>1, <3>2, <3>3, <3>4, <3>5, <3>6, <3>7, <3>8, <3>9, <3>10 DEF Step
    <2>2. CASE UNCHANGED vars
      BY <2>2, StutterInv
    <2> QED BY <2>1, <2>2 DEF Next
  <1> QED BY <1>1, <1>2, PTL DEF Spec

\* A sequence of elements of a set.
LEMMA SeqOf ==
    ASSUME NEW s \in Seq(Ranges), NEW X, \A i \in 1..Len(s) : s[i] \in X
    PROVE  s \in Seq(X)
  <1>1. Len(s) \in Nat /\ s = [i \in 1..Len(s) |-> s[i]]
    BY LenProperties
  <1>2. s \in [1..Len(s) -> X]
    BY <1>1
  <1> QED BY <1>1, <1>2, SeqDef

\* Every variable has its type, and calls are parts of the range.
THEOREM TypeCorrect == Spec => []TypeOK
  <1>1. IInv => TypeOK
    <2> SUFFICES ASSUME IInv PROVE TypeOK
      OBVIOUS
    <2>1. Types /\ Given(frame, task, Id(whole)) /\ Stacks(stack, frame, task, Id(whole))
      BY InvGood DEF IInv, Good
    <2>2. Id(whole) \in Ranges /\ Id(whole)[1] = 1 /\ Id(whole)[2] = whole.end /\ 1 <= whole.end
          /\ whole.end \in Int
      <3>1. whole \in Parts /\ whole.first = 1
        BY <2>1 DEF Types
      <3>2. whole.end \in Int
        BY <3>1 DEF Parts, Partitioners
      <3> QED BY <3>1, <3>2, IdRange
    <2>3. \A x \in Ranges : Within(x, Id(whole)) /\ (Proper(x) \/ x = Id(whole)) => x \in Calls
      BY <2>2 DEF Ranges, Within, Proper, Calls
    <2>4. \A x \in Touched(frame, task) :
             x \in Ranges /\ Within(x, Id(whole)) /\ (Proper(x) \/ x = Id(whole))
      BY <2>1, TreeFacts DEF Touched, CallShape, TaskShape
    <2>5. DOMAIN frame \subseteq Calls /\ DOMAIN task \subseteq Calls
      BY <2>3, <2>4 DEF Touched
    <2>6. \A c \in DOMAIN frame :
             frame[c].pc \in {"split", "loop", "spawned", "rest", "join", "spin", "leave"}
      BY <2>1 DEF Types, IsCalls, Frames, Pcs
    <2>7. \A k \in DOMAIN task : task[k].state \in {"queued", "running"} \union Final
      BY <2>1 DEF Types, IsTasks, Locals
    <2>8. stack \in [Threads -> Seq(DOMAIN frame \union DOMAIN task)]
      <3>1. stack \in [Threads -> Seq(Ranges)]
        BY <2>1 DEF Types
      <3>2. \A t \in Threads : stack[t] \in Seq(DOMAIN frame \union DOMAIN task)
        <4>1. SUFFICES ASSUME NEW t \in Threads
                       PROVE  stack[t] \in Seq(DOMAIN frame \union DOMAIN task)
          OBVIOUS
        <4>2. stack[t] \in Seq(Ranges) /\ Len(stack[t]) \in Nat
          BY <3>1
        <4>3. ASSUME NEW i \in 1..Len(stack[t])
              PROVE  stack[t][i] \in DOMAIN frame \union DOMAIN task
          <5>1. On(stack, t, i, stack[t][i]) /\ stack[t][i] \in Ranges /\ i \in Nat
            BY <4>2, <4>3, ElementOfSeq DEF On
          <5>2. Placed(stack, frame, task, Id(whole), t, i, stack[t][i])
            BY <2>1, <5>1 DEF Stacks
          <5> QED BY <5>2 DEF Placed
        <4> QED BY <4>2, <4>3, SeqOf
      <3> QED BY <3>1, <3>2
    <2>9. moved \subseteq DOMAIN task /\ faulty \in BOOLEAN /\ answer.state \in {"none", "returned", "thrown"}
      BY <2>1 DEF Types
    <2> QED BY <2>5, <2>6, <2>7, <2>8, <2>9 DEF TypeOK
  <1> QED BY <1>1, Invariance, PTL

\* A local_task that the scheduler still refers to is in the frame of a call that
\* is in progress, and nothing runs when the algorithm has returned or thrown:
\* the destructor of local_task waits for both, on every path.
THEOREM NothingOutlives == Spec => []TasksInsideFrames
  <1>1. IInv => TasksInsideFrames
    BY DEF IInv, Tree, Covered, Waited, Parents, Ended, TasksInsideFrames
  <1> QED BY <1>1, Invariance, PTL

\* The algorithm throws if and only if a part of it has thrown, or was dropped.
THEOREM ErrorsReachTheCaller == Spec => []ErrorsSurface
  <1>1. IInv => ErrorsSurface
    BY DEF IInv, Errors, Ended, Thrown, ErrorsSurface
  <1> QED BY <1>1, Invariance, PTL

\* Nothing is applied twice, and a result is of everything.
EachOnce == \A i \in Elements(whole) :
                applied[i] <= 1 /\ (answer.state = "returned" => applied[i] = 1)

\* No element is passed to the function twice, though the function runs on any
\* thread and the parts are split while others run; and when the algorithm has
\* returned every element was.
THEOREM AppliedOnce == Spec => []EachOnce
  <1>1. IInv => EachOnce
    <2> SUFFICES ASSUME IInv, NEW i \in Elements(whole)
                 PROVE  applied[i] <= 1 /\ (answer.state = "returned" => applied[i] = 1)
      BY DEF EachOnce
    <2>1. Fresh(frame, task, applied) /\ Due(frame, task, applied, faulty) /\ i \in DOMAIN applied
      BY DEF IInv, Types
    <2>2. ASSUME answer.state = "returned" PROVE applied[i] = 1
      <3>1. DOMAIN frame = {} /\ \A k \in DOMAIN task : ~ task[k].held
        BY <2>2 DEF IInv, Ended
      <3>2. \A k \in DOMAIN task : task[k].state # "queued"
        BY <3>1 DEF IInv, Tree, Shapes, TaskShape, Final
      <3>3. ~ faulty
        BY <2>2, <3>1 DEF IInv, Errors, Thrown
      <3> QED BY <2>1, <3>1, <3>2, <3>3 DEF Due
    <2> QED BY <2>1, <2>2 DEF Fresh
  <1> QED BY <1>1, Invariance, PTL

-----------------------------------------------------------------------------
(* Numbers: the least number principle, from the order of the naturals being *)
(* well-founded, and the recursion of StaticChunks.                          *)

Less == OpToRel(<, Nat)

\* Pairs of naturals in order.
LEMMA LessPairs == \A x, y \in Nat : <<x, y>> \in Less <=> x < y
  BY DEF Less, OpToRel

\* A set of naturals that is not empty has a least element.
LEMMA LeastNumber ==
    ASSUME NEW X, X \subseteq Nat, X # {}
    PROVE  \E m \in X : \A k \in X : m <= k
  <1>1. IsWellFoundedOn(Less, Nat)
    BY NatLessThanWellFounded DEF Less
  <1>2. PICK m \in X : \A y \in X : ~ (<<y, m>> \in Less)
    BY <1>1, WFMin
  <1>3. \A k \in X : ~ (k < m)
    BY <1>2, LessPairs
  <1> QED BY <1>3

\* One step of the recursion of StaticChunks, with grain size g, and the
\* functions that follow it as far as m.
Chunk(h, n, g) == IF n <= 1 \/ n <= g THEN 1 ELSE h[(n + 1) \div 2] + h[n \div 2]
Follows(h, m, g) == \A n \in 0..m : h[n] = Chunk(h, n, g)

\* The recursion looks at smaller numbers only.
LEMMA ChunkBelow ==
    ASSUME NEW g, NEW h1, NEW h2, NEW n \in Nat, \A i \in Nat : i < n => h1[i] = h2[i]
    PROVE  Chunk(h1, n, g) = Chunk(h2, n, g)
  <1>1. CASE n <= 1 \/ n <= g
    BY <1>1 DEF Chunk
  <1>2. CASE ~ (n <= 1 \/ n <= g)
    <2>1. /\ (n + 1) \div 2 \in Nat /\ (n + 1) \div 2 < n
          /\ n \div 2 \in Nat /\ n \div 2 < n
      BY <1>2
    <2>2. h1[(n + 1) \div 2] = h2[(n + 1) \div 2] /\ h1[n \div 2] = h2[n \div 2]
      BY <2>1
    <2> QED BY <1>2, <2>2 DEF Chunk
  <1> QED BY <1>1, <1>2

\* As far as two functions follow it they are the same.
LEMMA FollowsAgree ==
    ASSUME NEW g, NEW m \in Nat, NEW l \in Nat, NEW h1, NEW h2, Follows(h1, m, g), Follows(h2, l, g)
    PROVE  \A n \in Nat : n <= m /\ n <= l => h1[n] = h2[n]
  <1> DEFINE X == {n \in Nat : n <= m /\ n <= l /\ h1[n] # h2[n]}
  <1>1. SUFFICES ASSUME X # {} PROVE FALSE
    OBVIOUS
  <1>2. X \subseteq Nat
    OBVIOUS
  <1>3. PICK n \in X : \A k \in X : n <= k
    <2> HIDE DEF X
    <2> QED BY <1>1, <1>2, LeastNumber
  <1>4. n \in Nat /\ n <= m /\ n <= l /\ h1[n] # h2[n]
    BY <1>3
  <1>5. \A i \in Nat : i < n => h1[i] = h2[i]
    BY <1>3, <1>4
  <1>6. Chunk(h1, n, g) = Chunk(h2, n, g)
    BY <1>4, <1>5, ChunkBelow
  <1>7. h1[n] = Chunk(h1, n, g) /\ h2[n] = Chunk(h2, n, g)
    BY <1>4 DEF Follows
  <1> QED BY <1>4, <1>6, <1>7

\* Some function follows it as far as any number.
LEMMA FollowsExists ==
    ASSUME NEW g, NEW m \in Nat
    PROVE  \E h : Follows(h, m, g)
  <1> DEFINE X == {n \in Nat : ~ \E h : Follows(h, n, g)}
  <1>1. SUFFICES ASSUME X # {} PROVE FALSE
    OBVIOUS
  <1>2. X \subseteq Nat
    OBVIOUS
  <1>3. PICK n \in X : \A k \in X : n <= k
    <2> HIDE DEF X
    <2> QED BY <1>1, <1>2, LeastNumber
  <1>4. n \in Nat /\ ~ \E h : Follows(h, n, g)
    BY <1>3
  <1>5. PICK f : \A i \in Nat : i < n => f[i] = Chunk(f, i, g)
    <2>1. CASE n = 0
      BY <2>1
    <2>2. CASE n # 0
      <3>1. n - 1 \in Nat /\ n - 1 \notin X
        BY <1>3, <1>4, <2>2
      <3>2. PICK f : Follows(f, n - 1, g)
        BY <3>1
      <3>3. \A i \in Nat : i < n => i \in 0..(n - 1)
        BY <1>4
      <3> QED BY <3>2, <3>3 DEF Follows
    <2> QED BY <2>1, <2>2
  <1>6. PICK h : h = [i \in 0..n |-> IF i < n THEN f[i] ELSE Chunk(f, n, g)]
    OBVIOUS
  <1>7. \A i \in Nat : i < n => h[i] = f[i]
    BY <1>4, <1>6
  <1>8. h[n] = Chunk(f, n, g)
    BY <1>4, <1>6
  <1>9. \A i \in 0..n : Chunk(h, i, g) = Chunk(f, i, g)
    <2>1. SUFFICES ASSUME NEW i \in 0..n PROVE Chunk(h, i, g) = Chunk(f, i, g)
      OBVIOUS
    <2>2. i \in Nat /\ \A j \in Nat : j < i => h[j] = f[j]
      BY <1>4, <1>7
    <2> QED BY <2>2, ChunkBelow
  <1>10. \A i \in 0..n : h[i] = Chunk(h, i, g)
    <2>1. SUFFICES ASSUME NEW i \in 0..n PROVE h[i] = Chunk(h, i, g)
      OBVIOUS
    <2>2. CASE i < n
      BY <1>4, <1>5, <1>7, <1>9, <2>2
    <2>3. CASE i = n
      BY <1>8, <1>9, <2>3
    <2> QED BY <1>4, <2>2, <2>3
  <1> QED BY <1>4, <1>10 DEF Follows

\* So does one function for all numbers.
LEMMA ChunksExist ==
    ASSUME NEW g
    PROVE  \E G : G = [n \in Nat |-> Chunk(G, n, g)]
  <1> DEFINE H(n) == CHOOSE h : Follows(h, n, g)
  <1>1. \A n \in Nat : Follows(H(n), n, g)
    BY FollowsExists
  <1> HIDE DEF H
  <1>2. PICK G : G = [n \in Nat |-> H(n)[n]]
    OBVIOUS
  <1>3. \A n \in Nat : G[n] = Chunk(G, n, g)
    <2>1. SUFFICES ASSUME NEW n \in Nat PROVE G[n] = Chunk(G, n, g)
      OBVIOUS
    <2>2. G[n] = Chunk(H(n), n, g)
      BY <1>1, <1>2 DEF Follows
    <2>3. \A i \in Nat : i < n => H(n)[i] = G[i]
      <3>1. SUFFICES ASSUME NEW i \in Nat, i < n PROVE H(n)[i] = H(i)[i]
        BY <1>2
      <3>2. Follows(H(n), n, g) /\ Follows(H(i), i, g) /\ i <= n /\ i <= i
        BY <1>1, <3>1
      <3> QED BY <3>2, FollowsAgree
    <2>4. Chunk(H(n), n, g) = Chunk(G, n, g)
      BY <2>3, ChunkBelow
    <2> QED BY <2>2, <2>4
  <1>4. G = [n \in Nat |-> Chunk(G, n, g)]
    BY <1>2, <1>3
  <1> QED BY <1>4

\* StaticChunks is what its definition says, for every number of elements.
LEMMA StaticChunksDef == \A n \in Nat : StaticChunks[n] = Chunk(StaticChunks, n, whole.grain)
  <1> DEFINE P(h) == h = [n \in Nat |-> Chunk(h, n, whole.grain)]
  <1>1. StaticChunks = CHOOSE h : P(h)
    BY DEF StaticChunks, Chunk
  <1>2. \E h : P(h)
    BY ChunksExist
  <1>3. P(StaticChunks)
    <2> HIDE DEF P
    <2> QED BY <1>1, <1>2
  <1> QED BY <1>3

-----------------------------------------------------------------------------
(* Values. *)

\* The uses of the initial value can be counted.
LEMMA InitialsFinite ==
    ASSUME NEW v \in Seq(Int)
    PROVE  IsFiniteSet(Initials(v)) /\ Count(v) \in Nat /\ Initials(v) \subseteq 1..Len(v)
  <1>1. Len(v) \in Nat /\ DOMAIN v = 1..Len(v)
    BY LenProperties
  <1>2. Initials(v) \in SUBSET (1..Len(v))
    BY <1>1 DEF Initials
  <1>3. IsFiniteSet(1..Len(v))
    BY <1>1, FS_Interval
  <1>4. IsFiniteSet(Initials(v))
    BY <1>2, <1>3, FS_Subset
  <1> QED BY <1>2, <1>4, FS_CardinalityType DEF Count

\* The value of a range without elements.
LEMMA EmptyValue ==
    ASSUME NEW a \in Int
    PROVE  Spells(<<Initial>>, a, a) /\ Count(<<Initial>>) = 1
  <1>1. PICK v : v = <<Initial>>
    OBVIOUS
  <1>2. v \in Seq(Int) /\ Len(v) = 1 /\ DOMAIN v = 1..1 /\ v[1] = Initial
    BY <1>1 DEF Initial
  <1>3. \A i : i \in 1..1 <=> i = 1
    OBVIOUS
  <1>4. Initials(v) = {1}
    BY <1>2, <1>3 DEF Initials
  <1>5. Count(v) = 1
    BY <1>4, FS_Singleton DEF Count
  <1>6. {v[i] : i \in DOMAIN v} \ {Initial} = {}
    BY <1>2, <1>3
  <1>7. a .. (a - 1) = {}
    OBVIOUS
  <1>8. InOrder(v)
    BY <1>2, <1>3 DEF InOrder
  <1> QED BY <1>1, <1>2, <1>5, <1>6, <1>7, <1>8, EmptySeq DEF Spells

\* The entries of two sequences one after the other.
LEMMA JoinedEntries ==
    ASSUME NEW u \in Seq(Int), NEW v \in Seq(Int), NEW n \in Nat, n = Len(u), NEW m \in Nat, m = Len(v)
    PROVE  /\ u \o v \in Seq(Int) /\ DOMAIN (u \o v) = 1..(n + m)
           /\ DOMAIN u = 1..n /\ DOMAIN v = 1..m
           /\ \A i \in 1..n : (u \o v)[i] = u[i]
           /\ \A i \in 1..m : (u \o v)[n + i] = v[i]
  <1>1. /\ u \o v \in Seq(Int) /\ Len(u \o v) = n + m
        /\ \A i \in 1..(n + m) : (u \o v)[i] = IF i <= n THEN u[i] ELSE v[i - n]
    BY ConcatProperties
  <1>2. DOMAIN (u \o v) = 1..(n + m) /\ DOMAIN u = 1..n /\ DOMAIN v = 1..m
    BY <1>1, LenProperties
  <1>3. \A i \in 1..n : (u \o v)[i] = u[i]
    BY <1>1
  <1>4. \A i \in 1..m : (u \o v)[n + i] = v[i]
    <2>1. SUFFICES ASSUME NEW i \in 1..m PROVE (u \o v)[n + i] = v[i]
      OBVIOUS
    <2>2. n + i \in 1..(n + m) /\ ~ (n + i <= n) /\ (n + i) - n = i
      OBVIOUS
    <2> QED BY <1>1, <2>2
  <1> QED BY <1>1, <1>2, <1>3, <1>4

\* The initial value is used in both, as often as in each.
LEMMA CountJoined ==
    ASSUME NEW u \in Seq(Int), NEW v \in Seq(Int)
    PROVE  Count(u \o v) = Count(u) + Count(v)
  <1>1. PICK n \in Nat : n = Len(u)
    BY LenProperties
  <1>2. PICK m \in Nat : m = Len(v)
    BY LenProperties
  <1>3. PICK z : z = u \o v
    OBVIOUS
  <1>4. /\ z \in Seq(Int) /\ DOMAIN z = 1..(n + m) /\ DOMAIN u = 1..n /\ DOMAIN v = 1..m
        /\ \A i \in 1..n : z[i] = u[i]
        /\ \A i \in 1..m : z[n + i] = v[i]
    BY <1>1, <1>2, <1>3, JoinedEntries
  <1>5. PICK X : X = Initials(u)
    OBVIOUS
  <1>6. PICK Y : Y = Initials(v)
    OBVIOUS
  <1>7. PICK Z : Z = {j \in (n + 1)..(n + m) : j - n \in Y}
    OBVIOUS
  <1>8. /\ X \subseteq 1..n /\ Y \subseteq 1..m
        /\ \A i \in 1..n : i \in X <=> u[i] = Initial
        /\ \A i \in 1..m : i \in Y <=> v[i] = Initial
    BY <1>4, <1>5, <1>6 DEF Initials
  <1>9. Initials(z) = X \union Z
    <2>1. ASSUME NEW j \in 1..(n + m) PROVE z[j] = Initial <=> j \in X \union Z
      <3>1. CASE j <= n
        <4>1. j \in 1..n /\ j \notin Z
          BY <1>7, <3>1
        <4> QED BY <1>4, <1>8, <4>1
      <3>2. CASE ~ (j <= n)
        <4>1. j - n \in 1..m /\ n + (j - n) = j /\ j \in (n + 1)..(n + m) /\ j \notin X
          BY <1>8, <3>2
        <4> QED BY <1>4, <1>7, <1>8, <4>1
      <3> QED BY <3>1, <3>2
    <2>2. X \union Z \subseteq 1..(n + m)
      <3>1. X \subseteq 1..(n + m)
        BY <1>8
      <3>2. Z \subseteq 1..(n + m)
        BY <1>7
      <3> QED BY <3>1, <3>2
    <2> QED BY <1>4, <2>1, <2>2 DEF Initials
  <1>10. X \intersect Z = {}
    BY <1>7, <1>8
  <1>11. IsFiniteSet(X) /\ IsFiniteSet(Y) /\ Cardinality(X) \in Nat
    BY <1>5, <1>6, InitialsFinite DEF Count
  <1>12. IsFiniteSet(Z) /\ Cardinality(Z) = Cardinality(Y)
    <2>1. PICK f : f = [i \in Y |-> n + i]
      OBVIOUS
    <2>2. f \in [Y -> Z]
      BY <1>7, <1>8, <2>1
    <2>3. \A i, j \in Y : f[i] = f[j] => i = j
      BY <1>8, <2>1
    <2>4. \A j \in Z : \E i \in Y : f[i] = j
      <3>1. SUFFICES ASSUME NEW j \in Z PROVE \E i \in Y : f[i] = j
        OBVIOUS
      <3>2. j - n \in Y /\ n + (j - n) = j
        BY <1>7, <3>1
      <3> QED BY <2>1, <3>2
    <2>5. ExistsBijection(Y, Z)
      BY <2>2, <2>3, <2>4 DEF ExistsBijection, Bijection, Injection, Surjection, IsInjective
    <2> QED BY <1>11, <2>5, FS_Bijection
  <1>13. Cardinality(X \union Z) = Cardinality(X) + Cardinality(Z) - Cardinality(X \intersect Z)
    BY <1>11, <1>12, FS_Union
  <1>14. Cardinality(X \intersect Z) = 0
    BY <1>10, FS_EmptySet
  <1>15. Cardinality(Y) \in Nat
    BY <1>11, FS_CardinalityType
  <1>16. Cardinality(X \union Z) = Cardinality(X) + Cardinality(Y)
    BY <1>11, <1>12, <1>13, <1>14, <1>15
  <1> QED BY <1>3, <1>5, <1>6, <1>9, <1>16 DEF Count

\* Values of adjoining ranges, one after the other, are the value of both.
LEMMA SpellsJoined ==
    ASSUME NEW a \in Int, NEW b \in Int, NEW c \in Int, a <= b, b <= c,
           NEW u, NEW v, Spells(u, a, b), Spells(v, b, c)
    PROVE  Spells(u \o v, a, c)
  <1>1. /\ u \in Seq(Int) /\ v \in Seq(Int) /\ u # <<>> /\ u[1] = Initial /\ InOrder(u) /\ InOrder(v)
        /\ {u[i] : i \in DOMAIN u} \ {Initial} = a .. (b - 1)
        /\ {v[i] : i \in DOMAIN v} \ {Initial} = b .. (c - 1)
    BY DEF Spells
  <1>2. PICK n \in Nat : n = Len(u) /\ n >= 1
    BY <1>1, LenProperties, EmptySeq
  <1>3. PICK m \in Nat : m = Len(v)
    BY <1>1, LenProperties
  <1>4. PICK z : z = u \o v
    OBVIOUS
  <1>5. /\ z \in Seq(Int) /\ DOMAIN z = 1..(n + m) /\ DOMAIN u = 1..n /\ DOMAIN v = 1..m
        /\ \A i \in 1..n : z[i] = u[i]
        /\ \A i \in 1..m : z[n + i] = v[i]
    BY <1>1, <1>2, <1>3, <1>4, JoinedEntries
  <1>6. z[1] = Initial /\ z # <<>>
    <2>1. 1 \in 1..n /\ 1 \in DOMAIN z /\ DOMAIN <<>> = {}
      BY <1>2, <1>5
    <2> QED BY <1>1, <1>5, <2>1
  <1>7. \A i \in 1..n : z[i] # Initial => u[i] = z[i] /\ z[i] \in a .. (b - 1)
    BY <1>1, <1>5
  <1>8. \A j \in 1..(n + m) : j > n => j - n \in 1..m /\ z[j] = v[j - n]
    <2>1. SUFFICES ASSUME NEW j \in 1..(n + m), j > n PROVE j - n \in 1..m /\ z[j] = v[j - n]
      OBVIOUS
    <2>2. j - n \in 1..m /\ n + (j - n) = j
      BY <2>1
    <2> QED BY <1>5, <2>2
  <1>9. \A j \in 1..(n + m) : j > n /\ z[j] # Initial => z[j] \in b .. (c - 1)
    <2>1. SUFFICES ASSUME NEW j \in 1..(n + m), j > n, z[j] # Initial PROVE z[j] \in b .. (c - 1)
      OBVIOUS
    <2>2. PICK i \in 1..m : v[i] = z[j]
      BY <1>8, <2>1
    <2>3. z[j] \in {v[h] : h \in 1..m} \ {Initial}
      BY <2>1, <2>2
    <2> QED BY <1>1, <1>5, <2>3
  <1>10. \A i, j \in 1..n : i < j /\ u[i] # Initial /\ u[j] # Initial => u[i] < u[j]
    BY <1>1, <1>5 DEF InOrder
  <1>11. \A i, j \in 1..m : i < j /\ v[i] # Initial /\ v[j] # Initial => v[i] < v[j]
    BY <1>1, <1>5 DEF InOrder
  <1>12. InOrder(z)
    <2>1. SUFFICES ASSUME NEW i \in 1..(n + m), NEW j \in 1..(n + m), i < j, z[i] # Initial, z[j] # Initial
                   PROVE  z[i] < z[j]
      BY <1>5 DEF InOrder
    <2>2. CASE j <= n
      <3>1. i \in 1..n /\ j \in 1..n
        BY <2>1, <2>2
      <3>2. z[i] = u[i] /\ z[j] = u[j]
        BY <1>5, <3>1
      <3> QED BY <1>10, <2>1, <3>1, <3>2
    <2>3. CASE i > n
      <3>1. i - n \in 1..m /\ j - n \in 1..m /\ z[i] = v[i - n] /\ z[j] = v[j - n] /\ i - n < j - n
        BY <1>8, <2>1, <2>3
      <3> QED BY <1>11, <2>1, <3>1
    <2>4. CASE i <= n /\ j > n
      <3>1. z[i] \in a .. (b - 1) /\ z[j] \in b .. (c - 1)
        BY <1>7, <1>9, <2>1, <2>4
      <3> QED BY <3>1
    <2> QED BY <2>2, <2>3, <2>4
  <1>13. {z[i] : i \in DOMAIN z} \ {Initial} = a .. (c - 1)
    <2>1. ASSUME NEW j \in 1..(n + m), z[j] # Initial PROVE z[j] \in a .. (c - 1)
      <3>1. CASE j <= n
        <4>1. z[j] \in a .. (b - 1)
          BY <1>7, <2>1, <3>1
        <4> QED BY <4>1
      <3>2. CASE j > n
        <4>1. z[j] \in b .. (c - 1)
          BY <1>9, <2>1, <3>2
        <4> QED BY <4>1
      <3> QED BY <3>1, <3>2
    <2>2. ASSUME NEW x \in a .. (c - 1) PROVE x # Initial /\ \E j \in 1..(n + m) : z[j] = x
      <3>1. CASE x < b
        <4>1. x \in a .. (b - 1)
          BY <3>1
        <4>2. x \in {u[i] : i \in 1..n} /\ x # Initial
          BY <1>1, <1>5, <4>1
        <4> QED BY <1>5, <4>2
      <3>2. CASE x >= b
        <4>1. x \in b .. (c - 1)
          BY <3>2
        <4>2. x \in {v[i] : i \in 1..m} /\ x # Initial
          BY <1>1, <1>5, <4>1
        <4>3. PICK i \in 1..m : v[i] = x
          BY <4>2
        <4>4. n + i \in 1..(n + m) /\ z[n + i] = x
          BY <1>5, <4>3
        <4> QED BY <4>2, <4>4
      <3> QED BY <3>1, <3>2
    <2>3. {z[i] : i \in 1..(n + m)} \ {Initial} = a .. (c - 1)
      BY <2>1, <2>2
    <2> QED BY <1>5, <2>3
  <1>14. Spells(z, a, c)
    BY <1>5, <1>6, <1>12, <1>13 DEF Spells
  <1> QED BY <1>4, <1>14

\* One more element, at the end.
LEMMA SpellsOneMore ==
    ASSUME NEW a \in Int, NEW i \in Int, a <= i, i # Initial, NEW v, Spells(v, a, i)
    PROVE  Spells(Append(v, i), a, i + 1) /\ Count(Append(v, i)) = Count(v)
  <1>1. /\ v \in Seq(Int) /\ v # <<>> /\ v[1] = Initial /\ InOrder(v)
        /\ {v[j] : j \in DOMAIN v} \ {Initial} = a .. (i - 1)
    BY DEF Spells
  <1>2. PICK n \in Nat : n = Len(v) /\ n >= 1 /\ DOMAIN v = 1..n
    BY <1>1, LenProperties, EmptySeq
  <1>3. PICK z : z = Append(v, i)
    OBVIOUS
  <1>4. /\ z \in Seq(Int) /\ DOMAIN z = 1..(n + 1) /\ z[n + 1] = i
        /\ \A j \in 1..n : z[j] = v[j]
    <2>1. z \in Seq(Int) /\ Len(z) = n + 1 /\ z[n + 1] = i /\ \A j \in 1..n : z[j] = v[j]
      BY <1>1, <1>2, <1>3, AppendProperties
    <2> QED BY <2>1, LenProperties
  <1>5. \A j \in 1..(n + 1) : j \in 1..n \/ j = n + 1
    OBVIOUS
  <1>6. z[1] = Initial /\ z # <<>>
    <2>1. 1 \in 1..n /\ 1 \in DOMAIN z /\ DOMAIN <<>> = {}
      BY <1>2, <1>4
    <2> QED BY <1>1, <1>4, <2>1
  <1>7. InOrder(z)
    <2>1. SUFFICES ASSUME NEW j \in 1..(n + 1), NEW k \in 1..(n + 1), j < k, z[j] # Initial, z[k] # Initial
                   PROVE  z[j] < z[k]
      BY <1>4 DEF InOrder
    <2>2. j \in 1..n
      BY <2>1
    <2>3. z[j] = v[j] /\ v[j] \in a .. (i - 1)
      BY <1>1, <1>2, <1>4, <2>1, <2>2
    <2>4. CASE k \in 1..n
      BY <1>1, <1>2, <1>4, <2>1, <2>2, <2>4 DEF InOrder
    <2>5. CASE k = n + 1
      BY <1>4, <2>3, <2>5
    <2> QED BY <1>5, <2>4, <2>5
  <1>8. {z[j] : j \in DOMAIN z} = {v[j] : j \in DOMAIN v} \union {i}
    <2>1. 1..(n + 1) = (1..n) \union {n + 1}
      OBVIOUS
    <2> QED BY <1>2, <1>4, <2>1
  <1>9. (a .. (i - 1)) \union {i} = a .. ((i + 1) - 1)
    OBVIOUS
  <1>10. {z[j] : j \in DOMAIN z} \ {Initial} = a .. ((i + 1) - 1)
    BY <1>1, <1>8, <1>9
  <1>11. Initials(z) = Initials(v)
    <2>1. 1..(n + 1) = (1..n) \union {n + 1}
      OBVIOUS
    <2> QED BY <1>2, <1>4, <2>1 DEF Initials
  <1> QED BY <1>3, <1>4, <1>6, <1>7, <1>10, <1>11 DEF Spells, Count

-----------------------------------------------------------------------------
(* Chunks. *)

Movable(M) == IsFiniteSet(M) /\ \A k \in M : k \in Ranges /\ Proper(k)

\* More tasks in all, more tasks in a range.
LEMMA MovedMore ==
    ASSUME NEW M, NEW M1, Movable(M1), M \subseteq M1, NEW x
    PROVE  MovedIn(x, M) \in Nat /\ MovedIn(x, M1) \in Nat /\ MovedIn(x, M) <= MovedIn(x, M1)
  <1>1. PICK X : X = {k \in M : Within(k, x)}
    OBVIOUS
  <1>2. PICK Y : Y = {k \in M1 : Within(k, x)}
    OBVIOUS
  <1>3. X \in SUBSET Y /\ Y \in SUBSET M1 /\ IsFiniteSet(M1)
    BY <1>1, <1>2 DEF Movable
  <1>4. IsFiniteSet(Y)
    BY <1>3, FS_Subset
  <1>5. IsFiniteSet(X) /\ Cardinality(X) <= Cardinality(Y)
    BY <1>3, <1>4, FS_Subset
  <1>6. Cardinality(X) \in Nat /\ Cardinality(Y) \in Nat
    BY <1>4, <1>5, FS_CardinalityType
  <1> QED BY <1>1, <1>2, <1>5, <1>6 DEF MovedIn

\* The tasks that moved in the two parts of a range, and the range itself.
LEMMA MovedParts ==
    ASSUME NEW M, Movable(M), NEW c \in Ranges, NEW x \in Ranges, NEW y \in Ranges, InTwo(c, x, y)
    PROVE  \E d \in {0, 1} : /\ c \in M => d = 1
                             /\ MovedIn(x, M) + MovedIn(y, M) + d <= MovedIn(c, M)
  <1>1. PICK X : X = {k \in M : Within(k, x)}
    OBVIOUS
  <1>2. PICK Y : Y = {k \in M : Within(k, y)}
    OBVIOUS
  <1>3. PICK C : C = {k \in M : Within(k, c)}
    OBVIOUS
  <1>4. /\ X \in SUBSET M /\ Y \in SUBSET M /\ C \in SUBSET M /\ IsFiniteSet(M)
        /\ \A k \in M : k \in Ranges /\ Proper(k)
    BY <1>1, <1>2, <1>3 DEF Movable
  <1>5. IsFiniteSet(X) /\ IsFiniteSet(Y) /\ IsFiniteSet(C)
    BY <1>4, FS_Subset
  <1>6. Cardinality(X) \in Nat /\ Cardinality(Y) \in Nat /\ Cardinality(C) \in Nat
    BY <1>5, FS_CardinalityType
  <1>7. X \intersect Y = {}
    <2>1. \A k \in Ranges : Within(k, x) /\ Within(k, y) => ~ Proper(k)
      BY DEF Ranges, Within, InTwo, Proper
    <2> QED BY <1>1, <1>2, <1>4, <2>1
  <1>8. PICK U : U = X \union Y
    OBVIOUS
  <1>9. IsFiniteSet(U) /\ Cardinality(U) = Cardinality(X) + Cardinality(Y)
    <2>1. IsFiniteSet(U) /\ Cardinality(U) = Cardinality(X) + Cardinality(Y) - Cardinality(X \intersect Y)
      BY <1>5, <1>8, FS_Union
    <2>2. Cardinality(X \intersect Y) = 0
      BY <1>7, FS_EmptySet
    <2> QED BY <1>6, <2>1, <2>2
  <1>10. \A k \in Ranges : Within(k, x) \/ Within(k, y) => Within(k, c) /\ k # c
    BY DEF Ranges, Within, InTwo, Proper
  <1>11. U \subseteq C /\ c \notin U
    BY <1>1, <1>2, <1>3, <1>4, <1>8, <1>10
  <1>12. CASE c \in M
    <2>1. c \in C
      BY <1>3, <1>12 DEF Within, Ranges
    <2>2. IsFiniteSet(U \union {c}) /\ Cardinality(U \union {c}) = Cardinality(U) + 1
      BY <1>9, <1>11, FS_AddElement
    <2>3. U \union {c} \in SUBSET C
      BY <1>11, <2>1
    <2>4. Cardinality(U \union {c}) <= Cardinality(C)
      BY <1>5, <2>3, FS_Subset
    <2>5. Cardinality(X) + Cardinality(Y) + 1 <= Cardinality(C)
      BY <1>6, <1>9, <2>2, <2>4
    <2> QED BY <1>1, <1>2, <1>3, <2>5 DEF MovedIn
  <1>13. CASE c \notin M
    <2>1. U \in SUBSET C
      BY <1>11
    <2>2. Cardinality(U) <= Cardinality(C)
      BY <1>5, <2>1, FS_Subset
    <2>3. Cardinality(X) + Cardinality(Y) + 0 <= Cardinality(C)
      BY <1>6, <1>9, <2>2
    <2> QED BY <1>1, <1>2, <1>3, <1>13, <2>3 DEF MovedIn
  <1> QED BY <1>12, <1>13

\* Multiplied by the threads a moved task may bring.
LEMMA Scaled ==
    ASSUME NEW h \in Nat, NEW p \in Nat, NEW q \in Nat, NEW m \in Nat, NEW d \in {0, 1}, p + q + d <= m
    PROVE  /\ h * p + h * q + h * d <= h * m
           /\ h * p \in Nat /\ h * q \in Nat /\ h * m \in Nat
           /\ h * d = IF d = 1 THEN h ELSE 0
  <1>1. PICK l \in Nat : m = p + q + d + l
    <2>1. m - (p + q + d) \in Nat /\ m = p + q + d + (m - (p + q + d))
      OBVIOUS
    <2> QED BY <2>1
  <1>2. h * m = h * p + h * q + h * d + h * l
    BY <1>1
  <1>3. h * p \in Nat /\ h * q \in Nat /\ h * m \in Nat /\ h * l \in Nat
    OBVIOUS
  <1>4. h * d = IF d = 1 THEN h ELSE 0
    OBVIOUS
  <1> QED BY <1>2, <1>3, <1>4

\* The value of a range that is not split.
LEMMA UnsplitWorth ==
    ASSUME NEW M, Movable(M), NEW r, NEW c \in Ranges, NEW n \in Nat, NEW v,
           Spells(v, c[1], c[2]), Count(v) = 1, Unsplit(c, n, M, r),
           r.split = "auto" => n \in 1..HardwareConcurrency
    PROVE  Worth(v, c, n, M, r)
  <1>1. ASSUME r.split = "auto" PROVE Allowed(v, c, n, M, r)
    <2>1. PICK h \in Nat : h = HardwareConcurrency - 1
      BY HardwareAssumption
    <2>2. PICK m \in Nat : m = MovedIn(c, M)
      BY MovedMore
    <2>3. h * m \in Nat /\ n >= 1
      BY <1>1
    <2>4. Count(v) <= n + (HardwareConcurrency - 1) * MovedIn(c, M)
      BY <2>1, <2>2, <2>3
    <2>5. r.grain = 1 => Count(v) >= n \/ Count(v) >= Size(c)
      <3>1. Size(c) \in Int
        BY DEF Size, Ranges
      <3>2. Effective(c, n, M, r) <= 1 => n <= 1
        BY <1>1, HardwareAssumption DEF Effective
      <3> QED BY <1>1, <3>1, <3>2 DEF Unsplit
    <2> QED BY <2>4, <2>5 DEF Allowed
  <1> QED BY <1>1 DEF Worth, Unsplit

\* The chunks of both parts are what is allowed for the whole.
LEMMA JoinedAllowed ==
    ASSUME NEW M, Movable(M), NEW r, r.split = "auto",
           NEW c \in Ranges, NEW x \in Ranges, NEW y \in Ranges, InTwo(c, x, y),
           NEW a \in Nat, NEW b \in Nat, NEW n \in 1..HardwareConcurrency,
           c = r.whole => n = HardwareConcurrency, Divided(c, x, y, a, b, n, M, r),
           NEW u \in Seq(Int), NEW v \in Seq(Int), Allowed(u, x, a, M, r), Allowed(v, y, b, M, r)
    PROVE  Allowed(u \o v, c, n, M, r)
  <1>1. PICK h \in Nat : h = HardwareConcurrency - 1
    BY HardwareAssumption
  <1>2. PICK e \in Nat : e = Effective(c, n, M, r)
    BY HardwareAssumption DEF Effective
  <1>3. b >= 1 /\ a \in {b, b + 1} /\ a + b = e /\ Size(x) \in {Size(y), Size(y) + 1}
    BY <1>2 DEF Divided
  <1>4. PICK i \in Nat : i = Count(u)
    BY InitialsFinite
  <1>5. PICK j \in Nat : j = Count(v)
    BY InitialsFinite
  <1>6. Count(u \o v) = i + j
    BY <1>4, <1>5, CountJoined
  <1>7. PICK p \in Nat : p = MovedIn(x, M)
    BY MovedMore
  <1>8. PICK q \in Nat : q = MovedIn(y, M)
    BY MovedMore
  <1>9. PICK m \in Nat : m = MovedIn(c, M)
    BY MovedMore
  <1>10. PICK d \in {0, 1} : (c \in M => d = 1) /\ p + q + d <= m
    BY <1>7, <1>8, <1>9, MovedParts
  <1>11. i <= a + h * p /\ j <= b + h * q
    BY <1>1, <1>4, <1>5, <1>7, <1>8 DEF Allowed
  <1>12. i + j <= n + h * m
    <2>1. /\ h * p + h * q + h * d <= h * m
          /\ h * p \in Nat /\ h * q \in Nat /\ h * m \in Nat
          /\ h * d = IF d = 1 THEN h ELSE 0
      BY <1>10, Scaled
    <2>2. PICK hp \in Nat : hp = h * p
      BY <2>1
    <2>3. PICK hq \in Nat : hq = h * q
      BY <2>1
    <2>4. PICK hm \in Nat : hm = h * m
      BY <2>1
    <2>5. hp + hq + (IF d = 1 THEN h ELSE 0) <= hm
      BY <2>1, <2>2, <2>3, <2>4
    <2>6. e = n \/ (e <= n + h /\ d = 1)
      BY <1>1, <1>2, <1>10 DEF Effective
    <2>7. i + j <= n + hm
      BY <1>3, <1>11, <2>2, <2>3, <2>5, <2>6
    <2> QED BY <2>4, <2>7
  <1>13. r.grain = 1 => i + j >= n \/ i + j >= Size(c)
    <2>1. SUFFICES ASSUME r.grain = 1 PROVE i + j >= n \/ i + j >= Size(c)
      OBVIOUS
    <2>2. (i >= a \/ i >= Size(x)) /\ (j >= b \/ j >= Size(y))
      BY <1>4, <1>5, <2>1 DEF Allowed
    <2>3. Size(c) = Size(x) + Size(y) /\ Size(x) \in Int /\ Size(y) \in Int
      BY DEF Size, InTwo, Ranges
    <2>4. e >= n
      BY <1>2, HardwareAssumption DEF Effective
    <2> QED BY <1>3, <2>2, <2>3, <2>4
  <1> QED BY <1>1, <1>6, <1>9, <1>12, <1>13 DEF Allowed

\* The values of the two parts of a range make the value of the range.
LEMMA JoinedWorth ==
    ASSUME NEW M, Movable(M), NEW r, NEW c \in Ranges, NEW x \in Ranges, NEW y \in Ranges, InTwo(c, x, y),
           NEW a \in Nat, NEW b \in Nat, NEW n \in Nat,
           r.split = "auto" => n \in 1..HardwareConcurrency,
           c = r.whole => n = HardwareConcurrency, Divided(c, x, y, a, b, n, M, r),
           NEW u, NEW v, Worth(u, x, a, M, r), Worth(v, y, b, M, r)
    PROVE  Worth(u \o v, c, n, M, r)
  <1>1. Spells(u, x[1], x[2]) /\ Spells(v, y[1], y[2]) /\ u \in Seq(Int) /\ v \in Seq(Int)
    BY DEF Worth, Spells
  <1>2. x[1] = c[1] /\ x[2] = y[1] /\ y[2] = c[2] /\ x[1] <= x[2] /\ y[1] <= y[2]
        /\ x[1] \in Int /\ x[2] \in Int /\ y[2] \in Int
    BY DEF InTwo, Proper, Ranges
  <1>3. Spells(u \o v, c[1], c[2])
    BY <1>1, <1>2, SpellsJoined
  <1>4. r.split = "static" => Count(u \o v) = r.chunks[Size(c)]
    BY <1>1, CountJoined DEF Worth, Divided
  <1>5. r.split = "auto" => Allowed(u \o v, c, n, M, r)
    BY <1>1, JoinedAllowed DEF Worth
  <1> QED BY <1>3, <1>4, <1>5 DEF Worth

\* A value stays right when more tasks move.
LEMMA WorthStays ==
    ASSUME NEW M, NEW M1, Movable(M1), M \subseteq M1, NEW r, NEW x, NEW n \in Nat, NEW v, Worth(v, x, n, M, r)
    PROVE  Worth(v, x, n, M1, r)
  <1>1. ASSUME r.split = "auto" PROVE Allowed(v, x, n, M1, r)
    <2>1. PICK h \in Nat : h = HardwareConcurrency - 1
      BY HardwareAssumption
    <2>2. PICK p \in Nat : p = MovedIn(x, M)
      BY MovedMore
    <2>3. PICK m \in Nat : m = MovedIn(x, M1) /\ p <= m
      BY <2>2, MovedMore
    <2>4. PICK i \in Nat : i = Count(v)
      BY InitialsFinite DEF Worth, Spells
    <2>5. i <= n + h * p
      BY <1>1, <2>1, <2>2, <2>4 DEF Worth, Allowed
    <2>6. h * p + h * 0 + h * 0 <= h * m /\ h * p \in Nat /\ h * m \in Nat
      BY <2>3, Scaled
    <2>7. i <= n + h * m
      BY <2>5, <2>6
    <2> QED BY <1>1, <2>1, <2>3, <2>4, <2>7 DEF Worth, Allowed
  <1> QED BY <1>1 DEF Worth

-----------------------------------------------------------------------------
(* Splits and chunks. *)

\* The parts of a range that is cut.
LEMMA CutParts ==
    ASSUME NEW Ids, NEW p \in Partitioners(Ids), NEW i \in Int
    PROVE  /\ Cut(p, i).rest.grain = p.grain /\ Cut(p, i).sub.grain = p.grain
           /\ Cut(p, i).rest.threads = p.threads /\ Cut(p, i).sub.threads = p.threads
           /\ Size(Id(Cut(p, i).rest)) = i - p.first /\ Size(Id(Cut(p, i).sub)) = p.end - i
           /\ Length(Cut(p, i).sub) = p.end - i
  <1>1. PICK x : x = Cut(p, i).rest
    OBVIOUS
  <1>2. PICK y : y = Cut(p, i).sub
    OBVIOUS
  <1>3. x = [p EXCEPT !.end = i] /\ y = [p EXCEPT !.first = i]
    BY <1>1, <1>2 DEF Cut
  <1>4. /\ x.first = p.first /\ x.end = i /\ x.grain = p.grain /\ x.threads = p.threads
        /\ y.first = i /\ y.end = p.end /\ y.grain = p.grain /\ y.threads = p.threads
    BY <1>3 DEF Partitioners
  <1> QED BY <1>1, <1>2, <1>4 DEF Size, Id, Length

\* What static_partitioner and parallel_invoke do to the grain size and the
\* threads, and the halves of static_partitioner.
LEMMA StaticHalves ==
    ASSUME NEW Ids, NEW p \in Partitioners(Ids)
    PROVE  /\ static_split(p).rest.grain = p.grain /\ static_split(p).sub.grain = p.grain
           /\ static_split(p).rest.threads = p.threads
           /\ Length(static_split(p).sub) # 0 =>
                 /\ static_split(p).sub.threads = p.threads
                 /\ Length(p) > p.grain /\ Length(p) >= 2
                 /\ Size(Id(static_split(p).rest)) = (Length(p) + 1) \div 2
                 /\ Size(Id(static_split(p).sub)) = Length(p) \div 2
           /\ Length(p) > p.grain /\ Length(p) >= 2 => Length(static_split(p).sub) # 0
  <1>1. p.first \in Int /\ p.end \in Int /\ p.grain \in Nat /\ p.first <= p.end
    BY DEF Partitioners
  <1>2. PICK n \in Nat : n = Length(p) /\ n = p.end - p.first
    BY <1>1 DEF Length
  <1>3. PICK s : s = static_split(p)
    OBVIOUS
  <1>4. CASE n <= p.grain
    <2>1. s = Whole(p)
      BY <1>2, <1>3, <1>4 DEF static_split
    <2>2. s.rest = p /\ s.sub = NewPartitioner(p.end, p.end, p.grain)
      BY <2>1 DEF Whole
    <2>3. s.sub.grain = p.grain /\ s.sub.first = p.end /\ s.sub.end = p.end
      BY <2>2 DEF NewPartitioner
    <2>4. Length(s.sub) = 0
      BY <1>1, <2>3 DEF Length
    <2> QED BY <1>1, <1>2, <1>3, <1>4, <2>2, <2>3, <2>4
  <1>5. CASE ~ (n <= p.grain)
    <2>1. PICK i \in Int : i = p.first + (n + 1) \div 2
      BY <1>1
    <2>2. s = Cut(p, i)
      BY <1>2, <1>3, <1>5, <2>1 DEF static_split
    <2>3. /\ s.rest.grain = p.grain /\ s.sub.grain = p.grain
          /\ s.rest.threads = p.threads /\ s.sub.threads = p.threads
          /\ Size(Id(s.rest)) = i - p.first /\ Size(Id(s.sub)) = p.end - i
          /\ Length(s.sub) = p.end - i
      BY <2>2, CutParts
    <2>4. i - p.first = (n + 1) \div 2 /\ p.end - i = n \div 2
      BY <1>1, <1>2, <2>1
    <2>5. n >= 1 /\ (n \div 2 # 0 <=> n >= 2)
      BY <1>1, <1>5
    <2> QED BY <1>1, <1>2, <1>3, <1>5, <2>3, <2>4, <2>5
  <1> QED BY <1>4, <1>5

\* parallel_invoke keeps the grain size and the threads.
LEMMA InvokeHalves ==
    ASSUME NEW Ids, NEW p \in Partitioners(Ids)
    PROVE  /\ invoke_split(p).rest.grain = p.grain /\ invoke_split(p).sub.grain = p.grain
           /\ invoke_split(p).rest.threads = p.threads
           /\ Length(invoke_split(p).sub) # 0 => invoke_split(p).sub.threads = p.threads
  <1>1. p.first \in Int /\ p.end \in Int /\ p.grain \in Nat /\ p.first <= p.end
    BY DEF Partitioners
  <1>2. PICK s : s = invoke_split(p)
    OBVIOUS
  <1>3. CASE Length(p) <= 1
    <2>1. s.rest = p /\ s.sub = NewPartitioner(p.end, p.end, p.grain)
      BY <1>2, <1>3 DEF invoke_split, Whole
    <2>2. s.sub.grain = p.grain /\ s.sub.first = p.end /\ s.sub.end = p.end
      BY <2>1 DEF NewPartitioner
    <2>3. Length(s.sub) = 0
      BY <1>1, <2>2 DEF Length
    <2> QED BY <1>2, <2>1, <2>2, <2>3
  <1>4. CASE ~ (Length(p) <= 1)
    <2>1. PICK i \in Int : i = p.first + Length(p) \div 2
      BY <1>1 DEF Length
    <2>2. s = Cut(p, i)
      BY <1>2, <1>4, <2>1 DEF invoke_split
    <2> QED BY <1>2, <2>2, CutParts
  <1> QED BY <1>3, <1>4

\* auto_partitioner: the halves, and how they share the threads.
LEMMA AutoHalves ==
    ASSUME NEW Ids, NEW p \in Partitioners(Ids), NEW t \in Ids, NEW n \in Nat, n = ThreadsFor(p, t)
    PROVE  /\ auto_split(p, t).rest.grain = p.grain /\ auto_split(p, t).sub.grain = p.grain
           /\ Length(auto_split(p, t).sub) # 0 =>
                 /\ n >= 2
                 /\ auto_split(p, t).rest.threads = Keep(n) /\ auto_split(p, t).sub.threads = n \div 2
                 /\ auto_split(p, t).rest.last = t /\ auto_split(p, t).sub.last = t
                 /\ Size(Id(auto_split(p, t).rest)) = (Length(p) + 1) \div 2
                 /\ Size(Id(auto_split(p, t).sub)) = Length(p) \div 2
           /\ Length(auto_split(p, t).sub) = 0 => n <= 1 \/ Length(p) <= 1 \/ Length(p) <= p.grain
  <1>1. p.first \in Int /\ p.end \in Int /\ p.grain \in Nat /\ p.first <= p.end /\ p.threads \in Nat
    BY DEF Partitioners
  <1>2. PICK l \in Nat : l = Length(p) /\ l = p.end - p.first
    BY <1>1 DEF Length
  <1>3. PICK s : s = auto_split(p, t)
    OBVIOUS
  <1>4. CASE l <= p.grain \/ n <= 1
    <2>1. s = Whole(p)
      BY <1>2, <1>3, <1>4 DEF auto_split, ThreadsFor
    <2>2. s.rest = p /\ s.sub = NewPartitioner(p.end, p.end, p.grain)
      BY <2>1 DEF Whole
    <2>3. s.sub.grain = p.grain /\ s.sub.first = p.end /\ s.sub.end = p.end
      BY <2>2 DEF NewPartitioner
    <2>4. Length(s.sub) = 0
      BY <1>1, <2>3 DEF Length
    <2> QED BY <1>1, <1>2, <1>3, <1>4, <2>2, <2>3, <2>4
  <1>5. CASE ~ (l <= p.grain \/ n <= 1)
    <2>1. PICK q : q = [p EXCEPT !.last = t]
      OBVIOUS
    <2>2. /\ q \in Partitioners(Ids) /\ q.grain = p.grain /\ Length(q) = l /\ q.last = t /\ q.first = p.first
          /\ q.end = p.end
      BY <1>2, <2>1 DEF Partitioners, Length
    <2>3. PICK i \in Int : i = p.first + (l + 1) \div 2
      BY <1>1
    <2>4. static_split(q) = Cut(q, i)
      BY <1>5, <2>2, <2>3 DEF static_split
    <2>5. PICK x : x = Cut(q, i).rest
      OBVIOUS
    <2>6. PICK y : y = Cut(q, i).sub
      OBVIOUS
    <2>7. x = [q EXCEPT !.end = i] /\ y = [q EXCEPT !.first = i]
      BY <2>5, <2>6 DEF Cut
    <2>8. x \in [first : Int, end : Int, grain : Nat, threads : Nat, last : Ids]
          /\ y \in [first : Int, end : Int, grain : Nat, threads : Nat, last : Ids]
      BY <2>2, <2>7 DEF Partitioners
    <2>9. /\ x.first = p.first /\ x.end = i /\ x.grain = p.grain /\ x.last = t
          /\ y.first = i /\ y.end = p.end /\ y.grain = p.grain /\ y.last = t
      BY <2>2, <2>7 DEF Partitioners
    <2>10. s = [rest |-> [x EXCEPT !.threads = Keep(n)], sub |-> [y EXCEPT !.threads = n \div 2]]
      BY <1>2, <1>3, <1>5, <2>1, <2>4, <2>5, <2>6 DEF auto_split, ThreadsFor
    <2>11. s.rest = [x EXCEPT !.threads = Keep(n)] /\ s.sub = [y EXCEPT !.threads = n \div 2]
      BY <2>10
    <2>12. /\ s.rest.first = p.first /\ s.rest.end = i /\ s.rest.grain = p.grain /\ s.rest.last = t
           /\ s.rest.threads = Keep(n)
           /\ s.sub.first = i /\ s.sub.end = p.end /\ s.sub.grain = p.grain /\ s.sub.last = t
           /\ s.sub.threads = n \div 2
      BY <2>8, <2>9, <2>11
    <2>13. i - p.first = (l + 1) \div 2 /\ p.end - i = l \div 2
      BY <1>1, <1>2, <2>3
    <2>14. /\ Size(Id(s.rest)) = (l + 1) \div 2 /\ Size(Id(s.sub)) = l \div 2
           /\ Length(s.sub) = l \div 2
      BY <2>12, <2>13 DEF Size, Id, Length
    <2>15. n >= 2 /\ (l \div 2 = 0 => l <= 1)
      BY <1>5
    <2> QED BY <1>2, <1>3, <2>12, <2>14, <2>15
  <1> QED BY <1>4, <1>5

\* What Rules says.
LEMMA RulesAre ==
    /\ Rules.split = algorithm.split /\ Rules.grain = whole.grain
    /\ Rules.chunks = StaticChunks /\ Rules.whole = Id(whole)
  BY DEF Rules

\* How many threads auto_partitioner goes by: all, in the first call and in
\* another thread.
LEMMA EffectiveThreads ==
    ASSUME NEW t \in Threads, NEW c, NEW f \in Frames, NEW n \in Nat, NEW M, NEW r,
           f.pc = "split", LastSplit(t, c, f, M, r), c = r.whole \/ f.part.threads = n
    PROVE  ThreadsFor(f.part, t) = Effective(c, n, M, r)
  <1>1. NoThread # t
    BY ParallelAssumption
  <1> QED BY <1>1 DEF LastSplit, ThreadsFor, Effective

\* A range that is not split makes one chunk.
LEMMA SplitUnsplit ==
    ASSUME NEW t \in Threads, NEW p \in Parts, NEW c, c = Id(p), p.grain = whole.grain,
           NEW n \in Nat, NEW M, Length(Split(p, t).sub) = 0,
           algorithm.split = "auto" => ThreadsFor(p, t) = Effective(c, n, M, Rules)
    PROVE  Unsplit(c, n, M, Rules)
  <1> DEFINE Ids == Threads \union {NoThread}
  <1>1. NoThread \in Ids /\ t \in Ids /\ p \in Partitioners(Ids)
    BY DEF Parts
  <1>2. p.first \in Int /\ p.end \in Int /\ p.grain \in Nat /\ p.first <= p.end /\ p.threads \in Nat
    BY <1>1 DEF Partitioners
  <1>3. PICK l \in Nat : l = Length(p) /\ l = Size(c)
    BY <1>2 DEF Length, Size, Id
  <1> HIDE DEF Ids
  <1>4. ASSUME algorithm.split = "static" PROVE StaticChunks[Size(c)] = 1
    <2>1. Split(p, t) = static_split(p)
      BY <1>4 DEF Split
    <2>2. l <= p.grain \/ l <= 1
      <3>1. Length(p) > p.grain /\ Length(p) >= 2 => Length(static_split(p).sub) # 0
        BY <1>1, StaticHalves
      <3> QED BY <1>2, <1>3, <2>1, <3>1
    <2>3. StaticChunks[l] = Chunk(StaticChunks, l, p.grain)
      BY StaticChunksDef
    <2> QED BY <1>3, <2>2, <2>3 DEF Chunk
  <1>5. ASSUME algorithm.split = "auto", whole.grain = 1
        PROVE  Size(c) <= 1 \/ Effective(c, n, M, Rules) <= 1
    <2>1. Split(p, t) = auto_split(p, t)
      BY <1>5 DEF Split
    <2>2. PICK m \in Nat : m = ThreadsFor(p, t)
      BY <1>2, HardwareAssumption DEF ThreadsFor
    <2>3. m <= 1 \/ l <= 1 \/ l <= p.grain
      <3>1. Length(auto_split(p, t).sub) = 0 => m <= 1 \/ Length(p) <= 1 \/ Length(p) <= p.grain
        BY <1>1, <2>2, AutoHalves
      <3> QED BY <1>3, <2>1, <3>1
    <2> QED BY <1>3, <1>5, <2>2, <2>3
  <1> QED BY <1>4, <1>5, RulesAre DEF Unsplit

\* A range that is split makes the chunks of its parts, and auto_partitioner
\* shares out its threads.
LEMMA SplitDivided ==
    ASSUME NEW t \in Threads, NEW p \in Parts, NEW c, c = Id(p), p.grain = whole.grain,
           NEW n \in Nat, NEW M, NEW s, s = Split(p, t), Length(s.sub) # 0,
           algorithm.split = "auto" => ThreadsFor(p, t) = Effective(c, n, M, Rules)
    PROVE  Divided(c, Id(s.rest), Id(s.sub), s.rest.threads, s.sub.threads, n, M, Rules)
  <1> DEFINE Ids == Threads \union {NoThread}
  <1>1. NoThread \in Ids /\ t \in Ids /\ p \in Partitioners(Ids)
    BY DEF Parts
  <1>2. p.first \in Int /\ p.end \in Int /\ p.grain \in Nat /\ p.first <= p.end /\ p.threads \in Nat
    BY <1>1 DEF Partitioners
  <1>3. PICK l \in Nat : l = Length(p) /\ l = Size(c)
    BY <1>2 DEF Length, Size, Id
  <1> HIDE DEF Ids
  <1>4. ASSUME algorithm.split = "static"
        PROVE  StaticChunks[Size(c)] = StaticChunks[Size(Id(s.rest))] + StaticChunks[Size(Id(s.sub))]
    <2>1. s = static_split(p)
      BY <1>4 DEF Split
    <2>2. l > p.grain /\ l >= 2 /\ Size(Id(s.rest)) = (l + 1) \div 2 /\ Size(Id(s.sub)) = l \div 2
      BY <1>1, <1>3, <2>1, StaticHalves
    <2>3. StaticChunks[l] = Chunk(StaticChunks, l, p.grain)
      BY StaticChunksDef
    <2>4. ~ (l <= 1 \/ l <= p.grain)
      BY <1>2, <2>2
    <2>5. StaticChunks[l] = StaticChunks[(l + 1) \div 2] + StaticChunks[l \div 2]
      BY <2>3, <2>4 DEF Chunk
    <2> QED BY <1>3, <2>2, <2>5
  <1>5. ASSUME algorithm.split = "auto"
        PROVE  /\ s.sub.threads >= 1 /\ s.rest.threads \in {s.sub.threads, s.sub.threads + 1}
               /\ s.rest.threads + s.sub.threads = Effective(c, n, M, Rules)
               /\ Size(Id(s.rest)) \in {Size(Id(s.sub)), Size(Id(s.sub)) + 1}
    <2>1. s = auto_split(p, t)
      BY <1>5 DEF Split
    <2>2. PICK m \in Nat : m = ThreadsFor(p, t)
      BY <1>2, HardwareAssumption DEF ThreadsFor
    <2>3. /\ m >= 2 /\ s.rest.threads = Keep(m) /\ s.sub.threads = m \div 2
          /\ Size(Id(s.rest)) = (l + 1) \div 2 /\ Size(Id(s.sub)) = l \div 2
      <3>1. Length(auto_split(p, t).sub) # 0 =>
               /\ m >= 2
               /\ auto_split(p, t).rest.threads = Keep(m) /\ auto_split(p, t).sub.threads = m \div 2
               /\ Size(Id(auto_split(p, t).rest)) = (Length(p) + 1) \div 2
               /\ Size(Id(auto_split(p, t).sub)) = Length(p) \div 2
        BY <1>1, <2>2, AutoHalves
      <3> QED BY <1>3, <2>1, <3>1
    <2>4. m \div 2 >= 1 /\ Keep(m) \in {m \div 2, m \div 2 + 1} /\ Keep(m) + m \div 2 = m
      BY <2>3 DEF Keep
    <2>5. (l + 1) \div 2 \in {l \div 2, l \div 2 + 1}
      OBVIOUS
    <2> QED BY <1>5, <2>2, <2>3, <2>4, <2>5
  <1> QED BY <1>4, <1>5, RulesAre DEF Divided

\* The parts of a split have their grain size and threads, and remember who
\* split them.
LEMMA SplitShared ==
    ASSUME NEW t \in Threads, NEW p \in Parts, Equipped(p, Rules), algorithm.split \in {"static", "auto", "invoke"},
           NEW s, s = Split(p, t), Length(s.sub) # 0
    PROVE  /\ Sharing(s.rest, Rules) /\ Sharing(s.sub, Rules)
           /\ algorithm.split = "auto" => s.rest.last = t /\ s.sub.last = t
  <1> DEFINE Ids == Threads \union {NoThread}
  <1>1. NoThread \in Ids /\ t \in Ids /\ p \in Partitioners(Ids)
    BY DEF Parts
  <1>2. p.first \in Int /\ p.end \in Int /\ p.grain \in Nat /\ p.first <= p.end /\ p.threads \in Nat
        /\ p.grain = Rules.grain /\ p.threads <= HardwareConcurrency
    BY <1>1 DEF Partitioners, Equipped
  <1> HIDE DEF Ids
  <1>3. CASE algorithm.split = "static"
    <2>1. s = static_split(p)
      BY <1>3 DEF Split
    <2>2. s.rest.grain = p.grain /\ s.sub.grain = p.grain /\ s.rest.threads = p.threads /\ s.sub.threads = p.threads
      BY <1>1, <2>1, StaticHalves
    <2> QED BY <1>2, <1>3, <2>2, RulesAre DEF Sharing, Equipped
  <1>4. CASE algorithm.split = "invoke"
    <2>1. s = invoke_split(p)
      BY <1>4 DEF Split
    <2>2. s.rest.grain = p.grain /\ s.sub.grain = p.grain /\ s.rest.threads = p.threads /\ s.sub.threads = p.threads
      BY <1>1, <2>1, InvokeHalves
    <2> QED BY <1>2, <1>4, <2>2, RulesAre DEF Sharing, Equipped
  <1>5. CASE algorithm.split = "auto"
    <2>1. s = auto_split(p, t)
      BY <1>5 DEF Split
    <2>2. PICK m \in Nat : m = ThreadsFor(p, t) /\ m <= HardwareConcurrency
      BY <1>2, HardwareAssumption DEF ThreadsFor
    <2>3. /\ m >= 2 /\ s.rest.threads = Keep(m) /\ s.sub.threads = m \div 2
          /\ s.rest.grain = p.grain /\ s.sub.grain = p.grain /\ s.rest.last = t /\ s.sub.last = t
      BY <1>1, <2>1, <2>2, AutoHalves
    <2>4. Keep(m) >= 1 /\ m \div 2 >= 1 /\ Keep(m) <= m /\ m \div 2 <= m /\ Keep(m) \in Int
      BY <2>3 DEF Keep
    <2>5. Sharing(s.rest, Rules) /\ Sharing(s.sub, Rules)
      BY <1>2, <2>2, <2>3, <2>4, HardwareAssumption DEF Sharing, Equipped
    <2> QED BY <2>3, <2>5
  <1> QED BY <1>3, <1>4, <1>5

-----------------------------------------------------------------------------
(* What a step leaves alone. *)

\* Tasks keep their parts, and only more of them move.
PartsKept(T, T1) == DOMAIN T \subseteq DOMAIN T1 /\ \A j \in DOMAIN T : T1[j].part = T[j].part
Moving(M, M1) == M \subseteq M1 /\ Movable(M1)

\* A call c that a step from F, T and M to F1, T1 and M1 has no part in.
Undisturbed(c, F, F1, T, T1, M, M1) ==
    /\ c \in DOMAIN F /\ (c \in DOMAIN T1 => c \in DOMAIN T) /\ (c \in M1 => c \in M)
    /\ \A b \in DOMAIN F1 : F1[b].pc = "rest" /\ Kept(F1[b]) = c =>
          b \in DOMAIN F /\ F[b].pc = "rest" /\ F[b].part = F1[b].part

\* It is entitled to the same threads,
LEMMA SameEntitled ==
    ASSUME NEW F, NEW F1, NEW T, NEW T1, NEW M, NEW M1, NEW r, NEW c, NEW n,
           PartsKept(T, T1), Undisturbed(c, F, F1, T, T1, M, M1), Entitled(c, n, F1, T1, r)
    PROVE  Entitled(c, n, F, T, r)
  <1>1. CASE c = r.whole
    BY <1>1 DEF Entitled
  <1>2. CASE c # r.whole /\ c \in DOMAIN T1
    BY <1>2 DEF Entitled, Undisturbed, PartsKept
  <1>3. CASE c # r.whole /\ c \notin DOMAIN T1
    <2>1. PICK b \in DOMAIN F1 : F1[b].pc = "rest" /\ Kept(F1[b]) = c /\ n = F1[b].part.threads
      BY <1>3 DEF Entitled
    <2>2. b \in DOMAIN F /\ F[b].pc = "rest" /\ F[b].part = F1[b].part
      BY <2>1 DEF Undisturbed
    <2>3. Kept(F[b]) = c /\ n = F[b].part.threads
      BY <2>1, <2>2 DEF Kept
    <2>4. c \notin DOMAIN T
      BY <1>3 DEF PartsKept
    <2> QED BY <1>3, <2>2, <2>3, <2>4 DEF Entitled
  <1> QED BY <1>1, <1>2, <1>3

\* A unit of the threads and chunks that stays the same.
LEMMA EffectiveStays ==
    ASSUME NEW M, NEW M1, M \subseteq M1, NEW c, c \in M1 => c \in M, NEW n, NEW r
    PROVE  /\ Effective(c, n, M1, r) = Effective(c, n, M, r)
           /\ Unsplit(c, n, M1, r) <=> Unsplit(c, n, M, r)
           /\ \A x, y, a, b : Divided(c, x, y, a, b, n, M1, r) <=> Divided(c, x, y, a, b, n, M, r)
  <1>1. Effective(c, n, M1, r) = Effective(c, n, M, r)
    BY DEF Effective
  <1> QED BY <1>1 DEF Unsplit, Divided

\* and what is known of its value stays.
LEMMA CallWorthStays ==
    ASSUME NEW T, NEW T1, NEW M, NEW M1, NEW r, NEW c, NEW f \in Frames, NEW n \in Nat,
           PartsKept(T, T1), Moving(M, M1), c \in M1 => c \in M,
           f.pc \in Parents => f.sub \in DOMAIN T, CallWorth(c, f, n, T, M, r)
    PROVE  CallWorth(c, f, n, T1, M1, r)
  <1>1. M \subseteq M1 /\ Movable(M1)
    BY DEF Moving
  <1>2. f.part.threads \in Nat
    BY DEF Frames, Parts, Partitioners
  <1>3. f.pc = "loop" => Unsplit(c, n, M1, r)
    BY <1>1, EffectiveStays DEF CallWorth
  <1>4. f.pc \in Parents => Divided(c, Kept(f), f.sub, f.part.threads, T1[f.sub].part.threads, n, M1, r)
    <2>1. SUFFICES ASSUME f.pc \in Parents
                   PROVE  Divided(c, Kept(f), f.sub, f.part.threads, T1[f.sub].part.threads, n, M1, r)
      OBVIOUS
    <2>2. T1[f.sub].part.threads = T[f.sub].part.threads
      BY <2>1 DEF PartsKept
    <2>3. Divided(c, Kept(f), f.sub, f.part.threads, T[f.sub].part.threads, n, M, r)
      BY <2>1 DEF CallWorth
    <2> QED BY <1>1, <2>2, <2>3, EffectiveStays
  <1>5. f.pc = "join" /\ f.ok => Worth(f.value, Kept(f), f.part.threads, M1, r)
    BY <1>1, <1>2, WorthStays DEF CallWorth
  <1>6. f.pc \in {"spin", "leave"} /\ f.ok => Worth(f.value, c, n, M1, r)
    BY <1>1, WorthStays DEF CallWorth
  <1> QED BY <1>3, <1>4, <1>5, <1>6 DEF CallWorth

\* A step is right about the calls when it is right about those in Z, which it
\* changes or enters;
LEMMA CallsStay ==
    ASSUME NEW F, NEW F1, NEW T, NEW T1, NEW M, NEW M1, NEW r, NEW w, Given(F, T, w), NEW Z,
           CallsWorth(F, T, M, r), PartsKept(T, T1), Moving(M, M1),
           \A d \in DOMAIN F1 : d \notin Z => F1[d] = F[d] /\ Undisturbed(d, F, F1, T, T1, M, M1),
           \A d \in DOMAIN F1 : \A n \in Nat :
              d \in Z /\ Entitled(d, n, F1, T1, r) => CallWorth(d, F1[d], n, T1, M1, r)
    PROVE  CallsWorth(F1, T1, M1, r)
  <1>1. SUFFICES ASSUME NEW d \in DOMAIN F1, NEW n \in Nat, d \notin Z, Entitled(d, n, F1, T1, r)
                 PROVE  CallWorth(d, F1[d], n, T1, M1, r)
    BY DEF CallsWorth
  <1>2. F1[d] = F[d] /\ Undisturbed(d, F, F1, T, T1, M, M1)
    BY <1>1
  <1>3. Entitled(d, n, F, T, r)
    BY <1>1, <1>2, SameEntitled
  <1>4. d \in DOMAIN F /\ (d \in M1 => d \in M)
    BY <1>2 DEF Undisturbed
  <1>5. CallWorth(d, F[d], n, T, M, r)
    BY <1>3, <1>4 DEF CallsWorth
  <1>6. F[d] \in Frames /\ (F[d].pc \in Parents => F[d].sub \in DOMAIN T)
    BY <1>4, TreeFacts DEF CallShape
  <1> QED BY <1>2, <1>4, <1>5, <1>6, CallWorthStays

\* and the same for the tasks.
LEMMA TasksStay ==
    ASSUME NEW T, NEW T1, NEW M, NEW M1, NEW r, IsTasks(T), TasksWorth(T, M, r), Moving(M, M1), NEW Z,
           \A j \in DOMAIN T1 : j \notin Z => j \in DOMAIN T /\ T1[j] = T[j],
           \A j \in DOMAIN T1 : j \in Z => TaskWorth(j, T1[j], M1, r)
    PROVE  TasksWorth(T1, M1, r)
  <1>1. SUFFICES ASSUME NEW j \in DOMAIN T1, j \notin Z PROVE TaskWorth(j, T1[j], M1, r)
    BY DEF TasksWorth
  <1>2. j \in DOMAIN T /\ T1[j] = T[j]
    BY <1>1
  <1>3. TaskWorth(j, T[j], M, r)
    BY <1>2 DEF TasksWorth
  <1>4. T[j].part.threads \in Nat
    BY <1>2 DEF IsTasks, Locals, Parts, Partitioners
  <1>5. M \subseteq M1 /\ Movable(M1)
    BY DEF Moving
  <1> QED BY <1>2, <1>3, <1>4, <1>5, WorthStays DEF TaskWorth

\* The tasks that moved are ranges.
LEMMA MovedMovable ==
    ASSUME NEW F, NEW T, NEW w, Given(F, T, w), NEW M, Moved(T, M)
    PROVE  Movable(M) /\ Moving(M, M)
  <1>1. \A k \in M : k \in Ranges /\ Proper(k)
    BY TreeFacts DEF Moved, TaskShape
  <1> QED BY <1>1 DEF Moved, Movable, Moving

\* auto_partitioner entitles a call to one thread at least, and to no more than
\* there are.
LEMMA EntitledThreads ==
    ASSUME NEW F, NEW T, NEW w, Given(F, T, w), NEW r, Shared(F, T, r), NEW c, NEW n \in Nat, Entitled(c, n, F, T, r)
    PROVE  /\ r.split = "auto" => n \in 1..HardwareConcurrency
           /\ c = r.whole => n = HardwareConcurrency
  <1>1. CASE c = r.whole
    BY <1>1, HardwareAssumption DEF Entitled
  <1>2. CASE c # r.whole
    <2>1. PICK p : n = p.threads /\ Sharing(p, r)
      <3>1. CASE c \in DOMAIN T
        BY <1>2, <3>1 DEF Entitled, Shared
      <3>2. CASE c \notin DOMAIN T
        <4>1. PICK b \in DOMAIN F : F[b].pc = "rest" /\ n = F[b].part.threads
          BY <1>2, <3>2 DEF Entitled
        <4>2. Sharing(F[b].part, r)
          BY <4>1 DEF Shared, Parents
        <4> QED BY <4>1, <4>2
      <3> QED BY <3>1, <3>2
    <2> QED BY <1>2, <2>1, HardwareAssumption DEF Sharing, Equipped
  <1> QED BY <1>1, <1>2

\* The calls are right, and how it says so.
LEMMA CallIsWorth ==
    ASSUME NEW F, NEW T, NEW M, NEW r, CallsWorth(F, T, M, r), NEW c \in DOMAIN F, NEW n \in Nat,
           Entitled(c, n, F, T, r)
    PROVE  CallWorth(c, F[c], n, T, M, r)
  BY DEF CallsWorth

-----------------------------------------------------------------------------
(* Values after each step. *)

\* A call that goes on by itself is worth what it should be when the others are.
LEMMA GoesValued ==
    ASSUME NEW S, NEW F, NEW F1, NEW T, NEW M, NEW r, NEW w, Given(F, T, w), Valued(S, F, T, M, r),
           NEW c, NEW f, Alters(F, F1, c, f), Goes(c, F[c], f, T), f.part = F[c].part,
           \A n \in Nat : Entitled(c, n, F, T, r) => CallWorth(c, f, n, T, M, r)
    PROVE  Valued(S, F1, T, M, r)
  <1>1. /\ DOMAIN F1 = DOMAIN F /\ c \in DOMAIN F /\ F1[c] = f
        /\ \A d \in DOMAIN F : d # c => F1[d] = F[d]
    BY DEF Alters
  <1>2. f.pc \in {"loop", "spin", "leave"} /\ (f.pc = "spin" => F[c].pc = "join")
    BY DEF Goes
  <1>3. PartsKept(T, T) /\ Moving(M, M)
    BY MovedMovable DEF PartsKept, Valued
  <1>4. \A d \in DOMAIN F1 : Undisturbed(d, F, F1, T, T, M, M)
    BY <1>1, <1>2 DEF Undisturbed
  <1>5. CallsWorth(F1, T, M, r)
    <2>1. \A d \in DOMAIN F1 : d \notin {c} => F1[d] = F[d] /\ Undisturbed(d, F, F1, T, T, M, M)
      BY <1>1, <1>4
    <2>2. ASSUME NEW d \in DOMAIN F1, NEW n \in Nat, d \in {c}, Entitled(d, n, F1, T, r)
          PROVE  CallWorth(d, F1[d], n, T, M, r)
      <3>1. Entitled(d, n, F, T, r)
        BY <1>3, <1>4, <2>2, SameEntitled
      <3> QED BY <1>1, <2>2, <3>1
    <2>3. CallsWorth(F, T, M, r)
      BY DEF Valued
    <2> QED BY <1>3, <2>1, <2>2, <2>3, CallsStay
  <1>6. Shared(F1, T, r)
    BY <1>1, <1>2 DEF Valued, Shared, Parents
  <1>7. Splitters(S, F1, M, r)
    <2>1. \A t : LastSplit(t, c, f, M, r)
      BY <1>2 DEF LastSplit
    <2> QED BY <1>1, <2>1 DEF Valued, Splitters
  <1> QED BY <1>5, <1>6, <1>7 DEF Valued

\* A call that fails has no value.
LEMMA FailedWorth ==
    ASSUME NEW f, f.pc = "leave", ~ f.ok, NEW c, NEW n, NEW T, NEW M, NEW r
    PROVE  CallWorth(c, f, n, T, M, r)
  BY DEF CallWorth, Parents

\* A call that begins its loop.
LEMMA BeginsWorth ==
    ASSUME NEW M, Movable(M), NEW r, NEW T, NEW c \in Ranges, c[1] <= c[2], NEW n \in Nat, NEW f,
           f.value = <<Initial>>, f.next = c[1], f.pc = IF Proper(c) THEN "loop" ELSE "leave",
           Unsplit(c, n, M, r), r.split = "auto" => n \in 1..HardwareConcurrency
    PROVE  CallWorth(c, f, n, T, M, r)
  <1>1. c[1] \in Int /\ c[2] \in Int
    BY DEF Ranges
  <1>2. Spells(f.value, c[1], c[1]) /\ Count(f.value) = 1
    BY <1>1, EmptyValue
  <1>3. CASE Proper(c)
    BY <1>2, <1>3 DEF CallWorth, Parents
  <1>4. CASE ~ Proper(c)
    <2>1. Spells(f.value, c[1], c[2])
      BY <1>1, <1>2, <1>4 DEF Proper
    <2>2. Worth(f.value, c, n, M, r)
      BY <1>2, <2>1, UnsplitWorth
    <2> QED BY <1>4, <2>2 DEF CallWorth, Parents
  <1> QED BY <1>3, <1>4

\* A call that has applied the function to i.
LEMMA AppliesWorth ==
    ASSUME NEW M, Movable(M), NEW r, NEW T, NEW c \in Ranges, NEW n \in Nat, NEW e, NEW f, NEW i \in Int,
           e.pc = "loop", e.next = i, c[1] <= i, i # Initial, CallWorth(c, e, n, T, M, r),
           f.value = Append(e.value, i), f.next = i + 1, f.pc \in {"loop", "leave"},
           f.pc = "leave" => i + 1 = c[2], r.split = "auto" => n \in 1..HardwareConcurrency
    PROVE  CallWorth(c, f, n, T, M, r)
  <1>1. c[1] \in Int /\ c[2] \in Int
    BY DEF Ranges
  <1>2. Spells(e.value, c[1], i) /\ Count(e.value) = 1 /\ Unsplit(c, n, M, r)
    BY DEF CallWorth
  <1>3. Spells(f.value, c[1], i + 1) /\ Count(f.value) = 1
    BY <1>1, <1>2, SpellsOneMore
  <1>4. CASE f.pc = "loop"
    BY <1>2, <1>3, <1>4 DEF CallWorth, Parents
  <1>5. CASE f.pc = "leave"
    <2>1. Worth(f.value, c, n, M, r)
      BY <1>2, <1>3, <1>5, UnsplitWorth
    <2> QED BY <1>5, <2>1 DEF CallWorth, Parents
  <1> QED BY <1>4, <1>5

\* A call that has joined its task.
LEMMA JoinsWorth ==
    ASSUME NEW F, NEW T, NEW w, Given(F, T, w), NEW M, Movable(M), NEW r, NEW n \in Nat, NEW c \in DOMAIN F, NEW f,
           F[c].pc = "join", CallWorth(c, F[c], n, T, M, r), TasksWorth(T, M, r),
           f.pc = "spin", f.part = F[c].part, f.sub = F[c].sub,
           f.ok => F[c].ok /\ T[f.sub].state = "completed" /\ f.value = F[c].value \o T[f.sub].value,
           r.split = "auto" => n \in 1..HardwareConcurrency, c = r.whole => n = HardwareConcurrency
    PROVE  CallWorth(c, f, n, T, M, r)
  <1>1. PICK x \in Ranges : x = Kept(F[c])
    BY KeptRange, TreeFacts
  <1>2. PICK y \in Ranges : y = F[c].sub
    BY KeptRange, TreeFacts
  <1>3. c \in Ranges /\ InTwo(c, x, y) /\ y \in DOMAIN T /\ F[c] \in Frames /\ T[y] \in Locals
    <2>1. CallShape(c, F[c], T, w) /\ F[c] \in Frames /\ c \in Ranges
      BY TreeFacts
    <2>2. InTwo(c, x, y) /\ y \in DOMAIN T
      BY <1>1, <1>2, <2>1 DEF CallShape, Parents
    <2> QED BY <2>1, <2>2, TreeFacts
  <1>4. PICK a \in Nat : a = F[c].part.threads
    BY <1>3 DEF Frames, Parts, Partitioners
  <1>5. PICK b \in Nat : b = T[y].part.threads
    BY <1>3 DEF Locals, Parts, Partitioners
  <1>6. Divided(c, x, y, a, b, n, M, r)
    BY <1>1, <1>2, <1>4, <1>5 DEF CallWorth, Parents
  <1>7. ASSUME f.ok PROVE Worth(f.value, c, n, M, r)
    <2>1. PICK u : u = F[c].value
      OBVIOUS
    <2>2. PICK v : v = T[y].value
      OBVIOUS
    <2>3. Worth(u, x, a, M, r)
      BY <1>1, <1>4, <1>7, <2>1 DEF CallWorth
    <2>4. Worth(v, y, b, M, r)
      BY <1>2, <1>3, <1>5, <1>7, <2>2 DEF TasksWorth, TaskWorth
    <2>5. Worth(u \o v, c, n, M, r)
      BY <1>3, <1>6, <2>3, <2>4, JoinedWorth
    <2> QED BY <1>2, <1>7, <2>1, <2>2, <2>5
  <1>8. Kept(f) = x
    BY <1>1 DEF Kept
  <1> QED BY <1>2, <1>4, <1>5, <1>6, <1>7, <1>8 DEF CallWorth

\* A call whose task is released leaves with the value it has.
LEMMA SpinsWorth ==
    ASSUME NEW M, NEW r, NEW T, NEW c, NEW n, NEW e, NEW f, e.pc = "spin", f.pc = "leave",
           f.value = e.value, f.ok = e.ok, CallWorth(c, e, n, T, M, r)
    PROVE  CallWorth(c, f, n, T, M, r)
  BY DEF CallWorth, Parents

\* A call is above the thread that splits it, and on no other stack.
LEMMA OnOne ==
    ASSUME NEW S, NEW F, NEW T, NEW w, Given(F, T, w), Stacks(S, F, T, w), NEW t \in Threads, NEW m \in Nat,
           NEW c \in DOMAIN F, On(S, t, m, c)
    PROVE  \A u \in Threads : \A n \in Nat : On(S, u, n, c) => u = t
  <1>1. c \in Ranges
    BY TreeFacts
  <1> QED BY <1>1 DEF Stacks

\* What is neither a call nor a finished task is on no stack.
LEMMA OnNone ==
    ASSUME NEW S, NEW F, NEW T, NEW w, Stacks(S, F, T, w), NEW x \in Ranges, x \notin DOMAIN F,
           x \notin DOMAIN T \/ T[x].state \notin Final
    PROVE  \A u \in Threads : \A n \in Nat : ~ On(S, u, n, x)
  BY DEF Stacks, Placed

\* A call that has given a part of its range to a new task.
LEMMA SpawnsValued ==
    ASSUME NEW S, NEW F, NEW F1, NEW T, NEW T1, NEW M, NEW r, NEW w, Given(F, T, w), Stacks(S, F, T, w),
           Valued(S, F, T, M, r), NEW c, NEW f, NEW k, NEW g, Spawns(F, F1, T, T1, c, f, k, g),
           k \notin Touched(F, T), NEW t \in Threads, NEW m \in Nat, On(S, t, m, c),
           Sharing(f.part, r), Sharing(g.part, r), r.split = "auto" => f.part.last = t,
           \A n \in Nat : Entitled(c, n, F, T, r) =>
              Divided(c, Kept(f), k, f.part.threads, g.part.threads, n, M, r)
    PROVE  Valued(S, F1, T1, M, r)
  <1>1. /\ DOMAIN F1 = DOMAIN F /\ c \in DOMAIN F /\ F1[c] = f /\ f.pc = "spawned" /\ f.sub = k
        /\ \A d \in DOMAIN F : d # c => F1[d] = F[d]
    BY DEF Spawns, Alters
  <1>2. /\ DOMAIN T1 = DOMAIN T \union {k} /\ T1[k] = g /\ g.state = "queued"
        /\ k \notin DOMAIN T /\ k \notin DOMAIN F /\ \A j \in DOMAIN T : T1[j] = T[j]
    BY DEF Spawns, TaskIs, Touched
  <1>3. PartsKept(T, T1) /\ Moving(M, M)
    BY <1>2, MovedMovable DEF PartsKept, Valued
  <1>4. \A d \in DOMAIN F1 : Undisturbed(d, F, F1, T, T1, M, M)
    BY <1>1, <1>2 DEF Undisturbed
  <1>5. CallsWorth(F1, T1, M, r)
    <2>1. \A d \in DOMAIN F1 : d \notin {c} => F1[d] = F[d] /\ Undisturbed(d, F, F1, T, T1, M, M)
      BY <1>1, <1>4
    <2>2. ASSUME NEW d \in DOMAIN F1, NEW n \in Nat, d \in {c}, Entitled(d, n, F1, T1, r)
          PROVE  CallWorth(d, F1[d], n, T1, M, r)
      <3>1. Entitled(c, n, F, T, r)
        BY <1>3, <1>4, <2>2, SameEntitled
      <3>2. Divided(c, Kept(f), k, f.part.threads, g.part.threads, n, M, r)
        BY <3>1
      <3>3. CallWorth(c, f, n, T1, M, r)
        BY <1>1, <1>2, <3>2 DEF CallWorth
      <3> QED BY <1>1, <2>2, <3>3
    <2>3. CallsWorth(F, T, M, r)
      BY DEF Valued
    <2> QED BY <1>3, <2>1, <2>2, <2>3, CallsStay
  <1>6. TasksWorth(T1, M, r)
    <2>1. TaskWorth(k, g, M, r)
      BY <1>2 DEF TaskWorth
    <2>2. \A j \in DOMAIN T1 : j \notin {k} => j \in DOMAIN T /\ T1[j] = T[j]
      BY <1>2
    <2>3. IsTasks(T) /\ TasksWorth(T, M, r)
      BY DEF Given, Valued
    <2>4. \A j \in DOMAIN T1 : j \in {k} => TaskWorth(j, T1[j], M, r)
      BY <1>2, <2>1
    <2> QED BY <1>3, <2>2, <2>3, <2>4, TasksStay
  <1>7. Shared(F1, T1, r)
    <2>1. Shared(F, T, r)
      BY DEF Valued
    <2>2. Equipped(f.part, r)
      BY DEF Sharing
    <2>3. \A d \in DOMAIN F1 : Equipped(F1[d].part, r) /\ (F1[d].pc \in Parents => Sharing(F1[d].part, r))
      BY <1>1, <2>1, <2>2 DEF Shared
    <2>4. \A j \in DOMAIN T1 : Sharing(T1[j].part, r)
      BY <1>2, <2>1 DEF Shared
    <2> QED BY <2>3, <2>4 DEF Shared
  <1>8. Splitters(S, F1, M, r)
    <2>1. SUFFICES ASSUME r.split = "auto", NEW u \in Threads, NEW n \in Nat, NEW d \in DOMAIN F1, On(S, u, n, d)
                   PROVE  LastSplit(u, d, F1[d], M, r)
      BY DEF Splitters
    <2>2. CASE d = c
      <3>1. u = t
        BY <1>1, <2>1, <2>2, OnOne
      <3> QED BY <1>1, <2>1, <2>2, <3>1 DEF LastSplit
    <2>3. CASE d # c
      BY <1>1, <2>1, <2>3 DEF Valued, Splitters
    <2> QED BY <2>2, <2>3
  <1>9. Moved(T1, M)
    BY <1>2 DEF Valued, Moved
  <1> QED BY <1>5, <1>6, <1>7, <1>8, <1>9 DEF Valued

\* A task that is run, by the thread t.
LEMMA RunsValued ==
    ASSUME NEW S, NEW S1, NEW F, NEW F1, NEW T, NEW T1, NEW M, NEW M1, NEW r, NEW w, w = r.whole,
           Given(F, T, w), Given(F1, T1, w), Stacks(S, F, T, w), Valued(S, F, T, M, r),
           NEW k, NEW f, NEW g, Runs(F, F1, T, T1, k, f, g), NEW t \in Threads, Pushes(S, S1, t, k),
           f.part = T[k].part, M1 \in {M, M \union {k}}, r.split = "auto" => (k \in M1 <=> T[k].part.last # t)
    PROVE  Valued(S1, F1, T1, M1, r)
  <1>1. /\ IsTasks(T) /\ k \in Ranges /\ k \in DOMAIN T /\ TaskShape(k, T[k], F, w)
    BY TreeFacts DEF Runs, Given, Enters
  <1>2. /\ DOMAIN F1 = DOMAIN F \union {k} /\ F1[k] = f /\ f.pc = "split"
        /\ \A d \in DOMAIN F : d # k => F1[d] = F[d]
    BY DEF Runs, Enters, First
  <1>3. /\ DOMAIN T1 = DOMAIN T /\ T1[k] = g /\ g.state = "running" /\ g.part = T[k].part /\ T[k].state = "queued"
        /\ \A j \in DOMAIN T : j # k => T1[j] = T[j]
    BY <1>1 DEF Runs, TaskIs
  <1>4. k \notin DOMAIN F /\ k # w /\ k \notin M
    BY <1>1, <1>3 DEF TaskShape, Valued, Moved
  <1>5. Moved(T1, M1)
    <2>1. IsFiniteSet(M) /\ \A j \in M : j \in DOMAIN T /\ T[j].state # "queued"
      BY DEF Valued, Moved
    <2>2. IsFiniteSet(M \union {k})
      BY <2>1, FS_AddElement
    <2> QED BY <1>1, <1>3, <2>1, <2>2 DEF Moved
  <1>6. PartsKept(T, T1) /\ Moving(M, M1)
    BY <1>3, <1>5, MovedMovable DEF PartsKept, Moving
  <1>7. \A d \in DOMAIN F : F1[d] = F[d] /\ Undisturbed(d, F, F1, T, T1, M, M1)
    BY <1>2, <1>3, <1>4 DEF Undisturbed
  <1>8. CallsWorth(F1, T1, M1, r)
    <2>1. \A d \in DOMAIN F1 : d \notin {k} => F1[d] = F[d] /\ Undisturbed(d, F, F1, T, T1, M, M1)
      BY <1>2, <1>7
    <2>2. ASSUME NEW d \in DOMAIN F1, NEW n \in Nat, d \in {k}, Entitled(d, n, F1, T1, r)
          PROVE  CallWorth(d, F1[d], n, T1, M1, r)
      <3>1. n = f.part.threads
        BY <1>1, <1>3, <1>4, <2>2 DEF Entitled
      <3> QED BY <1>2, <2>2, <3>1 DEF CallWorth, Parents
    <2>3. CallsWorth(F, T, M, r)
      BY DEF Valued
    <2> QED BY <1>6, <2>1, <2>2, <2>3, CallsStay
  <1>9. TasksWorth(T1, M1, r)
    <2>1. TaskWorth(k, g, M1, r)
      BY <1>3 DEF TaskWorth
    <2>2. \A j \in DOMAIN T1 : j \notin {k} => j \in DOMAIN T /\ T1[j] = T[j]
      BY <1>3
    <2>3. IsTasks(T) /\ TasksWorth(T, M, r)
      BY <1>1 DEF Valued
    <2>4. \A j \in DOMAIN T1 : j \in {k} => TaskWorth(j, T1[j], M1, r)
      BY <1>3, <2>1
    <2> QED BY <1>6, <2>2, <2>3, <2>4, TasksStay
  <1>10. Shared(F1, T1, r)
    BY <1>1, <1>2, <1>3, <1>4 DEF Valued, Shared, Sharing, Parents
  <1>11. Splitters(S1, F1, M1, r)
    <2>1. SUFFICES ASSUME r.split = "auto", NEW u \in Threads, NEW n \in Nat, NEW d \in DOMAIN F1, On(S1, u, n, d)
                   PROVE  LastSplit(u, d, F1[d], M1, r)
      BY DEF Splitters
    <2>2. CASE d = k
      <3>1. ~ On(S, u, n, k)
        BY <1>1, <1>3, <1>4, OnNone DEF Final
      <3>2. u = t
        BY <2>1, <2>2, <3>1 DEF Pushes
      <3>3. k \in M1 <=> f.part.last # t
        BY <2>1
      <3>4. LastSplit(t, k, f, M1, r)
        BY <1>2, <1>4, <3>3 DEF LastSplit
      <3> QED BY <1>2, <2>2, <3>2, <3>4
    <2>3. CASE d # k
      <3>1. On(S, u, n, d) /\ d \in DOMAIN F /\ F1[d] = F[d]
        BY <1>2, <2>1, <2>3 DEF Pushes
      <3>2. LastSplit(u, d, F[d], M, r)
        BY <2>1, <3>1 DEF Valued, Splitters
      <3> QED BY <2>3, <3>1, <3>2 DEF LastSplit
    <2> QED BY <2>2, <2>3
  <1> QED BY <1>5, <1>8, <1>9, <1>10, <1>11 DEF Valued

\* A range has one caller: a second one would have it in two parts.
LEMMA OneCaller ==
    ASSUME NEW F, NEW T, NEW w, Given(F, T, w), NEW b \in DOMAIN F, NEW c \in DOMAIN F,
           F[b].pc = "rest", F[c].pc = "spawned", Kept(F[b]) = Kept(F[c])
    PROVE  FALSE
  <1>1. PICK x \in Ranges : x = Kept(F[c]) /\ x = Kept(F[b])
    BY KeptRange, TreeFacts
  <1>2. /\ b \in Ranges /\ c \in Ranges /\ b # c /\ b \in Touched(F, T) /\ c \in Touched(F, T)
        /\ InTwo(b, x, F[b].sub) /\ InTwo(c, x, F[c].sub)
        /\ F[b].sub \in Ranges /\ F[c].sub \in Ranges
    <2>1. CallShape(b, F[b], T, w) /\ CallShape(c, F[c], T, w) /\ F[b] \in Frames /\ F[c] \in Frames
          /\ b \in Ranges /\ c \in Ranges /\ b \in Touched(F, T) /\ c \in Touched(F, T)
      BY TreeFacts
    <2> QED BY <1>1, <2>1, KeptRange DEF CallShape, Parents
  <1>3. /\ Inside(x, b) /\ Inside(x, c) /\ Proper(x) /\ Apart(x, F[b].sub) /\ Apart(x, F[c].sub)
    BY <1>1, <1>2, InTwoParts
  <1>4. ~ Inside(b, c)
    <2>1. SUFFICES ASSUME Inside(b, c) PROVE FALSE
      OBVIOUS
    <2>2. Within(b, F[c].sub)
      BY <1>2, <2>1, TreeFacts DEF Inner
    <2>3. Within(x, F[c].sub)
      BY <1>1, <1>2, <1>3, <2>2, WithinOrder DEF Inside
    <2> QED BY <1>1, <1>2, <1>3, <2>3, ApartParts, WithinOrder
  <1>5. ~ Inside(c, b)
    <2>1. SUFFICES ASSUME Inside(c, b) PROVE FALSE
      OBVIOUS
    <2>2. Within(c, x) \/ Within(c, F[b].sub)
      BY <1>1, <1>2, <2>1, TreeFacts DEF Inner
    <2>3. Within(x, F[b].sub)
      BY <1>1, <1>2, <1>3, <2>2, WithinOrder DEF Inside
    <2> QED BY <1>1, <1>2, <1>3, <2>3, ApartParts, WithinOrder
  <1>6. ~ Apart(b, c)
    BY <1>1, <1>2, <1>3, ApartParts DEF Inside
  <1> QED BY <1>2, <1>4, <1>5, <1>6, TreeFacts DEF Laminar, Inside

\* A call that has called itself for the part that stayed.
LEMMA RecursesValued ==
    ASSUME NEW S, NEW S1, NEW F, NEW F1, NEW T, NEW M, NEW r, NEW w, w = r.whole,
           Given(F, T, w), Given(F1, T, w), Stacks(S, F, T, w), Valued(S, F, T, M, r),
           NEW c, NEW f, NEW x, NEW g, Recurses(F, F1, c, f, x, g), x \notin Touched(F, T),
           f.part = F[c].part, g.part = F[c].part,
           NEW t \in Threads, NEW m \in Nat, On(S, t, m, c), Pushes(S, S1, t, x)
    PROVE  Valued(S1, F1, T, M, r)
  <1>1. /\ c \in DOMAIN F /\ F[c].pc = "spawned" /\ x = Kept(F[c]) /\ DOMAIN F1 = DOMAIN F \union {x}
        /\ F1[x] = g /\ g.pc = "split" /\ F1[c] = f /\ f.pc = "rest" /\ f.sub = F[c].sub
        /\ x \notin DOMAIN F /\ x \notin DOMAIN T /\ x # c
        /\ \A d \in DOMAIN F : d # c => F1[d] = F[d]
    BY DEF Recurses, First, Touched
  <1>2. x \in Ranges /\ x # w
    <2>1. CallShape(c, F[c], T, w) /\ F[c] \in Frames /\ c \in Ranges /\ w \in Ranges
      BY <1>1, TreeFacts DEF Given
    <2>2. InTwo(c, x, F[c].sub) /\ Within(c, w) /\ x \in Ranges /\ F[c].sub \in Ranges
      BY <1>1, <2>1, KeptRange DEF CallShape, Parents
    <2>3. Inside(x, c)
      BY <2>1, <2>2, InTwoParts
    <2> QED BY <2>1, <2>2, <2>3, WithinOrder DEF Inside
  <1>3. PartsKept(T, T) /\ Moving(M, M) /\ x \notin M
    BY <1>1, MovedMovable DEF PartsKept, Valued, Moved
  <1>4. Kept(f) = x /\ Kept(F[c]) = x
    BY <1>1 DEF Kept
  <1>5. \A d \in DOMAIN F : Undisturbed(d, F, F1, T, T, M, M)
    BY <1>1, <1>4 DEF Undisturbed
  <1>6. CallsWorth(F1, T, M, r)
    <2>1. \A d \in DOMAIN F1 : d \notin {c, x} => F1[d] = F[d] /\ Undisturbed(d, F, F1, T, T, M, M)
      BY <1>1, <1>5
    <2>2. ASSUME NEW d \in DOMAIN F1, NEW n \in Nat, d \in {c, x}, Entitled(d, n, F1, T, r)
          PROVE  CallWorth(d, F1[d], n, T, M, r)
      <3>1. CASE d = c
        <4>1. Entitled(c, n, F, T, r)
          BY <1>1, <1>3, <1>5, <2>2, <3>1, SameEntitled
        <4>2. CallWorth(c, F[c], n, T, M, r)
          BY <1>1, <4>1, CallIsWorth DEF Valued
        <4>3. CallWorth(c, f, n, T, M, r)
          BY <1>1, <1>4, <4>2 DEF CallWorth, Parents
        <4> QED BY <1>1, <3>1, <4>3
      <3>2. CASE d = x
        <4>1. PICK b \in DOMAIN F1 : F1[b].pc = "rest" /\ Kept(F1[b]) = x /\ n = F1[b].part.threads
          BY <1>1, <1>2, <2>2, <3>2 DEF Entitled
        <4>2. b # x
          BY <1>1, <4>1
        <4>3. b = c
          <5>1. SUFFICES ASSUME b # c PROVE FALSE
            OBVIOUS
          <5>2. b \in DOMAIN F /\ F[b].pc = "rest" /\ Kept(F[b]) = Kept(F[c])
            BY <1>1, <1>4, <4>1, <4>2, <5>1
          <5> QED BY <1>1, <5>2, OneCaller
        <4>4. n = g.part.threads
          BY <1>1, <4>1, <4>3
        <4>5. CallWorth(x, g, n, T, M, r)
          BY <1>1, <4>4 DEF CallWorth, Parents
        <4> QED BY <1>1, <3>2, <4>5
      <3> QED BY <2>2, <3>1, <3>2
    <2>3. CallsWorth(F, T, M, r)
      BY DEF Valued
    <2> QED BY <1>3, <2>1, <2>2, <2>3, CallsStay
  <1>7. Shared(F1, T, r)
    <2>1. Shared(F, T, r)
      BY DEF Valued
    <2>2. Sharing(F[c].part, r) /\ Equipped(F[c].part, r)
      BY <1>1, <2>1 DEF Shared, Parents
    <2> QED BY <1>1, <2>1, <2>2 DEF Shared, Parents
  <1>8. Splitters(S1, F1, M, r)
    <2>1. SUFFICES ASSUME r.split = "auto", NEW u \in Threads, NEW n \in Nat, NEW d \in DOMAIN F1, On(S1, u, n, d)
                   PROVE  LastSplit(u, d, F1[d], M, r)
      BY DEF Splitters
    <2>2. CASE d = x
      <3>1. ~ On(S, u, n, x)
        BY <1>1, <1>2, OnNone
      <3>2. u = t
        BY <2>1, <2>2, <3>1 DEF Pushes
      <3>3. LastSplit(t, c, F[c], M, r)
        BY <1>1, <2>1 DEF Valued, Splitters
      <3>4. g.part.last = t
        BY <1>1, <3>3 DEF LastSplit
      <3>5. LastSplit(t, x, g, M, r)
        BY <1>1, <1>2, <1>3, <3>4 DEF LastSplit
      <3> QED BY <1>1, <2>2, <3>2, <3>5
    <2>3. CASE d = c
      BY <1>1, <2>3 DEF LastSplit
    <2>4. CASE d # x /\ d # c
      <3>1. On(S, u, n, d) /\ d \in DOMAIN F /\ F1[d] = F[d]
        BY <1>1, <2>1, <2>4 DEF Pushes
      <3> QED BY <2>1, <3>1 DEF Valued, Splitters
    <2> QED BY <2>2, <2>3, <2>4
  <1> QED BY <1>6, <1>7, <1>8 DEF Valued

\* A call that leaves into its task, with its value.
LEMMA EndsTaskValued ==
    ASSUME NEW S, NEW F, NEW F1, NEW T, NEW T1, NEW M, NEW r, NEW w, w = r.whole,
           Given(F, T, w), Valued(S, F, T, M, r),
           NEW c, NEW g, EndsTask(F, F1, T, T1, c, g), g.value = F[c].value
    PROVE  Valued(S, F1, T1, M, r)
  <1>1. /\ c \in DOMAIN F /\ F[c].pc = "leave" /\ DOMAIN F1 = DOMAIN F \ {c}
        /\ \A d \in DOMAIN F : d # c => F1[d] = F[d]
    BY DEF EndsTask, Leaves
  <1>2. /\ c \in DOMAIN T /\ DOMAIN T1 = DOMAIN T /\ T1[c] = g /\ g.part = T[c].part
        /\ g.state = IF F[c].ok THEN "completed" ELSE "canceled"
        /\ \A j \in DOMAIN T : j # c => T1[j] = T[j]
    BY DEF EndsTask, TaskIs
  <1>3. PartsKept(T, T1) /\ Moving(M, M)
    BY <1>2, MovedMovable DEF PartsKept, Valued
  <1>0. PICK Z : Z = {}
    OBVIOUS
  <1>4. \A d \in DOMAIN F1 : d \notin Z => F1[d] = F[d] /\ Undisturbed(d, F, F1, T, T1, M, M)
    BY <1>1, <1>2 DEF Undisturbed
  <1>5. CallsWorth(F1, T1, M, r)
    <2>1. CallsWorth(F, T, M, r)
      BY DEF Valued
    <2>2. \A d \in DOMAIN F1 : \A n \in Nat :
             d \in Z /\ Entitled(d, n, F1, T1, r) => CallWorth(d, F1[d], n, T1, M, r)
      BY <1>0
    <2> QED BY <1>3, <1>4, <2>1, <2>2, CallsStay
  <1>6. TaskWorth(c, g, M, r)
    <2>1. SUFFICES ASSUME F[c].ok PROVE Worth(F[c].value, c, T[c].part.threads, M, r)
      BY <1>2 DEF TaskWorth
    <2>2. TaskShape(c, T[c], F, w) /\ T[c] \in Locals
      BY <1>2, TreeFacts
    <2>3. PICK n \in Nat : n = T[c].part.threads
      BY <2>2 DEF Locals, Parts, Partitioners
    <2>4. Entitled(c, n, F, T, r)
      BY <1>2, <2>2, <2>3 DEF TaskShape, Entitled
    <2>5. CallWorth(c, F[c], n, T, M, r)
      BY <1>1, <2>4, CallIsWorth DEF Valued
    <2> QED BY <1>1, <2>1, <2>3, <2>5 DEF CallWorth
  <1>7. TasksWorth(T1, M, r)
    <2>1. \A j \in DOMAIN T1 : j \notin {c} => j \in DOMAIN T /\ T1[j] = T[j]
      BY <1>2
    <2>2. \A j \in DOMAIN T1 : j \in {c} => TaskWorth(j, T1[j], M, r)
      BY <1>2, <1>6
    <2>3. IsTasks(T) /\ TasksWorth(T, M, r)
      BY DEF Given, Valued
    <2> QED BY <1>3, <2>1, <2>2, <2>3, TasksStay
  <1>8. Shared(F1, T1, r)
    <2>1. Shared(F, T, r)
      BY DEF Valued
    <2>2. \A d \in DOMAIN F1 : Equipped(F1[d].part, r) /\ (F1[d].pc \in Parents => Sharing(F1[d].part, r))
      BY <1>1, <2>1 DEF Shared
    <2>3. \A j \in DOMAIN T1 : Sharing(T1[j].part, r)
      BY <1>2, <2>1 DEF Shared
    <2> QED BY <2>2, <2>3 DEF Shared
  <1>9. Splitters(S, F1, M, r)
    BY <1>1 DEF Valued, Splitters
  <1>10. Moved(T1, M)
    BY <1>2 DEF Valued, Moved
  <1> QED BY <1>5, <1>7, <1>8, <1>9, <1>10 DEF Valued

\* A call of the recursion that returns into the call below it, with its value.
LEMMA ReturnsValued ==
    ASSUME NEW S, NEW S1, NEW F, NEW F1, NEW T, NEW M, NEW r, NEW w, w = r.whole,
           Given(F, T, w), Valued(S, F, T, M, r),
           NEW c, c # w, NEW b, NEW f, Returns(F, F1, T, c, b, f),
           f.part = F[b].part, f.value = F[c].value, NEW t \in Threads, Pops(S, S1, t, c)
    PROVE  Valued(S1, F1, T, M, r)
  <1>1. /\ c \in DOMAIN F /\ c \notin DOMAIN T /\ b \in DOMAIN F /\ b # c /\ DOMAIN F1 = DOMAIN F \ {c}
        /\ F1[b] = f /\ \A d \in DOMAIN F : d # b /\ d # c => F1[d] = F[d]
    BY DEF Returns
  <1>2. /\ F[c].pc = "leave" /\ F[b].pc = "rest" /\ Kept(F[b]) = c
        /\ f.pc = "join" /\ f.sub = F[b].sub /\ Kept(f) = c /\ f.ok = F[c].ok
    BY DEF Returns
  <1>3. PartsKept(T, T) /\ Moving(M, M)
    BY MovedMovable DEF PartsKept, Valued
  <1>4. \A d \in DOMAIN F1 : Undisturbed(d, F, F1, T, T, M, M)
    BY <1>1, <1>2 DEF Undisturbed
  <1>5. PICK a \in Nat : a = F[b].part.threads
    <2>1. F[b] \in Frames
      BY <1>1, TreeFacts
    <2> QED BY <2>1 DEF Frames, Parts, Partitioners
  <1>6. F[c].ok => Worth(F[c].value, c, a, M, r)
    <2>1. Entitled(c, a, F, T, r)
      BY <1>1, <1>2, <1>5 DEF Entitled
    <2>2. CallWorth(c, F[c], a, T, M, r)
      BY <1>1, <2>1, CallIsWorth DEF Valued
    <2> QED BY <1>2, <2>2 DEF CallWorth
  <1>7. CallsWorth(F1, T, M, r)
    <2>1. \A d \in DOMAIN F1 : d \notin {b} => F1[d] = F[d] /\ Undisturbed(d, F, F1, T, T, M, M)
      BY <1>1, <1>4
    <2>2. ASSUME NEW d \in DOMAIN F1, NEW n \in Nat, d \in {b}, Entitled(d, n, F1, T, r)
          PROVE  CallWorth(d, F1[d], n, T, M, r)
      <3>1. Entitled(b, n, F, T, r)
        BY <1>3, <1>4, <2>2, SameEntitled
      <3>2. CallWorth(b, F[b], n, T, M, r)
        BY <1>1, <3>1, CallIsWorth DEF Valued
      <3>3. Divided(b, c, f.sub, f.part.threads, T[f.sub].part.threads, n, M, r)
        BY <1>2, <3>2 DEF CallWorth, Parents
      <3>4. f.ok => Worth(f.value, Kept(f), f.part.threads, M, r)
        BY <1>2, <1>5, <1>6
      <3>5. CallWorth(b, f, n, T, M, r)
        BY <1>2, <3>3, <3>4 DEF CallWorth
      <3> QED BY <1>1, <2>2, <3>5
    <2>3. CallsWorth(F, T, M, r)
      BY DEF Valued
    <2> QED BY <1>3, <2>1, <2>2, <2>3, CallsStay
  <1>8. Shared(F1, T, r)
    <2>1. Shared(F, T, r)
      BY DEF Valued
    <2>2. Sharing(F[b].part, r) /\ Equipped(F[b].part, r)
      BY <1>1, <1>2, <2>1 DEF Shared, Parents
    <2> QED BY <1>1, <2>1, <2>2 DEF Shared, Parents
  <1>9. Splitters(S1, F1, M, r)
    <2>1. SUFFICES ASSUME r.split = "auto", NEW u \in Threads, NEW n \in Nat, NEW d \in DOMAIN F1, On(S1, u, n, d)
                   PROVE  LastSplit(u, d, F1[d], M, r)
      BY DEF Splitters
    <2>2. CASE d = b
      BY <1>1, <1>2, <2>2 DEF LastSplit
    <2>3. CASE d # b
      <3>1. On(S, u, n, d) /\ d \in DOMAIN F /\ F1[d] = F[d]
        BY <1>1, <2>1, <2>3 DEF Pops
      <3> QED BY <2>1, <3>1 DEF Valued, Splitters
    <2> QED BY <2>2, <2>3
  <1> QED BY <1>7, <1>8, <1>9 DEF Valued

\* A task that is dropped, and one that is released: their parts stay, and what
\* has a value keeps it.
LEMMA ChangesTask ==
    ASSUME NEW S, NEW S1, NEW F, NEW T, NEW T1, NEW M, NEW r, NEW w, Given(F, T, w), Valued(S, F, T, M, r),
           NEW k \in DOMAIN T, NEW g, TaskIs(T, T1, k, g), g.part = T[k].part, g.state # "queued",
           g.state = "completed" => T[k].state = "completed" /\ g.value = T[k].value,
           \A u \in Threads : \A n \in Nat : \A d \in DOMAIN F : On(S1, u, n, d) => On(S, u, n, d)
    PROVE  Valued(S1, F, T1, M, r)
  <1>1. DOMAIN T1 = DOMAIN T /\ T1[k] = g /\ \A j \in DOMAIN T : j # k => T1[j] = T[j]
    BY DEF TaskIs
  <1>2. PartsKept(T, T1) /\ Moving(M, M)
    BY <1>1, MovedMovable DEF PartsKept, Valued
  <1>0. PICK Z : Z = {}
    OBVIOUS
  <1>3. \A d \in DOMAIN F : d \notin Z => F[d] = F[d] /\ Undisturbed(d, F, F, T, T1, M, M)
    BY <1>1 DEF Undisturbed
  <1>4. CallsWorth(F, T1, M, r)
    <2>1. CallsWorth(F, T, M, r)
      BY DEF Valued
    <2>2. \A d \in DOMAIN F : \A n \in Nat :
             d \in Z /\ Entitled(d, n, F, T1, r) => CallWorth(d, F[d], n, T1, M, r)
      BY <1>0
    <2> QED BY <1>2, <1>3, <2>1, <2>2, CallsStay
  <1>5. TasksWorth(T1, M, r)
    <2>1. \A j \in DOMAIN T1 : j \notin {k} => j \in DOMAIN T /\ T1[j] = T[j]
      BY <1>1
    <2>2. IsTasks(T) /\ TasksWorth(T, M, r)
      BY DEF Given, Valued
    <2>3. TaskWorth(k, g, M, r)
      BY <2>2 DEF TasksWorth, TaskWorth
    <2>4. \A j \in DOMAIN T1 : j \in {k} => TaskWorth(j, T1[j], M, r)
      BY <1>1, <2>3
    <2> QED BY <1>2, <2>1, <2>2, <2>4, TasksStay
  <1>6. Shared(F, T1, r)
    BY <1>1 DEF Valued, Shared
  <1>7. Splitters(S1, F, M, r)
    BY DEF Valued, Splitters
  <1>8. Moved(T1, M)
    BY <1>1 DEF Valued, Moved
  <1> QED BY <1>4, <1>5, <1>6, <1>7, <1>8 DEF Valued

-----------------------------------------------------------------------------
(* The values after each action. *)

\* The rules are those of the program.
LEMMA RulesStay ==
    ASSUME algorithm' = algorithm, whole' = whole
    PROVE  Rules' = Rules
  <1>1. StaticChunks' = StaticChunks
    BY DEF StaticChunks
  <1>2. Id(whole)' = Id(whole)
    OBVIOUS
  <1> QED BY <1>1, <1>2 DEF Rules

\* What a step that does not end the outermost call has to show.
LEMMA ValuedNext ==
    ASSUME VInv, answer.state = "none", UNCHANGED <<input, answer>>,
           Valued(stack', frame', task', moved', Rules)
    PROVE  VInv'
  <1>1. Rules' = Rules
    BY RulesStay DEF input
  <1>2. answer'.state = "none"
    OBVIOUS
  <1> QED BY <1>1, <1>2 DEF VInv

\* The values, as they are stated of any calls and tasks.
LEMMA VInvFacts ==
    ASSUME IInv, VInv
    PROVE  /\ Valued(stack, frame, task, moved, Rules) /\ CallsWorth(frame, task, moved, Rules)
           /\ TasksWorth(task, moved, Rules) /\ Shared(frame, task, Rules)
           /\ Splitters(stack, frame, moved, Rules) /\ Movable(moved)
           /\ Given(frame, task, Id(whole)) /\ Id(whole) = Rules.whole
           /\ IsStacks(stack) /\ Stacks(stack, frame, task, Id(whole))
  <1>1. Given(frame, task, Id(whole)) /\ IsStacks(stack) /\ Stacks(stack, frame, task, Id(whole))
    BY InvGood DEF Good
  <1>2. Valued(stack, frame, task, moved, Rules)
    BY DEF VInv
  <1>3. Moved(task, moved)
    BY <1>2 DEF Valued
  <1>4. Movable(moved)
    BY <1>1, <1>3, MovedMovable
  <1> QED BY <1>1, <1>2, <1>4, RulesAre DEF Valued

\* A call that is about to split its range, and how many threads it splits by.
LEMMA SplitsBy ==
    ASSUME IInv, VInv, NEW t \in Threads, At(t, "split"), NEW c, c = Top(t)
    PROVE  /\ frame[c].part \in Parts /\ c = Id(frame[c].part) /\ frame[c].part.grain = whole.grain
           /\ Equipped(frame[c].part, Rules)
           /\ \A n \in Nat : Entitled(c, n, frame, task, Rules) /\ algorithm.split = "auto" =>
                 ThreadsFor(frame[c].part, t) = Effective(c, n, moved, Rules)
  <1>1. /\ c \in DOMAIN frame /\ frame[c].pc = "split" /\ frame[c] \in Frames
        /\ CallShape(c, frame[c], task, Id(whole))
        /\ On(stack, t, Len(stack[t]), c) /\ Len(stack[t]) \in Nat
    BY AtCall
  <1>2. frame[c].part \in Parts /\ c = Id(frame[c].part)
    BY <1>1 DEF Frames, CallShape, Kept
  <1>3. /\ Shared(frame, task, Rules) /\ Splitters(stack, frame, moved, Rules)
        /\ CallsWorth(frame, task, moved, Rules)
    BY VInvFacts
  <1>4. Equipped(frame[c].part, Rules)
    BY <1>1, <1>3 DEF Shared
  <1>5. frame[c].part.grain = whole.grain
    BY <1>4, RulesAre DEF Equipped
  <1>6. ASSUME NEW n \in Nat, Entitled(c, n, frame, task, Rules), algorithm.split = "auto"
        PROVE  ThreadsFor(frame[c].part, t) = Effective(c, n, moved, Rules)
    <2>1. LastSplit(t, c, frame[c], moved, Rules)
      BY <1>1, <1>3, <1>6, RulesAre DEF Splitters
    <2>2. c = Rules.whole \/ frame[c].part.threads = n
      <3>1. CallWorth(c, frame[c], n, task, moved, Rules)
        BY <1>1, <1>3, <1>6, CallIsWorth
      <3> QED BY <1>1, <3>1 DEF CallWorth
    <2> QED BY <1>1, <2>1, <2>2, EffectiveThreads
  <1> QED BY <1>2, <1>4, <1>5, <1>6

\* What a call that goes on has to show.
Continues(c, f) ==
    \A n \in Nat :
        /\ CallWorth(c, frame[c], n, task, moved, Rules) /\ Entitled(c, n, frame, task, Rules)
        /\ Rules.split = "auto" => n \in 1..HardwareConcurrency
        /\ c = Rules.whole => n = HardwareConcurrency
        => CallWorth(c, f, n, task, moved, Rules)

\* A call that goes on.
LEMMA GoesOnValued ==
    ASSUME IInv, VInv, NEW c \in DOMAIN frame, NEW f \in Frames,
           answer.state = "none", frame' = [frame EXCEPT ![c] = f],
           Goes(c, frame[c], f, task), f.part = frame[c].part, Continues(c, f),
           UNCHANGED <<input, stack, task, moved, answer>>
    PROVE  VInv'
  <1>1. /\ Given(frame, task, Id(whole)) /\ Valued(stack, frame, task, moved, Rules)
        /\ CallsWorth(frame, task, moved, Rules) /\ Shared(frame, task, Rules)
    BY VInvFacts
  <1>2. Alters(frame, frame', c, f)
    BY <1>1, ExceptCall DEF Given
  <1>3. ASSUME NEW n \in Nat, Entitled(c, n, frame, task, Rules)
        PROVE  CallWorth(c, f, n, task, moved, Rules)
    <2>1. CallWorth(c, frame[c], n, task, moved, Rules)
      BY <1>1, <1>3, CallIsWorth
    <2>2. (Rules.split = "auto" => n \in 1..HardwareConcurrency) /\ (c = Rules.whole => n = HardwareConcurrency)
      BY <1>1, <1>3, EntitledThreads
    <2> QED BY <1>3, <2>1, <2>2 DEF Continues
  <1>4. Valued(stack, frame', task, moved, Rules)
    BY <1>1, <1>2, <1>3, GoesValued
  <1> QED BY <1>4, ValuedNext

\* The values are right when a call finds its range too small to split,
LEMMA BeginLoopValued ==
    ASSUME IInv, VInv, NEW t \in Threads, BeginLoop(t)
    PROVE  VInv'
  <1>1. PICK c : c = Top(t)
    OBVIOUS
  <1>2. /\ c \in DOMAIN frame /\ frame[c].pc = "split" /\ frame[c] \in Frames /\ Here(t) = frame[c]
        /\ CallShape(c, frame[c], task, Id(whole)) /\ c \in Ranges /\ answer.state = "none"
    BY <1>1, AtCall DEF BeginLoop
  <1>3. PICK pc \in {"leave", "loop"} :
           pc = IF Length(frame[c].part) = 0 THEN "leave" ELSE "loop"
    OBVIOUS
  <1>4. PICK f : f = [frame[c] EXCEPT !.value = <<Initial>>, !.pc = pc]
    OBVIOUS
  <1>5. frame' = [frame EXCEPT ![c] = f]
    BY <1>1, <1>2, <1>3, <1>4 DEF BeginLoop, Become
  <1>6. <<Initial>> \in Seq(Int)
    BY DEF Initial
  <1>7. /\ f \in Frames /\ f.pc = pc /\ f.sub = frame[c].sub /\ f.next = frame[c].next
        /\ f.ok = frame[c].ok /\ f.part = frame[c].part /\ f.value = <<Initial>>
    BY <1>2, <1>4, <1>6 DEF Frames, Pcs
  <1>8. /\ frame[c].part \in Parts /\ c = Id(frame[c].part) /\ frame[c].part.grain = whole.grain
        /\ \A n \in Nat : Entitled(c, n, frame, task, Rules) /\ algorithm.split = "auto" =>
              ThreadsFor(frame[c].part, t) = Effective(c, n, moved, Rules)
    BY <1>1, SplitsBy DEF BeginLoop
  <1>9. c[1] <= c[2] /\ (pc = "loop" <=> Proper(c))
    <2>1. c[1] = frame[c].part.first /\ c[2] = frame[c].part.end /\ c[1] <= c[2]
      BY <1>8, IdRange
    <2> QED BY <1>2, <1>3, <2>1 DEF Length, Proper, Ranges
  <1>10. Goes(c, frame[c], f, task)
    BY <1>2, <1>7, <1>9 DEF Goes, Kept
  <1>11. Continues(c, f)
    <2>1. SUFFICES ASSUME NEW n \in Nat, Entitled(c, n, frame, task, Rules),
                          Rules.split = "auto" => n \in 1..HardwareConcurrency
                   PROVE  CallWorth(c, f, n, task, moved, Rules)
      BY DEF Continues
    <2>2. Length(Split(frame[c].part, t).sub) = 0
      BY <1>2 DEF BeginLoop
    <2>3. Unsplit(c, n, moved, Rules)
      BY <1>8, <2>1, <2>2, SplitUnsplit
    <2>4. f.next = c[1] /\ f.pc = IF Proper(c) THEN "loop" ELSE "leave"
      BY <1>2, <1>3, <1>7, <1>9 DEF CallShape
    <2> QED BY <1>2, <1>7, <1>9, <2>1, <2>3, <2>4, VInvFacts, BeginsWorth
  <1>12. UNCHANGED <<input, stack, task, moved, answer>>
    BY DEF BeginLoop
  <1> QED BY <1>2, <1>5, <1>7, <1>10, <1>11, <1>12, GoesOnValued

\* when spawning a task throws,
LEMMA SpawnThrowsValued ==
    ASSUME IInv, VInv, NEW t \in Threads, SpawnThrows(t)
    PROVE  VInv'
  <1>1. PICK c : c = Top(t)
    OBVIOUS
  <1>2. /\ c \in DOMAIN frame /\ frame[c].pc = "split" /\ frame[c] \in Frames /\ Here(t) = frame[c]
        /\ answer.state = "none"
    BY <1>1, AtCall DEF SpawnThrows
  <1>3. PICK f : f = [frame[c] EXCEPT !.ok = FALSE, !.pc = "leave"]
    OBVIOUS
  <1>4. frame' = [frame EXCEPT ![c] = f]
    BY <1>1, <1>2, <1>3 DEF SpawnThrows, Become
  <1>5. f \in Frames /\ f.pc = "leave" /\ f.sub = frame[c].sub /\ f.ok = FALSE /\ f.part = frame[c].part
    BY <1>2, <1>3 DEF Frames, Pcs
  <1>6. Goes(c, frame[c], f, task)
    BY <1>2, <1>5 DEF Goes
  <1>7. Continues(c, f)
    BY <1>5, FailedWorth DEF Continues
  <1>8. UNCHANGED <<input, stack, task, moved, answer>>
    BY DEF SpawnThrows
  <1> QED BY <1>2, <1>4, <1>5, <1>6, <1>7, <1>8, GoesOnValued

\* when a call joins its task,
LEMMA JoinValued ==
    ASSUME IInv, VInv, NEW t \in Threads, Join(t)
    PROVE  VInv'
  <1>1. PICK c : c = Top(t)
    OBVIOUS
  <1>2. /\ c \in DOMAIN frame /\ frame[c].pc = "join" /\ frame[c] \in Frames /\ Here(t) = frame[c]
        /\ CallShape(c, frame[c], task, Id(whole)) /\ answer.state = "none"
    BY <1>1, AtCall DEF Join
  <1>3. PICK k : k = task[frame[c].sub]
    OBVIOUS
  <1>4. k \in Locals
    <2>1. frame[c].sub \in DOMAIN task
      BY <1>2 DEF CallShape, Parents
    <2>2. IsTasks(task)
      BY InvGood DEF Good, Given
    <2> QED BY <1>3, <2>1, <2>2 DEF IsTasks
  <1>5. PICK ok \in BOOLEAN :
           /\ frame' = [frame EXCEPT ![c] = [frame[c] EXCEPT !.value = frame[c].value \o k.value,
                                               !.ok = ok, !.pc = "spin"]]
           /\ ok => frame[c].ok /\ k.state = "completed"
    <2>1. PICK throws \in {FALSE, Throws /\ (frame[c].ok /\ k.state = "completed")} :
             Become(t, [frame[c] EXCEPT !.value = frame[c].value \o k.value,
                          !.ok = (frame[c].ok /\ k.state = "completed") /\ ~ throws, !.pc = "spin"])
      BY <1>1, <1>2, <1>3 DEF Join
    <2>2. PICK ok \in BOOLEAN : ok = ((frame[c].ok /\ k.state = "completed") /\ ~ throws)
      OBVIOUS
    <2> QED BY <1>1, <2>1, <2>2 DEF Become
  <1>6. PICK v : v = frame[c].value \o k.value
    OBVIOUS
  <1>7. v \in Seq(Int)
    BY <1>2, <1>4, <1>6, ConcatProperties DEF Frames, Locals
  <1>8. PICK f : f = [frame[c] EXCEPT !.value = v, !.ok = ok, !.pc = "spin"]
    OBVIOUS
  <1>9. frame' = [frame EXCEPT ![c] = f]
    BY <1>5, <1>6, <1>8
  <1>10. /\ f \in Frames /\ f.pc = "spin" /\ f.sub = frame[c].sub /\ f.ok = ok /\ f.part = frame[c].part
         /\ f.value = v
    BY <1>2, <1>7, <1>8 DEF Frames, Pcs
  <1>11. Goes(c, frame[c], f, task)
    <2>1. task[frame[c].sub].state \in Final
      BY <1>1, <1>2 DEF Join
    <2> QED BY <1>2, <1>10, <2>1 DEF Goes, Kept
  <1>12. f.ok => frame[c].ok /\ task[f.sub].state = "completed" /\ f.value = frame[c].value \o task[f.sub].value
    BY <1>3, <1>5, <1>6, <1>10
  <1>13. Continues(c, f)
    <2>1. SUFFICES ASSUME NEW n \in Nat, CallWorth(c, frame[c], n, task, moved, Rules),
                          Rules.split = "auto" => n \in 1..HardwareConcurrency,
                          c = Rules.whole => n = HardwareConcurrency
                   PROVE  CallWorth(c, f, n, task, moved, Rules)
      BY DEF Continues
    <2>2. Given(frame, task, Id(whole)) /\ Movable(moved) /\ TasksWorth(task, moved, Rules)
      BY VInvFacts
    <2> QED BY <1>2, <1>10, <1>12, <2>1, <2>2, JoinsWorth
  <1>14. UNCHANGED <<input, stack, task, moved, answer>>
    BY DEF Join
  <1> QED BY <1>2, <1>9, <1>10, <1>11, <1>13, <1>14, GoesOnValued

\* when it finds that task released,
LEMMA SpinValued ==
    ASSUME IInv, VInv, NEW t \in Threads, Spin(t)
    PROVE  VInv'
  <1>1. PICK c : c = Top(t)
    OBVIOUS
  <1>2. /\ c \in DOMAIN frame /\ frame[c].pc = "spin" /\ frame[c] \in Frames /\ Here(t) = frame[c]
        /\ answer.state = "none"
    BY <1>1, AtCall DEF Spin
  <1>3. PICK f : f = [frame[c] EXCEPT !.pc = "leave"]
    OBVIOUS
  <1>4. frame' = [frame EXCEPT ![c] = f]
    BY <1>1, <1>2, <1>3 DEF Spin, Become
  <1>5. /\ f \in Frames /\ f.pc = "leave" /\ f.sub = frame[c].sub /\ f.ok = frame[c].ok
        /\ f.part = frame[c].part /\ f.value = frame[c].value
    BY <1>2, <1>3 DEF Frames, Pcs
  <1>6. Goes(c, frame[c], f, task)
    <2>1. ~ task[frame[c].sub].held
      BY <1>1, <1>2 DEF Spin
    <2> QED BY <1>2, <1>5, <2>1 DEF Goes
  <1>7. Continues(c, f)
    BY <1>2, <1>5, SpinsWorth DEF Continues
  <1>8. UNCHANGED <<input, stack, task, moved, answer>>
    BY DEF Spin
  <1> QED BY <1>2, <1>4, <1>5, <1>6, <1>7, <1>8, GoesOnValued

\* and when it applies the function, to an element of its range.
LEMMA ApplyValued ==
    ASSUME IInv, VInv, NEW t \in Threads, Apply(t)
    PROVE  VInv'
  <1>1. PICK c : c = Top(t)
    OBVIOUS
  <1>2. /\ c \in DOMAIN frame /\ frame[c].pc = "loop" /\ frame[c] \in Frames /\ Here(t) = frame[c]
        /\ CallShape(c, frame[c], task, Id(whole)) /\ c \in Ranges /\ answer.state = "none"
    BY <1>1, AtCall DEF Apply
  <1>3. PICK i \in Int : i = frame[c].next
    BY <1>2 DEF Frames
  <1>4. /\ c[2] = frame[c].part.end /\ frame[c].part.end \in Int
        /\ c[1] <= i /\ i < frame[c].part.end /\ i # Initial
    <2>1. c = Id(frame[c].part) /\ frame[c].part \in Parts
      BY <1>2 DEF Frames, CallShape, Kept
    <2>2. c[2] = frame[c].part.end
      BY <2>1, IdRange
    <2>3. Id(whole)[1] = 1
      BY InvGood, IdRange DEF IInv, Types
    <2>4. c[1] <= i /\ i < c[2] /\ 1 <= c[1] /\ c[1] \in Int /\ c[2] \in Int
      BY <1>2, <1>3, <2>3 DEF CallShape, Has, Within, Ranges
    <2> QED BY <2>2, <2>4 DEF Initial
  <1>5. UNCHANGED <<input, stack, task, moved, answer>>
    BY DEF Apply
  <1>6. CASE Become(t, [frame[c] EXCEPT !.value = Append(frame[c].value, i),
                          !.next = i + 1, !.pc = IF i + 1 = frame[c].part.end THEN "leave" ELSE "loop"])
    <2>1. PICK v : v = Append(frame[c].value, i)
      OBVIOUS
    <2>2. v \in Seq(Int)
      BY <1>2, <2>1, AppendProperties DEF Frames
    <2>3. PICK j \in Int : j = i + 1
      OBVIOUS
    <2>4. PICK pc \in {"leave", "loop"} : pc = IF i + 1 = frame[c].part.end THEN "leave" ELSE "loop"
      OBVIOUS
    <2>5. PICK f : f = [frame[c] EXCEPT !.value = v, !.next = j, !.pc = pc]
      OBVIOUS
    <2>6. frame' = [frame EXCEPT ![c] = f]
      BY <1>1, <1>6, <2>1, <2>3, <2>4, <2>5 DEF Become
    <2>7. /\ f \in Frames /\ f.next = j /\ f.pc = pc /\ f.sub = frame[c].sub
          /\ f.ok = frame[c].ok /\ f.part = frame[c].part /\ f.value = v
      BY <1>2, <2>2, <2>5 DEF Frames, Pcs
    <2>8. IF pc = "loop" THEN j < c[2] ELSE i + 1 = c[2]
      BY <1>4, <2>3, <2>4
    <2>9. Goes(c, frame[c], f, task)
      BY <1>2, <1>3, <2>3, <2>7, <2>8 DEF Goes, Kept
    <2>10. Continues(c, f)
      <3>1. SUFFICES ASSUME NEW n \in Nat, CallWorth(c, frame[c], n, task, moved, Rules),
                            Rules.split = "auto" => n \in 1..HardwareConcurrency
                     PROVE  CallWorth(c, f, n, task, moved, Rules)
        BY DEF Continues
      <3>2. /\ f.value = Append(frame[c].value, i) /\ f.next = i + 1 /\ f.pc \in {"loop", "leave"}
            /\ f.pc = "leave" => i + 1 = c[2]
        BY <2>1, <2>3, <2>7, <2>8
      <3>3. Movable(moved)
        BY VInvFacts
      <3> QED BY <1>2, <1>3, <1>4, <3>1, <3>2, <3>3, AppliesWorth
    <2> QED BY <1>2, <1>5, <2>6, <2>7, <2>9, <2>10, GoesOnValued
  <1>7. CASE Become(t, [frame[c] EXCEPT !.ok = FALSE, !.pc = "leave"])
    <2>1. PICK f : f = [frame[c] EXCEPT !.ok = FALSE, !.pc = "leave"]
      OBVIOUS
    <2>2. frame' = [frame EXCEPT ![c] = f]
      BY <1>1, <1>7, <2>1 DEF Become
    <2>3. f \in Frames /\ f.pc = "leave" /\ f.sub = frame[c].sub /\ f.ok = FALSE /\ f.part = frame[c].part
      BY <1>2, <2>1 DEF Frames, Pcs
    <2>4. Goes(c, frame[c], f, task)
      BY <1>2, <2>3 DEF Goes
    <2>5. Continues(c, f)
      BY <2>3, FailedWorth DEF Continues
    <2> QED BY <1>2, <1>5, <2>2, <2>3, <2>4, <2>5, GoesOnValued
  <1> QED BY <1>2, <1>3, <1>6, <1>7 DEF Apply

\* when a call spawns a task, which the inline scheduler runs at once,
LEMMA SpawnValued ==
    ASSUME IInv, VInv, NEW t \in Threads, Spawn(t)
    PROVE  VInv'
  <1>1. PICK c : c = Top(t)
    OBVIOUS
  <1>2. /\ c \in DOMAIN frame /\ frame[c].pc = "split" /\ frame[c] \in Frames /\ Here(t) = frame[c]
        /\ CallShape(c, frame[c], task, Id(whole)) /\ c \in Ranges /\ answer.state = "none"
        /\ On(stack, t, Len(stack[t]), c) /\ Len(stack[t]) \in Nat
    BY <1>1, AtCall DEF Spawn
  <1>3. PICK s : s = Split(frame[c].part, t)
    OBVIOUS
  <1>4. algorithm.split \in {"static", "auto", "invoke"} /\ Length(s.sub) # 0
    BY <1>2, <1>3, InvGood DEF Spawn
  <1>5. /\ frame[c].part \in Parts /\ c = Id(frame[c].part) /\ frame[c].part.grain = whole.grain
        /\ Equipped(frame[c].part, Rules)
        /\ \A n \in Nat : Entitled(c, n, frame, task, Rules) /\ algorithm.split = "auto" =>
              ThreadsFor(frame[c].part, t) = Effective(c, n, moved, Rules)
    BY <1>1, SplitsBy DEF Spawn
  <1>6. s.rest \in Parts /\ s.sub \in Parts /\ InTwo(c, Id(s.rest), Id(s.sub))
    BY <1>3, <1>4, <1>5, SplitParts
  <1>7. PICK p \in Parts : p = s.sub
    BY <1>6
  <1>8. PICK k \in Ranges : k = Id(p)
    BY IdRange
  <1>9. PICK f : f = [frame[c] EXCEPT !.part = s.rest, !.sub = k, !.pc = "spawned"]
    OBVIOUS
  <1>10. f \in Frames /\ f.part = s.rest /\ f.sub = k /\ f.pc = "spawned" /\ f.ok = frame[c].ok
    BY <1>2, <1>6, <1>9 DEF Frames, Pcs
  <1>11. PICK F1 : F1 = [frame EXCEPT ![c] = f]
    OBVIOUS
  <1>12. PICK g : g = LocalTask(p, "queued")
    OBVIOUS
  <1>13. g \in Locals /\ g.part = p /\ g.held /\ g.state = "queued"
    BY <1>12, LocalTaskType
  <1>14. PICK T1 : T1 = Put(task, k, g)
    OBVIOUS
  <1>15. Good(stack, frame, task, applied, faulty, Thrown, Id(whole))
    BY InvGood
  <1>16. IsCalls(frame) /\ IsTasks(task) /\ IsStacks(stack)
    BY <1>15 DEF Good, Given
  <1>17. Spawns(frame, F1, task, T1, c, f, k, g)
    <2>1. Alters(frame, F1, c, f)
      BY <1>2, <1>10, <1>11, <1>16, ExceptCall
    <2>2. TaskIs(task, T1, k, g)
      BY <1>13, <1>14, <1>16, PutTask
    <2>3. InTwo(c, Kept(f), k)
      BY <1>6, <1>7, <1>8, <1>10 DEF Kept
    <2> QED BY <1>2, <1>8, <1>10, <1>13, <2>1, <2>2, <2>3 DEF Spawns
  <1>18. Good(stack, F1, T1, applied, faulty, Thrown, Id(whole)) /\ k \notin Touched(frame, task)
    BY <1>15, <1>17, SpawnsGood
  <1>19. Valued(stack, F1, T1, moved, Rules)
    <2>1. /\ Given(frame, task, Id(whole)) /\ Stacks(stack, frame, task, Id(whole))
          /\ Valued(stack, frame, task, moved, Rules)
      BY VInvFacts
    <2>2. Sharing(f.part, Rules) /\ Sharing(g.part, Rules) /\ (Rules.split = "auto" => f.part.last = t)
      <3>1. /\ Sharing(s.rest, Rules) /\ Sharing(s.sub, Rules)
            /\ algorithm.split = "auto" => s.rest.last = t
        BY <1>3, <1>4, <1>5, SplitShared
      <3> QED BY <1>7, <1>10, <1>13, <3>1, RulesAre
    <2>3. ASSUME NEW n \in Nat, Entitled(c, n, frame, task, Rules)
          PROVE  Divided(c, Kept(f), k, f.part.threads, g.part.threads, n, moved, Rules)
      <3>1. Divided(c, Id(s.rest), Id(s.sub), s.rest.threads, s.sub.threads, n, moved, Rules)
        BY <1>3, <1>4, <1>5, <2>3, SplitDivided
      <3>2. Kept(f) = Id(s.rest) /\ k = Id(s.sub)
        BY <1>7, <1>8, <1>10 DEF Kept
      <3> QED BY <1>7, <1>10, <1>13, <3>1, <3>2
    <2> QED BY <1>2, <1>17, <1>18, <2>1, <2>2, <2>3, SpawnsValued
  <1>20. UNCHANGED <<input, moved, answer>>
    BY DEF Spawn
  <1>21. CASE algorithm.sched # "inline"
    <2>1. frame' = F1 /\ task' = T1 /\ stack' = stack
      BY <1>1, <1>2, <1>3, <1>7, <1>8, <1>9, <1>11, <1>12, <1>14, <1>21 DEF Spawn, LocalTask
    <2>2. Valued(stack', frame', task', moved', Rules)
      BY <1>19, <1>20, <2>1
    <2> QED BY <1>2, <1>20, <2>2, ValuedNext
  <1>22. CASE algorithm.sched = "inline"
    <2>1. /\ frame' = Put(F1, k, Call(p)) /\ task' = Put(task, k, LocalTask(p, "running"))
          /\ stack' = [stack EXCEPT ![t] = Append(@, k)]
      BY <1>1, <1>2, <1>3, <1>7, <1>8, <1>9, <1>11, <1>22 DEF Spawn, LocalTask, Push
    <2>2. Pushes(stack, stack', t, k)
      BY <1>16, <2>1, PushOn
    <2>3. Enters(F1, frame', k, Call(p)) /\ First(k, Call(p))
      <3>1. IsCalls(F1)
        BY <1>18 DEF Good, Given
      <3> QED BY <1>8, <2>1, <3>1, PutCall, CallFrame
    <2>4. /\ LocalTask(p, "running") \in Locals /\ LocalTask(p, "running").part = p
          /\ LocalTask(p, "running").held /\ LocalTask(p, "running").state = "running"
      BY LocalTaskType
    <2>5. TaskIs(task, task', k, LocalTask(p, "running"))
      BY <1>16, <2>1, <2>4, PutTask
    <2>6. /\ DOMAIN T1 = DOMAIN task \union {k} /\ k \in DOMAIN T1 /\ T1[k] = g
          /\ \A j \in DOMAIN task : j # k => T1[j] = task[j]
      BY <1>14 DEF Put
    <2>7. TaskIs(T1, task', k, LocalTask(p, "running"))
      BY <2>5, <2>6 DEF TaskIs
    <2>8. Runs(F1, frame', T1, task', k, Call(p), LocalTask(p, "running"))
      BY <1>13, <2>3, <2>4, <2>6, <2>7 DEF Runs
    <2>9. Good(stack', frame', task', applied, faulty, Thrown, Id(whole))
      BY <1>18, <2>2, <2>8, RunsGood
    <2>10. /\ Given(F1, T1, Id(whole)) /\ Stacks(stack, F1, T1, Id(whole))
           /\ Given(frame', task', Id(whole)) /\ Id(whole) = Rules.whole
      BY <1>18, <2>9, RulesAre DEF Good
    <2>11. Call(p).part = T1[k].part /\ (Rules.split = "auto" => (k \in moved <=> T1[k].part.last # t))
      <3>1. Rules.split = "auto" => p.last = t
        BY <1>3, <1>4, <1>5, <1>7, SplitShared, RulesAre
      <3>2. k \notin moved
        BY <1>18 DEF IInv, Types, Touched
      <3>3. Call(p).part = p
        BY DEF Call
      <3> QED BY <1>13, <2>6, <3>1, <3>2, <3>3
    <2>12. Valued(stack', frame', task', moved, Rules)
      BY <1>19, <2>2, <2>8, <2>10, <2>11, RunsValued
    <2> QED BY <1>2, <1>20, <2>12, ValuedNext
  <1> QED BY <1>21, <1>22

\* when it calls itself for the rest of its range,
LEMMA RecurseValued ==
    ASSUME IInv, VInv, NEW t \in Threads, Recurse(t)
    PROVE  VInv'
  <1>1. PICK c : c = Top(t)
    OBVIOUS
  <1>2. /\ c \in DOMAIN frame /\ frame[c].pc = "spawned" /\ frame[c] \in Frames /\ Here(t) = frame[c]
        /\ answer.state = "none" /\ On(stack, t, Len(stack[t]), c) /\ Len(stack[t]) \in Nat
    BY <1>1, AtCall DEF Recurse
  <1>3. PICK p \in Parts : p = frame[c].part
    BY <1>2 DEF Frames
  <1>4. PICK x \in Ranges : x = Id(p)
    BY IdRange
  <1>5. x = Kept(frame[c])
    BY <1>3, <1>4 DEF Kept
  <1>6. PICK f : f = [frame[c] EXCEPT !.pc = "rest"]
    OBVIOUS
  <1>7. /\ f \in Frames /\ f.pc = "rest" /\ f.sub = frame[c].sub /\ Kept(f) = Kept(frame[c])
        /\ f.ok = frame[c].ok /\ f.part = frame[c].part
    BY <1>2, <1>6 DEF Frames, Pcs, Kept
  <1>8. PICK G : G = [frame EXCEPT ![c] = f]
    OBVIOUS
  <1>9. frame' = Put(G, x, Call(p)) /\ stack' = [stack EXCEPT ![t] = Append(@, x)]
    BY <1>1, <1>2, <1>3, <1>4, <1>6, <1>8 DEF Recurse, Push
  <1>10. /\ Given(frame, task, Id(whole)) /\ IsStacks(stack) /\ Stacks(stack, frame, task, Id(whole))
         /\ Valued(stack, frame, task, moved, Rules) /\ Id(whole) = Rules.whole
    BY VInvFacts
  <1>11. IsCalls(frame)
    BY <1>10 DEF Given
  <1>12. Alters(frame, G, c, f)
    BY <1>2, <1>7, <1>8, <1>11, ExceptCall
  <1>13. Enters(G, frame', x, Call(p)) /\ First(x, Call(p))
    <2>1. IsCalls(G)
      BY <1>12 DEF Alters
    <2> QED BY <1>4, <1>9, <2>1, PutCall, CallFrame
  <1>14. Recurses(frame, frame', c, f, x, Call(p))
    <2>1. /\ IsCalls(frame') /\ DOMAIN frame' = DOMAIN G \union {x} /\ frame'[x] = Call(p)
          /\ \A d \in DOMAIN G : d # x => frame'[d] = G[d]
          /\ Call(p) \in Frames
      BY <1>13 DEF Enters
    <2>2. /\ DOMAIN G = DOMAIN frame /\ G[c] = f /\ \A d \in DOMAIN frame : d # c => G[d] = frame[d]
      BY <1>12 DEF Alters
    <2> QED BY <1>2, <1>5, <1>7, <1>13, <2>1, <2>2 DEF Recurses
  <1>15. Given(frame', task, Id(whole)) /\ x \notin Touched(frame, task)
    BY <1>10, <1>14, RecursesTree
  <1>16. Pushes(stack, stack', t, x)
    BY <1>9, <1>10, PushOn
  <1>17. Call(p).part = frame[c].part
    BY <1>3 DEF Call
  <1>18. Valued(stack', frame', task, moved, Rules)
    BY <1>2, <1>7, <1>10, <1>14, <1>15, <1>16, <1>17, RecursesValued
  <1>19. UNCHANGED <<input, task, moved, answer>>
    BY DEF Recurse
  <1> QED BY <1>2, <1>18, <1>19, ValuedNext

\* when a thread takes a queued task,
LEMMA TakeValued ==
    ASSUME IInv, VInv, NEW t \in Threads, Take(t)
    PROVE  VInv'
  <1>1. /\ Given(frame, task, Id(whole)) /\ IsStacks(stack) /\ Stacks(stack, frame, task, Id(whole))
        /\ Valued(stack, frame, task, moved, Rules) /\ Id(whole) = Rules.whole
    BY VInvFacts
  <1>2. IsCalls(frame) /\ IsTasks(task)
    BY <1>1 DEF Given
  <1>3. PICK k \in DOMAIN task :
           /\ task[k].state = "queued" /\ Push(t, k)
           /\ \/ /\ task' = [task EXCEPT ![k].state = "running"]
                 /\ frame' = Put(frame, k, Call(task[k].part))
                 /\ moved' = IF task[k].part.last = t THEN moved ELSE moved \union {k}
              \/ /\ task' = [task EXCEPT ![k].state = "canceled"]
                 /\ UNCHANGED <<frame, moved>>
    BY DEF Take
  <1>4. /\ task[k] \in Locals /\ TaskShape(k, task[k], frame, Id(whole)) /\ k \in Ranges
        /\ task[k].part \in Parts /\ Id(task[k].part) = k /\ task[k].held
    <2>1. task[k] \in Locals /\ TaskShape(k, task[k], frame, Id(whole)) /\ k \in Ranges
      BY <1>1, <1>2, TreeFacts DEF IsTasks
    <2> QED BY <1>3, <2>1 DEF Locals, TaskShape, Final
  <1>5. answer.state = "none"
    BY <1>4, InProgress
  <1>6. Pushes(stack, stack', t, k)
    BY <1>1, <1>3, <1>4, PushOn DEF Push
  <1>7. UNCHANGED <<input, answer>>
    BY DEF Take
  <1>8. k \notin DOMAIN frame /\ k \notin moved
    BY <1>1, <1>3, <1>4 DEF TaskShape, Valued, Moved
  <1>9. CASE /\ task' = [task EXCEPT ![k].state = "running"]
             /\ frame' = Put(frame, k, Call(task[k].part))
             /\ moved' = IF task[k].part.last = t THEN moved ELSE moved \union {k}
    <2>1. PICK g : g = [task[k] EXCEPT !.state = "running"]
      OBVIOUS
    <2>2. /\ g \in Locals /\ g.state = "running" /\ g.held = task[k].held /\ g.part = task[k].part
      BY <1>4, <2>1 DEF Locals
    <2>3. task' = [task EXCEPT ![k] = g]
      BY <1>9, <2>1
    <2>4. TaskIs(task, task', k, g)
      BY <1>2, <2>2, <2>3, ExceptTask
    <2>5. Enters(frame, frame', k, Call(task[k].part)) /\ First(k, Call(task[k].part))
      BY <1>2, <1>4, <1>9, PutCall, CallFrame
    <2>6. Runs(frame, frame', task, task', k, Call(task[k].part), g)
      BY <1>3, <2>2, <2>4, <2>5 DEF Runs
    <2>7. Given(frame', task', Id(whole))
      BY <1>1, <2>6, RunsTree
    <2>8. /\ Call(task[k].part).part = task[k].part /\ moved' \in {moved, moved \union {k}}
          /\ k \in moved' <=> task[k].part.last # t
      BY <1>8, <1>9 DEF Call
    <2>9. Valued(stack', frame', task', moved', Rules)
      BY <1>1, <1>6, <2>6, <2>7, <2>8, RunsValued
    <2> QED BY <1>5, <1>7, <2>9, ValuedNext
  <1>10. CASE task' = [task EXCEPT ![k].state = "canceled"] /\ UNCHANGED <<frame, moved>>
    <2>1. PICK g : g = [task[k] EXCEPT !.state = "canceled"]
      OBVIOUS
    <2>2. /\ g \in Locals /\ g.state = "canceled" /\ g.part = task[k].part
      BY <1>4, <2>1 DEF Locals, Final
    <2>3. task' = [task EXCEPT ![k] = g]
      BY <1>10, <2>1
    <2>4. TaskIs(task, task', k, g)
      BY <1>2, <2>2, <2>3, ExceptTask
    <2>5. \A u \in Threads : \A n \in Nat : \A d \in DOMAIN frame : On(stack', u, n, d) => On(stack, u, n, d)
      BY <1>6, <1>8 DEF Pushes
    <2>6. Valued(stack', frame, task', moved, Rules)
      BY <1>1, <2>2, <2>4, <2>5, ChangesTask
    <2> QED BY <1>5, <1>7, <1>10, <2>6, ValuedNext
  <1> QED BY <1>3, <1>9, <1>10

\* when the thread that ran a task releases it,
LEMMA ReleaseValued ==
    ASSUME IInv, VInv, NEW t \in Threads, Release(t)
    PROVE  VInv'
  <1>1. /\ Given(frame, task, Id(whole)) /\ IsStacks(stack) /\ Stacks(stack, frame, task, Id(whole))
        /\ Valued(stack, frame, task, moved, Rules)
    BY VInvFacts
  <1>2. IsTasks(task)
    BY <1>1 DEF Given
  <1>3. PICK k : k = Top(t)
    OBVIOUS
  <1>4. stack[t] # <<>> /\ k \notin DOMAIN frame
    BY <1>3 DEF Release
  <1>5. answer.state = "none"
    BY <1>4, InProgress
  <1>6. /\ Pops(stack, stack', t, k) /\ k \in Ranges /\ On(stack, t, Len(stack[t]), k) /\ Len(stack[t]) \in Nat
    BY <1>1, <1>3, <1>4, PopOn, TopOn DEF Release, Pop, Top
  <1>7. Placed(stack, frame, task, Id(whole), t, Len(stack[t]), k)
    BY <1>1, <1>6 DEF Stacks
  <1>8. k \in DOMAIN task /\ task[k].held /\ task[k].state \in Final
    BY <1>4, <1>7 DEF Placed
  <1>9. PICK g : g = [task[k] EXCEPT !.held = FALSE]
    OBVIOUS
  <1>10. /\ g \in Locals /\ g.state = task[k].state /\ g.part = task[k].part /\ g.value = task[k].value
         /\ g.state # "queued"
    BY <1>2, <1>8, <1>9 DEF IsTasks, Locals, Final
  <1>11. TaskIs(task, task', k, g)
    <2>1. task' = [task EXCEPT ![k] = g]
      BY <1>3, <1>9 DEF Release
    <2> QED BY <1>2, <1>8, <1>10, <2>1, ExceptTask
  <1>12. \A u \in Threads : \A n \in Nat : \A d \in DOMAIN frame : On(stack', u, n, d) => On(stack, u, n, d)
    BY <1>6 DEF Pops
  <1>13. Valued(stack', frame, task', moved, Rules)
    BY <1>1, <1>8, <1>10, <1>11, <1>12, ChangesTask
  <1>14. UNCHANGED <<input, frame, moved, answer>>
    BY DEF Release
  <1> QED BY <1>5, <1>13, <1>14, ValuedNext

\* when a call leaves into the task it is the function of,
LEMMA LeaveTaskValued ==
    ASSUME IInv, VInv, NEW t \in Threads, NEW c, c = Top(t), c \in DOMAIN frame, frame[c].pc = "leave",
           c \in DOMAIN task,
           task' = [task EXCEPT ![c] = [task[c] EXCEPT !.value = frame[c].value,
                      !.state = IF frame[c].ok THEN "completed" ELSE "canceled"]],
           frame' = Remove(frame, c), UNCHANGED <<input, stack, moved, answer>>
    PROVE  VInv'
  <1>1. /\ Given(frame, task, Id(whole)) /\ Valued(stack, frame, task, moved, Rules) /\ Id(whole) = Rules.whole
    BY VInvFacts
  <1>2. IsCalls(frame) /\ IsTasks(task)
    BY <1>1 DEF Given
  <1>3. PICK state \in Final : state = IF frame[c].ok THEN "completed" ELSE "canceled"
    BY DEF Final
  <1>4. PICK g : g = [task[c] EXCEPT !.value = frame[c].value, !.state = state]
    OBVIOUS
  <1>5. task[c] \in Locals /\ frame[c].value \in Seq(Int)
    BY <1>2 DEF IsTasks, IsCalls, Frames
  <1>6. /\ g \in Locals /\ g.held = task[c].held /\ g.part = task[c].part /\ g.state = state
        /\ g.value = frame[c].value
    BY <1>4, <1>5 DEF Locals
  <1>7. task' = [task EXCEPT ![c] = g]
    BY <1>3, <1>4
  <1>8. EndsTask(frame, frame', task, task', c, g)
    <2>1. TaskIs(task, task', c, g)
      <3>1. TaskIs(task, [task EXCEPT ![c] = g], c, g)
        BY <1>2, <1>6, ExceptTask
      <3> QED BY <1>7, <3>1
    <2>2. Leaves(frame, frame', c)
      BY <1>2, RemoveCall
    <2> QED BY <1>3, <1>6, <2>1, <2>2 DEF EndsTask
  <1>9. Valued(stack, frame', task', moved, Rules)
    BY <1>1, <1>6, <1>8, EndsTaskValued
  <1>10. answer.state = "none"
    BY InProgress
  <1> QED BY <1>9, <1>10, ValuedNext

\* into the call below it,
LEMMA LeaveCallValued ==
    ASSUME IInv, VInv, NEW t \in Threads, NEW c, c = Top(t), c \in DOMAIN frame, frame[c].pc = "leave",
           c \notin DOMAIN task, c # Id(whole), NEW b, b = stack[t][Len(stack[t]) - 1],
           On(stack, t, Len(stack[t]), c), Len(stack[t]) \in Nat, Pops(stack, stack', t, c),
           frame' = [Remove(frame, c) EXCEPT ![b] =
                       [frame[b] EXCEPT !.pc = "join", !.value = frame[c].value, !.ok = frame[c].ok]],
           UNCHANGED <<input, task, moved, answer>>
    PROVE  VInv'
  <1>1. /\ Given(frame, task, Id(whole)) /\ IsStacks(stack) /\ Stacks(stack, frame, task, Id(whole))
        /\ Valued(stack, frame, task, moved, Rules) /\ Id(whole) = Rules.whole
    BY VInvFacts
  <1>2. IsCalls(frame) /\ c \in Ranges
    BY <1>1 DEF Given, IsCalls
  <1>3. Called(stack, frame, t, Len(stack[t]), c)
    <2>1. Placed(stack, frame, task, Id(whole), t, Len(stack[t]), c)
      BY <1>1, <1>2 DEF Stacks
    <2> QED BY <2>1 DEF Placed
  <1>4. b \in DOMAIN frame /\ frame[b].pc = "rest" /\ Kept(frame[b]) = c /\ b # c
    BY <1>3 DEF Called, On
  <1>5. frame[b] \in Frames /\ frame[c] \in Frames
    BY <1>2, <1>4 DEF IsCalls
  <1>6. PICK f : f = [frame[b] EXCEPT !.pc = "join", !.value = frame[c].value, !.ok = frame[c].ok]
    OBVIOUS
  <1>7. /\ f \in Frames /\ f.pc = "join" /\ f.sub = frame[b].sub /\ f.part = frame[b].part
        /\ f.ok = frame[c].ok /\ f.value = frame[c].value
    BY <1>5, <1>6 DEF Frames, Pcs
  <1>8. PICK G : G = Remove(frame, c)
    OBVIOUS
  <1>9. Leaves(frame, G, c)
    BY <1>2, <1>8, RemoveCall
  <1>10. Alters(G, frame', b, f)
    <2>1. frame' = [G EXCEPT ![b] = f]
      BY <1>6, <1>8
    <2>2. IsCalls(G) /\ b \in DOMAIN G
      BY <1>4, <1>9 DEF Leaves
    <2>3. Alters(G, [G EXCEPT ![b] = f], b, f)
      BY <1>7, <2>2, ExceptCall
    <2> QED BY <2>1, <2>3
  <1>11. Returns(frame, frame', task, c, b, f)
    <2>1. /\ DOMAIN G = DOMAIN frame \ {c} /\ \A d \in DOMAIN frame : d # c => G[d] = frame[d]
      BY <1>9 DEF Leaves
    <2>2. /\ IsCalls(frame') /\ DOMAIN frame' = DOMAIN G /\ frame'[b] = f
          /\ \A d \in DOMAIN G : d # b => frame'[d] = G[d]
      BY <1>10 DEF Alters
    <2> QED BY <1>4, <1>7, <2>1, <2>2 DEF Returns, Kept
  <1>12. Valued(stack', frame', task, moved, Rules)
    BY <1>1, <1>7, <1>11, ReturnsValued
  <1>13. answer.state = "none"
    BY InProgress
  <1> QED BY <1>12, <1>13, ValuedNext

\* and into the program: the answer is worth what the outermost call was.
LEMMA LeaveWholeValued ==
    ASSUME IInv, VInv, NEW t \in Threads, NEW c, c = Top(t), c \in DOMAIN frame, frame[c].pc = "leave",
           c = Id(whole), Pops(stack, stack', t, c),
           answer' = [state |-> IF frame[c].ok THEN "returned" ELSE "thrown", value |-> frame[c].value],
           frame' = Remove(frame, c), UNCHANGED <<input, task, moved>>
    PROVE  VInv'
  <1>1. /\ Given(frame, task, Id(whole)) /\ IsStacks(stack) /\ Stacks(stack, frame, task, Id(whole))
        /\ Valued(stack, frame, task, moved, Rules) /\ Id(whole) = Rules.whole
        /\ CallsWorth(frame, task, moved, Rules)
    BY VInvFacts
  <1>2. DOMAIN frame = {c}
    <2>1. Given(frame, task, c) /\ Stacks(stack, frame, task, c) /\ IsStacks(stack)
      BY <1>1
    <2> QED BY <2>1, LastCall, Zenon
  <1>3. DOMAIN frame' = {}
    BY <1>2 DEF Remove
  <1>4. Valued(stack', frame', task, moved, Rules)
    BY <1>1, <1>3 DEF Valued, Shared, Splitters, CallsWorth
  <1>5. frame[c].ok => Worth(frame[c].value, Id(whole), HardwareConcurrency, moved, Rules)
    <2>1. HardwareConcurrency \in Nat /\ Entitled(c, HardwareConcurrency, frame, task, Rules)
      BY <1>1, HardwareAssumption DEF Entitled
    <2>2. CallWorth(c, frame[c], HardwareConcurrency, task, moved, Rules)
      BY <1>1, <2>1, CallIsWorth
    <2> QED BY <2>2 DEF CallWorth
  <1>6. answer'.state = "returned" => frame[c].ok /\ answer'.value = frame[c].value
    OBVIOUS
  <1>7. Rules' = Rules /\ Id(whole)' = Id(whole) /\ task' = task /\ moved' = moved
    BY RulesStay DEF input
  <1> QED BY <1>4, <1>5, <1>6, <1>7 DEF VInv

\* The values are right when a call returns: to its caller, to its task, or to
\* the user.
LEMMA LeaveValued ==
    ASSUME IInv, VInv, NEW t \in Threads, Leave(t)
    PROVE  VInv'
  <1>1. PICK c : c = Top(t)
    OBVIOUS
  <1>2. PICK b : b = stack[t][Len(stack[t]) - 1]
    OBVIOUS
  <1>3. /\ c \in DOMAIN frame /\ frame[c].pc = "leave"
        /\ On(stack, t, Len(stack[t]), c) /\ Len(stack[t]) \in Nat
        /\ Pops(stack, [stack EXCEPT ![t] = SubSeq(@, 1, Len(@) - 1)], t, c)
    BY <1>1, AtCall DEF Leave
  <1>4. UNCHANGED <<input, moved>>
    BY DEF Leave
  <1>5. CASE c \in DOMAIN task
    <2>1. /\ task' = [task EXCEPT ![c] = [task[c] EXCEPT !.value = frame[c].value,
                      !.state = IF frame[c].ok THEN "completed" ELSE "canceled"]]
          /\ frame' = Remove(frame, c) /\ UNCHANGED <<stack, answer>>
      BY <1>1, <1>5 DEF Leave
    <2> QED BY <1>1, <1>3, <1>4, <1>5, <2>1, LeaveTaskValued
  <1>6. CASE c \notin DOMAIN task
    <2>1. Pops(stack, stack', t, c)
      BY <1>1, <1>3, <1>6 DEF Leave, Pop
    <2>2. CASE c = Id(whole)
      <3>1. /\ answer' = [state |-> IF frame[c].ok THEN "returned" ELSE "thrown", value |-> frame[c].value]
            /\ frame' = Remove(frame, c) /\ UNCHANGED task
        BY <1>1, <1>6, <2>2 DEF Leave
      <3> QED BY <1>1, <1>3, <1>4, <2>1, <2>2, <3>1, LeaveWholeValued
    <2>3. CASE c # Id(whole)
      <3>1. /\ frame' = [Remove(frame, c) EXCEPT ![b] =
                       [frame[b] EXCEPT !.pc = "join", !.value = frame[c].value, !.ok = frame[c].ok]]
            /\ UNCHANGED <<task, answer>>
        BY <1>1, <1>2, <1>6, <2>3 DEF Leave
      <3> QED BY <1>1, <1>2, <1>3, <1>4, <1>6, <2>1, <2>3, <3>1, LeaveCallValued
    <2> QED BY <2>2, <2>3
  <1> QED BY <1>5, <1>6

\* The values are right initially: there are none.
LEMMA InitValued == Init => VInv
  <1> SUFFICES ASSUME Init PROVE VInv
    OBVIOUS
  <1>1. PICK m : \E g : whole = NewPartitioner(1, m, g)
    BY DEF Init
  <1>2. whole.threads = 0 /\ whole.last = NoThread
    BY <1>1 DEF NewPartitioner
  <1>3. /\ DOMAIN frame = {Id(whole)} /\ frame[Id(whole)] = Call(whole)
        /\ DOMAIN task = {} /\ moved = {} /\ answer.state = "none"
    BY EmptyFunction DEF Init, Put
  <1>4. Call(whole).pc = "split" /\ Call(whole).part = whole
    BY DEF Call
  <1>5. Equipped(whole, Rules)
    BY <1>2, RulesAre, HardwareAssumption DEF Equipped
  <1>6. Shared(frame, task, Rules)
    BY <1>3, <1>4, <1>5 DEF Shared, Parents
  <1>7. \A t : LastSplit(t, Id(whole), Call(whole), moved, Rules)
    BY <1>2, <1>4, RulesAre DEF LastSplit
  <1>8. Splitters(stack, frame, moved, Rules)
    BY <1>3, <1>7 DEF Splitters
  <1>9. \A n : CallWorth(Id(whole), Call(whole), n, task, moved, Rules)
    BY <1>4, RulesAre DEF CallWorth, Parents
  <1>10. CallsWorth(frame, task, moved, Rules) /\ TasksWorth(task, moved, Rules)
    BY <1>3, <1>9 DEF CallsWorth, TasksWorth
  <1>11. Moved(task, moved)
    BY <1>3, FS_EmptySet DEF Moved
  <1>12. answer.state # "returned"
    BY <1>3
  <1> QED BY <1>6, <1>8, <1>10, <1>11, <1>12 DEF VInv, Valued

\* They stay so when nothing changes.
LEMMA StutterValued == VInv /\ UNCHANGED vars => VInv'
  <1> SUFFICES ASSUME VInv, UNCHANGED vars PROVE VInv'
    OBVIOUS
  <1>1. /\ algorithm' = algorithm /\ whole' = whole /\ frame' = frame /\ stack' = stack /\ task' = task
        /\ moved' = moved /\ answer' = answer
    BY DEF vars, input
  <1>2. Rules' = Rules /\ Id(whole)' = Id(whole)
    BY <1>1, RulesStay
  <1> QED BY <1>1, <1>2 DEF VInv

\* Every value is that of its range, and has the chunks that its threads, and the
\* tasks that moved, account for.
THEOREM ValueInvariance == Spec => []VInv
  <1>1. Init => VInv
    BY InitValued
  <1>2. IInv /\ VInv /\ [Next]_vars => VInv'
    <2> SUFFICES ASSUME IInv, VInv, [Next]_vars PROVE VInv'
      OBVIOUS
    <2>1. ASSUME NEW t \in Threads, Step(t) PROVE VInv'
      <3>1. CASE BeginLoop(t)
        BY <3>1, BeginLoopValued
      <3>2. CASE Apply(t)
        BY <3>2, ApplyValued
      <3>3. CASE Spawn(t)
        BY <3>3, SpawnValued
      <3>4. CASE SpawnThrows(t)
        BY <3>4, SpawnThrowsValued
      <3>5. CASE Recurse(t)
        BY <3>5, RecurseValued
      <3>6. CASE Join(t)
        BY <3>6, JoinValued
      <3>7. CASE Spin(t)
        BY <3>7, SpinValued
      <3>8. CASE Leave(t)
        BY <3>8, LeaveValued
      <3>9. CASE Take(t)
        BY <3>9, TakeValued
      <3>10. CASE Release(t)
        BY <3>10, ReleaseValued
      <3> QED BY <2>1, <3>1, <3>2, <3>3, <3>4, <3>5, <3>6, <3>7, <3>8, <3>9, <3>10 DEF Step
    <2>2. CASE UNCHANGED vars
      BY <2>2, StutterValued
    <2> QED BY <2>1, <2>2 DEF Next
  <1> QED BY <1>1, <1>2, Invariance, PTL DEF Spec

\* The range of the outermost call.
LEMMA WholeRange ==
    ASSUME IInv
    PROVE  /\ Id(whole)[1] = whole.first /\ Id(whole)[2] = whole.end /\ Size(Id(whole)) = Length(whole)
           /\ Elements(whole) = Id(whole)[1] .. (Id(whole)[2] - 1) /\ Length(whole) \in Nat
  <1>1. whole \in Parts
    BY InvGood
  <1>2. Id(whole)[1] = whole.first /\ Id(whole)[2] = whole.end
    BY <1>1, IdRange
  <1>3. whole.first \in Int /\ whole.end \in Int /\ whole.first <= whole.end
    BY <1>1 DEF Parts, Partitioners
  <1> QED BY <1>2, <1>3 DEF Size, Length, Elements

\* The result of the reduction is that of a sequential one, of every element once
\* and in order, whichever threads ran which parts and in which order they ended;
\* with static_partitioner not even the number of chunks depends on them.
THEOREM ResultIsInOrder == Spec => []ResultInOrder
  <1>1. IInv /\ VInv => ResultInOrder
    <2> SUFFICES ASSUME IInv, VInv PROVE ResultInOrder
      OBVIOUS
    <2>1. PICK v : v = answer.value
      OBVIOUS
    <2>2. ASSUME answer.state = "returned"
          PROVE  /\ v # <<>> /\ v[1] = Initial /\ InOrder(v)
                 /\ {v[i] : i \in DOMAIN v} \ {Initial} = Elements(whole)
                 /\ algorithm.split = "static" => Count(v) = StaticChunks[Length(whole)]
      <3>1. Worth(v, Id(whole), HardwareConcurrency, moved, Rules)
        BY <2>1, <2>2 DEF VInv
      <3>2. Spells(v, Id(whole)[1], Id(whole)[2])
        BY <3>1 DEF Worth
      <3>3. {v[i] : i \in DOMAIN v} \ {Initial} = Elements(whole)
        BY <3>2, WholeRange DEF Spells
      <3>4. algorithm.split = "static" => Count(v) = StaticChunks[Length(whole)]
        BY <3>1, WholeRange, RulesAre DEF Worth
      <3> QED BY <3>2, <3>3, <3>4 DEF Spells
    <2>3. Chunks = Count(v)
      BY <2>1 DEF Chunks, Count, Initials
    <2>4. \A i \in Elements(whole) : applied[i] <= 1
      BY DEF IInv, Types, Fresh
    <2> QED BY <2>1, <2>2, <2>3, <2>4 DEF ResultInOrder
  <1> QED BY <1>1, Invariance, ValueInvariance, PTL

\* auto_partitioner makes a chunk for each thread there is, and for each task that
\* another thread took no more than it would for a new range.
THEOREM ChunksPerThread == Spec => []ChunkPerThread
  <1>1. IInv /\ VInv => ChunkPerThread
    <2> SUFFICES ASSUME IInv, VInv, answer.state = "returned", algorithm.split = "auto", whole.grain = 1
                 PROVE  /\ Chunks <= HardwareConcurrency + Cardinality(moved) * (HardwareConcurrency - 1)
                        /\ Chunks >= (IF HardwareConcurrency < Length(whole)
                                      THEN HardwareConcurrency ELSE Length(whole))
      BY DEF ChunkPerThread
    <2>1. PICK v : v = answer.value
      OBVIOUS
    <2>2. Worth(v, Id(whole), HardwareConcurrency, moved, Rules)
      BY <2>1 DEF VInv
    <2>3. Allowed(v, Id(whole), HardwareConcurrency, moved, Rules)
      BY <2>2, RulesAre DEF Worth
    <2>4. Spells(v, Id(whole)[1], Id(whole)[2])
      BY <2>2 DEF Worth
    <2>5. PICK n \in Nat : n = Count(v)
      BY <2>4, InitialsFinite DEF Spells
    <2>6. Chunks = n
      BY <2>1, <2>5 DEF Chunks, Count, Initials
    <2>7. {k \in moved : Within(k, Id(whole))} = moved
      <3>1. Given(frame, task, Id(whole)) /\ moved \subseteq DOMAIN task
        BY InvGood DEF Good, IInv, Types
      <3> QED BY <3>1, TreeFacts DEF TaskShape
    <2>8. PICK m \in Nat : m = Cardinality(moved)
      <3>1. IsFiniteSet(moved)
        BY VInvFacts DEF Valued, Moved
      <3> QED BY <3>1, FS_CardinalityType
    <2>9. PICK h \in Nat \ {0} : h = HardwareConcurrency
      BY HardwareAssumption
    <2>10. PICK l \in Nat : l = Length(whole) /\ l = Size(Id(whole))
      BY WholeRange
    <2>11. n <= h + (h - 1) * m
      BY <2>3, <2>5, <2>7, <2>8, <2>9 DEF Allowed, MovedIn
    <2>12. n >= h \/ n >= l
      BY <2>3, <2>5, <2>9, <2>10, RulesAre DEF Allowed
    <2>13. (h - 1) * m = m * (h - 1)
      OBVIOUS
    <2>14. n >= IF h < l THEN h ELSE l
      BY <2>12
    <2> QED BY <2>6, <2>8, <2>9, <2>10, <2>11, <2>13, <2>14
  <1> QED BY <1>1, Invariance, ValueInvariance, PTL
=============================================================================
