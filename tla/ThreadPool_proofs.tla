-------------------------- MODULE ThreadPool_proofs --------------------------
(***************************************************************************)
(* Proofs about ThreadPool, for every number of threads and every user     *)
(* program.                                                                *)
(***************************************************************************)
EXTENDS ThreadPool, FiniteSetTheorems, SequenceTheorems, TLAPS

-----------------------------------------------------------------------------
(* The inductive invariant. *)

Holds(s, x) == \E i \in 1..Len(s) : s[i] = x
NoRepeat(s) == \A i, j \in 1..Len(s) : s[i] = s[j] => i = j

LoopPcs == {"check", "pop", "steal", "append", "sleep", "relock"}
RunPcs == {"op", "test", "wake", "flush"}

\* Frame f at position i of a stack: loops and tasks alternate, the lowest is the
\* main loop, and every frame but the innermost has just called the next.
GoodFrame(f, i, innermost) ==
    /\ f \in FrameSet /\ f.ip # 0
    /\ f.kind = IF (i % 2) = 1 THEN "loop" ELSE "run"
    /\ f.task = None <=> i = 1
    /\ f.kind = "loop" =>
          /\ f.pc \in LoopPcs /\ (innermost \/ f.pc = "check")
          /\ f.added => f.task # None
          /\ f.fin => f.pc = "relock"
    /\ f.kind = "run" => f.pc \in RunPcs /\ (innermost \/ f.pc = "op")

Frames ==
    \A w \in Workers : \A i \in 1..Depth(w) : GoodFrame(stack[w][i], i, i = Depth(w))

\* A task is queued in one place, ...
Queued ==
    /\ NoRepeat(public) /\ \A w \in Workers : NoRepeat(deque[w])
    /\ \A t \in Tasks, v, w \in Workers : Holds(deque[v], t) /\ Holds(deque[w], t) => v = w
    /\ \A t \in Tasks, w \in Workers : ~ (Holds(deque[w], t) /\ Holds(public, t))
    /\ \A t \in Tasks :
          tstate[t] = "queued" <=> Holds(public, t) \/ \E w \in Workers : Holds(deque[w], t)

\* ... or run in one frame, which stores its result before it flushes.
Runs(w, i, t) == i \in 1..Depth(w) /\ stack[w][i].kind = "run" /\ stack[w][i].task = t
Flushes(w, i) == stack[w][i].pc = "flush"

Running ==
    /\ \A t \in Tasks : tstate[t] \in {"running", "finished"} =>
          \E w \in Workers, i \in Nat : Runs(w, i, t)
    /\ \A w \in Workers, i \in Nat, t \in Tasks : Runs(w, i, t) =>
          tstate[t] = IF Flushes(w, i) THEN "finished" ELSE "running"
    /\ \A v, w \in Workers, i, j \in Nat, t \in Tasks :
          Runs(v, i, t) /\ Runs(w, j, t) => v = w /\ i = j

\* The continuation with event <<w, i>> was added to task t, for a wait that goes
\* on: in the thread that owns the pool, or in a frame of a worker.
MainWaits(w, i, t) == w = Main /\ i = 1 /\ mpc = "sleep" /\ MainTask = t
LoopWaits(w, i, t) ==
    /\ w \in Workers /\ i \in 1..Depth(w)
    /\ stack[w][i].kind = "loop" /\ stack[w][i].task = t /\ stack[w][i].added
Waits(w, i, t) == MainWaits(w, i, t) \/ LoopWaits(w, i, t)

\* Worker w was told that the task it waits for has finished.
Told(w, t) == At(w, "loop", "relock") /\ Top(w).fin /\ Top(w).task = t

\* A continuation signals its event at most once, and only a wait that goes on.
Signals ==
    /\ \A t \in Tasks, w \in Threads, i \in Nat : <<w, i>> \in conts[t] => Waits(w, i, t)
    /\ \A w \in Threads, i \in Nat : <<<<w, i>>, "finished">> \in pending =>
          \E t \in Tasks : Waits(w, i, t) /\ Ready(t) /\ <<w, i>> \notin conts[t]
    /\ \A w \in Workers, t \in Tasks : Told(w, t) =>
          /\ LoopWaits(w, Depth(w), t) /\ Ready(t) /\ Event(w) \notin conts[t]
          /\ <<Event(w), "finished">> \notin pending
    /\ <<MainEvent, "available">> \notin pending

\* The list of sleepers names those that sleep, or have been woken.
Sleeping(w) == At(w, "loop", "sleep") \/ At(w, "loop", "relock")
Sleepers ==
    /\ NoRepeat(waiters)
    /\ \A w \in Threads, i \in Nat : Holds(waiters, <<w, i>>) =>
          w \in Workers /\ i = Depth(w) /\ Sleeping(w)
    /\ \A w \in Workers : Asleep(w) => Holds(waiters, Event(w))

\* Who sleeps has nothing to run.
Busy(w) == stack[w] # <<>> /\ (Top(w).kind = "loop" => Top(w).pc \in {"check", "pop"})
Work ==
    /\ \A w \in Workers : lock = w <=> At(w, "loop", "append")
    /\ lock # Free => public = <<>>
    /\ public # <<>> => \E w \in Workers : ~ Asleep(w)
    /\ \A w \in Workers : deque[w] # <<>> => Busy(w)

\* The indices a worker still has to start.
Rest(w) == (w + 1)..(w + (IF range[Child(w)] = 0 THEN range[w] ELSE Half(w)) - 1)

\* Every thread without a handle is still to be started by a thread before it.
Starts ==
    /\ \A w \in Workers : w + range[w] <= NumThreads
    /\ \A w \in Workers : range[w] > 1 => \A v \in Rest(w) : range[v] = 0
    /\ \A v \in Workers : ~ handle[v] =>
          \E w \in Workers : w < v /\ range[w] > 1 /\ (v \in Rest(w) \/ v = Child(w))
    /\ \A w \in Workers : stack[w] # <<>> => range[w] = -1

\* Workers leave when shutdown was set and nothing is left.
Ends ==
    /\ shutdown <=> mpc \in {"join", "done"}
    /\ \A w \in Workers : Exited(w) => shutdown /\ public = <<>>
    /\ mpc = "join" => mip \in Workers /\ \A w \in Workers : w < mip => Exited(w)
    /\ mpc = "done" => \A w \in Workers : Exited(w)
    /\ mpc = "op" => mip # 0
    /\ mpc = "sleep" => mip \in 1..Len(MainScript)

IInv == TypeOK /\ Frames /\ Queued /\ Running /\ Signals /\ Sleepers /\ Work /\ Starts /\ Ends


-----------------------------------------------------------------------------
(* Sequences. *)

\* push_back keeps a list without repetitions so, and adds one element.
LEMMA AppendHolds ==
    ASSUME NEW S, NEW s \in Seq(S), NEW x \in S
    PROVE  /\ \A y : Holds(Append(s, x), y) <=> Holds(s, y) \/ y = x
           /\ NoRepeat(s) /\ ~ Holds(s, x) => NoRepeat(Append(s, x))
  <1>1. PICK n \in Nat : n = Len(s)
    BY LenProperties
  <1>2. PICK r : r = Append(s, x)
    OBVIOUS
  <1>3. Len(r) = n + 1 /\ r[n + 1] = x /\ \A i \in 1..n : r[i] = s[i]
    BY <1>1, <1>2, AppendProperties
  <1>4. \A i \in 1..(n + 1) : i \in 1..n \/ i = n + 1
    OBVIOUS
  <1>5. n + 1 \in 1..(n + 1) /\ \A i \in 1..n : i \in 1..(n + 1)
    OBVIOUS
  <1>6. \A y : Holds(r, y) <=> Holds(s, y) \/ y = x
    BY <1>1, <1>3, <1>4, <1>5 DEF Holds
  <1>7. NoRepeat(s) /\ ~ Holds(s, x) => NoRepeat(r)
    BY <1>1, <1>3, <1>4 DEF NoRepeat, Holds
  <1> QED BY <1>2, <1>6, <1>7

\* Taking the front of a queue takes out one element.
LEMMA TailHolds ==
    ASSUME NEW S, NEW s \in Seq(S), s # <<>>
    PROVE  /\ Tail(s) \in Seq(S) /\ Head(s) \in S /\ Holds(s, Head(s))
           /\ \A y : Holds(s, y) <=> Holds(Tail(s), y) \/ y = Head(s)
           /\ NoRepeat(s) => NoRepeat(Tail(s)) /\ ~ Holds(Tail(s), Head(s))
  <1>1. PICK n \in Nat : n + 1 = Len(s)
    <2>1. Len(s) \in Nat \ {0}
      BY EmptySeq
    <2>2. Len(s) - 1 \in Nat /\ (Len(s) - 1) + 1 = Len(s)
      BY <2>1
    <2> QED BY <2>2
  <1>2. PICK r, x : r = Tail(s) /\ x = Head(s)
    OBVIOUS
  <1>3. r \in Seq(S) /\ Len(r) = n /\ x \in S /\ \A i \in 1..n : r[i] = s[i + 1]
    BY <1>1, <1>2, HeadTailProperties
  <1>4. x = s[1]
    BY <1>2
  <1>5. \A i \in 1..(n + 1) : i = 1 \/ (i - 1 \in 1..n /\ (i - 1) + 1 = i)
    OBVIOUS
  <1>6. 1 \in 1..(n + 1) /\ \A i \in 1..n : i + 1 \in 1..(n + 1) /\ i + 1 # 1
    OBVIOUS
  <1>7. \A y : Holds(s, y) <=> Holds(r, y) \/ y = x
    <2>1. \A y : Holds(s, y) => Holds(r, y) \/ y = x
      BY <1>1, <1>3, <1>4, <1>5 DEF Holds
    <2>2. \A y : Holds(r, y) => Holds(s, y)
      BY <1>1, <1>3, <1>6 DEF Holds
    <2>3. Holds(s, x)
      BY <1>1, <1>4, <1>6 DEF Holds
    <2> QED BY <2>1, <2>2, <2>3
  <1>8. NoRepeat(s) => NoRepeat(r) /\ ~ Holds(r, x)
    <2>1. NoRepeat(s) => ~ Holds(r, x)
      BY <1>1, <1>3, <1>4, <1>6 DEF NoRepeat, Holds
    <2>2. ASSUME NoRepeat(s), NEW i \in 1..n, NEW j \in 1..n, r[i] = r[j]
          PROVE  i = j
      <3>1. i + 1 = j + 1
        BY <1>1, <1>3, <1>6, <2>2 DEF NoRepeat
      <3> QED BY <3>1
    <2> QED BY <1>3, <2>1, <2>2 DEF NoRepeat
  <1> QED BY <1>2, <1>3, <1>7, <1>8

\* Taking the back of a queue takes out one element.
LEMMA FrontHolds ==
    ASSUME NEW S, NEW s \in Seq(S), s # <<>>
    PROVE  /\ SubSeq(s, 1, Len(s) - 1) \in Seq(S) /\ s[Len(s)] \in S /\ Holds(s, s[Len(s)])
           /\ Len(SubSeq(s, 1, Len(s) - 1)) = Len(s) - 1
           /\ \A i \in 1..(Len(s) - 1) : SubSeq(s, 1, Len(s) - 1)[i] = s[i]
           /\ \A y : Holds(s, y) <=> Holds(SubSeq(s, 1, Len(s) - 1), y) \/ y = s[Len(s)]
           /\ NoRepeat(s) => /\ NoRepeat(SubSeq(s, 1, Len(s) - 1))
                             /\ ~ Holds(SubSeq(s, 1, Len(s) - 1), s[Len(s)])
  <1>1. PICK n \in Nat : n = Len(s) - 1 /\ n + 1 = Len(s)
    <2>1. Len(s) \in Nat \ {0}
      BY EmptySeq
    <2>2. Len(s) - 1 \in Nat /\ (Len(s) - 1) + 1 = Len(s)
      BY <2>1
    <2> QED BY <2>2
  <1>2. PICK r, x : r = SubSeq(s, 1, n) /\ x = s[n + 1]
    OBVIOUS
  <1>3. n + 1 \in 1..(n + 1) /\ \A i \in 1..n : i \in 1..(n + 1) /\ i # n + 1
    OBVIOUS
  <1>4. \A i \in 1..(n + 1) : s[i] \in S
    BY <1>1, ElementOfSeq
  <1>5. r \in Seq(S) /\ Len(r) = n /\ \A i \in 1..n : r[i] = s[i]
    <2>1. \A i \in 1..n : s[i] \in S
      BY <1>3, <1>4
    <2>2. /\ r \in Seq(S) /\ Len(r) = (IF 1 <= n THEN n - 1 + 1 ELSE 0)
          /\ \A i \in 1..(n - 1 + 1) : r[i] = s[1 + i - 1]
      BY <1>2, <2>1, SubSeqProperties
    <2>3. (IF 1 <= n THEN n - 1 + 1 ELSE 0) = n /\ n - 1 + 1 = n
      OBVIOUS
    <2>4. \A i \in 1..n : 1 + i - 1 = i
      OBVIOUS
    <2> QED BY <2>2, <2>3, <2>4
  <1>6. \A i \in 1..(n + 1) : i \in 1..n \/ i = n + 1
    OBVIOUS
  <1>7. /\ Holds(s, x) /\ \A y : Holds(s, y) <=> Holds(r, y) \/ y = x
    BY <1>1, <1>2, <1>3, <1>5, <1>6 DEF Holds
  <1>8. NoRepeat(s) => NoRepeat(r) /\ ~ Holds(r, x)
    BY <1>1, <1>2, <1>3, <1>5 DEF NoRepeat, Holds
  <1> QED BY <1>1, <1>2, <1>3, <1>4, <1>5, <1>7, <1>8

\* Remove takes the event out, and its place is taken by the last one.
LEMMA RemoveHolds ==
    ASSUME NEW S, NEW s \in Seq(S), NoRepeat(s), NEW e
    PROVE  /\ Remove(s, e) \in Seq(S) /\ NoRepeat(Remove(s, e))
           /\ \A y : Holds(Remove(s, e), y) <=> Holds(s, y) /\ y # e
  <1>1. CASE ~ Holds(s, e)
    <2>1. Remove(s, e) = s
      BY <1>1 DEF Remove, Holds
    <2> QED BY <1>1, <2>1
  <1>2. CASE Holds(s, e)
    <2>1. PICK k \in 1..Len(s) : s[k] = e
      BY <1>2 DEF Holds
    <2>2. PICK n \in Nat : n + 1 = Len(s) /\ n = Len(s) - 1 /\ k \in 1..(n + 1)
      <3>1. Len(s) \in Nat /\ Len(s) - 1 \in Nat /\ (Len(s) - 1) + 1 = Len(s)
        BY LenProperties
      <3> QED BY <3>1
    <2>3. \A i \in 1..Len(s) : s[i] = e <=> i = k
      BY <2>1 DEF NoRepeat
    <2>4. k = CHOOSE i \in 1..Len(s) : s[i] = e /\ \A j \in 1..Len(s) : s[j] = e => i <= j
      <3>1. k <= k
        BY <2>2
      <3> QED BY <2>3, <3>1
    <2>5. PICK r : r = [s EXCEPT ![k] = s[n + 1]]
      OBVIOUS
    <2>6. s[n + 1] \in S
      <3>1. n + 1 \in 1..Len(s)
        BY <2>2
      <3> QED BY <3>1, ElementOfSeq
    <2>7. /\ r \in Seq(S) /\ Len(r) = n + 1
          /\ \A i \in 1..(n + 1) : r[i] = IF i = k THEN s[n + 1] ELSE s[i]
      BY <2>1, <2>2, <2>5, <2>6, ExceptSeq
    <2>8. PICK q : q = SubSeq(r, 1, n)
      OBVIOUS
    <2>9. Remove(s, e) = q
      BY <1>2, <2>2, <2>4, <2>5, <2>8 DEF Remove, Holds
    <2>10. q \in Seq(S) /\ Len(q) = n /\ \A i \in 1..n : q[i] = IF i = k THEN s[n + 1] ELSE s[i]
      <3>1. r # <<>> /\ Len(r) - 1 = n
        BY <2>7, EmptySeq
      <3>2. \A i \in 1..n : i \in 1..(n + 1)
        OBVIOUS
      <3> QED BY <2>7, <2>8, <3>1, <3>2, FrontHolds
    <2>11. \A i \in 1..n : i \in 1..(n + 1) /\ i # n + 1
      OBVIOUS
    <2>12. n + 1 \in 1..(n + 1) /\ \A i \in 1..(n + 1) : i \in 1..n \/ i = n + 1
      OBVIOUS
    <2>13. NoRepeat(q)
      <3> SUFFICES ASSUME NEW i \in 1..n, NEW j \in 1..n, q[i] = q[j] PROVE i = j
        BY <2>10 DEF NoRepeat
      <3> QED BY <2>2, <2>10, <2>11, <2>12 DEF NoRepeat
    <2>14. \A y : Holds(q, y) => Holds(s, y) /\ y # e
      <3> SUFFICES ASSUME NEW i \in 1..n PROVE Holds(s, q[i]) /\ q[i] # e
        BY <2>10 DEF Holds
      <3>1. CASE i = k
        <4>1. q[i] = s[n + 1] /\ n + 1 # k /\ n + 1 \in 1..Len(s)
          BY <2>2, <2>10, <2>11, <2>12, <3>1
        <4> QED BY <2>3, <4>1 DEF Holds
      <3>2. CASE i # k
        BY <2>2, <2>3, <2>10, <2>11, <3>2 DEF Holds
      <3> QED BY <3>1, <3>2
    <2>15. ASSUME NEW y, Holds(s, y), y # e PROVE Holds(q, y)
      <3>1. PICK i \in 1..(n + 1) : s[i] = y
        BY <2>2, <2>15 DEF Holds
      <3>2. CASE i \in 1..n
        <4>1. i # k
          BY <2>1, <2>15, <3>1
        <4> QED BY <2>10, <3>1, <3>2, <4>1 DEF Holds
      <3>3. CASE i = n + 1
        <4>1. k \in 1..n
          BY <2>1, <2>2, <2>12, <2>15, <3>1, <3>3
        <4> QED BY <2>10, <3>1, <3>3, <4>1 DEF Holds
      <3> QED BY <2>12, <3>2, <3>3
    <2> QED BY <2>9, <2>10, <2>13, <2>14, <2>15
  <1> QED BY <1>1, <1>2


-----------------------------------------------------------------------------
(* Stacks. *)

\* What the types say of the stack of a worker.
LEMMA StackTypes ==
    ASSUME TypeOK
    PROVE  /\ DOMAIN stack = Workers
           /\ \A w \in Workers :
                 /\ stack[w] \in Seq(FrameSet) /\ Depth(w) \in Nat
                 /\ stack[w] # <<>> <=> Depth(w) \in 1..Depth(w)
                 /\ \A i \in 1..Depth(w) : stack[w][i] \in FrameSet
  <1>1. stack \in [Workers -> Seq(FrameSet)]
    BY DEF TypeOK
  <1> SUFFICES ASSUME NEW w \in Workers
               PROVE  /\ stack[w] \in Seq(FrameSet) /\ Depth(w) \in Nat
                      /\ stack[w] # <<>> <=> Depth(w) \in 1..Depth(w)
                      /\ \A i \in 1..Depth(w) : stack[w][i] \in FrameSet
    BY <1>1
  <1>2. stack[w] \in Seq(FrameSet)
    BY <1>1
  <1>3. Depth(w) \in Nat
    BY <1>2, LenProperties DEF Depth
  <1>4. stack[w] # <<>> <=> Depth(w) # 0
    BY <1>2, EmptySeq DEF Depth
  <1>5. Depth(w) # 0 <=> Depth(w) \in 1..Depth(w)
    BY <1>3
  <1> QED BY <1>2, <1>3, <1>4, <1>5, ElementOfSeq DEF Depth

\* The innermost frame is replaced by f.
Replaces(w, f) ==
    /\ stack' \in [Workers -> Seq(FrameSet)]
    /\ \A v \in Workers : v # w => stack'[v] = stack[v]
    /\ Len(stack'[w]) = Depth(w)
    /\ \A i \in 1..Depth(w) : stack'[w][i] = IF i = Depth(w) THEN f ELSE stack[w][i]

\* It is replaced by f, and g put on top of it.
Enters(w, f, g) ==
    /\ stack' \in [Workers -> Seq(FrameSet)]
    /\ \A v \in Workers : v # w => stack'[v] = stack[v]
    /\ Len(stack'[w]) = Depth(w) + 1
    /\ stack'[w][Depth(w) + 1] = g
    /\ \A i \in 1..Depth(w) : stack'[w][i] = IF i = Depth(w) THEN f ELSE stack[w][i]

\* It is removed, and the one below advances by n operations.
Leaves(w, n) ==
    /\ stack' \in [Workers -> Seq(FrameSet)]
    /\ \A v \in Workers : v # w => stack'[v] = stack[v]
    /\ Len(stack'[w]) = Depth(w) - 1
    /\ \A i \in 1..(Depth(w) - 1) :
          stack'[w][i] = IF i = Depth(w) - 1 THEN [stack[w][i] EXCEPT !.ip = @ + n]
                         ELSE stack[w][i]

\* Set replaces the frame on top.
LEMMA SetReplaces ==
    ASSUME TypeOK, NEW w \in Workers, stack[w] # <<>>, NEW f \in FrameSet, Set(w, f)
    PROVE  Replaces(w, f)
  <1>1. stack[w] \in Seq(FrameSet) /\ Depth(w) \in 1..Len(stack[w]) /\ stack \in [Workers -> Seq(FrameSet)]
    BY StackTypes DEF Depth, TypeOK
  <1>2. PICK s : s = [stack[w] EXCEPT ![Depth(w)] = f]
    OBVIOUS
  <1>3. stack' = [stack EXCEPT ![w] = s]
    BY <1>2 DEF Set, Depth
  <1>4. /\ s \in Seq(FrameSet) /\ Len(s) = Depth(w)
        /\ \A i \in 1..Depth(w) : s[i] = IF i = Depth(w) THEN f ELSE stack[w][i]
    BY <1>1, <1>2, ExceptSeq DEF Depth
  <1>5. /\ stack'[w] = s /\ stack' \in [Workers -> Seq(FrameSet)]
        /\ \A v \in Workers : v # w => stack'[v] = stack[v]
    BY <1>1, <1>3, <1>4
  <1> QED BY <1>4, <1>5 DEF Replaces

\* Calling run() on a task enters a frame for it.
LEMMA CallEnters ==
    ASSUME TypeOK, NEW w \in Workers, stack[w] # <<>>, NEW t \in Tasks, Call(w, t)
    PROVE  Enters(w, [Top(w) EXCEPT !.pc = "check", !.left = {}], Frame("run", t))
  <1>1. stack[w] \in Seq(FrameSet) /\ Depth(w) \in 1..Len(stack[w]) /\ stack \in [Workers -> Seq(FrameSet)]
        /\ Top(w) \in FrameSet
    BY StackTypes DEF Depth, TypeOK, Top
  <1>2. PICK f \in FrameSet : f = [Top(w) EXCEPT !.pc = "check", !.left = {}]
    BY <1>1 DEF FrameSet
  <1>3. PICK g \in FrameSet : g = Frame("run", t)
    BY DEF Frame, FrameSet
  <1>4. PICK s : s = [stack[w] EXCEPT ![Depth(w)] = f]
    OBVIOUS
  <1>5. stack' = [stack EXCEPT ![w] = Append(s, g)]
    BY <1>2, <1>3, <1>4 DEF Call, Depth, Top
  <1>6. /\ s \in Seq(FrameSet) /\ Len(s) = Depth(w)
        /\ \A i \in 1..Depth(w) : s[i] = IF i = Depth(w) THEN f ELSE stack[w][i]
    BY <1>1, <1>4, ExceptSeq DEF Depth
  <1>7. /\ Append(s, g) \in Seq(FrameSet) /\ Len(Append(s, g)) = Depth(w) + 1
        /\ Append(s, g)[Depth(w) + 1] = g
        /\ \A i \in 1..Depth(w) : Append(s, g)[i] = s[i]
    BY <1>6, AppendProperties
  <1>8. stack'[w] = Append(s, g) /\ stack' \in [Workers -> Seq(FrameSet)]
        /\ \A v \in Workers : v # w => stack'[v] = stack[v]
    BY <1>1, <1>5, <1>7
  <1>9. Enters(w, f, g)
    BY <1>6, <1>7, <1>8 DEF Enters
  <1> QED BY <1>2, <1>3, <1>9

\* Entering the loop leaves the frames below as they are.
LEMMA AppendEnters ==
    ASSUME TypeOK, NEW w \in Workers, NEW g \in FrameSet,
           stack' = [stack EXCEPT ![w] = Append(stack[w], g)]
    PROVE  Enters(w, Top(w), g)
  <1>1. stack[w] \in Seq(FrameSet) /\ stack \in [Workers -> Seq(FrameSet)]
    BY DEF TypeOK
  <1>2. /\ Append(stack[w], g) \in Seq(FrameSet) /\ Len(Append(stack[w], g)) = Depth(w) + 1
        /\ Append(stack[w], g)[Depth(w) + 1] = g
        /\ \A i \in 1..Depth(w) : Append(stack[w], g)[i] = stack[w][i]
    BY <1>1, AppendProperties DEF Depth
  <1>3. stack'[w] = Append(stack[w], g) /\ stack' \in [Workers -> Seq(FrameSet)]
        /\ \A v \in Workers : v # w => stack'[v] = stack[v]
    BY <1>1, <1>2
  <1> QED BY <1>2, <1>3 DEF Enters, Top

\* Return leaves the frame on top and moves the one below on.
LEMMA ReturnLeaves ==
    ASSUME TypeOK, NEW w \in Workers, stack[w] # <<>>, Return(w)
    PROVE  Leaves(w, 1)
  <1>1. stack[w] \in Seq(FrameSet) /\ Depth(w) \in Nat \ {0} /\ stack \in [Workers -> Seq(FrameSet)]
    <2>1. Depth(w) \in Nat /\ Depth(w) \in 1..Depth(w)
      BY StackTypes
    <2>2. Depth(w) \in Nat \ {0}
      BY <2>1
    <2> QED BY <2>2 DEF TypeOK
  <1>2. PICK s : s = SubSeq(stack[w], 1, Depth(w) - 1)
    OBVIOUS
  <1>3. PICK n \in Nat : n = Depth(w) - 1
    BY <1>1
  <1>4. s \in Seq(FrameSet) /\ Len(s) = n /\ \A i \in 1..n : s[i] = stack[w][i]
    BY <1>1, <1>2, <1>3, FrontHolds DEF Depth
  <1>5. PICK r : r = IF s = <<>> THEN <<>> ELSE [s EXCEPT ![Len(s)].ip = @ + 1]
    OBVIOUS
  <1>6. stack' = [stack EXCEPT ![w] = r]
    BY <1>2, <1>5 DEF Return
  <1>7. /\ r \in Seq(FrameSet) /\ Len(r) = n
        /\ \A i \in 1..n : r[i] = IF i = n THEN [stack[w][i] EXCEPT !.ip = @ + 1] ELSE stack[w][i]
    <2>1. CASE s = <<>>
      <3>1. n = 0 /\ 1..n = {} /\ r = <<>>
        BY <1>4, <1>5, <2>1, EmptySeq
      <3> QED BY <3>1, EmptySeq
    <2>2. CASE s # <<>>
      <3>1. n \in 1..Len(s)
        BY <1>4, <2>2, EmptySeq
      <3>2. s[n] \in FrameSet /\ s[n] = stack[w][n]
        BY <1>4, <3>1, ElementOfSeq
      <3>3. PICK f : f = [s[n] EXCEPT !.ip = @ + 1]
        OBVIOUS
      <3>4. f \in FrameSet
        BY <3>2, <3>3 DEF FrameSet
      <3>5. r = [s EXCEPT ![n] = f]
        BY <1>4, <1>5, <2>2, <3>3
      <3>6. /\ r \in Seq(FrameSet) /\ Len(r) = n
            /\ \A i \in 1..n : r[i] = IF i = n THEN f ELSE s[i]
        BY <1>4, <3>1, <3>4, <3>5, ExceptSeq
      <3> QED BY <1>4, <3>2, <3>3, <3>6
    <2> QED BY <2>1, <2>2
  <1>8. /\ stack'[w] = r /\ stack' \in [Workers -> Seq(FrameSet)]
        /\ \A v \in Workers : v # w => stack'[v] = stack[v]
    BY <1>1, <1>6, <1>7
  <1> QED BY <1>3, <1>7, <1>8 DEF Leaves

\* Leaving the outermost loop leaves the frame on top.
LEMMA PopLeaves ==
    ASSUME TypeOK, NEW w \in Workers, stack[w] # <<>>,
           stack' = [stack EXCEPT ![w] = SubSeq(stack[w], 1, Len(stack[w]) - 1)]
    PROVE  Leaves(w, 0)
  <1>1. stack[w] \in Seq(FrameSet) /\ Depth(w) \in Nat /\ stack \in [Workers -> Seq(FrameSet)]
    BY StackTypes DEF TypeOK
  <1>2. PICK s : s = SubSeq(stack[w], 1, Depth(w) - 1)
    OBVIOUS
  <1>3. s \in Seq(FrameSet) /\ Len(s) = Depth(w) - 1 /\ \A i \in 1..(Depth(w) - 1) : s[i] = stack[w][i]
    BY <1>1, <1>2, FrontHolds DEF Depth
  <1>4. \A i \in 1..(Depth(w) - 1) : stack[w][i] = [stack[w][i] EXCEPT !.ip = @ + 0]
    <2> SUFFICES ASSUME NEW i \in 1..(Depth(w) - 1)
                 PROVE  stack[w][i] = [stack[w][i] EXCEPT !.ip = @ + 0]
      OBVIOUS
    <2>1. i \in 1..Depth(w)
      BY <1>1
    <2>2. stack[w][i] \in FrameSet
      BY <2>1, StackTypes
    <2> QED BY <2>2 DEF FrameSet
  <1>5. /\ stack'[w] = s /\ stack' \in [Workers -> Seq(FrameSet)]
        /\ \A v \in Workers : v # w => stack'[v] = stack[v]
    BY <1>1, <1>2, <1>3 DEF Depth
  <1> QED BY <1>3, <1>4, <1>5 DEF Leaves


-----------------------------------------------------------------------------
(* What changes of the stacks mean for the frames, the tasks that run and the
   waits that go on. *)

\* Consecutive depths alternate between loops and tasks.
LEMMA Parity ==
    ASSUME NEW d \in Nat
    PROVE  (d % 2) \in {0, 1} /\ (d + 1) % 2 = 1 - (d % 2)
  BY SMT

\* The tasks that run, whether they flush, and the waits that go on stay the same.
SameRuns == \A v, i, t : v \in Workers => (Runs(v, i, t)' <=> Runs(v, i, t))
SameFlushes ==
    \A v, i : v \in Workers /\ i \in 1..Depth(v) /\ i \in 1..Depth(v)' =>
        (Flushes(v, i)' <=> Flushes(v, i))
SameWaits == \A v, i, t : LoopWaits(v, i, t)' <=> LoopWaits(v, i, t)

\* A frame replaced by one of the same kind for the same task runs and waits
\* for the same.
LEMMA ReplaceKeeps ==
    ASSUME TypeOK, Frames, NEW w \in Workers, stack[w] # <<>>, NEW f, Replaces(w, f),
           GoodFrame(f, Depth(w), TRUE), f.kind = Top(w).kind, f.task = Top(w).task
    PROVE  /\ Frames'
           /\ \A v \in Workers : Depth(v)' = Depth(v) /\ (stack'[v] = <<>> <=> stack[v] = <<>>)
           /\ Top(w)' = f
           /\ SameRuns
           /\ (f.pc = "flush" <=> Top(w).pc = "flush") => SameFlushes
           /\ f.added = Top(w).added => SameWaits
  <1>1. /\ stack[w] \in Seq(FrameSet) /\ Depth(w) \in 1..Depth(w)
        /\ \A v \in Workers : Depth(v) \in Nat
        /\ \A v \in Workers : stack[v] \in Seq(FrameSet) /\ stack'[v] \in Seq(FrameSet)
    BY StackTypes DEF Replaces
  <1>2. \A v \in Workers : Depth(v)' = Depth(v)
    BY DEF Replaces, Depth
  <1>3. \A v \in Workers : stack'[v] = <<>> <=> stack[v] = <<>>
    BY <1>1, <1>2, EmptySeq DEF Depth
  <1>4. \A v \in Workers : v # w => stack'[v] = stack[v]
    BY DEF Replaces
  <1>5. \A i \in 1..Depth(w) : stack'[w][i] = IF i = Depth(w) THEN f ELSE stack[w][i]
    BY DEF Replaces
  <1>6. Top(w)' = f
    BY <1>1, <1>2, <1>5 DEF Top
  <1>7. Frames'
    <2>1. ASSUME NEW i \in 1..Depth(w) PROVE GoodFrame(stack'[w][i], i, i = Depth(w))
      <3>1. CASE i = Depth(w)
        BY <1>5, <3>1
      <3>2. CASE i # Depth(w)
        BY <1>5, <3>2 DEF Frames
      <3> QED BY <3>1, <3>2
    <2>2. ASSUME NEW v \in Workers, NEW i \in 1..Depth(v), v # w
          PROVE  GoodFrame(stack'[v][i], i, i = Depth(v))
      BY <1>4, <2>2 DEF Frames
    <2> QED BY <1>2, <2>1, <2>2 DEF Frames
  <1>8. SameRuns
    BY <1>2, <1>4, <1>5 DEF Runs, Top, SameRuns
  <1>9. f.added = Top(w).added => SameWaits
    BY <1>2, <1>4, <1>5 DEF LoopWaits, Top, SameWaits
  <1>10. (f.pc = "flush" <=> Top(w).pc = "flush") => SameFlushes
    BY <1>2, <1>4, <1>5 DEF Flushes, Top, SameFlushes
  <1> QED BY <1>2, <1>3, <1>6, <1>7, <1>8, <1>9, <1>10

\* The frame g is entered, and its task runs if it is one.
Entered(w, g) ==
    /\ Depth(w)' = Depth(w) + 1 /\ stack'[w] # <<>> /\ Top(w)' = g
    /\ \A v, i, t : v \in Workers =>
          (Runs(v, i, t)' <=> \/ Runs(v, i, t)
                              \/ v = w /\ i = Depth(w) + 1 /\ g.kind = "run" /\ g.task = t)

\* A frame that is entered adds at most one running task.
LEMMA EnterKeeps ==
    ASSUME TypeOK, Frames, NEW w \in Workers, NEW f, NEW g, Enters(w, f, g),
           GoodFrame(g, Depth(w) + 1, TRUE), ~ g.added,
           stack[w] # <<>> => /\ GoodFrame(f, Depth(w), FALSE)
                              /\ f.kind = Top(w).kind /\ f.task = Top(w).task
                              /\ f.added = Top(w).added /\ (f.pc = "flush" <=> Top(w).pc = "flush")
    PROVE  /\ Frames'
           /\ \A v \in Workers : v # w => Depth(v)' = Depth(v)
           /\ Entered(w, g) /\ SameFlushes /\ SameWaits
  <1>0. PICK d \in Nat : d = Depth(w)
    BY StackTypes
  <1>1. /\ stack[w] # <<>> <=> d \in 1..d
        /\ \A v \in Workers : stack[v] \in Seq(FrameSet) /\ stack'[v] \in Seq(FrameSet)
    BY <1>0, StackTypes DEF Enters
  <1>2. Depth(w)' = d + 1 /\ \A v \in Workers : v # w => Depth(v)' = Depth(v)
    BY <1>0 DEF Enters, Depth
  <1>3. stack'[w] # <<>>
    <2>1. Len(stack'[w]) # 0
      BY <1>0, <1>2 DEF Depth
    <2> QED BY <1>1, <2>1, EmptySeq
  <1>4. \A v \in Workers : v # w => stack'[v] = stack[v]
    BY DEF Enters
  <1>5. /\ stack'[w][d + 1] = g
        /\ \A i \in 1..d : stack'[w][i] = IF i = d THEN f ELSE stack[w][i]
    BY <1>0 DEF Enters
  <1>6. Top(w)' = g
    BY <1>2, <1>5 DEF Top
  <1>7. \A i \in 1..(d + 1) : i \in 1..d \/ i = d + 1
    OBVIOUS
  <1>8. d + 1 \in 1..(d + 1) /\ \A i \in 1..d : i \in 1..(d + 1) /\ i # d + 1
    OBVIOUS
  <1>9. Frames'
    <2>1. \A i \in 1..d : stack[w] # <<>>
      BY <1>1
    <2>2. ASSUME NEW i \in 1..d PROVE GoodFrame(stack'[w][i], i, FALSE)
      <3>1. CASE i = d
        BY <1>0, <1>5, <2>1, <3>1
      <3>2. CASE i # d
        BY <1>0, <1>5, <3>2 DEF Frames
      <3> QED BY <3>1, <3>2
    <2>3. \A i \in 1..(d + 1) : GoodFrame(stack'[w][i], i, i = d + 1)
      BY <1>0, <1>5, <1>7, <1>8, <2>2
    <2> QED BY <1>2, <1>4, <2>3 DEF Frames
  <1>10. \A v, i, t : v \in Workers =>
            (Runs(v, i, t)' <=> \/ Runs(v, i, t)
                                \/ v = w /\ i = Depth(w) + 1 /\ g.kind = "run" /\ g.task = t)
    <2>1. ASSUME NEW i, NEW t
          PROVE  Runs(w, i, t)' <=> Runs(w, i, t) \/ (i = d + 1 /\ g.kind = "run" /\ g.task = t)
      <3>1. CASE i \in 1..d
        <4>1. stack'[w][i].kind = stack[w][i].kind /\ stack'[w][i].task = stack[w][i].task
          BY <1>0, <1>1, <1>5, <3>1 DEF Top
        <4>2. i \in 1..Depth(w) /\ i \in 1..Depth(w)' /\ i # d + 1
          BY <1>0, <1>2, <1>8, <3>1
        <4> QED BY <4>1, <4>2 DEF Runs
      <3>2. CASE i = d + 1
        <4>1. ~ Runs(w, i, t)
          BY <1>0, <1>8, <3>2 DEF Runs
        <4> QED BY <1>2, <1>5, <1>8, <3>2, <4>1 DEF Runs
      <3>3. CASE i \notin 1..(d + 1)
        BY <1>0, <1>2, <1>8, <3>3 DEF Runs
      <3> QED BY <1>7, <3>1, <3>2, <3>3
    <2>2. ASSUME NEW v \in Workers, v # w, NEW i, NEW t PROVE Runs(v, i, t)' <=> Runs(v, i, t)
      BY <1>2, <1>4, <2>2 DEF Runs
    <2> SUFFICES ASSUME NEW v \in Workers, NEW i, NEW t
                 PROVE  Runs(v, i, t)' <=> \/ Runs(v, i, t)
                                           \/ v = w /\ i = Depth(w) + 1 /\ g.kind = "run" /\ g.task = t
      OBVIOUS
    <2>4. CASE v = w
      <3>1. Runs(w, i, t)' <=> Runs(w, i, t) \/ (i = d + 1 /\ g.kind = "run" /\ g.task = t)
        BY <2>1
      <3> QED BY <1>0, <2>4, <3>1
    <2>5. CASE v # w
      BY <2>2, <2>5
    <2> QED BY <2>4, <2>5
  <1>11. \A v, i, t : LoopWaits(v, i, t)' <=> LoopWaits(v, i, t)
    <2>1. ASSUME NEW i, NEW t
          PROVE  LoopWaits(w, i, t)' <=> LoopWaits(w, i, t)
      BY <1>0, <1>1, <1>2, <1>5, <1>7, <1>8 DEF LoopWaits, Top
    <2>2. ASSUME NEW v \in Workers, v # w, NEW i, NEW t
          PROVE  LoopWaits(v, i, t)' <=> LoopWaits(v, i, t)
      BY <1>2, <1>4, <2>2 DEF LoopWaits
    <2>3. ASSUME NEW v, v \notin Workers, NEW i, NEW t
          PROVE  ~ LoopWaits(v, i, t)' /\ ~ LoopWaits(v, i, t)
      BY <2>3 DEF LoopWaits
    <2> QED BY <2>1, <2>2, <2>3
  <1>12. SameFlushes
    <2>1. ASSUME NEW i \in 1..d PROVE Flushes(w, i)' <=> Flushes(w, i)
      BY <1>0, <1>1, <1>5, <2>1 DEF Flushes, Top
    <2>2. ASSUME NEW v \in Workers, v # w, NEW i PROVE Flushes(v, i)' <=> Flushes(v, i)
      BY <1>4, <2>2 DEF Flushes
    <2> SUFFICES ASSUME NEW v \in Workers, NEW i \in 1..Depth(v)
                 PROVE  Flushes(v, i)' <=> Flushes(v, i)
      BY DEF SameFlushes
    <2> QED BY <1>0, <2>1, <2>2
  <1>13. Entered(w, g)
    BY <1>0, <1>2, <1>3, <1>6, <1>10 DEF Entered
  <1> QED BY <1>2, <1>9, <1>11, <1>12, <1>13 DEF SameWaits

\* A frame that is left takes away at most one running task, or one wait.
LEMMA LeaveKeeps ==
    ASSUME TypeOK, Frames, NEW w \in Workers, stack[w] # <<>>, NEW n \in Nat, Leaves(w, n)
    PROVE  /\ Frames'
           /\ \A v \in Workers : v # w => Depth(v)' = Depth(v)
           /\ Depth(w)' = Depth(w) - 1 /\ (stack'[w] = <<>> <=> Depth(w) = 1)
           /\ stack'[w] # <<>> =>
                 IF Top(w).kind = "loop" THEN Top(w)'.kind = "run" /\ Top(w)'.pc = "op"
                 ELSE Top(w)'.kind = "loop" /\ Top(w)'.pc = "check"
           /\ \A v, i, t : v \in Workers =>
                 (Runs(v, i, t)' <=> Runs(v, i, t) /\ ~ (v = w /\ i = Depth(w)))
           /\ SameFlushes
           /\ \A v, i, t : LoopWaits(v, i, t)' <=> LoopWaits(v, i, t) /\ ~ (v = w /\ i = Depth(w))
  <1>0. PICK d \in Nat : d + 1 = Depth(w) /\ d = Depth(w) - 1
    <2>1. Depth(w) \in Nat /\ Depth(w) \in 1..Depth(w)
      BY StackTypes
    <2>2. Depth(w) - 1 \in Nat /\ (Depth(w) - 1) + 1 = Depth(w)
      BY <2>1
    <2> QED BY <2>2
  <1>1. \A v \in Workers : stack[v] \in Seq(FrameSet) /\ stack'[v] \in Seq(FrameSet)
    BY StackTypes DEF Leaves
  <1>2. Depth(w)' = d /\ \A v \in Workers : v # w => Depth(v)' = Depth(v)
    BY <1>0 DEF Leaves, Depth
  <1>3. stack'[w] = <<>> <=> Depth(w) = 1
    <2>1. stack'[w] = <<>> <=> d = 0
      BY <1>1, <1>2, EmptySeq DEF Depth
    <2>2. d = 0 <=> d + 1 = 1
      OBVIOUS
    <2> QED BY <1>0, <2>1, <2>2
  <1>4. \A v \in Workers : v # w => stack'[v] = stack[v]
    BY DEF Leaves
  <1>5. \A i \in 1..d :
           stack'[w][i] = IF i = d THEN [stack[w][i] EXCEPT !.ip = @ + n] ELSE stack[w][i]
    BY <1>0 DEF Leaves
  <1>6. \A i \in 1..(d + 1) : i \in 1..d \/ i = d + 1
    OBVIOUS
  <1>7. d + 1 \in 1..(d + 1) /\ \A i \in 1..d : i \in 1..(d + 1) /\ i # d + 1
    OBVIOUS
  <1>8. \A i \in 1..d :
           /\ stack[w][i] \in FrameSet /\ GoodFrame(stack[w][i], i, FALSE)
           /\ stack'[w][i] \in FrameSet /\ stack'[w][i].kind = stack[w][i].kind
           /\ stack'[w][i].task = stack[w][i].task /\ stack'[w][i].pc = stack[w][i].pc
           /\ stack'[w][i].added = stack[w][i].added /\ stack'[w][i].fin = stack[w][i].fin
           /\ stack'[w][i].ip # 0
    <2> SUFFICES ASSUME NEW i \in 1..d
                 PROVE  /\ stack[w][i] \in FrameSet /\ GoodFrame(stack[w][i], i, FALSE)
                        /\ stack'[w][i] \in FrameSet /\ stack'[w][i].kind = stack[w][i].kind
                        /\ stack'[w][i].task = stack[w][i].task /\ stack'[w][i].pc = stack[w][i].pc
                        /\ stack'[w][i].added = stack[w][i].added /\ stack'[w][i].fin = stack[w][i].fin
                        /\ stack'[w][i].ip # 0
      OBVIOUS
    <2>1. stack[w][i] \in FrameSet /\ GoodFrame(stack[w][i], i, FALSE)
      BY <1>0, <1>7, StackTypes DEF Frames
    <2>2. PICK a : a = stack[w][i]
      OBVIOUS
    <2>3. PICK b : b = [a EXCEPT !.ip = @ + n]
      OBVIOUS
    <2>4. /\ b \in FrameSet /\ b.kind = a.kind /\ b.task = a.task /\ b.pc = a.pc
          /\ b.added = a.added /\ b.fin = a.fin
      BY <2>1, <2>2, <2>3 DEF FrameSet
    <2>5. b.ip # 0
      <3>1. a.ip \in Nat /\ a.ip # 0 /\ b.ip = a.ip + n
        BY <2>1, <2>2, <2>3 DEF FrameSet, GoodFrame
      <3> QED BY <3>1
    <2>6. stack'[w][i] = a \/ stack'[w][i] = b
      BY <1>5, <2>2, <2>3
    <2>7. a.ip # 0 /\ a \in FrameSet
      BY <2>1, <2>2 DEF GoodFrame
    <2> QED BY <2>1, <2>2, <2>4, <2>5, <2>6, <2>7
  <1>9. \A i \in 1..d : GoodFrame(stack'[w][i], i, i = d)
    BY <1>8 DEF GoodFrame
  <1>10. Frames'
    BY <1>2, <1>4, <1>9 DEF Frames
  <1>11. stack'[w] # <<>> =>
            IF Top(w).kind = "loop" THEN Top(w)'.kind = "run" /\ Top(w)'.pc = "op"
            ELSE Top(w)'.kind = "loop" /\ Top(w)'.pc = "check"
    <2> SUFFICES ASSUME stack'[w] # <<>>
                 PROVE  IF Top(w).kind = "loop" THEN Top(w)'.kind = "run" /\ Top(w)'.pc = "op"
                        ELSE Top(w)'.kind = "loop" /\ Top(w)'.pc = "check"
      OBVIOUS
    <2>1. d \in 1..d
      <3>1. Len(stack'[w]) # 0
        BY <1>1, EmptySeq
      <3> QED BY <1>2, <3>1 DEF Depth
    <2>2. Top(w) = stack[w][d + 1] /\ Top(w)' = stack'[w][d]
      BY <1>0, <1>2 DEF Top
    <2>3. GoodFrame(stack[w][d + 1], d + 1, TRUE) /\ GoodFrame(stack[w][d], d, FALSE)
      BY <1>0, <1>7, <1>8, <2>1 DEF Frames
    <2>4. (stack[w][d + 1].kind = "loop" <=> stack[w][d].kind # "loop")
          /\ stack[w][d].kind \in {"loop", "run"}
      BY <2>3, Parity DEF GoodFrame
    <2>5. stack[w][d].kind = "loop" => stack[w][d].pc = "check"
      BY <2>3 DEF GoodFrame
    <2>6. stack[w][d].kind = "run" => stack[w][d].pc = "op"
      BY <2>3 DEF GoodFrame
    <2> QED BY <1>8, <2>1, <2>2, <2>4, <2>5, <2>6
  <1>12. \A v, i, t : v \in Workers =>
            (Runs(v, i, t)' <=> Runs(v, i, t) /\ ~ (v = w /\ i = Depth(w)))
    <2>1. ASSUME NEW i, NEW t
          PROVE  Runs(w, i, t)' <=> Runs(w, i, t) /\ i # d + 1
      BY <1>0, <1>2, <1>6, <1>7, <1>8 DEF Runs
    <2>2. ASSUME NEW v \in Workers, v # w, NEW i, NEW t PROVE Runs(v, i, t)' <=> Runs(v, i, t)
      BY <1>2, <1>4, <2>2 DEF Runs
    <2> QED BY <1>0, <2>1, <2>2
  <1>13. SameFlushes
    BY <1>2, <1>4, <1>8 DEF Flushes, SameFlushes
  <1>14. \A v, i, t : LoopWaits(v, i, t)' <=> LoopWaits(v, i, t) /\ ~ (v = w /\ i = Depth(w))
    <2>1. ASSUME NEW i, NEW t
          PROVE  LoopWaits(w, i, t)' <=> LoopWaits(w, i, t) /\ i # d + 1
      BY <1>0, <1>2, <1>6, <1>7, <1>8 DEF LoopWaits
    <2>2. ASSUME NEW v \in Workers, v # w, NEW i, NEW t
          PROVE  LoopWaits(v, i, t)' <=> LoopWaits(v, i, t)
      BY <1>2, <1>4, <2>2 DEF LoopWaits
    <2>3. ASSUME NEW v, v \notin Workers, NEW i, NEW t
          PROVE  ~ LoopWaits(v, i, t)' /\ ~ LoopWaits(v, i, t)
      BY <2>3 DEF LoopWaits
    <2> QED BY <1>0, <2>1, <2>2, <2>3
  <1> QED BY <1>0, <1>2, <1>3, <1>10, <1>11, <1>12, <1>13, <1>14


-----------------------------------------------------------------------------
(* The bounds of the types: a stack is at most as deep as there are tasks to run
   on it, and the list of sleepers has room for every worker. *)

\* The depth of a task's frame is twice a number...
LEMMA Even ==
    ASSUME NEW k \in Nat
    PROVE  ((k + k) % 2) = 0
  BY SMT

\* ...and half of the frames of a stack are those of tasks.
LEMMA Odd ==
    ASSUME NEW d \in Nat
    PROVE  \E h \in Nat : (d = h + h \/ d = h + h + 1) /\ \A k \in 1..h : k + k \in 1..d /\ k + k # 1
  <1>1. d \div 2 \in Nat /\ (d = (d \div 2) + (d \div 2) \/ d = (d \div 2) + (d \div 2) + 1)
    BY SMT
  <1>2. \A h \in Nat : \A k \in 1..h : k + k \in 1..(h + h) /\ k + k \in 1..(h + h + 1) /\ k + k # 1
    BY SMT
  <1> QED BY <1>1, <1>2

\* A stack has no more frames than MaxDepth: each task is on one stack once.
LEMMA DepthBound ==
    ASSUME TypeOK, Frames, Running, NEW w \in Workers
    PROVE  Depth(w) \in 0..MaxDepth /\ Cardinality(Tasks) \in Nat
  <1>1. Depth(w) \in Nat
    BY StackTypes
  <1>2. PICK h \in Nat : /\ Depth(w) = h + h \/ Depth(w) = h + h + 1
                         /\ \A k \in 1..h : k + k \in 1..Depth(w) /\ k + k # 1
    BY <1>1, Odd
  <1>3. \A k \in 1..h : stack[w][k + k].task \in Tasks /\ Runs(w, k + k, stack[w][k + k].task)
    <2> SUFFICES ASSUME NEW k \in 1..h
                 PROVE  stack[w][k + k].task \in Tasks /\ Runs(w, k + k, stack[w][k + k].task)
      OBVIOUS
    <2>1. k + k \in 1..Depth(w) /\ k + k # 1 /\ k + k \in Nat
      BY <1>2
    <2>2. ((k + k) % 2) = 0
      BY Even
    <2>3. GoodFrame(stack[w][k + k], k + k, k + k = Depth(w))
      BY <2>1 DEF Frames
    <2>4. stack[w][k + k] \in FrameSet /\ stack[w][k + k].kind = "run" /\ stack[w][k + k].task # None
      BY <2>1, <2>2, <2>3 DEF GoodFrame
    <2>5. stack[w][k + k].task \in Tasks \union {None}
      BY <2>4 DEF FrameSet
    <2> QED BY <2>1, <2>4, <2>5 DEF Runs
  <1>4. PICK f : f = [k \in 1..h |-> stack[w][k + k].task]
    OBVIOUS
  <1>5. f \in [1..h -> Tasks]
    BY <1>3, <1>4
  <1>6. \A j, k \in 1..h : f[j] = f[k] => j = k
    <2> SUFFICES ASSUME NEW j \in 1..h, NEW k \in 1..h, f[j] = f[k] PROVE j = k
      OBVIOUS
    <2>1. f[j] \in Tasks /\ Runs(w, j + j, f[j]) /\ Runs(w, k + k, f[j]) /\ j + j \in Nat /\ k + k \in Nat
      BY <1>3, <1>4
    <2>2. j + j = k + k
      BY <2>1 DEF Running
    <2> QED BY <2>2
  <1>7. f \in Injection(1..h, Tasks)
    BY <1>5, <1>6 DEF Injection, IsInjective
  <1>8. Cardinality(1..h) <= Cardinality(Tasks) /\ Cardinality(Tasks) \in Nat
    BY <1>7, FS_Injection, FS_CardinalityType, PoolAssumption
  <1>9. Cardinality(1..h) = IF 1 > h THEN 0 ELSE h - 1 + 1
    BY FS_Interval
  <1>10. h <= Cardinality(Tasks)
    BY <1>8, <1>9
  <1> QED BY <1>1, <1>2, <1>8, <1>10 DEF MaxDepth

\* A worker's event is one of Events.
LEMMA EventBound ==
    ASSUME TypeOK, Frames, Running, NEW w \in Workers, stack[w] # <<>>
    PROVE  Event(w) \in Events /\ MainEvent \in Events
  <1>1. Depth(w) \in 0..MaxDepth /\ Depth(w) \in 1..Depth(w) /\ Cardinality(Tasks) \in Nat
    BY DepthBound, StackTypes
  <1>2. Depth(w) \in 1..MaxDepth /\ 1 \in 1..MaxDepth
    BY <1>1 DEF MaxDepth
  <1> QED BY <1>2 DEF Event, Events, MainEvent, Threads

\* So is the event of the thread that owns the pool.
LEMMA MainEventBound ==
    MainEvent \in Events
  <1>1. Cardinality(Tasks) \in Nat
    BY FS_CardinalityType, PoolAssumption
  <1>2. 1 \in 1..MaxDepth
    BY <1>1 DEF MaxDepth
  <1> QED BY <1>2 DEF Events, MainEvent, Threads

\* A list without repetitions that names workers has room for NumThreads.
LEMMA WaitersBound ==
    ASSUME NEW s \in Seq(Events), NoRepeat(s), NEW D,
           \A w \in Threads, i \in Nat : Holds(s, <<w, i>>) => w \in Workers /\ i = D[w]
    PROVE  Len(s) <= NumThreads
  <1>1. \A i \in 1..Len(s) : s[i] \in Events /\ Holds(s, s[i])
    BY ElementOfSeq DEF Holds
  <1>2. \A i \in 1..Len(s) : s[i][1] \in Workers /\ s[i] = <<s[i][1], D[s[i][1]]>>
    <2> SUFFICES ASSUME NEW i \in 1..Len(s)
                 PROVE  s[i][1] \in Workers /\ s[i] = <<s[i][1], D[s[i][1]]>>
      OBVIOUS
    <2>1. PICK v \in Threads : \E j \in 1..MaxDepth : s[i] = <<v, j>>
      BY <1>1 DEF Events
    <2>2. PICK j \in 1..MaxDepth : s[i] = <<v, j>>
      BY <2>1
    <2>3. j \in Nat
      BY <2>2
    <2>4. v \in Workers /\ j = D[v]
      BY <1>1, <2>2, <2>3
    <2> QED BY <2>2, <2>4
  <1>3. PICK f : f = [i \in 1..Len(s) |-> s[i][1]]
    OBVIOUS
  <1>4. f \in [1..Len(s) -> Workers]
    BY <1>2, <1>3
  <1>5. \A i, j \in 1..Len(s) : f[i] = f[j] => i = j
    BY <1>2, <1>3 DEF NoRepeat
  <1>6. f \in Injection(1..Len(s), Workers)
    BY <1>4, <1>5 DEF Injection, IsInjective
  <1>7. /\ IsFiniteSet(Workers)
        /\ Cardinality(Workers) = IF 0 > NumThreads - 1 THEN 0 ELSE NumThreads - 1 - 0 + 1
    BY FS_Interval, PoolAssumption DEF Workers
  <1>8. Cardinality(1..Len(s)) <= Cardinality(Workers)
    BY <1>6, <1>7, FS_Injection
  <1>9. Len(s) \in Nat
    BY LenProperties
  <1>10. Cardinality(1..Len(s)) = IF 1 > Len(s) THEN 0 ELSE Len(s) - 1 + 1
    BY <1>9, FS_Interval
  <1> QED BY <1>7, <1>8, <1>9, <1>10, PoolAssumption


-----------------------------------------------------------------------------
(* Steps that leave a part of the invariant alone. *)

\* Queued stays when the queues and the queued tasks stay.
LEMMA QueuedStays ==
    ASSUME Queued, UNCHANGED queues, \A t \in Tasks : tstate'[t] = "queued" <=> tstate[t] = "queued"
    PROVE  Queued'
  <1>1. deque' = deque /\ public' = public
    BY DEF queues
  <1> QED BY <1>1 DEF Queued

\* Running stays when the same tasks run.
LEMMA RunningStays ==
    ASSUME Running, SameRuns, SameFlushes,
           \A t \in Tasks : \/ tstate'[t] = tstate[t]
                            \/ tstate[t] \in {"new", "queued"} /\ tstate'[t] \in {"new", "queued"}
    PROVE  Running'
  <1>1. \A v \in Workers, i \in Nat, t \in Tasks : Runs(v, i, t)' <=> Runs(v, i, t)
    BY DEF SameRuns
  <1>2. \A v \in Workers, i \in Nat, t \in Tasks : Runs(v, i, t) => (Flushes(v, i)' <=> Flushes(v, i))
    <2> SUFFICES ASSUME NEW v \in Workers, NEW i \in Nat, NEW t \in Tasks, Runs(v, i, t)
                 PROVE  Flushes(v, i)' <=> Flushes(v, i)
      OBVIOUS
    <2>1. Runs(v, i, t)'
      BY <1>1
    <2>2. i \in 1..Depth(v) /\ i \in 1..Depth(v)'
      BY <2>1 DEF Runs
    <2> QED BY <2>2 DEF SameFlushes
  <1>3. \A t \in Tasks : tstate'[t] \in {"running", "finished"} => tstate[t] \in {"running", "finished"}
    OBVIOUS
  <1>4. \A v \in Workers, i \in Nat, t \in Tasks : Runs(v, i, t) => tstate'[t] = tstate[t]
    BY DEF Running
  <1>5. \A t \in Tasks : tstate'[t] \in {"running", "finished"} =>
            \E v \in Workers, i \in Nat : Runs(v, i, t)'
    BY <1>1, <1>3 DEF Running
  <1>6. \A v \in Workers, i \in Nat, t \in Tasks : Runs(v, i, t)' =>
            tstate'[t] = IF Flushes(v, i)' THEN "finished" ELSE "running"
    BY <1>1, <1>2, <1>4 DEF Running
  <1>7. \A v, w \in Workers, i, j \in Nat, t \in Tasks :
            Runs(v, i, t)' /\ Runs(w, j, t)' => v = w /\ i = j
    BY <1>1 DEF Running
  <1> QED BY <1>5, <1>6, <1>7 DEF Running

\* The waits that end are those nobody signals.
WaitsEnd ==
    \A v, i, t : \/ LoopWaits(v, i, t) => LoopWaits(v, i, t)'
                 \/ /\ \A u \in Tasks : <<v, i>> \notin conts[u]
                    /\ <<<<v, i>>, "finished">> \notin pending'

\* Signals stays when no continuation is added, no signal comes up, and no
\* wait ends.
LEMMA SignalsStays ==
    ASSUME Signals, WaitsEnd, UNCHANGED conts,
           \A t : MainWaits(Main, 1, t) => MainWaits(Main, 1, t)',
           \A e : <<e, "finished">> \in pending' => <<e, "finished">> \in pending,
           <<MainEvent, "available">> \notin pending',
           \A t \in Tasks : Ready(t) => Ready(t)',
           \A v \in Workers, t \in Tasks :
              Told(v, t)' => Told(v, t) /\ Depth(v)' = Depth(v) /\ LoopWaits(v, Depth(v), t)'
    PROVE  Signals'
  <1>1. \A v \in Threads, i \in Nat, t \in Tasks : <<v, i>> \in conts[t] => Waits(v, i, t)'
    <2> SUFFICES ASSUME NEW v \in Threads, NEW i \in Nat, NEW t \in Tasks, <<v, i>> \in conts[t]
                 PROVE  Waits(v, i, t)'
      OBVIOUS
    <2>1. Waits(v, i, t)
      BY DEF Signals
    <2>2. MainWaits(v, i, t) => MainWaits(v, i, t)'
      BY DEF MainWaits
    <2>3. LoopWaits(v, i, t) => LoopWaits(v, i, t)'
      BY DEF WaitsEnd
    <2> QED BY <2>1, <2>2, <2>3 DEF Waits
  <1>2. \A v \in Threads, i \in Nat : <<<<v, i>>, "finished">> \in pending' =>
            \E t \in Tasks : Waits(v, i, t)' /\ Ready(t)' /\ <<v, i>> \notin conts'[t]
    <2> SUFFICES ASSUME NEW v \in Threads, NEW i \in Nat, <<<<v, i>>, "finished">> \in pending'
                 PROVE  \E t \in Tasks : Waits(v, i, t)' /\ Ready(t)' /\ <<v, i>> \notin conts'[t]
      OBVIOUS
    <2>1. PICK t \in Tasks : Waits(v, i, t) /\ Ready(t) /\ <<v, i>> \notin conts[t]
      BY DEF Signals
    <2>2. MainWaits(v, i, t) => MainWaits(v, i, t)'
      BY DEF MainWaits
    <2>3. LoopWaits(v, i, t) => LoopWaits(v, i, t)'
      BY DEF WaitsEnd
    <2> QED BY <2>1, <2>2, <2>3 DEF Waits
  <1>3. \A v \in Workers, t \in Tasks : Told(v, t)' =>
            /\ LoopWaits(v, Depth(v), t)' /\ Ready(t)' /\ Event(v)' \notin conts'[t]
            /\ <<Event(v)', "finished">> \notin pending'
    <2> SUFFICES ASSUME NEW v \in Workers, NEW t \in Tasks, Told(v, t)'
                 PROVE  /\ LoopWaits(v, Depth(v), t)' /\ Ready(t)' /\ Event(v)' \notin conts'[t]
                        /\ <<Event(v)', "finished">> \notin pending'
      OBVIOUS
    <2>1. Told(v, t) /\ Depth(v)' = Depth(v) /\ LoopWaits(v, Depth(v), t)'
      OBVIOUS
    <2>2. Event(v)' = Event(v)
      BY <2>1 DEF Event
    <2>3. /\ Ready(t) /\ Event(v) \notin conts[t] /\ <<Event(v), "finished">> \notin pending
      BY <2>1 DEF Signals
    <2>4. LoopWaits(v, Depth(v), t)'
      BY <2>1 DEF LoopWaits
    <2> QED BY <2>2, <2>3, <2>4
  <1>4. MainEvent' = MainEvent
    BY DEF MainEvent
  <1> QED BY <1>1, <1>2, <1>3, <1>4 DEF Signals

\* What worker w does leaves the others as they are.
Others(w) == \A v \in Workers : v # w => stack'[v] = stack[v]

\* What a step of one worker leaves alone at another.
LEMMA Elsewhere ==
    ASSUME NEW w \in Workers, Others(w), NEW v \in Workers, v # w
    PROVE  /\ Depth(v)' = Depth(v) /\ Event(v)' = Event(v) /\ Top(v)' = Top(v)
           /\ \A k, p : At(v, k, p)' <=> At(v, k, p)
           /\ Sleeping(v)' <=> Sleeping(v)
           /\ Busy(v)' <=> Busy(v)
           /\ \A t : Told(v, t)' <=> Told(v, t)
           /\ \A t : \A i : LoopWaits(v, i, t)' <=> LoopWaits(v, i, t)
           /\ range'[v] = range[v] => (Exited(v)' <=> Exited(v))
           /\ (\A k : <<Event(v), k>> \in pending => <<Event(v), k>> \in pending') =>
                 (Asleep(v)' => Asleep(v))
  <1>1. stack'[v] = stack[v]
    BY DEF Others
  <1>2. Depth(v)' = Depth(v) /\ Top(v)' = Top(v) /\ Event(v)' = Event(v)
    BY <1>1 DEF Depth, Top, Event
  <1>3. \A k, p : At(v, k, p)' <=> At(v, k, p)
    BY <1>1, <1>2 DEF At
  <1>4. Sleeping(v)' <=> Sleeping(v)
    BY <1>3 DEF Sleeping
  <1>5. Busy(v)' <=> Busy(v)
    BY <1>1, <1>2 DEF Busy
  <1>6. \A t : Told(v, t)' <=> Told(v, t)
    BY <1>2, <1>3 DEF Told
  <1>7. \A t : \A i : LoopWaits(v, i, t)' <=> LoopWaits(v, i, t)
    BY <1>1, <1>2 DEF LoopWaits
  <1>8. range'[v] = range[v] => (Exited(v)' <=> Exited(v))
    BY <1>1 DEF Exited
  <1>9. (\A k : <<Event(v), k>> \in pending => <<Event(v), k>> \in pending') => (Asleep(v)' => Asleep(v))
    <2> SUFFICES ASSUME \A k : <<Event(v), k>> \in pending => <<Event(v), k>> \in pending', Asleep(v)'
                 PROVE  Asleep(v)
      OBVIOUS
    <2>1. At(v, "loop", "sleep")
      BY <1>3 DEF Asleep
    <2>2. Mask(Event(v))' = {}
      BY DEF Asleep
    <2>3. \A k \in {"finished", "available"} : <<Event(v), k>> \notin pending'
      BY <1>2, <2>2 DEF Mask
    <2>4. Mask(Event(v)) = {}
      BY <2>3 DEF Mask
    <2> QED BY <2>1, <2>4 DEF Asleep
  <1> QED BY <1>2, <1>3, <1>4, <1>5, <1>6, <1>7, <1>8, <1>9

\* No signal is lost, except those of worker w.
Kept(w) ==
    \A v \in Workers : v # w => \A k : <<Event(v), k>> \in pending => <<Event(v), k>> \in pending'

\* Sleepers stays when the list stays and the worker that moved sleeps neither
\* before nor after.
LEMMA SleepersStays ==
    ASSUME Sleepers, NEW w \in Workers, Others(w), Kept(w), waiters' = waiters,
           ~ Sleeping(w), ~ Asleep(w)'
    PROVE  Sleepers'
  <1>1. \A v \in Workers : v # w => (Asleep(v)' => Asleep(v))
    BY Elsewhere DEF Kept
  <1>2. NoRepeat(waiters)'
    BY DEF Sleepers
  <1>3. \A v \in Threads, i \in Nat : Holds(waiters, <<v, i>>)' =>
              v \in Workers /\ i = Depth(v)' /\ Sleeping(v)'
    <2> SUFFICES ASSUME NEW v \in Threads, NEW i \in Nat, Holds(waiters, <<v, i>>)'
                 PROVE  v \in Workers /\ i = Depth(v)' /\ Sleeping(v)'
      OBVIOUS
    <2>1. v \in Workers /\ i = Depth(v) /\ Sleeping(v)
      BY DEF Sleepers, Holds
    <2>2. v # w
      BY <2>1
    <2> QED BY <2>1, <2>2, Elsewhere
  <1>4. \A v \in Workers : Asleep(v)' => Holds(waiters, Event(v))'
    <2> SUFFICES ASSUME NEW v \in Workers, Asleep(v)' PROVE Holds(waiters, Event(v))'
      OBVIOUS
    <2>1. v # w /\ Asleep(v)
      BY <1>1
    <2>2. Event(v)' = Event(v)
      BY <2>1, Elsewhere
    <2>3. Holds(waiters, Event(v))
      BY <2>1 DEF Sleepers
    <2> QED BY <2>2, <2>3 DEF Holds
  <1> QED BY <1>2, <1>3, <1>4 DEF Sleepers

\* Starts stays when no thread is started and no handle assigned.
LEMMA StartsStays ==
    ASSUME Starts, range' = range, handle' = handle,
           \A v \in Workers : stack'[v] # <<>> => stack[v] # <<>>
    PROVE  Starts'
  <1>1. \A v \in Workers : Rest(v)' = Rest(v) /\ Child(v)' = Child(v)
    BY DEF Rest, Child, Half
  <1> QED BY <1>1 DEF Starts

\* Ends stays when nobody leaves and the destructor does not move.
LEMMA EndsStays ==
    ASSUME Ends, UNCHANGED <<shutdown, mpc, mip>>, public # <<>> \/ public' = <<>>,
           \A v \in Workers : Exited(v)' <=> Exited(v)
    PROVE  Ends'
  BY DEF Ends

\* A worker that neither sleeps nor is about to works on.
LEMMA AwakeStep ==
    ASSUME Sleepers, Work, Starts, Ends, NEW w \in Workers, Others(w), Kept(w),
           UNCHANGED <<waiters, lock, range, handle, mpc, mip, shutdown>>,
           stack[w] # <<>>, stack'[w] # <<>>,
           ~ Sleeping(w), ~ At(w, "loop", "append"), ~ Sleeping(w)', ~ At(w, "loop", "append")',
           public # <<>> \/ public' = <<>>,
           \A v \in Workers : deque'[v] # <<>> => v = w \/ deque[v] # <<>>,
           deque'[w] # <<>> => Busy(w)'
    PROVE  Sleepers' /\ Work' /\ Starts' /\ Ends'
  <1>2. ~ Asleep(w)' /\ ~ Asleep(w)
    BY DEF Asleep, Sleeping
  <1>3. Sleepers'
    BY <1>2, SleepersStays
  <1>4. Work'
    <2>1. \A v \in Workers : At(v, "loop", "append")' <=> At(v, "loop", "append")
      BY Elsewhere
    <2>2. \A v \in Workers : lock' = v <=> At(v, "loop", "append")'
      BY <2>1 DEF Work
    <2>3. \A v \in Workers : deque'[v] # <<>> => Busy(v)'
      BY Elsewhere DEF Work
    <2>4. lock' # Free => public' = <<>>
      BY DEF Work
    <2> QED BY <1>2, <2>2, <2>3, <2>4 DEF Work
  <1>5. Starts'
    BY StartsStays DEF Others
  <1>6. Ends'
    <2>1. \A v \in Workers : Exited(v)' <=> Exited(v)
      <3>1. ~ Exited(w) /\ ~ Exited(w)'
        BY DEF Exited
      <3> QED BY <3>1, Elsewhere
    <2> QED BY <2>1, EndsStays
  <1> QED BY <1>3, <1>4, <1>5, <1>6


-----------------------------------------------------------------------------
(* Steps of a loop that looks for something to run. *)

\* The frame on top is one for its depth.
LEMMA TopFrame ==
    ASSUME TypeOK, Frames, NEW w \in Workers, stack[w] # <<>>
    PROVE  /\ Depth(w) \in Nat /\ Depth(w) \in 1..Depth(w)
           /\ Top(w) \in FrameSet /\ GoodFrame(Top(w), Depth(w), TRUE)
  <1>1. Depth(w) \in Nat /\ Depth(w) \in 1..Depth(w)
    BY StackTypes
  <1>2. GoodFrame(stack[w][Depth(w)], Depth(w), Depth(w) = Depth(w))
    BY <1>1 DEF Frames
  <1> QED BY <1>1, <1>2, StackTypes DEF Top

\* What replacing the frame on top preserves.
LEMMA SetKeeps ==
    ASSUME TypeOK, Frames, NEW w \in Workers, stack[w] # <<>>, NEW f \in FrameSet, Set(w, f),
           f.kind = Top(w).kind, f.task = Top(w).task, GoodFrame(f, Depth(w), TRUE)
    PROVE  /\ stack' \in [Workers -> Seq(FrameSet)] /\ Others(w) /\ Frames'
           /\ \A v \in Workers : Depth(v)' = Depth(v) /\ (stack'[v] = <<>> <=> stack[v] = <<>>)
           /\ Top(w)' = f /\ Event(w)' = Event(w)
           /\ SameRuns
           /\ (f.pc = "flush" <=> Top(w).pc = "flush") => SameFlushes
           /\ f.added = Top(w).added => SameWaits
  <1>1. Replaces(w, f)
    BY SetReplaces
  <1>2. /\ stack' \in [Workers -> Seq(FrameSet)] /\ Others(w)
    BY <1>1 DEF Replaces, Others
  <1>3. /\ Frames'
        /\ \A v \in Workers : Depth(v)' = Depth(v) /\ (stack'[v] = <<>> <=> stack[v] = <<>>)
        /\ Top(w)' = f /\ SameRuns
        /\ (f.pc = "flush" <=> Top(w).pc = "flush") => SameFlushes
        /\ f.added = Top(w).added => SameWaits
    BY <1>1, ReplaceKeeps
  <1> QED BY <1>2, <1>3 DEF Event

\* What moving to another place in the code preserves.
LEMMA GoKeeps ==
    ASSUME TypeOK, Frames, NEW w \in Workers, stack[w] # <<>>, NEW p, Go(w, p), p # "relock",
           IF Top(w).kind = "loop" THEN p \in LoopPcs /\ ~ Top(w).fin ELSE p \in RunPcs
    PROVE  /\ stack' \in [Workers -> Seq(FrameSet)] /\ Others(w) /\ Frames'
           /\ \A v \in Workers : Depth(v)' = Depth(v) /\ (stack'[v] = <<>> <=> stack[v] = <<>>)
           /\ Top(w)'.pc = p /\ Top(w)'.kind = Top(w).kind /\ Top(w)'.task = Top(w).task
           /\ Event(w)' = Event(w)
           /\ SameRuns /\ SameWaits
           /\ (p = "flush" <=> Top(w).pc = "flush") => SameFlushes
  <1>1. /\ Depth(w) \in Nat /\ Depth(w) \in 1..Depth(w)
        /\ Top(w) \in FrameSet /\ GoodFrame(Top(w), Depth(w), TRUE)
    BY TopFrame
  <1>2. PICK f : f = [Top(w) EXCEPT !.pc = p]
    OBVIOUS
  <1>3. p \in {"check", "pop", "steal", "append", "sleep", "relock", "op", "test", "wake", "flush"}
    BY DEF LoopPcs, RunPcs
  <1>4. f \in FrameSet /\ f.kind = Top(w).kind /\ f.task = Top(w).task /\ f.pc = p
        /\ f.added = Top(w).added /\ f.fin = Top(w).fin /\ f.ip = Top(w).ip
    BY <1>1, <1>2, <1>3 DEF FrameSet
  <1>5. GoodFrame(f, Depth(w), TRUE)
    BY <1>1, <1>4 DEF GoodFrame
  <1>6. Set(w, f)
    BY <1>2 DEF Go
  <1> QED BY <1>4, <1>5, <1>6, SetKeeps

\* What starting to steal preserves.
LEMMA GoStealKeeps ==
    ASSUME TypeOK, Frames, NEW w \in Workers, stack[w] # <<>>, Top(w).kind = "loop", GoSteal(w)
    PROVE  /\ stack' \in [Workers -> Seq(FrameSet)] /\ Others(w) /\ Frames'
           /\ \A v \in Workers : Depth(v)' = Depth(v) /\ (stack'[v] = <<>> <=> stack[v] = <<>>)
           /\ Top(w)'.pc = "steal" /\ Top(w)'.kind = "loop" /\ Event(w)' = Event(w)
           /\ SameRuns /\ SameWaits /\ SameFlushes
  <1>1. /\ Depth(w) \in Nat /\ Depth(w) \in 1..Depth(w)
        /\ Top(w) \in FrameSet /\ GoodFrame(Top(w), Depth(w), TRUE)
    BY TopFrame
  <1>2. PICK f : f = [Top(w) EXCEPT !.pc = "steal", !.left = Workers \ {w}, !.fin = FALSE]
    OBVIOUS
  <1>3. f \in FrameSet /\ f.kind = Top(w).kind /\ f.task = Top(w).task /\ f.pc = "steal"
        /\ f.added = Top(w).added /\ f.fin = FALSE /\ f.ip = Top(w).ip
    BY <1>1, <1>2 DEF FrameSet
  <1>4. GoodFrame(f, Depth(w), TRUE) /\ Top(w).pc # "flush"
    BY <1>1, <1>3 DEF GoodFrame, LoopPcs
  <1>5. Set(w, f)
    BY <1>2 DEF GoSteal
  <1> QED BY <1>3, <1>4, <1>5, SetKeeps

\* The workers that were told are still told in the same frames.
LEMMA ToldElsewhere ==
    ASSUME Signals, NEW w \in Workers, Others(w), \A t : ~ Told(w, t)'
    PROVE  \A v \in Workers, t \in Tasks :
              Told(v, t)' => Told(v, t) /\ Depth(v)' = Depth(v) /\ LoopWaits(v, Depth(v), t)'
  <1> SUFFICES ASSUME NEW v \in Workers, NEW t \in Tasks, Told(v, t)'
               PROVE  Told(v, t) /\ Depth(v)' = Depth(v) /\ LoopWaits(v, Depth(v), t)'
    OBVIOUS
  <1>1. v # w
    OBVIOUS
  <1>2. Told(v, t) /\ Depth(v)' = Depth(v)
    BY <1>1, Elsewhere
  <1>3. LoopWaits(v, Depth(v), t)
    BY <1>2 DEF Signals
  <1>4. \A i : LoopWaits(v, i, t)' <=> LoopWaits(v, i, t)
    BY <1>1, Elsewhere
  <1>5. PICK n : n = Depth(v)
    OBVIOUS
  <1>6. LoopWaits(v, n, t)'
    BY <1>3, <1>4, <1>5
  <1>7. n = Depth(v)'
    BY <1>2, <1>5
  <1> QED BY <1>2, <1>6, <1>7 DEF LoopWaits

\* Threads are numbered, and the number of the owner and Free are not workers.
LEMMA WorkerIds ==
    /\ \A w \in Workers : w \in Nat /\ w \in Threads /\ w # Main /\ w # Free
    /\ Main \in Threads /\ Main \notin Workers /\ Free \notin Workers /\ NumThreads \in Nat
  <1>1. NumThreads \in Nat /\ NumThreads # 0
    BY PoolAssumption
  <1>2. \A w \in 0..(NumThreads - 1) : w \in Nat /\ w # NumThreads /\ w # -1
    BY <1>1
  <1>3. NumThreads \notin 0..(NumThreads - 1) /\ -1 \notin 0..(NumThreads - 1)
    BY <1>1
  <1> QED BY <1>1, <1>2, <1>3 DEF Workers, Threads, Main, Free

\* A wait whose signal has come gets no other.
LEMMA SignalledOnce ==
    ASSUME TypeOK, Frames, Signals, NEW w \in Workers, stack[w] # <<>>,
           <<Event(w), "finished">> \in pending
    PROVE  /\ LoopWaits(w, Depth(w), Top(w).task) /\ Ready(Top(w).task) /\ Top(w).task \in Tasks
           /\ \A u \in Tasks : Event(w) \notin conts[u]
  <1>1. w \in Threads /\ w # Main /\ Depth(w) \in Nat
    BY TopFrame, WorkerIds
  <1>2. PICK t \in Tasks : Waits(w, Depth(w), t) /\ Ready(t) /\ <<w, Depth(w)>> \notin conts[t]
    BY <1>1 DEF Signals, Event
  <1>3. LoopWaits(w, Depth(w), t) /\ Top(w).task = t
    BY <1>1, <1>2 DEF Waits, MainWaits, LoopWaits, Top
  <1>4. \A u \in Tasks : Waits(w, Depth(w), u) => u = t
    BY <1>1, <1>3 DEF Waits, MainWaits, LoopWaits, Top
  <1>5. \A u \in Tasks : Event(w) \notin conts[u]
    BY <1>1, <1>2, <1>4 DEF Signals, Event
  <1> QED BY <1>2, <1>3, <1>5

\* Return preserves the invariant.
LEMMA ReturnKeeps ==
    ASSUME TypeOK, Frames, NEW w \in Workers, stack[w] # <<>>, Top(w).kind = "loop",
           Top(w).task # None, Return(w)
    PROVE  /\ stack' \in [Workers -> Seq(FrameSet)] /\ Others(w) /\ Frames'
           /\ Depth(w)' = Depth(w) - 1 /\ stack'[w] # <<>>
           /\ Top(w)'.kind = "run" /\ Top(w)'.pc = "op"
           /\ SameRuns /\ SameFlushes
           /\ \A v, i, t : LoopWaits(v, i, t)' <=> LoopWaits(v, i, t) /\ ~ (v = w /\ i = Depth(w))
  <1>1. Leaves(w, 1)
    BY ReturnLeaves
  <1>2. stack' \in [Workers -> Seq(FrameSet)] /\ Others(w)
    BY <1>1 DEF Leaves, Others
  <1>3. /\ Frames'
        /\ Depth(w)' = Depth(w) - 1 /\ (stack'[w] = <<>> <=> Depth(w) = 1)
        /\ stack'[w] # <<>> => Top(w)'.kind = "run" /\ Top(w)'.pc = "op"
        /\ \A v, i, t : v \in Workers =>
                 (Runs(v, i, t)' <=> Runs(v, i, t) /\ ~ (v = w /\ i = Depth(w)))
        /\ SameFlushes
        /\ \A v, i, t : LoopWaits(v, i, t)' <=> LoopWaits(v, i, t) /\ ~ (v = w /\ i = Depth(w))
    BY <1>1, LeaveKeeps
  <1>4. Depth(w) # 1
    BY TopFrame DEF GoodFrame
  <1>5. \A t : ~ Runs(w, Depth(w), t)
    BY DEF Runs, Top
  <1>6. SameRuns
    <2> SUFFICES ASSUME NEW v \in Workers, NEW i, NEW t PROVE Runs(v, i, t)' <=> Runs(v, i, t)
      BY DEF SameRuns
    <2>1. Runs(v, i, t)' <=> Runs(v, i, t) /\ ~ (v = w /\ i = Depth(w))
      BY <1>3
    <2>2. v = w /\ i = Depth(w) => ~ Runs(v, i, t)
      BY <1>5
    <2> QED BY <2>1, <2>2
  <1> QED BY <1>2, <1>3, <1>4, <1>6


\* A loop takes the queued task t, runs it and starts over afterwards.
LEMMA CallKeeps ==
    ASSUME TypeOK, Frames, Running, NEW w \in Workers, stack[w] # <<>>,
           Top(w).kind = "loop", Top(w).pc # "relock",
           NEW t \in Tasks, tstate[t] = "queued", Call(w, t)
    PROVE  /\ stack' \in [Workers -> Seq(FrameSet)] /\ Others(w) /\ Frames' /\ Running'
           /\ stack'[w] # <<>> /\ Top(w)'.kind = "run" /\ SameWaits
           /\ tstate' = [tstate EXCEPT ![t] = "running"] /\ conts' = conts
           /\ \A u \in Tasks : Ready(u) => Ready(u)'
  <1>0. PICK d \in Nat : d = Depth(w) /\ d \in 1..d
    BY TopFrame
  <1>1. Top(w) \in FrameSet /\ GoodFrame(Top(w), d, TRUE)
    BY <1>0, TopFrame
  <1>2. PICK f : f = [Top(w) EXCEPT !.pc = "check", !.left = {}]
    OBVIOUS
  <1>3. /\ f \in FrameSet /\ f.kind = "loop" /\ f.task = Top(w).task /\ f.pc = "check"
        /\ f.added = Top(w).added /\ f.fin = Top(w).fin /\ f.ip = Top(w).ip
    BY <1>1, <1>2 DEF FrameSet
  <1>4. /\ GoodFrame(f, d, FALSE) /\ Top(w).pc # "flush" /\ (d % 2) = 1
    <2>1. ~ f.fin /\ Top(w).pc # "flush"
      BY <1>1, <1>3 DEF GoodFrame, LoopPcs
    <2>2. (d % 2) = 1
      BY <1>1 DEF GoodFrame
    <2> QED BY <1>1, <1>3, <2>1, <2>2 DEF GoodFrame, LoopPcs
  <1>5. PICK g : g = Frame("run", t)
    OBVIOUS
  <1>6. g \in FrameSet /\ g.kind = "run" /\ g.task = t /\ g.pc = "op" /\ g.added = FALSE /\ g.ip = 1
    BY <1>5 DEF Frame, FrameSet
  <1>7. GoodFrame(g, d + 1, TRUE)
    <2>1. ((d + 1) % 2) = 0 /\ d + 1 # 1
      BY <1>0, <1>4, Parity
    <2>2. t # None
      BY PoolAssumption
    <2> QED BY <1>6, <2>1, <2>2 DEF GoodFrame, RunPcs
  <1>8. Enters(w, f, g)
    BY <1>2, <1>5, CallEnters
  <1>9. stack' \in [Workers -> Seq(FrameSet)] /\ Others(w)
    BY <1>8 DEF Enters, Others
  <1>10. /\ GoodFrame(g, Depth(w) + 1, TRUE) /\ ~ g.added
         /\ stack[w] # <<>> => /\ GoodFrame(f, Depth(w), FALSE)
                               /\ f.kind = Top(w).kind /\ f.task = Top(w).task
                               /\ f.added = Top(w).added /\ (f.pc = "flush" <=> Top(w).pc = "flush")
    BY <1>0, <1>3, <1>4, <1>6, <1>7
  <1>11. /\ Frames' /\ Depth(w)' = Depth(w) + 1 /\ stack'[w] # <<>> /\ Top(w)' = g
         /\ \A v, i, u : v \in Workers =>
               (Runs(v, i, u)' <=> \/ Runs(v, i, u)
                                   \/ v = w /\ i = Depth(w) + 1 /\ g.kind = "run" /\ g.task = u)
         /\ SameFlushes /\ SameWaits
    <2>1. Frames' /\ Entered(w, g) /\ SameFlushes /\ SameWaits
      BY <1>8, <1>10, EnterKeeps
    <2> QED BY <2>1 DEF Entered
  <1>12. /\ tstate' = [tstate EXCEPT ![t] = "running"] /\ conts' = conts
    BY DEF Call
  <1>13. \A u \in Tasks : tstate'[u] = IF u = t THEN "running" ELSE tstate[u]
    BY <1>12 DEF TypeOK
  <1>14. \A u \in Tasks : Ready(u) => Ready(u)'
    BY <1>13 DEF Ready
  <1>15. Running'
    <2>1. \A v \in Workers, i \in Nat, u \in Tasks :
             Runs(v, i, u)' <=> Runs(v, i, u) \/ (v = w /\ i = d + 1 /\ u = t)
      BY <1>0, <1>6, <1>11
    <2>2. \A v \in Workers, i \in Nat, u \in Tasks : Runs(v, i, u) => u # t
      BY DEF Running
    <2>3. \A u \in Tasks : tstate'[u] \in {"running", "finished"} =>
             \E v \in Workers, i \in Nat : Runs(v, i, u)'
      <3> SUFFICES ASSUME NEW u \in Tasks, tstate'[u] \in {"running", "finished"}
                   PROVE  \E v \in Workers, i \in Nat : Runs(v, i, u)'
        OBVIOUS
      <3>1. CASE u = t
        BY <2>1, <3>1
      <3>2. CASE u # t
        BY <1>13, <2>1, <3>2 DEF Running
      <3> QED BY <3>1, <3>2
    <2>4. \A v \in Workers, i \in Nat, u \in Tasks : Runs(v, i, u)' =>
             tstate'[u] = IF Flushes(v, i)' THEN "finished" ELSE "running"
      <3> SUFFICES ASSUME NEW v \in Workers, NEW i \in Nat, NEW u \in Tasks, Runs(v, i, u)'
                   PROVE  tstate'[u] = IF Flushes(v, i)' THEN "finished" ELSE "running"
        OBVIOUS
      <3>1. CASE Runs(v, i, u)
        <4>1. i \in 1..Depth(v) /\ i \in 1..Depth(v)'
          BY <3>1 DEF Runs
        <4>2. Flushes(v, i)' <=> Flushes(v, i)
          BY <1>11, <4>1 DEF SameFlushes
        <4>3. tstate[u] = IF Flushes(v, i) THEN "finished" ELSE "running"
          BY <3>1 DEF Running
        <4>4. tstate'[u] = tstate[u]
          BY <1>13, <2>2, <3>1
        <4> QED BY <4>2, <4>3, <4>4
      <3>2. CASE v = w /\ i = d + 1 /\ u = t
        <4>1. i = Depth(w)'
          BY <1>0, <1>11, <3>2
        <4>2. ~ Flushes(v, i)'
          BY <1>6, <1>11, <3>2, <4>1 DEF Flushes, Top
        <4> QED BY <1>13, <3>2, <4>2
      <3> QED BY <2>1, <3>1, <3>2
    <2>5. \A v, x \in Workers, i, j \in Nat, u \in Tasks :
             Runs(v, i, u)' /\ Runs(x, j, u)' => v = x /\ i = j
      <3> SUFFICES ASSUME NEW v \in Workers, NEW x \in Workers, NEW i \in Nat, NEW j \in Nat,
                          NEW u \in Tasks, Runs(v, i, u)', Runs(x, j, u)'
                   PROVE  v = x /\ i = j
        OBVIOUS
      <3>1. Runs(v, i, u) \/ (v = w /\ i = d + 1 /\ u = t)
        BY <2>1
      <3>2. Runs(x, j, u) \/ (x = w /\ j = d + 1 /\ u = t)
        BY <2>1
      <3>3. CASE u = t
        BY <2>2, <3>1, <3>2, <3>3
      <3>4. CASE u # t
        BY <3>1, <3>2, <3>4 DEF Running
      <3> QED BY <3>3, <3>4
    <2> QED BY <2>3, <2>4, <2>5 DEF Running
  <1> QED BY <1>6, <1>9, <1>11, <1>12, <1>14, <1>15

\* Task t is taken from where it was queued.
LEMMA TakenKeeps ==
    ASSUME TypeOK, Queued, NEW t \in Tasks, tstate' = [tstate EXCEPT ![t] = "running"],
           NoRepeat(public'), \A y : Holds(public', y) <=> Holds(public, y) /\ y # t,
           \A v \in Workers : NoRepeat(deque'[v]),
           \A v \in Workers : \A y : Holds(deque'[v], y) <=> Holds(deque[v], y) /\ y # t
    PROVE  Queued'
  <1>1. \A u \in Tasks : tstate'[u] = IF u = t THEN "running" ELSE tstate[u]
    BY DEF TypeOK
  <1>2. \A u \in Tasks : tstate'[u] = "queued" <=>
            Holds(public', u) \/ \E v \in Workers : Holds(deque'[v], u)
    BY <1>1 DEF Queued
  <1>3. \A u \in Tasks, v, x \in Workers : Holds(deque'[v], u) /\ Holds(deque'[x], u) => v = x
    BY DEF Queued
  <1>4. \A u \in Tasks, v \in Workers : ~ (Holds(deque'[v], u) /\ Holds(public', u))
    BY DEF Queued
  <1> QED BY <1>2, <1>3, <1>4 DEF Queued

\* Queued stays when a task is taken from a worker's queue and runs.
LEMMA DequeTaken ==
    ASSUME TypeOK, Queued, NEW v \in Workers, NEW t \in Tasks, NEW r \in Seq(Tasks),
           public' = public, deque' = [deque EXCEPT ![v] = r],
           tstate' = [tstate EXCEPT ![t] = "running"],
           NoRepeat(r), Holds(deque[v], t), \A y : Holds(deque[v], y) <=> Holds(r, y) \/ y = t,
           ~ Holds(r, t)
    PROVE  /\ Queued' /\ deque' \in [Workers -> Seq(Tasks)]
           /\ \A u \in Workers : deque'[u] # <<>> => deque[u] # <<>>
  <1>1. deque \in [Workers -> Seq(Tasks)]
    BY DEF TypeOK
  <1>2. deque' \in [Workers -> Seq(Tasks)] /\ \A u \in Workers : deque'[u] = IF u = v THEN r ELSE deque[u]
    BY <1>1
  <1>3. \A u \in Workers : u # v => ~ Holds(deque[u], t)
    BY DEF Queued
  <1>4. ~ Holds(public, t)
    BY DEF Queued
  <1>5. \A u \in Workers : NoRepeat(deque'[u])
    BY <1>2 DEF Queued
  <1>6. \A u \in Workers : \A y : Holds(deque'[u], y) <=> Holds(deque[u], y) /\ y # t
    BY <1>2, <1>3
  <1>7. \A y : Holds(public', y) <=> Holds(public, y) /\ y # t
    BY <1>4
  <1>8. NoRepeat(public')
    BY DEF Queued
  <1>9. Queued'
    BY <1>5, <1>6, <1>7, <1>8, TakenKeeps
  <1>10. deque[v] # <<>>
    BY DEF Holds
  <1> QED BY <1>2, <1>9, <1>10


\* LoopCheck preserves the invariant.
LEMMA LoopCheckKeeps ==
    ASSUME IInv, NEW w \in Workers, LoopCheck(w)
    PROVE  IInv'
  <1>0. TypeOK /\ Frames /\ Queued /\ Running /\ Signals /\ Sleepers /\ Work /\ Starts /\ Ends
    BY DEF IInv
  <1>1. stack[w] # <<>> /\ Top(w).kind = "loop" /\ Top(w).pc = "check"
    BY DEF LoopCheck, At
  <1>2. /\ deque' = deque /\ public' = public /\ waiters' = waiters /\ lock' = lock
        /\ shutdown' = shutdown /\ tstate' = tstate /\ conts' = conts /\ range' = range
        /\ handle' = handle /\ mpc' = mpc /\ mip' = mip
    BY DEF LoopCheck, queues, tasks, threads, main
  <1>3. pending' \subseteq pending /\ \A e, k : <<e, k>> \in pending /\ e # Event(w) => <<e, k>> \in pending'
    <2>1. pending' = IF Top(w).added THEN pending \ {<<Event(w), "finished">>} ELSE pending
      BY DEF LoopCheck
    <2> QED BY <2>1
  <1>4. PICK done \in BOOLEAN : done = (/\ Top(w).task # None
                         /\ IF Top(w).added THEN "finished" \in Mask(Event(w)) ELSE Ready(Top(w).task))
    OBVIOUS
  <1>5. IF done THEN Return(w) ELSE Go(w, "pop")
    BY <1>4 DEF LoopCheck
  <1>6. /\ stack' \in [Workers -> Seq(FrameSet)] /\ Others(w) /\ Frames' /\ stack'[w] # <<>>
        /\ Busy(w)' /\ SameRuns /\ SameFlushes /\ WaitsEnd
    <2>1. CASE done
      <3>0. Return(w) /\ Top(w).task # None
        BY <1>4, <1>5, <2>1
      <3>1. /\ stack' \in [Workers -> Seq(FrameSet)] /\ Others(w) /\ Frames' /\ stack'[w] # <<>>
            /\ Top(w)'.kind = "run" /\ SameRuns /\ SameFlushes
            /\ \A v, i, t : LoopWaits(v, i, t)' <=> LoopWaits(v, i, t) /\ ~ (v = w /\ i = Depth(w))
        BY <1>0, <1>1, <3>0, ReturnKeeps
      <3>2. Busy(w)'
        BY <3>1 DEF Busy
      <3>3. \A t : LoopWaits(w, Depth(w), t) =>
                /\ \A u \in Tasks : Event(w) \notin conts[u]
                /\ <<Event(w), "finished">> \notin pending'
        <4>1. \A t : LoopWaits(w, Depth(w), t) => Top(w).added
          BY DEF LoopWaits, Top
        <4>2. ASSUME Top(w).added
              PROVE  <<Event(w), "finished">> \in pending /\ <<Event(w), "finished">> \notin pending'
          <5>1. "finished" \in Mask(Event(w))
            BY <1>4, <2>1, <4>2
          <5>2. pending' = pending \ {<<Event(w), "finished">>}
            BY <4>2 DEF LoopCheck
          <5> QED BY <5>1, <5>2 DEF Mask
        <4> QED BY <1>0, <1>1, <4>1, <4>2, SignalledOnce
      <3>4. WaitsEnd
        BY <3>1, <3>3 DEF WaitsEnd, Event
      <3> QED BY <3>1, <3>2, <3>4
    <2>2. CASE ~ done
      <3>0. Go(w, "pop")
        BY <1>5, <2>2
      <3>1. ~ Top(w).fin
        BY <1>0, <1>1, TopFrame DEF GoodFrame
      <3>2. /\ stack' \in [Workers -> Seq(FrameSet)] /\ Others(w) /\ Frames'
            /\ \A v \in Workers : Depth(v)' = Depth(v) /\ (stack'[v] = <<>> <=> stack[v] = <<>>)
            /\ Top(w)'.pc = "pop" /\ Top(w)'.kind = Top(w).kind
            /\ SameRuns /\ SameWaits
            /\ ("pop" = "flush" <=> Top(w).pc = "flush") => SameFlushes
        BY <1>0, <1>1, <3>0, <3>1, GoKeeps DEF LoopPcs
      <3>3. Busy(w)'
        BY <1>1, <3>2 DEF Busy
      <3>4. WaitsEnd
        BY <3>2 DEF SameWaits, WaitsEnd
      <3> QED BY <1>1, <3>2, <3>3, <3>4
    <2> QED BY <2>1, <2>2
  <1>7. TypeOK'
    BY <1>0, <1>2, <1>3, <1>6 DEF TypeOK
  <1>8. Queued'
    BY <1>0, <1>2, QueuedStays DEF queues
  <1>9. Running'
    BY <1>0, <1>2, <1>6, RunningStays
  <1>10. \A t : ~ Told(w, t)'
    BY <1>6 DEF Told, At, Busy
  <1>11. Signals'
    <2>1. \A v \in Workers, t \in Tasks :
              Told(v, t)' => Told(v, t) /\ Depth(v)' = Depth(v) /\ LoopWaits(v, Depth(v), t)'
      BY <1>0, <1>6, <1>10, ToldElsewhere
    <2>2. \A t : MainWaits(Main, 1, t) => MainWaits(Main, 1, t)'
      BY <1>2 DEF MainWaits, MainTask
    <2>3. \A t \in Tasks : Ready(t) => Ready(t)'
      BY <1>2 DEF Ready
    <2>4. <<MainEvent, "available">> \notin pending'
      BY <1>0, <1>3 DEF Signals
    <2> QED BY <1>0, <1>2, <1>3, <1>6, <2>1, <2>2, <2>3, <2>4, SignalsStays
  <1>12. Kept(w)
    BY <1>3 DEF Kept, Event
  <1>13. Sleepers' /\ Work' /\ Starts' /\ Ends'
    <2>1. ~ Sleeping(w) /\ ~ At(w, "loop", "append") /\ ~ Sleeping(w)' /\ ~ At(w, "loop", "append")'
      BY <1>1, <1>6 DEF Sleeping, At, Busy
    <2> QED BY <1>0, <1>1, <1>2, <1>6, <1>12, <2>1, AwakeStep
  <1> QED BY <1>6, <1>7, <1>8, <1>9, <1>11, <1>13 DEF IInv


\* A loop that takes task t from a queue.
LEMMA CallStep ==
    ASSUME IInv, NEW w \in Workers, stack[w] # <<>>,
           Top(w).kind = "loop", Top(w).pc \in {"pop", "steal"},
           NEW t \in Tasks, tstate[t] = "queued", Call(w, t), Queued',
           deque' \in [Workers -> Seq(Tasks)], public' \in Seq(Tasks),
           public # <<>> \/ public' = <<>>,
           \A v \in Workers : deque'[v] # <<>> => deque[v] # <<>>,
           UNCHANGED <<sleepers, shutdown, threads, main>>
    PROVE  IInv'
  <1>0. TypeOK /\ Frames /\ Queued /\ Running /\ Signals /\ Sleepers /\ Work /\ Starts /\ Ends
    BY DEF IInv
  <1>1. /\ waiters' = waiters /\ lock' = lock /\ pending' = pending /\ shutdown' = shutdown
        /\ range' = range /\ handle' = handle /\ mpc' = mpc /\ mip' = mip
    BY DEF sleepers, threads, main
  <1>2. /\ stack' \in [Workers -> Seq(FrameSet)] /\ Others(w) /\ Frames' /\ Running'
        /\ stack'[w] # <<>> /\ Top(w)'.kind = "run" /\ SameWaits
        /\ tstate' = [tstate EXCEPT ![t] = "running"] /\ conts' = conts
        /\ \A u \in Tasks : Ready(u) => Ready(u)'
    BY <1>0, CallKeeps
  <1>3. tstate' \in [Tasks -> {"new", "queued", "running", "finished", "flushed"}]
    BY <1>0, <1>2 DEF TypeOK
  <1>4. TypeOK'
    BY <1>0, <1>1, <1>2, <1>3 DEF TypeOK
  <1>5. \A u : ~ Told(w, u)'
    BY <1>2 DEF Told, At
  <1>6. Signals'
    <2>1. \A v \in Workers, u \in Tasks :
              Told(v, u)' => Told(v, u) /\ Depth(v)' = Depth(v) /\ LoopWaits(v, Depth(v), u)'
      BY <1>0, <1>2, <1>5, ToldElsewhere
    <2>2. \A u : MainWaits(Main, 1, u) => MainWaits(Main, 1, u)'
      BY <1>1 DEF MainWaits, MainTask
    <2>3. <<MainEvent, "available">> \notin pending'
      BY <1>0, <1>1 DEF Signals
    <2>4. WaitsEnd
      BY <1>2 DEF SameWaits, WaitsEnd
    <2> QED BY <1>0, <1>1, <1>2, <2>1, <2>2, <2>3, <2>4, SignalsStays
  <1>7. Sleepers' /\ Work' /\ Starts' /\ Ends'
    <2>1. ~ Sleeping(w) /\ ~ At(w, "loop", "append") /\ ~ Sleeping(w)' /\ ~ At(w, "loop", "append")'
      BY <1>2 DEF Sleeping, At
    <2>2. Busy(w)' /\ Kept(w)
      BY <1>1, <1>2 DEF Busy, Kept
    <2> QED BY <1>0, <1>1, <1>2, <2>1, <2>2, AwakeStep
  <1> QED BY <1>2, <1>4, <1>6, <1>7 DEF IInv

\* A worker that is awake, and stays awake, leaves the queues and the tasks alone.
LEMMA WorkOn ==
    ASSUME IInv, NEW w \in Workers, stack[w] # <<>>, stack'[w] # <<>>,
           ~ Sleeping(w), ~ At(w, "loop", "append"), ~ Sleeping(w)', ~ At(w, "loop", "append")',
           stack' \in [Workers -> Seq(FrameSet)], Others(w), Frames',
           SameRuns, SameFlushes, WaitsEnd, Kept(w), pending' \subseteq pending,
           deque[w] # <<>> => Busy(w)',
           UNCHANGED <<queues, waiters, lock, shutdown, tasks, threads, main>>
    PROVE  IInv'
  <1>0. TypeOK /\ Frames /\ Queued /\ Running /\ Signals /\ Sleepers /\ Work /\ Starts /\ Ends
    BY DEF IInv
  <1>1. /\ deque' = deque /\ public' = public /\ tstate' = tstate /\ conts' = conts
        /\ waiters' = waiters /\ lock' = lock /\ shutdown' = shutdown
        /\ range' = range /\ handle' = handle /\ mpc' = mpc /\ mip' = mip
    BY DEF queues, tasks, threads, main
  <1>2. TypeOK'
    BY <1>0, <1>1 DEF TypeOK
  <1>3. Queued' /\ Running'
    BY <1>0, <1>1, QueuedStays, RunningStays DEF queues
  <1>4. \A u : ~ Told(w, u)'
    BY DEF Told, Sleeping
  <1>5. Signals'
    <2>1. \A v \in Workers, u \in Tasks :
              Told(v, u)' => Told(v, u) /\ Depth(v)' = Depth(v) /\ LoopWaits(v, Depth(v), u)'
      BY <1>0, <1>4, ToldElsewhere
    <2>2. \A u : MainWaits(Main, 1, u) => MainWaits(Main, 1, u)'
      BY <1>1 DEF MainWaits, MainTask
    <2>3. <<MainEvent, "available">> \notin pending' /\ \A u \in Tasks : Ready(u) => Ready(u)'
      BY <1>0, <1>1 DEF Signals, Ready
    <2> QED BY <1>0, <1>1, <2>1, <2>2, <2>3, SignalsStays
  <1>6. Sleepers' /\ Work' /\ Starts' /\ Ends'
    BY <1>0, <1>1, AwakeStep
  <1> QED BY <1>2, <1>3, <1>5, <1>6 DEF IInv

\* A loop that found nothing where it looked, and looks elsewhere.
LEMMA LookStep ==
    ASSUME IInv, NEW w \in Workers, stack[w] # <<>>,
           Top(w).kind = "loop", Top(w).pc \in {"pop", "steal"}, deque[w] = <<>>,
           stack' \in [Workers -> Seq(FrameSet)], Others(w), Frames', stack'[w] # <<>>,
           Top(w)'.kind = "loop", Top(w)'.pc = "steal", SameRuns, SameFlushes, SameWaits,
           UNCHANGED <<queues, sleepers, shutdown, tasks, threads, main>>
    PROVE  IInv'
  <1>1. ~ Sleeping(w) /\ ~ At(w, "loop", "append") /\ ~ Sleeping(w)' /\ ~ At(w, "loop", "append")'
    BY DEF Sleeping, At
  <1>2. /\ Kept(w) /\ pending' \subseteq pending
        /\ UNCHANGED <<queues, waiters, lock, shutdown, tasks, threads, main>>
    BY DEF Kept, sleepers
  <1>3. WaitsEnd
    BY DEF SameWaits, WaitsEnd
  <1> QED BY <1>1, <1>2, <1>3, WorkOn

\* LoopPop preserves the invariant.
LEMMA LoopPopKeeps ==
    ASSUME IInv, NEW w \in Workers, LoopPop(w)
    PROVE  IInv'
  <1>0. TypeOK /\ Frames /\ Queued
    BY DEF IInv
  <1>1. stack[w] # <<>> /\ Top(w).kind = "loop" /\ Top(w).pc = "pop"
    BY DEF LoopPop, At
  <1>2. public' = public /\ UNCHANGED <<sleepers, shutdown, threads, main>>
    BY DEF LoopPop
  <1>3. deque[w] \in Seq(Tasks) /\ public \in Seq(Tasks) /\ deque \in [Workers -> Seq(Tasks)]
    BY <1>0 DEF TypeOK
  <1>4. CASE deque[w] # <<>>
    <2>1. PICK t : t = deque[w][Len(deque[w])]
      OBVIOUS
    <2>2. PICK r : r = SubSeq(deque[w], 1, Len(deque[w]) - 1)
      OBVIOUS
    <2>3. Call(w, t) /\ deque' = [deque EXCEPT ![w] = r]
      BY <1>4, <2>1, <2>2 DEF LoopPop
    <2>4. /\ r \in Seq(Tasks) /\ t \in Tasks /\ Holds(deque[w], t)
          /\ \A y : Holds(deque[w], y) <=> Holds(r, y) \/ y = t
          /\ NoRepeat(deque[w]) => NoRepeat(r) /\ ~ Holds(r, t)
      BY <1>3, <1>4, <2>1, <2>2, FrontHolds
    <2>5. tstate[t] = "queued" /\ NoRepeat(deque[w])
      BY <1>0, <2>4 DEF Queued
    <2>6. tstate' = [tstate EXCEPT ![t] = "running"]
      BY <2>3 DEF Call
    <2>7. /\ Queued' /\ deque' \in [Workers -> Seq(Tasks)]
          /\ \A u \in Workers : deque'[u] # <<>> => deque[u] # <<>>
      BY <1>0, <1>2, <2>3, <2>4, <2>5, <2>6, DequeTaken
    <2> QED BY <1>1, <1>2, <1>3, <2>3, <2>4, <2>5, <2>7, CallStep
  <1>5. CASE deque[w] = <<>>
    <2>1. GoSteal(w) /\ UNCHANGED <<deque, tasks>>
      BY <1>5 DEF LoopPop
    <2>2. /\ stack' \in [Workers -> Seq(FrameSet)] /\ Others(w) /\ Frames'
          /\ \A v \in Workers : Depth(v)' = Depth(v) /\ (stack'[v] = <<>> <=> stack[v] = <<>>)
          /\ Top(w)'.pc = "steal" /\ Top(w)'.kind = "loop"
          /\ SameRuns /\ SameWaits /\ SameFlushes
      BY <1>0, <1>1, <2>1, GoStealKeeps
    <2>3. UNCHANGED <<queues, sleepers, shutdown, tasks, threads, main>>
      BY <1>2, <2>1 DEF queues
    <2> QED BY <1>1, <1>5, <2>2, <2>3, LookStep
  <1> QED BY <1>4, <1>5

\* Who looks beyond its own queue has found that one empty.
LEMMA StealerIsIdle ==
    ASSUME IInv, NEW w \in Workers, stack[w] # <<>>, Top(w).kind = "loop",
           Top(w).pc \notin {"check", "pop"}
    PROVE  deque[w] = <<>>
  BY DEF IInv, Work, Busy

\* LoopSteal preserves the invariant.
LEMMA LoopStealKeeps ==
    ASSUME IInv, NEW w \in Workers, LoopSteal(w)
    PROVE  IInv'
  <1>0. TypeOK /\ Frames /\ Queued
    BY DEF IInv
  <1>1. stack[w] # <<>> /\ Top(w).kind = "loop" /\ Top(w).pc = "steal"
    BY DEF LoopSteal, At
  <1>2. public' = public /\ UNCHANGED <<sleepers, shutdown, threads, main>>
    BY DEF LoopSteal
  <1>3. public \in Seq(Tasks) /\ deque \in [Workers -> Seq(Tasks)]
    BY <1>0 DEF TypeOK
  <1>4. Top(w).left \subseteq Workers
    BY <1>0, <1>1, TopFrame DEF FrameSet
  <1>5. PICK v \in Workers : /\ deque[v] # <<>> /\ Call(w, Head(deque[v]))
                             /\ deque' = [deque EXCEPT ![v] = Tail(@)]
    BY <1>4 DEF LoopSteal
  <1>6. PICK t, r : t = Head(deque[v]) /\ r = Tail(deque[v])
    OBVIOUS
  <1>7. Call(w, t) /\ deque' = [deque EXCEPT ![v] = r]
    BY <1>3, <1>5, <1>6
  <1>8. /\ r \in Seq(Tasks) /\ t \in Tasks /\ Holds(deque[v], t)
        /\ \A y : Holds(deque[v], y) <=> Holds(r, y) \/ y = t
        /\ NoRepeat(deque[v]) => NoRepeat(r) /\ ~ Holds(r, t)
    BY <1>3, <1>5, <1>6, TailHolds
  <1>9. tstate[t] = "queued" /\ NoRepeat(deque[v])
    BY <1>0, <1>8 DEF Queued
  <1>10. tstate' = [tstate EXCEPT ![t] = "running"]
    BY <1>7 DEF Call
  <1>11. /\ Queued' /\ deque' \in [Workers -> Seq(Tasks)]
         /\ \A u \in Workers : deque'[u] # <<>> => deque[u] # <<>>
    BY <1>0, <1>2, <1>7, <1>8, <1>9, <1>10, DequeTaken
  <1> QED BY <1>1, <1>2, <1>3, <1>7, <1>8, <1>9, <1>11, CallStep

\* LoopStealMisses preserves the invariant.
LEMMA LoopStealMissesKeeps ==
    ASSUME IInv, NEW w \in Workers, LoopStealMisses(w)
    PROVE  IInv'
  <1>0. TypeOK /\ Frames
    BY DEF IInv
  <1>1. stack[w] # <<>> /\ Top(w).kind = "loop" /\ Top(w).pc = "steal"
    BY DEF LoopStealMisses, At
  <1>2. UNCHANGED <<queues, sleepers, shutdown, tasks, threads, main>>
    BY DEF LoopStealMisses
  <1>3. PICK v : Set(w, [Top(w) EXCEPT !.left = @ \ {v}])
    BY DEF LoopStealMisses
  <1>4. Top(w) \in FrameSet /\ GoodFrame(Top(w), Depth(w), TRUE)
    BY <1>0, <1>1, TopFrame
  <1>5. PICK f : f = [Top(w) EXCEPT !.left = @ \ {v}]
    OBVIOUS
  <1>6. f \in FrameSet /\ f.kind = Top(w).kind /\ f.task = Top(w).task /\ f.pc = Top(w).pc
        /\ f.added = Top(w).added /\ f.fin = Top(w).fin /\ f.ip = Top(w).ip
    BY <1>4, <1>5 DEF FrameSet
  <1>7. GoodFrame(f, Depth(w), TRUE)
    BY <1>4, <1>6 DEF GoodFrame
  <1>8. /\ stack' \in [Workers -> Seq(FrameSet)] /\ Others(w) /\ Frames'
        /\ \A u \in Workers : Depth(u)' = Depth(u) /\ (stack'[u] = <<>> <=> stack[u] = <<>>)
        /\ Top(w)' = f /\ SameRuns
        /\ (f.pc = "flush" <=> Top(w).pc = "flush") => SameFlushes
        /\ f.added = Top(w).added => SameWaits
    BY <1>0, <1>1, <1>3, <1>5, <1>6, <1>7, SetKeeps
  <1> QED BY <1>1, <1>2, <1>6, <1>8, LookStep, StealerIsIdle

\* LoopPublic preserves the invariant.
LEMMA LoopPublicKeeps ==
    ASSUME IInv, NEW w \in Workers, LoopPublic(w)
    PROVE  IInv'
  <1>0. TypeOK /\ Frames /\ Queued
    BY DEF IInv
  <1>1. stack[w] # <<>> /\ Top(w).kind = "loop" /\ Top(w).pc = "steal" /\ public # <<>>
    BY DEF LoopPublic, At
  <1>2. deque' = deque /\ UNCHANGED <<sleepers, shutdown, threads, main>>
    BY DEF LoopPublic
  <1>3. public \in Seq(Tasks) /\ deque \in [Workers -> Seq(Tasks)]
    BY <1>0 DEF TypeOK
  <1>4. PICK t, r : t = Head(public) /\ r = Tail(public)
    OBVIOUS
  <1>5. Call(w, t) /\ public' = r
    BY <1>4 DEF LoopPublic
  <1>6. /\ r \in Seq(Tasks) /\ t \in Tasks /\ Holds(public, t)
        /\ \A y : Holds(public, y) <=> Holds(r, y) \/ y = t
        /\ NoRepeat(public) => NoRepeat(r) /\ ~ Holds(r, t)
    BY <1>1, <1>3, <1>4, TailHolds
  <1>7. tstate[t] = "queued" /\ NoRepeat(public)
    BY <1>0, <1>6 DEF Queued
  <1>8. tstate' = [tstate EXCEPT ![t] = "running"]
    BY <1>5 DEF Call
  <1>9. \A v \in Workers : NoRepeat(deque'[v]) /\ ~ Holds(deque[v], t)
    BY <1>0, <1>2, <1>6 DEF Queued
  <1>10. \A v \in Workers : \A y : Holds(deque'[v], y) <=> Holds(deque[v], y) /\ y # t
    BY <1>2, <1>9
  <1>11. NoRepeat(public') /\ \A y : Holds(public', y) <=> Holds(public, y) /\ y # t
    BY <1>5, <1>6, <1>7
  <1>12. Queued'
    BY <1>0, <1>6, <1>8, <1>9, <1>10, <1>11, TakenKeeps
  <1> QED BY <1>1, <1>2, <1>3, <1>5, <1>6, <1>7, <1>12, CallStep


-----------------------------------------------------------------------------
(* A loop that leaves, goes to sleep or wakes up. *)

\* LoopExit preserves the invariant.
LEMMA LoopExitKeeps ==
    ASSUME IInv, NEW w \in Workers, LoopExit(w)
    PROVE  IInv'
  <1>0. TypeOK /\ Frames /\ Queued /\ Running /\ Signals /\ Sleepers /\ Work /\ Starts /\ Ends
    BY DEF IInv
  <1>1. /\ stack[w] # <<>> /\ Top(w).kind = "loop" /\ Top(w).pc = "steal"
        /\ public = <<>> /\ Top(w).task = None /\ shutdown /\ Return(w)
    BY DEF LoopExit, At
  <1>2. /\ deque' = deque /\ public' = public /\ tstate' = tstate /\ conts' = conts
        /\ waiters' = waiters /\ lock' = lock /\ pending' = pending /\ shutdown' = shutdown
        /\ range' = range /\ handle' = handle /\ mpc' = mpc /\ mip' = mip
    BY DEF LoopExit, queues, sleepers, tasks, threads, main
  <1>3. Leaves(w, 1)
    BY <1>0, <1>1, ReturnLeaves
  <1>4. stack' \in [Workers -> Seq(FrameSet)] /\ Others(w)
    BY <1>3 DEF Leaves, Others
  <1>5. /\ Frames'
        /\ (stack'[w] = <<>> <=> Depth(w) = 1)
        /\ \A v, i, t : v \in Workers =>
                 (Runs(v, i, t)' <=> Runs(v, i, t) /\ ~ (v = w /\ i = Depth(w)))
        /\ SameFlushes
        /\ \A v, i, t : LoopWaits(v, i, t)' <=> LoopWaits(v, i, t) /\ ~ (v = w /\ i = Depth(w))
    BY <1>0, <1>1, <1>3, LeaveKeeps
  <1>6. stack'[w] = <<>> /\ ~ Top(w).added
    BY <1>0, <1>1, <1>5, TopFrame DEF GoodFrame
  <1>7. SameRuns
    <2> SUFFICES ASSUME NEW v \in Workers, NEW i, NEW t PROVE Runs(v, i, t)' <=> Runs(v, i, t)
      BY DEF SameRuns
    <2>1. v = w /\ i = Depth(w) => ~ Runs(v, i, t)
      BY <1>1 DEF Runs, Top
    <2> QED BY <1>5, <2>1
  <1>8. WaitsEnd
    <2> SUFFICES ASSUME NEW v, NEW i, NEW t, LoopWaits(v, i, t) PROVE LoopWaits(v, i, t)'
      BY DEF WaitsEnd
    <2>1. ~ (v = w /\ i = Depth(w))
      BY <1>6 DEF LoopWaits, Top
    <2> QED BY <1>5, <2>1
  <1>9. TypeOK'
    BY <1>0, <1>2, <1>4 DEF TypeOK
  <1>10. Queued' /\ Running'
    BY <1>0, <1>2, <1>5, <1>7, QueuedStays, RunningStays DEF queues
  <1>11. Signals'
    <2>1. \A u : ~ Told(w, u)'
      BY <1>6 DEF Told, At
    <2>2. \A v \in Workers, u \in Tasks :
              Told(v, u)' => Told(v, u) /\ Depth(v)' = Depth(v) /\ LoopWaits(v, Depth(v), u)'
      BY <1>0, <1>4, <2>1, ToldElsewhere
    <2>3. \A u : MainWaits(Main, 1, u) => MainWaits(Main, 1, u)'
      BY <1>2 DEF MainWaits, MainTask
    <2>4. <<MainEvent, "available">> \notin pending' /\ \A u \in Tasks : Ready(u) => Ready(u)'
      BY <1>0, <1>2 DEF Signals, Ready
    <2> QED BY <1>0, <1>2, <1>8, <2>2, <2>3, <2>4, SignalsStays
  <1>12. Kept(w)
    BY <1>2 DEF Kept
  <1>13. Sleepers'
    <2>1. ~ Sleeping(w) /\ ~ Asleep(w)'
      BY <1>1, <1>6 DEF Sleeping, Asleep, At
    <2> QED BY <1>0, <1>2, <1>4, <1>12, <2>1, SleepersStays
  <1>14. Work'
    <2>1. ~ At(w, "loop", "append") /\ ~ At(w, "loop", "append")'
      BY <1>1, <1>6 DEF At
    <2>2. \A v \in Workers : lock' = v <=> At(v, "loop", "append")'
      BY <1>0, <1>2, <1>4, <2>1, Elsewhere DEF Work
    <2>3. deque[w] = <<>>
      BY <1>1, StealerIsIdle
    <2>4. \A v \in Workers : deque'[v] # <<>> => Busy(v)'
      BY <1>0, <1>2, <1>4, <2>3, Elsewhere DEF Work
    <2> QED BY <1>1, <1>2, <2>2, <2>4 DEF Work
  <1>15. Starts'
    <2>1. \A v \in Workers : stack'[v] # <<>> => stack[v] # <<>>
      BY <1>1, <1>4 DEF Others
    <2> QED BY <1>0, <1>2, <2>1, StartsStays
  <1>16. Ends'
    <2>1. \A v \in Workers : Exited(v) => Exited(v)'
      <3>1. ~ Exited(w)
        BY <1>1 DEF Exited
      <3> QED BY <1>2, <1>4, <3>1, Elsewhere
    <2> QED BY <1>0, <1>1, <1>2, <2>1 DEF Ends
  <1> QED BY <1>5, <1>9, <1>10, <1>11, <1>13, <1>14, <1>15, <1>16 DEF IInv

\* LoopAppend preserves the invariant.
LEMMA LoopAppendKeeps ==
    ASSUME IInv, NEW w \in Workers, LoopAppend(w)
    PROVE  IInv'
  <1>0. TypeOK /\ Frames /\ Queued /\ Running /\ Signals /\ Sleepers /\ Work /\ Starts /\ Ends
    BY DEF IInv
  <1>1. /\ stack[w] # <<>> /\ Top(w).kind = "loop" /\ Top(w).pc = "append" /\ Go(w, "sleep")
        /\ waiters' = Append(waiters, Event(w)) /\ lock' = Free
    BY DEF LoopAppend, At
  <1>2. /\ deque' = deque /\ public' = public /\ tstate' = tstate /\ conts' = conts
        /\ pending' = pending /\ shutdown' = shutdown
        /\ range' = range /\ handle' = handle /\ mpc' = mpc /\ mip' = mip
    BY DEF LoopAppend, queues, tasks, threads, main
  <1>3. ~ Top(w).fin
    BY <1>0, <1>1, TopFrame DEF GoodFrame
  <1>4. /\ stack' \in [Workers -> Seq(FrameSet)] /\ Others(w) /\ Frames'
        /\ \A v \in Workers : Depth(v)' = Depth(v) /\ (stack'[v] = <<>> <=> stack[v] = <<>>)
        /\ Top(w)'.pc = "sleep" /\ Top(w)'.kind = Top(w).kind
        /\ Event(w)' = Event(w)
        /\ SameRuns /\ SameWaits
        /\ ("sleep" = "flush" <=> Top(w).pc = "flush") => SameFlushes
    BY <1>0, <1>1, <1>3, GoKeeps DEF LoopPcs
  <1>5. Event(w) \in Events /\ waiters \in Seq(Events)
    BY <1>0, <1>1, EventBound DEF TypeOK
  <1>6. /\ \A y : Holds(waiters', y) <=> Holds(waiters, y) \/ y = Event(w)
        /\ NoRepeat(waiters) /\ ~ Holds(waiters, Event(w)) => NoRepeat(waiters')
    BY <1>1, <1>5, AppendHolds
  <1>7. Depth(w) \in Nat /\ w \in Threads
    BY <1>0, <1>1, TopFrame, WorkerIds
  <1>8. ~ Sleeping(w) /\ Sleeping(w)'
    BY <1>1, <1>4 DEF Sleeping, At
  <1>9. ~ Holds(waiters, Event(w))
    BY <1>0, <1>7, <1>8 DEF Sleepers, Event
  <1>10. \A v \in Threads, i \in Nat : Holds(waiters', <<v, i>>) =>
              v \in Workers /\ i = Depth(v) /\ Sleeping(v)'
    <2> SUFFICES ASSUME NEW v \in Threads, NEW i \in Nat, Holds(waiters', <<v, i>>)
                 PROVE  v \in Workers /\ i = Depth(v) /\ Sleeping(v)'
      OBVIOUS
    <2>1. CASE Holds(waiters, <<v, i>>)
      <3>1. v \in Workers /\ i = Depth(v) /\ Sleeping(v) /\ v # w
        BY <1>0, <1>8, <2>1 DEF Sleepers
      <3> QED BY <1>4, <3>1, Elsewhere
    <2>2. CASE <<v, i>> = Event(w)
      BY <1>8, <2>2 DEF Event
    <2> QED BY <1>6, <2>1, <2>2
  <1>11. Sleepers'
    <2>1. \A v \in Workers : Asleep(v)' => Holds(waiters', Event(v)')
      <3> SUFFICES ASSUME NEW v \in Workers, Asleep(v)' PROVE Holds(waiters', Event(v)')
        OBVIOUS
      <3>1. CASE v = w
        BY <1>4, <1>6, <3>1
      <3>2. CASE v # w
        <4>1. Asleep(v) /\ Event(v)' = Event(v)
          BY <1>2, <1>4, <3>2, Elsewhere
        <4>2. Holds(waiters, Event(v))
          BY <1>0, <4>1 DEF Sleepers
        <4> QED BY <1>6, <4>1, <4>2
      <3> QED BY <3>1, <3>2
    <2>2. NoRepeat(waiters')
      BY <1>0, <1>6, <1>9 DEF Sleepers
    <2>3. \A v \in Threads, i \in Nat : Holds(waiters', <<v, i>>) =>
              v \in Workers /\ i = Depth(v)' /\ Sleeping(v)'
      BY <1>4, <1>10
    <2> QED BY <2>1, <2>2, <2>3 DEF Sleepers
  <1>12. TypeOK'
    <2>1. waiters' \in Seq(Events)
      BY <1>1, <1>5, AppendProperties
    <2>2. PICK D : D = [v \in Workers |-> Depth(v)]
      OBVIOUS
    <2>3. \A v \in Threads, i \in Nat : Holds(waiters', <<v, i>>) => v \in Workers /\ i = D[v]
      BY <1>10, <2>2
    <2>4. NoRepeat(waiters')
      BY <1>11 DEF Sleepers
    <2>5. Len(waiters') <= NumThreads
      BY <2>1, <2>3, <2>4, WaitersBound
    <2>6. lock' \in Workers \union {Free}
      BY <1>1
    <2> QED BY <1>0, <1>2, <1>4, <2>1, <2>5, <2>6 DEF TypeOK
  <1>13. Queued' /\ Running'
    BY <1>0, <1>1, <1>2, <1>4, QueuedStays, RunningStays DEF queues
  <1>14. Signals'
    <2>1. \A u : ~ Told(w, u)'
      BY <1>4 DEF Told, At
    <2>2. \A v \in Workers, u \in Tasks :
              Told(v, u)' => Told(v, u) /\ Depth(v)' = Depth(v) /\ LoopWaits(v, Depth(v), u)'
      BY <1>0, <1>4, <2>1, ToldElsewhere
    <2>3. \A u : MainWaits(Main, 1, u) => MainWaits(Main, 1, u)'
      BY <1>2 DEF MainWaits, MainTask
    <2>4. <<MainEvent, "available">> \notin pending' /\ \A u \in Tasks : Ready(u) => Ready(u)'
      BY <1>0, <1>2 DEF Signals, Ready
    <2>5. WaitsEnd
      BY <1>4 DEF SameWaits, WaitsEnd
    <2> QED BY <1>0, <1>2, <2>2, <2>3, <2>4, <2>5, SignalsStays
  <1>15. Work'
    <2>1. lock = w
      BY <1>0, <1>1 DEF Work, At
    <2>2. \A v \in Workers : ~ At(v, "loop", "append")'
      <3> SUFFICES ASSUME NEW v \in Workers PROVE ~ At(v, "loop", "append")'
        OBVIOUS
      <3>1. CASE v = w
        BY <1>4, <3>1 DEF At
      <3>2. CASE v # w
        BY <1>0, <1>4, <2>1, <3>2, Elsewhere DEF Work
      <3> QED BY <3>1, <3>2
    <2>3. \A v \in Workers : lock' # v
      BY <1>1, WorkerIds
    <2>4. public' = <<>>
      BY <1>0, <1>2, <2>1, WorkerIds DEF Work
    <2>5. deque[w] = <<>>
      BY <1>1, StealerIsIdle
    <2>6. \A v \in Workers : deque'[v] # <<>> => Busy(v)'
      BY <1>0, <1>2, <1>4, <2>5, Elsewhere DEF Work
    <2> QED BY <2>2, <2>3, <2>4, <2>6 DEF Work
  <1>16. Starts'
    BY <1>0, <1>2, <1>4, StartsStays
  <1>17. Ends'
    <2>1. \A v \in Workers : Exited(v)' <=> Exited(v)
      BY <1>2, <1>4 DEF Exited
    <2> QED BY <1>0, <1>2, <2>1, EndsStays
  <1> QED BY <1>4, <1>11, <1>12, <1>13, <1>14, <1>15, <1>16, <1>17 DEF IInv


\* What a loop does besides its own frame when it prepares to sleep.
PrepareWait(w) ==
    IF Top(w).task # None /\ ~ Top(w).added
    THEN OnFinish(Top(w).task, Event(w))
    ELSE UNCHANGED <<conts, pending>>

\* At most the event of this worker is added, to its task or as a signal.
LEMMA PrepareAdds ==
    ASSUME TypeOK, Frames, Running, Signals, NEW w \in Workers, stack[w] # <<>>, PrepareWait(w)
    PROVE  /\ conts' \in [Tasks -> SUBSET Events]
           /\ pending' \subseteq Events \X {"finished", "available"}
           /\ pending \subseteq pending'
           /\ \A p \in pending' : p \in pending \/ p = <<Event(w), "finished">>
           /\ \A u \in Tasks : \A e : e \in conts[u] => e \in conts'[u]
           /\ \A u \in Tasks : \A e : e \in conts'[u] => e \in conts[u] \/ (e = Event(w) /\ u = Top(w).task)
           /\ <<Event(w), "finished">> \in pending' =>
                 /\ Top(w).task \in Tasks /\ Ready(Top(w).task)
                 /\ \A u \in Tasks : Event(w) \notin conts'[u]
  <1>1. /\ conts \in [Tasks -> SUBSET Events] /\ pending \subseteq Events \X {"finished", "available"}
        /\ Event(w) \in Events
    BY EventBound DEF TypeOK
  <1>2. <<Event(w), "finished">> \in pending =>
            /\ LoopWaits(w, Depth(w), Top(w).task) /\ Top(w).task \in Tasks /\ Ready(Top(w).task)
            /\ \A u \in Tasks : Event(w) \notin conts[u]
    BY SignalledOnce
  <1>3. CASE Top(w).task # None /\ ~ Top(w).added
    <2>1. OnFinish(Top(w).task, Event(w))
      BY <1>3 DEF PrepareWait
    <2>2. Top(w).task \in Tasks
      BY <1>3, TopFrame DEF FrameSet
    <2>3. <<Event(w), "finished">> \notin pending
      BY <1>2, <1>3 DEF LoopWaits, Top
    <2>4. \A u \in Tasks : Event(w) \notin conts[u]
      <3> SUFFICES ASSUME NEW u \in Tasks, Event(w) \in conts[u] PROVE FALSE
        OBVIOUS
      <3>1. w \in Threads /\ w # Main /\ Depth(w) \in Nat
        BY TopFrame, WorkerIds
      <3>2. Waits(w, Depth(w), u)
        BY <3>1 DEF Signals, Event
      <3>3. Top(w).added
        BY <3>1, <3>2 DEF Waits, MainWaits, LoopWaits, Top
      <3> QED BY <1>3, <3>3
    <2>5. CASE conts' = [conts EXCEPT ![Top(w).task] = @ \union {Event(w)}] /\ pending' = pending
      <3>1. \A u \in Tasks : conts'[u] = IF u = Top(w).task THEN conts[u] \union {Event(w)} ELSE conts[u]
        BY <1>1, <2>5
      <3>2. conts' \in [Tasks -> SUBSET Events]
        BY <1>1, <2>2, <2>5
      <3> QED BY <1>1, <2>3, <2>5, <3>1, <3>2
    <2>6. CASE Ready(Top(w).task) /\ pending' = pending \union {<<Event(w), "finished">>} /\ conts' = conts
      BY <1>1, <2>2, <2>4, <2>6
    <2> QED BY <2>1, <2>5, <2>6 DEF OnFinish, Signal, Ready
  <1>4. CASE ~ (Top(w).task # None /\ ~ Top(w).added)
    <2>1. conts' = conts /\ pending' = pending
      BY <1>4 DEF PrepareWait
    <2> QED BY <1>1, <1>2, <2>1
  <1> QED BY <1>3, <1>4

\* LoopPrepare preserves the invariant.
LEMMA LoopPrepareKeeps ==
    ASSUME IInv, NEW w \in Workers, LoopPrepare(w)
    PROVE  IInv'
  <1>0. TypeOK /\ Frames /\ Queued /\ Running /\ Signals /\ Sleepers /\ Work /\ Starts /\ Ends
    BY DEF IInv
  <1>1. /\ stack[w] # <<>> /\ Top(w).kind = "loop" /\ Top(w).pc = "steal"
        /\ lock = Free /\ public = <<>> /\ lock' = w /\ PrepareWait(w)
    BY DEF LoopPrepare, At, PrepareWait
  <1>2. /\ deque' = deque /\ public' = public /\ tstate' = tstate
        /\ waiters' = waiters /\ shutdown' = shutdown
        /\ range' = range /\ handle' = handle /\ mpc' = mpc /\ mip' = mip
    BY DEF LoopPrepare, queues, threads, main
  <1>3. /\ Depth(w) \in Nat /\ Depth(w) \in 1..Depth(w)
        /\ Top(w) \in FrameSet /\ GoodFrame(Top(w), Depth(w), TRUE)
    BY <1>0, <1>1, TopFrame
  <1>4. PICK f : f = [Top(w) EXCEPT !.pc = "append", !.added = Top(w).task # None]
    OBVIOUS
  <1>5. /\ f \in FrameSet /\ f.kind = "loop" /\ f.task = Top(w).task /\ f.pc = "append"
        /\ f.added = (Top(w).task # None) /\ f.fin = Top(w).fin /\ f.ip = Top(w).ip
    BY <1>1, <1>3, <1>4 DEF FrameSet
  <1>6. GoodFrame(f, Depth(w), TRUE) /\ f.kind = Top(w).kind
    BY <1>1, <1>3, <1>5 DEF GoodFrame, LoopPcs
  <1>7. Set(w, f)
    BY <1>4 DEF LoopPrepare
  <1>8. Replaces(w, f)
    BY <1>0, <1>1, <1>5, <1>7, SetReplaces
  <1>9. /\ stack' \in [Workers -> Seq(FrameSet)] /\ Others(w) /\ Frames'
        /\ \A v \in Workers : Depth(v)' = Depth(v) /\ (stack'[v] = <<>> <=> stack[v] = <<>>)
        /\ Top(w)' = f /\ Event(w)' = Event(w)
        /\ SameRuns
        /\ (f.pc = "flush" <=> Top(w).pc = "flush") => SameFlushes
    BY <1>0, <1>1, <1>5, <1>6, <1>7, SetKeeps
  <1>10. /\ conts' \in [Tasks -> SUBSET Events]
         /\ pending' \subseteq Events \X {"finished", "available"}
         /\ pending \subseteq pending'
         /\ \A p \in pending' : p \in pending \/ p = <<Event(w), "finished">>
         /\ \A u \in Tasks : \A e : e \in conts[u] => e \in conts'[u]
         /\ \A u \in Tasks : \A e : e \in conts'[u] => e \in conts[u] \/ (e = Event(w) /\ u = Top(w).task)
         /\ <<Event(w), "finished">> \in pending' =>
               /\ Top(w).task \in Tasks /\ Ready(Top(w).task)
               /\ \A u \in Tasks : Event(w) \notin conts'[u]
    BY <1>0, <1>1, PrepareAdds
  <1>11. TypeOK'
    BY <1>0, <1>1, <1>2, <1>9, <1>10 DEF TypeOK
  <1>12. Queued' /\ Running'
    BY <1>0, <1>1, <1>2, <1>5, <1>9, QueuedStays, RunningStays DEF queues
  <1>13. \A v, i, t : LoopWaits(v, i, t) => LoopWaits(v, i, t)'
    <2>1. ASSUME NEW v, NEW i, NEW t, LoopWaits(v, i, t) PROVE LoopWaits(v, i, t)'
      <3>1. CASE v # w
        <4>1. v \in Workers
          BY <2>1 DEF LoopWaits
        <4> QED BY <1>9, <2>1, <3>1, <4>1, Elsewhere
      <3>2. CASE v = w /\ i # Depth(w)
        BY <1>8, <1>9, <2>1, <3>2 DEF LoopWaits, Replaces
      <3>3. CASE v = w /\ i = Depth(w)
        <4>1. Top(w).task = t /\ Top(w).added
          BY <2>1, <3>3 DEF LoopWaits, Top
        <4>2. Top(w).task # None
          BY <1>1, <1>3, <4>1 DEF GoodFrame
        <4>3. stack'[w][Depth(w)] = f /\ i \in 1..Depth(w)'
          BY <1>3, <1>8, <1>9, <3>3 DEF Replaces
        <4> QED BY <1>5, <3>3, <4>1, <4>2, <4>3 DEF LoopWaits
      <3> QED BY <3>1, <3>2, <3>3
    <2> QED BY <2>1
  <1>14. \A v, i, t : Waits(v, i, t) => Waits(v, i, t)'
    BY <1>2, <1>13 DEF Waits, MainWaits, MainTask
  <1>15. PICK n, t : n = Depth(w) /\ t = Top(w).task
    OBVIOUS
  <1>16. stack'[w][n] = f /\ n \in 1..Depth(w)'
    BY <1>3, <1>8, <1>9, <1>15 DEF Replaces
  <1>17. Event(w) = <<w, n>> /\ (t \in Tasks => Waits(w, n, t)')
    <2>1. t \in Tasks => t # None
      BY PoolAssumption
    <2>2. t \in Tasks => LoopWaits(w, n, t)'
      BY <1>5, <1>15, <1>16, <2>1 DEF LoopWaits
    <2> QED BY <1>15, <2>2 DEF Waits, Event
  <1>18. Signals'
    <2>1. \A v \in Threads, i \in Nat, u \in Tasks : <<v, i>> \in conts'[u] => Waits(v, i, u)'
      <3> SUFFICES ASSUME NEW v \in Threads, NEW i \in Nat, NEW u \in Tasks, <<v, i>> \in conts'[u]
                   PROVE  Waits(v, i, u)'
        OBVIOUS
      <3>1. CASE <<v, i>> \in conts[u]
        BY <1>0, <1>14, <3>1 DEF Signals
      <3>2. CASE <<v, i>> = Event(w) /\ u = Top(w).task
        BY <1>15, <1>17, <3>2
      <3> QED BY <1>10, <3>1, <3>2
    <2>2. \A v \in Threads, i \in Nat : <<<<v, i>>, "finished">> \in pending' =>
              \E u \in Tasks : Waits(v, i, u)' /\ Ready(u)' /\ <<v, i>> \notin conts'[u]
      <3> SUFFICES ASSUME NEW v \in Threads, NEW i \in Nat, <<<<v, i>>, "finished">> \in pending'
                   PROVE  \E u \in Tasks : Waits(v, i, u)' /\ Ready(u)' /\ <<v, i>> \notin conts'[u]
        OBVIOUS
      <3>1. CASE <<v, i>> = Event(w)
        <4>1. t \in Tasks /\ Ready(t) /\ <<v, i>> \notin conts'[t] /\ v = w /\ i = n
          BY <1>10, <1>15, <1>17, <3>1
        <4> QED BY <1>2, <1>17, <4>1 DEF Ready
      <3>2. CASE <<v, i>> # Event(w)
        <4>1. <<<<v, i>>, "finished">> \in pending
          BY <1>10, <3>2
        <4>2. PICK u \in Tasks : Waits(v, i, u) /\ Ready(u) /\ <<v, i>> \notin conts[u]
          BY <1>0, <4>1 DEF Signals
        <4>3. <<v, i>> \notin conts'[u]
          BY <1>10, <3>2, <4>2
        <4> QED BY <1>2, <1>14, <4>2, <4>3 DEF Ready
      <3> QED BY <3>1, <3>2
    <2>3. \A u : ~ Told(w, u)'
      BY <1>5, <1>9 DEF Told, At
    <2>4. \A v \in Workers, u \in Tasks :
              Told(v, u)' => Told(v, u) /\ Depth(v)' = Depth(v) /\ LoopWaits(v, Depth(v), u)'
      BY <1>0, <1>9, <2>3, ToldElsewhere
    <2>5. \A v \in Workers, u \in Tasks : Told(v, u)' =>
              /\ LoopWaits(v, Depth(v), u)' /\ Ready(u)' /\ Event(v)' \notin conts'[u]
              /\ <<Event(v)', "finished">> \notin pending'
      <3> SUFFICES ASSUME NEW v \in Workers, NEW u \in Tasks, Told(v, u)'
                   PROVE  /\ LoopWaits(v, Depth(v), u)' /\ Ready(u)' /\ Event(v)' \notin conts'[u]
                          /\ <<Event(v)', "finished">> \notin pending'
        OBVIOUS
      <3>1. v # w
        BY <2>3
      <3>2. Told(v, u) /\ LoopWaits(v, Depth(v), u)' /\ Event(v)' = Event(v)
        BY <1>9, <2>4, <3>1, Elsewhere
      <3>3. Ready(u) /\ Event(v) \notin conts[u] /\ <<Event(v), "finished">> \notin pending
        BY <1>0, <3>2 DEF Signals
      <3>4. Event(v) # Event(w)
        BY <3>1 DEF Event
      <3> QED BY <1>2, <1>10, <3>2, <3>3, <3>4 DEF Ready
    <2>6. <<MainEvent, "available">> \notin pending' /\ MainEvent' = MainEvent
      BY <1>0, <1>10 DEF Signals, MainEvent
    <2> QED BY <2>1, <2>2, <2>5, <2>6 DEF Signals
  <1>19. Kept(w)
    BY <1>10 DEF Kept
  <1>20. Sleepers'
    <2>1. ~ Sleeping(w) /\ ~ Asleep(w)'
      BY <1>1, <1>5, <1>9 DEF Sleeping, Asleep, At
    <2> QED BY <1>0, <1>2, <1>9, <1>19, <2>1, SleepersStays
  <1>21. Work'
    <2>1. At(w, "loop", "append")'
      BY <1>1, <1>5, <1>9 DEF At
    <2>2. \A v \in Workers : v # w => ~ At(v, "loop", "append")'
      BY <1>0, <1>1, <1>9, WorkerIds, Elsewhere DEF Work
    <2>3. deque[w] = <<>>
      BY <1>1, StealerIsIdle
    <2>4. \A v \in Workers : deque'[v] # <<>> => Busy(v)'
      BY <1>0, <1>2, <1>9, <2>3, Elsewhere DEF Work
    <2> QED BY <1>1, <1>2, <2>1, <2>2, <2>4 DEF Work
  <1>22. Starts'
    BY <1>0, <1>2, <1>9, StartsStays
  <1>23. Ends'
    <2>1. \A v \in Workers : Exited(v)' <=> Exited(v)
      BY <1>2, <1>9 DEF Exited
    <2> QED BY <1>0, <1>2, <2>1, EndsStays
  <1> QED BY <1>9, <1>11, <1>12, <1>18, <1>20, <1>21, <1>22, <1>23 DEF IInv


\* LoopWake preserves the invariant.
LEMMA LoopWakeKeeps ==
    ASSUME IInv, NEW w \in Workers, LoopWake(w)
    PROVE  IInv'
  <1>0. TypeOK /\ Frames /\ Queued /\ Running /\ Signals /\ Sleepers /\ Work /\ Starts /\ Ends
    BY DEF IInv
  <1>1. /\ stack[w] # <<>> /\ Top(w).kind = "loop" /\ Top(w).pc = "sleep"
        /\ pending' = {p \in pending : p[1] # Event(w)}
    BY DEF LoopWake, At, Clear
  <1>2. /\ deque' = deque /\ public' = public /\ tstate' = tstate /\ conts' = conts
        /\ waiters' = waiters /\ lock' = lock /\ shutdown' = shutdown
        /\ range' = range /\ handle' = handle /\ mpc' = mpc /\ mip' = mip
    BY DEF LoopWake, queues, tasks, threads, main
  <1>3. Top(w) \in FrameSet /\ GoodFrame(Top(w), Depth(w), TRUE)
    BY <1>0, <1>1, TopFrame
  <1>4. PICK told \in BOOLEAN : told = ("finished" \in Mask(Event(w)))
    <2>1. ("finished" \in Mask(Event(w))) \in BOOLEAN
      OBVIOUS
    <2> QED BY <2>1, Zenon
  <1>5. PICK f : f = [Top(w) EXCEPT !.pc = "relock", !.fin = told]
    OBVIOUS
  <1>6. /\ f \in FrameSet /\ f.kind = "loop" /\ f.task = Top(w).task /\ f.pc = "relock"
        /\ f.added = Top(w).added /\ f.fin = told /\ f.ip = Top(w).ip
    BY <1>1, <1>3, <1>5 DEF FrameSet
  <1>7. GoodFrame(f, Depth(w), TRUE) /\ f.kind = Top(w).kind
    BY <1>1, <1>3, <1>6 DEF GoodFrame, LoopPcs
  <1>8. Set(w, f)
    BY <1>4, <1>5 DEF LoopWake
  <1>9. /\ stack' \in [Workers -> Seq(FrameSet)] /\ Others(w) /\ Frames'
        /\ \A v \in Workers : Depth(v)' = Depth(v) /\ (stack'[v] = <<>> <=> stack[v] = <<>>)
        /\ Top(w)' = f /\ Event(w)' = Event(w) /\ SameRuns
        /\ (f.pc = "flush" <=> Top(w).pc = "flush") => SameFlushes
        /\ f.added = Top(w).added => SameWaits
    BY <1>0, <1>1, <1>6, <1>7, <1>8, SetKeeps
  <1>10. /\ pending' \subseteq pending
         /\ \A k : <<Event(w), k>> \notin pending'
         /\ \A e, k : <<e, k>> \in pending /\ e # Event(w) => <<e, k>> \in pending'
    BY <1>1
  <1>11. TypeOK'
    BY <1>0, <1>2, <1>9, <1>10 DEF TypeOK
  <1>12. Queued' /\ Running'
    BY <1>0, <1>1, <1>2, <1>6, <1>9, QueuedStays, RunningStays DEF queues
  <1>13. WaitsEnd
    BY <1>6, <1>9 DEF SameWaits, WaitsEnd
  <1>14. Signals'
    <2>1. \A v \in Threads, i \in Nat, u \in Tasks : <<v, i>> \in conts'[u] => Waits(v, i, u)'
      <3>1. \A v, i, u : Waits(v, i, u) => Waits(v, i, u)'
        BY <1>2, <1>6, <1>9 DEF Waits, MainWaits, MainTask, SameWaits
      <3> QED BY <1>0, <1>2, <3>1 DEF Signals
    <2>2. \A v \in Threads, i \in Nat : <<<<v, i>>, "finished">> \in pending' =>
              \E u \in Tasks : Waits(v, i, u)' /\ Ready(u)' /\ <<v, i>> \notin conts'[u]
      <3>1. \A v, i, u : Waits(v, i, u) => Waits(v, i, u)'
        BY <1>2, <1>6, <1>9 DEF Waits, MainWaits, MainTask, SameWaits
      <3>2. \A u \in Tasks : Ready(u) => Ready(u)'
        BY <1>2 DEF Ready
      <3> QED BY <1>0, <1>2, <1>10, <3>1, <3>2 DEF Signals
    <2>3. \A v \in Workers, u \in Tasks : Told(v, u)' =>
              /\ LoopWaits(v, Depth(v), u)' /\ Ready(u)' /\ Event(v)' \notin conts'[u]
              /\ <<Event(v)', "finished">> \notin pending'
      <3> SUFFICES ASSUME NEW v \in Workers, NEW u \in Tasks, Told(v, u)'
                   PROVE  /\ LoopWaits(v, Depth(v), u)' /\ Ready(u)' /\ Event(v)' \notin conts'[u]
                          /\ <<Event(v)', "finished">> \notin pending'
        OBVIOUS
      <3>1. CASE v = w
        <4>1. told /\ Top(w).task = u
          BY <1>6, <1>9, <3>1 DEF Told
        <4>2. <<Event(w), "finished">> \in pending
          BY <1>4, <4>1 DEF Mask
        <4>3. /\ LoopWaits(w, Depth(w), u) /\ Ready(u)
              /\ Event(w) \notin conts[u]
          BY <1>0, <1>1, <4>1, <4>2, SignalledOnce
        <4>4. PICK n : n = Depth(w)
          OBVIOUS
        <4>5. LoopWaits(w, n, u)' /\ n = Depth(w)'
          BY <1>6, <1>9, <4>3, <4>4 DEF SameWaits
        <4>6. LoopWaits(w, Depth(w), u)'
          BY <4>5 DEF LoopWaits
        <4>7. Ready(u)'
          BY <1>2, <4>3 DEF Ready
        <4> QED BY <1>2, <1>9, <1>10, <3>1, <4>3, <4>6, <4>7
      <3>2. CASE v # w
        <4>1. Told(v, u) /\ Event(v)' = Event(v) /\ Depth(v)' = Depth(v)
          BY <1>9, <3>2, Elsewhere
        <4>2. /\ LoopWaits(v, Depth(v), u) /\ Ready(u) /\ Event(v) \notin conts[u]
              /\ <<Event(v), "finished">> \notin pending
          BY <1>0, <4>1 DEF Signals
        <4>3. PICK n : n = Depth(v)
          OBVIOUS
        <4>4. LoopWaits(v, n, u)' /\ n = Depth(v)'
          BY <1>6, <1>9, <4>1, <4>2, <4>3 DEF SameWaits
        <4>5. LoopWaits(v, Depth(v), u)'
          BY <4>4 DEF LoopWaits
        <4>6. Ready(u)'
          BY <1>2, <4>2 DEF Ready
        <4> QED BY <1>2, <1>10, <4>1, <4>2, <4>5, <4>6
      <3> QED BY <3>1, <3>2
    <2>4. <<MainEvent, "available">> \notin pending' /\ MainEvent' = MainEvent
      BY <1>0, <1>10 DEF Signals, MainEvent
    <2> QED BY <2>1, <2>2, <2>3, <2>4 DEF Signals
  <1>15. \A v \in Workers : v # w => Event(v) # Event(w)
    BY DEF Event
  <1>16. Kept(w)
    BY <1>10, <1>15 DEF Kept
  <1>17. Sleepers'
    <2>1. Sleeping(w) /\ Sleeping(w)' /\ ~ Asleep(w)'
      BY <1>1, <1>6, <1>9 DEF Sleeping, Asleep, At
    <2>2. NoRepeat(waiters')
      BY <1>0, <1>2 DEF Sleepers
    <2>3. \A v \in Workers : Sleeping(v) => Sleeping(v)'
      BY <1>9, <2>1, Elsewhere
    <2>4. \A v \in Threads, i \in Nat : Holds(waiters', <<v, i>>) =>
              v \in Workers /\ i = Depth(v)' /\ Sleeping(v)'
      BY <1>0, <1>2, <1>9, <2>3 DEF Sleepers
    <2>5. \A v \in Workers : Asleep(v)' => Holds(waiters', Event(v)')
      <3> SUFFICES ASSUME NEW v \in Workers, Asleep(v)' PROVE Holds(waiters', Event(v)')
        OBVIOUS
      <3>1. v # w
        BY <2>1
      <3>2. Asleep(v) /\ Event(v)' = Event(v)
        BY <1>9, <1>16, <3>1, Elsewhere DEF Kept
      <3> QED BY <1>0, <1>2, <3>2 DEF Sleepers
    <2> QED BY <2>2, <2>4, <2>5 DEF Sleepers
  <1>18. Work'
    <2>1. ~ At(w, "loop", "append") /\ ~ At(w, "loop", "append")' /\ ~ Asleep(w)'
      BY <1>1, <1>6, <1>9 DEF At, Asleep
    <2>2. \A v \in Workers : lock' = v <=> At(v, "loop", "append")'
      BY <1>0, <1>2, <1>9, <2>1, Elsewhere DEF Work
    <2>3. deque[w] = <<>>
      BY <1>1, StealerIsIdle
    <2>4. \A v \in Workers : deque'[v] # <<>> => Busy(v)'
      BY <1>0, <1>2, <1>9, <2>3, Elsewhere DEF Work
    <2>5. lock' # Free => public' = <<>>
      BY <1>0, <1>2 DEF Work
    <2> QED BY <2>1, <2>2, <2>4, <2>5 DEF Work
  <1>19. Starts'
    BY <1>0, <1>2, <1>9, StartsStays
  <1>20. Ends'
    <2>1. \A v \in Workers : Exited(v)' <=> Exited(v)
      BY <1>2, <1>9 DEF Exited
    <2> QED BY <1>0, <1>2, <2>1, EndsStays
  <1> QED BY <1>9, <1>11, <1>12, <1>14, <1>17, <1>18, <1>19, <1>20 DEF IInv

\* LoopRelock preserves the invariant.
LEMMA LoopRelockKeeps ==
    ASSUME IInv, NEW w \in Workers, LoopRelock(w)
    PROVE  IInv'
  <1>0. TypeOK /\ Frames /\ Queued /\ Running /\ Signals /\ Sleepers /\ Work /\ Starts /\ Ends
    BY DEF IInv
  <1>1. /\ stack[w] # <<>> /\ Top(w).kind = "loop" /\ Top(w).pc = "relock"
        /\ waiters' = Remove(waiters, Event(w))
        /\ IF Top(w).task # None /\ Top(w).fin THEN Return(w) ELSE GoSteal(w)
    BY DEF LoopRelock, At
  <1>2. /\ deque' = deque /\ public' = public /\ tstate' = tstate /\ conts' = conts
        /\ lock' = lock /\ pending' = pending /\ shutdown' = shutdown
        /\ range' = range /\ handle' = handle /\ mpc' = mpc /\ mip' = mip
    BY DEF LoopRelock, queues, tasks, threads, main
  <1>3. /\ stack' \in [Workers -> Seq(FrameSet)] /\ Others(w) /\ Frames' /\ stack'[w] # <<>>
        /\ SameRuns /\ SameFlushes /\ WaitsEnd
        /\ Top(w)'.pc \in {"steal", "op"}
    <2>1. CASE Top(w).task # None /\ Top(w).fin
      <3>0. Return(w) /\ Top(w).task \in Tasks
        BY <1>0, <1>1, <2>1, TopFrame DEF FrameSet
      <3>1. /\ stack' \in [Workers -> Seq(FrameSet)] /\ Others(w) /\ Frames' /\ stack'[w] # <<>>
            /\ Top(w)'.kind = "run" /\ Top(w)'.pc = "op" /\ SameRuns /\ SameFlushes
            /\ \A v, i, t : LoopWaits(v, i, t)' <=> LoopWaits(v, i, t) /\ ~ (v = w /\ i = Depth(w))
        BY <1>0, <1>1, <2>1, <3>0, ReturnKeeps
      <3>2. Told(w, Top(w).task)
        BY <1>1, <2>1 DEF Told, At
      <3>3. /\ LoopWaits(w, Depth(w), Top(w).task) /\ Event(w) \notin conts[Top(w).task]
            /\ <<Event(w), "finished">> \notin pending
        BY <1>0, <3>0, <3>2 DEF Signals
      <3>4. \A u \in Tasks : Event(w) \notin conts[u]
        <4> SUFFICES ASSUME NEW u \in Tasks, Event(w) \in conts[u] PROVE FALSE
          OBVIOUS
        <4>1. w \in Threads /\ w # Main /\ Depth(w) \in Nat
          BY <1>0, <1>1, TopFrame, WorkerIds
        <4>2. Waits(w, Depth(w), u)
          BY <1>0, <4>1 DEF Signals, Event
        <4>3. Top(w).task = u
          BY <4>1, <4>2 DEF Waits, MainWaits, LoopWaits, Top
        <4> QED BY <3>3, <4>3
      <3>5. WaitsEnd
        BY <1>2, <3>1, <3>3, <3>4 DEF WaitsEnd, Event
      <3> QED BY <3>1, <3>5
    <2>2. CASE ~ (Top(w).task # None /\ Top(w).fin)
      <3>1. GoSteal(w)
        BY <1>1, <2>2
      <3>2. /\ stack' \in [Workers -> Seq(FrameSet)] /\ Others(w) /\ Frames'
            /\ \A v \in Workers : Depth(v)' = Depth(v) /\ (stack'[v] = <<>> <=> stack[v] = <<>>)
            /\ Top(w)'.pc = "steal" /\ SameRuns /\ SameWaits /\ SameFlushes
        BY <1>0, <1>1, <3>1, GoStealKeeps
      <3>3. WaitsEnd
        BY <3>2 DEF SameWaits, WaitsEnd
      <3> QED BY <1>1, <3>2, <3>3
    <2> QED BY <2>1, <2>2
  <1>4. waiters \in Seq(Events) /\ NoRepeat(waiters)
    BY <1>0 DEF TypeOK, Sleepers
  <1>5. /\ waiters' \in Seq(Events) /\ NoRepeat(waiters')
        /\ \A y : Holds(waiters', y) <=> Holds(waiters, y) /\ y # Event(w)
    BY <1>1, <1>4, RemoveHolds
  <1>6. \A v \in Threads, i \in Nat : Holds(waiters', <<v, i>>) =>
              v \in Workers /\ v # w /\ i = Depth(v) /\ Sleeping(v)
    BY <1>0, <1>5 DEF Sleepers, Event
  <1>7. Sleepers'
    <2>1. ~ Asleep(w)'
      BY <1>3 DEF Asleep, At
    <2>2. \A v \in Threads, i \in Nat : Holds(waiters', <<v, i>>) =>
              v \in Workers /\ i = Depth(v)' /\ Sleeping(v)'
      BY <1>3, <1>6, Elsewhere
    <2>3. \A v \in Workers : Asleep(v)' => Holds(waiters', Event(v)')
      <3> SUFFICES ASSUME NEW v \in Workers, Asleep(v)' PROVE Holds(waiters', Event(v)')
        OBVIOUS
      <3>1. v # w
        BY <2>1
      <3>2. Asleep(v) /\ Event(v)' = Event(v) /\ Event(v) # Event(w)
        BY <1>2, <1>3, <3>1, Elsewhere DEF Event
      <3> QED BY <1>0, <1>5, <3>2 DEF Sleepers
    <2> QED BY <1>5, <2>2, <2>3 DEF Sleepers
  <1>8. TypeOK'
    <2>1. PICK D : D = [v \in Workers |-> Depth(v)]
      OBVIOUS
    <2>2. \A v \in Threads, i \in Nat : Holds(waiters', <<v, i>>) => v \in Workers /\ i = D[v]
      BY <1>6, <2>1
    <2>3. Len(waiters') <= NumThreads
      BY <1>5, <2>2, WaitersBound
    <2> QED BY <1>0, <1>2, <1>3, <1>5, <2>3 DEF TypeOK
  <1>9. Queued' /\ Running'
    BY <1>0, <1>2, <1>3, QueuedStays, RunningStays DEF queues
  <1>10. Signals'
    <2>1. \A u : ~ Told(w, u)'
      BY <1>3 DEF Told, At
    <2>2. \A v \in Workers, u \in Tasks :
              Told(v, u)' => Told(v, u) /\ Depth(v)' = Depth(v) /\ LoopWaits(v, Depth(v), u)'
      BY <1>0, <1>3, <2>1, ToldElsewhere
    <2>3. \A u : MainWaits(Main, 1, u) => MainWaits(Main, 1, u)'
      BY <1>2 DEF MainWaits, MainTask
    <2>4. <<MainEvent, "available">> \notin pending' /\ \A u \in Tasks : Ready(u) => Ready(u)'
      BY <1>0, <1>2 DEF Signals, Ready
    <2> QED BY <1>0, <1>2, <1>3, <2>2, <2>3, <2>4, SignalsStays
  <1>11. Work'
    <2>1. ~ At(w, "loop", "append") /\ ~ At(w, "loop", "append")' /\ ~ Asleep(w)'
      BY <1>1, <1>3 DEF At, Asleep
    <2>2. \A v \in Workers : lock' = v <=> At(v, "loop", "append")'
      BY <1>0, <1>2, <1>3, <2>1, Elsewhere DEF Work
    <2>3. deque[w] = <<>>
      BY <1>1, StealerIsIdle
    <2>4. \A v \in Workers : deque'[v] # <<>> => Busy(v)'
      BY <1>0, <1>2, <1>3, <2>3, Elsewhere DEF Work
    <2>5. lock' # Free => public' = <<>>
      BY <1>0, <1>2 DEF Work
    <2> QED BY <2>1, <2>2, <2>4, <2>5 DEF Work
  <1>12. Starts'
    BY <1>0, <1>1, <1>2, <1>3, StartsStays DEF Others
  <1>13. Ends'
    <2>1. ~ Exited(w) /\ ~ Exited(w)'
      BY <1>1, <1>3 DEF Exited
    <2>2. \A v \in Workers : Exited(v)' <=> Exited(v)
      BY <1>2, <1>3, <2>1, Elsewhere
    <2> QED BY <1>0, <1>2, <2>2, EndsStays
  <1> QED BY <1>3, <1>7, <1>8, <1>9, <1>10, <1>11, <1>12, <1>13 DEF IInv


-----------------------------------------------------------------------------
(* Starting the threads. *)

\* A step that changes nothing the stacks, the queues and the sleepers depend on.
LEMMA Still ==
    ASSUME Frames, Queued, Running, Signals, Sleepers, Work,
           UNCHANGED <<stack, deque, public, tstate, conts, waiters, lock, pending, mpc, mip>>
    PROVE  Frames' /\ Queued' /\ Running' /\ Signals' /\ Sleepers' /\ Work'
  <1>1. /\ stack' = stack /\ deque' = deque /\ public' = public /\ tstate' = tstate
        /\ conts' = conts /\ waiters' = waiters /\ lock' = lock /\ pending' = pending
        /\ mpc' = mpc /\ mip' = mip
    OBVIOUS
  <1>2. /\ \A v : Depth(v)' = Depth(v) /\ Top(v)' = Top(v) /\ Event(v)' = Event(v)
        /\ \A v, k, p : At(v, k, p)' <=> At(v, k, p)
    BY <1>1 DEF Depth, Top, Event, At
  <1>3. /\ \A v : (Sleeping(v)' <=> Sleeping(v)) /\ (Busy(v)' <=> Busy(v)) /\ (Asleep(v)' <=> Asleep(v))
        /\ \A v, t : Told(v, t)' <=> Told(v, t)
        /\ \A v, i, t : (Runs(v, i, t)' <=> Runs(v, i, t)) /\ (LoopWaits(v, i, t)' <=> LoopWaits(v, i, t))
        /\ \A v, i, t : Waits(v, i, t)' <=> Waits(v, i, t)
    BY <1>1, <1>2 DEF Sleeping, Busy, Asleep, Mask, Told, Runs, LoopWaits, Waits, MainWaits, MainTask
  <1>4. Frames'
    BY <1>1, <1>2 DEF Frames
  <1>5. Queued'
    BY <1>1 DEF Queued
  <1>6. Running'
    BY <1>1, <1>3 DEF Running, Flushes
  <1>7. Signals'
    BY <1>1, <1>2, <1>3 DEF Signals, MainEvent, Ready
  <1>8. Sleepers'
    BY <1>1, <1>2, <1>3 DEF Sleepers
  <1>9. Work'
    BY <1>1, <1>2, <1>3 DEF Work
  <1> QED BY <1>4, <1>5, <1>6, <1>7, <1>8, <1>9

\* Half of a range of threads is smaller than the range and not empty.
LEMMA Halves ==
    ASSUME NEW n \in Nat, n > 1
    PROVE  n \div 2 \in Nat /\ n \div 2 >= 1 /\ n \div 2 < n
  BY SMT

\* What a worker that has threads to start knows of them.
LEMMA RangeFacts ==
    ASSUME TypeOK, Starts, NEW w \in Workers, range[w] > 1
    PROVE  /\ w \in Nat /\ range[w] \in Nat /\ Half(w) \in Nat /\ Half(w) >= 1 /\ Half(w) < range[w]
           /\ Child(w) = w + Half(w) /\ Child(w) \in Workers /\ w + range[w] <= NumThreads
           /\ IF range[Child(w)] = 0 THEN Rest(w) = (w + 1)..(w + range[w] - 1)
              ELSE Rest(w) = (w + 1)..(w + Half(w) - 1)
  <1>1. w \in Nat /\ NumThreads \in Nat
    BY WorkerIds
  <1>2. range[w] \in -1..NumThreads
    BY DEF TypeOK
  <1>3. PICK n \in Nat : n = range[w] /\ n > 1
    BY <1>1, <1>2
  <1>4. Half(w) \in Nat /\ Half(w) >= 1 /\ Half(w) < n
    BY <1>3, Halves DEF Half
  <1>5. w + n <= NumThreads
    BY <1>3 DEF Starts
  <1>6. w + Half(w) \in Workers
    BY <1>1, <1>4, <1>5 DEF Workers
  <1> QED BY <1>1, <1>3, <1>4, <1>5, <1>6 DEF Child, Rest

\* The threads a worker has to start are workers.
LEMMA RestInWorkers ==
    ASSUME TypeOK, Starts, NEW w \in Workers, range[w] > 1, NEW i \in Rest(w)
    PROVE  i \in Workers
  <1>1. PICK n \in Nat, h \in Nat :
            /\ w \in Nat /\ h < n /\ w + n <= NumThreads /\ NumThreads \in Nat
            /\ i \in (w + 1)..(w + n - 1) \/ i \in (w + 1)..(w + h - 1)
    BY RangeFacts, WorkerIds
  <1>2. i \in 0..(NumThreads - 1)
    BY <1>1
  <1> QED BY <1>2 DEF Workers

\* The range of n threads of worker w is split at its child c.
Split(N, w, n, h, c, k) ==
    /\ 1 <= h /\ h < n /\ c = w + h /\ k = n - h /\ w + n <= N

\* What that means: the two parts make up the whole.
SplitInTwo(N, w, n, h, c, k) ==
    /\ k \in -1..N /\ k # 0 /\ k # -1 /\ c # w /\ w < c /\ c + k <= N
    /\ w + h <= N /\ h # 0 /\ h # -1 /\ h \in -1..N
    /\ \A i \in (w + 1)..(w + n - 1) : i \in 0..(N - 1)
    /\ \A i \in (w + 1)..(w + h - 1) : i \in (w + 1)..(w + n - 1) /\ i # c
    /\ \A i \in (c + 1)..(w + n - 1) : i \in (w + 1)..(w + n - 1) /\ i # c /\ c < i
    /\ \A g \in Nat : 1 <= g /\ g < k => c + g \in (w + 1)..(w + n - 1) /\ c + g # c
    /\ \A g \in Nat : 1 <= g /\ g < h => w + g \in (w + 1)..(w + h - 1)
    /\ (c + 1)..(c + k - 1) = (c + 1)..(w + n - 1)
    /\ \A x \in Nat : x \notin (w + 1)..(w + n - 1) /\ x # w => x < w \/ x > c
    /\ \A i \in (w + 1)..(w + n - 1) :
          i \in (w + 1)..(w + h - 1) \/ i = c \/ (k > 1 /\ i \in (c + 1)..(w + n - 1))
    /\ c \in (w + 1)..(w + n - 1)

\* The range of a thread that starts another is the two ranges and that
\* thread.
LEMMA SplitFacts ==
    ASSUME NEW N \in Nat, NEW w \in Nat, NEW n \in Nat, NEW h \in Nat, NEW c \in Nat, NEW k \in Nat,
           Split(N, w, n, h, c, k)
    PROVE  SplitInTwo(N, w, n, h, c, k)
  BY SMT DEF Split, SplitInTwo

\* A range that neither begins nor ends between w and c has both or none.
LEMMA ApartFacts ==
    ASSUME NEW x \in Nat, NEW k \in Nat, NEW w \in Nat, NEW c \in Nat, w < c, x < w \/ x > c,
           w \notin (x + 1)..(x + k - 1)
    PROVE  c \notin (x + 1)..(x + k - 1)
  BY SMT

\* Threads are started for one range after the other: those of two workers never meet.
LEMMA ApartFromSplit ==
    ASSUME TypeOK, Starts, NEW w \in Workers, range[w] > 1, range[Child(w)] = 0,
           NEW x \in Workers, x # w, range[x] > 1
    PROVE  Child(w) \notin Rest(x) /\ Child(x) # Child(w) /\ x # Child(w)
  <1>1. PICK n \in Nat, h \in Nat, c \in Workers :
            /\ n = range[w] /\ h = Half(w) /\ c = Child(w) /\ c \in Nat /\ w \in Nat /\ NumThreads \in Nat
            /\ 1 <= h /\ h < n /\ c = w + h /\ w + n <= NumThreads
            /\ Rest(w) = (w + 1)..(w + n - 1)
    BY RangeFacts, WorkerIds
  <1>2. PICK k \in Nat : SplitInTwo(NumThreads, w, n, h, c, k)
    <2>1. /\ w \in Nat /\ c \in Nat /\ NumThreads \in Nat
          /\ 1 <= h /\ h < n /\ c = w + h /\ w + n <= NumThreads
      BY <1>1
    <2>2. PICK k \in Nat : k = n - h
      BY <2>1
    <2>3. Split(NumThreads, w, n, h, c, k)
      BY <2>1, <2>2 DEF Split
    <2>4. SplitInTwo(NumThreads, w, n, h, c, k)
      BY <2>1, <2>3, SplitFacts
    <2> QED BY <2>4
  <1>3. PICK m \in Nat, g \in Nat, d \in Workers :
            /\ m = range[x] /\ g = Half(x) /\ d = Child(x) /\ x \in Nat /\ d \in Nat
            /\ 1 <= g /\ g < m /\ d = x + g
            /\ IF range[d] = 0 THEN Rest(x) = (x + 1)..(x + m - 1) ELSE Rest(x) = (x + 1)..(x + g - 1)
    BY RangeFacts, WorkerIds
  <1>4. x # c
    BY <1>1
  <1>5. x \notin Rest(w)
    BY DEF Starts
  <1>6. x < w \/ x > c
    BY <1>1, <1>2, <1>3, <1>5 DEF SplitInTwo
  <1>7. w \notin Rest(x)
    BY DEF Starts
  <1>8. w < c
    BY <1>2 DEF SplitInTwo
  <1>9. c \notin Rest(x)
    <2>1. CASE range[d] = 0
      <3>1. Rest(x) = (x + 1)..(x + m - 1)
        BY <1>3, <2>1
      <3> QED BY <1>1, <1>3, <1>6, <1>7, <1>8, <3>1, ApartFacts
    <2>2. CASE range[d] # 0
      <3>1. Rest(x) = (x + 1)..(x + g - 1)
        BY <1>3, <2>2
      <3> QED BY <1>1, <1>3, <1>6, <1>7, <1>8, <3>1, ApartFacts
    <2> QED BY <2>1, <2>2
  <1>10. d # c
    <2> SUFFICES ASSUME d = c PROVE FALSE
      OBVIOUS
    <2>1. Rest(x) = (x + 1)..(x + m - 1)
      BY <1>1, <1>3
    <2>2. d \in (x + 1)..(x + m - 1)
      <3>1. 1 <= g /\ g < m /\ d = x + g
        BY <1>3
      <3> QED BY <3>1
    <2> QED BY <1>9, <2>1, <2>2
  <1> QED BY <1>1, <1>3, <1>4, <1>9, <1>10

\* StartThread preserves the invariant.
LEMMA StartThreadKeeps ==
    ASSUME IInv, NEW w \in Workers, StartThread(w)
    PROVE  IInv'
  <1>0. TypeOK /\ Frames /\ Queued /\ Running /\ Signals /\ Sleepers /\ Work /\ Starts /\ Ends
    BY DEF IInv
  <1>1. /\ stack' = stack /\ deque' = deque /\ public' = public /\ tstate' = tstate /\ conts' = conts
        /\ waiters' = waiters /\ lock' = lock /\ pending' = pending /\ shutdown' = shutdown
        /\ handle' = handle /\ mpc' = mpc /\ mip' = mip
    BY DEF StartThread, queues, sleepers, tasks, main
  <1>2. /\ range[w] > 1 /\ range[Child(w)] = 0
        /\ range' = [range EXCEPT ![Child(w)] = range[w] - Half(w)]
    BY DEF StartThread
  <1>3. PICK n \in Nat, h \in Nat, c \in Workers :
            /\ n = range[w] /\ h = Half(w) /\ c = Child(w) /\ w \in Nat /\ c \in Nat
            /\ 1 <= h /\ h < n /\ c = w + h /\ w + n <= NumThreads /\ NumThreads \in Nat
            /\ Rest(w) = (w + 1)..(w + n - 1)
    BY <1>0, <1>2, RangeFacts, WorkerIds
  <1>4. PICK k \in Nat : k = n - h /\ SplitInTwo(NumThreads, w, n, h, c, k)
    <2>1. /\ w \in Nat /\ c \in Nat /\ NumThreads \in Nat
          /\ 1 <= h /\ h < n /\ c = w + h /\ w + n <= NumThreads
      BY <1>3
    <2>2. PICK k \in Nat : k = n - h
      BY <2>1
    <2>3. Split(NumThreads, w, n, h, c, k)
      BY <2>1, <2>2 DEF Split
    <2>4. SplitInTwo(NumThreads, w, n, h, c, k)
      BY <2>1, <2>3, SplitFacts
    <2> QED BY <2>2, <2>4
  <1>4a. k \in -1..NumThreads /\ k # 0 /\ k # -1 /\ c # w /\ w < c
    BY <1>4 DEF SplitInTwo
  <1>5. /\ range' \in [Workers -> -1..NumThreads]
        /\ \A x \in Workers : range'[x] = IF x = c THEN k ELSE range[x]
    <2>1. range' = [range EXCEPT ![c] = k]
      BY <1>2, <1>3, <1>4
    <2> QED BY <1>0, <1>4a, <2>1 DEF TypeOK
  <1>6. \A i \in (w + 1)..(w + n - 1) : range[i] = 0 /\ i \in Workers
    <2>1. \A i \in (w + 1)..(w + n - 1) : i \in Workers
      BY <1>4 DEF SplitInTwo, Workers
    <2> QED BY <1>0, <1>2, <1>3, <2>1 DEF Starts
  <1>7. TypeOK'
    BY <1>0, <1>1, <1>5 DEF TypeOK
  <1>8. ASSUME NEW x \in Workers, x # w, range[x] > 1
        PROVE  x # c /\ Child(x)' = Child(x) /\ Rest(x)' = Rest(x) /\ c \notin Rest(x) /\ range'[x] = range[x]
    <2>1. x # c /\ Child(x) # c /\ c \notin Rest(x)
      BY <1>0, <1>2, <1>3, <1>8, ApartFromSplit
    <2>2. Child(x) \in Workers
      BY <1>0, <1>8, RangeFacts
    <2>3. range'[x] = range[x] /\ range'[Child(x)] = range[Child(x)]
      BY <1>5, <2>1, <2>2
    <2>4. Half(x)' = Half(x)
      BY <2>3 DEF Half
    <2>5. Child(x)' = Child(x)
      BY <2>4 DEF Child
    <2>6. range'[Child(x)'] = range[Child(x)]
      BY <2>3, <2>5
    <2>7. Rest(x)' = Rest(x)
      BY <2>3, <2>4, <2>6 DEF Rest
    <2> QED BY <2>1, <2>3, <2>5, <2>7
  <1>9. range'[w] = n /\ Half(w)' = h /\ Child(w)' = c /\ Rest(w)' = (w + 1)..(w + h - 1)
    <2>1. range'[w] = n /\ range'[c] = k /\ range'[w] = range[w]
      BY <1>3, <1>5, <1>4a
    <2>2. Half(w)' = h
      BY <1>3, <2>1 DEF Half
    <2>3. Child(w)' = c
      BY <1>3, <2>2 DEF Child
    <2>4. range'[Child(w)'] # 0
      BY <1>4a, <2>1, <2>3
    <2> QED BY <2>1, <2>2, <2>3, <2>4 DEF Rest
  <1>10. range'[c] = k /\ (k > 1 => Rest(c)' = (c + 1)..(w + n - 1))
    <2>0. range'[c] = k
      BY <1>5
    <2> SUFFICES ASSUME k > 1 PROVE Rest(c)' = (c + 1)..(w + n - 1)
      BY <2>0
    <2>1. k \div 2 \in Nat /\ k \div 2 >= 1 /\ k \div 2 < k
      BY Halves
    <2>2. PICK g \in Nat : g = k \div 2 /\ 1 <= g /\ g < k
      BY <2>1
    <2>3. Half(c)' = g
      BY <2>0, <2>2 DEF Half
    <2>4. c + g \in (w + 1)..(w + n - 1) /\ c + g # c
      BY <1>4, <2>2 DEF SplitInTwo
    <2>5. range'[c + g] = 0
      BY <1>5, <1>6, <2>4
    <2>6. Child(c)' = c + g
      BY <2>3 DEF Child
    <2>7. Rest(c)' = (c + 1)..(c + k - 1)
      BY <2>0, <2>5, <2>6 DEF Rest
    <2> QED BY <1>4, <2>7 DEF SplitInTwo
  <1>11. Starts'
    <2>1. \A x \in Workers : x + range'[x] <= NumThreads
      <3>1. c + k <= NumThreads
        BY <1>4 DEF SplitInTwo
      <3> QED BY <1>0, <1>5, <3>1 DEF Starts
    <2>2. \A x \in Workers : range'[x] > 1 => \A i \in Rest(x)' : range'[i] = 0
      <3> SUFFICES ASSUME NEW x \in Workers, range'[x] > 1, NEW i \in Rest(x)'
                   PROVE  range'[i] = 0
        OBVIOUS
      <3>1. CASE x = w
        <4>1. i \in (w + 1)..(w + n - 1) /\ i # c
          BY <1>4, <1>9, <3>1 DEF SplitInTwo
        <4> QED BY <1>5, <1>6, <4>1
      <3>2. CASE x = c
        <4>1. i \in (c + 1)..(w + n - 1)
          BY <1>10, <3>2
        <4>2. i \in (w + 1)..(w + n - 1) /\ i # c
          BY <1>4, <4>1 DEF SplitInTwo
        <4> QED BY <1>5, <1>6, <4>2
      <3>3. CASE x # w /\ x # c
        <4>1. range[x] > 1
          BY <1>5, <3>3
        <4>2. i \in Rest(x) /\ i # c
          BY <1>8, <3>3, <4>1
        <4>3. range[i] = 0
          BY <1>0, <4>1, <4>2 DEF Starts
        <4>4. i \in Workers
          BY <1>0, <4>1, <4>2, RestInWorkers
        <4> QED BY <1>5, <4>2, <4>3, <4>4
      <3> QED BY <3>1, <3>2, <3>3
    <2>3. \A v \in Workers : ~ handle'[v] =>
              \E x \in Workers : x < v /\ range'[x] > 1 /\ (v \in Rest(x)' \/ v = Child(x)')
      <3> SUFFICES ASSUME NEW v \in Workers, ~ handle[v]
                   PROVE  \E x \in Workers : x < v /\ range'[x] > 1 /\ (v \in Rest(x)' \/ v = Child(x)')
        BY <1>1
      <3>1. PICK x \in Workers : x < v /\ range[x] > 1 /\ (v \in Rest(x) \/ v = Child(x))
        BY <1>0 DEF Starts
      <3>2. CASE x # w
        BY <1>8, <3>1, <3>2
      <3>3. CASE x = w
        <4>1. v \in (w + 1)..(w + n - 1)
          <5>1. c \in (w + 1)..(w + n - 1)
            BY <1>4 DEF SplitInTwo
          <5>2. v \in (w + 1)..(w + n - 1) \/ v = c
            BY <1>3, <3>1, <3>3
          <5> QED BY <5>1, <5>2
        <4>2. \/ v \in (w + 1)..(w + h - 1) \/ v = c
              \/ k > 1 /\ v \in (c + 1)..(w + n - 1)
          BY <1>4, <4>1 DEF SplitInTwo
        <4>3. CASE v \in (w + 1)..(w + h - 1) \/ v = c
          <5>1. range'[w] > 1
            BY <1>3, <1>9
          <5> QED BY <1>9, <3>1, <3>3, <4>3, <5>1
        <4>4. CASE k > 1 /\ v \in (c + 1)..(w + n - 1)
          <5>1. c < v
            BY <1>3, <4>4
          <5> QED BY <1>10, <4>4, <5>1
        <4> QED BY <4>2, <4>3, <4>4
      <3> QED BY <3>2, <3>3
    <2>4. \A x \in Workers : stack'[x] # <<>> => range'[x] = -1
      <3>1. stack[c] = <<>>
        BY <1>0, <1>2, <1>3 DEF Starts
      <3> QED BY <1>0, <1>1, <1>5, <3>1 DEF Starts
    <2> QED BY <2>1, <2>2, <2>3, <2>4 DEF Starts
  <1>12. Ends'
    <2>1. \A x \in Workers : Exited(x)' <=> Exited(x)
      <3>1. range[c] # -1 /\ range'[c] # -1
        BY <1>2, <1>3, <1>10, <1>4a
      <3> QED BY <1>1, <1>5, <3>1 DEF Exited
    <2> QED BY <1>0, <1>1, <2>1, EndsStays
  <1>13. Frames' /\ Queued' /\ Running' /\ Signals' /\ Sleepers' /\ Work'
    BY <1>0, <1>1, Still
  <1> QED BY <1>7, <1>11, <1>12, <1>13 DEF IInv


\* AssignHandle preserves the invariant.
LEMMA AssignHandleKeeps ==
    ASSUME IInv, NEW w \in Workers, AssignHandle(w)
    PROVE  IInv'
  <1>0. TypeOK /\ Frames /\ Queued /\ Running /\ Signals /\ Sleepers /\ Work /\ Starts /\ Ends
    BY DEF IInv
  <1>1. /\ stack' = stack /\ deque' = deque /\ public' = public /\ tstate' = tstate /\ conts' = conts
        /\ waiters' = waiters /\ lock' = lock /\ pending' = pending /\ shutdown' = shutdown
        /\ mpc' = mpc /\ mip' = mip
    BY DEF AssignHandle, queues, sleepers, tasks, main
  <1>2. /\ range[w] > 1 /\ range[Child(w)] # 0
        /\ range' = [range EXCEPT ![w] = Half(w)] /\ handle' = [handle EXCEPT ![Child(w)] = TRUE]
    BY DEF AssignHandle
  <1>3. PICK n \in Nat, h \in Nat, c \in Workers :
            /\ n = range[w] /\ h = Half(w) /\ c = Child(w) /\ w \in Nat /\ c \in Nat
            /\ 1 <= h /\ h < n /\ c = w + h /\ w + n <= NumThreads /\ NumThreads \in Nat
            /\ Rest(w) = (w + 1)..(w + h - 1)
    BY <1>0, <1>2, RangeFacts, WorkerIds
  <1>4. PICK k \in Nat : SplitInTwo(NumThreads, w, n, h, c, k)
    <2>1. /\ w \in Nat /\ c \in Nat /\ NumThreads \in Nat
          /\ 1 <= h /\ h < n /\ c = w + h /\ w + n <= NumThreads
      BY <1>3
    <2>2. PICK k \in Nat : k = n - h
      BY <2>1
    <2>3. Split(NumThreads, w, n, h, c, k)
      BY <2>1, <2>2 DEF Split
    <2>4. SplitInTwo(NumThreads, w, n, h, c, k)
      BY <2>1, <2>3, SplitFacts
    <2> QED BY <2>4
  <1>5. h \in -1..NumThreads /\ h # 0 /\ h # -1 /\ c # w /\ w < c
    BY <1>4 DEF SplitInTwo
  <1>6. /\ range' \in [Workers -> -1..NumThreads] /\ handle' \in [Workers -> BOOLEAN]
        /\ \A x \in Workers : range'[x] = IF x = w THEN h ELSE range[x]
        /\ \A x \in Workers : handle'[x] = (x = c \/ handle[x])
    <2>1. range' = [range EXCEPT ![w] = h] /\ handle' = [handle EXCEPT ![c] = TRUE]
      BY <1>2, <1>3
    <2> QED BY <1>0, <1>5, <2>1 DEF TypeOK
  <1>7. TypeOK'
    BY <1>0, <1>1, <1>6 DEF TypeOK
  <1>8. \A i \in (w + 1)..(w + h - 1) : range[i] = 0 /\ i \in Workers
    BY <1>0, <1>2, <1>3, RestInWorkers DEF Starts
  <1>9. range'[w] = h /\ (h > 1 => Rest(w)' = (w + 1)..(w + h - 1))
    <2>0. range'[w] = h
      BY <1>6
    <2> SUFFICES ASSUME h > 1 PROVE Rest(w)' = (w + 1)..(w + h - 1)
      BY <2>0
    <2>1. h \div 2 \in Nat /\ h \div 2 >= 1 /\ h \div 2 < h
      BY Halves
    <2>2. PICK g \in Nat : g = h \div 2 /\ 1 <= g /\ g < h
      BY <2>1
    <2>3. Half(w)' = g
      BY <2>0, <2>2 DEF Half
    <2>4. w + g \in (w + 1)..(w + h - 1) /\ w + g # w
      <3>1. w + g # w
        BY <1>3, <2>2
      <3> QED BY <1>4, <2>2, <3>1 DEF SplitInTwo
    <2>5. range'[w + g] = 0
      BY <1>6, <1>8, <2>4
    <2>6. Child(w)' = w + g
      BY <2>3 DEF Child
    <2> QED BY <2>0, <2>5, <2>6 DEF Rest
  <1>10. ASSUME NEW x \in Workers, x # w, range[x] > 1
         PROVE  Child(x)' = Child(x) /\ Rest(x)' = Rest(x) /\ w \notin Rest(x) /\ range'[x] = range[x]
    <2>1. w \notin Rest(x)
      BY <1>0, <1>2, <1>10 DEF Starts
    <2>2. Child(x) \in Workers
      BY <1>0, <1>10, RangeFacts
    <2>3. range'[x] = range[x] /\ (range'[Child(x)] = 0 <=> range[Child(x)] = 0)
      <3>1. range[w] # 0 /\ range'[w] # 0
        BY <1>2, <1>5, <1>9
      <3> QED BY <1>6, <1>10, <2>2, <3>1
    <2>4. Half(x)' = Half(x)
      BY <2>3 DEF Half
    <2>5. Child(x)' = Child(x)
      BY <2>4 DEF Child
    <2>6. range'[Child(x)'] = 0 <=> range[Child(x)] = 0
      BY <2>3, <2>5
    <2>7. Rest(x)' = Rest(x)
      BY <2>3, <2>4, <2>6 DEF Rest
    <2> QED BY <2>1, <2>3, <2>5, <2>7
  <1>11. Starts'
    <2>1. \A x \in Workers : x + range'[x] <= NumThreads
      <3>1. w + h <= NumThreads
        BY <1>4 DEF SplitInTwo
      <3> QED BY <1>0, <1>6, <3>1 DEF Starts
    <2>2. \A x \in Workers : range'[x] > 1 => \A i \in Rest(x)' : range'[i] = 0
      <3> SUFFICES ASSUME NEW x \in Workers, range'[x] > 1, NEW i \in Rest(x)'
                   PROVE  range'[i] = 0
        OBVIOUS
      <3>1. CASE x = w
        <4>1. i \in (w + 1)..(w + h - 1)
          BY <1>9, <3>1
        <4>2. i # w
          BY <1>3, <4>1
        <4> QED BY <1>6, <1>8, <4>1, <4>2
      <3>2. CASE x # w
        <4>1. range[x] > 1
          BY <1>6, <3>2
        <4>2. i \in Rest(x) /\ i # w
          BY <1>10, <3>2, <4>1
        <4>3. range[i] = 0
          BY <1>0, <4>1, <4>2 DEF Starts
        <4>4. i \in Workers
          BY <1>0, <4>1, <4>2, RestInWorkers
        <4> QED BY <1>6, <4>2, <4>3, <4>4
      <3> QED BY <3>1, <3>2
    <2>3. \A v \in Workers : ~ handle'[v] =>
              \E x \in Workers : x < v /\ range'[x] > 1 /\ (v \in Rest(x)' \/ v = Child(x)')
      <3> SUFFICES ASSUME NEW v \in Workers, ~ handle[v], v # c
                   PROVE  \E x \in Workers : x < v /\ range'[x] > 1 /\ (v \in Rest(x)' \/ v = Child(x)')
        BY <1>6
      <3>1. PICK x \in Workers : x < v /\ range[x] > 1 /\ (v \in Rest(x) \/ v = Child(x))
        BY <1>0 DEF Starts
      <3>2. CASE x # w
        BY <1>10, <3>1, <3>2
      <3>3. CASE x = w
        <4>1. v \in (w + 1)..(w + h - 1)
          BY <1>3, <3>1, <3>3
        <4>2. h > 1
          BY <1>3, <4>1
        <4> QED BY <1>9, <3>1, <3>3, <4>1, <4>2
      <3> QED BY <3>2, <3>3
    <2>4. \A x \in Workers : stack'[x] # <<>> => range'[x] = -1
      <3>1. stack[w] = <<>>
        BY <1>0, <1>2, <1>3 DEF Starts
      <3> QED BY <1>0, <1>1, <1>6, <3>1 DEF Starts
    <2> QED BY <2>1, <2>2, <2>3, <2>4 DEF Starts
  <1>12. Ends'
    <2>1. \A x \in Workers : Exited(x)' <=> Exited(x)
      <3>1. range[w] # -1 /\ range'[w] # -1
        BY <1>3, <1>5, <1>9
      <3> QED BY <1>1, <1>6, <3>1 DEF Exited
    <2> QED BY <1>0, <1>1, <2>1, EndsStays
  <1>13. Frames' /\ Queued' /\ Running' /\ Signals' /\ Sleepers' /\ Work'
    BY <1>0, <1>1, Still
  <1> QED BY <1>7, <1>11, <1>12, <1>13 DEF IInv

\* EnterMainLoop preserves the invariant.
LEMMA EnterMainLoopKeeps ==
    ASSUME IInv, NEW w \in Workers, EnterMainLoop(w)
    PROVE  IInv'
  <1>0. TypeOK /\ Frames /\ Queued /\ Running /\ Signals /\ Sleepers /\ Work /\ Starts /\ Ends
    BY DEF IInv
  <1>1. /\ deque' = deque /\ public' = public /\ tstate' = tstate /\ conts' = conts
        /\ waiters' = waiters /\ lock' = lock /\ pending' = pending /\ shutdown' = shutdown
        /\ handle' = handle /\ mpc' = mpc /\ mip' = mip
    BY DEF EnterMainLoop, queues, sleepers, tasks, main
  <1>2. range[w] = 1 /\ range' = [range EXCEPT ![w] = -1]
    BY DEF EnterMainLoop
  <1>3. stack[w] = <<>>
    BY <1>0, <1>2 DEF Starts
  <1>4. PICK g : g = Frame("loop", None)
    OBVIOUS
  <1>5. /\ g \in FrameSet /\ g.kind = "loop" /\ g.task = None /\ g.pc = "check"
        /\ g.added = FALSE /\ g.fin = FALSE /\ g.ip = 1
    BY <1>4 DEF Frame, FrameSet
  <1>6. stack' = [stack EXCEPT ![w] = Append(stack[w], g)]
    BY <1>3, <1>4 DEF EnterMainLoop
  <1>7. Depth(w) = 0 /\ Depth(w) + 1 = 1
    BY <1>3 DEF Depth
  <1>8. Enters(w, Top(w), g)
    BY <1>0, <1>5, <1>6, AppendEnters
  <1>9. stack' \in [Workers -> Seq(FrameSet)] /\ Others(w)
    BY <1>8 DEF Enters, Others
  <1>10. GoodFrame(g, Depth(w) + 1, TRUE)
    <2>1. (1 % 2) = 1
      OBVIOUS
    <2> QED BY <1>5, <1>7, <2>1 DEF GoodFrame, LoopPcs
  <1>11. Frames' /\ Entered(w, g) /\ SameFlushes /\ SameWaits
    BY <1>0, <1>3, <1>5, <1>8, <1>10, EnterKeeps
  <1>12. stack'[w] # <<>> /\ Top(w)' = g /\ SameRuns
    BY <1>5, <1>11 DEF Entered, SameRuns
  <1>13. /\ range' \in [Workers -> -1..NumThreads]
         /\ \A x \in Workers : range'[x] = IF x = w THEN -1 ELSE range[x]
    <2>1. -1 \in -1..NumThreads
      BY WorkerIds
    <2> QED BY <1>0, <1>2, <2>1 DEF TypeOK
  <1>14. TypeOK'
    BY <1>0, <1>1, <1>9, <1>13 DEF TypeOK
  <1>15. Queued' /\ Running'
    BY <1>0, <1>1, <1>11, <1>12, QueuedStays, RunningStays DEF queues
  <1>16. Signals'
    <2>1. \A u : ~ Told(w, u)'
      BY <1>5, <1>12 DEF Told, At
    <2>2. \A v \in Workers, u \in Tasks :
              Told(v, u)' => Told(v, u) /\ Depth(v)' = Depth(v) /\ LoopWaits(v, Depth(v), u)'
      BY <1>0, <1>9, <2>1, ToldElsewhere
    <2>3. \A u : MainWaits(Main, 1, u) => MainWaits(Main, 1, u)'
      BY <1>1 DEF MainWaits, MainTask
    <2>4. <<MainEvent, "available">> \notin pending' /\ \A u \in Tasks : Ready(u) => Ready(u)'
      BY <1>0, <1>1 DEF Signals, Ready
    <2>5. WaitsEnd
      BY <1>11 DEF SameWaits, WaitsEnd
    <2> QED BY <1>0, <1>1, <2>2, <2>3, <2>4, <2>5, SignalsStays
  <1>17. Sleepers'
    <2>1. ~ Sleeping(w) /\ ~ Asleep(w)'
      BY <1>3, <1>5, <1>12 DEF Sleeping, Asleep, At
    <2>2. Kept(w)
      BY <1>1 DEF Kept
    <2> QED BY <1>0, <1>1, <1>9, <2>1, <2>2, SleepersStays
  <1>18. Work'
    <2>1. ~ At(w, "loop", "append") /\ ~ At(w, "loop", "append")' /\ ~ Asleep(w)'
      BY <1>3, <1>5, <1>12 DEF At, Asleep
    <2>2. \A v \in Workers : lock' = v <=> At(v, "loop", "append")'
      BY <1>0, <1>1, <1>9, <2>1, Elsewhere DEF Work
    <2>3. deque[w] = <<>>
      BY <1>0, <1>3 DEF Work, Busy
    <2>4. \A v \in Workers : deque'[v] # <<>> => Busy(v)'
      BY <1>0, <1>1, <1>9, <2>3, Elsewhere DEF Work
    <2>5. lock' # Free => public' = <<>>
      BY <1>0, <1>1 DEF Work
    <2> QED BY <2>1, <2>2, <2>4, <2>5 DEF Work
  <1>19. ASSUME NEW x \in Workers, x # w, range[x] > 1
         PROVE  Child(x)' = Child(x) /\ Rest(x)' = Rest(x) /\ w \notin Rest(x) /\ range'[x] = range[x]
    <2>1. w \notin Rest(x)
      BY <1>0, <1>2, <1>19 DEF Starts
    <2>2. Child(x) \in Workers
      BY <1>0, <1>19, RangeFacts
    <2>3. range'[x] = range[x] /\ (range'[Child(x)] = 0 <=> range[Child(x)] = 0)
      BY <1>2, <1>13, <1>19, <2>2
    <2>4. Half(x)' = Half(x)
      BY <2>3 DEF Half
    <2>5. Child(x)' = Child(x)
      BY <2>4 DEF Child
    <2>6. range'[Child(x)'] = 0 <=> range[Child(x)] = 0
      BY <2>3, <2>5
    <2>7. Rest(x)' = Rest(x)
      BY <2>3, <2>4, <2>6 DEF Rest
    <2> QED BY <2>1, <2>3, <2>5, <2>7
  <1>20. Starts'
    <2>1. \A x \in Workers : x + range'[x] <= NumThreads
      <3>1. w + (-1) <= NumThreads
        BY WorkerIds DEF Workers
      <3> QED BY <1>0, <1>13, <3>1 DEF Starts
    <2>2. \A x \in Workers : range'[x] > 1 => x # w /\ range[x] > 1
      BY <1>13
    <2>3. \A x \in Workers : range'[x] > 1 => \A i \in Rest(x)' : range'[i] = 0
      <3> SUFFICES ASSUME NEW x \in Workers, range'[x] > 1, NEW i \in Rest(x)'
                   PROVE  range'[i] = 0
        OBVIOUS
      <3>1. range[x] > 1 /\ i \in Rest(x) /\ i # w
        BY <1>19, <2>2
      <3>2. range[i] = 0
        BY <1>0, <3>1 DEF Starts
      <3>3. i \in Workers
        BY <1>0, <3>1, RestInWorkers
      <3> QED BY <1>13, <3>1, <3>2, <3>3
    <2>4. \A v \in Workers : ~ handle'[v] =>
              \E x \in Workers : x < v /\ range'[x] > 1 /\ (v \in Rest(x)' \/ v = Child(x)')
      <3> SUFFICES ASSUME NEW v \in Workers, ~ handle[v]
                   PROVE  \E x \in Workers : x < v /\ range'[x] > 1 /\ (v \in Rest(x)' \/ v = Child(x)')
        BY <1>1
      <3>1. PICK x \in Workers : x < v /\ range[x] > 1 /\ (v \in Rest(x) \/ v = Child(x))
        BY <1>0 DEF Starts
      <3>2. x # w
        BY <1>2, <3>1
      <3> QED BY <1>19, <3>1, <3>2
    <2>5. \A x \in Workers : stack'[x] # <<>> => range'[x] = -1
      BY <1>0, <1>9, <1>13 DEF Starts, Others
    <2> QED BY <2>1, <2>3, <2>4, <2>5 DEF Starts
  <1>21. Ends'
    <2>1. \A x \in Workers : Exited(x)' <=> Exited(x)
      <3>1. ~ Exited(w) /\ ~ Exited(w)'
        BY <1>2, <1>12 DEF Exited
      <3> QED BY <1>9, <1>13, <3>1, Elsewhere
    <2> QED BY <1>0, <1>1, <2>1, EndsStays
  <1> QED BY <1>11, <1>14, <1>15, <1>16, <1>17, <1>18, <1>20, <1>21 DEF IInv



-----------------------------------------------------------------------------
(* Steps of a task. *)

\* The operations of a task are those of its script.
LEMMA OpTyped ==
    ASSUME TypeOK, Frames, NEW w \in Workers, stack[w] # <<>>, Top(w).kind = "run"
    PROVE  /\ Top(w).task \in Tasks /\ Script[Top(w).task] \in Seq(Ops)
           /\ Top(w).ip <= Len(Script[Top(w).task]) => NextOp(w).task \in Tasks
  <1>1. Depth(w) # 1
    <2>1. GoodFrame(Top(w), Depth(w), TRUE)
      BY TopFrame
    <2>2. (1 % 2) = 1
      OBVIOUS
    <2> QED BY <2>1, <2>2 DEF GoodFrame
  <1>2. Top(w) \in FrameSet /\ Top(w).task # None /\ Top(w).ip # 0
    BY <1>1, TopFrame DEF GoodFrame
  <1>3. Top(w).task \in Tasks /\ Top(w).ip \in Nat
    BY <1>2 DEF FrameSet
  <1>4. Script[Top(w).task] \in Seq(Ops)
    BY <1>3, PoolAssumption
  <1>5. PICK s \in Seq(Ops), n \in Nat : s = Script[Top(w).task] /\ n = Top(w).ip /\ n # 0
    BY <1>2, <1>3, <1>4
  <1>6. ASSUME n <= Len(s) PROVE s[n].task \in Tasks
    <2>1. Len(s) \in Nat
      BY LenProperties
    <2>2. n \in 1..Len(s)
      BY <1>5, <1>6, <2>1
    <2>3. s[n] \in Ops
      BY <2>2, ElementOfSeq
    <2> QED BY <2>3 DEF Ops
  <1> QED BY <1>3, <1>4, <1>5, <1>6 DEF NextOp

\* What moving on in a script preserves.
LEMMA AdvanceKeeps ==
    ASSUME TypeOK, Frames, NEW w \in Workers, stack[w] # <<>>, Top(w).kind = "run",
           Top(w).pc # "flush", Advance(w)
    PROVE  /\ stack' \in [Workers -> Seq(FrameSet)] /\ Others(w) /\ Frames'
           /\ stack'[w] # <<>> /\ Top(w)'.kind = "run"
           /\ SameRuns /\ SameWaits /\ SameFlushes
  <1>1. Top(w) \in FrameSet /\ GoodFrame(Top(w), Depth(w), TRUE)
    BY TopFrame
  <1>2. PICK n \in Nat : n = Top(w).ip + 1 /\ n # 0
    <2>1. Top(w).ip \in Nat
      BY <1>1 DEF FrameSet
    <2>2. Top(w).ip + 1 \in Nat /\ Top(w).ip + 1 # 0
      BY <2>1
    <2> QED BY <2>2
  <1>3. PICK f : f = [Top(w) EXCEPT !.pc = "op", !.ip = n]
    OBVIOUS
  <1>4. /\ f \in FrameSet /\ f.kind = "run" /\ f.task = Top(w).task /\ f.pc = "op"
        /\ f.added = Top(w).added /\ f.fin = Top(w).fin /\ f.ip = n
    BY <1>1, <1>3 DEF FrameSet
  <1>5. GoodFrame(f, Depth(w), TRUE)
    BY <1>1, <1>2, <1>4 DEF GoodFrame, RunPcs
  <1>6. Set(w, f)
    BY <1>2, <1>3 DEF Advance
  <1> QED BY <1>4, <1>5, <1>6, SetKeeps

\* A task that goes on as it was, or waits.
LEMMA RunOn ==
    ASSUME IInv, NEW w \in Workers, stack[w] # <<>>, stack'[w] # <<>>,
           Top(w).kind = "run", Busy(w)',
           stack' \in [Workers -> Seq(FrameSet)], Others(w), Frames',
           SameRuns, SameFlushes, SameWaits, Kept(w), pending' \subseteq pending,
           UNCHANGED <<queues, waiters, lock, shutdown, tasks, threads, main>>
    PROVE  IInv'
  <1>1. ~ Sleeping(w) /\ ~ At(w, "loop", "append") /\ ~ Sleeping(w)' /\ ~ At(w, "loop", "append")'
    BY DEF Sleeping, At, Busy
  <1>2. WaitsEnd
    BY DEF SameWaits, WaitsEnd
  <1> QED BY <1>1, <1>2, WorkOn

\* RunTestWaiters preserves the invariant.
LEMMA RunTestWaitersKeeps ==
    ASSUME IInv, NEW w \in Workers, RunTestWaiters(w)
    PROVE  IInv'
  <1>0. TypeOK /\ Frames
    BY DEF IInv
  <1>1. stack[w] # <<>> /\ Top(w).kind = "run" /\ Top(w).pc = "test"
    BY DEF RunTestWaiters, At
  <1>2. /\ pending' \subseteq pending /\ Kept(w)
        /\ UNCHANGED <<queues, waiters, lock, shutdown, tasks, threads, main>>
    BY DEF RunTestWaiters, sleepers, Kept
  <1>3. Advance(w) \/ Go(w, "wake")
    BY DEF RunTestWaiters
  <1>4. /\ stack' \in [Workers -> Seq(FrameSet)] /\ Others(w) /\ Frames'
        /\ stack'[w] # <<>> /\ Top(w)'.kind = "run"
        /\ SameRuns /\ SameWaits /\ SameFlushes
    <2>1. CASE Advance(w)
      BY <1>0, <1>1, <2>1, AdvanceKeeps
    <2>2. CASE Go(w, "wake")
      BY <1>0, <1>1, <2>2, GoKeeps DEF RunPcs
    <2> QED BY <1>3, <2>1, <2>2
  <1>5. Busy(w)'
    BY <1>4 DEF Busy
  <1> QED BY <1>1, <1>2, <1>4, <1>5, RunOn

\* RunWait preserves the invariant.
LEMMA RunWaitKeeps ==
    ASSUME IInv, NEW w \in Workers, RunWait(w)
    PROVE  IInv'
  <1>0. TypeOK /\ Frames
    BY DEF IInv
  <1>1. stack[w] # <<>> /\ Top(w).kind = "run" /\ Top(w).pc = "op" /\ Top(w).ip <= Len(Script[Top(w).task])
    BY DEF RunWait, HasOp, At
  <1>2. UNCHANGED <<queues, waiters, lock, shutdown, tasks, threads, main>>
    BY DEF RunWait
  <1>3. CASE Advance(w) /\ pending' = pending
    <2>1. /\ stack' \in [Workers -> Seq(FrameSet)] /\ Others(w) /\ Frames'
          /\ stack'[w] # <<>> /\ Top(w)'.kind = "run"
          /\ SameRuns /\ SameWaits /\ SameFlushes
      BY <1>0, <1>1, <1>3, AdvanceKeeps
    <2>2. Busy(w)' /\ Kept(w) /\ pending' \subseteq pending
      BY <1>3, <2>1 DEF Busy, Kept
    <2> QED BY <1>1, <1>2, <2>1, <2>2, RunOn
  <1>4. CASE /\ stack' = [stack EXCEPT ![w] = Append(@, Frame("loop", NextOp(w).task))]
             /\ Clear(<<w, Depth(w) + 1>>)
    <2>0. PICK d \in Nat : d = Depth(w) /\ d \in 1..d /\ GoodFrame(Top(w), d, TRUE)
      BY <1>0, <1>1, TopFrame
    <2>1. PICK g : g = Frame("loop", NextOp(w).task)
      OBVIOUS
    <2>2. NextOp(w).task \in Tasks /\ NextOp(w).task # None
      BY <1>0, <1>1, OpTyped, PoolAssumption
    <2>3. /\ g \in FrameSet /\ g.kind = "loop" /\ g.task # None /\ g.pc = "check"
          /\ g.added = FALSE /\ g.fin = FALSE /\ g.ip = 1
      BY <2>1, <2>2 DEF Frame, FrameSet
    <2>4. stack' = [stack EXCEPT ![w] = Append(stack[w], g)]
      BY <1>0, <1>4, <2>1 DEF TypeOK
    <2>5. Enters(w, Top(w), g)
      BY <1>0, <2>3, <2>4, AppendEnters
    <2>6. GoodFrame(g, d + 1, TRUE)
      <3>1. (d % 2) = 0
        BY <1>1, <2>0, Parity DEF GoodFrame
      <3>2. ((d + 1) % 2) = 1 /\ d + 1 # 1
        BY <2>0, <3>1, Parity
      <3> QED BY <2>3, <3>2 DEF GoodFrame, LoopPcs
    <2>7. GoodFrame(Top(w), d, FALSE)
      BY <1>1, <2>0 DEF GoodFrame
    <2>8. Frames' /\ Entered(w, g) /\ SameFlushes /\ SameWaits
      <3>1. GoodFrame(g, Depth(w) + 1, TRUE) /\ ~ g.added /\ GoodFrame(Top(w), Depth(w), FALSE)
        BY <2>0, <2>3, <2>6, <2>7
      <3> QED BY <1>0, <2>5, <3>1, EnterKeeps
    <2>9. stack'[w] # <<>> /\ Top(w)' = g /\ SameRuns
      BY <2>3, <2>8 DEF Entered, SameRuns
    <2>10. stack' \in [Workers -> Seq(FrameSet)] /\ Others(w)
      BY <2>5 DEF Enters, Others
    <2>11. Busy(w)'
      BY <2>3, <2>9 DEF Busy
    <2>12. pending' \subseteq pending /\ Kept(w)
      <3>1. pending' = {p \in pending : p[1] # <<w, Depth(w) + 1>>}
        BY <1>4 DEF Clear
      <3>2. \A v \in Workers : v # w => Event(v) # <<w, Depth(w) + 1>>
        BY DEF Event
      <3> QED BY <3>1, <3>2 DEF Kept
    <2> QED BY <1>1, <1>2, <2>8, <2>9, <2>10, <2>11, <2>12, RunOn
  <1> QED BY <1>3, <1>4 DEF RunWait


\* RunSpawn preserves the invariant.
LEMMA RunSpawnKeeps ==
    ASSUME IInv, NEW w \in Workers, RunSpawn(w)
    PROVE  IInv'
  <1>0. TypeOK /\ Frames /\ Queued /\ Running /\ Signals /\ Sleepers /\ Work /\ Starts /\ Ends
    BY DEF IInv
  <1>1. stack[w] # <<>> /\ Top(w).kind = "run" /\ Top(w).pc = "op" /\ Top(w).ip <= Len(Script[Top(w).task])
    BY DEF RunSpawn, HasOp, At
  <1>2. /\ public' = public /\ conts' = conts /\ waiters' = waiters /\ lock' = lock
        /\ pending' = pending /\ shutdown' = shutdown
        /\ range' = range /\ handle' = handle /\ mpc' = mpc /\ mip' = mip
    BY DEF RunSpawn, sleepers, threads, main
  <1>3. PICK t \in Tasks : t = NextOp(w).task
    BY <1>0, <1>1, OpTyped
  <1>4. /\ tstate[t] = "new" /\ tstate' = [tstate EXCEPT ![t] = "queued"] /\ Go(w, "test")
    BY <1>3 DEF RunSpawn
  <1>5. deque \in [Workers -> Seq(Tasks)] /\ deque[w] \in Seq(Tasks)
    BY <1>0 DEF TypeOK
  <1>6. PICK r : r = Append(deque[w], t)
    OBVIOUS
  <1>7. deque' = [deque EXCEPT ![w] = r]
    BY <1>3, <1>5, <1>6 DEF RunSpawn
  <1>8. /\ r \in Seq(Tasks) /\ \A y : Holds(r, y) <=> Holds(deque[w], y) \/ y = t
        /\ NoRepeat(deque[w]) /\ ~ Holds(deque[w], t) => NoRepeat(r)
    BY <1>5, <1>6, AppendHolds, AppendProperties
  <1>9. deque' \in [Workers -> Seq(Tasks)] /\ \A v \in Workers : deque'[v] = IF v = w THEN r ELSE deque[v]
    BY <1>5, <1>7, <1>8
  <1>10. \A u \in Tasks : tstate'[u] = IF u = t THEN "queued" ELSE tstate[u]
    BY <1>0, <1>4 DEF TypeOK
  <1>11. ~ Holds(public, t) /\ \A v \in Workers : ~ Holds(deque[v], t)
    BY <1>0, <1>4 DEF Queued
  <1>12. \A v \in Workers : \A y : Holds(deque'[v], y) <=> Holds(deque[v], y) \/ (v = w /\ y = t)
    BY <1>8, <1>9
  <1>13. Queued'
    <2>1. \A v \in Workers : NoRepeat(deque'[v])
      BY <1>0, <1>8, <1>9, <1>11 DEF Queued
    <2>2. \A u \in Tasks, v, x \in Workers : Holds(deque'[v], u) /\ Holds(deque'[x], u) => v = x
      BY <1>0, <1>11, <1>12 DEF Queued
    <2>3. \A u \in Tasks, v \in Workers : ~ (Holds(deque'[v], u) /\ Holds(public', u))
      BY <1>0, <1>2, <1>11, <1>12 DEF Queued
    <2>4. \A u \in Tasks : tstate'[u] = "queued" <=>
              Holds(public', u) \/ \E v \in Workers : Holds(deque'[v], u)
      BY <1>0, <1>2, <1>10, <1>12 DEF Queued
    <2>5. NoRepeat(public')
      BY <1>0, <1>2 DEF Queued
    <2> QED BY <2>1, <2>2, <2>3, <2>4, <2>5 DEF Queued
  <1>14. /\ stack' \in [Workers -> Seq(FrameSet)] /\ Others(w) /\ Frames'
         /\ stack'[w] # <<>> /\ Top(w)'.kind = "run"
         /\ SameRuns /\ SameWaits /\ SameFlushes
    BY <1>0, <1>1, <1>4, GoKeeps DEF RunPcs
  <1>15. TypeOK'
    <2>1. tstate' \in [Tasks -> {"new", "queued", "running", "finished", "flushed"}]
      BY <1>0, <1>4 DEF TypeOK
    <2> QED BY <1>0, <1>2, <1>9, <1>14, <2>1 DEF TypeOK
  <1>16. Running'
    BY <1>0, <1>4, <1>10, <1>14, RunningStays
  <1>17. Signals'
    <2>1. \A u : ~ Told(w, u)'
      BY <1>14 DEF Told, At
    <2>2. \A v \in Workers, u \in Tasks :
              Told(v, u)' => Told(v, u) /\ Depth(v)' = Depth(v) /\ LoopWaits(v, Depth(v), u)'
      BY <1>0, <1>14, <2>1, ToldElsewhere
    <2>3. \A u : MainWaits(Main, 1, u) => MainWaits(Main, 1, u)'
      BY <1>2 DEF MainWaits, MainTask
    <2>4. <<MainEvent, "available">> \notin pending' /\ \A u \in Tasks : Ready(u) => Ready(u)'
      BY <1>0, <1>2, <1>4, <1>10 DEF Signals, Ready
    <2>5. WaitsEnd
      BY <1>14 DEF SameWaits, WaitsEnd
    <2> QED BY <1>0, <1>2, <2>2, <2>3, <2>4, <2>5, SignalsStays
  <1>18. Sleepers' /\ Work' /\ Starts' /\ Ends'
    <2>1. ~ Sleeping(w) /\ ~ At(w, "loop", "append") /\ ~ Sleeping(w)' /\ ~ At(w, "loop", "append")'
      BY <1>1, <1>14 DEF Sleeping, At
    <2>2. Busy(w)' /\ Kept(w)
      BY <1>2, <1>14 DEF Busy, Kept
    <2>3. \A v \in Workers : deque'[v] # <<>> => v = w \/ deque[v] # <<>>
      BY <1>9
    <2> QED BY <1>0, <1>1, <1>2, <1>14, <2>1, <2>2, <2>3, AwakeStep
  <1> QED BY <1>13, <1>14, <1>15, <1>16, <1>17, <1>18 DEF IInv

\* What waking a sleeper does to the list and to the events.
Wakes ==
    /\ waiters' \in Seq(Events) /\ Len(waiters') <= NumThreads
    /\ pending' \subseteq Events \X {"finished", "available"} /\ pending \subseteq pending'
    /\ \A e : <<e, "finished">> \in pending' => <<e, "finished">> \in pending
    /\ <<MainEvent, "available">> \in pending' => <<MainEvent, "available">> \in pending
    /\ NoRepeat(waiters') /\ \A y : Holds(waiters', y) => Holds(waiters, y)
    /\ \A y : Holds(waiters, y) => Holds(waiters', y) \/ <<y, "available">> \in pending'

\* Waking one sleeper takes it off the list and signals its event.
LEMMA WakeOneWakes ==
    ASSUME TypeOK, Sleepers, WakeOne
    PROVE  Wakes /\ (waiters # <<>> => \E v \in Workers : <<Event(v), "available">> \in pending')
  <1>1. /\ waiters \in Seq(Events) /\ Len(waiters) <= NumThreads /\ NoRepeat(waiters)
        /\ pending \subseteq Events \X {"finished", "available"}
    BY DEF TypeOK, Sleepers
  <1>2. CASE waiters = <<>>
    <2>1. waiters' = waiters /\ pending' = pending
      BY <1>2 DEF WakeOne
    <2> QED BY <1>1, <1>2, <2>1 DEF Wakes
  <1>3. CASE waiters # <<>>
    <2>1. PICK e, r : e = waiters[Len(waiters)] /\ r = SubSeq(waiters, 1, Len(waiters) - 1)
      OBVIOUS
    <2>2. waiters' = r /\ pending' = pending \union {<<e, "available">>}
      BY <1>3, <2>1 DEF WakeOne, Signal
    <2>3. /\ r \in Seq(Events) /\ e \in Events /\ Holds(waiters, e) /\ Len(r) = Len(waiters) - 1
          /\ \A y : Holds(waiters, y) <=> Holds(r, y) \/ y = e
          /\ NoRepeat(waiters) => NoRepeat(r)
      BY <1>1, <1>3, <2>1, FrontHolds
    <2>4. Len(r) <= NumThreads
      <3>1. Len(waiters) \in Nat /\ NumThreads \in Nat
        BY <1>1, LenProperties, WorkerIds
      <3> QED BY <1>1, <2>3, <3>1
    <2>5. PICK v \in Threads, i \in 1..MaxDepth : e = <<v, i>>
      BY <2>3 DEF Events
    <2>6. v \in Workers /\ e = Event(v)
      <3>1. i \in Nat
        OBVIOUS
      <3>2. v \in Workers /\ i = Depth(v)
        BY <2>3, <2>5, <3>1 DEF Sleepers
      <3> QED BY <2>5, <3>2 DEF Event
    <2>7. e # MainEvent
      BY <2>6, WorkerIds DEF MainEvent, Event
    <2>8. <<e, "available">> \in Events \X {"finished", "available"}
      BY <2>3
    <2>9. \A x : <<x, "finished">> # <<e, "available">>
      OBVIOUS
    <2>10. Wakes
      BY <1>1, <2>2, <2>3, <2>4, <2>7, <2>8, <2>9 DEF Wakes
    <2> QED BY <2>2, <2>6, <2>10
  <1> QED BY <1>2, <1>3

\* Sleepers stays when those that leave the list have a signal.
LEMMA SleepersWoken ==
    ASSUME Sleepers, Wakes,
           \A v \in Workers : Sleeping(v) => Sleeping(v)' /\ Depth(v)' = Depth(v),
           \A v \in Workers : Asleep(v)' => Asleep(v) /\ Event(v)' = Event(v)
    PROVE  Sleepers'
  <1>1. NoRepeat(waiters')
    BY DEF Wakes
  <1>2. \A v \in Threads, i \in Nat : Holds(waiters', <<v, i>>) =>
            v \in Workers /\ i = Depth(v)' /\ Sleeping(v)'
    BY DEF Wakes, Sleepers
  <1>3. \A v \in Workers : Asleep(v)' => Holds(waiters', Event(v)')
    <2> SUFFICES ASSUME NEW v \in Workers, Asleep(v)' PROVE Holds(waiters', Event(v)')
      OBVIOUS
    <2>1. Event(v)' = Event(v) /\ Holds(waiters, Event(v))
      BY DEF Sleepers
    <2>2. <<Event(v), "available">> \notin pending'
      <3>1. Mask(Event(v))' = {}
        BY DEF Asleep
      <3> QED BY <2>1, <3>1 DEF Mask
    <2> QED BY <2>1, <2>2 DEF Wakes
  <1> QED BY <1>1, <1>2, <1>3 DEF Sleepers

\* RunWake preserves the invariant.
LEMMA RunWakeKeeps ==
    ASSUME IInv, NEW w \in Workers, RunWake(w)
    PROVE  IInv'
  <1>0. TypeOK /\ Frames /\ Queued /\ Running /\ Signals /\ Sleepers /\ Work /\ Starts /\ Ends
    BY DEF IInv
  <1>1. stack[w] # <<>> /\ Top(w).kind = "run" /\ Top(w).pc = "wake" /\ Advance(w)
    BY DEF RunWake, At
  <1>2. /\ deque' = deque /\ public' = public /\ tstate' = tstate /\ conts' = conts
        /\ lock' = lock /\ shutdown' = shutdown
        /\ range' = range /\ handle' = handle /\ mpc' = mpc /\ mip' = mip
    BY DEF RunWake, queues, tasks, threads, main
  <1>3. Wakes
    BY <1>0, WakeOneWakes DEF RunWake
  <1>4. /\ stack' \in [Workers -> Seq(FrameSet)] /\ Others(w) /\ Frames'
        /\ stack'[w] # <<>> /\ Top(w)'.kind = "run"
        /\ SameRuns /\ SameWaits /\ SameFlushes
    BY <1>0, <1>1, AdvanceKeeps
  <1>5. TypeOK'
    BY <1>0, <1>2, <1>3, <1>4 DEF TypeOK, Wakes
  <1>6. Queued' /\ Running'
    BY <1>0, <1>2, <1>4, QueuedStays, RunningStays DEF queues
  <1>7. Signals'
    <2>1. \A u : ~ Told(w, u)'
      BY <1>4 DEF Told, At
    <2>2. \A v \in Workers, u \in Tasks :
              Told(v, u)' => Told(v, u) /\ Depth(v)' = Depth(v) /\ LoopWaits(v, Depth(v), u)'
      BY <1>0, <1>4, <2>1, ToldElsewhere
    <2>3. \A u : MainWaits(Main, 1, u) => MainWaits(Main, 1, u)'
      BY <1>2 DEF MainWaits, MainTask
    <2>4. <<MainEvent, "available">> \notin pending' /\ \A u \in Tasks : Ready(u) => Ready(u)'
      BY <1>0, <1>2, <1>3 DEF Signals, Ready, Wakes
    <2>5. WaitsEnd
      BY <1>4 DEF SameWaits, WaitsEnd
    <2>6. \A e : <<e, "finished">> \in pending' => <<e, "finished">> \in pending
      BY <1>3 DEF Wakes
    <2> QED BY <1>0, <1>2, <2>2, <2>3, <2>4, <2>5, <2>6, SignalsStays
  <1>8. Kept(w)
    BY <1>3 DEF Wakes, Kept
  <1>9. ~ Sleeping(w) /\ ~ Asleep(w)' /\ ~ At(w, "loop", "append") /\ ~ At(w, "loop", "append")'
    BY <1>1, <1>4 DEF Sleeping, Asleep, At
  <1>10. Sleepers'
    <2>1. \A v \in Workers : Sleeping(v) => Sleeping(v)' /\ Depth(v)' = Depth(v)
      BY <1>4, <1>9, Elsewhere
    <2>2. \A v \in Workers : Asleep(v)' => Asleep(v) /\ Event(v)' = Event(v)
      BY <1>4, <1>8, <1>9, Elsewhere DEF Kept
    <2> QED BY <1>0, <1>3, <2>1, <2>2, SleepersWoken
  <1>11. Work'
    <2>1. \A v \in Workers : lock' = v <=> At(v, "loop", "append")'
      BY <1>0, <1>2, <1>4, <1>9, Elsewhere DEF Work
    <2>2. Busy(w)'
      BY <1>4 DEF Busy
    <2>3. \A v \in Workers : deque'[v] # <<>> => Busy(v)'
      BY <1>0, <1>2, <1>4, <2>2, Elsewhere DEF Work
    <2>4. lock' # Free => public' = <<>>
      BY <1>0, <1>2 DEF Work
    <2> QED BY <1>9, <2>1, <2>3, <2>4 DEF Work
  <1>12. Starts'
    BY <1>0, <1>1, <1>2, <1>4, StartsStays DEF Others
  <1>13. Ends'
    <2>1. ~ Exited(w) /\ ~ Exited(w)'
      BY <1>1, <1>4 DEF Exited
    <2>2. \A v \in Workers : Exited(v)' <=> Exited(v)
      BY <1>2, <1>4, <2>1, Elsewhere
    <2> QED BY <1>0, <1>2, <2>2, EndsStays
  <1> QED BY <1>4, <1>5, <1>6, <1>7, <1>10, <1>11, <1>12, <1>13 DEF IInv


\* RunFinish preserves the invariant.
LEMMA RunFinishKeeps ==
    ASSUME IInv, NEW w \in Workers, RunFinish(w)
    PROVE  IInv'
  <1>0. TypeOK /\ Frames /\ Queued /\ Running /\ Signals /\ Sleepers /\ Work /\ Starts /\ Ends
    BY DEF IInv
  <1>1. stack[w] # <<>> /\ Top(w).kind = "run" /\ Top(w).pc = "op" /\ Go(w, "flush")
    BY DEF RunFinish, At
  <1>2. /\ deque' = deque /\ public' = public /\ conts' = conts /\ waiters' = waiters /\ lock' = lock
        /\ pending' = pending /\ shutdown' = shutdown
        /\ range' = range /\ handle' = handle /\ mpc' = mpc /\ mip' = mip
    BY DEF RunFinish, queues, sleepers, threads, main
  <1>3. PICK t \in Tasks, d \in Nat : t = Top(w).task /\ d = Depth(w) /\ d \in 1..d
    BY <1>0, <1>1, OpTyped, TopFrame
  <1>4. Runs(w, d, t) /\ ~ Flushes(w, d)
    BY <1>1, <1>3 DEF Runs, Flushes, Top
  <1>5. tstate[t] = "running" /\ tstate' = [tstate EXCEPT ![t] = "finished"]
    BY <1>0, <1>3, <1>4 DEF Running, RunFinish
  <1>6. \A u \in Tasks : tstate'[u] = IF u = t THEN "finished" ELSE tstate[u]
    BY <1>0, <1>5 DEF TypeOK
  <1>7. /\ stack' \in [Workers -> Seq(FrameSet)] /\ Others(w) /\ Frames'
        /\ \A v \in Workers : Depth(v)' = Depth(v) /\ (stack'[v] = <<>> <=> stack[v] = <<>>)
        /\ Top(w)'.kind = "run" /\ Top(w)'.pc = "flush"
        /\ SameRuns /\ SameWaits
    BY <1>0, <1>1, GoKeeps DEF RunPcs
  <1>8. \A v \in Workers : \A i \in 1..Depth(v) :
            Flushes(v, i)' <=> Flushes(v, i) \/ (v = w /\ i = d)
    <2>1. PICK f : f = [Top(w) EXCEPT !.pc = "flush"]
      OBVIOUS
    <2>2. Top(w) \in FrameSet
      BY <1>0, <1>1, TopFrame
    <2>3. f \in FrameSet /\ f.pc = "flush"
      BY <2>1, <2>2 DEF FrameSet
    <2>4. Replaces(w, f)
      BY <1>0, <1>1, <2>1, <2>3, SetReplaces DEF Go
    <2>5. \A i \in 1..d : stack'[w][i] = IF i = d THEN f ELSE stack[w][i]
      BY <1>3, <2>4 DEF Replaces
    <2>6. \A i \in 1..d : Flushes(w, i)' <=> Flushes(w, i) \/ i = d
      BY <2>3, <2>5 DEF Flushes
    <2>7. \A v \in Workers : v # w => \A i : Flushes(v, i)' <=> Flushes(v, i)
      BY <1>7 DEF Others, Flushes
    <2> QED BY <1>3, <2>6, <2>7
  <1>9. Running'
    <2>1. \A v \in Workers, i \in Nat, u \in Tasks : Runs(v, i, u)' <=> Runs(v, i, u)
      BY <1>7 DEF SameRuns
    <2>2. \A u \in Tasks : tstate'[u] \in {"running", "finished"} =>
              \E v \in Workers, i \in Nat : Runs(v, i, u)'
      <3> SUFFICES ASSUME NEW u \in Tasks, tstate'[u] \in {"running", "finished"}
                   PROVE  \E v \in Workers, i \in Nat : Runs(v, i, u)
        BY <2>1
      <3>1. tstate[u] \in {"running", "finished"}
        BY <1>5, <1>6
      <3> QED BY <1>0, <3>1 DEF Running
    <2>3. \A v \in Workers, i \in Nat, u \in Tasks : Runs(v, i, u)' =>
              tstate'[u] = IF Flushes(v, i)' THEN "finished" ELSE "running"
      <3> SUFFICES ASSUME NEW v \in Workers, NEW i \in Nat, NEW u \in Tasks, Runs(v, i, u)
                   PROVE  tstate'[u] = IF Flushes(v, i)' THEN "finished" ELSE "running"
        BY <2>1
      <3>1. i \in 1..Depth(v)
        BY DEF Runs
      <3>2. CASE u = t
        <4>1. v = w /\ i = d
          BY <1>0, <1>4, <3>2 DEF Running
        <4> QED BY <1>6, <1>8, <3>1, <3>2, <4>1
      <3>3. CASE u # t
        <4>1. ~ (v = w /\ i = d)
          BY <1>3, <3>3 DEF Runs, Top
        <4>2. tstate[u] = IF Flushes(v, i) THEN "finished" ELSE "running"
          BY <1>0 DEF Running
        <4> QED BY <1>6, <1>8, <3>1, <3>3, <4>1, <4>2
      <3> QED BY <3>2, <3>3
    <2>4. \A v, x \in Workers, i, j \in Nat, u \in Tasks :
             Runs(v, i, u)' /\ Runs(x, j, u)' => v = x /\ i = j
      BY <1>0, <2>1 DEF Running
    <2> QED BY <2>2, <2>3, <2>4 DEF Running
  <1>10. TypeOK'
    <2>1. tstate' \in [Tasks -> {"new", "queued", "running", "finished", "flushed"}]
      BY <1>0, <1>5 DEF TypeOK
    <2> QED BY <1>0, <1>2, <1>7, <2>1 DEF TypeOK
  <1>11. Queued'
    <2>1. \A u \in Tasks : tstate'[u] = "queued" <=> tstate[u] = "queued"
      BY <1>5, <1>6
    <2> QED BY <1>0, <1>2, <2>1, QueuedStays DEF queues
  <1>12. Signals'
    <2>1. \A u : ~ Told(w, u)'
      BY <1>7 DEF Told, At
    <2>2. \A v \in Workers, u \in Tasks :
              Told(v, u)' => Told(v, u) /\ Depth(v)' = Depth(v) /\ LoopWaits(v, Depth(v), u)'
      BY <1>0, <1>7, <2>1, ToldElsewhere
    <2>3. \A u : MainWaits(Main, 1, u) => MainWaits(Main, 1, u)'
      BY <1>2 DEF MainWaits, MainTask
    <2>4. <<MainEvent, "available">> \notin pending' /\ \A u \in Tasks : Ready(u) => Ready(u)'
      BY <1>0, <1>2, <1>6 DEF Signals, Ready
    <2>5. WaitsEnd
      BY <1>7 DEF SameWaits, WaitsEnd
    <2> QED BY <1>0, <1>2, <2>2, <2>3, <2>4, <2>5, SignalsStays
  <1>13. Sleepers' /\ Work' /\ Starts' /\ Ends'
    <2>1. ~ Sleeping(w) /\ ~ At(w, "loop", "append") /\ ~ Sleeping(w)' /\ ~ At(w, "loop", "append")'
      BY <1>1, <1>7 DEF Sleeping, At
    <2>2. Busy(w)' /\ Kept(w) /\ stack'[w] # <<>>
      BY <1>1, <1>2, <1>7 DEF Busy, Kept
    <2> QED BY <1>0, <1>1, <1>2, <1>7, <2>1, <2>2, AwakeStep
  <1> QED BY <1>7, <1>9, <1>10, <1>11, <1>12, <1>13 DEF IInv

\* RunReturn preserves the invariant.
LEMMA RunReturnKeeps ==
    ASSUME IInv, NEW w \in Workers, RunReturn(w)
    PROVE  IInv'
  <1>0. TypeOK /\ Frames /\ Queued /\ Running /\ Signals /\ Sleepers /\ Work /\ Starts /\ Ends
    BY DEF IInv
  <1>1. stack[w] # <<>> /\ Top(w).kind = "run" /\ Top(w).pc = "flush"
    BY DEF RunReturn, At
  <1>2. /\ deque' = deque /\ public' = public /\ conts' = conts /\ waiters' = waiters /\ lock' = lock
        /\ pending' = pending /\ shutdown' = shutdown
        /\ range' = range /\ handle' = handle /\ mpc' = mpc /\ mip' = mip
    BY DEF RunReturn, queues, sleepers, threads, main
  <1>3. PICK t \in Tasks, d \in Nat : t = Top(w).task /\ d = Depth(w) /\ d \in 1..d
    BY <1>0, <1>1, OpTyped, TopFrame
  <1>4. Runs(w, d, t) /\ Flushes(w, d)
    BY <1>1, <1>3 DEF Runs, Flushes, Top
  <1>5. tstate[t] = "finished" /\ tstate' = [tstate EXCEPT ![t] = "flushed"]
    BY <1>0, <1>3, <1>4 DEF Running, RunReturn
  <1>6. \A u \in Tasks : tstate'[u] = IF u = t THEN "flushed" ELSE tstate[u]
    BY <1>0, <1>5 DEF TypeOK
  <1>7. Leaves(w, 0)
    <2>1. stack' = [stack EXCEPT ![w] = SubSeq(stack[w], 1, Len(stack[w]) - 1)]
      BY <1>0 DEF RunReturn, TypeOK
    <2> QED BY <1>0, <1>1, <2>1, PopLeaves
  <1>8. stack' \in [Workers -> Seq(FrameSet)] /\ Others(w)
    BY <1>7 DEF Leaves, Others
  <1>9. /\ Frames'
        /\ (stack'[w] = <<>> <=> Depth(w) = 1)
        /\ stack'[w] # <<>> =>
              IF Top(w).kind = "loop" THEN Top(w)'.kind = "run" /\ Top(w)'.pc = "op"
              ELSE Top(w)'.kind = "loop" /\ Top(w)'.pc = "check"
        /\ \A v, i, u : v \in Workers =>
              (Runs(v, i, u)' <=> Runs(v, i, u) /\ ~ (v = w /\ i = Depth(w)))
        /\ SameFlushes
        /\ \A v, i, u : LoopWaits(v, i, u)' <=> LoopWaits(v, i, u) /\ ~ (v = w /\ i = Depth(w))
    BY <1>0, <1>1, <1>7, LeaveKeeps
  <1>10. stack'[w] # <<>> /\ Top(w)'.kind = "loop" /\ Top(w)'.pc = "check"
    <2>1. GoodFrame(Top(w), Depth(w), TRUE)
      BY <1>0, <1>1, TopFrame
    <2>2. t # None
      BY PoolAssumption
    <2>3. Depth(w) # 1
      BY <1>3, <2>1, <2>2 DEF GoodFrame
    <2> QED BY <1>1, <1>9, <2>3
  <1>11. SameWaits
    <2> SUFFICES ASSUME NEW v, NEW i, NEW u PROVE LoopWaits(v, i, u)' <=> LoopWaits(v, i, u)
      BY DEF SameWaits
    <2>1. v = w /\ i = Depth(w) => ~ LoopWaits(v, i, u)
      BY <1>1 DEF LoopWaits, Top
    <2> QED BY <1>9, <2>1
  <1>12. Running'
    <2>1. \A v \in Workers, i \in Nat, u \in Tasks : Runs(v, i, u)' <=> Runs(v, i, u) /\ u # t
      <3> SUFFICES ASSUME NEW v \in Workers, NEW i \in Nat, NEW u \in Tasks
                   PROVE  Runs(v, i, u)' <=> Runs(v, i, u) /\ u # t
        OBVIOUS
      <3>1. Runs(v, i, u)' <=> Runs(v, i, u) /\ ~ (v = w /\ i = d)
        BY <1>3, <1>9
      <3>2. Runs(v, i, u) /\ v = w /\ i = d => u = t
        BY <1>4 DEF Runs
      <3>3. Runs(v, i, u) /\ u = t => v = w /\ i = d
        BY <1>0, <1>4 DEF Running
      <3> QED BY <3>1, <3>2, <3>3
    <2>2. \A u \in Tasks : tstate'[u] \in {"running", "finished"} =>
              \E v \in Workers, i \in Nat : Runs(v, i, u)'
      BY <1>0, <1>6, <2>1 DEF Running
    <2>3. \A v \in Workers, i \in Nat, u \in Tasks : Runs(v, i, u)' =>
              tstate'[u] = IF Flushes(v, i)' THEN "finished" ELSE "running"
      <3> SUFFICES ASSUME NEW v \in Workers, NEW i \in Nat, NEW u \in Tasks, Runs(v, i, u)'
                   PROVE  tstate'[u] = IF Flushes(v, i)' THEN "finished" ELSE "running"
        OBVIOUS
      <3>1. Runs(v, i, u) /\ u # t
        BY <2>1
      <3>2. i \in 1..Depth(v) /\ i \in 1..Depth(v)'
        BY <3>1 DEF Runs
      <3>3. Flushes(v, i)' <=> Flushes(v, i)
        BY <1>9, <3>2 DEF SameFlushes
      <3>4. tstate[u] = IF Flushes(v, i) THEN "finished" ELSE "running"
        BY <1>0, <3>1 DEF Running
      <3> QED BY <1>6, <3>1, <3>3, <3>4
    <2>4. \A v, x \in Workers, i, j \in Nat, u \in Tasks :
             Runs(v, i, u)' /\ Runs(x, j, u)' => v = x /\ i = j
      BY <1>0, <2>1 DEF Running
    <2> QED BY <2>2, <2>3, <2>4 DEF Running
  <1>13. TypeOK'
    <2>1. tstate' \in [Tasks -> {"new", "queued", "running", "finished", "flushed"}]
      BY <1>0, <1>5 DEF TypeOK
    <2> QED BY <1>0, <1>2, <1>8, <2>1 DEF TypeOK
  <1>14. Queued'
    <2>1. \A u \in Tasks : tstate'[u] = "queued" <=> tstate[u] = "queued"
      BY <1>5, <1>6
    <2> QED BY <1>0, <1>2, <2>1, QueuedStays DEF queues
  <1>15. Signals'
    <2>1. \A u : ~ Told(w, u)'
      BY <1>10 DEF Told, At
    <2>2. \A v \in Workers, u \in Tasks :
              Told(v, u)' => Told(v, u) /\ Depth(v)' = Depth(v) /\ LoopWaits(v, Depth(v), u)'
      BY <1>0, <1>8, <2>1, ToldElsewhere
    <2>3. \A u : MainWaits(Main, 1, u) => MainWaits(Main, 1, u)'
      BY <1>2 DEF MainWaits, MainTask
    <2>4. <<MainEvent, "available">> \notin pending' /\ \A u \in Tasks : Ready(u) => Ready(u)'
      BY <1>0, <1>2, <1>6 DEF Signals, Ready
    <2>5. WaitsEnd
      BY <1>11 DEF SameWaits, WaitsEnd
    <2> QED BY <1>0, <1>2, <2>2, <2>3, <2>4, <2>5, SignalsStays
  <1>16. Sleepers' /\ Work' /\ Starts' /\ Ends'
    <2>1. ~ Sleeping(w) /\ ~ At(w, "loop", "append") /\ ~ Sleeping(w)' /\ ~ At(w, "loop", "append")'
      BY <1>1, <1>10 DEF Sleeping, At
    <2>2. Busy(w)' /\ Kept(w)
      BY <1>2, <1>10 DEF Busy, Kept
    <2> QED BY <1>0, <1>1, <1>2, <1>8, <1>10, <2>1, <2>2, AwakeStep
  <1> QED BY <1>9, <1>12, <1>13, <1>14, <1>15, <1>16 DEF IInv

\* No signal of a worker is lost.
KeptAll == \A v \in Workers : \A k : <<Event(v), k>> \in pending => <<Event(v), k>> \in pending'

\* What is seen of the stacks stays the same when they do.
LEMMA SameStacks ==
    ASSUME stack' = stack
    PROVE  /\ \A v : Depth(v)' = Depth(v) /\ Top(v)' = Top(v) /\ Event(v)' = Event(v)
           /\ \A v, k, p : At(v, k, p)' <=> At(v, k, p)
           /\ \A v : (Sleeping(v)' <=> Sleeping(v)) /\ (Busy(v)' <=> Busy(v))
           /\ \A v, t : Told(v, t)' <=> Told(v, t)
           /\ SameRuns /\ SameFlushes /\ SameWaits /\ (Frames => Frames')
           /\ KeptAll => \A v \in Workers : Asleep(v)' => Asleep(v)
  <1>1. /\ \A v : Depth(v)' = Depth(v) /\ Top(v)' = Top(v) /\ Event(v)' = Event(v)
        /\ \A v, k, p : At(v, k, p)' <=> At(v, k, p)
    BY DEF Depth, Top, Event, At
  <1>2. /\ \A v : (Sleeping(v)' <=> Sleeping(v)) /\ (Busy(v)' <=> Busy(v))
        /\ \A v, t : Told(v, t)' <=> Told(v, t)
        /\ \A v, i, t : (Runs(v, i, t)' <=> Runs(v, i, t)) /\ (LoopWaits(v, i, t)' <=> LoopWaits(v, i, t))
    BY <1>1 DEF Sleeping, Busy, Told, Runs, LoopWaits
  <1>3. SameFlushes
    BY DEF SameFlushes, Flushes
  <1>4. Frames => Frames'
    BY <1>1 DEF Frames
  <1>5. KeptAll => \A v \in Workers : Asleep(v)' => Asleep(v)
    <2> SUFFICES ASSUME KeptAll, NEW v \in Workers, Asleep(v)' PROVE Asleep(v)
      OBVIOUS
    <2>1. At(v, "loop", "sleep")' /\ Mask(Event(v))' = {}
      BY DEF Asleep
    <2>2. \A k \in {"finished", "available"} : <<Event(v), k>> \notin pending
      BY <1>1, <2>1 DEF Mask, KeptAll
    <2> QED BY <1>1, <2>1, <2>2 DEF Asleep, Mask
  <1> QED BY <1>1, <1>2, <1>3, <1>4, <1>5 DEF SameRuns, SameWaits

\* RunFlush preserves the invariant.
LEMMA RunFlushKeeps ==
    ASSUME IInv, NEW w \in Workers, RunFlush(w)
    PROVE  IInv'
  <1>0. TypeOK /\ Frames /\ Queued /\ Running /\ Signals /\ Sleepers /\ Work /\ Starts /\ Ends
    BY DEF IInv
  <1>1. stack[w] # <<>> /\ Top(w).kind = "run" /\ Top(w).pc = "flush"
    BY DEF RunFlush, At
  <1>2. /\ stack' = stack /\ deque' = deque /\ public' = public /\ tstate' = tstate
        /\ waiters' = waiters /\ lock' = lock /\ shutdown' = shutdown
        /\ range' = range /\ handle' = handle /\ mpc' = mpc /\ mip' = mip
    BY DEF RunFlush, queues, threads, main
  <1>3. PICK t \in Tasks : t = Top(w).task /\ tstate[t] = "finished"
    <2>1. PICK t \in Tasks, d \in Nat : t = Top(w).task /\ d = Depth(w) /\ d \in 1..d
      BY <1>0, <1>1, OpTyped, TopFrame
    <2>2. Runs(w, d, t) /\ Flushes(w, d)
      BY <1>1, <2>1 DEF Runs, Flushes, Top
    <2> QED BY <1>0, <2>1, <2>2 DEF Running
  <1>4. PICK e \in conts[t] : /\ pending' = pending \union {<<e, "finished">>}
                              /\ conts' = [conts EXCEPT ![t] = @ \ {e}]
    BY <1>3 DEF RunFlush, Signal
  <1>5. /\ conts \in [Tasks -> SUBSET Events] /\ pending \subseteq Events \X {"finished", "available"}
    BY <1>0 DEF TypeOK
  <1>6. PICK x \in Threads, j \in Nat : e = <<x, j>>
    <2>1. PICK x \in Threads, j \in 1..MaxDepth : e = <<x, j>>
      BY <1>4, <1>5 DEF Events
    <2>2. j \in Nat
      OBVIOUS
    <2> QED BY <2>1, <2>2
  <1>7. /\ conts' \in [Tasks -> SUBSET Events] /\ pending' \subseteq Events \X {"finished", "available"}
        /\ pending \subseteq pending'
        /\ \A u \in Tasks : \A y : y \in conts'[u] <=> y \in conts[u] /\ ~ (u = t /\ y = e)
    <2>1. \A u \in Tasks : conts'[u] = IF u = t THEN conts[u] \ {e} ELSE conts[u]
      BY <1>4, <1>5
    <2>2. conts' \in [Tasks -> SUBSET Events]
      BY <1>4, <1>5
    <2>3. e \in Events
      BY <1>4, <1>5
    <2> QED BY <1>4, <1>5, <2>1, <2>2, <2>3
  <1>8. Waits(x, j, t)
    BY <1>0, <1>4, <1>6 DEF Signals
  <1>9. /\ \A v : Depth(v)' = Depth(v) /\ Event(v)' = Event(v)
        /\ \A v : (Sleeping(v)' <=> Sleeping(v)) /\ (Busy(v)' <=> Busy(v))
        /\ \A v, u : Told(v, u)' <=> Told(v, u)
        /\ \A v, k, p : At(v, k, p)' <=> At(v, k, p)
        /\ \A v \in Workers : Asleep(v)' => Asleep(v)
        /\ SameRuns /\ SameFlushes /\ SameWaits /\ Frames'
    BY <1>0, <1>2, <1>7, SameStacks DEF KeptAll
  <1>10. \A v, i, u : Waits(v, i, u)' <=> Waits(v, i, u)
    BY <1>2, <1>9 DEF SameWaits, Waits, MainWaits, MainTask
  <1>11. Signals'
    <2>1. \A v \in Threads, i \in Nat, u \in Tasks : <<v, i>> \in conts'[u] => Waits(v, i, u)'
      BY <1>0, <1>7, <1>10 DEF Signals
    <2>2. \A v \in Threads, i \in Nat : <<<<v, i>>, "finished">> \in pending' =>
              \E u \in Tasks : Waits(v, i, u)' /\ Ready(u)' /\ <<v, i>> \notin conts'[u]
      <3> SUFFICES ASSUME NEW v \in Threads, NEW i \in Nat, <<<<v, i>>, "finished">> \in pending'
                   PROVE  \E u \in Tasks : Waits(v, i, u)' /\ Ready(u)' /\ <<v, i>> \notin conts'[u]
        OBVIOUS
      <3>1. CASE <<v, i>> = e
        <4>1. v = x /\ i = j
          BY <1>6, <3>1
        <4>2. Waits(v, i, t)' /\ <<v, i>> \notin conts'[t]
          BY <1>7, <1>8, <1>10, <3>1, <4>1
        <4>3. Ready(t)'
          BY <1>2, <1>3 DEF Ready
        <4> QED BY <4>2, <4>3
      <3>2. CASE <<v, i>> # e
        <4>1. <<<<v, i>>, "finished">> \in pending
          BY <1>4, <3>2
        <4>2. PICK u \in Tasks : Waits(v, i, u) /\ Ready(u) /\ <<v, i>> \notin conts[u]
          BY <1>0, <4>1 DEF Signals
        <4>3. Waits(v, i, u)' /\ Ready(u)' /\ <<v, i>> \notin conts'[u]
          BY <1>2, <1>7, <1>10, <4>2 DEF Ready
        <4> QED BY <4>3
      <3> QED BY <3>1, <3>2
    <2>3. \A v \in Workers, u \in Tasks : Told(v, u)' =>
              /\ LoopWaits(v, Depth(v), u)' /\ Ready(u)' /\ Event(v)' \notin conts'[u]
              /\ <<Event(v)', "finished">> \notin pending'
      <3> SUFFICES ASSUME NEW v \in Workers, NEW u \in Tasks, Told(v, u)
                   PROVE  /\ LoopWaits(v, Depth(v), u)' /\ Ready(u)' /\ Event(v) \notin conts'[u]
                          /\ <<Event(v), "finished">> \notin pending'
        BY <1>9
      <3>1. /\ LoopWaits(v, Depth(v), u) /\ Ready(u) /\ Event(v) \notin conts[u]
            /\ <<Event(v), "finished">> \notin pending
        BY <1>0 DEF Signals
      <3>2. PICK n : n = Depth(v)
        OBVIOUS
      <3>3. LoopWaits(v, n, u)' /\ n = Depth(v)'
        BY <1>9, <3>1, <3>2 DEF SameWaits
      <3>4. LoopWaits(v, Depth(v), u)'
        BY <3>3
      <3>5. Event(v) # e
        <4> SUFFICES ASSUME Event(v) = e PROVE FALSE
          OBVIOUS
        <4>1. x = v /\ j = n
          BY <1>6, <3>2 DEF Event
        <4>2. LoopWaits(v, n, t)
          BY <1>8, <4>1, WorkerIds DEF Waits, MainWaits
        <4>3. u = t
          BY <3>1, <3>2, <4>2 DEF LoopWaits
        <4> QED BY <1>4, <3>1, <4>3
      <3>6. Ready(u)' /\ Event(v) \notin conts'[u] /\ <<Event(v), "finished">> \notin pending'
        BY <1>2, <1>4, <1>7, <3>1, <3>5 DEF Ready
      <3> QED BY <3>4, <3>6
    <2>4. <<MainEvent', "available">> \notin pending'
      BY <1>0, <1>4 DEF Signals, MainEvent
    <2> QED BY <2>1, <2>2, <2>3, <2>4 DEF Signals
  <1>12. TypeOK'
    BY <1>0, <1>2, <1>7 DEF TypeOK
  <1>13. Queued' /\ Running'
    BY <1>0, <1>2, <1>9, QueuedStays, RunningStays DEF queues
  <1>14. Sleepers'
    BY <1>0, <1>2, <1>9 DEF Sleepers
  <1>15. Work'
    BY <1>0, <1>2, <1>9 DEF Work
  <1>16. Starts'
    BY <1>0, <1>2, StartsStays
  <1>17. Ends'
    <2>1. \A v \in Workers : Exited(v)' <=> Exited(v)
      BY <1>2 DEF Exited
    <2> QED BY <1>0, <1>2, <2>1, EndsStays
  <1> QED BY <1>9, <1>11, <1>12, <1>13, <1>14, <1>15, <1>16, <1>17 DEF IInv



-----------------------------------------------------------------------------
(* Steps of the thread that owns the pool. *)

\* What none of its steps changes.
LEMMA MainLeaves ==
    ASSUME TypeOK, Frames, Starts, stack' = stack, range' = range, handle' = handle, KeptAll
    PROVE  /\ Frames' /\ Starts' /\ SameRuns /\ SameFlushes /\ SameWaits /\ WaitsEnd
           /\ \A v \in Workers :
                 /\ Depth(v)' = Depth(v) /\ Event(v)' = Event(v)
                 /\ (Sleeping(v)' <=> Sleeping(v)) /\ (Busy(v)' <=> Busy(v))
                 /\ (Asleep(v)' => Asleep(v)) /\ (Exited(v)' <=> Exited(v))
           /\ \A v \in Workers, t \in Tasks : Told(v, t)' <=> Told(v, t)
           /\ \A v, k, p : At(v, k, p)' <=> At(v, k, p)
  <1>1. /\ \A v : Depth(v)' = Depth(v) /\ Event(v)' = Event(v)
        /\ \A v, k, p : At(v, k, p)' <=> At(v, k, p)
        /\ \A v : (Sleeping(v)' <=> Sleeping(v)) /\ (Busy(v)' <=> Busy(v))
        /\ \A v, t : Told(v, t)' <=> Told(v, t)
        /\ SameRuns /\ SameFlushes /\ SameWaits /\ Frames'
        /\ \A v \in Workers : Asleep(v)' => Asleep(v)
    BY SameStacks
  <1>2. \A v \in Workers : Exited(v)' <=> Exited(v)
    BY DEF Exited
  <1>3. Starts'
    BY StartsStays
  <1>4. WaitsEnd
    BY <1>1 DEF SameWaits, WaitsEnd
  <1> QED BY <1>1, <1>2, <1>3, <1>4

\* A step of the owner tells no worker anything.
LEMMA MainTold ==
    ASSUME Signals, SameWaits, \A v \in Workers : Depth(v)' = Depth(v),
           \A v \in Workers, t \in Tasks : Told(v, t)' <=> Told(v, t)
    PROVE  \A v \in Workers, t \in Tasks :
              Told(v, t)' => Told(v, t) /\ Depth(v)' = Depth(v) /\ LoopWaits(v, Depth(v), t)'
  <1> SUFFICES ASSUME NEW v \in Workers, NEW t \in Tasks, Told(v, t)
               PROVE  LoopWaits(v, Depth(v), t)'
    OBVIOUS
  <1>1. LoopWaits(v, Depth(v), t)
    BY DEF Signals
  <1>2. PICK n : n = Depth(v) /\ n = Depth(v)'
    OBVIOUS
  <1>3. LoopWaits(v, n, t)'
    BY <1>1, <1>2 DEF SameWaits
  <1> QED BY <1>2, <1>3

\* Where the owner of the pool is in its script.
LEMMA MainOpTyped ==
    ASSUME TypeOK, Ends, mpc = "op", mip <= Len(MainScript)
    PROVE  /\ mip \in 1..Len(MainScript) /\ MainTask \in Tasks
           /\ ~ shutdown /\ \A v \in Workers : ~ Exited(v)
  <1>1. MainScript \in Seq(Ops) /\ Len(MainScript) \in Nat
    BY PoolAssumption, LenProperties
  <1>2. mip \in Nat /\ mip # 0
    BY DEF TypeOK, Ends
  <1>3. mip \in 1..Len(MainScript)
    BY <1>1, <1>2
  <1>4. MainScript[mip] \in Ops
    BY <1>1, <1>3, ElementOfSeq
  <1>5. MainTask \in Tasks
    BY <1>4 DEF MainTask, Ops
  <1> QED BY <1>3, <1>5 DEF Ends

\* While it does not wait, nobody has its event.
LEMMA MainUnsignalled ==
    ASSUME TypeOK, Signals, mpc # "sleep"
    PROVE  /\ \A k : <<MainEvent, k>> \notin pending
           /\ \A t \in Tasks : MainEvent \notin conts[t]
  <1>1. \A t : ~ Waits(Main, 1, t)
    BY WorkerIds DEF Waits, MainWaits, LoopWaits
  <1>2. Main \in Threads /\ 1 \in Nat
    BY WorkerIds
  <1>3. \A t \in Tasks : MainEvent \notin conts[t]
    BY <1>1, <1>2 DEF Signals, MainEvent
  <1>4. <<MainEvent, "finished">> \notin pending /\ <<MainEvent, "available">> \notin pending
    BY <1>1, <1>2 DEF Signals, MainEvent
  <1>5. \A k : <<MainEvent, k>> \in pending => k \in {"finished", "available"}
    BY DEF TypeOK
  <1> QED BY <1>3, <1>4, <1>5

\* MainSpawn preserves the invariant.
LEMMA MainSpawnKeeps ==
    ASSUME IInv, MainSpawn
    PROVE  IInv'
  <1>0. TypeOK /\ Frames /\ Queued /\ Running /\ Signals /\ Sleepers /\ Work /\ Starts /\ Ends
    BY DEF IInv
  <1>1. /\ stack' = stack /\ deque' = deque /\ conts' = conts /\ lock' = lock /\ shutdown' = shutdown
        /\ range' = range /\ handle' = handle /\ mpc' = mpc
        /\ mpc = "op" /\ mip <= Len(MainScript) /\ lock = Free /\ mip' = mip + 1 /\ WakeOne
    BY DEF MainSpawn, MainOp, threads
  <1>2. /\ mip \in 1..Len(MainScript) /\ MainTask \in Tasks
        /\ ~ shutdown /\ \A v \in Workers : ~ Exited(v)
    BY <1>0, <1>1, MainOpTyped
  <1>3. PICK t \in Tasks : t = MainTask
    BY <1>2
  <1>4. tstate[t] = "new" /\ tstate' = [tstate EXCEPT ![t] = "queued"] /\ public' = Append(public, t)
    BY <1>3 DEF MainSpawn
  <1>5. \A u \in Tasks : tstate'[u] = IF u = t THEN "queued" ELSE tstate[u]
    BY <1>0, <1>4 DEF TypeOK
  <1>6. /\ Wakes /\ (waiters # <<>> => \E v \in Workers : <<Event(v), "available">> \in pending')
    BY <1>0, <1>1, WakeOneWakes
  <1>7. KeptAll
    BY <1>6 DEF KeptAll, Wakes
  <1>8. /\ Frames' /\ Starts' /\ SameRuns /\ SameFlushes /\ SameWaits /\ WaitsEnd
        /\ \A v \in Workers :
              /\ Depth(v)' = Depth(v) /\ Event(v)' = Event(v)
              /\ (Sleeping(v)' <=> Sleeping(v)) /\ (Busy(v)' <=> Busy(v))
              /\ (Asleep(v)' => Asleep(v)) /\ (Exited(v)' <=> Exited(v))
        /\ \A v \in Workers, u \in Tasks : Told(v, u)' <=> Told(v, u)
        /\ \A v, k, p : At(v, k, p)' <=> At(v, k, p)
    BY <1>0, <1>1, <1>7, MainLeaves
  <1>9. /\ public' \in Seq(Tasks)
        /\ \A y : Holds(public', y) <=> Holds(public, y) \/ y = t
        /\ NoRepeat(public) /\ ~ Holds(public, t) => NoRepeat(public')
    BY <1>0, <1>4, AppendHolds, AppendProperties DEF TypeOK
  <1>10. TypeOK'
    <2>1. tstate' \in [Tasks -> {"new", "queued", "running", "finished", "flushed"}]
      BY <1>0, <1>4 DEF TypeOK
    <2>2. mip' \in Nat
      BY <1>0, <1>1 DEF TypeOK
    <2> QED BY <1>0, <1>1, <1>6, <1>9, <2>1, <2>2 DEF TypeOK, Wakes
  <1>11. Queued'
    <2>1. ~ Holds(public, t) /\ \A v \in Workers : ~ Holds(deque[v], t)
      BY <1>0, <1>4 DEF Queued
    <2>2. \A u \in Tasks : tstate'[u] = "queued" <=>
              Holds(public', u) \/ \E v \in Workers : Holds(deque'[v], u)
      BY <1>0, <1>1, <1>5, <1>9 DEF Queued
    <2>3. \A u \in Tasks, v \in Workers : ~ (Holds(deque'[v], u) /\ Holds(public', u))
      BY <1>0, <1>1, <1>9, <2>1 DEF Queued
    <2> QED BY <1>0, <1>1, <1>9, <2>1, <2>2, <2>3 DEF Queued
  <1>12. Running'
    BY <1>0, <1>4, <1>5, <1>8, RunningStays
  <1>13. Signals'
    <2>1. \A v \in Workers, u \in Tasks :
              Told(v, u)' => Told(v, u) /\ Depth(v)' = Depth(v) /\ LoopWaits(v, Depth(v), u)'
      BY <1>0, <1>8, MainTold
    <2>2. \A u : MainWaits(Main, 1, u) => MainWaits(Main, 1, u)'
      BY <1>1 DEF MainWaits
    <2>3. <<MainEvent, "available">> \notin pending' /\ \A u \in Tasks : Ready(u) => Ready(u)'
      BY <1>0, <1>4, <1>5, <1>6 DEF Signals, Ready, Wakes
    <2>4. \A e : <<e, "finished">> \in pending' => <<e, "finished">> \in pending
      BY <1>6 DEF Wakes
    <2> QED BY <1>0, <1>1, <1>8, <2>1, <2>2, <2>3, <2>4, SignalsStays
  <1>14. Sleepers'
    BY <1>0, <1>3, <1>6, <1>8, SleepersWoken
  <1>15. Work'
    <2>1. \E v \in Workers : ~ Asleep(v)'
      <3>1. CASE waiters = <<>>
        <4>1. 0 \in Workers
          BY PoolAssumption DEF Workers
        <4>2. ~ Holds(waiters, Event(0))
          BY <3>1 DEF Holds
        <4>3. ~ Asleep(0)
          BY <1>0, <4>1, <4>2 DEF Sleepers
        <4> QED BY <1>3, <1>8, <4>1, <4>3
      <3>2. CASE waiters # <<>>
        <4>1. PICK v \in Workers : <<Event(v), "available">> \in pending'
          BY <1>6, <3>2
        <4>2. Event(v)' = Event(v)
          BY <1>3, <1>8
        <4>3. ~ Asleep(v)'
          BY <4>1, <4>2 DEF Asleep, Mask
        <4> QED BY <4>3
      <3> QED BY <3>1, <3>2
    <2>2. \A v \in Workers : lock' = v <=> At(v, "loop", "append")'
      BY <1>0, <1>1, <1>8 DEF Work
    <2>3. \A v \in Workers : deque'[v] # <<>> => Busy(v)'
      BY <1>0, <1>1, <1>3, <1>8 DEF Work
    <2> QED BY <1>1, <2>1, <2>2, <2>3 DEF Work
  <1>16. Ends'
    <2>1. mip' # 0
      BY <1>1, <1>2
    <2> QED BY <1>1, <1>2, <1>3, <1>8, <2>1 DEF Ends
  <1> QED BY <1>8, <1>10, <1>11, <1>12, <1>13, <1>14, <1>15, <1>16 DEF IInv


\* MainWait preserves the invariant.
LEMMA MainWaitKeeps ==
    ASSUME IInv, MainWait
    PROVE  IInv'
  <1>0. TypeOK /\ Frames /\ Queued /\ Running /\ Signals /\ Sleepers /\ Work /\ Starts /\ Ends
    BY DEF IInv
  <1>1. /\ stack' = stack /\ deque' = deque /\ public' = public /\ tstate' = tstate
        /\ waiters' = waiters /\ lock' = lock /\ shutdown' = shutdown
        /\ range' = range /\ handle' = handle
        /\ mpc = "op" /\ mip <= Len(MainScript)
    BY DEF MainWait, MainOp, queues, threads
  <1>2. /\ mip \in 1..Len(MainScript) /\ MainTask \in Tasks
        /\ ~ shutdown /\ \A v \in Workers : ~ Exited(v)
    BY <1>0, <1>1, MainOpTyped
  <1>3. PICK t \in Tasks : t = MainTask
    BY <1>2
  <1>4. /\ \A k : <<MainEvent, k>> \notin pending
        /\ \A u \in Tasks : MainEvent \notin conts[u]
    BY <1>0, <1>1, MainUnsignalled
  <1>5. MainEvent \in Events /\ MainEvent' = MainEvent /\ MainEvent = <<Main, 1>>
    BY MainEventBound DEF MainEvent
  <1>6. \/ mip' = mip + 1 /\ pending' = pending /\ conts' = conts /\ mpc' = "op"
        \/ /\ mpc' = "sleep" /\ mip' = mip
           /\ \/ conts' = [conts EXCEPT ![t] = @ \union {MainEvent}] /\ pending' = pending
              \/ Ready(t) /\ pending' = pending \union {<<MainEvent, "finished">>} /\ conts' = conts
    BY <1>1, <1>3 DEF MainWait, OnFinish, Signal, Ready
  <1>7. conts \in [Tasks -> SUBSET Events] /\ pending \subseteq Events \X {"finished", "available"} /\ mip \in Nat
    BY <1>0 DEF TypeOK
  <1>8. /\ conts' \in [Tasks -> SUBSET Events] /\ pending' \subseteq Events \X {"finished", "available"}
        /\ mip' \in Nat /\ mpc' \in {"op", "sleep"} /\ pending \subseteq pending'
    BY <1>5, <1>6, <1>7
  <1>9. KeptAll
    BY <1>8 DEF KeptAll
  <1>10. /\ Frames' /\ Starts' /\ SameRuns /\ SameFlushes /\ SameWaits /\ WaitsEnd
         /\ \A v \in Workers :
               /\ Depth(v)' = Depth(v) /\ Event(v)' = Event(v)
               /\ (Sleeping(v)' <=> Sleeping(v)) /\ (Busy(v)' <=> Busy(v))
               /\ (Asleep(v)' => Asleep(v)) /\ (Exited(v)' <=> Exited(v))
         /\ \A v \in Workers, u \in Tasks : Told(v, u)' <=> Told(v, u)
         /\ \A v, k, p : At(v, k, p)' <=> At(v, k, p)
    BY <1>0, <1>1, <1>9, MainLeaves
  <1>11. \A v \in Workers, u \in Tasks :
             Told(v, u)' => Told(v, u) /\ Depth(v)' = Depth(v) /\ LoopWaits(v, Depth(v), u)'
    BY <1>0, <1>10, MainTold
  <1>12. TypeOK'
    BY <1>0, <1>1, <1>8, <1>10 DEF TypeOK
  <1>13. Queued' /\ Running'
    BY <1>0, <1>1, <1>10, QueuedStays, RunningStays DEF queues
  <1>14. \A u \in Tasks : Ready(u)' <=> Ready(u)
    BY <1>1 DEF Ready
  <1>15. Signals'
    <2>1. CASE mip' = mip + 1 /\ pending' = pending /\ conts' = conts /\ mpc' = "op"
      <3>1. \A u : MainWaits(Main, 1, u) => MainWaits(Main, 1, u)'
        BY <1>1 DEF MainWaits
      <3>2. <<MainEvent, "available">> \notin pending'
        BY <1>4, <2>1
      <3> QED BY <1>0, <1>10, <1>11, <1>14, <2>1, <3>1, <3>2, SignalsStays
    <2>2. ASSUME mpc' = "sleep", mip' = mip,
                 \A u \in Tasks : \A e : e \in conts'[u] => e \in conts[u] \/ (e = MainEvent /\ u = t),
                 \A p \in pending' : p \in pending \/ (p = <<MainEvent, "finished">> /\ Ready(t)),
                 <<MainEvent, "finished">> \in pending' => MainEvent \notin conts'[t]
          PROVE  Signals'
      <3>1. Waits(Main, 1, t)' /\ \A v, i, u : Waits(v, i, u) => Waits(v, i, u)'
        BY <1>1, <1>3, <1>10, <2>2 DEF Waits, MainWaits, MainTask, SameWaits
      <3>2. \A v \in Threads, i \in Nat, u \in Tasks : <<v, i>> \in conts'[u] => Waits(v, i, u)'
        <4> SUFFICES ASSUME NEW v \in Threads, NEW i \in Nat, NEW u \in Tasks, <<v, i>> \in conts'[u]
                     PROVE  Waits(v, i, u)'
          OBVIOUS
        <4>1. CASE <<v, i>> \in conts[u]
          BY <1>0, <3>1, <4>1 DEF Signals
        <4>2. CASE <<v, i>> = MainEvent /\ u = t
          BY <1>5, <3>1, <4>2
        <4> QED BY <2>2, <4>1, <4>2
      <3>3. \A v \in Threads, i \in Nat : <<<<v, i>>, "finished">> \in pending' =>
                \E u \in Tasks : Waits(v, i, u)' /\ Ready(u)' /\ <<v, i>> \notin conts'[u]
        <4> SUFFICES ASSUME NEW v \in Threads, NEW i \in Nat, <<<<v, i>>, "finished">> \in pending'
                     PROVE  \E u \in Tasks : Waits(v, i, u)' /\ Ready(u)' /\ <<v, i>> \notin conts'[u]
          OBVIOUS
        <4>1. CASE <<v, i>> = MainEvent
          <5>1. v = Main /\ i = 1
            BY <1>5, <4>1
          <5>2. Ready(t)
            BY <1>4, <2>2, <4>1
          <5>3. <<v, i>> \notin conts'[t]
            BY <2>2, <4>1
          <5> QED BY <1>14, <3>1, <5>1, <5>2, <5>3
        <4>2. CASE <<v, i>> # MainEvent
          <5>1. <<<<v, i>>, "finished">> \in pending
            BY <2>2, <4>2
          <5>2. PICK u \in Tasks : Waits(v, i, u) /\ Ready(u) /\ <<v, i>> \notin conts[u]
            BY <1>0, <5>1 DEF Signals
          <5>3. <<v, i>> \notin conts'[u]
            BY <2>2, <4>2, <5>2
          <5> QED BY <1>14, <3>1, <5>2, <5>3
        <4> QED BY <4>1, <4>2
      <3>4. \A v \in Workers, u \in Tasks : Told(v, u)' =>
                /\ LoopWaits(v, Depth(v), u)' /\ Ready(u)' /\ Event(v)' \notin conts'[u]
                /\ <<Event(v)', "finished">> \notin pending'
        <4> SUFFICES ASSUME NEW v \in Workers, NEW u \in Tasks, Told(v, u)'
                     PROVE  /\ LoopWaits(v, Depth(v), u)' /\ Ready(u)' /\ Event(v)' \notin conts'[u]
                            /\ <<Event(v)', "finished">> \notin pending'
          OBVIOUS
        <4>1. Told(v, u) /\ LoopWaits(v, Depth(v), u)' /\ Event(v)' = Event(v)
          BY <1>10, <1>11
        <4>2. Ready(u) /\ Event(v) \notin conts[u] /\ <<Event(v), "finished">> \notin pending
          BY <1>0, <4>1 DEF Signals
        <4>3. Event(v) # MainEvent
          BY WorkerIds DEF Event, MainEvent
        <4> QED BY <1>14, <2>2, <4>1, <4>2, <4>3
      <3>5. <<MainEvent', "available">> \notin pending'
        BY <1>4, <1>5, <2>2
      <3> QED BY <3>2, <3>3, <3>4, <3>5 DEF Signals
    <2>3. CASE /\ mpc' = "sleep" /\ mip' = mip
               /\ conts' = [conts EXCEPT ![t] = @ \union {MainEvent}] /\ pending' = pending
      <3>1. \A u \in Tasks : conts'[u] = IF u = t THEN conts[u] \union {MainEvent} ELSE conts[u]
        BY <1>7, <2>3
      <3>2. \A u \in Tasks : \A e : e \in conts'[u] => e \in conts[u] \/ (e = MainEvent /\ u = t)
        BY <3>1
      <3> QED BY <1>4, <2>2, <2>3, <3>2
    <2>4. CASE /\ mpc' = "sleep" /\ mip' = mip
               /\ Ready(t) /\ pending' = pending \union {<<MainEvent, "finished">>} /\ conts' = conts
      BY <1>4, <2>2, <2>4
    <2> QED BY <1>6, <2>1, <2>3, <2>4
  <1>16. Sleepers'
    BY <1>0, <1>1, <1>3, <1>10 DEF Sleepers
  <1>17. Work'
    BY <1>0, <1>1, <1>3, <1>10 DEF Work
  <1>18. Ends'
    <2>1. mip' # 0
      BY <1>2, <1>6
    <2>2. mpc' = "sleep" => mip' \in 1..Len(MainScript)
      BY <1>2, <1>6
    <2> QED BY <1>1, <1>2, <1>3, <1>8, <1>10, <2>1, <2>2 DEF Ends
  <1> QED BY <1>10, <1>12, <1>13, <1>15, <1>16, <1>17, <1>18 DEF IInv

\* MainWake preserves the invariant.
LEMMA MainWakeKeeps ==
    ASSUME IInv, MainWake
    PROVE  IInv'
  <1>0. TypeOK /\ Frames /\ Queued /\ Running /\ Signals /\ Sleepers /\ Work /\ Starts /\ Ends
    BY DEF IInv
  <1>1. /\ stack' = stack /\ deque' = deque /\ public' = public /\ tstate' = tstate /\ conts' = conts
        /\ waiters' = waiters /\ lock' = lock /\ shutdown' = shutdown
        /\ range' = range /\ handle' = handle
        /\ mpc = "sleep" /\ mpc' = "op" /\ mip' = mip + 1
        /\ pending' = {p \in pending : p[1] # MainEvent}
    BY DEF MainWake, Clear, queues, tasks, threads
  <1>2. mip \in Nat /\ mip' \in Nat /\ mip' # 0
    <2>1. mip \in Nat
      BY <1>0 DEF TypeOK
    <2> QED BY <1>1, <2>1
  <1>3. MainEvent' = MainEvent /\ MainEvent = <<Main, 1>>
    BY DEF MainEvent
  <1>4. pending' \subseteq pending /\ \A e, k : <<e, k>> \in pending' <=> <<e, k>> \in pending /\ e # MainEvent
    BY <1>1
  <1>5. \A v \in Workers : Event(v) # MainEvent
    BY WorkerIds DEF Event, MainEvent
  <1>6. KeptAll
    BY <1>4, <1>5 DEF KeptAll
  <1>7. \A u \in Tasks : MainEvent \notin conts[u]
    <2>1. <<MainEvent, "finished">> \in pending
      BY <1>0 DEF MainWake, Mask, Signals
    <2>2. Main \in Threads /\ 1 \in Nat /\ Main \notin Workers
      BY WorkerIds
    <2>3. PICK t \in Tasks : Waits(Main, 1, t) /\ MainEvent \notin conts[t]
      BY <1>0, <1>3, <2>1, <2>2 DEF Signals
    <2>4. \A u \in Tasks : MainEvent \in conts[u] => Waits(Main, 1, u)
      BY <1>0, <1>3, <2>2 DEF Signals
    <2>5. \A u : Waits(Main, 1, u) => u = MainTask
      BY <2>2 DEF Waits, MainWaits, LoopWaits
    <2> QED BY <2>3, <2>4, <2>5
  <1>8. /\ Frames' /\ Starts' /\ SameRuns /\ SameFlushes /\ SameWaits /\ WaitsEnd
        /\ \A v \in Workers :
              /\ Depth(v)' = Depth(v) /\ Event(v)' = Event(v)
              /\ (Sleeping(v)' <=> Sleeping(v)) /\ (Busy(v)' <=> Busy(v))
              /\ (Asleep(v)' => Asleep(v)) /\ (Exited(v)' <=> Exited(v))
        /\ \A v \in Workers, u \in Tasks : Told(v, u)' <=> Told(v, u)
        /\ \A v, k, p : At(v, k, p)' <=> At(v, k, p)
    BY <1>0, <1>1, <1>6, MainLeaves
  <1>9. \A v \in Workers, u \in Tasks :
            Told(v, u)' => Told(v, u) /\ Depth(v)' = Depth(v) /\ LoopWaits(v, Depth(v), u)'
    BY <1>0, <1>8, MainTold
  <1>10. TypeOK'
    BY <1>0, <1>1, <1>2, <1>4, <1>8 DEF TypeOK
  <1>11. Queued' /\ Running'
    BY <1>0, <1>1, <1>8, QueuedStays, RunningStays DEF queues
  <1>12. \A v, i, u : Waits(v, i, u) => Waits(v, i, u)' \/ <<v, i>> = MainEvent
    BY <1>3, <1>8 DEF Waits, MainWaits, SameWaits
  <1>13. Signals'
    <2>1. \A v \in Threads, i \in Nat, u \in Tasks : <<v, i>> \in conts'[u] => Waits(v, i, u)'
      BY <1>0, <1>1, <1>7, <1>12 DEF Signals
    <2>2. \A v \in Threads, i \in Nat : <<<<v, i>>, "finished">> \in pending' =>
              \E u \in Tasks : Waits(v, i, u)' /\ Ready(u)' /\ <<v, i>> \notin conts'[u]
      <3> SUFFICES ASSUME NEW v \in Threads, NEW i \in Nat, <<<<v, i>>, "finished">> \in pending'
                   PROVE  \E u \in Tasks : Waits(v, i, u)' /\ Ready(u)' /\ <<v, i>> \notin conts'[u]
        OBVIOUS
      <3>1. <<<<v, i>>, "finished">> \in pending /\ <<v, i>> # MainEvent
        BY <1>4
      <3>2. PICK u \in Tasks : Waits(v, i, u) /\ Ready(u) /\ <<v, i>> \notin conts[u]
        BY <1>0, <3>1 DEF Signals
      <3>3. Waits(v, i, u)' /\ Ready(u)'
        BY <1>1, <1>12, <3>1, <3>2 DEF Ready
      <3> QED BY <1>1, <3>2, <3>3
    <2>3. \A v \in Workers, u \in Tasks : Told(v, u)' =>
              /\ LoopWaits(v, Depth(v), u)' /\ Ready(u)' /\ Event(v)' \notin conts'[u]
              /\ <<Event(v)', "finished">> \notin pending'
      <3> SUFFICES ASSUME NEW v \in Workers, NEW u \in Tasks, Told(v, u)'
                   PROVE  /\ LoopWaits(v, Depth(v), u)' /\ Ready(u)' /\ Event(v)' \notin conts'[u]
                          /\ <<Event(v)', "finished">> \notin pending'
        OBVIOUS
      <3>1. Told(v, u) /\ LoopWaits(v, Depth(v), u)' /\ Event(v)' = Event(v)
        BY <1>8, <1>9
      <3>2. Ready(u) /\ Event(v) \notin conts[u] /\ <<Event(v), "finished">> \notin pending
        BY <1>0, <3>1 DEF Signals
      <3> QED BY <1>1, <1>4, <3>1, <3>2 DEF Ready
    <2>4. <<MainEvent', "available">> \notin pending'
      BY <1>3, <1>4
    <2> QED BY <2>1, <2>2, <2>3, <2>4 DEF Signals
  <1>14. Sleepers'
    BY <1>0, <1>1, <1>8 DEF Sleepers
  <1>15. Work'
    BY <1>0, <1>1, <1>8 DEF Work
  <1>16. Ends'
    BY <1>0, <1>1, <1>2, <1>8 DEF Ends
  <1> QED BY <1>8, <1>10, <1>11, <1>13, <1>14, <1>15, <1>16 DEF IInv


\* MainShutdown preserves the invariant.
LEMMA MainShutdownKeeps ==
    ASSUME IInv, MainShutdown
    PROVE  IInv'
  <1>0. TypeOK /\ Frames /\ Queued /\ Running /\ Signals /\ Sleepers /\ Work /\ Starts /\ Ends
    BY DEF IInv
  <1>1. /\ stack' = stack /\ deque' = deque /\ public' = public /\ tstate' = tstate /\ conts' = conts
        /\ lock' = lock /\ range' = range /\ handle' = handle
        /\ mpc = "op" /\ mpc' = "join" /\ mip' = 0 /\ shutdown' = TRUE /\ waiters' = <<>>
        /\ pending' = pending \union {<<waiters[i], "available">> : i \in 1..Len(waiters)}
    BY DEF MainShutdown, queues, tasks, threads
  <1>2. \A v \in Workers : ~ Exited(v)
    BY <1>0, <1>1 DEF Ends
  <1>3. waiters \in Seq(Events) /\ pending \subseteq Events \X {"finished", "available"}
    BY <1>0 DEF TypeOK
  <1>4. \A i \in 1..Len(waiters) : waiters[i] \in Events /\ waiters[i] # MainEvent
    <2> SUFFICES ASSUME NEW i \in 1..Len(waiters) PROVE waiters[i] \in Events /\ waiters[i] # MainEvent
      OBVIOUS
    <2>1. waiters[i] \in Events /\ Holds(waiters, waiters[i])
      BY <1>3, ElementOfSeq DEF Holds
    <2>2. Main \in Threads /\ Main \notin Workers /\ 1 \in Nat
      BY WorkerIds
    <2>3. ~ Holds(waiters, <<Main, 1>>)
      BY <1>0, <2>2 DEF Sleepers
    <2> QED BY <2>1, <2>3 DEF MainEvent
  <1>5. Wakes
    <2>1. /\ <<>> \in Seq(Events) /\ Len(<<>>) <= NumThreads /\ NoRepeat(<<>>)
          /\ \A y : ~ Holds(<<>>, y)
      BY WorkerIds DEF NoRepeat, Holds
    <2>2. pending' \subseteq Events \X {"finished", "available"} /\ pending \subseteq pending'
      BY <1>1, <1>3, <1>4
    <2>3. \A e : <<e, "finished">> \in pending' => <<e, "finished">> \in pending
      BY <1>1
    <2>4. <<MainEvent, "available">> \in pending' => <<MainEvent, "available">> \in pending
      BY <1>1, <1>4
    <2>5. \A y : Holds(waiters, y) => <<y, "available">> \in pending'
      BY <1>1 DEF Holds
    <2> QED BY <1>1, <2>1, <2>2, <2>3, <2>4, <2>5 DEF Wakes
  <1>6. KeptAll
    BY <1>5 DEF Wakes, KeptAll
  <1>7. /\ Frames' /\ Starts' /\ SameRuns /\ SameFlushes /\ SameWaits /\ WaitsEnd
        /\ \A v \in Workers :
              /\ Depth(v)' = Depth(v) /\ Event(v)' = Event(v)
              /\ (Sleeping(v)' <=> Sleeping(v)) /\ (Busy(v)' <=> Busy(v))
              /\ (Asleep(v)' => Asleep(v)) /\ (Exited(v)' <=> Exited(v))
        /\ \A v \in Workers, u \in Tasks : Told(v, u)' <=> Told(v, u)
        /\ \A v, k, p : At(v, k, p)' <=> At(v, k, p)
    BY <1>0, <1>1, <1>6, MainLeaves
  <1>8. TypeOK'
    BY <1>0, <1>1, <1>5, <1>7 DEF TypeOK, Wakes
  <1>9. Queued' /\ Running'
    BY <1>0, <1>1, <1>7, QueuedStays, RunningStays DEF queues
  <1>10. Signals'
    <2>1. \A v \in Workers, u \in Tasks :
              Told(v, u)' => Told(v, u) /\ Depth(v)' = Depth(v) /\ LoopWaits(v, Depth(v), u)'
      BY <1>0, <1>7, MainTold
    <2>2. \A u : MainWaits(Main, 1, u) => MainWaits(Main, 1, u)'
      BY <1>1 DEF MainWaits
    <2>3. <<MainEvent, "available">> \notin pending' /\ \A u \in Tasks : Ready(u) => Ready(u)'
      BY <1>0, <1>1, <1>5 DEF Signals, Ready, Wakes
    <2>4. \A e : <<e, "finished">> \in pending' => <<e, "finished">> \in pending
      BY <1>5 DEF Wakes
    <2> QED BY <1>0, <1>1, <1>7, <2>1, <2>2, <2>3, <2>4, SignalsStays
  <1>11. Sleepers'
    BY <1>0, <1>5, <1>7, SleepersWoken
  <1>12. Work'
    BY <1>0, <1>1, <1>7 DEF Work
  <1>13. Ends'
    <2>1. 0 \in Workers /\ \A v \in Workers : ~ (v < 0)
      BY PoolAssumption DEF Workers
    <2> QED BY <1>1, <1>2, <1>7, <2>1 DEF Ends
  <1> QED BY <1>7, <1>8, <1>9, <1>10, <1>11, <1>12, <1>13 DEF IInv

\* MainJoin preserves the invariant.
LEMMA MainJoinKeeps ==
    ASSUME IInv, MainJoin
    PROVE  IInv'
  <1>0. TypeOK /\ Frames /\ Queued /\ Running /\ Signals /\ Sleepers /\ Work /\ Starts /\ Ends
    BY DEF IInv
  <1>1. /\ stack' = stack /\ deque' = deque /\ public' = public /\ tstate' = tstate /\ conts' = conts
        /\ waiters' = waiters /\ lock' = lock /\ pending' = pending /\ shutdown' = shutdown
        /\ range' = range /\ handle' = handle
        /\ mpc = "join" /\ Exited(mip) /\ mip' = mip + 1
        /\ mpc' = IF mip + 1 = NumThreads THEN "done" ELSE "join"
    BY DEF MainJoin, queues, sleepers, tasks, threads
  <1>2. mip \in Workers /\ \A v \in Workers : v < mip => Exited(v)
    BY <1>0, <1>1 DEF Ends
  <1>3. /\ mip + 1 \in Nat /\ (mip + 1 # NumThreads => mip + 1 \in Workers)
        /\ \A v \in Workers : v < mip + 1 => v < mip \/ v = mip
        /\ mip + 1 = NumThreads => \A v \in Workers : v < mip \/ v = mip
    BY <1>2, PoolAssumption DEF Workers
  <1>4. KeptAll
    BY <1>1 DEF KeptAll
  <1>5. /\ Frames' /\ Starts' /\ SameRuns /\ SameFlushes /\ SameWaits /\ WaitsEnd
        /\ \A v \in Workers :
              /\ Depth(v)' = Depth(v) /\ Event(v)' = Event(v)
              /\ (Sleeping(v)' <=> Sleeping(v)) /\ (Busy(v)' <=> Busy(v))
              /\ (Asleep(v)' => Asleep(v)) /\ (Exited(v)' <=> Exited(v))
        /\ \A v \in Workers, u \in Tasks : Told(v, u)' <=> Told(v, u)
        /\ \A v, k, p : At(v, k, p)' <=> At(v, k, p)
    BY <1>0, <1>1, <1>4, MainLeaves
  <1>6. TypeOK'
    BY <1>0, <1>1, <1>3, <1>5 DEF TypeOK
  <1>7. Queued' /\ Running'
    BY <1>0, <1>1, <1>5, QueuedStays, RunningStays DEF queues
  <1>8. Signals'
    <2>1. \A v \in Workers, u \in Tasks :
              Told(v, u)' => Told(v, u) /\ Depth(v)' = Depth(v) /\ LoopWaits(v, Depth(v), u)'
      BY <1>0, <1>5, MainTold
    <2>2. \A u : MainWaits(Main, 1, u) => MainWaits(Main, 1, u)'
      BY <1>1 DEF MainWaits
    <2>3. <<MainEvent, "available">> \notin pending' /\ \A u \in Tasks : Ready(u) => Ready(u)'
      BY <1>0, <1>1 DEF Signals, Ready
    <2> QED BY <1>0, <1>1, <1>5, <2>1, <2>2, <2>3, SignalsStays
  <1>9. Sleepers'
    BY <1>0, <1>1, <1>5 DEF Sleepers
  <1>10. Work'
    BY <1>0, <1>1, <1>5 DEF Work
  <1>11. Ends'
    <2>1. shutdown /\ (\A v \in Workers : Exited(v) => public = <<>>)
      BY <1>0, <1>1 DEF Ends
    <2>2. CASE mip + 1 = NumThreads
      <3>1. \A v \in Workers : Exited(v)'
        BY <1>1, <1>2, <1>3, <1>5, <2>2
      <3> QED BY <1>1, <2>1, <2>2, <1>5, <3>1 DEF Ends
    <2>3. CASE mip + 1 # NumThreads
      <3>1. \A v \in Workers : v < mip + 1 => Exited(v)'
        BY <1>1, <1>2, <1>3, <1>5
      <3> QED BY <1>1, <1>3, <1>5, <2>1, <2>3, <3>1 DEF Ends
    <2> QED BY <2>2, <2>3
  <1> QED BY <1>5, <1>6, <1>7, <1>8, <1>9, <1>10, <1>11 DEF IInv


-----------------------------------------------------------------------------
(* The theorems. *)

\* The initial states satisfy the invariant.
LEMMA InitInv ==
    Init => IInv
  <1> SUFFICES ASSUME Init PROVE IInv
    OBVIOUS
  <1>1. /\ \A w \in Workers : stack[w] = <<>> /\ deque[w] = <<>>
        /\ stack \in [Workers -> Seq(FrameSet)] /\ deque \in [Workers -> Seq(Tasks)]
        /\ public = <<>> /\ waiters = <<>> /\ lock = Free /\ shutdown = FALSE /\ pending = {}
        /\ tstate = [t \in Tasks |-> "new"] /\ conts = [t \in Tasks |-> {}]
        /\ range = [w \in Workers |-> IF w = 0 THEN NumThreads ELSE 0]
        /\ handle = [w \in Workers |-> w = 0] /\ mpc = "op" /\ mip = 1
    <2>1. <<>> \in Seq(FrameSet) /\ <<>> \in Seq(Tasks)
      OBVIOUS
    <2> QED BY <2>1 DEF Init
  <1>2. /\ \A w \in Workers : Depth(w) = 0 /\ ~ Sleeping(w) /\ ~ Asleep(w)
        /\ \A w \in Workers : \A k, p : ~ At(w, k, p)
        /\ \A w \in Workers : \A t : ~ Told(w, t)
    BY <1>1 DEF Depth, Sleeping, Asleep, At, Told
  <1>3. 1..0 = {} /\ 1 \in Nat /\ 1 # 0 /\ NumThreads \in Nat /\ NumThreads # 0 /\ 0 <= NumThreads
    BY PoolAssumption
  <1>4. TypeOK
    <2>1. range \in [Workers -> -1..NumThreads]
      <3>1. NumThreads \in -1..NumThreads /\ 0 \in -1..NumThreads
        BY <1>3
      <3> QED BY <1>1, <3>1
    <2>2. handle \in [Workers -> BOOLEAN]
      BY <1>1
    <2>3. waiters \in Seq(Events) /\ Len(waiters) <= NumThreads
      BY <1>1, <1>3
    <2>4. public \in Seq(Tasks) /\ pending \subseteq Events \X {"finished", "available"}
      BY <1>1
    <2>5. /\ tstate \in [Tasks -> {"new", "queued", "running", "finished", "flushed"}]
          /\ conts \in [Tasks -> SUBSET Events]
      BY <1>1
    <2> QED BY <1>1, <1>3, <2>1, <2>2, <2>3, <2>4, <2>5 DEF TypeOK
  <1>5. Frames /\ Queued
    <2>1. \A s : s = <<>> => NoRepeat(s) /\ \A y : ~ Holds(s, y)
      BY <1>3 DEF NoRepeat, Holds
    <2>2. Frames
      BY <1>2, <1>3 DEF Frames
    <2> QED BY <1>1, <2>1, <2>2 DEF Queued
  <1>6. Running
    <2>1. \A w \in Workers : \A i, t : ~ Runs(w, i, t)
      BY <1>2, <1>3 DEF Runs
    <2> QED BY <1>1, <2>1 DEF Running
  <1>7. Signals
    BY <1>1, <1>2 DEF Signals
  <1>8. Sleepers
    BY <1>1, <1>2, <1>3 DEF Sleepers, NoRepeat, Holds
  <1>9. Work
    BY <1>1, <1>2, WorkerIds DEF Work
  <1>10. Starts
    <2>1. \A w \in Workers : w + range[w] <= NumThreads /\ w \in Nat /\ (w # 0 => w > 0)
      BY <1>1, <1>3 DEF Workers
    <2>2. \A v \in Workers : v # 0 => range[v] = 0 /\ handle[v] = FALSE
      BY <1>1
    <2>3. range[0] = NumThreads /\ handle[0] = TRUE /\ 0 \in Workers
      <3>1. 0 \in Workers
        BY PoolAssumption DEF Workers
      <3> QED BY <1>1, <3>1
    <2>4. \A w \in Workers : range[w] > 1 => \A v \in Rest(w) : range[v] = 0
      <3> SUFFICES ASSUME NEW w \in Workers, range[w] > 1, NEW v \in Rest(w) PROVE range[v] = 0
        OBVIOUS
      <3>1. w = 0
        BY <2>2
      <3>2. NumThreads \div 2 \in Nat /\ NumThreads \div 2 >= 1 /\ NumThreads \div 2 < NumThreads
        BY <1>3, <2>3, <3>1, Halves
      <3>3. PICK h \in Nat : h = Half(0) /\ h >= 1 /\ h < NumThreads
        BY <2>3, <3>2 DEF Half
      <3>4. v \in (0 + 1)..(0 + NumThreads - 1) \/ v \in (0 + 1)..(0 + h - 1)
        BY <2>3, <3>1, <3>3 DEF Rest
      <3>5. v \in Workers /\ v # 0
        BY <1>3, <3>3, <3>4 DEF Workers
      <3> QED BY <2>2, <3>5
    <2>5. ASSUME NEW v \in Workers, ~ handle[v]
          PROVE  \E w \in Workers : w < v /\ range[w] > 1 /\ (v \in Rest(w) \/ v = Child(w))
      <3>1. v # 0
        BY <2>3, <2>5
      <3>2. 0 < v /\ NumThreads > 1 /\ v \in 1..(NumThreads - 1)
        BY <1>3, <2>1, <3>1 DEF Workers
      <3>3. NumThreads \div 2 \in Nat /\ NumThreads \div 2 >= 1 /\ NumThreads \div 2 < NumThreads
        BY <1>3, <3>2, Halves
      <3>4. PICK h \in Nat : h = Half(0) /\ h >= 1 /\ h < NumThreads
        BY <2>3, <3>3 DEF Half
      <3>5. Child(0) = h
        BY <3>4 DEF Child
      <3>6. h \in Workers /\ h # 0
        BY <1>3, <3>4 DEF Workers
      <3>7. range[h] = 0
        BY <2>2, <3>6
      <3>8. Rest(0) = (0 + 1)..(0 + NumThreads - 1)
        BY <2>3, <3>5, <3>7 DEF Rest
      <3>9. v \in Rest(0)
        BY <1>3, <3>2, <3>8
      <3> QED BY <2>3, <3>2, <3>9
    <2> QED BY <1>1, <2>1, <2>4, <2>5 DEF Starts
  <1>11. Ends
    <2>1. \A w \in Workers : ~ Exited(w)
      <3>1. \A w \in Workers : range[w] = 0 \/ range[w] = NumThreads
        BY <1>1
      <3>2. NumThreads # -1
        BY <1>3
      <3> QED BY <3>1, <3>2 DEF Exited
    <2> QED BY <1>1, <1>3, <2>1 DEF Ends
  <1> QED BY <1>4, <1>5, <1>6, <1>7, <1>8, <1>9, <1>10, <1>11 DEF IInv


\* Every step preserves the invariant.
LEMMA StepInv ==
    IInv /\ [Next]_vars => IInv'
  <1> SUFFICES ASSUME IInv, [Next]_vars PROVE IInv'
    OBVIOUS
  <1>1. CASE MainStep
    BY <1>1, MainSpawnKeeps, MainWaitKeeps, MainWakeKeeps, MainShutdownKeeps, MainJoinKeeps DEF MainStep
  <1>2. ASSUME NEW w \in Workers, WorkerStep(w) PROVE IInv'
    <2>1. CASE StartThread(w) \/ AssignHandle(w) \/ EnterMainLoop(w)
      BY <2>1, StartThreadKeeps, AssignHandleKeeps, EnterMainLoopKeeps
    <2>2. CASE LoopStep(w)
      BY <2>2, LoopCheckKeeps, LoopPopKeeps, LoopStealKeeps, LoopStealMissesKeeps, LoopPublicKeeps,
         LoopExitKeeps, LoopPrepareKeeps, LoopAppendKeeps, LoopWakeKeeps, LoopRelockKeeps DEF LoopStep
    <2>3. CASE RunStep(w)
      BY <2>3, RunSpawnKeeps, RunTestWaitersKeeps, RunWakeKeeps, RunWaitKeeps, RunFinishKeeps,
         RunFlushKeeps, RunReturnKeeps DEF RunStep
    <2> QED BY <1>2, <2>1, <2>2, <2>3 DEF WorkerStep
  <1>3. CASE UNCHANGED vars
    <2>0. TypeOK /\ Frames /\ Queued /\ Running /\ Signals /\ Sleepers /\ Work /\ Starts /\ Ends
      BY DEF IInv
    <2>1. /\ stack' = stack /\ deque' = deque /\ public' = public /\ tstate' = tstate /\ conts' = conts
          /\ waiters' = waiters /\ lock' = lock /\ pending' = pending /\ shutdown' = shutdown
          /\ range' = range /\ handle' = handle /\ mpc' = mpc /\ mip' = mip
      BY <1>3 DEF vars, queues, sleepers, tasks, threads, main
    <2>2. Frames' /\ Queued' /\ Running' /\ Signals' /\ Sleepers' /\ Work'
      BY <2>0, <2>1, Still
    <2>3. TypeOK'
      BY <2>0, <2>1 DEF TypeOK
    <2>4. Starts'
      BY <2>0, <2>1, StartsStays
    <2>5. Ends'
      BY <2>0, <2>1 DEF Ends, Exited
    <2> QED BY <2>2, <2>3, <2>4, <2>5 DEF IInv
  <1> QED BY <1>1, <1>2, <1>3 DEF Next

\* The invariant: the stacks alternate loops and tasks, a task is queued or run in
\* one place, a signal comes only to a wait that goes on, the list names those that
\* sleep, and who sleeps has nothing to run.
THEOREM Invariance == Spec => []IInv
  <1> QED BY InitInv, StepInv, PTL DEF Spec

\* Every variable keeps its type: the stacks stay below MaxDepth, and the list of
\* sleepers fits the array of one entry per thread that thread_task_loop fills.
THEOREM TypeCorrect == Spec => []TypeOK
  <1>1. IInv => TypeOK
    BY DEF IInv
  <1> QED BY <1>1, Invariance, PTL

\* The wait event of a frame of thread_task_loop that is registered, with a task
\* or as a sleeper, is that of a call that has not returned.
LEMMA EventsLive ==
    ASSUME IInv
    PROVE  NoDanglingEvent
  <1>0. TypeOK /\ Signals /\ Sleepers
    BY DEF IInv
  <1>1. \A i \in 1..Len(waiters) :
            /\ waiters[i][1] \in Workers /\ waiters[i] = Event(waiters[i][1])
            /\ Sleeping(waiters[i][1])
    <2> SUFFICES ASSUME NEW i \in 1..Len(waiters)
                 PROVE  /\ waiters[i][1] \in Workers /\ waiters[i] = Event(waiters[i][1])
                        /\ Sleeping(waiters[i][1])
      OBVIOUS
    <2>1. waiters[i] \in Events /\ Holds(waiters, waiters[i])
      BY <1>0, ElementOfSeq DEF Holds, TypeOK
    <2>2. PICK v \in Threads, j \in 1..MaxDepth : waiters[i] = <<v, j>>
      BY <2>1 DEF Events
    <2>3. j \in Nat
      OBVIOUS
    <2>4. v \in Workers /\ j = Depth(v) /\ Sleeping(v)
      BY <1>0, <2>1, <2>2, <2>3 DEF Sleepers
    <2> QED BY <2>2, <2>4 DEF Event
  <1>2. ASSUME NEW v \in Workers, Sleeping(v) PROVE LiveEvent(Event(v))
    <2>1. stack[v] # <<>> /\ Top(v).kind = "loop"
      BY <1>2 DEF Sleeping, At
    <2>2. Depth(v) <= Depth(v)
      BY <1>0, StackTypes
    <2>3. v # Main
      BY WorkerIds
    <2> QED BY <2>1, <2>2, <2>3 DEF LiveEvent, Event, Top
  <1>3. \A i \in 1..Len(waiters) :
            /\ LiveEvent(waiters[i])
            /\ At(waiters[i][1], "loop", "sleep") \/ At(waiters[i][1], "loop", "relock")
    BY <1>1, <1>2 DEF Sleeping
  <1>4. \A i, j \in 1..Len(waiters) : waiters[i][1] = waiters[j][1] => i = j
    BY <1>0, <1>1 DEF Sleepers, NoRepeat
  <1>5. \A t \in Tasks : \A e \in conts[t] : LiveEvent(e)
    <2> SUFFICES ASSUME NEW t \in Tasks, NEW e \in conts[t] PROVE LiveEvent(e)
      OBVIOUS
    <2>1. e \in Events
      BY <1>0 DEF TypeOK
    <2>2. PICK v \in Threads, j \in 1..MaxDepth : e = <<v, j>>
      BY <2>1 DEF Events
    <2>3. j \in Nat
      OBVIOUS
    <2>4. Waits(v, j, t)
      BY <1>0, <2>2, <2>3 DEF Signals
    <2>5. CASE MainWaits(v, j, t)
      BY <2>2, <2>5 DEF MainWaits, LiveEvent
    <2>6. CASE LoopWaits(v, j, t)
      <3>1. v \in Workers /\ v # Main /\ j \in 1..Depth(v) /\ stack[v][j].kind = "loop"
        BY <2>6, WorkerIds DEF LoopWaits
      <3>2. j <= Depth(v)
        BY <1>0, <3>1, StackTypes
      <3> QED BY <2>2, <3>1, <3>2 DEF LiveEvent
    <2> QED BY <2>4, <2>5, <2>6 DEF Waits
  <1> QED BY <1>3, <1>4, <1>5 DEF NoDanglingEvent

\* No continuation and no wake-up signals a wait event whose frame is gone, and a
\* worker is in the list of sleepers at most once.
THEOREM NoDangling == Spec => []NoDanglingEvent
  <1>1. IInv => NoDanglingEvent
    BY EventsLive
  <1> QED BY <1>1, Invariance, PTL

\* Workers never all sleep while a task is queued: neither the unlocked look at
\* num_waiters nor a wake-up given to a worker that leaves its loop loses a task.
THEOREM NoTaskLeftAsleep == Spec => []NoLostWakeup
  <1>1. IInv => NoLostWakeup
    <2> SUFFICES ASSUME IInv, \A w \in Workers : Asleep(w)
                 PROVE  public = <<>> /\ \A w \in Workers : deque[w] = <<>>
      BY DEF NoLostWakeup
    <2>1. public = <<>>
      BY DEF IInv, Work
    <2>2. \A w \in Workers : ~ Busy(w)
      BY DEF Asleep, At, Busy
    <2> QED BY <2>1, <2>2 DEF IInv, Work
  <1> QED BY <1>1, Invariance, PTL

\* The destructor joins only threads whose handle was assigned, and when it returns
\* every worker has left, nothing is queued and every scheduled task has run.
THEOREM Drained == Spec => []DestructorDrains
  <1>1. IInv => DestructorDrains
    <2> SUFFICES ASSUME IInv PROVE DestructorDrains
      OBVIOUS
    <2>0. TypeOK /\ Frames /\ Queued /\ Running /\ Sleepers /\ Work /\ Starts /\ Ends
      BY DEF IInv
    <2>1. ASSUME mpc = "join" PROVE handle[mip]
      <3> SUFFICES ASSUME ~ handle[mip] PROVE FALSE
        OBVIOUS
      <3>1. mip \in Workers /\ \A w \in Workers : w < mip => range[w] = -1
        BY <2>0, <2>1 DEF Ends, Exited
      <3>2. PICK w \in Workers : w < mip /\ range[w] > 1
        BY <2>0, <3>1 DEF Starts
      <3> QED BY <3>1, <3>2
    <2>2. ASSUME mpc = "done"
          PROVE  /\ public = <<>> /\ \A w \in Workers : Exited(w) /\ deque[w] = <<>>
                 /\ waiters = <<>> /\ lock = Free
                 /\ \A t \in Tasks : tstate[t] \in {"new", "flushed"}
      <3>1. \A w \in Workers : Exited(w) /\ stack[w] = <<>>
        BY <2>0, <2>2 DEF Ends, Exited
      <3>2. 0 \in Workers
        BY PoolAssumption DEF Workers
      <3>3. public = <<>> /\ \A w \in Workers : deque[w] = <<>>
        BY <2>0, <3>1, <3>2 DEF Ends, Work, Busy
      <3>4. lock = Free
        BY <2>0, <3>1 DEF Work, At, TypeOK
      <3>5. waiters = <<>>
        <4>1. \A w \in Workers : ~ Sleeping(w)
          BY <3>1 DEF Sleeping, At
        <4>2. \A i \in 1..Len(waiters) : FALSE
          <5> SUFFICES ASSUME NEW i \in 1..Len(waiters) PROVE FALSE
            OBVIOUS
          <5>1. waiters[i] \in Events /\ Holds(waiters, waiters[i])
            BY <2>0, ElementOfSeq DEF Holds, TypeOK
          <5>2. PICK v \in Threads, j \in 1..MaxDepth : waiters[i] = <<v, j>>
            BY <5>1 DEF Events
          <5>3. j \in Nat
            OBVIOUS
          <5> QED BY <2>0, <4>1, <5>1, <5>2, <5>3 DEF Sleepers
        <4>3. waiters \in Seq(Events) /\ Len(waiters) \in Nat
          BY <2>0, LenProperties DEF TypeOK
        <4>4. Len(waiters) = 0
          BY <4>2, <4>3
        <4> QED BY <4>3, <4>4, EmptySeq
      <3>6. ASSUME NEW t \in Tasks PROVE tstate[t] \in {"new", "flushed"}
        <4>1. \A s, y : s = <<>> => ~ Holds(s, y)
          BY DEF Holds
        <4>2. tstate[t] # "queued"
          BY <2>0, <3>3, <4>1 DEF Queued
        <4>3. \A w \in Workers : \A i : ~ Runs(w, i, t)
          BY <3>1 DEF Runs, Depth
        <4>4. tstate[t] \notin {"running", "finished"}
          BY <2>0, <4>3 DEF Running
        <4>5. tstate[t] \in {"new", "queued", "running", "finished", "flushed"}
          BY <2>0 DEF TypeOK
        <4> QED BY <4>2, <4>4, <4>5
      <3> QED BY <3>1, <3>3, <3>4, <3>5, <3>6
    <2> QED BY <2>1, <2>2 DEF DestructorDrains
  <1> QED BY <1>1, Invariance, PTL


\* What holds of worker w when its innermost frame, a wait, is left.
WaitEnds(w) ==
    /\ Ready(Top(w).task)
    /\ \A t \in Tasks : Event(w) \notin conts'[t]
    /\ \A i \in 1..Len(waiters') : waiters'[i] # Event(w)

\* Only a return makes a stack smaller.
LEMMA SetIsNoReturn ==
    ASSUME TypeOK, NEW w \in Workers, stack[w] # <<>>, NEW f \in FrameSet, Set(w, f)
    PROVE  ~ (Len(stack'[w]) < Depth(w))
  <1>1. Len(stack'[w]) = Depth(w) /\ Depth(w) \in Nat
    BY SetReplaces, StackTypes DEF Replaces
  <1> QED BY <1>1

\* Moving to another place in the code leaves no frame.
LEMMA GoIsNoReturn ==
    ASSUME TypeOK, NEW w \in Workers, stack[w] # <<>>,
           NEW p \in {"pop", "sleep", "test", "wake", "flush"}, Go(w, p)
    PROVE  ~ (Len(stack'[w]) < Depth(w))
  <1>1. Top(w) \in FrameSet
    BY StackTypes DEF Top
  <1>2. PICK f : f = [Top(w) EXCEPT !.pc = p]
    OBVIOUS
  <1>3. f \in FrameSet
    BY <1>1, <1>2 DEF FrameSet
  <1> QED BY <1>2, <1>3, SetIsNoReturn DEF Go

\* Nor does starting to steal.
LEMMA GoStealIsNoReturn ==
    ASSUME TypeOK, NEW w \in Workers, stack[w] # <<>>, GoSteal(w)
    PROVE  ~ (Len(stack'[w]) < Depth(w))
  <1>1. Top(w) \in FrameSet
    BY StackTypes DEF Top
  <1>2. PICK f : f = [Top(w) EXCEPT !.pc = "steal", !.left = Workers \ {w}, !.fin = FALSE]
    OBVIOUS
  <1>3. f \in FrameSet
    BY <1>1, <1>2 DEF FrameSet
  <1> QED BY <1>2, <1>3, SetIsNoReturn DEF GoSteal

\* Nor does running a task.
LEMMA CallIsNoReturn ==
    ASSUME TypeOK, NEW w \in Workers, stack[w] # <<>>, NEW t \in Tasks, Call(w, t)
    PROVE  ~ (Len(stack'[w]) < Depth(w))
  <1>1. Len(stack'[w]) = Depth(w) + 1 /\ Depth(w) \in Nat
    BY CallEnters, StackTypes DEF Enters
  <1> QED BY <1>1

\* A wait that ends before it slept has a task that finished and no event
\* given out.
LEMMA LoopCheckEndsWait ==
    ASSUME IInv, NEW w \in Workers, LoopCheck(w), Len(stack'[w]) < Depth(w)
    PROVE  WaitEnds(w)
  <1>0. TypeOK /\ Frames /\ Signals /\ Sleepers
    BY DEF IInv
  <1>1. /\ stack[w] # <<>> /\ Top(w).kind = "loop" /\ Top(w).pc = "check"
        /\ waiters' = waiters /\ conts' = conts
    BY DEF LoopCheck, At, tasks
  <1>2. w \in Threads /\ w # Main /\ Depth(w) \in Nat
    BY <1>0, <1>1, TopFrame, WorkerIds
  <1>3. ~ Go(w, "pop")
    BY <1>0, <1>1, GoIsNoReturn
  <1>4. /\ Top(w).task # None
        /\ IF Top(w).added THEN "finished" \in Mask(Event(w)) ELSE Ready(Top(w).task)
    BY <1>3 DEF LoopCheck
  <1>5. Ready(Top(w).task) /\ \A t \in Tasks : Event(w) \notin conts[t]
    <2>1. CASE Top(w).added
      <3>1. <<Event(w), "finished">> \in pending
        BY <1>4, <2>1 DEF Mask
      <3> QED BY <1>0, <1>1, <3>1, SignalledOnce
    <2>2. CASE ~ Top(w).added
      <3>1. \A t \in Tasks : ~ Waits(w, Depth(w), t)
        BY <1>2, <2>2 DEF Waits, MainWaits, LoopWaits, Top
      <3> QED BY <1>0, <1>2, <1>4, <2>2, <3>1 DEF Signals, Event
    <2> QED BY <2>1, <2>2
  <1>6. \A i \in 1..Len(waiters) : waiters[i] # Event(w)
    <2>1. ~ Sleeping(w)
      BY <1>1 DEF Sleeping, At
    <2>2. ~ Holds(waiters, Event(w))
      BY <1>0, <1>2, <2>1 DEF Sleepers, Event
    <2> QED BY <2>2 DEF Holds
  <1> QED BY <1>1, <1>5, <1>6 DEF WaitEnds

\* A wait that ends after it slept was told so, and its event is given out to
\* nobody.
LEMMA LoopRelockEndsWait ==
    ASSUME IInv, NEW w \in Workers, LoopRelock(w), Len(stack'[w]) < Depth(w)
    PROVE  WaitEnds(w)
  <1>0. TypeOK /\ Frames /\ Signals /\ Sleepers
    BY DEF IInv
  <1>1. /\ stack[w] # <<>> /\ Top(w).kind = "loop" /\ At(w, "loop", "relock")
        /\ waiters' = Remove(waiters, Event(w)) /\ conts' = conts
    BY DEF LoopRelock, At, tasks
  <1>2. w \in Threads /\ w # Main /\ Depth(w) \in Nat
    BY <1>0, <1>1, TopFrame, WorkerIds
  <1>3. ~ GoSteal(w)
    BY <1>0, <1>1, GoStealIsNoReturn
  <1>4. Top(w).task # None /\ Top(w).fin
    BY <1>3 DEF LoopRelock
  <1>5. PICK u \in Tasks : u = Top(w).task
    BY <1>0, <1>1, <1>4, TopFrame DEF FrameSet
  <1>6. Told(w, u)
    BY <1>1, <1>4, <1>5 DEF Told
  <1>7. Ready(u) /\ Event(w) \notin conts[u]
    BY <1>0, <1>6 DEF Signals
  <1>8. \A t \in Tasks : Event(w) \notin conts[t]
    <2> SUFFICES ASSUME NEW t \in Tasks, Event(w) \in conts[t] PROVE FALSE
      OBVIOUS
    <2>1. Waits(w, Depth(w), t)
      BY <1>0, <1>2 DEF Signals, Event
    <2>2. t = u
      BY <1>2, <1>5, <2>1 DEF Waits, MainWaits, LoopWaits, Top
    <2> QED BY <1>7, <2>2
  <1>9. ~ Holds(waiters', Event(w))
    <2>1. waiters \in Seq(Events) /\ NoRepeat(waiters)
      BY <1>0 DEF TypeOK, Sleepers
    <2> QED BY <1>1, <2>1, RemoveHolds
  <1> QED BY <1>1, <1>5, <1>7, <1>8, <1>9 DEF WaitEnds, Holds

\* Nor does a step that leaves the stack alone.
LEMMA OthersNoReturn ==
    ASSUME TypeOK, NEW w \in Workers, stack'[w] = stack[w]
    PROVE  ~ (Len(stack'[w]) < Depth(w))
  <1>1. Len(stack'[w]) = Depth(w) /\ Depth(w) \in Nat
    BY StackTypes DEF Depth
  <1> QED BY <1>1

\* Every other step of a worker that waits keeps the frame of its wait.
LEMMA LoopNoReturn ==
    ASSUME IInv, NEW w \in Workers, Top(w).kind = "loop", Top(w).task # None,
           WorkerStep(w), ~ LoopCheck(w), ~ LoopRelock(w)
    PROVE  ~ (Len(stack'[w]) < Depth(w))
  <1>0. TypeOK /\ Frames /\ Queued /\ Starts
    BY DEF IInv
  <1>1. CASE StartThread(w) \/ AssignHandle(w)
    BY <1>0, <1>1, OthersNoReturn DEF StartThread, AssignHandle
  <1>2. CASE EnterMainLoop(w)
    <2>1. stack[w] = <<>>
      BY <1>0, <1>2 DEF EnterMainLoop, Starts
    <2>2. Depth(w) = 0
      BY <2>1 DEF Depth
    <2>3. stack'[w] = <<Frame("loop", None)>>
      BY <1>0, <1>2 DEF EnterMainLoop, TypeOK
    <2> QED BY <2>2, <2>3
  <1>3. CASE LoopPop(w)
    <2>1. stack[w] # <<>> /\ deque[w] \in Seq(Tasks)
      BY <1>0, <1>3 DEF LoopPop, At, TypeOK
    <2>2. deque[w] # <<>> => deque[w][Len(deque[w])] \in Tasks
      BY <2>1, FrontHolds
    <2> QED BY <1>0, <1>3, <2>1, <2>2, CallIsNoReturn, GoStealIsNoReturn DEF LoopPop
  <1>4. CASE LoopSteal(w)
    <2>1. stack[w] # <<>>
      BY <1>4 DEF LoopSteal, At
    <2>2. Top(w).left \subseteq Workers
      BY <1>0, <2>1, TopFrame DEF FrameSet
    <2>3. PICK v \in Workers : deque[v] # <<>> /\ Call(w, Head(deque[v]))
      BY <1>4, <2>2 DEF LoopSteal
    <2>4. Head(deque[v]) \in Tasks
      BY <1>0, <2>3, TailHolds DEF TypeOK
    <2> QED BY <1>0, <2>1, <2>3, <2>4, CallIsNoReturn
  <1>5. CASE LoopStealMisses(w)
    <2>1. stack[w] # <<>>
      BY <1>5 DEF LoopStealMisses, At
    <2>2. PICK v : Set(w, [Top(w) EXCEPT !.left = @ \ {v}])
      BY <1>5 DEF LoopStealMisses
    <2>3. Top(w) \in FrameSet
      BY <1>0, <2>1, TopFrame
    <2>4. [Top(w) EXCEPT !.left = @ \ {v}] \in FrameSet
      BY <2>3 DEF FrameSet
    <2> QED BY <1>0, <2>1, <2>2, <2>4, SetIsNoReturn
  <1>6. CASE LoopPublic(w)
    <2>1. stack[w] # <<>> /\ public # <<>> /\ Call(w, Head(public))
      BY <1>6 DEF LoopPublic, At
    <2>2. Head(public) \in Tasks
      BY <1>0, <2>1, TailHolds DEF TypeOK
    <2> QED BY <1>0, <2>1, <2>2, CallIsNoReturn
  <1>7. CASE LoopExit(w)
    BY <1>7 DEF LoopExit
  <1>8. CASE LoopPrepare(w)
    <2>1. stack[w] # <<>>
      BY <1>8 DEF LoopPrepare, At
    <2>2. Top(w) \in FrameSet
      BY <1>0, <2>1, TopFrame
    <2>3. PICK f : f = [Top(w) EXCEPT !.pc = "append", !.added = Top(w).task # None]
      OBVIOUS
    <2>4. f \in FrameSet /\ Set(w, f)
      BY <1>8, <2>2, <2>3 DEF FrameSet, LoopPrepare
    <2> QED BY <1>0, <2>1, <2>4, SetIsNoReturn
  <1>9. CASE LoopAppend(w)
    BY <1>0, <1>9, GoIsNoReturn DEF LoopAppend, At
  <1>10. CASE LoopWake(w)
    <2>1. stack[w] # <<>>
      BY <1>10 DEF LoopWake, At
    <2>2. Top(w) \in FrameSet
      BY <1>0, <2>1, TopFrame
    <2>3. PICK told \in BOOLEAN : told = ("finished" \in Mask(Event(w)))
      <3>1. ("finished" \in Mask(Event(w))) \in BOOLEAN
        OBVIOUS
      <3> QED BY <3>1, Zenon
    <2>4. PICK f : f = [Top(w) EXCEPT !.pc = "relock", !.fin = told]
      OBVIOUS
    <2>5. f \in FrameSet
      BY <2>2, <2>4 DEF FrameSet
    <2>6. Set(w, f)
      BY <1>10, <2>3, <2>4 DEF LoopWake
    <2> QED BY <1>0, <2>1, <2>5, <2>6, SetIsNoReturn
  <1>11. ~ RunStep(w)
    BY DEF RunStep, RunSpawn, RunTestWaiters, RunWake, RunWait, RunFinish, RunFlush, RunReturn, HasOp, At
  <1> QED BY <1>1, <1>2, <1>3, <1>4, <1>5, <1>6, <1>7, <1>8, <1>9, <1>10, <1>11
       DEF WorkerStep, LoopStep

\* A step of worker v leaves the stacks of the others alone.
LEMMA StepOfOne ==
    ASSUME IInv, NEW v \in Workers, WorkerStep(v), NEW w \in Workers, w # v
    PROVE  stack'[w] = stack[w]
  <1>0. TypeOK
    BY DEF IInv
  <1>1. DOMAIN stack = Workers /\ \A s : [stack EXCEPT ![v] = s][w] = stack[w]
    BY <1>0, StackTypes
  <1>2. \A f : Set(v, f) => stack'[w] = stack[w]
    BY <1>1 DEF Set
  <1>3. \A p : Go(v, p) => stack'[w] = stack[w]
    BY <1>2 DEF Go
  <1>4. GoSteal(v) => stack'[w] = stack[w]
    BY <1>2 DEF GoSteal
  <1>5. \A t : Call(v, t) => stack'[w] = stack[w]
    BY <1>1 DEF Call
  <1>6. Return(v) => stack'[w] = stack[w]
    BY <1>1 DEF Return
  <1>7. Advance(v) => stack'[w] = stack[w]
    BY <1>2 DEF Advance
  <1>8. StartThread(v) \/ AssignHandle(v) \/ EnterMainLoop(v) => stack'[w] = stack[w]
    BY <1>1 DEF StartThread, AssignHandle, EnterMainLoop
  <1>9. LoopStep(v) => stack'[w] = stack[w]
    BY <1>2, <1>3, <1>4, <1>5, <1>6 DEF LoopStep, LoopCheck, LoopPop, LoopSteal, LoopStealMisses,
       LoopPublic, LoopExit, LoopPrepare, LoopAppend, LoopWake, LoopRelock
  <1>10. RunStep(v) => stack'[w] = stack[w]
    BY <1>1, <1>3, <1>7 DEF RunStep, RunSpawn, RunTestWaiters, RunWake, RunWait, RunFinish, RunFlush,
       RunReturn
  <1> QED BY <1>8, <1>9, <1>10 DEF WorkerStep

\* Whichever step leaves the loop of a wait, it is one of those two.
LEMMA StepEndsWait ==
    IInv /\ [Next]_vars =>
        \A w \in Workers :
            Len(stack'[w]) < Depth(w) /\ Top(w).kind = "loop" /\ Top(w).task # None => WaitEnds(w)
  <1> SUFFICES ASSUME IInv, [Next]_vars, NEW w \in Workers, Len(stack'[w]) < Depth(w),
                      Top(w).kind = "loop", Top(w).task # None
               PROVE  WaitEnds(w)
    OBVIOUS
  <1>0. stack'[w] # stack[w]
    BY OthersNoReturn DEF IInv
  <1>1. CASE MainStep
    BY <1>0, <1>1 DEF MainStep, MainSpawn, MainWait, MainWake, MainShutdown, MainJoin
  <1>2. ASSUME NEW v \in Workers, WorkerStep(v) PROVE WaitEnds(w)
    <2>1. v = w
      BY <1>0, <1>2, StepOfOne
    <2>2. LoopCheck(w) \/ LoopRelock(w)
      BY <1>2, <2>1, LoopNoReturn
    <2> QED BY <2>2, LoopCheckEndsWait, LoopRelockEndsWait
  <1>3. CASE UNCHANGED vars
    BY <1>0, <1>3 DEF vars
  <1> QED BY <1>1, <1>2, <1>3 DEF Next

\* wait() inside a task returns only when the awaited task has stored its result,
\* and from then on nobody holds the event of the frame it leaves.
THEOREM WaitReturnsReady == Spec => WaitMeansFinished
  <1>1. IInv /\ [Next]_vars =>
           [ \A w \in Workers :
               Len(stack'[w]) < Depth(w) /\ Top(w).kind = "loop" /\ Top(w).task # None
                 => /\ Ready(Top(w).task)
                    /\ \A t \in Tasks : Event(w) \notin conts'[t]
                    /\ \A i \in 1..Len(waiters') : waiters'[i] # Event(w) ]_vars
    BY StepEndsWait DEF WaitEnds
  <1> QED BY <1>1, Invariance, PTL DEF Spec, WaitMeansFinished
=============================================================================
