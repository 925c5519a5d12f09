-------------------------- MODULE FifoQueue_proofs --------------------------
(***************************************************************************)
(* Proofs about FifoQueue, for every number of calls of push() and of      *)
(* threads that take tasks, so for every number of times the array grows.  *)
(***************************************************************************)
EXTENDS FifoQueue, SequenceTheorems, TLAPS

-----------------------------------------------------------------------------
(* The inductive invariant. *)

\* What the queue has given out and still has, in order.
Rest == IF closed THEN <<>> ELSE Queued
Order == out \o Rest

Out == {out[i] : i \in 1..Len(out)}

\* A task given out is being run by one runner, or was run or cancelled; nothing
\* else was, but for the tasks that were refused.
Taken ==
    /\ \A r \in Runners : running[r] # None => running[r] \in Out /\ running[r] \notin done
    /\ \A r, s \in Runners : running[r] = running[s] /\ running[r] # None => r = s
    /\ \A t \in done : t \in Out \/ t \in refused
    /\ \A t \in Out : t \in done \/ \E r \in Runners : running[r] = t

IInv == TypeOK /\ FifoOrder /\ Taken

-----------------------------------------------------------------------------
(* Sizes. *)

\* Growing keeps the size a power of two.
LEMMA DoublePower == ASSUME NEW n, PowerOfTwo(n) PROVE PowerOfTwo(2 * n)
  <1>0. n \in Nat \ {0}
    BY DEF PowerOfTwo
  <1> SUFFICES ASSUME NEW d \in 1..(2 * n), (2 * n) % d = 0, d % 2 = 1
               PROVE  d = 1
    BY <1>0 DEF PowerOfTwo
  <1>1. PICK q \in Nat : 2 * n = d * q
    <2>1. 2 * n = d * ((2 * n) \div d) + ((2 * n) % d) /\ (2 * n) \div d \in Nat
      BY <1>0, SMT
    <2> DEFINE q == (2 * n) \div d
    <2>2. q \in Nat /\ 2 * n = d * q
      BY <1>0, <2>1
    <2> HIDE DEF q
    <2> QED BY <2>2
  <1>2. PICK e \in Nat : d = 2 * e + 1
    <2>1. d = 2 * (d \div 2) + 1 /\ d \div 2 \in Nat
      BY SMT
    <2> QED BY <2>1
  <1>3. PICK p \in Nat : q = 2 * p
    <2>1. 2 * n = 2 * (e * q) + q /\ e * q \in Nat
      BY <1>1, <1>2
    <2>2. q = 2 * (n - e * q) /\ n - e * q \in Nat
      BY <1>0, <2>1
    <2> QED BY <2>2
  <1>4. n = d * p
    <2>1. 2 * n = 2 * (d * p) /\ d * p \in Nat
      BY <1>1, <1>3
    <2> QED BY <1>0, <2>1
  <1>5. n % d = 0 /\ d <= n
    <2>1. p >= 1
      BY <1>0, <1>4
    <2>2. d * p >= d
      BY <2>1
    <2>3. (d * p) % d = 0
      BY SMT
    <2> QED BY <1>4, <2>2, <2>3
  <1> QED BY <1>0, <1>5 DEF PowerOfTwo

\* 32, the size of the first array, is a power of two.
LEMMA FirstSize == PowerOfTwo(InitSize) /\ InitSize >= 2 /\ InitSize \in Nat
  <1>1. PowerOfTwo(1)
    BY DEF PowerOfTwo
  <1>2. PowerOfTwo(2) BY <1>1, DoublePower, 2 * 1 = 2
  <1>3. PowerOfTwo(4) BY <1>2, DoublePower, 2 * 2 = 4
  <1>4. PowerOfTwo(8) BY <1>3, DoublePower, 2 * 4 = 8
  <1>5. PowerOfTwo(16) BY <1>4, DoublePower, 2 * 8 = 16
  <1>6. PowerOfTwo(32) BY <1>5, DoublePower, 2 * 16 = 32
  <1> QED BY <1>2, <1>3, <1>4, <1>5, <1>6, FifoAssumption

\* Indices wrap around at most once.
LEMMA Wrap ==
    ASSUME NEW n \in Nat, n >= 2, NEW x \in Int, -n <= x, x < 2 * n
    PROVE  x % n = IF x < 0 THEN x + n ELSE IF x < n THEN x ELSE x - n
  <1>1. CASE x < 0
    <2>1. (x + n) \in 0..(n - 1)
      BY <1>1
    <2>2. x = n * (-1) + (x + n)
      BY <2>1
    <2> QED BY <1>1, <2>1, <2>2, SMT
  <1>2. CASE x >= 0 /\ x < n
    BY <1>2, SMT
  <1>3. CASE x >= n
    <2>1. (x - n) \in 0..(n - 1) /\ x = n * 1 + (x - n)
      BY <1>3
    <2> QED BY <1>3, <2>1, SMT
  <1> QED BY <1>1, <1>2, <1>3

-----------------------------------------------------------------------------
(* The ring, for an array it of n slots with head h and tail t. *)

\* What a slot may hold.
Content == Tasks \union {None}

QueuedOf(it, h, t, n) == [i \in 1..((t - h) % n) |-> it[(h + i - 1) % n]]

Count(h, t, n) == IF t >= h THEN t - h ELSE t - h + n

Slot(h, k, n) == IF h + k < n THEN h + k ELSE h + k - n

\* The queue of the model in terms of its variables.
LEMMA QueuedIs == Queued = QueuedOf(items, head, tail, size)
  BY DEF Queued, QueuedOf, Length

\* Arithmetic of indices, used below where it meets arrays.
LEMMA SuccIs ==
    ASSUME NEW n \in Nat, n >= 2, NEW h \in 0..(n - 1)
    PROVE  (h + 1) % n = (IF h + 1 < n THEN h + 1 ELSE 0) /\ (h + 1) % n \in 0..(n - 1)
  <1>1. (h + 1) % n = IF h + 1 < n THEN h + 1 ELSE h + 1 - n
    BY Wrap
  <1> QED BY <1>1

\* The slot of the k-th task from the head.
LEMMA SlotIs ==
    ASSUME NEW n \in Nat, n >= 2, NEW h \in 0..(n - 1), NEW k \in 0..(n - 1)
    PROVE  /\ (h + k) % n = Slot(h, k, n) /\ (k + h) % n = Slot(h, k, n)
           /\ (h + (k + 1) - 1) % n = Slot(h, k, n)
           /\ Slot(h, k, n) \in 0..(n - 1)
  <1>1. (h + k) % n = IF h + k < n THEN h + k ELSE h + k - n
    <2>1. PICK y \in Int : y = h + k
      OBVIOUS
    <2>2. 0 <= y /\ -n <= y /\ y < 2 * n
      BY <2>1
    <2>3. y % n = IF y < 0 THEN y + n ELSE IF y < n THEN y ELSE y - n
      BY <2>2, Wrap
    <2> QED BY <2>1, <2>2, <2>3
  <1>2. k + h = h + k /\ h + (k + 1) - 1 = h + k
    OBVIOUS
  <1> QED BY <1>1, <1>2 DEF Slot

\* The number of tasks from head to tail.
LEMMA CountIs ==
    ASSUME NEW n \in Nat, n >= 2, NEW h \in 0..(n - 1), NEW t \in 0..(n - 1)
    PROVE  (t - h) % n = Count(h, t, n) /\ Count(h, t, n) \in 0..(n - 1)
  <1>1. (t - h) % n = IF t - h < 0 THEN t - h + n ELSE IF t - h < n THEN t - h ELSE t - h - n
    <2>1. PICK y \in Int : y = t - h
      OBVIOUS
    <2>2. -n <= y /\ y < 2 * n
      BY <2>1
    <2>3. y % n = IF y < 0 THEN y + n ELSE IF y < n THEN y ELSE y - n
      BY <2>2, Wrap
    <2> QED BY <2>1, <2>3
  <1> QED BY <1>1 DEF Count

\* One slot more at the end of a ring that is not full.
LEMMA OneMore ==
    ASSUME NEW n \in Nat, n >= 2, NEW h \in 0..(n - 1), NEW t \in 0..(n - 1), h # (t + 1) % n
    PROVE  /\ Count(h, (t + 1) % n, n) = Count(h, t, n) + 1
           /\ Slot(h, Count(h, t, n), n) = t
           /\ \A k \in 0..(Count(h, t, n) - 1) : Slot(h, k, n) # t
           /\ \A k \in 0..Count(h, t, n) : Slot(h, k, n) \in 0..(n - 1)
           /\ Count(h, t, n) \in Nat
  <1>1. PICK u \in 0..(n - 1) : u = (t + 1) % n /\ u = IF t + 1 < n THEN t + 1 ELSE 0
    BY SuccIs
  <1>2. Count(h, u, n) = Count(h, t, n) + 1
    BY <1>1 DEF Count
  <1>3. Slot(h, Count(h, t, n), n) = t
    BY DEF Count, Slot
  <1>4. \A k \in 0..(Count(h, t, n) - 1) : Slot(h, k, n) # t
    BY DEF Count, Slot
  <1>5. \A k \in 0..Count(h, t, n) : Slot(h, k, n) \in 0..(n - 1)
    BY DEF Count, Slot
  <1>6. Count(h, t, n) \in Nat
    BY DEF Count
  <1> QED BY <1>1, <1>2, <1>3, <1>4, <1>5, <1>6

\* One slot less at its beginning.
LEMMA OneLess ==
    ASSUME NEW n \in Nat, n >= 2, NEW h \in 0..(n - 1), NEW t \in 0..(n - 1), h # t
    PROVE  /\ Count(h, t, n) = Count((h + 1) % n, t, n) + 1
           /\ Slot(h, 0, n) = h
           /\ \A k \in 0..(Count(h, t, n) - 1) :
                 k >= 1 => Slot(h, k, n) = Slot((h + 1) % n, k - 1, n)
  <1>1. PICK u \in 0..(n - 1) : u = (h + 1) % n /\ u = IF h + 1 < n THEN h + 1 ELSE 0
    BY SuccIs
  <1>2. Count(h, t, n) = Count(u, t, n) + 1
    BY <1>1 DEF Count
  <1>3. Slot(h, 0, n) = h
    BY DEF Slot
  <1>4. \A k \in 0..(Count(h, t, n) - 1) : k >= 1 => Slot(h, k, n) = Slot(u, k - 1, n)
    BY <1>1 DEF Count, Slot
  <1> QED BY <1>1, <1>2, <1>3, <1>4

\* A queue that is about to grow holds one task less than it has slots.
LEMMA FullCount ==
    ASSUME NEW n \in Nat, n >= 2, NEW h \in 0..(n - 1), NEW t \in 0..(n - 1), h = (t + 1) % n
    PROVE  Count(h, t, n) = n - 1
  BY SuccIs DEF Count

\* The tasks in a ring are those in the slots from its head on.
LEMMA RingShape ==
    ASSUME NEW n \in Nat, n >= 2, NEW h \in 0..(n - 1), NEW t \in 0..(n - 1),
           NEW it \in [0..(n - 1) -> Content]
    PROVE  /\ QueuedOf(it, h, t, n) \in Seq(Content)
           /\ Len(QueuedOf(it, h, t, n)) = Count(h, t, n)
           /\ \A k \in 0..(Count(h, t, n) - 1) :
                 QueuedOf(it, h, t, n)[k + 1] = it[Slot(h, k, n)]
  <1> DEFINE q == QueuedOf(it, h, t, n)
             L == Count(h, t, n)
  <1>1. (t - h) % n = L /\ L \in 0..(n - 1) /\ L \in Nat
    BY CountIs
  <1>2. q = [i \in 1..L |-> it[(h + i - 1) % n]]
    BY <1>1 DEF QueuedOf
  <1> HIDE DEF q, L
  <1>3. \A k \in 0..(L - 1) : k \in 0..(n - 1) /\ k + 1 \in 1..L
    BY <1>1
  <1>4. \A k \in 0..(L - 1) :
           (h + (k + 1) - 1) % n = Slot(h, k, n) /\ Slot(h, k, n) \in 0..(n - 1)
    BY <1>3, SlotIs
  <1>5. \A k \in 0..(L - 1) : q[k + 1] = it[Slot(h, k, n)]
    BY <1>2, <1>3, <1>4
  <1>6. \A i \in 1..L : q[i] \in Content
    <2> SUFFICES ASSUME NEW i \in 1..L PROVE q[i] \in Content
      OBVIOUS
    <2>1. i - 1 \in 0..(L - 1) /\ (i - 1) + 1 = i
      BY <1>1
    <2>2. it[Slot(h, i - 1, n)] \in Content
      BY <2>1, <1>4
    <2> QED BY <2>1, <2>2, <1>5
  <1>7. q \in [1..L -> Content]
    BY <1>2, <1>6
  <1>8. q \in Seq(Content) /\ Len(q) = L
    BY <1>1, <1>7
  <1> QED BY <1>5, <1>8 DEF q, L

\* Two sequences are equal if they have the same elements, counted from 0.
LEMMA SameElements ==
    ASSUME NEW S, NEW q \in Seq(S), NEW r \in Seq(S), Len(q) = Len(r),
           \A k \in 0..(Len(q) - 1) : q[k + 1] = r[k + 1]
    PROVE  q = r
  <1>1. \A i \in 1..Len(q) : q[i] = r[i]
    <2> SUFFICES ASSUME NEW i \in 1..Len(q) PROVE q[i] = r[i]
      OBVIOUS
    <2>1. i - 1 \in 0..(Len(q) - 1) /\ (i - 1) + 1 = i
      BY LenProperties
    <2> QED BY <2>1
  <1> QED BY <1>1, SeqEqual

\* A sequence is one over any set its elements are in.
LEMMA Retype ==
    ASSUME NEW S, NEW T, NEW s \in Seq(S), \A i \in 1..Len(s) : s[i] \in T
    PROVE  s \in Seq(T)
  <1>1. PICK n \in Nat : n = Len(s)
    BY LenProperties
  <1>2. s \in [1..n -> T]
    BY <1>1, LenProperties
  <1> QED BY <1>2, SeqDef

\* Append, counted from 0.
LEMMA AppendShape ==
    ASSUME NEW S, NEW q \in Seq(S), NEW x \in S
    PROVE  /\ Append(q, x) \in Seq(S) /\ Len(Append(q, x)) = Len(q) + 1
           /\ \A k \in 0..(Len(q) - 1) : Append(q, x)[k + 1] = q[k + 1]
           /\ Append(q, x)[Len(q) + 1] = x
  <1>1. \A k \in 0..(Len(q) - 1) : k + 1 \in 1..Len(q)
    BY LenProperties
  <1> QED BY <1>1, AppendProperties

\* A push into a ring that is not full appends its task ...
\* (it2 is it with x in slot t)
Stored(it2, it, t, x, n) == it2[t] = x /\ \A s \in 0..(n - 1) : s # t => it2[s] = it[s]

\* push() without growth appends to the queue.
LEMMA StoreAppends ==
    ASSUME NEW n \in Nat, n >= 2, NEW h \in 0..(n - 1), NEW t \in 0..(n - 1),
           NEW it \in [0..(n - 1) -> Content], NEW x \in Content,
           NEW u \in 0..(n - 1), u = (t + 1) % n, h # u,
           NEW it2 \in [0..(n - 1) -> Content], Stored(it2, it, t, x, n)
    PROVE  QueuedOf(it2, h, u, n) = Append(QueuedOf(it, h, t, n), x)
  <1>1. u = (t + 1) % n
    OBVIOUS
  <1>2. it2[t] = x /\ \A s \in 0..(n - 1) : s # t => it2[s] = it[s]
    BY DEF Stored
  <1> DEFINE q == QueuedOf(it, h, t, n)
             q2 == QueuedOf(it2, h, u, n)
             L == Count(h, t, n)
  <1>3. /\ Count(h, u, n) = L + 1 /\ Slot(h, L, n) = t /\ L \in Nat
        /\ \A k \in 0..(L - 1) : Slot(h, k, n) # t
        /\ \A k \in 0..L : Slot(h, k, n) \in 0..(n - 1)
    <2> HIDE DEF q, q2
    <2> QED BY <1>1, OneMore
  <1>4. q \in Seq(Content) /\ Len(q) = L /\ \A k \in 0..(L - 1) : q[k + 1] = it[Slot(h, k, n)]
    BY RingShape
  <1>5. /\ q2 \in Seq(Content) /\ Len(q2) = L + 1
        /\ \A k \in 0..L : q2[k + 1] = it2[Slot(h, k, n)]
    <2>1. /\ q2 \in Seq(Content) /\ Len(q2) = Count(h, u, n)
          /\ \A k \in 0..(Count(h, u, n) - 1) : q2[k + 1] = it2[Slot(h, k, n)]
      BY RingShape
    <2> HIDE DEF q2, L
    <2>2. Count(h, u, n) = L + 1 /\ Count(h, u, n) - 1 = L
      BY <1>3
    <2> QED BY <2>1, <2>2
  <1> HIDE DEF q, q2, L
  <1>6. /\ Append(q, x) \in Seq(Content) /\ Len(Append(q, x)) = L + 1
        /\ \A k \in 0..(L - 1) : Append(q, x)[k + 1] = q[k + 1]
        /\ Append(q, x)[L + 1] = x
    BY <1>4, AppendShape
  <1>7. \A k \in 0..L : q2[k + 1] = Append(q, x)[k + 1]
    <2> SUFFICES ASSUME NEW k \in 0..L PROVE q2[k + 1] = Append(q, x)[k + 1]
      OBVIOUS
    <2>1. CASE k = L
      BY <1>2, <1>3, <1>5, <1>6, <2>1
    <2>2. CASE k # L
      <3>1. k \in 0..(L - 1)
        BY <1>3, <2>2
      <3> QED BY <3>1, <1>2, <1>3, <1>4, <1>5, <1>6
    <2> QED BY <2>1, <2>2
  <1>8. Len(q2) - 1 = L
    BY <1>3, <1>5
  <1>9. q2 = Append(q, x)
    BY <1>5, <1>6, <1>7, <1>8, SameElements
  <1> QED BY <1>1, <1>2, <1>9 DEF q, q2

\* ... and so does one that doubles a full ring.
\* (it2 is it from slot h on, with x in the slot that was free)
Unwound(it2, it, h, x, n) ==
    /\ it2 \in [0..(2 * n - 1) -> Content]
    /\ it2[n - 1] = x
    /\ \A s \in 0..(n - 1) : s # n - 1 => it2[s] = it[Slot(h, s, n)]

\* push() with growth appends to the queue, although it moves every slot.
LEMMA GrowAppends ==
    ASSUME NEW n \in Nat, n >= 2, NEW h \in 0..(n - 1), NEW t \in 0..(n - 1),
           NEW it \in [0..(n - 1) -> Content], NEW x \in Content, h = (t + 1) % n,
           NEW it2, Unwound(it2, it, h, x, n), NEW m \in Nat, m = 2 * n
    PROVE  QueuedOf(it2, 0, n, m) = Append(QueuedOf(it, h, t, n), x)
  <1> DEFINE q == QueuedOf(it, h, t, n)
             q2 == QueuedOf(it2, 0, n, m)
  <1>7. /\ it2 \in [0..(m - 1) -> Content]
        /\ it2[n - 1] = x /\ \A s \in 0..(n - 1) : s # n - 1 => it2[s] = it[Slot(h, s, n)]
    BY DEF Unwound
  <1>8. /\ Len(q) = n - 1 /\ q \in Seq(Content)
        /\ \A k \in 0..(n - 1 - 1) : q[k + 1] = it[Slot(h, k, n)]
    <2>1. /\ Len(q) = Count(h, t, n) /\ q \in Seq(Content)
          /\ \A k \in 0..(Count(h, t, n) - 1) : q[k + 1] = it[Slot(h, k, n)]
      BY RingShape
    <2> HIDE DEF q, q2
    <2>2. Count(h, t, n) = n - 1
      BY FullCount
    <2> QED BY <2>1, <2>2
  <1>9. /\ Len(q2) = n /\ q2 \in Seq(Content)
        /\ \A k \in 0..(n - 1) : q2[k + 1] = it2[k]
    <2>0. m \in Nat /\ m = 2 * n /\ m >= 2 /\ 0 \in 0..(m - 1) /\ n \in 0..(m - 1)
                           /\ Count(0, n, m) = n
      BY DEF Count
    <2>1. \A k \in 0..(n - 1) : Slot(0, k, m) = k
      BY <2>0 DEF Slot
    <2>2. /\ QueuedOf(it2, 0, n, m) \in Seq(Content) /\ Len(QueuedOf(it2, 0, n, m)) = Count(0, n, m)
          /\ \A k \in 0..(Count(0, n, m) - 1) :
                QueuedOf(it2, 0, n, m)[k + 1] = it2[Slot(0, k, m)]
      <3>2. PICK z \in 0..(m - 1) : z = 0
        BY <2>0
      <3>3. PICK e \in 0..(m - 1) : e = n
        BY <2>0
      <3> HIDE DEF q, q2
      <3>4. /\ QueuedOf(it2, z, e, m) \in Seq(Content) /\ Len(QueuedOf(it2, z, e, m)) = Count(z, e, m)
            /\ \A k \in 0..(Count(z, e, m) - 1) :
                  QueuedOf(it2, z, e, m)[k + 1] = it2[Slot(z, k, m)]
        BY <1>7, <2>0, RingShape
      <3> QED BY <3>2, <3>3, <3>4
    <2>3. q2 = QueuedOf(it2, 0, n, m)
      BY <2>0
    <2> HIDE DEF q2
    <2> QED BY <2>0, <2>1, <2>2, <2>3
  <1> HIDE DEF q, q2
  <1>10. /\ Append(q, x) \in Seq(Content) /\ Len(Append(q, x)) = n
         /\ \A k \in 0..(n - 1 - 1) : Append(q, x)[k + 1] = q[k + 1]
         /\ Append(q, x)[n - 1 + 1] = x
    <2>1. n - 1 + 1 = n
      OBVIOUS
    <2> QED BY <1>8, <2>1, AppendShape
  <1>11. \A k \in 0..(n - 1) : q2[k + 1] = Append(q, x)[k + 1]
    <2> SUFFICES ASSUME NEW k \in 0..(n - 1) PROVE q2[k + 1] = Append(q, x)[k + 1]
      OBVIOUS
    <2>1. CASE k = n - 1
      BY <1>7, <1>9, <1>10, <2>1
    <2>2. CASE k # n - 1
      <3>1. k \in 0..(n - 1 - 1)
        BY <2>2
      <3>2. q2[k + 1] = it2[k] /\ it2[k] = it[Slot(h, k, n)]
        BY <2>2, <1>7, <1>9
      <3>3. Append(q, x)[k + 1] = q[k + 1] /\ q[k + 1] = it[Slot(h, k, n)]
        BY <3>1, <1>8, <1>10
      <3> QED BY <3>2, <3>3
    <2> QED BY <2>1, <2>2
  <1>12. q2 = Append(q, x)
    BY <1>9, <1>10, <1>11, SameElements
  <1> QED BY <1>12 DEF q, q2

\* The array of a ring that is doubled, with task x in the slot that was free.
Grown(it, h, n, x) ==
    [[s \in 0..(2 * n - 1) |-> IF s < n THEN it[(s + h) % n] ELSE None] EXCEPT ![n - 1] = x]

\* Growing unwinds the ring: the head comes to slot 0.
LEMMA GrownShape ==
    ASSUME NEW n \in Nat, n >= 2, NEW h \in 0..(n - 1),
           NEW it \in [0..(n - 1) -> Content], NEW x \in Content
    PROVE  Unwound(Grown(it, h, n, x), it, h, x, n)
  <1> DEFINE it1 == [s \in 0..(2 * n - 1) |-> IF s < n THEN it[(s + h) % n] ELSE None]
             it2 == Grown(it, h, n, x)
  <1>1. \A s \in 0..(n - 1) : (s + h) % n = Slot(h, s, n) /\ Slot(h, s, n) \in 0..(n - 1)
    BY SlotIs
  <1>2. \A s \in 0..(2 * n - 1) : s < n => s \in 0..(n - 1)
    OBVIOUS
  <1>3. \A s \in 0..(n - 1) : s < n /\ s \in 0..(2 * n - 1)
    OBVIOUS
  <1>4. /\ it1 \in [0..(2 * n - 1) -> Content]
        /\ \A s \in 0..(n - 1) : it1[s] = it[Slot(h, s, n)]
    <2>1. \A s \in 0..(2 * n - 1) : s < n => it[(s + h) % n] \in Content
      BY <1>1, <1>2
    <2>2. None \in Content
      BY DEF Content
    <2> QED BY <1>1, <1>3, <2>1, <2>2
  <1> HIDE DEF it1
  <1>5. n - 1 \in 0..(2 * n - 1)
    OBVIOUS
  <1>6. it2 = [it1 EXCEPT ![n - 1] = x]
    BY DEF Grown, it1
  <1> HIDE DEF it2
  <1>7. /\ it2 \in [0..(2 * n - 1) -> Content] /\ it2[n - 1] = x
        /\ \A s \in 0..(n - 1) : s # n - 1 => it2[s] = it[Slot(h, s, n)]
    BY <1>3, <1>4, <1>5, <1>6
  <1> QED BY <1>7 DEF it2, Unwound

\* pop() takes the first task.
LEMMA TakeDropsHead ==
    ASSUME NEW n \in Nat, n >= 2, NEW h \in 0..(n - 1), NEW t \in 0..(n - 1),
           NEW it \in [0..(n - 1) -> Content], h # t
    PROVE  LET q == QueuedOf(it, h, t, n)
           IN  /\ q # <<>> /\ q \in Seq(Content) /\ Head(q) = it[h]
               /\ Tail(q) = QueuedOf(it, (h + 1) % n, t, n)
  <1>1. PICK u \in 0..(n - 1) : u = (h + 1) % n
    BY SuccIs
  <1> DEFINE q == QueuedOf(it, h, t, n)
             q2 == QueuedOf(it, u, t, n)
             L == Count(h, t, n)
             L2 == Count(u, t, n)
  <1>2. L = L2 + 1 /\ L2 \in Nat /\ L - 1 = L2 /\ Slot(h, 0, n) = h
    <2>1. L = L2 + 1 /\ L2 \in 0..(n - 1) /\ Slot(h, 0, n) = h
      BY <1>1, OneLess, CountIs
    <2> QED BY <2>1
  <1>3. q \in Seq(Content) /\ Len(q) = L /\ \A k \in 0..(L - 1) : q[k + 1] = it[Slot(h, k, n)]
    BY RingShape
  <1>4. q2 \in Seq(Content) /\ Len(q2) = L2 /\ \A k \in 0..(L2 - 1) : q2[k + 1] = it[Slot(u, k, n)]
    BY RingShape
  <1>5. \A k \in 0..(L2 - 1) : Slot(h, k + 1, n) = Slot(u, k, n)
    <2> SUFFICES ASSUME NEW k \in 0..(L2 - 1) PROVE Slot(h, k + 1, n) = Slot(u, k, n)
      OBVIOUS
    <2>1. k + 1 \in 0..(L - 1) /\ k + 1 >= 1 /\ (k + 1) - 1 = k
      BY <1>2
    <2>2. Slot(h, k + 1, n) = Slot(u, (k + 1) - 1, n)
      BY <1>1, <2>1, OneLess
    <2> QED BY <2>1, <2>2
  <1> HIDE DEF q, q2, L, L2
  <1>6. q # <<>> /\ q[1] = it[h]
    <2>1. 0 \in 0..(L - 1) /\ 0 + 1 = 1 /\ L # 0
      BY <1>2
    <2> QED BY <1>2, <1>3, <2>1
  <1>7. Head(q) = it[h]
    BY <1>6
  <1>8. /\ Tail(q) \in Seq(Content) /\ Len(Tail(q)) = L2
        /\ \A i \in 1..L2 : Tail(q)[i] = q[i + 1]
    BY <1>2, <1>3, <1>6, HeadTailProperties
  <1>9. \A k \in 0..(L2 - 1) : q2[k + 1] = Tail(q)[k + 1]
    <2> SUFFICES ASSUME NEW k \in 0..(L2 - 1) PROVE q2[k + 1] = Tail(q)[k + 1]
      OBVIOUS
    <2>1. k + 1 \in 1..L2 /\ k + 1 \in 0..(L - 1)
      BY <1>2
    <2> QED BY <2>1, <1>3, <1>4, <1>5, <1>8
  <1>10. q2 = Tail(q)
    BY <1>4, <1>8, <1>9, SameElements
  <1> QED BY <1>1, <1>3, <1>6, <1>7, <1>10 DEF q, q2


\* Appending to the second of two sequences appends to both.
LEMMA AppendLast ==
    ASSUME NEW S, NEW o \in Seq(S), NEW q \in Seq(S), NEW x \in S
    PROVE  o \o Append(q, x) = Append(o \o q, x)
  <1>1. <<x>> \in Seq(S) /\ o \o q \in Seq(S)
    BY ConcatProperties
  <1> QED BY <1>1, AppendIsConcat, ConcatAssociative

\* Moving the head of the second to the end of the first leaves the two
\* together as they are.
LEMMA MoveHead ==
    ASSUME NEW S, NEW o \in Seq(S), NEW q \in Seq(S), q # <<>>
    PROVE  Append(o, Head(q)) \o Tail(q) = o \o q
  <1>1. Head(q) \in S /\ Tail(q) \in Seq(S) /\ <<Head(q)>> \in Seq(S)
    BY HeadTailProperties
  <1>2. <<Head(q)>> \o Tail(q) = q
    OBVIOUS
  <1> QED BY <1>1, <1>2, AppendIsConcat, ConcatAssociative

-----------------------------------------------------------------------------
(* Orders. *)

\* The sequence s holds the accepted ones of p pushes, in their order.
InOrder(s, p, refusals) ==
    /\ \A i, j \in 1..Len(s) : i < j => s[i] < s[j]
    /\ {s[i] : i \in 1..Len(s)} = (1..p) \ refusals

\* FifoOrder in terms of what was taken and what is queued.
LEMMA OrderIs == FifoOrder <=> InOrder(Order, npush, refused)
  BY DEF FifoOrder, InOrder, Order, Rest

\* The next task comes last in the order.
LEMMA OrderAppend ==
    ASSUME NEW p \in Nat, NEW rf \in SUBSET (1..p), NEW s \in Seq(1..p), InOrder(s, p, rf)
    PROVE  InOrder(Append(s, p + 1), p + 1, rf)
  <1>1. PICK L \in Nat : L = Len(s)
    BY LenProperties
  <1>2. s \in Seq(Nat) /\ p + 1 \in Nat /\ \A i \in 1..L : s[i] \in 1..p
    <2>1. \A i \in 1..L : s[i] \in 1..p
      BY <1>1, ElementOfSeq
    <2>2. \A i \in 1..Len(s) : s[i] \in Nat
      BY <1>1, <2>1
    <2> QED BY <2>1, <2>2, Retype
  <1>3. PICK r \in Seq(Nat) : r = Append(s, p + 1)
    BY <1>2, AppendProperties
  <1>4. /\ Len(r) = L + 1 /\ r[L + 1] = p + 1
        /\ \A i \in 1..L : r[i] = s[i]
    BY <1>1, <1>2, <1>3, AppendProperties
  <1>5. \A i, j \in 1..L : i < j => s[i] < s[j]
    BY <1>1 DEF InOrder
  <1>6. \A i, j \in 1..(L + 1) : i < j => r[i] < r[j]
    <2> SUFFICES ASSUME NEW i \in 1..(L + 1), NEW j \in 1..(L + 1), i < j
                 PROVE  r[i] < r[j]
      OBVIOUS
    <2>1. i \in 1..L
      OBVIOUS
    <2>2. CASE j \in 1..L
      BY <1>4, <1>5, <2>1, <2>2
    <2>3. CASE j = L + 1
      <3>1. r[i] = s[i] /\ r[j] = p + 1
        BY <1>4, <2>1, <2>3
      <3>2. s[i] \in 1..p
        BY <1>2, <2>1
      <3> QED BY <3>1, <3>2
    <2> QED BY <2>2, <2>3
  <1>7. {s[i] : i \in 1..L} = (1..p) \ rf
    BY <1>1 DEF InOrder
  <1>8. {r[i] : i \in 1..(L + 1)} = {s[i] : i \in 1..L} \union {p + 1}
    <2>1. \A i \in 1..(L + 1) : i \in 1..L \/ i = L + 1
      OBVIOUS
    <2>2. \A i \in 1..L : i \in 1..(L + 1)
      OBVIOUS
    <2>3. L + 1 \in 1..(L + 1)
      OBVIOUS
    <2> QED BY <1>4, <2>1, <2>2, <2>3, Zenon
  <1>9. ((1..p) \ rf) \union {p + 1} = (1..(p + 1)) \ rf
    BY SMT
  <1> QED BY <1>3, <1>4, <1>6, <1>7, <1>8, <1>9 DEF InOrder

\* A task that push() refused is not in the order.
LEMMA OrderRefuse ==
    ASSUME NEW p \in Nat, NEW rf \in SUBSET (1..p), NEW s, InOrder(s, p, rf)
    PROVE  InOrder(s, p + 1, rf \union {p + 1})
  <1>1. (1..p) \ rf = (1..(p + 1)) \ (rf \union {p + 1})
    BY SMT
  <1> QED BY <1>1 DEF InOrder

-----------------------------------------------------------------------------
(* What the invariant says of a queue that is open. *)

\* The shape of the ring.
LEMMA OpenShape ==
    ASSUME TypeOK
    PROVE  /\ size \in Nat /\ size >= 2 /\ head \in 0..(size - 1) /\ tail \in 0..(size - 1)
           /\ items \in [0..(size - 1) -> Tasks \union {None}]
           /\ Queued \in Seq(Tasks \union {None})
  <1>1. size \in Nat /\ size >= 2 /\ head \in 0..(size - 1) /\ tail \in 0..(size - 1)
    BY DEF TypeOK, PowerOfTwo
  <1>2. items \in [0..(size - 1) -> Tasks \union {None}]
    BY DEF TypeOK
  <1>3. QueuedOf(items, head, tail, size) \in Seq(Tasks \union {None})
    BY <1>1, <1>2, RingShape DEF Content
  <1> QED BY <1>1, <1>2, <1>3, QueuedIs

\* No slot of the ring is empty or stale.
LEMMA OrderShape ==
    ASSUME TypeOK, FifoOrder
    PROVE  /\ npush \in Nat /\ refused \in SUBSET (1..npush) /\ out \in Seq(1..npush)
           /\ Rest \in Seq(1..npush) /\ Order \in Seq(1..npush)
           /\ Len(out) \in Nat /\ Len(Rest) \in Nat /\ Len(Order) = Len(out) + Len(Rest)
           /\ \A i \in 1..Len(out) : i \in 1..Len(Order) /\ Order[i] = out[i]
           /\ \A i \in 1..Len(Rest) :
                 Len(out) + i \in 1..Len(Order) /\ Order[Len(out) + i] = Rest[i]
  <1> DEFINE S == Tasks \union {None} \union 1..npush
  <1>1. npush \in Nat /\ refused \in SUBSET (1..npush) /\ out \in Seq(1..npush)
    BY FifoAssumption DEF TypeOK
  <1>2. out \in Seq(S)
    <2>1. \A i \in 1..Len(out) : out[i] \in S
      BY <1>1, ElementOfSeq
    <2> QED BY <1>1, <2>1, Retype
  <1>3. Rest \in Seq(S)
    <2>1. CASE closed
      BY <2>1, EmptySeq DEF Rest
    <2>2. CASE ~ closed
      <3>1. Queued \in Seq(Tasks \union {None})
        BY OpenShape
      <3>2. \A i \in 1..Len(Queued) : Queued[i] \in S
        BY <3>1, ElementOfSeq
      <3> QED BY <2>2, <3>1, <3>2, Retype DEF Rest
    <2> QED BY <2>1, <2>2
  <1> HIDE DEF S
  <1>4. PICK a \in Nat : a = Len(out)
    BY <1>2, LenProperties
  <1>5. PICK b \in Nat : b = Len(Rest)
    BY <1>3, LenProperties
  <1>6. /\ Order \in Seq(S) /\ Len(Order) = a + b
        /\ \A i \in 1..(a + b) : Order[i] = IF i <= a THEN out[i] ELSE Rest[i - a]
    BY <1>2, <1>3, <1>4, <1>5, ConcatProperties DEF Order
  <1>7. \A i \in 1..a : i \in 1..(a + b) /\ Order[i] = out[i]
    BY <1>6
  <1>8. \A i \in 1..b : a + i \in 1..(a + b) /\ Order[a + i] = Rest[i]
    <2> SUFFICES ASSUME NEW i \in 1..b
                 PROVE  a + i \in 1..(a + b) /\ Order[a + i] = Rest[i]
      OBVIOUS
    <2>1. a + i \in 1..(a + b) /\ ~ (a + i <= a) /\ (a + i) - a = i
      OBVIOUS
    <2> QED BY <1>6, <2>1
  <1>9. {Order[i] : i \in 1..Len(Order)} = (1..npush) \ refused
    BY OrderIs DEF InOrder
  <1>10. \A i \in 1..(a + b) : Order[i] \in 1..npush
    BY <1>6, <1>9
  <1>11. Order \in Seq(1..npush)
    BY <1>6, <1>10, Retype
  <1>12. Rest \in Seq(1..npush)
    <2>1. \A i \in 1..Len(Rest) : Rest[i] \in 1..npush
      BY <1>5, <1>8, <1>10
    <2> QED BY <1>3, <2>1, Retype
  <1> QED BY <1>1, <1>4, <1>5, <1>6, <1>7, <1>8, <1>11, <1>12


\* In the order, the tasks that left come first: none is still in the ring.
LEMMA OutAndRest ==
    ASSUME TypeOK, FifoOrder
    PROVE  /\ Out \subseteq (1..npush) \ refused
           /\ \A i \in 1..Len(Rest) : Rest[i] \in (1..npush) \ refused /\ Rest[i] \notin Out
  <1>1. /\ \A i, j \in 1..Len(Order) : i < j => Order[i] < Order[j]
        /\ {Order[i] : i \in 1..Len(Order)} = (1..npush) \ refused
    BY OrderIs DEF InOrder
  <1>2. \A i \in 1..Len(out) : out[i] \in (1..npush) \ refused
    BY <1>1, OrderShape
  <1>3. ASSUME NEW i \in 1..Len(Rest)
        PROVE  Rest[i] \in (1..npush) \ refused /\ Rest[i] \notin Out
    <2>1. Rest[i] \in (1..npush) \ refused
      BY <1>1, OrderShape
    <2>2. ASSUME NEW j \in 1..Len(out) PROVE out[j] # Rest[i]
      <3>1. PICK a \in Nat : a = Len(out)
        BY OrderShape
      <3>2. j < a + i
        BY <3>1, OrderShape
      <3>3. Order[j] = out[j] /\ Order[a + i] = Rest[i] /\ j \in 1..Len(Order) /\ a + i \in 1..Len(Order)
        BY <3>1, OrderShape
      <3>4. out[j] < Rest[i]
        BY <1>1, <3>2, <3>3
      <3>5. out[j] \in Int /\ Rest[i] \in Int
        BY <1>2, <2>1
      <3> QED BY <3>4, <3>5
    <2> QED BY <2>1, <2>2 DEF Out
  <1> QED BY <1>2, <1>3 DEF Out

-----------------------------------------------------------------------------
(* What each action does to the order. *)

\* A push, with or without growth, puts its task at the end.
LEMMA PushOrders ==
    ASSUME TypeOK, FifoOrder, Push
    PROVE  /\ Order' = Append(Order, npush + 1)
           /\ PowerOfTwo(size)' /\ size' >= 2
           /\ items' \in [0..(size' - 1) -> Tasks \union {None}]
           /\ head' \in 0..(size' - 1) /\ tail' \in 0..(size' - 1)
  <1>1. /\ size \in Nat /\ size >= 2 /\ head \in 0..(size - 1) /\ tail \in 0..(size - 1)
        /\ items \in [0..(size - 1) -> Content] /\ PowerOfTwo(size)
    BY OpenShape DEF TypeOK, Content
  <1>2. PICK x \in Content : x = npush + 1
    BY FifoAssumption DEF TypeOK, Push, Tasks, Content
  <1>3. npush' = x /\ ~ closed /\ closed' = closed /\ out' = out
    BY <1>2 DEF Push
  <1>4. None \in Content /\ x \in Content
    BY DEF Content
  <1>5. Queued = QueuedOf(items, head, tail, size) /\ Queued' = QueuedOf(items', head', tail', size')
    BY QueuedIs DEF Queued, QueuedOf, Length
  <1>6. PICK n \in Nat : n = size /\ n >= 2
    BY <1>1
  <1>7. PICK h \in 0..(n - 1), t \in 0..(n - 1), it \in [0..(n - 1) -> Content] :
           h = head /\ t = tail /\ it = items
    BY <1>1, <1>6
  <1>8. /\ Queued' = Append(Queued, x)
        /\ PowerOfTwo(size)' /\ size' >= 2
        /\ items' \in [0..(size' - 1) -> Content]
        /\ head' \in 0..(size' - 1) /\ tail' \in 0..(size' - 1)
    <2>1. CASE Grow(x)
      <3>1. /\ head = (tail + 1) % size /\ head' = 0 /\ tail' = size /\ size' = 2 * size
            /\ items' = Grown(items, head, size, x)
        BY <2>1 DEF Grow, Full, Succ, Doubled, Grown
      <3>2. items' \in [0..(2 * size - 1) -> Content] /\ Queued' = Append(Queued, x)
        <4>1. PICK m \in Nat : m = 2 * n /\ m = size' /\ h = (t + 1) % n
          BY <1>6, <1>7, <3>1
        <4>2. PICK it2 : it2 = items' /\ Unwound(it2, it, h, x, n)
          <5>1. Unwound(Grown(it, h, n, x), it, h, x, n)
            BY <1>4, <1>6, GrownShape
          <5>2. items' = Grown(it, h, n, x)
            BY <1>6, <1>7, <3>1
          <5> QED BY <4>1, <5>1, <5>2
        <4>3. QueuedOf(it2, 0, n, m) = Append(QueuedOf(it, h, t, n), x)
          BY <1>4, <1>6, <4>1, <4>2, GrowAppends
        <4> QED BY <1>5, <1>6, <1>7, <3>1, <4>1, <4>2, <4>3 DEF Unwound
      <3>3. PowerOfTwo(2 * size)
        BY <1>1, DoublePower
      <3>4. PowerOfTwo(size)'
        BY <3>1, <3>3 DEF PowerOfTwo
      <3>5. size' >= 2 /\ head' \in 0..(size' - 1) /\ tail' \in 0..(size' - 1)
        BY <1>1, <3>1
      <3> QED BY <3>1, <3>2, <3>4, <3>5
    <2>2. CASE Store(x)
      <3>1. /\ head # (tail + 1) % size /\ head' = head /\ size' = size
            /\ tail' = (tail + 1) % size /\ items' = [items EXCEPT ![tail] = x]
        BY <2>2 DEF Store, Full, Succ
      <3>2. Queued' = Append(Queued, x)
        <4>1. PICK u \in 0..(n - 1) : u = tail' /\ u = (t + 1) % n /\ h # u
          BY <1>6, <1>7, <3>1, SuccIs
        <4>2. PICK it2 \in [0..(n - 1) -> Content] :
                 it2 = items' /\ Stored(it2, it, t, x, n)
          <5>1. items' = [it EXCEPT ![t] = x]
            BY <1>7, <3>1
          <5>2. items' \in [0..(n - 1) -> Content]
            BY <1>4, <5>1
          <5>3. items'[t] = x /\ \A s \in 0..(n - 1) : s # t => items'[s] = it[s]
            BY <5>1
          <5> QED BY <5>2, <5>3 DEF Stored
        <4>3. QueuedOf(it2, h, u, n) = Append(QueuedOf(it, h, t, n), x)
          BY <1>4, <1>6, <4>1, <4>2, StoreAppends, SMTT(30)
        <4>4. Queued = QueuedOf(it, h, t, n)
          BY <1>5, <1>6, <1>7
        <4>5. Queued' = QueuedOf(it2, h, u, n)
          BY <1>5, <1>6, <1>7, <3>1, <4>1, <4>2
        <4> QED BY <4>3, <4>4, <4>5
      <3>3. tail' \in 0..(size - 1)
        BY <1>1, <3>1, SuccIs
      <3>4. items' \in [0..(size - 1) -> Content]
        BY <1>1, <3>1
      <3>5. PowerOfTwo(size)'
        BY <1>1, <3>1 DEF PowerOfTwo
      <3> QED BY <1>1, <3>1, <3>2, <3>3, <3>4, <3>5
    <2> QED BY <1>3, <2>1, <2>2 DEF Push
  <1>9. Order = out \o Queued /\ Order' = out \o Append(Queued, x)
    BY <1>3, <1>8 DEF Order, Rest
  <1>10. out \in Seq(Nat) /\ Queued \in Seq(Nat) /\ x \in Nat
    <2>1. \A y \in 1..npush : y \in Nat
      BY OrderShape
    <2>2. out \in Seq(1..npush) /\ Queued \in Seq(1..npush)
      BY <1>3, OrderShape DEF Rest
    <2>3. x \in Nat
      BY <1>2, OrderShape
    <2> QED BY <2>1, <2>2, <2>3, SeqMonotonic, 1..npush \subseteq Nat
  <1>11. Order' = Append(Order, x)
    BY <1>9, <1>10, AppendLast
  <1> QED BY <1>2, <1>8, <1>11 DEF Content

\* pop() gives out the oldest task.
LEMMA TakeOrders ==
    ASSUME TypeOK, FifoOrder, NEW r \in Runners, Take(r)
    PROVE  /\ Order' = Order
           /\ items[head] \in (1..npush) \ refused /\ items[head] \notin Out
           /\ out' = Append(out, items[head])
           /\ Out' = Out \union {items[head]}
           /\ head' \in 0..(size - 1)
  <1>1. /\ size \in Nat /\ size >= 2 /\ head \in 0..(size - 1) /\ tail \in 0..(size - 1)
        /\ items \in [0..(size - 1) -> Content]
    BY OpenShape DEF Content
  <1>2. /\ ~ closed /\ closed' = closed /\ head # tail /\ head' = (head + 1) % size
        /\ items' = items /\ tail' = tail /\ size' = size
        /\ out' = Append(out, items[head])
    BY DEF Take, Succ
  <1>3. Queued = QueuedOf(items, head, tail, size) /\ Queued' = QueuedOf(items', head', tail', size')
    BY QueuedIs DEF Queued, QueuedOf, Length
  <1>4. Queued # <<>> /\ Head(Queued) = items[head] /\ Queued' = Tail(Queued)
    BY <1>1, <1>2, <1>3, TakeDropsHead
  <1>5. Rest = Queued /\ out \in Seq(1..npush) /\ Queued \in Seq(1..npush)
    BY <1>2, OrderShape DEF Rest
  <1>6. Order' = Order
    BY <1>2, <1>4, <1>5, MoveHead DEF Order, Rest
  <1>7. 1 \in 1..Len(Rest) /\ Rest[1] = items[head]
    <2>1. Len(Queued) \in Nat \ {0}
      BY <1>4, <1>5, EmptySeq
    <2>2. 1 \in 1..Len(Queued)
      BY <2>1
    <2>3. Queued[1] = Head(Queued)
      OBVIOUS
    <2> QED BY <1>4, <1>5, <2>2, <2>3
  <1>8. items[head] \in (1..npush) \ refused /\ items[head] \notin Out
    BY <1>7, OutAndRest
  <1>9. Out' = Out \union {items[head]}
    <2>1. PICK a \in Nat : a = Len(out)
      BY OrderShape
    <2>2. /\ Len(out') = a + 1 /\ out'[a + 1] = items[head]
          /\ \A i \in 1..a : out'[i] = out[i]
      BY <1>2, <1>5, <1>8, <2>1, AppendProperties
    <2>3. a + 1 \in 1..(a + 1) /\ \A i \in 1..(a + 1) : i \in 1..a \/ i = a + 1
      OBVIOUS
    <2>4. \A i \in 1..a : i \in 1..(a + 1)
      OBVIOUS
    <2> QED BY <2>1, <2>2, <2>3, <2>4, Zenon DEF Out
  <1>10. head' \in 0..(size - 1)
    BY <1>1, <1>2, SuccIs
  <1> QED BY <1>2, <1>6, <1>8, <1>9, <1>10

\* The destructor gives out all the rest.
LEMMA DestroyOrders ==
    ASSUME TypeOK, FifoOrder, Destroy
    PROVE  /\ Order' = Order /\ out' \in Seq(1..npush)
           /\ Out' = Out \union {Queued[i] : i \in DOMAIN Queued}
           /\ {Queued[i] : i \in DOMAIN Queued} \subseteq 1..npush
  <1>1. Rest = Queued /\ Rest' = <<>> /\ out' = out \o Queued
    BY DEF Destroy, Rest
  <1>2. out \in Seq(1..npush) /\ Queued \in Seq(1..npush)
    BY <1>1, OrderShape
  <1>3. out' \in Seq(1..npush) /\ Order' = Order
    BY <1>1, <1>2, ConcatProperties, ConcatEmptySeq DEF Order
  <1>4. DOMAIN Queued = 1..Len(Queued)
    BY <1>2, LenProperties
  <1>5. {Queued[i] : i \in DOMAIN Queued} \subseteq 1..npush
    BY <1>2, <1>4, ElementOfSeq
  <1>6. Out' = Out \union {Queued[i] : i \in DOMAIN Queued}
    <2>1. PICK a \in Nat : a = Len(out)
      BY <1>2, LenProperties
    <2>2. PICK b \in Nat : b = Len(Queued)
      BY <1>2, LenProperties
    <2>3. out' = Order
      BY <1>1 DEF Order
    <2>4. /\ Len(out') = a + b
          /\ \A i \in 1..a : i \in 1..(a + b) /\ out'[i] = out[i]
          /\ \A i \in 1..b : a + i \in 1..(a + b) /\ out'[a + i] = Queued[i]
      BY <1>1, <2>1, <2>2, <2>3, OrderShape
    <2>5. \A i \in 1..(a + b) : i \in 1..a \/ \E j \in 1..b : i = a + j
      <3> SUFFICES ASSUME NEW i \in 1..(a + b), i \notin 1..a PROVE \E j \in 1..b : i = a + j
        OBVIOUS
      <3> WITNESS i - a \in 1..b
      <3> QED OBVIOUS
    <2>6. Out' = {out'[i] : i \in 1..(a + b)} /\ Out = {out[i] : i \in 1..a}
      BY <2>1, <2>4 DEF Out
    <2>7. ASSUME NEW i \in 1..(a + b)
          PROVE  out'[i] \in Out \/ \E j \in 1..b : out'[i] = Queued[j]
      BY <2>4, <2>5, <2>6
    <2>8. \A i \in 1..a : out[i] \in Out'
      BY <2>4, <2>6
    <2>9. \A i \in 1..b : Queued[i] \in Out'
      BY <2>4, <2>6
    <2>10. DOMAIN Queued = 1..b
      BY <1>4, <2>2
    <2>11. Out' \subseteq Out \union {Queued[i] : i \in DOMAIN Queued}
      BY <2>6, <2>7, <2>10
    <2>12. Out \union {Queued[i] : i \in DOMAIN Queued} \subseteq Out'
      BY <2>6, <2>8, <2>9, <2>10
    <2> QED BY <2>11, <2>12
  <1> QED BY <1>3, <1>5, <1>6


-----------------------------------------------------------------------------
(* The invariant. *)

\* The initial states satisfy the invariant.
LEMMA InitInv == Init => IInv
  <1> SUFFICES ASSUME Init PROVE IInv
    OBVIOUS
  <1>1. PowerOfTwo(size) /\ size >= 2 /\ size \in Nat /\ head = 0 /\ tail = 0
    BY FirstSize DEF Init
  <1>2. items \in [0..(size - 1) -> Tasks \union {None}]
    BY DEF Init
  <1>3. TypeOK
    BY <1>1, <1>2, FifoAssumption, EmptySeq DEF Init, TypeOK
  <1>4. Queued = <<>>
    <2>1. Length = 0
      <3>1. Count(head, tail, size) = 0
        BY <1>1 DEF Count
      <3> QED BY <1>1, <3>1, OpenShape, <1>3, CountIs DEF Length
    <2>2. 1..Length = {}
      BY <2>1
    <2>3. Queued \in Seq(Nat) /\ Len(Queued) = 0
      BY <2>1, <2>2 DEF Queued
    <2> QED BY <2>3, EmptySeq
  <1>5. Order = <<>> /\ Out = {}
    <2>1. out = <<>> /\ Len(out) = 0
      BY DEF Init
    <2> QED BY <1>4, <2>1 DEF Order, Rest, Out, Init
  <1>6. FifoOrder
    <2>1. Len(Order) = 0 /\ 1..0 = {}
      BY <1>5
    <2>2. npush = 0 /\ refused = {}
      BY DEF Init
    <2> QED BY <2>1, <2>2, OrderIs DEF InOrder
  <1>7. Taken
    BY <1>5 DEF Taken, Init
  <1> QED BY <1>3, <1>6, <1>7 DEF IInv

\* push() preserves it, with growth and without.
LEMMA PushInv == ASSUME IInv, Push PROVE IInv'
  <1>1. /\ ~ closed /\ npush < MaxPush /\ npush' = npush + 1
        /\ refused' = refused /\ out' = out /\ done' = done /\ running' = running /\ closed' = closed
    BY DEF Push
  <1>2. npush \in Nat /\ npush' \in 0..MaxPush /\ refused \in SUBSET (1..npush)
    BY <1>1, FifoAssumption DEF IInv, TypeOK
  <1>3. (1..npush) \subseteq (1..(npush'))
    BY <1>1, <1>2
  <1>4. out' \in Seq(1..(npush'))
    BY <1>1, <1>3, SeqMonotonic DEF IInv, TypeOK
  <1>5. TypeOK'
    BY <1>1, <1>2, <1>3, <1>4, PushOrders DEF IInv, TypeOK
  <1>6. InOrder(Append(Order, npush + 1), npush + 1, refused)
    BY <1>2, OrderIs, OrderShape, OrderAppend DEF IInv
  <1>7. FifoOrder'
    <2>1. InOrder(Order', npush', refused')
      BY <1>1, <1>6, PushOrders DEF IInv
    <2> QED BY <2>1 DEF FifoOrder, InOrder, Order, Rest
  <1>8. Taken'
    BY <1>1 DEF IInv, Taken, Out
  <1> QED BY <1>5, <1>7, <1>8 DEF IInv

\* So does a push() that cannot grow the ring.
LEMMA PushThrowsInv == ASSUME IInv, PushThrows PROVE IInv'
  <1>1. /\ npush < MaxPush /\ npush' = npush + 1
        /\ refused' = refused \union {npush + 1} /\ done' = done \union {npush + 1}
        /\ out' = out /\ running' = running /\ closed' = closed
        /\ items' = items /\ size' = size /\ head' = head /\ tail' = tail
    BY DEF PushThrows, ring
  <1>2. /\ npush \in Nat /\ npush' \in 0..MaxPush /\ refused \in SUBSET (1..npush)
        /\ done \subseteq 1..npush
    BY <1>1, FifoAssumption DEF IInv, TypeOK
  <1>3. (1..npush) \subseteq (1..(npush')) /\ npush + 1 \in 1..(npush') /\ npush + 1 \notin 1..npush
    BY <1>1, <1>2
  <1>4. out' \in Seq(1..(npush'))
    BY <1>1, <1>3, SeqMonotonic DEF IInv, TypeOK
  <1>5. TypeOK'
    BY <1>1, <1>2, <1>3, <1>4 DEF IInv, TypeOK, PowerOfTwo
  <1>6. Out' = Out /\ Order' = Order
    BY <1>1 DEF Out, Order, Rest, Queued, Length
  <1>7. FifoOrder'
    <2>1. InOrder(Order, npush + 1, refused \union {npush + 1})
      BY <1>2, OrderIs, OrderRefuse DEF IInv
    <2>2. InOrder(Order', npush', refused')
      BY <1>1, <1>6, <2>1
    <2> QED BY <2>2 DEF FifoOrder, InOrder, Order, Rest
  <1>8. Taken'
    <2>1. npush + 1 \notin Out
      BY <1>3, OutAndRest DEF IInv
    <2> QED BY <1>1, <1>6, <2>1 DEF IInv, Taken
  <1> QED BY <1>5, <1>7, <1>8 DEF IInv

\* So does pop().
LEMMA TakeInv == ASSUME IInv, NEW r \in Runners, Take(r) PROVE IInv'
  <1> DEFINE x == items[head]
  <1>1. /\ running[r] = None /\ running' = [running EXCEPT ![r] = x]
        /\ items' = items /\ size' = size /\ tail' = tail
        /\ npush' = npush /\ refused' = refused /\ done' = done /\ closed' = closed
    BY DEF Take
  <1>2. /\ Order' = Order /\ Out' = Out \union {x} /\ out' = Append(out, x)
        /\ x \in (1..npush) \ refused /\ x \notin Out /\ head' \in 0..(size - 1)
    BY TakeOrders DEF IInv
  <1> HIDE DEF x
  <1>3. x \in Tasks /\ x # None
    <2>1. npush \in Nat /\ npush <= MaxPush /\ x \in 1..npush
      BY <1>2, FifoAssumption DEF IInv, TypeOK
    <2> QED BY <2>1, FifoAssumption DEF Tasks, None
  <1>4. TypeOK'
    <2>1. out' \in Seq(1..npush)
      BY <1>2, AppendProperties DEF IInv, TypeOK
    <2>2. running' \in [Runners -> Tasks \union {None}]
      BY <1>1, <1>3 DEF IInv, TypeOK
    <2> QED BY <1>1, <1>2, <2>1, <2>2 DEF IInv, TypeOK, PowerOfTwo
  <1>5. FifoOrder'
    <2>1. InOrder(Order', npush', refused')
      BY <1>1, <1>2, OrderIs DEF IInv
    <2> QED BY <2>1 DEF FifoOrder, InOrder, Order, Rest
  <1>6. Taken'
    <2>1. running \in [Runners -> Tasks \union {None}]
      BY DEF IInv, TypeOK
    <2>2. running'[r] = x /\ \A s \in Runners : s # r => running'[s] = running[s]
      BY <1>1, <2>1
    <2>3. x \notin done
      BY <1>2 DEF IInv, Taken
    <2>4. \A s \in Runners : running[s] # None => running[s] # x
      BY <1>2 DEF IInv, Taken
    <2>5. None \notin Out
      BY OutAndRest DEF IInv, None
    <2>6. \A t \in Out' : t \in done' \/ \E s \in Runners : running'[s] = t
      <3> SUFFICES ASSUME NEW t \in Out, t \notin done
                   PROVE  \E s \in Runners : running'[s] = t
        BY <1>1, <1>2, <2>2
      <3>1. PICK s \in Runners : running[s] = t
        BY DEF IInv, Taken
      <3>2. s # r
        BY <1>1, <2>5, <3>1
      <3> QED BY <2>2, <3>1, <3>2
    <2> QED BY <1>1, <1>2, <2>2, <2>3, <2>4, <2>6 DEF IInv, Taken
  <1> QED BY <1>4, <1>5, <1>6 DEF IInv

\* So does the end of a task.
LEMMA FinishInv == ASSUME IInv, NEW r \in Runners, Finish(r) PROVE IInv'
  <1>1. /\ running[r] # None /\ running' = [running EXCEPT ![r] = None]
        /\ done' = done \union {running[r]}
        /\ items' = items /\ size' = size /\ head' = head /\ tail' = tail
        /\ npush' = npush /\ refused' = refused /\ out' = out /\ closed' = closed
    BY DEF Finish, ring
  <1>2. Out' = Out /\ Order' = Order
    BY <1>1 DEF Out, Order, Rest, Queued, Length
  <1>3. running[r] \in Out
    BY <1>1 DEF IInv, Taken
  <1>4. TypeOK'
    <2>1. running[r] \in 1..npush
      BY <1>3, OutAndRest DEF IInv
    <2>2. running' \in [Runners -> Tasks \union {None}]
      BY <1>1 DEF IInv, TypeOK
    <2>3. done' \subseteq 1..npush
      BY <1>1, <2>1 DEF IInv, TypeOK
    <2>4. PowerOfTwo(size)'
      BY <1>1 DEF IInv, TypeOK, PowerOfTwo
    <2>5. TypeOK
      BY DEF IInv
    <2>6. /\ items' \in [0..(size' - 1) -> Tasks \union {None}] /\ size' >= 2
          /\ head' \in 0..(size' - 1) /\ tail' \in 0..(size' - 1)
      BY <1>1, <2>5 DEF TypeOK
    <2>7. npush' \in 0..MaxPush /\ refused' \subseteq 1..npush' /\ out' \in Seq(1..npush')
          /\ closed' \in BOOLEAN /\ done' \subseteq 1..npush'
      BY <1>1, <2>3, <2>5 DEF TypeOK
    <2> QED BY <2>2, <2>4, <2>6, <2>7 DEF TypeOK
  <1>5. FifoOrder'
    BY <1>1, <1>2, ZenonT(30) DEF IInv, FifoOrder, Order, Rest, Queued, Length
  <1>6. Taken'
    <2>1. running \in [Runners -> Tasks \union {None}]
      BY DEF IInv, TypeOK
    <2>2. running'[r] = None /\ \A s \in Runners : s # r => running'[s] = running[s]
      BY <1>1, <2>1
    <2> QED BY <1>1, <1>2, <1>3, <2>2 DEF IInv, Taken
  <1> QED BY <1>4, <1>5, <1>6 DEF IInv

\* So does the destructor, which cancels what is queued.
LEMMA DestroyInv == ASSUME IInv, Destroy PROVE IInv'
  <1> DEFINE D == {Queued[i] : i \in DOMAIN Queued}
  <1>1. /\ \A r \in Runners : running[r] = None
        /\ items' = items /\ size' = size /\ head' = head /\ tail' = tail
        /\ npush' = npush /\ refused' = refused /\ running' = running /\ closed' = TRUE
        /\ done' = done \union D
    BY DEF Destroy, ring
  <1>2. /\ Order' = Order /\ out' \in Seq(1..npush)
        /\ Out' = Out \union D /\ D \subseteq 1..npush
    BY DestroyOrders DEF IInv
  <1> HIDE DEF D
  <1>3. TypeOK'
    BY <1>1, <1>2 DEF IInv, TypeOK, PowerOfTwo
  <1>4. FifoOrder'
    <2>1. InOrder(Order', npush', refused')
      BY <1>1, <1>2, OrderIs DEF IInv
    <2> QED BY <2>1 DEF FifoOrder, InOrder, Order, Rest
  <1>5. Taken'
    BY <1>1, <1>2 DEF IInv, Taken
  <1> QED BY <1>3, <1>4, <1>5 DEF IInv

\* Every step preserves the invariant.
LEMMA StepInv == IInv /\ [Next]_vars => IInv'
  <1> SUFFICES ASSUME IInv, [Next]_vars PROVE IInv'
    OBVIOUS
  <1>1. CASE Push
    BY <1>1, PushInv
  <1>2. CASE PushThrows
    BY <1>2, PushThrowsInv
  <1>3. CASE Destroy
    BY <1>3, DestroyInv
  <1>4. ASSUME NEW r \in Runners, Take(r) PROVE IInv'
    BY <1>4, TakeInv
  <1>5. ASSUME NEW r \in Runners, Finish(r) PROVE IInv'
    BY <1>5, FinishInv
  <1>6. CASE UNCHANGED vars
    <2>1. /\ items' = items /\ size' = size /\ head' = head /\ tail' = tail
          /\ npush' = npush /\ refused' = refused /\ out' = out /\ done' = done
          /\ running' = running /\ closed' = closed
      BY <1>6 DEF vars, ring
    <2>2. TypeOK'
      BY <2>1 DEF IInv, TypeOK, PowerOfTwo
    <2>3. FifoOrder'
      <3>1. Queued' = Queued
        BY <2>1 DEF Queued, Length
      <3>2. InOrder(Order', npush', refused')
        BY <2>1, <3>1, OrderIs DEF IInv, Order, Rest
      <3> QED BY <3>2 DEF FifoOrder, InOrder, Order, Rest
    <2>4. Taken'
      BY <2>1 DEF IInv, Taken, Out
    <2> QED BY <2>2, <2>3, <2>4 DEF IInv
  <1> QED BY <1>1, <1>2, <1>3, <1>4, <1>5, <1>6 DEF Next

-----------------------------------------------------------------------------
(* Theorems. *)

\* The inductive invariant holds in every state.
THEOREM Invariance == Spec => []IInv
  BY InitInv, StepInv, PTL DEF Spec

\* The indices stay inside the array, and its size stays a power of two, so that
\* `& (size - 1)` is the remainder however often the array grows.
THEOREM TypeCorrect == Spec => []TypeOK
  <1>1. IInv => TypeOK
    BY DEF IInv
  <1> QED BY <1>1, Invariance, PTL

\* Tasks leave in the order in which they were pushed: no wrap, no growth and no
\* failure to grow loses, repeats or reorders one.
THEOREM FirstInFirstOut == Spec => []FifoOrder
  <1>1. IInv => FifoOrder
    BY DEF IInv
  <1> QED BY <1>1, Invariance, PTL

\* A task a thread runs was not run or cancelled before, and no other thread runs
\* it: try_run_one_task() runs the task without the lock.
RunOnce ==
    \A r, s \in Runners : running[r] # None =>
        running[r] \notin done /\ (running[s] = running[r] => s = r)

\* Every task is run by one thread, and not again.
THEOREM RunsOnce == Spec => []RunOnce
  <1>1. IInv => RunOnce
    BY DEF IInv, Taken, RunOnce
  <1> QED BY <1>1, Invariance, PTL

\* The queue forgets nothing: when it is destroyed and its threads are done, every
\* task given to it was run or cancelled.
AllSettled ==
    closed /\ (\A r \in Runners : running[r] = None) => 1..npush \subseteq done \union refused

\* A queue that is destroyed has lost no task.
THEOREM DestroyedSettled == Spec => []AllSettled
  <1>1. IInv => AllSettled
    <2> SUFFICES ASSUME IInv, closed, \A r \in Runners : running[r] = None
                 PROVE  1..npush \subseteq done \union refused
      BY DEF AllSettled
    <2>1. Rest = <<>> /\ out \in Seq(1..npush)
      BY OrderShape DEF Rest, IInv
    <2>2. Order = out
      BY <2>1, ConcatEmptySeq DEF Order
    <2>3. Out = (1..npush) \ refused
      BY <2>2, OrderIs DEF IInv, InOrder, Out
    <2>4. \A t \in Out : t \in done
      <3>1. 0 \notin Out
        BY OutAndRest DEF IInv
      <3> QED BY <3>1 DEF IInv, Taken, None
    <2> QED BY <2>3, <2>4
  <1> QED BY <1>1, Invariance, PTL
=============================================================================
