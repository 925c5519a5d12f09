----------------------- MODULE WorkStealQueue_proofs ------------------------
(***************************************************************************)
(* Proofs about WorkStealQueue for every number of thieves, word width,    *)
(* initial array size and number of pushes below half the values of a      *)
(* word, and wherever the two indices start: they may wrap around.         *)
(***************************************************************************)
EXTENDS WorkStealQueue, SequenceTheorems, TLAPS

\* The index that is n pushes past s, and how far the indices of a queue that
\* started at s are past it: these numbers do not wrap around.
Place(s, n) == IF s + n < WordMod THEN s + n ELSE (s + n) - WordMod
Top(s) == Sub(top, s)
Bottom(s) == Sub(bottom, s)
OwnB(s) == Sub(ob, s)
OwnT(s) == Sub(ot, s)
Seen(s, i) == Sub(tt[i], s)
End(s) == Sub(EffBottom, s)

\* The task of an array that is n pushes past s, and that of the current one.
Slot(s, a, n) == Get(a, Place(s, n))
At(s, n) == Slot(s, Current, n)

-----------------------------------------------------------------------------
(* The inductive invariant. *)

\* Where the indices stand: the window never has a negative size, its end
\* never exceeds the number of pushes, and the owner's copies agree with it.
Indices(s) ==
    /\ Top(s) <= End(s)
    /\ End(s) <= npush
    /\ opc \in {"push_grow", "push_put", "push_publish"} =>
          End(s) < npush /\ ob = bottom /\ ox = npush /\ OwnT(s) <= Top(s)
    /\ opc = "push_grow" => OwnB(s) - OwnT(s) = Current.size
    /\ opc = "pop_reserve" => Bottom(s) >= 1 /\ OwnB(s) = Bottom(s) - 1
    /\ MidPop => bottom = ob /\ OwnB(s) < npush
    /\ opc = "pop_cas" => ot = ob /\ OwnB(s) <= Top(s) /\ ox = At(s, OwnB(s))
    /\ opc = "pop_restore" => Top(s) = OwnB(s) + 1

\* The window fits in the array, with a free slot while a push fills one.
Fits(s) ==
    /\ End(s) - Top(s) <= Current.size
    /\ opc \in {"push_put", "push_publish"} => Bottom(s) - Top(s) < Current.size
    /\ opc = "push_publish" => At(s, OwnB(s)) = ox

\* Tasks that are queued, in hand, or gone exclude one another.
Live(s) == IF opc = "destroyed" THEN {} ELSE Top(s)..(End(s) - 1)

Placed(s) ==
    /\ \A i \in Live(s) : At(s, i) \in 1..npush /\ taken[At(s, i)] = 0 /\ At(s, i) \notin InHand
    /\ \A i, j \in Live(s) : At(s, i) = At(s, j) => i = j
    /\ \A x \in 1..npush : taken[x] = 0 =>
          x \in InHand \/ \E i \in Live(s) : At(s, i) = x
    /\ \A x \in InHand : taken[x] = 0
    /\ \A x \in Handles : taken[x] \in {0, 1}
    /\ \A x \in Handles : x \notin 1..npush => taken[x] = 0

\* What a thief knows while its compare-exchange may still succeed.
Knows(s) ==
    \A i \in Thieves :
        /\ opc = "destroyed" => tpc[i] = "idle"
        /\ tpc[i] \in {"bottom", "array", "item", "cas"} => Seen(s, i) <= Top(s)
        /\ tpc[i] \in {"array", "item", "cas"} /\ tt[i] = top => Top(s) < End(s)
        /\ tpc[i] = "item" /\ tt[i] = top => Slot(s, arrays[ta[i]], Top(s)) = At(s, Top(s))
        /\ tpc[i] = "cas" /\ tt[i] = top => tx[i] = At(s, Top(s))

\* Every array is a circular_array, whose size divides the number of words, so
\* that slots go on where indices wrap around; grow() only ever adds one.
Divides(n) == n \in Nat \ {0} /\ \E m \in Nat : n * m = WordMod
CircularArray == UNION {[size : {n}, items : [0..(n - 1) -> Handles]] : n \in {k \in Nat : Divides(k)}}
Arrays == arrays \in Seq(CircularArray)

IInv(s) == TypeOK /\ Arrays /\ Indices(s) /\ Fits(s) /\ Placed(s) /\ Knows(s)

-----------------------------------------------------------------------------
(* Words: less than half a word range past the start, the arithmetic of words *)
(* is that of the numbers that do not wrap.                                   *)

\* std::size_t has an even number of values, more than twice MaxPush.
LEMMA Half ==
    /\ WordMod \div 2 \in Nat
    /\ WordMod = 2 * (WordMod \div 2)
    /\ MaxPush \in Nat \ {0}
    /\ MaxPush < WordMod \div 2
  BY SizeAssumption, SMT

\* A start is a word.
LEMMA StartIsWord == ASSUME NEW s \in Starts PROVE s \in Words /\ s \in Nat /\ s < WordMod
  BY SizeAssumption, Half DEF Words

\* Each word is as far past the start as it says, and no two are equally far.
LEMMA PlaceIs ==
    ASSUME NEW s \in Starts
    PROVE  /\ \A n \in Words : Place(s, n) \in Words /\ Sub(Place(s, n), s) = n
           /\ \A x \in Words : Sub(x, s) \in Words /\ Place(s, Sub(x, s)) = x
           /\ \A x, y \in Words : Sub(x, s) = Sub(y, s) => x = y
  BY StartIsWord, Half DEF Words, Place, Sub

\* Words are numbers,
LEMMA WordIsNat == \A x \in Words : x \in Nat
  BY Half DEF Words

\* and numbers of pushes are words.
LEMMA SmallWords == 0..MaxPush \subseteq Words /\ 0..MaxPush \subseteq Nat
  BY Half DEF Words

\* to_signed(b - t) is the difference of how far they are, negative or not.
LEMMA SignedDifference ==
    ASSUME NEW s \in Starts, NEW x \in Words, NEW y \in Words,
           Sub(x, s) \in 0..MaxPush, Sub(y, s) \in 0..MaxPush
    PROVE  /\ ToSigned(Sub(x, y)) = Sub(x, s) - Sub(y, s)
           /\ Sub(x, s) >= Sub(y, s) => Sub(x, y) = Sub(x, s) - Sub(y, s)
  <1>1. PICK h \in Nat : h = WordMod \div 2 /\ WordMod = 2 * h /\ MaxPush < h
    BY Half
  <1>2. s \in 0..(2 * h - 1) /\ x \in 0..(2 * h - 1) /\ y \in 0..(2 * h - 1)
    BY <1>1, StartIsWord DEF Words
  <1>3. PICK u \in Nat, v \in Nat : u = Sub(x, s) /\ v = Sub(y, s) /\ u < h /\ v < h
    BY <1>1, Half
  <1>4. Sub(x, y) = IF u >= v THEN u - v ELSE (u + 2 * h) - v
    BY <1>1, <1>2, <1>3 DEF Sub
  <1> QED BY <1>1, <1>3, <1>4 DEF ToSigned

\* ++ and -- go one further, and back.
LEMMA SmallInc ==
    ASSUME NEW s \in Starts, NEW x \in Words
    PROVE  /\ Sub(x, s) < MaxPush => Inc(x) \in Words /\ Sub(Inc(x), s) = Sub(x, s) + 1
           /\ Sub(x, s) >= 1 => Dec(x) \in Words /\ Sub(Dec(x), s) = Sub(x, s) - 1
  BY StartIsWord, Half DEF Inc, Dec, Words, Sub

\* The loop `for (i = t; i != b; i++)` visits the indices from t on, up to b.
LEMMA SmallSpan ==
    ASSUME NEW s \in Starts, NEW x \in Words, NEW y \in Words,
           NEW t \in 0..MaxPush, NEW b \in 0..MaxPush, t <= b, Sub(x, s) = t, Sub(y, s) = b
    PROVE  /\ Span(x, y) = {Place(s, n) : n \in t..(b - 1)}
           /\ \A i \in Words : i \in Span(x, y) <=> Sub(i, s) \in t..(b - 1)
  <1>1. PICK h \in Nat : WordMod = 2 * h /\ MaxPush < h
    BY Half
  <1>2. s \in 0..(2 * h - 1) /\ x \in 0..(2 * h - 1) /\ y \in 0..(2 * h - 1) /\ Words = 0..(2 * h - 1)
    BY <1>1, StartIsWord DEF Words
  <1>3. Sub(y, x) = b - t
    BY SignedDifference
  <1>4. ASSUME NEW i \in Words
        PROVE  Sub(i, x) < b - t <=> Sub(i, s) \in t..(b - 1)
    <2>1. PICK n \in 0..(2 * h - 1) : n = Sub(i, s)
      BY <1>2, PlaceIs
    <2>2. Sub(i, x) = IF n >= t THEN n - t ELSE (n + 2 * h) - t
      BY <1>1, <1>2, <2>1, Half DEF Sub
    <2> QED BY <1>1, <2>1, <2>2, Half
  <1>5. \A i \in Words : i \in Span(x, y) <=> Sub(i, s) \in t..(b - 1)
    BY <1>3, <1>4 DEF Span
  <1>6. \A n \in t..(b - 1) : n \in Words
    BY SmallWords, Half
  <1>7. \A n \in t..(b - 1) : Place(s, n) \in Words /\ Sub(Place(s, n), s) = n
    BY <1>6, PlaceIs
  <1>8. \A i \in Words : Sub(i, s) \in t..(b - 1) => i = Place(s, Sub(i, s))
    BY PlaceIs
  <1>9. Span(x, y) \subseteq Words
    BY DEF Span
  <1> QED BY <1>5, <1>7, <1>8, <1>9

-----------------------------------------------------------------------------
(* Slots: indices closer than the size of the array use different slots. *)

\* The slot of an index is inside the array.
LEMMA SlotRange ==
    ASSUME NEW n \in Nat \ {0}, NEW i \in Nat
    PROVE  i % n \in 0..(n - 1)
  OBVIOUS

\* Two different numbers that are less than n apart have different slots.
LEMMA DistinctSlots ==
    ASSUME NEW n \in Nat \ {0}, NEW i \in Nat, NEW j \in Nat,
           i < j, j - i < n
    PROVE  i % n # j % n
  <1> DEFINE qi == i \div n
             qj == j \div n
  <1>1. /\ qi \in Nat /\ qj \in Nat
        /\ i = n * qi + (i % n) /\ j = n * qj + (j % n)
    BY SMT
  <1> HIDE DEF qi, qj
  <1>2. SUFFICES ASSUME i % n = j % n PROVE FALSE
    OBVIOUS
  <1>3. /\ n * qi \in Nat /\ n * qj \in Nat
        /\ j - i = n * qj - n * qi
    BY <1>1, <1>2
  <1>4. CASE qj <= qi
    <2>1. n * qj <= n * qi
      BY <1>1, <1>4
    <2> QED BY <1>3, <2>1
  <1>5. CASE qj >= qi + 1
    <2>1. n * qj >= n * (qi + 1)
      BY <1>1, <1>5
    <2>2. n * (qi + 1) = n * qi + n
      BY <1>1
    <2> QED BY <1>3, <2>1, <2>2
  <1> QED BY <1>1, <1>4, <1>5

\* A number of rounds more is the same slot.
LEMMA SameSlot ==
    ASSUME NEW n \in Nat \ {0}, NEW m \in Nat, NEW i \in Nat
    PROVE  (i + n * m) % n = i % n
  <1> DEFINE q == i \div n
             r == i % n
  <1>1. q \in Nat /\ r \in 0..(n - 1) /\ i = n * q + r
    BY SMT
  <1> HIDE DEF q, r
  <1>2. n * m \in Nat /\ n * q \in Nat /\ n * (q + m) = n * q + n * m /\ q + m \in Nat
    BY <1>1
  <1>3. i + n * m = n * (q + m) + r
    BY <1>1, <1>2
  <1>4. (i + n * m) % n = r
    <2> DEFINE p == (i + n * m) \div n
               v == (i + n * m) % n
    <2>1. p \in Nat /\ v \in 0..(n - 1) /\ i + n * m = n * p + v
      BY <1>2, SMT
    <2> HIDE DEF p, v
    <2>2. PICK k \in Nat : k = q + m
      BY <1>2
    <2>3. n * p \in Nat /\ n * k \in Nat /\ n * p + v = n * k + r
      BY <1>3, <2>1, <2>2
    <2>4. CASE p >= k + 1
      <3>1. n * p >= n * (k + 1) /\ n * (k + 1) = n * k + n
        BY <2>1, <2>4
      <3> QED BY <1>1, <2>1, <2>3, <3>1
    <2>5. CASE k >= p + 1
      <3>1. n * k >= n * (p + 1) /\ n * (p + 1) = n * p + n
        BY <2>1, <2>5
      <3> QED BY <1>1, <2>1, <2>3, <3>1
    <2>6. CASE p = k
      BY <1>1, <2>1, <2>3, <2>6
    <2>7. v = r
      BY <2>1, <2>4, <2>5, <2>6
    <2> QED BY <2>7 DEF v
  <1> QED BY <1>4 DEF r

\* Where an index wraps around its slot goes on, if the size divides the number
\* of words: it is the slot of the number that does not wrap.
LEMMA PlaceSlot ==
    ASSUME NEW s \in Starts, NEW n, Divides(n), NEW i \in Words
    PROVE  Place(s, i) % n = (s + i) % n
  <1>1. PICK m \in Nat : n * m = WordMod
    BY DEF Divides
  <1>2. n \in Nat \ {0} /\ s + i \in Nat /\ WordMod \in Nat
    BY StartIsWord, Half DEF Divides, Words
  <1>3. CASE s + i < WordMod
    BY <1>3 DEF Place
  <1>4. CASE ~ (s + i < WordMod)
    <2>1. PICK j \in Nat : j = (s + i) - WordMod
      BY <1>2, <1>4
    <2>2. (j + n * m) % n = j % n
      BY <1>2, SameSlot
    <2>3. j + n * m = s + i
      BY <1>1, <1>2, <2>1
    <2>4. Place(s, i) = j
      BY <1>4, <2>1 DEF Place
    <2> QED BY <2>2, <2>3, <2>4
  <1> QED BY <1>3, <1>4

\* So indices that are less than the size apart have different slots.
LEMMA DistinctPlaces ==
    ASSUME NEW s \in Starts, NEW n, Divides(n), NEW i \in Words, NEW j \in Words,
           i < j, j - i < n
    PROVE  Place(s, i) % n # Place(s, j) % n
  <1>1. s + i \in Nat /\ s + j \in Nat /\ s + i < s + j /\ (s + j) - (s + i) < n /\ n \in Nat \ {0}
    BY StartIsWord, Half DEF Divides, Words
  <1>2. (s + i) % n # (s + j) % n
    BY <1>1, DistinctSlots
  <1> QED BY <1>2, PlaceSlot

\* An array that does not use half the words can double.
LEMMA DoubleDivides ==
    ASSUME NEW n, Divides(n), n <= MaxPush
    PROVE  Divides(2 * n)
  <1>1. PICK m \in Nat : n * m = WordMod
    BY DEF Divides
  <1>2. n \in Nat \ {0} /\ WordMod \in Nat \ {0} /\ n < WordMod
    BY Half DEF Divides
  <1>3. m # 0 /\ m # 1
    BY <1>1, <1>2
  <1>4. m <= n * m /\ n <= n * m
    BY <1>2, <1>3
  <1>5. n \in 1..WordMod /\ m \in 1..WordMod /\ m * n = WordMod
    BY <1>1, <1>2, <1>3, <1>4
  <1>6. m % 2 = 0
    BY <1>3, <1>5, SizeAssumption
  <1>7. PICK k \in Nat : m = 2 * k
    <2>1. m = 2 * (m \div 2) /\ m \div 2 \in Nat
      BY <1>6, SMT
    <2> QED BY <2>1
  <1>8. (2 * n) * k = n * m
    BY <1>2, <1>7
  <1> QED BY <1>1, <1>2, <1>8 DEF Divides

-----------------------------------------------------------------------------
(* Arrays. *)

\* A circular array is a record of a size and that many slots.
LEMMA ArrayShape ==
    ASSUME NEW a \in CircularArray
    PROVE  /\ a.size \in Nat \ {0} /\ Divides(a.size)
           /\ a.items \in [0..(a.size - 1) -> Handles]
           /\ a \in [size : {a.size}, items : [0..(a.size - 1) -> Handles]]
           /\ \A i \in Nat : Get(a, i) \in Handles
  <1>1. PICK n \in Nat : Divides(n) /\ a \in [size : {n}, items : [0..(n - 1) -> Handles]]
    BY DEF CircularArray
  <1>2. a.size = n /\ a.items \in [0..(n - 1) -> Handles] /\ n \in Nat \ {0}
    BY <1>1 DEF Divides
  <1>3. \A i \in Nat : i % n \in 0..(n - 1)
    BY <1>2, SlotRange
  <1> QED BY <1>1, <1>2, <1>3 DEF Get

\* What is in a slot is a run handle.
LEMMA SlotIsHandle ==
    ASSUME NEW s \in Starts, NEW a \in CircularArray, NEW i \in Words
    PROVE  Slot(s, a, i) \in Handles
  <1>1. Place(s, i) \in Nat
    BY PlaceIs DEF Words
  <1> QED BY <1>1, ArrayShape DEF Slot

\* put() changes the slot of its index and no other.
LEMMA PutShape ==
    ASSUME NEW s \in Starts, NEW a \in CircularArray, NEW i \in Words, NEW x \in Handles
    PROVE  /\ Put(a, Place(s, i), x) \in CircularArray
           /\ Put(a, Place(s, i), x).size = a.size
           /\ Slot(s, Put(a, Place(s, i), x), i) = x
           /\ \A j \in Words : Place(s, j) % a.size # Place(s, i) % a.size =>
                 Slot(s, Put(a, Place(s, i), x), j) = Slot(s, a, j)
  <1> DEFINE n == a.size
             l == Place(s, i)
             p == Put(a, l, x)
  <1>1. /\ n \in Nat \ {0} /\ a.items \in [0..(n - 1) -> Handles] /\ Divides(n)
        /\ a \in [size : {n}, items : [0..(n - 1) -> Handles]]
    BY ArrayShape
  <1>2. \A j \in Words : Place(s, j) % n \in 0..(n - 1)
    <2>1. \A j \in Words : Place(s, j) \in Nat
      BY PlaceIs DEF Words
    <2> QED BY <1>1, <2>1, SlotRange
  <1>3. /\ p.size = n
        /\ p.items = [a.items EXCEPT ![l % n] = x]
        /\ p \in [size : {n}, items : [0..(n - 1) -> Handles]]
    BY <1>1, <1>2 DEF Put
  <1>4. p \in CircularArray
    BY <1>1, <1>3 DEF CircularArray
  <1> HIDE DEF n, p
  <1>5. p.items[l % n] = x /\ \A j : j % n \in 0..(n - 1) /\ j % n # l % n => p.items[j % n] = a.items[j % n]
    BY <1>1, <1>2, <1>3
  <1>6. Slot(s, p, i) = x
    BY <1>3, <1>5 DEF Slot, Get
  <1>7. ASSUME NEW j \in Words, Place(s, j) % n # l % n PROVE Slot(s, p, j) = Slot(s, a, j)
    BY <1>2, <1>3, <1>5, <1>7 DEF Slot, Get, n
  <1> QED BY <1>3, <1>4, <1>6, <1>7 DEF n, p

\* grow() doubles the slots and keeps the queued tasks at their indices.
LEMMA GrowShape ==
    ASSUME NEW s \in Starts, NEW a \in CircularArray, NEW x \in Words, NEW y \in Words,
           NEW t \in 0..MaxPush, NEW b \in 0..MaxPush, Sub(x, s) = t, Sub(y, s) = b,
           t <= b, b - t = a.size
    PROVE  /\ Grow(a, x, y) \in CircularArray
           /\ Grow(a, x, y).size = 2 * a.size
           /\ \A i \in t..(b - 1) : Slot(s, Grow(a, x, y), i) = Slot(s, a, i)
  <1> DEFINE n == 2 * a.size
             g == Grow(a, x, y)
             copy(l) == IF \E i \in Span(x, y) : i % n = l
                        THEN Get(a, CHOOSE i \in Span(x, y) : i % n = l)
                        ELSE None
  <1>1. n \in Nat \ {0} /\ a.size < n /\ Divides(n)
    <2>1. a.size <= MaxPush /\ a.size \in Nat \ {0}
      BY ArrayShape, Half
    <2> QED BY <2>1, ArrayShape, DoubleDivides
  <1>2. \A i \in Span(x, y) : Get(a, i) \in Handles
    BY ArrayShape DEF Span, Words
  <1>3. \A l \in 0..(n - 1) : copy(l) \in Handles
    BY <1>2 DEF Handles
  <1>4. g = [size |-> n, items |-> [l \in 0..(n - 1) |-> copy(l)]]
    BY DEF Grow
  <1>6. g.size = 2 * a.size
    BY <1>4
  <1> HIDE DEF n, copy, g
  <1>5. g \in CircularArray
    <2>1. g \in [size : {n}, items : [0..(n - 1) -> Handles]]
      BY <1>3, <1>4
    <2> QED BY <1>1, <2>1 DEF CircularArray
  <1>7. ASSUME NEW i \in t..(b - 1)
        PROVE  Slot(s, g, i) = Slot(s, a, i)
    <2>1. i \in Words /\ b - t < n
      <3>1. i \in 0..MaxPush /\ a.size \in Nat
        BY ArrayShape, Half
      <3> QED BY <1>1, <3>1, SmallWords
    <2>2. PICK l \in Words : l = Place(s, i) /\ l \in Span(x, y)
      BY <2>1, PlaceIs, SmallSpan
    <2>3. l % n \in 0..(n - 1)
      BY <1>1, <2>2, WordIsNat, SlotRange
    <2>4. ASSUME NEW k \in Span(x, y), k % n = l % n
          PROVE  k = l
      <3>1. PICK j \in t..(b - 1) : k = Place(s, j)
        BY <2>4, SmallSpan
      <3>2. j \in Words /\ i - j < n /\ j - i < n
        BY <1>1, <2>1, Half, SmallWords
      <3>3. ~ (i < j) /\ ~ (j < i)
        BY <1>1, <2>1, <2>2, <2>4, <3>1, <3>2, DistinctPlaces
      <3> QED BY <2>2, <3>1, <3>3
    <2>5. copy(l % n) = Get(a, l)
      BY <2>2, <2>4 DEF copy
    <2> QED BY <1>4, <2>2, <2>3, <2>5 DEF Slot, Get
  <1> QED BY <1>5, <1>6, <1>7 DEF g

\* The current array is a circular_array, and so are the older ones.
LEMMA CurrentShape ==
    ASSUME TypeOK, Arrays
    PROVE  /\ Len(arrays) \in Nat \ {0}
           /\ Current \in CircularArray
           /\ \A k \in 1..Len(arrays) : arrays[k] \in CircularArray
  BY DEF TypeOK, Arrays, Current

\* Appending an array makes it the current one and keeps the older ones.
LEMMA AppendShape ==
    ASSUME TypeOK, Arrays, NEW a \in CircularArray, arrays' = Append(arrays, a)
    PROVE  /\ Arrays' /\ Current' = a
           /\ Len(arrays') = Len(arrays) + 1
           /\ \A k \in 1..Len(arrays) : arrays'[k] = arrays[k]
           /\ \A k \in 1..Len(arrays') : arrays'[k] \in CircularArray
  BY CurrentShape DEF Arrays, Current

\* Replacing the current array keeps the older ones.
LEMMA ReplaceShape ==
    ASSUME TypeOK, Arrays, NEW a \in CircularArray,
           arrays' = [arrays EXCEPT ![Len(arrays)] = a]
    PROVE  /\ Arrays' /\ Current' = a
           /\ Len(arrays') = Len(arrays)
           /\ \A k \in 1..Len(arrays) : k # Len(arrays) => arrays'[k] = arrays[k]
           /\ \A k \in 1..Len(arrays') : arrays'[k] \in CircularArray
  BY CurrentShape DEF Arrays, Current

-----------------------------------------------------------------------------
(* Consequences of the invariant that every step uses. *)

\* The indices are small, and the end of the window is bottom, or the slot
\* pop() has reserved.
LEMMA Shape ==
    ASSUME NEW s \in Starts, IInv(s)
    PROVE  /\ npush \in 0..MaxPush /\ Top(s) \in 0..MaxPush /\ Bottom(s) \in 0..MaxPush
           /\ End(s) \in 0..MaxPush /\ OwnB(s) \in Nat /\ OwnT(s) \in Nat
           /\ top \in Words /\ bottom \in Words /\ ob \in Words /\ ot \in Words
           /\ MidPop => End(s) = OwnB(s) + 1 /\ OwnB(s) \in 0..MaxPush
           /\ ~ MidPop => EffBottom = bottom /\ End(s) = Bottom(s)
           /\ EffBottom \in Words
           /\ ToSigned(Sub(bottom, top)) = Bottom(s) - Top(s)
           /\ Place(s, Top(s)) = top /\ Place(s, OwnB(s)) = ob /\ Place(s, Bottom(s)) = bottom
           /\ \A i \in Live(s) : i \in Words /\ i \in Nat
  <1>1. npush \in 0..MaxPush /\ top \in Words /\ bottom \in Words /\ ob \in Words /\ ot \in Words
    BY DEF IInv, TypeOK
  <1>2. /\ Top(s) \in Nat /\ Bottom(s) \in Nat /\ OwnB(s) \in Nat /\ OwnT(s) \in Nat
        /\ Place(s, Top(s)) = top /\ Place(s, OwnB(s)) = ob /\ Place(s, Bottom(s)) = bottom
    BY <1>1, PlaceIs DEF Words, Top, Bottom, OwnB, OwnT
  <1>3. ASSUME MidPop PROVE EffBottom \in Words /\ End(s) = OwnB(s) + 1 /\ OwnB(s) \in 0..MaxPush
    <2>1. OwnB(s) < npush
      BY <1>3 DEF IInv, Indices
    <2>2. OwnB(s) < MaxPush
      BY <1>1, <1>2, <2>1, Half
    <2> QED BY <1>1, <1>2, <1>3, <2>2, SmallInc, Half DEF EffBottom, End, OwnB
  <1>4. ASSUME ~ MidPop PROVE EffBottom = bottom /\ End(s) = Bottom(s)
    BY <1>4 DEF EffBottom, End, Bottom
  <1>5. Top(s) \in 0..MaxPush /\ End(s) \in 0..MaxPush /\ Bottom(s) \in 0..MaxPush
    <2>1. Top(s) <= End(s) /\ End(s) <= npush
      BY DEF IInv, Indices
    <2>2. MidPop => Bottom(s) = OwnB(s)
      BY DEF IInv, Indices, Bottom, OwnB
    <2> QED BY <1>1, <1>2, <1>3, <1>4, <2>1, <2>2, Half
  <1>6. \A i \in Live(s) : i \in Words /\ i \in Nat
    BY <1>5, Half, SmallWords DEF Live
  <1>7. ToSigned(Sub(bottom, top)) = Bottom(s) - Top(s)
    BY <1>1, <1>5, SignedDifference DEF Bottom, Top
  <1> QED BY <1>1, <1>2, <1>3, <1>4, <1>5, <1>6, <1>7

\* Words are equal if they are equally far.
LEMMA SameFar ==
    ASSUME NEW s \in Starts, IInv(s)
    PROVE  /\ \A i \in Thieves : tt[i] \in Words /\ Seen(s, i) \in Nat /\ (tt[i] = top <=> Seen(s, i) = Top(s))
           /\ ob = top <=> OwnB(s) = Top(s)
           /\ ob = bottom <=> OwnB(s) = Bottom(s)
  <1>1. top \in Words /\ bottom \in Words /\ ob \in Words /\ \A i \in Thieves : tt[i] \in Words
    BY DEF IInv, TypeOK
  <1>2. \A i \in Thieves : Seen(s, i) \in Nat
    <2>1. \A i \in Thieves : Seen(s, i) \in Words
      BY <1>1, PlaceIs DEF Seen
    <2> QED BY <2>1, WordIsNat
  <1> QED BY <1>1, <1>2, PlaceIs DEF Seen, Top, OwnB, Bottom

\* An action that changes nothing the window is made of keeps Placed and Fits.
LEMMA SameWindow ==
    ASSUME NEW s \in Starts, IInv(s), UNCHANGED <<top, arrays, npush, taken>>,
           End(s)' = End(s), InHand' = InHand,
           opc # "destroyed", opc' # "destroyed"
    PROVE  Placed(s)'
  <1>1. Top(s)' = Top(s) /\ \A i : At(s, i)' = At(s, i)
    BY DEF Top, At, Slot, Current
  <1> QED BY <1>1 DEF IInv, Placed, Live

\* A thief that is not between reading top and its compare-exchange.
LEMMA ThievesIdle ==
    ASSUME NEW s \in Starts, IInv(s), UNCHANGED <<top, arrays, tpc, tt, ta, tx>>,
           End(s)' = End(s), opc' # "destroyed"
    PROVE  Knows(s)'
  <1>1. /\ Top(s)' = Top(s) /\ \A i : At(s, i)' = At(s, i)
        /\ \A i \in Thieves : Seen(s, i)' = Seen(s, i)
    BY DEF Top, At, Slot, Current, Seen
  <1> QED BY <1>1 DEF IInv, Knows

-----------------------------------------------------------------------------
(* The constructor. *)

\* The initial states satisfy the invariant.
LEMMA InitInv == ASSUME NEW s \in Starts, Init, s = top PROVE IInv(s)
  <1>1. bottom = s /\ opc = "idle" /\ npush = 0 /\ s \in Words
    BY StartIsWord DEF Init
  <1>2. Empty(InitSize) \in CircularArray /\ Empty(InitSize).size \in Nat
    <2>1. Divides(InitSize) /\ InitSize \in Nat
      <3>1. PICK m \in 1..WordMod : InitSize * m = WordMod
        BY SizeAssumption
      <3>2. m \in Nat
        BY Half
      <3> QED BY <3>1, <3>2, SizeAssumption DEF Divides
    <2> QED BY <2>1 DEF CircularArray, Empty, Handles
  <1>3. Arrays /\ Len(arrays) = 1 /\ Current = Empty(InitSize)
    BY <1>2 DEF Init, Arrays, Current
  <1>4. TypeOK
    <2>1. \A k \in 1..Len(arrays) : arrays[k] = Empty(InitSize)
      BY DEF Init
    <2>2. 0 \in Words
      BY Half DEF Words
    <2> QED BY <1>1, <1>2, <1>3, <2>1, <2>2, Half, ArrayShape DEF Init, TypeOK, Handles
  <1>5. EffBottom = s /\ End(s) = 0 /\ Top(s) = 0 /\ Bottom(s) = 0 /\ Live(s) = {} /\ InHand = {}
    BY <1>1 DEF EffBottom, MidPop, Live, InHand, End, Top, Bottom, Sub, Words
  <1>6. Indices(s)
    BY <1>1, <1>5 DEF Indices, MidPop
  <1>7. Fits(s)
    BY <1>1, <1>2, <1>3, <1>5, ArrayShape DEF Fits
  <1>8. Placed(s)
    BY <1>1, <1>5 DEF Init, Placed
  <1>9. Knows(s)
    BY DEF Init, Knows
  <1> QED BY <1>3, <1>4, <1>6, <1>7, <1>8, <1>9 DEF IInv

-----------------------------------------------------------------------------
(* push(). *)

\* PushBegin preserves the invariant.
LEMMA PushBeginInv == ASSUME NEW s \in Starts PROVE IInv(s) /\ PushBegin => IInv(s)'
  <1> SUFFICES ASSUME IInv(s), PushBegin PROVE IInv(s)'
    OBVIOUS
  <1>1. /\ opc = "idle" /\ opc' \in {"push_grow", "push_put"}
        /\ npush < MaxPush /\ npush' = npush + 1 /\ ox' = npush + 1
        /\ UNCHANGED <<top, bottom, arrays, tpc, tt, ta, tx, taken, Top(s), Bottom(s)>>
        /\ ob' = bottom /\ ot' = top /\ OwnB(s)' = Bottom(s) /\ OwnT(s)' = Top(s)
        /\ opc' = "push_put" => Bottom(s) - Top(s) < Current.size
        /\ opc' = "push_grow" => Bottom(s) - Top(s) >= Current.size
    <2>1. ToSigned(Sub(bottom, top)) = Bottom(s) - Top(s) /\ Current.size \in Nat /\ Bottom(s) - Top(s) \in Int
      BY Shape, CurrentShape, ArrayShape, Half DEF IInv
    <2> QED BY <2>1 DEF PushBegin, IInv, shared, thiefVars, Bottom, Top, OwnB, OwnT
  <1>2. End(s) = Bottom(s) /\ End(s)' = Bottom(s) /\ Current' = Current
    BY <1>1 DEF End, EffBottom, MidPop, Bottom, Current
  <1>3. InHand = {} /\ InHand' = {npush + 1} /\ Live(s)' = Live(s) /\ Live(s) = Top(s)..(Bottom(s) - 1)
    BY <1>1, <1>2 DEF InHand, Live
  <1>4. TypeOK'
    <2>1. npush + 1 \in 0..MaxPush /\ npush + 1 \in Handles
      BY <1>1, Shape, Half DEF Handles, Tasks
    <2> QED BY <1>1, <2>1 DEF IInv, TypeOK
  <1>5. Arrays'
    BY <1>1 DEF IInv, Arrays
  <1>6. Indices(s)'
    <2>1. Bottom(s) - Top(s) <= Current.size /\ Top(s) <= Bottom(s) /\ Bottom(s) <= npush
      BY <1>2 DEF IInv, Indices, Fits
    <2>2. Current.size \in Nat
      BY CurrentShape, ArrayShape DEF IInv
    <2> QED BY <1>1, <1>2, <2>1, <2>2, Shape, Half DEF Indices, MidPop
  <1>7. Fits(s)'
    BY <1>1, <1>2, Shape, Half DEF IInv, Fits
  <1>8. Placed(s)'
    <2>1. \A i \in Live(s) : At(s, i)' = At(s, i)
      BY <1>2 DEF At, Slot
    <2>2. npush + 1 \in Handles /\ taken[npush + 1] = 0
      BY <1>1, Shape, Half DEF IInv, Placed, Handles, Tasks
    <2>3. \A x : x \in 1..npush' <=> x \in 1..npush \/ x = npush + 1
      BY <1>1, Shape, Half
    <2>4. npush + 1 \notin 1..npush
      BY Shape, Half
    <2> QED BY <1>1, <1>3, <2>1, <2>2, <2>3, <2>4 DEF IInv, Placed
  <1>9. Knows(s)'
    BY <1>1, <1>2, ThievesIdle
  <1> QED BY <1>4, <1>5, <1>6, <1>7, <1>8, <1>9 DEF IInv

\* PushGrow preserves the invariant.
LEMMA PushGrowInv == ASSUME NEW s \in Starts PROVE IInv(s) /\ PushGrow => IInv(s)'
  <1> SUFFICES ASSUME IInv(s), PushGrow PROVE IInv(s)'
    OBVIOUS
  <1> DEFINE g == Grow(Current, ot, ob)
  <1>1. /\ opc = "push_grow" /\ opc' = "push_put"
        /\ arrays' = Append(arrays, g)
        /\ UNCHANGED <<top, bottom, ob, ot, ox, tpc, tt, ta, tx, npush, taken, Top(s), Bottom(s), OwnB(s), OwnT(s)>>
    BY DEF PushGrow, thiefVars, history, Bottom, OwnB, OwnT, Top
  <1>2. /\ End(s) = Bottom(s) /\ End(s)' = Bottom(s) /\ InHand' = InHand
        /\ Live(s)' = Live(s) /\ Live(s) = Top(s)..(Bottom(s) - 1)
    BY <1>1 DEF End, EffBottom, MidPop, Bottom, InHand, Live
  <1>3. /\ OwnB(s) = Bottom(s) /\ OwnT(s) <= Top(s) /\ OwnB(s) - OwnT(s) = Current.size
        /\ OwnT(s) \in 0..MaxPush /\ OwnB(s) \in 0..MaxPush /\ OwnT(s) <= OwnB(s)
    <2>1. OwnB(s) = Bottom(s) /\ OwnT(s) <= Top(s) /\ OwnB(s) - OwnT(s) = Current.size /\ Top(s) <= Bottom(s) /\ OwnT(s) \in Nat
      BY <1>1, <1>2, Shape DEF IInv, Indices, OwnB, Bottom
    <2> QED BY <2>1, Shape, Half
  <1>4. /\ g \in CircularArray /\ g.size = 2 * Current.size
        /\ \A i \in OwnT(s)..(OwnB(s) - 1) : Slot(s, g, i) = At(s, i)
        /\ Current.size \in Nat \ {0}
    BY <1>3, Shape, CurrentShape, GrowShape, ArrayShape DEF IInv, At, OwnT, OwnB
  <1> HIDE DEF g
  <1>5. /\ Arrays' /\ Current' = g /\ Len(arrays') = Len(arrays) + 1
        /\ \A k \in 1..Len(arrays) : arrays'[k] = arrays[k]
        /\ \A k \in 1..Len(arrays') : arrays'[k] \in CircularArray
        /\ Len(arrays) \in Nat \ {0}
    BY <1>1, <1>4, AppendShape, CurrentShape DEF IInv
  <1>6. \A i \in Live(s) : At(s, i)' = At(s, i)
    BY <1>2, <1>3, <1>4, <1>5, Shape, Half DEF At, Slot
  <1>7. TypeOK'
    <2>1. \A k \in 1..Len(arrays') :
             /\ arrays'[k].size \in Nat \ {0}
             /\ arrays'[k] \in [size : {arrays'[k].size},
                               items : [0..(arrays'[k].size - 1) -> Handles]]
      BY <1>5, ArrayShape
    <2>2. ta' \in [Thieves -> 1..Len(arrays')]
      BY <1>1, <1>5 DEF IInv, TypeOK
    <2> QED BY <1>1, <1>5, <2>1, <2>2 DEF IInv, TypeOK
  <1>8. Indices(s)'
    BY <1>1, <1>2 DEF IInv, Indices, MidPop
  <1>9. Fits(s)'
    <2>1. End(s) - Top(s) <= Current.size /\ Bottom(s) - Top(s) \in Int /\ End(s) = Bottom(s)
      BY <1>2, Shape, Half DEF IInv, Fits
    <2>2. Bottom(s) - Top(s) <= Current.size /\ Current.size < Current'.size
      BY <1>4, <1>5, <2>1
    <2> QED BY <1>1, <1>2, <1>4, <1>5, <2>1, <2>2 DEF Fits
  <1>10. Placed(s)'
    BY <1>1, <1>2, <1>6 DEF IInv, Placed
  <1>11. Knows(s)'
    <2>1. Top(s) < End(s) => At(s, Top(s))' = At(s, Top(s))
      BY <1>1, <1>2, <1>6, Shape, Half DEF At, Slot
    <2>2. \A i \in Thieves : arrays'[ta'[i]] = arrays[ta[i]]
      BY <1>1, <1>5 DEF IInv, TypeOK
    <2> QED BY <1>1, <1>2, <2>1, <2>2 DEF IInv, Knows, Seen
  <1> QED BY <1>5, <1>7, <1>8, <1>9, <1>10, <1>11 DEF IInv

\* PushGrowThrows preserves the invariant.
LEMMA PushGrowThrowsInv == ASSUME NEW s \in Starts PROVE IInv(s) /\ PushGrowThrows => IInv(s)'
  <1> SUFFICES ASSUME IInv(s), PushGrowThrows PROVE IInv(s)'
    OBVIOUS
  <1>1. /\ opc = "push_grow" /\ opc' = "idle"
        /\ taken' = [taken EXCEPT ![ox] = @ + 1]
        /\ UNCHANGED <<top, bottom, arrays, ob, ot, ox, tpc, tt, ta, tx, npush, Top(s), Bottom(s), OwnB(s), OwnT(s)>>
    BY DEF PushGrowThrows, shared, thiefVars, Give, Bottom, OwnB, OwnT, Top
  <1>2. /\ End(s) = Bottom(s) /\ End(s)' = Bottom(s) /\ Live(s)' = Live(s)
        /\ InHand = {ox} /\ InHand' = {} /\ Current' = Current
        /\ \A i \in Live(s) : At(s, i)' = At(s, i)
    BY <1>1 DEF End, EffBottom, MidPop, Bottom, InHand, Live, Current, At, Slot
  <1>3. ox = npush /\ ox \in Handles /\ taken[ox] = 0 /\ taken \in [Handles -> Nat]
    BY <1>1, <1>2 DEF IInv, Indices, Placed, TypeOK
  <1>4. taken'[ox] = 1 /\ \A x \in Handles : x # ox => taken'[x] = taken[x]
    BY <1>1, <1>3
  <1>5. TypeOK'
    BY <1>1, <1>3 DEF IInv, TypeOK
  <1>6. Arrays' /\ Indices(s)' /\ Fits(s)'
    BY <1>1, <1>2 DEF IInv, Arrays, Indices, Fits, MidPop
  <1>7. Placed(s)'
    <2>1. ox \in 1..npush
      BY <1>1, <1>2, <1>3, Shape, Half DEF IInv, Indices
    <2>2. 1..npush \subseteq Handles
      BY Shape, Half DEF Handles, Tasks
    <2> QED BY <1>1, <1>2, <1>3, <1>4, <2>1, <2>2 DEF IInv, Placed
  <1>8. Knows(s)'
    BY <1>1, <1>2, ThievesIdle
  <1> QED BY <1>5, <1>6, <1>7, <1>8 DEF IInv

\* PushPut preserves the invariant.
LEMMA PushPutInv == ASSUME NEW s \in Starts PROVE IInv(s) /\ PushPut => IInv(s)'
  <1> SUFFICES ASSUME IInv(s), PushPut PROVE IInv(s)'
    OBVIOUS
  <1> DEFINE p == Put(Current, ob, ox)
             last == Len(arrays)
  <1>1. /\ opc = "push_put" /\ opc' = "push_publish"
        /\ arrays' = [arrays EXCEPT ![last] = p]
        /\ UNCHANGED <<top, bottom, ob, ot, ox, tpc, tt, ta, tx, npush, taken, Top(s), Bottom(s), OwnB(s), OwnT(s)>>
    BY DEF PushPut, thiefVars, history, Current, Bottom, OwnB, OwnT, Top
  <1>2. /\ End(s) = Bottom(s) /\ End(s)' = Bottom(s) /\ InHand' = InHand
        /\ Live(s)' = Live(s) /\ Live(s) = Top(s)..(Bottom(s) - 1)
    BY <1>1 DEF End, EffBottom, MidPop, Bottom, InHand, Live
  <1>3. /\ OwnB(s) = Bottom(s) /\ Bottom(s) - Top(s) < Current.size /\ ox \in Handles
        /\ Top(s) \in 0..MaxPush /\ OwnB(s) \in Words /\ Current \in CircularArray
        /\ Current.size \in Nat \ {0} /\ Divides(Current.size) /\ Place(s, OwnB(s)) = ob
    <2>1. OwnB(s) = Bottom(s) /\ Bottom(s) - Top(s) < Current.size /\ ox \in Handles
      BY <1>1 DEF IInv, Indices, Fits, TypeOK, OwnB, Bottom
    <2> QED BY <2>1, Shape, SmallWords, CurrentShape, ArrayShape DEF IInv
  <1>4. /\ p \in CircularArray /\ p.size = Current.size /\ Slot(s, p, OwnB(s)) = ox
        /\ \A j \in Words : Place(s, j) % Current.size # Place(s, OwnB(s)) % Current.size =>
              Slot(s, p, j) = At(s, j)
    BY <1>3, PutShape DEF At
  <1> HIDE DEF p
  <1>5. /\ Arrays' /\ Current' = p /\ Len(arrays') = last
        /\ \A k \in 1..last : k # last => arrays'[k] = arrays[k]
        /\ \A k \in 1..Len(arrays') : arrays'[k] \in CircularArray
        /\ last \in Nat \ {0}
    BY <1>1, <1>4, ReplaceShape, CurrentShape DEF IInv
  <1>6. \A i \in Live(s) : Slot(s, p, i) = At(s, i)
    <2>1. SUFFICES ASSUME NEW i \in Live(s) PROVE Place(s, i) % Current.size # Place(s, OwnB(s)) % Current.size
      BY <1>4, Shape
    <2>2. i \in Words /\ i < OwnB(s) /\ OwnB(s) - i < Current.size
      BY <1>2, <1>3, Shape, Half
    <2> QED BY <1>3, <2>2, DistinctPlaces
  <1>7. TypeOK'
    <2>1. \A k \in 1..Len(arrays') :
             /\ arrays'[k].size \in Nat \ {0}
             /\ arrays'[k] \in [size : {arrays'[k].size},
                               items : [0..(arrays'[k].size - 1) -> Handles]]
      BY <1>5, ArrayShape
    <2>2. ta' \in [Thieves -> 1..Len(arrays')]
      BY <1>1, <1>5 DEF IInv, TypeOK
    <2> QED BY <1>1, <1>5, <2>1, <2>2 DEF IInv, TypeOK
  <1>8. Indices(s)'
    BY <1>1, <1>2 DEF IInv, Indices, MidPop
  <1>9. Fits(s)'
    BY <1>1, <1>2, <1>3, <1>4, <1>5 DEF IInv, Fits, At
  <1>10. Placed(s)'
    <2>1. \A i \in Live(s) : At(s, i)' = At(s, i)
      BY <1>5, <1>6 DEF At, Slot
    <2> QED BY <1>1, <1>2, <2>1 DEF IInv, Placed
  <1>11. Knows(s)'
    <2>1. Top(s) < End(s) => Slot(s, p, Top(s)) = At(s, Top(s))
      BY <1>2, <1>3, <1>6, Shape, Half
    <2>2. \A i \in Thieves : ta[i] # last => arrays'[ta'[i]] = arrays[ta[i]]
      BY <1>1, <1>5 DEF IInv, TypeOK
    <2>3. \A i \in Thieves : ta[i] = last => arrays'[ta'[i]] = p
      BY <1>1, <1>5 DEF Current
    <2>4. \A i : At(s, i)' = Slot(s, p, i)
      BY <1>5 DEF At, Slot
    <2> QED BY <1>1, <1>2, <1>5, <2>1, <2>2, <2>3, <2>4 DEF IInv, Knows, At, Seen
  <1> QED BY <1>5, <1>7, <1>8, <1>9, <1>10, <1>11 DEF IInv

\* PushPublish preserves the invariant.
LEMMA PushPublishInv == ASSUME NEW s \in Starts PROVE IInv(s) /\ PushPublish => IInv(s)'
  <1> SUFFICES ASSUME IInv(s), PushPublish PROVE IInv(s)'
    OBVIOUS
  <1>1. /\ opc = "push_publish" /\ opc' = "idle" /\ bottom' = Inc(ob)
        /\ UNCHANGED <<top, arrays, ob, ot, ox, tpc, tt, ta, tx, npush, taken, Top(s), OwnB(s), OwnT(s)>>
    BY DEF PushPublish, thiefVars, history, OwnB, OwnT, Top
  <1>2. /\ OwnB(s) = Bottom(s) /\ End(s) = Bottom(s) /\ Bottom(s) < npush /\ ox = npush
        /\ Bottom(s) - Top(s) < Current.size /\ At(s, Bottom(s)) = ox /\ Top(s) <= Bottom(s)
    BY <1>1 DEF IInv, Indices, Fits, End, EffBottom, MidPop, Bottom, OwnB
  <1>3. /\ Bottom(s)' = Bottom(s) + 1 /\ End(s)' = Bottom(s) + 1 /\ Current' = Current
        /\ InHand = {ox} /\ InHand' = {} /\ \A i : At(s, i)' = At(s, i)
    <2>1. Bottom(s) < MaxPush /\ ob = bottom /\ bottom \in Words
      BY <1>1, <1>2, Shape, Half DEF IInv, Indices
    <2>2. Sub(Inc(bottom), s) = Sub(bottom, s) + 1
      BY <2>1, SmallInc DEF Bottom
    <2> QED BY <1>1, <2>1, <2>2 DEF End, EffBottom, MidPop, Bottom, Current, InHand, At, Slot
  <1>4. /\ Live(s) = Top(s)..(Bottom(s) - 1) /\ Live(s)' = Top(s)..Bottom(s)
    BY <1>1, <1>2, <1>3, Shape, Half DEF Live
  <1>5. TypeOK'
    <2>1. bottom' \in Words
      <3>1. OwnB(s) < MaxPush
        BY <1>2, Shape, Half
      <3> QED BY <1>1, <3>1, Shape, SmallInc DEF OwnB
    <2> QED BY <1>1, <2>1 DEF IInv, TypeOK
  <1>6. Arrays' /\ Indices(s)' /\ Fits(s)'
    BY <1>1, <1>2, <1>3, Shape, Half, CurrentShape, ArrayShape
       DEF IInv, Arrays, Indices, Fits, MidPop
  <1>7. Placed(s)'
    <2>1. \A i : i \in Live(s)' <=> i \in Live(s) \/ i = Bottom(s)
      BY <1>2, <1>4, Shape, Half
    <2>2. ox \in 1..npush /\ taken[ox] = 0
      BY <1>2, <1>3, Shape, Half DEF IInv, Placed
    <2> QED BY <1>1, <1>2, <1>3, <2>1, <2>2 DEF IInv, Placed
  <1>8. Knows(s)'
    BY <1>1, <1>2, <1>3, Shape, Half DEF IInv, Knows, Seen, Slot
  <1> QED BY <1>5, <1>6, <1>7, <1>8 DEF IInv
-----------------------------------------------------------------------------
(* pop(). *)

\* Handing out the task of a live index that leaves the window keeps every
\* task in one place.
LEMMA TakeOne ==
    ASSUME NEW s \in Starts, IInv(s), NEW k \in Live(s), Live(s)' = Live(s) \ {k},
           taken' = [taken EXCEPT ![At(s, k)] = @ + 1],
           UNCHANGED <<arrays, npush>>, InHand' = InHand
    PROVE  Placed(s)' /\ taken' \in [Handles -> Nat]
  <1> DEFINE x0 == At(s, k)
  <1>1. \A i : At(s, i)' = At(s, i)
    BY DEF At, Slot, Current
  <1>2. /\ x0 \in 1..npush /\ x0 \in Handles /\ taken[x0] = 0 /\ x0 \notin InHand
        /\ taken \in [Handles -> Nat]
    BY Shape, Half DEF IInv, Placed, TypeOK, Handles, Tasks
  <1>3. \A i \in Live(s)' : i \in Live(s) /\ At(s, i) # x0
    BY DEF IInv, Placed
  <1> HIDE DEF x0
  <1>4. taken' = [taken EXCEPT ![x0] = @ + 1]
    BY DEF x0
  <1>5. taken'[x0] = 1 /\ \A x \in Handles : x # x0 => taken'[x] = taken[x]
    BY <1>2, <1>4
  <1>6. 1..npush \subseteq Handles
    BY Shape, Half DEF Handles, Tasks
  <1>7. ASSUME NEW x \in 1..npush, taken'[x] = 0
        PROVE  x \in InHand \/ \E i \in Live(s)' : At(s, i) = x
    <2>1. x # x0 /\ taken[x] = 0
      BY <1>5, <1>6, <1>7
    <2>2. x \in InHand \/ \E i \in Live(s) : At(s, i) = x
      BY <2>1 DEF IInv, Placed
    <2> QED BY <2>1, <2>2 DEF x0
  <1>8. \A i \in Live(s)' : At(s, i) \in 1..npush /\ taken'[At(s, i)] = 0 /\ At(s, i) \notin InHand
    BY <1>3, <1>5, <1>6 DEF IInv, Placed
  <1>9. \A x \in InHand : x \in Handles /\ taken'[x] = 0
    <2>1. InHand \subseteq Handles
      BY DEF IInv, TypeOK, InHand
    <2> QED BY <1>2, <1>5, <2>1 DEF IInv, Placed
  <1>10. \A x \in Handles : taken'[x] \in {0, 1} /\ (x \notin 1..npush => taken'[x] = 0)
    BY <1>2, <1>5 DEF IInv, Placed
  <1>11. \A i, j \in Live(s)' : At(s, i) = At(s, j) => i = j
    BY <1>3 DEF IInv, Placed
  <1>12. taken' \in [Handles -> Nat]
    BY <1>2, <1>4
  <1> QED BY <1>1, <1>7, <1>8, <1>9, <1>10, <1>11, <1>12 DEF Placed

\* PopBegin preserves the invariant.
LEMMA PopBeginInv == ASSUME NEW s \in Starts PROVE IInv(s) /\ PopBegin => IInv(s)'
  <1> SUFFICES ASSUME IInv(s), PopBegin PROVE IInv(s)'
    OBVIOUS
  <1>1. /\ opc = "idle" /\ opc' = "pop_reserve" /\ ob' = Dec(bottom) /\ ot' = top
        /\ Bottom(s) - Top(s) > 0
        /\ UNCHANGED <<top, bottom, arrays, ox, tpc, tt, ta, tx, npush, taken, Top(s), Bottom(s)>>
    BY Shape DEF PopBegin, shared, thiefVars, history, Bottom, Top
  <1>2. /\ Bottom(s) \in 1..MaxPush /\ OwnB(s)' = Bottom(s) - 1
        /\ End(s) = Bottom(s) /\ End(s)' = Bottom(s)
        /\ InHand = {} /\ InHand' = {} /\ Current' = Current
    <2>1. Bottom(s) \in 1..MaxPush /\ bottom \in Words
      BY <1>1, Shape, Half
    <2>2. Sub(Dec(bottom), s) = Bottom(s) - 1
      BY <2>1, SmallInc DEF Bottom
    <2> QED BY <1>1, <2>1, <2>2 DEF End, EffBottom, MidPop, InHand, Current, Bottom, OwnB
  <1>3. TypeOK'
    <2>1. ob' \in Words
      <3>1. Bottom(s) >= 1 /\ bottom \in Words
        BY <1>2, Shape, Half
      <3> QED BY <1>1, <3>1, SmallInc DEF Bottom
    <2> QED BY <1>1, <2>1, Shape DEF IInv, TypeOK
  <1>4. Arrays' /\ Indices(s)' /\ Fits(s)'
    BY <1>1, <1>2 DEF IInv, Arrays, Indices, Fits, MidPop
  <1>5. Placed(s)' /\ Knows(s)'
    BY <1>1, <1>2, SameWindow, ThievesIdle
  <1> QED BY <1>3, <1>4, <1>5 DEF IInv

\* PopReserve preserves the invariant.
LEMMA PopReserveInv == ASSUME NEW s \in Starts PROVE IInv(s) /\ PopReserve => IInv(s)'
  <1> SUFFICES ASSUME IInv(s), PopReserve PROVE IInv(s)'
    OBVIOUS
  <1>1. /\ opc = "pop_reserve" /\ opc' = "pop_reread" /\ bottom' = ob
        /\ UNCHANGED <<top, arrays, ob, ot, ox, tpc, tt, ta, tx, npush, taken, Top(s), OwnB(s), OwnT(s)>>
    BY DEF PopReserve, thiefVars, history, OwnB, OwnT, Top
  <1>2. /\ Bottom(s) \in 1..MaxPush /\ OwnB(s) = Bottom(s) - 1 /\ End(s) = Bottom(s)
        /\ Bottom(s) <= npush
    BY <1>1, Shape, Half DEF IInv, Indices, End, EffBottom, MidPop, Bottom
  <1>3. /\ End(s)' = Bottom(s) /\ Bottom(s)' = OwnB(s)
        /\ InHand = {} /\ InHand' = {} /\ Current' = Current
    <2>1. OwnB(s) < MaxPush /\ ob \in Words
      BY <1>2, Shape, Half
    <2>2. Sub(Inc(ob), s) = OwnB(s) + 1
      BY <2>1, SmallInc DEF OwnB
    <2>3. OwnB(s) + 1 = Bottom(s)
      BY <1>2, Half
    <2> QED BY <1>1, <2>2, <2>3 DEF End, EffBottom, MidPop, InHand, Current, Bottom, OwnB
  <1>4. TypeOK'
    BY <1>1 DEF IInv, TypeOK
  <1>5. Arrays' /\ Indices(s)' /\ Fits(s)'
    <2>1. OwnB(s) < npush
      BY <1>2, Shape, Half
    <2> QED BY <1>1, <1>2, <1>3, <2>1 DEF IInv, Arrays, Indices, Fits, MidPop
  <1>6. Placed(s)' /\ Knows(s)'
    BY <1>1, <1>2, <1>3, SameWindow, ThievesIdle
  <1> QED BY <1>4, <1>5, <1>6 DEF IInv

\* PopReread preserves the invariant.
LEMMA PopRereadInv == ASSUME NEW s \in Starts PROVE IInv(s) /\ PopReread => IInv(s)'
  <1> SUFFICES ASSUME IInv(s), PopReread PROVE IInv(s)'
    OBVIOUS
  <1>1. /\ opc = "pop_reread" /\ ot' = top
        /\ UNCHANGED <<top, bottom, arrays, ob, tpc, tt, ta, tx, npush, Top(s), Bottom(s), OwnB(s)>>
    BY DEF PopReread, shared, thiefVars, Bottom, OwnB, Top
  <1>2. /\ bottom = ob /\ Bottom(s) = OwnB(s) /\ OwnB(s) < npush /\ OwnB(s) \in 0..MaxPush
        /\ End(s) = OwnB(s) + 1 /\ Top(s) <= OwnB(s) + 1 /\ InHand = {} /\ Current' = Current
        /\ End(s) - Top(s) <= Current.size /\ Top(s) \in 0..MaxPush
    BY <1>1, Shape DEF IInv, Indices, Fits, MidPop, InHand, Current, Bottom, OwnB
  <1>3. ToSigned(Sub(ob, top)) = OwnB(s) - Top(s) /\ (ob = top <=> OwnB(s) = Top(s))
    BY <1>2, Shape, SignedDifference, SameFar DEF OwnB, Top
  <1>4. At(s, OwnB(s)) \in Handles /\ At(s, OwnB(s)) = Get(Current, ob)
    BY <1>2, Shape, SmallWords, CurrentShape, SlotIsHandle DEF IInv, At, Slot
  <1>5. Arrays'
    BY <1>1 DEF IInv, Arrays
  <1>6. CASE opc' = "pop_restore" /\ OwnB(s) < Top(s) /\ UNCHANGED <<ox, taken>>
    <2>1. End(s)' = End(s) /\ InHand' = {}
      BY <1>1, <1>2, <1>6 DEF End, EffBottom, MidPop, InHand
    <2>2. TypeOK'
      BY <1>1, <1>6 DEF IInv, TypeOK
    <2>3. Top(s) = OwnB(s) + 1
      BY <1>2, <1>6, Half
    <2>4. Indices(s)' /\ Fits(s)'
      BY <1>1, <1>2, <1>6, <2>1, <2>3 DEF IInv, Indices, Fits, MidPop
    <2>5. Placed(s)' /\ Knows(s)'
      BY <1>1, <1>2, <1>6, <2>1, SameWindow, ThievesIdle
    <2> QED BY <1>5, <2>2, <2>4, <2>5 DEF IInv
  <1>7. CASE opc' = "pop_cas" /\ ob = top /\ OwnB(s) = Top(s) /\ ox' = At(s, OwnB(s)) /\ UNCHANGED taken
    <2>1. End(s)' = End(s) /\ InHand' = {}
      BY <1>1, <1>2, <1>7 DEF End, EffBottom, MidPop, InHand
    <2>2. TypeOK'
      BY <1>1, <1>4, <1>7 DEF IInv, TypeOK
    <2>3. Indices(s)' /\ Fits(s)'
      <3>1. At(s, OwnB(s))' = At(s, OwnB(s))
        BY <1>1, <1>2 DEF At, Slot
      <3> QED BY <1>1, <1>2, <1>7, <2>1, <3>1, Half DEF IInv, Indices, Fits, MidPop
    <2>4. Placed(s)' /\ Knows(s)'
      BY <1>1, <1>2, <1>7, <2>1, SameWindow, ThievesIdle
    <2> QED BY <1>5, <2>2, <2>3, <2>4 DEF IInv
  <1>8. CASE /\ opc' = "idle" /\ OwnB(s) > Top(s) /\ ox' = At(s, OwnB(s))
             /\ taken' = [taken EXCEPT ![At(s, OwnB(s))] = @ + 1]
    <2>1. End(s)' = OwnB(s) /\ InHand' = {}
      BY <1>1, <1>2, <1>8 DEF End, EffBottom, MidPop, InHand, OwnB
    <2>2. Live(s) = Top(s)..OwnB(s) /\ Live(s)' = Top(s)..(OwnB(s) - 1)
      BY <1>1, <1>2, <1>8, <2>1, Half DEF Live
    <2>3. Live(s)' = Live(s) \ {OwnB(s)} /\ OwnB(s) \in Live(s)
      BY <1>2, <1>8, <2>2, Half
    <2>4. Placed(s)' /\ taken' \in [Handles -> Nat]
      BY <1>1, <1>2, <1>8, <2>1, <2>3, TakeOne
    <2>5. TypeOK'
      BY <1>1, <1>4, <1>8, <2>4 DEF IInv, TypeOK
    <2>6. Indices(s)' /\ Fits(s)'
      <3>1. OwnB(s) - Top(s) <= Current.size /\ OwnB(s) <= npush /\ Top(s) <= OwnB(s)
        BY <1>2, <1>8, Half, Shape, CurrentShape, ArrayShape DEF IInv
      <3> QED BY <1>1, <1>2, <1>8, <2>1, <3>1 DEF Indices, Fits, MidPop
    <2>7. Knows(s)'
      BY <1>1, <1>2, <1>8, <2>1 DEF IInv, Knows, At, Slot, Seen
    <2> QED BY <1>5, <2>4, <2>5, <2>6, <2>7 DEF IInv
  <1>9. OwnB(s) - Top(s) < 0 <=> OwnB(s) < Top(s)
    BY <1>2, Half
  <1>10. OwnB(s) - Top(s) >= 0 /\ OwnB(s) # Top(s) => OwnB(s) > Top(s)
    BY <1>2, Half
  <1> QED BY <1>3, <1>4, <1>6, <1>7, <1>8, <1>9, <1>10 DEF PopReread, Give

\* PopCas preserves the invariant.
LEMMA PopCasInv == ASSUME NEW s \in Starts PROVE IInv(s) /\ PopCas => IInv(s)'
  <1> SUFFICES ASSUME IInv(s), PopCas PROVE IInv(s)'
    OBVIOUS
  <1>1. /\ opc = "pop_cas" /\ opc' = "pop_restore"
        /\ UNCHANGED <<bottom, arrays, ob, ot, ox, tpc, tt, ta, tx, npush, Bottom(s), OwnB(s), OwnT(s)>>
    BY DEF PopCas, thiefVars, Bottom, OwnB, OwnT
  <1>2. /\ bottom = ob /\ ot = ob /\ ox = At(s, OwnB(s)) /\ OwnB(s) < npush /\ OwnB(s) \in 0..MaxPush
        /\ End(s) = OwnB(s) + 1 /\ End(s)' = OwnB(s) + 1 /\ OwnB(s) <= Top(s) /\ Top(s) <= OwnB(s) + 1
        /\ Top(s) \in 0..MaxPush /\ InHand = {} /\ InHand' = {} /\ Current' = Current
    <2>1. opc' = "pop_restore" /\ EffBottom' = EffBottom
      BY <1>1 DEF EffBottom, MidPop
    <2>2. End(s)' = End(s)
      BY <2>1 DEF End
    <2> QED BY <1>1, <2>2, Shape DEF IInv, Indices, MidPop, InHand, Current
  <1>3. Arrays'
    BY <1>1 DEF IInv, Arrays
  <1>4. CASE top # ot /\ UNCHANGED <<top, taken>>
    <2>1. Top(s) = OwnB(s) + 1
      BY <1>2, <1>4, SameFar, Half
    <2>4. Top(s)' = Top(s)
      BY <1>4 DEF Top
    <2>2. TypeOK' /\ Indices(s)' /\ Fits(s)'
      BY <1>1, <1>2, <1>4, <2>1, <2>4 DEF IInv, TypeOK, Indices, Fits, MidPop
    <2>3. Placed(s)' /\ Knows(s)'
      BY <1>1, <1>2, <1>4, SameWindow, ThievesIdle
    <2> QED BY <1>3, <2>2, <2>3 DEF IInv
  <1>5. CASE top = ot /\ top' = Inc(ot) /\ taken' = [taken EXCEPT ![ox] = @ + 1]
    <2>1. Top(s) = OwnB(s) /\ Top(s)' = OwnB(s) + 1 /\ OwnB(s) + 1 \in 0..MaxPush /\ top' \in Words
      <3>1. Top(s) = OwnB(s) /\ OwnB(s) < MaxPush /\ top \in Words /\ top' = Inc(top) /\ OwnB(s) + 1 \in 0..MaxPush
        BY <1>2, <1>5, Shape, SameFar, Half
      <3>2. Inc(top) \in Words /\ Sub(Inc(top), s) = Top(s) + 1
        BY <3>1, SmallInc DEF Top
      <3> QED BY <3>1, <3>2 DEF Top
    <2>2. Live(s) = Top(s)..OwnB(s) /\ Live(s)' = (OwnB(s) + 1)..OwnB(s)
      BY <1>1, <1>2, <2>1, Half DEF Live
    <2>3. Live(s)' = Live(s) \ {OwnB(s)} /\ OwnB(s) \in Live(s)
      BY <1>2, <2>1, <2>2, Half
    <2>4. Placed(s)' /\ taken' \in [Handles -> Nat]
      BY <1>1, <1>2, <1>5, <2>3, TakeOne
    <2>5. TypeOK'
      BY <1>1, <2>1, <2>4 DEF IInv, TypeOK
    <2>6. Indices(s)' /\ Fits(s)'
      <3>1. Current.size \in Nat
        BY CurrentShape, ArrayShape DEF IInv
      <3> QED BY <1>1, <1>2, <2>1, <3>1, Shape, Half DEF Indices, Fits, MidPop
    <2>7. Knows(s)'
      <3>1. \A i \in Thieves : tpc[i] \in {"bottom", "array", "item", "cas"} =>
               Seen(s, i)' <= Top(s)' /\ tt'[i] # top'
        <4> SUFFICES ASSUME NEW i \in Thieves, tpc[i] \in {"bottom", "array", "item", "cas"}
                     PROVE  Seen(s, i)' <= Top(s)' /\ tt'[i] # top'
          OBVIOUS
        <4>1. Seen(s, i) <= Top(s) /\ Seen(s, i) \in Nat /\ Seen(s, i)' = Seen(s, i)
          BY <1>1, SameFar DEF IInv, Knows, Seen
        <4>2. Seen(s, i)' < Top(s)'
          BY <1>2, <2>1, <4>1, Half
        <4> QED BY <1>2, <2>1, <4>1, <4>2, Half DEF Seen, Top
      <3> QED BY <1>1, <3>1 DEF IInv, Knows
    <2> QED BY <1>3, <2>4, <2>5, <2>6, <2>7 DEF IInv
  <1> QED BY <1>4, <1>5 DEF PopCas, Give

\* PopRestore preserves the invariant.
LEMMA PopRestoreInv == ASSUME NEW s \in Starts PROVE IInv(s) /\ PopRestore => IInv(s)'
  <1> SUFFICES ASSUME IInv(s), PopRestore PROVE IInv(s)'
    OBVIOUS
  <1>1. /\ opc = "pop_restore" /\ opc' = "idle" /\ bottom' = Inc(ob)
        /\ UNCHANGED <<top, arrays, ob, ot, ox, tpc, tt, ta, tx, npush, taken, Top(s), OwnB(s), OwnT(s)>>
    BY DEF PopRestore, thiefVars, history, OwnB, OwnT, Top
  <1>2. /\ End(s)' = End(s) /\ Bottom(s)' = End(s) /\ bottom' = EffBottom
        /\ InHand = {} /\ InHand' = {} /\ Current' = Current
    BY <1>1 DEF End, EffBottom, MidPop, InHand, Current, Bottom
  <1>3. TypeOK'
    BY <1>1, <1>2, Shape DEF IInv, TypeOK
  <1>4. Arrays' /\ Indices(s)' /\ Fits(s)'
    BY <1>1, <1>2 DEF IInv, Arrays, Indices, Fits, MidPop
  <1>5. Placed(s)' /\ Knows(s)'
    BY <1>1, <1>2, SameWindow, ThievesIdle
  <1> QED BY <1>3, <1>4, <1>5 DEF IInv

-----------------------------------------------------------------------------
(* steal(). *)

\* Steps of a thief before its compare-exchange change nothing the other
\* conjuncts mention.
LEMMA ThiefReads ==
    ASSUME NEW s \in Starts, IInv(s), UNCHANGED <<top, bottom, arrays, opc, ob, ot, ox, npush, taken>>
    PROVE  /\ Arrays' /\ Indices(s)' /\ Fits(s)' /\ Placed(s)'
           /\ Top(s)' = Top(s) /\ End(s)' = End(s) /\ \A i : At(s, i)' = At(s, i)
  BY DEF IInv, Arrays, Indices, Fits, Placed, End, EffBottom, MidPop, At, Slot, Current, Live, InHand, Bottom, OwnB, OwnT, Top

\* StealReadTop preserves the invariant.
LEMMA StealReadTopInv == ASSUME NEW s \in Starts, NEW i \in Thieves PROVE IInv(s) /\ StealReadTop(i) => IInv(s)'
  <1> SUFFICES ASSUME IInv(s), StealReadTop(i) PROVE IInv(s)'
    OBVIOUS
  <1>1. /\ tpc' = [tpc EXCEPT ![i] = "bottom"] /\ tt' = [tt EXCEPT ![i] = top]
        /\ UNCHANGED <<top, bottom, arrays, opc, ob, ot, ox, ta, tx, npush, taken>>
        /\ opc # "destroyed"
    BY DEF StealReadTop, shared, ownerVars, history
  <1>2. TypeOK'
    BY <1>1 DEF IInv, TypeOK
  <1>3. /\ tpc'[i] = "bottom" /\ tt'[i] = top /\ Seen(s, i)' = Top(s) /\ Top(s) <= Top(s)
        /\ \A k \in Thieves : k # i => tpc'[k] = tpc[k] /\ tt'[k] = tt[k] /\ Seen(s, k)' = Seen(s, k)
    BY <1>1, Shape, Half DEF IInv, TypeOK, Seen, Top
  <1>4. Top(s)' = Top(s) /\ End(s)' = End(s) /\ \A k : At(s, k)' = At(s, k)
    BY <1>1, ThiefReads
  <1>5. Knows(s)'
    <2> SUFFICES ASSUME NEW k \in Thieves
                 PROVE  /\ opc = "destroyed" => tpc'[k] = "idle"
                        /\ tpc'[k] \in {"bottom", "array", "item", "cas"} => Seen(s, k)' <= Top(s)
                        /\ tpc'[k] \in {"array", "item", "cas"} /\ tt'[k] = top => Top(s) < End(s)
                        /\ tpc'[k] = "item" /\ tt'[k] = top =>
                              Slot(s, arrays[ta[k]], Top(s)) = At(s, Top(s))
                        /\ tpc'[k] = "cas" /\ tt'[k] = top => tx[k] = At(s, Top(s))
      BY <1>1, <1>4 DEF Knows, Slot
    <2>1. CASE k = i
      BY <1>1, <1>3, <2>1
    <2>2. CASE k # i
      BY <1>3, <2>2 DEF IInv, Knows
    <2> QED BY <2>1, <2>2
  <1> QED BY <1>1, <1>2, <1>5, ThiefReads DEF IInv

\* StealReadBottom preserves the invariant.
LEMMA StealReadBottomInv == ASSUME NEW s \in Starts, NEW i \in Thieves PROVE IInv(s) /\ StealReadBottom(i) => IInv(s)'
  <1> SUFFICES ASSUME IInv(s), StealReadBottom(i) PROVE IInv(s)'
    OBVIOUS
  <1>1. /\ tpc[i] = "bottom"
        /\ UNCHANGED <<top, bottom, arrays, opc, ob, ot, ox, tt, ta, tx, npush, taken>>
    BY DEF StealReadBottom, shared, ownerVars, history
  <1>2. \/ tpc' = [tpc EXCEPT ![i] = "idle"]
        \/ tpc' = [tpc EXCEPT ![i] = "array"] /\ ToSigned(Sub(bottom, tt[i])) > 0
    <2>1. Seen(s, i) <= Top(s) /\ Seen(s, i) \in Nat /\ tt[i] \in Words
      BY <1>1, SameFar DEF IInv, Knows
    <2>2. ToSigned(Sub(bottom, tt[i])) = Bottom(s) - Seen(s, i)
      <3>1. Seen(s, i) \in 0..MaxPush
        BY <2>1, Shape, Half
      <3> QED BY <2>1, <3>1, Shape, SignedDifference DEF Bottom, Seen
    <2>3. Bottom(s) - Seen(s, i) <= 0 \/ Bottom(s) - Seen(s, i) > 0
      BY <2>1, Shape, Half
    <2>4. CASE ToSigned(Sub(bottom, tt[i])) <= 0
      BY <2>4 DEF StealReadBottom
    <2>5. CASE ToSigned(Sub(bottom, tt[i])) > 0 /\ ~ ToSigned(Sub(bottom, tt[i])) <= 0
      BY <2>5 DEF StealReadBottom
    <2> QED BY <2>1, <2>2, <2>3, <2>4, <2>5, Shape, Half
  <1>3. TypeOK'
    BY <1>1, <1>2 DEF IInv, TypeOK
  <1>4. tpc'[i] = "array" /\ tt[i] = top => Top(s) < End(s)
    <2>1. CASE tpc' = [tpc EXCEPT ![i] = "idle"]
      BY <2>1 DEF IInv, TypeOK
    <2>2. CASE ToSigned(Sub(bottom, tt[i])) > 0
      <3>1. tt[i] = top => Bottom(s) - Top(s) > 0
        BY <2>2, Shape
      <3>2. Bottom(s) <= End(s)
        BY Shape, Half DEF IInv, Indices, Bottom, OwnB
      <3> QED BY <3>1, <3>2, Shape, Half
    <2> QED BY <1>2, <2>1, <2>2
  <1>5. Knows(s)'
    BY <1>1, <1>2, <1>4, ThiefReads DEF IInv, Knows, TypeOK, Seen, Slot
  <1> QED BY <1>1, <1>3, <1>5, ThiefReads DEF IInv

\* StealReadArray preserves the invariant.
LEMMA StealReadArrayInv == ASSUME NEW s \in Starts, NEW i \in Thieves PROVE IInv(s) /\ StealReadArray(i) => IInv(s)'
  <1> SUFFICES ASSUME IInv(s), StealReadArray(i) PROVE IInv(s)'
    OBVIOUS
  <1>1. /\ tpc[i] = "array" /\ tpc' = [tpc EXCEPT ![i] = "item"]
        /\ ta' = [ta EXCEPT ![i] = Len(arrays)]
        /\ UNCHANGED <<top, bottom, arrays, opc, ob, ot, ox, tt, tx, npush, taken>>
    BY DEF StealReadArray, shared, ownerVars, history
  <1>2. TypeOK'
    BY <1>1, CurrentShape DEF IInv, TypeOK
  <1>3. Knows(s)'
    BY <1>1, ThiefReads DEF IInv, Knows, TypeOK, At, Slot, Current, Seen
  <1> QED BY <1>1, <1>2, <1>3, ThiefReads DEF IInv

\* StealReadItem preserves the invariant.
LEMMA StealReadItemInv == ASSUME NEW s \in Starts, NEW i \in Thieves PROVE IInv(s) /\ StealReadItem(i) => IInv(s)'
  <1> SUFFICES ASSUME IInv(s), StealReadItem(i) PROVE IInv(s)'
    OBVIOUS
  <1>1. /\ tpc[i] = "item" /\ tpc' = [tpc EXCEPT ![i] = "cas"]
        /\ tx' = [tx EXCEPT ![i] = Get(arrays[ta[i]], tt[i])]
        /\ UNCHANGED <<top, bottom, arrays, opc, ob, ot, ox, tt, ta, npush, taken>>
    BY DEF StealReadItem, shared, ownerVars, history
  <1>2. TypeOK'
    <2>1. arrays[ta[i]] \in CircularArray /\ tt[i] \in Nat
      BY CurrentShape, WordIsNat DEF IInv, TypeOK
    <2>2. Get(arrays[ta[i]], tt[i]) \in Handles
      BY <2>1, ArrayShape
    <2> QED BY <1>1, <2>2 DEF IInv, TypeOK
  <1>3. Knows(s)'
    <2>1. tt[i] = top => Get(arrays[ta[i]], tt[i]) = Slot(s, arrays[ta[i]], Top(s))
      BY Shape DEF Slot
    <2> QED BY <1>1, <2>1, ThiefReads DEF IInv, Knows, TypeOK, Seen, Slot
  <1> QED BY <1>1, <1>2, <1>3, ThiefReads DEF IInv

\* StealCasFails preserves the invariant.
LEMMA StealCasFailsInv == ASSUME NEW s \in Starts, NEW i \in Thieves PROVE IInv(s) /\ StealCasFails(i) => IInv(s)'
  <1> SUFFICES ASSUME IInv(s), StealCasFails(i) PROVE IInv(s)'
    OBVIOUS
  <1>1. /\ tpc[i] = "cas" /\ tpc' = [tpc EXCEPT ![i] = "retry"]
        /\ UNCHANGED <<top, bottom, arrays, opc, ob, ot, ox, tt, ta, tx, npush, taken>>
    BY DEF StealCasFails, shared, ownerVars, history
  <1>2. TypeOK'
    BY <1>1 DEF IInv, TypeOK
  <1>3. Knows(s)'
    BY <1>1, ThiefReads DEF IInv, Knows, TypeOK, Seen, Slot
  <1> QED BY <1>1, <1>2, <1>3, ThiefReads DEF IInv

\* StealCas preserves the invariant.
LEMMA StealCasInv == ASSUME NEW s \in Starts, NEW i \in Thieves PROVE IInv(s) /\ StealCas(i) => IInv(s)'
  <1> SUFFICES ASSUME IInv(s), StealCas(i) PROVE IInv(s)'
    OBVIOUS
  <1>1. /\ tpc[i] = "cas" /\ tpc' = [tpc EXCEPT ![i] = "idle"]
        /\ top = tt[i] /\ top' = Inc(top)
        /\ taken' = [taken EXCEPT ![tx[i]] = @ + 1]
        /\ UNCHANGED <<bottom, arrays, opc, ob, ot, ox, tt, ta, tx, npush>>
    BY DEF StealCas, ownerVars, Give
  <1>2. /\ Top(s) < End(s) /\ tx[i] = At(s, Top(s)) /\ opc # "destroyed"
    BY <1>1 DEF IInv, Knows
  <1>3. /\ Top(s)' = Top(s) + 1 /\ Top(s) + 1 \in 0..MaxPush /\ top' \in Words
        /\ Bottom(s)' = Bottom(s) /\ OwnB(s)' = OwnB(s) /\ OwnT(s)' = OwnT(s)
        /\ End(s)' = End(s) /\ InHand' = InHand /\ Current' = Current
    <2>1. Top(s) < MaxPush /\ Top(s) + 1 \in 0..MaxPush /\ top \in Words
      BY <1>2, Shape, Half
    <2>2. Inc(top) \in Words /\ Sub(Inc(top), s) = Top(s) + 1
      BY <2>1, SmallInc DEF Top
    <2> QED BY <1>1, <2>1, <2>2 DEF End, EffBottom, MidPop, InHand, Current, Top, Bottom, OwnB, OwnT
  <1>4. Live(s)' = Live(s) \ {Top(s)} /\ Top(s) \in Live(s)
    <2>1. Live(s) = Top(s)..(End(s) - 1) /\ Live(s)' = (Top(s) + 1)..(End(s) - 1)
      BY <1>1, <1>2, <1>3 DEF Live
    <2> QED BY <1>2, <2>1, Shape, Half
  <1>5. Placed(s)' /\ taken' \in [Handles -> Nat]
    BY <1>1, <1>2, <1>3, <1>4, TakeOne
  <1>6. TypeOK'
    BY <1>1, <1>3, <1>5 DEF IInv, TypeOK
  <1>7. Arrays'
    BY <1>1 DEF IInv, Arrays
  <1>8. Indices(s)'
    <2>1. opc = "pop_restore" => End(s) = OwnB(s) + 1 /\ Top(s) = OwnB(s) + 1
      BY Shape DEF IInv, Indices, MidPop
    <2>2. opc # "pop_restore"
      BY <1>2, <2>1, Shape, Half
    <2>3. opc = "pop_cas" => OwnB(s) <= Top(s)
      BY DEF IInv, Indices
    <2>4. OwnT(s) \in Nat /\ OwnB(s) \in Nat
      BY Shape
    <2>5. \A n : At(s, n)' = At(s, n)
      BY <1>3 DEF At, Slot
    <2>6. At(s, OwnB(s))' = At(s, OwnB(s))
      BY <1>3, <2>5
    <2> QED BY <1>1, <1>2, <1>3, <2>2, <2>3, <2>4, <2>6, Shape, Half
            DEF IInv, Indices, MidPop
  <1>9. Fits(s)'
    <2>1. Current.size \in Nat
      BY CurrentShape, ArrayShape DEF IInv
    <2>2. At(s, OwnB(s))' = At(s, OwnB(s))
      BY <1>3 DEF At, Slot
    <2> QED BY <1>1, <1>2, <1>3, <2>1, <2>2, Shape, Half DEF IInv, Fits
  <1>10. Knows(s)'
    <2>1. \A k \in Thieves : tpc'[k] \in {"bottom", "array", "item", "cas"} =>
             /\ tpc[k] \in {"bottom", "array", "item", "cas"}
             /\ Seen(s, k)' <= Top(s)' /\ tt'[k] # top'
      <3> SUFFICES ASSUME NEW k \in Thieves,
                          tpc'[k] \in {"bottom", "array", "item", "cas"}
                   PROVE  /\ tpc[k] \in {"bottom", "array", "item", "cas"}
                          /\ Seen(s, k)' <= Top(s)' /\ tt'[k] # top'
        OBVIOUS
      <3>1. tpc'[k] = tpc[k] /\ Seen(s, k)' = Seen(s, k)
        BY <1>1 DEF IInv, TypeOK, Seen
      <3>2. Seen(s, k) <= Top(s) /\ Seen(s, k) \in Nat
        BY <3>1, SameFar DEF IInv, Knows
      <3>3. Seen(s, k)' <= Top(s)' /\ Seen(s, k)' # Top(s)'
        BY <1>3, <3>1, <3>2, Shape, Half
      <3> QED BY <1>1, <3>1, <3>3 DEF Seen, Top, IInv, TypeOK
    <2> QED BY <1>1, <1>2, <2>1 DEF IInv, Knows, TypeOK
  <1> QED BY <1>5, <1>6, <1>7, <1>8, <1>9, <1>10 DEF IInv

-----------------------------------------------------------------------------
(* The destructor, and all steps together. *)

\* Destroy preserves the invariant.
LEMMA DestroyInv == ASSUME NEW s \in Starts PROVE IInv(s) /\ Destroy => IInv(s)'
  <1> SUFFICES ASSUME IInv(s), Destroy PROVE IInv(s)'
    OBVIOUS
  <1>1. /\ opc = "idle" /\ opc' = "destroyed"
        /\ \A i \in Thieves : tpc[i] = "idle"
        /\ taken' = [x \in Handles |-> IF \E i \in Span(top, bottom) : Get(Current, i) = x
                                       THEN taken[x] + 1 ELSE taken[x]]
        /\ UNCHANGED <<top, bottom, arrays, ob, ot, ox, tpc, tt, ta, tx, npush>>
    BY DEF Destroy, shared, thiefVars
  <1>2. /\ End(s) = Bottom(s) /\ End(s)' = Bottom(s)
        /\ InHand = {} /\ InHand' = {} /\ Live(s)' = {} /\ Current' = Current
    BY <1>1 DEF End, EffBottom, MidPop, InHand, Live, Current, Bottom
  <1>3. \A x : (\E i \in Span(top, bottom) : Get(Current, i) = x) <=> \E i \in Live(s) : At(s, i) = x
    <2>1. Top(s) \in 0..MaxPush /\ Bottom(s) \in 0..MaxPush /\ Top(s) <= Bottom(s)
      BY <1>2, Shape DEF IInv, Indices
    <2>2. Span(top, bottom) = {Place(s, n) : n \in Live(s)}
      BY <1>1, <1>2, <2>1, Shape, SmallSpan DEF Live, Top, Bottom
    <2> QED BY <2>2 DEF At, Slot
  <1>4. \A x \in Handles : taken[x] \in {0, 1}
    BY DEF IInv, Placed
  <1>5. \A x \in Handles : (\E i \in Live(s) : At(s, i) = x) => taken[x] = 0 /\ x \in 1..npush
    BY DEF IInv, Placed
  <1>6. \A x \in Handles : taken'[x] = IF \E i \in Live(s) : At(s, i) = x
                                       THEN taken[x] + 1 ELSE taken[x]
    BY <1>1, <1>3
  <1>7. \A x \in Handles : taken'[x] \in {0, 1} /\ (x \notin 1..npush => taken'[x] = 0)
    BY <1>4, <1>5, <1>6 DEF IInv, Placed
  <1>8. \A x \in 1..npush : taken'[x] # 0
    <2>1. 1..npush \subseteq Handles
      BY Shape, Half DEF Handles, Tasks
    <2> QED BY <1>2, <1>4, <1>5, <1>6, <2>1 DEF IInv, Placed
  <1>9. taken' \in [Handles -> Nat]
    BY <1>1, <1>4
  <1>10. TypeOK' /\ Arrays'
    BY <1>1, <1>9 DEF IInv, TypeOK, Arrays
  <1>11. Indices(s)' /\ Fits(s)'
    BY <1>1, <1>2 DEF IInv, Indices, Fits, MidPop, Top, Bottom
  <1>12. Placed(s)'
    BY <1>1, <1>2, <1>7, <1>8 DEF Placed
  <1>13. Knows(s)'
    BY <1>1 DEF Knows
  <1> QED BY <1>10, <1>11, <1>12, <1>13 DEF IInv

\* Every step keeps the inductive invariant.
LEMMA StepInv == ASSUME NEW s \in Starts PROVE IInv(s) /\ [Next]_vars => IInv(s)'
  <1> SUFFICES ASSUME IInv(s), [Next]_vars PROVE IInv(s)'
    OBVIOUS
  <1>1. CASE UNCHANGED vars
    BY <1>1 DEF vars, shared, ownerVars, thiefVars, history, IInv, TypeOK, Arrays,
                Indices, Fits, Placed, Knows, End, EffBottom, MidPop, At, Slot, Current, Live, InHand,
                Top, Bottom, OwnB, OwnT, Seen
  <1>2. CASE OwnerStep
    <2>1. PopEmpty => UNCHANGED vars
      BY DEF PopEmpty
    <2> QED BY <1>1, <1>2, <2>1, PushBeginInv, PushGrowInv, PushGrowThrowsInv, PushPutInv,
               PushPublishInv, PopBeginInv, PopReserveInv, PopRereadInv, PopCasInv,
               PopRestoreInv DEF OwnerStep
  <1>3. CASE Destroy
    BY <1>3, DestroyInv
  <1>4. CASE \E i \in Thieves : ThiefStep(i)
    BY <1>4, StealReadTopInv, StealReadBottomInv, StealReadArrayInv, StealReadItemInv,
       StealCasInv, StealCasFailsInv DEF ThiefStep
  <1> QED BY <1>1, <1>2, <1>3, <1>4 DEF Next

\* The inductive invariant holds of every queue, for the index it started at.
Started == \E s \in Starts : IInv(s)

LEMMA Invariance == Spec => []Started
  <1>1. Init => Started
    BY InitInv DEF Init, Started
  <1>2. Started /\ [Next]_vars => Started'
    BY StepInv DEF Started
  <1> QED BY <1>1, <1>2, PTL DEF Spec


-----------------------------------------------------------------------------
(* The theorems. *)

\* The window of a live queue is the set of live indices.
LEMMA WindowIsLive ==
    ASSUME NEW s \in Starts, IInv(s)
    PROVE  Window = {Place(s, n) : n \in Live(s)}
  <1>1. Top(s) <= End(s)
    BY DEF IInv, Indices
  <1>2. Span(top, EffBottom) = {Place(s, n) : n \in Top(s)..(End(s) - 1)}
    BY <1>1, Shape, SmallSpan DEF Top, End
  <1> QED BY <1>2 DEF Window, Live

\* The variables of the queue keep their types, and every array a thief may
\* still read is one that was allocated.
THEOREM TypeCorrect == Spec => []TypeOK
  <1>1. Started => TypeOK
    BY DEF Started, IInv
  <1> QED BY <1>1, Invariance, PTL

\* Each task given to push() is with the caller, in one slot, or handed out
\* exactly once: pop() and steal() together run no task twice and lose none.
THEOREM TasksConserved == Spec => []Conservation
  <1>1. ASSUME NEW s \in Starts, IInv(s) PROVE Conservation
    <2> DEFINE slots(x) == {i \in Window : Get(Current, i) = x}
    <2>1. npush \in 0..MaxPush /\ MaxPush \in Nat
      BY <1>1, Shape, Half
    <2>2. taken[None] = 0
      BY <1>1, <2>1 DEF IInv, Placed, Handles, None
    <2>3. \A x \in Tasks : x \in Handles /\ (x \in 1..npush <=> x <= npush)
      BY <2>1 DEF Handles, Tasks
    <2>4. \A x : slots(x) = {Place(s, n) : n \in {k \in Live(s) : At(s, k) = x}}
      BY <1>1, WindowIsLive DEF At, Slot
    <2> HIDE DEF slots
    <2>5. ASSUME NEW x \in Tasks, x > npush
          PROVE  taken[x] = 0 /\ slots(x) = {}
      <3>1. \A k \in Live(s) : At(s, k) # x
        BY <1>1, <2>1, <2>3, <2>5 DEF IInv, Placed, Tasks
      <3> QED BY <1>1, <2>1, <2>3, <2>4, <2>5, <3>1 DEF IInv, Placed, Tasks
    <2>6. ASSUME NEW x \in Tasks, x <= npush
          PROVE  \/ x \in InHand /\ taken[x] = 0 /\ slots(x) = {}
                 \/ x \notin InHand /\ taken[x] = 0 /\ \E i \in Window : slots(x) = {i}
                 \/ x \notin InHand /\ taken[x] = 1 /\ slots(x) = {}
      <3>1. taken[x] \in {0, 1} /\ x \in 1..npush
        BY <1>1, <2>3, <2>6 DEF IInv, Placed
      <3>2. CASE x \in InHand
        <4>1. \A k \in Live(s) : At(s, k) # x
          BY <1>1, <3>2 DEF IInv, Placed
        <4> QED BY <1>1, <2>4, <3>2, <4>1 DEF IInv, Placed
      <3>3. CASE x \notin InHand /\ taken[x] = 0
        <4>1. PICK k \in Live(s) : At(s, k) = x
          BY <1>1, <3>1, <3>3 DEF IInv, Placed
        <4>2. \A j \in Live(s) : At(s, j) = x => j = k
          BY <1>1, <4>1 DEF IInv, Placed
        <4>3. slots(x) = {Place(s, k)} /\ Place(s, k) \in Window
          BY <1>1, <2>4, <4>1, <4>2, WindowIsLive
        <4> QED BY <3>3, <4>3
      <3>4. CASE x \notin InHand /\ taken[x] = 1
        <4>1. \A k \in Live(s) : At(s, k) # x
          BY <1>1, <3>4 DEF IInv, Placed
        <4> QED BY <2>4, <3>4, <4>1
      <3> QED BY <3>1, <3>2, <3>3, <3>4
    <2> QED BY <2>2, <2>5, <2>6 DEF Conservation, slots
  <1>2. Started => Conservation
    BY <1>1 DEF Started
  <1> QED BY <1>2, Invariance, PTL

\* push() never overwrites a queued task: the window fits in the array.
THEOREM NoOverrun == Spec => []NeverOverrun
  <1>1. ASSUME NEW s \in Starts, IInv(s) PROVE NeverOverrun
    <2>1. Sub(EffBottom, top) = End(s) - Top(s)
      BY <1>1, Shape, SignedDifference DEF IInv, Indices, Top, End
    <2>2. opc \in {"push_put", "push_publish"} => Sub(bottom, top) = Bottom(s) - Top(s)
      <3>1. opc \in {"push_put", "push_publish"} => Bottom(s) = End(s) /\ bottom = EffBottom
        BY <1>1, Shape DEF MidPop
      <3> QED BY <2>1, <3>1
    <2> QED BY <1>1, <2>1, <2>2 DEF IInv, Fits, NeverOverrun
  <1>2. Started => NeverOverrun
    BY <1>1 DEF Started
  <1> QED BY <1>2, Invariance, PTL

\* A thief whose compare-exchange succeeds takes the oldest queued task, even
\* through an array that push() replaced meanwhile.
THEOREM StealsOldest == Spec => []StealSound
  <1>1. ASSUME NEW s \in Starts, IInv(s) PROVE StealSound
    <2> SUFFICES ASSUME NEW i \in Thieves, tpc[i] = "cas", tt[i] = top
                 PROVE  top \in Window /\ tx[i] = Get(Current, top)
      BY DEF StealSound
    <2>1. Top(s) < End(s) /\ tx[i] = At(s, Top(s)) /\ opc # "destroyed"
      BY <1>1 DEF IInv, Knows
    <2>2. Top(s) \in Live(s) /\ Place(s, Top(s)) = top
      BY <1>1, <2>1, Shape, Half DEF Live
    <2> QED BY <1>1, <2>1, <2>2, WindowIsLive DEF At, Slot
  <1>2. Started => StealSound
    BY <1>1 DEF Started
  <1> QED BY <1>2, Invariance, PTL

\* A pop() that restores bottom leaves an empty queue.
THEOREM PopMisses == Spec => PopMissesOnlyEmpty
  <1>1. Started /\ [Next]_vars =>
           [opc = "pop_restore" /\ opc' = "idle"
              => Window = {} /\ Window' = {}]_vars
    <2> SUFFICES ASSUME Started, [Next]_vars,
                        opc = "pop_restore", opc' = "idle"
                 PROVE  Window = {} /\ Window' = {}
      OBVIOUS
    <2>1. PICK s \in Starts : IInv(s)
      BY DEF Started
    <2>2. PopRestore
      BY DEF Next, vars, ownerVars, OwnerStep, ThiefStep, PushBegin, PushGrow,
             PushGrowThrows, PushPut, PushPublish, PopBegin, PopEmpty, PopReserve,
             PopReread, PopCas, StealReadTop, StealReadBottom, StealReadArray,
             StealReadItem, StealCas, StealCasFails, Destroy
    <2>3. MidPop /\ ~ MidPop'
      BY DEF MidPop
    <2>4. Top(s) = End(s)
      BY <2>1, <2>3, Shape DEF IInv, Indices
    <2>5. Live(s) = {}
      <3>1. Top(s) \in Nat
        BY <2>1, Shape, Half
      <3> QED BY <2>4, <3>1 DEF Live
    <2>6. Window = {} /\ opc # "destroyed" /\ opc' # "destroyed"
      BY <2>1, <2>5, WindowIsLive
    <2>7. top' = top /\ EffBottom' = EffBottom
      BY <2>2, <2>3 DEF PopRestore, EffBottom
    <2> QED BY <2>6, <2>7 DEF Window
  <1> QED BY <1>1, Invariance, PTL DEF Spec, PopMissesOnlyEmpty

\* steal() returns no task only when the queue is empty or its last task is
\* the one the owner is about to race for.
THEOREM StealMisses == Spec => StealMissesOnlyContested
  <1>1. Started /\ [Next]_vars =>
           [\A i \in Thieves : tpc[i] = "bottom" /\ tpc'[i] = "idle" =>
               Window = {} \/ (MidPop /\ Window = {ob})]_vars
    <2> SUFFICES ASSUME Started, [Next]_vars, NEW i \in Thieves,
                        tpc[i] = "bottom", tpc'[i] = "idle"
                 PROVE  Window = {} \/ (MidPop /\ Window = {ob})
      OBVIOUS
    <2>1. PICK s \in Starts : IInv(s)
      BY DEF Started
    <2>2. StealReadBottom(i)
      <3>1. tpc \in [Thieves -> {"idle", "retry", "bottom", "array", "item", "cas"}]
        BY <2>1 DEF IInv, TypeOK
      <3>2. PICK k \in Thieves : ThiefStep(k)
        BY DEF Next, vars, thiefVars, OwnerStep, PushBegin, PushGrow, PushGrowThrows,
               PushPut, PushPublish, PopBegin, PopEmpty, PopReserve, PopReread, PopCas,
               PopRestore, Destroy
      <3> QED BY <3>1, <3>2 DEF ThiefStep, StealReadTop, StealReadBottom, StealReadArray,
                                StealReadItem, StealCas, StealCasFails
    <2>3. Seen(s, i) \in Nat /\ Seen(s, i) <= Top(s) /\ tt[i] \in Words
      BY <2>1, SameFar DEF IInv, Knows
    <2>4. ToSigned(Sub(bottom, tt[i])) = Bottom(s) - Seen(s, i)
      <3>1. Seen(s, i) \in 0..MaxPush
        BY <2>1, <2>3, Shape, Half
      <3> QED BY <2>1, <2>3, <3>1, Shape, SignedDifference DEF Bottom, Seen
    <2>5. tpc'[i] = IF ToSigned(Sub(bottom, tt[i])) <= 0 THEN "idle" ELSE "array"
      BY <2>1, <2>2 DEF StealReadBottom, IInv, TypeOK
    <2>6. Bottom(s) <= Top(s)
      BY <2>1, <2>3, <2>4, <2>5, Shape, Half
    <2>7. CASE MidPop
      <3>1. Bottom(s) = OwnB(s) /\ End(s) = OwnB(s) + 1 /\ OwnB(s) \in Nat /\ Top(s) \in Nat
        BY <2>1, <2>7, Shape, Half DEF IInv, Indices, Bottom, OwnB
      <3>2. opc # "destroyed"
        BY <2>7 DEF MidPop
      <3>3. Live(s) = {} \/ Live(s) = {OwnB(s)}
        BY <2>1, <2>6, <3>1, <3>2 DEF Live, IInv, Indices
      <3>4. Place(s, OwnB(s)) = ob
        BY <2>1, Shape
      <3> QED BY <2>1, <2>7, <3>3, <3>4, WindowIsLive
    <2>8. CASE ~ MidPop
      <3>1. Live(s) = {}
        BY <2>1, <2>6, <2>8, Shape, Half DEF Live
      <3> QED BY <2>1, <3>1, WindowIsLive
    <2> QED BY <2>7, <2>8
  <1> QED BY <1>1, Invariance, PTL DEF Spec, StealMissesOnlyContested

-----------------------------------------------------------------------------
(* The queue is a deque: its items, from the slot at top to the last.  *)

\* The tasks of an array from t to e - 1 pushes past s, in this order.
Items(s, t, e, a) == [k \in 1..(e - t) |-> Slot(s, a, t + (k - 1))]

\* They are a sequence.
LEMMA ItemsSeq ==
    ASSUME NEW s \in Starts, NEW t \in Nat, NEW e \in Nat, NEW n \in Nat, e = t + n, e <= MaxPush,
           NEW a \in CircularArray
    PROVE  /\ Items(s, t, e, a) \in Seq(Handles)
           /\ Len(Items(s, t, e, a)) = n
           /\ \A k \in 1..n : Items(s, t, e, a)[k] = Slot(s, a, t + (k - 1))
           /\ Items(s, t, e, a) = <<>> <=> n = 0
  <1>1. n = e - t
    BY Half
  <1>2. \A k \in 1..n : Slot(s, a, t + (k - 1)) \in Handles
    <2>1. \A k \in 1..n : t + (k - 1) \in 0..MaxPush
      BY Half
    <2> QED BY <2>1, SmallWords, SlotIsHandle
  <1>3. Items(s, t, e, a) \in [1..n -> Handles]
    BY <1>1, <1>2 DEF Items
  <1>4. Items(s, t, e, a) \in Seq(Handles) /\ Len(Items(s, t, e, a)) = n
    BY <1>3, LenProperties, SeqDef
  <1>5. Items(s, t, e, a) = <<>> <=> n = 0
    BY <1>4, EmptySeq
  <1> QED BY <1>1, <1>4, <1>5 DEF Items

\* They depend on those slots only.
LEMMA ItemsSame ==
    ASSUME NEW s, NEW t \in Nat, NEW e \in Nat, NEW a, NEW b,
           \A i \in t..(e - 1) : Slot(s, b, i) = Slot(s, a, i)
    PROVE  Items(s, t, e, b) = Items(s, t, e, a)
  <1>1. \A k \in 1..(e - t) : t + (k - 1) \in t..(e - 1)
    OBVIOUS
  <1>2. \A k \in 1..(e - t) : Slot(s, b, t + (k - 1)) = Slot(s, a, t + (k - 1))
    BY <1>1
  <1> QED BY <1>2 DEF Items

\* One more at the end, as push() adds it;
LEMMA ItemsPush ==
    ASSUME NEW s \in Starts, NEW t \in Nat, NEW e \in Nat, t <= e, e + 1 <= MaxPush,
           NEW a \in CircularArray
    PROVE  Items(s, t, e + 1, a) = Append(Items(s, t, e, a), Slot(s, a, e))
  <1> DEFINE r == Items(s, t, e + 1, a)
             q == Items(s, t, e, a)
             p == Append(q, Slot(s, a, e))
  <1>1. PICK n \in Nat : e = t + n
    OBVIOUS
  <1>2. r \in Seq(Handles) /\ Len(r) = n + 1 /\ \A k \in 1..(n + 1) : r[k] = Slot(s, a, t + (k - 1))
    <2>1. n + 1 \in Nat /\ e + 1 \in Nat /\ e + 1 <= MaxPush /\ e + 1 = t + (n + 1)
      BY <1>1, Half
    <2> QED BY <2>1, ItemsSeq
  <1>3. q \in Seq(Handles) /\ Len(q) = n /\ \A k \in 1..n : q[k] = Slot(s, a, t + (k - 1))
    <2>1. e <= MaxPush /\ e = t + n
      BY <1>1, Half
    <2>2. q \in Seq(Handles) /\ Len(q) = n
      BY <2>1, ItemsSeq
    <2>3. \A k \in 1..n : q[k] = Slot(s, a, t + (k - 1))
      BY <2>1, ItemsSeq
    <2> QED BY <2>2, <2>3
  <1>4. Slot(s, a, e) \in Handles
    <2>1. e \in 0..MaxPush
      BY Half
    <2> QED BY <2>1, SmallWords, SlotIsHandle
  <1> HIDE DEF r, q
  <1>5. /\ p \in Seq(Handles) /\ Len(p) = n + 1
        /\ \A k \in 1..n : p[k] = q[k]
        /\ p[n + 1] = Slot(s, a, e)
    BY <1>3, <1>4, AppendProperties
  <1> HIDE DEF p
  <1>6. \A k \in 1..n : r[k] = p[k]
    BY <1>2, <1>3, <1>5
  <1>7. r[n + 1] = p[n + 1]
    <2>1. t + ((n + 1) - 1) = e /\ n + 1 \in 1..(n + 1)
      BY <1>1
    <2> QED BY <1>2, <1>5, <2>1
  <1>8. \A k \in 1..Len(r) : r[k] = p[k]
    <2>1. \A k \in 1..Len(r) : k \in 1..n \/ k = n + 1
      BY <1>2
    <2> QED BY <1>6, <1>7, <2>1
  <1>9. r = p
    BY <1>2, <1>5, <1>8, SeqEqual
  <1> QED BY <1>9 DEF r, q, p

\* one less at the end, as pop() takes it;
LEMMA ItemsPop ==
    ASSUME NEW s \in Starts, NEW t \in Nat, NEW e \in Nat, t <= e, e + 1 <= MaxPush,
           NEW a \in CircularArray
    PROVE  LET r == Items(s, t, e + 1, a)
           IN  /\ r # <<>> /\ r[Len(r)] = Slot(s, a, e)
               /\ Items(s, t, e, a) = SubSeq(r, 1, Len(r) - 1)
  <1> DEFINE r == Items(s, t, e + 1, a)
             q == Items(s, t, e, a)
             p == SubSeq(r, 1, Len(r) - 1)
  <1>0. PICK n \in Nat : e = t + n
    OBVIOUS
  <1>1. /\ r \in Seq(Handles) /\ Len(r) = n + 1 /\ r # <<>>
        /\ \A k \in 1..(n + 1) : r[k] = Slot(s, a, t + (k - 1))
    <2>1. n + 1 \in Nat /\ e + 1 \in Nat /\ e + 1 <= MaxPush /\ e + 1 = t + (n + 1) /\ n + 1 # 0
      BY <1>0, Half
    <2> QED BY <2>1, ItemsSeq
  <1>2. q \in Seq(Handles) /\ Len(q) = n /\ \A k \in 1..n : q[k] = Slot(s, a, t + (k - 1))
    <2>1. e <= MaxPush /\ e = t + n
      BY <1>0, Half
    <2>2. q \in Seq(Handles) /\ Len(q) = n
      BY <2>1, ItemsSeq
    <2>3. \A k \in 1..n : q[k] = Slot(s, a, t + (k - 1))
      BY <2>1, ItemsSeq
    <2> QED BY <2>2, <2>3
  <1> HIDE DEF r, q
  <1>3. \A k \in 1..n : r[k] \in Handles
    BY <1>1, ElementOfSeq
  <1>4. /\ p \in Seq(Handles) /\ Len(p) = n
        /\ \A k \in 1..n : p[k] = r[k]
    BY <1>1, <1>3, SubSeqProperties
  <1>5. r[Len(r)] = Slot(s, a, e)
    <2>1. t + ((n + 1) - 1) = e
      BY <1>0
    <2> QED BY <1>1, <2>1
  <1>6. \A k \in 1..Len(q) : q[k] = p[k]
    BY <1>1, <1>2, <1>4
  <1>7. q = p
    BY <1>2, <1>4, <1>6, SeqEqual
  <1> QED BY <1>1, <1>5, <1>7 DEF r, q

\* one less at the beginning, as steal() takes it.
LEMMA ItemsSteal ==
    ASSUME NEW s \in Starts, NEW t \in Nat, NEW e \in Nat, t < e, e <= MaxPush, NEW a \in CircularArray
    PROVE  LET r == Items(s, t, e, a)
           IN  /\ r # <<>> /\ Head(r) = Slot(s, a, t)
               /\ Items(s, t + 1, e, a) = Tail(r)
  <1> DEFINE r == Items(s, t, e, a)
             q == Items(s, t + 1, e, a)
  <1>0. PICK n \in Nat : e = t + (n + 1)
    <2>1. (e - t) - 1 \in Nat /\ e = t + (((e - t) - 1) + 1)
      BY Half
    <2> QED BY <2>1
  <1>1. /\ r \in Seq(Handles) /\ Len(r) = n + 1 /\ r # <<>>
        /\ \A k \in 1..(n + 1) : r[k] = Slot(s, a, t + (k - 1))
    <2>1. n + 1 \in Nat /\ n + 1 # 0
      OBVIOUS
    <2>2. r \in Seq(Handles) /\ Len(r) = n + 1 /\ r # <<>>
      BY <1>0, <2>1, ItemsSeq
    <2>3. \A k \in 1..(n + 1) : r[k] = Slot(s, a, t + (k - 1))
      BY <1>0, <2>1, ItemsSeq
    <2> QED BY <2>2, <2>3
  <1>2. q \in Seq(Handles) /\ Len(q) = n /\ \A k \in 1..n : q[k] = Slot(s, a, (t + 1) + (k - 1))
    <2>1. e <= MaxPush /\ e = (t + 1) + n /\ t + 1 \in Nat
      BY <1>0, Half
    <2>2. q \in Seq(Handles) /\ Len(q) = n
      BY <2>1, ItemsSeq
    <2>3. \A k \in 1..n : q[k] = Slot(s, a, (t + 1) + (k - 1))
      BY <2>1, ItemsSeq
    <2> QED BY <2>2, <2>3
  <1> HIDE DEF r, q
  <1>3. Tail(r) \in Seq(Handles) /\ Len(Tail(r)) = n /\ \A k \in 1..n : Tail(r)[k] = r[k + 1]
    BY <1>1, HeadTailProperties
  <1>4. Head(r) = Slot(s, a, t)
    <2>1. Head(r) = r[1] /\ t + (1 - 1) = t /\ 1 \in 1..(n + 1)
      BY <1>1
    <2> QED BY <1>1, <2>1
  <1>5. \A k \in 1..Len(q) : q[k] = Tail(r)[k]
    <2>1. SUFFICES ASSUME NEW k \in 1..n PROVE q[k] = Tail(r)[k]
      BY <1>2
    <2>2. k + 1 \in 1..(n + 1) /\ t + ((k + 1) - 1) = (t + 1) + (k - 1)
      OBVIOUS
    <2>3. r[k + 1] = Slot(s, a, (t + 1) + (k - 1))
      BY <1>1, <2>2
    <2> QED BY <1>2, <1>3, <2>3
  <1>6. q = Tail(r)
    BY <1>2, <1>3, <1>5, SeqEqual
  <1> QED BY <1>1, <1>4, <1>6 DEF r, q

\* The remainders of a word and of one that has wrapped.
LEMMA SmallMod ==
    ASSUME NEW m \in Nat \ {0}, NEW i \in Nat
    PROVE  /\ i < m => i % m = i
           /\ m <= i /\ i < m + m => i % m = i - m
  OBVIOUS

\* Going on from a place, modulo the number of words, is the place further on.
LEMMA PlaceFurther ==
    ASSUME NEW s \in Starts, NEW n \in Nat, NEW k \in Nat, n + k \in Words
    PROVE  (Place(s, n) + k) % WordMod = Place(s, n + k)
  <1>1. /\ s \in Nat /\ s < WordMod /\ WordMod \in Nat \ {0} /\ n + k < WordMod
        /\ n + k \in Nat
    BY StartIsWord, Half DEF Words
  <1>2. CASE s + n < WordMod
    <2>1. PICK i \in Nat : i = (s + n) + k
      BY <1>1
    <2>2. i < WordMod + WordMod /\ s + (n + k) = i /\ Place(s, n) + k = i
      BY <1>1, <1>2, <2>1 DEF Place
    <2>3. i % WordMod = IF i < WordMod THEN i ELSE i - WordMod
      <3>1. CASE i < WordMod
        BY <1>1, <3>1, SmallMod
      <3>2. CASE ~ (i < WordMod)
        <4>1. WordMod <= i
          BY <1>1, <3>2
        <4>2. i % WordMod = i - WordMod
          BY <1>1, <2>2, <4>1, SmallMod
        <4> QED BY <3>2, <4>2
      <3> QED BY <3>1, <3>2
    <2>4. ~ (i < WordMod) => i - WordMod = (s + (n + k)) - WordMod
      BY <2>2
    <2> QED BY <2>2, <2>3 DEF Place
  <1>3. CASE ~ (s + n < WordMod)
    <2>1. PICK i \in Nat : i = ((s + n) - WordMod) + k
      BY <1>1, <1>3
    <2>2. i < WordMod /\ s + (n + k) = i + WordMod /\ Place(s, n) + k = i /\ ~ (s + (n + k) < WordMod)
      BY <1>1, <1>3, <2>1 DEF Place
    <2>3. i % WordMod = i
      BY <1>1, <2>1, <2>2, SmallMod
    <2>4. Place(s, n + k) = i
      BY <1>1, <2>1, <2>2 DEF Place
    <2> QED BY <2>2, <2>3, <2>4
  <1> QED BY <1>2, <1>3

\* The deque of the queue, in terms of indices that do not wrap.
DequeShape(s) ==
    /\ Top(s) \in Nat /\ End(s) \in 0..MaxPush /\ End(s) \in Nat /\ Top(s) <= End(s)
    /\ Current \in CircularArray
    /\ opc # "destroyed" => Deque = Items(s, Top(s), End(s), Current)

\* The invariant gives it that shape.
LEMMA DequeIs == ASSUME NEW s \in Starts PROVE IInv(s) => DequeShape(s)
  <1> SUFFICES ASSUME IInv(s) PROVE DequeShape(s)
    OBVIOUS
  <1>1. /\ Top(s) \in Nat /\ End(s) \in 0..MaxPush /\ End(s) \in Nat /\ Top(s) <= End(s)
        /\ Current \in CircularArray
    BY Shape, CurrentShape, Half DEF IInv, Indices
  <1>2. Sub(EffBottom, top) = End(s) - Top(s)
    BY <1>1, Shape, SignedDifference DEF Top, End
  <1>3. \A k \in 1..(End(s) - Top(s)) : (top + (k - 1)) % WordMod = Place(s, Top(s) + (k - 1))
    <2>1. SUFFICES ASSUME NEW k \in 1..(End(s) - Top(s))
                   PROVE  (top + (k - 1)) % WordMod = Place(s, Top(s) + (k - 1))
      OBVIOUS
    <2>2. k - 1 \in Nat /\ Top(s) + (k - 1) \in 0..MaxPush
      BY <1>1, Half
    <2>3. Top(s) + (k - 1) \in Words /\ Place(s, Top(s)) = top
      BY <2>2, SmallWords, Shape
    <2>4. (Place(s, Top(s)) + (k - 1)) % WordMod = Place(s, Top(s) + (k - 1))
      BY <1>1, <2>2, <2>3, PlaceFurther
    <2> QED BY <2>3, <2>4
  <1>4. ASSUME opc # "destroyed" PROVE Deque = Items(s, Top(s), End(s), Current)
    <2>1. Deque = [k \in 1..(End(s) - Top(s)) |-> Get(Current, (top + (k - 1)) % WordMod)]
      BY <1>2, <1>4 DEF Deque
    <2> QED BY <1>3, <2>1 DEF Items, Slot
  <1> QED BY <1>1, <1>4 DEF DequeShape

\* The same of the next state.
LEMMA DequeNext == ASSUME NEW s \in Starts PROVE IInv(s)' => DequeShape(s)'
  <1>1. IInv(s) => DequeShape(s)
    BY DequeIs
  <1> QED BY <1>1, PTL

\* What WorkDeque calls issued, and taken.
Issued == (1..npush) \ InHand
Out == [x \in Tasks |-> taken[x]]

\* A step that moves no end of the window, and keeps what is in it, is not seen.
LEMMA Unseen ==
    ASSUME NEW s \in Starts, IInv(s), IInv(s)', opc # "destroyed", opc' # "destroyed",
           top' = top, End(s)' = End(s),
           \A i \in Top(s)..(End(s) - 1) : Slot(s, Current', i) = Slot(s, Current, i),
           Issued' = Issued, taken' = taken
    PROVE  UNCHANGED WD!vars
  <1>1. Deque = Items(s, Top(s), End(s), Current) /\ Top(s) \in Nat /\ End(s) \in Nat
    BY DequeIs DEF DequeShape
  <1>2. Deque' = Items(s, Top(s), End(s), Current')
    BY DequeNext DEF DequeShape, Top
  <1>3. Deque' = Deque
    BY <1>1, <1>2, ItemsSame
  <1>4. Out' = Out
    BY DEF Out
  <1> QED BY <1>3, <1>4 DEF WD!vars, Issued, Out

\* Nor is one that changes only what a thread has read.
LEMMA NotSeen ==
    ASSUME UNCHANGED <<top, bottom, arrays, opc, ob, ox, npush, taken>>
    PROVE  UNCHANGED WD!vars
  <1>1. Deque' = Deque /\ InHand' = InHand
    BY DEF Deque, EffBottom, MidPop, Current, InHand
  <1> QED BY <1>1 DEF WD!vars

\* A run handle that is given out is given out in WorkDeque.
LEMMA Gives ==
    ASSUME TypeOK, NEW x \in Tasks, taken' = [taken EXCEPT ![x] = @ + 1]
    PROVE  WD!Give(x)
  <1>1. taken \in [Handles -> Nat] /\ Tasks \subseteq Handles
    BY DEF TypeOK, Handles
  <1>2. Out' = [Out EXCEPT ![x] = @ + 1]
    BY <1>1 DEF Out
  <1> QED BY <1>2 DEF WD!Give, Out

\* A live slot has a task.
LEMMA LiveTask ==
    ASSUME NEW s \in Starts, IInv(s), NEW i \in Live(s)
    PROVE  At(s, i) \in Tasks
  BY Shape, Half DEF IInv, Placed, Tasks

-----------------------------------------------------------------------------
(* push() takes effect when it publishes bottom, or when it throws. *)

\* Until then nothing is seen.
LEMMA PushBeginUnseen == ASSUME NEW s \in Starts PROVE IInv(s) /\ IInv(s)' /\ PushBegin => UNCHANGED WD!vars
  <1> SUFFICES ASSUME IInv(s), IInv(s)', PushBegin PROVE UNCHANGED WD!vars
    OBVIOUS
  <1>1. /\ opc = "idle" /\ opc' \in {"push_grow", "push_put"} /\ npush' = npush + 1 /\ ox' = npush + 1
        /\ UNCHANGED <<top, bottom, arrays, taken>> /\ npush \in Nat
    BY Shape, Half DEF PushBegin, shared, thiefVars
  <1>2. End(s)' = End(s) /\ Current' = Current
    BY <1>1 DEF End, EffBottom, MidPop, Current
  <1>3. Issued' = Issued
    <2>1. InHand = {} /\ InHand' = {npush + 1}
      BY <1>1 DEF InHand
    <2>2. (1..(npush + 1)) \ {npush + 1} = 1..npush
      BY <1>1
    <2> QED BY <1>1, <2>1, <2>2 DEF Issued
  <1> QED BY <1>1, <1>2, <1>3, Unseen

\* Growing copies what is queued.
LEMMA PushGrowUnseen == ASSUME NEW s \in Starts PROVE IInv(s) /\ IInv(s)' /\ PushGrow => UNCHANGED WD!vars
  <1> SUFFICES ASSUME IInv(s), IInv(s)', PushGrow PROVE UNCHANGED WD!vars
    OBVIOUS
  <1> DEFINE g == Grow(Current, ot, ob)
  <1>1. /\ opc = "push_grow" /\ opc' = "push_put"
        /\ arrays' = Append(arrays, g)
        /\ UNCHANGED <<top, bottom, ob, ot, ox, npush, taken>>
    BY DEF PushGrow, thiefVars, history
  <1>2. /\ End(s) = Bottom(s) /\ End(s)' = Bottom(s) /\ Issued' = Issued
    BY <1>1 DEF End, Bottom, EffBottom, MidPop, InHand, Issued
  <1>3. /\ OwnB(s) = Bottom(s) /\ OwnT(s) <= Top(s) /\ OwnB(s) - OwnT(s) = Current.size
        /\ OwnT(s) \in 0..MaxPush /\ OwnB(s) \in 0..MaxPush /\ OwnT(s) <= OwnB(s)
    <2>1. /\ OwnB(s) = Bottom(s) /\ OwnT(s) <= Top(s) /\ OwnB(s) - OwnT(s) = Current.size
          /\ Top(s) <= Bottom(s) /\ OwnT(s) \in Nat
      BY <1>1, <1>2, Shape DEF IInv, Indices, OwnB, Bottom
    <2> QED BY <2>1, Shape, Half
  <1>4. g \in CircularArray /\ \A i \in OwnT(s)..(OwnB(s) - 1) : Slot(s, g, i) = Slot(s, Current, i)
    BY <1>3, Shape, CurrentShape, GrowShape DEF IInv, OwnT, OwnB
  <1> HIDE DEF g
  <1>5. Current' = g
    BY <1>1, <1>4, AppendShape DEF IInv
  <1>6. \A i \in Top(s)..(End(s) - 1) : i \in OwnT(s)..(OwnB(s) - 1)
    BY <1>2, <1>3, Shape, Half
  <1>7. \A i \in Top(s)..(End(s) - 1) : Slot(s, Current', i) = Slot(s, Current, i)
    BY <1>4, <1>5, <1>6
  <1> QED BY <1>1, <1>2, <1>7, Unseen

\* The slot that is filled is not one that is queued.
LEMMA PushPutUnseen == ASSUME NEW s \in Starts PROVE IInv(s) /\ IInv(s)' /\ PushPut => UNCHANGED WD!vars
  <1> SUFFICES ASSUME IInv(s), IInv(s)', PushPut PROVE UNCHANGED WD!vars
    OBVIOUS
  <1> DEFINE p == Put(Current, ob, ox)
  <1>1. /\ opc = "push_put" /\ opc' = "push_publish"
        /\ arrays' = [arrays EXCEPT ![Len(arrays)] = p]
        /\ UNCHANGED <<top, bottom, ob, ot, ox, npush, taken>>
    BY DEF PushPut, thiefVars, history, Current
  <1>2. End(s) = Bottom(s) /\ End(s)' = Bottom(s) /\ Issued' = Issued
    BY <1>1 DEF End, Bottom, EffBottom, MidPop, InHand, Issued
  <1>3. /\ OwnB(s) = Bottom(s) /\ Bottom(s) - Top(s) < Current.size /\ ox \in Handles
        /\ OwnB(s) \in Words /\ Place(s, OwnB(s)) = ob
        /\ Current \in CircularArray /\ Current.size \in Nat \ {0} /\ Divides(Current.size)
    <2>1. ob = bottom /\ Bottom(s) - Top(s) < Current.size /\ ox \in Handles
      BY <1>1 DEF IInv, Indices, Fits, TypeOK
    <2>2. OwnB(s) = Bottom(s) /\ OwnB(s) \in Words /\ Place(s, OwnB(s)) = ob
      BY <2>1, Shape, SmallWords DEF OwnB, Bottom
    <2> QED BY <2>1, <2>2, CurrentShape, ArrayShape DEF IInv
  <1>4. /\ p \in CircularArray
        /\ \A j \in Words : Place(s, j) % Current.size # Place(s, OwnB(s)) % Current.size =>
              Slot(s, p, j) = Slot(s, Current, j)
    BY <1>3, PutShape
  <1> HIDE DEF p
  <1>5. Current' = p
    BY <1>1, <1>4, ReplaceShape DEF IInv
  <1>6. \A i \in Top(s)..(End(s) - 1) : Slot(s, Current', i) = Slot(s, Current, i)
    <2>1. SUFFICES ASSUME NEW i \in Top(s)..(End(s) - 1)
                   PROVE  i \in Words /\ Place(s, i) % Current.size # Place(s, OwnB(s)) % Current.size
      BY <1>4, <1>5
    <2>2. i \in 0..MaxPush /\ i < OwnB(s) /\ OwnB(s) - i < Current.size
      BY <1>2, <1>3, Shape, Half
    <2>3. i \in Words
      BY <2>2, SmallWords
    <2> QED BY <1>3, <2>2, <2>3, DistinctPlaces
  <1> QED BY <1>1, <1>2, <1>6, Unseen

\* Then the task is the newest one,
LEMMA PushPublishPushes ==
    ASSUME NEW s \in Starts
    PROVE  IInv(s) /\ IInv(s)' /\ PushPublish => \E x \in Tasks : WD!Push(x)
  <1> SUFFICES ASSUME IInv(s), IInv(s)', PushPublish PROVE \E x \in Tasks : WD!Push(x)
    OBVIOUS
  <1> DEFINE b == Bottom(s)
  <1>1. /\ opc = "push_publish" /\ opc' = "idle" /\ bottom' = Inc(ob)
        /\ UNCHANGED <<top, arrays, ob, ot, ox, npush, taken>>
    BY DEF PushPublish, thiefVars, history
  <1>2. /\ ob = bottom /\ End(s) = b /\ b < npush /\ ox = npush
        /\ At(s, b) = ox /\ npush \in Nat /\ b \in Nat /\ npush \in 0..MaxPush
    <2>1. ob = bottom /\ ox = npush /\ ~ MidPop /\ End(s) < npush /\ At(s, OwnB(s)) = ox
      BY <1>1 DEF IInv, Indices, Fits, MidPop
    <2> QED BY <2>1, Shape, Half DEF OwnB, Bottom
  <1>3. End(s)' = b + 1 /\ Top(s)' = Top(s) /\ Current' = Current /\ InHand = {npush} /\ InHand' = {}
    <2>1. b < MaxPush /\ bottom \in Words
      BY <1>2, Shape, Half
    <2>2. Sub(Inc(bottom), s) = b + 1
      BY <2>1, SmallInc DEF Bottom
    <2> QED BY <1>1, <1>2, <2>2 DEF End, EffBottom, MidPop, Top, Current, InHand
  <1>4. /\ Deque = Items(s, Top(s), b, Current) /\ Top(s) \in Nat /\ Top(s) <= b
        /\ Current \in CircularArray
    BY <1>1, <1>2, DequeIs DEF DequeShape
  <1>5. Deque' = Items(s, Top(s), b + 1, Current)
    BY <1>1, <1>3, DequeNext DEF DequeShape
  <1>6. Deque' = Append(Deque, npush)
    <2>1. b + 1 <= MaxPush
      BY <1>2, Half
    <2>2. Items(s, Top(s), b + 1, Current) = Append(Items(s, Top(s), b, Current), Slot(s, Current, b))
      BY <1>2, <1>4, <2>1, ItemsPush
    <2>3. Slot(s, Current, b) = npush
      BY <1>2 DEF At
    <2> QED BY <1>4, <1>5, <2>2, <2>3
  <1>7. npush \notin Issued /\ Issued' = Issued \union {npush}
    <2>1. npush \in 1..npush
      BY <1>2
    <2> QED BY <1>1, <1>3, <2>1 DEF Issued
  <1>8. Out' = Out
    BY <1>1 DEF Out
  <1>9. npush \in Tasks
    BY <1>2, Half DEF Tasks
  <1> QED BY <1>6, <1>7, <1>8, <1>9 DEF WD!Push, Issued, Out

\* or goes back to the caller.
LEMMA PushGrowThrowsRefuses ==
    ASSUME NEW s \in Starts
    PROVE  IInv(s) /\ IInv(s)' /\ PushGrowThrows => \E x \in Tasks : WD!Refuse(x)
  <1> SUFFICES ASSUME IInv(s), IInv(s)', PushGrowThrows PROVE \E x \in Tasks : WD!Refuse(x)
    OBVIOUS
  <1>1. /\ opc = "push_grow" /\ opc' = "idle" /\ taken' = [taken EXCEPT ![ox] = @ + 1]
        /\ UNCHANGED <<top, bottom, arrays, ob, ot, ox, npush>>
    BY DEF PushGrowThrows, shared, Give
  <1>2. /\ End(s)' = End(s) /\ Top(s)' = Top(s) /\ End(s) < npush /\ ox = npush
        /\ npush \in Nat /\ End(s) \in Nat /\ npush \in 0..MaxPush
    <2>1. End(s)' = End(s) /\ Top(s)' = Top(s)
      BY <1>1 DEF End, EffBottom, MidPop, Top
    <2> QED BY <1>1, <2>1, Shape, Half DEF IInv, Indices
  <1>3. InHand = {npush} /\ InHand' = {} /\ Current' = Current
    BY <1>1, <1>2 DEF InHand, Current
  <1>4. Deque' = Deque
    <2>1. Deque = Items(s, Top(s), End(s), Current)
      BY <1>1, DequeIs DEF DequeShape
    <2>2. Deque' = Items(s, Top(s), End(s), Current)
      BY <1>1, <1>2, <1>3, DequeNext DEF DequeShape
    <2> QED BY <2>1, <2>2
  <1>5. PICK x \in Tasks : x = npush
    BY <1>2, Half DEF Tasks
  <1>6. x \notin Issued /\ Issued' = Issued \union {x}
    <2>1. x \in 1..npush
      BY <1>2, <1>5
    <2> QED BY <1>1, <1>3, <1>5, <2>1 DEF Issued
  <1>7. WD!Give(x)
    BY <1>1, <1>2, <1>5, Gives DEF IInv
  <1> QED BY <1>4, <1>6, <1>7 DEF WD!Refuse, Issued

-----------------------------------------------------------------------------
(* pop() takes effect when it has reread top, or in its compare-exchange. *)

\* Until then nothing is seen,
LEMMA PopBeginUnseen ==
    ASSUME NEW s \in Starts
    PROVE  IInv(s) /\ IInv(s)' /\ (PopBegin \/ PopReserve) => UNCHANGED WD!vars
  <1> SUFFICES ASSUME IInv(s), IInv(s)', PopBegin \/ PopReserve PROVE UNCHANGED WD!vars
    OBVIOUS
  <1>1. UNCHANGED <<top, arrays, npush, taken>> /\ Current' = Current
    BY DEF PopBegin, PopReserve, shared, thiefVars, history, Current
  <1>2. opc \in {"idle", "pop_reserve"} /\ opc' \in {"pop_reserve", "pop_reread"}
    BY DEF PopBegin, PopReserve
  <1>3. Issued' = Issued
    BY <1>1, <1>2 DEF Issued, InHand
  <1>4. CASE PopBegin
    <2>1. End(s)' = End(s)
      BY <1>4 DEF PopBegin, shared, End, EffBottom, MidPop
    <2> QED BY <1>1, <1>2, <1>3, <2>1, Unseen
  <1>5. CASE PopReserve
    <2>1. bottom' = ob /\ ob' = ob /\ opc = "pop_reserve" /\ opc' = "pop_reread"
      BY <1>5 DEF PopReserve
    <2>2. Bottom(s) \in 1..MaxPush /\ OwnB(s) = Bottom(s) - 1 /\ End(s) = Bottom(s)
      BY <2>1, Shape, Half DEF IInv, Indices, MidPop
    <2>3. End(s)' = End(s)
      <3>1. OwnB(s) < MaxPush /\ ob \in Words /\ OwnB(s) + 1 = Bottom(s)
        BY <2>2, Shape, Half
      <3>2. Sub(Inc(ob), s) = OwnB(s) + 1
        BY <3>1, SmallInc DEF OwnB
      <3> QED BY <2>1, <2>2, <3>1, <3>2 DEF End, EffBottom, MidPop
    <2> QED BY <1>1, <1>2, <1>3, <2>3, Unseen
  <1> QED BY <1>4, <1>5

\* nor after it.
LEMMA PopRestoreUnseen == ASSUME NEW s \in Starts PROVE IInv(s) /\ IInv(s)' /\ PopRestore => UNCHANGED WD!vars
  <1> SUFFICES ASSUME IInv(s), IInv(s)', PopRestore PROVE UNCHANGED WD!vars
    OBVIOUS
  <1>1. /\ opc = "pop_restore" /\ opc' = "idle" /\ bottom' = Inc(ob)
        /\ UNCHANGED <<top, arrays, npush, taken>> /\ Current' = Current
    BY DEF PopRestore, history, Current
  <1>2. End(s)' = End(s) /\ Issued' = Issued
    BY <1>1 DEF End, EffBottom, MidPop, Issued, InHand
  <1> QED BY <1>1, <1>2, Unseen

\* The newest task leaves the queue: the window loses its last index, or its only
\* one from the other end.
LEMMA TakesNewest ==
    ASSUME NEW s \in Starts, IInv(s), IInv(s)', opc # "destroyed", opc' # "destroyed",
           UNCHANGED <<arrays, npush>>, InHand' = InHand,
           NEW i \in Nat, End(s) = i + 1, Top(s) <= i,
           \/ Top(s)' = Top(s) /\ End(s)' = i
           \/ Top(s) = i /\ Top(s)' = i + 1 /\ End(s)' = i + 1,
           taken' = [taken EXCEPT ![At(s, i)] = @ + 1]
    PROVE  WD!PopNewest
  <1>1. /\ Deque = Items(s, Top(s), i + 1, Current) /\ Top(s) \in Nat /\ Current \in CircularArray
        /\ i + 1 <= MaxPush /\ i <= MaxPush /\ i + 1 \in Nat
    BY DequeIs, Half DEF DequeShape
  <1>2. /\ Deque # <<>> /\ Deque[Len(Deque)] = Slot(s, Current, i)
        /\ Items(s, Top(s), i, Current) = SubSeq(Deque, 1, Len(Deque) - 1)
    BY <1>1, ItemsPop
  <1>3. Deque' = Items(s, Top(s), i, Current)
    <2>1. Current' = Current
      BY DEF Current
    <2>2. Deque' = Items(s, Top(s)', End(s)', Current)
      BY <2>1, DequeNext DEF DequeShape
    <2>3. Items(s, i + 1, i + 1, Current) = <<>> /\ Items(s, i, i, Current) = <<>>
      <3>1. i + 1 = (i + 1) + 0 /\ i = i + 0 /\ i + 1 \in Nat /\ 0 \in Nat
        OBVIOUS
      <3> QED BY <1>1, <3>1, ItemsSeq
    <2> QED BY <2>2, <2>3
  <1>4. PICK x \in Tasks : x = At(s, i)
    <2>1. i \in Live(s)
      BY <1>1 DEF Live
    <2> QED BY <2>1, LiveTask
  <1>5. WD!Give(x)
    BY <1>4, Gives DEF IInv
  <1>6. x = Deque[Len(Deque)]
    BY <1>2, <1>4 DEF At
  <1>7. Out' = [Out EXCEPT ![Deque[Len(Deque)]] = @ + 1]
    BY <1>5, <1>6 DEF WD!Give, Out
  <1>8. Issued' = Issued
    BY DEF Issued
  <1> QED BY <1>2, <1>3, <1>7, <1>8 DEF WD!PopNewest, WD!Give, Out, Issued

\* pop() takes the task, finds that thieves took it, or goes on to race for it.
LEMMA PopRereadPops ==
    ASSUME NEW s \in Starts
    PROVE  IInv(s) /\ IInv(s)' /\ PopReread => WD!PopNewest \/ UNCHANGED WD!vars
  <1> SUFFICES ASSUME IInv(s), IInv(s)', PopReread PROVE WD!PopNewest \/ UNCHANGED WD!vars
    OBVIOUS
  <1>1. /\ opc = "pop_reread" /\ ot' = top
        /\ UNCHANGED <<top, bottom, arrays, ob, npush>> /\ Current' = Current
        /\ Top(s)' = Top(s)
    BY DEF PopReread, shared, thiefVars, Current, Top
  <1>2. /\ bottom = ob /\ OwnB(s) \in 0..MaxPush /\ OwnB(s) \in Nat /\ Top(s) \in 0..MaxPush
        /\ End(s) = OwnB(s) + 1 /\ InHand = {}
    BY <1>1, Shape, Half DEF IInv, Indices, MidPop, InHand
  <1>3. ToSigned(Sub(ob, top)) = OwnB(s) - Top(s) /\ (ob = top <=> OwnB(s) = Top(s))
    BY <1>2, Shape, SignedDifference, SameFar DEF OwnB, Top
  <1>4. Get(Current, ob) = At(s, OwnB(s))
    BY Shape DEF At, Slot
  <1>5. CASE opc' \in {"pop_restore", "pop_cas"} /\ UNCHANGED taken
    <2>1. End(s)' = End(s) /\ InHand' = {}
      BY <1>1, <1>5 DEF End, EffBottom, MidPop, InHand
    <2>2. Issued' = Issued
      BY <1>1, <1>2, <2>1 DEF Issued
    <2> QED BY <1>1, <1>5, <2>1, <2>2, Unseen
  <1>6. CASE opc' = "idle" /\ OwnB(s) > Top(s) /\ taken' = [taken EXCEPT ![At(s, OwnB(s))] = @ + 1]
    <2>1. End(s)' = OwnB(s) /\ InHand' = {} /\ Top(s) <= OwnB(s)
      BY <1>1, <1>2, <1>6, Half DEF End, OwnB, EffBottom, MidPop, InHand
    <2> QED BY <1>1, <1>2, <1>6, <2>1, TakesNewest
  <1> QED BY <1>2, <1>3, <1>4, <1>5, <1>6, Half DEF PopReread, Give

\* The race is won, or lost to a thief.
LEMMA PopCasPops ==
    ASSUME NEW s \in Starts
    PROVE  IInv(s) /\ IInv(s)' /\ PopCas => WD!PopNewest \/ UNCHANGED WD!vars
  <1> SUFFICES ASSUME IInv(s), IInv(s)', PopCas PROVE WD!PopNewest \/ UNCHANGED WD!vars
    OBVIOUS
  <1>1. /\ opc = "pop_cas" /\ opc' = "pop_restore"
        /\ UNCHANGED <<bottom, arrays, ob, npush>> /\ Current' = Current
    BY DEF PopCas, thiefVars, Current
  <1>2. /\ OwnB(s) \in 0..MaxPush /\ OwnB(s) \in Nat /\ ot = ob /\ ox = At(s, OwnB(s))
        /\ End(s) = OwnB(s) + 1 /\ End(s)' = OwnB(s) + 1 /\ InHand = {} /\ InHand' = {}
    <2>1. OwnB(s) \in 0..MaxPush /\ ot = ob /\ ox = At(s, OwnB(s)) /\ End(s) = OwnB(s) + 1
      BY <1>1, Shape DEF IInv, Indices, MidPop
    <2>2. End(s)' = End(s) /\ InHand = {} /\ InHand' = {}
      BY <1>1 DEF End, EffBottom, MidPop, InHand
    <2> QED BY <2>1, <2>2, Half
  <1>3. CASE UNCHANGED <<top, taken>>
    <2>1. Issued' = Issued
      BY <1>1, <1>2 DEF Issued
    <2>2. Top(s)' = Top(s)
      BY <1>3 DEF Top
    <2> QED BY <1>1, <1>2, <1>3, <2>1, <2>2, Unseen
  <1>4. CASE top = ot /\ top' = Inc(ot) /\ taken' = [taken EXCEPT ![ox] = @ + 1]
    <2>1. Top(s) = OwnB(s) /\ Top(s)' = OwnB(s) + 1 /\ Top(s) <= OwnB(s)
      <3>1. Top(s) = OwnB(s) /\ ob \in Words /\ Top(s)' = Sub(Inc(ob), s)
        BY <1>2, <1>4, Shape DEF Top, OwnB
      <3>2. OwnB(s) < MaxPush
        BY <1>2, Shape, Half
      <3> QED BY <1>2, <3>1, <3>2, SmallInc DEF OwnB
    <2> QED BY <1>1, <1>2, <1>4, <2>1, TakesNewest
  <1> QED BY <1>3, <1>4 DEF PopCas, Give

-----------------------------------------------------------------------------
(* steal() takes effect in its compare-exchange; and the destructor. *)

\* The oldest task leaves the queue.
LEMMA StealCasSteals ==
    ASSUME NEW s \in Starts, NEW i \in Thieves
    PROVE  IInv(s) /\ IInv(s)' /\ StealCas(i) => WD!StealOldest
  <1> SUFFICES ASSUME IInv(s), IInv(s)', StealCas(i) PROVE WD!StealOldest
    OBVIOUS
  <1> DEFINE t == Top(s)
             e == End(s)
  <1>1. /\ tpc[i] = "cas" /\ top = tt[i] /\ top' = Inc(top)
        /\ taken' = [taken EXCEPT ![tx[i]] = @ + 1]
        /\ UNCHANGED <<bottom, arrays, opc, ob, ox, npush>> /\ Current' = Current
    BY DEF StealCas, ownerVars, Give, Current
  <1>2. /\ t < e /\ tx[i] = At(s, t) /\ opc # "destroyed"
    BY <1>1 DEF IInv, Knows
  <1>3. /\ Top(s)' = t + 1 /\ End(s)' = e /\ Issued' = Issued
    <2>1. t < MaxPush /\ top \in Words
      BY <1>2, Shape, Half
    <2>2. Sub(Inc(top), s) = t + 1
      BY <2>1, SmallInc DEF Top
    <2> QED BY <1>1, <2>2 DEF Top, End, EffBottom, MidPop, InHand, Issued
  <1>4. /\ Deque = Items(s, t, e, Current) /\ t \in Nat /\ e \in Nat /\ e <= MaxPush
        /\ Current \in CircularArray
    BY <1>2, DequeIs, Half DEF DequeShape
  <1>5. Deque' = Items(s, t + 1, e, Current)
    BY <1>1, <1>2, <1>3, DequeNext DEF DequeShape
  <1>6. Deque # <<>> /\ Head(Deque) = At(s, t) /\ Deque' = Tail(Deque)
    BY <1>2, <1>4, <1>5, ItemsSteal DEF At
  <1>7. PICK x \in Tasks : x = At(s, t)
    <2>1. t \in Live(s)
      BY <1>2, <1>4 DEF Live
    <2> QED BY <2>1, LiveTask
  <1>8. WD!Give(x)
    BY <1>1, <1>2, <1>7, Gives DEF IInv
  <1>9. Out' = [Out EXCEPT ![Head(Deque)] = @ + 1]
    BY <1>6, <1>7, <1>8 DEF WD!Give, Out
  <1> QED BY <1>3, <1>6, <1>9 DEF WD!StealOldest, WD!Give, Out, Issued

\* Every task that is left is released.
LEMMA DestroyDrains == ASSUME NEW s \in Starts PROVE IInv(s) /\ IInv(s)' /\ Destroy => WD!Drain
  <1> SUFFICES ASSUME IInv(s), IInv(s)', Destroy PROVE WD!Drain
    OBVIOUS
  <1> DEFINE t == Top(s)
             e == End(s)
  <1>1. /\ opc = "idle" /\ opc' = "destroyed"
        /\ taken' = [x \in Handles |-> IF \E i \in Span(top, bottom) : Get(Current, i) = x
                                       THEN taken[x] + 1 ELSE taken[x]]
        /\ UNCHANGED <<top, bottom, arrays, npush>>
    BY DEF Destroy, shared, thiefVars
  <1>2. EffBottom = bottom /\ e = Bottom(s) /\ Issued' = Issued /\ Deque' = <<>>
    BY <1>1 DEF End, Bottom, EffBottom, MidPop, InHand, Issued, Deque
  <1>3. /\ Deque = Items(s, t, e, Current) /\ t \in Nat /\ e \in Nat /\ e <= MaxPush /\ t <= e
        /\ Current \in CircularArray
    BY <1>1, DequeIs, Half DEF DequeShape
  <1>4. PICK n \in Nat : e = t + n
    <2>1. PICK u \in Nat, v \in Nat : u = t /\ v = e /\ u <= v
      BY <1>3
    <2>2. v - u \in Nat /\ v = u + (v - u)
      BY <2>1
    <2> QED BY <2>1, <2>2
  <1>5. Len(Deque) = n /\ \A k \in 1..n : Deque[k] = At(s, t + (k - 1))
    <2>1. PICK u \in Nat, v \in Nat, a \in CircularArray : u = t /\ v = e /\ a = Current
      BY <1>3
    <2>2. v <= MaxPush /\ v = u + n
      BY <1>3, <1>4, <2>1
    <2>3. Len(Items(s, u, v, a)) = n
      BY <2>2, ItemsSeq
    <2>4. \A k \in 1..n : Items(s, u, v, a)[k] = Slot(s, a, u + (k - 1))
      BY <2>2, ItemsSeq
    <2> QED BY <1>3, <2>1, <2>3, <2>4 DEF At
  <1>6. Span(top, bottom) = {Place(s, i) : i \in t..(e - 1)}
    BY <1>2, <1>3, Shape, SmallSpan DEF Top, Bottom
  <1> HIDE DEF t, e
  <1>7. ASSUME NEW x
        PROVE  (\E i \in Span(top, bottom) : Get(Current, i) = x)
                  <=> \E k \in 1..Len(Deque) : Deque[k] = x
    <2>1. (\E i \in Span(top, bottom) : Get(Current, i) = x) <=> \E i \in t..(e - 1) : At(s, i) = x
      BY <1>6 DEF At, Slot
    <2>2. ASSUME NEW i \in t..(e - 1), At(s, i) = x PROVE \E k \in 1..Len(Deque) : Deque[k] = x
      <3>1. PICK k \in 1..n : i = t + (k - 1)
        <4>1. (i - t) + 1 \in 1..n /\ i = t + (((i - t) + 1) - 1)
          BY <1>3, <1>4
        <4> QED BY <4>1
      <3> QED BY <1>5, <2>2, <3>1
    <2>3. ASSUME NEW k \in 1..Len(Deque), Deque[k] = x PROVE \E i \in t..(e - 1) : At(s, i) = x
      <3>1. t + (k - 1) \in t..(e - 1)
        BY <1>3, <1>4, <1>5
      <3> QED BY <1>5, <2>3, <3>1
    <2> QED BY <2>1, <2>2, <2>3
  <1>8. Out' = [x \in Tasks |-> IF \E k \in 1..Len(Deque) : Deque[k] = x
                                THEN Out[x] + 1 ELSE Out[x]]
    <2>1. Tasks \subseteq Handles
      BY DEF Handles
    <2>2. \A x \in Tasks : taken'[x] = IF \E k \in 1..Len(Deque) : Deque[k] = x
                                       THEN Out[x] + 1 ELSE Out[x]
      BY <1>1, <1>7, <2>1 DEF Out
    <2> QED BY <2>2 DEF Out
  <1> QED BY <1>2, <1>8 DEF WD!Drain, Out, Issued

\* The queue implements the deque: the owner takes the newest task, thieves the
\* oldest, each in one atomic step, whatever the others are doing meanwhile.
THEOREM ImplementsTheDeque == Spec => ImplementsDeque
  <1>1. Init => WD!Init
    <2> SUFFICES ASSUME Init PROVE WD!Init
      OBVIOUS
    <2>1. PICK s \in Starts : s = top
      BY DEF Init
    <2>2. IInv(s) /\ opc = "idle" /\ EffBottom = top /\ npush = 0
      BY <2>1, InitInv DEF Init, EffBottom, MidPop
    <2>3. Deque = <<>>
      <3>1. Deque = Items(s, Top(s), End(s), Current) /\ Top(s) = End(s)
        BY <2>2, DequeIs DEF DequeShape, Top, End
      <3>2. /\ Top(s) \in Nat /\ End(s) \in Nat /\ End(s) <= MaxPush /\ Current \in CircularArray
            /\ End(s) = Top(s) + 0 /\ 0 \in Nat
        BY <2>2, <3>1, DequeIs, Half DEF DequeShape
      <3> QED BY <3>1, <3>2, ItemsSeq
    <2>4. Issued = {}
      BY <2>2 DEF Issued
    <2>5. Out = [x \in Tasks |-> 0]
      BY DEF Init, Out, Handles
    <2> QED BY <2>3, <2>4, <2>5 DEF WD!Init, Issued, Out
  <1>2. Started /\ [Next]_vars => [WD!Next]_(WD!vars)
    <2> SUFFICES ASSUME Started, [Next]_vars PROVE WD!Next \/ UNCHANGED WD!vars
      OBVIOUS
    <2>1. PICK s \in Starts : IInv(s) /\ IInv(s)'
      BY StepInv DEF Started
    <2>2. CASE UNCHANGED vars
      BY <2>2, NotSeen DEF vars, shared, ownerVars, history
    <2>3. CASE OwnerStep
      <3>1. PopEmpty => UNCHANGED WD!vars
        BY NotSeen DEF PopEmpty, vars, shared, ownerVars, history
      <3> QED BY <2>1, <2>3, <3>1, PushBeginUnseen, PushGrowUnseen, PushPutUnseen, PushPublishPushes,
                 PushGrowThrowsRefuses, PopBeginUnseen, PopRestoreUnseen, PopRereadPops, PopCasPops
              DEF OwnerStep, WD!Next
    <2>4. CASE Destroy
      BY <2>1, <2>4, DestroyDrains DEF WD!Next
    <2>5. ASSUME NEW i \in Thieves, ThiefStep(i) PROVE WD!Next \/ UNCHANGED WD!vars
      <3>1. CASE StealCas(i)
        BY <2>1, <3>1, StealCasSteals DEF WD!Next
      <3>2. CASE \/ StealReadTop(i) \/ StealReadBottom(i) \/ StealReadArray(i)
                 \/ StealReadItem(i) \/ StealCasFails(i)
        BY <3>2, NotSeen DEF StealReadTop, StealReadBottom, StealReadArray, StealReadItem,
                             StealCasFails, shared, ownerVars, history
      <3> QED BY <2>5, <3>1, <3>2 DEF ThiefStep
    <2> QED BY <2>2, <2>3, <2>4, <2>5 DEF Next
  <1> QED BY <1>1, <1>2, Invariance, PTL DEF Spec, ImplementsDeque, WD!Spec
=============================================================================
