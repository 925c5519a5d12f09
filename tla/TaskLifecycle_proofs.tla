------------------------ MODULE TaskLifecycle_proofs ------------------------
(***************************************************************************)
(* Proofs about TaskLifecycle, for every set of tasks, whichever continues *)
(* or returns which, and whether or not schedule() may throw and handles   *)
(* may be overwritten.                                                     *)
(***************************************************************************)
EXTENDS TaskLifecycle, FiniteSetTheorems, TLAPS

-----------------------------------------------------------------------------
(* The inductive invariant. *)

Types ==
    /\ state \in [Tasks -> {"none", "pending", "unwrapped"} \union Final]
    /\ mishaps \subseteq {"thrown", "overwritten"}
    /\ refs \in [Tasks -> Int]
    /\ destroys \in [Tasks -> Nat] /\ flushes \in [Tasks -> Nat]
    /\ cont \in [Tasks -> SUBSET Tasks]
    /\ user \in [Tasks -> BOOLEAN] /\ freed \in [Tasks -> BOOLEAN]
    /\ todo \in [Tasks -> Nat] /\ held \in [Tasks -> Nat]

Created == {c \in Tasks : state[c] # "none"}

\* What refers to t besides the task object, its handles and itself: the
\* vector of its parent, the functions of its continuations, and the tasks whose
\* function returned it.
Attached(t) == \E p \in Tasks : t \in cont[p] /\ flushes[p] = 0
Kids(t) == {c \in Tasks : Parent[c] = t /\ state[c] # "none" /\ destroys[c] = 0}
Unwrappers(t) == {o \in Tasks : Inner[o] = t /\ state[o] = "unwrapped"}

ByUser(t) == One(user[t])
ByUnwrapping(t) == One(state[t] = "unwrapped")
ByParent(t) == One(Attached(t))
ByKids(t) == Cardinality(Kids(t))
ByUnwrappers(t) == Cardinality(Unwrappers(t))

Exact ==
    \A t \in Tasks :
        refs[t] = ByUser(t) + held[t] + todo[t] + ByUnwrapping(t) + ByParent(t)
                  + ByKids(t) + ByUnwrappers(t)

\* A task settles once, and its function is destroyed once.
Settled ==
    \A t \in Tasks :
        /\ flushes[t] = One(Ready(t) /\ t \notin Made)
        /\ destroys[t] = One((Ready(t) \/ state[t] = "unwrapped" \/ freed[t]) /\ t \notin Made)

\* A task that is to be run is pending, and in one place.
Shape ==
    /\ IsFiniteSet(Created)
    /\ \A t \in Tasks :
          /\ state[t] = "none" =>
                ~ user[t] /\ held[t] = 0 /\ todo[t] = 0 /\ ~ freed[t] /\ cont[t] = {}
          /\ held[t] # 0 \/ todo[t] # 0 =>
                held[t] + todo[t] = 1 /\ state[t] = "pending" /\ ~ Attached(t)
          /\ t \in Made => state[t] \in {"none"} \union Final /\ cont[t] = {}
          /\ state[t] = "unwrapped" => Inner[t] \in Tasks
          /\ freed[t] => refs[t] = 0
    /\ \A t, p \in Tasks : t \in cont[p] =>
          /\ Parent[t] = p /\ state[t] # "none" /\ state[p] # "none"
          /\ flushes[p] = 0 => state[t] = "pending" /\ ~ freed[t] /\ ~ freed[p]

Sound == Exact /\ Settled /\ Shape

IInv == Types /\ (Defined => Sound)

-----------------------------------------------------------------------------
(* What refers to a task. *)

\* What Exact sums up are natural numbers.
LEMMA Counted ==
    ASSUME Types, IsFiniteSet(Created), NEW t \in Tasks
    PROVE  /\ IsFiniteSet(Kids(t)) /\ IsFiniteSet(Unwrappers(t))
           /\ refs[t] \in Int /\ held[t] \in Nat /\ todo[t] \in Nat
           /\ ByUser(t) \in Nat /\ ByUnwrapping(t) \in Nat /\ ByParent(t) \in Nat
           /\ ByKids(t) \in Nat /\ ByUnwrappers(t) \in Nat
  <1>1. Kids(t) \subseteq Created /\ Unwrappers(t) \subseteq Created
    BY DEF Kids, Unwrappers, Created
  <1>2. IsFiniteSet(Kids(t)) /\ IsFiniteSet(Unwrappers(t))
    BY <1>1, FS_Subset
  <1> QED
    BY <1>2, FS_CardinalityType
       DEF Types, ByUser, ByUnwrapping, ByParent, ByKids, ByUnwrappers, One

\* The same, in a state that satisfies the invariant.
LEMMA Numbers ==
    ASSUME Types, Sound, NEW t \in Tasks
    PROVE  /\ refs[t] \in Int /\ held[t] \in Int /\ todo[t] \in Int
           /\ ByUser(t) \in Int /\ ByUnwrapping(t) \in Int /\ ByParent(t) \in Int
           /\ ByKids(t) \in Int /\ ByUnwrappers(t) \in Int
  <1>1. IsFiniteSet(Created)
    BY DEF Sound, Shape
  <1>2. /\ refs[t] \in Int /\ held[t] \in Nat /\ todo[t] \in Nat
        /\ ByUser(t) \in Nat /\ ByUnwrapping(t) \in Nat /\ ByParent(t) \in Nat
        /\ ByKids(t) \in Nat /\ ByUnwrappers(t) \in Nat
    BY <1>1, Counted
  <1> QED BY <1>2

\* Something refers to t.
Used(t) ==
    \/ user[t] \/ held[t] # 0 \/ todo[t] # 0 \/ state[t] = "unwrapped"
    \/ Attached(t) \/ Kids(t) # {} \/ Unwrappers(t) # {}

\* A task that something refers to has a reference, and exists.
LEMMA Referred ==
    ASSUME Types, Exact, Shape, NEW t \in Tasks, Used(t)
    PROVE  refs[t] # 0 /\ ~ freed[t]
  <1>1. /\ refs[t] \in Int /\ held[t] \in Nat /\ todo[t] \in Nat
        /\ ByUser(t) \in Nat /\ ByUnwrapping(t) \in Nat /\ ByParent(t) \in Nat
        /\ ByKids(t) \in Nat /\ ByUnwrappers(t) \in Nat
    BY Counted DEF Shape
  <1>2. /\ user[t] => ByUser(t) # 0
        /\ state[t] = "unwrapped" => ByUnwrapping(t) # 0
        /\ Attached(t) => ByParent(t) # 0
    BY DEF ByUser, ByUnwrapping, ByParent, One
  <1>3. (Kids(t) # {} => ByKids(t) # 0) /\ (Unwrappers(t) # {} => ByUnwrappers(t) # 0)
    BY Counted, FS_EmptySet DEF ByKids, ByUnwrappers, Shape
  <1>4. refs[t] = ByUser(t) + held[t] + todo[t] + ByUnwrapping(t) + ByParent(t)
                  + ByKids(t) + ByUnwrappers(t)
    BY DEF Exact
  <1>5. \/ ByUser(t) # 0 \/ held[t] # 0 \/ todo[t] # 0 \/ ByUnwrapping(t) # 0
        \/ ByParent(t) # 0 \/ ByKids(t) # 0 \/ ByUnwrappers(t) # 0
    BY <1>2, <1>3 DEF Used
  <1>6. refs[t] # 0
    <2>1. PICK r \in Int, a \in Nat, b \in Nat, c \in Nat, d \in Nat,
               e \in Nat, f \in Nat, g \in Nat :
              /\ r = refs[t] /\ b = held[t] /\ c = todo[t]
              /\ a = ByUser(t) /\ d = ByUnwrapping(t) /\ e = ByParent(t)
              /\ f = ByKids(t) /\ g = ByUnwrappers(t)
      BY <1>1
    <2>2. r = a + b + c + d + e + f + g
      BY <2>1, <1>4
    <2>3. a # 0 \/ b # 0 \/ c # 0 \/ d # 0 \/ e # 0 \/ f # 0 \/ g # 0
      BY <2>1, <1>5
    <2>4. r # 0
      BY <2>2, <2>3
    <2> QED BY <2>1, <2>4
  <1> QED BY <1>6 DEF Shape

\* What a task passes on when it settles once: each continuation is passed on once.
LEMMA PassOnce == \A t, y \in Tasks : Pass(t, 1)[y] = IF y \in cont[t] THEN 1 ELSE 0
  BY DEF Pass

\* A task whose function is destroyed lets go of its parent, ...
LEMMA KidsDrop ==
    ASSUME Types, Sound, NEW t \in Tasks, state[t] # "none", destroys[t] = 0,
           \A c \in Tasks : state'[c] # "none" <=> state[c] # "none",
           destroys' = [destroys EXCEPT ![t] = @ + 1], NEW y \in Tasks
    PROVE  ByKids(y)' = ByKids(y) + DropFunc(t)[y]
  <1>1. destroys'[t] # 0 /\ \A c \in Tasks : c # t => destroys'[c] = destroys[c]
    BY DEF Types
  <1>2. Kids(y)' = Kids(y) \ {t}
    BY <1>1 DEF Kids
  <1>3. t \in Kids(y) <=> Parent[t] = y
    BY DEF Kids
  <1>4. DropFunc(t)[y] = IF Parent[t] = y THEN -1 ELSE 0
    BY DEF DropFunc, Ref
  <1>5. IsFiniteSet(Kids(y)) /\ Cardinality(Kids(y)) \in Nat
    BY Counted DEF ByKids, Sound, Shape
  <1>6. CASE Parent[t] = y
    <2>1. Cardinality(Kids(y) \ {t}) = Cardinality(Kids(y)) - 1
      BY <1>3, <1>5, <1>6, FS_RemoveElement
    <2> QED BY <2>1, <1>2, <1>4, <1>5, <1>6 DEF ByKids
  <1>7. CASE Parent[t] # y
    <2>1. Kids(y)' = Kids(y)
      BY <1>2, <1>3, <1>7
    <2>2. Cardinality(Kids(y)') = Cardinality(Kids(y))
      BY <2>1
    <2> QED BY <2>2, <1>4, <1>5, <1>7 DEF ByKids
  <1> QED BY <1>6, <1>7

\* ... a new one holds it, ...
LEMMA KidsAdd ==
    ASSUME Types, Settled, Shape, NEW t \in Tasks, state[t] = "none",
           NEW s, s # "none", state' = [state EXCEPT ![t] = s],
           destroys' = destroys, NEW y \in Tasks
    PROVE  ByKids(y)' = ByKids(y) + (IF Parent[t] = y THEN 1 ELSE 0)
  <1>1. destroys[t] = 0
    BY DEF Settled, Shape, Ready, Final, One
  <1>2. /\ state'[t] # "none" /\ \A c \in Tasks : c # t => state'[c] = state[c]
        /\ t \notin Kids(y)
    BY DEF Types, Kids
  <1>3. Kids(y)' = IF Parent[t] = y THEN Kids(y) \union {t} ELSE Kids(y)
    BY <1>1, <1>2 DEF Kids
  <1>4. IsFiniteSet(Kids(y)) /\ Cardinality(Kids(y)) \in Nat
    BY Counted DEF Shape, ByKids
  <1>5. Cardinality(Kids(y) \union {t}) = Cardinality(Kids(y)) + 1
    BY <1>2, <1>4, FS_AddElement
  <1> QED BY <1>3, <1>4, <1>5 DEF ByKids

\* ... and nothing else changes this.
LEMMA KidsSame ==
    ASSUME \A c \in Tasks : state'[c] # "none" <=> state[c] # "none", destroys' = destroys
    PROVE  \A y \in Tasks : ByKids(y)' = ByKids(y)
  BY DEF ByKids, Kids

\* A task begins to wait for the one its function returned, ...
LEMMA UnwrapBegins ==
    ASSUME Types, Sound, NEW t \in Tasks, state[t] # "unwrapped",
           state' = [state EXCEPT ![t] = "unwrapped"], NEW y \in Tasks
    PROVE  ByUnwrappers(y)' = ByUnwrappers(y) + (IF Inner[t] = y THEN 1 ELSE 0)
  <1>1. /\ state'[t] = "unwrapped" /\ \A c \in Tasks : c # t => state'[c] = state[c]
        /\ t \notin Unwrappers(y)
    BY DEF Types, Unwrappers
  <1>2. Unwrappers(y)' = IF Inner[t] = y THEN Unwrappers(y) \union {t} ELSE Unwrappers(y)
    BY <1>1 DEF Unwrappers
  <1>3. IsFiniteSet(Unwrappers(y)) /\ Cardinality(Unwrappers(y)) \in Nat
    BY Counted DEF ByUnwrappers, Sound, Shape
  <1>4. Cardinality(Unwrappers(y) \union {t}) = Cardinality(Unwrappers(y)) + 1
    BY <1>1, <1>3, FS_AddElement
  <1> QED BY <1>2, <1>3, <1>4 DEF ByUnwrappers

\* ... and ends.
LEMMA UnwrapEnds ==
    ASSUME Types, Sound, NEW t \in Tasks, state[t] = "unwrapped",
           NEW s, s # "unwrapped", state' = [state EXCEPT ![t] = s], NEW y \in Tasks
    PROVE  ByUnwrappers(y)' = ByUnwrappers(y) - (IF Inner[t] = y THEN 1 ELSE 0)
  <1>1. state'[t] # "unwrapped" /\ \A c \in Tasks : c # t => state'[c] = state[c]
    BY DEF Types
  <1>2. Unwrappers(y)' = Unwrappers(y) \ {t} /\ (t \in Unwrappers(y) <=> Inner[t] = y)
    BY <1>1 DEF Unwrappers
  <1>3. IsFiniteSet(Unwrappers(y)) /\ Cardinality(Unwrappers(y)) \in Nat
    BY Counted DEF ByUnwrappers, Sound, Shape
  <1>4. CASE Inner[t] = y
    BY <1>2, <1>3, <1>4, FS_RemoveElement DEF ByUnwrappers
  <1>5. CASE Inner[t] # y
    <2>1. Unwrappers(y)' = Unwrappers(y)
      BY <1>2, <1>5
    <2>2. ByUnwrappers(y)' = ByUnwrappers(y)
      BY <2>1 DEF ByUnwrappers
    <2>3. ByUnwrappers(y) \in Int
      BY Numbers
    <2> QED BY <2>2, <2>3, <1>5
  <1> QED BY <1>4, <1>5

\* A continuation leaves the vector when its parent settles, and no other does.
LEMMA PassedOn ==
    ASSUME Types, Shape, NEW t \in Tasks, flushes[t] = 0, cont' = cont,
           flushes' = [flushes EXCEPT ![t] = @ + 1], NEW y \in Tasks
    PROVE  /\ Attached(y)' <=> Attached(y) /\ y \notin cont[t]
           /\ ByParent(y)' + Pass(t, 1)[y] = ByParent(y)
  <1>1. flushes'[t] # 0 /\ \A p \in Tasks : p # t => flushes'[p] = flushes[p]
    BY DEF Types
  <1>2. \A p \in Tasks : y \in cont[p] => Parent[y] = p
    BY DEF Shape
  <1>3. Attached(y)' <=> Attached(y) /\ y \notin cont[t]
    BY <1>1, <1>2 DEF Attached
  <1>4. y \in cont[t] => Attached(y)
    BY DEF Attached
  <1>5. ByParent(y)' = One(Attached(y)') /\ ByParent(y) = One(Attached(y))
    BY DEF ByParent
  <1> QED BY <1>3, <1>4, <1>5, PassOnce DEF One

-----------------------------------------------------------------------------
(* The parts of a step. *)

\* The change of the references to y, one number for each part of Exact.
Moves(y, n, u, h, d, w, p, k, o) ==
    /\ refs'[y] = refs[y] + n
    /\ ByUser(y)' = ByUser(y) + u /\ held'[y] = held[y] + h /\ todo'[y] = todo[y] + d
    /\ ByUnwrapping(y)' = ByUnwrapping(y) + w /\ ByParent(y)' = ByParent(y) + p
    /\ ByKids(y)' = ByKids(y) + k /\ ByUnwrappers(y)' = ByUnwrappers(y) + o

\* The count follows when it changes by their sum.
Balanced(y) ==
    refs[y] = ByUser(y) + held[y] + todo[y] + ByUnwrapping(y) + ByParent(y)
              + ByKids(y) + ByUnwrappers(y)

\* If the count changes by the sum of the changes it stays exact.
LEMMA Balance ==
    ASSUME Types, Exact, Shape, NEW y \in Tasks,
           NEW n \in Int, NEW u \in Int, NEW h \in Int, NEW d \in Int, NEW w \in Int,
           NEW p \in Int, NEW k \in Int, NEW o \in Int,
           n = u + h + d + w + p + k + o, Moves(y, n, u, h, d, w, p, k, o)
    PROVE  Balanced(y)'
  <1>1. /\ refs[y] \in Int /\ held[y] \in Nat /\ todo[y] \in Nat
        /\ ByUser(y) \in Nat /\ ByUnwrapping(y) \in Nat /\ ByParent(y) \in Nat
        /\ ByKids(y) \in Nat /\ ByUnwrappers(y) \in Nat
    BY Counted DEF Shape
  <1>2. refs[y] = ByUser(y) + held[y] + todo[y] + ByUnwrapping(y) + ByParent(y)
                  + ByKids(y) + ByUnwrappers(y)
    BY DEF Exact
  <1>3. refs[y] + n = (ByUser(y) + u) + (held[y] + h) + (todo[y] + d) + (ByUnwrapping(y) + w)
                      + (ByParent(y) + p) + (ByKids(y) + k) + (ByUnwrappers(y) + o)
    BY <1>1, <1>2
  <1> QED BY <1>3 DEF Balanced, Moves

\* Exact in the next state, task by task.
LEMMA BalanceAll ==
    ASSUME \A y \in Tasks : Balanced(y)'
    PROVE  Exact'
  BY DEF Balanced, Exact

\* The task objects of the program: d[y] is 1 for a new one, -1 for one that is
\* gone; such a task exists.
Objects(d) ==
    /\ user' \in [Tasks -> BOOLEAN]
    /\ \A y \in Tasks : /\ ByUser(y)' = ByUser(y) + d[y]
                        /\ d[y] # 0 => ~ freed[y]
                        /\ user'[y] => user[y] \/ state'[y] # "none"

\* A task settles, and passes its continuations on.
Settles(t, s) ==
    /\ s \in Final
    /\ Settle(t, s, 1)
    /\ todo' = [y \in Tasks |-> todo[y] + Pass(t, 1)[y]]
    /\ held' \in [Tasks -> Nat] /\ held'[t] = 0
    /\ destroys' \in [Tasks -> Nat] /\ destroys'[t] = 1
    /\ \A y \in Tasks \ {t} : held'[y] = held[y] /\ destroys'[y] = destroys[y]
    /\ refs' \in [Tasks -> Int]
    /\ UNCHANGED <<cont, freed, mishaps>>

\* What holds of a task before that.
LEMMA Unsettled ==
    ASSUME Types, Sound, NEW t \in Tasks, held[t] # 0 \/ state[t] = "unwrapped"
    PROVE  /\ state[t] \in {"pending", "unwrapped"} /\ t \notin Made /\ ~ freed[t]
           /\ flushes[t] = 0 /\ todo[t] = 0 /\ ~ Attached(t)
           /\ \A y \in cont[t] : Attached(y) /\ y # t /\ held[y] = 0 /\ todo[y] = 0
           /\ held[t] # 0 => held[t] = 1 /\ destroys[t] = 0 /\ state[t] = "pending"
           /\ state[t] = "unwrapped" => held[t] = 0 /\ destroys[t] = 1 /\ Inner[t] \in Tasks
  <1>1. ~ freed[t]
    BY Referred DEF Sound, Used
  <1>2. state[t] \in {"pending", "unwrapped"} /\ t \notin Made
    BY DEF Sound, Shape, Final
  <1>3. flushes[t] = 0
    BY <1>2 DEF Sound, Settled, One, Ready, Final
  <1>4. ~ Attached(t)
    BY DEF Sound, Shape, Attached
  <1>5. \A y \in cont[t] : y \in Tasks /\ Attached(y)
    BY <1>3 DEF Attached, Types
  <1>6. \A y \in cont[t] : Attached(y) /\ y # t /\ held[y] = 0 /\ todo[y] = 0
    BY <1>4, <1>5 DEF Sound, Shape
  <1>7. held[t] # 0 => held[t] = 1 /\ todo[t] = 0 /\ destroys[t] = 0 /\ state[t] = "pending"
    BY <1>1 DEF Sound, Shape, Settled, One, Ready, Final, Types
  <1>8. state[t] = "unwrapped" =>
            held[t] = 0 /\ todo[t] = 0 /\ destroys[t] = 1 /\ Inner[t] \in Tasks
    BY <1>2 DEF Sound, Shape, Settled, One, Types
  <1> QED BY <1>1, <1>2, <1>3, <1>4, <1>6, <1>7, <1>8

\* Settling keeps everything but the counts, which depend on who settles it.
LEMMA SettlesKeeps ==
    ASSUME Types, Sound, NEW t \in Tasks, NEW s, held[t] # 0 \/ state[t] = "unwrapped",
           Settles(t, s), NEW d, Objects(d),
           \A y \in Tasks : freed[y] => refs'[y] = 0
    PROVE  Types' /\ Settled' /\ Shape'
  <1>1. /\ state[t] \in {"pending", "unwrapped"} /\ t \notin Made /\ ~ freed[t]
        /\ flushes[t] = 0 /\ todo[t] = 0 /\ ~ Attached(t)
        /\ \A y \in cont[t] : Attached(y) /\ y # t /\ held[y] = 0 /\ todo[y] = 0
    BY Unsettled
  <1>2. /\ state' = [state EXCEPT ![t] = s] /\ s \in Final
        /\ flushes' = [flushes EXCEPT ![t] = @ + 1]
        /\ cont' = cont /\ freed' = freed /\ mishaps' = mishaps
        /\ \A y \in Tasks \ {t} : held'[y] = held[y] /\ destroys'[y] = destroys[y]
        /\ held'[t] = 0 /\ destroys'[t] = 1
    BY DEF Settles, Settle
  <1>3. \A y \in Tasks : todo'[y] = todo[y] + (IF y \in cont[t] THEN 1 ELSE 0)
    BY PassOnce DEF Settles
  <1>4. Types'
    <2>1. \A y \in Tasks : todo[y] + Pass(t, 1)[y] \in Nat
      BY PassOnce DEF Types
    <2>2. todo' \in [Tasks -> Nat]
      BY <2>1 DEF Settles
    <2> QED BY <1>2, <2>2 DEF Types, Settles, Objects, Final
  <1>5. /\ state'[t] = s /\ flushes'[t] = 1
        /\ \A y \in Tasks : y # t => state'[y] = state[y] /\ flushes'[y] = flushes[y]
    BY <1>1, <1>2 DEF Types
  <1>6. Settled'
    BY <1>1, <1>2, <1>5 DEF Sound, Settled, Ready, Final, One
  <1>7. IsFiniteSet(Created)'
    <2>1. Created' = Created
      BY <1>1, <1>2, <1>5 DEF Created, Final
    <2> QED BY <2>1 DEF Sound, Shape
  <1>8. \A y, p \in Tasks : y \in cont'[p] =>
            /\ Parent[y] = p /\ state'[y] # "none" /\ state'[p] # "none"
            /\ flushes'[p] = 0 => state'[y] = "pending" /\ ~ freed'[y] /\ ~ freed'[p]
    <2> SUFFICES ASSUME NEW y \in Tasks, NEW p \in Tasks, y \in cont[p]
                 PROVE  /\ Parent[y] = p /\ state'[y] # "none" /\ state'[p] # "none"
                        /\ flushes'[p] = 0 => state'[y] = "pending" /\ ~ freed[y] /\ ~ freed[p]
      BY <1>2
    <2>1. /\ Parent[y] = p /\ state[y] # "none" /\ state[p] # "none"
          /\ flushes[p] = 0 => state[y] = "pending" /\ ~ freed[y] /\ ~ freed[p] /\ Attached(y)
      BY DEF Sound, Shape, Attached
    <2> QED BY <2>1, <1>1, <1>2, <1>5 DEF Final
  <1>9. \A y \in Tasks : held'[y] # 0 \/ todo'[y] # 0 =>
            held'[y] + todo'[y] = 1 /\ state'[y] = "pending" /\ ~ Attached(y)'
    <2> SUFFICES ASSUME NEW y \in Tasks, held'[y] # 0 \/ todo'[y] # 0
                 PROVE  held'[y] + todo'[y] = 1 /\ state'[y] = "pending" /\ ~ Attached(y)'
      OBVIOUS
    <2>1. Attached(y)' <=> Attached(y) /\ y \notin cont[t]
      BY <1>1, <1>2, PassedOn DEF Sound
    <2>2. CASE y = t
      BY <2>2, <1>1, <1>2, <1>3
    <2>3. CASE y # t /\ y \in cont[t]
      <3>1. state[y] = "pending"
        BY <2>3, <1>1 DEF Sound, Shape
      <3> QED BY <2>1, <2>3, <3>1, <1>1, <1>2, <1>3, <1>5
    <2>4. CASE y # t /\ y \notin cont[t]
      <3>1. held'[y] = held[y] /\ todo'[y] = todo[y] /\ state'[y] = state[y]
        BY <2>4, <1>2, <1>3, <1>5 DEF Types
      <3> QED BY <2>1, <3>1 DEF Sound, Shape
    <2> QED BY <2>2, <2>3, <2>4
  <1>10. \A y \in Tasks : state'[y] = "none" =>
            ~ user'[y] /\ held'[y] = 0 /\ todo'[y] = 0 /\ ~ freed'[y] /\ cont'[y] = {}
    <2> SUFFICES ASSUME NEW y \in Tasks, state'[y] = "none"
                 PROVE  ~ user'[y] /\ held'[y] = 0 /\ todo'[y] = 0 /\ ~ freed'[y] /\ cont'[y] = {}
      OBVIOUS
    <2>1. y # t /\ state[y] = "none"
      BY <1>2, <1>5 DEF Final
    <2>2. ~ user[y] /\ held[y] = 0 /\ todo[y] = 0 /\ ~ freed[y] /\ cont[y] = {} /\ ~ Attached(y)
      BY <2>1 DEF Sound, Shape, Attached
    <2> QED BY <2>1, <2>2, <1>1, <1>2, <1>3 DEF Objects
  <1>11. \A y \in Tasks :
            /\ y \in Made => state'[y] \in {"none"} \union Final /\ cont'[y] = {}
            /\ state'[y] = "unwrapped" => Inner[y] \in Tasks
            /\ freed'[y] => refs'[y] = 0
    BY <1>1, <1>2, <1>5 DEF Sound, Shape, Final
  <1> QED BY <1>4, <1>6, <1>7, <1>8, <1>9, <1>10, <1>11 DEF Shape

-----------------------------------------------------------------------------
(* The steps that settle a task. *)

\* Values of Ref.
LEMMA RefValues ==
    ASSUME NEW t, NEW n \in Int, NEW y \in Tasks
    PROVE  /\ Ref(t, n)[y] = IF y = t THEN n ELSE 0
           /\ Ref(t, n)[y] \in Int
           /\ DropFunc(t)[y] = IF y = Parent[t] THEN -1 ELSE 0
           /\ DropFunc(t)[y] \in Int
           /\ NoRef[y] = 0
  BY DEF Ref, DropFunc, NoRef

\* What destroying the function of a continuation does to the counts.
LEMMA DropValues ==
    \A t, y \in Tasks : DropFunc(t)[y] = IF y = Parent[t] THEN -1 ELSE 0
  BY DEF Ref, DropFunc

\* A task whose function is there holds its parent.
LEMMA ParentExists ==
    ASSUME Types, Sound, NEW t \in Tasks, state[t] # "none", destroys[t] = 0,
           NEW y \in Tasks, y = Parent[t]
    PROVE  ~ freed[y] /\ refs[y] # 0 /\ Kids(y) # {}
  <1>1. t \in Kids(y)
    BY DEF Kids
  <1>2. Used(y)
    BY <1>1 DEF Used
  <1> QED BY <1>1, <1>2, Referred DEF Sound

\* run() and the destructor of a run handle.
LEMMA RunSettles ==
    ASSUME Types, Sound, NEW t \in Tasks, NEW s, held[t] # 0, Settles(t, s),
           held' = [held EXCEPT ![t] = @ - 1], destroys' = [destroys EXCEPT ![t] = @ + 1],
           NEW d \in [Tasks -> Int], Objects(d),
           \A y \in Tasks : refs'[y] = refs[y] + Ref(t, -1)[y] + d[y] + DropFunc(t)[y]
    PROVE  Types' /\ Sound'
  <1>0. /\ state[t] = "pending" /\ destroys[t] = 0 /\ held[t] = 1 /\ ~ freed[t] /\ flushes[t] = 0
    BY Unsettled
  <1>1. \A y \in Tasks : freed[y] => refs'[y] = 0
    <2> SUFFICES ASSUME NEW y \in Tasks, freed[y] PROVE refs'[y] = 0
      OBVIOUS
    <2>1. refs[y] = 0
      BY DEF Sound, Shape
    <2>2. Ref(t, -1)[y] = 0
      BY <1>0, RefValues
    <2>3. d[y] = 0
      BY DEF Objects
    <2>4. DropFunc(t)[y] = 0
      BY <1>0, ParentExists, RefValues
    <2> QED BY <2>1, <2>2, <2>3, <2>4
  <1>2. Types' /\ Settled' /\ Shape'
    BY <1>1, SettlesKeeps
  <1>3. \A y \in Tasks : Balanced(y)'
    <2> SUFFICES ASSUME NEW y \in Tasks PROVE Balanced(y)'
      OBVIOUS
    <2>1. s \in Final /\ s # "none" /\ s # "unwrapped"
          /\ state' = [state EXCEPT ![t] = s] /\ flushes' = [flushes EXCEPT ![t] = @ + 1]
          /\ cont' = cont
      BY DEF Settles, Settle, Final
    <2>2. ByUser(y)' = ByUser(y) + d[y]
      BY DEF Objects
    <2>3. held'[y] = held[y] + Ref(t, -1)[y]
      BY RefValues DEF Types
    <2>4. todo'[y] = todo[y] + Pass(t, 1)[y]
      BY DEF Settles
    <2>5. ByUnwrapping(y)' = ByUnwrapping(y) + 0
      <3>1. state'[y] = "unwrapped" <=> state[y] = "unwrapped"
        BY <1>0, <2>1 DEF Types
      <3> QED BY <3>1 DEF ByUnwrapping, One
    <2>6. ByParent(y)' = ByParent(y) + (-Pass(t, 1)[y])
      <3>1. ByParent(y)' + Pass(t, 1)[y] = ByParent(y)
        BY <1>0, <2>1, PassedOn DEF Sound
      <3>2. ByParent(y)' \in Int /\ ByParent(y) \in Int /\ Pass(t, 1)[y] \in Int
        BY PassOnce DEF ByParent, One
      <3> QED BY <3>1, <3>2
    <2>7. ByKids(y)' = ByKids(y) + DropFunc(t)[y]
      <3>1. \A c \in Tasks : state'[c] # "none" <=> state[c] # "none"
        BY <1>0, <2>1 DEF Types
      <3> QED BY <1>0, <3>1, KidsDrop
    <2>8. ByUnwrappers(y)' = ByUnwrappers(y) + 0
      <3>1. Unwrappers(y)' = Unwrappers(y)
        BY <1>0, <2>1 DEF Types, Unwrappers
      <3>2. ByUnwrappers(y)' = ByUnwrappers(y) /\ ByUnwrappers(y) \in Int
        BY <3>1, Numbers DEF ByUnwrappers
      <3> QED BY <3>2
    <2>9. /\ Ref(t, -1)[y] \in Int /\ d[y] \in Int /\ DropFunc(t)[y] \in Int
          /\ Pass(t, 1)[y] \in Int /\ refs[y] \in Int
      <3>1. Ref(t, -1)[y] \in Int /\ DropFunc(t)[y] \in Int
        BY RefValues
      <3>2. Pass(t, 1)[y] \in Int
        BY PassOnce
      <3>3. d[y] \in Int /\ refs[y] \in Int
        BY DEF Types
      <3> QED BY <3>1, <3>2, <3>3
    <2>10. PICK a \in Int, b \in Int, c \in Int, e \in Int :
              a = Ref(t, -1)[y] /\ b = d[y] /\ c = Pass(t, 1)[y] /\ e = DropFunc(t)[y]
      BY <2>9
    <2>11. refs'[y] = refs[y] + (a + b + e)
      <3>1. refs'[y] = refs[y] + a + b + e
        BY <2>10
      <3> QED BY <3>1, <2>9
    <2>12. PICK n \in Int, m \in Int, z \in Int : n = a + b + e /\ m = -c /\ z = 0
      OBVIOUS
    <2>13. Moves(y, n, b, a, c, z, m, e, z)
      BY <2>2, <2>3, <2>4, <2>5, <2>6, <2>7, <2>8, <2>10, <2>11, <2>12 DEF Moves
    <2>14. n = b + a + c + z + m + e + z
      BY <2>12
    <2> QED BY <2>13, <2>14, Balance DEF Sound
  <1> QED BY <1>2, <1>3, BalanceAll DEF Sound

\* A program whose objects stay where they are.
LEMMA NoObjects == ASSUME Types, user' = user PROVE Objects(NoRef) /\ NoRef \in [Tasks -> Int]
  <1>1. \A y \in Tasks : ByUser(y)' = ByUser(y) /\ ByUser(y) \in Int
    BY DEF ByUser, One
  <1>2. \A y \in Tasks : NoRef[y] = 0
    BY DEF NoRef
  <1> QED BY <1>1, <1>2 DEF Objects, NoRef, Types

\* A value is returned, or an exception leaves the function, or the handle is
\* destroyed.
LEMMA RunKeeps ==
    ASSUME Types, Sound, NEW t \in Tasks, RunValue(t) \/ RunCancels(t) \/ DropHandle(t)
    PROVE  Types' /\ Sound'
  <1>1. /\ held[t] # 0 /\ user' = user /\ UNCHANGED <<cont, freed, mishaps>>
        /\ held' = [held EXCEPT ![t] = @ - 1] /\ destroys' = [destroys EXCEPT ![t] = @ + 1]
        /\ todo' = [y \in Tasks |-> todo[y] + Pass(t, 1)[y]]
        /\ Count(Plus(Ref(t, -1), DropFunc(t)))
        /\ \E s \in Final : Settle(t, s, 1)
    BY DEF RunValue, RunCancels, DropHandle, CancelHeld, Release, Destroy, Final, Types
  <1>2. PICK s \in Final : Settle(t, s, 1)
    BY <1>1
  <1>3. \A y \in Tasks : Plus(Ref(t, -1), DropFunc(t))[y] = Ref(t, -1)[y] + DropFunc(t)[y]
    BY DEF Plus
  <1>4. \A y \in Tasks :
            /\ Ref(t, -1)[y] \in Int /\ DropFunc(t)[y] \in Int /\ NoRef[y] = 0
            /\ refs'[y] = refs[y] + (Ref(t, -1)[y] + DropFunc(t)[y])
    BY <1>1, <1>3, RefValues DEF Count
  <1>5. refs' \in [Tasks -> Int]
    BY <1>1, <1>3, <1>4 DEF Count, Types
  <1>6. \A y \in Tasks : refs'[y] = refs[y] + Ref(t, -1)[y] + NoRef[y] + DropFunc(t)[y]
    BY <1>4 DEF Types
  <1>7. Settles(t, s)
    <2>1. held[t] = 1 /\ destroys[t] = 0
      BY <1>1, Unsettled
    <2>2. held'[t] = 0 /\ destroys'[t] = 1 /\ held' \in [Tasks -> Nat]
          /\ destroys' \in [Tasks -> Nat]
          /\ \A y \in Tasks \ {t} : held'[y] = held[y] /\ destroys'[y] = destroys[y]
      BY <1>1, <2>1 DEF Types
    <2> QED BY <1>1, <1>2, <1>5, <2>2 DEF Settles
  <1> QED BY <1>1, <1>6, <1>7, NoObjects, RunSettles

-----------------------------------------------------------------------------
(* Tasks that return tasks. *)

\* The task that was returned goes to the continuation that unwraps it; a
\* shared one stays with the program, too.
LEMMA ReturnedObject ==
    ASSUME Types, Sound, NEW i \in Tasks, user[i], Live(i),
           user' = [user EXCEPT ![i] = i \in Shared]
    PROVE  Objects(Ref(i, Copies(i) - 1)) /\ Ref(i, Copies(i) - 1) \in [Tasks -> Int]
  <1>1. Copies(i) \in {0, 1} /\ (Copies(i) = 1 <=> i \in Shared)
    BY DEF Copies
  <1>2. /\ \A y \in Tasks : Ref(i, Copies(i) - 1)[y] = IF y = i THEN Copies(i) - 1 ELSE 0
        /\ Ref(i, Copies(i) - 1) \in [Tasks -> Int]
    BY <1>1 DEF Ref
  <1>3. user' \in [Tasks -> BOOLEAN]
    BY DEF Types
  <1>4. \A y \in Tasks : ByUser(y)' = ByUser(y) + Ref(i, Copies(i) - 1)[y]
    <2> SUFFICES ASSUME NEW y \in Tasks
                 PROVE  ByUser(y)' = ByUser(y) + Ref(i, Copies(i) - 1)[y]
      OBVIOUS
    <2>1. CASE y = i
      <3>1. ByUser(y) = 1
        BY <2>1 DEF ByUser, One
      <3>2. user'[y] <=> i \in Shared
        BY <2>1 DEF Types
      <3>3. ByUser(y)' = Copies(i)
        BY <1>1, <3>2 DEF ByUser, One
      <3> QED BY <1>1, <1>2, <2>1, <3>1, <3>3
    <2>2. CASE y # i
      <3>1. user'[y] = user[y]
        BY <2>2 DEF Types
      <3>2. ByUser(y)' = ByUser(y) /\ ByUser(y) \in Int
        BY <3>1 DEF ByUser, One
      <3> QED BY <1>2, <2>2, <3>2
    <2> QED BY <2>1, <2>2
  <1>5. \A y \in Tasks : Ref(i, Copies(i) - 1)[y] # 0 => ~ freed[y]
    BY <1>2 DEF Live
  <1>6. \A y \in Tasks : user'[y] => user[y]
    BY DEF Types
  <1> QED BY <1>2, <1>3, <1>4, <1>5, <1>6 DEF Objects

\* unwrapped_finish() fails.
LEMMA ThrowsKeeps ==
    ASSUME Types, Sound, NEW t \in Tasks, RunUnwrapThrows(t)
    PROVE  Types' /\ Sound'
  <1>1. /\ held[t] # 0 /\ UNCHANGED <<cont, freed, mishaps>>
        /\ Inner[t] \in Tasks /\ user[Inner[t]] /\ Live(Inner[t])
        /\ user' = [user EXCEPT ![Inner[t]] = Inner[t] \in Shared]
        /\ held' = [held EXCEPT ![t] = @ - 1] /\ destroys' = [destroys EXCEPT ![t] = @ + 1]
        /\ todo' = [y \in Tasks |-> todo[y] + Pass(t, 1)[y]]
        /\ Settle(t, "canceled", 1)
    <2>1. Inner[t] \in Tasks
      BY LifecycleAssumption DEF RunUnwrapThrows
    <2>2. held[t] # 0
      BY DEF RunUnwrapThrows
    <2> QED BY <2>1, <2>2 DEF RunUnwrapThrows, Release, Destroy
  <1>2. PICK i \in Tasks : i = Inner[t]
    BY <1>1
  <1>3. PICK d \in [Tasks -> Int] : d = Ref(i, Copies(i) - 1) /\ Objects(d)
    BY <1>1, <1>2, ReturnedObject
  <1>4. Count(Plus(Ref(t, -1), Plus(d, DropFunc(t))))
    BY <1>2, <1>3 DEF RunUnwrapThrows
  <1>5. \A y \in Tasks : refs'[y] = refs[y] + (Ref(t, -1)[y] + (d[y] + DropFunc(t)[y]))
    BY <1>4 DEF Count, Plus
  <1>6. \A y \in Tasks : Ref(t, -1)[y] \in Int /\ DropFunc(t)[y] \in Int
    BY RefValues
  <1>7. \A y \in Tasks : refs'[y] = refs[y] + Ref(t, -1)[y] + d[y] + DropFunc(t)[y]
    BY <1>5, <1>6 DEF Types
  <1>8. refs' \in [Tasks -> Int]
    <2>1. \A y \in Tasks : refs[y] + Plus(Ref(t, -1), Plus(d, DropFunc(t)))[y] \in Int
      BY <1>6 DEF Plus, Types
    <2> QED BY <1>4, <2>1 DEF Count
  <1>9. Settles(t, "canceled")
    <2>1. held[t] = 1 /\ destroys[t] = 0
      BY <1>1, Unsettled
    <2>2. held'[t] = 0 /\ destroys'[t] = 1 /\ held' \in [Tasks -> Nat]
          /\ destroys' \in [Tasks -> Nat]
          /\ \A y \in Tasks \ {t} : held'[y] = held[y] /\ destroys'[y] = destroys[y]
      BY <1>1, <2>1 DEF Types
    <2> QED BY <1>1, <1>8, <2>2 DEF Settles, Final
  <1> QED BY <1>1, <1>3, <1>7, <1>9, RunSettles

\* The continuation that waited for the returned task runs.
LEMMA UnwrapKeeps ==
    ASSUME Types, Sound, NEW t \in Tasks, Unwrap(t)
    PROVE  Types' /\ Sound'
  <1>1. /\ state[t] = "unwrapped" /\ Ready(Inner[t])
        /\ UNCHANGED <<destroys, cont, user, held, freed, mishaps>>
        /\ todo' = [y \in Tasks |-> todo[y] + Pass(t, 1)[y]]
        /\ Count(Plus(Ref(t, -1), Ref(Inner[t], -1)))
        /\ \E s \in Final : Settle(t, s, 1)
    BY DEF Unwrap, Ready, Final
  <1>2. PICK s \in Final : Settle(t, s, 1)
    BY <1>1
  <1>3. /\ held[t] = 0 /\ destroys[t] = 1 /\ Inner[t] \in Tasks /\ ~ freed[t] /\ flushes[t] = 0
    BY <1>1, Unsettled
  <1>4. PICK i \in Tasks : i = Inner[t]
    BY <1>3
  <1>5. ~ freed[i]
    <2>1. Unwrappers(i) # {}
      BY <1>1, <1>4 DEF Unwrappers
    <2> QED BY <2>1, Referred DEF Used, Sound
  <1>6. \A y \in Tasks :
            /\ Ref(t, -1)[y] \in Int /\ Ref(i, -1)[y] \in Int
            /\ refs'[y] = refs[y] + (Ref(t, -1)[y] + Ref(i, -1)[y])
    BY <1>1, <1>4, RefValues DEF Count, Plus
  <1>7. refs' \in [Tasks -> Int]
    <2>1. \A y \in Tasks : refs[y] + Plus(Ref(t, -1), Ref(i, -1))[y] \in Int
      BY <1>6 DEF Plus, Types
    <2> QED BY <1>1, <1>4, <2>1 DEF Count
  <1>8. Settles(t, s)
    BY <1>1, <1>2, <1>3, <1>7 DEF Settles, Types
  <1>9. \A y \in Tasks : freed[y] => refs'[y] = 0
    <2> SUFFICES ASSUME NEW y \in Tasks, freed[y] PROVE refs'[y] = 0
      OBVIOUS
    <2>1. refs[y] = 0 /\ y # t /\ y # i
      BY <1>3, <1>5 DEF Sound, Shape
    <2> QED BY <2>1, <1>6, RefValues
  <1>10. Types' /\ Settled' /\ Shape'
    BY <1>1, <1>8, <1>9, NoObjects, SettlesKeeps
  <1>11. \A y \in Tasks : Balanced(y)'
    <2> SUFFICES ASSUME NEW y \in Tasks PROVE Balanced(y)'
      OBVIOUS
    <2>1. s \in Final /\ s # "none" /\ s # "unwrapped"
          /\ state' = [state EXCEPT ![t] = s] /\ flushes' = [flushes EXCEPT ![t] = @ + 1]
      BY <1>2 DEF Settle, Final
    <2>2. /\ ByUser(y)' = ByUser(y) /\ ByUser(y) \in Int
          /\ held'[y] = held[y] /\ held[y] \in Int
      BY <1>1 DEF ByUser, One, Types
    <2>3. todo'[y] = todo[y] + Pass(t, 1)[y]
      BY <1>1
    <2>4. ByUnwrapping(y)' = ByUnwrapping(y) + Ref(t, -1)[y]
      <3>1. state'[y] = "unwrapped" <=> state[y] = "unwrapped" /\ y # t
        BY <2>1 DEF Types
      <3>2. ByUnwrapping(y)' = One(state'[y] = "unwrapped") /\ ByUnwrapping(y) = One(state[y] = "unwrapped")
        BY DEF ByUnwrapping
      <3> QED BY <1>1, <3>1, <3>2, RefValues DEF One
    <2>5. ByParent(y)' = ByParent(y) + (-Pass(t, 1)[y])
      <3>1. ByParent(y)' + Pass(t, 1)[y] = ByParent(y)
        BY <1>1, <1>3, <2>1, PassedOn DEF Sound
      <3>2. ByParent(y)' \in Int /\ ByParent(y) \in Int /\ Pass(t, 1)[y] \in Int
        BY PassOnce DEF ByParent, One
      <3> QED BY <3>1, <3>2
    <2>6. ByKids(y)' = ByKids(y) /\ ByKids(y) \in Int
      <3>1. \A c \in Tasks : state'[c] # "none" <=> state[c] # "none"
        BY <1>1, <2>1 DEF Types
      <3>2. ByKids(y)' = ByKids(y)
        BY <1>1, <3>1, KidsSame
      <3>3. ByKids(y) \in Int
        BY Numbers
      <3> QED BY <3>2, <3>3
    <2>7. ByUnwrappers(y)' = ByUnwrappers(y) + Ref(i, -1)[y]
      <3>1. ByUnwrappers(y)' = ByUnwrappers(y) - (IF Inner[t] = y THEN 1 ELSE 0)
        BY <1>1, <2>1, UnwrapEnds
      <3>2. ByUnwrappers(y) \in Int
        BY Numbers
      <3> QED BY <1>4, <3>1, <3>2, RefValues
    <2>8. PICK a \in Int, b \in Int, c \in Int :
              a = Ref(t, -1)[y] /\ b = Ref(i, -1)[y] /\ c = Pass(t, 1)[y]
      BY <1>6, PassOnce
    <2>9. refs'[y] = refs[y] + (a + b)
      BY <1>6, <2>8
    <2>10. PICK n \in Int, m \in Int, z \in Int : n = a + b /\ m = -c /\ z = 0
      OBVIOUS
    <2>11. Moves(y, n, z, z, c, a, m, z, b)
      BY <2>2, <2>3, <2>4, <2>5, <2>6, <2>7, <2>8, <2>9, <2>10 DEF Moves
    <2>12. n = z + z + c + a + m + z + b
      BY <2>10
    <2> QED BY <2>11, <2>12, Balance DEF Sound
  <1> QED BY <1>10, <1>11, BalanceAll DEF Sound

\* The function returns a task, and t waits for it.
LEMMA RunUnwrapKeeps ==
    ASSUME Types, Sound, NEW t \in Tasks, RunUnwrap(t)
    PROVE  Types' /\ Sound'
  <1>1. /\ held[t] # 0 /\ UNCHANGED <<flushes, cont, todo, freed, mishaps>>
        /\ user[Inner[t]] /\ Live(Inner[t])
        /\ user' = [user EXCEPT ![Inner[t]] = Inner[t] \in Shared]
        /\ held' = [held EXCEPT ![t] = @ - 1] /\ destroys' = [destroys EXCEPT ![t] = @ + 1]
        /\ state' = [state EXCEPT ![t] = "unwrapped"]
    <2>1. held[t] # 0
      BY DEF RunUnwrap
    <2> QED BY <2>1 DEF RunUnwrap, Release, Destroy
  <1>2. PICK i \in Tasks : i = Inner[t]
    BY LifecycleAssumption DEF RunUnwrap
  <1>3. PICK d \in [Tasks -> Int] : d = Ref(i, Copies(i) - 1) /\ Objects(d)
    BY <1>1, <1>2, ReturnedObject
  <1>4. /\ state[t] = "pending" /\ t \notin Made /\ ~ freed[t] /\ flushes[t] = 0
        /\ todo[t] = 0 /\ ~ Attached(t) /\ held[t] = 1 /\ destroys[t] = 0
    BY <1>1, Unsettled
  <1>5. \A y \in Tasks :
            /\ Ref(t, -1)[y] \in Int /\ Ref(t, 1)[y] \in Int /\ Ref(i, 1)[y] \in Int
            /\ DropFunc(t)[y] \in Int
            /\ Ref(t, -1)[y] + Ref(t, 1)[y] = 0
            /\ Ref(i, Copies(i))[y] = d[y] + Ref(i, 1)[y]
    <2>1. Copies(i) \in Int
      BY DEF Copies
    <2> QED BY <1>3, <2>1 DEF Ref, DropFunc
  <1>6. Count(Plus(Plus(Ref(t, -1), Ref(t, 1)), Plus(Ref(i, Copies(i)), DropFunc(t))))
    BY <1>2 DEF RunUnwrap
  <1>7. \A y \in Tasks :
            Plus(Plus(Ref(t, -1), Ref(t, 1)), Plus(Ref(i, Copies(i)), DropFunc(t)))[y]
                = d[y] + Ref(i, 1)[y] + DropFunc(t)[y]
    <2> SUFFICES ASSUME NEW y \in Tasks
                 PROVE  Plus(Plus(Ref(t, -1), Ref(t, 1)), Plus(Ref(i, Copies(i)), DropFunc(t)))[y]
                            = d[y] + Ref(i, 1)[y] + DropFunc(t)[y]
      OBVIOUS
    <2>1. Plus(Plus(Ref(t, -1), Ref(t, 1)), Plus(Ref(i, Copies(i)), DropFunc(t)))[y]
              = (Ref(t, -1)[y] + Ref(t, 1)[y]) + (Ref(i, Copies(i))[y] + DropFunc(t)[y])
      BY DEF Plus
    <2> QED BY <2>1, <1>5
  <1>8. \A y \in Tasks : refs'[y] = refs[y] + (d[y] + Ref(i, 1)[y] + DropFunc(t)[y])
    BY <1>6, <1>7 DEF Count
  <1>9. refs' \in [Tasks -> Int]
    <2>1. \A y \in Tasks :
              refs[y] + Plus(Plus(Ref(t, -1), Ref(t, 1)), Plus(Ref(i, Copies(i)), DropFunc(t)))[y] \in Int
      BY <1>5, <1>7 DEF Types
    <2> QED BY <1>6, <2>1 DEF Count
  <1>10. /\ state'[t] = "unwrapped" /\ held'[t] = 0 /\ destroys'[t] = 1
         /\ \A y \in Tasks : y # t =>
               state'[y] = state[y] /\ held'[y] = held[y] /\ destroys'[y] = destroys[y]
    BY <1>1, <1>4 DEF Types
  <1>11. Types'
    <2>1. held' \in [Tasks -> Nat] /\ destroys' \in [Tasks -> Nat]
      BY <1>1, <1>4 DEF Types
    <2> QED BY <1>1, <1>3, <1>9, <2>1 DEF Types, Objects, Final
  <1>12. Settled'
    BY <1>1, <1>4, <1>10 DEF Sound, Settled, Ready, Final, One
  <1>13. \A y \in Tasks : Attached(y)' <=> Attached(y)
    BY <1>1 DEF Attached
  <1>14. Shape'
    <2>1. Created' = Created
      BY <1>4, <1>10 DEF Created
    <2>2. \A y, p \in Tasks : y \in cont'[p] =>
              /\ Parent[y] = p /\ state'[y] # "none" /\ state'[p] # "none"
              /\ flushes'[p] = 0 => state'[y] = "pending" /\ ~ freed'[y] /\ ~ freed'[p]
      <3> SUFFICES ASSUME NEW y \in Tasks, NEW p \in Tasks, y \in cont[p]
                   PROVE  /\ Parent[y] = p /\ state'[y] # "none" /\ state'[p] # "none"
                          /\ flushes[p] = 0 => state'[y] = "pending" /\ ~ freed[y] /\ ~ freed[p]
        BY <1>1
      <3>1. /\ Parent[y] = p /\ state[y] # "none" /\ state[p] # "none"
            /\ flushes[p] = 0 => state[y] = "pending" /\ ~ freed[y] /\ ~ freed[p] /\ Attached(y)
        BY DEF Sound, Shape, Attached
      <3> QED BY <3>1, <1>4, <1>10
    <2>3. \A y \in Tasks :
              /\ state'[y] = "none" =>
                    ~ user'[y] /\ held'[y] = 0 /\ todo'[y] = 0 /\ ~ freed'[y] /\ cont'[y] = {}
              /\ held'[y] # 0 \/ todo'[y] # 0 =>
                    held'[y] + todo'[y] = 1 /\ state'[y] = "pending" /\ ~ Attached(y)'
      <3> SUFFICES ASSUME NEW y \in Tasks
                   PROVE  /\ state'[y] = "none" =>
                                ~ user'[y] /\ held'[y] = 0 /\ todo[y] = 0 /\ ~ freed[y] /\ cont[y] = {}
                          /\ held'[y] # 0 \/ todo[y] # 0 =>
                                held'[y] + todo[y] = 1 /\ state'[y] = "pending" /\ ~ Attached(y)
        BY <1>1, <1>13
      <3>1. /\ state[y] = "none" =>
                  ~ user[y] /\ held[y] = 0 /\ todo[y] = 0 /\ ~ freed[y] /\ cont[y] = {}
            /\ held[y] # 0 \/ todo[y] # 0 =>
                  held[y] + todo[y] = 1 /\ state[y] = "pending" /\ ~ Attached(y)
        BY DEF Sound, Shape
      <3>2. user'[y] => user[y] \/ state'[y] # "none"
        BY <1>3 DEF Objects
      <3>3. CASE y = t
        BY <3>3, <1>4, <1>10
      <3>4. CASE y # t
        BY <3>1, <3>2, <3>4, <1>10
      <3> QED BY <3>3, <3>4
    <2>4. \A y \in Tasks : /\ y \in Made => state'[y] \in {"none"} \union Final /\ cont'[y] = {}
                           /\ state'[y] = "unwrapped" => Inner[y] \in Tasks
      BY <1>1, <1>2, <1>4, <1>10 DEF Sound, Shape
    <2>5. \A y \in Tasks : freed'[y] => refs'[y] = 0
      <3> SUFFICES ASSUME NEW y \in Tasks, freed[y] PROVE refs'[y] = 0
        BY <1>1
      <3>1. refs[y] = 0
        BY DEF Sound, Shape
      <3>2. d[y] = 0
        BY <1>3 DEF Objects
      <3>3. DropFunc(t)[y] = 0
        <4>1. y # Parent[t]
          BY <1>4, ParentExists
        <4> QED BY <4>1, DropValues
      <3>4. Ref(i, 1)[y] = 0
        BY <1>1, <1>2, RefValues DEF Live
      <3> QED BY <3>1, <3>2, <3>3, <3>4, <1>8
    <2> QED BY <2>1, <2>2, <2>3, <2>4, <2>5 DEF Sound, Shape
  <1>15. \A y \in Tasks : Balanced(y)'
    <2> SUFFICES ASSUME NEW y \in Tasks PROVE Balanced(y)'
      OBVIOUS
    <2>1. ByUser(y)' = ByUser(y) + d[y]
      BY <1>3 DEF Objects
    <2>2. held'[y] = held[y] + Ref(t, -1)[y]
      BY <1>1, RefValues DEF Types
    <2>3. todo'[y] = todo[y] /\ todo[y] \in Int
      BY <1>1, Numbers
    <2>4. ByUnwrapping(y)' = ByUnwrapping(y) + Ref(t, 1)[y]
      <3>1. state'[y] = "unwrapped" <=> state[y] = "unwrapped" \/ y = t
        BY <1>10
      <3>2. ByUnwrapping(y)' = One(state'[y] = "unwrapped") /\ ByUnwrapping(y) = One(state[y] = "unwrapped")
        BY DEF ByUnwrapping
      <3> QED BY <1>4, <3>1, <3>2, RefValues DEF One
    <2>5. ByParent(y)' = ByParent(y) /\ ByParent(y) \in Int
      <3>1. ByParent(y)' = ByParent(y)
        BY <1>13 DEF ByParent, One
      <3> QED BY <3>1, Numbers
    <2>6. ByKids(y)' = ByKids(y) + DropFunc(t)[y]
      <3>1. \A c \in Tasks : state'[c] # "none" <=> state[c] # "none"
        BY <1>4, <1>10
      <3> QED BY <1>1, <1>4, <3>1, KidsDrop
    <2>7. ByUnwrappers(y)' = ByUnwrappers(y) + Ref(i, 1)[y]
      <3>1. ByUnwrappers(y)' = ByUnwrappers(y) + (IF Inner[t] = y THEN 1 ELSE 0)
        BY <1>1, <1>4, UnwrapBegins
      <3>2. ByUnwrappers(y) \in Int
        BY Numbers
      <3> QED BY <1>2, <3>1, <3>2, RefValues
    <2>8. PICK a \in Int, b \in Int, c \in Int, e \in Int, f \in Int :
              /\ a = d[y] /\ b = Ref(t, -1)[y] /\ c = Ref(t, 1)[y]
              /\ e = DropFunc(t)[y] /\ f = Ref(i, 1)[y]
      BY <1>5
    <2>9. refs'[y] = refs[y] + (a + f + e) /\ b + c = 0
      BY <1>5, <1>8, <2>8
    <2>10. PICK n \in Int, z \in Int : n = a + f + e /\ z = 0
      OBVIOUS
    <2>11. Moves(y, n, a, b, z, c, z, e, f)
      BY <2>1, <2>2, <2>3, <2>4, <2>5, <2>6, <2>7, <2>8, <2>9, <2>10 DEF Moves
    <2>12. n = a + b + z + c + z + e + f
      BY <2>9, <2>10
    <2> QED BY <2>11, <2>12, Balance DEF Sound
  <1> QED BY <1>11, <1>12, <1>14, <1>15, BalanceAll DEF Sound

-----------------------------------------------------------------------------
(* The other steps. *)

\* The parts of Exact that most steps leave alone.
LEMMA ParentsSame ==
    ASSUME cont' = cont, flushes' = flushes
    PROVE  \A y \in Tasks : (Attached(y)' <=> Attached(y)) /\ ByParent(y)' = ByParent(y)
  <1>1. \A y \in Tasks : Attached(y)' <=> Attached(y)
    BY DEF Attached
  <1> QED BY <1>1 DEF ByParent, One

\* No task begins or ends to wait for another that it returned.
LEMMA UnwrappersSame ==
    ASSUME \A c \in Tasks : state'[c] = "unwrapped" <=> state[c] = "unwrapped"
    PROVE  \A y \in Tasks : /\ ByUnwrapping(y)' = ByUnwrapping(y)
                            /\ ByUnwrappers(y)' = ByUnwrappers(y)
  BY DEF ByUnwrapping, ByUnwrappers, Unwrappers, One

\* A new task is finite news.
LEMMA CreatedFinite ==
    ASSUME Types, Sound, NEW t \in Tasks, NEW s, state' = [state EXCEPT ![t] = s]
    PROVE  IsFiniteSet(Created')
  <1>1. Created' \subseteq Created \union {t}
    BY DEF Created, Types
  <1>2. IsFiniteSet(Created \union {t})
    BY FS_AddElement DEF Sound, Shape
  <1> QED BY <1>1, <1>2, FS_Subset

\* What is known of a task that is not there yet: nothing refers to it.
LEMMA Unborn ==
    ASSUME Types, Sound, NEW t \in Tasks, state[t] = "none"
    PROVE  /\ ~ user[t] /\ held[t] = 0 /\ todo[t] = 0 /\ ~ freed[t] /\ cont[t] = {}
           /\ flushes[t] = 0 /\ destroys[t] = 0 /\ ~ Attached(t)
           /\ \A p \in Tasks : t \notin cont[p]
  <1>1. ~ user[t] /\ held[t] = 0 /\ todo[t] = 0 /\ ~ freed[t] /\ cont[t] = {}
    BY DEF Sound, Shape
  <1>2. flushes[t] = 0 /\ destroys[t] = 0
    BY <1>1 DEF Sound, Settled, Ready, Final, One
  <1>3. \A p \in Tasks : t \notin cont[p]
    BY DEF Sound, Shape
  <1> QED BY <1>1, <1>2, <1>3 DEF Attached

\* spawn() and make_task(): a task without a parent comes into being, in state s,
\* with u task objects and h run handles, and its function destroyed k times.
Creates(t, s, u, h, k) ==
    /\ state[t] = "none" /\ Parent[t] = None
    /\ s \in {"pending"} \union Final /\ u \in {0, 1} /\ h \in {0, 1} /\ k \in {0, 1}
    /\ h = 1 => s = "pending"
    /\ k = 1 <=> s \in Final /\ t \notin Made
    /\ t \in Made => s \in Final
    /\ state' = [state EXCEPT ![t] = s]
    /\ user' = [user EXCEPT ![t] = (u = 1)]
    /\ held' = [held EXCEPT ![t] = h]
    /\ refs' = [y \in Tasks |-> refs[y] + Ref(t, u + h)[y]]
    /\ destroys' = [destroys EXCEPT ![t] = k] /\ flushes' = [flushes EXCEPT ![t] = k]
    /\ UNCHANGED <<cont, todo, freed, mishaps>>

\* A new task has the references it was made with.
LEMMA NewTask ==
    ASSUME Types, Sound, NEW t \in Tasks, NEW s, NEW u, NEW h, NEW k, Creates(t, s, u, h, k)
    PROVE  Types' /\ Sound'
  <1>0. /\ ~ user[t] /\ held[t] = 0 /\ todo[t] = 0 /\ ~ freed[t] /\ cont[t] = {}
        /\ flushes[t] = 0 /\ destroys[t] = 0 /\ ~ Attached(t)
        /\ \A p \in Tasks : t \notin cont[p]
    BY Unborn DEF Creates
  <1>1. /\ state'[t] = s /\ user'[t] = (u = 1) /\ held'[t] = h /\ destroys'[t] = k /\ flushes'[t] = k
        /\ cont' = cont /\ todo' = todo /\ freed' = freed /\ mishaps' = mishaps
        /\ \A y \in Tasks : y # t =>
              /\ state'[y] = state[y] /\ user'[y] = user[y] /\ held'[y] = held[y]
              /\ destroys'[y] = destroys[y] /\ flushes'[y] = flushes[y]
        /\ h = 1 => s = "pending"
        /\ k = 1 <=> s \in Final /\ t \notin Made
        /\ t \in Made => s \in Final
        /\ s \in {"pending"} \union Final /\ u \in {0, 1} /\ h \in {0, 1} /\ k \in {0, 1}
    BY DEF Types, Creates
  <1>2. \A y \in Tasks : refs'[y] = refs[y] + (IF y = t THEN u + h ELSE 0)
    BY DEF Ref, Creates
  <1>3. Types'
    <2>1. \A y \in Tasks : refs[y] + Ref(t, u + h)[y] \in Int
      BY <1>1 DEF Types, Ref
    <2>2. refs' \in [Tasks -> Int]
      BY <2>1 DEF Creates
    <2>3. /\ state' \in [Tasks -> {"none", "pending", "unwrapped"} \union Final]
          /\ user' \in [Tasks -> BOOLEAN]
      BY <1>1 DEF Types, Creates
    <2>4. /\ held' \in [Tasks -> Nat] /\ destroys' \in [Tasks -> Nat]
          /\ flushes' \in [Tasks -> Nat]
      BY <1>1 DEF Types, Creates
    <2> QED BY <2>2, <2>3, <2>4, <1>1 DEF Types
  <1>4. Settled'
    BY <1>0, <1>1 DEF Sound, Settled, Ready, Final, One
  <1>5. \A y \in Tasks : Attached(y)' <=> Attached(y)
    <2>1. \A y, p \in Tasks : y \in cont[p] => flushes'[p] = flushes[p]
      BY <1>0, <1>1
    <2> QED BY <1>1, <2>1 DEF Attached
  <1>6. Shape'
    <2>1. \A y, p \in Tasks : y \in cont'[p] =>
              /\ Parent[y] = p /\ state'[y] # "none" /\ state'[p] # "none"
              /\ flushes'[p] = 0 => state'[y] = "pending" /\ ~ freed'[y] /\ ~ freed'[p]
      BY <1>0, <1>1 DEF Sound, Shape
    <2>2. \A y \in Tasks :
              /\ state'[y] = "none" =>
                    ~ user'[y] /\ held'[y] = 0 /\ todo'[y] = 0 /\ ~ freed'[y] /\ cont'[y] = {}
              /\ y \in Made => state'[y] \in {"none"} \union Final /\ cont'[y] = {}
              /\ state'[y] = "unwrapped" => Inner[y] \in Tasks
      BY <1>0, <1>1 DEF Sound, Shape, Final
    <2>3. \A y \in Tasks : held'[y] # 0 \/ todo'[y] # 0 =>
              held'[y] + todo'[y] = 1 /\ state'[y] = "pending" /\ ~ Attached(y)'
      BY <1>0, <1>1, <1>5 DEF Sound, Shape
    <2>4. \A y \in Tasks : freed'[y] => refs'[y] = 0
      BY <1>0, <1>1, <1>2 DEF Sound, Shape
    <2>5. IsFiniteSet(Created')
      BY CreatedFinite DEF Creates
    <2> QED BY <2>1, <2>2, <2>3, <2>4, <2>5 DEF Shape
  <1>7. \A y \in Tasks : Balanced(y)'
    <2> SUFFICES ASSUME NEW y \in Tasks PROVE Balanced(y)'
      OBVIOUS
    <2>1. PICK a \in Int, b \in Int, z \in Int :
              z = 0 /\ a = (IF y = t THEN u ELSE 0) /\ b = (IF y = t THEN h ELSE 0)
      BY <1>1
    <2>2. refs'[y] = refs[y] + (a + b)
      BY <1>2, <2>1
    <2>3. ByUser(y)' = ByUser(y) + a
      <3>1. CASE y = t
        <4>1. ~ user[y] /\ (user'[y] <=> u = 1)
          BY <1>0, <1>1, <3>1
        <4>2. ByUser(y) = 0 /\ ByUser(y)' = u
          BY <1>1, <4>1 DEF ByUser, One
        <4> QED BY <1>1, <2>1, <3>1, <4>2
      <3>2. CASE y # t
        <4>1. ByUser(y)' = ByUser(y) /\ ByUser(y) \in Int
          BY <1>1, <3>2 DEF ByUser, One
        <4> QED BY <2>1, <3>2, <4>1
      <3> QED BY <3>1, <3>2
    <2>4. held'[y] = held[y] + b
      BY <1>0, <1>1, <2>1 DEF Types
    <2>5. ByParent(y)' = ByParent(y) /\ ByParent(y) \in Int
      BY <1>5, Numbers DEF ByParent, One
    <2>6. ByKids(y)' = ByKids(y) /\ ByKids(y) \in Int
      <3>1. Kids(y)' = Kids(y)
        <4>1. t \notin Kids(y) /\ t \notin Kids(y)'
          BY LifecycleAssumption DEF Kids, Creates
        <4>2. \A c \in Tasks : c # t => (c \in Kids(y)' <=> c \in Kids(y))
          BY <1>1 DEF Kids
        <4>3. Kids(y) \subseteq Tasks /\ Kids(y)' \subseteq Tasks
          BY DEF Kids
        <4> QED BY <4>1, <4>2, <4>3
      <3> QED BY <3>1, Numbers DEF ByKids
    <2>7. /\ ByUnwrapping(y)' = ByUnwrapping(y) /\ ByUnwrapping(y) \in Int
          /\ ByUnwrappers(y)' = ByUnwrappers(y) /\ ByUnwrappers(y) \in Int
      <3>1. \A c \in Tasks : state'[c] = "unwrapped" <=> state[c] = "unwrapped"
        BY <1>1 DEF Final, Creates
      <3> QED BY <3>1, UnwrappersSame, Numbers
    <2>8. todo'[y] = todo[y] /\ todo[y] \in Int
      BY <1>1, Numbers
    <2>9. PICK n \in Int : n = a + b
      OBVIOUS
    <2>10. Moves(y, n, a, b, z, z, z, z, z)
      BY <2>1, <2>2, <2>3, <2>4, <2>5, <2>6, <2>7, <2>8, <2>9 DEF Moves
    <2>11. n = a + b + z + z + z + z + z
      BY <2>1, <2>9
    <2> QED BY <2>10, <2>11, Balance DEF Sound
  <1> QED BY <1>3, <1>4, <1>6, <1>7, BalanceAll DEF Sound

\* spawn(), also when schedule() throws, and make_task().
LEMMA SpawnKeeps ==
    ASSUME Types, Sound, NEW t \in Tasks, Spawn(t) \/ Make(t)
    PROVE  Types' /\ Sound'
  <1>0. state[t] = "none" /\ Parent[t] = None /\ UNCHANGED <<cont, todo, freed, mishaps>>
    BY DEF Spawn, Make
  <1>1. /\ flushes[t] = 0 /\ destroys[t] = 0
        /\ flushes = [flushes EXCEPT ![t] = 0] /\ destroys = [destroys EXCEPT ![t] = 0]
        /\ held = [held EXCEPT ![t] = 0] /\ user = [user EXCEPT ![t] = (0 = 1)]
        /\ [user EXCEPT ![t] = TRUE] = [user EXCEPT ![t] = (1 = 1)]
    <2>1. flushes[t] = 0 /\ destroys[t] = 0 /\ held[t] = 0 /\ user[t] = FALSE
      BY <1>0, Unborn DEF Types
    <2>2. (1 = 1) = TRUE
      OBVIOUS
    <2>3. [user EXCEPT ![t] = TRUE] = [user EXCEPT ![t] = (1 = 1)]
      BY <2>2, Zenon
    <2> QED BY <2>1, <2>3 DEF Types
  <1>2. refs' = [y \in Tasks |-> refs[y] + Ref(t, 0 + 0)[y]] \/ refs' # refs
    <2>1. \A y \in Tasks : refs[y] + Ref(t, 0 + 0)[y] = refs[y]
      BY DEF Ref, Types
    <2> QED BY <2>1 DEF Types
  <1>3. CASE Spawn(t)
    <2>1. t \notin Made
      BY <1>3 DEF Spawn
    <2>2. CASE /\ state' = [state EXCEPT ![t] = "pending"]
               /\ Count(Ref(t, 2))
               /\ user' = [user EXCEPT ![t] = TRUE]
               /\ held' = [held EXCEPT ![t] = 1]
               /\ UNCHANGED <<destroys, flushes>>
      <3>1. 1 + 1 = 2
        OBVIOUS
      <3>2. refs' = [y \in Tasks |-> refs[y] + Ref(t, 1 + 1)[y]]
        BY <2>2, <3>1 DEF Count
      <3>3. Creates(t, "pending", 1, 1, 0)
        BY <1>0, <1>1, <2>1, <2>2, <3>2 DEF Creates, Final
      <3> QED BY <3>3, NewTask
    <2>3. CASE Destroy(t, 1) /\ Settle(t, "canceled", 1) /\ UNCHANGED <<refs, user, held>>
      <3>1. /\ destroys' = [destroys EXCEPT ![t] = 1] /\ flushes' = [flushes EXCEPT ![t] = 1]
            /\ state' = [state EXCEPT ![t] = "canceled"]
        BY <1>1, <2>3 DEF Destroy, Settle
      <3>2. Creates(t, "canceled", 0, 0, 1)
        BY <1>0, <1>1, <1>2, <2>1, <2>3, <3>1 DEF Creates, Final
      <3> QED BY <3>2, NewTask
    <2> QED BY <1>3, <2>2, <2>3 DEF Spawn
  <1>4. CASE Make(t)
    <2>1. PICK s \in Final : state' = [state EXCEPT ![t] = s]
      BY <1>4 DEF Make
    <2>2. 1 + 0 = 1
      OBVIOUS
    <2>3. refs' = [y \in Tasks |-> refs[y] + Ref(t, 1 + 0)[y]]
      BY <1>4, <2>2 DEF Make, Count
    <2>4. /\ user' = [user EXCEPT ![t] = (1 = 1)] /\ held' = [held EXCEPT ![t] = 0]
          /\ destroys' = [destroys EXCEPT ![t] = 0] /\ flushes' = [flushes EXCEPT ![t] = 0]
          /\ t \in Made
      BY <1>1, <1>4 DEF Make
    <2>5. Creates(t, s, 1, 0, 0)
      BY <1>0, <2>1, <2>3, <2>4 DEF Creates
    <2> QED BY <2>5, NewTask
  <1> QED BY <1>3, <1>4

\* The program lets go of a task object.
LEMMA ForgetKeeps ==
    ASSUME Types, Sound, NEW t \in Tasks, Forget(t)
    PROVE  Types' /\ Sound'
  <1>1. /\ user[t] /\ user' = [user EXCEPT ![t] = FALSE]
        /\ \A y \in Tasks : refs'[y] = refs[y] + Ref(t, -1)[y]
        /\ refs' = [y \in Tasks |-> refs[y] + Ref(t, -1)[y]]
        /\ state' = state /\ destroys' = destroys /\ flushes' = flushes /\ cont' = cont
        /\ todo' = todo /\ held' = held /\ freed' = freed /\ mishaps' = mishaps
    BY DEF Forget, Count
  <1>2. \A y \in Tasks : Ref(t, -1)[y] \in Int /\ Ref(t, -1)[y] = IF y = t THEN -1 ELSE 0
    BY DEF Ref
  <1>3. ~ freed[t]
    BY <1>1, Referred DEF Used, Sound
  <1>4. user' \in [Tasks -> BOOLEAN] /\ ~ user'[t] /\ \A y \in Tasks : y # t => user'[y] = user[y]
    BY <1>1 DEF Types
  <1>5. Types'
    <2>1. refs' \in [Tasks -> Int]
      BY <1>1, <1>2 DEF Types
    <2> QED BY <1>1, <1>4, <2>1 DEF Types, Final
  <1>6. \A y \in Tasks : (Attached(y)' <=> Attached(y)) /\ ByParent(y)' = ByParent(y)
    BY <1>1, ParentsSame
  <1>7. Settled'
    BY <1>1 DEF Sound, Settled, Ready
  <1>8. Shape'
    <2>1. Created' = Created
      BY <1>1 DEF Created
    <2>2. \A y \in Tasks : freed[y] => refs'[y] = 0
      BY <1>1, <1>2, <1>3 DEF Sound, Shape
    <2> QED BY <1>1, <1>4, <1>6, <2>1, <2>2 DEF Sound, Shape
  <1>9. \A y \in Tasks : Balanced(y)'
    <2> SUFFICES ASSUME NEW y \in Tasks PROVE Balanced(y)'
      OBVIOUS
    <2>1. PICK a \in Int, z \in Int : a = Ref(t, -1)[y] /\ z = 0
      BY <1>2
    <2>2. ByUser(y)' = ByUser(y) + a
      <3>1. CASE y = t
        <4>1. ByUser(y)' = 0 /\ ByUser(y) = 1
          BY <1>1, <1>4, <3>1 DEF ByUser, One
        <4> QED BY <1>2, <2>1, <3>1, <4>1
      <3>2. CASE y # t
        <4>1. ByUser(y)' = ByUser(y) /\ ByUser(y) \in Int
          BY <1>4, <3>2 DEF ByUser, One
        <4> QED BY <1>2, <2>1, <3>2, <4>1
      <3> QED BY <3>1, <3>2
    <2>3. /\ held'[y] = held[y] /\ todo'[y] = todo[y] /\ ByParent(y)' = ByParent(y)
          /\ ByKids(y)' = ByKids(y)
          /\ ByUnwrapping(y)' = ByUnwrapping(y) /\ ByUnwrappers(y)' = ByUnwrappers(y)
      BY <1>1, <1>6, KidsSame, UnwrappersSame
    <2>4. Moves(y, a, a, z, z, z, z, z, z)
      BY <1>1, <2>1, <2>2, <2>3, Numbers DEF Moves
    <2>5. a = a + z + z + z + z + z + z
      BY <2>1
    <2> QED BY <2>4, <2>5, Balance DEF Sound
  <1> QED BY <1>5, <1>7, <1>8, <1>9, BalanceAll DEF Sound

\* A run handle is made of a call of run_continuation(), or is lost by an
\* assignment: d and h are the changes of the two, n that of the count.
Hands(t, d, h, n) ==
    /\ held[t] # 0 \/ todo[t] # 0
    /\ d \in {-1, 0} /\ h \in {-1, 1} /\ n = d + h /\ todo[t] + d \in Nat /\ held[t] + h \in Nat
    /\ n \in {-1, 0}
    /\ todo' = [todo EXCEPT ![t] = @ + d] /\ held' = [held EXCEPT ![t] = @ + h]
    /\ refs' = [y \in Tasks |-> refs[y] + Ref(t, n)[y]]
    /\ UNCHANGED <<state, destroys, flushes, cont, user, freed>>

\* Handing a task on moves its one reference.
LEMMA HandsKeep ==
    ASSUME Types, Sound, NEW t \in Tasks, NEW d, NEW h, NEW n, Hands(t, d, h, n),
           mishaps' \subseteq {"thrown", "overwritten"}
    PROVE  Types' /\ Sound'
  <1>1. /\ d \in Int /\ h \in Int /\ n \in {-1, 0} /\ n = d + h
        /\ state' = state /\ destroys' = destroys /\ flushes' = flushes /\ cont' = cont
        /\ user' = user /\ freed' = freed
        /\ todo[t] + d \in Nat /\ held[t] + h \in Nat
    BY DEF Hands
  <1>2. \A y \in Tasks : Ref(t, n)[y] \in Int /\ Ref(t, n)[y] = IF y = t THEN n ELSE 0
    BY <1>1 DEF Ref
  <1>3. \A y \in Tasks : refs'[y] = refs[y] + Ref(t, n)[y]
    BY DEF Hands
  <1>4. /\ held[t] + todo[t] = 1 /\ state[t] = "pending" /\ ~ Attached(t) /\ ~ freed[t]
    <2>1. ~ freed[t]
      BY Referred DEF Used, Sound, Hands
    <2> QED BY <2>1 DEF Sound, Shape, Hands
  <1>5. /\ todo'[t] = todo[t] + d /\ held'[t] = held[t] + h
        /\ \A y \in Tasks : y # t => todo'[y] = todo[y] /\ held'[y] = held[y]
    BY DEF Types, Hands
  <1>6. Types'
    <2>1. refs' \in [Tasks -> Int]
      BY <1>2 DEF Types, Hands
    <2>2. todo' \in [Tasks -> Nat] /\ held' \in [Tasks -> Nat]
      BY <1>1 DEF Types, Hands
    <2> QED BY <1>1, <2>1, <2>2 DEF Types, Final
  <1>7. \A y \in Tasks : (Attached(y)' <=> Attached(y)) /\ ByParent(y)' = ByParent(y)
    BY <1>1, ParentsSame
  <1>8. Settled'
    BY <1>1 DEF Sound, Settled, Ready
  <1>9. Shape'
    <2>1. Created' = Created
      BY <1>1 DEF Created
    <2>2. \A y \in Tasks : freed[y] => refs'[y] = 0
      BY <1>2, <1>3, <1>4 DEF Sound, Shape
    <2>3. \A y \in Tasks : held'[y] # 0 \/ todo'[y] # 0 =>
              held'[y] + todo'[y] = 1 /\ state'[y] = "pending" /\ ~ Attached(y)'
      <3>1. held'[t] # 0 \/ todo'[t] # 0 => held'[t] + todo'[t] = 1
        <4>1. PICK a \in Nat, b \in Nat : a = held[t] /\ b = todo[t]
          BY DEF Types
        <4>2. a + b = 1 /\ a + h \in Nat /\ b + d \in Nat /\ d + h \in {-1, 0}
          BY <4>1, <1>1, <1>4
        <4>3. a + h # 0 \/ b + d # 0 => (a + h) + (b + d) = 1
          BY <4>2, <1>1
        <4> QED BY <4>1, <4>3, <1>5
      <3> QED BY <1>1, <1>4, <1>5, <1>7, <3>1 DEF Sound, Shape
    <2>4. \A y \in Tasks : state[y] = "none" =>
              ~ user[y] /\ held'[y] = 0 /\ todo'[y] = 0 /\ ~ freed[y] /\ cont[y] = {}
      BY <1>4, <1>5 DEF Sound, Shape
    <2> QED BY <1>1, <2>1, <2>2, <2>3, <2>4 DEF Sound, Shape
  <1>10. \A y \in Tasks : Balanced(y)'
    <2> SUFFICES ASSUME NEW y \in Tasks PROVE Balanced(y)'
      OBVIOUS
    <2>1. PICK a \in Int, b \in Int, c \in Int, z \in Int :
              /\ a = Ref(t, n)[y] /\ z = 0
              /\ b = (IF y = t THEN h ELSE 0) /\ c = (IF y = t THEN d ELSE 0)
      BY <1>1, <1>2
    <2>2. held'[y] = held[y] + b /\ todo'[y] = todo[y] + c
      BY <1>5, <2>1, Numbers
    <2>3. /\ ByUser(y)' = ByUser(y) /\ ByParent(y)' = ByParent(y) /\ ByKids(y)' = ByKids(y)
          /\ ByUnwrapping(y)' = ByUnwrapping(y) /\ ByUnwrappers(y)' = ByUnwrappers(y)
      BY <1>1, <1>7, KidsSame, UnwrappersSame DEF ByUser
    <2>4. Moves(y, a, z, b, c, z, z, z, z)
      BY <1>3, <2>1, <2>2, <2>3, Numbers DEF Moves
    <2>5. a = z + b + c + z + z + z + z
      BY <1>1, <1>2, <2>1
    <2> QED BY <2>4, <2>5, Balance DEF Sound
  <1> QED BY <1>6, <1>8, <1>9, <1>10, BalanceAll DEF Sound

\* schedule() may throw a continuation back: the count is then only a number.
LEMMA ScheduleKeeps ==
    ASSUME Types, Sound, NEW t \in Tasks, Schedule(t)
    PROVE  Types' /\ (Defined' => Sound')
  <1>1. CASE /\ todo' = [todo EXCEPT ![t] = @ - 1]
             /\ held' = [held EXCEPT ![t] = @ + 1]
             /\ UNCHANGED <<objects, mishaps, user, freed>>
    <2>1. todo[t] \in Nat /\ held[t] \in Nat /\ todo[t] > 0 /\ held[t] + 1 \in Nat /\ todo[t] + (-1) \in Nat
      BY DEF Schedule, Types
    <2>2. todo' = [todo EXCEPT ![t] = @ + (-1)]
      <3>1. todo[t] - 1 = todo[t] + (-1)
        BY <2>1
      <3> QED BY <1>1, <3>1
    <2>3. refs' = [y \in Tasks |-> refs[y] + Ref(t, 0)[y]]
      <3>1. \A y \in Tasks : refs[y] + Ref(t, 0)[y] = refs[y]
        BY DEF Ref, Types
      <3> QED BY <1>1, <3>1 DEF Types, objects
    <2>4. Hands(t, -1, 1, 0)
      <3>1. /\ -1 \in {-1, 0} /\ 1 \in {-1, 1} /\ 0 = (-1) + 1 /\ 0 \in {-1, 0}
            /\ todo[t] # 0 /\ todo[t] + (-1) \in Nat /\ held[t] + 1 \in Nat
        BY <2>1
      <3>2. UNCHANGED <<state, destroys, flushes, cont, user, freed>>
        BY <1>1 DEF objects
      <3>3. held' = [held EXCEPT ![t] = @ + 1]
        BY <1>1
      <3> QED BY <2>2, <2>3, <3>1, <3>2, <3>3, Zenon DEF Hands
    <2> QED BY <1>1, <2>4, HandsKeep DEF Types
  <1>2. CASE mishaps' = mishaps \union {"thrown"}
    <2>1. ~ Defined'
      BY <1>2 DEF Defined
    <2>2. /\ "thrown" \notin mishaps /\ todo[t] > 0 /\ todo[t] \in Nat /\ held[t] \in Nat
      BY DEF Schedule, Types, Defined
    <2>3. mishaps' # mishaps
      BY <1>2, <2>2
    <2>4. /\ Destroy(t, 2) /\ Settle(t, "canceled", 2)
          /\ todo' = [y \in Tasks |-> todo[y] + Pass(t, 2)[y] - Ref(t, 1)[y]]
          /\ Count(Plus(Ref(t, -1), Plus(DropFunc(t), DropFunc(t))))
          /\ UNCHANGED <<held, cont, user, freed>>
      BY <2>3 DEF Schedule
    <2>5. refs' \in [Tasks -> Int]
      <3>1. \A y \in Tasks : Plus(Ref(t, -1), Plus(DropFunc(t), DropFunc(t)))[y] \in Int
        BY DEF Plus, Ref, DropFunc
      <3>2. \A y \in Tasks : refs[y] + Plus(Ref(t, -1), Plus(DropFunc(t), DropFunc(t)))[y] \in Int
        BY <3>1 DEF Types
      <3> QED BY <2>4, <3>2 DEF Count
    <2>6. todo' \in [Tasks -> Nat]
      <3>1. \A y \in Tasks : Pass(t, 2)[y] \in Nat
        BY DEF Pass
      <3>2. \A y \in Tasks : Ref(t, 1)[y] = IF y = t THEN 1 ELSE 0
        BY DEF Ref
      <3>3. \A y \in Tasks : todo[y] + Pass(t, 2)[y] - Ref(t, 1)[y] \in Nat
        BY <2>2, <3>1, <3>2 DEF Types
      <3> QED BY <2>4, <3>3
    <2>7. /\ state' \in [Tasks -> {"none", "pending", "unwrapped"} \union Final]
          /\ destroys' \in [Tasks -> Nat] /\ flushes' \in [Tasks -> Nat]
      BY <2>4 DEF Destroy, Settle, Types, Final
    <2> QED BY <1>2, <2>1, <2>4, <2>5, <2>6, <2>7 DEF Types
  <1> QED BY <1>1, <1>2 DEF Schedule

\* A run handle is overwritten.
LEMMA OverwriteKeeps ==
    ASSUME Types, Sound, NEW t \in Tasks, Overwrite(t)
    PROVE  Types' /\ Sound'
  <1>1. held[t] \in Nat /\ held[t] > 0 /\ todo[t] \in Nat /\ mishaps' = mishaps \union {"overwritten"}
    BY DEF Overwrite, Types
  <1>2. held' = [held EXCEPT ![t] = @ + (-1)]
    <2>1. held[t] - 1 = held[t] + (-1)
      BY <1>1
    <2> QED BY <2>1 DEF Overwrite, Release
  <1>3. todo' = [todo EXCEPT ![t] = @ + 0]
    <2>1. todo[t] + 0 = todo[t]
      BY <1>1
    <2> QED BY <2>1 DEF Overwrite, Types
  <1>4. Hands(t, 0, -1, -1)
    <2>1. /\ 0 \in {-1, 0} /\ -1 \in {-1, 1} /\ -1 = 0 + (-1) /\ -1 \in {-1, 0}
          /\ held[t] # 0 /\ todo[t] + 0 \in Nat /\ held[t] + (-1) \in Nat
      BY <1>1
    <2>2. /\ UNCHANGED <<state, destroys, flushes, cont, user, freed>>
          /\ refs' = [y \in Tasks |-> refs[y] + Ref(t, -1)[y]]
      BY DEF Overwrite, Count
    <2> QED BY <1>2, <1>3, <2>1, <2>2, Zenon DEF Hands
  <1> QED BY <1>1, <1>4, HandsKeep DEF Types

\* Nothing refers to a task that is deleted: no continuation is left in its vector.
LEMMA DeleteKeeps ==
    ASSUME Types, Sound, NEW t \in Tasks, Delete(t)
    PROVE  Types' /\ Sound'
  <1>1. /\ state[t] # "none" /\ ~ freed[t] /\ refs[t] = 0
        /\ freed' = [freed EXCEPT ![t] = TRUE]
        /\ state' = state /\ flushes' = flushes /\ cont' = cont /\ mishaps' = mishaps
        /\ user' = user /\ todo' = todo /\ held' = held
    BY DEF Delete, Live, places
  <1>2. ~ Used(t)
    BY <1>1, Referred DEF Sound
  <1>3. /\ ~ user[t] /\ held[t] = 0 /\ todo[t] = 0 /\ state[t] # "unwrapped" /\ ~ Attached(t)
        /\ Kids(t) = {}
    BY <1>2 DEF Used
  <1>4. flushes[t] = 0 => cont[t] = {}
    <2> SUFFICES ASSUME flushes[t] = 0, NEW y \in cont[t] PROVE FALSE
      OBVIOUS
    <2>1. y \in Tasks
      BY DEF Types
    <2>2. Parent[y] = t /\ state[y] = "pending" /\ ~ freed[y]
      BY <2>1 DEF Sound, Shape
    <2>3. destroys[y] = 0
      BY <2>1, <2>2 DEF Sound, Settled, Ready, Final, One
    <2> QED BY <1>3, <2>1, <2>2, <2>3 DEF Kids
  <1>5. state[t] = "pending" => destroys[t] = 0 /\ t \notin Made
    BY <1>1 DEF Sound, Settled, Shape, Ready, Final, One
  <1>6. \A y \in Tasks :
            (IF flushes[t] = 0 THEN [x \in Tasks |-> IF x \in cont[t] THEN -1 ELSE 0] ELSE NoRef)[y] = 0
    BY <1>4 DEF NoRef
  <1>7. PICK d \in [Tasks -> Int] :
            /\ d = IF state[t] = "pending" THEN DropFunc(t) ELSE NoRef
            /\ state[t] # "pending" => \A y \in Tasks : d[y] = 0
    <2>1. DropFunc(t) \in [Tasks -> Int]
      BY DEF DropFunc, Ref
    <2>2. NoRef \in [Tasks -> Int] /\ \A y \in Tasks : NoRef[y] = 0
      BY DEF NoRef
    <2>3. (IF state[t] = "pending" THEN DropFunc(t) ELSE NoRef) \in [Tasks -> Int]
      BY <2>1, <2>2
    <2>4. state[t] # "pending" =>
              \A y \in Tasks : (IF state[t] = "pending" THEN DropFunc(t) ELSE NoRef)[y] = 0
      BY <2>2
    <2> QED BY <2>3, <2>4
  <1>8. \A y \in Tasks : refs'[y] = refs[y] + d[y]
    <2>1. \A y \in Tasks : refs'[y] = refs[y] + (d[y] +
              (IF flushes[t] = 0 THEN [x \in Tasks |-> IF x \in cont[t] THEN -1 ELSE 0] ELSE NoRef)[y])
      BY <1>7 DEF Delete, Count, Plus
    <2> QED BY <2>1, <1>6
  <1>9. refs' \in [Tasks -> Int]
    <2>1. refs' = [y \in Tasks |-> refs'[y]]
      BY DEF Delete, Count
    <2>2. \A y \in Tasks : refs'[y] \in Int
      BY <1>8 DEF Types
    <2> QED BY <2>1, <2>2
  <1>10. /\ state[t] = "pending" => destroys' = [destroys EXCEPT ![t] = @ + 1]
         /\ state[t] # "pending" => destroys' = destroys
    BY DEF Delete, Destroy
  <1>11. freed'[t] /\ \A y \in Tasks : y # t => freed'[y] = freed[y]
    BY <1>1 DEF Types
  <1>12. Types'
    <2>1. destroys' \in [Tasks -> Nat] /\ freed' \in [Tasks -> BOOLEAN]
      BY <1>1, <1>10 DEF Types
    <2> QED BY <1>1, <1>9, <2>1 DEF Types, Final
  <1>13. \A y \in Tasks : (Attached(y)' <=> Attached(y)) /\ ByParent(y)' = ByParent(y)
    BY <1>1, ParentsSame
  <1>14. Settled'
    <2>1. /\ state[t] = "pending" => destroys'[t] = 1 /\ t \notin Made
          /\ state[t] # "pending" => destroys'[t] = destroys[t] /\ state[t] \in Final
          /\ \A y \in Tasks : y # t => destroys'[y] = destroys[y]
      BY <1>1, <1>3, <1>5, <1>10 DEF Types
    <2> QED BY <1>1, <1>11, <2>1 DEF Sound, Settled, Ready, Final, One
  <1>15. Shape'
    <2>1. Created' = Created
      BY <1>1 DEF Created
    <2>2. \A y \in Tasks : freed'[y] => refs'[y] = 0
      <3> SUFFICES ASSUME NEW y \in Tasks, freed'[y] PROVE refs'[y] = 0
        OBVIOUS
      <3>1. refs[y] = 0 /\ (y = t \/ freed[y])
        BY <1>1, <1>11 DEF Sound, Shape
      <3>2. d[y] = 0
        <4>1. CASE state[t] = "pending"
          <5>1. y # Parent[t]
            BY <1>1, <1>5, <3>1, <4>1, ParentExists
          <5> QED BY <1>7, <4>1, <5>1, DropValues
        <4>2. CASE state[t] # "pending"
          BY <1>7, <4>2
        <4> QED BY <4>1, <4>2
      <3> QED BY <1>8, <3>1, <3>2
    <2>3. \A y, p \in Tasks : y \in cont[p] /\ flushes[p] = 0 => ~ freed'[y] /\ ~ freed'[p]
      BY <1>3, <1>4, <1>11 DEF Sound, Shape, Attached
    <2>4. \A y \in Tasks : state[y] = "none" => ~ freed'[y]
      BY <1>1, <1>11 DEF Sound, Shape
    <2> QED BY <1>1, <1>13, <2>1, <2>2, <2>3, <2>4 DEF Sound, Shape
  <1>16. \A y \in Tasks : Balanced(y)'
    <2> SUFFICES ASSUME NEW y \in Tasks PROVE Balanced(y)'
      OBVIOUS
    <2>1. ByKids(y)' = ByKids(y) + d[y]
      <3>1. CASE state[t] = "pending"
        <4>1. destroys' = [destroys EXCEPT ![t] = @ + 1] /\ destroys[t] = 0
          BY <1>5, <1>10, <3>1
        <4>2. ByKids(y)' = ByKids(y) + DropFunc(t)[y]
          BY <1>1, <4>1, KidsDrop
        <4> QED BY <1>7, <3>1, <4>2
      <3>2. CASE state[t] # "pending"
        <4>1. ByKids(y)' = ByKids(y)
          BY <1>1, <1>10, <3>2, KidsSame
        <4>2. d[y] = 0 /\ ByKids(y) \in Int
          BY <1>7, <3>2, Numbers
        <4> QED BY <4>1, <4>2
      <3> QED BY <3>1, <3>2
    <2>2. PICK a \in Int, z \in Int : a = d[y] /\ z = 0
      OBVIOUS
    <2>3. /\ ByUser(y)' = ByUser(y) /\ held'[y] = held[y] /\ todo'[y] = todo[y]
          /\ ByParent(y)' = ByParent(y)
          /\ ByUnwrapping(y)' = ByUnwrapping(y) /\ ByUnwrappers(y)' = ByUnwrappers(y)
      BY <1>1, <1>13, UnwrappersSame DEF ByUser
    <2>4. Moves(y, a, z, z, z, z, z, a, z)
      BY <1>8, <2>1, <2>2, <2>3, Numbers DEF Moves
    <2>5. a = z + z + z + z + z + a + z
      BY <2>2
    <2> QED BY <2>4, <2>5, Balance DEF Sound
  <1> QED BY <1>12, <1>14, <1>15, <1>16, BalanceAll DEF Sound

\* then(): the new task holds its parent, and waits in its vector or is about to
\* be scheduled.
LEMMA ThenKeeps ==
    ASSUME Types, Sound, NEW t \in Tasks, Then(t)
    PROVE  Types' /\ Sound'
  <1>1. PICK p \in Tasks : p = Parent[t]
    BY LifecycleAssumption DEF Then
  <1>2. /\ state[t] = "none" /\ user[p] /\ state[p] # "none" /\ ~ freed[p] /\ t # p
        /\ state' = [state EXCEPT ![t] = "pending"]
        /\ user' = [user EXCEPT ![t] = TRUE, ![p] = p \in Shared]
        /\ destroys' = destroys /\ flushes' = flushes /\ held' = held /\ freed' = freed
        /\ mishaps' = mishaps
    BY <1>1 DEF Then, Live
  <1>3. /\ Ready(p) => todo' = [todo EXCEPT ![t] = @ + 1] /\ cont' = cont
        /\ ~ Ready(p) => cont' = [cont EXCEPT ![p] = @ \union {t}] /\ todo' = todo
    BY <1>1 DEF Then
  <1>4. /\ ~ user[t] /\ held[t] = 0 /\ todo[t] = 0 /\ ~ freed[t] /\ cont[t] = {}
        /\ flushes[t] = 0 /\ destroys[t] = 0 /\ ~ Attached(t)
        /\ \A x \in Tasks : t \notin cont[x]
    BY <1>2, Unborn
  <1>5. t \notin Made
    BY <1>1, LifecycleAssumption
  <1>6. ~ Ready(p) => flushes[p] = 0 /\ p \notin Made
    BY <1>2 DEF Sound, Settled, Shape, Ready, One
  <1>7. Copies(p) \in {0, 1} /\ (Copies(p) = 1 <=> p \in Shared)
    BY DEF Copies
  <1>8. \A y \in Tasks :
            refs'[y] = refs[y] + (Ref(t, 2)[y] + Ref(p, Copies(p))[y])
    BY <1>1 DEF Then, Count, Plus
  <1>9. \A y \in Tasks : /\ Ref(t, 2)[y] = IF y = t THEN 2 ELSE 0
                         /\ Ref(p, Copies(p))[y] = IF y = p THEN Copies(p) ELSE 0
    BY DEF Ref
  <1>10. refs' \in [Tasks -> Int]
    <2>1. refs' = [y \in Tasks |-> refs'[y]]
      BY DEF Then, Count
    <2>2. \A y \in Tasks : refs'[y] \in Int
      BY <1>7, <1>8, <1>9 DEF Types
    <2> QED BY <2>1, <2>2
  <1>11. /\ user' \in [Tasks -> BOOLEAN] /\ user'[t] /\ (user'[p] <=> p \in Shared)
         /\ \A y \in Tasks : y # t /\ y # p => user'[y] = user[y]
    <2>1. PICK b \in BOOLEAN : b <=> p \in Shared
      OBVIOUS
    <2>2. user \in [Tasks -> BOOLEAN]
      BY DEF Types
    <2>3. user' = [user EXCEPT ![t] = TRUE, ![p] = b]
      BY <1>2, <2>1
    <2>4. user' \in [Tasks -> BOOLEAN]
      BY <2>2, <2>3
    <2>5. user'[p] = b
      BY <1>2, <2>2, <2>3
    <2>6. user'[t] = TRUE
      BY <1>2, <2>2, <2>3
    <2>7. \A y \in Tasks : y # t /\ y # p => user'[y] = user[y]
      BY <1>2, <2>2, <2>3
    <2> QED BY <2>1, <2>4, <2>5, <2>6, <2>7
  <1>12. state'[t] = "pending" /\ \A y \in Tasks : y # t => state'[y] = state[y]
    BY <1>2 DEF Types
  <1>13. /\ Ready(p) => todo'[t] = 1
         /\ ~ Ready(p) => todo'[t] = 0 /\ cont'[p] = cont[p] \union {t}
         /\ \A y \in Tasks : y # t => todo'[y] = todo[y]
         /\ \A y \in Tasks : y # p \/ Ready(p) => cont'[y] = cont[y]
    BY <1>3, <1>4 DEF Types
  <1>14. Types'
    <2>1. todo' \in [Tasks -> Nat] /\ cont' \in [Tasks -> SUBSET Tasks]
      BY <1>3 DEF Types
    <2>2. state' \in [Tasks -> {"none", "pending", "unwrapped"} \union Final]
      BY <1>2 DEF Types
    <2> QED BY <1>2, <1>10, <1>11, <2>1, <2>2 DEF Types
  <1>15. \A y \in Tasks : Attached(y)' <=> Attached(y) \/ (y = t /\ ~ Ready(p))
    <2>1. \A y, x \in Tasks : y \in cont'[x] <=> y \in cont[x] \/ (y = t /\ x = p /\ ~ Ready(p))
      BY <1>13 DEF Types
    <2>2. \A y \in Tasks : Attached(y)' <=> \E x \in Tasks : y \in cont'[x] /\ flushes[x] = 0
      BY <1>2 DEF Attached
    <2> QED BY <1>6, <2>1, <2>2 DEF Attached
  <1>16. Settled'
    BY <1>2, <1>4, <1>12 DEF Sound, Settled, Ready, Final, One
  <1>17. Shape'
    <2>1. IsFiniteSet(Created')
      BY <1>2, CreatedFinite
    <2>2. \A y, x \in Tasks : y \in cont'[x] =>
              /\ Parent[y] = x /\ state'[y] # "none" /\ state'[x] # "none"
              /\ flushes'[x] = 0 => state'[y] = "pending" /\ ~ freed'[y] /\ ~ freed'[x]
      <3> SUFFICES ASSUME NEW y \in Tasks, NEW x \in Tasks, y \in cont'[x]
                   PROVE  /\ Parent[y] = x /\ state'[y] # "none" /\ state'[x] # "none"
                          /\ flushes[x] = 0 => state'[y] = "pending" /\ ~ freed[y] /\ ~ freed[x]
        BY <1>2
      <3>1. CASE y = t
        <4>1. x = p
          BY <1>4, <1>13, <3>1
        <4> QED BY <1>1, <1>2, <1>4, <1>12, <3>1, <4>1
      <3>2. CASE y # t
        <4>1. y \in cont[x]
          BY <1>13, <3>2
        <4>2. /\ Parent[y] = x /\ state[y] # "none" /\ state[x] # "none"
              /\ flushes[x] = 0 => state[y] = "pending" /\ ~ freed[y] /\ ~ freed[x]
          BY <4>1 DEF Sound, Shape
        <4> QED BY <1>2, <1>12, <3>2, <4>2
      <3> QED BY <3>1, <3>2
    <2>3. \A y \in Tasks : state'[y] = "none" =>
              ~ user'[y] /\ held'[y] = 0 /\ todo'[y] = 0 /\ ~ freed'[y] /\ cont'[y] = {}
      <3> SUFFICES ASSUME NEW y \in Tasks, state'[y] = "none"
                   PROVE  ~ user'[y] /\ held[y] = 0 /\ todo'[y] = 0 /\ ~ freed[y] /\ cont'[y] = {}
        BY <1>2
      <3>1. y # t /\ y # p /\ state[y] = "none"
        BY <1>2, <1>12
      <3>2. ~ user[y] /\ held[y] = 0 /\ todo[y] = 0 /\ ~ freed[y] /\ cont[y] = {}
        BY <3>1 DEF Sound, Shape
      <3> QED BY <1>11, <1>13, <3>1, <3>2
    <2>4. \A y \in Tasks : held'[y] # 0 \/ todo'[y] # 0 =>
              held'[y] + todo'[y] = 1 /\ state'[y] = "pending" /\ ~ Attached(y)'
      <3> SUFFICES ASSUME NEW y \in Tasks, held[y] # 0 \/ todo'[y] # 0
                   PROVE  held[y] + todo'[y] = 1 /\ state'[y] = "pending" /\ ~ Attached(y)'
        BY <1>2
      <3>1. CASE y = t
        BY <1>4, <1>12, <1>13, <1>15, <3>1
      <3>2. CASE y # t
        <4>1. held[y] # 0 \/ todo[y] # 0
          BY <1>13, <3>2
        <4>2. held[y] + todo[y] = 1 /\ state[y] = "pending" /\ ~ Attached(y)
          BY <4>1 DEF Sound, Shape
        <4> QED BY <1>12, <1>13, <1>15, <3>2, <4>2
      <3> QED BY <3>1, <3>2
    <2>5. \A y \in Tasks :
              /\ y \in Made => state'[y] \in {"none"} \union Final /\ cont'[y] = {}
              /\ state'[y] = "unwrapped" => Inner[y] \in Tasks
      BY <1>5, <1>6, <1>12, <1>13 DEF Sound, Shape
    <2>6. \A y \in Tasks : freed'[y] => refs'[y] = 0
      BY <1>2, <1>4, <1>8, <1>9 DEF Sound, Shape
    <2> QED BY <2>1, <2>2, <2>3, <2>4, <2>5, <2>6 DEF Shape
  <1>18. \A y \in Tasks : Balanced(y)'
    <2> SUFFICES ASSUME NEW y \in Tasks PROVE Balanced(y)'
      OBVIOUS
    <2>1. PICK a \in Int, b \in Int, c \in Int, e \in Int, k \in Int, z \in Int :
              /\ a = (IF y = t THEN 1 ELSE 0)
              /\ b = (IF y = p THEN Copies(p) - 1 ELSE 0)
              /\ k = (IF y = p THEN 1 ELSE 0)
              /\ c = (IF y = t /\ Ready(p) THEN 1 ELSE 0)
              /\ e = (IF y = t /\ ~ Ready(p) THEN 1 ELSE 0)
              /\ z = 0
      BY <1>7
    <2>2. PICK n \in Int, u \in Int : n = a + b + c + e + k /\ u = a + b
      OBVIOUS
    <2>3. refs'[y] = refs[y] + n
      <3>1. Ref(t, 2)[y] + Ref(p, Copies(p))[y] = n
        BY <1>2, <1>7, <1>9, <2>1, <2>2
      <3> QED BY <1>8, <3>1
    <2>4. ByUser(y)' = ByUser(y) + u
      <3>1. CASE y = t
        <4>1. ByUser(y) = 0 /\ ByUser(y)' = 1
          BY <1>4, <1>11, <3>1 DEF ByUser, One
        <4> QED BY <1>2, <2>1, <2>2, <3>1, <4>1
      <3>2. CASE y = p
        <4>1. ByUser(y) = 1 /\ ByUser(y)' = Copies(p)
          BY <1>2, <1>7, <1>11, <3>2 DEF ByUser, One
        <4> QED BY <1>2, <1>7, <2>1, <2>2, <3>2, <4>1
      <3>3. CASE y # t /\ y # p
        <4>1. ByUser(y)' = ByUser(y) /\ ByUser(y) \in Int
          BY <1>11, <3>3 DEF ByUser, One
        <4> QED BY <2>1, <2>2, <3>3, <4>1
      <3> QED BY <3>1, <3>2, <3>3
    <2>5. held'[y] = held[y] + z
      BY <1>2, <2>1, Numbers
    <2>6. todo'[y] = todo[y] + c
      <3>1. CASE y = t
        BY <1>4, <1>13, <2>1, <3>1
      <3>2. CASE y # t
        <4>1. todo'[y] = todo[y] /\ todo[y] \in Int
          BY <1>13, <3>2, Numbers
        <4> QED BY <2>1, <3>2, <4>1
      <3> QED BY <3>1, <3>2
    <2>7. ByParent(y)' = ByParent(y) + e
      <3>1. CASE y = t /\ ~ Ready(p)
        <4>1. Attached(y)' /\ ~ Attached(y)
          BY <1>4, <1>15, <3>1
        <4>2. ByParent(y)' = 1 /\ ByParent(y) = 0
          BY <4>1 DEF ByParent, One
        <4> QED BY <2>1, <3>1, <4>2
      <3>2. CASE ~ (y = t /\ ~ Ready(p))
        <4>1. Attached(y)' <=> Attached(y)
          BY <1>15, <3>2
        <4>2. ByParent(y)' = ByParent(y) /\ ByParent(y) \in Int
          BY <4>1 DEF ByParent, One
        <4> QED BY <2>1, <3>2, <4>2
      <3> QED BY <3>1, <3>2
    <2>8. ByKids(y)' = ByKids(y) + k
      <3>1. ByKids(y)' = ByKids(y) + (IF Parent[t] = y THEN 1 ELSE 0)
        BY <1>2, KidsAdd DEF Sound
      <3> QED BY <1>1, <2>1, <3>1
    <2>9. /\ ByUnwrapping(y)' = ByUnwrapping(y) + z /\ ByUnwrappers(y)' = ByUnwrappers(y) + z
      <3>1. \A c2 \in Tasks : state'[c2] = "unwrapped" <=> state[c2] = "unwrapped"
        BY <1>2, <1>12
      <3>2. ByUnwrapping(y)' = ByUnwrapping(y) /\ ByUnwrappers(y)' = ByUnwrappers(y)
        BY <3>1, UnwrappersSame
      <3> QED BY <2>1, <3>2, Numbers
    <2>10. Moves(y, n, u, z, c, z, e, k, z)
      BY <2>3, <2>4, <2>5, <2>6, <2>7, <2>8, <2>9 DEF Moves
    <2>11. n = u + z + c + z + e + k + z
      BY <2>1, <2>2
    <2> QED BY <2>10, <2>11, Balance DEF Sound
  <1> QED BY <1>14, <1>16, <1>17, <1>18, BalanceAll DEF Sound

-----------------------------------------------------------------------------
(* The theorems. *)

\* No task exists at first.
LEMMA InitInv == Init => IInv
  <1> SUFFICES ASSUME Init PROVE IInv
    OBVIOUS
  <1>1. Types
    BY DEF Init, Types, Final
  <1>2. Settled
    BY DEF Init, Settled, Ready, Final, One
  <1>3. \A t \in Tasks : Kids(t) = {} /\ Unwrappers(t) = {} /\ ~ Attached(t)
    BY DEF Init, Kids, Unwrappers, Attached
  <1>4. Created = {}
    BY DEF Init, Created
  <1>5. Shape
    BY <1>3, <1>4, FS_EmptySet DEF Init, Shape
  <1>6. Exact
    <2> SUFFICES ASSUME NEW t \in Tasks
                 PROVE  refs[t] = ByUser(t) + held[t] + todo[t] + ByUnwrapping(t) + ByParent(t)
                                  + ByKids(t) + ByUnwrappers(t)
      BY DEF Exact
    <2>1. ByKids(t) = 0 /\ ByUnwrappers(t) = 0
      BY <1>3, FS_EmptySet DEF ByKids, ByUnwrappers
    <2>2. ByUser(t) = 0 /\ ByUnwrapping(t) = 0 /\ ByParent(t) = 0
      BY <1>3 DEF Init, ByUser, ByUnwrapping, ByParent, One
    <2>3. refs[t] = 0 /\ held[t] = 0 /\ todo[t] = 0
      BY DEF Init
    <2> QED BY <2>1, <2>2, <2>3
  <1> QED BY <1>1, <1>2, <1>5, <1>6 DEF IInv, Sound

\* Every step keeps the invariant.
LEMMA StepInv == IInv /\ [Next]_vars => IInv'
  <1> SUFFICES ASSUME IInv, [Next]_vars PROVE IInv'
    OBVIOUS
  <1>1. CASE UNCHANGED vars
    <2>1. /\ state' = state /\ refs' = refs /\ destroys' = destroys /\ flushes' = flushes
          /\ cont' = cont /\ user' = user /\ todo' = todo /\ held' = held
          /\ freed' = freed /\ mishaps' = mishaps
      BY <1>1 DEF vars, objects, places
    <2>2. /\ (Defined' <=> Defined) /\ (Types' <=> Types) /\ (Settled' <=> Settled)
          /\ \A t \in Tasks : (Ready(t)' <=> Ready(t)) /\ (Attached(t)' <=> Attached(t))
      BY <2>1 DEF Defined, Types, Settled, Ready, Attached
    <2>3. Created' = Created /\ \A t \in Tasks : Kids(t)' = Kids(t) /\ Unwrappers(t)' = Unwrappers(t)
      BY <2>1 DEF Created, Kids, Unwrappers
    <2>4. Shape' <=> Shape
      BY <2>1, <2>2, <2>3 DEF Shape
    <2>5. Exact' <=> Exact
      BY <2>1, <2>2, <2>3 DEF Exact, ByUser, ByUnwrapping, ByParent, ByKids, ByUnwrappers, One
    <2> QED BY <2>2, <2>4, <2>5 DEF IInv, Sound
  <1>2. ASSUME NEW t \in Tasks, Spawn(t) \/ Make(t) \/ Then(t) \/ Forget(t) \/ TaskStep(t)
        PROVE  Types' /\ (Defined' => Sound')
    <2>1. Defined
      BY <1>2 DEF Spawn, Make, Then, Forget, TaskStep, Schedule, RunValue, RunCancels, RunUnwrap,
                  RunUnwrapThrows, Unwrap, DropHandle, Overwrite, Delete
    <2>2. Types /\ Sound
      BY <2>1 DEF IInv
    <2> QED
      BY <1>2, <2>2, SpawnKeeps, ThenKeeps, ForgetKeeps, ScheduleKeeps, RunKeeps, RunUnwrapKeeps,
         ThrowsKeeps, UnwrapKeeps, OverwriteKeeps, DeleteKeeps, Zenon DEF TaskStep
  <1> QED BY <1>1, <1>2 DEF Next, IInv

\* The inductive invariant: what refers to each task, where tasks that are to be
\* run are, and that a task settles once.
THEOREM Invariance == Spec => []IInv
  BY InitInv, StepInv, PTL DEF Spec

\* The count of each task is the number of references to it.
THEOREM ExactCounts == Spec => []CountsAreExact
  <1>1. IInv => CountsAreExact
    <2> SUFFICES ASSUME IInv, Defined, NEW t \in Tasks
                 PROVE  IF freed[t] THEN References(t) = 0
                        ELSE state[t] # "none" => refs[t] = References(t)
      BY DEF CountsAreExact
    <2>1. Types /\ Exact /\ Shape
      BY DEF IInv, Sound
    <2>2. Attached(t) <=> \E p \in Tasks : t \in cont[p] /\ flushes[p] = 0 /\ Live(p)
      BY <2>1 DEF Attached, Shape, Live
    <2>3. References(t) = ByUser(t) + held[t] + todo[t] + ByUnwrapping(t) + ByParent(t)
                          + ByKids(t) + ByUnwrappers(t)
      BY <2>2 DEF References, ByUser, ByUnwrapping, ByParent, ByKids, ByUnwrappers, Kids,
                  Unwrappers, One
    <2>4. refs[t] = References(t)
      BY <2>1, <2>3 DEF Exact
    <2>5. freed[t] => refs[t] = 0
      BY <2>1 DEF Shape
    <2> QED BY <2>4, <2>5
  <1> QED BY <1>1, Invariance, PTL

\* Each task settles once, and its function object is destroyed once.
THEOREM SettledOnce == Spec => []SettlesOnce
  <1>1. IInv => SettlesOnce
    BY DEF IInv, Sound, Settled, SettlesOnce
  <1> QED BY <1>1, Invariance, PTL

\* A task that somebody still refers to is not deleted: its object in the
\* program, a run handle, a call in progress, a continuation, or a task that
\* waits for its result.
UsedIsAlive == Defined => \A t \in Tasks : Used(t) => ~ freed[t]

\* No task object is used after it was deleted.
THEOREM NoUseAfterFree == Spec => []UsedIsAlive
  <1>1. IInv => UsedIsAlive
    BY Referred DEF IInv, Sound, UsedIsAlive
  <1> QED BY <1>1, Invariance, PTL

\* The comment at continuation_vector.h:138 is right as long as schedule() has
\* not thrown: a continuation is passed on, and scheduled, once.
THEOREM PassedOnce == Spec => [](Defined => PassedOnOnce)
  <1>1. IInv => (Defined => PassedOnOnce)
    <2> SUFFICES ASSUME IInv, Defined, NEW t \in Tasks PROVE todo[t] + held[t] <= 1
      BY DEF PassedOnOnce
    <2>1. /\ todo[t] \in Nat /\ held[t] \in Nat
          /\ held[t] # 0 \/ todo[t] # 0 => held[t] + todo[t] = 1
      BY DEF IInv, Types, Sound, Shape
    <2> QED BY <2>1
  <1> QED BY <1>1, Invariance, PTL
=============================================================================
