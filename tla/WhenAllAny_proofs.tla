-------------------------- MODULE WhenAllAny_proofs --------------------------
(***************************************************************************)
(* Proofs about WhenAllAny, for any number of tasks, whether or not then() *)
(* may throw and the program may assign to its event.                      *)
(***************************************************************************)
EXTENDS WhenAllAny, FiniteSetTheorems, TLAPS

-----------------------------------------------------------------------------
(* The inductive invariant. *)

\* Continuations that still use the shared state, and references kept for
\* tasks that are not registered yet.
Busy == {t \in Tasks : cpc[t] \in Using}

Kept == CASE rpc \in {"store", "then"} -> N - next + 1
          [] rpc \in {"inline", "catch"} -> N - next
          [] OTHER -> 0

\* Tasks that have a continuation.
Registered == CASE rpc = "registered" -> Tasks
                [] rpc = "inline" -> 1..next
                [] OTHER -> 1..(next - 1)

\* Where the loop is, and where the continuations may be: one is attached until
\* its task has finished.
Stages ==
    /\ kind = "event" => rpc = "registered"
    /\ rpc = "store" => kind = "any"
    /\ rpc = "unwind" => next = N
    /\ \A t \in Tasks :
          /\ cpc[t] # "none" <=> t \in Registered
          /\ cpc[t] \in {"set", "move", "drop", "finished"} => t \in done
          /\ cpc[t] = "attached" => t \notin done

\* What the shared result is sure to have.
Elements ==
    /\ kind = "all" =>
          /\ result \subseteq Registered
          /\ \A t \in Tasks : cpc[t] # "move" /\ (cpc[t] \in {"drop", "finished"} => t \in result)
    /\ kind = "any" => Registered \subseteq result /\ (rpc # "store" => next \in result)

\* The event is locked by one continuation.
OneLock ==
    /\ event = "locked" => \E t \in Tasks : cpc[t] = "move"
    /\ \A t \in Tasks : cpc[t] = "move" => event = "locked"
    /\ \A t, u \in Tasks : cpc[t] = "move" /\ cpc[u] = "move" => t = u

Winner == winner # 0 => Settled /\ winner \in done /\ (kind = "any" => winner \in delivered)

\* The state is deleted with its last reference, and its event with it; the
\* destructor of when_all has delivered everything that was registered.
Deleted ==
    /\ refs = 0 => dpc # "none"
    /\ dpc \notin {"none", "overwritten"} => refs = 0
    /\ dpc = "overwritten" => kind = "event"
    /\ IF refs > 0 THEN deleted = 0 ELSE deleted = 1 \/ DeletedTwice
    /\ kind = "all" /\ Settled => dpc # "none"
    /\ kind = "all" /\ event = "completed" => delivered = Registered

IInv == /\ TypeOK /\ CountIsExact /\ Stages /\ Elements /\ OneLock /\ Winner /\ Deleted
        /\ AbandonedIsCanceled

-----------------------------------------------------------------------------
(* Counting. *)

\* There are finitely many tasks, and at least one.
LEMMA TasksFinite == IsFiniteSet(Tasks) /\ N \in Nat \ {0}
  BY WhenAssumption, FS_Interval DEF Tasks

\* So are those that use the shared state.
LEMMA BusyFinite == IsFiniteSet(Busy) /\ Cardinality(Busy) \in Nat
  BY TasksFinite, FS_Subset, FS_CardinalityType DEF Busy

\* CountIsExact in terms of the two sums.
LEMMA Exact == CountIsExact <=> refs = Cardinality(Busy) + Kept
  BY DEF CountIsExact, Busy, Kept

\* The same for the next state.
LEMMA ExactNext == CountIsExact' <=> refs' = Cardinality(Busy)' + Kept'
  BY DEF CountIsExact, Busy, Kept

\* A continuation that moves on changes the number of those that use the state
\* by what it does itself.
LEMMA CountChange ==
    ASSUME TypeOK, NEW t \in Tasks, NEW p, cpc' = [cpc EXCEPT ![t] = p]
    PROVE  Cardinality(Busy)' = Cardinality(Busy) + (IF p \in Using THEN 1 ELSE 0)
                                - (IF cpc[t] \in Using THEN 1 ELSE 0)
  <1> DEFINE rest == Busy \ {t}
  <1>1. Busy' = IF p \in Using THEN rest \union {t} ELSE rest
    BY DEF Busy, TypeOK
  <1>2. Busy = IF cpc[t] \in Using THEN rest \union {t} ELSE rest
    BY DEF Busy
  <1>3. IsFiniteSet(rest) /\ Cardinality(rest) \in Nat
    BY BusyFinite, FS_Subset, FS_CardinalityType
  <1>4. Cardinality(rest \union {t}) = Cardinality(rest) + 1
    BY <1>3, FS_AddElement
  <1> HIDE DEF rest
  <1>5. Cardinality(Busy') = Cardinality(rest) + (IF p \in Using THEN 1 ELSE 0)
    BY <1>1, <1>3, <1>4
  <1>6. Cardinality(Busy) = Cardinality(rest) + (IF cpc[t] \in Using THEN 1 ELSE 0)
    BY <1>2, <1>3, <1>4
  <1> QED BY <1>3, <1>5, <1>6, BusyFinite

\* A step that moves no continuation leaves their number alone.
LEMMA CountSame == ASSUME cpc' = cpc PROVE Cardinality(Busy)' = Cardinality(Busy)
  BY DEF Busy

\* Without references nobody uses the state and no task is left to register.
LEMMA NoRefs ==
    ASSUME IInv
    PROVE  /\ refs = 0 => Busy = {} /\ Kept = 0
           /\ Kept \in Nat /\ refs = Cardinality(Busy) + Kept
  <1>1. Kept \in Nat
    BY TasksFinite DEF IInv, TypeOK, Kept, Tasks
  <1>2. refs = Cardinality(Busy) + Kept
    BY Exact DEF IInv
  <1>3. Cardinality(Busy) = 0 => Busy = {}
    BY BusyFinite, FS_EmptySet
  <1> QED BY <1>1, <1>2, <1>3, BusyFinite

-----------------------------------------------------------------------------
(* The steps, one lemma for each group of actions. *)

\* The initial states satisfy the invariant.
LEMMA InitInv == Init => IInv
  <1> SUFFICES ASSUME Init PROVE IInv
    OBVIOUS
  <1> USE TasksFinite DEF Init, Tasks
  <1>1. TypeOK
    BY DEF TypeOK, Thrown, EventTypeOK, EventInit, FirstStep, Using
  <1>2. CountIsExact
    <2>1. CASE kind = "event"
      <3>1. Busy = 1..N /\ Kept = 0
        BY <2>1 DEF Busy, Using, Kept
      <3> QED BY <3>1, Exact, FS_Interval
    <2>2. CASE kind # "event"
      <3>1. Busy = {} /\ Kept = N
        BY <2>2 DEF Busy, Using, Kept, FirstStep
      <3> QED BY <3>1, Exact, FS_EmptySet
    <2> QED BY <2>1, <2>2
  <1>3. Stages /\ Elements
    BY DEF Stages, Elements, Registered, FirstStep
  <1>4. OneLock /\ Winner /\ Deleted /\ AbandonedIsCanceled
    BY DEF OneLock, Winner, Deleted, Registered, AbandonedIsCanceled, Settled, EventInit
  <1> QED BY <1>1, <1>2, <1>3, <1>4 DEF IInv

\* Tasks finish.
LEMMA FinishInv == ASSUME IInv, NEW t \in Tasks, Finish(t) PROVE IInv'
  <1>1. PICK q \in {cpc[t], "set", "drop"} :
          /\ cpc' = [cpc EXCEPT ![t] = q]
          /\ q \in Using <=> cpc[t] \in Using
          /\ cpc[t] = "attached" \/ q = cpc[t]
          /\ cpc[t] = "attached" => q = "set" \/ (q = "drop" /\ kind = "event")
    BY DEF Finish, IInv, TypeOK, Stages, Registered, Using
  <1>2. CountIsExact'
    <2>1. Cardinality(Busy)' = Cardinality(Busy)
      <3>1. TypeOK
        BY DEF IInv
      <3>2. Cardinality(Busy)' = Cardinality(Busy) + (IF q \in Using THEN 1 ELSE 0)
                                  - (IF cpc[t] \in Using THEN 1 ELSE 0)
        BY <1>1, <3>1, CountChange
      <3> QED BY <1>1, <3>2, BusyFinite
    <2> QED BY <2>1, Exact, ExactNext DEF Finish, registration, IInv, Kept
  <1>3. TypeOK'
    BY <1>1 DEF Finish, registration, outcome, eventVars, IInv, TypeOK, EventTypeOK, Thrown, Using
  <1>4. Stages' /\ Elements'
    BY <1>1 DEF Finish, registration, outcome, IInv, TypeOK, Stages, Elements, Registered
  <1>5. OneLock' /\ Winner' /\ Deleted' /\ AbandonedIsCanceled'
    BY <1>1 DEF Finish, registration, outcome, eventVars, IInv, TypeOK, OneLock, Winner,
            Deleted, DeletedTwice, Registered, AbandonedIsCanceled, Settled
  <1> QED BY <1>2, <1>3, <1>4, <1>5 DEF IInv

\* A step of the registration or of a continuation that leaves the event alone
\* keeps what is known about it.
LEMMA SameEvent ==
    ASSUME IInv, UNCHANGED <<eventVars, kind, done, outcome, refs, deleted>>,
           \A t \in Tasks : cpc'[t] = "move" <=> cpc[t] = "move",
           refs = 0 => Registered' = Registered,
           DeletedTwice => DeletedTwice'
    PROVE  OneLock' /\ Winner' /\ Deleted' /\ AbandonedIsCanceled'
  BY DEF eventVars, outcome, IInv, OneLock, Winner, Deleted, AbandonedIsCanceled, Settled

\* The loop of when_all and when_any, as long as then() does not throw.
LEMMA RegisterInv ==
    ASSUME IInv, Store \/ Attach \/ AttachRuns \/ InlineReturns
    PROVE  IInv'
  <1>0. TypeOK /\ Kept \in Nat /\ refs = Cardinality(Busy) + Kept /\ next \in Tasks
    BY NoRefs DEF IInv, TypeOK
  <1> USE TasksFinite DEF Tasks, registration, outcome, eventVars
  <1>1. CASE Store
    <2>1. CountIsExact'
      BY <1>0, <1>1, CountSame, ExactNext DEF Store, Kept
    <2>2. TypeOK' /\ Stages' /\ Elements'
      BY <1>1 DEF Store, IInv, TypeOK, EventTypeOK, Thrown, Stages, Elements, Registered
    <2>3. OneLock' /\ Winner' /\ Deleted' /\ AbandonedIsCanceled'
      BY <1>1, SameEvent DEF Store, Registered, DeletedTwice
    <2> QED BY <2>1, <2>2, <2>3 DEF IInv
  <1>2. CASE Attach
    <2>0. cpc[next] = "none" /\ kind \in {"all", "any"}
      BY <1>2 DEF Attach, IInv, TypeOK, Stages, Registered
    <2>1. CountIsExact'
      <3>1. Cardinality(Busy)' = Cardinality(Busy) + 1
        <4>1. cpc' = [cpc EXCEPT ![next] = "attached"]
          BY <1>2 DEF Attach
        <4>2. Cardinality(Busy)' = Cardinality(Busy) + (IF "attached" \in Using THEN 1 ELSE 0)
                                    - (IF cpc[next] \in Using THEN 1 ELSE 0)
          BY <1>0, <4>1, CountChange
        <4> QED BY <2>0, <4>2, BusyFinite DEF Using
      <3>2. Kept' = Kept - 1
        BY <1>0, <1>2 DEF Attach, Advance, FirstStep, Kept
      <3> QED BY <1>0, <1>2, <3>1, <3>2, ExactNext, BusyFinite DEF Attach
    <2>2. TypeOK'
      BY <1>2 DEF Attach, Advance, FirstStep, IInv, TypeOK, EventTypeOK, Thrown, Using
    <2>3. Stages'
      BY <1>2, <2>0 DEF Attach, Advance, FirstStep, IInv, TypeOK, Stages, Registered
    <2>4. Elements'
      BY <1>2, <2>0 DEF Attach, Advance, FirstStep, IInv, TypeOK, Elements, Registered
    <2>5. refs > 0
      BY <1>0, <1>2, BusyFinite DEF Attach, Kept
    <2>6. OneLock' /\ Winner' /\ Deleted' /\ AbandonedIsCanceled'
      BY <1>2, <2>0, <2>5, SameEvent DEF Attach, Advance, DeletedTwice, IInv, TypeOK
    <2> QED BY <2>1, <2>2, <2>3, <2>4, <2>6 DEF IInv
  <1>3. CASE AttachRuns
    <2>0. cpc[next] = "none"
      BY <1>3 DEF AttachRuns, IInv, TypeOK, Stages, Registered
    <2>1. CountIsExact'
      <3>1. Cardinality(Busy)' = Cardinality(Busy) + 1
        <4>1. cpc' = [cpc EXCEPT ![next] = "set"]
          BY <1>3 DEF AttachRuns
        <4>2. Cardinality(Busy)' = Cardinality(Busy) + (IF "set" \in Using THEN 1 ELSE 0)
                                    - (IF cpc[next] \in Using THEN 1 ELSE 0)
          BY <1>0, <4>1, CountChange
        <4> QED BY <2>0, <4>2, BusyFinite DEF Using
      <3>2. Kept' = Kept - 1
        BY <1>0, <1>3 DEF AttachRuns, Kept
      <3> QED BY <1>0, <1>3, <3>1, <3>2, ExactNext, BusyFinite DEF AttachRuns
    <2>2. TypeOK' /\ Stages' /\ Elements'
      BY <1>3, <2>0 DEF AttachRuns, IInv, TypeOK, EventTypeOK, Thrown, Stages, Elements, Registered,
                        Using
    <2>3. OneLock' /\ Winner' /\ Deleted' /\ AbandonedIsCanceled'
      BY <1>0, <1>3, <2>0, SameEvent, BusyFinite DEF AttachRuns, Kept, DeletedTwice, IInv, TypeOK
    <2> QED BY <2>1, <2>2, <2>3 DEF IInv
  <1>4. CASE InlineReturns
    <2>1. CountIsExact'
      <3>1. Kept' = Kept
        BY <1>0, <1>4 DEF InlineReturns, Advance, FirstStep, Kept
      <3> QED BY <1>0, <1>4, <3>1, CountSame, ExactNext DEF InlineReturns
    <2>2. TypeOK' /\ Stages' /\ Elements'
      BY <1>4 DEF InlineReturns, Advance, FirstStep, IInv, TypeOK, EventTypeOK, Thrown, Stages,
                  Elements, Registered
    <2>3. OneLock' /\ Winner' /\ Deleted' /\ AbandonedIsCanceled'
      BY <1>0, <1>4, SameEvent DEF InlineReturns, Advance, Registered, DeletedTwice, FirstStep
    <2> QED BY <2>1, <2>2, <2>3 DEF IInv
  <1> QED BY <1>1, <1>2, <1>3, <1>4

\* Dropping references, by a continuation or because then() threw: the facts
\* about the event survive if the count stays exact, and if only the handler of
\* the last task meets a state that is deleted.
LEMMA RemoveRefInv ==
    ASSUME IInv, NEW n \in Nat, n <= refs, RemoveRef(n), CountIsExact',
           UNCHANGED <<kind, done, result>>, Stages', Elements', Registered' = Registered,
           next' \in Tasks, rpc' \in {"store", "then", "inline", "registered"} \union Thrown,
           cpc' \in [Tasks -> {"none", "finished"} \union Using],
           \A t \in Tasks : cpc'[t] = "move" <=> cpc[t] = "move",
           deleted = 0 \/ (deleted = 1 /\ n = 0 /\ rpc' = "thrown" /\ next' = N)
    PROVE  IInv'
  <1>0. /\ refs \in 0..N /\ refs' = refs - n /\ refs' \in 0..N
        /\ UNCHANGED <<user, winner>>
    BY TasksFinite DEF RemoveRef, IInv, TypeOK
  <1>1. refs' = 0 => \A t \in Tasks : cpc'[t] \notin Using
    <2>1. refs' = Cardinality(Busy') + Kept'
      BY ExactNext
    <2>2. Cardinality(Busy') \in Nat /\ IsFiniteSet(Busy')
      <3>1. Busy' \in SUBSET Tasks
        BY DEF Busy
      <3> QED BY <3>1, TasksFinite, FS_Subset, FS_CardinalityType
    <2>3. Kept' \in Nat
      BY TasksFinite DEF Kept, Tasks
    <2>4. Cardinality(Busy') = 0 => Busy' = {}
      BY <2>2, FS_EmptySet
    <2> QED BY <2>1, <2>2, <2>3, <2>4 DEF Busy
  <1>2. /\ refs > 0 <=> deleted = 0
        /\ deleted' \in 0..2
        /\ IF refs' > 0 THEN deleted' = 0 ELSE deleted' = 1 \/ DeletedTwice'
    BY <1>0 DEF RemoveRef, IInv, TypeOK, Deleted, DeletedTwice
  <1>3. CASE refs = n /\ deleted = 0 /\ kind = "all"
    <2>0. /\ refs' = 0 /\ dpc = "none" /\ dpc' = "ready" /\ event' = "completed"
          /\ delivered' = result
      BY <1>3, <1>0, <1>2 DEF RemoveRef, Delete, Complete, IInv, TypeOK, Deleted
    <2>1. result = Registered
      <3>1. \A t \in Registered' : t \in Tasks /\ cpc'[t] = "finished"
        BY <1>1, <2>0, TasksFinite DEF Stages, Registered, Tasks
      <3>2. Registered' \subseteq result'
        BY <1>3, <3>1 DEF Elements
      <3> QED BY <3>2, <1>3 DEF IInv, Elements
    <2>2. TypeOK'
      BY <1>0, <1>2, <1>3, <2>0 DEF IInv, TypeOK, EventTypeOK, Thrown
    <2>3. event # "locked" /\ OneLock'
      BY <1>3, <2>0 DEF IInv, OneLock, Elements
    <2>4. Winner' /\ Deleted' /\ AbandonedIsCanceled'
      BY <1>0, <1>2, <1>3, <2>0, <2>1, <2>3
         DEF IInv, TypeOK, Winner, Deleted, AbandonedIsCanceled, Settled
    <2> QED BY <2>2, <2>3, <2>4 DEF IInv
  <1>4. CASE ~ (refs = n /\ deleted = 0 /\ kind = "all")
    <2>0. /\ UNCHANGED <<event, delivered>>
          /\ dpc' = IF refs = n /\ dpc = "none" THEN "ready" ELSE dpc
      BY <1>0, <1>2, <1>4 DEF RemoveRef, Delete, IInv, Deleted
    <2>1. TypeOK'
      BY <1>0, <1>2, <2>0 DEF IInv, TypeOK, EventTypeOK, Thrown
    <2>2. OneLock' /\ Winner'
      BY <1>0, <2>0 DEF IInv, OneLock, Winner, Settled
    <2>3. Deleted' /\ AbandonedIsCanceled'
      BY <1>0, <1>2, <1>4, <2>0 DEF IInv, Deleted, AbandonedIsCanceled, Settled
    <2> QED BY <2>1, <2>2, <2>3 DEF IInv
  <1> QED BY <1>3, <1>4

\* then() throws: the reference of the function object goes first, then those
\* of the tasks that follow.
LEMMA ThrowInv ==
    ASSUME IInv, AttachThrows \/ Catch
    PROVE  IInv'
  <1>0. /\ TypeOK /\ Kept \in Nat /\ refs = Cardinality(Busy) + Kept /\ next \in 1..N
        /\ N \in Nat /\ refs \in Nat
    BY NoRefs, TasksFinite DEF IInv, TypeOK, Tasks
  <1>1. CASE AttachThrows
    <2>1. /\ rpc' = IF refs = 1 THEN "unwind" ELSE "catch"
          /\ Kept = N - next + 1 /\ 1 <= refs
      BY <1>0, <1>1, BusyFinite DEF AttachThrows, Kept
    <2>2. refs = 1 => next = N
      BY <1>0, <2>1, BusyFinite
    <2>3. Kept' = N - next
      BY <1>0, <1>1, <2>1, <2>2 DEF AttachThrows, Kept
    <2>4. CountIsExact'
      BY <1>0, <1>1, <2>1, <2>3, CountSame, ExactNext, BusyFinite DEF AttachThrows, RemoveRef
    <2>5. Stages' /\ Elements' /\ Registered' = Registered
      BY <1>1, <2>1, <2>2 DEF AttachThrows, IInv, TypeOK, Stages, Elements, Registered
    <2>6. deleted = 0
      BY <2>1, <1>0 DEF IInv, Deleted
    <2> QED BY <1>1, <2>1, <2>4, <2>5, <2>6, RemoveRefInv DEF AttachThrows, IInv, TypeOK, Thrown
  <1>2. CASE Catch
    <2>1. N - next \in Nat /\ N - next <= refs /\ refs - (N - next) = Cardinality(Busy)
      BY <1>0, <1>2, BusyFinite DEF Catch, Caught, Kept, IInv, Stages
    <2>2. CountIsExact'
      <3>1. refs' = refs - (N - next) /\ Kept' = 0
        BY <1>2 DEF Catch, RemoveRef, Kept
      <3> QED BY <1>0, <1>2, <2>1, <3>1, CountSame, ExactNext, BusyFinite DEF Catch
    <2>3. Stages' /\ Elements' /\ Registered' = Registered
      BY <1>2 DEF Catch, Caught, IInv, TypeOK, Stages, Elements, Registered
    <2>4. deleted = 0 \/ (deleted = 1 /\ N - next = 0 /\ next = N)
      <3>1. deleted = 0 \/ (refs = 0 /\ deleted = 1)
        BY <1>0, <1>2 DEF Catch, Caught, IInv, Deleted, DeletedTwice
      <3>2. N \in Nat /\ next \in Nat /\ next <= N
        BY <1>0
      <3>3. N - next <= refs
        BY <2>1
      <3>4. refs = 0 => N - next = 0 /\ next = N
        BY <3>2, <3>3
      <3> QED BY <3>1, <3>4
    <2> QED BY <1>2, <2>1, <2>2, <2>3, <2>4, RemoveRefInv DEF Catch, IInv, TypeOK, Thrown
  <1> QED BY <1>1, <1>2

\* A continuation, or a thread of the program that sets the event.
LEMMA ContinuationInv ==
    ASSUME IInv, NEW t \in Tasks, Continuation(t)
    PROVE  IInv'
  <1>0. /\ TypeOK /\ Kept \in Nat /\ refs = Cardinality(Busy) + Kept
        /\ refs \in Nat
    BY NoRefs, TasksFinite DEF IInv, TypeOK, Tasks
  \* A step that does not leave the ones that use the state keeps the count.
  <1>a. ASSUME NEW p \in Using, Go(t, p), cpc[t] \in Using, UNCHANGED <<refs, registration>>
        PROVE  CountIsExact'
    <2>1. Cardinality(Busy)' = Cardinality(Busy) + (IF p \in Using THEN 1 ELSE 0)
                                - (IF cpc[t] \in Using THEN 1 ELSE 0)
      BY <1>0, <1>a, CountChange DEF Go
    <2>2. Cardinality(Busy)' = Cardinality(Busy)
      BY <1>a, <2>1, BusyFinite
    <2> QED BY <1>0, <1>a, <2>2, ExactNext DEF registration, Kept
  <1>1. CASE Write(t)
    <2>1. CountIsExact'
      BY <1>a, <1>1 DEF Write, Using
    <2>2. TypeOK' /\ Stages' /\ Elements'
      BY <1>1 DEF Write, Go, registration, outcome, eventVars, IInv, TypeOK, EventTypeOK, Thrown,
                  Stages, Elements, Registered, Using
    <2>3. OneLock' /\ Winner' /\ Deleted' /\ AbandonedIsCanceled'
      BY <1>1, SameEvent DEF Write, Go, registration, Registered, DeletedTwice, IInv, TypeOK
    <2> QED BY <2>1, <2>2, <2>3 DEF IInv
  <1>2. CASE Set(t)
    <2>0. PICK p \in {"move", "drop"} :
             Go(t, p) /\ ((p = "move" /\ Lock) \/ (p = "drop" /\ UNCHANGED event))
      BY <1>2 DEF Set
    <2>1. CountIsExact'
      BY <1>a, <1>2, <2>0 DEF Set, Using
    <2>2. TypeOK' /\ Stages' /\ Elements'
      BY <1>2, <2>0 DEF Set, Go, Lock, registration, outcome, IInv, TypeOK, EventTypeOK, Thrown,
                  Stages, Elements, Registered, Using
    <2>3. OneLock' /\ Winner'
      BY <1>2, <2>0 DEF Set, Go, Lock, CanLock, registration, outcome, IInv, TypeOK, OneLock,
                  Winner, Settled
    <2>4. Deleted' /\ AbandonedIsCanceled'
      BY <1>2, <2>0 DEF Set, Go, Lock, CanLock, registration, outcome, IInv, TypeOK, Deleted,
                  DeletedTwice, Registered, AbandonedIsCanceled, Settled
    <2> QED BY <2>1, <2>2, <2>3, <2>4 DEF IInv
  <1>3. CASE Move(t)
    <2>0. event = "locked" /\ kind # "all" /\ winner = 0
      BY <1>3 DEF Move, IInv, OneLock, Elements, Winner, Settled
    <2>1. CountIsExact'
      BY <1>a, <1>3 DEF Move, Using
    <2>2. TypeOK' /\ Stages' /\ Elements'
      <3>1. TypeOK'
        BY <1>3, <2>0 DEF Move, Go, Complete, Cancel, registration, IInv, TypeOK, Thrown,
                          EventTypeOK, Using, Tasks
      <3>2. Stages' /\ Elements'
        BY <1>3, <2>0 DEF Move, Go, registration, IInv, TypeOK, Stages, Elements, Registered
      <3> QED BY <3>1, <3>2
    <2>3. OneLock'
      BY <1>3, <2>0 DEF Move, Go, Complete, Cancel, registration, IInv, TypeOK, OneLock
    <2>4. kind = "any" => t \in result
      BY <1>3 DEF Move, IInv, Elements, Stages
    <2>5. Winner'
      BY <1>3, <2>0, <2>4 DEF Move, Complete, Cancel, registration, Winner, Settled, IInv, Stages
    <2>6. Deleted' /\ AbandonedIsCanceled'
      BY <1>3, <2>0 DEF Move, Complete, Cancel, registration, IInv, Deleted,
                        DeletedTwice, Registered, AbandonedIsCanceled, Settled
    <2> QED BY <2>1, <2>2, <2>3, <2>5, <2>6 DEF IInv
  <1>4. CASE Drop(t)
    <2>1. Cardinality(Busy)' = Cardinality(Busy) - 1
      <3>1. Cardinality(Busy)' = Cardinality(Busy) + (IF "finished" \in Using THEN 1 ELSE 0)
                                  - (IF cpc[t] \in Using THEN 1 ELSE 0)
        BY <1>0, <1>4, CountChange DEF Drop, Go
      <3> QED BY <1>4, <3>1, BusyFinite DEF Drop, Using
    <2>2. 1 <= refs
      <3>1. Busy # {}
        BY <1>4 DEF Drop, Busy, Using
      <3>2. Cardinality(Busy) # 0
        BY <3>1, BusyFinite, FS_EmptySet
      <3> QED BY <1>0, <3>2, BusyFinite
    <2>3. CountIsExact'
      <3>1. refs' = refs - 1 /\ Kept' = Kept
        BY <1>4 DEF Drop, RemoveRef, registration, Kept
      <3> QED BY <1>0, <2>1, <3>1, ExactNext, BusyFinite
    <2>4. Stages' /\ Elements'
      BY <1>4 DEF Drop, Go, registration, IInv, TypeOK, Stages, Elements, Registered
    <2>5. cpc' \in [Tasks -> {"none", "finished"} \union Using]
      BY <1>4 DEF Drop, Go, IInv, TypeOK
    <2>6. \A u \in Tasks : cpc'[u] = "move" <=> cpc[u] = "move"
      BY <1>4 DEF Drop, Go, IInv, TypeOK
    <2>7. Registered' = Registered /\ deleted = 0
      BY <1>0, <1>4, <2>2 DEF Drop, registration, Registered, IInv, Deleted
    <2> QED BY <1>4, <2>2, <2>3, <2>4, <2>5, <2>6, <2>7, RemoveRefInv
            DEF Drop, registration, IInv, TypeOK
  <1> QED BY <1>1, <1>2, <1>3, <1>4 DEF Continuation

\* The holder of the task object, the assignment to an event, the destructor.
LEMMA UserInv ==
    ASSUME IInv, UserStep \/ Destroy
    PROVE  IInv'
  <1>0. UNCHANGED others
    BY DEF UserStep, Destroy
  <1>1. CountIsExact' /\ Stages' /\ Elements'
    BY <1>0 DEF others, registration, IInv, CountIsExact, Stages, Elements, Registered
  <1>2. dpc \notin {"none", "overwritten"} => event # "locked"
    <2>1. dpc \notin {"none", "overwritten"} => \A t \in Tasks : cpc[t] # "move"
      BY NoRefs DEF IInv, Deleted, Busy, Using
    <2> QED BY <2>1 DEF IInv, OneLock
  <1> USE DEF others, registration, outcome, IInv
  <1>3. CASE UserStep
    <2>1. TypeOK' /\ OneLock' /\ Winner'
      BY <1>0, <1>3 DEF UserStep, GetTask, DropTask, Overwrite, TypeOK, Thrown, EventTypeOK,
                        OneLock, Winner, Settled
    <2>2. Deleted'
      BY <1>0, <1>3 DEF UserStep, GetTask, DropTask, Overwrite, TypeOK, Deleted,
                        DeletedTwice, Registered, Settled
    <2>3. AbandonedIsCanceled'
      BY <1>0, <1>3 DEF UserStep, GetTask, DropTask, Overwrite, TypeOK, AbandonedIsCanceled,
                        Settled
    <2> QED BY <1>1, <2>1, <2>2, <2>3
  <1>4. CASE Destroy
    <2>1. TypeOK' /\ OneLock' /\ Winner'
      BY <1>0, <1>2, <1>4 DEF Destroy, Destructor, TestReady, TestUnique, CancelAbandoned,
                        TypeOK, Thrown, EventTypeOK, OneLock, Winner, Settled, CanLock
    <2>2. Deleted'
      BY <1>0, <1>4 DEF Destroy, Destructor, TestReady, TestUnique, CancelAbandoned,
                        TypeOK, Deleted, DeletedTwice, Registered, CanLock, Settled
    <2>3. AbandonedIsCanceled'
      BY <1>0, <1>2, <1>4 DEF Destroy, Destructor, TestReady, TestUnique, CancelAbandoned,
                        TypeOK, EventTypeOK, AbandonedIsCanceled, Settled, CanLock
    <2> QED BY <1>1, <2>1, <2>2, <2>3
  <1> QED BY <1>3, <1>4

-----------------------------------------------------------------------------
(* The theorems. *)

\* Every step preserves the invariant.
LEMMA StepInv == IInv /\ [Next]_vars => IInv'
  <1> SUFFICES ASSUME IInv, [Next]_vars PROVE IInv'
    OBVIOUS
  <1>1. CASE Next
    BY <1>1, RegisterInv, ThrowInv, FinishInv, ContinuationInv, UserInv DEF Next, Register
  <1>2. CASE UNCHANGED vars
    BY <1>2 DEF vars, others, registration, outcome, eventVars, IInv, TypeOK, Thrown,
                EventTypeOK, CountIsExact, Stages, Elements, Registered, OneLock, Winner, Deleted,
                DeletedTwice, AbandonedIsCanceled, Settled
  <1> QED BY <1>1, <1>2

\* The inductive invariant holds in every state: the references counted, the
\* stage of each continuation, the lock and the winner of the event.
THEOREM Invariance == Spec => []IInv
  BY InitInv, StepInv, PTL DEF Spec

\* Every variable has its type; the result of when_all only has finished tasks,
\* and the event never delivers what is not in the list.
THEOREM TypeCorrect == Spec => []TypeOK
  <1>1. IInv => TypeOK
    BY DEF IInv
  <1> QED BY <1>1, Invariance, PTL

\* The count of references is exact at every moment, also after then() threw, and
\* the state is deleted once, with the last reference; twice only by the handler
\* of the last task, when all others are done.
THEOREM ExactReferences == Spec => []RefsAreExact
  <1>1. IInv => RefsAreExact
    BY DEF IInv, Deleted, RefsAreExact
  <1> QED BY <1>1, Invariance, PTL

\* remove_ref() deletes the state only when no continuation will use it again and
\* the loop is at its end: the last then() returns, or has thrown, and its handler
\* gives back 0 references of the deleted state.
THEOREM DeletedUnused ==
    Spec => [](dpc \notin {"none", "overwritten"} =>
                  /\ \A t \in Tasks : cpc[t] \in {"none", "finished"}
                  /\ \/ rpc \in {"registered", "thrown"}
                     \/ next = N /\ rpc \in {"inline", "unwind", "catch"})
  <1>1. ASSUME IInv, dpc \notin {"none", "overwritten"}
        PROVE  /\ \A t \in Tasks : cpc[t] \in {"none", "finished"}
               /\ \/ rpc \in {"registered", "thrown"}
                  \/ next = N /\ rpc \in {"inline", "unwind", "catch"}
    <2>1. Busy = {} /\ Kept = 0
      BY <1>1, NoRefs DEF IInv, Deleted
    <2>2. \A t \in Tasks : cpc[t] \in {"none", "finished"}
      BY <1>1, <2>1 DEF IInv, TypeOK, Busy
    <2>3. rpc \in {"registered", "thrown"} \/ (next = N /\ rpc \in {"inline", "unwind", "catch"})
      BY <1>1, <2>1, TasksFinite DEF Kept, IInv, TypeOK, Stages, Thrown, Tasks
    <2> QED BY <2>2, <2>3
  <1> QED BY <1>1, Invariance, PTL

\* when_all delivers every task it registered, and not before the last of them has
\* finished.
THEOREM AllDelivered == Spec => []SetWhenAllDone
  <1>1. IInv => SetWhenAllDone
    <2> SUFFICES ASSUME IInv, kind = "all", event = "completed"
                 PROVE  SetWhenAllDone
      BY DEF SetWhenAllDone
    <2>1. refs = 0 /\ Kept = 0 /\ Busy = {} /\ delivered = Registered
      BY NoRefs DEF IInv, Deleted, Settled
    <2>2. rpc \in {"registered", "inline"} \union Thrown
      BY <2>1, TasksFinite DEF Kept, IInv, TypeOK, Tasks
    <2>3. Registered = IF rpc \in Thrown THEN 1..(next - 1) ELSE Tasks
      BY <2>1, <2>2, TasksFinite DEF Kept, Registered, IInv, TypeOK, Tasks, Thrown
    <2>4. Registered \subseteq done
      BY <2>1, <2>3, TasksFinite DEF Registered, IInv, TypeOK, Stages, Busy, Using, Tasks
    <2> QED BY <2>1, <2>3, <2>4 DEF SetWhenAllDone
  <1> QED BY <1>1, Invariance, PTL

\* One thread sets the event, and the index when_any delivers is that of a
\* finished task in its list.
THEOREM FirstWins == Spec => []OneWinner
  <1>1. ASSUME IInv PROVE OneWinner
    <2> DEFINE moving == {t \in Tasks : cpc[t] = "move"}
    <2>1. CASE event = "locked"
      <3>1. PICK t \in Tasks : cpc[t] = "move"
        BY <1>1, <2>1 DEF IInv, OneLock
      <3>2. moving = {t}
        BY <1>1, <3>1 DEF IInv, OneLock
      <3>3. Cardinality(moving) = 1
        BY <3>2, FS_Singleton
      <3> QED BY <1>1, <2>1, <3>3 DEF IInv, Winner, OneWinner
    <2>2. CASE event # "locked"
      <3>1. moving = {}
        BY <1>1, <2>2 DEF IInv, OneLock
      <3>2. Cardinality(moving) = 0
        BY <3>1, FS_EmptySet
      <3> QED BY <1>1, <2>2, <3>2 DEF IInv, Winner, OneWinner
    <2> QED BY <2>1, <2>2
  <1> QED BY <1>1, Invariance, PTL

\* An event that was set stays as it is: no later set(), exception or
\* destructor changes its state, its winner or what it delivered.
THEOREM SetOnce == Spec => [][Settled => UNCHANGED <<event, outcome>>]_vars
  <1>1. IInv /\ [Next]_vars => [Settled => UNCHANGED <<event, outcome>>]_vars
    <2> SUFFICES ASSUME IInv, Next, Settled PROVE UNCHANGED <<event, outcome>>
      BY DEF vars, others
    <2> USE DEF outcome, eventVars, others
    <2>1. event # "pending" /\ event # "locked" /\ \A t \in Tasks : cpc[t] # "move"
      BY DEF IInv, OneLock, Settled
    <2>2. ASSUME NEW n, RemoveRef(n) PROVE UNCHANGED <<event, outcome>>
      <3>1. refs > 0 <=> deleted = 0
        BY TasksFinite DEF IInv, TypeOK, Deleted, DeletedTwice
      <3>2. kind = "all" => refs = 0
        BY DEF IInv, TypeOK, EventTypeOK, Deleted
      <3> QED BY <2>2, <3>1, <3>2 DEF RemoveRef, Delete
    <2>3. CASE Register
      BY <2>2, <2>3 DEF Register, Store, Attach, AttachRuns, InlineReturns, AttachThrows, Catch
    <2>4. CASE UserStep \/ Destroy
      BY <2>1, <2>4 DEF UserStep, Destroy, Destructor, GetTask, DropTask, Overwrite, TestReady,
                        TestUnique, CancelAbandoned, CanLock
    <2>5. ASSUME NEW t \in Tasks, Finish(t) \/ Continuation(t)
          PROVE  UNCHANGED <<event, outcome>>
      BY <2>1, <2>2, <2>5 DEF Finish, Continuation, Write, Set, Move, Drop, Lock, CanLock
    <2> QED BY <2>3, <2>4, <2>5 DEF Next
  <1> QED BY <1>1, Invariance, PTL DEF Spec

\* Nobody waits for ever for an event whose object is gone.
THEOREM NoneAbandoned == Spec => []AbandonedIsCanceled
  <1>1. IInv => AbandonedIsCanceled
    BY DEF IInv
  <1> QED BY <1>1, Invariance, PTL
=============================================================================
