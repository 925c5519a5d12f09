---------------------- MODULE ContinuationVector_proofs ----------------------
(***************************************************************************)
(* Proofs about ContinuationVector, for any number of threads that attach  *)
(* continuations; that every step of it is a step of Continuations or      *)
(* changes nothing there; and that PoolLocks, its composition with the     *)
(* lock and the sleepers of a pool, keeps to it.                           *)
(***************************************************************************)
EXTENDS PoolLocks, SequenceTheorems, FiniteSetTheorems, TLAPS

-----------------------------------------------------------------------------
(* The inductive invariant. *)

\* The atomic word.  The inline pointer, once there, is only replaced by the
\* vector, so that a vector allocated for a compare-exchange that failed is
\* still the right one.
Words ==
    /\ cell.is_vector => cell.ptr = None
    /\ ~ cell.is_vector =>
          /\ vector = <<>>
          /\ \A c \in Conts :
                cached[c] = <<>> \/ (cell.ptr # None /\ cached[c] = <<cell.ptr, c>>)
    /\ \A c \in Conts :
          /\ pc[c] = "cas" =>
                /\ ~ data[c].is_vector /\ ~ data[c].is_locked
                /\ data[c].ptr # None => cached[c] # <<>>
          /\ pc[c] \in {"lock", "recheck", "push"} => cell.is_vector

\* The finishing thread: the word is locked from its compare-exchange on.
Flushing ==
    /\ state = "pending" <=> fpc = "executing"
    /\ cell.is_locked <=> fpc \in {"inline", "lock", "flush", "done", "destroyed"}
    /\ fpc = "inline" => ~ cell.is_vector /\ fdata.ptr = cell.ptr
    /\ fpc \in {"lock", "flush"} => cell.is_vector
    /\ fpc \in {"done", "destroyed"} => vector = <<>>
    /\ fpc \in {"executing", "load", "cas", "inline", "lock"} => fnext = 1
    /\ fpc = "flush" => fnext <= Len(vector) + 1
    /\ fpc = "destroyed" => \A c \in Conts : pc[c] \in {"added", "ran"}
    /\ \A c \in Conts : pc[c] = "run" => state = "finished"

\* The mutex of the vector.
Exclusive ==
    /\ \A c \in Conts : pc[c] \in {"recheck", "push"} <=> mutex = c
    /\ fpc = "flush" <=> mutex = Finisher
    /\ NoLatePush

Control == TypeOK /\ Words /\ Flushing /\ Exclusive

Early == {"new", "load", "cas", "lock", "recheck", "push", "run"}

Waits(c) == \E k \in 1..Len(Waiting) : Waiting[k] = c

\* A continuation is in one place, and scheduled at most once.
Placed ==
    /\ \A j, k \in 1..Len(Waiting) : Waiting[j] = Waiting[k] => j = k
    /\ \A c \in Conts :
          /\ Waits(c) => pc[c] = "added" /\ runs[c] = 0
          /\ pc[c] \in Early => runs[c] = 0
          /\ pc[c] = "added" => runs[c] = 1 \/ (runs[c] = 0 /\ Waits(c))
          /\ pc[c] = "ran" => runs[c] = 1

IInv == Control /\ Placed

-----------------------------------------------------------------------------
(* The control part holds by itself. *)

\* The initial states satisfy Control.
LEMMA InitControl == Init => Control
  BY NoneAssumption, EmptySeq
     DEF Init, Cell, Control, TypeOK, Cells, Words, Flushing, Exclusive, NoLatePush

\* The loop of try_add() reads the word.
LEMMA LoadControl ==
    ASSUME Control, NEW c \in Conts, LoadData(c) \/ CasFails(c)
    PROVE  Control'
  <1> USE NoneAssumption DEF Control, atomic, slow, finisher
  <1>0. /\ pc[c] \in {"load", "cas"} /\ Prepare(c, cell)
        /\ UNCHANGED <<atomic, slow, finisher, runs>>
    BY DEF LoadData, CasFails
  <1>1. /\ pc' \in [Conts -> {"new", "load", "cas", "lock", "recheck", "push", "run",
                              "added", "ran"}]
        /\ data' \in [Conts -> Cells]
    BY <1>0 DEF Prepare, TypeOK
  <1>2. cached' \in [Conts -> Seq(Conts)]
    <2>1. cell.ptr # None => <<cell.ptr, c>> \in Seq(Conts)
      BY DEF TypeOK, Cells
    <2> QED BY <1>0, <2>1 DEF Prepare, TypeOK
  <1>3. TypeOK'
    BY <1>0, <1>1, <1>2 DEF TypeOK
  <1>4. Words'
    BY <1>0, <1>1, <1>2 DEF Words, TypeOK, Prepare
  <1>5. Flushing' /\ Exclusive'
    BY <1>0 DEF Flushing, Exclusive, TypeOK, Prepare, NoLatePush
  <1> QED BY <1>3, <1>4, <1>5

\* A compare-exchange that succeeds stores a first inline continuation, or
\* turns it into a vector.
LEMMA CasControl ==
    ASSUME Control, NEW c \in Conts, CasSucceeds(c)
    PROVE  /\ Control'
           /\ fpc \in {"executing", "load", "cas"} /\ ~ cell.is_vector
           /\ cell.ptr = None => cell'.ptr = c /\ ~ cell'.is_vector
           /\ cell.ptr # None => cell'.is_vector /\ vector' = <<cell.ptr, c>>
  <1> USE NoneAssumption DEF Control, finisher, Cell
  <1>0. /\ pc[c] = "cas" /\ cell = data[c] /\ ~ cell.is_vector /\ ~ cell.is_locked
        /\ pc' = [pc EXCEPT ![c] = "added"]
        /\ UNCHANGED <<state, mutex, data, cached, finisher, runs>>
    BY DEF CasSucceeds, Words
  <1>1. fpc \in {"executing", "load", "cas"}
    BY <1>0 DEF Flushing, TypeOK
  <1>2. CASE cell.ptr = None
    <2>1. cell' = Cell(FALSE, c, FALSE) /\ UNCHANGED vector
      BY <1>0, <1>2 DEF CasSucceeds
    <2>2. TypeOK'
      BY <1>0, <2>1 DEF TypeOK, Cells
    <2>3. Words' /\ Flushing' /\ Exclusive'
      BY <1>0, <1>1, <1>2, <2>1 DEF TypeOK, Words, Flushing, Exclusive, NoLatePush
    <2> QED BY <1>0, <1>1, <1>2, <2>1, <2>2, <2>3
  <1>3. CASE cell.ptr # None
    <2>1. cell' = Cell(TRUE, None, FALSE) /\ vector' = <<cell.ptr, c>>
      BY <1>0, <1>3 DEF CasSucceeds, Words
    <2>2. vector' \in Seq(Conts) /\ Len(vector') = 2
      BY <1>3, <2>1 DEF TypeOK, Cells
    <2>3. TypeOK'
      BY <1>0, <2>1, <2>2 DEF TypeOK, Cells
    <2>4. Words' /\ Flushing' /\ Exclusive'
      BY <1>0, <1>1, <2>1, <2>2 DEF TypeOK, Words, Flushing, Exclusive, NoLatePush
    <2> QED BY <1>0, <1>1, <1>3, <2>1, <2>3, <2>4
  <1> QED BY <1>2, <1>3

\* What the locks and the word say of each thread stays true in the steps of
\* try_add()...
LEMMA AddControl ==
    ASSUME Control, NEW c \in Conts,
           CheckState(c) \/ LockVector(c) \/ Recheck(c) \/ RunDirectly(c)
    PROVE  Control'
  <1> USE NoneAssumption
      DEF Control, atomic, slow, finisher, Schedule, TypeOK, Words, Flushing, Exclusive,
          NoLatePush
  <1>1. CASE CheckState(c) BY <1>1 DEF CheckState
  <1>2. CASE LockVector(c) BY <1>2 DEF LockVector
  <1>3. CASE Recheck(c)
    <2>0. /\ mutex = c /\ fpc # "flush" /\ cell.is_vector /\ c # None /\ c # Finisher
          /\ ~ cell.is_locked => fpc \notin {"flush", "done", "destroyed"}
          /\ cell.is_locked => state = "finished"
          /\ pc' = [pc EXCEPT ![c] = IF cell.is_locked THEN "run" ELSE "push"]
          /\ mutex' = IF cell.is_locked THEN None ELSE c
      BY <1>3 DEF Recheck
    <2> USE <1>3, <2>0 DEF Recheck
    <2>1. TypeOK' OBVIOUS
    <2>2. Words' OBVIOUS
    <2>3. Flushing' OBVIOUS
    <2>4. Exclusive' OBVIOUS
    <2> QED BY <2>1, <2>2, <2>3, <2>4
  <1>4. CASE RunDirectly(c) BY <1>4 DEF RunDirectly
  <1> QED BY <1>1, <1>2, <1>3, <1>4

\* ...also when it pushes into the vector...
LEMMA PushControl ==
    ASSUME Control, NEW c \in Conts, PushBack(c)
    PROVE  Control' /\ cell.is_vector /\ fnext = 1
  <1> USE NoneAssumption DEF Control, atomic, finisher
  <1>0. /\ pc[c] = "push" /\ mutex = c /\ cell.is_vector
        /\ fpc \in {"executing", "load", "cas", "lock"} /\ fnext = 1
    BY DEF PushBack, TypeOK, Words, Flushing, Exclusive, NoLatePush
  <1>1. vector' \in Seq(Conts) /\ Len(vector') = Len(vector) + 1
    BY AppendProperties DEF PushBack, TypeOK
  <1>2. TypeOK'
    BY <1>0, <1>1 DEF PushBack, TypeOK
  <1>3. Words' /\ Flushing'
    BY <1>0, <1>1 DEF PushBack, TypeOK, Words, Flushing
  <1>4. Exclusive'
    BY <1>0, <1>1 DEF PushBack, TypeOK, Exclusive, NoLatePush
  <1> QED BY <1>0, <1>2, <1>3, <1>4

\* ...and in those of the thread that finishes the task.
LEMMA FinishControl ==
    ASSUME Control, FinishStep \/ Destroy
    PROVE  Control'
  <1> USE NoneAssumption DEF Control, atomic, slow, adders, Schedule
  <1>1. CASE StoreState
    BY <1>1 DEF StoreState, TypeOK, Words, Flushing, Exclusive, NoLatePush
  <1>2. CASE FlushLoad \/ FlushCasFails
    BY <1>2, ZenonT(30) DEF FlushLoad, FlushCasFails, TypeOK, Words, Flushing, Exclusive, NoLatePush
  <1>3. CASE FlushCasSucceeds
    <2>1. TypeOK'
      BY <1>3 DEF FlushCasSucceeds, TypeOK, Cells
    <2>2. /\ cell'.is_vector = cell.is_vector /\ cell'.ptr = cell.ptr /\ cell'.is_locked
          /\ ~ cell.is_locked
      BY <1>3 DEF FlushCasSucceeds, TypeOK, Cells, Flushing
    <2>3. Words' /\ Flushing' /\ Exclusive'
      BY <1>3, <2>2 DEF FlushCasSucceeds, TypeOK, Words, Flushing, Exclusive, NoLatePush
    <2> QED BY <2>1, <2>3
  <1>4. CASE FlushInline
    <2>1. runs' \in [Conts -> Nat]
      <3>1. fdata.ptr \in Conts \union {None} /\ runs \in [Conts -> Nat]
        BY DEF TypeOK, Cells
      <3>2. CASE fdata.ptr = None
        BY <1>4, <3>1, <3>2 DEF FlushInline
      <3>3. CASE fdata.ptr # None
        BY <1>4, <3>1, <3>3 DEF FlushInline
      <3> QED BY <3>2, <3>3
    <2>2. /\ fpc = "inline" /\ fpc' = "done" /\ ~ cell.is_vector /\ vector = <<>>
          /\ cell.is_locked /\ \A c \in Conts : pc[c] # "push"
      BY <1>4 DEF FlushInline, Words, Flushing
    <2>3. TypeOK' /\ Words'
      BY <1>4, <2>1, <2>2 DEF FlushInline, TypeOK, Words
    <2>4. Flushing' /\ Exclusive'
      BY <1>4, <2>2 DEF FlushInline, TypeOK, Flushing, Exclusive, NoLatePush
    <2> QED BY <2>3, <2>4
  <1>5. CASE FlushLock
    BY <1>5 DEF FlushLock, TypeOK, Words, Flushing, Exclusive, NoLatePush
  <1>6. CASE FlushOne
    <2>1. vector[fnext] \in Conts /\ fnext + 1 <= Len(vector) + 1
      BY <1>6 DEF FlushOne, TypeOK
    <2>2. runs' \in [Conts -> Nat]
      BY <1>6, <2>1 DEF FlushOne, TypeOK
    <2>3. TypeOK'
      BY <1>6, <2>1, <2>2 DEF FlushOne, TypeOK
    <2>4. Words' /\ Flushing' /\ Exclusive'
      BY <1>6, <2>1 DEF FlushOne, TypeOK, Words, Flushing, Exclusive, NoLatePush
    <2> QED BY <2>3, <2>4
  <1>7. CASE FlushClear
    BY <1>7, EmptySeq DEF FlushClear, TypeOK, Words, Flushing, Exclusive, NoLatePush
  <1>8. CASE Destroy
    <2>1. cell.is_locked /\ cell' = cell
      BY <1>8 DEF Destroy, Quiet, Flushing
    <2> QED BY <1>8, <2>1, EmptySeq
            DEF Destroy, Quiet, TypeOK, Words, Flushing, Exclusive, NoLatePush
  <1> QED BY <1>1, <1>2, <1>3, <1>4, <1>5, <1>6, <1>7, <1>8 DEF FinishStep

\* Every step preserves Control.
LEMMA StepControl == ASSUME Control, [Next]_vars PROVE Control'
  <1>1. CASE Next
    BY <1>1, LoadControl, CasControl, AddControl, PushControl, FinishControl DEF Next, AddStep
  <1>2. CASE UNCHANGED vars
    BY <1>2 DEF vars, atomic, slow, adders, finisher, Control, TypeOK, Words, Flushing,
                Exclusive, NoLatePush
  <1> QED BY <1>1, <1>2

-----------------------------------------------------------------------------
(* What each step does to the continuations that wait. *)

Attaches(c) ==
    /\ pc[c] \in Early
    /\ pc' = [pc EXCEPT ![c] = "added"]
    /\ Waiting' = Append(Waiting, c)
    /\ UNCHANGED <<state, runs>>

Flushes ==
    /\ state = "finished" /\ Waiting # <<>>
    /\ runs' = [runs EXCEPT ![Head(Waiting)] = @ + 1]
    /\ Waiting' = Tail(Waiting)
    /\ UNCHANGED <<state, pc>>

RunsNow(c) ==
    /\ state = "finished" /\ pc[c] = "run"
    /\ pc' = [pc EXCEPT ![c] = "ran"]
    /\ runs' = [runs EXCEPT ![c] = @ + 1]
    /\ UNCHANGED <<state, Waiting>>

Stays ==
    /\ UNCHANGED <<Waiting, runs>>
    /\ UNCHANGED state \/ (state = "pending" /\ state' = "finished")
    /\ \A c \in Conts : pc'[c] = pc[c] \/ (pc[c] \in Early /\ pc'[c] \in Early)

\* The continuations that wait are a sequence; it is empty once the flush is
\* over.
LEMMA WaitingIsSeq ==
    ASSUME Control
    PROVE  /\ Waiting \in Seq(Conts)
           /\ cell.is_vector /\ fnext = 1 => Waiting = vector
           /\ vector = <<>> /\ cell.is_vector => Waiting = <<>>
           /\ fpc \in {"done", "destroyed"} => Waiting = <<>>
  <1>0. fnext \in Int /\ fnext >= 1 /\ vector \in Seq(Conts) /\ Len(vector) \in Nat
    BY DEF Control, TypeOK
  <1>1. SubSeq(vector, fnext, Len(vector)) \in Seq(Conts)
    <2>1. \A i \in fnext..Len(vector) : vector[i] \in Conts
      BY <1>0
    <2> QED BY <1>0, <2>1, SubSeqProperties
  <1>2. fnext = 1 => SubSeq(vector, fnext, Len(vector)) = vector
    BY <1>0, SubSeqFull
  <1>3. vector = <<>> => SubSeq(vector, fnext, Len(vector)) = <<>>
    <2>1. vector = <<>> => Len(vector) < fnext
      BY <1>0
    <2> QED BY <1>0, <2>1, SubSeqEmpty
  <1>4. cell.ptr # None => <<cell.ptr>> \in Seq(Conts)
    BY DEF Control, TypeOK, Cells
  <1> QED BY <1>1, <1>2, <1>3, <1>4, EmptySeq DEF Waiting, Control, Flushing

\* A step of try_add() attaches its continuation, runs it at once, or changes
\* neither.
LEMMA AddEffect ==
    ASSUME Control, NEW c \in Conts, AddStep(c)
    PROVE  Attaches(c) \/ RunsNow(c) \/ Stays
  <1> USE NoneAssumption DEF atomic, slow, finisher
  <1>1. CASE CheckState(c) \/ LoadData(c) \/ CasFails(c) \/ LockVector(c) \/ Recheck(c)
    <2>1. UNCHANGED <<state, cell, vector, fpc, fnext, runs>>
      BY <1>1 DEF CheckState, LoadData, CasFails, LockVector, Recheck
    <2>2. PICK p \in Early : pc' = [pc EXCEPT ![c] = p] /\ pc[c] \in Early
      BY <1>1 DEF CheckState, LoadData, CasFails, LockVector, Recheck, Prepare, Early
    <2>3. UNCHANGED Waiting
      BY <2>1 DEF Waiting
    <2> QED BY <2>1, <2>2, <2>3 DEF Stays, Control, TypeOK
  <1>2. CASE CasSucceeds(c)
    <2>0. /\ pc[c] \in Early /\ pc' = [pc EXCEPT ![c] = "added"]
          /\ UNCHANGED <<state, fpc, fnext, runs>>
      BY <1>2 DEF CasSucceeds, Early
    <2>1. /\ Control' /\ fpc \in {"executing", "load", "cas"} /\ ~ cell.is_vector
          /\ cell.ptr = None => cell'.ptr = c /\ ~ cell'.is_vector
          /\ cell.ptr # None => cell'.is_vector /\ vector' = <<cell.ptr, c>>
      BY <1>2, CasControl
    <2>2. CASE cell.ptr = None
      <3>1. Waiting = <<>> /\ Waiting' = <<c>>
        BY <2>0, <2>1, <2>2 DEF Waiting
      <3> QED BY <2>0, <3>1 DEF Attaches
    <2>3. CASE cell.ptr # None
      <3>1. Waiting = <<cell.ptr>>
        BY <2>1, <2>3 DEF Waiting
      <3>2. fnext' = 1
        BY <2>0, <2>1 DEF Control, Flushing
      <3>3. Waiting' = SubSeq(vector', fnext', Len(vector'))
        BY <2>1, <2>3 DEF Waiting
      <3>4. Waiting' = <<cell.ptr, c>>
        <4>1. <<cell.ptr, c>> \in Seq(Conts)
          BY <2>1, <2>3 DEF Control, TypeOK, Cells
        <4> QED BY <2>1, <2>3, <3>2, <3>3, <4>1, SubSeqFull
      <3> QED BY <2>0, <3>1, <3>4 DEF Attaches
    <2> QED BY <2>2, <2>3
  <1>3. CASE PushBack(c)
    <2>0. /\ pc[c] \in Early /\ pc' = [pc EXCEPT ![c] = "added"]
          /\ UNCHANGED <<state, cell, fpc, fnext, runs>>
          /\ vector' = Append(vector, c)
      BY <1>3 DEF PushBack, Early
    <2>1. Control' /\ cell.is_vector /\ fnext = 1
      BY <1>3, PushControl
    <2>2. Waiting = vector
      BY <2>1, WaitingIsSeq
    <2>3. Waiting' = vector'
      <3>1. vector' \in Seq(Conts)
        BY <2>1 DEF Control, TypeOK
      <3>2. Waiting' = SubSeq(vector', 1, Len(vector'))
        BY <2>0, <2>1 DEF Waiting
      <3> QED BY <3>1, <3>2, SubSeqFull
    <2> QED BY <2>0, <2>2, <2>3 DEF Attaches
  <1>4. CASE RunDirectly(c)
    <2>1. UNCHANGED Waiting
      BY <1>4 DEF RunDirectly, Waiting
    <2> QED BY <1>4, <2>1 DEF RunDirectly, RunsNow, Schedule, Control, Flushing
  <1> QED BY <1>1, <1>2, <1>3, <1>4 DEF AddStep

\* A step of the finishing thread schedules the next continuation, or changes
\* nothing that waits.
LEMMA FinishEffect ==
    ASSUME Control, FinishStep \/ Destroy
    PROVE  Flushes \/ Stays
  <1> USE NoneAssumption DEF atomic, slow, adders
  <1>0. Control' /\ (state # "pending" <=> state = "finished")
    BY FinishControl DEF Control, TypeOK
  <1>1. CASE StoreState
    <2>1. UNCHANGED Waiting
      BY <1>1 DEF StoreState, Waiting
    <2> QED BY <1>0, <1>1, <2>1 DEF StoreState, Stays, Control, Flushing
  <1>2. CASE FlushLoad \/ FlushCasFails \/ FlushLock
    <2>1. UNCHANGED Waiting
      BY <1>2 DEF FlushLoad, FlushCasFails, FlushLock, Waiting
    <2> QED BY <1>2, <2>1 DEF FlushLoad, FlushCasFails, FlushLock, Stays
  <1>3. CASE FlushCasSucceeds
    <2>1. cell'.is_vector = cell.is_vector /\ cell'.ptr = cell.ptr
      BY <1>3 DEF FlushCasSucceeds, Control, TypeOK, Cells
    <2>2. UNCHANGED Waiting
      BY <1>3, <2>1 DEF FlushCasSucceeds, Waiting
    <2> QED BY <1>3, <2>2 DEF FlushCasSucceeds, Stays
  <1>4. CASE FlushInline
    <2>1. /\ ~ cell.is_vector /\ fdata.ptr = cell.ptr /\ fpc = "inline" /\ fpc' = "done"
          /\ UNCHANGED cell /\ state = "finished"
      BY <1>0, <1>4 DEF FlushInline, Control, Flushing
    <2>2. Waiting' = <<>>
      BY <2>1 DEF Waiting
    <2>3. CASE cell.ptr = None
      <3>1. Waiting = <<>>
        BY <2>1, <2>3 DEF Waiting
      <3> QED BY <1>4, <2>1, <2>2, <2>3, <3>1 DEF FlushInline, Stays
    <2>4. CASE cell.ptr # None
      <3>1. Waiting = <<cell.ptr>>
        BY <2>1, <2>4 DEF Waiting
      <3>2. Waiting # <<>> /\ Head(Waiting) = cell.ptr /\ Tail(Waiting) = <<>>
        BY <3>1
      <3> QED BY <1>4, <2>1, <2>2, <2>4, <3>2 DEF FlushInline, Flushes, Schedule
    <2> QED BY <2>3, <2>4
  <1>5. CASE FlushOne
    <2>1. /\ fpc = "flush" /\ cell.is_vector /\ state = "finished"
          /\ vector \in Seq(Conts) /\ fnext \in 1..Len(vector)
          /\ Len(vector) \in fnext..Len(vector)
          /\ fnext' = fnext + 1 /\ UNCHANGED <<cell, vector>>
      BY <1>0, <1>5 DEF FlushOne, Control, TypeOK, Flushing
    <2>2. /\ Waiting = SubSeq(vector, fnext, Len(vector))
          /\ Waiting' = SubSeq(vector, fnext + 1, Len(vector))
      BY <2>1 DEF Waiting
    <2>3. Head(Waiting) = vector[fnext] /\ Waiting' = Tail(Waiting)
      BY <2>1, <2>2, HeadTailOfSubSeq
    <2>4. Waiting # <<>>
      <3>1. \A i \in fnext..Len(vector) : vector[i] \in Conts
        BY <2>1
      <3>2. Len(Waiting) = Len(vector) - fnext + 1
        BY <2>1, <2>2, <3>1, SubSeqProperties
      <3> QED BY <2>1, <3>2
    <2> QED BY <1>5, <2>1, <2>3, <2>4 DEF FlushOne, Flushes, Schedule
  <1>6. CASE FlushClear
    <2>1. /\ fpc = "flush" /\ cell.is_vector /\ fnext > Len(vector)
          /\ fnext \in Int /\ Len(vector) \in Int
      BY <1>6 DEF FlushClear, Control, TypeOK, Flushing
    <2>2. Waiting = <<>>
      BY <2>1, SubSeqEmpty DEF Waiting
    <2>3. Waiting' = <<>>
      <3>1. fpc' = "done" /\ fnext' = fnext /\ vector' = <<>> /\ cell' = cell
        BY <1>6 DEF FlushClear
      <3>2. Len(vector') < fnext'
        BY <3>1, <1>0 DEF Control, TypeOK
      <3>3. SubSeq(vector', fnext', Len(vector')) = <<>>
        BY <2>1, <3>1, <3>2, SubSeqEmpty
      <3> QED BY <2>1, <3>1, <3>3 DEF Waiting
    <2> QED BY <1>6, <2>2, <2>3 DEF FlushClear, Stays
  <1>7. CASE Destroy
    <2>1. cell' = cell /\ fpc = "done" /\ vector = <<>>
      BY <1>7 DEF Destroy, Quiet, Control, Flushing
    <2>2. UNCHANGED Waiting
      BY <1>7, <2>1 DEF Destroy, Waiting
    <2> QED BY <1>7, <2>2 DEF Destroy, Stays
  <1> QED BY <1>1, <1>2, <1>3, <1>4, <1>5, <1>6, <1>7 DEF FinishStep

-----------------------------------------------------------------------------
(* Each effect keeps every continuation in one place. *)

PcType == pc \in [Conts -> Early \union {"added", "ran"}]

\* The types Placed needs.
LEMMA PcTyped == Control => PcType /\ runs \in [Conts -> Nat]
  BY DEF Control, TypeOK, PcType, Early

\* The initial states satisfy Placed.
LEMMA InitPlaced == Init => Placed
  <1> SUFFICES ASSUME Init PROVE Placed
    OBVIOUS
  <1>1. Waiting = <<>>
    BY DEF Init, Cell, Waiting
  <1> QED BY <1>1 DEF Init, Placed, Waits, Early

\* A continuation that is attached waits in one place.
LEMMA AttachPlaced ==
    ASSUME Control, Placed, NEW c \in Conts, Attaches(c)
    PROVE  Placed'
  <1> USE NoneAssumption
  <1>0. Waiting \in Seq(Conts) /\ PcType /\ ~ Waits(c) /\ runs[c] = 0
    BY WaitingIsSeq, PcTyped DEF Attaches, Placed, Early
  <1>1. /\ Len(Waiting') = Len(Waiting) + 1 /\ Len(Waiting) \in Nat
        /\ \A k \in 1..Len(Waiting) : Waiting'[k] = Waiting[k]
        /\ Waiting'[Len(Waiting) + 1] = c
    BY <1>0, AppendProperties DEF Attaches
  <1>2. \A d \in Conts : Waits(d)' <=> Waits(d) \/ d = c
    BY <1>1 DEF Waits
  <1>3. \A j, k \in 1..Len(Waiting') : Waiting'[j] = Waiting'[k] => j = k
    BY <1>0, <1>1 DEF Waits, Placed
  <1>4. ASSUME NEW d \in Conts
        PROVE  /\ Waits(d)' => pc'[d] = "added" /\ runs'[d] = 0
               /\ pc'[d] \in Early => runs'[d] = 0
               /\ pc'[d] = "added" => runs'[d] = 1 \/ (runs'[d] = 0 /\ Waits(d)')
               /\ pc'[d] = "ran" => runs'[d] = 1
    <2>1. CASE d = c
      BY <1>0, <1>2, <2>1 DEF Attaches, Early, PcType
    <2>2. CASE d # c
      BY <1>0, <1>2, <2>2 DEF Attaches, Placed, PcType
    <2> QED BY <2>1, <2>2
  <1> QED BY <1>3, <1>4 DEF Placed

\* A continuation that is scheduled waits no longer and has run once.
LEMMA FlushPlaced ==
    ASSUME Control, Placed, Flushes
    PROVE  Placed' /\ Head(Waiting) \in Conts
  <1>0. PICK c \in Conts :
           /\ Waiting \in Seq(Conts) /\ Waiting # <<>> /\ c = Head(Waiting)
           /\ runs \in [Conts -> Nat] /\ c = Waiting[1]
           /\ Len(Waiting) \in Nat /\ Len(Waiting) >= 1
    BY WaitingIsSeq, EmptySeq DEF Control, TypeOK, Flushes
  <1>1. /\ Len(Waiting') = Len(Waiting) - 1
        /\ \A k \in 1..Len(Waiting') : Waiting'[k] = Waiting[k + 1]
    BY <1>0, HeadTailProperties DEF Flushes
  <1>2. Waits(c) /\ ~ Waits(c)' /\ pc[c] = "added" /\ runs[c] = 0
    <2>1. Waits(c)
      BY <1>0 DEF Waits
    <2>2. ~ Waits(c)'
      <3> SUFFICES ASSUME NEW k \in 1..Len(Waiting'), Waiting'[k] = c PROVE FALSE
        BY DEF Waits
      <3>1. k + 1 \in 1..Len(Waiting) /\ 1 \in 1..Len(Waiting) /\ k + 1 # 1
        BY <1>0, <1>1
      <3>2. Waiting[k + 1] = Waiting[1]
        BY <1>0, <1>1
      <3> QED BY <3>1, <3>2 DEF Placed
    <2> QED BY <1>0, <2>1, <2>2 DEF Placed
  <1>3. \A d \in Conts : d # c => (Waits(d)' <=> Waits(d))
    <2> SUFFICES ASSUME NEW d \in Conts, d # c PROVE Waits(d)' <=> Waits(d)
      OBVIOUS
    <2>1. Waits(d)' => Waits(d)
      BY <1>0, <1>1 DEF Waits
    <2>2. ASSUME NEW k \in 1..Len(Waiting), Waiting[k] = d PROVE Waits(d)'
      <3>1. k - 1 \in 1..Len(Waiting')
        BY <1>0, <1>1, <2>2
      <3>2. Waiting'[k - 1] = d
        BY <1>1, <2>2, <3>1
      <3> QED BY <3>1, <3>2 DEF Waits
    <2> QED BY <2>1, <2>2 DEF Waits
  <1>4. \A j, k \in 1..Len(Waiting') : Waiting'[j] = Waiting'[k] => j = k
    BY <1>0, <1>1 DEF Placed
  <1>5. \A d \in Conts : runs'[d] = IF d = c THEN 1 ELSE runs[d]
    BY <1>0, <1>2 DEF Flushes
  <1>b. pc' = pc
    BY DEF Flushes
  <1>6. ASSUME NEW d \in Conts
        PROVE  /\ Waits(d)' => pc'[d] = "added" /\ runs'[d] = 0
               /\ pc'[d] \in Early => runs'[d] = 0
               /\ pc'[d] = "added" => runs'[d] = 1 \/ (runs'[d] = 0 /\ Waits(d)')
               /\ pc'[d] = "ran" => runs'[d] = 1
    <2>1. CASE d = c
      BY <1>2, <1>5, <1>b, <2>1 DEF Early
    <2>2. CASE d # c
      BY <1>3, <1>5, <1>b, <2>2 DEF Placed
    <2> QED BY <2>1, <2>2
  <1>7. Placed'
    BY <1>4, <1>6 DEF Placed
  <1> QED BY <1>0, <1>7

\* So has one that came too late and runs at once.
LEMMA RunPlaced ==
    ASSUME Control, Placed, NEW c \in Conts, RunsNow(c)
    PROVE  Placed'
  <1>0. PcType /\ runs \in [Conts -> Nat] /\ ~ Waits(c) /\ runs[c] = 0
    BY PcTyped DEF RunsNow, Placed, Early
  <1>a. \A d \in Conts : Waits(d)' <=> Waits(d)
    BY DEF RunsNow, Waits
  <1>1. ASSUME NEW d \in Conts
        PROVE  /\ Waits(d)' => pc'[d] = "added" /\ runs'[d] = 0
               /\ pc'[d] \in Early => runs'[d] = 0
               /\ pc'[d] = "added" => runs'[d] = 1 \/ (runs'[d] = 0 /\ Waits(d)')
               /\ pc'[d] = "ran" => runs'[d] = 1
    <2>1. CASE d = c
      BY <1>0, <1>a, <2>1 DEF RunsNow, Early, PcType
    <2>2. CASE d # c
      BY <1>0, <1>a, <2>2 DEF RunsNow, Placed, PcType
    <2> QED BY <2>1, <2>2
  <1>2. \A j, k \in 1..Len(Waiting') : Waiting'[j] = Waiting'[k] => j = k
    BY DEF RunsNow, Placed
  <1> QED BY <1>1, <1>2 DEF Placed

\* Other steps leave them where they are.
LEMMA StayPlaced ==
    ASSUME Placed, Stays
    PROVE  Placed'
  <1>1. \A d \in Conts : Waits(d)' <=> Waits(d)
    BY DEF Stays, Waits
  <1>2. \A j, k \in 1..Len(Waiting') : Waiting'[j] = Waiting'[k] => j = k
    BY DEF Stays, Placed
  <1> QED BY <1>1, <1>2 DEF Stays, Placed, Early

\* Every step has one of the four effects.
LEMMA Effects ==
    ASSUME Control, [Next]_vars
    PROVE  (\E c \in Conts : Attaches(c) \/ RunsNow(c)) \/ Flushes \/ Stays
  <1>1. CASE UNCHANGED vars
    <2>1. UNCHANGED Waiting
      BY <1>1 DEF vars, atomic, slow, finisher, Waiting
    <2> QED BY <1>1, <2>1 DEF vars, atomic, adders, Stays
  <1>2. CASE Next
    BY <1>2, AddEffect, FinishEffect DEF Next
  <1> QED BY <1>1, <1>2

\* Every step preserves the invariant.
LEMMA StepInv == IInv /\ [Next]_vars => IInv'
  <1> SUFFICES ASSUME Control, Placed, [Next]_vars PROVE Control' /\ Placed'
    BY DEF IInv
  <1> QED BY StepControl, Effects, AttachPlaced, FlushPlaced, RunPlaced, StayPlaced

-----------------------------------------------------------------------------
(* The theorems. *)

\* The inductive invariant holds in every state: see Control and Placed.
THEOREM Invariance == Spec => []IInv
  <1>1. Init => IInv
    BY InitControl, InitPlaced DEF IInv
  <1> QED BY <1>1, StepInv, PTL DEF Spec

\* Every variable has its type, and a vector has at least two elements until it
\* is flushed.
THEOREM TypeCorrect == Spec => []TypeOK
  <1>1. IInv => TypeOK
    BY DEF IInv, Control
  <1> QED BY <1>1, Invariance, PTL

\* No continuation is pushed into a vector that is being flushed or was flushed.
THEOREM PushesInTime == Spec => []NoLatePush
  <1>1. IInv => NoLatePush
    BY DEF IInv, Control, Exclusive
  <1> QED BY <1>1, Invariance, PTL

\* Each continuation has one owner: none is lost, and none scheduled twice.
THEOREM EachHasOneOwner == Spec => []OneOwner
  <1>1. ASSUME IInv, NEW c \in Conts
        PROVE  LET places == {k \in 1..Len(Waiting) : Waiting[k] = c}
               IN  /\ ~ Waits(c) => places = {}
                   /\ Waits(c) => Cardinality(places) = 1 /\ ~ Quiet
    <2> DEFINE places == {k \in 1..Len(Waiting) : Waiting[k] = c}
    <2>1. ~ Waits(c) => places = {}
      BY DEF Waits
    <2>2. ASSUME Waits(c) PROVE Cardinality(places) = 1
      <3>1. PICK k \in 1..Len(Waiting) : Waiting[k] = c
        BY <2>2 DEF Waits
      <3>2. places = {k}
        BY <1>1, <3>1 DEF IInv, Placed
      <3> QED BY <3>2, FS_Singleton
    <2>3. ASSUME Waits(c) PROVE ~ Quiet
      <3>1. Waiting # <<>>
        BY <2>3 DEF Waits
      <3> QED BY <1>1, <3>1, WaitingIsSeq DEF Quiet, IInv
    <2> QED BY <2>1, <2>2, <2>3
  <1>2. ASSUME IInv PROVE OneOwner
    <2>1. ASSUME NEW c \in Conts
          PROVE  /\ pc[c] \in Early => ~ Waits(c) /\ runs[c] = 0
                 /\ pc[c] = "added" => (runs[c] = 0 /\ Waits(c)) \/ (runs[c] = 1 /\ ~ Waits(c))
                 /\ pc[c] = "ran" => ~ Waits(c) /\ runs[c] = 1
                 /\ pc[c] \in Early \union {"added", "ran"}
      BY <1>2 DEF IInv, Control, TypeOK, Placed, Early
    <2> QED BY <1>1, <1>2, <2>1 DEF OneOwner, Early
  <1> QED BY <1>2, Invariance, PTL

\* The word and the vector implement Continuations: each attaching thread and
\* the finishing thread act on the continuations that wait in one atomic step,
\* in the order of that specification.  (Its fairness is left to TLC.)
THEOREM RefinesContinuations == Spec => C!Init /\ [][C!Next]_(C!vars)
  <1>1. Init => C!Init
    <2> SUFFICES ASSUME Init PROVE C!Init
      OBVIOUS
    <2>1. Waiting = <<>>
      BY DEF Init, Cell, Waiting
    <2> QED BY <2>1 DEF Init, C!Init
  <1>2. IInv /\ [Next]_vars => [C!Next]_(C!vars)
    <2> SUFFICES ASSUME IInv, [Next]_vars PROVE [C!Next]_(C!vars)
      OBVIOUS
    <2> USE DEF IInv
    <2>1. \A c \in Conts : C!IsWaiting(c) <=> Waits(c)
      BY DEF C!IsWaiting, Waits
    <2>2. ASSUME NEW c \in Conts, Attaches(c) PROVE C!Attach(c)
      BY <2>1, <2>2 DEF Attaches, C!Attach, Placed, Early
    <2>3. ASSUME NEW c \in Conts, RunsNow(c) PROVE C!RunNow(c)
      BY <2>1, <2>3 DEF RunsNow, C!RunNow, Placed, Early
    <2>4. ASSUME Flushes PROVE C!Flush
      BY <2>4 DEF Flushes, C!Flush
    <2>5. ASSUME Stays PROVE C!Finish \/ UNCHANGED C!vars
      BY <2>5 DEF Stays, C!Finish, C!vars
    <2> QED BY <2>2, <2>3, <2>4, <2>5, Effects DEF C!Next
  <1> QED BY <1>1, <1>2, Invariance, PTL DEF Spec


-----------------------------------------------------------------------------
(* PoolLocks: the vector together with the lock of a pool. *)

\* Every step of the composition is a step of the vector or none.
LEMMA PoolStep == [PoolNext]_allVars => [Next]_vars
  <1>1. CASE FinisherStep
    BY <1>1 DEF FinisherStep, FinishOther, DeliverInline, DeliverOne, ScheduleTest,
                ScheduleInside, FinishStep, Next
  <1>2. ASSUME NEW w \in Waiters, WaiterStep(w) PROVE [Next]_vars
    <2>1. w \in Conts
      BY WaitersAssumption
    <2> QED BY <1>2, <2>1 DEF WaiterStep, GiveUp, Attach, Sleep, Wake, Leave, Next
  <1>3. ASSUME NEW c \in Conts \ Waiters, ThenAdd(c) \/ ThenRun(c) PROVE [Next]_vars
    BY <1>3 DEF ThenAdd, ThenRun, AddStep, Next
  <1>4. CASE UNCHANGED allVars
    BY <1>4 DEF allVars
  <1> QED BY <1>1, <1>2, <1>3, <1>4 DEF PoolNext

\* A continuation that has run stays where it is.
LEMMA HasRun ==
    ASSUME IInv, IInv', [Next]_vars, NEW c \in Conts, pc[c] \in {"added", "ran"}
    PROVE  pc'[c] = pc[c] /\ (runs[c] = 1 => runs'[c] = 1)
  <1>0. /\ PcType /\ runs \in [Conts -> Nat] /\ Control /\ pc[c] \notin Early
        /\ runs'[c] = 0 \/ runs'[c] = 1
    <2>1. PcType /\ runs \in [Conts -> Nat] /\ Control /\ pc[c] \notin Early
      BY PcTyped DEF IInv, Early
    <2>2. Placed' /\ PcType'
      BY DEF IInv, Control, TypeOK, PcType, Early
    <2>3. pc'[c] \in Early \/ pc'[c] = "added" \/ pc'[c] = "ran"
      BY <2>2 DEF PcType
    <2>4. runs'[c] = 0 \/ runs'[c] = 1
      BY <2>2, <2>3 DEF Placed
    <2> QED BY <2>1, <2>4
  <1>1. ASSUME NEW d \in Conts, Attaches(d) PROVE pc'[c] = pc[c] /\ runs'[c] = runs[c]
    BY <1>0, <1>1 DEF Attaches, PcType
  <1>2. ASSUME NEW d \in Conts, RunsNow(d) PROVE pc'[c] = pc[c] /\ runs'[c] = runs[c]
    BY <1>0, <1>2 DEF RunsNow, PcType, Early
  <1>3. CASE Flushes
    <2>1. PICK x : runs' = [runs EXCEPT ![x] = @ + 1] /\ pc' = pc
      BY <1>3 DEF Flushes
    <2>2. runs'[c] = runs[c] \/ runs'[c] = runs[c] + 1
      BY <1>0, <2>1
    <2> QED BY <1>0, <2>1, <2>2
  <1>4. CASE Stays
    BY <1>0, <1>4 DEF Stays
  <1> QED BY <1>0, <1>1, <1>2, <1>3, <1>4, Effects

\* A worker holds impl->lock while it attaches its continuation, is in the list
\* only while it sleeps, and returns when its continuation has run, or without
\* having attached it.
WaitsRight ==
    /\ sleepers \subseteq Waiters
    /\ wpc \in [Waiters -> {"awake", "locked", "asleep", "returned"}]
    /\ \A w \in Waiters :
          /\ wpc[w] = "locked" <=> lock = w
          /\ w \in sleepers => wpc[w] = "asleep"
          /\ wpc[w] = "asleep" => pc[w] \in {"added", "ran"}
          /\ wpc[w] = "awake" => pc[w] \in {"new", "added", "ran"}
          /\ wpc[w] = "returned" =>
                \/ pc[w] = "new"
                \/ pc[w] \in {"added", "ran"} /\ runs[w] = 1

\* Steps that only take sleepers off the list leave this as it is, when they
\* leave the continuations of waiting workers alone.
LEMMA OthersWait ==
    ASSUME WaitsRight, UNCHANGED <<lock, wpc>>, sleepers' \subseteq sleepers,
           \A w \in Waiters : /\ pc'[w] = pc[w] \/ wpc[w] = "locked"
                              /\ wpc[w] = "returned" => pc[w] = "new" \/ runs'[w] = 1
    PROVE  WaitsRight'
  BY DEF WaitsRight


\* The steps of a worker.
LEMMA WaiterKeeps ==
    ASSUME IInv, IInv', [Next]_vars, WaitsRight, NEW w \in Waiters, WaiterStep(w)
    PROVE  WaitsRight'
  <1>0. w \in Conts /\ Free \notin Waiters /\ w # Free
    BY WaitersAssumption, NoneAssumption DEF Free
  <1>1. CASE Attach(w)
    <2>1. /\ wpc[w] = "locked" /\ \A c \in Conts : c # w => pc'[c] = pc[c]
      BY <1>0, <1>1, PcTyped
         DEF IInv, PcType, Attach, AddStep, CheckState, LoadData, CasSucceeds, CasFails,
             Prepare, LockVector, Recheck, PushBack, RunDirectly, adders
    <2>2. \A v \in Waiters : wpc[v] = "returned" => pc[v] = "new" \/ runs'[v] = 1
      BY WaitersAssumption, HasRun DEF WaitsRight
    <2>3. \A v \in Waiters : pc'[v] = pc[v] \/ wpc[v] = "locked"
      BY <2>1, WaitersAssumption
    <2> QED BY <1>1, <2>2, <2>3, OthersWait DEF Attach, pool
  <1>2. CASE GiveUp(w)
    BY <1>0, <1>2 DEF GiveUp, Loop, WaitsRight, vars, adders
  <1>3. CASE Sleep(w)
    BY <1>0, <1>3 DEF Sleep, Loop, WaitsRight, vars, adders
  <1>4. CASE Wake(w)
    BY <1>0, <1>4 DEF Wake, Loop, WaitsRight, vars, adders, Signalled
  <1>5. CASE Leave(w)
    <2>1. pc[w] = "new" \/ (pc[w] \in {"added", "ran"} /\ runs[w] = 1)
      <3>1. wpc[w] = "awake" /\ (pc[w] = "new" \/ runs[w] = 1)
        BY <1>5 DEF Leave, Signalled
      <3>2. pc[w] \in {"new", "added", "ran"}
        BY <3>1 DEF WaitsRight
      <3> QED BY <3>1, <3>2
    <2>2. /\ wpc[w] = "awake" /\ wpc' = [wpc EXCEPT ![w] = "returned"]
          /\ UNCHANGED <<lock, sleepers, pc, runs>>
      BY <1>5 DEF Leave, Loop, vars, adders
    <2> QED BY <2>1, <2>2 DEF WaitsRight
  <1> QED BY <1>1, <1>2, <1>3, <1>4, <1>5 DEF WaiterStep

\* The steps of the others: the thread that finishes the task, and those that
\* attach the other continuations.
LEMMA OthersKeep ==
    ASSUME IInv, IInv', [Next]_vars, WaitsRight,
           FinisherStep \/ \E c \in Conts \ Waiters : ThenAdd(c) \/ ThenRun(c)
    PROVE  WaitsRight'
  <1>1. \A v \in Waiters : wpc[v] = "returned" => pc[v] = "new" \/ runs'[v] = 1
    BY WaitersAssumption, HasRun DEF WaitsRight
  <1>2. UNCHANGED <<lock, wpc>> /\ sleepers' \subseteq sleepers
    BY DEF FinisherStep, FinishOther, DeliverInline, DeliverOne, Deliver, ThenAdd, ThenRun,
           ScheduleTest, ScheduleInside, ScheduleOutside, WakeSleeper, pool
  <1>3. \A v \in Waiters : pc'[v] = pc[v]
    <2>1. CASE FinisherStep
      <3>1. CASE FinishOther \/ DeliverInline \/ DeliverOne
        BY <3>1 DEF FinishOther, DeliverInline, DeliverOne, StoreState, FlushLoad,
                    FlushCasSucceeds, FlushCasFails, FlushInline, FlushLock, FlushOne,
                    FlushClear, adders
      <3>2. CASE ScheduleTest \/ ScheduleInside
        BY <3>2 DEF ScheduleTest, ScheduleInside, vars, adders
      <3> QED BY <2>1, <3>1, <3>2 DEF FinisherStep
    <2>2. ASSUME NEW c \in Conts \ Waiters, ThenAdd(c) \/ ThenRun(c)
          PROVE  \A v \in Waiters : pc'[v] = pc[v]
      <3>1. \A d \in Conts : d # c => pc'[d] = pc[d]
        BY <2>2, PcTyped, ZenonT(30)
           DEF IInv, PcType, ThenAdd, ThenRun, AddStep, CheckState, LoadData, CasSucceeds,
               CasFails, Prepare, LockVector, Recheck, PushBack, RunDirectly, adders
      <3> QED BY <3>1, WaitersAssumption
    <2> QED BY <2>1, <2>2
  <1> QED BY <1>1, <1>2, <1>3, OthersWait

\* The composition keeps the promises of the vector: its proofs hold there too.
THEOREM PoolKeepsVector == PoolSpec => Spec
  <1>1. PoolInit => Init
    BY DEF PoolInit
  <1> QED BY <1>1, PoolStep, PTL DEF PoolSpec, Spec

\* Who sleeps, and who has the lock, together with what the vector guarantees.
LEMMA PoolInvariance == PoolSpec => [](IInv /\ WaitsRight)
  <1>1. PoolInit => WaitsRight
    BY WaitersAssumption, NoneAssumption DEF PoolInit, Init, WaitsRight, Free
  <1>2. IInv /\ IInv' /\ WaitsRight /\ [PoolNext]_allVars => WaitsRight'
    <2> SUFFICES ASSUME IInv, IInv', WaitsRight, [PoolNext]_allVars PROVE WaitsRight'
      OBVIOUS
    <2>1. CASE UNCHANGED allVars
      BY <2>1 DEF allVars, vars, adders, pool, WaitsRight
    <2>2. CASE PoolNext
      BY <2>2, PoolStep, WaiterKeeps, OthersKeep DEF PoolNext
    <2> QED BY <2>1, <2>2
  <1> QED BY <1>1, <1>2, Invariance, PoolKeepsVector, PTL DEF PoolSpec

\* A wait that has returned left nothing behind: the worker is not in the list of
\* sleepers, and no continuation will signal its event.
THEOREM WaitLeavesNothing == PoolSpec => []ReturnedClean
  <1>1. IInv /\ WaitsRight => ReturnedClean
    <2> SUFFICES ASSUME IInv, WaitsRight, NEW w \in Waiters, wpc[w] = "returned"
                 PROVE  /\ w \notin sleepers /\ lock # w
                        /\ Unattached(w) \/ runs[w] = 1
                        /\ \A k \in 1..Len(Waiting) : Waiting[k] # w
      BY DEF ReturnedClean
    <2>1. w \notin sleepers /\ lock # w /\ (Unattached(w) \/ runs[w] = 1)
      BY DEF WaitsRight, Unattached
    <2>2. ~ Waits(w)
      BY <2>1, WaitersAssumption DEF IInv, Placed, Early, Unattached
    <2> QED BY <2>1, <2>2 DEF Waits
  <1> QED BY <1>1, PoolInvariance, PTL
=============================================================================
