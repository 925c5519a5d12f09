------------------------ MODULE TaskWaitEvent_proofs ------------------------
(***************************************************************************)
(* Proofs about TaskWaitEvent, for any set of threads that schedule work.  *)
(***************************************************************************)
EXTENDS TaskWaitEvent, TLAPS

-----------------------------------------------------------------------------
(* The inductive invariant. *)

\* The mutex is held by the thread inside wait(), or inside signal(), and by
\* nobody else.
MutexHeld ==
    /\ mutex = Waiter <=> wpc = "test"
    /\ \A s \in Signallers : mutex = s => spc[s] \in {"notify", "unlock"}

\* schedule() has impl->lock from before signal() until the event is off the
\* list; the finisher never has it, and never signals twice.
LockHeld ==
    /\ \A s \in Pokers :
          spc[s] \in {"lock", "notify", "unlock", "unlist"} <=> lock = s
    /\ \A s \in Pokers : spc[s] # "done"
    /\ spc[Finisher] # "unlist"

\* The event is in the list only while the waiter sleeps, or is about to leave
\* the list, and as long as somebody who found it there has the lock.
Listed ==
    /\ lock # Nobody => listed
    /\ listed => wpc \in {"enter", "test", "cond", "relock"}
    /\ blocked => wpc = "cond"

\* The waiter knows that the task has finished only when the finisher has left
\* signal(), or is inside it.
FinishSeen ==
    /\ "finished" \in mask => spc[Finisher] \in {"notify", "unlock", "done"}
    /\ wpc = "relock" /\ "finished" \in got => spc[Finisher] = "done"
    /\ wpc = "gone" => spc[Finisher] = "done"

IInv == TypeOK /\ MutexHeld /\ LockHeld /\ Listed /\ FinishSeen /\ NoMissedNotify

-----------------------------------------------------------------------------

\* The initial states satisfy the invariant.
LEMMA InitInv == Init => IInv
  BY EventAssumption
     DEF Init, IInv, TypeOK, MutexHeld, LockHeld, Listed, FinishSeen, NoMissedNotify,
         Signallers

\* The steps of the waiter, one per action.
LEMMA WaiterInv ==
    ASSUME IInv, WaiterStep \/ Spurious
    PROVE  IInv'
  <1> USE EventAssumption
      DEF IInv, TypeOK, MutexHeld, LockHeld, Listed, FinishSeen, NoMissedNotify,
          Signallers, event, pool, waiter, Step
  <1>1. CASE List BY <1>1 DEF List
  <1>2. CASE Enter BY <1>2 DEF Enter
  <1>3. CASE Block BY <1>3 DEF Block
  <1>4. CASE Take BY <1>4 DEF Take
  <1>5. CASE Unlist BY <1>5 DEF Unlist
  <1>6. CASE TryWait BY <1>6 DEF TryWait
  <1>7. CASE Spurious BY <1>7 DEF Spurious
  <1> QED BY <1>1, <1>2, <1>3, <1>4, <1>5, <1>6, <1>7 DEF WaiterStep

\* The steps of a thread that signals.
LEMMA SignalInv ==
    ASSUME IInv, NEW s \in Signallers, FinishTask \/ Poke(s) \/ SignalStep(s)
    PROVE  IInv'
  <1> USE EventAssumption
      DEF IInv, TypeOK, MutexHeld, LockHeld, Listed, FinishSeen, NoMissedNotify,
          Signallers, event, pool, waiter, Go, Kind
  <1>1. CASE FinishTask BY <1>1 DEF FinishTask
  <1>2. CASE Poke(s) BY <1>2 DEF Poke
  <1>3. CASE SetMask(s) BY <1>3 DEF SetMask
  <1>4. CASE Notify(s) BY <1>4 DEF Notify
  <1>5. CASE Unlock(s) BY <1>5 DEF Unlock
  <1>6. CASE Dequeue(s) BY <1>6 DEF Dequeue
  <1> QED BY <1>1, <1>2, <1>3, <1>4, <1>5, <1>6 DEF SignalStep

-----------------------------------------------------------------------------
(* The theorems. *)

\* The inductive invariant holds in every state: who has the mutex and
\* impl->lock, and how far the finisher is.
THEOREM Invariance == Spec => []IInv
  <1>1. Init => IInv
    BY InitInv
  <1>2. IInv /\ [Next]_vars => IInv'
    <2> SUFFICES ASSUME IInv, [Next]_vars PROVE IInv'
      OBVIOUS
    <2>1. CASE Next
      BY <2>1, WaiterInv, SignalInv, EventAssumption DEF Next, Signallers
    <2>2. CASE UNCHANGED vars
      BY <2>2 DEF vars, event, pool, waiter, IInv, TypeOK, MutexHeld, LockHeld, Listed,
                  FinishSeen, NoMissedNotify
    <2> QED BY <2>1, <2>2
  <1> QED BY <1>1, <1>2, PTL DEF Spec

\* Every variable has its type, and a thread between taking and releasing the
\* mutex in signal() is the one that holds it.
THEOREM TypeCorrect == Spec => []TypeOK
  <1>1. IInv => TypeOK
    BY DEF IInv
  <1> QED BY <1>1, Invariance, PTL

\* wait() and signal() exclude one another, and so do two calls of signal():
\* task_wait_event's mutex protects the mask.
THEOREM CriticalSections ==
    Spec => [](\A s, r \in Signallers :
                  /\ spc[s] \in {"notify", "unlock"} => wpc # "test"
                  /\ spc[s] \in {"notify", "unlock"} /\ spc[r] \in {"notify", "unlock"} => s = r)
  <1>1. IInv => \A s, r \in Signallers :
                  /\ spc[s] \in {"notify", "unlock"} => wpc # "test"
                  /\ spc[s] \in {"notify", "unlock"} /\ spc[r] \in {"notify", "unlock"} => s = r
    BY EventAssumption DEF IInv, TypeOK, MutexHeld, Signallers
  <1> QED BY <1>1, Invariance, PTL

\* signal() never works on an event whose frame has returned: the waiter saw
\* the task finished only with the mutex, after the finisher had left, and left
\* the list only with impl->lock.
THEOREM EventExists == Spec => []SignalledEventExists
  <1>1. IInv => SignalledEventExists
    BY EventAssumption
       DEF IInv, TypeOK, LockHeld, Listed, FinishSeen, SignalledEventExists, Signallers
  <1> QED BY <1>1, Invariance, PTL

\* A blocked waiter with a pending event is about to be notified.
THEOREM NotifyComes == Spec => []NoMissedNotify
  <1>1. IInv => NoMissedNotify
    BY DEF IInv
  <1> QED BY <1>1, Invariance, PTL
=============================================================================
