----------------------------- MODULE Partitioner -----------------------------
(***************************************************************************)
(* split() of the partitioners of include/async++/partitioner.h, and the   *)
(* way parallel_invoke.h splits its arguments.  A partitioner is a range   *)
(* of integers, from first up to but without end, with its grain size and, *)
(* for the automatic one, the number of threads it is meant for and the    *)
(* thread that split it last.                                              *)
(*                                                                         *)
(* A split leaves the first part in place (rest) and returns the other     *)
(* (sub), which is empty when the range is not to be split.                *)
(***************************************************************************)
EXTENDS Integers

CONSTANTS HardwareConcurrency, NoThread

ASSUME HardwareAssumption == HardwareConcurrency \in Nat \ {0}

Length(p) == p.end - p.first
Elements(p) == p.first .. (p.end - 1)

auto_grain_size(dist) ==
    LET grain == dist \div (8 * HardwareConcurrency)
    IN  IF grain < 1 THEN 1 ELSE IF grain > 2048 THEN 2048 ELSE grain

\* The number of threads is not initialised, and not read before it is set.
NewPartitioner(first, end, grain) ==
    [first |-> first, end |-> end, grain |-> grain, threads |-> 0, last |-> NoThread]

Whole(p) == [rest |-> p, sub |-> NewPartitioner(p.end, p.end, p.grain)]

\* Faulty variant: the part that is returned begins one element too late.
CutLate(p, i) == [rest |-> [p EXCEPT !.end = i], sub |-> [p EXCEPT !.first = i + 1]]

Cut(p, i) == [rest |-> [p EXCEPT !.end = i], sub |-> [p EXCEPT !.first = i]]

static_split(p) ==
    IF Length(p) <= p.grain THEN Whole(p)
    ELSE Cut(p, p.first + (Length(p) + 1) \div 2)

\* Faulty variant: when the number of threads is odd, one is lost.
KeepHalf(threads) == threads \div 2

\* The threads that are left for the part that stays.
Keep(threads) == threads - threads \div 2

\* A partitioner that arrives in another thread starts with all threads again.
auto_split(p, thread) ==
    LET threads == IF p.last # thread THEN HardwareConcurrency ELSE p.threads
        cut == static_split([p EXCEPT !.last = thread])
    IN  IF Length(p) <= p.grain \/ threads <= 1 THEN Whole(p)
        ELSE [rest |-> [cut.rest EXCEPT !.threads = Keep(threads)],
              sub  |-> [cut.sub EXCEPT !.threads = threads \div 2]]

\* parallel_invoke_internal: the part that stays is the smaller one.
invoke_split(p) ==
    IF Length(p) <= 1 THEN Whole(p) ELSE Cut(p, p.first + Length(p) \div 2)
=============================================================================
