---------------------------- MODULE MCLifecycle ----------------------------
(***************************************************************************)
(* Programs of the tests and of a training script: one Buffer, destroyed by*)
(* hand or by the collector, before or after the process group is, and     *)
(* several whose lives overlap.                                            *)
(***************************************************************************)
EXTENDS Lifecycle

Create(b) == [kind |-> "create", buf |-> b]
UseOf(b) == [kind |-> "use", buf |-> b]
DestroyOf(b) == [kind |-> "destroy", buf |-> b]
Finalize(b) == [kind |-> "finalize", buf |-> b]
Drop(b) == [kind |-> "drop", buf |-> b]

EveryRank(calls) == [r \in Ranks |-> calls]

\* One after the other, the second left to the collector.
InTurn == [explicit |-> {}, calls |-> EveryRank(
    <<Create(1), UseOf(1), DestroyOf(1), Drop(1), Create(2), UseOf(2), Drop(2)>>)]

\* Both at once; the first is destroyed between two uses of the second.
Overlapping == [explicit |-> {}, calls |-> EveryRank(
    <<Create(1), Create(2), UseOf(1), UseOf(2), DestroyOf(1), UseOf(2), DestroyOf(2),
      DestroyOf(2), Drop(1), Drop(2)>>)]

\* Both are left to the collector, which takes them in another order on rank 0.
Collected == [explicit |-> {}, calls |-> [r \in Ranks |->
    <<Create(1), UseOf(1), Create(2), UseOf(2), UseOf(1)>>
        \o (IF r = 0 THEN <<Drop(1), Drop(2)>> ELSE <<Drop(2), Drop(1)>>)]]

\* One is used after it was destroyed; the other is to be destroyed explicitly and
\* never is.
Misused == [explicit |-> {2}, calls |-> EveryRank(
    <<Create(1), Create(2), UseOf(1), UseOf(2), DestroyOf(1), UseOf(1), UseOf(2),
      Drop(1), Drop(2)>>)]

\* Of three the second is used once more after the others were destroyed.
Three == [explicit |-> {}, calls |-> EveryRank(
    <<Create(1), Create(2), Create(3), UseOf(2), DestroyOf(1), DestroyOf(3), UseOf(2),
      Drop(1), Drop(2), Drop(3)>>)]

\* The process group is destroyed before the second is collected, or used again.
Exited == [explicit |-> {}, calls |-> EveryRank(
    <<Create(1), Create(2), UseOf(1), UseOf(2), DestroyOf(1), Finalize(2), UseOf(2),
      Drop(1), Drop(2)>>)]

SomePrograms == {InTurn, Overlapping, Collected, Misused, Three, Exited}
=============================================================================
