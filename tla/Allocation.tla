----------------------------- MODULE Allocation -----------------------------
(***************************************************************************)
(* What phase B of planning promises, whatever greedy choices it makes:    *)
(* in one step, an allocation that places every token, fills every rank to *)
(* exactly Cap, and lets each rank compute the experts of at most one other*)
(* home group.                                                             *)
(***************************************************************************)
EXTENDS PlanAlloc

VARIABLES counts, alloc, ready

Unallocated == [e \in Experts |-> [d \in Ranks |-> 0]]

Balanced(c, a) ==
    /\ \A e \in Experts, d \in Ranks : a[e][d] >= 0
    /\ \A e \in Experts : Placed(a, e) = c[e]
    /\ \A d \in Ranks : Load(a, d) = Cap
    /\ \A d \in Ranks : \A e1, e2 \in RemoteExperts(a, d) : Home(e1) = Home(e2)

Init ==
    /\ SumFunction(counts) = NumRanks * Cap
    /\ alloc = Unallocated
    /\ ready = FALSE

Allocate ==
    /\ ~ready
    /\ alloc' \in [Experts -> [Ranks -> Int]]
    /\ Balanced(counts, alloc')
    /\ ready' = TRUE
    /\ UNCHANGED counts

Spec == Init /\ [][Allocate]_<<counts, alloc, ready>>
=============================================================================
