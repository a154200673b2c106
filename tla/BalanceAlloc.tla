---------------------------- MODULE BalanceAlloc ----------------------------
(***************************************************************************)
(* balance_alloc_gpu, _planning_gpu.py:394-431: the host computes the      *)
(* quotas (module TransferQuotas), launches balance_distribute_kernel with *)
(* one CTA per home group, and checks the allocation it gets back.         *)
(***************************************************************************)
EXTENDS TransferQuotas

VARIABLES
    alloc,          \* alloc[e][d]: the tokens of expert e that rank d computes
    remaining,      \* tokens of expert e that its home CTA has not given away
    quotas,         \* CTA h's copy of z[h], counted down
    iter,           \* iterations of the loop of CTA h
    pc              \* "load", "loop" or "exit" for each CTA

kernelVars == <<alloc, remaining, quotas, iter, pc>>
vars == <<quotaVars, kernelVars>>

\* max_iter of the kernel.
MaxIter == ExpertsPerRank * NumRanks

\* The host allocates zeroed tensors for the kernel.
Init ==
    /\ QuotaInit
    /\ alloc = [e \in Experts |-> [d \in Ranks |-> 0]]
    /\ remaining = [e \in Experts |-> 0]
    /\ quotas = ZeroMatrix
    /\ iter = [h \in Ranks |-> 0]
    /\ pc = [h \in Ranks |-> "load"]

HostQuotas == QuotaNext /\ UNCHANGED kernelVars

\* The two loops that load the counts of the owned experts and the quotas.
LoadRows(h) ==
    /\ stage = "distribute"
    /\ pc[h] = "load"
    /\ remaining' = [e \in Experts |-> IF e \in Owned(h) THEN counts[e] ELSE remaining[e]]
    /\ alloc' = [e \in Experts |-> IF e \in Owned(h)
                                   THEN [alloc[e] EXCEPT ![h] = counts[e]]
                                   ELSE alloc[e]]
    /\ quotas' = [quotas EXCEPT ![h] = z[h]]
    /\ pc' = [pc EXCEPT ![h] = "loop"]
    /\ UNCHANGED <<quotaVars, iter>>

\* Mutant of MostLeft: any expert that has tokens left may give them.
AnyLeft(h, e) == e \in Owned(h) /\ remaining[e] > 0

\* CTA h has an iteration left and a quota to serve; expert e has most left.
Serving(h) == iter[h] < MaxIter /\ \E d \in Ranks : quotas[h][d] > 0
MostLeft(h, e) == IsFirstMax(remaining, Owned(h), e)

\* An iteration with a quota left: the largest quota takes what it can from the
\* owned expert with most left.
Take(h) ==
    /\ pc[h] = "loop"
    /\ Serving(h)
    /\ \E d \in Ranks, e \in Owned(h) :
        /\ IsFirstMax(quotas[h], Ranks, d)
        /\ MostLeft(h, e)
        /\ LET take == Portion(remaining[e], quotas[h][d])
           IN  /\ alloc' = [alloc EXCEPT ![e] = Give(@, d, h, take)]
               /\ remaining' = [remaining EXCEPT ![e] = @ - take]
               /\ quotas' = [quotas EXCEPT ![h][d] = @ - take]
    /\ iter' = [iter EXCEPT ![h] = @ + 1]
    /\ UNCHANGED <<quotaVars, pc>>

\* The loop runs out, or does nothing in the iterations it has left.
Exit(h) ==
    /\ pc[h] = "loop"
    /\ ~Serving(h)
    /\ pc' = [pc EXCEPT ![h] = "exit"]
    /\ UNCHANGED <<quotaVars, alloc, remaining, quotas, iter>>

\* The host reads the allocation back, checks it and raises if it is wrong.
Check ==
    /\ stage = "distribute"
    /\ \A h \in Ranks : pc[h] = "exit"
    /\ stage' = IF AllocChecks(counts, alloc) THEN "checked" ELSE "raised"
    /\ UNCHANGED <<counts, balance, z, round, kernelVars>>

CTA(h) == LoadRows(h) \/ Take(h) \/ Exit(h)

Next == HostQuotas \/ Check \/ \E h \in Ranks : CTA(h)

Spec == Init /\ [][Next]_vars

\* The host and the CTAs of the kernel go on.
FairSpec == Spec /\ WF_vars(HostQuotas) /\ WF_vars(Check) /\ \A h \in Ranks : WF_vars(CTA(h))

-----------------------------------------------------------------------------
TypeOK ==
    /\ QuotaTypeOK
    /\ alloc \in [Experts -> [Ranks -> Int]]
    /\ remaining \in [Experts -> Int]
    /\ quotas \in [Ranks -> [Ranks -> Int]]
    /\ iter \in [Ranks -> 0 .. MaxIter]
    /\ pc \in [Ranks -> {"load", "loop", "exit"}]

\* A CTA gives tokens of an expert away only as long as it has them: what is
\* left of an expert is exactly what its home rank still computes, and no entry
\* of the allocation is ever negative.
HomeShare ==
    \A e \in Experts :
        /\ pc[Home(e)] # "load" => remaining[e] = alloc[e][Home(e)]
        /\ \A d \in Ranks : alloc[e][d] >= 0

\* A rank computes experts of at most one home group besides its own.
SingleHome ==
    \A d \in Ranks : \A e1, e2 \in RemoteExperts(alloc, d) : Home(e1) = Home(e2)

\* The allocation is a function of the counts, whatever the interleaving of the
\* CTAs: all ranks compute it on their own and must agree.
Deterministic == stage = "checked" => alloc = Alloc(counts)

\* Planning gets an allocation: the epn * R iterations of the loop are enough for
\* every quota, and neither assertion of balance_alloc_gpu fails.
Completes == <>(stage = "checked")

\* Phase B implements its abstract specification; the allocation is seen once
\* it has been checked.
Promise == INSTANCE Allocation WITH
    alloc <- IF stage = "checked" THEN alloc ELSE [e \in Experts |-> [d \in Ranks |-> 0]],
    ready <- stage = "checked"

ImplementsAllocation == Promise!Spec
=============================================================================
