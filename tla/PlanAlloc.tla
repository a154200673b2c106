------------------------------ MODULE PlanAlloc ------------------------------
(***************************************************************************)
(* Phase B of planning as a function: how many tokens of every expert each *)
(* rank computes.  Every rank evaluates it on its own copy of the          *)
(* per-expert counts and never compares the result with its peers, so it   *)
(* has to be a function of the counts alone; BalanceAlloc shows that the   *)
(* kernel computes it under every interleaving of its CTAs.                *)
(*                                                                         *)
(* The definition follows moonep_td/_planning_gpu.py:377-391 for the       *)
(* quotas and lines 316-374 for their distribution over experts.           *)
(***************************************************************************)
EXTENDS Integers, Sequences, FiniteSets, Functions

CONSTANTS
    NumRanks,           \* R, the ranks of the expert-parallel group
    ExpertsPerRank,     \* epn = E / R
    Cap                 \* ctx["NvS_capacity"] = S * K, the tokens a rank computes

ASSUME NumRanksAssumption == NumRanks \in Nat \ {0}
ASSUME ExpertsPerRankAssumption == ExpertsPerRank \in Nat \ {0}
ASSUME CapAssumption == Cap \in Nat \ {0}

Ranks == 0 .. (NumRanks - 1)
Experts == 0 .. (NumRanks * ExpertsPerRank - 1)

\* The rank that owns the weights of expert e, and the experts rank h owns.
Home(e) == e \div ExpertsPerRank
Owned(h) == {e \in Experts : Home(e) = h}

\* argmax and argmin return the first index of the extremal value.
IsFirstMax(f, D, i) ==
    /\ i \in D
    /\ \A j \in D : f[j] <= f[i] /\ (j < i => f[j] < f[i])
IsFirstMin(f, D, i) ==
    /\ i \in D
    /\ \A j \in D : f[i] <= f[j] /\ (j < i => f[i] < f[j])

\* Op applied n times to x.
Iterate(Op(_), x, n) ==
    LET run[i \in 0 .. n] == IF i = 0 THEN x ELSE Op(run[i - 1])
    IN  run[n]

ZeroMatrix == [h \in Ranks |-> [u \in Ranks |-> 0]]

\* The tokens routed to the experts of each rank.
GroupTokens(counts) == [h \in Ranks |-> SumFunctionOnSet(counts, Owned(h))]

-----------------------------------------------------------------------------
\* Mutants of the next operator: the receiver is not marked as full; the donor is
\* emptied, and not the receiver filled.
RebalanceDonorOnly(balance, h, u) == [balance EXCEPT ![h] = @ + balance[u]]
RebalanceDonorEmptied(balance, h, u) == [balance EXCEPT ![h] = 0, ![u] = @ + balance[h]]

\* The balances after home group h has filled rank u.
Rebalance(balance, h, u) == [balance EXCEPT ![h] = @ + balance[u], ![u] = 0]

\* One round of _compute_transfer_quotas: the most overloaded home group fills
\* the roomiest rank.  Past the break the state stays as it is.
QuotaRound(s) ==
    LET h == CHOOSE i \in Ranks : IsFirstMax(s.balance, Ranks, i)
        u == CHOOSE i \in Ranks : IsFirstMin(s.balance, Ranks, i)
    IN  IF s.balance[h] <= 0
        THEN s
        ELSE [balance |-> Rebalance(s.balance, h, u),
              z       |-> [s.z EXCEPT ![h][u] = -s.balance[u]]]

\* z[h][u]: the tokens that home group h gives to rank u.
Quotas(counts) ==
    LET s0 == [balance |-> [r \in Ranks |-> GroupTokens(counts)[r] - Cap],
               z |-> ZeroMatrix]
    IN  Iterate(QuotaRound, s0, NumRanks).z

\* Mutant of the next operator: a quota is not limited to what is left.
PortionWhole(left, quota) == quota

\* What an expert with left tokens gives to a quota.
Portion(left, quota) == IF left < quota THEN left ELSE quota

\* Mutant of the next operator: the home rank keeps what it gives away.
GiveAndKeep(row, d, h, take) == [row EXCEPT ![d] = row[d] + take]

\* The row of an expert after home rank h has given some of its tokens to rank d.
Give(row, d, h, take) == [row EXCEPT ![d] = row[d] + take, ![h] = row[h] - take]

\* One iteration of the distribution loop of CTA h: the largest quota takes
\* what it can from the owned expert that has most left.
TakeRound(h, s) ==
    LET d == CHOOSE i \in Ranks : IsFirstMax(s.quota, Ranks, i)
        e == CHOOSE i \in Owned(h) : IsFirstMax(s.rem, Owned(h), i)
        take == Portion(s.rem[e], s.quota[d])
    IN  IF s.quota[d] <= 0
        THEN s
        ELSE [rem   |-> [s.rem EXCEPT ![e] = @ - take],
              quota |-> [s.quota EXCEPT ![d] = @ - take],
              rows  |-> [s.rows EXCEPT ![e] = Give(@, d, h, take)]]

\* The rows of the allocation that CTA h computes.
AllocRows(h, counts, z) ==
    LET s0 == [rem   |-> [e \in Owned(h) |-> counts[e]],
               quota |-> z[h],
               rows  |-> [e \in Owned(h) |->
                             [d \in Ranks |-> IF d = h THEN counts[e] ELSE 0]]]
        Round(s) == TakeRound(h, s)
    IN  Iterate(Round, s0, ExpertsPerRank * NumRanks).rows

\* alloc[e][d]: the tokens of expert e that rank d computes.
Alloc(counts) ==
    LET z == Quotas(counts)
        rows == [h \in Ranks |-> AllocRows(h, counts, z)]
    IN  [e \in Experts |-> rows[Home(e)][e]]

-----------------------------------------------------------------------------
\* The tokens rank d computes; those of expert e that some rank computes.
Load(alloc, d) == SumFunction([e \in Experts |-> alloc[e][d]])
Placed(alloc, e) == SumFunction(alloc[e])

\* Mutant of the next operator: an expert with a single token is passed over.
RemoteExpertsButSingles(alloc, d) == {e \in Experts \ Owned(d) : alloc[e][d] > 1}

\* The experts of other home groups that rank d computes tokens of.
RemoteExperts(alloc, d) == {e \in Experts \ Owned(d) : alloc[e][d] > 0}

\* The checks of balance_alloc_gpu, _planning_gpu.py:427-430.
AllocChecks(counts, alloc) ==
    /\ \A e \in Experts : Placed(alloc, e) = counts[e]
    /\ \A d \in Ranks : Load(alloc, d) <= Cap
=============================================================================
