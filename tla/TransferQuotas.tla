--------------------------- MODULE TransferQuotas ---------------------------
(***************************************************************************)
(* _compute_transfer_quotas, _planning_gpu.py:377-391, as the loop it is:  *)
(* at most NumRanks rounds, each of which pairs the most overloaded home   *)
(* group with the roomiest rank and fills that rank completely.            *)
(***************************************************************************)
EXTENDS PlanAlloc

CONSTANT Inputs         \* the routings explored

\* Routings: every source rank routes Cap = S * K entries, to any experts.
Routings ==
    {c \in [Experts -> 0 .. NumRanks * Cap] : SumFunction(c) = NumRanks * Cap}

ASSUME InputsAssumption == Inputs \subseteq Routings

VARIABLES
    counts,         \* tokens routed to each expert, summed over source ranks
    balance,        \* what each rank has above (or, negative, below) Cap
    z,              \* z[h][u]: tokens home group h gives to rank u
    round,          \* rounds of the loop so far
    stage           \* "quotas" while the loop runs

quotaVars == <<counts, balance, z, round, stage>>

QuotaInit ==
    /\ counts \in Inputs
    /\ balance = [r \in Ranks |-> GroupTokens(counts)[r] - Cap]
    /\ balance \in [Ranks -> Int]      \* an integer tensor
    /\ z = ZeroMatrix
    /\ round = 0
    /\ stage = "quotas"

\* Mutant of the next operator: half the rounds.
LoopGoesHalfway == round < NumRanks \div 2 /\ \E r \in Ranks : balance[r] > 0

\* The loop has a round left and does not break.
LoopGoesOn == round < NumRanks /\ \E r \in Ranks : balance[r] > 0

\* A round that moves tokens.
Pair ==
    /\ stage = "quotas"
    /\ LoopGoesOn
    /\ \E h, u \in Ranks :
        /\ IsFirstMax(balance, Ranks, h)
        /\ IsFirstMin(balance, Ranks, u)
        /\ z' = [z EXCEPT ![h][u] = -balance[u]]
        /\ balance' = Rebalance(balance, h, u)
    /\ round' = round + 1
    /\ UNCHANGED <<counts, stage>>

\* The loop ends.
QuotasDone ==
    /\ stage = "quotas"
    /\ ~LoopGoesOn
    /\ stage' = "distribute"
    /\ UNCHANGED <<counts, balance, z, round>>

QuotaNext == Pair \/ QuotasDone

QuotaSpec == QuotaInit /\ [][QuotaNext]_quotaVars

-----------------------------------------------------------------------------
QuotaTypeOK ==
    /\ counts \in [Experts -> 0 .. NumRanks * Cap]
    /\ balance \in [Ranks -> Int]
    /\ z \in [Ranks -> [Ranks -> Int]]
    /\ round \in 0 .. NumRanks
    /\ stage \in {"quotas", "distribute", "checked", "raised"}

\* A rank receives tokens from one home group only.  The size of the dispatch
\* buffer rests on it: NvS leaves room for 2 * epn padded segments per rank
\* (api.py:75), its own experts and those of one other home group.
SingleDonor ==
    \A u \in Ranks : \A h1, h2 \in Ranks : z[h1][u] # 0 /\ z[h2][u] # 0 => h1 = h2

\* A home group never gives tokens it does not have, even when filling its last
\* receiver leaves it with room of its own.
DonorWithinMeans ==
    \A h \in Ranks : /\ \A u \in Ranks : z[h][u] >= 0
                     /\ SumFunction(z[h]) <= GroupTokens(counts)[h]

\* NumRanks rounds are enough to bring every rank to exactly Cap tokens.
RoundsSuffice == stage # "quotas" => \A r \in Ranks : balance[r] = 0

\* A rank that has been filled takes no more part: no later round pairs it
\* again or overwrites its quota (line 388 assigns, it does not add).
FilledStays ==
    [][\A h, u \in Ranks : z[h][u] # 0 =>
           /\ z'[h][u] = z[h][u]
           /\ balance'[u] = 0
           /\ z'[u] = z[u]]_quotaVars
=============================================================================
