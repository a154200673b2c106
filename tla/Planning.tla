------------------------------ MODULE Planning ------------------------------
(***************************************************************************)
(* launch_planning_gpu on every rank at once (_planning_gpu.py:523-591):   *)
(* ranks exchange their counts through symmetric memory, compute the same  *)
(* allocation independently, and tell each rank where its rows come from.  *)
(*                                                                         *)
(* The symmetric buffer meta_buf of a rank is split into the regions that  *)
(* planning uses: one row of counts, one row of scratch, and src_info.     *)
(* The steps of a rank are separated where a peer can tell: at a barrier,  *)
(* at a read of a peer's row, and at each store into a peer.  The barrier  *)
(* (launch_cross_rank_barrier) is a rendezvous: a rank arrives with the    *)
(* last step before it, and its next step waits until all have arrived.    *)
(***************************************************************************)
EXTENDS PlanLayout

CONSTANTS
    Inputs,             \* the routings explored: topk[r][i] is an expert
    Rounds              \* bound: how many times planning is launched

ASSUME InputsAssumption ==
    \A topk \in Inputs : topk \in [Ranks -> [Slots -> Experts]]
ASSUME RoundsAssumption == Rounds \in Nat \ {0}

VARIABLES
    routing,            \* routing[n]: the topk of every rank in round n
    gathered,           \* gathered[n]: round n is given the counts of all ranks
    round,              \* the round each rank is in
    pc,                 \* the next step of each rank
    arrived,            \* barriers each rank has arrived at
    tpeRow,             \* the row of counts in the symmetric buffer of each rank
    scratchRow,         \* the row of destinations in it
    srcInfo,            \* src_info in it: the entry that each row comes from
    tpe,                \* the counts each rank has gathered
    alloc,              \* the allocation each rank has computed
    plan,               \* the layouts and destinations each rank has computed
    todo                \* entries of each rank with their src_info still to store

shared == <<tpeRow, scratchRow, srcInfo>>
inputs == <<routing, gathered>>
planVars == <<inputs, round, pc, arrived, shared, tpe, alloc, plan, todo>>

Unset == <<>>

\* Mutant of the next operator: zeros, which name entry 0 of rank 0.
NoRowsZero == [l \in Rows |-> 0]

\* A cleared src_info.
NoRows == [l \in Rows |-> None]

\* The routing of rank r in its round, and the counts of all ranks in it.
TopkOf(r) == routing[round[r]][r]
CountsOf(n) == [r \in Ranks |-> TokensPerExpert(routing[n][r])]

\* Mutants of the next operator: the barrier between storing and gathering counts
\* is left out; the one between clearing src_info and storing into it is.
AtBarrierButCounts == {"publish_sources", "publish_scratch", "encode"}
AtBarrierButSources == {"gather_counts", "publish_scratch", "encode"}

\* The steps before which launch_cross_rank_barrier is called.
AtBarrier == {"gather_counts", "publish_sources", "publish_scratch", "encode"}

\* A rank gets past a barrier when all ranks have arrived at as many.
BarrierOpen(r) == \A q \in Ranks : arrived[q] >= arrived[r]
Arrive(r) == arrived' = [arrived EXCEPT ![r] = @ + 1]
Passes(r) == pc[r] \in AtBarrier => BarrierOpen(r)

Goto(r, label) == pc' = [pc EXCEPT ![r] = label]

\* A new Buffer has zeroed its symmetric memory (api.py:106-107), and no rank has
\* launched planning.
PlanInit ==
    /\ routing \in [1 .. Rounds -> Inputs]
    /\ gathered \in [1 .. Rounds -> BOOLEAN]
    /\ round = [r \in Ranks |-> 0]
    /\ pc = [r \in Ranks |-> "idle"]
    /\ arrived = [r \in Ranks |-> 0]
    /\ tpeRow = [r \in Ranks |-> [e \in Experts |-> 0]]
    /\ scratchRow = [r \in Ranks |-> [i \in Slots |-> 0]]
    /\ srcInfo = [r \in Ranks |-> [l \in Rows |-> 0]]
    /\ tpe = [r \in Ranks |-> Unset]
    /\ alloc = [r \in Ranks |-> Unset]
    /\ plan = [r \in Ranks |-> Unset]
    /\ todo = [r \in Ranks |-> {}]

-----------------------------------------------------------------------------
\* Mutant of the next operator: a rank whose counts have not changed keeps those
\* of its peers.
HasCountsOfBefore(r) ==
    \/ gathered[round[r]] \/ NumRanks = 1
    \/ round[r] > 1 /\ tpeRow[r] = TokensPerExpert(TopkOf(r))

\* The caller gives the counts of all ranks, or there is one rank.
HasCounts(r) == gathered[round[r]] \/ NumRanks = 1

\* gather_tpe_gpu with the counts of all ranks at hand.
CountsGiven(r) ==
    /\ pc[r] = "publish_counts"
    /\ HasCounts(r)
    /\ tpe' = [tpe EXCEPT ![r] = CountsOf(round[r])]
    /\ Goto(r, "balance")
    /\ UNCHANGED <<inputs, round, arrived, shared, alloc, plan, todo>>

\* gather_tpe_gpu: publish_tpe_kernel, then the barrier.
PublishCounts(r) ==
    /\ pc[r] = "publish_counts"
    /\ ~HasCounts(r)
    /\ tpeRow' = [tpeRow EXCEPT ![r] = TokensPerExpert(TopkOf(r))]
    /\ tpe' = [tpe EXCEPT ![r] = Unset]
    /\ Arrive(r)
    /\ Goto(r, "gather_counts")
    /\ UNCHANGED <<inputs, round, scratchRow, srcInfo, alloc, plan, todo>>

\* _gather_rows_from_meta reads the peers in order of rank, one at a time.
GatherCounts(r) ==
    /\ pc[r] = "gather_counts"
    /\ Passes(r)
    /\ LET next == Cardinality(DOMAIN tpe[r])
       IN  /\ tpe' = [tpe EXCEPT ![r] =
                [d \in 0 .. next |-> IF d = next THEN tpeRow[d] ELSE tpe[r][d]]]
           /\ Goto(r, IF next + 1 = NumRanks THEN "balance" ELSE "gather_counts")
    /\ UNCHANGED <<inputs, round, arrived, shared, alloc, plan, todo>>

\* balance_alloc_gpu: the allocation, or an assertion that stops this rank alone.
Balance(r) ==
    /\ pc[r] = "balance"
    /\ alloc' = [alloc EXCEPT ![r] = Alloc(Totals(tpe[r]))]
    /\ Goto(r, IF AllocChecks(Totals(tpe[r]), alloc'[r]) THEN "lay_out" ELSE "raised")
    /\ UNCHANGED <<inputs, round, arrived, shared, tpe, plan, todo>>

\* build_per_rank_layout_gpu and compute_dst_positive_gpu; then the beginning of
\* publish_src_info_to_meta_gpu, which clears the rank's own src_info and goes
\* to the barrier.
LayOut(r) ==
    /\ pc[r] = "lay_out"
    /\ LET layouts == Layouts(alloc[r])
           stats == RemoteStats(alloc[r], layouts, r)
       IN  IF LayoutFits(layouts[r])
           THEN /\ plan' = [plan EXCEPT ![r] =
                    [layout |-> layouts[r],
                     copied |-> [d \in Ranks |-> layouts[d].copied],
                     stats  |-> stats,
                     dst    |-> RawDsts(r, TopkOf(r), tpe[r], alloc[r], layouts)]]
                /\ srcInfo' = [srcInfo EXCEPT ![r] = NoRows]
                /\ todo' = [todo EXCEPT ![r] = Slots]
                /\ Arrive(r)
                /\ Goto(r, "publish_sources")
           ELSE /\ Goto(r, "raised")
                /\ UNCHANGED <<plan, srcInfo, todo, arrived>>
    /\ UNCHANGED <<inputs, round, tpeRow, scratchRow, tpe, alloc>>

\* How src_info names entry i of rank r.
Source(r, i) == r * NvS + i

\* publish_src_info_kernel: the programs of the grid store, in any order, the
\* number of their entry at its row of the rank it is sent to; after the last
\* one the rank goes to the barrier.
PublishSource(r) ==
    /\ pc[r] = "publish_sources"
    /\ Passes(r)
    /\ \E i \in todo[r] :
        /\ LET v == plan[r].dst[i]
           IN  srcInfo' = [srcInfo EXCEPT ![DestRank(v)][DestRow(v)] = Source(r, i)]
        /\ todo' = [todo EXCEPT ![r] = @ \ {i}]
    /\ IF todo'[r] = {}
       THEN Arrive(r) /\ Goto(r, "publish_scratch")
       ELSE UNCHANGED <<arrived, pc>>
    /\ UNCHANGED <<inputs, round, tpeRow, scratchRow, tpe, alloc, plan>>

\* encode_dst_duplicates_gpu: publish the destinations, then the barrier; a
\* single rank does neither.
PublishScratch(r) ==
    /\ pc[r] = "publish_scratch"
    /\ Passes(r)
    /\ Goto(r, "encode")
    /\ IF NumRanks > 1
       THEN /\ scratchRow' = [scratchRow EXCEPT ![r] = plan[r].dst]
            /\ Arrive(r)
       ELSE UNCHANGED <<scratchRow, arrived>>
    /\ UNCHANGED <<inputs, round, tpeRow, srcInfo, tpe, alloc, plan, todo>>

\* It gathers the destinations of all ranks and uses its own to mark duplicates.
Encode(r) ==
    /\ pc[r] = "encode"
    /\ Passes(r)
    /\ plan' = [plan EXCEPT ![r].dst =
                   EncodeDuplicates(IF NumRanks > 1 THEN scratchRow[r] ELSE @)]
    /\ Goto(r, "planned")
    /\ UNCHANGED <<inputs, round, arrived, shared, tpe, alloc, todo>>

PlanStep(r) ==
    \/ CountsGiven(r) \/ PublishCounts(r) \/ GatherCounts(r)
    \/ Balance(r) \/ LayOut(r) \/ PublishSource(r)
    \/ PublishScratch(r) \/ Encode(r)

\* launch_planning, with the routing of the next round.
StartPlanning(r) ==
    /\ round[r] < Rounds
    /\ round' = [round EXCEPT ![r] = @ + 1]
    /\ Goto(r, "publish_counts")
    /\ UNCHANGED <<inputs, arrived, shared, tpe, alloc, plan, todo>>

\* Nothing has to happen on a rank between two launches of planning.
NextRound(r) == pc[r] \in {"idle", "planned"} /\ StartPlanning(r)

Next == \E r \in Ranks : PlanStep(r) \/ NextRound(r)

Spec == PlanInit /\ [][Next]_planVars

\* A rank has a step to take: it is not waiting at a barrier, it has not raised,
\* and it has not planned its last round.
Ready(r) ==
    /\ pc[r] # "raised"
    /\ Passes(r)
    /\ pc[r] = "planned" => round[r] < Rounds

\* Each rank's stream goes on: weak fairness of the steps of each rank, every one
\* of which changes its local state, written with the condition Ready under which
\* a step is enabled.  It takes the barrier to open once all ranks have arrived;
\* GridSync shows when its kernel does not.
Fairness ==
    \A r \in Ranks :
        []<>~Ready(r) \/ []<><<Next>>_<<pc[r], round[r], tpe[r], todo[r]>>

FairSpec == Spec /\ Fairness

-----------------------------------------------------------------------------
\* The counts a rank plans with are those of its round on every rank: no row of
\* an earlier round, and none that its owner has already overwritten.
CountsCurrent ==
    \A r \in Ranks :
        pc[r] \in {"balance", "lay_out", "publish_sources", "publish_scratch",
                   "encode", "planned"}
            => tpe[r] = CountsOf(round[r])

\* Once every rank has its plan, src_info of a rank names for each row the one
\* entry that is sent to it, whichever ranks ran ahead, and None for the rest.
SourcesExact ==
    (\A r, q \in Ranks : pc[r] = "planned" /\ round[r] = round[q]) =>
        \A d \in Ranks, l \in Rows :
            LET senders == {x \in Ranks \X Slots :
                               Canonical(plan[x[1]].dst[x[2]]) = d * NvS + l}
            IN  srcInfo[d][l] = IF senders = {} THEN None
                                ELSE LET x == CHOOSE y \in senders : TRUE
                                     IN  x[1] * NvS + x[2]

\* No peer stores into the src_info of a rank between the barrier after which
\* the rank may read it and the rank's next launch of planning.
SourcesStable ==
    [][\A r \in Ranks : pc[r] \in {"encode", "planned"} /\ pc'[r] \in {"encode", "planned"}
          => srcInfo'[r] = srcInfo[r]]_planVars

\* Every rank gets through all its rounds: no barrier is waited for by some rank
\* and left out by another, and no assertion stops a rank.
AllPlanned == <>(\A r \in Ranks : pc[r] = "planned" /\ round[r] = Rounds)
=============================================================================
