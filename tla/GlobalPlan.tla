----------------------------- MODULE GlobalPlan -----------------------------
(***************************************************************************)
(* launch_planning_gpu seen from above: every rank holds the counts of all *)
(* ranks and runs the phases B, C and D of planning on them.  The plans of *)
(* the ranks have to fit together: what that means is said of any layouts  *)
(* and destinations, layouts[d] and dst[r][i], and stated of those that    *)
(* the phases compute.  Module Planning uses the same phases and shows     *)
(* that the counts each rank gathers are indeed those of all.              *)
(***************************************************************************)
EXTENDS PlanLayout

Entries == Ranks \X Slots

\* Where entry <<r, i>> goes.
DstOf(dst, x) == Canonical(dst[x[1]][x[2]])

LastGroup == NumExperts + PrefetchSlots - 1

\* The segment of group g of a layout, padding included, holds row l.
Holds(layout, g, l) ==
    LET cu == layout.cuSeqlens
    IN  l < cu[g] /\ (g = 0 \/ cu[g - 1] <= l)

\* The rows that the zero fill of a layout clears.
FilledRows(layout) ==
    UNION {LET range == layout.zeroFill[g]
           IN  range[1] .. (range[1] + range[2] - 1) : g \in Groups}

\* The rows of rank d that entries are sent to.
RowsUsed(dst, d) ==
    {DestRow(DstOf(dst, x)) : x \in {y \in Entries : DestRank(DstOf(dst, y)) = d}}

\* No two entries of any two ranks share a row: dispatch writes rows of a peer
\* with no coordination at all, and combine reads them back by the same numbers.
RowsDisjoint(dst) ==
    \A x, y \in Entries : x # y => DstOf(dst, x) # DstOf(dst, y)

\* The rows of a rank up to the end of its last segment are exactly those that
\* entries are sent to and those that its zero fill clears, and no row is both:
\* the zero fill runs while peers write.
RowsCovered(layouts, dst) ==
    \A d \in Ranks :
        /\ RowsUsed(dst, d) \cap FilledRows(layouts[d]) = {}
        /\ RowsUsed(dst, d) \cup FilledRows(layouts[d])
               = 0 .. (layouts[d].cuSeqlens[LastGroup] - 1)

\* An entry lies in the segment whose weights are those of its expert: the
\* expert's own group, or the prefetch slot that holds a copy of its weights.
SentToExpert(topk, layouts, dst) ==
    \A x \in Entries :
        LET d == DestRank(DstOf(dst, x))
            expert == topk[x[1]][x[2]]
        IN  \E g \in Groups :
                /\ Holds(layouts[d], g, DestRow(DstOf(dst, x)))
                /\ \/ g = expert
                   \/ g >= NumExperts /\ layouts[d].copied[g - NumExperts] = expert

\* The rank an entry is sent to owns its expert or prefetches its weights.
HasWeights(topk, layouts, dst) ==
    \A x \in Entries :
        LET d == DestRank(DstOf(dst, x))
            expert == topk[x[1]][x[2]]
        IN  Home(expert) = d \/ expert \in Range(layouts[d].copied)

\* Entry i of rank r is a duplicate exactly if an earlier choice of its token
\* goes to the same rank, so that each rank is sent the token once.
SentOnce(dst) ==
    \A r, d \in Ranks, s \in 0 .. (NumTokens - 1) :
        LET here == {i \in Slots : TokenOf(i) = s /\ DestRank(DstOf(dst, <<r, i>>)) = d}
        IN  here # {} => {i \in here : dst[r][i] >= 0} = {Min(here)}

-----------------------------------------------------------------------------
CONSTANT Topks          \* the routings explored: topk[r][i] is an expert

ASSUME TopksAssumption == \A topk \in Topks : topk \in [Ranks -> [Slots -> Experts]]

VARIABLES
    topkAll,            \* the routing of every rank
    stage,              \* how far planning is
    allocAll,           \* the allocation, phase B
    layoutAll,          \* the layout of the buffer of every rank, phase C
    dstAll              \* the destinations of the entries of every rank, phase D

globalVars == <<topkAll, stage, allocAll, layoutAll, dstAll>>

NotYet == <<>>

\* The counts of every rank, tpe[r][e].
TrueCounts == [r \in Ranks |-> TokensPerExpert(topkAll[r])]

GlobalInit ==
    /\ topkAll \in Topks
    /\ stage = "routed"
    /\ allocAll = NotYet
    /\ layoutAll = NotYet
    /\ dstAll = NotYet

AllocateAll ==
    /\ stage = "routed"
    /\ allocAll' = Alloc(Totals(TrueCounts))
    /\ stage' = IF AllocChecks(Totals(TrueCounts), allocAll') THEN "allocated" ELSE "raised"
    /\ UNCHANGED <<topkAll, layoutAll, dstAll>>

LayOutAll ==
    /\ stage = "allocated"
    /\ layoutAll' = Layouts(allocAll)
    /\ stage' = IF \A d \in Ranks : LayoutFits(layoutAll'[d]) THEN "laid out" ELSE "raised"
    /\ UNCHANGED <<topkAll, allocAll, dstAll>>

PlaceAll ==
    /\ stage = "laid out"
    /\ dstAll' = [r \in Ranks |->
                     EncodeDuplicates(RawDsts(r, topkAll[r], TrueCounts, allocAll, layoutAll))]
    /\ stage' = "planned"
    /\ UNCHANGED <<topkAll, allocAll, layoutAll>>

GlobalNext == AllocateAll \/ LayOutAll \/ PlaceAll

GlobalSpec == GlobalInit /\ [][GlobalNext]_globalVars

-----------------------------------------------------------------------------
Planned == stage = "planned"

\* The entries of all ranks and the padding tile the buffers.
RowsTiled == Planned => RowsDisjoint(dstAll) /\ RowsCovered(layoutAll, dstAll)

\* Every entry is computed with the weights of its expert.
RightExpert == Planned => SentToExpert(topkAll, layoutAll, dstAll)

\* With a prefetch slot for each expert of a home group no segment is left whose
\* weights a rank has neither by ownership nor by prefetch: a rank computes the
\* experts of one other home group only, so B = epn (the default of api.py:72)
\* slots are enough.
WeightsAtHand ==
    Planned /\ PrefetchSlots >= ExpertsPerRank => HasWeights(topkAll, layoutAll, dstAll)

\* Each rank is sent a token once, however many of its choices go there.
OnePrimary == Planned => SentOnce(dstAll)

\* None of the assertions of planning fails, for any routing: the allocation is
\* balanced, and the size of the buffer is enough for its padded segments.
NeverRaises == stage # "raised"
=============================================================================
