----------------------------- MODULE PlanLayout -----------------------------
(***************************************************************************)
(* Phases C and D of planning as functions: the layout of the dispatch     *)
(* buffer of every rank, and the row of it that each routed entry goes to; *)
(* and what src_info, the inverse of the destinations, says of duplicates. *)
(* From moonep_td/_planning_gpu.py:104-118, 156-200, 266-305 and 434-520,  *)
(* and _dedup_builder.py.                                                  *)
(***************************************************************************)
EXTENDS PlanAlloc, SequencesExt

CONSTANTS
    NumTokens,          \* S, the tokens of a rank
    TopK,               \* K, the experts of a token
    PrefetchSlots,      \* B, the remote experts a rank can hold weights for
    TokenPadding        \* rows of a segment are padded to a multiple of it

ASSUME TokensAssumption == NumTokens \in Nat \ {0} /\ TopK \in Nat \ {0}
ASSUME CapIsEntries == Cap = NumTokens * TopK
ASSUME PrefetchAssumption == PrefetchSlots \in Nat
ASSUME PaddingAssumption == TokenPadding \in Nat \ {0}

NumExperts == NumRanks * ExpertsPerRank

\* Entry s * K + k of a rank is the k-th choice of its token s.
Slots == 0 .. (Cap - 1)
TokenOf(slot) == slot \div TopK
ChoiceOf(slot) == slot % TopK

\* Mutant of the next operator: room for the padding of the own experts only.
NvSOfOwnExperts == Cap + (TokenPadding - 1) * ExpertsPerRank

\* Rows of the dispatch buffer of a rank, api.py:74-77.
NvS == Cap + (TokenPadding - 1) * 2 * ExpertsPerRank
Rows == 0 .. (NvS - 1)

\* The segments of a buffer: one for each expert, then one for each prefetch slot.
Groups == 0 .. (NumExperts + PrefetchSlots - 1)

Padded(n) == ((n + TokenPadding - 1) \div TokenPadding) * TokenPadding

-----------------------------------------------------------------------------
(* The layout of rank d under allocation a, with None where the code has -1. *)
None == -1

\* Remote experts are sorted by their tokens in descending order; these come
\* before e.
SortKey(a, d, e) == a[e][d] * NumExperts + e
SortedBefore(a, d, e) == {f \in RemoteExperts(a, d) : SortKey(a, d, f) > SortKey(a, d, e)}

\* The remote experts whose weights are prefetched: those with most tokens.
ExpertsToCopy(a, d) ==
    LET at(b) == {e \in RemoteExperts(a, d) : Cardinality(SortedBefore(a, d, e)) = b}
    IN  [b \in 0 .. (PrefetchSlots - 1) |-> IF at(b) = {} THEN None ELSE CHOOSE e \in at(b) : TRUE]

\* A prefetched expert has its tokens in its prefetch group, not in its own.
GroupExpert(a, d) ==
    LET copied == ExpertsToCopy(a, d)
    IN  [g \in Groups |-> IF g >= NumExperts THEN copied[g - NumExperts]
                          ELSE IF g \in Range(copied) THEN None ELSE g]

GroupCount(a, d) ==
    LET expert == GroupExpert(a, d)
    IN  [g \in Groups |-> IF expert[g] = None THEN 0 ELSE a[expert[g]][d]]

\* cu_seqlens: where each segment ends, padding included; and where it starts.
CuSeqlens(a, d) ==
    LET count == GroupCount(a, d)
        cu[g \in Groups] == Padded(count[g]) + (IF g = 0 THEN 0 ELSE cu[g - 1])
    IN  cu
GroupStart(a, d) ==
    LET cu == CuSeqlens(a, d)
    IN  [g \in Groups |-> IF g = 0 THEN 0 ELSE cu[g - 1]]

\* Mutant of the next operator: the end of the segment of the expert.
ExpertOffAtEnd(a, d) ==
    LET expert == GroupExpert(a, d)
        cu == CuSeqlens(a, d)
    IN  [e \in Experts |->
            IF a[e][d] = 0 THEN 0
            ELSE cu[CHOOSE g \in Groups : expert[g] = e]]

\* expert_off: the first row of each expert that has tokens on d.
ExpertOff(a, d) ==
    LET expert == GroupExpert(a, d)
        start == GroupStart(a, d)
    IN  [e \in Experts |->
            IF a[e][d] = 0 THEN 0
            ELSE start[CHOOSE g \in Groups : expert[g] = e]]

\* The padding of a segment: its first row and its length.
Padding(start, count) ==
    IF Padded(count) > count THEN <<start + count, Padded(count) - count>> ELSE <<0, 0>>

\* zero_fill_ranges: the padding of each segment.
ZeroFill(a, d) ==
    LET count == GroupCount(a, d)
        start == GroupStart(a, d)
    IN  [g \in Groups |-> Padding(start[g], count[g])]

\* What a rank derives from the allocation for every rank (the dispatch offsets
\* of all of them enter the destinations of its own entries).
LayoutOf(a, d) ==
    [copied    |-> ExpertsToCopy(a, d),
     cuSeqlens |-> CuSeqlens(a, d),
     expertOff |-> ExpertOff(a, d),
     zeroFill  |-> ZeroFill(a, d)]

Layouts(a) == [d \in Ranks |-> LayoutOf(a, d)]

\* The assertion that rank d makes on its own layout.
LayoutFits(layout) == \A g \in Groups : layout.cuSeqlens[g] <= NvS

\* remote_stats of rank d: the remote experts it computes, and how many of those
\* it owns are prefetched, counted once for every rank that does.
RemoteStats(a, layouts, d) ==
    <<Cardinality(RemoteExperts(a, d)),
      SumFunction([r \in Ranks |->
          Cardinality({b \in DOMAIN layouts[r].copied :
                          layouts[r].copied[b] \in Owned(d)})])>>

-----------------------------------------------------------------------------
(* The row of each entry.  tpe[r][e] is what rank r routes to expert e. *)
TokensPerExpert(topk) == [e \in Experts |-> Cardinality({i \in Slots : topk[i] = e})]
Totals(tpe) == [e \in Experts |-> SumFunction([r \in Ranks |-> tpe[r][e]])]

\* How many earlier entries of the rank go to the same expert.
LocalRank(topk, i) == Cardinality({j \in Slots : j < i /\ topk[j] = topk[i]})

\* alloc_cumsum
AllocUpTo(a, e, d) == SumFunctionOnSet(a[e], 0 .. d)

\* The tokens of an expert are ordered by source rank, then by entry.
Position(rank, topk, tpe, i) ==
    SumFunctionOnSet([r \in Ranks |-> tpe[r][topk[i]]], 0 .. (rank - 1))
        + LocalRank(topk, i)
\* In this order they are dealt to the ranks; these are dealt theirs before.
Passed(a, e, position) == {d \in Ranks : position >= AllocUpTo(a, e, d)}
SegPos(a, e, position, dest) ==
    position - (IF dest = 0 THEN 0 ELSE AllocUpTo(a, e, dest - 1))

\* compute_dst_kernel for entry i of a rank.
RawDst(rank, topk, tpe, a, layouts, i) ==
    LET e == topk[i]
        position == Position(rank, topk, tpe, i)
        passed == Passed(a, e, position)
        dest == IF passed = {} THEN 0 ELSE Max(passed) + 1
    IN  dest * NvS + layouts[dest].expertOff[e] + SegPos(a, e, position, dest)

RawDsts(rank, topk, tpe, a, layouts) ==
    [i \in Slots |-> RawDst(rank, topk, tpe, a, layouts, i)]

\* The rank and the row that a destination stands for.
DestRank(v) == v \div NvS
DestRow(v) == v - DestRank(v) * NvS

\* Mutants of the next two operators: the last entry is the primary one; row 0 of
\* rank 0 cannot be marked.
IsDuplicateOfLater(dst, i) ==
    \E j \in Slots : /\ TokenOf(j) = TokenOf(i)
                     /\ ChoiceOf(j) > ChoiceOf(i)
                     /\ DestRank(dst[j]) = DestRank(dst[i])
MarkedBySign(v) == -v

\* An earlier choice of the token goes to the same rank.
IsDuplicate(dst, i) ==
    \E j \in Slots : /\ TokenOf(j) = TokenOf(i)
                     /\ ChoiceOf(j) < ChoiceOf(i)
                     /\ DestRank(dst[j]) = DestRank(dst[i])
Marked(v) == -v - 1

\* encode_dst_duplicates_gpu.
EncodeDuplicates(dst) ==
    [i \in Slots |-> IF IsDuplicate(dst, i) THEN Marked(dst[i]) ELSE dst[i]]

\* Mutant of the next operator: the mark is read as a plain sign.
CanonicalBySign(v) == IF v < 0 THEN -v ELSE v

\* What a marked entry stands for.
Canonical(v) == IF v < 0 THEN -v - 1 ELSE v

-----------------------------------------------------------------------------
(* src_info[l] names the entry that is sent to row l as rank * NvS + entry,  *)
(* and is None where no entry is sent.                                       *)
SourceRank(info) == info \div NvS
SourceEntry(info) == info - SourceRank(info) * NvS

\* The groups of rows that came from one token: the row of the token's first
\* choice is the primary, the others duplicate it.
DupGroups(srcInfo) ==
    LET used == {l \in Rows : srcInfo[l] # None}
        choice(l) == ChoiceOf(SourceEntry(srcInfo[l]))
        same(l) == {m \in used :
                      /\ SourceRank(srcInfo[m]) = SourceRank(srcInfo[l])
                      /\ TokenOf(SourceEntry(srcInfo[m])) = TokenOf(SourceEntry(srcInfo[l]))}
        primaries == {l \in used : \A m \in same(l) : choice(l) <= choice(m)}
    IN  {[primary |-> l, rows |-> same(l) \ {l}] :
            l \in {p \in primaries : same(p) # {p}}}
=============================================================================
