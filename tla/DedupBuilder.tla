---------------------------- MODULE DedupBuilder ----------------------------
(***************************************************************************)
(* launch_dedup_builder on one rank: its three kernels on one stream, and  *)
(* within each kernel the CTAs and their atomics in every order.  The      *)
(* scratch arrays belong to the Buffer and keep what the last call left.   *)
(***************************************************************************)
EXTENDS PlanLayout

CONSTANTS
    NumSMs,             \* the CTAs of each kernel
    NvsBits,            \* _NVS_BITS: bits of a row in a packed word
    KidxBits,           \* KIDX_BITS: bits of a choice in it
    Infos,              \* the contents of src_info that are explored
    Builds              \* bound: how many times the map is built

ASSUME SMsAssumption == NumSMs \in Nat \ {0}
\* _check_dedup_encoding_bounds
ASSUME EncodingBounds ==
    /\ NvsBits \in Nat /\ KidxBits \in Nat
    /\ NvS <= 2 ^ NvsBits - 1
    /\ TopK <= 2 ^ KidxBits - 1
ASSUME InfosAssumption ==
    Infos \subseteq
        [Rows -> {rank * NvS + entry : rank \in Ranks, entry \in Slots} \cup {None}]
\* publish_src_info_kernel stores each entry once.
ASSUME InfosDistinct ==
    \A info \in Infos : \A l, m \in Rows : info[l] = info[m] /\ info[l] # None => l = m
ASSUME BuildsAssumption == Builds \in Nat

VARIABLES
    srcInfo,            \* src_info of the rank
    build,              \* how many times the map was asked for
    stage,              \* the kernel that runs
    primaryPacked,      \* for each key, the least choice and its row
    kmask,              \* for each key, its choices
    kidxToLoff,         \* for each key and choice, its row
    dupGroups,          \* groups: primary row, first place, number of places
    dupLoffs,           \* places: the rows of the duplicates
    dupCounts,          \* groups and places taken so far
    loff,               \* the row each CTA is at
    step,               \* and what it does there
    mine                \* its group, first place, and choices still to place

scratch == <<primaryPacked, kmask, kidxToLoff>>
dupPlan == <<dupGroups, dupLoffs, dupCounts>>
ctaVars == <<loff, step, mine>>
vars == <<srcInfo, build, stage, scratch, dupPlan, ctaVars>>

CTAs == 0 .. (NumSMs - 1)
Kidxs == 0 .. (TopK - 1)
Keys == 0 .. (NumRanks * NumTokens - 1)

\* All bits of both fields.
Int32Max == 2 ^ KidxBits * 2 ^ NvsBits - 1

\* A word that orders rows by their choice.
Packed(kidx, row) == kidx * 2 ^ NvsBits + row
PackedRow(word) == word % 2 ^ NvsBits
PackedChoice(word) == word \div 2 ^ NvsBits

\* The token that a row comes from, of all tokens of all ranks.
KeyOf(info) == SourceRank(info) * NumTokens + TokenOf(SourceEntry(info))
KidxOf(info) == ChoiceOf(SourceEntry(info))

NoGroup == <<0, 0, 0>>
Nothing == [grp |-> 0, start |-> 0, left |-> {}]

Init ==
    /\ srcInfo \in Infos
    /\ build = 0
    /\ stage = "idle"
    /\ primaryPacked = [key \in Keys |-> 0]
    /\ kmask = [key \in Keys |-> {}]
    /\ kidxToLoff = [x \in Keys \X Kidxs |-> 0]
    /\ dupGroups = [g \in Rows |-> NoGroup]
    /\ dupLoffs = [p \in Rows |-> 0]
    /\ dupCounts = [groups |-> 0, loffs |-> 0]
    /\ loff = [c \in CTAs |-> c]
    /\ step = [c \in CTAs |-> "row"]
    /\ mine = [c \in CTAs |-> Nothing]

-----------------------------------------------------------------------------
\* The host clears the plan's fields and kidx_to_loff, and dedup_init_kernel the
\* other scratch arrays; nothing else runs on the stream meanwhile.
Clear ==
    /\ stage \in {"idle", "built"}
    /\ build < Builds
    /\ build' = build + 1
    /\ srcInfo' \in Infos
    /\ primaryPacked' = [key \in Keys |-> Int32Max]
    /\ kmask' = [key \in Keys |-> {}]
    /\ kidxToLoff' = [x \in Keys \X Kidxs |-> 0]
    /\ dupGroups' = [g \in Rows |-> NoGroup]
    /\ dupLoffs' = [p \in Rows |-> 0]
    /\ dupCounts' = [groups |-> 0, loffs |-> 0]
    /\ stage' = "pass1"
    /\ UNCHANGED ctaVars

\* CTA c is in kernel k at step s, at a row that an entry was sent to.
In(c, k, s) ==
    /\ stage = k
    /\ loff[c] < NvS
    /\ srcInfo[loff[c]] # None
    /\ step[c] = s

Goto(c, s) == step' = [step EXCEPT ![c] = s] /\ UNCHANGED loff

\* The CTA is done with its row: range(pid, NvS, NUM_SMS).
NextRow(c) ==
    /\ step' = [step EXCEPT ![c] = "row"]
    /\ loff' = [loff EXCEPT ![c] = @ + NumSMs]

Key(c) == KeyOf(srcInfo[loff[c]])

\* Nothing was sent to the row.
SkipRow(c) ==
    /\ stage \in {"pass1", "pass2"}
    /\ loff[c] < NvS
    /\ srcInfo[loff[c]] = None
    /\ NextRow(c)
    /\ UNCHANGED <<srcInfo, build, stage, scratch, dupPlan, mine>>

\* Mutant of the next operator: a plain store instead of the atomic minimum.
LastWord(old, new) == new

\* atomic_min
LeastWord(old, new) == IF new < old THEN new ELSE old

\* dedup_pass1_kernel: three updates of the tables of the row's token.
TakePrimary(c) ==
    /\ In(c, "pass1", "row")
    /\ primaryPacked' = [primaryPacked EXCEPT ![Key(c)] =
            LeastWord(@, Packed(KidxOf(srcInfo[loff[c]]), loff[c]))]
    /\ Goto(c, "mark")
    /\ UNCHANGED <<srcInfo, build, stage, kmask, kidxToLoff, dupPlan, mine>>

MarkChoice(c) ==
    /\ In(c, "pass1", "mark")
    /\ kmask' = [kmask EXCEPT ![Key(c)] = @ \cup {KidxOf(srcInfo[loff[c]])}]
    /\ Goto(c, "store")
    /\ UNCHANGED <<srcInfo, build, stage, primaryPacked, kidxToLoff, dupPlan, mine>>

StoreRow(c) ==
    /\ In(c, "pass1", "store")
    /\ kidxToLoff' = [kidxToLoff EXCEPT ![<<Key(c), KidxOf(srcInfo[loff[c]])>>] = loff[c]]
    /\ NextRow(c)
    /\ UNCHANGED <<srcInfo, build, stage, primaryPacked, kmask, dupPlan, mine>>

\* The duplicates of the token of CTA c, and whether its row is their primary.
Duplicates(c) == kmask[Key(c)] \ {PackedChoice(primaryPacked[Key(c)])}
DupCount(c) == Cardinality(kmask[Key(c)]) - 1
LeadsGroup(c) ==
    /\ loff[c] = PackedRow(primaryPacked[Key(c)])
    /\ DupCount(c) > 0

\* dedup_pass2_kernel: a row that is a duplicate, or alone, does nothing.
PassBy(c) ==
    /\ In(c, "pass2", "row")
    /\ ~LeadsGroup(c)
    /\ NextRow(c)
    /\ UNCHANGED <<srcInfo, build, stage, scratch, dupPlan, mine>>

\* A primary row takes a group ...
TakeGroup(c) ==
    /\ In(c, "pass2", "row")
    /\ LeadsGroup(c)
    /\ mine' = [mine EXCEPT ![c] = [Nothing EXCEPT !.grp = dupCounts.groups]]
    /\ dupCounts' = [dupCounts EXCEPT !.groups = @ + 1]
    /\ Goto(c, "places")
    /\ UNCHANGED <<srcInfo, build, stage, scratch, dupGroups, dupLoffs>>

\* Mutant of the next operator: one place for each group.
OnePlaceTaken(taken, count) == taken + 1

\* The places taken once count of them have been added.
PlacesTaken(taken, count) == taken + count

\* ... and, with another atomic, the places for its duplicates.
TakePlaces(c) ==
    /\ In(c, "pass2", "places")
    /\ mine' = [mine EXCEPT ![c].start = dupCounts.loffs, ![c].left = Duplicates(c)]
    /\ dupCounts' = [dupCounts EXCEPT !.loffs = PlacesTaken(@, DupCount(c))]
    /\ Goto(c, "record")
    /\ UNCHANGED <<srcInfo, build, stage, scratch, dupGroups, dupLoffs>>

RecordGroup(c) ==
    /\ In(c, "pass2", "record")
    /\ dupGroups' = [dupGroups EXCEPT ![mine[c].grp] = <<loff[c], mine[c].start, DupCount(c)>>]
    /\ Goto(c, "fill")
    /\ UNCHANGED <<srcInfo, build, stage, scratch, dupLoffs, dupCounts, mine>>

\* Mutant of the next operator: the last choice first.
LastChoice(left) == Max(left)

\* The duplicate that is stored next.
FirstChoice(left) == Min(left)

FillPlace(c) ==
    /\ In(c, "pass2", "fill")
    /\ LET kidx == FirstChoice(mine[c].left)
           place == mine[c].start + DupCount(c) - Cardinality(mine[c].left)
       IN  /\ dupLoffs' = [dupLoffs EXCEPT ![place] = kidxToLoff[Key(c), kidx]]
           /\ mine' = [mine EXCEPT ![c].left = @ \ {kidx}]
           /\ IF mine[c].left = {kidx} THEN NextRow(c) ELSE UNCHANGED <<loff, step>>
    /\ UNCHANGED <<srcInfo, build, stage, scratch, dupGroups, dupCounts>>

CTA(c) ==
    \/ SkipRow(c) \/ TakePrimary(c) \/ MarkChoice(c) \/ StoreRow(c)
    \/ PassBy(c) \/ TakeGroup(c) \/ TakePlaces(c) \/ RecordGroup(c) \/ FillPlace(c)

\* A kernel starts when the one before it on the stream has ended.
EndKernel ==
    /\ stage \in {"pass1", "pass2"}
    /\ \A c \in CTAs : loff[c] >= NvS
    /\ stage' = IF stage = "pass1" THEN "pass2" ELSE "built"
    /\ loff' = [c \in CTAs |-> c]
    /\ step' = [c \in CTAs |-> "row"]
    /\ mine' = [c \in CTAs |-> Nothing]
    /\ UNCHANGED <<srcInfo, build, scratch, dupPlan>>

Next == Clear \/ EndKernel \/ \E c \in CTAs : CTA(c)

Spec == Init /\ [][Next]_vars

\* Every CTA goes on until it ends, and then the stream does.
FairSpec == Spec /\ WF_vars(EndKernel) /\ \A c \in CTAs : WF_vars(CTA(c))

-----------------------------------------------------------------------------
\* The places of group g.
PlacesOf(g) == dupGroups[g][2] .. (dupGroups[g][2] + dupGroups[g][3] - 1)

\* The epilogue copies and the prologue sums by these ranges: no place is in two
\* groups, though CTAs take groups and places by separate atomics and get them in
\* different orders, and no group reaches beyond the places taken.
RangesDisjoint ==
    \A g \in Rows :
        /\ dupGroups[g][2] + dupGroups[g][3] <= dupCounts.loffs
        /\ \A h \in Rows \ {g} : PlacesOf(g) \cap PlacesOf(h) = {}

\* The prologue adds the duplicates of a group in the order of their places: that
\* is the order of the token's choices under every schedule, so that the rounded
\* sum does not depend on it, although groups and places do.
SumOrder ==
    stage = "built" =>
        \A g \in 0 .. (dupCounts.groups - 1) :
            \A p, q \in PlacesOf(g) :
                p < q => KidxOf(srcInfo[dupLoffs[p]]) < KidxOf(srcInfo[dupLoffs[q]])

\* What the epilogue and the prologue read.
GroupsBuilt ==
    {[primary |-> dupGroups[g][1], rows |-> {dupLoffs[p] : p \in PlacesOf(g)}] :
        g \in 0 .. (dupCounts.groups - 1)}

Abstract == INSTANCE DupMap WITH
    groups <- IF stage = "built" THEN GroupsBuilt ELSE {},
    stage <- IF stage \in {"pass1", "pass2"} THEN "building" ELSE stage

\* The kernels build exactly the groups of the duplicates, whatever the scratch
\* arrays held before, and they end.
ImplementsDupMap == Abstract!Spec
=============================================================================
