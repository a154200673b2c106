------------------------- MODULE DedupBuilderProofs -------------------------
(***************************************************************************)
(* For every number of CTAs, ranks, tokens and choices, every src_info, and*)
(* under every order of the atomics: the groups of the deduplication map   *)
(* get places of their own, the places of a group are in the order of the  *)
(* choices, and the map is the one that DupMap promises.                   *)
(***************************************************************************)
EXTENDS DedupBuilder, FiniteSetTheorems, FunctionTheorems, TLAPS

Steps == {"row", "mark", "store", "places", "record", "fill"}

\* The variables that the argument is about.
BuilderTypeOK ==
    /\ srcInfo \in Infos
    /\ kmask \in [Keys -> SUBSET Kidxs]
    /\ dupGroups \in [Rows -> Nat \X Nat \X Nat]
    /\ dupCounts \in [groups : Nat, loffs : Nat]
    /\ loff \in [CTAs -> Nat]
    /\ step \in [CTAs -> Steps]
    /\ mine \in [CTAs -> [grp : Nat, start : Nat, left : SUBSET Kidxs]]

\* A CTA that has a group is at a row with duplicates.
InGroup(c) == stage = "pass2" /\ step[c] \in {"places", "record", "fill"}
GroupsOfDuplicates ==
    \A c \in CTAs : InGroup(c) =>
        loff[c] \in Rows /\ srcInfo[loff[c]] # None /\ DupCount(c) > 0

\* A CTA has taken places for its group, which is not recorded yet.
Pending(c) == stage = "pass2" /\ step[c] = "record"
PlacesFor(c) == mine[c].start .. (mine[c].start + DupCount(c) - 1)

\* Places that are taken but not yet recorded count as well.
PendingApart ==
    \A c \in CTAs : Pending(c) =>
        /\ mine[c].start + DupCount(c) <= dupCounts.loffs
        /\ \A g \in Rows : PlacesFor(c) \cap PlacesOf(g) = {}
        /\ \A d \in CTAs \ {c} : Pending(d) => PlacesFor(c) \cap PlacesFor(d) = {}

DInv ==
    /\ BuilderTypeOK
    /\ GroupsOfDuplicates
    /\ RangesDisjoint
    /\ PendingApart
-----------------------------------------------------------------------------
LEMMA NvSNat == NvS \in Nat \ {0} /\ Cap <= NvS
<1>1. (TokenPadding - 1) * 2 * ExpertsPerRank \in Nat
  BY PaddingAssumption, ExpertsPerRankAssumption
<1> QED
  BY <1>1, CapAssumption DEF NvS

\* Quotient and remainder, as far as they are needed.
LEMMA DivMod ==
    ASSUME NEW a \in Nat, NEW n \in Nat \ {0}
    PROVE  /\ a \div n \in Nat
           /\ a % n \in 0 .. (n - 1)
           /\ a = n * (a \div n) + (a % n)
<1>1. a \div n \in Nat
  OBVIOUS
<1>2. a % n \in 0 .. (n - 1)
  OBVIOUS
<1>3. a = n * (a \div n) + (a % n)
  OBVIOUS
<1> QED
  BY <1>1, <1>2, <1>3

LEMMA DivBelow ==
    ASSUME NEW m \in Nat, NEW n \in Nat \ {0}, NEW a \in Nat, a < m * n
    PROVE  a \div n < m
<1>1. a \div n \in Nat /\ a % n \in Nat /\ a = n * (a \div n) + (a % n)
  BY DivMod
<1>2. SUFFICES ASSUME a \div n >= m PROVE FALSE
  BY <1>1
<1>3. PICK k \in Nat : a \div n = m + k
  <2>1. (a \div n) - m \in Nat
    BY <1>1, <1>2
  <2> QED
    BY <1>1, <2>1
<1>4. n * (m + k) = m * n + n * k /\ n * k \in Nat
  BY <1>3
<1> QED
  BY <1>1, <1>3, <1>4

\* A quotient and a remainder are determined by their number.
Divides(a, n, q, s) ==
    n \in Nat \ {0} /\ q \in Nat /\ s \in 0 .. (n - 1) /\ a = q * n + s

LEMMA QuotientUnique ==
    ASSUME NEW a, NEW n, NEW q, NEW s, NEW p, NEW t, Divides(a, n, q, s), Divides(a, n, p, t)
    PROVE  q = p /\ s = t
<1>0. /\ n \in Nat \ {0} /\ q \in Nat /\ p \in Nat /\ s \in 0 .. (n - 1) /\ t \in 0 .. (n - 1)
      /\ q * n + s = p * n + t
  BY DEF Divides
<1>1. ASSUME NEW x \in Nat, NEW y \in Nat, NEW u \in 0 .. (n - 1), NEW v \in 0 .. (n - 1),
             x * n + u = y * n + v, x < y
      PROVE  FALSE
  <2>1. PICK k \in Nat : y = x + 1 + k
    <3>1. y - x - 1 \in Nat
      BY <1>1
    <3> QED
      BY <1>1, <3>1
  <2>2. PICK e \in Int, b \in Nat : e = x * n /\ b = k * n
    BY <1>0
  <2>3. (x + 1 + k) * n = e + n + b
    <3>1. (x + 1 + k) * n = x * n + n + k * n
      BY <1>0
    <3> QED
      BY <2>2, <3>1
  <2> QED
    BY <1>0, <1>1, <2>1, <2>2, <2>3
<1>2. q = p
  BY <1>0, <1>1
<1>3. PICK e \in Int : e = q * n
  BY <1>0
<1> QED
  BY <1>0, <1>2, <1>3

\* The rank and the entry that a source names.
LEMMA SourceOf ==
    ASSUME NEW info \in {rank * NvS + entry : rank \in Ranks, entry \in Slots}
    PROVE  /\ SourceRank(info) \in Ranks /\ SourceEntry(info) \in Slots
           /\ info = SourceRank(info) * NvS + SourceEntry(info)
<1>1. PICK rank \in Ranks, entry \in Slots : info = rank * NvS + entry
  OBVIOUS
<1>2. PICK n : n = NvS /\ n \in Nat \ {0} /\ rank \in Nat /\ entry \in 0 .. (n - 1)
  BY NvSNat, NumRanksAssumption, CapAssumption DEF Ranks, Slots
<1>3. info \in Nat
  <2>1. rank * n \in Nat
    BY <1>2
  <2> QED
    BY <1>1, <1>2, <2>1
<1>4. /\ info \div n \in Nat /\ info % n \in 0 .. (n - 1)
      /\ info = n * (info \div n) + (info % n)
  <2>1. info \div n \in Nat
    BY <1>2, <1>3
  <2>2. info % n \in 0 .. (n - 1)
    BY <1>2, <1>3
  <2>3. info = n * (info \div n) + (info % n)
    BY <1>2, <1>3
  <2> QED
    BY <2>1, <2>2, <2>3
<1>5. PICK q, s : q = info \div n /\ s = info % n
  OBVIOUS
<1>6. q * n + s = rank * n + entry
  <2>1. n * q = q * n
    BY <1>2, <1>4, <1>5
  <2> QED
    BY <1>1, <1>2, <1>4, <1>5, <2>1
<1>7. q = rank
  <2>1. Divides(rank * n + entry, n, q, s) /\ Divides(rank * n + entry, n, rank, entry)
    BY <1>2, <1>4, <1>5, <1>6 DEF Divides
  <2> QED
    BY <2>1, QuotientUnique
<1>8. SourceRank(info) = rank
  BY <1>2, <1>5, <1>7 DEF SourceRank
<1>9. SourceEntry(info) = entry
  <2>1. rank * n \in Int
    BY <1>2
  <2>2. SourceEntry(info) = (rank * n + entry) - rank * n
    BY <1>1, <1>2, <1>8 DEF SourceEntry
  <2> QED
    BY <1>2, <2>1, <2>2
<1> QED
  BY <1>1, <1>8, <1>9

\* The key and the choice of an entry are within the tables.
LEMMA KeyInTables ==
    ASSUME NEW info \in {rank * NvS + entry : rank \in Ranks, entry \in Slots}
    PROVE  KeyOf(info) \in Keys /\ KidxOf(info) \in Kidxs
<1>1. PICK rank \in Ranks, entry \in Slots : SourceRank(info) = rank /\ SourceEntry(info) = entry
  BY SourceOf
<1>2. /\ rank \in Nat /\ rank < NumRanks /\ NumRanks \in Nat \ {0}
      /\ entry \in Nat /\ entry < NumTokens * TopK
      /\ NumTokens \in Nat \ {0} /\ TopK \in Nat \ {0}
  BY NumRanksAssumption, TokensAssumption, CapAssumption, CapIsEntries DEF Ranks, Slots
<1>3. entry \div TopK \in Nat /\ entry \div TopK < NumTokens /\ entry % TopK \in Kidxs
  <2>1. entry \div TopK < NumTokens
    BY <1>2, DivBelow
  <2> QED
    <3>1. entry \div TopK \in Nat
      BY <1>2
    <3>2. entry % TopK \in 0 .. (TopK - 1)
      BY <1>2
    <3> QED
      BY <2>1, <3>1, <3>2 DEF Kidxs
<1>4. rank * NumTokens + (entry \div TopK) \in 0 .. (NumRanks * NumTokens - 1)
  <2>1. PICK k \in Nat : NumRanks = rank + 1 + k
    <3>1. NumRanks - rank - 1 \in Nat
      BY <1>2
    <3> QED
      BY <1>2, <3>1
  <2>2. /\ (rank + 1 + k) * NumTokens = rank * NumTokens + NumTokens + k * NumTokens
        /\ k * NumTokens \in Nat /\ rank * NumTokens \in Nat
    BY <1>2
  <2>3. rank * NumTokens + (entry \div TopK) < NumRanks * NumTokens
    BY <1>2, <1>3, <2>1, <2>2
  <2>4. NumRanks * NumTokens \in Nat
    BY <1>2
  <2> QED
    BY <1>3, <2>2, <2>3, <2>4
<1> QED
  BY <1>1, <1>3, <1>4 DEF KeyOf, KidxOf, TokenOf, ChoiceOf, Keys
-----------------------------------------------------------------------------
LEMMA DupCountNat ==
    ASSUME DInv, NEW c \in CTAs, loff[c] \in Rows, srcInfo[loff[c]] # None
    PROVE  /\ Key(c) \in Keys /\ KidxOf(srcInfo[loff[c]]) \in Kidxs
           /\ DupCount(c) \in Int
<1>1. srcInfo[loff[c]] \in {rank * NvS + entry : rank \in Ranks, entry \in Slots}
  BY InfosAssumption DEF DInv, BuilderTypeOK
<1>2. Key(c) \in Keys /\ KidxOf(srcInfo[loff[c]]) \in Kidxs
  BY <1>1, KeyInTables DEF Key
<1>3. Cardinality(kmask[Key(c)]) \in Nat
  <2>1. IsFiniteSet(Kidxs)
    <3>1. 0 \in Int /\ TopK - 1 \in Int
      BY TokensAssumption
    <3> QED
      BY <3>1, FS_Interval DEF Kidxs
  <2>2. kmask[Key(c)] \in SUBSET Kidxs
    BY <1>2 DEF DInv, BuilderTypeOK
  <2> QED
    BY <2>1, <2>2, FS_Subset, FS_CardinalityType
<1> QED
  BY <1>2, <1>3 DEF DupCount

LEMMA InRow == ASSUME NEW c \in CTAs, loff[c] \in Nat, loff[c] < NvS PROVE loff[c] \in Rows
BY NvSNat DEF Rows

LEMMA InitDInv == Init => DInv
<1> SUFFICES ASSUME Init PROVE DInv
  OBVIOUS
<1>1. BuilderTypeOK
  <2>1. CTAs \subseteq Nat
    BY SMsAssumption DEF CTAs
  <2> QED
    BY <2>1 DEF Init, BuilderTypeOK, NoGroup, Nothing, Steps
<1>2. RangesDisjoint
  BY DEF Init, RangesDisjoint, PlacesOf, NoGroup
<1> QED
  BY <1>1, <1>2 DEF Init, DInv, GroupsOfDuplicates, InGroup, PendingApart, Pending

\* A step within a kernel that records no group and takes no places: CTA c gets to
\* step s at row l.
Passes(c, s, l) ==
    /\ c \in CTAs /\ l \in Nat /\ s \in Steps
    /\ UNCHANGED <<srcInfo, stage, dupGroups>>
    /\ dupCounts'.loffs = dupCounts.loffs
    /\ loff' = [loff EXCEPT ![c] = l] /\ step' = [step EXCEPT ![c] = s]
    /\ \A d \in CTAs \ {c} : mine'[d].start = mine[d].start
    /\ stage = "pass2" => UNCHANGED kmask /\ s # "record"

LEMMA PassesPreserves ==
    ASSUME DInv, NEW c, NEW s, NEW l, Passes(c, s, l), BuilderTypeOK',
           stage = "pass2" /\ s \in {"places", "fill"} =>
               l = loff[c] /\ l \in Rows /\ srcInfo[l] # None /\ DupCount(c) > 0
    PROVE  DInv'
<1>1. GroupsOfDuplicates'
  BY DEF GroupsOfDuplicates, InGroup, DInv, Passes, DupCount, Key, BuilderTypeOK
<1>2. RangesDisjoint'
  BY DEF RangesDisjoint, PlacesOf, DInv, Passes
<1>3. \A d \in CTAs : Pending(d)' =>
          Pending(d) /\ PlacesFor(d)' = PlacesFor(d) /\ DupCount(d)' = DupCount(d)
  BY DEF Pending, PlacesFor, DupCount, Key, Passes, DInv, BuilderTypeOK
<1>4. PendingApart'
  <2> SUFFICES ASSUME NEW d \in CTAs, Pending(d)'
               PROVE  /\ mine'[d].start + DupCount(d)' <= dupCounts'.loffs
                      /\ \A g \in Rows : PlacesFor(d)' \cap PlacesOf(g)' = {}
                      /\ \A e \in CTAs \ {d} : Pending(e)' => PlacesFor(d)' \cap PlacesFor(e)' = {}
    BY DEF PendingApart
  <2>1. Pending(d) /\ PlacesFor(d)' = PlacesFor(d) /\ DupCount(d)' = DupCount(d)
    BY <1>3
  <2>2. d # c
    BY DEF Pending, Passes, DInv, BuilderTypeOK
  <2>3. mine'[d].start = mine[d].start /\ dupCounts'.loffs = dupCounts.loffs
    BY <2>2 DEF Passes
  <2>4. \A g \in Rows : PlacesOf(g)' = PlacesOf(g)
    BY DEF Passes, PlacesOf
  <2>5. /\ mine[d].start + DupCount(d) <= dupCounts.loffs
        /\ \A g \in Rows : PlacesFor(d) \cap PlacesOf(g) = {}
        /\ \A e \in CTAs \ {d} : Pending(e) => PlacesFor(d) \cap PlacesFor(e) = {}
    BY <2>1 DEF PendingApart, DInv
  <2>6. \A e \in CTAs \ {d} : Pending(e)' => PlacesFor(d)' \cap PlacesFor(e)' = {}
    BY <1>3, <2>1, <2>5
  <2> QED
    BY <2>1, <2>3, <2>4, <2>5, <2>6
<1> QED
  BY <1>1, <1>2, <1>4 DEF DInv

LEMMA NextDInv == DInv /\ [Next]_vars => DInv'
<1> SUFFICES ASSUME DInv, [Next]_vars PROVE DInv'
  OBVIOUS
<1> USE DEF Goto, In, Steps
<1>0. \A c \in CTAs : NextRow(c) =>
          /\ loff[c] + NumSMs \in Nat
          /\ loff' = [loff EXCEPT ![c] = loff[c] + NumSMs] /\ loff' \in [CTAs -> Nat]
          /\ step' = [step EXCEPT ![c] = "row"] /\ step' \in [CTAs -> Steps]
  <2> SUFFICES ASSUME NEW c \in CTAs, NextRow(c)
               PROVE  /\ loff[c] + NumSMs \in Nat
                      /\ loff' = [loff EXCEPT ![c] = loff[c] + NumSMs] /\ loff' \in [CTAs -> Nat]
                      /\ step' = [step EXCEPT ![c] = "row"] /\ step' \in [CTAs -> Steps]
    OBVIOUS
  <2>1. loff[c] + NumSMs \in Nat
    <3>1. loff[c] \in Nat
      BY DEF DInv, BuilderTypeOK
    <3> QED
      BY <3>1, SMsAssumption
  <2>2. loff' = [loff EXCEPT ![c] = loff[c] + NumSMs] /\ step' = [step EXCEPT ![c] = "row"]
    BY DEF NextRow
  <2>3. loff' \in [CTAs -> Nat]
    BY <2>1, <2>2 DEF DInv, BuilderTypeOK
  <2>4. step' \in [CTAs -> Steps]
    BY <2>2 DEF DInv, BuilderTypeOK
  <2> QED
    BY <2>1, <2>2, <2>3, <2>4
<1>1. CASE Clear
  <2>1. BuilderTypeOK'
    BY <1>1 DEF Clear, DInv, BuilderTypeOK, NoGroup, ctaVars
  <2>2. RangesDisjoint'
    BY <1>1 DEF Clear, RangesDisjoint, PlacesOf, NoGroup
  <2> QED
    BY <1>1, <2>1, <2>2 DEF Clear, DInv, GroupsOfDuplicates, InGroup, PendingApart, Pending
<1>2. CASE EndKernel
  <2>1. BuilderTypeOK'
    <3>1. CTAs \subseteq Nat
      BY SMsAssumption DEF CTAs
    <3> QED
      BY <1>2, <3>1 DEF EndKernel, DInv, BuilderTypeOK, Nothing, scratch, dupPlan
  <2>2. RangesDisjoint'
    BY <1>2 DEF EndKernel, RangesDisjoint, PlacesOf, dupPlan, DInv
  <2> QED
    BY <1>2, <2>1, <2>2 DEF EndKernel, DInv, GroupsOfDuplicates, InGroup, PendingApart, Pending
<1>3. ASSUME NEW c \in CTAs, SkipRow(c) \/ PassBy(c) PROVE DInv'
  <2>1. NextRow(c) /\ UNCHANGED <<srcInfo, stage, kmask, dupPlan, mine>>
    BY <1>3 DEF SkipRow, PassBy, scratch
  <2>2. Passes(c, "row", loff[c] + NumSMs) /\ BuilderTypeOK'
    BY <1>0, <2>1 DEF Passes, dupPlan, DInv, BuilderTypeOK
  <2> QED
    BY <2>1, <2>2, PassesPreserves
<1>4. ASSUME NEW c \in CTAs, TakePrimary(c) PROVE DInv'
  <2>1. Passes(c, "mark", loff[c])
    BY <1>4 DEF TakePrimary, Passes, dupPlan, DInv, BuilderTypeOK
  <2>2. BuilderTypeOK'
    BY <1>4 DEF TakePrimary, dupPlan, DInv, BuilderTypeOK
  <2> QED
    BY <2>1, <2>2, PassesPreserves
<1>5. ASSUME NEW c \in CTAs, MarkChoice(c) PROVE DInv'
  <2>1. Passes(c, "store", loff[c])
    BY <1>5 DEF MarkChoice, Passes, dupPlan, DInv, BuilderTypeOK
  <2>2. KidxOf(srcInfo[loff[c]]) \in Kidxs
    BY <1>5, DupCountNat, InRow DEF MarkChoice, DInv, BuilderTypeOK
  <2>3. BuilderTypeOK'
    BY <1>5, <2>2 DEF MarkChoice, dupPlan, DInv, BuilderTypeOK
  <2> QED
    BY <2>1, <2>3, PassesPreserves
<1>6. ASSUME NEW c \in CTAs, StoreRow(c) PROVE DInv'
  <2>1. NextRow(c) /\ UNCHANGED <<srcInfo, stage, kmask, dupPlan, mine>>
    BY <1>6 DEF StoreRow
  <2>2. Passes(c, "row", loff[c] + NumSMs) /\ BuilderTypeOK'
    BY <1>0, <2>1 DEF Passes, dupPlan, DInv, BuilderTypeOK
  <2> QED
    BY <2>1, <2>2, PassesPreserves
<1>7. ASSUME NEW c \in CTAs, TakeGroup(c) PROVE DInv'
  <2>1. loff[c] \in Rows /\ srcInfo[loff[c]] # None /\ DupCount(c) > 0
    BY <1>7, InRow DEF TakeGroup, LeadsGroup, DInv, BuilderTypeOK
  <2>2. /\ mine' = [mine EXCEPT ![c] = [grp |-> dupCounts.groups, start |-> 0, left |-> {}]]
        /\ dupCounts' = [dupCounts EXCEPT !.groups = @ + 1]
    <3>1. [Nothing EXCEPT !.grp = dupCounts.groups]
              = [grp |-> dupCounts.groups, start |-> 0, left |-> {}]
      BY DEF Nothing
    <3>2. mine' = [mine EXCEPT ![c] = [Nothing EXCEPT !.grp = dupCounts.groups]]
      BY <1>7 DEF TakeGroup
    <3> QED
      BY <1>7, <3>1, <3>2 DEF TakeGroup
  <2>3. Passes(c, "places", loff[c])
    BY <1>7, <2>2 DEF TakeGroup, Passes, scratch, DInv, BuilderTypeOK
  <2>4. BuilderTypeOK'
    <3>1. mine' \in [CTAs -> [grp : Nat, start : Nat, left : SUBSET Kidxs]]
      <4>1. [grp |-> dupCounts.groups, start |-> 0, left |-> {}]
                \in [grp : Nat, start : Nat, left : SUBSET Kidxs]
        BY DEF DInv, BuilderTypeOK
      <4> QED
        BY <2>2, <4>1 DEF DInv, BuilderTypeOK
    <3>2. dupCounts' \in [groups : Nat, loffs : Nat]
      <4>1. dupCounts \in [groups : Nat, loffs : Nat]
        BY DEF DInv, BuilderTypeOK
      <4>2. dupCounts.groups \in Nat
        BY <4>1
      <4>3. dupCounts.groups + 1 \in Nat
        BY <4>2
      <4> QED
        BY <2>2, <4>1, <4>3
    <3>3. /\ UNCHANGED <<srcInfo, kmask, dupGroups, loff>>
          /\ step' = [step EXCEPT ![c] = "places"]
      BY <1>7 DEF TakeGroup, scratch
    <3>4. step' \in [CTAs -> Steps]
      BY <3>3 DEF DInv, BuilderTypeOK
    <3> QED
      BY <3>1, <3>2, <3>3, <3>4 DEF DInv, BuilderTypeOK
  <2> QED
    BY <2>1, <2>3, <2>4, PassesPreserves
<1>8. ASSUME NEW c \in CTAs, TakePlaces(c) PROVE DInv'
  <2>1. loff[c] \in Rows /\ srcInfo[loff[c]] # None /\ DupCount(c) \in Nat \ {0}
    <3>1. InGroup(c)
      BY <1>8 DEF TakePlaces, InGroup
    <3>2. loff[c] \in Rows /\ srcInfo[loff[c]] # None /\ DupCount(c) > 0
      BY <3>1 DEF DInv, GroupsOfDuplicates
    <3>3. DupCount(c) \in Int
      BY <3>2, DupCountNat
    <3> QED
      BY <3>2, <3>3
  <2>2. Key(c) \in Keys /\ Duplicates(c) \in SUBSET Kidxs
    BY <2>1, DupCountNat DEF Duplicates, DInv, BuilderTypeOK
  <2>3. /\ stage = "pass2" /\ step[c] = "places"
        /\ UNCHANGED <<srcInfo, stage, kmask, dupGroups, loff>>
        /\ step' = [step EXCEPT ![c] = "record"]
        /\ mine' = [mine EXCEPT ![c] = [@ EXCEPT !.start = dupCounts.loffs, !.left = Duplicates(c)]]
        /\ dupCounts' = [dupCounts EXCEPT !.loffs = @ + DupCount(c)]
    BY <1>8 DEF TakePlaces, PlacesTaken, scratch
  <2>4. BuilderTypeOK'
    <3>1. mine' \in [CTAs -> [grp : Nat, start : Nat, left : SUBSET Kidxs]]
      <4>1. [mine[c] EXCEPT !.start = dupCounts.loffs, !.left = Duplicates(c)]
                \in [grp : Nat, start : Nat, left : SUBSET Kidxs]
        BY <2>2 DEF DInv, BuilderTypeOK
      <4> QED
        BY <2>3, <4>1 DEF DInv, BuilderTypeOK
    <3>2. dupCounts' \in [groups : Nat, loffs : Nat]
      <4>1. dupCounts \in [groups : Nat, loffs : Nat]
        BY DEF DInv, BuilderTypeOK
      <4>2. dupCounts.loffs \in Nat
        BY <4>1
      <4>3. dupCounts.loffs + DupCount(c) \in Nat
        BY <2>1, <4>2
      <4> QED
        BY <2>3, <4>1, <4>3
    <3>3. step' \in [CTAs -> Steps]
      BY <2>3 DEF DInv, BuilderTypeOK
    <3> QED
      BY <2>3, <3>1, <3>2, <3>3 DEF DInv, BuilderTypeOK
  <2>5. \A d \in CTAs : DupCount(d)' = DupCount(d)
    BY <2>3 DEF DupCount, Key
  <2>6. GroupsOfDuplicates'
    BY <2>1, <2>3, <2>5 DEF DInv, GroupsOfDuplicates, InGroup, BuilderTypeOK
  <2>7. dupCounts.loffs \in Nat /\ dupCounts'.loffs = dupCounts.loffs + DupCount(c)
    BY <2>1, <2>3 DEF DInv, BuilderTypeOK
  <2>8. /\ PlacesFor(c)' = dupCounts.loffs .. (dupCounts.loffs + DupCount(c) - 1)
        /\ mine'[c].start = dupCounts.loffs
        /\ \A d \in CTAs \ {c} : PlacesFor(d)' = PlacesFor(d) /\ mine'[d] = mine[d]
        /\ \A d \in CTAs \ {c} : Pending(d)' => Pending(d)
    BY <2>3, <2>5 DEF PlacesFor, Pending, DInv, BuilderTypeOK
  <2>9. \A g \in Rows : PlacesOf(g)' = PlacesOf(g)
    BY <2>3 DEF PlacesOf
  <2>10. RangesDisjoint'
    <3>1. \A g \in Rows : dupGroups[g][2] \in Nat /\ dupGroups[g][3] \in Nat
      BY DEF DInv, BuilderTypeOK
    <3>2. \A g \in Rows : dupGroups'[g][2] + dupGroups'[g][3] <= dupCounts'.loffs
      <4>1. dupGroups' = dupGroups
        BY <2>3
      <4>2. ASSUME NEW g \in Rows PROVE dupGroups[g][2] + dupGroups[g][3] <= dupCounts'.loffs
        <5>1. dupGroups[g][2] + dupGroups[g][3] <= dupCounts.loffs
          BY DEF RangesDisjoint, DInv
        <5> QED
          BY <2>1, <2>7, <3>1, <5>1
      <4> QED
        BY <4>1, <4>2
    <3>3. \A g \in Rows : \A h \in Rows \ {g} : PlacesOf(g)' \cap PlacesOf(h)' = {}
      BY <2>9 DEF RangesDisjoint, DInv
    <3> QED
      BY <3>2, <3>3 DEF RangesDisjoint
  <2>11. PendingApart'
    <3> SUFFICES ASSUME NEW d \in CTAs, Pending(d)'
                 PROVE  /\ mine'[d].start + DupCount(d) <= dupCounts'.loffs
                        /\ \A g \in Rows : PlacesFor(d)' \cap PlacesOf(g) = {}
                        /\ \A q \in CTAs \ {d} : Pending(q)' => PlacesFor(d)' \cap PlacesFor(q)' = {}
      BY <2>5, <2>9 DEF PendingApart
    <3>1. \A q \in CTAs \ {c} : Pending(q)' => PlacesFor(q)' \cap PlacesFor(c)' = {}
      <4> SUFFICES ASSUME NEW q \in CTAs \ {c}, Pending(q), NEW x \in PlacesFor(q)
                   PROVE  x \notin PlacesFor(c)'
        BY <2>8
      <4>1. mine[q].start + DupCount(q) <= dupCounts.loffs /\ mine[q].start \in Nat
        BY DEF DInv, PendingApart, BuilderTypeOK
      <4>2. DupCount(q) \in Int
        <5>1. InGroup(q)
          BY DEF Pending, InGroup
        <5>2. loff[q] \in Rows /\ srcInfo[loff[q]] # None
          BY <5>1 DEF DInv, GroupsOfDuplicates
        <5> QED
          BY <5>2, DupCountNat
      <4> QED
        BY <2>7, <2>8, <4>1, <4>2 DEF PlacesFor
    <3>2. CASE d = c
      <4>1. \A g \in Rows : PlacesFor(c)' \cap PlacesOf(g) = {}
        <5> SUFFICES ASSUME NEW g \in Rows, NEW x \in PlacesOf(g) PROVE x \notin PlacesFor(c)'
          OBVIOUS
        <5>1. /\ dupGroups[g][2] \in Nat /\ dupGroups[g][3] \in Nat
              /\ dupGroups[g][2] + dupGroups[g][3] <= dupCounts.loffs
          BY DEF DInv, BuilderTypeOK, RangesDisjoint
        <5> QED
          BY <2>7, <2>8, <5>1 DEF PlacesOf
      <4>2. mine'[c].start + DupCount(c) <= dupCounts'.loffs
        BY <2>1, <2>7, <2>8
      <4>3. \A q \in CTAs \ {c} : Pending(q)' => PlacesFor(c)' \cap PlacesFor(q)' = {}
        BY <3>1
      <4> QED
        BY <3>2, <4>1, <4>2, <4>3
    <3>3. CASE d # c
      <4>1. mine[d].start + DupCount(d) <= dupCounts.loffs /\ mine[d].start \in Nat
        BY <2>8, <3>3 DEF DInv, PendingApart, BuilderTypeOK
      <4>2. DupCount(d) \in Int
        <5>1. InGroup(d)
          BY <2>8, <3>3 DEF Pending, InGroup
        <5>2. loff[d] \in Rows /\ srcInfo[loff[d]] # None
          BY <5>1 DEF DInv, GroupsOfDuplicates
        <5> QED
          BY <5>2, DupCountNat
      <4>3. mine'[d].start + DupCount(d) <= dupCounts'.loffs
        BY <2>1, <2>7, <2>8, <3>3, <4>1, <4>2
      <4>4. \A g \in Rows : PlacesFor(d)' \cap PlacesOf(g) = {}
        BY <2>8, <3>3 DEF DInv, PendingApart
      <4>5. \A q \in CTAs \ {d} : Pending(q)' => PlacesFor(d)' \cap PlacesFor(q)' = {}
        BY <2>8, <3>1, <3>3 DEF DInv, PendingApart
      <4> QED
        BY <4>3, <4>4, <4>5
    <3> QED
      BY <3>2, <3>3
  <2> QED
    BY <2>4, <2>6, <2>10, <2>11 DEF DInv
<1>9. ASSUME NEW c \in CTAs, RecordGroup(c) PROVE DInv'
  <2>1. loff[c] \in Rows /\ srcInfo[loff[c]] # None /\ DupCount(c) \in Nat \ {0}
    <3>1. InGroup(c)
      BY <1>9 DEF RecordGroup, InGroup
    <3>2. loff[c] \in Rows /\ srcInfo[loff[c]] # None /\ DupCount(c) > 0
      BY <3>1 DEF DInv, GroupsOfDuplicates
    <3>3. DupCount(c) \in Int
      BY <3>2, DupCountNat
    <3> QED
      BY <3>2, <3>3
  <2>2. /\ stage = "pass2" /\ step[c] = "record" /\ Pending(c)
        /\ UNCHANGED <<srcInfo, stage, kmask, dupCounts, loff, mine>>
        /\ step' = [step EXCEPT ![c] = "fill"]
        /\ dupGroups' = [dupGroups EXCEPT ![mine[c].grp] = <<loff[c], mine[c].start, DupCount(c)>>]
    BY <1>9 DEF RecordGroup, Pending, scratch
  <2>3. BuilderTypeOK'
    <3>1. mine[c].start \in Nat /\ loff[c] \in Nat
      BY DEF DInv, BuilderTypeOK
    <3>2. <<loff[c], mine[c].start, DupCount(c)>> \in Nat \X Nat \X Nat
      BY <2>1, <3>1
    <3> QED
      BY <2>2, <3>2 DEF DInv, BuilderTypeOK
  <2>4. \A d \in CTAs : DupCount(d)' = DupCount(d) /\ PlacesFor(d)' = PlacesFor(d)
    BY <2>2 DEF DupCount, Key, PlacesFor
  <2>5. GroupsOfDuplicates'
    BY <2>1, <2>2, <2>4 DEF DInv, GroupsOfDuplicates, InGroup, BuilderTypeOK
  <2>6. \A g \in Rows : \/ /\ g = mine[c].grp
                            /\ dupGroups'[g][2] = mine[c].start /\ dupGroups'[g][3] = DupCount(c)
                            /\ PlacesOf(g)' = PlacesFor(c)
                         \/ /\ g # mine[c].grp
                            /\ dupGroups'[g] = dupGroups[g] /\ PlacesOf(g)' = PlacesOf(g)
    BY <2>2 DEF PlacesOf, PlacesFor, DInv, BuilderTypeOK
  <2>7. RangesDisjoint'
    <3> SUFFICES ASSUME NEW g \in Rows
                 PROVE  /\ dupGroups'[g][2] + dupGroups'[g][3] <= dupCounts.loffs
                        /\ \A h \in Rows \ {g} : PlacesOf(g)' \cap PlacesOf(h)' = {}
      BY <2>2 DEF RangesDisjoint
    <3>1. dupGroups'[g][2] + dupGroups'[g][3] <= dupCounts.loffs
      BY <2>2, <2>6 DEF DInv, RangesDisjoint, PendingApart
    <3>2. ASSUME NEW h \in Rows \ {g} PROVE PlacesOf(g)' \cap PlacesOf(h)' = {}
      <4>1. PlacesFor(c) \cap PlacesOf(g) = {} /\ PlacesFor(c) \cap PlacesOf(h) = {}
        BY <2>2 DEF DInv, PendingApart
      <4>2. PlacesOf(g) \cap PlacesOf(h) = {}
        BY DEF DInv, RangesDisjoint
      <4> QED
        BY <2>6, <4>1, <4>2
    <3> QED
      BY <3>1, <3>2
  <2>8. \A d \in CTAs : Pending(d)' => Pending(d) /\ d # c
    BY <2>2 DEF Pending, DInv, BuilderTypeOK
  <2>9. PendingApart'
    <3> SUFFICES ASSUME NEW d \in CTAs, Pending(d), d # c
                 PROVE  /\ mine[d].start + DupCount(d) <= dupCounts.loffs
                        /\ \A g \in Rows : PlacesFor(d) \cap PlacesOf(g)' = {}
                        /\ \A q \in CTAs \ {d} : Pending(q) => PlacesFor(d) \cap PlacesFor(q) = {}
      BY <2>2, <2>4, <2>8 DEF PendingApart
    <3>1. PlacesFor(d) \cap PlacesFor(c) = {}
      BY <2>2 DEF DInv, PendingApart
    <3>2. \A g \in Rows : PlacesFor(d) \cap PlacesOf(g) = {}
      BY DEF DInv, PendingApart
    <3> QED
      BY <2>6, <3>1, <3>2 DEF DInv, PendingApart
  <2> QED
    BY <2>3, <2>5, <2>7, <2>9 DEF DInv
<1>10. ASSUME NEW c \in CTAs, FillPlace(c) PROVE DInv'
  <2>1. PICK kidx :
            /\ mine' = [mine EXCEPT ![c].left = @ \ {kidx}]
            /\ IF mine[c].left = {kidx} THEN NextRow(c) ELSE UNCHANGED <<loff, step>>
    BY <1>10 DEF FillPlace
  <2>2. /\ stage = "pass2" /\ step[c] = "fill"
        /\ UNCHANGED <<srcInfo, stage, kmask, dupGroups, dupCounts>>
    BY <1>10 DEF FillPlace, scratch
  <2>3. mine' \in [CTAs -> [grp : Nat, start : Nat, left : SUBSET Kidxs]]
        /\ \A d \in CTAs : mine'[d].start = mine[d].start
    BY <2>1 DEF DInv, BuilderTypeOK
  <2>4. CASE NextRow(c)
    <3>1. Passes(c, "row", loff[c] + NumSMs) /\ BuilderTypeOK'
      BY <1>0, <2>2, <2>3, <2>4 DEF Passes, DInv, BuilderTypeOK
    <3> QED
      BY <3>1, PassesPreserves
  <2>5. CASE UNCHANGED <<loff, step>>
    <3>1. Passes(c, "fill", loff[c]) /\ BuilderTypeOK'
      BY <2>2, <2>3, <2>5 DEF Passes, DInv, BuilderTypeOK
    <3>2. loff[c] \in Rows /\ srcInfo[loff[c]] # None /\ DupCount(c) > 0
      BY <2>2 DEF DInv, GroupsOfDuplicates, InGroup
    <3> QED
      BY <3>1, <3>2, PassesPreserves
  <2> QED
    BY <2>1, <2>4, <2>5
<1>11. CASE UNCHANGED vars
  <2>1. UNCHANGED <<srcInfo, stage, kmask, dupGroups, dupCounts, loff, step, mine>>
    BY <1>11 DEF vars, scratch, dupPlan, ctaVars
  <2>2. BuilderTypeOK' /\ RangesDisjoint'
    BY <2>1 DEF DInv, BuilderTypeOK, RangesDisjoint, PlacesOf
  <2>3. GroupsOfDuplicates' /\ PendingApart'
    BY <2>1 DEF DInv, GroupsOfDuplicates, InGroup, DupCount, Key, PendingApart, Pending,
                PlacesFor, PlacesOf
  <2> QED
    BY <2>2, <2>3 DEF DInv
<1> QED
  BY <1>1, <1>2, <1>3, <1>4, <1>5, <1>6, <1>7, <1>8, <1>9, <1>10, <1>11 DEF Next, CTA

\* Whatever the order of the atomics, no place is in two groups, and none beyond
\* the places that were taken: an epilogue never copies a row of another group.
THEOREM PlacesDisjoint == Spec => []RangesDisjoint
<1>1. DInv => RangesDisjoint
  BY DEF DInv
<1> QED
  BY <1>1, InitDInv, NextDInv, PTL DEF Spec
-----------------------------------------------------------------------------
(* Packed words, rows of CTAs, and the order of choices.                     *)

\* The widths of the two fields of a packed word.
LEMMA FieldWidths ==
    /\ 2 ^ NvsBits \in Nat /\ NvS <= 2 ^ NvsBits - 1
    /\ 2 ^ KidxBits \in Nat /\ TopK <= 2 ^ KidxBits - 1
<1>1. 2 ^ NvsBits \in Int /\ 2 ^ KidxBits \in Int
  BY EncodingBounds
<1> QED
  BY <1>1, EncodingBounds, NvSNat, TokensAssumption

\* A packed word gives back its row and its choice, orders by the choice first, and
\* is less than what the tables are cleared to.
LEMMA PackedParts ==
    ASSUME NEW kidx \in Kidxs, NEW row \in Rows
    PROVE  /\ Packed(kidx, row) \in Nat /\ Packed(kidx, row) < Int32Max
           /\ PackedRow(Packed(kidx, row)) = row
           /\ PackedChoice(Packed(kidx, row)) = kidx
<1>1. PICK w, h : /\ w = 2 ^ NvsBits /\ h = 2 ^ KidxBits /\ w \in Nat /\ h \in Nat
                  /\ row \in 0 .. (w - 2) /\ kidx \in 0 .. (h - 2)
  <2>1. row \in 0 .. (NvS - 1) /\ kidx \in 0 .. (TopK - 1)
    BY DEF Rows, Kidxs
  <2> QED
    BY <2>1, FieldWidths, NvSNat, TokensAssumption
<1>2. PICK a : a = kidx * w /\ a \in Nat
  <2>1. kidx * w \in Nat
    BY <1>1
  <2> QED
    BY <2>1
<1>3. PICK word : word = Packed(kidx, row) /\ word = kidx * w + row /\ word = a + row
  BY <1>1, <1>2 DEF Packed
<1>4. word \in Nat
  BY <1>1, <1>2, <1>3
<1>5. word < h * w - 1
  <2>1. PICK k \in Nat : h = kidx + 2 + k
    <3>1. h - kidx - 2 \in Nat /\ h = kidx + 2 + (h - kidx - 2)
      BY <1>1
    <3> QED
      BY <3>1
  <2>2. PICK b : b = k * w /\ b \in Nat
    <3>1. k * w \in Nat
      BY <1>1
    <3> QED
      BY <3>1
  <2>3. (kidx + 2 + k) * w = kidx * w + 2 * w + k * w
    BY <1>1
  <2> QED
    BY <1>1, <1>2, <1>3, <2>1, <2>2, <2>3
<1>6. w \in Nat \ {0}
  BY <1>1
<1>7. PICK q, s : /\ q = word \div w /\ s = word % w /\ q \in Nat /\ s \in 0 .. (w - 1)
                  /\ q * w + s = kidx * w + row
  <2>1. word \div w \in Nat
    BY <1>4, <1>6
  <2>2. word % w \in 0 .. (w - 1)
    BY <1>4, <1>6
  <2>3. word = w * (word \div w) + (word % w)
    BY <1>4, <1>6
  <2>4. w * (word \div w) = (word \div w) * w
    BY <1>6, <2>1
  <2> QED
    BY <1>3, <2>1, <2>2, <2>3, <2>4
<1>8. q = kidx /\ s = row
  <2>1. Divides(kidx * w + row, w, q, s) /\ Divides(kidx * w + row, w, kidx, row)
    BY <1>1, <1>6, <1>7 DEF Divides
  <2> QED
    BY <2>1, QuotientUnique
<1> QED
  BY <1>1, <1>3, <1>4, <1>5, <1>7, <1>8 DEF Int32Max, PackedRow, PackedChoice

LEMMA PackedOrder ==
    ASSUME NEW kidx \in Kidxs, NEW row \in Rows, NEW kidx2 \in Kidxs, NEW row2 \in Rows,
           Packed(kidx, row) <= Packed(kidx2, row2)
    PROVE  kidx <= kidx2
<1>1. PICK w : /\ w = 2 ^ NvsBits /\ w \in Nat
               /\ row \in 0 .. (w - 2) /\ row2 \in 0 .. (w - 2) /\ kidx \in Nat /\ kidx2 \in Nat
  <2>1. row \in 0 .. (NvS - 1) /\ row2 \in 0 .. (NvS - 1) /\ kidx \in Nat /\ kidx2 \in Nat
    BY DEF Rows, Kidxs
  <2> QED
    BY <2>1, FieldWidths, NvSNat
<1>2. SUFFICES ASSUME kidx > kidx2 PROVE FALSE
  BY <1>1
<1>3. PICK k \in Nat : kidx = kidx2 + 1 + k
  <2>1. kidx - kidx2 - 1 \in Nat /\ kidx = kidx2 + 1 + (kidx - kidx2 - 1)
    BY <1>1, <1>2
  <2> QED
    BY <2>1
<1>4. PICK a, b : a = kidx2 * w /\ b = k * w /\ a \in Nat /\ b \in Nat
  <2>1. kidx2 * w \in Nat /\ k * w \in Nat
    BY <1>1
  <2> QED
    BY <2>1
<1>5. kidx * w = a + w + b
  <2>1. (kidx2 + 1 + k) * w = kidx2 * w + w + k * w
    BY <1>1
  <2> QED
    BY <1>3, <1>4, <2>1
<1>6. a + w + b + row <= a + row2
  BY <1>1, <1>4, <1>5 DEF Packed
<1> QED
  BY <1>1, <1>4, <1>6

\* The CTA that treats row l.
Hand(l) == l % NumSMs

LEMMA HandFacts ==
    /\ \A l \in Nat : Hand(l) \in CTAs /\ Hand(l) <= l /\ Hand(l + NumSMs) = Hand(l)
    /\ \A c \in CTAs : Hand(c) = c
    /\ \A l, m \in Nat : Hand(l) = Hand(m) /\ l < m + NumSMs => l <= m
<1>1. PICK n : n = NumSMs /\ n \in Nat \ {0}
  BY SMsAssumption
<1>2. ASSUME NEW l \in Nat
      PROVE  \E q \in Nat : l = q * n + Hand(l) /\ Hand(l) \in 0 .. (n - 1) /\ q * n \in Nat
  <2>1. l \div n \in Nat
    BY <1>1
  <2>2. l % n \in 0 .. (n - 1)
    BY <1>1
  <2>3. l = n * (l \div n) + (l % n)
    BY <1>1
  <2>4. n * (l \div n) = (l \div n) * n /\ (l \div n) * n \in Nat
    BY <1>1, <2>1
  <2> QED
    BY <1>1, <2>1, <2>2, <2>3, <2>4 DEF Hand
<1>3. ASSUME NEW l \in Nat PROVE Hand(l) \in CTAs /\ Hand(l) <= l
  BY <1>1, <1>2 DEF CTAs
<1>4. ASSUME NEW l \in Nat PROVE Hand(l + NumSMs) = Hand(l)
  <2>1. PICK q \in Nat : l = q * n + Hand(l) /\ Hand(l) \in 0 .. (n - 1) /\ q * n \in Nat
    BY <1>2
  <2>2. l + n \in Nat
    BY <1>1
  <2>3. PICK p \in Nat : /\ l + n = p * n + Hand(l + n) /\ Hand(l + n) \in 0 .. (n - 1)
    BY <1>2, <2>2
  <2>4. (q + 1) * n + Hand(l) = p * n + Hand(l + n)
    <3>1. (q + 1) * n = q * n + n
      BY <1>1
    <3>2. PICK a \in Nat, b \in Int : a = q * n /\ b = p * n
      BY <1>1, <2>1
    <3>3. PICK s, t : s = Hand(l) /\ t = Hand(l + n) /\ s \in Nat /\ t \in Nat
      BY <2>1, <2>3
    <3> QED
      BY <1>1, <2>1, <2>3, <3>1, <3>2, <3>3
  <2>5. PICK r \in Nat : r = q + 1
    OBVIOUS
  <2>6. Divides(r * n + Hand(l), n, r, Hand(l)) /\ Divides(r * n + Hand(l), n, p, Hand(l + n))
    BY <1>1, <2>1, <2>3, <2>4, <2>5 DEF Divides
  <2> QED
    BY <1>1, <2>6, QuotientUnique
<1>5. ASSUME NEW c \in CTAs PROVE Hand(c) = c
  <2>1. c \in 0 .. (n - 1)
    BY <1>1 DEF CTAs
  <2> QED
    BY <1>1, <2>1 DEF Hand
<1>6. ASSUME NEW l \in Nat, NEW m \in Nat, Hand(l) = Hand(m), l < m + NumSMs
      PROVE  l <= m
  <2>1. PICK q \in Nat, s \in 0 .. (n - 1) : l = q * n + s /\ s = Hand(l) /\ q * n \in Nat
    BY <1>2
  <2>2. PICK p \in Nat : m = p * n + s /\ p * n \in Nat
    BY <1>2, <1>6, <2>1
  <2>3. SUFFICES ASSUME q > p PROVE FALSE
    <3>1. PICK a \in Nat, b \in Nat : a = q * n /\ b = p * n
      BY <2>1, <2>2
    <3>2. CASE q = p
      BY <2>1, <2>2, <3>2
    <3>3. CASE q < p
      <4>1. PICK k \in Nat : p = q + 1 + k
        <5>1. p - q - 1 \in Nat /\ p = q + 1 + (p - q - 1)
          BY <3>3
        <5> QED
          BY <5>1
      <4>2. PICK e \in Nat : e = k * n
        BY <1>1
      <4>3. (q + 1 + k) * n = q * n + n + k * n
        BY <1>1
      <4>4. b = a + n + e
        BY <3>1, <4>1, <4>2, <4>3
      <4> QED
        BY <1>1, <2>1, <2>2, <3>1, <4>4
    <3> QED
      BY <3>2, <3>3
  <2>4. PICK k \in Nat : q = p + 1 + k
    <3>1. q - p - 1 \in Nat /\ q = p + 1 + (q - p - 1)
      BY <2>3
    <3> QED
      BY <3>1
  <2>5. PICK b \in Nat, e \in Nat : b = p * n /\ e = k * n
    BY <1>1, <2>2
  <2>6. (p + 1 + k) * n = p * n + n + k * n
    BY <1>1
  <2> QED
    BY <1>1, <1>6, <2>1, <2>2, <2>4, <2>5, <2>6
<1> QED
  BY <1>3, <1>4, <1>5, <1>6

\* The place of k among the numbers of K.
Rank(K, k) == Cardinality({j \in K : j < k})

LEMMA RankFacts ==
    ASSUME NEW K, K \subseteq Nat, IsFiniteSet(K)
    PROVE  /\ Cardinality(K) \in Nat
           /\ \A k \in K : Rank(K, k) \in 0 .. (Cardinality(K) - 1)
           /\ \A j, k \in K : j < k => Rank(K, j) < Rank(K, k)
<1>1. Cardinality(K) \in Nat
  BY FS_CardinalityType
<1>2. ASSUME NEW k PROVE /\ IsFiniteSet({j \in K : j < k}) /\ Rank(K, k) \in Nat
                         /\ Rank(K, k) <= Cardinality(K)
                         /\ Rank(K, k) = Cardinality(K) => {j \in K : j < k} = K
  <2>1. {j \in K : j < k} \subseteq K
    OBVIOUS
  <2>2. /\ IsFiniteSet({j \in K : j < k}) /\ Cardinality({j \in K : j < k}) <= Cardinality(K)
        /\ Cardinality({j \in K : j < k}) = Cardinality(K) => {j \in K : j < k} = K
    BY <2>1, FS_Subset
  <2> QED
    BY <2>2, FS_CardinalityType DEF Rank
<1>3. ASSUME NEW k \in K PROVE Rank(K, k) \in 0 .. (Cardinality(K) - 1)
  <2>1. k \notin {j \in K : j < k}
    <3>1. k \in Nat
      OBVIOUS
    <3> QED
      BY <3>1
  <2>2. Rank(K, k) # Cardinality(K)
    BY <1>2, <2>1
  <2>3. PICK n, r : n = Cardinality(K) /\ r = Rank(K, k)
    OBVIOUS
  <2>4. n \in Nat /\ r \in Nat /\ r <= n /\ r # n
    BY <1>1, <1>2, <2>2, <2>3
  <2>5. r \in 0 .. (n - 1)
    BY <2>4
  <2> QED
    BY <2>3, <2>5
<1>4. ASSUME NEW j \in K, NEW k \in K, j < k PROVE Rank(K, j) < Rank(K, k)
  <2>1. /\ {i \in K : i < j} \subseteq {i \in K : i < k}
        /\ j \in {i \in K : i < k} /\ j \notin {i \in K : i < j}
    <3>1. \A i \in K : i \in Nat
      OBVIOUS
    <3>2. j \in Nat /\ k \in Nat
      BY <3>1
    <3>3. \A i \in K : i < j => i < k
      BY <1>4, <3>1, <3>2
    <3>4. ~(j < j)
      BY <3>2
    <3> QED
      BY <1>4, <3>3, <3>4
  <2>2. IsFiniteSet({i \in K : i < k}) /\ Rank(K, k) \in Nat /\ Rank(K, j) \in Nat
    BY <1>2
  <2>3. /\ Cardinality({i \in K : i < j}) <= Cardinality({i \in K : i < k})
        /\ Cardinality({i \in K : i < j}) # Cardinality({i \in K : i < k})
    BY <2>1, <2>2, FS_Subset
  <2> QED
    BY <2>2, <2>3 DEF Rank
<1> QED
  BY <1>1, <1>3, <1>4

LEMMA RankTaken ==
    ASSUME NEW K, K \subseteq Nat, IsFiniteSet(K), NEW n \in 0 .. (Cardinality(K) - 1)
    PROVE  \E k \in K : Rank(K, k) = n
<1>1. PICK size \in Nat : size = Cardinality(K)
  BY FS_CardinalityType
<1> DEFINE place == [k \in K |-> Rank(K, k)]
<1>2. place \in Injection(K, 0 .. (size - 1))
  <2>1. place \in [K -> 0 .. (size - 1)]
    BY <1>1, RankFacts
  <2>2. \A j, k \in K : place[j] = place[k] => j = k
    <3> SUFFICES ASSUME NEW j \in K, NEW k \in K, Rank(K, j) = Rank(K, k) PROVE j = k
      OBVIOUS
    <3>1. j \in Nat /\ k \in Nat
      OBVIOUS
    <3>2. \A i, h \in K : i < h => Rank(K, i) < Rank(K, h)
      BY RankFacts
    <3>3. \A i \in K : Rank(K, i) \in Int
      <4>1. \A i \in K : Rank(K, i) \in 0 .. (Cardinality(K) - 1)
        BY RankFacts
      <4>2. ASSUME NEW i \in K PROVE Rank(K, i) \in Int
        <5>1. PICK r : r = Rank(K, i)
          OBVIOUS
        <5>2. r \in 0 .. (size - 1)
          BY <1>1, <4>1, <5>1
        <5> QED
          BY <5>1, <5>2
      <4> QED
        BY <4>2
    <3>4. ~(j < k)
      BY <3>2, <3>3
    <3>5. ~(k < j)
      BY <3>2, <3>3
    <3> QED
      BY <3>1, <3>4, <3>5
  <2> QED
    BY <2>1, <2>2 DEF Injection, IsInjective
<1>3. IsFiniteSet(0 .. (size - 1)) /\ Cardinality(0 .. (size - 1)) = size
  BY <1>1, FS_Interval
<1>4. place \in Surjection(K, 0 .. (size - 1))
  BY <1>1, <1>2, <1>3, FS_Injection
<1>5. PICK k \in K : place[k] = n
  BY <1>1, <1>4 DEF Surjection
<1> QED
  BY <1>5

\* The least of what is left, when all that is gone was less.
LEMMA RankOfLeast ==
    ASSUME NEW K, K \subseteq Nat, IsFiniteSet(K), NEW L \in SUBSET K, NEW k \in L,
           \A j \in K \ L : j < k, \A j \in L : k <= j
    PROVE  Rank(K, k) = Cardinality(K) - Cardinality(L)
<1>1. {j \in K : j < k} = K \ L
  <2>1. \A j \in K : j \in Nat
    OBVIOUS
  <2>2. k \in Nat
    BY <2>1
  <2>3. ASSUME NEW j PROVE j \in {i \in K : i < k} <=> j \in K \ L
    <3>1. ASSUME j \in K \ L PROVE j < k
      BY <3>1
    <3>2. ASSUME j \in L PROVE ~(j < k)
      <4>1. k <= j /\ j \in Nat
        BY <2>1, <3>2
      <4> QED
        BY <2>2, <4>1
    <3> QED
      BY <3>1, <3>2
  <2> QED
    BY <2>3
<1>2. /\ IsFiniteSet(L) /\ Cardinality(L) \in Nat /\ Cardinality(K) \in Nat
      /\ Cardinality(K \ L) = Cardinality(K) - Cardinality(K \cap L)
  BY FS_Subset, FS_Difference, FS_CardinalityType
<1>3. K \cap L = L
  OBVIOUS
<1> QED
  BY <1>1, <1>2, <1>3 DEF Rank
-----------------------------------------------------------------------------
(* What the tables, the groups and the places hold, schedule by schedule.    *)

\* The rows that an entry was sent to, their keys, choices and packed words.
Sent == {l \in Rows : srcInfo[l] # None}
KeyAt(l) == KeyOf(srcInfo[l])
KidxAt(l) == KidxOf(srcInfo[l])
WordAt(l) == Packed(KidxAt(l), l)

\* How far the CTA of row l has got with it.
Beyond(l, steps) == l < loff[Hand(l)] \/ (loff[Hand(l)] = l /\ step[Hand(l)] \in steps)
InPass1(l, steps) == stage \in {"pass2", "built"} \/ (stage = "pass1" /\ Beyond(l, steps))
InPass2(l, steps) == stage = "built" \/ (stage = "pass2" /\ Beyond(l, steps))

TablesTypeOK ==
    /\ primaryPacked \in [Keys -> Nat]
    /\ kidxToLoff \in [Keys \X Kidxs -> Nat]
    /\ dupLoffs \in [Rows -> Nat]

\* CTAs have their rows to themselves, and are at a step of the kernel that runs.
RowsApart ==
    /\ stage \in {"idle", "pass1", "pass2", "built"}
    /\ \A c \in CTAs :
        /\ Hand(loff[c]) = c
        /\ step[c] # "row" => loff[c] \in Sent
        /\ stage = "pass1" => step[c] \in {"row", "mark", "store"}
        /\ stage = "pass2" => step[c] \in {"row", "places", "record", "fill"}
        /\ stage \in {"idle", "built"} => loff[c] = c /\ step[c] = "row"

\* The tables of a key hold what the rows of the key that were treated are.
WordsLeast ==
    /\ \A l \in Sent : InPass1(l, {"mark", "store"}) => primaryPacked[KeyAt(l)] <= WordAt(l)
    /\ \A key \in Keys :
        \/ primaryPacked[key] = Int32Max
        \/ \E l \in Sent : /\ KeyAt(l) = key /\ InPass1(l, {"mark", "store"})
                           /\ primaryPacked[key] = WordAt(l)
ChoicesMarked ==
    \A key \in Keys, k \in Kidxs :
        k \in kmask[key] <=> \E l \in Sent : /\ KeyAt(l) = key /\ KidxAt(l) = k
                                             /\ InPass1(l, {"store"})
RowsStored ==
    \A l \in Sent : InPass1(l, {}) => kidxToLoff[<<KeyAt(l), KidxAt(l)>>] = l

Tables == stage # "idle" => WordsLeast /\ ChoicesMarked /\ RowsStored

\* The choices of the token of row l that are duplicates, and its primary row.
DupsAt(l) == kmask[KeyAt(l)] \ {PackedChoice(primaryPacked[KeyAt(l)])}
PrimaryAt(l) == PackedRow(primaryPacked[KeyAt(l)])
Leads(l) == l \in Sent /\ l = PrimaryAt(l) /\ DupsAt(l) # {}

\* How many groups and places are taken tells that none is beyond the arrays.
Leading == {l \in Rows : Leads(l) /\ InPass2(l, {"places", "record", "fill"})}
Served == {m \in Sent : /\ KidxAt(m) \in DupsAt(m)
                        /\ \E l \in Rows : l = PrimaryAt(m) /\ InPass2(l, {"record", "fill"})}
Taken ==
    /\ dupCounts.groups = Cardinality(Leading)
    /\ dupCounts.loffs = Cardinality(Served)

\* A CTA has a group that it has not recorded, and a group is recorded.
Unrecorded(c) == stage = "pass2" /\ step[c] \in {"places", "record"}
Recorded(g) == g \in Rows /\ dupGroups[g][3] > 0

\* Each group taken is either recorded or on its way, and each leading row has one.
GroupsApart ==
    /\ \A c \in CTAs, l \in Rows : InGroup(c) /\ loff[c] = l => Leads(l)
    /\ \A c \in CTAs : Unrecorded(c) =>
            /\ mine[c].grp \in 0 .. (dupCounts.groups - 1)
            /\ \A g \in Rows : Recorded(g) => g # mine[c].grp
    /\ \A c, d \in CTAs : Unrecorded(c) /\ Unrecorded(d) /\ c # d => mine[c].grp # mine[d].grp
    /\ \A g \in Rows : Recorded(g) => g < dupCounts.groups /\ dupGroups[g][1] \in Rows
    /\ \A g, l \in Rows : Recorded(g) /\ dupGroups[g][1] = l =>
            Leads(l) /\ InPass2(l, {"fill"}) /\ dupGroups[g][3] = Cardinality(DupsAt(l))
    /\ \A g, h \in Rows : Recorded(g) /\ Recorded(h) /\ dupGroups[g][1] = dupGroups[h][1] => g = h
GroupsAll ==
    /\ \A g \in 0 .. (dupCounts.groups - 1) :
            Recorded(g) \/ \E c \in CTAs : Unrecorded(c) /\ mine[c].grp = g
    /\ \A l \in Rows : Leads(l) /\ InPass2(l, {"fill"}) =>
            \E g \in Rows : Recorded(g) /\ dupGroups[g][1] = l

\* The choices that the CTA of row l still has to place.
LeftOf(l) == IF stage = "pass2" /\ loff[Hand(l)] = l /\ step[Hand(l)] = "fill"
             THEN mine[Hand(l)].left ELSE {}

\* A group's places hold the rows of its duplicates in the order of their choices,
\* as far as they are filled.
InOrder ==
    /\ \A c \in CTAs, l \in Rows : stage = "pass2" /\ step[c] = "record" /\ loff[c] = l =>
            mine[c].left = DupsAt(l)
    /\ \A c \in CTAs, l \in Rows : stage = "pass2" /\ step[c] = "fill" /\ loff[c] = l =>
            /\ mine[c].left # {} /\ mine[c].left \subseteq DupsAt(l)
            /\ \A j \in DupsAt(l) \ mine[c].left, k \in mine[c].left : j < k
            /\ \A g \in Rows : Recorded(g) /\ dupGroups[g][1] = l => dupGroups[g][2] = mine[c].start
    /\ \A g, l \in Rows : Recorded(g) /\ dupGroups[g][1] = l =>
            \A k \in DupsAt(l) \ LeftOf(l) :
                dupLoffs[dupGroups[g][2] + Rank(DupsAt(l), k)] = kidxToLoff[<<KeyAt(l), k>>]

Plan == Taken /\ GroupsApart /\ GroupsAll /\ InOrder

MInv == DInv /\ TablesTypeOK /\ RowsApart /\ Tables /\ Plan
-----------------------------------------------------------------------------
(* What a source tells of its key and its choice.                            *)
LEMMA KeyParts ==
    ASSUME NEW info \in {rank * NvS + entry : rank \in Ranks, entry \in Slots}
    PROVE  /\ Divides(KeyOf(info), NumTokens, SourceRank(info), TokenOf(SourceEntry(info)))
           /\ Divides(SourceEntry(info), TopK, TokenOf(SourceEntry(info)), KidxOf(info))
<1>1. PICK rank \in Ranks, entry \in Slots : SourceRank(info) = rank /\ SourceEntry(info) = entry
  BY SourceOf
<1>2. /\ rank \in Nat /\ rank < NumRanks /\ NumRanks \in Nat \ {0}
      /\ entry \in Nat /\ entry < NumTokens * TopK
      /\ NumTokens \in Nat \ {0} /\ TopK \in Nat \ {0}
  BY NumRanksAssumption, TokensAssumption, CapAssumption, CapIsEntries DEF Ranks, Slots
<1>3. PICK token, k : token = entry \div TopK /\ k = entry % TopK
  OBVIOUS
<1>4. token \in 0 .. (NumTokens - 1)
  <2>1. entry \div TopK < NumTokens
    BY <1>2, DivBelow
  <2>2. entry \div TopK \in Nat
    BY <1>2
  <2> QED
    BY <1>2, <1>3, <2>1, <2>2
<1>5. k \in 0 .. (TopK - 1)
  BY <1>2, <1>3
<1>6. entry = token * TopK + k
  <2>1. entry = TopK * (entry \div TopK) + (entry % TopK)
    BY <1>2
  <2>2. TopK * token = token * TopK
    BY <1>2, <1>4
  <2> QED
    BY <1>3, <2>1, <2>2
<1>7. KeyOf(info) = rank * NumTokens + token /\ KidxOf(info) = k /\ TokenOf(entry) = token
  BY <1>1, <1>3 DEF KeyOf, KidxOf, TokenOf, ChoiceOf
<1> QED
  BY <1>1, <1>2, <1>4, <1>5, <1>6, <1>7 DEF Divides

\* An entry is sent to one row: no two rows have both the key and the choice in common.
LEMMA SentFacts ==
    ASSUME BuilderTypeOK
    PROVE  /\ \A l \in Sent : /\ l \in Rows /\ l \in Nat /\ KeyAt(l) \in Keys /\ KidxAt(l) \in Kidxs
                              /\ WordAt(l) \in Nat /\ WordAt(l) < Int32Max
                              /\ PackedRow(WordAt(l)) = l /\ PackedChoice(WordAt(l)) = KidxAt(l)
           /\ \A l, m \in Sent : KeyAt(l) = KeyAt(m) /\ KidxAt(l) = KidxAt(m) => l = m
           /\ \A l, m \in Sent : KeyAt(l) = KeyAt(m) <=>
                  /\ SourceRank(srcInfo[l]) = SourceRank(srcInfo[m])
                  /\ TokenOf(SourceEntry(srcInfo[l])) = TokenOf(SourceEntry(srcInfo[m]))
<1>1. \A l \in Sent : /\ l \in Rows /\ srcInfo[l] # None
                      /\ srcInfo[l] \in {rank * NvS + entry : rank \in Ranks, entry \in Slots}
  BY InfosAssumption DEF BuilderTypeOK, Sent
<1>2. ASSUME NEW l \in Sent
      PROVE  /\ l \in Rows /\ l \in Nat /\ KeyAt(l) \in Keys /\ KidxAt(l) \in Kidxs
             /\ WordAt(l) \in Nat /\ WordAt(l) < Int32Max
             /\ PackedRow(WordAt(l)) = l /\ PackedChoice(WordAt(l)) = KidxAt(l)
  <2>1. l \in Rows /\ KeyAt(l) \in Keys /\ KidxAt(l) \in Kidxs
    BY <1>1, KeyInTables DEF KeyAt, KidxAt
  <2>2. l \in Nat
    BY <2>1, NvSNat DEF Rows
  <2> QED
    BY <2>1, <2>2, PackedParts DEF WordAt
<1>3. ASSUME NEW l \in Sent, NEW m \in Sent
      PROVE  /\ KeyAt(l) = KeyAt(m) <=>
                  /\ SourceRank(srcInfo[l]) = SourceRank(srcInfo[m])
                  /\ TokenOf(SourceEntry(srcInfo[l])) = TokenOf(SourceEntry(srcInfo[m]))
             /\ KeyAt(l) = KeyAt(m) /\ KidxAt(l) = KidxAt(m) => l = m
  <2>1. PICK a, b : a = srcInfo[l] /\ b = srcInfo[m]
    OBVIOUS
  <2>2. /\ a \in {rank * NvS + entry : rank \in Ranks, entry \in Slots}
        /\ b \in {rank * NvS + entry : rank \in Ranks, entry \in Slots}
    BY <1>1, <2>1
  <2>3. /\ Divides(KeyOf(a), NumTokens, SourceRank(a), TokenOf(SourceEntry(a)))
        /\ Divides(KeyOf(b), NumTokens, SourceRank(b), TokenOf(SourceEntry(b)))
        /\ Divides(SourceEntry(a), TopK, TokenOf(SourceEntry(a)), KidxOf(a))
        /\ Divides(SourceEntry(b), TopK, TokenOf(SourceEntry(b)), KidxOf(b))
    BY <2>2, KeyParts
  <2>4. KeyOf(a) = KeyOf(b) => /\ SourceRank(a) = SourceRank(b)
                               /\ TokenOf(SourceEntry(a)) = TokenOf(SourceEntry(b))
    BY <2>3, QuotientUnique
  <2>5. /\ SourceRank(a) = SourceRank(b)
        /\ TokenOf(SourceEntry(a)) = TokenOf(SourceEntry(b))
        => KeyOf(a) = KeyOf(b)
    BY DEF KeyOf
  <2>6. ASSUME KeyOf(a) = KeyOf(b), KidxOf(a) = KidxOf(b) PROVE l = m
    <3>1. SourceEntry(a) = SourceEntry(b)
      BY <2>3, <2>4, <2>6 DEF Divides
    <3>2. a = SourceRank(a) * NvS + SourceEntry(a) /\ b = SourceRank(b) * NvS + SourceEntry(b)
      BY <2>2, SourceOf
    <3>3. a = b
      BY <2>4, <2>6, <3>1, <3>2
    <3>4. l \in Rows /\ m \in Rows /\ srcInfo[l] # None /\ srcInfo[l] = srcInfo[m]
      BY <1>1, <2>1, <3>3
    <3> QED
      BY <3>4, InfosDistinct DEF BuilderTypeOK
  <2> QED
    BY <2>1, <2>4, <2>5, <2>6 DEF KeyAt, KidxAt
<1> QED
  BY <1>2, <1>3

\* How a move of one CTA shows.
LEMMA Progress ==
    ASSUME BuilderTypeOK, RowsApart, NEW c \in CTAs, NEW l \in Rows,
           NEW S, "row" \notin S
    PROVE  /\ Beyond(loff[c], S) <=> step[c] \in S
           /\ \A s : Goto(c, s) =>
                  (Beyond(l, S)' <=> IF l = loff[c] THEN s \in S ELSE Beyond(l, S))
           /\ NextRow(c) => (Beyond(l, S)' <=> l = loff[c] \/ Beyond(l, S))
<1>1. /\ l \in Nat /\ Hand(l) \in CTAs /\ loff[c] \in Nat /\ Hand(loff[c]) = c
      /\ NumSMs \in Nat \ {0} /\ loff \in [CTAs -> Nat] /\ step \in [CTAs -> Steps]
  <2>1. l \in Nat
    BY NvSNat DEF Rows
  <2>2. Hand(l) \in CTAs
    BY <2>1, HandFacts
  <2> QED
    BY <2>1, <2>2, SMsAssumption DEF BuilderTypeOK, RowsApart
<1>2. Beyond(loff[c], S) <=> step[c] \in S
  BY <1>1 DEF Beyond
<1>3. ASSUME NEW s, Goto(c, s)
      PROVE  Beyond(l, S)' <=> IF l = loff[c] THEN s \in S ELSE Beyond(l, S)
  <2>1. loff' = loff /\ step' = [step EXCEPT ![c] = s]
    BY <1>3 DEF Goto
  <2>2. CASE l = loff[c]
    BY <1>1, <2>1, <2>2 DEF Beyond
  <2>3. CASE l # loff[c]
    <3>1. Hand(l) # c => step'[Hand(l)] = step[Hand(l)]
      BY <1>1, <2>1
    <3>2. Hand(l) = c => loff[Hand(l)] # l
      BY <2>3
    <3> QED
      BY <2>1, <2>3, <3>1, <3>2 DEF Beyond
  <2> QED
    BY <2>2, <2>3
<1>4. ASSUME NextRow(c) PROVE Beyond(l, S)' <=> l = loff[c] \/ Beyond(l, S)
  <2>1. loff' = [loff EXCEPT ![c] = loff[c] + NumSMs] /\ step' = [step EXCEPT ![c] = "row"]
    BY <1>4 DEF NextRow
  <2>2. CASE Hand(l) # c
    <3>1. loff'[Hand(l)] = loff[Hand(l)] /\ step'[Hand(l)] = step[Hand(l)]
      BY <1>1, <2>1, <2>2
    <3> QED
      BY <1>1, <2>2, <3>1 DEF Beyond
  <2>3. CASE Hand(l) = c
    <3>1. loff'[Hand(l)] = loff[c] + NumSMs
      BY <1>1, <2>1, <2>3
    <3>2. Hand(l) = Hand(loff[c])
      BY <1>1, <2>3
    <3>3. l < loff[c] + NumSMs => l <= loff[c]
      BY <1>1, <3>2, HandFacts
    <3>4. l # loff[c] + NumSMs \/ step'[c] = "row"
      BY <1>1, <2>1
    <3> QED
      <4>1. Beyond(l, S)' <=> l < loff[c] + NumSMs
        BY <1>1, <2>3, <3>1, <3>4 DEF Beyond
      <4>2. l < loff[c] + NumSMs <=> l <= loff[c]
        BY <1>1, <3>3
      <4>3. Beyond(l, S) => l <= loff[c]
        BY <1>1, <2>3 DEF Beyond
      <4>4. l <= loff[c] => l = loff[c] \/ Beyond(l, S)
        BY <1>1, <2>3 DEF Beyond
      <4>5. l = loff[c] => l <= loff[c]
        BY <1>1
      <4> QED
        BY <4>1, <4>2, <4>3, <4>4, <4>5
  <2> QED
    BY <2>2, <2>3
<1> QED
  BY <1>2, <1>3, <1>4
-----------------------------------------------------------------------------
(* The rows of a CTA, and pass 1.                                            *)

\* What a CTA's step does to its place: it goes on with its row, or to its next.
Moves(c) ==
    /\ stage \in {"pass1", "pass2"} /\ UNCHANGED <<srcInfo, stage>>
    /\ loff[c] \in Rows
    /\ \/ NextRow(c)
       \/ /\ loff[c] \in Sent
          /\ \E s \in Steps :
                /\ Goto(c, s)
                /\ stage = "pass1" => s \in {"row", "mark", "store"}
                /\ stage = "pass2" => s \in {"row", "places", "record", "fill"}

LEMMA CTAMoves == ASSUME DInv, NEW c \in CTAs, CTA(c) PROVE Moves(c)
<1>1. loff[c] < NvS => loff[c] \in Rows
  BY InRow DEF DInv, BuilderTypeOK
<1>2. CASE SkipRow(c)
  BY <1>1, <1>2 DEF SkipRow, Moves
<1>3. ASSUME NEW k \in {"pass1", "pass2"}, NEW s, In(c, k, s)
      PROVE  stage = k /\ loff[c] \in Rows /\ loff[c] \in Sent /\ step[c] = s
  BY <1>1, <1>3 DEF In, Sent
<1>4. CASE TakePrimary(c)
  BY <1>3, <1>4 DEF TakePrimary, Moves, Steps
<1>5. CASE MarkChoice(c)
  BY <1>3, <1>5 DEF MarkChoice, Moves, Steps
<1>6. CASE StoreRow(c)
  BY <1>3, <1>6 DEF StoreRow, Moves
<1>7. CASE PassBy(c)
  BY <1>3, <1>7 DEF PassBy, Moves
<1>8. CASE TakeGroup(c)
  BY <1>3, <1>8 DEF TakeGroup, Moves, Steps
<1>9. CASE TakePlaces(c)
  BY <1>3, <1>9 DEF TakePlaces, Moves, Steps
<1>10. CASE RecordGroup(c)
  BY <1>3, <1>10 DEF RecordGroup, Moves, Steps
<1>11. CASE FillPlace(c)
  <2>1. In(c, "pass2", "fill") /\ UNCHANGED <<srcInfo, stage>> /\ (NextRow(c) \/ UNCHANGED <<loff, step>>)
    BY <1>11 DEF FillPlace
  <2>2. stage = "pass2" /\ loff[c] \in Rows /\ loff[c] \in Sent /\ step[c] = "fill"
    BY <1>3, <2>1
  <2>3. CASE UNCHANGED <<loff, step>>
    <3>1. Goto(c, "fill")
      <4>1. step' = [step EXCEPT ![c] = "fill"]
        BY <2>2, <2>3 DEF DInv, BuilderTypeOK
      <4> QED
        BY <2>3, <4>1 DEF Goto
    <3> QED
      BY <2>1, <2>2, <3>1 DEF Moves, Steps
  <2> QED
    BY <2>1, <2>2, <2>3 DEF Moves
<1> QED
  BY <1>2, <1>4, <1>5, <1>6, <1>7, <1>8, <1>9, <1>10, <1>11 DEF CTA

LEMMA MoveApart == ASSUME DInv, RowsApart, NEW c \in CTAs, Moves(c) PROVE RowsApart'
<1>1. /\ loff \in [CTAs -> Nat] /\ step \in [CTAs -> Steps] /\ NumSMs \in Nat \ {0}
      /\ loff[c] \in Nat /\ Hand(loff[c]) = c
  BY SMsAssumption DEF DInv, BuilderTypeOK, RowsApart
<1>2. stage' \in {"pass1", "pass2"} /\ stage' = stage /\ Sent' = Sent
  BY DEF Moves, Sent
<1>3. ASSUME NEW d \in CTAs
      PROVE  /\ Hand(loff'[d]) = d
             /\ step'[d] # "row" => loff'[d] \in Sent
             /\ stage = "pass1" => step'[d] \in {"row", "mark", "store"}
             /\ stage = "pass2" => step'[d] \in {"row", "places", "record", "fill"}
  <2>1. /\ Hand(loff[d]) = d
        /\ step[d] # "row" => loff[d] \in Sent
        /\ stage = "pass1" => step[d] \in {"row", "mark", "store"}
        /\ stage = "pass2" => step[d] \in {"row", "places", "record", "fill"}
    BY DEF RowsApart
  <2>2. CASE NextRow(c)
    <3>1. loff' = [loff EXCEPT ![c] = loff[c] + NumSMs] /\ step' = [step EXCEPT ![c] = "row"]
      BY <2>2 DEF NextRow
    <3>2. CASE d = c
      <4>1. loff'[d] = loff[c] + NumSMs /\ step'[d] = "row"
        BY <1>1, <3>1, <3>2
      <4>2. Hand(loff'[d]) = Hand(loff[c] + NumSMs)
        BY <4>1
      <4> QED
        BY <1>1, <3>2, <4>1, <4>2, HandFacts
    <3>3. CASE d # c
      <4>1. loff'[d] = loff[d] /\ step'[d] = step[d]
        BY <1>1, <3>1, <3>3
      <4>2. Hand(loff'[d]) = Hand(loff[d])
        BY <4>1
      <4> QED
        BY <2>1, <4>1, <4>2
    <3> QED
      BY <3>2, <3>3
  <2>3. CASE ~NextRow(c)
    <3>1. PICK s \in Steps :
            /\ loff[c] \in Sent /\ Goto(c, s)
            /\ stage = "pass1" => s \in {"row", "mark", "store"}
            /\ stage = "pass2" => s \in {"row", "places", "record", "fill"}
      BY <2>3 DEF Moves
    <3>2. loff' = loff /\ step' = [step EXCEPT ![c] = s]
      BY <3>1 DEF Goto
    <3>3. Hand(loff'[d]) = d
      <4>1. Hand(loff'[d]) = Hand(loff[d])
        BY <3>2
      <4> QED
        BY <2>1, <4>1
    <3>4. CASE d = c
      BY <1>1, <3>1, <3>2, <3>3, <3>4
    <3>5. CASE d # c
      <4>1. loff'[d] = loff[d] /\ step'[d] = step[d]
        BY <1>1, <3>2, <3>5
      <4> QED
        BY <2>1, <3>3, <4>1
    <3> QED
      BY <3>4, <3>5
  <2> QED
    BY <2>2, <2>3
<1> QED
  BY <1>2, <1>3 DEF RowsApart, Hand

\* The tables of a key stay good where nothing that they depend on changes.
LEMMA TablesKept ==
    ASSUME Tables, stage # "idle", UNCHANGED <<srcInfo, primaryPacked, kmask, kidxToLoff>>,
           \A l \in Sent : /\ InPass1(l, {"mark", "store"})' <=> InPass1(l, {"mark", "store"})
                           /\ InPass1(l, {"store"})' <=> InPass1(l, {"store"})
                           /\ InPass1(l, {})' <=> InPass1(l, {})
    PROVE  Tables'
<1>1. Sent' = Sent
  BY DEF Sent
<1>2. \A l \in Sent : KeyAt(l)' = KeyAt(l) /\ KidxAt(l)' = KidxAt(l) /\ WordAt(l)' = WordAt(l)
  BY DEF KeyAt, KidxAt, WordAt
<1>3. WordsLeast /\ ChoicesMarked /\ RowsStored
  BY DEF Tables
<1>4. WordsLeast'
  <2>1. \A l \in Sent : InPass1(l, {"mark", "store"})' => primaryPacked[KeyAt(l)] <= WordAt(l)
    BY <1>3 DEF WordsLeast
  <2>2. \A key \in Keys :
          \/ primaryPacked[key] = Int32Max
          \/ \E l \in Sent : /\ KeyAt(l) = key /\ InPass1(l, {"mark", "store"})'
                             /\ primaryPacked[key] = WordAt(l)
    BY <1>3 DEF WordsLeast
  <2> QED
    BY <1>1, <1>2, <2>1, <2>2 DEF WordsLeast
<1>5. ChoicesMarked'
  <2>1. \A key \in Keys, k \in Kidxs :
          k \in kmask[key] <=> \E l \in Sent : /\ KeyAt(l) = key /\ KidxAt(l) = k
                                               /\ InPass1(l, {"store"})'
    BY <1>3 DEF ChoicesMarked
  <2> QED
    BY <1>1, <1>2, <2>1 DEF ChoicesMarked
<1>6. RowsStored'
  <2>1. \A l \in Sent : InPass1(l, {})' => kidxToLoff[<<KeyAt(l), KidxAt(l)>>] = l
    BY <1>3 DEF RowsStored
  <2> QED
    BY <1>1, <1>2, <2>1 DEF RowsStored
<1> QED
  BY <1>4, <1>5, <1>6 DEF Tables

LEMMA Pass1Moves ==
    ASSUME DInv, RowsApart, NEW c \in CTAs, stage = "pass1", stage' = "pass1", NEW l \in Rows,
           NEW S, "row" \notin S
    PROVE  /\ InPass1(loff[c], S) <=> step[c] \in S
           /\ \A s : Goto(c, s) =>
                  (InPass1(l, S)' <=> IF l = loff[c] THEN s \in S ELSE InPass1(l, S))
           /\ NextRow(c) => (InPass1(l, S)' <=> l = loff[c] \/ InPass1(l, S))
<1>1. BuilderTypeOK
  BY DEF DInv
<1>2. /\ Beyond(loff[c], S) <=> step[c] \in S
      /\ \A s : Goto(c, s) => (Beyond(l, S)' <=> IF l = loff[c] THEN s \in S ELSE Beyond(l, S))
      /\ NextRow(c) => (Beyond(l, S)' <=> l = loff[c] \/ Beyond(l, S))
  BY <1>1, Progress
<1>3. InPass1(l, S)' <=> Beyond(l, S)'
  BY DEF InPass1
<1> QED
  BY <1>2, <1>3 DEF InPass1

LEMMA PrimaryTables ==
    ASSUME DInv, TablesTypeOK, RowsApart, Tables, NEW c \in CTAs, TakePrimary(c)
    PROVE  TablesTypeOK' /\ Tables'
<1>1. PICK r, key0, word : r = loff[c] /\ key0 = KeyAt(r) /\ word = WordAt(r)
  OBVIOUS
<1>2. /\ stage = "pass1" /\ stage' = "pass1" /\ step[c] = "row" /\ Goto(c, "mark")
      /\ primaryPacked' = [primaryPacked EXCEPT ![key0] = LeastWord(primaryPacked[key0], word)]
      /\ UNCHANGED <<srcInfo, kmask, kidxToLoff, dupLoffs>>
  BY <1>1 DEF TakePrimary, In, Key, KeyAt, KidxAt, WordAt, dupPlan
<1>3. r \in Sent
  BY <1>1, InRow DEF TakePrimary, In, Sent, DInv, BuilderTypeOK
<1>4. /\ \A l \in Sent : /\ l \in Rows /\ KeyAt(l) \in Keys /\ WordAt(l) \in Nat /\ WordAt(l) < Int32Max
      /\ key0 \in Keys /\ word \in Nat /\ word < Int32Max
  BY <1>1, <1>3, SentFacts DEF DInv
<1>5. \A l \in Rows : /\ InPass1(l, {"mark", "store"})' <=> l = r \/ InPass1(l, {"mark", "store"})
                      /\ InPass1(l, {"store"})' <=> InPass1(l, {"store"})
                      /\ InPass1(l, {})' <=> InPass1(l, {})
  BY <1>1, <1>2, Pass1Moves
<1>6. WordsLeast /\ ChoicesMarked /\ RowsStored
  BY <1>2 DEF Tables
<1>7. /\ Sent' = Sent
      /\ \A l \in Sent : KeyAt(l)' = KeyAt(l) /\ KidxAt(l)' = KidxAt(l) /\ WordAt(l)' = WordAt(l)
  BY <1>2 DEF Sent, KeyAt, KidxAt, WordAt
<1>8. \A key \in Keys : /\ primaryPacked[key] \in Nat /\ primaryPacked'[key] \in Nat
                        /\ primaryPacked'[key] <= primaryPacked[key]
                        /\ key # key0 => primaryPacked'[key] = primaryPacked[key]
  BY <1>2, <1>4 DEF TablesTypeOK, LeastWord
<1>9. primaryPacked'[key0] <= word /\ primaryPacked'[key0] \in {primaryPacked[key0], word}
  BY <1>2, <1>4 DEF TablesTypeOK, LeastWord
<1>10. WordsLeast'
  <2>1. ASSUME NEW l \in Sent, InPass1(l, {"mark", "store"})' PROVE primaryPacked'[KeyAt(l)] <= WordAt(l)
    <3>1. CASE l = r
      BY <1>1, <1>9, <3>1
    <3>2. CASE l # r
      <4>1. primaryPacked[KeyAt(l)] <= WordAt(l)
        BY <1>4, <1>5, <1>6, <2>1, <3>2 DEF WordsLeast
      <4>2. /\ primaryPacked[KeyAt(l)] \in Nat /\ primaryPacked'[KeyAt(l)] \in Nat
            /\ primaryPacked'[KeyAt(l)] <= primaryPacked[KeyAt(l)]
        BY <1>4, <1>8
      <4>3. WordAt(l) \in Nat
        BY <1>4
      <4> QED
        BY <4>1, <4>2, <4>3
    <3> QED
      BY <3>1, <3>2
  <2>2. ASSUME NEW key \in Keys
        PROVE  \/ primaryPacked'[key] = Int32Max
               \/ \E l \in Sent : /\ KeyAt(l) = key /\ InPass1(l, {"mark", "store"})'
                                  /\ primaryPacked'[key] = WordAt(l)
    <3>1. CASE key = key0 /\ primaryPacked'[key] = word
      BY <1>1, <1>3, <1>4, <1>5, <3>1
    <3>2. CASE primaryPacked'[key] = primaryPacked[key]
      BY <1>4, <1>5, <1>6, <3>2 DEF WordsLeast
    <3> QED
      BY <1>8, <1>9, <3>1, <3>2
  <2> QED
    BY <1>7, <2>1, <2>2 DEF WordsLeast
<1>11. ChoicesMarked'
  <2>1. \A key \in Keys, k \in Kidxs :
          k \in kmask[key] <=> \E l \in Sent : /\ KeyAt(l) = key /\ KidxAt(l) = k
                                               /\ InPass1(l, {"store"})'
    BY <1>4, <1>5, <1>6 DEF ChoicesMarked
  <2> QED
    BY <1>2, <1>7, <2>1 DEF ChoicesMarked
<1>12. RowsStored'
  <2>1. \A l \in Sent : InPass1(l, {})' => kidxToLoff[<<KeyAt(l), KidxAt(l)>>] = l
    BY <1>4, <1>5, <1>6 DEF RowsStored
  <2> QED
    BY <1>2, <1>7, <2>1 DEF RowsStored
<1>13. TablesTypeOK'
  BY <1>2, <1>4 DEF TablesTypeOK, LeastWord
<1> QED
  BY <1>10, <1>11, <1>12, <1>13 DEF Tables

LEMMA MarkTables ==
    ASSUME DInv, TablesTypeOK, RowsApart, Tables, NEW c \in CTAs, MarkChoice(c)
    PROVE  TablesTypeOK' /\ Tables'
<1>1. PICK r, key0, k0 : r = loff[c] /\ key0 = KeyAt(r) /\ k0 = KidxAt(r)
  OBVIOUS
<1>2. /\ stage = "pass1" /\ stage' = "pass1" /\ step[c] = "mark" /\ Goto(c, "store")
      /\ kmask' = [kmask EXCEPT ![key0] = kmask[key0] \cup {k0}]
      /\ UNCHANGED <<srcInfo, primaryPacked, kidxToLoff, dupLoffs>>
  BY <1>1 DEF MarkChoice, In, Key, KeyAt, KidxAt, dupPlan
<1>3. r \in Sent
  BY <1>1, InRow DEF MarkChoice, In, Sent, DInv, BuilderTypeOK
<1>4. \A l \in Sent : l \in Rows /\ KeyAt(l) \in Keys /\ KidxAt(l) \in Kidxs
  BY SentFacts DEF DInv
<1>5. \A l \in Rows : /\ InPass1(l, {"mark", "store"})' <=> InPass1(l, {"mark", "store"})
                      /\ InPass1(l, {"store"})' <=> l = r \/ InPass1(l, {"store"})
                      /\ InPass1(l, {})' <=> InPass1(l, {})
  BY <1>1, <1>2, Pass1Moves
<1>6. WordsLeast /\ ChoicesMarked /\ RowsStored
  BY <1>2 DEF Tables
<1>7. /\ Sent' = Sent
      /\ \A l \in Sent : KeyAt(l)' = KeyAt(l) /\ KidxAt(l)' = KidxAt(l) /\ WordAt(l)' = WordAt(l)
  BY <1>2 DEF Sent, KeyAt, KidxAt, WordAt
<1>8. WordsLeast'
  <2>1. \A l \in Sent : InPass1(l, {"mark", "store"})' => primaryPacked[KeyAt(l)] <= WordAt(l)
    BY <1>4, <1>5, <1>6 DEF WordsLeast
  <2>2. \A key \in Keys :
          \/ primaryPacked[key] = Int32Max
          \/ \E l \in Sent : /\ KeyAt(l) = key /\ InPass1(l, {"mark", "store"})'
                             /\ primaryPacked[key] = WordAt(l)
    BY <1>4, <1>5, <1>6 DEF WordsLeast
  <2> QED
    BY <1>2, <1>7, <2>1, <2>2 DEF WordsLeast
<1>9. ChoicesMarked'
  <2>1. ASSUME NEW key \in Keys, NEW k \in Kidxs
        PROVE  k \in kmask'[key] <=> \E l \in Sent : /\ KeyAt(l) = key /\ KidxAt(l) = k
                                                     /\ InPass1(l, {"store"})'
    <3>1. k \in kmask'[key] <=> k \in kmask[key] \/ (key = key0 /\ k = k0)
      BY <1>2 DEF DInv, BuilderTypeOK
    <3>2. k \in kmask[key] <=> \E l \in Sent : /\ KeyAt(l) = key /\ KidxAt(l) = k
                                               /\ InPass1(l, {"store"})
      BY <1>6 DEF ChoicesMarked
    <3> QED
      BY <1>1, <1>3, <1>4, <1>5, <3>1, <3>2
  <2> QED
    BY <1>7, <2>1 DEF ChoicesMarked
<1>10. RowsStored'
  <2>1. \A l \in Sent : InPass1(l, {})' => kidxToLoff[<<KeyAt(l), KidxAt(l)>>] = l
    BY <1>4, <1>5, <1>6 DEF RowsStored
  <2> QED
    BY <1>2, <1>7, <2>1 DEF RowsStored
<1>11. TablesTypeOK'
  BY <1>2 DEF TablesTypeOK
<1> QED
  BY <1>8, <1>9, <1>10, <1>11 DEF Tables

LEMMA StoreTables ==
    ASSUME DInv, TablesTypeOK, RowsApart, Tables, NEW c \in CTAs, StoreRow(c)
    PROVE  TablesTypeOK' /\ Tables'
<1>1. PICK r, key0, k0 : r = loff[c] /\ key0 = KeyAt(r) /\ k0 = KidxAt(r)
  OBVIOUS
<1>2. /\ stage = "pass1" /\ stage' = "pass1" /\ step[c] = "store" /\ NextRow(c)
      /\ kidxToLoff' = [kidxToLoff EXCEPT ![<<key0, k0>>] = r]
      /\ UNCHANGED <<srcInfo, primaryPacked, kmask, dupLoffs>>
  BY <1>1 DEF StoreRow, In, Key, KeyAt, KidxAt, dupPlan
<1>3. r \in Sent
  BY <1>1, InRow DEF StoreRow, In, Sent, DInv, BuilderTypeOK
<1>4. /\ \A l \in Sent : l \in Rows /\ l \in Nat /\ KeyAt(l) \in Keys /\ KidxAt(l) \in Kidxs
      /\ \A l \in Sent : KeyAt(l) = key0 /\ KidxAt(l) = k0 => l = r
  BY <1>1, <1>3, SentFacts DEF DInv
<1>5. \A l \in Rows : /\ InPass1(l, {"mark", "store"})' <=> InPass1(l, {"mark", "store"})
                      /\ InPass1(l, {"store"})' <=> InPass1(l, {"store"})
                      /\ InPass1(l, {})' <=> l = r \/ InPass1(l, {})
  BY <1>1, <1>2, Pass1Moves
<1>6. WordsLeast /\ ChoicesMarked /\ RowsStored
  BY <1>2 DEF Tables
<1>7. /\ Sent' = Sent
      /\ \A l \in Sent : KeyAt(l)' = KeyAt(l) /\ KidxAt(l)' = KidxAt(l) /\ WordAt(l)' = WordAt(l)
  BY <1>2 DEF Sent, KeyAt, KidxAt, WordAt
<1>8. WordsLeast'
  <2>1. \A l \in Sent : InPass1(l, {"mark", "store"})' => primaryPacked[KeyAt(l)] <= WordAt(l)
    BY <1>4, <1>5, <1>6 DEF WordsLeast
  <2>2. \A key \in Keys :
          \/ primaryPacked[key] = Int32Max
          \/ \E l \in Sent : /\ KeyAt(l) = key /\ InPass1(l, {"mark", "store"})'
                             /\ primaryPacked[key] = WordAt(l)
    BY <1>4, <1>5, <1>6 DEF WordsLeast
  <2> QED
    BY <1>2, <1>7, <2>1, <2>2 DEF WordsLeast
<1>9. ChoicesMarked'
  <2>1. \A key \in Keys, k \in Kidxs :
          k \in kmask[key] <=> \E l \in Sent : /\ KeyAt(l) = key /\ KidxAt(l) = k
                                               /\ InPass1(l, {"store"})'
    BY <1>4, <1>5, <1>6 DEF ChoicesMarked
  <2> QED
    BY <1>2, <1>7, <2>1 DEF ChoicesMarked
<1>10. RowsStored'
  <2>1. ASSUME NEW l \in Sent, InPass1(l, {})' PROVE kidxToLoff'[<<KeyAt(l), KidxAt(l)>>] = l
    <3>1. <<KeyAt(l), KidxAt(l)>> \in Keys \X Kidxs
      BY <1>4
    <3>2. CASE l = r
      BY <1>1, <1>2, <3>1, <3>2 DEF TablesTypeOK
    <3>3. CASE l # r
      <4>1. <<KeyAt(l), KidxAt(l)>> # <<key0, k0>>
        BY <1>4, <3>3
      <4>2. kidxToLoff[<<KeyAt(l), KidxAt(l)>>] = l
        BY <1>4, <1>5, <1>6, <2>1, <3>3 DEF RowsStored
      <4> QED
        BY <1>2, <3>1, <4>1, <4>2 DEF TablesTypeOK
    <3> QED
      BY <3>2, <3>3
  <2> QED
    BY <1>7, <2>1 DEF RowsStored
<1>11. TablesTypeOK'
  BY <1>2, <1>3, <1>4 DEF TablesTypeOK
<1> QED
  BY <1>8, <1>9, <1>10, <1>11 DEF Tables
-----------------------------------------------------------------------------
(* Pass 2 reads tables that nothing changes.                                 *)

\* What the tables say of a token, once pass 1 has ended.
LEMMA Static ==
    ASSUME DInv, TablesTypeOK, Tables, stage \in {"pass2", "built"}, NEW l \in Sent
    PROVE  /\ PrimaryAt(l) \in Sent /\ KeyAt(PrimaryAt(l)) = KeyAt(l)
           /\ KidxAt(PrimaryAt(l)) = PackedChoice(primaryPacked[KeyAt(l)])
           /\ WordAt(PrimaryAt(l)) <= WordAt(l)
           /\ \A k \in Kidxs : k \in kmask[KeyAt(l)] <=> \E m \in Sent : KeyAt(m) = KeyAt(l) /\ KidxAt(m) = k
           /\ kidxToLoff[<<KeyAt(l), KidxAt(l)>>] = l
<1>1. PICK key : key = KeyAt(l)
  OBVIOUS
<1>2. \A m, S : InPass1(m, S)
  BY DEF InPass1
<1>3. WordsLeast /\ ChoicesMarked /\ RowsStored
  BY DEF Tables
<1>4. \A m \in Sent : /\ KeyAt(m) \in Keys /\ KidxAt(m) \in Kidxs /\ WordAt(m) \in Nat /\ WordAt(m) < Int32Max
                      /\ PackedRow(WordAt(m)) = m /\ PackedChoice(WordAt(m)) = KidxAt(m)
  BY SentFacts DEF DInv
<1>5. key \in Keys /\ primaryPacked[key] <= WordAt(l)
  BY <1>1, <1>2, <1>3, <1>4 DEF WordsLeast
<1>6. primaryPacked[key] # Int32Max
  <2>1. primaryPacked[key] \in Nat /\ WordAt(l) \in Nat /\ WordAt(l) < Int32Max
    BY <1>4, <1>5 DEF TablesTypeOK
  <2> QED
    BY <1>5, <2>1
<1>7. PICK p \in Sent : KeyAt(p) = key /\ primaryPacked[key] = WordAt(p)
  BY <1>3, <1>5, <1>6 DEF WordsLeast
<1>8. PrimaryAt(l) = p /\ PackedChoice(primaryPacked[key]) = KidxAt(p)
  BY <1>1, <1>4, <1>7 DEF PrimaryAt
<1>9. \A k \in Kidxs : k \in kmask[key] <=> \E m \in Sent : KeyAt(m) = key /\ KidxAt(m) = k
  BY <1>2, <1>3, <1>5 DEF ChoicesMarked
<1>10. kidxToLoff[<<KeyAt(l), KidxAt(l)>>] = l
  BY <1>2, <1>3 DEF RowsStored
<1> QED
  BY <1>1, <1>5, <1>7, <1>8, <1>9, <1>10

\* The duplicates of a token and how many they are.
LEMMA Duplicated ==
    ASSUME DInv, TablesTypeOK, Tables, stage \in {"pass2", "built"}, NEW l \in Sent
    PROVE  /\ DupsAt(l) \subseteq Kidxs /\ IsFiniteSet(DupsAt(l)) /\ DupsAt(l) \subseteq Nat
           /\ Cardinality(DupsAt(l)) \in Nat
           /\ Cardinality(DupsAt(l)) = Cardinality(kmask[KeyAt(l)]) - 1
           /\ DupsAt(l) # {} <=> Cardinality(kmask[KeyAt(l)]) - 1 > 0
           /\ KidxAt(PrimaryAt(l)) \notin DupsAt(l)
           /\ \A m \in Sent : KeyAt(m) = KeyAt(l) => /\ DupsAt(m) = DupsAt(l)
                                                     /\ PrimaryAt(m) = PrimaryAt(l)
                                                     /\ m # PrimaryAt(l) => KidxAt(m) \in DupsAt(l)
           /\ \A k \in DupsAt(l) : /\ kidxToLoff[<<KeyAt(l), k>>] \in Sent
                                   /\ KeyAt(kidxToLoff[<<KeyAt(l), k>>]) = KeyAt(l)
                                   /\ KidxAt(kidxToLoff[<<KeyAt(l), k>>]) = k
<1>1. PICK p, M, D : p = PrimaryAt(l) /\ M = kmask[KeyAt(l)] /\ D = DupsAt(l)
  OBVIOUS
<1>2. p \in Sent /\ KeyAt(p) = KeyAt(l) /\ KidxAt(p) = PackedChoice(primaryPacked[KeyAt(l)])
  BY <1>1, Static
<1>3. \A m \in Sent : KeyAt(m) \in Keys /\ KidxAt(m) \in Kidxs
  BY SentFacts DEF DInv
<1>4. M \subseteq Kidxs
  BY <1>1, <1>3 DEF DInv, BuilderTypeOK
<1>5. \A k \in Kidxs : k \in M <=> \E m \in Sent : KeyAt(m) = KeyAt(l) /\ KidxAt(m) = k
  BY <1>1, Static
<1>6. D = M \ {KidxAt(p)} /\ KidxAt(p) \in M
  BY <1>1, <1>2, <1>3, <1>5 DEF DupsAt
<1>7. IsFiniteSet(M) /\ Kidxs \subseteq Nat
  <2>1. 0 \in Int /\ TopK - 1 \in Int
    BY TokensAssumption
  <2>2. IsFiniteSet(Kidxs)
    BY <2>1, FS_Interval DEF Kidxs
  <2>3. IsFiniteSet(M)
    BY <1>4, <2>2, FS_Subset
  <2> QED
    BY <2>1, <2>3 DEF Kidxs
<1>8. IsFiniteSet(D) /\ Cardinality(D) = Cardinality(M) - 1 /\ Cardinality(D) \in Nat
  BY <1>6, <1>7, FS_RemoveElement, FS_CardinalityType
<1>9. D # {} <=> Cardinality(D) > 0
  BY <1>8, FS_EmptySet
<1>10. ASSUME NEW m \in Sent, KeyAt(m) = KeyAt(l)
       PROVE  DupsAt(m) = D /\ PrimaryAt(m) = p /\ (m # p => KidxAt(m) \in D)
  <2>1. DupsAt(m) = D /\ PrimaryAt(m) = p
    BY <1>1, <1>10 DEF DupsAt, PrimaryAt
  <2>2. KidxAt(m) \in M
    BY <1>3, <1>5, <1>10
  <2>3. m # p => KidxAt(m) # KidxAt(p)
    BY <1>2, <1>10, SentFacts DEF DInv
  <2> QED
    BY <1>6, <2>1, <2>2, <2>3
<1>11. ASSUME NEW k \in D
       PROVE  /\ kidxToLoff[<<KeyAt(l), k>>] \in Sent
              /\ KeyAt(kidxToLoff[<<KeyAt(l), k>>]) = KeyAt(l)
              /\ KidxAt(kidxToLoff[<<KeyAt(l), k>>]) = k
  <2>1. PICK m \in Sent : KeyAt(m) = KeyAt(l) /\ KidxAt(m) = k
    BY <1>4, <1>5, <1>6
  <2>2. kidxToLoff[<<KeyAt(m), KidxAt(m)>>] = m
    BY Static
  <2> QED
    BY <2>1, <2>2
<1> QED
  BY <1>1, <1>4, <1>6, <1>7, <1>8, <1>9, <1>10, <1>11

Frozen == UNCHANGED <<srcInfo, primaryPacked, kmask, kidxToLoff>>
LEMMA FrozenFacts ==
    ASSUME Frozen
    PROVE  /\ Sent' = Sent
           /\ \A l : /\ KeyAt(l)' = KeyAt(l) /\ KidxAt(l)' = KidxAt(l)
                     /\ DupsAt(l)' = DupsAt(l) /\ PrimaryAt(l)' = PrimaryAt(l)
                     /\ Leads(l)' <=> Leads(l)
BY DEF Frozen, Sent, KeyAt, KidxAt, DupsAt, PrimaryAt, Leads

\* A duplicate has a row that leads its group.
LEMMA DuplicateLed ==
    ASSUME DInv, TablesTypeOK, Tables, stage \in {"pass2", "built"}, NEW m \in Sent,
           DupsAt(m) # {}
    PROVE  Leads(PrimaryAt(m)) /\ PrimaryAt(m) \in Rows /\ DupsAt(PrimaryAt(m)) = DupsAt(m)
<1>1. PICK p : p = PrimaryAt(m)
  OBVIOUS
<1>2. p \in Sent /\ KeyAt(p) = KeyAt(m)
  BY <1>1, Static
<1>3. PrimaryAt(p) = p /\ DupsAt(p) = DupsAt(m)
  BY <1>1, <1>2, Duplicated
<1> QED
  BY <1>1, <1>2, <1>3 DEF Leads, Sent

\* Nothing is built where no row has been treated and no group taken.
Quiet ==
    /\ \A l \in Rows : /\ ~InPass2(l, {"places", "record", "fill"})
                       /\ ~InPass2(l, {"record", "fill"}) /\ ~InPass2(l, {"fill"})
    /\ \A c \in CTAs : stage = "pass2" => step[c] = "row"
    /\ \A g \in Rows : ~Recorded(g)
    /\ dupCounts.groups = 0 /\ dupCounts.loffs = 0

LEMMA QuietPlan == Quiet => Plan
<1> SUFFICES ASSUME Quiet PROVE Plan
  OBVIOUS
<1>1. Taken
  <2>1. Leading = {} /\ Served = {}
    BY DEF Quiet, Leading, Served
  <2> QED
    BY <2>1, FS_EmptySet DEF Quiet, Taken
<1>2. \A c \in CTAs : ~InGroup(c) /\ ~Unrecorded(c) /\ ~(stage = "pass2" /\ step[c] \in {"record", "fill"})
  BY DEF Quiet, InGroup, Unrecorded
<1>3. GroupsApart
  BY <1>2 DEF Quiet, GroupsApart
<1>4. GroupsAll
  BY DEF Quiet, GroupsAll
<1>5. InOrder
  BY <1>2 DEF Quiet, InOrder
<1> QED
  BY <1>1, <1>3, <1>4, <1>5 DEF Plan

LEMMA QuietPlanNext == ASSUME Quiet' PROVE Plan'
BY QuietPlan, PTL

\* The rows that lead are treated as far as before.
SameLeads ==
    \A l \in Rows : Leads(l) =>
        /\ InPass2(l, {"places", "record", "fill"})' <=> InPass2(l, {"places", "record", "fill"})
        /\ InPass2(l, {"record", "fill"})' <=> InPass2(l, {"record", "fill"})
        /\ InPass2(l, {"fill"})' <=> InPass2(l, {"fill"})

LEMMA ServedKept ==
    ASSUME DInv, TablesTypeOK, Tables, stage \in {"pass2", "built"}, Frozen,
           \A l \in Rows : Leads(l) => (InPass2(l, {"record", "fill"})' <=> InPass2(l, {"record", "fill"}))
    PROVE  Served' = Served
<1>1. ASSUME NEW m \in Sent, KidxAt(m) \in DupsAt(m)
      PROVE  (\E l \in Rows : l = PrimaryAt(m) /\ InPass2(l, {"record", "fill"})')
                 <=> (\E l \in Rows : l = PrimaryAt(m) /\ InPass2(l, {"record", "fill"}))
  <2>1. PICK p : p = PrimaryAt(m) /\ Leads(p) /\ p \in Rows
    BY <1>1, DuplicateLed
  <2> QED
    BY <2>1
<1>2. ASSUME NEW m PROVE m \in Served' <=> m \in Served
  <2>1. Sent' = Sent /\ KidxAt(m)' = KidxAt(m) /\ DupsAt(m)' = DupsAt(m) /\ PrimaryAt(m)' = PrimaryAt(m)
    BY FrozenFacts
  <2>2. m \in Served' <=>
            /\ m \in Sent' /\ KidxAt(m)' \in DupsAt(m)'
            /\ \E l \in Rows : l = PrimaryAt(m)' /\ InPass2(l, {"record", "fill"})'
    BY DEF Served
  <2>3. m \in Served <=>
            /\ m \in Sent /\ KidxAt(m) \in DupsAt(m)
            /\ \E l \in Rows : l = PrimaryAt(m) /\ InPass2(l, {"record", "fill"})
    BY DEF Served
  <2> QED
    BY <1>1, <2>1, <2>2, <2>3
<1> QED
  BY <1>2

LEMMA LeadingKept ==
    ASSUME Frozen,
           \A l \in Rows : Leads(l) => (InPass2(l, {"places", "record", "fill"})'
                                            <=> InPass2(l, {"places", "record", "fill"}))
    PROVE  Leading' = Leading
<1>1. ASSUME NEW l PROVE l \in Leading' <=> l \in Leading
  <2>1. Leads(l)' <=> Leads(l)
    BY FrozenFacts
  <2>2. l \in Leading' <=> l \in Rows /\ Leads(l)' /\ InPass2(l, {"places", "record", "fill"})'
    BY DEF Leading
  <2>3. l \in Leading <=> l \in Rows /\ Leads(l) /\ InPass2(l, {"places", "record", "fill"})
    BY DEF Leading
  <2> QED
    BY <2>1, <2>2, <2>3
<1> QED
  BY <1>1

\* Where the groups that are taken or recorded, and their rows, stay the same.
LEMMA GroupsKept ==
    ASSUME GroupsApart, GroupsAll, Frozen, UNCHANGED dupGroups, dupCounts'.groups = dupCounts.groups,
           \A l \in Rows : Leads(l) => (InPass2(l, {"fill"})' <=> InPass2(l, {"fill"})),
           \A c \in CTAs : InGroup(c)' => InGroup(c) /\ loff'[c] = loff[c],
           \A c \in CTAs : Unrecorded(c)' <=> Unrecorded(c),
           \A c \in CTAs : Unrecorded(c) => mine'[c].grp = mine[c].grp
    PROVE  GroupsApart' /\ GroupsAll'
<1>1. \A l \in Rows : (Leads(l)' <=> Leads(l)) /\ DupsAt(l)' = DupsAt(l)
  BY FrozenFacts
<1>2. \A g : Recorded(g)' <=> Recorded(g)
  BY DEF Recorded
<1>3. GroupsApart'
  <2>1. \A c \in CTAs, l \in Rows : InGroup(c)' /\ loff'[c] = l => Leads(l)'
    BY <1>1 DEF GroupsApart
  <2>2. \A c \in CTAs : Unrecorded(c)' =>
            /\ mine'[c].grp \in 0 .. (dupCounts'.groups - 1)
            /\ \A g \in Rows : Recorded(g)' => g # mine'[c].grp
    BY <1>2 DEF GroupsApart
  <2>3. \A c, d \in CTAs : Unrecorded(c)' /\ Unrecorded(d)' /\ c # d => mine'[c].grp # mine'[d].grp
    BY DEF GroupsApart
  <2>4. \A g \in Rows : Recorded(g)' => g < dupCounts'.groups /\ dupGroups'[g][1] \in Rows
    BY <1>2 DEF GroupsApart
  <2>5. \A g, l \in Rows : Recorded(g)' /\ dupGroups'[g][1] = l =>
            Leads(l)' /\ InPass2(l, {"fill"})' /\ dupGroups'[g][3] = Cardinality(DupsAt(l)')
    BY <1>1, <1>2 DEF GroupsApart
  <2>6. \A g, h \in Rows : Recorded(g)' /\ Recorded(h)' /\ dupGroups'[g][1] = dupGroups'[h][1] => g = h
    BY <1>2 DEF GroupsApart
  <2> QED
    BY <2>1, <2>2, <2>3, <2>4, <2>5, <2>6 DEF GroupsApart
<1>4. GroupsAll'
  <2>1. \A g \in 0 .. (dupCounts'.groups - 1) :
            Recorded(g)' \/ \E c \in CTAs : Unrecorded(c)' /\ mine'[c].grp = g
    BY <1>2 DEF GroupsAll
  <2>2. \A l \in Rows : Leads(l)' /\ InPass2(l, {"fill"})' =>
            \E g \in Rows : Recorded(g)' /\ dupGroups'[g][1] = l
    BY <1>1, <1>2 DEF GroupsAll
  <2> QED
    BY <2>1, <2>2 DEF GroupsAll
<1> QED
  BY <1>3, <1>4

\* What a CTA still has to place, by what it is at.
LEMMA LeftNext ==
    ASSUME NEW l \in Rows
    PROVE  \E h \in CTAs :
               /\ h = Hand(l)
               /\ LeftOf(l) = IF stage = "pass2" /\ loff[h] = l /\ step[h] = "fill"
                              THEN mine[h].left ELSE {}
               /\ LeftOf(l)' = IF stage' = "pass2" /\ loff'[h] = l /\ step'[h] = "fill"
                               THEN mine'[h].left ELSE {}
<1>1. PICK h \in CTAs : h = Hand(l)
  BY HandFacts, NvSNat DEF Rows
<1>2. LeftOf(l) = IF stage = "pass2" /\ loff[h] = l /\ step[h] = "fill" THEN mine[h].left ELSE {}
  BY <1>1 DEF LeftOf
<1>3. LeftOf(l)' = IF stage' = "pass2" /\ loff'[h] = l /\ step'[h] = "fill" THEN mine'[h].left ELSE {}
  BY <1>1 DEF LeftOf, Hand
<1> QED
  BY <1>1, <1>2, <1>3

\* Where the CTAs that fill places stay as they are, and one that gets to record a
\* group has all its duplicates to place.
LEMMA InOrderKept ==
    ASSUME InOrder, Frozen, UNCHANGED <<dupGroups, dupLoffs>>,
           \A c \in CTAs : stage' = "pass2" /\ step'[c] = "fill" <=> stage = "pass2" /\ step[c] = "fill",
           \A c \in CTAs : stage = "pass2" /\ step[c] = "fill" => loff'[c] = loff[c] /\ mine'[c] = mine[c],
           \A c \in CTAs, l \in Rows : stage' = "pass2" /\ step'[c] = "record" /\ loff'[c] = l =>
               \/ stage = "pass2" /\ step[c] = "record" /\ loff[c] = l /\ mine'[c] = mine[c]
               \/ mine'[c].left = DupsAt(l)
    PROVE  InOrder'
<1>1. \A l \in Rows : DupsAt(l)' = DupsAt(l) /\ KeyAt(l)' = KeyAt(l)
  BY FrozenFacts
<1>2. \A g : Recorded(g)' <=> Recorded(g)
  BY DEF Recorded
<1>3. ASSUME NEW l \in Rows PROVE LeftOf(l)' = LeftOf(l)
  BY LeftNext
<1>4. \A c \in CTAs, l \in Rows : stage' = "pass2" /\ step'[c] = "record" /\ loff'[c] = l =>
          mine'[c].left = DupsAt(l)'
  BY <1>1 DEF InOrder
<1>5. \A c \in CTAs, l \in Rows : stage' = "pass2" /\ step'[c] = "fill" /\ loff'[c] = l =>
          /\ mine'[c].left # {} /\ mine'[c].left \subseteq DupsAt(l)'
          /\ \A j \in DupsAt(l)' \ mine'[c].left, k \in mine'[c].left : j < k
          /\ \A g \in Rows : Recorded(g)' /\ dupGroups'[g][1] = l => dupGroups'[g][2] = mine'[c].start
  BY <1>1, <1>2 DEF InOrder
<1>6. \A g, l \in Rows : Recorded(g)' /\ dupGroups'[g][1] = l =>
          \A k \in DupsAt(l)' \ LeftOf(l)' :
              dupLoffs'[dupGroups'[g][2] + Rank(DupsAt(l)', k)] = kidxToLoff'[<<KeyAt(l)', k>>]
  BY <1>1, <1>2, <1>3 DEF InOrder, Frozen
<1> QED
  BY <1>4, <1>5, <1>6 DEF InOrder, Rank

\* The plan stays good where no row that leads gets on, whatever the other rows do.
LEMMA PlanKept ==
    ASSUME DInv, TablesTypeOK, Tables, Plan, stage \in {"pass2", "built"},
           Frozen, UNCHANGED dupPlan, SameLeads,
           \A c \in CTAs : /\ step'[c] = step[c]
                           /\ step[c] # "row" => loff'[c] = loff[c] /\ mine'[c] = mine[c],
           stage' = stage \/ (stage' # "pass2" /\ \A c \in CTAs : step[c] = "row")
    PROVE  Plan'
<1>1. UNCHANGED <<dupGroups, dupLoffs, dupCounts>>
  BY DEF dupPlan
<1>2. Taken /\ GroupsApart /\ GroupsAll /\ InOrder
  BY DEF Plan
<1>3. \A c \in CTAs : /\ InGroup(c)' => InGroup(c) /\ loff'[c] = loff[c]
                      /\ Unrecorded(c)' <=> Unrecorded(c)
                      /\ Unrecorded(c) => mine'[c] = mine[c]
  BY DEF InGroup, Unrecorded
<1>4. Taken'
  <2>1. Leading' = Leading /\ Served' = Served
    BY LeadingKept, ServedKept DEF SameLeads
  <2> QED
    BY <1>1, <1>2, <2>1 DEF Taken
<1>5. GroupsApart' /\ GroupsAll'
  BY <1>1, <1>2, <1>3, GroupsKept DEF SameLeads
<1>6. InOrder'
  BY <1>1, <1>2, InOrderKept
<1> QED
  BY <1>4, <1>5, <1>6 DEF Plan
-----------------------------------------------------------------------------
(* The steps of pass 2.                                                      *)
LEMMA Pass2Moves ==
    ASSUME DInv, RowsApart, NEW c \in CTAs, stage = "pass2", stage' = "pass2", NEW l \in Rows,
           NEW S, "row" \notin S
    PROVE  /\ InPass2(loff[c], S) <=> step[c] \in S
           /\ \A s : Goto(c, s) =>
                  (InPass2(l, S)' <=> IF l = loff[c] THEN s \in S ELSE InPass2(l, S))
           /\ NextRow(c) => (InPass2(l, S)' <=> l = loff[c] \/ InPass2(l, S))
<1>1. BuilderTypeOK
  BY DEF DInv
<1>2. /\ Beyond(loff[c], S) <=> step[c] \in S
      /\ \A s : Goto(c, s) => (Beyond(l, S)' <=> IF l = loff[c] THEN s \in S ELSE Beyond(l, S))
      /\ NextRow(c) => (Beyond(l, S)' <=> l = loff[c] \/ Beyond(l, S))
  BY <1>1, Progress
<1>3. InPass2(l, S)' <=> Beyond(l, S)'
  BY DEF InPass2
<1> QED
  BY <1>2, <1>3 DEF InPass2

\* What a CTA reads of its row.
LEMMA AtRow ==
    ASSUME DInv, TablesTypeOK, Tables, NEW c \in CTAs, NEW s, In(c, "pass2", s)
    PROVE  /\ stage = "pass2" /\ step[c] = s /\ loff[c] \in Sent /\ loff[c] \in Rows
           /\ Key(c) = KeyAt(loff[c]) /\ Duplicates(c) = DupsAt(loff[c])
           /\ DupCount(c) = Cardinality(DupsAt(loff[c])) /\ DupCount(c) \in Nat
           /\ LeadsGroup(c) <=> Leads(loff[c])
<1>1. PICK r : r = loff[c]
  OBVIOUS
<1>2. stage = "pass2" /\ step[c] = s /\ r \in Sent /\ r \in Rows
  BY <1>1, InRow DEF In, Sent, DInv, BuilderTypeOK
<1>3. Key(c) = KeyAt(r) /\ Duplicates(c) = DupsAt(r)
  BY <1>1 DEF Key, KeyAt, Duplicates, DupsAt
<1>4. /\ Cardinality(DupsAt(r)) \in Nat
      /\ Cardinality(DupsAt(r)) = Cardinality(kmask[KeyAt(r)]) - 1
      /\ DupsAt(r) # {} <=> Cardinality(kmask[KeyAt(r)]) - 1 > 0
  BY <1>2, Duplicated
<1>5. DupCount(c) = Cardinality(DupsAt(r)) /\ (DupsAt(r) # {} <=> DupCount(c) > 0)
  BY <1>3, <1>4 DEF DupCount
<1>6. LeadsGroup(c) <=> r = PrimaryAt(r) /\ DupCount(c) > 0
  BY <1>1, <1>3 DEF LeadsGroup, PrimaryAt
<1> QED
  BY <1>1, <1>2, <1>3, <1>4, <1>5, <1>6 DEF Leads

LEMMA RowsBound ==
    ASSUME NEW A, A \subseteq Rows
    PROVE  IsFiniteSet(A) /\ Cardinality(A) \in Nat /\ Cardinality(A) <= NvS
<1>1. IsFiniteSet(Rows) /\ Cardinality(Rows) = NvS
  <2>1. 0 \in Int /\ NvS - 1 \in Int /\ ~(0 > NvS - 1) /\ (NvS - 1) - 0 + 1 = NvS
    BY NvSNat
  <2> QED
    BY <2>1, FS_Interval DEF Rows
<1>2. IsFiniteSet(A) /\ Cardinality(A) <= Cardinality(Rows)
  BY <1>1, FS_Subset
<1> QED
  BY <1>1, <1>2, FS_CardinalityType

LEMMA PassedBy ==
    ASSUME DInv, TablesTypeOK, RowsApart, Tables, Plan, stage = "pass2",
           NEW c \in CTAs, loff[c] \in Rows, step[c] = "row", ~Leads(loff[c]),
           NextRow(c), UNCHANGED <<stage, srcInfo, scratch, dupPlan, mine>>
    PROVE  Plan'
<1>1. \A l \in Rows : Leads(l) => l # loff[c]
  OBVIOUS
<1>2. SameLeads
  <2>1. stage' = "pass2"
    OBVIOUS
  <2> QED
    BY <1>1, <2>1, Pass2Moves DEF SameLeads
<1>3. \A d \in CTAs : /\ step'[d] = step[d]
                      /\ step[d] # "row" => loff'[d] = loff[d] /\ mine'[d] = mine[d]
  BY DEF NextRow, DInv, BuilderTypeOK
<1>4. Frozen
  BY DEF Frozen, scratch
<1> QED
  BY <1>2, <1>3, <1>4, PlanKept

LEMMA GroupTaken ==
    ASSUME DInv, TablesTypeOK, RowsApart, Tables, Plan, NEW c \in CTAs, TakeGroup(c)
    PROVE  Plan'
<1>1. PICK r, n : r = loff[c] /\ n = dupCounts.groups
  OBVIOUS
<1>2. /\ stage = "pass2" /\ stage' = "pass2" /\ step[c] = "row" /\ r \in Rows /\ Leads(r) /\ n \in Nat
      /\ Frozen /\ UNCHANGED <<dupGroups, dupLoffs>> /\ Goto(c, "places")
  BY <1>1, AtRow DEF TakeGroup, scratch, Frozen, DInv, BuilderTypeOK
<1>3. dupCounts'.groups = n + 1 /\ dupCounts'.loffs = dupCounts.loffs
  BY <1>1 DEF TakeGroup, DInv, BuilderTypeOK
<1>4. /\ mine'[c].grp = n /\ \A d \in CTAs \ {c} : mine'[d] = mine[d]
      /\ loff' = loff /\ step'[c] = "places" /\ \A d \in CTAs \ {c} : step'[d] = step[d]
  <2>1. [Nothing EXCEPT !.grp = n].grp = n
    BY DEF Nothing
  <2>2. mine' = [mine EXCEPT ![c] = [Nothing EXCEPT !.grp = n]] /\ Goto(c, "places")
    BY <1>1 DEF TakeGroup
  <2> QED
    BY <2>1, <2>2 DEF Goto, DInv, BuilderTypeOK
<1>5. \A l \in Rows :
          /\ InPass2(l, {"places", "record", "fill"})' <=>
                 l = r \/ InPass2(l, {"places", "record", "fill"})
          /\ InPass2(l, {"record", "fill"})' <=> InPass2(l, {"record", "fill"})
          /\ InPass2(l, {"fill"})' <=> InPass2(l, {"fill"})
          /\ ~InPass2(r, {"places", "record", "fill"})
  BY <1>1, <1>2, Pass2Moves
<1>6. Taken /\ GroupsApart /\ GroupsAll /\ InOrder
  BY DEF Plan
<1>7. Taken'
  <2>1. Leading' = Leading \cup {r}
    <3>1. ASSUME NEW l PROVE l \in Leading' <=> l \in Leading \/ l = r
      <4>1. Leads(l)' <=> Leads(l)
        BY <1>2, FrozenFacts
      <4>2. l \in Leading' <=> l \in Rows /\ Leads(l)' /\ InPass2(l, {"places", "record", "fill"})'
        BY DEF Leading
      <4>3. l \in Leading <=> l \in Rows /\ Leads(l) /\ InPass2(l, {"places", "record", "fill"})
        BY DEF Leading
      <4> QED
        BY <1>2, <1>5, <4>1, <4>2, <4>3
    <3> QED
      BY <3>1
  <2>2. r \notin Leading
    BY <1>5, <1>2 DEF Leading
  <2>3. IsFiniteSet(Leading) /\ Cardinality(Leading) = n
    BY <1>1, <1>6, RowsBound DEF Leading, Taken
  <2>4. Cardinality(Leading') = n + 1
    BY <2>1, <2>2, <2>3, FS_AddElement
  <2>5. Served' = Served
    BY <1>2, <1>5, ServedKept
  <2> QED
    BY <1>3, <1>6, <2>4, <2>5 DEF Taken
<1>8. \A l \in Rows : (Leads(l)' <=> Leads(l)) /\ DupsAt(l)' = DupsAt(l)
  BY <1>2, FrozenFacts
<1>9. \A g : Recorded(g)' <=> Recorded(g)
  BY <1>2 DEF Recorded
<1>10. /\ Unrecorded(c)' /\ ~Unrecorded(c)
       /\ \A d \in CTAs \ {c} : /\ Unrecorded(d)' <=> Unrecorded(d)
                                /\ InGroup(d)' <=> InGroup(d)
  BY <1>2, <1>4 DEF Unrecorded, InGroup
<1>11. \A d \in CTAs \ {c} : Unrecorded(d) => mine[d].grp \in Nat /\ mine[d].grp < n
  <2> SUFFICES ASSUME NEW d \in CTAs \ {c}, Unrecorded(d) PROVE mine[d].grp \in Nat /\ mine[d].grp < n
    OBVIOUS
  <2>1. mine[d].grp \in 0 .. (n - 1)
    BY <1>1, <1>6 DEF GroupsApart
  <2> QED
    BY <1>2, <2>1
<1>12. GroupsApart'
  <2>1. \A d \in CTAs, l \in Rows : InGroup(d)' /\ loff'[d] = l => Leads(l)'
    BY <1>1, <1>2, <1>4, <1>6, <1>8, <1>10 DEF GroupsApart
  <2>2. ASSUME NEW d \in CTAs, Unrecorded(d)'
        PROVE  /\ mine'[d].grp \in 0 .. (dupCounts'.groups - 1)
               /\ \A g \in Rows : Recorded(g)' => g # mine'[d].grp
    <3>1. CASE d = c
      <4>1. mine'[d].grp = n
        BY <1>4, <3>1
      <4>2. \A g \in Rows : Recorded(g)' => g < n
        BY <1>1, <1>6, <1>9 DEF GroupsApart
      <4>3. n \in 0 .. (dupCounts'.groups - 1) /\ ~(n < n)
        BY <1>2, <1>3
      <4> QED
        BY <4>1, <4>2, <4>3
    <3>2. CASE d # c
      <4>1. Unrecorded(d) /\ mine'[d] = mine[d]
        BY <1>4, <1>10, <2>2, <3>2
      <4>2. mine'[d].grp \in 0 .. (dupCounts'.groups - 1)
        BY <1>2, <1>3, <1>11, <3>2, <4>1
      <4> QED
        BY <1>6, <1>9, <4>1, <4>2 DEF GroupsApart
    <3> QED
      BY <3>1, <3>2
  <2>3. ASSUME NEW d \in CTAs, NEW e \in CTAs, Unrecorded(d)', Unrecorded(e)', d # e
        PROVE  mine'[d].grp # mine'[e].grp
    <3>1. CASE d # c /\ e # c
      BY <1>4, <1>6, <1>10, <2>3, <3>1 DEF GroupsApart
    <3>2. CASE d = c
      BY <1>2, <1>4, <1>10, <1>11, <2>3, <3>2
    <3>3. CASE e = c
      BY <1>2, <1>4, <1>10, <1>11, <2>3, <3>3
    <3> QED
      BY <3>1, <3>2, <3>3
  <2>4. \A g \in Rows : Recorded(g)' => g < dupCounts'.groups /\ dupGroups'[g][1] \in Rows
    <3>1. \A g \in Rows : Recorded(g)' => g < n /\ dupGroups'[g][1] \in Rows
      BY <1>1, <1>2, <1>6, <1>9 DEF GroupsApart
    <3>2. \A g \in Rows : g < n => g < n + 1
      BY <1>2, NvSNat DEF Rows
    <3> QED
      BY <1>3, <3>1, <3>2
  <2>5. \A g, l \in Rows : Recorded(g)' /\ dupGroups'[g][1] = l =>
            Leads(l)' /\ InPass2(l, {"fill"})' /\ dupGroups'[g][3] = Cardinality(DupsAt(l)')
    BY <1>2, <1>5, <1>6, <1>8, <1>9 DEF GroupsApart
  <2>6. \A g, h \in Rows : Recorded(g)' /\ Recorded(h)' /\ dupGroups'[g][1] = dupGroups'[h][1] => g = h
    BY <1>2, <1>6, <1>9 DEF GroupsApart
  <2> QED
    BY <2>1, <2>2, <2>3, <2>4, <2>5, <2>6 DEF GroupsApart
<1>13. GroupsAll'
  <2>1. ASSUME NEW g \in 0 .. (dupCounts'.groups - 1)
        PROVE  Recorded(g)' \/ \E d \in CTAs : Unrecorded(d)' /\ mine'[d].grp = g
    <3>1. CASE g = n
      BY <1>4, <1>10, <3>1
    <3>2. CASE g # n
      <4>1. g \in 0 .. (dupCounts.groups - 1)
        BY <1>1, <1>2, <1>3, <3>2
      <4>2. Recorded(g) \/ \E d \in CTAs : Unrecorded(d) /\ mine[d].grp = g
        BY <1>6, <4>1 DEF GroupsAll
      <4> QED
        BY <1>4, <1>9, <1>10, <4>2
    <3> QED
      BY <3>1, <3>2
  <2>2. \A l \in Rows : Leads(l)' /\ InPass2(l, {"fill"})' =>
            \E g \in Rows : Recorded(g)' /\ dupGroups'[g][1] = l
    BY <1>2, <1>5, <1>6, <1>8, <1>9 DEF GroupsAll
  <2> QED
    BY <2>1, <2>2 DEF GroupsAll
<1>14. InOrder'
  <2>1. \A d \in CTAs : stage' = "pass2" /\ step'[d] = "fill" <=> stage = "pass2" /\ step[d] = "fill"
    BY <1>2, <1>4
  <2>2. \A d \in CTAs : stage = "pass2" /\ step[d] = "fill" => loff'[d] = loff[d] /\ mine'[d] = mine[d]
    BY <1>2, <1>4
  <2>3. \A d \in CTAs, l \in Rows : stage' = "pass2" /\ step'[d] = "record" /\ loff'[d] = l =>
            stage = "pass2" /\ step[d] = "record" /\ loff[d] = l /\ mine'[d] = mine[d]
    BY <1>2, <1>4
  <2> QED
    BY <1>2, <1>6, <2>1, <2>2, <2>3, InOrderKept
<1> QED
  BY <1>7, <1>12, <1>13, <1>14 DEF Plan

\* As many rows duplicate a row's token as there are choices of it.
LEMMA DuplicateRows ==
    ASSUME DInv, TablesTypeOK, Tables, stage \in {"pass2", "built"}, NEW r \in Sent
    PROVE  LET A == {m \in Sent : KeyAt(m) = KeyAt(r) /\ KidxAt(m) \in DupsAt(r)}
           IN  IsFiniteSet(A) /\ Cardinality(A) = Cardinality(DupsAt(r))
<1> DEFINE A == {m \in Sent : KeyAt(m) = KeyAt(r) /\ KidxAt(m) \in DupsAt(r)}
           f == [m \in A |-> KidxAt(m)]
<1>1. IsFiniteSet(DupsAt(r)) /\ IsFiniteSet(A)
  <2>1. A \subseteq Rows
    BY DEF Sent
  <2> QED
    BY <2>1, Duplicated, RowsBound
<1>2. f \in [A -> DupsAt(r)]
  OBVIOUS
<1>3. \A m, q \in A : f[m] = f[q] => m = q
  BY SentFacts DEF DInv
<1>4. \A k \in DupsAt(r) : \E m \in A : f[m] = k
  <2> SUFFICES ASSUME NEW k \in DupsAt(r) PROVE \E m \in A : f[m] = k
    OBVIOUS
  <2>1. PICK m : /\ m = kidxToLoff[<<KeyAt(r), k>>]
                 /\ m \in Sent /\ KeyAt(m) = KeyAt(r) /\ KidxAt(m) = k
    BY Duplicated
  <2> QED
    BY <2>1
<1>5. f \in Bijection(A, DupsAt(r))
  BY <1>2, <1>3, <1>4 DEF Bijection, Injection, IsInjective, Surjection
<1>6. ExistsBijection(A, DupsAt(r))
  BY <1>5 DEF ExistsBijection
<1> HIDE DEF A
<1>7. Cardinality(A) = Cardinality(DupsAt(r))
  BY <1>1, <1>6, FS_Bijection
<1> QED
  BY <1>1, <1>7 DEF A

LEMMA PlacesAdded ==
    ASSUME DInv, TablesTypeOK, RowsApart, Tables, Plan, NEW c \in CTAs, TakePlaces(c)
    PROVE  Plan'
<1>1. PICK r : r = loff[c]
  OBVIOUS
<1>2. /\ stage = "pass2" /\ stage' = "pass2" /\ step[c] = "places" /\ r \in Rows /\ r \in Sent
      /\ Duplicates(c) = DupsAt(r) /\ DupCount(c) = Cardinality(DupsAt(r))
      /\ Frozen /\ UNCHANGED <<dupGroups, dupLoffs>> /\ Goto(c, "record")
  BY <1>1, AtRow DEF TakePlaces, scratch, Frozen
<1>3. dupCounts'.groups = dupCounts.groups /\ dupCounts'.loffs = dupCounts.loffs + DupCount(c)
  BY DEF TakePlaces, PlacesTaken, DInv, BuilderTypeOK
<1>4. /\ mine'[c].grp = mine[c].grp /\ mine'[c].left = DupsAt(r)
      /\ \A d \in CTAs \ {c} : mine'[d] = mine[d]
      /\ loff' = loff /\ step'[c] = "record" /\ \A d \in CTAs \ {c} : step'[d] = step[d]
  <2>1. mine' = [mine EXCEPT ![c] = [@ EXCEPT !.start = dupCounts.loffs, !.left = Duplicates(c)]]
    BY DEF TakePlaces
  <2>2. mine[c] \in [grp : Nat, start : Nat, left : SUBSET Kidxs]
    BY DEF DInv, BuilderTypeOK
  <2>3. /\ [mine[c] EXCEPT !.start = dupCounts.loffs, !.left = Duplicates(c)].grp = mine[c].grp
        /\ [mine[c] EXCEPT !.start = dupCounts.loffs, !.left = Duplicates(c)].left = Duplicates(c)
    BY <2>2
  <2>4. mine'[c] = [mine[c] EXCEPT !.start = dupCounts.loffs, !.left = Duplicates(c)]
    BY <2>1 DEF DInv, BuilderTypeOK
  <2> QED
    BY <1>2, <2>1, <2>3, <2>4 DEF Goto, DInv, BuilderTypeOK
<1>5. \A l \in Rows :
          /\ InPass2(l, {"places", "record", "fill"})' <=> InPass2(l, {"places", "record", "fill"})
          /\ InPass2(l, {"record", "fill"})' <=> l = r \/ InPass2(l, {"record", "fill"})
          /\ InPass2(l, {"fill"})' <=> InPass2(l, {"fill"})
          /\ ~InPass2(r, {"record", "fill"})
  BY <1>1, <1>2, Pass2Moves
<1>6. Taken /\ GroupsApart /\ GroupsAll /\ InOrder
  BY DEF Plan
<1>7. Leads(r)
  BY <1>1, <1>2, <1>6 DEF GroupsApart, InGroup
<1>8. Taken'
  <2>1. Leading' = Leading
    BY <1>2, <1>5, LeadingKept
  <2>2. PICK A : A = {m \in Sent : KeyAt(m) = KeyAt(r) /\ KidxAt(m) \in DupsAt(r)}
    OBVIOUS
  <2>3. IsFiniteSet(A) /\ Cardinality(A) = DupCount(c)
    BY <1>2, <2>2, DuplicateRows
  <2>4. ASSUME NEW m \in Sent, KidxAt(m) \in DupsAt(m) PROVE PrimaryAt(m) = r <=> m \in A
    <3>1. ASSUME PrimaryAt(m) = r PROVE m \in A
      <4>1. KeyAt(r) = KeyAt(m)
        BY <1>2, <3>1, Static
      <4> QED
        BY <1>2, <2>2, <2>4, <4>1, Duplicated
    <3>2. ASSUME m \in A PROVE PrimaryAt(m) = r
      <4>1. PrimaryAt(m) = PrimaryAt(r)
        BY <1>2, <2>2, <3>2, Duplicated
      <4> QED
        BY <1>7, <4>1 DEF Leads
    <3> QED
      BY <3>1, <3>2
  <2>5. ASSUME NEW m \in A PROVE m \in Sent /\ KidxAt(m) \in DupsAt(m)
    BY <1>2, <2>2, Duplicated
  <2>6. ASSUME NEW m PROVE (m \in Served' <=> m \in Served \/ m \in A) /\ ~(m \in Served /\ m \in A)
    <3>1. Sent' = Sent /\ KidxAt(m)' = KidxAt(m) /\ DupsAt(m)' = DupsAt(m) /\ PrimaryAt(m)' = PrimaryAt(m)
      BY <1>2, FrozenFacts
    <3>2. m \in Served' <=>
              /\ m \in Sent' /\ KidxAt(m)' \in DupsAt(m)'
              /\ \E l \in Rows : l = PrimaryAt(m)' /\ InPass2(l, {"record", "fill"})'
      BY DEF Served
    <3>3. m \in Served <=>
              /\ m \in Sent /\ KidxAt(m) \in DupsAt(m)
              /\ \E l \in Rows : l = PrimaryAt(m) /\ InPass2(l, {"record", "fill"})
      BY DEF Served
    <3> QED
      BY <1>2, <1>5, <2>4, <2>5, <3>1, <3>2, <3>3
  <2>7. Served' = Served \cup A /\ Served \cap A = {}
    BY <2>6
  <2>8. IsFiniteSet(Served) /\ Cardinality(Served) \in Nat
    <3>1. Served \subseteq Rows
      BY DEF Served, Sent
    <3> QED
      BY <3>1, RowsBound
  <2>9. Cardinality(Served') = Cardinality(Served) + DupCount(c)
    <3>1. Cardinality(Served \cup A) = Cardinality(Served) + Cardinality(A) - Cardinality(Served \cap A)
      BY <2>3, <2>8, FS_Union
    <3>2. Cardinality(Served \cap A) = 0
      BY <2>7, FS_EmptySet
    <3>3. Cardinality(A) \in Nat
      BY <2>3, FS_CardinalityType
    <3> QED
      BY <2>3, <2>7, <2>8, <3>1, <3>2, <3>3
  <2> QED
    BY <1>3, <1>6, <2>1, <2>9 DEF Taken
<1>9. GroupsApart' /\ GroupsAll'
  <2>1. \A d \in CTAs : /\ InGroup(d)' => InGroup(d) /\ loff'[d] = loff[d]
                        /\ Unrecorded(d)' <=> Unrecorded(d)
                        /\ mine'[d].grp = mine[d].grp
    BY <1>2, <1>4 DEF InGroup, Unrecorded
  <2> QED
    BY <1>2, <1>3, <1>5, <1>6, <2>1, GroupsKept
<1>10. InOrder'
  <2>1. \A d \in CTAs : stage' = "pass2" /\ step'[d] = "fill" <=> stage = "pass2" /\ step[d] = "fill"
    BY <1>2, <1>4
  <2>2. \A d \in CTAs : stage = "pass2" /\ step[d] = "fill" => loff'[d] = loff[d] /\ mine'[d] = mine[d]
    BY <1>2, <1>4
  <2>3. \A d \in CTAs, l \in Rows : stage' = "pass2" /\ step'[d] = "record" /\ loff'[d] = l =>
            \/ stage = "pass2" /\ step[d] = "record" /\ loff[d] = l /\ mine'[d] = mine[d]
            \/ mine'[d].left = DupsAt(l)
    BY <1>1, <1>2, <1>4
  <2> QED
    BY <1>2, <1>6, <2>1, <2>2, <2>3, InOrderKept
<1> QED
  BY <1>8, <1>9, <1>10 DEF Plan

LEMMA GroupRecorded ==
    ASSUME DInv, TablesTypeOK, RowsApart, Tables, Plan, NEW c \in CTAs, RecordGroup(c)
    PROVE  Plan'
<1>1. PICK r, g0 : r = loff[c] /\ g0 = mine[c].grp
  OBVIOUS
<1>2. /\ stage = "pass2" /\ stage' = "pass2" /\ step[c] = "record" /\ r \in Rows /\ r \in Sent
      /\ DupCount(c) = Cardinality(DupsAt(r)) /\ DupCount(c) \in Nat
      /\ Frozen /\ UNCHANGED <<dupLoffs, dupCounts, mine>> /\ Goto(c, "fill")
      /\ dupGroups' = [dupGroups EXCEPT ![g0] = <<r, mine[c].start, DupCount(c)>>]
  BY <1>1, AtRow DEF RecordGroup, scratch, Frozen
<1>3. loff' = loff /\ step'[c] = "fill" /\ \A d \in CTAs \ {c} : step'[d] = step[d]
  BY <1>2 DEF Goto, DInv, BuilderTypeOK
<1>4. \A l \in Rows :
          /\ InPass2(l, {"places", "record", "fill"})' <=> InPass2(l, {"places", "record", "fill"})
          /\ InPass2(l, {"record", "fill"})' <=> InPass2(l, {"record", "fill"})
          /\ InPass2(l, {"fill"})' <=> l = r \/ InPass2(l, {"fill"})
          /\ ~InPass2(r, {"fill"})
  BY <1>1, <1>2, Pass2Moves
<1>5. Taken /\ GroupsApart /\ GroupsAll /\ InOrder
  BY DEF Plan
<1>6. Leads(r) /\ DupsAt(r) # {}
  BY <1>1, <1>2, <1>5 DEF GroupsApart, InGroup, Leads
<1>7. DupCount(c) > 0 /\ IsFiniteSet(DupsAt(r))
  <2>1. IsFiniteSet(DupsAt(r)) /\ (DupsAt(r) # {} <=> Cardinality(kmask[KeyAt(r)]) - 1 > 0)
        /\ Cardinality(DupsAt(r)) = Cardinality(kmask[KeyAt(r)]) - 1
    BY <1>2, Duplicated
  <2> QED
    BY <1>2, <1>6, <2>1
<1>8. g0 \in 0 .. (dupCounts.groups - 1) /\ g0 \in Rows /\ ~Recorded(g0) /\ Unrecorded(c)
  <2>1. Unrecorded(c)
    BY <1>2 DEF Unrecorded
  <2>2. g0 \in 0 .. (dupCounts.groups - 1) /\ \A g \in Rows : Recorded(g) => g # g0
    BY <1>1, <1>5, <2>1 DEF GroupsApart
  <2>3. Leading \subseteq Rows
    BY DEF Leading
  <2>4. dupCounts.groups \in Nat /\ dupCounts.groups <= NvS
    BY <1>5, <2>3, RowsBound DEF Taken
  <2>5. g0 \in Rows
    BY <2>2, <2>4, NvSNat DEF Rows
  <2> QED
    BY <2>1, <2>2, <2>5
<1>9. /\ dupGroups'[g0][1] = r /\ dupGroups'[g0][2] = mine[c].start /\ dupGroups'[g0][3] = DupCount(c)
      /\ \A g \in Rows : g # g0 => dupGroups'[g] = dupGroups[g]
  BY <1>2, <1>8 DEF DInv, BuilderTypeOK
<1>10. \A g \in Rows : Recorded(g)' <=> g = g0 \/ Recorded(g)
  BY <1>7, <1>8, <1>9 DEF Recorded
<1>11. \A l \in Rows : (Leads(l)' <=> Leads(l)) /\ DupsAt(l)' = DupsAt(l) /\ KeyAt(l)' = KeyAt(l)
  BY <1>2, FrozenFacts
<1>12. \A g \in Rows : Recorded(g) => g # g0 /\ dupGroups[g][1] # r
  BY <1>2, <1>4, <1>5, <1>8 DEF GroupsApart
<1>13. /\ ~Unrecorded(c)'
       /\ \A d \in CTAs \ {c} : Unrecorded(d)' <=> Unrecorded(d)
       /\ \A d \in CTAs : InGroup(d)' <=> InGroup(d)
  BY <1>2, <1>3 DEF Unrecorded, InGroup
<1>14. Taken'
  <2>1. Leading' = Leading /\ Served' = Served
    BY <1>2, <1>4, LeadingKept, ServedKept
  <2> QED
    BY <1>2, <1>5, <2>1 DEF Taken
<1>15. GroupsApart'
  <2>1. \A d \in CTAs, l \in Rows : InGroup(d)' /\ loff'[d] = l => Leads(l)'
    BY <1>3, <1>5, <1>11, <1>13 DEF GroupsApart
  <2>2. ASSUME NEW d \in CTAs, Unrecorded(d)'
        PROVE  /\ mine'[d].grp \in 0 .. (dupCounts'.groups - 1)
               /\ \A g \in Rows : Recorded(g)' => g # mine'[d].grp
    <3>1. d # c /\ Unrecorded(d)
      BY <1>13, <2>2
    <3>2. mine[d].grp # g0
      BY <1>1, <1>5, <1>8, <3>1 DEF GroupsApart
    <3> QED
      BY <1>2, <1>5, <1>10, <3>1, <3>2 DEF GroupsApart
  <2>3. \A d, e \in CTAs : Unrecorded(d)' /\ Unrecorded(e)' /\ d # e => mine'[d].grp # mine'[e].grp
    BY <1>2, <1>5, <1>13 DEF GroupsApart
  <2>4. ASSUME NEW g \in Rows, Recorded(g)'
        PROVE  g < dupCounts'.groups /\ dupGroups'[g][1] \in Rows
    <3>1. CASE g = g0
      <4>1. g0 < dupCounts.groups
        BY <1>8 DEF DInv, BuilderTypeOK
      <4> QED
        BY <1>2, <1>9, <3>1, <4>1
    <3>2. CASE g # g0
      BY <1>2, <1>5, <1>9, <1>10, <2>4, <3>2 DEF GroupsApart
    <3> QED
      BY <3>1, <3>2
  <2>5. ASSUME NEW g \in Rows, NEW l \in Rows, Recorded(g)', dupGroups'[g][1] = l
        PROVE  Leads(l)' /\ InPass2(l, {"fill"})' /\ dupGroups'[g][3] = Cardinality(DupsAt(l)')
    <3>1. CASE g = g0
      BY <1>2, <1>4, <1>6, <1>9, <1>11, <2>5, <3>1
    <3>2. CASE g # g0
      BY <1>4, <1>5, <1>9, <1>10, <1>11, <2>5, <3>2 DEF GroupsApart
    <3> QED
      BY <3>1, <3>2
  <2>6. ASSUME NEW g \in Rows, NEW h \in Rows, Recorded(g)', Recorded(h)',
               dupGroups'[g][1] = dupGroups'[h][1]
        PROVE  g = h
    <3>1. CASE g = g0
      BY <1>9, <1>10, <1>12, <2>6, <3>1
    <3>2. CASE h = g0
      BY <1>9, <1>10, <1>12, <2>6, <3>2
    <3>3. CASE g # g0 /\ h # g0
      BY <1>5, <1>9, <1>10, <2>6, <3>3 DEF GroupsApart
    <3> QED
      BY <3>1, <3>2, <3>3
  <2> QED
    BY <2>1, <2>2, <2>3, <2>4, <2>5, <2>6 DEF GroupsApart
<1>16. GroupsAll'
  <2>1. ASSUME NEW g \in 0 .. (dupCounts'.groups - 1)
        PROVE  Recorded(g)' \/ \E d \in CTAs : Unrecorded(d)' /\ mine'[d].grp = g
    <3>1. Recorded(g) \/ \E d \in CTAs : Unrecorded(d) /\ mine[d].grp = g
      BY <1>2, <1>5 DEF GroupsAll
    <3>2. CASE Recorded(g)
      <4>1. g \in Rows
        BY <3>2 DEF Recorded
      <4> QED
        BY <1>10, <3>2, <4>1
    <3>3. CASE \E d \in CTAs : Unrecorded(d) /\ mine[d].grp = g
      <4>1. PICK d \in CTAs : Unrecorded(d) /\ mine[d].grp = g
        BY <3>3
      <4>2. CASE d = c
        BY <1>1, <1>8, <1>10, <4>1, <4>2
      <4>3. CASE d # c
        BY <1>2, <1>13, <4>1, <4>3
      <4> QED
        BY <4>2, <4>3
    <3> QED
      BY <3>1, <3>2, <3>3
  <2>2. ASSUME NEW l \in Rows, Leads(l)', InPass2(l, {"fill"})'
        PROVE  \E g \in Rows : Recorded(g)' /\ dupGroups'[g][1] = l
    <3>1. CASE l = r
      BY <1>8, <1>9, <1>10, <3>1
    <3>2. CASE l # r
      <4>1. PICK g \in Rows : Recorded(g) /\ dupGroups[g][1] = l
        BY <1>4, <1>5, <1>11, <2>2, <3>2 DEF GroupsAll
      <4> QED
        BY <1>9, <1>10, <1>12, <4>1
    <3> QED
      BY <3>1, <3>2
  <2> QED
    BY <2>1, <2>2 DEF GroupsAll
<1>17. mine[c].left = DupsAt(r)
  BY <1>1, <1>2, <1>5 DEF InOrder
<1>18. InOrder'
  <2>1. \A d \in CTAs, l \in Rows : stage' = "pass2" /\ step'[d] = "record" /\ loff'[d] = l =>
            mine'[d].left = DupsAt(l)'
    BY <1>2, <1>3, <1>5, <1>11 DEF InOrder
  <2>2. ASSUME NEW d \in CTAs, NEW l \in Rows, step'[d] = "fill", loff'[d] = l
        PROVE  /\ mine'[d].left # {} /\ mine'[d].left \subseteq DupsAt(l)'
               /\ \A j \in DupsAt(l)' \ mine'[d].left, k \in mine'[d].left : j < k
               /\ \A g \in Rows : Recorded(g)' /\ dupGroups'[g][1] = l => dupGroups'[g][2] = mine'[d].start
    <3>1. CASE d = c
      <4>1. l = r /\ mine'[d] = mine[c]
        BY <1>1, <1>2, <1>3, <2>2, <3>1
      <4>2. DupsAt(l)' \ mine'[d].left = {}
        BY <1>2, <1>11, <1>17, <4>1
      <4>3. \A g \in Rows : Recorded(g)' /\ dupGroups'[g][1] = r => g = g0
        BY <1>9, <1>10, <1>12
      <4> QED
        BY <1>2, <1>6, <1>9, <1>11, <1>17, <4>1, <4>2, <4>3
    <3>2. CASE d # c
      <4>1. step[d] = "fill" /\ loff[d] = l /\ mine'[d] = mine[d]
        BY <1>2, <1>3, <2>2, <3>2
      <4>2. l # r
        <5>1. Hand(loff[d]) = d /\ Hand(loff[c]) = c
          BY DEF RowsApart
        <5> QED
          BY <1>1, <3>2, <4>1, <5>1
      <4>3. /\ mine[d].left # {} /\ mine[d].left \subseteq DupsAt(l)
            /\ \A j \in DupsAt(l) \ mine[d].left, k \in mine[d].left : j < k
            /\ \A g \in Rows : Recorded(g) /\ dupGroups[g][1] = l => dupGroups[g][2] = mine[d].start
        BY <1>2, <1>5, <4>1 DEF InOrder
      <4>4. \A g \in Rows : Recorded(g)' /\ dupGroups'[g][1] = l => dupGroups'[g][2] = mine[d].start
        BY <1>9, <1>10, <4>2, <4>3
      <4> QED
        BY <1>11, <4>1, <4>3, <4>4
    <3> QED
      BY <3>1, <3>2
  <2>3. ASSUME NEW g \in Rows, NEW l \in Rows, Recorded(g)', dupGroups'[g][1] = l,
               NEW k \in DupsAt(l)' \ LeftOf(l)'
        PROVE  dupLoffs'[dupGroups'[g][2] + Rank(DupsAt(l)', k)] = kidxToLoff'[<<KeyAt(l)', k>>]
    <3>1. PICK h \in CTAs :
              /\ h = Hand(l)
              /\ LeftOf(l) = IF stage = "pass2" /\ loff[h] = l /\ step[h] = "fill"
                             THEN mine[h].left ELSE {}
              /\ LeftOf(l)' = IF stage' = "pass2" /\ loff'[h] = l /\ step'[h] = "fill"
                              THEN mine'[h].left ELSE {}
      BY LeftNext
    <3>2. CASE g = g0
      <4>1. l = r
        BY <1>9, <2>3, <3>2
      <4>2. h = c
        BY <1>1, <3>1, <4>1 DEF RowsApart
      <4>3. LeftOf(l)' = DupsAt(r)
        BY <1>1, <1>2, <1>3, <1>17, <3>1, <4>1, <4>2
      <4> QED
        BY <1>11, <2>3, <4>1, <4>3
    <3>3. CASE g # g0
      <4>1. Recorded(g) /\ dupGroups[g][1] = l /\ l # r
        BY <1>9, <1>10, <1>12, <2>3, <3>3
      <4>2. LeftOf(l)' = LeftOf(l)
        <5>1. h # c => step'[h] = step[h]
          BY <1>3
        <5>2. h = c => loff[h] # l
          BY <1>1, <4>1
        <5> QED
          BY <1>2, <1>3, <3>1, <5>1, <5>2
      <4>3. dupLoffs[dupGroups[g][2] + Rank(DupsAt(l), k)] = kidxToLoff[<<KeyAt(l), k>>]
        BY <1>5, <1>11, <2>3, <4>1, <4>2 DEF InOrder
      <4> QED
        BY <1>2, <1>9, <1>11, <3>3, <4>3 DEF Frozen
    <3> QED
      BY <3>2, <3>3
  <2> QED
    BY <2>1, <2>2, <2>3 DEF InOrder, Rank
<1> QED
  BY <1>14, <1>15, <1>16, <1>18 DEF Plan

\* The next choice is the least that is left.
LEMMA LeastLeft ==
    ASSUME NEW L, L \subseteq Nat, IsFiniteSet(L), L # {}
    PROVE  FirstChoice(L) \in L /\ \A j \in L : FirstChoice(L) <= j
<1>1. 0 \in 0 .. (Cardinality(L) - 1)
  <2>1. Cardinality(L) \in Nat /\ Cardinality(L) # 0
    BY FS_CardinalityType, FS_EmptySet
  <2> QED
    BY <2>1
<1>2. PICK k \in L : Rank(L, k) = 0
  BY <1>1, RankTaken
<1>3. {j \in L : j < k} = {}
  <2>1. {j \in L : j < k} \subseteq L
    OBVIOUS
  <2>2. IsFiniteSet({j \in L : j < k})
    BY <2>1, FS_Subset
  <2> QED
    BY <1>2, <2>2, FS_EmptySet DEF Rank
<1>4. \A j \in L : k <= j
  <2> SUFFICES ASSUME NEW j \in L PROVE k <= j
    OBVIOUS
  <2>1. ~(j < k)
    BY <1>3
  <2> QED
    BY <2>1
<1> QED
  BY <1>4 DEF FirstChoice, Min

\* The places of a recorded group are in the array, and its duplicates' among them.
LEMMA PlaceIn ==
    ASSUME DInv, TablesTypeOK, Tables, Taken, GroupsApart, stage \in {"pass2", "built"},
           NEW g \in Rows, NEW l \in Rows, Recorded(g), dupGroups[g][1] = l
    PROVE  /\ l \in Sent /\ dupGroups[g][2] \in Nat /\ dupGroups[g][3] = Cardinality(DupsAt(l))
           /\ PlacesOf(g) \subseteq Rows
           /\ PlacesOf(g) = dupGroups[g][2] .. (dupGroups[g][2] + Cardinality(DupsAt(l)) - 1)
           /\ \A k \in DupsAt(l) : /\ Rank(DupsAt(l), k) \in 0 .. (Cardinality(DupsAt(l)) - 1)
                                   /\ dupGroups[g][2] + Rank(DupsAt(l), k) \in PlacesOf(g)
<1>1. l \in Sent /\ dupGroups[g][3] = Cardinality(DupsAt(l))
  BY DEF GroupsApart, Leads
<1>2. PICK s, n : s = dupGroups[g][2] /\ n = Cardinality(DupsAt(l))
  OBVIOUS
<1>3. s \in Nat /\ n \in Nat /\ dupGroups[g][3] = n
  BY <1>1, <1>2 DEF DInv, BuilderTypeOK
<1>4. PlacesOf(g) = s .. (s + n - 1)
  BY <1>2, <1>3 DEF PlacesOf
<1>5. s + n <= NvS
  <2>1. s + n <= dupCounts.loffs
    BY <1>2, <1>3 DEF DInv, RangesDisjoint
  <2>2. dupCounts.loffs \in Nat /\ dupCounts.loffs <= NvS
    <3>1. Served \subseteq Rows
      BY DEF Served, Sent
    <3> QED
      BY <3>1, RowsBound DEF Taken
  <2> QED
    BY <1>3, <2>1, <2>2, NvSNat
<1>6. PlacesOf(g) \subseteq Rows
  BY <1>3, <1>4, <1>5, NvSNat DEF Rows
<1>7. ASSUME NEW k \in DupsAt(l)
      PROVE  Rank(DupsAt(l), k) \in 0 .. (n - 1) /\ s + Rank(DupsAt(l), k) \in PlacesOf(g)
  <2>1. Rank(DupsAt(l), k) \in 0 .. (n - 1)
    <3>1. DupsAt(l) \subseteq Nat /\ IsFiniteSet(DupsAt(l))
      BY <1>1, Duplicated
    <3> QED
      BY <1>2, <3>1, RankFacts
  <2> QED
    BY <1>3, <1>4, <2>1
<1> QED
  BY <1>1, <1>2, <1>3, <1>4, <1>6, <1>7

LEMMA PlaceFilled ==
    ASSUME DInv, TablesTypeOK, RowsApart, Tables, Plan, NEW c \in CTAs, FillPlace(c)
    PROVE  Plan' /\ dupLoffs' \in [Rows -> Nat]
<1>1. PICK r, L, k0, start : r = loff[c] /\ L = mine[c].left /\ k0 = FirstChoice(L) /\ start = mine[c].start
  OBVIOUS
<1>2. /\ stage = "pass2" /\ stage' = "pass2" /\ step[c] = "fill" /\ r \in Rows /\ r \in Sent
      /\ DupCount(c) = Cardinality(DupsAt(r)) /\ DupCount(c) \in Nat /\ Key(c) = KeyAt(r)
      /\ Frozen /\ UNCHANGED <<dupGroups, dupCounts>>
  BY <1>1, AtRow DEF FillPlace, scratch, Frozen
<1>3. /\ dupLoffs' = [dupLoffs EXCEPT ![start + DupCount(c) - Cardinality(L)] =
                          kidxToLoff[<<KeyAt(r), k0>>]]
      /\ mine' = [mine EXCEPT ![c] = [@ EXCEPT !.left = L \ {k0}]]
      /\ IF L = {k0} THEN NextRow(c) ELSE UNCHANGED <<loff, step>>
  BY <1>1, <1>2 DEF FillPlace
<1>4. /\ mine'[c].grp = mine[c].grp /\ mine'[c].start = start /\ mine'[c].left = L \ {k0}
      /\ \A d \in CTAs \ {c} : mine'[d] = mine[d]
  <2>1. mine[c] \in [grp : Nat, start : Nat, left : SUBSET Kidxs]
    BY DEF DInv, BuilderTypeOK
  <2>2. mine'[c] = [mine[c] EXCEPT !.left = L \ {k0}]
    BY <1>3 DEF DInv, BuilderTypeOK
  <2> QED
    BY <1>1, <1>3, <2>1, <2>2 DEF DInv, BuilderTypeOK
<1>5. Taken /\ GroupsApart /\ GroupsAll /\ InOrder
  BY DEF Plan
<1>6. /\ L # {} /\ L \subseteq DupsAt(r)
      /\ \A j \in DupsAt(r) \ L, k \in L : j < k
      /\ \A g \in Rows : Recorded(g) /\ dupGroups[g][1] = r => dupGroups[g][2] = start
  BY <1>1, <1>2, <1>5 DEF InOrder
<1>7. DupsAt(r) \subseteq Nat /\ IsFiniteSet(DupsAt(r)) /\ L \subseteq Nat /\ IsFiniteSet(L)
  <2>1. DupsAt(r) \subseteq Nat /\ IsFiniteSet(DupsAt(r))
    BY <1>2, Duplicated
  <2> QED
    BY <1>6, <2>1, FS_Subset
<1>8. k0 \in L /\ k0 \in DupsAt(r) /\ \A j \in L : k0 <= j
  BY <1>1, <1>6, <1>7, LeastLeft
<1>9. Rank(DupsAt(r), k0) = Cardinality(DupsAt(r)) - Cardinality(L)
  <2>1. L \in SUBSET DupsAt(r) /\ \A j \in DupsAt(r) \ L : j < k0
    BY <1>6, <1>8
  <2> QED
    BY <1>7, <1>8, <2>1, RankOfLeast
<1>10. /\ InPass2(r, {"places", "record", "fill"}) /\ InPass2(r, {"record", "fill"})
       /\ InPass2(r, {"fill"})
  BY <1>1, <1>2, Pass2Moves
<1>11. Leads(r)
  BY <1>1, <1>2, <1>5 DEF GroupsApart, InGroup
<1>12. PICK g0 \in Rows : Recorded(g0) /\ dupGroups[g0][1] = r /\ dupGroups[g0][2] = start
  BY <1>2, <1>5, <1>6, <1>10, <1>11 DEF GroupsAll
<1>13. PICK place : /\ place = start + Rank(DupsAt(r), k0) /\ place \in PlacesOf(g0) /\ place \in Rows
                    /\ dupLoffs' = [dupLoffs EXCEPT ![place] = kidxToLoff[<<KeyAt(r), k0>>]]
  <2>1. start + Rank(DupsAt(r), k0) \in PlacesOf(g0) /\ PlacesOf(g0) \subseteq Rows /\ start \in Nat
    BY <1>2, <1>5, <1>8, <1>12, PlaceIn
  <2>2. Cardinality(L) \in Nat
    BY <1>7, FS_CardinalityType
  <2>3. start + DupCount(c) - Cardinality(L) = start + (Cardinality(DupsAt(r)) - Cardinality(L))
    BY <1>2, <2>1, <2>2
  <2> QED
    BY <1>3, <1>9, <2>1, <2>3
<1>14. dupLoffs' \in [Rows -> Nat]
  <2>1. kidxToLoff[<<KeyAt(r), k0>>] \in Sent
    BY <1>2, <1>8, Duplicated
  <2>2. kidxToLoff[<<KeyAt(r), k0>>] \in Nat
    BY <2>1, SentFacts DEF DInv
  <2> QED
    BY <1>13, <2>2 DEF TablesTypeOK
<1>15. SameLeads
  <2>1. CASE L = {k0}
    BY <1>1, <1>2, <1>3, <1>10, <2>1, Pass2Moves DEF SameLeads
  <2>2. CASE L # {k0}
    BY <1>2, <1>3, <2>2 DEF SameLeads, InPass2, Beyond, Hand
  <2> QED
    BY <2>1, <2>2
<1>16. /\ \A d \in CTAs \ {c} : step'[d] = step[d] /\ loff'[d] = loff[d]
       /\ L = {k0} => step'[c] = "row"
       /\ L # {k0} => step'[c] = "fill" /\ loff'[c] = r
  BY <1>1, <1>2, <1>3 DEF NextRow, DInv, BuilderTypeOK
<1>17. Taken'
  <2>1. Leading' = Leading /\ Served' = Served
    BY <1>2, <1>15, LeadingKept, ServedKept DEF SameLeads
  <2> QED
    BY <1>2, <1>5, <2>1 DEF Taken
<1>18. GroupsApart' /\ GroupsAll'
  <2>1. \A d \in CTAs : /\ InGroup(d)' => InGroup(d) /\ loff'[d] = loff[d]
                        /\ Unrecorded(d)' <=> Unrecorded(d)
                        /\ mine'[d].grp = mine[d].grp
    BY <1>1, <1>2, <1>4, <1>16 DEF InGroup, Unrecorded
  <2> QED
    BY <1>2, <1>5, <1>15, <2>1, GroupsKept DEF SameLeads
<1>19. \A l \in Rows : DupsAt(l)' = DupsAt(l) /\ KeyAt(l)' = KeyAt(l)
  BY <1>2, FrozenFacts
<1>20. \A g : Recorded(g)' <=> Recorded(g)
  BY <1>2 DEF Recorded
<1>21. InOrder'
  <2>1. \A d \in CTAs, l \in Rows : stage' = "pass2" /\ step'[d] = "record" /\ loff'[d] = l =>
            mine'[d].left = DupsAt(l)'
    BY <1>2, <1>4, <1>5, <1>16, <1>19 DEF InOrder
  <2>2. ASSUME NEW d \in CTAs, NEW l \in Rows, step'[d] = "fill", loff'[d] = l
        PROVE  /\ mine'[d].left # {} /\ mine'[d].left \subseteq DupsAt(l)'
               /\ \A j \in DupsAt(l)' \ mine'[d].left, k \in mine'[d].left : j < k
               /\ \A g \in Rows : Recorded(g)' /\ dupGroups'[g][1] = l => dupGroups'[g][2] = mine'[d].start
    <3>1. CASE d = c
      <4>1. L # {k0} /\ l = r
        BY <1>16, <2>2, <3>1
      <4>2. mine'[d].left = L \ {k0} /\ mine'[d].start = start /\ DupsAt(l)' = DupsAt(r)
        BY <1>4, <1>19, <3>1, <4>1
      <4>3. L \ {k0} # {} /\ L \ {k0} \subseteq DupsAt(r)
        BY <1>6, <1>8, <4>1
      <4>4. ASSUME NEW j \in DupsAt(r) \ (L \ {k0}), NEW k \in L \ {k0} PROVE j < k
        <5>1. CASE j = k0
          <6>1. k0 <= k /\ k0 # k /\ k0 \in Nat /\ k \in Nat
            BY <1>7, <1>8
          <6> QED
            BY <5>1, <6>1
        <5>2. CASE j # k0
          BY <1>6, <5>2
        <5> QED
          BY <5>1, <5>2
      <4> QED
        BY <1>2, <1>6, <1>20, <4>1, <4>2, <4>3, <4>4
    <3>2. CASE d # c
      <4>1. step[d] = "fill" /\ loff[d] = l /\ mine'[d] = mine[d]
        BY <1>4, <1>16, <2>2, <3>2
      <4> QED
        BY <1>2, <1>5, <1>19, <1>20, <4>1 DEF InOrder
    <3> QED
      BY <3>1, <3>2
  <2>3. ASSUME NEW g \in Rows, NEW l \in Rows, Recorded(g), dupGroups[g][1] = l,
               NEW k \in DupsAt(l) \ LeftOf(l)'
        PROVE  dupLoffs'[dupGroups[g][2] + Rank(DupsAt(l), k)] = kidxToLoff[<<KeyAt(l), k>>]
    <3>1. PICK h \in CTAs :
              /\ h = Hand(l)
              /\ LeftOf(l) = IF stage = "pass2" /\ loff[h] = l /\ step[h] = "fill"
                             THEN mine[h].left ELSE {}
              /\ LeftOf(l)' = IF stage' = "pass2" /\ loff'[h] = l /\ step'[h] = "fill"
                              THEN mine'[h].left ELSE {}
      BY LeftNext
    <3>2. PICK q : /\ q = dupGroups[g][2] + Rank(DupsAt(l), k) /\ q \in PlacesOf(g) /\ q \in Rows
                   /\ dupGroups[g][2] \in Nat /\ Rank(DupsAt(l), k) \in Int
      <4>1. /\ dupGroups[g][2] + Rank(DupsAt(l), k) \in PlacesOf(g) /\ PlacesOf(g) \subseteq Rows
            /\ dupGroups[g][2] \in Nat
            /\ Rank(DupsAt(l), k) \in 0 .. (Cardinality(DupsAt(l)) - 1)
            /\ l \in Sent
        BY <1>2, <1>5, <2>3, PlaceIn
      <4>2. Cardinality(DupsAt(l)) \in Nat
        BY <1>2, <4>1, Duplicated
      <4> QED
        BY <4>1, <4>2
    <3>3. CASE l = r
      <4>1. h = c
        BY <1>1, <3>1, <3>3 DEF RowsApart
      <4>2. LeftOf(l) = L
        BY <1>1, <1>2, <3>1, <3>3, <4>1
      <4>3. LeftOf(l)' = L \ {k0}
        BY <1>2, <1>4, <1>16, <3>1, <3>3, <4>1
      <4>4. g = g0 /\ dupGroups[g][2] = start
        BY <1>5, <1>12, <2>3, <3>3 DEF GroupsApart
      <4>5. CASE k = k0
        BY <1>13, <3>2, <3>3, <4>4, <4>5 DEF TablesTypeOK
      <4>6. CASE k # k0
        <5>1. k \in DupsAt(l) \ LeftOf(l) /\ k \in DupsAt(r) \ L
          BY <2>3, <3>3, <4>2, <4>3, <4>6
        <5>2. dupLoffs[q] = kidxToLoff[<<KeyAt(l), k>>]
          BY <1>5, <2>3, <3>2, <5>1 DEF InOrder
        <5>3. q # place
          <6>1. k < k0
            BY <1>6, <1>8, <5>1
          <6>2. Rank(DupsAt(r), k) < Rank(DupsAt(r), k0)
            BY <1>7, <1>8, <5>1, <6>1, RankFacts
          <6>3. PICK a, b : a = Rank(DupsAt(r), k) /\ b = Rank(DupsAt(r), k0)
            OBVIOUS
          <6>4. q = start + a /\ place = start + b /\ a < b /\ a \in Int /\ start \in Nat /\ b \in Int
            <7>1. b \in Int
              <8>1. Cardinality(DupsAt(r)) \in Nat /\ Cardinality(L) \in Nat
                BY <1>7, FS_CardinalityType
              <8> QED
                BY <1>9, <6>3, <8>1
            <7> QED
              BY <1>13, <3>2, <3>3, <4>4, <6>2, <6>3, <7>1
          <6> QED
            BY <6>4
        <5> QED
          BY <1>13, <3>2, <5>2, <5>3 DEF TablesTypeOK
      <4> QED
        BY <4>5, <4>6
    <3>4. CASE l # r
      <4>1. LeftOf(l)' = LeftOf(l)
        <5>1. CASE h = c
          <6>1. loff[h] # l
            BY <1>1, <3>4, <5>1
          <6>2. ~(loff'[h] = l /\ step'[h] = "fill")
            BY <1>16, <3>4, <5>1
          <6> QED
            BY <3>1, <6>1, <6>2
        <5>2. CASE h # c
          BY <1>2, <1>4, <1>16, <3>1, <5>2
        <5> QED
          BY <5>1, <5>2
      <4>2. dupLoffs[q] = kidxToLoff[<<KeyAt(l), k>>]
        BY <1>5, <2>3, <3>2, <4>1 DEF InOrder
      <4>3. g # g0
        BY <1>12, <2>3, <3>4
      <4>4. q # place
        BY <1>13, <3>2, <4>3 DEF DInv, RangesDisjoint
      <4> QED
        BY <1>13, <3>2, <4>2, <4>4 DEF TablesTypeOK
    <3> QED
      BY <3>3, <3>4
  <2>4. \A g, l \in Rows : Recorded(g)' /\ dupGroups'[g][1] = l =>
            \A k \in DupsAt(l)' \ LeftOf(l)' :
                dupLoffs'[dupGroups'[g][2] + Rank(DupsAt(l)', k)] = kidxToLoff'[<<KeyAt(l)', k>>]
    BY <1>2, <1>19, <1>20, <2>3 DEF Frozen
  <2> QED
    BY <2>1, <2>2, <2>4 DEF InOrder, Rank
<1> QED
  BY <1>14, <1>17, <1>18, <1>21 DEF Plan
-----------------------------------------------------------------------------
LEMMA InitMInv == Init => MInv
<1> SUFFICES ASSUME Init PROVE MInv
  OBVIOUS
<1>1. DInv
  BY InitDInv
<1>2. TablesTypeOK
  BY DEF Init, TablesTypeOK
<1>3. RowsApart
  BY HandFacts DEF Init, RowsApart
<1>4. Tables
  BY DEF Init, Tables
<1>5. Quiet
  BY DEF Init, Quiet, InPass2, Recorded, NoGroup
<1> QED
  BY <1>1, <1>2, <1>3, <1>4, <1>5, QuietPlan DEF MInv

\* No plan exists before pass 2.
LEMMA QuietBefore ==
    ASSUME DInv, Plan, stage \in {"idle", "pass1"}
    PROVE  Quiet
<1>1. \A l \in Rows : \A S : ~InPass2(l, S)
  BY DEF InPass2
<1>2. Leading = {} /\ Served = {}
  BY <1>1 DEF Leading, Served
<1>3. dupCounts.groups = 0 /\ dupCounts.loffs = 0
  BY <1>2, FS_EmptySet DEF Plan, Taken
<1>4. \A g \in Rows : ~Recorded(g)
  <2> SUFFICES ASSUME NEW g \in Rows, Recorded(g) PROVE FALSE
    OBVIOUS
  <2>1. g < 0
    BY <1>3 DEF Plan, GroupsApart
  <2> QED
    BY <2>1, NvSNat DEF Rows
<1> QED
  BY <1>1, <1>3, <1>4 DEF Quiet

\* Nor while pass 1 goes on, or after what clears the plan.
LEMMA QuietStays ==
    ASSUME Quiet, stage' \in {"idle", "pass1"}, UNCHANGED <<dupGroups, dupCounts>>
    PROVE  Quiet'
BY DEF Quiet, InPass2, Recorded

LEMMA ClearMInv == ASSUME MInv, Clear, DInv' PROVE MInv'
<1>1. /\ stage' = "pass1" /\ loff' = loff /\ step' = step
      /\ \A c \in CTAs : loff[c] = c /\ step[c] = "row" /\ Hand(loff[c]) = c
  BY DEF MInv, RowsApart, Clear, ctaVars
<1>2. TablesTypeOK'
  <2>1. Int32Max \in Nat
    <3>1. 2 ^ KidxBits * 2 ^ NvsBits \in Int
      BY FieldWidths
    <3>2. 0 \in Kidxs /\ 0 \in Rows
      BY TokensAssumption, NvSNat DEF Kidxs, Rows
    <3>3. Packed(0, 0) \in Nat /\ Packed(0, 0) < Int32Max
      BY <3>2, PackedParts
    <3> QED
      BY <3>1, <3>3 DEF Int32Max
  <2> QED
    BY <2>1 DEF MInv, TablesTypeOK, Clear
<1>3. RowsApart'
  BY <1>1 DEF RowsApart, Hand
<1>4. ASSUME NEW l \in Rows, NEW S, "row" \notin S PROVE ~InPass1(l, S)'
  <2>1. PICK h \in CTAs : h = Hand(l) /\ h <= l /\ l \in Nat
    BY HandFacts, NvSNat DEF Rows
  <2>2. h \in Nat
    BY SMsAssumption DEF CTAs
  <2>3. InPass1(l, S)' <=> l < loff'[h] \/ (loff'[h] = l /\ step'[h] \in S)
    BY <1>1, <2>1 DEF InPass1, Beyond, Hand
  <2>4. ~(l < h)
    BY <2>1, <2>2
  <2> QED
    BY <1>1, <1>4, <2>3, <2>4
<1>5. \A l \in Rows : ~InPass1(l, {"mark", "store"})' /\ ~InPass1(l, {"store"})' /\ ~InPass1(l, {})'
  BY <1>4
<1>6. Sent' \subseteq Rows
  BY DEF Sent
<1>7. Tables'
  <2>1. WordsLeast'
    <3>1. \A key \in Keys : primaryPacked'[key] = Int32Max
      BY DEF Clear
    <3> QED
      BY <1>5, <1>6, <3>1 DEF WordsLeast
  <2>2. ChoicesMarked'
    <3>1. \A key \in Keys : kmask'[key] = {}
      BY DEF Clear
    <3> QED
      BY <1>5, <1>6, <3>1 DEF ChoicesMarked
  <2>3. RowsStored'
    BY <1>5, <1>6 DEF RowsStored
  <2> QED
    BY <2>1, <2>2, <2>3 DEF Tables
<1>8. Quiet'
  <2>1. dupCounts'.groups = 0 /\ dupCounts'.loffs = 0 /\ \A g \in Rows : dupGroups'[g] = NoGroup
    BY DEF Clear
  <2>2. \A g \in Rows : ~Recorded(g)'
    BY <2>1 DEF Recorded, NoGroup
  <2> QED
    BY <1>1, <2>1, <2>2 DEF Quiet, InPass2
<1> QED
  BY <1>2, <1>3, <1>7, <1>8, QuietPlanNext DEF MInv

LEMMA EndMInv == ASSUME MInv, EndKernel, DInv' PROVE MInv'
<1>1. /\ \A c \in CTAs : loff[c] >= NvS /\ loff[c] \in Nat
      /\ stage \in {"pass1", "pass2"} /\ stage' = IF stage = "pass1" THEN "pass2" ELSE "built"
      /\ loff' = [c \in CTAs |-> c] /\ step' = [c \in CTAs |-> "row"]
      /\ UNCHANGED <<srcInfo, primaryPacked, kmask, kidxToLoff, dupGroups, dupLoffs, dupCounts>>
  BY DEF EndKernel, scratch, dupPlan, MInv, DInv, BuilderTypeOK
<1>2. DInv /\ TablesTypeOK /\ RowsApart /\ Tables /\ Plan
  BY DEF MInv
<1>3. \A c \in CTAs : step[c] = "row"
  <2> SUFFICES ASSUME NEW c \in CTAs, step[c] # "row" PROVE FALSE
    OBVIOUS
  <2>1. loff[c] \in Rows
    BY <1>2 DEF RowsApart, Sent
  <2> QED
    BY <1>1, <2>1, NvSNat DEF Rows
<1>4. ASSUME NEW l \in Rows, NEW S PROVE Beyond(l, S)
  <2>1. Hand(l) \in CTAs /\ l \in Nat
    BY HandFacts, NvSNat DEF Rows
  <2>2. l < NvS
    BY NvSNat DEF Rows
  <2> QED
    BY <1>1, <2>1, <2>2, NvSNat DEF Beyond
<1>5. TablesTypeOK'
  BY <1>1, <1>2 DEF TablesTypeOK
<1>6. RowsApart'
  <2>1. \A c \in CTAs : loff'[c] = c /\ step'[c] = "row" /\ Hand(c) = c
    BY <1>1, HandFacts
  <2> QED
    BY <1>1, <2>1 DEF RowsApart, Hand
<1>7. Tables'
  <2>1. \A l \in Rows : \A S : InPass1(l, S) /\ InPass1(l, S)'
    BY <1>1, <1>4 DEF InPass1
  <2>2. Sent \subseteq Rows
    BY DEF Sent
  <2> QED
    BY <1>1, <1>2, <2>1, <2>2, TablesKept
<1>8. Plan'
  <2>1. CASE stage = "pass1"
    <3>1. Quiet
      BY <1>2, <2>1, QuietBefore
    <3>2. ASSUME NEW l \in Rows, NEW S, "row" \notin S PROVE ~InPass2(l, S)'
      <4>1. PICK h \in CTAs : h = Hand(l) /\ h <= l /\ l \in Nat
        BY HandFacts, NvSNat DEF Rows
      <4>2. h \in Nat
        BY SMsAssumption DEF CTAs
      <4>3. InPass2(l, S)' <=> l < loff'[h] \/ (loff'[h] = l /\ step'[h] \in S)
        BY <1>1, <2>1, <4>1 DEF InPass2, Beyond, Hand
      <4>4. ~(l < h)
        BY <4>1, <4>2
      <4> QED
        BY <1>1, <3>2, <4>3, <4>4
    <3>3. \A l \in Rows : /\ ~InPass2(l, {"places", "record", "fill"})'
                          /\ ~InPass2(l, {"record", "fill"})' /\ ~InPass2(l, {"fill"})'
      BY <3>2
    <3>4. Quiet'
      BY <1>1, <3>1, <3>3 DEF Quiet, Recorded
    <3> QED
      BY <3>4, QuietPlanNext
  <2>2. CASE stage = "pass2"
    <3>1. \A l \in Rows : \A S : InPass2(l, S) /\ InPass2(l, S)'
      BY <1>1, <1>4, <2>2 DEF InPass2
    <3>2. SameLeads
      BY <3>1 DEF SameLeads
    <3>3. \A c \in CTAs : /\ step'[c] = step[c]
                          /\ step[c] # "row" => loff'[c] = loff[c] /\ mine'[c] = mine[c]
      BY <1>1, <1>3
    <3>4. Frozen /\ UNCHANGED dupPlan /\ stage' # "pass2"
      BY <1>1, <2>2 DEF Frozen, dupPlan
    <3> QED
      BY <1>2, <1>3, <2>2, <3>2, <3>3, <3>4, PlanKept
  <2> QED
    BY <1>1, <2>1, <2>2
<1> QED
  BY <1>5, <1>6, <1>7, <1>8 DEF MInv

LEMMA SkipMInv ==
    ASSUME MInv, NEW c \in CTAs, SkipRow(c)
    PROVE  TablesTypeOK' /\ Tables' /\ Plan'
<1>1. PICK r : r = loff[c]
  OBVIOUS
<1>2. /\ stage \in {"pass1", "pass2"} /\ stage' = stage /\ r \in Rows /\ r \notin Sent
      /\ NextRow(c) /\ UNCHANGED <<srcInfo, scratch, dupPlan, mine>>
  BY <1>1, InRow DEF SkipRow, Sent, MInv, DInv, BuilderTypeOK
<1>3. DInv /\ TablesTypeOK /\ RowsApart /\ Tables /\ Plan
  BY DEF MInv
<1>4. UNCHANGED <<primaryPacked, kmask, kidxToLoff, dupGroups, dupLoffs, dupCounts>>
  BY <1>2 DEF scratch, dupPlan
<1>5. TablesTypeOK'
  BY <1>3, <1>4 DEF TablesTypeOK
<1>6. Tables'
  <2>1. \A l \in Sent : l \in Rows /\ l # r
    BY <1>2 DEF Sent
  <2>2. CASE stage = "pass1"
    <3>1. \A l \in Sent : /\ InPass1(l, {"mark", "store"})' <=> InPass1(l, {"mark", "store"})
                          /\ InPass1(l, {"store"})' <=> InPass1(l, {"store"})
                          /\ InPass1(l, {})' <=> InPass1(l, {})
      BY <1>1, <1>2, <1>3, <2>1, <2>2, Pass1Moves
    <3> QED
      BY <1>2, <1>3, <1>4, <2>2, <3>1, TablesKept
  <2>3. CASE stage = "pass2"
    <3>1. \A l, S : InPass1(l, S) /\ InPass1(l, S)'
      BY <1>2, <2>3 DEF InPass1
    <3> QED
      BY <1>2, <1>3, <1>4, <2>3, <3>1, TablesKept
  <2> QED
    BY <1>2, <2>2, <2>3
<1>7. Plan'
  <2>1. CASE stage = "pass1"
    <3>1. Quiet'
      BY <1>2, <1>3, <1>4, <2>1, QuietBefore, QuietStays
    <3> QED
      BY <3>1, QuietPlanNext
  <2>2. CASE stage = "pass2"
    <3>1. step[c] = "row" /\ ~Leads(r)
      BY <1>1, <1>2, <1>3 DEF RowsApart, Leads
    <3> QED
      BY <1>1, <1>2, <1>3, <2>2, <3>1, PassedBy
  <2> QED
    BY <1>2, <2>1, <2>2
<1> QED
  BY <1>5, <1>6, <1>7

LEMMA NextMInv == MInv /\ [Next]_vars => MInv'
<1> SUFFICES ASSUME MInv, [Next]_vars PROVE MInv'
  OBVIOUS
<1>1. DInv /\ TablesTypeOK /\ RowsApart /\ Tables /\ Plan /\ DInv'
  BY NextDInv DEF MInv
<1>2. CASE Clear
  BY <1>1, <1>2, ClearMInv
<1>3. CASE EndKernel
  BY <1>1, <1>3, EndMInv
<1>4. ASSUME NEW c \in CTAs, CTA(c) PROVE MInv'
  <2>1. Moves(c) /\ RowsApart'
    BY <1>1, <1>4, CTAMoves, MoveApart
  <2>2. CASE SkipRow(c)
    BY <1>1, <2>1, <2>2, SkipMInv DEF MInv
  <2>3. CASE TakePrimary(c) \/ MarkChoice(c) \/ StoreRow(c)
    <3>1. TablesTypeOK' /\ Tables'
      BY <1>1, <2>3, PrimaryTables, MarkTables, StoreTables
    <3>2. stage = "pass1" /\ stage' = "pass1" /\ UNCHANGED <<dupGroups, dupCounts>>
      BY <2>3 DEF TakePrimary, MarkChoice, StoreRow, In, dupPlan
    <3>3. Plan'
      BY <1>1, <3>2, QuietBefore, QuietStays, QuietPlanNext
    <3> QED
      BY <1>1, <2>1, <3>1, <3>3 DEF MInv
  <2>4. CASE PassBy(c) \/ TakeGroup(c) \/ TakePlaces(c) \/ RecordGroup(c) \/ FillPlace(c)
    <3>1. stage = "pass2" /\ stage' = "pass2" /\ UNCHANGED <<srcInfo, primaryPacked, kmask, kidxToLoff>>
      BY <2>4 DEF PassBy, TakeGroup, TakePlaces, RecordGroup, FillPlace, In, scratch
    <3>2. \A l, S : InPass1(l, S) /\ InPass1(l, S)'
      BY <3>1 DEF InPass1
    <3>3. Tables'
      BY <1>1, <3>1, <3>2, TablesKept
    <3>4. CASE PassBy(c)
      <4>1. /\ In(c, "pass2", "row") /\ ~LeadsGroup(c) /\ NextRow(c)
            /\ UNCHANGED <<stage, srcInfo, scratch, dupPlan, mine>> /\ dupLoffs' = dupLoffs
        BY <3>4 DEF PassBy, dupPlan
      <4>2. stage = "pass2" /\ step[c] = "row" /\ loff[c] \in Rows /\ ~Leads(loff[c])
        BY <1>1, <4>1, AtRow
      <4>3. Plan'
        BY <1>1, <4>1, <4>2, PassedBy
      <4>4. TablesTypeOK'
        BY <1>1, <3>1, <4>1 DEF TablesTypeOK
      <4> QED
        BY <1>1, <2>1, <3>3, <4>3, <4>4 DEF MInv
    <3>5. CASE TakeGroup(c) \/ TakePlaces(c) \/ RecordGroup(c)
      <4>1. Plan'
        BY <1>1, <3>5, GroupTaken, PlacesAdded, GroupRecorded
      <4>2. dupLoffs' = dupLoffs
        BY <3>5 DEF TakeGroup, TakePlaces, RecordGroup
      <4>3. TablesTypeOK'
        BY <1>1, <3>1, <4>2 DEF TablesTypeOK
      <4> QED
        BY <1>1, <2>1, <3>3, <4>1, <4>3 DEF MInv
    <3>6. CASE FillPlace(c)
      <4>1. Plan' /\ dupLoffs' \in [Rows -> Nat]
        BY <1>1, <3>6, PlaceFilled
      <4>2. TablesTypeOK'
        BY <1>1, <3>1, <4>1 DEF TablesTypeOK
      <4> QED
        BY <1>1, <2>1, <3>3, <4>1, <4>2 DEF MInv
    <3> QED
      BY <2>4, <3>4, <3>5, <3>6
  <2> QED
    BY <1>4, <2>2, <2>3, <2>4 DEF CTA
<1>5. CASE UNCHANGED vars
  <2>1. /\ UNCHANGED <<srcInfo, stage, primaryPacked, kmask, kidxToLoff, dupGroups, dupLoffs>>
        /\ UNCHANGED <<dupCounts, loff, step, mine>>
    BY <1>5 DEF vars, scratch, dupPlan, ctaVars
  <2>2. \A l, S : (InPass1(l, S)' <=> InPass1(l, S)) /\ (InPass2(l, S)' <=> InPass2(l, S))
    BY <2>1 DEF InPass1, InPass2, Beyond, Hand
  <2>3. TablesTypeOK' /\ RowsApart'
    BY <1>1, <2>1 DEF TablesTypeOK, RowsApart, Hand, Sent
  <2>4. Tables'
    <3>1. CASE stage = "idle"
      BY <2>1, <3>1 DEF Tables
    <3>2. CASE stage # "idle"
      BY <1>1, <2>1, <2>2, <3>2, TablesKept
    <3> QED
      BY <3>1, <3>2
  <2>5. Plan'
    <3>1. CASE stage \in {"idle", "pass1"}
      BY <1>1, <2>1, <3>1, QuietBefore, QuietStays, QuietPlanNext
    <3>2. CASE stage \in {"pass2", "built"}
      <4>1. SameLeads /\ Frozen /\ UNCHANGED dupPlan
        BY <2>1, <2>2 DEF SameLeads, Frozen, dupPlan
      <4> QED
        BY <1>1, <2>1, <3>2, <4>1, PlanKept
    <3> QED
      BY <1>1, <3>1, <3>2 DEF RowsApart
  <2> QED
    BY <1>1, <2>3, <2>4, <2>5 DEF MInv
<1> QED
  BY <1>2, <1>3, <1>4, <1>5 DEF Next
-----------------------------------------------------------------------------
(* What the groups and the places hold when the map is built.                *)
LEMMA AllRecorded ==
    ASSUME MInv, stage = "built"
    PROVE  \A g \in 0 .. (dupCounts.groups - 1) :
               g \in Rows /\ Recorded(g) /\ dupGroups[g][1] \in Rows /\ Leads(dupGroups[g][1])
<1>1. GroupsApart /\ GroupsAll
  BY DEF MInv, Plan
<1>2. \A g \in 0 .. (dupCounts.groups - 1) : Recorded(g)
  BY <1>1 DEF GroupsAll, Unrecorded
<1> QED
  BY <1>1, <1>2 DEF GroupsApart, Recorded

\* Each place of a group holds the row of one of its duplicates.
LEMMA PlacesHold ==
    ASSUME MInv, stage = "built", NEW g \in Rows, NEW l \in Rows, Recorded(g), dupGroups[g][1] = l
    PROVE  /\ \A p \in PlacesOf(g) : \E k \in DupsAt(l) : p = dupGroups[g][2] + Rank(DupsAt(l), k)
           /\ \A k \in DupsAt(l) :
                  /\ dupGroups[g][2] + Rank(DupsAt(l), k) \in PlacesOf(g)
                  /\ dupLoffs[dupGroups[g][2] + Rank(DupsAt(l), k)] = kidxToLoff[<<KeyAt(l), k>>]
<1>1. DInv /\ TablesTypeOK /\ Tables /\ Taken /\ GroupsApart /\ InOrder
  BY DEF MInv, Plan
<1>2. PICK s, D : s = dupGroups[g][2] /\ D = DupsAt(l)
  OBVIOUS
<1>3. /\ l \in Sent /\ s \in Nat /\ PlacesOf(g) = s .. (s + Cardinality(D) - 1)
      /\ \A k \in D : s + Rank(D, k) \in PlacesOf(g)
  BY <1>1, <1>2, PlaceIn
<1>4. D \subseteq Nat /\ IsFiniteSet(D) /\ Cardinality(D) \in Nat
  BY <1>1, <1>2, <1>3, Duplicated
<1>5. ASSUME NEW p \in PlacesOf(g) PROVE \E k \in D : p = s + Rank(D, k)
  <2>1. p - s \in 0 .. (Cardinality(D) - 1) /\ p = s + (p - s)
    BY <1>3, <1>4
  <2>2. PICK k \in D : Rank(D, k) = p - s
    BY <1>4, <2>1, RankTaken
  <2> QED
    BY <2>1, <2>2
<1>6. LeftOf(l) = {}
  BY DEF LeftOf
<1>7. \A k \in D : dupLoffs[s + Rank(D, k)] = kidxToLoff[<<KeyAt(l), k>>]
  BY <1>1, <1>2, <1>6 DEF InOrder
<1> QED
  BY <1>2, <1>3, <1>5, <1>7

LEMMA SumOrderHolds == MInv => SumOrder
<1> SUFFICES ASSUME MInv, stage = "built", NEW g \in 0 .. (dupCounts.groups - 1),
                    NEW p \in PlacesOf(g), NEW q \in PlacesOf(g), p < q
             PROVE  KidxOf(srcInfo[dupLoffs[p]]) < KidxOf(srcInfo[dupLoffs[q]])
  BY DEF SumOrder
<1>1. PICK l \in Rows : g \in Rows /\ Recorded(g) /\ dupGroups[g][1] = l /\ Leads(l)
  BY AllRecorded
<1>2. PICK s, D : s = dupGroups[g][2] /\ D = DupsAt(l)
  OBVIOUS
<1>3. PICK j \in D, k \in D : /\ p = s + Rank(D, j) /\ q = s + Rank(D, k)
                              /\ dupLoffs[p] = kidxToLoff[<<KeyAt(l), j>>]
                              /\ dupLoffs[q] = kidxToLoff[<<KeyAt(l), k>>]
  BY <1>1, <1>2, PlacesHold
<1>4. DInv /\ TablesTypeOK /\ Tables /\ l \in Sent
  BY <1>1 DEF MInv, Leads
<1>5. D \subseteq Nat /\ IsFiniteSet(D) /\ KidxAt(dupLoffs[p]) = j /\ KidxAt(dupLoffs[q]) = k
  BY <1>2, <1>3, <1>4, Duplicated
<1>6. s \in Nat
  BY <1>1, <1>2, <1>4 DEF DInv, BuilderTypeOK
<1>7. j < k
  <2>1. ASSUME NEW x \in D PROVE Rank(D, x) \in Int
    <3>1. IsFiniteSet({y \in D : y < x})
      BY <1>5, FS_Subset
    <3> QED
      BY <3>1, FS_CardinalityType DEF Rank
  <2>2. Rank(D, j) < Rank(D, k)
    <3>1. PICK a, b : a = Rank(D, j) /\ b = Rank(D, k) /\ a \in Int /\ b \in Int
      BY <2>1
    <3> QED
      BY <1>3, <1>6, <3>1
  <2>3. j # k
    BY <2>1, <2>2
  <2>4. ~(k < j)
    <3> SUFFICES ASSUME k < j PROVE FALSE
      OBVIOUS
    <3>1. Rank(D, k) < Rank(D, j)
      BY <1>5, RankFacts
    <3> QED
      BY <2>1, <2>2, <3>1
  <2>5. j \in Nat /\ k \in Nat
    BY <1>5
  <2> QED
    BY <2>3, <2>4, <2>5
<1> QED
  BY <1>5, <1>7 DEF KidxAt

\* The prologue's sums: under every order of the atomics and for every src_info, a
\* group's duplicates lie in the order of their choices, so that the rounded sum of
\* a token's gradients does not depend on the schedule.
THEOREM SumsInOrder == Spec => []SumOrder
<1> QED
  BY InitMInv, NextMInv, SumOrderHolds, PTL DEF Spec
-----------------------------------------------------------------------------
(* The map is the one that DupMap promises.                                  *)
SameToken(l) == {m \in Sent : KeyAt(m) = KeyAt(l)}

\* A row leads a group if it has the least choice of its token, and is not alone.
LEMMA LeadsLeast ==
    ASSUME MInv, stage = "built", NEW l \in Sent
    PROVE  /\ Leads(l) <=> /\ \A m \in SameToken(l) : KidxAt(l) <= KidxAt(m)
                           /\ SameToken(l) # {l}
           /\ Leads(l) => \A m \in Sent : m \in SameToken(l) \ {l} <=>
                              KeyAt(m) = KeyAt(l) /\ KidxAt(m) \in DupsAt(l)
<1>1. DInv /\ TablesTypeOK /\ Tables
  BY DEF MInv
<1>2. PICK p : p = PrimaryAt(l)
  OBVIOUS
<1>3. p \in Sent /\ KeyAt(p) = KeyAt(l) /\ KidxAt(p) \notin DupsAt(l)
  BY <1>1, <1>2, Static, Duplicated
<1>4. \A m \in Sent : KidxAt(m) \in Kidxs /\ KidxAt(m) \in Nat /\ m \in Rows
  <2>1. Kidxs \subseteq Nat
    BY TokensAssumption DEF Kidxs
  <2> QED
    BY <1>1, <2>1, SentFacts DEF DInv
<1>5. ASSUME NEW m \in SameToken(l) PROVE KidxAt(p) <= KidxAt(m)
  <2>1. m \in Sent /\ KeyAt(m) = KeyAt(l)
    BY DEF SameToken
  <2>2. PrimaryAt(m) = p
    BY <1>1, <1>2, <2>1, Duplicated
  <2>3. WordAt(p) <= WordAt(m)
    BY <1>1, <2>1, <2>2, Static
  <2> QED
    BY <1>3, <1>4, <2>1, <2>3, PackedOrder DEF WordAt
<1>6. \A m \in Sent : KeyAt(m) = KeyAt(l) /\ m # p => KidxAt(m) \in DupsAt(l)
  BY <1>1, <1>2, Duplicated
<1>7. ASSUME Leads(l)
      PROVE  /\ \A m \in SameToken(l) : KidxAt(l) <= KidxAt(m)
             /\ SameToken(l) # {l}
             /\ \A m \in Sent : m \in SameToken(l) \ {l} <=>
                    KeyAt(m) = KeyAt(l) /\ KidxAt(m) \in DupsAt(l)
  <2>1. l = p /\ DupsAt(l) # {}
    BY <1>2, <1>7 DEF Leads
  <2>2. \A m \in Sent : m \in SameToken(l) \ {l} <=>
            KeyAt(m) = KeyAt(l) /\ KidxAt(m) \in DupsAt(l)
    BY <1>3, <1>6, <2>1 DEF SameToken
  <2>3. PICK k \in DupsAt(l) : TRUE
    BY <2>1
  <2>4. PICK m \in Sent : KeyAt(m) = KeyAt(l) /\ KidxAt(m) = k
    BY <1>1, Duplicated
  <2>5. m \in SameToken(l) \ {l}
    BY <2>2, <2>4
  <2> QED
    BY <1>5, <2>1, <2>2, <2>5
<1>8. ASSUME \A m \in SameToken(l) : KidxAt(l) <= KidxAt(m), SameToken(l) # {l}
      PROVE  Leads(l)
  <2>1. l \in SameToken(l) /\ p \in SameToken(l)
    BY <1>3 DEF SameToken
  <2>2. KidxAt(l) = KidxAt(p)
    BY <1>3, <1>4, <1>5, <1>8, <2>1
  <2>3. l = p
    BY <1>1, <1>3, <2>2, SentFacts DEF DInv
  <2>4. PICK m \in SameToken(l) : m # l
    BY <1>8, <2>1
  <2>5. KidxAt(m) \in DupsAt(l)
    BY <1>6, <2>3, <2>4 DEF SameToken
  <2> QED
    BY <1>2, <2>3, <2>5 DEF Leads
<1> QED
  BY <1>7, <1>8

BuildsRight == stage = "built" => GroupsBuilt = DupGroups(srcInfo)

LEMMA BuiltRight == MInv => BuildsRight
<1> SUFFICES ASSUME MInv, stage = "built" PROVE GroupsBuilt = DupGroups(srcInfo)
  BY DEF BuildsRight
<1>1. DInv /\ TablesTypeOK /\ Tables /\ GroupsApart /\ GroupsAll /\ BuilderTypeOK
  BY DEF MInv, Plan, DInv
<1> DEFINE Group(l) == [primary |-> l, rows |-> SameToken(l) \ {l}]
<1>2. DupGroups(srcInfo) = {Group(l) : l \in {p \in Sent : Leads(p)}}
  <2> DEFINE same(l) == {m \in Sent :
                            /\ SourceRank(srcInfo[m]) = SourceRank(srcInfo[l])
                            /\ TokenOf(SourceEntry(srcInfo[m])) = TokenOf(SourceEntry(srcInfo[l]))}
             choice(l) == ChoiceOf(SourceEntry(srcInfo[l]))
             primaries == {l \in Sent : \A m \in same(l) : choice(l) <= choice(m)}
  <2>1. DupGroups(srcInfo) = {[primary |-> l, rows |-> same(l) \ {l}] :
                                  l \in {p \in primaries : same(p) # {p}}}
    BY DEF DupGroups, Sent
  <2>2. ASSUME NEW l \in Sent PROVE same(l) = SameToken(l)
    BY <1>1, SentFacts DEF SameToken
  <2>3. \A l : choice(l) = KidxAt(l)
    BY DEF KidxAt, KidxOf
  <2> HIDE DEF same, choice
  <2>4. \A l \in Sent : l \in primaries /\ same(l) # {l} <=> Leads(l)
    BY <2>2, <2>3, LeadsLeast
  <2>5. {p \in primaries : same(p) # {p}} = {p \in Sent : Leads(p)}
    BY <2>4
  <2> HIDE DEF primaries
  <2>6. \A l \in {p \in Sent : Leads(p)} : same(l) = SameToken(l)
    BY <2>2
  <2> QED
    BY <2>1, <2>5, <2>6
<1>3. ASSUME NEW g \in Rows, NEW l \in Rows, Recorded(g), dupGroups[g][1] = l
      PROVE  {dupLoffs[p] : p \in PlacesOf(g)} = SameToken(l) \ {l}
  <2>1. Leads(l) /\ l \in Sent
    BY <1>1, <1>3 DEF GroupsApart, Leads
  <2>2. \A m \in Sent : m \in SameToken(l) \ {l} <=> KeyAt(m) = KeyAt(l) /\ KidxAt(m) \in DupsAt(l)
    BY <2>1, LeadsLeast
  <2>3. ASSUME NEW p \in PlacesOf(g) PROVE dupLoffs[p] \in SameToken(l) \ {l}
    <3>1. PICK k \in DupsAt(l) : dupLoffs[p] = kidxToLoff[<<KeyAt(l), k>>]
      BY <1>3, PlacesHold
    <3>2. PICK m : m = dupLoffs[p]
      OBVIOUS
    <3>3. m \in Sent /\ KeyAt(m) = KeyAt(l) /\ KidxAt(m) = k
      BY <1>1, <2>1, <3>1, <3>2, Duplicated
    <3> QED
      BY <2>2, <3>2, <3>3
  <2>4. ASSUME NEW m \in SameToken(l) \ {l} PROVE \E p \in PlacesOf(g) : dupLoffs[p] = m
    <3>1. m \in Sent /\ KeyAt(m) = KeyAt(l) /\ KidxAt(m) \in DupsAt(l)
      BY <2>2 DEF SameToken
    <3>2. kidxToLoff[<<KeyAt(m), KidxAt(m)>>] = m
      BY <1>1, <3>1, Static
    <3> QED
      BY <1>3, <3>1, <3>2, PlacesHold
  <2> QED
    BY <2>3, <2>4
<1>4. ASSUME NEW x \in GroupsBuilt PROVE x \in {Group(l) : l \in {p \in Sent : Leads(p)}}
  <2>1. PICK g \in 0 .. (dupCounts.groups - 1) :
            x = [primary |-> dupGroups[g][1], rows |-> {dupLoffs[p] : p \in PlacesOf(g)}]
    BY DEF GroupsBuilt
  <2>2. PICK l \in Rows : g \in Rows /\ Recorded(g) /\ dupGroups[g][1] = l /\ Leads(l)
    BY AllRecorded
  <2>3. x = Group(l)
    BY <1>3, <2>1, <2>2
  <2> QED
    BY <2>2, <2>3 DEF Leads
<1>5. ASSUME NEW x \in {Group(l) : l \in {p \in Sent : Leads(p)}} PROVE x \in GroupsBuilt
  <2>1. PICK l \in Sent : Leads(l) /\ x = Group(l)
    OBVIOUS
  <2>2. l \in Rows /\ InPass2(l, {"fill"})
    BY DEF Sent, InPass2
  <2>3. PICK g \in Rows : Recorded(g) /\ dupGroups[g][1] = l
    BY <1>1, <2>1, <2>2 DEF GroupsAll
  <2>4. x = [primary |-> dupGroups[g][1], rows |-> {dupLoffs[p] : p \in PlacesOf(g)}]
    BY <1>3, <2>1, <2>2, <2>3
  <2>5. g \in 0 .. (dupCounts.groups - 1)
    <3>1. g < dupCounts.groups /\ dupCounts.groups \in Nat /\ g \in Nat
      BY <1>1, <2>3, NvSNat DEF GroupsApart, BuilderTypeOK, Rows
    <3> QED
      BY <3>1
  <2> QED
    BY <2>4, <2>5 DEF GroupsBuilt
<1> QED
  BY <1>2, <1>4, <1>5

\* Every step of the builder is a step of DupMap or leaves what DupMap sees alone.
LEMMA MapsNext ==
    MInv /\ BuildsRight' /\ [Next]_vars => [Abstract!Next]_(Abstract!vars)
<1> SUFFICES ASSUME MInv, BuildsRight', [Next]_vars PROVE [Abstract!Next]_(Abstract!vars)
  OBVIOUS
<1>1. CASE Clear
  <2>1. stage \in {"idle", "built"} /\ srcInfo' \in Infos /\ stage' = "pass1"
    BY <1>1 DEF Clear
  <2>2. Abstract!Request
    BY <2>1 DEF Abstract!Request
  <2> QED
    BY <2>2 DEF Abstract!Next
<1>2. CASE EndKernel
  <2>1. stage \in {"pass1", "pass2"} /\ srcInfo' = srcInfo
        /\ stage' = IF stage = "pass1" THEN "pass2" ELSE "built"
    BY <1>2 DEF EndKernel
  <2>2. CASE stage = "pass1"
    BY <2>1, <2>2 DEF Abstract!vars
  <2>3. CASE stage = "pass2"
    <3>1. stage' = "built" /\ GroupsBuilt' = DupGroups(srcInfo)
      <4>1. stage' = "built" /\ DupGroups(srcInfo)' = DupGroups(srcInfo)
        BY <2>1, <2>3 DEF DupGroups
      <4> QED
        BY <4>1 DEF BuildsRight
    <3>2. Abstract!DupGroups(srcInfo) = DupGroups(srcInfo)
      BY DEF Abstract!DupGroups, DupGroups, Abstract!SourceRank, SourceRank,
             Abstract!SourceEntry, SourceEntry, Abstract!TokenOf, TokenOf, Abstract!ChoiceOf, ChoiceOf,
             Abstract!Rows, Rows, Abstract!None, None, Abstract!NvS, NvS
    <3>3. Abstract!Build
      BY <2>1, <2>3, <3>1, <3>2 DEF Abstract!Build
    <3> QED
      BY <3>3 DEF Abstract!Next
  <2> QED
    BY <2>1, <2>2, <2>3
<1>3. ASSUME NEW c \in CTAs, CTA(c) PROVE UNCHANGED Abstract!vars
  <2>1. stage \in {"pass1", "pass2"} /\ UNCHANGED <<srcInfo, stage>>
    BY <1>3, CTAMoves DEF MInv, Moves
  <2> QED
    BY <2>1 DEF Abstract!vars
<1>4. CASE UNCHANGED vars
  <2>1. UNCHANGED <<srcInfo, stage, dupGroups, dupLoffs, dupCounts>>
    BY <1>4 DEF vars, dupPlan
  <2>2. GroupsBuilt' = GroupsBuilt
    BY <2>1 DEF GroupsBuilt, PlacesOf
  <2> QED
    BY <2>1, <2>2 DEF Abstract!vars
<1> QED
  BY <1>1, <1>2, <1>3, <1>4 DEF Next

\* dedup_init_kernel, dedup_pass1_kernel and dedup_pass2_kernel build exactly the
\* groups of the duplicates of src_info, whatever the scratch arrays held before and
\* in whatever order the atomics fall: the safety part of ImplementsDupMap.
THEOREM BuildsDupMap == Spec => Abstract!Init /\ [][Abstract!Next]_(Abstract!vars)
<1>1. Init => Abstract!Init
  BY DEF Init, Abstract!Init
<1> QED
  BY <1>1, InitMInv, NextMInv, BuiltRight, MapsNext, PTL DEF Spec
=============================================================================
