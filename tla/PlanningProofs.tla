--------------------------- MODULE PlanningProofs ---------------------------
(***************************************************************************)
(* For every number of ranks, of rounds, and every routing, and whichever  *)
(* ranks are given all counts in a round: ranks that wait for each other in*)
(* barriers only plan with the counts of their own round, and nobody stores*)
(* into src_info while its rank may read it.                               *)
(*                                                                         *)
(* The plans they come to fit together.  A layout is tiles laid one after  *)
(* the other, of ranks in the order of an expert's tokens and of segments  *)
(* in a buffer: every token of an expert is dealt to one rank and one row  *)
(* of its segment there, and every row of a segment but its padding is     *)
(* dealt once.  So what module GlobalPlan says of the plans holds of those *)
(* that the ranks have made when all of them are done with a round, and    *)
(* src_info is the inverse of their destinations.                          *)
(*                                                                         *)
(* The argument about planning is made over the places of the ranks, so it *)
(* serves module EPBuffer, which plans with more barriers in between.      *)
(* From there: a rank writes rows of its peers in the scatter of a dispatch*)
(* that all of them are in, each row has the token of the entry that       *)
(* planning sends there, and the sums that a combine gathers add up to the *)
(* results of all entries of a token.                                      *)
(***************************************************************************)
EXTENDS EPBuffer, GlobalPlan, PlanAllocProofs

-----------------------------------------------------------------------------
(* Tiles laid one after the other from 0: the first rows and the rows after *)
(* the last of tiles 0 .. n.                                                *)

Laid(n, first, after) ==
    /\ n \in Nat
    /\ \A i \in 0 .. n : first[i] \in Nat /\ after[i] \in Nat /\ first[i] <= after[i]
    /\ first[0] = 0
    /\ \A i \in 1 .. n : first[i] = after[i - 1]

\* A later tile begins where an earlier one has ended.
LEMMA LaidInOrder ==
    ASSUME NEW n, NEW first, NEW after, Laid(n, first, after),
           NEW i \in 0 .. n, NEW j \in 0 .. n, i < j
    PROVE  after[i] <= first[j]
<1> DEFINE G == {k \in Nat : i + 1 + k <= n => after[i] <= first[i + 1 + k]}
<1>1. n \in Nat /\ i \in Nat /\ j \in Nat
  BY DEF Laid
<1>2. 0 \in G
  <2> SUFFICES ASSUME i + 1 <= n PROVE after[i] <= first[i + 1]
    BY <1>1
  <2>1. i + 1 \in 1 .. n /\ (i + 1) - 1 = i
    BY <1>1
  <2>2. first[i + 1] = after[i] /\ after[i] \in Nat
    BY <1>1, <2>1 DEF Laid
  <2> QED
    BY <2>2
<1>3. ASSUME NEW k \in Nat, k \in G PROVE k + 1 \in G
  <2> SUFFICES ASSUME i + 1 + (k + 1) <= n PROVE after[i] <= first[i + 1 + (k + 1)]
    OBVIOUS
  <2>1. PICK m : m = i + 1 + k /\ m \in 0 .. n /\ m + 1 \in 1 .. n /\ (m + 1) - 1 = m
                 /\ m + 1 = i + 1 + (k + 1)
    BY <1>1
  <2>2. after[i] <= first[m]
    BY <1>3, <2>1
  <2>3. first[m + 1] = after[m] /\ first[m] <= after[m]
        /\ first[m] \in Nat /\ after[m] \in Nat /\ after[i] \in Nat
    BY <2>1 DEF Laid
  <2> QED
    BY <2>1, <2>2, <2>3
<1> HIDE DEF G
<1>4. PICK k \in Nat : j = i + 1 + k
  <2>1. j - i - 1 \in Nat /\ j = i + 1 + (j - i - 1)
    BY <1>1
  <2> QED
    BY <2>1
<1>5. k \in G
  BY <1>2, <1>3, NatInduct
<1> QED
  BY <1>1, <1>4, <1>5 DEF G

\* Each row before the end of the last tile lies in some tile.
LEMMA LaidCovers ==
    ASSUME NEW n, NEW first, NEW after, Laid(n, first, after),
           NEW l \in Nat, l < after[n]
    PROVE  \E i \in 0 .. n : first[i] <= l /\ l < after[i]
<1> DEFINE T == {i \in 0 .. n : l < after[i]}
<1>1. n \in Nat /\ n \in 0 .. n
  BY DEF Laid
<1>2. T \subseteq Nat /\ T # {}
  BY <1>1
<1>3. PICK i \in T : \A j \in T : i <= j
  <2> HIDE DEF T
  <2> QED
    BY <1>2, LeastOf
<1>4. i \in 0 .. n /\ l < after[i]
  OBVIOUS
<1>5. first[i] <= l
  <2>1. CASE i = 0
    BY <2>1 DEF Laid
  <2>2. CASE i # 0
    <3>1. i \in 1 .. n /\ i - 1 \in 0 .. n /\ ~(i <= i - 1)
      BY <1>1, <1>4, <2>2
    <3>2. i - 1 \notin T
      BY <1>3, <3>1
    <3>3. first[i] = after[i - 1] /\ after[i - 1] \in Nat
      BY <3>1 DEF Laid
    <3> QED
      BY <3>1, <3>2, <3>3
  <2> QED
    BY <2>1, <2>2
<1> QED
  BY <1>4, <1>5

\* The end of the last tile is the end of all.
LEMMA LaidWithin ==
    ASSUME NEW n, NEW first, NEW after, Laid(n, first, after), NEW i \in 0 .. n
    PROVE  after[i] <= after[n]
<1>1. n \in Nat /\ n \in 0 .. n /\ i \in Nat
  BY DEF Laid
<1>2. after[i] \in Nat /\ after[n] \in Nat /\ first[n] \in Nat /\ first[n] <= after[n]
  BY <1>1 DEF Laid
<1>3. CASE i = n
  BY <1>2, <1>3
<1>4. CASE i # n
  <2>1. i < n
    BY <1>1, <1>4
  <2>2. after[i] <= first[n]
    BY <1>1, <2>1, LaidInOrder
  <2> QED
    BY <1>2, <2>2
<1> QED
  BY <1>3, <1>4

\* The sums of the first values of f are laid one after the other.
SumsUpTo(n, f, first, after) ==
    /\ n \in Nat
    /\ \A i \in 0 .. n : f[i] \in Nat
    /\ \A i \in 0 .. n : first[i] = SumFunctionOnSet(f, 0 .. (i - 1))
    /\ \A i \in 0 .. n : after[i] = SumFunctionOnSet(f, 0 .. i)

LEMMA SumsLaid ==
    ASSUME NEW n, NEW f, NEW first, NEW after, SumsUpTo(n, f, first, after)
    PROVE  /\ Laid(n, first, after)
           /\ \A i \in 0 .. n : after[i] = first[i] + f[i]
<1> USE DEF SumsUpTo
<1>1. ASSUME NEW i \in 0 .. n
      PROVE  /\ first[i] \in Nat /\ after[i] \in Nat /\ after[i] = first[i] + f[i]
  <2>1. i \in Nat /\ 0 .. (i - 1) \subseteq 0 .. n /\ i \notin 0 .. (i - 1)
        /\ 0 .. i = (0 .. (i - 1)) \cup {i}
    OBVIOUS
  <2>2. IsFiniteSet(0 .. (i - 1))
    <3>1. i - 1 \in Int
      BY <2>1
    <3> QED
      BY <3>1, FS_Interval
  <2>3. /\ \A k \in 0 .. (i - 1) : f[k] \in Nat
        /\ \A k \in 0 .. (i - 1) : f[k] \in Int
        /\ f[i] \in Nat /\ f[i] \in Int
    BY <2>1
  <2>4. SumFunctionOnSet(f, 0 .. (i - 1)) \in Nat
    BY <2>2, <2>3, SumNat
  <2>5. SumFunctionOnSet(f, (0 .. (i - 1)) \cup {i}) = f[i] + SumFunctionOnSet(f, 0 .. (i - 1))
    BY <2>1, <2>2, <2>3, SumInsert
  <2>6. after[i] = SumFunctionOnSet(f, (0 .. (i - 1)) \cup {i})
    BY <2>1
  <2>7. first[i] = SumFunctionOnSet(f, 0 .. (i - 1))
    OBVIOUS
  <2> QED
    BY <2>3, <2>4, <2>5, <2>6, <2>7
<1>2. \A i \in 0 .. n : first[i] <= after[i]
  BY <1>1
<1>3. first[0] = 0
  <2>1. 0 \in 0 .. n /\ 0 .. (0 - 1) = {}
    OBVIOUS
  <2> QED
    BY <2>1, SumEmpty
<1>4. \A i \in 1 .. n : first[i] = after[i - 1]
  <2> SUFFICES ASSUME NEW i \in 1 .. n PROVE first[i] = after[i - 1]
    OBVIOUS
  <2>1. i \in 0 .. n /\ i - 1 \in 0 .. n
    OBVIOUS
  <2> QED
    BY <2>1
<1> QED
  BY <1>1, <1>2, <1>3, <1>4 DEF Laid

-----------------------------------------------------------------------------
(* The layout of the buffer of a rank. *)

LEMMA SizesNat ==
    /\ NumRanks \in Nat \ {0} /\ ExpertsPerRank \in Nat \ {0} /\ Cap \in Nat \ {0}
    /\ NumTokens \in Nat \ {0} /\ TopK \in Nat \ {0} /\ Cap = NumTokens * TopK
    /\ PrefetchSlots \in Nat /\ TokenPadding \in Nat \ {0}
    /\ NumExperts \in Nat \ {0} /\ Experts = 0 .. (NumExperts - 1)
    /\ NvS \in Nat /\ NvS >= Cap
<1>1. /\ NumRanks \in Nat \ {0} /\ ExpertsPerRank \in Nat \ {0} /\ Cap \in Nat \ {0}
      /\ NumTokens \in Nat \ {0} /\ TopK \in Nat \ {0} /\ Cap = NumTokens * TopK
      /\ PrefetchSlots \in Nat /\ TokenPadding \in Nat \ {0}
  BY NumRanksAssumption, ExpertsPerRankAssumption, CapAssumption, TokensAssumption,
     CapIsEntries, PrefetchAssumption, PaddingAssumption
<1>2. NumRanks * ExpertsPerRank \in Nat \ {0}
  BY <1>1
<1>3. PICK p \in Nat : p = TokenPadding - 1
  BY <1>1
<1>4. p * 2 * ExpertsPerRank \in Nat
  BY <1>1
<1> QED
  BY <1>1, <1>2, <1>3, <1>4 DEF NumExperts, Experts, NvS

LEMMA RemoteFinite ==
    ASSUME NEW a, NEW d, NEW e
    PROVE  /\ IsFiniteSet(RemoteExperts(a, d)) /\ RemoteExperts(a, d) \subseteq Experts
           /\ IsFiniteSet(SortedBefore(a, d, e)) /\ Cardinality(SortedBefore(a, d, e)) \in Nat
           /\ SortedBefore(a, d, e) \subseteq RemoteExperts(a, d)
<1>1. RemoteExperts(a, d) \subseteq Experts
  BY DEF RemoteExperts
<1>2. SortedBefore(a, d, e) \subseteq RemoteExperts(a, d)
  BY DEF SortedBefore
<1>3. IsFiniteSet(RemoteExperts(a, d))
  BY <1>1, ExpertsFinite, FS_Subset
<1>4. IsFiniteSet(SortedBefore(a, d, e))
  BY <1>2, <1>3, FS_Subset
<1> QED
  BY <1>1, <1>2, <1>3, <1>4, FS_CardinalityType

\* No expert is in two slots.
LEMMA CopiedOnce ==
    ASSUME NEW a, NEW d, NEW copied, copied = ExpertsToCopy(a, d)
    PROVE  /\ copied \in [0 .. (PrefetchSlots - 1) -> Experts \cup {None}]
           /\ \A b \in 0 .. (PrefetchSlots - 1) :
                  copied[b] # None =>
                      /\ copied[b] \in RemoteExperts(a, d)
                      /\ Cardinality(SortedBefore(a, d, copied[b])) = b
<1> DEFINE at(b) == {e \in RemoteExperts(a, d) : Cardinality(SortedBefore(a, d, e)) = b}
           Slotted == 0 .. (PrefetchSlots - 1)
<1>1. copied = [b \in Slotted |-> IF at(b) = {} THEN None ELSE CHOOSE e \in at(b) : TRUE]
  BY DEF ExpertsToCopy
<1>2. ASSUME NEW b \in Slotted
      PROVE  copied[b] = None \/ copied[b] \in at(b)
  <2>1. CASE at(b) = {}
    BY <1>1, <2>1
  <2>2. CASE at(b) # {}
    <3>1. copied[b] = CHOOSE e \in at(b) : TRUE
      BY <1>1, <2>2
    <3> QED
      BY <2>2, <3>1
  <2> QED
    BY <2>1, <2>2
<1>3. \A b \in Slotted : at(b) \subseteq Experts
  BY RemoteFinite
<1>4. copied \in [Slotted -> Experts \cup {None}]
  <2>1. \A b \in Slotted : copied[b] \in Experts \cup {None}
    BY <1>2, <1>3
  <2> QED
    BY <1>1, <2>1
<1>5. ASSUME NEW b \in Slotted, copied[b] # None
      PROVE  /\ copied[b] \in RemoteExperts(a, d)
             /\ Cardinality(SortedBefore(a, d, copied[b])) = b
  BY <1>2, <1>5
<1> QED
  BY <1>4, <1>5

\* With the same number of tokens, the order is that of the experts.
LEMMA KeysDiffer ==
    ASSUME NEW a \in [Experts -> [Ranks -> Nat]], NEW d \in Ranks,
           NEW e \in Experts, NEW f \in Experts, SortKey(a, d, e) = SortKey(a, d, f)
    PROVE  e = f
<1>1. PICK x, y, n : /\ x = a[e][d] /\ y = a[f][d] /\ n = NumExperts
                     /\ x \in Nat /\ y \in Nat /\ n \in Nat \ {0}
  BY SizesNat
<1>2. e \in Nat /\ f \in Nat /\ e < n /\ f < n
  BY <1>1, SizesNat
<1>3. x * n + e = y * n + f
  BY <1>1 DEF SortKey
<1>4. \A u, v \in Nat : u < v => (u + 1) * n <= v * n
  BY <1>1
<1>5. (x + 1) * n = x * n + n /\ (y + 1) * n = y * n + n /\ x * n \in Nat /\ y * n \in Nat
  BY <1>1
<1>6. ~(x < y)
  <2> SUFFICES ASSUME x < y PROVE FALSE
    OBVIOUS
  <2>1. (x + 1) * n <= y * n
    BY <1>1, <1>4
  <2> QED
    BY <1>2, <1>3, <1>5, <2>1, <1>1
<1>7. ~(y < x)
  <2> SUFFICES ASSUME y < x PROVE FALSE
    OBVIOUS
  <2>1. (y + 1) * n <= x * n
    BY <1>1, <1>4
  <2> QED
    BY <1>2, <1>3, <1>5, <2>1, <1>1
<1>8. x = y
  BY <1>1, <1>6, <1>7
<1> QED
  BY <1>2, <1>3, <1>5, <1>8

LEMMA KeyInt ==
    ASSUME NEW a \in [Experts -> [Ranks -> Nat]], NEW d \in Ranks, NEW e \in Experts
    PROVE  SortKey(a, d, e) \in Int
<1>1. PICK x, n : x = a[e][d] /\ n = NumExperts /\ x \in Nat /\ n \in Nat
  BY SizesNat
<1>2. x * n + e \in Int
  BY <1>1 DEF Experts
<1> QED
  BY <1>1, <1>2 DEF SortKey

\* Two remote experts are not at the same place of the order.
LEMMA PlacesDiffer ==
    ASSUME NEW a \in [Experts -> [Ranks -> Nat]], NEW d \in Ranks,
           NEW e \in RemoteExperts(a, d), NEW f \in RemoteExperts(a, d),
           SortKey(a, d, f) > SortKey(a, d, e)
    PROVE  Cardinality(SortedBefore(a, d, f)) # Cardinality(SortedBefore(a, d, e))
<1>1. e \in Experts /\ f \in Experts
  BY RemoteFinite
<1>2. \A g \in RemoteExperts(a, d) : SortKey(a, d, g) \in Int
  BY RemoteFinite, KeyInt
<1>3. SortedBefore(a, d, f) \subseteq SortedBefore(a, d, e)
  BY <1>2 DEF SortedBefore
<1>4. f \in SortedBefore(a, d, e) /\ f \notin SortedBefore(a, d, f)
  BY <1>2 DEF SortedBefore
<1>5. IsFiniteSet(SortedBefore(a, d, e))
  BY RemoteFinite
<1> QED
  BY <1>3, <1>4, <1>5, FS_Subset

\* With slots for all of them, all remote experts are in slots.
LEMMA AllCopied ==
    ASSUME NEW a \in [Experts -> [Ranks -> Nat]], NEW d \in Ranks,
           Cardinality(RemoteExperts(a, d)) <= PrefetchSlots, NEW e \in RemoteExperts(a, d)
    PROVE  \E b \in 0 .. (PrefetchSlots - 1) : ExpertsToCopy(a, d)[b] = e
<1> DEFINE at(b) == {f \in RemoteExperts(a, d) : Cardinality(SortedBefore(a, d, f)) = b}
           Slotted == 0 .. (PrefetchSlots - 1)
<1>1. PICK n \in Nat : n = Cardinality(SortedBefore(a, d, e))
  BY RemoteFinite
<1>2. n < Cardinality(RemoteExperts(a, d))
  <2>0. e \in Experts /\ SortKey(a, d, e) \in Int
    BY KeyInt, RemoteFinite
  <2>1. e \notin SortedBefore(a, d, e)
    BY <2>0 DEF SortedBefore
  <2>2. /\ IsFiniteSet(RemoteExperts(a, d)) /\ SortedBefore(a, d, e) \subseteq RemoteExperts(a, d)
        /\ SortedBefore(a, d, e) # RemoteExperts(a, d)
    BY <2>1, RemoteFinite
  <2>3. /\ Cardinality(SortedBefore(a, d, e)) <= Cardinality(RemoteExperts(a, d))
        /\ Cardinality(SortedBefore(a, d, e)) # Cardinality(RemoteExperts(a, d))
    BY <2>2, FS_Subset
  <2>4. Cardinality(RemoteExperts(a, d)) \in Nat
    BY <2>2, FS_CardinalityType
  <2> QED
    BY <1>1, <2>3, <2>4
<1>3. n \in Slotted
  <2>1. Cardinality(RemoteExperts(a, d)) \in Nat
    BY RemoteFinite, FS_CardinalityType
  <2> QED
    BY <1>1, <1>2, <2>1, SizesNat
<1>4. e \in at(n)
  BY <1>1
<1>5. \A f \in at(n) : f = e
  <2> SUFFICES ASSUME NEW f \in at(n) PROVE f = e
    OBVIOUS
  <2>1. f \in RemoteExperts(a, d) /\ e \in Experts /\ f \in Experts
        /\ Cardinality(SortedBefore(a, d, f)) = Cardinality(SortedBefore(a, d, e))
    BY <1>1, RemoteFinite
  <2>2. ~(SortKey(a, d, f) > SortKey(a, d, e)) /\ ~(SortKey(a, d, e) > SortKey(a, d, f))
    BY <2>1, PlacesDiffer
  <2>3. SortKey(a, d, f) \in Int /\ SortKey(a, d, e) \in Int
    BY <2>1, KeyInt
  <2>4. SortKey(a, d, f) = SortKey(a, d, e)
    BY <2>2, <2>3
  <2> QED
    BY <2>1, <2>4, KeysDiffer
<1>6. ExpertsToCopy(a, d) =
          [b \in Slotted |-> IF at(b) = {} THEN None ELSE CHOOSE f \in at(b) : TRUE]
  BY DEF ExpertsToCopy
<1>7. (CHOOSE f \in at(n) : TRUE) = e
  BY <1>4, <1>5
<1> QED
  BY <1>3, <1>4, <1>6, <1>7

-----------------------------------------------------------------------------
\* Each group has at most one expert, and each expert exactly one group.
LEMMA GroupsIntervals ==
    /\ NumExperts + PrefetchSlots - 1 \in Nat
    /\ Groups = 0 .. (NumExperts + PrefetchSlots - 1)
    /\ Groups \subseteq Nat /\ IsFiniteSet(Groups) /\ 0 \in Groups
    /\ Experts \subseteq Groups
    /\ \A g \in Groups : g \in Experts <=> g < NumExperts
    /\ \A g \in Groups : g >= NumExperts => g - NumExperts \in 0 .. (PrefetchSlots - 1)
    /\ \A b \in 0 .. (PrefetchSlots - 1) :
           NumExperts + b \in Groups /\ (NumExperts + b) - NumExperts = b /\ NumExperts + b >= NumExperts
    /\ None \notin Experts
<1>1. /\ NumExperts \in Nat \ {0} /\ PrefetchSlots \in Nat /\ Experts = 0 .. (NumExperts - 1)
  BY SizesNat
<1>2. NumExperts + PrefetchSlots - 1 \in Nat /\ 0 \in Int
  BY <1>1
<1>3. IsFiniteSet(Groups)
  BY <1>2, FS_Interval DEF Groups
<1> QED
  BY <1>1, <1>2, <1>3 DEF Groups, None

LEMMA GroupOfExpert ==
    ASSUME NEW a, NEW d, NEW expert, expert = GroupExpert(a, d)
    PROVE  /\ expert \in [Groups -> Experts \cup {None}]
           /\ \A g, h \in Groups : expert[g] = expert[h] /\ expert[g] # None => g = h
           /\ \A e \in Experts : \E g \in Groups : expert[g] = e
           /\ \A g \in Groups : expert[g] # None =>
                  g = expert[g] \/ (g >= NumExperts /\ ExpertsToCopy(a, d)[g - NumExperts] = expert[g])
           /\ \A g \in Groups : expert[g] # None /\ g < NumExperts => g = expert[g]
<1>1. PICK copied : copied = ExpertsToCopy(a, d)
  OBVIOUS
<1>2. /\ copied \in [0 .. (PrefetchSlots - 1) -> Experts \cup {None}]
      /\ \A b, c \in 0 .. (PrefetchSlots - 1) :
             copied[b] = copied[c] /\ copied[b] # None => b = c
  BY <1>1, CopiedOnce
<1>3. expert = [g \in Groups |-> IF g >= NumExperts THEN copied[g - NumExperts]
                                 ELSE IF g \in Range(copied) THEN None ELSE g]
  BY <1>1 DEF GroupExpert
<1>4. \A g \in Groups : g >= NumExperts =>
          g - NumExperts \in 0 .. (PrefetchSlots - 1) /\ expert[g] = copied[g - NumExperts]
  BY <1>3, GroupsIntervals
<1>5. \A g \in Groups : ~(g >= NumExperts) =>
          /\ g \in Experts
          /\ expert[g] = (IF g \in Range(copied) THEN None ELSE g)
  <2>1. NumExperts \in Nat
    BY SizesNat
  <2> QED
    BY <1>3, <2>1, GroupsIntervals
<1>6. \A e : e \in Range(copied) <=> \E b \in 0 .. (PrefetchSlots - 1) : copied[b] = e
  BY <1>2 DEF Range
<1>7. expert \in [Groups -> Experts \cup {None}]
  <2>1. \A g \in Groups : expert[g] \in Experts \cup {None}
    BY <1>2, <1>4, <1>5
  <2> QED
    BY <1>3, <2>1
<1>8. ASSUME NEW g \in Groups, NEW h \in Groups, expert[g] = expert[h], expert[g] # None
      PROVE  g = h
  <2>1. CASE g >= NumExperts /\ h >= NumExperts
    <3>1. g - NumExperts = h - NumExperts
      BY <1>2, <1>4, <1>8, <2>1
    <3>2. NumExperts \in Nat /\ g \in Nat /\ h \in Nat
      BY SizesNat, GroupsIntervals
    <3> QED
      BY <3>1, <3>2
  <2>2. CASE ~(g >= NumExperts) /\ ~(h >= NumExperts)
    BY <1>5, <1>8, <2>2
  <2>3. CASE g >= NumExperts /\ ~(h >= NumExperts)
    <3>1. expert[h] = h /\ h \notin Range(copied)
      BY <1>5, <1>8, <2>3
    <3>2. copied[g - NumExperts] = h
      BY <1>4, <1>8, <2>3, <3>1
    <3> QED
      BY <1>4, <1>6, <2>3, <3>1, <3>2
  <2>4. CASE ~(g >= NumExperts) /\ h >= NumExperts
    <3>1. expert[g] = g /\ g \notin Range(copied)
      BY <1>5, <1>8, <2>4
    <3>2. copied[h - NumExperts] = g
      BY <1>4, <1>8, <2>4, <3>1
    <3> QED
      BY <1>4, <1>6, <2>4, <3>1, <3>2
  <2> QED
    BY <2>1, <2>2, <2>3, <2>4
<1>9. ASSUME NEW e \in Experts PROVE \E g \in Groups : expert[g] = e
  <2>1. CASE e \in Range(copied)
    <3>1. PICK b \in 0 .. (PrefetchSlots - 1) : copied[b] = e
      BY <1>6, <2>1
    <3>2. NumExperts + b \in Groups /\ (NumExperts + b) - NumExperts = b /\ NumExperts + b >= NumExperts
      BY GroupsIntervals
    <3>3. expert[NumExperts + b] = e
      BY <1>4, <3>1, <3>2
    <3> QED
      BY <3>2, <3>3
  <2>2. CASE e \notin Range(copied)
    <3>1. e \in Groups /\ e < NumExperts /\ NumExperts \in Nat /\ e \in Nat
      BY GroupsIntervals, SizesNat
    <3>2. expert[e] = e
      BY <1>5, <2>2, <3>1
    <3> QED
      BY <3>1, <3>2
  <2> QED
    BY <2>1, <2>2
<1>10. ASSUME NEW g \in Groups, expert[g] # None
       PROVE  /\ g = expert[g] \/ (g >= NumExperts /\ copied[g - NumExperts] = expert[g])
              /\ g < NumExperts => g = expert[g]
  <2>1. CASE g >= NumExperts
    <3>1. ~(g < NumExperts)
      BY <2>1, SizesNat, GroupsIntervals
    <3> QED
      BY <1>4, <2>1, <3>1
  <2>2. CASE ~(g >= NumExperts)
    BY <1>5, <1>10, <2>2
  <2> QED
    BY <2>1, <2>2
<1> QED
  BY <1>1, <1>7, <1>8, <1>9, <1>10

\* The rows of a segment: those of its tokens and fewer than TokenPadding more.
LEMMA PaddedRows ==
    ASSUME NEW n \in Nat
    PROVE  /\ Padded(n) \in Nat /\ n <= Padded(n) /\ Padded(n) <= n + TokenPadding - 1
           /\ n = 0 => Padded(n) = 0
<1>1. PICK p : p = TokenPadding /\ p \in Nat \ {0}
  BY SizesNat
<1>2. PICK q, m : /\ m = n + p - 1 /\ q = m \div p /\ m \in Nat
  BY <1>1
<1>3. q \in Nat /\ m = p * q + (m % p) /\ (m % p) \in 0 .. (p - 1)
  BY <1>1, <1>2, SMTT(30)
<1>4. q * p = p * q /\ q * p \in Nat
  BY <1>1, <1>3
<1>5. Padded(n) = q * p
  BY <1>1, <1>2 DEF Padded
<1>6. n = 0 => q = 0
  <2> SUFFICES ASSUME n = 0, q # 0 PROVE FALSE
    OBVIOUS
  <2>1. p * q >= p
    BY <1>1, <1>3
  <2> QED
    BY <1>1, <1>2, <1>3, <2>1
<1>7. n = 0 => q * p = 0
  BY <1>1, <1>6
<1>8. n <= q * p /\ q * p <= n + p - 1
  BY <1>1, <1>2, <1>3, <1>4
<1> QED
  BY <1>1, <1>4, <1>5, <1>7, <1>8

LEMMA CountsOfGroups ==
    ASSUME NEW a \in [Experts -> [Ranks -> Nat]], NEW d \in Ranks,
           NEW count, count = GroupCount(a, d), NEW expert, expert = GroupExpert(a, d)
    PROVE  /\ count \in [Groups -> Nat]
           /\ \A g \in Groups : expert[g] = None => count[g] = 0
           /\ \A g \in Groups : expert[g] # None => count[g] = a[expert[g]][d]
<1>1. count = [g \in Groups |-> IF expert[g] = None THEN 0 ELSE a[expert[g]][d]]
  BY DEF GroupCount
<1>2. expert \in [Groups -> Experts \cup {None}]
  BY GroupOfExpert
<1>3. \A g \in Groups : count[g] \in Nat
  BY <1>1, <1>2
<1> QED
  BY <1>1, <1>3

-----------------------------------------------------------------------------
\* Two sums: of one value, and of the same value for each member.
LEMMA SumOne ==
    ASSUME NEW f, NEW x, f[x] \in Int PROVE SumFunctionOnSet(f, {x}) = f[x]
<1>1. IsFiniteSet({x}) /\ \A y \in {x} : f[y] \in Int
  BY FS_Singleton
<1>2. SumFunctionOnSet(f, {x}) = f[x] + SumFunctionOnSet(f, {x} \ {x})
  BY <1>1, SumRemove
<1>3. {x} \ {x} = {}
  OBVIOUS
<1> QED
  BY <1>2, <1>3, SumEmpty

LEMMA SumConst ==
    ASSUME NEW S, IsFiniteSet(S), NEW c \in Int, NEW f, \A x \in S : f[x] = c
    PROVE  SumFunctionOnSet(f, S) = Cardinality(S) * c
<1> DEFINE G == {T \in SUBSET S : SumFunctionOnSet(f, T) = Cardinality(T) * c}
<1>1. {} \in G
  <2>1. Cardinality({}) = 0 /\ 0 * c = 0
    BY FS_EmptySet
  <2> QED
    BY <2>1, SumEmpty
<1>2. ASSUME NEW T \in SUBSET S, NEW x \in S \ T, T \in G PROVE T \cup {x} \in G
  <2>1. IsFiniteSet(T) /\ \A y \in T : f[y] \in Int
    BY FS_Subset
  <2>2. SumFunctionOnSet(f, T \cup {x}) = c + SumFunctionOnSet(f, T)
    BY <2>1, SumInsert
  <2>3. Cardinality(T) \in Nat /\ Cardinality(T \cup {x}) = Cardinality(T) + 1
    BY <2>1, FS_AddElement, FS_CardinalityType
  <2>4. PICK n \in Nat : n = Cardinality(T)
    BY <2>3
  <2>5. c + n * c = (n + 1) * c
    BY <2>4
  <2>6. SumFunctionOnSet(f, T \cup {x}) = Cardinality(T \cup {x}) * c
    BY <1>2, <2>2, <2>3, <2>4, <2>5
  <2> QED
    BY <2>6
<1> HIDE DEF G
<1>3. S \in G
  BY <1>1, <1>2, SetInduct
<1> QED
  BY <1>3 DEF G

\* The values of f at the members of S are added up part by part.
Splits(f, S, T, p, of, part) ==
    /\ IsFiniteSet(S) /\ IsFiniteSet(T) /\ p \in [S -> T]
    /\ \A x \in S : f[x] \in Int
    /\ \A t \in T : \A x : x \in of[t] <=> x \in S /\ p[x] = t
    /\ \A t \in T : part[t] = SumFunctionOnSet(f, of[t])

LEMMA SumSplit ==
    ASSUME NEW f, NEW S, NEW T, NEW p, NEW of, NEW part, Splits(f, S, T, p, of, part)
    PROVE  SumFunctionOnSet(part, T) = SumFunctionOnSet(f, S)
<1> USE DEF Splits
<1>1. /\ IsFiniteSet(S) /\ IsFiniteSet(T) /\ p \in [S -> T]
      /\ \A x \in S : f[x] \in Int
  OBVIOUS
<1>2. \A t \in T : \A x : x \in of[t] <=> x \in S /\ p[x] = t
  OBVIOUS
<1>3. \A t \in T : part[t] = SumFunctionOnSet(f, of[t])
  OBVIOUS
<1> HIDE DEF Splits
<1> QED
  BY <1>1, <1>2, <1>3, SumParts

\* cu_seqlens adds up the segments.
CuRun(count, cu) ==
    cu = [g \in Groups |-> Padded(count[g]) + (IF g = 0 THEN 0 ELSE cu[g - 1])]

LEMMA CuByRun ==
    ASSUME NEW a, NEW d, NEW count, count = GroupCount(a, d)
    PROVE  CuSeqlens(a, d) = CHOOSE cu : CuRun(count, cu)
BY DEF CuSeqlens, CuRun

LEMMA CuIsSum ==
    ASSUME NEW count \in [Groups -> Nat], NEW cu, cu = (CHOOSE k : CuRun(count, k)),
           NEW padded, padded = [g \in Groups |-> Padded(count[g])]
    PROVE  CuRun(count, cu) /\ \A g \in Groups : cu[g] = SumFunctionOnSet(padded, 0 .. g)
<1> DEFINE N == NumExperts + PrefetchSlots - 1
<1>1. N \in Nat /\ Groups = 0 .. N
  BY GroupsIntervals
<1>2. \A g \in 0 .. N : padded[g] \in Nat /\ padded[g] = Padded(count[g])
  BY <1>1, PaddedRows
<1>3. PICK first, after : /\ first = [g \in Groups |-> SumFunctionOnSet(padded, 0 .. (g - 1))]
                          /\ after = [g \in Groups |-> SumFunctionOnSet(padded, 0 .. g)]
  OBVIOUS
<1> HIDE DEF N
<1>4. Laid(N, first, after) /\ \A g \in 0 .. N : after[g] = first[g] + padded[g]
  <2>1. /\ \A g \in 0 .. N : first[g] = SumFunctionOnSet(padded, 0 .. (g - 1))
        /\ \A g \in 0 .. N : after[g] = SumFunctionOnSet(padded, 0 .. g)
    BY <1>1, <1>3
  <2>2. \A g \in 0 .. N : padded[g] \in Nat
    BY <1>2
  <2>3. SumsUpTo(N, padded, first, after)
    BY <1>1, <2>1, <2>2 DEF SumsUpTo
  <2> QED
    BY <2>3, SumsLaid
<1>5. CuRun(count, after)
  <2>1. ASSUME NEW g \in Groups
        PROVE  after[g] = Padded(count[g]) + (IF g = 0 THEN 0 ELSE after[g - 1])
    <3>1. after[g] = first[g] + padded[g] /\ padded[g] \in Nat /\ padded[g] = Padded(count[g])
      BY <1>1, <1>2, <1>4
    <3>2. first[g] = IF g = 0 THEN 0 ELSE after[g - 1]
      <4>1. g \in 0 .. N /\ (g # 0 => g \in 1 .. N)
        BY <1>1
      <4> QED
        BY <1>4, <4>1 DEF Laid
    <3>3. first[g] \in Nat
      BY <1>1, <1>4 DEF Laid
    <3> QED
      BY <3>1, <3>2, <3>3
  <2>2. after = [g \in Groups |-> after[g]]
    BY <1>3
  <2>3. after = [g \in Groups |-> Padded(count[g]) + (IF g = 0 THEN 0 ELSE after[g - 1])]
    BY <2>1, <2>2
  <2> QED
    BY <2>3 DEF CuRun
<1>6. CuRun(count, cu)
  BY <1>5
<1>7. \A g \in Groups : cu[g] = Padded(count[g]) + (IF g = 0 THEN 0 ELSE cu[g - 1])
  <2>1. cu = [g \in Groups |-> Padded(count[g]) + (IF g = 0 THEN 0 ELSE cu[g - 1])]
    BY <1>6 DEF CuRun
  <2> QED
    BY <2>1, Zenon
<1>8. \A g \in Groups : after[g] = Padded(count[g]) + (IF g = 0 THEN 0 ELSE after[g - 1])
  <2>1. after = [g \in Groups |-> Padded(count[g]) + (IF g = 0 THEN 0 ELSE after[g - 1])]
    BY <1>5 DEF CuRun
  <2> QED
    BY <2>1, Zenon
<1> DEFINE G == {k \in Nat : k <= N => cu[k] = after[k]}
<1>9. 0 \in G
  <2>1. 0 \in Groups
    BY <1>1
  <2>2. cu[0] = after[0]
    BY <1>7, <1>8, <2>1
  <2> QED
    BY <2>2
<1>10. ASSUME NEW k \in Nat, k \in G PROVE k + 1 \in G
  <2> SUFFICES ASSUME k + 1 <= N PROVE cu[k + 1] = after[k + 1]
    OBVIOUS
  <2>1. PICK g : g = k + 1 /\ g \in Groups /\ g # 0 /\ g - 1 = k /\ k <= N
    BY <1>1
  <2>2. cu[g - 1] = after[g - 1]
    BY <1>10, <2>1
  <2>3. cu[g] = after[g]
    BY <1>7, <1>8, <2>1, <2>2
  <2> QED
    BY <2>1, <2>3
<1> HIDE DEF G
<1>11. \A k \in Nat : k \in G
  BY <1>9, <1>10, NatInduct
<1>12. \A g \in Groups : cu[g] = after[g]
  BY <1>1, <1>11 DEF G
<1> QED
  BY <1>3, <1>6, <1>12

\* The segments follow each other, and each holds its tokens and its padding.
LEMMA SegmentsLaid ==
    ASSUME NEW a \in [Experts -> [Ranks -> Nat]], NEW d \in Ranks,
           NEW count, count = GroupCount(a, d), NEW cu, cu = CuSeqlens(a, d),
           NEW start, start = GroupStart(a, d)
    PROVE  /\ Laid(NumExperts + PrefetchSlots - 1, start, cu)
           /\ \A g \in Groups : cu[g] = start[g] + Padded(count[g])
<1> DEFINE N == NumExperts + PrefetchSlots - 1
<1>1. N \in Nat /\ Groups = 0 .. N
  BY GroupsIntervals
<1>2. count \in [Groups -> Nat]
  BY CountsOfGroups
<1>3. cu = CHOOSE k : CuRun(count, k)
  BY CuByRun
<1>4. PICK padded : padded = [g \in Groups |-> Padded(count[g])]
  OBVIOUS
<1>5. CuRun(count, cu) /\ \A g \in Groups : cu[g] = SumFunctionOnSet(padded, 0 .. g)
  BY <1>2, <1>3, <1>4, CuIsSum
<1>6. \A g \in Groups : padded[g] \in Nat /\ padded[g] = Padded(count[g])
  BY <1>2, <1>4, PaddedRows
<1> HIDE DEF N
<1>7. start = [g \in Groups |-> IF g = 0 THEN 0 ELSE cu[g - 1]]
  BY DEF GroupStart
<1>8. ASSUME NEW g \in Groups PROVE start[g] = SumFunctionOnSet(padded, 0 .. (g - 1))
  <2>1. CASE g = 0
    <3>1. 0 .. (0 - 1) = {}
      OBVIOUS
    <3>2. SumFunctionOnSet(padded, 0 .. (g - 1)) = 0
      BY <2>1, <3>1, SumEmpty
    <3> QED
      BY <1>7, <2>1, <3>2
  <2>2. CASE g # 0
    <3>1. g - 1 \in Groups
      BY <1>1, <2>2
    <3> QED
      BY <1>5, <1>7, <2>2, <3>1
  <2> QED
    BY <2>1, <2>2
<1>9. Laid(N, start, cu) /\ \A g \in 0 .. N : cu[g] = start[g] + padded[g]
  <2>1. /\ \A g \in 0 .. N : start[g] = SumFunctionOnSet(padded, 0 .. (g - 1))
        /\ \A g \in 0 .. N : cu[g] = SumFunctionOnSet(padded, 0 .. g)
        /\ \A g \in 0 .. N : padded[g] \in Nat
    BY <1>1, <1>5, <1>6, <1>8
  <2>2. SumsUpTo(N, padded, start, cu)
    BY <1>1, <2>1 DEF SumsUpTo
  <2> QED
    BY <2>2, SumsLaid
<1> QED
  BY <1>1, <1>6, <1>9 DEF N

-----------------------------------------------------------------------------
\* Where the rows of an expert begin.
LEMMA OffsetOfExpert ==
    ASSUME NEW a, NEW d, NEW e \in Experts, a[e][d] # 0, NEW g \in Groups, GroupExpert(a, d)[g] = e
    PROVE  ExpertOff(a, d)[e] = GroupStart(a, d)[g]
<1>1. PICK expert, start : expert = GroupExpert(a, d) /\ start = GroupStart(a, d)
  OBVIOUS
<1>2. ExpertOff(a, d) = [f \in Experts |-> IF a[f][d] = 0 THEN 0
                                          ELSE start[CHOOSE h \in Groups : expert[h] = f]]
  BY <1>1 DEF ExpertOff
<1>3. ExpertOff(a, d)[e] = start[CHOOSE h \in Groups : expert[h] = e]
  BY <1>2
<1>4. e # None
  BY GroupsIntervals
<1>5. \A h \in Groups : expert[h] = e => h = g
  BY <1>1, <1>4, GroupOfExpert
<1>6. (CHOOSE h \in Groups : expert[h] = e) = g
  BY <1>1, <1>5
<1> QED
  BY <1>1, <1>3, <1>6

\* The tokens of a rank are of its own experts and of those of one other rank.
LEMMA FewExperts ==
    ASSUME NEW c, NEW a, GoodAlloc(c, a), NEW d \in Ranks
    PROVE  \E U : /\ IsFiniteSet(U) /\ U \subseteq Experts
                  /\ Cardinality(U) \in Nat /\ Cardinality(U) <= 2 * ExpertsPerRank
                  /\ \A e \in Experts : a[e][d] # 0 => e \in U
<1>1. /\ a \in [Experts -> [Ranks -> Nat]]
      /\ \A e1, e2 \in RemoteExperts(a, d) : Home(e1) = Home(e2)
  BY DEF GoodAlloc
<1>2. PICK h \in Ranks : \A e \in RemoteExperts(a, d) : Home(e) = h
  <2>1. CASE RemoteExperts(a, d) = {}
    BY <2>1
  <2>2. CASE RemoteExperts(a, d) # {}
    <3>1. PICK f : f \in RemoteExperts(a, d)
      BY <2>2
    <3>2. Home(f) \in Ranks /\ \A e \in RemoteExperts(a, d) : Home(e) = Home(f)
      BY <1>1, <3>1, RemoteFinite, HomeIsRank
    <3> QED
      BY <3>2
  <2> QED
    BY <2>1, <2>2
<1>3. PICK U : U = Owned(d) \cup Owned(h)
  OBVIOUS
<1>4. /\ IsFiniteSet(Owned(d)) /\ IsFiniteSet(Owned(h))
      /\ Cardinality(Owned(d)) = ExpertsPerRank /\ Cardinality(Owned(h)) = ExpertsPerRank
  BY ExpertsFinite, OwnedCount
<1>5. IsFiniteSet(U) /\ Cardinality(U) = Cardinality(Owned(d)) + Cardinality(Owned(h))
                                          - Cardinality(Owned(d) \cap Owned(h))
  BY <1>3, <1>4, FS_Union
<1>6. Cardinality(Owned(d) \cap Owned(h)) \in Nat
  BY <1>4, FS_Intersection, FS_CardinalityType
<1>7. U \subseteq Experts
  BY <1>3 DEF Owned
<1>8. ASSUME NEW e \in Experts, a[e][d] # 0 PROVE e \in U
  <2>1. CASE e \in Owned(d)
    BY <1>3, <2>1
  <2>2. CASE e \notin Owned(d)
    <3>1. a[e][d] > 0
      BY <1>1, <1>8
    <3>2. e \in RemoteExperts(a, d)
      BY <2>2, <3>1 DEF RemoteExperts
    <3> QED
      BY <1>2, <1>3, <3>2 DEF Owned
  <2> QED
    BY <2>1, <2>2
<1>9. Cardinality(U) \in Nat
  BY <1>5, FS_CardinalityType
<1>10. Cardinality(U) <= 2 * ExpertsPerRank
  BY <1>4, <1>5, <1>6, <1>9, SizesNat
<1> QED
  BY <1>5, <1>7, <1>8, <1>9, <1>10

\* The segments of a rank are as long as its tokens padded, expert by expert.
LEMMA EndOfLastSegment ==
    ASSUME NEW a \in [Experts -> [Ranks -> Nat]], NEW d \in Ranks,
           NEW f, f = [e \in Experts |-> Padded(a[e][d])]
    PROVE  CuSeqlens(a, d)[NumExperts + PrefetchSlots - 1] = SumFunctionOnSet(f, Experts)
<1>1. PICK count, expert, cu, padded :
          /\ count = GroupCount(a, d) /\ expert = GroupExpert(a, d)
          /\ cu = CuSeqlens(a, d) /\ padded = [g \in Groups |-> Padded(count[g])]
  OBVIOUS
<1>2. PICK N : N = NumExperts + PrefetchSlots - 1 /\ N \in Nat /\ Groups = 0 .. N
  BY GroupsIntervals
<1>3. /\ count \in [Groups -> Nat]
      /\ \A g \in Groups : expert[g] = None => count[g] = 0
      /\ \A g \in Groups : expert[g] # None => count[g] = a[expert[g]][d]
  BY <1>1, CountsOfGroups
<1>4. \A g \in Groups : cu[g] = SumFunctionOnSet(padded, 0 .. g)
  <2>1. cu = CHOOSE k : CuRun(count, k)
    BY <1>1, CuByRun
  <2>2. count \in [Groups -> Nat]
    BY <1>3
  <2>3. padded = [g \in Groups |-> Padded(count[g])]
    BY <1>1
  <2> QED
    BY <2>1, <2>2, <2>3, CuIsSum
<1>5. cu[N] = SumFunctionOnSet(padded, Groups)
  BY <1>2, <1>4
<1>6. /\ expert \in [Groups -> Experts \cup {None}]
      /\ \A g, h \in Groups : expert[g] = expert[h] /\ expert[g] # None => g = h
      /\ \A e \in Experts : \E g \in Groups : expert[g] = e
  BY <1>1, GroupOfExpert
<1>7. PICK p, of : /\ p = [e \in Experts |-> CHOOSE g \in Groups : expert[g] = e]
                   /\ of = [g \in Groups |-> {e \in Experts : p[e] = g}]
  OBVIOUS
<1>8. \A e \in Experts : p[e] \in Groups /\ expert[p[e]] = e
  BY <1>6, <1>7
<1>9. p \in [Experts -> Groups]
  BY <1>7, <1>8
<1>10. \A e \in Experts : f[e] \in Nat /\ f[e] = Padded(a[e][d])
  BY PaddedRows
<1>11. ASSUME NEW g \in Groups PROVE padded[g] = SumFunctionOnSet(f, of[g])
  <2>1. CASE expert[g] = None
    <3>1. of[g] = {}
      <4>1. \A e \in Experts : e # None
        BY GroupsIntervals
      <4>2. \A e \in Experts : p[e] # g
        BY <1>8, <2>1, <4>1
      <4> QED
        BY <1>7, <4>2
    <3>2. padded[g] = 0
      BY <1>1, <1>3, <2>1, PaddedRows
    <3> QED
      BY <3>1, <3>2, SumEmpty
  <2>2. CASE expert[g] # None
    <3>1. PICK e \in Experts : e = expert[g]
      BY <1>6, <2>2
    <3>2. of[g] = {e}
      <4>1. p[e] = g
        BY <1>6, <1>8, <2>2, <3>1
      <4>2. \A x \in Experts : p[x] = g => x = e
        BY <1>8, <3>1
      <4> QED
        BY <1>7, <4>1, <4>2
    <3>3. f[e] \in Int
      BY <1>10
    <3>4. SumFunctionOnSet(f, {e}) = f[e]
      BY <3>3, SumOne
    <3>5. padded[g] = f[e]
      BY <1>1, <1>3, <1>10, <2>2, <3>1
    <3> QED
      BY <3>2, <3>4, <3>5
  <2> QED
    BY <2>1, <2>2
<1>12. \A g \in Groups : \A x : x \in of[g] <=> x \in Experts /\ p[x] = g
  BY <1>7
<1>13. \A e \in Experts : f[e] \in Int
  BY <1>10
<1>14. SumFunctionOnSet(padded, Groups) = SumFunctionOnSet(f, Experts)
  <2>1. IsFiniteSet(Experts) /\ IsFiniteSet(Groups)
    BY ExpertsFinite, GroupsIntervals
  <2>2. /\ \A g \in Groups : \A x : x \in of[g] <=> x \in Experts /\ p[x] = g
        /\ \A g \in Groups : padded[g] = SumFunctionOnSet(f, of[g])
        /\ \A e \in Experts : f[e] \in Int
    BY <1>11, <1>12, <1>13
  <2>3. /\ IsFiniteSet(Experts) /\ IsFiniteSet(Groups) /\ p \in [Experts -> Groups]
        /\ \A e \in Experts : f[e] \in Int
    BY <1>9, <2>1, <2>2
  <2>4. Splits(f, Experts, Groups, p, of, padded)
    BY <2>2, <2>3 DEF Splits
  <2> QED
    BY <2>4, SumSplit
<1> QED
  BY <1>1, <1>2, <1>5, <1>14

\* The buffer is large enough for the segments.
LEMMA SegmentsFit ==
    ASSUME NEW c, NEW a, GoodAlloc(c, a), NEW d \in Ranks, NEW g \in Groups
    PROVE  CuSeqlens(a, d)[g] <= NvS
<1>1. a \in [Experts -> [Ranks -> Nat]] /\ Load(a, d) = Cap
  BY DEF GoodAlloc
<1>2. PICK P, N, cu, start : /\ P = TokenPadding - 1 /\ P \in Nat
                             /\ N = NumExperts + PrefetchSlots - 1
                             /\ cu = CuSeqlens(a, d) /\ start = GroupStart(a, d)
  BY SizesNat
<1>3. PICK U : /\ IsFiniteSet(U) /\ U \subseteq Experts
               /\ Cardinality(U) \in Nat /\ Cardinality(U) <= 2 * ExpertsPerRank
               /\ \A e \in Experts : a[e][d] # 0 => e \in U
  BY FewExperts
<1>4. PICK f, t, x : /\ f = [e \in Experts |-> Padded(a[e][d])]
                     /\ t = [e \in Experts |-> a[e][d]]
                     /\ x = [e \in Experts |-> IF e \in U THEN P ELSE 0]
  OBVIOUS
<1>5. \A e \in Experts : /\ f[e] \in Int /\ t[e] \in Int /\ x[e] \in Int
                         /\ f[e] <= t[e] + x[e]
  <2> SUFFICES ASSUME NEW e \in Experts
               PROVE  f[e] \in Int /\ t[e] \in Int /\ x[e] \in Int /\ f[e] <= t[e] + x[e]
    OBVIOUS
  <2>1. PICK n \in Nat : n = a[e][d]
    BY <1>1
  <2>2. /\ Padded(n) \in Nat /\ n <= Padded(n) /\ Padded(n) <= n + TokenPadding - 1
        /\ n = 0 => Padded(n) = 0
    BY PaddedRows
  <2>3. f[e] = Padded(n) /\ t[e] = n /\ x[e] = (IF e \in U THEN P ELSE 0)
    BY <1>4, <2>1
  <2>4. n # 0 => e \in U
    BY <1>3, <2>1
  <2> QED
    BY <1>2, <2>2, <2>3, <2>4, SizesNat
<1>6. PICK y : y = [e \in Experts |-> t[e] + x[e]]
  OBVIOUS
<1>7. SumFunctionOnSet(y, Experts) = SumFunctionOnSet(t, Experts) + SumFunctionOnSet(x, Experts)
  <2>1. \A e \in Experts : t[e] \in Int /\ x[e] \in Int /\ y[e] = t[e] + x[e]
    BY <1>5, <1>6
  <2> QED
    BY <2>1, ExpertsFinite, SumPlus
<1>8. SumFunctionOnSet(f, Experts) <= SumFunctionOnSet(y, Experts)
  <2>1. \A e \in Experts : f[e] \in Int /\ y[e] \in Int /\ f[e] <= y[e]
    BY <1>5, <1>6
  <2> QED
    BY <2>1, ExpertsFinite, SumLess
<1>9. SumFunctionOnSet(t, Experts) = Cap
  <2>1. Load(a, d) = SumFunction(t)
    BY <1>4 DEF Load
  <2>2. SumFunction(t) = SumFunctionOnSet(t, DOMAIN t) /\ DOMAIN t = Experts
    BY <1>4 DEF SumFunction, FoldFunction, SumFunctionOnSet
  <2> QED
    BY <1>1, <2>1, <2>2
<1>10. SumFunctionOnSet(x, Experts) = Cardinality(U) * P
  <2>1. /\ IsFiniteSet(Experts \ U) /\ U \cup (Experts \ U) = Experts /\ U \cap (Experts \ U) = {}
        /\ IsFiniteSet(Experts)
    BY <1>3, ExpertsFinite, FS_Difference
  <2>2. SumFunctionOnSet(x, U) = Cardinality(U) * P
    <3>1. \A e \in U : x[e] = P
      BY <1>3, <1>4
    <3>2. P \in Int /\ IsFiniteSet(U)
      BY <1>2, <1>3
    <3> QED
      BY <3>1, <3>2, SumConst
  <2>3. SumFunctionOnSet(x, Experts \ U) = 0
    <3>1. \A e \in Experts \ U : x[e] = 0
      BY <1>4
    <3> QED
      BY <2>1, <3>1, SumZero
  <2>4. \A e \in U \cup (Experts \ U) : x[e] \in Int
    BY <1>5, <2>1
  <2>5. SumFunctionOnSet(x, U \cup (Experts \ U)) =
            SumFunctionOnSet(x, U) + SumFunctionOnSet(x, Experts \ U)
    BY <1>3, <2>1, <2>4, SumUnion
  <2>6. Cardinality(U) * P \in Int
    BY <1>2, <1>3
  <2>7. SumFunctionOnSet(x, U \cup (Experts \ U)) = Cardinality(U) * P
    BY <2>2, <2>3, <2>5, <2>6
  <2> QED
    BY <2>1, <2>7
<1>11. Cardinality(U) * P <= (TokenPadding - 1) * 2 * ExpertsPerRank
  <2>1. PICK n, m : n = Cardinality(U) /\ m = ExpertsPerRank /\ n \in Nat /\ m \in Nat /\ n <= 2 * m
    BY <1>3, SizesNat
  <2>2. n * P <= (2 * m) * P
    BY <1>2, <2>1
  <2>3. (2 * m) * P = P * 2 * m
    BY <1>2, <2>1
  <2>4. n * P \in Int /\ (2 * m) * P \in Int
    BY <1>2, <2>1
  <2> QED
    BY <1>2, <2>1, <2>2, <2>3, <2>4
<1>12. cu[N] <= NvS
  <2>1. cu[N] = SumFunctionOnSet(f, Experts)
    BY <1>1, <1>2, <1>4, EndOfLastSegment
  <2>2. PICK k : k = (TokenPadding - 1) * 2 * ExpertsPerRank
    OBVIOUS
  <2>3. k \in Int
    <3>1. PICK m \in Nat : m = ExpertsPerRank
      BY SizesNat
    <3>2. P * 2 * m \in Int
      BY <1>2
    <3> QED
      BY <1>2, <2>2, <3>1, <3>2
  <2>4. NvS = Cap + k
    BY <2>2 DEF NvS
  <2>5. \A e \in Experts : y[e] \in Int
    BY <1>5, <1>6
  <2>6. SumFunctionOnSet(f, Experts) \in Int /\ SumFunctionOnSet(y, Experts) \in Int
    BY <1>5, <2>5, ExpertsFinite, SumInt
  <2>7. Cardinality(U) * P \in Int
    BY <1>2, <1>3
  <2>8. PICK s1, s2, s3 : /\ s1 = SumFunctionOnSet(f, Experts) /\ s2 = SumFunctionOnSet(y, Experts)
                          /\ s3 = Cardinality(U) * P /\ s1 \in Int /\ s2 \in Int /\ s3 \in Int
    BY <2>6, <2>7
  <2>9. s1 <= s2 /\ s2 = Cap + s3 /\ s3 <= k
    BY <1>7, <1>8, <1>9, <1>10, <1>11, <2>2, <2>8
  <2> QED
    BY <2>1, <2>3, <2>4, <2>8, <2>9, SizesNat
<1>13. Laid(N, start, cu) /\ g \in 0 .. N
  <2>1. PICK count : count = GroupCount(a, d)
    OBVIOUS
  <2> QED
    BY <1>1, <1>2, <2>1, SegmentsLaid, GroupsIntervals
<1>14. cu[g] <= cu[N] /\ cu[g] \in Nat /\ cu[N] \in Nat
  <2>1. N \in 0 .. N
    BY <1>13 DEF Laid
  <2> QED
    BY <1>13, <2>1, LaidWithin DEF Laid
<1> QED
  BY <1>2, <1>12, <1>14, SizesNat

-----------------------------------------------------------------------------
(* The entries of an expert, in the order of their ranks and slots. *)

\* Routings of all ranks and the counts that each rank publishes.
Counted(topk, counts) ==
    /\ topk \in [Ranks -> [Slots -> Experts]]
    /\ counts = [r \in Ranks |-> TokensPerExpert(topk[r])]

\* Slots before and up to slot i that choose expert e.
ChosenBefore(topk, e, i) == {j \in Slots : j < i /\ topk[j] = e}
ChosenUpTo(topk, e, i) == {j \in Slots : j <= i /\ topk[j] = e}

LEMMA SlotsFinite == /\ IsFiniteSet(Slots) /\ Slots = 0 .. (Cap - 1) /\ Slots \subseteq Nat
                     /\ Cap - 1 \in Nat /\ Cap - 1 \in Slots /\ Cardinality(Slots) = Cap
<1>1. Cap \in Nat \ {0} /\ Cap - 1 \in Int /\ 0 \in Int
  BY SizesNat
<1>2. IsFiniteSet(Slots) /\ Cardinality(Slots) = (IF 0 > Cap - 1 THEN 0 ELSE (Cap - 1) - 0 + 1)
  BY <1>1, FS_Interval DEF Slots
<1> QED
  BY <1>1, <1>2 DEF Slots

\* The slots that choose an expert are counted one by one.
CountsChosen(topk, e, first, after) ==
    /\ first = [i \in Slots |-> Cardinality(ChosenBefore(topk, e, i))]
    /\ after = [i \in Slots |-> Cardinality(ChosenUpTo(topk, e, i))]

LEMMA ChoicesLaid ==
    ASSUME NEW topk \in [Slots -> Experts], NEW e \in Experts, NEW first, NEW after,
           CountsChosen(topk, e, first, after)
    PROVE  /\ Laid(Cap - 1, first, after)
           /\ \A i \in Slots : after[i] = first[i] + (IF topk[i] = e THEN 1 ELSE 0)
           /\ after[Cap - 1] = TokensPerExpert(topk)[e]
           /\ \A i \in Slots : topk[i] = e => first[i] = LocalRank(topk, i)
<1> USE DEF CountsChosen
<1>1. /\ Slots = 0 .. (Cap - 1) /\ Cap - 1 \in Nat /\ Cap - 1 \in Slots /\ Slots \subseteq Nat
      /\ IsFiniteSet(Slots)
  BY SlotsFinite
<1>2. ASSUME NEW i \in Slots
      PROVE  /\ IsFiniteSet(ChosenBefore(topk, e, i)) /\ Cardinality(ChosenBefore(topk, e, i)) \in Nat
             /\ IsFiniteSet(ChosenUpTo(topk, e, i)) /\ Cardinality(ChosenUpTo(topk, e, i)) \in Nat
  <2>1. ChosenBefore(topk, e, i) \subseteq Slots /\ ChosenUpTo(topk, e, i) \subseteq Slots
    BY DEF ChosenBefore, ChosenUpTo
  <2>2. IsFiniteSet(ChosenBefore(topk, e, i)) /\ IsFiniteSet(ChosenUpTo(topk, e, i))
    BY <1>1, <2>1, FS_Subset
  <2> QED
    BY <2>2, FS_CardinalityType
<1>3. ASSUME NEW i \in Slots PROVE after[i] = first[i] + (IF topk[i] = e THEN 1 ELSE 0)
  <2>1. CASE topk[i] = e
    <3>1. /\ ChosenUpTo(topk, e, i) = ChosenBefore(topk, e, i) \cup {i}
          /\ i \notin ChosenBefore(topk, e, i)
      BY <1>1, <2>1 DEF ChosenBefore, ChosenUpTo
    <3>2. Cardinality(ChosenBefore(topk, e, i) \cup {i}) = Cardinality(ChosenBefore(topk, e, i)) + 1
      BY <1>2, <3>1, FS_AddElement
    <3> QED
      BY <2>1, <3>1, <3>2
  <2>2. CASE topk[i] # e
    <3>1. ChosenUpTo(topk, e, i) = ChosenBefore(topk, e, i)
      BY <1>1, <2>2 DEF ChosenBefore, ChosenUpTo
    <3> QED
      BY <1>2, <2>2, <3>1
  <2> QED
    BY <2>1, <2>2
<1>4. \A i \in Slots : first[i] \in Nat /\ after[i] \in Nat /\ first[i] <= after[i]
  <2> SUFFICES ASSUME NEW i \in Slots
               PROVE  first[i] \in Nat /\ after[i] \in Nat /\ first[i] <= after[i]
    OBVIOUS
  <2>1. first[i] \in Nat
    BY <1>2
  <2> QED
    BY <1>3, <2>1
<1>5. first[0] = 0
  <2>1. 0 \in Slots
    BY <1>1
  <2>2. ChosenBefore(topk, e, 0) = {}
    BY <1>1 DEF ChosenBefore
  <2> QED
    BY <2>1, <2>2, FS_EmptySet
<1>6. ASSUME NEW i \in 1 .. (Cap - 1) PROVE first[i] = after[i - 1]
  <2>1. i \in Slots /\ i - 1 \in Slots
    BY <1>1
  <2>2. ChosenBefore(topk, e, i) = ChosenUpTo(topk, e, i - 1)
    BY <1>1, <2>1 DEF ChosenBefore, ChosenUpTo
  <2> QED
    BY <2>1, <2>2
<1>7. after[Cap - 1] = TokensPerExpert(topk)[e]
  <2>1. ChosenUpTo(topk, e, Cap - 1) = {i \in Slots : topk[i] = e}
    BY <1>1 DEF ChosenUpTo
  <2> QED
    BY <1>1, <2>1 DEF TokensPerExpert
<1>8. ASSUME NEW i \in Slots, topk[i] = e PROVE first[i] = LocalRank(topk, i)
  BY <1>8 DEF LocalRank, ChosenBefore
<1>9. Laid(Cap - 1, first, after)
  BY <1>1, <1>4, <1>5, <1>6 DEF Laid
<1> QED
  BY <1>3, <1>7, <1>8, <1>9

LEMMA CountNat ==
    ASSUME NEW topk \in [Slots -> Experts], NEW e \in Experts
    PROVE  /\ TokensPerExpert(topk)[e] \in Nat
           /\ TokensPerExpert(topk)[e] = Cardinality({i \in Slots : topk[i] = e})
<1>1. {i \in Slots : topk[i] = e} \subseteq Slots
  OBVIOUS
<1>2. IsFiniteSet({i \in Slots : topk[i] = e})
  BY <1>1, SlotsFinite, FS_Subset
<1>3. TokensPerExpert(topk)[e] = Cardinality({i \in Slots : topk[i] = e})
  BY DEF TokensPerExpert
<1> QED
  BY <1>2, <1>3, FS_CardinalityType

\* Each place in that order is that of one entry.
LEMMA RanksOfEntries ==
    ASSUME NEW topk \in [Slots -> Experts], NEW e \in Experts
    PROVE  /\ \A i \in Slots : topk[i] = e =>
                  LocalRank(topk, i) \in Nat /\ LocalRank(topk, i) < TokensPerExpert(topk)[e]
           /\ \A i, j \in Slots :
                  topk[i] = e /\ topk[j] = e /\ LocalRank(topk, i) = LocalRank(topk, j) => i = j
           /\ \A n \in Nat : n < TokensPerExpert(topk)[e] =>
                  \E i \in Slots : topk[i] = e /\ LocalRank(topk, i) = n
<1>1. PICK first, after : CountsChosen(topk, e, first, after)
  BY DEF CountsChosen
<1>2. /\ Laid(Cap - 1, first, after)
      /\ \A i \in Slots : after[i] = first[i] + (IF topk[i] = e THEN 1 ELSE 0)
      /\ after[Cap - 1] = TokensPerExpert(topk)[e]
      /\ \A i \in Slots : topk[i] = e => first[i] = LocalRank(topk, i)
  BY <1>1, ChoicesLaid
<1>3. Slots = 0 .. (Cap - 1) /\ Cap - 1 \in Nat /\ Cap - 1 \in Slots
  BY SlotsFinite
<1>4. \A i \in Slots : first[i] \in Nat /\ after[i] \in Nat /\ after[i] <= after[Cap - 1]
  <2> SUFFICES ASSUME NEW i \in Slots
               PROVE  first[i] \in Nat /\ after[i] \in Nat /\ after[i] <= after[Cap - 1]
    OBVIOUS
  <2>1. i \in 0 .. (Cap - 1)
    BY <1>3
  <2> QED
    BY <1>2, <2>1, LaidWithin DEF Laid
<1>5. ASSUME NEW i \in Slots, topk[i] = e
      PROVE  LocalRank(topk, i) \in Nat /\ LocalRank(topk, i) < TokensPerExpert(topk)[e]
  <2>1. after[i] = first[i] + 1 /\ first[i] = LocalRank(topk, i)
    BY <1>2, <1>5
  <2>2. first[i] \in Nat /\ after[i] <= TokensPerExpert(topk)[e] /\ TokensPerExpert(topk)[e] \in Nat
    BY <1>2, <1>3, <1>4
  <2> QED
    BY <2>1, <2>2
<1>6. ASSUME NEW i \in Slots, NEW j \in Slots, topk[i] = e, topk[j] = e, i < j
      PROVE  LocalRank(topk, i) # LocalRank(topk, j)
  <2>1. i \in 0 .. (Cap - 1) /\ j \in 0 .. (Cap - 1)
    BY <1>3
  <2>2. after[i] <= first[j]
    BY <1>2, <1>6, <2>1, LaidInOrder
  <2>3. after[i] = first[i] + 1 /\ first[i] = LocalRank(topk, i) /\ first[j] = LocalRank(topk, j)
    BY <1>2, <1>6
  <2>4. first[i] \in Nat /\ first[j] \in Nat
    BY <1>4
  <2> QED
    BY <2>2, <2>3, <2>4
<1>7. ASSUME NEW i \in Slots, NEW j \in Slots, topk[i] = e, topk[j] = e,
             LocalRank(topk, i) = LocalRank(topk, j)
      PROVE  i = j
  <2>1. ~(i < j) /\ ~(j < i)
    BY <1>6, <1>7
  <2>2. i \in Nat /\ j \in Nat
    BY SlotsFinite
  <2> QED
    BY <2>1, <2>2
<1>8. ASSUME NEW n \in Nat, n < TokensPerExpert(topk)[e]
      PROVE  \E i \in Slots : topk[i] = e /\ LocalRank(topk, i) = n
  <2>1. n < after[Cap - 1]
    BY <1>2, <1>8
  <2>2. PICK i \in 0 .. (Cap - 1) : first[i] <= n /\ n < after[i]
    BY <1>2, <2>1, LaidCovers
  <2>3. i \in Slots /\ first[i] \in Nat
    BY <1>3, <1>4
  <2>4. topk[i] = e
    <3> SUFFICES ASSUME topk[i] # e PROVE FALSE
      OBVIOUS
    <3>1. after[i] = first[i] + 0
      BY <1>2, <2>3
    <3> QED
      BY <2>2, <2>3, <3>1
  <2>5. after[i] = first[i] + 1 /\ first[i] = LocalRank(topk, i)
    BY <1>2, <2>3, <2>4
  <2> QED
    BY <2>2, <2>3, <2>4, <2>5
<1> QED
  BY <1>5, <1>7, <1>8

-----------------------------------------------------------------------------
\* The entries of an expert on the ranks before rank r, and up to rank r.
EntriesBefore(counts, e, r) == SumFunctionOnSet([q \in Ranks |-> counts[q][e]], 0 .. (r - 1))
EntriesUpTo(counts, e, r) == SumFunctionOnSet([q \in Ranks |-> counts[q][e]], 0 .. r)

LEMMA RanksInterval ==
    /\ Ranks = 0 .. (NumRanks - 1) /\ NumRanks - 1 \in Nat /\ NumRanks - 1 \in Ranks
    /\ Ranks \subseteq Nat /\ 0 \in Ranks
BY SizesNat DEF Ranks

LEMMA EntriesLaid ==
    ASSUME NEW topk, NEW counts, Counted(topk, counts), NEW e \in Experts
    PROVE  \E first, after :
               /\ Laid(NumRanks - 1, first, after)
               /\ \A r \in Ranks : /\ first[r] = EntriesBefore(counts, e, r)
                                   /\ after[r] = EntriesUpTo(counts, e, r)
                                   /\ after[r] = first[r] + TokensPerExpert(topk[r])[e]
               /\ after[NumRanks - 1] = Totals(counts)[e]
<1>1. PICK col, first, after :
          /\ col = [q \in Ranks |-> counts[q][e]]
          /\ first = [r \in Ranks |-> EntriesBefore(counts, e, r)]
          /\ after = [r \in Ranks |-> EntriesUpTo(counts, e, r)]
  OBVIOUS
<1>2. \A r \in Ranks : topk[r] \in [Slots -> Experts] /\ counts[r] = TokensPerExpert(topk[r])
  BY DEF Counted
<1>3. \A r \in Ranks : col[r] \in Nat /\ col[r] = TokensPerExpert(topk[r])[e]
  BY <1>1, <1>2, CountNat
<1>4. \A r \in Ranks : /\ first[r] = SumFunctionOnSet(col, 0 .. (r - 1))
                       /\ after[r] = SumFunctionOnSet(col, 0 .. r)
  BY <1>1 DEF EntriesBefore, EntriesUpTo
<1>5. PICK n : n = NumRanks - 1 /\ n \in Nat /\ Ranks = 0 .. n /\ n \in Ranks
  BY RanksInterval
<1>6. SumsUpTo(n, col, first, after)
  BY <1>3, <1>4, <1>5 DEF SumsUpTo
<1>7. Laid(n, first, after) /\ \A r \in Ranks : after[r] = first[r] + col[r]
  BY <1>5, <1>6, SumsLaid
<1>8. after[n] = Totals(counts)[e]
  <2>1. Totals(counts)[e] = SumFunction(col)
    BY <1>1 DEF Totals
  <2>2. SumFunction(col) = SumFunctionOnSet(col, DOMAIN col) /\ DOMAIN col = Ranks
    BY <1>1 DEF SumFunction, FoldFunction, SumFunctionOnSet
  <2>3. after[n] = SumFunctionOnSet(col, Ranks)
    BY <1>4, <1>5
  <2> QED
    BY <2>1, <2>2, <2>3
<1>9. \A r \in Ranks : first[r] = EntriesBefore(counts, e, r) /\ after[r] = EntriesUpTo(counts, e, r)
  BY <1>1
<1>10. \A r \in Ranks : after[r] = first[r] + TokensPerExpert(topk[r])[e]
  BY <1>3, <1>7
<1> QED
  BY <1>5, <1>7, <1>8, <1>9, <1>10

LEMMA PositionIs ==
    ASSUME NEW topk, NEW counts, NEW r \in Ranks, NEW i \in Slots
    PROVE  Position(r, topk[r], counts, i) =
               EntriesBefore(counts, topk[r][i], r) + LocalRank(topk[r], i)
BY DEF Position, EntriesBefore

\* Entries have the positions below the number of them, each its own.
LEMMA PositionsOfEntries ==
    ASSUME NEW topk, NEW counts, Counted(topk, counts), NEW e \in Experts
    PROVE  /\ \A r \in Ranks : \A i \in Slots : topk[r][i] = e =>
                  /\ Position(r, topk[r], counts, i) \in Nat
                  /\ Position(r, topk[r], counts, i) < Totals(counts)[e]
           /\ \A r, q \in Ranks : \A i, j \in Slots :
                  topk[r][i] = e /\ topk[q][j] = e
                  /\ Position(r, topk[r], counts, i) = Position(q, topk[q], counts, j) => r = q /\ i = j
           /\ \A n \in Nat : n < Totals(counts)[e] =>
                  \E r \in Ranks, i \in Slots :
                      topk[r][i] = e /\ Position(r, topk[r], counts, i) = n
<1>1. PICK first, after :
          /\ Laid(NumRanks - 1, first, after)
          /\ \A r \in Ranks : /\ first[r] = EntriesBefore(counts, e, r)
                              /\ after[r] = first[r] + TokensPerExpert(topk[r])[e]
          /\ after[NumRanks - 1] = Totals(counts)[e]
  <2>1. \E first, after :
               /\ Laid(NumRanks - 1, first, after)
               /\ \A r \in Ranks : /\ first[r] = EntriesBefore(counts, e, r)
                                   /\ after[r] = EntriesUpTo(counts, e, r)
                                   /\ after[r] = first[r] + TokensPerExpert(topk[r])[e]
               /\ after[NumRanks - 1] = Totals(counts)[e]
    BY EntriesLaid
  <2> QED
    BY <2>1
<1>2. PICK m : m = NumRanks - 1 /\ Ranks = 0 .. m /\ m \in Ranks /\ m \in Nat
  BY RanksInterval
<1>3. Laid(m, first, after) /\ after[m] = Totals(counts)[e]
  BY <1>1, <1>2
<1>4. \A r \in Ranks : first[r] \in Nat /\ after[r] \in Nat /\ after[r] <= after[m]
  <2> SUFFICES ASSUME NEW r \in Ranks PROVE first[r] \in Nat /\ after[r] \in Nat /\ after[r] <= after[m]
    OBVIOUS
  <2>1. r \in 0 .. m
    BY <1>2
  <2> QED
    BY <1>3, <2>1, LaidWithin DEF Laid
<1>5. \A r \in Ranks : topk[r] \in [Slots -> Experts]
  BY DEF Counted
<1>6. ASSUME NEW r \in Ranks, NEW i \in Slots, topk[r][i] = e
      PROVE  /\ Position(r, topk[r], counts, i) = first[r] + LocalRank(topk[r], i)
             /\ LocalRank(topk[r], i) \in Nat /\ Position(r, topk[r], counts, i) \in Nat
             /\ first[r] <= Position(r, topk[r], counts, i)
             /\ Position(r, topk[r], counts, i) < after[r]
  <2>0. /\ Position(r, topk[r], counts, i) =
               EntriesBefore(counts, topk[r][i], r) + LocalRank(topk[r], i)
        /\ first[r] = EntriesBefore(counts, e, r)
    BY <1>1, PositionIs
  <2>1. Position(r, topk[r], counts, i) = first[r] + LocalRank(topk[r], i)
    BY <1>6, <2>0
  <2>2. LocalRank(topk[r], i) \in Nat /\ LocalRank(topk[r], i) < TokensPerExpert(topk[r])[e]
    BY <1>5, <1>6, RanksOfEntries
  <2>3. after[r] = first[r] + TokensPerExpert(topk[r])[e] /\ TokensPerExpert(topk[r])[e] \in Nat
    BY <1>1, <1>5, CountNat
  <2>4. first[r] \in Nat
    BY <1>4
  <2> QED
    BY <2>1, <2>2, <2>3, <2>4
<1>7. ASSUME NEW r \in Ranks, NEW i \in Slots, topk[r][i] = e
      PROVE  Position(r, topk[r], counts, i) < Totals(counts)[e]
  <2>1. /\ Position(r, topk[r], counts, i) \in Nat /\ Position(r, topk[r], counts, i) < after[r]
    BY <1>6, <1>7
  <2>2. after[r] \in Nat /\ after[m] \in Nat /\ after[r] <= after[m]
    BY <1>2, <1>4
  <2> QED
    BY <1>3, <2>1, <2>2
<1>8. ASSUME NEW r \in Ranks, NEW q \in Ranks, NEW i \in Slots, NEW j \in Slots,
             topk[r][i] = e, topk[q][j] = e, r < q
      PROVE  Position(r, topk[r], counts, i) # Position(q, topk[q], counts, j)
  <2>1. r \in 0 .. m /\ q \in 0 .. m
    BY <1>2
  <2>2. after[r] <= first[q] /\ after[r] \in Nat /\ first[q] \in Nat
    BY <1>3, <1>4, <1>8, <2>1, LaidInOrder
  <2>3. Position(r, topk[r], counts, i) < after[r] /\ Position(r, topk[r], counts, i) \in Nat
    BY <1>6, <1>8
  <2>4. first[q] <= Position(q, topk[q], counts, j) /\ Position(q, topk[q], counts, j) \in Nat
    BY <1>6, <1>8
  <2> QED
    BY <2>2, <2>3, <2>4
<1>9. ASSUME NEW r \in Ranks, NEW q \in Ranks, NEW i \in Slots, NEW j \in Slots,
             topk[r][i] = e, topk[q][j] = e,
             Position(r, topk[r], counts, i) = Position(q, topk[q], counts, j)
      PROVE  r = q /\ i = j
  <2>1. r = q
    <3>1. ~(r < q) /\ ~(q < r)
      BY <1>8, <1>9
    <3> QED
      BY <3>1, RanksInterval
  <2>2. first[r] + LocalRank(topk[r], i) = first[r] + LocalRank(topk[r], j)
    BY <1>6, <1>9, <2>1
  <2>3. LocalRank(topk[r], i) \in Nat /\ LocalRank(topk[r], j) \in Nat /\ first[r] \in Nat
    BY <1>4, <1>6, <1>9, <2>1
  <2>4. LocalRank(topk[r], i) = LocalRank(topk[r], j)
    BY <2>2, <2>3
  <2> QED
    BY <1>5, <1>9, <2>1, <2>4, RanksOfEntries
<1>10. ASSUME NEW n \in Nat, n < Totals(counts)[e]
       PROVE  \E r \in Ranks, i \in Slots : topk[r][i] = e /\ Position(r, topk[r], counts, i) = n
  <2>1. PICK r \in 0 .. m : first[r] <= n /\ n < after[r]
    BY <1>3, <1>10, LaidCovers
  <2>2. r \in Ranks /\ first[r] \in Nat /\ after[r] = first[r] + TokensPerExpert(topk[r])[e]
        /\ TokensPerExpert(topk[r])[e] \in Nat
    BY <1>1, <1>2, <1>4, <1>5, <2>1, CountNat
  <2>3. PICK l \in Nat : l = n - first[r] /\ l < TokensPerExpert(topk[r])[e] /\ n = first[r] + l
    BY <2>1, <2>2
  <2>4. PICK i \in Slots : topk[r][i] = e /\ LocalRank(topk[r], i) = l
    BY <1>5, <2>2, <2>3, RanksOfEntries
  <2>5. Position(r, topk[r], counts, i) = n
    BY <1>6, <2>2, <2>3, <2>4
  <2> QED
    BY <2>2, <2>4, <2>5
<1> QED
  BY <1>6, <1>7, <1>9, <1>10

\* Every entry of every rank is counted.
LEMMA AllRouted ==
    ASSUME NEW topk, NEW counts, Counted(topk, counts) PROVE Routed(Totals(counts))
<1>1. \A r \in Ranks : topk[r] \in [Slots -> Experts] /\ counts[r] = TokensPerExpert(topk[r])
  BY DEF Counted
<1>2. PICK c : c = Totals(counts)
  OBVIOUS
<1>3. ASSUME NEW r \in Ranks PROVE SumFunctionOnSet(counts[r], Experts) = Cap
  <2>1. PICK one, of : /\ one = [i \in Slots |-> 1]
                       /\ of = [e \in Experts |-> {i \in Slots : topk[r][i] = e}]
    OBVIOUS
  <2>2. ASSUME NEW e \in Experts PROVE counts[r][e] = SumFunctionOnSet(one, of[e])
    <3>1. of[e] = {i \in Slots : topk[r][i] = e} /\ of[e] \subseteq Slots
      BY <2>1
    <3>2. IsFiniteSet(of[e]) /\ Cardinality(of[e]) \in Nat
      BY <3>1, SlotsFinite, FS_Subset, FS_CardinalityType
    <3>3. \A i \in of[e] : one[i] = 1
      BY <2>1, <3>1
    <3>4. SumFunctionOnSet(one, of[e]) = Cardinality(of[e]) * 1
      BY <3>2, <3>3, SumConst
    <3>5. counts[r][e] = Cardinality(of[e])
      BY <1>1, <3>1, CountNat
    <3> QED
      BY <3>2, <3>4, <3>5
  <2>3. /\ \A i \in Slots : one[i] \in Int
        /\ \A e \in Experts : \A i : i \in of[e] <=> i \in Slots /\ topk[r][i] = e
    BY <2>1
  <2>4. IsFiniteSet(Slots) /\ IsFiniteSet(Experts) /\ topk[r] \in [Slots -> Experts]
    BY <1>1, SlotsFinite, ExpertsFinite
  <2>5. Splits(one, Slots, Experts, topk[r], of, counts[r])
    BY <2>2, <2>3, <2>4 DEF Splits
  <2>6. SumFunctionOnSet(counts[r], Experts) = SumFunctionOnSet(one, Slots)
    BY <2>5, SumSplit
  <2>7. SumFunctionOnSet(one, Slots) = Cardinality(Slots) * 1
    <3>1. \A i \in Slots : one[i] = 1
      BY <2>1
    <3> QED
      BY <2>4, <3>1, SumConst
  <2> QED
    BY <2>6, <2>7, SlotsFinite, SizesNat
<1>4. c = [e \in Experts |-> SumFunction([r \in Ranks |-> counts[r][e]])]
  BY <1>2 DEF Totals
<1>5. ASSUME NEW e \in Experts
      PROVE  c[e] = SumFunctionOnSet([r \in Ranks |-> counts[r][e]], Ranks)
  <2>1. PICK col : col = [r \in Ranks |-> counts[r][e]]
    OBVIOUS
  <2>2. SumFunction(col) = SumFunctionOnSet(col, DOMAIN col) /\ DOMAIN col = Ranks
    BY <2>1 DEF SumFunction, FoldFunction, SumFunctionOnSet
  <2>3. c[e] = SumFunction(col)
    BY <1>4, <2>1
  <2> QED
    BY <2>1, <2>2, <2>3
<1>6. ASSUME NEW r \in Ranks, NEW e \in Experts PROVE counts[r][e] \in Nat
  BY <1>1, CountNat
<1>7. ASSUME NEW e \in Experts PROVE c[e] \in Nat
  <2>1. PICK col : col = [r \in Ranks |-> counts[r][e]]
    OBVIOUS
  <2>2. \A r \in Ranks : col[r] \in Nat
    BY <1>6, <2>1
  <2>3. SumFunctionOnSet(col, Ranks) \in Nat
    BY <2>2, RanksFinite, SumNat
  <2> QED
    BY <1>5, <2>1, <2>3
<1>8. c \in [Experts -> Nat]
  BY <1>4, <1>7
<1>9. PICK full, t : /\ full = [r \in Ranks |-> Cap]
                     /\ t = [e \in Experts |-> [r \in Ranks |-> counts[r][e]]]
  OBVIOUS
<1>10. AddedUp(Ranks, Experts, counts, t, full, c)
  <2>1. \A r \in Ranks, e \in Experts : counts[r][e] \in Int /\ t[e][r] = counts[r][e]
    BY <1>6, <1>9
  <2>2. \A r \in Ranks : full[r] = SumFunctionOnSet(counts[r], Experts)
    BY <1>3, <1>9
  <2>3. \A e \in Experts : c[e] = SumFunctionOnSet(t[e], Ranks)
    <3> SUFFICES ASSUME NEW e \in Experts PROVE c[e] = SumFunctionOnSet(t[e], Ranks)
      OBVIOUS
    <3>1. t[e] = [r \in Ranks |-> counts[r][e]]
      BY <1>9
    <3> QED
      BY <1>5, <3>1
  <2> QED
    BY <2>1, <2>2, <2>3, RanksFinite, ExpertsFinite DEF AddedUp
<1>11. SumFunctionOnSet(full, Ranks) = SumFunctionOnSet(c, Experts)
  BY <1>10, SumTable
<1>12. SumFunctionOnSet(full, Ranks) = NumRanks * Cap
  <2>1. \A r \in Ranks : full[r] = Cap
    BY <1>9
  <2>2. Cap \in Int
    BY SizesNat
  <2> QED
    BY <2>1, <2>2, SumOverRanks
<1> QED
  BY <1>2, <1>8, <1>11, <1>12 DEF Routed

-----------------------------------------------------------------------------
(* The entries of an expert are dealt to the ranks. *)

DealtBefore(a, e, d) == SumFunctionOnSet(a[e], 0 .. (d - 1))

LEMMA DealtLaid ==
    ASSUME NEW a \in [Experts -> [Ranks -> Nat]], NEW e \in Experts
    PROVE  \E first, after :
               /\ Laid(NumRanks - 1, first, after)
               /\ \A d \in Ranks : /\ first[d] = DealtBefore(a, e, d)
                                   /\ after[d] = AllocUpTo(a, e, d)
                                   /\ after[d] = first[d] + a[e][d]
               /\ after[NumRanks - 1] = Placed(a, e)
<1>1. PICK row, first, after :
          /\ row = a[e] /\ row \in [Ranks -> Nat]
          /\ first = [d \in Ranks |-> DealtBefore(a, e, d)]
          /\ after = [d \in Ranks |-> AllocUpTo(a, e, d)]
  OBVIOUS
<1>2. \A d \in Ranks : /\ first[d] = SumFunctionOnSet(row, 0 .. (d - 1))
                       /\ after[d] = SumFunctionOnSet(row, 0 .. d)
  BY <1>1 DEF DealtBefore, AllocUpTo
<1>3. PICK n : n = NumRanks - 1 /\ n \in Nat /\ Ranks = 0 .. n /\ n \in Ranks
  BY RanksInterval
<1>4. SumsUpTo(n, row, first, after)
  BY <1>1, <1>2, <1>3 DEF SumsUpTo
<1>5. Laid(n, first, after) /\ \A d \in Ranks : after[d] = first[d] + row[d]
  BY <1>3, <1>4, SumsLaid
<1>6. after[n] = Placed(a, e)
  <2>1. Placed(a, e) = SumFunction(row)
    BY <1>1 DEF Placed
  <2>2. SumFunction(row) = SumFunctionOnSet(row, DOMAIN row) /\ DOMAIN row = Ranks
    BY <1>1 DEF SumFunction, FoldFunction, SumFunctionOnSet
  <2>3. after[n] = SumFunctionOnSet(row, Ranks)
    BY <1>2, <1>3
  <2> QED
    BY <2>1, <2>2, <2>3
<1>7. \A d \in Ranks : first[d] = DealtBefore(a, e, d) /\ after[d] = AllocUpTo(a, e, d)
  BY <1>1
<1>8. \A d \in Ranks : after[d] = first[d] + a[e][d]
  BY <1>1, <1>5
<1> QED
  BY <1>3, <1>5, <1>6, <1>7, <1>8

LEMMA DealtNat ==
    ASSUME NEW a \in [Experts -> [Ranks -> Nat]], NEW e \in Experts, NEW d \in Ranks
    PROVE  /\ DealtBefore(a, e, d) \in Nat
           /\ AllocUpTo(a, e, d) = DealtBefore(a, e, d) + a[e][d]
           /\ AllocUpTo(a, e, d) <= Placed(a, e) /\ Placed(a, e) \in Nat
           /\ \A q \in Ranks : q < d => AllocUpTo(a, e, q) <= DealtBefore(a, e, d)
<1>1. PICK first, after :
          /\ Laid(NumRanks - 1, first, after)
          /\ \A q \in Ranks : /\ first[q] = DealtBefore(a, e, q)
                              /\ after[q] = AllocUpTo(a, e, q)
                              /\ after[q] = first[q] + a[e][q]
          /\ after[NumRanks - 1] = Placed(a, e)
  BY DealtLaid
<1>2. PICK m : m = NumRanks - 1 /\ Ranks = 0 .. m /\ m \in Ranks /\ m \in Nat
  BY RanksInterval
<1>3. Laid(m, first, after) /\ after[m] = Placed(a, e)
  BY <1>1, <1>2
<1>4. d \in 0 .. m
  BY <1>2
<1>5. first[d] \in Nat /\ after[d] <= after[m] /\ after[m] \in Nat
  BY <1>2, <1>3, <1>4, LaidWithin DEF Laid
<1>6. ASSUME NEW q \in Ranks, q < d PROVE after[q] <= first[d]
  <2>1. q \in 0 .. m
    BY <1>2
  <2> QED
    BY <1>3, <1>4, <1>6, <2>1, LaidInOrder
<1> QED
  BY <1>1, <1>3, <1>5, <1>6

\* compute_dst_kernel finds the rank that a position is dealt to.
LEMMA DealtTo ==
    ASSUME NEW a \in [Experts -> [Ranks -> Nat]], NEW e \in Experts, NEW d \in Ranks,
           NEW s \in Nat, s < a[e][d], NEW n, n = DealtBefore(a, e, d) + s,
           NEW passed, passed = Passed(a, e, n)
    PROVE  /\ (IF passed = {} THEN 0 ELSE Max(passed) + 1) = d
           /\ SegPos(a, e, n, d) = s
<1>1. /\ DealtBefore(a, e, d) \in Nat
      /\ AllocUpTo(a, e, d) = DealtBefore(a, e, d) + a[e][d]
      /\ a[e][d] \in Nat
  BY DealtNat
<1>2. n \in Nat /\ DealtBefore(a, e, d) <= n /\ n < AllocUpTo(a, e, d)
  BY <1>1
<1>3. \A q \in Ranks : AllocUpTo(a, e, q) \in Nat
  BY DealtNat
<1>4. \A q \in Ranks : q \in passed <=> n >= AllocUpTo(a, e, q)
  BY DEF Passed
<1>5. passed \subseteq Ranks
  BY DEF Passed
<1>6. ASSUME NEW q \in Ranks, q < d PROVE q \in passed
  <2>1. AllocUpTo(a, e, q) <= DealtBefore(a, e, d)
    BY <1>6, DealtNat
  <2> QED
    BY <1>1, <1>2, <1>3, <1>4, <2>1
<1>7. ASSUME NEW q \in Ranks, ~(q < d) PROVE q \notin passed
  <2>1. CASE q = d
    BY <1>2, <1>3, <1>4, <2>1
  <2>2. CASE q # d
    <3>1. d < q
      BY <1>7, <2>2, RanksInterval
    <3>2. AllocUpTo(a, e, d) <= DealtBefore(a, e, q)
      BY <3>1, DealtNat
    <3>3. AllocUpTo(a, e, q) = DealtBefore(a, e, q) + a[e][q] /\ DealtBefore(a, e, q) \in Nat
          /\ a[e][q] \in Nat
      BY DealtNat
    <3> QED
      BY <1>2, <1>3, <1>4, <3>2, <3>3
  <2> QED
    BY <2>1, <2>2
<1>8. (IF passed = {} THEN 0 ELSE Max(passed) + 1) = d
  <2>1. CASE d = 0
    <3>1. \A q \in Ranks : ~(q < 0)
      BY RanksInterval
    <3>2. passed = {}
      BY <1>5, <1>7, <2>1, <3>1
    <3> QED
      BY <2>1, <3>2
  <2>2. CASE d # 0
    <3>1. d \in Nat /\ d - 1 \in Ranks /\ d - 1 < d /\ \A q \in Ranks : q < d => q <= d - 1
      BY <2>2, RanksInterval
    <3>2. d - 1 \in passed
      BY <1>6, <3>1
    <3>3. \A q \in passed : q <= d - 1
      BY <1>5, <1>7, <3>1
    <3>4. Max(passed) = d - 1
      <4>1. passed \subseteq Nat
        BY <1>5, RanksInterval
      <4>2. \A x \in passed : (\A y \in passed : x >= y) => x = d - 1
        <5> SUFFICES ASSUME NEW x \in passed, \A y \in passed : x >= y PROVE x = d - 1
          OBVIOUS
        <5>1. x >= d - 1 /\ x <= d - 1 /\ x \in Nat
          BY <3>2, <3>3, <4>1
        <5> QED
          BY <3>1, <5>1
      <4>3. \A y \in passed : d - 1 >= y
        BY <3>1, <3>3, <4>1
      <4> QED
        BY <3>2, <4>2, <4>3 DEF Max
    <3> QED
      BY <3>1, <3>2, <3>4
  <2> QED
    BY <2>1, <2>2
<1>9. (IF d = 0 THEN 0 ELSE AllocUpTo(a, e, d - 1)) = DealtBefore(a, e, d)
  <2>1. CASE d = 0
    <3>1. 0 .. (0 - 1) = {}
      OBVIOUS
    <3> QED
      BY <2>1, <3>1, SumEmpty DEF DealtBefore
  <2>2. CASE d # 0
    BY <2>2 DEF DealtBefore, AllocUpTo
  <2> QED
    BY <2>1, <2>2
<1>10. SegPos(a, e, n, d) = s
  BY <1>1, <1>9 DEF SegPos
<1> QED
  BY <1>8, <1>10

\* Entry i of rank r is the one of group g of rank d that has s others before it.
Lands(topk, counts, a, r, i, d, g, s) ==
    /\ d \in Ranks /\ g \in Groups /\ s \in Nat
    /\ GroupExpert(a, d)[g] = topk[r][i]
    /\ s < a[topk[r][i]][d]
    /\ Position(r, topk[r], counts, i) = DealtBefore(a, topk[r][i], d) + s

\* The plan of all ranks for the entries topk.
Fits(topk, counts, a) == Counted(topk, counts) /\ GoodAlloc(Totals(counts), a)

LEMMA EachLands ==
    ASSUME NEW topk, NEW counts, NEW a, Fits(topk, counts, a), NEW r \in Ranks, NEW i \in Slots
    PROVE  \E d, g, s : Lands(topk, counts, a, r, i, d, g, s)
<1>1. PICK e \in Experts : e = topk[r][i]
  BY DEF Fits, Counted
<1>2. PICK n \in Nat : n = Position(r, topk[r], counts, i) /\ n < Totals(counts)[e]
  BY <1>1, PositionsOfEntries DEF Fits
<1>3. a \in [Experts -> [Ranks -> Nat]] /\ Placed(a, e) = Totals(counts)[e]
  BY DEF Fits, GoodAlloc
<1>4. PICK first, after :
          /\ Laid(NumRanks - 1, first, after)
          /\ \A q \in Ranks : /\ first[q] = DealtBefore(a, e, q)
                              /\ after[q] = AllocUpTo(a, e, q)
                              /\ after[q] = first[q] + a[e][q]
          /\ after[NumRanks - 1] = Placed(a, e)
  BY <1>3, DealtLaid
<1>5. PICK m : m = NumRanks - 1 /\ Ranks = 0 .. m
  BY RanksInterval
<1>6. Laid(m, first, after) /\ n < after[m]
  BY <1>2, <1>3, <1>4, <1>5
<1>7. PICK d \in 0 .. m : first[d] <= n /\ n < after[d]
  BY <1>2, <1>6, LaidCovers
<1>8. d \in Ranks /\ first[d] \in Nat /\ a[e][d] \in Nat /\ after[d] = first[d] + a[e][d]
      /\ first[d] = DealtBefore(a, e, d)
  BY <1>3, <1>4, <1>5, <1>6, <1>7 DEF Laid
<1>9. PICK s \in Nat : s = n - first[d] /\ s < a[e][d] /\ n = first[d] + s
  BY <1>7, <1>8
<1>10. PICK g \in Groups : GroupExpert(a, d)[g] = e
  BY GroupOfExpert
<1>11. Lands(topk, counts, a, r, i, d, g, s)
  BY <1>1, <1>2, <1>8, <1>9, <1>10 DEF Lands
<1> QED
  BY <1>11

LEMMA EachRowTaken ==
    ASSUME NEW topk, NEW counts, NEW a, Fits(topk, counts, a), NEW d \in Ranks, NEW g \in Groups,
           NEW e \in Experts, GroupExpert(a, d)[g] = e, NEW s \in Nat, s < a[e][d]
    PROVE  \E r \in Ranks, i \in Slots : Lands(topk, counts, a, r, i, d, g, s)
<1>1. a \in [Experts -> [Ranks -> Nat]] /\ Placed(a, e) = Totals(counts)[e]
  BY DEF Fits, GoodAlloc
<1>2. /\ DealtBefore(a, e, d) \in Nat
      /\ AllocUpTo(a, e, d) = DealtBefore(a, e, d) + a[e][d]
      /\ AllocUpTo(a, e, d) <= Placed(a, e) /\ Placed(a, e) \in Nat /\ a[e][d] \in Nat
  BY <1>1, DealtNat
<1>3. PICK n \in Nat : n = DealtBefore(a, e, d) + s /\ n < Totals(counts)[e]
  BY <1>1, <1>2
<1>4. PICK r \in Ranks, i \in Slots : topk[r][i] = e /\ Position(r, topk[r], counts, i) = n
  BY <1>3, PositionsOfEntries DEF Fits
<1>5. Lands(topk, counts, a, r, i, d, g, s)
  BY <1>3, <1>4 DEF Lands
<1> QED
  BY <1>5

LEMMA LandsOnce ==
    ASSUME NEW topk, NEW counts, NEW a, Fits(topk, counts, a), NEW d, NEW g, NEW s,
           NEW r \in Ranks, NEW i \in Slots, Lands(topk, counts, a, r, i, d, g, s),
           NEW q \in Ranks, NEW j \in Slots, Lands(topk, counts, a, q, j, d, g, s)
    PROVE  r = q /\ i = j
<1>1. PICK e \in Experts : e = topk[r][i]
  BY DEF Fits, Counted
<1>2. topk[q][j] = e
  BY <1>1 DEF Lands
<1>3. Position(r, topk[r], counts, i) = Position(q, topk[q], counts, j)
  BY <1>1, <1>2 DEF Lands
<1> QED
  BY <1>1, <1>2, <1>3, PositionsOfEntries DEF Fits

\* The rank and the row of a destination.
LEMMA RowOfDst ==
    ASSUME NEW d \in Ranks, NEW l \in Nat, l < NvS, NEW v, v = d * NvS + l
    PROVE  v \in Nat /\ DestRank(v) = d /\ DestRow(v) = l
<1>1. PICK n \in Nat : n = NvS /\ n > 0
  BY SizesNat
<1>2. d \in Nat
  BY RanksInterval
<1>3. d * n \in Nat /\ v = d * n + l /\ v \in Nat
  BY <1>1, <1>2
<1>4. PICK q : q = v \div n
  OBVIOUS
<1>5. q \in Nat /\ q * n <= v /\ v < q * n + n /\ q * n \in Nat
  <2>0. v \in Nat /\ n \in Nat \ {0}
    BY <1>1, <1>3
  <2>1. q \in Nat /\ v = n * q + (v % n) /\ (v % n) \in 0 .. (n - 1)
    <3> HIDE DEF NvS
    <3> QED
      BY <1>4, <2>0, SMTT(30)
  <2>2. n * q = q * n /\ q * n \in Nat
    BY <1>1, <2>1
  <2> QED
    BY <1>1, <2>1, <2>2
<1>6. \A x, y \in Nat : x < y => x * n + n <= y * n
  <2> SUFFICES ASSUME NEW x \in Nat, NEW y \in Nat, x < y PROVE x * n + n <= y * n
    OBVIOUS
  <2>1. (x + 1) * n <= y * n /\ (x + 1) * n = x * n + n
    BY <1>1
  <2> QED
    BY <2>1
<1>7. ~(q < d)
  <2> SUFFICES ASSUME q < d PROVE FALSE
    OBVIOUS
  <2>1. q * n + n <= d * n
    BY <1>2, <1>5, <1>6
  <2> QED
    BY <1>1, <1>3, <1>5, <2>1
<1>8. ~(d < q)
  <2> SUFFICES ASSUME d < q PROVE FALSE
    OBVIOUS
  <2>1. d * n + n <= q * n
    BY <1>2, <1>5, <1>6
  <2> QED
    BY <1>1, <1>3, <1>5, <2>1
<1>9. q = d
  BY <1>2, <1>5, <1>7, <1>8
<1>10. DestRank(v) = d
  BY <1>1, <1>4, <1>9 DEF DestRank
<1>11. DestRow(v) = l
  BY <1>1, <1>3, <1>10 DEF DestRow
<1> QED
  BY <1>3, <1>10, <1>11

\* The row of an entry lies in its segment, before the padding.
LEMMA RowOfLanding ==
    ASSUME NEW topk, NEW counts, NEW a, Fits(topk, counts, a), NEW r \in Ranks, NEW i \in Slots,
           NEW d, NEW g, NEW s, Lands(topk, counts, a, r, i, d, g, s),
           NEW l, l = GroupStart(a, d)[g] + s
    PROVE  /\ RawDst(r, topk[r], counts, a, Layouts(a), i) = d * NvS + l
           /\ l \in Nat /\ l < NvS /\ GroupStart(a, d)[g] \in Nat
           /\ l < GroupStart(a, d)[g] + GroupCount(a, d)[g]
           /\ l < CuSeqlens(a, d)[g]
<1>1. PICK e \in Experts : e = topk[r][i]
  BY DEF Fits, Counted
<1>2. a \in [Experts -> [Ranks -> Nat]]
  BY DEF Fits, GoodAlloc
<1>3. /\ d \in Ranks /\ g \in Groups /\ s \in Nat /\ GroupExpert(a, d)[g] = e /\ s < a[e][d]
      /\ Position(r, topk[r], counts, i) = DealtBefore(a, e, d) + s
  BY <1>1 DEF Lands
<1>4. a[e][d] \in Nat /\ a[e][d] # 0 /\ e # None
  BY <1>2, <1>3, GroupsIntervals
<1>5. PICK start, count, cu : /\ start = GroupStart(a, d) /\ count = GroupCount(a, d)
                              /\ cu = CuSeqlens(a, d)
  OBVIOUS
<1>6. /\ Laid(NumExperts + PrefetchSlots - 1, start, cu)
      /\ cu[g] = start[g] + Padded(count[g])
  BY <1>2, <1>3, <1>5, SegmentsLaid
<1>7. count[g] = a[e][d]
  BY <1>2, <1>3, <1>4, <1>5, CountsOfGroups
<1>8. start[g] \in Nat /\ cu[g] \in Nat
  BY <1>3, <1>6, GroupsIntervals DEF Laid
<1>9. count[g] <= Padded(count[g]) /\ Padded(count[g]) \in Nat
  BY <1>4, <1>7, PaddedRows
<1>10. cu[g] <= NvS
  BY <1>3, <1>5, SegmentsFit DEF Fits
<1>11. l \in Nat /\ l < start[g] + count[g] /\ l < cu[g] /\ l < NvS
  <2>1. PICK x, c, u, w, p : /\ x = start[g] /\ c = count[g] /\ u = cu[g]
                             /\ w = NvS /\ p = Padded(count[g])
    OBVIOUS
  <2>2. c \in Nat /\ s < c
    BY <1>3, <1>4, <1>7, <2>1
  <2>3. /\ x \in Nat /\ u \in Nat /\ w \in Nat /\ p \in Nat /\ s \in Nat
        /\ c <= p /\ u = x + p /\ u <= w
    BY <1>3, <1>6, <1>8, <1>9, <1>10, <2>1, SizesNat
  <2>4. l = x + s
    BY <1>5, <2>1
  <2>5. l \in Nat /\ l < x + c /\ l < u /\ l < w
    BY <2>2, <2>3, <2>4
  <2> QED
    BY <2>1, <2>5
<1>12. PICK n, passed : /\ n = DealtBefore(a, e, d) + s /\ passed = Passed(a, e, n)
                        /\ n = Position(r, topk[r], counts, i)
  BY <1>3
<1>13. /\ (IF passed = {} THEN 0 ELSE Max(passed) + 1) = d
       /\ SegPos(a, e, n, d) = s
  BY <1>2, <1>3, <1>12, DealtTo
<1>14. Layouts(a)[d].expertOff[e] = start[g]
  <2>1. Layouts(a)[d].expertOff = ExpertOff(a, d)
    BY <1>3 DEF Layouts, LayoutOf
  <2> QED
    BY <1>3, <1>4, <1>5, <2>1, OffsetOfExpert
<1>15. RawDst(r, topk[r], counts, a, Layouts(a), i) = d * NvS + start[g] + s
  <2>1. PICK L : L = Layouts(a)
    OBVIOUS
  <2>2. RawDst(r, topk[r], counts, a, L, i) =
            d * NvS + L[d].expertOff[e] + SegPos(a, e, n, d)
    BY <1>1, <1>12, <1>13 DEF RawDst
  <2> QED
    BY <1>13, <1>14, <2>1, <2>2
<1>16. d * NvS + start[g] + s = d * NvS + l
  <2>1. PICK k : k = d * NvS /\ k \in Int
    BY <1>3, RanksInterval, SizesNat
  <2> QED
    BY <1>3, <1>5, <1>8, <2>1
<1> QED
  BY <1>5, <1>8, <1>11, <1>15, <1>16

-----------------------------------------------------------------------------
(* The marks of the encoder. *)

\* A rank reads the destinations by Canonical on both ways (dispatch.py:68-70,
\* combine.py:54-56): whatever was marked, row 0 of rank 0 included, it is led to
\* the row that planning chose, and it knows by the sign what was marked.
THEOREM MarksUndone ==
    ASSUME NEW dst \in [Slots -> Nat], NEW i \in Slots
    PROVE  /\ Canonical(EncodeDuplicates(dst)[i]) = dst[i]
           /\ EncodeDuplicates(dst)[i] < 0 <=> IsDuplicate(dst, i)
BY DEF EncodeDuplicates, Marked, Canonical

\* Two entries of a token are different choices of it.
LEMMA ChoicesDiffer ==
    ASSUME NEW i \in Slots, NEW j \in Slots, i # j, TokenOf(i) = TokenOf(j)
    PROVE  ChoiceOf(i) \in Nat /\ ChoiceOf(j) \in Nat /\ ChoiceOf(i) # ChoiceOf(j)
<1>1. TopK \in Nat \ {0} /\ i \in Nat /\ j \in Nat
  BY TokensAssumption DEF Slots
<1>2. /\ i = TopK * (i \div TopK) + (i % TopK)
      /\ j = TopK * (j \div TopK) + (j % TopK)
      /\ (i % TopK) \in Nat /\ (j % TopK) \in Nat
  BY <1>1, SMTT(30)
<1> QED
  BY <1>2 DEF TokenOf, ChoiceOf

\* The entries of a token that go to one rank.
Together(dst, token, rank) ==
    {i \in Slots : TokenOf(i) = token /\ DestRank(Canonical(EncodeDuplicates(dst)[i])) = rank}

\* Of the entries of a token that go to one rank, the one with the least choice is
\* not marked, and all others are: the rank is sent the token once, by an entry
\* that the deduplication map on that rank finds as well (_dedup_builder.py:57-58).
THEOREM OneUnmarked ==
    ASSUME NEW dst \in [Slots -> Nat], NEW token, NEW rank,
           NEW here, here = Together(dst, token, rank), here # {}
    PROVE  \E i \in here :
               /\ EncodeDuplicates(dst)[i] >= 0
               /\ \A j \in here \ {i} :
                      EncodeDuplicates(dst)[j] < 0 /\ ChoiceOf(i) < ChoiceOf(j)
<1>1. here = {i \in Slots : TokenOf(i) = token /\ DestRank(dst[i]) = rank}
  BY MarksUndone DEF Together
<1>2. \A i \in here : ChoiceOf(i) \in Nat
  <2> SUFFICES ASSUME NEW i \in here PROVE ChoiceOf(i) \in Nat
    OBVIOUS
  <2>1. i \in Nat /\ TopK \in Nat \ {0}
    BY <1>1, TokensAssumption DEF Slots
  <2> QED
    BY <2>1 DEF ChoiceOf
<1>3. PICK n \in {ChoiceOf(i) : i \in here} : \A m \in {ChoiceOf(i) : i \in here} : n <= m
  <2> DEFINE T == {ChoiceOf(i) : i \in here}
  <2>1. T \subseteq Nat /\ T # {}
    BY <1>2
  <2> HIDE DEF T
  <2>2. \E n \in T : \A m \in T : n <= m
    BY <2>1, LeastOf
  <2> QED
    BY <2>2 DEF T
<1>4. PICK i \in here : \A j \in here : ChoiceOf(i) <= ChoiceOf(j)
  BY <1>3
<1>5. \A j \in here \ {i} : ChoiceOf(i) < ChoiceOf(j)
  <2> SUFFICES ASSUME NEW j \in here \ {i} PROVE ChoiceOf(i) < ChoiceOf(j)
    OBVIOUS
  <2>1. ChoiceOf(i) \in Nat /\ ChoiceOf(j) \in Nat /\ ChoiceOf(i) # ChoiceOf(j)
    BY <1>1, ChoicesDiffer
  <2> QED
    BY <1>4, <2>1
<1>6. \A j \in here \ {i} : IsDuplicate(dst, j)
  BY <1>1, <1>5 DEF IsDuplicate
<1>7. ~IsDuplicate(dst, i)
  <2> SUFFICES ASSUME NEW j \in Slots, TokenOf(j) = TokenOf(i),
                      ChoiceOf(j) < ChoiceOf(i), DestRank(dst[j]) = DestRank(dst[i])
               PROVE  FALSE
    BY DEF IsDuplicate
  <2>1. j \in here
    BY <1>1
  <2> QED
    BY <1>2, <1>4, <2>1
<1>8. dst[i] \in Nat /\ EncodeDuplicates(dst)[i] = dst[i]
  BY <1>1, <1>7 DEF EncodeDuplicates
<1>9. \A j \in here \ {i} : EncodeDuplicates(dst)[j] < 0
  BY <1>1, <1>6, MarksUndone
<1> QED
  BY <1>5, <1>8, <1>9

-----------------------------------------------------------------------------
(* Planning on all ranks. *)

PlanLabels == {"idle", "publish_counts", "gather_counts", "balance", "lay_out",
               "publish_sources", "publish_scratch", "encode", "planned", "raised"}

\* The variables that the argument is about.
PlanningTypeOK ==
    /\ gathered \in [1 .. Rounds -> BOOLEAN]
    /\ round \in [Ranks -> 0 .. Rounds]
    /\ pc \in [Ranks -> PlanLabels]
    /\ DOMAIN tpeRow = Ranks /\ DOMAIN srcInfo = Ranks /\ DOMAIN tpe = Ranks
    /\ \A r \in Ranks : round[r] = 0 <=> pc[r] = "idle"
    /\ \A r \in Ranks : pc[r] = "gather_counts" => ~HasCounts(r)

\* The barriers of round n, those up to a label of it, and of all of it.
Extra(n) == IF gathered[n] \/ NumRanks = 1 THEN 0 ELSE 1
Rest == IF NumRanks > 1 THEN 3 ELSE 2
Barriers(label, n) ==
    IF label \in {"idle", "publish_counts"} THEN 0
    ELSE IF label = "gather_counts" THEN 1
    ELSE IF label = "publish_sources" THEN Extra(n) + 1
    ELSE IF label = "publish_scratch" THEN Extra(n) + 2
    ELSE IF label \in {"encode", "planned"} THEN Extra(n) + Rest
    ELSE Extra(n)
AllBarriers(n) == IF n = 0 THEN 0 ELSE Extra(n) + Rest
SoFar(r) == Barriers(pc[r], round[r])

\* Ranks are at most a round apart, and have arrived at barriers accordingly.
Apart(r, q) ==
    /\ round[q] <= round[r] + 1
    /\ round[q] = round[r] => arrived[q] + SoFar(r) = arrived[r] + SoFar(q)
    /\ round[q] = round[r] + 1 =>
           arrived[q] + SoFar(r) = arrived[r] + AllBarriers(round[r]) + SoFar(q)

\* A rank is past all the barriers that it has arrived at, but for the last if it
\* may still wait there.
Past(r) ==
    \A q \in Ranks : arrived[q] + (IF pc[r] \in AtBarrier THEN 1 ELSE 0) >= arrived[r]

InStep ==
    /\ PlanningTypeOK
    /\ arrived \in [Ranks -> Nat]
    /\ \A r, q \in Ranks : Apart(r, q)
    /\ \A r \in Ranks : Past(r)

-----------------------------------------------------------------------------
LEMMA BarriersBound ==
    ASSUME InStep, NEW r \in Ranks
    PROVE  /\ SoFar(r) \in Nat /\ arrived[r] \in Nat /\ round[r] \in Nat
           /\ AllBarriers(round[r]) \in Nat
           /\ SoFar(r) <= AllBarriers(round[r])
           /\ round[r] > 0 => AllBarriers(round[r]) >= 2
           /\ pc[r] \in {"idle", "planned"} => SoFar(r) = AllBarriers(round[r])
<1>1. /\ Extra(round[r]) \in {0, 1} /\ Rest \in {2, 3}
      /\ pc[r] = "gather_counts" => Extra(round[r]) = 1
  <2>1. Extra(round[r]) \in {0, 1}
    BY DEF Extra
  <2>2. Rest \in {2, 3}
    BY DEF Rest
  <2>3. pc[r] = "gather_counts" => Extra(round[r]) = 1
    BY DEF Extra, InStep, PlanningTypeOK, HasCounts
  <2> QED
    BY <2>1, <2>2, <2>3
<1>2. /\ arrived[r] \in Nat /\ round[r] \in 0 .. Rounds /\ pc[r] \in PlanLabels
      /\ round[r] = 0 <=> pc[r] = "idle"
  BY DEF InStep, PlanningTypeOK
<1>3. round[r] \in Nat
  BY <1>2, RoundsAssumption
<1>4. SoFar(r) \in Nat /\ SoFar(r) <= AllBarriers(round[r])
  <2>1. CASE pc[r] = "idle"
    BY <1>2, <2>1 DEF SoFar, Barriers, AllBarriers
  <2>2. CASE pc[r] # "idle"
    <3>1. AllBarriers(round[r]) = Extra(round[r]) + Rest
      BY <1>2, <2>2 DEF AllBarriers
    <3>2. SoFar(r) \in {0, 1, Extra(round[r]), Extra(round[r]) + 1, Extra(round[r]) + 2,
                        Extra(round[r]) + Rest}
      BY DEF SoFar, Barriers
    <3> DEFINE x == Extra(round[r])
               n == SoFar(r)
               m == AllBarriers(round[r])
    <3>3. /\ x \in {0, 1} /\ Rest \in {2, 3} /\ m = x + Rest
          /\ n \in {0, 1, x, x + 1, x + 2, x + Rest}
      BY <1>1, <3>1, <3>2
    <3> HIDE DEF x, n, m
    <3>4. n \in Nat /\ n <= m
      BY <3>3
    <3> QED
      BY <3>4 DEF n, m
  <2> QED
    BY <2>1, <2>2
<1>5. AllBarriers(round[r]) \in Nat /\ (round[r] > 0 => AllBarriers(round[r]) >= 2)
  <2> DEFINE x == Extra(round[r])
             n == round[r]
             m == AllBarriers(n)
  <2>1. x \in {0, 1} /\ Rest \in {2, 3} /\ n \in Nat /\ m = IF n = 0 THEN 0 ELSE x + Rest
    BY <1>1, <1>3 DEF AllBarriers
  <2> HIDE DEF x, n, m
  <2>2. m \in Nat /\ (n > 0 => m >= 2)
    BY <2>1
  <2> QED
    BY <2>2 DEF n, m
<1>6. pc[r] \in {"idle", "planned"} => SoFar(r) = AllBarriers(round[r])
  BY <1>2 DEF SoFar, Barriers, AllBarriers
<1> QED
  BY <1>2, <1>3, <1>4, <1>5, <1>6

\* A step of rank r within a round to a label, after which it has arrived at k more
\* barriers.
Advance(r, label, k) ==
    /\ r \in Ranks /\ label \in PlanLabels \ {"idle"} /\ k \in {0, 1}
    /\ pc[r] # "idle" /\ Passes(r)
    /\ UNCHANGED <<gathered, round>>
    /\ \/ pc' = [pc EXCEPT ![r] = label]
       \/ label = pc[r] /\ pc' = pc
    /\ \/ k = 0 /\ arrived' = arrived
       \/ k = 1 /\ arrived' = [arrived EXCEPT ![r] = arrived[r] + 1]
    /\ Barriers(label, round[r]) = SoFar(r) + k
    /\ k = 1 => label \in AtBarrier
    /\ label = "gather_counts" => ~HasCounts(r)
    /\ DOMAIN tpeRow' = Ranks /\ DOMAIN srcInfo' = Ranks /\ DOMAIN tpe' = Ranks

LEMMA AdvanceInStep ==
    ASSUME InStep, NEW r, NEW label, NEW k, Advance(r, label, k) PROVE InStep'
<1>1. /\ r \in Ranks /\ k \in {0, 1} /\ arrived[r] \in Nat /\ arrived[r] + k \in Nat
      /\ arrived \in [Ranks -> Nat] /\ pc \in [Ranks -> PlanLabels]
  <2>1. r \in Ranks /\ k \in {0, 1}
    BY DEF Advance
  <2>2. arrived \in [Ranks -> Nat] /\ pc \in [Ranks -> PlanLabels]
    BY DEF InStep, PlanningTypeOK
  <2>3. arrived[r] \in Nat
    BY <2>1, <2>2
  <2>4. arrived[r] + k \in Nat
    BY <2>1, <2>3
  <2> QED
    BY <2>1, <2>2, <2>3, <2>4
<1>2. PlanningTypeOK' /\ arrived' \in [Ranks -> Nat]
  <2>1. arrived' \in [Ranks -> Nat]
    BY <1>1 DEF Advance
  <2>2. pc' \in [Ranks -> PlanLabels]
    BY <1>1 DEF Advance
  <2>3. \A q \in Ranks : round'[q] = 0 <=> pc'[q] = "idle"
    BY <1>1 DEF InStep, PlanningTypeOK, Advance
  <2>4. \A q \in Ranks : pc'[q] = "gather_counts" => ~HasCounts(q)'
    BY <1>1 DEF InStep, PlanningTypeOK, Advance, HasCounts
  <2> QED
    BY <2>1, <2>2, <2>3, <2>4 DEF InStep, PlanningTypeOK, Advance
<1>3. /\ arrived'[r] = arrived[r] + k /\ SoFar(r)' = SoFar(r) + k
      /\ \A q \in Ranks \ {r} : arrived'[q] = arrived[q] /\ SoFar(q)' = SoFar(q) /\ pc'[q] = pc[q]
      /\ \A q \in Ranks : round'[q] = round[q] /\ AllBarriers(round[q])' = AllBarriers(round[q])
  BY <1>1 DEF Advance, SoFar, Barriers, AllBarriers, Extra, Rest
<1>4. \A p, q \in Ranks : Apart(p, q)'
  <2> SUFFICES ASSUME NEW p \in Ranks, NEW q \in Ranks PROVE Apart(p, q)'
    OBVIOUS
  <2>1. /\ SoFar(p) \in Nat /\ SoFar(q) \in Nat /\ arrived[p] \in Nat /\ arrived[q] \in Nat
        /\ AllBarriers(round[p]) \in Nat
    BY BarriersBound
  <2>2. Apart(p, q)
    BY DEF InStep
  <2>3. /\ arrived'[p] + SoFar(q)' = arrived[p] + SoFar(q) + (IF p = r THEN k ELSE 0)
                                                         + (IF q = r THEN k ELSE 0)
        /\ arrived'[q] + SoFar(p)' = arrived[q] + SoFar(p) + (IF p = r THEN k ELSE 0)
                                                         + (IF q = r THEN k ELSE 0)
    BY <1>1, <1>3, <2>1
  <2>4. /\ SoFar(p)' \in Nat /\ SoFar(q)' \in Nat /\ arrived'[p] \in Nat /\ arrived'[q] \in Nat
    BY <1>1, <1>3, <2>1
  <2> QED
    BY <1>1, <1>3, <2>1, <2>2, <2>3, <2>4 DEF Apart
<1>5. \A p \in Ranks : Past(p)'
  <2> SUFFICES ASSUME NEW p \in Ranks, NEW q \in Ranks
               PROVE  arrived'[q] + (IF pc'[p] \in AtBarrier THEN 1 ELSE 0) >= arrived'[p]
    BY DEF Past, AtBarrier
  <2>1. arrived[p] \in Nat /\ arrived[q] \in Nat
    BY BarriersBound
  <2>2. arrived'[q] >= arrived[q] /\ arrived'[q] \in Nat
    BY <1>1, <1>3, <2>1
  <2>3. arrived[q] + (IF pc[p] \in AtBarrier THEN 1 ELSE 0) >= arrived[p]
    BY DEF InStep, Past
  <2>4. CASE p = r
    <3>1. arrived[q] >= arrived[r]
      <4>1. CASE pc[r] \in AtBarrier
        BY <4>1 DEF Advance, Passes, BarrierOpen
      <4>2. CASE pc[r] \notin AtBarrier
        BY <2>1, <2>3, <2>4, <4>2
      <4> QED
        BY <4>1, <4>2
    <3>2. pc'[r] = label /\ (k = 1 => label \in AtBarrier)
      BY <1>1 DEF Advance
    <3> QED
      BY <1>1, <1>3, <2>1, <2>2, <2>4, <3>1, <3>2
  <2>5. CASE p # r
    BY <1>3, <2>1, <2>2, <2>3, <2>5
  <2> QED
    BY <2>4, <2>5
<1> QED
  BY <1>2, <1>4, <1>5 DEF InStep

LEMMA NextRoundInStep ==
    ASSUME InStep, NEW r \in Ranks, NextRound(r) PROVE InStep'
<1>1. /\ pc[r] \in {"idle", "planned"} /\ round[r] < Rounds
      /\ round' = [round EXCEPT ![r] = round[r] + 1]
      /\ pc' = [pc EXCEPT ![r] = "publish_counts"]
      /\ UNCHANGED <<gathered, arrived, tpeRow, srcInfo, tpe>>
  BY DEF NextRound, StartPlanning, Goto, inputs, shared
<1>2. /\ round \in [Ranks -> 0 .. Rounds] /\ pc \in [Ranks -> PlanLabels]
      /\ arrived \in [Ranks -> Nat]
      /\ round[r] \in Nat /\ round[r] + 1 \in 0 .. Rounds /\ round[r] + 1 # 0
  <2>1. round \in [Ranks -> 0 .. Rounds] /\ pc \in [Ranks -> PlanLabels]
        /\ arrived \in [Ranks -> Nat]
    BY DEF InStep, PlanningTypeOK
  <2>2. round[r] \in 0 .. Rounds
    BY <2>1
  <2> QED
    <3>1. round[r] \in Nat /\ Rounds \in Nat
      BY <2>2, RoundsAssumption
    <3>2. round[r] < Rounds
      BY <1>1
    <3>3. round[r] + 1 \in 0 .. Rounds /\ round[r] + 1 # 0
      BY <3>1, <3>2
    <3> QED
      BY <2>1, <3>1, <3>3
<1>3. PlanningTypeOK' /\ arrived' \in [Ranks -> Nat]
  <2>1. round' \in [Ranks -> 0 .. Rounds]
    BY <1>1, <1>2
  <2>2. pc' \in [Ranks -> PlanLabels]
    BY <1>1, <1>2 DEF PlanLabels
  <2>3. \A q \in Ranks : round'[q] = 0 <=> pc'[q] = "idle"
    BY <1>1, <1>2 DEF InStep, PlanningTypeOK
  <2>4. \A q \in Ranks : pc'[q] = "gather_counts" => ~HasCounts(q)'
    BY <1>1, <1>2 DEF InStep, PlanningTypeOK, HasCounts
  <2> QED
    BY <1>1, <2>1, <2>2, <2>3, <2>4 DEF InStep, PlanningTypeOK
<1>4. \A q \in Ranks : round[q] >= round[r]
  <2> SUFFICES ASSUME NEW q \in Ranks, round[q] < round[r] PROVE FALSE
    BY <1>2, BarriersBound
  <2>1. /\ SoFar(r) \in Nat /\ SoFar(q) \in Nat /\ arrived[r] \in Nat /\ arrived[q] \in Nat
        /\ round[r] \in Nat /\ round[q] \in Nat
        /\ SoFar(q) <= AllBarriers(round[q]) /\ AllBarriers(round[q]) \in Nat
        /\ SoFar(r) >= 2
    <3>1. /\ SoFar(r) \in Nat /\ SoFar(q) \in Nat /\ arrived[r] \in Nat /\ arrived[q] \in Nat
          /\ round[r] \in Nat /\ round[q] \in Nat
          /\ SoFar(q) <= AllBarriers(round[q]) /\ AllBarriers(round[q]) \in Nat
      BY BarriersBound
    <3>2. round[r] > 0
      BY <3>1
    <3>3. SoFar(r) = AllBarriers(round[r]) /\ AllBarriers(round[r]) >= 2
      BY <1>1, <3>2, BarriersBound
    <3> QED
      BY <3>1, <3>3
  <2>2. arrived[r] + SoFar(q) = arrived[q] + AllBarriers(round[q]) + SoFar(r)
    BY <2>1 DEF InStep, Apart
  <2>3. arrived[q] >= arrived[r]
    <3>1. pc[r] \notin AtBarrier
      BY <1>1 DEF AtBarrier
    <3> QED
      BY <2>1, <3>1 DEF InStep, Past
  <2> QED
    BY <2>1, <2>2, <2>3
<1>5. /\ SoFar(r) = AllBarriers(round[r]) /\ SoFar(r)' = 0 /\ round'[r] = round[r] + 1
      /\ \A q \in Ranks \ {r} : round'[q] = round[q] /\ SoFar(q)' = SoFar(q)
                                /\ AllBarriers(round[q])' = AllBarriers(round[q])
      /\ \A q \in Ranks : arrived'[q] = arrived[q]
  <2>1. SoFar(r) = AllBarriers(round[r])
    BY <1>1, BarriersBound
  <2> QED
    BY <1>1, <1>2, <2>1 DEF SoFar, Barriers, AllBarriers, Extra, Rest
<1>6. \A p, q \in Ranks : Apart(p, q)'
  <2> SUFFICES ASSUME NEW p \in Ranks, NEW q \in Ranks PROVE Apart(p, q)'
    OBVIOUS
  <2>1. /\ SoFar(p) \in Nat /\ SoFar(q) \in Nat /\ arrived[p] \in Nat /\ arrived[q] \in Nat
        /\ round[p] \in Nat /\ round[q] \in Nat
        /\ AllBarriers(round[p]) \in Nat /\ AllBarriers(round[q]) \in Nat
        /\ SoFar(p)' \in Nat /\ SoFar(q)' \in Nat
    BY <1>5, BarriersBound
  <2>2. Apart(p, q) /\ Apart(q, p)
    BY DEF InStep
  <2>3. CASE p = r /\ q = r
    BY <1>5, <2>1, <2>3 DEF Apart
  <2>4. CASE p = r /\ q # r
    <3>1. round'[p] = round[p] + 1 /\ round'[q] = round[q] /\ SoFar(p)' = 0 /\ SoFar(q)' = SoFar(q)
          /\ arrived'[p] = arrived[p] /\ arrived'[q] = arrived[q] /\ SoFar(p) = AllBarriers(round[p])
      BY <1>5, <2>4
    <3> QED
      BY <2>1, <2>2, <3>1 DEF Apart
  <2>5. CASE p # r /\ q = r
    <3>1. round'[q] = round[q] + 1 /\ round'[p] = round[p] /\ SoFar(q)' = 0 /\ SoFar(p)' = SoFar(p)
          /\ arrived'[p] = arrived[p] /\ arrived'[q] = arrived[q] /\ SoFar(q) = AllBarriers(round[q])
          /\ AllBarriers(round[p])' = AllBarriers(round[p]) /\ round[p] >= round[q]
      BY <1>4, <1>5, <2>5
    <3>2. round[p] = round[q] => AllBarriers(round[p]) = AllBarriers(round[q])
      OBVIOUS
    <3> QED
      BY <2>1, <2>2, <3>1, <3>2 DEF Apart
  <2>6. CASE p # r /\ q # r
    BY <1>5, <2>2, <2>6 DEF Apart
  <2> QED
    BY <2>3, <2>4, <2>5, <2>6
<1>7. \A p \in Ranks : Past(p)'
  BY <1>1, <1>2 DEF InStep, Past, AtBarrier
<1> QED
  BY <1>3, <1>6, <1>7 DEF InStep

\* Each step of planning is an advance.
LEMMA StepAdvances ==
    ASSUME InStep, NEW r \in Ranks, PlanStep(r)
    PROVE  \E label \in PlanLabels, k \in {0, 1} : Advance(r, label, k)
<1> USE DEF Goto, Arrive, PlanLabels
<1>1. /\ arrived \in [Ranks -> Nat] /\ pc \in [Ranks -> PlanLabels] /\ arrived[r] \in Nat
      /\ DOMAIN tpeRow = Ranks /\ DOMAIN srcInfo = Ranks /\ DOMAIN tpe = Ranks
      /\ pc[r] = "gather_counts" => ~HasCounts(r)
  BY DEF InStep, PlanningTypeOK
<1> DEFINE B(label) == Barriers(label, round[r])
           x == Extra(round[r])
<1>2. /\ B("publish_counts") = 0 /\ B("gather_counts") = 1
      /\ B("balance") = x /\ B("lay_out") = x /\ B("raised") = x
      /\ B("publish_sources") = x + 1 /\ B("publish_scratch") = x + 2
      /\ B("encode") = x + Rest /\ B("planned") = x + Rest
      /\ SoFar(r) = B(pc[r])
  BY DEF Barriers, SoFar
<1>12. x \in {0, 1} /\ Rest \in {2, 3}
  BY DEF Extra, Rest
<1> HIDE DEF B, x
<1>3. CASE CountsGiven(r)
  <2>1. x = 0
    BY <1>3 DEF CountsGiven, HasCounts, Extra, x
  <2>2. B("balance") = SoFar(r) + 0
    BY <1>2, <1>3, <2>1 DEF CountsGiven
  <2>3. Advance(r, "balance", 0)
    BY <1>1, <1>3, <2>2 DEF CountsGiven, Advance, inputs, shared, Passes, AtBarrier, B
  <2> QED
    BY <2>3
<1>4. CASE PublishCounts(r)
  <2>1. B("gather_counts") = SoFar(r) + 1
    BY <1>2, <1>4 DEF PublishCounts
  <2>2. Advance(r, "gather_counts", 1)
    BY <1>1, <1>4, <2>1
       DEF PublishCounts, Advance, inputs, Passes, AtBarrier, HasCounts, B
  <2> QED
    BY <2>2
<1>5. CASE GatherCounts(r)
  <2>1. x = 1
    BY <1>1, <1>5 DEF GatherCounts, HasCounts, Extra, x
  <2>2. PICK label \in {"balance", "gather_counts"} : pc' = [pc EXCEPT ![r] = label]
    BY <1>5 DEF GatherCounts
  <2>3. B(label) = SoFar(r) + 0
    BY <1>2, <1>5, <2>1 DEF GatherCounts
  <2>4. /\ pc[r] = "gather_counts" /\ Passes(r) /\ DOMAIN tpe' = Ranks
        /\ UNCHANGED <<inputs, round, arrived, tpeRow, srcInfo>>
    BY <1>1, <1>5 DEF GatherCounts, shared
  <2>5. Advance(r, label, 0)
    BY <1>1, <2>2, <2>3, <2>4 DEF Advance, inputs, B
  <2> QED
    BY <2>5
<1>6. CASE Balance(r)
  <2>1. PICK label \in {"lay_out", "raised"} : pc' = [pc EXCEPT ![r] = label]
    BY <1>6 DEF Balance
  <2>2. B(label) = SoFar(r) + 0
    BY <1>2, <1>6, <1>12 DEF Balance
  <2>3. pc[r] = "balance" /\ UNCHANGED <<inputs, round, arrived, tpeRow, srcInfo, tpe>>
    BY <1>6 DEF Balance, shared
  <2>4. Advance(r, label, 0)
    BY <1>1, <2>1, <2>2, <2>3 DEF Advance, inputs, Passes, AtBarrier, B
  <2> QED
    BY <2>4
<1>7. CASE LayOut(r)
  <2>1. /\ pc[r] = "lay_out" /\ UNCHANGED <<inputs, round, tpeRow, tpe>>
        /\ \/ /\ srcInfo' = [srcInfo EXCEPT ![r] = NoRows]
              /\ arrived' = [arrived EXCEPT ![r] = arrived[r] + 1]
              /\ pc' = [pc EXCEPT ![r] = "publish_sources"]
           \/ /\ UNCHANGED <<srcInfo, arrived>>
              /\ pc' = [pc EXCEPT ![r] = "raised"]
    BY <1>7 DEF LayOut
  <2>2. x \in {0, 1}
    BY <1>12
  <2>3. CASE pc' = [pc EXCEPT ![r] = "publish_sources"]
    <3>1. B("publish_sources") = SoFar(r) + 1
      BY <1>2, <2>1, <2>2
    <3>2. Advance(r, "publish_sources", 1)
      BY <1>1, <2>1, <2>3, <3>1 DEF Advance, inputs, Passes, AtBarrier, B
    <3> QED
      BY <3>2
  <2>4. CASE UNCHANGED <<srcInfo, arrived>> /\ pc' = [pc EXCEPT ![r] = "raised"]
    <3>1. B("raised") = SoFar(r) + 0
      BY <1>2, <2>1, <2>2
    <3>2. Advance(r, "raised", 0)
      BY <1>1, <2>1, <2>4, <3>1 DEF Advance, inputs, Passes, AtBarrier, B
    <3> QED
      BY <3>2
  <2> QED
    BY <2>1, <2>3, <2>4
<1>8. CASE PublishSource(r)
  <2>1. /\ pc[r] = "publish_sources" /\ Passes(r) /\ UNCHANGED <<inputs, round, tpeRow, tpe>>
        /\ DOMAIN srcInfo' = Ranks
        /\ \/ /\ arrived' = [arrived EXCEPT ![r] = arrived[r] + 1]
              /\ pc' = [pc EXCEPT ![r] = "publish_scratch"]
           \/ UNCHANGED <<arrived, pc>>
    BY <1>1, <1>8 DEF PublishSource
  <2>2. x \in {0, 1}
    BY <1>12
  <2>3. CASE /\ arrived' = [arrived EXCEPT ![r] = arrived[r] + 1]
             /\ pc' = [pc EXCEPT ![r] = "publish_scratch"]
    <3>1. B("publish_scratch") = SoFar(r) + 1
      BY <1>2, <2>1, <2>2
    <3>2. Advance(r, "publish_scratch", 1)
      BY <1>1, <2>1, <2>3, <3>1 DEF Advance, inputs, AtBarrier, B
    <3> QED
      BY <3>2
  <2>4. CASE UNCHANGED <<arrived, pc>>
    <3>1. B("publish_sources") = SoFar(r) + 0
      BY <1>2, <2>1, <2>2
    <3>2. Advance(r, "publish_sources", 0)
      BY <1>1, <2>1, <2>4, <3>1 DEF Advance, inputs, AtBarrier, B
    <3> QED
      BY <3>2
  <2> QED
    BY <2>1, <2>3, <2>4
<1>9. CASE PublishScratch(r)
  <2>1. /\ pc[r] = "publish_scratch" /\ Passes(r) /\ UNCHANGED <<inputs, round, tpeRow, srcInfo, tpe>>
        /\ pc' = [pc EXCEPT ![r] = "encode"]
        /\ IF NumRanks > 1 THEN arrived' = [arrived EXCEPT ![r] = arrived[r] + 1]
                           ELSE UNCHANGED arrived
    BY <1>9 DEF PublishScratch
  <2>2. x \in {0, 1}
    BY <1>12
  <2>3. CASE NumRanks > 1
    <3>1. B("encode") = SoFar(r) + 1
      BY <1>2, <2>1, <2>2, <2>3 DEF Rest
    <3>2. Advance(r, "encode", 1)
      BY <1>1, <2>1, <2>3, <3>1 DEF Advance, inputs, AtBarrier, B
    <3> QED
      BY <3>2
  <2>4. CASE ~(NumRanks > 1)
    <3>1. B("encode") = SoFar(r) + 0
      BY <1>2, <2>1, <2>2, <2>4 DEF Rest
    <3>2. Advance(r, "encode", 0)
      BY <1>1, <2>1, <2>4, <3>1 DEF Advance, inputs, AtBarrier, B
    <3> QED
      BY <3>2
  <2> QED
    BY <2>3, <2>4
<1>10. CASE Encode(r)
  <2>1. B("planned") = SoFar(r) + 0
    BY <1>2, <1>10, <1>12 DEF Encode
  <2>2. Advance(r, "planned", 0)
    BY <1>1, <1>10, <2>1 DEF Encode, Advance, inputs, shared, AtBarrier, B
  <2> QED
    BY <2>2
<1> QED
  BY <1>3, <1>4, <1>5, <1>6, <1>7, <1>8, <1>9, <1>10 DEF PlanStep

LEMMA NextInStep == InStep /\ [Next]_planVars => InStep'
<1> SUFFICES ASSUME InStep, [Next]_planVars PROVE InStep'
  OBVIOUS
<1>1. CASE UNCHANGED planVars
  <2>1. UNCHANGED <<gathered, round, pc, arrived, tpeRow, srcInfo, tpe>>
    BY <1>1 DEF planVars, inputs, shared
  <2>2. PlanningTypeOK' /\ arrived' \in [Ranks -> Nat]
    BY <2>1 DEF InStep, PlanningTypeOK, HasCounts
  <2>3. \A r \in Ranks : SoFar(r)' = SoFar(r) /\ AllBarriers(round[r])' = AllBarriers(round[r])
    BY <2>1 DEF SoFar, Barriers, AllBarriers, Extra, Rest
  <2> QED
    BY <2>1, <2>2, <2>3 DEF InStep, Apart, Past, AtBarrier
<1>2. ASSUME NEW r \in Ranks, PlanStep(r) PROVE InStep'
  BY <1>2, StepAdvances, AdvanceInStep
<1>3. ASSUME NEW r \in Ranks, NextRound(r) PROVE InStep'
  BY <1>3, NextRoundInStep
<1> QED
  BY <1>1, <1>2, <1>3 DEF Next

LEMMA InitInStep == PlanInit => InStep
<1> SUFFICES ASSUME PlanInit PROVE InStep
  OBVIOUS
<1>1. PlanningTypeOK /\ arrived \in [Ranks -> Nat]
  <2>1. 0 \in 0 .. Rounds
    BY RoundsAssumption
  <2> QED
    BY <2>1 DEF PlanInit, PlanningTypeOK, PlanLabels
<1>2. \A r \in Ranks : SoFar(r) = 0 /\ arrived[r] = 0 /\ round[r] = 0 /\ pc[r] = "idle"
  BY DEF PlanInit, SoFar, Barriers
<1>3. \A r, q \in Ranks : Apart(r, q)
  BY <1>2 DEF Apart
<1>4. \A r \in Ranks : Past(r)
  BY <1>2 DEF Past, AtBarrier
<1> QED
  BY <1>1, <1>3, <1>4 DEF InStep
-----------------------------------------------------------------------------
(* What the barriers are for, whoever else uses them: where the ranks are.  Module  *)
(* EPBuffer plans with more barriers in between; from here on the argument is about  *)
(* the places of the ranks, not about the number of barriers.                        *)

\* The place of a rank in its rounds, and the place of the last barrier that it has
\* passed for certain.
Place(r) ==
    8 * round[r] + (IF pc[r] = "idle" THEN 0
                    ELSE IF pc[r] = "publish_counts" THEN 1
                    ELSE IF pc[r] = "gather_counts" THEN 2
                    ELSE IF pc[r] = "publish_sources" THEN 4
                    ELSE IF pc[r] = "publish_scratch" THEN 5
                    ELSE IF pc[r] = "encode" THEN 6
                    ELSE IF pc[r] = "planned" THEN 7
                    ELSE 3)
LastPassed(r) ==
    IF pc[r] = "publish_scratch" THEN 8 * round[r] + 4
    ELSE IF pc[r] \in {"encode", "planned"} THEN 8 * round[r] + 5
    ELSE IF round[r] < 2 THEN 0
    ELSE 8 * round[r] - 3

\* All ranks are where rank r is, or beyond.
AllAt(r) == \A q \in Ranks : Place(q) >= Place(r)

\* No rank is behind a barrier that another has passed.
InOrder ==
    /\ PlanningTypeOK
    /\ \A r, q \in Ranks : LastPassed(q) <= Place(r)

\* A step of planning that passes a barrier only when all ranks are at it.
turnVars == <<inputs, round, pc, shared, tpe, alloc, plan, todo>>
PlanTurn(r) == PlanStep(r) /\ (pc[r] \in AtBarrier => AllAt(r))
Turn == (\E r \in Ranks : PlanTurn(r) \/ NextRound(r)) \/ UNCHANGED turnVars

\* The row of a rank is that of its round, once it is published.
RowsPublished ==
    \A r \in Ranks :
        pc[r] \notin {"idle", "publish_counts"} /\ ~HasCounts(r) =>
            tpeRow[r] = TokensPerExpert(TopkOf(r))

\* What a rank has gathered are the counts of its round, of the first ranks.
Gathered ==
    \A r \in Ranks : pc[r] = "gather_counts" =>
        \E n \in 0 .. (NumRanks - 1) :
            /\ DOMAIN tpe[r] = 0 .. (n - 1)
            /\ \A d \in 0 .. (n - 1) : tpe[r][d] = CountsOf(round[r])[d]

PInv == InOrder /\ RowsPublished /\ Gathered /\ CountsCurrent
-----------------------------------------------------------------------------
LEMMA PlaceTypes ==
    ASSUME InOrder, NEW r \in Ranks
    PROVE  /\ round[r] \in Nat /\ Place(r) \in Nat /\ LastPassed(r) \in Nat
           /\ pc[r] \in PlanLabels
           /\ pc[r] = "idle" => round[r] = 0 /\ Place(r) = 0
           /\ pc[r] # "idle" => round[r] > 0
           /\ 8 * round[r] <= Place(r) /\ Place(r) <= 8 * round[r] + 7
           /\ round[r] >= 2 => LastPassed(r) >= 8 * round[r] - 3
<1>1. round[r] \in 0 .. Rounds /\ pc[r] \in PlanLabels /\ (round[r] = 0 <=> pc[r] = "idle")
  BY DEF InOrder, PlanningTypeOK
<1>2. round[r] \in Nat
  BY <1>1, RoundsAssumption
<1>3. PICK n : n = round[r]
  OBVIOUS
<1>4. Place(r) \in (8 * n) .. (8 * n + 7)
  BY <1>2, <1>3 DEF Place
<1>5. LastPassed(r) \in Nat /\ (n >= 2 => LastPassed(r) >= 8 * n - 3)
  BY <1>2, <1>3 DEF LastPassed
<1>6. pc[r] = "idle" => Place(r) = 0
  BY <1>1 DEF Place
<1> QED
  BY <1>1, <1>2, <1>3, <1>4, <1>5, <1>6

\* A step of planning changes the label of its rank only.
LEMMA StepLabels ==
    ASSUME InOrder, NEW r \in Ranks, PlanStep(r)
    PROVE  /\ UNCHANGED <<routing, gathered, round>>
           /\ pc[r] # "idle"
           /\ \E label \in PlanLabels \ {"idle", "publish_counts"} :
                 /\ pc' = [pc EXCEPT ![r] = label]
                 /\ label \in {"balance", "gather_counts", "lay_out", "raised", "publish_sources"}
                        => pc[r] \in {"publish_counts", "gather_counts", "balance", "lay_out",
                                      "publish_sources"}
                 /\ label = "gather_counts" => /\ pc[r] \in {"publish_counts", "gather_counts"}
                                               /\ ~HasCounts(r)
                 /\ label = "balance" => pc[r] \in {"publish_counts", "gather_counts"}
                 /\ label \in {"lay_out", "raised"} => pc[r] \in {"balance", "lay_out"}
                 /\ label = "publish_sources" => pc[r] \in {"lay_out", "publish_sources"}
                 /\ label = "publish_scratch" => pc[r] = "publish_sources"
                 /\ label = "encode" => pc[r] = "publish_scratch"
                 /\ label = "planned" => pc[r] = "encode"
<1>1. pc \in [Ranks -> PlanLabels] /\ (pc[r] = "gather_counts" => ~HasCounts(r))
  BY DEF InOrder, PlanningTypeOK
<1>2. UNCHANGED <<routing, gathered, round>>
  BY DEF PlanStep, CountsGiven, PublishCounts, GatherCounts, Balance, LayOut, PublishSource,
         PublishScratch, Encode, inputs
<1>3. pc = [pc EXCEPT ![r] = pc[r]]
  BY <1>1
<1> USE <1>1, <1>2, <1>3 DEF Goto, PlanLabels
<1>4. CASE CountsGiven(r)
  <2>1. pc[r] = "publish_counts"
        /\ \E label \in {"balance"} : pc' = [pc EXCEPT ![r] = label]
    BY <1>4 DEF CountsGiven
  <2> QED
    BY <2>1
<1>5. CASE PublishCounts(r)
  <2>1. pc[r] = "publish_counts" /\ ~HasCounts(r)
        /\ \E label \in {"gather_counts"} : pc' = [pc EXCEPT ![r] = label]
    BY <1>5 DEF PublishCounts
  <2> QED
    BY <2>1
<1>6. CASE GatherCounts(r)
  <2>1. pc[r] = "gather_counts"
        /\ \E label \in {"balance", "gather_counts"} : pc' = [pc EXCEPT ![r] = label]
    BY <1>6 DEF GatherCounts
  <2> QED
    BY <2>1
<1>7. CASE Balance(r)
  <2>1. pc[r] = "balance" /\ \E label \in {"lay_out", "raised"} : pc' = [pc EXCEPT ![r] = label]
    BY <1>7 DEF Balance
  <2> QED
    BY <2>1
<1>8. CASE LayOut(r)
  <2>1. pc[r] = "lay_out"
        /\ \E label \in {"publish_sources", "raised"} : pc' = [pc EXCEPT ![r] = label]
    BY <1>8 DEF LayOut
  <2> QED
    BY <2>1
<1>9. CASE PublishSource(r)
  <2>1. pc[r] = "publish_sources" /\ (pc' = [pc EXCEPT ![r] = "publish_scratch"] \/ pc' = pc)
    BY <1>9 DEF PublishSource
  <2> QED
    BY <2>1
<1>10. CASE PublishScratch(r)
  <2>1. pc[r] = "publish_scratch"
        /\ \E label \in {"encode"} : pc' = [pc EXCEPT ![r] = label]
    BY <1>10 DEF PublishScratch
  <2> QED
    BY <2>1
<1>11. CASE Encode(r)
  <2>1. pc[r] = "encode"
        /\ \E label \in {"planned"} : pc' = [pc EXCEPT ![r] = label]
    BY <1>11 DEF Encode
  <2> QED
    BY <2>1
<1> QED
  BY <1>4, <1>5, <1>6, <1>7, <1>8, <1>9, <1>10, <1>11 DEF PlanStep

\* It touches nothing of the others' planning.
LEMMA OthersKept ==
    ASSUME InOrder, NEW r \in Ranks, PlanStep(r)
    PROVE  /\ UNCHANGED <<routing, gathered, round>>
           /\ \A q \in Ranks \ {r} : pc'[q] = pc[q] /\ tpe'[q] = tpe[q] /\ tpeRow'[q] = tpeRow[q]
<1>1. UNCHANGED <<routing, gathered, round>>
  BY StepLabels
<1>2. \A q \in Ranks \ {r} : pc'[q] = pc[q]
  <2>1. pc \in [Ranks -> PlanLabels]
    BY DEF InOrder, PlanningTypeOK
  <2>2. \E label \in PlanLabels : pc' = [pc EXCEPT ![r] = label]
    BY StepLabels
  <2> QED
    BY <2>1, <2>2
<1>3. DOMAIN tpe = Ranks /\ DOMAIN tpeRow = Ranks
  BY DEF InOrder, PlanningTypeOK
<1>4. \A q \in Ranks \ {r} : tpe'[q] = tpe[q]
  <2>1. tpe' = tpe \/ \E v : tpe' = [tpe EXCEPT ![r] = v]
    BY DEF PlanStep, CountsGiven, PublishCounts, GatherCounts, Balance, LayOut, PublishSource,
           PublishScratch, Encode
  <2> QED
    BY <1>3, <2>1
<1>5. \A q \in Ranks \ {r} : tpeRow'[q] = tpeRow[q]
  <2>1. tpeRow' = tpeRow \/ \E v : tpeRow' = [tpeRow EXCEPT ![r] = v]
    BY DEF PlanStep, CountsGiven, PublishCounts, GatherCounts, Balance, LayOut, PublishSource,
           PublishScratch, Encode, shared
  <2> QED
    BY <1>3, <2>1
<1> QED
  BY <1>1, <1>2, <1>4, <1>5

\* No turn takes a rank back.
LEMMA TurnTypes ==
    ASSUME InOrder, Turn
    PROVE  /\ PlanningTypeOK'
           /\ \A q \in Ranks : Place(q)' >= Place(q)
<1>0. /\ round \in [Ranks -> 0 .. Rounds] /\ pc \in [Ranks -> PlanLabels]
      /\ DOMAIN tpeRow = Ranks /\ DOMAIN srcInfo = Ranks /\ DOMAIN tpe = Ranks
      /\ gathered \in [1 .. Rounds -> BOOLEAN]
      /\ \A q \in Ranks : round[q] = 0 <=> pc[q] = "idle"
      /\ \A q \in Ranks : pc[q] = "gather_counts" => ~HasCounts(q)
  BY DEF InOrder, PlanningTypeOK
<1>1. CASE UNCHANGED turnVars
  <2>1. UNCHANGED <<gathered, round, pc, tpeRow, srcInfo, tpe>>
    BY <1>1 DEF turnVars, inputs, shared
  <2>2. PlanningTypeOK'
    BY <1>0, <2>1 DEF PlanningTypeOK, HasCounts
  <2>3. \A q \in Ranks : Place(q)' = Place(q)
    BY <2>1 DEF Place
  <2> QED
    BY <2>2, <2>3, PlaceTypes
<1>2. ASSUME NEW r \in Ranks, PlanStep(r)
      PROVE  PlanningTypeOK' /\ \A q \in Ranks : Place(q)' >= Place(q)
  <2>1. UNCHANGED <<routing, gathered, round>> /\ pc[r] # "idle"
    BY <1>2, StepLabels
  <2>2. PICK label \in PlanLabels \ {"idle", "publish_counts"} :
                 /\ pc' = [pc EXCEPT ![r] = label]
                 /\ label = "gather_counts" => /\ pc[r] \in {"publish_counts", "gather_counts"}
                                               /\ ~HasCounts(r)
                 /\ label = "balance" => pc[r] \in {"publish_counts", "gather_counts"}
                 /\ label \in {"lay_out", "raised"} => pc[r] \in {"balance", "lay_out"}
                 /\ label = "publish_sources" => pc[r] \in {"lay_out", "publish_sources"}
                 /\ label = "publish_scratch" => pc[r] = "publish_sources"
                 /\ label = "encode" => pc[r] = "publish_scratch"
                 /\ label = "planned" => pc[r] = "encode"
    BY <1>2, StepLabels
  <2>3. DOMAIN tpeRow' = Ranks /\ DOMAIN srcInfo' = Ranks /\ DOMAIN tpe' = Ranks
    BY <1>0, <1>2
       DEF PlanStep, CountsGiven, PublishCounts, GatherCounts, Balance, LayOut, PublishSource,
           PublishScratch, Encode, shared
  <2>4. PlanningTypeOK'
    <3>1. pc' \in [Ranks -> PlanLabels]
      BY <1>0, <2>2
    <3>2. \A q \in Ranks : round'[q] = 0 <=> pc'[q] = "idle"
      BY <1>0, <2>1, <2>2
    <3>3. \A q \in Ranks : pc'[q] = "gather_counts" => ~HasCounts(q)'
      BY <1>0, <2>1, <2>2 DEF HasCounts
    <3> QED
      BY <1>0, <2>1, <2>3, <3>1, <3>2, <3>3 DEF PlanningTypeOK
  <2>5. ASSUME NEW q \in Ranks PROVE Place(q)' >= Place(q)
    <3>1. CASE q # r
      <4>1. pc'[q] = pc[q] /\ round'[q] = round[q]
        BY <1>0, <2>1, <2>2, <3>1
      <4>2. Place(q)' = Place(q)
        BY <4>1 DEF Place
      <4> QED
        BY <4>2, PlaceTypes
    <3>2. CASE q = r
      <4>1. PICK n \in Nat : n = round[r] /\ n = round'[r]
        BY <2>1, PlaceTypes
      <4>2. pc'[r] = label
        BY <1>0, <2>2
      <4>3. PICK old, new : old = pc[r] /\ new = label
        OBVIOUS
      <4> QED
        BY <2>1, <2>2, <3>2, <4>1, <4>2, <1>0 DEF Place, PlanLabels
    <3> QED
      BY <3>1, <3>2
  <2> QED
    BY <2>4, <2>5
<1>3. ASSUME NEW r \in Ranks, NextRound(r)
      PROVE  PlanningTypeOK' /\ \A q \in Ranks : Place(q)' >= Place(q)
  <2>1. /\ pc[r] \in {"idle", "planned"} /\ round[r] < Rounds
        /\ round' = [round EXCEPT ![r] = round[r] + 1]
        /\ pc' = [pc EXCEPT ![r] = "publish_counts"]
        /\ UNCHANGED <<gathered, tpeRow, srcInfo, tpe>>
    BY <1>3 DEF NextRound, StartPlanning, Goto, inputs, shared
  <2>2. round[r] \in Nat /\ round[r] + 1 \in 0 .. Rounds /\ round[r] + 1 # 0
    <3>1. round[r] \in Nat /\ Rounds \in Nat
      BY PlaceTypes, RoundsAssumption
    <3> QED
      BY <2>1, <3>1
  <2>3. PlanningTypeOK'
    <3>1. round' \in [Ranks -> 0 .. Rounds] /\ pc' \in [Ranks -> PlanLabels]
      BY <1>0, <2>1, <2>2 DEF PlanLabels
    <3>2. \A q \in Ranks : round'[q] = 0 <=> pc'[q] = "idle"
      BY <1>0, <2>1, <2>2
    <3>3. \A q \in Ranks : pc'[q] = "gather_counts" => ~HasCounts(q)'
      BY <1>0, <2>1 DEF HasCounts
    <3> QED
      BY <1>0, <2>1, <3>1, <3>2, <3>3 DEF PlanningTypeOK
  <2>4. ASSUME NEW q \in Ranks PROVE Place(q)' >= Place(q)
    <3>1. CASE q # r
      <4>1. pc'[q] = pc[q] /\ round'[q] = round[q]
        BY <1>0, <2>1, <3>1
      <4>2. Place(q)' = Place(q)
        BY <4>1 DEF Place
      <4> QED
        BY <4>2, PlaceTypes
    <3>2. CASE q = r
      <4>1. PICK n \in Nat : n = round[r] /\ n + 1 = round'[r] /\ pc'[r] = "publish_counts"
        BY <1>0, <2>1, <2>2
      <4>2. Place(r)' = 8 * (n + 1) + 1
        BY <4>1 DEF Place
      <4>3. Place(r) \in Nat /\ Place(r) <= 8 * n + 7
        BY <4>1, PlaceTypes
      <4> QED
        BY <3>2, <4>2, <4>3
    <3> QED
      BY <3>1, <3>2
  <2> QED
    BY <2>3, <2>4
<1> QED
  BY <1>1, <1>2, <1>3 DEF Turn, PlanTurn

LEMMA PlacesNat ==
    ASSUME InOrder', NEW q \in Ranks PROVE Place(q)' \in Nat /\ LastPassed(q)' \in Nat
<1>1. round'[q] \in Nat
  <2>1. round'[q] \in 0 .. Rounds
    BY DEF InOrder, PlanningTypeOK
  <2> QED
    BY <2>1, RoundsAssumption
<1>2. Place(q)' \in Nat
  BY <1>1 DEF Place
<1>3. LastPassed(q)' \in Nat
  BY <1>1 DEF LastPassed
<1> QED
  BY <1>2, <1>3

LEMMA TurnInOrder == InOrder /\ Turn => InOrder'
<1> SUFFICES ASSUME InOrder, Turn PROVE InOrder'
  OBVIOUS
<1>1. PlanningTypeOK' /\ \A q \in Ranks : Place(q)' >= Place(q)
  BY TurnTypes
<1>2. \A q \in Ranks : Place(q)' \in Nat /\ LastPassed(q)' \in Nat
  <2> SUFFICES ASSUME NEW q \in Ranks PROVE Place(q)' \in Nat /\ LastPassed(q)' \in Nat
    OBVIOUS
  <2>1. round'[q] \in Nat
    <3>1. round'[q] \in 0 .. Rounds
      BY <1>1 DEF PlanningTypeOK
    <3> QED
      BY <3>1, RoundsAssumption
  <2>2. Place(q)' \in Nat
    BY <2>1 DEF Place
  <2>3. LastPassed(q)' \in Nat
    BY <2>1 DEF LastPassed
  <2> QED
    BY <2>2, <2>3
<1>3. ASSUME NEW q \in Ranks, NEW p \in Ranks, LastPassed(q)' <= LastPassed(q) \/ LastPassed(q)' <= Place(p)
      PROVE  LastPassed(q)' <= Place(p)'
  <2>1. /\ LastPassed(q) <= Place(p) /\ LastPassed(q) \in Nat /\ Place(p) \in Nat
        /\ LastPassed(q)' \in Nat /\ Place(p)' \in Nat /\ Place(p)' >= Place(p)
    BY <1>1, <1>2, PlaceTypes DEF InOrder
  <2> QED
    BY <1>3, <2>1
<1>4. ASSUME NEW q \in Ranks, pc'[q] = pc[q], round'[q] = round[q]
      PROVE  LastPassed(q)' <= LastPassed(q)
  <2>1. LastPassed(q)' = LastPassed(q)
    BY <1>4 DEF LastPassed
  <2> QED
    BY <2>1, PlaceTypes
<1>5. CASE UNCHANGED turnVars
  BY <1>1, <1>3, <1>4, <1>5 DEF turnVars, InOrder
<1>6. ASSUME NEW r \in Ranks, NextRound(r), NEW q \in Ranks PROVE LastPassed(q)' <= LastPassed(q)
  <2>1. /\ pc[r] \in {"idle", "planned"}
        /\ round' = [round EXCEPT ![r] = round[r] + 1]
        /\ pc' = [pc EXCEPT ![r] = "publish_counts"]
    BY <1>6 DEF NextRound, StartPlanning, Goto
  <2>2. DOMAIN round = Ranks /\ DOMAIN pc = Ranks
    BY DEF InOrder, PlanningTypeOK
  <2>3. CASE q = r
    <3>1. PICK n \in Nat : n = round[r] /\ n + 1 = round'[r] /\ pc'[r] = "publish_counts"
      BY <2>1, <2>2, PlaceTypes
    <3>2. LastPassed(r)' = IF n + 1 < 2 THEN 0 ELSE 8 * (n + 1) - 3
      BY <3>1 DEF LastPassed
    <3>3. pc[r] = "idle" => n = 0
      BY <3>1, PlaceTypes
    <3>4. LastPassed(r) = IF pc[r] = "planned" THEN 8 * n + 5 ELSE IF n < 2 THEN 0 ELSE 8 * n - 3
      BY <2>1, <3>1 DEF LastPassed
    <3> QED
      BY <2>1, <2>3, <3>1, <3>2, <3>3, <3>4
  <2>4. CASE q # r
    BY <1>4, <2>1, <2>2, <2>4
  <2> QED
    BY <2>3, <2>4
<1>7. ASSUME NEW r \in Ranks, PlanTurn(r), NEW q \in Ranks, NEW p \in Ranks
      PROVE  LastPassed(q)' <= LastPassed(q) \/ LastPassed(q)' <= Place(p)
  <2>1. PlanStep(r) /\ (pc[r] \in AtBarrier => AllAt(r)) /\ UNCHANGED round /\ DOMAIN pc = Ranks
    BY <1>7, StepLabels DEF PlanTurn, InOrder, PlanningTypeOK
  <2>2. CASE q # r
    BY <1>4, <2>1, <2>2, OthersKept
  <2>3. CASE q = r
    <3>1. PICK label \in PlanLabels \ {"idle", "publish_counts"} :
                 /\ pc' = [pc EXCEPT ![r] = label]
                 /\ label = "publish_scratch" => pc[r] = "publish_sources"
                 /\ label = "encode" => pc[r] = "publish_scratch"
                 /\ label = "planned" => pc[r] = "encode"
                 /\ label \in {"balance", "gather_counts", "lay_out", "raised", "publish_sources"}
                        => pc[r] \in {"publish_counts", "gather_counts", "balance", "lay_out",
                                      "publish_sources"}
      BY <2>1, StepLabels
    <3>2. PICK n \in Nat : n = round[r] /\ n = round'[r] /\ pc'[r] = label
      BY <2>1, <3>1, PlaceTypes
    <3>3. Place(p) \in Nat /\ LastPassed(r) \in Nat
      BY PlaceTypes
    <3>4. CASE label = "publish_scratch"
      <4>1. pc[r] = "publish_sources" /\ AllAt(r)
        BY <2>1, <3>1, <3>4 DEF AtBarrier
      <4>2. LastPassed(r)' = 8 * n + 4 /\ Place(r) = 8 * n + 4
        BY <3>2, <3>4, <4>1 DEF LastPassed, Place
      <4> QED
        BY <2>3, <3>3, <4>1, <4>2 DEF AllAt
    <3>5. CASE label = "encode"
      <4>1. pc[r] = "publish_scratch" /\ AllAt(r)
        BY <2>1, <3>1, <3>5 DEF AtBarrier
      <4>2. LastPassed(r)' = 8 * n + 5 /\ Place(r) = 8 * n + 5
        BY <3>2, <3>5, <4>1 DEF LastPassed, Place
      <4> QED
        BY <2>3, <3>3, <4>1, <4>2 DEF AllAt
    <3>6. CASE label = "planned"
      <4>1. LastPassed(r)' = 8 * n + 5 /\ LastPassed(r) = 8 * n + 5
        BY <3>1, <3>2, <3>6 DEF LastPassed
      <4> QED
        BY <2>3, <3>2, <4>1
    <3>7. CASE label \notin {"publish_scratch", "encode", "planned"}
      <4>1. pc[r] \notin {"publish_scratch", "encode", "planned"}
        BY <3>1, <3>7 DEF PlanLabels
      <4>2. LastPassed(r)' = LastPassed(r)
        BY <3>2, <3>7, <4>1 DEF LastPassed
      <4> QED
        BY <2>3, <3>3, <4>2
    <3> QED
      BY <3>4, <3>5, <3>6, <3>7
  <2> QED
    BY <2>2, <2>3
<1> QED
  BY <1>1, <1>3, <1>5, <1>6, <1>7 DEF Turn, InOrder

LEMMA InitInOrder == PlanInit => InOrder
<1> SUFFICES ASSUME PlanInit PROVE InOrder
  OBVIOUS
<1>1. PlanningTypeOK
  BY InitInStep DEF InStep
<1>2. \A r \in Ranks : LastPassed(r) = 0 /\ Place(r) = 0
  BY DEF PlanInit, LastPassed, Place
<1> QED
  BY <1>1, <1>2 DEF InOrder

\* In planning alone, the barrier of a rank opens when all are at it.
LEMMA OpenAllAt ==
    ASSUME InStep, NEW r \in Ranks, pc[r] \in AtBarrier, BarrierOpen(r), NEW q \in Ranks
    PROVE  Place(q) >= Place(r)
<1>1. /\ SoFar(r) \in Nat /\ SoFar(q) \in Nat /\ arrived[r] \in Nat /\ arrived[q] \in Nat
      /\ round[r] \in Nat /\ round[q] \in Nat
      /\ SoFar(q) <= AllBarriers(round[q])
      /\ AllBarriers(round[q]) \in Nat /\ AllBarriers(round[r]) \in Nat
  BY BarriersBound
<1>2. Apart(r, q) /\ Apart(q, r) /\ arrived[q] >= arrived[r]
  BY DEF InStep, BarrierOpen
<1>3. /\ pc[r] \in PlanLabels /\ pc[q] \in PlanLabels
      /\ Extra(round[r]) \in {0, 1} /\ Rest \in {2, 3} /\ (q # r => Rest = 3)
      /\ pc[r] = "gather_counts" => Extra(round[r]) = 1
      /\ pc[q] = "gather_counts" => Extra(round[q]) = 1
      /\ round[r] # 0
  <2>1. q # r => NumRanks > 1
    BY NumRanksAssumption DEF Ranks
  <2> QED
    BY <2>1 DEF Extra, Rest, InStep, PlanningTypeOK, HasCounts, AtBarrier
<1>4. SoFar(r) >= 1
  BY <1>3 DEF SoFar, Barriers, AtBarrier
<1>5. CASE q = r
  <2>1. Place(r) \in Nat
    BY <1>1 DEF Place
  <2> QED
    BY <1>5, <2>1
<1>6. CASE q # r /\ round[q] = round[r]
  <2>1. SoFar(q) >= SoFar(r)
    BY <1>1, <1>2, <1>6 DEF Apart
  <2>2. PICK n \in Nat, x \in {0, 1} : n = round[r] /\ n = round[q] /\ x = Extra(n) /\ n # 0
    BY <1>1, <1>3, <1>6
  <2>3. CASE pc[r] = "gather_counts"
    <3>1. SoFar(r) = 1
      BY <2>3 DEF SoFar, Barriers
    <3>2. pc[q] \notin {"idle", "publish_counts"}
      BY <2>1, <3>1 DEF SoFar, Barriers
    <3> QED
      BY <1>3, <2>2, <2>3, <3>2 DEF Place, PlanLabels
  <2>4. CASE pc[r] = "publish_sources"
    <3>1. SoFar(r) = x + 1
      BY <2>2, <2>4 DEF SoFar, Barriers
    <3>2. pc[q] \in {"publish_sources", "publish_scratch", "encode", "planned"}
      BY <1>3, <2>1, <2>2, <3>1 DEF SoFar, Barriers, PlanLabels
    <3> QED
      BY <2>2, <2>4, <3>2 DEF Place
  <2>5. CASE pc[r] = "publish_scratch"
    <3>1. SoFar(r) = x + 2
      BY <2>2, <2>5 DEF SoFar, Barriers
    <3>2. pc[q] \in {"publish_scratch", "encode", "planned"}
      BY <1>3, <2>1, <2>2, <3>1 DEF SoFar, Barriers, PlanLabels
    <3> QED
      BY <2>2, <2>5, <3>2 DEF Place
  <2>6. CASE pc[r] = "encode"
    <3>1. SoFar(r) = x + 3
      BY <1>3, <1>6, <2>2, <2>6 DEF SoFar, Barriers
    <3>2. pc[q] \in {"encode", "planned"}
      BY <1>3, <2>1, <2>2, <3>1 DEF SoFar, Barriers, PlanLabels
    <3> QED
      BY <2>2, <2>6, <3>2 DEF Place
  <2> QED
    BY <2>3, <2>4, <2>5, <2>6 DEF AtBarrier
<1>7. CASE q # r /\ round[q] > round[r]
  <2>1. PICK n \in Nat, m \in Nat : n = round[r] /\ m = round[q] /\ m > n
    BY <1>1, <1>7
  <2>2. Place(q) \in (8 * m) .. (8 * m + 7) /\ Place(r) \in (8 * n) .. (8 * n + 7)
    BY <2>1 DEF Place
  <2> QED
    BY <2>1, <2>2
<1>8. CASE round[q] < round[r]
  <2>1. round[r] = round[q] + 1
    BY <1>1, <1>2, <1>8 DEF Apart
  <2>2. arrived[r] + SoFar(q) = arrived[q] + AllBarriers(round[q]) + SoFar(r)
    BY <1>2, <2>1 DEF Apart
  <2> QED
    BY <1>1, <1>2, <1>4, <2>2
<1> QED
  BY <1>1, <1>5, <1>6, <1>7, <1>8

LEMMA NextTurn == InStep /\ [Next]_planVars => Turn
<1> SUFFICES ASSUME InStep, [Next]_planVars PROVE Turn
  OBVIOUS
<1>1. CASE UNCHANGED planVars
  BY <1>1 DEF planVars, Turn, turnVars
<1>2. ASSUME NEW r \in Ranks, PlanStep(r) PROVE PlanTurn(r)
  <2>1. pc[r] \in AtBarrier => BarrierOpen(r)
    BY <1>2 DEF PlanStep, CountsGiven, PublishCounts, GatherCounts, Balance, LayOut, PublishSource,
                PublishScratch, Encode, Passes, AtBarrier
  <2> QED
    BY <1>2, <2>1, OpenAllAt DEF PlanTurn, AllAt
<1> QED
  BY <1>1, <1>2 DEF Next, Turn

\* The row of every rank that a rank may read past its barrier is of its round.
LEMMA OpenRow ==
    ASSUME InOrder, RowsPublished, NEW r \in Ranks, NEW d \in Ranks,
           pc[r] = "gather_counts", AllAt(r)
    PROVE  tpeRow[d] = CountsOf(round[r])[d]
<1>1. PICK n \in Nat, m \in Nat : n = round[r] /\ m = round[d] /\ n > 0
  BY PlaceTypes
<1>2. Place(r) = 8 * n + 2 /\ LastPassed(d) <= Place(r) /\ Place(d) >= Place(r)
  BY <1>1 DEF Place, InOrder, AllAt
<1>3. /\ Place(d) \in Nat /\ LastPassed(d) \in Nat
      /\ Place(d) <= 8 * m + 7 /\ (m >= 2 => LastPassed(d) >= 8 * m - 3)
  BY <1>1, PlaceTypes
<1>4. m = n
  BY <1>1, <1>2, <1>3
<1>5. pc[d] \notin {"idle", "publish_counts"}
  BY <1>1, <1>2, <1>4 DEF Place
<1>6. ~HasCounts(d)
  <2>1. ~HasCounts(r)
    BY DEF InOrder, PlanningTypeOK
  <2> QED
    BY <1>1, <1>4, <2>1 DEF HasCounts
<1> QED
  BY <1>1, <1>4, <1>5, <1>6 DEF RowsPublished, TopkOf, CountsOf

LEMMA NextRows == InOrder /\ RowsPublished /\ Turn => RowsPublished'
<1> SUFFICES ASSUME InOrder, RowsPublished, Turn, NEW q \in Ranks,
                    pc'[q] \notin {"idle", "publish_counts"}, ~HasCounts(q)'
             PROVE  tpeRow'[q] = TokensPerExpert(TopkOf(q)')
  BY DEF RowsPublished
<1>1. CASE UNCHANGED turnVars
  BY <1>1 DEF turnVars, inputs, shared, RowsPublished, HasCounts, TopkOf
<1>2. ASSUME NEW r \in Ranks, NextRound(r)
      PROVE  tpeRow'[q] = TokensPerExpert(TopkOf(q)')
  <2>1. /\ round' = [round EXCEPT ![r] = @ + 1] /\ pc' = [pc EXCEPT ![r] = "publish_counts"]
        /\ UNCHANGED <<routing, gathered, tpeRow>>
    BY <1>2 DEF NextRound, StartPlanning, Goto, inputs, shared
  <2>2. q # r /\ pc'[q] = pc[q] /\ round'[q] = round[q]
    BY <2>1 DEF InOrder, PlanningTypeOK
  <2> QED
    BY <2>1, <2>2 DEF RowsPublished, HasCounts, TopkOf
<1>3. ASSUME NEW r \in Ranks, PlanStep(r)
      PROVE  tpeRow'[q] = TokensPerExpert(TopkOf(q)')
  <2>1. UNCHANGED <<routing, gathered, round>> /\ TopkOf(q)' = TopkOf(q) /\ ~HasCounts(q)
    BY <1>3, OthersKept DEF TopkOf, HasCounts
  <2>2. CASE q # r
    BY <1>3, <2>1, <2>2, OthersKept DEF RowsPublished
  <2>3. CASE q = r /\ PublishCounts(r)
    BY <2>1, <2>3 DEF PublishCounts, InOrder, PlanningTypeOK
  <2>4. CASE q = r /\ ~PublishCounts(r)
    <3>1. ~CountsGiven(r)
      BY <2>1, <2>4 DEF CountsGiven
    <3>2. pc[r] \notin {"idle", "publish_counts"} /\ UNCHANGED tpeRow
      BY <1>3, <2>4, <3>1
         DEF PlanStep, GatherCounts, Balance, LayOut, PublishSource, PublishScratch, Encode, shared
    <3> QED
      BY <2>1, <2>4, <3>2 DEF RowsPublished
  <2> QED
    BY <2>2, <2>3, <2>4
<1> QED
  BY <1>1, <1>2, <1>3 DEF Turn, PlanTurn

\* The next row is added to those gathered.
LEMMA GatherNext ==
    ASSUME PInv, NEW r \in Ranks, GatherCounts(r), PlanTurn(r)
    PROVE  \/ /\ pc'[r] = "balance" /\ tpe'[r] = CountsOf(round[r])
           \/ /\ pc'[r] = "gather_counts"
              /\ \E n \in 0 .. (NumRanks - 1) :
                    /\ DOMAIN tpe'[r] = 0 .. (n - 1)
                    /\ \A d \in 0 .. (n - 1) : tpe'[r][d] = CountsOf(round[r])[d]
<1>1. pc[r] = "gather_counts" /\ AllAt(r)
  BY DEF GatherCounts, PlanTurn, AtBarrier
<1>2. PICK n \in 0 .. (NumRanks - 1) :
          /\ DOMAIN tpe[r] = 0 .. (n - 1)
          /\ \A d \in 0 .. (n - 1) : tpe[r][d] = CountsOf(round[r])[d]
  BY <1>1 DEF PInv, Gathered
<1>3. n \in Nat /\ n - 1 \in Int /\ n \in Ranks
  BY <1>2, NumRanksAssumption DEF Ranks
<1>4. Cardinality(DOMAIN tpe[r]) = n
  BY <1>2, <1>3, FS_Interval
<1>5. tpe'[r] = [d \in 0 .. n |-> IF d = n THEN tpeRow[d] ELSE tpe[r][d]]
      /\ pc'[r] = IF n + 1 = NumRanks THEN "balance" ELSE "gather_counts"
  BY <1>4 DEF GatherCounts, Goto, PInv, InOrder, PlanningTypeOK
<1>6. tpeRow[n] = CountsOf(round[r])[n]
  BY <1>1, <1>3, OpenRow DEF PInv
<1>7. tpe'[r] = [d \in 0 .. n |-> CountsOf(round[r])[d]]
  <2>1. \A d \in 0 .. n : d # n => d \in 0 .. (n - 1)
    BY <1>3
  <2> QED
    BY <1>2, <1>5, <1>6, <2>1
<1>8. CASE n + 1 = NumRanks
  <2>1. 0 .. n = Ranks
    BY <1>3, <1>8, NumRanksAssumption DEF Ranks
  <2>2. tpe'[r] = CountsOf(round[r])
    BY <1>7, <2>1 DEF CountsOf
  <2> QED
    BY <1>5, <1>8, <2>2
<1>9. CASE n + 1 # NumRanks
  <2>1. n + 1 \in 0 .. (NumRanks - 1) /\ (n + 1) - 1 = n
    BY <1>2, <1>3, <1>9, NumRanksAssumption
  <2>2. DOMAIN tpe'[r] = 0 .. n /\ \A d \in 0 .. n : tpe'[r][d] = CountsOf(round[r])[d]
    BY <1>7
  <2> QED
    BY <1>5, <1>9, <2>1, <2>2
<1> QED
  BY <1>8, <1>9

LEMMA NextCounts == PInv /\ Turn => Gathered' /\ CountsCurrent'
<1> DEFINE Planning == {"balance", "lay_out", "publish_sources", "publish_scratch", "encode", "planned"}
           HasGathered(q, t) ==
               \E n \in 0 .. (NumRanks - 1) :
                   /\ DOMAIN t = 0 .. (n - 1)
                   /\ \A d \in 0 .. (n - 1) : t[d] = CountsOf(round[q])[d]
           Right(q) == /\ pc[q] = "gather_counts" => HasGathered(q, tpe[q])
                       /\ pc[q] \in Planning => tpe[q] = CountsOf(round[q])
<1> SUFFICES ASSUME PInv, Turn, NEW q \in Ranks PROVE Right(q)'
  BY DEF Gathered, CountsCurrent
<1>0. Right(q)
  BY DEF PInv, Gathered, CountsCurrent
<1>1. ASSUME UNCHANGED <<routing, round>>, pc'[q] = pc[q], tpe'[q] = tpe[q] PROVE Right(q)'
  BY <1>0, <1>1 DEF CountsOf
<1>2. CASE UNCHANGED turnVars
  BY <1>1, <1>2 DEF turnVars, inputs
<1>3. ASSUME NEW r \in Ranks, NextRound(r) PROVE Right(q)'
  <2>1. /\ round' = [round EXCEPT ![r] = @ + 1] /\ pc' = [pc EXCEPT ![r] = "publish_counts"]
        /\ UNCHANGED <<routing, tpe>>
    BY <1>3 DEF NextRound, StartPlanning, Goto, inputs
  <2>2. CASE q = r
    BY <2>1, <2>2 DEF PInv, InOrder, PlanningTypeOK
  <2>3. CASE q # r
    <3>1. UNCHANGED <<routing>> /\ pc'[q] = pc[q] /\ round'[q] = round[q] /\ tpe'[q] = tpe[q]
      BY <2>1, <2>3 DEF PInv, InOrder, PlanningTypeOK
    <3> QED
      BY <1>0, <3>1 DEF CountsOf
  <2> QED
    BY <2>2, <2>3
<1>4. ASSUME NEW r \in Ranks, PlanStep(r), PlanTurn(r) PROVE Right(q)'
  <2>1. InOrder /\ pc \in [Ranks -> PlanLabels] /\ DOMAIN tpe = Ranks
    BY DEF PInv, InOrder, PlanningTypeOK
  <2>2. UNCHANGED <<routing, round>> /\ CountsOf(round[q])' = CountsOf(round[q])
    BY <1>4, <2>1, OthersKept DEF CountsOf
  <2>3. CASE q # r
    BY <1>1, <1>4, <2>1, <2>2, <2>3, OthersKept
  <2>4. CASE q = r /\ CountsGiven(r)
    BY <2>1, <2>2, <2>4 DEF CountsGiven, Goto, PlanLabels
  <2>5. CASE q = r /\ PublishCounts(r)
    <3>1. pc'[q] = "gather_counts" /\ tpe'[q] = Unset
      BY <2>1, <2>5 DEF PublishCounts, Goto
    <3>2. 0 \in 0 .. (NumRanks - 1) /\ DOMAIN Unset = 0 .. (0 - 1)
      BY NumRanksAssumption DEF Unset
    <3> QED
      BY <3>1, <3>2
  <2>6. CASE q = r /\ GatherCounts(r)
    BY <1>4, <2>2, <2>6, GatherNext
  <2>7. CASE q = r /\ (Balance(r) \/ LayOut(r) \/ PublishSource(r) \/ PublishScratch(r) \/ Encode(r))
    <3>1. pc[r] \in Planning /\ tpe' = tpe
      BY <2>7 DEF Balance, LayOut, PublishSource, PublishScratch, Encode
    <3>2. pc'[r] # "gather_counts"
      BY <2>1, <2>7 DEF Balance, LayOut, PublishSource, PublishScratch, Encode, Goto
    <3> QED
      BY <1>0, <2>2, <2>7, <3>1, <3>2
  <2> QED
    BY <1>4, <2>3, <2>4, <2>5, <2>6, <2>7 DEF PlanStep
<1> QED
  BY <1>2, <1>3, <1>4 DEF Turn, PlanTurn

LEMMA NextPInv == PInv /\ Turn => PInv'
BY TurnInOrder, NextRows, NextCounts DEF PInv

LEMMA InitPInv == PlanInit => PInv
<1> SUFFICES ASSUME PlanInit PROVE PInv
  OBVIOUS
<1>1. \A r \in Ranks : pc[r] = "idle"
  BY DEF PlanInit
<1> QED
  BY <1>1, InitInOrder DEF PInv, RowsPublished, Gathered, CountsCurrent

\* A rank plans with the counts that all ranks have in its own round, however far
\* its peers are behind or ahead.
THEOREM PlansWithItsCounts == Spec => []CountsCurrent
<1>1. PInv => CountsCurrent
  BY DEF PInv
<1> QED
  BY <1>1, InitInStep, NextInStep, NextTurn, InitPInv, NextPInv, PTL DEF Spec
-----------------------------------------------------------------------------
\* While a rank may read its src_info, all peers are done with storing into it.
LEMMA NobodyStores ==
    ASSUME InOrder, NEW r \in Ranks, NEW q \in Ranks,
           pc[r] \in {"encode", "planned"}, pc[q] = "publish_sources", AllAt(q)
    PROVE  FALSE
<1>1. PICK n \in Nat, m \in Nat : n = round[r] /\ m = round[q]
  BY PlaceTypes
<1>2. LastPassed(r) = 8 * n + 5 /\ Place(q) = 8 * m + 4 /\ Place(r) <= 8 * n + 7
  BY <1>1, PlaceTypes DEF LastPassed, Place
<1>3. LastPassed(r) <= Place(q) /\ Place(r) >= Place(q) /\ Place(r) \in Nat
  BY PlaceTypes DEF InOrder, AllAt
<1> QED
  BY <1>1, <1>2, <1>3

LEMMA StepKeepsSources ==
    ASSUME InOrder, Turn, NEW r \in Ranks,
           pc[r] \in {"encode", "planned"}, pc'[r] \in {"encode", "planned"}
    PROVE  srcInfo'[r] = srcInfo[r]
<1>0. DOMAIN srcInfo = Ranks
  BY DEF InOrder, PlanningTypeOK
<1>1. CASE UNCHANGED srcInfo
  BY <1>1
<1>2. ASSUME NEW q \in Ranks, LayOut(q), ~(UNCHANGED srcInfo) PROVE srcInfo'[r] = srcInfo[r]
  <2>1. srcInfo' = [srcInfo EXCEPT ![q] = NoRows] /\ pc[q] = "lay_out"
    BY <1>2 DEF LayOut
  <2> QED
    BY <1>0, <2>1
<1>3. ASSUME NEW q \in Ranks, PublishSource(q), PlanTurn(q) PROVE srcInfo'[r] = srcInfo[r]
  <2>1. pc[q] = "publish_sources" /\ AllAt(q)
    BY <1>3 DEF PublishSource, PlanTurn, AtBarrier
  <2> QED
    BY <2>1, NobodyStores
<1>4. CASE UNCHANGED turnVars
  BY <1>4 DEF turnVars, shared
<1>5. ASSUME NEW q \in Ranks,
             CountsGiven(q) \/ PublishCounts(q) \/ GatherCounts(q) \/ Balance(q)
                 \/ PublishScratch(q) \/ Encode(q) \/ NextRound(q)
      PROVE  UNCHANGED srcInfo
  BY <1>5 DEF CountsGiven, PublishCounts, GatherCounts, Balance, PublishScratch, Encode,
              NextRound, StartPlanning, shared
<1>6. ASSUME NEW q \in Ranks, PlanTurn(q) PROVE srcInfo'[r] = srcInfo[r]
  <2>1. PlanStep(q)
    BY <1>6 DEF PlanTurn
  <2> QED
    BY <1>1, <1>2, <1>3, <1>5, <1>6, <2>1 DEF PlanStep
<1>7. ASSUME NEW q \in Ranks, NextRound(q) PROVE srcInfo'[r] = srcInfo[r]
  BY <1>1, <1>5, <1>7
<1>8. UNCHANGED turnVars => srcInfo'[r] = srcInfo[r]
  BY <1>1, <1>4
<1> QED
  BY <1>6, <1>7, <1>8 DEF Turn

\* Nobody stores into the src_info of a rank between the barrier after which it may
\* read it and its next launch of planning.
THEOREM SourcesKept == Spec => SourcesStable
<1>1. InStep /\ PInv /\ [Next]_planVars =>
          [\A r \in Ranks : pc[r] \in {"encode", "planned"} /\ pc'[r] \in {"encode", "planned"}
              => srcInfo'[r] = srcInfo[r]]_planVars
  BY NextTurn, StepKeepsSources DEF PInv
<1> QED
  BY <1>1, InitInStep, NextInStep, NextTurn, InitPInv, NextPInv, PTL DEF Spec, SourcesStable

-----------------------------------------------------------------------------
(* What planning computes from the routing of all ranks. *)

CountsIn(topk) == [r \in Ranks |-> TokensPerExpert(topk[r])]
AllocIn(topk) == Alloc(Totals(CountsIn(topk)))
RawIn(topk, r) == RawDsts(r, topk[r], CountsIn(topk), AllocIn(topk), Layouts(AllocIn(topk)))
DstIn(topk, r) == EncodeDuplicates(RawIn(topk, r))

\* Where entry <<r, i>> goes.
Goes(topk, r, i) == Canonical(DstIn(topk, r)[i])

Routings == [Ranks -> [Slots -> Experts]]

LEMMA InputFits ==
    ASSUME NEW topk \in Routings PROVE Fits(topk, CountsIn(topk), AllocIn(topk))
<1>1. Counted(topk, CountsIn(topk))
  BY DEF Routings, Counted, CountsIn
<1>2. Routed(Totals(CountsIn(topk)))
  BY <1>1, AllRouted
<1> QED
  BY <1>1, <1>2, AllocIsGood DEF Fits, AllocIn

\* No assertion of planning fails.
LEMMA InputChecks ==
    ASSUME NEW topk \in Routings
    PROVE  /\ AllocChecks(Totals(CountsIn(topk)), AllocIn(topk))
           /\ \A d \in Ranks : LayoutFits(Layouts(AllocIn(topk))[d])
<1>1. GoodAlloc(Totals(CountsIn(topk)), AllocIn(topk))
  BY InputFits DEF Fits
<1>2. PICK a : a = AllocIn(topk)
  OBVIOUS
<1>3. ASSUME NEW d \in Ranks, NEW g \in Groups PROVE Layouts(a)[d].cuSeqlens[g] <= NvS
  <2>1. Layouts(a)[d].cuSeqlens = CuSeqlens(a, d)
    BY DEF Layouts, LayoutOf
  <2> QED
    BY <1>1, <1>2, <2>1, SegmentsFit
<1> QED
  BY <1>1, <1>2, <1>3, GoodChecks DEF LayoutFits

LEMMA RawIsDst ==
    ASSUME NEW topk \in Routings, NEW r \in Ranks
    PROVE  /\ RawIn(topk, r) \in [Slots -> Nat]
           /\ \A i \in Slots : Goes(topk, r, i) = RawIn(topk, r)[i]
<1>1. PICK a, counts : a = AllocIn(topk) /\ counts = CountsIn(topk) /\ Fits(topk, counts, a)
  BY InputFits
<1>2. RawIn(topk, r) = [i \in Slots |-> RawDst(r, topk[r], counts, a, Layouts(a), i)]
  BY <1>1 DEF RawIn, RawDsts
<1>3. ASSUME NEW i \in Slots PROVE RawIn(topk, r)[i] \in Nat
  <2>1. PICK d, g, s : Lands(topk, counts, a, r, i, d, g, s)
    BY <1>1, EachLands
  <2>2. PICK l : l = GroupStart(a, d)[g] + s
    OBVIOUS
  <2>3. RawDst(r, topk[r], counts, a, Layouts(a), i) = d * NvS + l /\ l \in Nat /\ l < NvS
    BY <1>1, <2>1, <2>2, RowOfLanding
  <2>4. d \in Ranks
    BY <2>1 DEF Lands
  <2>5. d * NvS + l \in Nat
    BY <2>3, <2>4, RowOfDst
  <2> QED
    BY <1>2, <2>3, <2>5
<1>4. RawIn(topk, r) \in [Slots -> Nat]
  BY <1>2, <1>3
<1>5. \A i \in Slots : Goes(topk, r, i) = RawIn(topk, r)[i]
  BY <1>4, MarksUndone DEF Goes, DstIn
<1> QED
  BY <1>4, <1>5

\* An entry goes to its row in the segment of its expert.
LEMMA EntryGoes ==
    ASSUME NEW topk \in Routings, NEW a, a = AllocIn(topk), NEW r \in Ranks, NEW i \in Slots,
           NEW d, NEW g, NEW s, Lands(topk, CountsIn(topk), a, r, i, d, g, s)
    PROVE  /\ DestRank(Goes(topk, r, i)) = d
           /\ DestRow(Goes(topk, r, i)) = GroupStart(a, d)[g] + s
           /\ Goes(topk, r, i) = d * NvS + (GroupStart(a, d)[g] + s)
<1>1. PICK counts : counts = CountsIn(topk) /\ Fits(topk, counts, a)
  BY InputFits
<1>2. PICK l : l = GroupStart(a, d)[g] + s
  OBVIOUS
<1>3. RawDst(r, topk[r], counts, a, Layouts(a), i) = d * NvS + l /\ l \in Nat /\ l < NvS
  BY <1>1, <1>2, RowOfLanding
<1>4. d \in Ranks
  BY DEF Lands
<1>5. Goes(topk, r, i) = d * NvS + l
  <2>1. RawIn(topk, r)[i] = RawDst(r, topk[r], counts, a, Layouts(a), i)
    BY <1>1 DEF RawIn, RawDsts
  <2> QED
    BY <1>3, <2>1, RawIsDst
<1>6. DestRank(Goes(topk, r, i)) = d /\ DestRow(Goes(topk, r, i)) = l
  BY <1>3, <1>4, <1>5, RowOfDst
<1> QED
  BY <1>2, <1>5, <1>6

\* In which segment a row of rank d is, if in any: in one only.
LEMMA OneSegment ==
    ASSUME NEW topk \in Routings, NEW a, a = AllocIn(topk), NEW d \in Ranks,
           NEW g \in Groups, NEW h \in Groups, NEW l \in Nat,
           GroupStart(a, d)[g] <= l, l < CuSeqlens(a, d)[g],
           GroupStart(a, d)[h] <= l, l < CuSeqlens(a, d)[h]
    PROVE  g = h
<1>1. PICK start, count, cu : /\ start = GroupStart(a, d) /\ count = GroupCount(a, d)
                              /\ cu = CuSeqlens(a, d)
  OBVIOUS
<1>2. a \in [Experts -> [Ranks -> Nat]]
  BY InputFits DEF Fits, GoodAlloc
<1>3. PICK N : N = NumExperts + PrefetchSlots - 1 /\ N \in Nat /\ Groups = 0 .. N
  BY GroupsIntervals
<1>4. Laid(N, start, cu)
  BY <1>1, <1>2, <1>3, SegmentsLaid
<1>5. g \in 0 .. N /\ h \in 0 .. N
  BY <1>3
<1>6. /\ start[g] \in Nat /\ cu[g] \in Nat /\ start[h] \in Nat /\ cu[h] \in Nat
  BY <1>4, <1>5 DEF Laid
<1>7. ~(g < h)
  <2> SUFFICES ASSUME g < h PROVE FALSE
    OBVIOUS
  <2>1. cu[g] <= start[h]
    BY <1>4, <1>5, LaidInOrder
  <2> QED
    BY <1>1, <1>6, <2>1
<1>8. ~(h < g)
  <2> SUFFICES ASSUME h < g PROVE FALSE
    OBVIOUS
  <2>1. cu[h] <= start[g]
    BY <1>4, <1>5, LaidInOrder
  <2> QED
    BY <1>1, <1>6, <2>1
<1> QED
  BY <1>5, <1>7, <1>8

\* Two entries do not go to one row.
LEMMA EntriesApart ==
    ASSUME NEW topk \in Routings, NEW r \in Ranks, NEW i \in Slots, NEW q \in Ranks, NEW j \in Slots,
           Goes(topk, r, i) = Goes(topk, q, j)
    PROVE  r = q /\ i = j
<1>1. PICK a, counts : a = AllocIn(topk) /\ counts = CountsIn(topk) /\ Fits(topk, counts, a)
  BY InputFits
<1>2. PICK d, g, s : Lands(topk, counts, a, r, i, d, g, s)
  BY <1>1, EachLands
<1>3. PICK d2, g2, s2 : Lands(topk, counts, a, q, j, d2, g2, s2)
  BY <1>1, EachLands
<1>4. PICK l : /\ l = GroupStart(a, d)[g] + s /\ l \in Nat
               /\ GroupStart(a, d)[g] \in Nat /\ l < CuSeqlens(a, d)[g]
  BY <1>1, <1>2, RowOfLanding
<1>5. PICK l2 : /\ l2 = GroupStart(a, d2)[g2] + s2 /\ l2 \in Nat
                /\ GroupStart(a, d2)[g2] \in Nat /\ l2 < CuSeqlens(a, d2)[g2]
  BY <1>1, <1>3, RowOfLanding
<1>6. d2 = d /\ l2 = l
  BY <1>1, <1>2, <1>3, <1>4, <1>5, EntryGoes
<1>7. d \in Ranks /\ g \in Groups /\ g2 \in Groups /\ s \in Nat /\ s2 \in Nat
  BY <1>2, <1>3 DEF Lands
<1>8. g2 = g
  <2>1. GroupStart(a, d)[g] <= l /\ GroupStart(a, d)[g2] <= l
    BY <1>4, <1>5, <1>6, <1>7
  <2>2. l < CuSeqlens(a, d)[g] /\ l < CuSeqlens(a, d)[g2]
    BY <1>4, <1>5, <1>6
  <2> QED
    BY <1>1, <1>4, <1>7, <2>1, <2>2, OneSegment
<1>9. s2 = s
  BY <1>4, <1>5, <1>6, <1>7, <1>8
<1>10. Lands(topk, counts, a, q, j, d, g, s)
  BY <1>3, <1>6, <1>8, <1>9
<1> QED
  BY <1>1, <1>2, <1>10, LandsOnce

\* The rows of a rank that entries go to are those of the tokens of its segments.
LEMMA RowsOfEntries ==
    ASSUME NEW topk \in Routings, NEW a, a = AllocIn(topk), NEW d \in Ranks, NEW l \in Nat
    PROVE  (\E r \in Ranks, i \in Slots : DestRank(Goes(topk, r, i)) = d /\ DestRow(Goes(topk, r, i)) = l)
           <=> \E g \in Groups : /\ GroupStart(a, d)[g] <= l
                                 /\ l < GroupStart(a, d)[g] + GroupCount(a, d)[g]
<1>1. PICK counts : counts = CountsIn(topk) /\ Fits(topk, counts, a)
  BY InputFits
<1>2. a \in [Experts -> [Ranks -> Nat]]
  BY <1>1 DEF Fits, GoodAlloc
<1>3. ASSUME NEW r \in Ranks, NEW i \in Slots, DestRank(Goes(topk, r, i)) = d,
             DestRow(Goes(topk, r, i)) = l
      PROVE  \E g \in Groups : /\ GroupStart(a, d)[g] <= l
                               /\ l < GroupStart(a, d)[g] + GroupCount(a, d)[g]
  <2>1. PICK d2, g, s : Lands(topk, counts, a, r, i, d2, g, s)
    BY <1>1, EachLands
  <2>2. d2 = d /\ l = GroupStart(a, d2)[g] + s
    BY <1>1, <1>3, <2>1, EntryGoes
  <2>3. /\ GroupStart(a, d2)[g] \in Nat
        /\ l < GroupStart(a, d2)[g] + GroupCount(a, d2)[g]
    BY <1>1, <2>1, <2>2, RowOfLanding
  <2>4. g \in Groups /\ s \in Nat
    BY <2>1 DEF Lands
  <2> QED
    BY <2>2, <2>3, <2>4
<1>4. ASSUME NEW g \in Groups, GroupStart(a, d)[g] <= l,
             l < GroupStart(a, d)[g] + GroupCount(a, d)[g]
      PROVE  \E r \in Ranks, i \in Slots : DestRank(Goes(topk, r, i)) = d
                                           /\ DestRow(Goes(topk, r, i)) = l
  <2>1. PICK start, count, expert : /\ start = GroupStart(a, d) /\ count = GroupCount(a, d)
                                    /\ expert = GroupExpert(a, d)
    OBVIOUS
  <2>2. /\ count \in [Groups -> Nat]
        /\ expert[g] = None => count[g] = 0
        /\ expert[g] # None => count[g] = a[expert[g]][d]
    BY <1>2, <2>1, CountsOfGroups
  <2>3. start[g] \in Nat
    <3>1. PICK cu : cu = CuSeqlens(a, d)
      OBVIOUS
    <3>2. Laid(NumExperts + PrefetchSlots - 1, start, cu)
      BY <1>2, <2>1, <3>1, SegmentsLaid
    <3> QED
      BY <3>2, GroupsIntervals DEF Laid
  <2>4. PICK s \in Nat : l = start[g] + s /\ s < count[g]
    <3>1. l - start[g] \in Nat /\ l = start[g] + (l - start[g]) /\ l - start[g] < count[g]
      BY <1>4, <2>1, <2>2, <2>3
    <3> QED
      BY <3>1
  <2>5. expert[g] # None
    BY <2>2, <2>4
  <2>6. PICK e \in Experts : expert[g] = e
    BY <2>1, <2>5, GroupOfExpert
  <2>7. s < a[e][d]
    BY <2>2, <2>4, <2>5, <2>6
  <2>8. PICK r \in Ranks, i \in Slots : Lands(topk, counts, a, r, i, d, g, s)
    BY <1>1, <2>1, <2>6, <2>7, EachRowTaken
  <2>9. DestRank(Goes(topk, r, i)) = d /\ DestRow(Goes(topk, r, i)) = l
    BY <1>1, <2>1, <2>4, <2>8, EntryGoes
  <2> QED
    BY <2>9
<1> QED
  BY <1>3, <1>4

-----------------------------------------------------------------------------
(* The plans of all ranks together. *)

\* The layouts and destinations that planning comes to for the routing topk.
PlansFor(topk, layouts, dst) ==
    /\ topk \in Routings
    /\ \A r \in Ranks : layouts[r] = LayoutOf(AllocIn(topk), r)
    /\ \A r \in Ranks : dst[r] = DstIn(topk, r)

LEMMA PlannedDst ==
    ASSUME NEW topk, NEW layouts, NEW dst, PlansFor(topk, layouts, dst),
           NEW r \in Ranks, NEW i \in Slots
    PROVE  DstOf(dst, <<r, i>>) = Goes(topk, r, i)
<1>1. dst[r] = DstIn(topk, r)
  BY DEF PlansFor
<1> QED
  BY <1>1 DEF DstOf, Goes

LEMMA PlannedLayout ==
    ASSUME NEW topk, NEW layouts, NEW dst, PlansFor(topk, layouts, dst),
           NEW a, a = AllocIn(topk), NEW d \in Ranks
    PROVE  /\ layouts[d].cuSeqlens = CuSeqlens(a, d)
           /\ layouts[d].zeroFill = ZeroFill(a, d)
           /\ layouts[d].copied = ExpertsToCopy(a, d)
<1>1. layouts[d] = LayoutOf(a, d)
  BY DEF PlansFor
<1> QED
  BY <1>1 DEF LayoutOf

LEMMA PlannedDisjoint ==
    ASSUME NEW topk, NEW layouts, NEW dst, PlansFor(topk, layouts, dst) PROVE RowsDisjoint(dst)
<1>1. PICK a : a = AllocIn(topk) /\ topk \in Routings
  BY DEF PlansFor
<1>2. /\ Entries = Ranks \X Slots
      /\ \A r \in Ranks, i \in Slots : DstOf(dst, <<r, i>>) = Goes(topk, r, i)
  BY PlannedDst DEF Entries
<1>3. ASSUME NEW x \in Entries, NEW y \in Entries, DstOf(dst, x) = DstOf(dst, y)
      PROVE  x = y
  <2>1. PICK r \in Ranks, i \in Slots : x = <<r, i>>
    BY <1>2
  <2>2. PICK q \in Ranks, j \in Slots : y = <<q, j>>
    BY <1>2
  <2>3. Goes(topk, r, i) = Goes(topk, q, j)
    BY <1>2, <1>3, <2>1, <2>2
  <2> QED
    BY <1>1, <2>1, <2>2, <2>3, EntriesApart
<1> QED
  BY <1>3 DEF RowsDisjoint

\* The rows that the zero fill of rank d clears are those behind the tokens of the
\* segments.
LEMMA FilledIs ==
    ASSUME NEW topk, NEW layouts, NEW dst, PlansFor(topk, layouts, dst), NEW a, a = AllocIn(topk), NEW d \in Ranks, NEW l
    PROVE  l \in FilledRows(layouts[d]) <=>
               \E g \in Groups : /\ l \in Nat
                                 /\ GroupStart(a, d)[g] + GroupCount(a, d)[g] <= l
                                 /\ l < CuSeqlens(a, d)[g]
<1>1. PICK start, count, cu : /\ start = GroupStart(a, d) /\ count = GroupCount(a, d)
                              /\ cu = CuSeqlens(a, d)
  OBVIOUS
<1>2. a \in [Experts -> [Ranks -> Nat]]
  BY InputFits DEF PlansFor, Fits, GoodAlloc
<1>3. Laid(NumExperts + PrefetchSlots - 1, start, cu) /\ \A g \in Groups : cu[g] = start[g] + Padded(count[g])
  BY <1>1, <1>2, SegmentsLaid
<1>4. \A g \in Groups : start[g] \in Nat /\ cu[g] \in Nat
  BY <1>3, GroupsIntervals DEF Laid
<1>5. \A g \in Groups : count[g] \in Nat /\ Padded(count[g]) \in Nat /\ count[g] <= Padded(count[g])
  BY <1>1, <1>2, CountsOfGroups, PaddedRows
<1>6. layouts[d].zeroFill = [g \in Groups |-> Padding(start[g], count[g])]
  BY <1>1, PlannedLayout DEF ZeroFill
<1>7. FilledRows(layouts[d]) =
          UNION {layouts[d].zeroFill[g][1] ..
                 (layouts[d].zeroFill[g][1] + layouts[d].zeroFill[g][2] - 1) : g \in Groups}
  BY DEF FilledRows
<1>8. ASSUME NEW g \in Groups
      PROVE  l \in layouts[d].zeroFill[g][1] ..
                      (layouts[d].zeroFill[g][1] + layouts[d].zeroFill[g][2] - 1)
             <=> l \in Nat /\ start[g] + count[g] <= l /\ l < cu[g]
  <2>1. layouts[d].zeroFill[g] = Padding(start[g], count[g])
    BY <1>6
  <2>2. CASE Padded(count[g]) > count[g]
    <3>1. layouts[d].zeroFill[g] = <<start[g] + count[g], Padded(count[g]) - count[g]>>
      BY <2>1, <2>2 DEF Padding
    <3>2. (start[g] + count[g]) + (Padded(count[g]) - count[g]) - 1 = cu[g] - 1
      BY <1>3, <1>4, <1>5
    <3>3. l \in (start[g] + count[g]) .. (cu[g] - 1)
              <=> l \in Nat /\ start[g] + count[g] <= l /\ l < cu[g]
      BY <1>4, <1>5
    <3> QED
      BY <3>1, <3>2, <3>3
  <2>3. CASE ~(Padded(count[g]) > count[g])
    <3>1. layouts[d].zeroFill[g] = <<0, 0>>
      BY <2>1, <2>3 DEF Padding
    <3>2. Padded(count[g]) = count[g]
      BY <1>5, <2>3
    <3>3. ~(l \in Nat /\ start[g] + count[g] <= l /\ l < cu[g])
      BY <1>3, <1>4, <1>5, <3>2
    <3>4. l \notin 0 .. (0 + 0 - 1)
      OBVIOUS
    <3> QED
      BY <3>1, <3>3, <3>4
  <2> QED
    BY <2>2, <2>3
<1>9. (\E g \in Groups : l \in layouts[d].zeroFill[g][1] ..
                      (layouts[d].zeroFill[g][1] + layouts[d].zeroFill[g][2] - 1))
      <=> \E g \in Groups : l \in Nat /\ start[g] + count[g] <= l /\ l < cu[g]
  BY <1>8
<1>10. l \in FilledRows(layouts[d]) <=>
           \E g \in Groups : l \in layouts[d].zeroFill[g][1] ..
                      (layouts[d].zeroFill[g][1] + layouts[d].zeroFill[g][2] - 1)
  BY <1>7
<1> QED
  BY <1>1, <1>9, <1>10

LEMMA UsedIs ==
    ASSUME NEW topk, NEW layouts, NEW dst, PlansFor(topk, layouts, dst), NEW a, a = AllocIn(topk), NEW d \in Ranks, NEW l
    PROVE  l \in RowsUsed(dst, d) <=>
               \E g \in Groups : /\ l \in Nat
                                 /\ GroupStart(a, d)[g] <= l
                                 /\ l < GroupStart(a, d)[g] + GroupCount(a, d)[g]
<1>1. topk \in Routings
  BY DEF PlansFor
<1>2. /\ Entries = Ranks \X Slots
      /\ \A r \in Ranks, i \in Slots : DstOf(dst, <<r, i>>) = Goes(topk, r, i)
  BY PlannedDst DEF Entries
<1>3. l \in RowsUsed(dst, d) <=>
          \E r \in Ranks, i \in Slots : DestRank(Goes(topk, r, i)) = d /\ DestRow(Goes(topk, r, i)) = l
  <2>1. ASSUME l \in RowsUsed(dst, d)
        PROVE  \E r \in Ranks, i \in Slots :
                   DestRank(Goes(topk, r, i)) = d /\ DestRow(Goes(topk, r, i)) = l
    <3>1. PICK x \in Entries : /\ DestRank(DstOf(dst, x)) = d
                                      /\ DestRow(DstOf(dst, x)) = l
      BY <2>1 DEF RowsUsed
    <3>2. PICK r \in Ranks, i \in Slots : x = <<r, i>>
      BY <1>2
    <3> QED
      BY <1>2, <3>1, <3>2
  <2>2. ASSUME NEW r \in Ranks, NEW i \in Slots,
               DestRank(Goes(topk, r, i)) = d, DestRow(Goes(topk, r, i)) = l
        PROVE  l \in RowsUsed(dst, d)
    <3>1. PICK x \in Entries : x = <<r, i>>
      BY <1>2
    <3>2. DestRank(DstOf(dst, x)) = d /\ DestRow(DstOf(dst, x)) = l
      BY <1>2, <2>2, <3>1
    <3> QED
      BY <3>2 DEF RowsUsed
  <2> QED
    BY <2>1, <2>2
<1>4. \A r \in Ranks, i \in Slots : DestRow(Goes(topk, r, i)) \in Nat
  <2> SUFFICES ASSUME NEW r \in Ranks, NEW i \in Slots PROVE DestRow(Goes(topk, r, i)) \in Nat
    OBVIOUS
  <2>1. PICK counts : counts = CountsIn(topk) /\ Fits(topk, counts, a)
    BY <1>1, InputFits
  <2>2. PICK d2, g, s : Lands(topk, counts, a, r, i, d2, g, s)
    BY <2>1, EachLands
  <2>3. PICK k : k = GroupStart(a, d2)[g] + s /\ k \in Nat
    BY <2>1, <2>2, RowOfLanding
  <2>4. DestRow(Goes(topk, r, i)) = k
    BY <1>1, <2>1, <2>2, <2>3, EntryGoes
  <2> QED
    BY <2>3, <2>4
<1>5. CASE l \in Nat
  BY <1>1, <1>3, <1>5, RowsOfEntries
<1>6. CASE l \notin Nat
  BY <1>3, <1>4, <1>6
<1> QED
  BY <1>5, <1>6

LEMMA PlannedCovered ==
    ASSUME NEW topk, NEW layouts, NEW dst, PlansFor(topk, layouts, dst) PROVE RowsCovered(layouts, dst)
<1>1. PICK a : a = AllocIn(topk) /\ topk \in Routings
  BY DEF PlansFor
<1> SUFFICES ASSUME NEW d \in Ranks
             PROVE  /\ RowsUsed(dst, d) \cap FilledRows(layouts[d]) = {}
                    /\ RowsUsed(dst, d) \cup FilledRows(layouts[d]) =
                           0 .. (layouts[d].cuSeqlens[NumExperts + PrefetchSlots - 1] - 1)
  BY DEF RowsCovered, LastGroup
<1>3. PICK start, count, cu : /\ start = GroupStart(a, d) /\ count = GroupCount(a, d)
                              /\ cu = CuSeqlens(a, d)
  OBVIOUS
<1>4. layouts[d].cuSeqlens = cu
  BY <1>1, <1>3, PlannedLayout
<1>5. PICK N : N = NumExperts + PrefetchSlots - 1 /\ N \in Nat /\ Groups = 0 .. N
  BY GroupsIntervals
<1>6. a \in [Experts -> [Ranks -> Nat]]
  BY <1>1, InputFits DEF Fits, GoodAlloc
<1>7. Laid(N, start, cu) /\ \A g \in Groups : cu[g] = start[g] + Padded(count[g])
  BY <1>3, <1>5, <1>6, SegmentsLaid
<1>8. \A g \in Groups : /\ start[g] \in Nat /\ cu[g] \in Nat
                        /\ count[g] \in Nat /\ start[g] + count[g] <= cu[g] /\ cu[g] <= cu[N]
  <2> SUFFICES ASSUME NEW g \in Groups
               PROVE  /\ start[g] \in Nat /\ cu[g] \in Nat
                      /\ count[g] \in Nat /\ start[g] + count[g] <= cu[g] /\ cu[g] <= cu[N]
    OBVIOUS
  <2>1. start[g] \in Nat /\ cu[g] \in Nat
    BY <1>5, <1>7 DEF Laid
  <2>2. count[g] \in Nat
    BY <1>3, <1>6, CountsOfGroups
  <2>3. count[g] <= Padded(count[g]) /\ Padded(count[g]) \in Nat
    BY <2>2, PaddedRows
  <2>4. cu[g] <= cu[N]
    BY <1>5, <1>7, LaidWithin
  <2> QED
    BY <1>7, <2>1, <2>2, <2>3, <2>4
<1>9. \A l : l \in FilledRows(layouts[d]) <=>
          \E g \in Groups : l \in Nat /\ start[g] + count[g] <= l /\ l < cu[g]
  BY <1>1, <1>3, FilledIs
<1>10. \A l : l \in RowsUsed(dst, d) <=>
          \E g \in Groups : l \in Nat /\ start[g] <= l /\ l < start[g] + count[g]
  BY <1>1, <1>3, UsedIs
<1>11. ASSUME NEW l, l \in RowsUsed(dst, d), l \in FilledRows(layouts[d]) PROVE FALSE
  <2>1. PICK g \in Groups : l \in Nat /\ start[g] <= l /\ l < start[g] + count[g]
    BY <1>10, <1>11
  <2>2. PICK h \in Groups : l \in Nat /\ start[h] + count[h] <= l /\ l < cu[h]
    BY <1>9, <1>11
  <2>3. l < cu[g] /\ start[h] <= l
    BY <1>8, <2>1, <2>2
  <2>4. g = h
    BY <1>1, <1>3, <2>1, <2>2, <2>3, OneSegment
  <2> QED
    BY <1>8, <2>1, <2>2, <2>4
<1>12. N \in Groups /\ cu[N] \in Nat
  BY <1>5, <1>8
<1>13. ASSUME NEW l
       PROVE  (l \in RowsUsed(dst, d) \/ l \in FilledRows(layouts[d])) <=> l \in 0 .. (cu[N] - 1)
  <2>1. ASSUME l \in 0 .. (cu[N] - 1)
        PROVE  l \in RowsUsed(dst, d) \/ l \in FilledRows(layouts[d])
    <3>1. l \in Nat /\ l < cu[N]
      BY <1>12, <2>1
    <3>2. PICK g \in 0 .. N : start[g] <= l /\ l < cu[g]
      BY <1>7, <3>1, LaidCovers
    <3>3. g \in Groups
      BY <1>5
    <3>4. CASE l < start[g] + count[g]
      BY <1>10, <3>1, <3>2, <3>3, <3>4
    <3>5. CASE ~(l < start[g] + count[g])
      <4>1. start[g] + count[g] <= l
        BY <1>8, <3>1, <3>3, <3>5
      <4> QED
        BY <1>9, <3>1, <3>2, <3>3, <4>1
    <3> QED
      BY <3>4, <3>5
  <2>2. ASSUME l \in RowsUsed(dst, d) PROVE l \in 0 .. (cu[N] - 1)
    <3>1. PICK g \in Groups : l \in Nat /\ start[g] <= l /\ l < start[g] + count[g]
      BY <1>10, <2>2
    <3> QED
      BY <1>8, <1>12, <3>1
  <2>3. ASSUME l \in FilledRows(layouts[d]) PROVE l \in 0 .. (cu[N] - 1)
    <3>1. PICK g \in Groups : l \in Nat /\ start[g] + count[g] <= l /\ l < cu[g]
      BY <1>9, <2>3
    <3> QED
      BY <1>8, <1>12, <3>1
  <2> QED
    BY <2>1, <2>2, <2>3
<1> QED
  BY <1>4, <1>5, <1>11, <1>13

LEMMA PlannedSentToExpert ==
    ASSUME NEW topk, NEW layouts, NEW dst, PlansFor(topk, layouts, dst) PROVE SentToExpert(topk, layouts, dst)
<1>1. PICK a, counts : /\ a = AllocIn(topk) /\ topk \in Routings
                    /\ counts = CountsIn(topk) /\ Fits(topk, counts, a)
  BY InputFits DEF PlansFor
<1>2. /\ Entries = Ranks \X Slots
      /\ \A r \in Ranks, i \in Slots : DstOf(dst, <<r, i>>) = Goes(topk, r, i)
  BY PlannedDst DEF Entries
<1>3. ASSUME NEW x \in Entries
      PROVE  \E g \in Groups :
                 /\ Holds(layouts[DestRank(DstOf(dst, x))], g, DestRow(DstOf(dst, x)))
                 /\ \/ g = topk[x[1]][x[2]]
                    \/ /\ g >= NumExperts
                       /\ layouts[DestRank(DstOf(dst, x))].copied[g - NumExperts]
                              = topk[x[1]][x[2]]
  <2>1. PICK r \in Ranks, i \in Slots : x = <<r, i>>
    BY <1>2
  <2>2. PICK d, g, s : Lands(topk, counts, a, r, i, d, g, s)
    BY <1>1, EachLands
  <2>3. PICK l : l = GroupStart(a, d)[g] + s
    OBVIOUS
  <2>4. /\ l \in Nat /\ GroupStart(a, d)[g] \in Nat /\ l < CuSeqlens(a, d)[g]
    BY <1>1, <2>2, <2>3, RowOfLanding
  <2>5. d \in Ranks /\ g \in Groups /\ s \in Nat /\ GroupExpert(a, d)[g] = topk[r][i]
    BY <2>2 DEF Lands
  <2>6. DestRank(DstOf(dst, x)) = d /\ DestRow(DstOf(dst, x)) = l
    BY <1>1, <1>2, <2>1, <2>2, <2>3, EntryGoes
  <2>7. Holds(layouts[d], g, l)
    <3>1. layouts[d].cuSeqlens = CuSeqlens(a, d)
      BY <1>1, <2>5, PlannedLayout
    <3>2. g = 0 \/ CuSeqlens(a, d)[g - 1] <= l
      <4>1. GroupStart(a, d)[g] = IF g = 0 THEN 0 ELSE CuSeqlens(a, d)[g - 1]
        BY <2>5 DEF GroupStart
      <4>2. GroupStart(a, d)[g] <= l
        BY <2>3, <2>4, <2>5
      <4> QED
        BY <4>1, <4>2
    <3> QED
      BY <2>4, <2>5, <3>1, <3>2 DEF Holds
  <2>8. topk[r][i] # None
    BY <1>1, GroupsIntervals DEF Routings
  <2>9. g = topk[r][i] \/ (g >= NumExperts /\ ExpertsToCopy(a, d)[g - NumExperts] = topk[r][i])
    BY <2>5, <2>8, GroupOfExpert
  <2>10. layouts[d].copied = ExpertsToCopy(a, d)
    BY <1>1, <2>5, PlannedLayout
  <2>11. topk[x[1]][x[2]] = topk[r][i]
    BY <2>1
  <2> QED
    BY <2>5, <2>6, <2>7, <2>9, <2>10, <2>11
<1>4. \A x \in Entries : DestRank(DstOf(dst, x)) \in Ranks
  <2> SUFFICES ASSUME NEW x \in Entries PROVE DestRank(DstOf(dst, x)) \in Ranks
    OBVIOUS
  <2>1. PICK r \in Ranks, i \in Slots : x = <<r, i>>
    BY <1>2
  <2>2. PICK d, g, s : Lands(topk, counts, a, r, i, d, g, s)
    BY <1>1, EachLands
  <2>3. d \in Ranks
    BY <2>2 DEF Lands
  <2>4. DestRank(DstOf(dst, x)) = d
    BY <1>1, <1>2, <2>1, <2>2, EntryGoes
  <2> QED
    BY <2>3, <2>4
<1> QED
  BY <1>2, <1>3, <1>4 DEF SentToExpert

LEMMA PlannedAtHand ==
    ASSUME NEW topk, NEW layouts, NEW dst, PlansFor(topk, layouts, dst) PROVE PrefetchSlots >= ExpertsPerRank => HasWeights(topk, layouts, dst)
<1>1. PICK a, counts : /\ a = AllocIn(topk) /\ topk \in Routings
                    /\ counts = CountsIn(topk) /\ Fits(topk, counts, a)
  BY InputFits DEF PlansFor
<1>2. /\ Entries = Ranks \X Slots
      /\ \A r \in Ranks, i \in Slots : DstOf(dst, <<r, i>>) = Goes(topk, r, i)
  BY PlannedDst DEF Entries
<1>3. ASSUME PrefetchSlots >= ExpertsPerRank, NEW x \in Entries
      PROVE  /\ DestRank(DstOf(dst, x)) \in Ranks
             /\ \/ Home(topk[x[1]][x[2]]) = DestRank(DstOf(dst, x))
                \/ topk[x[1]][x[2]] \in
                       Range(layouts[DestRank(DstOf(dst, x))].copied)
  <2>1. PICK r \in Ranks, i \in Slots : x = <<r, i>>
    BY <1>2
  <2>2. PICK d, g, s : Lands(topk, counts, a, r, i, d, g, s)
    BY <1>1, EachLands
  <2>3. DestRank(DstOf(dst, x)) = d
    BY <1>1, <1>2, <2>1, <2>2, EntryGoes
  <2>4. PICK e \in Experts : e = topk[r][i] /\ topk[x[1]][x[2]] = e
    BY <1>1, <1>2, <2>1 DEF Routings
  <2>5. d \in Ranks /\ s \in Nat /\ s < a[e][d]
    BY <2>2, <2>4 DEF Lands
  <2>6. CASE Home(e) = d
    BY <2>3, <2>4, <2>5, <2>6
  <2>7. CASE Home(e) # d
    <3>1. a \in [Experts -> [Ranks -> Nat]]
          /\ \A e1, e2 \in RemoteExperts(a, d) : Home(e1) = Home(e2)
      BY <1>1, <2>5 DEF Fits, GoodAlloc
    <3>2. a[e][d] > 0 /\ e \in Experts \ Owned(d)
      BY <2>5, <2>7, <3>1 DEF Owned
    <3>3. e \in RemoteExperts(a, d)
      BY <3>2 DEF RemoteExperts
    <3>4. RemoteExperts(a, d) \subseteq Owned(Home(e)) /\ Home(e) \in Ranks
      <4>1. \A f \in RemoteExperts(a, d) : f \in Experts /\ Home(f) = Home(e)
        BY <3>1, <3>3, RemoteFinite
      <4> QED
        BY <4>1, HomeIsRank DEF Owned
    <3>5. Cardinality(RemoteExperts(a, d)) <= ExpertsPerRank
      <4>1. IsFiniteSet(Owned(Home(e))) /\ Cardinality(Owned(Home(e))) = ExpertsPerRank
        BY <3>4, ExpertsFinite, OwnedCount
      <4> QED
        BY <3>4, <4>1, FS_Subset
    <3>6. Cardinality(RemoteExperts(a, d)) <= PrefetchSlots
      <4>1. Cardinality(RemoteExperts(a, d)) \in Nat
        BY RemoteFinite, FS_CardinalityType
      <4> QED
        BY <1>3, <3>5, <4>1, SizesNat
    <3>7. PICK b \in 0 .. (PrefetchSlots - 1) : ExpertsToCopy(a, d)[b] = e
      BY <2>5, <3>1, <3>3, <3>6, AllCopied
    <3>8. layouts[d].copied = ExpertsToCopy(a, d)
      BY <1>1, <2>5, PlannedLayout
    <3>9. DOMAIN ExpertsToCopy(a, d) = 0 .. (PrefetchSlots - 1)
      BY DEF ExpertsToCopy
    <3>10. e \in Range(ExpertsToCopy(a, d))
      BY <3>7, <3>9 DEF Range
    <3> QED
      BY <2>3, <2>4, <2>5, <3>8, <3>10
  <2> QED
    BY <2>6, <2>7
<1> QED
  BY <1>2, <1>3 DEF HasWeights

\* In the order of the slots, the choices of a token follow its first one.
LEMMA ChoicesOrdered ==
    ASSUME NEW i \in Slots, NEW j \in Slots, TokenOf(i) = TokenOf(j), ChoiceOf(i) < ChoiceOf(j)
    PROVE  i < j
<1>1. TopK \in Nat \ {0} /\ i \in Nat /\ j \in Nat
  BY TokensAssumption DEF Slots
<1>2. /\ i = TopK * (i \div TopK) + (i % TopK)
      /\ j = TopK * (j \div TopK) + (j % TopK)
      /\ (i % TopK) \in Nat /\ (j % TopK) \in Nat
  BY <1>1, SMTT(30)
<1>3. PICK m \in Int : m = TopK * (i \div TopK) /\ m = TopK * (j \div TopK)
  BY <1>1, <1>2 DEF TokenOf
<1> QED
  BY <1>2, <1>3 DEF ChoiceOf

LEMMA PlannedOnePrimary ==
    ASSUME NEW topk, NEW layouts, NEW dst, PlansFor(topk, layouts, dst) PROVE SentOnce(dst)
<1>1. PICK a : a = AllocIn(topk) /\ topk \in Routings
  BY DEF PlansFor
<1>2. \A r \in Ranks, i \in Slots : DstOf(dst, <<r, i>>) = Goes(topk, r, i)
  BY PlannedDst
<1> DEFINE There(r, d, t) == {i \in Slots : TokenOf(i) = t /\ DestRank(DstOf(dst, <<r, i>>)) = d}
<1> HIDE DEF There
<1>4. ASSUME NEW r \in Ranks, NEW d \in Ranks, NEW t, There(r, d, t) # {}
      PROVE  {i \in There(r, d, t) : dst[r][i] >= 0} = {Min(There(r, d, t))}
  <2>0. PICK here : here = There(r, d, t)
    OBVIOUS
  <2>1. PICK raw : raw = RawIn(topk, r) /\ raw \in [Slots -> Nat]
    BY <1>1, RawIsDst
  <2>2. dst[r] = EncodeDuplicates(raw)
    BY <2>1 DEF PlansFor, DstIn
  <2>3. here = Together(raw, t, d) /\ here # {}
    BY <1>2, <1>4, <2>0, <2>1 DEF Goes, DstIn, Together, There
  <2>4. PICK i \in here : /\ EncodeDuplicates(raw)[i] >= 0
                          /\ \A j \in here \ {i} :
                                 EncodeDuplicates(raw)[j] < 0 /\ ChoiceOf(i) < ChoiceOf(j)
    BY <2>1, <2>3, OneUnmarked
  <2>5. here \subseteq Slots /\ Slots \subseteq Nat
    BY <2>0, SlotsFinite DEF There
  <2>6. \A j \in here \ {i} : i < j
    <3> SUFFICES ASSUME NEW j \in here \ {i} PROVE i < j
      OBVIOUS
    <3>1. TokenOf(i) = TokenOf(j) /\ i \in Slots /\ j \in Slots
      BY <2>0 DEF There
    <3> QED
      BY <2>4, <3>1, ChoicesOrdered
  <2>7. Min(here) = i
    <3>1. \A j \in here : i <= j
      BY <2>5, <2>6
    <3>2. \A x \in here : (\A y \in here : x <= y) => x = i
      <4> SUFFICES ASSUME NEW x \in here, \A y \in here : x <= y, x # i PROVE FALSE
        OBVIOUS
      <4>1. i < x /\ x <= i /\ x \in Nat /\ i \in Nat
        BY <2>5, <2>6
      <4> QED
        BY <4>1
    <3> QED
      BY <2>4, <3>1, <3>2 DEF Min
  <2>8. \A j \in here : dst[r][j] >= 0 <=> j = i
    <3> SUFFICES ASSUME NEW j \in here PROVE dst[r][j] >= 0 <=> j = i
      OBVIOUS
    <3>1. CASE j = i
      BY <2>2, <2>4, <3>1
    <3>2. CASE j # i
      <4>1. dst[r][j] < 0
        BY <2>2, <2>4, <3>2
      <4>2. dst[r][j] \in Int
        BY <2>1, <2>2, <2>5 DEF EncodeDuplicates, Marked
      <4> QED
        BY <3>2, <4>1, <4>2
    <3> QED
      BY <3>1, <3>2
  <2> QED
    BY <2>0, <2>2, <2>4, <2>7, <2>8
<1> QED
  BY <1>4 DEF SentOnce, There

LEMMA PlansFit ==
    ASSUME NEW topk, NEW layouts, NEW dst, PlansFor(topk, layouts, dst)
    PROVE  /\ RowsDisjoint(dst) /\ RowsCovered(layouts, dst)
           /\ SentToExpert(topk, layouts, dst)
           /\ PrefetchSlots >= ExpertsPerRank => HasWeights(topk, layouts, dst)
           /\ SentOnce(dst)
BY PlannedDisjoint, PlannedCovered, PlannedSentToExpert, PlannedAtHand, PlannedOnePrimary

-----------------------------------------------------------------------------
(* Planning seen from above. *)

GlobalInv ==
    /\ topkAll \in Routings
    /\ stage \in {"routed", "allocated", "laid out", "planned"}
    /\ stage # "routed" => allocAll = AllocIn(topkAll)
    /\ stage \in {"laid out", "planned"} => layoutAll = Layouts(AllocIn(topkAll))
    /\ stage = "planned" => dstAll = [r \in Ranks |-> DstIn(topkAll, r)]

LEMMA InitGlobal == GlobalInit => GlobalInv
BY TopksAssumption DEF GlobalInit, GlobalInv, Routings

LEMMA NextGlobal == GlobalInv /\ [GlobalNext]_globalVars => GlobalInv'
<1> SUFFICES ASSUME GlobalInv, [GlobalNext]_globalVars PROVE GlobalInv'
  OBVIOUS
<1>1. PICK topk : topk = topkAll /\ topk \in Routings
  BY DEF GlobalInv
<1>2. TrueCounts = CountsIn(topk)
  BY <1>1 DEF TrueCounts, CountsIn
<1>3. CASE AllocateAll
  <2>1. topkAll' = topk /\ allocAll' = AllocIn(topk)
    BY <1>1, <1>2, <1>3 DEF AllocateAll, AllocIn
  <2>2. AllocChecks(Totals(TrueCounts), allocAll')
    BY <1>1, <1>2, <2>1, InputChecks
  <2>3. stage' = "allocated"
    BY <1>3, <2>2 DEF AllocateAll
  <2> QED
    BY <1>1, <2>1, <2>3 DEF GlobalInv
<1>4. CASE LayOutAll
  <2>1. topkAll' = topk /\ allocAll' = AllocIn(topk) /\ layoutAll' = Layouts(AllocIn(topk))
    BY <1>1, <1>4 DEF LayOutAll, GlobalInv
  <2>2. \A d \in Ranks : LayoutFits(layoutAll'[d])
    BY <1>1, <2>1, InputChecks
  <2>3. stage' = "laid out"
    BY <1>4, <2>2 DEF LayOutAll
  <2> QED
    BY <1>1, <2>1, <2>3 DEF GlobalInv
<1>5. CASE PlaceAll
  <2>1. /\ topkAll' = topk /\ allocAll' = AllocIn(topk) /\ layoutAll' = Layouts(AllocIn(topk))
        /\ allocAll = AllocIn(topk) /\ layoutAll = Layouts(AllocIn(topk))
        /\ stage' = "planned"
    BY <1>1, <1>5 DEF PlaceAll, GlobalInv
  <2>2. \A r \in Ranks :
            EncodeDuplicates(RawDsts(r, topkAll[r], TrueCounts, allocAll, layoutAll)) = DstIn(topk, r)
    BY <1>1, <1>2, <2>1 DEF DstIn, RawIn
  <2>3. dstAll' = [r \in Ranks |-> DstIn(topk, r)]
    BY <1>5, <2>2 DEF PlaceAll
  <2> QED
    BY <1>1, <2>1, <2>3 DEF GlobalInv
<1>6. CASE UNCHANGED globalVars
  BY <1>6 DEF GlobalInv, globalVars
<1> QED
  BY <1>3, <1>4, <1>5, <1>6 DEF GlobalNext

LEMMA GlobalPlansFor ==
    ASSUME GlobalInv, Planned PROVE PlansFor(topkAll, layoutAll, dstAll)
<1>1. PICK topk : topk = topkAll /\ topk \in Routings
  BY DEF GlobalInv
<1>2. layoutAll = Layouts(AllocIn(topk)) /\ dstAll = [r \in Ranks |-> DstIn(topk, r)]
  BY <1>1 DEF GlobalInv, Planned
<1>3. \A r \in Ranks : layoutAll[r] = LayoutOf(AllocIn(topk), r) /\ dstAll[r] = DstIn(topk, r)
  BY <1>2 DEF Layouts
<1> QED
  BY <1>1, <1>3 DEF PlansFor

\* No assertion stops planning, whatever the routing: the allocation is balanced
\* (_planning_gpu.py:427-430), and the padded segments fit the buffer that was sized
\* for the worst case (_planning_gpu.py:517-518).
THEOREM PlanningNeverRaises == GlobalSpec => []NeverRaises
<1>1. GlobalInv => NeverRaises
  BY DEF GlobalInv, NeverRaises
<1> QED
  BY <1>1, InitGlobal, NextGlobal, PTL DEF GlobalSpec

\* The entries of all ranks and the rows that the zero fill of each rank clears tile
\* the buffers: ranks write rows of their peers uncoordinated.
THEOREM PlansTile == GlobalSpec => []RowsTiled
<1>1. GlobalInv => RowsTiled
  BY GlobalPlansFor, PlansFit DEF RowsTiled
<1> QED
  BY <1>1, InitGlobal, NextGlobal, PTL DEF GlobalSpec

\* Every entry is sent into the segment of its expert on the rank it goes to, the
\* expert's own or that of the prefetch slot with a copy of its weights.
THEOREM PlansReachExperts == GlobalSpec => []RightExpert
<1>1. GlobalInv => RightExpert
  BY GlobalPlansFor, PlansFit DEF RightExpert
<1> QED
  BY <1>1, InitGlobal, NextGlobal, PTL DEF GlobalSpec

\* With a prefetch slot for each expert of a rank, the default, every rank has the
\* weights of all the entries it is sent, its own or prefetched.
THEOREM PlansHaveWeights == GlobalSpec => []WeightsAtHand
<1>1. GlobalInv => WeightsAtHand
  BY GlobalPlansFor, PlansFit DEF WeightsAtHand
<1> QED
  BY <1>1, InitGlobal, NextGlobal, PTL DEF GlobalSpec

\* Of the entries of a token that go to the same rank, only the first is not marked
\* as a duplicate: the token is sent to a rank once.
THEOREM PlansSendOnce == GlobalSpec => []OnePrimary
<1>1. GlobalInv => OnePrimary
  BY GlobalPlansFor, PlansFit DEF OnePrimary
<1> QED
  BY <1>1, InitGlobal, NextGlobal, PTL DEF GlobalSpec

-----------------------------------------------------------------------------
(* Every rank computes, step by step, the plan of its round. *)

RankMade(r) ==
    /\ pc[r] # "raised"
    /\ pc[r] = "lay_out" => alloc[r] = AllocIn(routing[round[r]])
    /\ pc[r] \in {"publish_sources", "publish_scratch", "encode", "planned"} =>
           /\ {"layout", "dst"} \subseteq DOMAIN plan[r]
           /\ plan[r].layout = LayoutOf(AllocIn(routing[round[r]]), r)
    /\ pc[r] \in {"publish_sources", "publish_scratch", "encode"} =>
           plan[r].dst = RawIn(routing[round[r]], r)
    /\ pc[r] = "encode" /\ NumRanks > 1 => scratchRow[r] = RawIn(routing[round[r]], r)
    /\ pc[r] = "planned" => plan[r].dst = DstIn(routing[round[r]], r)

PlansMade ==
    /\ routing \in [1 .. Rounds -> Routings]
    /\ DOMAIN alloc = Ranks /\ DOMAIN plan = Ranks /\ DOMAIN scratchRow = Ranks
    /\ \A r \in Ranks : RankMade(r)

LEMMA MadeSame ==
    ASSUME NEW q, RankMade(q), UNCHANGED routing,
           pc'[q] = pc[q], round'[q] = round[q],
           alloc'[q] = alloc[q], plan'[q] = plan[q], scratchRow'[q] = scratchRow[q]
    PROVE  RankMade(q)'
<1>1. PICK label, topk : label = pc[q] /\ topk = routing[round[q]]
  OBVIOUS
<1>2. pc'[q] = label /\ routing'[round'[q]] = topk
  BY <1>1
<1> QED
  BY <1>1, <1>2 DEF RankMade

\* The routing of the round that a rank is in, and the counts it plans with.
LEMMA InRound ==
    ASSUME PInv, PlansMade, NEW r \in Ranks, pc[r] # "idle"
    PROVE  /\ routing[round[r]] \in Routings
           /\ pc[r] \in {"balance", "lay_out"} => tpe[r] = CountsIn(routing[round[r]])
<1>1. round[r] \in 1 .. Rounds
  <2>1. round[r] \in 0 .. Rounds /\ round[r] # 0
    BY DEF PInv, InOrder, PlanningTypeOK
  <2> QED
    BY <2>1, RoundsAssumption
<1>2. pc[r] \in {"balance", "lay_out"} => tpe[r] = CountsOf(round[r])
  BY DEF PInv, CountsCurrent
<1> QED
  BY <1>1, <1>2 DEF PlansMade, CountsOf, CountsIn

LEMMA StepMakes ==
    ASSUME PInv, PlansMade, NEW r \in Ranks, PlanStep(r)
    PROVE  RankMade(r)'
<1>1. /\ pc \in [Ranks -> PlanLabels] /\ RankMade(r)
      /\ DOMAIN alloc = Ranks /\ DOMAIN plan = Ranks /\ DOMAIN scratchRow = Ranks
  BY DEF PInv, InOrder, PlanningTypeOK, PlansMade
<1>2. UNCHANGED <<routing, round>>
  BY OthersKept DEF PInv
<1>3. PICK topk : topk = routing[round[r]]
  OBVIOUS
<1>4. routing'[round'[r]] = topk
  BY <1>2, <1>3
<1>5. CASE CountsGiven(r)
  BY <1>1, <1>5 DEF CountsGiven, Goto, RankMade
<1>6. CASE PublishCounts(r)
  BY <1>1, <1>6 DEF PublishCounts, Goto, RankMade
<1>7. CASE GatherCounts(r)
  <2>1. pc'[r] \in {"balance", "gather_counts"}
    BY <1>1, <1>7 DEF GatherCounts, Goto
  <2> QED
    BY <2>1 DEF RankMade
<1>8. CASE Balance(r)
  <2>1. topk \in Routings /\ tpe[r] = CountsIn(topk)
    BY <1>3, <1>8, InRound DEF Balance
  <2>2. alloc'[r] = AllocIn(topk)
    BY <1>1, <1>8, <2>1 DEF Balance, AllocIn
  <2>3. AllocChecks(Totals(tpe[r]), alloc'[r])
    BY <2>1, <2>2, InputChecks
  <2>4. pc'[r] = "lay_out"
    BY <1>1, <1>8, <2>3 DEF Balance, Goto
  <2> QED
    BY <1>4, <2>2, <2>4 DEF RankMade
<1>9. CASE LayOut(r)
  <2>1. topk \in Routings /\ tpe[r] = CountsIn(topk) /\ alloc[r] = AllocIn(topk) /\ TopkOf(r) = topk[r]
    BY <1>1, <1>3, <1>9, InRound DEF LayOut, RankMade, TopkOf
  <2>2. PICK layouts : layouts = Layouts(AllocIn(topk))
    OBVIOUS
  <2>3. LayoutFits(layouts[r])
    BY <2>1, <2>2, InputChecks
  <2>4. pc' = [pc EXCEPT ![r] = "publish_sources"]
    BY <1>9, <2>1, <2>2, <2>3 DEF LayOut, Goto
  <2>5. plan' = [plan EXCEPT ![r] =
                    [layout |-> layouts[r],
                     copied |-> [d \in Ranks |-> layouts[d].copied],
                     stats  |-> RemoteStats(alloc[r], layouts, r),
                     dst    |-> RawDsts(r, TopkOf(r), tpe[r], alloc[r], layouts)]]
    BY <1>9, <2>1, <2>2, <2>3 DEF LayOut
  <2>6. /\ plan'[r].layout = layouts[r]
        /\ plan'[r].dst = RawDsts(r, TopkOf(r), tpe[r], alloc[r], layouts)
        /\ {"layout", "dst"} \subseteq DOMAIN plan'[r]
    BY <1>1, <2>5
  <2>7. plan'[r].layout = LayoutOf(AllocIn(topk), r) /\ plan'[r].dst = RawIn(topk, r)
    BY <2>1, <2>2, <2>6 DEF Layouts, RawIn
  <2>8. pc'[r] = "publish_sources"
    BY <1>1, <2>4
  <2> QED
    BY <1>4, <2>6, <2>7, <2>8 DEF RankMade
<1>10. CASE PublishSource(r)
  <2>1. pc[r] = "publish_sources" /\ plan' = plan
        /\ pc'[r] \in {"publish_sources", "publish_scratch"}
    BY <1>1, <1>10 DEF PublishSource, Goto, Arrive
  <2> QED
    BY <1>1, <1>3, <1>4, <2>1 DEF RankMade
<1>11. CASE PublishScratch(r)
  <2>1. pc[r] = "publish_scratch" /\ plan' = plan /\ pc'[r] = "encode"
        /\ (NumRanks > 1 => scratchRow'[r] = plan[r].dst)
    BY <1>1, <1>11 DEF PublishScratch, Goto
  <2>2. /\ {"layout", "dst"} \subseteq DOMAIN plan[r]
        /\ plan[r].layout = LayoutOf(AllocIn(topk), r) /\ plan[r].dst = RawIn(topk, r)
    BY <1>1, <1>3, <2>1 DEF RankMade
  <2> QED
    BY <1>4, <2>1, <2>2 DEF RankMade
<1>12. CASE Encode(r)
  <2>1. pc[r] = "encode" /\ pc'[r] = "planned"
    BY <1>1, <1>12 DEF Encode, Goto
  <2>2. /\ {"layout", "dst"} \subseteq DOMAIN plan[r]
        /\ plan[r].layout = LayoutOf(AllocIn(topk), r) /\ plan[r].dst = RawIn(topk, r)
        /\ NumRanks > 1 => scratchRow[r] = RawIn(topk, r)
    BY <1>1, <1>3, <2>1 DEF RankMade
  <2>3. plan' = [plan EXCEPT ![r].dst =
                     EncodeDuplicates(IF NumRanks > 1 THEN scratchRow[r] ELSE plan[r].dst)]
    BY <1>12 DEF Encode
  <2>4. plan' = [plan EXCEPT ![r].dst = DstIn(topk, r)]
    BY <2>2, <2>3 DEF DstIn
  <2>5. /\ {"layout", "dst"} \subseteq DOMAIN plan'[r]
        /\ plan'[r].layout = LayoutOf(AllocIn(topk), r) /\ plan'[r].dst = DstIn(topk, r)
    BY <1>1, <2>2, <2>4
  <2> QED
    BY <1>4, <2>1, <2>5 DEF RankMade
<1> QED
  BY <1>5, <1>6, <1>7, <1>8, <1>9, <1>10, <1>11, <1>12 DEF PlanStep

\* Nor does it touch the plan of another rank.
LEMMA OtherPlansKept ==
    ASSUME PInv, PlansMade, NEW r \in Ranks, PlanStep(r)
    PROVE  /\ DOMAIN alloc' = Ranks /\ DOMAIN plan' = Ranks /\ DOMAIN scratchRow' = Ranks
           /\ \A q \in Ranks \ {r} : /\ alloc'[q] = alloc[q] /\ plan'[q] = plan[q]
                                     /\ scratchRow'[q] = scratchRow[q]
<1>1. DOMAIN alloc = Ranks /\ DOMAIN plan = Ranks /\ DOMAIN scratchRow = Ranks
  BY DEF PlansMade
<1>2. alloc' = alloc \/ \E v : alloc' = [alloc EXCEPT ![r] = v]
  BY DEF PlanStep, CountsGiven, PublishCounts, GatherCounts, Balance, LayOut, PublishSource,
         PublishScratch, Encode
<1>3. scratchRow' = scratchRow \/ \E v : scratchRow' = [scratchRow EXCEPT ![r] = v]
  BY DEF PlanStep, CountsGiven, PublishCounts, GatherCounts, Balance, LayOut, PublishSource,
         PublishScratch, Encode, shared
<1>4. plan' = plan \/ \E v : plan' = [plan EXCEPT ![r] = v]
  <2>1. CASE LayOut(r)
    BY <2>1 DEF LayOut
  <2>2. CASE Encode(r)
    <3>1. plan' = [plan EXCEPT ![r] = [plan[r] EXCEPT !.dst =
                     EncodeDuplicates(IF NumRanks > 1 THEN scratchRow[r] ELSE plan[r].dst)]]
      BY <2>2 DEF Encode
    <3> QED
      BY <3>1
  <2>3. CASE ~LayOut(r) /\ ~Encode(r)
    BY <2>3 DEF PlanStep, CountsGiven, PublishCounts, GatherCounts, Balance, PublishSource,
                PublishScratch
  <2> QED
    BY <2>1, <2>2, <2>3
<1> QED
  BY <1>1, <1>2, <1>3, <1>4

LEMMA NextMakes == PInv /\ PlansMade /\ Turn => PlansMade'
<1> SUFFICES ASSUME PInv, PlansMade, Turn PROVE PlansMade'
  OBVIOUS
<1>1. CASE UNCHANGED turnVars
  <2>1. UNCHANGED <<routing, pc, round, alloc, plan, scratchRow>>
    BY <1>1 DEF turnVars, inputs, shared
  <2>2. \A q \in Ranks : RankMade(q)'
    BY <2>1, MadeSame DEF PlansMade
  <2> QED
    BY <2>1, <2>2 DEF PlansMade
<1>2. ASSUME NEW r \in Ranks, NextRound(r) PROVE PlansMade'
  <2>1. /\ UNCHANGED <<routing, alloc, plan, scratchRow>>
        /\ pc' = [pc EXCEPT ![r] = "publish_counts"]
        /\ round' = [round EXCEPT ![r] = @ + 1]
    BY <1>2 DEF NextRound, StartPlanning, Goto, inputs, shared
  <2>2. pc \in [Ranks -> PlanLabels] /\ DOMAIN round = Ranks
    BY DEF PInv, InOrder, PlanningTypeOK
  <2>3. ASSUME NEW q \in Ranks PROVE RankMade(q)'
    <3>1. CASE q = r
      BY <2>1, <2>2, <3>1 DEF RankMade
    <3>2. CASE q # r
      <4>1. RankMade(q) /\ pc'[q] = pc[q] /\ round'[q] = round[q]
        BY <2>1, <2>2, <3>2 DEF PlansMade
      <4> QED
        BY <2>1, <4>1, MadeSame
    <3> QED
      BY <3>1, <3>2
  <2> QED
    BY <2>1, <2>3 DEF PlansMade
<1>3. ASSUME NEW r \in Ranks, PlanStep(r) PROVE PlansMade'
  <2>1. /\ UNCHANGED <<routing, round>>
        /\ \A q \in Ranks \ {r} : pc'[q] = pc[q]
    BY <1>3, OthersKept DEF PInv
  <2>2. ASSUME NEW q \in Ranks PROVE RankMade(q)'
    <3>1. CASE q = r
      BY <1>3, <3>1, StepMakes
    <3>2. CASE q # r
      <4>1. /\ RankMade(q) /\ pc'[q] = pc[q] /\ round'[q] = round[q]
            /\ alloc'[q] = alloc[q] /\ plan'[q] = plan[q] /\ scratchRow'[q] = scratchRow[q]
        BY <1>3, <2>1, <3>2, OtherPlansKept DEF PlansMade
      <4> QED
        BY <2>1, <4>1, MadeSame
    <3> QED
      BY <3>1, <3>2
  <2>3. DOMAIN alloc' = Ranks /\ DOMAIN plan' = Ranks /\ DOMAIN scratchRow' = Ranks
    BY <1>3, OtherPlansKept
  <2> QED
    BY <2>1, <2>2, <2>3 DEF PlansMade
<1> QED
  BY <1>1, <1>2, <1>3 DEF Turn, PlanTurn

LEMMA InitMade == PlanInit => PlansMade
<1> SUFFICES ASSUME PlanInit PROVE PlansMade
  OBVIOUS
<1>1. routing \in [1 .. Rounds -> Routings]
  BY InputsAssumption DEF PlanInit, Routings
<1>2. \A r \in Ranks : RankMade(r)
  BY DEF PlanInit, RankMade
<1>3. DOMAIN alloc = Ranks /\ DOMAIN plan = Ranks /\ DOMAIN scratchRow = Ranks
  BY DEF PlanInit
<1> QED
  BY <1>1, <1>2, <1>3 DEF PlansMade

\* All ranks have their plans of one round.
SameRound == \A r \in Ranks : pc[r] = "planned" /\ round[r] = round[0]

\* The layouts and destinations that the ranks have planned.
LayoutsMade == [r \in Ranks |-> plan[r].layout]
DstsMade == [r \in Ranks |-> plan[r].dst]

LEMMA TogetherPlanned ==
    ASSUME PInv, PlansMade, SameRound
    PROVE  PlansFor(routing[round[0]], LayoutsMade, DstsMade)
<1>1. 0 \in Ranks
  BY NumRanksAssumption DEF Ranks
<1>2. PICK topk : topk = routing[round[0]]
  OBVIOUS
<1>3. topk \in Routings
  BY <1>1, <1>2, InRound DEF SameRound
<1>4. ASSUME NEW r \in Ranks
      PROVE  LayoutsMade[r] = LayoutOf(AllocIn(topk), r) /\ DstsMade[r] = DstIn(topk, r)
  <2>1. pc[r] = "planned" /\ routing[round[r]] = topk /\ RankMade(r)
    BY <1>2 DEF SameRound, PlansMade
  <2>2. plan[r].layout = LayoutOf(AllocIn(topk), r) /\ plan[r].dst = DstIn(topk, r)
    BY <2>1 DEF RankMade
  <2> QED
    BY <2>2 DEF LayoutsMade, DstsMade
<1> QED
  BY <1>2, <1>3, <1>4 DEF PlansFor

\* What module GlobalPlan promises of plans made with the counts of all ranks holds
\* of the plans that ranks come to by exchanging counts, in any order of their steps
\* and rounds: no rank is stopped by an assertion, and when all of them have planned
\* a round, their plans fit together (_planning_gpu.py:523-591).
THEOREM RanksPlanTogether ==
    Spec => []( /\ \A r \in Ranks : pc[r] # "raised"
                /\ SameRound =>
                      /\ RowsDisjoint(DstsMade) /\ RowsCovered(LayoutsMade, DstsMade)
                      /\ SentToExpert(routing[round[0]], LayoutsMade, DstsMade)
                      /\ PrefetchSlots >= ExpertsPerRank =>
                            HasWeights(routing[round[0]], LayoutsMade, DstsMade)
                      /\ SentOnce(DstsMade))
<1> DEFINE Fit == /\ \A r \in Ranks : pc[r] # "raised"
                  /\ SameRound =>
                        /\ RowsDisjoint(DstsMade) /\ RowsCovered(LayoutsMade, DstsMade)
                        /\ SentToExpert(routing[round[0]], LayoutsMade, DstsMade)
                        /\ PrefetchSlots >= ExpertsPerRank =>
                              HasWeights(routing[round[0]], LayoutsMade, DstsMade)
                        /\ SentOnce(DstsMade)
<1>1. PInv /\ PlansMade => Fit
  <2>1. PlansMade => \A r \in Ranks : pc[r] # "raised"
    BY DEF PlansMade, RankMade
  <2> QED
    BY <2>1, TogetherPlanned, PlansFit
<1> HIDE DEF Fit
<1>2. Spec => []Fit
  BY <1>1, InitInStep, NextInStep, NextTurn, InitPInv, NextPInv, InitMade, NextMakes, PTL DEF Spec
<1> QED
  BY <1>2 DEF Fit

-----------------------------------------------------------------------------
(* The inverse of the destinations. *)

\* src_info of rank d when the entries in done have been stored, of the routing topk.
Collected(topk, d, done, info) ==
    \A l \in Rows :
        /\ \A r \in Ranks, i \in Slots :
               <<r, i>> \in done /\ Goes(topk, r, i) = d * NvS + l => info[l] = Source(r, i)
        /\ (\A r \in Ranks, i \in Slots : <<r, i>> \in done => Goes(topk, r, i) # d * NvS + l)
               => info[l] = None

LEMMA CollectedNone ==
    ASSUME NEW topk, NEW d PROVE Collected(topk, d, {}, NoRows)
BY DEF Collected, NoRows

\* Where an entry goes is a row of a rank.
LEMMA GoesToRow ==
    ASSUME NEW topk \in Routings, NEW r \in Ranks, NEW i \in Slots,
           NEW v, v = Goes(topk, r, i)
    PROVE  /\ DestRank(v) \in Ranks /\ DestRow(v) \in Rows
           /\ v = DestRank(v) * NvS + DestRow(v)
<1>1. PICK a, counts : a = AllocIn(topk) /\ counts = CountsIn(topk) /\ Fits(topk, counts, a)
  BY InputFits
<1>2. PICK d, g, s : Lands(topk, counts, a, r, i, d, g, s)
  BY <1>1, EachLands
<1>3. PICK l : l = GroupStart(a, d)[g] + s
  OBVIOUS
<1>4. l \in Nat /\ l < NvS
  BY <1>1, <1>2, <1>3, RowOfLanding
<1>5. DestRank(v) = d /\ DestRow(v) = l /\ v = d * NvS + l
  BY <1>1, <1>2, <1>3, EntryGoes
<1>6. d \in Ranks /\ l \in Rows
  <2>1. NvS \in Nat
    BY SizesNat
  <2> QED
    BY <1>2, <1>4, <2>1 DEF Lands, Rows
<1> QED
  BY <1>5, <1>6

LEMMA CollectedStored ==
    ASSUME NEW topk \in Routings, NEW d \in Ranks, NEW done, NEW info,
           Collected(topk, d, done, info), DOMAIN info = Rows,
           NEW r \in Ranks, NEW i \in Slots, NEW v, v = Goes(topk, r, i)
    PROVE  /\ DestRank(v) = d =>
                  Collected(topk, d, done \cup {<<r, i>>}, [info EXCEPT ![DestRow(v)] = Source(r, i)])
           /\ DestRank(v) # d => Collected(topk, d, done \cup {<<r, i>>}, info)
<1>1. /\ DestRank(v) \in Ranks /\ DestRow(v) \in Rows
      /\ v = DestRank(v) * NvS + DestRow(v)
  BY GoesToRow
<1>2. \A l \in Rows : DestRank(d * NvS + l) = d /\ DestRow(d * NvS + l) = l
  <2> SUFFICES ASSUME NEW l \in Rows PROVE DestRank(d * NvS + l) = d /\ DestRow(d * NvS + l) = l
    OBVIOUS
  <2>1. l \in Nat /\ l < NvS
    BY SizesNat DEF Rows
  <2> QED
    BY <2>1, RowOfDst
<1>3. \A q \in Ranks, j \in Slots : Goes(topk, q, j) = v => q = r /\ j = i
  BY EntriesApart
<1>4. ASSUME DestRank(v) = d
      PROVE  Collected(topk, d, done \cup {<<r, i>>}, [info EXCEPT ![DestRow(v)] = Source(r, i)])
  <2> DEFINE new == [info EXCEPT ![DestRow(v)] = Source(r, i)]
             all == done \cup {<<r, i>>}
  <2> SUFFICES ASSUME NEW l \in Rows
               PROVE  /\ \A q \in Ranks, j \in Slots :
                             <<q, j>> \in all /\ Goes(topk, q, j) = d * NvS + l => new[l] = Source(q, j)
                      /\ (\A q \in Ranks, j \in Slots : <<q, j>> \in all => Goes(topk, q, j) # d * NvS + l)
                             => new[l] = None
    BY DEF Collected
  <2>1. CASE l = DestRow(v)
    <3>1. d * NvS + l = v
      BY <1>1, <1>4, <2>1
    <3>2. new[l] = Source(r, i)
      BY <2>1
    <3>3. \A q \in Ranks, j \in Slots : Goes(topk, q, j) = d * NvS + l => q = r /\ j = i
      BY <1>3, <3>1
    <3>4. <<r, i>> \in all /\ Goes(topk, r, i) = d * NvS + l
      BY <3>1
    <3> HIDE DEF new, all
    <3> QED
      BY <3>2, <3>3, <3>4
  <2>2. CASE l # DestRow(v)
    <3>1. d * NvS + l # v
      BY <1>2, <2>2
    <3>2. new[l] = info[l]
      BY <2>2
    <3>3. \A q \in Ranks, j \in Slots :
              Goes(topk, q, j) = d * NvS + l => (<<q, j>> \in all <=> <<q, j>> \in done)
      BY <3>1
    <3>4. /\ \A q \in Ranks, j \in Slots :
                 <<q, j>> \in done /\ Goes(topk, q, j) = d * NvS + l => info[l] = Source(q, j)
          /\ (\A q \in Ranks, j \in Slots : <<q, j>> \in done => Goes(topk, q, j) # d * NvS + l)
                 => info[l] = None
      BY DEF Collected
    <3> HIDE DEF new, all
    <3> QED
      BY <3>2, <3>3, <3>4
  <2> QED
    BY <2>1, <2>2
<1>5. ASSUME DestRank(v) # d PROVE Collected(topk, d, done \cup {<<r, i>>}, info)
  <2> DEFINE all == done \cup {<<r, i>>}
  <2> SUFFICES ASSUME NEW l \in Rows
               PROVE  /\ \A q \in Ranks, j \in Slots :
                             <<q, j>> \in all /\ Goes(topk, q, j) = d * NvS + l => info[l] = Source(q, j)
                      /\ (\A q \in Ranks, j \in Slots : <<q, j>> \in all => Goes(topk, q, j) # d * NvS + l)
                             => info[l] = None
    BY DEF Collected
  <2>1. d * NvS + l # v
    BY <1>2, <1>5
  <2>3. \A q \in Ranks, j \in Slots :
            Goes(topk, q, j) = d * NvS + l => (<<q, j>> \in all <=> <<q, j>> \in done)
    BY <2>1
  <2>4. /\ \A q \in Ranks, j \in Slots :
               <<q, j>> \in done /\ Goes(topk, q, j) = d * NvS + l => info[l] = Source(q, j)
        /\ (\A q \in Ranks, j \in Slots : <<q, j>> \in done => Goes(topk, q, j) # d * NvS + l)
               => info[l] = None
    BY DEF Collected
  <2> HIDE DEF all
  <2> QED
    BY <2>3, <2>4
<1> QED
  BY <1>4, <1>5

\* The labels at which a rank has cleared its src_info, and those at which it has
\* stored all its entries.
Cleared == {"publish_sources", "publish_scratch", "encode", "planned"}
AllStored == {"publish_scratch", "encode", "planned"}

\* The entries of rank r that have been stored in round n, and those of all ranks.
DoneBy(n, r) ==
    {i \in Slots :
        \/ round[r] > n
        \/ /\ round[r] = n
           /\ \/ pc[r] \in AllStored
              \/ pc[r] = "publish_sources" /\ i \notin todo[r]}
Done(n) == {x \in Ranks \X Slots : x[2] \in DoneBy(n, x[1])}

\* A rank that has begun to store is past the barrier; and a rank that has cleared
\* its src_info has in it what has been stored in its round.
SourcesInv ==
    /\ DOMAIN todo = Ranks
    /\ \A r \in Ranks : DOMAIN srcInfo[r] = Rows
    /\ \A r \in Ranks : pc[r] = "publish_sources" =>
           todo[r] \subseteq Slots /\ (todo[r] # Slots => AllAt(r))
    /\ \A d \in Ranks : pc[d] \in Cleared =>
           Collected(routing[round[d]], d, Done(round[d]), srcInfo[d])

\* No rank stores into a src_info before its owner has cleared it.
LEMMA NoneStoredYet ==
    ASSUME InOrder, SourcesInv, NEW r \in Ranks, pc[r] = "lay_out"
    PROVE  Done(round[r]) = {}
<1> SUFFICES ASSUME NEW q \in Ranks, NEW i \in Slots, i \in DoneBy(round[r], q) PROVE FALSE
  BY DEF Done
<1>1. PICK n \in Nat, m \in Nat : n = round[r] /\ m = round[q] /\ n > 0
  BY PlaceTypes
<1>2. Place(r) = 8 * n + 3 /\ LastPassed(q) <= Place(r) /\ LastPassed(q) \in Nat
  BY <1>1, PlaceTypes DEF Place, InOrder
<1>3. CASE m > n
  <2>1. LastPassed(q) >= 8 * m - 3
    BY <1>1, <1>3, PlaceTypes
  <2> QED
    BY <1>1, <1>2, <1>3, <2>1
<1>4. CASE m = n /\ pc[q] \in AllStored
  <2>1. LastPassed(q) >= 8 * n + 4
    BY <1>1, <1>4 DEF LastPassed, AllStored
  <2> QED
    BY <1>1, <1>2, <2>1
<1>5. CASE m = n /\ pc[q] = "publish_sources" /\ i \notin todo[q]
  <2>1. Place(r) >= Place(q)
    BY <1>5 DEF SourcesInv, AllAt
  <2>2. Place(q) = 8 * n + 4
    BY <1>1, <1>5 DEF Place
  <2> QED
    BY <1>1, <1>2, <2>1, <2>2
<1> QED
  BY <1>1, <1>3, <1>4, <1>5 DEF DoneBy

\* A rank that stores is in the round of every rank that has cleared its src_info.
LEMMA StoresInRound ==
    ASSUME InOrder, NEW r \in Ranks, NEW d \in Ranks,
           pc[r] = "publish_sources", AllAt(r), pc[d] \in Cleared
    PROVE  round[d] = round[r]
<1>1. PICK n \in Nat, m \in Nat : n = round[r] /\ m = round[d] /\ n > 0
  BY PlaceTypes
<1>2. Place(r) = 8 * n + 4 /\ Place(d) >= Place(r) /\ LastPassed(d) <= Place(r)
  BY <1>1 DEF Place, InOrder, AllAt
<1>3. /\ Place(d) \in Nat /\ LastPassed(d) \in Nat
      /\ Place(d) <= 8 * m + 7 /\ (m >= 2 => LastPassed(d) >= 8 * m - 3)
  BY <1>1, PlaceTypes
<1>4. m = n
  BY <1>1, <1>2, <1>3
<1> QED
  BY <1>1, <1>4

LEMMA DoneSame ==
    ASSUME NEW n, \A q \in Ranks : DoneBy(n, q)' = DoneBy(n, q)
    PROVE  Done(n)' = Done(n)
BY DEF Done

LEMMA DoneByKept ==
    ASSUME NEW n, NEW q, round'[q] = round[q], pc'[q] = pc[q], todo'[q] = todo[q]
    PROVE  DoneBy(n, q)' = DoneBy(n, q)
<1>1. PICK m, label, left : m = round[q] /\ label = pc[q] /\ left = todo[q]
  OBVIOUS
<1> QED
  BY <1>1 DEF DoneBy

\* Launching the next round stores nothing.
LEMMA NextRoundKeepsDone ==
    ASSUME InOrder, SourcesInv, NEW r \in Ranks, NextRound(r), NEW n \in Nat \ {0}
    PROVE  Done(n)' = Done(n)
<1>1. /\ pc[r] \in {"idle", "planned"} /\ todo' = todo
      /\ round' = [round EXCEPT ![r] = round[r] + 1]
      /\ pc' = [pc EXCEPT ![r] = "publish_counts"]
  BY DEF NextRound, StartPlanning, Goto
<1>2. pc \in [Ranks -> PlanLabels] /\ DOMAIN round = Ranks /\ round[r] \in Nat
      /\ (round[r] = 0 <=> pc[r] = "idle")
  BY PlaceTypes DEF InOrder, PlanningTypeOK
<1>3. ASSUME NEW q \in Ranks PROVE DoneBy(n, q)' = DoneBy(n, q)
  <2>1. CASE q = r
    <3>1. round'[r] = round[r] + 1 /\ pc'[r] = "publish_counts"
      BY <1>1, <1>2
    <3>2. round'[r] > n <=> round[r] > n \/ (round[r] = n /\ pc[r] \in AllStored)
      BY <1>1, <1>2, <3>1 DEF AllStored
    <3>3. ASSUME NEW i \in Slots PROVE i \in DoneBy(n, r)' <=> i \in DoneBy(n, r)
      <4>1. i \in DoneBy(n, r) <=> round[r] > n \/ (round[r] = n /\ pc[r] \in AllStored)
        BY <1>1 DEF DoneBy
      <4>2. i \in DoneBy(n, r)' <=> round'[r] > n
        BY <3>1 DEF DoneBy, AllStored
      <4> QED
        BY <3>2, <4>1, <4>2
    <3>4. DoneBy(n, r) \subseteq Slots /\ DoneBy(n, r)' \subseteq Slots
      BY DEF DoneBy
    <3> QED
      BY <2>1, <3>3, <3>4
  <2>2. CASE q # r
    BY <1>1, <1>2, <2>2, DoneByKept
  <2> QED
    BY <2>1, <2>2
<1> QED
  BY <1>3, DoneSame

\* Nor does any other step but that which stores.
LEMMA StepKeepsDone ==
    ASSUME PInv, SourcesInv, PlansMade, NEW r \in Ranks, PlanStep(r), ~PublishSource(r), NEW n
    PROVE  Done(n)' = Done(n)
<1>1. UNCHANGED round /\ \A q \in Ranks \ {r} : pc'[q] = pc[q]
  BY OthersKept DEF PInv
<1>2. DOMAIN todo = Ranks /\ pc \in [Ranks -> PlanLabels]
  BY DEF PInv, InOrder, PlanningTypeOK, SourcesInv
<1>3. RankMade(r)'
  BY StepMakes
<1>4. \A q \in Ranks \ {r} : todo'[q] = todo[q]
  <2>1. todo' = todo \/ todo' = [todo EXCEPT ![r] = Slots]
    BY DEF PlanStep, CountsGiven, PublishCounts, GatherCounts, Balance, LayOut, PublishScratch, Encode
  <2> QED
    BY <1>2, <2>1
<1>5. DoneBy(n, r)' = DoneBy(n, r)
  <2>1. CASE LayOut(r)
    <3>1. pc[r] = "lay_out" /\ pc'[r] = "publish_sources" /\ todo'[r] = Slots
      BY <1>2, <1>3, <2>1 DEF LayOut, RankMade, Goto
    <3> QED
      BY <1>1, <3>1 DEF DoneBy, AllStored
  <2>2. CASE PublishScratch(r) \/ Encode(r)
    <3>1. pc[r] \in AllStored /\ pc'[r] \in AllStored
      BY <1>2, <2>2 DEF PublishScratch, Encode, Goto, AllStored
    <3>2. ASSUME NEW i \in Slots PROVE i \in DoneBy(n, r)' <=> i \in DoneBy(n, r)
      <4>1. i \in DoneBy(n, r) <=> round[r] > n \/ round[r] = n
        BY <3>1 DEF DoneBy
      <4>2. i \in DoneBy(n, r)' <=> round'[r] > n \/ round'[r] = n
        BY <3>1 DEF DoneBy, AllStored
      <4> QED
        BY <1>1, <4>1, <4>2
    <3>3. DoneBy(n, r) \subseteq Slots /\ DoneBy(n, r)' \subseteq Slots
      BY DEF DoneBy
    <3> QED
      BY <3>2, <3>3
  <2>3. CASE CountsGiven(r) \/ PublishCounts(r) \/ GatherCounts(r) \/ Balance(r)
    <3>1. /\ pc[r] \notin AllStored /\ pc'[r] \notin AllStored
          /\ pc[r] # "publish_sources" /\ pc'[r] # "publish_sources"
      <4>1. pc[r] \in {"publish_counts", "gather_counts", "balance"}
        BY <2>3 DEF CountsGiven, PublishCounts, GatherCounts, Balance
      <4>2. pc'[r] \in {"gather_counts", "balance", "lay_out", "raised"}
        BY <1>2, <2>3 DEF CountsGiven, PublishCounts, GatherCounts, Balance, Goto
      <4> QED
        BY <4>1, <4>2 DEF AllStored
    <3> QED
      BY <1>1, <3>1 DEF DoneBy
  <2> QED
    BY <2>1, <2>2, <2>3 DEF PlanStep
<1>6. ASSUME NEW q \in Ranks PROVE DoneBy(n, q)' = DoneBy(n, q)
  BY <1>1, <1>4, <1>5, <1>6, DoneByKept
<1> QED
  BY <1>6, DoneSame

\* That one adds its entry.
LEMMA StoreAddsDone ==
    ASSUME PInv, SourcesInv, NEW r \in Ranks, NEW i \in todo[r],
           pc[r] = "publish_sources", UNCHANGED round,
           todo' = [todo EXCEPT ![r] = todo[r] \ {i}],
           pc' = IF todo'[r] = {} THEN [pc EXCEPT ![r] = "publish_scratch"] ELSE pc
    PROVE  Done(round[r])' = Done(round[r]) \cup {<<r, i>>}
<1>1. DOMAIN todo = Ranks /\ pc \in [Ranks -> PlanLabels] /\ todo[r] \subseteq Slots
  BY DEF PInv, InOrder, PlanningTypeOK, SourcesInv
<1>2. todo'[r] = todo[r] \ {i} /\ \A q \in Ranks \ {r} : todo'[q] = todo[q] /\ pc'[q] = pc[q]
  BY <1>1
<1>3. PICK n : n = round[r] /\ round'[r] = n
  OBVIOUS
<1>4. DoneBy(n, r)' = DoneBy(n, r) \cup {i}
  <2>1. DoneBy(n, r) = Slots \ todo[r]
    <3>1. ~(round[r] > n)
      BY <1>3, PlaceTypes DEF PInv
    <3> QED
      BY <1>3, <3>1 DEF DoneBy, AllStored
  <2>2. DoneBy(n, r)' = Slots \ todo'[r]
    <3>1. ~(round'[r] > n)
      BY <1>3, PlaceTypes DEF PInv
    <3>2. CASE todo'[r] = {}
      <4>1. pc'[r] = "publish_scratch"
        BY <1>1, <3>2
      <4> QED
        BY <1>3, <3>1, <3>2, <4>1 DEF DoneBy, AllStored
    <3>3. CASE todo'[r] # {}
      BY <1>3, <3>1, <3>3 DEF DoneBy, AllStored
    <3> QED
      BY <3>2, <3>3
  <2> QED
    BY <1>1, <1>2, <2>1, <2>2
<1>5. \A q \in Ranks \ {r} : DoneBy(n, q)' = DoneBy(n, q)
  BY <1>2, DoneByKept
<1>6. Done(n)' = Done(n) \cup {<<r, i>>}
  <2>1. i \in Slots
    BY <1>1
  <2>2. \A q \in Ranks, j \in Slots :
            j \in DoneBy(n, q)' <=> j \in DoneBy(n, q) \/ (q = r /\ j = i)
    BY <1>4, <1>5
  <2> QED
    BY <2>1, <2>2 DEF Done
<1> QED
  BY <1>3, <1>6

\* What a step of rank r leaves of the conjuncts about a rank's storing.
LEMMA NextTodo ==
    ASSUME PInv, SourcesInv, PlansMade, Turn
    PROVE  /\ DOMAIN todo' = Ranks
           /\ \A q \in Ranks : DOMAIN srcInfo'[q] = Rows
           /\ \A q \in Ranks : pc'[q] = "publish_sources" =>
                  todo'[q] \subseteq Slots /\ (todo'[q] # Slots => AllAt(q)')
<1>1. /\ pc \in [Ranks -> PlanLabels]
      /\ DOMAIN todo = Ranks /\ DOMAIN srcInfo = Ranks /\ DOMAIN round = Ranks
  BY DEF PInv, InOrder, PlanningTypeOK, SourcesInv
<1>2. DOMAIN todo' = Ranks
  BY <1>1 DEF Turn, PlanTurn, PlanStep, CountsGiven, PublishCounts, GatherCounts, Balance, LayOut,
              PublishSource, PublishScratch, Encode, NextRound, StartPlanning, turnVars
<1>3. \A q \in Ranks : DOMAIN srcInfo'[q] = Rows
  <2>1. \A q \in Ranks : DOMAIN srcInfo[q] = Rows
    BY DEF SourcesInv
  <2>2. \/ srcInfo' = srcInfo
        \/ \E r \in Ranks : srcInfo' = [srcInfo EXCEPT ![r] = NoRows]
        \/ \E d, l, v : srcInfo' = [srcInfo EXCEPT ![d][l] = v]
    <3>1. CASE UNCHANGED turnVars
      BY <3>1 DEF turnVars, shared
    <3>2. ASSUME NEW r \in Ranks, LayOut(r)
          PROVE  srcInfo' = srcInfo \/ srcInfo' = [srcInfo EXCEPT ![r] = NoRows]
      BY <3>2 DEF LayOut
    <3>3. ASSUME NEW r \in Ranks, PublishSource(r)
          PROVE  \E d, l, v : srcInfo' = [srcInfo EXCEPT ![d][l] = v]
      BY <3>3 DEF PublishSource
    <3>4. ASSUME NEW r \in Ranks, NextRound(r) \/ (PlanStep(r) /\ ~LayOut(r) /\ ~PublishSource(r))
          PROVE  srcInfo' = srcInfo
      BY <3>4 DEF PlanStep, CountsGiven, PublishCounts, GatherCounts, Balance,
                  PublishScratch, Encode, NextRound, StartPlanning, shared
    <3> QED
      BY <3>1, <3>2, <3>3, <3>4 DEF Turn, PlanTurn
  <2>3. CASE srcInfo' = srcInfo
    BY <2>1, <2>3
  <2>4. ASSUME NEW r \in Ranks, srcInfo' = [srcInfo EXCEPT ![r] = NoRows]
        PROVE  \A q \in Ranks : DOMAIN srcInfo'[q] = Rows
    BY <1>1, <2>1, <2>4 DEF NoRows
  <2>5. ASSUME NEW d, NEW l, NEW v, srcInfo' = [srcInfo EXCEPT ![d][l] = v]
        PROVE  \A q \in Ranks : DOMAIN srcInfo'[q] = Rows
    <3>1. \A q \in Ranks : srcInfo'[q] = srcInfo[q] \/ srcInfo'[q] = [srcInfo[q] EXCEPT ![l] = v]
      BY <1>1, <2>5
    <3> QED
      BY <2>1, <3>1
  <2> QED
    BY <2>2, <2>3, <2>4, <2>5
<1>4. ASSUME NEW q \in Ranks, pc'[q] = "publish_sources"
      PROVE  todo'[q] \subseteq Slots /\ (todo'[q] # Slots => AllAt(q)')
  <2>1. ASSUME pc[q] = "publish_sources", todo'[q] = todo[q], round'[q] = round[q]
        PROVE  todo'[q] \subseteq Slots /\ (todo'[q] # Slots => AllAt(q)')
    <3>1. todo[q] \subseteq Slots /\ (todo[q] # Slots => AllAt(q))
      BY <2>1 DEF SourcesInv
    <3>2. ASSUME AllAt(q), NEW p \in Ranks PROVE Place(p)' >= Place(q)'
      <4>1. Place(q)' = Place(q)
        BY <1>4, <2>1 DEF Place
      <4>2. Place(p)' >= Place(p) /\ Place(p) >= Place(q)
        BY <3>2, TurnTypes DEF PInv, AllAt
      <4>3. Place(p) \in Nat /\ Place(q) \in Nat
        BY PlaceTypes DEF PInv
      <4>4. Place(p)' \in Nat
        BY TurnInOrder, PlacesNat DEF PInv
      <4> QED
        BY <4>1, <4>2, <4>3, <4>4
    <3> QED
      BY <2>1, <3>1, <3>2 DEF AllAt
  <2>3. CASE UNCHANGED turnVars
    BY <1>4, <2>1, <2>3 DEF turnVars
  <2>4. ASSUME NEW r \in Ranks, NextRound(r) PROVE todo'[q] \subseteq Slots /\ (todo'[q] # Slots => AllAt(q)')
    <3>1. q # r /\ pc[q] = "publish_sources" /\ todo' = todo /\ round'[q] = round[q]
      BY <1>1, <1>4, <2>4 DEF NextRound, StartPlanning, Goto
    <3> QED
      BY <2>1, <3>1
  <2>5. ASSUME NEW r \in Ranks, PlanStep(r), q # r
        PROVE  todo'[q] \subseteq Slots /\ (todo'[q] # Slots => AllAt(q)')
    <3>1. pc'[q] = pc[q]
      BY <2>5, OthersKept DEF PInv
    <3>2. round' = round
      BY <2>5, OthersKept DEF PInv
    <3>3. todo' = todo \/ \E v : todo' = [todo EXCEPT ![r] = v]
      BY <2>5 DEF PlanStep, CountsGiven, PublishCounts, GatherCounts, Balance, LayOut,
                  PublishSource, PublishScratch, Encode
    <3>4. todo'[q] = todo[q] /\ round'[q] = round[q]
      BY <1>1, <2>5, <3>2, <3>3
    <3> QED
      BY <1>4, <2>1, <3>1, <3>4
  <2>6. CASE LayOut(q)
    <3>1. RankMade(q)'
      BY <2>6, StepMakes DEF PlanStep
    <3>2. pc'[q] # "raised"
      BY <3>1 DEF RankMade
    <3>3. todo'[q] = Slots
      BY <1>1, <2>6, <3>2 DEF LayOut, Goto
    <3> QED
      BY <3>3
  <2>7. CASE PublishSource(q) /\ PlanTurn(q)
    <3>1. pc[q] = "publish_sources" /\ AllAt(q)
      BY <2>7 DEF PublishSource, PlanTurn, AtBarrier
    <3>2. todo'[q] \subseteq todo[q] /\ round' = round
      BY <1>1, <2>7 DEF PublishSource
    <3>3. Place(q)' = Place(q)
      BY <1>4, <3>1, <3>2 DEF Place
    <3>4. todo[q] \subseteq Slots
      BY <3>1 DEF SourcesInv
    <3>5. AllAt(q)'
      <4> SUFFICES ASSUME NEW p \in Ranks PROVE Place(p)' >= Place(q)'
        BY DEF AllAt
      <4>1. Place(p)' >= Place(p) /\ Place(p) >= Place(q)
        BY <3>1, TurnTypes DEF PInv, AllAt
      <4>2. Place(p) \in Nat /\ Place(q) \in Nat
        BY PlaceTypes DEF PInv
      <4>3. Place(p)' \in Nat
        BY TurnInOrder, PlacesNat DEF PInv
      <4> QED
        BY <3>3, <4>1, <4>2, <4>3
    <3> QED
      BY <3>2, <3>4, <3>5
  <2>8. ASSUME CountsGiven(q) \/ PublishCounts(q) \/ GatherCounts(q) \/ Balance(q)
                   \/ PublishScratch(q) \/ Encode(q)
        PROVE  FALSE
    BY <1>1, <1>4, <2>8 DEF CountsGiven, PublishCounts, GatherCounts, Balance, PublishScratch,
                            Encode, Goto
  <2> QED
    BY <2>3, <2>4, <2>5, <2>6, <2>7, <2>8 DEF Turn, PlanTurn, PlanStep
<1> QED
  BY <1>2, <1>3, <1>4

\* The store of an entry, in the src_info of every rank that has cleared it.
LEMMA StoreCollected ==
    ASSUME PInv, SourcesInv, PlansMade, NEW r \in Ranks, PublishSource(r), PlanTurn(r),
           NEW d \in Ranks, pc'[d] \in Cleared
    PROVE  Collected(routing[round[d]], d, Done(round[d])', srcInfo'[d])
<1>1. /\ pc \in [Ranks -> PlanLabels] /\ DOMAIN srcInfo = Ranks /\ DOMAIN todo = Ranks
      /\ UNCHANGED <<routing, round>>
  BY DEF PInv, InOrder, PlanningTypeOK, SourcesInv, PublishSource, inputs
<1>2. pc[r] = "publish_sources" /\ AllAt(r)
  BY DEF PublishSource, PlanTurn, AtBarrier
<1>3. pc[d] \in Cleared
  <2>1. pc' = pc \/ pc' = [pc EXCEPT ![r] = "publish_scratch"]
    BY DEF PublishSource, Goto
  <2> QED
    BY <1>1, <1>2, <2>1 DEF Cleared
<1>4. round[d] = round[r]
  BY <1>2, <1>3, StoresInRound DEF PInv
<1>5. PICK n, topk : n = round[r] /\ topk = routing[n] /\ topk \in Routings
  BY <1>2, InRound
<1>6. PICK i \in todo[r] :
          /\ srcInfo' = [srcInfo EXCEPT ![DestRank(plan[r].dst[i])][DestRow(plan[r].dst[i])] = Source(r, i)]
          /\ todo' = [todo EXCEPT ![r] = todo[r] \ {i}]
  BY DEF PublishSource
<1>7. pc' = IF todo'[r] = {} THEN [pc EXCEPT ![r] = "publish_scratch"] ELSE pc
  BY DEF PublishSource, Goto
<1>8. i \in Slots
  BY <1>2 DEF SourcesInv
<1>9. PICK v : v = Goes(topk, r, i) /\ v = plan[r].dst[i]
  <2>1. plan[r].dst = RawIn(topk, r)
    BY <1>2, <1>5 DEF PlansMade, RankMade
  <2> QED
    BY <1>5, <1>8, <2>1, RawIsDst
<1>10. Done(n)' = Done(n) \cup {<<r, i>>}
  BY <1>1, <1>2, <1>5, <1>6, <1>7, StoreAddsDone
<1>11. Collected(topk, d, Done(n), srcInfo[d]) /\ DOMAIN srcInfo[d] = Rows
  BY <1>3, <1>4, <1>5 DEF SourcesInv
<1>12. Collected(topk, d, Done(n)', srcInfo'[d])
  <2>1. PICK done, info : done = Done(n) /\ info = srcInfo[d]
    OBVIOUS
  <2>2. /\ DestRank(v) = d =>
               Collected(topk, d, done \cup {<<r, i>>}, [info EXCEPT ![DestRow(v)] = Source(r, i)])
        /\ DestRank(v) # d => Collected(topk, d, done \cup {<<r, i>>}, info)
    <3>1. Collected(topk, d, done, info) /\ DOMAIN info = Rows
      BY <1>11, <2>1
    <3> QED
      BY <1>5, <1>8, <1>9, <3>1, CollectedStored
  <2>3. CASE DestRank(v) = d
    <3>1. srcInfo'[d] = [info EXCEPT ![DestRow(v)] = Source(r, i)]
      BY <1>1, <1>6, <1>9, <2>1, <2>3
    <3> QED
      BY <1>10, <2>1, <2>2, <2>3, <3>1
  <2>4. CASE DestRank(v) # d
    <3>1. srcInfo'[d] = info
      BY <1>1, <1>6, <1>9, <2>1, <2>4
    <3> QED
      BY <1>10, <2>1, <2>2, <2>4, <3>1
  <2> QED
    BY <2>3, <2>4
<1>13. Done(round[d])' = Done(n)'
  BY <1>1, <1>4, <1>5 DEF Done, DoneBy
<1> QED
  BY <1>4, <1>5, <1>12, <1>13

LEMMA NextSources == PInv /\ SourcesInv /\ PlansMade /\ Turn => SourcesInv'
<1> SUFFICES ASSUME PInv, SourcesInv, PlansMade, Turn PROVE SourcesInv'
  OBVIOUS
<1>1. /\ pc \in [Ranks -> PlanLabels] /\ DOMAIN srcInfo = Ranks /\ DOMAIN round = Ranks
  BY DEF PInv, InOrder, PlanningTypeOK
<1>2. routing' = routing
  BY DEF Turn, PlanTurn, PlanStep, CountsGiven, PublishCounts, GatherCounts, Balance, LayOut, PublishSource,
         PublishScratch, Encode, NextRound, StartPlanning, turnVars, inputs
<1>3. ASSUME NEW d \in Ranks, pc'[d] \in Cleared
      PROVE  Collected(routing'[round'[d]], d, Done(round[d])', srcInfo'[d]) /\ round'[d] = round[d]
  <2>1. PICK n, topk : n = round[d] /\ topk = routing[n]
    OBVIOUS
  <2>2. ASSUME pc[d] \in Cleared, round'[d] = n, Done(n)' = Done(n), srcInfo'[d] = srcInfo[d]
        PROVE  Collected(topk, d, Done(n)', srcInfo'[d])
    BY <2>1, <2>2 DEF SourcesInv
  <2>3. Collected(topk, d, Done(n)', srcInfo'[d]) /\ round'[d] = n
    <3>1. CASE UNCHANGED turnVars
      <4>1. UNCHANGED <<round, pc, todo, srcInfo>>
        BY <3>1 DEF turnVars, shared
      <4>2. Done(n)' = Done(n)
        BY <4>1, DoneByKept, DoneSame
      <4> QED
        BY <1>3, <2>1, <2>2, <4>1, <4>2
    <3>2. ASSUME NEW r \in Ranks, NextRound(r)
          PROVE  Collected(topk, d, Done(n)', srcInfo'[d]) /\ round'[d] = n
      <4>1. d # r /\ pc[d] \in Cleared /\ round'[d] = n /\ srcInfo' = srcInfo
        <5>1. /\ pc' = [pc EXCEPT ![r] = "publish_counts"] /\ srcInfo' = srcInfo
              /\ round' = [round EXCEPT ![r] = round[r] + 1]
          BY <3>2 DEF NextRound, StartPlanning, Goto, shared
        <5>2. d # r
          BY <1>1, <1>3, <5>1 DEF Cleared
        <5> QED
          BY <1>1, <1>3, <2>1, <5>1, <5>2
      <4>2. n \in Nat \ {0}
        <5>1. n \in Nat
          BY <2>1, PlaceTypes DEF PInv
        <5>2. pc[d] # "idle"
          BY <4>1 DEF Cleared
        <5> QED
          BY <2>1, <5>1, <5>2 DEF PInv, InOrder, PlanningTypeOK
      <4>3. Done(n)' = Done(n)
        BY <3>2, <4>2, NextRoundKeepsDone DEF PInv
      <4> QED
        BY <2>2, <4>1, <4>3
    <3>3. ASSUME NEW r \in Ranks, PublishSource(r), PlanTurn(r)
          PROVE  Collected(topk, d, Done(n)', srcInfo'[d]) /\ round'[d] = n
      <4>1. round' = round
        BY <3>3 DEF PublishSource
      <4> QED
        BY <1>3, <2>1, <3>3, <4>1, StoreCollected
    <3>4. ASSUME NEW r \in Ranks, PlanStep(r), ~PublishSource(r)
          PROVE  Collected(topk, d, Done(n)', srcInfo'[d]) /\ round'[d] = n
      <4>1. /\ round' = round /\ \A q \in Ranks \ {r} : pc'[q] = pc[q]
        BY <3>4, OthersKept DEF PInv
      <4>2. Done(n)' = Done(n)
        BY <3>4, StepKeepsDone
      <4>3. CASE LayOut(r) /\ d = r
        <5>1. RankMade(r)'
          BY <3>4, StepMakes
        <5>2. srcInfo'[r] = NoRows
          BY <1>1, <4>3, <5>1 DEF LayOut, Goto, RankMade
        <5>3. Done(n) = {}
          BY <2>1, <4>3, NoneStoredYet DEF LayOut, PInv
        <5> QED
          BY <2>1, <4>1, <4>2, <4>3, <5>2, <5>3, CollectedNone
      <4>4. CASE LayOut(r) /\ d # r
        <5>1. srcInfo'[d] = srcInfo[d]
          BY <1>1, <4>4 DEF LayOut
        <5> QED
          BY <1>3, <2>1, <2>2, <4>1, <4>2, <4>4, <5>1
      <4>5. CASE ~LayOut(r)
        <5>1. srcInfo' = srcInfo
          BY <3>4, <4>5 DEF PlanStep, CountsGiven, PublishCounts, GatherCounts, Balance,
                            PublishScratch, Encode, shared
        <5>2. pc[d] \in Cleared
          <6>1. CASE d # r
            BY <1>3, <4>1, <6>1
          <6>2. CASE d = r /\ (PublishScratch(r) \/ Encode(r))
            BY <6>2 DEF PublishScratch, Encode, Cleared
          <6>3. ASSUME d = r, CountsGiven(r) \/ PublishCounts(r) \/ GatherCounts(r) \/ Balance(r)
                PROVE  FALSE
            BY <1>1, <1>3, <6>3 DEF CountsGiven, PublishCounts, GatherCounts, Balance, Goto, Cleared
          <6> QED
            BY <3>4, <4>5, <6>1, <6>2, <6>3 DEF PlanStep
        <5> QED
          BY <2>1, <2>2, <4>1, <4>2, <5>1, <5>2
      <4> QED
        BY <4>3, <4>4, <4>5
    <3> QED
      BY <3>1, <3>2, <3>3, <3>4 DEF Turn, PlanTurn
  <2> QED
    BY <1>2, <2>1, <2>3
<1>4. ASSUME NEW d \in Ranks, pc'[d] \in Cleared
      PROVE  Collected(routing[round[d]], d, Done(round[d]), srcInfo[d])'
  <2>1. PICK n : n = round[d] /\ n = round'[d]
    BY <1>3, <1>4
  <2>2. Collected(routing'[n], d, Done(n)', srcInfo'[d])
    BY <1>3, <1>4, <2>1
  <2>3. Done(round[d])' = Done(n)'
    BY <2>1 DEF Done, DoneBy
  <2> QED
    BY <2>1, <2>2, <2>3
<1> QED
  BY <1>4, NextTodo DEF SourcesInv

LEMMA InitSources == PlanInit => SourcesInv
<1> SUFFICES ASSUME PlanInit PROVE SourcesInv
  OBVIOUS
<1>1. \A r \in Ranks : pc[r] = "idle" /\ DOMAIN srcInfo[r] = Rows
  BY DEF PlanInit
<1>2. DOMAIN todo = Ranks
  BY DEF PlanInit
<1> QED
  BY <1>1, <1>2 DEF SourcesInv, Cleared

LEMMA SourcesCollected ==
    ASSUME PInv, SourcesInv, PlansMade PROVE SourcesExact
<1> SUFFICES ASSUME \A r, q \in Ranks : pc[r] = "planned" /\ round[r] = round[q],
                    NEW d \in Ranks, NEW l \in Rows,
                    NEW senders, senders = {x \in Ranks \X Slots :
                                               Canonical(plan[x[1]].dst[x[2]]) = d * NvS + l}
             PROVE  srcInfo[d][l] = IF senders = {} THEN None
                                    ELSE LET x == CHOOSE y \in senders : TRUE
                                         IN  x[1] * NvS + x[2]
  BY DEF SourcesExact
<1>1. 0 \in Ranks
  BY NumRanksAssumption DEF Ranks
<1>2. SameRound /\ round[d] = round[0] /\ pc[d] \in Cleared
  BY <1>1 DEF SameRound, Cleared
<1>3. PICK topk : topk = routing[round[0]] /\ PlansFor(topk, LayoutsMade, DstsMade)
  BY <1>2, TogetherPlanned
<1>4. \A r \in Ranks, i \in Slots : Canonical(plan[r].dst[i]) = Goes(topk, r, i)
  BY <1>3 DEF PlansFor, Goes, DstsMade
<1>5. Collected(topk, d, Done(round[0]), srcInfo[d])
  BY <1>2, <1>3 DEF SourcesInv
<1>6. \A r \in Ranks, i \in Slots : <<r, i>> \in Done(round[0])
  BY <1>1 DEF Done, DoneBy, AllStored
<1>7. CASE senders = {}
  <2>1. \A r \in Ranks, i \in Slots : Goes(topk, r, i) # d * NvS + l
    <3> SUFFICES ASSUME NEW r \in Ranks, NEW i \in Slots, Goes(topk, r, i) = d * NvS + l PROVE FALSE
      OBVIOUS
    <3>1. <<r, i>> \in senders
      BY <1>4
    <3> QED
      BY <1>7, <3>1
  <2> QED
    BY <1>5, <1>7, <2>1 DEF Collected
<1>8. CASE senders # {}
  <2>1. PICK x : x = CHOOSE y \in senders : TRUE
    OBVIOUS
  <2>2. x \in senders
    BY <1>8, <2>1
  <2>3. PICK r \in Ranks, i \in Slots : x = <<r, i>>
    BY <2>2
  <2>4. Goes(topk, r, i) = d * NvS + l
    BY <1>4, <2>2, <2>3
  <2>5. srcInfo[d][l] = Source(r, i)
    BY <1>5, <1>6, <2>4 DEF Collected
  <2>6. x[1] * NvS + x[2] = Source(r, i)
    BY <2>3 DEF Source
  <2>7. srcInfo[d][l] = x[1] * NvS + x[2]
    BY <2>5, <2>6
  <2>8. srcInfo[d][l] = LET y == CHOOSE z \in senders : TRUE IN y[1] * NvS + y[2]
    BY <2>1, <2>7
  <2> QED
    BY <1>8, <2>8
<1> QED
  BY <1>7, <1>8

\* When all ranks have planned a round, src_info of each names for every row the one
\* entry that is sent to it, and None for the rows of none: no store of an entry has
\* been lost, by a late clearing or to a peer's, and none of another round is left.
THEOREM SourcesAreExact == Spec => []SourcesExact
BY SourcesCollected, InitInStep, NextInStep, NextTurn, InitPInv, NextPInv, InitMade, NextMakes,
   InitSources, NextSources, PTL DEF Spec
(* Dispatch and combine on all ranks: the calls. *)

\* How many of the first n calls plan, and the routing that call n runs with.
FreshTo(n) == Cardinality({m \in 1 .. n : program.ops[m].kind = "fresh"})
RoutingOf(n) == routing[FreshTo(n)]

BufferSteps == {"idle", "start", "sync", "planning", "scatter", "dispatched", "received",
                "computed", "gather", "combined"}
InDispatch == {"planning", "scatter", "dispatched", "received", "computed"}
InCombine == {"gather", "combined"}

\* What a rank's step says of its call and of its planning.
InCall(r) ==
    /\ step[r] = "idle" <=> call[r] = 0
    /\ step[r] = "start" => ~Op(r).sync
    /\ step[r] = "sync" => Op(r).sync
    /\ step[r] \in InDispatch => Op(r).kind # "combine"
    /\ step[r] \in InCombine => Op(r).kind = "combine"
    /\ step[r] = "planning" => /\ Op(r).kind = "fresh"
                               /\ pc[r] \notin {"idle", "planned"}
                               /\ pending[r] = Slots
    /\ step[r] # "planning" => pc[r] \in {"idle", "planned"}
    /\ round[r] = IF step[r] \in {"start", "sync"} /\ Op(r).kind = "fresh"
                  THEN FreshTo(call[r] - 1) ELSE FreshTo(call[r])

ControlOK ==
    /\ program \in Programs
    /\ call \in [Ranks -> 0 .. Len(program.ops)]
    /\ step \in [Ranks -> BufferSteps]
    /\ pending \in [Ranks -> SUBSET Slots]
    /\ arrived \in [Ranks -> Nat]
    /\ \A r \in Ranks : InCall(r)

\* A step that changes the step of rank r only, and how many barriers it has arrived
\* at.
StepsTo(r, from, to, k) ==
    /\ step[r] = from /\ step' = [step EXCEPT ![r] = to]
    /\ k \in {0, 1} /\ arrived' = [arrived EXCEPT ![r] = arrived[r] + k]
    /\ \E s \in SUBSET Slots : pending' = [pending EXCEPT ![r] = s]
    /\ UNCHANGED <<program, call, turnVars>>
    /\ from \in CallBarriers => BarrierOpen(r)

\* The next call; the launch of planning; and the moves, with the call they are of.
Calls(r) ==
    /\ step[r] \in {"idle", "computed", "combined"} /\ call[r] < Len(program.ops)
    /\ call' = [call EXCEPT ![r] = call[r] + 1]
    /\ \/ /\ program.ops[call[r] + 1].sync
          /\ step' = [step EXCEPT ![r] = "sync"]
          /\ arrived' = [arrived EXCEPT ![r] = arrived[r] + 1]
       \/ /\ ~program.ops[call[r] + 1].sync
          /\ step' = [step EXCEPT ![r] = "start"]
          /\ UNCHANGED arrived
    /\ UNCHANGED <<program, turnVars, pending>>
Launches(r) ==
    /\ Started(r) /\ Op(r).kind = "fresh" /\ StartPlanning(r)
    /\ step' = [step EXCEPT ![r] = "planning"]
    /\ pending' = [pending EXCEPT ![r] = Slots]
    /\ UNCHANGED <<program, call>>
MovesOn(r) ==
    \/ /\ Op(r).kind = "reuse"
       /\ \E from \in {"start", "sync"} : StepsTo(r, from, "scatter", 0)
    \/ StepsTo(r, "scatter", "scatter", 0)
    \/ StepsTo(r, "scatter", "dispatched", 1)
    \/ StepsTo(r, "dispatched", "received", 0)
    \/ StepsTo(r, "received", "computed", 0)
    \/ /\ Op(r).kind = "combine"
       /\ \E from \in {"start", "sync"} : StepsTo(r, from, "gather", 1)
    \/ \E to \in {"gather", "combined"} : StepsTo(r, "gather", to, 0)

LEMMA ControlSteps ==
    ASSUME ControlOK, NEW r \in Ranks, Step(r)
    PROVE  Calls(r) \/ Launches(r) \/ Plan(r) \/ MovesOn(r)
<1>1. /\ call \in [Ranks -> 0 .. Len(program.ops)] /\ step \in [Ranks -> BufferSteps]
      /\ pending \in [Ranks -> SUBSET Slots] /\ arrived \in [Ranks -> Nat]
      /\ arrived = [arrived EXCEPT ![r] = arrived[r] + 0]
      /\ pending = [pending EXCEPT ![r] = pending[r]]
      /\ Grid = Slots /\ pending[r] \in SUBSET Slots
  BY DEF ControlOK, Grid
<1>2. CASE StartCall(r)
  BY <1>2 DEF StartCall, Calls, Arrive, GoOn, turnVars
<1>3. CASE StartDispatch(r)
  <2>1. /\ Started(r) /\ pending' = [pending EXCEPT ![r] = Slots] /\ UNCHANGED <<program, call>>
        /\ \/ Op(r).kind = "fresh" /\ StartPlanning(r) /\ step' = [step EXCEPT ![r] = "planning"]
           \/ Op(r).kind = "reuse" /\ UNCHANGED planVars /\ step' = [step EXCEPT ![r] = "scatter"]
    BY <1>1, <1>3 DEF StartDispatch, GoOn
  <2>2. CASE Op(r).kind = "reuse" /\ UNCHANGED planVars /\ step' = [step EXCEPT ![r] = "scatter"]
    <3>1. UNCHANGED turnVars /\ arrived' = [arrived EXCEPT ![r] = arrived[r] + 0]
      BY <1>1, <2>2 DEF planVars, turnVars
    <3>2. PICK from \in {"start", "sync"} : step[r] = from /\ (from \in CallBarriers => BarrierOpen(r))
      BY <2>1 DEF Started, PassesCall
    <3>3. StepsTo(r, from, "scatter", 0)
      BY <2>1, <2>2, <3>1, <3>2 DEF StepsTo
    <3> QED
      BY <2>2, <3>3 DEF MovesOn
  <2> QED
    BY <2>1, <2>2 DEF Launches
<1>4. CASE Plan(r)
  BY <1>4
<1>5. CASE Scatter(r)
  <2>1. /\ step[r] = "scatter" /\ UNCHANGED <<planVars, program, call, step>>
        /\ \E i \in Slots : pending' = [pending EXCEPT ![r] = pending[r] \ {i}]
    BY <1>1, <1>5 DEF Scatter
  <2>2. UNCHANGED turnVars /\ arrived' = [arrived EXCEPT ![r] = arrived[r] + 0]
        /\ step' = [step EXCEPT ![r] = "scatter"]
    BY <1>1, <2>1 DEF planVars, turnVars
  <2>3. StepsTo(r, "scatter", "scatter", 0)
    BY <1>1, <2>1, <2>2 DEF StepsTo, CallBarriers
  <2> QED
    BY <2>3 DEF MovesOn
<1>6. CASE FinishScatter(r)
  <2>1. StepsTo(r, "scatter", "dispatched", 1)
    BY <1>1, <1>6 DEF FinishScatter, StepsTo, CallBarriers, Arrive, GoOn, turnVars
  <2> QED
    BY <2>1 DEF MovesOn
<1>7. CASE Epilogue(r)
  <2>1. /\ step[r] = "dispatched" /\ BarrierOpen(r) /\ UNCHANGED <<planVars, program, call, pending>>
        /\ step' = [step EXCEPT ![r] = "received"]
    BY <1>7 DEF Epilogue, PassesCall, CallBarriers, GoOn
  <2>2. UNCHANGED turnVars /\ arrived' = [arrived EXCEPT ![r] = arrived[r] + 0]
    BY <1>1, <2>1 DEF planVars, turnVars
  <2>3. StepsTo(r, "dispatched", "received", 0)
    BY <1>1, <2>1, <2>2 DEF StepsTo
  <2> QED
    BY <2>3 DEF MovesOn
<1>8. CASE Compute(r)
  <2>1. /\ step[r] = "received" /\ UNCHANGED <<planVars, program, call, pending>>
        /\ step' = [step EXCEPT ![r] = "computed"]
    BY <1>8 DEF Compute, GoOn
  <2>2. UNCHANGED turnVars /\ arrived' = [arrived EXCEPT ![r] = arrived[r] + 0]
    BY <1>1, <2>1 DEF planVars, turnVars
  <2>3. StepsTo(r, "received", "computed", 0)
    BY <1>1, <2>1, <2>2 DEF StepsTo, CallBarriers
  <2> QED
    BY <2>3 DEF MovesOn
<1>9. CASE Prologue(r)
  <2>1. PICK from \in {"start", "sync"} : step[r] = from /\ (from \in CallBarriers => BarrierOpen(r))
    BY <1>9 DEF Prologue, Started, PassesCall
  <2>2. /\ Op(r).kind = "combine" /\ pending' = [pending EXCEPT ![r] = Slots]
        /\ arrived' = [arrived EXCEPT ![r] = arrived[r] + 1]
        /\ step' = [step EXCEPT ![r] = "gather"]
        /\ UNCHANGED <<inputs, round, pc, shared, tpe, alloc, plan, todo, program, call>>
    BY <1>1, <1>9 DEF Prologue, Arrive, GoOn
  <2>3. StepsTo(r, from, "gather", 1)
    BY <2>1, <2>2 DEF StepsTo, turnVars
  <2> QED
    BY <2>2, <2>3 DEF MovesOn
<1>10. CASE Gather(r)
  <2>1. /\ step[r] = "gather" /\ BarrierOpen(r) /\ UNCHANGED <<planVars, program, call>>
        /\ \E i \in Slots : pending' = [pending EXCEPT ![r] = pending[r] \ {i}]
        /\ \E to \in {"gather", "combined"} : step' = [step EXCEPT ![r] = to]
    BY <1>1, <1>10 DEF Gather, PassesCall, CallBarriers, GoOn
  <2>2. UNCHANGED turnVars /\ arrived' = [arrived EXCEPT ![r] = arrived[r] + 0]
    BY <1>1, <2>1 DEF planVars, turnVars
  <2>3. PICK to \in {"gather", "combined"} : step' = [step EXCEPT ![r] = to]
    BY <2>1
  <2>4. \E s \in SUBSET Slots : pending' = [pending EXCEPT ![r] = s]
    BY <1>1, <2>1
  <2>5. StepsTo(r, "gather", to, 0)
    BY <2>1, <2>2, <2>3, <2>4 DEF StepsTo
  <2> QED
    BY <2>3, <2>5 DEF MovesOn
<1> QED
  BY <1>2, <1>3, <1>4, <1>5, <1>6, <1>7, <1>8, <1>9, <1>10 DEF Step

LEMMA ProgramFacts ==
    ASSUME ControlOK
    PROVE  /\ Len(program.ops) \in Nat
           /\ \A n \in 1 .. Len(program.ops) :
                 /\ program.ops[n].kind \in Kinds /\ program.ops[n].sync \in BOOLEAN
                 /\ program.ops[n].kind = "reuse" => program.ops[n].sync
                 /\ n = 1 => program.ops[n].kind = "fresh"
                 /\ program.ops[n].kind = "combine" =>
                       n - 1 \in 1 .. Len(program.ops) /\ program.ops[n - 1].kind # "combine"
           /\ program.weighted \in BOOLEAN /\ program.zeroCopy \in BOOLEAN
<1>1. program \in ProgramType /\ Legal(program)
  BY ProgramsAssumption DEF ControlOK
<1>2. /\ program.ops \in Seq([kind : Kinds, sync : BOOLEAN])
      /\ program.weighted \in BOOLEAN /\ program.zeroCopy \in BOOLEAN
  BY <1>1 DEF ProgramType
<1>3. PICK ops : ops = program.ops
  OBVIOUS
<1>4. Len(ops) \in Nat /\ \A n \in 1 .. Len(ops) : ops[n] \in [kind : Kinds, sync : BOOLEAN]
  <2>1. PICK S : S = [kind : Kinds, sync : BOOLEAN]
    OBVIOUS
  <2>2. ops \in Seq(S)
    BY <1>2, <1>3, <2>1
  <2>3. Len(ops) \in Nat /\ \A n \in 1 .. Len(ops) : ops[n] \in S
    BY <2>2
  <2> QED
    BY <2>1, <2>3
<1>5. /\ ops[1].kind = "fresh"
      /\ \A n \in 2 .. Len(ops) : ops[n].kind = "combine" => ops[n - 1].kind # "combine"
      /\ \A n \in 1 .. Len(ops) : ops[n].sync \/ MayElideSync(ops, n)
  BY <1>1, <1>3 DEF Legal
<1>6. ASSUME NEW n \in 1 .. Len(ops), ops[n].kind = "combine"
      PROVE  n - 1 \in 1 .. Len(ops) /\ ops[n - 1].kind # "combine"
  <2>1. n # 1
    BY <1>5, <1>6
  <2>2. n \in 2 .. Len(ops) /\ n - 1 \in 1 .. Len(ops)
    BY <1>4, <2>1
  <2> QED
    BY <1>5, <1>6, <2>2
<1>7. ASSUME NEW n \in 1 .. Len(ops), ops[n].kind = "reuse" PROVE ops[n].sync
  BY <1>5, <1>7 DEF MayElideSync
<1> QED
  BY <1>2, <1>3, <1>4, <1>5, <1>6, <1>7

LEMMA FreshCounts ==
    /\ FreshTo(0) = 0
    /\ \A n \in Nat : FreshTo(n) \in Nat
    /\ \A n \in Nat : FreshTo(n + 1) = IF program.ops[n + 1].kind = "fresh"
                                       THEN FreshTo(n) + 1 ELSE FreshTo(n)
    /\ \A m, n \in Nat : m <= n => FreshTo(m) <= FreshTo(n)
<1> DEFINE F(n) == {m \in 1 .. n : program.ops[m].kind = "fresh"}
<1>1. ASSUME NEW n \in Nat PROVE IsFiniteSet(F(n)) /\ Cardinality(F(n)) \in Nat
  <2>1. IsFiniteSet(1 .. n)
    BY FS_Interval
  <2>2. F(n) \subseteq 1 .. n
    OBVIOUS
  <2> HIDE DEF F
  <2> QED
    BY <2>1, <2>2, FS_Subset, FS_CardinalityType
<1>2. F(0) = {}
  OBVIOUS
<1>3. ASSUME NEW n \in Nat
      PROVE  Cardinality(F(n + 1)) = IF program.ops[n + 1].kind = "fresh"
                                     THEN Cardinality(F(n)) + 1 ELSE Cardinality(F(n))
  <2>1. CASE program.ops[n + 1].kind = "fresh"
    <3>1. F(n + 1) = F(n) \cup {n + 1} /\ n + 1 \notin F(n)
      BY <2>1
    <3> HIDE DEF F
    <3> QED
      BY <1>1, <2>1, <3>1, FS_AddElement
  <2>2. CASE program.ops[n + 1].kind # "fresh"
    <3>1. F(n + 1) = F(n)
      BY <2>2
    <3> QED
      BY <2>2, <3>1
  <2> QED
    BY <2>1, <2>2
<1>4. ASSUME NEW m \in Nat, NEW n \in Nat, m <= n PROVE Cardinality(F(m)) <= Cardinality(F(n))
  <2>1. F(m) \subseteq F(n)
    BY <1>4
  <2> HIDE DEF F
  <2> QED
    BY <1>1, <2>1, FS_Subset
<1> HIDE DEF F
<1>5. \A n : FreshTo(n) = Cardinality(F(n))
  BY DEF FreshTo, F
<1> QED
  BY <1>1, <1>2, <1>3, <1>4, <1>5, FS_EmptySet

\* A step of planning, as the barriers see it.
PlansOn(r, label, k) ==
    /\ pc' = [pc EXCEPT ![r] = label]
    /\ arrived' = [arrived EXCEPT ![r] = arrived[r] + k]
    /\ \/ pc[r] = "publish_counts" /\ label = "balance" /\ k = 0 /\ HasCounts(r)
       \/ pc[r] = "publish_counts" /\ label = "gather_counts" /\ k = 1 /\ ~HasCounts(r)
       \/ /\ pc[r] \in {"gather_counts", "balance", "lay_out"} /\ k = 0
          /\ label \in {"gather_counts", "balance", "lay_out", "raised"}
       \/ pc[r] = "lay_out" /\ label = "publish_sources" /\ k = 1
       \/ pc[r] = "publish_sources" /\ label = "publish_sources" /\ k = 0
       \/ pc[r] = "publish_sources" /\ label = "publish_scratch" /\ k = 1
       \/ pc[r] = "publish_scratch" /\ label = "encode" /\ k = IF NumRanks > 1 THEN 1 ELSE 0
       \/ pc[r] = "encode" /\ label = "planned" /\ k = 0

LEMMA PlanMoves ==
    ASSUME InOrder, arrived \in [Ranks -> Nat], NEW r \in Ranks, PlanStep(r)
    PROVE  /\ \E label \in PlanLabels, k \in {0, 1} : PlansOn(r, label, k)
           /\ UNCHANGED <<routing, gathered, round>>
           /\ pc[r] \in AtBarrier => BarrierOpen(r)
<1>1. /\ pc \in [Ranks -> PlanLabels] /\ pc = [pc EXCEPT ![r] = pc[r]]
      /\ arrived = [arrived EXCEPT ![r] = arrived[r] + 0]
  BY DEF InOrder, PlanningTypeOK
<1>2. UNCHANGED <<routing, gathered, round>>
  BY StepLabels
<1>3. pc[r] \in AtBarrier => BarrierOpen(r)
  BY DEF PlanStep, CountsGiven, PublishCounts, GatherCounts, Balance, LayOut, PublishSource,
         PublishScratch, Encode, Passes, AtBarrier
<1> USE <1>1 DEF Goto, Arrive, PlanLabels
<1>4. CASE CountsGiven(r)
  <2>1. PlansOn(r, "balance", 0)
    BY <1>4 DEF CountsGiven, PlansOn
  <2> QED
    BY <1>2, <1>3, <2>1
<1>5. CASE PublishCounts(r)
  <2>1. PlansOn(r, "gather_counts", 1)
    BY <1>5 DEF PublishCounts, PlansOn
  <2> QED
    BY <1>2, <1>3, <2>1
<1>6. CASE GatherCounts(r)
  <2>1. PICK label \in {"balance", "gather_counts"} :
            pc' = [pc EXCEPT ![r] = label] /\ UNCHANGED arrived /\ pc[r] = "gather_counts"
    BY <1>6 DEF GatherCounts
  <2>2. PlansOn(r, label, 0)
    BY <2>1 DEF PlansOn
  <2> QED
    BY <1>2, <1>3, <2>2
<1>7. CASE Balance(r)
  <2>1. PICK label \in {"lay_out", "raised"} :
            pc' = [pc EXCEPT ![r] = label] /\ UNCHANGED arrived /\ pc[r] = "balance"
    BY <1>7 DEF Balance
  <2>2. PlansOn(r, label, 0)
    BY <2>1 DEF PlansOn
  <2> QED
    BY <1>2, <1>3, <2>2
<1>8. CASE LayOut(r)
  <2>1. /\ pc[r] = "lay_out"
        /\ \/ /\ arrived' = [arrived EXCEPT ![r] = arrived[r] + 1]
              /\ pc' = [pc EXCEPT ![r] = "publish_sources"]
           \/ UNCHANGED arrived /\ pc' = [pc EXCEPT ![r] = "raised"]
    BY <1>8 DEF LayOut
  <2>2. PlansOn(r, "publish_sources", 1) \/ PlansOn(r, "raised", 0)
    BY <2>1 DEF PlansOn
  <2> QED
    BY <1>2, <1>3, <2>2
<1>9. CASE PublishSource(r)
  <2>1. /\ pc[r] = "publish_sources"
        /\ \/ /\ arrived' = [arrived EXCEPT ![r] = arrived[r] + 1]
              /\ pc' = [pc EXCEPT ![r] = "publish_scratch"]
           \/ UNCHANGED <<arrived, pc>>
    BY <1>9 DEF PublishSource
  <2>2. PlansOn(r, "publish_scratch", 1) \/ PlansOn(r, "publish_sources", 0)
    BY <2>1 DEF PlansOn
  <2> QED
    BY <1>2, <1>3, <2>2
<1>10. CASE PublishScratch(r)
  <2>1. PICK k \in {0, 1} : /\ k = IF NumRanks > 1 THEN 1 ELSE 0
                            /\ pc[r] = "publish_scratch" /\ pc' = [pc EXCEPT ![r] = "encode"]
                            /\ arrived' = [arrived EXCEPT ![r] = arrived[r] + k]
    <3>1. /\ pc[r] = "publish_scratch" /\ pc' = [pc EXCEPT ![r] = "encode"]
          /\ IF NumRanks > 1 THEN arrived' = [arrived EXCEPT ![r] = arrived[r] + 1]
                             ELSE UNCHANGED arrived
      BY <1>10 DEF PublishScratch
    <3> QED
      BY <3>1
  <2>2. PlansOn(r, "encode", k)
    BY <2>1 DEF PlansOn
  <2> QED
    BY <1>2, <1>3, <2>2
<1>11. CASE Encode(r)
  <2>1. PlansOn(r, "planned", 0)
    BY <1>11 DEF Encode, PlansOn
  <2> QED
    BY <1>2, <1>3, <2>1
<1> QED
  BY <1>4, <1>5, <1>6, <1>7, <1>8, <1>9, <1>10, <1>11 DEF PlanStep

\* A step of rank r leaves the calls of the other ranks as they are.
LEMMA OthersInCall ==
    ASSUME InOrder, ControlOK, NEW r \in Ranks, Step(r)
    PROVE  /\ UNCHANGED <<program, routing, gathered>>
           /\ \A q \in Ranks \ {r} : /\ call'[q] = call[q] /\ step'[q] = step[q]
                                     /\ pc'[q] = pc[q] /\ round'[q] = round[q]
                                     /\ pending'[q] = pending[q] /\ arrived'[q] = arrived[q]
<1>1. /\ DOMAIN call = Ranks /\ DOMAIN step = Ranks /\ DOMAIN pending = Ranks
      /\ DOMAIN arrived = Ranks /\ arrived \in [Ranks -> Nat]
  BY DEF ControlOK
<1>2. DOMAIN pc = Ranks /\ DOMAIN round = Ranks
  BY DEF InOrder, PlanningTypeOK
<1>3. CASE Calls(r)
  <2>1. UNCHANGED <<program, routing, gathered, pc, round, pending>>
    BY <1>3 DEF Calls, turnVars, inputs
  <2> QED
    BY <1>1, <1>3, <2>1 DEF Calls
<1>4. CASE Launches(r)
  BY <1>1, <1>2, <1>4 DEF Launches, StartPlanning, Goto, inputs
<1>5. CASE Plan(r)
  <2>1. PlanStep(r) /\ UNCHANGED <<program, call, pending>>
        /\ \E label : step' = [step EXCEPT ![r] = label]
    BY <1>5 DEF Plan, GoOn
  <2>2. PICK label \in PlanLabels, k \in {0, 1} : PlansOn(r, label, k)
    BY <1>1, <2>1, PlanMoves
  <2>3. UNCHANGED <<routing, gathered, round>>
    BY <1>1, <2>1, PlanMoves
  <2> QED
    BY <1>1, <1>2, <2>1, <2>2, <2>3 DEF PlansOn
<1>6. CASE MovesOn(r)
  <2>1. PICK from, to, k : StepsTo(r, from, to, k)
    BY <1>6 DEF MovesOn
  <2>2. UNCHANGED <<program, call, routing, gathered, pc, round>>
    BY <2>1 DEF StepsTo, turnVars, inputs
  <2>3. PICK s : pending' = [pending EXCEPT ![r] = s]
    BY <2>1 DEF StepsTo
  <2> QED
    BY <1>1, <2>1, <2>2, <2>3 DEF StepsTo
<1> QED
  BY <1>3, <1>4, <1>5, <1>6, ControlSteps

LEMMA ControlKept == InOrder /\ ControlOK /\ [BufferNext]_vars => ControlOK'
<1> SUFFICES ASSUME InOrder, ControlOK, [BufferNext]_vars PROVE ControlOK'
  OBVIOUS
<1>1. ASSUME NEW q \in Ranks, program' = program, call'[q] = call[q], step'[q] = step[q],
             pc'[q] = pc[q], round'[q] = round[q], pending'[q] = pending[q]
      PROVE  InCall(q)'
  <2>1. InCall(q) /\ Op(q)' = Op(q)
    BY <1>1 DEF ControlOK, Op
  <2>2. FreshTo(call[q])' = FreshTo(call[q]) /\ FreshTo(call[q] - 1)' = FreshTo(call[q] - 1)
    BY <1>1 DEF FreshTo
  <2> QED
    BY <1>1, <2>1, <2>2 DEF InCall
<1>2. CASE UNCHANGED vars
  <2>1. UNCHANGED <<program, call, step, pc, round, pending, arrived>>
    BY <1>2 DEF vars, planVars, bufferVars
  <2> QED
    BY <1>1, <2>1 DEF ControlOK
<1>3. ASSUME NEW r \in Ranks, Step(r) PROVE ControlOK'
  <2>0. /\ program \in Programs /\ call \in [Ranks -> 0 .. Len(program.ops)]
        /\ step \in [Ranks -> BufferSteps] /\ pending \in [Ranks -> SUBSET Slots]
        /\ arrived \in [Ranks -> Nat] /\ InCall(r)
    BY DEF ControlOK
  <2>1. /\ program' = program
        /\ \A q \in Ranks \ {r} : InCall(q)'
    BY <1>1, <1>3, OthersInCall
  <2>2. DOMAIN pc = Ranks /\ DOMAIN round = Ranks /\ pc[r] \in PlanLabels
        /\ (round[r] = 0 <=> pc[r] = "idle")
    BY DEF InOrder, PlanningTypeOK
  <2>3. PICK n \in 0 .. Len(program.ops) : n = call[r]
    BY <2>0
  <2>4. n \in Nat /\ Len(program.ops) \in Nat
    BY <2>3, ProgramFacts
  <2>5. \A m : FreshTo(m)' = FreshTo(m)
    BY <2>1 DEF FreshTo
  <2>6. CASE Calls(r)
    <3>1. /\ n < Len(program.ops) /\ call'[r] = n + 1 /\ call' \in [Ranks -> 0 .. Len(program.ops)]
      BY <2>0, <2>3, <2>4, <2>6 DEF Calls
    <3>2. step' \in [Ranks -> BufferSteps] /\ arrived' \in [Ranks -> Nat]
          /\ step'[r] = IF program.ops[n + 1].sync THEN "sync" ELSE "start"
      <4>1. PICK label \in BufferSteps :
                /\ step' = [step EXCEPT ![r] = label]
                /\ label = IF program.ops[n + 1].sync THEN "sync" ELSE "start"
        BY <2>3, <2>6 DEF Calls, BufferSteps
      <4>2. step' \in [Ranks -> BufferSteps] /\ step'[r] = label
        BY <2>0, <4>1
      <4>3. arrived' = [arrived EXCEPT ![r] = arrived[r] + 1] \/ arrived' = arrived
        BY <2>6 DEF Calls
      <4>4. arrived' \in [Ranks -> Nat]
        <5>1. arrived[r] + 1 \in Nat
          BY <2>0
        <5>2. CASE arrived' = [arrived EXCEPT ![r] = arrived[r] + 1]
          BY <2>0, <5>1, <5>2
        <5>3. CASE arrived' = arrived
          BY <2>0, <5>3
        <5> QED
          BY <4>3, <5>2, <5>3
      <4> QED
        BY <4>1, <4>2, <4>4
    <3>3. UNCHANGED <<pc, round, pending>>
      BY <2>6 DEF Calls, turnVars
    <3>4. Op(r)' = program.ops[n + 1] /\ Op(r) = program.ops[n]
      BY <2>1, <2>3, <3>1 DEF Op
    <3>5. pc[r] \in {"idle", "planned"} /\ round[r] = FreshTo(n)
      BY <2>0, <2>3, <2>6 DEF InCall, Calls
    <3>6. program.ops[n + 1].kind = "fresh" \/ FreshTo(n + 1) = FreshTo(n)
      BY <2>4, FreshCounts
    <3>7. (n + 1) - 1 = n /\ n + 1 # 0
      BY <2>4
    <3>8. InCall(r)'
      BY <2>5, <3>1, <3>2, <3>3, <3>4, <3>5, <3>6, <3>7 DEF InCall, InDispatch, InCombine
    <3> QED
      BY <2>0, <2>1, <3>1, <3>2, <3>3, <3>8 DEF ControlOK
  <2>7. CASE Launches(r)
    <3>1. /\ step' = [step EXCEPT ![r] = "planning"] /\ pending' = [pending EXCEPT ![r] = Slots]
          /\ call' = call /\ step[r] \in {"start", "sync"} /\ Op(r).kind = "fresh"
          /\ round' = [round EXCEPT ![r] = round[r] + 1] /\ pc' = [pc EXCEPT ![r] = "publish_counts"]
          /\ UNCHANGED arrived
      BY <2>7 DEF Launches, Started, StartPlanning, Goto
    <3>2. round[r] = FreshTo(n - 1) /\ n # 0
      BY <2>0, <2>3, <3>1 DEF InCall
    <3>3. n - 1 \in Nat /\ (n - 1) + 1 = n
      BY <2>4, <3>2
    <3>4. FreshTo(n) = FreshTo(n - 1) + 1
      BY <2>3, <3>1, <3>3, FreshCounts DEF Op
    <3>5. round'[r] = FreshTo(n) /\ pc'[r] = "publish_counts" /\ step'[r] = "planning"
          /\ pending'[r] = Slots /\ call'[r] = n
      BY <2>0, <2>2, <2>3, <3>1, <3>2, <3>4
    <3>6. Op(r)' = Op(r)
      BY <2>1, <3>1 DEF Op
    <3>7. InCall(r)'
      BY <2>5, <3>1, <3>2, <3>5, <3>6 DEF InCall, InDispatch, InCombine
    <3> QED
      BY <2>0, <2>1, <3>1, <3>7 DEF ControlOK, BufferSteps
  <2>8. CASE Plan(r)
    <3>1. PlanStep(r) /\ UNCHANGED <<program, call, pending>> /\ step[r] = "planning"
          /\ step' = [step EXCEPT ![r] = IF pc'[r] = "planned" THEN "scatter" ELSE "planning"]
      BY <2>8 DEF Plan, GoOn
    <3>2. PICK label \in PlanLabels, k \in {0, 1} : PlansOn(r, label, k)
      BY <2>0, <3>1, PlanMoves
    <3>3. UNCHANGED round
      BY <2>0, <3>1, PlanMoves
    <3>4. pc'[r] = label /\ label # "idle" /\ arrived' \in [Ranks -> Nat]
      BY <2>0, <2>2, <3>2 DEF PlansOn
    <3>5. step'[r] = IF label = "planned" THEN "scatter" ELSE "planning"
      BY <2>0, <3>1, <3>4
    <3>6. Op(r)' = Op(r)
      BY <3>1 DEF Op
    <3>7. InCall(r)'
      BY <2>0, <2>5, <3>1, <3>3, <3>4, <3>5, <3>6 DEF InCall, InDispatch, InCombine
    <3>8. step' \in [Ranks -> BufferSteps]
      BY <2>0, <3>1 DEF BufferSteps
    <3> QED
      BY <2>0, <2>1, <3>1, <3>4, <3>7, <3>8 DEF ControlOK
  <2>9. CASE MovesOn(r)
    <3>1. PICK from, to, k :
              /\ StepsTo(r, from, to, k)
              /\ \/ from \in {"start", "sync"} /\ to = "scatter" /\ Op(r).kind = "reuse"
                 \/ from = "scatter" /\ to \in {"scatter", "dispatched"}
                 \/ from = "dispatched" /\ to = "received"
                 \/ from = "received" /\ to = "computed"
                 \/ from \in {"start", "sync"} /\ to = "gather" /\ Op(r).kind = "combine"
                 \/ from = "gather" /\ to \in {"gather", "combined"}
      BY <2>9 DEF MovesOn
    <3>2. /\ step[r] = from /\ step'[r] = to /\ arrived' \in [Ranks -> Nat]
          /\ step' \in [Ranks -> BufferSteps] /\ pending' \in [Ranks -> SUBSET Slots]
      <4>1. step[r] = from /\ step' = [step EXCEPT ![r] = to] /\ k \in {0, 1}
            /\ arrived' = [arrived EXCEPT ![r] = arrived[r] + k]
        BY <3>1 DEF StepsTo
      <4>2. PICK s \in SUBSET Slots : pending' = [pending EXCEPT ![r] = s]
        BY <3>1 DEF StepsTo
      <4>3. to \in BufferSteps
        BY <3>1 DEF BufferSteps
      <4> QED
        BY <2>0, <4>1, <4>2, <4>3
    <3>3. UNCHANGED <<call, pc, round>> /\ Op(r)' = Op(r)
      BY <2>1, <3>1 DEF StepsTo, turnVars, Op
    <3>4. InCall(r)'
      BY <2>0, <2>5, <3>1, <3>2, <3>3 DEF InCall, InDispatch, InCombine
    <3> QED
      BY <2>0, <2>1, <3>2, <3>3, <3>4 DEF ControlOK
  <2> QED
    BY <1>3, <2>6, <2>7, <2>8, <2>9, ControlSteps
<1> QED
  BY <1>2, <1>3 DEF BufferNext

LEMMA InitControl == Init => ControlOK
<1> SUFFICES ASSUME Init PROVE ControlOK
  OBVIOUS
<1>1. program \in Programs
  BY DEF Init
<1>2. Len(program.ops) \in Nat
  BY <1>1, ProgramsAssumption DEF ProgramType
<1>3. \A r \in Ranks : step[r] = "idle" /\ call[r] = 0 /\ pc[r] = "idle" /\ round[r] = 0
  BY DEF Init, PlanInit
<1>4. \A r \in Ranks : InCall(r)
  BY <1>3, FreshCounts DEF InCall, InDispatch, InCombine
<1> QED
  BY <1>1, <1>2, <1>4 DEF Init, PlanInit, ControlOK, BufferSteps

-----------------------------------------------------------------------------
(* Dispatch and combine on all ranks: the barriers. *)

\* Where a rank is in its program: its call, and the part of the call.
Part(r) ==
    IF step[r] = "idle" THEN 0
    ELSE IF step[r] \in {"start", "sync"} THEN 1
    ELSE IF step[r] = "planning"
         THEN IF pc[r] = "publish_counts" THEN 1
              ELSE IF pc[r] = "publish_sources" THEN 3
              ELSE IF pc[r] = "publish_scratch" THEN 4
              ELSE IF pc[r] = "encode" THEN 5
              ELSE 2
    ELSE IF step[r] = "scatter" THEN 5
    ELSE 6
At(r) == 8 * call[r] + Part(r)

\* The parts of call n that begin with a barrier, and all barriers of the program.
Meets(n, k) ==
    \/ k = 1 /\ program.ops[n].sync
    \/ k = 2 /\ program.ops[n].kind = "fresh" /\ Extra(FreshTo(n)) = 1
    \/ k \in {3, 4} /\ program.ops[n].kind = "fresh"
    \/ k = 5 /\ program.ops[n].kind = "fresh" /\ NumRanks > 1
    \/ k = 6
Meetings ==
    {b \in 0 .. (8 * Len(program.ops) + 6) :
        \E n \in 1 .. Len(program.ops), k \in 1 .. 6 : b = 8 * n + k /\ Meets(n, k)}

\* The barriers up to a place of the program: those a rank has arrived at.
MetBy(p) == {b \in Meetings : b <= p}

\* The last barrier that a rank has passed for certain.
LastMet(r) ==
    IF step[r] \in {"received", "computed", "combined"} THEN 8 * call[r] + 6
    ELSE IF step[r] = "planning" /\ pc[r] = "publish_scratch" THEN 8 * call[r] + 3
    ELSE IF step[r] = "planning" /\ pc[r] = "encode" THEN 8 * call[r] + 4
    ELSE IF step[r] \in {"scatter", "dispatched"}
         THEN IF Op(r).kind = "fresh" THEN 8 * call[r] + 4 ELSE 8 * call[r] + 1
    ELSE IF call[r] < 2 THEN 0 ELSE 8 * call[r] - 2

\* Every rank has arrived at the barriers up to its place, and none is behind a
\* barrier that another has passed.
InMeeting ==
    /\ \A r \in Ranks : arrived[r] = Cardinality(MetBy(At(r)))
    /\ \A r, q \in Ranks : LastMet(q) <= At(r)

\* A rank goes from one place to another, where no barrier is in between.
Advances(r, m, k) ==
    /\ At(r)' = m /\ m >= At(r)
    /\ arrived'[r] = arrived[r] + k
    /\ \A b \in Meetings : b <= At(r) \/ b >= m
    /\ k = IF m > At(r) /\ m \in Meetings THEN 1 ELSE 0

LEMMA AtIs ==
    ASSUME InOrder, ControlOK, NEW r \in Ranks
    PROVE  /\ call[r] \in Nat /\ call[r] \in 0 .. Len(program.ops) /\ Part(r) \in 0 .. 6
           /\ At(r) \in Nat /\ LastMet(r) \in Nat
           /\ 8 * call[r] <= At(r) /\ At(r) <= 8 * call[r] + 6
           /\ step[r] # "idle" => At(r) >= 8 * call[r] + 1
<1>1. call[r] \in 0 .. Len(program.ops) /\ Len(program.ops) \in Nat
  BY ProgramFacts DEF ControlOK
<1>2. PICK n \in Nat : n = call[r]
  BY <1>1
<1>3. Part(r) \in 0 .. 6 /\ (step[r] # "idle" => Part(r) # 0)
  BY DEF Part
<1>4. PICK k \in 0 .. 6 : k = Part(r)
  BY <1>3
<1>5. At(r) = 8 * n + k
  BY <1>2, <1>4 DEF At
<1>6. LastMet(r) \in Nat
  BY <1>2 DEF LastMet
<1>7. 8 * n <= At(r) /\ At(r) <= 8 * n + 6 /\ At(r) \in Nat /\ (k # 0 => At(r) >= 8 * n + 1)
  BY <1>5
<1> QED
  BY <1>1, <1>2, <1>3, <1>4, <1>6, <1>7

LEMMA MeetingAt ==
    ASSUME ControlOK, NEW n \in Nat, NEW k \in 0 .. 7
    PROVE  8 * n + k \in Meetings <=>
               n \in 1 .. Len(program.ops) /\ k \in 1 .. 6 /\ Meets(n, k)
<1>1. PICK len \in Nat : len = Len(program.ops)
  BY ProgramFacts
<1>2. ASSUME NEW m \in 1 .. len, NEW j \in 1 .. 6, 8 * n + k = 8 * m + j
      PROVE  m = n /\ j = k
  BY <1>2
<1>3. ASSUME n \in 1 .. len PROVE 8 * n + k \in 0 .. (8 * len + 7)
  BY <1>3
<1>4. ASSUME n \in 1 .. len, k \in 1 .. 6 PROVE 8 * n + k \in 0 .. (8 * len + 6)
  BY <1>4
<1>5. ASSUME 8 * n + k \in Meetings
      PROVE  n \in 1 .. len /\ k \in 1 .. 6 /\ Meets(n, k)
  <2>1. PICK m \in 1 .. len, j \in 1 .. 6 : 8 * n + k = 8 * m + j /\ Meets(m, j)
    BY <1>1, <1>5 DEF Meetings
  <2>2. m = n /\ j = k
    BY <1>2, <2>1
  <2> QED
    BY <2>1, <2>2
<1>6. ASSUME n \in 1 .. len, k \in 1 .. 6, Meets(n, k)
      PROVE  8 * n + k \in Meetings
  BY <1>1, <1>4, <1>6 DEF Meetings
<1> QED
  BY <1>1, <1>5, <1>6

\* Between two places of one call, or of a call and the next.
LEMMA NoneBetween ==
    ASSUME ControlOK, NEW n \in Nat, NEW j \in 0 .. 7, NEW k \in 0 .. 15,
           \A i \in 0 .. 7 : j < i /\ i < k => ~(i \in 1 .. 6 /\ Meets(n, i)),
           k > 8 => \A i \in 0 .. 7 : i < k - 8 => ~(i \in 1 .. 6 /\ Meets(n + 1, i)),
           NEW b \in Meetings
    PROVE  b <= 8 * n + j \/ b >= 8 * n + k
<1>1. PICK len \in Nat : len = Len(program.ops)
  BY ProgramFacts
<1>2. PICK m \in 1 .. len, i \in 1 .. 6 : b = 8 * m + i /\ Meets(m, i)
  BY <1>1 DEF Meetings
<1>3. CASE m = n
  BY <1>2, <1>3
<1>4. CASE m = n + 1
  <2>1. ~(i < k - 8) \/ ~(k > 8)
    BY <1>2, <1>4
  <2> QED
    BY <1>2, <1>4, <2>1
<1>5. CASE m # n /\ m # n + 1
  BY <1>2, <1>5
<1> QED
  BY <1>3, <1>4, <1>5

LEMMA MetFinite ==
    ASSUME ControlOK, NEW p \in Nat
    PROVE  IsFiniteSet(MetBy(p)) /\ Cardinality(MetBy(p)) \in Nat
<1>1. PICK last \in Nat : last = 8 * Len(program.ops) + 6
  BY ProgramFacts
<1>2. IsFiniteSet(0 .. last)
  BY FS_Interval
<1>3. MetBy(p) \subseteq 0 .. last
  BY <1>1 DEF MetBy, Meetings
<1> QED
  BY <1>2, <1>3, FS_Subset, FS_CardinalityType

\* Who has met as often as one who waits at a barrier has come as far.
LEMMA MetAsOften ==
    ASSUME ControlOK, NEW p \in Nat, NEW q \in Nat, q \in Meetings,
           Cardinality(MetBy(p)) >= Cardinality(MetBy(q))
    PROVE  p >= q
<1> SUFFICES ASSUME p < q PROVE FALSE
  OBVIOUS
<1>1. MetBy(p) \subseteq MetBy(q) /\ q \in MetBy(q) /\ q \notin MetBy(p)
  <2>1. \A b \in Meetings : b \in Nat
    BY ProgramFacts DEF Meetings
  <2>2. ASSUME NEW b \in MetBy(p) PROVE b \in MetBy(q)
    BY <2>1, <2>2 DEF MetBy
  <2>3. q \in MetBy(q) /\ q \notin MetBy(p)
    BY DEF MetBy
  <2> QED
    BY <2>2, <2>3
<1>2. MetBy(p) \subseteq MetBy(q) \ {q}
  BY <1>1
<1>3. /\ IsFiniteSet(MetBy(q) \ {q}) /\ Cardinality(MetBy(q) \ {q}) = Cardinality(MetBy(q)) - 1
      /\ Cardinality(MetBy(q)) \in Nat /\ Cardinality(MetBy(p)) \in Nat
  BY <1>1, MetFinite, FS_RemoveElement
<1>4. Cardinality(MetBy(p)) <= Cardinality(MetBy(q) \ {q})
  BY <1>2, <1>3, FS_Subset
<1> QED
  BY <1>3, <1>4

LEMMA MetMore ==
    ASSUME ControlOK, NEW p \in Nat, NEW m \in Nat, m >= p,
           \A b \in Meetings : b <= p \/ b >= m
    PROVE  Cardinality(MetBy(m)) =
               Cardinality(MetBy(p)) + (IF m > p /\ m \in Meetings THEN 1 ELSE 0)
<1>1. \A b \in Meetings : b \in Nat
  BY ProgramFacts DEF Meetings
<1>2. IsFiniteSet(MetBy(p)) /\ Cardinality(MetBy(p)) \in Nat
  BY MetFinite
<1>3. CASE m > p /\ m \in Meetings
  <2>1. ASSUME NEW b PROVE b \in MetBy(m) <=> b \in MetBy(p) \cup {m}
    <3>1. CASE b \in Meetings
      <4>1. b \in Nat /\ (b <= p \/ b >= m)
        BY <1>1, <3>1
      <4>2. b <= m <=> (b <= p \/ b = m)
        BY <1>3, <4>1
      <4> QED
        BY <3>1, <4>2 DEF MetBy
    <3>2. CASE b \notin Meetings
      BY <1>3, <3>2 DEF MetBy
    <3> QED
      BY <3>1, <3>2
  <2>2. MetBy(m) = MetBy(p) \cup {m}
    BY <2>1
  <2>3. m \notin MetBy(p)
    BY <1>3 DEF MetBy
  <2> QED
    BY <1>2, <1>3, <2>2, <2>3, FS_AddElement
<1>4. CASE ~(m > p /\ m \in Meetings)
  <2>1. MetBy(m) = MetBy(p)
    BY <1>1, <1>4 DEF MetBy
  <2> QED
    BY <1>2, <1>4, <2>1
<1> QED
  BY <1>3, <1>4

\* A rank that waits is at a barrier of the program, unless it waits for itself alone.
Waits(r) == step[r] \in CallBarriers \/ (step[r] = "planning" /\ pc[r] \in AtBarrier)

LEMMA WaitsAtMeeting ==
    ASSUME InOrder, ControlOK, NEW r \in Ranks, Waits(r)
    PROVE  At(r) \in Meetings \/ NumRanks = 1
<1>1. InCall(r) /\ call[r] \in 0 .. Len(program.ops) /\ Len(program.ops) \in Nat
  BY ProgramFacts DEF ControlOK
<1>2. PICK n \in 0 .. Len(program.ops) : n = call[r] /\ n # 0
  BY <1>1 DEF InCall, Waits, CallBarriers
<1>3. n \in 1 .. Len(program.ops) /\ n \in Nat /\ Op(r) = program.ops[n]
  BY <1>1, <1>2 DEF Op
<1>4. NumRanks # 1 => NumRanks > 1
  BY NumRanksAssumption
<1>5. NumRanks = 1 \/ Meets(n, Part(r))
  <2>1. CASE step[r] \in CallBarriers
    BY <1>1, <1>3, <2>1 DEF CallBarriers, Part, Meets, InCall
  <2>2. CASE step[r] = "planning" /\ pc[r] \in AtBarrier
    <3>1. Op(r).kind = "fresh" /\ round[r] = FreshTo(n)
      BY <1>1, <1>2, <2>2 DEF InCall
    <3>2. pc[r] = "gather_counts" => Extra(FreshTo(n)) = 1
      BY <3>1 DEF InOrder, PlanningTypeOK, HasCounts, Extra
    <3> QED
      BY <1>3, <1>4, <2>2, <3>1, <3>2 DEF AtBarrier, Part, Meets
  <2> QED
    BY <2>1, <2>2 DEF Waits
<1>6. PICK k \in 0 .. 7 : k = Part(r) /\ k \in 1 .. 6
  BY DEF Part, Waits, CallBarriers
<1>7. At(r) = 8 * n + k
  BY <1>2, <1>6 DEF At
<1> QED
  BY <1>3, <1>5, <1>6, <1>7, MeetingAt

\* When its barrier opens, the other ranks are at it, or beyond.
LEMMA OpenBuffer ==
    ASSUME InOrder, ControlOK, InMeeting, NEW r \in Ranks, Waits(r), BarrierOpen(r), NEW q \in Ranks
    PROVE  At(q) >= At(r)
<1>1. At(r) \in Nat /\ At(q) \in Nat
  BY AtIs
<1>2. CASE NumRanks = 1
  <2>1. q = r
    BY <1>2 DEF Ranks
  <2> QED
    BY <1>1, <2>1
<1>3. CASE At(r) \in Meetings
  <2>1. Cardinality(MetBy(At(q))) >= Cardinality(MetBy(At(r)))
    BY DEF InMeeting, BarrierOpen
  <2> QED
    BY <1>1, <1>3, <2>1, MetAsOften
<1> QED
  BY <1>2, <1>3, WaitsAtMeeting

\* Each step of a rank is one place further, or stays; and it passes no barrier but
\* the one it waited at.
LEMMA StepAdvancesAt ==
    ASSUME InOrder, ControlOK, NEW r \in Ranks, Step(r)
    PROVE  /\ \E m \in Nat, k \in {0, 1} : Advances(r, m, k)
           /\ Waits(r) => BarrierOpen(r)
           /\ \/ LastMet(r)' = LastMet(r)
              \/ LastMet(r)' = At(r) /\ Waits(r)
<1>0. /\ InCall(r) /\ call \in [Ranks -> 0 .. Len(program.ops)] /\ Len(program.ops) \in Nat
      /\ step \in [Ranks -> BufferSteps] /\ arrived \in [Ranks -> Nat]
      /\ DOMAIN pc = Ranks
  BY ProgramFacts DEF ControlOK, InOrder, PlanningTypeOK
<1>1. PICK n \in Nat : n = call[r] /\ n \in 0 .. Len(program.ops)
  BY <1>0
<1>2. arrived[r] \in Nat /\ At(r) \in Nat
  BY <1>0, AtIs
<1>3. /\ step[r] # "idle" => n \in 1 .. Len(program.ops)
      /\ Op(r) = program.ops[n]
  BY <1>0, <1>1 DEF InCall, Op
<1>4. CASE Calls(r)
  <2>1. n + 1 \in 1 .. Len(program.ops) /\ n + 1 \in Nat
    BY <1>0, <1>1, <1>4 DEF Calls
  <2>2. PICK k \in {0, 1} : /\ arrived'[r] = arrived[r] + k
                            /\ k = IF program.ops[n + 1].sync THEN 1 ELSE 0
                            /\ step'[r] = IF program.ops[n + 1].sync THEN "sync" ELSE "start"
    BY <1>0, <1>1, <1>2, <1>4 DEF Calls
  <2>3. call'[r] = n + 1 /\ UNCHANGED pc /\ step[r] \in {"idle", "computed", "combined"}
    BY <1>0, <1>1, <1>4 DEF Calls, turnVars
  <2>4. At(r)' = 8 * (n + 1) + 1 /\ LastMet(r)' = IF n + 1 < 2 THEN 0 ELSE 8 * (n + 1) - 2
    BY <2>2, <2>3 DEF At, Part, LastMet
  <2>5. /\ At(r) = IF n = 0 THEN 0 ELSE 8 * n + 6
        /\ LastMet(r) = IF n = 0 THEN 0 ELSE 8 * n + 6
    BY <1>0, <1>1, <2>3 DEF InCall, At, Part, LastMet
  <2>6. ~Waits(r)
    BY <2>3 DEF Waits, CallBarriers
  <2>7. 8 * (n + 1) + 1 \in Meetings <=> program.ops[n + 1].sync
    <3>1. PICK next \in Nat, one \in 0 .. 7 : next = n + 1 /\ one = 1
      BY <2>1
    <3>2. 8 * next + one \in Meetings <=>
              next \in 1 .. Len(program.ops) /\ one \in 1 .. 6 /\ Meets(next, one)
      BY <3>1, MeetingAt
    <3>3. Meets(next, one) <=> program.ops[n + 1].sync
      BY <3>1 DEF Meets
    <3> QED
      BY <2>1, <3>1, <3>2, <3>3
  <2>8. \A b \in Meetings : b <= At(r) \/ b >= 8 * (n + 1) + 1
    <3>1. CASE n = 0
      <4>1. \A b \in Meetings : b <= 8 * 0 + 0 \/ b >= 8 * 0 + 9
        BY <3>1, NoneBetween, <1>0 DEF Meetings
      <4> QED
        BY <2>5, <3>1, <4>1
    <3>2. CASE n # 0
      <4>1. PICK j \in 0 .. 7, k9 \in 0 .. 15 : j = 6 /\ k9 = 9
        OBVIOUS
      <4>2. \A i \in 0 .. 7 : j < i /\ i < k9 => ~(i \in 1 .. 6 /\ Meets(n, i))
        BY <4>1
      <4>3. k9 > 8 => \A i \in 0 .. 7 : i < k9 - 8 => ~(i \in 1 .. 6 /\ Meets(n + 1, i))
        BY <4>1
      <4>4. \A b \in Meetings : b <= 8 * n + j \/ b >= 8 * n + k9
        BY <4>2, <4>3, NoneBetween
      <4> QED
        BY <2>5, <3>2, <4>1, <4>4
    <3> QED
      BY <3>1, <3>2
  <2>9. 8 * (n + 1) + 1 > At(r) /\ 8 * (n + 1) + 1 \in Nat
    BY <2>5
  <2>10. Advances(r, 8 * (n + 1) + 1, k)
    BY <2>2, <2>4, <2>7, <2>8, <2>9, <1>2 DEF Advances
  <2>11. LastMet(r)' = LastMet(r)
    BY <2>4, <2>5
  <2> QED
    BY <2>6, <2>9, <2>10, <2>11
\* Within one call, from part j to part k of it, which is a barrier or not.
<1>5. ASSUME NEW j \in 0 .. 6, NEW m \in 0 .. 6, NEW k \in {0, 1}, j <= m,
             At(r) = 8 * n + j, At(r)' = 8 * n + m, step[r] # "idle",
             arrived'[r] = arrived[r] + k,
             \A i \in 1 .. 6 : j < i /\ i < m => ~Meets(n, i),
             k = IF m > j /\ Meets(n, m) THEN 1 ELSE 0
      PROVE  \E to \in Nat, c \in {0, 1} : Advances(r, to, c)
  <2>1. 8 * n + m \in Meetings <=> (m \in 1 .. 6 /\ Meets(n, m))
    <3>1. m \in 0 .. 7
      OBVIOUS
    <3> QED
      BY <1>3, <1>5, <3>1, MeetingAt
  <2>2. \A b \in Meetings : b <= 8 * n + j \/ b >= 8 * n + m
    BY <1>5, NoneBetween
  <2>3. 8 * n + m \in Nat /\ 8 * n + m >= 8 * n + j /\ (8 * n + m > 8 * n + j <=> m > j)
    BY <1>5
  <2>4. k = IF 8 * n + m > At(r) /\ 8 * n + m \in Meetings THEN 1 ELSE 0
    BY <1>5, <2>1, <2>3
  <2>5. Advances(r, 8 * n + m, k)
    BY <1>5, <2>2, <2>3, <2>4 DEF Advances
  <2> QED
    BY <2>3, <2>5
<1>6. CASE Launches(r)
  <2>1. /\ step[r] \in {"start", "sync"} /\ step'[r] = "planning" /\ pc'[r] = "publish_counts"
        /\ UNCHANGED <<call, arrived>>
    BY <1>0, <1>6 DEF Launches, Started, StartPlanning, Goto
  <2>2. At(r) = 8 * n + 1 /\ At(r)' = 8 * n + 1
    BY <1>1, <2>1 DEF At, Part
  <2>3. \E to \in Nat, c \in {0, 1} : Advances(r, to, c)
    BY <1>2, <1>5, <2>1, <2>2
  <2>4. LastMet(r)' = LastMet(r)
    BY <2>1 DEF LastMet
  <2>5. Waits(r) => BarrierOpen(r)
    BY <1>6, <2>1 DEF Waits, Launches, Started, PassesCall
  <2> QED
    BY <2>3, <2>4, <2>5
<1>7. CASE Plan(r)
  <2>1. PlanStep(r) /\ UNCHANGED <<program, call, pending>> /\ step[r] = "planning"
        /\ step' = [step EXCEPT ![r] = IF pc'[r] = "planned" THEN "scatter" ELSE "planning"]
    BY <1>7 DEF Plan, GoOn
  <2>2. PICK label \in PlanLabels, k \in {0, 1} : PlansOn(r, label, k)
    BY <1>0, <2>1, PlanMoves
  <2>3. Waits(r) => BarrierOpen(r)
    BY <1>0, <2>1, PlanMoves DEF Waits, CallBarriers
  <2>4. /\ pc'[r] = label /\ arrived'[r] = arrived[r] + k
        /\ step'[r] = IF label = "planned" THEN "scatter" ELSE "planning"
    BY <1>0, <2>1, <2>2 DEF PlansOn
  <2>5. /\ Op(r).kind = "fresh" /\ Op(r)' = Op(r) /\ round[r] = FreshTo(n)
    BY <1>0, <1>1, <2>1 DEF InCall, Op
  <2>6. HasCounts(r) <=> Extra(FreshTo(n)) = 0
    BY <2>5 DEF HasCounts, Extra
  <2>7. PICK j \in 0 .. 6, m \in 0 .. 6 : j = Part(r) /\ m = Part(r)'
    BY DEF Part
  <2>8. At(r) = 8 * n + j /\ At(r)' = 8 * n + m
    BY <1>1, <2>1, <2>7 DEF At
  <2>9. /\ j <= m /\ (\A i \in 1 .. 6 : j < i /\ i < m => ~Meets(n, i))
        /\ k = IF m > j /\ Meets(n, m) THEN 1 ELSE 0
    <3>1. Meets(n, 2) <=> ~HasCounts(r)
      BY <1>3, <2>5, <2>6 DEF Meets, Extra
    <3>2. Meets(n, 3) /\ Meets(n, 4) /\ (Meets(n, 5) <=> NumRanks > 1)
      BY <1>3, <2>5 DEF Meets
    <3>3. CASE pc[r] = "publish_counts"
      <4>1. j = 1 /\ m = 2 /\ (k = IF HasCounts(r) THEN 0 ELSE 1)
        BY <2>1, <2>2, <2>4, <2>7, <3>3 DEF Part, PlansOn
      <4> QED
        BY <3>1, <4>1
    <3>4. CASE pc[r] \in {"gather_counts", "balance"}
      <4>1. (j = 2 /\ m = 2 /\ k = 0)
        BY <2>1, <2>2, <2>4, <2>7, <3>4 DEF Part, PlansOn
      <4> QED
        BY <4>1
    <3>5. CASE pc[r] = "lay_out"
      <4>1. (j = 2 /\ m = 2 /\ k = 0) \/ (j = 2 /\ m = 3 /\ k = 1)
        BY <2>1, <2>2, <2>4, <2>7, <3>5 DEF Part, PlansOn
      <4> QED
        BY <3>2, <4>1
    <3>6. CASE pc[r] = "publish_sources"
      <4>1. (j = 3 /\ m = 3 /\ k = 0) \/ (j = 3 /\ m = 4 /\ k = 1)
        BY <2>1, <2>2, <2>4, <2>7, <3>6 DEF Part, PlansOn
      <4> QED
        BY <3>2, <4>1
    <3>7. CASE pc[r] = "publish_scratch"
      <4>1. j = 4 /\ m = 5 /\ k = IF NumRanks > 1 THEN 1 ELSE 0
        BY <2>1, <2>2, <2>4, <2>7, <3>7 DEF Part, PlansOn
      <4> QED
        BY <3>2, <4>1
    <3>8. CASE pc[r] = "encode"
      <4>1. j = 5 /\ m = 5 /\ k = 0
        BY <2>1, <2>2, <2>4, <2>7, <3>8 DEF Part, PlansOn
      <4> QED
        BY <4>1
    <3> QED
      BY <2>2, <3>3, <3>4, <3>5, <3>6, <3>7, <3>8 DEF PlansOn
  <2>10. \E to \in Nat, c \in {0, 1} : Advances(r, to, c)
    BY <1>5, <2>1, <2>4, <2>8, <2>9
  <2>11. LastMet(r)' = LastMet(r) \/ (LastMet(r)' = At(r) /\ pc[r] \in AtBarrier)
    <3>1. CASE pc[r] \in {"publish_counts", "gather_counts", "balance", "lay_out"}
      <4>1. label \in {"gather_counts", "balance", "lay_out", "raised", "publish_sources"}
        BY <2>2, <3>1 DEF PlansOn
      <4> QED
        <5>1. step'[r] = "planning" /\ call'[r] = call[r]
              /\ pc'[r] \notin {"publish_scratch", "encode"}
              /\ step[r] = "planning" /\ pc[r] \notin {"publish_scratch", "encode"}
          BY <2>1, <2>4, <3>1, <4>1
        <5> QED
          BY <5>1 DEF LastMet
    <3>2. CASE pc[r] = "publish_sources"
      <4>1. At(r) = 8 * n + 3 /\ label \in {"publish_sources", "publish_scratch"}
        BY <1>1, <2>1, <2>2, <3>2 DEF PlansOn, At, Part
      <4> QED
        BY <1>1, <2>1, <2>4, <3>2, <4>1 DEF LastMet, AtBarrier
    <3>3. CASE pc[r] = "publish_scratch"
      <4>1. At(r) = 8 * n + 4 /\ label = "encode"
        BY <1>1, <2>1, <2>2, <3>3 DEF PlansOn, At, Part
      <4> QED
        BY <1>1, <2>1, <2>4, <3>3, <4>1 DEF LastMet, AtBarrier
    <3>4. CASE pc[r] = "encode"
      <4>1. label = "planned"
        BY <2>2, <3>4 DEF PlansOn
      <4> QED
        <5>1. step'[r] = "scatter" /\ call'[r] = call[r] /\ Op(r)'.kind = "fresh"
              /\ step[r] = "planning" /\ pc[r] = "encode"
          BY <2>1, <2>4, <2>5, <3>4, <4>1
        <5> QED
          BY <5>1 DEF LastMet
    <3> QED
      BY <2>2, <3>1, <3>2, <3>3, <3>4 DEF PlansOn
  <2> QED
    BY <2>1, <2>3, <2>10, <2>11 DEF Waits
<1>8. CASE MovesOn(r)
  <2>1. PICK from, to, k :
            /\ StepsTo(r, from, to, k)
            /\ \/ from \in {"start", "sync"} /\ to = "scatter" /\ k = 0 /\ Op(r).kind = "reuse"
               \/ from = "scatter" /\ to = "scatter" /\ k = 0
               \/ from = "scatter" /\ to = "dispatched" /\ k = 1
               \/ from = "dispatched" /\ to = "received" /\ k = 0
               \/ from = "received" /\ to = "computed" /\ k = 0
               \/ from \in {"start", "sync"} /\ to = "gather" /\ k = 1 /\ Op(r).kind = "combine"
               \/ from = "gather" /\ to \in {"gather", "combined"} /\ k = 0
    BY <1>8 DEF MovesOn
  <2>2. /\ step[r] = from /\ step'[r] = to /\ k \in {0, 1} /\ arrived'[r] = arrived[r] + k
        /\ UNCHANGED <<program, call, pc>> /\ (from \in CallBarriers => BarrierOpen(r))
    BY <1>0, <2>1 DEF StepsTo, turnVars
  <2>3. Waits(r) => BarrierOpen(r)
    <3>1. step[r] # "planning"
      BY <2>1, <2>2
    <3> QED
      BY <2>2, <3>1 DEF Waits
  <2>4. Op(r)' = Op(r)
    BY <2>2 DEF Op
  <2>5. PICK j \in 0 .. 6, m \in 0 .. 6 : j = Part(r) /\ m = Part(r)'
    BY DEF Part
  <2>6. At(r) = 8 * n + j /\ At(r)' = 8 * n + m
    BY <1>1, <2>2, <2>5 DEF At
  <2>7. /\ j <= m /\ (\A i \in 1 .. 6 : j < i /\ i < m => ~Meets(n, i))
        /\ k = IF m > j /\ Meets(n, m) THEN 1 ELSE 0
    <3>1. CASE from \in {"start", "sync"} /\ to = "scatter" /\ k = 0 /\ Op(r).kind = "reuse"
      <4>1. j = 1 /\ m = 5
        BY <2>2, <2>5, <3>1 DEF Part
      <4>2. \A i \in 2 .. 5 : ~Meets(n, i)
        BY <1>3, <3>1 DEF Meets
      <4> QED
        BY <3>1, <4>1, <4>2
    <3>2. CASE from = "scatter" /\ to = "dispatched" /\ k = 1
      <4>1. j = 5 /\ m = 6
        BY <2>2, <2>5, <3>2 DEF Part
      <4> QED
        BY <3>2, <4>1 DEF Meets
    <3>3. CASE from \in {"start", "sync"} /\ to = "gather" /\ k = 1 /\ Op(r).kind = "combine"
      <4>1. j = 1 /\ m = 6
        BY <2>2, <2>5, <3>3 DEF Part
      <4>2. \A i \in 2 .. 5 : ~Meets(n, i)
        BY <1>3, <3>3 DEF Meets
      <4>3. Meets(n, 6)
        BY DEF Meets
      <4> QED
        BY <3>3, <4>1, <4>2, <4>3
    <3>4. CASE /\ from \in {"scatter", "dispatched", "received", "gather"}
               /\ to \in {"scatter", "received", "computed", "gather", "combined"}
               /\ (from = "scatter" => to = "scatter") /\ k = 0
               /\ (to = "scatter" => from = "scatter")
      <4>1. j = m
        BY <2>2, <2>5, <3>4 DEF Part
      <4> QED
        BY <3>4, <4>1
    <3> QED
      BY <2>1, <3>1, <3>2, <3>3, <3>4
  <2>8. \E to2 \in Nat, c \in {0, 1} : Advances(r, to2, c)
    <3>1. step[r] # "idle"
      BY <2>1, <2>2
    <3> QED
      BY <1>5, <2>2, <2>6, <2>7, <3>1
  <2>9. LastMet(r)' = LastMet(r) \/ (LastMet(r)' = At(r) /\ step[r] \in CallBarriers)
    <3>1. CASE from \in {"start", "sync"} /\ to = "scatter" /\ Op(r).kind = "reuse"
      <4>1. step[r] = "sync"
        BY <1>0, <1>3, <2>2, <3>1, ProgramFacts DEF InCall
      <4>2. At(r) = 8 * n + 1
        BY <1>1, <4>1 DEF At, Part
      <4>3. LastMet(r)' = 8 * n + 1
        BY <1>1, <2>2, <2>4, <3>1 DEF LastMet
      <4> QED
        BY <4>1, <4>2, <4>3 DEF CallBarriers
    <3>2. CASE from = "scatter" /\ to \in {"scatter", "dispatched"}
      BY <2>2, <2>4, <3>2 DEF LastMet
    <3>3. CASE from \in {"dispatched", "gather"} /\ to \in {"received", "combined"}
      <4>1. At(r) = 8 * n + 6
        BY <1>1, <2>2, <3>3 DEF At, Part
      <4>2. LastMet(r)' = 8 * n + 6
        BY <1>1, <2>2, <3>3 DEF LastMet
      <4> QED
        BY <2>2, <3>3, <4>1, <4>2 DEF CallBarriers
    <3>4. CASE from = "received" /\ to = "computed"
      BY <2>2, <3>4 DEF LastMet
    <3>5. CASE from \in {"start", "sync", "gather"} /\ to = "gather"
      BY <2>2, <3>5 DEF LastMet
    <3> QED
      BY <2>1, <3>1, <3>2, <3>3, <3>4, <3>5
  <2> QED
    BY <2>3, <2>8, <2>9 DEF Waits
<1> QED
  BY <1>4, <1>6, <1>7, <1>8, ControlSteps

LEMMA MeetingsSame ==
    ASSUME UNCHANGED <<program, gathered>>
    PROVE  Meetings' = Meetings /\ \A p : MetBy(p)' = MetBy(p)
<1>1. \A n : FreshTo(n)' = FreshTo(n)
  BY DEF FreshTo
<1>2. \A n, k : Meets(n, k)' <=> Meets(n, k)
  BY <1>1 DEF Meets, Extra
<1>3. Meetings' = Meetings
  BY <1>2 DEF Meetings
<1> QED
  BY <1>3 DEF MetBy

LEMMA MeetingKept == InOrder /\ ControlOK /\ InMeeting /\ [BufferNext]_vars => InMeeting'
<1> SUFFICES ASSUME InOrder, ControlOK, InMeeting, [BufferNext]_vars PROVE InMeeting'
  OBVIOUS
<1>1. ASSUME NEW q \in Ranks, program' = program, call'[q] = call[q], step'[q] = step[q],
             pc'[q] = pc[q]
      PROVE  At(q)' = At(q) /\ LastMet(q)' = LastMet(q)
  <2>1. Op(q)' = Op(q)
    BY <1>1 DEF Op
  <2> QED
    BY <1>1, <2>1 DEF At, Part, LastMet
<1>2. CASE UNCHANGED vars
  <2>1. UNCHANGED <<program, call, step, pc, arrived, gathered>>
    BY <1>2 DEF vars, planVars, bufferVars, inputs
  <2>2. \A p : MetBy(p)' = MetBy(p)
    BY <2>1, MeetingsSame
  <2>3. \A q \in Ranks : At(q)' = At(q) /\ LastMet(q)' = LastMet(q)
    BY <1>1, <2>1
  <2>4. \A q \in Ranks : MetBy(At(q))' = MetBy(At(q))
    BY <2>2, <2>3 DEF MetBy
  <2> QED
    BY <2>1, <2>3, <2>4 DEF InMeeting
<1>3. ASSUME NEW r \in Ranks, Step(r) PROVE InMeeting'
  <2>1. /\ UNCHANGED <<program, routing, gathered>>
        /\ \A q \in Ranks \ {r} : /\ At(q)' = At(q) /\ LastMet(q)' = LastMet(q)
                                  /\ arrived'[q] = arrived[q]
    BY <1>1, <1>3, OthersInCall
  <2>2. \A p : MetBy(p)' = MetBy(p)
    BY <2>1, MeetingsSame
  <2>3. PICK m \in Nat, k \in {0, 1} : Advances(r, m, k)
    BY <1>3, StepAdvancesAt
  <2>4. PICK at \in Nat : at = At(r)
    BY AtIs
  <2>5. Cardinality(MetBy(m)) = Cardinality(MetBy(at)) + k /\ arrived'[r] = Cardinality(MetBy(at)) + k
    BY <2>3, <2>4, MetMore DEF Advances, InMeeting
  <2>6. ASSUME NEW q \in Ranks PROVE arrived'[q] = Cardinality(MetBy(At(q)))'
    <3>1. CASE q = r
      <4>1. At(r)' = m
        BY <2>3 DEF Advances
      <4>2. MetBy(At(r))' = MetBy(m)
        BY <2>1, <4>1, MeetingsSame DEF MetBy
      <4> QED
        BY <2>5, <3>1, <4>2
    <3>2. CASE q # r
      <4>1. At(q)' = At(q)
        BY <2>1, <3>2
      <4>2. MetBy(At(q))' = MetBy(At(q))
        BY <2>1, <4>1, MeetingsSame DEF MetBy
      <4> QED
        BY <2>1, <3>2, <4>2 DEF InMeeting
    <3> QED
      BY <3>1, <3>2
  <2>7. ASSUME NEW p \in Ranks PROVE At(p) \in Nat /\ At(p)' \in Nat /\ At(p)' >= At(p)
    <3>1. At(p) \in Nat
      BY AtIs
    <3> QED
      BY <2>1, <2>3, <2>4, <3>1 DEF Advances
  <2>8. ASSUME NEW p \in Ranks, NEW q \in Ranks PROVE LastMet(q)' <= At(p)'
    <3>1. LastMet(q) <= At(p) /\ LastMet(q) \in Nat
      BY AtIs DEF InMeeting
    <3>2. CASE LastMet(q)' = LastMet(q)
      BY <2>7, <3>1, <3>2
    <3>3. CASE q = r /\ LastMet(r)' = At(r) /\ Waits(r)
      <4>1. At(p) >= At(r)
        BY <1>3, <3>3, StepAdvancesAt, OpenBuffer
      <4> QED
        BY <2>4, <2>7, <3>3, <4>1
    <3> QED
      BY <1>3, <2>1, <3>2, <3>3, StepAdvancesAt
  <2> QED
    BY <2>6, <2>8 DEF InMeeting
<1> QED
  BY <1>2, <1>3 DEF BufferNext

\* A planning rank waits for the places of planning of the others, too.
LEMMA OpenPlanning ==
    ASSUME InOrder, ControlOK, InMeeting, NEW r \in Ranks, step[r] = "planning",
           pc[r] \in AtBarrier, BarrierOpen(r)
    PROVE  AllAt(r)
<1> SUFFICES ASSUME NEW q \in Ranks PROVE Place(q) >= Place(r)
  BY DEF AllAt
<1>1. At(q) >= At(r)
  BY OpenBuffer DEF Waits
<1>2. /\ call[r] \in 0 .. Len(program.ops) /\ call[q] \in 0 .. Len(program.ops)
      /\ Len(program.ops) \in Nat /\ InCall(r) /\ InCall(q) /\ step[q] \in BufferSteps
  BY ProgramFacts DEF ControlOK
<1>3. PICK c \in Nat, d \in Nat : c = call[r] /\ d = call[q]
  BY <1>2
<1>4. PICK j \in 0 .. 6, k \in 0 .. 6 :
          j = Part(r) /\ k = Part(q) /\ At(r) = 8 * c + j /\ At(q) = 8 * d + k
  BY <1>3, AtIs DEF At
<1>5. d > c \/ (d = c /\ k >= j)
  BY <1>1, <1>4
<1>6. /\ round[r] \in Nat /\ round[q] \in Nat /\ Place(r) <= 8 * round[r] + 7
      /\ 8 * round[q] <= Place(q) /\ Place(r) \in Nat /\ Place(q) \in Nat
      /\ pc[q] \in PlanLabels /\ round[r] > 0
      /\ (pc[q] = "idle" => round[q] = 0)
  BY PlaceTypes DEF AtBarrier
<1>7. Op(r).kind = "fresh" /\ round[r] = FreshTo(c) /\ c # 0
  BY <1>2, <1>3 DEF InCall
<1>8. FreshTo(c) \in Nat /\ FreshTo(d) \in Nat
  BY FreshCounts
<1>9. CASE round[q] > round[r]
  BY <1>6, <1>9
<1>10. CASE round[q] = round[r] /\ pc[q] = "planned"
  <2>1. Place(q) = 8 * round[q] + 7
    BY <1>10 DEF Place
  <2> QED
    BY <1>6, <1>10, <2>1
<1>11. CASE d > c
  <2>1. d - 1 \in Nat /\ d - 1 >= c /\ (d - 1) + 1 = d
    BY <1>5, <1>11
  <2>2. FreshTo(d - 1) \in Nat /\ FreshTo(d - 1) >= FreshTo(c) /\ FreshTo(d) >= FreshTo(c)
    BY <1>11, <2>1, FreshCounts
  <2>3. round[q] = FreshTo(d) \/ round[q] = FreshTo(d - 1)
    BY <1>2, <1>3 DEF InCall
  <2>4. round[q] >= round[r]
    BY <1>7, <2>2, <2>3
  <2>5. CASE step[q] = "planning"
    <3>1. round[q] = FreshTo(d) /\ program.ops[d].kind = "fresh"
      BY <1>2, <1>3, <2>5 DEF InCall, Op
    <3>2. FreshTo(d) = FreshTo(d - 1) + 1
      BY <2>1, <3>1, FreshCounts
    <3>3. PICK a \in Nat, b \in Nat : a = FreshTo(c) /\ b = FreshTo(d - 1) /\ b >= a
      BY <1>8, <2>2
    <3>4. round[q] = b + 1 /\ round[r] = a
      BY <1>7, <3>1, <3>2, <3>3
    <3>5. round[q] > round[r]
      BY <3>3, <3>4
    <3> QED
      BY <1>9, <3>5
  <2>6. CASE step[q] # "planning"
    <3>1. pc[q] \in {"idle", "planned"}
      BY <1>2, <2>6 DEF InCall
    <3>2. pc[q] = "planned"
      BY <1>6, <2>4, <3>1
    <3> QED
      BY <1>6, <1>9, <1>10, <2>4, <3>2
  <2> QED
    BY <2>5, <2>6
<1>12. CASE d = c /\ k >= j
  <2>1. Op(q) = Op(r)
    BY <1>3, <1>12 DEF Op
  <2>2. j >= 2
    BY <1>4 DEF Part, AtBarrier
  <2>3. step[q] \notin {"idle", "start", "sync"}
    BY <1>4, <1>12, <2>2 DEF Part
  <2>4. round[q] = round[r]
    BY <1>2, <1>3, <1>7, <1>12, <2>3 DEF InCall
  <2>5. CASE step[q] = "planning"
    <3>1. pc[q] \notin {"idle", "planned"}
      BY <1>2, <2>5 DEF InCall
    <3>2. PICK n \in Nat : n = round[r] /\ n = round[q]
      BY <1>6, <2>4
    <3>3. CASE pc[r] = "gather_counts"
      <4>1. j = 2 /\ Place(r) = 8 * n + 2
        BY <1>4, <3>2, <3>3 DEF Part, Place
      <4>2. pc[q] # "publish_counts"
        BY <1>4, <1>12, <2>5, <4>1 DEF Part
      <4> QED
        BY <1>6, <3>1, <3>2, <4>1, <4>2 DEF Place, PlanLabels
    <3>4. CASE pc[r] = "publish_sources"
      <4>1. j = 3 /\ Place(r) = 8 * n + 4
        BY <1>4, <3>2, <3>4 DEF Part, Place
      <4>2. pc[q] \in {"publish_sources", "publish_scratch", "encode"}
        BY <1>4, <1>12, <2>5, <4>1 DEF Part
      <4> QED
        BY <3>2, <4>1, <4>2 DEF Place
    <3>5. CASE pc[r] = "publish_scratch"
      <4>1. j = 4 /\ Place(r) = 8 * n + 5
        BY <1>4, <3>2, <3>5 DEF Part, Place
      <4>2. pc[q] \in {"publish_scratch", "encode"}
        BY <1>4, <1>12, <2>5, <4>1 DEF Part
      <4> QED
        BY <3>2, <4>1, <4>2 DEF Place
    <3>6. CASE pc[r] = "encode"
      <4>1. j = 5 /\ Place(r) = 8 * n + 6
        BY <1>4, <3>2, <3>6 DEF Part, Place
      <4>2. pc[q] = "encode"
        BY <1>4, <1>12, <2>5, <4>1 DEF Part
      <4> QED
        BY <3>2, <4>1, <4>2 DEF Place
    <3> QED
      BY <3>3, <3>4, <3>5, <3>6 DEF AtBarrier
  <2>6. CASE step[q] # "planning"
    <3>1. pc[q] = "planned"
      BY <1>2, <1>6, <2>4, <2>6 DEF InCall
    <3> QED
      BY <1>10, <2>4, <3>1
  <2> QED
    BY <2>5, <2>6
<1> QED
  BY <1>5, <1>11, <1>12

\* What the calls do is, for planning, one of its turns.
LEMMA BufferTurn == InOrder /\ ControlOK /\ InMeeting /\ [BufferNext]_vars => Turn
<1> SUFFICES ASSUME InOrder, ControlOK, InMeeting, [BufferNext]_vars PROVE Turn
  OBVIOUS
<1>1. CASE UNCHANGED vars
  BY <1>1 DEF vars, planVars, Turn, turnVars
<1>2. ASSUME NEW r \in Ranks, Step(r) PROVE Turn
  <2>1. InCall(r) /\ arrived \in [Ranks -> Nat]
    BY DEF ControlOK
  <2>2. CASE Calls(r)
    BY <2>2 DEF Calls, Turn
  <2>3. CASE Launches(r)
    <3>1. step[r] \in {"start", "sync"} /\ StartPlanning(r)
      BY <2>3 DEF Launches, Started
    <3>2. NextRound(r)
      BY <2>1, <3>1 DEF NextRound, InCall
    <3> QED
      BY <3>2 DEF Turn
  <2>4. CASE Plan(r)
    <3>1. PlanStep(r) /\ step[r] = "planning"
      BY <2>4 DEF Plan
    <3>2. pc[r] \in AtBarrier => AllAt(r)
      BY <2>1, <3>1, PlanMoves, OpenPlanning
    <3> QED
      BY <3>1, <3>2 DEF Turn, PlanTurn
  <2>5. CASE MovesOn(r)
    <3>1. UNCHANGED turnVars
      BY <2>5 DEF MovesOn, StepsTo
    <3> QED
      BY <3>1 DEF Turn
  <2> QED
    BY <1>2, <2>2, <2>3, <2>4, <2>5, ControlSteps
<1> QED
  BY <1>1, <1>2 DEF BufferNext

\* The order of the calls of all ranks, and what planning is to them.
OrderInv == PInv /\ PlansMade /\ SourcesInv /\ ControlOK /\ InMeeting

LEMMA NextOrder == OrderInv /\ [BufferNext]_vars => OrderInv'
<1>1. OrderInv => InOrder
  BY DEF OrderInv, PInv
<1> QED
  BY <1>1, BufferTurn, NextPInv, NextMakes, NextSources, ControlKept, MeetingKept DEF OrderInv

LEMMA InitOrder == Init => OrderInv
<1> SUFFICES ASSUME Init PROVE OrderInv
  OBVIOUS
<1>1. PlanInit /\ ControlOK
  BY InitControl DEF Init
<1>2. PInv /\ PlansMade /\ SourcesInv
  BY <1>1, InitPInv, InitMade, InitSources
<1>3. \A r \in Ranks : call[r] = 0 /\ step[r] = "idle" /\ arrived[r] = 0
  BY DEF Init, PlanInit
<1>4. \A r \in Ranks : At(r) = 0 /\ LastMet(r) = 0
  BY <1>3 DEF At, Part, LastMet
<1>5. Cardinality(MetBy(0)) = 0
  <2>1. \A b \in Meetings : b \in Nat /\ b > 0
    BY <1>1, ProgramFacts DEF Meetings
  <2>2. \A b : b \notin MetBy(0)
    BY <2>1 DEF MetBy
  <2>3. MetBy(0) = {}
    BY <2>2
  <2> QED
    BY <2>3, FS_EmptySet
<1>6. InMeeting
  BY <1>3, <1>4, <1>5 DEF InMeeting
<1> QED
  BY <1>1, <1>2, <1>6 DEF OrderInv
-----------------------------------------------------------------------------
(* Dispatch and combine on all ranks: whose rows a rank writes. *)

\* Every row of every rank is there.
RowsOK ==
    /\ DOMAIN hidden = Ranks /\ DOMAIN weights = Ranks /\ DOMAIN dups = Ranks
    /\ DOMAIN local = Ranks /\ DOMAIN out = Ranks /\ DOMAIN outWeights = Ranks
    /\ \A r \in Ranks : /\ DOMAIN hidden[r] = Rows /\ DOMAIN weights[r] = Rows
                        /\ DOMAIN local[r] = {"rows", "weights"}
                        /\ DOMAIN local[r].weights = Rows
                        /\ DOMAIN out[r] = 0 .. (NumTokens - 1)
                        /\ DOMAIN outWeights[r] = Slots

\* What the steps write, for the rows and weights of one rank.
Sends(r, i, v, d, l) ==
    /\ v = plan[r].dst[i] /\ d = DestRank(Canonical(v)) /\ l = DestRow(Canonical(v))
    /\ hidden' = IF v < 0 THEN hidden
                 ELSE [hidden EXCEPT ![d][l] = SetToBag({<<call[r], r, TokenOf(i)>>})]
    /\ weights' = IF program.weighted THEN [weights EXCEPT ![d][l] = <<call[r], r, i>>]
                  ELSE weights
    /\ pending' = [pending EXCEPT ![r] = pending[r] \ {i}]
ClearedBy(f, padding, none) == [l \in Rows |-> IF l \in padding THEN none ELSE f[l]]
CopiedFrom(groups, rows) ==
    [l \in Rows |-> LET of == {g \in groups : l \in g.rows}
                    IN  IF of = {} THEN rows[l] ELSE rows[(CHOOSE g \in of : TRUE).primary]]
ComputedFrom(r, rows) ==
    [l \in Rows |-> SetToBag({<<x, ExpertOfRow(r, l)>> : x \in BagToSet(rows[l])})]
SummedFrom(groups, rows) ==
    LET plus(m, sum) == sum (+) rows[m]
    IN  [l \in Rows |-> LET of == {g \in groups : g.primary = l}
                        IN  IF of = {} THEN rows[l]
                            ELSE FoldSet(plus, rows[l], (CHOOSE g \in of : TRUE).rows)]
Gathers(r, i, v, d, l) ==
    /\ v = plan[r].dst[i] /\ d = DestRank(Canonical(v)) /\ l = DestRow(Canonical(v))
    /\ out' = IF v < 0 THEN out
              ELSE [out EXCEPT ![r][TokenOf(i)] = out[r][TokenOf(i)] (+) hidden[d][l]]
    /\ outWeights' = IF program.weighted
                     THEN [outWeights EXCEPT ![r][i] = weights[d][l]] ELSE outWeights
    /\ pending' = [pending EXCEPT ![r] = pending[r] \ {i}]

LEMMA ScatterIs ==
    ASSUME NEW r \in Ranks, Scatter(r)
    PROVE  /\ step[r] = "scatter" /\ UNCHANGED <<planVars, program, call, step, dups, local, results>>
           /\ \E i \in pending[r] : \E v, d, l : Sends(r, i, v, d, l)
<1>1. PICK i \in pending[r] :
          Sends(r, i, plan[r].dst[i], DestRank(Canonical(plan[r].dst[i])),
                DestRow(Canonical(plan[r].dst[i])))
  BY DEF Scatter, Sends
<1>2. step[r] = "scatter" /\ UNCHANGED <<planVars, program, call, step, dups, local, results>>
  BY DEF Scatter
<1> QED
  BY <1>1, <1>2

LEMMA FinishIs ==
    ASSUME NEW r \in Ranks, FinishScatter(r)
    PROVE  LET padding == PaddingRows(plan[r].layout.zeroFill)
           IN  /\ step[r] = "scatter" /\ pending[r] = {}
               /\ hidden' = [hidden EXCEPT ![r] = ClearedBy(hidden[r], padding, EmptyBag)]
               /\ weights' = IF program.weighted
                             THEN [weights EXCEPT ![r] = ClearedBy(weights[r], padding, NoWeight)]
                             ELSE weights
               /\ dups' = IF Op(r).kind = "fresh"
                          THEN [dups EXCEPT ![r] = DupGroups(srcInfo[r])] ELSE dups
               /\ step' = [step EXCEPT ![r] = "dispatched"]
               /\ UNCHANGED <<turnVars, program, call, local, pending, results>>
  BY DEF FinishScatter, ClearedBy, GoOn, turnVars

LEMMA EpilogueIs ==
    ASSUME NEW r \in Ranks, Epilogue(r)
    PROVE  /\ step[r] = "dispatched" /\ BarrierOpen(r)
           /\ hidden' = [hidden EXCEPT ![r] = CopiedFrom(dups[r], hidden[r])]
           /\ local' = IF program.zeroCopy THEN local
                       ELSE [local EXCEPT ![r] = [rows |-> hidden'[r], weights |-> weights[r]]]
           /\ step' = [step EXCEPT ![r] = "received"]
           /\ UNCHANGED <<planVars, program, call, weights, dups, pending, results>>
  BY DEF Epilogue, CopiedFrom, GoOn, PassesCall, CallBarriers

LEMMA ComputeIs ==
    ASSUME NEW r \in Ranks, Compute(r)
    PROVE  /\ step[r] = "received"
           /\ IF program.zeroCopy
              THEN /\ hidden' = [hidden EXCEPT ![r] = ComputedFrom(r, View(r).rows)]
                   /\ UNCHANGED local
              ELSE /\ local' = [local EXCEPT ![r].rows = ComputedFrom(r, View(r).rows)]
                   /\ UNCHANGED hidden
           /\ step' = [step EXCEPT ![r] = "computed"]
           /\ UNCHANGED <<planVars, program, call, weights, dups, pending, results>>
<1>1. ComputedFrom(r, View(r).rows) =
          [l \in Rows |-> SetToBag({<<x, [m \in Rows |-> ExpertOfRow(r, m)][l]>> :
                                        x \in BagToSet(View(r).rows[l])})]
  BY DEF ComputedFrom
<1> QED
  BY <1>1 DEF Compute, GoOn

LEMMA PrologueIs ==
    ASSUME NEW r \in Ranks, Prologue(r)
    PROVE  /\ Started(r) /\ Op(r).kind = "combine"
           /\ hidden' = [hidden EXCEPT ![r] = SummedFrom(dups[r], View(r).rows)]
           /\ weights' = IF program.weighted
                         THEN [weights EXCEPT ![r] = View(r).weights] ELSE weights
           /\ out' = [out EXCEPT ![r] = [s \in DOMAIN out[r] |-> EmptyBag]]
           /\ pending' = [pending EXCEPT ![r] = Slots]
           /\ step' = [step EXCEPT ![r] = "gather"]
           /\ UNCHANGED <<turnVars, program, call, dups, local, outWeights>>
  BY DEF Prologue, SummedFrom, GoOn, Grid, turnVars

LEMMA GatherIs ==
    ASSUME NEW r \in Ranks, Gather(r)
    PROVE  /\ step[r] = "gather" /\ BarrierOpen(r)
           /\ \E i \in pending[r] : \E v, d, l : Gathers(r, i, v, d, l)
           /\ step' = [step EXCEPT ![r] = IF pending'[r] = {} THEN "combined" ELSE "gather"]
           /\ UNCHANGED <<planVars, program, call, hidden, weights, dups, local>>
<1>1. PICK i \in pending[r] :
          Gathers(r, i, plan[r].dst[i], DestRank(Canonical(plan[r].dst[i])),
                  DestRow(Canonical(plan[r].dst[i])))
  BY DEF Gather, Gathers
<1> QED
  BY <1>1 DEF Gather, GoOn, PassesCall, CallBarriers, buffers

LEMMA InitRows == Init => RowsOK
  BY DEF Init, RowsOK, Empty, NoWeights

LEMMA NextRowsOK == RowsOK /\ [BufferNext]_vars => RowsOK'
<1> SUFFICES ASSUME RowsOK, [BufferNext]_vars PROVE RowsOK'
  OBVIOUS
<1>1. CASE UNCHANGED vars
  BY <1>1 DEF vars, bufferVars, buffers, results, RowsOK
<1>2. ASSUME NEW r \in Ranks, Step(r) PROVE RowsOK'
  <2>1. CASE StartCall(r) \/ StartDispatch(r) \/ Plan(r)
    <3>1. UNCHANGED <<hidden, weights, dups, local, out, outWeights>>
      BY <2>1 DEF StartCall, StartDispatch, Plan, buffers, results
    <3> QED
      BY <3>1 DEF RowsOK
  <2>2. CASE Scatter(r)
    <3>1. UNCHANGED <<dups, local, out, outWeights>>
      BY <2>2, ScatterIs DEF results
    <3>2. PICK i, v, d, l : Sends(r, i, v, d, l)
      BY <2>2, ScatterIs
    <3> QED
      BY <3>1, <3>2 DEF RowsOK, Sends
  <2>3. CASE FinishScatter(r)
    <3>1. /\ \A padding : DOMAIN ClearedBy(hidden[r], padding, EmptyBag) = Rows
          /\ \A padding : DOMAIN ClearedBy(weights[r], padding, NoWeight) = Rows
      BY DEF ClearedBy
    <3>2. PICK padding : padding = PaddingRows(plan[r].layout.zeroFill)
      OBVIOUS
    <3>3. /\ hidden' = [hidden EXCEPT ![r] = ClearedBy(hidden[r], padding, EmptyBag)]
          /\ \/ weights' = weights
             \/ weights' = [weights EXCEPT ![r] = ClearedBy(weights[r], padding, NoWeight)]
          /\ dups' = dups \/ dups' = [dups EXCEPT ![r] = DupGroups(srcInfo[r])]
          /\ UNCHANGED <<local, out, outWeights>>
      BY <2>3, <3>2, FinishIs DEF results
    <3>4. DOMAIN hidden' = Ranks /\ \A q \in Ranks : DOMAIN hidden'[q] = Rows
      BY <3>1, <3>3 DEF RowsOK
    <3>5. DOMAIN weights' = Ranks /\ \A q \in Ranks : DOMAIN weights'[q] = Rows
      BY <3>1, <3>3 DEF RowsOK
    <3> QED
      BY <3>3, <3>4, <3>5 DEF RowsOK
  <2>4. CASE Epilogue(r)
    <3>1. DOMAIN CopiedFrom(dups[r], hidden[r]) = Rows
      BY DEF CopiedFrom
    <3>2. /\ hidden' = [hidden EXCEPT ![r] = CopiedFrom(dups[r], hidden[r])]
          /\ \/ local' = local
             \/ local' = [local EXCEPT ![r] = [rows |-> hidden'[r], weights |-> weights[r]]]
          /\ UNCHANGED <<weights, dups, out, outWeights>>
      BY <2>4, EpilogueIs DEF results
    <3>3. DOMAIN hidden' = Ranks /\ \A q \in Ranks : DOMAIN hidden'[q] = Rows
      BY <3>1, <3>2 DEF RowsOK
    <3>4. /\ DOMAIN local' = Ranks
          /\ \A q \in Ranks : DOMAIN local'[q] = {"rows", "weights"} /\ DOMAIN local'[q].weights = Rows
      BY <3>2 DEF RowsOK
    <3> QED
      BY <3>2, <3>3, <3>4 DEF RowsOK
  <2>5. CASE Compute(r)
    <3>1. DOMAIN ComputedFrom(r, View(r).rows) = Rows
      BY DEF ComputedFrom
    <3>2. /\ UNCHANGED <<weights, dups, out, outWeights>>
          /\ \/ local' = local /\ hidden' = [hidden EXCEPT ![r] = ComputedFrom(r, View(r).rows)]
             \/ hidden' = hidden /\ local' = [local EXCEPT ![r].rows = ComputedFrom(r, View(r).rows)]
      BY <2>5, ComputeIs DEF results
    <3> QED
      BY <3>1, <3>2 DEF RowsOK
  <2>6. CASE Prologue(r)
    <3>1. DOMAIN SummedFrom(dups[r], View(r).rows) = Rows
      BY DEF SummedFrom
    <3>2. DOMAIN View(r).weights = Rows
      BY DEF View, RowsOK
    <3>3. /\ hidden' = [hidden EXCEPT ![r] = SummedFrom(dups[r], View(r).rows)]
          /\ weights' = weights \/ weights' = [weights EXCEPT ![r] = View(r).weights]
          /\ out' = [out EXCEPT ![r] = [s \in DOMAIN out[r] |-> EmptyBag]]
          /\ UNCHANGED <<dups, local, outWeights>>
      BY <2>6, PrologueIs
    <3>4. DOMAIN hidden' = Ranks /\ \A q \in Ranks : DOMAIN hidden'[q] = Rows
      BY <3>1, <3>3 DEF RowsOK
    <3>5. DOMAIN weights' = Ranks /\ \A q \in Ranks : DOMAIN weights'[q] = Rows
      BY <3>2, <3>3 DEF RowsOK
    <3>6. DOMAIN out' = Ranks /\ \A q \in Ranks : DOMAIN out'[q] = 0 .. (NumTokens - 1)
      BY <3>3 DEF RowsOK
    <3> QED
      BY <3>3, <3>4, <3>5, <3>6 DEF RowsOK
  <2>7. CASE Gather(r)
    <3>1. UNCHANGED <<hidden, weights, dups, local>>
      BY <2>7, GatherIs
    <3>2. PICK i, v, d, l : Gathers(r, i, v, d, l)
      BY <2>7, GatherIs
    <3> QED
      BY <3>1, <3>2 DEF RowsOK, Gathers
  <2> QED
    BY <1>2, <2>1, <2>2, <2>3, <2>4, <2>5, <2>6, <2>7 DEF Step
<1> QED
  BY <1>1, <1>2 DEF BufferNext

\* What belongs to rank q alone, and its rows of the symmetric buffer.
OwnKept(q) == /\ dups'[q] = dups[q] /\ local'[q] = local[q]
              /\ out'[q] = out[q] /\ outWeights'[q] = outWeights[q]
RowsKept(q) == hidden'[q] = hidden[q] /\ weights'[q] = weights[q]

\* Where the ranks are while one of them writes rows of its peers: in the same call.
LEMMA ScatterTogether ==
    ASSUME OrderInv, NEW r \in Ranks, NEW q \in Ranks, step[r] = "scatter"
    PROVE  /\ call[q] = call[r] /\ Op(q) = Op(r)
           /\ step[q] \in {"start", "sync", "planning", "scatter", "dispatched"}
           /\ Op(r).kind # "combine"
           /\ Op(r).kind = "fresh" => At(q) >= 8 * call[r] + 4
<1>1. InOrder /\ ControlOK /\ InMeeting
  BY DEF OrderInv, PInv
<1>2. /\ InCall(r) /\ InCall(q) /\ step[q] \in BufferSteps
      /\ LastMet(q) <= At(r) /\ LastMet(r) <= At(q)
  BY <1>1 DEF ControlOK, InMeeting
<1>3. PICK c \in Nat, d \in Nat : c = call[r] /\ d = call[q] /\ c # 0
  BY <1>1, <1>2, AtIs DEF InCall
<1>4. At(r) = 8 * c + 5 /\ (LastMet(r) = 8 * c + 4 \/ LastMet(r) = 8 * c + 1)
      /\ (Op(r).kind = "fresh" => LastMet(r) = 8 * c + 4)
  BY <1>3 DEF At, Part, LastMet
<1>5. At(q) \in Nat /\ 8 * d <= At(q) /\ At(q) <= 8 * d + 6 /\ LastMet(q) \in Nat
  BY <1>1, <1>3, AtIs
<1>6. d >= 2 => LastMet(q) >= 8 * d - 2
  BY <1>3 DEF LastMet
<1>7. d = c
  <2>1. d >= c
    BY <1>2, <1>4, <1>5
  <2>2. d >= 2 => d <= c
    BY <1>2, <1>4, <1>5, <1>6
  <2> QED
    BY <1>3, <2>1, <2>2
<1>8. Op(q) = Op(r)
  BY <1>3, <1>7 DEF Op
<1>9. Op(r).kind # "combine"
  BY <1>2 DEF InCall, InDispatch
<1>10. step[q] \notin {"received", "computed", "combined"}
  <2>1. step[q] \in {"received", "computed", "combined"} => LastMet(q) = 8 * c + 6
    BY <1>3, <1>7 DEF LastMet
  <2> QED
    BY <1>2, <1>4, <2>1, <1>3
<1>11. step[q] \notin {"idle", "gather"}
  BY <1>2, <1>3, <1>7, <1>8, <1>9 DEF InCall, InCombine
<1>12. step[q] \in {"start", "sync", "planning", "scatter", "dispatched"}
  BY <1>2, <1>10, <1>11 DEF BufferSteps
<1>13. Op(r).kind = "fresh" => At(q) >= 8 * c + 4
  BY <1>2, <1>4
<1> QED
  BY <1>3, <1>7, <1>8, <1>9, <1>12, <1>13

\* Only its own steps write the rows of a rank, but for the scatter of its peers.
LEMMA OthersWrite ==
    ASSUME RowsOK, NEW r \in Ranks, Step(r), NEW q \in Ranks, q # r
    PROVE  OwnKept(q) /\ (RowsKept(q) \/ Scatter(r))
<1> USE DEF RowsOK
<1>1. CASE StartCall(r) \/ StartDispatch(r) \/ Plan(r)
  BY <1>1 DEF StartCall, StartDispatch, Plan, buffers, results, OwnKept, RowsKept
<1>2. CASE Scatter(r)
  BY <1>2, ScatterIs DEF results, OwnKept
<1>3. CASE FinishScatter(r)
  <2>1. /\ \E x : hidden' = [hidden EXCEPT ![r] = x]
        /\ weights' = weights \/ \E x : weights' = [weights EXCEPT ![r] = x]
        /\ dups' = dups \/ \E x : dups' = [dups EXCEPT ![r] = x]
        /\ UNCHANGED <<local, out, outWeights>>
    BY <1>3, FinishIs DEF results
  <2> QED
    BY <2>1 DEF OwnKept, RowsKept
<1>4. CASE Epilogue(r)
  <2>1. /\ \E x : hidden' = [hidden EXCEPT ![r] = x]
        /\ local' = local \/ \E x : local' = [local EXCEPT ![r] = x]
        /\ UNCHANGED <<weights, dups, out, outWeights>>
    BY <1>4, EpilogueIs DEF results
  <2> QED
    BY <2>1 DEF OwnKept, RowsKept
<1>5. CASE Compute(r)
  <2>1. /\ hidden' = hidden \/ \E x : hidden' = [hidden EXCEPT ![r] = x]
        /\ local' = local \/ \E x : local' = [local EXCEPT ![r].rows = x]
        /\ UNCHANGED <<weights, dups, out, outWeights>>
    BY <1>5, ComputeIs DEF results
  <2> QED
    BY <2>1 DEF OwnKept, RowsKept
<1>6. CASE Prologue(r)
  <2>1. /\ \E x : hidden' = [hidden EXCEPT ![r] = x]
        /\ weights' = weights \/ \E x : weights' = [weights EXCEPT ![r] = x]
        /\ \E x : out' = [out EXCEPT ![r] = x]
        /\ UNCHANGED <<dups, local, outWeights>>
    BY <1>6, PrologueIs
  <2> QED
    BY <2>1 DEF OwnKept, RowsKept
<1>7. CASE Gather(r)
  <2>1. PICK i, v, d, l : Gathers(r, i, v, d, l)
    BY <1>7, GatherIs
  <2>2. UNCHANGED <<hidden, weights, dups, local>>
    BY <1>7, GatherIs
  <2> QED
    BY <2>1, <2>2 DEF OwnKept, RowsKept, Gathers
<1> QED
  BY <1>1, <1>2, <1>3, <1>4, <1>5, <1>6, <1>7 DEF Step

BufferOrder == OrderInv /\ RowsOK

LEMMA InitBufferOrder == Init => BufferOrder
  BY InitOrder, InitRows DEF BufferOrder
LEMMA NextBufferOrder == BufferOrder /\ [BufferNext]_vars => BufferOrder'
  BY NextOrder, NextRowsOK DEF BufferOrder

\* While the caller has the rows of a dispatch nobody else is in a scatter, so that no
\* step but its own changes them.
LEMMA ViewKept ==
    ASSUME BufferOrder, NEW r \in Ranks, Step(r), NEW q \in Ranks, q # r,
           ~(step[r] = "scatter" /\ step[q] \in {"start", "sync", "planning", "scatter", "dispatched"}
             /\ Op(q).kind # "combine")
    PROVE  /\ OwnKept(q) /\ RowsKept(q)
           /\ View(q)' = View(q)
<1>1. ~Scatter(r)
  <2>1. Scatter(r) => step[r] = "scatter"
    BY ScatterIs
  <2> QED
    BY <2>1, ScatterTogether DEF BufferOrder
<1>2. OwnKept(q) /\ RowsKept(q)
  BY <1>1, OthersWrite DEF BufferOrder
<1>3. program' = program
  BY OthersInCall DEF BufferOrder, OrderInv, PInv
<1> QED
  BY <1>2, <1>3 DEF OwnKept, RowsKept, View

\* What the caller of a rank finds in its rows after a dispatch, and what it has put in
\* them when it has applied the experts, nobody changes but its own steps.
THEOREM CallersKeepTheirRows == BufferSpec => CallerUndisturbed
<1>1. BufferOrder /\ [BufferNext]_vars =>
          [\A r \in Ranks : step[r] \in {"received", "computed"} /\ step'[r] = step[r]
                                => View(r)' = View(r)]_vars
  <2> SUFFICES ASSUME BufferOrder, BufferNext, NEW q \in Ranks,
                      step[q] \in {"received", "computed"}, step'[q] = step[q]
               PROVE  View(q)' = View(q)
    OBVIOUS
  <2>1. PICK r \in Ranks : Step(r)
    BY DEF BufferNext
  <2>2. CASE q # r
    BY <2>1, <2>2, ViewKept
  <2>3. CASE q = r
    <3>1. ControlOK /\ step \in [Ranks -> BufferSteps]
      BY DEF BufferOrder, OrderInv, ControlOK
    <3>2. ~Calls(r)
      BY <2>3, <3>1 DEF Calls
    <3>3. ~Launches(r)
      BY <2>3 DEF Launches, Started
    <3>4. ~Plan(r)
      BY <2>3 DEF Plan
    <3>5. ~MovesOn(r)
      BY <2>3, <3>1 DEF MovesOn, StepsTo
    <3> QED
      BY <2>1, <3>1, <3>2, <3>3, <3>4, <3>5, ControlSteps
  <2> QED
    BY <2>2, <2>3
<1> QED
  BY <1>1, InitBufferOrder, NextBufferOrder, PTL DEF BufferSpec, CallerUndisturbed
-----------------------------------------------------------------------------
(* What the rows hold.  All of it is said of the rows and weights of one rank d, of *)
(* dispatch n with the routing topk.                                                *)

\* Entry i of rank q lies in row l of rank d.
Lies(topk, q, i, d, l) == Goes(topk, q, i) = d * NvS + l
Marks(topk, q, i) == DstIn(topk, q)[i] < 0
FilledIn(topk, d) == PaddingRows(LayoutOf(AllocIn(topk), d).zeroFill)

Token(n, q, i) == <<n, q, TokenOf(i)>>
Made(n, topk, q, i) == <<Token(n, q, i), topk[q][i]>>

\* The bag of what m makes of the entries in J.
TallyOf(m, J) == [x \in {m[i] : i \in J} |-> Cardinality({i \in J : m[i] = x})]
Tally(n, topk, q, J) == TallyOf([i \in Slots |-> Made(n, topk, q, i)], J)

\* The entries of the token of i that go to the rank that i goes to.
SameToken(topk, q, i) ==
    {j \in Slots : /\ TokenOf(j) = TokenOf(i)
                   /\ DestRank(Goes(topk, q, j)) = DestRank(Goes(topk, q, i))}

\* The row of each entry has its token; or what its expert made of it; or what the
\* experts on the rank made of it together, in the row of the unmarked entry.
HoldsTokens(n, topk, d, rows) ==
    \A q \in Ranks, i \in Slots, l \in Rows :
        Lies(topk, q, i, d, l) => rows[l] = SetToBag({Token(n, q, i)})
HoldsUnmarked(n, topk, d, rows) ==
    \A q \in Ranks, i \in Slots, l \in Rows :
        Lies(topk, q, i, d, l) /\ ~Marks(topk, q, i) => rows[l] = SetToBag({Token(n, q, i)})
HoldsResults(n, topk, d, rows) ==
    \A q \in Ranks, i \in Slots, l \in Rows :
        Lies(topk, q, i, d, l) => rows[l] = SetToBag({Made(n, topk, q, i)})
HoldsSums(n, topk, d, rows) ==
    \A q \in Ranks, i \in Slots, l \in Rows :
        Lies(topk, q, i, d, l) /\ ~Marks(topk, q, i) =>
            rows[l] = Tally(n, topk, q, SameToken(topk, q, i))
HoldsWeights(n, topk, d, wts) ==
    \A q \in Ranks, i \in Slots, l \in Rows :
        Lies(topk, q, i, d, l) => wts[l] = <<n, q, i>>
HoldsPadding(topk, d, rows) == \A l \in Rows : l \in FilledIn(topk, d) => rows[l] = EmptyBag

\* src_info of rank d when all entries have been stored.
Knows(topk, d, info) == Collected(topk, d, Ranks \X Slots, info)

LEMMA LiesIs ==
    ASSUME NEW topk \in Routings, NEW q \in Ranks, NEW i \in Slots, NEW d \in Ranks, NEW l \in Rows
    PROVE  Lies(topk, q, i, d, l) <=>
               DestRank(Goes(topk, q, i)) = d /\ DestRow(Goes(topk, q, i)) = l
<1>1. PICK v : v = Goes(topk, q, i)
  OBVIOUS
<1>2. v = DestRank(v) * NvS + DestRow(v)
  BY <1>1, GoesToRow
<1>3. l \in Nat /\ l < NvS
  BY SizesNat DEF Rows
<1>4. ASSUME v = d * NvS + l PROVE DestRank(v) = d /\ DestRow(v) = l
  BY <1>3, <1>4, RowOfDst
<1>5. ASSUME DestRank(v) = d, DestRow(v) = l PROVE v = d * NvS + l
  BY <1>2, <1>5
<1> QED
  BY <1>1, <1>4, <1>5 DEF Lies

\* Every entry lies in a row of a rank, and no other lies there.
LEMMA EachLies ==
    ASSUME NEW topk \in Routings, NEW q \in Ranks, NEW i \in Slots
    PROVE  /\ DestRank(Goes(topk, q, i)) \in Ranks /\ DestRow(Goes(topk, q, i)) \in Rows
           /\ Lies(topk, q, i, DestRank(Goes(topk, q, i)), DestRow(Goes(topk, q, i)))
<1>1. DestRank(Goes(topk, q, i)) \in Ranks /\ DestRow(Goes(topk, q, i)) \in Rows
  BY GoesToRow
<1> QED
  BY <1>1, LiesIs

LEMMA OneLies ==
    ASSUME NEW topk \in Routings, NEW q \in Ranks, NEW i \in Slots, NEW p \in Ranks, NEW j \in Slots,
           NEW d, NEW l, Lies(topk, q, i, d, l), Lies(topk, p, j, d, l)
    PROVE  q = p /\ i = j
<1>1. Goes(topk, q, i) = Goes(topk, p, j)
  BY DEF Lies
<1> QED
  BY <1>1, EntriesApart

\* src_info names the entry of each row.
LEMMA KnowsEntry ==
    ASSUME NEW topk \in Routings, NEW d \in Ranks, NEW info, Knows(topk, d, info), NEW l \in Rows
    PROVE  /\ \A q \in Ranks, i \in Slots : Lies(topk, q, i, d, l) =>
                 info[l] # None /\ SourceRank(info[l]) = q /\ SourceEntry(info[l]) = i
           /\ info[l] # None => \E q \in Ranks, i \in Slots : Lies(topk, q, i, d, l)
<1>1. ASSUME NEW q \in Ranks, NEW i \in Slots, Lies(topk, q, i, d, l)
      PROVE  info[l] # None /\ SourceRank(info[l]) = q /\ SourceEntry(info[l]) = i
  <2>1. <<q, i>> \in Ranks \X Slots
    OBVIOUS
  <2>2. info[l] = Source(q, i)
    BY <1>1, <2>1 DEF Knows, Collected, Lies
  <2>3. PICK v : v = q * NvS + i /\ info[l] = v
    BY <2>2 DEF Source
  <2>4. i \in Nat /\ i < NvS
    BY SizesNat, SlotsFinite
  <2>5. DestRank(v) = q /\ DestRow(v) = i
    BY <2>3, <2>4, RowOfDst
  <2>6. SourceRank(v) = q /\ SourceEntry(v) = i
    BY <2>5 DEF SourceRank, SourceEntry, DestRank, DestRow
  <2>7. v \in Nat
    BY <2>3, <2>4, RowOfDst
  <2> QED
    BY <2>3, <2>6, <2>7 DEF None
<1>2. ASSUME \A q \in Ranks, i \in Slots : ~Lies(topk, q, i, d, l) PROVE info[l] = None
  BY <1>2 DEF Knows, Collected, Lies
<1> QED
  BY <1>1, <1>2

\* Of the entries of a token that go to one rank, one is unmarked, the first.
LEMMA UnmarkedFirst ==
    ASSUME NEW topk \in Routings, NEW q \in Ranks, NEW i \in Slots
    PROVE  \E u \in SameToken(topk, q, i) :
               /\ ~Marks(topk, q, u)
               /\ \A j \in SameToken(topk, q, i) \ {u} :
                     Marks(topk, q, j) /\ ChoiceOf(u) < ChoiceOf(j)
<1>1. PICK dst \in [Slots -> Nat] : dst = RawIn(topk, q)
  BY RawIsDst
<1>2. PICK token, rank : token = TokenOf(i) /\ rank = DestRank(Goes(topk, q, i))
  OBVIOUS
<1>3. SameToken(topk, q, i) = Together(dst, token, rank)
  BY <1>1, <1>2 DEF SameToken, Together, Goes, DstIn
<1>4. i \in SameToken(topk, q, i)
  BY DEF SameToken
<1>5. PICK u \in Together(dst, token, rank) :
          /\ EncodeDuplicates(dst)[u] >= 0
          /\ \A j \in Together(dst, token, rank) \ {u} :
                EncodeDuplicates(dst)[j] < 0 /\ ChoiceOf(u) < ChoiceOf(j)
  <2>1. PICK here : here = Together(dst, token, rank) /\ here # {}
    BY <1>3, <1>4
  <2> QED
    BY <2>1, OneUnmarked
<1>6. \A j \in Slots : Marks(topk, q, j) <=> EncodeDuplicates(dst)[j] < 0
  BY <1>1 DEF Marks, DstIn
<1>7. Together(dst, token, rank) \subseteq Slots
  BY DEF Together
<1>8. ~(EncodeDuplicates(dst)[u] < 0)
  <2>1. EncodeDuplicates(dst)[u] \in Int
    <3>1. dst[u] \in Nat
      BY <1>7
    <3> QED
      BY <1>7, <3>1 DEF EncodeDuplicates, Marked
  <2> QED
    BY <1>5, <2>1
<1> QED
  BY <1>3, <1>5, <1>6, <1>7, <1>8

LEMMA SameTokenIs ==
    ASSUME NEW topk, NEW q, NEW i \in Slots
    PROVE  /\ SameToken(topk, q, i) \subseteq Slots /\ i \in SameToken(topk, q, i)
           /\ \A j \in SameToken(topk, q, i) : SameToken(topk, q, j) = SameToken(topk, q, i)
           /\ \A j \in Slots : i \in SameToken(topk, q, j) => j \in SameToken(topk, q, i)
BY DEF SameToken

LEMMA OnlyUnmarked ==
    ASSUME NEW topk \in Routings, NEW q \in Ranks, NEW i \in Slots, ~Marks(topk, q, i)
    PROVE  \A j \in SameToken(topk, q, i) \ {i} :
               Marks(topk, q, j) /\ ChoiceOf(i) < ChoiceOf(j)
<1>1. PICK u \in SameToken(topk, q, i) :
          \A j \in SameToken(topk, q, i) \ {u} : Marks(topk, q, j) /\ ChoiceOf(u) < ChoiceOf(j)
  BY UnmarkedFirst
<1>2. u = i
  BY <1>1, SameTokenIs
<1> QED
  BY <1>1, <1>2

\* The rows that the entries in J of rank q lie in.
RowsIn(topk, d, q, J) == {l \in Rows : \E j \in J : Lies(topk, q, j, d, l)}

\* Group g is that of the token of entry i of rank q, which is not marked.
GroupOf(topk, d, q, i, g) ==
    /\ g.primary \in Rows /\ Lies(topk, q, i, d, g.primary) /\ ~Marks(topk, q, i)
    /\ g.rows = RowsIn(topk, d, q, SameToken(topk, q, i) \ {i})

\* The rows with the token of a row, as DupGroups finds them.
LEMMA RowsOfToken ==
    ASSUME NEW topk \in Routings, NEW d \in Ranks, NEW info, Knows(topk, d, info),
           NEW q \in Ranks, NEW i \in Slots, NEW p \in Rows, Lies(topk, q, i, d, p), NEW m
    PROVE  m \in RowsIn(topk, d, q, SameToken(topk, q, i)) <=>
               /\ m \in Rows /\ info[m] # None
               /\ SourceRank(info[m]) = SourceRank(info[p])
               /\ TokenOf(SourceEntry(info[m])) = TokenOf(SourceEntry(info[p]))
<1>1. SourceRank(info[p]) = q /\ SourceEntry(info[p]) = i
  BY KnowsEntry
<1>2. ASSUME m \in RowsIn(topk, d, q, SameToken(topk, q, i))
      PROVE  /\ m \in Rows /\ info[m] # None
             /\ SourceRank(info[m]) = q /\ TokenOf(SourceEntry(info[m])) = TokenOf(i)
  <2>1. m \in Rows
    BY <1>2 DEF RowsIn
  <2>2. PICK j \in SameToken(topk, q, i) : Lies(topk, q, j, d, m)
    BY <1>2 DEF RowsIn
  <2>3. j \in Slots /\ TokenOf(j) = TokenOf(i)
    BY <2>2 DEF SameToken
  <2>4. info[m] # None /\ SourceRank(info[m]) = q /\ SourceEntry(info[m]) = j
    BY <2>1, <2>2, <2>3, KnowsEntry
  <2> QED
    BY <2>1, <2>3, <2>4
<1>3. ASSUME m \in Rows, info[m] # None, SourceRank(info[m]) = q,
             TokenOf(SourceEntry(info[m])) = TokenOf(i)
      PROVE  m \in RowsIn(topk, d, q, SameToken(topk, q, i))
  <2>1. PICK q2 \in Ranks, j \in Slots : Lies(topk, q2, j, d, m)
    BY <1>3, KnowsEntry
  <2>2. q2 = q /\ SourceEntry(info[m]) = j
    BY <1>3, <2>1, KnowsEntry
  <2>3. DestRank(Goes(topk, q, j)) = d /\ DestRank(Goes(topk, q, i)) = d
    BY <1>3, <2>1, <2>2, LiesIs
  <2>4. j \in SameToken(topk, q, i)
    BY <1>3, <2>2, <2>3 DEF SameToken
  <2> QED
    BY <1>3, <2>1, <2>2, <2>4 DEF RowsIn
<1> QED
  BY <1>1, <1>2, <1>3

\* The rows of a set of entries without the one of entry i.
LEMMA RowsBut ==
    ASSUME NEW topk \in Routings, NEW d \in Ranks, NEW q \in Ranks, NEW i \in Slots, NEW p \in Rows,
           Lies(topk, q, i, d, p), NEW J, J \subseteq Slots
    PROVE  RowsIn(topk, d, q, J \ {i}) = RowsIn(topk, d, q, J) \ {p}
<1>1. ASSUME NEW m \in Rows, NEW j \in J, Lies(topk, q, j, d, m) PROVE m = p <=> j = i
  <2>1. ASSUME m = p PROVE j = i
    BY <1>1, <2>1, OneLies
  <2>2. ASSUME j = i PROVE m = p
    BY <1>1, <2>2, LiesIs
  <2> QED
    BY <2>1, <2>2
<1>2. ASSUME NEW m PROVE m \in RowsIn(topk, d, q, J \ {i}) <=> m \in RowsIn(topk, d, q, J) \ {p}
  BY <1>1 DEF RowsIn
<1> QED
  BY <1>2

\* The groups of duplicates of a rank are those of the unmarked entries that lie on it
\* and have others of their token there.
LEMMA GroupsAre ==
    ASSUME NEW topk \in Routings, NEW d \in Ranks, NEW info, Knows(topk, d, info)
    PROVE  /\ \A g \in DupGroups(info) : \E q \in Ranks, i \in Slots : GroupOf(topk, d, q, i, g)
           /\ \A q \in Ranks, i \in Slots, p \in Rows :
                 Lies(topk, q, i, d, p) /\ ~Marks(topk, q, i) /\ SameToken(topk, q, i) # {i}
                    => \E g \in DupGroups(info) : g.primary = p
<1> DEFINE used == {l \in Rows : info[l] # None}
           choice(l) == ChoiceOf(SourceEntry(info[l]))
           same(l) == {m \in used : /\ SourceRank(info[m]) = SourceRank(info[l])
                                    /\ TokenOf(SourceEntry(info[m])) = TokenOf(SourceEntry(info[l]))}
           primaries == {l \in used : \A m \in same(l) : choice(l) <= choice(m)}
<1>1. DupGroups(info) = {[primary |-> l, rows |-> same(l) \ {l}] :
                            l \in {p \in primaries : same(p) # {p}}}
  BY DEF DupGroups
<1>2. ASSUME NEW q \in Ranks, NEW i \in Slots, NEW p \in Rows, Lies(topk, q, i, d, p)
      PROVE  /\ p \in used /\ choice(p) = ChoiceOf(i)
             /\ same(p) = RowsIn(topk, d, q, SameToken(topk, q, i))
  <2>1. info[p] # None /\ SourceEntry(info[p]) = i
    BY <1>2, KnowsEntry
  <2>2. \A m : m \in same(p) <=> m \in RowsIn(topk, d, q, SameToken(topk, q, i))
    BY <1>2, RowsOfToken
  <2> QED
    BY <2>1, <2>2
<1>3. ASSUME NEW q \in Ranks, NEW i \in Slots, NEW j \in SameToken(topk, q, i), NEW p \in Rows,
             Lies(topk, q, i, d, p)
      PROVE  \E m \in same(p) : Lies(topk, q, j, d, m)
  <2>1. j \in Slots /\ DestRank(Goes(topk, q, j)) = d
    BY <1>3, LiesIs DEF SameToken
  <2>2. PICK m \in Rows : Lies(topk, q, j, d, m)
    BY <2>1, EachLies
  <2>3. m \in RowsIn(topk, d, q, SameToken(topk, q, i))
    BY <2>2 DEF RowsIn
  <2>4. same(p) = RowsIn(topk, d, q, SameToken(topk, q, i))
    BY <1>2, <1>3
  <2> QED
    BY <2>2, <2>3, <2>4
<1>4. \A l \in used : \E q \in Ranks, i \in Slots : Lies(topk, q, i, d, l)
  BY KnowsEntry
<1>5. used \subseteq Rows
  OBVIOUS
<1>6. \A l \in primaries : l \in used /\ \A m \in same(l) : choice(l) <= choice(m)
  OBVIOUS
<1>7. \A l \in used : (\A m \in same(l) : choice(l) <= choice(m)) => l \in primaries
  OBVIOUS
<1> HIDE DEF used, choice, same, primaries
<1>8. ASSUME NEW p \in primaries, same(p) # {p}
      PROVE  \E q \in Ranks, i \in Slots :
                GroupOf(topk, d, q, i, [primary |-> p, rows |-> same(p) \ {p}])
  <2>1. p \in Rows /\ p \in used
    BY <1>5, <1>6
  <2>2. PICK q \in Ranks, i \in Slots : Lies(topk, q, i, d, p)
    BY <1>4, <2>1
  <2>3. same(p) = RowsIn(topk, d, q, SameToken(topk, q, i)) /\ choice(p) = ChoiceOf(i)
    BY <1>2, <2>1, <2>2
  <2>4. ~Marks(topk, q, i)
    <3>1. PICK u \in SameToken(topk, q, i) :
             /\ ~Marks(topk, q, u)
             /\ \A j \in SameToken(topk, q, i) \ {u} : ChoiceOf(u) < ChoiceOf(j)
      BY UnmarkedFirst
    <3>2. PICK m \in same(p) : Lies(topk, q, u, d, m)
      BY <1>3, <2>1, <2>2
    <3>3. u \in Slots /\ m \in Rows
      BY <2>3, <3>1 DEF SameToken, RowsIn
    <3>4. choice(m) = ChoiceOf(u)
      BY <1>2, <3>2, <3>3
    <3>5. choice(p) <= choice(m)
      BY <1>6
    <3>6. CASE u = i
      BY <3>1, <3>6
    <3>7. CASE u # i
      <4>1. TokenOf(u) = TokenOf(i)
        BY DEF SameToken
      <4>2. ChoiceOf(u) \in Nat /\ ChoiceOf(i) \in Nat
        BY <3>3, <3>7, <4>1, ChoicesDiffer
      <4>3. ChoiceOf(u) < ChoiceOf(i)
        BY <3>1, <3>7, SameTokenIs
      <4> QED
        BY <2>3, <3>4, <3>5, <4>2, <4>3
    <3> QED
      BY <3>6, <3>7
  <2>5. same(p) \ {p} = RowsIn(topk, d, q, SameToken(topk, q, i) \ {i})
    BY <2>1, <2>2, <2>3, RowsBut, SameTokenIs
  <2> QED
    BY <2>1, <2>2, <2>4, <2>5 DEF GroupOf
<1>9. ASSUME NEW q \in Ranks, NEW i \in Slots, NEW p \in Rows, Lies(topk, q, i, d, p),
             ~Marks(topk, q, i), SameToken(topk, q, i) # {i}
      PROVE  p \in primaries /\ same(p) # {p}
  <2>1. /\ p \in used /\ choice(p) = ChoiceOf(i)
        /\ same(p) = RowsIn(topk, d, q, SameToken(topk, q, i))
    BY <1>2, <1>9
  <2>2. ASSUME NEW m \in same(p) PROVE choice(p) <= choice(m)
    <3>1. m \in Rows
      BY <2>1 DEF RowsIn
    <3>2. PICK j \in SameToken(topk, q, i) : Lies(topk, q, j, d, m)
      BY <2>1 DEF RowsIn
    <3>3. j \in Slots /\ TokenOf(j) = TokenOf(i)
      BY DEF SameToken
    <3>4. choice(m) = ChoiceOf(j)
      BY <1>2, <3>1, <3>2, <3>3
    <3>5. ChoiceOf(i) \in Nat /\ ChoiceOf(j) \in Nat
      BY <3>3, TokensAssumption, SlotsFinite DEF ChoiceOf
    <3>6. j = i \/ ChoiceOf(i) < ChoiceOf(j)
      BY <1>9, OnlyUnmarked
    <3> QED
      BY <2>1, <3>4, <3>5, <3>6
  <2>3. PICK j \in SameToken(topk, q, i) : j # i
    BY <1>9, SameTokenIs
  <2>4. PICK m \in same(p) : Lies(topk, q, j, d, m)
    BY <1>3, <1>9
  <2>5. m # p
    BY <1>9, <2>3, <2>4, OneLies DEF SameToken
  <2> QED
    BY <1>7, <2>1, <2>2, <2>4, <2>5
<1>10. ASSUME NEW g \in DupGroups(info)
       PROVE  \E q \in Ranks, i \in Slots : GroupOf(topk, d, q, i, g)
  <2>1. PICK p \in primaries : same(p) # {p} /\ g = [primary |-> p, rows |-> same(p) \ {p}]
    BY <1>1
  <2> QED
    BY <1>8, <2>1
<1>11. ASSUME NEW q \in Ranks, NEW i \in Slots, NEW p \in Rows, Lies(topk, q, i, d, p),
             ~Marks(topk, q, i), SameToken(topk, q, i) # {i}
      PROVE  \E g \in DupGroups(info) : g.primary = p
  <2>1. p \in primaries /\ same(p) # {p}
    BY <1>9, <1>11
  <2>2. [primary |-> p, rows |-> same(p) \ {p}] \in DupGroups(info)
    BY <1>1, <2>1
  <2>3. [primary |-> p, rows |-> same(p) \ {p}].primary = p
    OBVIOUS
  <2> QED
    BY <2>2, <2>3
<1> QED
  BY <1>10, <1>11

\* No entry lies in the padding.
LEMMA FilledFree ==
    ASSUME NEW topk \in Routings, NEW d \in Ranks, NEW l \in Rows, l \in FilledIn(topk, d),
           NEW q \in Ranks, NEW i \in Slots
    PROVE  ~Lies(topk, q, i, d, l)
<1> SUFFICES ASSUME Lies(topk, q, i, d, l) PROVE FALSE
  OBVIOUS
<1>1. PICK layouts, dst : /\ layouts = Layouts(AllocIn(topk))
                          /\ dst = [r \in Ranks |-> DstIn(topk, r)]
  OBVIOUS
<1>2. PlansFor(topk, layouts, dst) /\ layouts[d] = LayoutOf(AllocIn(topk), d)
  BY <1>1 DEF PlansFor, Layouts
<1>3. RowsUsed(dst, d) \cap FilledRows(layouts[d]) = {}
  BY <1>2, PlannedCovered DEF RowsCovered
<1>4. l \in FilledRows(layouts[d])
  BY <1>2 DEF FilledIn, PaddingRows, FilledRows
<1>5. DstOf(dst, <<q, i>>) = Goes(topk, q, i) /\ <<q, i>> \in Entries
  BY <1>2, PlannedDst DEF Entries
<1>6. l \in RowsUsed(dst, d)
  BY <1>5, LiesIs DEF RowsUsed
<1> QED
  BY <1>3, <1>4, <1>6

\* The caller applies to the row of an entry the expert that the entry has chosen.
LEMMA RowsExpert ==
    ASSUME NEW topk \in Routings, NEW d \in Ranks, plan[d].layout = LayoutOf(AllocIn(topk), d),
           NEW q \in Ranks, NEW i \in Slots, NEW l \in Rows, Lies(topk, q, i, d, l)
    PROVE  ExpertOfRow(d, l) = topk[q][i]
<1>1. PICK layouts, dst : /\ layouts = Layouts(AllocIn(topk))
                          /\ dst = [r \in Ranks |-> DstIn(topk, r)]
  OBVIOUS
<1>2. PlansFor(topk, layouts, dst) /\ layouts[d] = LayoutOf(AllocIn(topk), d)
  BY <1>1 DEF PlansFor, Layouts
<1>3. DstOf(dst, <<q, i>>) = Goes(topk, q, i) /\ <<q, i>> \in Entries
  BY <1>2, PlannedDst DEF Entries
<1>4. DestRank(Goes(topk, q, i)) = d /\ DestRow(Goes(topk, q, i)) = l
  BY LiesIs
<1>5. PICK a, cu, start : a = AllocIn(topk) /\ cu = CuSeqlens(a, d) /\ start = GroupStart(a, d)
  OBVIOUS
<1>6. layouts[d].cuSeqlens = cu /\ plan[d].layout = layouts[d]
  BY <1>2, <1>5, PlannedLayout
<1>7. PICK expert : expert = topk[q][i] /\ expert \in Experts
  BY DEF Routings
<1>8. PICK g \in Groups :
          /\ Holds(layouts[d], g, l)
          /\ g = expert \/ (g >= NumExperts /\ layouts[d].copied[g - NumExperts] = expert)
  BY <1>2, <1>3, <1>4, <1>7, PlannedSentToExpert DEF SentToExpert
<1>9. l < cu[g] /\ (g = 0 \/ cu[g - 1] <= l)
  BY <1>6, <1>8 DEF Holds
<1>10. PICK N : /\ N = NumExperts + PrefetchSlots - 1 /\ N \in Nat /\ Groups = 0 .. N
                /\ NumExperts \in Nat
  BY GroupsIntervals, SizesNat
<1>11. Laid(N, start, cu)
  <2>1. a \in [Experts -> [Ranks -> Nat]]
    BY <1>5, InputFits DEF Fits, GoodAlloc
  <2> QED
    BY <1>5, <1>10, <2>1, SegmentsLaid
<1>12. l \in Nat /\ \A h \in Groups : cu[h] \in Nat
  BY <1>10, <1>11, SizesNat DEF Laid, Rows
<1>13. ASSUME NEW h \in Groups, l < cu[h] PROVE g <= h
  <2> SUFFICES ASSUME h < g PROVE FALSE
    BY <1>10
  <2>1. cu[h] <= start[g]
    BY <1>10, <1>11, LaidInOrder
  <2>2. g # 0 /\ start[g] = cu[g - 1] /\ g - 1 \in Groups
    BY <1>5, <1>10 DEF GroupStart
  <2> QED
    BY <1>9, <1>12, <1>13, <2>1, <2>2
<1>14. PICK after : after = {h \in Groups : l < cu[h]}
  OBVIOUS
<1>15. g \in after /\ \A h \in after : g <= h
  BY <1>9, <1>13, <1>14
<1>16. Min(after) = g
  <2>1. Min(after) \in after /\ \A h \in after : Min(after) <= h
    BY <1>15 DEF Min
  <2>2. PICK m : m = Min(after)
    OBVIOUS
  <2>3. m \in after /\ m <= g /\ g <= m
    BY <1>15, <2>1, <2>2
  <2>4. m \in Int /\ g \in Int
    BY <1>10, <1>14, <2>3
  <2>5. m = g
    BY <2>3, <2>4
  <2> QED
    BY <2>2, <2>5
<1>17. ExpertOfRow(d, l) = IF g < NumExperts THEN g ELSE plan[d].layout.copied[g - NumExperts]
  BY <1>6, <1>14, <1>15, <1>16 DEF ExpertOfRow
<1>18. expert < NumExperts /\ expert \in Nat
  BY <1>7, <1>10 DEF Experts, NumExperts
<1> QED
  BY <1>6, <1>7, <1>8, <1>10, <1>17, <1>18

\* The row of every entry, once the rows of the unmarked ones are copied.
LEMMA CopiesArrive ==
    ASSUME NEW topk \in Routings, NEW d \in Ranks, NEW info, Knows(topk, d, info), NEW n, NEW rows,
           HoldsUnmarked(n, topk, d, rows)
    PROVE  /\ HoldsTokens(n, topk, d, CopiedFrom(DupGroups(info), rows))
           /\ HoldsPadding(topk, d, rows) =>
                 HoldsPadding(topk, d, CopiedFrom(DupGroups(info), rows))
<1> USE DEF HoldsUnmarked
<1>1. PICK groups : groups = DupGroups(info)
  OBVIOUS
<1>2. PICK copied : copied = CopiedFrom(groups, rows)
  OBVIOUS
<1>3. ASSUME NEW l \in Rows, NEW of, of = {g \in groups : l \in g.rows}
      PROVE  copied[l] = IF of = {} THEN rows[l] ELSE rows[(CHOOSE g \in of : TRUE).primary]
  BY <1>2, <1>3 DEF CopiedFrom
\* A group that has the row of entry i is that of another entry of its token, and i is marked.
<1>4. ASSUME NEW q \in Ranks, NEW i \in Slots, NEW l \in Rows, Lies(topk, q, i, d, l),
             NEW g \in groups, l \in g.rows
      PROVE  Marks(topk, q, i) /\ rows[g.primary] = SetToBag({Token(n, q, i)})
  <2>1. PICK p \in Ranks, u \in Slots : GroupOf(topk, d, p, u, g)
    BY <1>1, GroupsAre
  <2>2. PICK j \in SameToken(topk, p, u) \ {u} : Lies(topk, p, j, d, l)
    BY <1>4, <2>1 DEF GroupOf, RowsIn
  <2>3. j \in Slots /\ TokenOf(j) = TokenOf(u)
    BY <2>2 DEF SameToken
  <2>4. p = q /\ j = i
    BY <1>4, <2>2, <2>3, OneLies
  <2>5. Marks(topk, q, i)
    BY <2>1, <2>2, <2>4, OnlyUnmarked DEF GroupOf
  <2>6. rows[g.primary] = SetToBag({Token(n, p, u)})
    BY <2>1 DEF GroupOf
  <2>7. Token(n, p, u) = Token(n, q, i)
    BY <2>3, <2>4 DEF Token
  <2> QED
    BY <2>5, <2>6, <2>7
<1>5. ASSUME NEW q \in Ranks, NEW i \in Slots, NEW l \in Rows, Lies(topk, q, i, d, l),
             Marks(topk, q, i)
      PROVE  \E g \in groups : l \in g.rows
  <2>1. PICK u \in SameToken(topk, q, i) : ~Marks(topk, q, u)
    BY UnmarkedFirst
  <2>2. u \in Slots /\ u # i /\ SameToken(topk, q, u) = SameToken(topk, q, i)
    BY <1>5, <2>1, SameTokenIs
  <2>3. i \in SameToken(topk, q, u) \ {u} /\ SameToken(topk, q, u) # {u}
    BY <2>2, SameTokenIs
  <2>4. DestRank(Goes(topk, q, u)) = d
    BY <1>5, <2>1, LiesIs DEF SameToken
  <2>5. PICK p \in Rows : Lies(topk, q, u, d, p)
    BY <2>2, <2>4, EachLies
  <2>6. PICK g \in groups : g.primary = p
    BY <1>1, <2>1, <2>2, <2>3, <2>5, GroupsAre
  <2>7. PICK q2 \in Ranks, u2 \in Slots : GroupOf(topk, d, q2, u2, g)
    BY <1>1, GroupsAre
  <2>8. Lies(topk, q2, u2, d, p)
    BY <2>6, <2>7 DEF GroupOf
  <2>9. q2 = q /\ u2 = u
    BY <2>2, <2>5, <2>8, OneLies
  <2>10. l \in g.rows
    BY <1>5, <2>3, <2>7, <2>9 DEF GroupOf, RowsIn
  <2> QED
    BY <2>10
<1>6. ASSUME NEW q \in Ranks, NEW i \in Slots, NEW l \in Rows, Lies(topk, q, i, d, l)
      PROVE  copied[l] = SetToBag({Token(n, q, i)})
  <2>1. PICK of : of = {g \in groups : l \in g.rows}
    OBVIOUS
  <2>2. CASE of = {}
    <3>1. ~Marks(topk, q, i)
      BY <1>5, <1>6, <2>1, <2>2
    <3>2. rows[l] = SetToBag({Token(n, q, i)})
      BY <1>6, <3>1
    <3> QED
      BY <1>3, <2>1, <2>2, <3>2
  <2>3. CASE of # {}
    <3>1. PICK g : g = (CHOOSE h \in of : TRUE) /\ g \in groups /\ l \in g.rows
      BY <2>1, <2>3
    <3>2. rows[g.primary] = SetToBag({Token(n, q, i)})
      BY <1>4, <1>6, <3>1
    <3> QED
      BY <1>3, <2>1, <2>3, <3>1, <3>2
  <2> QED
    BY <2>2, <2>3
<1>7. ASSUME HoldsPadding(topk, d, rows), NEW l \in Rows, l \in FilledIn(topk, d)
      PROVE  copied[l] = EmptyBag
  <2>1. PICK of : of = {g \in groups : l \in g.rows}
    OBVIOUS
  <2>2. of = {}
    <3> SUFFICES ASSUME NEW g \in groups, l \in g.rows PROVE FALSE
      BY <2>1
    <3>1. PICK p \in Ranks, u \in Slots : GroupOf(topk, d, p, u, g)
      BY <1>1, GroupsAre
    <3>2. PICK j \in SameToken(topk, p, u) : Lies(topk, p, j, d, l)
      BY <3>1 DEF GroupOf, RowsIn
    <3>3. j \in Slots
      BY DEF SameToken
    <3> QED
      BY <1>7, <3>2, <3>3, FilledFree
  <2>3. rows[l] = EmptyBag
    BY <1>7 DEF HoldsPadding
  <2> QED
    BY <1>3, <2>1, <2>2, <2>3
<1>8. HoldsTokens(n, topk, d, copied)
  BY <1>6 DEF HoldsTokens
<1>9. HoldsPadding(topk, d, rows) => HoldsPadding(topk, d, copied)
  BY <1>7 DEF HoldsPadding
<1> QED
  BY <1>1, <1>2, <1>8, <1>9

\* Bags of what a function makes of entries.
LEMMA TallyCounts ==
    ASSUME NEW m, NEW J, J \subseteq Slots, NEW x
    PROVE  /\ IsFiniteSet({i \in J : m[i] = x}) /\ Cardinality({i \in J : m[i] = x}) \in Nat
           /\ x \notin {m[i] : i \in J} => Cardinality({i \in J : m[i] = x}) = 0
<1>1. {i \in J : m[i] = x} \subseteq Slots
  OBVIOUS
<1>2. IsFiniteSet({i \in J : m[i] = x})
  BY <1>1, SlotsFinite, FS_Subset
<1>3. x \notin {m[i] : i \in J} => {i \in J : m[i] = x} = {}
  OBVIOUS
<1> QED
  BY <1>2, <1>3, FS_CardinalityType, FS_EmptySet

LEMMA TallyAdds ==
    ASSUME NEW m, NEW J, J \subseteq Slots, NEW K, K \subseteq Slots, J \cap K = {}
    PROVE  TallyOf(m, J \cup K) = TallyOf(m, J) (+) TallyOf(m, K)
<1> DEFINE At1(S, x) == {i \in S : m[i] = x}
           Of(S) == {m[i] : i \in S}
<1>1. ASSUME NEW x
      PROVE  Cardinality(At1(J \cup K, x)) =
                 (IF x \in Of(J) THEN Cardinality(At1(J, x)) ELSE 0)
                     + (IF x \in Of(K) THEN Cardinality(At1(K, x)) ELSE 0)
  <2>1. PICK A, B, C : A = At1(J, x) /\ B = At1(K, x) /\ C = At1(J \cup K, x)
    OBVIOUS
  <2>2. IsFiniteSet(A) /\ IsFiniteSet(B)
    <3>1. A \subseteq Slots /\ B \subseteq Slots
      BY <2>1
    <3> QED
      BY <3>1, SlotsFinite, FS_Subset
  <2>3. C = A \cup B /\ A \cap B = {}
    BY <2>1
  <2>4. Cardinality(A) \in Nat /\ Cardinality(B) \in Nat
    BY <2>2, FS_CardinalityType
  <2>5. Cardinality(C) = Cardinality(A) + Cardinality(B)
    <3>1. Cardinality(A \cap B) = 0
      BY <2>3, FS_EmptySet
    <3>2. Cardinality(A \cup B) = Cardinality(A) + Cardinality(B) - Cardinality(A \cap B)
      BY <2>2, FS_Union
    <3> QED
      BY <2>3, <2>4, <3>1, <3>2
  <2>6. /\ x \notin Of(J) => Cardinality(A) = 0
        /\ x \notin Of(K) => Cardinality(B) = 0
    <3>1. /\ x \notin {m[i] : i \in J} => Cardinality({i \in J : m[i] = x}) = 0
          /\ x \notin {m[i] : i \in K} => Cardinality({i \in K : m[i] = x}) = 0
      BY TallyCounts
    <3> QED
      BY <2>1, <3>1
  <2>7. Cardinality(C) = (IF x \in Of(J) THEN Cardinality(A) ELSE 0)
                             + (IF x \in Of(K) THEN Cardinality(B) ELSE 0)
    BY <2>4, <2>5, <2>6
  <2> HIDE DEF At1, Of
  <2> QED
    BY <2>1, <2>7
<1>2. Of(J \cup K) = Of(J) \cup Of(K)
  OBVIOUS
<1>3. \A S : TallyOf(m, S) = [x \in Of(S) |-> Cardinality(At1(S, x))]
  BY DEF TallyOf
<1> HIDE DEF At1, Of
<1>4. /\ \A S : DOMAIN TallyOf(m, S) = Of(S)
      /\ \A S : \A x \in Of(S) : TallyOf(m, S)[x] = Cardinality(At1(S, x))
  BY <1>3
<1>5. TallyOf(m, J) (+) TallyOf(m, K) =
          [x \in Of(J) \cup Of(K) |-> (IF x \in Of(J) THEN TallyOf(m, J)[x] ELSE 0)
                                      + (IF x \in Of(K) THEN TallyOf(m, K)[x] ELSE 0)]
  BY <1>4 DEF (+)
<1>6. ASSUME NEW x \in Of(J) \cup Of(K)
      PROVE  Cardinality(At1(J \cup K, x)) =
                 (IF x \in Of(J) THEN TallyOf(m, J)[x] ELSE 0)
                     + (IF x \in Of(K) THEN TallyOf(m, K)[x] ELSE 0)
  BY <1>1, <1>4
<1>7. TallyOf(m, J \cup K) = [x \in Of(J) \cup Of(K) |-> Cardinality(At1(J \cup K, x))]
  BY <1>2, <1>3
<1> QED
  BY <1>5, <1>6, <1>7

LEMMA TallyOne ==
    ASSUME NEW m, NEW i \in Slots
    PROVE  TallyOf(m, {i}) = SetToBag({m[i]})
<1>1. {m[j] : j \in {i}} = {m[i]}
  OBVIOUS
<1>2. {j \in {i} : m[j] = m[i]} = {i}
  OBVIOUS
<1>3. Cardinality({i}) = 1
  BY FS_Singleton
<1>4. TallyOf(m, {i}) = [x \in {m[i]} |-> Cardinality({j \in {i} : m[j] = x})]
  BY <1>1 DEF TallyOf
<1>5. \A x \in {m[i]} : Cardinality({j \in {i} : m[j] = x}) = 1
  BY <1>2, <1>3
<1> QED
  BY <1>4, <1>5 DEF SetToBag

LEMMA TallyNone == ASSUME NEW m PROVE TallyOf(m, {}) = EmptyBag
<1>1. {m[j] : j \in {}} = {}
  OBVIOUS
<1>2. TallyOf(m, {}) = [x \in {} |-> Cardinality({j \in {} : m[j] = x})]
  BY <1>1 DEF TallyOf
<1> QED
  BY <1>2 DEF EmptyBag, SetToBag

\* The recursion by which the prologue adds rows to a base.
IsAdding(rows, base, S, g) ==
    g = [s \in SUBSET S |-> IF s = {} THEN base ELSE g[s \ {Picked(s)}] (+) rows[Picked(s)]]

Added(rows, base, S) == (CHOOSE h : IsAdding(rows, base, S, h))[S]

LEMMA AddedBy ==
    ASSUME NEW rows, NEW base, NEW S, IsFiniteSet(S), NEW g, IsAdding(rows, base, S, g)
    PROVE  Added(rows, base, S) = g[S]
<1>1. PICK h : h = (CHOOSE k : IsAdding(rows, base, S, k)) /\ IsAdding(rows, base, S, h)
  <2>1. \E k : IsAdding(rows, base, S, k)
    OBVIOUS
  <2>2. PICK k : k = (CHOOSE j : IsAdding(rows, base, S, j))
    OBVIOUS
  <2>3. IsAdding(rows, base, S, k)
    BY <2>1, <2>2
  <2> QED
    BY <2>2, <2>3
<1> DEFINE N == {n \in Nat : \A s \in SUBSET S : Cardinality(s) = n => h[s] = g[s]}
<1>2. \A s \in SUBSET S : /\ IsFiniteSet(s) /\ Cardinality(s) \in Nat
                          /\ Cardinality(s) = 0 <=> s = {}
                          /\ s # {} => Picked(s) \in s
  BY FS_Subset, FS_EmptySet, FS_CardinalityType DEF Picked
<1>3. \A s \in SUBSET S :
         /\ h[s] = IF s = {} THEN base ELSE h[s \ {Picked(s)}] (+) rows[Picked(s)]
         /\ g[s] = IF s = {} THEN base ELSE g[s \ {Picked(s)}] (+) rows[Picked(s)]
  BY <1>1 DEF IsAdding
<1>4. 0 \in N
  BY <1>2, <1>3
<1>5. ASSUME NEW n \in Nat, n \in N PROVE n + 1 \in N
  <2> SUFFICES ASSUME NEW s \in SUBSET S, Cardinality(s) = n + 1 PROVE h[s] = g[s]
    OBVIOUS
  <2>1. s # {} /\ Picked(s) \in s
    BY <1>2
  <2>2. Cardinality(s \ {Picked(s)}) = n /\ s \ {Picked(s)} \in SUBSET S
    BY <1>2, <2>1, RemoveOne
  <2>3. h[s \ {Picked(s)}] = g[s \ {Picked(s)}]
    BY <1>5, <2>2
  <2> QED
    BY <1>3, <2>1, <2>3
<1> HIDE DEF N
<1>6. Cardinality(S) \in N
  BY <1>2, <1>4, <1>5, NatInduct
<1> QED
  BY <1>1, <1>6 DEF N, Added

\* Adding the rows of entries to the row of entry i tallies them all.
Image(of, S) == {of[l] : l \in S}
OthersRows(m, rows, i, S, of) ==
    /\ i \in Slots /\ IsFiniteSet(S) /\ of \in [S -> Slots \ {i}]
    /\ \A l, k \in S : of[l] = of[k] => l = k
    /\ \A l \in S : rows[l] = SetToBag({m[of[l]]})

LEMMA RowsAddUp ==
    ASSUME NEW m, NEW rows, NEW i, NEW S, NEW of, OthersRows(m, rows, i, S, of)
    PROVE  Added(rows, SetToBag({m[i]}), S) = TallyOf(m, {i} \cup Image(of, S))
<1> USE DEF OthersRows, Image
<1>0. PICK base : base = SetToBag({m[i]})
  OBVIOUS
<1> DEFINE g == [s \in SUBSET S |-> TallyOf(m, {i} \cup {of[l] : l \in s})]
<1>1. ASSUME NEW s \in SUBSET S, s # {}
      PROVE  g[s] = g[s \ {Picked(s)}] (+) rows[Picked(s)]
  <2>1. PICK k : k = Picked(s) /\ k \in s
    BY <1>1 DEF Picked
  <2>0. PICK t : t = s \ {k} /\ t \in SUBSET S
    OBVIOUS
  <2>2. k \in S /\ of[k] \in Slots /\ of[k] # i
    BY <2>1
  <2>3. PICK L : L = {i} \cup {of[l] : l \in t}
    OBVIOUS
  <2>4. L \subseteq Slots
    BY <2>0, <2>1, <2>3
  <2>5. {i} \cup {of[l] : l \in s} = L \cup {of[k]} /\ L \cap {of[k]} = {}
    BY <2>0, <2>1, <2>2, <2>3
  <2>6. TallyOf(m, L \cup {of[k]}) = TallyOf(m, L) (+) TallyOf(m, {of[k]})
    BY <2>2, <2>4, <2>5, TallyAdds
  <2>7. TallyOf(m, {of[k]}) = rows[k]
    BY <2>2, TallyOne
  <2>8. g[s] = TallyOf(m, L \cup {of[k]}) /\ g[t] = TallyOf(m, L)
    BY <2>0, <2>1, <2>3, <2>5
  <2> HIDE DEF g
  <2> QED
    BY <2>0, <2>1, <2>6, <2>7, <2>8
<1>2. g[{}] = base
  <2>1. {i} \cup {of[l] : l \in {}} = {i}
    OBVIOUS
  <2> QED
    BY <1>0, <2>1, TallyOne
<1>3. g = [s \in SUBSET S |-> g[s]] /\ g[S] = TallyOf(m, {i} \cup {of[l] : l \in S})
  OBVIOUS
<1> HIDE DEF g
<1>4. IsAdding(rows, base, S, g)
  BY <1>1, <1>2, <1>3 DEF IsAdding
<1> QED
  BY <1>0, <1>3, <1>4, AddedBy

LEMMA SummedIs ==
    ASSUME NEW groups, NEW rows, NEW l \in Rows, NEW of, of = {g \in groups : g.primary = l}
    PROVE  SummedFrom(groups, rows)[l] =
               IF of = {} THEN rows[l]
               ELSE Added(rows, rows[l], (CHOOSE g \in of : TRUE).rows)
BY DEF SummedFrom, FoldSet, MapThenFoldSet, Added, IsAdding, Picked

\* What the ranks gather, once the rows of each group are added to the unmarked one.
LEMMA SumsArrive ==
    ASSUME NEW topk \in Routings, NEW d \in Ranks, NEW info, Knows(topk, d, info), NEW n, NEW rows,
           HoldsResults(n, topk, d, rows)
    PROVE  HoldsSums(n, topk, d, SummedFrom(DupGroups(info), rows))
<1> SUFFICES ASSUME NEW q \in Ranks, NEW i \in Slots, NEW l \in Rows, Lies(topk, q, i, d, l),
                    ~Marks(topk, q, i)
             PROVE  SummedFrom(DupGroups(info), rows)[l] = Tally(n, topk, q, SameToken(topk, q, i))
  BY DEF HoldsSums
<1>1. PICK groups, of : groups = DupGroups(info) /\ of = {g \in groups : g.primary = l}
  OBVIOUS
<1>2. PICK m : m = [j \in Slots |-> Made(n, topk, q, j)]
  OBVIOUS
<1>3. PICK K, J : K = SameToken(topk, q, i) /\ J = K \ {i}
  OBVIOUS
<1>4. K \subseteq Slots /\ i \in K /\ J \subseteq Slots \ {i} /\ K = {i} \cup J
  BY <1>3, SameTokenIs
<1>5. Tally(n, topk, q, K) = TallyOf(m, K)
  BY <1>2 DEF Tally
<1>6. ASSUME NEW j \in Slots, NEW k \in Rows, Lies(topk, q, j, d, k)
      PROVE  rows[k] = SetToBag({m[j]})
  BY <1>2, <1>6 DEF HoldsResults
<1>7. CASE of = {}
  <2>1. K = {i}
    BY <1>1, <1>3, <1>7, GroupsAre
  <2>2. SummedFrom(groups, rows)[l] = rows[l]
    BY <1>1, <1>7, SummedIs
  <2>3. rows[l] = TallyOf(m, {i})
    BY <1>6, TallyOne
  <2> QED
    BY <1>1, <1>3, <1>5, <2>1, <2>2, <2>3
<1>8. CASE of # {}
  <2>1. PICK g : g = (CHOOSE h \in of : TRUE) /\ g \in groups /\ g.primary = l
    BY <1>1, <1>8
  <2>2. PICK p \in Ranks, u \in Slots : GroupOf(topk, d, p, u, g)
    <3>1. \A h \in groups : \E p \in Ranks, u \in Slots : GroupOf(topk, d, p, u, h)
      BY <1>1, GroupsAre
    <3> QED
      BY <2>1, <3>1
  <2>3. p = q /\ u = i
    BY <2>1, <2>2, OneLies DEF GroupOf
  <2>4. PICK S : S = g.rows /\ S = RowsIn(topk, d, q, J)
    BY <1>3, <2>2, <2>3 DEF GroupOf
  <2>5. S \subseteq Rows /\ \A k \in S : \E j \in J : Lies(topk, q, j, d, k)
    BY <2>4 DEF RowsIn
  <2>6. PICK entry : entry = [k \in S |-> CHOOSE j \in J : Lies(topk, q, j, d, k)]
    OBVIOUS
  <2>7. entry \in [S -> J] /\ \A k \in S : Lies(topk, q, entry[k], d, k)
    BY <2>5, <2>6
  <2>8. ASSUME NEW h \in S, NEW k \in S, entry[h] = entry[k] PROVE h = k
    <3>1. PICK j \in Slots : j = entry[h] /\ Lies(topk, q, j, d, h) /\ Lies(topk, q, j, d, k)
      BY <1>4, <2>7, <2>8
    <3> QED
      BY <2>5, <3>1, LiesIs
  <2>9. J = {entry[k] : k \in S}
    <3>1. ASSUME NEW j \in J PROVE \E k \in S : j = entry[k]
      <4>1. j \in Slots /\ j \in SameToken(topk, q, i)
        BY <1>3, <1>4
      <4>2. DestRank(Goes(topk, q, j)) = d
        BY <4>1, LiesIs DEF SameToken
      <4>3. PICK k \in Rows : Lies(topk, q, j, d, k)
        BY <4>1, <4>2, EachLies
      <4>4. k \in S
        BY <2>4, <4>3 DEF RowsIn
      <4>5. entry[k] \in Slots /\ Lies(topk, q, entry[k], d, k)
        BY <1>4, <2>7, <4>4
      <4>6. j = entry[k]
        BY <4>1, <4>3, <4>5, OneLies
      <4> QED
        BY <4>4, <4>6
    <3> QED
      BY <2>7, <3>1
  <2>10. \A k \in S : rows[k] = SetToBag({m[entry[k]]})
    BY <1>4, <1>6, <2>5, <2>7
  <2>11. IsFiniteSet(S)
    <3>1. IsFiniteSet(Rows)
      BY SizesNat, FS_Interval DEF Rows
    <3> QED
      BY <2>5, <3>1, FS_Subset
  <2>12. PICK base : base = rows[l] /\ base = SetToBag({m[i]})
    BY <1>6
  <2>14. Added(rows, SetToBag({m[i]}), S) = TallyOf(m, {i} \cup Image(entry, S))
    <3>1. \A h, k \in S : entry[h] = entry[k] => h = k
      BY <2>8
    <3>2. entry \in [S -> Slots \ {i}]
      BY <1>4, <2>7
    <3>3. OthersRows(m, rows, i, S, entry)
      BY <2>10, <2>11, <3>1, <3>2 DEF OthersRows
    <3> QED
      BY <3>3, RowsAddUp
  <2>16. TallyOf(m, {i} \cup Image(entry, S)) = TallyOf(m, K)
    BY <1>4, <2>9 DEF Image
  <2>15. SummedFrom(groups, rows)[l] = Added(rows, base, S)
    <3>1. SummedFrom(groups, rows)[l] =
              IF of = {} THEN rows[l]
              ELSE Added(rows, rows[l], (CHOOSE h \in of : TRUE).rows)
      BY <1>1, SummedIs
    <3> QED
      BY <1>8, <2>1, <2>4, <2>12, <3>1
  <2> QED
    BY <1>1, <1>3, <1>5, <2>12, <2>14, <2>15, <2>16
<1> QED
  BY <1>7, <1>8
-----------------------------------------------------------------------------
(* Dispatch and combine on all ranks: the plan a rank has, and what has been sent. *)

\* What a rank with a plan knows: its peers have all stored where their entries are.
LEMMA PlanKnown ==
    ASSUME OrderInv, NEW d \in Ranks, pc[d] = "planned", NEW topk, topk = routing[round[d]]
    PROVE  /\ topk \in Routings /\ Knows(topk, d, srcInfo[d])
           /\ plan[d].dst = DstIn(topk, d) /\ plan[d].layout = LayoutOf(AllocIn(topk), d)
<1>1. InOrder /\ PInv /\ PlansMade /\ SourcesInv
  BY DEF OrderInv, PInv
<1>2. topk \in Routings
  BY <1>1, InRound
<1>3. plan[d].dst = DstIn(topk, d) /\ plan[d].layout = LayoutOf(AllocIn(topk), d)
  BY <1>1 DEF PlansMade, RankMade
<1>4. PICK n \in Nat : n = round[d]
  BY <1>1, PlaceTypes
<1>5. ASSUME NEW q \in Ranks, NEW i \in Slots PROVE <<q, i>> \in Done(n)
  <2>1. PICK m \in Nat : m = round[q]
    BY <1>1, PlaceTypes
  <2>2. LastPassed(d) = 8 * n + 5 /\ LastPassed(d) <= Place(q)
    BY <1>1, <1>4 DEF LastPassed, InOrder
  <2>3. Place(q) <= 8 * m + 7 /\ Place(q) \in Nat /\ pc[q] \in PlanLabels
    BY <1>1, <2>1, PlaceTypes
  <2>4. m >= n
    BY <2>2, <2>3
  <2>5. m = n => pc[q] \in AllStored
    <3>1. ASSUME m = n, pc[q] \notin AllStored PROVE Place(q) <= 8 * n + 4
      BY <2>1, <2>3, <3>1 DEF Place, AllStored, PlanLabels
    <3> QED
      BY <2>2, <2>3, <3>1
  <2>6. m > n \/ m = n
    BY <2>4
  <2>7. i \in DoneBy(n, q)
    BY <2>1, <2>5, <2>6 DEF DoneBy
  <2> QED
    BY <2>7 DEF Done
<1>6. Done(n) = Ranks \X Slots
  <2>1. Done(n) \subseteq Ranks \X Slots
    BY DEF Done
  <2> QED
    BY <1>5, <2>1
<1>7. Collected(topk, d, Done(n), srcInfo[d])
  BY <1>1, <1>4 DEF SourcesInv, Cleared
<1> QED
  BY <1>2, <1>3, <1>6, <1>7 DEF Knows

\* Who has the plan of its call.
PlanOfCall(d) ==
    \/ step[d] \in {"scatter", "dispatched", "received", "computed", "gather", "combined"}
    \/ step[d] \in {"start", "sync"} /\ Op(d).kind # "fresh"

LEMMA HasPlan ==
    ASSUME OrderInv, NEW d \in Ranks, PlanOfCall(d), NEW topk, topk = RoutingOf(call[d])
    PROVE  /\ pc[d] = "planned" /\ round[d] = FreshTo(call[d])
           /\ topk \in Routings /\ Knows(topk, d, srcInfo[d])
           /\ plan[d].dst = DstIn(topk, d) /\ plan[d].layout = LayoutOf(AllocIn(topk), d)
<1>1. InOrder /\ ControlOK
  BY DEF OrderInv, PInv
<1>2. InCall(d) /\ call[d] \in 0 .. Len(program.ops) /\ Len(program.ops) \in Nat
  BY <1>1, ProgramFacts DEF ControlOK
<1>3. PICK c \in Nat : c = call[d] /\ c # 0
  BY <1>2 DEF InCall, PlanOfCall
<1>4. FreshTo(c) >= 1 /\ FreshTo(c) \in Nat
  <2>1. 1 \in 1 .. Len(program.ops)
    BY <1>2, <1>3
  <2>2. program.ops[1].kind = "fresh"
    BY <1>1, <2>1, ProgramFacts
  <2>3. FreshTo(0 + 1) = FreshTo(0) + 1 /\ FreshTo(0) = 0
    BY <2>2, FreshCounts
  <2>4. PICK one \in Nat : one = 1 /\ FreshTo(one) = 1
    BY <2>3
  <2>5. FreshTo(one) <= FreshTo(c) /\ FreshTo(c) \in Nat
    BY <1>3, <2>4, FreshCounts
  <2> QED
    BY <2>4, <2>5
<1>5. round[d] = FreshTo(c) /\ pc[d] \in {"idle", "planned"}
  BY <1>2, <1>3 DEF InCall, PlanOfCall
<1>6. pc[d] = "planned"
  BY <1>1, <1>4, <1>5, PlaceTypes
<1>7. topk = routing[round[d]]
  BY <1>3, <1>5 DEF RoutingOf
<1> QED
  BY <1>3, <1>5, <1>6, <1>7, PlanKnown

\* Where the row of an entry of a rank is written and read.
LEMMA EntryOf ==
    ASSUME OrderInv, NEW r \in Ranks, PlanOfCall(r), NEW i \in Slots,
           NEW v, v = plan[r].dst[i], NEW topk, topk = RoutingOf(call[r])
    PROVE  /\ Marks(topk, r, i) <=> v < 0
           /\ DestRank(Canonical(v)) \in Ranks /\ DestRow(Canonical(v)) \in Rows
           /\ Lies(topk, r, i, DestRank(Canonical(v)), DestRow(Canonical(v)))
<1>1. topk \in Routings /\ plan[r].dst = DstIn(topk, r)
  BY HasPlan
<1>2. Canonical(v) = Goes(topk, r, i)
  BY <1>1 DEF Goes
<1>3. Marks(topk, r, i) <=> v < 0
  BY <1>1 DEF Marks
<1> QED
  BY <1>1, <1>2, <1>3, EachLies

\* Entry i of rank q has been scattered in dispatch n.
HasSent(n, q, i) ==
    \/ call[q] > n
    \/ /\ call[q] = n
       /\ \/ step[q] \in {"dispatched", "received", "computed"}
          \/ step[q] = "scatter" /\ i \notin pending[q]
Sent(n) == {x \in Ranks \X Slots : HasSent(n, x[1], x[2])}

Dispatches(n) == n \in 1 .. Len(program.ops) /\ program.ops[n].kind # "combine"

\* A rank sends an entry in a step of its scatter, and in no other.
LEMMA SentBefore ==
    ASSUME OrderInv, NEW r \in Ranks, Step(r), NEW n, Dispatches(n), NEW q \in Ranks,
           NEW i \in Slots, HasSent(n, q, i)', ~HasSent(n, q, i)
    PROVE  q = r /\ Scatter(r) /\ call[r] = n /\ i \in pending[r] \ pending'[r]
<1>1. InOrder /\ ControlOK
  BY DEF OrderInv, PInv
<1>2. /\ InCall(r) /\ call[r] \in 0 .. Len(program.ops) /\ Len(program.ops) \in Nat
      /\ DOMAIN call = Ranks /\ DOMAIN step = Ranks /\ DOMAIN pending = Ranks
  BY <1>1, ProgramFacts DEF ControlOK
<1>3. n \in Nat /\ n >= 1 /\ call[r] \in Nat
  BY <1>2 DEF Dispatches
<1>4. q = r
  <2>1. ASSUME q # r PROVE call'[q] = call[q] /\ step'[q] = step[q] /\ pending'[q] = pending[q]
    BY <1>1, <2>1, OthersInCall
  <2> QED
    BY <2>1 DEF HasSent
<1>5. \/ call'[r] > n
      \/ /\ call'[r] = n
         /\ \/ step'[r] \in {"dispatched", "received", "computed"}
            \/ step'[r] = "scatter" /\ i \notin pending'[r]
  BY <1>4 DEF HasSent
<1>6. /\ ~(call[r] > n)
      /\ call[r] = n => /\ step[r] \notin {"dispatched", "received", "computed"}
                        /\ step[r] = "scatter" => i \in pending[r]
  BY <1>4 DEF HasSent
<1>7. CASE StartCall(r)
  <2>1. /\ step[r] \in {"idle", "computed", "combined"} /\ call' = [call EXCEPT ![r] = call[r] + 1]
        /\ step'[r] \in {"start", "sync"}
    BY <1>2, <1>7 DEF StartCall, GoOn
  <2>2. call[r] = n
    BY <1>2, <1>3, <1>5, <1>6, <2>1
  <2>3. step[r] = "combined" => Op(r).kind = "combine"
    BY <1>2 DEF InCall, InCombine
  <2>4. step[r] = "idle" => call[r] = 0
    BY <1>2 DEF InCall
  <2> QED
    BY <1>3, <1>6, <2>1, <2>2, <2>3, <2>4 DEF Dispatches, Op
<1>8. CASE StartDispatch(r)
  <2>1. /\ UNCHANGED call /\ pending'[r] = Slots /\ step'[r] \in {"planning", "scatter"}
    BY <1>2, <1>8 DEF StartDispatch, GoOn, Grid
  <2> QED
    BY <1>5, <1>6, <2>1
<1>9. CASE Plan(r)
  <2>1. UNCHANGED <<call, pending>> /\ step[r] = "planning" /\ step'[r] \in {"planning", "scatter"}
    BY <1>2, <1>9 DEF Plan, GoOn
  <2>2. pending[r] = Slots
    BY <1>2, <2>1 DEF InCall
  <2> QED
    BY <1>5, <1>6, <2>1, <2>2
<1>10. CASE Scatter(r)
  <2>1. UNCHANGED <<call, step>> /\ step[r] = "scatter"
    BY <1>10, ScatterIs
  <2> QED
    BY <1>4, <1>5, <1>6, <1>10, <2>1
<1>11. CASE FinishScatter(r)
  <2>1. UNCHANGED <<call, pending>> /\ step[r] = "scatter" /\ pending[r] = {}
    BY <1>11, FinishIs
  <2> QED
    BY <1>5, <1>6, <2>1
<1>12. CASE Epilogue(r) \/ Compute(r)
  <2>1. UNCHANGED call /\ step[r] \in {"dispatched", "received"}
    BY <1>12 DEF Epilogue, Compute
  <2> QED
    BY <1>5, <1>6, <2>1
<1>13. CASE Prologue(r) \/ Gather(r)
  <2>1. UNCHANGED call /\ step'[r] \in {"gather", "combined"}
    BY <1>2, <1>13 DEF Prologue, Gather, GoOn
  <2> QED
    BY <1>5, <1>6, <2>1
<1> QED
  BY <1>7, <1>8, <1>9, <1>10, <1>11, <1>12, <1>13 DEF Step

\* Before a rank comes to a call, nobody has sent anything in it.
LEMMA NoneSentAhead ==
    ASSUME OrderInv, NEW d \in Ranks, NEW n \in Nat, n > call[d], step[d] \notin {"start", "sync", "planning"},
           NEW q \in Ranks, NEW i \in Slots
    PROVE  ~HasSent(n, q, i)
<1> SUFFICES ASSUME HasSent(n, q, i) PROVE FALSE
  OBVIOUS
<1>1. InOrder /\ ControlOK /\ InMeeting
  BY DEF OrderInv, PInv
<1>2. PICK c \in Nat, m \in Nat : c = call[d] /\ m = call[q] /\ n >= c + 1
  BY <1>1, AtIs
<1>3. At(d) \in Nat /\ At(d) <= 8 * c + 6 /\ LastMet(q) \in Nat /\ LastMet(q) <= At(d)
  BY <1>1, <1>2, AtIs DEF InMeeting
<1>4. CASE m > n
  <2>1. m >= 2 /\ m >= c + 2
    BY <1>2, <1>4
  <2>2. LastMet(q) >= 8 * m - 2
    BY <1>2, <2>1 DEF LastMet
  <2> QED
    BY <1>2, <1>3, <2>1, <2>2
<1>5. CASE m = n /\ step[q] \in {"scatter", "dispatched", "received", "computed"}
  <2>1. LastMet(q) >= 8 * m + 1
    BY <1>2, <1>5 DEF LastMet
  <2> QED
    BY <1>2, <1>3, <1>5, <2>1
<1> QED
  BY <1>2, <1>4, <1>5 DEF HasSent

\* When a rank gets past the barrier of a dispatch, everybody has sent everything.
LEMMA AllSent ==
    ASSUME OrderInv, NEW r \in Ranks, step[r] = "dispatched", BarrierOpen(r)
    PROVE  Sent(call[r]) = Ranks \X Slots
<1>1. InOrder /\ ControlOK /\ InMeeting
  BY DEF OrderInv, PInv
<1>2. PICK c \in Nat : c = call[r]
  BY <1>1, AtIs
<1>3. At(r) = 8 * c + 6
  BY <1>2 DEF At, Part
<1>4. Op(r).kind # "combine"
  BY <1>1 DEF ControlOK, InCall, InDispatch
<1>5. ASSUME NEW q \in Ranks, NEW i \in Slots PROVE HasSent(c, q, i)
  <2>1. At(q) >= At(r)
    BY <1>1, OpenBuffer DEF Waits, CallBarriers
  <2>2. PICK m \in Nat, k \in 0 .. 6 : m = call[q] /\ k = Part(q) /\ At(q) = 8 * m + k
    BY <1>1, AtIs DEF At
  <2>3. m > c \/ (m = c /\ k = 6)
    BY <1>3, <2>1, <2>2
  <2>4. m = c => Op(q) = Op(r)
    BY <1>2, <2>2 DEF Op
  <2>5. step[q] \in InCombine => Op(q).kind = "combine"
    BY <1>1 DEF ControlOK, InCall
  <2>6. k = 6 => step[q] \in {"dispatched", "received", "computed", "gather", "combined"}
    <3>1. step[q] \in BufferSteps
      BY <1>1 DEF ControlOK
    <3> QED
      BY <2>2, <3>1 DEF Part, BufferSteps
  <2> QED
    BY <1>4, <2>2, <2>3, <2>4, <2>5, <2>6 DEF HasSent, InCombine
<1> QED
  BY <1>2, <1>5 DEF Sent
-----------------------------------------------------------------------------
(* Dispatch and combine on all ranks: what the rows hold at each point of a call. *)

\* The rows of rank d have what has been sent of dispatch n, with the weights if w.
HasArrived(w, n, topk, d, sent, rows, wts) ==
    \A q \in Ranks, i \in Slots, l \in Rows :
        <<q, i>> \in sent /\ Lies(topk, q, i, d, l) =>
            /\ ~Marks(topk, q, i) => rows[l] = SetToBag({Token(n, q, i)})
            /\ w => wts[l] = <<n, q, i>>

\* The rows that the caller finds, those it has computed, and the sums that are gathered.
HasRows(w, n, topk, d, view) ==
    /\ HoldsTokens(n, topk, d, view.rows) /\ HoldsPadding(topk, d, view.rows)
    /\ w => HoldsWeights(n, topk, d, view.weights)
HasOutputs(w, n, topk, d, view) ==
    /\ HoldsResults(n, topk, d, view.rows)
    /\ w => HoldsWeights(n, topk, d, view.weights)
HasSums(w, n, topk, d, rows, wts) ==
    /\ HoldsSums(n, topk, d, rows)
    /\ w => HoldsWeights(n, topk, d, wts)

Coming == {"start", "sync", "planning", "scatter", "dispatched"}
ComesIn(d) ==
    step[d] \in Coming /\ Op(d).kind # "combine" =>
        HasArrived(program.weighted, call[d], RoutingOf(call[d]), d, Sent(call[d]),
                   hidden[d], weights[d])
HasDups(d) ==
    pc[d] = "planned" /\ ~(step[d] = "scatter" /\ Op(d).kind = "fresh") =>
        dups[d] = DupGroups(srcInfo[d])
IsPadded(d) == step[d] = "dispatched" => HoldsPadding(RoutingOf(call[d]), d, hidden[d])
HasReceived(d) ==
    step[d] = "received" =>
        HasRows(program.weighted, call[d], RoutingOf(call[d]), d, View(d))
HasComputed(d) ==
    /\ step[d] = "computed" =>
          HasOutputs(program.weighted, call[d], RoutingOf(call[d]), d, View(d))
    /\ step[d] \in {"start", "sync"} /\ Op(d).kind = "combine" =>
          HasOutputs(program.weighted, call[d] - 1, RoutingOf(call[d]), d, View(d))

\* While a rank gathers, the ranks that are at the gather too, or beyond, have their sums.
HaveSums(r) ==
    step[r] = "gather" => \A d \in Ranks : At(d) >= At(r) =>
        HasSums(program.weighted, call[r] - 1, RoutingOf(call[r]), d, hidden[d], weights[d])

DispatchInv == \A d \in Ranks : ComesIn(d) /\ HasDups(d) /\ IsPadded(d) /\ HasReceived(d)
CombineInv == \A d \in Ranks : HasComputed(d) /\ HaveSums(d)

\* What a step leaves as it is.
LEMMA RoutingStays ==
    ASSUME OrderInv, NEW r \in Ranks, Step(r), NEW d, NEW n, n = call'[d]
    PROVE  program' = program /\ RoutingOf(call[d])' = RoutingOf(n)
<1>1. program' = program /\ routing' = routing
  BY OthersInCall DEF OrderInv, PInv
<1> QED
  BY <1>1 DEF RoutingOf, FreshTo

LEMMA OthersStay ==
    ASSUME BufferOrder, NEW r \in Ranks, Step(r), NEW d \in Ranks, d # r
    PROVE  /\ call'[d] = call[d] /\ step'[d] = step[d] /\ pc'[d] = pc[d]
           /\ pending'[d] = pending[d] /\ Op(d)' = Op(d) /\ At(d)' = At(d)
           /\ RoutingOf(call[d])' = RoutingOf(call[d])
<1>1. /\ program' = program /\ call'[d] = call[d] /\ step'[d] = step[d] /\ pc'[d] = pc[d]
      /\ pending'[d] = pending[d]
  BY OthersInCall DEF BufferOrder, OrderInv, PInv
<1>2. RoutingOf(call[d])' = RoutingOf(call[d])
  BY <1>1, RoutingStays DEF BufferOrder
<1> QED
  BY <1>1, <1>2 DEF Op, At, Part

LEMMA SourcesStay ==
    ASSUME OrderInv, NEW r \in Ranks, Step(r), NEW d \in Ranks, pc[d] = "planned", pc'[d] = "planned"
    PROVE  srcInfo'[d] = srcInfo[d]
<1>1. InOrder /\ ControlOK /\ InMeeting
  BY DEF OrderInv, PInv
<1>2. Turn
  BY <1>1, BufferTurn DEF BufferNext
<1> QED
  BY <1>1, <1>2, StepKeepsSources

LEMMA NextComesIn ==
    ASSUME BufferOrder, ControlOK', NEW r \in Ranks, Step(r), NEW d \in Ranks, ComesIn(d)
    PROVE  ComesIn(d)'
<1> SUFFICES ASSUME step'[d] \in Coming, Op(d)'.kind # "combine"
             PROVE  HasArrived(program.weighted, call[d], RoutingOf(call[d]), d, Sent(call[d]),
                               hidden[d], weights[d])'
  BY DEF ComesIn
<1>0. OrderInv /\ RowsOK /\ InOrder /\ ControlOK
  BY DEF BufferOrder, OrderInv, PInv
<1>1. PICK n, topk, w : n = call'[d] /\ topk = RoutingOf(n) /\ w = program.weighted
  OBVIOUS
<1>2. program' = program /\ RoutingOf(call[d])' = topk
  BY <1>0, <1>1, RoutingStays
<1>3. n \in 1 .. Len(program.ops) /\ Dispatches(n) /\ n \in Nat
  <2>1. call'[d] \in 0 .. Len(program.ops) /\ InCall(d)' /\ Len(program.ops) \in Nat
    BY <1>0, <1>2, ProgramFacts DEF ControlOK
  <2>2. call'[d] # 0
    BY <2>1 DEF InCall, Coming
  <2> QED
    BY <1>1, <1>2, <2>1, <2>2 DEF Dispatches, Op
<1>4. ASSUME NEW q \in Ranks, NEW i \in Slots PROVE <<q, i>> \in Sent(call[d])' <=> HasSent(n, q, i)'
  BY <1>1 DEF Sent, HasSent
<1>5. SUFFICES ASSUME NEW q \in Ranks, NEW i \in Slots, NEW l \in Rows,
                      HasSent(n, q, i)', Lies(topk, q, i, d, l)
               PROVE  /\ ~Marks(topk, q, i) => hidden'[d][l] = SetToBag({Token(n, q, i)})
                      /\ w => weights'[d][l] = <<n, q, i>>
  BY <1>1, <1>2, <1>4 DEF HasArrived
\* What had been sent before had arrived.
<1>6. ASSUME call[d] = n, step[d] \in Coming, HasSent(n, q, i)
      PROVE  /\ ~Marks(topk, q, i) => hidden[d][l] = SetToBag({Token(n, q, i)})
             /\ w => weights[d][l] = <<n, q, i>>
  <2>1. Op(d).kind # "combine"
    BY <1>1, <1>2, <1>6 DEF Op
  <2>2. HasArrived(w, n, topk, d, Sent(n), hidden[d], weights[d])
    BY <1>1, <1>6, <2>1 DEF ComesIn
  <2>3. <<q, i>> \in Sent(n)
    BY <1>6 DEF Sent
  <2> QED
    BY <1>5, <2>2, <2>3 DEF HasArrived
<1>7. CASE Scatter(r)
  <2>1. step[r] = "scatter" /\ UNCHANGED <<call, step>>
    BY <1>7, ScatterIs
  <2>2. call[d] = n /\ call[r] = n /\ step[d] \in Coming
    BY <1>0, <1>1, <2>1, ScatterTogether DEF Coming
  <2>3. PICK j \in pending[r] : \E v, e, k : Sends(r, j, v, e, k)
    BY <1>7, ScatterIs
  <2>4. PICK v, e, k : Sends(r, j, v, e, k)
    BY <2>3
  <2>5. pending[r] \subseteq Slots /\ pending'[r] = pending[r] \ {j}
    BY <1>0, <2>4 DEF Sends, ControlOK
  <2>6. /\ Marks(topk, r, j) <=> v < 0
        /\ e \in Ranks /\ k \in Rows /\ Lies(topk, r, j, e, k)
    BY <1>0, <1>1, <2>1, <2>2, <2>4, <2>5, EntryOf DEF Sends, PlanOfCall
  <2>7. topk \in Routings
    BY <1>0, <1>1, <2>1, <2>2, HasPlan DEF PlanOfCall
  <2>8. CASE e = d /\ k = l
    <3>1. q = r /\ i = j
      BY <1>5, <2>5, <2>6, <2>7, <2>8, OneLies
    <3>2. ~(v < 0) => hidden'[d][l] = SetToBag({<<n, r, TokenOf(j)>>})
      BY <1>0, <2>2, <2>4, <2>8 DEF Sends, RowsOK
    <3>3. w => weights'[d][l] = <<n, r, j>>
      BY <1>0, <1>1, <2>2, <2>4, <2>8 DEF Sends, RowsOK
    <3> QED
      BY <2>6, <3>1, <3>2, <3>3 DEF Token
  <2>9. CASE ~(e = d /\ k = l)
    <3>1. hidden'[d][l] = hidden[d][l] /\ weights'[d][l] = weights[d][l]
      BY <1>0, <2>4, <2>9 DEF Sends, RowsOK
    <3>2. ~(q = r /\ i = j)
      BY <1>5, <2>6, <2>7, <2>9, LiesIs
    <3>3. HasSent(n, q, i)
      <4> SUFFICES ASSUME ~HasSent(n, q, i) PROVE FALSE
        OBVIOUS
      <4>1. q = r /\ i \in pending[r] \ pending'[r]
        BY <1>0, <1>3, <1>5, SentBefore
      <4> QED
        BY <2>5, <3>2, <4>1
    <3> QED
      BY <1>6, <2>2, <3>1, <3>3
  <2> QED
    BY <2>8, <2>9
<1>8. ~Scatter(r) => HasSent(n, q, i)
  BY <1>0, <1>3, <1>5, SentBefore
<1>9. CASE ~Scatter(r) /\ d # r
  <2>1. call[d] = n /\ step[d] \in Coming
    BY <1>1, <1>9, OthersStay
  <2>2. RowsKept(d)
    BY <1>0, <1>9, OthersWrite
  <2> QED
    BY <1>6, <1>8, <1>9, <2>1, <2>2 DEF RowsKept
<1>10. CASE ~Scatter(r) /\ d = r
  <2>0. DOMAIN call = Ranks /\ DOMAIN step = Ranks
    BY <1>0 DEF ControlOK
  <2>1. CASE StartCall(r)
    <3>1. n = call[d] + 1 /\ step[d] \in {"idle", "computed", "combined"} /\ call[d] \in Nat
      BY <1>0, <1>1, <1>10, <2>0, <2>1, AtIs DEF StartCall
    <3>2. n > call[d] /\ step[d] \notin {"start", "sync", "planning"}
      BY <3>1
    <3>3. ~HasSent(n, q, i)
      BY <1>0, <1>3, <3>2, NoneSentAhead
    <3> QED
      BY <1>8, <1>10, <3>3
  <2>2. CASE StartDispatch(r) \/ Plan(r)
    <3>1. UNCHANGED <<call, hidden, weights>> /\ step[d] \in Coming
      BY <1>10, <2>2 DEF StartDispatch, Plan, Started, Coming, buffers
    <3> QED
      BY <1>1, <1>6, <1>8, <1>10, <3>1
  <2>3. CASE FinishScatter(r)
    <3>1. step[d] = "scatter" /\ call[d] = n
      BY <1>1, <1>10, <2>3, FinishIs
    <3>2. PICK padding : /\ padding = PaddingRows(plan[d].layout.zeroFill)
                         /\ hidden' = [hidden EXCEPT ![d] = ClearedBy(hidden[d], padding, EmptyBag)]
                         /\ weights' = weights
                            \/ weights' = [weights EXCEPT ![d] = ClearedBy(weights[d], padding, NoWeight)]
      BY <1>10, <2>3, FinishIs
    <3>3. topk \in Routings /\ plan[d].layout = LayoutOf(AllocIn(topk), d)
      BY <1>0, <1>1, <3>1, HasPlan DEF PlanOfCall
    <3>4. l \notin padding
      BY <1>5, <3>2, <3>3, FilledFree DEF FilledIn
    <3>5. hidden'[d][l] = hidden[d][l] /\ weights'[d][l] = weights[d][l]
      BY <1>0, <3>2, <3>4 DEF ClearedBy, RowsOK
    <3> QED
      BY <1>6, <1>8, <1>10, <3>1, <3>5 DEF Coming
  <2>4. CASE Epilogue(r) \/ Compute(r) \/ Prologue(r) \/ Gather(r)
    <3>1. step'[d] \notin Coming
      BY <1>10, <2>0, <2>4 DEF Epilogue, Compute, Prologue, Gather, GoOn, Coming
    <3> QED
      BY <3>1
  <2> QED
    BY <1>10, <2>1, <2>2, <2>3, <2>4 DEF Step
<1> QED
  BY <1>7, <1>9, <1>10

LEMMA NextHasDups ==
    ASSUME BufferOrder, NEW r \in Ranks, Step(r), NEW d \in Ranks, HasDups(d)
    PROVE  HasDups(d)'
<1> SUFFICES ASSUME pc'[d] = "planned", ~(step'[d] = "scatter" /\ Op(d)'.kind = "fresh")
             PROVE  dups'[d] = DupGroups(srcInfo'[d])
  BY DEF HasDups
<1>0. OrderInv /\ RowsOK /\ InOrder /\ ControlOK
  BY DEF BufferOrder, OrderInv, PInv
<1>1. /\ DOMAIN step = Ranks /\ DOMAIN pc = Ranks /\ DOMAIN dups = Ranks /\ InCall(d)
  BY <1>0 DEF ControlOK, RowsOK, InOrder, PlanningTypeOK
<1>2. ASSUME pc[d] = "planned", step[d] # "scatter" \/ Op(d).kind # "fresh", dups'[d] = dups[d]
      PROVE  dups'[d] = DupGroups(srcInfo'[d])
  <2>1. srcInfo'[d] = srcInfo[d]
    BY <1>0, <1>2, SourcesStay
  <2> QED
    BY <1>2, <2>1 DEF HasDups
<1>3. CASE d # r
  <2>1. dups'[d] = dups[d]
    BY <1>0, <1>3, OthersWrite DEF OwnKept
  <2>2. pc'[d] = pc[d] /\ step'[d] = step[d] /\ Op(d)' = Op(d)
    BY <1>3, OthersStay
  <2> QED
    BY <1>2, <2>1, <2>2
<1>4. CASE d = r
  <2>1. CASE StartCall(r)
    BY <1>2, <1>4, <2>1 DEF StartCall
  <2>2. CASE StartDispatch(r)
    <3>1. step[r] \in {"start", "sync"} /\ UNCHANGED dups
      BY <2>2 DEF StartDispatch, Started
    <3>2. ~StartPlanning(r)
      BY <1>1, <1>4 DEF StartPlanning, Goto
    <3>3. UNCHANGED pc
      BY <2>2, <3>2 DEF StartDispatch, planVars
    <3> QED
      BY <1>2, <1>4, <3>1, <3>3
  <2>3. CASE Plan(r)
    <3>1. step[r] = "planning" /\ step'[r] = "scatter" /\ UNCHANGED <<program, call>>
      BY <1>1, <1>4, <2>3 DEF Plan, GoOn
    <3>2. Op(r)' = Op(r) /\ Op(r).kind = "fresh"
      BY <1>1, <1>4, <3>1 DEF InCall, Op
    <3> QED
      BY <1>4, <3>1, <3>2
  <2>4. CASE Scatter(r)
    <3>1. UNCHANGED <<program, call, step, dups, pc>>
      BY <2>4, ScatterIs DEF planVars
    <3>2. Op(d)' = Op(d)
      BY <3>1 DEF Op
    <3> QED
      BY <1>2, <3>1, <3>2
  <2>5. CASE FinishScatter(r)
    <3>1. /\ UNCHANGED <<pc, srcInfo>>
          /\ dups' = IF Op(r).kind = "fresh" THEN [dups EXCEPT ![r] = DupGroups(srcInfo[r])] ELSE dups
      BY <2>5, FinishIs DEF turnVars, shared
    <3> QED
      BY <1>1, <1>2, <1>4, <3>1
  <2>6. CASE Epilogue(r) \/ Compute(r) \/ Prologue(r) \/ Gather(r)
    <3>1. UNCHANGED <<pc, dups>> /\ step[r] # "scatter"
      BY <2>6 DEF Epilogue, Compute, Prologue, Gather, planVars, Started
    <3> QED
      BY <1>2, <1>4, <3>1
  <2> QED
    BY <2>1, <2>2, <2>3, <2>4, <2>5, <2>6 DEF Step
<1> QED
  BY <1>3, <1>4

LEMMA NextIsPadded ==
    ASSUME BufferOrder, NEW r \in Ranks, Step(r), NEW d \in Ranks, IsPadded(d)
    PROVE  IsPadded(d)'
<1> SUFFICES ASSUME step'[d] = "dispatched"
             PROVE  HoldsPadding(RoutingOf(call[d])', d, hidden'[d])
  BY DEF IsPadded
<1>0. OrderInv /\ RowsOK /\ ControlOK
  BY DEF BufferOrder, OrderInv, PInv
<1>1. DOMAIN step = Ranks /\ DOMAIN hidden = Ranks /\ DOMAIN hidden[d] = Rows
  BY <1>0 DEF ControlOK, RowsOK
<1>2. CASE d # r
  <2>1. step[d] = "dispatched" /\ RoutingOf(call[d])' = RoutingOf(call[d])
    BY <1>2, OthersStay
  <2>2. PICK topk : topk = RoutingOf(call[d]) /\ HoldsPadding(topk, d, hidden[d])
    BY <2>1 DEF IsPadded
  <2>3. CASE ~Scatter(r)
    BY <1>0, <1>2, <2>1, <2>2, <2>3, OthersWrite DEF RowsKept
  <2>4. CASE Scatter(r)
    <3>1. step[r] = "scatter"
      BY <2>4, ScatterIs
    <3>2. PICK j \in pending[r] : \E v, e, k : Sends(r, j, v, e, k)
      BY <2>4, ScatterIs
    <3>3. PICK v, e, k : Sends(r, j, v, e, k)
      BY <3>2
    <3>4. call[d] = call[r]
      BY <1>0, <3>1, ScatterTogether
    <3>5. j \in Slots /\ v = plan[r].dst[j] /\ e = DestRank(Canonical(v)) /\ k = DestRow(Canonical(v))
      BY <1>0, <3>3 DEF Sends, ControlOK
    <3>6. e \in Ranks /\ k \in Rows /\ Lies(topk, r, j, e, k)
      BY <1>0, <2>2, <3>1, <3>4, <3>5, EntryOf DEF PlanOfCall
    <3>7. topk \in Routings
      BY <1>0, <2>1, <2>2, HasPlan DEF PlanOfCall
    <3>8. ASSUME NEW l \in Rows, l \in FilledIn(topk, d) PROVE hidden'[d][l] = hidden[d][l]
      <4>1. ~(e = d /\ k = l)
        BY <3>5, <3>6, <3>7, <3>8, FilledFree
      <4> QED
        BY <1>0, <3>3, <4>1 DEF Sends, RowsOK
    <3> QED
      BY <2>1, <2>2, <3>8 DEF HoldsPadding
  <2> QED
    BY <2>3, <2>4
<1>3. CASE d = r
  <2>1. CASE FinishScatter(r)
    <3>1. step[d] = "scatter" /\ UNCHANGED call
      BY <1>3, <2>1, FinishIs
    <3>2. PICK padding : /\ padding = PaddingRows(plan[d].layout.zeroFill)
                         /\ hidden' = [hidden EXCEPT ![d] = ClearedBy(hidden[d], padding, EmptyBag)]
      BY <1>3, <2>1, FinishIs
    <3>3. PICK topk : topk = RoutingOf(call[d]) /\ RoutingOf(call[d])' = topk
      BY <1>0, <3>1, RoutingStays
    <3>4. padding = FilledIn(topk, d)
      BY <1>0, <3>1, <3>2, <3>3, HasPlan DEF PlanOfCall, FilledIn
    <3>5. ASSUME NEW l \in Rows, l \in FilledIn(topk, d) PROVE hidden'[d][l] = EmptyBag
      BY <1>1, <3>2, <3>4, <3>5 DEF ClearedBy
    <3> QED
      BY <3>3, <3>5 DEF HoldsPadding
  <2>2. CASE ~FinishScatter(r)
    <3>1. step'[r] # "dispatched"
      <4>1. CASE Scatter(r)
        BY <4>1, ScatterIs
      <4>2. CASE StartCall(r) \/ StartDispatch(r) \/ Plan(r) \/ Epilogue(r) \/ Compute(r)
                 \/ Prologue(r) \/ Gather(r)
        BY <1>1, <4>2 DEF StartCall, StartDispatch, Plan, Epilogue, Compute, Prologue, Gather, GoOn
      <4> QED
        BY <2>2, <4>1, <4>2 DEF Step
    <3> QED
      BY <1>3, <3>1
  <2> QED
    BY <2>1, <2>2
<1> QED
  BY <1>2, <1>3

LEMMA NextHasReceived ==
    ASSUME BufferOrder, NEW r \in Ranks, Step(r), NEW d \in Ranks,
           ComesIn(d), HasDups(d), IsPadded(d), HasReceived(d)
    PROVE  HasReceived(d)'
<1> SUFFICES ASSUME step'[d] = "received"
             PROVE  HasRows(program'.weighted, call'[d], RoutingOf(call[d])', d, View(d)')
  BY DEF HasReceived
<1>0. OrderInv /\ RowsOK /\ ControlOK
  BY DEF BufferOrder, OrderInv, PInv
<1>1. DOMAIN step = Ranks /\ DOMAIN hidden = Ranks /\ DOMAIN local = Ranks
  BY <1>0 DEF ControlOK, RowsOK
<1>2. program' = program
  BY <1>0, RoutingStays
<1>3. CASE d # r
  <2>1. /\ step[d] = "received" /\ call'[d] = call[d]
        /\ RoutingOf(call[d])' = RoutingOf(call[d])
    BY <1>3, OthersStay
  <2>2. View(d)' = View(d)
    BY <1>3, <2>1, ViewKept
  <2> QED
    BY <1>2, <2>1, <2>2 DEF HasReceived
<1>4. CASE d = r
  <2>1. CASE Epilogue(r)
    <3>1. /\ step[d] = "dispatched" /\ BarrierOpen(d) /\ UNCHANGED <<call, weights>>
          /\ hidden'[d] = CopiedFrom(dups[d], hidden[d])
          /\ program.zeroCopy \/ local'[d] = [rows |-> hidden'[d], weights |-> weights[d]]
      BY <1>1, <1>4, <2>1, EpilogueIs
    <3>2. PICK n, topk, w : /\ n = call[d] /\ topk = RoutingOf(call[d]) /\ w = program.weighted
                            /\ RoutingOf(call[d])' = topk
      BY <1>0, <3>1, RoutingStays
    <3>3. Op(d).kind # "combine" /\ InCall(d)
      BY <1>0, <3>1 DEF ControlOK, InCall, InDispatch
    <3>4. /\ topk \in Routings /\ Knows(topk, d, srcInfo[d]) /\ pc[d] = "planned"
      BY <1>0, <3>1, <3>2, HasPlan DEF PlanOfCall
    <3>5. dups[d] = DupGroups(srcInfo[d])
      BY <3>1, <3>4 DEF HasDups
    <3>6. HasArrived(w, n, topk, d, Ranks \X Slots, hidden[d], weights[d])
      <4>1. Sent(n) = Ranks \X Slots
        BY <1>0, <3>1, <3>2, AllSent
      <4> QED
        BY <3>1, <3>2, <3>3, <4>1 DEF ComesIn, Coming
    <3>7. HoldsPadding(topk, d, hidden[d])
      BY <3>1, <3>2 DEF IsPadded
    <3>8. HoldsTokens(n, topk, d, hidden'[d]) /\ HoldsPadding(topk, d, hidden'[d])
      <4>1. HoldsUnmarked(n, topk, d, hidden[d])
        BY <3>6 DEF HasArrived, HoldsUnmarked
      <4> QED
        BY <3>1, <3>4, <3>5, <3>7, <4>1, CopiesArrive
    <3>9. w => HoldsWeights(n, topk, d, weights[d])
      BY <3>6 DEF HasArrived, HoldsWeights
    <3>10. View(d)'.rows = hidden'[d] /\ View(d)'.weights = weights[d]
      BY <1>2, <3>1 DEF View
    <3> QED
      BY <1>2, <3>1, <3>2, <3>8, <3>9, <3>10 DEF HasRows
  <2>2. CASE ~Epilogue(r)
    <3>1. step'[r] # "received"
      <4>1. CASE Scatter(r)
        BY <4>1, ScatterIs
      <4>2. CASE StartCall(r) \/ StartDispatch(r) \/ Plan(r) \/ FinishScatter(r) \/ Compute(r)
                 \/ Prologue(r) \/ Gather(r)
        BY <1>1, <4>2 DEF StartCall, StartDispatch, Plan, FinishScatter, Compute, Prologue, Gather, GoOn
      <4> QED
        BY <2>2, <4>1, <4>2 DEF Step
    <3> QED
      BY <1>4, <3>1
  <2> QED
    BY <2>1, <2>2
<1> QED
  BY <1>3, <1>4

\* The caller's experts make of each token what its entry asks for.
LEMMA ResultsArrive ==
    ASSUME NEW topk \in Routings, NEW d \in Ranks, plan[d].layout = LayoutOf(AllocIn(topk), d),
           NEW n, NEW rows, HoldsTokens(n, topk, d, rows)
    PROVE  HoldsResults(n, topk, d, ComputedFrom(d, rows))
<1> SUFFICES ASSUME NEW q \in Ranks, NEW i \in Slots, NEW l \in Rows, Lies(topk, q, i, d, l)
             PROVE  ComputedFrom(d, rows)[l] = SetToBag({Made(n, topk, q, i)})
  BY DEF HoldsResults
<1>1. PICK token, e : token = Token(n, q, i) /\ e = topk[q][i]
  OBVIOUS
<1>2. rows[l] = SetToBag({token})
  BY <1>1 DEF HoldsTokens
<1>3. BagToSet(rows[l]) = {token}
  BY <1>2 DEF BagToSet, SetToBag
<1>4. ExpertOfRow(d, l) = e
  BY <1>1, RowsExpert
<1>5. ComputedFrom(d, rows)[l] = SetToBag({<<x, ExpertOfRow(d, l)>> : x \in BagToSet(rows[l])})
  BY DEF ComputedFrom
<1>6. {<<x, ExpertOfRow(d, l)>> : x \in BagToSet(rows[l])} = {<<token, e>>}
  BY <1>3, <1>4
<1> QED
  BY <1>1, <1>5, <1>6 DEF Made

LEMMA NextHasComputed ==
    ASSUME BufferOrder, NEW r \in Ranks, Step(r), NEW d \in Ranks, HasReceived(d), HasComputed(d)
    PROVE  HasComputed(d)'
<1>0. OrderInv /\ RowsOK /\ ControlOK /\ InOrder
  BY DEF BufferOrder, OrderInv, PInv
<1>1. /\ DOMAIN step = Ranks /\ DOMAIN hidden = Ranks /\ DOMAIN local = Ranks /\ DOMAIN call = Ranks
      /\ DOMAIN local[d] = {"rows", "weights"} /\ InCall(d)
      /\ call[d] \in 0 .. Len(program.ops) /\ Len(program.ops) \in Nat
  BY <1>0, ProgramFacts DEF ControlOK, RowsOK
<1>2. program' = program
  BY <1>0, RoutingStays
<1>3. CASE d # r
  <2>1. /\ step'[d] = step[d] /\ call'[d] = call[d] /\ Op(d)' = Op(d)
        /\ RoutingOf(call[d])' = RoutingOf(call[d])
    BY <1>3, OthersStay
  <2>2. CASE step[d] = "computed" \/ (step[d] \in {"start", "sync"} /\ Op(d).kind = "combine")
    <3>1. View(d)' = View(d)
      BY <1>3, <2>2, ViewKept
    <3> QED
      BY <1>2, <2>1, <3>1 DEF HasComputed
  <2>3. CASE ~(step[d] = "computed" \/ (step[d] \in {"start", "sync"} /\ Op(d).kind = "combine"))
    BY <2>1, <2>3 DEF HasComputed
  <2> QED
    BY <2>2, <2>3
<1>4. CASE d = r /\ Compute(r)
  <2>1. /\ step[d] = "received" /\ step'[d] = "computed" /\ UNCHANGED <<call, weights>>
        /\ \/ program.zeroCopy /\ hidden'[d] = ComputedFrom(d, View(d).rows)
           \/ ~program.zeroCopy /\ local'[d] = [local[d] EXCEPT !.rows = ComputedFrom(d, View(d).rows)]
    BY <1>1, <1>4, ComputeIs
  <2>2. PICK n, topk, w : /\ n = call[d] /\ topk = RoutingOf(call[d]) /\ w = program.weighted
                          /\ RoutingOf(call[d])' = topk
    BY <1>0, <2>1, RoutingStays
  <2>3. View(d)'.rows = ComputedFrom(d, View(d).rows) /\ View(d)'.weights = View(d).weights
    BY <1>1, <1>2, <2>1 DEF View
  <2>4. HasRows(w, n, topk, d, View(d))
    BY <2>1, <2>2 DEF HasReceived
  <2>5. topk \in Routings /\ plan[d].layout = LayoutOf(AllocIn(topk), d)
    BY <1>0, <2>1, <2>2, HasPlan DEF PlanOfCall
  <2>6. HoldsResults(n, topk, d, ComputedFrom(d, View(d).rows))
    BY <2>4, <2>5, ResultsArrive DEF HasRows
  <2>7. HasOutputs(w, n, topk, d, View(d)')
    BY <2>3, <2>4, <2>6 DEF HasRows, HasOutputs
  <2> QED
    BY <1>2, <2>1, <2>2, <2>7 DEF HasComputed
<1>5. CASE d = r /\ StartCall(r)
  <2>1. /\ step[d] \in {"idle", "computed", "combined"} /\ step'[d] \in {"start", "sync"}
        /\ call[d] < Len(program.ops) /\ call'[d] = call[d] + 1
        /\ UNCHANGED <<hidden, weights, local>>
    BY <1>1, <1>5 DEF StartCall, GoOn, buffers
  <2>2. PICK n \in Nat : n = call[d] /\ n + 1 = call'[d] /\ n + 1 \in 1 .. Len(program.ops)
    BY <1>1, <2>1
  <2> SUFFICES ASSUME Op(d)'.kind = "combine"
               PROVE  HasOutputs(program'.weighted, call'[d] - 1, RoutingOf(call[d])', d, View(d)')
    BY <2>1 DEF HasComputed
  <2>3. program.ops[n + 1].kind = "combine"
    BY <1>2, <2>2 DEF Op
  <2>4. n \in 1 .. Len(program.ops) /\ program.ops[n].kind # "combine"
    <3>1. PICK m \in 1 .. Len(program.ops) : m = n + 1
      BY <2>2
    <3>2. m - 1 \in 1 .. Len(program.ops) /\ program.ops[m - 1].kind # "combine"
      BY <1>0, <2>3, <3>1, ProgramFacts
    <3>3. m - 1 = n
      BY <3>1
    <3> QED
      BY <3>2, <3>3
  <2>5. step[d] = "computed"
    <3>1. n # 0 /\ Op(d).kind # "combine"
      BY <1>1, <2>2, <2>4 DEF Op
    <3> QED
      BY <1>1, <2>1, <2>2, <3>1 DEF InCall, InCombine
  <2>6. FreshTo(n + 1) = FreshTo(n)
    BY <2>3, FreshCounts
  <2>7. RoutingOf(call[d])' = RoutingOf(n)
    <3>1. RoutingOf(call[d])' = RoutingOf(n + 1)
      BY <1>0, <2>2, RoutingStays
    <3> QED
      BY <2>6, <3>1 DEF RoutingOf
  <2>8. View(d)' = View(d)
    BY <1>2, <2>1 DEF View
  <2>9. HasOutputs(program.weighted, n, RoutingOf(n), d, View(d))
    BY <2>2, <2>5 DEF HasComputed
  <2>10. call'[d] - 1 = n
    BY <2>2
  <2> QED
    BY <1>2, <2>7, <2>8, <2>9, <2>10
<1>6. CASE d = r /\ ~Compute(r) /\ ~StartCall(r)
  <2>1. step'[d] \notin {"start", "sync", "computed"}
    <3>1. CASE Scatter(r)
      BY <1>6, <3>1, ScatterIs
    <3>2. CASE StartDispatch(r) \/ Plan(r) \/ FinishScatter(r) \/ Epilogue(r) \/ Prologue(r)
               \/ Gather(r)
      BY <1>1, <1>6, <3>2 DEF StartDispatch, Plan, FinishScatter, Epilogue, Prologue, Gather, GoOn
    <3> QED
      BY <1>6, <3>1, <3>2 DEF Step
  <2> QED
    BY <2>1 DEF HasComputed
<1> QED
  BY <1>3, <1>4, <1>5, <1>6

\* The prologue leaves in the rows of a rank what the others gather from them.
LEMMA PrologueSums ==
    ASSUME BufferOrder, NEW r \in Ranks, Prologue(r), HasDups(r), HasComputed(r)
    PROVE  HasSums(program.weighted, call[r] - 1, RoutingOf(call[r]), r, hidden'[r], weights'[r])
<1>0. OrderInv /\ RowsOK
  BY DEF BufferOrder
<1>1. /\ step[r] \in {"start", "sync"} /\ Op(r).kind = "combine"
      /\ hidden'[r] = SummedFrom(dups[r], View(r).rows)
      /\ program.weighted => weights'[r] = View(r).weights
  BY <1>0, PrologueIs DEF Started, RowsOK
<1>2. PICK n, topk, w : n = call[r] - 1 /\ topk = RoutingOf(call[r]) /\ w = program.weighted
  OBVIOUS
<1>3. topk \in Routings /\ Knows(topk, r, srcInfo[r]) /\ pc[r] = "planned"
  BY <1>0, <1>1, <1>2, HasPlan DEF PlanOfCall
<1>4. dups[r] = DupGroups(srcInfo[r])
  BY <1>1, <1>3 DEF HasDups
<1>5. HasOutputs(w, n, topk, r, View(r))
  BY <1>1, <1>2 DEF HasComputed
<1>6. HoldsSums(n, topk, r, hidden'[r])
  BY <1>1, <1>3, <1>4, <1>5, SumsArrive DEF HasOutputs
<1> QED
  BY <1>1, <1>2, <1>5, <1>6 DEF HasOutputs, HasSums

LEMMA NextHaveSums ==
    ASSUME BufferOrder, NEW r \in Ranks, Step(r), NEW d \in Ranks,
           HasDups(r), HasComputed(r), \A q \in Ranks : HaveSums(q)
    PROVE  HaveSums(d)'
<1> SUFFICES ASSUME step'[d] = "gather", NEW e \in Ranks, At(e)' >= At(d)'
             PROVE  HasSums(program'.weighted, call'[d] - 1, RoutingOf(call[d])', e,
                            hidden'[e], weights'[e])
  BY DEF HaveSums
<1>0. OrderInv /\ RowsOK /\ ControlOK /\ InOrder /\ InMeeting
  BY DEF BufferOrder, OrderInv, PInv
<1>1. /\ DOMAIN step = Ranks /\ DOMAIN call = Ranks
      /\ \A q \in Ranks : InCall(q) /\ step[q] \in BufferSteps
      /\ \A q \in Ranks : call[q] \in 0 .. Len(program.ops) /\ Len(program.ops) \in Nat
  BY <1>0, ProgramFacts DEF ControlOK
<1>2. program' = program
  BY <1>0, RoutingStays
<1>3. PICK c, k \in Nat : c = call'[d] /\ k = call[r] /\ call[d] \in Nat
  <2>1. call'[d] \in Nat /\ call[r] \in Nat /\ call[d] \in Nat
    <3>1. call'[d] = call[d] \/ call'[d] = call[d] + 1
      <4>1. call' = call \/ call' = [call EXCEPT ![r] = call[r] + 1]
        BY DEF Step, StartCall, StartDispatch, Plan, Scatter, FinishScatter, Epilogue, Compute,
               Prologue, Gather
      <4> QED
        BY <1>1, <4>1
    <3>2. call[d] \in Nat /\ call[r] \in Nat
      BY <1>0, AtIs
    <3> QED
      BY <3>1, <3>2
  <2> QED
    BY <2>1
<1>4. At(d)' = 8 * c + 6
  BY <1>3 DEF At, Part
\* No two calls in a row are a combine.
<1>5. ASSUME NEW q \in Ranks, NEW p \in Ranks, Op(q).kind = "combine", Op(p).kind = "combine",
             step[q] # "idle", step[p] # "idle"
      PROVE  call[q] >= 2 /\ call[p] # call[q] + 1
  <2>1. call[q] \in 1 .. Len(program.ops) /\ call[p] \in 1 .. Len(program.ops)
    BY <1>1, <1>5 DEF InCall
  <2>2. /\ call[q] - 1 \in 1 .. Len(program.ops)
        /\ call[p] - 1 \in 1 .. Len(program.ops) /\ program.ops[call[p] - 1].kind # "combine"
    BY <1>0, <1>5, <2>1, ProgramFacts DEF Op
  <2>3. ASSUME call[p] = call[q] + 1 PROVE FALSE
    <3>1. call[p] - 1 = call[q]
      BY <2>1, <2>3
    <3> QED
      BY <1>5, <2>2, <3>1 DEF Op
  <2> QED
    BY <2>1, <2>2, <2>3
<1>6. CASE d # r
  <2>1. /\ step[d] = "gather" /\ call[d] = c /\ At(d) = 8 * c + 6
        /\ RoutingOf(call[d])' = RoutingOf(call[d])
    BY <1>3, <1>4, <1>6, OthersStay
  <2>2. Op(d).kind = "combine"
    BY <1>1, <2>1 DEF InCall, InCombine
  <2>3. ASSUME At(e) >= At(d), RowsKept(e)
        PROVE  HasSums(program'.weighted, call'[d] - 1, RoutingOf(call[d])', e, hidden'[e], weights'[e])
    BY <1>2, <1>3, <2>1, <2>3 DEF HaveSums, RowsKept
  <2>4. ~Scatter(r)
    <3>1. Scatter(r) => step[r] = "scatter"
      BY ScatterIs
    <3> QED
      BY <1>0, <2>1, <3>1, ScatterTogether
  <2>5. CASE e # r
    <3>1. RowsKept(e) /\ At(e)' = At(e)
      BY <1>0, <2>4, <2>5, OthersWrite, OthersStay
    <3> QED
      BY <1>4, <2>1, <2>3, <3>1
  <2>6. CASE e = r /\ Prologue(r)
    <3>1. step'[r] = "gather" /\ call'[r] = call[r] /\ step[r] \in {"start", "sync"} /\ Op(r).kind = "combine"
      BY <1>1, <2>6, PrologueIs DEF Started
    <3>2. At(r)' = 8 * k + 6
      BY <1>3, <3>1 DEF At, Part
    <3>3. k >= c
      BY <1>3, <1>4, <2>6, <3>2
    <3>4. LastMet(r) <= 8 * c + 6 /\ LastMet(r) = IF k < 2 THEN 0 ELSE 8 * k - 2
      BY <1>0, <1>3, <2>1, <3>1 DEF InMeeting, LastMet
    <3>5. k <= c + 1 /\ k # c + 1
      <4>1. k # c + 1
        BY <1>3, <1>5, <2>1, <2>2, <3>1
      <4>2. k < 2 => k <= c
        BY <1>3, <1>5, <2>1, <2>2
      <4> QED
        BY <1>3, <3>4, <4>1, <4>2
    <3>6. k = c
      BY <1>3, <3>3, <3>5
    <3> QED
      BY <1>2, <1>3, <2>1, <2>6, <3>6, PrologueSums
  <2>7. CASE e = r /\ ~Prologue(r)
    <3>1. CASE StartCall(r)
      <4>1. /\ step[r] \in {"idle", "computed", "combined"} /\ call'[r] = k + 1
            /\ step'[r] \in {"start", "sync"} /\ RowsKept(r)
        BY <1>1, <1>3, <3>1 DEF StartCall, GoOn, buffers, RowsKept
      <4>2. At(r)' = 8 * (k + 1) + 1
        BY <4>1 DEF At, Part
      <4>3. k >= c
        BY <1>3, <1>4, <2>7, <4>2
      <4>4. step[r] # "idle"
        BY <1>1, <1>3, <2>1, <4>3 DEF InCall
      <4>5. At(r) = 8 * k + 6
        BY <1>3, <4>1, <4>4 DEF At, Part
      <4> QED
        BY <1>3, <2>1, <2>3, <2>7, <4>1, <4>3, <4>5
    <3>2. CASE StartDispatch(r) \/ Plan(r)
      <4>1. call'[r] = k /\ step'[r] \in {"planning", "scatter"} /\ RowsKept(r)
        BY <1>1, <1>3, <3>2 DEF StartDispatch, Plan, GoOn, buffers, RowsKept
      <4>2. At(r)' <= 8 * k + 5
        <5>1. Part(r)' \in 0 .. 5
          BY <4>1 DEF Part
        <5>2. PICK j \in 0 .. 5 : j = Part(r)'
          BY <5>1
        <5>3. At(r)' = 8 * k + j
          BY <4>1, <5>2 DEF At
        <5> QED
          BY <5>3
      <4>3. PICK a, b : a = At(r)' /\ b = At(r) /\ a \in Int /\ b \in Nat /\ 8 * k <= b
        <5>1. At(r) \in Nat /\ 8 * call[r] <= At(r)
          BY <1>0, AtIs
        <5>2. At(r)' \in Int
          <6>1. PICK j \in 0 .. 6 : j = Part(r)'
            BY DEF Part
          <6>2. At(r)' = 8 * k + j
            BY <4>1, <6>1 DEF At
          <6> QED
            BY <6>2
        <5> QED
          BY <1>3, <5>1, <5>2
      <4>4. k > c
        BY <1>3, <1>4, <2>7, <4>2, <4>3
      <4>5. At(r) >= At(d)
        BY <1>3, <2>1, <4>3, <4>4
      <4> QED
        BY <2>3, <2>7, <4>1, <4>5
    <3>3. CASE Gather(r)
      <4>1. step[r] = "gather" /\ step'[r] \in {"gather", "combined"} /\ UNCHANGED <<call, hidden, weights>>
        BY <1>1, <3>3, GatherIs
      <4>2. At(r)' = At(r)
        BY <4>1 DEF At, Part
      <4> QED
        BY <1>4, <2>1, <2>3, <2>7, <4>1, <4>2 DEF RowsKept
    <3>4. CASE FinishScatter(r) \/ Epilogue(r) \/ Compute(r)
      <4>1. /\ step[r] \in {"scatter", "dispatched", "received"} /\ call'[r] = k
            /\ step'[r] \in {"dispatched", "received", "computed"}
        BY <1>1, <1>3, <3>4 DEF FinishScatter, Epilogue, Compute, GoOn
      <4>2. At(r)' = 8 * k + 6
        BY <4>1 DEF At, Part
      <4>3. k >= c
        BY <1>3, <1>4, <2>7, <4>2
      <4>4. LastMet(r) <= 8 * c + 6 /\ LastMet(r) >= 8 * k + 1
        BY <1>0, <1>3, <2>1, <4>1 DEF InMeeting, LastMet
      <4>5. LastMet(r) \in Nat
        BY <1>0, AtIs
      <4>6. k = c
        BY <1>3, <4>3, <4>4, <4>5
      <4>7. Op(r) = Op(d)
        BY <1>3, <2>1, <4>6 DEF Op
      <4> QED
        BY <1>1, <2>2, <4>1, <4>7 DEF InCall, InDispatch
    <3> QED
      BY <2>4, <2>7, <3>1, <3>2, <3>3, <3>4 DEF Step
  <2> QED
    BY <2>5, <2>6, <2>7
<1>7. CASE d = r
  <2>1. CASE Gather(r)
    <3>1. step[r] = "gather" /\ UNCHANGED <<call, hidden, weights>>
      BY <2>1, GatherIs
    <3>2. At(r)' = At(r) /\ RoutingOf(call[r])' = RoutingOf(call[r])
      <4>1. step'[r] = "gather"
        BY <1>7
      <4> QED
        BY <1>0, <3>1, <4>1, RoutingStays DEF At, Part
    <3>3. At(e)' = At(e)
      BY <3>2, OthersStay
    <3>4. HasSums(program.weighted, call[r] - 1, RoutingOf(call[r]), e, hidden[e], weights[e])
      BY <1>7, <3>1, <3>2, <3>3 DEF HaveSums
    <3> QED
      BY <1>2, <1>7, <3>1, <3>2, <3>4
  <2>2. CASE Prologue(r)
    <3>1. /\ step[r] \in {"start", "sync"} /\ Op(r).kind = "combine" /\ call' = call
          /\ step[r] # "scatter"
      BY <2>2, PrologueIs DEF Started
    <3>2. c = k /\ At(r) = 8 * c + 1 /\ RoutingOf(call[r])' = RoutingOf(call[r])
      BY <1>0, <1>3, <1>7, <3>1, RoutingStays DEF At, Part
    <3>3. CASE e = r
      BY <1>2, <1>3, <1>7, <2>2, <3>1, <3>2, <3>3, PrologueSums
    <3>4. CASE e # r
      <4>1. At(e) = At(e)' /\ RowsKept(e)
        <5>1. ~Scatter(r)
          BY <3>1, ScatterIs
        <5> QED
          BY <1>0, <3>4, <5>1, OthersStay, OthersWrite
      <4>2. PICK m \in Nat, j \in 0 .. 6 : m = call[e] /\ j = Part(e) /\ At(e) = 8 * m + j
        BY <1>0, AtIs DEF At
      <4>3. m > c \/ (m = c /\ j = 6)
        BY <1>3, <1>4, <4>1, <4>2
      <4>4. LastMet(e) <= 8 * c + 1 /\ LastMet(e) \in Nat
        BY <1>0, <3>2, AtIs DEF InMeeting
      <4>5. c >= 2
        BY <1>3, <1>5, <3>1, <3>2
      <4>6. ~(m > c)
        <5>1. m > c => LastMet(e) >= 8 * m - 2
          BY <1>3, <4>2, <4>5 DEF LastMet
        <5> QED
          BY <1>3, <4>2, <4>4, <5>1
      <4>7. step[e] \in {"dispatched", "received", "computed", "gather", "combined"}
        BY <1>1, <4>2, <4>3, <4>6 DEF Part, BufferSteps
      <4>8. Op(e) = Op(r)
        BY <1>3, <3>2, <4>2, <4>3, <4>6 DEF Op
      <4>9. step[e] \notin InDispatch
        BY <1>1, <3>1, <4>8 DEF InCall
      <4>10. step[e] # "combined"
        <5>1. step[e] = "combined" => LastMet(e) = 8 * m + 6
          BY <4>2 DEF LastMet
        <5> QED
          BY <1>3, <4>3, <4>4, <4>6, <5>1
      <4>11. step[e] = "gather"
        BY <4>7, <4>9, <4>10 DEF InDispatch
      <4>12. HasSums(program.weighted, call[e] - 1, RoutingOf(call[e]), e, hidden[e], weights[e])
        <5>1. At(e) >= At(e)
          BY <4>2
        <5> QED
          BY <4>11, <5>1 DEF HaveSums
      <4>13. call[e] = call[r] /\ call'[r] = call[r]
        BY <1>3, <3>1, <3>2, <4>2, <4>3, <4>6
      <4> QED
        BY <1>2, <1>7, <3>2, <4>1, <4>12, <4>13 DEF RowsKept
    <3> QED
      BY <3>3, <3>4
  <2>3. CASE ~Gather(r) /\ ~Prologue(r)
    <3>1. step'[r] # "gather"
      <4>1. CASE Scatter(r)
        BY <4>1, ScatterIs
      <4>2. CASE StartCall(r) \/ StartDispatch(r) \/ Plan(r) \/ FinishScatter(r) \/ Epilogue(r)
                 \/ Compute(r)
        BY <1>1, <4>2 DEF StartCall, StartDispatch, Plan, FinishScatter, Epilogue, Compute, GoOn
      <4> QED
        BY <2>3, <4>1, <4>2 DEF Step
    <3> QED
      BY <1>7, <3>1
  <2> QED
    BY <2>1, <2>2, <2>3
<1> QED
  BY <1>6, <1>7
-----------------------------------------------------------------------------
(* Dispatch and combine on all ranks: what a rank has gathered. *)

\* The entries of token t whose results rank r has, when the entries of pend are still
\* to be treated.
CoveredBy(topk, r, pend, t) ==
    {i \in Slots : /\ TokenOf(i) = t
                   /\ \E j \in SameToken(topk, r, i) : j \notin pend /\ ~Marks(topk, r, j)}

HasTallied(n, topk, r, pend, o) ==
    \A t \in 0 .. (NumTokens - 1) :
        o[t] = Tally(n, topk, r, CoveredBy(topk, r, pend, t))
HasBack(n, r, pend, wts) == \A i \in Slots : i \notin pend => wts[i] = <<n, r, i>>

HasGathered(r) ==
    step[r] \in {"gather", "combined"} =>
        /\ HasTallied(call[r] - 1, RoutingOf(call[r]), r, pending[r], out[r])
        /\ program.weighted => HasBack(call[r] - 1, r, pending[r], outWeights[r])
        /\ step[r] = "combined" => pending[r] = {}

LEMMA CoveredNone ==
    ASSUME NEW topk, NEW r, NEW t
    PROVE  CoveredBy(topk, r, Slots, t) = {}
BY DEF CoveredBy, SameToken

LEMMA CoveredAll ==
    ASSUME NEW topk \in Routings, NEW r \in Ranks, NEW t
    PROVE  CoveredBy(topk, r, {}, t) = EntriesOf(t)
<1>1. \A i \in Slots : \E j \in SameToken(topk, r, i) : ~Marks(topk, r, j)
  BY UnmarkedFirst
<1> QED
  BY <1>1 DEF CoveredBy, EntriesOf

\* An entry with a mark brings nothing, and no entry brings anything to another token.
LEMMA CoveredSame ==
    ASSUME NEW topk \in Routings, NEW r \in Ranks, NEW pend, NEW i \in Slots, NEW t,
           Marks(topk, r, i) \/ TokenOf(i) # t
    PROVE  CoveredBy(topk, r, pend \ {i}, t) = CoveredBy(topk, r, pend, t)
BY DEF CoveredBy, SameToken

\* The unmarked entry brings those of its token that go to the same rank.
LEMMA CoveredMore ==
    ASSUME NEW topk \in Routings, NEW r \in Ranks, NEW pend, NEW i \in Slots, i \in pend,
           ~Marks(topk, r, i), NEW t, t = TokenOf(i)
    PROVE  /\ CoveredBy(topk, r, pend \ {i}, t) = CoveredBy(topk, r, pend, t) \cup SameToken(topk, r, i)
           /\ CoveredBy(topk, r, pend, t) \cap SameToken(topk, r, i) = {}
           /\ CoveredBy(topk, r, pend, t) \subseteq Slots /\ SameToken(topk, r, i) \subseteq Slots
<1>1. \A j \in SameToken(topk, r, i) \ {i} : Marks(topk, r, j)
  BY OnlyUnmarked
<1>2. \A k \in Slots : k \in SameToken(topk, r, i) =>
          SameToken(topk, r, k) = SameToken(topk, r, i) /\ TokenOf(k) = t
  BY SameTokenIs DEF SameToken
<1>3. i \in SameToken(topk, r, i) /\ SameToken(topk, r, i) \subseteq Slots
  BY SameTokenIs
<1>4. ASSUME NEW k \in SameToken(topk, r, i) PROVE k \notin CoveredBy(topk, r, pend, t)
  BY <1>1, <1>2, <1>3 DEF CoveredBy
<1>5. ASSUME NEW k \in SameToken(topk, r, i) PROVE k \in CoveredBy(topk, r, pend \ {i}, t)
  BY <1>2, <1>3 DEF CoveredBy
<1>6. ASSUME NEW k \in Slots, k \notin SameToken(topk, r, i)
      PROVE  k \in CoveredBy(topk, r, pend \ {i}, t) <=> k \in CoveredBy(topk, r, pend, t)
  <2>1. i \notin SameToken(topk, r, k)
    BY <1>6, SameTokenIs
  <2> QED
    BY <2>1 DEF CoveredBy
<1>7. /\ CoveredBy(topk, r, pend, t) \subseteq Slots
      /\ CoveredBy(topk, r, pend \ {i}, t) \subseteq Slots
  BY DEF CoveredBy
<1> QED
  BY <1>3, <1>4, <1>5, <1>6, <1>7

\* One entry treated by the gather.
LEMMA GatherTallies ==
    ASSUME NEW n, NEW topk \in Routings, NEW r \in Ranks, NEW pend, NEW i \in Slots, i \in pend,
           NEW before, HasTallied(n, topk, r, pend, before), NEW after,
           IF Marks(topk, r, i) THEN after = before
           ELSE \A t \in 0 .. (NumTokens - 1) :
                    after[t] = IF t = TokenOf(i)
                               THEN before[t] (+) Tally(n, topk, r, SameToken(topk, r, i))
                               ELSE before[t]
    PROVE  HasTallied(n, topk, r, pend \ {i}, after)
<1> SUFFICES ASSUME NEW t \in 0 .. (NumTokens - 1)
             PROVE  after[t] = Tally(n, topk, r, CoveredBy(topk, r, pend \ {i}, t))
  BY DEF HasTallied
<1>1. before[t] = Tally(n, topk, r, CoveredBy(topk, r, pend, t))
  BY DEF HasTallied
<1>2. CASE Marks(topk, r, i) \/ TokenOf(i) # t
  <2>1. after[t] = before[t]
    BY <1>2
  <2>2. CoveredBy(topk, r, pend \ {i}, t) = CoveredBy(topk, r, pend, t)
    BY <1>2, CoveredSame
  <2> QED
    BY <1>1, <2>1, <2>2
<1>3. CASE ~Marks(topk, r, i) /\ TokenOf(i) = t
  <2>1. PICK C, S, D : /\ C = CoveredBy(topk, r, pend, t) /\ S = SameToken(topk, r, i)
                       /\ D = CoveredBy(topk, r, pend \ {i}, t)
    OBVIOUS
  <2>2. D = C \cup S /\ C \cap S = {} /\ C \subseteq Slots /\ S \subseteq Slots
    BY <1>3, <2>1, CoveredMore
  <2>3. \A m : TallyOf(m, C \cup S) = TallyOf(m, C) (+) TallyOf(m, S)
    BY <2>2, TallyAdds
  <2>4. Tally(n, topk, r, D) = Tally(n, topk, r, C) (+) Tally(n, topk, r, S)
    BY <2>2, <2>3 DEF Tally
  <2>5. after[t] = before[t] (+) Tally(n, topk, r, S)
    BY <1>3, <2>1
  <2> QED
    BY <1>1, <2>1, <2>4, <2>5
<1> QED
  BY <1>2, <1>3

LEMMA NextHasGathered ==
    ASSUME BufferOrder, NEW r \in Ranks, Step(r), NEW d \in Ranks, HaveSums(d), HasGathered(d)
    PROVE  HasGathered(d)'
<1>0. OrderInv /\ RowsOK /\ ControlOK /\ InOrder /\ InMeeting
  BY DEF BufferOrder, OrderInv, PInv
<1>1. /\ DOMAIN step = Ranks /\ DOMAIN call = Ranks /\ DOMAIN pending = Ranks
      /\ DOMAIN out = Ranks /\ DOMAIN outWeights = Ranks /\ pending[d] \subseteq Slots
      /\ DOMAIN out[d] = 0 .. (NumTokens - 1) /\ DOMAIN outWeights[d] = Slots
  BY <1>0 DEF ControlOK, RowsOK
<1>2. program' = program
  BY <1>0, RoutingStays
<1>3. CASE d # r
  <2>1. /\ step'[d] = step[d] /\ call'[d] = call[d] /\ pending'[d] = pending[d]
        /\ RoutingOf(call[d])' = RoutingOf(call[d])
    BY <1>3, OthersStay
  <2>2. out'[d] = out[d] /\ outWeights'[d] = outWeights[d]
    BY <1>0, <1>3, OthersWrite DEF OwnKept
  <2> QED
    BY <1>2, <2>1, <2>2 DEF HasGathered
<1>4. CASE d = r /\ Prologue(r)
  <2>1. /\ step'[d] = "gather" /\ pending'[d] = Slots
        /\ out'[d] = [s \in 0 .. (NumTokens - 1) |-> EmptyBag]
    <3>1. PICK tokens : tokens = DOMAIN out[d] /\ tokens = 0 .. (NumTokens - 1)
      BY <1>1
    <3>2. /\ step' = [step EXCEPT ![d] = "gather"] /\ pending' = [pending EXCEPT ![d] = Slots]
          /\ out' = [out EXCEPT ![d] = [s \in tokens |-> EmptyBag]]
      BY <1>4, <3>1, PrologueIs
    <3> QED
      BY <1>1, <3>1, <3>2
  <2>2. PICK n, topk : n = call'[d] - 1 /\ topk = RoutingOf(call[d])'
    OBVIOUS
  <2>3. ASSUME NEW t \in 0 .. (NumTokens - 1)
        PROVE  out'[d][t] = Tally(n, topk, d, CoveredBy(topk, d, Slots, t))
    <3>1. Tally(n, topk, d, {}) = EmptyBag
      BY TallyNone DEF Tally
    <3> QED
      BY <2>1, <3>1, CoveredNone
  <2>4. HasTallied(n, topk, d, Slots, out'[d])
    BY <2>3 DEF HasTallied
  <2>5. HasBack(n, d, Slots, outWeights'[d])
    BY DEF HasBack
  <2> QED
    BY <2>1, <2>2, <2>4, <2>5 DEF HasGathered
<1>5. CASE d = r /\ Gather(r)
  <2>1. /\ step[d] = "gather" /\ BarrierOpen(d) /\ UNCHANGED call
        /\ step'[d] = IF pending'[d] = {} THEN "combined" ELSE "gather"
    BY <1>1, <1>5, GatherIs
  <2>0. PICK i \in pending[d] : \E v, e, l : Gathers(d, i, v, e, l)
    BY <1>5, GatherIs
  <2>2. PICK v, e, l : Gathers(d, i, v, e, l)
    BY <2>0
  <2>3. PICK n, topk, w : /\ n = call[d] - 1 /\ topk = RoutingOf(call[d]) /\ w = program.weighted
                          /\ RoutingOf(call[d])' = topk
    BY <1>0, <2>1, RoutingStays
  <2>4. topk \in Routings /\ i \in Slots
    BY <1>0, <1>1, <2>1, <2>3, HasPlan DEF PlanOfCall
  <2>5. /\ Marks(topk, d, i) <=> v < 0
        /\ e \in Ranks /\ l \in Rows /\ Lies(topk, d, i, e, l)
    BY <1>0, <2>1, <2>2, <2>3, <2>4, EntryOf DEF Gathers, PlanOfCall
  <2>6. HasSums(w, n, topk, e, hidden[e], weights[e])
    <3>1. At(e) >= At(d)
      BY <1>0, <2>1, <2>5, OpenBuffer DEF Waits, CallBarriers
    <3> QED
      BY <2>1, <2>3, <2>5, <3>1 DEF HaveSums
  <2>7. pending'[d] = pending[d] \ {i}
    BY <1>1, <2>2 DEF Gathers
  <2>8. HasTallied(n, topk, d, pending[d] \ {i}, out'[d])
    <3>1. HasTallied(n, topk, d, pending[d], out[d])
      BY <2>1, <2>3 DEF HasGathered
    <3>2. CASE Marks(topk, d, i)
      <4>1. out'[d] = out[d]
        BY <2>2, <2>5, <3>2 DEF Gathers
      <4> QED
        BY <2>4, <3>1, <3>2, <4>1, GatherTallies
    <3>3. CASE ~Marks(topk, d, i)
      <4>1. hidden[e][l] = Tally(n, topk, d, SameToken(topk, d, i))
        BY <2>4, <2>5, <2>6, <3>3 DEF HasSums, HoldsSums
      <4>2. out' = [out EXCEPT ![d][TokenOf(i)] = out[d][TokenOf(i)] (+) hidden[e][l]]
        BY <2>2, <2>5, <3>3 DEF Gathers
      <4>3. PICK sum : sum = Tally(n, topk, d, SameToken(topk, d, i))
        OBVIOUS
      <4>4. ASSUME NEW t \in 0 .. (NumTokens - 1)
            PROVE  out'[d][t] = IF t = TokenOf(i) THEN out[d][t] (+) sum ELSE out[d][t]
        BY <1>1, <4>1, <4>2, <4>3
      <4> QED
        BY <2>4, <3>1, <3>3, <4>3, <4>4, GatherTallies
    <3> QED
      BY <3>2, <3>3
  <2>9. w => HasBack(n, d, pending[d] \ {i}, outWeights'[d])
    <3> SUFFICES ASSUME w, NEW j \in Slots, j \notin pending[d] \ {i}
                 PROVE  outWeights'[d][j] = <<n, d, j>>
      BY DEF HasBack
    <3>1. HasBack(n, d, pending[d], outWeights[d])
      BY <2>1, <2>3 DEF HasGathered
    <3>2. outWeights' = [outWeights EXCEPT ![d][i] = weights[e][l]]
      BY <2>2, <2>3 DEF Gathers
    <3>3. weights[e][l] = <<n, d, i>>
      BY <2>4, <2>5, <2>6 DEF HasSums, HoldsWeights
    <3>4. j # i => j \notin pending[d] /\ outWeights[d][j] = <<n, d, j>>
      BY <3>1 DEF HasBack
    <3> QED
      BY <1>1, <3>2, <3>3, <3>4
  <2> QED
    BY <1>2, <2>1, <2>3, <2>7, <2>8, <2>9 DEF HasGathered
<1>6. CASE d = r /\ ~Prologue(r) /\ ~Gather(r)
  <2>1. step'[d] \notin {"gather", "combined"}
    <3>1. CASE Scatter(r)
      BY <1>6, <3>1, ScatterIs
    <3>2. CASE StartCall(r) \/ StartDispatch(r) \/ Plan(r) \/ FinishScatter(r) \/ Epilogue(r)
               \/ Compute(r)
      BY <1>1, <1>6, <3>2 DEF StartCall, StartDispatch, Plan, FinishScatter, Epilogue, Compute, GoOn
    <3> QED
      BY <1>6, <3>1, <3>2 DEF Step
  <2> QED
    BY <2>1 DEF HasGathered
<1> QED
  BY <1>3, <1>4, <1>5, <1>6
-----------------------------------------------------------------------------
(* Dispatch and combine on all ranks: the invariant, and what it says of the calls. *)
GatherInv == \A d \in Ranks : HasGathered(d)
BufferInv == BufferOrder /\ DispatchInv /\ CombineInv /\ GatherInv

LEMMA InitBufferInv == Init => BufferInv
<1> SUFFICES ASSUME Init PROVE BufferInv
  OBVIOUS
<1>1. BufferOrder
  BY InitBufferOrder
<1>2. \A d \in Ranks : step[d] = "idle" /\ pc[d] = "idle"
  BY DEF Init, PlanInit
<1>3. DispatchInv
  BY <1>2 DEF DispatchInv, ComesIn, HasDups, IsPadded, HasReceived, Coming
<1>4. CombineInv
  BY <1>2 DEF CombineInv, HasComputed, HaveSums
<1>5. GatherInv
  BY <1>2 DEF GatherInv, HasGathered
<1> QED
  BY <1>1, <1>3, <1>4, <1>5 DEF BufferInv

LEMMA IdleBufferInv == BufferInv /\ BufferOrder' /\ UNCHANGED vars => BufferInv'
<1> SUFFICES ASSUME BufferInv, BufferOrder', UNCHANGED vars PROVE BufferInv'
  OBVIOUS
<1>1. UNCHANGED <<routing, srcInfo, pc, program, call, step, hidden, weights, dups, local, pending,
                  out, outWeights>>
  BY DEF vars, planVars, inputs, shared, bufferVars, buffers, results
<1>2. /\ \A n : RoutingOf(n)' = RoutingOf(n) /\ Sent(n)' = Sent(n)
      /\ \A d : At(d)' = At(d) /\ Op(d)' = Op(d) /\ View(d)' = View(d)
  BY <1>1 DEF RoutingOf, FreshTo, Sent, HasSent, At, Part, Op, View
<1>3. DispatchInv'
  <2> SUFFICES ASSUME NEW d \in Ranks
               PROVE  (ComesIn(d) /\ HasDups(d) /\ IsPadded(d) /\ HasReceived(d))'
    BY DEF DispatchInv
  <2>1. ComesIn(d) /\ HasDups(d) /\ IsPadded(d) /\ HasReceived(d)
    BY DEF BufferInv, DispatchInv
  <2>2. ComesIn(d)'
    BY <1>1, <1>2, <2>1 DEF ComesIn
  <2>3. HasDups(d)'
    BY <1>1, <1>2, <2>1 DEF HasDups
  <2>4. IsPadded(d)'
    BY <1>1, <1>2, <2>1 DEF IsPadded
  <2>5. HasReceived(d)'
    BY <1>1, <1>2, <2>1 DEF HasReceived
  <2> QED
    BY <2>2, <2>3, <2>4, <2>5
<1>4. CombineInv'
  <2> SUFFICES ASSUME NEW d \in Ranks PROVE HasComputed(d)' /\ HaveSums(d)'
    BY DEF CombineInv
  <2>1. HasComputed(d) /\ HaveSums(d)
    BY DEF BufferInv, CombineInv
  <2> QED
    BY <1>1, <1>2, <2>1 DEF HasComputed, HaveSums
<1>5. GatherInv'
  <2> SUFFICES ASSUME NEW d \in Ranks PROVE HasGathered(d)'
    BY DEF GatherInv
  <2>1. HasGathered(d)
    BY DEF BufferInv, GatherInv
  <2> QED
    BY <1>1, <1>2, <2>1 DEF HasGathered
<1> QED
  BY <1>3, <1>4, <1>5 DEF BufferInv

LEMMA NextBufferInv == BufferInv /\ [BufferNext]_vars => BufferInv'
<1> SUFFICES ASSUME BufferInv, [BufferNext]_vars PROVE BufferInv'
  OBVIOUS
<1>1. BufferOrder'
  BY NextBufferOrder DEF BufferInv
<1>2. CASE UNCHANGED vars
  BY <1>1, <1>2, IdleBufferInv
<1>3. CASE BufferNext
  <2>1. PICK r \in Ranks : Step(r)
    BY <1>3 DEF BufferNext
  <2>2. BufferOrder /\ ControlOK'
    BY <1>1 DEF BufferInv, BufferOrder, OrderInv
  <2>3. ASSUME NEW d \in Ranks
        PROVE  /\ ComesIn(d) /\ HasDups(d) /\ IsPadded(d) /\ HasReceived(d)
               /\ HasComputed(d) /\ HaveSums(d) /\ HasGathered(d)
    BY DEF BufferInv, DispatchInv, CombineInv, GatherInv
  <2>4. ASSUME NEW d \in Ranks PROVE ComesIn(d)'
    BY <2>1, <2>2, <2>3, NextComesIn
  <2>5. ASSUME NEW d \in Ranks PROVE HasDups(d)'
    BY <2>1, <2>2, <2>3, NextHasDups
  <2>6. ASSUME NEW d \in Ranks PROVE IsPadded(d)'
    BY <2>1, <2>2, <2>3, NextIsPadded
  <2>7. ASSUME NEW d \in Ranks PROVE HasReceived(d)'
    BY <2>1, <2>2, <2>3, NextHasReceived
  <2>8. ASSUME NEW d \in Ranks PROVE HasComputed(d)'
    BY <2>1, <2>2, <2>3, NextHasComputed
  <2>9. ASSUME NEW d \in Ranks PROVE HaveSums(d)'
    BY <2>1, <2>2, <2>3, NextHaveSums
  <2>10. ASSUME NEW d \in Ranks PROVE HasGathered(d)'
    BY <2>1, <2>2, <2>3, NextHasGathered
  <2>11. DispatchInv' /\ CombineInv' /\ GatherInv'
    BY <2>4, <2>5, <2>6, <2>7, <2>8, <2>9, <2>10 DEF DispatchInv, CombineInv, GatherInv
  <2> QED
    BY <1>1, <2>11 DEF BufferInv
<1> QED
  BY <1>2, <1>3

LEMMA BufferInvHolds == BufferSpec => []BufferInv
  BY InitBufferInv, NextBufferInv, PTL DEF BufferSpec

\* After a dispatch the caller of every rank finds in each row the token, and the weight,
\* of the entry that planning says was sent there, of that very dispatch, and nothing in
\* the padding: whatever the other ranks are doing.
THEOREM EachRowIsDelivered == BufferSpec => []Delivered
<1>1. BufferInv => Delivered
  <2> SUFFICES ASSUME BufferInv, NEW r \in Ranks, step[r] = "received", NEW l \in Rows,
                      NEW owner, owner = srcInfo[r][l], NEW from, from = owner \div NvS,
                      NEW entry, entry = owner - from * NvS
               PROVE  /\ owner # None =>
                          /\ View(r).rows[l] = SetToBag({<<call[r], from, TokenOf(entry)>>})
                          /\ program.weighted => View(r).weights[l] = <<call[r], from, entry>>
                      /\ l \in PaddingRows(plan[r].layout.zeroFill) => View(r).rows[l] = EmptyBag
    BY DEF Delivered
  <2>1. PICK n, topk, w : n = call[r] /\ topk = RoutingOf(call[r]) /\ w = program.weighted
    OBVIOUS
  <2>2. HasRows(w, n, topk, r, View(r))
    BY <2>1 DEF BufferInv, DispatchInv, HasReceived
  <2>3. /\ topk \in Routings /\ Knows(topk, r, srcInfo[r])
        /\ plan[r].layout = LayoutOf(AllocIn(topk), r)
    BY <2>1, HasPlan DEF BufferInv, BufferOrder, PlanOfCall
  <2>4. ASSUME owner # None
        PROVE  /\ View(r).rows[l] = SetToBag({<<n, from, TokenOf(entry)>>})
               /\ w => View(r).weights[l] = <<n, from, entry>>
    <3>1. PICK q \in Ranks, i \in Slots : Lies(topk, q, i, r, l)
      BY <2>3, <2>4, KnowsEntry
    <3>2. SourceRank(owner) = q /\ SourceEntry(owner) = i
      BY <2>3, <3>1, KnowsEntry
    <3>3. from = q /\ entry = i
      BY <3>2 DEF SourceRank, SourceEntry
    <3> QED
      BY <2>2, <3>1, <3>3 DEF HasRows, HoldsTokens, HoldsWeights, Token
  <2>5. l \in PaddingRows(plan[r].layout.zeroFill) => View(r).rows[l] = EmptyBag
    BY <2>2, <2>3 DEF HasRows, HoldsPadding, FilledIn
  <2> QED
    BY <2>1, <2>4, <2>5
<1> QED
  BY <1>1, BufferInvHolds, PTL

\* A combine returns the results of the dispatch right before it.
LEMMA CombinesLast ==
    ASSUME ControlOK, NEW r \in Ranks, step[r] = "combined"
    PROVE  LastDispatch(r) = call[r] - 1
<1>1. /\ InCall(r) /\ call[r] \in 0 .. Len(program.ops) /\ Len(program.ops) \in Nat
  BY ProgramFacts DEF ControlOK
<1>2. PICK c \in Nat : c = call[r] /\ c \in 1 .. Len(program.ops)
  BY <1>1 DEF InCall
<1>3. program.ops[c].kind = "combine"
  BY <1>1, <1>2 DEF InCall, InCombine, Op
<1>4. c - 1 \in 1 .. Len(program.ops) /\ program.ops[c - 1].kind # "combine"
  BY <1>2, <1>3, ProgramFacts
<1> DEFINE OfLast(n) == /\ program.ops[n].kind # "combine"
                      /\ \A m \in (n + 1) .. c : program.ops[m].kind = "combine"
<1>5. LastDispatch(r) = CHOOSE n \in 1 .. c : OfLast(n)
  BY <1>2 DEF LastDispatch
<1>6. c - 1 \in 1 .. c /\ OfLast(c - 1)
  <2>1. \A m \in (c - 1 + 1) .. c : m = c
    BY <1>2
  <2> QED
    BY <1>2, <1>3, <1>4, <2>1
<1>7. ASSUME NEW n \in 1 .. c, OfLast(n) PROVE n = c - 1
  <2>1. n # c
    BY <1>3, <1>7
  <2>2. ~(n < c - 1)
    <3>1. n < c - 1 => c - 1 \in (n + 1) .. c
      BY <1>2
    <3> QED
      BY <1>4, <1>7, <3>1
  <2> QED
    BY <1>2, <2>1, <2>2
<1> HIDE DEF OfLast
<1>8. (CHOOSE n \in 1 .. c : OfLast(n)) \in 1 .. c /\ OfLast(CHOOSE n \in 1 .. c : OfLast(n))
  BY <1>6
<1> QED
  BY <1>2, <1>5, <1>7, <1>8

LEMMA HasCombined ==
    ASSUME BufferInv, NEW r \in Ranks, step[r] = "combined", NEW n, n = LastDispatch(r)
    PROVE  /\ routing[round[r]] \in Routings
           /\ \A t \in 0 .. (NumTokens - 1) :
                 out[r][t] = Tally(n, routing[round[r]], r, EntriesOf(t))
           /\ program.weighted => \A i \in Slots : outWeights[r][i] = <<n, r, i>>
<1>1. n = call[r] - 1
  BY CombinesLast DEF BufferInv, BufferOrder, OrderInv
<1>2. PICK topk : topk = RoutingOf(call[r])
  OBVIOUS
<1>3. topk \in Routings /\ topk = routing[round[r]]
  BY <1>2, HasPlan DEF BufferInv, BufferOrder, PlanOfCall, RoutingOf
<1>4. /\ HasTallied(n, topk, r, {}, out[r])
      /\ program.weighted => HasBack(n, r, {}, outWeights[r])
  BY <1>1, <1>2 DEF BufferInv, GatherInv, HasGathered
<1>5. ASSUME NEW t \in 0 .. (NumTokens - 1)
      PROVE  out[r][t] = Tally(n, topk, r, EntriesOf(t))
  BY <1>3, <1>4, CoveredAll DEF HasTallied
<1> QED
  BY <1>3, <1>4, <1>5 DEF HasBack

\* When a combine has ended, the output of every token is the result of each of its
\* chosen experts on that very token, as often as it was chosen.
THEOREM CombineGivesTheResults == BufferSpec => []Combined
<1>1. BufferInv => Combined
  <2> SUFFICES ASSUME BufferInv, NEW r \in Ranks, step[r] = "combined",
                      NEW s \in 0 .. (NumTokens - 1)
               PROVE  out[r][s] = ResultOf(r, s)
    BY DEF Combined
  <2>1. PICK n, topk, m : /\ n = LastDispatch(r) /\ topk = routing[round[r]]
                          /\ m = [i \in Slots |-> Made(n, topk, r, i)]
    OBVIOUS
  <2>2. out[r][s] = TallyOf(m, EntriesOf(s))
    BY <2>1, HasCombined DEF Tally
  <2>3. ASSUME NEW i \in EntriesOf(s) PROVE m[i] = <<<<n, r, s>>, TopkOf(r)[i]>>
    BY <2>1 DEF EntriesOf, Made, Token, TopkOf
  <2>4. {m[i] : i \in EntriesOf(s)} = {<<<<n, r, s>>, TopkOf(r)[i]>> : i \in EntriesOf(s)}
    BY <2>3
  <2>5. ASSUME NEW x
        PROVE  {i \in EntriesOf(s) : m[i] = x}
                   = {i \in EntriesOf(s) : <<<<n, r, s>>, TopkOf(r)[i]>> = x}
    BY <2>3
  <2>6. TallyOf(m, EntriesOf(s)) =
            [x \in {<<<<n, r, s>>, TopkOf(r)[i]>> : i \in EntriesOf(s)} |->
                Cardinality({i \in EntriesOf(s) : <<<<n, r, s>>, TopkOf(r)[i]>> = x})]
    BY <2>4, <2>5 DEF TallyOf
  <2> QED
    BY <2>1, <2>2, <2>6 DEF ResultOf
<1> QED
  BY <1>1, BufferInvHolds, PTL

\* When a combine has ended, every entry has its own weight back.
THEOREM WeightsComeBack == BufferSpec => []WeightsReturned
<1>1. BufferInv => WeightsReturned
  BY HasCombined DEF WeightsReturned
<1> QED
  BY <1>1, BufferInvHolds, PTL

=============================================================================
