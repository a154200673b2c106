-------------------------- MODULE PlanAllocProofs --------------------------
(***************************************************************************)
(* The allocation of PlanAlloc, for every number of ranks and experts, and *)
(* every routing of NumRanks * Cap tokens: NumRanks rounds of pairing fill *)
(* every rank, ExpertsPerRank * NumRanks iterations serve every quota, and *)
(* so every token is computed by some rank, every rank computes exactly    *)
(* Cap tokens, and those of one other home group at most.                  *)
(*                                                                         *)
(* Sums over sets of ranks and of experts are taken apart first: the folds *)
(* of the library, which are folds over a set whose elements are chosen.   *)
(***************************************************************************)
EXTENDS PlanAlloc, FiniteSetTheorems, WellFoundedInduction, TLAPS

-----------------------------------------------------------------------------
(* Induction, over the numbers and over the subsets of a finite set.  A set  *)
(* that is closed under the step takes the place of the predicate.           *)
\* A set of numbers has a least one.
LEMMA LeastOf ==
    ASSUME NEW T, T \subseteq Nat, T # {}
    PROVE  \E n \in T : \A m \in T : n <= m
<1> DEFINE R == {ss \in Nat \X Nat : ss[1] < ss[2]}
<1>1. IsWellFoundedOn(R, Nat)
  BY NatLessThanWellFounded DEF OpToRel
<1> HIDE DEF R
<1>2. PICK n \in T : \A m \in T : ~(<<m, n>> \in R)
  BY <1>1, WFMin
<1>3. \A m \in T : ~(m < n)
  BY <1>2 DEF R
<1> QED
  BY <1>3

\* Induction over the numbers.
LEMMA NatInduct ==
    ASSUME NEW T, 0 \in T, \A n \in Nat : n \in T => n + 1 \in T
    PROVE  \A n \in Nat : n \in T
<1> SUFFICES ASSUME Nat \ T # {} PROVE FALSE
  OBVIOUS
<1>1. PICK n \in Nat \ T : \A m \in Nat \ T : n <= m
  <2>1. Nat \ T \subseteq Nat
    OBVIOUS
  <2> QED
    BY <2>1, LeastOf
<1>2. n # 0 /\ n - 1 \in Nat
  BY <1>1
<1>3. n - 1 \in T
  BY <1>1, <1>2
<1> QED
  BY <1>1, <1>2, <1>3

LEMMA RemoveOne ==
    ASSUME NEW T, IsFiniteSet(T), NEW x \in T, NEW n \in Nat, Cardinality(T) = n + 1
    PROVE  IsFiniteSet(T \ {x}) /\ Cardinality(T \ {x}) = n
<1>1. IsFiniteSet(T \ {x}) /\ Cardinality(T \ {x}) = Cardinality(T) - 1
  BY FS_RemoveElement
<1> QED
  BY <1>1

\* Induction over the subsets of a finite set.
LEMMA SetInduct ==
    ASSUME NEW S, IsFiniteSet(S), NEW G, {} \in G,
           \A T \in SUBSET S : \A x \in S \ T : T \in G => T \cup {x} \in G
    PROVE  S \in G
<1> DEFINE N == {n \in Nat : \A T \in SUBSET S : Cardinality(T) = n => T \in G}
<1>1. 0 \in N
  <2>1. \A T \in SUBSET S : Cardinality(T) = 0 => T = {}
    BY FS_Subset, FS_EmptySet
  <2> QED
    BY <2>1
<1>2. ASSUME NEW n \in Nat, n \in N PROVE n + 1 \in N
  <2> SUFFICES ASSUME NEW T \in SUBSET S, Cardinality(T) = n + 1 PROVE T \in G
    OBVIOUS
  <2>1. IsFiniteSet(T) /\ T # {}
    BY FS_Subset, FS_EmptySet
  <2>2. PICK x : x \in T
    BY <2>1
  <2>3. Cardinality(T \ {x}) = n
    BY <2>1, <2>2, RemoveOne
  <2>4. T \ {x} \in G
    BY <1>2, <2>3
  <2>5. (T \ {x}) \cup {x} = T /\ x \in S \ (T \ {x}) /\ T \ {x} \in SUBSET S
    BY <2>2
  <2> QED
    BY <2>4, <2>5
<1> HIDE DEF N
<1>3. \A n \in Nat : n \in N
  BY <1>1, <1>2, NatInduct
<1>4. Cardinality(S) \in Nat
  BY FS_CardinalityType
<1> QED
  BY <1>3, <1>4 DEF N

-----------------------------------------------------------------------------
\* The recursion by which the library folds f over a set.
Picked(s) == CHOOSE x \in s : TRUE
IsFold(f, S, g) ==
    g = [s \in SUBSET S |-> IF s = {} THEN 0 ELSE f[Picked(s)] + g[s \ {Picked(s)}]]

LEMMA SumIsFold == ASSUME NEW f, NEW S
                   PROVE  SumFunctionOnSet(f, S) = (CHOOSE k : IsFold(f, S, k))[S]
BY DEF SumFunctionOnSet, FoldFunctionOnSet, MapThenFoldSet, IsFold, Picked

LEMMA FoldExists ==
    ASSUME NEW f, NEW S, IsFiniteSet(S)
    PROVE  \E g : IsFold(f, S, g)
<1> DEFINE Upto(k) == {s \in SUBSET S : Cardinality(s) <= k}
           Part(k, g) == g = [s \in Upto(k) |->
                        IF s = {} THEN 0 ELSE f[Picked(s)] + g[s \ {Picked(s)}]]
           N == {k \in Nat : \E g : Part(k, g)}
<1>0. \A s \in SUBSET S : /\ IsFiniteSet(s) /\ Cardinality(s) \in Nat
                          /\ Cardinality(s) = 0 <=> s = {}
                          /\ Cardinality(s) <= Cardinality(S)
                          /\ s # {} => Picked(s) \in s
  BY FS_Subset, FS_EmptySet, FS_CardinalityType DEF Picked
<1>1. 0 \in N
  <2> DEFINE g == [s \in Upto(0) |-> 0]
  <2>1. \A s \in Upto(0) : s = {}
    BY <1>0
  <2>2. Part(0, g)
    BY <2>1
  <2> QED
    BY <2>2
<1>2. ASSUME NEW k \in Nat, k \in N PROVE k + 1 \in N
  <2>1. PICK g : Part(k, g)
    BY <1>2
  <2> DEFINE h == [s \in Upto(k + 1) |->
                      IF s = {} THEN 0 ELSE f[Picked(s)] + g[s \ {Picked(s)}]]
  <2>2. \A s \in Upto(k) : s \in Upto(k + 1) /\ h[s] = g[s]
    <3> SUFFICES ASSUME NEW s \in Upto(k) PROVE s \in Upto(k + 1) /\ h[s] = g[s]
      OBVIOUS
    <3>1. s \in Upto(k + 1)
      BY <1>0
    <3>2. g[s] = IF s = {} THEN 0 ELSE f[Picked(s)] + g[s \ {Picked(s)}]
      BY <2>1
    <3> QED
      BY <3>1, <3>2
  <2>3. \A s \in Upto(k + 1) : s # {} => s \ {Picked(s)} \in Upto(k)
    <3> SUFFICES ASSUME NEW s \in Upto(k + 1), s # {} PROVE s \ {Picked(s)} \in Upto(k)
      OBVIOUS
    <3>1. IsFiniteSet(s) /\ Picked(s) \in s /\ Cardinality(s) \in Nat /\ Cardinality(s) <= k + 1
      BY <1>0
    <3>2. Cardinality(s \ {Picked(s)}) = Cardinality(s) - 1
      BY <3>1, FS_RemoveElement
    <3> QED
      BY <3>1, <3>2
  <2>4. \A s \in Upto(k + 1) : s # {} => h[s \ {Picked(s)}] = g[s \ {Picked(s)}]
    BY <2>2, <2>3
  <2>5. Part(k + 1, h)
    BY <2>4
  <2>6. \E e : Part(k + 1, e)
    BY <2>5
  <2> HIDE DEF Part
  <2> QED
    BY <2>6
<1>3. Cardinality(S) \in N
  <2> HIDE DEF N
  <2> QED
    BY <1>1, <1>2, NatInduct, FS_CardinalityType
<1>4. Upto(Cardinality(S)) = SUBSET S
  BY <1>0
<1> QED
  BY <1>3, <1>4 DEF IsFold

\* Two folds agree where the functions do.
LEMMA FoldsAgree ==
    ASSUME NEW f, NEW S, IsFiniteSet(S), NEW g, IsFold(f, S, g),
           NEW e, NEW T, NEW h, IsFold(e, T, h),
           T \subseteq S, \A x \in T : e[x] = f[x]
    PROVE  h[T] = g[T]
<1> DEFINE N == {n \in Nat : \A s \in SUBSET T : Cardinality(s) = n => h[s] = g[s]}
<1>1. IsFiniteSet(T)
  BY FS_Subset
<1>2. \A s \in SUBSET T : /\ IsFiniteSet(s) /\ Cardinality(s) \in Nat
                          /\ Cardinality(s) = 0 <=> s = {}
                          /\ s # {} => Picked(s) \in s
  BY <1>1, FS_Subset, FS_EmptySet, FS_CardinalityType DEF Picked
<1>3. \A s \in SUBSET T :
         /\ h[s] = IF s = {} THEN 0 ELSE e[Picked(s)] + h[s \ {Picked(s)}]
         /\ g[s] = IF s = {} THEN 0 ELSE f[Picked(s)] + g[s \ {Picked(s)}]
  BY DEF IsFold
<1>4. 0 \in N
  BY <1>2, <1>3
<1>5. ASSUME NEW n \in Nat, n \in N PROVE n + 1 \in N
  <2> SUFFICES ASSUME NEW s \in SUBSET T, Cardinality(s) = n + 1 PROVE h[s] = g[s]
    OBVIOUS
  <2>1. s # {} /\ Picked(s) \in s
    BY <1>2
  <2>2. Cardinality(s \ {Picked(s)}) = n /\ s \ {Picked(s)} \in SUBSET T
    BY <1>2, <2>1, RemoveOne
  <2>3. h[s \ {Picked(s)}] = g[s \ {Picked(s)}]
    BY <1>5, <2>2
  <2>4. e[Picked(s)] = f[Picked(s)]
    BY <2>1
  <2> QED
    BY <1>3, <2>1, <2>3, <2>4
<1> HIDE DEF N
<1>6. Cardinality(T) \in N
  BY <1>2, <1>4, <1>5, NatInduct
<1> QED
  BY <1>6 DEF N

LEMMA SumEmpty == ASSUME NEW f PROVE SumFunctionOnSet(f, {}) = 0
<1>1. PICK g : IsFold(f, {}, g)
  BY FoldExists, FS_EmptySet
<1>2. IsFold(f, {}, CHOOSE k : IsFold(f, {}, k))
  BY <1>1
<1> QED
  BY <1>2, SumIsFold DEF IsFold

\* A sum depends on the values at its indices only.
LEMMA SumSame ==
    ASSUME NEW f, NEW e, NEW S, IsFiniteSet(S), \A x \in S : e[x] = f[x]
    PROVE  SumFunctionOnSet(e, S) = SumFunctionOnSet(f, S)
<1>1. /\ IsFold(f, S, CHOOSE k : IsFold(f, S, k))
      /\ IsFold(e, S, CHOOSE k : IsFold(e, S, k))
  BY FoldExists
<1> QED
  BY <1>1, SumIsFold, FoldsAgree

LEMMA SumPicked ==
    ASSUME NEW f, NEW S, IsFiniteSet(S), S # {}
    PROVE  /\ Picked(S) \in S
           /\ SumFunctionOnSet(f, S) = f[Picked(S)] + SumFunctionOnSet(f, S \ {Picked(S)})
<1>1. PICK g : g = (CHOOSE k : IsFold(f, S, k)) /\ IsFold(f, S, g)
  BY FoldExists
<1>2. Picked(S) \in S
  BY DEF Picked
<1>3. g[S] = f[Picked(S)] + g[S \ {Picked(S)}]
  BY <1>1 DEF IsFold
<1>4. PICK T : T = S \ {Picked(S)}
  OBVIOUS
<1>5. IsFiniteSet(T) /\ T \subseteq S
  BY <1>4, FS_RemoveElement
<1>6. PICK h : h = (CHOOSE k : IsFold(f, T, k)) /\ IsFold(f, T, h)
  BY <1>5, FoldExists
<1>7. h[T] = g[T]
  BY <1>1, <1>5, <1>6, FoldsAgree
<1> QED
  BY <1>1, <1>2, <1>3, <1>4, <1>6, <1>7, SumIsFold

LEMMA SumInt ==
    ASSUME NEW f, NEW S, IsFiniteSet(S), \A x \in S : f[x] \in Int
    PROVE  SumFunctionOnSet(f, S) \in Int
<1> DEFINE N == {n \in Nat : \A T \in SUBSET S : Cardinality(T) = n => SumFunctionOnSet(f, T) \in Int}
<1>1. 0 \in N
  <2>1. \A T \in SUBSET S : Cardinality(T) = 0 => T = {}
    BY FS_Subset, FS_EmptySet
  <2> QED
    BY <2>1, SumEmpty
<1>2. ASSUME NEW n \in Nat, n \in N PROVE n + 1 \in N
  <2> SUFFICES ASSUME NEW T \in SUBSET S, Cardinality(T) = n + 1
               PROVE  SumFunctionOnSet(f, T) \in Int
    OBVIOUS
  <2>1. IsFiniteSet(T) /\ T # {}
    BY FS_Subset, FS_EmptySet
  <2>2. Picked(T) \in T /\ SumFunctionOnSet(f, T) = f[Picked(T)] + SumFunctionOnSet(f, T \ {Picked(T)})
    BY <2>1, SumPicked
  <2>3. Cardinality(T \ {Picked(T)}) = n
    BY <2>1, <2>2, RemoveOne
  <2>4. SumFunctionOnSet(f, T \ {Picked(T)}) \in Int
    BY <1>2, <2>3
  <2> QED
    BY <2>2, <2>4
<1> HIDE DEF N
<1>3. Cardinality(S) \in N
  BY <1>1, <1>2, NatInduct, FS_CardinalityType
<1> QED
  BY <1>3 DEF N

\* Any element may be taken out of a sum.
LEMMA SumRemove ==
    ASSUME NEW f, NEW S, IsFiniteSet(S), \A x \in S : f[x] \in Int
    PROVE  \A x \in S : SumFunctionOnSet(f, S) = f[x] + SumFunctionOnSet(f, S \ {x})
<1> DEFINE N == {n \in Nat : \A T \in SUBSET S : Cardinality(T) = n =>
                    \A x \in T : SumFunctionOnSet(f, T) = f[x] + SumFunctionOnSet(f, T \ {x})}
<1>1. 0 \in N
  <2>1. \A T \in SUBSET S : Cardinality(T) = 0 => T = {}
    BY FS_Subset, FS_EmptySet
  <2> QED
    BY <2>1
<1>2. ASSUME NEW n \in Nat, n \in N PROVE n + 1 \in N
  <2> SUFFICES ASSUME NEW T \in SUBSET S, Cardinality(T) = n + 1, NEW x \in T
               PROVE  SumFunctionOnSet(f, T) = f[x] + SumFunctionOnSet(f, T \ {x})
    OBVIOUS
  <2>1. IsFiniteSet(T)
    BY FS_Subset
  <2>2. PICK c \in T : SumFunctionOnSet(f, T) = f[c] + SumFunctionOnSet(f, T \ {c})
    BY <2>1, SumPicked
  <2>3. CASE c = x
    BY <2>2, <2>3
  <2>4. CASE c # x
    <3>1. /\ T \ {c} \in SUBSET S /\ Cardinality(T \ {c}) = n /\ x \in T \ {c}
          /\ T \ {x} \in SUBSET S /\ Cardinality(T \ {x}) = n /\ c \in T \ {x}
      BY <2>1, <2>4, RemoveOne
    <3>2. /\ SumFunctionOnSet(f, T \ {c}) = f[x] + SumFunctionOnSet(f, (T \ {c}) \ {x})
          /\ SumFunctionOnSet(f, T \ {x}) = f[c] + SumFunctionOnSet(f, (T \ {x}) \ {c})
      BY <1>2, <3>1
    <3>3. PICK U : U = (T \ {c}) \ {x} /\ U = (T \ {x}) \ {c}
      OBVIOUS
    <3>4. SumFunctionOnSet(f, U) \in Int
      <4>1. IsFiniteSet(U) /\ U \subseteq S
        BY <3>3, FS_Subset
      <4> QED
        BY <4>1, SumInt
    <3>5. f[c] \in Int /\ f[x] \in Int
      OBVIOUS
    <3>6. PICK u, a, b : u = SumFunctionOnSet(f, U) /\ a = f[c] /\ b = f[x]
      OBVIOUS
    <3>7. SumFunctionOnSet(f, T) = a + (b + u) /\ SumFunctionOnSet(f, T \ {x}) = a + u
      BY <2>2, <3>2, <3>3, <3>6
    <3> QED
      BY <3>4, <3>5, <3>6, <3>7
  <2> QED
    BY <2>3, <2>4
<1> HIDE DEF N
<1>3. Cardinality(S) \in N
  BY <1>1, <1>2, NatInduct, FS_CardinalityType
<1> QED
  BY <1>3 DEF N

LEMMA SumInsert ==
    ASSUME NEW f, NEW S, IsFiniteSet(S), \A y \in S : f[y] \in Int,
           NEW x, x \notin S, f[x] \in Int
    PROVE  /\ IsFiniteSet(S \cup {x})
           /\ SumFunctionOnSet(f, S \cup {x}) = f[x] + SumFunctionOnSet(f, S)
<1>1. PICK T : T = S \cup {x}
  OBVIOUS
<1>2. IsFiniteSet(T) /\ x \in T /\ T \ {x} = S /\ \A y \in T : f[y] \in Int
  BY <1>1, FS_AddElement
<1>3. SumFunctionOnSet(f, T) = f[x] + SumFunctionOnSet(f, T \ {x})
  BY <1>2, SumRemove
<1> QED
  BY <1>1, <1>2, <1>3

\* Disjoint sets of indices.
LEMMA SumUnion ==
    ASSUME NEW f, NEW S, IsFiniteSet(S), NEW T, IsFiniteSet(T), S \cap T = {},
           \A x \in S \cup T : f[x] \in Int
    PROVE  SumFunctionOnSet(f, S \cup T) = SumFunctionOnSet(f, S) + SumFunctionOnSet(f, T)
<1> DEFINE G == {U \in SUBSET S :
                 SumFunctionOnSet(f, U \cup T) = SumFunctionOnSet(f, U) + SumFunctionOnSet(f, T)}
<1>1. {} \in G
  <2>1. SumFunctionOnSet(f, T) \in Int /\ {} \cup T = T
    BY SumInt
  <2> QED
    BY <2>1, SumEmpty
<1>2. ASSUME NEW U \in SUBSET S, NEW x \in S \ U, U \in G PROVE U \cup {x} \in G
  <2>1. PICK V : V = U \cup T
    OBVIOUS
  <2>2. IsFiniteSet(U) /\ IsFiniteSet(V) /\ x \notin V /\ f[x] \in Int
    BY <2>1, FS_Subset, FS_Union
  <2>3. (\A y \in U : f[y] \in Int) /\ (\A y \in V : f[y] \in Int)
    BY <2>1
  <2>4. /\ SumFunctionOnSet(f, U \cup {x}) = f[x] + SumFunctionOnSet(f, U)
        /\ SumFunctionOnSet(f, V \cup {x}) = f[x] + SumFunctionOnSet(f, V)
    BY <2>2, <2>3, SumInsert
  <2>5. (U \cup {x}) \cup T = V \cup {x} /\ U \cup {x} \in SUBSET S
    BY <2>1
  <2>6. SumFunctionOnSet(f, U) \in Int /\ SumFunctionOnSet(f, T) \in Int
    BY <2>2, <2>3, SumInt
  <2>7. SumFunctionOnSet(f, V) = SumFunctionOnSet(f, U) + SumFunctionOnSet(f, T)
    BY <1>2, <2>1
  <2>8. SumFunctionOnSet(f, V \cup {x}) = SumFunctionOnSet(f, U \cup {x}) + SumFunctionOnSet(f, T)
    <3>1. PICK a, u, t : a = f[x] /\ u = SumFunctionOnSet(f, U) /\ t = SumFunctionOnSet(f, T)
      OBVIOUS
    <3>2. SumFunctionOnSet(f, V \cup {x}) = a + (u + t) /\ SumFunctionOnSet(f, U \cup {x}) = a + u
      BY <2>4, <2>7, <3>1
    <3> QED
      BY <2>2, <2>6, <3>1, <3>2
  <2> QED
    BY <2>5, <2>8
<1> HIDE DEF G
<1>3. S \in G
  BY <1>1, <1>2, SetInduct
<1> QED
  BY <1>3 DEF G

\* The sum of sums.
LEMMA SumPlus ==
    ASSUME NEW f, NEW e, NEW h, NEW S, IsFiniteSet(S),
           \A x \in S : f[x] \in Int /\ e[x] \in Int /\ h[x] = f[x] + e[x]
    PROVE  SumFunctionOnSet(h, S) = SumFunctionOnSet(f, S) + SumFunctionOnSet(e, S)
<1> DEFINE G == {T \in SUBSET S :
                 SumFunctionOnSet(h, T) = SumFunctionOnSet(f, T) + SumFunctionOnSet(e, T)}
<1>1. {} \in G
  BY SumEmpty
<1>2. ASSUME NEW T \in SUBSET S, NEW x \in S \ T, T \in G PROVE T \cup {x} \in G
  <2>1. IsFiniteSet(T)
    BY FS_Subset
  <2>2. \A y \in T \cup {x} : f[y] \in Int /\ e[y] \in Int /\ h[y] \in Int
    <3>1. \A y \in S : h[y] \in Int
      OBVIOUS
    <3> QED
      BY <3>1
  <2>3. /\ SumFunctionOnSet(f, T \cup {x}) = f[x] + SumFunctionOnSet(f, T)
        /\ SumFunctionOnSet(e, T \cup {x}) = e[x] + SumFunctionOnSet(e, T)
        /\ SumFunctionOnSet(h, T \cup {x}) = h[x] + SumFunctionOnSet(h, T)
    BY <2>1, <2>2, SumInsert
  <2>4. SumFunctionOnSet(f, T) \in Int /\ SumFunctionOnSet(e, T) \in Int
    BY <2>1, <2>2, SumInt
  <2>5. PICK a, b, u, t : a = f[x] /\ b = e[x] /\ u = SumFunctionOnSet(f, T) /\ t = SumFunctionOnSet(e, T)
    OBVIOUS
  <2>6. /\ a \in Int /\ b \in Int /\ u \in Int /\ t \in Int
        /\ SumFunctionOnSet(h, T \cup {x}) = (a + b) + (u + t)
        /\ SumFunctionOnSet(f, T \cup {x}) = a + u
        /\ SumFunctionOnSet(e, T \cup {x}) = b + t
    BY <1>2, <2>2, <2>3, <2>4, <2>5
  <2>7. SumFunctionOnSet(h, T \cup {x}) = SumFunctionOnSet(f, T \cup {x}) + SumFunctionOnSet(e, T \cup {x})
    BY <2>6
  <2> QED
    BY <2>7
<1> HIDE DEF G
<1>3. S \in G
  BY <1>1, <1>2, SetInduct
<1> QED
  BY <1>3 DEF G

\* Sums of larger values are larger; if they are equal the values are.
LEMMA SumLess ==
    ASSUME NEW f, NEW e, NEW S, IsFiniteSet(S),
           \A x \in S : f[x] \in Int /\ e[x] \in Int /\ f[x] <= e[x]
    PROVE  /\ SumFunctionOnSet(f, S) <= SumFunctionOnSet(e, S)
           /\ SumFunctionOnSet(f, S) = SumFunctionOnSet(e, S) => \A x \in S : f[x] = e[x]
<1> DEFINE G == {T \in SUBSET S :
                 /\ SumFunctionOnSet(f, T) <= SumFunctionOnSet(e, T)
                 /\ SumFunctionOnSet(f, T) = SumFunctionOnSet(e, T) => \A x \in T : f[x] = e[x]}
<1>1. {} \in G
  BY SumEmpty
<1>2. ASSUME NEW T \in SUBSET S, NEW x \in S \ T, T \in G PROVE T \cup {x} \in G
  <2>1. IsFiniteSet(T)
    BY FS_Subset
  <2>2. \A y \in T \cup {x} : f[y] \in Int /\ e[y] \in Int
    OBVIOUS
  <2>3. /\ SumFunctionOnSet(f, T \cup {x}) = f[x] + SumFunctionOnSet(f, T)
        /\ SumFunctionOnSet(e, T \cup {x}) = e[x] + SumFunctionOnSet(e, T)
    BY <2>1, <2>2, SumInsert
  <2>4. SumFunctionOnSet(f, T) \in Int /\ SumFunctionOnSet(e, T) \in Int
    BY <2>1, <2>2, SumInt
  <2>5. PICK a, b, u, t : a = f[x] /\ b = e[x] /\ u = SumFunctionOnSet(f, T) /\ t = SumFunctionOnSet(e, T)
    OBVIOUS
  <2>6. /\ a \in Int /\ b \in Int /\ u \in Int /\ t \in Int /\ a <= b /\ u <= t
        /\ SumFunctionOnSet(f, T \cup {x}) = a + u
        /\ SumFunctionOnSet(e, T \cup {x}) = b + t
        /\ u = t => \A y \in T : f[y] = e[y]
    BY <1>2, <2>2, <2>3, <2>4, <2>5
  <2>7. a + u <= b + t /\ (a + u = b + t => a = b /\ u = t)
    BY <2>6
  <2> QED
    BY <2>5, <2>6, <2>7
<1> HIDE DEF G
<1>3. S \in G
  BY <1>1, <1>2, SetInduct
<1> QED
  BY <1>3 DEF G

\* A sum of zeros; a sum of values that are not negative.
LEMMA SumZero ==
    ASSUME NEW f, NEW S, IsFiniteSet(S), \A x \in S : f[x] = 0
    PROVE  SumFunctionOnSet(f, S) = 0
<1> DEFINE G == {T \in SUBSET S : SumFunctionOnSet(f, T) = 0}
<1>1. {} \in G
  BY SumEmpty
<1>2. ASSUME NEW T \in SUBSET S, NEW x \in S \ T, T \in G PROVE T \cup {x} \in G
  <2>1. IsFiniteSet(T) /\ f[x] = 0 /\ \A y \in T : f[y] \in Int
    BY FS_Subset
  <2> QED
    BY <1>2, <2>1, SumInsert
<1> HIDE DEF G
<1>3. S \in G
  BY <1>1, <1>2, SetInduct
<1> QED
  BY <1>3 DEF G

LEMMA SumNat ==
    ASSUME NEW f, NEW S, IsFiniteSet(S), \A x \in S : f[x] \in Nat
    PROVE  /\ SumFunctionOnSet(f, S) \in Nat
           /\ \A T \in SUBSET S : SumFunctionOnSet(f, T) <= SumFunctionOnSet(f, S)
           /\ \A x \in S : f[x] <= SumFunctionOnSet(f, S)
           /\ SumFunctionOnSet(f, S) = 0 => \A x \in S : f[x] = 0
<1>0. ASSUME NEW T \in SUBSET S PROVE SumFunctionOnSet(f, T) \in Nat
  <2> DEFINE z == [x \in T |-> 0]
  <2>1. IsFiniteSet(T)
    BY FS_Subset
  <2>2. \A x \in T : z[x] = 0 /\ f[x] \in Nat
    OBVIOUS
  <2> HIDE DEF z
  <2>3. SumFunctionOnSet(z, T) = 0 /\ SumFunctionOnSet(f, T) \in Int
    BY <2>1, <2>2, SumZero, SumInt
  <2>4. SumFunctionOnSet(z, T) <= SumFunctionOnSet(f, T)
    <3>1. \A x \in T : z[x] \in Int /\ f[x] \in Int /\ z[x] <= f[x]
      BY <2>2
    <3> QED
      BY <2>1, <3>1, SumLess
  <2> QED
    BY <2>3, <2>4
<1>1. ASSUME NEW T \in SUBSET S PROVE SumFunctionOnSet(f, T) <= SumFunctionOnSet(f, S)
  <2>1. PICK U : U = S \ T
    OBVIOUS
  <2>2. IsFiniteSet(U) /\ IsFiniteSet(T) /\ U \cap T = {} /\ U \cup T = S /\ U \in SUBSET S
    BY <2>1, FS_Subset
  <2>3. SumFunctionOnSet(f, S) = SumFunctionOnSet(f, U) + SumFunctionOnSet(f, T)
    BY <2>2, SumUnion
  <2> QED
    BY <1>0, <2>2, <2>3
<1>2. ASSUME NEW x \in S PROVE f[x] <= SumFunctionOnSet(f, S)
  <2>1. SumFunctionOnSet(f, S) = f[x] + SumFunctionOnSet(f, S \ {x})
    BY SumRemove
  <2>2. SumFunctionOnSet(f, S \ {x}) \in Nat
    BY <1>0
  <2> QED
    BY <2>1, <2>2
<1>3. SumFunctionOnSet(f, S) = 0 => \A x \in S : f[x] = 0
  <2> SUFFICES ASSUME SumFunctionOnSet(f, S) = 0, NEW x \in S PROVE f[x] = 0
    OBVIOUS
  <2> QED
    BY <1>2
<1> QED
  BY <1>0, <1>1, <1>2, <1>3

\* One value changed.
LEMMA SumExcept ==
    ASSUME NEW f, NEW e, NEW S, IsFiniteSet(S), NEW x \in S,
           \A y \in S : f[y] \in Int /\ e[y] \in Int,
           \A y \in S \ {x} : e[y] = f[y]
    PROVE  SumFunctionOnSet(e, S) = SumFunctionOnSet(f, S) - f[x] + e[x]
<1>1. /\ SumFunctionOnSet(f, S) = f[x] + SumFunctionOnSet(f, S \ {x})
      /\ SumFunctionOnSet(e, S) = e[x] + SumFunctionOnSet(e, S \ {x})
  BY SumRemove
<1>2. PICK T : T = S \ {x}
  OBVIOUS
<1>3. IsFiniteSet(T)
  BY <1>2, FS_RemoveElement
<1>4. SumFunctionOnSet(e, T) = SumFunctionOnSet(f, T) /\ SumFunctionOnSet(f, T) \in Int
  BY <1>2, <1>3, SumSame, SumInt
<1>5. PICK a, b, u : a = f[x] /\ b = e[x] /\ u = SumFunctionOnSet(f, T)
  OBVIOUS
<1>6. a \in Int /\ b \in Int /\ u \in Int /\ SumFunctionOnSet(f, S) = a + u /\ SumFunctionOnSet(e, S) = b + u
  BY <1>1, <1>2, <1>4, <1>5
<1> QED
  BY <1>5, <1>6

\* The values in as many parts as p tells apart.
LEMMA SumParts ==
    ASSUME NEW f, NEW S, IsFiniteSet(S), \A x \in S : f[x] \in Int,
           NEW T, IsFiniteSet(T), NEW p \in [S -> T],
           NEW of, \A t \in T : \A x : x \in of[t] <=> x \in S /\ p[x] = t,
           NEW part, \A t \in T : part[t] = SumFunctionOnSet(f, of[t])
    PROVE  SumFunctionOnSet(part, T) = SumFunctionOnSet(f, S)
<1> DEFINE Of(U) == {x \in S : p[x] \in U}
           G == {U \in SUBSET T : SumFunctionOnSet(part, U) = SumFunctionOnSet(f, Of(U))}
<1>0. \A U : IsFiniteSet(Of(U)) /\ \A x \in Of(U) : f[x] \in Int
  BY FS_Subset
<1>1. {} \in G
  <2>1. Of({}) = {}
    OBVIOUS
  <2> QED
    BY <2>1, SumEmpty
<1>2. ASSUME NEW U \in SUBSET T, NEW t \in T \ U, U \in G PROVE U \cup {t} \in G
  <2>1. PICK P, Q : P = of[t] /\ Q = Of(U)
    OBVIOUS
  <2>2. P \cap Q = {} /\ Of(U \cup {t}) = P \cup Q
    BY <2>1
  <2>3. IsFiniteSet(P) /\ IsFiniteSet(Q) /\ \A x \in P \cup Q : f[x] \in Int
    <3>1. P \subseteq S /\ Q \subseteq S
      BY <2>1
    <3> QED
      BY <3>1, FS_Subset
  <2>4. SumFunctionOnSet(f, P \cup Q) = SumFunctionOnSet(f, P) + SumFunctionOnSet(f, Q)
    BY <2>2, <2>3, SumUnion
  <2>5. IsFiniteSet(U) /\ t \notin U /\ part[t] = SumFunctionOnSet(f, P)
    BY <2>1, FS_Subset
  <2>6. part[t] \in Int /\ \A u \in U : part[u] \in Int
    <3>1. \A u \in T : part[u] \in Int
      <4> SUFFICES ASSUME NEW u \in T PROVE part[u] \in Int
        OBVIOUS
      <4>1. of[u] \subseteq S
        OBVIOUS
      <4>2. IsFiniteSet(of[u]) /\ \A x \in of[u] : f[x] \in Int
        BY <4>1, FS_Subset
      <4> QED
        BY <4>2, SumInt
    <3> QED
      BY <3>1
  <2>7. SumFunctionOnSet(part, U \cup {t}) = part[t] + SumFunctionOnSet(part, U)
    BY <2>5, <2>6, SumInsert
  <2>8. SumFunctionOnSet(part, U \cup {t}) = SumFunctionOnSet(f, Of(U \cup {t}))
    BY <1>2, <2>1, <2>2, <2>4, <2>5, <2>7
  <2> QED
    BY <2>8
<1>3. T \in G
  <2> HIDE DEF G
  <2> QED
    BY <1>1, <1>2, SetInduct
<1>4. Of(T) = S
  OBVIOUS
<1> QED
  BY <1>3, <1>4

\* A table with rows m[x] and columns n[y], and what they add up to.
AddedUp(S, T, m, n, row, col) ==
    /\ IsFiniteSet(S) /\ IsFiniteSet(T)
    /\ \A x \in S, y \in T : m[x][y] \in Int /\ n[y][x] = m[x][y]
    /\ \A x \in S : row[x] = SumFunctionOnSet(m[x], T)
    /\ \A y \in T : col[y] = SumFunctionOnSet(n[y], S)

\* Rows and columns add up to the same.
LEMMA SumTable ==
    ASSUME NEW S, NEW T, NEW m, NEW n, NEW row, NEW col, AddedUp(S, T, m, n, row, col)
    PROVE  SumFunctionOnSet(row, S) = SumFunctionOnSet(col, T)
<1> USE DEF AddedUp
<1> DEFINE Row(U) == [x \in S |-> SumFunctionOnSet(m[x], U)]
           G == {U \in SUBSET T : SumFunctionOnSet(Row(U), S) = SumFunctionOnSet(col, U)}
<1>1. {} \in G
  <2>1. \A x \in S : Row({})[x] = 0
    BY SumEmpty
  <2>2. PICK r : r = Row({})
    OBVIOUS
  <2>3. SumFunctionOnSet(r, S) = 0
    BY <2>1, <2>2, SumZero
  <2> QED
    BY <2>2, <2>3, SumEmpty
<1>2. ASSUME NEW U \in SUBSET T, NEW y \in T \ U, U \in G PROVE U \cup {y} \in G
  <2>1. IsFiniteSet(U)
    BY FS_Subset
  <2>2. PICK r, q, c : r = Row(U) /\ q = Row(U \cup {y}) /\ c = n[y]
    OBVIOUS
  <2>3. ASSUME NEW x \in S PROVE r[x] \in Int /\ c[x] \in Int /\ q[x] = c[x] + r[x]
    <3>1. (\A u \in U : m[x][u] \in Int) /\ m[x][y] \in Int
      OBVIOUS
    <3>2. SumFunctionOnSet(m[x], U \cup {y}) = m[x][y] + SumFunctionOnSet(m[x], U)
      BY <2>1, <3>1, SumInsert
    <3>3. SumFunctionOnSet(m[x], U) \in Int
      BY <2>1, <3>1, SumInt
    <3> QED
      BY <2>2, <3>1, <3>2, <3>3
  <2>4. SumFunctionOnSet(q, S) = SumFunctionOnSet(c, S) + SumFunctionOnSet(r, S)
    BY <2>3, SumPlus
  <2>5. \A u \in T : col[u] \in Int
    <3> SUFFICES ASSUME NEW u \in T PROVE col[u] \in Int
      OBVIOUS
    <3>1. \A x \in S : n[u][x] \in Int
      OBVIOUS
    <3> QED
      BY <3>1, SumInt
  <2>6. SumFunctionOnSet(col, U \cup {y}) = col[y] + SumFunctionOnSet(col, U)
    BY <2>1, <2>5, SumInsert
  <2>7. SumFunctionOnSet(q, S) = SumFunctionOnSet(col, U \cup {y})
    BY <1>2, <2>2, <2>4, <2>6
  <2> QED
    BY <2>2, <2>7
<1>3. T \in G
  <2> HIDE DEF G
  <2> QED
    BY <1>1, <1>2, SetInduct
<1>4. PICK r : r = Row(T)
  OBVIOUS
<1>5. SumFunctionOnSet(r, S) = SumFunctionOnSet(row, S)
  BY <1>4, SumSame
<1> QED
  BY <1>3, <1>4, <1>5

-----------------------------------------------------------------------------
\* The owner of an expert is a rank of the group.
LEMMA HomeIsRank == \A e \in Experts : Home(e) \in Ranks
<1> SUFFICES ASSUME NEW e \in Experts PROVE Home(e) \in Ranks
  OBVIOUS
<1>1. /\ e \in Nat /\ NumRanks \in Nat \ {0} /\ ExpertsPerRank \in Nat \ {0}
      /\ e < NumRanks * ExpertsPerRank
  BY NumRanksAssumption, ExpertsPerRankAssumption DEF Experts
<1>2. /\ Home(e) \in Int
      /\ ExpertsPerRank * Home(e) <= e
      /\ e < ExpertsPerRank * Home(e) + ExpertsPerRank
  BY <1>1 DEF Home
<1>3. Home(e) >= 0
  BY <1>1, <1>2
<1>4. Home(e) < NumRanks
  <2> SUFFICES ASSUME Home(e) >= NumRanks PROVE FALSE
    BY <1>1, <1>2
  <2>1. ExpertsPerRank * Home(e) >= ExpertsPerRank * NumRanks
    BY <1>1, <1>2
  <2> QED
    BY <1>1, <1>2, <2>1
<1> QED
  BY <1>1, <1>2, <1>3, <1>4 DEF Ranks

LEMMA RanksFinite == IsFiniteSet(Ranks) /\ Cardinality(Ranks) = NumRanks /\ NumRanks \in Nat
<1>1. NumRanks \in Nat /\ NumRanks > 0 /\ NumRanks - 1 \in Int
  BY NumRanksAssumption
<1>2. IsFiniteSet(0 .. (NumRanks - 1))
      /\ Cardinality(0 .. (NumRanks - 1)) =
            IF 0 > NumRanks - 1 THEN 0 ELSE (NumRanks - 1) - 0 + 1
  BY <1>1, FS_Interval
<1> QED
  BY <1>1, <1>2 DEF Ranks

LEMMA ExpertsFinite == IsFiniteSet(Experts) /\ \A h \in Ranks : IsFiniteSet(Owned(h))
<1>1. NumRanks * ExpertsPerRank - 1 \in Int
  BY NumRanksAssumption, ExpertsPerRankAssumption
<1>2. IsFiniteSet(Experts)
  BY <1>1, FS_Interval DEF Experts
<1> QED
  BY <1>2, FS_Subset DEF Owned

\* The same value for every rank.
LEMMA SumOverRanks ==
    ASSUME NEW c \in Int, NEW f, \A r \in Ranks : f[r] = c
    PROVE  SumFunctionOnSet(f, Ranks) = NumRanks * c
<1> DEFINE G == {T \in SUBSET Ranks : SumFunctionOnSet(f, T) = Cardinality(T) * c}
<1>1. {} \in G
  <2>1. Cardinality({}) = 0 /\ 0 * c = 0
    BY FS_EmptySet
  <2> QED
    BY <2>1, SumEmpty
<1>2. ASSUME NEW T \in SUBSET Ranks, NEW x \in Ranks \ T, T \in G PROVE T \cup {x} \in G
  <2>1. IsFiniteSet(T) /\ \A y \in T : f[y] \in Int
    BY RanksFinite, FS_Subset
  <2>2. SumFunctionOnSet(f, T \cup {x}) = c + SumFunctionOnSet(f, T)
    BY <2>1, SumInsert
  <2>3. Cardinality(T) \in Nat /\ Cardinality(T \cup {x}) = Cardinality(T) + 1
    BY <2>1, FS_AddElement, FS_CardinalityType
  <2>4. PICK n \in Nat : n = Cardinality(T)
    BY <2>3
  <2>5. c + n * c = (n + 1) * c
    BY <2>4
  <2>6. SumFunctionOnSet(f, T \cup {x}) = Cardinality(T \cup {x}) * c
    BY <1>2, <2>2, <2>3, <2>4, <2>5
  <2> QED
    BY <2>6
<1> HIDE DEF G
<1>3. Ranks \in G
  BY <1>1, <1>2, RanksFinite, SetInduct
<1> QED
  BY <1>3, RanksFinite DEF G

\* The home groups together have the tokens of all experts.
LEMMA GroupsTogether ==
    ASSUME NEW c, \A e \in Experts : c[e] \in Nat
    PROVE  /\ \A h \in Ranks : GroupTokens(c)[h] \in Nat
           /\ SumFunctionOnSet(GroupTokens(c), Ranks) = SumFunctionOnSet(c, Experts)
<1>1. \A h \in Ranks : GroupTokens(c)[h] = SumFunctionOnSet(c, Owned(h))
  BY DEF GroupTokens
<1>2. ASSUME NEW h \in Ranks PROVE SumFunctionOnSet(c, Owned(h)) \in Nat
  <2>1. IsFiniteSet(Owned(h)) /\ \A e \in Owned(h) : c[e] \in Nat
    BY ExpertsFinite DEF Owned
  <2> QED
    BY <2>1, SumNat
<1>3. PICK p, o, g : /\ p = [e \in Experts |-> Home(e)]
                     /\ o = [h \in Ranks |-> Owned(h)]
                     /\ g = GroupTokens(c)
  OBVIOUS
<1>4. p \in [Experts -> Ranks]
  BY <1>3, HomeIsRank
<1>5. /\ \A h \in Ranks : \A e : e \in o[h] <=> e \in Experts /\ p[e] = h
      /\ \A h \in Ranks : g[h] = SumFunctionOnSet(c, o[h])
  BY <1>1, <1>3 DEF Owned
<1>6. \A e \in Experts : c[e] \in Int
  OBVIOUS
<1>7. SumFunctionOnSet(g, Ranks) = SumFunctionOnSet(c, Experts)
  BY <1>4, <1>5, <1>6, RanksFinite, ExpertsFinite, SumParts
<1> QED
  BY <1>1, <1>2, <1>3, <1>7


-----------------------------------------------------------------------------
(* The quotas: b is what ranks have above Cap, q what they give to others,  *)
(* after n rounds.                                                          *)

\* The tokens of all ranks, routed to experts.
Routed(c) == c \in [Experts -> Nat] /\ SumFunctionOnSet(c, Experts) = NumRanks * Cap

\* A rank that has received tokens is exactly full, and has a single donor, which
\* is not itself.
Filled(b, q) == \A h, u \in Ranks : q[h][u] # 0 => b[u] = 0
OneDonor(q) == \A u \in Ranks : \A h1, h2 \in Ranks : q[h1][u] # 0 /\ q[h2][u] # 0 => h1 = h2
NoneToItself(q) == \A h \in Ranks : q[h][h] = 0

\* What some ranks have too much is what others have room for.
Levelled(b) == SumFunctionOnSet(b, Ranks) = 0

\* There is a round left for each rank that is not full.
Uneven(b) == {r \in Ranks : b[r] # 0}
RoundsLeft(b, n) == Cardinality(Uneven(b)) + n <= NumRanks

\* What a home group has given away, and what a rank has got.
Given(q, h) == SumFunctionOnSet(q[h], Ranks)
Got(q, u) == SumFunctionOnSet([h \in Ranks |-> q[h][u]], Ranks)

\* A home group has given away what it had above Cap, and perhaps what it has to
\* be given back to be full; a rank that received keeps its own tokens.
Accounts(c, b, q) ==
    \A h \in Ranks :
        /\ -Cap <= b[h]
        /\ \A u \in Ranks : q[h][u] >= 0
        /\ Given(q, h) <= GroupTokens(c)[h]
        /\ b[h] # 0 => Given(q, h) + b[h] + Cap = GroupTokens(c)[h]

\* A rank computes what its experts were sent, less what it gives, and what it gets.
Exact(c, b, q) ==
    \A h \in Ranks : b[h] + Cap + Given(q, h) = GroupTokens(c)[h] + Got(q, h)

Paired(c, b, q, n) ==
    /\ b \in [Ranks -> Int] /\ q \in [Ranks -> [Ranks -> Int]]
    /\ Filled(b, q) /\ OneDonor(q) /\ NoneToItself(q)
    /\ Levelled(b) /\ RoundsLeft(b, n)
    /\ Accounts(c, b, q) /\ Exact(c, b, q)

\* Before the first round.
LEMMA PairedAtFirst ==
    ASSUME NEW c, Routed(c), NEW b, b = [r \in Ranks |-> GroupTokens(c)[r] - Cap],
           NEW q, q = ZeroMatrix
    PROVE  Paired(c, b, q, 0)
<1>1. q \in [Ranks -> [Ranks -> Int]]
  BY DEF ZeroMatrix
<1>2. \A h, u \in Ranks : q[h][u] = 0
  BY DEF ZeroMatrix
<1>3. c \in [Experts -> Nat] /\ SumFunctionOnSet(c, Experts) = NumRanks * Cap
  BY DEF Routed
<1>4. Cap \in Nat /\ NumRanks \in Nat
  BY CapAssumption, NumRanksAssumption
<1>5. PICK g : g = GroupTokens(c)
  OBVIOUS
<1>6. /\ \A h \in Ranks : g[h] \in Nat
      /\ SumFunctionOnSet(g, Ranks) = NumRanks * Cap
  BY <1>3, <1>5, GroupsTogether
<1>7. \A h \in Ranks : b[h] = g[h] - Cap
  BY <1>5
<1>13. b \in [Ranks -> Int]
  BY <1>4, <1>5, <1>6
<1>8. Levelled(b)
  <2> DEFINE full == [r \in Ranks |-> Cap]
  <2>1. \A r \in Ranks : full[r] = Cap
    OBVIOUS
  <2> HIDE DEF full
  <2>2. SumFunctionOnSet(full, Ranks) = NumRanks * Cap
    BY <2>1, <1>4, SumOverRanks
  <2>3. \A h \in Ranks : b[h] \in Int /\ full[h] \in Int /\ g[h] = b[h] + full[h]
    BY <1>4, <1>6, <1>7, <2>1
  <2>4. SumFunctionOnSet(g, Ranks) = SumFunctionOnSet(b, Ranks) + SumFunctionOnSet(full, Ranks)
    BY <2>3, RanksFinite, SumPlus
  <2>5. SumFunctionOnSet(b, Ranks) \in Int
    BY <2>3, RanksFinite, SumInt
  <2>6. PICK n : n = NumRanks * Cap /\ n \in Nat
    BY <1>4
  <2>7. n = SumFunctionOnSet(b, Ranks) + n
    BY <1>6, <2>2, <2>4, <2>6
  <2> QED
    BY <2>5, <2>6, <2>7 DEF Levelled
<1>9. RoundsLeft(b, 0)
  <2>1. Cardinality(Uneven(b)) <= NumRanks /\ Cardinality(Uneven(b)) \in Nat
    BY RanksFinite, FS_Subset, FS_CardinalityType DEF Uneven
  <2> QED
    BY <2>1, <1>4 DEF RoundsLeft
<1>10. \A h \in Ranks : Given(q, h) = 0 /\ Got(q, h) = 0
  <2> SUFFICES ASSUME NEW h \in Ranks PROVE Given(q, h) = 0 /\ Got(q, h) = 0
    OBVIOUS
  <2>1. Given(q, h) = 0
    BY <1>2, RanksFinite, SumZero DEF Given
  <2>2. PICK col : col = [k \in Ranks |-> q[k][h]]
    OBVIOUS
  <2>3. \A k \in Ranks : col[k] = 0
    BY <1>2, <2>2
  <2>4. SumFunctionOnSet(col, Ranks) = 0
    BY <2>3, RanksFinite, SumZero
  <2> QED
    BY <2>1, <2>2, <2>4 DEF Got
<1>11. Accounts(c, b, q) /\ Exact(c, b, q)
  <2> SUFFICES ASSUME NEW h \in Ranks
               PROVE  /\ -Cap <= b[h]
                      /\ \A u \in Ranks : q[h][u] >= 0
                      /\ Given(q, h) <= GroupTokens(c)[h]
                      /\ b[h] # 0 => Given(q, h) + b[h] + Cap = GroupTokens(c)[h]
                      /\ b[h] + Cap + Given(q, h) = GroupTokens(c)[h] + Got(q, h)
    BY DEF Accounts, Exact
  <2>1. Given(q, h) = 0 /\ Got(q, h) = 0 /\ GroupTokens(c)[h] = g[h]
    BY <1>5, <1>10
  <2>2. g[h] \in Nat /\ b[h] = g[h] - Cap /\ b[h] \in Int
    BY <1>4, <1>6, <1>7
  <2> QED
    BY <1>2, <1>4, <2>1, <2>2
<1> QED
  BY <1>1, <1>2, <1>8, <1>9, <1>11, <1>13 DEF Paired, Filled, OneDonor, NoneToItself

\* A round, with the pair of ranks it picks.
Moves(b, q, h, u, b2, q2) ==
    /\ IsFirstMax(b, Ranks, h) /\ IsFirstMin(b, Ranks, u) /\ b[h] > 0
    /\ q2 = [q EXCEPT ![h][u] = -b[u]]
    /\ b2 = Rebalance(b, h, u)

\* What it does to the two tables.
LEMMA RoundEffect ==
    ASSUME NEW c, NEW b, NEW q, NEW n, Paired(c, b, q, n),
           NEW h \in Ranks, NEW u \in Ranks, NEW b2, NEW q2, Moves(b, q, h, u, b2, q2)
    PROVE  /\ b[h] > 0 /\ b[u] < 0 /\ h # u
           /\ \A g \in Ranks : q[g][u] = 0
           /\ \A g, v \in Ranks :
                 q2[g][v] = IF g = h /\ v = u THEN -b[u] ELSE q[g][v]
           /\ \A g \in Ranks : g # h => q2[g] = q[g]
           /\ \A v \in Ranks : v # h /\ v # u => b2[v] = b[v]
           /\ b2[h] = b[h] + b[u]
           /\ b2[u] = 0
           /\ q2 \in [Ranks -> [Ranks -> Int]]
           /\ b2 \in [Ranks -> Int]
<1>1. /\ q2 = [q EXCEPT ![h][u] = -b[u]]
      /\ b2 = [b EXCEPT ![h] = @ + b[u], ![u] = 0]
      /\ IsFirstMin(b, Ranks, u)
  BY DEF Moves, Rebalance
<1>4. b[h] > 0
  BY DEF Moves
<1>2. /\ b \in [Ranks -> Int]
      /\ q \in [Ranks -> [Ranks -> Int]]
  BY DEF Paired
<1>5. b[u] < 0
  <2>1. PICK v \in Ranks : b[v] < 0
    <3> SUFFICES ASSUME \A v \in Ranks : ~(b[v] < 0) PROVE FALSE
      OBVIOUS
    <3>1. \A v \in Ranks : b[v] \in Nat
      BY <1>2
    <3>2. \A v \in Ranks : b[v] = 0
      BY <3>1, RanksFinite, SumNat DEF Paired, Levelled
    <3> QED
      BY <1>4, <3>2
  <2>2. b[u] <= b[v]
    BY <1>1 DEF IsFirstMin
  <2> QED
    BY <1>2, <2>1, <2>2
<1>6. \A g \in Ranks : q[g][u] = 0
  BY <1>5 DEF Paired, Filled
<1>7. h # u
  BY <1>2, <1>4, <1>5
<1>8. q2 \in [Ranks -> [Ranks -> Int]] /\ b2 \in [Ranks -> Int]
  BY <1>1, <1>2
<1>9. /\ \A g, v \in Ranks :
           q2[g][v] = IF g = h /\ v = u THEN -b[u] ELSE q[g][v]
      /\ \A g \in Ranks : g # h => q2[g] = q[g]
  BY <1>1, <1>2
<1>10. /\ \A v \in Ranks : v # h /\ v # u => b2[v] = b[v]
       /\ b2[h] = b[h] + b[u]
       /\ b2[u] = 0
  BY <1>1, <1>2, <1>7
<1> QED
  BY <1>4, <1>5, <1>6, <1>7, <1>8, <1>9, <1>10

\* A round preserves all of it.
LEMMA PairedRound ==
    ASSUME NEW c, NEW b, NEW q, NEW n \in Nat, Paired(c, b, q, n),
           c \in [Experts -> Nat],
           NEW h \in Ranks, NEW u \in Ranks, NEW b2, NEW q2, Moves(b, q, h, u, b2, q2)
    PROVE  Paired(c, b2, q2, n + 1)
<1>1. /\ b[h] > 0 /\ b[u] < 0 /\ h # u
      /\ \A g \in Ranks : q[g][u] = 0
      /\ \A g, v \in Ranks :
            q2[g][v] = IF g = h /\ v = u THEN -b[u] ELSE q[g][v]
      /\ \A g \in Ranks : g # h => q2[g] = q[g]
      /\ \A v \in Ranks : v # h /\ v # u => b2[v] = b[v]
      /\ b2[h] = b[h] + b[u]
      /\ b2[u] = 0
      /\ q2 \in [Ranks -> [Ranks -> Int]]
      /\ b2 \in [Ranks -> Int]
  BY RoundEffect
<1>2. /\ b \in [Ranks -> Int] /\ q \in [Ranks -> [Ranks -> Int]] /\ h # u
  BY <1>1 DEF Paired
<1>4. Filled(b2, q2)
  <2> SUFFICES ASSUME NEW g \in Ranks, NEW v \in Ranks, q2[g][v] # 0
               PROVE  b2[v] = 0
    BY DEF Filled
  <2>1. CASE v = u
    BY <1>1, <2>1
  <2>2. CASE v # u
    <3>1. q[g][v] # 0
      BY <1>1, <2>2
    <3>2. b[v] = 0
      BY <3>1 DEF Paired, Filled
    <3>3. v # h
      BY <1>1, <3>2
    <3> QED
      BY <1>1, <2>2, <3>2, <3>3
  <2> QED
    BY <2>1, <2>2
<1>5. OneDonor(q2)
  <2> SUFFICES ASSUME NEW v \in Ranks, NEW g1 \in Ranks, NEW g2 \in Ranks,
                      q2[g1][v] # 0, q2[g2][v] # 0
               PROVE  g1 = g2
    BY DEF OneDonor
  <2>1. CASE v # u
    BY <1>1, <2>1 DEF Paired, OneDonor
  <2>2. CASE v = u
    BY <1>1, <2>2
  <2> QED
    BY <2>1, <2>2
<1>6. Levelled(b2)
  <2>1. PICK mid : mid = [b EXCEPT ![u] = 0]
    OBVIOUS
  <2>2. /\ \A r \in Ranks : mid[r] \in Int /\ b[r] \in Int /\ b2[r] \in Int
        /\ \A r \in Ranks \ {u} : mid[r] = b[r]
        /\ \A r \in Ranks \ {h} : b2[r] = mid[r]
        /\ mid[u] = 0 /\ mid[h] = b[h]
    BY <1>1, <1>2, <2>1
  <2>3. SumFunctionOnSet(mid, Ranks) = SumFunctionOnSet(b, Ranks) - b[u] + mid[u]
    BY <2>2, RanksFinite, SumExcept
  <2>4. SumFunctionOnSet(b2, Ranks) = SumFunctionOnSet(mid, Ranks) - mid[h] + b2[h]
    BY <2>2, RanksFinite, SumExcept
  <2>5. SumFunctionOnSet(b, Ranks) = 0
    BY DEF Paired, Levelled
  <2>6. SumFunctionOnSet(b2, Ranks) = 0
    BY <1>1, <1>2, <2>2, <2>3, <2>4, <2>5
  <2> QED
    BY <2>6 DEF Levelled
<1>7. RoundsLeft(b2, n + 1)
  <2>1. Uneven(b2) \subseteq Uneven(b) \ {u} /\ u \in Uneven(b)
    BY <1>1, <1>2 DEF Uneven
  <2>2. IsFiniteSet(Uneven(b))
    BY RanksFinite, FS_Subset DEF Uneven
  <2>3. IsFiniteSet(Uneven(b) \ {u}) /\ Cardinality(Uneven(b) \ {u}) = Cardinality(Uneven(b)) - 1
    BY <2>1, <2>2, FS_RemoveElement
  <2>4. IsFiniteSet(Uneven(b2)) /\ Cardinality(Uneven(b2)) <= Cardinality(Uneven(b) \ {u})
    BY <2>1, <2>3, FS_Subset
  <2>5. Cardinality(Uneven(b)) \in Nat /\ Cardinality(Uneven(b2)) \in Nat
    BY <2>2, <2>4, FS_CardinalityType
  <2>6. Cardinality(Uneven(b)) + n <= NumRanks
    BY DEF Paired, RoundsLeft
  <2>7. Cardinality(Uneven(b2)) + (n + 1) <= NumRanks
    BY <2>3, <2>4, <2>5, <2>6, NumRanksAssumption
  <2> QED
    BY <2>7 DEF RoundsLeft
<1>8. Accounts(c, b2, q2)
  <2>1. PICK t : t = GroupTokens(c)
    OBVIOUS
  <2> SUFFICES ASSUME NEW g \in Ranks
               PROVE  /\ -Cap <= b2[g]
                      /\ \A v \in Ranks : q2[g][v] >= 0
                      /\ SumFunctionOnSet(q2[g], Ranks) <= t[g]
                      /\ b2[g] # 0 =>
                           SumFunctionOnSet(q2[g], Ranks) + b2[g] + Cap = t[g]
    BY <2>1 DEF Accounts, Given
  <2>2. /\ -Cap <= b[g] /\ -Cap <= b[u]
        /\ \A v \in Ranks : q[g][v] >= 0
        /\ SumFunctionOnSet(q[g], Ranks) <= t[g]
        /\ b[g] # 0 => SumFunctionOnSet(q[g], Ranks) + b[g] + Cap = t[g]
    BY <2>1 DEF Paired, Accounts, Given
  <2>3. Cap \in Nat
    BY CapAssumption
  <2>4. CASE g # h /\ g # u
    BY <1>1, <2>2, <2>4
  <2>5. CASE g = u
    BY <1>1, <1>2, <2>2, <2>3, <2>5
  <2>6. CASE g = h
    <3>1. /\ \A v \in Ranks : q[h][v] \in Int /\ q2[h][v] \in Int
          /\ \A v \in Ranks \ {u} : q2[h][v] = q[h][v]
          /\ q[h][u] = 0 /\ q2[h][u] = -b[u]
      BY <1>1, <1>2
    <3>2. /\ SumFunctionOnSet(q2[h], Ranks) = SumFunctionOnSet(q[h], Ranks) - q[h][u] + q2[h][u]
          /\ SumFunctionOnSet(q[h], Ranks) \in Int
      <4>1. PICK x, y : x = q[h] /\ y = q2[h]
        OBVIOUS
      <4>2. \A v \in Ranks : x[v] \in Int /\ y[v] \in Int
        BY <3>1, <4>1
      <4>3. \A v \in Ranks \ {u} : y[v] = x[v]
        BY <3>1, <4>1
      <4>4. SumFunctionOnSet(y, Ranks) = SumFunctionOnSet(x, Ranks) - x[u] + y[u]
        BY <4>2, <4>3, RanksFinite, SumExcept
      <4>5. SumFunctionOnSet(x, Ranks) \in Int
        BY <4>2, RanksFinite, SumInt
      <4> QED
        BY <4>1, <4>4, <4>5
    <3>3. SumFunctionOnSet(q2[h], Ranks) = SumFunctionOnSet(q[h], Ranks) - b[u]
      BY <1>2, <3>1, <3>2
    <3>4. b[h] \in Int /\ b[u] \in Int /\ b2[h] = b[h] + b[u]
      BY <1>1, <1>2
    <3>5. -Cap <= b2[h]
      BY <1>1, <2>2, <2>3, <3>4
    <3>6. \A v \in Ranks : q2[h][v] >= 0
      <4> SUFFICES ASSUME NEW v \in Ranks PROVE q2[h][v] >= 0
        OBVIOUS
      <4>1. CASE v = u
        BY <1>1, <3>1, <3>4, <4>1
      <4>2. CASE v # u
        BY <2>2, <2>6, <3>1, <4>2
      <4> QED
        BY <4>1, <4>2
    <3>7. SumFunctionOnSet(q[h], Ranks) + b[h] + Cap = t[h]
      BY <1>1, <1>2, <2>2, <2>6
    <3>8. SumFunctionOnSet(q2[h], Ranks) + b2[h] + Cap = t[h]
      BY <2>3, <3>2, <3>3, <3>4, <3>7
    <3>9. SumFunctionOnSet(q2[h], Ranks) \in Int
      BY <3>2, <3>3, <3>4
    <3>10. SumFunctionOnSet(q2[h], Ranks) <= t[h]
      BY <2>3, <3>4, <3>5, <3>8, <3>9
    <3> QED
      BY <2>6, <3>5, <3>6, <3>8, <3>10
  <2> QED
    BY <2>4, <2>5, <2>6
<1>9. Exact(c, b2, q2)
  <2>1. PICK t : t = GroupTokens(c)
    OBVIOUS
  <2> SUFFICES ASSUME NEW g \in Ranks
               PROVE  b2[g] + Cap + Given(q2, g) = t[g] + Got(q2, g)
    BY <2>1 DEF Exact
  <2>2. PICK x, y : /\ x = [f \in Ranks |-> q[f][g]]
                    /\ y = [f \in Ranks |-> q2[f][g]]
    OBVIOUS
  <2>3. Got(q, g) = SumFunctionOnSet(x, Ranks) /\ Got(q2, g) = SumFunctionOnSet(y, Ranks)
    BY <2>2 DEF Got
  <2>4. b[g] + Cap + Given(q, g) = t[g] + Got(q, g)
    BY <2>1 DEF Paired, Exact
  <2>5. \A f \in Ranks : x[f] \in Int /\ y[f] \in Int /\ x[f] = q[f][g] /\ y[f] = q2[f][g]
    BY <1>1, <1>2, <2>2
  <2>6. t[g] \in Nat /\ Cap \in Nat /\ b[g] \in Int /\ b[u] \in Int /\ b2[g] \in Int
    BY <1>1, <1>2, <2>1, GroupsTogether, CapAssumption
  <2>7. \A v \in Ranks : q[g][v] \in Int /\ q2[g][v] \in Int
    BY <1>1, <1>2
  <2>8. /\ Given(q, g) \in Int /\ Given(q2, g) \in Int
        /\ Got(q, g) \in Int /\ Got(q2, g) \in Int
    <3>1. \A f \in Ranks : x[f] \in Int /\ y[f] \in Int
      BY <2>5
    <3>2. SumFunctionOnSet(x, Ranks) \in Int /\ SumFunctionOnSet(y, Ranks) \in Int
      BY <3>1, RanksFinite, SumInt
    <3>3. SumFunctionOnSet(q[g], Ranks) \in Int /\ SumFunctionOnSet(q2[g], Ranks) \in Int
      BY <2>7, RanksFinite, SumInt
    <3> QED
      BY <2>3, <3>2, <3>3 DEF Given
  <2>9. CASE g # h /\ g # u
    <3>1. Given(q2, g) = Given(q, g)
      BY <1>1, <2>9 DEF Given
    <3>2. \A f \in Ranks : y[f] = x[f]
      BY <1>1, <2>5, <2>9
    <3>3. Got(q2, g) = Got(q, g)
      BY <2>3, <3>2, RanksFinite, SumSame
    <3> QED
      BY <1>1, <2>4, <2>9, <3>1, <3>3
  <2>10. CASE g = h
    <3>1. \A f \in Ranks : y[f] = x[f]
      BY <1>1, <1>2, <2>5, <2>10
    <3>2. Got(q2, g) = Got(q, g)
      BY <2>3, <3>1, RanksFinite, SumSame
    <3>3. /\ \A v \in Ranks \ {u} : q2[g][v] = q[g][v]
          /\ q[g][u] = 0 /\ q2[g][u] = -b[u]
      BY <1>1, <2>10
    <3>4. Given(q2, g) = Given(q, g) - q[g][u] + q2[g][u]
      <4>1. PICK k, l : k = q[g] /\ l = q2[g]
        OBVIOUS
      <4>2. /\ \A v \in Ranks : k[v] \in Int /\ l[v] \in Int
            /\ \A v \in Ranks \ {u} : l[v] = k[v]
        BY <2>7, <3>3, <4>1
      <4>3. SumFunctionOnSet(l, Ranks) = SumFunctionOnSet(k, Ranks) - k[u] + l[u]
        BY <4>2, RanksFinite, SumExcept
      <4> QED
        BY <4>1, <4>3 DEF Given
    <3>5. b2[g] = b[g] + b[u]
      BY <1>1, <2>10
    <3> QED
      BY <2>4, <2>6, <2>8, <3>2, <3>3, <3>4, <3>5
  <2>11. CASE g = u
    <3>1. Given(q2, g) = Given(q, g)
      BY <1>1, <1>2, <2>11 DEF Given
    <3>2. /\ \A f \in Ranks \ {h} : y[f] = x[f]
          /\ x[h] = 0 /\ y[h] = -b[u]
      BY <1>1, <2>5, <2>11
    <3>3. Got(q2, g) = Got(q, g) - x[h] + y[h]
      <4>1. \A f \in Ranks : x[f] \in Int /\ y[f] \in Int
        BY <2>5
      <4> QED
        BY <2>3, <3>2, <4>1, RanksFinite, SumExcept
    <3>4. b2[g] = 0 /\ b[g] = b[u]
      BY <1>1, <2>11
    <3> QED
      BY <2>4, <2>6, <2>8, <3>1, <3>2, <3>3, <3>4
  <2> QED
    BY <2>9, <2>10, <2>11
<1>10. NoneToItself(q2)
  BY <1>1, <1>2 DEF Paired, NoneToItself
<1> QED
  BY <1>1, <1>4, <1>5, <1>6, <1>7, <1>8, <1>9, <1>10 DEF Paired

\* When the loop ends, all ranks are full: those that are not would need a round
\* each, and none has room while no other has too much.
LEMMA PairedAtLast ==
    ASSUME NEW c, NEW b, NEW q, NEW n \in 0 .. NumRanks, Paired(c, b, q, n),
           ~(n < NumRanks /\ \E r \in Ranks : b[r] > 0)
    PROVE  \A r \in Ranks : b[r] = 0
<1>4. b \in [Ranks -> Int] /\ NumRanks \in Nat
  BY NumRanksAssumption DEF Paired
<1>1. CASE \A r \in Ranks : ~(b[r] > 0)
  <2> DEFINE f == [r \in Ranks |-> 0]
  <2>1. \A r \in Ranks : f[r] = 0
    OBVIOUS
  <2> HIDE DEF f
  <2>2. SumFunctionOnSet(f, Ranks) = 0
    BY <2>1, RanksFinite, SumZero
  <2>3. SumFunctionOnSet(b, Ranks) = SumFunctionOnSet(f, Ranks)
    BY <2>2 DEF Paired, Levelled
  <2>4. \A r \in Ranks : b[r] \in Int /\ f[r] \in Int /\ b[r] <= f[r]
    BY <1>4, <1>1, <2>1
  <2>5. \A r \in Ranks : b[r] = f[r]
    BY <2>3, <2>4, RanksFinite, SumLess
  <2> QED
    BY <2>1, <2>5
<1>2. CASE ~(n < NumRanks)
  <2>1. IsFiniteSet(Uneven(b)) /\ Cardinality(Uneven(b)) \in Nat
    BY RanksFinite, FS_Subset, FS_CardinalityType DEF Uneven
  <2>2. Cardinality(Uneven(b)) + n <= NumRanks
    BY DEF Paired, RoundsLeft
  <2>3. Cardinality(Uneven(b)) = 0
    BY <1>4, <1>2, <2>1, <2>2
  <2>4. Uneven(b) = {}
    BY <2>1, <2>3, FS_EmptySet
  <2> QED
    BY <2>4 DEF Uneven
<1> QED
  BY <1>1, <1>2

-----------------------------------------------------------------------------
(* The loops as functions. *)

\* There is a first of the greatest values, and of the least; and only one.
LEMMA FirstMaxExists ==
    ASSUME NEW D, IsFiniteSet(D), D # {}, D \subseteq Int, NEW f, \A i \in D : f[i] \in Int
    PROVE  \E i \in D : IsFirstMax(f, D, i)
<1> DEFINE G == {T \in SUBSET D : T = {} \/ \E i \in T : IsFirstMax(f, T, i)}
<1>1. {} \in G
  OBVIOUS
<1>2. ASSUME NEW T \in SUBSET D, NEW x \in D \ T, T \in G PROVE T \cup {x} \in G
  <2>1. CASE T = {}
    <3>1. IsFirstMax(f, T \cup {x}, x)
      BY <2>1 DEF IsFirstMax
    <3> QED
      BY <3>1
  <2>2. CASE T # {}
    <3>1. PICK i \in T : IsFirstMax(f, T, i)
      BY <1>2, <2>2
    <3>2. \A j \in T : j \in Int /\ f[j] \in Int /\ f[j] <= f[i] /\ (j < i => f[j] < f[i])
      BY <3>1 DEF IsFirstMax
    <3>3. x \in Int /\ f[x] \in Int /\ i \in Int /\ f[i] \in Int /\ x # i
      OBVIOUS
    <3>4. CASE f[x] > f[i] \/ (f[x] = f[i] /\ x < i)
      <4>1. \A j \in T : f[j] <= f[x] /\ (j < x => f[j] < f[x])
        BY <3>2, <3>3, <3>4
      <4>2. IsFirstMax(f, T \cup {x}, x)
        BY <3>3, <4>1 DEF IsFirstMax
      <4> QED
        BY <4>2
    <3>5. CASE ~(f[x] > f[i] \/ (f[x] = f[i] /\ x < i))
      <4>1. f[x] <= f[i] /\ (x < i => f[x] < f[i])
        BY <3>3, <3>5
      <4>2. IsFirstMax(f, T \cup {x}, i)
        BY <3>2, <4>1 DEF IsFirstMax
      <4> QED
        BY <4>2
    <3> QED
      BY <3>4, <3>5
  <2> QED
    BY <2>1, <2>2
<1> HIDE DEF G
<1>3. D \in G
  BY <1>1, <1>2, SetInduct
<1> QED
  BY <1>3 DEF G

LEMMA FirstMaxUnique ==
    ASSUME NEW D, D \subseteq Int, NEW f, \A i \in D : f[i] \in Int,
           NEW i \in D, IsFirstMax(f, D, i)
    PROVE  i = CHOOSE j \in D : IsFirstMax(f, D, j)
<1>1. PICK j : j = CHOOSE k \in D : IsFirstMax(f, D, k)
  OBVIOUS
<1>2. j \in D /\ IsFirstMax(f, D, j)
  BY <1>1
<1>3. i \in Int /\ j \in Int /\ f[i] \in Int /\ f[j] \in Int
  BY <1>2
<1>4. f[i] <= f[j] /\ f[j] <= f[i] /\ (i < j => f[i] < f[j]) /\ (j < i => f[j] < f[i])
  BY <1>2 DEF IsFirstMax
<1> QED
  BY <1>1, <1>3, <1>4

LEMMA FirstMinUnique ==
    ASSUME NEW D, D \subseteq Int, NEW f, \A i \in D : f[i] \in Int,
           NEW i \in D, IsFirstMin(f, D, i)
    PROVE  i = CHOOSE j \in D : IsFirstMin(f, D, j)
<1>1. PICK j : j = CHOOSE k \in D : IsFirstMin(f, D, k)
  OBVIOUS
<1>2. j \in D /\ IsFirstMin(f, D, j)
  BY <1>1
<1>3. i \in Int /\ j \in Int /\ f[i] \in Int /\ f[j] \in Int
  BY <1>2
<1>4. f[j] <= f[i] /\ f[i] <= f[j] /\ (i < j => f[j] < f[i]) /\ (j < i => f[i] < f[j])
  BY <1>2 DEF IsFirstMin
<1> QED
  BY <1>1, <1>3, <1>4

\* The recursive functions by which Iterate runs the two loops.
QuotaRun(x, n, g) == g = [i \in 0 .. n |-> IF i = 0 THEN x ELSE QuotaRound(g[i - 1])]
TakeRun(h, x, n, g) == g = [i \in 0 .. n |-> IF i = 0 THEN x ELSE TakeRound(h, g[i - 1])]

\* The iterations of the loop of the kernel.
Iterations == ExpertsPerRank * NumRanks

LEMMA IterationsNat == Iterations \in Nat
BY NumRanksAssumption, ExpertsPerRankAssumption DEF Iterations

LEMMA QuotaRunExists == ASSUME NEW x, NEW n \in Nat PROVE \E g : QuotaRun(x, n, g)
<1> DEFINE G == {m \in Nat : \E g : QuotaRun(x, m, g)}
<1>1. 0 \in G
  <2> DEFINE g == [i \in 0 .. 0 |-> x]
  <2>1. QuotaRun(x, 0, g)
    BY DEF QuotaRun
  <2> QED
    BY <2>1
<1>2. ASSUME NEW m \in Nat, m \in G PROVE m + 1 \in G
  <2>1. PICK g : QuotaRun(x, m, g)
    BY <1>2
  <2> DEFINE e == [i \in 0 .. (m + 1) |-> IF i = 0 THEN x ELSE QuotaRound(g[i - 1])]
  <2>2. \A i \in 0 .. m : i \in 0 .. (m + 1) /\ e[i] = g[i]
    BY <2>1 DEF QuotaRun
  <2>3. \A i \in 0 .. (m + 1) : i # 0 => i - 1 \in 0 .. m
    OBVIOUS
  <2>4. \A i \in 0 .. (m + 1) : i # 0 => e[i - 1] = g[i - 1]
    BY <2>2, <2>3
  <2>5. QuotaRun(x, m + 1, e)
    BY <2>4 DEF QuotaRun
  <2> QED
    BY <2>5
<1> HIDE DEF G
<1>3. n \in G
  BY <1>1, <1>2, NatInduct
<1> QED
  BY <1>3 DEF G

LEMMA TakeRunExists == ASSUME NEW h, NEW x, NEW n \in Nat PROVE \E g : TakeRun(h, x, n, g)
<1> DEFINE G == {m \in Nat : \E g : TakeRun(h, x, m, g)}
<1>1. 0 \in G
  <2> DEFINE g == [i \in 0 .. 0 |-> x]
  <2>1. TakeRun(h, x, 0, g)
    BY DEF TakeRun
  <2> QED
    BY <2>1
<1>2. ASSUME NEW m \in Nat, m \in G PROVE m + 1 \in G
  <2>1. PICK g : TakeRun(h, x, m, g)
    BY <1>2
  <2> DEFINE e == [i \in 0 .. (m + 1) |-> IF i = 0 THEN x ELSE TakeRound(h, g[i - 1])]
  <2>2. \A i \in 0 .. m : i \in 0 .. (m + 1) /\ e[i] = g[i]
    BY <2>1 DEF TakeRun
  <2>3. \A i \in 0 .. (m + 1) : i # 0 => i - 1 \in 0 .. m
    OBVIOUS
  <2>4. \A i \in 0 .. (m + 1) : i # 0 => e[i - 1] = g[i - 1]
    BY <2>2, <2>3
  <2>5. TakeRun(h, x, m + 1, e)
    BY <2>4 DEF TakeRun
  <2> QED
    BY <2>5
<1> HIDE DEF G
<1>3. n \in G
  BY <1>1, <1>2, NatInduct
<1> QED
  BY <1>3 DEF G

\* The states that the host's loop and the loop of CTA h run through.
QuotaStart(c) == [balance |-> [r \in Ranks |-> GroupTokens(c)[r] - Cap], z |-> ZeroMatrix]
QuotaStates(c) == CHOOSE g : QuotaRun(QuotaStart(c), NumRanks, g)
TakeStart(h, c, q) ==
    [rem   |-> [e \in Owned(h) |-> c[e]],
     quota |-> q[h],
     rows  |-> [e \in Owned(h) |-> [d \in Ranks |-> IF d = h THEN c[e] ELSE 0]]]
TakeStates(h, c, q) == CHOOSE g : TakeRun(h, TakeStart(h, c, q), Iterations, g)

LEMMA QuotasByRun ==
    ASSUME NEW c
    PROVE  /\ QuotaStates(c)[0] = QuotaStart(c)
           /\ \A i \in 1 .. NumRanks : QuotaStates(c)[i] = QuotaRound(QuotaStates(c)[i - 1])
           /\ Quotas(c) = QuotaStates(c)[NumRanks].z
<1>1. NumRanks \in Nat
  BY NumRanksAssumption
<1>2. QuotaRun(QuotaStart(c), NumRanks, QuotaStates(c))
  BY <1>1, QuotaRunExists DEF QuotaStates
<1>3. PICK g : g = QuotaStates(c)
  OBVIOUS
<1>4. g = [i \in 0 .. NumRanks |-> IF i = 0 THEN QuotaStart(c) ELSE QuotaRound(g[i - 1])]
  BY <1>2, <1>3 DEF QuotaRun
<1>5. g[0] = QuotaStart(c) /\ \A i \in 1 .. NumRanks : g[i] = QuotaRound(g[i - 1])
  BY <1>1, <1>4
<1>6. Quotas(c) = QuotaStates(c)[NumRanks].z
  BY DEF Quotas, Iterate, QuotaStates, QuotaRun, QuotaStart
<1> QED
  BY <1>3, <1>5, <1>6

LEMMA AllocByRun ==
    ASSUME NEW h, NEW c, NEW q
    PROVE  /\ TakeStates(h, c, q)[0] = TakeStart(h, c, q)
           /\ \A i \in 1 .. Iterations :
                  TakeStates(h, c, q)[i] = TakeRound(h, TakeStates(h, c, q)[i - 1])
           /\ AllocRows(h, c, q) = TakeStates(h, c, q)[Iterations].rows
<1>1. Iterations \in Nat
  BY IterationsNat
<1>2. TakeRun(h, TakeStart(h, c, q), Iterations, TakeStates(h, c, q))
  BY <1>1, TakeRunExists DEF TakeStates
<1>3. PICK g : g = TakeStates(h, c, q)
  OBVIOUS
<1>4. g = [i \in 0 .. Iterations |-> IF i = 0 THEN TakeStart(h, c, q) ELSE TakeRound(h, g[i - 1])]
  BY <1>2, <1>3 DEF TakeRun
<1>5. g[0] = TakeStart(h, c, q) /\ \A i \in 1 .. Iterations : g[i] = TakeRound(h, g[i - 1])
  BY <1>1, <1>4
<1>6. AllocRows(h, c, q) = TakeStates(h, c, q)[Iterations].rows
  BY DEF AllocRows, Iterate, TakeStates, TakeRun, TakeStart, Iterations
<1> QED
  BY <1>3, <1>5, <1>6

\* A round of the function is the round of the loop, and nothing past the break.
LEMMA QuotaRoundMoves ==
    ASSUME NEW b \in [Ranks -> Int], NEW q, NEW h \in Ranks, NEW u \in Ranks,
           IsFirstMax(b, Ranks, h), IsFirstMin(b, Ranks, u), b[h] > 0
    PROVE  QuotaRound([balance |-> b, z |-> q]) =
              [balance |-> Rebalance(b, h, u), z |-> [q EXCEPT ![h][u] = -b[u]]]
<1>1. Ranks \subseteq Int /\ \A r \in Ranks : b[r] \in Int
  BY NumRanksAssumption DEF Ranks
<1>2. /\ h = CHOOSE i \in Ranks : IsFirstMax(b, Ranks, i)
      /\ u = CHOOSE i \in Ranks : IsFirstMin(b, Ranks, i)
  BY <1>1, FirstMaxUnique, FirstMinUnique
<1>3. PICK s : s = [balance |-> b, z |-> q]
  OBVIOUS
<1>4. s.balance = b /\ s.z = q
  BY <1>3
<1>5. ~(b[h] <= 0)
  BY <1>1
<1>6. QuotaRound(s) = [balance |-> Rebalance(s.balance, h, u),
                       z       |-> [s.z EXCEPT ![h][u] = -s.balance[u]]]
  BY <1>2, <1>4, <1>5 DEF QuotaRound
<1> QED
  BY <1>3, <1>4, <1>6

LEMMA QuotaRoundIdles ==
    ASSUME NEW b \in [Ranks -> Int], NEW q, \A r \in Ranks : ~(b[r] > 0)
    PROVE  QuotaRound([balance |-> b, z |-> q]) = [balance |-> b, z |-> q]
<1>1. Ranks \subseteq Int /\ \A r \in Ranks : b[r] \in Int
  BY NumRanksAssumption DEF Ranks
<1>2. Ranks # {}
  BY NumRanksAssumption DEF Ranks
<1>3. \E i \in Ranks : IsFirstMax(b, Ranks, i)
  BY <1>1, <1>2, RanksFinite, FirstMaxExists
<1>4. PICK h : h = CHOOSE i \in Ranks : IsFirstMax(b, Ranks, i)
  OBVIOUS
<1>5. h \in Ranks
  BY <1>3, <1>4
<1>6. b[h] <= 0
  BY <1>1, <1>5
<1>7. PICK s : s = [balance |-> b, z |-> q]
  OBVIOUS
<1>8. s.balance = b
  BY <1>7
<1>9. QuotaRound(s) = s
  BY <1>4, <1>6, <1>8 DEF QuotaRound
<1> QED
  BY <1>7, <1>9

\* A round that moves rows of expert e to rank d.
RoundMoves(h, rem, quota, rows, d, e) ==
    TakeRound(h, [rem |-> rem, quota |-> quota, rows |-> rows]) =
        [rem   |-> [rem EXCEPT ![e] = @ - Portion(rem[e], quota[d])],
         quota |-> [quota EXCEPT ![d] = @ - Portion(rem[e], quota[d])],
         rows  |-> [rows EXCEPT ![e] = Give(@, d, h, Portion(rem[e], quota[d]))]]

LEMMA TakeRoundMoves ==
    ASSUME NEW h, NEW rem, NEW quota \in [Ranks -> Int], NEW rows,
           NEW d \in Ranks, NEW e \in Owned(h),
           \A f \in Owned(h) : rem[f] \in Int,
           IsFirstMax(quota, Ranks, d), IsFirstMax(rem, Owned(h), e), quota[d] > 0
    PROVE  RoundMoves(h, rem, quota, rows, d, e)
<1>1. /\ Ranks \subseteq Int /\ Owned(h) \subseteq Int
      /\ \A r \in Ranks : quota[r] \in Int
  BY NumRanksAssumption, ExpertsPerRankAssumption DEF Ranks, Owned, Experts
<1>2. /\ d = CHOOSE i \in Ranks : IsFirstMax(quota, Ranks, i)
      /\ e = CHOOSE i \in Owned(h) : IsFirstMax(rem, Owned(h), i)
  BY <1>1, FirstMaxUnique
<1>3. PICK s : s = [rem |-> rem, quota |-> quota, rows |-> rows]
  OBVIOUS
<1>4. s.rem = rem /\ s.quota = quota /\ s.rows = rows
  BY <1>3
<1>5. ~(quota[d] <= 0)
  BY <1>1
<1>6. PICK t : t = Portion(s.rem[e], s.quota[d])
  OBVIOUS
<1>7. TakeRound(h, s) = [rem   |-> [s.rem EXCEPT ![e] = @ - t],
                         quota |-> [s.quota EXCEPT ![d] = @ - t],
                         rows  |-> [s.rows EXCEPT ![e] = Give(@, d, h, t)]]
  BY <1>2, <1>4, <1>5, <1>6 DEF TakeRound
<1> QED
  BY <1>3, <1>4, <1>6, <1>7 DEF RoundMoves

LEMMA TakeRoundIdles ==
    ASSUME NEW h, NEW rem, NEW quota \in [Ranks -> Int], NEW rows,
           \A r \in Ranks : ~(quota[r] > 0)
    PROVE  TakeRound(h, [rem |-> rem, quota |-> quota, rows |-> rows]) =
              [rem |-> rem, quota |-> quota, rows |-> rows]
<1>1. Ranks \subseteq Int /\ \A r \in Ranks : quota[r] \in Int
  BY NumRanksAssumption DEF Ranks
<1>2. Ranks # {}
  BY NumRanksAssumption DEF Ranks
<1>3. \E i \in Ranks : IsFirstMax(quota, Ranks, i)
  BY <1>1, <1>2, RanksFinite, FirstMaxExists
<1>4. PICK d : d = CHOOSE i \in Ranks : IsFirstMax(quota, Ranks, i)
  OBVIOUS
<1>5. quota[d] <= 0
  <2>1. d \in Ranks
    BY <1>3, <1>4
  <2> QED
    BY <1>1, <2>1
<1>7. PICK s : s = [rem |-> rem, quota |-> quota, rows |-> rows]
  OBVIOUS
<1>8. s.quota = quota
  BY <1>7
<1>9. TakeRound(h, s) = s
  BY <1>4, <1>5, <1>8 DEF TakeRound
<1> QED
  BY <1>7, <1>9

\* A run that no longer moves stays where it is.
LEMMA RunRests ==
    ASSUME NEW g, NEW n \in Nat, NEW i \in 0 .. n, NEW s, g[i] = s,
           \A j \in 1 .. n : g[j - 1] = s => g[j] = s
    PROVE  g[n] = s
<1> DEFINE G == {k \in Nat : i + k <= n => g[i + k] = s}
<1>1. 0 \in G
  OBVIOUS
<1>2. \A k \in Nat : k \in G => k + 1 \in G
  <2> SUFFICES ASSUME NEW k \in Nat, k \in G, i + (k + 1) <= n PROVE g[i + (k + 1)] = s
    OBVIOUS
  <2>1. i + k <= n /\ i + (k + 1) \in 1 .. n /\ (i + (k + 1)) - 1 = i + k
    OBVIOUS
  <2>2. g[i + k] = s
    BY <2>1
  <2> QED
    BY <2>1, <2>2
<1>3. \A k \in Nat : k \in G
  <2> HIDE DEF G
  <2> QED
    BY <1>1, <1>2, NatInduct
<1>4. n - i \in Nat /\ i + (n - i) = n
  OBVIOUS
<1> QED
  BY <1>3, <1>4

-----------------------------------------------------------------------------
(* What the quotas are in the end. *)

LEMMA FirstMinExists ==
    ASSUME NEW D, IsFiniteSet(D), D # {}, D \subseteq Int, NEW f, \A i \in D : f[i] \in Int
    PROVE  \E i \in D : IsFirstMin(f, D, i)
<1>1. PICK g : g = [i \in D |-> -f[i]]
  OBVIOUS
<1>2. \A i \in D : g[i] \in Int /\ g[i] = -f[i]
  BY <1>1
<1>3. PICK i \in D : IsFirstMax(g, D, i)
  BY <1>2, FirstMaxExists
<1>4. IsFirstMin(f, D, i)
  BY <1>2, <1>3 DEF IsFirstMin, IsFirstMax
<1> QED
  BY <1>4

\* After k rounds, n of which moved tokens.
LEMMA PairedAlong ==
    ASSUME NEW c, Routed(c), NEW k \in 0 .. NumRanks
    PROVE  \E b, q : \E n \in 0 .. k :
               /\ QuotaStates(c)[k] = [balance |-> b, z |-> q]
               /\ Paired(c, b, q, n)
               /\ n = k \/ \A r \in Ranks : ~(b[r] > 0)
<1> DEFINE At(m) == \E b, q : \E n \in 0 .. m :
               /\ QuotaStates(c)[m] = [balance |-> b, z |-> q]
               /\ Paired(c, b, q, n)
               /\ n = m \/ \A r \in Ranks : ~(b[r] > 0)
           G == {m \in Nat : m <= NumRanks => At(m)}
<1> HIDE DEF At
<1>1. NumRanks \in Nat
  BY NumRanksAssumption
<1>2. 0 \in G
  <2>1. PICK b, q : b = [r \in Ranks |-> GroupTokens(c)[r] - Cap] /\ q = ZeroMatrix
    OBVIOUS
  <2>2. QuotaStates(c)[0] = [balance |-> b, z |-> q]
    BY <2>1, QuotasByRun DEF QuotaStart
  <2>3. Paired(c, b, q, 0)
    BY <2>1, PairedAtFirst
  <2>4. At(0)
    BY <2>2, <2>3 DEF At
  <2> QED
    BY <2>4
<1>3. ASSUME NEW m \in Nat, m \in G PROVE m + 1 \in G
  <2> SUFFICES ASSUME m + 1 <= NumRanks PROVE At(m + 1)
    OBVIOUS
  <2>1. m <= NumRanks /\ m + 1 \in 1 .. NumRanks /\ (m + 1) - 1 = m
    BY <1>1
  <2>2. PICK b, q : \E n \in 0 .. m :
            /\ QuotaStates(c)[m] = [balance |-> b, z |-> q]
            /\ Paired(c, b, q, n)
            /\ n = m \/ \A r \in Ranks : ~(b[r] > 0)
    <3>1. At(m)
      BY <1>3, <2>1
    <3> QED
      BY <3>1 DEF At
  <2>3. PICK n \in 0 .. m :
            /\ QuotaStates(c)[m] = [balance |-> b, z |-> q]
            /\ Paired(c, b, q, n)
            /\ n = m \/ \A r \in Ranks : ~(b[r] > 0)
    BY <2>2
  <2>4. QuotaStates(c)[m + 1] = QuotaRound([balance |-> b, z |-> q])
    <3>1. PICK g : g = QuotaStates(c)
      OBVIOUS
    <3>2. g[m + 1] = QuotaRound(g[m])
      BY <2>1, <3>1, QuotasByRun
    <3> QED
      BY <2>3, <3>1, <3>2
  <2>5. b \in [Ranks -> Int] /\ q \in [Ranks -> [Ranks -> Int]]
    BY <2>3 DEF Paired
  <2>6. CASE \A r \in Ranks : ~(b[r] > 0)
    <3>1. QuotaStates(c)[m + 1] = [balance |-> b, z |-> q]
      BY <2>4, <2>5, <2>6, QuotaRoundIdles
    <3>2. n \in 0 .. (m + 1)
      OBVIOUS
    <3> QED
      BY <2>3, <2>6, <3>1, <3>2 DEF At
  <2>7. CASE \E r \in Ranks : b[r] > 0
    <3>1. PICK r \in Ranks : b[r] > 0
      BY <2>7
    <3>2. /\ IsFiniteSet(Ranks) /\ Ranks # {} /\ Ranks \subseteq Int
          /\ \A v \in Ranks : b[v] \in Int
      <4>1. Ranks \subseteq Int
        BY NumRanksAssumption DEF Ranks
      <4> QED
        BY <2>5, <3>1, <4>1, RanksFinite
    <3>3. PICK h \in Ranks : IsFirstMax(b, Ranks, h)
      BY <3>2, FirstMaxExists
    <3>4. PICK u \in Ranks : IsFirstMin(b, Ranks, u)
      BY <3>2, FirstMinExists
    <3>5. b[h] > 0
      <4>1. b[r] <= b[h]
        BY <3>3 DEF IsFirstMax
      <4> QED
        BY <3>1, <3>2, <4>1
    <3>6. PICK b2, q2 : b2 = Rebalance(b, h, u) /\ q2 = [q EXCEPT ![h][u] = -b[u]]
      OBVIOUS
    <3>7. QuotaStates(c)[m + 1] = [balance |-> b2, z |-> q2]
      <4>1. b \in [Ranks -> Int]
        BY <2>5
      <4>2. QuotaRound([balance |-> b, z |-> q]) =
                [balance |-> Rebalance(b, h, u), z |-> [q EXCEPT ![h][u] = -b[u]]]
        BY <3>3, <3>4, <3>5, <4>1, QuotaRoundMoves
      <4> QED
        BY <2>4, <3>6, <4>2
    <3>8. Moves(b, q, h, u, b2, q2)
      BY <3>3, <3>4, <3>5, <3>6 DEF Moves
    <3>9. n = m /\ n \in Nat
      BY <2>3, <3>1
    <3>10. Paired(c, b2, q2, m + 1)
      BY <2>3, <3>8, <3>9, PairedRound DEF Routed
    <3>11. m + 1 \in 0 .. (m + 1)
      OBVIOUS
    <3> QED
      BY <3>7, <3>10, <3>11 DEF At
  <2> QED
    BY <2>6, <2>7
<1>4. \A m \in Nat : m \in G
  <2> HIDE DEF G
  <2> QED
    BY <1>2, <1>3, NatInduct
<1>5. k \in Nat /\ k <= NumRanks
  BY <1>1
<1>6. At(k)
  BY <1>4, <1>5
<1> QED
  BY <1>6 DEF At

\* The quotas fill every rank to exactly Cap.
LEMMA QuotasFill ==
    ASSUME NEW c, Routed(c)
    PROVE  \E b, n : Paired(c, b, Quotas(c), n) /\ \A r \in Ranks : b[r] = 0
<1>1. NumRanks \in Nat /\ NumRanks \in 0 .. NumRanks
  BY NumRanksAssumption
<1>2. PICK b, q : \E n \in 0 .. NumRanks :
          /\ QuotaStates(c)[NumRanks] = [balance |-> b, z |-> q]
          /\ Paired(c, b, q, n)
          /\ n = NumRanks \/ \A r \in Ranks : ~(b[r] > 0)
  BY <1>1, PairedAlong
<1>3. PICK n \in 0 .. NumRanks :
          /\ QuotaStates(c)[NumRanks] = [balance |-> b, z |-> q]
          /\ Paired(c, b, q, n)
          /\ n = NumRanks \/ \A r \in Ranks : ~(b[r] > 0)
  BY <1>2
<1>4. q = Quotas(c)
  BY <1>3, QuotasByRun
<1>5. ~(n < NumRanks /\ \E r \in Ranks : b[r] > 0)
  BY <1>1, <1>3
<1>6. \A r \in Ranks : b[r] = 0
  BY <1>3, <1>5, PairedAtLast
<1> QED
  BY <1>3, <1>4, <1>6

-----------------------------------------------------------------------------
(* CTA h: rem is what its experts have left, quota what it still has to     *)
(* give, and rows the part of the allocation that it computes.              *)

Received(h, rows, d) == SumFunctionOnSet([e \in Owned(h) |-> rows[e][d]], Owned(h))

Served(h, c, q, rem, quota, rows) ==
    /\ rem \in [Owned(h) -> Nat] /\ quota \in [Ranks -> Nat]
    /\ rows \in [Owned(h) -> [Ranks -> Nat]]
    /\ quota[h] = 0
    /\ \A e \in Owned(h) : rows[e][h] = rem[e] /\ SumFunctionOnSet(rows[e], Ranks) = c[e]
    /\ \A d \in Ranks \ {h} : Received(h, rows, d) + quota[d] = q[h][d]
    /\ SumFunctionOnSet(rem, Owned(h)) + Given(q, h) =
           GroupTokens(c)[h] + SumFunctionOnSet(quota, Ranks)

\* An iteration serves a quota completely or uses up an expert: there is one left
\* for each of them.
OpenQuotas(quota) == {d \in Ranks : quota[d] # 0}
Stocked(h, rem) == {e \in Owned(h) : rem[e] # 0}
InTime(h, rem, quota, n) ==
    OpenQuotas(quota) # {} =>
        Cardinality(OpenQuotas(quota)) + Cardinality(Stocked(h, rem)) + n <= Iterations

LEMMA OpenFinite ==
    ASSUME NEW h \in Ranks, NEW quota, NEW rem
    PROVE  /\ IsFiniteSet(OpenQuotas(quota)) /\ Cardinality(OpenQuotas(quota)) \in Nat
           /\ IsFiniteSet(Stocked(h, rem)) /\ Cardinality(Stocked(h, rem)) \in Nat
<1>1. OpenQuotas(quota) \subseteq Ranks /\ Stocked(h, rem) \subseteq Owned(h)
  BY DEF OpenQuotas, Stocked
<1> QED
  BY <1>1, RanksFinite, ExpertsFinite, FS_Subset, FS_CardinalityType

\* A rank owns ExpertsPerRank experts, numbered one after another.
LEMMA OwnedCount ==
    ASSUME NEW h \in Ranks
    PROVE  Cardinality(Owned(h)) = ExpertsPerRank
<1>1. PICK n, k : n = ExpertsPerRank /\ k = n * h
  OBVIOUS
<1>2. n \in Nat \ {0} /\ h \in Nat /\ k \in Nat /\ h < NumRanks /\ NumRanks \in Nat
  BY <1>1, ExpertsPerRankAssumption, NumRanksAssumption DEF Ranks
<1>3. Owned(h) = k .. (k + n - 1)
  <2>1. ASSUME NEW e \in Owned(h) PROVE e \in k .. (k + n - 1)
    <3>1. e \in Nat /\ e \div n = h
      BY <1>1, <2>1, NumRanksAssumption, ExpertsPerRankAssumption DEF Owned, Home, Experts
    <3>2. n * (e \div n) <= e /\ e < n * (e \div n) + n
      BY <1>2, <3>1
    <3>3. k <= e /\ e < k + n
      BY <1>1, <3>1, <3>2
    <3> QED
      BY <1>2, <3>1, <3>3
  <2>2. ASSUME NEW e \in k .. (k + n - 1) PROVE e \in Owned(h)
    <3>1. e \in Nat /\ n * h <= e /\ e < n * h + n
      BY <1>1, <1>2
    <3>2. e \div n = h
      BY <1>2, <3>1
    <3>3. e < NumRanks * n
      <4>1. n * (h + 1) <= n * NumRanks
        BY <1>2
      <4> QED
        BY <1>2, <3>1, <4>1
    <3> QED
      BY <1>1, <1>2, <3>1, <3>2, <3>3 DEF Owned, Home, Experts
  <2> QED
    BY <2>1, <2>2
<1>4. Cardinality(k .. (k + n - 1)) = n
  <2>1. k \in Int /\ k + n - 1 \in Int /\ ~(k > k + n - 1) /\ (k + n - 1) - k + 1 = n
    BY <1>2
  <2> QED
    BY <2>1, FS_Interval
<1> QED
  BY <1>1, <1>3, <1>4

\* There are enough iterations at first: one less than there are ranks, for the
\* home rank gets no quota, and one for each expert.
LEMMA InTimeAtFirst ==
    ASSUME NEW h \in Ranks, NEW rem, NEW quota, quota[h] = 0
    PROVE  InTime(h, rem, quota, 0)
<1>1. OpenQuotas(quota) \subseteq Ranks \ {h} /\ Stocked(h, rem) \subseteq Owned(h)
  BY DEF OpenQuotas, Stocked
<1>2. IsFiniteSet(Ranks \ {h}) /\ Cardinality(Ranks \ {h}) = Cardinality(Ranks) - 1
  BY RanksFinite, FS_RemoveElement
<1>3. Cardinality(OpenQuotas(quota)) <= Cardinality(Ranks \ {h})
  BY <1>1, <1>2, FS_Subset
<1>4. Cardinality(Stocked(h, rem)) <= Cardinality(Owned(h))
  BY <1>1, ExpertsFinite, FS_Subset
<1>5. PICK r, n, i, j : /\ r = NumRanks /\ n = ExpertsPerRank
                        /\ i = Cardinality(OpenQuotas(quota))
                        /\ j = Cardinality(Stocked(h, rem))
  OBVIOUS
<1>6. r \in Nat \ {0} /\ n \in Nat \ {0} /\ i \in Nat /\ j \in Nat
  BY <1>5, OpenFinite, NumRanksAssumption, ExpertsPerRankAssumption
<1>7. i <= r - 1 /\ j <= n
  BY <1>2, <1>3, <1>4, <1>5, RanksFinite, OwnedCount
<1>8. PICK a, b : a = r - 1 /\ b = n - 1 /\ a \in Nat /\ b \in Nat
  BY <1>6
<1>9. n * r = b * a + a + b + 1 /\ b * a \in Nat
  BY <1>6, <1>8
<1>10. i + j <= n * r
  BY <1>6, <1>7, <1>8, <1>9
<1>11. i + j + 0 <= Iterations
  BY <1>5, <1>6, <1>10 DEF Iterations
<1> QED
  BY <1>5, <1>11 DEF InTime

\* Before the first iteration.
LEMMA ServedAtFirst ==
    ASSUME NEW h \in Ranks, NEW c \in [Experts -> Nat], NEW q,
           q[h] \in [Ranks -> Nat], q[h][h] = 0,
           NEW rem, rem = [e \in Owned(h) |-> c[e]],
           NEW rows, rows = [e \in Owned(h) |-> [d \in Ranks |-> IF d = h THEN c[e] ELSE 0]]
    PROVE  Served(h, c, q, rem, q[h], rows)
<1>1. Owned(h) \subseteq Experts
  BY DEF Owned
<1>2. rem \in [Owned(h) -> Nat] /\ rows \in [Owned(h) -> [Ranks -> Nat]]
  BY <1>1
<1>3. ASSUME NEW e \in Owned(h)
      PROVE  rows[e][h] = rem[e] /\ SumFunctionOnSet(rows[e], Ranks) = c[e]
  <2>1. PICK x, y : x = [d \in Ranks |-> 0] /\ y = rows[e]
    OBVIOUS
  <2>2. c[e] \in Nat
    BY <1>1
  <2>3. /\ \A d \in Ranks : x[d] = 0
        /\ \A d \in Ranks : x[d] \in Int /\ y[d] \in Int
        /\ \A d \in Ranks \ {h} : y[d] = x[d]
        /\ y[h] = c[e]
    BY <2>1, <2>2
  <2>4. SumFunctionOnSet(x, Ranks) = 0
    BY <2>3, RanksFinite, SumZero
  <2>5. SumFunctionOnSet(y, Ranks) = SumFunctionOnSet(x, Ranks) - x[h] + y[h]
    BY <2>3, RanksFinite, SumExcept
  <2> QED
    BY <2>1, <2>2, <2>3, <2>4, <2>5
<1>4. ASSUME NEW d \in Ranks \ {h} PROVE Received(h, rows, d) + q[h][d] = q[h][d]
  <2>1. PICK x : x = [e \in Owned(h) |-> rows[e][d]]
    OBVIOUS
  <2>2. \A e \in Owned(h) : x[e] = 0
    BY <2>1
  <2>3. SumFunctionOnSet(x, Owned(h)) = 0
    BY <2>2, ExpertsFinite, SumZero
  <2>4. q[h][d] \in Nat
    OBVIOUS
  <2> QED
    BY <2>1, <2>3, <2>4 DEF Received
<1>5. SumFunctionOnSet(rem, Owned(h)) = GroupTokens(c)[h]
  <2>1. \A e \in Owned(h) : rem[e] = c[e]
    OBVIOUS
  <2>2. SumFunctionOnSet(rem, Owned(h)) = SumFunctionOnSet(c, Owned(h))
    BY <2>1, ExpertsFinite, SumSame
  <2> QED
    BY <2>2 DEF GroupTokens
<1>6. Given(q, h) = SumFunctionOnSet(q[h], Ranks)
  BY DEF Given
<1> QED
  BY <1>2, <1>3, <1>4, <1>5, <1>6 DEF Served

\* An iteration, with the quota and the expert it picks and the tokens it moves.
Serves(h, rem, quota, rows, d, e, t, rem2, quota2, rows2) ==
    /\ IsFirstMax(quota, Ranks, d) /\ IsFirstMax(rem, Owned(h), e) /\ quota[d] > 0
    /\ t = Portion(rem[e], quota[d])
    /\ rem2 = [rem EXCEPT ![e] = @ - t]
    /\ quota2 = [quota EXCEPT ![d] = @ - t]
    /\ rows2 = [rows EXCEPT ![e] = Give(@, d, h, t)]

\* It is an iteration of the function.
LEMMA TakeRoundServes ==
    ASSUME NEW h, NEW rem, NEW quota \in [Ranks -> Int], NEW rows,
           NEW d \in Ranks, NEW e \in Owned(h), \A f \in Owned(h) : rem[f] \in Int,
           NEW t, NEW rem2, NEW quota2, NEW rows2,
           Serves(h, rem, quota, rows, d, e, t, rem2, quota2, rows2)
    PROVE  TakeRound(h, [rem |-> rem, quota |-> quota, rows |-> rows]) =
              [rem |-> rem2, quota |-> quota2, rows |-> rows2]
<1>1. IsFirstMax(quota, Ranks, d) /\ IsFirstMax(rem, Owned(h), e) /\ quota[d] > 0
  BY DEF Serves
<1>2. TakeRound(h, [rem |-> rem, quota |-> quota, rows |-> rows]) =
              [rem   |-> [rem EXCEPT ![e] = @ - Portion(rem[e], quota[d])],
               quota |-> [quota EXCEPT ![d] = @ - Portion(rem[e], quota[d])],
               rows  |-> [rows EXCEPT ![e] = Give(@, d, h, Portion(rem[e], quota[d]))]]
  BY <1>1, TakeRoundMoves DEF RoundMoves
<1> QED
  BY <1>2 DEF Serves

\* It moves tokens: what is left of the experts is enough for the quotas.
LEMMA ServeMoves ==
    ASSUME NEW h \in Ranks, NEW c \in [Experts -> Nat], NEW q, NEW rem, NEW quota, NEW rows,
           Served(h, c, q, rem, quota, rows), Given(q, h) \in Int,
           Given(q, h) <= GroupTokens(c)[h],
           NEW d \in Ranks, NEW e \in Owned(h), NEW t, NEW rem2, NEW quota2, NEW rows2,
           Serves(h, rem, quota, rows, d, e, t, rem2, quota2, rows2)
    PROVE  /\ d # h /\ t \in Nat \ {0} /\ t <= rem[e] /\ t <= quota[d]
           /\ t = rem[e] \/ t = quota[d]
<1>1. /\ rem \in [Owned(h) -> Nat] /\ quota \in [Ranks -> Nat] /\ quota[h] = 0
      /\ SumFunctionOnSet(rem, Owned(h)) + Given(q, h) =
             GroupTokens(c)[h] + SumFunctionOnSet(quota, Ranks)
  BY DEF Served
<1>2. /\ quota[d] > 0 /\ t = Portion(rem[e], quota[d])
      /\ \A f \in Owned(h) : rem[f] <= rem[e]
  BY DEF Serves, IsFirstMax
<1>3. rem[e] > 0
  <2> SUFFICES ASSUME ~(rem[e] > 0) PROVE FALSE
    OBVIOUS
  <2>1. \A f \in Owned(h) : rem[f] = 0
    BY <1>1, <1>2
  <2>2. SumFunctionOnSet(rem, Owned(h)) = 0
    BY <2>1, ExpertsFinite, SumZero
  <2>3. SumFunctionOnSet(quota, Ranks) \in Nat /\ quota[d] <= SumFunctionOnSet(quota, Ranks)
    BY <1>1, RanksFinite, SumNat
  <2>4. GroupTokens(c)[h] \in Nat
    BY GroupsTogether
  <2>5. PICK i, j, k, l : /\ i = Given(q, h) /\ j = GroupTokens(c)[h]
                          /\ k = SumFunctionOnSet(quota, Ranks) /\ l = quota[d]
    OBVIOUS
  <2>6. 0 + i = j + k /\ i <= j /\ l <= k /\ l > 0
    BY <1>1, <1>2, <2>2, <2>3, <2>5
  <2>7. i \in Int /\ j \in Nat /\ k \in Nat /\ l \in Nat
    BY <1>1, <2>3, <2>4, <2>5
  <2> QED
    BY <2>6, <2>7
<1>4. rem[e] \in Nat /\ quota[d] \in Nat
  BY <1>1
<1> QED
  BY <1>1, <1>2, <1>3, <1>4 DEF Portion

\* An iteration preserves all of it.
LEMMA ServedRound ==
    ASSUME NEW h \in Ranks, NEW c \in [Experts -> Nat], NEW q, NEW rem, NEW quota, NEW rows,
           Served(h, c, q, rem, quota, rows), Given(q, h) \in Int,
           Given(q, h) <= GroupTokens(c)[h],
           NEW d \in Ranks, NEW e \in Owned(h), NEW t, NEW rem2, NEW quota2, NEW rows2,
           Serves(h, rem, quota, rows, d, e, t, rem2, quota2, rows2)
    PROVE  Served(h, c, q, rem2, quota2, rows2)
<1>1. /\ d # h /\ t \in Nat \ {0} /\ t <= rem[e] /\ t <= quota[d]
  BY ServeMoves
<1>2. /\ rem \in [Owned(h) -> Nat] /\ quota \in [Ranks -> Nat]
      /\ rows \in [Owned(h) -> [Ranks -> Nat]]
      /\ quota[h] = 0
      /\ \A f \in Owned(h) : rows[f][h] = rem[f] /\ SumFunctionOnSet(rows[f], Ranks) = c[f]
      /\ \A v \in Ranks \ {h} : Received(h, rows, v) + quota[v] = q[h][v]
      /\ SumFunctionOnSet(rem, Owned(h)) + Given(q, h) =
             GroupTokens(c)[h] + SumFunctionOnSet(quota, Ranks)
  BY DEF Served
<1>3. /\ rem2 = [rem EXCEPT ![e] = @ - t]
      /\ quota2 = [quota EXCEPT ![d] = @ - t]
      /\ rows2 = [rows EXCEPT ![e] = [@ EXCEPT ![d] = rows[e][d] + t, ![h] = rows[e][h] - t]]
  BY DEF Serves, Give
<1>4. /\ rem[e] \in Nat /\ quota[d] \in Nat /\ rem[e] - t \in Nat /\ quota[d] - t \in Nat
      /\ rows[e] \in [Ranks -> Nat] /\ rows[e][h] = rem[e] /\ t \in Int
  BY <1>1, <1>2
<1>5. /\ rem2[e] = rem[e] - t /\ \A f \in Owned(h) \ {e} : rem2[f] = rem[f]
      /\ quota2[d] = quota[d] - t /\ \A v \in Ranks \ {d} : quota2[v] = quota[v]
      /\ rem2 \in [Owned(h) -> Nat] /\ quota2 \in [Ranks -> Nat]
  BY <1>2, <1>3, <1>4
<1>6. /\ \A f \in Owned(h) \ {e} : rows2[f] = rows[f]
      /\ rows2[e] \in [Ranks -> Nat]
      /\ rows2[e][d] = rows[e][d] + t /\ rows2[e][h] = rem[e] - t
      /\ \A v \in Ranks \ {d, h} : rows2[e][v] = rows[e][v]
      /\ DOMAIN rows2 = Owned(h)
  <2>1. PICK x, y : x = rows[e] /\ y = [x EXCEPT ![d] = x[d] + t, ![h] = x[h] - t]
    OBVIOUS
  <2>2. rows2 = [rows EXCEPT ![e] = y]
    BY <1>3, <2>1
  <2>3. x \in [Ranks -> Nat] /\ x[h] = rem[e] /\ x[d] + t \in Nat /\ x[h] - t \in Nat
    BY <1>1, <1>4, <2>1
  <2>4. /\ y \in [Ranks -> Nat] /\ y[d] = x[d] + t /\ y[h] = rem[e] - t
        /\ \A v \in Ranks \ {d, h} : y[v] = x[v]
    BY <1>1, <2>1, <2>3
  <2>5. rows2[e] = y /\ DOMAIN rows2 = Owned(h) /\ \A f \in Owned(h) \ {e} : rows2[f] = rows[f]
    BY <1>2, <2>2
  <2> QED
    BY <2>1, <2>4, <2>5
<1>7. rows2 \in [Owned(h) -> [Ranks -> Nat]]
  <2>1. \A f \in Owned(h) : rows2[f] \in [Ranks -> Nat]
    BY <1>2, <1>6
  <2>2. rows2 = [f \in Owned(h) |-> rows2[f]]
    BY <1>3, <1>2
  <2> QED
    BY <2>1, <2>2
<1>8. ASSUME NEW f \in Owned(h)
      PROVE  rows2[f][h] = rem2[f] /\ SumFunctionOnSet(rows2[f], Ranks) = c[f]
  <2>1. CASE f # e
    BY <1>2, <1>5, <1>6, <2>1
  <2>2. CASE f = e
    <3>1. PICK x, y : x = rows[e] /\ y = rows2[e]
      OBVIOUS
    <3>2. PICK m : m = [x EXCEPT ![d] = x[d] + t]
      OBVIOUS
    <3>3. /\ \A v \in Ranks : x[v] \in Int /\ m[v] \in Int /\ y[v] \in Int
          /\ \A v \in Ranks \ {d} : m[v] = x[v]
          /\ m[d] = x[d] + t /\ x[d] \in Int
      BY <1>4, <1>6, <3>1, <3>2
    <3>4. /\ \A v \in Ranks \ {h} : y[v] = m[v]
          /\ m[h] = rem[e] /\ y[h] = rem[e] - t
      BY <1>1, <1>4, <1>6, <3>1, <3>3
    <3>5. SumFunctionOnSet(m, Ranks) = SumFunctionOnSet(x, Ranks) - x[d] + m[d]
      BY <3>3, RanksFinite, SumExcept
    <3>6. SumFunctionOnSet(y, Ranks) = SumFunctionOnSet(m, Ranks) - m[h] + y[h]
      BY <3>3, <3>4, RanksFinite, SumExcept
    <3>7. SumFunctionOnSet(x, Ranks) \in Int /\ SumFunctionOnSet(m, Ranks) \in Int
      BY <3>3, RanksFinite, SumInt
    <3>8. SumFunctionOnSet(y, Ranks) = SumFunctionOnSet(x, Ranks)
      BY <1>4, <3>3, <3>4, <3>5, <3>6, <3>7
    <3>9. SumFunctionOnSet(rows2[e], Ranks) = c[e]
      BY <1>2, <3>1, <3>8
    <3> QED
      BY <1>5, <1>6, <2>2, <3>9
  <2> QED
    BY <2>1, <2>2
<1>9. ASSUME NEW v \in Ranks \ {h} PROVE Received(h, rows2, v) + quota2[v] = q[h][v]
  <2>1. PICK x, y : /\ x = [f \in Owned(h) |-> rows[f][v]]
                    /\ y = [f \in Owned(h) |-> rows2[f][v]]
    OBVIOUS
  <2>2. /\ SumFunctionOnSet(x, Owned(h)) = Received(h, rows, v)
        /\ SumFunctionOnSet(y, Owned(h)) = Received(h, rows2, v)
    BY <2>1 DEF Received
  <2>3. /\ \A f \in Owned(h) : x[f] = rows[f][v] /\ y[f] = rows2[f][v]
        /\ \A f \in Owned(h) : x[f] \in Int /\ y[f] \in Int
        /\ \A f \in Owned(h) \ {e} : y[f] = x[f]
    BY <1>2, <1>6, <1>7, <2>1
  <2>4. Received(h, rows2, v) = Received(h, rows, v) - x[e] + y[e]
    <3>1. SumFunctionOnSet(y, Owned(h)) = SumFunctionOnSet(x, Owned(h)) - x[e] + y[e]
      BY <2>3, ExpertsFinite, SumExcept
    <3> QED
      BY <2>2, <3>1
  <2>5. Received(h, rows, v) \in Int
    <3>1. SumFunctionOnSet(x, Owned(h)) \in Int
      BY <2>3, ExpertsFinite, SumInt
    <3> QED
      BY <2>2, <3>1
  <2>6. Received(h, rows, v) + quota[v] = q[h][v] /\ quota[v] \in Nat
    BY <1>2
  <2>7. CASE v = d
    <3>1. y[e] = x[e] + t /\ x[e] \in Int /\ quota2[v] = quota[v] - t
      BY <1>5, <1>6, <2>3, <2>7
    <3> QED
      BY <1>4, <2>4, <2>5, <2>6, <3>1
  <2>8. CASE v # d
    <3>1. y[e] = x[e] /\ x[e] \in Int /\ quota2[v] = quota[v]
      BY <1>5, <1>6, <2>3, <2>8
    <3> QED
      BY <2>4, <2>5, <2>6, <3>1
  <2> QED
    BY <2>7, <2>8
<1>10. SumFunctionOnSet(rem2, Owned(h)) + Given(q, h) =
             GroupTokens(c)[h] + SumFunctionOnSet(quota2, Ranks)
  <2>1. /\ \A f \in Owned(h) : rem[f] \in Int /\ rem2[f] \in Int
        /\ \A v \in Ranks : quota[v] \in Int /\ quota2[v] \in Int
    BY <1>2, <1>5
  <2>2. SumFunctionOnSet(rem2, Owned(h)) = SumFunctionOnSet(rem, Owned(h)) - rem[e] + rem2[e]
    BY <1>5, <2>1, ExpertsFinite, SumExcept
  <2>3. SumFunctionOnSet(quota2, Ranks) = SumFunctionOnSet(quota, Ranks) - quota[d] + quota2[d]
    BY <1>5, <2>1, RanksFinite, SumExcept
  <2>4. SumFunctionOnSet(rem, Owned(h)) \in Int /\ SumFunctionOnSet(quota, Ranks) \in Int
    BY <2>1, RanksFinite, ExpertsFinite, SumInt
  <2>5. GroupTokens(c)[h] \in Nat
    BY GroupsTogether
  <2>6. PICK i, j, k, l : /\ i = SumFunctionOnSet(rem, Owned(h)) /\ j = Given(q, h)
                          /\ k = GroupTokens(c)[h] /\ l = SumFunctionOnSet(quota, Ranks)
    OBVIOUS
  <2>7. i \in Int /\ j \in Int /\ k \in Int /\ l \in Int /\ i + j = k + l
    BY <1>2, <2>4, <2>5, <2>6
  <2>8. /\ SumFunctionOnSet(rem2, Owned(h)) = i - t
        /\ SumFunctionOnSet(quota2, Ranks) = l - t
    BY <1>4, <1>5, <2>2, <2>3, <2>6, <2>7
  <2>9. (i - t) + j = k + (l - t)
    BY <1>4, <2>7
  <2> QED
    BY <2>6, <2>8, <2>9
<1> QED
  BY <1>1, <1>2, <1>5, <1>7, <1>8, <1>9, <1>10 DEF Served

LEMMA InTimeRound ==
    ASSUME NEW h \in Ranks, NEW c \in [Experts -> Nat], NEW q, NEW rem, NEW quota, NEW rows,
           Served(h, c, q, rem, quota, rows), Given(q, h) \in Int,
           Given(q, h) <= GroupTokens(c)[h],
           NEW d \in Ranks, NEW e \in Owned(h), NEW t, NEW rem2, NEW quota2, NEW rows2,
           Serves(h, rem, quota, rows, d, e, t, rem2, quota2, rows2),
           NEW n \in Nat, InTime(h, rem, quota, n)
    PROVE  InTime(h, rem2, quota2, n + 1)
<1>1. /\ t \in Nat \ {0} /\ t <= rem[e] /\ t <= quota[d] /\ (t = rem[e] \/ t = quota[d])
  BY ServeMoves
<1>2. /\ rem \in [Owned(h) -> Nat] /\ quota \in [Ranks -> Nat]
  BY DEF Served
<1>3. /\ rem2 = [rem EXCEPT ![e] = @ - t] /\ quota2 = [quota EXCEPT ![d] = @ - t]
      /\ quota[d] > 0
  BY DEF Serves
<1>4. /\ rem2[e] = rem[e] - t /\ \A f \in Owned(h) \ {e} : rem2[f] = rem[f]
      /\ quota2[d] = quota[d] - t /\ \A v \in Ranks \ {d} : quota2[v] = quota[v]
      /\ rem[e] \in Nat /\ quota[d] \in Nat
  BY <1>2, <1>3
<1>5. d \in OpenQuotas(quota) /\ e \in Stocked(h, rem)
  BY <1>1, <1>3, <1>4 DEF OpenQuotas, Stocked
<1>6. OpenQuotas(quota2) \subseteq OpenQuotas(quota) /\ Stocked(h, rem2) \subseteq Stocked(h, rem)
  <2>1. \A v \in Ranks : quota2[v] # 0 => quota[v] # 0
    BY <1>4, <1>3
  <2>2. \A f \in Owned(h) : rem2[f] # 0 => rem[f] # 0
    BY <1>1, <1>4
  <2> QED
    BY <2>1, <2>2 DEF OpenQuotas, Stocked
<1>7. PICK i, j, i2, j2 : /\ i = Cardinality(OpenQuotas(quota))
                          /\ j = Cardinality(Stocked(h, rem))
                          /\ i2 = Cardinality(OpenQuotas(quota2))
                          /\ j2 = Cardinality(Stocked(h, rem2))
  OBVIOUS
<1>8. i \in Nat /\ j \in Nat /\ i2 \in Nat /\ j2 \in Nat
  BY <1>7, OpenFinite
<1>9. i2 <= i /\ j2 <= j
  BY <1>6, <1>7, OpenFinite, FS_Subset
<1>10. i2 <= i - 1 \/ j2 <= j - 1
  <2>1. CASE t = quota[d]
    <3>1. OpenQuotas(quota2) \subseteq OpenQuotas(quota) \ {d}
      BY <1>4, <1>6, <2>1 DEF OpenQuotas
    <3>2. /\ IsFiniteSet(OpenQuotas(quota) \ {d})
          /\ Cardinality(OpenQuotas(quota) \ {d}) = i - 1
      BY <1>5, <1>7, OpenFinite, FS_RemoveElement
    <3> QED
      BY <1>7, <3>1, <3>2, FS_Subset
  <2>2. CASE t = rem[e]
    <3>1. Stocked(h, rem2) \subseteq Stocked(h, rem) \ {e}
      BY <1>4, <1>6, <2>2 DEF Stocked
    <3>2. /\ IsFiniteSet(Stocked(h, rem) \ {e})
          /\ Cardinality(Stocked(h, rem) \ {e}) = j - 1
      BY <1>5, <1>7, OpenFinite, FS_RemoveElement
    <3> QED
      BY <1>7, <3>1, <3>2, FS_Subset
  <2> QED
    BY <1>1, <2>1, <2>2
<1>11. PICK m : m = Iterations /\ m \in Nat
  BY IterationsNat
<1>12. i + j + n <= m
  BY <1>5, <1>7, <1>11 DEF InTime
<1>13. i2 + j2 + (n + 1) <= m
  BY <1>8, <1>9, <1>10, <1>11, <1>12
<1> QED
  BY <1>7, <1>11, <1>13 DEF InTime

\* After k iterations of CTA h, n of which moved tokens.
LEMMA ServedAlong ==
    ASSUME NEW h \in Ranks, NEW c \in [Experts -> Nat], NEW q,
           q[h] \in [Ranks -> Nat], q[h][h] = 0, Given(q, h) \in Int,
           Given(q, h) <= GroupTokens(c)[h], NEW k \in 0 .. Iterations
    PROVE  \E rem, quota, rows :
               /\ TakeStates(h, c, q)[k] = [rem |-> rem, quota |-> quota, rows |-> rows]
               /\ Served(h, c, q, rem, quota, rows)
               /\ InTime(h, rem, quota, k)
<1> DEFINE At(m) == \E rem, quota, rows :
               /\ TakeStates(h, c, q)[m] = [rem |-> rem, quota |-> quota, rows |-> rows]
               /\ Served(h, c, q, rem, quota, rows)
               /\ InTime(h, rem, quota, m)
           G == {m \in Nat : m <= Iterations => At(m)}
<1> HIDE DEF At
<1>1. Iterations \in Nat
  BY IterationsNat
<1>2. 0 \in G
  <2>1. PICK rem, rows :
            /\ rem = [e \in Owned(h) |-> c[e]]
            /\ rows = [e \in Owned(h) |-> [d \in Ranks |-> IF d = h THEN c[e] ELSE 0]]
    OBVIOUS
  <2>2. TakeStates(h, c, q)[0] = [rem |-> rem, quota |-> q[h], rows |-> rows]
    BY <2>1, AllocByRun DEF TakeStart
  <2>3. Served(h, c, q, rem, q[h], rows)
    BY <2>1, ServedAtFirst
  <2>4. InTime(h, rem, q[h], 0)
    BY InTimeAtFirst
  <2>5. At(0)
    BY <2>2, <2>3, <2>4 DEF At
  <2> QED
    BY <2>5
<1>3. ASSUME NEW m \in Nat, m \in G PROVE m + 1 \in G
  <2> SUFFICES ASSUME m + 1 <= Iterations PROVE At(m + 1)
    OBVIOUS
  <2>1. m <= Iterations /\ m + 1 \in 1 .. Iterations /\ (m + 1) - 1 = m
    BY <1>1
  <2>2. PICK rem, quota, rows :
            /\ TakeStates(h, c, q)[m] = [rem |-> rem, quota |-> quota, rows |-> rows]
            /\ Served(h, c, q, rem, quota, rows)
            /\ InTime(h, rem, quota, m)
    <3>1. At(m)
      BY <1>3, <2>1
    <3> QED
      BY <3>1 DEF At
  <2>3. TakeStates(h, c, q)[m + 1] = TakeRound(h, [rem |-> rem, quota |-> quota, rows |-> rows])
    <3>1. PICK g : g = TakeStates(h, c, q)
      OBVIOUS
    <3>2. g[m + 1] = TakeRound(h, g[m])
      BY <2>1, <3>1, AllocByRun
    <3> QED
      BY <2>2, <3>1, <3>2
  <2>4. rem \in [Owned(h) -> Nat] /\ quota \in [Ranks -> Nat] /\ quota \in [Ranks -> Int]
    BY <2>2 DEF Served
  <2>5. CASE \A r \in Ranks : ~(quota[r] > 0)
    <3>1. TakeStates(h, c, q)[m + 1] = [rem |-> rem, quota |-> quota, rows |-> rows]
      BY <2>3, <2>4, <2>5, TakeRoundIdles
    <3>2. OpenQuotas(quota) = {}
      BY <2>4, <2>5 DEF OpenQuotas
    <3>3. InTime(h, rem, quota, m + 1)
      BY <3>2 DEF InTime
    <3> QED
      BY <2>2, <3>1, <3>3 DEF At
  <2>6. CASE \E r \in Ranks : quota[r] > 0
    <3>1. PICK r \in Ranks : quota[r] > 0
      BY <2>6
    <3>2. Ranks \subseteq Int /\ Owned(h) \subseteq Int
      BY NumRanksAssumption, ExpertsPerRankAssumption DEF Ranks, Owned, Experts
    <3>3. Owned(h) # {}
      <4>1. Cardinality(Owned(h)) # 0
        BY OwnedCount, ExpertsPerRankAssumption
      <4> QED
        BY <4>1, FS_EmptySet
    <3>4. PICK d \in Ranks : IsFirstMax(quota, Ranks, d)
      <4>1. \A v \in Ranks : quota[v] \in Int
        BY <2>4
      <4> QED
        BY <3>1, <3>2, <4>1, RanksFinite, FirstMaxExists
    <3>5. PICK e \in Owned(h) : IsFirstMax(rem, Owned(h), e)
      <4>1. \A f \in Owned(h) : rem[f] \in Int
        BY <2>4
      <4> QED
        BY <3>2, <3>3, <4>1, ExpertsFinite, FirstMaxExists
    <3>6. quota[d] > 0
      <4>1. quota[r] <= quota[d]
        BY <3>4 DEF IsFirstMax
      <4> QED
        BY <2>4, <3>1, <4>1
    <3>7. PICK t, rem2, quota2, rows2 :
              /\ t = Portion(rem[e], quota[d])
              /\ rem2 = [rem EXCEPT ![e] = @ - t]
              /\ quota2 = [quota EXCEPT ![d] = @ - t]
              /\ rows2 = [rows EXCEPT ![e] = Give(@, d, h, t)]
      OBVIOUS
    <3>8. Serves(h, rem, quota, rows, d, e, t, rem2, quota2, rows2)
      BY <3>4, <3>5, <3>6, <3>7 DEF Serves
    <3>9. TakeRound(h, [rem |-> rem, quota |-> quota, rows |-> rows]) =
              [rem |-> rem2, quota |-> quota2, rows |-> rows2]
      <4>1. \A f \in Owned(h) : rem[f] \in Int
        BY <2>4
      <4> QED
        BY <2>4, <3>8, <4>1, TakeRoundServes
    <3>10. Served(h, c, q, rem2, quota2, rows2)
      BY <2>2, <3>8, ServedRound
    <3>11. InTime(h, rem2, quota2, m + 1)
      BY <2>2, <3>8, InTimeRound
    <3> QED
      BY <2>3, <3>9, <3>10, <3>11 DEF At
  <2> QED
    BY <2>5, <2>6
<1>4. \A m \in Nat : m \in G
  <2> HIDE DEF G
  <2> QED
    BY <1>2, <1>3, NatInduct
<1>5. k \in Nat /\ k <= Iterations
  BY <1>1
<1>6. At(k)
  BY <1>4, <1>5
<1> QED
  BY <1>6 DEF At

\* All quotas are served in the iterations of the loop.
LEMMA RowsServed ==
    ASSUME NEW h \in Ranks, NEW c \in [Experts -> Nat], NEW q,
           q[h] \in [Ranks -> Nat], q[h][h] = 0, Given(q, h) \in Int,
           Given(q, h) <= GroupTokens(c)[h],
           NEW rows, rows = AllocRows(h, c, q)
    PROVE  /\ rows \in [Owned(h) -> [Ranks -> Nat]]
           /\ \A e \in Owned(h) : SumFunctionOnSet(rows[e], Ranks) = c[e]
           /\ \A d \in Ranks \ {h} : Received(h, rows, d) = q[h][d]
           /\ Received(h, rows, h) + Given(q, h) = GroupTokens(c)[h]
<1>1. PICK m : m = Iterations /\ m \in Nat
  BY IterationsNat
<1>2. m \in 0 .. Iterations
  BY <1>1
<1>3. PICK rem, quota, last :
          /\ TakeStates(h, c, q)[m] = [rem |-> rem, quota |-> quota, rows |-> last]
          /\ Served(h, c, q, rem, quota, last)
          /\ InTime(h, rem, quota, m)
  BY <1>2, ServedAlong
<1>4. rows = last
  BY <1>1, <1>3, AllocByRun
<1>5. OpenQuotas(quota) = {}
  <2> SUFFICES ASSUME OpenQuotas(quota) # {} PROVE FALSE
    OBVIOUS
  <2>1. PICK i, j : i = Cardinality(OpenQuotas(quota)) /\ j = Cardinality(Stocked(h, rem))
    OBVIOUS
  <2>2. i \in Nat /\ j \in Nat
    BY <2>1, OpenFinite
  <2>3. i + j + m <= m
    BY <1>1, <1>3, <2>1 DEF InTime
  <2>4. i = 0
    BY <1>1, <2>2, <2>3
  <2> QED
    BY <2>1, <2>4, OpenFinite, FS_EmptySet
<1>6. \A d \in Ranks : quota[d] = 0
  BY <1>5 DEF OpenQuotas
<1>7. SumFunctionOnSet(quota, Ranks) = 0
  BY <1>6, RanksFinite, SumZero
<1>8. /\ rem \in [Owned(h) -> Nat] /\ last \in [Owned(h) -> [Ranks -> Nat]]
      /\ \A e \in Owned(h) : last[e][h] = rem[e] /\ SumFunctionOnSet(last[e], Ranks) = c[e]
      /\ \A d \in Ranks \ {h} : Received(h, last, d) + quota[d] = q[h][d]
      /\ SumFunctionOnSet(rem, Owned(h)) + Given(q, h) =
             GroupTokens(c)[h] + SumFunctionOnSet(quota, Ranks)
  BY <1>3 DEF Served
<1>9. ASSUME NEW d \in Ranks PROVE Received(h, last, d) \in Int
  <2>1. PICK x : x = [e \in Owned(h) |-> last[e][d]]
    OBVIOUS
  <2>2. \A e \in Owned(h) : x[e] \in Int
    BY <1>8, <2>1
  <2>3. SumFunctionOnSet(x, Owned(h)) \in Int
    BY <2>2, ExpertsFinite, SumInt
  <2> QED
    BY <2>1, <2>3 DEF Received
<1>10. \A d \in Ranks \ {h} : Received(h, last, d) = q[h][d]
  BY <1>6, <1>8, <1>9
<1>11. Received(h, last, h) = SumFunctionOnSet(rem, Owned(h))
  <2>1. PICK x : x = [e \in Owned(h) |-> last[e][h]]
    OBVIOUS
  <2>2. \A e \in Owned(h) : x[e] = rem[e]
    BY <1>8, <2>1
  <2>3. SumFunctionOnSet(x, Owned(h)) = SumFunctionOnSet(rem, Owned(h))
    BY <2>2, ExpertsFinite, SumSame
  <2> QED
    BY <2>1, <2>3 DEF Received
<1>12. GroupTokens(c)[h] \in Nat
  BY GroupsTogether
<1> QED
  BY <1>4, <1>7, <1>8, <1>10, <1>11, <1>12

-----------------------------------------------------------------------------
(* What phase B computes. *)

\* Every token is computed by some rank, every rank computes exactly Cap tokens,
\* and those of experts of one other home group at most.
GoodAlloc(c, a) ==
    /\ a \in [Experts -> [Ranks -> Nat]]
    /\ \A e \in Experts : Placed(a, e) = c[e]
    /\ \A d \in Ranks : Load(a, d) = Cap
    /\ \A d \in Ranks : \A e1, e2 \in RemoteExperts(a, d) : Home(e1) = Home(e2)

\* The code checks no more than that the tokens are placed and no rank has too many.
LEMMA GoodChecks ==
    ASSUME NEW c, NEW a, GoodAlloc(c, a)
    PROVE  AllocChecks(c, a)
BY CapAssumption DEF GoodAlloc, AllocChecks

\* The allocation of Alloc, put together from the rows of the CTAs.
LEMMA AllocOfRows ==
    ASSUME NEW c, NEW a, a = Alloc(c), NEW q, q = Quotas(c), NEW e \in Experts
    PROVE  a[e] = AllocRows(Home(e), c, q)[e]
<1>1. PICK rows : rows = [h \in Ranks |-> AllocRows(h, c, q)]
  OBVIOUS
<1>2. a = [f \in Experts |-> rows[Home(f)][f]]
  BY <1>1 DEF Alloc
<1>3. rows[Home(e)] = AllocRows(Home(e), c, q)
  BY <1>1, HomeIsRank
<1> QED
  BY <1>2, <1>3

\* Phase B computes a good allocation of every routing: NumRanks rounds of pairing
\* and ExpertsPerRank * NumRanks iterations of a CTA are enough.
THEOREM AllocIsGood ==
    ASSUME NEW c, Routed(c)
    PROVE  GoodAlloc(c, Alloc(c))
<1>1. PICK b, n : Paired(c, b, Quotas(c), n) /\ \A r \in Ranks : b[r] = 0
  BY QuotasFill
<1>2. PICK q, a : q = Quotas(c) /\ a = Alloc(c)
  OBVIOUS
<1>3. /\ q \in [Ranks -> [Ranks -> Int]] /\ c \in [Experts -> Nat]
      /\ OneDonor(q) /\ NoneToItself(q) /\ Accounts(c, b, q) /\ Exact(c, b, q)
  BY <1>1, <1>2 DEF Paired, Routed
<1>4. ASSUME NEW h \in Ranks
      PROVE  /\ q[h] \in [Ranks -> Nat] /\ q[h][h] = 0 /\ Given(q, h) \in Int
             /\ Given(q, h) <= GroupTokens(c)[h]
  <2>1. \A u \in Ranks : q[h][u] \in Int /\ q[h][u] >= 0
    BY <1>3 DEF Accounts
  <2>2. q[h] \in [Ranks -> Nat]
    BY <1>3, <2>1
  <2>3. Given(q, h) \in Int
    BY <2>1, RanksFinite, SumInt DEF Given
  <2> QED
    BY <1>3, <2>2, <2>3 DEF NoneToItself, Accounts
<1>5. ASSUME NEW h \in Ranks, NEW rows, rows = AllocRows(h, c, q)
      PROVE  /\ rows \in [Owned(h) -> [Ranks -> Nat]]
             /\ \A e \in Owned(h) : SumFunctionOnSet(rows[e], Ranks) = c[e]
             /\ \A d \in Ranks \ {h} : Received(h, rows, d) = q[h][d]
             /\ Received(h, rows, h) + Given(q, h) = GroupTokens(c)[h]
  BY <1>3, <1>4, <1>5, RowsServed
<1>6. \A e \in Experts : /\ Home(e) \in Ranks /\ e \in Owned(Home(e))
                         /\ a[e] = AllocRows(Home(e), c, q)[e]
  BY <1>2, HomeIsRank, AllocOfRows DEF Owned
<1>7. ASSUME NEW e \in Experts
      PROVE  a[e] \in [Ranks -> Nat] /\ SumFunctionOnSet(a[e], Ranks) = c[e]
  <2>1. PICK rows : rows = AllocRows(Home(e), c, q)
    OBVIOUS
  <2>2. rows \in [Owned(Home(e)) -> [Ranks -> Nat]] /\ SumFunctionOnSet(rows[e], Ranks) = c[e]
    BY <1>5, <1>6, <2>1
  <2> QED
    BY <1>6, <2>1, <2>2
<1>8. a \in [Experts -> [Ranks -> Nat]]
  <2>1. a = [e \in Experts |-> a[e]]
    BY <1>2 DEF Alloc
  <2> QED
    BY <1>7, <2>1
<1>9. \A e \in Experts : Placed(a, e) = c[e]
  <2> SUFFICES ASSUME NEW e \in Experts PROVE Placed(a, e) = c[e]
    OBVIOUS
  <2>1. DOMAIN a[e] = Ranks
    BY <1>7
  <2> QED
    BY <1>7, <2>1 DEF Placed, SumFunction
<1>10. ASSUME NEW h \in Ranks, NEW d \in Ranks, NEW x, \A e \in Experts : x[e] = a[e][d]
       PROVE  /\ SumFunctionOnSet(x, Owned(h)) \in Int
              /\ h # d => SumFunctionOnSet(x, Owned(h)) = q[h][d]
              /\ h = d => SumFunctionOnSet(x, Owned(h)) + Given(q, h) = GroupTokens(c)[h]
  <2>1. PICK rows, y : rows = AllocRows(h, c, q) /\ y = [e \in Owned(h) |-> rows[e][d]]
    OBVIOUS
  <2>2. \A e \in Owned(h) : y[e] = x[e]
    BY <1>6, <1>10, <2>1 DEF Owned
  <2>3. SumFunctionOnSet(y, Owned(h)) = SumFunctionOnSet(x, Owned(h))
    BY <2>2, ExpertsFinite, SumSame
  <2>4. Received(h, rows, d) = SumFunctionOnSet(x, Owned(h))
    BY <2>1, <2>3 DEF Received
  <2>5. \A e \in Owned(h) : x[e] \in Int
    BY <1>7, <1>10 DEF Owned
  <2>6. SumFunctionOnSet(x, Owned(h)) \in Int
    BY <2>5, ExpertsFinite, SumInt
  <2>7. /\ \A v \in Ranks \ {h} : Received(h, rows, v) = q[h][v]
        /\ Received(h, rows, h) + Given(q, h) = GroupTokens(c)[h]
    BY <1>5, <2>1
  <2> QED
    BY <2>4, <2>6, <2>7
<1>11. ASSUME NEW d \in Ranks PROVE Load(a, d) = Cap
  <2>1. PICK x, p, o, part, col :
            /\ x = [e \in Experts |-> a[e][d]]
            /\ p = [e \in Experts |-> Home(e)]
            /\ o = [h \in Ranks |-> Owned(h)]
            /\ part = [h \in Ranks |-> SumFunctionOnSet(x, Owned(h))]
            /\ col = [h \in Ranks |-> q[h][d]]
    OBVIOUS
  <2>2. /\ \A e \in Experts : x[e] = a[e][d] /\ x[e] \in Int
        /\ p \in [Experts -> Ranks]
        /\ \A h \in Ranks : \A e : e \in o[h] <=> e \in Experts /\ p[e] = h
        /\ \A h \in Ranks : part[h] = SumFunctionOnSet(x, o[h])
    <3>1. \A e \in Experts : x[e] = a[e][d] /\ x[e] \in Int
      BY <1>7, <2>1
    <3>2. p \in [Experts -> Ranks]
      BY <2>1, HomeIsRank
    <3>3. \A h \in Ranks : \A e : e \in o[h] <=> e \in Experts /\ p[e] = h
      BY <2>1 DEF Owned
    <3>4. \A h \in Ranks : part[h] = SumFunctionOnSet(x, o[h])
      BY <2>1
    <3> QED
      BY <3>1, <3>2, <3>3, <3>4
  <2>3. SumFunctionOnSet(part, Ranks) = SumFunctionOnSet(x, Experts)
    BY <2>2, RanksFinite, ExpertsFinite, SumParts
  <2>4. Load(a, d) = SumFunctionOnSet(x, Experts)
    BY <2>1 DEF Load, SumFunction
  <2>5. /\ \A h \in Ranks : part[h] \in Int /\ col[h] \in Int
        /\ \A h \in Ranks \ {d} : part[h] = col[h]
        /\ part[d] + Given(q, d) = GroupTokens(c)[d] /\ col[d] = 0
    <3>1. \A e \in Experts : x[e] = a[e][d]
      BY <2>2
    <3>2. \A h \in Ranks :
              /\ part[h] \in Int
              /\ h # d => part[h] = q[h][d]
              /\ h = d => part[h] + Given(q, h) = GroupTokens(c)[h]
      BY <1>10, <2>1, <3>1
    <3>3. \A h \in Ranks : col[h] = q[h][d] /\ col[h] \in Int
      BY <1>3, <2>1
    <3>4. col[d] = 0
      BY <1>3, <3>3 DEF NoneToItself
    <3> QED
      BY <3>2, <3>3, <3>4
  <2>6. SumFunctionOnSet(part, Ranks) = SumFunctionOnSet(col, Ranks) - col[d] + part[d]
    BY <2>5, RanksFinite, SumExcept
  <2>7. Got(q, d) = SumFunctionOnSet(col, Ranks)
    BY <2>1 DEF Got
  <2>8. SumFunctionOnSet(col, Ranks) \in Int
    BY <2>5, RanksFinite, SumInt
  <2>9. b[d] + Cap + Given(q, d) = GroupTokens(c)[d] + Got(q, d) /\ b[d] = 0
    BY <1>1, <1>3 DEF Exact
  <2>10. PICK i, j, k, l : /\ i = Given(q, d) /\ j = GroupTokens(c)[d]
                           /\ k = Got(q, d) /\ l = part[d]
    OBVIOUS
  <2>11. i \in Int /\ j \in Int /\ k \in Int /\ l \in Int /\ Cap \in Int
    BY <1>3, <1>4, <2>5, <2>7, <2>8, <2>10, GroupsTogether, CapAssumption
  <2>12. 0 + Cap + i = j + k /\ l + i = j
    BY <2>5, <2>9, <2>10
  <2>13. Load(a, d) = k - 0 + l
    BY <2>3, <2>4, <2>5, <2>6, <2>7, <2>10
  <2> QED
    BY <2>11, <2>12, <2>13
<1>12. ASSUME NEW d \in Ranks, NEW e1 \in RemoteExperts(a, d), NEW e2 \in RemoteExperts(a, d)
       PROVE  Home(e1) = Home(e2)
  <2>1. ASSUME NEW e \in RemoteExperts(a, d) PROVE Home(e) \in Ranks /\ q[Home(e)][d] # 0
    <3>1. e \in Experts /\ Home(e) # d /\ a[e][d] > 0
      BY <2>1 DEF RemoteExperts, Owned
    <3>2. PICK x : x = [f \in Experts |-> a[f][d]]
      OBVIOUS
    <3>3. \A f \in Experts : x[f] = a[f][d] /\ x[f] \in Nat
      BY <1>7, <3>2
    <3>4. PICK h : h = Home(e)
      OBVIOUS
    <3>5. h \in Ranks /\ h # d /\ e \in Owned(h)
      BY <1>6, <3>1, <3>4
    <3>6. SumFunctionOnSet(x, Owned(h)) = q[h][d]
      <4>1. \A f \in Experts : x[f] = a[f][d]
        BY <3>3
      <4> QED
        BY <1>10, <3>5, <4>1
    <3>7. \A f \in Owned(h) : x[f] \in Nat
      BY <3>3 DEF Owned
    <3>8. x[e] <= SumFunctionOnSet(x, Owned(h)) /\ SumFunctionOnSet(x, Owned(h)) \in Nat
      BY <3>5, <3>7, ExpertsFinite, SumNat
    <3>9. x[e] > 0 /\ x[e] \in Nat
      BY <3>1, <3>3
    <3> QED
      BY <3>4, <3>5, <3>6, <3>8, <3>9
  <2> QED
    BY <1>3, <2>1 DEF OneDonor
<1> QED
  BY <1>2, <1>8, <1>9, <1>11, <1>12 DEF GoodAlloc

=============================================================================
