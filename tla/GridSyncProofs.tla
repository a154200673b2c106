--------------------------- MODULE GridSyncProofs ---------------------------
(***************************************************************************)
(* For every number of CTAs and every width of the word: grid_sync_kernel  *)
(* lets no CTA out before all have arrived, its counter is zero between    *)
(* launches, and its arithmetic never wraps.                               *)
(***************************************************************************)
EXTENDS GridSync, FiniteSetTheorems, TLAPS

\* The CTAs other than CTA 0, each of which adds 1.
Others == CTAs \ {0}

\* What the CTAs that have arrived have added.
Arrived(q) == {p \in CTAs : q[p] # "arrive"}
Added(q) ==
    Cardinality(Arrived(q) \cap Others)
        + (IF 0 \in Arrived(q) THEN Contribution(0) ELSE 0)

\* The strengthening of the invariants that every step preserves: before the
\* first reset the word is what has been added, after it the word is zero, and
\* a CTA is past its spin loop only when nobody is still to arrive.
WordInv ==
    /\ At("done") = {} => bar = Added(pc)
    /\ At("done") # {} => bar = 0
    /\ At("reset") \cup At("done") # {} => Missing = {}

IInv == TypeOK /\ WordInv
-----------------------------------------------------------------------------
\* The number of CTAs that add 1 to the word.
LEMMA OthersCardinality ==
    /\ IsFiniteSet(Others)
    /\ Cardinality(Others) = NumCTAs - 1
    /\ 0 \in CTAs
<1>1. IsFiniteSet(CTAs) /\ Cardinality(CTAs) = NumCTAs
  BY FS_Interval, NumCTAsAssumption, SMT DEF CTAs
<1>2. 0 \in CTAs
  BY NumCTAsAssumption DEF CTAs
<1> QED
  BY <1>1, <1>2, FS_RemoveElement DEF Others

\* What has been added is at most Tag, and is Tag only if all have arrived.
LEMMA AddedBound ==
    ASSUME NEW q
    PROVE  /\ Added(q) \in 0 .. Tag
           /\ Added(q) = Tag <=> Arrived(q) = CTAs
<1> DEFINE A == Arrived(q) \cap Others
<1>1. /\ IsFiniteSet(A) /\ Cardinality(A) \in 0 .. (NumCTAs - 1)
      /\ Cardinality(A) = NumCTAs - 1 <=> A = Others
  BY OthersCardinality, FS_Subset, FS_CardinalityType, NumCTAsAssumption
<1>2. 0 \in Arrived(q) /\ A = Others <=> Arrived(q) = CTAs
  BY OthersCardinality DEF Others, Arrived
<1>3. CASE 0 \in Arrived(q)
  <2>1. Added(q) = Cardinality(A) + (Tag - (NumCTAs - 1))
    BY <1>3 DEF Added, Contribution
  <2> QED
    BY <2>1, <1>1, <1>2, <1>3, NumCTAsAssumption, TagAssumption
<1>4. CASE 0 \notin Arrived(q)
  <2>1. Added(q) = Cardinality(A) + 0
    BY <1>4 DEF Added
  <2> QED
    BY <2>1, <1>1, <1>2, <1>4, NumCTAsAssumption, TagAssumption
<1> QED
  BY <1>3, <1>4

\* The arrival of a CTA adds its contribution.
LEMMA AddedArrive ==
    ASSUME NEW q, NEW r, NEW p \in CTAs, p \notin Arrived(q),
           Arrived(r) = Arrived(q) \cup {p}
    PROVE  Added(r) = Added(q) + Contribution(p)
<1> DEFINE A == Arrived(q) \cap Others
           B == Arrived(r) \cap Others
<1>1. IsFiniteSet(A) /\ Cardinality(A) \in Nat
  BY OthersCardinality, FS_Subset, FS_CardinalityType
<1>2. CASE p = 0
  <2>1. B = A
    BY <1>2 DEF Others
  <2> QED
    BY <2>1, <1>1, <1>2, NumCTAsAssumption, TagAssumption DEF Added, Contribution
<1>3. CASE p # 0
  <2>1. B = A \cup {p} /\ p \notin A
    BY <1>3 DEF Others
  <2>2. Cardinality(B) = Cardinality(A) + 1
    BY <2>1, <1>1, FS_AddElement
  <2>3. 0 \in Arrived(r) <=> 0 \in Arrived(q)
    BY <1>3
  <2>4. Contribution(p) = 1 /\ Contribution(0) \in Int
    BY <1>3, NumCTAsAssumption, TagAssumption DEF Contribution
  <2> HIDE DEF A, B
  <2>5. Added(r) = Cardinality(B) + (IF 0 \in Arrived(q) THEN Contribution(0) ELSE 0)
    BY <2>3 DEF Added, B
  <2>6. Added(q) = Cardinality(A) + (IF 0 \in Arrived(q) THEN Contribution(0) ELSE 0)
    BY DEF Added, A
  <2> QED
    BY <2>2, <2>4, <2>5, <2>6, <1>1
<1> QED
  BY <1>2, <1>3
-----------------------------------------------------------------------------
LEMMA InitIInv == Init => IInv
<1> SUFFICES ASSUME Init PROVE IInv
  OBVIOUS
<1>1. TypeOK
  BY NumCTAsAssumption, TagAssumption, MaxLaunchesAssumption
  DEF Init, TypeOK, WordSize
<1>2. At("done") = CTAs /\ Missing = {}
  BY DEF Init, At, Missing
<1> QED
  BY <1>1, <1>2, OthersCardinality DEF Init, IInv, WordInv

LEMMA NextIInv == IInv /\ [Next]_vars => IInv'
<1> SUFFICES ASSUME IInv, [Next]_vars PROVE IInv'
  OBVIOUS
<1> USE DEF IInv
<1>1. CASE Launch
  <2>1. TypeOK'
    BY <1>1, MaxLaunchesAssumption DEF TypeOK, Launch
  <2>2. bar = 0
    BY <1>1, OthersCardinality DEF Launch, WordInv, At
  <2>3. At("done")' = {} /\ At("reset")' = {} /\ Arrived(pc') = {}
    BY <1>1 DEF Launch, At, Arrived
  <2>4. Added(pc') = 0
    <3>1. Arrived(pc') \cap Others = {} /\ 0 \notin Arrived(pc')
      BY <2>3
    <3> QED
      BY <3>1, FS_EmptySet DEF Added
  <2>5. bar' = 0
    BY <1>1, <2>2 DEF Launch
  <2> QED
    BY <2>1, <2>3, <2>4, <2>5 DEF WordInv
<1>2. ASSUME NEW p \in CTAs, Arrive(p) PROVE IInv'
  <2>1. /\ pc[p] = "arrive" /\ pc' = [pc EXCEPT ![p] = "spin"]
        /\ bar' = AtomicAdd(bar, Contribution(p)) /\ launches' = launches
    BY <1>2 DEF Arrive
  <2>2. p \in Missing /\ At("done") = {} /\ At("reset") = {}
    BY <2>1 DEF Missing, At, WordInv
  <2>3. Arrived(pc') = Arrived(pc) \cup {p} /\ p \notin Arrived(pc)
    BY <2>1 DEF Arrived, TypeOK
  <2>4. Added(pc') = Added(pc) + Contribution(p) /\ bar = Added(pc)
    BY <2>2, <2>3, AddedArrive DEF WordInv
  <2>5. bar' = Added(pc') /\ bar' \in 0 .. Tag
    BY <2>1, <2>4, AddedBound, NumCTAsAssumption, TagAssumption DEF AtomicAdd, WordSize
  <2>6. At("done")' = {} /\ At("reset")' = {}
    BY <2>1, <2>2 DEF At, TypeOK
  <2>7. TypeOK'
    BY <2>1, <2>5, NumCTAsAssumption, TagAssumption DEF TypeOK, WordSize
  <2> QED
    BY <2>5, <2>6, <2>7 DEF WordInv
<1>3. ASSUME NEW p \in CTAs, Observe(p) PROVE IInv'
  <2>1. /\ pc[p] = "spin" /\ pc' = [pc EXCEPT ![p] = "reset"]
        /\ bar = Tag /\ bar' = bar /\ launches' = launches
    BY <1>3 DEF Observe
  <2>2. At("done") = {} /\ bar = Added(pc)
    BY <2>1, NumCTAsAssumption, TagAssumption DEF WordInv
  <2>3. Arrived(pc) = CTAs
    BY <2>1, <2>2, AddedBound
  <2>4. Arrived(pc') = Arrived(pc) /\ At("done")' = {} /\ Missing' = {}
    BY <2>1, <2>2, <2>3 DEF Arrived, At, Missing, TypeOK
  <2>5. Added(pc') = Added(pc)
    BY <2>4 DEF Added
  <2>6. TypeOK'
    BY <2>1 DEF TypeOK
  <2> QED
    BY <2>1, <2>2, <2>4, <2>5, <2>6 DEF WordInv
<1>4. ASSUME NEW p \in CTAs, Reset(p) PROVE IInv'
  <2>1. /\ pc[p] = "reset" /\ pc' = [pc EXCEPT ![p] = "done"]
        /\ bar' = 0 /\ launches' = launches
    BY <1>4 DEF Reset, Cleared
  <2>2. Missing = {}
    BY <2>1 DEF WordInv, At
  <2>3. p \in At("done")' /\ Missing' = {}
    BY <2>1, <2>2 DEF At, Missing, TypeOK
  <2>4. TypeOK'
    BY <2>1, NumCTAsAssumption, TagAssumption DEF TypeOK, WordSize
  <2> QED
    BY <2>1, <2>3, <2>4 DEF WordInv
<1>5. CASE UNCHANGED vars
  BY <1>5 DEF vars, TypeOK, WordInv, At, Missing, Added, Arrived
<1> QED
  BY <1>1, <1>2, <1>3, <1>4, <1>5 DEF Next, CTA

LEMMA IInvImplies == IInv => TypeOK /\ SafeExit /\ SelfReset /\ TagMeansAll
<1> SUFFICES ASSUME IInv PROVE SafeExit /\ SelfReset /\ TagMeansAll
  BY DEF IInv
<1>1. SafeExit /\ SelfReset
  BY OthersCardinality DEF IInv, WordInv, SafeExit, SelfReset, At
<1>2. CASE At("done") = {}
  <2>1. Missing = {} <=> Arrived(pc) = CTAs
    BY DEF Missing, At, Arrived
  <2> QED
    BY <1>1, <1>2, <2>1, AddedBound, TagAssumption DEF IInv, WordInv, TagMeansAll
<1>3. CASE At("done") # {}
  BY <1>1, <1>3, NumCTAsAssumption, TagAssumption DEF IInv, WordInv, TagMeansAll
<1> QED
  BY <1>1, <1>2, <1>3

\* Type correctness, for every grid size and word.
THEOREM TypeCorrect == Spec => []TypeOK
<1>1. Spec => []IInv
  BY InitIInv, NextIInv, PTL DEF Spec
<1> QED
  BY <1>1, IInvImplies, PTL

\* No CTA leaves the barrier of grid_sync_kernel before every CTA of the launch
\* has arrived at it, for every grid size.
THEOREM BarrierSafe == Spec => []SafeExit
<1>1. Spec => []IInv
  BY InitIInv, NextIInv, PTL DEF Spec
<1> QED
  BY <1>1, IInvImplies, PTL

\* The counter is zero whenever no launch is in flight, so that a launch starts
\* from the value the first one started from.
THEOREM CounterSelfResets == Spec => []SelfReset
<1>1. Spec => []IInv
  BY InitIInv, NextIInv, PTL DEF Spec
<1> QED
  BY <1>1, IInvImplies, PTL

\* The word reads Tag exactly while every CTA has arrived and none has reset
\* it, and never exceeds Tag: the additions modulo the word size never wrap.
THEOREM NoFalseRelease == Spec => []TagMeansAll
<1>1. Spec => []IInv
  BY InitIInv, NextIInv, PTL DEF Spec
<1> QED
  BY <1>1, IInvImplies, PTL

\* A reset strands the CTAs that still spin: once one CTA has left, a CTA that
\* has not read Tag stays in its loop for the rest of the execution.
THEOREM Stranding == Spec => ResetStrandsSpinners
<1>1. IInv /\ [Next]_vars =>
        [\A p \in CTAs : At("done") # {} /\ pc[p] = "spin" => pc'[p] = "spin"]_vars
  <2> SUFFICES ASSUME IInv, [Next]_vars, NEW p \in CTAs,
                      At("done") # {}, pc[p] = "spin"
               PROVE  pc'[p] = "spin"
    OBVIOUS
  <2>1. bar # Tag
    BY NumCTAsAssumption, TagAssumption DEF IInv, WordInv
  <2>2. ~Launch
    BY DEF Launch
  <2>3. ASSUME NEW c \in CTAs, CTA(c) PROVE pc'[p] = "spin"
    BY <2>1, <2>3 DEF CTA, Arrive, Observe, Reset, IInv, TypeOK
  <2>4. CASE UNCHANGED vars
    BY <2>4 DEF vars
  <2> QED
    BY <2>2, <2>3, <2>4 DEF Next
<1> QED
  BY <1>1, InitIInv, NextIInv, PTL DEF Spec, ResetStrandsSpinners
=============================================================================
