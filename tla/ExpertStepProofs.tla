-------------------------- MODULE ExpertStepProofs --------------------------
(***************************************************************************)
(* For every number of ranks, experts, slots, tiles and training steps, and*)
(* for every plan: nobody changes a slot that is being reduced or a weight *)
(* that is being copied, experts are computed with the weights that their  *)
(* rank's full weights have, of the owner's step where these are views of  *)
(* the owner's, and a reduced gradient is the sum of all shares of the     *)
(* step, in one order.                                                     *)
(***************************************************************************)
EXTENDS ExpertStep, FiniteSetTheorems, SequenceTheorems, TLAPS

Stages == {"idle", "prefetch", "compute", "accumulate", "clear", "update"}

\* The values of the variables that the argument is about.
ControlTypeOK ==
    /\ iter \in [Ranks -> Nat]
    /\ pc \in [Ranks -> Stages]
    /\ matrix \in [Ranks -> Matrices]
    /\ arrived \in [Ranks -> Nat]

\* The barriers that rank r has arrived at tell what it does: a step has seven,
\* that of dispatch and two for each matrix.
Barriers(r) ==
    CASE pc[r] \in {"idle", "update"} -> 7 * iter[r]
      [] pc[r] \in {"prefetch", "compute"} -> 7 * (iter[r] - 1) + 1
      [] pc[r] = "accumulate" -> 7 * (iter[r] - 1) + 2 * matrix[r]
      [] pc[r] = "clear" -> 7 * (iter[r] - 1) + 2 * matrix[r] + 1

\* A rank is one barrier ahead of a peer at most, and none where it does not wait.
InStep ==
    \A r, q \in Ranks :
        /\ arrived[q] >= arrived[r] - 1
        /\ pc[r] \notin AtBarrier => arrived[q] >= arrived[r]

IInv ==
    /\ ControlTypeOK
    /\ \A r \in Ranks : arrived[r] = Barriers(r)
    /\ \A r \in Ranks : pc[r] = "compute" => matrix[r] = 1
    /\ InStep
-----------------------------------------------------------------------------
LEMMA InitIInv == Init => IInv
<1> SUFFICES ASSUME Init PROVE IInv
  OBVIOUS
<1>1. ControlTypeOK
  BY DEF Init, ControlTypeOK, Stages, Matrices
<1> QED
  BY <1>1 DEF Init, IInv, InStep, Barriers, AtBarrier

\* Rank r goes on with stage, by n barriers: it has passed the one it was at, and
\* waits at the next.
Moves(r, i, stage, m, n) ==
    /\ i \in Nat /\ stage \in Stages /\ m \in Matrices /\ n \in {0, 1}
    /\ iter' = [iter EXCEPT ![r] = i]
    /\ pc' = [pc EXCEPT ![r] = stage]
    /\ matrix' = [matrix EXCEPT ![r] = m]
    /\ arrived' = [arrived EXCEPT ![r] = @ + n]
    /\ Barriers(r)' = arrived[r] + n
    /\ stage = "compute" => m = 1
    /\ n = 1 => stage \in AtBarrier

\* The argument of every step that takes a rank on.
LEMMA MovePreserves ==
    ASSUME IInv, NEW r \in Ranks, BarrierOpen(r),
           NEW i, NEW stage, NEW m, NEW n, Moves(r, i, stage, m, n)
    PROVE  IInv'
<1> USE DEF Moves
<1>1. ControlTypeOK'
  BY DEF IInv, ControlTypeOK
<1>2. \A q \in Ranks \ {r} : Barriers(q)' = Barriers(q)
  BY DEF Barriers, IInv, ControlTypeOK, Matrices
<1>3. \A q \in Ranks : arrived'[q] = Barriers(q)'
  BY <1>2 DEF IInv, ControlTypeOK
<1>4. InStep'
  <2> SUFFICES ASSUME NEW p \in Ranks, NEW q \in Ranks
               PROVE  /\ arrived'[q] >= arrived'[p] - 1
                      /\ pc'[p] \notin AtBarrier => arrived'[q] >= arrived'[p]
    BY DEF InStep, AtBarrier
  <2>1. /\ arrived[p] \in Nat /\ arrived[q] \in Nat /\ arrived[r] \in Nat
        /\ arrived[q] >= arrived[p] - 1
        /\ pc[p] \notin AtBarrier => arrived[q] >= arrived[p]
        /\ arrived'[q] >= arrived[q]
    BY DEF IInv, ControlTypeOK, InStep
  <2>2. CASE p = r
    BY <2>1, <2>2 DEF IInv, ControlTypeOK, BarrierOpen
  <2>3. CASE p # r
    BY <2>1, <2>3 DEF IInv, ControlTypeOK
  <2> QED
    BY <2>2, <2>3
<1>5. \A q \in Ranks : pc'[q] = "compute" => matrix'[q] = 1
  BY DEF IInv, ControlTypeOK
<1> QED
  BY <1>1, <1>3, <1>4, <1>5 DEF IInv

\* A step that leaves every rank where it is.
LEMMA StayPreserves ==
    ASSUME IInv, UNCHANGED <<iter, pc, matrix, arrived>>
    PROVE  IInv'
BY DEF IInv, ControlTypeOK, Barriers, InStep

\* Where a rank does not wait, or the barrier it is at has opened.
LEMMA PastBarrier ==
    ASSUME IInv, NEW r \in Ranks, pc[r] \notin AtBarrier \/ At(r, pc[r])
    PROVE  BarrierOpen(r)
BY DEF IInv, InStep, At, BarrierOpen

LEMMA NextIInv == IInv /\ [Next]_vars => IInv'
<1> SUFFICES ASSUME IInv, [Next]_vars PROVE IInv'
  OBVIOUS
<1>0. 1 \in Matrices /\ 0 # 1
  BY DEF Matrices
<1>1. ASSUME NEW r \in Ranks, Dispatch(r) PROVE IInv'
  <2>1. /\ pc[r] = "idle" /\ iter[r] \in Nat /\ arrived[r] = 7 * iter[r]
        /\ iter' = [iter EXCEPT ![r] = iter[r] + 1]
        /\ pc' = [pc EXCEPT ![r] = "prefetch"]
        /\ matrix' = [matrix EXCEPT ![r] = 1]
        /\ arrived' = [arrived EXCEPT ![r] = @ + 1]
    BY <1>1 DEF Dispatch, Enter, Arrive, IInv, ControlTypeOK, Barriers
  <2>2. Barriers(r)' = arrived[r] + 1
    BY <2>1 DEF Barriers, IInv, ControlTypeOK, Matrices
  <2>3. BarrierOpen(r)
    BY <2>1, PastBarrier DEF AtBarrier
  <2>4. Moves(r, iter[r] + 1, "prefetch", 1, 1)
    BY <2>1, <2>2, <2>3 DEF Moves, Stages, AtBarrier, Matrices
  <2> QED
    BY <2>4, MovePreserves, <2>3
<1>2. ASSUME NEW r \in Ranks, PrefetchTile(r) \/ AddSlot(r) \/ ClearTile(r) PROVE IInv'
  BY <1>2, StayPreserves DEF PrefetchTile, AddSlot, ClearTile
<1>3. ASSUME NEW r \in Ranks, PrefetchEnds(r) PROVE IInv'
  <2>1. /\ pc[r] = "prefetch" /\ BarrierOpen(r)
        /\ iter' = iter /\ arrived' = arrived /\ matrix[r] \in Matrices
        /\ iter[r] \in Nat /\ arrived[r] = 7 * (iter[r] - 1) + 1
    BY <1>3 DEF PrefetchEnds, At, AtBarrier, IInv, ControlTypeOK, Barriers
  <2>2. /\ iter' = [iter EXCEPT ![r] = iter[r]]
        /\ arrived' = [arrived EXCEPT ![r] = @ + 0]
    BY <2>1 DEF IInv, ControlTypeOK
  <2>3. CASE matrix[r] < 3
    <3>1. /\ pc' = [pc EXCEPT ![r] = "prefetch"]
          /\ matrix' = [matrix EXCEPT ![r] = matrix[r] + 1]
      BY <1>3, <2>3 DEF PrefetchEnds, Enter
    <3>2. Barriers(r)' = arrived[r] + 0 /\ matrix[r] + 1 \in Matrices
      BY <2>1, <2>3, <3>1 DEF Barriers, IInv, ControlTypeOK, Matrices
    <3>3. Moves(r, iter[r], "prefetch", matrix[r] + 1, 0)
      BY <2>1, <2>2, <3>1, <3>2 DEF Moves, Stages, AtBarrier, Matrices
    <3> QED
      BY <3>3, MovePreserves, <2>1
  <2>4. CASE ~(matrix[r] < 3)
    <3>1. /\ pc' = [pc EXCEPT ![r] = "compute"]
          /\ matrix' = [matrix EXCEPT ![r] = 1]
      BY <1>3, <2>4 DEF PrefetchEnds, Enter
    <3>2. Barriers(r)' = arrived[r] + 0
      BY <2>1, <3>1 DEF Barriers, IInv, ControlTypeOK, Matrices
    <3>3. Moves(r, iter[r], "compute", 1, 0)
      BY <1>0, Zenon, <2>1, <2>2, <3>1, <3>2 DEF Moves, Stages, AtBarrier
    <3> QED
      BY <3>3, MovePreserves, <2>1
  <2> QED
    BY <2>3, <2>4
<1>4. ASSUME NEW r \in Ranks, Compute(r) PROVE IInv'
  <2>1. /\ pc[r] = "compute" /\ iter' = iter
        /\ iter[r] \in Nat /\ arrived[r] = 7 * (iter[r] - 1) + 1
        /\ pc' = [pc EXCEPT ![r] = "accumulate"]
        /\ matrix' = [matrix EXCEPT ![r] = 1]
        /\ arrived' = [arrived EXCEPT ![r] = @ + 1]
    BY <1>4 DEF Compute, Enter, Arrive, IInv, ControlTypeOK, Barriers
  <2>2. Barriers(r)' = arrived[r] + 1 /\ iter' = [iter EXCEPT ![r] = iter[r]]
    BY <2>1 DEF Barriers, IInv, ControlTypeOK, Matrices
  <2>3. BarrierOpen(r)
    BY <2>1, PastBarrier DEF AtBarrier
  <2>4. Moves(r, iter[r], "accumulate", 1, 1)
    BY <1>0, <2>1, <2>2, <2>3 DEF Moves, Stages, AtBarrier
  <2> QED
    BY <2>4, MovePreserves, <2>3
<1>5. ASSUME NEW r \in Ranks, AddingEnds(r) PROVE IInv'
  <2>1. /\ pc[r] = "accumulate" /\ BarrierOpen(r) /\ iter' = iter
        /\ iter[r] \in Nat /\ matrix[r] \in Matrices
        /\ arrived[r] = 7 * (iter[r] - 1) + 2 * matrix[r]
        /\ pc' = [pc EXCEPT ![r] = "clear"]
        /\ matrix' = [matrix EXCEPT ![r] = matrix[r]]
        /\ arrived' = [arrived EXCEPT ![r] = @ + 1]
    BY <1>5 DEF AddingEnds, At, AtBarrier, Enter, Arrive, IInv, ControlTypeOK, Barriers
  <2>2. Barriers(r)' = arrived[r] + 1 /\ iter' = [iter EXCEPT ![r] = iter[r]]
    BY <2>1 DEF Barriers, IInv, ControlTypeOK, Matrices
  <2>3. Moves(r, iter[r], "clear", matrix[r], 1)
    BY <2>1, <2>2 DEF Moves, Stages, AtBarrier, Matrices
  <2> QED
    BY <2>3, MovePreserves, <2>1
<1>6. ASSUME NEW r \in Ranks, ClearingEnds(r) PROVE IInv'
  <2>1. /\ pc[r] = "clear" /\ BarrierOpen(r) /\ iter' = iter
        /\ iter[r] \in Nat /\ matrix[r] \in Matrices
        /\ arrived[r] = 7 * (iter[r] - 1) + 2 * matrix[r] + 1
    BY <1>6 DEF ClearingEnds, At, AtBarrier, IInv, ControlTypeOK, Barriers
  <2>2. iter' = [iter EXCEPT ![r] = iter[r]]
    BY <2>1 DEF IInv, ControlTypeOK
  <2>3. CASE matrix[r] < 3
    <3>1. /\ pc' = [pc EXCEPT ![r] = "accumulate"]
          /\ matrix' = [matrix EXCEPT ![r] = matrix[r] + 1]
          /\ arrived' = [arrived EXCEPT ![r] = @ + 1]
      BY <1>6, <2>3 DEF ClearingEnds, Enter, Arrive
    <3>2. Barriers(r)' = arrived[r] + 1 /\ matrix[r] + 1 \in Matrices
      BY <2>1, <2>3, <3>1 DEF Barriers, IInv, ControlTypeOK, Matrices
    <3>3. Moves(r, iter[r], "accumulate", matrix[r] + 1, 1)
      BY <2>1, <2>2, <3>1, <3>2 DEF Moves, Stages, AtBarrier, Matrices
    <3> QED
      BY <3>3, MovePreserves, <2>1
  <2>4. CASE ~(matrix[r] < 3)
    <3>1. /\ pc' = [pc EXCEPT ![r] = "update"]
          /\ matrix' = [matrix EXCEPT ![r] = 1]
          /\ arrived' = [arrived EXCEPT ![r] = @ + 0]
      BY <1>6, <2>4 DEF ClearingEnds, Enter, IInv, ControlTypeOK
    <3>2. Barriers(r)' = arrived[r] + 0
      BY <2>1, <2>4, <3>1 DEF Barriers, IInv, ControlTypeOK, Matrices
    <3>3. Moves(r, iter[r], "update", 1, 0)
      BY <1>0, Zenon, <2>1, <2>2, <3>1, <3>2 DEF Moves, Stages, AtBarrier
    <3> QED
      BY <3>3, MovePreserves, <2>1
  <2> QED
    BY <2>3, <2>4
<1>7. ASSUME NEW r \in Ranks, Update(r) PROVE IInv'
  <2>1. /\ pc[r] = "update" /\ iter' = iter /\ arrived' = arrived
        /\ iter[r] \in Nat /\ matrix[r] \in Matrices /\ arrived[r] = 7 * iter[r]
    BY <1>7 DEF Update, IInv, ControlTypeOK, Barriers
  <2>2. /\ iter' = [iter EXCEPT ![r] = iter[r]]
        /\ arrived' = [arrived EXCEPT ![r] = @ + 0]
    BY <2>1 DEF IInv, ControlTypeOK
  <2>3. PICK stage \in {"update", "idle"}, m \in Matrices :
            pc' = [pc EXCEPT ![r] = stage] /\ matrix' = [matrix EXCEPT ![r] = m]
    <3>1. CASE matrix[r] < 3
      BY <1>7, <2>1, <3>1 DEF Update, Enter, Matrices
    <3>2. CASE ~(matrix[r] < 3)
      BY <1>7, <1>0, <3>2 DEF Update, Enter
    <3> QED
      BY <3>1, <3>2
  <2>4. Barriers(r)' = arrived[r] + 0
    BY <2>1, <2>3 DEF Barriers, IInv, ControlTypeOK, Matrices
  <2>5. BarrierOpen(r)
    BY <2>1, PastBarrier DEF AtBarrier
  <2>6. Moves(r, iter[r], stage, m, 0)
    BY <2>2, <2>3, <2>4, <2>5, <2>1 DEF Moves, Stages, AtBarrier, Matrices
  <2> QED
    BY <2>6, MovePreserves, <2>5
<1>8. CASE UNCHANGED vars
  BY <1>8, StayPreserves DEF vars
<1> QED
  BY <1>1, <1>2, <1>3, <1>4, <1>5, <1>6, <1>7, <1>8 DEF Next, Step
-----------------------------------------------------------------------------
\* Two ranks that are both past their barriers have arrived at as many, and are
\* thus between the same two.
LEMMA SameBarrier ==
    ASSUME IInv, NEW r \in Ranks, NEW q \in Ranks, BarrierOpen(r), BarrierOpen(q)
    PROVE  Barriers(r) = Barriers(q)
<1>1. /\ arrived[r] \in Nat /\ arrived[q] \in Nat
      /\ arrived[r] = Barriers(r) /\ arrived[q] = Barriers(q)
  BY DEF IInv, ControlTypeOK
<1> QED
  BY <1>1 DEF BarrierOpen

\* While a rank adds up what its peers left in their slots nobody changes a slot,
\* and while it copies weights nobody updates one: whoever would is between two
\* other barriers, for any number of ranks and any plan.
THEOREM ReadersSafe == Spec => ReadersUndisturbed
<1>1. IInv /\ [Next]_vars =>
        [\A r \in Ranks : /\ At(r, "accumulate") => UNCHANGED slotGrad
                          /\ At(r, "prefetch") => UNCHANGED weight]_vars
  <2> SUFFICES ASSUME IInv, [Next]_vars, NEW r \in Ranks
               PROVE  /\ At(r, "accumulate") => UNCHANGED slotGrad
                      /\ At(r, "prefetch") => UNCHANGED weight
    OBVIOUS
  <2>1. ASSUME NEW q \in Ranks, Dispatch(q) \/ PrefetchTile(q) \/ PrefetchEnds(q)
                    \/ AddSlot(q) \/ AddingEnds(q) \/ ClearingEnds(q)
        PROVE  UNCHANGED slotGrad /\ UNCHANGED weight
    BY <2>1 DEF Dispatch, PrefetchTile, PrefetchEnds, AddSlot, AddingEnds, ClearingEnds,
                tensors
  <2>2. ASSUME NEW q \in Ranks, Compute(q)
        PROVE  ~At(r, "accumulate") /\ UNCHANGED weight
    <3>1. pc[q] = "compute" /\ UNCHANGED weight /\ BarrierOpen(q)
      BY <2>2, PastBarrier DEF Compute, AtBarrier
    <3>2. ASSUME At(r, "accumulate") PROVE FALSE
      <4>1. pc[r] = "accumulate" /\ Barriers(r) = Barriers(q)
        BY <3>1, <3>2, SameBarrier DEF At, AtBarrier
      <4>2. 7 * (iter[r] - 1) + 2 * matrix[r] = 7 * (iter[q] - 1) + 1
        BY <3>1, <4>1 DEF Barriers
      <4>3. iter[r] \in Nat /\ iter[q] \in Nat /\ matrix[r] \in 1 .. 3
        BY DEF IInv, ControlTypeOK, Matrices
      <4> QED
        BY <4>2, <4>3
    <3> QED
      BY <3>1, <3>2
  <2>3. ASSUME NEW q \in Ranks, ClearTile(q)
        PROVE  ~At(r, "accumulate") /\ UNCHANGED weight
    <3>1. pc[q] = "clear" /\ UNCHANGED weight /\ BarrierOpen(q)
      BY <2>3 DEF ClearTile, At, AtBarrier
    <3>2. ASSUME At(r, "accumulate") PROVE FALSE
      <4>1. pc[r] = "accumulate" /\ Barriers(r) = Barriers(q)
        BY <3>1, <3>2, SameBarrier DEF At, AtBarrier
      <4> QED
        BY <3>1, <4>1 DEF Barriers, IInv, ControlTypeOK, Matrices
    <3> QED
      BY <3>1, <3>2
  <2>4. ASSUME NEW q \in Ranks, Update(q)
        PROVE  ~At(r, "prefetch") /\ UNCHANGED slotGrad
    <3>1. pc[q] = "update" /\ UNCHANGED slotGrad /\ BarrierOpen(q)
      BY <2>4, PastBarrier DEF Update, AtBarrier
    <3>2. ASSUME At(r, "prefetch") PROVE FALSE
      <4>1. pc[r] = "prefetch" /\ Barriers(r) = Barriers(q)
        BY <3>1, <3>2, SameBarrier DEF At, AtBarrier
      <4> QED
        BY <3>1, <4>1 DEF Barriers, IInv, ControlTypeOK, Matrices
    <3> QED
      BY <3>1, <3>2
  <2>5. CASE UNCHANGED vars
    BY <2>5 DEF vars, tensors
  <2> QED
    BY <2>1, <2>2, <2>3, <2>4, <2>5 DEF Next, Step, At
<1> QED
  BY <1>1, InitIInv, NextIInv, PTL DEF Spec, ReadersUndisturbed
-----------------------------------------------------------------------------
\* How often the owner has updated matrix m of its experts.
UpdatesOf(r, m) ==
    IF pc[r] = "idle" \/ (pc[r] = "update" /\ m < matrix[r]) THEN iter[r] ELSE iter[r] - 1

\* Tile t of matrix m is in slot b of rank r already.
CopyDone(r, b, m, t) ==
    \/ pc[r] = "compute"
    \/ pc[r] = "prefetch" /\ (m < matrix[r] \/ (m = matrix[r] /\ <<b, t>> \notin todo[r]))

WeightTypeOK ==
    /\ plans \in [1 .. Iterations -> Plans]
    /\ \A r \in Ranks : iter[r] <= Iterations /\ (pc[r] # "idle" => iter[r] >= 1)
    /\ weight \in [Ranks -> [Experts -> [Matrices -> Nat]]]
    /\ slotWeight \in [Ranks -> [Slotted \X Matrices \X Tiles -> Int]]
    /\ DOMAIN todo = Ranks
    /\ \A r \in Ranks : pc[r] = "prefetch" => todo[r] \subseteq SlotWork(PlanOf(r), r)

\* A replica of an expert keeps the weights that it was made with.
Updated ==
    \A r \in Ranks, e \in Experts, m \in Matrices :
        weight[r][e][m] = IF Home(e) = r THEN UpdatesOf(r, m) ELSE 0

\* What rank r copies of expert e.
Version(r, e) == IF Memory[r][e] = Home(e) THEN iter[r] - 1 ELSE 0

Copied ==
    \A r \in Ranks, b \in Slotted, m \in Matrices, t \in Tiles :
        PlanOf(r)[r][b] # None /\ CopyDone(r, b, m, t)
            => slotWeight[r][<<b, m, t>>] = Version(r, PlanOf(r)[r][b])

WInv == IInv /\ WeightTypeOK /\ Updated /\ Copied

LEMMA HomeOfExpert == \A e \in Experts : Home(e) \in Ranks /\ e \in Owned(Home(e))
<1> SUFFICES ASSUME NEW e \in Experts PROVE Home(e) \in Ranks
  BY DEF Owned
<1>1. /\ NumRanks \in Nat \ {0} /\ ExpertsPerRank \in Nat \ {0}
      /\ e \in Nat /\ e < NumRanks * ExpertsPerRank
  BY NumRanksAssumption, ExpertsPerRankAssumption DEF Experts
<1>2. e \div ExpertsPerRank \in Nat
  BY <1>1
<1>3. e = ExpertsPerRank * (e \div ExpertsPerRank) + (e % ExpertsPerRank)
  BY <1>1
<1>4. e % ExpertsPerRank \in 0 .. (ExpertsPerRank - 1)
  BY <1>1
<1>5. e \div ExpertsPerRank < NumRanks
  <2>1. SUFFICES ASSUME e \div ExpertsPerRank >= NumRanks PROVE FALSE
    BY <1>1, <1>2
  <2>2. PICK k \in Nat : e \div ExpertsPerRank = NumRanks + k
    <3>1. (e \div ExpertsPerRank) - NumRanks \in Nat
      BY <1>1, <1>2, <2>1
    <3> QED
      BY <1>1, <1>2, <3>1
  <2>3. ExpertsPerRank * (NumRanks + k) = NumRanks * ExpertsPerRank + ExpertsPerRank * k
    BY <1>1
  <2>4. ExpertsPerRank * k \in Nat
    BY <1>1
  <2> QED
    BY <1>1, <1>3, <1>4, <2>2, <2>3, <2>4
<1> QED
  BY <1>2, <1>5, <1>1 DEF Home, Ranks

\* While a rank copies weights or computes with them each owner is in the same step
\* and has not come to its update.
LEMMA OwnersInStep ==
    ASSUME IInv, NEW r \in Ranks, At(r, "prefetch") \/ pc[r] = "compute", NEW q \in Ranks
    PROVE  iter[q] = iter[r] /\ pc[q] \notin {"idle", "update"}
<1>1. /\ pc[r] \in {"prefetch", "compute"}
      /\ arrived[q] >= arrived[r] /\ arrived[r] >= arrived[q] - 1
      /\ arrived[r] \in Nat /\ arrived[q] \in Nat
  BY DEF At, AtBarrier, BarrierOpen, IInv, InStep, ControlTypeOK
<1>2. arrived[r] = 7 * (iter[r] - 1) + 1 /\ iter[r] \in Nat /\ iter[q] \in Nat
  BY <1>1 DEF IInv, Barriers, ControlTypeOK
<1>3. matrix[q] \in 1 .. 3 /\ pc[q] \in Stages
  BY DEF IInv, ControlTypeOK, Matrices
<1>4. CASE pc[q] \in {"idle", "update"}
  <2>1. arrived[q] = 7 * iter[q]
    BY <1>4 DEF IInv, Barriers
  <2> QED
    BY <1>1, <1>2, <1>3, <2>1
<1>5. CASE pc[q] \in {"prefetch", "compute"}
  <2>1. arrived[q] = 7 * (iter[q] - 1) + 1
    BY <1>5 DEF IInv, Barriers
  <2>2. iter[q] = iter[r]
    BY <1>1, <1>2, <2>1
  <2> QED
    BY <1>5, <2>2
<1>6. CASE pc[q] = "accumulate"
  <2>1. arrived[q] = 7 * (iter[q] - 1) + 2 * matrix[q]
    BY <1>6 DEF IInv, Barriers
  <2> QED
    BY <1>1, <1>2, <1>3, <1>6, <2>1
<1>7. CASE pc[q] = "clear"
  <2>1. arrived[q] = 7 * (iter[q] - 1) + 2 * matrix[q] + 1
    BY <1>7 DEF IInv, Barriers
  <2> QED
    BY <1>1, <1>2, <1>3, <1>7, <2>1
<1> QED
  BY <1>3, <1>4, <1>5, <1>6, <1>7 DEF Stages

\* So what the full weights of a rank hold then is what it should copy.
LEMMA FullWeightThen ==
    ASSUME WInv, NEW r \in Ranks, At(r, "prefetch") \/ pc[r] = "compute",
           NEW e \in Experts, NEW m \in Matrices
    PROVE  FullWeight(r, e, m) = Version(r, e)
<1>1. Home(e) \in Ranks /\ Memory[r][e] \in Ranks
  BY HomeOfExpert, MemoryAssumption
<1>2. UpdatesOf(Home(e), m) = iter[r] - 1
  BY <1>1, OwnersInStep DEF WInv, UpdatesOf
<1> QED
  BY <1>1, <1>2 DEF WInv, Updated, FullWeight, Version

\* What is in a slot in use is an expert.
LEMMA SlotsExpert ==
    ASSUME WInv, NEW r \in Ranks, pc[r] # "idle", NEW b \in Slotted, PlanOf(r)[r][b] # None
    PROVE  PlanOf(r)[r][b] \in Experts
<1>1. iter[r] \in 1 .. Iterations
  BY IterationsAssumption DEF WInv, WeightTypeOK, IInv, ControlTypeOK
<1>2. PlanOf(r) \in [Ranks -> [Slotted -> Experts \cup {None}]]
  BY <1>1, PlansAssumption DEF PlanOf, WInv, WeightTypeOK, Slotted
<1> QED
  BY <1>2

\* Only rank r goes on.
OnlyMoves(r) ==
    /\ plans' = plans
    /\ \A q \in Ranks \ {r} : /\ iter'[q] = iter[q] /\ pc'[q] = pc[q]
                              /\ matrix'[q] = matrix[q] /\ todo'[q] = todo[q]

LEMMA UpdatedKept ==
    ASSUME WInv, NEW r \in Ranks, OnlyMoves(r), UNCHANGED weight,
           \A m \in Matrices : UpdatesOf(r, m)' = UpdatesOf(r, m)
    PROVE  Updated'
<1> SUFFICES ASSUME NEW q \in Ranks, NEW e \in Experts, NEW m \in Matrices
             PROVE  weight[q][e][m] = IF Home(e) = q THEN UpdatesOf(q, m)' ELSE 0
  BY DEF Updated
<1>1. weight[q][e][m] = IF Home(e) = q THEN UpdatesOf(q, m) ELSE 0
  BY DEF WInv, Updated
<1>2. CASE q = r
  BY <1>1, <1>2
<1>3. CASE q # r
  BY <1>1, <1>3 DEF UpdatesOf, OnlyMoves
<1> QED
  BY <1>2, <1>3

LEMMA CopiedKept ==
    ASSUME WInv, NEW r \in Ranks, OnlyMoves(r), UNCHANGED slotWeight,
           \A b \in Slotted, m \in Matrices, t \in Tiles :
               (PlanOf(r)[r][b] # None /\ CopyDone(r, b, m, t))'
                   => /\ PlanOf(r)[r][b] # None /\ CopyDone(r, b, m, t)
                      /\ iter'[r] = iter[r]
    PROVE  Copied'
<1> SUFFICES ASSUME NEW q \in Ranks, NEW b \in Slotted, NEW m \in Matrices, NEW t \in Tiles,
                    (PlanOf(q)[q][b] # None /\ CopyDone(q, b, m, t))'
             PROVE  slotWeight[q][<<b, m, t>>] = Version(q, PlanOf(q)[q][b])'
  BY DEF Copied
<1>1. CASE q = r
  <2>1. PlanOf(r)[r][b] # None /\ CopyDone(r, b, m, t) /\ iter'[r] = iter[r]
    BY <1>1
  <2>2. PlanOf(r)' = PlanOf(r)
    BY <2>1 DEF PlanOf, OnlyMoves
  <2> QED
    BY <1>1, <2>1, <2>2 DEF WInv, Copied, Version
<1>2. CASE q # r
  <2>1. /\ PlanOf(q)[q][b] # None /\ CopyDone(q, b, m, t) /\ iter'[q] = iter[q]
        /\ PlanOf(q)' = PlanOf(q)
    BY <1>2 DEF PlanOf, CopyDone, OnlyMoves
  <2> QED
    BY <2>1 DEF WInv, Copied, Version
<1> QED
  BY <1>1, <1>2

LEMMA NextWInv == WInv /\ [Next]_vars => WInv'
<1> SUFFICES ASSUME WInv, [Next]_vars PROVE WInv'
  OBVIOUS
<1> USE DEF Matrices
<1>0. IInv'
  BY NextIInv DEF WInv
<1>1. ASSUME NEW r \in Ranks, Dispatch(r) PROVE WInv'
  <2>1. /\ OnlyMoves(r) /\ pc[r] = "idle" /\ pc'[r] = "prefetch"
        /\ iter'[r] = iter[r] + 1 /\ iter[r] < Iterations /\ iter[r] \in Nat
        /\ matrix'[r] = 1 /\ todo'[r] = SlotWork(plans[iter'[r]], r) /\ DOMAIN todo' = Ranks
        /\ UNCHANGED <<weight, slotWeight>>
    BY <1>1 DEF Dispatch, Enter, OnlyMoves, WInv, IInv, ControlTypeOK, WeightTypeOK, tensors
  <2>2. WeightTypeOK'
    <3>1. \A q \in Ranks : iter'[q] <= Iterations /\ (pc'[q] # "idle" => iter'[q] >= 1)
      <4>1. iter'[r] <= Iterations /\ iter'[r] >= 1
        BY <2>1, IterationsAssumption
      <4>2. \A q \in Ranks \ {r} : iter'[q] <= Iterations /\ (pc'[q] # "idle" => iter'[q] >= 1)
        BY <2>1 DEF WInv, WeightTypeOK, OnlyMoves
      <4> QED
        BY <4>1, <4>2
    <3>2. \A q \in Ranks : pc'[q] = "prefetch" => todo'[q] \subseteq SlotWork(PlanOf(q)', q)
      BY <2>1 DEF WInv, WeightTypeOK, OnlyMoves, PlanOf
    <3> QED
      BY <2>1, <3>1, <3>2 DEF WInv, WeightTypeOK, OnlyMoves
  <2>3. Updated'
    BY <2>1, UpdatedKept DEF UpdatesOf
  <2>4. Copied'
    <3>1. ASSUME NEW b \in Slotted, NEW m \in Matrices, NEW t \in Tiles,
                 (PlanOf(r)[r][b] # None /\ CopyDone(r, b, m, t))'
          PROVE  FALSE
      BY <2>1, <3>1 DEF CopyDone, PlanOf, SlotWork, OnlyMoves
    <3> QED
      BY <2>1, <3>1, CopiedKept
  <2> QED
    BY <1>0, <2>2, <2>3, <2>4 DEF WInv
<1>2. ASSUME NEW r \in Ranks, PrefetchTile(r) PROVE WInv'
  <2>1. PICK b \in Slotted, t \in Tiles :
            /\ <<b, t>> \in todo[r]
            /\ slotWeight' = [slotWeight EXCEPT ![r][<<b, matrix[r], t>>] =
                    FullWeight(r, PlanOf(r)[r][b], matrix[r])]
            /\ Done(r, <<b, t>>)
    BY <1>2 DEF PrefetchTile
  <2>2. /\ At(r, "prefetch") /\ pc[r] = "prefetch" /\ OnlyMoves(r) /\ DOMAIN todo' = Ranks
        /\ iter' = iter /\ pc' = pc /\ matrix' = matrix /\ weight' = weight
        /\ todo'[r] = todo[r] \ {<<b, t>>}
    BY <1>2, <2>1 DEF PrefetchTile, At, Done, OnlyMoves, WInv, WeightTypeOK
  <2> DEFINE v == Version(r, PlanOf(r)[r][b])
  <2>3. FullWeight(r, PlanOf(r)[r][b], matrix[r]) = v
    <3>1. <<b, t>> \in SlotWork(PlanOf(r), r)
      BY <2>1, <2>2 DEF WInv, WeightTypeOK
    <3>2. PlanOf(r)[r][b] \in Experts
      BY <2>2, <3>1, SlotsExpert DEF SlotWork
    <3> QED
      BY <2>2, <3>2, FullWeightThen DEF WInv, IInv, ControlTypeOK
  <2>4. slotWeight' = [slotWeight EXCEPT ![r][<<b, matrix[r], t>>] = v]
    BY <2>1, <2>3
  <2>5. WeightTypeOK'
    <3>1. slotWeight' \in [Ranks -> [Slotted \X Matrices \X Tiles -> Int]]
      <4> DEFINE X == Slotted \X Matrices \X Tiles
      <4>1. <<b, matrix[r], t>> \in X /\ v \in Int
        BY DEF WInv, IInv, ControlTypeOK, Version
      <4>2. slotWeight \in [Ranks -> [X -> Int]]
        BY DEF WInv, WeightTypeOK
      <4>3. [slotWeight[r] EXCEPT ![<<b, matrix[r], t>>] = v] \in [X -> Int]
        BY <4>1, <4>2
      <4> QED
        BY <2>4, <4>2, <4>3
    <3>2. \A q \in Ranks : pc'[q] = "prefetch" => todo'[q] \subseteq SlotWork(PlanOf(q)', q)
      BY <2>2 DEF WInv, WeightTypeOK, OnlyMoves, PlanOf
    <3> QED
      BY <2>2, <3>1, <3>2 DEF WInv, WeightTypeOK, OnlyMoves
  <2>6. Updated'
    BY <2>2, UpdatedKept DEF UpdatesOf
  <2>7. Copied'
    <3> SUFFICES ASSUME NEW q \in Ranks, NEW d \in Slotted, NEW m \in Matrices, NEW u \in Tiles,
                        (PlanOf(q)[q][d] # None /\ CopyDone(q, d, m, u))'
                 PROVE  slotWeight'[q][<<d, m, u>>] = Version(q, PlanOf(q)[q][d])
      BY <2>2 DEF Copied, Version, PlanOf, OnlyMoves
    <3>1. CASE q = r /\ <<d, m, u>> = <<b, matrix[r], t>>
      BY <2>4, <3>1 DEF WInv, WeightTypeOK
    <3>2. CASE ~(q = r /\ <<d, m, u>> = <<b, matrix[r], t>>)
      <4>1. slotWeight'[q][<<d, m, u>>] = slotWeight[q][<<d, m, u>>]
        BY <2>4, <3>2 DEF WInv, WeightTypeOK
      <4>2. PlanOf(q)[q][d] # None /\ CopyDone(q, d, m, u)
        BY <2>2, <3>2 DEF CopyDone, PlanOf, OnlyMoves
      <4> QED
        BY <4>1, <4>2 DEF WInv, Copied
    <3> QED
      BY <3>1, <3>2
  <2> QED
    BY <1>0, <2>5, <2>6, <2>7 DEF WInv
<1>3. ASSUME NEW r \in Ranks, PrefetchEnds(r) PROVE WInv'
  <2>1. /\ OnlyMoves(r) /\ pc[r] = "prefetch" /\ iter' = iter /\ DOMAIN todo' = Ranks
        /\ todo[r] = {} /\ UNCHANGED <<weight, slotWeight>>
        /\ \/ /\ pc'[r] = "prefetch" /\ matrix[r] < 3 /\ matrix'[r] = matrix[r] + 1
              /\ todo'[r] = SlotWork(PlanOf(r), r)
           \/ pc'[r] = "compute" /\ ~(matrix[r] < 3) /\ matrix'[r] = 1
    BY <1>3 DEF PrefetchEnds, At, Enter, OnlyMoves, WInv, IInv, ControlTypeOK, WeightTypeOK,
                tensors
  <2>2. WeightTypeOK'
    BY <2>1 DEF WInv, WeightTypeOK, OnlyMoves, PlanOf
  <2>3. Updated'
    BY <2>1, UpdatedKept DEF UpdatesOf
  <2>4. Copied'
    <3>1. ASSUME NEW b \in Slotted, NEW m \in Matrices, NEW t \in Tiles,
                 (PlanOf(r)[r][b] # None /\ CopyDone(r, b, m, t))'
          PROVE  PlanOf(r)[r][b] # None /\ CopyDone(r, b, m, t)
      <4>1. PlanOf(r)[r][b] # None /\ matrix[r] \in 1 .. 3
        BY <2>1, <3>1 DEF PlanOf, OnlyMoves, WInv, IInv, ControlTypeOK
      <4>2. m <= matrix[r]
        BY <2>1, <3>1, <4>1 DEF CopyDone, SlotWork
      <4> QED
        BY <2>1, <4>1, <4>2 DEF CopyDone
    <3> QED
      BY <2>1, <3>1, CopiedKept
  <2> QED
    BY <1>0, <2>2, <2>3, <2>4 DEF WInv
<1>4. ASSUME NEW r \in Ranks, Compute(r) \/ AddSlot(r) \/ AddingEnds(r) \/ ClearTile(r)
                  \/ ClearingEnds(r)
      PROVE  WInv'
  <2>1. /\ plans' = plans /\ iter' = iter /\ UNCHANGED <<weight, slotWeight>>
        /\ pc[r] \in {"compute", "accumulate", "clear"}
    BY <1>4 DEF Compute, AddSlot, AddingEnds, ClearTile, ClearingEnds, At, tensors
  <2>2. pc'[r] \in {"accumulate", "clear", "update"} /\ (pc'[r] = "update" => matrix'[r] = 1)
    BY <1>4 DEF Compute, AddSlot, AddingEnds, ClearTile, ClearingEnds, At, Enter,
                WInv, IInv, ControlTypeOK
  <2>3. \A q \in Ranks \ {r} : pc'[q] = pc[q] /\ matrix'[q] = matrix[q]
    BY <1>4 DEF Compute, AddSlot, AddingEnds, ClearTile, ClearingEnds, Enter,
                WInv, IInv, ControlTypeOK
  <2>4. DOMAIN todo' = Ranks /\ \A q \in Ranks \ {r} : todo'[q] = todo[q]
    BY <1>4 DEF Compute, AddSlot, AddingEnds, ClearTile, ClearingEnds, Enter, Done,
                WInv, WeightTypeOK
  <2>5. OnlyMoves(r)
    BY <2>1, <2>3, <2>4 DEF OnlyMoves
  <2>6. WeightTypeOK'
    BY <2>1, <2>2, <2>3, <2>4 DEF WInv, WeightTypeOK, PlanOf
  <2>7. Updated'
    BY <2>1, <2>2, <2>5, UpdatedKept DEF UpdatesOf
  <2>8. Copied'
    BY <2>1, <2>2, <2>5, CopiedKept DEF CopyDone
  <2> QED
    BY <1>0, <2>6, <2>7, <2>8 DEF WInv
<1>5. ASSUME NEW r \in Ranks, Update(r) PROVE WInv'
  <2>1. /\ OnlyMoves(r) /\ pc[r] = "update" /\ iter' = iter /\ DOMAIN todo' = Ranks
        /\ UNCHANGED slotWeight
        /\ \/ pc'[r] = "update" /\ matrix[r] < 3 /\ matrix'[r] = matrix[r] + 1
           \/ pc'[r] = "idle" /\ ~(matrix[r] < 3)
    BY <1>5 DEF Update, Enter, OnlyMoves, WInv, IInv, ControlTypeOK, WeightTypeOK
  <2> DEFINE w == [e \in Experts |->
            IF e \in Owned(r) THEN [weight[r][e] EXCEPT ![matrix[r]] = @ + 1] ELSE weight[r][e]]
  <2>2. weight' = [weight EXCEPT ![r] = w]
    BY <1>5 DEF Update
  <2>3. WeightTypeOK'
    <3>1. weight' \in [Ranks -> [Experts -> [Matrices -> Nat]]]
      <4>1. w \in [Experts -> [Matrices -> Nat]]
        BY DEF WInv, WeightTypeOK, IInv, ControlTypeOK
      <4> QED
        BY <2>2, <4>1 DEF WInv, WeightTypeOK
    <3> QED
      BY <2>1, <3>1 DEF WInv, WeightTypeOK, OnlyMoves, PlanOf
  <2>4. Updated'
    <3> SUFFICES ASSUME NEW q \in Ranks, NEW e \in Experts, NEW m \in Matrices
                 PROVE  weight'[q][e][m] = IF Home(e) = q THEN UpdatesOf(q, m)' ELSE 0
      BY DEF Updated
    <3>1. weight[q][e][m] = IF Home(e) = q THEN UpdatesOf(q, m) ELSE 0
      BY DEF WInv, Updated
    <3>2. CASE q = r
      <4>1. weight'[q][e][m] = w[e][m] /\ (e \in Owned(r) <=> Home(e) = r)
        BY <2>2, <3>2 DEF WInv, WeightTypeOK, Owned
      <4>2. w[e][m] = IF Home(e) = r /\ m = matrix[r] THEN weight[r][e][m] + 1
                                                     ELSE weight[r][e][m]
        BY <4>1 DEF WInv, WeightTypeOK
      <4>3. iter[r] \in Nat /\ matrix[r] \in 1 .. 3 /\ m \in 1 .. 3
        BY DEF WInv, IInv, ControlTypeOK
      <4>4. Home(e) = r => UpdatesOf(r, m)' = IF m = matrix[r] THEN UpdatesOf(r, m) + 1
                                                             ELSE UpdatesOf(r, m)
        BY <2>1, <4>3 DEF UpdatesOf
      <4> HIDE DEF w
      <4> QED
        BY <3>1, <3>2, <4>1, <4>2, <4>4
    <3>3. CASE q # r
      <4>1. weight'[q][e][m] = weight[q][e][m]
        BY <2>2, <3>3 DEF WInv, WeightTypeOK
      <4> QED
        BY <2>1, <3>1, <3>3, <4>1 DEF UpdatesOf, OnlyMoves
    <3> QED
      BY <3>2, <3>3
  <2>5. Copied'
    BY <2>1, CopiedKept DEF CopyDone
  <2> QED
    BY <1>0, <2>3, <2>4, <2>5 DEF WInv
<1>6. CASE UNCHANGED vars
  <2>1. WeightTypeOK'
    BY <1>6 DEF vars, tensors, WInv, WeightTypeOK, PlanOf
  <2>2. Updated' /\ Copied'
    BY <1>6 DEF vars, tensors, WInv, Updated, UpdatesOf, Copied, CopyDone, PlanOf, Version
  <2> QED
    BY <1>0, <2>1, <2>2 DEF WInv
<1> QED
  BY <1>1, <1>2, <1>3, <1>4, <1>5, <1>6 DEF Next, Step

LEMMA InitWInv == Init => WInv
<1> SUFFICES ASSUME Init PROVE WInv
  OBVIOUS
<1>1. IInv
  BY InitIInv
<1>2. WeightTypeOK
  BY IterationsAssumption DEF Init, WeightTypeOK, None
<1>3. Updated /\ Copied
  BY DEF Init, Updated, UpdatesOf, Copied, CopyDone
<1> QED
  BY <1>1, <1>2, <1>3 DEF WInv

\* Whatever the pace of the ranks, an expert is computed with the weights that the
\* rank's full weights have for it; and where these are the owner's, the owner has
\* updated them in all steps before and not yet in this one.
THEOREM WeightsUpToDate == Spec => []WeightsCurrent
<1>1. WInv => WeightsCurrent
  <2> SUFFICES ASSUME WInv, NEW r \in Ranks, pc[r] = "compute",
                      NEW b \in Slotted, NEW m \in Matrices, NEW t \in Tiles,
                      PlanOf(r)[r][b] # None
               PROVE  LET e == PlanOf(r)[r][b]
                      IN  /\ slotWeight[r][b, m, t] = FullWeight(r, e, m)
                          /\ Memory[r][e] = Home(e) => slotWeight[r][b, m, t] = iter[r] - 1
    BY DEF WeightsCurrent
  <2>1. slotWeight[r][<<b, m, t>>] = Version(r, PlanOf(r)[r][b])
    BY DEF WInv, Copied, CopyDone
  <2>2. FullWeight(r, PlanOf(r)[r][b], m) = Version(r, PlanOf(r)[r][b])
    BY SlotsExpert, FullWeightThen
  <2> QED
    BY <2>1, <2>2 DEF Version
<1> QED
  BY <1>1, InitWInv, NextWInv, PTL DEF Spec
-----------------------------------------------------------------------------
(* The holders of an expert, sorted by rank and slot. *)

LEMMA HeldFinite ==
    ASSUME NEW p, NEW e
    PROVE  /\ IsFiniteSet(HeldBy(p, e)) /\ Cardinality(HeldBy(p, e)) \in Nat
           /\ HeldBy(p, e) \subseteq Ranks \X Slotted
<1>1. IsFiniteSet(Ranks) /\ IsFiniteSet(Slotted)
  BY NumRanksAssumption, SlotsAssumption, PrefetchAssumption, FS_Interval DEF Ranks, Slotted
<1>2. IsFiniteSet(Ranks \X Slotted)
  BY <1>1, FS_Product
<1>3. HeldBy(p, e) \subseteq Ranks \X Slotted
  BY DEF HeldBy
<1>4. IsFiniteSet(HeldBy(p, e))
  BY <1>2, <1>3, FS_Subset
<1> QED
  BY <1>3, <1>4, FS_CardinalityType

LEMMA BeforeOrders ==
    ASSUME NEW x \in Ranks \X Slotted, NEW y \in Ranks \X Slotted
    PROVE  /\ ~Before(x, x)
           /\ x = y \/ Before(x, y) \/ Before(y, x)
           /\ \A z \in Ranks \X Slotted : Before(x, y) /\ Before(y, z) => Before(x, z)
<1>1. Ranks \subseteq Int /\ Slotted \subseteq Int
  BY DEF Ranks, Slotted
<1>2. /\ x[1] \in Int /\ x[2] \in Int /\ x = <<x[1], x[2]>>
      /\ y[1] \in Int /\ y[2] \in Int /\ y = <<y[1], y[2]>>
  <2>1. PICK a \in Ranks, b \in Slotted, c \in Ranks, d \in Slotted : x = <<a, b>> /\ y = <<c, d>>
    OBVIOUS
  <2> QED
    BY <1>1, <2>1
<1>3. ~Before(x, x)
  BY <1>2 DEF Before
<1>4. x = y \/ Before(x, y) \/ Before(y, x)
  <2>1. x[1] = y[1] /\ x[2] = y[2] => x = y
    BY <1>2
  <2> QED
    BY <1>2, <2>1 DEF Before
<1>5. ASSUME NEW z \in Ranks \X Slotted, Before(x, y), Before(y, z) PROVE Before(x, z)
  <2>1. z[1] \in Int /\ z[2] \in Int
    BY <1>1
  <2> QED
    BY <1>2, <1>5, <2>1 DEF Before
<1> QED
  BY <1>3, <1>4, <1>5

\* Of two holders the one that comes first has fewer before it.
LEMMA FewerBefore ==
    ASSUME NEW p, NEW e, NEW x \in HeldBy(p, e), NEW y \in HeldBy(p, e), Before(x, y)
    PROVE  Cardinality(HeldBefore(p, e, x)) < Cardinality(HeldBefore(p, e, y))
<1>1. PICK held : held = HeldBy(p, e) /\ held \subseteq Ranks \X Slotted /\ IsFiniteSet(held)
  BY HeldFinite
<1>2. HeldBefore(p, e, x) \subseteq HeldBefore(p, e, y)
  <2> SUFFICES ASSUME NEW z \in held, Before(z, x) PROVE Before(z, y)
    BY <1>1 DEF HeldBefore
  <2> QED
    BY <1>1, BeforeOrders
<1>3. x \in HeldBefore(p, e, y)
  BY DEF HeldBefore
<1>4. x \notin HeldBefore(p, e, x)
  BY <1>1, BeforeOrders DEF HeldBefore
<1>5. IsFiniteSet(HeldBefore(p, e, y))
  <2>1. HeldBefore(p, e, y) \subseteq held
    BY <1>1 DEF HeldBefore
  <2> QED
    BY <1>1, <2>1, FS_Subset
<1>6. /\ Cardinality(HeldBefore(p, e, x)) <= Cardinality(HeldBefore(p, e, y))
      /\ Cardinality(HeldBefore(p, e, x)) # Cardinality(HeldBefore(p, e, y))
      /\ IsFiniteSet(HeldBefore(p, e, x))
  BY <1>2, <1>3, <1>4, <1>5, FS_Subset
<1>7. /\ Cardinality(HeldBefore(p, e, x)) \in Nat /\ Cardinality(HeldBefore(p, e, y)) \in Nat
  BY <1>5, <1>6, FS_CardinalityType
<1> QED
  BY <1>6, <1>7

\* Holder x has a place in the order, between 1 and the number of holders.
Place(p, e, x) == Cardinality(HeldBefore(p, e, x)) + 1

LEMMA PlaceRange ==
    ASSUME NEW p, NEW e, NEW x \in HeldBy(p, e)
    PROVE  Place(p, e, x) \in 1 .. Cardinality(HeldBy(p, e))
<1>1. PICK held : held = HeldBy(p, e) /\ held \subseteq Ranks \X Slotted /\ IsFiniteSet(held)
                  /\ Cardinality(held) \in Nat
  BY HeldFinite
<1>2. HeldBefore(p, e, x) \subseteq held /\ x \notin HeldBefore(p, e, x) /\ x \in held
  BY <1>1, BeforeOrders DEF HeldBefore
<1>3. /\ IsFiniteSet(HeldBefore(p, e, x))
      /\ Cardinality(HeldBefore(p, e, x)) <= Cardinality(held)
      /\ Cardinality(HeldBefore(p, e, x)) # Cardinality(held)
  BY <1>1, <1>2, FS_Subset
<1>4. Cardinality(HeldBefore(p, e, x)) \in Nat
  BY <1>3, FS_CardinalityType
<1> QED
  BY <1>1, <1>3, <1>4 DEF Place

LEMMA PlacesDiffer ==
    ASSUME NEW p, NEW e, NEW x \in HeldBy(p, e), NEW y \in HeldBy(p, e),
           Place(p, e, x) = Place(p, e, y)
    PROVE  x = y
<1>1. x \in Ranks \X Slotted /\ y \in Ranks \X Slotted
  BY HeldFinite
<1>2. Place(p, e, x) \in Int /\ Place(p, e, y) \in Int
  BY PlaceRange
<1>3. ~Before(x, y) /\ ~Before(y, x)
  <2>1. Before(x, y) => Cardinality(HeldBefore(p, e, x)) < Cardinality(HeldBefore(p, e, y))
    BY FewerBefore
  <2>2. Before(y, x) => Cardinality(HeldBefore(p, e, y)) < Cardinality(HeldBefore(p, e, x))
    BY FewerBefore
  <2>3. Cardinality(HeldBefore(p, e, x)) = Cardinality(HeldBefore(p, e, y))
        /\ Cardinality(HeldBefore(p, e, x)) \in Nat
    <3>1. \A z \in HeldBy(p, e) : Cardinality(HeldBefore(p, e, z)) \in Nat
      <4> SUFFICES ASSUME NEW z \in HeldBy(p, e) PROVE Cardinality(HeldBefore(p, e, z)) \in Nat
        OBVIOUS
      <4>1. HeldBefore(p, e, z) \subseteq HeldBy(p, e) /\ IsFiniteSet(HeldBy(p, e))
        BY HeldFinite DEF HeldBefore
      <4> QED
        BY <4>1, FS_Subset, FS_CardinalityType
    <3> QED
      BY <3>1 DEF Place
  <2> QED
    BY <2>1, <2>2, <2>3
<1> QED
  BY <1>1, <1>3, BeforeOrders

LEMMA EachPlaceTaken ==
    ASSUME NEW p, NEW e, NEW n \in 1 .. Cardinality(HeldBy(p, e))
    PROVE  \E x \in HeldBy(p, e) : Place(p, e, x) = n
<1>1. PICK held, size : /\ held = HeldBy(p, e) /\ IsFiniteSet(held)
                        /\ size = Cardinality(held) /\ size \in Nat
  BY HeldFinite
<1> DEFINE place == [x \in held |-> Place(p, e, x)]
<1>2. place \in Injection(held, 1 .. size)
  <2>1. place \in [held -> 1 .. size]
    BY <1>1, PlaceRange
  <2>2. \A x, y \in held : place[x] = place[y] => x = y
    BY <1>1, PlacesDiffer
  <2> QED
    BY <2>1, <2>2 DEF Injection, IsInjective
<1>3. IsFiniteSet(1 .. size) /\ Cardinality(1 .. size) = size
  BY <1>1, FS_Interval
<1>4. place \in Surjection(held, 1 .. size)
  BY <1>1, <1>2, <1>3, FS_Injection
<1>5. n \in 1 .. size
  BY <1>1
<1>6. PICK x \in held : place[x] = n
  BY <1>4, <1>5 DEF Surjection
<1> QED
  BY <1>1, <1>6

\* Holders is the sequence of all slots that hold the expert, in their order.
LEMMA HoldersSorted ==
    ASSUME NEW p, NEW e
    PROVE  LET size == Cardinality(HeldBy(p, e))
           IN  /\ Len(Holders(p, e)) = size /\ DOMAIN Holders(p, e) = 1 .. size
               /\ \A n \in 1 .. size : /\ Holders(p, e)[n] \in HeldBy(p, e)
                                       /\ Place(p, e, Holders(p, e)[n]) = n
               /\ \A x \in HeldBy(p, e) : Holders(p, e)[Place(p, e, x)] = x
<1>1. PICK size \in Nat : size = Cardinality(HeldBy(p, e))
  BY HeldFinite
<1>2. Holders(p, e) = [n \in 1 .. size |->
          CHOOSE x \in HeldBy(p, e) : Cardinality(HeldBefore(p, e, x)) = n - 1]
  BY <1>1 DEF Holders
<1>3. Len(Holders(p, e)) = size /\ DOMAIN Holders(p, e) = 1 .. size
  BY <1>1, <1>2
<1>4. ASSUME NEW n \in 1 .. size
      PROVE  Holders(p, e)[n] \in HeldBy(p, e) /\ Place(p, e, Holders(p, e)[n]) = n
  <2>1. PICK x \in HeldBy(p, e) : Place(p, e, x) = n
    BY <1>1, EachPlaceTaken
  <2>2. Cardinality(HeldBefore(p, e, x)) \in Nat
    <3>1. HeldBefore(p, e, x) \subseteq HeldBy(p, e) /\ IsFiniteSet(HeldBy(p, e))
      BY HeldFinite DEF HeldBefore
    <3> QED
      BY <3>1, FS_Subset, FS_CardinalityType
  <2>3. Cardinality(HeldBefore(p, e, x)) = n - 1
    BY <2>1, <2>2 DEF Place
  <2>4. Holders(p, e)[n] = CHOOSE y \in HeldBy(p, e) : Cardinality(HeldBefore(p, e, y)) = n - 1
    BY <1>2
  <2>5. /\ Holders(p, e)[n] \in HeldBy(p, e)
        /\ Cardinality(HeldBefore(p, e, Holders(p, e)[n])) = n - 1
    BY <2>3, <2>4
  <2> QED
    BY <2>5 DEF Place
<1>5. ASSUME NEW x \in HeldBy(p, e) PROVE Holders(p, e)[Place(p, e, x)] = x
  <2>1. Place(p, e, x) \in 1 .. size
    BY <1>1, PlaceRange
  <2> QED
    BY <1>4, <2>1, PlacesDiffer
<1> QED
  BY <1>1, <1>3, <1>4, <1>5

LEMMA HoldersAscend ==
    ASSUME NEW p, NEW e, NEW n \in 1 .. Cardinality(HeldBy(p, e)),
           NEW m \in 1 .. Cardinality(HeldBy(p, e)), n < m
    PROVE  Before(Holders(p, e)[n], Holders(p, e)[m])
<1>1. PICK x \in HeldBy(p, e), y \in HeldBy(p, e) :
          /\ x = Holders(p, e)[n] /\ y = Holders(p, e)[m]
          /\ Place(p, e, x) = n /\ Place(p, e, y) = m
  BY HoldersSorted
<1>2. x \in Ranks \X Slotted /\ y \in Ranks \X Slotted /\ x # y
  BY <1>1, HeldFinite
<1>3. ~Before(y, x)
  <2>1. SUFFICES ASSUME Before(y, x) PROVE FALSE
    OBVIOUS
  <2>2. Cardinality(HeldBefore(p, e, y)) < Cardinality(HeldBefore(p, e, x))
    BY <2>1, FewerBefore
  <2>3. /\ HeldBefore(p, e, x) \subseteq HeldBy(p, e) /\ HeldBefore(p, e, y) \subseteq HeldBy(p, e)
        /\ IsFiniteSet(HeldBy(p, e))
    BY HeldFinite DEF HeldBefore
  <2>4. Cardinality(HeldBefore(p, e, y)) \in Nat /\ Cardinality(HeldBefore(p, e, x)) \in Nat
    BY <2>3, FS_Subset, FS_CardinalityType
  <2> QED
    BY <1>1, <2>2, <2>4 DEF Place
<1> QED
  BY <1>1, <1>2, <1>3, BeforeOrders

\* In that order rank * B + slot ascends.
LEMMA SlotsAscend ==
    ASSUME NEW x \in Ranks \X Slotted, NEW y \in Ranks \X Slotted, Before(x, y)
    PROVE  x[1] * PrefetchSlots + x[2] < y[1] * PrefetchSlots + y[2]
<1>1. PICK a, b, c, d, s : /\ a = x[1] /\ b = x[2] /\ c = y[1] /\ d = y[2] /\ s = PrefetchSlots
  OBVIOUS
<1>2. /\ s \in Nat /\ s > 0 /\ a \in Nat /\ c \in Nat /\ b \in 0 .. (s - 1) /\ d \in 0 .. (s - 1)
      /\ a < c \/ (a = c /\ b < d)
  BY <1>1, SlotsAssumption, PrefetchAssumption DEF Ranks, Slotted, Before
<1>3. a * s + b < c * s + d
  <2>1. CASE a = c
    <3>1. PICK k \in Int : k = a * s
      BY <1>2
    <3> QED
      BY <1>2, <2>1, <3>1
  <2>2. CASE a < c
    <3>1. PICK k \in Nat : c = a + 1 + k
      <4>1. c - a - 1 \in Nat /\ c = a + 1 + (c - a - 1)
        BY <1>2, <2>2
      <4> QED
        BY <4>1
    <3>2. (a + 1 + k) * s = a * s + s + k * s
      BY <1>2, <3>1
    <3>3. PICK u \in Int, v \in Nat : u = a * s /\ v = k * s
      BY <1>2, <3>1
    <3>4. c * s = u + s + v
      BY <3>1, <3>2, <3>3
    <3> QED
      BY <1>2, <3>3, <3>4
  <2> QED
    BY <1>2, <2>1, <2>2
<1> QED
  BY <1>1, <1>3

-----------------------------------------------------------------------------
(* What is in the slots and in the gradients. *)

\* What the gradient of expert e is the sum of when k of its holders were added.
SumOf(p, e, i, k) ==
    [n \in 1 .. (k + 1) |->
        IF n = 1 THEN Own(i)
        ELSE From(Holders(p, e)[n - 1][1], Holders(p, e)[n - 1][2], <<i>>)]

\* The slots that rank r uses, tile by tile and matrix by matrix, hold what it has
\* added in its step until the rank clears them.
Pending(r, b, m, t) ==
    /\ \/ pc[r] = "accumulate" /\ matrix[r] <= m
       \/ pc[r] = "clear" /\ (matrix[r] < m \/ (matrix[r] = m /\ <<b, t>> \in todo[r]))
    /\ PlanOf(r)[r][b] # None

SlotsHold(r) ==
    \A b \in Slotted, m \in Matrices, t \in Tiles :
        slotGrad[r][<<b, m, t>>] = IF Pending(r, b, m, t) THEN <<iter[r]>> ELSE <<>>

\* Of the holders of expert e the first k have been added to tile t of matrix m.
Added(r, e, m, t, k) ==
    \/ m \in Reduced(r) /\ k = Cardinality(HeldBy(PlanOf(r), e))
    \/ /\ pc[r] = "accumulate" /\ m = matrix[r]
       /\ \/ <<e, t, k + 1>> \in todo[r]
          \/ (\A n \in Nat : <<e, t, n>> \notin todo[r]) /\ k = Cardinality(HeldBy(PlanOf(r), e))
    \/ pc[r] \in {"accumulate", "clear"} /\ matrix[r] < m /\ k = 0

SumsAdded(r) ==
    \A e \in Owned(r), m \in Matrices, t \in Tiles, k \in Nat :
        Added(r, e, m, t, k) => grad[e][<<m, t>>] = SumOf(PlanOf(r), e, iter[r], k)

\* The work of rank r: each tile of an expert is at one of its holders; all slots
\* are to be cleared while peers may still read them.
WorkOK(r) ==
    /\ pc[r] = "accumulate" =>
          /\ \A x \in todo[r] :
                 \E e \in Owned(r), t \in Tiles :
                     \E n \in 1 .. Cardinality(HeldBy(PlanOf(r), e)) : x = <<e, t, n>>
          /\ \A e, t, n, k : <<e, t, n>> \in todo[r] /\ <<e, t, k>> \in todo[r] => n = k
    /\ pc[r] = "clear" =>
          /\ todo[r] \subseteq SlotWork(PlanOf(r), r)
          /\ BarrierOpen(r) \/ todo[r] = SlotWork(PlanOf(r), r)

GradTypeOK ==
    /\ DOMAIN grad = Experts
    /\ \A e \in Experts : DOMAIN grad[e] = Matrices \X Tiles
    /\ DOMAIN slotGrad = Ranks
    /\ \A r \in Ranks : DOMAIN slotGrad[r] = Slotted \X Matrices \X Tiles

GInv ==
    /\ WInv /\ GradTypeOK
    /\ \A r \in Ranks : WorkOK(r) /\ SlotsHold(r) /\ SumsAdded(r)

LEMMA SumStarts ==
    ASSUME NEW p, NEW e, NEW i PROVE SumOf(p, e, i, 0) = <<Own(i)>>
BY DEF SumOf

LEMMA SumGrows ==
    ASSUME NEW p, NEW e, NEW i, NEW k \in Nat, NEW x, x = Holders(p, e)[k + 1]
    PROVE  Append(SumOf(p, e, i, k), From(x[1], x[2], <<i>>)) = SumOf(p, e, i, k + 1)
<1>1. PICK sum, longer, next : /\ sum = SumOf(p, e, i, k) /\ longer = SumOf(p, e, i, k + 1)
                               /\ next = From(x[1], x[2], <<i>>)
  OBVIOUS
<1>2. /\ sum = [n \in 1 .. (k + 1) |-> longer[n]]
      /\ longer = [n \in 1 .. (k + 2) |-> longer[n]]
      /\ longer[k + 2] = next
  BY <1>1 DEF SumOf
<1>3. PICK S : S = {longer[n] : n \in 1 .. (k + 2)}
  OBVIOUS
<1>4. sum \in Seq(S) /\ next \in S /\ Len(sum) = k + 1
  <2>1. \A n \in 1 .. (k + 2) : longer[n] \in S
    BY <1>3
  <2>2. \A n \in 1 .. (k + 1) : longer[n] \in S
    BY <2>1
  <2>3. sum \in [1 .. (k + 1) -> S]
    BY <1>2, <2>2
  <2>4. k + 2 \in 1 .. (k + 2) /\ k + 1 \in Nat
    OBVIOUS
  <2>5. next \in S
    BY <1>2, <2>1, <2>4
  <2> QED
    BY <2>3, <2>4, <2>5
<1>5. PICK new : new = Append(sum, next)
  OBVIOUS
<1>6. /\ new \in Seq(S) /\ Len(new) = Len(sum) + 1
      /\ \A n \in 1 .. Len(sum) : new[n] = sum[n]
      /\ new[Len(sum) + 1] = next
  BY <1>4, <1>5, AppendProperties
<1>7. Len(new) = k + 2 /\ new = [n \in 1 .. (k + 2) |-> new[n]]
      /\ (\A n \in 1 .. (k + 1) : new[n] = longer[n]) /\ new[k + 2] = longer[k + 2]
  <2>1. Len(sum) = k + 1 /\ (k + 1) + 1 = k + 2
    BY <1>4
  <2>2. Len(new) = k + 2 /\ new[k + 2] = next
    BY <1>6, <2>1
  <2>3. new \in [1 .. Len(new) -> S]
    BY <1>6
  <2>4. \A n \in 1 .. (k + 1) : new[n] = longer[n]
    BY <1>2, <1>6, <2>1
  <2> QED
    BY <1>2, <2>2, <2>3, <2>4
<1>8. \A n \in 1 .. (k + 2) : new[n] = longer[n]
  <2> SUFFICES ASSUME NEW n \in 1 .. (k + 2) PROVE new[n] = longer[n]
    OBVIOUS
  <2>1. n \in 1 .. (k + 1) \/ n = k + 2
    OBVIOUS
  <2> QED
    BY <1>7, <2>1
<1>9. new = longer
  BY <1>2, <1>7, <1>8
<1> QED
  BY <1>1, <1>5, <1>9

\* While a rank adds up, each peer is in the same step and at the same matrix, and
\* has not begun to clear its slots.
LEMMA PeersReducing ==
    ASSUME IInv, NEW r \in Ranks, At(r, "accumulate"), NEW q \in Ranks
    PROVE  /\ iter[q] = iter[r] /\ matrix[q] = matrix[r]
           /\ pc[q] = "accumulate" \/ (pc[q] = "clear" /\ ~BarrierOpen(q))
<1>1. /\ pc[r] = "accumulate"
      /\ arrived[q] >= arrived[r] /\ arrived[r] >= arrived[q] - 1
      /\ arrived[r] \in Nat /\ arrived[q] \in Nat
      /\ pc[q] \notin AtBarrier => arrived[r] >= arrived[q]
  BY DEF At, AtBarrier, BarrierOpen, IInv, InStep, ControlTypeOK
<1>2. /\ arrived[r] = 7 * (iter[r] - 1) + 2 * matrix[r] /\ iter[r] \in Nat /\ iter[q] \in Nat
      /\ matrix[r] \in 1 .. 3 /\ matrix[q] \in 1 .. 3 /\ pc[q] \in Stages
  BY <1>1 DEF IInv, Barriers, ControlTypeOK, Matrices
<1>3. CASE pc[q] \in {"idle", "update"}
  <2>1. arrived[q] = 7 * iter[q] /\ arrived[q] = arrived[r]
    BY <1>1, <1>3 DEF IInv, Barriers, AtBarrier
  <2> QED
    BY <1>2, <2>1
<1>4. CASE pc[q] \in {"prefetch", "compute"}
  <2>1. arrived[q] = 7 * (iter[q] - 1) + 1
    BY <1>4 DEF IInv, Barriers
  <2> QED
    BY <1>1, <1>2, <2>1
<1>5. CASE pc[q] = "accumulate"
  <2>1. arrived[q] = 7 * (iter[q] - 1) + 2 * matrix[q]
    BY <1>5 DEF IInv, Barriers
  <2>2. iter[q] = iter[r] /\ matrix[q] = matrix[r]
    BY <1>1, <1>2, <2>1
  <2> QED
    BY <1>5, <2>2
<1>6. CASE pc[q] = "clear"
  <2>1. arrived[q] = 7 * (iter[q] - 1) + 2 * matrix[q] + 1
    BY <1>6 DEF IInv, Barriers
  <2>2. iter[q] = iter[r] /\ matrix[q] = matrix[r] /\ arrived[q] = arrived[r] + 1
    BY <1>1, <1>2, <2>1
  <2>3. ~BarrierOpen(q)
    BY <1>1, <2>2 DEF BarrierOpen
  <2> QED
    BY <1>6, <2>2, <2>3
<1> QED
  BY <1>2, <1>3, <1>4, <1>5, <1>6 DEF Stages

\* So what the holders of an expert have in their slots is what they have added in
\* this step.
LEMMA HolderHasSum ==
    ASSUME GInv, NEW r \in Ranks, At(r, "accumulate"), NEW e \in Experts,
           NEW x \in HeldBy(PlanOf(r), e), NEW t \in Tiles
    PROVE  slotGrad[x[1]][<<x[2], matrix[r], t>>] = <<iter[r]>>
<1>1. PICK q \in Ranks, b \in Slotted : x = <<q, b>> /\ PlanOf(r)[q][b] = e
  BY DEF HeldBy
<1>2. /\ iter[q] = iter[r] /\ matrix[q] = matrix[r] /\ matrix[r] \in Matrices
      /\ pc[q] = "accumulate" \/ (pc[q] = "clear" /\ ~BarrierOpen(q))
  BY PeersReducing DEF GInv, WInv, IInv, ControlTypeOK
<1>3. PlanOf(q)[q][b] # None
  <2>1. e # None
    BY NumRanksAssumption, ExpertsPerRankAssumption DEF Experts, None
  <2> QED
    BY <1>1, <1>2, <2>1 DEF PlanOf
<1>4. Pending(q, b, matrix[r], t)
  <2>1. CASE pc[q] = "accumulate"
    BY <1>2, <1>3, <2>1 DEF Pending, Matrices
  <2>2. CASE pc[q] = "clear" /\ ~BarrierOpen(q)
    <3>1. todo[q] = SlotWork(PlanOf(q), q)
      BY <2>2 DEF GInv, WorkOK
    <3>2. <<b, t>> \in todo[q]
      BY <1>3, <3>1 DEF SlotWork
    <3> QED
      BY <1>2, <1>3, <2>2, <3>2 DEF Pending
  <2> QED
    BY <1>2, <2>1, <2>2
<1>5. slotGrad[q][<<b, matrix[r], t>>] = <<iter[q]>>
  BY <1>2, <1>4 DEF GInv, SlotsHold
<1> QED
  BY <1>1, <1>2, <1>5

LEMMA OwnersDiffer ==
    ASSUME NEW r, NEW q, NEW e \in Owned(q), q # r PROVE e \notin Owned(r)
BY DEF Owned

\* What the invariant says of a rank that a step leaves where it is.
LEMMA GradsKept ==
    ASSUME GInv, NEW q \in Ranks, plans' = plans, iter'[q] = iter[q], pc'[q] = pc[q],
           matrix'[q] = matrix[q], todo'[q] = todo[q], slotGrad'[q] = slotGrad[q],
           \A e \in Owned(q) : grad'[e] = grad[e],
           BarrierOpen(q) => BarrierOpen(q)'
    PROVE  (WorkOK(q) /\ SlotsHold(q) /\ SumsAdded(q))'
<1>1. WorkOK(q) /\ SlotsHold(q) /\ SumsAdded(q) /\ PlanOf(q)' = PlanOf(q)
  BY DEF GInv, PlanOf
<1>2. WorkOK(q)'
  BY <1>1 DEF WorkOK
<1>3. SlotsHold(q)'
  <2> SUFFICES ASSUME NEW b \in Slotted, NEW m \in Matrices, NEW t \in Tiles
               PROVE  slotGrad'[q][<<b, m, t>>] = IF Pending(q, b, m, t)' THEN <<iter'[q]>> ELSE <<>>
    BY DEF SlotsHold
  <2>1. Pending(q, b, m, t)' <=> Pending(q, b, m, t)
    BY <1>1 DEF Pending
  <2>2. slotGrad[q][<<b, m, t>>] = IF Pending(q, b, m, t) THEN <<iter[q]>> ELSE <<>>
    BY <1>1 DEF SlotsHold
  <2> QED
    BY <2>1, <2>2
<1>4. SumsAdded(q)'
  <2> SUFFICES ASSUME NEW e \in Owned(q), NEW m \in Matrices, NEW t \in Tiles, NEW k \in Nat,
                      Added(q, e, m, t, k)'
               PROVE  grad'[e][<<m, t>>] = SumOf(PlanOf(q), e, iter[q], k)
    BY <1>1 DEF SumsAdded
  <2>1. Added(q, e, m, t, k)
    BY <1>1 DEF Added, Reduced
  <2> QED
    BY <1>1, <2>1 DEF SumsAdded
<1> QED
  BY <1>2, <1>3, <1>4

\* A barrier that is open stays so while its rank does not go on to the next.
LEMMA StaysOpen ==
    ASSUME IInv, NEW q \in Ranks, arrived'[q] = arrived[q], BarrierOpen(q),
           \A p \in Ranks : arrived'[p] \in Nat /\ arrived'[p] >= arrived[p]
    PROVE  BarrierOpen(q)'
BY DEF BarrierOpen, IInv, ControlTypeOK

\* A step of rank r leaves alone what the invariant says of its peers.
LEMMA RankPreserves ==
    ASSUME GInv, NEW r \in Ranks, OnlyMoves(r),
           \A q \in Ranks : arrived'[q] \in Nat /\ arrived'[q] >= arrived[q],
           \A q \in Ranks \ {r} : /\ arrived'[q] = arrived[q] /\ slotGrad'[q] = slotGrad[q]
                                  /\ \A e \in Owned(q) : grad'[e] = grad[e],
           WInv', GradTypeOK', WorkOK(r)', SlotsHold(r)', SumsAdded(r)'
    PROVE  GInv'
<1>1. ASSUME NEW q \in Ranks PROVE (WorkOK(q) /\ SlotsHold(q) /\ SumsAdded(q))'
  <2>1. CASE q = r
    BY <2>1
  <2>2. CASE q # r
    <3>1. IInv
      BY DEF GInv, WInv
    <3>2. BarrierOpen(q) => BarrierOpen(q)'
      BY <2>2, <3>1, StaysOpen
    <3> QED
      BY <2>2, <3>2, GradsKept DEF OnlyMoves
  <2> QED
    BY <2>1, <2>2
<1> QED
  BY <1>1 DEF GInv

\* Where nothing is pending and nothing reduced, before and after.
LEMMA NothingAdded ==
    ASSUME GInv, NEW r \in Ranks, pc[r] \notin {"accumulate", "clear"},
           pc'[r] \notin {"accumulate", "clear", "update"}, slotGrad'[r] = slotGrad[r]
    PROVE  WorkOK(r)' /\ SlotsHold(r)' /\ SumsAdded(r)'
<1>1. WorkOK(r)'
  BY DEF WorkOK
<1>2. SlotsHold(r)'
  <2> SUFFICES ASSUME NEW b \in Slotted, NEW m \in Matrices, NEW t \in Tiles
               PROVE  slotGrad'[r][<<b, m, t>>] = IF Pending(r, b, m, t)' THEN <<iter'[r]>> ELSE <<>>
    BY DEF SlotsHold
  <2>1. ~Pending(r, b, m, t)' /\ ~Pending(r, b, m, t)
    BY DEF Pending
  <2>2. slotGrad[r][<<b, m, t>>] = IF Pending(r, b, m, t) THEN <<iter[r]>> ELSE <<>>
    BY DEF GInv, SlotsHold
  <2> QED
    BY <2>1, <2>2
<1>3. SumsAdded(r)'
  BY DEF SumsAdded, Added, Reduced
<1> QED
  BY <1>1, <1>2, <1>3

\* A rank that begins to add up a matrix has the first holder of each expert to do,
\* and has added none.
LEMMA AddingStarts ==
    ASSUME NEW r \in Ranks, pc'[r] = "accumulate", todo'[r] = ExpertWork(PlanOf(r)', r)
    PROVE  /\ WorkOK(r)'
           /\ \A e \in Owned(r), m \in Matrices, t \in Tiles, k \in Nat :
                  Added(r, e, m, t, k)' /\ m \notin Reduced(r)' => k = 0
<1>1. PICK p : p = PlanOf(r)'
  OBVIOUS
<1>2. WorkOK(r)'
  <2>1. ASSUME NEW x \in ExpertWork(p, r)
        PROVE  \E e \in Owned(r), t \in Tiles :
                   \E n \in 1 .. Cardinality(HeldBy(p, e)) : x = <<e, t, n>>
    <3>1. PICK e \in Owned(r), t \in Tiles : x = <<e, t, 1>> /\ Holders(p, e) # <<>>
      BY DEF ExpertWork
    <3>2. Cardinality(HeldBy(p, e)) \in Nat
      BY HeldFinite
    <3>3. Cardinality(HeldBy(p, e)) # 0
      BY <3>1, <3>2 DEF Holders
    <3>4. 1 \in 1 .. Cardinality(HeldBy(p, e))
      BY <3>2, <3>3
    <3> QED
      BY <3>1, <3>4
  <2>2. \A e, t, n, k : <<e, t, n>> \in ExpertWork(p, r) /\ <<e, t, k>> \in ExpertWork(p, r) => n = k
    BY DEF ExpertWork
  <2> QED
    BY <1>1, <2>1, <2>2 DEF WorkOK
<1>3. ASSUME NEW e \in Owned(r), NEW m \in Matrices, NEW t \in Tiles, NEW k \in Nat,
             Added(r, e, m, t, k)', m \notin Reduced(r)'
      PROVE  k = 0
  <2>1. CASE <<e, t, k + 1>> \in todo'[r]
    BY <2>1 DEF ExpertWork
  <2>2. CASE /\ \A n \in Nat : <<e, t, n>> \notin todo'[r]
             /\ k = Cardinality(HeldBy(PlanOf(r), e))'
    <3>1. Holders(p, e) = <<>>
      BY <1>1, <2>2 DEF ExpertWork
    <3>2. k = Cardinality(HeldBy(p, e))
      BY <1>1, <2>2
    <3>3. Len(Holders(p, e)) = k
      BY <3>2, HoldersSorted
    <3> QED
      BY <3>1, <3>3
  <2> QED
    BY <1>3, <2>1, <2>2 DEF Added
<1> QED
  BY <1>2, <1>3

LEMMA ComputePreserves ==
    ASSUME GInv, WInv', NEW r \in Ranks, Compute(r) PROVE GInv'
<1>1. /\ IInv /\ WeightTypeOK /\ GradTypeOK /\ SlotsHold(r)
      /\ iter \in [Ranks -> Nat] /\ arrived \in [Ranks -> Nat] /\ pc \in [Ranks -> Stages]
      /\ matrix \in [Ranks -> Matrices] /\ DOMAIN todo = Ranks
  BY DEF GInv, WInv, IInv, ControlTypeOK, WeightTypeOK
<1>2. PICK p, i : p = PlanOf(r) /\ i = iter[r]
  OBVIOUS
<1>3. /\ pc[r] = "compute" /\ plans' = plans /\ iter' = iter
      /\ pc' = [pc EXCEPT ![r] = "accumulate"] /\ matrix' = [matrix EXCEPT ![r] = 1]
      /\ todo' = [todo EXCEPT ![r] = ExpertWork(p, r)]
      /\ arrived' = [arrived EXCEPT ![r] = @ + 1]
      /\ grad' = [e \in Experts |->
            IF e \in Owned(r) THEN [x \in Matrices \X Tiles |-> <<Own(i)>>] ELSE grad[e]]
      /\ slotGrad' = [slotGrad EXCEPT ![r] =
            [x \in DOMAIN slotGrad[r] |-> IF p[r][x[1]] # None
                                THEN Append(slotGrad[r][x], i) ELSE slotGrad[r][x]]]
  BY <1>2 DEF Compute, Enter, Arrive
<1>4. /\ pc'[r] = "accumulate" /\ matrix'[r] = 1 /\ todo'[r] = ExpertWork(p, r)
      /\ PlanOf(r)' = p /\ iter'[r] = i /\ OnlyMoves(r)
      /\ \A q \in Ranks : arrived'[q] \in Nat /\ arrived'[q] >= arrived[q]
      /\ \A q \in Ranks \ {r} : arrived'[q] = arrived[q] /\ slotGrad'[q] = slotGrad[q]
  BY <1>1, <1>2, <1>3 DEF GradTypeOK, OnlyMoves, PlanOf
<1>5. \A q \in Ranks \ {r} : \A e \in Owned(q) : grad'[e] = grad[e]
  BY <1>3, OwnersDiffer DEF Owned
<1>6. GradTypeOK'
  BY <1>1, <1>3 DEF GradTypeOK
<1>7. WorkOK(r)'
  BY <1>4, AddingStarts
<1>8. SlotsHold(r)'
  <2> SUFFICES ASSUME NEW b \in Slotted, NEW m \in Matrices, NEW t \in Tiles
               PROVE  slotGrad'[r][<<b, m, t>>] = IF Pending(r, b, m, t)' THEN <<i>> ELSE <<>>
    BY <1>4 DEF SlotsHold
  <2>1. slotGrad[r][<<b, m, t>>] = <<>>
    BY <1>1, <1>3 DEF SlotsHold, Pending
  <2>2. slotGrad'[r][<<b, m, t>>] = IF p[r][b] # None THEN Append(<<>>, i) ELSE <<>>
    BY <1>1, <1>3, <2>1 DEF GradTypeOK
  <2>3. Append(<<>>, i) = <<i>>
    OBVIOUS
  <2>4. Pending(r, b, m, t)' <=> p[r][b] # None
    BY <1>4 DEF Pending, Matrices
  <2> QED
    BY <2>2, <2>3, <2>4
<1>9. SumsAdded(r)'
  <2> SUFFICES ASSUME NEW e \in Owned(r), NEW m \in Matrices, NEW t \in Tiles, NEW k \in Nat,
                      Added(r, e, m, t, k)'
               PROVE  grad'[e][<<m, t>>] = SumOf(p, e, i, k)
    BY <1>4 DEF SumsAdded
  <2>1. grad'[e][<<m, t>>] = <<Own(i)>>
    BY <1>3 DEF Owned
  <2>2. m \notin Reduced(r)'
    BY <1>4 DEF Reduced, Matrices
  <2>3. k = 0
    BY <1>4, <2>2, AddingStarts DEF Added, Reduced
  <2> QED
    BY <2>1, <2>3, SumStarts
<1> QED
  BY <1>4, <1>5, <1>6, <1>7, <1>8, <1>9, RankPreserves

LEMMA AddSlotPreserves ==
    ASSUME GInv, WInv', NEW r \in Ranks, AddSlot(r) PROVE GInv'
<1>1. /\ IInv /\ WeightTypeOK /\ GradTypeOK /\ SlotsHold(r) /\ SumsAdded(r) /\ WorkOK(r)
      /\ iter \in [Ranks -> Nat] /\ arrived \in [Ranks -> Nat] /\ pc \in [Ranks -> Stages]
      /\ matrix \in [Ranks -> Matrices] /\ DOMAIN todo = Ranks
  BY DEF GInv, WInv, IInv, ControlTypeOK, WeightTypeOK
<1>2. PICK p, i, m : p = PlanOf(r) /\ i = iter[r] /\ m = matrix[r] /\ m \in Matrices
  BY <1>1
<1>3. PICK e \in Owned(r), t \in Tiles, n \in 1 .. (NumRanks * PrefetchSlots) :
        /\ <<e, t, n>> \in todo[r]
        /\ grad' = [grad EXCEPT ![e][<<m, t>>] =
               Append(@, From(Holders(p, e)[n][1], Holders(p, e)[n][2],
                              slotGrad[Holders(p, e)[n][1]][Holders(p, e)[n][2], m, t]))]
        /\ todo' = [todo EXCEPT ![r] = (@ \ {<<e, t, n>>}) \cup
               (IF n < Len(Holders(p, e)) THEN {<<e, t, n + 1>>} ELSE {})]
  BY <1>2 DEF AddSlot
<1>4. /\ At(r, "accumulate") /\ pc[r] = "accumulate"
      /\ UNCHANGED <<plans, iter, pc, matrix, arrived, slotGrad>>
  BY DEF AddSlot, At
<1>5. PICK size \in Nat : /\ size = Cardinality(HeldBy(p, e)) /\ Len(Holders(p, e)) = size
                          /\ n \in 1 .. size
  <2>1. n \in 1 .. Cardinality(HeldBy(p, e))
    BY <1>1, <1>2, <1>3, <1>4 DEF WorkOK
  <2> QED
    BY <2>1, HeldFinite, HoldersSorted
<1>6. PICK x \in HeldBy(p, e) : x = Holders(p, e)[n]
  BY <1>5, HoldersSorted
<1>7. slotGrad[x[1]][<<x[2], m, t>>] = <<i>>
  <2>1. e \in Experts
    BY DEF Owned
  <2> QED
    BY <1>2, <1>4, <1>6, <2>1, HolderHasSum
<1>8. grad' = [grad EXCEPT ![e][<<m, t>>] = SumOf(p, e, i, n)]
  <2>1. grad[e][<<m, t>>] = SumOf(p, e, i, n - 1)
    <3>1. n - 1 \in Nat /\ (n - 1) + 1 = n
      OBVIOUS
    <3>2. Added(r, e, m, t, n - 1)
      BY <1>2, <1>3, <1>4, <3>1 DEF Added
    <3> QED
      BY <1>1, <1>2, <3>1, <3>2 DEF SumsAdded
  <2>2. Append(grad[e][<<m, t>>], From(x[1], x[2], <<i>>)) = SumOf(p, e, i, n)
    <3>1. PICK k \in Nat : k = n - 1 /\ k + 1 = n
      OBVIOUS
    <3>2. Append(SumOf(p, e, i, k), From(x[1], x[2], <<i>>)) = SumOf(p, e, i, k + 1)
      BY <1>6, <3>1, SumGrows
    <3> QED
      BY <2>1, <3>1, <3>2
  <2>3. From(Holders(p, e)[n][1], Holders(p, e)[n][2],
             slotGrad[Holders(p, e)[n][1]][Holders(p, e)[n][2], m, t]) = From(x[1], x[2], <<i>>)
    BY <1>6, <1>7
  <2> QED
    BY <1>3, <2>2, <2>3
<1>9. PICK work : work = (todo[r] \ {<<e, t, n>>}) \cup
                            (IF n < size THEN {<<e, t, n + 1>>} ELSE {})
                  /\ todo'[r] = work
  BY <1>1, <1>3, <1>5
<1>10. /\ OnlyMoves(r) /\ PlanOf(r)' = p
       /\ \A q \in Ranks : arrived'[q] \in Nat /\ arrived'[q] >= arrived[q]
  <2>1. \A q \in Ranks : arrived'[q] \in Nat /\ arrived'[q] >= arrived[q]
    BY <1>1, <1>4
  <2>2. \A q \in Ranks \ {r} : todo'[q] = todo[q]
    BY <1>1, <1>3
  <2> QED
    BY <1>2, <1>4, <2>1, <2>2 DEF OnlyMoves, PlanOf
<1>11. \A f \in Experts \ {e} : grad'[f] = grad[f]
  BY <1>1, <1>8 DEF GradTypeOK
<1>12. \A q \in Ranks \ {r} : \A f \in Owned(q) : grad'[f] = grad[f]
  BY <1>11, OwnersDiffer DEF Owned
<1>13. GradTypeOK'
  BY <1>1, <1>4, <1>8 DEF GradTypeOK
<1>14. WorkOK(r)'
  <2>1. ASSUME NEW y \in work
        PROVE  \E f \in Owned(r), u \in Tiles :
                   \E k \in 1 .. Cardinality(HeldBy(p, f)) : y = <<f, u, k>>
    <3>1. CASE y \in todo[r]
      BY <1>1, <1>2, <1>4, <3>1 DEF WorkOK
    <3>2. CASE n < size /\ y = <<e, t, n + 1>>
      BY <1>5, <3>2
    <3> QED
      BY <1>9, <3>1, <3>2
  <2>2. ASSUME NEW f, NEW u, NEW j, NEW k, <<f, u, j>> \in work, <<f, u, k>> \in work
        PROVE  j = k
    <3>1. \A l : <<f, u, l>> \in todo[r] /\ f = e /\ u = t => l = n
      BY <1>1, <1>3, <1>4 DEF WorkOK
    <3>2. CASE f = e /\ u = t
      BY <1>9, <2>2, <3>1, <3>2
    <3>3. CASE ~(f = e /\ u = t)
      <4>1. <<f, u, j>> \in todo[r] /\ <<f, u, k>> \in todo[r]
        BY <1>9, <2>2, <3>3
      <4> QED
        BY <1>1, <1>4, <4>1 DEF WorkOK
    <3> QED
      BY <3>2, <3>3
  <2>3. pc'[r] = "accumulate"
    BY <1>4
  <2> QED
    BY <1>9, <1>10, <2>1, <2>2, <2>3 DEF WorkOK
<1>15. SlotsHold(r)'
  <2> SUFFICES ASSUME NEW b \in Slotted, NEW l \in Matrices, NEW u \in Tiles
               PROVE  slotGrad'[r][<<b, l, u>>] = IF Pending(r, b, l, u)' THEN <<iter'[r]>> ELSE <<>>
    BY DEF SlotsHold
  <2>1. Pending(r, b, l, u)' <=> Pending(r, b, l, u)
    BY <1>2, <1>4, <1>10 DEF Pending
  <2>2. slotGrad[r][<<b, l, u>>] = IF Pending(r, b, l, u) THEN <<iter[r]>> ELSE <<>>
    BY <1>1 DEF SlotsHold
  <2> QED
    BY <1>4, <2>1, <2>2
<1>16. SumsAdded(r)'
  <2> SUFFICES ASSUME NEW f \in Owned(r), NEW l \in Matrices, NEW u \in Tiles, NEW k \in Nat,
                      Added(r, f, l, u, k)'
               PROVE  grad'[f][<<l, u>>] = SumOf(p, f, i, k)
    BY <1>2, <1>4, <1>10 DEF SumsAdded
  <2>1. f \in Experts /\ e \in Experts
    BY DEF Owned
  <2>2. CASE <<f, l, u>> = <<e, m, t>>
    <3>1. grad'[f][<<l, u>>] = SumOf(p, f, i, n)
      BY <1>1, <1>8, <2>1, <2>2 DEF GradTypeOK
    <3>2. l \notin Reduced(r)' /\ ~(matrix'[r] < l)
      BY <1>2, <1>4, <2>2 DEF Reduced, Matrices
    <3>3. CASE <<f, u, k + 1>> \in todo'[r]
      <4>1. <<e, t, k + 1>> \notin todo[r] \ {<<e, t, n>>}
        BY <1>1, <1>3, <1>4 DEF WorkOK
      <4>2. k + 1 = n + 1
        BY <1>9, <2>2, <3>3, <4>1
      <4> QED
        BY <3>1, <4>2
    <3>4. CASE /\ \A j \in Nat : <<f, u, j>> \notin todo'[r]
               /\ k = Cardinality(HeldBy(PlanOf(r), f))'
      <4>1. k = size
        BY <1>5, <1>10, <2>2, <3>4
      <4>2. ~(n < size)
        <5>1. n + 1 \in Nat
          BY <1>5
        <5>2. <<e, t, n + 1>> \notin todo'[r]
          BY <2>2, <3>4, <5>1
        <5>3. n < size => <<e, t, n + 1>> \in work
          BY <1>9
        <5> QED
          BY <1>9, <5>2, <5>3
      <4>3. n = size
        BY <1>5, <4>2
      <4> QED
        BY <3>1, <4>1, <4>3
    <3> QED
      BY <1>4, <3>2, <3>3, <3>4 DEF Added
  <2>3. CASE <<f, l, u>> # <<e, m, t>>
    <3>1. grad'[f][<<l, u>>] = grad[f][<<l, u>>]
      BY <1>1, <1>8, <2>1, <2>3 DEF GradTypeOK
    <3>2. l = m => \A j : <<f, u, j>> \in todo'[r] <=> <<f, u, j>> \in todo[r]
      BY <1>9, <2>3
    <3>3. Added(r, f, l, u, k)
      BY <1>2, <1>4, <1>10, <3>2 DEF Added, Reduced
    <3> QED
      BY <1>1, <1>2, <3>1, <3>3 DEF SumsAdded
  <2> QED
    BY <2>2, <2>3
<1> QED
  BY <1>4, <1>10, <1>12, <1>13, <1>14, <1>15, <1>16, RankPreserves


LEMMA AddingEndsPreserves ==
    ASSUME GInv, WInv', NEW r \in Ranks, AddingEnds(r) PROVE GInv'
<1>1. /\ IInv /\ WeightTypeOK /\ GradTypeOK /\ SlotsHold(r) /\ SumsAdded(r)
      /\ iter \in [Ranks -> Nat] /\ arrived \in [Ranks -> Nat] /\ pc \in [Ranks -> Stages]
      /\ matrix \in [Ranks -> Matrices] /\ DOMAIN todo = Ranks
  BY DEF GInv, WInv, IInv, ControlTypeOK, WeightTypeOK
<1>2. PICK p, m : p = PlanOf(r) /\ m = matrix[r] /\ m \in Matrices
  BY <1>1
<1>3. /\ pc[r] = "accumulate" /\ todo[r] = {} /\ plans' = plans /\ iter' = iter
      /\ pc' = [pc EXCEPT ![r] = "clear"] /\ matrix' = [matrix EXCEPT ![r] = m]
      /\ todo' = [todo EXCEPT ![r] = SlotWork(p, r)]
      /\ arrived' = [arrived EXCEPT ![r] = @ + 1]
      /\ grad' = grad /\ slotGrad' = slotGrad
  BY <1>2 DEF AddingEnds, At, Enter, Arrive, tensors
<1>4. /\ pc'[r] = "clear" /\ matrix'[r] = m /\ todo'[r] = SlotWork(p, r)
      /\ PlanOf(r)' = p /\ iter'[r] = iter[r] /\ OnlyMoves(r)
      /\ \A q \in Ranks : arrived'[q] \in Nat /\ arrived'[q] >= arrived[q]
      /\ \A q \in Ranks \ {r} : arrived'[q] = arrived[q]
  BY <1>1, <1>2, <1>3 DEF OnlyMoves, PlanOf
<1>5. GradTypeOK'
  BY <1>1, <1>3 DEF GradTypeOK
<1>6. WorkOK(r)'
  BY <1>4 DEF WorkOK
<1>7. SlotsHold(r)'
  <2> SUFFICES ASSUME NEW b \in Slotted, NEW l \in Matrices, NEW t \in Tiles
               PROVE  slotGrad'[r][<<b, l, t>>] = IF Pending(r, b, l, t)' THEN <<iter'[r]>> ELSE <<>>
    BY DEF SlotsHold
  <2>1. Pending(r, b, l, t) <=> m <= l /\ p[r][b] # None
    BY <1>2, <1>3 DEF Pending
  <2>2. Pending(r, b, l, t)' <=> (m < l \/ (m = l /\ <<b, t>> \in SlotWork(p, r))) /\ p[r][b] # None
    BY <1>4 DEF Pending
  <2>3. <<b, t>> \in SlotWork(p, r) <=> p[r][b] # None
    BY DEF SlotWork
  <2>4. m <= l <=> m < l \/ m = l
    BY <1>2 DEF Matrices
  <2>5. Pending(r, b, l, t)' <=> Pending(r, b, l, t)
    BY <2>1, <2>2, <2>3, <2>4
  <2>6. slotGrad[r][<<b, l, t>>] = IF Pending(r, b, l, t) THEN <<iter[r]>> ELSE <<>>
    BY <1>1 DEF SlotsHold
  <2> QED
    BY <1>3, <1>4, <2>5, <2>6
<1>8. SumsAdded(r)'
  <2> SUFFICES ASSUME NEW e \in Owned(r), NEW l \in Matrices, NEW t \in Tiles, NEW k \in Nat,
                      Added(r, e, l, t, k)'
               PROVE  grad[e][<<l, t>>] = SumOf(p, e, iter[r], k)
    BY <1>3, <1>4 DEF SumsAdded
  <2>1. Added(r, e, l, t, k)
    <3>1. l \in Reduced(r)' => l \in Reduced(r) \/ l = m
      BY <1>2, <1>3, <1>4 DEF Reduced, Matrices
    <3> QED
      BY <1>2, <1>3, <1>4, <3>1 DEF Added
  <2> QED
    BY <1>1, <1>2, <2>1 DEF SumsAdded
<1> QED
  BY <1>3, <1>4, <1>5, <1>6, <1>7, <1>8, RankPreserves

LEMMA ClearTilePreserves ==
    ASSUME GInv, WInv', NEW r \in Ranks, ClearTile(r) PROVE GInv'
<1>1. /\ IInv /\ WeightTypeOK /\ GradTypeOK /\ SlotsHold(r) /\ SumsAdded(r) /\ WorkOK(r)
      /\ iter \in [Ranks -> Nat] /\ arrived \in [Ranks -> Nat] /\ pc \in [Ranks -> Stages]
      /\ matrix \in [Ranks -> Matrices] /\ DOMAIN todo = Ranks
  BY DEF GInv, WInv, IInv, ControlTypeOK, WeightTypeOK
<1>2. PICK p, m : p = PlanOf(r) /\ m = matrix[r] /\ m \in Matrices
  BY <1>1
<1>3. PICK b \in Slotted, t \in Tiles :
        /\ <<b, t>> \in todo[r]
        /\ slotGrad' = [slotGrad EXCEPT ![r][<<b, m, t>>] = <<>>]
        /\ todo' = [todo EXCEPT ![r] = @ \ {<<b, t>>}]
  BY <1>2 DEF ClearTile, Cleared, Done
<1>4. /\ pc[r] = "clear" /\ BarrierOpen(r)
      /\ UNCHANGED <<plans, iter, pc, matrix, arrived, grad>>
  BY DEF ClearTile, At, AtBarrier
<1>5. /\ todo'[r] = todo[r] \ {<<b, t>>}
      /\ PlanOf(r)' = p /\ OnlyMoves(r)
      /\ \A q \in Ranks : arrived'[q] \in Nat /\ arrived'[q] >= arrived[q]
      /\ \A q \in Ranks \ {r} : slotGrad'[q] = slotGrad[q]
  <2>1. \A q \in Ranks : arrived'[q] \in Nat /\ arrived'[q] >= arrived[q]
    BY <1>1, <1>4
  <2>2. \A q \in Ranks \ {r} : todo'[q] = todo[q] /\ slotGrad'[q] = slotGrad[q]
    BY <1>1, <1>3 DEF GradTypeOK
  <2>3. todo'[r] = todo[r] \ {<<b, t>>}
    BY <1>1, <1>3
  <2> QED
    BY <1>2, <1>4, <2>1, <2>2, <2>3 DEF OnlyMoves, PlanOf
<1>6. GradTypeOK'
  BY <1>1, <1>3, <1>4 DEF GradTypeOK
<1>7. WorkOK(r)'
  <2>1. BarrierOpen(r)'
    BY <1>4 DEF BarrierOpen
  <2>2. todo'[r] \subseteq SlotWork(p, r)
    BY <1>1, <1>2, <1>4, <1>5 DEF WorkOK
  <2> QED
    BY <1>4, <1>5, <2>1, <2>2 DEF WorkOK
<1>8. SlotsHold(r)'
  <2> SUFFICES ASSUME NEW c \in Slotted, NEW l \in Matrices, NEW u \in Tiles
               PROVE  slotGrad'[r][<<c, l, u>>] = IF Pending(r, c, l, u)' THEN <<iter'[r]>> ELSE <<>>
    BY DEF SlotsHold
  <2>1. slotGrad[r][<<c, l, u>>] = IF Pending(r, c, l, u) THEN <<iter[r]>> ELSE <<>>
    BY <1>1 DEF SlotsHold
  <2>2. CASE <<c, l, u>> = <<b, m, t>>
    <3>1. slotGrad'[r][<<c, l, u>>] = <<>>
      BY <1>1, <1>3, <2>2 DEF GradTypeOK
    <3>2. ~Pending(r, c, l, u)'
      BY <1>2, <1>4, <1>5, <2>2 DEF Pending, Matrices
    <3> QED
      BY <3>1, <3>2
  <2>3. CASE <<c, l, u>> # <<b, m, t>>
    <3>1. slotGrad'[r][<<c, l, u>>] = slotGrad[r][<<c, l, u>>]
      BY <1>1, <1>3, <2>3 DEF GradTypeOK
    <3>2. Pending(r, c, l, u)' <=> Pending(r, c, l, u)
      BY <1>2, <1>4, <1>5, <2>3 DEF Pending
    <3> QED
      BY <1>4, <2>1, <3>1, <3>2
  <2> QED
    BY <2>2, <2>3
<1>9. SumsAdded(r)'
  <2> SUFFICES ASSUME NEW e \in Owned(r), NEW l \in Matrices, NEW u \in Tiles, NEW k \in Nat,
                      Added(r, e, l, u, k)'
               PROVE  grad[e][<<l, u>>] = SumOf(p, e, iter[r], k)
    BY <1>4, <1>5 DEF SumsAdded
  <2>1. Added(r, e, l, u, k)
    BY <1>2, <1>4, <1>5 DEF Added, Reduced
  <2> QED
    BY <1>1, <1>2, <2>1 DEF SumsAdded
<1> QED
  BY <1>4, <1>5, <1>6, <1>7, <1>8, <1>9, RankPreserves

LEMMA ClearingEndsPreserves ==
    ASSUME GInv, WInv', NEW r \in Ranks, ClearingEnds(r) PROVE GInv'
<1>1. /\ IInv /\ WeightTypeOK /\ GradTypeOK /\ SlotsHold(r) /\ SumsAdded(r)
      /\ iter \in [Ranks -> Nat] /\ arrived \in [Ranks -> Nat] /\ pc \in [Ranks -> Stages]
      /\ matrix \in [Ranks -> Matrices] /\ DOMAIN todo = Ranks
  BY DEF GInv, WInv, IInv, ControlTypeOK, WeightTypeOK
<1>2. PICK p, m : p = PlanOf(r) /\ m = matrix[r] /\ m \in Matrices
  BY <1>1
<1>3. /\ pc[r] = "clear" /\ todo[r] = {} /\ plans' = plans /\ iter' = iter
      /\ grad' = grad /\ slotGrad' = slotGrad
  BY DEF ClearingEnds, At, tensors
<1>4. /\ PlanOf(r)' = p /\ OnlyMoves(r)
      /\ \A q \in Ranks : arrived'[q] \in Nat /\ arrived'[q] >= arrived[q]
      /\ \A q \in Ranks \ {r} : arrived'[q] = arrived[q]
  BY <1>1, <1>2, <1>3 DEF ClearingEnds, Enter, Arrive, OnlyMoves, PlanOf
<1>5. GradTypeOK'
  BY <1>1, <1>3 DEF GradTypeOK
<1>6. \/ /\ m < 3 /\ pc'[r] = "accumulate" /\ matrix'[r] = m + 1
         /\ todo'[r] = ExpertWork(PlanOf(r)', r)
      \/ /\ m = 3 /\ pc'[r] = "update"
  <2>1. CASE m < 3
    BY <1>1, <1>2, <1>4, <2>1 DEF ClearingEnds, Enter
  <2>2. CASE ~(m < 3)
    <3>1. m = 3
      BY <1>2, <2>2 DEF Matrices
    <3> QED
      BY <1>1, <1>2, <2>2, <3>1 DEF ClearingEnds, Enter
  <2> QED
    BY <2>1, <2>2
<1>7. WorkOK(r)'
  <2>1. CASE pc'[r] = "accumulate"
    BY <1>6, <2>1, AddingStarts
  <2>2. CASE pc'[r] = "update"
    BY <2>2 DEF WorkOK
  <2> QED
    BY <1>6, <2>1, <2>2
<1>8. SlotsHold(r)'
  <2> SUFFICES ASSUME NEW b \in Slotted, NEW l \in Matrices, NEW t \in Tiles
               PROVE  slotGrad'[r][<<b, l, t>>] = IF Pending(r, b, l, t)' THEN <<iter'[r]>> ELSE <<>>
    BY DEF SlotsHold
  <2>1. Pending(r, b, l, t) <=> m < l /\ p[r][b] # None
    BY <1>2, <1>3 DEF Pending
  <2>2. Pending(r, b, l, t)' <=> m < l /\ p[r][b] # None
    <3>1. m < l => m < 3 /\ m + 1 <= l
      BY <1>2 DEF Matrices
    <3>2. m + 1 <= l => m < l
      BY <1>2 DEF Matrices
    <3> QED
      BY <1>4, <1>6, <3>1, <3>2 DEF Pending
  <2>3. slotGrad[r][<<b, l, t>>] = IF Pending(r, b, l, t) THEN <<iter[r]>> ELSE <<>>
    BY <1>1 DEF SlotsHold
  <2> QED
    BY <1>3, <2>1, <2>2, <2>3
<1>9. SumsAdded(r)'
  <2> SUFFICES ASSUME NEW e \in Owned(r), NEW l \in Matrices, NEW t \in Tiles, NEW k \in Nat,
                      Added(r, e, l, t, k)'
               PROVE  grad[e][<<l, t>>] = SumOf(p, e, iter[r], k)
    BY <1>3, <1>4 DEF SumsAdded
  <2>1. CASE l \in Reduced(r)'
    <3>1. l <= m
      BY <1>2, <1>6, <2>1 DEF Reduced, Matrices
    <3>2. l \in Reduced(r)
      BY <1>2, <1>3, <3>1 DEF Reduced
    <3>3. k = Cardinality(HeldBy(p, e))
      <4>1. pc'[r] = "update" \/ matrix'[r] = m + 1
        BY <1>6
      <4>2. ~(m + 1 < l) /\ l # m + 1
        BY <1>2, <3>1 DEF Matrices
      <4>3. k = Cardinality(HeldBy(PlanOf(r), e))'
        BY <4>1, <4>2, <2>1 DEF Added
      <4> QED
        BY <1>4, <4>3
    <3>4. Added(r, e, l, t, k)
      BY <1>2, <3>2, <3>3 DEF Added
    <3> QED
      BY <1>1, <1>2, <3>4 DEF SumsAdded
  <2>2. CASE l \notin Reduced(r)'
    <3>1. pc'[r] = "accumulate" /\ matrix'[r] = m + 1 /\ m < l
      BY <1>2, <1>6, <2>2 DEF Reduced, Matrices
    <3>2. k = 0
      BY <1>6, <2>2, <3>1, AddingStarts DEF Added, Reduced
    <3>3. Added(r, e, l, t, 0)
      BY <1>2, <1>3, <3>1 DEF Added
    <3> QED
      BY <1>1, <1>2, <3>2, <3>3 DEF SumsAdded
  <2> QED
    BY <2>1, <2>2
<1> QED
  BY <1>3, <1>4, <1>5, <1>7, <1>8, <1>9, RankPreserves

LEMMA UpdatePreserves ==
    ASSUME GInv, WInv', NEW r \in Ranks, Update(r) PROVE GInv'
<1>1. /\ IInv /\ WeightTypeOK /\ GradTypeOK /\ SlotsHold(r) /\ SumsAdded(r)
      /\ iter \in [Ranks -> Nat] /\ arrived \in [Ranks -> Nat] /\ pc \in [Ranks -> Stages]
      /\ matrix \in [Ranks -> Matrices] /\ DOMAIN todo = Ranks
  BY DEF GInv, WInv, IInv, ControlTypeOK, WeightTypeOK
<1>2. /\ pc[r] = "update" /\ UNCHANGED <<plans, iter, arrived, grad, slotGrad>>
  BY DEF Update
<1>3. pc'[r] \in {"update", "idle"} /\ OnlyMoves(r) /\ PlanOf(r)' = PlanOf(r)
  <2>1. PlanOf(r)' = PlanOf(r)
    BY <1>2 DEF PlanOf
  <2> QED
    BY <1>1, <1>2, <2>1 DEF Update, Enter, OnlyMoves
<1>4. \A q \in Ranks : arrived'[q] \in Nat /\ arrived'[q] >= arrived[q]
  BY <1>1, <1>2
<1>5. GradTypeOK'
  BY <1>1, <1>2 DEF GradTypeOK
<1>6. WorkOK(r)'
  BY <1>3 DEF WorkOK
<1>7. SlotsHold(r)'
  <2> SUFFICES ASSUME NEW b \in Slotted, NEW l \in Matrices, NEW t \in Tiles
               PROVE  slotGrad'[r][<<b, l, t>>] = IF Pending(r, b, l, t)' THEN <<iter'[r]>> ELSE <<>>
    BY DEF SlotsHold
  <2>1. ~Pending(r, b, l, t)' /\ ~Pending(r, b, l, t)
    BY <1>2, <1>3 DEF Pending
  <2>2. slotGrad[r][<<b, l, t>>] = IF Pending(r, b, l, t) THEN <<iter[r]>> ELSE <<>>
    BY <1>1 DEF SlotsHold
  <2> QED
    BY <1>2, <2>1, <2>2
<1>8. SumsAdded(r)'
  <2> SUFFICES ASSUME NEW e \in Owned(r), NEW l \in Matrices, NEW t \in Tiles, NEW k \in Nat,
                      Added(r, e, l, t, k)'
               PROVE  grad[e][<<l, t>>] = SumOf(PlanOf(r), e, iter[r], k)
    BY <1>2, <1>3 DEF SumsAdded
  <2>1. Added(r, e, l, t, k)
    <3>1. l \in Reduced(r)
      BY <1>2 DEF Reduced
    <3>2. k = Cardinality(HeldBy(PlanOf(r), e))'
      BY <1>3 DEF Added
    <3> QED
      BY <1>3, <3>1, <3>2 DEF Added
  <2> QED
    BY <1>1, <2>1 DEF SumsAdded
<1> QED
  BY <1>2, <1>3, <1>4, <1>5, <1>6, <1>7, <1>8, RankPreserves

\* The steps before the rank computes.
LEMMA FetchingPreserves ==
    ASSUME GInv, WInv', NEW r \in Ranks, Dispatch(r) \/ PrefetchTile(r) \/ PrefetchEnds(r)
    PROVE  GInv'
<1>1. /\ IInv /\ WeightTypeOK /\ GradTypeOK
      /\ iter \in [Ranks -> Nat] /\ arrived \in [Ranks -> Nat] /\ pc \in [Ranks -> Stages]
      /\ matrix \in [Ranks -> Matrices] /\ DOMAIN todo = Ranks
  BY DEF GInv, WInv, IInv, ControlTypeOK, WeightTypeOK
<1>2. /\ pc[r] \in {"idle", "prefetch"} /\ pc'[r] \in {"prefetch", "compute"}
      /\ UNCHANGED <<grad, slotGrad>>
  BY <1>1 DEF Dispatch, PrefetchTile, PrefetchEnds, At, Enter, tensors
<1>3. WorkOK(r)' /\ SlotsHold(r)' /\ SumsAdded(r)'
  BY <1>2, NothingAdded
<1>4. \A q \in Ranks : arrived'[q] \in Nat /\ arrived'[q] >= arrived[q]
  BY <1>1 DEF Dispatch, PrefetchTile, PrefetchEnds, Arrive
<1>5. OnlyMoves(r) /\ \A q \in Ranks \ {r} : arrived'[q] = arrived[q]
  BY <1>1 DEF Dispatch, PrefetchTile, PrefetchEnds, Arrive, Enter, Done, OnlyMoves
<1>6. GradTypeOK'
  BY <1>1, <1>2 DEF GradTypeOK
<1> QED
  BY <1>2, <1>3, <1>4, <1>5, <1>6, RankPreserves

LEMMA NextGInv == GInv /\ [Next]_vars => GInv'
<1> SUFFICES ASSUME GInv, [Next]_vars PROVE GInv'
  OBVIOUS
<1>1. WInv'
  BY NextWInv DEF GInv
<1>2. ASSUME NEW r \in Ranks, Step(r) PROVE GInv'
  BY <1>1, <1>2, FetchingPreserves, ComputePreserves, AddSlotPreserves, AddingEndsPreserves,
     ClearTilePreserves, ClearingEndsPreserves, UpdatePreserves DEF Step
<1>3. CASE UNCHANGED vars
  <2>1. GradTypeOK'
    BY <1>3 DEF vars, tensors, GInv, GradTypeOK
  <2>2. ASSUME NEW q \in Ranks PROVE (WorkOK(q) /\ SlotsHold(q) /\ SumsAdded(q))'
    <3>1. BarrierOpen(q) => BarrierOpen(q)'
      BY <1>3 DEF vars, BarrierOpen
    <3> QED
      BY <1>3, <3>1, GradsKept DEF vars, tensors
  <2> QED
    BY <1>1, <2>1, <2>2 DEF GInv
<1> QED
  BY <1>2, <1>3 DEF Next

LEMMA InitGInv == Init => GInv
<1> SUFFICES ASSUME Init PROVE GInv
  OBVIOUS
<1>1. WInv
  BY InitWInv
<1>2. GradTypeOK
  BY DEF Init, GradTypeOK
<1>3. ASSUME NEW r \in Ranks PROVE WorkOK(r) /\ SlotsHold(r) /\ SumsAdded(r)
  <2>1. pc[r] = "idle"
    BY DEF Init
  <2>2. WorkOK(r)
    BY <2>1 DEF WorkOK
  <2>3. SlotsHold(r)
    BY <2>1 DEF Init, SlotsHold, Pending
  <2>4. SumsAdded(r)
    BY <2>1 DEF SumsAdded, Added, Reduced
  <2> QED
    BY <2>2, <2>3, <2>4
<1> QED
  BY <1>1, <1>2, <1>3 DEF GInv

\* A sum of all holders has the owner's share first, then each slot's once.
IsExact(g, p, e, i) ==
    /\ g[1] = Own(i)
    /\ {g[n] : n \in 2 .. Len(g)} = {From(x[1], x[2], <<i>>) : x \in HeldBy(p, e)}
    /\ \A n \in 3 .. Len(g) :
           g[n - 1].rank * PrefetchSlots + g[n - 1].slot
               < g[n].rank * PrefetchSlots + g[n].slot

LEMMA SumIsExact ==
    ASSUME NEW p, NEW e, NEW i
    PROVE  IsExact(SumOf(p, e, i, Cardinality(HeldBy(p, e))), p, e, i)
<1>1. PICK size, h : /\ size \in Nat /\ size = Cardinality(HeldBy(p, e)) /\ h = Holders(p, e)
                     /\ \A n \in 1 .. size : h[n] \in HeldBy(p, e)
                     /\ \A x \in HeldBy(p, e) :
                            /\ Place(p, e, x) \in 1 .. size
                            /\ h[Place(p, e, x)] = x
  BY HeldFinite, HoldersSorted, PlaceRange
<1>2. PICK g : /\ g = SumOf(p, e, i, size)
               /\ g = [n \in 1 .. (size + 1) |-> IF n = 1 THEN Own(i)
                                                    ELSE From(h[n - 1][1], h[n - 1][2], <<i>>)]
  BY <1>1 DEF SumOf
<1>3. Len(g) = size + 1 /\ g[1] = Own(i)
  BY <1>1, <1>2
<1>4. \A n \in 2 .. (size + 1) : /\ g[n] = From(h[n - 1][1], h[n - 1][2], <<i>>)
                                 /\ n - 1 \in 1 .. size
  BY <1>1, <1>2
<1>5. ASSUME NEW n \in 2 .. Len(g)
      PROVE  \E x \in HeldBy(p, e) : g[n] = From(x[1], x[2], <<i>>)
  BY <1>1, <1>3, <1>4
<1>6. ASSUME NEW x \in HeldBy(p, e)
      PROVE  \E n \in 2 .. Len(g) : g[n] = From(x[1], x[2], <<i>>)
  <2>1. PICK k : k \in 1 .. size /\ h[k] = x
    <3>1. Place(p, e, x) \in 1 .. size /\ h[Place(p, e, x)] = x
      BY <1>1
    <3> QED
      BY <3>1
  <2>2. k + 1 \in 2 .. (size + 1) /\ (k + 1) - 1 = k
    BY <1>1, <2>1
  <2> QED
    BY <1>3, <1>4, <2>1, <2>2
<1>7. ASSUME NEW n \in 3 .. Len(g)
      PROVE  g[n - 1].rank * PrefetchSlots + g[n - 1].slot < g[n].rank * PrefetchSlots + g[n].slot
  <2>1. PICK k \in 1 .. size : n = k + 2 /\ k + 1 \in 1 .. size
    <3>1. n - 2 \in 1 .. size /\ n = (n - 2) + 2 /\ (n - 2) + 1 \in 1 .. size
      BY <1>1, <1>3
    <3> QED
      BY <3>1
  <2>2. PICK x \in HeldBy(p, e), y \in HeldBy(p, e) : x = h[k] /\ y = h[k + 1]
    BY <1>1, <2>1
  <2>3. Before(x, y)
    BY <1>1, <2>1, <2>2, HoldersAscend
  <2>4. x[1] * PrefetchSlots + x[2] < y[1] * PrefetchSlots + y[2]
    BY <2>3, SlotsAscend, HeldFinite
  <2>5. g[n - 1] = From(x[1], x[2], <<i>>) /\ g[n] = From(y[1], y[2], <<i>>)
    <3>1. /\ n - 1 \in 2 .. (size + 1) /\ (n - 1) - 1 = k
          /\ n \in 2 .. (size + 1) /\ n - 1 = k + 1
      BY <1>1, <2>1
    <3> QED
      BY <1>4, <2>2, <3>1
  <2> QED
    BY <2>4, <2>5 DEF From
<1>8. {g[n] : n \in 2 .. Len(g)} = {From(x[1], x[2], <<i>>) : x \in HeldBy(p, e)}
  <2>1. \A y : y \in {g[n] : n \in 2 .. Len(g)} <=> \E n \in 2 .. Len(g) : y = g[n]
    OBVIOUS
  <2>2. \A y : y \in {From(x[1], x[2], <<i>>) : x \in HeldBy(p, e)} <=>
                  \E x \in HeldBy(p, e) : y = From(x[1], x[2], <<i>>)
    OBVIOUS
  <2>3. \A y : (\E n \in 2 .. Len(g) : y = g[n]) <=>
                  \E x \in HeldBy(p, e) : y = From(x[1], x[2], <<i>>)
    BY <1>5, <1>6
  <2> QED
    BY <2>1, <2>2, <2>3
<1>9. IsExact(g, p, e, i)
  BY <1>3, <1>7, <1>8 DEF IsExact
<1> QED
  BY <1>1, <1>2, <1>9

\* For every plan, whatever the pace of the ranks and whatever was added to slots
\* in steps before: a reduced gradient is the owner's share and one share of this
\* step from each slot that held the expert, added in the order of the slots.
THEOREM GradsAreExact == Spec => []GradsExact
<1>1. GInv => GradsExact
  <2> SUFFICES ASSUME GInv, NEW r \in Ranks, NEW m \in Reduced(r),
                      NEW e \in Owned(r), NEW t \in Tiles
               PROVE  IsExact(grad[e][<<m, t>>], PlanOf(r), e, iter[r])
    BY DEF GradsExact, IsExact
  <2>1. m \in Matrices /\ Cardinality(HeldBy(PlanOf(r), e)) \in Nat
    BY HeldFinite DEF Reduced
  <2>2. Added(r, e, m, t, Cardinality(HeldBy(PlanOf(r), e)))
    BY DEF Added
  <2>3. grad[e][<<m, t>>] = SumOf(PlanOf(r), e, iter[r], Cardinality(HeldBy(PlanOf(r), e)))
    BY <2>1, <2>2 DEF GInv, SumsAdded
  <2> QED
    BY <2>3, SumIsExact
<1> QED
  BY <1>1, InitGInv, NextGInv, PTL DEF Spec
=============================================================================
