----------------------------- MODULE ExpertStep -----------------------------
(***************************************************************************)
(* The experts' part of a training step on every rank at once: the weights *)
(* of remote experts are prefetched into local slots (prefetch_weight), the*)
(* caller computes with them, and the gradients that it leaves in its slots*)
(* are added to those of their owners (reduce_grad), which update their    *)
(* weights for the next step.                                              *)
(*                                                                         *)
(* Each rank runs its calls on one stream; ranks wait for each other in    *)
(* barriers only.  A tensor is cut into tiles, and a tile is read and      *)
(* written whole.  A weight is the number of times it was updated; a       *)
(* gradient is the sequence of what was added up in it.  reduce_grad reads *)
(* the slots of its peers by symm_at, but prefetch_weight reads the row of *)
(* an expert where the rank's own argument has it: with the owner, if the  *)
(* caller has made a view of that, or in a replica of the rank.            *)
(***************************************************************************)
EXTENDS PlanLayout

CONSTANTS
    Plans,              \* the experts_to_copy of all ranks that are explored
    Memory,             \* in whose memory the rows of a rank's full weights are
    NumTiles,           \* tiles_m * tiles_n: the tiles of a matrix
    Iterations          \* bound: how many training steps are run

\* With no slots both calls return at once, on every rank.
ASSUME SlotsAssumption == PrefetchSlots > 0
ASSUME PlansAssumption ==
    Plans \subseteq [Ranks -> [0 .. (PrefetchSlots - 1) -> Experts \cup {None}]]
ASSUME MemoryAssumption == Memory \in [Ranks -> [Experts -> Ranks]]
ASSUME TilesAssumption == NumTiles \in Nat \ {0}
ASSUME IterationsAssumption == Iterations \in Nat

VARIABLES
    plans,              \* the plan of each training step
    iter,               \* the training step each rank is in
    pc,                 \* what each rank does in it
    matrix,             \* and for which matrix
    arrived,            \* the barriers each rank has arrived at
    todo,               \* the work of the launch each rank is in
    weight,             \* the weights of all experts, in the memory of each rank
    slotWeight,         \* the copies in the slots of each rank
    grad,               \* the gradients of each expert, on its owner
    slotGrad            \* the reduce buffer: gradients in the slots of each rank

tensors == <<weight, slotWeight, grad, slotGrad>>
vars == <<plans, iter, pc, matrix, arrived, todo, tensors>>

Slotted == 0 .. (PrefetchSlots - 1)
Tiles == 1 .. NumTiles

\* Gate, up and down, in the order of their launches.
Matrices == 1 .. 3

\* What a gradient is the sum of: the owner's own share in a step, and what was in
\* the slot of a rank.
Own(n) == [step |-> n]
From(r, b, of) == [rank |-> r, slot |-> b, of |-> of]

PlanOf(r) == plans[iter[r]]

\* Mutant of the next operator: slot by slot.
BeforeBySlot(x, y) == x[2] < y[2] \/ (x[2] = y[2] /\ x[1] < y[1])

\* One slot, as <<rank, slot>>, comes before another: rank * B + slot ascends.
Before(x, y) == x[1] < y[1] \/ (x[1] = y[1] /\ x[2] < y[2])

\* The slots that plan p gives to expert e, and those of them before x.
HeldBy(p, e) == {x \in Ranks \X Slotted : p[x[1]][x[2]] = e}
HeldBefore(p, e, x) == {y \in HeldBy(p, e) : Before(y, x)}

\* The slots sorted in that order.
Holders(p, e) ==
    [n \in 1 .. Cardinality(HeldBy(p, e)) |->
        CHOOSE x \in HeldBy(p, e) : Cardinality(HeldBefore(p, e, x)) = n - 1]

\* The work of a launch: the tiles of the slots in use, to be copied or cleared;
\* or those of the own experts that are in a slot anywhere, each with the next
\* of its holders.
SlotWork(p, r) == {b \in Slotted : p[r][b] # None} \X Tiles
ExpertWork(p, r) == {e \in Owned(r) : Holders(p, e) # <<>>} \X Tiles \X {1}

Init ==
    /\ plans \in [1 .. Iterations -> Plans]
    /\ iter = [r \in Ranks |-> 0]
    /\ pc = [r \in Ranks |-> "idle"]
    /\ matrix = [r \in Ranks |-> 1]
    /\ arrived = [r \in Ranks |-> 0]
    /\ todo = [r \in Ranks |-> {}]
    /\ weight = [r \in Ranks |-> [e \in Experts |-> [m \in Matrices |-> 0]]]
    /\ slotWeight = [r \in Ranks |-> [x \in Slotted \X Matrices \X Tiles |-> None]]
    /\ grad = [e \in Experts |-> [x \in Matrices \X Tiles |-> <<>>]]
    /\ slotGrad = [r \in Ranks |-> [x \in Slotted \X Matrices \X Tiles |-> <<>>]]

-----------------------------------------------------------------------------
\* Mutants of the next operator: a barrier is left out, the one of dispatch, or the
\* second of a reduction.
AtBarrierButDispatch == {"accumulate", "clear"}
AtBarrierButClear == {"prefetch", "accumulate"}

\* What starts with waiting for all ranks.
AtBarrier == {"prefetch", "accumulate", "clear"}

\* Mutant of the next operator: a rank that is already at the next one is missed.
BarrierOpenAtOnce(r) == \A q \in Ranks : arrived[q] = arrived[r]

\* launch_cross_rank_barrier: all ranks have arrived at it.
BarrierOpen(r) == \A q \in Ranks : arrived[q] >= arrived[r]
At(r, stage) == pc[r] = stage /\ (stage \in AtBarrier => BarrierOpen(r))

\* Every rank takes part in every barrier, also one that has nothing to do after it.
Arrive(r) == arrived' = [arrived EXCEPT ![r] = @ + 1]

\* Rank r goes on with stage, for matrix m, with some work.
Enter(r, stage, m, work) ==
    /\ pc' = [pc EXCEPT ![r] = stage]
    /\ matrix' = [matrix EXCEPT ![r] = m]
    /\ todo' = [todo EXCEPT ![r] = work]

Done(r, item) == todo' = [todo EXCEPT ![r] = @ \ {item}]

\* The caller dispatches its tokens; of the barriers of dispatch one is modelled.
Dispatch(r) ==
    /\ pc[r] = "idle"
    /\ iter[r] < Iterations
    /\ iter' = [iter EXCEPT ![r] = @ + 1]
    /\ Arrive(r)
    /\ Enter(r, "prefetch", 1, SlotWork(plans[iter[r] + 1], r))
    /\ UNCHANGED <<plans, tensors>>

\* The weights of matrix m of expert e, as the full weights of rank r have them.
FullWeight(r, e, m) == weight[Memory[r][e]][e][m]

\* prefetch_kernel: a tile of a slot is copied from the expert's row of the rank's
\* own argument, with a plain load.
PrefetchTile(r) ==
    /\ At(r, "prefetch")
    /\ \E b \in Slotted, t \in Tiles :
        /\ <<b, t>> \in todo[r]
        /\ slotWeight' = [slotWeight EXCEPT ![r][<<b, matrix[r], t>>] =
                FullWeight(r, PlanOf(r)[r][b], matrix[r])]
        /\ Done(r, <<b, t>>)
    /\ UNCHANGED <<plans, iter, pc, matrix, arrived, weight, grad, slotGrad>>

\* The launch ends, and that for the next matrix starts.
PrefetchEnds(r) ==
    /\ At(r, "prefetch")
    /\ todo[r] = {}
    /\ IF matrix[r] < 3
       THEN Enter(r, "prefetch", matrix[r] + 1, SlotWork(PlanOf(r), r))
       ELSE Enter(r, "compute", 1, {})
    /\ UNCHANGED <<plans, iter, arrived, tensors>>

\* The caller computes with the weights at hand: a fresh gradient for its own
\* experts, and an addition to the reduce buffer for each slot in use.  Then it
\* calls reduce_grad, and arrives at the first barrier of launch_grad_reduce.
Compute(r) ==
    /\ pc[r] = "compute"
    /\ grad' = [e \in Experts |->
            IF e \in Owned(r) THEN [x \in Matrices \X Tiles |-> <<Own(iter[r])>>]
            ELSE grad[e]]
    /\ slotGrad' = [slotGrad EXCEPT ![r] =
            [x \in DOMAIN @ |-> IF PlanOf(r)[r][x[1]] # None
                                THEN Append(@[x], iter[r]) ELSE @[x]]]
    /\ Arrive(r)
    /\ Enter(r, "accumulate", 1, ExpertWork(PlanOf(r), r))
    /\ UNCHANGED <<plans, iter, weight, slotWeight>>

\* grad_reduce_accum_kernel: the next slot of a tile is added to the owner's.
\* (The sum is kept in a register, but only this item touches the tile.)
AddSlot(r) ==
    /\ At(r, "accumulate")
    /\ \E e \in Owned(r), t \in Tiles, n \in 1 .. (NumRanks * PrefetchSlots) :
        /\ <<e, t, n>> \in todo[r]
        /\ LET holders == Holders(PlanOf(r), e)
               x == holders[n]
               of == slotGrad[x[1]][x[2], matrix[r], t]
           IN  /\ grad' = [grad EXCEPT ![e][<<matrix[r], t>>] = Append(@, From(x[1], x[2], of))]
               /\ todo' = [todo EXCEPT ![r] = (@ \ {<<e, t, n>>}) \cup
                       (IF n < Len(holders) THEN {<<e, t, n + 1>>} ELSE {})]
    /\ UNCHANGED <<plans, iter, pc, matrix, arrived, weight, slotWeight, slotGrad>>

\* The launch ends, or there was none; the rank arrives at the second barrier.
AddingEnds(r) ==
    /\ At(r, "accumulate")
    /\ todo[r] = {}
    /\ Arrive(r)
    /\ Enter(r, "clear", matrix[r], SlotWork(PlanOf(r), r))
    /\ UNCHANGED <<plans, iter, tensors>>

\* Mutant of the next operator: the slot keeps its sum.
NotCleared(old) == old

\* What is left in a slot that is cleared.
Cleared(old) == <<>>

\* grad_reduce_clear_kernel: a tile of the rank's own slots is cleared.
ClearTile(r) ==
    /\ At(r, "clear")
    /\ \E b \in Slotted, t \in Tiles :
        /\ <<b, t>> \in todo[r]
        /\ slotGrad' = [slotGrad EXCEPT ![r][<<b, matrix[r], t>>] = Cleared(@)]
        /\ Done(r, <<b, t>>)
    /\ UNCHANGED <<plans, iter, pc, matrix, arrived, weight, slotWeight, grad>>

\* The launch ends, or there was none; the next matrix is reduced.
ClearingEnds(r) ==
    /\ At(r, "clear")
    /\ todo[r] = {}
    /\ IF matrix[r] < 3
       THEN /\ Arrive(r)
            /\ Enter(r, "accumulate", matrix[r] + 1, ExpertWork(PlanOf(r), r))
       ELSE /\ Enter(r, "update", 1, {})
            /\ UNCHANGED arrived
    /\ UNCHANGED <<plans, iter, tensors>>

\* The caller's optimizer updates the weights of the own experts, where the rank has
\* them.  Nothing of this library brings them to a replica on another rank.
Update(r) ==
    /\ pc[r] = "update"
    /\ weight' = [weight EXCEPT ![r] =
            [e \in Experts |->
                IF e \in Owned(r) THEN [weight[r][e] EXCEPT ![matrix[r]] = @ + 1]
                                 ELSE weight[r][e]]]
    /\ IF matrix[r] < 3 THEN Enter(r, "update", matrix[r] + 1, {})
                        ELSE Enter(r, "idle", 1, {})
    /\ UNCHANGED <<plans, iter, arrived, slotWeight, grad, slotGrad>>

Step(r) ==
    \/ Dispatch(r) \/ PrefetchTile(r) \/ PrefetchEnds(r) \/ Compute(r) \/ AddSlot(r)
    \/ AddingEnds(r) \/ ClearTile(r) \/ ClearingEnds(r) \/ Update(r)

Next == \E r \in Ranks : Step(r)

Spec == Init /\ [][Next]_vars

\* The stream of every rank goes on, as does its caller.
FairSpec == Spec /\ \A r \in Ranks : WF_vars(Step(r))

-----------------------------------------------------------------------------
\* The experts of a rank are computed with the weights that its full weights have for
\* them, none replaced since it was copied and none mixed of two versions, though
\* owners update and peers copy at their own pace.  And where those are the owner's,
\* they were updated as often as the steps before this one require.
WeightsCurrent ==
    \A r \in Ranks : pc[r] = "compute" =>
        \A b \in Slotted, m \in Matrices, t \in Tiles :
            LET e == PlanOf(r)[r][b]
            IN  e # None =>
                    /\ slotWeight[r][b, m, t] = FullWeight(r, e, m)
                    /\ Memory[r][e] = Home(e) => slotWeight[r][b, m, t] = iter[r] - 1

\* prefetch.py:1 calls what is copied remote expert weights, those of the owner: an
\* expert is computed with the weights that its owner has, whatever the rank's full
\* weights are made of.  With replicas that does not hold.
RemoteWeights ==
    \A r \in Ranks : pc[r] = "compute" =>
        \A b \in Slotted, m \in Matrices, t \in Tiles :
            LET e == PlanOf(r)[r][b]
            IN  e # None => slotWeight[r][b, m, t] = weight[Home(e)][e][m]

\* The matrices whose gradients rank r has reduced in its step.
Reduced(r) ==
    {m \in Matrices : \/ pc[r] = "update"
                      \/ pc[r] = "clear" /\ m <= matrix[r]
                      \/ pc[r] = "accumulate" /\ m < matrix[r]}

\* A reduced gradient is the owner's own and, once each, what every holder of the
\* expert has added to its slot in this very step, in ascending order of slots:
\* the rounded sum does not depend on who was fast.
GradsExact ==
    \A r \in Ranks : \A m \in Reduced(r), e \in Owned(r), t \in Tiles :
        LET g == grad[e][m, t]
        IN  /\ g[1] = Own(iter[r])
            /\ {g[n] : n \in 2 .. Len(g)} =
                   {From(x[1], x[2], <<iter[r]>>) : x \in HeldBy(PlanOf(r), e)}
            /\ \A n \in 3 .. Len(g) :
                   g[n - 1].rank * PrefetchSlots + g[n - 1].slot
                       < g[n].rank * PrefetchSlots + g[n].slot

\* While a rank adds up what its peers left in their slots, no slot is added to or
\* cleared; and while it copies weights, nobody updates any.
ReadersUndisturbed ==
    [][\A r \in Ranks :
        /\ At(r, "accumulate") => UNCHANGED slotGrad
        /\ At(r, "prefetch") => UNCHANGED weight]_vars

\* Every rank gets through all steps, also one that has nothing to add or clear.
AllStepsEnd == <>(\A r \in Ranks : iter[r] = Iterations /\ pc[r] = "idle")
=============================================================================
