------------------------------ MODULE EPBuffer ------------------------------
(***************************************************************************)
(* dispatch and combine of moonep_td/api.py on every rank at once: planning*)
(* (module Planning), the scatter of token rows into the symmetric buffers *)
(* of the peers, the local expansion of duplicates, the experts' work of   *)
(* the caller, the local reduction of duplicates and the gather of the     *)
(* results.  All ranks run one program of calls; each runs it at its own   *)
(* pace, held back by the barriers inside the calls only.                  *)
(*                                                                         *)
(* A row of a buffer is a bag of contributions: a token row is a bag of one*)
(* token, an expert's output names the token and the expert, and a sum of  *)
(* rows is the sum of their bags.                                          *)
(***************************************************************************)
EXTENDS Planning, Bags

CONSTANT Programs       \* the programs of calls that are explored

VARIABLES
    program,            \* the calls, and the options they are made with
    call,               \* the call each rank is in
    step,               \* the next step of it; while it plans, pc says where
    hidden,             \* the rows of the symmetric buffer of each rank
    weights,            \* the routing weight of each of these rows
    dups,               \* plan.dup_*: groups of rows of each rank with one token
    local,              \* the caller's own copy of the rows of its rank
    pending,            \* entries that the kernel in flight has still to treat
    out,                \* combine's result: the output of each token
    outWeights          \* and the weight of each entry

buffers == <<hidden, weights>>
results == <<out, outWeights>>
bufferVars == <<program, call, step, buffers, dups, local, pending, results>>
vars == <<planVars, bufferVars>>

Kinds == {"fresh", "reuse", "combine"}
ProgramType ==
    [ops : Seq([kind : Kinds, sync : BOOLEAN]), zeroCopy : BOOLEAN, weighted : BOOLEAN]

(***************************************************************************)
(* When a caller may leave inter_rank_sync out.  A fresh dispatch does not *)
(* touch a peer's rows before the barriers of planning, and a combine that *)
(* follows a dispatch writes the rank's own rows only, after the barrier   *)
(* that ended the dispatch.  Any other call starts by writing rows that a  *)
(* slower peer may still read: the rows of a combine are read by peers     *)
(* until their own next call, and no barrier follows that gather.          *)
(***************************************************************************)
MayElideSync(ops, n) ==
    \/ ops[n].kind = "fresh"
    \/ /\ ops[n].kind = "combine"
       /\ ops[n - 1].kind # "combine"

\* Programs a caller can run: the plan comes from an earlier fresh dispatch, and
\* what is combined comes from a dispatch.
Legal(p) ==
    /\ p.ops[1].kind = "fresh"
    /\ \A n \in 2 .. Len(p.ops) :
        p.ops[n].kind = "combine" => p.ops[n - 1].kind # "combine"
    /\ \A n \in 1 .. Len(p.ops) : p.ops[n].sync \/ MayElideSync(p.ops, n)
    /\ Cardinality({n \in 1 .. Len(p.ops) : p.ops[n].kind = "fresh"}) <= Rounds

ASSUME ProgramsAssumption == \A p \in Programs : p \in ProgramType /\ Legal(p)

Op(r) == program.ops[call[r]]

\* Mutants of the next operator: the barrier of inter_rank_sync is left out; the one
\* before the epilogue of dispatch; the one before the gather of combine.
CallBarriersButSync == {"dispatched", "gather"}
CallBarriersButDispatch == {"sync", "gather"}
CallBarriersButCombine == {"sync", "dispatched"}

\* The steps before which a call waits for the peers.
CallBarriers == {"sync", "dispatched", "gather"}
PassesCall(r) == step[r] \in CallBarriers => BarrierOpen(r)

GoOn(r, label) == step' = [step EXCEPT ![r] = label]

\* The programs of the kernels that treat each entry.
Grid == Slots

Empty == [l \in Rows |-> EmptyBag]
NoWeight == <<>>       \* 0.0
NoWeights == [l \in Rows |-> NoWeight]

Init ==
    /\ PlanInit
    /\ program \in Programs
    /\ call = [r \in Ranks |-> 0]
    /\ step = [r \in Ranks |-> "idle"]
    /\ hidden = [r \in Ranks |-> Empty]
    /\ weights = [r \in Ranks |-> NoWeights]
    /\ dups = [r \in Ranks |-> {}]
    /\ local = [r \in Ranks |-> [rows |-> Empty, weights |-> NoWeights]]
    /\ pending = [r \in Ranks |-> {}]
    /\ out = [r \in Ranks |-> [s \in 0 .. (NumTokens - 1) |-> EmptyBag]]
    /\ outWeights = [r \in Ranks |-> [i \in Slots |-> NoWeight]]

-----------------------------------------------------------------------------
\* The caller makes the next call: Buffer.dispatch or Buffer.combine.  With
\* inter_rank_sync the rank goes to a barrier first.
StartCall(r) ==
    /\ step[r] \in {"idle", "computed", "combined"}
    /\ call[r] < Len(program.ops)
    /\ call' = [call EXCEPT ![r] = @ + 1]
    /\ IF program.ops[call[r] + 1].sync
       THEN Arrive(r) /\ GoOn(r, "sync")
       ELSE GoOn(r, "start") /\ UNCHANGED arrived
    /\ UNCHANGED <<inputs, round, pc, shared, tpe, alloc, plan, todo,
                   program, buffers, dups, local, pending, results>>

Started(r) == step[r] \in {"start", "sync"} /\ PassesCall(r)

\* A dispatch without a plan plans first; with one it goes on to scatter.
StartDispatch(r) ==
    /\ Started(r)
    /\ pending' = [pending EXCEPT ![r] = Grid]
    /\ \/ Op(r).kind = "fresh" /\ StartPlanning(r) /\ GoOn(r, "planning")
       \/ Op(r).kind = "reuse" /\ UNCHANGED planVars /\ GoOn(r, "scatter")
    /\ UNCHANGED <<program, call, buffers, dups, local, results>>

Plan(r) ==
    /\ step[r] = "planning"
    /\ PlanStep(r)
    /\ GoOn(r, IF pc'[r] = "planned" THEN "scatter" ELSE "planning")
    /\ UNCHANGED <<program, call, buffers, dups, local, pending, results>>

\* dispatch_kernel, one program for each entry: the first entry of a token for a
\* rank carries the row, and every entry its weight.
Scatter(r) ==
    /\ step[r] = "scatter"
    /\ \E i \in pending[r] :
        LET v == plan[r].dst[i]
            d == DestRank(Canonical(v))
            l == DestRow(Canonical(v))
        IN  /\ hidden' = IF v < 0 THEN hidden
                         ELSE [hidden EXCEPT ![d][l] = SetToBag({<<call[r], r, TokenOf(i)>>})]
            /\ weights' = IF program.weighted
                          THEN [weights EXCEPT ![d][l] = <<call[r], r, i>>]
                          ELSE weights
            /\ pending' = [pending EXCEPT ![r] = @ \ {i}]
    /\ UNCHANGED <<planVars, program, call, step, dups, local, results>>

\* The rows of the padding of its segments, which a rank clears.
PaddingRows(zeroFill) ==
    UNION {zeroFill[g][1] .. (zeroFill[g][1] + zeroFill[g][2] - 1) : g \in Groups}

\* After the scatter the rank clears its padding rows and, for a fresh plan,
\* builds the groups of duplicates; then it goes to the barrier.
FinishScatter(r) ==
    /\ step[r] = "scatter"
    /\ pending[r] = {}
    /\ LET padding == PaddingRows(plan[r].layout.zeroFill)
       IN  /\ hidden' = [hidden EXCEPT ![r] =
                [l \in Rows |-> IF l \in padding THEN EmptyBag ELSE @[l]]]
           /\ weights' = IF program.weighted
                         THEN [weights EXCEPT ![r] =
                                [l \in Rows |-> IF l \in padding THEN NoWeight ELSE @[l]]]
                         ELSE weights
    /\ dups' = IF Op(r).kind = "fresh"
               THEN [dups EXCEPT ![r] = DupGroups(srcInfo[r])]
               ELSE dups
    /\ Arrive(r)
    /\ GoOn(r, "dispatched")
    /\ UNCHANGED <<inputs, round, pc, shared, tpe, alloc, plan, todo,
                   program, call, local, pending, results>>

\* The epilogue copies each primary row to its duplicates; without zero_copy the
\* rows are then copied out for the caller.
Epilogue(r) ==
    /\ step[r] = "dispatched"
    /\ PassesCall(r)
    /\ hidden' = [hidden EXCEPT ![r] =
            [l \in Rows |->
                LET of == {g \in dups[r] : l \in g.rows}
                IN  IF of = {} THEN @[l] ELSE @[(CHOOSE g \in of : TRUE).primary]]]
    /\ local' = IF program.zeroCopy THEN local
                ELSE [local EXCEPT ![r] = [rows |-> hidden'[r], weights |-> weights[r]]]
    /\ GoOn(r, "received")
    /\ UNCHANGED <<planVars, program, call, weights, dups, pending, results>>

\* The rows and weights the caller works on: with zero_copy the buffer itself.
View(r) == IF program.zeroCopy
           THEN [rows |-> hidden[r], weights |-> weights[r]]
           ELSE local[r]

\* The expert whose weights the caller applies to row l of rank r: the one of the
\* segment of cu_seqlens that holds it, None past the last segment.
ExpertOfRow(r, l) ==
    LET layout == plan[r].layout
        after == {g \in Groups : l < layout.cuSeqlens[g]}
        g == Min(after)
    IN  IF after = {} THEN None
        ELSE IF g < NumExperts THEN g ELSE layout.copied[g - NumExperts]

\* The caller applies the experts to its rows, in place if they are the buffer.
Compute(r) ==
    /\ step[r] = "received"
    /\ LET expert == [l \in Rows |-> ExpertOfRow(r, l)]
           rows == View(r).rows
           result == [l \in Rows |->
                        SetToBag({<<x, expert[l]>> : x \in BagToSet(rows[l])})]
       IN  IF program.zeroCopy
           THEN hidden' = [hidden EXCEPT ![r] = result] /\ UNCHANGED local
           ELSE local' = [local EXCEPT ![r].rows = result] /\ UNCHANGED hidden
    /\ GoOn(r, "computed")
    /\ UNCHANGED <<planVars, program, call, weights, dups, pending, results>>

\* combine copies the caller's rows into the buffer, adds the duplicates of each
\* group into its primary row, and goes to the barrier.
Prologue(r) ==
    /\ Started(r)
    /\ Op(r).kind = "combine"
    /\ LET rows == View(r).rows
           plus(m, sum) == sum (+) rows[m]
       IN  hidden' = [hidden EXCEPT ![r] =
            [l \in Rows |->
                LET of == {g \in dups[r] : g.primary = l}
                IN  IF of = {} THEN rows[l]
                    ELSE FoldSet(plus, rows[l], (CHOOSE g \in of : TRUE).rows)]]
    /\ weights' = IF program.weighted
                  THEN [weights EXCEPT ![r] = View(r).weights] ELSE weights
    /\ out' = [out EXCEPT ![r] = [s \in DOMAIN @ |-> EmptyBag]]
    /\ pending' = [pending EXCEPT ![r] = Grid]
    /\ Arrive(r)
    /\ GoOn(r, "gather")
    /\ UNCHANGED <<inputs, round, pc, shared, tpe, alloc, plan, todo,
                   program, call, dups, local, outWeights>>

\* combine_kernel: each entry reads its weight back, and the first entry of a
\* token for a rank adds the row to the token's output.  No barrier follows.
Gather(r) ==
    /\ step[r] = "gather"
    /\ PassesCall(r)
    /\ \E i \in pending[r] :
        LET v == plan[r].dst[i]
            d == DestRank(Canonical(v))
            l == DestRow(Canonical(v))
        IN  /\ out' = IF v < 0 THEN out
                      ELSE [out EXCEPT ![r][TokenOf(i)] = @ (+) hidden[d][l]]
            /\ outWeights' = IF program.weighted
                             THEN [outWeights EXCEPT ![r][i] = weights[d][l]]
                             ELSE outWeights
            /\ pending' = [pending EXCEPT ![r] = @ \ {i}]
    /\ GoOn(r, IF pending'[r] = {} THEN "combined" ELSE "gather")
    /\ UNCHANGED <<planVars, program, call, buffers, dups, local>>

Step(r) ==
    \/ StartCall(r) \/ StartDispatch(r) \/ Plan(r) \/ Scatter(r) \/ FinishScatter(r)
    \/ Epilogue(r) \/ Compute(r) \/ Prologue(r) \/ Gather(r)

BufferNext == \E r \in Ranks : Step(r)

BufferSpec == Init /\ [][BufferNext]_vars

\* A rank has a step to take: it neither waits at a barrier nor has ended.
CanStep(r) ==
    /\ pc[r] # "raised"
    /\ Passes(r) /\ PassesCall(r)
    /\ step[r] \in {"idle", "computed", "combined"} => call[r] < Len(program.ops)

\* The stream of each rank goes on (as Fairness in Planning).
BufferFairSpec ==
    /\ BufferSpec
    /\ \A r \in Ranks :
        []<>~CanStep(r)
            \/ []<><<BufferNext>>_<<pc[r], step[r], call[r], tpe[r], todo[r], pending[r]>>

-----------------------------------------------------------------------------
\* What the caller finds in its rows after a dispatch, duplicates included, is
\* the token of the entry that was sent to each row, of this very call, with its
\* weight; the padding is zero.
Delivered ==
    \A r \in Ranks : step[r] = "received" =>
        \A l \in Rows :
            LET owner == srcInfo[r][l]
                from == owner \div NvS
                entry == owner - from * NvS
            IN  /\ owner # None =>
                    /\ View(r).rows[l] = SetToBag({<<call[r], from, TokenOf(entry)>>})
                    /\ program.weighted => View(r).weights[l] = <<call[r], from, entry>>
                /\ l \in PaddingRows(plan[r].layout.zeroFill) => View(r).rows[l] = EmptyBag

\* The call of rank r's last dispatch, and the entries of its token s in it.
LastDispatch(r) == CHOOSE n \in 1 .. call[r] :
                      /\ program.ops[n].kind # "combine"
                      /\ \A m \in (n + 1) .. call[r] : program.ops[m].kind = "combine"
EntriesOf(s) == {i \in Slots : TokenOf(i) = s}

\* What the experts that were chosen for token s make of it: for each of them as many
\* results as it was chosen times.
ResultOf(r, s) ==
    LET token == <<LastDispatch(r), r, s>>
    IN  [x \in {<<token, TopkOf(r)[i]>> : i \in EntriesOf(s)} |->
            Cardinality({i \in EntriesOf(s) : <<token, TopkOf(r)[i]>> = x})]

\* Dispatch, experts and combine are together the sum the model asks for: the
\* output of a token is the result of each of its chosen experts on that very
\* token, as often as it was chosen, whichever ranks computed them and however far
\* ahead or behind the other ranks are.
Combined ==
    \A r \in Ranks : step[r] = "combined" =>
        \A s \in 0 .. (NumTokens - 1) : out[r][s] = ResultOf(r, s)

\* Every entry gets its own weight back from the rank it was sent to.
WeightsReturned ==
    \A r \in Ranks : step[r] = "combined" /\ program.weighted =>
        \A i \in Slots : outWeights[r][i] = <<LastDispatch(r), r, i>>

\* The rows of a rank change under the hands of its caller through nobody else.
CallerUndisturbed ==
    [][\A r \in Ranks :
        step[r] \in {"received", "computed"} /\ step'[r] = step[r] => View(r)' = View(r)]_vars

\* All ranks get to the end of their program.
ProgramsEnd == <>(\A r \in Ranks : call[r] = Len(program.ops) /\ step[r] = "combined")
=============================================================================
