# MoonEP-Triton: TLA+ models, model checking and proofs

MoonEP-Triton is a library for expert parallelism. `R` ranks hold `E / R` experts
each. For every batch each rank routes its `S` tokens to `K` experts. The library
balances the experts' work so that each rank computes exactly `S * K` rows, sends
the rows (`dispatch`), lets the caller apply the experts, and brings the results
back (`combine`). Ranks write into and read from each other's memory directly.
Nothing is acknowledged, and only barriers order what they do.

This directory models that protocol from the source in `src/moonep_td`.

## 1. Inventory

| component | state | operations | what is hard about it |
|---|---|---|---|
| grid-wide barrier, `_common.py:41-72` | the word `ctx["grid_sync_bar"]`, one for the life of a Buffer | arrive, spin, reset, by every CTA of a cooperative launch | the word is reused by every barrier; each CTA resets it |
| cross-rank barrier, `_common.py:75-82`, `inter_rank_sync.py` | arrivals in NVSHMEM | a grid barrier, `nvshmem_barrier_all`, a grid barrier | all ranks must call it equally often; it spans the whole job |
| phase B, `_planning_gpu.py:308-431` | group balances, quotas `z`, table `alloc` | pairing loop on the host; one CTA per home group distributes | greedy, with fixed iteration bounds; each rank computes it alone |
| phases C and D, `_planning_gpu.py:104-305, 434-520` | `cu_seqlens`, `expert_off`, `zero_fill_ranges`, `experts_to_copy`, `dst` | segments, padding, a row for every entry, duplicate marks | the rows computed on different ranks have to fit together |
| planning, `_planning_gpu.py:523-591`, `planning.py` | per rank: a row of counts, a row of scratch, `src_info` in symmetric memory; the plan | publish, barrier, gather; clear, barrier, publish, barrier | stale rows of an earlier round; ranks one step ahead or behind; a failure on one rank |
| dispatch, combine, `dispatch.py`, `dispatch_epilogue.py`, `combine_prologue.py`, `combine.py`, `api.py:275-473` | `hidden_buf`, weights, `dup_*`, the caller's copies | scatter, clear padding, epilogue; prologue, gather | remote writes and reads without acknowledgement; no barrier after `combine`; `zero_copy`; `inter_rank_sync=False` |
| deduplication map, `_dedup_builder.py` | `primary_packed`, `kmask`, `kidx_to_loff` | three passes with atomics | order of groups is not deterministic; must agree with the sender's marks |
| gradient reduction, `grad_reduce.py` | reduce buffers, work list | barrier, accumulate, barrier, clear, for each of three matrices | a slot is cleared by its holder after the expert's owner has read it; a rank without work must not skip a barrier |
| weight prefetch, `prefetch.py` | prefetch slots | tiled copy by plan | reads an expert's row where the rank's own full-weight tensor has it, in the owner's memory or in a replica; no barrier of its own |
| buffer lifecycle, `api.py:187-255`, `buffer.py` | `_destroyed`, `_ctx` | create, destroy, `__del__` | a collective barrier in a destructor, which is left out once the process group was destroyed; a creation or a release that fails |
| streams, `api.py:371-389, 456-473` | the communication stream, events | calls with `async_finish` | two streams share one counter and one buffer |

They interact as follows. `Buffer.dispatch` calls planning when no plan is given;
planning uses phase B, then C and D, and calls the cross-rank barrier four times (three
when the caller gives all counts). Dispatch then scatters rows by `dst`, clears its
padding by `zero_fill_ranges`, builds the deduplication map out of the
`src_info` that planning left in symmetric memory, and ends with a barrier and the
epilogue. `Buffer.combine` runs the prologue, a barrier, and a gather by the same
`dst`. Prefetch and gradient reduction use `experts_to_copy` of the plan: prefetch copies
the rows that the caller's full-weight tensors have for remote experts into local slots, without any barrier of its own,
and the reduction adds what the slots' gradients hold to those of the experts' owners. All of them run on
the caller's stream or on the communication stream of the Buffer, which owns the
symmetric memory from `create` to `destroy`.

What makes each component correct is stated by the properties of section 3. The
places where this code could go wrong and tests would hardly notice are listed in
`PROJECT.json` under `hazards`.

## 2. Modules

| module | models | builds on |
|---|---|---|
| `GridSync` | `grid_sync_kernel`, one action per atomic operation of a CTA, over several launches | |
| `PlanAlloc` | phase B as a function of the counts | |
| `TransferQuotas` | `_compute_transfer_quotas`, one action per round | `PlanAlloc` |
| `Allocation` | the abstract promise of phase B: in one step, a balanced allocation with one donor per rank | `PlanAlloc` |
| `BalanceAlloc` | `balance_alloc_gpu`: the quotas, the CTAs of the kernel one iteration at a time, the checks | `TransferQuotas`, implements `Allocation` |
| `PlanLayout` | phases C and D as functions | `PlanAlloc` |
| `GlobalPlan` | planning seen from above: the plans of all ranks for one routing, and what it means that plans fit together | `PlanLayout` |
| `Planning` | `launch_planning_gpu` on every rank, with symmetric memory and barriers | `PlanLayout` |
| `EPBuffer` | programs of `dispatch` and `combine` on every rank | `Planning` |
| `DupMap` | the abstract promise of the deduplication map: in one step, exactly the groups of the duplicates | `PlanLayout` |
| `DedupBuilder` | the kernels of `_dedup_builder.py`, one action per atomic operation or store of a CTA, over several builds in the same scratch arrays | `PlanLayout`, implements `DupMap` |
| `ExpertStep` | `prefetch_weight` and `reduce_grad` on every rank, tile by tile, in training steps | `PlanLayout` |
| `Lifecycle` | creation, use, `destroy` and `__del__` of several Buffers on every rank, the end of the process group, creations and releases that raise | |
| `Streams` | the calls of a Buffer on one rank, on two streams, with events, `record_stream` and the caching allocator | |
| `PlanAllocProofs` | theorems about phase B as a function, and the lemmas on sums over sets that they need | `PlanAlloc` |
| `GridSyncProofs`, `BalanceAllocProofs`, `PlanningProofs`, `DedupBuilderProofs`, `ExpertStepProofs`, `LifecycleProofs`, `StreamsProofs` | theorems about the module they are named after; `PlanningProofs` also about `GlobalPlan` and `EPBuffer` | these modules; `BalanceAllocProofs` and `PlanningProofs` also `PlanAllocProofs` |

`MC*.tla` and `MC*.cfg` give the constants their values for TLC. `EPBuffer` builds the
deduplication map in one step by the operator `DupGroups`; `DupMap` is that step as a
specification, and `DedupBuilder` is shown to implement it.

How state and actions correspond to the code:

* In `Planning`, `EPBuffer` and `ExpertStep` a rank is a process. Its label `pc` is the next point
  of its stream at which a peer could see a difference: a barrier, a read of a peer's memory, a store
  into one. Work between such points is local and is one action. In `EPBuffer` the next point of a call is in `step`,
  and while the call plans (`step` is "planning") the point within `launch_planning_gpu` is in the `pc` of `Planning`.
* `Arrive` and `BarrierOpen` are `launch_cross_rank_barrier`. A rank
  arrives with the last action before the barrier, and its next action has to wait
  until every rank has arrived at as many barriers. `AtBarrier` and
  `CallBarriers` list the labels that have a barrier before them.
* Remote stores are single steps: one for each program of `publish_src_info_kernel`
  (`PublishSource`), `dispatch_kernel` (`Scatter`) and for each entry that
  `combine_kernel` reads (`Gather`), in any order, interleaved with the other ranks.
* A row of the buffer is a bag of contributions. A token row holds
  `<<call, rank, token>>`, an expert adds its own name, and summing rows is summing bags,
  so that a row that is stale, missing, or counted twice shows in the result. Rounding
  in bf16 is not modelled. In `ExpertStep` a gradient is the sequence of what was added, since
  there the order is what makes the rounded sum repeatable, and a weight is the number of
  its updates. `weight` has a copy of each expert's weights in the memory of each rank: `prefetch_kernel` reads its argument with a
  plain load, so the constant `Memory` says in whose memory the rows of a rank's full-weight tensors are (a view of
  the owner's row, or a replica), `FullWeight` is what such a row holds, and `Update` changes the owner's copy only.
* In `DedupBuilder` a CTA is a process. `primaryPacked` holds the words that the code packs, with
  choice and row; `kmask` is a set for a bit mask. The kernels run one after another (`EndKernel`),
  and the scratch arrays are never new.
* In `Lifecycle` the host of each rank is a process with a program of calls. `rendezvous` counts the
  collective calls it has arrived at: `dist.barrier`, and the allocation of symmetric
  memory. `inFlight` are kernels that were launched and reach into the tensors of all
  ranks. `initialized` are the ranks on which `dist.is_initialized()`: on others `destroy` goes on without the barrier
  (`api.py:235`), and `alone` has the Buffers that were so destroyed.
* In `Streams` the host enqueues work on two streams, and each stream does its first item when it
  can. `memory` says of each tensor whether it holds what belongs there; a kernel reads its inputs at
  the time it runs, so what was overwritten by then shows in its results.
* The caller is external: it applies to each row the expert whose segment of
  `cu_seqlens` holds it (`Compute` of `EPBuffer`), adds its gradients to the slots and
  updates the weights (`Compute`, `Update` of `ExpertStep`). In `EPBuffer` a program is a
  list of calls; `MayElideSync` says when `inter_rank_sync=False` is safe, and the programs use
  every such freedom.

Operators marked "Mutant" are variations of the definition that follows them, each with
a plausible bug. They are in no specification; each is there to show that a
property notices the bug.

## 3. What the runs check

| run | instance | states | result |
|---|---|---|---|
| `grid_sync` | 4 CTAs, 2 launches | 193 | pass |
| `grid_sync_wedge` | 2 CTAs | | `LaunchCompletes` violated |
| `balance_alloc` | 3 ranks of 2 experts, capacity 4, all routings | 283 753 | pass |
| `global_plan_spread` | 3 ranks of 1 expert, 3 tokens, K = 1, all routings | 78 732 | pass |
| `global_plan_topk` | 2 ranks of 3 experts, 2 tokens, K = 2, 1 prefetch slot, all routings to 4 of the experts | 82 944 | pass |
| `planning` | 3 ranks, 1 token, K = 2, 2 rounds, 3 routings, counts given or gathered | 20 772 | pass |
| `ep_buffer` | 2 ranks of 2 experts, 3 programs of up to 4 calls, with and without `zero_copy` and weights | 112 032 | pass |
| `dedup_builder` | 2 ranks of 3 experts, 2 tokens of 3 choices, 4 contents of `src_info`, 3 CTAs, 2 builds | 30 946 | pass |
| `expert_step` | 3 ranks of 2 slots, 2 tiles, 4 plans, 2 steps, full weights as views and as replicas | 87 416 | pass |
| `expert_step_replicas` | 2 ranks of 1 slot, replicas, 2 steps | | `RemoteWeights` violated |
| `lifecycle` | 3 ranks, 3 Buffers, 6 programs, 1 creation or release that raises | 77 373 | pass |
| `streams` | 3 programs of 3 calls, each on either stream | 741 125 | pass |

**Grid barrier.** `SafeExit`: nobody leaves before all have arrived. `SelfReset`: a
launch that ends leaves zero. `TagMeansAll`: the word equals the tag exactly while
all have arrived and none has left. `ResetStrandsSpinners` says what goes wrong: every
CTA resets the word as it leaves, and a CTA that has not read the tag by then
never will. So all that holds of progress is `SomeCTALeaves`. The run
`grid_sync_wedge` exhibits the hang. `tests/test_grad_reduce.py:452-456` expects the
barrier not to wedge. A fix would be to let only one CTA reset the word after the rest
have left, or to spin on a change of the top bit without resetting. On hardware the
window is short, since spinning CTAs poll continuously, which is why tests pass.

**Phase B.** `SingleDonor`, `FilledStays`: `z[h, u]` is assigned and not added, which is
right only because a rank that was filled never takes part again.
`DonorWithinMeans`: a donor may give more than its excess but never more
than it has. `RoundsSuffice`, `Completes`: the two fixed loop bounds are enough.
`HomeShare`, `SingleHome`: what the distribution kernel writes is backed by the quotas.
`Deterministic`: the kernel computes `Alloc(counts)` under every interleaving, on which the
ranks silently rely. `ImplementsAllocation`: refinement of `Allocation`.

**Plans.** `RowsTiled`: the rows of all entries of all ranks and the
padding of each rank tile the buffers, with no row used twice. `RightExpert`: an entry lies in the
segment of its expert; `WeightsAtHand`: the rank owns the weights or has been told to prefetch them.
`OnePrimary`: of the entries of a token on one rank, the first is the primary.
`NeverRaises`: no assertion fails for any routing; the interesting one is that the padded
segments fit into `NvS` although there are `E + B` segments and padding for only
`2 * epn`. The assertion of `_planning_gpu.py:216-217`, that every entry has a destination before any rank
publishes, is not among them: it cannot fail when the rows tile the buffers. (`RowsTiled`, `RightExpert` and `OnePrimary` are checked by `global_plan_topk`, the
other two by `global_plan_spread`.)

**Planning.** `CountsCurrent`: no rank plans with the counts of another round.
`SourcesExact`, `SourcesStable`: `src_info` is complete when it is read and nobody stores
into it then. `AllPlanned`: every rank gets through (liveness).

**Dispatch and combine.** `Delivered`: what the caller finds in its rows, duplicates
included, is of this call. `Combined`: the output of a token is the sum over its
chosen experts, each as often as it was chosen (`ResultOf`). `WeightsReturned`: each entry gets its weight
back. `CallerUndisturbed`: no peer changes the rows a caller works on. `ProgramsEnd`: all
calls return (liveness).

**Deduplication map.** `RangesDisjoint`: no place of `dup_loffs` belongs to two groups, though a CTA
takes its group and its places with two atomics. `SumOrder`: the prologue sums the
duplicates of a group in the order of their choices under every schedule, so that the
rounded sum is repeatable although the numbers of groups and places are not.
`ImplementsDupMap`: refinement of `DupMap`, liveness included: the map is right whatever the scratch
arrays held before, and it gets built.

**Experts.** `WeightsCurrent`: a rank computes with the weights that its full-weight tensors hold, none of them replaced
since it was copied and none half updated, and where they are views of the owner's, with those of exactly the step
before. This is so although prefetch has no barrier: the one in the dispatch before it, and the first one of the reduction after
it, carry it. `RemoteWeights`, that a slot has the weights of the expert's *owner*, is what `prefetch.py:1` suggests and
`buffer.py:72-73` demands of remote rows; the run `expert_step_replicas` shows that it fails if the caller
passes a tensor of its own, as `tests/test_e2e.py:63-72` does: `prefetch_kernel` has no `symm_at`, so the
replica is copied and an update of the owner does not reach it. A fix would be to read the rows of remote experts through
`get_peer_tensor` or `symm_at`, or to demand views and say so. `GradsExact`: an
owner's gradient is its own plus, once each and in ascending order of slots,
what every holder of the expert left in this step. `ReadersUndisturbed`: no slot changes while a rank
adds, no weight while a rank copies. `AllStepsEnd`: every rank gets through, also one with nothing to
add or to clear (liveness).

**Lifecycle.** `PeersMapped`: while kernels of one rank may reach into a Buffer, no rank has
released its tensors or has yet to zero them. Two cases are left out, since the code does not keep it there. One is a
rank that destroys the Buffer after it destroyed the process group, as a collector at the exit of the interpreter does: `destroy` then
waits for its own kernels but not for its peers (`api.py:235`), so a slower peer may still be in a kernel that
reads what is released (the program `Exited` reaches this; only what that rank so destroyed is left out,
`alone`). The other is what happens after a creation or a release has raised: a rank
whose call raised goes on with what its collector destroys, and arrives at the barriers of that in the place of
those that its peers are at for other Buffers, so a barrier no longer means that all ranks have
ended the same Buffer. (A creation raises after its barrier when `MOONEP_NUM_SMS_DEDUP` is out of range, `api.py:214`, and leaves a Buffer
that has a context to the collector.) `ReleasedOnce`: no tensor is released twice, though
`destroy` is called again after a release raised, and none of a destroyed Buffer is left out.
`ProgramsEnd` (of `Lifecycle`): the collective calls find their partners, those of
the collector included (liveness, unless a creation or a release raises).

**Streams.** `ResultsRight`: what the caller reads once it has waited for the event of a call is what the
call computes from its arguments, whatever else is called, freed and allocated meanwhile.
`HeldWhileUsed`: no kernel still to run on the communication stream uses memory that the
allocator has handed out again.

### Why the bounds are enough

* Four CTAs: the states of a CTA towards the others are "not arrived", "arrived", "has
  seen the tag", "has left", and four can be in all of them at once. Two launches show
  what one leaves for the next. The theorems lift both bounds.
* Three ranks of two experts let a donor serve two receivers, and a donor that fills its last receiver beyond its
  excess (with group totals 6, 6 and 0 and a capacity of 4) becomes a receiver that another one fills. Longer chains need
  more ranks: what the quotas promise is proved for any number of them. A quota takes
  tokens from two experts only if no expert of the donor has as many left: three ranks need a
  capacity of 4 for that (two donors of 6 tokens, `3 + 3`, and a rank without any).
* Two ranks of three experts with a capacity of 4 give a rank two remote experts (8 tokens on one
  home group, `3 + 3 + 2`), more than its one prefetch slot; the routings go to the three
  experts of rank 0 and to one of rank 1, and `global_plan_spread` covers the other directions.
* Planning of a round is separated from that of the next by at least two barriers, so no
  rank is ever more than a round ahead: two rounds show all mixtures, and with three
  ranks one can be ahead of a peer and behind another. `PlanningProofs` proves both claims.
* In `ep_buffer` each kind of call follows each kind that may precede it, and the three routings
  send all tokens to one home group, spread them, and leave a rank with padding.
* In `dedup_builder` a rank has up to three groups and a group up to three rows; three CTAs can be in
  both atomics of pass 2 and in its stores at once. The contents of `src_info` were taken from
  runs of `GlobalPlan`: choices in the reverse order of rows, out of order, several groups, padding
  between. The second build, with other contents, finds the tables of the first.
* In `expert_step` a barrier too few lets a rank be one step ahead of another, so two steps and
  three ranks show all mixtures. Two tiles make a copy or a sum half done. The plans are
  the planner's for a skewed routing, an expert held twice by a rank and by a
  second one, a ring, and a plan without slots. Two ranks have views for full weights and one has replicas. `ExpertStepProofs` lifts all bounds.
* In `lifecycle` the lives of two Buffers follow each other, overlap, are ended by the collector
  in different orders, or one is used after its end; of three, one is used after the other two
  were ended; or the group is destroyed while kernels of a Buffer may be in flight and before the Buffer is
  collected. With three ranks a rank can wait for two that are in different calls. One call that raises
  separates the ranks; what is done after a second one is the same code. A rank that never destroys or collects a Buffer at all is not explored.
* In `streams` a plan is made by one call and used by two, or two plans are alive; either
  stream is chosen for each call.

### Fairness

Liveness assumes that each rank's stream goes on whenever it can (its kernels end and
its host goes on launching), and that the barrier opens when all ranks have arrived. The second
is an assumption on `launch_cross_rank_barrier`: `GridSync` shows when its
kernel fails it. In `GridSync` and `DedupBuilder` each resident CTA is weakly fair, which the GPU
provides for a cooperative launch, and for a CTA that waits for no other.
`Planning` and `EPBuffer` write fairness out, as
`[]<>~Ready(r) \/ []<><<Next>>_<<local state>>`, because `Ready` is a plain state predicate for
`ENABLED` that TLC evaluates quickly. `ExpertStep` has weak fairness of each rank's steps, `Lifecycle` of each
rank's program and of each kernel's end. `Lifecycle` assumes no fairness of a creation or a
release that raises (`Fails`). `Streams` claims no liveness: its caller need not do anything.

### Assumptions on callers and on external code

* `Planning`, `EPBuffer`: all ranks make the same calls in the same form
  (`tokens_per_expert` for all ranks, or for the own rank only); ranks that mix the forms would go to different
  numbers of barriers, and are not explored. A call that reuses a plan takes the latest one, though the API
  accepts any plan that the caller has kept.
* `ExpertStep`: the full weights that a rank passes to `prefetch_weight` have their rows where `Memory` says, each in the memory of any
  rank, and stay there; the caller adds to the reduce buffers of the slots in use only, and updates its weights after
  the reduction. The gradients and the reduce buffers are in symmetric memory, as `symm_at` in `grad_reduce.py` requires.
  Of the barriers of `dispatch` one is modelled; more only bring ranks closer together.
* `Lifecycle`: ranks make the same calls in the same order, `destroy_process_group` included, except that the collector may take
  what is left at the end in any order (`SameCallsAssumption`). No Buffer is created after the group was destroyed (`Legal`).
  An exception ends the program of the rank, and the
  collector takes its Buffers. Allocating symmetric memory is a collective call, as NVSHMEM says; that releasing
  it, or leaving the group, may wait as well is not relied on. After a creation or a release raised, ranks may wait for each
  other for ever, because one skips barriers that others go to: this is what `ProgramsEnd` excepts.
* `Streams`: as in `tests/test_e2e.py:253`, the caller waits for the event of an asynchronous call before it uses the
  results, and before a call on its own stream that uses the buffers of the context. The
  caching allocator and the events are PyTorch's and external.

## 4. What is proved

For every value of the constants that the named assumptions allow:

* `GridSyncProofs`: `TypeCorrect`, `BarrierSafe`, `CounterSelfResets`, `NoFalseRelease`,
  `Stranding`. The inductive invariant `IInv` adds to the type invariant the value of the
  word (`WordInv`): before any CTA has left it is the sum of the contributions of those
  that arrived, so that it equals the tag only when none is missing; afterwards it is zero and the
  CTAs still spinning read zero. `SafeExit` alone is not inductive, since it
  says nothing of the word. The assumptions are `NumCTAs <= Tag` (2^31 in the code) and at least one CTA.
* `PlanAllocProofs`: `AllocIsGood`, about the allocation as a function of the counts, for every routing of
  `R * Cap` tokens. The proof follows the pairing round by round (`Paired`): no balance is lost (`Levelled`), each round
  fills one rank for good, so that at most `R - n` are open after `n` rounds (`RoundsLeft`), and what a
  group still has is its balance and what it gave away (`Accounts`, `Exact`). Then it follows the distribution of one home group:
  every iteration that does anything finishes a quota or an expert (`InTime`), and there are at most
  `R - 1` quotas and `epn` experts, which `epn * R` iterations are enough for. So all tokens are placed,
  every rank computes `Cap` of them, and those of one other home group at most. Sums over sets of ranks and experts
  are folds of the library; they are taken apart by induction over the subsets of a finite set, which in turn is
  derived from the least element of a set of numbers (`LeastOf`, `NatInduct`, `SetInduct`), as theorems
  with a predicate for a parameter are out of the provers' reach.
* `BalanceAllocProofs`: of the quotas, `QuotasTypeCorrect`, `OneDonorPerRank`, `AllRanksFilled` (`RoundsSuffice`),
  `DonorsWithinMeans`, `FilledForGood` (`FilledStays`). `SingleDonor` alone is not
  inductive; it needs that a rank that was given tokens has balance zero, and the others follow from `Paired`.
  Of the kernel, for every interleaving of the CTAs, `TypeCorrect`, `GivesOnlyWhatItHas`, `OneHomeGroupPerRank`,
  `SameOnEveryRank` (`Deterministic`), `PromiseKept` and `NoAssertionFails`. `SingleHome` follows from
  `QuotaBacked` (an entry away from home is backed by a quota of the host). For `Deterministic` each CTA is
  at some point of the one run that `PlanAlloc` defines for its home group (`OnRun`), whatever the others do. `PromiseKept`
  is that every step is a step of `Allocation` or none (`ImplementsAllocation`; `Allocation!Spec` has no fairness), and
  `NoAssertionFails` adds by `AllocIsGood` that the host never rejects what the kernel computed.
* `PlanningProofs`: `PlansWithItsCounts` (`CountsCurrent`) and `SourcesKept` (`SourcesStable`). Neither is
  inductive, as neither says where ranks are relative to each other. `InOrder` does: every rank has a place, of its
  round and label (`Place`), and no rank's place is before a barrier that another has passed for certain (`LastPassed`).
  That `Planning` keeps it follows from `InStep`, which compares for each pair of ranks the barriers that they have arrived
  at (`Apart`, which needs no sum over the rounds; `Past`). All else is argued from the places only, for any step that passes a
  barrier of planning when all ranks are at it (`Turn`), so that it holds of the planning inside `EPBuffer`
  too, where barriers of other calls are counted in between. While a rank gathers counts
  each row it reads was published in its own round and not yet overwritten (`RowsPublished`,
  `Gathered`), and while it may read `src_info` no peer is in the step that
  stores into it. The module also holds `MarksUndone` and `OneUnmarked`, on the encoder of duplicates as a function of any
  destinations: the reader's `Canonical` undoes it, and of a token's entries on one rank exactly the one with the
  least choice is sent.
* `PlanningProofs`, on the plans of all ranks together: `PlansTile` (`RowsTiled`), `PlansReachExperts` (`RightExpert`),
  `PlansHaveWeights` (`WeightsAtHand`), `PlansSendOnce` (`OnePrimary`), `PlanningNeverRaises` (`NeverRaises`), of
  `GlobalPlan`, for every routing. The properties are predicates of any layouts and destinations (`RowsCovered`,
  `SentToExpert`, ...), proved once of those that the phases come to (`PlansFit`). So `RanksPlanTogether` states them of
  `Planning` as well, where ranks gather their counts at different times and in several rounds: no
  rank raises, and when all ranks have planned the same round their plans fit together.
  First come the layouts as functions. Ranks dealt an expert's tokens and segments of a
  buffer are both tiles laid one after the other (`Laid`, `LaidCovers`, `LaidInOrder`); recursive sums are sums over sets
  (`CuIsSum`), and the padding of all segments that have tokens fits since there are at most `2 * epn` of them
  (`FewExperts`, `SegmentsFit`), which rests on `AllocIsGood`. Positions of the entries for an expert are a bijection onto its tokens
  (`PositionsOfEntries`), and so entries land on rows of segments one to one and onto
  (`EachLands`, `LandsOnce`, `EachRowTaken`). Then `PlansMade` says for each rank and label what it has computed by then
  from the routing of its round; with the invariant above this is inductive.
* `SourcesAreExact` (`SourcesExact`): the invariant `SourcesInv` says of every rank that has cleared its `src_info` that it
  names the entries that have been stored in its round so far (`Done`, `Collected`). It is preserved as no
  entry is stored before the owner has cleared, and a rank that stores is in
  the same round as all ranks that have cleared, both by `InOrder`.
* `PlanningProofs`, on `dispatch` and `combine` of `EPBuffer`, for any legal program of calls, of any length, on any number of
  ranks: `CallersKeepTheirRows` (`CallerUndisturbed`), `EachRowIsDelivered` (`Delivered`), `CombineGivesTheResults`
  (`Combined`) and `WeightsComeBack` (`WeightsReturned`). The barriers of a call depend on its kind, its options, and on how it plans;
  so the places of a program at which a call has a barrier are a set (`Meetings`), a rank has arrived at as many barriers as there
  are meetings up to its place (`MetBy`, `At`), and the barrier before a rank is open only if all ranks are at its place or beyond
  (`OpenBuffer`). With `InMeeting` this gives `OrderInv`: the planning of every call is planning as above, and
  while a rank scatters all ranks are in the same dispatch, not beyond its last barrier (`ScatterTogether`). So nobody writes the rows of a caller
  who has them (`ViewKept`). `BufferInv` adds what the rows hold. During a dispatch each row whose entry has been sent
  holds its token (`ComesIn`; no two entries have one row, and no padding is a row of an entry); when the barrier opens all have been
  sent (`AllSent`), and the groups of duplicates, which the rank makes of its `src_info`, name for each marked entry the row
  of the unmarked one (`GroupsAre`, `CopiesArrive`), so all rows are right (`HasReceived`). The experts then make of each
  row what its entry asks for, as the row lies in the segment of its expert (`HasComputed`, `RowsExpert`). After the prologue the row of an
  unmarked entry is the bag of the results of all entries of its token on that rank (`HaveSums`, `RowsAddUp`), and stays so while any
  rank gathers, since no call may begin to write rows without a barrier after a combine. What a rank has gathered for a token is
  the bag over the entries whose unmarked entry has been treated (`HasGathered`, `CoveredBy`); bags of disjoint
  sets of entries add up (`TallyAdds`), and in the end all entries are covered (`CoveredAll`). The theorems use of the caller what `Legal` says: the barrier
  of a call may be left out only as in `MayElideSync`.
* `DedupBuilderProofs`: `PlacesDisjoint` (`RangesDisjoint`). A group that was taken but not yet recorded is on
  nobody's list, so the invariant also speaks of places that a CTA has taken and will record
  (`PendingApart`): they are apart from each other and from all recorded ones. `SumsInOrder` (`SumOrder`) and
  `BuildsDupMap`, the safety part of `ImplementsDupMap`. Their invariant `MInv` says of each row which of its
  steps are behind it: the CTA `l % NumSMs` visits it, and where that CTA is says what the row has done (`Beyond`).
  So the tables hold what the rows up to now have put there (`Tables`): the least packed word of a key is that of its least
  choice (`PackedOrder`), the mask has the choices of the rows that have marked it, and each choice its row.
  In pass 2 the tables no longer change; the counters are what the rows that took a group and its places have taken
  (`Taken`: as many groups as `Leading` rows, as many places as `Served` duplicates), recorded groups belong to different
  primary rows (`GroupsApart`), every primary row that has been visited has a group (`GroupsAll`), and a duplicate that
  has been placed is as many places into its group as it has smaller choices before it (`InOrder`, with `Rank`).
  That the arrays are long enough follows from the count of the rows. It assumes that an entry is
  in one row at most (`InfosDistinct`): `publish_src_info_kernel` stores each entry once.
* `ExpertStepProofs`: `ReadersSafe` (`ReadersUndisturbed`), `WeightsUpToDate` (`WeightsCurrent`) and `GradsAreExact` (`GradsExact`). A step has seven
  barriers, so the number of barriers that a rank has arrived at is a function of its step, label
  and matrix; two ranks are never more than one apart. The rest says what version each weight
  in each rank's memory, and each tile already copied, has at that position, whatever `Memory` is. For the gradients, `GInv` says that a slot in use holds the share of
  this step from the call of `reduce_grad` until its tile is cleared and nothing otherwise (`SlotsHold`, without which an old
  share would be counted again), and of each tile that it is the sum of the first `k` holders, where the
  work left says what `k` is (`Added`). A rank that adds finds what it needs in its peers' slots since these are at the same
  matrix and not past the barrier before they clear (`PeersReducing`). The holders of an
  expert are a sorted sequence: each has a place, no two the same, none free (`HoldersSorted`).
* `LifecycleProofs`: `ReleasesOnce` (`ReleasedOnce`), for any legal program on each rank (the ranks' programs need not
  agree) and any number of creations and releases that raise. Of each rank, a Buffer is either fresh or made, and of one that was
  made each tensor is in the context or was released once (`Fresh`, `Made`); what is left of the program fits this
  (`MayFollow`), which a call that raises keeps because only Buffers that were made are collected (a creation
  that raises has made its Buffer, `GetsContext`).
  It assumes that there are finitely many Buffers (`BuffersAssumption`). And `PeersStayMapped` (`PeersMapped`): by
  `SameCallsAssumption` there is a common program that all ranks follow up to the first call that raises or
  to what they collect at its end (`CommonExists`). The invariant places each rank in it: which of its calls it
  has made, and that the barriers it has arrived at are those of these calls, counted up to where the rank
  destroys the process group (`Placed`, `BarriersTo`, `Waits`, `Finalized`). So a rank that has been to a barrier of
  a call has made all calls before it (`Behind`), and what was released belongs to a Buffer that no rank has
  kernels for, as all are past the barrier that ends it (`NobodyUses`), or the rank has released it alone, outside of the group.
* `StreamsProofs`: `MemoryHeld` (`HeldWhileUsed`) and `CallersReadRight` (`ResultsRight`). Neither is inductive: both
  speak of the head of a queue or of results only. The invariant says of every item in a queue, counted from the
  start of its stream, which other items are done before it, by the order of the stream or through an event it waits
  for (`Precedes`, `Ordered`), that what the communication stream uses is recorded with the allocator
  (`RecordedAndFreed`), that memory is overwritten after all uses of what was there (`OverwrittenLast`), and which
  tensors already hold what they should.

`ExpertsToCopy` and `Holders` sort by position (what is at place `b` has `b` before it), and not
with an operator of the library that picks a sorted sequence, so that the proofs can speak of it.

Only model-checked: liveness (`SomeCTALeaves`, `Completes`, `AllPlanned`, `AllStepsEnd`, both `ProgramsEnd`, and that the kernels of
`DedupBuilder` end), which the prover does not do; and what `grid_sync_wedge` and `expert_step_replicas` show, one behaviour each.

## 5. What is not modelled, and the plan

Next, in this order:

1. Width: `dst`, `packed` keys and offsets of symmetric memory in 32 bits against
   `_check_dedup_encoding_bounds`. The bounds on the packed word are an assumption of `DedupBuilder`
   (`EncodingBounds`), which its run takes as tight as it allows; offsets such as `dest_rank * meta_stride` have no check in
   the code.
2. `zero_copy` together with `async_finish`; the barrier of the whole job for a group that is smaller.

Left out for good: the torch fallback of planning (it repeats the same phases on the host),
logging, shape checks, the padding of tensor sizes in `buffer.py`, the choice of block sizes, the NVSHMEM runtime, and rounding.
