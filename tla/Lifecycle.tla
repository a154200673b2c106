----------------------------- MODULE Lifecycle -----------------------------
(***************************************************************************)
(* Creation and destruction of Buffers on every rank: the symmetric tensors*)
(* that all ranks reach into, the collective calls in which they wait for  *)
(* each other, explicit destruction, garbage collection, also after the    *)
(* process group was destroyed, and a creation or a release that raises    *)
(* (api.py:40-149 and 187-255, buffer.py).                                 *)
(*                                                                         *)
(* All ranks run one program, each at its own pace, but collect in any     *)
(* order what it has left.  A call of the API only launches kernels, which *)
(* reach into the tensors of every rank until they have ended.  There are  *)
(* two kinds of rendezvous: dist.barrier of the group, and the allocation  *)
(* of symmetric memory.  That releasing it, or leaving the group, may wait *)
(* for the peers as well is not relied on.                                 *)
(***************************************************************************)
EXTENDS Integers, Sequences, FiniteSets, Functions

CONSTANTS
    NumRanks,           \* R
    Buffers,            \* the Buffers that a program creates
    Programs,           \* the calls of every rank, the programs that are explored
    MaxFailures         \* bound: how many creations and releases raise

ASSUME RanksAssumption == NumRanks \in Nat \ {0}
ASSUME BuffersAssumption == IsFiniteSet(Buffers)
ASSUME FailuresAssumption == MaxFailures \in Nat

VARIABLES
    explicit,           \* the Buffers made with explicitly_destroy
    rest,               \* the calls each rank has still to make
    phase,              \* where it is in the first of them
    nvshmemReady,       \* _NVSHMEM_READY of each process
    initialized,        \* the ranks on which dist.is_initialized()
    barriers,           \* the barriers of the group each rank has arrived at
    allocations,        \* the collective calls of NVSHMEM it has arrived at
    tensors,            \* the symmetric tensors of each Buffer on each rank
    ctx,                \* those that the Buffer's context still holds
    destroyed,          \* _destroyed of each Buffer on each rank
    inFlight,           \* the Buffers with kernels in flight on each rank
    releases,           \* how often each tensor was given to be released
    failures,           \* how many creations and releases raised
    alone               \* <<r, b>> if rank r destroyed Buffer b outside of the group

rendezvous == <<barriers, allocations>>
objects == <<tensors, ctx, destroyed, releases>>
group == <<initialized, alone>>
vars == <<explicit, rest, phase, nvshmemReady, rendezvous, objects, inFlight, failures, group>>

Ranks == 0 .. (NumRanks - 1)

\* In the order in which destroy releases them.
Keys == {"hidden_buf", "meta_buf"}
FirstOf(keys) == IF "hidden_buf" \in keys THEN "hidden_buf" ELSE "meta_buf"

\* A Buffer is created once and before it is used; in the end it is collected, and
\* before that the caller may have destroyed it.  No Buffer is created after the
\* process group was destroyed (the call that does so, "finalize", names any Buffer
\* made before, and leaves it alone).
Kinds == {"create", "use", "destroy", "drop", "finalize"}
Calls == [kind : Kinds, buf : Buffers]
Before(calls, i, kind) == \E j \in 1 .. (i - 1) : calls[j] = [calls[i] EXCEPT !.kind = kind]
Legal(calls) ==
    \A i \in 1 .. Len(calls) :
        /\ Before(calls, i, "create") <=> calls[i].kind # "create"
        /\ ~Before(calls, i, "drop")
        /\ calls[i].kind = "create" => \A j \in 1 .. (i - 1) : calls[j].kind # "finalize"

ASSUME ProgramsAssumption ==
    \A p \in Programs :
        /\ p.calls \in [Ranks -> Seq(Calls)] /\ \A r \in Ranks : Legal(p.calls[r])
        /\ p.explicit \subseteq Buffers

\* The programs of the ranks differ in the order of what is collected at the end.
ASSUME SameCallsAssumption ==
    \A p \in Programs : \E n \in 0 .. Len(p.calls[0]) : \A r \in Ranks :
        /\ n <= Len(p.calls[r])
        /\ \A i \in 1 .. n : p.calls[r][i] = p.calls[0][i]
        /\ \A i \in (n + 1) .. Len(p.calls[r]) : p.calls[r][i].kind = "drop"

Init ==
    /\ \E p \in Programs : explicit = p.explicit /\ rest = p.calls
    /\ phase = [r \in Ranks |-> "call"]
    /\ nvshmemReady = [r \in Ranks |-> FALSE]
    /\ barriers = [r \in Ranks |-> 0]
    /\ allocations = [r \in Ranks |-> 0]
    /\ tensors = [r \in Ranks |-> [x \in Buffers \X Keys |-> "none"]]
    /\ ctx = [r \in Ranks |-> [b \in Buffers |-> {}]]
    /\ destroyed = [r \in Ranks |-> [b \in Buffers |-> FALSE]]
    /\ inFlight = [r \in Ranks |-> {}]
    /\ releases = [r \in Ranks |-> [x \in Buffers \X Keys |-> 0]]
    /\ failures = 0
    /\ initialized = Ranks
    /\ alone = {}

-----------------------------------------------------------------------------
\* Rank r is about to make a call of a kind, or is in a phase of its call.
Calling(r, kind) ==
    phase[r] = "call" /\ rest[r] # <<>> /\ Head(rest[r]).kind = kind
Buf(r) == Head(rest[r]).buf

Goto(r, to) == phase' = [phase EXCEPT ![r] = to] /\ UNCHANGED rest
Return(r) ==
    /\ rest' = [rest EXCEPT ![r] = Tail(@)]
    /\ phase' = [phase EXCEPT ![r] = "call"]

\* The Buffers of rank r that are still to be collected.
Alive(r) == {b \in Buffers : /\ tensors[r][b, "hidden_buf"] # "none"
                             /\ [kind |-> "drop", buf |-> b] \in Range(rest[r])}

\* The call raises, and with it the program of the rank: what is left is that its
\* Buffers are collected, in some order.
Raise(r) ==
    /\ \E order \in Bijection(1 .. Cardinality(Alive(r)), Alive(r)) :
           rest' = [rest EXCEPT ![r] =
               [i \in DOMAIN order |-> [kind |-> "drop", buf |-> order[i]]]]
    /\ phase' = [phase EXCEPT ![r] = "call"]

\* Mutant of the next operator: a rank that is already at the next one is missed.
OpenAtOnce(arrivals, r) == \A q \in Ranks : arrivals[q] = arrivals[r]

\* All ranks have arrived at as many rendezvous of a kind.
Open(arrivals, r) == \A q \in Ranks : arrivals[q] >= arrivals[r]

Arrive(arrivals, r) == [arrivals EXCEPT ![r] = @ + 1]

\* ensure_nvshmem_initialized: the first time, it waits for all ranks.
EnsureNvshmemInitialized(r) ==
    /\ Calling(r, "create")
    /\ IF nvshmemReady[r] THEN UNCHANGED allocations
       ELSE allocations' = Arrive(allocations, r)
    /\ nvshmemReady' = [nvshmemReady EXCEPT ![r] = TRUE]
    /\ Goto(r, "initialized")
    /\ UNCHANGED <<explicit, barriers, objects, inFlight, failures, group>>

\* create_nvl_dist_tensor, for both tensors: heap memory that is not zeroed.
Allocate(r) ==
    /\ phase[r] = "initialized"
    /\ Open(allocations, r)
    /\ allocations' = Arrive(allocations, r)
    /\ tensors' = [tensors EXCEPT ![r] =
            [x \in DOMAIN @ |-> IF x[1] = Buf(r) THEN "raw" ELSE @[x]]]
    /\ Goto(r, "allocated")
    /\ UNCHANGED <<explicit, nvshmemReady, barriers, ctx, destroyed, releases,
                   inFlight, failures, group>>

\* _create_context zeroes them and goes to the barrier.
Zero(r) ==
    /\ phase[r] = "allocated"
    /\ Open(allocations, r)
    /\ tensors' = [tensors EXCEPT ![r] =
            [x \in DOMAIN @ |-> IF x[1] = Buf(r) THEN "zeroed" ELSE @[x]]]
    /\ barriers' = Arrive(barriers, r)
    /\ Goto(r, "zeroed")
    /\ UNCHANGED <<explicit, nvshmemReady, allocations, ctx, destroyed, releases,
                   inFlight, failures, group>>

\* The barrier is passed, and __init__ returns.
Created(r) ==
    /\ phase[r] = "zeroed"
    /\ Open(barriers, r)
    /\ ctx' = [ctx EXCEPT ![r][Buf(r)] = Keys]
    /\ Return(r)
    /\ UNCHANGED <<explicit, nvshmemReady, rendezvous, tensors, destroyed, releases,
                   inFlight, failures, group>>

\* Or it raises after the barrier (MOONEP_NUM_SMS_DEDUP is out of range), and leaves
\* a Buffer with a context to the collector.
CreateRaises(r) ==
    /\ phase[r] = "zeroed"
    /\ Open(barriers, r)
    /\ failures < MaxFailures
    /\ failures' = failures + 1
    /\ ctx' = [ctx EXCEPT ![r][Buf(r)] = Keys]
    /\ Raise(r)
    /\ UNCHANGED <<explicit, nvshmemReady, rendezvous, tensors, destroyed, releases,
                   inFlight, group>>

\* A call of dispatch, combine or reduce_grad: _require_ctx, then launches.
Use(r) ==
    /\ Calling(r, "use")
    /\ IF destroyed[r][Buf(r)]
       THEN Raise(r) /\ UNCHANGED inFlight
       ELSE /\ inFlight' = [inFlight EXCEPT ![r] = @ \cup {Buf(r)}]
            /\ Return(r)
    /\ UNCHANGED <<explicit, nvshmemReady, rendezvous, objects, failures, group>>

\* The kernels in flight on rank r for Buffer b end.
KernelsEnd(r, b) ==
    /\ b \in inFlight[r]
    /\ inFlight' = [inFlight EXCEPT ![r] = @ \ {b}]
    /\ UNCHANGED <<explicit, rest, phase, nvshmemReady, rendezvous, objects, failures, group>>

\* destroy returns at once if the Buffer is destroyed, and __del__ also if the
\* caller was to destroy it explicitly.
NothingToDestroy(r) ==
    /\ \/ Calling(r, "destroy") /\ destroyed[r][Buf(r)]
       \/ Calling(r, "drop") /\ (destroyed[r][Buf(r)] \/ Buf(r) \in explicit)
    /\ Return(r)
    /\ UNCHANGED <<explicit, nvshmemReady, rendezvous, objects, inFlight, failures, group>>

\* The caller destroys the process group.
DestroyGroup(r) ==
    /\ Calling(r, "finalize")
    /\ initialized' = initialized \ {r}
    /\ Return(r)
    /\ UNCHANGED <<explicit, nvshmemReady, rendezvous, objects, inFlight, failures, alone>>

\* Mutant of the next operator: the peers are not waited for.
PreparesAlone(r) == inFlight[r] = {} /\ UNCHANGED barriers

\* destroy waits for all kernels of this rank, on all streams, and goes to the
\* barrier, if there still is a group.
Prepares(r) ==
    /\ inFlight[r] = {}
    /\ barriers' = IF r \in initialized THEN Arrive(barriers, r) ELSE barriers

Destroy(r) ==
    /\ \/ Calling(r, "destroy")
       \/ Calling(r, "drop") /\ Buf(r) \notin explicit
    /\ ~destroyed[r][Buf(r)]
    /\ Prepares(r)
    /\ alone' = IF r \in initialized THEN alone ELSE alone \cup {<<r, Buf(r)>>}
    /\ Goto(r, "releasing")
    /\ UNCHANGED <<explicit, nvshmemReady, allocations, objects, inFlight, failures,
                   initialized>>

\* It goes on to release the tensors.
Releasing(r) == phase[r] = "releasing" /\ (r \in initialized => Open(barriers, r))

\* Mutant of the next operator: a tensor leaves the context after it is released.
HeldIfLast(held, key, raises) == IF raises THEN held ELSE held \ {key}

\* What the context holds once a tensor of it was released, or that has raised.
Held(held, key, raises) == held \ {key}

\* A tensor is taken from the context, and release_nvl_dist_tensor gets it.
Release(r, raises) ==
    /\ Releasing(r)
    /\ ctx[r][Buf(r)] # {}
    /\ LET key == FirstOf(ctx[r][Buf(r)])
       IN  /\ ctx' = [ctx EXCEPT ![r][Buf(r)] = Held(@, key, raises)]
           /\ releases' = [releases EXCEPT ![r][<<Buf(r), key>>] = @ + 1]
           /\ tensors' = [tensors EXCEPT ![r][<<Buf(r), key>>] = "freed"]
    /\ UNCHANGED <<explicit, nvshmemReady, rendezvous, destroyed, inFlight, group>>

Releases(r) ==
    /\ Release(r, FALSE)
    /\ UNCHANGED <<rest, phase, failures>>

\* The release raises: __del__ warns of it, and destroy lets it through to the
\* caller.  (Whether the memory is free then does not matter to the peers.)
ReleaseRaises(r) ==
    /\ failures < MaxFailures
    /\ Release(r, TRUE)
    /\ failures' = failures + 1
    /\ IF Head(rest[r]).kind = "drop" THEN Return(r) ELSE Raise(r)

Destroyed(r) ==
    /\ Releasing(r)
    /\ ctx[r][Buf(r)] = {}
    /\ destroyed' = [destroyed EXCEPT ![r][Buf(r)] = TRUE]
    /\ Return(r)
    /\ UNCHANGED <<explicit, nvshmemReady, rendezvous, tensors, ctx, releases,
                   inFlight, failures, group>>

Host(r) ==
    \/ EnsureNvshmemInitialized(r) \/ Allocate(r) \/ Zero(r) \/ Created(r) \/ Use(r)
    \/ NothingToDestroy(r) \/ DestroyGroup(r) \/ Destroy(r) \/ Releases(r) \/ Destroyed(r)

Fails(r) == CreateRaises(r) \/ ReleaseRaises(r)

Next == \E r \in Ranks : Host(r) \/ Fails(r) \/ \E b \in Buffers : KernelsEnd(r, b)

Spec == Init /\ [][Next]_vars

\* Every process goes on with its program, and kernels end.
FairSpec ==
    /\ Spec
    /\ \A r \in Ranks : WF_vars(Host(r)) /\ \A b \in Buffers : WF_vars(KernelsEnd(r, b))

-----------------------------------------------------------------------------
\* Kernels reach into the tensors of every rank, so while some of a Buffer are in
\* flight on one rank, no rank has released its tensors or has still to zero them,
\* even though ranks are in different calls: except on a rank that destroyed that
\* Buffer outside of the process group, where destroy waits for nobody, and that
\* alone.  It is so as long as no call has raised in creation or release: the rank
\* that goes on after that arrives at the barriers of its collector in the place of
\* those that its peers are at for other Buffers.
PeersMapped ==
    failures = 0 =>
        \A r, q \in Ranks : \A b \in inFlight[r], key \in Keys :
            <<q, b>> \notin alone => tensors[q][b, key] = "zeroed"

\* No tensor is released twice, though destroy may be called again, by the caller
\* or the collector, after a release raised; and none is left out.
ReleasedOnce ==
    \A r \in Ranks, b \in Buffers, key \in Keys :
        /\ releases[r][b, key] <= 1
        /\ destroyed[r][b] => releases[r][b, key] = 1

\* Unless a creation or a release raises every rank gets through its program: all collective
\* calls find their partners, those that the collector makes included.
ProgramsEnd == <>(failures > 0 \/ \A r \in Ranks : rest[r] = <<>>)
=============================================================================
