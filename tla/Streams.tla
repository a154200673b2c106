------------------------------ MODULE Streams ------------------------------
(***************************************************************************)
(* The calls of one Buffer on one rank as the device sees them: the stream *)
(* of the caller, the communication stream on which a call with            *)
(* async_finish runs, the events between them, and the caching allocator,  *)
(* which hands out again what the caller has freed (api.py:257-498).       *)
(*                                                                         *)
(* The caller does what tests/test_e2e.py does: it waits for the event of  *)
(* an asynchronous call before it touches the results, and before a call on*)
(* its own stream that uses the buffers of the context.                    *)
(*                                                                         *)
(* A tensor is named by the call it was made for and its argument's name;  *)
(* it holds what belongs there (TRUE) or not.                              *)
(***************************************************************************)
EXTENDS Integers, Sequences, FiniteSets, Functions

CONSTANT Programs       \* the sequences of calls that are explored

VARIABLES
    program,            \* the calls that the caller makes
    calls,              \* the calls made: their kind, plan, and event
    queue,              \* what each stream has still to do
    enqueued,           \* how much was ever given to each stream
    waited,             \* how much of the communication stream the caller waits for
    recorded,           \* tensors that the allocator knows are used on it
    memory,             \* whether each tensor holds what belongs there
    context,            \* the call whose data the buffers of the context hold
    freed,              \* a tensor that the caller has freed, and its reuse
    seen                \* what the caller read in the results of some call

vars == <<program, calls, queue, enqueued, waited, recorded, memory, context, freed, seen>>

StreamNames == {"current", "comm"}

\* The arguments of each call: what its kernels read, and what they write.  A plan
\* is taken apart into experts_to_copy and its other tensors.
PlanTensors == {"plan", "experts_to_copy"}
Reads(kind) ==
    CASE kind = "dispatch"   -> {"hidden_sh", "route_weights_sk", "topk_flat", "tokens_per_expert"}
      [] kind = "redispatch" -> {"hidden_sh", "route_weights_sk", "plan"}
      [] kind = "prefetch"   -> {"full_weights", "experts_to_copy"}
      [] kind = "combine"    -> {"hidden_nvsh", "route_weights_nvs", "plan"}
      [] kind = "reduce"     -> {"full_grads", "reduce_buffers", "experts_to_copy"}
Writes(kind) ==
    CASE kind = "dispatch"   -> {"hidden_nvsh", "route_weights_nvs", "cu_seqlens"} \cup PlanTensors
      [] kind = "redispatch" -> {"hidden_nvsh", "route_weights_nvs"}
      [] kind = "prefetch"   -> {"full_weights"}
      [] kind = "combine"    -> {"hidden_sh", "route_weights_sk"}
      [] kind = "reduce"     -> {"full_grads", "reduce_buffers"}
Kinds == {"dispatch", "redispatch", "prefetch", "combine", "reduce"}

ASSUME ProgramsAssumption ==
    \A p \in Programs : p \in Seq(Kinds) /\ p # <<>> /\ p[1] = "dispatch"

Names == UNION {Reads(kind) \cup Writes(kind) : kind \in Kinds}

\* Mutant of the next operator: the results of dispatch are forgotten.
RecordsButResults(kind) ==
    CASE kind = "dispatch"   -> Reads(kind) \cup PlanTensors
      [] kind # "dispatch"   -> Reads(kind) \cup Writes(kind)

\* What each call gives to _record_streams.
Records(kind) ==
    CASE kind = "dispatch"   -> {"hidden_sh", "route_weights_sk", "hidden_nvsh", "route_weights_nvs"}
                                   \cup PlanTensors
                                   \cup {"topk_flat", "tokens_per_expert", "cu_seqlens"}
      [] kind = "redispatch" -> {"hidden_sh", "route_weights_sk", "hidden_nvsh", "route_weights_nvs"}
                                   \cup PlanTensors
      [] kind = "prefetch"   -> {"experts_to_copy", "full_weights"}
      [] kind = "combine"    -> {"hidden_sh", "hidden_nvsh", "route_weights_nvs", "route_weights_sk"}
                                   \cup PlanTensors
      [] kind = "reduce"     -> {"experts_to_copy", "full_grads", "reduce_buffers"}

\* All calls but prefetch_weight use the buffers of the context.
UsesContext(kind) == kind # "prefetch"

\* The tensor that is an argument of call n: its own, or one of its plan.
TensorOf(call, n, name) == <<IF name \in PlanTensors THEN call.plan ELSE n, name>>
Tensor(n, name) == TensorOf(calls[n], n, name)
Inputs(n) == {Tensor(n, name) : name \in Reads(calls[n].kind)}
Results(n) == {Tensor(n, name) : name \in Writes(calls[n].kind)}
Made(n) == {<<n, name>> : name \in Reads(calls[n].kind) \ PlanTensors}

Nothing == [tensor |-> <<>>, after |-> 0, reused |-> FALSE]

Init ==
    /\ program \in Programs
    /\ calls = <<>>
    /\ queue = [s \in StreamNames |-> <<>>]
    /\ enqueued = [s \in StreamNames |-> 0]
    /\ waited = 0
    /\ recorded = {}
    /\ memory = [t \in (1 .. Len(program)) \X Names |-> FALSE]
    /\ context = 0
    /\ freed = Nothing
    /\ seen = "unread"

-----------------------------------------------------------------------------
(* The host. *)
Enqueue(current, comm) ==
    LET work == [s \in StreamNames |-> IF s = "comm" THEN comm ELSE current]
    IN  /\ queue' = [s \in StreamNames |-> queue[s] \o work[s]]
        /\ enqueued' = [s \in StreamNames |-> enqueued[s] + Len(work[s])]

Work(do, n) == [do |-> do, arg |-> n]
Kernels(n) == <<Work("start", n), Work("finish", n)>>

\* How much of a stream is done: its events up to there have happened.
Done(s) == enqueued[s] - Len(queue[s])

\* The caller waits for what runs on the communication stream before a call on its
\* own stream needs the plan or the buffers of the context.
MayCallSync(kind) ==
    \A i \in 1 .. Len(calls) :
        (UsesContext(kind) /\ UsesContext(calls[i].kind)) \/ calls[i].kind = "dispatch"
            => waited >= calls[i].done

HasPlan(kind) ==
    kind # "dispatch" =>
        /\ calls # <<>>
        /\ freed.tensor \notin {Tensor(Len(calls), name) : name \in PlanTensors}

\* The next call, with a plan of its own or that of the call before.
Call(kind, done) ==
    [kind |-> kind, done |-> done,
     plan |-> IF kind = "dispatch" THEN Len(calls) + 1 ELSE calls[Len(calls)].plan]

\* The caller makes the inputs and the API runs the call on the current stream.
CallSync(kind) ==
    /\ Len(calls) < Len(program) /\ kind = program[Len(calls) + 1]
    /\ HasPlan(kind) /\ MayCallSync(kind)
    /\ LET n == Len(calls) + 1
       IN  /\ calls' = Append(calls, Call(kind, 0))
           /\ Enqueue(<<Work("make", n)>> \o Kernels(n), <<>>)
    /\ UNCHANGED <<program, waited, recorded, memory, context, freed, seen>>

\* Mutant of the next operator: the communication stream does not wait.
CommWorkAtOnce(n, event) == Kernels(n)

\* What a call gives to the communication stream: the event of the current stream
\* is waited for first.
CommWork(n, event) == <<Work("wait", event)>> \o Kernels(n)

\* Mutant of the next operator: the event is recorded before the kernels.
DoneEventEarly(position, work) == position

\* The event that the call returns comes after its kernels.
DoneEvent(position, work) == position + Len(work)

\* With async_finish the API records the tensors first.
CallAsync(kind) ==
    /\ Len(calls) < Len(program) /\ kind = program[Len(calls) + 1]
    /\ HasPlan(kind)
    /\ LET n == Len(calls) + 1
           work == CommWork(n, enqueued["current"] + 1)
           call == Call(kind, DoneEvent(enqueued["comm"], work))
       IN  /\ calls' = Append(calls, call)
           /\ Enqueue(<<Work("make", n)>>, work)
           /\ recorded' = recorded \cup {TensorOf(call, n, name) : name \in Records(kind)}
    /\ UNCHANGED <<program, waited, memory, context, freed, seen>>

\* The caller waits on its stream for the event of call n.
Wait(n) ==
    /\ waited < calls[n].done
    /\ waited' = calls[n].done
    /\ Enqueue(<<Work("wait", calls[n].done)>>, <<>>)
    /\ UNCHANGED <<program, calls, recorded, memory, context, freed, seen>>

\* The caller reads the results of a call, once it has waited for it.
ReadResults(n) ==
    /\ waited >= calls[n].done
    /\ seen = "unread"
    /\ freed.tensor \notin Results(n)
    /\ Enqueue(<<Work("read", n)>>, <<>>)
    /\ seen' = "asked"
    /\ UNCHANGED <<program, calls, waited, recorded, memory, context, freed>>

\* The caller frees a tensor of call n.  (Another one can be freed as well, but the
\* fate of one does not depend on it.)
Free(n) ==
    /\ freed = Nothing
    /\ \E t \in Inputs(n) \cup Results(n) :
        freed' = [Nothing EXCEPT !.tensor = t,
                      !.after = IF t \in recorded THEN enqueued["comm"] ELSE 0]
    /\ UNCHANGED <<program, calls, queue, enqueued, waited, recorded, memory, context, seen>>

\* The allocator hands the memory out again, to be overwritten on the current
\* stream; what is used on another stream has to have happened there.
Reuse ==
    /\ freed.tensor # <<>> /\ ~freed.reused
    /\ Done("comm") >= freed.after
    /\ freed' = [freed EXCEPT !.reused = TRUE]
    /\ Enqueue(<<Work("overwrite", freed.tensor)>>, <<>>)
    /\ UNCHANGED <<program, calls, waited, recorded, memory, context, seen>>

-----------------------------------------------------------------------------
(* The device: a stream does the first of its work. *)
Begins(s, do) == queue[s] # <<>> /\ Head(queue[s]).do = do
Arg(s) == Head(queue[s]).arg
Pop(s) == queue' = [queue EXCEPT ![s] = Tail(@)]
Other(s) == CHOOSE other \in StreamNames : other # s

Put(tensors, right) == memory' = [t \in DOMAIN memory |-> IF t \in tensors THEN right ELSE memory[t]]
Holds(tensors) == \A t \in tensors : memory[t]

MakeInputs(s) ==
    /\ Begins(s, "make")
    /\ Pop(s)
    /\ Put(Made(Arg(s)), TRUE)
    /\ UNCHANGED <<program, calls, enqueued, waited, recorded, context, freed, seen>>

\* An event of the other stream: what was enqueued there before it is done.
WaitEvent(s) ==
    /\ Begins(s, "wait")
    /\ Done(Other(s)) >= Arg(s)
    /\ Pop(s)
    /\ UNCHANGED <<program, calls, enqueued, waited, recorded, memory, context, freed, seen>>

\* The kernels up to those that fill the buffers of the context.
StartCall(s) ==
    /\ Begins(s, "start")
    /\ Pop(s)
    /\ context' = IF ~UsesContext(calls[Arg(s)].kind) THEN context
                  ELSE IF Holds(Inputs(Arg(s))) THEN Arg(s) ELSE 0
    /\ UNCHANGED <<program, calls, enqueued, waited, recorded, memory, freed, seen>>

\* Those that write the results from them.
FinishCall(s) ==
    /\ Begins(s, "finish")
    /\ Pop(s)
    /\ Put(Results(Arg(s)), /\ Holds(Inputs(Arg(s)))
                            /\ UsesContext(calls[Arg(s)].kind) => context = Arg(s))
    /\ UNCHANGED <<program, calls, enqueued, waited, recorded, context, freed, seen>>

Read(s) ==
    /\ Begins(s, "read")
    /\ Pop(s)
    /\ seen' = IF Holds(Results(Arg(s))) THEN "right" ELSE "wrong"
    /\ UNCHANGED <<program, calls, enqueued, waited, recorded, memory, context, freed>>

Overwrite(s) ==
    /\ Begins(s, "overwrite")
    /\ Pop(s)
    /\ Put({Arg(s)}, FALSE)
    /\ UNCHANGED <<program, calls, enqueued, waited, recorded, context, freed, seen>>

Device(s) ==
    MakeInputs(s) \/ WaitEvent(s) \/ StartCall(s) \/ FinishCall(s) \/ Read(s) \/ Overwrite(s)

Host ==
    \/ \E kind \in Kinds : CallSync(kind) \/ CallAsync(kind)
    \/ \E n \in 1 .. Len(calls) : Wait(n) \/ ReadResults(n) \/ Free(n)
    \/ Reuse

Next == Host \/ \E s \in StreamNames : Device(s)

Spec == Init /\ [][Next]_vars

-----------------------------------------------------------------------------
\* What a caller reads after it has waited for the event of a call is what the
\* call computes from its arguments: whatever else the caller calls, frees or
\* allocates meanwhile, on either stream.
ResultsRight == seen # "wrong"

\* No kernel that is still to run on the communication stream reads or writes
\* memory that the allocator has handed out again.
HeldWhileUsed ==
    freed.reused =>
        \A i \in 1 .. Len(queue["comm"]) :
            queue["comm"][i].do # "wait" =>
                freed.tensor \notin Inputs(queue["comm"][i].arg) \cup Results(queue["comm"][i].arg)
=============================================================================
