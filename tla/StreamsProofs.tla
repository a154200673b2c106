---------------------------- MODULE StreamsProofs ----------------------------
(***************************************************************************)
(* For every set of programs: the results that a caller reads are right,   *)
(* and the communication stream never uses memory handed out again.        *)
(*                                                                         *)
(* An item keeps its position, counted from the start of its stream, until *)
(* it is done.  An item comes before another one if it is ahead of it on   *)
(* its stream, or a wait ahead of the other is for an event after it.      *)
(***************************************************************************)
EXTENDS Streams, TLAPS

Dos == {"make", "wait", "start", "finish", "read", "overwrite"}
Works == [do : Dos, arg : Nat \cup (Nat \X Names)]
FreedTensors == [tensor : {<<>>} \cup (Nat \X Names), after : Nat, reused : BOOLEAN]

\* The positions of what a stream has still to do, and what is there.
Pending(s) == (Done(s) + 1) .. enqueued[s]
Item(s, p) == queue[s][p - Done(s)]
ItemIs(s, p, do, n) == p \in Pending(s) /\ Item(s, p).do = do /\ Item(s, p).arg = n

StreamsTypeOK ==
    /\ program \in Programs
    /\ calls \in Seq([kind : Kinds, done : Nat, plan : Nat])
    /\ Len(calls) <= Len(program)
    /\ queue \in [StreamNames -> Seq(Works)]
    /\ enqueued \in [StreamNames -> Nat]
    /\ \A s \in StreamNames : Done(s) \in Nat
    /\ waited \in Nat
    /\ memory \in [(1 .. Len(program)) \X Names -> BOOLEAN]
    /\ freed \in FreedTensors

\* The plan of a call is that of a dispatch, the last one.
PlansOfDispatches ==
    \A n \in 1 .. Len(calls) :
        /\ calls[n].plan \in 1 .. n
        /\ calls[calls[n].plan].kind = "dispatch"
        /\ calls[calls[n].plan].plan = calls[n].plan
        /\ calls[n].kind = "dispatch" => calls[n].plan = n

\* The two parts of a call are next to each other, on one stream.
Kernel(do) == do \in {"start", "finish"}
ItemOK(s, p, w) ==
    /\ w.do \in {"make", "start", "finish", "read"} => w.arg \in 1 .. Len(calls)
    /\ w.do \in {"make", "read", "overwrite"} => s = "current"
    /\ w.do = "wait" => w.arg \in Nat
    /\ w.do = "start" => ItemIs(s, p + 1, "finish", w.arg)
    /\ w.do = "finish" /\ p - 1 \in Pending(s) => ItemIs(s, p - 1, "start", w.arg)
    /\ w.do = "finish" => calls[w.arg].done = IF s = "comm" THEN p ELSE 0
ItemsOK == \A s \in StreamNames : \A p \in Pending(s) : ItemOK(s, p, Item(s, p))

Uses(n) == Inputs(n) \cup Results(n)

\* What is used on the communication stream is recorded, and what was freed is used
\* there up to the position that the allocator waits for.
RecordedAndFreed ==
    /\ \A p \in Pending("comm") : Kernel(Item("comm", p).do) =>
           /\ Uses(Item("comm", p).arg) \subseteq recorded
           /\ freed.tensor \in Uses(Item("comm", p).arg) => p <= freed.after
    /\ freed.tensor # <<>> => freed.tensor \in (1 .. Len(calls)) \X Names
    /\ freed.reused => freed.tensor # <<>> /\ Done("comm") >= freed.after

\* Memory is overwritten once, after all that the caller's stream was given to do
\* with the tensor that was there.
Touches(w) ==
    \/ Kernel(w.do) /\ freed.tensor \in Uses(w.arg)
    \/ w.do = "read" /\ freed.tensor \in Results(w.arg)
OverwrittenLast ==
    /\ \A p \in Pending("current") : Item("current", p).do = "overwrite" =>
           /\ freed.reused /\ Item("current", p).arg = freed.tensor
           /\ \A o \in Pending("current") : Item("current", o).do = "overwrite" => o = p
    /\ freed.reused =>
           \A p \in Pending("current") : Touches(Item("current", p)) =>
               \E o \in Pending("current") : p < o /\ Item("current", o).do = "overwrite"

\* The item at b of t is done when the one at p of s is done next.
Precedes(t, b, s, p) ==
    IF s = t THEN b < p
    ELSE \E w \in Pending(s) : w < p /\ Item(s, w).do = "wait" /\ Item(s, w).arg >= b

\* Call n needs call i to be over before it starts.
Needs(n, i) ==
    /\ i < n
    /\ \/ UsesContext(calls[n].kind) /\ UsesContext(calls[i].kind)
       \/ calls[i].kind = "dispatch"

\* What an item needs comes before it.
Requires(w, v) ==
    \/ Kernel(w.do) /\ v.do = "finish" /\ Needs(w.arg, v.arg)
    \/ Kernel(w.do) /\ v.do = "make" /\ v.arg = w.arg
    \/ w.do = "read" /\ v.do = "finish" /\ v.arg = w.arg
Ordered ==
    \A s, t \in StreamNames : \A p \in Pending(s), b \in Pending(t) :
        Requires(Item(s, p), Item(t, b)) => Precedes(t, b, s, p)

WaitPending ==
    waited > Done("comm") =>
        \E w \in Pending("current") : Item("current", w).do = "wait" /\ Item("current", w).arg >= waited

\* What was made or computed is right, until it is overwritten.
Gone(t) ==
    /\ freed.tensor = t /\ freed.reused
    /\ \A o \in Pending("current") : Item("current", o).do # "overwrite"
Right(t) == memory[t] \/ Gone(t)
NotPending(do, n) == \A s \in StreamNames : \A p \in Pending(s) : ~ItemIs(s, p, do, n)
MemoryRight ==
    \A n \in 1 .. Len(calls) :
        /\ NotPending("make", n) => \A t \in Made(n) : Right(t)
        /\ NotPending("finish", n) => \A t \in Results(n) : Right(t)

\* Between the parts of a call the context holds its data.
ContextKept ==
    \A s \in StreamNames : \A n \in 1 .. Len(calls) :
        ItemIs(s, Done(s) + 1, "finish", n) /\ UsesContext(calls[n].kind) => context = n

SInv ==
    /\ StreamsTypeOK /\ PlansOfDispatches /\ ItemsOK /\ RecordedAndFreed
    /\ OverwrittenLast /\ Ordered /\ WaitPending /\ MemoryRight /\ ContextKept
    /\ ResultsRight

-----------------------------------------------------------------------------
\* What a step of the device does to the positions: the first item of s is done.
Popped(s) ==
    /\ Done(s) + 1 \in Pending(s) /\ Item(s, Done(s) + 1) = Head(queue[s])
    /\ \A t \in StreamNames :
           /\ Done(t)' = (IF t = s THEN Done(t) + 1 ELSE Done(t))
           /\ Pending(t)' \subseteq Pending(t)
           /\ \A p \in Pending(t)' : Item(t, p)' = Item(t, p)
           /\ \A p \in Pending(t) : p \in Pending(t)' \/ (t = s /\ p = Done(s) + 1)

\* What a step of the host does to them: items are added at the end.
Extended(current, comm) ==
    /\ \A t \in StreamNames :
           /\ Done(t)' = Done(t)
           /\ Pending(t) \subseteq Pending(t)'
           /\ \A p \in Pending(t) : Item(t, p)' = Item(t, p) /\ p <= enqueued[t]
    /\ \A p \in Pending("current")' :
           \/ p \in Pending("current")
           \/ /\ p - enqueued["current"] \in 1 .. Len(current)
              /\ Item("current", p)' = current[p - enqueued["current"]]
    /\ \A p \in Pending("comm")' :
           \/ p \in Pending("comm")
           \/ /\ p - enqueued["comm"] \in 1 .. Len(comm)
              /\ Item("comm", p)' = comm[p - enqueued["comm"]]
    /\ \A k \in 1 .. Len(current) : \E p \in Pending("current")' :
           p = enqueued["current"] + k /\ Item("current", p)' = current[k]
    /\ \A k \in 1 .. Len(comm) : \E p \in Pending("comm")' :
           p = enqueued["comm"] + k /\ Item("comm", p)' = comm[k]

QueuesOK ==
    /\ queue \in [StreamNames -> Seq(Works)]
    /\ enqueued \in [StreamNames -> Nat]
    /\ \A s \in StreamNames : Done(s) \in Nat

LEMMA PendingRange ==
    ASSUME QueuesOK, NEW t \in StreamNames
    PROVE  /\ Done(t) \in Nat /\ enqueued[t] \in Nat
           /\ \A b : b \in Pending(t) <=> b \in Nat /\ Done(t) < b /\ b <= enqueued[t]
<1>1. Done(t) \in Nat /\ enqueued[t] \in Nat
  BY DEF QueuesOK
<1> QED
  BY <1>1 DEF Pending

LEMMA NotBeyond ==
    ASSUME NEW done \in Nat, NEW last \in Nat, done <= last, NEW p, p = done + 1
    PROVE  p \in Nat /\ ~(last + 1 < p)
OBVIOUS

\* Places counted from the head of a queue, and one step later from the new head.
LEMMA PlaceFrom ==
    ASSUME NEW done \in Nat, NEW last \in Nat, NEW len \in Nat, done = last - len,
           NEW p \in (done + 1) .. last
    PROVE  p \in Nat /\ p - done \in 1 .. len /\ p <= last
OBVIOUS

LEMMA PlaceAfter ==
    ASSUME NEW done \in Nat, NEW last \in Nat, NEW len \in Nat, done = last - len,
           NEW after, after = len - 1, NEW p \in Nat, done + 2 <= p, p <= last
    PROVE  p - done - 1 \in 1 .. after
OBVIOUS

LEMMA PopItems ==
    ASSUME QueuesOK, NEW s \in StreamNames, queue[s] # <<>>, Pop(s), UNCHANGED enqueued
    PROVE  QueuesOK' /\ Popped(s)
<1>1. queue[s] \in Seq(Works) /\ Len(queue[s]) \in Nat \ {0} /\ enqueued[s] \in Nat
  BY DEF QueuesOK
<1>2. /\ queue'[s] = Tail(queue[s]) /\ queue'[s] \in Seq(Works)
      /\ Len(queue'[s]) = Len(queue[s]) - 1
      /\ \A i \in 1 .. Len(queue'[s]) : queue'[s][i] = queue[s][i + 1]
      /\ Head(queue[s]) = queue[s][1]
  BY <1>1 DEF Pop, QueuesOK
<1>3. \A t \in StreamNames \ {s} : queue'[t] = queue[t]
  BY DEF Pop, QueuesOK
<1>4. queue' \in [StreamNames -> Seq(Works)]
  BY <1>2 DEF Pop, QueuesOK
<1>5. Done(s)' = Done(s) + 1 /\ Done(s) \in Nat /\ Done(s) = enqueued[s] - Len(queue[s])
  BY <1>1, <1>2 DEF Done, QueuesOK
<1>6. \A t \in StreamNames \ {s} : Done(t)' = Done(t)
  BY <1>3 DEF Done
<1>7. QueuesOK'
  <2>1. enqueued' \in [StreamNames -> Nat]
    BY DEF QueuesOK
  <2>2. \A t \in StreamNames : Done(t)' \in Nat
    <3> SUFFICES ASSUME NEW t \in StreamNames PROVE Done(t)' \in Nat
      OBVIOUS
    <3>1. CASE t = s
      BY <3>1, <1>5
    <3>2. CASE t # s
      BY <3>2, <1>6 DEF QueuesOK
    <3> QED
      BY <3>1, <3>2
  <2> QED
    BY <1>4, <2>1, <2>2 DEF QueuesOK
<1>8. Done(s) + 1 \in Pending(s) /\ Item(s, Done(s) + 1) = Head(queue[s])
  BY <1>1, <1>2, <1>5 DEF Pending, Item
<1>9. ASSUME NEW t \in StreamNames
      PROVE  /\ Done(t)' = (IF t = s THEN Done(t) + 1 ELSE Done(t))
             /\ Pending(t)' \subseteq Pending(t)
             /\ \A p \in Pending(t)' : Item(t, p)' = Item(t, p)
             /\ \A p \in Pending(t) : p \in Pending(t)' \/ (t = s /\ p = Done(s) + 1)
  <2>1. CASE t # s
    BY <2>1, <1>3, <1>6 DEF Pending, Item
  <2>2. CASE t = s
    <3>1. Pending(s)' = (Done(s) + 2) .. enqueued[s]
      BY <1>5, <1>1 DEF Pending
    <3>2. ASSUME NEW p \in Pending(s)' PROVE Item(s, p)' = Item(s, p) /\ p \in Pending(s)
      <4>1. p \in Nat /\ p - Done(s) - 1 \in 1 .. Len(queue'[s])
        <5>1. p \in Nat /\ Done(s) + 2 <= p /\ p <= enqueued[s]
          BY <3>1, <1>1, <1>5
        <5>2. /\ Len(queue'[s]) = Len(queue[s]) - 1 /\ Done(s) = enqueued[s] - Len(queue[s])
              /\ Len(queue[s]) \in Nat /\ Done(s) \in Nat /\ enqueued[s] \in Nat
          BY <1>1, <1>2, <1>5
        <5> QED
          BY <5>1, <5>2, PlaceAfter
      <4>2. Item(s, p)' = queue'[s][p - Done(s) - 1]
        BY <1>5, <4>1 DEF Item
      <4>3. Item(s, p)' = queue[s][(p - Done(s) - 1) + 1]
        BY <4>1, <4>2, <1>2
      <4>4. (p - Done(s) - 1) + 1 = p - Done(s)
        BY <4>1, <1>5
      <4>5. p \in Pending(s)
        BY <3>1, <1>5, <1>1 DEF Pending
      <4> QED
        BY <4>3, <4>4, <4>5 DEF Item
    <3>3. \A p \in Pending(s) : p \in Pending(s)' \/ p = Done(s) + 1
      BY <3>1, <1>5, <1>1 DEF Pending
    <3> QED
      BY <2>2, <3>2, <3>3, <1>5
  <2> QED
    BY <2>1, <2>2
<1> QED
  BY <1>7, <1>8, <1>9 DEF Popped

LEMMA EnqueueItems ==
    ASSUME QueuesOK, NEW current \in Seq(Works), NEW comm \in Seq(Works),
           Enqueue(current, comm)
    PROVE  /\ QueuesOK' /\ Extended(current, comm)
           /\ enqueued'["current"] = enqueued["current"] + Len(current)
           /\ enqueued'["comm"] = enqueued["comm"] + Len(comm)
<1> DEFINE work(s) == IF s = "comm" THEN comm ELSE current
<1>1. ASSUME NEW s \in StreamNames
      PROVE  /\ queue'[s] = queue[s] \o work(s) /\ queue'[s] \in Seq(Works)
             /\ enqueued'[s] = enqueued[s] + Len(work(s)) /\ enqueued'[s] \in Nat
             /\ Done(s)' = Done(s) /\ Done(s) \in Nat
             /\ Pending(s) \subseteq Pending(s)'
             /\ \A p \in Pending(s) : Item(s, p)' = Item(s, p) /\ p <= enqueued[s]
             /\ \A p \in Pending(s)' :
                    \/ p \in Pending(s)
                    \/ /\ p - enqueued[s] \in 1 .. Len(work(s))
                       /\ Item(s, p)' = work(s)[p - enqueued[s]]
             /\ \A k \in 1 .. Len(work(s)) : \E p \in Pending(s)' :
                    p = enqueued[s] + k /\ Item(s, p)' = work(s)[k]
  <2>1. queue[s] \in Seq(Works) /\ work(s) \in Seq(Works) /\ enqueued[s] \in Nat
    BY DEF QueuesOK
  <2>2. queue'[s] = queue[s] \o work(s) /\ enqueued'[s] = enqueued[s] + Len(work(s))
    BY DEF Enqueue
  <2> HIDE DEF work
  <2>3. /\ Len(queue[s]) \in Nat /\ Len(work(s)) \in Nat
        /\ queue'[s] \in Seq(Works) /\ Len(queue'[s]) = Len(queue[s]) + Len(work(s))
        /\ \A i \in 1 .. Len(queue[s]) : queue'[s][i] = queue[s][i]
        /\ \A i \in 1 .. Len(work(s)) : queue'[s][Len(queue[s]) + i] = work(s)[i]
    BY <2>1, <2>2
  <2>4. Done(s)' = Done(s) /\ Done(s) \in Nat /\ Done(s) = enqueued[s] - Len(queue[s])
    BY <2>1, <2>2, <2>3 DEF Done, QueuesOK
  <2>5. ASSUME NEW p \in Pending(s)
        PROVE  p \in Pending(s)' /\ Item(s, p)' = Item(s, p) /\ p <= enqueued[s]
    <3>1. p \in Nat /\ p - Done(s) \in 1 .. Len(queue[s]) /\ p <= enqueued[s]
      <4>1. p \in (Done(s) + 1) .. enqueued[s]
        BY DEF Pending
      <4>2. enqueued[s] \in Nat /\ Len(queue[s]) \in Nat
        BY <2>1, <2>3
      <4> QED
        BY <4>1, <4>2, <2>4, PlaceFrom
    <3>2. p \in Pending(s)'
      BY <2>1, <2>2, <2>3, <2>4 DEF Pending
    <3> QED
      BY <3>1, <3>2, <2>3, <2>4 DEF Item
  <2>6. ASSUME NEW k \in 1 .. Len(work(s)), NEW p, p = enqueued[s] + k
        PROVE  p \in Pending(s)' /\ Item(s, p)' = work(s)[k]
    <3>1. p \in Pending(s)'
      <4>1. p \in Int /\ Done(s)' + 1 <= p /\ p <= enqueued'[s]
        <5>1. /\ enqueued[s] \in Nat /\ Len(queue[s]) \in Nat /\ Len(work(s)) \in Nat
              /\ k \in 1 .. Len(work(s)) /\ p = enqueued[s] + k
              /\ enqueued'[s] = enqueued[s] + Len(work(s))
              /\ Done(s)' = enqueued[s] - Len(queue[s])
          BY <2>1, <2>2, <2>3, <2>4, <2>6
        <5> QED
          BY <5>1
      <4>2. Done(s)' + 1 \in Int /\ enqueued'[s] \in Int
        BY <2>1, <2>2, <2>3, <2>4
      <4> QED
        BY <4>1, <4>2 DEF Pending
    <3>2. Item(s, p)' = queue'[s][p - Done(s)]
      BY <2>4 DEF Item
    <3>3. p - Done(s) = Len(queue[s]) + k
      <4>1. /\ Done(s) = enqueued[s] - Len(queue[s]) /\ enqueued[s] \in Nat
            /\ Len(queue[s]) \in Nat /\ k \in Nat /\ p = enqueued[s] + k
        BY <2>1, <2>3, <2>4, <2>6
      <4> QED
        BY <4>1
    <3> QED
      BY <3>1, <3>2, <3>3, <2>3
  <2>7. ASSUME NEW p \in Pending(s)', p \notin Pending(s)
        PROVE  /\ p - enqueued[s] \in 1 .. Len(work(s))
               /\ Item(s, p)' = work(s)[p - enqueued[s]]
    <3>1. p - enqueued[s] \in 1 .. Len(work(s)) /\ enqueued[s] + (p - enqueued[s]) = p
      <4>1. p \in (Done(s) + 1) .. (enqueued[s] + Len(work(s)))
        BY <2>2, <2>4, <2>7 DEF Pending
      <4>2. p \notin (Done(s) + 1) .. enqueued[s]
        BY <2>7 DEF Pending
      <4>3. Done(s) \in Nat /\ enqueued[s] \in Nat /\ Len(work(s)) \in Nat
        BY <2>1, <2>3, <2>4
      <4> QED
        BY <4>1, <4>2, <4>3
    <3>2. PICK k \in 1 .. Len(work(s)) : k = p - enqueued[s]
      BY <3>1
    <3> QED
      BY <3>1, <3>2, <2>6
  <2> QED
    BY <2>1, <2>2, <2>3, <2>4, <2>5, <2>6, <2>7
<1>2. queue' \in [StreamNames -> Seq(Works)] /\ enqueued' \in [StreamNames -> Nat]
  <2>1. queue' = [s \in StreamNames |-> queue'[s]] /\ enqueued' = [s \in StreamNames |-> enqueued'[s]]
    BY DEF Enqueue
  <2> QED
    BY <2>1, <1>1
<1>3. QueuesOK'
  BY <1>1, <1>2 DEF QueuesOK
<1>4. work("comm") = comm /\ work("current") = current
  OBVIOUS
<1>5. "comm" \in StreamNames /\ "current" \in StreamNames
  BY DEF StreamNames
<1> HIDE DEF work
<1>6. Extended(current, comm)
  <2>1. \A t \in StreamNames :
           /\ Done(t)' = Done(t)
           /\ Pending(t) \subseteq Pending(t)'
           /\ \A p \in Pending(t) : Item(t, p)' = Item(t, p) /\ p <= enqueued[t]
    BY <1>1
  <2> QED
    BY <2>1, <1>1, <1>4, <1>5 DEF Extended
<1> QED
  BY <1>1, <1>3, <1>4, <1>5, <1>6

-----------------------------------------------------------------------------
(* The device. *)
LEMMA TypeQueues == StreamsTypeOK => QueuesOK
BY DEF StreamsTypeOK, QueuesOK

\* What all steps of the device have in common.
DeviceStep(s) ==
    /\ queue[s] # <<>> /\ Pop(s)
    /\ Head(queue[s]).do = "wait" => Done(Other(s)) >= Arg(s)
    /\ UNCHANGED <<program, calls, enqueued, waited, recorded, freed>>

LEMMA OtherStream ==
    ASSUME NEW s \in StreamNames, NEW t \in StreamNames, s # t
    PROVE  Other(s) = t
<1>1. \E other \in StreamNames : other # s
  BY DEF StreamNames
<1>2. Other(s) \in StreamNames /\ Other(s) # s
  BY <1>1 DEF Other
<1> QED
  BY <1>2 DEF StreamNames

LEMMA DevicePops ==
    ASSUME StreamsTypeOK, NEW s \in StreamNames, DeviceStep(s)
    PROVE  QueuesOK' /\ Popped(s)
BY TypeQueues, PopItems DEF DeviceStep

\* Calls and what was freed stay, so do the tensors.
LEMMA DeviceUses ==
    ASSUME NEW s \in StreamNames, DeviceStep(s), NEW n
    PROVE  /\ Inputs(n)' = Inputs(n) /\ Results(n)' = Results(n) /\ Made(n)' = Made(n)
           /\ Uses(n)' = Uses(n)
BY DEF DeviceStep, Inputs, Results, Made, Uses, Tensor, TensorOf

LEMMA DeviceKeepsItems ==
    ASSUME StreamsTypeOK, ItemsOK, NEW s \in StreamNames, DeviceStep(s)
    PROVE  ItemsOK'
<1> SUFFICES ASSUME NEW t \in StreamNames, NEW p \in Pending(t)'
             PROVE  ItemOK(t, p, Item(t, p))'
  BY DEF ItemsOK
<1>1. Popped(s) /\ QueuesOK /\ QueuesOK'
  BY DevicePops, TypeQueues
<1>2. p \in Pending(t) /\ Item(t, p)' = Item(t, p) /\ calls' = calls
  BY <1>1 DEF Popped, DeviceStep
<1>3. p \in Int /\ Done(t) \in Nat /\ Done(t)' \in Nat /\ enqueued' = enqueued /\ enqueued[t] \in Nat
  BY <1>1, <1>2 DEF Pending, QueuesOK, DeviceStep
<1>4. \A n, do : ItemIs(t, p + 1, do, n) => ItemIs(t, p + 1, do, n)'
  <2>1. p + 1 \in Pending(t) => p + 1 \in Pending(t)'
    BY <1>3 DEF Pending
  <2>2. p + 1 \in Pending(t)' => Item(t, p + 1)' = Item(t, p + 1)
    BY <1>1 DEF Popped
  <2> QED
    BY <2>1, <2>2 DEF ItemIs
<1>5. \A n, do : p - 1 \in Pending(t)' /\ ItemIs(t, p - 1, do, n) => ItemIs(t, p - 1, do, n)'
  <2>1. p - 1 \in Pending(t)' => Item(t, p - 1)' = Item(t, p - 1) /\ p - 1 \in Pending(t)
    BY <1>1 DEF Popped
  <2> QED
    BY <2>1 DEF ItemIs
<1>6. p - 1 \in Pending(t)' => p - 1 \in Pending(t)
  BY <1>1 DEF Popped
<1>7. ItemOK(t, p, Item(t, p))
  BY <1>2 DEF ItemsOK
<1> QED
  BY <1>2, <1>4, <1>5, <1>6, <1>7 DEF ItemOK

LEMMA DeviceKeepsOrder ==
    ASSUME StreamsTypeOK, ItemsOK, Ordered, NEW s \in StreamNames, DeviceStep(s)
    PROVE  Ordered'
<1> SUFFICES ASSUME NEW u \in StreamNames, NEW t \in StreamNames,
                    NEW p \in Pending(u)', NEW b \in Pending(t)',
                    Requires(Item(u, p), Item(t, b))'
             PROVE  Precedes(t, b, u, p)'
  BY DEF Ordered
<1>1. Popped(s) /\ QueuesOK /\ QueuesOK'
  BY DevicePops, TypeQueues
<1>2. /\ p \in Pending(u) /\ Item(u, p)' = Item(u, p)
      /\ b \in Pending(t) /\ Item(t, b)' = Item(t, b)
  BY <1>1 DEF Popped
<1>3. calls' = calls
  BY DEF DeviceStep
<1>4. Requires(Item(u, p), Item(t, b))
  BY <1>2, <1>3 DEF Requires, Needs, Kernel, UsesContext
<1>5. Precedes(t, b, u, p)
  BY <1>2, <1>4 DEF Ordered
<1>6. CASE u = t
  BY <1>5, <1>6 DEF Precedes
<1>7. CASE u # t
  <2>1. PICK w \in Pending(u) : w < p /\ Item(u, w).do = "wait" /\ Item(u, w).arg >= b
    BY <1>5, <1>7 DEF Precedes
  <2>2. w \in Pending(u)'
    <3> SUFFICES ASSUME w \notin Pending(u)' PROVE FALSE
      OBVIOUS
    <3>1. u = s /\ w = Done(s) + 1 /\ Item(u, w) = Head(queue[s])
      BY <1>1 DEF Popped
    <3>2. Done(t) >= Item(u, w).arg
      BY <3>1, <2>1, <1>7, OtherStream DEF DeviceStep, Arg
    <3>3. Item(u, w).arg \in Nat
      BY <2>1 DEF ItemsOK, ItemOK
    <3>4. b \in Nat /\ b > Done(t) /\ Done(t) \in Nat
      BY <1>1, <1>2, PendingRange
    <3> QED
      BY <2>1, <3>2, <3>3, <3>4
  <2>3. Item(u, w)' = Item(u, w)
    BY <1>1, <2>2 DEF Popped
  <2> QED
    BY <2>1, <2>2, <2>3, <1>7 DEF Precedes
<1> QED
  BY <1>6, <1>7

LEMMA DeviceKeepsRest ==
    ASSUME StreamsTypeOK, ItemsOK, RecordedAndFreed, OverwrittenLast, WaitPending,
           NEW s \in StreamNames, DeviceStep(s)
    PROVE  RecordedAndFreed' /\ OverwrittenLast' /\ WaitPending'
<1>1. Popped(s) /\ QueuesOK /\ QueuesOK'
  BY DevicePops, TypeQueues
<1>2. /\ calls' = calls /\ enqueued' = enqueued /\ waited' = waited /\ recorded' = recorded
      /\ freed' = freed
  BY DEF DeviceStep
<1>3. "comm" \in StreamNames /\ "current" \in StreamNames
  BY DEF StreamNames
<1>4. \A n : Uses(n)' = Uses(n) /\ Results(n)' = Results(n)
  BY DeviceUses
<1>5. \A t \in StreamNames : Done(t) \in Nat /\ Done(t)' \in Nat /\ Done(t)' >= Done(t)
  <2>1. \A t \in StreamNames : Done(t) \in Nat /\ Done(t)' = (IF t = s THEN Done(t) + 1 ELSE Done(t))
    BY <1>1, PendingRange DEF Popped
  <2> QED
    BY <2>1
<1>6. RecordedAndFreed'
  <2>1. ASSUME NEW p \in Pending("comm")', Kernel(Item("comm", p).do)'
        PROVE  /\ Uses(Item("comm", p).arg)' \subseteq recorded
               /\ freed.tensor \in Uses(Item("comm", p).arg)' => p <= freed.after
    <3>1. p \in Pending("comm") /\ Item("comm", p)' = Item("comm", p)
      BY <1>1, <1>3 DEF Popped
    <3>2. Kernel(Item("comm", p).do)
      BY <2>1, <3>1 DEF Kernel
    <3>3. Uses(Item("comm", p).arg)' = Uses(Item("comm", p).arg)
      BY <1>2, <3>1 DEF Uses, Inputs, Results, Tensor, TensorOf
    <3> QED
      BY <3>1, <3>2, <3>3 DEF RecordedAndFreed
  <2>2. freed.reused => Done("comm")' >= freed.after
    <3>1. freed.after \in Nat
      BY DEF StreamsTypeOK, FreedTensors
    <3> QED
      BY <3>1, <1>3, <1>5 DEF RecordedAndFreed
  <2> QED
    BY <1>2, <2>1, <2>2 DEF RecordedAndFreed, Kernel
<1>7. OverwrittenLast'
  <2>1. \A p \in Pending("current")' : p \in Pending("current") /\ Item("current", p)' = Item("current", p)
    BY <1>1, <1>3 DEF Popped
  <2>2. ASSUME NEW p \in Pending("current")', Touches(Item("current", p))', freed.reused
        PROVE  \E o \in Pending("current")' : p < o /\ (Item("current", o).do)' = "overwrite"
    <3>1. Touches(Item("current", p))
      BY <2>1, <2>2, <1>2 DEF Touches, Kernel, Uses, Inputs, Results, Tensor, TensorOf
    <3>2. PICK o \in Pending("current") : p < o /\ Item("current", o).do = "overwrite"
      BY <2>1, <2>2, <3>1 DEF OverwrittenLast
    <3>3. o \in Pending("current")'
      <4>1. p \in Nat /\ Done("current")' < p /\ o \in Nat /\ o <= enqueued["current"]
        BY <3>2, <2>1, <1>1, <1>3, <1>5, PendingRange DEF Pending
      <4>2. Done("current")' \in Nat /\ enqueued["current"] \in Nat
        BY <1>1, <1>3, <1>5 DEF QueuesOK
      <4> QED
        BY <3>2, <4>1, <4>2, <1>2 DEF Pending
    <3> QED
      BY <3>2, <3>3, <2>1
  <2> QED
    BY <1>2, <2>1, <2>2 DEF OverwrittenLast
<1>8. WaitPending'
  <2> SUFFICES ASSUME waited > Done("comm")'
               PROVE  \E w \in Pending("current")' :
                         (Item("current", w).do)' = "wait" /\ (Item("current", w).arg)' >= waited
    BY <1>2 DEF WaitPending
  <2>1. waited \in Nat /\ waited > Done("comm")
    BY <1>3, <1>5 DEF StreamsTypeOK
  <2>2. PICK w \in Pending("current") : Item("current", w).do = "wait" /\ Item("current", w).arg >= waited
    BY <2>1 DEF WaitPending
  <2>3. w \in Pending("current")'
    <3> SUFFICES ASSUME w \notin Pending("current")' PROVE FALSE
      OBVIOUS
    <3>1. s = "current" /\ Item("current", w) = Head(queue[s])
      BY <1>1, <1>3 DEF Popped
    <3>2. Done("comm") >= Item("current", w).arg
      BY <3>1, <2>2, <1>3, OtherStream DEF DeviceStep, Arg
    <3>3. Item("current", w).arg \in Nat
      BY <2>2, <1>3 DEF ItemsOK, ItemOK
    <3> QED
      BY <1>3, <1>5, <2>1, <2>2, <3>2, <3>3
  <2> QED
    BY <2>2, <2>3, <1>1, <1>3 DEF Popped
<1> QED
  BY <1>6, <1>7, <1>8

LEMMA HeadFirst ==
    ASSUME QueuesOK, NEW s \in StreamNames, NEW t \in StreamNames, NEW b \in Pending(t)
    PROVE  ~Precedes(t, b, s, Done(s) + 1)
<1>1. \A w \in Pending(s) : ~(w < Done(s) + 1)
  BY PendingRange
<1>2. s = t => ~(b < Done(s) + 1)
  BY <1>1
<1> QED
  BY <1>1, <1>2 DEF Precedes

\* The arguments of a kernel and its results are among those that are recorded and
\* named; the inputs of a dispatch are all its own.
LEMMA KindFacts ==
    ASSUME NEW kind \in Kinds
    PROVE  /\ Reads(kind) \subseteq Names /\ Writes(kind) \subseteq Names
           /\ Reads(kind) \subseteq Records(kind) /\ Writes(kind) \subseteq Records(kind)
           /\ kind = "dispatch" => Reads(kind) \cap PlanTensors = {}
           /\ kind = "dispatch" => PlanTensors \subseteq Writes(kind)
           /\ PlanTensors \subseteq Names
<1>1. Reads(kind) \subseteq Names /\ Writes(kind) \subseteq Names
  BY DEF Names
<1>2. "dispatch" \in Kinds
  BY DEF Kinds
<1>3. PlanTensors \subseteq Writes("dispatch")
  BY DEF Writes
<1>4. Reads("dispatch") \cap PlanTensors = {}
  BY DEF Reads, PlanTensors
<1>5. PlanTensors \subseteq Names
  BY <1>2, <1>3 DEF Names
<1>6. Reads(kind) \subseteq Records(kind) /\ Writes(kind) \subseteq Records(kind)
  <2>1. CASE kind = "dispatch"
    BY <2>1 DEF Reads, Writes, Records, PlanTensors
  <2>2. CASE kind = "redispatch"
    BY <2>2 DEF Reads, Writes, Records, PlanTensors
  <2>3. CASE kind = "prefetch"
    BY <2>3 DEF Reads, Writes, Records, PlanTensors
  <2>4. CASE kind = "combine"
    BY <2>4 DEF Reads, Writes, Records, PlanTensors
  <2>5. CASE kind = "reduce"
    BY <2>5 DEF Reads, Writes, Records, PlanTensors
  <2> QED
    BY <2>1, <2>2, <2>3, <2>4, <2>5 DEF Kinds
<1> QED
  BY <1>1, <1>3, <1>4, <1>5, <1>6

\* All tensors of a call are in the memory.
LEMMA UsesInMemory ==
    ASSUME StreamsTypeOK, PlansOfDispatches, NEW n \in 1 .. Len(calls)
    PROVE  /\ calls[n].kind \in Kinds /\ n \in Nat
           /\ calls[n].plan \in 1 .. n
           /\ Uses(n) \subseteq (1 .. Len(calls)) \X Names
           /\ Made(n) \subseteq (1 .. Len(calls)) \X Names
           /\ (1 .. Len(calls)) \X Names \subseteq DOMAIN memory
<1>1. calls[n].kind \in Kinds /\ calls[n].plan \in 1 .. n /\ n \in Nat /\ Len(calls) \in Nat
  <2>1. calls \in Seq([kind : Kinds, done : Nat, plan : Nat])
    BY DEF StreamsTypeOK
  <2> DEFINE C == [kind : Kinds, done : Nat, plan : Nat]
  <2>2. Len(calls) \in Nat /\ calls[n] \in C
    <3> HIDE DEF C
    <3>1. calls \in Seq(C)
      BY <2>1 DEF C
    <3> QED
      BY <3>1
  <2> QED
    BY <2>2 DEF PlansOfDispatches
<1>2. calls[n].plan \in 1 .. Len(calls)
  BY <1>1
<1>3. Reads(calls[n].kind) \subseteq Names /\ Writes(calls[n].kind) \subseteq Names
  BY <1>1, KindFacts
<1>4. Inputs(n) \subseteq (1 .. Len(calls)) \X Names /\ Results(n) \subseteq (1 .. Len(calls)) \X Names
  BY <1>2, <1>3 DEF Inputs, Results, Tensor, TensorOf
<1>5. Made(n) \subseteq (1 .. Len(calls)) \X Names
  BY <1>3 DEF Made
<1>6. 1 .. Len(calls) \subseteq 1 .. Len(program) /\ DOMAIN memory = (1 .. Len(program)) \X Names
  <2>1. Len(program) \in Nat
    BY ProgramsAssumption DEF StreamsTypeOK
  <2> QED
    BY <1>1, <2>1 DEF StreamsTypeOK
<1> QED
  BY <1>1, <1>4, <1>5, <1>6 DEF Uses

\* When a kernel is next, what it reads is right.
LEMMA KernelInputs ==
    ASSUME SInv, NEW s \in StreamNames, queue[s] # <<>>, Kernel(Head(queue[s]).do)
    PROVE  Arg(s) \in 1 .. Len(calls) /\ Holds(Inputs(Arg(s)))
<1> DEFINE n == Arg(s)
           p == Done(s) + 1
<1>1. QueuesOK /\ "comm" \in StreamNames /\ "current" \in StreamNames
  BY TypeQueues DEF SInv, StreamNames
<1>2. p \in Pending(s) /\ Item(s, p) = Head(queue[s])
  <2>1. queue[s] \in Seq(Works) /\ Len(queue[s]) \in Nat \ {0} /\ enqueued[s] \in Nat /\ Done(s) \in Nat
    BY <1>1 DEF QueuesOK
  <2>2. Done(s) = enqueued[s] - Len(queue[s])
    BY DEF Done
  <2>3. p \in Pending(s) /\ p - Done(s) = 1
    BY <2>1, <2>2 DEF Pending
  <2> QED
    BY <2>1, <2>3 DEF Item
<1>3. Item(s, p).arg = n /\ Kernel(Item(s, p).do)
  BY <1>2 DEF Arg
<1> HIDE DEF n
<1>4. n \in 1 .. Len(calls)
  BY <1>2, <1>3 DEF SInv, ItemsOK, ItemOK, Kernel
<1> HIDE DEF p
<1>5. \A t \in StreamNames : \A b \in Pending(t) : ~Requires(Item(s, p), Item(t, b))
  BY <1>1, <1>2, HeadFirst DEF SInv, Ordered, p
<1>6. \A t \in Uses(n) : ~Gone(t)
  <2> SUFFICES ASSUME freed.tensor \in Uses(n), freed.reused,
                      \A o \in Pending("current") : Item("current", o).do # "overwrite"
               PROVE  FALSE
    BY DEF Gone
  <2>1. CASE s = "comm"
    <3>1. p <= freed.after /\ Done("comm") >= freed.after
      BY <1>2, <1>3, <2>1 DEF SInv, RecordedAndFreed
    <3>2. Done("comm") \in Nat /\ freed.after \in Nat
      BY <1>1 DEF QueuesOK, SInv, StreamsTypeOK, FreedTensors
    <3> QED
      BY <3>1, <3>2, <2>1 DEF p
  <2>2. CASE s = "current"
    BY <1>2, <1>3, <2>2 DEF SInv, OverwrittenLast, Touches
  <2> QED
    BY <2>1, <2>2 DEF StreamNames
<1>7. NotPending("make", n)
  BY <1>3, <1>5 DEF NotPending, ItemIs, Requires
<1>8. StreamsTypeOK /\ PlansOfDispatches /\ MemoryRight
  BY DEF SInv
<1>9. calls[n].kind \in Kinds /\ calls[n].plan \in 1 .. n /\ n \in Nat
  BY <1>4, <1>8, UsesInMemory
<1>10. ASSUME NEW name \in Reads(calls[n].kind) PROVE memory[Tensor(n, name)]
  <2>1. Tensor(n, name) \in Uses(n)
    BY DEF Uses, Inputs
  <2>2. CASE name \notin PlanTensors
    <3>1. Tensor(n, name) = <<n, name>> /\ <<n, name>> \in Made(n)
      BY <2>2 DEF Tensor, TensorOf, Made
    <3>2. Right(Tensor(n, name))
      BY <1>4, <1>7, <1>8, <3>1 DEF MemoryRight
    <3> QED
      BY <2>1, <3>2, <1>6 DEF Right
  <2>3. CASE name \in PlanTensors
    <3> DEFINE d == calls[n].plan
    <3>1. d \in 1 .. Len(calls) /\ calls[d].kind = "dispatch" /\ calls[d].plan = d
      <4>1. d \in 1 .. n /\ calls[d].kind = "dispatch" /\ calls[d].plan = d
        BY <1>4, <1>8 DEF PlansOfDispatches
      <4>2. Len(calls) \in Nat
        BY <1>8 DEF StreamsTypeOK
      <4> QED
        BY <4>1, <4>2, <1>4, <1>9
    <3>2. calls[n].kind # "dispatch"
      BY <2>3, <1>9, KindFacts
    <3>3. d < n
      BY <3>1, <3>2, <1>9
    <3>4. NotPending("finish", d)
      BY <1>3, <1>5, <3>1, <3>3 DEF NotPending, ItemIs, Requires, Needs
    <3>5. Tensor(n, name) = <<d, name>> /\ Tensor(d, name) = <<d, name>>
      BY <2>3, <3>1 DEF Tensor, TensorOf
    <3>6. name \in Writes(calls[d].kind)
      BY <2>3, <3>1, KindFacts DEF Kinds
    <3>7. <<d, name>> \in Results(d)
      BY <3>5, <3>6 DEF Results
    <3>8. Right(Tensor(n, name))
      BY <1>8, <3>1, <3>4, <3>5, <3>7 DEF MemoryRight
    <3> QED
      BY <2>1, <3>8, <1>6 DEF Right
  <2> QED
    BY <2>2, <2>3
<1> QED
  BY <1>4, <1>10 DEF Holds, Inputs, n

\* The steps of the device, one by one.
LEMMA DeviceType ==
    ASSUME StreamsTypeOK, NEW s \in StreamNames, DeviceStep(s),
           memory' \in [(1 .. Len(program)) \X Names -> BOOLEAN]
    PROVE  StreamsTypeOK'
<1>1. QueuesOK'
  BY DevicePops
<1> QED
  BY <1>1 DEF StreamsTypeOK, QueuesOK, DeviceStep

\* What else is kept by a step that makes or computes nothing wrong.
LEMMA DeviceKeeps ==
    ASSUME SInv, NEW s \in StreamNames, DeviceStep(s),
           memory' \in [(1 .. Len(program)) \X Names -> BOOLEAN]
    PROVE  /\ StreamsTypeOK' /\ PlansOfDispatches' /\ ItemsOK' /\ RecordedAndFreed'
           /\ OverwrittenLast' /\ Ordered' /\ WaitPending'
           /\ \A t : Gone(t) => Gone(t)'
<1>1. StreamsTypeOK'
  BY DeviceType DEF SInv
<1>2. ItemsOK' /\ Ordered' /\ RecordedAndFreed' /\ OverwrittenLast' /\ WaitPending'
  BY DeviceKeepsItems, DeviceKeepsOrder, DeviceKeepsRest DEF SInv
<1>3. PlansOfDispatches'
  BY DEF SInv, PlansOfDispatches, DeviceStep
<1>4. \A t : Gone(t) => Gone(t)'
  <2>1. Popped(s) /\ "current" \in StreamNames
    BY DevicePops DEF SInv, StreamNames
  <2>2. \A o \in Pending("current")' : o \in Pending("current") /\ Item("current", o)' = Item("current", o)
    BY <2>1 DEF Popped
  <2>3. freed' = freed
    BY DEF DeviceStep
  <2> QED
    BY <2>2, <2>3 DEF Gone
<1> QED
  BY <1>1, <1>2, <1>3, <1>4

LEMMA DeviceMemory ==
    ASSUME SInv, NEW s \in StreamNames, DeviceStep(s),
           NEW tensors, Put(tensors, TRUE),
           Head(queue[s]).do = "make" => Made(Arg(s)) \subseteq tensors,
           Head(queue[s]).do = "finish" => Results(Arg(s)) \subseteq tensors
    PROVE  memory' \in [(1 .. Len(program)) \X Names -> BOOLEAN] /\ MemoryRight'
<1>1. /\ DOMAIN memory = (1 .. Len(program)) \X Names
      /\ \A t \in DOMAIN memory : memory[t] \in BOOLEAN
  BY DEF SInv, StreamsTypeOK
<1>2. /\ memory' \in [(1 .. Len(program)) \X Names -> BOOLEAN]
      /\ \A t \in DOMAIN memory : memory[t] \/ t \in tensors => memory'[t]
  BY <1>1 DEF Put
<1>3. \A t : Gone(t) => Gone(t)'
  BY <1>2, DeviceKeeps
<1>4. \A t \in DOMAIN memory : Right(t) \/ t \in tensors => Right(t)'
  BY <1>2, <1>3 DEF Right
<1>5. StreamsTypeOK /\ PlansOfDispatches /\ MemoryRight /\ calls' = calls
  BY DEF SInv, DeviceStep
<1>6. Popped(s)
  BY <1>5, DevicePops
<1>7. \A do, n : NotPending(do, n)' =>
                  NotPending(do, n) \/ (Head(queue[s]).do = do /\ Arg(s) = n)
  <2> SUFFICES ASSUME NEW do, NEW n, NotPending(do, n)', NEW t \in StreamNames,
                      NEW p \in Pending(t), ItemIs(t, p, do, n)
               PROVE  Head(queue[s]).do = do /\ Arg(s) = n
    BY DEF NotPending
  <2>1. CASE p \in Pending(t)'
    <3>1. Item(t, p)' = Item(t, p)
      BY <2>1, <1>6 DEF Popped
    <3>2. ItemIs(t, p, do, n)'
      BY <2>1, <3>1 DEF ItemIs
    <3> QED
      BY <2>1, <3>2 DEF NotPending
  <2>2. CASE p \notin Pending(t)'
    <3>1. t = s /\ p = Done(s) + 1 /\ Item(s, p) = Head(queue[s])
      BY <2>2, <1>6 DEF Popped
    <3> QED
      BY <3>1 DEF ItemIs, Arg
  <2> QED
    BY <2>1, <2>2
<1>8. ASSUME NEW n \in 1 .. Len(calls)
      PROVE  /\ NotPending("make", n)' => \A t \in Made(n)' : Right(t)'
             /\ NotPending("finish", n)' => \A t \in Results(n)' : Right(t)'
  <2>1. Made(n)' = Made(n) /\ Results(n)' = Results(n)
    BY DeviceUses
  <2>2. Made(n) \subseteq DOMAIN memory /\ Results(n) \subseteq DOMAIN memory
    BY <1>5, UsesInMemory DEF Uses
  <2>3. NotPending("make", n)' => \A t \in Made(n) : Right(t) \/ t \in tensors
    BY <1>5, <1>7 DEF MemoryRight
  <2>4. NotPending("finish", n)' => \A t \in Results(n) : Right(t) \/ t \in tensors
    BY <1>5, <1>7 DEF MemoryRight
  <2> QED
    BY <2>1, <2>2, <2>3, <2>4, <1>4
<1> QED
  BY <1>2, <1>5, <1>8 DEF MemoryRight

\* The context is kept by a step that leaves it, and starts no call.
LEMMA DeviceContext ==
    ASSUME SInv, NEW s \in StreamNames, DeviceStep(s), Head(queue[s]).do # "start",
           context' = context
    PROVE  ContextKept'
<1> SUFFICES ASSUME NEW t \in StreamNames, NEW n \in 1 .. Len(calls),
                    ItemIs(t, Done(t) + 1, "finish", n)', UsesContext(calls[n].kind)
             PROVE  context = n
  BY DEF ContextKept, DeviceStep, UsesContext
<1>1. Popped(s) /\ QueuesOK
  BY DevicePops, TypeQueues DEF SInv
<1>2. CASE t # s
  <2>1. Done(t)' = Done(t)
    BY <1>1, <1>2 DEF Popped
  <2>2. ItemIs(t, Done(t) + 1, "finish", n)
    BY <1>1, <2>1 DEF Popped, ItemIs
  <2> QED
    BY <2>2 DEF SInv, ContextKept
<1>3. CASE t = s
  <2>1. Done(s)' = Done(s) + 1 /\ Done(s) \in Nat
    BY <1>1, <1>3, PendingRange DEF Popped
  <2> DEFINE p == Done(s) + 2
  <2>2. p = Done(s)' + 1 /\ p - 1 = Done(s) + 1
    BY <2>1
  <2> HIDE DEF p
  <2>3. p \in Pending(s) /\ Item(s, p).do = "finish" /\ Item(s, p).arg = n
    BY <1>1, <1>3, <2>2 DEF Popped, ItemIs
  <2>4. p - 1 \in Pending(s) /\ Item(s, p - 1) = Head(queue[s])
    BY <1>1, <2>2 DEF Popped
  <2>5. ItemIs(s, p - 1, "start", n)
    BY <2>3, <2>4 DEF SInv, ItemsOK, ItemOK
  <2> QED
    BY <2>4, <2>5 DEF ItemIs
<1> QED
  BY <1>2, <1>3

LEMMA HeadItem ==
    ASSUME SInv, NEW s \in StreamNames, queue[s] # <<>>
    PROVE  Done(s) + 1 \in Pending(s) /\ Item(s, Done(s) + 1) = Head(queue[s])
<1>1. QueuesOK
  BY TypeQueues DEF SInv
<1>2. queue[s] \in Seq(Works) /\ Len(queue[s]) \in Nat \ {0} /\ enqueued[s] \in Nat /\ Done(s) \in Nat
  BY <1>1 DEF QueuesOK
<1>3. Done(s) = enqueued[s] - Len(queue[s])
  BY DEF Done
<1>4. Done(s) + 1 \in Pending(s) /\ Done(s) + 1 - Done(s) = 1
  BY <1>2, <1>3 DEF Pending
<1> QED
  BY <1>2, <1>4 DEF Item

LEMMA PutNothing == ASSUME SInv, memory' = memory PROVE Put({}, TRUE)
BY DEF Put, SInv, StreamsTypeOK

LEMMA MakeInputsStep == ASSUME SInv, NEW s \in StreamNames, MakeInputs(s) PROVE SInv'
<1>1. DeviceStep(s) /\ Head(queue[s]).do = "make" /\ context' = context /\ seen' = seen
  BY DEF MakeInputs, Begins, DeviceStep
<1>2. memory' \in [(1 .. Len(program)) \X Names -> BOOLEAN] /\ MemoryRight'
  BY <1>1, DeviceMemory DEF MakeInputs
<1>3. ContextKept'
  BY <1>1, DeviceContext
<1>4. ResultsRight'
  BY <1>1 DEF SInv, ResultsRight
<1> QED
  BY <1>1, <1>2, <1>3, <1>4, DeviceKeeps DEF SInv

LEMMA WaitEventStep == ASSUME SInv, NEW s \in StreamNames, WaitEvent(s) PROVE SInv'
<1>1. DeviceStep(s) /\ Head(queue[s]).do = "wait" /\ context' = context /\ seen' = seen
      /\ memory' = memory
  BY DEF WaitEvent, Begins, DeviceStep
<1>2. memory' \in [(1 .. Len(program)) \X Names -> BOOLEAN] /\ MemoryRight'
  BY <1>1, PutNothing, DeviceMemory
<1>3. ContextKept'
  BY <1>1, DeviceContext
<1>4. ResultsRight'
  BY <1>1 DEF SInv, ResultsRight
<1> QED
  BY <1>1, <1>2, <1>3, <1>4, DeviceKeeps DEF SInv

\* A call that starts finds no other one between its parts that needs the context.
LEMMA StartCallStep == ASSUME SInv, NEW s \in StreamNames, StartCall(s) PROVE SInv'
<1> DEFINE m == Arg(s)
           p == Done(s) + 1
<1>1. DeviceStep(s) /\ Head(queue[s]).do = "start" /\ seen' = seen /\ memory' = memory
  BY DEF StartCall, Begins, DeviceStep
<1>2. memory' \in [(1 .. Len(program)) \X Names -> BOOLEAN] /\ MemoryRight'
  BY <1>1, PutNothing, DeviceMemory
<1>3. ResultsRight'
  BY <1>1 DEF SInv, ResultsRight
<1>4. queue[s] # <<>> /\ calls' = calls /\ Popped(s) /\ QueuesOK
  BY <1>1, DevicePops, TypeQueues DEF DeviceStep, SInv
<1>5. m \in 1 .. Len(calls) /\ Holds(Inputs(m))
  BY <1>1, <1>4, KernelInputs DEF Kernel
<1>6. context' = IF UsesContext(calls[m].kind) THEN m ELSE context
  BY <1>5 DEF StartCall
<1>7. p \in Pending(s) /\ Item(s, p).do = "start" /\ Item(s, p).arg = m
  BY <1>1, <1>4, HeadItem DEF Arg
<1> HIDE DEF m
<1>8. ItemIs(s, p + 1, "finish", m)
  BY <1>7 DEF SInv, ItemsOK, ItemOK
<1>9. Done(s)' = p /\ p \in Nat
  BY <1>4, PendingRange DEF Popped
<1>10. ContextKept'
  <2> SUFFICES ASSUME NEW t \in StreamNames, NEW n \in 1 .. Len(calls),
                      ItemIs(t, Done(t) + 1, "finish", n)', UsesContext(calls[n].kind)
               PROVE  context' = n
    BY <1>4 DEF ContextKept, UsesContext
  <2>1. CASE t = s
    <3>1. ItemIs(s, p + 1, "finish", n)
      BY <1>4, <1>9, <2>1 DEF ItemIs, Popped
    <3>2. n = m
      BY <1>8, <3>1 DEF ItemIs
    <3> QED
      BY <1>6, <3>2
  <2>2. CASE t # s
    <3> DEFINE b == Done(t) + 1
    <3>1. Done(t)' = Done(t)
      BY <1>4, <2>2 DEF Popped
    <3>2. ItemIs(t, b, "finish", n)
      BY <1>4, <3>1 DEF ItemIs, Popped
    <3>3. CASE ~UsesContext(calls[m].kind)
      BY <1>6, <3>2, <3>3 DEF SInv, ContextKept
    <3>4. CASE UsesContext(calls[m].kind)
      <4>1. \A q \in Pending(t) : ~Precedes(t, q, s, p)
        BY <1>4, HeadFirst
      <4>2. \A q \in Pending(s) : ~Precedes(s, q, t, b)
        BY <1>4, HeadFirst
      <4>3. b \in Pending(t) /\ Item(t, b).do = "finish" /\ Item(t, b).arg = n
        BY <3>2 DEF ItemIs
      <4>4. p + 1 \in Pending(s) /\ Item(s, p + 1).do = "finish" /\ Item(s, p + 1).arg = m
        BY <1>8 DEF ItemIs
      <4> HIDE DEF b, p
      <4>5. ~(n < m)
        <5> SUFFICES ASSUME n < m PROVE FALSE
          OBVIOUS
        <5>1. Requires(Item(s, p), Item(t, b))
          BY <1>7, <3>4, <4>3 DEF Requires, Kernel, Needs
        <5> QED
          BY <1>7, <4>1, <4>3, <5>1 DEF SInv, Ordered
      <4>6. ~(m < n)
        <5> SUFFICES ASSUME m < n PROVE FALSE
          OBVIOUS
        <5>1. Requires(Item(t, b), Item(s, p + 1))
          BY <3>4, <4>3, <4>4 DEF Requires, Kernel, Needs
        <5> QED
          BY <4>2, <4>3, <4>4, <5>1 DEF SInv, Ordered
      <4>7. n = m
        BY <1>5, <4>5, <4>6
      <4>8. calls[m].done = (IF s = "comm" THEN p + 1 ELSE 0)
        BY <4>4 DEF SInv, ItemsOK, ItemOK
      <4>9. calls[n].done = (IF t = "comm" THEN b ELSE 0)
        BY <4>3 DEF SInv, ItemsOK, ItemOK
      <4>10. p \in Nat /\ b \in Nat \ {0}
        BY <1>9, <1>4, PendingRange DEF b
      <4> QED
        BY <2>2, <4>7, <4>8, <4>9, <4>10 DEF StreamNames
    <3> QED
      BY <3>3, <3>4
  <2> QED
    BY <2>1, <2>2
<1> QED
  BY <1>1, <1>2, <1>3, <1>10, DeviceKeeps DEF SInv

LEMMA FinishCallStep == ASSUME SInv, NEW s \in StreamNames, FinishCall(s) PROVE SInv'
<1>1. DeviceStep(s) /\ Head(queue[s]).do = "finish" /\ seen' = seen /\ context' = context
  BY DEF FinishCall, Begins, DeviceStep
<1>2. queue[s] # <<>>
  BY <1>1 DEF DeviceStep
<1>3. Arg(s) \in 1 .. Len(calls) /\ Holds(Inputs(Arg(s)))
  BY <1>1, <1>2, KernelInputs DEF Kernel
<1>4. UsesContext(calls[Arg(s)].kind) => context = Arg(s)
  BY <1>1, <1>2, <1>3, HeadItem DEF SInv, ContextKept, ItemIs, Arg
<1>5. Put(Results(Arg(s)), TRUE)
  <2>1. Put(Results(Arg(s)), /\ Holds(Inputs(Arg(s)))
                             /\ UsesContext(calls[Arg(s)].kind) => context = Arg(s))
    BY DEF FinishCall
  <2>2. (/\ Holds(Inputs(Arg(s)))
         /\ UsesContext(calls[Arg(s)].kind) => context = Arg(s)) = TRUE
    BY <1>3, <1>4
  <2> QED
    BY <2>1, <2>2
<1>6. memory' \in [(1 .. Len(program)) \X Names -> BOOLEAN] /\ MemoryRight'
  BY <1>1, <1>5, DeviceMemory
<1>7. ContextKept'
  BY <1>1, DeviceContext
<1>8. ResultsRight'
  BY <1>1 DEF SInv, ResultsRight
<1> QED
  BY <1>1, <1>6, <1>7, <1>8, DeviceKeeps DEF SInv

LEMMA ReadStep == ASSUME SInv, NEW s \in StreamNames, Read(s) PROVE SInv'
<1> DEFINE n == Arg(s)
           p == Done(s) + 1
<1>1. DeviceStep(s) /\ Head(queue[s]).do = "read" /\ context' = context /\ memory' = memory
  BY DEF Read, Begins, DeviceStep
<1>2. memory' \in [(1 .. Len(program)) \X Names -> BOOLEAN] /\ MemoryRight'
  BY <1>1, PutNothing, DeviceMemory
<1>3. ContextKept'
  BY <1>1, DeviceContext
<1>4. p \in Pending(s) /\ Item(s, p).do = "read" /\ Item(s, p).arg = n
  BY <1>1, HeadItem DEF Arg, DeviceStep
<1>5. QueuesOK
  BY TypeQueues DEF SInv
<1>6. \A t \in StreamNames : \A b \in Pending(t) : ~Requires(Item(s, p), Item(t, b))
  BY <1>4, <1>5, HeadFirst DEF SInv, Ordered
<1>7. seen' = IF Holds(Results(n)) THEN "right" ELSE "wrong"
  BY DEF Read
<1> HIDE DEF n, p
<1>8. n \in 1 .. Len(calls) /\ s = "current"
  BY <1>4 DEF SInv, ItemsOK, ItemOK
<1>9. NotPending("finish", n)
  BY <1>4, <1>6 DEF NotPending, ItemIs, Requires
<1>10. \A t \in Results(n) : Right(t)
  BY <1>8, <1>9 DEF SInv, MemoryRight
<1>11. \A t \in Results(n) : ~Gone(t)
  BY <1>4, <1>8 DEF SInv, OverwrittenLast, Touches, Gone
<1>12. ResultsRight'
  BY <1>7, <1>10, <1>11 DEF ResultsRight, Holds, Right
<1> QED
  BY <1>1, <1>2, <1>3, <1>12, DeviceKeeps DEF SInv

LEMMA OverwriteStep == ASSUME SInv, NEW s \in StreamNames, Overwrite(s) PROVE SInv'
<1> DEFINE p == Done(s) + 1
<1>1. DeviceStep(s) /\ Head(queue[s]).do = "overwrite" /\ context' = context /\ seen' = seen
  BY DEF Overwrite, Begins, DeviceStep
<1>2. p \in Pending(s) /\ Item(s, p).do = "overwrite" /\ Item(s, p).arg = Arg(s)
  BY <1>1, HeadItem DEF Arg, DeviceStep
<1>3. Popped(s) /\ QueuesOK /\ freed' = freed /\ calls' = calls
  BY <1>1, DevicePops, TypeQueues DEF SInv, DeviceStep
<1> HIDE DEF p
<1>4. s = "current"
  BY <1>2 DEF SInv, ItemsOK, ItemOK
<1>5. freed.reused /\ Arg(s) = freed.tensor
      /\ \A o \in Pending("current") : Item("current", o).do = "overwrite" => o = p
  BY <1>2, <1>4 DEF SInv, OverwrittenLast
<1>6. /\ DOMAIN memory = (1 .. Len(program)) \X Names
      /\ \A t \in DOMAIN memory : memory[t] \in BOOLEAN
  BY DEF SInv, StreamsTypeOK
<1>7. /\ memory' \in [(1 .. Len(program)) \X Names -> BOOLEAN]
      /\ \A t \in DOMAIN memory : memory[t] /\ t # freed.tensor => memory'[t]
  BY <1>5, <1>6 DEF Overwrite, Put
<1>8. Gone(freed.tensor)'
  <2>1. p \notin Pending("current")'
    <3>1. Done("current")' = p /\ p \in Nat
      BY <1>3, <1>4, PendingRange DEF Popped, p
    <3> QED
      BY <3>1 DEF Pending
  <2>2. \A o \in Pending("current")' : (Item("current", o).do)' # "overwrite"
    BY <2>1, <1>3, <1>4, <1>5 DEF Popped
  <2> QED
    BY <2>2, <1>3, <1>5 DEF Gone
<1>9. \A t : Gone(t) => Gone(t)'
  BY <1>1, <1>7, DeviceKeeps
<1>10. \A t \in DOMAIN memory : Right(t) => Right(t)'
  <2> SUFFICES ASSUME NEW t \in DOMAIN memory, Right(t) PROVE Right(t)'
    OBVIOUS
  <2>1. CASE t = freed.tensor
    BY <2>1, <1>3, <1>8 DEF Right, Gone
  <2>2. CASE t # freed.tensor
    BY <2>2, <1>7, <1>9 DEF Right
  <2> QED
    BY <2>1, <2>2
<1>11. \A do, n : do # "overwrite" /\ NotPending(do, n)' => NotPending(do, n)
  <2> SUFFICES ASSUME NEW do, NEW n, NotPending(do, n)', NEW t \in StreamNames,
                      NEW q \in Pending(t), ItemIs(t, q, do, n), do # "overwrite"
               PROVE  FALSE
    BY DEF NotPending
  <2>1. q \in Pending(t)'
    BY <1>2, <1>3 DEF Popped, ItemIs, p
  <2>2. ItemIs(t, q, do, n)'
    BY <2>1, <1>3 DEF ItemIs, Popped
  <2> QED
    BY <2>1, <2>2 DEF NotPending
<1>12. MemoryRight'
  <2> SUFFICES ASSUME NEW n \in 1 .. Len(calls)
               PROVE  /\ NotPending("make", n)' => \A t \in Made(n)' : Right(t)'
                      /\ NotPending("finish", n)' => \A t \in Results(n)' : Right(t)'
    BY <1>3 DEF MemoryRight
  <2>1. Made(n)' = Made(n) /\ Results(n)' = Results(n)
    BY <1>1, DeviceUses
  <2>2. Made(n) \subseteq DOMAIN memory /\ Results(n) \subseteq DOMAIN memory
    BY UsesInMemory DEF Uses, SInv
  <2> QED
    BY <1>10, <1>11, <2>1, <2>2 DEF SInv, MemoryRight
<1>13. ContextKept'
  BY <1>1, DeviceContext
<1>14. ResultsRight'
  BY <1>1 DEF SInv, ResultsRight
<1> QED
  BY <1>1, <1>7, <1>12, <1>13, <1>14, DeviceKeeps DEF SInv

-----------------------------------------------------------------------------
(* The host: what was enqueued before stays where it is. *)
LEMMA ExtendedKeeps ==
    ASSUME SInv, NEW current \in Seq(Works), NEW comm \in Seq(Works), Extended(current, comm),
           QueuesOK'
    PROVE  /\ \A s \in StreamNames : \A p \in Pending(s) :
                  /\ p \in Pending(s)' /\ Item(s, p)' = Item(s, p)
                  /\ p \in Nat /\ Done(s) < p /\ p <= enqueued[s]
           /\ \A s \in StreamNames : \A p \in Pending(s)' :
                  p \notin Pending(s) => p \in Nat /\ enqueued[s] < p /\ Done(s) < p
           /\ \A s, t \in StreamNames : \A p \in Pending(s), b \in Pending(t) :
                  Precedes(t, b, s, p) => Precedes(t, b, s, p)'
           /\ \A do, n : NotPending(do, n)' => NotPending(do, n)
<1>1. QueuesOK /\ StreamNames = {"current", "comm"}
  BY TypeQueues DEF SInv, StreamNames
<1>2. ASSUME NEW s \in StreamNames, NEW p \in Pending(s)
      PROVE  /\ p \in Pending(s)' /\ Item(s, p)' = Item(s, p)
             /\ p \in Nat /\ Done(s) < p /\ p <= enqueued[s]
  BY <1>1, PendingRange DEF Extended
<1>3. ASSUME NEW s \in StreamNames, NEW p \in Pending(s)', p \notin Pending(s)
      PROVE  p \in Nat /\ enqueued[s] < p /\ Done(s) < p
  <2>1. p \in Nat
    <3>1. Done(s)' \in Nat /\ enqueued'[s] \in Nat
      BY DEF QueuesOK
    <3> QED
      BY <3>1 DEF Pending
  <2>2. Done(s)' = Done(s) /\ Done(s) \in Nat /\ enqueued[s] \in Nat
    BY <1>1, PendingRange DEF Extended
  <2>3. Done(s) < p
    BY <2>1, <2>2 DEF Pending
  <2> QED
    BY <1>3, <2>1, <2>2, <2>3 DEF Pending
<1>4. ASSUME NEW s \in StreamNames, NEW t \in StreamNames, NEW p \in Pending(s),
             NEW b \in Pending(t), Precedes(t, b, s, p)
      PROVE  Precedes(t, b, s, p)'
  BY <1>2, <1>4 DEF Precedes
<1>5. ASSUME NEW do, NEW n, NotPending(do, n)'
      PROVE  NotPending(do, n)
  BY <1>2, <1>5 DEF NotPending, ItemIs
<1> QED
  BY <1>2, <1>3, <1>4, <1>5

\* Item w is old: it is about calls that were there before.
LEMMA OldItem ==
    ASSUME SInv, NEW s \in StreamNames, NEW p \in Pending(s)
    PROVE  /\ Item(s, p).do \in {"make", "start", "finish", "read"} => Item(s, p).arg \in 1 .. Len(calls)
           /\ ItemOK(s, p, Item(s, p))
BY DEF SInv, ItemsOK, ItemOK

\* A new call.
LEMMA NewCall ==
    ASSUME SInv, NEW kind \in Kinds, NEW done \in Nat, Len(calls) < Len(program), HasPlan(kind),
           calls' = Append(calls, Call(kind, done)), program' = program, freed' = freed,
           NEW new, new = Len(calls) + 1
    PROVE  /\ calls' \in Seq([kind : Kinds, done : Nat, plan : Nat])
           /\ Len(calls') <= Len(program) /\ Len(calls') = new /\ Len(calls) \in Nat
           /\ calls'[new] = Call(kind, done)
           /\ \A n \in 1 .. Len(calls) :
                  /\ n \in 1 .. Len(calls') /\ calls'[n] = calls[n]
                  /\ Uses(n)' = Uses(n) /\ Results(n)' = Results(n) /\ Made(n)' = Made(n)
           /\ PlansOfDispatches'
           /\ freed.tensor \notin Uses(new)'
<1> DEFINE C == [kind : Kinds, done : Nat, plan : Nat]
           c == Call(kind, done)
           N == Len(calls)
<1>1. calls \in Seq(C) /\ N \in Nat /\ PlansOfDispatches
  BY DEF SInv, StreamsTypeOK
<1>2. kind # "dispatch" => N \in 1 .. N
  <2> HIDE DEF C
  <2>1. kind # "dispatch" => calls # <<>>
    BY DEF HasPlan
  <2> QED
    BY <2>1, <1>1
<1>3. /\ c.kind = kind /\ c.done = done
      /\ c.plan = IF kind = "dispatch" THEN new ELSE calls[N].plan
  BY DEF Call
<1>4. kind # "dispatch" => /\ calls[N].plan \in 1 .. N
                           /\ calls[calls[N].plan].kind = "dispatch"
                           /\ calls[calls[N].plan].plan = calls[N].plan
  BY <1>1, <1>2 DEF PlansOfDispatches
<1>5. c \in C
  <2>1. c.plan \in Nat
    BY <1>1, <1>3, <1>4
  <2> QED
    BY <2>1 DEF Call
<1>6. /\ calls' \in Seq(C) /\ Len(calls') = new /\ calls'[new] = c
      /\ \A n \in 1 .. N : n \in 1 .. Len(calls') /\ calls'[n] = calls[n]
  <2> HIDE DEF C, c
  <2>1. calls' = Append(calls, c)
    BY DEF c
  <2> QED
    BY <1>1, <1>5, <2>1
<1> HIDE DEF c
<1>7. ASSUME NEW n \in 1 .. N
      PROVE  Uses(n)' = Uses(n) /\ Results(n)' = Results(n) /\ Made(n)' = Made(n)
  <2>1. calls'[n] = calls[n]
    BY <1>6
  <2>2. Inputs(n)' = Inputs(n) /\ Results(n)' = Results(n) /\ Made(n)' = Made(n)
    BY <2>1 DEF Inputs, Results, Made, Tensor, TensorOf
  <2> QED
    BY <2>2 DEF Uses
<1>8. PlansOfDispatches'
  <2> SUFFICES ASSUME NEW n \in 1 .. Len(calls')
               PROVE  /\ calls'[n].plan \in 1 .. n
                      /\ calls'[calls'[n].plan].kind = "dispatch"
                      /\ calls'[calls'[n].plan].plan = calls'[n].plan
                      /\ calls'[n].kind = "dispatch" => calls'[n].plan = n
    BY DEF PlansOfDispatches
  <2>1. CASE n \in 1 .. N
    <3>1. /\ calls[n].plan \in 1 .. n
          /\ calls[calls[n].plan].kind = "dispatch"
          /\ calls[calls[n].plan].plan = calls[n].plan
          /\ calls[n].kind = "dispatch" => calls[n].plan = n
      BY <2>1, <1>1 DEF PlansOfDispatches
    <3>2. calls[n].plan \in 1 .. N
      BY <2>1, <3>1, <1>1
    <3> QED
      BY <2>1, <3>1, <3>2, <1>6
  <2>2. CASE n = new
    <3>1. CASE kind = "dispatch"
      BY <2>2, <3>1, <1>1, <1>3, <1>6
    <3>2. CASE kind # "dispatch"
      <4>1. calls'[n] = c /\ c.plan = calls[N].plan /\ c.plan \in 1 .. N /\ c.kind # "dispatch"
        BY <2>2, <3>2, <1>3, <1>4, <1>6
      <4>2. calls'[c.plan] = calls[c.plan]
        BY <4>1, <1>6
      <4>3. c.plan \in 1 .. n
        BY <4>1, <2>2, <1>1
      <4> QED
        BY <3>2, <4>1, <4>2, <4>3, <1>4
    <3> QED
      BY <3>1, <3>2
  <2>3. n \in 1 .. N \/ n = new
    BY <1>1, <1>6
  <2> QED
    BY <2>1, <2>2, <2>3
<1>9. freed.tensor \notin Uses(new)'
  <2> SUFFICES ASSUME NEW name, freed.tensor = TensorOf(c, new, name)
               PROVE  FALSE
    BY <1>6 DEF Uses, Inputs, Results, Tensor
  <2>1. freed.tensor \in (1 .. N) \X Names
    BY DEF TensorOf, SInv, RecordedAndFreed
  <2>2. name \in PlanTensors /\ kind # "dispatch"
    BY <2>1, <1>1, <1>3 DEF TensorOf
  <2>3. freed.tensor = Tensor(N, name)
    BY <2>2, <1>3 DEF Tensor, TensorOf
  <2> QED
    BY <2>2, <2>3 DEF HasPlan
<1> QED
  BY <1>1, <1>6, <1>7, <1>8, <1>9 DEF SInv, c

\* What is enqueued for call n: nothing is overwritten or read, and the kernels are
\* not the first of it.
ItemsOfCall(n) ==
    \A s \in StreamNames : \A p \in Pending(s)' : p \notin Pending(s) =>
        /\ (Item(s, p).do)' \in {"make", "wait", "start", "finish"}
        /\ (Item(s, p).do)' # "wait" => (Item(s, p).arg)' = n
        /\ (Item(s, p).do)' = "finish" => enqueued[s] + 1 < p
        /\ s = "comm" /\ Kernel(Item(s, p).do)' => Uses(n)' \subseteq recorded'

LEMMA CallKeeps ==
    ASSUME SInv, NEW kind \in Kinds, NEW done \in Nat, Len(calls) < Len(program), HasPlan(kind),
           calls' = Append(calls, Call(kind, done)),
           NEW current \in Seq(Works), NEW comm \in Seq(Works), Enqueue(current, comm),
           UNCHANGED <<program, waited, memory, context, freed, seen>>,
           recorded \subseteq recorded',
           NEW new, new = Len(calls) + 1, ItemsOfCall(new),
           \E s \in StreamNames : \E p \in Pending(s)' : ItemIs(s, p, "make", new)',
           \E s \in StreamNames : \E p \in Pending(s)' : ItemIs(s, p, "finish", new)'
    PROVE  /\ StreamsTypeOK' /\ PlansOfDispatches' /\ RecordedAndFreed' /\ OverwrittenLast'
           /\ WaitPending' /\ MemoryRight' /\ ContextKept' /\ ResultsRight'
           /\ \A s, t \in StreamNames : \A p \in Pending(s), b \in Pending(t)' :
                  Requires(Item(s, p), Item(t, b))' => Precedes(t, b, s, p)'
<1>1. QueuesOK /\ QueuesOK' /\ Extended(current, comm)
  BY TypeQueues, EnqueueItems DEF SInv
<1>2. /\ \A s \in StreamNames : \A p \in Pending(s) :
             /\ p \in Pending(s)' /\ Item(s, p)' = Item(s, p)
             /\ p \in Nat /\ Done(s) < p /\ p <= enqueued[s]
      /\ \A s, t \in StreamNames : \A p \in Pending(s), b \in Pending(t) :
             Precedes(t, b, s, p) => Precedes(t, b, s, p)'
      /\ \A do, n : NotPending(do, n)' => NotPending(do, n)
  BY <1>1, ExtendedKeeps
<1>3. /\ calls' \in Seq([kind : Kinds, done : Nat, plan : Nat])
      /\ Len(calls') <= Len(program) /\ Len(calls') = new /\ Len(calls) \in Nat
      /\ calls'[new] = Call(kind, done)
      /\ \A n \in 1 .. Len(calls) :
             /\ n \in 1 .. Len(calls') /\ calls'[n] = calls[n]
             /\ Uses(n)' = Uses(n) /\ Results(n)' = Results(n) /\ Made(n)' = Made(n)
      /\ PlansOfDispatches'
      /\ freed.tensor \notin Uses(new)'
  BY NewCall
<1>4. "comm" \in StreamNames /\ "current" \in StreamNames /\ freed' = freed
      /\ \A s \in StreamNames : Done(s)' = Done(s) /\ Done(s) \in Nat /\ enqueued[s] \in Nat
                                /\ Done(s) <= enqueued[s]
  <2>1. \A s \in StreamNames : Done(s) <= enqueued[s]
    <3> SUFFICES ASSUME NEW s \in StreamNames PROVE Done(s) <= enqueued[s]
      OBVIOUS
    <3>1. queue[s] \in Seq(Works) /\ enqueued[s] \in Nat
      BY <1>1 DEF QueuesOK
    <3>2. Len(queue[s]) \in Nat
      BY <3>1
    <3> QED
      BY <3>1, <3>2 DEF Done
  <2> QED
    BY <1>1, <2>1 DEF StreamNames, Extended, QueuesOK
<1>5. StreamsTypeOK'
  BY <1>1, <1>3 DEF SInv, StreamsTypeOK, QueuesOK
<1>6. RecordedAndFreed'
  <2>1. ASSUME NEW p \in Pending("comm")', Kernel(Item("comm", p).do)'
        PROVE  /\ Uses(Item("comm", p).arg)' \subseteq recorded'
               /\ freed.tensor \in Uses(Item("comm", p).arg)' => p <= freed.after
    <3>1. CASE p \in Pending("comm")
      <4> DEFINE w == Item("comm", p)
      <4>1. Item("comm", p)' = w /\ Kernel(w.do)
        BY <1>2, <1>4, <2>1, <3>1 DEF Kernel
      <4>2. w.arg \in 1 .. Len(calls)
        BY <4>1, <3>1, <1>4, OldItem DEF Kernel
      <4>3. Uses(w.arg) \subseteq recorded /\ (freed.tensor \in Uses(w.arg) => p <= freed.after)
        BY <4>1, <3>1 DEF SInv, RecordedAndFreed
      <4> HIDE DEF w
      <4>4. \A n : n = w.arg => Uses(n)' = Uses(w.arg)
        BY <1>3, <4>2
      <4>5. Uses(Item("comm", p).arg)' = Uses(w.arg)
        <5>1. \A n : n = w.arg => Uses(n)' = Uses(Item("comm", p).arg)'
          BY <4>1 DEF Uses, Inputs, Results, Tensor, TensorOf
        <5> QED
          BY <4>4, <5>1
      <4> QED
        BY <4>3, <4>5
    <3>2. CASE p \notin Pending("comm")
      <4>1. (Item("comm", p).arg)' = new
        BY <2>1, <3>2, <1>4 DEF ItemsOfCall, Kernel
      <4>2. Uses(Item("comm", p).arg)' = Uses(new)'
        BY <4>1, <1>3 DEF Uses, Inputs, Results, Tensor, TensorOf
      <4> QED
        BY <2>1, <3>2, <4>2, <1>3, <1>4 DEF ItemsOfCall
    <3> QED
      BY <3>1, <3>2
  <2>2. freed.tensor # <<>> => freed.tensor \in (1 .. Len(calls')) \X Names
    <3>1. 1 .. Len(calls) \subseteq 1 .. Len(calls')
      BY <1>3
    <3> QED
      BY <3>1 DEF SInv, RecordedAndFreed
  <2>3. freed.reused => freed.tensor # <<>> /\ Done("comm")' >= freed.after
    BY <1>4 DEF SInv, RecordedAndFreed
  <2> QED
    BY <1>4, <2>1, <2>2, <2>3 DEF RecordedAndFreed
<1>7. OverwrittenLast'
  <2>1. ASSUME NEW p \in Pending("current")', (Item("current", p).do)' = "overwrite"
        PROVE  /\ p \in Pending("current") /\ Item("current", p).do = "overwrite"
               /\ Item("current", p)' = Item("current", p)
    BY <2>1, <1>2, <1>4 DEF ItemsOfCall
  <2>2. ASSUME NEW p \in Pending("current")', Touches(Item("current", p))', freed.reused
        PROVE  \E o \in Pending("current")' : p < o /\ (Item("current", o).do)' = "overwrite"
    <3>1. p \in Pending("current")
      <4> SUFFICES ASSUME p \notin Pending("current") PROVE FALSE
        OBVIOUS
      <4>1. Kernel(Item("current", p).do)' /\ (Item("current", p).arg)' = new
        BY <2>2, <1>4 DEF ItemsOfCall, Touches, Kernel
      <4>2. freed.tensor \in Uses(new)'
        BY <2>2, <4>1, <1>4 DEF Touches, Uses, Inputs, Results, Tensor, TensorOf
      <4> QED
        BY <4>2, <1>3
    <3>2. PICK w : w = Item("current", p) /\ Item("current", p)' = w
      BY <3>1, <1>2, <1>4
    <3>3. Kernel(w.do) \/ w.do = "read" => w.arg \in 1 .. Len(calls)
      BY <3>1, <3>2, <1>4, OldItem DEF Kernel
    <3>4. Touches(w)
      <4>1. Touches(w)'
        BY <2>2, <3>2 DEF Touches, Kernel, Uses, Inputs, Results, Tensor, TensorOf
      <4> QED
        BY <4>1, <3>3, <1>3, <1>4 DEF Touches, Kernel
    <3>5. PICK o \in Pending("current") : p < o /\ Item("current", o).do = "overwrite"
      BY <2>2, <3>1, <3>2, <3>4 DEF SInv, OverwrittenLast
    <3> QED
      BY <3>5, <1>2, <1>4
  <2> QED
    BY <2>1, <2>2, <1>4 DEF OverwrittenLast, SInv
<1>8. WaitPending'
  <2>1. waited' = waited
    OBVIOUS
  <2> QED
    BY <1>2, <1>4, <2>1 DEF SInv, WaitPending
<1>9. MemoryRight'
  <2>1. \A t : Gone(t) => Gone(t)'
    BY <1>4, <1>2 DEF Gone, ItemsOfCall
  <2>2. \A t : Right(t) => Right(t)'
    BY <2>1 DEF Right
  <2> SUFFICES ASSUME NEW n \in 1 .. Len(calls')
               PROVE  /\ NotPending("make", n)' => \A t \in Made(n)' : Right(t)'
                      /\ NotPending("finish", n)' => \A t \in Results(n)' : Right(t)'
    BY DEF MemoryRight
  <2>3. CASE n \in 1 .. Len(calls)
    BY <2>2, <2>3, <1>2, <1>3 DEF SInv, MemoryRight
  <2>4. CASE n = new
    BY <2>4 DEF NotPending
  <2> QED
    BY <2>3, <2>4, <1>3
<1>10. ContextKept'
  <2> SUFFICES ASSUME NEW s \in StreamNames, NEW n \in 1 .. Len(calls'),
                      ItemIs(s, Done(s) + 1, "finish", n)', UsesContext(calls'[n].kind)
               PROVE  context = n
    BY DEF ContextKept, UsesContext
  <2>1. PICK p : p = Done(s) + 1 /\ p = Done(s)' + 1
    BY <1>4
  <2>2. p \in Pending(s)' /\ (Item(s, p).do)' = "finish" /\ (Item(s, p).arg)' = n
    BY <2>1 DEF ItemIs
  <2>3. p \in Pending(s)
    <3>1. Done(s) \in Nat /\ enqueued[s] \in Nat /\ Done(s) <= enqueued[s] /\ p = Done(s) + 1
      BY <2>1, <1>4
    <3>2. ~(enqueued[s] + 1 < p)
      BY <3>1, NotBeyond
    <3> QED
      BY <2>2, <3>2 DEF ItemsOfCall
  <2>4. ItemIs(s, Done(s) + 1, "finish", n)
    BY <2>1, <2>2, <2>3, <1>2 DEF ItemIs
  <2>5. n \in 1 .. Len(calls) /\ calls'[n] = calls[n]
    <3>1. n \in 1 .. Len(calls)
      BY <2>4, OldItem DEF ItemIs
    <3> QED
      BY <3>1, <1>3
  <2> QED
    BY <2>4, <2>5 DEF SInv, ContextKept
<1>11. ResultsRight'
  BY DEF SInv, ResultsRight
<1>12. ASSUME NEW s \in StreamNames, NEW t \in StreamNames, NEW p \in Pending(s),
              NEW b \in Pending(t)', Requires(Item(s, p), Item(t, b))'
       PROVE  Precedes(t, b, s, p)'
  <2> DEFINE w == Item(s, p)
  <2>1. Item(s, p)' = w
    BY <1>2
  <2>2. Kernel(w.do) \/ w.do = "read" => w.arg \in 1 .. Len(calls)
    BY OldItem DEF Kernel
  <2>3. b \in Pending(t)
    <3> SUFFICES ASSUME b \notin Pending(t) PROVE FALSE
      OBVIOUS
    <3>1. /\ (Item(t, b).do)' \in {"make", "wait", "start", "finish"}
          /\ (Item(t, b).do)' # "wait" => (Item(t, b).arg)' = new
      BY DEF ItemsOfCall
    <3> HIDE DEF w
    <3>2. (Kernel(w.do) \/ w.do = "read") /\ (w.arg = new \/ new < w.arg)
      BY <1>12, <2>1, <3>1 DEF Requires, Kernel, Needs
    <3> QED
      BY <2>2, <3>2, <1>3
  <2> DEFINE v == Item(t, b)
  <2>4. Item(t, b)' = v
    BY <2>3, <1>2
  <2>5. v.do = "finish" => v.arg \in 1 .. Len(calls)
    BY <2>3, OldItem
  <2> HIDE DEF w, v
  <2>6. Requires(w, v)
    BY <1>12, <2>1, <2>2, <2>4, <2>5, <1>3 DEF Requires, Kernel, Needs, UsesContext
  <2>7. Precedes(t, b, s, p)
    BY <2>3, <2>6 DEF SInv, Ordered, w, v
  <2> QED
    BY <2>3, <2>7, <1>2
<1> QED
  BY <1>3, <1>5, <1>6, <1>7, <1>8, <1>9, <1>10, <1>11, <1>12

LEMMA ThreeItems ==
    ASSUME NEW C, NEW x \in C, NEW y \in C, NEW z \in C
    PROVE  \A q : q = <<x>> \o <<y, z>> =>
               q \in Seq(C) /\ Len(q) = 3 /\ q[1] = x /\ q[2] = y /\ q[3] = z
OBVIOUS

LEMMA WorkOfCall ==
    ASSUME NEW do \in {"make", "wait"}, NEW a \in Nat, NEW n \in Nat
    PROVE  \A work : work = <<Work(do, a)>> \o Kernels(n) =>
               /\ work \in Seq(Works) /\ Len(work) = 3
               /\ work[1] = Work(do, a) /\ work[2] = Work("start", n) /\ work[3] = Work("finish", n)
<1>1. Work(do, a) \in Works /\ Work("start", n) \in Works /\ Work("finish", n) \in Works
  BY DEF Work, Works, Dos
<1> QED
  BY <1>1, ThreeItems DEF Kernels

LEMMA OneItem == ASSUME NEW w \in Works PROVE <<w>> \in Seq(Works) /\ Len(<<w>>) = 1 /\ <<w>>[1] = w
OBVIOUS

\* A call on the stream of the caller comes after what that has waited for.
LEMMA WaitedPrecedes ==
    ASSUME SInv, NEW current \in Seq(Works), NEW comm \in Seq(Works), Extended(current, comm),
           QueuesOK', NEW b \in Pending("comm"), b <= waited,
           NEW p \in Pending("current")', p \notin Pending("current")
    PROVE  Precedes("comm", b, "current", p)'
<1>1. "comm" \in StreamNames /\ "current" \in StreamNames
  BY DEF StreamNames
<1>2. b \in Nat /\ Done("comm") < b /\ Done("comm") \in Nat /\ waited \in Nat
  BY <1>1, TypeQueues, PendingRange DEF SInv, StreamsTypeOK
<1>3. PICK w \in Pending("current") : Item("current", w).do = "wait" /\ Item("current", w).arg >= waited
  BY <1>2 DEF SInv, WaitPending
<1>4. Item("current", w).arg \in Nat
  BY <1>1, <1>3, OldItem DEF ItemOK
<1>5. w \in Pending("current")' /\ Item("current", w)' = Item("current", w) /\ w < p
  <2>1. /\ w \in Pending("current")' /\ Item("current", w)' = Item("current", w)
        /\ w \in Nat /\ w <= enqueued["current"]
    BY <1>1, <1>3, ExtendedKeeps
  <2>2. p \in Nat /\ enqueued["current"] < p
    BY <1>1, ExtendedKeeps
  <2>3. enqueued["current"] \in Nat
    BY <1>1 DEF SInv, StreamsTypeOK
  <2> QED
    BY <2>1, <2>2, <2>3
<1> QED
  BY <1>2, <1>3, <1>4, <1>5 DEF Precedes

\* The conditions on the items, when those that were there are kept.
LEMMA OldItemsKept ==
    ASSUME SInv, NEW current \in Seq(Works), NEW comm \in Seq(Works), Extended(current, comm),
           QueuesOK', Len(calls) <= Len(calls'), Len(calls) \in Nat, Len(calls') \in Nat,
           \A n \in 1 .. Len(calls) : calls'[n] = calls[n],
           NEW s \in StreamNames, NEW p \in Pending(s)
    PROVE  ItemOK(s, p, Item(s, p))'
<1>1. /\ \A q \in Pending(s) : q \in Pending(s)' /\ Item(s, q)' = Item(s, q)
      /\ p \in Nat /\ Done(s) < p /\ p <= enqueued[s]
      /\ \A q \in Pending(s)' : q \notin Pending(s) => enqueued[s] < q
      /\ Done(s)' = Done(s) /\ Done(s) \in Nat /\ enqueued[s] \in Nat
  BY ExtendedKeeps, TypeQueues, PendingRange DEF Extended, SInv
<1>2. p - 1 \in Pending(s)' => p - 1 \in Pending(s)
  <2>1. ~(enqueued[s] < p - 1)
    BY <1>1
  <2> QED
    BY <2>1, <1>1
<1>3. PICK w : w = Item(s, p) /\ w = Item(s, p)'
  BY <1>1
<1>4. ItemOK(s, p, w)
  BY <1>3, OldItem
<1>5. \A q, do, n : ItemIs(s, q, do, n) => ItemIs(s, q, do, n)'
  BY <1>1 DEF ItemIs
<1>6. w.do \in {"make", "start", "finish", "read"} => w.arg \in 1 .. Len(calls) /\ w.arg \in 1 .. Len(calls')
  BY <1>4 DEF ItemOK
<1>7. ItemOK(s, p, w)'
  BY <1>2, <1>4, <1>5, <1>6 DEF ItemOK
<1> QED
  BY <1>3, <1>7 DEF ItemOK

LEMMA CallSyncStep ==
    ASSUME SInv, NEW kind \in Kinds, CallSync(kind)
    PROVE  SInv'
<1> DEFINE work == <<Work("make", Len(calls) + 1)>> \o Kernels(Len(calls) + 1)
<1>1. PICK n : n = Len(calls) + 1
  OBVIOUS
<1>2. Len(calls) \in Nat /\ n \in Nat
  <2>1. Len(calls) \in Nat
    BY DEF SInv, StreamsTypeOK
  <2> QED
    BY <2>1, <1>1
<1>3. /\ work \in Seq(Works) /\ Len(work) = 3
      /\ work[1] = Work("make", n) /\ work[2] = Work("start", n) /\ work[3] = Work("finish", n)
  <2>1. work = <<Work("make", n)>> \o Kernels(n)
    BY <1>1
  <2> HIDE DEF work
  <2>2. "make" \in {"make", "wait"}
    OBVIOUS
  <2>3. \A q : q = <<Work("make", n)>> \o Kernels(n) =>
            /\ q \in Seq(Works) /\ Len(q) = 3
            /\ q[1] = Work("make", n) /\ q[2] = Work("start", n) /\ q[3] = Work("finish", n)
    BY <1>2, <2>2, WorkOfCall
  <2> QED
    BY <2>1, <2>3
<1>4. /\ Len(calls) < Len(program) /\ HasPlan(kind) /\ MayCallSync(kind)
      /\ calls' = Append(calls, Call(kind, 0)) /\ Enqueue(work, <<>>)
      /\ UNCHANGED <<program, waited, recorded, memory, context, freed, seen>>
  BY DEF CallSync
<1> HIDE DEF work
<1>5. PICK e : e = enqueued["current"]
  OBVIOUS
<1>6. <<>> \in Seq(Works) /\ Len(<<>>) = 0 /\ 0 \in Nat
  OBVIOUS
<1>7. QueuesOK /\ QueuesOK' /\ Extended(work, <<>>) /\ "current" \in StreamNames /\ "comm" \in StreamNames
  BY <1>3, <1>4, <1>6, TypeQueues, EnqueueItems DEF SInv, StreamNames
<1>8. e \in Nat
  BY <1>5, <1>7 DEF QueuesOK
<1>9. ASSUME NEW s \in StreamNames, NEW p \in Pending(s)', p \notin Pending(s)
      PROVE  /\ s = "current"
             /\ \/ p = e + 1 /\ Item(s, p)' = Work("make", n)
                \/ p = e + 2 /\ Item(s, p)' = Work("start", n)
                \/ p = e + 3 /\ Item(s, p)' = Work("finish", n)
  <2>1. s = "current"
    BY <1>6, <1>7, <1>9 DEF Extended, StreamNames
  <2>2. p - e \in 1 .. 3 /\ Item(s, p)' = work[p - e]
    BY <1>3, <1>5, <1>7, <1>9, <2>1 DEF Extended
  <2>3. p \in Nat
    BY <1>3, <1>6, <1>7, <1>9, ExtendedKeeps
  <2>4. p = e + 1 \/ p = e + 2 \/ p = e + 3
    BY <2>2, <2>3, <1>8
  <2>5. (p = e + 1 => p - e = 1) /\ (p = e + 2 => p - e = 2) /\ (p = e + 3 => p - e = 3)
    BY <2>3, <1>8
  <2> QED
    BY <2>1, <2>2, <2>4, <2>5, <1>3
<1>10. /\ e + 1 \in Pending("current")' /\ Item("current", e + 1)' = Work("make", n)
       /\ e + 2 \in Pending("current")' /\ Item("current", e + 2)' = Work("start", n)
       /\ e + 3 \in Pending("current")' /\ Item("current", e + 3)' = Work("finish", n)
  <2>1. \A k \in 1 .. 3 : \E p \in Pending("current")' :
           p = e + k /\ Item("current", p)' = work[k]
    BY <1>3, <1>5, <1>7 DEF Extended
  <2> QED
    BY <2>1, <1>3
<1>11. ItemsOfCall(n)
  <2> SUFFICES ASSUME NEW s \in StreamNames, NEW p \in Pending(s)', p \notin Pending(s)
               PROVE  /\ (Item(s, p).do)' \in {"make", "wait", "start", "finish"}
                      /\ (Item(s, p).do)' # "wait" => (Item(s, p).arg)' = n
                      /\ (Item(s, p).do)' = "finish" => enqueued[s] + 1 < p
                      /\ s = "comm" /\ Kernel(Item(s, p).do)' => Uses(n)' \subseteq recorded'
    BY DEF ItemsOfCall
  <2> QED
    BY <1>5, <1>8, <1>9 DEF Work
<1>12. /\ StreamsTypeOK' /\ PlansOfDispatches' /\ RecordedAndFreed' /\ OverwrittenLast'
       /\ WaitPending' /\ MemoryRight' /\ ContextKept' /\ ResultsRight'
       /\ \A s, t \in StreamNames : \A p \in Pending(s), b \in Pending(t)' :
              Requires(Item(s, p), Item(t, b))' => Precedes(t, b, s, p)'
  <2>1. \E s \in StreamNames : \E p \in Pending(s)' : ItemIs(s, p, "make", n)'
    BY <1>7, <1>10 DEF ItemIs, Work
  <2>2. \E s \in StreamNames : \E p \in Pending(s)' : ItemIs(s, p, "finish", n)'
    BY <1>7, <1>10 DEF ItemIs, Work
  <2> QED
    BY <1>1, <1>3, <1>4, <1>6, <1>11, <2>1, <2>2, CallKeeps
<1>13. /\ Len(calls') = n /\ calls'[n].done = 0 /\ calls'[n].kind = kind
       /\ \A i \in 1 .. Len(calls) : calls'[i] = calls[i]
  BY <1>1, <1>4, <1>6, NewCall DEF Call
<1>14. ItemsOK'
  <2> SUFFICES ASSUME NEW s \in StreamNames, NEW p \in Pending(s)'
               PROVE  ItemOK(s, p, Item(s, p))'
    BY DEF ItemsOK
  <2>1. CASE p \in Pending(s)
    <3>1. Len(calls) <= Len(calls') /\ Len(calls') \in Nat
      BY <1>1, <1>2, <1>13
    <3> QED
      BY <2>1, <3>1, <1>2, <1>3, <1>6, <1>7, <1>13, OldItemsKept
  <2>2. CASE p \notin Pending(s)
    <3>1. s = "current" /\ n \in 1 .. Len(calls')
      BY <2>2, <1>1, <1>2, <1>9, <1>13
    <3>2. CASE p = e + 1 /\ Item(s, p)' = Work("make", n)
      BY <3>1, <3>2 DEF ItemOK, Work
    <3>3. CASE p = e + 2 /\ Item(s, p)' = Work("start", n)
      <4>1. ItemIs(s, p + 1, "finish", n)'
        <5>1. p + 1 = e + 3
          BY <3>3, <1>8
        <5> QED
          BY <5>1, <3>1, <1>10 DEF ItemIs, Work
      <4> QED
        BY <3>1, <3>3, <4>1 DEF ItemOK, Work
    <3>4. CASE p = e + 3 /\ Item(s, p)' = Work("finish", n)
      <4>1. ItemIs(s, p - 1, "start", n)'
        <5>1. p - 1 = e + 2
          BY <3>4, <1>8
        <5> QED
          BY <5>1, <3>1, <1>10 DEF ItemIs, Work
      <4> QED
        BY <3>1, <3>4, <4>1, <1>13 DEF ItemOK, Work
    <3> QED
      BY <2>2, <3>2, <3>3, <3>4, <1>9
  <2> QED
    BY <2>1, <2>2
<1>15. Ordered'
  <2> SUFFICES ASSUME NEW s \in StreamNames, NEW t \in StreamNames,
                      NEW p \in Pending(s)', NEW b \in Pending(t)',
                      Requires(Item(s, p), Item(t, b))'
               PROVE  Precedes(t, b, s, p)'
    BY DEF Ordered
  <2>1. CASE p \in Pending(s)
    BY <2>1, <1>12
  <2>2. CASE p \notin Pending(s)
    <3>1. s = "current" /\ Kernel(Item(s, p).do)' /\ (Item(s, p).arg)' = n
          /\ (p = e + 2 \/ p = e + 3)
      BY <2>2, <1>9 DEF Requires, Work, Kernel
    <3>2. CASE b \notin Pending(t)
      <4>1. t = "current" /\ (Item(t, b).do)' = "make"
        BY <3>1, <3>2, <1>2, <1>9 DEF Requires, Work, Kernel, Needs
      <4>2. b = e + 1
        BY <3>2, <4>1, <1>9 DEF Work
      <4> QED
        BY <3>1, <4>1, <4>2, <1>8 DEF Precedes
    <3>3. CASE b \in Pending(t)
      <4>1. PICK v : v = Item(t, b) /\ v = Item(t, b)'
        BY <3>3, <1>3, <1>6, <1>7, ExtendedKeeps
      <4>2. ItemOK(t, b, v)
        BY <3>3, <4>1, OldItem
      <4>3. v.do \in {"make", "finish"} => v.arg \in 1 .. Len(calls)
        BY <4>2 DEF ItemOK
      <4>4. v.do = "finish" /\ Needs(n, v.arg)'
        BY <3>1, <4>1, <4>3, <1>1, <1>2 DEF Requires, Kernel
      <4>5. v.arg \in 1 .. Len(calls) /\ calls'[v.arg] = calls[v.arg]
        BY <4>3, <4>4, <1>13
      <4>6. CASE t = "current"
        <5>1. b \in Nat /\ b <= e
          BY <3>3, <4>6, <1>3, <1>5, <1>6, <1>7, ExtendedKeeps
        <5> QED
          BY <3>1, <4>6, <5>1, <1>8 DEF Precedes
      <4>7. CASE t = "comm"
        <5>1. calls[v.arg].done = b
          BY <4>2, <4>4, <4>7 DEF ItemOK
        <5>2. waited >= calls[v.arg].done
          BY <4>4, <4>5, <1>4, <1>13 DEF MayCallSync, Needs, UsesContext
        <5>3. b <= waited
          BY <5>1, <5>2
        <5> QED
          BY <2>2, <3>1, <3>3, <4>7, <5>3, <1>3, <1>6, <1>7, WaitedPrecedes
      <4> QED
        BY <4>6, <4>7 DEF StreamNames
    <3> QED
      BY <3>2, <3>3
  <2> QED
    BY <2>1, <2>2
<1> QED
  BY <1>12, <1>14, <1>15 DEF SInv

LEMMA CallAsyncStep ==
    ASSUME SInv, NEW kind \in Kinds, CallAsync(kind)
    PROVE  SInv'
<1>1. PICK n, e, f : n = Len(calls) + 1 /\ e = enqueued["current"] /\ f = enqueued["comm"]
  OBVIOUS
<1>2. Len(calls) \in Nat /\ n \in Nat /\ e \in Nat /\ f \in Nat
      /\ QueuesOK /\ "current" \in StreamNames /\ "comm" \in StreamNames
  <2>1. Len(calls) \in Nat
    BY DEF SInv, StreamsTypeOK
  <2> QED
    BY <2>1, <1>1, TypeQueues DEF SInv, QueuesOK, StreamNames
<1>3. PICK make, work : make = <<Work("make", n)>> /\ work = <<Work("wait", e + 1)>> \o Kernels(n)
  OBVIOUS
<1>4. make \in Seq(Works) /\ Len(make) = 1 /\ make[1] = Work("make", n)
  <2>1. Work("make", n) \in Works
    BY <1>2 DEF Work, Works, Dos
  <2> QED
    BY <2>1, <1>3, OneItem
<1>5. /\ work \in Seq(Works) /\ Len(work) = 3
      /\ work[1] = Work("wait", e + 1) /\ work[2] = Work("start", n) /\ work[3] = Work("finish", n)
  <2>1. "wait" \in {"make", "wait"} /\ e + 1 \in Nat
    BY <1>2
  <2>2. \A q : q = <<Work("wait", e + 1)>> \o Kernels(n) =>
            /\ q \in Seq(Works) /\ Len(q) = 3
            /\ q[1] = Work("wait", e + 1) /\ q[2] = Work("start", n) /\ q[3] = Work("finish", n)
    BY <1>2, <2>1, WorkOfCall
  <2> QED
    BY <1>3, <2>2
<1>6. /\ Len(calls) < Len(program) /\ HasPlan(kind)
      /\ calls' = Append(calls, Call(kind, f + 3)) /\ Enqueue(make, work)
      /\ recorded' = recorded \cup {TensorOf(Call(kind, f + 3), n, name) : name \in Records(kind)}
      /\ UNCHANGED <<program, waited, memory, context, freed, seen>>
  <2>1. CommWork(n, e + 1) = work
    BY <1>3 DEF CommWork
  <2>2. DoneEvent(f, work) = f + 3
    BY <1>5 DEF DoneEvent
  <2> QED
    BY <2>1, <2>2, <1>1, <1>3 DEF CallAsync
<1>7. QueuesOK' /\ Extended(make, work) /\ f + 3 \in Nat
  BY <1>2, <1>4, <1>5, <1>6, EnqueueItems
<1>8. ASSUME NEW s \in StreamNames, NEW p \in Pending(s)', p \notin Pending(s)
      PROVE  \/ s = "current" /\ p = e + 1 /\ Item(s, p)' = Work("make", n)
             \/ s = "comm" /\ p = f + 1 /\ Item(s, p)' = Work("wait", e + 1)
             \/ s = "comm" /\ p = f + 2 /\ Item(s, p)' = Work("start", n)
             \/ s = "comm" /\ p = f + 3 /\ Item(s, p)' = Work("finish", n)
  <2>1. p \in Nat
    BY <1>4, <1>5, <1>7, <1>8, ExtendedKeeps
  <2>2. CASE s = "current"
    <3>1. p - e \in 1 .. 1 /\ Item(s, p)' = make[p - e]
      BY <2>2, <1>1, <1>4, <1>7, <1>8 DEF Extended
    <3>2. p - e = 1 /\ p = e + 1
      BY <3>1, <2>1, <1>2
    <3> QED
      BY <2>2, <3>1, <3>2, <1>4
  <2>3. CASE s = "comm"
    <3>1. p - f \in 1 .. 3 /\ Item(s, p)' = work[p - f]
      BY <2>3, <1>1, <1>5, <1>7, <1>8 DEF Extended
    <3>2. p = f + 1 \/ p = f + 2 \/ p = f + 3
      BY <3>1, <2>1, <1>2
    <3>3. (p = f + 1 => p - f = 1) /\ (p = f + 2 => p - f = 2) /\ (p = f + 3 => p - f = 3)
      BY <2>1, <1>2
    <3> QED
      BY <2>3, <3>1, <3>2, <3>3, <1>5
  <2> QED
    BY <2>2, <2>3 DEF StreamNames
<1>9. /\ e + 1 \in Pending("current")' /\ Item("current", e + 1)' = Work("make", n)
      /\ f + 1 \in Pending("comm")' /\ Item("comm", f + 1)' = Work("wait", e + 1)
      /\ f + 2 \in Pending("comm")' /\ Item("comm", f + 2)' = Work("start", n)
      /\ f + 3 \in Pending("comm")' /\ Item("comm", f + 3)' = Work("finish", n)
  <2>1. \A k \in 1 .. 1 : \E p \in Pending("current")' :
           p = e + k /\ Item("current", p)' = make[k]
    BY <1>1, <1>4, <1>7 DEF Extended
  <2>2. \A k \in 1 .. 3 : \E p \in Pending("comm")' :
           p = f + k /\ Item("comm", p)' = work[k]
    BY <1>1, <1>5, <1>7 DEF Extended
  <2> QED
    BY <2>1, <2>2, <1>4, <1>5
<1>10. /\ Len(calls') = n /\ calls'[n].done = f + 3 /\ calls'[n].kind = kind
       /\ calls'[n] = Call(kind, f + 3)
       /\ \A i \in 1 .. Len(calls) : calls'[i] = calls[i]
  BY <1>1, <1>6, <1>7, NewCall DEF Call
<1>11. Uses(n)' \subseteq recorded'
  <2>1. Reads(kind) \subseteq Records(kind) /\ Writes(kind) \subseteq Records(kind)
    BY KindFacts
  <2>2. Uses(n)' = {TensorOf(Call(kind, f + 3), n, name) : name \in Reads(kind)}
                     \cup {TensorOf(Call(kind, f + 3), n, name) : name \in Writes(kind)}
    BY <1>10 DEF Uses, Inputs, Results, Tensor
  <2> QED
    BY <2>1, <2>2, <1>6
<1>12. ItemsOfCall(n)
  <2> SUFFICES ASSUME NEW s \in StreamNames, NEW p \in Pending(s)', p \notin Pending(s)
               PROVE  /\ (Item(s, p).do)' \in {"make", "wait", "start", "finish"}
                      /\ (Item(s, p).do)' # "wait" => (Item(s, p).arg)' = n
                      /\ (Item(s, p).do)' = "finish" => enqueued[s] + 1 < p
                      /\ s = "comm" /\ Kernel(Item(s, p).do)' => Uses(n)' \subseteq recorded'
    BY DEF ItemsOfCall
  <2> QED
    BY <1>1, <1>2, <1>8, <1>11 DEF Work
<1>13. /\ StreamsTypeOK' /\ PlansOfDispatches' /\ RecordedAndFreed' /\ OverwrittenLast'
       /\ WaitPending' /\ MemoryRight' /\ ContextKept' /\ ResultsRight'
       /\ \A s, t \in StreamNames : \A p \in Pending(s), b \in Pending(t)' :
              Requires(Item(s, p), Item(t, b))' => Precedes(t, b, s, p)'
  <2>1. \E s \in StreamNames : \E p \in Pending(s)' : ItemIs(s, p, "make", n)'
    BY <1>2, <1>9 DEF ItemIs, Work
  <2>2. \E s \in StreamNames : \E p \in Pending(s)' : ItemIs(s, p, "finish", n)'
    BY <1>2, <1>9 DEF ItemIs, Work
  <2>3. recorded \subseteq recorded'
    BY <1>6
  <2> QED
    BY <1>1, <1>4, <1>5, <1>6, <1>7, <1>12, <2>1, <2>2, <2>3, CallKeeps
<1>14. ItemsOK'
  <2> SUFFICES ASSUME NEW s \in StreamNames, NEW p \in Pending(s)'
               PROVE  ItemOK(s, p, Item(s, p))'
    BY DEF ItemsOK
  <2>1. CASE p \in Pending(s)
    <3>1. Len(calls) <= Len(calls') /\ Len(calls') \in Nat
      BY <1>1, <1>2, <1>10
    <3> QED
      BY <2>1, <3>1, <1>2, <1>4, <1>5, <1>7, <1>10, OldItemsKept
  <2>2. CASE p \notin Pending(s)
    <3>1. n \in 1 .. Len(calls')
      BY <1>1, <1>2, <1>10
    <3>2. CASE s = "current" /\ p = e + 1 /\ Item(s, p)' = Work("make", n)
      BY <3>1, <3>2 DEF ItemOK, Work
    <3>3. CASE s = "comm" /\ p = f + 1 /\ Item(s, p)' = Work("wait", e + 1)
      <4>1. e + 1 \in Nat
        BY <1>2
      <4> QED
        BY <3>3, <4>1 DEF ItemOK, Work
    <3>4. CASE s = "comm" /\ p = f + 2 /\ Item(s, p)' = Work("start", n)
      <4>1. ItemIs(s, p + 1, "finish", n)'
        <5>1. p + 1 = f + 3
          BY <3>4, <1>2
        <5> QED
          BY <5>1, <3>4, <1>9 DEF ItemIs, Work
      <4> QED
        BY <3>1, <3>4, <4>1 DEF ItemOK, Work
    <3>5. CASE s = "comm" /\ p = f + 3 /\ Item(s, p)' = Work("finish", n)
      <4>1. ItemIs(s, p - 1, "start", n)'
        <5>1. p - 1 = f + 2
          BY <3>5, <1>2
        <5> QED
          BY <5>1, <3>5, <1>9 DEF ItemIs, Work
      <4> QED
        BY <3>1, <3>5, <4>1, <1>10 DEF ItemOK, Work
    <3> QED
      BY <2>2, <3>2, <3>3, <3>4, <3>5, <1>8
  <2> QED
    BY <2>1, <2>2
<1>15. Ordered'
  <2> SUFFICES ASSUME NEW s \in StreamNames, NEW t \in StreamNames,
                      NEW p \in Pending(s)', NEW b \in Pending(t)',
                      Requires(Item(s, p), Item(t, b))'
               PROVE  Precedes(t, b, s, p)'
    BY DEF Ordered
  <2>1. CASE p \in Pending(s)
    BY <2>1, <1>13
  <2>2. CASE p \notin Pending(s)
    <3>1. s = "comm" /\ Kernel(Item(s, p).do)' /\ (Item(s, p).arg)' = n
          /\ (p = f + 2 \/ p = f + 3)
      BY <2>2, <1>8 DEF Requires, Work, Kernel
    <3>2. ASSUME t = "current", b \in Nat, b <= e + 1
          PROVE  Precedes(t, b, s, p)'
      <4>1. (Item(s, f + 1).do)' = "wait" /\ (Item(s, f + 1).arg)' = e + 1 /\ f + 1 < p
        BY <3>1, <1>2, <1>9 DEF Work
      <4>2. \E w \in Pending(s)' : w < p /\ (Item(s, w).do)' = "wait" /\ (Item(s, w).arg)' >= b
        BY <3>1, <3>2, <4>1, <1>2, <1>9
      <4> QED
        BY <3>1, <3>2, <4>2 DEF Precedes
    <3>3. CASE b \notin Pending(t)
      <4>2. (Item(t, b).do)' # "finish"
        <5> SUFFICES ASSUME (Item(t, b).do)' = "finish" PROVE FALSE
          OBVIOUS
        <5>1. (Item(t, b).arg)' = n
          BY <3>3, <1>8 DEF Work
        <5>2. (Item(t, b).arg)' < n
          BY <3>1 DEF Requires, Kernel, Needs
        <5> QED
          BY <5>1, <5>2, <1>2
      <4>3. (Item(t, b).do)' = "make"
        BY <3>1, <4>2 DEF Requires, Kernel
      <4>1. t = "current" /\ b = e + 1
        BY <3>3, <4>3, <1>8 DEF Work
      <4> QED
        BY <3>2, <4>1, <1>2
    <3>4. CASE b \in Pending(t)
      <4>1. b \in Nat /\ b <= enqueued[t]
        BY <3>4, <1>4, <1>5, <1>7, ExtendedKeeps
      <4>2. CASE t = "current"
        BY <3>2, <4>1, <4>2, <1>1, <1>2
      <4>3. CASE t = "comm"
        BY <3>1, <4>1, <4>3, <1>1, <1>2 DEF Precedes
      <4> QED
        BY <4>2, <4>3 DEF StreamNames
    <3> QED
      BY <3>3, <3>4
  <2> QED
    BY <2>1, <2>2
<1> QED
  BY <1>13, <1>14, <1>15 DEF SInv

\* One item for the stream of the caller, without a call.
LEMMA OneMore ==
    ASSUME SInv, NEW w \in Works, Enqueue(<<w>>, <<>>),
           UNCHANGED <<program, calls, recorded, memory, context>>,
           freed'.tensor = freed.tensor, freed'.after = freed.after, freed.reused => freed'.reused,
           freed' \in FreedTensors, waited' \in Nat,
           w.do \in {"wait", "read", "overwrite"},
           ItemOK("current", enqueued["current"] + 1, w),
           \A s \in StreamNames : \A b \in Pending(s) : ~(w.do = "read" /\ Requires(w, Item(s, b)))
               \/ (s = "comm" => b <= waited)
    PROVE  /\ StreamsTypeOK' /\ PlansOfDispatches' /\ ItemsOK' /\ Ordered' /\ ContextKept'
           /\ \A p \in Pending("current")' :
                  \/ p \in Pending("current") /\ Item("current", p)' = Item("current", p)
                     /\ p <= enqueued["current"]
                  \/ p = enqueued["current"] + 1 /\ Item("current", p)' = w
           /\ \E p \in Pending("current")' : p = enqueued["current"] + 1 /\ Item("current", p)' = w
           /\ \A s \in StreamNames : Done(s)' = Done(s) /\ \A p \in Pending(s) :
                  p \in Pending(s)' /\ Item(s, p)' = Item(s, p) /\ p \in Nat /\ p <= enqueued[s]
           /\ \A p \in Pending("comm")' : p \in Pending("comm")
           /\ enqueued["current"] \in Nat
           /\ \A n : Uses(n)' = Uses(n) /\ Results(n)' = Results(n) /\ Made(n)' = Made(n)
           /\ \A do, n : NotPending(do, n)' => NotPending(do, n)
<1>1. "current" \in StreamNames /\ "comm" \in StreamNames /\ QueuesOK /\ calls' = calls
  BY TypeQueues DEF SInv, StreamNames
<1>2. <<>> \in Seq(Works) /\ Len(<<>>) = 0 /\ <<w>> \in Seq(Works) /\ Len(<<w>>) = 1 /\ <<w>>[1] = w
  BY OneItem
<1>3. QueuesOK' /\ Extended(<<w>>, <<>>)
  BY <1>1, <1>2, EnqueueItems
<1>4. PICK e : e = enqueued["current"]
  OBVIOUS
<1>5. e \in Nat
  BY <1>1, <1>4 DEF QueuesOK
<1>6. /\ \A s \in StreamNames : Done(s)' = Done(s) /\ \A p \in Pending(s) :
             p \in Pending(s)' /\ Item(s, p)' = Item(s, p) /\ p \in Nat /\ p <= enqueued[s]
      /\ \A do, n : NotPending(do, n)' => NotPending(do, n)
  BY <1>2, <1>3, ExtendedKeeps DEF Extended
<1>7. ASSUME NEW s \in StreamNames, NEW p \in Pending(s)', p \notin Pending(s)
      PROVE  s = "current" /\ p = e + 1 /\ Item(s, p)' = w
  <2>1. p \in Nat
    BY <1>2, <1>3, <1>7, ExtendedKeeps
  <2>2. s = "current"
    BY <1>2, <1>3, <1>7 DEF Extended, StreamNames
  <2>3. p - e \in 1 .. 1 /\ Item(s, p)' = <<w>>[p - e]
    BY <2>2, <1>2, <1>3, <1>4, <1>7 DEF Extended
  <2>4. p - e = 1 /\ p = e + 1
    BY <2>1, <2>3, <1>5
  <2> QED
    BY <2>2, <2>3, <2>4, <1>2
<1>8. e + 1 \in Pending("current")' /\ Item("current", e + 1)' = w
  <2>1. \A k \in 1 .. 1 : \E p \in Pending("current")' : p = e + k /\ Item("current", p)' = <<w>>[k]
    BY <1>2, <1>3, <1>4 DEF Extended
  <2> QED
    BY <2>1, <1>2
<1>9. StreamsTypeOK' /\ PlansOfDispatches'
  BY <1>3 DEF SInv, StreamsTypeOK, PlansOfDispatches, QueuesOK
<1>10. \A n : Uses(n)' = Uses(n) /\ Results(n)' = Results(n) /\ Made(n)' = Made(n)
  BY <1>1 DEF Uses, Inputs, Results, Made, Tensor, TensorOf
<1>11. ItemsOK'
  <2> SUFFICES ASSUME NEW s \in StreamNames, NEW p \in Pending(s)'
               PROVE  ItemOK(s, p, Item(s, p))'
    BY DEF ItemsOK
  <2>1. CASE p \in Pending(s)
    <3>1. Len(calls) \in Nat /\ Len(calls) <= Len(calls') /\ Len(calls') \in Nat
          /\ \A n \in 1 .. Len(calls) : calls'[n] = calls[n]
      <4>1. Len(calls) \in Nat
        BY DEF SInv, StreamsTypeOK
      <4> QED
        BY <4>1, <1>1
    <3> QED
      BY <2>1, <3>1, <1>1, <1>2, <1>3, OldItemsKept
  <2>2. CASE p \notin Pending(s)
    <3>1. s = "current" /\ Item(s, p)' = w
      BY <2>2, <1>7
    <3> QED
      BY <3>1, <1>1 DEF ItemOK
  <2> QED
    BY <2>1, <2>2
<1>12. Ordered'
  <2> SUFFICES ASSUME NEW s \in StreamNames, NEW t \in StreamNames,
                      NEW p \in Pending(s)', NEW b \in Pending(t)',
                      Requires(Item(s, p), Item(t, b))'
               PROVE  Precedes(t, b, s, p)'
    BY DEF Ordered
  <2>1. b \in Pending(t)
    BY <1>7 DEF Requires
  <2>2. PICK v : v = Item(t, b) /\ v = Item(t, b)'
    BY <2>1, <1>6
  <2>3. CASE p \in Pending(s)
    <3>1. PICK u : u = Item(s, p) /\ u = Item(s, p)'
      BY <2>3, <1>6
    <3>2. Requires(u, v)
      BY <2>2, <3>1, <1>1 DEF Requires, Kernel, Needs, UsesContext
    <3>3. Precedes(t, b, s, p)
      BY <2>1, <2>2, <2>3, <3>1, <3>2 DEF SInv, Ordered
    <3> QED
      BY <2>1, <2>3, <3>3, <1>2, <1>3, ExtendedKeeps
  <2>4. CASE p \notin Pending(s)
    <3>1. s = "current" /\ p = e + 1 /\ Item(s, p)' = w
      BY <2>4, <1>7
    <3>2. w.do = "read" /\ Requires(w, v)
      BY <2>2, <3>1, <1>1 DEF Requires, Kernel
    <3>3. CASE t = "current"
      <4>1. b \in Nat /\ b <= e
        BY <2>1, <3>3, <1>4, <1>6
      <4> QED
        BY <3>1, <3>3, <4>1, <1>5 DEF Precedes
    <3>4. CASE t = "comm"
      BY <2>1, <2>2, <2>4, <3>1, <3>2, <3>4, <1>2, <1>3, WaitedPrecedes
    <3> QED
      BY <3>3, <3>4 DEF StreamNames
  <2> QED
    BY <2>3, <2>4
<1>13. ContextKept'
  <2> SUFFICES ASSUME NEW s \in StreamNames, NEW n \in 1 .. Len(calls),
                      ItemIs(s, Done(s) + 1, "finish", n)', UsesContext(calls[n].kind)
               PROVE  context = n
    BY <1>1 DEF ContextKept, UsesContext
  <2>1. PICK p : p = Done(s) + 1 /\ p = Done(s)' + 1
    BY <1>6
  <2>2. p \in Pending(s)' /\ (Item(s, p).do)' = "finish" /\ (Item(s, p).arg)' = n
    BY <2>1 DEF ItemIs
  <2>3. p \in Pending(s)
    BY <2>2, <1>7
  <2>4. ItemIs(s, Done(s) + 1, "finish", n)
    BY <2>1, <2>2, <2>3, <1>6 DEF ItemIs
  <2> QED
    BY <2>4 DEF SInv, ContextKept
<1> QED
  BY <1>1, <1>4, <1>5, <1>6, <1>7, <1>8, <1>9, <1>10, <1>11, <1>12, <1>13

LEMMA OneMoreRest ==
    ASSUME SInv, NEW w \in Works, Enqueue(<<w>>, <<>>),
           UNCHANGED <<program, calls, recorded, memory, context, freed>>, waited' \in Nat,
           w.do \in {"wait", "read"}, ItemOK("current", enqueued["current"] + 1, w),
           w.do = "read" => freed.tensor \notin Results(w.arg),
           \A s \in StreamNames : \A b \in Pending(s) : ~(w.do = "read" /\ Requires(w, Item(s, b)))
               \/ (s = "comm" => b <= waited)
    PROVE  /\ StreamsTypeOK' /\ PlansOfDispatches' /\ ItemsOK' /\ Ordered' /\ ContextKept'
           /\ RecordedAndFreed' /\ OverwrittenLast' /\ MemoryRight'
           /\ \E p \in Pending("current")' : Item("current", p)' = w
           /\ \A p \in Pending("current") : p \in Pending("current")' /\ Item("current", p)' = Item("current", p)
           /\ Done("comm")' = Done("comm")
<1> DEFINE e == enqueued["current"]
<1>1. "current" \in StreamNames /\ "comm" \in StreamNames /\ calls' = calls /\ freed' \in FreedTensors
  BY DEF StreamNames, SInv, StreamsTypeOK
<1>2. /\ StreamsTypeOK' /\ PlansOfDispatches' /\ ItemsOK' /\ Ordered' /\ ContextKept'
      /\ \A p \in Pending("current")' :
             \/ p \in Pending("current") /\ Item("current", p)' = Item("current", p)
                /\ p <= e
             \/ p = e + 1 /\ Item("current", p)' = w
      /\ \E p \in Pending("current")' : p = e + 1 /\ Item("current", p)' = w
      /\ \A s \in StreamNames : Done(s)' = Done(s) /\ \A p \in Pending(s) :
             p \in Pending(s)' /\ Item(s, p)' = Item(s, p) /\ p \in Nat /\ p <= enqueued[s]
      /\ \A p \in Pending("comm")' : p \in Pending("comm")
      /\ \A n : Uses(n)' = Uses(n) /\ Results(n)' = Results(n) /\ Made(n)' = Made(n)
      /\ \A do, n : NotPending(do, n)' => NotPending(do, n)
  BY <1>1, OneMore
<1> HIDE DEF e
<1>3. RecordedAndFreed'
  <2>1. ASSUME NEW p \in Pending("comm")', Kernel(Item("comm", p).do)'
        PROVE  /\ Uses(Item("comm", p).arg)' \subseteq recorded
               /\ freed.tensor \in Uses(Item("comm", p).arg)' => p <= freed.after
    <3>1. PICK v : v = Item("comm", p) /\ v = Item("comm", p)'
      BY <1>1, <1>2
    <3>2. Kernel(v.do) /\ p \in Pending("comm")
      BY <2>1, <3>1, <1>2 DEF Kernel
    <3>3. Uses(Item("comm", p).arg)' = Uses(v.arg)
      BY <3>1, <1>1 DEF Uses, Inputs, Results, Tensor, TensorOf
    <3> QED
      BY <3>1, <3>2, <3>3 DEF SInv, RecordedAndFreed
  <2> QED
    BY <2>1, <1>1, <1>2 DEF SInv, RecordedAndFreed
<1>4. OverwrittenLast'
  <2>1. ASSUME NEW p \in Pending("current")', (Item("current", p).do)' = "overwrite"
        PROVE  p \in Pending("current") /\ Item("current", p)' = Item("current", p)
    BY <2>1, <1>2
  <2>2. ASSUME NEW p \in Pending("current")', Touches(Item("current", p))', freed.reused
        PROVE  \E o \in Pending("current")' : p < o /\ (Item("current", o).do)' = "overwrite"
    <3>1. PICK v : v = Item("current", p)'
      OBVIOUS
    <3>2. Touches(v)
      BY <2>2, <3>1, <1>1 DEF Touches, Kernel, Uses, Inputs, Results, Tensor, TensorOf
    <3>3. v # w
      BY <3>2 DEF Touches, Kernel
    <3>4. p \in Pending("current") /\ v = Item("current", p)
      BY <3>1, <3>3, <1>2
    <3>5. PICK o \in Pending("current") : p < o /\ Item("current", o).do = "overwrite"
      BY <2>2, <3>2, <3>4 DEF SInv, OverwrittenLast
    <3> QED
      BY <3>5, <1>1, <1>2
  <2> QED
    BY <2>1, <2>2 DEF SInv, OverwrittenLast
<1>5. MemoryRight'
  <2>1. \A t : Gone(t) => Gone(t)'
    BY <1>2 DEF Gone
  <2>2. \A t : Right(t) => Right(t)'
    BY <2>1 DEF Right
  <2> QED
    BY <2>2, <1>1, <1>2 DEF SInv, MemoryRight
<1> QED
  BY <1>1, <1>2, <1>3, <1>4, <1>5

LEMMA WaitStep == ASSUME SInv, NEW n \in 1 .. Len(calls), Wait(n) PROVE SInv'
<1> DEFINE w == Work("wait", calls[n].done)
<1>1. calls[n].done \in Nat
  <2> DEFINE C == [kind : Kinds, done : Nat, plan : Nat]
  <2>1. calls \in Seq(C)
    BY DEF SInv, StreamsTypeOK
  <2> HIDE DEF C
  <2>2. calls[n] \in C
    BY <2>1
  <2> QED
    BY <2>2 DEF C
<1>2. w \in Works /\ w.do = "wait" /\ w.arg = calls[n].done
  BY <1>1 DEF Work, Works, Dos
<1>3. Enqueue(<<w>>, <<>>) /\ waited' = calls[n].done
      /\ UNCHANGED <<program, calls, recorded, memory, context, freed, seen>>
  BY DEF Wait
<1>4. ItemOK("current", enqueued["current"] + 1, w)
  BY <1>1, <1>2 DEF ItemOK
<1> HIDE DEF w
<1>5. /\ StreamsTypeOK' /\ PlansOfDispatches' /\ ItemsOK' /\ Ordered' /\ ContextKept'
      /\ RecordedAndFreed' /\ OverwrittenLast' /\ MemoryRight'
      /\ \E p \in Pending("current")' : Item("current", p)' = w
  BY <1>1, <1>2, <1>3, <1>4, OneMoreRest
<1>6. WaitPending'
  <2>1. PICK p \in Pending("current")' : Item("current", p)' = w
    BY <1>5
  <2>2. (Item("current", p).do)' = "wait" /\ (Item("current", p).arg)' >= waited'
    BY <2>1, <1>1, <1>2, <1>3
  <2> QED
    BY <2>1, <2>2 DEF WaitPending
<1>7. ResultsRight'
  BY <1>3 DEF SInv, ResultsRight
<1> QED
  BY <1>5, <1>6, <1>7 DEF SInv

LEMMA ReadResultsStep == ASSUME SInv, NEW n \in 1 .. Len(calls), ReadResults(n) PROVE SInv'
<1> DEFINE w == Work("read", n)
<1>1. w \in Works /\ w.do = "read" /\ w.arg = n
  <2>1. n \in Nat
    OBVIOUS
  <2> QED
    BY <2>1 DEF Work, Works, Dos
<1>2. /\ Enqueue(<<w>>, <<>>) /\ waited' = waited /\ seen' = "asked" /\ waited >= calls[n].done
      /\ freed.tensor \notin Results(n) /\ waited \in Nat
      /\ UNCHANGED <<program, calls, recorded, memory, context, freed>>
  BY DEF ReadResults, SInv, StreamsTypeOK
<1>3. ItemOK("current", enqueued["current"] + 1, w)
  BY <1>1 DEF ItemOK
<1> HIDE DEF w
<1>4. ASSUME NEW s \in StreamNames, NEW b \in Pending(s), Requires(w, Item(s, b)), s = "comm"
      PROVE  b <= waited
  <2>1. Item(s, b).do = "finish" /\ Item(s, b).arg = n
    BY <1>1, <1>4 DEF Requires, Kernel
  <2>2. calls[n].done = b
    BY <2>1, <1>4, OldItem DEF ItemOK
  <2> QED
    BY <2>2, <1>2
<1>5. /\ StreamsTypeOK' /\ PlansOfDispatches' /\ ItemsOK' /\ Ordered' /\ ContextKept'
      /\ RecordedAndFreed' /\ OverwrittenLast' /\ MemoryRight'
      /\ \A p \in Pending("current") : p \in Pending("current")' /\ Item("current", p)' = Item("current", p)
      /\ Done("comm")' = Done("comm")
  BY <1>1, <1>2, <1>3, <1>4, OneMoreRest
<1>6. WaitPending'
  BY <1>2, <1>5 DEF SInv, WaitPending
<1>7. ResultsRight'
  BY <1>2 DEF ResultsRight
<1> QED
  BY <1>5, <1>6, <1>7 DEF SInv

\* A step that leaves the queues and the calls alone.
LEMMA QueuesKept ==
    ASSUME SInv, UNCHANGED <<program, calls, queue, enqueued, waited, recorded, memory, context>>
    PROVE  /\ \A s \in StreamNames : Done(s)' = Done(s) /\ Pending(s)' = Pending(s)
           /\ \A s \in StreamNames : \A p : Item(s, p)' = Item(s, p)
           /\ \A m : Uses(m)' = Uses(m) /\ Results(m)' = Results(m) /\ Made(m)' = Made(m)
           /\ \A do, m : NotPending(do, m)' = NotPending(do, m)
           /\ PlansOfDispatches' /\ ItemsOK' /\ Ordered' /\ WaitPending' /\ ContextKept'
<1>1. \A s \in StreamNames : \A p : Done(s)' = Done(s) /\ Pending(s)' = Pending(s) /\ Item(s, p)' = Item(s, p)
  BY DEF Done, Pending, Item
<1>2. \A m : Uses(m)' = Uses(m) /\ Results(m)' = Results(m) /\ Made(m)' = Made(m)
  BY DEF Uses, Inputs, Results, Made, Tensor, TensorOf
<1>3. \A s \in StreamNames : \A p, do, m : ItemIs(s, p, do, m)' = ItemIs(s, p, do, m)
  BY <1>1 DEF ItemIs
<1>4. \A do, m : NotPending(do, m)' = NotPending(do, m)
  BY <1>1, <1>3 DEF NotPending
<1>5. PlansOfDispatches' /\ WaitPending' /\ ContextKept'
  <2>1. "current" \in StreamNames /\ "comm" \in StreamNames
    BY DEF StreamNames
  <2>2. PlansOfDispatches'
    BY DEF SInv, PlansOfDispatches
  <2>3. WaitPending'
    BY <1>1, <2>1 DEF SInv, WaitPending
  <2>4. ContextKept'
    BY <1>1, <1>3 DEF SInv, ContextKept
  <2> QED
    BY <2>2, <2>3, <2>4
<1>6. ItemsOK'
  <2> SUFFICES ASSUME NEW s \in StreamNames, NEW p \in Pending(s)'
               PROVE  ItemOK(s, p, Item(s, p))'
    BY DEF ItemsOK
  <2>1. PICK w : w = Item(s, p) /\ w = Item(s, p)'
    BY <1>1
  <2>2. p \in Pending(s) /\ ItemOK(s, p, w)
    BY <2>1, <1>1 DEF SInv, ItemsOK
  <2>3. ItemOK(s, p, w)'
    BY <2>2, <1>1, <1>3 DEF ItemOK
  <2> QED
    BY <2>1, <2>3
<1>7. Ordered'
  <2> SUFFICES ASSUME NEW s \in StreamNames, NEW t \in StreamNames,
                      NEW p \in Pending(s)', NEW b \in Pending(t)',
                      Requires(Item(s, p), Item(t, b))'
               PROVE  Precedes(t, b, s, p)'
    BY DEF Ordered
  <2>1. PICK w, v : w = Item(s, p) /\ w = Item(s, p)' /\ v = Item(t, b) /\ v = Item(t, b)'
    BY <1>1
  <2>2. Requires(w, v)'
    BY <2>1
  <2>3. Requires(w, v)
    BY <2>2 DEF Requires, Needs, Kernel, UsesContext
  <2>4. p \in Pending(s) /\ b \in Pending(t)
    BY <1>1
  <2>5. Precedes(t, b, s, p)
    BY <2>1, <2>3, <2>4 DEF SInv, Ordered
  <2> QED
    BY <2>5, <1>1 DEF Precedes
<1> QED
  BY <1>1, <1>2, <1>4, <1>5, <1>6, <1>7

LEMMA StutterStep == ASSUME SInv, UNCHANGED vars PROVE SInv'
<1>1. UNCHANGED <<program, calls, queue, enqueued, waited, recorded, memory, context>>
      /\ UNCHANGED <<freed, seen>>
  BY DEF vars
<1>2. "current" \in StreamNames /\ "comm" \in StreamNames
  BY DEF StreamNames
<1>3. /\ \A s \in StreamNames : Done(s)' = Done(s) /\ Pending(s)' = Pending(s)
      /\ \A s \in StreamNames : \A p : Item(s, p)' = Item(s, p)
      /\ \A m : Uses(m)' = Uses(m) /\ Results(m)' = Results(m) /\ Made(m)' = Made(m)
      /\ \A do, m : NotPending(do, m)' = NotPending(do, m)
      /\ PlansOfDispatches' /\ ItemsOK' /\ Ordered' /\ WaitPending' /\ ContextKept'
  BY <1>1, QueuesKept
<1>4. StreamsTypeOK'
  BY <1>1, <1>3 DEF SInv, StreamsTypeOK
<1>5. RecordedAndFreed'
  <2>1. ASSUME NEW p \in Pending("comm")', Kernel(Item("comm", p).do)'
        PROVE  /\ Uses(Item("comm", p).arg)' \subseteq recorded
               /\ freed.tensor \in Uses(Item("comm", p).arg)' => p <= freed.after
    <3>1. PICK v : v = Item("comm", p) /\ v = Item("comm", p)'
      BY <1>2, <1>3
    <3>2. Kernel(v.do) /\ p \in Pending("comm")
      BY <2>1, <3>1, <1>2, <1>3 DEF Kernel
    <3>3. Uses(Item("comm", p).arg)' = Uses(v.arg)
      BY <3>1, <1>1 DEF Uses, Inputs, Results, Tensor, TensorOf
    <3> QED
      BY <3>1, <3>2, <3>3 DEF SInv, RecordedAndFreed
  <2>2. Done("comm")' = Done("comm") /\ freed' = freed /\ calls' = calls /\ recorded' = recorded
    BY <1>1, <1>2, <1>3
  <2> QED
    BY <2>1, <2>2 DEF SInv, RecordedAndFreed
<1>6. OverwrittenLast'
  <2>1. ASSUME NEW p \in Pending("current") PROVE Touches(Item("current", p))' = Touches(Item("current", p))
    <3>1. PICK v : v = Item("current", p) /\ v = Item("current", p)'
      BY <1>2, <1>3
    <3>2. Touches(v)' = Touches(v)
      BY <1>1 DEF Touches, Kernel, Uses, Inputs, Results, Tensor, TensorOf
    <3> QED
      BY <3>1, <3>2
  <2> QED
    BY <2>1, <1>1, <1>2, <1>3 DEF SInv, OverwrittenLast
<1>7. MemoryRight'
  <2>1. \A t : Right(t) => Right(t)'
    BY <1>1, <1>2, <1>3 DEF Right, Gone
  <2> QED
    BY <2>1, <1>1, <1>3 DEF SInv, MemoryRight
<1>8. ResultsRight'
  BY <1>1 DEF SInv, ResultsRight
<1> QED
  BY <1>3, <1>4, <1>5, <1>6, <1>7, <1>8 DEF SInv

LEMMA FreeStep == ASSUME SInv, NEW n \in 1 .. Len(calls), Free(n) PROVE SInv'
<1>1. PICK t \in Uses(n) : freed' = [Nothing EXCEPT !.tensor = t,
                      !.after = IF t \in recorded THEN enqueued["comm"] ELSE 0]
  BY DEF Free, Uses
<1>2. /\ freed = Nothing
      /\ UNCHANGED <<program, calls, queue, enqueued, waited, recorded, memory, context, seen>>
  BY DEF Free
<1>3. freed'.tensor = t /\ freed'.after = (IF t \in recorded THEN enqueued["comm"] ELSE 0)
      /\ freed'.reused = FALSE /\ freed' \in [tensor : {t}, after : {freed'.after}, reused : {FALSE}]
  BY <1>1 DEF Nothing
<1>4. freed.tensor = <<>> /\ freed.reused = FALSE
  BY <1>2 DEF Nothing
<1>5. "comm" \in StreamNames /\ enqueued["comm"] \in Nat
  BY DEF SInv, StreamsTypeOK, StreamNames
<1>6. t \in (1 .. Len(calls)) \X Names
  BY UsesInMemory DEF SInv
<1>7. freed' \in FreedTensors
  <2>1. freed'.after \in Nat
    BY <1>3, <1>5
  <2>2. t \in Nat \X Names
    BY <1>6
  <2> QED
    BY <1>3, <2>1, <2>2 DEF FreedTensors
<1>8. /\ \A s \in StreamNames : Done(s)' = Done(s) /\ Pending(s)' = Pending(s)
      /\ \A s \in StreamNames : \A p : Item(s, p)' = Item(s, p)
      /\ \A m : Uses(m)' = Uses(m) /\ Results(m)' = Results(m) /\ Made(m)' = Made(m)
      /\ \A do, m : NotPending(do, m)' = NotPending(do, m)
      /\ PlansOfDispatches' /\ ItemsOK' /\ Ordered' /\ WaitPending' /\ ContextKept'
  BY <1>2, QueuesKept
<1>9. StreamsTypeOK'
  BY <1>2, <1>7, <1>8 DEF SInv, StreamsTypeOK
<1>13. RecordedAndFreed'
  <2>1. ASSUME NEW p \in Pending("comm"), Kernel(Item("comm", p).do)
        PROVE  /\ Uses(Item("comm", p).arg) \subseteq recorded
               /\ t \in Uses(Item("comm", p).arg) => p <= freed'.after
    <3>1. Uses(Item("comm", p).arg) \subseteq recorded
      BY <2>1 DEF SInv, RecordedAndFreed
    <3>2. p <= enqueued["comm"]
      BY <1>5, PendingRange, TypeQueues DEF SInv
    <3> QED
      BY <1>3, <3>1, <3>2
  <2>2. ASSUME NEW p \in Pending("comm")', Kernel(Item("comm", p).do)'
        PROVE  /\ Uses(Item("comm", p).arg)' \subseteq recorded
               /\ t \in Uses(Item("comm", p).arg)' => p <= freed'.after
    <3>1. PICK v : v = Item("comm", p) /\ v = Item("comm", p)'
      BY <1>5, <1>8
    <3>2. Kernel(v.do) /\ p \in Pending("comm")
      BY <2>2, <3>1, <1>5, <1>8 DEF Kernel
    <3>3. Uses(Item("comm", p).arg)' = Uses(v.arg)
      BY <3>1, <1>2 DEF Uses, Inputs, Results, Tensor, TensorOf
    <3> QED
      BY <3>1, <3>2, <3>3, <2>1
  <2>3. freed'.reused = FALSE /\ freed'.tensor = t /\ calls' = calls /\ recorded' = recorded
    BY <1>2, <1>3
  <2> QED
    BY <2>2, <2>3, <1>6 DEF RecordedAndFreed
<1>14. OverwrittenLast'
  <2>1. \A p \in Pending("current") : Item("current", p).do # "overwrite"
    BY <1>4 DEF SInv, OverwrittenLast
  <2>2. "current" \in StreamNames
    BY DEF StreamNames
  <2> QED
    BY <2>1, <2>2, <1>3, <1>8 DEF OverwrittenLast
<1>16. MemoryRight'
  <2>1. \A x : Right(x) => Right(x)'
    BY <1>2, <1>4 DEF Right, Gone
  <2> QED
    BY <2>1, <1>2, <1>8 DEF SInv, MemoryRight
<1>18. ResultsRight'
  BY <1>2 DEF SInv, ResultsRight
<1> QED
  BY <1>8, <1>9, <1>13, <1>14, <1>16, <1>18 DEF SInv

LEMMA ReuseStep == ASSUME SInv, Reuse PROVE SInv'
<1> DEFINE w == Work("overwrite", freed.tensor)
           e == enqueued["current"]
<1>1. /\ freed.tensor # <<>> /\ ~freed.reused /\ Done("comm") >= freed.after
      /\ freed' = [freed EXCEPT !.reused = TRUE] /\ Enqueue(<<w>>, <<>>)
      /\ UNCHANGED <<program, calls, waited, recorded, memory, context, seen>>
  BY DEF Reuse
<1>2. freed \in FreedTensors /\ waited \in Nat
  BY DEF SInv, StreamsTypeOK
<1>3. /\ freed'.tensor = freed.tensor /\ freed'.after = freed.after /\ freed'.reused = TRUE
      /\ freed' \in FreedTensors
  BY <1>1, <1>2 DEF FreedTensors
<1>4. w \in Works /\ w.do = "overwrite" /\ w.arg = freed.tensor
  BY <1>1, <1>2 DEF Work, Works, Dos, FreedTensors
<1>5. ItemOK("current", enqueued["current"] + 1, w)
  BY <1>4 DEF ItemOK
<1> HIDE DEF w
<1>6. "current" \in StreamNames /\ "comm" \in StreamNames /\ waited' \in Nat
  BY <1>1, <1>2 DEF StreamNames
<1>7. /\ StreamsTypeOK' /\ PlansOfDispatches' /\ ItemsOK' /\ Ordered' /\ ContextKept'
      /\ \A p \in Pending("current")' :
             \/ p \in Pending("current") /\ Item("current", p)' = Item("current", p) /\ p <= e
             \/ p = e + 1 /\ Item("current", p)' = w
      /\ \E p \in Pending("current")' : p = e + 1 /\ Item("current", p)' = w
      /\ \A s \in StreamNames : Done(s)' = Done(s) /\ \A p \in Pending(s) :
             p \in Pending(s)' /\ Item(s, p)' = Item(s, p) /\ p \in Nat /\ p <= enqueued[s]
      /\ \A p \in Pending("comm")' : p \in Pending("comm")
      /\ e \in Nat
      /\ \A n : Uses(n)' = Uses(n) /\ Results(n)' = Results(n) /\ Made(n)' = Made(n)
      /\ \A do, n : NotPending(do, n)' => NotPending(do, n)
  BY <1>1, <1>3, <1>4, <1>5, <1>6, OneMore
<1>8. PICK k : k = e + 1
  OBVIOUS
<1>9. \A p \in Pending("current") : Item("current", p).do # "overwrite"
  BY <1>1 DEF SInv, OverwrittenLast
<1>10. k \in Pending("current")' /\ Item("current", k)' = w
  BY <1>7, <1>8
<1> HIDE DEF e
<1>11. RecordedAndFreed'
  <2>1. ASSUME NEW p \in Pending("comm")', Kernel(Item("comm", p).do)'
        PROVE  /\ Uses(Item("comm", p).arg)' \subseteq recorded
               /\ freed.tensor \in Uses(Item("comm", p).arg)' => p <= freed.after
    <3>1. PICK v : v = Item("comm", p) /\ v = Item("comm", p)'
      BY <1>6, <1>7
    <3>2. Kernel(v.do) /\ p \in Pending("comm")
      BY <2>1, <3>1, <1>7 DEF Kernel
    <3>3. Uses(Item("comm", p).arg)' = Uses(v.arg)
      BY <3>1, <1>1 DEF Uses, Inputs, Results, Tensor, TensorOf
    <3> QED
      BY <3>1, <3>2, <3>3 DEF SInv, RecordedAndFreed
  <2>2. freed.tensor \in (1 .. Len(calls)) \X Names
    BY <1>1 DEF SInv, RecordedAndFreed
  <2> QED
    BY <2>1, <2>2, <1>1, <1>3, <1>6, <1>7 DEF RecordedAndFreed
<1>12. OverwrittenLast'
  <2>1. ASSUME NEW p \in Pending("current")', (Item("current", p).do)' = "overwrite"
        PROVE  p = k /\ (Item("current", p).arg)' = freed'.tensor
    BY <2>1, <1>3, <1>4, <1>7, <1>8, <1>9
  <2>2. ASSUME NEW p \in Pending("current")', Touches(Item("current", p))'
        PROVE  p < k
    <3>1. (Item("current", p).do)' # "overwrite"
      BY <2>2 DEF Touches, Kernel
    <3>2. p \in Nat /\ p <= e
      BY <3>1, <1>4, <1>6, <1>7
    <3> QED
      BY <3>2, <1>7, <1>8
  <2> QED
    BY <2>1, <2>2, <1>3, <1>4, <1>10 DEF OverwrittenLast
<1>13. WaitPending'
  BY <1>1, <1>6, <1>7 DEF SInv, WaitPending
<1>14. MemoryRight'
  <2>1. \A t : Right(t) => Right(t)'
    BY <1>1 DEF Right, Gone
  <2> QED
    BY <2>1, <1>1, <1>7 DEF SInv, MemoryRight
<1>15. ResultsRight'
  BY <1>1 DEF SInv, ResultsRight
<1> QED
  BY <1>7, <1>11, <1>12, <1>13, <1>14, <1>15 DEF SInv

-----------------------------------------------------------------------------
LEMMA InitSInv == Init => SInv
<1> SUFFICES ASSUME Init PROVE SInv
  OBVIOUS
<1>1. \A s \in StreamNames : queue[s] = <<>> /\ enqueued[s] = 0
  BY DEF Init
<1>2. \A s \in StreamNames : Done(s) = 0 /\ Pending(s) = {}
  <2> SUFFICES ASSUME NEW s \in StreamNames PROVE Done(s) = 0 /\ Pending(s) = {}
    OBVIOUS
  <2>1. Len(queue[s]) = 0
    BY <1>1
  <2> QED
    BY <1>1, <2>1 DEF Done, Pending
<1>3. calls = <<>> /\ Len(calls) = 0 /\ waited = 0 /\ freed = Nothing /\ seen = "unread"
  BY DEF Init
<1>4. StreamsTypeOK
  <2>1. program \in Programs /\ Len(program) \in Nat
    BY ProgramsAssumption DEF Init
  <2>2. calls \in Seq([kind : Kinds, done : Nat, plan : Nat])
    BY <1>3
  <2>3. queue \in [StreamNames -> Seq(Works)] /\ enqueued \in [StreamNames -> Nat]
    BY DEF Init
  <2>4. memory \in [(1 .. Len(program)) \X Names -> BOOLEAN]
    BY DEF Init
  <2>5. freed \in FreedTensors
    BY <1>3 DEF Nothing, FreedTensors
  <2> QED
    BY <2>1, <2>2, <2>3, <2>4, <2>5, <1>2, <1>3 DEF StreamsTypeOK
<1>5. "comm" \in StreamNames /\ "current" \in StreamNames /\ freed.tensor = <<>> /\ freed.reused = FALSE
  BY <1>3 DEF StreamNames, Nothing
<1>6. PlansOfDispatches /\ MemoryRight /\ ContextKept
  BY <1>3 DEF PlansOfDispatches, MemoryRight, ContextKept
<1>7. ItemsOK /\ Ordered
  BY <1>2 DEF ItemsOK, Ordered
<1>8. RecordedAndFreed /\ OverwrittenLast
  BY <1>2, <1>5 DEF RecordedAndFreed, OverwrittenLast
<1>9. WaitPending /\ ResultsRight
  BY <1>2, <1>3, <1>5 DEF WaitPending, ResultsRight
<1> QED
  BY <1>4, <1>6, <1>7, <1>8, <1>9 DEF SInv

LEMMA SInvStep == SInv /\ [Next]_vars => SInv'
<1> SUFFICES ASSUME SInv, [Next]_vars PROVE SInv'
  OBVIOUS
<1>1. CASE UNCHANGED vars
  BY <1>1, StutterStep
<1>2. ASSUME NEW kind \in Kinds, CallSync(kind) \/ CallAsync(kind) PROVE SInv'
  BY <1>2, CallSyncStep, CallAsyncStep
<1>3. ASSUME NEW n \in 1 .. Len(calls), Wait(n) \/ ReadResults(n) \/ Free(n) PROVE SInv'
  BY <1>3, WaitStep, ReadResultsStep, FreeStep
<1>4. CASE Reuse
  BY <1>4, ReuseStep
<1>5. ASSUME NEW s \in StreamNames, Device(s) PROVE SInv'
  BY <1>5, MakeInputsStep, WaitEventStep, StartCallStep, FinishCallStep, ReadStep, OverwriteStep DEF Device
<1> QED
  BY <1>1, <1>2, <1>3, <1>4, <1>5 DEF Next, Host

LEMMA SInvHeld == SInv => HeldWhileUsed
<1> SUFFICES ASSUME SInv, freed.reused, NEW i \in 1 .. Len(queue["comm"]),
                    queue["comm"][i].do # "wait"
             PROVE  freed.tensor \notin Uses(queue["comm"][i].arg)
  BY DEF HeldWhileUsed, Uses
<1>1. QueuesOK /\ "comm" \in StreamNames
  BY TypeQueues DEF SInv, StreamNames
<1>2. Done("comm") \in Nat /\ enqueued["comm"] \in Nat /\ queue["comm"] \in Seq(Works)
      /\ Len(queue["comm"]) \in Nat /\ Done("comm") = enqueued["comm"] - Len(queue["comm"])
  BY <1>1 DEF QueuesOK, Done
<1>3. PICK p : p = Done("comm") + i
  OBVIOUS
<1>4. p \in Pending("comm") /\ Item("comm", p) = queue["comm"][i]
  <2>1. i \in Nat /\ 1 <= i /\ i <= Len(queue["comm"])
    BY <1>2
  <2>2. p \in Nat /\ p - Done("comm") = i /\ Done("comm") + 1 <= p /\ p <= enqueued["comm"]
    BY <2>1, <1>2, <1>3
  <2>3. p \in Pending("comm")
    BY <2>2, <1>2 DEF Pending
  <2> QED
    BY <2>2, <2>3 DEF Item
<1>5. queue["comm"][i] \in Works
  BY <1>2
<1>6. Kernel(Item("comm", p).do)
  <2>1. queue["comm"][i].do \in Dos
    BY <1>5 DEF Works
  <2>2. ~(queue["comm"][i].do \in {"make", "read", "overwrite"})
    BY <1>1, <1>4, OldItem DEF ItemOK
  <2> QED
    BY <2>1, <2>2, <1>4 DEF Dos, Kernel
<1>7. ~(p <= freed.after)
  BY <1>2, <1>3 DEF SInv, RecordedAndFreed, StreamsTypeOK, FreedTensors
<1> QED
  BY <1>4, <1>6, <1>7 DEF SInv, RecordedAndFreed

\* The communication stream never touches memory that was handed out again: what a
\* call reads or writes there was recorded, and freed memory is kept until all
\* that was enqueued when it was freed is done.
THEOREM MemoryHeld == Spec => []HeldWhileUsed
<1>1. Spec => []SInv
  BY InitSInv, SInvStep, PTL DEF Spec
<1> QED
  BY <1>1, SInvHeld, PTL

\* What a caller reads after it has waited for the event of a call is right: with any
\* sequence of calls on either stream, and whatever is freed and reused meanwhile.
THEOREM CallersReadRight == Spec => []ResultsRight
<1>1. Spec => []SInv
  BY InitSInv, SInvStep, PTL DEF Spec
<1>2. SInv => ResultsRight
  BY DEF SInv
<1> QED
  BY <1>1, <1>2, PTL
=============================================================================
