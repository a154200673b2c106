--------------------------- MODULE LifecycleProofs ---------------------------
(***************************************************************************)
(* For every number of ranks and Buffers, every legal program on every rank*)
(* and any number of creations and releases that raise: no symmetric tensor*)
(* is released twice, and none of a destroyed Buffer is left out; and while*)
(* kernels of a Buffer are in flight anywhere its tensors are mapped and   *)
(* zeroed on all ranks but those that destroyed it outside of the process  *)
(* group, unless a call has raised.                                        *)
(***************************************************************************)
EXTENDS Lifecycle, FiniteSetTheorems, WellFoundedInduction, TLAPS

Phases == {"call", "initialized", "allocated", "zeroed", "releasing"}
Creating == {"initialized", "allocated", "zeroed"}

\* The variables that the argument is about.
LifecycleTypeOK ==
    /\ rest \in [Ranks -> Seq(Calls)]
    /\ phase \in [Ranks -> Phases]
    /\ ctx \in [Ranks -> [Buffers -> SUBSET Keys]]
    /\ destroyed \in [Ranks -> [Buffers -> BOOLEAN]]
    /\ releases \in [Ranks -> [Buffers \X Keys -> Nat]]
    /\ tensors \in [Ranks -> [Buffers \X Keys -> {"none", "raw", "zeroed", "freed"}]]

\* A Buffer that was not made yet; and one that was: a tensor is in its context or
\* was released once.
Fresh(r) == {b \in Buffers :
    /\ ctx[r][b] = {} /\ ~destroyed[r][b]
    /\ \A key \in Keys : releases[r][<<b, key>>] = 0}
Made(r) == {b \in Buffers :
    /\ destroyed[r][b] => ctx[r][b] = {}
    /\ \A key \in Keys : releases[r][<<b, key>>] = IF key \in ctx[r][b] THEN 0 ELSE 1}

\* Calls that may follow when the Buffers of fresh were not made yet, and those of
\* made were: each Buffer is made once, and before it is used.
MayFollow(calls, fresh, made) ==
    \A i \in 1 .. Len(calls) :
        LET earlier == \E j \in 1 .. (i - 1) :
                           calls[j].kind = "create" /\ calls[j].buf = calls[i].buf
        IN  IF calls[i].kind = "create" THEN calls[i].buf \in fresh /\ ~earlier
                                        ELSE calls[i].buf \in made \/ earlier

\* What a rank is in the middle of is a call of the right kind.
PhaseOfCall(r) ==
    /\ phase[r] \in Creating => rest[r] # <<>> /\ Head(rest[r]).kind = "create"
    /\ phase[r] = "releasing" => rest[r] # <<>> /\ Head(rest[r]).kind \in {"destroy", "drop"}

\* A Buffer with tensors was made, or is being made.
TensorsOfMade(r) ==
    \A b \in Buffers :
        tensors[r][<<b, "hidden_buf">>] # "none" =>
            b \in Made(r) \/ (phase[r] \in {"allocated", "zeroed"} /\ Buf(r) = b)

OrderlyRank(r) ==
    /\ Buffers = Fresh(r) \cup Made(r)
    /\ MayFollow(rest[r], Fresh(r), Made(r))
    /\ PhaseOfCall(r)
    /\ TensorsOfMade(r)

LInv == LifecycleTypeOK /\ \A r \in Ranks : OrderlyRank(r)
-----------------------------------------------------------------------------
LEMMA FreshNotMade == ASSUME NEW r PROVE Fresh(r) \cap Made(r) = {}
BY DEF Fresh, Made, Keys

\* A legal program may be run from the start.
LEMMA LegalMayFollow ==
    ASSUME NEW calls \in Seq(Calls), Legal(calls)
    PROVE  MayFollow(calls, Buffers, {})
<1> SUFFICES ASSUME NEW i \in 1 .. Len(calls)
             PROVE  LET earlier == \E j \in 1 .. (i - 1) :
                            calls[j].kind = "create" /\ calls[j].buf = calls[i].buf
                    IN  IF calls[i].kind = "create" THEN calls[i].buf \in Buffers /\ ~earlier
                                                    ELSE calls[i].buf \in {} \/ earlier
  BY DEF MayFollow
<1>1. calls[i] \in Calls /\ \A j \in 1 .. (i - 1) : calls[j] \in Calls
  <2>1. \A j \in 1 .. Len(calls) : calls[j] \in Calls
    OBVIOUS
  <2>2. Len(calls) \in Nat
    OBVIOUS
  <2> QED
    BY <2>1, <2>2
<1>2. \A j \in 1 .. (i - 1) :
          calls[j] = [calls[i] EXCEPT !.kind = "create"] <=>
              calls[j].kind = "create" /\ calls[j].buf = calls[i].buf
  BY <1>1 DEF Calls
<1>3. Before(calls, i, "create") <=> calls[i].kind # "create"
  BY DEF Legal
<1> QED
  BY <1>1, <1>2, <1>3 DEF Before, Calls

\* After its first call the rest of a program may follow: the Buffer of that call
\* is made.
LEMMA RestMayFollow ==
    ASSUME NEW calls \in Seq(Calls), calls # <<>>, NEW fresh, NEW made,
           fresh \cap made = {}, MayFollow(calls, fresh, made)
    PROVE  /\ Head(calls) \in Calls /\ Tail(calls) \in Seq(Calls)
           /\ Head(calls).kind = "create" => Head(calls).buf \in fresh
           /\ Head(calls).kind # "create" => Head(calls).buf \in made
           /\ MayFollow(Tail(calls), fresh \ {Head(calls).buf}, made \cup {Head(calls).buf})
<1>1. /\ Len(calls) \in Nat \ {0} /\ Head(calls) = calls[1] /\ Tail(calls) \in Seq(Calls)
      /\ Head(calls) \in Calls
      /\ Len(Tail(calls)) = Len(calls) - 1
      /\ \A i \in 1 .. Len(Tail(calls)) : Tail(calls)[i] = calls[i + 1]
  OBVIOUS
<1>2. 1 \in 1 .. Len(calls) /\ 1 .. (1 - 1) = {}
  BY <1>1
<1>3. /\ calls[1].kind = "create" => calls[1].buf \in fresh
      /\ calls[1].kind # "create" => calls[1].buf \in made
  BY <1>2 DEF MayFollow
<1>4. MayFollow(Tail(calls), fresh \ {calls[1].buf}, made \cup {calls[1].buf})
  <2> DEFINE Makes(j, i) == calls[j].kind = "create" /\ calls[j].buf = calls[i].buf
  <2> SUFFICES ASSUME NEW i \in 1 .. Len(Tail(calls))
               PROVE  LET earlier == \E j \in 1 .. (i - 1) : Makes(j + 1, i + 1)
                      IN  IF calls[i + 1].kind = "create"
                          THEN calls[i + 1].buf \in fresh \ {calls[1].buf} /\ ~earlier
                          ELSE calls[i + 1].buf \in made \cup {calls[1].buf} \/ earlier
    <3>1. \A k \in 1 .. Len(Tail(calls)) : \A j \in 1 .. (k - 1) :
              Tail(calls)[j] = calls[j + 1] /\ Tail(calls)[k] = calls[k + 1]
      BY <1>1
    <3>2. \A k \in 1 .. Len(Tail(calls)) : Tail(calls)[k] = calls[k + 1]
      BY <1>1
    <3> QED
      BY <3>1, <3>2 DEF MayFollow
  <2>1. i + 1 \in 1 .. Len(calls) /\ i \in Nat \ {0} /\ (i + 1) - 1 = i
    BY <1>1
  <2>2. IF calls[i + 1].kind = "create"
        THEN calls[i + 1].buf \in fresh /\ ~ \E j \in 1 .. i : Makes(j, i + 1)
        ELSE calls[i + 1].buf \in made \/ \E j \in 1 .. i : Makes(j, i + 1)
    BY <2>1 DEF MayFollow
  <2>3. (\E j \in 1 .. i : Makes(j, i + 1)) <=>
            Makes(1, i + 1) \/ \E j \in 1 .. (i - 1) : Makes(j + 1, i + 1)
    <3>1. ASSUME NEW j \in 1 .. i, Makes(j, i + 1)
          PROVE  Makes(1, i + 1) \/ \E k \in 1 .. (i - 1) : Makes(k + 1, i + 1)
      <4>1. CASE j = 1
        BY <3>1, <4>1
      <4>2. CASE j # 1
        <5>1. j - 1 \in 1 .. (i - 1) /\ (j - 1) + 1 = j
          BY <2>1, <4>2
        <5> QED
          BY <3>1, <5>1
      <4> QED
        BY <4>1, <4>2
    <3>2. ASSUME NEW k \in 1 .. (i - 1), Makes(k + 1, i + 1)
          PROVE  \E j \in 1 .. i : Makes(j, i + 1)
      <4>1. k + 1 \in 1 .. i
        BY <2>1
      <4> QED
        BY <3>2, <4>1
    <3>3. 1 \in 1 .. i
      BY <2>1
    <3> QED
      BY <3>1, <3>2, <3>3
  <2>4. Makes(1, i + 1) <=> calls[1].kind = "create" /\ calls[1].buf = calls[i + 1].buf
    OBVIOUS
  <2> HIDE DEF Makes
  <2>5. CASE calls[i + 1].kind = "create"
    BY <1>3, <2>2, <2>3, <2>4, <2>5
  <2>6. CASE calls[i + 1].kind # "create"
    BY <2>2, <2>3, <2>4, <2>6
  <2> QED
    BY <2>5, <2>6
<1> QED
  BY <1>1, <1>3, <1>4
-----------------------------------------------------------------------------
\* Rank r returns from its first call.
Returns(r) == rest[r] # <<>> /\ rest' = [rest EXCEPT ![r] = Tail(@)]
                             /\ phase' = [phase EXCEPT ![r] = "call"]

LEMMA FirstCall ==
    ASSUME LInv, NEW r \in Ranks, rest[r] # <<>>
    PROVE  /\ Buf(r) \in Buffers
           /\ Head(rest[r]).kind = "create" => Buf(r) \in Fresh(r)
           /\ Head(rest[r]).kind # "create" => Buf(r) \in Made(r)
<1>1. rest[r] \in Seq(Calls) /\ MayFollow(rest[r], Fresh(r), Made(r))
  BY DEF LInv, LifecycleTypeOK, OrderlyRank
<1>2. /\ Head(rest[r]) \in Calls
      /\ Head(rest[r]).kind = "create" => Head(rest[r]).buf \in Fresh(r)
      /\ Head(rest[r]).kind # "create" => Head(rest[r]).buf \in Made(r)
  BY <1>1, FreshNotMade, RestMayFollow
<1> QED
  BY <1>2 DEF Buf, Calls

\* A rank that returns from a call is orderly, if the Buffer of the call is made.
LEMMA ReturnOrderly ==
    ASSUME LInv, NEW r \in Ranks, Returns(r),
           Fresh(r)' = Fresh(r) \ {Buf(r)}, Made(r)' = Made(r) \cup {Buf(r)},
           \A b \in Buffers : tensors'[r][<<b, "hidden_buf">>] # "none" =>
               tensors[r][<<b, "hidden_buf">>] # "none" \/ b = Buf(r)
    PROVE  OrderlyRank(r)'
<1>1. /\ rest[r] \in Seq(Calls) /\ MayFollow(rest[r], Fresh(r), Made(r))
      /\ Buffers = Fresh(r) \cup Made(r) /\ TensorsOfMade(r)
      /\ rest'[r] = Tail(rest[r]) /\ phase'[r] = "call"
  BY DEF LInv, LifecycleTypeOK, OrderlyRank, Returns
<1>2. MayFollow(Tail(rest[r]), Fresh(r) \ {Buf(r)}, Made(r) \cup {Buf(r)})
  BY <1>1, FreshNotMade, RestMayFollow DEF Returns, Buf
<1>3. MayFollow(rest'[r], Fresh(r)', Made(r)')
  BY <1>1, <1>2
<1>4. Buffers = Fresh(r)' \cup Made(r)'
  BY <1>1, FirstCall DEF Returns
<1>5. TensorsOfMade(r)'
  BY <1>1 DEF TensorsOfMade
<1>6. PhaseOfCall(r)'
  BY <1>1 DEF PhaseOfCall, Creating
<1> QED
  BY <1>3, <1>4, <1>5, <1>6 DEF OrderlyRank, MayFollow

\* A rank that goes on with its call, to a phase that fits.
LEMMA StayOrderly ==
    ASSUME LInv, NEW r \in Ranks, rest'[r] = rest[r],
           Fresh(r)' = Fresh(r), Made(r)' = Made(r), PhaseOfCall(r)',
           \A b \in Buffers : tensors'[r][<<b, "hidden_buf">>] # "none" =>
               b \in Made(r) \/ (phase'[r] \in {"allocated", "zeroed"} /\ Buf(r) = b)
    PROVE  OrderlyRank(r)'
BY DEF LInv, OrderlyRank, TensorsOfMade, Buf, MayFollow

\* A rank whose call raises, with its Buffers left to the collector.
LEMMA RaiseOrderly ==
    ASSUME LInv, NEW r \in Ranks, Raise(r), Buffers = Fresh(r)' \cup Made(r)',
           Alive(r) \subseteq Made(r)',
           \A b \in Buffers : tensors'[r][<<b, "hidden_buf">>] # "none" => b \in Made(r)'
    PROVE  OrderlyRank(r)' /\ rest' \in [Ranks -> Seq(Calls)]
<1>1. /\ rest \in [Ranks -> Seq(Calls)] /\ phase \in [Ranks -> Phases]
  BY DEF LInv, LifecycleTypeOK, OrderlyRank
<1>3. Alive(r) \subseteq Buffers \cap Made(r)'
  BY DEF Alive
<1>4. Cardinality(Alive(r)) \in Nat
  BY <1>3, BuffersAssumption, FS_Subset, FS_CardinalityType
<1>5. PICK order \in Bijection(1 .. Cardinality(Alive(r)), Alive(r)) :
          rest' = [rest EXCEPT ![r] =
              [i \in DOMAIN order |-> [kind |-> "drop", buf |-> order[i]]]]
  BY DEF Raise
<1> DEFINE n == Cardinality(Alive(r))
           drops == [i \in 1 .. n |-> [kind |-> "drop", buf |-> order[i]]]
<1>6. order \in [1 .. n -> Alive(r)]
  BY <1>5 DEF Bijection, Injection
<1>7. rest' = [rest EXCEPT ![r] = drops] /\ phase'[r] = "call"
  BY <1>1, <1>5, <1>6 DEF Raise
<1>8. drops \in Seq(Calls) /\ Len(drops) = n
  <2>1. \A i \in 1 .. n : order[i] \in Buffers
    BY <1>3, <1>6
  <2>2. \A i \in 1 .. n : [kind |-> "drop", buf |-> order[i]] \in Calls
    BY <2>1 DEF Calls, Kinds
  <2> HIDE DEF n
  <2>3. n \in Nat
    BY <1>4 DEF n
  <2> QED
    BY <2>2, <2>3
<1>9. ASSUME NEW fresh PROVE MayFollow(drops, fresh, Made(r)')
  <2>1. \A i \in 1 .. n : drops[i].kind # "create" /\ drops[i].buf \in Made(r)'
    BY <1>3, <1>6
  <2> HIDE DEF drops
  <2> QED
    BY <1>8, <2>1 DEF MayFollow
<1> HIDE DEF drops
<1>10. rest'[r] = drops /\ rest' \in [Ranks -> Seq(Calls)]
  BY <1>1, <1>7, <1>8
<1>11. MayFollow(rest'[r], Fresh(r)', Made(r)')
  BY <1>9, <1>10
<1>12. TensorsOfMade(r)' /\ PhaseOfCall(r)'
  BY <1>7 DEF TensorsOfMade, PhaseOfCall, Creating
<1> QED
  BY <1>1, <1>10, <1>11, <1>12 DEF OrderlyRank, MayFollow
-----------------------------------------------------------------------------
\* An action of a rank changes nothing on another.
LEMMA OwnRankOnly ==
    ASSUME LInv, NEW r \in Ranks, Host(r) \/ Fails(r), NEW q \in Ranks \ {r}
    PROVE  /\ rest'[q] = rest[q] /\ phase'[q] = phase[q] /\ ctx'[q] = ctx[q]
           /\ destroyed'[q] = destroyed[q] /\ releases'[q] = releases[q]
           /\ tensors'[q] = tensors[q]
<1> USE DEF Host, Fails, CreateRaises, ReleaseRaises, Releases, Release, EnsureNvshmemInitialized, Allocate, Zero,
            Created, Use, NothingToDestroy, DestroyGroup, Destroy, Destroyed, Goto, Return, Raise, objects
<1>1. /\ DOMAIN rest = Ranks /\ DOMAIN phase = Ranks /\ DOMAIN ctx = Ranks
      /\ DOMAIN destroyed = Ranks /\ DOMAIN releases = Ranks /\ DOMAIN tensors = Ranks
  BY DEF LInv, LifecycleTypeOK
<1>2. rest' = rest \/ \E v : rest' = [rest EXCEPT ![r] = v]
  OBVIOUS
<1>3. phase' = phase \/ \E v : phase' = [phase EXCEPT ![r] = v]
  OBVIOUS
<1>4. ctx' = ctx \/ \E v : ctx' = [ctx EXCEPT ![r] = v]
  OBVIOUS
<1>5. destroyed' = destroyed \/ \E v : destroyed' = [destroyed EXCEPT ![r] = v]
  OBVIOUS
<1>6. releases' = releases \/ \E v : releases' = [releases EXCEPT ![r] = v]
  OBVIOUS
<1>7. tensors' = tensors \/ \E v : tensors' = [tensors EXCEPT ![r] = v]
  OBVIOUS
<1> QED
  BY <1>1, <1>2, <1>3, <1>4, <1>5, <1>6, <1>7

LEMMA OthersKept ==
    ASSUME LInv, NEW q \in Ranks,
           rest'[q] = rest[q], phase'[q] = phase[q], ctx'[q] = ctx[q],
           destroyed'[q] = destroyed[q], releases'[q] = releases[q],
           tensors'[q] = tensors[q]
    PROVE  OrderlyRank(q)'
<1>1. Fresh(q)' = Fresh(q) /\ Made(q)' = Made(q)
  BY DEF Fresh, Made
<1>2. /\ Buffers = Fresh(q) \cup Made(q) /\ MayFollow(rest[q], Fresh(q), Made(q))
      /\ PhaseOfCall(q) /\ TensorsOfMade(q)
  BY DEF LInv, OrderlyRank
<1>3. MayFollow(rest'[q], Fresh(q)', Made(q)')
  BY <1>1, <1>2
<1>4. PhaseOfCall(q)'
  BY <1>2 DEF PhaseOfCall
<1>5. TensorsOfMade(q)'
  BY <1>1, <1>2 DEF TensorsOfMade, Buf
<1> QED
  BY <1>1, <1>2, <1>3, <1>4, <1>5 DEF OrderlyRank, MayFollow
-----------------------------------------------------------------------------
\* The actions, one by one.
LEMMA EnsureStep ==
    ASSUME LInv, NEW r \in Ranks, EnsureNvshmemInitialized(r)
    PROVE  LifecycleTypeOK' /\ OrderlyRank(r)'
<1>1. /\ LifecycleTypeOK /\ TensorsOfMade(r) /\ rest' = rest
      /\ phase[r] = "call" /\ rest[r] # <<>> /\ Head(rest[r]).kind = "create"
      /\ phase' = [phase EXCEPT ![r] = "initialized"] /\ UNCHANGED objects
  BY DEF LInv, OrderlyRank, EnsureNvshmemInitialized, Calling, Goto
<1>2. LifecycleTypeOK' /\ phase'[r] = "initialized"
  BY <1>1 DEF LifecycleTypeOK, objects, Phases
<1>3. Fresh(r)' = Fresh(r) /\ Made(r)' = Made(r)
  BY <1>1 DEF Fresh, Made, objects
<1>4. PhaseOfCall(r)'
  BY <1>1, <1>2 DEF PhaseOfCall, Creating
<1>5. \A b \in Buffers : tensors'[r][<<b, "hidden_buf">>] # "none" => b \in Made(r)
  BY <1>1 DEF TensorsOfMade, objects
<1> QED
  BY <1>1, <1>2, <1>3, <1>4, <1>5, StayOrderly

\* A Buffer on its way gets its tensors, or has them zeroed.
LEMMA CreatingStep ==
    ASSUME LInv, NEW r \in Ranks, NEW to \in {"allocated", "zeroed"},
           phase[r] \in Creating, phase' = [phase EXCEPT ![r] = to], rest' = rest,
           NEW new \in {"raw", "zeroed"}, UNCHANGED <<ctx, destroyed, releases>>,
           tensors' = [tensors EXCEPT ![r] =
               [x \in DOMAIN @ |-> IF x[1] = Buf(r) THEN new ELSE @[x]]]
    PROVE  LifecycleTypeOK' /\ OrderlyRank(r)'
<1>1. LifecycleTypeOK /\ TensorsOfMade(r) /\ PhaseOfCall(r)
  BY DEF LInv, OrderlyRank
<1>2. tensors[r] \in [Buffers \X Keys -> {"none", "raw", "zeroed", "freed"}]
  BY <1>1 DEF LifecycleTypeOK
<1>3. tensors'[r] = [x \in Buffers \X Keys |-> IF x[1] = Buf(r) THEN new ELSE tensors[r][x]]
  BY <1>1, <1>2 DEF LifecycleTypeOK
<1>4. tensors'[r] \in [Buffers \X Keys -> {"none", "raw", "zeroed", "freed"}]
  BY <1>2, <1>3
<1>5. tensors' \in [Ranks -> [Buffers \X Keys -> {"none", "raw", "zeroed", "freed"}]]
  BY <1>1, <1>4 DEF LifecycleTypeOK
<1>6. phase' \in [Ranks -> Phases] /\ phase'[r] = to
  BY <1>1 DEF LifecycleTypeOK, Phases
<1>7. LifecycleTypeOK'
  BY <1>1, <1>5, <1>6 DEF LifecycleTypeOK
<1>8. Fresh(r)' = Fresh(r) /\ Made(r)' = Made(r)
  BY DEF Fresh, Made
<1>9. PhaseOfCall(r)'
  BY <1>1, <1>6 DEF PhaseOfCall, Creating
<1>10. \A b \in Buffers : b # Buf(r) =>
           tensors'[r][<<b, "hidden_buf">>] = tensors[r][<<b, "hidden_buf">>]
  BY <1>3 DEF Keys
<1>11. \A b \in Buffers : tensors'[r][<<b, "hidden_buf">>] # "none" =>
           b \in Made(r) \/ (phase'[r] \in {"allocated", "zeroed"} /\ Buf(r) = b)
  BY <1>1, <1>6, <1>10 DEF TensorsOfMade
<1> QED
  BY <1>7, <1>8, <1>9, <1>11, StayOrderly

\* A Buffer that has its context is made.
LEMMA GetsContext ==
    ASSUME LInv, NEW r \in Ranks, phase[r] = "zeroed",
           ctx' = [ctx EXCEPT ![r][Buf(r)] = Keys], UNCHANGED <<destroyed, releases>>
    PROVE  /\ rest[r] # <<>> /\ Buf(r) \in Buffers
           /\ ctx' \in [Ranks -> [Buffers -> SUBSET Keys]]
           /\ Fresh(r)' = Fresh(r) \ {Buf(r)} /\ Made(r)' = Made(r) \cup {Buf(r)}
<1>1. LifecycleTypeOK /\ PhaseOfCall(r)
  BY DEF LInv, OrderlyRank
<1>2. rest[r] # <<>> /\ Head(rest[r]).kind = "create"
  BY <1>1 DEF PhaseOfCall, Creating
<1>3. Buf(r) \in Buffers /\ Buf(r) \in Fresh(r)
  BY <1>2, FirstCall
<1>4. ctx[r] \in [Buffers -> SUBSET Keys] /\ ctx'[r] = [ctx[r] EXCEPT ![Buf(r)] = Keys]
  BY <1>1 DEF LifecycleTypeOK
<1>5. ctx' \in [Ranks -> [Buffers -> SUBSET Keys]]
  <2>1. ctx'[r] \in [Buffers -> SUBSET Keys]
    BY <1>4
  <2> QED
    BY <1>1, <2>1 DEF LifecycleTypeOK
<1>6. ctx'[r][Buf(r)] = Keys /\ \A b \in Buffers : b # Buf(r) => ctx'[r][b] = ctx[r][b]
  BY <1>3, <1>4
<1>7. Fresh(r)' = Fresh(r) \ {Buf(r)}
  BY <1>3, <1>6 DEF Fresh, Keys
<1>8. Made(r)' = Made(r) \cup {Buf(r)}
  BY <1>3, <1>6 DEF Fresh, Made
<1> QED
  BY <1>2, <1>3, <1>5, <1>7, <1>8

LEMMA CreatedStep ==
    ASSUME LInv, NEW r \in Ranks, Created(r)
    PROVE  LifecycleTypeOK' /\ OrderlyRank(r)'
<1>1. /\ LifecycleTypeOK /\ phase[r] = "zeroed"
      /\ ctx' = [ctx EXCEPT ![r][Buf(r)] = Keys]
      /\ rest' = [rest EXCEPT ![r] = Tail(@)] /\ phase' = [phase EXCEPT ![r] = "call"]
      /\ UNCHANGED <<tensors, destroyed, releases>>
  BY DEF LInv, Created, Return
<1>2. /\ rest[r] # <<>> /\ ctx' \in [Ranks -> [Buffers -> SUBSET Keys]]
      /\ Fresh(r)' = Fresh(r) \ {Buf(r)} /\ Made(r)' = Made(r) \cup {Buf(r)}
  BY <1>1, GetsContext
<1>3. LifecycleTypeOK'
  <2>1. rest' \in [Ranks -> Seq(Calls)]
    <3>1. Tail(rest[r]) \in Seq(Calls)
      BY <1>1, <1>2 DEF LifecycleTypeOK
    <3> QED
      BY <1>1, <3>1 DEF LifecycleTypeOK
  <2>2. phase' \in [Ranks -> Phases]
    BY <1>1 DEF LifecycleTypeOK, Phases
  <2> QED
    BY <1>1, <1>2, <2>1, <2>2 DEF LifecycleTypeOK
<1>4. Returns(r)
  BY <1>1, <1>2 DEF Returns
<1> QED
  BY <1>1, <1>2, <1>3, <1>4, ReturnOrderly

\* A creation that raises leaves a Buffer that is made, to the collector.
LEMMA CreateRaisesStep ==
    ASSUME LInv, NEW r \in Ranks, CreateRaises(r)
    PROVE  LifecycleTypeOK' /\ OrderlyRank(r)'
<1>1. /\ LifecycleTypeOK /\ TensorsOfMade(r) /\ Buffers = Fresh(r) \cup Made(r)
      /\ phase[r] = "zeroed" /\ Raise(r)
      /\ ctx' = [ctx EXCEPT ![r][Buf(r)] = Keys]
      /\ UNCHANGED <<tensors, destroyed, releases>>
  BY DEF LInv, OrderlyRank, CreateRaises
<1>2. /\ ctx' \in [Ranks -> [Buffers -> SUBSET Keys]] /\ Buf(r) \in Buffers
      /\ Fresh(r)' = Fresh(r) \ {Buf(r)} /\ Made(r)' = Made(r) \cup {Buf(r)}
  BY <1>1, GetsContext
<1>3. \A b \in Buffers : tensors[r][<<b, "hidden_buf">>] # "none" => b \in Made(r)'
  BY <1>1, <1>2 DEF TensorsOfMade
<1>4. Alive(r) \subseteq Made(r)' /\ Buffers = Fresh(r)' \cup Made(r)'
  BY <1>1, <1>2, <1>3 DEF Alive
<1>5. OrderlyRank(r)' /\ rest' \in [Ranks -> Seq(Calls)]
  BY <1>1, <1>3, <1>4, RaiseOrderly
<1>6. phase' \in [Ranks -> Phases]
  BY <1>1 DEF LifecycleTypeOK, Raise, Phases
<1> QED
  BY <1>1, <1>2, <1>5, <1>6 DEF LifecycleTypeOK

\* A call on a Buffer that was made returns.
LEMMA MadeReturns ==
    ASSUME LInv, NEW r \in Ranks, rest[r] # <<>>, Head(rest[r]).kind # "create", Return(r),
           Fresh(r)' = Fresh(r), Made(r)' = Made(r),
           \A b \in Buffers : tensors'[r][<<b, "hidden_buf">>] # "none" =>
               tensors[r][<<b, "hidden_buf">>] # "none" \/ b = Buf(r)
    PROVE  /\ OrderlyRank(r)'
           /\ rest' \in [Ranks -> Seq(Calls)] /\ phase' \in [Ranks -> Phases]
<1>1. Buf(r) \in Made(r) /\ Fresh(r) \cap Made(r) = {}
  BY FirstCall, FreshNotMade
<1>2. Fresh(r)' = Fresh(r) \ {Buf(r)} /\ Made(r)' = Made(r) \cup {Buf(r)}
  BY <1>1
<1>3. Returns(r)
  BY DEF Returns, Return
<1>4. /\ rest \in [Ranks -> Seq(Calls)] /\ phase \in [Ranks -> Phases]
      /\ Tail(rest[r]) \in Seq(Calls)
  BY DEF LInv, LifecycleTypeOK
<1>5. rest' \in [Ranks -> Seq(Calls)] /\ phase' \in [Ranks -> Phases]
  BY <1>4 DEF Return, Phases
<1> QED
  BY <1>2, <1>3, <1>5, ReturnOrderly

\* A call raises.
LEMMA CallRaises ==
    ASSUME LInv, NEW r \in Ranks, Raise(r), phase[r] \in {"call", "releasing"},
           Fresh(r)' = Fresh(r), Made(r)' = Made(r),
           \A b \in Buffers : tensors'[r][<<b, "hidden_buf">>] # "none" =>
               tensors[r][<<b, "hidden_buf">>] # "none" \/ b \in Made(r)
    PROVE  /\ OrderlyRank(r)'
           /\ rest' \in [Ranks -> Seq(Calls)] /\ phase' \in [Ranks -> Phases]
<1>1. phase' \in [Ranks -> Phases]
  BY DEF LInv, LifecycleTypeOK, Raise, Phases
<1>2. Buffers = Fresh(r)' \cup Made(r)' /\ TensorsOfMade(r)
  BY DEF LInv, OrderlyRank
<1>3. \A b \in Buffers : tensors[r][<<b, "hidden_buf">>] # "none" => b \in Made(r)
  BY <1>2 DEF TensorsOfMade
<1>4. Alive(r) \subseteq Made(r)'
  BY <1>3 DEF Alive
<1> QED
  BY <1>1, <1>2, <1>3, <1>4, RaiseOrderly

LEMMA UseStep ==
    ASSUME LInv, NEW r \in Ranks, Use(r)
    PROVE  LifecycleTypeOK' /\ OrderlyRank(r)'
<1>1. /\ LifecycleTypeOK /\ UNCHANGED <<tensors, ctx, destroyed, releases>>
      /\ phase[r] = "call" /\ rest[r] # <<>> /\ Head(rest[r]).kind # "create"
      /\ Raise(r) \/ Return(r)
  BY DEF LInv, Use, Calling, objects
<1>2. Fresh(r)' = Fresh(r) /\ Made(r)' = Made(r)
  BY <1>1 DEF Fresh, Made
<1>3. /\ OrderlyRank(r)'
      /\ rest' \in [Ranks -> Seq(Calls)] /\ phase' \in [Ranks -> Phases]
  BY <1>1, <1>2, MadeReturns, CallRaises
<1> QED
  BY <1>1, <1>3 DEF LifecycleTypeOK

LEMMA NothingToDestroyStep ==
    ASSUME LInv, NEW r \in Ranks, NothingToDestroy(r)
    PROVE  LifecycleTypeOK' /\ OrderlyRank(r)'
<1>1. /\ LifecycleTypeOK /\ UNCHANGED <<tensors, ctx, destroyed, releases>>
      /\ rest[r] # <<>> /\ Head(rest[r]).kind # "create" /\ Return(r)
  BY DEF LInv, NothingToDestroy, Calling, objects
<1>2. Fresh(r)' = Fresh(r) /\ Made(r)' = Made(r)
  BY <1>1 DEF Fresh, Made
<1>3. /\ OrderlyRank(r)'
      /\ rest' \in [Ranks -> Seq(Calls)] /\ phase' \in [Ranks -> Phases]
  BY <1>1, <1>2, MadeReturns
<1> QED
  BY <1>1, <1>3 DEF LifecycleTypeOK

LEMMA DestroyGroupStep ==
    ASSUME LInv, NEW r \in Ranks, DestroyGroup(r)
    PROVE  LifecycleTypeOK' /\ OrderlyRank(r)'
<1>1. /\ LifecycleTypeOK /\ UNCHANGED <<tensors, ctx, destroyed, releases>>
      /\ rest[r] # <<>> /\ Head(rest[r]).kind # "create" /\ Return(r)
  BY DEF LInv, DestroyGroup, Calling, objects
<1>2. Fresh(r)' = Fresh(r) /\ Made(r)' = Made(r)
  BY <1>1 DEF Fresh, Made
<1>3. /\ OrderlyRank(r)'
      /\ rest' \in [Ranks -> Seq(Calls)] /\ phase' \in [Ranks -> Phases]
  BY <1>1, <1>2, MadeReturns
<1> QED
  BY <1>1, <1>3 DEF LifecycleTypeOK

LEMMA DestroyStep ==
    ASSUME LInv, NEW r \in Ranks, Destroy(r)
    PROVE  LifecycleTypeOK' /\ OrderlyRank(r)'
<1>1. /\ LifecycleTypeOK /\ TensorsOfMade(r) /\ rest' = rest
      /\ phase[r] = "call" /\ rest[r] # <<>> /\ Head(rest[r]).kind \in {"destroy", "drop"}
      /\ phase' = [phase EXCEPT ![r] = "releasing"] /\ UNCHANGED objects
  BY DEF LInv, OrderlyRank, Destroy, Calling, Goto
<1>2. LifecycleTypeOK' /\ phase'[r] = "releasing"
  BY <1>1 DEF LifecycleTypeOK, objects, Phases
<1>3. Fresh(r)' = Fresh(r) /\ Made(r)' = Made(r)
  BY <1>1 DEF Fresh, Made, objects
<1>4. PhaseOfCall(r)'
  BY <1>1, <1>2 DEF PhaseOfCall, Creating
<1>5. \A b \in Buffers : tensors'[r][<<b, "hidden_buf">>] # "none" => b \in Made(r)
  BY <1>1 DEF TensorsOfMade, objects
<1> QED
  BY <1>1, <1>2, <1>3, <1>4, <1>5, StayOrderly

\* A tensor that is released was in the context, and not released before.
LEMMA ReleaseKeeps ==
    ASSUME LInv, NEW r \in Ranks, NEW raises \in BOOLEAN, Release(r, raises)
    PROVE  /\ Fresh(r)' = Fresh(r) /\ Made(r)' = Made(r)
           /\ rest[r] # <<>> /\ Head(rest[r]).kind \in {"destroy", "drop"}
           /\ Buf(r) \in Made(r)
           /\ ctx' \in [Ranks -> [Buffers -> SUBSET Keys]] /\ destroyed' = destroyed
           /\ releases' \in [Ranks -> [Buffers \X Keys -> Nat]]
           /\ tensors' \in [Ranks -> [Buffers \X Keys -> {"none", "raw", "zeroed", "freed"}]]
           /\ \A b \in Buffers : b # Buf(r) =>
                  tensors'[r][<<b, "hidden_buf">>] = tensors[r][<<b, "hidden_buf">>]
<1> DEFINE b0 == Buf(r)
           key == FirstOf(ctx[r][b0])
<1>1. /\ LifecycleTypeOK /\ PhaseOfCall(r) /\ phase[r] = "releasing" /\ ctx[r][b0] # {}
      /\ ctx' = [ctx EXCEPT ![r][b0] = @ \ {key}]
      /\ releases' = [releases EXCEPT ![r][<<b0, key>>] = @ + 1]
      /\ tensors' = [tensors EXCEPT ![r][<<b0, key>>] = "freed"]
      /\ destroyed' = destroyed
  BY DEF LInv, OrderlyRank, Release, Releasing, Held
<1>2. rest[r] # <<>> /\ Head(rest[r]).kind \in {"destroy", "drop"}
  BY <1>1 DEF PhaseOfCall
<1>3. b0 \in Buffers /\ b0 \in Made(r)
  BY <1>2, FirstCall
<1>4. key \in ctx[r][b0] /\ key \in Keys
  <2>1. ctx[r][b0] \in SUBSET Keys
    BY <1>1, <1>3 DEF LifecycleTypeOK
  <2> QED
    BY <1>1, <2>1 DEF FirstOf, Keys
<1> HIDE DEF b0, key
<1>5. /\ ctx[r] \in [Buffers -> SUBSET Keys] /\ releases[r] \in [Buffers \X Keys -> Nat]
      /\ tensors[r] \in [Buffers \X Keys -> {"none", "raw", "zeroed", "freed"}]
  BY <1>1 DEF LifecycleTypeOK
<1>6. /\ ctx'[r] = [ctx[r] EXCEPT ![b0] = @ \ {key}]
      /\ releases'[r] = [releases[r] EXCEPT ![<<b0, key>>] = @ + 1]
      /\ tensors'[r] = [tensors[r] EXCEPT ![<<b0, key>>] = "freed"]
  BY <1>1 DEF LifecycleTypeOK
<1>7. ctx'[r] \in [Buffers -> SUBSET Keys]
  <2>1. ctx[r][b0] \ {key} \in SUBSET Keys
    BY <1>3, <1>5
  <2>2. PICK new : new = ctx[r][b0] \ {key}
    OBVIOUS
  <2>3. ctx'[r] = [ctx[r] EXCEPT ![b0] = new]
    BY <1>6, <2>2
  <2> QED
    BY <1>5, <2>1, <2>2, <2>3
<1>8. releases[r][<<b0, key>>] \in Nat
  BY <1>3, <1>4, <1>5
<1>9. releases'[r] \in [Buffers \X Keys -> Nat]
  <2>1. releases'[r] = [releases[r] EXCEPT ![<<b0, key>>] = releases[r][<<b0, key>>] + 1]
    BY <1>6
  <2>2. releases[r][<<b0, key>>] + 1 \in Nat
    BY <1>8
  <2> QED
    BY <1>5, <2>1, <2>2
<1>10. tensors'[r] \in [Buffers \X Keys -> {"none", "raw", "zeroed", "freed"}]
  BY <1>5, <1>6
<1>11. /\ ctx' \in [Ranks -> [Buffers -> SUBSET Keys]]
       /\ releases' \in [Ranks -> [Buffers \X Keys -> Nat]]
       /\ tensors' \in [Ranks -> [Buffers \X Keys -> {"none", "raw", "zeroed", "freed"}]]
  BY <1>1, <1>7, <1>9, <1>10 DEF LifecycleTypeOK
<1>12. /\ ctx'[r][b0] = ctx[r][b0] \ {key}
       /\ \A b \in Buffers : b # b0 => ctx'[r][b] = ctx[r][b]
  BY <1>3, <1>5, <1>6
<1>13. /\ releases'[r][<<b0, key>>] = releases[r][<<b0, key>>] + 1
       /\ \A b \in Buffers, k \in Keys : b # b0 \/ k # key =>
              releases'[r][<<b, k>>] = releases[r][<<b, k>>]
  BY <1>3, <1>4, <1>5, <1>6
<1>14. /\ releases[r][<<b0, key>>] = 0 /\ ~destroyed[r][b0]
       /\ \A k \in Keys : releases[r][<<b0, k>>] = IF k \in ctx[r][b0] THEN 0 ELSE 1
  BY <1>1, <1>3, <1>4 DEF Made
<1>15. releases'[r][<<b0, key>>] = 1
  BY <1>13, <1>14
<1>16. b0 \in Made(r)'
  BY <1>1, <1>3, <1>12, <1>13, <1>14, <1>15 DEF Made
<1>17. b0 \notin Fresh(r) /\ b0 \notin Fresh(r)'
  BY <1>4, <1>15 DEF Fresh
<1>18. \A b \in Buffers \ {b0} : (b \in Made(r) <=> b \in Made(r)') /\ (b \in Fresh(r) <=> b \in Fresh(r)')
  BY <1>1, <1>12, <1>13 DEF Made, Fresh
<1>19. Made(r) \subseteq Buffers /\ Made(r)' \subseteq Buffers
       /\ Fresh(r) \subseteq Buffers /\ Fresh(r)' \subseteq Buffers
  BY DEF Made, Fresh
<1>20. Fresh(r)' = Fresh(r) /\ Made(r)' = Made(r)
  BY <1>3, <1>16, <1>17, <1>18, <1>19
<1>21. \A b \in Buffers : b # b0 =>
           tensors'[r][<<b, "hidden_buf">>] = tensors[r][<<b, "hidden_buf">>]
  BY <1>5, <1>6 DEF Keys
<1> QED
  BY <1>1, <1>2, <1>3, <1>11, <1>20, <1>21 DEF b0

LEMMA ReleasesStep ==
    ASSUME LInv, NEW r \in Ranks, Releases(r)
    PROVE  LifecycleTypeOK' /\ OrderlyRank(r)'
<1>1. LifecycleTypeOK /\ TensorsOfMade(r) /\ PhaseOfCall(r)
  BY DEF LInv, OrderlyRank
<1>2. Release(r, FALSE) /\ rest' = rest /\ phase' = phase /\ phase[r] = "releasing"
  BY DEF Releases, Release, Releasing
<1>3. LifecycleTypeOK'
  BY <1>1, <1>2, ReleaseKeeps DEF LifecycleTypeOK
<1>4. PhaseOfCall(r)'
  BY <1>1, <1>2 DEF PhaseOfCall
<1>5. \A b \in Buffers : tensors'[r][<<b, "hidden_buf">>] # "none" => b \in Made(r)
  BY <1>1, <1>2, ReleaseKeeps DEF TensorsOfMade
<1> QED
  BY <1>2, <1>3, <1>4, <1>5, ReleaseKeeps, StayOrderly

LEMMA ReleaseRaisesStep ==
    ASSUME LInv, NEW r \in Ranks, ReleaseRaises(r)
    PROVE  LifecycleTypeOK' /\ OrderlyRank(r)'
<1>1. Release(r, TRUE) /\ phase[r] = "releasing" /\ (Return(r) \/ Raise(r))
  BY DEF ReleaseRaises, Release, Releasing
<1>2. /\ Fresh(r)' = Fresh(r) /\ Made(r)' = Made(r)
      /\ rest[r] # <<>> /\ Head(rest[r]).kind # "create" /\ Buf(r) \in Made(r)
      /\ \A b \in Buffers : b # Buf(r) =>
             tensors'[r][<<b, "hidden_buf">>] = tensors[r][<<b, "hidden_buf">>]
  BY <1>1, ReleaseKeeps
<1>3. /\ OrderlyRank(r)'
      /\ rest' \in [Ranks -> Seq(Calls)] /\ phase' \in [Ranks -> Phases]
  <2>1. CASE Return(r)
    BY <1>2, <2>1, MadeReturns
  <2>2. CASE Raise(r)
    BY <1>1, <1>2, <2>2, CallRaises
  <2> QED
    BY <1>1, <2>1, <2>2
<1>4. LifecycleTypeOK'
  BY <1>1, <1>3, ReleaseKeeps DEF LifecycleTypeOK, LInv
<1> QED
  BY <1>3, <1>4

LEMMA DestroyedStep ==
    ASSUME LInv, NEW r \in Ranks, Destroyed(r)
    PROVE  LifecycleTypeOK' /\ OrderlyRank(r)'
<1>1. /\ LifecycleTypeOK /\ PhaseOfCall(r) /\ phase[r] = "releasing" /\ ctx[r][Buf(r)] = {}
      /\ destroyed' = [destroyed EXCEPT ![r][Buf(r)] = TRUE] /\ Return(r)
      /\ UNCHANGED <<tensors, ctx, releases>>
  BY DEF LInv, OrderlyRank, Destroyed, Releasing
<1>2. rest[r] # <<>> /\ Head(rest[r]).kind # "create"
  BY <1>1 DEF PhaseOfCall
<1>3. Buf(r) \in Buffers /\ Buf(r) \in Made(r) /\ Buf(r) \notin Fresh(r)
  BY <1>2, FirstCall, FreshNotMade
<1>4. /\ destroyed[r] \in [Buffers -> BOOLEAN]
      /\ destroyed'[r] = [destroyed[r] EXCEPT ![Buf(r)] = TRUE]
  BY <1>1 DEF LifecycleTypeOK
<1>5. destroyed' \in [Ranks -> [Buffers -> BOOLEAN]]
  <2>1. destroyed'[r] \in [Buffers -> BOOLEAN]
    BY <1>4
  <2> QED
    BY <1>1, <2>1 DEF LifecycleTypeOK
<1>6. destroyed'[r][Buf(r)] /\ \A b \in Buffers : b # Buf(r) => destroyed'[r][b] = destroyed[r][b]
  BY <1>3, <1>4
<1>7. Fresh(r)' = Fresh(r)
  BY <1>1, <1>3, <1>6 DEF Fresh
<1>8. Made(r)' = Made(r)
  BY <1>1, <1>3, <1>6 DEF Made
<1>9. /\ OrderlyRank(r)'
      /\ rest' \in [Ranks -> Seq(Calls)] /\ phase' \in [Ranks -> Phases]
  BY <1>1, <1>2, <1>7, <1>8, MadeReturns
<1> QED
  BY <1>1, <1>5, <1>9 DEF LifecycleTypeOK
-----------------------------------------------------------------------------
LEMMA InitLInv == Init => LInv
<1> SUFFICES ASSUME Init PROVE LInv
  OBVIOUS
<1>1. PICK p \in Programs : explicit = p.explicit /\ rest = p.calls
  BY DEF Init
<1>2. rest \in [Ranks -> Seq(Calls)] /\ \A r \in Ranks : Legal(rest[r])
  BY <1>1, ProgramsAssumption
<1>3. LifecycleTypeOK
  BY <1>2 DEF Init, LifecycleTypeOK, Phases
<1>4. ASSUME NEW r \in Ranks PROVE OrderlyRank(r)
  <2>1. Fresh(r) = Buffers
    BY DEF Init, Fresh
  <2>2. Made(r) = {}
    BY DEF Init, Made, Keys
  <2>3. MayFollow(rest[r], Fresh(r), Made(r))
    BY <1>2, <2>1, <2>2, LegalMayFollow
  <2>4. PhaseOfCall(r)
    BY DEF Init, PhaseOfCall, Creating
  <2>5. TensorsOfMade(r)
    BY DEF Init, TensorsOfMade, Keys
  <2> QED
    BY <2>1, <2>2, <2>3, <2>4, <2>5 DEF OrderlyRank
<1> QED
  BY <1>3, <1>4 DEF LInv

LEMMA HostStep ==
    ASSUME LInv, NEW r \in Ranks, Host(r) \/ Fails(r)
    PROVE  LInv'
<1>1. LifecycleTypeOK' /\ OrderlyRank(r)'
  <2>1. CASE EnsureNvshmemInitialized(r)
    BY <2>1, EnsureStep
  <2>2. CASE Allocate(r)
    <3>1. UNCHANGED <<ctx, destroyed, releases>> /\ rest' = rest
      BY <2>2 DEF Allocate, Goto
    <3> QED
      BY <2>2, <3>1, CreatingStep DEF Allocate, Goto, Creating
  <2>3. CASE Zero(r)
    <3>1. UNCHANGED <<ctx, destroyed, releases>> /\ rest' = rest
      BY <2>3 DEF Zero, Goto
    <3> QED
      BY <2>3, <3>1, CreatingStep DEF Zero, Goto, Creating
  <2>4. CASE Created(r)
    BY <2>4, CreatedStep
  <2>5. CASE Use(r)
    BY <2>5, UseStep
  <2>6. CASE NothingToDestroy(r)
    BY <2>6, NothingToDestroyStep
  <2>7. CASE Destroy(r)
    BY <2>7, DestroyStep
  <2>8. CASE Releases(r)
    BY <2>8, ReleasesStep
  <2>9. CASE Destroyed(r)
    BY <2>9, DestroyedStep
  <2>10. CASE ReleaseRaises(r)
    BY <2>10, ReleaseRaisesStep
  <2>11. CASE DestroyGroup(r)
    BY <2>11, DestroyGroupStep
  <2>12. CASE CreateRaises(r)
    BY <2>12, CreateRaisesStep
  <2> QED
    BY <2>1, <2>2, <2>3, <2>4, <2>5, <2>6, <2>7, <2>8, <2>9, <2>10, <2>11, <2>12
    DEF Host, Fails
<1>2. ASSUME NEW q \in Ranks \ {r} PROVE OrderlyRank(q)'
  BY OwnRankOnly, OthersKept
<1> QED
  BY <1>1, <1>2 DEF LInv

LEMMA LInvStep == LInv /\ [Next]_vars => LInv'
<1> SUFFICES ASSUME LInv, [Next]_vars PROVE LInv'
  OBVIOUS
<1>1. CASE \E r \in Ranks : Host(r) \/ Fails(r)
  BY <1>1, HostStep
<1>2. CASE UNCHANGED <<rest, phase, objects>>
  <2>1. LifecycleTypeOK'
    BY <1>2 DEF LInv, LifecycleTypeOK, objects
  <2>2. ASSUME NEW q \in Ranks PROVE OrderlyRank(q)'
    BY <1>2, OthersKept DEF objects
  <2> QED
    BY <2>1, <2>2 DEF LInv
<1>3. UNCHANGED vars => UNCHANGED <<rest, phase, objects>>
  BY DEF vars
<1> QED
  BY <1>1, <1>2, <1>3 DEF Next, KernelsEnd

LEMMA LInvReleasedOnce == LInv => ReleasedOnce
<1> SUFFICES ASSUME LInv, NEW r \in Ranks, NEW b \in Buffers, NEW key \in Keys
             PROVE  /\ releases[r][<<b, key>>] <= 1
                    /\ destroyed[r][b] => releases[r][<<b, key>>] = 1
  BY DEF ReleasedOnce
<1>1. b \in Fresh(r) \/ b \in Made(r)
  BY DEF LInv, OrderlyRank
<1>2. CASE b \in Fresh(r)
  BY <1>2 DEF Fresh
<1>3. CASE b \in Made(r)
  BY <1>3 DEF Made
<1> QED
  BY <1>1, <1>2, <1>3

\* A release that raises, a second destroy after it, and the collector at the end:
\* however the ranks' programs and failures fall, every tensor is released once at
\* most, and all of a destroyed Buffer are (api.py:230-255).
THEOREM ReleasesOnce == Spec => []ReleasedOnce
<1>1. LInv /\ [Next]_vars => LInv'
  BY LInvStep
<1> QED
  BY InitLInv, <1>1, LInvReleasedOnce, PTL DEF Spec

-----------------------------------------------------------------------------
(* The calls that all ranks make: a program m of which each rank has made the *)
(* first k, and after which it only collects.  ex are the Buffers that the    *)
(* collector leaves alone.                                                    *)

\* The calls that end the life of a Buffer; one of the first i ends that of b.
Ends(call, ex) == call.kind = "destroy" \/ (call.kind = "drop" /\ call.buf \notin ex)
EndedIn(m, ex, i, b) == \E j \in 1 .. i : Ends(m[j], ex) /\ m[j].buf = b

\* One of the first i calls destroys the process group.
Finalized(m, i) == \E j \in 1 .. i : m[j].kind = "finalize"

\* Call i goes to a barrier of the group: it creates a Buffer, or is the first to end
\* it while there is a group.
Barred(m, ex, i) ==
    \/ m[i].kind = "create"
    \/ /\ Ends(m[i], ex) /\ ~EndedIn(m, ex, i - 1, m[i].buf)
       /\ ~Finalized(m, i - 1)
BarriersTo(m, ex, k) == Cardinality({i \in 1 .. k : Barred(m, ex, i)})

\* In the common program no Buffer is used after its end.
Common(m, ex) ==
    /\ m \in Seq(Calls) /\ Legal(m)
    /\ \A i \in 1 .. Len(m) : m[i].kind = "use" => ~EndedIn(m, ex, i - 1, m[i].buf)

\* After k calls, what is left of it comes first; then a rank only collects, or its
\* next call raises.
Follows(m, ex, k, calls) ==
    /\ Len(m) - k <= Len(calls)
    /\ \A i \in 1 .. (Len(m) - k) : calls[i] = m[k + i]
    /\ \/ \A i \in (Len(m) - k + 1) .. Len(calls) : calls[i].kind = "drop"
       \/ /\ Len(m) - k < Len(calls)
          /\ calls[Len(m) - k + 1].kind = "use"
          /\ EndedIn(m, ex, Len(m), calls[Len(m) - k + 1].buf)

\* A rank in the call after the first k: where it is, the barriers it has arrived at,
\* its Buffers, and its kernels.
Waits(r) == phase[r] = "zeroed" \/ (phase[r] = "releasing" /\ r \in initialized)
Extra(r) == IF Waits(r) THEN 1 ELSE 0
Placed(m, ex, k, r) ==
    /\ Follows(m, ex, k, rest[r])
    /\ k = Len(m) => phase[r] \in {"call", "releasing"}
    /\ r \in initialized <=> ~Finalized(m, k)
    /\ phase[r] = "releasing" /\ r \notin initialized => <<r, Head(rest[r]).buf>> \in alone
    /\ k < Len(m) /\ Waits(r) => Barred(m, ex, k + 1)
    /\ k < Len(m) /\ phase[r] = "releasing" => Ends(m[k + 1], ex)
    /\ k < Len(m) => barriers[r] = BarriersTo(m, ex, k) + Extra(r)
    /\ k = Len(m) => barriers[r] >= BarriersTo(m, ex, k) + Extra(r)
Holds(m, ex, k, r) ==
    /\ \A b \in Buffers : EndedIn(m, ex, k, b) => destroyed[r][b]
    /\ \A b \in Buffers : k < Len(m) /\ destroyed[r][b] => EndedIn(m, ex, k, b)
    /\ \A i \in 1 .. Len(m) :
           /\ m[i].kind = "create"
           /\ i <= k \/ (i = k + 1 /\ phase[r] = "zeroed")
           => \A key \in Keys : tensors[r][<<m[i].buf, key>>] \in {"zeroed", "freed"}
Launched(m, ex, k, r) ==
    /\ phase[r] = "releasing" => inFlight[r] = {}
    /\ k = Len(m) /\ barriers[r] > BarriersTo(m, ex, k) => inFlight[r] = {}
    /\ \A b \in inFlight[r] :
           /\ ~EndedIn(m, ex, k, b)
           /\ \E i \in 1 .. k : m[i].kind = "create" /\ m[i].buf = b
Along(m, ex, k, r) ==
    k \in 0 .. Len(m) /\ Placed(m, ex, k, r) /\ Holds(m, ex, k, r) /\ Launched(m, ex, k, r)

\* All ranks are past the barrier that ends Buffer b, or past one of the collector.
NobodyUses(m, ex, b) ==
    \/ \E i \in 1 .. Len(m) :
           /\ Ends(m[i], ex) /\ Barred(m, ex, i) /\ m[i].buf = b
           /\ \A q \in Ranks : barriers[q] >= BarriersTo(m, ex, i)
    \/ \A q \in Ranks : barriers[q] > BarriersTo(m, ex, Len(m))

\* Every rank is past the barriers of the calls that any rank has made, and nobody
\* uses what a rank has released, unless it did so outside of the process group.
Together(m, ex, at) ==
    /\ ex = explicit /\ Common(m, ex)
    /\ \A r \in Ranks : Along(m, ex, at[r], r)
    /\ \A r, q \in Ranks : barriers[q] >= BarriersTo(m, ex, at[r])
    /\ \A r \in Ranks, b \in Buffers, key \in Keys :
           tensors[r][<<b, key>>] = "freed" => NobodyUses(m, ex, b) \/ <<r, b>> \in alone

PInv ==
    /\ LInv
    /\ barriers \in [Ranks -> Nat] /\ inFlight \in [Ranks -> SUBSET Buffers] /\ failures \in Nat
    /\ failures = 0 => \E m, ex, at : at \in [Ranks -> Nat] /\ Together(m, ex, at)

-----------------------------------------------------------------------------
\* The barriers of a call are counted when it is made.
LEMMA BarriersNext ==
    ASSUME NEW m, NEW ex, NEW k \in Nat
    PROVE  /\ BarriersTo(m, ex, k) \in Nat
           /\ BarriersTo(m, ex, k + 1) =
                  BarriersTo(m, ex, k) + IF Barred(m, ex, k + 1) THEN 1 ELSE 0
<1> DEFINE T == {i \in 1 .. k : Barred(m, ex, i)}
<1>1. IsFiniteSet(T) /\ Cardinality(T) \in Nat
  <2>1. IsFiniteSet(1 .. k)
    BY FS_Interval
  <2>2. T \subseteq 1 .. k
    OBVIOUS
  <2> QED
    BY <2>1, <2>2, FS_Subset, FS_CardinalityType
<1>2. k + 1 \notin T
  OBVIOUS
<1>3. {i \in 1 .. (k + 1) : Barred(m, ex, i)} =
          IF Barred(m, ex, k + 1) THEN T \cup {k + 1} ELSE T
  <2>1. 1 .. (k + 1) = (1 .. k) \cup {k + 1}
    OBVIOUS
  <2> QED
    BY <2>1
<1> HIDE DEF T
<1>4. Cardinality(T \cup {k + 1}) = Cardinality(T) + 1
  BY <1>1, <1>2, FS_AddElement
<1> QED
  BY <1>1, <1>3, <1>4 DEF BarriersTo, T

LEMMA BarriersGrow ==
    ASSUME NEW m, NEW ex, NEW i \in Nat, NEW j \in Nat, i <= j
    PROVE  BarriersTo(m, ex, i) <= BarriersTo(m, ex, j)
<1>1. IsFiniteSet({l \in 1 .. j : Barred(m, ex, l)})
  <2>1. IsFiniteSet(1 .. j)
    BY FS_Interval
  <2> QED
    BY <2>1, FS_Subset
<1>2. {l \in 1 .. i : Barred(m, ex, l)} \subseteq {l \in 1 .. j : Barred(m, ex, l)}
  OBVIOUS
<1> QED
  BY <1>1, <1>2, FS_Subset DEF BarriersTo

LEMMA EndedNext ==
    ASSUME NEW m, NEW ex, NEW k \in Nat, NEW b
    PROVE  EndedIn(m, ex, k + 1, b) <=> EndedIn(m, ex, k, b) \/ (Ends(m[k + 1], ex) /\ m[k + 1].buf = b)
<1>1. 1 .. (k + 1) = (1 .. k) \cup {k + 1}
  OBVIOUS
<1> QED
  BY <1>1 DEF EndedIn

LEMMA FinalizedNext ==
    ASSUME NEW m, NEW k \in Nat
    PROVE  Finalized(m, k + 1) <=> Finalized(m, k) \/ m[k + 1].kind = "finalize"
<1>1. 1 .. (k + 1) = (1 .. k) \cup {k + 1}
  OBVIOUS
<1> QED
  BY <1>1 DEF Finalized

\* A rank that has been to the barrier of call i has made it, or is at its barrier.
LEMMA Behind ==
    ASSUME NEW m, NEW ex, NEW k, NEW q, Along(m, ex, k, q), barriers[q] \in Nat, Len(m) \in Nat,
           NEW i \in 1 .. Len(m), Barred(m, ex, i), barriers[q] >= BarriersTo(m, ex, i)
    PROVE  i <= k \/ (i = k + 1 /\ Waits(q))
<1> SUFFICES ASSUME k < i, ~(i = k + 1 /\ Waits(q)) PROVE FALSE
  BY DEF Along
<1>1. k \in Nat /\ k < Len(m) /\ barriers[q] = BarriersTo(m, ex, k) + Extra(q)
  BY DEF Along, Placed
<1>2. /\ BarriersTo(m, ex, k) \in Nat
      /\ BarriersTo(m, ex, k + 1) = BarriersTo(m, ex, k) + IF Barred(m, ex, k + 1) THEN 1 ELSE 0
  BY <1>1, BarriersNext
<1>3. /\ BarriersTo(m, ex, i - 1) \in Nat
      /\ BarriersTo(m, ex, i) = BarriersTo(m, ex, i - 1) + 1
  <2>1. i - 1 \in Nat /\ (i - 1) + 1 = i
    OBVIOUS
  <2> QED
    BY <2>1, BarriersNext
<1>4. CASE i = k + 1
  BY <1>1, <1>2, <1>4 DEF Extra
<1>5. CASE i > k + 1
  <2>1. BarriersTo(m, ex, k + 1) <= BarriersTo(m, ex, i - 1)
    BY <1>1, <1>5, BarriersGrow
  <2>2. CASE Waits(q)
    <3>1. Barred(m, ex, k + 1)
      BY <1>1, <2>2 DEF Along, Placed
    <3> QED
      BY <1>1, <1>2, <1>3, <2>1, <2>2, <3>1 DEF Extra
  <2>3. CASE ~Waits(q)
    BY <1>1, <1>2, <1>3, <2>1, <2>3 DEF Extra
  <2> QED
    BY <2>2, <2>3
<1> QED
  BY <1>1, <1>4, <1>5

\* Kernels in flight reach into mapped and zeroed tensors.
LEMMA TogetherMapped ==
    ASSUME LInv, barriers \in [Ranks -> Nat], inFlight \in [Ranks -> SUBSET Buffers],
           NEW m, NEW ex, NEW at, Together(m, ex, at),
           NEW r \in Ranks, NEW q \in Ranks, NEW b \in inFlight[r], NEW key \in Keys,
           <<q, b>> \notin alone
    PROVE  tensors[q][<<b, key>>] = "zeroed"
<1>1. /\ m \in Seq(Calls) /\ Len(m) \in Nat /\ b \in Buffers
      /\ Along(m, ex, at[r], r) /\ Along(m, ex, at[q], q)
      /\ barriers[r] \in Nat /\ barriers[q] \in Nat
      /\ barriers[q] >= BarriersTo(m, ex, at[r])
  BY DEF Together, Common
<1>2. PICK k : k = at[r] /\ k \in 0 .. Len(m)
  BY <1>1 DEF Along
<1>3. PICK i \in 1 .. k : m[i].kind = "create" /\ m[i].buf = b
  BY <1>1, <1>2 DEF Along, Launched
<1>4. i \in 1 .. Len(m) /\ i \in Nat /\ k \in Nat /\ i <= k /\ Barred(m, ex, i)
  BY <1>1, <1>2, <1>3 DEF Barred
<1>5. barriers[q] >= BarriersTo(m, ex, i)
  <2>1. BarriersTo(m, ex, i) <= BarriersTo(m, ex, k)
    BY <1>4, BarriersGrow
  <2>2. BarriersTo(m, ex, i) \in Nat /\ BarriersTo(m, ex, k) \in Nat
    BY <1>4, BarriersNext
  <2> QED
    BY <1>1, <1>2, <2>1, <2>2
<1>6. i <= at[q] \/ (i = at[q] + 1 /\ Waits(q))
  BY <1>1, <1>4, <1>5, Behind
<1>7. i <= at[q] \/ (i = at[q] + 1 /\ phase[q] = "zeroed")
  <2> SUFFICES ASSUME i = at[q] + 1, phase[q] = "releasing" PROVE FALSE
    BY <1>6 DEF Waits
  <2>1. at[q] < Len(m)
    BY <1>1, <1>4 DEF Along
  <2>2. Ends(m[i], ex)
    BY <1>1, <2>1 DEF Along, Placed
  <2> QED
    BY <1>3, <2>2 DEF Ends
<1>8. tensors[q][<<b, key>>] \in {"zeroed", "freed"}
  BY <1>1, <1>3, <1>4, <1>7 DEF Along, Holds
<1>9. ~NobodyUses(m, ex, b)
  <2>1. ASSUME NEW j \in 1 .. Len(m), Ends(m[j], ex), Barred(m, ex, j), m[j].buf = b,
               barriers[r] >= BarriersTo(m, ex, j)
        PROVE  FALSE
    <3>1. j <= k \/ (j = k + 1 /\ Waits(r))
      BY <1>1, <1>2, <2>1, Behind
    <3>2. CASE j <= k
      <4>1. EndedIn(m, ex, k, b)
        BY <1>4, <2>1, <3>2 DEF EndedIn
      <4> QED
        BY <1>1, <1>2, <4>1 DEF Along, Launched
    <3>3. CASE j = k + 1 /\ Waits(r)
      <4>1. phase[r] = "zeroed"
        BY <1>1, <3>3 DEF Along, Launched, Waits
      <4>2. k < Len(m) /\ rest[r][1] = m[k + 1] /\ Len(rest[r]) >= 1
        <5>1. k < Len(m) /\ 1 \in 1 .. (Len(m) - k) /\ Len(m) - k >= 1
          BY <1>1, <1>2, <3>3
        <5>2. Follows(m, ex, k, rest[r]) /\ rest[r] \in Seq(Calls)
          BY <1>1, <1>2 DEF Along, Placed, LInv, LifecycleTypeOK
        <5> QED
          BY <1>1, <1>4, <5>1, <5>2 DEF Follows
      <4> QED
        <5>1. rest[r] # <<>> /\ Head(rest[r]).kind = "create"
          BY <4>1 DEF LInv, OrderlyRank, PhaseOfCall, Creating
        <5>2. rest[r] \in Seq(Calls)
          BY DEF LInv, LifecycleTypeOK
        <5>3. m[k + 1].kind = "create"
          BY <4>2, <5>1, <5>2
        <5> QED
          BY <2>1, <3>3, <5>3 DEF Ends
    <3> QED
      BY <3>1, <3>2, <3>3
  <2>2. ASSUME barriers[r] > BarriersTo(m, ex, Len(m)) PROVE FALSE
    <3>1. CASE k = Len(m)
      BY <1>1, <1>2, <2>2, <3>1 DEF Along, Launched
    <3>2. CASE k < Len(m)
      <4>1. barriers[r] = BarriersTo(m, ex, k) + Extra(r)
        BY <1>1, <1>2, <3>2 DEF Along, Placed
      <4>2. /\ BarriersTo(m, ex, k + 1) = BarriersTo(m, ex, k) + IF Barred(m, ex, k + 1) THEN 1 ELSE 0
            /\ BarriersTo(m, ex, k) \in Nat
        BY <1>4, BarriersNext
      <4>3. BarriersTo(m, ex, k + 1) <= BarriersTo(m, ex, Len(m)) /\ BarriersTo(m, ex, Len(m)) \in Nat
        <5>1. k + 1 \in Nat /\ k + 1 <= Len(m)
          BY <1>1, <1>4, <3>2
        <5> QED
          BY <1>1, <5>1, BarriersGrow, BarriersNext
      <4>4. Waits(r) => Barred(m, ex, k + 1)
        BY <1>1, <1>2, <3>2 DEF Along, Placed
      <4> QED
        BY <1>1, <2>2, <4>1, <4>2, <4>3, <4>4 DEF Extra
    <3> QED
      BY <1>1, <1>2, <3>1, <3>2
  <2> QED
    BY <2>1, <2>2 DEF NobodyUses
<1> QED
  BY <1>1, <1>8, <1>9 DEF Together

-----------------------------------------------------------------------------
\* After its first call a rank has made one more of the common ones, if some are left.
Ahead(m, k) == IF k < Len(m) THEN k + 1 ELSE k

LEMMA FollowsHead ==
    ASSUME NEW m \in Seq(Calls), NEW ex, NEW k \in 0 .. Len(m), NEW calls \in Seq(Calls),
           Follows(m, ex, k, calls)
    PROVE  /\ k < Len(m) => calls # <<>> /\ Head(calls) = m[k + 1]
           /\ k = Len(m) /\ calls # <<>> =>
                  \/ Head(calls).kind = "drop"
                  \/ Head(calls).kind = "use" /\ EndedIn(m, ex, Len(m), Head(calls).buf)
<1>1. Len(m) \in Nat /\ k \in Nat /\ Len(calls) \in Nat /\ Len(m) - k <= Len(calls)
  BY DEF Follows
<1>2. ASSUME k < Len(m) PROVE calls # <<>> /\ Head(calls) = m[k + 1]
  <2>1. 1 \in 1 .. (Len(m) - k) /\ Len(calls) >= 1
    BY <1>1, <1>2
  <2>2. calls[1] = m[k + 1]
    BY <2>1 DEF Follows
  <2> QED
    BY <2>1, <2>2
<1>3. ASSUME k = Len(m), calls # <<>>
      PROVE  \/ Head(calls).kind = "drop"
             \/ Head(calls).kind = "use" /\ EndedIn(m, ex, Len(m), Head(calls).buf)
  <2>1. Len(m) - k + 1 = 1 /\ Len(m) - k = 0 /\ 1 \in 1 .. Len(calls) /\ Head(calls) = calls[1]
    BY <1>1, <1>3
  <2> QED
    BY <2>1 DEF Follows
<1> QED
  BY <1>2, <1>3

LEMMA FollowsTail ==
    ASSUME NEW m \in Seq(Calls), NEW ex, NEW k \in 0 .. Len(m), NEW calls \in Seq(Calls),
           Follows(m, ex, k, calls), calls # <<>>, k = Len(m) => Head(calls).kind = "drop"
    PROVE  Follows(m, ex, Ahead(m, k), Tail(calls))
<1>1. /\ Len(m) \in Nat /\ k \in Nat /\ Len(calls) \in Nat \ {0}
      /\ Head(calls) = calls[1] /\ Len(Tail(calls)) = Len(calls) - 1
      /\ \A i \in 1 .. (Len(calls) - 1) : Tail(calls)[i] = calls[i + 1]
  OBVIOUS
<1>2. CASE k < Len(m)
  <2>1. PICK t : t = Len(m) - k /\ t \in Nat \ {0} /\ Len(m) - (k + 1) = t - 1
    BY <1>1, <1>2
  <2>2. /\ t <= Len(calls)
        /\ \A i \in 1 .. t : calls[i] = m[k + i]
        /\ \/ \A i \in (t + 1) .. Len(calls) : calls[i].kind = "drop"
           \/ /\ t < Len(calls) /\ calls[t + 1].kind = "use"
              /\ EndedIn(m, ex, Len(m), calls[t + 1].buf)
    BY <2>1 DEF Follows
  <2>3. \A i \in 1 .. (t - 1) : Tail(calls)[i] = m[(k + 1) + i]
    <3> SUFFICES ASSUME NEW i \in 1 .. (t - 1) PROVE Tail(calls)[i] = m[(k + 1) + i]
      OBVIOUS
    <3>1. i \in 1 .. (Len(calls) - 1) /\ i + 1 \in 1 .. t /\ k + (i + 1) = (k + 1) + i
      BY <1>1, <2>1, <2>2
    <3>2. calls[i + 1] = m[k + (i + 1)]
      BY <2>2, <3>1
    <3> QED
      BY <1>1, <3>1, <3>2
  <2>4. \/ \A i \in ((t - 1) + 1) .. Len(Tail(calls)) : Tail(calls)[i].kind = "drop"
        \/ /\ t - 1 < Len(Tail(calls)) /\ Tail(calls)[(t - 1) + 1].kind = "use"
           /\ EndedIn(m, ex, Len(m), Tail(calls)[(t - 1) + 1].buf)
    <3>1. CASE \A i \in (t + 1) .. Len(calls) : calls[i].kind = "drop"
      <4>1. ASSUME NEW i \in ((t - 1) + 1) .. Len(Tail(calls)) PROVE Tail(calls)[i].kind = "drop"
        <5>1. i \in 1 .. (Len(calls) - 1) /\ i + 1 \in (t + 1) .. Len(calls)
          BY <1>1, <2>1, <4>1
        <5> QED
          BY <1>1, <3>1, <5>1
      <4> QED
        BY <4>1
    <3>2. CASE /\ t < Len(calls) /\ calls[t + 1].kind = "use"
               /\ EndedIn(m, ex, Len(m), calls[t + 1].buf)
      <4>1. t \in 1 .. (Len(calls) - 1) /\ (t - 1) + 1 = t /\ t - 1 < Len(Tail(calls))
        BY <1>1, <2>1, <3>2
      <4> QED
        BY <1>1, <3>2, <4>1
    <3> QED
      BY <2>2, <3>1, <3>2
  <2>5. Ahead(m, k) = k + 1 /\ t - 1 <= Len(Tail(calls))
    BY <1>1, <1>2, <2>1, <2>2 DEF Ahead
  <2> QED
    BY <2>1, <2>3, <2>4, <2>5 DEF Follows
<1>3. CASE k = Len(m)
  <2>1. Len(m) - k = 0 /\ Ahead(m, k) = k
    BY <1>1, <1>3 DEF Ahead
  <2>2. \A i \in 1 .. Len(calls) : calls[i].kind = "drop"
    BY <1>1, <1>3, <2>1 DEF Follows
  <2>3. \A i \in 1 .. Len(Tail(calls)) : Tail(calls)[i].kind = "drop"
    <3> SUFFICES ASSUME NEW i \in 1 .. Len(Tail(calls)) PROVE Tail(calls)[i].kind = "drop"
      OBVIOUS
    <3>1. i \in 1 .. (Len(calls) - 1) /\ i + 1 \in 1 .. Len(calls)
      BY <1>1
    <3> QED
      BY <1>1, <2>2, <3>1
  <2>4. 1 .. (Len(m) - k) = {} /\ Len(m) - k + 1 = 1 /\ 0 <= Len(Tail(calls))
    BY <1>1, <2>1
  <2> QED
    BY <2>1, <2>3, <2>4 DEF Follows
<1> QED
  BY <1>1, <1>2, <1>3

\* A rank that only collects.
LEMMA FollowsDrops ==
    ASSUME NEW m \in Seq(Calls), NEW ex, NEW calls \in Seq(Calls),
           \A i \in 1 .. Len(calls) : calls[i].kind = "drop"
    PROVE  Follows(m, ex, Len(m), calls)
<1>1. Len(m) \in Nat /\ Len(calls) \in Nat /\ Len(m) - Len(m) = 0
  OBVIOUS
<1>2. 1 .. (Len(m) - Len(m)) = {} /\ Len(m) - Len(m) + 1 = 1
  BY <1>1
<1> QED
  BY <1>1, <1>2 DEF Follows

\* A set of numbers has a least one.
LEMMA LeastOf ==
    ASSUME NEW T, T \subseteq Nat, T # {}
    PROVE  \E n \in T : \A i \in T : n <= i
<1> DEFINE R == {ss \in Nat \X Nat : ss[1] < ss[2]}
<1>1. IsWellFoundedOn(R, Nat)
  BY NatLessThanWellFounded DEF OpToRel
<1> HIDE DEF R
<1>2. PICK n \in T : \A i \in T : ~(<<i, n>> \in R)
  BY <1>1, WFMin
<1>3. \A i \in T : ~(i < n)
  BY <1>2 DEF R
<1> QED
  BY <1>3

\* The common program of the ranks: what they agree on up to the first call that raises.
LEMMA CommonExists ==
    ASSUME NEW p \in Programs
    PROVE  \E m : Common(m, p.explicit) /\ \A r \in Ranks : Follows(m, p.explicit, 0, p.calls[r])
<1>1. PICK n \in 0 .. Len(p.calls[0]) : \A r \in Ranks :
          /\ n <= Len(p.calls[r])
          /\ \A i \in 1 .. n : p.calls[r][i] = p.calls[0][i]
          /\ \A i \in (n + 1) .. Len(p.calls[r]) : p.calls[r][i].kind = "drop"
  BY SameCallsAssumption
<1>2. PICK c, ex : c = p.calls[0] /\ ex = p.explicit
  OBVIOUS
<1>3. 0 \in Ranks
  BY RanksAssumption DEF Ranks
<1>4. c \in Seq(Calls) /\ Legal(c) /\ n \in 0 .. Len(c) /\ Len(c) \in Nat
  BY <1>1, <1>2, <1>3, ProgramsAssumption
<1> DEFINE T == {i \in 1 .. n : c[i].kind = "use" /\ EndedIn(c, ex, i - 1, c[i].buf)}
<1>5. PICK l \in 0 .. n : /\ \A i \in 1 .. l : i \notin T
                          /\ l < n => l + 1 \in T
  <2>1. CASE T = {}
    <3>1. n \in Nat /\ n \in 0 .. n /\ ~(n < n)
      BY <1>4
    <3> HIDE DEF T
    <3>2. /\ \A i \in 1 .. n : i \notin T
          /\ n < n => n + 1 \in T
      BY <2>1, <3>1
    <3> QED
      BY <3>1, <3>2
  <2>2. CASE T # {}
    <3>1. T \subseteq Nat
      BY <1>4
    <3> HIDE DEF T
    <3>2. PICK i \in T : \A j \in T : i <= j
      BY <2>2, <3>1, LeastOf
    <3>3. i \in 1 .. n
      BY <3>2 DEF T
    <3>4. i - 1 \in 0 .. n /\ (i - 1) + 1 = i
      BY <1>4, <3>3
    <3>5. \A j \in 1 .. (i - 1) : j \notin T
      <4> SUFFICES ASSUME NEW j \in 1 .. (i - 1), j \in T PROVE FALSE
        OBVIOUS
      <4>1. i <= j
        BY <3>2
      <4> QED
        BY <3>3, <4>1
    <3> QED
      BY <3>2, <3>4, <3>5
  <2> QED
    BY <2>1, <2>2
<1>6. l \in Nat /\ l <= n /\ n <= Len(c)
  BY <1>4
<1>7. PICK m : m = [i \in 1 .. l |-> c[i]]
  OBVIOUS
<1>8. m \in Seq(Calls) /\ Len(m) = l /\ \A i \in 1 .. l : m[i] = c[i]
  <2>1. \A i \in 1 .. l : c[i] \in Calls
    <3> SUFFICES ASSUME NEW i \in 1 .. l PROVE c[i] \in Calls
      OBVIOUS
    <3>1. i \in 1 .. Len(c)
      BY <1>4, <1>6
    <3> QED
      BY <1>4, <3>1
  <2> QED
    BY <1>6, <1>7, <2>1
<1>9. \A i \in 0 .. l : \A b : EndedIn(m, ex, i, b) <=> EndedIn(c, ex, i, b)
  <2> SUFFICES ASSUME NEW i \in 0 .. l, NEW b PROVE EndedIn(m, ex, i, b) <=> EndedIn(c, ex, i, b)
    OBVIOUS
  <2>1. \A j \in 1 .. i : m[j] = c[j]
    BY <1>6, <1>8
  <2> QED
    BY <2>1 DEF EndedIn
<1>10. Legal(m)
  <2> SUFFICES ASSUME NEW i \in 1 .. Len(m)
               PROVE  /\ Before(m, i, "create") <=> m[i].kind # "create"
                      /\ ~Before(m, i, "drop")
                      /\ m[i].kind = "create" => \A j \in 1 .. (i - 1) : m[j].kind # "finalize"
    BY DEF Legal
  <2>1. i \in 1 .. Len(c) /\ m[i] = c[i] /\ \A j \in 1 .. (i - 1) : m[j] = c[j]
    BY <1>4, <1>6, <1>8
  <2>2. \A kind : Before(m, i, kind) <=> Before(c, i, kind)
    BY <2>1 DEF Before
  <2> QED
    BY <1>4, <2>1, <2>2 DEF Legal
<1>11. ASSUME NEW i \in 1 .. Len(m), m[i].kind = "use" PROVE ~EndedIn(m, ex, i - 1, m[i].buf)
  <2>1. i \in 1 .. l /\ i \in 1 .. n /\ i \notin T /\ i - 1 \in 0 .. l
    BY <1>4, <1>5, <1>6, <1>8
  <2> QED
    BY <1>8, <1>9, <1>11, <2>1
<1>12. ASSUME NEW r \in Ranks PROVE Follows(m, ex, 0, p.calls[r])
  <2>1. PICK d : d = p.calls[r] /\ d \in Seq(Calls) /\ Len(d) \in Nat
    BY ProgramsAssumption
  <2>2. /\ n <= Len(d)
        /\ \A i \in 1 .. n : d[i] = c[i]
        /\ \A i \in (n + 1) .. Len(d) : d[i].kind = "drop"
    BY <1>1, <1>2, <2>1
  <2>3. \A i \in 1 .. l : d[i] = m[0 + i]
    BY <1>6, <1>8, <2>2
  <2>4. CASE l = n
    <3>1. \A i \in (Len(m) - 0 + 1) .. Len(d) : d[i].kind = "drop"
      BY <1>6, <1>8, <2>2, <2>4
    <3> QED
      BY <1>6, <1>8, <2>1, <2>2, <2>3, <2>4, <3>1 DEF Follows
  <2>5. CASE l < n
    <3>1. l + 1 \in T /\ l + 1 \in 1 .. n /\ (l + 1) - 1 = l /\ l \in 0 .. l
      BY <1>5, <1>6, <2>5
    <3>2. d[l + 1] = c[l + 1] /\ d[l + 1].kind = "use" /\ EndedIn(c, ex, l, d[l + 1].buf)
      BY <2>2, <3>1
    <3>3. EndedIn(m, ex, Len(m), d[l + 1].buf)
      BY <1>8, <1>9, <3>1, <3>2
    <3>4. l < Len(d) /\ l <= Len(d) /\ Len(m) - 0 = l
      BY <1>4, <1>6, <1>8, <2>1, <2>2, <2>5
    <3> HIDE DEF T
    <3> QED
      BY <2>1, <2>3, <3>2, <3>3, <3>4 DEF Follows
  <2> QED
    BY <1>6, <2>4, <2>5
<1> QED
  BY <1>2, <1>8, <1>10, <1>11, <1>12 DEF Common

-----------------------------------------------------------------------------
\* The next call of a rank that is past the common ones: it collects, or it raises.
CollectsNow(r) ==
    \/ Head(rest[r]).kind = "drop"
    \/ Head(rest[r]).kind = "use" /\ destroyed[r][Head(rest[r]).buf]

\* Rank r in the common program.
LEMMA Turn ==
    ASSUME PInv, NEW m, NEW ex, NEW at, Together(m, ex, at), NEW r \in Ranks,
           NEW k, k = at[r]
    PROVE  /\ m \in Seq(Calls) /\ Len(m) \in Nat /\ k \in 0 .. Len(m) /\ k \in Nat
           /\ rest[r] \in Seq(Calls) /\ barriers[r] \in Nat
           /\ Placed(m, ex, k, r) /\ Holds(m, ex, k, r) /\ Launched(m, ex, k, r)
           /\ BarriersTo(m, ex, k) \in Nat
           /\ \A q \in Ranks : barriers[q] \in Nat /\ barriers[q] >= BarriersTo(m, ex, k)
           /\ k < Len(m) =>
                  /\ rest[r] # <<>> /\ Head(rest[r]) = m[k + 1] /\ m[k + 1] \in Calls
                  /\ k + 1 \in 1 .. Len(m) /\ (k + 1) - 1 = k
                  /\ BarriersTo(m, ex, k + 1) =
                         BarriersTo(m, ex, k) + IF Barred(m, ex, k + 1) THEN 1 ELSE 0
<1>1. /\ m \in Seq(Calls) /\ Len(m) \in Nat /\ k \in 0 .. Len(m) /\ k \in Nat
      /\ Placed(m, ex, k, r) /\ Holds(m, ex, k, r) /\ Launched(m, ex, k, r)
  BY DEF Together, Common, Along
<1>2. rest[r] \in Seq(Calls) /\ barriers \in [Ranks -> Nat]
  BY DEF PInv, LInv, LifecycleTypeOK
<1>3. /\ BarriersTo(m, ex, k) \in Nat
      /\ BarriersTo(m, ex, k + 1) = BarriersTo(m, ex, k) + IF Barred(m, ex, k + 1) THEN 1 ELSE 0
  BY <1>1, BarriersNext
<1>4. \A q \in Ranks : barriers[q] \in Nat /\ barriers[q] >= BarriersTo(m, ex, k)
  BY <1>2 DEF Together
<1>5. Follows(m, ex, k, rest[r])
  BY <1>1 DEF Placed
<1>6. k < Len(m) => rest[r] # <<>> /\ Head(rest[r]) = m[k + 1]
  BY <1>1, <1>2, <1>5, FollowsHead
<1>7. k < Len(m) => k + 1 \in 1 .. Len(m) /\ (k + 1) - 1 = k /\ m[k + 1] \in Calls
  BY <1>1
<1> QED
  BY <1>1, <1>2, <1>3, <1>4, <1>6, <1>7

LEMMA TurnPast ==
    ASSUME PInv, NEW m, NEW ex, NEW at, Together(m, ex, at), NEW r \in Ranks,
           NEW k, k = at[r], k = Len(m), rest[r] # <<>>
    PROVE  CollectsNow(r)
<1>1. /\ m \in Seq(Calls) /\ k \in 0 .. Len(m) /\ rest[r] \in Seq(Calls)
      /\ Placed(m, ex, k, r) /\ Holds(m, ex, k, r)
  BY DEF Together, Common, Along, PInv, LInv, LifecycleTypeOK
<1>2. Follows(m, ex, k, rest[r])
  BY <1>1 DEF Placed
<1>3. \/ Head(rest[r]).kind = "drop"
      \/ Head(rest[r]).kind = "use" /\ EndedIn(m, ex, Len(m), Head(rest[r]).buf)
  BY <1>1, <1>2, FollowsHead
<1>4. Head(rest[r]).buf \in Buffers
  <2>1. Head(rest[r]) \in Calls
    BY <1>1
  <2> QED
    BY <2>1 DEF Calls
<1> QED
  BY <1>1, <1>3, <1>4 DEF Holds, CollectsNow

\* A step of rank r after which it is along again, all ranks are past the barriers
\* of the calls that it has made, and what it has released nobody uses, unless it
\* did so outside of the process group.
Moved(m, ex, j, r) ==
    /\ Along(m, ex, j, r)'
    /\ explicit' = explicit /\ barriers' \in [Ranks -> Nat]
    /\ \A q \in Ranks : barriers'[q] >= barriers[q] /\ barriers'[q] >= BarriersTo(m, ex, j)
    /\ \A q \in Ranks \ {r} :
           /\ barriers'[q] = barriers[q] /\ inFlight'[q] = inFlight[q]
           /\ rest'[q] = rest[q] /\ phase'[q] = phase[q] /\ destroyed'[q] = destroyed[q]
           /\ tensors'[q] = tensors[q]
           /\ q \in initialized' <=> q \in initialized
    /\ alone \subseteq alone'
    /\ \A b \in Buffers, key \in Keys : tensors'[r][<<b, key>>] = "freed" =>
           tensors[r][<<b, key>>] = "freed" \/ NobodyUses(m, ex, b)' \/ <<r, b>> \in alone'

LEMMA StillTogether ==
    ASSUME PInv, NEW m, NEW ex, NEW at, at \in [Ranks -> Nat], Together(m, ex, at),
           NEW r \in Ranks, NEW j \in Nat, Moved(m, ex, j, r)
    PROVE  \E a : a \in [Ranks -> Nat] /\ Together(m, ex, a)'
<1>1. PICK a : a = [at EXCEPT ![r] = j]
  OBVIOUS
<1>2. a \in [Ranks -> Nat] /\ a[r] = j /\ \A q \in Ranks \ {r} : a[q] = at[q]
  BY <1>1
<1>3. \A q \in Ranks : Along(m, ex, at[q], q)
  BY DEF Together
<1>4. ASSUME NEW q \in Ranks PROVE Along(m, ex, a[q], q)'
  <2>1. CASE q = r
    BY <1>2, <2>1 DEF Moved
  <2>2. CASE q # r
    <3>1. /\ barriers'[q] = barriers[q] /\ inFlight'[q] = inFlight[q]
          /\ rest'[q] = rest[q] /\ phase'[q] = phase[q] /\ destroyed'[q] = destroyed[q]
          /\ tensors'[q] = tensors[q]
          /\ q \in initialized' <=> q \in initialized
          /\ alone \subseteq alone'
      BY <2>2 DEF Moved
    <3>2. PICK k : k = at[q] /\ Along(m, ex, k, q)
      BY <1>3
    <3>3. Along(m, ex, k, q)'
      BY <3>1, <3>2 DEF Along, Placed, Holds, Launched, Extra, Waits
    <3> QED
      BY <1>2, <2>2, <3>2, <3>3
  <2> QED
    BY <2>1, <2>2
<1>5. /\ \A q \in Ranks : barriers'[q] \in Nat /\ barriers[q] \in Nat /\ barriers'[q] >= barriers[q]
      /\ \A i \in Nat : BarriersTo(m, ex, i) \in Nat
  BY BarriersNext DEF Moved, PInv
<1>6. ASSUME NEW q \in Ranks, NEW s \in Ranks PROVE barriers'[s] >= BarriersTo(m, ex, a[q])
  <2>1. CASE q = r
    BY <1>2, <2>1 DEF Moved
  <2>2. CASE q # r
    <3>1. at[q] \in Nat /\ barriers[s] >= BarriersTo(m, ex, at[q])
      BY DEF Together
    <3>2. BarriersTo(m, ex, at[q]) \in Nat
      BY <1>5, <3>1
    <3>3. barriers'[s] >= BarriersTo(m, ex, at[q])
      BY <1>5, <3>1, <3>2
    <3> QED
      BY <1>2, <2>2, <3>3
  <2> QED
    BY <2>1, <2>2
<1>7. \A b : NobodyUses(m, ex, b) => NobodyUses(m, ex, b)'
  <2>1. \A i \in Nat : \A q \in Ranks :
            /\ barriers[q] >= BarriersTo(m, ex, i) => barriers'[q] >= BarriersTo(m, ex, i)
            /\ barriers[q] > BarriersTo(m, ex, i) => barriers'[q] > BarriersTo(m, ex, i)
    <3> SUFFICES ASSUME NEW i \in Nat, NEW q \in Ranks
                 PROVE  /\ barriers[q] >= BarriersTo(m, ex, i) => barriers'[q] >= BarriersTo(m, ex, i)
                        /\ barriers[q] > BarriersTo(m, ex, i) => barriers'[q] > BarriersTo(m, ex, i)
      OBVIOUS
    <3>1. BarriersTo(m, ex, i) \in Nat
      BY <1>5
    <3> QED
      BY <1>5, <3>1
  <2>2. Len(m) \in Nat /\ 1 .. Len(m) \subseteq Nat
    BY DEF Together, Common
  <2> QED
    BY <2>1, <2>2 DEF NobodyUses
<1>8. ASSUME NEW q \in Ranks, NEW b \in Buffers, NEW key \in Keys, tensors'[q][<<b, key>>] = "freed"
      PROVE  NobodyUses(m, ex, b)' \/ <<q, b>> \in alone'
  <2>1. alone \subseteq alone' /\
            (tensors[q][<<b, key>>] = "freed" \/ NobodyUses(m, ex, b)' \/ <<q, b>> \in alone')
    BY <1>8 DEF Moved
  <2> QED
    BY <1>7, <2>1 DEF Together
<1>9. ex = explicit' /\ Common(m, ex)
  BY DEF Together, Moved
<1>10. Together(m, ex, a)'
  BY <1>4, <1>6, <1>8, <1>9 DEF Together
<1> QED
  BY <1>2, <1>10

-----------------------------------------------------------------------------
\* What an action of rank r leaves alone; and it arrives at one barrier at most.
LEMMA HostFrame ==
    ASSUME PInv, NEW r \in Ranks, Host(r) \/ Fails(r)
    PROVE  /\ explicit' = explicit
           /\ barriers' \in [Ranks -> Nat] /\ inFlight' \in [Ranks -> SUBSET Buffers]
           /\ \A q \in Ranks : barriers[q] \in Nat /\ barriers'[q] >= barriers[q]
           /\ \A q \in Ranks \ {r} :
                  /\ barriers'[q] = barriers[q] /\ inFlight'[q] = inFlight[q]
                  /\ rest'[q] = rest[q] /\ phase'[q] = phase[q] /\ destroyed'[q] = destroyed[q]
                  /\ tensors'[q] = tensors[q]
                  /\ q \in initialized' <=> q \in initialized
           /\ alone \subseteq alone'
<1>1. barriers \in [Ranks -> Nat] /\ inFlight \in [Ranks -> SUBSET Buffers] /\ LInv
  BY DEF PInv
<1>2. barriers' = barriers \/ barriers' = Arrive(barriers, r)
  BY DEF Host, Fails, CreateRaises, ReleaseRaises, Releases, Release, EnsureNvshmemInitialized, Allocate, Zero,
         Created, Use, NothingToDestroy, DestroyGroup, Destroy, Prepares, Destroyed, rendezvous
<1>3. /\ barriers' \in [Ranks -> Nat]
      /\ \A q \in Ranks : barriers[q] \in Nat /\ barriers'[q] >= barriers[q]
      /\ \A q \in Ranks \ {r} : barriers'[q] = barriers[q]
  <2>1. CASE barriers' = barriers
    BY <1>1, <2>1
  <2>2. CASE barriers' = Arrive(barriers, r)
    BY <1>1, <2>2 DEF Arrive
  <2> QED
    BY <1>2, <2>1, <2>2
<1>4. \/ inFlight' = inFlight
      \/ Use(r) /\ inFlight' = [inFlight EXCEPT ![r] = @ \cup {Buf(r)}]
  BY DEF Host, Fails, CreateRaises, ReleaseRaises, Releases, Release, EnsureNvshmemInitialized, Allocate, Zero,
         Created, Use, NothingToDestroy, DestroyGroup, Destroy, Destroyed
<1>5. ASSUME Use(r) PROVE Buf(r) \in Buffers
  BY <1>1, <1>5, FirstCall DEF Use, Calling
<1>6. inFlight' \in [Ranks -> SUBSET Buffers] /\ \A q \in Ranks \ {r} : inFlight'[q] = inFlight[q]
  BY <1>1, <1>4, <1>5
<1>7. explicit' = explicit
  BY DEF Host, Fails, CreateRaises, ReleaseRaises, Releases, Release, EnsureNvshmemInitialized, Allocate, Zero,
         Created, Use, NothingToDestroy, DestroyGroup, Destroy, Destroyed
<1>8. alone \subseteq alone' /\ (initialized' = initialized \/ initialized' = initialized \ {r})
  BY DEF Host, Fails, CreateRaises, ReleaseRaises, Releases, Release, EnsureNvshmemInitialized,
         Allocate, Zero, Created, Use, NothingToDestroy, DestroyGroup, Destroy, Destroyed, group
<1> QED
  BY <1>1, <1>3, <1>6, <1>7, <1>8, OwnRankOnly

\* The calls of a rank before the k-th of the common ones that concern its Buffer.
LEMMA CommonCall ==
    ASSUME NEW m, NEW ex, Common(m, ex), NEW i \in 1 .. Len(m), m[i] \in Calls
    PROVE  /\ m[i].kind = "create" => \A j \in 1 .. (i - 1) :
                  m[j].kind = "create" => m[j].buf # m[i].buf
           /\ m[i].kind # "create" => \E j \in 1 .. (i - 1) :
                  m[j].kind = "create" /\ m[j].buf = m[i].buf
<1>1. m \in Seq(Calls) /\ (Before(m, i, "create") <=> m[i].kind # "create")
  BY DEF Common, Legal
<1>2. \A j \in 1 .. (i - 1) : m[j] \in Calls
  <2>1. \A j \in 1 .. Len(m) : m[j] \in Calls
    BY <1>1
  <2>2. Len(m) \in Nat
    BY <1>1
  <2> QED
    BY <2>1, <2>2
<1>3. \A j \in 1 .. (i - 1) :
          m[j] = [m[i] EXCEPT !.kind = "create"] <=> m[j].kind = "create" /\ m[j].buf = m[i].buf
  BY <1>2 DEF Calls
<1> QED
  BY <1>1, <1>3 DEF Before

\* A rank in the middle of creating a Buffer is in the common program.
LEMMA CreatingInCommon ==
    ASSUME PInv, NEW m, NEW ex, NEW at, Together(m, ex, at), NEW r \in Ranks,
           NEW k, k = at[r], phase[r] \in Creating \/ Calling(r, "create")
    PROVE  k < Len(m) /\ m[k + 1].kind = "create" /\ Buf(r) = m[k + 1].buf
           /\ Barred(m, ex, k + 1)
<1>1. rest[r] # <<>> /\ Head(rest[r]).kind = "create"
  BY DEF PInv, LInv, OrderlyRank, PhaseOfCall, Calling
<1>2. k < Len(m) /\ Head(rest[r]) = m[k + 1]
  <2>1. k # Len(m)
    BY <1>1, TurnPast DEF CollectsNow
  <2>2. k \in 0 .. Len(m) /\ Len(m) \in Nat
    BY Turn
  <2>3. k < Len(m)
    BY <2>1, <2>2
  <2> QED
    BY <2>3, Turn
<1> QED
  BY <1>1, <1>2 DEF Buf, Barred

LEMMA EnsureMoves ==
    ASSUME PInv, NEW m, NEW ex, NEW at, Together(m, ex, at), NEW r \in Ranks,
           NEW k, k = at[r], EnsureNvshmemInitialized(r)
    PROVE  Moved(m, ex, k, r)
<1>1. /\ phase[r] = "call" /\ rest' = rest /\ phase' = [phase EXCEPT ![r] = "initialized"]
      /\ UNCHANGED <<barriers, tensors, destroyed, inFlight, initialized, alone>>
      /\ Calling(r, "create")
  BY DEF EnsureNvshmemInitialized, Calling, Goto, objects, group
<1>2. phase'[r] = "initialized"
  BY <1>1 DEF PInv, LInv, LifecycleTypeOK
<1>3. k < Len(m)
  BY <1>1, CreatingInCommon
<1>4. Placed(m, ex, k, r) /\ Holds(m, ex, k, r) /\ Launched(m, ex, k, r) /\ k \in 0 .. Len(m)
  BY Turn
<1>5. Placed(m, ex, k, r)'
  BY <1>1, <1>2, <1>3, <1>4 DEF Placed, Waits, Extra
<1>6. Holds(m, ex, k, r)'
  BY <1>1, <1>2, <1>4 DEF Holds
<1>7. Launched(m, ex, k, r)'
  BY <1>1, <1>2, <1>4 DEF Launched
<1>8. \A q \in Ranks : barriers'[q] >= BarriersTo(m, ex, k)
  <2>1. \A q \in Ranks : barriers[q] >= BarriersTo(m, ex, k)
    BY Turn
  <2> QED
    BY <1>1, <2>1
<1> QED
  BY <1>1, <1>4, <1>5, <1>6, <1>7, <1>8, HostFrame DEF Moved, Along, Host

\* A Buffer on its way gets its tensors, or has them zeroed and goes to the barrier.
GetsTensors(r, new) ==
    tensors' = [tensors EXCEPT ![r] =
        [x \in DOMAIN @ |-> IF x[1] = Buf(r) THEN new ELSE @[x]]]

LEMMA TensorsOfCreated ==
    ASSUME PInv, NEW m, NEW ex, NEW at, Together(m, ex, at), NEW r \in Ranks,
           NEW k, k = at[r], phase[r] \in Creating, NEW new \in {"raw", "zeroed"},
           GetsTensors(r, new)
    PROVE  /\ \A b \in Buffers, key \in Keys :
                  tensors'[r][<<b, key>>] =
                      IF b = m[k + 1].buf THEN new ELSE tensors[r][<<b, key>>]
           /\ \A i \in 1 .. k : m[i].buf \in Buffers /\
                  (m[i].kind = "create" => m[i].buf # m[k + 1].buf)
<1>1. Buf(r) = m[k + 1].buf /\ m[k + 1].kind = "create" /\ k < Len(m)
  BY CreatingInCommon
<1>2. tensors'[r] = [x \in Buffers \X Keys |-> IF x[1] = Buf(r) THEN new ELSE tensors[r][x]]
  <2>1. tensors \in [Ranks -> [Buffers \X Keys -> {"none", "raw", "zeroed", "freed"}]]
    BY DEF PInv, LInv, LifecycleTypeOK
  <2> QED
    BY <2>1 DEF GetsTensors
<1>3. /\ m \in Seq(Calls) /\ k + 1 \in 1 .. Len(m) /\ (k + 1) - 1 = k /\ m[k + 1] \in Calls
      /\ k \in 0 .. Len(m) /\ Len(m) \in Nat
  BY <1>1, Turn
<1>4. \A i \in 1 .. k : m[i].kind = "create" => m[i].buf # m[k + 1].buf
  BY <1>1, <1>3, CommonCall DEF Together
<1>5. \A i \in 1 .. k : m[i] \in Calls
  BY <1>3
<1> QED
  BY <1>1, <1>2, <1>4, <1>5 DEF Calls

LEMMA AllocateMoves ==
    ASSUME PInv, NEW m, NEW ex, NEW at, Together(m, ex, at), NEW r \in Ranks,
           NEW k, k = at[r], Allocate(r)
    PROVE  Moved(m, ex, k, r)
<1>1. /\ phase[r] = "initialized" /\ rest' = rest /\ phase' = [phase EXCEPT ![r] = "allocated"]
      /\ UNCHANGED <<barriers, destroyed, inFlight, initialized, alone>>
      /\ phase[r] \in Creating /\ GetsTensors(r, "raw")
  BY DEF Allocate, Goto, Creating, GetsTensors, group
<1>2. phase'[r] = "allocated"
  BY <1>1 DEF PInv, LInv, LifecycleTypeOK
<1>3. k < Len(m)
  BY <1>1, CreatingInCommon
<1>4. Placed(m, ex, k, r) /\ Holds(m, ex, k, r) /\ Launched(m, ex, k, r) /\ k \in 0 .. Len(m)
      /\ Len(m) \in Nat /\ k \in Nat
  BY Turn
<1>5. Placed(m, ex, k, r)'
  BY <1>1, <1>2, <1>3, <1>4 DEF Placed, Waits, Extra
<1>6. /\ \A b \in Buffers, key \in Keys :
             tensors'[r][<<b, key>>] = IF b = m[k + 1].buf THEN "raw" ELSE tensors[r][<<b, key>>]
      /\ \A i \in 1 .. k : m[i].buf \in Buffers /\
             (m[i].kind = "create" => m[i].buf # m[k + 1].buf)
  BY <1>1, TensorsOfCreated
<1>7. Holds(m, ex, k, r)'
  <2> SUFFICES ASSUME NEW i \in 1 .. Len(m), m[i].kind = "create", i <= k, NEW key \in Keys
               PROVE  tensors'[r][<<m[i].buf, key>>] \in {"zeroed", "freed"}
    BY <1>1, <1>2, <1>4 DEF Holds
  <2>1. i \in 1 .. k
    BY <1>4
  <2> QED
    BY <1>4, <1>6, <2>1 DEF Holds
<1>8. Launched(m, ex, k, r)'
  BY <1>1, <1>2, <1>4 DEF Launched
<1>9. \A q \in Ranks : barriers'[q] >= BarriersTo(m, ex, k)
  <2>1. \A q \in Ranks : barriers[q] >= BarriersTo(m, ex, k)
    BY Turn
  <2> QED
    BY <1>1, <2>1
<1> QED
  BY <1>1, <1>4, <1>5, <1>6, <1>7, <1>8, <1>9, HostFrame DEF Moved, Along, Host

LEMMA ZeroMoves ==
    ASSUME PInv, NEW m, NEW ex, NEW at, Together(m, ex, at), NEW r \in Ranks,
           NEW k, k = at[r], Zero(r)
    PROVE  Moved(m, ex, k, r)
<1>1. /\ phase[r] = "allocated" /\ rest' = rest /\ phase' = [phase EXCEPT ![r] = "zeroed"]
      /\ UNCHANGED <<destroyed, inFlight, initialized, alone>> /\ phase[r] \in Creating
      /\ barriers' = [barriers EXCEPT ![r] = @ + 1]
      /\ GetsTensors(r, "zeroed")
  BY DEF Zero, Goto, Creating, Arrive, GetsTensors, group
<1>2. phase'[r] = "zeroed" /\ barriers'[r] = barriers[r] + 1
  BY <1>1 DEF PInv, LInv, LifecycleTypeOK
<1>3. k < Len(m) /\ Barred(m, ex, k + 1)
  BY <1>1, CreatingInCommon
<1>4. /\ Placed(m, ex, k, r) /\ Holds(m, ex, k, r) /\ Launched(m, ex, k, r) /\ k \in 0 .. Len(m)
      /\ Len(m) \in Nat /\ k \in Nat /\ BarriersTo(m, ex, k) \in Nat /\ barriers[r] \in Nat
  BY Turn
<1>5. Placed(m, ex, k, r)'
  <2>1. barriers'[r] = BarriersTo(m, ex, k) + 1
    BY <1>1, <1>2, <1>3, <1>4 DEF Placed, Extra, Waits
  <2> QED
    BY <1>1, <1>2, <1>3, <1>4, <2>1 DEF Placed, Waits, Extra
<1>6. /\ \A b \in Buffers, key \in Keys :
             tensors'[r][<<b, key>>] = IF b = m[k + 1].buf THEN "zeroed" ELSE tensors[r][<<b, key>>]
      /\ \A i \in 1 .. k : m[i].buf \in Buffers /\
             (m[i].kind = "create" => m[i].buf # m[k + 1].buf)
      /\ m[k + 1].buf \in Buffers
  <2>1. m[k + 1].buf \in Buffers
    <3>1. m[k + 1] \in Calls
      BY <1>3, Turn
    <3> QED
      BY <3>1 DEF Calls
  <2> QED
    BY <1>1, <2>1, TensorsOfCreated
<1>7. Holds(m, ex, k, r)'
  <2> SUFFICES ASSUME NEW i \in 1 .. Len(m), m[i].kind = "create", i <= k \/ i = k + 1, NEW key \in Keys
               PROVE  tensors'[r][<<m[i].buf, key>>] \in {"zeroed", "freed"}
    BY <1>1, <1>2, <1>4 DEF Holds
  <2>1. CASE i <= k
    <3>1. i \in 1 .. k
      BY <1>4, <2>1
    <3> QED
      BY <1>4, <1>6, <2>1, <3>1 DEF Holds
  <2>2. CASE i = k + 1
    BY <1>6, <2>2
  <2> QED
    BY <2>1, <2>2
<1>8. Launched(m, ex, k, r)'
  BY <1>1, <1>2, <1>3, <1>4 DEF Launched
<1>9. \A q \in Ranks : barriers'[q] >= BarriersTo(m, ex, k)
  <2>1. \A q \in Ranks : barriers[q] \in Nat /\ barriers[q] >= BarriersTo(m, ex, k)
    BY Turn
  <2>2. \A q \in Ranks : barriers'[q] >= barriers[q] /\ barriers'[q] \in Nat
    BY HostFrame DEF Host
  <2> QED
    BY <1>4, <2>1, <2>2
<1>10. Along(m, ex, k, r)'
  BY <1>4, <1>5, <1>7, <1>8 DEF Along
<1>11. \A b \in Buffers, key \in Keys : tensors'[r][<<b, key>>] = "freed" => tensors[r][<<b, key>>] = "freed"
  BY <1>6
<1>12. Host(r)
  BY DEF Host
<1> QED
  BY <1>9, <1>10, <1>11, <1>12, HostFrame DEF Moved

-----------------------------------------------------------------------------
\* Rank r returns from a call: it is a call further.
LEMMA ReturnPlaced ==
    ASSUME PInv, NEW m, NEW ex, NEW at, Together(m, ex, at), NEW r \in Ranks,
           NEW k, k = at[r], Return(r), rest[r] # <<>>,
           k = Len(m) => Head(rest[r]).kind = "drop",
           barriers' = barriers,
           r \in initialized' <=> r \in initialized /\ Head(rest[r]).kind # "finalize",
           k < Len(m) => barriers[r] = BarriersTo(m, ex, k + 1)
    PROVE  Placed(m, ex, Ahead(m, k), r)' /\ Ahead(m, k) \in 0 .. Len(m) /\ phase'[r] = "call"
<1>1. /\ m \in Seq(Calls) /\ Len(m) \in Nat /\ k \in 0 .. Len(m) /\ k \in Nat
      /\ rest[r] \in Seq(Calls) /\ barriers[r] \in Nat /\ Placed(m, ex, k, r)
      /\ BarriersTo(m, ex, k) \in Nat
  BY Turn
<1>2. /\ rest'[r] = Tail(rest[r]) /\ phase'[r] = "call" /\ barriers'[r] = barriers[r]
  BY DEF PInv, LInv, LifecycleTypeOK, Return
<1>3. Follows(m, ex, Ahead(m, k), Tail(rest[r]))
  BY <1>1, FollowsTail DEF Placed
<1>4. PICK j : j = Ahead(m, k) /\ j \in 0 .. Len(m) /\ j \in Nat
  BY <1>1 DEF Ahead
<1>5. Follows(m, ex, j, rest'[r])
  BY <1>2, <1>3, <1>4
<1>6. j = Len(m) \/ (j < Len(m) /\ j = k + 1)
  BY <1>1, <1>4 DEF Ahead
<1>7. BarriersTo(m, ex, j) \in Nat /\ Extra(r) \in {0, 1}
  BY <1>4, BarriersNext DEF Extra
<1>8. j < Len(m) => barriers'[r] = BarriersTo(m, ex, j)
  BY <1>1, <1>2, <1>4, <1>6
<1>9. j = Len(m) => barriers'[r] >= BarriersTo(m, ex, j)
  <2>1. CASE k < Len(m)
    <3>1. j = k + 1 /\ barriers'[r] = BarriersTo(m, ex, j)
      BY <1>2, <1>4, <2>1 DEF Ahead
    <3> QED
      BY <1>7, <3>1
  <2>2. CASE k = Len(m)
    <3>1. j = k
      BY <1>4, <2>2 DEF Ahead
    <3> QED
      BY <1>1, <1>2, <1>7, <2>2, <3>1 DEF Placed
  <2> QED
    BY <1>1, <2>1, <2>2
<1>10. r \in initialized' <=> ~Finalized(m, j)
  <2>1. r \in initialized <=> ~Finalized(m, k)
    BY <1>1 DEF Placed
  <2>2. CASE k < Len(m)
    <3>1. j = k + 1 /\ Head(rest[r]) = m[k + 1]
      BY <1>4, <2>2, Turn DEF Ahead
    <3> QED
      BY <1>1, <2>1, <3>1, FinalizedNext
  <2>3. CASE k = Len(m)
    <3>1. j = k /\ Head(rest[r]).kind = "drop"
      BY <1>4, <2>3 DEF Ahead
    <3> QED
      BY <2>1, <3>1
  <2> QED
    BY <1>1, <2>2, <2>3
<1>11. Placed(m, ex, j, r)'
  BY <1>2, <1>5, <1>7, <1>8, <1>9, <1>10 DEF Placed, Waits, Extra
<1> QED
  BY <1>2, <1>4, <1>11

LEMMA CreatedMoves ==
    ASSUME PInv, NEW m, NEW ex, NEW at, Together(m, ex, at), NEW r \in Ranks,
           NEW k, k = at[r], Created(r)
    PROVE  Moved(m, ex, Ahead(m, k), r)
<1>1. /\ phase[r] = "zeroed" /\ phase[r] \in Creating /\ Open(barriers, r) /\ Return(r)
      /\ UNCHANGED <<barriers, tensors, destroyed, inFlight, initialized, alone>>
  BY DEF Created, rendezvous, Creating, group
<1>2. k < Len(m) /\ m[k + 1].kind = "create" /\ Barred(m, ex, k + 1) /\ Ahead(m, k) = k + 1
  BY <1>1, CreatingInCommon DEF Ahead
<1>3. /\ Placed(m, ex, k, r) /\ Holds(m, ex, k, r) /\ Launched(m, ex, k, r) /\ k \in Nat
      /\ Len(m) \in Nat /\ BarriersTo(m, ex, k) \in Nat /\ barriers[r] \in Nat
      /\ BarriersTo(m, ex, k + 1) = BarriersTo(m, ex, k) + 1
      /\ rest[r] # <<>> /\ Head(rest[r]) = m[k + 1]
  BY <1>2, Turn
<1>4. barriers[r] = BarriersTo(m, ex, k + 1)
  BY <1>1, <1>2, <1>3 DEF Placed, Extra, Waits
<1>5. Placed(m, ex, k + 1, r)' /\ k + 1 \in 0 .. Len(m) /\ phase'[r] = "call"
  BY <1>1, <1>2, <1>3, <1>4, ReturnPlaced
<1>6. \A b : EndedIn(m, ex, k + 1, b) <=> EndedIn(m, ex, k, b)
  BY <1>2, <1>3, EndedNext DEF Ends
<1>7. Holds(m, ex, k + 1, r)'
  <2>1. \A i \in 1 .. Len(m) : i <= k + 1 => i <= k \/ (i = k + 1 /\ phase[r] = "zeroed")
    BY <1>1, <1>3
  <2>2. \A i \in 1 .. Len(m) : m[i].kind = "create" /\ i <= k + 1 =>
            \A key \in Keys : tensors[r][<<m[i].buf, key>>] \in {"zeroed", "freed"}
    BY <1>3, <2>1 DEF Holds
  <2> QED
    BY <1>1, <1>2, <1>3, <1>5, <1>6, <2>2 DEF Holds
<1>8. Launched(m, ex, k + 1, r)'
  <2>1. ASSUME NEW b \in inFlight[r]
        PROVE  ~EndedIn(m, ex, k, b) /\ \E i \in 1 .. (k + 1) : m[i].kind = "create" /\ m[i].buf = b
    <3>1. ~EndedIn(m, ex, k, b) /\ \E i \in 1 .. k : m[i].kind = "create" /\ m[i].buf = b
      BY <1>3 DEF Launched
    <3>2. 1 .. k \subseteq 1 .. (k + 1)
      BY <1>3
    <3> QED
      BY <3>1, <3>2
  <2> QED
    BY <1>1, <1>3, <1>4, <1>5, <1>6, <2>1 DEF Launched
<1>9. \A q \in Ranks : barriers'[q] >= BarriersTo(m, ex, k + 1)
  BY <1>1, <1>4 DEF Open
<1> QED
  BY <1>1, <1>2, <1>5, <1>7, <1>8, <1>9, HostFrame DEF Moved, Along, Host

\* A call of the common program uses a Buffer that was not ended; after it a use raises.
LEMMA UseMoves ==
    ASSUME PInv, NEW m, NEW ex, NEW at, Together(m, ex, at), NEW r \in Ranks,
           NEW k, k = at[r], Use(r)
    PROVE  Moved(m, ex, Ahead(m, k), r)
<1>1. /\ phase[r] = "call" /\ rest[r] # <<>> /\ Head(rest[r]).kind = "use"
      /\ UNCHANGED <<barriers, tensors, destroyed, initialized, alone>>
  BY DEF Use, Calling, rendezvous, objects, group
<1>2. /\ m \in Seq(Calls) /\ Len(m) \in Nat /\ k \in 0 .. Len(m) /\ k \in Nat
      /\ Placed(m, ex, k, r) /\ Holds(m, ex, k, r) /\ Launched(m, ex, k, r)
      /\ BarriersTo(m, ex, k) \in Nat /\ barriers[r] \in Nat
      /\ \A q \in Ranks : barriers[q] >= BarriersTo(m, ex, k)
  BY Turn
<1>3. CASE k < Len(m)
  <2>1. /\ m[k + 1] = Head(rest[r]) /\ k + 1 \in 1 .. Len(m) /\ (k + 1) - 1 = k /\ m[k + 1] \in Calls
        /\ BarriersTo(m, ex, k + 1) =
               BarriersTo(m, ex, k) + IF Barred(m, ex, k + 1) THEN 1 ELSE 0
    BY <1>3, Turn
  <2>2. PICK b : b = Buf(r) /\ b = m[k + 1].buf /\ b \in Buffers /\ ~EndedIn(m, ex, k, b)
    <3>1. ~EndedIn(m, ex, (k + 1) - 1, m[k + 1].buf)
      BY <1>1, <2>1 DEF Together, Common
    <3> QED
      BY <2>1, <3>1 DEF Buf, Calls
  <2>3. ~Ends(m[k + 1], ex) /\ ~Barred(m, ex, k + 1) /\ Ahead(m, k) = k + 1
    BY <1>1, <1>3, <2>1 DEF Ends, Barred, Ahead
  <2>4. ~destroyed[r][b]
    BY <1>2, <1>3, <2>2 DEF Holds
  <2>5. Return(r) /\ inFlight' = [inFlight EXCEPT ![r] = @ \cup {b}]
    BY <2>2, <2>4 DEF Use
  <2>6. BarriersTo(m, ex, k + 1) = BarriersTo(m, ex, k) /\ barriers[r] = BarriersTo(m, ex, k + 1)
    BY <1>1, <1>2, <1>3, <2>1, <2>3 DEF Placed, Extra, Waits
  <2>7. Placed(m, ex, k + 1, r)' /\ k + 1 \in 0 .. Len(m) /\ phase'[r] = "call"
    BY <1>1, <1>3, <2>3, <2>5, <2>6, ReturnPlaced
  <2>8. \A c : EndedIn(m, ex, k + 1, c) <=> EndedIn(m, ex, k, c)
    BY <1>2, <2>3, EndedNext
  <2>9. Holds(m, ex, k + 1, r)'
    <3>1. \A i \in 1 .. Len(m) : m[i].kind = "create" /\ i <= k + 1 => i <= k
      BY <1>1, <1>2, <2>1
    <3> QED
      BY <1>1, <1>2, <1>3, <2>7, <2>8, <3>1 DEF Holds
  <2>10. inFlight'[r] = inFlight[r] \cup {b}
    BY <2>5 DEF PInv
  <2>11. ASSUME NEW c \in inFlight'[r]
         PROVE  ~EndedIn(m, ex, k, c) /\ \E i \in 1 .. (k + 1) : m[i].kind = "create" /\ m[i].buf = c
    <3>1. 1 .. k \subseteq 1 .. (k + 1)
      BY <1>2
    <3>2. CASE c \in inFlight[r]
      BY <1>2, <3>1, <3>2 DEF Launched
    <3>3. CASE c = b
      <4>1. \E i \in 1 .. ((k + 1) - 1) : m[i].kind = "create" /\ m[i].buf = m[k + 1].buf
        <5>1. Common(m, ex) /\ m[k + 1].kind # "create"
          BY <1>1, <2>1 DEF Together
        <5> QED
          BY <2>1, <5>1, CommonCall
      <4> QED
        BY <2>1, <2>2, <3>1, <3>3, <4>1
    <3> QED
      BY <2>10, <3>2, <3>3
  <2>12. Launched(m, ex, k + 1, r)'
    BY <1>1, <1>2, <2>6, <2>7, <2>8, <2>11 DEF Launched
  <2>13. \A q \in Ranks : barriers'[q] >= BarriersTo(m, ex, k + 1)
    BY <1>1, <1>2, <2>6
  <2> QED
    BY <1>1, <2>3, <2>7, <2>9, <2>12, <2>13, HostFrame DEF Moved, Along, Host
<1>4. CASE k = Len(m)
  <2>1. destroyed[r][Buf(r)] /\ Ahead(m, k) = k
    <3>1. CollectsNow(r)
      BY <1>1, <1>4, TurnPast
    <3>2. Ahead(m, k) = k
      BY <1>2, <1>4 DEF Ahead
    <3> QED
      BY <1>1, <1>4, <3>1, <3>2 DEF Buf, CollectsNow
  <2>2. Raise(r) /\ inFlight' = inFlight
    BY <2>1 DEF Use
  <2>3. PICK order \in Bijection(1 .. Cardinality(Alive(r)), Alive(r)) :
            rest' = [rest EXCEPT ![r] =
                [i \in DOMAIN order |-> [kind |-> "drop", buf |-> order[i]]]]
    BY <2>2 DEF Raise
  <2>4. phase'[r] = "call" /\ rest'[r] = [i \in DOMAIN order |-> [kind |-> "drop", buf |-> order[i]]]
    BY <2>2, <2>3 DEF PInv, LInv, LifecycleTypeOK, Raise
  <2>5. rest'[r] \in Seq(Calls)
    <3>1. LInv'
      BY HostStep DEF PInv, Host
    <3> QED
      BY <3>1 DEF LInv, LifecycleTypeOK
  <2>6. \A i \in 1 .. Len(rest'[r]) : rest'[r][i].kind = "drop"
    <3>1. DOMAIN rest'[r] = 1 .. Len(rest'[r])
      BY <2>5
    <3> QED
      BY <2>4, <3>1
  <2>7. Follows(m, ex, k, rest'[r])
    BY <1>2, <1>4, <2>5, <2>6, FollowsDrops
  <2>8. Placed(m, ex, k, r)'
    BY <1>1, <1>2, <1>4, <2>4, <2>7 DEF Placed, Extra, Waits
  <2>9. Holds(m, ex, k, r)'
    BY <1>1, <1>2, <1>4, <2>4 DEF Holds
  <2>10. Launched(m, ex, k, r)'
    BY <1>1, <1>2, <1>4, <2>2, <2>4 DEF Launched
  <2>11. \A q \in Ranks : barriers'[q] >= BarriersTo(m, ex, k)
    BY <1>1, <1>2
  <2> QED
    BY <1>1, <1>2, <2>1, <2>8, <2>9, <2>10, <2>11, HostFrame DEF Moved, Along, Host
<1> QED
  BY <1>2, <1>3, <1>4

-----------------------------------------------------------------------------
\* A call that leaves destroyed alone ends no Buffer, and goes to no barrier.
LEMMA NothingToDestroyMoves ==
    ASSUME PInv, NEW m, NEW ex, NEW at, Together(m, ex, at), NEW r \in Ranks,
           NEW k, k = at[r], NothingToDestroy(r)
    PROVE  Moved(m, ex, Ahead(m, k), r)
<1>1. /\ phase[r] = "call" /\ rest[r] # <<>> /\ Return(r)
      /\ UNCHANGED <<barriers, tensors, destroyed, inFlight, initialized, alone>>
  BY DEF NothingToDestroy, Calling, rendezvous, objects, group
<1>2. /\ Len(m) \in Nat /\ k \in 0 .. Len(m) /\ k \in Nat
      /\ Placed(m, ex, k, r) /\ Holds(m, ex, k, r) /\ Launched(m, ex, k, r)
      /\ BarriersTo(m, ex, k) \in Nat /\ barriers[r] \in Nat
      /\ \A q \in Ranks : barriers[q] >= BarriersTo(m, ex, k)
  BY Turn
<1>3. /\ Head(rest[r]).kind \in {"destroy", "drop"}
      /\ destroyed[r][Buf(r)] \/ (Head(rest[r]).kind = "drop" /\ Buf(r) \in ex)
  BY DEF NothingToDestroy, Calling, Together
<1>4. CASE k < Len(m)
  <2>1. /\ m[k + 1] = Head(rest[r]) /\ k + 1 \in 1 .. Len(m) /\ (k + 1) - 1 = k /\ m[k + 1] \in Calls
        /\ BarriersTo(m, ex, k + 1) =
               BarriersTo(m, ex, k) + IF Barred(m, ex, k + 1) THEN 1 ELSE 0
    BY <1>4, Turn
  <2>2. PICK b : b = Buf(r) /\ b = m[k + 1].buf /\ b \in Buffers
    BY <2>1 DEF Buf, Calls
  <2>3. EndedIn(m, ex, k, b) \/ ~Ends(m[k + 1], ex)
    <3>1. CASE destroyed[r][b]
      BY <1>2, <1>4, <2>2, <3>1 DEF Holds
    <3>2. CASE Head(rest[r]).kind = "drop" /\ b \in ex
      BY <2>1, <2>2, <3>2 DEF Ends
    <3> QED
      BY <1>3, <2>2, <3>1, <3>2
  <2>4. ~Barred(m, ex, k + 1) /\ Ahead(m, k) = k + 1
    BY <1>3, <1>4, <2>1, <2>2, <2>3 DEF Barred, Ahead
  <2>5. BarriersTo(m, ex, k + 1) = BarriersTo(m, ex, k) /\ barriers[r] = BarriersTo(m, ex, k + 1)
    BY <1>1, <1>2, <1>4, <2>1, <2>4 DEF Placed, Extra, Waits
  <2>6. Placed(m, ex, k + 1, r)' /\ k + 1 \in 0 .. Len(m) /\ phase'[r] = "call"
    BY <1>1, <1>3, <1>4, <2>4, <2>5, ReturnPlaced
  <2>7. \A c : EndedIn(m, ex, k + 1, c) <=> EndedIn(m, ex, k, c)
    BY <1>2, <2>2, <2>3, EndedNext
  <2>8. Holds(m, ex, k + 1, r)'
    <3>1. \A i \in 1 .. Len(m) : m[i].kind = "create" /\ i <= k + 1 => i <= k
      BY <1>2, <1>3, <2>1
    <3> QED
      BY <1>1, <1>2, <1>4, <2>6, <2>7, <3>1 DEF Holds
  <2>9. ASSUME NEW c \in inFlight[r]
        PROVE  ~EndedIn(m, ex, k, c) /\ \E i \in 1 .. (k + 1) : m[i].kind = "create" /\ m[i].buf = c
    <3>1. 1 .. k \subseteq 1 .. (k + 1)
      BY <1>2
    <3> QED
      BY <1>2, <3>1 DEF Launched
  <2>10. Launched(m, ex, k + 1, r)'
    BY <1>1, <1>2, <2>5, <2>6, <2>7, <2>9 DEF Launched
  <2>11. \A q \in Ranks : barriers'[q] >= BarriersTo(m, ex, k + 1)
    BY <1>1, <1>2, <2>5
  <2> QED
    BY <1>1, <2>4, <2>6, <2>8, <2>10, <2>11, HostFrame DEF Moved, Along, Host
<1>5. CASE k = Len(m)
  <2>1. Head(rest[r]).kind = "drop" /\ Ahead(m, k) = k
    <3>1. CollectsNow(r)
      BY <1>1, <1>5, TurnPast
    <3>2. Ahead(m, k) = k
      BY <1>2, <1>5 DEF Ahead
    <3> QED
      BY <1>1, <1>3, <1>5, <3>1, <3>2 DEF CollectsNow
  <2>2. ~(k < Len(m))
    BY <1>2, <1>5
  <2>3. Placed(m, ex, k, r)' /\ phase'[r] = "call"
    BY <1>1, <2>1, <2>2, ReturnPlaced
  <2>4. Holds(m, ex, k, r)'
    BY <1>1, <1>2, <1>5, <2>3 DEF Holds
  <2>5. Launched(m, ex, k, r)'
    BY <1>1, <1>2, <1>5, <2>3 DEF Launched
  <2>6. \A q \in Ranks : barriers'[q] >= BarriersTo(m, ex, k)
    BY <1>1, <1>2
  <2> QED
    BY <1>1, <1>2, <2>1, <2>3, <2>4, <2>5, <2>6, HostFrame DEF Moved, Along, Host
<1> QED
  BY <1>2, <1>4, <1>5

\* A rank leaves the group: it is in the common program, and ends no Buffer.
LEMMA DestroyGroupMoves ==
    ASSUME PInv, NEW m, NEW ex, NEW at, Together(m, ex, at), NEW r \in Ranks,
           NEW k, k = at[r], DestroyGroup(r)
    PROVE  Moved(m, ex, Ahead(m, k), r)
<1>1. /\ phase[r] = "call" /\ rest[r] # <<>> /\ Head(rest[r]).kind = "finalize" /\ Return(r)
      /\ UNCHANGED <<barriers, tensors, destroyed, inFlight>> /\ r \notin initialized'
  BY DEF DestroyGroup, Calling, rendezvous, objects
<1>2. /\ Len(m) \in Nat /\ k \in 0 .. Len(m) /\ k \in Nat
      /\ Placed(m, ex, k, r) /\ Holds(m, ex, k, r) /\ Launched(m, ex, k, r)
      /\ BarriersTo(m, ex, k) \in Nat /\ barriers[r] \in Nat
      /\ \A q \in Ranks : barriers[q] >= BarriersTo(m, ex, k)
  BY Turn
<1>3. k < Len(m)
  <2>1. k # Len(m)
    BY <1>1, TurnPast DEF CollectsNow
  <2> QED
    BY <1>2, <2>1
<1>4. /\ m[k + 1] = Head(rest[r])
      /\ BarriersTo(m, ex, k + 1) =
             BarriersTo(m, ex, k) + IF Barred(m, ex, k + 1) THEN 1 ELSE 0
  BY <1>3, Turn
<1>5. ~Ends(m[k + 1], ex) /\ ~Barred(m, ex, k + 1) /\ Ahead(m, k) = k + 1
  BY <1>1, <1>3, <1>4 DEF Ends, Barred, Ahead
<1>6. BarriersTo(m, ex, k + 1) = BarriersTo(m, ex, k) /\ barriers[r] = BarriersTo(m, ex, k + 1)
  BY <1>1, <1>2, <1>3, <1>4, <1>5 DEF Placed, Extra, Waits
<1>7. Placed(m, ex, k + 1, r)' /\ k + 1 \in 0 .. Len(m) /\ phase'[r] = "call"
  BY <1>1, <1>3, <1>5, <1>6, ReturnPlaced
<1>8. \A c : EndedIn(m, ex, k + 1, c) <=> EndedIn(m, ex, k, c)
  BY <1>2, <1>5, EndedNext
<1>9. Holds(m, ex, k + 1, r)'
  <2>1. \A i \in 1 .. Len(m) : m[i].kind = "create" /\ i <= k + 1 => i <= k
    BY <1>1, <1>2, <1>4
  <2> QED
    BY <1>1, <1>2, <1>3, <1>7, <1>8, <2>1 DEF Holds
<1>10. ASSUME NEW c \in inFlight[r]
       PROVE  ~EndedIn(m, ex, k, c) /\ \E i \in 1 .. (k + 1) : m[i].kind = "create" /\ m[i].buf = c
  <2>1. 1 .. k \subseteq 1 .. (k + 1)
    BY <1>2
  <2> QED
    BY <1>2, <2>1 DEF Launched
<1>11. Launched(m, ex, k + 1, r)'
  BY <1>1, <1>2, <1>6, <1>7, <1>8, <1>10 DEF Launched
<1>12. \A q \in Ranks : barriers'[q] >= BarriersTo(m, ex, k + 1)
  BY <1>1, <1>2, <1>6
<1> QED
  BY <1>1, <1>5, <1>7, <1>9, <1>11, <1>12, HostFrame DEF Moved, Along, Host

\* A rank goes to the barrier that ends a Buffer, unless it has left the group, and
\* has no kernels left.
LEMMA DestroyMoves ==
    ASSUME PInv, NEW m, NEW ex, NEW at, Together(m, ex, at), NEW r \in Ranks,
           NEW k, k = at[r], Destroy(r)
    PROVE  Moved(m, ex, k, r)
<1>1. /\ phase[r] = "call" /\ rest[r] # <<>> /\ rest' = rest
      /\ phase' = [phase EXCEPT ![r] = "releasing"]
      /\ UNCHANGED <<tensors, destroyed, inFlight, initialized>> /\ inFlight[r] = {}
      /\ barriers' = IF r \in initialized THEN [barriers EXCEPT ![r] = @ + 1] ELSE barriers
      /\ r \notin initialized => <<r, Head(rest[r]).buf>> \in alone'
      /\ ~destroyed[r][Buf(r)]
      /\ Ends(Head(rest[r]), ex)
  BY DEF Destroy, Calling, Goto, Prepares, Arrive, objects, Ends, Buf, Together
<1>2. /\ phase'[r] = "releasing"
      /\ barriers'[r] = barriers[r] + IF r \in initialized THEN 1 ELSE 0
  <2>1. phase \in [Ranks -> Phases] /\ barriers \in [Ranks -> Nat]
    BY DEF PInv, LInv, LifecycleTypeOK
  <2>2. CASE r \in initialized
    BY <1>1, <2>1, <2>2
  <2>3. CASE r \notin initialized
    <3>1. barriers[r] \in Nat
      BY <2>1
    <3> QED
      BY <1>1, <2>1, <2>3, <3>1
  <2> QED
    BY <2>2, <2>3
<1>3. /\ Placed(m, ex, k, r) /\ Holds(m, ex, k, r) /\ Launched(m, ex, k, r) /\ k \in 0 .. Len(m)
      /\ Len(m) \in Nat /\ k \in Nat /\ BarriersTo(m, ex, k) \in Nat /\ barriers[r] \in Nat
  BY Turn
<1>4. ASSUME k < Len(m)
      PROVE  Ends(m[k + 1], ex) /\ (r \in initialized => Barred(m, ex, k + 1))
  <2>1. m[k + 1] = Head(rest[r]) /\ m[k + 1] \in Calls /\ (k + 1) - 1 = k
    BY <1>4, Turn
  <2>2. PICK b : b = Buf(r) /\ b = m[k + 1].buf /\ b \in Buffers
    BY <2>1 DEF Buf, Calls
  <2>3. ~EndedIn(m, ex, k, b)
    BY <1>1, <1>3, <1>4, <2>2 DEF Holds
  <2>4. r \in initialized => ~Finalized(m, k)
    BY <1>3 DEF Placed
  <2> QED
    BY <1>1, <2>1, <2>2, <2>3, <2>4 DEF Barred
<1>5. Extra(r) = 0 /\ Extra(r)' = IF r \in initialized THEN 1 ELSE 0
  BY <1>1, <1>2 DEF Extra, Waits
<1>6. Placed(m, ex, k, r)'
  <2>1. k < Len(m) => barriers'[r] = BarriersTo(m, ex, k) + Extra(r)'
    BY <1>2, <1>3, <1>5 DEF Placed
  <2>2. k = Len(m) => barriers'[r] >= BarriersTo(m, ex, k) + Extra(r)'
    BY <1>2, <1>3, <1>5 DEF Placed
  <2>3. Waits(r)' => r \in initialized
    BY <1>1, <1>2 DEF Waits
  <2> QED
    BY <1>1, <1>2, <1>3, <1>4, <2>1, <2>2, <2>3 DEF Placed
<1>7. Holds(m, ex, k, r)'
  BY <1>1, <1>2, <1>3 DEF Holds
<1>8. Launched(m, ex, k, r)'
  BY <1>1, <1>2, <1>3 DEF Launched
<1>9. Host(r)
  BY DEF Host
<1>10. \A q \in Ranks : barriers'[q] >= BarriersTo(m, ex, k)
  <2>1. \A q \in Ranks : barriers[q] \in Nat /\ barriers[q] >= BarriersTo(m, ex, k)
    BY Turn
  <2>2. \A q \in Ranks : barriers'[q] >= barriers[q] /\ barriers'[q] \in Nat
    BY <1>9, HostFrame
  <2> QED
    BY <1>3, <2>1, <2>2
<1> QED
  BY <1>1, <1>3, <1>6, <1>7, <1>8, <1>9, <1>10, HostFrame DEF Moved, Along

\* All ranks are past the barrier of the call that a rank releases a Buffer in.
AllPast(m, ex, k, r) ==
    /\ Ends(m[k + 1], ex) /\ m[k + 1].buf = Buf(r)
    /\ barriers[r] = BarriersTo(m, ex, k + 1)
    /\ \A q \in Ranks : barriers[q] >= BarriersTo(m, ex, k + 1)

\* What it releases then, no kernel of any rank reaches into any more, unless it does
\* so outside of the group.
LEMMA ReleasingInCommon ==
    ASSUME PInv, NEW m, NEW ex, NEW at, Together(m, ex, at), NEW r \in Ranks,
           NEW k, k = at[r], Releasing(r)
    PROVE  /\ NobodyUses(m, ex, Buf(r)) \/ <<r, Buf(r)>> \in alone
           /\ inFlight[r] = {} /\ rest[r] # <<>>
           /\ Head(rest[r]).kind \in {"destroy", "drop"}
           /\ k < Len(m) => AllPast(m, ex, k, r)
           /\ k = Len(m) => Head(rest[r]).kind = "drop"
<1>1. /\ Len(m) \in Nat /\ k \in 0 .. Len(m) /\ k \in Nat
      /\ Placed(m, ex, k, r) /\ Launched(m, ex, k, r)
      /\ BarriersTo(m, ex, k) \in Nat
      /\ \A q \in Ranks : barriers[q] \in Nat /\ barriers[q] >= BarriersTo(m, ex, k)
  BY Turn
<1>2. /\ rest[r] # <<>> /\ Head(rest[r]).kind \in {"destroy", "drop"}
      /\ phase[r] = "releasing"
  BY DEF PInv, LInv, OrderlyRank, PhaseOfCall, Releasing
<1>3. r \in initialized => \A q \in Ranks : barriers[q] >= barriers[r]
  BY DEF Open, Releasing
<1>4. r \notin initialized => <<r, Buf(r)>> \in alone
  BY <1>1, <1>2 DEF Placed, Buf
<1>5. CASE k < Len(m)
  <2>1. /\ m[k + 1] = Head(rest[r]) /\ k + 1 \in 1 .. Len(m) /\ (k + 1) - 1 = k
        /\ BarriersTo(m, ex, k + 1) =
               BarriersTo(m, ex, k) + IF Barred(m, ex, k + 1) THEN 1 ELSE 0
    BY <1>5, Turn
  <2>2. Ends(m[k + 1], ex) /\ m[k + 1].buf = Buf(r)
    BY <1>1, <1>2, <1>5, <2>1 DEF Placed, Buf
  <2>3. Barred(m, ex, k + 1) <=> r \in initialized
    <3>1. ASSUME r \in initialized PROVE Barred(m, ex, k + 1)
      BY <1>1, <1>2, <1>5, <3>1 DEF Placed, Waits
    <3>2. ASSUME r \notin initialized PROVE ~Barred(m, ex, k + 1)
      <4>1. Finalized(m, k)
        BY <1>1, <3>2 DEF Placed
      <4>2. m[k + 1].kind # "create"
        BY <1>2, <2>1
      <4> QED
        BY <2>1, <4>1, <4>2 DEF Barred
    <3> QED
      BY <3>1, <3>2
  <2>4. Extra(r) = IF r \in initialized THEN 1 ELSE 0
    BY <1>2 DEF Extra, Waits
  <2>5. barriers[r] = BarriersTo(m, ex, k + 1)
    BY <1>1, <1>5, <2>1, <2>3, <2>4 DEF Placed
  <2>6. \A q \in Ranks : barriers[q] >= BarriersTo(m, ex, k + 1)
    <3>1. CASE r \in initialized
      BY <1>3, <2>5, <3>1
    <3>2. CASE r \notin initialized
      BY <1>1, <2>1, <2>3, <3>2
    <3> QED
      BY <3>1, <3>2
  <2>7. NobodyUses(m, ex, Buf(r)) \/ <<r, Buf(r)>> \in alone
    <3>1. CASE r \in initialized
      BY <2>1, <2>2, <2>3, <2>6, <3>1 DEF NobodyUses
    <3>2. CASE r \notin initialized
      BY <1>4, <3>2
    <3> QED
      BY <3>1, <3>2
  <2> QED
    BY <1>1, <1>2, <1>5, <2>2, <2>5, <2>6, <2>7 DEF Launched, AllPast
<1>6. CASE k = Len(m)
  <2>1. NobodyUses(m, ex, Buf(r)) \/ <<r, Buf(r)>> \in alone
    <3>1. CASE r \in initialized
      <4>1. barriers[r] >= BarriersTo(m, ex, k) + 1
        BY <1>1, <1>2, <1>6, <3>1 DEF Placed, Extra, Waits
      <4>2. \A q \in Ranks : barriers[q] > BarriersTo(m, ex, Len(m))
        <5> SUFFICES ASSUME NEW q \in Ranks PROVE barriers[q] > BarriersTo(m, ex, k)
          BY <1>6
        <5>1. barriers[q] >= barriers[r] /\ barriers[q] \in Nat /\ barriers[r] \in Nat
          BY <1>1, <1>3, <3>1
        <5> QED
          BY <1>1, <4>1, <5>1
      <4> QED
        BY <4>2 DEF NobodyUses
    <3>2. CASE r \notin initialized
      BY <1>4, <3>2
    <3> QED
      BY <3>1, <3>2
  <2>2. CollectsNow(r)
    BY <1>2, <1>6, TurnPast
  <2>3. ~(k < Len(m))
    BY <1>1, <1>6
  <2> QED
    BY <1>1, <1>2, <1>6, <2>1, <2>2, <2>3 DEF Launched, CollectsNow
<1> QED
  BY <1>1, <1>5, <1>6

LEMMA ReleasesMoves ==
    ASSUME PInv, NEW m, NEW ex, NEW at, Together(m, ex, at), NEW r \in Ranks,
           NEW k, k = at[r], Releases(r)
    PROVE  Moved(m, ex, k, r)
<1>1. /\ phase[r] = "releasing" /\ Releasing(r)
      /\ UNCHANGED <<rest, phase, barriers, destroyed, inFlight, initialized, alone>>
  BY DEF Releases, Release, Releasing, rendezvous, group
<1>2. /\ Placed(m, ex, k, r) /\ Holds(m, ex, k, r) /\ Launched(m, ex, k, r) /\ k \in 0 .. Len(m)
      /\ m \in Seq(Calls) /\ Len(m) \in Nat /\ k \in Nat
      /\ \A q \in Ranks : barriers[q] \in Nat /\ barriers[q] >= BarriersTo(m, ex, k)
  BY Turn
<1>3. NobodyUses(m, ex, Buf(r)) \/ <<r, Buf(r)>> \in alone
  BY <1>1, ReleasingInCommon
<1>4. PICK key \in Keys : tensors' = [tensors EXCEPT ![r][<<Buf(r), key>>] = "freed"]
  BY DEF Releases, Release, FirstOf, Keys
<1>5. \A x \in Buffers \X Keys :
          tensors'[r][x] = IF x = <<Buf(r), key>> THEN "freed" ELSE tensors[r][x]
  BY <1>4 DEF PInv, LInv, LifecycleTypeOK
<1>6. Placed(m, ex, k, r)' /\ Launched(m, ex, k, r)'
  BY <1>1, <1>2 DEF Placed, Launched, Extra, Waits
<1>7. Holds(m, ex, k, r)'
  <2>1. \A i \in 1 .. Len(m) : m[i].buf \in Buffers
    <3>1. \A i \in 1 .. Len(m) : m[i] \in Calls
      BY <1>2
    <3> QED
      BY <3>1 DEF Calls
  <2>2. \A i \in 1 .. Len(m), y \in Keys : <<m[i].buf, y>> \in Buffers \X Keys
    BY <2>1
  <2> QED
    BY <1>1, <1>2, <1>5, <2>2 DEF Holds
<1>8. PICK c : c = Buf(r) /\ (NobodyUses(m, ex, c)' \/ <<r, c>> \in alone')
  <2>1. PICK c : c = Buf(r) /\ (NobodyUses(m, ex, c) \/ <<r, c>> \in alone)
    BY <1>3
  <2>2. NobodyUses(m, ex, c)' \/ <<r, c>> \in alone'
    BY <1>1, <2>1 DEF NobodyUses
  <2> QED
    BY <2>1, <2>2
<1>9. \A b \in Buffers, y \in Keys : tensors'[r][<<b, y>>] = "freed" =>
          tensors[r][<<b, y>>] = "freed" \/ NobodyUses(m, ex, b)' \/ <<r, b>> \in alone'
  <2> SUFFICES ASSUME NEW b \in Buffers, NEW y \in Keys, tensors'[r][<<b, y>>] = "freed",
                      tensors[r][<<b, y>>] # "freed"
               PROVE  NobodyUses(m, ex, b)' \/ <<r, b>> \in alone'
    OBVIOUS
  <2>1. <<b, y>> \in Buffers \X Keys
    OBVIOUS
  <2>2. <<b, y>> = <<Buf(r), key>>
    BY <1>5, <2>1
  <2> QED
    BY <1>8, <2>2
<1>10. Host(r)
  BY DEF Host
<1>11. \A q \in Ranks : barriers'[q] >= BarriersTo(m, ex, k)
  BY <1>1, <1>2
<1>12. Along(m, ex, k, r)'
  BY <1>2, <1>6, <1>7 DEF Along
<1> QED
  BY <1>9, <1>10, <1>11, <1>12, HostFrame DEF Moved

LEMMA DestroyedMoves ==
    ASSUME PInv, NEW m, NEW ex, NEW at, Together(m, ex, at), NEW r \in Ranks,
           NEW k, k = at[r], Destroyed(r)
    PROVE  Moved(m, ex, Ahead(m, k), r)
<1>1. /\ phase[r] = "releasing" /\ Releasing(r) /\ Return(r)
      /\ destroyed' = [destroyed EXCEPT ![r][Buf(r)] = TRUE]
      /\ UNCHANGED <<barriers, tensors, inFlight, initialized, alone>>
  BY DEF Destroyed, Releasing, rendezvous, group
<1>2. /\ Holds(m, ex, k, r) /\ k \in 0 .. Len(m) /\ Len(m) \in Nat /\ k \in Nat
      /\ \A q \in Ranks : barriers[q] \in Nat /\ barriers[q] >= BarriersTo(m, ex, k)
  BY Turn
<1>3. /\ inFlight[r] = {} /\ rest[r] # <<>>
      /\ Head(rest[r]).kind \in {"destroy", "drop"}
      /\ k < Len(m) => AllPast(m, ex, k, r)
      /\ k = Len(m) => Head(rest[r]).kind = "drop"
  BY <1>1, ReleasingInCommon
<1>4. /\ Placed(m, ex, Ahead(m, k), r)' /\ Ahead(m, k) \in 0 .. Len(m) /\ phase'[r] = "call"
  BY <1>1, <1>3, ReturnPlaced DEF AllPast
<1>5. PICK j : j = Ahead(m, k) /\ j \in 0 .. Len(m) /\ j \in Nat
               /\ (k < Len(m) => j = k + 1) /\ (k = Len(m) => j = k)
  BY <1>2 DEF Ahead
<1>6. Placed(m, ex, j, r)'
  BY <1>4, <1>5
<1>7. PICK c : c = Buf(r)
  OBVIOUS
<1>8. \A b \in Buffers : destroyed'[r][b] = (destroyed[r][b] \/ b = c)
  <2>1. destroyed' = [destroyed EXCEPT ![r] = [destroyed[r] EXCEPT ![c] = TRUE]]
    BY <1>1, <1>7
  <2>2. destroyed[r] \in [Buffers -> BOOLEAN] /\ destroyed'[r] = [destroyed[r] EXCEPT ![c] = TRUE]
    BY <2>1 DEF PInv, LInv, LifecycleTypeOK
  <2> QED
    BY <2>2
<1>9. \A b : EndedIn(m, ex, j, b) <=> EndedIn(m, ex, k, b) \/ (k < Len(m) /\ b = c)
  <2>1. CASE k < Len(m)
    BY <1>2, <1>3, <1>5, <1>7, <2>1, EndedNext DEF AllPast
  <2>2. CASE k = Len(m)
    BY <1>2, <1>5, <2>2
  <2> QED
    BY <1>2, <2>1, <2>2
<1>10. Holds(m, ex, j, r)'
  <2>1. \A b \in Buffers : EndedIn(m, ex, j, b) => destroyed'[r][b]
    BY <1>2, <1>8, <1>9 DEF Holds
  <2>2. \A b \in Buffers : j < Len(m) /\ destroyed'[r][b] => EndedIn(m, ex, j, b)
    <3>1. j < Len(m) => k < Len(m)
      BY <1>2, <1>5
    <3> QED
      BY <1>2, <1>8, <1>9, <3>1 DEF Holds
  <2>3. \A i \in 1 .. Len(m) : m[i].kind = "create" /\ i <= j => i <= k
    <3> SUFFICES ASSUME NEW i \in 1 .. Len(m), m[i].kind = "create", i <= j, ~(i <= k) PROVE FALSE
      OBVIOUS
    <3>1. k < Len(m) /\ i = k + 1
      BY <1>2, <1>5
    <3> QED
      BY <1>3, <3>1 DEF Ends, AllPast
  <2> QED
    BY <1>1, <1>2, <1>4, <2>1, <2>2, <2>3 DEF Holds
<1>11. Launched(m, ex, j, r)'
  BY <1>1, <1>3, <1>4 DEF Launched
<1>12. \A q \in Ranks : barriers'[q] >= BarriersTo(m, ex, j)
  <2>1. CASE k < Len(m)
    BY <1>1, <1>3, <1>5, <2>1 DEF AllPast
  <2>2. CASE k = Len(m)
    BY <1>1, <1>2, <1>5, <2>2
  <2> QED
    BY <1>2, <2>1, <2>2
<1>13. Host(r)
  BY DEF Host
<1>14. Along(m, ex, j, r)'
  BY <1>5, <1>6, <1>10, <1>11 DEF Along
<1>15. Moved(m, ex, j, r)
  BY <1>1, <1>12, <1>13, <1>14, HostFrame DEF Moved
<1> QED
  BY <1>5, <1>15
-----------------------------------------------------------------------------
LEMMA InitPInv == Init => PInv
<1> SUFFICES ASSUME Init PROVE PInv
  OBVIOUS
<1>1. LInv
  BY InitLInv
<1>2. barriers \in [Ranks -> Nat] /\ inFlight \in [Ranks -> SUBSET Buffers] /\ failures \in Nat
  BY DEF Init
<1>3. PICK p \in Programs : explicit = p.explicit /\ rest = p.calls
  BY DEF Init
<1>4. PICK m : Common(m, p.explicit) /\ \A r \in Ranks : Follows(m, p.explicit, 0, p.calls[r])
  BY CommonExists
<1>5. PICK ex : ex = p.explicit
  OBVIOUS
<1>6. PICK at : at = [r \in Ranks |-> 0]
  OBVIOUS
<1>7. m \in Seq(Calls) /\ Len(m) \in Nat
  BY <1>4 DEF Common
<1>8. BarriersTo(m, ex, 0) = 0
  <2>1. {i \in 1 .. 0 : Barred(m, ex, i)} = {}
    OBVIOUS
  <2> QED
    BY <2>1, FS_EmptySet DEF BarriersTo
<1>9. \A b : ~EndedIn(m, ex, 0, b)
  BY DEF EndedIn
<1>10. ASSUME NEW r \in Ranks PROVE Along(m, ex, 0, r)
  <2>1. /\ phase[r] = "call" /\ barriers[r] = 0 /\ inFlight[r] = {} /\ r \in initialized
        /\ \A b \in Buffers : ~destroyed[r][b]
    BY DEF Init
  <2>2. Follows(m, ex, 0, rest[r])
    BY <1>3, <1>4, <1>5
  <2>3. Placed(m, ex, 0, r)
    BY <1>8, <2>1, <2>2 DEF Placed, Waits, Extra, Finalized
  <2>4. Holds(m, ex, 0, r)
    <3>1. \A i \in 1 .. Len(m) : ~(i <= 0 \/ (i = 0 + 1 /\ phase[r] = "zeroed"))
      BY <1>7, <2>1
    <3> QED
      BY <1>9, <2>1, <3>1 DEF Holds
  <2>5. Launched(m, ex, 0, r)
    BY <2>1 DEF Launched
  <2> QED
    BY <1>7, <2>3, <2>4, <2>5 DEF Along
<1>11. Together(m, ex, at)
  <2>1. \A r \in Ranks : Along(m, ex, at[r], r)
    BY <1>6, <1>10
  <2>2. \A r, q \in Ranks : barriers[q] >= BarriersTo(m, ex, at[r])
    BY <1>6, <1>8 DEF Init
  <2>3. \A r \in Ranks, b \in Buffers, key \in Keys : tensors[r][<<b, key>>] # "freed"
    BY DEF Init
  <2> QED
    BY <1>3, <1>4, <1>5, <2>1, <2>2, <2>3 DEF Together
<1>12. at \in [Ranks -> Nat]
  BY <1>6
<1> QED
  BY <1>1, <1>2, <1>11, <1>12 DEF PInv

\* An action of one rank's program moves it along.
LEMMA HostTogether ==
    ASSUME PInv, NEW m, NEW ex, NEW at, at \in [Ranks -> Nat], Together(m, ex, at),
           NEW r \in Ranks, Host(r)
    PROVE  \E a : a \in [Ranks -> Nat] /\ Together(m, ex, a)'
<1>1. PICK k : k = at[r] /\ k \in Nat
  OBVIOUS
<1>2. PICK j : j = Ahead(m, k) /\ j \in Nat
  <2>1. Ahead(m, k) \in Nat
    BY <1>1 DEF Ahead
  <2> QED
    BY <2>1
<1>3. Moved(m, ex, k, r) \/ Moved(m, ex, j, r)
  <2>1. CASE EnsureNvshmemInitialized(r)
    BY <1>1, <2>1, EnsureMoves
  <2>2. CASE Allocate(r)
    BY <1>1, <2>2, AllocateMoves
  <2>3. CASE Zero(r)
    BY <1>1, <2>3, ZeroMoves
  <2>4. CASE Created(r)
    BY <1>1, <1>2, <2>4, CreatedMoves
  <2>5. CASE Use(r)
    BY <1>1, <1>2, <2>5, UseMoves
  <2>6. CASE NothingToDestroy(r)
    BY <1>1, <1>2, <2>6, NothingToDestroyMoves
  <2>7. CASE Destroy(r)
    BY <1>1, <2>7, DestroyMoves
  <2>8. CASE Releases(r)
    BY <1>1, <2>8, ReleasesMoves
  <2>9. CASE Destroyed(r)
    BY <1>1, <1>2, <2>9, DestroyedMoves
  <2>10. CASE DestroyGroup(r)
    BY <1>1, <1>2, <2>10, DestroyGroupMoves
  <2> QED
    BY <2>1, <2>2, <2>3, <2>4, <2>5, <2>6, <2>7, <2>8, <2>9, <2>10 DEF Host
<1> QED
  BY <1>1, <1>2, <1>3, StillTogether

\* Kernels that end leave fewer in flight.
LEMMA KernelsEndTogether ==
    ASSUME PInv, NEW m, NEW ex, NEW at, Together(m, ex, at), NEW r \in Ranks, NEW c,
           KernelsEnd(r, c)
    PROVE  Together(m, ex, at)' /\ inFlight' \in [Ranks -> SUBSET Buffers]
<1>1. /\ UNCHANGED <<explicit, rest, phase, barriers, tensors, destroyed, initialized, alone>>
      /\ inFlight' = [inFlight EXCEPT ![r] = @ \ {c}]
  BY DEF KernelsEnd, rendezvous, objects, group
<1>2. inFlight' \in [Ranks -> SUBSET Buffers] /\ \A q \in Ranks : inFlight'[q] \subseteq inFlight[q]
  BY <1>1 DEF PInv
<1>3. ASSUME NEW q \in Ranks PROVE Along(m, ex, at[q], q)'
  <2>1. PICK k : k = at[q] /\ Along(m, ex, k, q)
    BY DEF Together
  <2>2. Placed(m, ex, k, q)' /\ Holds(m, ex, k, q)'
    BY <1>1, <2>1 DEF Along, Placed, Holds, Extra, Waits
  <2>3. Launched(m, ex, k, q)'
    BY <1>1, <1>2, <2>1 DEF Along, Launched
  <2>4. Along(m, ex, k, q)'
    BY <2>1, <2>2, <2>3 DEF Along
  <2> QED
    BY <2>1, <2>4
<1>4. \A b : NobodyUses(m, ex, b) => NobodyUses(m, ex, b)'
  BY <1>1 DEF NobodyUses
<1> QED
  BY <1>1, <1>2, <1>3, <1>4 DEF Together

LEMMA PInvStep == PInv /\ [Next]_vars => PInv'
<1> SUFFICES ASSUME PInv, [Next]_vars PROVE PInv'
  OBVIOUS
<1>1. LInv'
  BY LInvStep DEF PInv
<1>2. ASSUME NEW r \in Ranks, Host(r) PROVE PInv'
  <2>1. failures' = failures
    BY <1>2 DEF Host, Releases, EnsureNvshmemInitialized, Allocate, Zero, Created, Use,
               NothingToDestroy, DestroyGroup, Destroy, Destroyed
  <2>2. failures = 0 => \E m, ex, at : at \in [Ranks -> Nat] /\ Together(m, ex, at)
    BY DEF PInv
  <2>3. failures = 0 => \E m, ex, at : at \in [Ranks -> Nat] /\ Together(m, ex, at)'
    BY <1>2, <2>2, HostTogether
  <2> QED
    BY <1>1, <1>2, <2>1, <2>3, HostFrame DEF PInv
<1>3. ASSUME NEW r \in Ranks, Fails(r) PROVE PInv'
  <2>1. failures' = failures + 1 /\ failures \in Nat
    BY <1>3 DEF Fails, CreateRaises, ReleaseRaises, PInv
  <2>2. failures' \in Nat /\ failures' # 0
    BY <2>1
  <2> QED
    BY <1>1, <1>3, <2>2, HostFrame DEF PInv
<1>4. ASSUME NEW r \in Ranks, NEW b \in Buffers, KernelsEnd(r, b) PROVE PInv'
  <2>1. failures' = failures /\ barriers' = barriers
    BY <1>4 DEF KernelsEnd, rendezvous
  <2>2. inFlight' \in [Ranks -> SUBSET Buffers]
    BY <1>4 DEF KernelsEnd, PInv
  <2>3. failures = 0 => \E m, ex, at : at \in [Ranks -> Nat] /\ Together(m, ex, at)
    BY DEF PInv
  <2>4. failures = 0 => \E m, ex, at : at \in [Ranks -> Nat] /\ Together(m, ex, at)'
    BY <1>4, <2>3, KernelsEndTogether
  <2> QED
    BY <1>1, <2>1, <2>2, <2>4 DEF PInv
<1>5. CASE UNCHANGED vars
  <2>1. /\ failures' = failures /\ barriers' = barriers /\ inFlight' = inFlight
        /\ UNCHANGED <<explicit, rest, phase, tensors, destroyed, initialized, alone>>
    BY <1>5 DEF vars, rendezvous, objects, group
  <2>2. ASSUME NEW m, NEW ex, NEW at, Together(m, ex, at) PROVE Together(m, ex, at)'
    BY <2>1, <2>2 DEF Together, Along, Placed, Holds, Launched, Extra, Waits, NobodyUses
  <2> QED
    BY <1>1, <2>1, <2>2 DEF PInv
<1> QED
  BY <1>2, <1>3, <1>4, <1>5 DEF Next

LEMMA PInvMapped == PInv => PeersMapped
<1> SUFFICES ASSUME PInv, failures = 0, NEW r \in Ranks, NEW q \in Ranks,
                    NEW b \in inFlight[r], NEW key \in Keys,
                    <<q, b>> \notin alone
             PROVE  tensors[q][<<b, key>>] = "zeroed"
  BY DEF PeersMapped
<1>1. PICK m, ex, at : at \in [Ranks -> Nat] /\ Together(m, ex, at)
  BY DEF PInv
<1> QED
  BY <1>1, TogetherMapped DEF PInv

\* While kernels of a Buffer are in flight on one rank, every rank has its tensors
\* mapped and zeroed, but for the ranks that destroyed it after they had destroyed the
\* process group, as long as no creation and no release has raised (api.py: the
\* barriers of _create_context, and of destroy while dist.is_initialized()).
THEOREM PeersStayMapped == Spec => []PeersMapped
<1>1. Init => PInv
  BY InitPInv
<1>2. PInv /\ [Next]_vars => PInv'
  BY PInvStep
<1>3. PInv => PeersMapped
  BY PInvMapped
<1> QED
  BY <1>1, <1>2, <1>3, PTL DEF Spec
=============================================================================
