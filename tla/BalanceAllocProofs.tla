------------------------- MODULE BalanceAllocProofs -------------------------
(***************************************************************************)
(* Phase B of planning, for every number of ranks and experts, every       *)
(* capacity, every routing and every interleaving of the CTAs.             *)
(*                                                                         *)
(* The loop of the host and the loops of the CTAs are at every moment on   *)
(* the runs of the functions of PlanAlloc, whose results PlanAllocProofs   *)
(* is about: so what the kernel computes is Alloc of the counts, and no    *)
(* assertion of the host fails.                                            *)
(***************************************************************************)
EXTENDS BalanceAlloc, PlanAllocProofs

-----------------------------------------------------------------------------
(* The quotas. *)

QuotaInv ==
    /\ QuotaTypeOK /\ Routed(counts)
    /\ Paired(counts, balance, z, round)
    /\ RoundsSuffice

LEMMA QuotaInitInv == QuotaInit => QuotaInv
<1> SUFFICES ASSUME QuotaInit PROVE QuotaInv
  OBVIOUS
<1>1. QuotaTypeOK
  BY NumRanksAssumption, InputsAssumption DEF QuotaInit, QuotaTypeOK, Routings, ZeroMatrix
<1>2. Routed(counts)
  <2>1. /\ counts \in [Experts -> 0 .. NumRanks * Cap]
        /\ SumFunction(counts) = NumRanks * Cap
    BY InputsAssumption DEF QuotaInit, Routings
  <2>2. counts \in [Experts -> Nat]
    BY <2>1
  <2> QED
    BY <2>1, <2>2 DEF Routed, SumFunction
<1>3. Paired(counts, balance, z, 0)
  BY <1>2, PairedAtFirst DEF QuotaInit
<1> QED
  BY <1>1, <1>2, <1>3 DEF QuotaInv, QuotaInit, RoundsSuffice

\* A round of the loop is a round of the function.
LEMMA PairMoves ==
    ASSUME QuotaInv, Pair
    PROVE  \E h, u \in Ranks : Moves(balance, z, h, u, balance', z')
<1>1. PICK h \in Ranks, u \in Ranks :
          /\ IsFirstMax(balance, Ranks, h)
          /\ IsFirstMin(balance, Ranks, u)
          /\ z' = [z EXCEPT ![h][u] = -balance[u]]
          /\ balance' = Rebalance(balance, h, u)
  BY DEF Pair
<1>2. PICK r \in Ranks : balance[r] > 0
  BY DEF Pair, LoopGoesOn
<1>3. balance \in [Ranks -> Int] /\ balance[r] <= balance[h]
  BY <1>1 DEF QuotaInv, QuotaTypeOK, IsFirstMax
<1>4. balance[h] > 0
  BY <1>2, <1>3
<1> QED
  BY <1>1, <1>4 DEF Moves

LEMMA QuotaNextInv == QuotaInv /\ QuotaNext => QuotaInv'
<1> SUFFICES ASSUME QuotaInv, QuotaNext PROVE QuotaInv'
  OBVIOUS
<1>1. /\ counts \in [Experts -> Nat] /\ Routed(counts) /\ round \in 0 .. NumRanks
      /\ NumRanks \in Nat /\ Paired(counts, balance, z, round)
  BY NumRanksAssumption DEF QuotaInv, QuotaTypeOK, Routed
<1>2. CASE Pair
  <2>1. PICK h \in Ranks, u \in Ranks : Moves(balance, z, h, u, balance', z')
    BY <1>2, PairMoves
  <2>2. counts' = counts /\ stage = "quotas" /\ stage' = "quotas" /\ round' = round + 1 /\ round < NumRanks
    BY <1>2 DEF Pair, LoopGoesOn
  <2>3. round \in Nat
    BY <1>1
  <2>4. Paired(counts, balance', z', round + 1)
    BY <1>1, <2>1, <2>3, PairedRound
  <2>5. Paired(counts', balance', z', round')
    BY <2>2, <2>4
  <2>6. balance' \in [Ranks -> Int] /\ z' \in [Ranks -> [Ranks -> Int]]
    BY <2>5 DEF Paired
  <2>7. round' \in 0 .. NumRanks
    BY <1>1, <2>2
  <2> QED
    BY <1>1, <2>2, <2>5, <2>6, <2>7 DEF QuotaInv, QuotaTypeOK, RoundsSuffice
<1>3. CASE QuotasDone
  <2>1. UNCHANGED <<counts, balance, z, round>> /\ stage' = "distribute" /\ ~LoopGoesOn
    BY <1>3 DEF QuotasDone
  <2>2. \A r \in Ranks : balance[r] = 0
    BY <1>1, <2>1, PairedAtLast DEF LoopGoesOn
  <2> QED
    BY <2>1, <2>2 DEF QuotaInv, QuotaTypeOK, RoundsSuffice
<1> QED
  BY <1>2, <1>3 DEF QuotaNext

\* Only the stage may change once the quotas are there.
LEMMA QuotaKeptInv ==
    ASSUME QuotaInv, UNCHANGED <<counts, balance, z, round>>,
           stage' = stage \/ (stage # "quotas" /\ stage' \in {"checked", "raised"})
    PROVE  QuotaInv'
BY DEF QuotaInv, QuotaTypeOK, RoundsSuffice

LEMMA QuotaStutterInv == QuotaInv /\ UNCHANGED quotaVars => QuotaInv'
BY QuotaKeptInv DEF quotaVars

LEMMA QuotaSafe == QuotaSpec => []QuotaInv
BY QuotaInitInv, QuotaNextInv, QuotaStutterInv, PTL DEF QuotaSpec

\* Type correctness, for every group, capacity and routing.
THEOREM QuotasTypeCorrect == QuotaSpec => []QuotaTypeOK
<1>1. QuotaInv => QuotaTypeOK
  BY DEF QuotaInv
<1> QED
  BY <1>1, QuotaSafe, PTL

\* No two home groups ever give tokens to the same rank, for every group,
\* capacity and routing: what the size of the dispatch buffer rests on.
THEOREM OneDonorPerRank == QuotaSpec => []SingleDonor
<1>1. QuotaInv => SingleDonor
  BY DEF QuotaInv, Paired, OneDonor, SingleDonor
<1> QED
  BY <1>1, QuotaSafe, PTL

\* NumRanks rounds of the loop (line 382) bring every rank to exactly Cap tokens,
\* whatever the routing.
THEOREM AllRanksFilled == QuotaSpec => []RoundsSuffice
<1>1. QuotaInv => RoundsSuffice
  BY DEF QuotaInv
<1> QED
  BY <1>1, QuotaSafe, PTL

\* A home group gives away only tokens it has, also one that fills another rank
\* with tokens it then has to be given back.
THEOREM DonorsWithinMeans == QuotaSpec => []DonorWithinMeans
<1>1. QuotaInv => DonorWithinMeans
  <2> SUFFICES ASSUME QuotaInv, NEW h \in Ranks
               PROVE  /\ \A u \in Ranks : z[h][u] >= 0
                      /\ SumFunction(z[h]) <= GroupTokens(counts)[h]
    BY DEF DonorWithinMeans
  <2>1. DOMAIN z[h] = Ranks
    BY DEF QuotaInv, QuotaTypeOK
  <2> QED
    BY <2>1 DEF QuotaInv, Paired, Accounts, Given, SumFunction
<1> QED
  BY <1>1, QuotaSafe, PTL

\* A rank that was filled is left alone by all later rounds, though line 388
\* would overwrite its quota.
THEOREM FilledForGood == QuotaSpec => FilledStays
<1>1. QuotaInv /\ [QuotaNext]_quotaVars =>
        [\A h, u \in Ranks : z[h][u] # 0 =>
           /\ z'[h][u] = z[h][u]
           /\ balance'[u] = 0
           /\ z'[u] = z[u]]_quotaVars
  <2> SUFFICES ASSUME QuotaInv, QuotaNext, NEW h \in Ranks, NEW u \in Ranks, z[h][u] # 0
               PROVE  z'[h][u] = z[h][u] /\ balance'[u] = 0 /\ z'[u] = z[u]
    OBVIOUS
  <2>1. balance[u] = 0
    BY DEF QuotaInv, Paired, Filled
  <2>2. CASE QuotasDone
    BY <2>1, <2>2 DEF QuotasDone
  <2>3. CASE Pair
    <3>1. PICK g \in Ranks, v \in Ranks :
              /\ balance[g] > 0 /\ balance[v] < 0
              /\ \A f, w \in Ranks :
                    z'[f][w] = IF f = g /\ w = v THEN -balance[v] ELSE z[f][w]
              /\ \A f \in Ranks : f # g => z'[f] = z[f]
              /\ \A w \in Ranks : w # g /\ w # v => balance'[w] = balance[w]
      <4>1. PICK g \in Ranks, v \in Ranks : Moves(balance, z, g, v, balance', z')
        BY <2>3, PairMoves
      <4> QED
        BY <4>1, RoundEffect DEF QuotaInv
    <3>2. u # g /\ u # v
      BY <2>1, <3>1
    <3> QED
      BY <2>1, <3>1, <3>2
  <2> QED
    BY <2>2, <2>3 DEF QuotaNext
<1> QED
  BY <1>1, QuotaSafe, PTL DEF QuotaSpec, FilledStays

-----------------------------------------------------------------------------
(* The kernel. *)

\* The kernel is launched once the quotas are final.
LaunchedAfterQuotas == \A h \in Ranks : pc[h] # "load" => stage # "quotas"

\* A quota still to be served is one that the host has set, and an entry of the
\* allocation away from home is nonzero only where the host has set a quota.
QuotaBacked ==
    /\ \A h, d \in Ranks : quotas[h][d] # 0 => z[h][d] # 0
    /\ \A e \in Experts, d \in Ranks :
           d # Home(e) /\ alloc[e][d] # 0 => z[Home(e)][d] # 0

\* The rows of an expert are still zero while its home CTA has not loaded them.
Untouched ==
    \A e \in Experts, d \in Ranks : pc[Home(e)] = "load" => alloc[e][d] = 0

\* Before the kernel there is nothing of the quotas in its tables.
Fresh == \A h, d \in Ranks : pc[h] = "load" => quotas[h][d] = 0

\* The host checks an allocation that is final.
CheckedAfterExit == stage \in {"checked", "raised"} => \A h \in Ranks : pc[h] = "exit"

KernelInv ==
    /\ LaunchedAfterQuotas
    /\ CheckedAfterExit
    /\ QuotaBacked
    /\ Untouched
    /\ Fresh
    /\ HomeShare

IInv == QuotaInv /\ TypeOK /\ KernelInv
LEMMA MaxIterNat == MaxIter = Iterations /\ MaxIter \in Nat
BY IterationsNat DEF MaxIter, Iterations

LEMMA InitIInv == Init => IInv
<1> SUFFICES ASSUME Init PROVE IInv
  OBVIOUS
<1>1. QuotaInv
  BY QuotaInitInv DEF Init
<1>2. TypeOK
  BY <1>1, MaxIterNat DEF Init, TypeOK, QuotaInv, ZeroMatrix
<1>3. KernelInv
  BY HomeIsRank DEF Init, QuotaInit, KernelInv, LaunchedAfterQuotas, CheckedAfterExit, QuotaBacked, Untouched,
     Fresh, HomeShare, ZeroMatrix
<1> QED
  BY <1>1, <1>2, <1>3 DEF IInv
-----------------------------------------------------------------------------
\* The host's loop runs before the kernel and leaves its tables alone.
LEMMA HostQuotasInv == IInv /\ HostQuotas => IInv'
<1> SUFFICES ASSUME IInv, HostQuotas PROVE IInv'
  OBVIOUS
<1>1. QuotaInv'
  BY QuotaNextInv DEF IInv, HostQuotas
<1>2. UNCHANGED kernelVars /\ stage = "quotas"
  BY DEF HostQuotas, QuotaNext, Pair, QuotasDone
<1>3. TypeOK'
  BY <1>1, <1>2 DEF IInv, TypeOK, QuotaInv, kernelVars
<1>4. \A h \in Ranks : pc[h] = "load"
  BY <1>2 DEF IInv, KernelInv, LaunchedAfterQuotas
<1>5. KernelInv'
  BY <1>2, <1>4, HomeIsRank DEF HostQuotas, QuotaNext, Pair, QuotasDone, CheckedAfterExit,
     IInv, KernelInv, LaunchedAfterQuotas, QuotaBacked,
     Untouched, Fresh, HomeShare, kernelVars
<1> QED
  BY <1>1, <1>3, <1>5 DEF IInv

LEMMA CheckInv == IInv /\ Check => IInv'
<1> SUFFICES ASSUME IInv, Check PROVE IInv'
  OBVIOUS
<1>1. /\ UNCHANGED <<counts, balance, z, round, kernelVars>>
      /\ stage' \in {"checked", "raised"}
  BY DEF Check
<1>2. QuotaInv'
  <2>1. stage # "quotas"
    BY DEF Check
  <2> QED
    BY <1>1, <2>1, QuotaKeptInv DEF IInv
<1>3. TypeOK'
  BY <1>1, <1>2 DEF IInv, TypeOK, QuotaInv, kernelVars
<1>4. KernelInv'
  BY <1>1 DEF Check, IInv, KernelInv, LaunchedAfterQuotas, CheckedAfterExit, QuotaBacked,
     Untouched, Fresh, HomeShare, kernelVars
<1> QED
  BY <1>2, <1>3, <1>4 DEF IInv

LEMMA LoadRowsInv == ASSUME IInv, NEW h \in Ranks, LoadRows(h) PROVE IInv'
<1>1. /\ stage = "distribute" /\ pc[h] = "load"
      /\ UNCHANGED <<quotaVars, iter>>
      /\ pc' = [pc EXCEPT ![h] = "loop"]
      /\ quotas' = [quotas EXCEPT ![h] = z[h]]
  BY DEF LoadRows
<1>2. \A e \in Experts : Home(e) # h =>
          /\ remaining'[e] = remaining[e]
          /\ alloc'[e] = alloc[e]
  BY DEF LoadRows, Owned
<1>3. \A e \in Experts : Home(e) = h =>
          /\ remaining'[e] = counts[e]
          /\ alloc'[e] = [alloc[e] EXCEPT ![h] = counts[e]]
  BY DEF LoadRows, Owned
<1>4. QuotaInv'
  BY <1>1, QuotaStutterInv DEF IInv
<1>5. /\ counts \in [Experts -> Nat]
      /\ alloc \in [Experts -> [Ranks -> Int]]
      /\ pc \in [Ranks -> {"load", "loop", "exit"}]
      /\ quotas \in [Ranks -> [Ranks -> Int]]
      /\ z \in [Ranks -> [Ranks -> Int]]
  BY DEF IInv, TypeOK, QuotaTypeOK
<1>6. TypeOK'
  <2>1. alloc' \in [Experts -> [Ranks -> Int]] /\ remaining' \in [Experts -> Int]
    BY <1>5 DEF LoadRows, IInv, TypeOK
  <2>2. quotas' \in [Ranks -> [Ranks -> Int]] /\ pc' \in [Ranks -> {"load", "loop", "exit"}]
    BY <1>1, <1>5
  <2> QED
    BY <1>1, <1>4, <2>1, <2>2 DEF TypeOK, QuotaInv, IInv
<1>7. \A e \in Experts : Home(e) = h =>
          \A d \in Ranks : alloc'[e][d] = IF d = h THEN counts[e] ELSE 0
  <2> SUFFICES ASSUME NEW e \in Experts, Home(e) = h, NEW d \in Ranks
               PROVE  alloc'[e][d] = IF d = h THEN counts[e] ELSE 0
    OBVIOUS
  <2>1. alloc[e] \in [Ranks -> Int] /\ alloc[e][d] = 0
    BY <1>1, <1>5 DEF IInv, KernelInv, Untouched
  <2> QED
    BY <1>3, <2>1
<1>8. LaunchedAfterQuotas' /\ CheckedAfterExit' /\ Untouched' /\ Fresh'
  BY <1>1, <1>2, <1>5, HomeIsRank
  DEF CheckedAfterExit, IInv, KernelInv, LaunchedAfterQuotas, Untouched, Fresh, quotaVars
<1>9. QuotaBacked'
  <2>1. z' = z
    BY <1>1 DEF quotaVars
  <2>2. \A g, d \in Ranks : quotas'[g][d] = IF g = h THEN z[h][d] ELSE quotas[g][d]
    BY <1>1, <1>5
  <2>3. ASSUME NEW e \in Experts, NEW d \in Ranks, d # Home(e), alloc'[e][d] # 0
        PROVE  z[Home(e)][d] # 0
    <3>1. Home(e) # h
      BY <1>7, <2>3
    <3> QED
      BY <1>2, <2>3, <3>1 DEF IInv, KernelInv, QuotaBacked
  <2> QED
    BY <2>1, <2>2, <2>3 DEF IInv, KernelInv, QuotaBacked
<1>10. HomeShare'
  <2> SUFFICES ASSUME NEW e \in Experts
               PROVE  /\ pc'[Home(e)] # "load" => remaining'[e] = alloc'[e][Home(e)]
                      /\ \A d \in Ranks : alloc'[e][d] >= 0
    BY DEF HomeShare
  <2>1. CASE Home(e) = h
    <3>1. counts[e] \in Nat
      BY <1>5
    <3>2. \A d \in Ranks : alloc'[e][d] = IF d = h THEN counts[e] ELSE 0
      BY <1>7, <2>1
    <3>3. remaining'[e] = counts[e]
      BY <1>3, <2>1
    <3> QED
      BY <2>1, <3>1, <3>2, <3>3
  <2>2. CASE Home(e) # h
    BY <1>1, <1>2, <1>5, <2>2, HomeIsRank DEF IInv, KernelInv, HomeShare
  <2> QED
    BY <2>1, <2>2
<1> QED
  BY <1>4, <1>6, <1>8, <1>9, <1>10 DEF IInv, KernelInv

LEMMA TakeInv == ASSUME IInv, NEW h \in Ranks, Take(h) PROVE IInv'
<1> DEFINE took(d, e) ==
        IF remaining[e] < quotas[h][d] THEN remaining[e] ELSE quotas[h][d]
<1>1. PICK d \in Ranks, e \in Owned(h) :
        /\ IsFirstMax(quotas[h], Ranks, d)
        /\ alloc' = [alloc EXCEPT ![e] =
                        [@ EXCEPT ![d] = alloc[e][d] + took(d, e),
                                  ![h] = alloc[e][h] - took(d, e)]]
        /\ remaining' = [remaining EXCEPT ![e] = @ - took(d, e)]
        /\ quotas' = [quotas EXCEPT ![h][d] = @ - took(d, e)]
  BY DEF Take, Give, Portion
<1> DEFINE take == took(d, e)
<1>2. /\ pc[h] = "loop" /\ UNCHANGED <<quotaVars, pc>>
      /\ iter[h] < MaxIter /\ iter' = [iter EXCEPT ![h] = @ + 1]
  BY DEF Take, Serving
<1>3. /\ alloc \in [Experts -> [Ranks -> Int]]
      /\ remaining \in [Experts -> Int]
      /\ quotas \in [Ranks -> [Ranks -> Int]]
      /\ iter \in [Ranks -> 0 .. MaxIter]
      /\ e \in Experts /\ Home(e) = h
  BY DEF IInv, TypeOK, Owned
<1>4. remaining[e] = alloc[e][h] /\ alloc[e][h] >= 0
  BY <1>2, <1>3 DEF IInv, KernelInv, HomeShare
<1>5. /\ quotas[h][d] > 0
      /\ take \in Int /\ 0 <= take /\ take <= remaining[e] /\ take <= quotas[h][d]
  <2>1. PICK r \in Ranks : quotas[h][r] > 0
    BY DEF Take, Serving
  <2>2. quotas[h][r] <= quotas[h][d]
    BY <1>1 DEF IsFirstMax
  <2>3. quotas[h][d] > 0
    BY <1>3, <2>1, <2>2
  <2> QED
    BY <1>1, <1>3, <1>4, <2>3
<1>6. QuotaInv'
  BY <1>2, QuotaStutterInv DEF IInv
<1> HIDE DEF took
<1>7. TypeOK'
  <2>1. alloc' \in [Experts -> [Ranks -> Int]]
    BY <1>1, <1>3, <1>5
  <2>2. remaining' \in [Experts -> Int] /\ quotas' \in [Ranks -> [Ranks -> Int]]
    BY <1>1, <1>3, <1>5
  <2>3. iter' \in [Ranks -> 0 .. MaxIter]
    BY <1>2, <1>3, MaxIterNat
  <2> QED
    BY <1>2, <1>6, <2>1, <2>2, <2>3 DEF IInv, TypeOK, QuotaInv
<1>8. \A f \in Experts : f # e => alloc'[f] = alloc[f] /\ remaining'[f] = remaining[f]
  BY <1>1, <1>3
<1>9. \A v \in Ranks : alloc'[e][v] = IF v = h THEN alloc[e][h] - take
                                     ELSE IF v = d THEN alloc[e][d] + take
                                     ELSE alloc[e][v]
  BY <1>1, <1>3
<1>10. remaining'[e] = remaining[e] - take
  BY <1>1, <1>3
<1>11. LaunchedAfterQuotas' /\ CheckedAfterExit' /\ Fresh'
  <2>1. \A g \in Ranks : g # h => quotas'[g] = quotas[g]
    BY <1>1, <1>3
  <2> QED
    BY <1>2, <2>1 DEF IInv, KernelInv, LaunchedAfterQuotas, CheckedAfterExit, Fresh, quotaVars
<1>12. Untouched'
  BY <1>2, <1>3, <1>8, HomeIsRank DEF IInv, KernelInv, Untouched
<1>13. QuotaBacked'
  <2>1. \A g, v \in Ranks : quotas'[g][v] # 0 => quotas[g][v] # 0
    BY <1>1, <1>3, <1>5
  <2>2. z[h][d] # 0
    BY <1>3, <1>5 DEF IInv, KernelInv, QuotaBacked
  <2>3. \A f \in Experts, v \in Ranks :
            v # Home(f) /\ alloc'[f][v] # 0 => alloc[f][v] # 0 \/ (f = e /\ v = d)
    BY <1>3, <1>8, <1>9
  <2>4. z' = z
    BY <1>2 DEF quotaVars
  <2> QED
    BY <2>1, <2>2, <2>3, <2>4, <1>3 DEF IInv, KernelInv, QuotaBacked
<1>14. HomeShare'
  <2> SUFFICES ASSUME NEW f \in Experts
               PROVE  /\ pc'[Home(f)] # "load" => remaining'[f] = alloc'[f][Home(f)]
                      /\ \A v \in Ranks : alloc'[f][v] >= 0
    BY DEF HomeShare
  <2>1. CASE f # e
    BY <1>2, <1>8, <2>1 DEF IInv, KernelInv, HomeShare
  <2>2. CASE f = e
    <3>1. \A v \in Ranks : alloc[e][v] >= 0 /\ alloc[e][v] \in Int
      BY <1>3 DEF IInv, KernelInv, HomeShare
    <3>2. \A v \in Ranks : alloc'[e][v] >= 0
      BY <1>3, <1>4, <1>5, <1>9, <3>1
    <3>3. remaining'[e] = alloc'[e][h]
      BY <1>3, <1>4, <1>9, <1>10
    <3> QED
      BY <1>3, <2>2, <3>2, <3>3
  <2> QED
    BY <2>1, <2>2
<1> QED
  BY <1>6, <1>7, <1>11, <1>12, <1>13, <1>14 DEF IInv, KernelInv

LEMMA ExitInv == ASSUME IInv, NEW h \in Ranks, Exit(h) PROVE IInv'
<1>1. /\ pc[h] = "loop" /\ pc' = [pc EXCEPT ![h] = "exit"]
      /\ UNCHANGED <<quotaVars, alloc, remaining, quotas, iter>>
  BY DEF Exit
<1>2. QuotaInv'
  BY <1>1, QuotaStutterInv DEF IInv
<1>3. pc \in [Ranks -> {"load", "loop", "exit"}]
  BY DEF IInv, TypeOK
<1>4. TypeOK'
  BY <1>1, <1>2, <1>3 DEF IInv, TypeOK, QuotaInv
<1>5. \A g \in Ranks : pc'[g] = "load" <=> pc[g] = "load"
  BY <1>1, <1>3
<1>6. KernelInv'
  BY <1>1, <1>3, <1>5, HomeIsRank DEF IInv, KernelInv, LaunchedAfterQuotas, CheckedAfterExit,
     QuotaBacked, Untouched, Fresh, HomeShare, quotaVars
<1> QED
  BY <1>2, <1>4, <1>6 DEF IInv

LEMMA NextIInv == IInv /\ [Next]_vars => IInv'
<1> SUFFICES ASSUME IInv, [Next]_vars PROVE IInv'
  OBVIOUS
<1>1. CASE UNCHANGED vars
  <2>1. QuotaInv'
    BY <1>1, QuotaStutterInv DEF IInv, vars
  <2> QED
    BY <1>1, <2>1 DEF vars, kernelVars, quotaVars, IInv, TypeOK, QuotaTypeOK, KernelInv,
       LaunchedAfterQuotas, CheckedAfterExit, QuotaBacked, Untouched, Fresh, HomeShare
<1> QED
  BY <1>1, HostQuotasInv, CheckInv, LoadRowsInv, TakeInv, ExitInv DEF Next, CTA
-----------------------------------------------------------------------------
LEMMA SingleHomeHolds == IInv => SingleHome
<1> SUFFICES ASSUME IInv, NEW d \in Ranks,
                    NEW e1 \in RemoteExperts(alloc, d), NEW e2 \in RemoteExperts(alloc, d)
             PROVE  Home(e1) = Home(e2)
  BY DEF SingleHome
<1>1. \A e \in RemoteExperts(alloc, d) : e \in Experts /\ Home(e) # d /\ alloc[e][d] # 0
  BY DEF RemoteExperts, Owned, IInv, TypeOK
<1>2. z[Home(e1)][d] # 0 /\ z[Home(e2)][d] # 0
  BY <1>1 DEF IInv, KernelInv, QuotaBacked
<1> QED
  BY <1>1, <1>2, HomeIsRank DEF IInv, QuotaInv, Paired, OneDonor

\* Type correctness, for every group, capacity and routing.
THEOREM TypeCorrect == Spec => []TypeOK
<1>1. IInv => TypeOK
  BY DEF IInv
<1> QED
  BY <1>1, InitIInv, NextIInv, PTL DEF Spec

\* A home rank gives away only tokens it has: what a CTA believes is left of an
\* expert is what its home rank still computes, and nothing is ever negative.
THEOREM GivesOnlyWhatItHas == Spec => []HomeShare
<1>1. IInv => HomeShare
  BY DEF IInv, KernelInv
<1> QED
  BY <1>1, InitIInv, NextIInv, PTL DEF Spec

\* A rank computes the experts of at most one other home group, under every
\* interleaving of the CTAs: at most 2 * ExpertsPerRank experts have tokens on
\* it, the number of padded segments that NvS makes room for.
THEOREM OneHomeGroupPerRank == Spec => []SingleHome
BY InitIInv, NextIInv, SingleHomeHolds, PTL DEF Spec

-----------------------------------------------------------------------------(* What phase B promises. *)

\* If every token is placed and no rank has more than Cap, each has exactly Cap.
LEMMA LoadsFull ==
    ASSUME NEW c, NEW a \in [Experts -> [Ranks -> Int]],
           SumFunction(c) = NumRanks * Cap, c \in [Experts -> Int], AllocChecks(c, a)
    PROVE  \A d \in Ranks : Load(a, d) = Cap
<1>1. PICK row, t, col, full : /\ row = c
                            /\ t = [d \in Ranks |-> [e \in Experts |-> a[e][d]]]
                            /\ col = [d \in Ranks |-> Load(a, d)]
                            /\ full = [d \in Ranks |-> Cap]
  OBVIOUS
<1>2. \A e \in Experts : row[e] = SumFunctionOnSet(a[e], Ranks)
  <2> SUFFICES ASSUME NEW e \in Experts PROVE row[e] = SumFunctionOnSet(a[e], Ranks)
    OBVIOUS
  <2>1. DOMAIN a[e] = Ranks
    OBVIOUS
  <2> QED
    BY <1>1, <2>1 DEF AllocChecks, Placed, SumFunction
<1>3. \A d \in Ranks : col[d] = SumFunctionOnSet(t[d], Experts)
  BY <1>1 DEF Load, SumFunction
<1>4. /\ \A e \in Experts, d \in Ranks : a[e][d] \in Int
      /\ \A d \in Ranks : \A e \in Experts : t[d][e] = a[e][d]
  BY <1>1
<1>5. SumFunctionOnSet(row, Experts) = SumFunctionOnSet(col, Ranks)
  <2>1. AddedUp(Experts, Ranks, a, t, row, col)
    BY <1>2, <1>3, <1>4, RanksFinite, ExpertsFinite DEF AddedUp
  <2> QED
    BY <2>1, SumTable
<1>6. SumFunctionOnSet(row, Experts) = NumRanks * Cap
  BY <1>1 DEF SumFunction
<1>7. Cap \in Int /\ \A d \in Ranks : full[d] = Cap
  BY <1>1, CapAssumption
<1>8. SumFunctionOnSet(full, Ranks) = NumRanks * Cap
  BY <1>7, SumOverRanks
<1>9. \A d \in Ranks : col[d] \in Int
  <2> SUFFICES ASSUME NEW d \in Ranks PROVE col[d] \in Int
    OBVIOUS
  <2>1. \A e \in Experts : t[d][e] \in Int
    BY <1>1
  <2> QED
    BY <1>3, <2>1, ExpertsFinite, SumInt
<1>10. \A d \in Ranks : col[d] \in Int /\ full[d] \in Int /\ col[d] <= full[d]
  BY <1>1, <1>7, <1>9 DEF AllocChecks
<1>11. SumFunctionOnSet(col, Ranks) = SumFunctionOnSet(full, Ranks)
  BY <1>5, <1>6, <1>8
<1>12. \A d \in Ranks : col[d] = full[d]
  BY <1>10, <1>11, RanksFinite, SumLess
<1> QED
  BY <1>1, <1>7, <1>12

\* What the abstract specification sees.
Seen == IF stage = "checked" THEN alloc ELSE [e \in Experts |-> [d \in Ranks |-> 0]]

\* It adds up in the same way.
LEMMA SameSums == \A f : Promise!SumFunction(f) = SumFunction(f)
BY DEF Promise!SumFunction, Promise!SumFunctionOnSet, Promise!FoldFunctionOnSet,
   Promise!MapThenFoldSet, SumFunction, SumFunctionOnSet, FoldFunctionOnSet, MapThenFoldSet

LEMMA PromiseInit == Init => Promise!Init
<1> SUFFICES ASSUME Init PROVE Promise!Init
  OBVIOUS
<1>1. stage # "checked" /\ SumFunction(counts) = NumRanks * Cap
  BY InputsAssumption DEF Init, QuotaInit, Routings
<1> QED
  BY <1>1, SameSums DEF Promise!Init, Promise!Unallocated, Promise!Experts, Promise!Ranks, Experts, Ranks

LEMMA PromiseStep ==
    ASSUME IInv, SumFunction(counts) = NumRanks * Cap, [Next]_vars
    PROVE  [Promise!Allocate]_<<counts, Seen, stage = "checked">>
<1>1. ASSUME UNCHANGED <<counts, stage>>, stage # "checked" \/ alloc' = alloc
      PROVE  UNCHANGED <<counts, Seen, stage = "checked">>
  BY <1>1 DEF Seen
<1>2. CASE UNCHANGED vars
  BY <1>1, <1>2 DEF vars, quotaVars, kernelVars
<1>3. CASE HostQuotas
  <2>1. stage # "checked" /\ stage' # "checked" /\ counts' = counts
    BY <1>3 DEF HostQuotas, QuotaNext, Pair, QuotasDone
  <2> QED
    BY <2>1 DEF Seen
<1>4. ASSUME NEW h \in Ranks, CTA(h)
      PROVE  [Promise!Allocate]_<<counts, Seen, stage = "checked">>
  <2>1. UNCHANGED quotaVars /\ pc[h] # "exit"
    BY <1>4 DEF CTA, LoadRows, Take, Exit
  <2>2. stage # "checked"
    BY <2>1 DEF IInv, KernelInv, CheckedAfterExit
  <2> QED
    BY <1>1, <2>1, <2>2 DEF quotaVars
<1>5. CASE Check
  <2>1. /\ stage = "distribute" /\ UNCHANGED <<counts, alloc>>
        /\ stage' = IF AllocChecks(counts, alloc) THEN "checked" ELSE "raised"
    BY <1>5 DEF Check, kernelVars
  <2>2. CASE ~AllocChecks(counts, alloc)
    BY <2>1, <2>2 DEF Seen
  <2>3. CASE AllocChecks(counts, alloc)
    <3>1. counts \in [Experts -> Int] /\ alloc \in [Experts -> [Ranks -> Int]]
      BY DEF IInv, QuotaInv, QuotaTypeOK, TypeOK
    <3>2. \A d \in Ranks : Load(alloc, d) = Cap
      BY <2>3, <3>1, LoadsFull
    <3>3. \A e \in Experts : Placed(alloc, e) = counts[e]
      BY <2>3 DEF AllocChecks
    <3>4. \A e \in Experts, d \in Ranks : alloc[e][d] >= 0
      BY DEF IInv, KernelInv, HomeShare
    <3>5. \A d \in Ranks : \A e1, e2 \in RemoteExperts(alloc, d) : Home(e1) = Home(e2)
      BY SingleHomeHolds DEF SingleHome
    <3>6. Promise!Balanced(counts, alloc)
      BY <3>2, <3>3, <3>4, <3>5, SameSums
      DEF Promise!Balanced, Promise!Experts, Promise!Ranks, Promise!Placed, Promise!Load,
          Promise!RemoteExperts, Promise!Owned, Promise!Home,
          Experts, Ranks, Placed, Load, RemoteExperts, Owned, Home
    <3>7. stage' = "checked" /\ Seen' = alloc /\ counts' = counts /\ stage # "checked"
      BY <2>1, <2>3 DEF Seen
    <3>8. Promise!Allocate
      BY <3>1, <3>6, <3>7 DEF Promise!Allocate, Promise!Experts, Promise!Ranks, Experts, Ranks, Seen
    <3> QED
      BY <3>8
  <2> QED
    BY <2>2, <2>3
<1> QED
  BY <1>2, <1>3, <1>4, <1>5 DEF Next

\* Phase B keeps its promise, whatever the interleaving of its CTAs: an allocation
\* that the host accepts places every token, fills every rank to exactly Cap, and
\* lets a rank compute the experts of at most one other home group; and it stays.
THEOREM PromiseKept == Spec => ImplementsAllocation
<1> DEFINE Together == SumFunction(counts) = NumRanks * Cap
<1>1. Init => IInv /\ Together
  BY InitIInv, InputsAssumption DEF Init, QuotaInit, Routings
<1>2. IInv /\ Together /\ [Next]_vars => IInv' /\ Together'
  <2>1. [Next]_vars => counts' = counts
    BY DEF Next, HostQuotas, QuotaNext, Pair, QuotasDone, Check, CTA, LoadRows, Take, Exit,
       vars, quotaVars
  <2> QED
    BY <2>1, NextIInv
<1>3. IInv /\ Together /\ [Next]_vars => [Promise!Allocate]_<<counts, Seen, stage = "checked">>
  BY PromiseStep
<1> HIDE DEF Together
<1> QED
  BY <1>1, <1>2, <1>3, PromiseInit, PTL DEF Spec, ImplementsAllocation, Promise!Spec, Seen
-----------------------------------------------------------------------------
(* What the kernel computes is the function Alloc of the counts. *)
\* The host is at a point of the run of the function Quotas, and then at its end.
OnQuotaRun ==
    /\ stage = "quotas" => QuotaStates(counts)[round] = [balance |-> balance, z |-> z]
    /\ stage # "quotas" => Quotas(counts) = z

\* So is every CTA on the run of the function AllocRows, whatever the others do.
OnTakeRun ==
    \A h \in Ranks :
        /\ pc[h] = "load" => iter[h] = 0
        /\ pc[h] = "loop" => TakeStates(h, counts, z)[iter[h]] =
              [rem   |-> [e \in Owned(h) |-> remaining[e]],
               quota |-> quotas[h],
               rows  |-> [e \in Owned(h) |-> alloc[e]]]
        /\ pc[h] = "exit" =>
              AllocRows(h, counts, z) = [e \in Owned(h) |-> alloc[e]]

LEMMA OnRunInit == Init => OnQuotaRun /\ OnTakeRun
<1> SUFFICES ASSUME Init PROVE OnQuotaRun /\ OnTakeRun
  OBVIOUS
<1>1. QuotaStates(counts)[0] = QuotaStart(counts)
  BY QuotasByRun
<1>2. OnQuotaRun
  BY <1>1 DEF Init, QuotaInit, OnQuotaRun, QuotaStart
<1>3. OnTakeRun
  BY DEF Init, OnTakeRun
<1> QED
  BY <1>2, <1>3

LEMMA OnQuotaRunStep == IInv /\ OnQuotaRun /\ [Next]_vars => OnQuotaRun'
<1> SUFFICES ASSUME IInv, OnQuotaRun, [Next]_vars PROVE OnQuotaRun'
  OBVIOUS
<1>1. ASSUME UNCHANGED quotaVars PROVE OnQuotaRun'
  BY <1>1 DEF OnQuotaRun, quotaVars
<1>2. /\ balance \in [Ranks -> Int] /\ z \in [Ranks -> [Ranks -> Int]]
      /\ round \in 0 .. NumRanks /\ NumRanks \in Nat
  BY NumRanksAssumption DEF IInv, QuotaInv, QuotaTypeOK
<1>3. CASE Pair
  <2>1. PICK h \in Ranks, u \in Ranks :
            /\ IsFirstMax(balance, Ranks, h) /\ IsFirstMin(balance, Ranks, u)
            /\ z' = [z EXCEPT ![h][u] = -balance[u]]
            /\ balance' = Rebalance(balance, h, u)
    BY <1>3 DEF Pair
  <2>2. /\ stage = "quotas" /\ stage' = "quotas" /\ counts' = counts
        /\ round' = round + 1 /\ round < NumRanks
    BY <1>3 DEF Pair, LoopGoesOn
  <2>3. balance[h] > 0
    <3>1. PICK r \in Ranks : balance[r] > 0
      BY <1>3 DEF Pair, LoopGoesOn
    <3> QED
      BY <1>2, <2>1, <3>1 DEF IsFirstMax
  <2>4. QuotaRound([balance |-> balance, z |-> z]) = [balance |-> balance', z |-> z']
    <3>1. QuotaRound([balance |-> balance, z |-> z]) =
              [balance |-> Rebalance(balance, h, u), z |-> [z EXCEPT ![h][u] = -balance[u]]]
      <4>1. balance \in [Ranks -> Int]
        BY <1>2
      <4> QED
        BY <2>1, <2>3, <4>1, QuotaRoundMoves
    <3> QED
      BY <2>1, <3>1
  <2>5. PICK g : g = QuotaStates(counts)
    OBVIOUS
  <2>6. round + 1 \in 1 .. NumRanks /\ (round + 1) - 1 = round
    BY <1>2, <2>2
  <2>7. g[round + 1] = QuotaRound(g[round])
    BY <2>5, <2>6, QuotasByRun
  <2>8. g[round] = [balance |-> balance, z |-> z]
    BY <2>2, <2>5 DEF OnQuotaRun
  <2> QED
    BY <2>2, <2>4, <2>5, <2>7, <2>8 DEF OnQuotaRun
<1>4. CASE QuotasDone
  <2>1. /\ stage = "quotas" /\ stage' = "distribute" /\ ~LoopGoesOn
        /\ UNCHANGED <<counts, balance, z, round>>
    BY <1>4 DEF QuotasDone
  <2>2. PICK g : g = QuotaStates(counts)
    OBVIOUS
  <2>3. PICK s : s = [balance |-> balance, z |-> z]
    OBVIOUS
  <2>4. g[round] = s
    BY <2>1, <2>2, <2>3 DEF OnQuotaRun
  <2>5. g[NumRanks] = s
    <3>1. CASE round < NumRanks
      <4>1. \A r \in Ranks : ~(balance[r] > 0)
        BY <2>1, <3>1 DEF LoopGoesOn
      <4>2. QuotaRound(s) = s
        BY <1>2, <2>3, <4>1, QuotaRoundIdles
      <4>3. \A j \in 1 .. NumRanks : g[j] = QuotaRound(g[j - 1])
        BY <2>2, QuotasByRun
      <4>4. \A j \in 1 .. NumRanks : g[j - 1] = s => g[j] = s
        BY <4>2, <4>3
      <4> QED
        BY <1>2, <2>4, <4>4, RunRests
    <3>2. CASE ~(round < NumRanks)
      <4>1. round = NumRanks
        BY <1>2, <3>2
      <4> QED
        BY <2>4, <4>1
    <3> QED
      BY <3>1, <3>2
  <2>6. Quotas(counts) = g[NumRanks].z
    BY <2>2, QuotasByRun
  <2>7. Quotas(counts) = z
    BY <2>3, <2>5, <2>6
  <2> QED
    BY <2>1, <2>7 DEF OnQuotaRun
<1>5. CASE Check
  <2>1. stage # "quotas" /\ stage' # "quotas" /\ UNCHANGED <<counts, z>>
    BY <1>5 DEF Check
  <2> QED
    BY <2>1 DEF OnQuotaRun
<1> QED
  BY <1>1, <1>3, <1>4, <1>5 DEF Next, HostQuotas, QuotaNext, CTA, LoadRows, Take, Exit, vars

LEMMA OnTakeRunStep == IInv /\ OnTakeRun /\ [Next]_vars => OnTakeRun'
<1> SUFFICES ASSUME IInv, OnTakeRun, [Next]_vars PROVE OnTakeRun'
  OBVIOUS
<1> DEFINE Point(h) == [rem   |-> [e \in Owned(h) |-> remaining[e]],
                        quota |-> quotas[h],
                        rows  |-> [e \in Owned(h) |-> alloc[e]]]
           On(h) == /\ pc[h] = "load" => iter[h] = 0
                    /\ pc[h] = "loop" => TakeStates(h, counts, z)[iter[h]] = Point(h)
                    /\ pc[h] = "exit" => AllocRows(h, counts, z) = Point(h).rows
<1>1. ASSUME UNCHANGED <<counts, z, kernelVars>> PROVE OnTakeRun'
  BY <1>1 DEF OnTakeRun, kernelVars
<1>2. /\ alloc \in [Experts -> [Ranks -> Int]] /\ remaining \in [Experts -> Int]
      /\ quotas \in [Ranks -> [Ranks -> Int]] /\ z \in [Ranks -> [Ranks -> Int]]
      /\ iter \in [Ranks -> 0 .. MaxIter] /\ MaxIter \in Nat
      /\ pc \in [Ranks -> {"load", "loop", "exit"}]
  BY MaxIterNat DEF IInv, TypeOK, QuotaTypeOK
<1>3. CASE HostQuotas
  <2>1. \A h \in Ranks : pc[h] = "load"
    BY <1>3 DEF HostQuotas, QuotaNext, Pair, QuotasDone, IInv, KernelInv, LaunchedAfterQuotas
  <2> QED
    BY <1>3, <2>1 DEF HostQuotas, OnTakeRun, kernelVars
<1>4. CASE Check
  BY <1>1, <1>4 DEF Check
<1>5. ASSUME NEW h \in Ranks, UNCHANGED <<counts, z>>,
             \A g \in Ranks : g # h => pc'[g] = pc[g] /\ iter'[g] = iter[g] /\ quotas'[g] = quotas[g],
             \A e \in Experts : Home(e) # h => alloc'[e] = alloc[e] /\ remaining'[e] = remaining[e],
             NEW g \in Ranks, g # h
      PROVE  /\ pc'[g] = "load" => iter'[g] = 0
             /\ pc'[g] = "loop" => TakeStates(g, counts', z')[iter'[g]] =
                  [rem   |-> [e \in Owned(g) |-> remaining'[e]],
                   quota |-> quotas'[g],
                   rows  |-> [e \in Owned(g) |-> alloc'[e]]]
             /\ pc'[g] = "exit" =>
                  AllocRows(g, counts', z') = [e \in Owned(g) |-> alloc'[e]]
  <2>1. /\ [e \in Owned(g) |-> remaining'[e]] = [e \in Owned(g) |-> remaining[e]]
        /\ [e \in Owned(g) |-> alloc'[e]] = [e \in Owned(g) |-> alloc[e]]
    BY <1>5 DEF Owned
  <2> QED
    BY <1>5, <2>1 DEF OnTakeRun
<1>6. ASSUME NEW h \in Ranks, LoadRows(h) PROVE OnTakeRun'
  <2>1. /\ pc[h] = "load" /\ UNCHANGED <<quotaVars, iter>>
        /\ pc' = [pc EXCEPT ![h] = "loop"] /\ quotas' = [quotas EXCEPT ![h] = z[h]]
        /\ alloc' = [e \in Experts |-> IF e \in Owned(h)
                                       THEN [alloc[e] EXCEPT ![h] = counts[e]]
                                       ELSE alloc[e]]
        /\ remaining' = [e \in Experts |-> IF e \in Owned(h) THEN counts[e] ELSE remaining[e]]
    BY <1>6 DEF LoadRows
  <2>2. \A e \in Owned(h) :
            /\ remaining'[e] = counts[e]
            /\ alloc'[e] = [d \in Ranks |-> IF d = h THEN counts[e] ELSE 0]
    <3> SUFFICES ASSUME NEW e \in Owned(h)
                 PROVE  /\ remaining'[e] = counts[e]
                        /\ alloc'[e] = [d \in Ranks |-> IF d = h THEN counts[e] ELSE 0]
      OBVIOUS
    <3>1. e \in Experts /\ Home(e) = h
      BY DEF Owned
    <3>2. alloc[e] \in [Ranks -> Int] /\ \A d \in Ranks : alloc[e][d] = 0
      BY <1>2, <2>1, <3>1 DEF IInv, KernelInv, Untouched
    <3> QED
      BY <2>1, <3>1, <3>2
  <2>3. iter'[h] = 0 /\ pc'[h] = "loop" /\ quotas'[h] = z[h]
    BY <1>2, <2>1 DEF OnTakeRun
  <2>4. TakeStates(h, counts, z)[0] = TakeStart(h, counts, z)
    BY AllocByRun, MaxIterNat
  <2>5. TakeStart(h, counts, z) = [rem   |-> [e \in Owned(h) |-> remaining'[e]],
                                   quota |-> quotas'[h],
                                   rows  |-> [e \in Owned(h) |-> alloc'[e]]]
    BY <2>2, <2>3 DEF TakeStart
  <2>6. UNCHANGED <<counts, z>>
    BY <2>1 DEF quotaVars
  <2>7. TakeStates(h, counts', z')[iter'[h]] =
            [rem   |-> [e \in Owned(h) |-> remaining'[e]],
             quota |-> quotas'[h],
             rows  |-> [e \in Owned(h) |-> alloc'[e]]]
    BY <2>3, <2>4, <2>5, <2>6
  <2>8. \A g \in Ranks : g # h => pc'[g] = pc[g] /\ iter'[g] = iter[g] /\ quotas'[g] = quotas[g]
    BY <1>2, <2>1
  <2>9. \A e \in Experts : Home(e) # h => alloc'[e] = alloc[e] /\ remaining'[e] = remaining[e]
    BY <2>1 DEF Owned
  <2> QED
    BY <1>5, <2>3, <2>6, <2>7, <2>8, <2>9 DEF OnTakeRun
<1>7. ASSUME NEW h \in Ranks, Take(h) PROVE OnTakeRun'
  <2>1. PICK d \in Ranks, e \in Owned(h) :
            /\ IsFirstMax(quotas[h], Ranks, d) /\ IsFirstMax(remaining, Owned(h), e)
            /\ alloc' = [alloc EXCEPT ![e] = Give(@, d, h, Portion(remaining[e], quotas[h][d]))]
            /\ remaining' = [remaining EXCEPT ![e] = @ - Portion(remaining[e], quotas[h][d])]
            /\ quotas' = [quotas EXCEPT ![h][d] = @ - Portion(remaining[e], quotas[h][d])]
    BY <1>7 DEF Take, MostLeft
  <2>2. /\ pc[h] = "loop" /\ UNCHANGED <<counts, z, pc>>
        /\ iter[h] < MaxIter /\ iter' = [iter EXCEPT ![h] = @ + 1]
    BY <1>7 DEF Take, Serving, quotaVars
  <2>3. quotas[h][d] > 0
    <3>1. PICK r \in Ranks : quotas[h][r] > 0
      BY <1>7 DEF Take, Serving
    <3> QED
      BY <1>2, <2>1, <3>1 DEF IsFirstMax
  <2>4. PICK t : t = Portion(remaining[e], quotas[h][d])
    OBVIOUS
  <2>5. PICK rem, quota, rows : /\ rem = [f \in Owned(h) |-> remaining[f]]
                                /\ quota = quotas[h]
                                /\ rows = [f \in Owned(h) |-> alloc[f]]
    OBVIOUS
  <2>6. e \in Experts /\ Owned(h) \subseteq Experts
    BY DEF Owned
  <2>7. \A f \in Owned(h) : rem[f] = remaining[f] /\ rem[f] \in Int
    BY <1>2, <2>5, <2>6
  <2>8. IsFirstMax(rem, Owned(h), e)
    BY <2>1, <2>7 DEF IsFirstMax
  <2>9. Portion(rem[e], quota[d]) = t
    BY <2>4, <2>5, <2>7
  <2>10. TakeRound(h, [rem |-> rem, quota |-> quota, rows |-> rows]) =
            [rem   |-> [rem EXCEPT ![e] = @ - t],
             quota |-> [quota EXCEPT ![d] = @ - t],
             rows  |-> [rows EXCEPT ![e] = Give(@, d, h, t)]]
    <3>1. quota \in [Ranks -> Int] /\ IsFirstMax(quota, Ranks, d) /\ quota[d] > 0
      BY <1>2, <2>1, <2>3, <2>5
    <3>2. \A f \in Owned(h) : rem[f] \in Int
      BY <2>7
    <3>3. TakeRound(h, [rem |-> rem, quota |-> quota, rows |-> rows]) =
              [rem   |-> [rem EXCEPT ![e] = @ - Portion(rem[e], quota[d])],
               quota |-> [quota EXCEPT ![d] = @ - Portion(rem[e], quota[d])],
               rows  |-> [rows EXCEPT ![e] = Give(@, d, h, Portion(rem[e], quota[d]))]]
      <4>1. RoundMoves(h, rem, quota, rows, d, e)
        BY <2>8, <3>1, <3>2, TakeRoundMoves
      <4> QED
        BY <4>1 DEF RoundMoves
    <3> QED
      BY <2>9, <3>3
  <2>11. /\ [rem EXCEPT ![e] = @ - t] = [f \in Owned(h) |-> remaining'[f]]
         /\ [quota EXCEPT ![d] = @ - t] = quotas'[h]
         /\ [rows EXCEPT ![e] = Give(@, d, h, t)] = [f \in Owned(h) |-> alloc'[f]]
    <3>1. [rem EXCEPT ![e] = @ - t] = [f \in Owned(h) |-> remaining'[f]]
      BY <1>2, <2>1, <2>4, <2>5, <2>6
    <3>2. [quota EXCEPT ![d] = @ - t] = quotas'[h]
      BY <1>2, <2>1, <2>4, <2>5
    <3>3. [rows EXCEPT ![e] = Give(@, d, h, t)] = [f \in Owned(h) |-> alloc'[f]]
      BY <1>2, <2>1, <2>4, <2>5, <2>6
    <3> QED
      BY <3>1, <3>2, <3>3
  <2>12. PICK g : g = TakeStates(h, counts, z)
    OBVIOUS
  <2>13. iter[h] + 1 \in 1 .. MaxIter /\ (iter[h] + 1) - 1 = iter[h] /\ iter'[h] = iter[h] + 1
    <3>1. iter[h] \in 0 .. MaxIter /\ iter'[h] = iter[h] + 1
      BY <1>2, <2>2
    <3>2. PICK i, n : i = iter[h] /\ n = MaxIter /\ n \in Nat /\ i \in 0 .. n /\ i < n
      BY <2>2, <3>1, MaxIterNat
    <3>3. i + 1 \in 1 .. n /\ (i + 1) - 1 = i
      BY <3>2
    <3> QED
      BY <3>1, <3>2, <3>3
  <2>14. g[iter'[h]] = TakeRound(h, g[iter[h]])
    BY <2>12, <2>13, AllocByRun, MaxIterNat
  <2>15. g[iter[h]] = [rem |-> rem, quota |-> quota, rows |-> rows]
    BY <2>2, <2>5, <2>12 DEF OnTakeRun
  <2>16. g[iter'[h]] = [rem   |-> [f \in Owned(h) |-> remaining'[f]],
                        quota |-> quotas'[h],
                        rows  |-> [f \in Owned(h) |-> alloc'[f]]]
    BY <2>10, <2>11, <2>14, <2>15
  <2>17. \A k \in Ranks : k # h => pc'[k] = pc[k] /\ iter'[k] = iter[k] /\ quotas'[k] = quotas[k]
    BY <1>2, <2>1, <2>2
  <2>18. \A f \in Experts : Home(f) # h => alloc'[f] = alloc[f] /\ remaining'[f] = remaining[f]
    BY <1>2, <2>1 DEF Owned
  <2> QED
    BY <1>5, <2>2, <2>12, <2>16, <2>17, <2>18 DEF OnTakeRun
<1>8. ASSUME NEW h \in Ranks, Exit(h) PROVE OnTakeRun'
  <2>1. /\ pc[h] = "loop" /\ pc' = [pc EXCEPT ![h] = "exit"] /\ ~Serving(h)
        /\ UNCHANGED <<quotaVars, alloc, remaining, quotas, iter>>
    BY <1>8 DEF Exit
  <2>2. PICK g : g = TakeStates(h, counts, z)
    OBVIOUS
  <2>3. PICK rem, rows, s : /\ rem = [f \in Owned(h) |-> remaining[f]]
                            /\ rows = [f \in Owned(h) |-> alloc[f]]
                            /\ s = [rem |-> rem, quota |-> quotas[h], rows |-> rows]
    OBVIOUS
  <2>4. g[iter[h]] = s
    BY <2>1, <2>2, <2>3 DEF OnTakeRun
  <2>5. g[MaxIter] = s
    <3>1. CASE iter[h] < MaxIter
      <4>1. \A r \in Ranks : ~(quotas[h][r] > 0)
        BY <2>1, <3>1 DEF Serving
      <4>2. quotas[h] \in [Ranks -> Int]
        BY <1>2
      <4>3. TakeRound(h, s) = s
        BY <2>3, <4>1, <4>2, TakeRoundIdles
      <4>4. \A j \in 1 .. MaxIter : g[j] = TakeRound(h, g[j - 1])
        BY <2>2, AllocByRun, MaxIterNat
      <4>5. \A j \in 1 .. MaxIter : g[j - 1] = s => g[j] = s
        BY <4>3, <4>4
      <4>6. iter[h] \in 0 .. MaxIter
        BY <1>2
      <4> QED
        BY <2>4, <4>5, <4>6, MaxIterNat, RunRests
    <3>2. CASE ~(iter[h] < MaxIter)
      <4>1. PICK i, n : i = iter[h] /\ n = MaxIter /\ n \in Nat /\ i \in 0 .. n
        <5>1. iter[h] \in 0 .. MaxIter
          BY <1>2
        <5> QED
          BY <5>1, MaxIterNat
      <4>2. i = n
        BY <3>2, <4>1
      <4>3. iter[h] = MaxIter
        BY <4>1, <4>2
      <4> QED
        BY <2>4, <4>3
    <3> QED
      BY <3>1, <3>2
  <2>6. AllocRows(h, counts, z) = g[MaxIter].rows
    BY <2>2, AllocByRun, MaxIterNat
  <2>7. AllocRows(h, counts, z) = rows
    BY <2>3, <2>5, <2>6
  <2>8. UNCHANGED <<counts, z>> /\ pc'[h] = "exit"
    BY <1>2, <2>1 DEF quotaVars
  <2>9. \A k \in Ranks : k # h => pc'[k] = pc[k] /\ iter'[k] = iter[k] /\ quotas'[k] = quotas[k]
    BY <1>2, <2>1
  <2> QED
    BY <1>5, <2>1, <2>3, <2>7, <2>8, <2>9 DEF OnTakeRun
<1> QED
  BY <1>1, <1>3, <1>4, <1>6, <1>7, <1>8 DEF Next, CTA, vars, quotaVars

\* When every CTA has left its loop, the allocation is Alloc(counts).
LEMMA FinalAlloc ==
    ASSUME IInv, OnQuotaRun, OnTakeRun, stage # "quotas", \A h \in Ranks : pc[h] = "exit"
    PROVE  alloc = Alloc(counts)
<1>1. Quotas(counts) = z
  BY DEF OnQuotaRun
<1>2. \A h \in Ranks : AllocRows(h, counts, z) = [e \in Owned(h) |-> alloc[e]]
  BY DEF OnTakeRun
<1>3. alloc \in [Experts -> [Ranks -> Int]]
  BY DEF IInv, TypeOK
<1>4. \A e \in Experts : Home(e) \in Ranks /\ e \in Owned(Home(e))
  BY HomeIsRank DEF Owned
<1>5. PICK rows : rows = [h \in Ranks |-> AllocRows(h, counts, z)]
  OBVIOUS
<1>6. \A e \in Experts : rows[Home(e)][e] = alloc[e]
  BY <1>2, <1>4, <1>5
<1>7. Alloc(counts) = [e \in Experts |-> rows[Home(e)][e]]
  BY <1>1, <1>5 DEF Alloc
<1> QED
  BY <1>3, <1>6, <1>7

OnRun == IInv /\ OnQuotaRun /\ OnTakeRun

LEMMA AlwaysOnRun == Spec => []OnRun
<1>1. Init => OnRun
  BY InitIInv, OnRunInit DEF OnRun
<1>2. OnRun /\ [Next]_vars => OnRun'
  BY NextIInv, OnQuotaRunStep, OnTakeRunStep DEF OnRun
<1> QED
  BY <1>1, <1>2, PTL DEF Spec

\* The allocation that the host accepts is Alloc(counts), whatever the interleaving
\* of the CTAs: the ranks compute it independently and agree.
THEOREM SameOnEveryRank == Spec => []Deterministic
<1>1. OnRun => Deterministic
  BY FinalAlloc DEF OnRun, Deterministic, IInv, KernelInv, CheckedAfterExit
<1> QED
  BY <1>1, AlwaysOnRun, PTL

\* Neither assertion of balance_alloc_gpu ever fails: the iterations of the loop
\* are enough for every quota, whatever the routing, and what the host accepts
\* fills every rank.
THEOREM NoAssertionFails ==
    Spec => []/\ stage # "raised"
              /\ stage = "checked" => GoodAlloc(counts, alloc)
<1> DEFINE Fine == /\ stage # "raised"
                   /\ stage = "checked" => GoodAlloc(counts, alloc)
<1>1. Init => Fine
  BY DEF Init, QuotaInit
<1>2. OnRun /\ Fine /\ [Next]_vars => Fine'
  <2> SUFFICES ASSUME OnRun, Fine, [Next]_vars PROVE Fine'
    OBVIOUS
  <2>1. CASE Check
    <3>1. alloc = Alloc(counts)
      BY <2>1, FinalAlloc DEF OnRun, Check
    <3>2. GoodAlloc(counts, alloc)
      BY <3>1, AllocIsGood DEF OnRun, IInv, QuotaInv
    <3>3. AllocChecks(counts, alloc)
      BY <3>2, GoodChecks
    <3>4. stage' = "checked" /\ counts' = counts /\ alloc' = alloc
      BY <2>1, <3>3 DEF Check, kernelVars
    <3> QED
      BY <3>2, <3>4
  <2>2. CASE HostQuotas
    BY <2>2 DEF HostQuotas, QuotaNext, Pair, QuotasDone
  <2>3. CASE \E h \in Ranks : CTA(h)
    <3>1. stage = "distribute" \/ \E h \in Ranks : pc[h] = "loop"
      BY <2>3 DEF CTA, LoadRows, Take, Exit
    <3>2. stage # "checked" /\ stage' = stage
      BY <2>3, <3>1 DEF CTA, LoadRows, Take, Exit, quotaVars, OnRun, IInv, KernelInv, CheckedAfterExit
    <3> QED
      BY <3>2
  <2>4. CASE UNCHANGED vars
    BY <2>4 DEF vars, quotaVars, kernelVars
  <2> QED
    BY <2>1, <2>2, <2>3, <2>4 DEF Next
<1> HIDE DEF Fine
<1>3. Spec => []Fine
  BY <1>1, <1>2, AlwaysOnRun, PTL DEF Spec
<1> QED
  BY <1>3, PTL DEF Fine
=============================================================================
