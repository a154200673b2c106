----------------------------- MODULE MCRoutings -----------------------------
(***************************************************************************)
(* All the counts that NumRanks * Cap entries can give, for TLC, which     *)
(* would take too long to pick them out of all functions on the experts.   *)
(***************************************************************************)
EXTENDS PlanAlloc, TLC

\* ways[n][t]: the counts of the experts 0 .. n that add up to t.
AllCounts ==
    LET total == NumRanks * Cap
        last == NumRanks * ExpertsPerRank - 1
        ways[n \in 0 .. last] ==
            [t \in 0 .. total |->
                IF n = 0 THEN {0 :> t}
                ELSE UNION {{(n :> k) @@ c : c \in ways[n - 1][t - k]} : k \in 0 .. t}]
    IN  ways[last][total]
=============================================================================
