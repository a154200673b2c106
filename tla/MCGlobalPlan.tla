---------------------------- MODULE MCGlobalPlan ----------------------------
(***************************************************************************)
(* Routings for TLC: every token chooses TopK different experts, of all    *)
(* the experts or of those of rank 0 and one other.                        *)
(***************************************************************************)
EXTENDS GlobalPlan

Distinct(c) ==
    \A i, j \in Slots : i # j /\ TokenOf(i) = TokenOf(j) => c[i] # c[j]

RoutingsTo(experts) == [Ranks -> {c \in [Slots -> experts] : Distinct(c)}]

AllRoutings == RoutingsTo(Experts)
FrontRoutings == RoutingsTo(Owned(0) \cup {ExpertsPerRank})
=============================================================================
