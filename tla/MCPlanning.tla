----------------------------- MODULE MCPlanning -----------------------------
(***************************************************************************)
(* Routings that load the ranks in opposite ways, so that the counts, the  *)
(* layout and the destinations of one round are wrong in the next.         *)
(***************************************************************************)
EXTENDS Planning

\* The choices of each token are consecutive experts, starting with the first
\* expert of rank h everywhere, or with a different expert on every rank.
AllTo(h) == [r \in Ranks |-> [i \in Slots |->
                (h * ExpertsPerRank + ChoiceOf(i)) % NumExperts]]
Spread == [r \in Ranks |-> [i \in Slots |-> (r + i) % NumExperts]]

SkewedRoutings == {AllTo(0), AllTo(NumRanks - 1), Spread}
=============================================================================
