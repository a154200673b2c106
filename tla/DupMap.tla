------------------------------- MODULE DupMap -------------------------------
(***************************************************************************)
(* What the deduplication map builder promises: out of the src_info of a   *)
(* rank, in one step, exactly the groups of its duplicates.  EPBuffer uses *)
(* it in this form; DedupBuilder implements it.                            *)
(***************************************************************************)
EXTENDS PlanLayout

CONSTANT Infos          \* the contents of src_info

VARIABLES
    srcInfo,            \* src_info of the rank
    groups,             \* the groups of dup_groups and dup_loffs
    stage               \* "idle", "building" or "built"

vars == <<srcInfo, groups, stage>>

Init ==
    /\ srcInfo \in Infos
    /\ groups = {}
    /\ stage = "idle"

\* A fresh plan is to get its map, for the src_info that planning left.
Request ==
    /\ stage # "building"
    /\ srcInfo' \in Infos
    /\ groups' = {}
    /\ stage' = "building"

Build ==
    /\ stage = "building"
    /\ groups' = DupGroups(srcInfo)
    /\ stage' = "built"
    /\ UNCHANGED srcInfo

Next == Request \/ Build

\* What is requested is built.
Spec == Init /\ [][Next]_vars /\ WF_vars(Build)
=============================================================================
