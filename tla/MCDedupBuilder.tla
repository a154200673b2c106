--------------------------- MODULE MCDedupBuilder ---------------------------
(***************************************************************************)
(* What planning leaves in src_info for some routings of two ranks with    *)
(* three experts, two tokens and three choices each (taken from runs of    *)
(* GlobalPlan): the entries in the rows, -1 for a row of padding or none.  *)
(***************************************************************************)
EXTENDS DedupBuilder

InfoOf(seq) == [l \in Rows |-> IF l < Len(seq) THEN seq[l + 1] ELSE None]

\* Two groups of three, the last choices in the first rows.
Reversed == <<14, 17, 13, 16, 12, 15>>
\* Two groups of three, one of them out of order.
Mixed == <<0, 4, 1, -1, 2, 3, 5>>
\* Three groups of two, from both ranks.
Pairs == <<1, 4, 13, -1, 2, 5, 14>>
\* A group of three, one of two, and a row of its own, with padding between.
Ragged == <<17, -1, 5, 14, 16, -1, 15, -1, 13>>

SomeInfos == {InfoOf(s) : s \in {Reversed, Mixed, Pairs, Ragged}}
=============================================================================
