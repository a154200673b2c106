---------------------------- MODULE MCExpertStep ----------------------------
(***************************************************************************)
(* Plans for three ranks with an expert and two slots each: one of the     *)
(* planner, and shapes of tests/test_grad_reduce.py.  The full weights of  *)
(* a rank are views of the owners' rows, as tests/test_prefetch.py passes  *)
(* them, or a tensor of its own, as tests/test_e2e.py does.                *)
(***************************************************************************)
EXTENDS ExpertStep

\* The slots of rank 0, 1 and 2.
PlanWith(zero, one, two) == [r \in Ranks |-> [b \in Slotted |-> <<zero, one, two>>[r + 1][b + 1]]]

\* The planner's: all tokens choose expert 1, and ranks 0 and 2 compute some.
Skewed ==
    LET a == Alloc([e \in Experts |-> IF e = 1 THEN NumRanks * Cap ELSE 0])
    IN  [r \in Ranks |-> ExpertsToCopy(a, r)]

\* One rank holds an expert twice and its owner holds it too, and rank 2 neither
\* holds nor owns anything that is held; every rank holds an expert of another;
\* no slot is in use.
FanIn == PlanWith(<<1, 1>>, <<1, None>>, <<None, None>>)
Ring == PlanWith(<<None, 2>>, <<0, None>>, <<1, None>>)
Empty == PlanWith(<<None, None>>, <<None, None>>, <<None, None>>)

SomePlans == {Skewed, FanIn, Ring, Empty}
PlannersPlan == {Skewed}

Replicas == [r \in Ranks |-> [e \in Experts |-> r]]

\* Ranks 0 and 1 have views, and rank 2 replicas.
Mixed == [r \in Ranks |-> [e \in Experts |-> IF r < 2 THEN Home(e) ELSE r]]
=============================================================================
