----------------------------- MODULE MCEPBuffer -----------------------------
(***************************************************************************)
(* Programs of calls for TLC.                                              *)
(***************************************************************************)
EXTENDS EPBuffer

AllTo(h) == [r \in Ranks |-> [i \in Slots |->
                (h * ExpertsPerRank + ChoiceOf(i)) % NumExperts]]
Spread == [r \in Ranks |-> [i \in Slots |-> (r + i) % NumExperts]]
\* The tokens of the ranks meet at expert 0, so that one rank has padding only.
Meet == [r \in Ranks |-> [i \in Slots |-> IF ChoiceOf(i) = 0 THEN 0
                                         ELSE ExpertsPerRank + r]]
SomeRoutings == {AllTo(0), Spread, Meet}

Op1(kind, sync) == [kind |-> kind, sync |-> sync]

\* A forward and a backward pass on one plan; two forward passes; a dispatch
\* whose result is dropped.  Every call leaves its sync out where it may.
Training == <<Op1("fresh", FALSE), Op1("combine", FALSE),
              Op1("reuse", TRUE), Op1("combine", FALSE)>>
TwoForward == <<Op1("fresh", TRUE), Op1("combine", FALSE),
                Op1("fresh", FALSE), Op1("combine", TRUE)>>
Dropped == <<Op1("fresh", FALSE), Op1("reuse", TRUE), Op1("fresh", FALSE),
             Op1("combine", FALSE)>>

SomePrograms ==
    {[ops |-> o, zeroCopy |-> z, weighted |-> w] :
        o \in {Training, TwoForward, Dropped}, z \in BOOLEAN, w \in BOOLEAN}
=============================================================================
