------------------------------ MODULE GridSync ------------------------------
(***************************************************************************)
(* The grid-wide barrier of moonep_td/_common.py: grid_sync_kernel and the *)
(* host function launch_grid_sync that launches it.  Every cross-rank      *)
(* barrier of the library runs this kernel twice, on the one counter       *)
(* ctx["grid_sync_bar"] that a Buffer owns for its whole life.             *)
(*                                                                         *)
(* The counter is a 32-bit word.  CTA 0 adds Tag - (NumCTAs - 1) and every *)
(* other CTA adds 1, so that the word is Tag once all of them have arrived;*)
(* a CTA spins until it reads Tag, then writes 0 and exits.                *)
(***************************************************************************)
EXTENDS Integers, FiniteSets

CONSTANTS
    NumCTAs,        \* size of the cooperative grid: max(1, ctx["num_sms"])
    Tag,            \* the top bit of the word, 0x80000000 in the code
    MaxLaunches     \* bound: how many launches of the kernel are explored

ASSUME NumCTAsAssumption == NumCTAs \in Nat \ {0}
ASSUME TagAssumption == Tag \in Nat /\ NumCTAs <= Tag
ASSUME MaxLaunchesAssumption == MaxLaunches \in Nat

VARIABLES
    bar,            \* the word ctx["grid_sync_bar"]
    pc,             \* what each CTA of the current launch does next
    launches        \* launches so far

vars == <<bar, pc, launches>>

CTAs == 0 .. (NumCTAs - 1)

\* The word wraps at twice its top bit.
WordSize == 2 * Tag
AtomicAdd(word, n) == (word + n) % WordSize

\* Mutants of the next operator: CTA 0 does not make up for the others; it makes
\* up for one too many.
ContributionUnadjusted(p) == IF p = 0 THEN Tag ELSE 1
ContributionOneShort(p) == IF p = 0 THEN Tag - NumCTAs ELSE 1

\* What CTA p adds to the word when it arrives.
Contribution(p) == IF p = 0 THEN Tag - (NumCTAs - 1) ELSE 1

\* The counter of a new Buffer is zero and no launch is in flight.
Init ==
    /\ bar = 0
    /\ pc = [p \in CTAs |-> "done"]
    /\ launches = 0

(***************************************************************************)
(* The host enqueues the kernel; the stream starts it once the previous    *)
(* launch has ended, that is once every CTA of it has.                     *)
(***************************************************************************)
Launch ==
    /\ launches < MaxLaunches
    /\ \A p \in CTAs : pc[p] = "done"
    /\ pc' = [p \in CTAs |-> "arrive"]
    /\ launches' = launches + 1
    /\ UNCHANGED bar

\* atomic_add, release.
Arrive(p) ==
    /\ pc[p] = "arrive"
    /\ bar' = AtomicAdd(bar, Contribution(p))
    /\ pc' = [pc EXCEPT ![p] = "spin"]
    /\ UNCHANGED launches

\* The atomic_cas(bar, Tag, Tag) that reads Tag; the others leave the word
\* and the CTA as they are.
Observe(p) ==
    /\ pc[p] = "spin"
    /\ bar = Tag
    /\ pc' = [pc EXCEPT ![p] = "reset"]
    /\ UNCHANGED <<bar, launches>>

\* Mutant of the next operator: the word is left as it is.
NotCleared == bar

\* What a CTA leaves in the word.
Cleared == 0

\* atomic_xchg(bar, 0): every CTA does it, not only the last one to leave.
Reset(p) ==
    /\ pc[p] = "reset"
    /\ bar' = Cleared
    /\ pc' = [pc EXCEPT ![p] = "done"]
    /\ UNCHANGED launches

CTA(p) == Arrive(p) \/ Observe(p) \/ Reset(p)

Next == Launch \/ \E p \in CTAs : CTA(p)

Spec == Init /\ [][Next]_vars

(***************************************************************************)
(* A cooperative launch keeps every CTA resident, so each runs on; and the *)
(* host goes on launching.                                                 *)
(***************************************************************************)
Fairness == WF_vars(Launch) /\ \A p \in CTAs : WF_vars(CTA(p))

FairSpec == Spec /\ Fairness

-----------------------------------------------------------------------------
TypeOK ==
    /\ bar \in 0 .. (WordSize - 1)
    /\ pc \in [CTAs -> {"arrive", "spin", "reset", "done"}]
    /\ launches \in 0 .. MaxLaunches

At(label) == {p \in CTAs : pc[p] = label}

\* The CTAs that have not arrived yet at the launch in flight.
Missing == At("arrive")

\* No CTA gets past the barrier while another has not arrived: the promise
\* of grid_sync_kernel, that what every CTA wrote before it is visible after.
SafeExit == At("reset") \cup At("done") # {} => Missing = {}

\* The counter resets itself between launches, whichever CTA leaves last
\* (test_grad_reduce.py:452 relies on it).
SelfReset == (\A p \in CTAs : pc[p] = "done") => bar = 0

\* The word never passes Tag, so that its arithmetic never wraps, and reads
\* Tag exactly while all have arrived and none has reset it.
TagMeansAll ==
    /\ bar <= Tag
    /\ bar = Tag <=> Missing = {} /\ At("done") = {}

\* A CTA that has not seen Tag when the first one resets the word never sees
\* it: the launch hangs.  Only the CTAs that saw it in time may still exit.
ResetStrandsSpinners ==
    [][\A p \in CTAs : At("done") # {} /\ pc[p] = "spin" => pc'[p] = "spin"]_vars

\* All that the code guarantees of progress: in every launch the barrier opens
\* for some CTA.
SomeCTALeaves == (Missing # {}) ~> (At("done") # {})

\* What test_grad_reduce.py:455 expects of every launch: that it is "proven not
\* to wedge", that is, that all its CTAs exit.
LaunchCompletes == \A p \in CTAs : pc[p] = "spin" ~> pc[p] = "done"
=============================================================================
