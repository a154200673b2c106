----------------------------- MODULE MCStreams -----------------------------
(***************************************************************************)
(* A forward and a backward pass, cut into pieces.                         *)
(***************************************************************************)
EXTENDS Streams

SomePrograms ==
    {<<"dispatch", "prefetch", "combine">>,
     <<"dispatch", "redispatch", "reduce">>,
     <<"dispatch", "combine", "dispatch">>}
=============================================================================
