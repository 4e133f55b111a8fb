----------------------------- MODULE MCMessages -----------------------------
(* Values for TLC.                                                         *)
EXTENDS MessagesPhaseProps, TLC

CONSTANTS c1, c2

\* Two workers at once, interrupted and resumed twice; a channel that grows
\* between incremental runs, with a configured concurrency of 0; the two ways to
\* continue one after the other.
MCScenarios ==
    {[runs |-> <<"fresh", "resume", "resume">>, stops |-> 2, slots |-> 2,
      longest |-> c1 :> 1 @@ c2 :> 1],
     [runs |-> <<"fresh", "incremental", "incremental">>, stops |-> 2, slots |-> 0,
      longest |-> c1 :> 2 @@ c2 :> 0],
     [runs |-> <<"fresh", "incremental", "resume">>, stops |-> 1, slots |-> 1,
      longest |-> c1 :> 2 @@ c2 :> 0]}
=============================================================================
