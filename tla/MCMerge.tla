------------------------------ MODULE MCMerge ------------------------------
(* Values for TLC.                                                         *)
EXTENDS MergeThreadsProps

\* Two threads that grow between incremental runs; a thread that is interrupted
\* and resumed twice; the two ways to continue one after the other.
MCScenarios ==
    {[runs |-> <<"fresh", "incremental", "incremental">>, stops |-> 1, longest |-> <<1, 1>>],
     [runs |-> <<"fresh", "resume", "resume">>, stops |-> 2, longest |-> <<2, 0>>],
     [runs |-> <<"fresh", "incremental", "resume">>, stops |-> 1, longest |-> <<2, 0>>]}
=============================================================================
