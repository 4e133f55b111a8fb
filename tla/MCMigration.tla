----------------------------- MODULE MCMigration -----------------------------
(* Values for TLC: two channels of two categories.                         *)
EXTENDS MigrationProps
CONSTANTS c1, c2, k1, k2, e1, e2, p1
MCCategoryOf == [c \in Channel |-> IF c = c1 THEN k1 ELSE k2]
MCHome == [f \in FollowUp |-> c1]
=============================================================================
