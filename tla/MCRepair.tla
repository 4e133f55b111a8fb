------------------------------ MODULE MCRepair ------------------------------
(* Values for TLC: a channel of two messages, a forum index, an emoji. *)
EXTENDS RepairProps
CONSTANTS c1, i1, e1, k1, k2
MCCategoryOf == (c1 :> k1) @@ (i1 :> k2)
MCLength == (c1 :> 2)
MCEmojiIn == (<<c1, 2>> :> e1)
=============================================================================
