---------------------------- MODULE MCPermission ----------------------------
(* Values for TLC: one role, two channels. *)
EXTENDS PermissionRuntimeProps, TLC
CONSTANTS r, c1, c2
MCNeeds == (c1 :> {r, Everyone}) @@ (c2 :> {Everyone})
=============================================================================
