------------------------------ MODULE MCExport ------------------------------
(* Values for TLC: two channels with a message each. *)
EXTENDS ExportProps
CONSTANTS a, b
MCPosts == <<a, b>>
=============================================================================
