--------------------------- MODULE MCPatchEngine ---------------------------
(* Constants for model-checking PatchEngine: one file and one free path.   *)
EXTENDS PatchEngine

CONSTANTS a, b

MCPath == {a, b}
MCInitDisk == (a :> 0) @@ (b :> Absent)

=============================================================================
