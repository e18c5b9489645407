---------------------------- MODULE MCShadowStack ----------------------------
(***************************************************************************)
(* Instances of ShadowStack for TLC: a mapping of 32 words, room for three *)
(* guarded frames, and stacks of up to five frames, so that it overflows.  *)
(***************************************************************************)
EXTENDS ShadowStack

CONSTANTS m, w, a1, a2

OverwritesNoMap == {"overwrite", "mmap fails"}
Concurrent == {"concurrent"}
=============================================================================
