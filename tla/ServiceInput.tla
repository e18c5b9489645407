---------------------------- MODULE ServiceInput -----------------------------
(***************************************************************************)
(* What the lines that the sample services read can say.                   *)
(***************************************************************************)
EXTENDS Integers, SequencesExt

CONSTANTS
  Names,                 (* what a line can say for a name                 *)
  Empty,                 (* the empty line                                 *)
  MaxUsers               (* the users there may be                         *)

ASSUME InputAssumption == Empty \in Names /\ MaxUsers \in Nat
=============================================================================
