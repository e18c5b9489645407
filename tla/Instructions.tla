---------------------------- MODULE Instructions -----------------------------
(***************************************************************************)
(* What the passes that walk instructions (src/gep_analysis,               *)
(* src/lea_analysis, src/simple_pass) see of an LLVM function: its         *)
(* instructions, numbered in the order inst_begin .. inst_end lists them,  *)
(* each with a kind and operands.                                          *)
(***************************************************************************)
EXTENDS Integers, SequencesExt

CONSTANT Codes  (* the functions considered                                *)

(* Kinds the passes tell apart: allocas of an integer and of another type, *)
(* getelementptr, binary operators, calls and stores.                      *)
Kinds == {"alloca", "slot", "gep", "operator", "call", "store", "other"}

(* An operand is the number of an instruction, a constant, or neither: an  *)
(* argument of the function or a basic block.                              *)
Const == 0
Arg == -1

Instruction == [kind : Kinds, ops : Seq(Int)]

VARIABLE code  (* the instructions by number                               *)

Instrs == DOMAIN code
Operands(i) == {code[i].ops[k] : k \in DOMAIN code[i].ops}
Of(kind) == {i \in Instrs : code[i].kind = kind}

ASSUME CodeAssumption == Codes \subseteq Seq(Instruction)
=============================================================================
