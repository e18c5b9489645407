---------------------------- MODULE BranchPasses -----------------------------
(***************************************************************************)
(* The two passes that look at one block after the other for a branch on   *)
(* an equality: TFuzzPass (src/t_fuzz/pass.cpp) makes it go the other way, *)
(* MagicValueExtractPass (src/magic_value_extract/pass.cpp) notes the      *)
(* constant compared with.  With both loaded, each block is given to both  *)
(* in the order they were loaded before the next block is looked at.       *)
(***************************************************************************)
EXTENDS IRFunction, SequencesExt

CONSTANT
  Branching    (* the functions the two passes are given                   *)

(* A block may also branch on another comparison: of floating point        *)
(* numbers, of two variables, or for which is the greater.  (For these     *)
(* passes a test may be of any integer, loaded from memory or not.)        *)
Comparison == [op : {"compare"}, equality : BOOLEAN, yes : Blocks, no : Blocks]

ASSUME BranchingAssumption == Branching \subseteq [Blocks -> Terminator \cup Comparison]

VARIABLES
  compiled,    (* the function as it was compiled                          *)
  rewritten,   (* the function as it is                                    *)
  unseen,      (* the blocks the passes have yet to look at                *)
  fuzzFirst,   (* whether T-Fuzz was loaded before the extraction          *)
  magics       (* the constants noted, with the size of their type         *)

brVars == <<compiled, rewritten, unseen, fuzzFirst, magics>>

BrInit ==
  /\ compiled \in Branching
  /\ rewritten = compiled
  /\ unseen = Blocks
  /\ fuzzFirst \in BOOLEAN
  /\ magics = << >>

IsEquality(f, b) == f[b] \in Test \/ (f[b] \in Comparison /\ f[b].equality)

TFuzz_OnlyEqual(f, b) ==
  IF IsEquality(f, b) /\ (f[b] \in Test => ~f[b].ne)
  THEN [f EXCEPT ![b].yes = f[b].no, ![b].no = f[b].yes] ELSE f
TFuzz(f, b) ==
  IF IsEquality(f, b)
  THEN [f EXCEPT ![b].yes = f[b].no, ![b].no = f[b].yes] ELSE f

Value(test) == [k \in 0 .. test.size - 1 |-> test.magic[k]]
Zero(test) == \A k \in DOMAIN Value(test) : Value(test)[k] = 0

Extract(f, b) ==
  IF f[b] \in Test /\ ~Zero(f[b])
  THEN Append(magics, [size |-> f[b].size, value |-> Value(f[b])]) ELSE magics

RunOnBlock(b) ==
  /\ b \in unseen
  /\ unseen' = unseen \ {b}
  /\ rewritten' = TFuzz(rewritten, b)
  /\ magics' = Extract(IF fuzzFirst THEN rewritten' ELSE rewritten, b)
  /\ UNCHANGED <<compiled, fuzzFirst>>

BrNext == \E b \in Blocks : RunOnBlock(b)
BrDone == unseen = {}

BrSpec == BrInit /\ [][BrNext]_brVars
-----------------------------------------------------------------------------
(* Properties.                                                             *)

(* In whatever order the passes were loaded, every value the program tests *)
(* for is among the magic values, or is zero, and the program takes each   *)
(* test's other branch: with a magic value the one of a mismatch.  Other   *)
(* comparisons for equality have their branches exchanged too, and the     *)
(* rest of the function stays as it was.                                   *)
Turned(branch) == [branch EXCEPT !.yes = branch.no, !.no = branch.yes]
MagicsTurn ==
  \A b \in Blocks \ unseen :
    IF compiled[b] \in Test
    THEN /\ Zero(compiled[b]) \/ \E i \in DOMAIN magics :
              magics[i] = [size |-> compiled[b].size, value |-> Value(compiled[b])]
         /\ \A w \in Word :
              {Outcome(w, compiled[b]), Outcome(w, rewritten[b])} =
                {compiled[b].yes, compiled[b].no}
    ELSE rewritten[b] = IF compiled[b] \in Comparison /\ compiled[b].equality
                        THEN Turned(compiled[b]) ELSE compiled[b]

(* The inductive invariant: the blocks that were looked at, and no others, *)
(* have the branches of their tests exchanged.                             *)
Magic == [size : 1 .. MaxSize, value : UNION {[0 .. n -> Byte] : n \in 0 .. MaxSize - 1}]
BrInv ==
  /\ compiled \in [Blocks -> Terminator \cup Comparison]
  /\ unseen \subseteq Blocks
  /\ fuzzFirst \in BOOLEAN
  /\ magics \in Seq(Magic)
  /\ rewritten = [b \in Blocks |->
       IF IsEquality(compiled, b) /\ b \notin unseen THEN Turned(compiled[b]) ELSE compiled[b]]
  /\ MagicsTurn
=============================================================================
