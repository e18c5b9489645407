----------------------------- MODULE IRFunction ------------------------------
(***************************************************************************)
(* What the passes that rewrite comparisons (src/cmp_reduce/pass.cpp,      *)
(* src/t_fuzz/pass.cpp) see of an LLVM function: basic blocks, each ended  *)
(* by a terminator.  The one kind of terminator they tell from the others  *)
(* is a conditional branch on an (in)equality comparison of an integer     *)
(* loaded from memory with a constant.                                     *)
(***************************************************************************)
EXTENDS Integers

CONSTANTS
  Blocks,     (* the function's basic blocks                               *)
  Start,      (* the one it is entered by                                  *)
  Base,       (* values of a byte: 256 in the code                         *)
  Half,       (* the first byte with its sign bit set: 128 in the code     *)
  MaxSize,    (* bytes of the variable that is compared                    *)
  Functions   (* the functions considered                                  *)

Byte == 0 .. (Base - 1)
Word == [0 .. (MaxSize - 1) -> Byte]

(* if (x == magic) goto yes; else goto no; or, with ne, if (x != magic).   *)
(* "size" is the width of x in bytes.  With "stores", something between    *)
(* the load of x and the comparison stores to x, as in if (x++ == magic).  *)
Test == [op : {"test"}, size : 1 .. MaxSize, magic : Word, ne : BOOLEAN,
         stores : BOOLEAN, yes : Blocks, no : Blocks]

(* Any other end of a block, by the blocks that may follow it.             *)
Other == [op : {"other"}, to : SUBSET Blocks]

Terminator == Test \cup Other

ASSUME FunctionAssumption ==
  /\ Start \in Blocks
  /\ Base \in Nat \ {0}
  /\ Half \in Nat
  /\ MaxSize \in Nat \ {0}
  /\ Functions \subseteq [Blocks -> Terminator]

(* icmp eq: every byte that is compared is equal.                          *)
Equal(word, test) == \A k \in 0 .. (test.size - 1) : word[k] = test.magic[k]

(* br: the first successor when the comparison is true.                    *)
Outcome(word, test) == IF Equal(word, test) # test.ne THEN test.yes ELSE test.no
=============================================================================
