----------------------------- MODULE MCCmpReduce -----------------------------
(***************************************************************************)
(* Instances of CmpReduce for TLC: a function with two tests, the second   *)
(* reached when the first succeeds, as in if (x == m1 && x == m2).         *)
(***************************************************************************)
EXTENDS CmpReduce

CONSTANTS A, B, X, Y

Source4 == <<A, B, X, Y>>
Stop == [op |-> "other", to |-> {}]

(* The functions whose two tests are taken from "tests".  The first may    *)
(* also be a loop that retries until it succeeds.                          *)
Func(tests) ==
  {[b \in {A, B, X, Y} |->
      CASE b = A -> [op |-> "test", size |-> t.size, magic |-> t.magic, ne |-> t.ne,
                     stores |-> t.stores, yes |-> B, no |-> retry]
        [] b = B -> [op |-> "test", size |-> u.size, magic |-> u.magic, ne |-> u.ne,
                     stores |-> u.stores, yes |-> Y, no |-> X]
        [] b = X -> [op |-> "other", to |-> {Y}]
        [] OTHER -> Stop] :
     t \in tests, u \in tests, retry \in {A, X}}

Kinds(sizes, magics, stores) ==
  [size : sizes, magic : magics, ne : BOOLEAN, stores : stores]

(* Tests as CmpReduce handles them: no sign bits, no stores, no more than  *)
(* four bytes.                                                             *)
LowMagics == {m \in Word : \A k \in DOMAIN m : m[k] < Half}
PlainFunctions == Func(Kinds({1, 2}, LowMagics, {FALSE}))

(* Tests of up to six bytes, with sign bits and stores.                    *)
RoughFunctions ==
  LET t == [k \in 0 .. (MaxSize - 1) |-> IF k = 1 THEN 1 ELSE 0]
      z == [k \in 0 .. (MaxSize - 1) |-> 0]
  IN  {f \in Func(Kinds({2, 3}, {t, z}, BOOLEAN)) :
         /\ f[A].magic = t
         /\ f[B].magic = z /\ f[B].size = 2 /\ ~f[B].ne /\ ~f[B].stores}

(* Sign bits and no other rough edge.                                      *)
SignedFunctions == Func(Kinds({2}, Word, {FALSE}))
=============================================================================
