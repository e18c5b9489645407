--------------------------- MODULE CmpReduceProofs ---------------------------
(***************************************************************************)
(* Proofs about CmpReduce, for any function, any width of bytes, words and *)
(* variables, whoever writes the variable.                                 *)
(***************************************************************************)
EXTENDS CmpReduce, SequenceTheorems, TLAPS

-----------------------------------------------------------------------------
(* Lemmas about the operators.                                             *)

LEMMA TestFields ==
  ASSUME NEW t \in Terminator, t.op = "test"
  PROVE  /\ t \in Test
         /\ t.size \in 1 .. MaxSize
         /\ t.magic \in Word
         /\ t.ne \in BOOLEAN /\ t.stores \in BOOLEAN
         /\ t.yes \in Blocks /\ t.no \in Blocks
         /\ MatchOf(t) \in Blocks /\ NoMatchOf(t) \in Blocks
  BY DEF Terminator, Test, Other, MatchOf, NoMatchOf

LEMMA HeadIsLabel ==
  ASSUME NEW b \in Blocks
  PROVE  Head0(b) \in Label /\ Head0(b)[1] = b /\ Head0(b)[2] = 0
  BY FunctionAssumption DEF Head0, Label

LEMMA ByteBlockType ==
  ASSUME NEW b \in Blocks, NEW t \in Terminator, t.op = "test",
         NEW k \in 0 .. (t.size - 1), NEW c \in Byte
  PROVE  /\ ByteBlock(b, t, k, c) \in ByteTest
         /\ ByteBlock(b, t, k, c).op = "byte"
         /\ ByteBlock(b, t, k, c).index = k
         /\ ByteBlock(b, t, k, c).const = c
         /\ ByteBlock(b, t, k, c).yes =
              IF k = t.size - 1 THEN Head0(MatchOf(t)) ELSE <<b, k + 1>>
         /\ ByteBlock(b, t, k, c).no = Head0(NoMatchOf(t))
  <1>1. /\ Head0(MatchOf(t)) \in Label /\ Head0(NoMatchOf(t)) \in Label
        /\ t.size \in 1 .. MaxSize
    BY TestFields, HeadIsLabel
  <1>2. k # t.size - 1 => <<b, k + 1>> \in Label
    BY <1>1, FunctionAssumption DEF Label
  <1>3. k \in 0 .. (MaxSize - 1)
    BY <1>1, FunctionAssumption
  <1> QED
    BY <1>1, <1>2, <1>3 DEF ByteBlock, ByteTest

(* A sign extension is a byte again only if there was no sign to extend.   *)
LEMMA SignExtensionOfByte ==
  ASSUME NEW v \in Byte, NEW c \in Byte
  PROVE  /\ SignExtended(v) = c => v = c
         /\ SignExtended(v) # c /\ v = c => c >= Half
  BY FunctionAssumption DEF SignExtended, Byte

(* Which way a comparison goes when it is a match, and when it is not.     *)
LEMMA OutcomeOfMatch ==
  ASSUME NEW t \in Terminator, t.op = "test", NEW w \in Word
  PROVE  Outcome(w, t) = IF Equal(w, t) THEN MatchOf(t) ELSE NoMatchOf(t)
  BY TestFields DEF Outcome, MatchOf, NoMatchOf, Equal

LEMMA OutcomeType ==
  ASSUME NEW t \in Terminator, t.op = "test", NEW w \in Word
  PROVE  Outcome(w, t) \in Blocks
  BY TestFields DEF Outcome

(* The five ends a block of the rewritten function can have, by their tags.*)
LEMMA CodeAt ==
  ASSUME TypeOK, CodeInv, NEW l \in DOMAIN code
  PROVE  LET t == function[l[1]]
         IN  /\ l[1] \in Blocks /\ l[2] \in 0 .. MaxSize /\ l = <<l[1], l[2]>>
             /\ t \in Terminator
             /\ code[l].op = "other" => l[2] = 0 /\ code[l] = t /\ t \in Other
             /\ code[l].op = "test" => l[2] = 0 /\ code[l] = t
             /\ code[l].op = "byte" =>
                  /\ t.op = "test" /\ l[2] \in 0 .. (t.size - 1)
                  /\ <<l[1], l[2] + 1>> \in DOMAIN code
                  /\ \E c \in Byte : /\ l[2] < WordBytes => c = t.magic[l[2]]
                                    /\ code[l] = ByteBlock(l[1], t, l[2], c)
             /\ code[l] = Unreachable => t.op = "test" /\ l[2] = t.size
  <1> DEFINE t == function[l[1]]
  <1>1. l[1] \in Blocks /\ l[2] \in 0 .. MaxSize /\ l = <<l[1], l[2]>>
    BY DEF TypeOK, Label
  <1>2. t \in Terminator
    BY <1>1, FunctionAssumption DEF TypeOK
  <1>3. CASE l[2] = 0 /\ code[l] = t
    BY <1>1, <1>2, <1>3 DEF Terminator, Test, Other, Unreachable
  <1>4. CASE t.op = "test" /\ l[2] = t.size /\ code[l] = Unreachable
    BY <1>1, <1>2, <1>4 DEF Unreachable
  <1>5. CASE /\ t.op = "test" /\ l[2] < t.size
             /\ <<l[1], l[2] + 1>> \in DOMAIN code
             /\ \E c \in Byte : /\ l[2] < WordBytes => c = t.magic[l[2]]
                               /\ code[l] = ByteBlock(l[1], t, l[2], c)
    <2>1. l[2] \in 0 .. (t.size - 1)
      BY <1>1, <1>2, <1>5, TestFields, FunctionAssumption
    <2>2. code[l].op = "byte"
      BY <1>1, <1>2, <1>5, <2>1, ByteBlockType
    <2> QED
      BY <1>1, <1>2, <1>5, <2>1, <2>2 DEF Unreachable
  <1> QED
    BY <1>1, <1>2, <1>3, <1>4, <1>5 DEF CodeInv

-----------------------------------------------------------------------------
(* What a step does to the code.                                           *)

(* The new blocks replace those with their labels, if any, and no others.  *)
LEMMA ChainOverCode ==
  ASSUME NEW b \in Blocks, NEW t \in Terminator, t.op = "test",
         NEW c \in [0 .. (t.size - 1) -> Byte]
  PROVE  LET new == WithChain(b, t, c) IN
         /\ DOMAIN new = ({b} \X (0 .. t.size)) \cup DOMAIN code
         /\ new[<<b, t.size>>] = Unreachable
         /\ \A k \in 0 .. (t.size - 1) : new[<<b, k>>] = ByteBlock(b, t, k, c[k])
         /\ \A l \in DOMAIN code : l \notin {b} \X (0 .. t.size) => new[l] = code[l]
  <1> DEFINE made == {b} \X (0 .. t.size)
             new == WithChain(b, t, c)
  <1>1. DOMAIN Chain(b, t, c) = made
    BY DEF Chain
  <1>2. /\ DOMAIN new = made \cup DOMAIN code
        /\ \A l \in made : new[l] = Chain(b, t, c)[l]
        /\ \A l \in DOMAIN code : l \notin made => new[l] = code[l]
    BY <1>1 DEF WithChain
  <1>3. t.size \in 1 .. MaxSize /\ MaxSize \in Nat
    BY TestFields, FunctionAssumption
  <1>4. \A k \in 0 .. t.size :
          /\ <<b, k>> \in made
          /\ Chain(b, t, c)[<<b, k>>] =
               IF k = t.size THEN Unreachable ELSE ByteBlock(b, t, k, c[k])
    BY <1>3 DEF Chain
  <1> QED
    BY <1>2, <1>3, <1>4

(* What the pass finds and leaves when it rewrites a block.                *)
LEMMA RewriteEffect ==
  ASSUME TypeOK, CodeInv, Rewrite
  PROVE  \E b \in Blocks : \E c \in [0 .. (function[b].size - 1) -> Byte] :
           LET t == function[b]
           IN  /\ Head(todo) = Head0(b) /\ Head0(b) \in DOMAIN code /\ code[Head0(b)] = t
               /\ t \in Terminator /\ t.op = "test" /\ Rewritable(t)
               /\ \A k \in 0 .. (t.size - 1) : k < WordBytes => c[k] = t.magic[k]
               /\ code' = WithChain(b, t, c)
               /\ phi' = Redirected(b, t.size)
               /\ todo' = [k \in 1 .. t.size |-> <<b, k>>] \o Tail(todo)
  <1> DEFINE l == Head(todo)
             b == l[1]
             t == function[b]
  <1>1. l \in DOMAIN code /\ todo # << >> /\ Rewritable(code[l])
    <2>1. todo \in Seq(DOMAIN code) /\ todo # << >>
      BY DEF TypeOK, Rewrite
    <2>2. Rewritable(code[l])
      BY DEF Rewrite
    <2> QED
      BY <2>1, <2>2
  <1>2. code[l].op = "test"
    BY <1>1 DEF Rewritable
  <1>3. /\ b \in Blocks /\ l = Head0(b) /\ code[l] = t /\ t \in Terminator
    BY <1>1, <1>2, CodeAt DEF Head0
  <1>4. PICK c \in MagicBytes(t) : code' = WithChain(b, t, c)
    BY <1>3 DEF Rewrite
  <1>5. /\ c \in [0 .. (t.size - 1) -> Byte]
        /\ \A k \in 0 .. (t.size - 1) : k < WordBytes => c[k] = t.magic[k]
    BY <1>4 DEF MagicBytes
  <1>6. /\ phi' = Redirected(b, t.size)
        /\ todo' = [k \in 1 .. t.size |-> <<b, k>>] \o Tail(todo)
    BY <1>3 DEF Rewrite
  <1> QED
    BY <1>1, <1>2, <1>3, <1>4, <1>5, <1>6

(* Every step keeps the source, adds to the blocks and takes none away.    *)
LEMMA CodeGrows ==
  ASSUME TypeOK, CodeInv, [Next]_vars
  PROVE  function' = function /\ DOMAIN code \subseteq DOMAIN code'
  <1>1. CASE Rewrite
    <2>1. PICK b \in Blocks : \E c \in [0 .. (function[b].size - 1) -> Byte] :
            /\ function[b] \in Terminator /\ function[b].op = "test"
            /\ code' = WithChain(b, function[b], c)
      BY <1>1, RewriteEffect
    <2>2. DOMAIN code \subseteq DOMAIN code'
      BY <2>1 DEF WithChain
    <2> QED
      BY <1>1, <2>2 DEF Rewrite
  <1>2. CASE Leave
    BY <1>2 DEF Leave
  <1>3. CASE Execute \/ Write
    BY <1>3 DEF Execute, Load, Store, CompareWord, CompareByte, Jump, Write, Enter, Become, pass
  <1>4. CASE UNCHANGED vars
    BY <1>4 DEF vars, pass
  <1> QED
    BY <1>1, <1>2, <1>3, <1>4 DEF Next, Pass

(* The shape of the code after a rewrite.                                  *)
LEMMA RewriteCode ==
  ASSUME TypeOK, CodeInv, Rewrite
  PROVE  /\ DOMAIN code' \subseteq Label
         /\ Blocks \X {0} \subseteq DOMAIN code'
         /\ \A l \in DOMAIN code' : code'[l] \in Terminator \cup ByteTest \cup {Unreachable}
         /\ CodeInv'
  <1>0. PICK b \in Blocks : \E c \in [0 .. (function[b].size - 1) -> Byte] :
          LET t == function[b]
          IN  /\ t \in Terminator /\ t.op = "test"
              /\ \A k \in 0 .. (t.size - 1) : k < WordBytes => c[k] = t.magic[k]
              /\ code' = WithChain(b, t, c)
    BY RewriteEffect
  <1> DEFINE t == function[b]
             made == {b} \X (0 .. t.size)
  <1>1. PICK c \in [0 .. (t.size - 1) -> Byte] :
          /\ t \in Terminator /\ t.op = "test"
          /\ \A k \in 0 .. (t.size - 1) : k < WordBytes => c[k] = t.magic[k]
          /\ code' = WithChain(b, t, c)
    BY <1>0
  <1>2. t.size \in 1 .. MaxSize /\ MaxSize \in Nat
    BY <1>1, TestFields, FunctionAssumption
  <1>3. function' = function
    BY DEF Rewrite
  <1>4. /\ DOMAIN code' = made \cup DOMAIN code
        /\ code'[<<b, t.size>>] = Unreachable
        /\ \A k \in 0 .. (t.size - 1) : code'[<<b, k>>] = ByteBlock(b, t, k, c[k])
        /\ \A l \in DOMAIN code : l \notin made => code'[l] = code[l]
    <2> DEFINE new == WithChain(b, t, c)
    <2>1. /\ DOMAIN new = made \cup DOMAIN code
          /\ new[<<b, t.size>>] = Unreachable
          /\ \A k \in 0 .. (t.size - 1) : new[<<b, k>>] = ByteBlock(b, t, k, c[k])
          /\ \A l \in DOMAIN code : l \notin made => new[l] = code[l]
      BY <1>1, ChainOverCode
    <2>2. code' = new
      BY <1>1
    <2> QED
      BY <2>1, <2>2, Zenon
  <1>5. made \subseteq Label
    BY <1>2 DEF Label
  <1>6. \A k \in 0 .. (t.size - 1) : c[k] \in Byte /\ ByteBlock(b, t, k, c[k]) \in ByteTest
    <2> SUFFICES ASSUME NEW k \in 0 .. (t.size - 1)
                 PROVE  c[k] \in Byte /\ ByteBlock(b, t, k, c[k]) \in ByteTest
      OBVIOUS
    <2>1. c[k] \in Byte
      OBVIOUS
    <2> QED
      BY <1>1, <2>1, ByteBlockType
  <1>7. ASSUME NEW l \in DOMAIN code'
        PROVE  /\ code'[l] \in Terminator \cup ByteTest \cup {Unreachable}
               /\ LET s == function[l[1]]
                  IN  \/ l[2] = 0 /\ code'[l] = s
                      \/ s.op = "test" /\ l[2] = s.size /\ code'[l] = Unreachable
                      \/ /\ s.op = "test" /\ l[2] < s.size
                         /\ <<l[1], l[2] + 1>> \in DOMAIN code'
                         /\ \E d \in Byte : /\ l[2] < WordBytes => d = s.magic[l[2]]
                                           /\ code'[l] = ByteBlock(l[1], s, l[2], d)
    <2>1. CASE l = <<b, t.size>>
      BY <1>1, <1>4, <2>1
    <2>2. CASE l \in made /\ l # <<b, t.size>>
      <3>1. PICK k \in 0 .. (t.size - 1) : l = <<b, k>>
        BY <1>2, <2>2
      <3>2. k < t.size /\ k + 1 \in 0 .. t.size
        BY <1>2
      <3>3. <<b, k + 1>> \in DOMAIN code'
        BY <1>4, <3>2
      <3> QED
        BY <1>1, <1>4, <1>6, <3>1, <3>2, <3>3
    <2>3. CASE l \notin made
      <3>1. l \in DOMAIN code /\ code'[l] = code[l]
        BY <1>4, <2>3
      <3>2. code[l] \in Terminator \cup ByteTest \cup {Unreachable}
        BY <3>1 DEF TypeOK
      <3> QED
        BY <1>4, <3>1, <3>2 DEF CodeInv
    <2> QED
      BY <2>1, <2>2, <2>3
  <1>8. CodeInv'
    BY <1>3, <1>7 DEF CodeInv
  <1> QED
    BY <1>4, <1>5, <1>7, <1>8 DEF TypeOK

-----------------------------------------------------------------------------
(* The inductive invariant.                                                *)

LEMMA RewriteType ==
  ASSUME TypeOK, CodeInv, Rewrite
  PROVE  TypeOK'
  <1>1. /\ DOMAIN code' \subseteq Label
        /\ Blocks \X {0} \subseteq DOMAIN code'
        /\ \A l \in DOMAIN code' : code'[l] \in Terminator \cup ByteTest \cup {Unreachable}
    BY RewriteCode
  <1>2. DOMAIN code \subseteq DOMAIN code'
    BY CodeGrows DEF Next, Pass
  <1>3. PICK b \in Blocks : \E c \in [0 .. (function[b].size - 1) -> Byte] :
          LET t == function[b]
          IN  /\ t \in Terminator /\ t.op = "test"
              /\ code' = WithChain(b, t, c)
              /\ phi' = Redirected(b, t.size)
              /\ todo' = [k \in 1 .. t.size |-> <<b, k>>] \o Tail(todo)
    BY RewriteEffect
  <1> DEFINE t == function[b]
             split == [k \in 1 .. t.size |-> <<b, k>>]
  <1>4. t.size \in 1 .. MaxSize /\ MaxSize \in Nat
    BY <1>3, TestFields, FunctionAssumption
  <1>5. \A k \in 0 .. t.size : <<b, k>> \in DOMAIN code' /\ <<b, k>> \in Label
    BY <1>3, <1>4 DEF WithChain, Chain, Label
  <1>6. phi' \in [Joins -> SUBSET Label]
    BY <1>3, <1>4, <1>5 DEF TypeOK, Redirected
  <1>7. split \in Seq(DOMAIN code')
    BY <1>4, <1>5
  <1>8. todo \in Seq(DOMAIN code') /\ todo # << >>
    <2>1. todo \in Seq(DOMAIN code) /\ todo # << >>
      BY DEF TypeOK, Rewrite
    <2> QED
      BY <1>2, <2>1, SeqMonotonic
  <1>9. Tail(todo) \in Seq(DOMAIN code')
    BY <1>8
  <1>10. todo' \in Seq(DOMAIN code')
    BY <1>3, <1>7, <1>9
  <1> QED
    BY <1>1, <1>2, <1>6, <1>10 DEF Rewrite, run, TypeOK

(* A branch to a block of the source, or to the next block of a chain.     *)
LEMMA EnterType ==
  ASSUME TypeOK, NEW l \in DOMAIN code, Enter(l), UNCHANGED seen
  PROVE  TypeOK'
  BY DEF TypeOK, Enter, pass, Running

LEMMA BecomeType ==
  ASSUME TypeOK, NEW w \in Word, Become(w), step' \in {"load", "store", "compare"}
  PROVE  TypeOK'
  <1>1. \A k \in DOMAIN w : w[k] \in Byte /\ seen[k] \in SUBSET Byte
    BY DEF TypeOK, Word
  <1>2. DOMAIN w = DOMAIN mem
    BY DEF TypeOK, Word
  <1> QED
    BY <1>1, <1>2 DEF TypeOK, Become, pass, Word

(* Where the three kinds of branch lead.                                   *)
LEMMA BlockIsThere ==
  ASSUME TypeOK, NEW b \in Blocks
  PROVE  Head0(b) \in DOMAIN code
  BY DEF TypeOK, Head0

LEMMA CompareByteTarget ==
  ASSUME TypeOK, CodeInv, CompareByte
  PROVE  LET b == at[1]
             k == at[2]
             t == function[b]
         IN  /\ b \in Blocks /\ t \in Terminator /\ t.op = "test"
             /\ k \in 0 .. (t.size - 1) /\ mem[k] \in Byte
             /\ \E c \in Byte :
                  /\ k < WordBytes => c = t.magic[k]
                  /\ IF SignExtended(mem[k]) = c
                     THEN IF k = t.size - 1 THEN Enter(Head0(MatchOf(t)))
                          ELSE Enter(<<b, k + 1>>) /\ <<b, k + 1>> \in DOMAIN code
                     ELSE Enter(Head0(NoMatchOf(t)))
  <1> DEFINE b == at[1]
             k == at[2]
             t == function[b]
  <1>1. at \in DOMAIN code /\ code[at].op = "byte"
    BY DEF TypeOK, CompareByte
  <1>2. /\ b \in Blocks /\ t \in Terminator /\ t.op = "test"
        /\ k \in 0 .. (t.size - 1)
        /\ <<b, k + 1>> \in DOMAIN code
    BY <1>1, CodeAt
  <1>3. PICK c \in Byte : /\ k < WordBytes => c = t.magic[k]
                          /\ code[at] = ByteBlock(b, t, k, c)
    BY <1>1, CodeAt
  <1>4. /\ code[at].index = k /\ code[at].const = c
        /\ code[at].yes = IF k = t.size - 1 THEN Head0(MatchOf(t)) ELSE <<b, k + 1>>
        /\ code[at].no = Head0(NoMatchOf(t))
    BY <1>2, <1>3, ByteBlockType
  <1>5. Enter(IF SignExtended(mem[k]) = c THEN code[at].yes ELSE code[at].no)
    BY <1>4 DEF CompareByte
  <1>6. mem[k] \in Byte
    BY <1>2, TestFields, FunctionAssumption DEF TypeOK, Word
  <1>7. IF SignExtended(mem[k]) = c
        THEN IF k = t.size - 1 THEN Enter(Head0(MatchOf(t)))
             ELSE Enter(<<b, k + 1>>) /\ <<b, k + 1>> \in DOMAIN code
        ELSE Enter(Head0(NoMatchOf(t)))
    <2>1. CASE SignExtended(mem[k]) = c /\ k = t.size - 1
      BY <1>4, <1>5, <2>1
    <2>2. CASE SignExtended(mem[k]) = c /\ k # t.size - 1
      BY <1>2, <1>4, <1>5, <2>2
    <2>3. CASE SignExtended(mem[k]) # c
      BY <1>4, <1>5, <2>3
    <2> QED
      BY <2>1, <2>2, <2>3
  <1> QED
    BY <1>2, <1>3, <1>6, <1>7

LEMMA TypeStep ==
  ASSUME TypeOK, CodeInv, [Next]_vars
  PROVE  TypeOK'
  <1>1. CASE Rewrite
    BY <1>1, RewriteType
  <1>2. CASE Leave
    BY <1>2 DEF Leave, run, TypeOK
  <1>3. CASE Load
    BY <1>3 DEF Load, pass, TypeOK, Word
  <1>4. CASE Store
    <2>1. PICK w \in Word : Become(w)
      BY <1>4 DEF Store
    <2> QED
      BY <1>4, <2>1, BecomeType DEF Store
  <1>5. CASE CompareWord
    <2>1. code[at] = function[at[1]] /\ code[at] \in Terminator
      BY <1>5, CodeAt DEF CompareWord, TypeOK
    <2>2. Outcome(loaded, code[at]) \in Blocks
      BY <1>5, <2>1, OutcomeType DEF CompareWord, TypeOK
    <2> QED
      BY <1>5, <2>2, BlockIsThere, EnterType DEF CompareWord
  <1>6. CASE CompareByte
    <2>1. PICK l \in DOMAIN code : Enter(l)
      BY <1>6, CompareByteTarget, TestFields, BlockIsThere
    <2> QED
      BY <1>6, <2>1, EnterType DEF CompareByte
  <1>7. CASE Jump
    <2>1. code[at] \in Other
      BY <1>7, CodeAt DEF Jump, TypeOK
    <2>2. PICK b \in Blocks : Enter(Head0(b))
      BY <1>7, <2>1 DEF Jump, Other
    <2> QED
      BY <1>7, <2>2, BlockIsThere, EnterType DEF Jump
  <1>8. CASE Write
    <2>1. PICK w \in Word : Become(w)
      BY <1>8 DEF Write
    <2>2. step' \in {"load", "store", "compare"}
      BY <1>8 DEF Write, TypeOK
    <2> QED
      BY <2>1, <2>2, BecomeType
  <1>9. CASE UNCHANGED vars
    BY <1>9 DEF vars, pass, run, TypeOK
  <1> QED
    BY <1>1, <1>2, <1>3, <1>4, <1>5, <1>6, <1>7, <1>8, <1>9 DEF Next, Pass, Execute

LEMMA CodeStep ==
  ASSUME TypeOK, CodeInv, [Next]_vars
  PROVE  CodeInv'
  <1>1. CASE Rewrite
    BY <1>1, RewriteCode
  <1>2. CASE ~Rewrite
    <2>1. UNCHANGED <<function, code>>
      BY <1>2 DEF Next, Pass, Leave, Execute, Load, Store, CompareWord, CompareByte, Jump,
                  Write, Enter, Become, pass, vars
    <2> QED
      BY <2>1 DEF CodeInv
  <1> QED
    BY <1>1, <1>2

(* A branch to a block of the source keeps what RunInv says of the bytes.  *)
LEMMA EnterHead ==
  ASSUME TypeOK, RunInv, NEW b \in Blocks, Enter(Head0(b)), UNCHANGED seen
  PROVE  RunInv'
  <1>1. at' = <<b, 0>> /\ step' = "load" /\ UNCHANGED <<function, mem, loaded>>
    BY DEF Enter, Head0
  <1> QED
    BY <1>1 DEF RunInv

(* A store by whoever it is adds to what the bytes have been.              *)
LEMMA BecomeSeen ==
  ASSUME TypeOK, RunInv, NEW w \in Word, Become(w)
  PROVE  /\ \A k \in DOMAIN mem' : mem'[k] \in seen'[k] /\ loaded'[k] \in seen'[k]
         /\ \A k \in DOMAIN mem : seen[k] \subseteq seen'[k]
  BY DEF TypeOK, Word, RunInv, Become

LEMMA RunStep ==
  ASSUME TypeOK, CodeInv, RunInv, [Next]_vars
  PROVE  RunInv'
  <1> DEFINE b == at[1]
             t == function[b]
  <1> USE FunctionAssumption
  <1>0. at \in DOMAIN code /\ at = <<b, at[2]>> /\ b \in Blocks /\ t \in Terminator
    BY CodeAt DEF TypeOK
  <1>1. CASE Rewrite
    <2>1. step = "load"
      BY <1>1 DEF Rewrite, RunInv, Running
    <2> QED
      BY <1>1, <2>1 DEF Rewrite, run, RunInv
  <1>2. CASE Leave
    <2>1. step = "load"
      BY <1>2 DEF Leave, RunInv, Running
    <2> QED
      BY <1>2, <2>1 DEF Leave, run, RunInv
  <1>3. CASE Load
    <2>1. t.op = "test"
      BY <1>0, <1>3, CodeAt DEF Load
    <2>2. at[2] = 0 /\ t.size \in 1 .. MaxSize
      BY <1>0, <1>3, <2>1, TestFields DEF Load, RunInv
    <2>3. \A k \in DOMAIN mem' : mem'[k] \in seen'[k] /\ loaded'[k] \in seen'[k]
      BY <1>3 DEF Load
    <2> QED
      BY <1>3, <2>1, <2>2, <2>3 DEF Load, RunInv, Running, pass
  <1>4. CASE Store
    <2>1. PICK w \in Word : Become(w)
      BY <1>4 DEF Store
    <2>2. /\ UNCHANGED <<function, at, todo>> /\ step = "store" /\ step' = "compare"
      BY <1>4, <2>1 DEF Store, Become, pass
    <2> QED
      BY <2>1, <2>2, BecomeSeen DEF RunInv, Running
  <1>5. CASE CompareWord
    <2>1. code[at] = t /\ t.op = "test"
      BY <1>0, <1>5, CodeAt DEF CompareWord
    <2>2. Outcome(loaded, t) \in Blocks
      BY <1>0, <2>1, OutcomeType DEF TypeOK
    <2> QED
      BY <1>5, <2>1, <2>2, EnterHead DEF CompareWord
  <1>6. CASE CompareByte
    <2> DEFINE k == at[2]
    <2>1. /\ t.op = "test" /\ k \in 0 .. (t.size - 1) /\ mem[k] \in Byte
          /\ UNCHANGED seen /\ Running /\ step = "compare"
      BY <1>6, CompareByteTarget DEF CompareByte
    <2>2. PICK c \in Byte :
            /\ k < WordBytes => c = t.magic[k]
            /\ IF SignExtended(mem[k]) = c
               THEN IF k = t.size - 1 THEN Enter(Head0(MatchOf(t)))
                    ELSE Enter(<<b, k + 1>>)
               ELSE Enter(Head0(NoMatchOf(t)))
      BY <1>6, CompareByteTarget
    <2>3. MatchOf(t) \in Blocks /\ NoMatchOf(t) \in Blocks /\ t.size \in 1 .. MaxSize
      BY <1>0, <2>1, TestFields
    <2>4. CASE Enter(Head0(MatchOf(t))) \/ Enter(Head0(NoMatchOf(t)))
      BY <2>1, <2>3, <2>4, EnterHead
    <2>5. CASE SignExtended(mem[k]) = c /\ k # t.size - 1 /\ Enter(<<b, k + 1>>)
      <3>1. /\ at' = <<b, k + 1>> /\ step' = "compare"
            /\ UNCHANGED <<function, todo, mem, loaded>>
        BY <2>1, <2>5 DEF Enter, pass
      <3>2. k < WordBytes => t.magic[k] \in seen[k]
        <4>1. mem[k] = c
          BY <2>1, <2>5, SignExtensionOfByte
        <4>2. mem[k] \in seen[k]
          BY <2>1, <2>3 DEF RunInv, TypeOK, Word
        <4> QED
          BY <2>2, <4>1, <4>2
      <3>3. \A j \in 0 .. k : j < WordBytes => t.magic[j] \in seen[j]
        <4>1. \A j \in 0 .. (k - 1) : j < WordBytes => t.magic[j] \in seen[j]
          BY DEF RunInv
        <4> QED
          BY <2>1, <3>2, <4>1
      <3>4. k + 1 < t.size /\ (k + 1) - 1 = k
        BY <2>1, <2>3, <2>5
      <3>5. at'[1] = b /\ at'[2] = k + 1 /\ seen' = seen
        BY <2>1, <3>1
      <3> QED
        BY <2>1, <3>1, <3>3, <3>4, <3>5 DEF RunInv, Running
    <2> QED
      BY <2>2, <2>4, <2>5
  <1>7. CASE Jump
    <2>1. code[at] \in Other
      BY <1>0, <1>7, CodeAt DEF Jump
    <2>2. PICK d \in Blocks : Enter(Head0(d))
      BY <1>7, <2>1 DEF Jump, Other
    <2> QED
      BY <1>7, <2>2, EnterHead DEF Jump
  <1>8. CASE Write
    <2>1. PICK w \in Word : Become(w)
      BY <1>8 DEF Write
    <2>2. UNCHANGED <<function, at, todo, step>> /\ DOMAIN mem = 0 .. (MaxSize - 1)
      BY <1>8, <2>1 DEF Write, Become, pass, TypeOK, Word
    <2>3. /\ \A k \in DOMAIN mem' : mem'[k] \in seen'[k] /\ loaded'[k] \in seen'[k]
          /\ \A k \in DOMAIN mem : seen[k] \subseteq seen'[k]
      BY <2>1, BecomeSeen
    <2>4. ASSUME NEW k \in 0 .. (at[2] - 1), k < WordBytes
          PROVE  t.magic[k] \in seen'[k]
      <3>1. t.magic[k] \in seen[k]
        BY <2>4 DEF RunInv
      <3>2. at[2] \in 0 .. MaxSize
        BY <1>0, CodeAt
      <3>3. k \in DOMAIN mem
        BY <2>2, <3>2
      <3> QED
        BY <2>3, <3>1, <3>3
    <2> QED
      BY <2>2, <2>3, <2>4 DEF RunInv, Running
  <1>9. CASE UNCHANGED vars
    BY <1>9 DEF vars, pass, run, RunInv, Running
  <1> QED
    BY <1>1, <1>2, <1>3, <1>4, <1>5, <1>6, <1>7, <1>8, <1>9 DEF Next, Pass, Execute

LEMMA Initially ==
  ASSUME Init
  PROVE  IInv
  <1> USE FunctionAssumption, PassAssumption
  <1>2. /\ mem \in Word /\ loaded = mem /\ function \in [Blocks -> Terminator]
        /\ seen = [k \in DOMAIN mem |-> {mem[k]}]
        /\ DOMAIN mem = 0 .. (MaxSize - 1)
    BY DEF Init, Word
  <1>3. \A l \in DOMAIN code : l = <<l[1], 0>> /\ l[1] \in Blocks /\ code[l] = function[l[1]]
    BY DEF Init
  <1>4. Blocks \X {0} = DOMAIN code /\ DOMAIN code \subseteq Label
    BY DEF Init, Label
  <1>5. todo \in Seq(DOMAIN code)
    <2>1. \A i \in DOMAIN Order : Head0(Order[i]) \in DOMAIN code
      BY <1>4 DEF Head0
    <2>2. todo = [i \in 1 .. Len(Order) |-> Head0(Order[i])]
      BY DEF Init
    <2> QED
      BY <2>1, <2>2
  <1>6. phi \in [Joins -> SUBSET Label]
    BY <1>4 DEF Init, Predecessors
  <1>7. at = <<Start, 0>> /\ at \in DOMAIN code /\ step = "load"
    BY <1>4 DEF Init, Head0
  <1>8. TypeOK
    BY <1>2, <1>3, <1>4, <1>5, <1>6, <1>7 DEF TypeOK, Word, Init
  <1>9. CodeInv
    BY <1>3 DEF CodeInv
  <1>10. RunInv
    BY <1>2, <1>7 DEF RunInv
  <1> QED
    BY <1>8, <1>9, <1>10 DEF IInv

LEMMA InvariantStep ==
  ASSUME IInv, [Next]_vars
  PROVE  IInv'
  BY TypeStep, CodeStep, RunStep DEF IInv

(* The blocks stay what the pass makes of the source, and control gets as  *)
(* far into a chain as the bytes have been seen to match.                  *)
THEOREM Invariance == Spec => []IInv
  BY Initially, InvariantStep, PTL DEF Spec

(* The state keeps its types, whatever the function and whoever writes the *)
(* variable.                                                               *)
THEOREM TypeCorrect == Spec => []TypeOK
  BY Invariance, PTL DEF IInv

(* Control never reaches the block that the last split leaves over.        *)
THEOREM UnreachableIsNotReached == Spec => []NeverUnreachable
  <1>1. IInv => NeverUnreachable
    <2> SUFFICES ASSUME IInv, code[at] = Unreachable
                 PROVE  FALSE
      BY DEF NeverUnreachable, IInv, TypeOK
    <2>1. /\ function[at[1]].op = "test" /\ at[2] = function[at[1]].size
          /\ function[at[1]] \in Terminator
      BY CodeAt DEF IInv, TypeOK
    <2>2. at[2] \in 1 .. MaxSize
      BY <2>1, TestFields
    <2> QED
      BY <2>1, <2>2 DEF IInv, RunInv
  <1> QED
    BY <1>1, Invariance, PTL

-----------------------------------------------------------------------------
(* The pass misses no test.                                                *)

(* A test still to be rewritten is still to be visited.                    *)
Pending ==
  \A i \in DOMAIN Order :
    Rewritable(code[Head0(Order[i])]) => \E j \in DOMAIN todo : todo[j] = Head0(Order[i])

(* Visiting the head of todo leaves its tail, behind the new blocks.       *)
LEMMA TailStays ==
  ASSUME NEW s \in Seq(Label), s # << >>, NEW n \in Seq(Label),
         NEW j \in 1 .. Len(s), j # 1
  PROVE  LET k == Len(n) + (j - 1)
         IN  k \in DOMAIN (n \o Tail(s)) /\ (n \o Tail(s))[k] = s[j]
  <1>1. /\ Tail(s) \in Seq(Label) /\ Len(Tail(s)) = Len(s) - 1
        /\ Tail(s)[j - 1] = s[j]
    BY HeadTailProperties
  <1>2. Len(s) \in Nat /\ Len(n) \in Nat
    OBVIOUS
  <1>3. Len(n) + (j - 1) \in 1 .. Len(n \o Tail(s))
    BY <1>1, <1>2
  <1>4. (n \o Tail(s))[Len(n) + (j - 1)] = Tail(s)[j - 1]
    BY <1>1, <1>2
  <1>5. DOMAIN (n \o Tail(s)) = 1 .. Len(n \o Tail(s))
    BY <1>1
  <1> QED
    BY <1>1, <1>3, <1>4, <1>5

LEMMA PendingInit == Init => Pending
  <1> SUFFICES ASSUME Init, NEW i \in DOMAIN Order
               PROVE  \E j \in DOMAIN todo : todo[j] = Head0(Order[i])
    BY DEF Pending
  <1> QED
    BY DEF Init

LEMMA PendingStep ==
  ASSUME IInv, Pending, [Next]_vars
  PROVE  Pending'
  <1>0. todo \in Seq(DOMAIN code) /\ Order \in Seq(Blocks)
    BY PassAssumption DEF IInv, TypeOK
  <1> SUFFICES ASSUME NEW i \in DOMAIN Order, Rewritable(code'[Head0(Order[i])])
               PROVE  \E j \in DOMAIN todo' : todo'[j] = Head0(Order[i])
    BY DEF Pending, Rewritable
  <1> DEFINE h == Head0(Order[i])
  <1>1. Order[i] \in Blocks /\ h \in DOMAIN code
    BY <1>0, BlockIsThere DEF IInv
  <1>2. CASE Rewrite
    <2>1. PICK b \in Blocks : \E c \in [0 .. (function[b].size - 1) -> Byte] :
            LET t == function[b]
            IN  /\ Head(todo) = Head0(b) /\ t \in Terminator /\ t.op = "test"
                /\ code' = WithChain(b, t, c)
                /\ todo' = [k \in 1 .. t.size |-> <<b, k>>] \o Tail(todo)
      BY <1>2, RewriteEffect DEF IInv
    <2> DEFINE t == function[b]
               split == [k \in 1 .. t.size |-> <<b, k>>]
    <2>2. PICK c \in [0 .. (t.size - 1) -> Byte] : code' = WithChain(b, t, c)
      BY <2>1
    <2>3. t.size \in 1 .. MaxSize /\ MaxSize \in Nat
      BY <2>1, TestFields, FunctionAssumption
    <2> DEFINE new == WithChain(b, t, c)
    <2>4. /\ \A k \in 0 .. (t.size - 1) : new[<<b, k>>] = ByteBlock(b, t, k, c[k])
          /\ \A l \in DOMAIN code : l \notin {b} \X (0 .. t.size) => new[l] = code[l]
      BY <2>1, ChainOverCode
    <2>5. code'[Head0(b)].op = "byte"
      <3>1. new[<<b, 0>>] = ByteBlock(b, t, 0, c[0])
        BY <2>3, <2>4
      <3> QED
        BY <2>2, <3>1 DEF Head0, ByteBlock
    <2>6. Order[i] # b /\ h # Head(todo)
      BY <2>1, <2>5 DEF Rewritable, Head0
    <2>7. code'[h] = code[h]
      <3>1. h \notin {b} \X (0 .. t.size)
        BY <2>6 DEF Head0
      <3>2. new[h] = code[h]
        BY <1>1, <2>4, <3>1
      <3> QED
        BY <2>2, <3>2
    <2>8. PICK j \in DOMAIN todo : todo[j] = h
      BY <2>7 DEF Pending
    <2>9. todo # << >> /\ j \in 1 .. Len(todo) /\ j # 1
      BY <1>0, <2>6, <2>8
    <2>10. split \in Seq(Label) /\ todo \in Seq(Label)
      <3>1. DOMAIN code \subseteq Label
        BY DEF IInv, TypeOK
      <3>2. todo \in Seq(Label)
        BY <1>0, <3>1, SeqMonotonic
      <3>3. \A k \in 1 .. t.size : <<b, k>> \in Label
        BY <2>3 DEF Label
      <3> QED
        BY <2>3, <3>2, <3>3
    <2>11. \E k \in DOMAIN (split \o Tail(todo)) : (split \o Tail(todo))[k] = todo[j]
      <3> HIDE DEF split
      <3>1. LET k == Len(split) + (j - 1)
            IN  /\ k \in DOMAIN (split \o Tail(todo))
                /\ (split \o Tail(todo))[k] = todo[j]
        BY <2>9, <2>10, TailStays
      <3> QED
        BY <3>1, Zenon
    <2> QED
      BY <2>1, <2>8, <2>11
  <1>3. CASE Leave
    <2>1. PICK j \in DOMAIN todo : todo[j] = h
      BY <1>3 DEF Leave, Pending
    <2>2. todo # << >> /\ j \in 1 .. Len(todo) /\ j # 1
      BY <1>0, <1>3, <2>1 DEF Leave
    <2>3. todo' = Tail(todo)
      BY <1>3 DEF Leave
    <2>4. /\ Tail(todo) \in Seq(DOMAIN code) /\ Len(Tail(todo)) = Len(todo) - 1
          /\ Tail(todo)[j - 1] = todo[j]
      BY <1>0, <2>2, HeadTailProperties
    <2>5. j - 1 \in DOMAIN Tail(todo)
      BY <1>0, <2>2, <2>4
    <2> QED
      BY <2>1, <2>3, <2>4, <2>5
  <1>4. CASE UNCHANGED <<code, todo>>
    BY <1>4 DEF Pending
  <1> QED
    BY <1>2, <1>3, <1>4 DEF Next, Pass, Execute, Load, Store, CompareWord, CompareByte, Jump,
       Write, Enter, Become, pass, vars

(* Once the pass is through, no block is left that tests a whole word of   *)
(* four bytes or more.                                                     *)
THEOREM EveryTestIsReduced == Spec => []Reduced
  <1>1. Init => Pending
    BY PendingInit
  <1>2. IInv /\ Pending /\ [Next]_vars => Pending'
    BY PendingStep
  <1>3. IInv /\ Pending => Reduced
    <2> SUFFICES ASSUME IInv, Pending, Running, NEW i \in DOMAIN Order,
                        code[Head0(Order[i])].op = "test"
                 PROVE  code[Head0(Order[i])].size < WordBytes
      BY DEF Reduced
    <2>1. ~Rewritable(code[Head0(Order[i])])
      BY DEF Pending, Running
    <2>2. Order[i] \in Blocks
      BY PassAssumption
    <2>3. Head0(Order[i]) \in DOMAIN code
      BY <2>2, BlockIsThere DEF IInv
    <2>4. code[Head0(Order[i])].size \in Nat
      <3>1. code[Head0(Order[i])] \in Terminator
        BY <2>3, CodeAt DEF IInv
      <3> QED
        BY <3>1, TestFields, FunctionAssumption
    <2> QED
      BY <2>1, <2>4, PassAssumption DEF Rewritable
  <1> QED
    BY <1>1, <1>2, <1>3, Invariance, PTL DEF Spec

-----------------------------------------------------------------------------
(* Phis.                                                                   *)

(* The blocks of the source that lead to s, and the name under which a phi *)
(* knows block b by now.                                                   *)
Leading(s) == {d \in Blocks : Head0(s) \in Successors(function[d])}
NameNow(b) == IF code[Head0(b)] = function[b] THEN Head0(b) ELSE <<b, function[b].size>>

(* Only tests of enough bytes are replaced, and the phis know it.          *)
PhisInv ==
  /\ \A b \in Blocks : code[Head0(b)] = function[b] \/ Rewritable(function[b])
  /\ \A s \in Joins : phi[s] = {NameNow(b) : b \in Leading(s)}

(* A rewritten block is no longer the block of the source.                 *)
LEMMA ByteIsNoTerminator ==
  ASSUME NEW t \in Terminator, NEW d \in ByteTest
  PROVE  d # t
  BY DEF Terminator, Test, Other, ByteTest

(* What a rewrite does to the heads of the blocks: it changes one.         *)
LEMMA RewriteHeads ==
  ASSUME IInv, Rewrite
  PROVE  \E b \in Blocks :
           /\ function[b] \in Terminator /\ Rewritable(function[b])
           /\ code[Head0(b)] = function[b]
           /\ code'[Head0(b)] # function[b]
           /\ \A d \in Blocks \ {b} : code'[Head0(d)] = code[Head0(d)]
           /\ phi' = Redirected(b, function[b].size)
  <1>1. PICK b \in Blocks : \E c \in [0 .. (function[b].size - 1) -> Byte] :
          LET t == function[b]
          IN  /\ code[Head0(b)] = t /\ t \in Terminator /\ t.op = "test"
              /\ Rewritable(t)
              /\ code' = WithChain(b, t, c)
              /\ phi' = Redirected(b, t.size)
    BY RewriteEffect DEF IInv
  <1> DEFINE t == function[b]
  <1>2. PICK c \in [0 .. (t.size - 1) -> Byte] : code' = WithChain(b, t, c)
    BY <1>1
  <1> DEFINE new == WithChain(b, t, c)
  <1>3. t.size \in 1 .. MaxSize /\ MaxSize \in Nat
    BY <1>1, TestFields, FunctionAssumption
  <1>4. /\ \A k \in 0 .. (t.size - 1) : new[<<b, k>>] = ByteBlock(b, t, k, c[k])
        /\ \A l \in DOMAIN code : l \notin {b} \X (0 .. t.size) => new[l] = code[l]
    BY <1>1, ChainOverCode
  <1>5. new[Head0(b)] # t
    <2>1. 0 \in 0 .. (t.size - 1) /\ c[0] \in Byte
      BY <1>3
    <2>2. new[Head0(b)] = ByteBlock(b, t, 0, c[0])
      BY <1>4, <2>1 DEF Head0
    <2>3. ByteBlock(b, t, 0, c[0]) \in ByteTest
      BY <1>1, <2>1, ByteBlockType
    <2> QED
      BY <1>1, <2>2, <2>3, ByteIsNoTerminator
  <1>6. ASSUME NEW d \in Blocks \ {b}
        PROVE  new[Head0(d)] = code[Head0(d)]
    <2>1. Head0(d) \in DOMAIN code
      BY BlockIsThere DEF IInv
    <2>2. Head0(d) \notin {b} \X (0 .. t.size)
      BY DEF Head0
    <2> QED
      BY <1>4, <2>1, <2>2
  <1>7. code' = new
    BY <1>2
  <1> HIDE DEF new
  <1> QED
    BY <1>1, <1>5, <1>6, <1>7

(* A rewrite renames the block in each phi that has it.                    *)
LEMMA PhisStep ==
  ASSUME IInv, PhisInv, [Next]_vars
  PROVE  PhisInv'
  <1>1. CASE Rewrite
    <2>1. PICK b \in Blocks :
           /\ function[b] \in Terminator /\ Rewritable(function[b])
           /\ code[Head0(b)] = function[b]
           /\ code'[Head0(b)] # function[b]
           /\ \A d \in Blocks \ {b} : code'[Head0(d)] = code[Head0(d)]
           /\ phi' = Redirected(b, function[b].size)
      BY <1>1, RewriteHeads
    <2> DEFINE n == function[b].size
               After(d) == IF d = b THEN <<b, n>> ELSE NameNow(d)
    <2>2. n \in 1 .. MaxSize /\ MaxSize \in Nat
      BY <2>1, TestFields, FunctionAssumption DEF Rewritable
    <2>3. function' = function
      BY <1>1 DEF Rewrite
    <2>4. /\ \A d \in Blocks : NameNow(d) = Head0(b) <=> d = b
          /\ \A d \in Blocks :
               (IF code'[Head0(d)] = function[d] THEN Head0(d)
                ELSE <<d, function[d].size>>) = After(d)
          /\ After(b) = <<b, n>>
          /\ \A d \in Blocks : d # b => After(d) = NameNow(d)
      BY <2>1 DEF NameNow, Head0
    <2> HIDE DEF n, After
    <2>5. ASSUME NEW s \in Joins
          PROVE  phi'[s] = {After(d) : d \in Leading(s)}
      <3>1. /\ phi[s] = {NameNow(d) : d \in Leading(s)}
            /\ Leading(s) \subseteq Blocks
        BY DEF PhisInv, Leading
      <3> DEFINE L == Leading(s)
      <3> HIDE DEF L
      <3>2. \A x : x \in phi[s] <=> \E d \in L : x = NameNow(d)
        BY <3>1 DEF L
      <3>3. L \subseteq Blocks
        BY <3>1 DEF L
      <3>4. Head0(b) \in phi[s] <=> b \in L
        BY <2>4, <3>2, <3>3
      <3>5. phi'[s] = IF Head0(b) \in phi[s] THEN (phi[s] \ {Head0(b)}) \cup {<<b, n>>}
                      ELSE phi[s]
        BY <2>1 DEF Redirected, n
      <3>6. ASSUME NEW x
            PROVE  x \in phi'[s] <=> \E d \in L : x = After(d)
        <4>1. CASE b \in L
          <5>1. x \in phi'[s] <=> x = <<b, n>> \/ (x \in phi[s] /\ x # Head0(b))
            BY <3>4, <3>5, <4>1
          <5> QED
            BY <2>4, <3>2, <3>3, <4>1, <5>1
        <4>2. CASE b \notin L
          <5>1. x \in phi'[s] <=> x \in phi[s]
            BY <3>4, <3>5, <4>2
          <5> QED
            BY <2>4, <3>2, <3>3, <4>2, <5>1
        <4> QED
          BY <4>1, <4>2
      <3>7. phi'[s] = {After(d) : d \in L}
        BY <3>6
      <3> QED
        BY <3>7 DEF L
    <2>6. \A d \in Blocks : code'[Head0(d)] = function[d] \/ Rewritable(function[d])
      BY <2>1 DEF PhisInv
    <2>7. PhisInv' <=> \A s \in Joins : phi'[s] = {After(d) : d \in Leading(s)}
      <3>1. \A s \in Joins :
              {IF code'[Head0(d)] = function[d] THEN Head0(d)
               ELSE <<d, function[d].size>> : d \in Leading(s)} = {After(d) : d \in Leading(s)}
        <4> SUFFICES ASSUME NEW s \in Joins
                     PROVE  {IF code'[Head0(d)] = function[d] THEN Head0(d)
                             ELSE <<d, function[d].size>> : d \in Leading(s)}
                              = {After(d) : d \in Leading(s)}
          OBVIOUS
        <4>1. Leading(s) \subseteq Blocks
          BY DEF Leading
        <4> QED
          BY <2>4, <4>1
      <3> QED
        BY <2>3, <2>6, <3>1, SMTT(30) DEF PhisInv, NameNow, Leading, Rewritable
    <2> QED
      BY <2>5, <2>7
  <1>2. CASE UNCHANGED <<function, code, phi>>
    BY <1>2 DEF PhisInv, NameNow, Leading, Rewritable
  <1> QED
    BY <1>1, <1>2 DEF Next, Pass, Leave, Execute, Load, Store, CompareWord, CompareByte, Jump,
       Write, Enter, Become, pass, vars

(* At the end each phi has one entry for every block of the source that    *)
(* leads to it, under the name of the last block split off that one.       *)
THEOREM PhisAreRenamed == Spec => []PhisFollowSplits
  <1>1. Init => PhisInv
    <2>0. ASSUME Init
          PROVE  /\ DOMAIN code = Blocks \X {0}
                 /\ \A b \in Blocks : code[Head0(b)] = function[b]
      BY <2>0 DEF Init, Head0
    <2> SUFFICES ASSUME Init, NEW s \in Joins
                 PROVE  phi[s] = {NameNow(b) : b \in Leading(s)}
      BY <2>0 DEF PhisInv
    <2>1. /\ DOMAIN code = Blocks \X {0}
          /\ \A b \in Blocks : code[Head0(b)] = function[b]
      BY <2>0
    <2>2. phi[s] = {l \in Blocks \X {0} : Head0(s) \in Successors(code[l])}
      BY <2>1 DEF Init, Predecessors
    <2>3. \A b \in Leading(s) : NameNow(b) = Head0(b)
      BY <2>1 DEF NameNow, Leading
    <2>4. {NameNow(b) : b \in Leading(s)} = {Head0(b) : b \in Leading(s)}
      BY <2>3
    <2>5. \A l \in Blocks \X {0} : l[1] \in Blocks /\ l = Head0(l[1])
      BY DEF Head0
    <2>6. \A b \in Blocks : Head0(b) \in Blocks \X {0}
      BY DEF Head0
    <2> QED
      BY <2>1, <2>2, <2>4, <2>5, <2>6 DEF Leading
  <1>2. IInv /\ PhisInv /\ [Next]_vars => PhisInv'
    BY PhisStep
  <1>3. IInv /\ PhisInv /\ Pending => PhisFollowSplits
    <2> SUFFICES ASSUME IInv, PhisInv, Pending, Running, NEW s \in Joins
                 PROVE  phi[s] = {LastSplit(b) : b \in Leading(s)}
      BY DEF PhisFollowSplits, Leading
    <2>1. ASSUME NEW b \in Blocks
          PROVE  NameNow(b) = LastSplit(b)
      <3>1. PICK i \in DOMAIN Order : Order[i] = b
        BY PassAssumption
      <3>2. ~Rewritable(code[Head0(b)])
        BY <3>1 DEF Pending, Running
      <3>3. Head0(b) \in DOMAIN code /\ function[b] \in Terminator
        BY BlockIsThere, FunctionAssumption DEF IInv, TypeOK
      <3>4. CASE code[Head0(b)] = function[b]
        BY <3>2, <3>4 DEF NameNow, LastSplit
      <3>5. CASE code[Head0(b)] # function[b]
        BY <3>5 DEF PhisInv, NameNow, LastSplit
      <3> QED
        BY <3>4, <3>5
    <2> QED
      BY <2>1 DEF PhisInv, Leading
  <1>4. Init => Pending
    BY PendingInit
  <1> QED
    BY <1>1, <1>2, <1>3, <1>4, PendingStep, Invariance, PTL DEF Spec

-----------------------------------------------------------------------------
(* Decisions.                                                              *)

(* The ways a chain or a comparison comes to a decision.                   *)
LEMMA DecidingStep ==
  ASSUME TypeOK, CodeInv, RunInv, [Next]_vars, NEW b \in Blocks, Decides(b)
  PROVE  LET t == function[b]
             k == at[2]
         IN  /\ t \in Terminator /\ t.op = "test"
             /\ \/ at' = Head0(Outcome(loaded, t)) /\ k = 0
                \/ /\ k \in 0 .. (t.size - 1) /\ mem[k] \in Byte
                   /\ \E c \in Byte :
                        /\ k < WordBytes => c = t.magic[k]
                        /\ \/ /\ SignExtended(mem[k]) = c /\ k = t.size - 1
                              /\ at' = Head0(MatchOf(t))
                           \/ SignExtended(mem[k]) # c /\ at' = Head0(NoMatchOf(t))
  <1> DEFINE t == function[b]
             k == at[2]
  <1>0. at \in DOMAIN code /\ at[1] = b /\ step = "compare" /\ step' = "load"
    BY DEF TypeOK, Decides
  <1>1. t \in Terminator /\ t.op = "test"
    BY <1>0, CodeAt DEF RunInv
  <1>2. CASE CompareWord
    BY <1>0, <1>1, <1>2, CodeAt DEF CompareWord, Enter
  <1>3. CASE CompareByte
    <2>1. k \in 0 .. (t.size - 1) /\ mem[k] \in Byte
      BY <1>0, <1>3, CompareByteTarget
    <2>2. PICK c \in Byte :
            /\ k < WordBytes => c = t.magic[k]
            /\ IF SignExtended(mem[k]) = c
               THEN IF k = t.size - 1 THEN Enter(Head0(MatchOf(t)))
                    ELSE Enter(<<b, k + 1>>)
               ELSE Enter(Head0(NoMatchOf(t)))
      BY <1>0, <1>3, CompareByteTarget
    <2>3. ~Enter(<<b, k + 1>>)
      BY <1>0, <2>1 DEF Enter
    <2> QED
      BY <1>1, <2>1, <2>2, <2>3 DEF Enter
  <1>4. CASE ~CompareWord /\ ~CompareByte
    BY <1>0, <1>4 DEF Next, Pass, Rewrite, Leave, Execute, Load, Store, Jump, Write, run, vars
  <1> QED
    BY <1>2, <1>3, <1>4

LEMMA MatchIsSeen ==
  ASSUME IInv, [Next]_vars, NEW b \in Blocks, Decides(b), function[b].yes # function[b].no,
         at' = Head0(MatchOf(function[b])),
         NEW j \in 0 .. (function[b].size - 1), j < WordBytes
  PROVE  function[b].magic[j] \in seen[j]
  <1> DEFINE t == function[b]
             k == at[2]
  <1>1. t \in Terminator /\ t.op = "test" /\ b = at[1]
    BY DecidingStep DEF IInv, Decides
  <1>2. t.size \in 1 .. MaxSize /\ j \in DOMAIN mem /\ MaxSize \in Nat /\ DOMAIN mem = 0 .. (MaxSize - 1)
    BY <1>1, TestFields, FunctionAssumption DEF IInv, TypeOK, Word
  <1>3. MatchOf(t) # NoMatchOf(t)
    BY <1>1 DEF MatchOf, NoMatchOf
  <1>4. CASE at' = Head0(Outcome(loaded, t))
    <2>1. Equal(loaded, t)
      BY <1>1, <1>3, <1>4, OutcomeOfMatch DEF Head0, IInv, TypeOK
    <2> QED
      BY <1>2, <2>1 DEF Equal, IInv, RunInv
  <1>5. ASSUME NEW c \in Byte, mem[k] \in Byte, k < WordBytes => c = t.magic[k],
               SignExtended(mem[k]) = c, k = t.size - 1
        PROVE  t.magic[j] \in seen[j]
    <2>1. mem[k] = c
      BY <1>5, SignExtensionOfByte
    <2>2. CASE j = k
      BY <1>2, <1>5, <2>1, <2>2 DEF IInv, RunInv
    <2>3. CASE j # k
      <3>1. j \in 0 .. (k - 1)
        BY <1>2, <1>5, <2>3
      <3> QED
        BY <1>1, <3>1 DEF IInv, RunInv
    <2> QED
      BY <2>2, <2>3
  <1>6. at' # Head0(NoMatchOf(t))
    BY <1>3 DEF Head0
  <1> QED
    BY <1>4, <1>5, <1>6, DecidingStep DEF IInv

LEMMA NoMatchIsSeen ==
  ASSUME IInv, [Next]_vars, NEW b \in Blocks, Decides(b), function[b].yes # function[b].no,
         at' # Head0(MatchOf(function[b])), function[b].size <= WordBytes
  PROVE  \E k \in 0 .. (function[b].size - 1) :
           seen[k] # {function[b].magic[k]} \/ function[b].magic[k] >= Half
  <1> DEFINE t == function[b]
             k == at[2]
  <1>1. t \in Terminator /\ t.op = "test"
    BY DecidingStep DEF IInv
  <1>2. /\ t.size \in 1 .. MaxSize /\ MaxSize \in Nat /\ DOMAIN mem = 0 .. (MaxSize - 1)
        /\ WordBytes \in Nat
    BY <1>1, TestFields, FunctionAssumption, PassAssumption DEF IInv, TypeOK, Word
  <1>3. CASE at' = Head0(Outcome(loaded, t))
    <2>1. PICK i \in 0 .. (t.size - 1) : loaded[i] # t.magic[i]
      BY <1>1, <1>3, OutcomeOfMatch DEF IInv, TypeOK, Equal
    <2>2. loaded[i] \in seen[i]
      BY <1>2 DEF IInv, RunInv
    <2> QED
      BY <2>1, <2>2
  <1>4. ASSUME NEW c \in Byte, k \in 0 .. (t.size - 1), mem[k] \in Byte,
               k < WordBytes => c = t.magic[k], SignExtended(mem[k]) # c
        PROVE  seen[k] # {t.magic[k]} \/ t.magic[k] >= Half
    <2>1. c = t.magic[k]
      BY <1>2, <1>4
    <2>2. mem[k] \in seen[k]
      BY <1>2, <1>4 DEF IInv, RunInv
    <2>3. mem[k] = c => c >= Half
      BY <1>4, SignExtensionOfByte
    <2> QED
      BY <2>1, <2>2, <2>3
  <1> QED
    BY <1>3, <1>4, DecidingStep DEF IInv

(* Whoever writes the variable meanwhile, a match is decided on magic      *)
(* bytes that were there, and a mismatch on a byte that was not, up to the *)
(* sign bits and the width that the pass gets wrong.                       *)
THEOREM DecisionsRestOnBytesSeen == Spec => DecisionsAreSeen
  <1>1. ASSUME IInv, [Next]_vars, NEW b \in Blocks
        PROVE  DecisionIsSeen(b)
    <2> SUFFICES ASSUME Decides(b), function[b].yes # function[b].no
                 PROVE  DecisionIsSeen(b)
      BY DEF DecisionIsSeen
    <2>1. CASE at' = Head0(MatchOf(function[b]))
      BY <1>1, <2>1, MatchIsSeen DEF DecisionIsSeen
    <2>2. CASE at' # Head0(MatchOf(function[b])) /\ function[b].size <= WordBytes
      BY <1>1, <2>2, NoMatchIsSeen DEF DecisionIsSeen
    <2>3. CASE at' # Head0(MatchOf(function[b])) /\ ~(function[b].size <= WordBytes)
      <3>1. function[b].size \in Nat /\ WordBytes \in Nat
        BY <1>1, DecidingStep, TestFields, FunctionAssumption, PassAssumption DEF IInv
      <3> QED
        BY <2>3, <3>1 DEF DecisionIsSeen
    <2> QED
      BY <2>1, <2>2, <2>3
  <1>2. IInv /\ [Next]_vars => [\A b \in Blocks : DecisionIsSeen(b)]_vars
    BY <1>1
  <1> QED
    BY <1>2, Invariance, PTL DEF Spec, DecisionsAreSeen

-----------------------------------------------------------------------------
(* The rewritten function implements its source.                           *)

(* What the pass handles: nobody stores to the variable between a load and *)
(* a decision, and the magic numbers have no sign bits and at most four    *)
(* bytes.                                                                  *)
Handled ==
  /\ ~Shared
  /\ \A f \in Functions : \A b \in Blocks :
       f[b].op = "test" =>
         /\ ~f[b].stores /\ f[b].size <= WordBytes
         /\ \A k \in 0 .. (f[b].size - 1) : f[b].magic[k] < Half

(* Then a test decides on the variable as it was when it was loaded.       *)
Still ==
  /\ step # "store"
  /\ step = "compare" => loaded = mem /\ \A k \in DOMAIN mem : seen[k] = {mem[k]}

LEMMA StillStep ==
  ASSUME Handled, IInv, Still, [Next]_vars
  PROVE  Still'
  <1>1. CASE Rewrite \/ Leave
    BY <1>1 DEF Rewrite, Leave, run, Still
  <1>2. CASE Load
    <2>1. function[at[1]].op = "test" /\ function \in Functions /\ at[1] \in Blocks
      BY <1>2, CodeAt DEF Load, IInv, TypeOK
    <2>2. ~function[at[1]].stores
      BY <2>1 DEF Handled
    <2> QED
      BY <1>2, <2>2 DEF Load, Still
  <1>3. CASE CompareWord \/ CompareByte \/ Jump
    <2>1. CASE step = "compare"
      BY <1>3, <2>1 DEF CompareWord, CompareByte, Jump, Enter, Still
    <2>2. CASE step # "compare"
      <3>1. Jump
        BY <1>3, <2>2 DEF CompareWord, CompareByte
      <3>2. code[at] \in Other
        BY <3>1, CodeAt DEF Jump, IInv, TypeOK
      <3>3. PICK d \in Blocks : Enter(Head0(d))
        BY <3>1, <3>2 DEF Jump, Other
      <3> QED
        BY <3>3 DEF Enter, Head0, Still
    <2> QED
      BY <2>1, <2>2
  <1>4. CASE UNCHANGED vars
    BY <1>4 DEF vars, run, Still
  <1> QED
    BY <1>1, <1>2, <1>3, <1>4 DEF Next, Pass, Execute, Store, Write, Handled, Still

(* When the pass handles every test, a decision is never about a variable  *)
(* that changed since its load.                                            *)
THEOREM StillInvariance ==
  ASSUME Handled
  PROVE  Spec => [](IInv /\ Still)
  <1>1. Init => Still
    BY DEF Init, Still
  <1>2. IInv /\ Still /\ [Next]_vars => Still'
    BY StillStep
  <1> QED
    BY <1>1, <1>2, Invariance, PTL DEF Spec

(* A decision is the source's.                                             *)
LEMMA DecisionIsTheSource ==
  ASSUME Handled, IInv, Still, [Next]_vars, NEW b \in Blocks, Decides(b)
  PROVE  at' = Head0(Outcome(loaded, function[b]))
  <1> DEFINE t == function[b]
             k == at[2]
  <1>1. /\ t \in Terminator /\ t.op = "test" /\ function \in Functions
        /\ b = at[1] /\ step = "compare"
    BY DecidingStep DEF IInv, TypeOK, Decides
  <1>2. /\ t.size \in 1 .. MaxSize /\ t.size <= WordBytes /\ WordBytes \in Nat
        /\ MaxSize \in Nat /\ DOMAIN mem = 0 .. (MaxSize - 1)
        /\ \A j \in 0 .. (t.size - 1) : t.magic[j] < Half
    BY <1>1, TestFields, FunctionAssumption, PassAssumption DEF IInv, TypeOK, Word, Handled
  <1>3. Outcome(loaded, t) = IF Equal(loaded, t) THEN MatchOf(t) ELSE NoMatchOf(t)
    BY <1>1, OutcomeOfMatch DEF IInv, TypeOK
  <1>4. loaded = mem /\ \A j \in DOMAIN mem : seen[j] = {mem[j]}
    BY <1>1 DEF Still
  <1>5. ASSUME NEW c \in Byte, k \in 0 .. (t.size - 1), mem[k] \in Byte,
               k < WordBytes => c = t.magic[k]
        PROVE  /\ SignExtended(mem[k]) = c /\ k = t.size - 1 => Equal(loaded, t)
               /\ SignExtended(mem[k]) # c => ~Equal(loaded, t)
    <2>1. c = t.magic[k] /\ c < Half
      BY <1>2, <1>5
    <2>2. SignExtended(mem[k]) # c => mem[k] # c
      BY <1>5, <2>1, SignExtensionOfByte, FunctionAssumption DEF Byte
    <2>3. SignExtended(mem[k]) = c => mem[k] = c
      BY <1>5, SignExtensionOfByte
    <2>4. \A j \in 0 .. (k - 1) : mem[j] = t.magic[j]
      <3>1. \A j \in 0 .. (k - 1) : j < WordBytes /\ j \in DOMAIN mem
        BY <1>2, <1>5
      <3>2. \A j \in 0 .. (k - 1) : t.magic[j] \in seen[j]
        BY <1>1, <3>1 DEF IInv, RunInv
      <3> QED
        BY <1>4, <3>1, <3>2
    <2>5. ASSUME k = t.size - 1, mem[k] = c
          PROVE  Equal(loaded, t)
      <3>1. \A j \in 0 .. (t.size - 1) : j = k \/ j \in 0 .. (k - 1)
        BY <1>2, <2>5
      <3> QED
        BY <1>4, <2>1, <2>4, <2>5, <3>1 DEF Equal
    <2> QED
      BY <1>4, <1>5, <2>1, <2>2, <2>3, <2>5 DEF Equal
  <1> QED
    BY <1>3, <1>5, DecidingStep DEF IInv

(* For any function whose magic numbers have no sign bits and fit into an  *)
(* int32, each test leads where the source's comparison leads.             *)
THEOREM BranchesAreTheSame ==
  ASSUME Handled
  PROVE  Spec => SameBranch
  <1>1. IInv /\ Still /\ [Next]_vars =>
          [\A b \in Blocks : Decides(b) => at' = Head0(Outcome(loaded, function[b]))]_vars
    BY DecisionIsTheSource
  <1> QED
    BY <1>1, StillInvariance, PTL DEF Spec, SameBranch

LEMMA SameFunctions ==
  /\ Source!Word = Word /\ Source!Test = Test /\ Source!Other = Other
  /\ \A w, t : Source!Outcome(w, t) = Outcome(w, t)
  BY DEF Source!Word, Source!Byte, Source!Test, Source!Other, Source!Outcome, Source!Equal,
     Word, Byte, Test, Other, Outcome, Equal

LEMMA SourceInit ==
  ASSUME Init
  PROVE  Source!Init
  BY SameFunctions, FunctionAssumption DEF Init, Source!Init, Head0

LEMMA SourceStep ==
  ASSUME Handled, IInv, Still, [Next]_vars
  PROVE  [Source!Next]_(Source!vars)
  <1> DEFINE b == at[1]
             t == function[b]
  <1>0. at \in DOMAIN code /\ b \in Blocks /\ t \in Terminator
    BY CodeAt DEF IInv, TypeOK
  <1>1. CASE Rewrite \/ Leave
    BY <1>1 DEF Rewrite, Leave, run, Source!vars
  <1>2. CASE Load
    <2>1. t \in Test
      BY <1>0, <1>2, CodeAt, TestFields DEF Load, IInv
    <2> QED
      BY <1>2, <2>1, SameFunctions DEF Load, Source!Next, Source!Execute, Source!Load, pass
  <1>3. CASE CompareWord
    <2>1. Enter(Head0(Outcome(loaded, t)))
      BY <1>0, <1>3, CodeAt DEF CompareWord, IInv
    <2> QED
      BY <1>3, <2>1, SameFunctions DEF CompareWord, Enter, pass, Head0, Source!Next, Source!Execute,
         Source!Branch, Source!Enter
  <1>4. CASE CompareByte /\ step' = "load"
    <2>1. Decides(b)
      BY <1>4 DEF CompareByte, Decides
    <2>2. at' = Head0(Outcome(loaded, t))
      BY <1>0, <2>1, DecisionIsTheSource
    <2> QED
      BY <1>4, <2>2, SameFunctions DEF CompareByte, Enter, pass, Head0, Source!Next, Source!Execute,
         Source!Branch, Source!Enter
  <1>5. CASE CompareByte /\ step' # "load"
    <2>1. \A d : ~Enter(Head0(d))
      BY <1>5 DEF Enter, Head0
    <2>2. Enter(<<b, at[2] + 1>>)
      BY <1>5, <2>1, CompareByteTarget DEF IInv
    <2>3. at'[1] = at[1] /\ step' = "compare" /\ step = "compare"
      BY <1>5, <2>2 DEF Enter, CompareByte
    <2> QED
      BY <2>2, <2>3 DEF Enter, Source!vars
  <1>6. CASE Jump
    <2>1. code[at] = t /\ t \in Other
      BY <1>0, <1>6, CodeAt DEF Jump, IInv
    <2>2. PICK d \in t.to : Enter(Head0(d))
      BY <1>6, <2>1 DEF Jump
    <2> QED
      BY <1>6, <2>1, <2>2, SameFunctions DEF Jump, Enter, pass, Head0, Source!Next, Source!Execute,
         Source!Jump, Source!Enter
  <1>7. CASE UNCHANGED vars
    BY <1>7 DEF vars, run, Source!vars
  <1> QED
    BY <1>1, <1>2, <1>3, <1>4, <1>5, <1>6, <1>7
    DEF Next, Pass, Execute, Store, Write, Handled, Still

(* For any such function, every run of what the pass leaves is a run of    *)
(* the source: the steps of a chain but the last are invisible.            *)
THEOREM Implementation ==
  ASSUME Handled
  PROVE  Spec => Source!Safety
  <1>1. Init => Source!Init
    BY SourceInit
  <1>2. IInv /\ Still /\ [Next]_vars => [Source!Next]_(Source!vars)
    BY SourceStep
  <1> QED
    BY <1>1, <1>2, StillInvariance, PTL DEF Spec, Source!Safety
=============================================================================
