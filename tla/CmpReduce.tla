------------------------------ MODULE CmpReduce ------------------------------
(***************************************************************************)
(* CmpReducePass (src/cmp_reduce/pass.cpp) and the function it leaves.     *)
(* The pass visits the basic blocks in order and replaces a comparison of  *)
(* an integer of four bytes or more by a chain of blocks that each load,   *)
(* compare and branch on one byte.  Then the function runs, possibly while *)
(* another thread or a signal handler writes the variable it tests.        *)
(*                                                                         *)
(* splitBasicBlock leaves the head of a block under its name: <<b, 0>> is  *)
(* block b of the source and <<b, k>> the block of the k-th split.         *)
(***************************************************************************)
EXTENDS IRFunction, Sequences

CONSTANTS
  Order,      (* the function's blocks in the order it lists them          *)
  Joins,      (* blocks that start with a phi                              *)
  WordBytes,  (* bytes of a uint32_t, and the smallest size rewritten: 4   *)
  Shared      (* whether somebody else writes the variable meanwhile       *)

Label == Blocks \X (0 .. MaxSize)
Head0(b) == <<b, 0>>

ASSUME PassAssumption ==
  /\ Order \in Seq(Blocks)
  /\ \A b \in Blocks : \E i \in DOMAIN Order : Order[i] = b
  /\ Joins \subseteq Blocks
  /\ WordBytes \in Nat \ {0}
  /\ Shared \in BOOLEAN

(* A block made by the pass: test byte "index" against "const".            *)
ByteTest == [op : {"byte"}, index : 0 .. (MaxSize - 1), const : Byte,
             yes : Label, no : Label]
Unreachable == [op |-> "unreachable"]

VARIABLES
  function,  (* the source                                                 *)
  code,      (* the terminator of each block                               *)
  phi,       (* for each block that starts with a phi, whom it expects     *)
  todo,      (* blocks the pass manager has yet to visit                   *)
  mem,       (* the variable                                               *)
  at,        (* the block control is in                                    *)
  step,      (* how far it is in that block                                *)
  loaded,    (* the register with the variable's value                     *)
  seen       (* history: what each byte has been since that load           *)

pass == <<code, phi, todo>>
run == <<mem, at, step, loaded, seen>>
vars == <<function, pass, run>>

-----------------------------------------------------------------------------
(* The pass.                                                               *)

Successors(t) ==
  CASE t.op = "test" -> {Head0(t.yes), Head0(t.no)}
    [] t.op = "byte" -> {t.yes, t.no}
    [] t.op = "other" -> {Head0(b) : b \in t.to}
    [] OTHER -> {}

Predecessors(b) == {l \in DOMAIN code : Head0(b) \in Successors(code[l])}

(* value_match_successor and value_not_match_successor.                    *)
MatchOf_NotSwapped(t) == t.yes
MatchOf(t) == IF t.ne THEN t.no ELSE t.yes
NoMatchOf(t) == IF t.ne THEN t.yes ELSE t.no

(* The comparison is rewritten when an operand is a load, the other a      *)
(* constant, and their type has four bytes or more.  A block the pass      *)
(* made compares a sign extension, which is no load.                       *)
Rewritable_Wider(t) == t.op = "test" /\ t.size > WordBytes
Rewritable(t) == t.op = "test" /\ t.size >= WordBytes

(* The byte that each split compares with: bits 8k .. 8k+7 of the magic    *)
(* number, kept in a uint32_t.  Shifting that by 32 or more is undefined.  *)
MagicBytes_BigEndian(t) ==
  {[k \in 0 .. (t.size - 1) |-> t.magic[t.size - 1 - k]]}
MagicBytes(t) ==
  {c \in [0 .. (t.size - 1) -> Byte] :
     \A k \in 0 .. (t.size - 1) : k < WordBytes => c[k] = t.magic[k]}

(* The k-th block that stands for the comparison t of block b.             *)
ByteBlock_Short(b, t, k, c) ==
  [op |-> "byte", index |-> k, const |-> c,
   yes |-> IF k >= t.size - 2 THEN Head0(MatchOf(t)) ELSE <<b, k + 1>>,
   no |-> Head0(NoMatchOf(t))]
ByteBlock_FallsThrough(b, t, k, c) ==
  [op |-> "byte", index |-> k, const |-> c,
   yes |-> IF k = t.size - 1 THEN Head0(MatchOf(t)) ELSE <<b, k + 1>>,
   no |-> IF k = t.size - 1 THEN Head0(NoMatchOf(t)) ELSE <<b, k + 1>>]
ByteBlock(b, t, k, c) ==
  [op |-> "byte", index |-> k, const |-> c,
   yes |-> IF k = t.size - 1 THEN Head0(MatchOf(t)) ELSE <<b, k + 1>>,
   no |-> Head0(NoMatchOf(t))]

Chain(b, t, c) ==
  [l \in {b} \X (0 .. t.size) |->
     IF l[2] = t.size THEN Unreachable ELSE ByteBlock(b, t, l[2], c[l[2]])]

(* The code with these blocks put in.                                      *)
WithChain(b, t, c) ==
  [l \in (DOMAIN Chain(b, t, c)) \cup DOMAIN code |->
     IF l \in DOMAIN Chain(b, t, c) THEN Chain(b, t, c)[l] ELSE code[l]]

(* splitBasicBlock tells the phis of the successors that they are now      *)
(* entered from the block split off; nobody tells them of the branches     *)
(* made afterwards.                                                        *)
Redirected_KeepsHead(b, n) ==
  [s \in Joins |-> IF Head0(b) \in phi[s] THEN phi[s] \cup {<<b, n>>} ELSE phi[s]]
Redirected(b, n) ==
  [s \in Joins |-> IF Head0(b) \in phi[s] THEN (phi[s] \ {Head0(b)}) \cup {<<b, n>>}
                   ELSE phi[s]]

(* runOnBasicBlock.  The new blocks follow the old one in the function, so *)
(* the pass manager comes to them next.                                    *)
Rewrite ==
  LET b == Head(todo)[1]
      t == code[Head(todo)]
  IN  /\ todo # << >>
      /\ Rewritable(t)
      /\ \E c \in MagicBytes(t) : code' = WithChain(b, t, c)
      /\ phi' = Redirected(b, t.size)
      /\ todo' = [k \in 1 .. t.size |-> <<b, k>>] \o Tail(todo)
      /\ UNCHANGED <<function, run>>

Leave ==
  /\ todo # << >>
  /\ ~Rewritable(code[Head(todo)])
  /\ todo' = Tail(todo)
  /\ UNCHANGED <<function, code, phi, run>>

-----------------------------------------------------------------------------
(* The function.                                                           *)

Running == todo = << >>

(* Control reaches block l.                                                *)
Enter(l) ==
  /\ at' = l
  /\ step' = IF l[2] = 0 THEN "load" ELSE "compare"
  /\ UNCHANGED <<function, pass, mem, loaded>>

(* The load of the whole variable.  The pass does not remove it.           *)
Load ==
  /\ Running
  /\ step = "load"
  /\ code[at].op \in {"test", "byte"}
  /\ loaded' = mem
  /\ seen' = [k \in DOMAIN mem |-> {mem[k]}]
  /\ step' = IF function[at[1]].stores THEN "store" ELSE "compare"
  /\ UNCHANGED <<function, pass, mem, at>>

(* The variable becomes w.                                                 *)
Become(w) ==
  /\ mem' = w
  /\ seen' = [k \in DOMAIN w |-> seen[k] \cup {w[k]}]
  /\ UNCHANGED <<function, pass, at, loaded>>

(* What stands between the load and the comparison stores to the variable. *)
Store ==
  /\ Running
  /\ step = "store"
  /\ \E w \in Word : Become(w)
  /\ step' = "compare"

(* The original comparison, of the value loaded.                           *)
CompareWord ==
  /\ Running
  /\ step = "compare"
  /\ code[at].op = "test"
  /\ Enter(Head0(Outcome(loaded, code[at])))
  /\ UNCHANGED seen

(* sext i8 to i32.                                                         *)
SignExtended(v) == IF v < Half THEN v ELSE v - Base

(* The byte comparison, of what the variable's byte is now.                *)
CompareByte ==
  LET t == code[at]
  IN  /\ Running
      /\ step = "compare"
      /\ t.op = "byte"
      /\ Enter(IF SignExtended(mem[t.index]) = t.const THEN t.yes ELSE t.no)
      /\ UNCHANGED seen
Jump ==
  /\ Running
  /\ step = "load"
  /\ code[at].op = "other"
  /\ \E b \in code[at].to : Enter(Head0(b))
  /\ UNCHANGED seen

(* Another thread or a signal handler stores to the variable.              *)
Write ==
  /\ Running
  /\ Shared
  /\ \E w \in Word : Become(w)
  /\ UNCHANGED step

-----------------------------------------------------------------------------

Init ==
  /\ function \in Functions
  /\ code = [l \in Blocks \X {0} |-> function[l[1]]]
  /\ phi = [s \in Joins |-> Predecessors(s)]
  /\ todo = [i \in DOMAIN Order |-> Head0(Order[i])]
  /\ mem \in Word
  /\ at = Head0(Start)
  /\ step = "load"
  /\ loaded = mem
  /\ seen = [k \in DOMAIN mem |-> {mem[k]}]

Pass == Rewrite \/ Leave
Execute == Load \/ Store \/ CompareWord \/ CompareByte \/ Jump
Next == Pass \/ Execute \/ Write

Spec == Init /\ [][Next]_vars

(* The compiler finishes and the function keeps running; nobody has to     *)
(* write the variable.                                                     *)
FairSpec == Spec /\ WF_vars(Pass) /\ WF_vars(Execute)

-----------------------------------------------------------------------------
(* Properties.                                                             *)

TypeOK ==
  /\ function \in Functions
  /\ DOMAIN code \subseteq Label
  /\ Blocks \X {0} \subseteq DOMAIN code
  /\ \A l \in DOMAIN code : code[l] \in Terminator \cup ByteTest \cup {Unreachable}
  /\ phi \in [Joins -> SUBSET Label]
  /\ todo \in Seq(DOMAIN code)
  /\ mem \in Word
  /\ at \in DOMAIN code
  /\ step \in {"load", "store", "compare"}
  /\ loaded \in Word
  /\ seen \in [DOMAIN mem -> SUBSET Byte]

(* When the pass has visited every block, no test of a whole word is left  *)
(* for the fuzzer to guess at once (the README's purpose of the pass).     *)
Reduced ==
  Running => \A i \in DOMAIN Order :
    LET t == code[Head0(Order[i])]
    IN  t.op = "test" => t.size < WordBytes

(* Control never reaches the block left over by the last split, which ends *)
(* in unreachable (pass.cpp:144-145), nor a block that does not exist.     *)
NeverUnreachable == at \in DOMAIN code /\ code[at] # Unreachable

(* The chain of block b comes to a decision.                               *)
Decides(b) == at[1] = b /\ step = "compare" /\ step' = "load"

(* Each test, rewritten or not, leads where the comparison of the source   *)
(* leads for the value that the test loaded (README.md:9: the comparison   *)
(* is divided into comparisons of bytes).                                  *)
SameBranch ==
  [][\A b \in Blocks : Decides(b) => at' = Head0(Outcome(loaded, function[b]))]_vars

(* Even if the variable changes between the accesses of a chain, taking    *)
(* the branch for a match shows that each of the first four bytes has been *)
(* the magic number's since the test began, and taking the other that one  *)
(* has been another, unless the magic number has a byte with a sign bit or *)
(* more than four bytes.                                                   *)
DecisionIsSeen(b) ==
  LET t == function[b]
  IN  Decides(b) /\ t.yes # t.no =>
        IF at' = Head0(MatchOf(t))
        THEN \A k \in 0 .. (t.size - 1) : k < WordBytes => t.magic[k] \in seen[k]
        ELSE \/ \E k \in 0 .. (t.size - 1) : seen[k] # {t.magic[k]}
             \/ \E k \in 0 .. (t.size - 1) : t.magic[k] >= Half
             \/ t.size > WordBytes
DecisionsAreSeen == [][\A b \in Blocks : DecisionIsSeen(b)]_vars

(* A phi keeps one entry for each block of the source that leads to its    *)
(* own, now under the name of the last block split off that one.  For a    *)
(* test that was rewritten this is the unreachable block: the branches of  *)
(* its chain are in no phi.                                                *)
LastSplit(b) == IF Rewritable(function[b]) THEN <<b, function[b].size>> ELSE Head0(b)
PhisFollowSplits ==
  Running => \A s \in Joins :
    phi[s] = {LastSplit(b) : b \in {d \in Blocks : Head0(s) \in Successors(function[d])}}

(* The inductive invariant behind these.  Each block is a test or another  *)
(* end of the source, a byte of the chain that replaces one, or the rest   *)
(* of the last split ...                                                   *)
CodeInv ==
  \A l \in DOMAIN code :
    LET t == function[l[1]]
    IN  \/ l[2] = 0 /\ code[l] = t
        \/ t.op = "test" /\ l[2] = t.size /\ code[l] = Unreachable
        \/ /\ t.op = "test" /\ l[2] < t.size
           /\ <<l[1], l[2] + 1>> \in DOMAIN code
           /\ \E c \in Byte : /\ l[2] < WordBytes => c = t.magic[l[2]]
                             /\ code[l] = ByteBlock(l[1], t, l[2], c)

(* ... and control gets as far into a chain as the bytes have matched.     *)
RunInv ==
  LET t == function[at[1]]
  IN  /\ step # "compare" => at[2] = 0
      /\ step # "load" => Running /\ t.op = "test" /\ at[2] < t.size
      /\ \A k \in DOMAIN mem : mem[k] \in seen[k] /\ loaded[k] \in seen[k]
      /\ \A k \in 0 .. (at[2] - 1) : k < WordBytes => t.magic[k] \in seen[k]

IInv == TypeOK /\ CodeInv /\ RunInv

(* The function that the pass leaves does what its source does, chain for  *)
(* comparison, and comes to a decision whenever the source does.           *)
Source == INSTANCE SourceFunction WITH block <- at[1]
Refines == Source!Spec
=============================================================================
