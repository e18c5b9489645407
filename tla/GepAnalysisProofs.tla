-------------------------- MODULE GepAnalysisProofs --------------------------
(***************************************************************************)
(* Proofs about GepAnalysis, for functions of any length and shape.        *)
(***************************************************************************)
EXTENDS AddressAnalyses, SequenceTheorems, TLAPS

Frames == [inst : Instrs, op : Nat]

(* The instructions and their operands.                                    *)
LEMMA CodeShape ==
  ASSUME code \in Codes
  PROVE  /\ Len(code) \in Nat /\ Instrs = 1 .. Len(code)
         /\ \A i \in Instrs : code[i].ops \in Seq(Int)
         /\ \A i \in Instrs : Len(code[i].ops) \in Nat /\ DOMAIN code[i].ops = 1 .. Len(code[i].ops)
<1>1. code \in Seq(Instruction)
  BY CodeAssumption
<1>2. \A i \in Instrs : code[i] \in Instruction
  BY <1>1 DEF Instrs
<1> QED
  BY <1>1, <1>2 DEF Instrs, Instruction

LEMMA TopIs ==
  ASSUME GepTypeOK, stack # << >>
  PROVE  /\ Len(stack) \in Nat /\ Len(stack) >= 1 /\ DOMAIN stack = 1 .. Len(stack)
         /\ top \in Frames /\ top = stack[Len(stack)] /\ Len(stack) \in DOMAIN stack
<1>1. stack \in Seq(Frames) /\ Len(stack) \in Nat /\ Len(stack) # 0
  BY EmptySeq DEF GepTypeOK, Frames
<1> QED
  BY <1>1 DEF top

(* The three ways the stack changes.                                       *)
LEMMA PopIs ==
  ASSUME NEW S, NEW s \in Seq(S), s # << >>
  PROVE  /\ Front(s) \in Seq(S) /\ DOMAIN Front(s) = 1 .. Len(s) - 1 /\ Len(Front(s)) = Len(s) - 1
         /\ \A j \in 1 .. Len(s) - 1 : Front(s)[j] = s[j]
<1> DEFINE n == Len(s)  f == SubSeq(s, 1, n - 1)
<1>1. n \in Nat /\ n >= 1
  BY EmptySeq
<1>2. \A i \in 1 .. n - 1 : s[i] \in S
  BY <1>1, ElementOfSeq
<1>3. /\ f \in Seq(S) /\ Len(f) = IF 1 <= n - 1 THEN n - 1 - 1 + 1 ELSE 0
      /\ \A i \in 1 .. n - 1 - 1 + 1 : f[i] = s[1 + i - 1]
  BY <1>1, <1>2, SubSeqProperties
<1>4. Front(s) = f
  BY DEF Front
<1>5. DOMAIN f = 1 .. Len(f)
  BY <1>3, LenProperties
<1> HIDE DEF n, f
<1>6. Len(f) = n - 1 /\ \A j \in 1 .. n - 1 : f[j] = s[j]
  BY <1>1, <1>3
<1> QED
  BY <1>3, <1>4, <1>5, <1>6 DEF n

LEMMA BecomesIs ==
  ASSUME GepTypeOK, stack # << >>, NEW i \in Nat
  PROVE  /\ Becomes(i) \in Seq(Frames) /\ Len(Becomes(i)) = Len(stack)
         /\ DOMAIN Becomes(i) = DOMAIN stack
         /\ Becomes(i)[Len(stack)] = [inst |-> top.inst, op |-> i]
         /\ \A j \in DOMAIN stack : j # Len(stack) => Becomes(i)[j] = stack[j]
<1>1. stack \in Seq(Frames)
  BY DEF GepTypeOK, Frames
<1>2. [top EXCEPT !.op = i] = [inst |-> top.inst, op |-> i] /\ [top EXCEPT !.op = i] \in Frames
  BY TopIs DEF Frames
<1> QED
  BY <1>1, <1>2, TopIs DEF Becomes

LEMMA PushIs ==
  ASSUME NEW S, NEW s \in Seq(S), NEW x \in S
  PROVE  /\ s \o <<x>> \in Seq(S) /\ Len(s \o <<x>>) = Len(s) + 1
         /\ DOMAIN (s \o <<x>>) = 1 .. Len(s) + 1
         /\ (s \o <<x>>)[Len(s) + 1] = x
         /\ \A j \in 1 .. Len(s) : (s \o <<x>>)[j] = s[j]
<1>1. <<x>> \in Seq(S) /\ Len(<<x>>) = 1 /\ <<x>>[1] = x
  OBVIOUS
<1> QED
  BY <1>1, ConcatProperties

-----------------------------------------------------------------------------
(* The search.  While it is under way there are no reports.                *)

LEMMA NoReports ==
  ASSUME GepInv, ~Searched, UNCHANGED <<code, allocas, line, reports>>
  PROVE  ReportInv'
<1>1. line = 0 /\ reports = << >>
  BY DEF GepInv, ReportInv
<1> QED
  BY <1>1 DEF ReportInv, GepInv

LEMMA MeetKeeps ==
  ASSUME GepInv, Meet
  PROVE  GepInv'
<1> USE DEF GepInv
<1>1. /\ stack = << >> /\ at <= Len(code) /\ at' = at + 1
      /\ stack' = IF code[at].kind = "gep" THEN <<Call(at)>> ELSE << >>
      /\ UNCHANGED <<code, bt_visited, allocas, line, reports>>
  BY DEF Meet
<1>2. at \in Instrs /\ at \in Nat /\ Instrs' = Instrs
  BY <1>1, CodeShape DEF GepTypeOK, Instrs
<1>3. /\ stack' \in Seq(Frames)
      /\ code[at].kind # "gep" => DOMAIN stack' = {}
      /\ code[at].kind = "gep" => DOMAIN stack' = {1} /\ Len(stack') = 1 /\ stack'[1] = Call(at)
  <2>1. Call(at) \in Frames
    BY <1>2 DEF Call, Frames
  <2>2. CASE code[at].kind = "gep"
    <3>1. stack' = <<Call(at)>>
      BY <1>1, <2>2
    <3> QED
      BY <2>1, <2>2, <3>1
  <2>3. CASE code[at].kind # "gep"
    <3>1. stack' = << >>
      BY <1>1, <2>3
    <3> QED
      BY <2>3, <3>1
  <2> QED
    BY <2>2, <2>3
<1>4. \A i \in Geps : code[i].kind = "gep" /\ i \in Instrs /\ i \in Nat
  BY CodeShape DEF Geps, Of, GepTypeOK
<1>5. Geps' = Geps /\ Of("alloca")' = Of("alloca") /\ (\A S : Backward(S)' <=> Backward(S)) /\ \A i : IsAlloca(i)' <=> IsAlloca(i)
  BY <1>1 DEF Geps, Of, Instrs, Backward, IsAlloca, Operands
<1>6. GepTypeOK'
  BY <1>1, <1>2, <1>3, CodeShape DEF GepTypeOK, Frames, Instrs
<1>7. DOMAIN stack = {} /\ Waiting = {} /\ Waiting' = {}
  <2>1. \A j \in DOMAIN stack' : stack'[j].op = 0
    BY <1>3 DEF Call
  <2>2. DOMAIN stack = {}
    BY <1>1
  <2> QED
    BY <2>1, <2>2 DEF Waiting
<1>8. RecursionIsBounded'
  <2>1. ASSUME NEW j \in DOMAIN stack' PROVE ~ j < Len(stack')
    <3>1. j = 1 /\ Len(stack') = 1
      BY <1>3
    <3> QED
      BY <3>1
  <2> QED
    BY <1>7, <2>1 DEF RecursionIsBounded
<1>9. \A i \in Geps : i < at' => i \in bt_visited \/ Entered(i)'
  <2> TAKE i \in Geps
  <2> HAVE i < at'
  <2>1. CASE i < at
    BY <2>1, <1>7 DEF SearchInv, Entered
  <2>2. CASE i = at
    BY <2>2, <1>3, <1>4 DEF Entered
  <2> QED
    BY <1>1, <1>2, <1>4, <2>1, <2>2
<1>10. \A S \in SUBSET Instrs : Backward(S) =>
         bt_visited \subseteq S /\ \A j \in DOMAIN stack' : stack'[j].inst \in S
  <2> TAKE S \in SUBSET Instrs
  <2> HAVE Backward(S)
  <2>1. bt_visited \subseteq S
    BY DEF SearchInv
  <2>2. code[at].kind = "gep" => at \in S
    BY <1>2 DEF Backward, Geps, Of
  <2> QED
    BY <1>3, <2>1, <2>2 DEF Call
<1>11. \A i \in bt_visited : ~IsAlloca(i) => \A k \in DOMAIN code[i].ops :
         code[i].ops[k] \in Instrs => code[i].ops[k] \in bt_visited
  BY <1>7 DEF SearchInv, Waits, Entered
<1>12. SearchInv'
  BY <1>1, <1>2, <1>5, <1>7, <1>8, <1>9, <1>10, <1>11 DEF SearchInv
<1>13. ReportInv'
  <2>1. ~Searched
    BY <1>1, <1>2, CodeShape DEF Searched, GepTypeOK
  <2> QED
    BY <1>1, <2>1, NoReports
<1> QED
  BY <1>6, <1>12, <1>13

(* What every step of the search but Meet keeps.                           *)
LEMMA SearchStep ==
  ASSUME GepInv, stack # << >>, UNCHANGED <<code, at, line, reports>>,
         stack' \in Seq(Frames), RecursionIsBounded',
         bt_visited' \subseteq Instrs, allocas' \in Seq(Instrs),
         \A j \in Waiting' : stack'[j].inst \in bt_visited' /\ ~IsAlloca(stack'[j].inst),
         \A S \in SUBSET Instrs : Backward(S) =>
           bt_visited' \subseteq S /\ \A j \in DOMAIN stack' : stack'[j].inst \in S,
         \A i \in bt_visited' : ~IsAlloca(i) => \A k \in DOMAIN code[i].ops :
           \A o \in Instrs : o = code[i].ops[k] =>
             o \in bt_visited' \/ Waits(i, k)' \/ Entered(o)',
         \A i \in Instrs : Entered(i) => i \in bt_visited' \/ Entered(i)',
         bt_visited \subseteq bt_visited',
         \A j, k \in DOMAIN allocas' : allocas'[j] = allocas'[k] => j = k,
         \A i \in Of("alloca") :
           i \in bt_visited' <=> \E k \in DOMAIN allocas' : allocas'[k] = i
  PROVE  GepInv'
<1>1. /\ Instrs' = Instrs /\ Geps' = Geps /\ Of("alloca")' = Of("alloca")
      /\ \A i : IsAlloca(i)' <=> IsAlloca(i)
      /\ \A S : Backward(S)' <=> Backward(S)
  BY DEF Geps, Of, Instrs, Backward, IsAlloca, Operands
<1>2. GepTypeOK'
  BY <1>1 DEF GepInv, GepTypeOK, Frames
<1>3. \A i \in Geps : i < at' => i \in bt_visited' \/ Entered(i)'
  <2>1. \A i \in Geps : i < at => i \in bt_visited \/ Entered(i)
    BY DEF GepInv, SearchInv
  <2>2. Geps \subseteq Instrs
    BY DEF Geps, Of
  <2> QED
    BY <2>1, <2>2
<1>4. (\A i \in bt_visited : ~IsAlloca(i) => \A k \in DOMAIN code[i].ops :
         code[i].ops[k] \in Instrs =>
           \/ code[i].ops[k] \in bt_visited
           \/ Waits(i, k)
           \/ Entered(code[i].ops[k]))'
  <2> SUFFICES ASSUME NEW i \in bt_visited', ~IsAlloca(i), NEW k \in DOMAIN code[i].ops,
                      NEW o \in Instrs, o = code[i].ops[k]
               PROVE  o \in bt_visited' \/ Waits(i, k)' \/ Entered(o)'
    <3>1. code' = code
      OBVIOUS
    <3> QED
      BY <1>1, <3>1 DEF Entered, Waits
  <2> QED
    OBVIOUS
<1>5. SearchInv'
  BY <1>1, <1>3, <1>4 DEF SearchInv
<1>6. ReportInv'
  <2>1. line = 0 /\ reports = << >>
    BY DEF GepInv, ReportInv, Searched
  <2> QED
    BY <2>1 DEF ReportInv, GepTypeOK, GepInv
<1> QED
  BY <1>2, <1>5, <1>6 DEF GepInv

(* Popping a call that is done, or whose instruction was visited.          *)
LEMMA PopKeeps ==
  ASSUME GepInv, stack # << >>, stack' = Front(stack),
         UNCHANGED <<code, at, line, reports>>,
         bt_visited \subseteq bt_visited', bt_visited' \subseteq bt_visited \cup {top.inst},
         bt_visited' = bt_visited \/ IsAlloca(top.inst),
         top.inst \in bt_visited',
         top.op # 0 => top.op > Len(code[top.inst].ops),
         allocas' \in Seq(Instrs),
         \A j, k \in DOMAIN allocas' : allocas'[j] = allocas'[k] => j = k,
         \A i \in Of("alloca") :
           i \in bt_visited' <=> \E k \in DOMAIN allocas' : allocas'[k] = i
  PROVE  GepInv'
<1>1. /\ stack \in Seq(Frames) /\ top.inst \in Instrs /\ top = stack[Len(stack)] /\ top \in Frames
      /\ Len(stack) \in Nat /\ DOMAIN stack = 1 .. Len(stack)
  BY TopIs DEF GepInv, GepTypeOK, Frames
<1>2. /\ stack' \in Seq(Frames) /\ DOMAIN stack' = 1 .. Len(stack) - 1
      /\ Len(stack') = Len(stack) - 1
      /\ \A j \in 1 .. Len(stack) - 1 : stack'[j] = stack[j]
  <2> DEFINE f == Front(stack)
  <2>1. /\ f \in Seq(Frames) /\ DOMAIN f = 1 .. Len(stack) - 1 /\ Len(f) = Len(stack) - 1
        /\ \A j \in 1 .. Len(stack) - 1 : f[j] = stack[j]
    <3>1. stack \in Seq(Frames) /\ stack # << >>
      BY <1>1
    <3> QED
      BY <3>1, PopIs, Zenon
  <2>2. stack' = f
    OBVIOUS
  <2> HIDE DEF f
  <2> QED
    BY <2>1, <2>2
<1>3. /\ DOMAIN stack' \subseteq DOMAIN stack
      /\ \A j \in DOMAIN stack' : stack'[j] = stack[j]
      /\ \A j \in DOMAIN stack : j = Len(stack) \/ j \in DOMAIN stack'
  BY <1>1, <1>2
<1>4. Waiting' \subseteq Waiting /\ \A j \in Waiting : j = Len(stack) \/ j \in Waiting'
  BY <1>3 DEF Waiting
<1>5. RecursionIsBounded'
  <2>1. \A j, k \in Waiting' : stack'[j].inst = stack'[k].inst => j = k
    BY <1>3, <1>4 DEF GepInv, SearchInv, RecursionIsBounded, Waiting
  <2>2. \A j \in DOMAIN stack' : j \in Waiting'
    <3> TAKE j \in DOMAIN stack'
    <3>1. j \in DOMAIN stack /\ j < Len(stack) /\ j # Len(stack)
      BY <1>1, <1>2
    <3> QED
      BY <1>4, <3>1 DEF GepInv, SearchInv, RecursionIsBounded
  <2> QED
    BY <2>1, <2>2 DEF RecursionIsBounded
<1>6. \A j \in Waiting' : stack'[j].inst \in bt_visited' /\ ~IsAlloca(stack'[j].inst)
  BY <1>3, <1>4 DEF GepInv, SearchInv, Waiting
<1>7. \A S \in SUBSET Instrs : Backward(S) =>
        bt_visited' \subseteq S /\ \A j \in DOMAIN stack' : stack'[j].inst \in S
  BY <1>1, <1>3, TopIs DEF GepInv, SearchInv
<1>8. \A i \in Instrs : Entered(i) => i \in bt_visited' \/ Entered(i)'
  <2> TAKE i \in Instrs
  <2> HAVE Entered(i)
  <2>1. PICK j \in DOMAIN stack : stack[j] = Call(i)
    BY DEF Entered
  <2>2. CASE j = Len(stack)
    BY <1>1, <2>1, <2>2 DEF Call
  <2>3. CASE j \in DOMAIN stack'
    BY <1>3, <2>1, <2>3 DEF Entered
  <2> QED
    BY <1>3, <2>2, <2>3
<1>9. ASSUME NEW i \in bt_visited', ~IsAlloca(i), NEW k \in DOMAIN code[i].ops,
             NEW o \in Instrs, o = code[i].ops[k]
      PROVE  o \in bt_visited' \/ Waits(i, k)' \/ Entered(o)'
  <2>1. i \in bt_visited
    BY <1>9
  <2>2. o \in bt_visited \/ Waits(i, k) \/ Entered(o)
    BY <1>9, <2>1 DEF GepInv, SearchInv
  <2>3. ASSUME Waits(i, k) PROVE Waits(i, k)'
    <3>1. PICK j \in Waiting : stack[j].inst = i /\ stack[j].op <= k
      BY <2>3 DEF Waits
    <3>2. j # Len(stack)
      <4> SUFFICES ASSUME j = Len(stack) PROVE FALSE
        OBVIOUS
      <4>1. top.inst = i /\ top.op <= k /\ top.op # 0
        BY <1>1, <3>1 DEF Waiting
      <4>2. i \in Instrs /\ k \in 1 .. Len(code[i].ops) /\ Len(code[i].ops) \in Nat
        BY <1>1, <1>9, <2>1, CodeShape DEF GepInv, GepTypeOK
      <4>3. top.op \in Nat
        BY <1>1 DEF Frames
      <4> QED
        BY <4>1, <4>2, <4>3
    <3>3. j \in Waiting' /\ stack'[j] = stack[j]
      BY <1>3, <1>4, <3>1, <3>2 DEF Waiting
    <3> QED
      BY <3>1, <3>3 DEF Waits
  <2> QED
    BY <1>8, <2>2, <2>3
<1> QED
  BY <1>1, <1>2, <1>5, <1>6, <1>7, <1>8, <1>9, SearchStep DEF GepInv, GepTypeOK

LEMMA ReturnKeeps ==
  ASSUME GepInv, Return
  PROVE  GepInv'
<1>1. /\ stack # << >> /\ stack' = Front(stack)
      /\ UNCHANGED <<code, at, bt_visited, allocas, line, reports>>
      /\ (top.op = 0 /\ top.inst \in bt_visited) \/ top.op > Len(code[top.inst].ops)
  BY DEF Return
<1>2. top \in Frames /\ top.op \in Nat /\ top = stack[Len(stack)] /\ Len(stack) \in DOMAIN stack
  BY <1>1, TopIs DEF GepInv, Frames
<1>3. top.op # 0 => top.inst \in bt_visited
  BY <1>2 DEF GepInv, SearchInv, Waiting
<1>4. top.op # 0 => top.op > Len(code[top.inst].ops)
  BY <1>1
<1>5. top.inst \in bt_visited
  BY <1>1, <1>3
<1> QED
  BY <1>1, <1>4, <1>5, PopKeeps DEF GepInv, GepTypeOK, SearchInv

LEMMA VisitKeeps ==
  ASSUME GepInv, Visit
  PROVE  GepInv'
<1> DEFINE v == top.inst
<1>1. /\ stack # << >> /\ top.op = 0 /\ v \notin bt_visited
      /\ bt_visited' = bt_visited \cup {v}
      /\ allocas' = IF code[v].kind = "alloca" THEN Append(allocas, v) ELSE allocas
      /\ stack' = IF IsAlloca(v) THEN Front(stack) ELSE Becomes(1)
      /\ UNCHANGED <<code, at, line, reports>>
  BY DEF Visit
<1>2. /\ stack \in Seq(Frames) /\ top \in Frames /\ v \in Instrs /\ top = stack[Len(stack)]
      /\ Len(stack) \in Nat /\ DOMAIN stack = 1 .. Len(stack) /\ Len(stack) \in DOMAIN stack
  BY <1>1, TopIs DEF GepInv, GepTypeOK, Frames
<1> HIDE DEF v
<1>3. \A i \in Of("alloca") : i \in bt_visited <=> \E k \in DOMAIN allocas : allocas[k] = i
  BY DEF GepInv, SearchInv
<1>4. /\ allocas' \in Seq(Instrs)
      /\ \A j, k \in DOMAIN allocas' : allocas'[j] = allocas'[k] => j = k
      /\ \A i \in Of("alloca") :
           i \in bt_visited' <=> \E k \in DOMAIN allocas' : allocas'[k] = i
  <2>0. allocas \in Seq(Instrs) /\ \A j, k \in DOMAIN allocas : allocas[j] = allocas[k] => j = k
    BY DEF GepInv, GepTypeOK, SearchInv
  <2>1. CASE code[v].kind # "alloca"
    <3>1. allocas' = allocas /\ v \notin Of("alloca")
      BY <1>1, <2>1 DEF Of
    <3> QED
      BY <1>1, <1>3, <2>0, <3>1
  <2>2. CASE code[v].kind = "alloca"
    <3>1. /\ v \in Of("alloca") /\ allocas' = Append(allocas, v)
          /\ \A k \in DOMAIN allocas : allocas[k] # v
      BY <1>1, <1>2, <1>3, <2>2 DEF Of
    <3>2. /\ allocas' \in Seq(Instrs) /\ Len(allocas) \in Nat
          /\ DOMAIN allocas = 1 .. Len(allocas) /\ DOMAIN allocas' = 1 .. Len(allocas) + 1
          /\ \A k \in DOMAIN allocas : allocas'[k] = allocas[k]
          /\ allocas'[Len(allocas) + 1] = v
      BY <1>2, <2>0, <3>1, AppendProperties
    <3>3. \A k \in DOMAIN allocas' : k \in DOMAIN allocas \/ k = Len(allocas) + 1
      BY <3>2
    <3>4. Len(allocas) + 1 \in DOMAIN allocas' /\ \A k \in DOMAIN allocas : k \in DOMAIN allocas'
      BY <3>2
    <3>5. \A j, k \in DOMAIN allocas' : allocas'[j] = allocas'[k] => j = k
      BY <2>0, <3>1, <3>2, <3>3
    <3>6. \A i \in Of("alloca") :
            i \in bt_visited' <=> \E k \in DOMAIN allocas' : allocas'[k] = i
      BY <1>1, <1>3, <3>1, <3>2, <3>3, <3>4
    <3> QED
      BY <3>2, <3>5, <3>6
  <2> QED
    BY <2>1, <2>2
<1>5. bt_visited \subseteq bt_visited' /\ v \in bt_visited'
  BY <1>1
<1>6. CASE IsAlloca(v)
  <2>1. stack' = Front(stack)
    BY <1>1, <1>6
  <2> QED
    BY <1>1, <1>4, <1>5, <1>6, <2>1, PopKeeps DEF v
<1>7. CASE ~IsAlloca(v)
  <2>1. stack' = Becomes(1)
    BY <1>1, <1>7
  <2>2. /\ stack' \in Seq(Frames) /\ Len(stack') = Len(stack) /\ DOMAIN stack' = DOMAIN stack
        /\ stack'[Len(stack)] = [inst |-> v, op |-> 1]
        /\ \A j \in DOMAIN stack : j # Len(stack) => stack'[j] = stack[j]
    BY <1>1, <2>1, BecomesIs DEF GepInv, v
  <2>3. /\ \A j \in Waiting : j # Len(stack) /\ j \in DOMAIN stack /\ stack[j].inst # v
        /\ \A j \in Waiting' : j \in Waiting \/ j = Len(stack)
        /\ \A j \in Waiting : j \in Waiting' /\ stack'[j] = stack[j]
    BY <1>1, <1>2, <2>2 DEF Waiting, GepInv, SearchInv
  <2>4. RecursionIsBounded'
    <3>1. \A j, k \in Waiting' : stack'[j].inst = stack'[k].inst => j = k
      BY <2>2, <2>3 DEF GepInv, SearchInv, RecursionIsBounded
    <3>2. \A j \in DOMAIN stack' : j < Len(stack') => j \in Waiting'
      BY <2>2, <2>3 DEF GepInv, SearchInv, RecursionIsBounded
    <3> QED
      BY <3>1, <3>2 DEF RecursionIsBounded
  <2>5. \A j \in Waiting' : stack'[j].inst \in bt_visited' /\ ~IsAlloca(stack'[j].inst)
    BY <1>5, <1>7, <2>2, <2>3 DEF GepInv, SearchInv
  <2>6. \A S \in SUBSET Instrs : Backward(S) =>
          bt_visited' \subseteq S /\ \A j \in DOMAIN stack' : stack'[j].inst \in S
    <3> TAKE S \in SUBSET Instrs
    <3> HAVE Backward(S)
    <3>1. bt_visited \subseteq S /\ \A j \in DOMAIN stack : stack[j].inst \in S
      BY DEF GepInv, SearchInv
    <3>2. v \in S
      BY <1>2, <3>1 DEF v
    <3> QED
      BY <1>1, <2>2, <3>1, <3>2
  <2>7. \A i \in Instrs : Entered(i) => i \in bt_visited' \/ Entered(i)'
    <3> TAKE i \in Instrs
    <3> HAVE Entered(i)
    <3>1. PICK j \in DOMAIN stack : stack[j] = Call(i)
      BY DEF Entered
    <3>2. CASE j = Len(stack)
      BY <1>2, <1>5, <3>1, <3>2 DEF Call, v
    <3>3. CASE j # Len(stack)
      BY <2>2, <3>1, <3>3 DEF Entered
    <3> QED
      BY <3>2, <3>3
  <2>8. ASSUME NEW i \in bt_visited', ~IsAlloca(i), NEW k \in DOMAIN code[i].ops,
               NEW o \in Instrs, o = code[i].ops[k]
        PROVE  o \in bt_visited' \/ Waits(i, k)' \/ Entered(o)'
    <3>1. CASE i = v
      <4>0. v \in Instrs /\ i \in Instrs /\ DOMAIN code[i].ops = 1 .. Len(code[i].ops)
        BY <1>2, <3>1, CodeShape DEF GepInv, GepTypeOK
      <4>1. k \in Nat /\ k >= 1
        BY <4>0, CodeShape DEF GepInv, GepTypeOK
      <4>2. Len(stack) \in Waiting' /\ stack'[Len(stack)].inst = i /\ stack'[Len(stack)].op <= k
        BY <1>2, <2>2, <3>1, <4>1 DEF Waiting
      <4> QED
        BY <4>2 DEF Waits
    <3>2. CASE i # v
      <4>1. i \in bt_visited
        BY <1>1, <3>2
      <4>2. o \in bt_visited \/ Waits(i, k) \/ Entered(o)
        BY <2>8, <4>1 DEF GepInv, SearchInv
      <4>3. Waits(i, k) => Waits(i, k)'
        BY <2>3 DEF Waits
      <4> QED
        BY <1>5, <2>7, <4>2, <4>3
    <3> QED
      BY <3>1, <3>2
  <2>9. bt_visited' \subseteq Instrs
    BY <1>1, <1>2 DEF GepInv, GepTypeOK
  <2> QED
    BY <1>1, <1>4, <1>5, <2>2, <2>4, <2>5, <2>6, <2>7, <2>8, <2>9, SearchStep
<1> QED
  BY <1>6, <1>7

LEMMA OperandKeeps ==
  ASSUME GepInv, Operand
  PROVE  GepInv'
<1> DEFINE v == top.inst  p == top.op  op == code[v].ops[p]  n == Len(stack)  b == Becomes(p + 1)
<1>1. /\ stack # << >> /\ p \in DOMAIN code[v].ops
      /\ stack' = b \o IF op \in Instrs THEN <<Call(op)>> ELSE << >>
      /\ UNCHANGED <<code, at, bt_visited, allocas, line, reports>>
  BY DEF Operand
<1>2. /\ top \in Frames /\ v \in Instrs /\ p \in Nat /\ top = stack[n]
      /\ n \in Nat /\ n >= 1 /\ DOMAIN stack = 1 .. n /\ n \in DOMAIN stack
  BY <1>1, TopIs DEF GepInv, Frames
<1>3. DOMAIN code[v].ops = 1 .. Len(code[v].ops) /\ Len(code[v].ops) \in Nat
  BY <1>2, CodeShape DEF GepInv, GepTypeOK
<1>4. p >= 1 /\ p # 0
  <2> DEFINE m == Len(code[v].ops)
  <2>1. p \in 1 .. m /\ m \in Nat /\ p \in Nat
    BY <1>1, <1>2, <1>3
  <2> HIDE DEF m, p
  <2> QED
    BY <2>1
<1>5. /\ b \in Seq(Frames) /\ Len(b) = n /\ DOMAIN b = 1 .. n
      /\ b[n] = [inst |-> v, op |-> p + 1]
      /\ \A j \in 1 .. n : j # n => b[j] = stack[j]
  <2>1. p + 1 \in Nat
    BY <1>2
  <2> HIDE DEF p
  <2> QED
    BY <1>1, <1>2, <2>1, BecomesIs DEF GepInv
<1>6. Call(op).inst = op /\ Call(op).op = 0 /\ (op \in Instrs => Call(op) \in Frames)
  BY DEF Call, Frames
<1>7. op \in Instrs \/ stack' = b
  BY <1>1, <1>5, ConcatEmptySeq
<1>8. op \in Instrs => /\ stack' \in Seq(Frames) /\ Len(stack') = n + 1
                      /\ DOMAIN stack' = 1 .. n + 1 /\ stack'[n + 1] = Call(op)
                      /\ \A j \in 1 .. n : stack'[j] = b[j]
  <2> SUFFICES ASSUME op \in Instrs PROVE
        /\ b \o <<Call(op)>> \in Seq(Frames) /\ Len(b \o <<Call(op)>>) = n + 1
        /\ DOMAIN (b \o <<Call(op)>>) = 1 .. n + 1 /\ (b \o <<Call(op)>>)[n + 1] = Call(op)
        /\ \A j \in 1 .. n : (b \o <<Call(op)>>)[j] = b[j]
    BY <1>1
  <2>1. Call(op) \in Frames
    BY <1>6
  <2> HIDE DEF b, op, n
  <2> QED
    BY <1>5, <2>1, PushIs
<1>9. op \in Operands(v)
  BY <1>1 DEF Operands
<1>10. v \in bt_visited /\ ~IsAlloca(v)
  BY <1>2, <1>4 DEF GepInv, SearchInv, Waiting
<1> HIDE DEF v, p, op, n, b
<1>11. /\ stack' \in Seq(Frames) /\ 1 .. n \subseteq DOMAIN stack'
       /\ \A j \in 1 .. n : stack'[j] = b[j]
       /\ \A j \in DOMAIN stack' : j < Len(stack') => j \in 1 .. n
       /\ \A j \in DOMAIN stack' : j \in 1 .. n \/ (j = n + 1 /\ op \in Instrs /\ stack'[j] = Call(op))
  <2>1. CASE op \in Instrs
    <3>1. 1 .. n \subseteq 1 .. n + 1 /\ \A j \in 1 .. n + 1 : j \in 1 .. n \/ j = n + 1
      BY <1>2
    <3>2. \A j \in 1 .. n + 1 : j < n + 1 => j \in 1 .. n
      BY <1>2
    <3>3. /\ DOMAIN stack' = 1 .. n + 1 /\ Len(stack') = n + 1 /\ stack' \in Seq(Frames)
          /\ stack'[n + 1] = Call(op)
          /\ \A j \in 1 .. n : stack'[j] = b[j]
      BY <1>8, <2>1
    <3>4. \A j \in DOMAIN stack' : j \in 1 .. n \/ (j = n + 1 /\ op \in Instrs /\ stack'[j] = Call(op))
      <4> TAKE j \in DOMAIN stack'
      <4>1. j \in 1 .. n \/ j = n + 1
        BY <3>1, <3>3
      <4>2. CASE j = n + 1
        <5>1. stack'[j] = Call(op)
          BY <3>3, <4>2
        <5> QED
          BY <2>1, <4>2, <5>1
      <4> QED
        BY <4>1, <4>2
    <3>5. \A j \in DOMAIN stack' : j < Len(stack') => j \in 1 .. n
      BY <3>2, <3>3
    <3>6. 1 .. n \subseteq DOMAIN stack'
      BY <3>1, <3>3
    <3> QED
      BY <3>3, <3>4, <3>5, <3>6
  <2>2. CASE stack' = b
    <3>1. DOMAIN stack' = 1 .. n /\ Len(stack') = n /\ stack' \in Seq(Frames)
      BY <1>5, <2>2
    <3>2. \A j \in DOMAIN stack' : j \in 1 .. n
      BY <3>1
    <3>3. \A j \in 1 .. n : stack'[j] = b[j]
      BY <2>2
    <3>4. 1 .. n \subseteq DOMAIN stack' /\ \A j \in DOMAIN stack' : j < Len(stack') => j \in 1 .. n
      BY <3>1
    <3> QED
      BY <3>1, <3>2, <3>3, <3>4
  <2> QED
    BY <1>7, <2>1, <2>2
<1>12. /\ stack'[n] = [inst |-> v, op |-> p + 1]
       /\ \A j \in 1 .. n : stack'[j].inst = stack[j].inst /\ (j # n => stack'[j] = stack[j])
  <2>1. top.inst = v
    BY DEF v
  <2> QED
    BY <1>2, <1>5, <1>11, <2>1
<1>13. Waiting = 1 .. n
  <2>1. \A j \in 1 .. n : j # n => j < n
    BY <1>2
  <2>2. n \in Waiting
    BY <1>2, <1>4 DEF Waiting, p
  <2>3. Waiting \subseteq 1 .. n
    BY <1>2 DEF Waiting
  <2>4. \A j \in 1 .. n : j < n => j \in Waiting
    BY <1>2 DEF GepInv, SearchInv, RecursionIsBounded, n
  <2>5. \A j \in 1 .. n : j \in Waiting
    BY <2>1, <2>2, <2>4
  <2> QED
    BY <2>3, <2>5
<1>14. Waiting' = 1 .. n
  <2>1. ASSUME NEW j \in Waiting' PROVE j \in 1 .. n
    <3>1. j \in DOMAIN stack' /\ stack'[j].op # 0
      BY DEF Waiting
    <3> QED
      BY <1>6, <1>11, <3>1
  <2>2. ASSUME NEW j \in 1 .. n PROVE j \in Waiting'
    <3>1. j \in DOMAIN stack'
      BY <1>11
    <3>2. CASE j = n
      <4>1. p + 1 # 0
        BY <1>4, <1>2
      <4> QED
        BY <1>12, <3>1, <3>2, <4>1 DEF Waiting
    <3>3. CASE j # n
      BY <1>12, <1>13, <3>1, <3>3 DEF Waiting
    <3> QED
      BY <3>2, <3>3
  <2> QED
    BY <2>1, <2>2
<1>15. RecursionIsBounded'
  <2>1. \A j, k \in Waiting' : stack'[j].inst = stack'[k].inst => j = k
    BY <1>12, <1>13, <1>14 DEF GepInv, SearchInv, RecursionIsBounded
  <2>2. ASSUME NEW j \in DOMAIN stack', j < Len(stack') PROVE j \in Waiting'
    <3>1. j \in 1 .. n
      BY <1>11, <2>2
    <3> QED
      BY <1>14, <3>1
  <2> QED
    BY <2>1, <2>2 DEF RecursionIsBounded
<1>16. \A j \in Waiting' : stack'[j].inst \in bt_visited' /\ ~IsAlloca(stack'[j].inst)
  BY <1>1, <1>12, <1>13, <1>14 DEF GepInv, SearchInv
<1>17. \A S \in SUBSET Instrs : Backward(S) =>
         bt_visited' \subseteq S /\ \A j \in DOMAIN stack' : stack'[j].inst \in S
  <2> TAKE S \in SUBSET Instrs
  <2> HAVE Backward(S)
  <2>1. bt_visited \subseteq S /\ \A j \in DOMAIN stack : stack[j].inst \in S
    BY DEF GepInv, SearchInv
  <2>2. op \in Instrs => op \in S
    BY <1>9, <1>10, <2>1 DEF Backward
  <2>3. ASSUME NEW j \in DOMAIN stack' PROVE stack'[j].inst \in S
    BY <1>2, <1>6, <1>11, <1>12, <2>1, <2>2
  <2> QED
    BY <1>1, <2>1, <2>3
<1>18. \A i \in Instrs : ~Entered(i)
  BY <1>2, <1>13 DEF Entered, Waiting, Call
<1>19. ASSUME NEW i \in bt_visited', ~IsAlloca(i), NEW k \in DOMAIN code[i].ops,
              NEW o \in Instrs, o = code[i].ops[k]
       PROVE  o \in bt_visited' \/ Waits(i, k)' \/ Entered(o)'
  <2>1. o \in bt_visited \/ Waits(i, k)
    BY <1>1, <1>18, <1>19 DEF GepInv, SearchInv
  <2>2. ASSUME Waits(i, k) PROVE Waits(i, k)' \/ Entered(o)'
    <3>1. PICK j \in Waiting : stack[j].inst = i /\ stack[j].op <= k
      BY <2>2 DEF Waits
    <3>2. CASE j # n
      BY <1>12, <1>13, <1>14, <3>1, <3>2 DEF Waits
    <3>3. CASE j = n
      <4>1. i = v /\ p <= k
        BY <1>2, <3>1, <3>3 DEF v, p
      <4>2. k \in Nat
        BY <1>3, <4>1
      <4>3. CASE p = k
        <5>1. o = op /\ op \in Instrs
          BY <1>19, <4>1, <4>3 DEF op
        <5>2. n + 1 \in DOMAIN stack' /\ stack'[n + 1] = Call(o)
          BY <1>2, <1>8, <5>1
        <5> QED
          BY <5>2 DEF Entered
      <4>4. CASE p # k
        <5>1. p + 1 <= k
          BY <1>2, <4>1, <4>2, <4>4
        <5>2. n \in Waiting' /\ stack'[n].inst = i /\ stack'[n].op <= k
          BY <1>2, <1>12, <1>14, <4>1, <5>1
        <5> QED
          BY <5>2 DEF Waits
      <4> QED
        BY <4>3, <4>4
    <3> QED
      BY <3>2, <3>3
  <2> QED
    BY <1>1, <2>1, <2>2
<1> QED
  BY <1>1, <1>11, <1>15, <1>16, <1>17, <1>18, <1>19, SearchStep DEF GepInv, GepTypeOK, SearchInv

-----------------------------------------------------------------------------
(* The reports.  The search is over: it leaves what it found alone.        *)

LEMMA SearchOver ==
  ASSUME GepInv, UNCHANGED <<code, at, stack, bt_visited, allocas>>,
         line' \in 0 .. Len(code) + 1, reports' \in Seq(SUBSET Instrs), ReportInv'
  PROVE  GepInv'
<1>1. Instrs' = Instrs
  BY DEF Instrs
<1>2. GepTypeOK'
  BY <1>1 DEF GepInv, GepTypeOK
<1>3. /\ Geps' = Geps /\ Of("alloca")' = Of("alloca") /\ Waiting' = Waiting
      /\ \A i : IsAlloca(i)' <=> IsAlloca(i)
      /\ \A S : Backward(S)' <=> Backward(S)
      /\ \A i : Entered(i)' <=> Entered(i)
      /\ \A i, k : Waits(i, k)' <=> Waits(i, k)
  BY DEF Geps, Of, Instrs, Backward, IsAlloca, Operands, Waiting, Entered, Waits
<1>4. RecursionIsBounded'
  BY <1>3 DEF GepInv, SearchInv, RecursionIsBounded
<1>5. (\A i \in bt_visited : ~IsAlloca(i) => \A k \in DOMAIN code[i].ops :
         code[i].ops[k] \in Instrs =>
           \/ code[i].ops[k] \in bt_visited
           \/ Waits(i, k)
           \/ Entered(code[i].ops[k]))'
  BY <1>1, <1>3 DEF GepInv, SearchInv, Entered, Waits
<1>6. SearchInv'
  BY <1>1, <1>3, <1>4, <1>5 DEF GepInv, SearchInv
<1> QED
  BY <1>2, <1>6 DEF GepInv

LEMMA NextAllocaKeeps ==
  ASSUME GepInv, NextAlloca
  PROVE  GepInv'
<1> DEFINE n == Len(reports)  end == Len(code) + 1
<1>1. /\ Searched /\ line \in {0, end} /\ n < Len(allocas)
      /\ reports' = Append(reports, {}) /\ line' = 1
      /\ UNCHANGED <<code, at, stack, bt_visited, allocas>>
  BY DEF NextAlloca
<1>2. /\ reports \in Seq(SUBSET Instrs) /\ n \in Nat /\ DOMAIN reports = 1 .. n
      /\ Len(allocas) \in Nat /\ end \in Nat /\ end >= 1 /\ Instrs = 1 .. end - 1
  BY CodeShape DEF GepInv, GepTypeOK
<1>3. /\ reports' \in Seq(SUBSET Instrs) /\ Len(reports') = n + 1 /\ DOMAIN reports' = 1 .. n + 1
      /\ \A k \in 1 .. n : reports'[k] = reports[k]
      /\ reports'[n + 1] = {}
  BY <1>1, <1>2, AppendProperties
<1> HIDE DEF n, end
<1>4. Instrs' = Instrs /\ Searched' /\ reports' # << >>
  <2>1. 1 \in DOMAIN reports'
    BY <1>2, <1>3
  <2> QED
    BY <1>1, <2>1 DEF Instrs, Searched
<1>5. /\ \A S : \A a : Forward(a, S)' <=> Forward(a, S)
      /\ \A S : \A a, i : Uses(i, a, S)' <=> Uses(i, a, S)
  BY <1>1, <1>4 DEF Forward, Uses, Operands
<1>6. ASSUME NEW k \in DOMAIN reports'
      PROVE  /\ \A S \in SUBSET Instrs : Forward(allocas[k], S) => reports'[k] \subseteq S
             /\ \A i \in Instrs : k < Len(reports') \/ i < line' =>
                  (Uses(i, allocas[k], reports'[k] \cup {allocas[k]}) => i \in reports'[k])
  <2>1. CASE k = n + 1
    <3>1. reports'[k] = {} /\ ~(k < Len(reports')) /\ \A i \in Instrs : ~(i < line')
      BY <1>1, <1>2, <1>3, <2>1
    <3> QED
      BY <3>1
  <2>2. CASE k # n + 1
    <3>1. k \in 1 .. n /\ k \in DOMAIN reports /\ reports'[k] = reports[k]
      BY <1>2, <1>3, <2>2
    <3>2. line # 0
      BY <3>1 DEF GepInv, ReportInv
    <3>3. \A i \in Instrs : i < line
      BY <1>1, <1>2, <3>2
    <3> QED
      BY <3>1, <3>3 DEF GepInv, ReportInv
  <2> QED
    BY <2>1, <2>2
<1>7. ReportInv'
  <2>1. Len(reports') <= Len(allocas')
    BY <1>1, <1>2, <1>3
  <2>2. line' # 0
    BY <1>1
  <2>3. \A i \in reports'[Len(reports')] : i < line'
    BY <1>3
  <2>4. allocas' = allocas
    BY <1>1
  <2> QED
    BY <1>4, <1>5, <1>6, <2>1, <2>2, <2>3, <2>4 DEF ReportInv
<1>8. line' \in 0 .. Len(code) + 1
  <2>1. line' \in 0 .. end
    BY <1>1, <1>2
  <2> QED
    BY <2>1 DEF end
<1> QED
  BY <1>1, <1>3, <1>7, <1>8, SearchOver

LEMMA ReportKeeps ==
  ASSUME GepInv, Report
  PROVE  GepInv'
<1> DEFINE n == Len(reports)  end == Len(code) + 1  a == allocas[n]
           R == reports[n]  T == IF Related THEN R \cup {line} ELSE R
<1>1. /\ Searched /\ line \in Instrs /\ line' = line + 1
      /\ reports' = IF Related THEN [reports EXCEPT ![n] = @ \cup {line}] ELSE reports
      /\ UNCHANGED <<code, at, stack, bt_visited, allocas>>
  BY DEF Report
<1>2. /\ reports \in Seq(SUBSET Instrs) /\ n \in Nat /\ DOMAIN reports = 1 .. n
      /\ end \in Nat /\ end >= 1 /\ Instrs = 1 .. end - 1
  BY CodeShape DEF GepInv, GepTypeOK
<1>3. line \in Nat /\ line # 0
  BY <1>1, <1>2
<1>4. reports # << >> /\ n # 0
  BY <1>2, <1>3, EmptySeq DEF GepInv, ReportInv
<1>5. n \in DOMAIN reports /\ R \subseteq Instrs /\ T \subseteq Instrs
  BY <1>1, <1>2, <1>4
<1>6. /\ reports' \in Seq(SUBSET Instrs) /\ Len(reports') = n /\ DOMAIN reports' = DOMAIN reports
      /\ reports'[n] = T
      /\ \A k \in DOMAIN reports : k # n => reports'[k] = reports[k]
  <2>1. CASE Related
    BY <1>1, <1>2, <1>5, <2>1
  <2>2. CASE ~Related
    BY <1>1, <1>2, <2>2
  <2> QED
    BY <2>1, <2>2
<1>7. Related <=> \E op \in Operands(line) : op \in {a} \cup R
  BY DEF Related, expanded
<1>8. \A i \in R : i < line
  BY <1>4 DEF GepInv, ReportInv
<1>9. Instrs' = Instrs /\ Searched' /\ allocas' = allocas /\ line' # 0 /\ reports' # << >>
  <2>1. n \in DOMAIN reports'
    BY <1>5, <1>6
  <2> QED
    BY <1>1, <1>3, <2>1 DEF Instrs, Searched
<1>10. /\ \A S : \A b : Forward(b, S)' <=> Forward(b, S)
       /\ \A S : \A b, i : Uses(i, b, S)' <=> Uses(i, b, S)
  BY <1>1, <1>9 DEF Forward, Uses, Operands
<1>11. R \subseteq T /\ T \subseteq R \cup {line} /\ (Related <=> line \in T)
  <2>1. line \notin R
    BY <1>3, <1>8
  <2> QED
    BY <2>1
<1> HIDE DEF n, end, a, R, T
<1>12. \A i \in T : i < line'
  BY <1>1, <1>2, <1>3, <1>5, <1>8, <1>11
<1>13. \A S \in SUBSET Instrs : Forward(a, S) => T \subseteq S
  <2> TAKE S \in SUBSET Instrs
  <2> HAVE Forward(a, S)
  <2>1. R \subseteq S
    BY <1>5 DEF GepInv, ReportInv, R, a, n
  <2>2. ASSUME Related PROVE line \in S
    <3>1. PICK op \in Operands(line) : op \in {a} \cup R
      BY <1>7, <2>2
    <3>2. op \in S /\ (op < line \/ op = a)
      BY <1>8, <2>1, <3>1 DEF Forward
    <3> QED
      BY <1>1, <3>1, <3>2 DEF Forward
  <2> QED
    BY <1>11, <2>1, <2>2
<1>14. ASSUME NEW i \in Instrs, i < line', Uses(i, a, T \cup {a}) PROVE i \in T
  <2>1. PICK op \in Operands(i) : op \in T \cup {a} /\ (op < i \/ op = a)
    BY <1>14 DEF Uses
  <2>2. i \in Nat /\ (i < line \/ i = line)
    BY <1>1, <1>2, <1>3, <1>14
  <2>3. op \in R \cup {a}
    <3>1. CASE op = line /\ op # a
      BY <1>3, <2>1, <2>2, <3>1
    <3>2. CASE op # line \/ op = a
      BY <1>11, <2>1, <3>2
    <3> QED
      BY <3>1, <3>2
  <2>4. CASE i < line
    <3>1. Uses(i, a, R \cup {a})
      BY <2>1, <2>3 DEF Uses
    <3>2. i \in R
      BY <1>5, <2>4, <3>1 DEF GepInv, ReportInv, R, a, n
    <3> QED
      BY <1>11, <3>2
  <2>5. CASE i = line
    BY <1>7, <1>11, <2>1, <2>3, <2>5
  <2> QED
    BY <2>2, <2>4, <2>5
<1>15. ASSUME NEW k \in DOMAIN reports'
       PROVE  /\ \A S \in SUBSET Instrs : Forward(allocas[k], S) => reports'[k] \subseteq S
              /\ \A i \in Instrs : k < Len(reports') \/ i < line' =>
                   (Uses(i, allocas[k], reports'[k] \cup {allocas[k]}) => i \in reports'[k])
  <2>1. CASE k = n
    <3>1. allocas[k] = a /\ reports'[k] = T /\ ~(k < Len(reports'))
      BY <1>2, <1>6, <2>1 DEF a
    <3> QED
      BY <1>13, <1>14, <3>1
  <2>2. CASE k # n
    <3>1. k \in DOMAIN reports /\ reports'[k] = reports[k] /\ k < n
      BY <1>2, <1>6, <2>2
    <3> QED
      BY <3>1 DEF GepInv, ReportInv, n
  <2> QED
    BY <2>1, <2>2
<1>16. ReportInv'
  <2>1. Len(reports') <= Len(allocas')
    BY <1>6, <1>9 DEF GepInv, ReportInv, n
  <2>2. \A i \in reports'[Len(reports')] : i < line'
    BY <1>6, <1>12
  <2> QED
    BY <1>9, <1>10, <1>15, <2>1, <2>2 DEF ReportInv
<1>17. line' \in 0 .. Len(code) + 1
  <2>1. line' \in 0 .. end
    BY <1>1, <1>2
  <2> QED
    BY <2>1 DEF end
<1> QED
  BY <1>1, <1>6, <1>16, <1>17, SearchOver

-----------------------------------------------------------------------------
(* The theorems.                                                           *)

LEMMA InitHolds ==
  ASSUME code \in Codes, GepInit
  PROVE  GepInv
<1>1. /\ at = 1 /\ stack = << >> /\ bt_visited = {} /\ allocas = << >>
      /\ line = 0 /\ reports = << >>
  BY DEF GepInit
<1>2. DOMAIN stack = {} /\ DOMAIN allocas = {} /\ DOMAIN reports = {} /\ Len(allocas) = 0 /\ Len(reports) = 0
  BY <1>1
<1>3. Instrs = 1 .. Len(code) /\ Len(code) \in Nat
  BY CodeShape
<1>4. GepTypeOK
  BY <1>1, <1>3 DEF GepTypeOK
<1>5. SearchInv
  <2>1. Waiting = {}
    BY <1>2 DEF Waiting
  <2>2. \A i \in Geps : ~(i < at)
    BY <1>1, <1>3 DEF Geps, Of
  <2> QED
    BY <1>1, <1>2, <2>1, <2>2 DEF SearchInv, RecursionIsBounded
<1>6. ReportInv
  BY <1>1, <1>2 DEF ReportInv
<1> QED
  BY <1>4, <1>5, <1>6 DEF GepInv

LEMMA StutterKeeps ==
  ASSUME GepInv, UNCHANGED gepVars
  PROVE  GepInv'
<1>1. UNCHANGED <<code, at, stack, bt_visited, allocas, line, reports>>
  BY DEF gepVars
<1>2. ReportInv'
  <2>1. Instrs' = Instrs /\ (Searched' <=> Searched) /\ reports' = reports /\ line' = line
    BY <1>1 DEF Searched, Instrs
  <2>2. /\ \A S : \A a : Forward(a, S)' <=> Forward(a, S)
        /\ \A S : \A a, i : Uses(i, a, S)' <=> Uses(i, a, S)
    BY <1>1, <2>1 DEF Forward, Uses, Operands
  <2>3. \A k \in DOMAIN reports' :
          /\ \A S \in SUBSET Instrs : Forward(allocas[k], S) => reports'[k] \subseteq S
          /\ \A i \in Instrs : k < Len(reports') \/ i < line' =>
               (Uses(i, allocas[k], reports'[k] \cup {allocas[k]}) => i \in reports'[k])
    BY <2>1 DEF GepInv, ReportInv
  <2>4. /\ Len(reports') <= Len(allocas')
        /\ line' = 0 => reports' = << >>
        /\ line' # 0 => Searched' /\ reports' # << >>
    BY <1>1, <2>1 DEF GepInv, ReportInv
  <2>5. \A i \in (IF reports' = << >> THEN {} ELSE reports'[Len(reports')]) : i < line'
    BY <2>1 DEF GepInv, ReportInv
  <2>6. allocas' = allocas
    BY <1>1
  <2> QED
    BY <2>1, <2>2, <2>3, <2>4, <2>5, <2>6, ZenonT(90) DEF ReportInv
<1>3. line' \in 0 .. Len(code) + 1 /\ reports' \in Seq(SUBSET Instrs)
  <2>1. line' = line /\ reports' = reports
    BY <1>1
  <2> QED
    BY <2>1 DEF GepInv, GepTypeOK
<1>4. UNCHANGED <<code, at, stack, bt_visited, allocas>>
  BY <1>1
<1> QED
  BY <1>2, <1>3, <1>4, SearchOver

(* The search and the reports keep their invariant, for every function.    *)
THEOREM Invariance == GepSpec => []GepInv
<1>1. code \in Codes /\ GepInit => GepInv
  BY InitHolds
<1>2. GepInv /\ [GepNext]_gepVars => GepInv'
  BY MeetKeeps, VisitKeeps, ReturnKeeps, OperandKeeps, NextAllocaKeeps, ReportKeeps, StutterKeeps
     DEF GepNext
<1> QED
  BY <1>1, <1>2, PTL DEF GepSpec

(* backtrackToAlloca never waits twice for the operands of an instruction. *)
THEOREM RecursionsAreBounded == GepSpec => []RecursionIsBounded
<1>1. GepInv => RecursionIsBounded
  BY DEF GepInv, SearchInv
<1> QED
  BY <1>1, Invariance, PTL

(* Nothing but an integer alloca is reported on.                           *)
OnlyAllocas == \A k \in DOMAIN allocas : allocas[k] \in Of("alloca")

LEMMA OnlyAllocasStep ==
  ASSUME GepInv, OnlyAllocas, [GepNext]_gepVars
  PROVE  OnlyAllocas'
<1>1. CASE UNCHANGED <<code, allocas>>
  BY <1>1 DEF OnlyAllocas, Of, Instrs
<1>2. CASE Visit
  <2>1. UNCHANGED code /\ top.inst \in Instrs
        /\ allocas' = IF code[top.inst].kind = "alloca" THEN Append(allocas, top.inst) ELSE allocas
    BY <1>2, TopIs DEF Visit, GepInv, Frames
  <2>2. CASE code[top.inst].kind = "alloca"
    <3>1. PICK i \in Of("alloca") : i = top.inst
      BY <2>1, <2>2 DEF Of
    <3>2. allocas' = Append(allocas, i) /\ allocas \in Seq(Instrs)
      BY <2>1, <2>2, <3>1 DEF GepInv, GepTypeOK
    <3>3. \A k \in DOMAIN Append(allocas, i) : k \in DOMAIN allocas \/ Append(allocas, i)[k] = i
      BY <3>2
    <3>4. \A k \in DOMAIN allocas : Append(allocas, i)[k] = allocas[k]
      BY <3>2
    <3>5. Of("alloca")' = Of("alloca")
      BY <2>1 DEF Of, Instrs
    <3> QED
      BY <3>1, <3>2, <3>3, <3>4, <3>5 DEF OnlyAllocas
  <2> QED
    BY <1>1, <2>1, <2>2
<1> QED
  BY <1>1, <1>2 DEF GepNext, gepVars, Meet, Return, Operand, NextAlloca, Report

(* The search ends with the allocas the addresses come from: what it       *)
(* visited is the least set closed under operands.                         *)
THEOREM AllocasAreFound == GepSpec => []AllocasAreWhole
<1>1. ASSUME GepInv, Searched
      PROVE  \A i \in Of("alloca") : ComesFrom(i) <=> \E k \in DOMAIN allocas : allocas[k] = i
  <2>1. stack = << >> /\ at > Len(code) /\ DOMAIN stack = {}
    BY <1>1 DEF Searched
  <2>2. bt_visited \subseteq Instrs /\ \A i : ~Entered(i) /\ \A k : ~Waits(i, k)
    BY <1>1, <2>1 DEF GepInv, GepTypeOK, Entered, Waits, Waiting
  <2>3. Geps \subseteq bt_visited
    <3>1. at \in Nat /\ Len(code) \in Nat /\ Instrs = 1 .. Len(code)
      BY <1>1, CodeShape DEF GepInv, GepTypeOK
    <3>2. \A i \in Geps : i < at
      BY <2>1, <3>1 DEF Geps, Of
    <3> QED
      BY <1>1, <2>2, <3>2 DEF GepInv, SearchInv
  <2>4. Backward(bt_visited)
    <3>1. ASSUME NEW i \in bt_visited, ~IsAlloca(i), NEW o \in Operands(i), o \in Instrs
          PROVE  o \in bt_visited
      <4>1. PICK k \in DOMAIN code[i].ops : o = code[i].ops[k]
        BY DEF Operands
      <4> QED
        BY <1>1, <2>2, <3>1, <4>1 DEF GepInv, SearchInv
    <3> QED
      BY <2>3, <3>1 DEF Backward
  <2>5. \A i \in Instrs : ComesFrom(i) <=> i \in bt_visited
    BY <1>1, <2>2, <2>4 DEF ComesFrom, GepInv, SearchInv
  <2> QED
    BY <1>1, <2>5 DEF GepInv, SearchInv, Of
<1>2. GepInv /\ OnlyAllocas => AllocasAreWhole
  BY <1>1 DEF AllocasAreWhole, GepInv, SearchInv, OnlyAllocas
<1>3. GepInit => OnlyAllocas
  BY DEF GepInit, OnlyAllocas
<1>4. GepInv /\ OnlyAllocas /\ [GepNext]_gepVars => OnlyAllocas'
  BY OnlyAllocasStep
<1> QED
  BY <1>2, <1>3, <1>4, Invariance, PTL DEF GepSpec

(* A report is the least set closed under forward uses from its alloca.    *)
THEOREM ReportsAreComplete == GepSpec => []ReportsAreWhole
<1>1. ASSUME GepInv, NEW k \in DOMAIN reports, k < Len(reports) \/ line = Len(code) + 1,
             NEW i \in Instrs
      PROVE  GoesTo(allocas[k], i) <=> i \in reports[k] \cup {allocas[k]}
  <2> DEFINE a == allocas[k]  R == reports[k]
  <2>1. /\ Len(code) \in Nat /\ Instrs = 1 .. Len(code)
        /\ Len(reports) \in Nat /\ Len(allocas) \in Nat
        /\ DOMAIN reports = 1 .. Len(reports) /\ DOMAIN allocas = 1 .. Len(allocas)
    BY <1>1, CodeShape DEF GepInv, GepTypeOK
  <2>2. k \in DOMAIN allocas
    BY <1>1, <2>1 DEF GepInv, ReportInv
  <2>3. a \in Instrs /\ R \subseteq Instrs
    BY <1>1, <2>2 DEF GepInv, GepTypeOK
  <2>4. /\ \A S \in SUBSET Instrs : Forward(a, S) => R \subseteq S
        /\ \A j \in Instrs : k < Len(reports) \/ j < line =>
             (Uses(j, a, R \cup {a}) => j \in R)
    BY <1>1 DEF GepInv, ReportInv
  <2>5. \A j \in Instrs : k < Len(reports) \/ j < line
    BY <1>1, <2>1
  <2> HIDE DEF a, R
  <2>6. \A j \in Instrs : Uses(j, a, R \cup {a}) => j \in R
    BY <2>4, <2>5
  <2>7. Forward(a, R \cup {a})
    BY <2>6 DEF Forward, Uses
  <2>8. \A S \in SUBSET Instrs : Forward(a, S) => R \cup {a} \subseteq S
    BY <2>4 DEF Forward
  <2>9. GoesTo(a, i) <=> i \in R \cup {a}
    <3>1. R \cup {a} \in SUBSET Instrs
      BY <2>3
    <3> QED
      BY <2>7, <2>8, <3>1 DEF GoesTo
  <2> QED
    BY <2>9 DEF a, R
<1>2. GepInv => ReportsAreWhole
  BY <1>1 DEF ReportsAreWhole
<1> QED
  BY <1>2, Invariance, PTL

-----------------------------------------------------------------------------
(* The two analyses of one function.                                       *)

LEMMA ListKeeps ==
  ASSUME GepInv, LeaInv, Examine
  PROVE  LeaInv'
<1>1. PICK h \in Instrs : h = here
  BY DEF Examine
<1>2. /\ gep' = IF code[h].kind = "gep" /\ Tainted(h) THEN Append(gep, h) ELSE gep
      /\ here' = h + 1 /\ code' = code
  BY <1>1 DEF Examine
<1>3. /\ Len(code) \in Nat /\ Instrs = 1 .. Len(code)
      /\ gep \in Seq(Instrs) /\ DOMAIN gep = 1 .. Len(gep) /\ Len(gep) \in Nat
      /\ \A j \in DOMAIN gep : gep[j] \in Instrs
      /\ \A j \in DOMAIN gep : gep[j] < h
      /\ \A j, k \in DOMAIN gep : j < k => gep[j] < gep[k]
      /\ \A i \in Geps : i < h /\ Tainted(i) => \E j \in DOMAIN gep : gep[j] = i
  BY <1>1, CodeShape DEF LeaInv, GepInv, GepTypeOK
<1>4. /\ Instrs' = Instrs /\ Geps' = Geps /\ Len(code') = Len(code)
      /\ \A i \in Instrs : Tainted(i)' <=> Tainted(i)
  BY <1>2 DEF Instrs, Geps, Of, Tainted
<1>5. /\ here' \in 1 .. Len(code') + 1
      /\ \A i \in Geps : i < here' <=> i < h \/ i = h
      /\ \A i \in Instrs : i < h => i < here'
      /\ h < here'
  BY <1>2, <1>3, <1>4 DEF Geps, Of
<1>6. CASE code[h].kind = "gep" /\ Tainted(h)
  <2>1. gep' = Append(gep, h)
    BY <1>2, <1>6
  <2>2. PICK n \in Nat : n = Len(gep)
    BY <1>3
  <2>3. PICK new : new = gep'
    OBVIOUS
  <2>4. /\ new \in Seq(Instrs) /\ DOMAIN new = 1 .. n + 1
        /\ new[n + 1] = h
        /\ \A j \in 1 .. n : new[j] = gep[j]
    BY <1>3, <2>1, <2>2, <2>3
  <2>5. /\ \A j \in 1 .. n : new[j] \in Int /\ new[j] < h
        /\ \A j, k \in 1 .. n : j < k => new[j] < new[k]
        /\ h \in Int
    <3>1. DOMAIN gep = 1 .. n /\ h \in Int /\ \A i \in Instrs : i \in Int
      BY <1>1, <1>3, <2>2
    <3>2. \A j \in 1 .. n : gep[j] \in Int /\ gep[j] < h
      BY <1>3, <3>1
    <3>3. \A j, k \in 1 .. n : j < k => gep[j] < gep[k]
      BY <1>3, <3>1
    <3> QED
      BY <2>4, <3>1, <3>2, <3>3
  <2>6. \A j \in 1 .. n + 1 : j \in 1 .. n \/ j = n + 1
    OBVIOUS
  <2>7. \A j \in DOMAIN new : new[j] < here'
    <3>1. \A i \in Int : i < h => i < here'
      BY <1>2, <2>5
    <3> QED
      BY <1>5, <2>4, <2>5, <2>6, <3>1
  <2>8. \A j, k \in DOMAIN new : j < k => new[j] < new[k]
    BY <2>4, <2>5, <2>6
  <2>9. \A i \in Geps : i < here' /\ Tainted(i) => \E j \in DOMAIN new : new[j] = i
    <3>1. n + 1 \in DOMAIN new /\ \A j \in DOMAIN gep : j \in DOMAIN new /\ new[j] = gep[j]
      BY <1>3, <2>2, <2>4
    <3>2. ASSUME NEW i \in Geps, i < here', Tainted(i)
          PROVE  \E j \in DOMAIN new : new[j] = i
      <4>1. CASE i < h
        BY <1>3, <3>1, <3>2, <4>1
      <4>2. CASE i = h
        BY <2>4, <3>1, <4>2
      <4> QED
        BY <1>5, <3>2, <4>1, <4>2
    <3> QED
      BY <3>2
  <2> QED
    BY <1>4, <1>5, <2>3, <2>4, <2>7, <2>8, <2>9 DEF LeaInv, Geps, Of
<1>7. CASE ~(code[h].kind = "gep" /\ Tainted(h))
  <2>1. gep' = gep
    BY <1>2, <1>7
  <2>2. \A i \in Geps : i < here' /\ Tainted(i) => \E j \in DOMAIN gep : gep[j] = i
    BY <1>3, <1>5, <1>7 DEF Geps, Of
  <2> QED
    BY <1>3, <1>4, <1>5, <2>1, <2>2 DEF LeaInv, Geps, Of
<1> QED
  BY <1>6, <1>7

LEMMA LeaStutters ==
  ASSUME LeaInv, UNCHANGED <<code, leaVars>>
  PROVE  LeaInv'
<1>1. UNCHANGED <<code, here, gep>>
  BY DEF leaVars
<1>2. Instrs' = Instrs /\ Geps' = Geps /\ \A i : Tainted(i)' <=> Tainted(i)
  BY <1>1 DEF Instrs, Geps, Of, Tainted
<1> QED
  BY <1>1, <1>2 DEF LeaInv

(* What is reported under an alloca uses it, or something reported.        *)
LEMMA ReportedUses ==
  ASSUME GepInv, GepDone, NEW k \in DOMAIN reports, NEW g \in reports[k],
         g # allocas[k]
  PROVE  Operands(g) \cap (reports[k] \cup {allocas[k]}) # {}
<1> DEFINE a == allocas[k]  R == reports[k]  A == R \cup {a}
           S == {a} \cup {i \in R : Operands(i) \cap A # {}}
<1>1. /\ Len(code) \in Nat /\ Instrs = 1 .. Len(code)
      /\ Len(reports) \in Nat /\ Len(allocas) \in Nat
      /\ DOMAIN reports = 1 .. Len(reports) /\ DOMAIN allocas = 1 .. Len(allocas)
  BY CodeShape DEF GepInv, GepTypeOK
<1>2. a \in Instrs /\ R \subseteq Instrs
  BY <1>1 DEF GepInv, GepTypeOK, ReportInv
<1>3. line = Len(code) + 1
  BY DEF GepDone, GepInv, ReportInv
<1>4. /\ \A T \in SUBSET Instrs : Forward(a, T) => R \subseteq T
      /\ \A j \in Instrs : k < Len(reports) \/ j < line => (Uses(j, a, A) => j \in R)
  BY DEF GepInv, ReportInv
<1>5. \A j \in Instrs : j < line
  BY <1>1, <1>3
<1> HIDE DEF a, R
<1>6. \A j \in Instrs : Uses(j, a, A) => j \in R
  BY <1>4, <1>5
<1>7. Forward(a, S)
  BY <1>6 DEF Forward, Uses
<1>8. S \in SUBSET Instrs
  BY <1>2
<1>9. g \in S /\ g # a
  BY <1>4, <1>7, <1>8 DEF a, R
<1> QED
  BY <1>9 DEF a, R

(* The analyses agree on any function: an address whose base is not the    *)
(* alloca's has its index from there, and the LEA analysis lists it, once. *)
THEOREM TheAnalysesAgree == AnalysesSpec => []IndexesAreListed
<1> DEFINE Inv == GepInv /\ OnlyAllocas /\ LeaInv
<1>1. code \in Codes /\ AnalysesInit => Inv
  <2>1. ASSUME code \in Codes, AnalysesInit
        PROVE  LeaInv
    <3>1. here = 1 /\ gep = << >> /\ DOMAIN gep = {} /\ gep \in Seq(Instrs)
      BY <2>1 DEF AnalysesInit, LeaInit
    <3>2. Len(code) \in Nat /\ \A i \in Geps : i >= 1
      BY <2>1, CodeShape DEF Geps, Of
    <3>3. 1 \in 1 .. Len(code) + 1
      BY <3>2
    <3>4. \A i \in Geps : ~(i < 1)
      BY <2>1, CodeShape DEF Geps, Of
    <3> QED
      BY <3>1, <3>3, <3>4 DEF LeaInv
  <2> QED
    BY <2>1, InitHolds DEF AnalysesInit, GepInit, OnlyAllocas
<1>2. Inv /\ [AnalysesNext]_<<gepVars, leaVars>> => Inv'
  <2> SUFFICES ASSUME Inv, [AnalysesNext]_<<gepVars, leaVars>> PROVE Inv'
    OBVIOUS
  <2>1. CASE GepNext /\ UNCHANGED leaVars
    <3>1. UNCHANGED code
      BY <2>1 DEF GepNext, Meet, Visit, Return, Operand, NextAlloca, Report
    <3>2. GepInv'
      BY <2>1, MeetKeeps, VisitKeeps, ReturnKeeps, OperandKeeps, NextAllocaKeeps, ReportKeeps
         DEF GepNext
    <3> QED
      BY <2>1, <3>1, <3>2, OnlyAllocasStep, LeaStutters
  <2>2. CASE Examine /\ UNCHANGED gepVars
    BY <2>2, StutterKeeps, OnlyAllocasStep, ListKeeps
  <2>3. CASE UNCHANGED <<gepVars, leaVars>>
    BY <2>3, StutterKeeps, OnlyAllocasStep, LeaStutters DEF gepVars
  <2> QED
    BY <2>1, <2>2, <2>3 DEF AnalysesNext
<1>3. Inv => IndexesAreListed
  <2> SUFFICES ASSUME Inv, GepDone, LeaDone PROVE IndexesAreListed
    BY DEF IndexesAreListed
  <2>1. /\ Len(code) \in Nat /\ Instrs = 1 .. Len(code)
        /\ DOMAIN reports = 1 .. Len(reports) /\ DOMAIN allocas = 1 .. Len(allocas)
        /\ Len(reports) \in Nat /\ Len(allocas) \in Nat
    BY CodeShape DEF GepInv, GepTypeOK
  <2>2. ASSUME NEW k \in DOMAIN reports, NEW g \in reports[k] \cap Geps,
               code[g].ops[1] \notin {allocas[k]} \cup reports[k]
        PROVE  \E j \in DOMAIN gep : gep[j] = g
    <3> DEFINE A == reports[k] \cup {allocas[k]}
    <3>1. k \in DOMAIN allocas /\ allocas[k] \in Of("alloca") /\ allocas[k] # g
      BY <2>1 DEF GepInv, ReportInv, OnlyAllocas, Geps, Of
    <3>2. PICK o \in Operands(g) : o \in A
      BY <3>1, ReportedUses
    <3>3. o \in Instrs /\ o # Const /\ g \in Instrs
      <4>1. reports[k] \subseteq Instrs
        BY <2>1 DEF GepInv, GepTypeOK
      <4>2. allocas[k] \in Instrs /\ g \in Instrs
        BY <3>1 DEF Of, Geps
      <4>3. o \in Instrs
        BY <3>2, <4>1, <4>2
      <4> QED
        BY <2>1, <4>2, <4>3 DEF Const
    <3>4. PICK m \in DOMAIN code[g].ops : o = code[g].ops[m]
      BY DEF Operands
    <3>5. m > 1
      <4>1. code[g].ops[1] # o
        BY <2>2, <3>2
      <4>2. DOMAIN code[g].ops = 1 .. Len(code[g].ops) /\ Len(code[g].ops) \in Nat
        BY <3>3, CodeShape DEF GepInv, GepTypeOK
      <4> QED
        BY <3>4, <4>1, <4>2
    <3>6. Tainted(g)
      BY <3>3, <3>4, <3>5 DEF Tainted
    <3>7. g < here
      BY <2>1, <3>3 DEF LeaDone
    <3> QED
      BY <3>6, <3>7 DEF LeaInv
  <2> QED
    BY <2>2 DEF IndexesAreListed, LeaInv
<1> QED
  BY <1>1, <1>2, <1>3, PTL DEF AnalysesSpec
=============================================================================
