----------------------------- MODULE GepAnalysis -----------------------------
(***************************************************************************)
(* GepAnalysisPass (src/gep_analysis/pass.cpp).  From every getelementptr  *)
(* it searches the operands, depth first, for the allocas of integers the  *)
(* address comes from; then, for each alloca, it goes once over the        *)
(* function and reports the instructions that use it, or use one that does.*)
(***************************************************************************)
EXTENDS Instructions

VARIABLES
  at,          (* the instruction the search for getelementptrs is at      *)
  stack,       (* the calls of backtrackToAlloca: each with its            *)
               (* instruction and the operand it is at, 0 on entry         *)
  bt_visited,  (* the instructions entered                                 *)
  allocas,     (* the allocas found                                        *)
  line,        (* the instruction the report is at, 0 before any           *)
  reports      (* what was printed under each alloca so far                *)

gepVars == <<code, at, stack, bt_visited, allocas, line, reports>>
Call(i) == [inst |-> i, op |-> 0]
top == stack[Len(stack)]

GepInit ==
  /\ at = 1
  /\ stack = << >>
  /\ bt_visited = {}
  /\ allocas = << >>
  /\ line = 0
  /\ reports = << >>

-----------------------------------------------------------------------------
(* The search.                                                             *)

Searched == at > Len(code) /\ stack = << >>

Meet ==
  /\ stack = << >> /\ at <= Len(code)
  /\ stack' = IF code[at].kind = "gep" THEN <<Call(at)>> ELSE << >>
  /\ at' = at + 1
  /\ UNCHANGED <<code, bt_visited, allocas, line, reports>>

IsAlloca(i) == code[i].kind \in {"alloca", "slot"}
Becomes(i) == [stack EXCEPT ![Len(stack)] = [top EXCEPT !.op = i]]

(* An instruction is marked before its operands are looked at: a phi may   *)
(* lead back to it.                                                        *)
Visit_Unmarked ==
  /\ stack # << >> /\ top.op = 0 /\ top.inst \notin bt_visited
  /\ bt_visited' = bt_visited \cup (IF IsAlloca(top.inst) THEN {top.inst} ELSE {})
  /\ allocas' = IF code[top.inst].kind = "alloca" THEN Append(allocas, top.inst) ELSE allocas
  /\ stack' = IF IsAlloca(top.inst) THEN Front(stack) ELSE Becomes(1)
  /\ UNCHANGED <<code, at, line, reports>>
Visit_AllocaUnmarked ==
  /\ stack # << >> /\ top.op = 0 /\ top.inst \notin bt_visited
  /\ bt_visited' = bt_visited \cup (IF IsAlloca(top.inst) THEN {} ELSE {top.inst})
  /\ allocas' = IF code[top.inst].kind = "alloca" THEN Append(allocas, top.inst) ELSE allocas
  /\ stack' = IF IsAlloca(top.inst) THEN Front(stack) ELSE Becomes(1)
  /\ UNCHANGED <<code, at, line, reports>>
Visit ==
  /\ stack # << >> /\ top.op = 0 /\ top.inst \notin bt_visited
  /\ bt_visited' = bt_visited \cup {top.inst}
  /\ allocas' = IF code[top.inst].kind = "alloca" THEN Append(allocas, top.inst) ELSE allocas
  /\ stack' = IF IsAlloca(top.inst) THEN Front(stack) ELSE Becomes(1)
  /\ UNCHANGED <<code, at, line, reports>>

Return ==
  /\ stack # << >>
  /\ \/ top.op = 0 /\ top.inst \in bt_visited
     \/ top.op > Len(code[top.inst].ops)
  /\ stack' = Front(stack)
  /\ UNCHANGED <<code, at, bt_visited, allocas, line, reports>>

Operand ==
  /\ stack # << >> /\ top.op \in DOMAIN code[top.inst].ops
  /\ LET op == code[top.inst].ops[top.op]
     IN  stack' = Becomes(top.op + 1) \o IF op \in Instrs THEN <<Call(op)>> ELSE << >>
  /\ UNCHANGED <<code, at, bt_visited, allocas, line, reports>>

-----------------------------------------------------------------------------
(* The reports.                                                            *)

NextAlloca ==
  /\ Searched /\ line \in {0, Len(code) + 1}
  /\ Len(reports) < Len(allocas)
  /\ reports' = Append(reports, {})
  /\ line' = 1
  /\ UNCHANGED <<code, at, stack, bt_visited, allocas>>

expanded == {allocas[Len(reports)]} \cup reports[Len(reports)]
Related_FirstOperand == \E op \in {code[line].ops[1]} : op \in expanded
Related == \E op \in Operands(line) : op \in expanded

Report ==
  /\ Searched /\ line \in Instrs
  /\ reports' = IF Related
                THEN [reports EXCEPT ![Len(reports)] = @ \cup {line}] ELSE reports
  /\ line' = line + 1
  /\ UNCHANGED <<code, at, stack, bt_visited, allocas>>

GepNext == Meet \/ Visit \/ Return \/ Operand \/ NextAlloca \/ Report
GepDone == Searched /\ line \in {0, Len(code) + 1} /\ Len(reports) = Len(allocas)

GepSpec == code \in Codes /\ GepInit /\ [][GepNext]_gepVars
-----------------------------------------------------------------------------
(* Properties.                                                             *)

(* The recursion is no deeper than the function is long: no instruction    *)
(* waits for its operands in two calls of backtrackToAlloca, whatever      *)
(* cycles phis make.                                                       *)
Waiting == {j \in DOMAIN stack : stack[j].op # 0}
RecursionIsBounded ==
  /\ \A j, k \in Waiting : stack[j].inst = stack[k].inst => j = k
  /\ \A j \in DOMAIN stack : j < Len(stack) => j \in Waiting

(* The instructions every set has that contains the getelementptrs and,    *)
(* with an instruction that is no alloca, its operands.                    *)
Geps == Of("gep")
Backward(S) ==
  Geps \subseteq S /\ \A i \in S : IsAlloca(i) \/ Operands(i) \cap Instrs \subseteq S
ComesFrom(i) == \A S \in SUBSET Instrs : Backward(S) => i \in S

(* The search finds every integer alloca an address comes from, once, and  *)
(* no other (backtrackToAlloca).                                           *)
AllocasAreWhole ==
  Searched =>
    /\ \A j, k \in DOMAIN allocas : allocas[j] = allocas[k] => j = k
    /\ {allocas[k] : k \in DOMAIN allocas} = {i \in Of("alloca") : ComesFrom(i)}

(* The instructions every set has that contains a and, with an instruction,*)
(* those that use it and come after it, or use a.                          *)
Forward(a, S) ==
  a \in S /\ \A i \in Instrs :
               (\E op \in Operands(i) \cap S : op < i \/ op = a) => i \in S
GoesTo(a, i) == \A S \in SUBSET Instrs : Forward(a, S) => i \in S

(* A report has every instruction a value of the alloca goes to along the  *)
(* function, and no other; what it reaches only back through a phi is not  *)
(* reported (runOnFunction).                                               *)
ReportsAreWhole ==
  \A k \in DOMAIN reports : k < Len(reports) \/ line = Len(code) + 1 =>
    \A i \in Instrs : GoesTo(allocas[k], i) <=> i \in reports[k] \cup {allocas[k]}

-----------------------------------------------------------------------------
(* The inductive invariant.                                                *)

GepTypeOK ==
  /\ code \in Codes
  /\ at \in 1 .. Len(code) + 1
  /\ stack \in Seq([inst : Instrs, op : Nat])
  /\ bt_visited \subseteq Instrs
  /\ allocas \in Seq(Instrs)
  /\ line \in 0 .. Len(code) + 1
  /\ reports \in Seq(SUBSET Instrs)

(* A call is at one of its operands, or its own is the last call.          *)
Entered(i) == \E j \in DOMAIN stack : stack[j] = Call(i)
Waits(i, k) == \E j \in Waiting : stack[j].inst = i /\ stack[j].op <= k
SearchInv ==
  /\ RecursionIsBounded
  /\ \A j \in Waiting : stack[j].inst \in bt_visited /\ ~IsAlloca(stack[j].inst)
  /\ \A S \in SUBSET Instrs : Backward(S) =>
       bt_visited \subseteq S /\ \A j \in DOMAIN stack : stack[j].inst \in S
  /\ \A i \in bt_visited : ~IsAlloca(i) => \A k \in DOMAIN code[i].ops :
       code[i].ops[k] \in Instrs =>
         \/ code[i].ops[k] \in bt_visited
         \/ Waits(i, k)
         \/ Entered(code[i].ops[k])
  /\ \A i \in Geps : i < at => i \in bt_visited \/ Entered(i)
  /\ \A j, k \in DOMAIN allocas : allocas[j] = allocas[k] => j = k
  /\ \A i \in Of("alloca") : i \in bt_visited <=> \E k \in DOMAIN allocas : allocas[k] = i

(* The report being printed has what it should up to its line.             *)
Uses(i, a, S) == \E op \in Operands(i) \cap S : op < i \/ op = a
ReportInv ==
  /\ Len(reports) <= Len(allocas)
  /\ line = 0 => reports = << >>
  /\ line # 0 => Searched /\ reports # << >>
  /\ \A i \in (IF reports = << >> THEN {} ELSE reports[Len(reports)]) : i < line
  /\ \A k \in DOMAIN reports :
       /\ \A S \in SUBSET Instrs : Forward(allocas[k], S) => reports[k] \subseteq S
       /\ \A i \in Instrs : k < Len(reports) \/ i < line =>
            (Uses(i, allocas[k], reports[k] \cup {allocas[k]}) => i \in reports[k])

GepInv == GepTypeOK /\ SearchInv /\ ReportInv
=============================================================================
