--------------------------- MODULE InsertingPasses ---------------------------
(***************************************************************************)
(* Three passes that put instructions into a function while they walk it   *)
(* (src/simple_pass): "multiply" (only_operator_multiply/pass.cpp) puts a  *)
(* multiplication before each binary operator and hands it the operator's  *)
(* uses, "puts" (irbuilder_util/pass.cpp) puts a call after each call,     *)
(* "printf" (reference/pass.cpp) one after each store.                     *)
(*                                                                         *)
(* LLVM keeps the uses of a value in a list.  Setting an operand takes the *)
(* use from its value's list and puts it at the head of the new value's.   *)
(***************************************************************************)
EXTENDS Instructions

CONSTANT None

(* What clang emits without optimisation: a binary operator has two        *)
(* operands, not both of them constants, that are listed before it.        *)
ASSUME OperatorsAssumption ==
  /\ None \notin Int /\ None \notin Nat \X Nat
  /\ \A c \in Codes : \A i \in {j \in DOMAIN c : c[j].kind = "operator"} :
       /\ Len(c[i].ops) = 2 /\ c[i].ops # <<Const, Const>>
       /\ \A k \in 1 .. 2 : c[i].ops[k] < i

Passes == {"multiply", "puts", "printf"}

VARIABLES
  pass,        (* the pass at work                                         *)
  source,      (* the function as it was                                   *)
  order,       (* the numbers of the instructions as they are listed       *)
  it,          (* the instruction the walk is at, None at its end          *)
  orig_calls,  (* the calls collected by "puts"                            *)
  uses,        (* for each instruction its uses: <<user, operand>>         *)
  use          (* the use the inner walk of "multiply" is at, or None      *)

insVars == <<code, pass, source, order, it, orig_calls, uses, use>>

UsesBy(c, u, v) == {<<u, k>> : k \in {j \in DOMAIN c[u].ops : c[u].ops[j] = v}}
UsesIn(c, v) == UNION {UsesBy(c, u, v) : u \in DOMAIN c}
Position(s, x) == CHOOSE j \in DOMAIN s : s[j] = x
After(s, x) == IF x = s[Len(s)] THEN None ELSE s[Position(s, x) + 1]
First(s) == IF s = << >> THEN None ELSE s[1]

(* A use that is made goes to the head of its value's list: the newest     *)
(* comes first, or, in a function read from a file, the oldest.            *)
Before(x, y) == x[1] < y[1] \/ (x[1] = y[1] /\ x[2] < y[2])
Ahead(all, x, newest) == {y \in all : IF newest THEN Before(x, y) ELSE Before(y, x)}
ByAge(all, newest) ==
  [j \in 1 .. Cardinality(all) |-> CHOOSE x \in all : Cardinality(Ahead(all, x, newest)) = j - 1]

InsInit ==
  /\ source = code
  /\ order = [i \in Instrs |-> i]
  /\ it = First(order)
  /\ orig_calls = << >>
  /\ \E newest \in BOOLEAN : uses = [v \in Instrs |-> ByAge(UsesIn(code, v), newest)]
  /\ use = None

New == Len(code) + 1
Calling == [kind |-> "call", ops |-> <<Const>>]

-----------------------------------------------------------------------------
(* only_operator_multiply.                                                 *)

Linked(lists, v, u) == [lists EXCEPT ![v] = <<u>> \o @]
Unlinked(lists, v, u) == [lists EXCEPT ![v] = RemoveAt(@, Position(@, u))]
Operated(lists, k) ==
  IF code[it].ops[k] \in Instrs THEN Linked(lists, code[it].ops[k], <<New, k>>) ELSE lists

CreateMul_Stale ==
  /\ pass = "multiply" /\ it # None /\ use = None /\ code[it].kind = "operator"
  /\ code' = Append(code, [kind |-> "operator", ops |-> source[it].ops])
  /\ order' = InsertAt(order, Position(order, it), New)
  /\ uses' = Append(Operated(Operated(uses, 1), 2), << >>)
  /\ use' = First(uses'[it])
  /\ it' = IF use' = None THEN After(order, it) ELSE it
  /\ UNCHANGED <<pass, source, orig_calls>>
CreateMul ==
  /\ pass = "multiply" /\ it # None /\ use = None /\ code[it].kind = "operator"
  /\ code' = Append(code, [kind |-> "operator", ops |-> code[it].ops])
  /\ order' = InsertAt(order, Position(order, it), New)
  /\ uses' = Append(Operated(Operated(uses, 1), 2), << >>)
  /\ use' = First(uses'[it])
  /\ it' = IF use' = None THEN After(order, it) ELSE it
  /\ UNCHANGED <<pass, source, orig_calls>>

(* The next use is the one after this use in the list it is in by now.     *)
Mul == order[Position(order, it) - 1]
NextUse == After(uses'[Mul], use)

SetOperand ==
  /\ pass = "multiply" /\ use # None
  /\ code' = [code EXCEPT ![use[1]].ops[use[2]] = Mul]
  /\ uses' = Linked(Unlinked(uses, it, use), Mul, use)
  /\ use' = NextUse
  /\ it' = IF use' = None THEN After(order, it) ELSE it
  /\ UNCHANGED <<pass, source, order, orig_calls>>

-----------------------------------------------------------------------------
(* irbuilder_util and reference.                                           *)

PutAfter(i) ==
  /\ code' = Append(code, Calling)
  /\ order' = InsertAt(order, Position(order, i) + 1, New)

(* irbuilder_util walks the function once and then what it collected.      *)
Collect_Inserting ==
  /\ pass = "puts" /\ it # None /\ code[it].kind = "call"
  /\ PutAfter(it)
  /\ it' = After(order', it)
  /\ UNCHANGED <<pass, source, orig_calls, uses, use>>
Collect ==
  /\ pass = "puts" /\ it # None /\ code[it].kind = "call"
  /\ orig_calls' = Append(orig_calls, it)
  /\ it' = After(order, it)
  /\ UNCHANGED <<code, pass, source, order, uses, use>>

InstrumentAfter ==
  /\ pass = "puts" /\ it = None /\ orig_calls # << >>
  /\ PutAfter(orig_calls[1])
  /\ orig_calls' = Tail(orig_calls)
  /\ UNCHANGED <<pass, source, it, uses, use>>

PrintStore ==
  /\ pass = "printf" /\ it # None /\ code[it].kind = "store"
  /\ PutAfter(it)
  /\ it' = After(order', it)
  /\ UNCHANGED <<pass, source, orig_calls, uses, use>>

Wanted == CASE pass = "multiply" -> "operator" [] pass = "puts" -> "call" [] OTHER -> "store"

Skip ==
  /\ it # None /\ code[it].kind # Wanted
  /\ it' = After(order, it)
  /\ UNCHANGED <<code, pass, source, order, orig_calls, uses, use>>

InsNext == CreateMul \/ SetOperand \/ Collect \/ InstrumentAfter \/ PrintStore \/ Skip
InsDone == it = None /\ orig_calls = << >>
InsSpec == code \in Codes /\ pass \in Passes /\ InsInit /\ [][InsNext]_insVars
-----------------------------------------------------------------------------
(* Properties.                                                             *)

Targets == {i \in DOMAIN source : source[i].kind = Wanted}
IsNew(i) == i > Len(source)
Added == {m \in DOMAIN code : IsNew(m)}

(* s lists the numbers 1 .. n, each of them once.                          *)
Lists(s, n) ==
  /\ s \in Seq(1 .. n) /\ Len(s) = n
  /\ \A i \in 1 .. n : \E j \in 1 .. n : s[j] = i
  /\ \A j, k \in 1 .. n : s[j] = s[k] => j = k

(* However a pass walks what it changes, the function keeps its            *)
(* instructions in their order; no instruction gets more than one next to  *)
(* it, and none but a target gets one; in the end each target has one.     *)
Beside(i) == IF pass = "multiply" THEN Position(order, i) - 1 ELSE Position(order, i) + 1
EachOnce ==
  /\ Lists(order, Len(code))
  /\ \A i, k \in DOMAIN source : i < k => Position(order, i) < Position(order, k)
  /\ \A m \in Added : \E i \in Targets : Position(order, m) = Beside(i)
  /\ InsDone => \A i \in Targets : \E m \in Added : Position(order, m) = Beside(i)

(* An operator whose value was multiplied instead is to be replaced: all   *)
(* of its uses are given to the multiplication (OnlyOperatorMultiplyPass). *)
EveryUseMoves ==
  InsDone /\ pass = "multiply" =>
    \A i \in Targets : \A u \in UsesIn(source, i) : code[u[1]].ops[u[2]] = order[Beside(i)]

(* Each pass has served the targets that it has passed by (the second *)
(* pass over the calls, those that it has no longer to do).                *)
Passed(i) == it = None \/ Position(order, i) < Position(order, it)
Served ==
  {i \in Targets :
     CASE pass = "multiply" -> Passed(i) \/ (i = it /\ use # None)
       [] pass = "puts" -> it = None /\ \A k \in DOMAIN orig_calls : orig_calls[k] # i
       [] OTHER -> Passed(i)}

(* A multiplication has the operands its operator has by then, in which    *)
(* earlier ones may have replaced earlier operators; and it replaces its   *)
(* own operator and nothing else: no operand is ever set to another        *)
(* operator's multiplication, whatever is put in before or after.          *)
ProductsFollow ==
  pass = "multiply" =>
    /\ \A i \in Served : code[order[Beside(i)]].ops = code[i].ops
    /\ \A i \in DOMAIN source : \A k \in DOMAIN source[i].ops :
         LET v == source[i].ops[k]
         IN  code[i].ops[k] # v => v \in Served /\ code[i].ops[k] = order[Beside(v)]

(* Why EveryUseMoves does not hold: the walk over the uses goes on in the  *)
(* multiplication's list, where the use it has just moved is the last.  Of *)
(* an operator's uses exactly one is moved.                                *)
Moved(i) == {u \in UsesIn(source, i) : IsNew(code[u[1]].ops[u[2]])}
OneUseMoves ==
  InsDone /\ pass = "multiply" =>
    \A i \in Targets :
      /\ UsesIn(source, i) # {} => \E u \in UsesIn(source, i) : Moved(i) = {u}
      /\ \A u \in Moved(i) : code[u[1]].ops[u[2]] = order[Beside(i)]

(* The inductive invariant.                                                *)
CodeKept ==
  /\ pass \in Passes /\ source \in Codes /\ code \in Seq(Instruction)
  /\ Len(source) <= Len(code) /\ it \in DOMAIN code \cup {None}
  /\ \A i \in DOMAIN source :
       code[i].kind = source[i].kind /\ Len(code[i].ops) = Len(source[i].ops)
  /\ \A m \in Added : code[m].kind = IF pass = "multiply" THEN "operator" ELSE "call"

ServedOnce ==
  /\ Lists(order, Len(code))
  /\ \A i, k \in DOMAIN source : i < k => Position(order, i) < Position(order, k)
  /\ \A m \in Added : \E i \in Served : Position(order, m) = Beside(i)
  /\ \A i \in Served : \E m \in Added : Position(order, m) = Beside(i)

CallsOnce ==
  /\ orig_calls \in Seq(Targets)
  /\ \A j, k \in DOMAIN orig_calls : orig_calls[j] = orig_calls[k] => j = k
  /\ pass # "puts" => orig_calls = << >>
  /\ pass = "puts" /\ it # None =>
       /\ Added = {}
       /\ \A i \in Targets : Passed(i) <=> \E k \in DOMAIN orig_calls : orig_calls[k] = i

(* What the operand of u is by now, u being a use in the source.           *)
UsedAt(u) == code[u[1]].ops[u[2]]
Kept(v) == \A u \in UsesIn(source, v) : UsedAt(u) = v
UsesMoved ==
  /\ pass # "multiply" => use = None
  /\ pass = "multiply" =>
       /\ uses \in Seq(Seq(Nat \X Nat)) /\ Len(uses) = Len(code)
       /\ use # None => /\ it \in Targets /\ use \in UsesIn(source, it)
                        /\ Mul \in Added /\ uses[Mul] = << >>
       /\ \A i \in DOMAIN source : \A k \in DOMAIN source[i].ops :
            code[i].ops[k] = source[i].ops[k]
              \/ (source[i].ops[k] \in Targets /\ IsNew(code[i].ops[k]))
       /\ \A v \in DOMAIN source : ~Passed(v) => Kept(v) /\ ToSet(uses[v]) = UsesIn(source, v)
       /\ \A v \in Targets : Passed(v) /\ UsesIn(source, v) # {} =>
            \E u \in UsesIn(source, v) :
              /\ UsedAt(u) = order[Beside(v)]
              /\ \A w \in UsesIn(source, v) \ {u} : UsedAt(w) = v

ProductsMultiply ==
  pass = "multiply" => \A i \in Served : code[order[Beside(i)]].ops = code[i].ops

InsInv == CodeKept /\ ServedOnce /\ CallsOnce /\ UsesMoved /\ ProductsMultiply
=============================================================================
