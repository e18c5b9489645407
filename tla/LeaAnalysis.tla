----------------------------- MODULE LeaAnalysis -----------------------------
(***************************************************************************)
(* LeaAnalysisPass (src/lea_analysis/pass.cpp): it lists the getelementptr *)
(* instructions whose address depends on an index that is not constant.    *)
(***************************************************************************)
EXTENDS Instructions

VARIABLES
  here,  (* the instruction the walk is at                                 *)
  gep    (* the instructions listed                                        *)

leaVars == <<here, gep>>

LeaInit == here = 1 /\ gep = << >>

Tainted_PastTheFirst(i) == \E k \in DOMAIN code[i].ops : k > 2 /\ code[i].ops[k] # Const
Tainted(i) == \E k \in DOMAIN code[i].ops : k > 1 /\ code[i].ops[k] # Const

Examine ==
  /\ here \in Instrs
  /\ gep' = IF code[here].kind = "gep" /\ Tainted(here) THEN Append(gep, here) ELSE gep
  /\ here' = here + 1
  /\ UNCHANGED code

LeaDone == here = Len(code) + 1
=============================================================================
