--------------------------- MODULE AddressAnalyses ---------------------------
(***************************************************************************)
(* GepAnalysisPass and LeaAnalysisPass over the same function, one after   *)
(* the other: both are about the addresses that getelementptrs compute,    *)
(* one from where their values come, the other from what kind they are of. *)
(***************************************************************************)
EXTENDS GepAnalysis, LeaAnalysis

AnalysesInit == GepInit /\ LeaInit
AnalysesNext ==
  \/ GepNext /\ UNCHANGED leaVars
  \/ GepDone /\ Examine /\ UNCHANGED gepVars

AnalysesSpec == code \in Codes /\ AnalysesInit /\ [][AnalysesNext]_<<gepVars, leaVars>>

-----------------------------------------------------------------------------
(* Where the two analyses speak of the same address they agree: a          *)
(* getelementptr that is reported under an alloca, though its base does    *)
(* not come from there, has its index from there, and the LEA analysis     *)
(* lists it; it lists each getelementptr once.                             *)
IndexesAreListed ==
  GepDone /\ LeaDone =>
    /\ \A k \in DOMAIN reports : \A g \in reports[k] \cap Geps :
         code[g].ops[1] \notin {allocas[k]} \cup reports[k] =>
           \E j \in DOMAIN gep : gep[j] = g
    /\ \A j, k \in DOMAIN gep : j < k => gep[j] < gep[k]

(* The list has what it should up to where the walk is, in its order, and  *)
(* only integer allocas are reported on.                                   *)
LeaInv ==
  /\ here \in 1 .. Len(code) + 1
  /\ gep \in Seq(Instrs)
  /\ \A j \in DOMAIN gep : gep[j] < here
  /\ \A j, k \in DOMAIN gep : j < k => gep[j] < gep[k]
  /\ \A i \in Geps : i < here /\ Tainted(i) => \E j \in DOMAIN gep : gep[j] = i
=============================================================================
