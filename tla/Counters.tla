------------------------------ MODULE Counters -------------------------------
(***************************************************************************)
(* A program compiled with PrintFuncPass (src/simple_pass/globvar), which  *)
(* counts in func_count the functions entered and prints the count at each *)
(* entry, or with ExampleModulePass (src/simple_pass/module_pass), which   *)
(* counts in bb_count the blocks entered.  Both load a global that all     *)
(* threads share, add one, and store it back.                              *)
(***************************************************************************)
EXTENDS Integers, Sequences

CONSTANTS
  Threads,
  Leet,       (* what a counter starts from, 1337 in the source            *)
  MaxEntries  (* bound of the model: entries counted                       *)

ASSUME CounterAssumption ==
  Leet \in Nat /\ MaxEntries \in Nat

VARIABLES
  prints,      (* whether the count is printed, as func_count is           *)
  glob,        (* the counter                                              *)
  step,        (* how far a thread is with the code of an entry            *)
  load,        (* what it loaded                                           *)
  entries,     (* history: the stores made                                 *)
  overlapped,  (* history: whether an entry began during another's         *)
  printed      (* the numbers printed                                      *)

ctrVars == <<prints, glob, step, load, entries, overlapped, printed>>

CtrInit ==
  /\ prints \in BOOLEAN
  /\ glob = Leet
  /\ step = [t \in Threads |-> "program"]
  /\ load = [t \in Threads |-> Leet]
  /\ entries = 0
  /\ overlapped = FALSE
  /\ printed = << >>

LoadGlob(t) ==
  /\ step[t] = "program" /\ entries < MaxEntries
  /\ step' = [step EXCEPT ![t] = "loaded"]
  /\ load' = [load EXCEPT ![t] = glob]
  /\ overlapped' = (overlapped \/ \E u \in Threads : step[u] # "program")
  /\ UNCHANGED <<prints, glob, entries, printed>>

(* The value printed is loaded again after the store.                      *)
StoreInc_Unloaded(t) ==
  /\ step[t] = "loaded"
  /\ glob' = Leet + 1
  /\ entries' = entries + 1
  /\ step' = [step EXCEPT ![t] = IF prints THEN "stored" ELSE "program"]
  /\ UNCHANGED <<prints, load, overlapped, printed>>
StoreInc(t) ==
  /\ step[t] = "loaded"
  /\ glob' = load[t] + 1
  /\ entries' = entries + 1
  /\ step' = [step EXCEPT ![t] = IF prints THEN "stored" ELSE "program"]
  /\ UNCHANGED <<prints, load, overlapped, printed>>

CallPrintf(t) ==
  /\ step[t] = "stored"
  /\ printed' = Append(printed, glob)
  /\ step' = [step EXCEPT ![t] = "program"]
  /\ UNCHANGED <<prints, glob, load, entries, overlapped>>

CtrNext == \E t \in Threads : LoadGlob(t) \/ StoreInc(t) \/ CallPrintf(t)

CtrSpec == CtrInit /\ [][CtrNext]_ctrVars
-----------------------------------------------------------------------------
(* Properties.                                                             *)

(* Lost increments only ever make the counter too small: it never exceeds  *)
(* the entries, and is never back at its start once one was counted, nor   *)
(* is a number printed that would.  While no two entries overlap it counts *)
(* every one, and the numbers printed follow each other.                   *)
CountsEntries ==
  /\ glob <= Leet + entries /\ (entries > 0 => glob > Leet)
  /\ \A i \in DOMAIN printed : printed[i] \in Leet + 1 .. Leet + entries
  /\ ~overlapped => /\ glob = Leet + entries
                    /\ \A i \in DOMAIN printed : printed[i] = Leet + i

(* The inductive invariant: what a thread has loaded the counter had, and  *)
(* without overlap only one thread has loaded or stored.                   *)
CtrInv ==
  /\ prints \in BOOLEAN /\ glob \in Nat /\ glob >= Leet /\ entries \in Nat /\ overlapped \in BOOLEAN
  /\ step \in [Threads -> {"program", "loaded", "stored"}]
  /\ load \in [Threads -> Nat]
  /\ printed \in Seq(Nat)
  /\ \A t \in Threads :
       /\ step[t] = "loaded" => load[t] \in Leet .. Leet + entries
       /\ step[t] = "stored" => entries > 0
       /\ ~prints => step[t] # "stored"
  /\ ~overlapped =>
       /\ \A t, u \in Threads : step[t] # "program" /\ step[u] # "program" => t = u
       /\ \A t \in Threads : step[t] = "loaded" => load[t] = glob
       /\ prints => Len(printed) =
            entries - (IF \E t \in Threads : step[t] = "stored" THEN 1 ELSE 0)
  /\ CountsEntries
=============================================================================
