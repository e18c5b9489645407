--------------------------- MODULE SourceFunction ----------------------------
(***************************************************************************)
(* The abstract specification of a function whose comparisons may be       *)
(* rewritten: what it does as it was compiled, before any pass.  A test    *)
(* loads the whole variable in one access and decides on what it loaded.   *)
(***************************************************************************)
EXTENDS IRFunction

CONSTANT Shared  (* whether somebody else writes the variable meanwhile    *)

VARIABLES
  function,  (* the function's terminators                                 *)
  mem,       (* the variable                                               *)
  block,     (* the block control is in                                    *)
  step,      (* how far it is in that block                                *)
  loaded     (* the register with the variable's value                     *)

vars == <<function, mem, block, step, loaded>>

Init ==
  /\ function \in Functions
  /\ mem \in Word
  /\ block = Start
  /\ step = "load"
  /\ loaded = mem

Load ==
  /\ step = "load"
  /\ function[block] \in Test
  /\ loaded' = mem
  /\ step' = IF function[block].stores THEN "store" ELSE "compare"
  /\ UNCHANGED <<function, mem, block>>

Store ==
  /\ step = "store"
  /\ mem' \in Word
  /\ step' = "compare"
  /\ UNCHANGED <<function, block, loaded>>

Enter(b) ==
  /\ block' = b
  /\ step' = "load"
  /\ UNCHANGED <<function, mem, loaded>>

Branch ==
  /\ step = "compare"
  /\ Enter(Outcome(loaded, function[block]))

Jump ==
  /\ step = "load"
  /\ function[block] \in Other
  /\ \E b \in function[block].to : Enter(b)

Write ==
  /\ Shared
  /\ mem' \in Word
  /\ UNCHANGED <<function, block, step, loaded>>

Execute == Load \/ Store \/ Branch \/ Jump

Next == Execute \/ Write

Safety == Init /\ [][Next]_vars
Spec == Safety /\ WF_vars(Execute)
=============================================================================
