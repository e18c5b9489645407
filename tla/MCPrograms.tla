----------------------------- MODULE MCPrograms ------------------------------
(***************************************************************************)
(* An instance of the smaller passes and of the two sample services for    *)
(* TLC: one of them is at work, in the compiler or at run time, while the  *)
(* state of the others stays as it begins.  The GEP and LEA analyses change*)
(* no code and go over the same function, one after the other.             *)
(***************************************************************************)
EXTENDS AddressAnalyses, InsertingPasses, BranchPasses, Counters,
        MessageService, DraftService

CONSTANTS A, B, X, t1, t2, empty, ann, bob, hi, full

VARIABLE program  (* the pass or the service that is at work               *)

(* The lines that the services read are empty, one of two names, and two   *)
(* texts, some of which fill the fields of the message service.            *)
MCNames == {empty, ann, bob}
MCTexts == {empty, full}
MCFullNames == {bob}
MCFullTexts == {full}
MCDraftTexts == {hi}

(* Functions with a loop: an integer alloca, another alloca, a phi of any  *)
(* two values, a load and a getelementptr.                                 *)
I(kind, ops) == [kind |-> kind, ops |-> ops]
Loops ==
  {<<I("alloca", <<Const>>), I(second, <<Const>>), I("other", <<p, q>>),
     I("other", <<l>>), I("gep", <<base, index>>)>> :
     second \in {"alloca", "slot"}, p \in 1 .. 3, q \in 3 .. 5, l \in {Arg, 1, 2, 3},
     base \in 1 .. 4, index \in {Arg, Const, 1, 3, 4}}

(* Straight functions with operators and their uses, calls and stores.     *)
Straight ==
  {<<I("operator", <<Arg, Const>>), I("operator", <<a, b>>), I(k, <<c, d>>),
     I(l, <<e, Arg>>), I("other", <<e>>)>> :
     a \in {1, Arg}, b \in {1, Const}, c \in {1, 2}, d \in {1, 2, Const}, e \in {2, 3},
     k \in {"operator", "call", "store"}, l \in {"call", "store"}}

MCCodes == Loops \cup Straight

Stop == [op |-> "other", to |-> {}]
Idle == [b \in {A, B, X} |-> Stop]
Compare(e) == [op |-> "compare", equality |-> e, yes |-> A, no |-> X]
MCBranching ==
  {[b \in {A, B, X} |->
      CASE b = A -> [op |-> "test", size |-> n, magic |-> m, ne |-> e, stores |-> FALSE,
                     yes |-> B, no |-> no]
        [] b = B -> second
        [] OTHER -> Stop] :
     n \in {1, 2}, m \in Word, e \in BOOLEAN, no \in {A, X},
     second \in {Compare(TRUE), Compare(FALSE)} \cup
       [op : {"test"}, size : {2}, magic : Word, ne : BOOLEAN, stores : {FALSE},
        yes : {A}, no : {X}]}
  \cup {Idle}

Rewriting == {"multiply", "puts", "printf"}

Programs == {"analyses", "branches", "counter", "messages", "drafts"} \cup Rewriting

MCInit ==
  /\ program \in Programs
  /\ code \in CASE program = "analyses" -> Loops [] program \in Rewriting -> Straight
                [] OTHER -> {<< >>}
  /\ AnalysesInit
  /\ pass = program /\ InsInit
  /\ program = "branches" \/ (compiled = Idle /\ fuzzFirst = TRUE)
  /\ BrInit
  /\ program = "counter" \/ prints = TRUE
  /\ CtrInit
  /\ Init /\ DraftsInit

(* One program's step, by what the variables are named that it leaves.     *)
Analyse ==
  /\ program = "analyses"
  /\ AnalysesNext
  /\ UNCHANGED <<pass, source, order, it, orig_calls, uses, use>>
  /\ UNCHANGED <<brVars, ctrVars, vars, draftsVars>>

Insert ==
  /\ program \in Rewriting
  /\ InsNext
  /\ UNCHANGED <<at, stack, bt_visited, allocas, line, reports, leaVars>>
  /\ UNCHANGED <<brVars, ctrVars, vars, draftsVars>>

Rewrite ==
  /\ program = "branches"
  /\ BrNext
  /\ UNCHANGED <<gepVars, leaVars, insVars, ctrVars, vars, draftsVars>>

CountUp ==
  /\ program = "counter"
  /\ CtrNext
  /\ UNCHANGED <<gepVars, leaVars, insVars, brVars, vars, draftsVars>>

(* A bound of the instance: at most MaxSent messages are sent in all.      *)
MaxSent == 4
FewSent == Len(users') = 2 => users'[1].count + users'[2].count <= MaxSent

Serve ==
  /\ \/ program = "messages" /\ Next /\ FewSent /\ UNCHANGED draftsVars
     \/ program = "drafts" /\ DraftsNext /\ UNCHANGED vars
  /\ UNCHANGED <<gepVars, leaVars, insVars, brVars, ctrVars>>

MCNext ==
  /\ Analyse \/ Insert \/ Rewrite \/ CountUp \/ Serve
  /\ UNCHANGED program

MCSpec ==
  /\ MCInit
  /\ [][MCNext]_<<gepVars, leaVars, insVars, brVars, ctrVars, vars, draftsVars, program>>
=============================================================================
