------------------------------ MODULE StackGuard -----------------------------
(***************************************************************************)
(* StackGuardPass (src/stackguard/pass.cpp) and the program it leaves.     *)
(* The pass puts a load of the global canary and a store to a new slot at  *)
(* the start of each function, walks from the function's last instruction  *)
(* back to a return, and puts a comparison of slot and global before it.   *)
(* Then the program runs, and somebody may write to slots and the global.  *)
(***************************************************************************)
EXTENDS Integers, FiniteSets, SequencesExt

CONSTANTS
  Functions,  (* of the program, each compiled with the pass               *)
  Layouts,    (* instructions of a function in order: "ret" and "other"    *)
  Words,      (* values of a canary                                        *)
  Depth       (* bound of the model: frames alive                          *)

ASSUME GuardAssumption ==
  /\ Layouts \subseteq Seq({"ret", "other"}) \ {<< >>}
  /\ Words # {} /\ Depth \in Nat

VARIABLES
  layout,   (* what each function looks like                               *)
  todo,     (* functions yet to compile                                    *)
  back,     (* function_back in the one being compiled, 0 for none         *)
  split,    (* for each function the instruction the check is put before   *)
  canary,   (* the global                                                  *)
  frames,   (* the live frames, the running one last                       *)
  verdict   (* "running", "alarm" or "stopped"                             *)

pass == <<layout, todo, back, split>>
run == <<canary, frames, verdict>>
vars == <<pass, run>>

-----------------------------------------------------------------------------
(* The pass.  Load, alloca and store come before what was there.           *)

Body(f) == <<"other", "other", "other">> \o layout[f]
Returns(f) == {i \in DOMAIN Body(f) : Body(f)[i] = "ret"}
Begin == 1

Pick(f) ==
  /\ back = 0 /\ f \in todo
  /\ back' = Len(Body(f))
  /\ todo' = todo \ {f}
  /\ split' = [split EXCEPT ![f] = 0]
  /\ UNCHANGED <<layout, run>>

Compiling(f) == back # 0 /\ split[f] = 0 /\ f \notin todo

(* The walk ends at a return, and at the first instruction.                *)
Found_Never(f) == back = Begin
Found(f) == Body(f)[back] = "ret" \/ back = Begin

WalkBack(f) ==
  /\ Compiling(f) /\ ~Found(f)
  /\ back' = back - 1
  /\ UNCHANGED <<layout, todo, split, run>>

Insert(f) ==
  /\ Compiling(f) /\ Found(f)
  /\ split' = [split EXCEPT ![f] = back]
  /\ back' = 0
  /\ UNCHANGED <<layout, todo, run>>

Compiled == todo = {} /\ back = 0

-----------------------------------------------------------------------------
(* The program.  "got" is what the check loaded of the slot, "want" what   *)
(* it loaded of the global; "touched" is history: whether somebody wrote   *)
(* to the slot or the global since the prologue, before the check began    *)
(* ("early") or after ("late").                                            *)

Labels == {"load", "store", "body", "slot", "global", "compare"}
Frame == [f : Functions, at : Labels, slot : Words, reg : Words,
          got : Words, want : Words, touched : {"no", "early", "late"}]

top == frames[Len(frames)]
On(label) == Compiled /\ verdict = "running" /\ frames # << >> /\ top.at = label
Becomes(frame) == frames' = [frames EXCEPT ![Len(frames)] = frame]
Quiet == UNCHANGED <<pass, canary, verdict>>

(* Without a return the check comes first, in front of the prologue, and   *)
(* the slot it reads is not yet there.                                     *)
CheckFirst(f) == split[f] = Begin

Call ==
  /\ Compiled /\ verdict = "running" /\ Len(frames) < Depth
  /\ frames # << >> => top.at = "body"
  /\ \E f \in Functions, slot \in Words :
       frames' = Append(frames,
         [f |-> f, at |-> IF CheckFirst(f) THEN "slot" ELSE "load",
          slot |-> slot, reg |-> slot, got |-> slot, want |-> slot,
          touched |-> "no"])
  /\ Quiet

LoadCanary ==
  /\ On("load")
  /\ Becomes([top EXCEPT !.at = "store", !.reg = canary, !.touched = "no"])
  /\ Quiet

PushCanary_Skipped ==
  /\ On("store")
  /\ Becomes([top EXCEPT !.at = "body"])
  /\ Quiet
PushCanary ==
  /\ On("store")
  /\ Becomes([top EXCEPT !.at = "body", !.slot = top.reg])
  /\ Quiet

Leave == frames' = Front(frames) /\ Quiet

(* The function comes to a return.                                         *)
Return ==
  /\ On("body")
  /\ \E i \in Returns(top.f) :
       IF i = split[top.f] THEN Becomes([top EXCEPT !.at = "slot"]) /\ Quiet
       ELSE Leave

LoadSlot ==
  /\ On("slot")
  /\ \E w \in IF CheckFirst(top.f) THEN Words ELSE {top.slot} :
       Becomes([top EXCEPT !.at = "global", !.got = w])
  /\ Quiet

LoadGlobal_Slot ==
  /\ On("global")
  /\ Becomes([top EXCEPT !.at = "compare", !.want = top.slot])
  /\ Quiet
LoadGlobal ==
  /\ On("global")
  /\ Becomes([top EXCEPT !.at = "compare", !.want = canary])
  /\ Quiet

Passes_Swapped == top.got # top.want
Passes == top.got = top.want

Compare ==
  /\ On("compare")
  /\ \/ /\ Passes /\ CheckFirst(top.f)
        /\ Becomes([top EXCEPT !.at = "load"]) /\ Quiet
     \/ Passes /\ ~CheckFirst(top.f) /\ Leave
     \/ ~Passes /\ verdict' = "alarm" /\ UNCHANGED <<pass, canary, frames>>

(* A stray store, of this thread or another, to a slot or to the global.   *)
Touched(frame) ==
  [frame EXCEPT !.touched = IF frame.at \in {"global", "compare"} THEN "late" ELSE "early"]

Smash ==
  /\ Compiled /\ verdict = "running"
  /\ \E i \in DOMAIN frames, w \in Words :
       frames' = [frames EXCEPT ![i] = [Touched(@) EXCEPT !.slot = w]]
  /\ Quiet

Rekey ==
  /\ Compiled /\ verdict = "running"
  /\ canary' \in Words
  /\ frames' = [i \in DOMAIN frames |-> Touched(frames[i])]
  /\ UNCHANGED <<pass, verdict>>

Stop ==
  /\ verdict = "running" /\ Compiled
  /\ verdict' = "stopped"
  /\ UNCHANGED <<pass, canary, frames>>

Init ==
  /\ layout \in [Functions -> Layouts]
  /\ todo = Functions
  /\ back = 0
  /\ split = [f \in Functions |-> 0]
  /\ canary \in Words
  /\ frames = << >>
  /\ verdict = "running"

Compile == \E f \in Functions : Pick(f) \/ WalkBack(f) \/ Insert(f)
Run == \/ Call \/ LoadCanary \/ PushCanary \/ Return \/ LoadSlot \/ LoadGlobal
       \/ Compare \/ Smash \/ Rekey \/ Stop
Next == Compile \/ Run

Spec == Init /\ [][Next]_vars
-----------------------------------------------------------------------------
(* Properties.                                                             *)

(* The state has its types.                                                *)
TypeOK ==
  /\ layout \in [Functions -> Layouts]
  /\ todo \subseteq Functions
  /\ back \in Nat
  /\ split \in [Functions -> Nat]
  /\ canary \in Words
  /\ frames \in Seq(Frame)
  /\ verdict \in {"running", "alarm", "stopped"}

(* The walk stops at the last return, whatever comes after it, and at the  *)
(* first instruction only when there is none (runOnFunction).              *)
LastReturnIsChecked ==
  \A f \in Functions : split[f] # 0 =>
    /\ \A i \in Returns(f) : i <= split[f]
    /\ Returns(f) # {} => split[f] \in Returns(f)
    /\ Returns(f) = {} => CheckFirst(f)

(* The guard stops no function whose slot, and the global, nobody wrote to *)
(* since its prologue, except one that has no return.                      *)
AlarmIsTrue ==
  verdict = "alarm" => top.touched # "no" \/ Returns(top.f) = {}

(* What a frame holds depends on whether its check is under way, and on    *)
(* whether a store came in between.                                        *)
FrameOK(frame) ==
  Returns(frame.f) # {} =>
    /\ frame.touched = "no" =>
         /\ frame.at = "store" => frame.reg = canary
         /\ frame.at \notin {"load", "store"} => frame.slot = canary
    /\ frame.touched # "late" =>
         /\ frame.at \in {"global", "compare"} => frame.got = frame.slot
         /\ frame.at = "compare" => frame.want = canary

(* The inductive invariant: no return lies behind the walk, and every      *)
(* frame is as its prologue, and the stores since, left it.                *)
IInv ==
  /\ TypeOK
  /\ \A f \in Functions : split[f] = 0 => f \in todo \/ back # 0
  /\ \A f, h \in Functions : Compiling(f) /\ Compiling(h) => f = h
  /\ \A f \in Functions :
       Compiling(f) => back \in DOMAIN Body(f) /\ \A i \in Returns(f) : i <= back
  /\ LastReturnIsChecked
  /\ frames # << >> => Compiled
  /\ verdict = "alarm" => frames # << >>
  /\ \A i \in DOMAIN frames : FrameOK(frames[i])
  /\ AlarmIsTrue

(* A function with one return does not come back with another canary than  *)
(* the global's, unless a store hit the check itself.                      *)
Guarded(frame) == Cardinality(Returns(frame.f)) = 1
GuardedReturn ==
  [][Len(frames') < Len(frames) /\ Guarded(top) =>
       top.slot = canary \/ top.touched = "late"]_vars

(* The calls of functions with one return are guarded: the saved value is  *)
(* the slot's, the right one the global's.  Of the others, and of a call   *)
(* whose prologue has not yet begun, nothing is promised but that they may *)
(* return: they count as intact.                                           *)
Saved(frame) ==
  CASE frame.at = "store" -> frame.reg = canary
    [] frame.at = "compare" /\ frame.touched = "late" -> frame.got = frame.want
    [] frame.at = "global" /\ frame.touched = "late" -> frame.got = canary
    [] OTHER -> frame.slot = canary
Agrees(frame) == ~Guarded(frame) \/ frame.at = "load" \/ Saved(frame)
Calls == [i \in DOMAIN frames |-> [ra |-> Agrees(frames[i]), orig |-> TRUE]]
Verdict == IF verdict = "alarm" /\ ~Guarded(top) THEN "stopped" ELSE verdict
Abstract == INSTANCE GuardedCalls WITH Addr <- BOOLEAN, calls <- Calls, verdict <- Verdict
GuardsFrames == Abstract!Spec
=============================================================================
