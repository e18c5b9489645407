-------------------------- MODULE StackGuardProofs ---------------------------
(***************************************************************************)
(* Proofs about StackGuard, for any functions, canaries and depth.         *)
(***************************************************************************)
EXTENDS StackGuard, SequenceTheorems, FiniteSetTheorems, TLAPS

LEMMA BodyOf ==
  ASSUME TypeOK, NEW f \in Functions
  PROVE  /\ Body(f) \in Seq({"ret", "other"})
         /\ Len(Body(f)) \in Nat /\ Len(Body(f)) > 3
         /\ DOMAIN Body(f) = 1 .. Len(Body(f))
         /\ Returns(f) \subseteq Nat \ {0, Begin}
<1> DEFINE head == <<"other", "other", "other">>
<1>1. layout[f] \in Seq({"ret", "other"}) /\ layout[f] # << >>
  BY GuardAssumption DEF TypeOK
<1>2. head \in Seq({"ret", "other"}) /\ Len(head) = 3 /\ head[1] = "other"
  OBVIOUS
<1> HIDE DEF head
<1>3. /\ head \o layout[f] \in Seq({"ret", "other"})
      /\ Len(head \o layout[f]) = 3 + Len(layout[f])
      /\ (head \o layout[f])[1] = "other"
  <2>1. /\ head \o layout[f] \in Seq({"ret", "other"})
        /\ Len(head \o layout[f]) = Len(head) + Len(layout[f])
        /\ \A i \in 1 .. Len(head) + Len(layout[f]) : (head \o layout[f])[i] =
              IF i <= Len(head) THEN head[i] ELSE layout[f][i - Len(head)]
    BY <1>1, <1>2, ConcatProperties
  <2>2. Len(layout[f]) \in Nat
    BY <1>1
  <2> QED
    BY <1>2, <2>1, <2>2
<1>4. Body(f) = head \o layout[f]
  BY DEF Body, head
<1>5. Len(layout[f]) \in Nat /\ Len(layout[f]) # 0
  BY <1>1, EmptySeq, LenProperties
<1> QED
  BY <1>3, <1>4, <1>5 DEF Returns, Begin

(* A check comes first exactly where there is no return.                   *)
LEMMA CheckFirstMeans ==
  ASSUME IInv, Compiled, NEW f \in Functions
  PROVE  CheckFirst(f) <=> Returns(f) = {}
<1>1. split[f] # 0
  BY DEF IInv, Compiled
<1>2. Returns(f) # {} => split[f] # Begin
  BY <1>1, BodyOf DEF IInv, LastReturnIsChecked
<1> QED
  BY <1>1, <1>2 DEF IInv, LastReturnIsChecked, CheckFirst

-----------------------------------------------------------------------------
(* The pass.                                                               *)

LEMMA CompileKeeps ==
  ASSUME IInv, Compile
  PROVE  IInv'
<1> PICK f \in Functions : Pick(f) \/ WalkBack(f) \/ Insert(f)
  BY DEF Compile
<1>0. UNCHANGED <<layout, run>> /\ back' \in Nat /\ split' \in [Functions -> Nat] /\ todo' \subseteq Functions
  BY BodyOf DEF Pick, WalkBack, Insert, IInv, TypeOK, Compiling, Body, Begin, Found
<1>1. TypeOK'
  BY <1>0 DEF IInv, TypeOK, run
<1>2. /\ \A h \in Functions : Body(h)' = Body(h) /\ Returns(h)' = Returns(h)
      /\ ~Compiled /\ frames = << >> /\ frames' = << >> /\ verdict # "alarm" /\ verdict' # "alarm"
  <2>1. ~Compiled
    BY DEF Pick, WalkBack, Insert, Compiling, Compiled
  <2> QED
    BY <1>0, <2>1 DEF IInv, run, Body, Returns
<1> USE DEF IInv
<1>a. \A h \in Functions : CheckFirst(h)' <=> split'[h] = Begin
  BY DEF CheckFirst
<1>b. AlarmIsTrue' /\ \A i \in DOMAIN frames' : FrameOK(frames[i])'
  BY <1>2 DEF AlarmIsTrue
<1>3. CASE Pick(f)
  <2>1. /\ back = 0 /\ f \in todo /\ back' = Len(Body(f)) /\ todo' = todo \ {f}
        /\ split' = [split EXCEPT ![f] = 0] /\ split'[f] = 0
        /\ \A h \in Functions : h # f => split'[h] = split[h]
    BY <1>3 DEF Pick, TypeOK
  <2>2. \A h \in Functions : Compiling(h)' => h = f
    BY <2>1 DEF Compiling
  <2>3. back' # 0 /\ back' \in DOMAIN Body(f)
    BY <2>1, BodyOf
  <2>4. \A i \in Returns(f) : i <= back'
    BY <2>1, BodyOf DEF Returns
  <2>5. LastReturnIsChecked'
    BY <1>2, <1>a, <2>1 DEF LastReturnIsChecked, CheckFirst
  <2> QED
    BY <1>1, <1>2, <1>b, <2>1, <2>2, <2>3, <2>4, <2>5
<1>4. CASE WalkBack(f)
  <2>1. /\ Compiling(f) /\ Body(f)[back] # "ret" /\ back # Begin
        /\ back' = back - 1 /\ todo' = todo /\ split' = split
    BY <1>4 DEF WalkBack, Found
  <2>2. back \in 1 .. Len(Body(f)) /\ Len(Body(f)) \in Nat /\ back > 1
    BY <2>1, BodyOf DEF Begin
  <2>3. back' # 0 /\ back' \in DOMAIN Body(f)
    BY <2>1, <2>2, BodyOf
  <2>4. ASSUME NEW i \in Returns(f) PROVE i <= back'
    BY <2>1, <2>2, BodyOf DEF Returns
  <2>5. \A h \in Functions : Compiling(h)' => h = f
    BY <2>1, <2>3 DEF Compiling
  <2>6. LastReturnIsChecked'
    BY <1>2, <1>a, <2>1 DEF LastReturnIsChecked, CheckFirst
  <2> QED
    BY <1>1, <1>2, <1>b, <2>1, <2>3, <2>4, <2>5, <2>6
<1>5. CASE Insert(f)
  <2>1. /\ Compiling(f) /\ (Body(f)[back] = "ret" \/ back = Begin) /\ back # 0
        /\ back' = 0 /\ todo' = todo /\ split'[f] = back
        /\ \A h \in Functions : h # f => split'[h] = split[h]
    BY <1>5 DEF Insert, Found, Compiling, TypeOK
  <2>2. \A h \in Functions : split'[h] = 0 => h \in todo'
    BY <2>1 DEF Compiling
  <2>3. \A h \in Functions : ~Compiling(h)'
    BY <2>1 DEF Compiling
  <2>4. /\ \A i \in Returns(f) : i <= back
        /\ back \in DOMAIN Body(f)
    BY <2>1
  <2>5. Returns(f) = {} => back = Begin
    BY <2>1, <2>4 DEF Returns
  <2>6. Returns(f) # {} => back \in Returns(f)
    <3> SUFFICES ASSUME NEW i \in Returns(f), back = Begin PROVE FALSE
      BY <2>1, <2>4 DEF Returns
    <3> QED
      BY <2>4, BodyOf DEF Begin
  <2>7. LastReturnIsChecked'
    BY <1>2, <1>a, <2>1, <2>4, <2>5, <2>6 DEF LastReturnIsChecked, CheckFirst
  <2> QED
    BY <1>1, <1>2, <1>b, <2>2, <2>3, <2>7
<1> QED
  BY <1>3, <1>4, <1>5

-----------------------------------------------------------------------------
(* The program.                                                            *)

(* With the pass done, the invariant is about frames and verdict.          *)
RunOK ==
  /\ canary \in Words /\ frames \in Seq(Frame)
  /\ verdict \in {"running", "alarm", "stopped"}
  /\ verdict = "alarm" => frames # << >>
  /\ \A i \in DOMAIN frames : FrameOK(frames[i])
  /\ AlarmIsTrue

LEMMA RunIsEnough ==
  ASSUME IInv, Compiled, UNCHANGED pass, RunOK'
  PROVE  IInv'
<1>1. UNCHANGED <<layout, todo, back, split>>
  BY DEF pass
<1>2. Compiled' /\ \A f \in Functions : ~Compiling(f)'
  BY <1>1 DEF Compiled, Compiling
<1>3. LastReturnIsChecked'
  BY <1>1 DEF IInv, LastReturnIsChecked, Returns, Body, CheckFirst
<1>4. TypeOK'
  BY <1>1 DEF IInv, TypeOK, RunOK
<1> QED
  BY <1>1, <1>2, <1>3, <1>4 DEF IInv, RunOK

(* A step that changes the running frame only.                             *)
LEMMA TopStep ==
  ASSUME IInv, Compiled, frames # << >>, UNCHANGED <<pass, canary>>,
         verdict = "running", verdict' = verdict,
         NEW fr \in Frame, Becomes(fr), FrameOK(fr)
  PROVE  IInv'
<1>1. frames \in Seq(Frame) /\ Len(frames) \in Nat /\ DOMAIN frames = 1 .. Len(frames)
  BY DEF IInv, TypeOK
<1>2. /\ frames' \in Seq(Frame) /\ DOMAIN frames' = DOMAIN frames
      /\ \A i \in DOMAIN frames : frames'[i] = fr \/ frames'[i] = frames[i]
  BY <1>1 DEF Becomes
<1>3. UNCHANGED <<layout, canary>>
  BY DEF pass
<1>4. \A i \in DOMAIN frames' : FrameOK(frames'[i])
  BY <1>2 DEF IInv
<1>5. \A i \in DOMAIN frames' : FrameOK(frames[i])'
  BY <1>3, <1>4 DEF FrameOK, Returns, Body
<1> QED
  BY <1>2, <1>5, RunIsEnough DEF RunOK, IInv, TypeOK, AlarmIsTrue
LEMMA TopIs ==
  ASSUME IInv, frames # << >>
  PROVE  /\ top \in Frame /\ FrameOK(top)
         /\ Len(frames) \in 1 .. Len(frames) /\ Len(frames) \in DOMAIN frames
<1>1. frames \in Seq(Frame) /\ Len(frames) \in Nat /\ Len(frames) # 0
  BY EmptySeq DEF IInv, TypeOK
<1> QED
  BY <1>1 DEF IInv, top

LEMMA LeaveKeeps ==
  ASSUME IInv, Compiled, frames # << >>, verdict = "running", Leave
  PROVE  IInv'
<1>1. frames \in Seq(Frame) /\ Len(frames) \in Nat
  BY DEF IInv, TypeOK
<1>2. /\ frames' \in Seq(Frame) /\ DOMAIN frames' \subseteq DOMAIN frames
      /\ \A i \in DOMAIN frames' : frames'[i] = frames[i]
  <2>1. \A i \in 1 .. Len(frames) - 1 : frames[i] \in Frame
    BY <1>1, ElementOfSeq
  <2>2. /\ SubSeq(frames, 1, Len(frames) - 1) \in Seq(Frame)
        /\ Len(SubSeq(frames, 1, Len(frames) - 1)) =
             IF 1 <= Len(frames) - 1 THEN Len(frames) - 1 - 1 + 1 ELSE 0
        /\ \A i \in 1 .. Len(frames) - 1 - 1 + 1 :
             SubSeq(frames, 1, Len(frames) - 1)[i] = frames[1 + i - 1]
    BY <1>1, <2>1, SubSeqProperties
  <2>3. frames' = SubSeq(frames, 1, Len(frames) - 1)
    BY DEF Leave, Front
  <2> HIDE DEF Leave
  <2> QED
    BY <1>1, <2>2, <2>3
<1>3. UNCHANGED <<pass, layout, canary, verdict>>
  BY DEF Leave, Quiet, pass
<1>4. \A i \in DOMAIN frames' : FrameOK(frames'[i])
  BY <1>2 DEF IInv
<1>5. \A i \in DOMAIN frames' : FrameOK(frames[i])'
  BY <1>3, <1>4 DEF FrameOK, Returns, Body
<1> QED
  BY <1>2, <1>3, <1>5, RunIsEnough DEF RunOK, IInv, TypeOK, AlarmIsTrue

LEMMA RunKeeps ==
  ASSUME IInv, Run
  PROVE  IInv'
<1>0. Compiled
  BY DEF Run, Call, LoadCanary, PushCanary, Return, LoadSlot, LoadGlobal, Compare,
         Smash, Rekey, Stop, On
<1>f. frames \in Seq(Frame) /\ Len(frames) \in Nat /\ canary \in Words
  BY DEF IInv, TypeOK
<1>1. CASE Call
  <2>1. PICK f \in Functions, w \in Words :
          frames' = Append(frames,
            [f |-> f, at |-> IF CheckFirst(f) THEN "slot" ELSE "load",
             slot |-> w, reg |-> w, got |-> w, want |-> w, touched |-> "no"])
    BY <1>1 DEF Call
  <2> DEFINE fr == [f |-> f, at |-> IF CheckFirst(f) THEN "slot" ELSE "load",
                    slot |-> w, reg |-> w, got |-> w, want |-> w, touched |-> "no"]
  <2>2. UNCHANGED <<pass, layout, canary, verdict>> /\ verdict = "running"
    BY <1>1 DEF Call, Quiet, pass
  <2>3. fr \in Frame
    BY DEF Frame, Labels
  <2>4. FrameOK(fr)
    BY <1>0, CheckFirstMeans DEF FrameOK
  <2> HIDE DEF fr
  <2>5. /\ frames' \in Seq(Frame) /\ DOMAIN frames' = 1 .. (Len(frames) + 1)
        /\ \A i \in 1 .. Len(frames) : frames'[i] = frames[i]
        /\ frames'[Len(frames) + 1] = fr
    BY <1>f, <2>1, <2>3, AppendProperties DEF fr
  <2>6. \A i \in DOMAIN frames' : FrameOK(frames'[i])
    BY <1>f, <2>4, <2>5 DEF IInv
  <2>7. \A i \in DOMAIN frames' : FrameOK(frames[i])'
    BY <2>2, <2>6 DEF FrameOK, Returns, Body
  <2> QED
    BY <1>0, <2>2, <2>5, <2>7, RunIsEnough DEF RunOK, IInv, TypeOK, AlarmIsTrue
<1>2. CASE LoadCanary
  <2> DEFINE fr == [top EXCEPT !.at = "store", !.reg = canary, !.touched = "no"]
  <2>1. /\ frames # << >> /\ verdict = "running" /\ verdict' = verdict
        /\ UNCHANGED <<pass, canary>> /\ Becomes(fr)
    BY <1>2 DEF LoadCanary, On, Quiet
  <2>2. fr \in Frame /\ FrameOK(fr)
    BY <1>f, <2>1, TopIs DEF Frame, Labels, FrameOK
  <2> QED
    BY <1>0, <2>1, <2>2, TopStep
<1>3. CASE PushCanary
  <2> DEFINE fr == [top EXCEPT !.at = "body", !.slot = top.reg]
  <2>1. /\ frames # << >> /\ verdict = "running" /\ verdict' = verdict
        /\ UNCHANGED <<pass, canary>> /\ Becomes(fr) /\ top.at = "store"
    BY <1>3 DEF PushCanary, On, Quiet
  <2>2. fr \in Frame /\ FrameOK(fr)
    BY <1>f, <2>1, TopIs DEF Frame, Labels, FrameOK
  <2> QED
    BY <1>0, <2>1, <2>2, TopStep
<1>4. CASE Return
  <2>1. frames # << >> /\ verdict = "running" /\ top.at = "body"
    BY <1>4 DEF Return, On
  <2>2. CASE Leave
    BY <1>0, <2>1, <2>2, LeaveKeeps
  <2>3. CASE Becomes([top EXCEPT !.at = "slot"]) /\ Quiet
    <3> DEFINE fr == [top EXCEPT !.at = "slot"]
    <3>1. fr \in Frame /\ FrameOK(fr)
      BY <1>f, <2>1, TopIs DEF Frame, Labels, FrameOK
    <3>2. UNCHANGED <<pass, canary>> /\ verdict' = verdict /\ Becomes(fr)
      BY <2>3 DEF Quiet
    <3> QED
      BY <1>0, <2>1, <3>1, <3>2, TopStep
  <2> QED
    BY <1>4, <2>2, <2>3 DEF Return
<1>5. CASE LoadSlot
  <2>1. PICK w \in (IF CheckFirst(top.f) THEN Words ELSE {top.slot}) :
          Becomes([top EXCEPT !.at = "global", !.got = w])
    BY <1>5 DEF LoadSlot
  <2> DEFINE fr == [top EXCEPT !.at = "global", !.got = w]
  <2>2. /\ frames # << >> /\ verdict = "running" /\ verdict' = verdict
        /\ UNCHANGED <<pass, canary>> /\ top.at = "slot"
    BY <1>5 DEF LoadSlot, On, Quiet
  <2>3. top \in Frame /\ FrameOK(top) /\ w \in Words
    BY <2>1, <2>2, TopIs DEF Frame
  <2>4. Returns(top.f) # {} => w = top.slot
    BY <1>0, <2>1, <2>3, CheckFirstMeans DEF Frame
  <2>5. fr \in Frame /\ FrameOK(fr)
    BY <2>2, <2>3, <2>4 DEF Frame, Labels, FrameOK
  <2> QED
    BY <1>0, <2>1, <2>2, <2>5, TopStep
<1>6. CASE LoadGlobal
  <2> DEFINE fr == [top EXCEPT !.at = "compare", !.want = canary]
  <2>1. /\ frames # << >> /\ verdict = "running" /\ verdict' = verdict
        /\ UNCHANGED <<pass, canary>> /\ Becomes(fr) /\ top.at = "global"
    BY <1>6 DEF LoadGlobal, On, Quiet
  <2>2. fr \in Frame /\ FrameOK(fr)
    BY <1>f, <2>1, TopIs DEF Frame, Labels, FrameOK
  <2> QED
    BY <1>0, <2>1, <2>2, TopStep
<1>7. CASE Compare
  <2>1. frames # << >> /\ verdict = "running" /\ top.at = "compare"
    BY <1>7 DEF Compare, On
  <2>2. top \in Frame /\ FrameOK(top) /\ (CheckFirst(top.f) <=> Returns(top.f) = {})
    BY <1>0, <2>1, TopIs, CheckFirstMeans DEF Frame
  <2>3. CASE CheckFirst(top.f) /\ Becomes([top EXCEPT !.at = "load"]) /\ Quiet
    <3> DEFINE fr == [top EXCEPT !.at = "load"]
    <3>1. fr \in Frame /\ FrameOK(fr)
      BY <2>2, <2>3 DEF Frame, Labels, FrameOK
    <3>2. UNCHANGED <<pass, canary>> /\ verdict' = verdict /\ Becomes(fr)
      BY <2>3 DEF Quiet
    <3> QED
      BY <1>0, <2>1, <3>1, <3>2, TopStep
  <2>4. CASE Leave
    BY <1>0, <2>1, <2>4, LeaveKeeps
  <2>5. CASE ~Passes /\ verdict' = "alarm" /\ UNCHANGED <<pass, canary, frames>>
    <3>1. UNCHANGED <<pass, layout, canary, frames>>
      BY <2>5 DEF pass
    <3>2. \A i \in DOMAIN frames' : FrameOK(frames[i])'
      BY <3>1 DEF IInv, FrameOK, Returns, Body
    <3>3. top.touched # "no" \/ Returns(top.f) = {}
      BY <2>1, <2>2, <2>5 DEF FrameOK, Passes, Frame
    <3>4. AlarmIsTrue'
      BY <3>1, <3>3 DEF AlarmIsTrue, top, Returns, Body
    <3> QED
      BY <1>0, <1>f, <2>1, <2>5, <3>1, <3>2, <3>4, RunIsEnough DEF RunOK
  <2> QED
    BY <1>7, <2>3, <2>4, <2>5 DEF Compare
<1>8. CASE Smash
  <2>1. PICK i \in DOMAIN frames, w \in Words :
          frames' = [frames EXCEPT ![i] = [Touched(frames[i]) EXCEPT !.slot = w]]
    BY <1>8 DEF Smash
  <2> DEFINE fr == [Touched(frames[i]) EXCEPT !.slot = w]
  <2>2. frames[i] \in Frame /\ FrameOK(frames[i])
    BY <1>f, <2>1 DEF IInv
  <2>3. fr \in Frame
    BY <2>1, <2>2 DEF Frame, Labels, Touched
  <2>4. FrameOK(fr)
    BY <2>2 DEF Frame, Labels, Touched, FrameOK
  <2> HIDE DEF fr
  <2>5. /\ frames' \in Seq(Frame) /\ DOMAIN frames' = DOMAIN frames
        /\ \A j \in DOMAIN frames : frames'[j] = fr \/ frames'[j] = frames[j]
    BY <1>f, <2>1, <2>3 DEF fr
  <2>6. UNCHANGED <<pass, layout, canary, verdict>> /\ verdict = "running"
    BY <1>8 DEF Smash, Quiet, pass
  <2>7. \A j \in DOMAIN frames' : FrameOK(frames'[j])
    BY <2>4, <2>5 DEF IInv
  <2>8. \A j \in DOMAIN frames' : FrameOK(frames[j])'
    BY <2>6, <2>7 DEF FrameOK, Returns, Body
  <2> QED
    BY <1>0, <1>f, <2>5, <2>6, <2>8, RunIsEnough DEF RunOK, AlarmIsTrue
<1>9. CASE Rekey
  <2>1. /\ frames' = [i \in DOMAIN frames |-> Touched(frames[i])] /\ canary' \in Words
        /\ UNCHANGED <<pass, layout, verdict>> /\ verdict = "running"
    BY <1>9 DEF Rekey, pass
  <2>2. ASSUME NEW i \in DOMAIN frames PROVE Touched(frames[i]) \in Frame
    <3>1. frames[i] \in Frame
      BY <1>f
    <3> QED
      BY <3>1 DEF Frame, Touched
  <2>3. frames' \in Seq(Frame) /\ DOMAIN frames' = DOMAIN frames
    <3>1. DOMAIN frames = 1 .. Len(frames)
      BY <1>f
    <3> QED
      BY <1>f, <2>1, <2>2, <3>1, SeqDef
  <2>4. ASSUME NEW i \in DOMAIN frames PROVE FrameOK(frames[i])'
    <3>1. frames'[i] = Touched(frames[i]) /\ frames[i] \in Frame /\ FrameOK(frames[i])
      BY <1>f, <2>1 DEF IInv
    <3>2. frames'[i] = [frames[i] EXCEPT !.touched =
             IF frames[i].at \in {"global", "compare"} THEN "late" ELSE "early"]
      BY <3>1 DEF Touched
    <3>3. /\ frames'[i].f = frames[i].f /\ frames'[i].touched # "no"
          /\ frames'[i].touched = "late" \/ frames[i].at \notin {"global", "compare"}
          /\ frames'[i].at = frames[i].at
      BY <3>1, <3>2 DEF Frame
    <3> QED
      BY <3>3 DEF FrameOK
  <2> QED
    BY <1>0, <1>f, <2>1, <2>3, <2>4, RunIsEnough DEF RunOK, AlarmIsTrue
<1>10. CASE Stop
  <2>1. UNCHANGED <<pass, layout, canary, frames>> /\ verdict' = "stopped"
    BY <1>10 DEF Stop, pass
  <2>2. \A i \in DOMAIN frames' : FrameOK(frames[i])'
    BY <2>1 DEF IInv, FrameOK, Returns, Body
  <2> QED
    BY <1>0, <1>f, <2>1, <2>2, RunIsEnough DEF RunOK, AlarmIsTrue
<1> QED
  BY <1>1, <1>2, <1>3, <1>4, <1>5, <1>6, <1>7, <1>8, <1>9, <1>10 DEF Run

-----------------------------------------------------------------------------
(* Theorems.                                                               *)

LEMMA InitHolds == Init => IInv
<1> SUFFICES ASSUME Init PROVE IInv
  OBVIOUS
<1>1. TypeOK /\ \A f \in Functions : split[f] = 0
  BY DEF Init, TypeOK
<1> QED
  BY <1>1 DEF Init, IInv, LastReturnIsChecked, AlarmIsTrue, Compiling

LEMMA StepKeeps == IInv /\ [Next]_vars => IInv'
<1> SUFFICES ASSUME IInv, [Next]_vars PROVE IInv'
  OBVIOUS
<1>1. CASE Next
  BY <1>1, CompileKeeps, RunKeeps DEF Next
<1>2. CASE UNCHANGED vars
  BY <1>2 DEF vars, pass, run, IInv, TypeOK, Compiling, Compiled, LastReturnIsChecked,
              AlarmIsTrue, FrameOK, CheckFirst, Returns, Body, top
<1> QED
  BY <1>1, <1>2

(* The walk and the frames keep the inductive invariant (runOnFunction).   *)
THEOREM Invariance == Spec => []IInv
BY InitHolds, StepKeeps, PTL DEF Spec

(* The check of every compiled function is at its last return.             *)
THEOREM LastReturnsAreChecked == Spec => []LastReturnIsChecked
<1>1. IInv => LastReturnIsChecked
  BY DEF IInv
<1> QED
  BY <1>1, Invariance, PTL

(* The guard never stops a function nobody wrote to, unless it does not    *)
(* return.                                                                 *)
THEOREM AlarmsAreTrue == Spec => []AlarmIsTrue
<1>1. IInv => AlarmIsTrue
  BY DEF IInv
<1> QED
  BY <1>1, Invariance, PTL

-----------------------------------------------------------------------------
(* A function with one return is left through the check.                   *)

LEMMA OneReturn ==
  ASSUME IInv, Compiled, NEW f \in Functions, Cardinality(Returns(f)) = 1
  PROVE  Returns(f) = {split[f]}
<1>1. split[f] # 0
  BY DEF IInv, Compiled
<1>2. IsFiniteSet(Returns(f))
  <2>1. Returns(f) \subseteq 1 .. Len(Body(f)) /\ Len(Body(f)) \in Nat
    BY BodyOf DEF Returns, IInv
  <2>2. IsFiniteSet(1 .. Len(Body(f)))
    BY <2>1, FS_Interval
  <2>3. Returns(f) \in SUBSET (1 .. Len(Body(f)))
    BY <2>1
  <2> QED
    BY <2>2, <2>3, FS_Subset
<1>3. PICK x : Returns(f) = {x}
  BY <1>2, FS_Singleton
<1> QED
  BY <1>1, <1>3 DEF IInv, LastReturnIsChecked

LEMMA GuardedStep ==
  ASSUME IInv, Next, Len(frames') < Len(frames), Guarded(top)
  PROVE  top.slot = canary \/ top.touched = "late"
<1>1. frames \in Seq(Frame) /\ Len(frames) \in Nat
  BY DEF IInv, TypeOK
<1>2. CASE Compile
  BY <1>2 DEF Compile, Pick, WalkBack, Insert, run
<1>3. ASSUME Becomes([top EXCEPT !.at = "slot"]) \/ Becomes([top EXCEPT !.at = "load"])
      PROVE FALSE
  BY <1>1, <1>3 DEF Becomes
<1>4. CASE Return
  <2>1. frames # << >> /\ top.at = "body" /\ Compiled
    BY <1>4 DEF Return, On
  <2>2. top.f \in Functions
    BY <2>1, TopIs DEF Frame
  <2>3. Returns(top.f) = {split[top.f]}
    BY <2>1, <2>2, OneReturn DEF Guarded
  <2> QED
    BY <1>3, <1>4, <2>3 DEF Return
<1>5. CASE Compare
  <2>1. frames # << >> /\ top.at = "compare" /\ Compiled
    BY <1>5 DEF Compare, On
  <2>2. top \in Frame /\ FrameOK(top)
    BY <2>1, TopIs
  <2>3. Returns(top.f) = {split[top.f]}
    BY <2>1, <2>2, OneReturn DEF Guarded, Frame
  <2>4. top.got = top.want
    BY <1>3, <1>5 DEF Compare, Passes
  <2> QED
    BY <2>1, <2>2, <2>3, <2>4 DEF FrameOK, Frame
<1>6. CASE Call
  BY <1>1, <1>6 DEF Call
<1>7. CASE Smash \/ Rekey
  <2>1. frames' \in Seq(Frame)
    BY RunKeeps, <1>7 DEF Run, IInv, TypeOK
  <2>2. DOMAIN frames' = DOMAIN frames
    BY <1>7 DEF Smash, Rekey
  <2> QED
    BY <1>1, <2>1, <2>2, LenProperties
<1>8. CASE Stop
  BY <1>8 DEF Stop
<1>9. ASSUME NEW fr, Becomes(fr) PROVE FALSE
  BY <1>1, <1>9 DEF Becomes
<1>10. CASE LoadCanary \/ PushCanary \/ LoadGlobal \/ LoadSlot
  BY <1>9, <1>10 DEF LoadCanary, PushCanary, LoadGlobal, LoadSlot
<1> QED
  BY <1>2, <1>4, <1>5, <1>6, <1>7, <1>8, <1>10 DEF Next, Run

(* A function with one return comes back with the global's canary, unless  *)
(* a store hit its check.                                                  *)
THEOREM ReturnsAreGuarded == Spec => GuardedReturn
<1>1. IInv /\ [Next]_vars =>
        [Len(frames') < Len(frames) /\ Guarded(top) =>
           top.slot = canary \/ top.touched = "late"]_vars
  BY GuardedStep
<1> QED
  BY <1>1, Invariance, PTL DEF Spec, GuardedReturn

-----------------------------------------------------------------------------
(* The frames are guarded calls: what a step does to them.                 *)

LEMMA FunctionIsSeq ==
  ASSUME NEW n \in Nat, NEW S, NEW f \in [1 .. n -> S]
  PROVE  f \in Seq(S) /\ Len(f) = n
<1>1. f \in Seq(S)
  BY SeqDef
<1> QED
  BY <1>1, LenProperties

AbstractCall == [ra : BOOLEAN, orig : {TRUE}]

CallsOK ==
  /\ Len(frames) \in Nat
  /\ Calls \in Seq(AbstractCall) /\ Len(Calls) = Len(frames)
  /\ \A i \in 1 .. Len(frames) :
       /\ Calls[i] = [ra |-> Agrees(frames[i]), orig |-> TRUE]
       /\ Agrees(frames[i]) \in BOOLEAN

LEMMA CallsAre == IInv => CallsOK
<1> SUFFICES ASSUME IInv PROVE CallsOK
  OBVIOUS
<1>1. frames \in Seq(Frame) /\ DOMAIN frames = 1 .. Len(frames) /\ Len(frames) \in Nat
  BY DEF IInv, TypeOK
<1>2. \A i \in DOMAIN frames : Agrees(frames[i]) \in BOOLEAN
  BY DEF Agrees, Saved, Guarded
<1>3. \A i \in 1 .. Len(frames) : [ra |-> Agrees(frames[i]), orig |-> TRUE] \in AbstractCall
  BY <1>1, <1>2, Zenon DEF AbstractCall
<1>4. Calls = [i \in 1 .. Len(frames) |-> [ra |-> Agrees(frames[i]), orig |-> TRUE]]
  BY <1>1 DEF Calls
<1>5. Calls \in [1 .. Len(frames) -> AbstractCall]
  BY <1>3, <1>4
<1> QED
  BY <1>1, <1>2, <1>4, <1>5, FunctionIsSeq, SMTT(30) DEF CallsOK

LEMMA CallsWillBe == IInv' => CallsOK'
  BY CallsAre, PTL

(* While the process goes on with as many frames as before, their saved    *)
(* values change at most, as they may at any moment.                       *)
LEMMA Tampered ==
  ASSUME NEW old \in Seq(AbstractCall), NEW new \in Seq(AbstractCall), Len(old) = Len(new)
  PROVE  \E as \in [1 .. Len(old) -> BOOLEAN] :
           new = [i \in 1 .. Len(old) |-> [old[i] EXCEPT !.ra = as[i]]]
<1> DEFINE as == [i \in 1 .. Len(old) |-> new[i].ra]
<1>1. /\ DOMAIN new = 1 .. Len(old) /\ Len(old) \in Nat
      /\ \A i \in 1 .. Len(old) : new[i] \in AbstractCall /\ old[i] \in AbstractCall
  BY ElementOfSeq
<1>2. as \in [1 .. Len(old) -> BOOLEAN]
  BY <1>1 DEF AbstractCall
<1>3. \A i \in 1 .. Len(old) : new[i] = [old[i] EXCEPT !.ra = as[i]]
  BY <1>1 DEF AbstractCall
<1>4. new = [i \in 1 .. Len(old) |-> [old[i] EXCEPT !.ra = as[i]]]
  <2>1. new = [i \in 1 .. Len(old) |-> new[i]]
    BY <1>1
  <2> QED
    BY <1>3, <2>1, Zenon
<1> QED
  BY <1>2, <1>4

LEMMA AllButLast ==
  ASSUME NEW S, NEW s \in Seq(S), s # << >>
  PROVE  /\ SubSeq(s, 1, Len(s) - 1) \in Seq(S)
         /\ Len(SubSeq(s, 1, Len(s) - 1)) = Len(s) - 1
         /\ \A i \in 1 .. Len(s) - 1 : SubSeq(s, 1, Len(s) - 1)[i] = s[i]
<1> DEFINE cut == SubSeq(s, 1, Len(s) - 1)
<1>1. Len(s) \in Nat /\ Len(s) # 0 /\ \A i \in 1 .. Len(s) - 1 : s[i] \in S
  BY EmptySeq, ElementOfSeq
<1>2. /\ cut \in Seq(S)
      /\ Len(cut) = IF 1 <= Len(s) - 1 THEN Len(s) - 1 - 1 + 1 ELSE 0
      /\ \A i \in 1 .. Len(s) - 1 - 1 + 1 : cut[i] = s[1 + i - 1]
  BY <1>1, SubSeqProperties
<1> HIDE DEF cut
<1>3. /\ Len(s) - 1 - 1 + 1 = Len(s) - 1
      /\ 1 <= Len(s) - 1 \/ Len(s) - 1 = 0
  <2>1. PICK n \in Nat : Len(s) = n
    BY <1>1
  <2> QED
    BY <1>1, <2>1
<1>4. Len(cut) = Len(s) - 1
  <2>1. CASE 1 <= Len(s) - 1
    BY <1>2, <1>3, <2>1
  <2>2. CASE Len(s) - 1 = 0
    BY <1>1, <1>2, <2>2
  <2> QED
    BY <1>3, <2>1, <2>2
<1>5. ASSUME NEW i \in 1 .. Len(s) - 1 PROVE cut[i] = s[i]
  <2>1. i \in 1 .. Len(s) - 1 - 1 + 1 /\ 1 + i - 1 = i
    BY <1>1
  <2> QED
    BY <1>2, <2>1
<1> QED
  BY <1>2, <1>4, <1>5 DEF cut

(* A frame that is left was intact.                                        *)
LEMMA LeftIntact ==
  ASSUME IInv, IInv', frames # << >>, verdict = "running", Leave, Agrees(top)
  PROVE  Abstract!Leave
<1>1. CallsOK /\ CallsOK'
  BY CallsAre, CallsWillBe
<1>2. frames \in Seq(Frame) /\ Len(frames) \in 1 .. Len(frames) /\ Len(frames) \in Nat
  BY TopIs DEF IInv, TypeOK
<1>3. frames' = SubSeq(frames, 1, Len(frames) - 1) /\ verdict' = verdict /\ UNCHANGED <<layout, canary>>
  BY DEF Leave, Front, Quiet, pass
<1>4. /\ Len(frames') = Len(frames) - 1
      /\ \A i \in 1 .. Len(frames) - 1 : frames'[i] = frames[i]
  BY <1>2, <1>3, AllButLast
<1>5. \A i \in 1 .. Len(frames) - 1 : Agrees(frames[i])' <=> Agrees(frames[i])
  BY <1>3, <1>4, ZenonT(40) DEF Agrees, Saved, Guarded, Returns, Body
<1>6. Calls' = SubSeq(Calls, 1, Len(Calls) - 1)
  <2> DEFINE cut == SubSeq(Calls, 1, Len(Calls) - 1)
  <2>0. Len(Calls) = Len(frames) /\ Calls \in Seq(AbstractCall) /\ Calls # << >>
    BY <1>1, <1>2, EmptySeq DEF CallsOK
  <2>1. /\ cut \in Seq(AbstractCall) /\ Len(cut) = Len(frames) - 1
        /\ \A i \in 1 .. Len(frames) - 1 : cut[i] = Calls[i]
    BY <2>0, AllButLast
  <2>2. ASSUME NEW i \in 1 .. Len(frames) - 1 PROVE Calls'[i] = cut[i]
    <3>1. i \in 1 .. Len(frames) /\ i \in 1 .. Len(frames')
      BY <1>2, <1>4
    <3>2. Agrees(frames[i])' = Agrees(frames[i])
      BY <1>1, <1>4, <1>5, <3>1, Zenon DEF CallsOK
    <3> QED
      BY <1>1, <2>1, <3>1, <3>2 DEF CallsOK
  <2> HIDE DEF cut
  <2>3. Calls' \in Seq(AbstractCall) /\ Len(Calls') = Len(cut)
    BY <1>1, <1>4, <2>1 DEF CallsOK
  <2>4. Calls' = cut
    BY <2>1, <2>2, <2>3, SeqEqual
  <2> QED
    BY <2>4 DEF cut
<1>7. Calls # << >> /\ Calls[Len(Calls)] = [ra |-> TRUE, orig |-> TRUE]
  <2>1. Agrees(top) = TRUE
    BY <1>1, <1>2, Zenon DEF CallsOK, top
  <2> QED
    BY <1>1, <1>2, <2>1, EmptySeq DEF CallsOK, top
<1>8. Verdict = "running" /\ Verdict' = "running"
  BY <1>3 DEF Verdict
<1> QED
  BY <1>6, <1>7, <1>8 DEF Abstract!Leave, Abstract!Running, Abstract!Last, Abstract!Intact

(* A frame that is entered is intact.                                      *)
LEMMA EnteredIntact ==
  ASSUME IInv, IInv', Call
  PROVE  Abstract!Enter
<1>1. CallsOK /\ CallsOK'
  BY CallsAre, CallsWillBe
<1>2. PICK f \in Functions, w \in Words :
        frames' = Append(frames,
          [f |-> f, at |-> IF CheckFirst(f) THEN "slot" ELSE "load",
           slot |-> w, reg |-> w, got |-> w, want |-> w, touched |-> "no"])
  BY DEF Call
<1> DEFINE fr == [f |-> f, at |-> IF CheckFirst(f) THEN "slot" ELSE "load",
                  slot |-> w, reg |-> w, got |-> w, want |-> w, touched |-> "no"]
<1>3. UNCHANGED <<layout, split, canary>> /\ verdict = "running" /\ verdict' = "running" /\ Compiled
  BY DEF Call, Quiet, pass
<1>4. frames \in Seq(Frame) /\ Len(frames) \in Nat
  BY DEF IInv, TypeOK
<1>5. fr.at = "load" \/ ~Guarded(fr)
  <2> SUFFICES ASSUME CheckFirst(f), Cardinality(Returns(f)) = 1 PROVE FALSE
    BY DEF Guarded
  <2>1. Returns(f) = {}
    BY <1>3, CheckFirstMeans
  <2> QED
    BY <2>1, FS_EmptySet
<1>6. Agrees(fr)' /\ fr' = fr
  BY <1>3, <1>5 DEF Agrees, Guarded, Returns, Body, CheckFirst
<1> HIDE DEF fr
<1>7. /\ Len(frames') = Len(frames) + 1 /\ frames'[Len(frames) + 1] = fr
      /\ \A i \in 1 .. Len(frames) : frames'[i] = frames[i]
  BY <1>2, <1>4 DEF fr
<1>8. \A i \in 1 .. Len(frames) : Agrees(frames[i])' <=> Agrees(frames[i])
  BY <1>3, <1>7 DEF Agrees, Saved, Guarded, Returns, Body
<1>9. Calls' = Append(Calls, [ra |-> TRUE, orig |-> TRUE])
  <2> DEFINE new == [ra |-> TRUE, orig |-> TRUE]
             longer == Append(Calls, new)
  <2>1. new \in AbstractCall
    BY DEF AbstractCall
  <2> HIDE DEF new
  <2>2. /\ longer \in Seq(AbstractCall) /\ Len(longer) = Len(frames) + 1
        /\ longer[Len(frames) + 1] = new
        /\ \A i \in 1 .. Len(frames) : longer[i] = Calls[i]
    BY <1>1, <2>1 DEF CallsOK
  <2>3. Calls'[Len(frames) + 1] = new
    <3>1. PICK n \in Nat : n = Len(frames) + 1
      BY <1>4
    <3>2. n \in 1 .. Len(frames') /\ frames'[n] = fr
      BY <1>4, <1>7, <3>1
    <3>3. Agrees(frames[n])' = TRUE
      BY <1>1, <1>6, <3>2, Zenon DEF CallsOK
    <3> QED
      BY <1>1, <3>1, <3>2, <3>3 DEF CallsOK, new
  <2>4. ASSUME NEW i \in 1 .. Len(frames) PROVE Calls'[i] = longer[i]
    <3>1. i \in 1 .. Len(frames')
      BY <1>4, <1>7
    <3>2. Agrees(frames[i])' = Agrees(frames[i])
      BY <1>1, <1>7, <1>8, <3>1, Zenon DEF CallsOK
    <3> QED
      BY <1>1, <2>2, <3>1, <3>2 DEF CallsOK
  <2>5. \A i \in 1 .. Len(frames) + 1 : Calls'[i] = longer[i]
    BY <1>4, <2>2, <2>3, <2>4
  <2> HIDE DEF longer
  <2>6. Calls' = longer
    BY <1>1, <1>4, <1>7, <2>2, <2>5, SeqEqual DEF CallsOK
  <2> QED
    BY <2>6 DEF longer, new
<1>10. Verdict = "running" /\ Verdict' = "running"
  BY <1>3 DEF Verdict
<1> QED
  BY <1>9, <1>10 DEF Abstract!Enter, Abstract!Running

(* While the process goes on with the frames it had, a step may change     *)
(* what is saved of them, and nothing else.                                *)
LEMMA SameFrames ==
  ASSUME IInv, IInv', Len(frames') = Len(frames), verdict = "running", verdict' = "running"
  PROVE  Abstract!Tamper
<1>1. CallsOK /\ CallsOK'
  BY CallsAre, CallsWillBe
<1>2. /\ Calls \in Seq(AbstractCall) /\ Calls' \in Seq(AbstractCall)
      /\ Len(Calls) = Len(Calls')
  BY <1>1 DEF CallsOK
<1>3. \E as \in [1 .. Len(Calls) -> BOOLEAN] :
        Calls' = [i \in 1 .. Len(Calls) |-> [Calls[i] EXCEPT !.ra = as[i]]]
  BY <1>2, Tampered
<1>4. Verdict = "running" /\ Verdict' = "running"
  BY DEF Verdict
<1> QED
  BY <1>3, <1>4 DEF Abstract!Tamper, Abstract!Running

LEMMA SameTop ==
  ASSUME IInv, NEW fr, Becomes(fr)
  PROVE  Len(frames') = Len(frames)
BY DEF Becomes, IInv, TypeOK

(* Of a frame that is compared, the saved value is intact where the check  *)
(* passes, and only there, if the function has one return.                 *)
LEMMA Compared ==
  ASSUME IInv, Compiled, frames # << >>, top.at = "compare", Guarded(top)
  PROVE  Agrees(top) <=> Passes
<1>1. top \in Frame /\ FrameOK(top)
  BY TopIs
<1>2. Returns(top.f) = {split[top.f]}
  BY <1>1, OneReturn DEF Guarded, Frame
<1>3. CASE top.touched = "late"
  BY <1>3 DEF Agrees, Saved, Passes
<1>4. CASE top.touched # "late"
  <2>1. top.got = top.slot /\ top.want = canary
    BY <1>1, <1>2, <1>4 DEF FrameOK
  <2> QED
    BY <1>4, <2>1 DEF Agrees, Saved, Passes
<1> QED
  BY <1>3, <1>4

(* Each step of the program is a step of guarded calls.                    *)
LEMMA RunSimulates ==
  ASSUME IInv, IInv', Run
  PROVE  Abstract!Next
<1>0. Compiled /\ verdict = "running" /\ Verdict = "running"
  BY DEF Run, Call, LoadCanary, PushCanary, Return, LoadSlot, LoadGlobal, Compare,
         Smash, Rekey, Stop, On, Verdict
<1>1. CASE Call
  BY <1>1, EnteredIntact DEF Abstract!Next
<1>2. ASSUME NEW fr, Becomes(fr), verdict' = verdict PROVE Abstract!Next
  BY <1>0, <1>2, SameTop, SameFrames DEF Abstract!Next
<1>3. CASE LoadCanary \/ PushCanary \/ LoadSlot \/ LoadGlobal
  BY <1>2, <1>3 DEF LoadCanary, PushCanary, LoadSlot, LoadGlobal, Quiet
<1>4. CASE Return
  <2>1. PICK i \in Returns(top.f) :
          IF i = split[top.f] THEN Becomes([top EXCEPT !.at = "slot"]) /\ Quiet
          ELSE Leave
    BY <1>4 DEF Return
  <2>2. CASE i = split[top.f]
    BY <1>2, <2>1, <2>2 DEF Quiet
  <2>3. CASE i # split[top.f]
    <3>1. frames # << >> /\ Leave
      BY <1>4, <2>1, <2>3 DEF Return, On
    <3>2. top.f \in Functions
      BY <3>1, TopIs DEF Frame
    <3>3. ~Guarded(top)
      BY <1>0, <2>3, <3>2, OneReturn DEF Guarded
    <3> QED
      BY <1>0, <3>1, <3>3, LeftIntact DEF Agrees, Abstract!Next
  <2> QED
    BY <2>2, <2>3
<1>5. CASE Compare
  <2>1. frames # << >> /\ top.at = "compare"
    BY <1>5 DEF Compare, On
  <2>2. CASE Becomes([top EXCEPT !.at = "load"]) /\ Quiet
    BY <1>2, <2>2 DEF Quiet
  <2>3. CASE Passes /\ Leave
    <3>1. Agrees(top)
      BY <1>0, <2>1, <2>3, Compared DEF Agrees
    <3> QED
      BY <1>0, <2>1, <2>3, <3>1, LeftIntact DEF Abstract!Next
  <2>4. CASE ~Passes /\ verdict' = "alarm" /\ UNCHANGED <<pass, canary, frames>>
    <3>1. /\ UNCHANGED <<layout, canary, frames>>
          /\ Calls' = Calls /\ (Guarded(top)' <=> Guarded(top))
      BY <2>4 DEF pass, Calls, Agrees, Saved, Guarded, Returns, Body, top
    <3>2. CASE Guarded(top)
      <4>1. ~Agrees(top) /\ Verdict' = "alarm"
        BY <1>0, <2>1, <2>4, <3>1, <3>2, Compared DEF Verdict
      <4>2. CallsOK /\ Len(frames) \in 1 .. Len(frames)
        BY <2>1, CallsAre, TopIs
      <4>3. Calls # << >> /\ Calls[Len(Calls)] = [ra |-> Agrees(top), orig |-> TRUE]
        BY <4>2, EmptySeq DEF CallsOK, top
      <4>4. ~Abstract!Intact(Abstract!Last)
        <5>1. Agrees(top) = FALSE
          BY <4>1, <4>2, Zenon DEF CallsOK, top
        <5>2. Calls[Len(Calls)] = [ra |-> FALSE, orig |-> TRUE]
          BY <4>3, <5>1, Zenon
        <5> QED
          BY <5>2 DEF Abstract!Intact, Abstract!Last
      <4> QED
        BY <1>0, <3>1, <4>1, <4>3, <4>4 DEF Abstract!Next, Abstract!Alarm, Abstract!Running
    <3>3. CASE ~Guarded(top)
      <4>1. Verdict' = "stopped"
        BY <2>4, <3>1, <3>3 DEF Verdict
      <4> QED
        BY <1>0, <3>1, <4>1 DEF Abstract!Next, Abstract!Stop, Abstract!Running
    <3> QED
      BY <3>2, <3>3
  <2> QED
    BY <1>5, <2>2, <2>3, <2>4 DEF Compare
<1>6. CASE Smash \/ Rekey
  <2>1. DOMAIN frames' = DOMAIN frames /\ verdict' = verdict
    BY <1>6 DEF Smash, Rekey, Quiet
  <2>2. frames \in Seq(Frame) /\ frames' \in Seq(Frame)
    BY DEF IInv, TypeOK
  <2>3. Len(frames') = Len(frames)
    BY <2>1, <2>2, LenProperties
  <2> QED
    BY <1>0, <2>1, <2>3, SameFrames DEF Abstract!Next
<1>7. CASE Stop
  <2>1. Calls' = Calls /\ Verdict' = "stopped"
    BY <1>7 DEF Stop, pass, Calls, Agrees, Saved, Guarded, Returns, Body, Verdict
  <2> QED
    BY <1>0, <2>1 DEF Abstract!Next, Abstract!Stop, Abstract!Running
<1> QED
  BY <1>1, <1>3, <1>4, <1>5, <1>6, <1>7 DEF Run

(* The pass has the calls, of which there are none yet, as they are.       *)
LEMMA Simulation ==
  ASSUME IInv, IInv', [Next]_vars
  PROVE  [Abstract!Next]_(Abstract!vars)
<1>1. CASE Compile
  <2>1. frames = << >> /\ UNCHANGED run
    BY <1>1 DEF IInv, Compile, Pick, WalkBack, Insert, Compiling, Compiled
  <2>2. Calls = << >> /\ Calls' = << >> /\ verdict # "alarm"
    BY <2>1 DEF Calls, run, IInv
  <2> QED
    BY <2>1, <2>2 DEF Verdict, run, Abstract!vars
<1>2. CASE Run
  BY <1>2, RunSimulates
<1>3. CASE UNCHANGED vars
  <2>1. Calls' = Calls /\ Verdict' = Verdict
    BY <1>3 DEF vars, pass, run, Calls, Verdict, Agrees, Saved, Guarded, Returns, Body, top
  <2> QED
    BY <2>1 DEF Abstract!vars
<1> QED
  BY <1>1, <1>2, <1>3 DEF Next

LEMMA StartsEmpty == Init => Abstract!Init
  BY DEF Init, Abstract!Init, Calls, Verdict

(* The stack guard implements guarded calls: of the functions with one     *)
(* return, the ones whose canary is intact return and raise no alarm, and  *)
(* the others raise it instead of returning (runOnFunction).               *)
THEOREM FramesAreGuarded == Spec => GuardsFrames
<1>1. IInv /\ IInv' /\ [Next]_vars => [Abstract!Next]_(Abstract!vars)
  BY Simulation
<1> QED
  BY <1>1, StartsEmpty, Invariance, PTL DEF Spec, GuardsFrames, Abstract!Spec
=============================================================================
