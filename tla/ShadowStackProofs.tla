-------------------------- MODULE ShadowStackProofs --------------------------
(***************************************************************************)
(* Proofs about ShadowStack, for any page size, any bound on the depth of  *)
(* the native stack and any set of return addresses.                       *)
(***************************************************************************)
EXTENDS ShadowStack, SequenceTheorems, TLAPS

-----------------------------------------------------------------------------
(* The three ways a step changes a native stack.                           *)

(* Replacing the top frame keeps the other frames and the depth.           *)
LEMMA PutProperties ==
  ASSUME NEW s \in Seq(Frame), s # << >>, NEW f \in Frame
  PROVE  /\ Put(s, f) \in Seq(Frame)
         /\ Len(Put(s, f)) = Len(s)
         /\ Put(s, f)[Len(s)] = f
         /\ \A i \in 1 .. Len(s) : i # Len(s) => Put(s, f)[i] = s[i]
  BY DEF Put

(* Leaving the top frame keeps the frames below it.                        *)
LEMMA DroppedProperties ==
  ASSUME NEW s \in Seq(Frame), s # << >>
  PROVE  /\ Dropped(s) \in Seq(Frame)
         /\ Len(Dropped(s)) = Len(s) - 1
         /\ \A i \in 1 .. Len(s) - 1 : Dropped(s)[i] = s[i]
  <1>1. ASSUME NEW n \in Nat, n <= Len(s)
        PROVE  /\ SubSeq(s, 1, n) \in Seq(Frame)
               /\ Len(SubSeq(s, 1, n)) = n
               /\ \A i \in 1 .. n : SubSeq(s, 1, n)[i] = s[i]
    BY <1>1, SubSeqProperties
  <1>2. Len(s) - 1 \in Nat /\ Len(s) - 1 <= Len(s)
    OBVIOUS
  <1> QED
    BY <1>1, <1>2 DEF Dropped

(* A call adds one frame on top of the others.                             *)
LEMMA AppendFrame ==
  ASSUME NEW s \in Seq(Frame), NEW f \in Frame
  PROVE  /\ Append(s, f) \in Seq(Frame)
         /\ Len(Append(s, f)) = Len(s) + 1
         /\ Append(s, f)[Len(s) + 1] = f
         /\ \A i \in 1 .. Len(s) : Append(s, f)[i] = s[i]
  OBVIOUS

(* The arithmetic of the pass yields pointers.                             *)
LEMMA PointerTypes ==
  /\ Null \in Ptr /\ Mapping \in Ptr
  /\ \A p \in Ptr : Pushed(p) \in Ptr /\ Popped(p) \in Ptr /\ Base(p) \in Ptr
  BY ConstantsAssumption
  DEF Null, Mapping, Ptr, Pushed, Popped, Base, Moved, Stride

-----------------------------------------------------------------------------
(* Type correctness.                                                       *)

LEMMA TopType ==
  ASSUME TypeOK, NEW t \in Threads, stack[t] # << >>
  PROVE  stack[t] \in Seq(Frame) /\ Top(t) \in Frame
  BY DEF TypeOK, Top

LEMMA NewFrameType ==
  ASSUME TypeOK, NEW a \in Addr, NEW fn \in {"main", "fun"}, NEW l \in {"mmap", "enter"}
  PROVE  NewFrame(fn, l, a) \in Frame
  BY PointerTypes DEF NewFrame, Frame, TypeOK, MainLabel, FunLabel

LEMMA PushType ==
  ASSUME TypeOK, NEW t \in Threads, NEW f \in Frame, Push(t, f)
  PROVE  TypeOK'
  BY AppendFrame DEF TypeOK, Push, mem

LEMMA HaltType ==
  ASSUME TypeOK, NEW t \in Threads, NEW why \in Outcomes, Halt(t, why)
  PROVE  TypeOK'
  BY DEF TypeOK, Halt, mem

LEMMA SetTopType ==
  ASSUME TypeOK, NEW t \in Threads, stack[t] # << >>, NEW f \in Frame, SetTop(t, f)
  PROVE  stack' \in [Threads -> Seq(Frame)]
  BY PutProperties, TopType DEF TypeOK, SetTop

LEMMA GotoWithType ==
  ASSUME TypeOK, NEW t \in Threads, stack[t] # << >>,
         NEW l \in FunLabel \cup MainLabel, NEW r \in Ptr, GotoWith(t, l, r)
  PROVE  stack' \in [Threads -> Seq(Frame)]
  <1>1. [Top(t) EXCEPT !.pc = l, !.reg = r] \in Frame
    BY TopType DEF Frame
  <1> QED
    BY <1>1, SetTopType DEF GotoWith

LEMMA TypeStep ==
  ASSUME TypeOK, [Next]_vars
  PROVE  TypeOK'
  <1>1. CASE StartMain
    BY <1>1, NewFrameType, PushType, ConstantsAssumption DEF StartMain
  <1>2. ASSUME NEW t \in Threads, Program(t)
        PROVE  TypeOK'
    <2>1. CASE StartRoutine(t)
      BY <2>1, NewFrameType, PushType DEF StartRoutine
    <2>2. CASE Call(t)
      BY <2>2, NewFrameType, PushType DEF Call
    <2>3. CASE Signal(t)
      BY <2>3, NewFrameType, PushType DEF Signal
    <2>4. CASE Overwrite(t)
      <3>1. PICK i \in 1 .. Len(stack[t]), a \in Addr :
              stack' = [stack EXCEPT ![t] = [stack[t] EXCEPT ![i].ra = a]]
        BY <2>4 DEF Overwrite
      <3>2. [stack[t] EXCEPT ![i].ra = a] \in Seq(Frame)
        <4>1. stack[t] \in Seq(Frame) /\ stack[t][i] \in Frame
          BY DEF TypeOK
        <4>2. [stack[t][i] EXCEPT !.ra = a] \in Frame
          BY <4>1 DEF Frame
        <4> QED
          BY <4>1, <4>2
      <3> QED
        BY <2>4, <3>1, <3>2 DEF Overwrite, TypeOK, mem, Continue
    <2>5. CASE Longjmp(t)
      <3>1. PICK i \in 1 .. (Len(stack[t]) - 1) :
              stack' = [stack EXCEPT ![t] = SubSeq(stack[t], 1, i)]
        BY <2>5 DEF Longjmp
      <3>2. SubSeq(stack[t], 1, i) \in Seq(Frame)
        BY DEF TypeOK
      <3> QED
        BY <2>5, <3>1, <3>2 DEF Longjmp, TypeOK, mem, Continue
    <2>6. CASE Exit(t)
      BY <2>6, HaltType DEF Exit, Outcomes
    <2>7. CASE MainReturn(t)
      BY <2>7, HaltType DEF MainReturn, Outcomes
    <2> QED
      BY <1>2, <2>1, <2>2, <2>3, <2>4, <2>5, <2>6, <2>7 DEF Program
  <1>3. ASSUME NEW t \in Threads, Instrumentation(t)
        PROVE  TypeOK'
    <2>0. stack[t] # << >>
      BY <1>3 DEF Instrumentation, MapShadow, SetBase, LoadForPush, Decrement,
         ReloadForPush, StoreRetAddr, LoadForCheck, Compare, LoadForPop,
         Increment, Ret, At
    <2>t. stack[t] \in Seq(Frame) /\ Top(t) \in Frame /\ Top(t).reg \in Ptr
          /\ Top(t).ra \in Addr /\ Top(t).got \in Addr
      BY <2>0, TopType DEF Frame
    <2>1. CASE MapShadow(t)
      BY <2>1, <2>0, GotoWithType, PointerTypes
      DEF MapShadow, TypeOK, Continue, MainLabel
    <2>2. CASE SetBase(t)
      BY <2>2, <2>0, <2>t, GotoWithType, PointerTypes
      DEF SetBase, TypeOK, Continue, MainLabel
    <2>3. CASE LoadForPush(t)
      <3>1. [Top(t) EXCEPT !.pc = "dec", !.reg = sp, !.got = Top(t).ra] \in Frame
        BY <2>t DEF Frame, FunLabel, TypeOK
      <3> QED
        BY <2>3, <2>0, <3>1, SetTopType DEF LoadForPush, TypeOK, Continue, mem
    <2>4. CASE Decrement(t)
      BY <2>4, <2>0, <2>t, GotoWithType, PointerTypes
      DEF Decrement, TypeOK, Continue, FunLabel
    <2>5. CASE ReloadForPush(t)
      BY <2>5, <2>0, GotoWithType DEF ReloadForPush, TypeOK, Continue, mem, FunLabel
    <2>6. CASE StoreRetAddr(t)
      <3>1. CASE InBounds(Top(t).reg)
        BY <2>6, <3>1, <2>0, <2>t, GotoWithType, PointerTypes
        DEF StoreRetAddr, TypeOK, Continue, FunLabel
      <3>2. CASE ~InBounds(Top(t).reg)
        BY <2>6, <3>2, HaltType DEF StoreRetAddr, Outcomes
      <3> QED
        BY <3>1, <3>2
    <2>7. CASE LoadForCheck(t)
      <3>1. [Top(t) EXCEPT !.pc = "cmp", !.reg = sp, !.got = Top(t).ra] \in Frame
        BY <2>t DEF Frame, FunLabel, TypeOK
      <3> QED
        BY <2>7, <2>0, <3>1, SetTopType DEF LoadForCheck, TypeOK, Continue, mem
    <2>8. CASE Compare(t)
      <3>1. CASE GotoWith(t, "pop", Null) /\ UNCHANGED mem /\ Continue
        BY <3>1, <2>0, GotoWithType, PointerTypes DEF TypeOK, Continue, mem, FunLabel
      <3>2. CASE \E why \in Outcomes : Halt(t, why)
        BY <3>2, HaltType
      <3> QED
        BY <2>8, <3>1, <3>2 DEF Compare, Outcomes
    <2>9. CASE LoadForPop(t)
      BY <2>9, <2>0, GotoWithType DEF LoadForPop, TypeOK, Continue, mem, FunLabel
    <2>10. CASE Increment(t)
      BY <2>10, <2>0, <2>t, GotoWithType, PointerTypes
      DEF Increment, TypeOK, Continue, FunLabel
    <2>11. CASE Ret(t)
      <3>1. CASE Top(t).ra = Top(t).orig
        BY <2>11, <3>1, <2>0, <2>t, DroppedProperties DEF Ret, TypeOK, Continue, mem
      <3>2. CASE Top(t).ra # Top(t).orig
        BY <2>11, <3>2, HaltType DEF Ret, Outcomes
      <3> QED
        BY <3>1, <3>2
    <2> QED
      BY <1>3, <2>1, <2>2, <2>3, <2>4, <2>5, <2>6, <2>7, <2>8, <2>9, <2>10, <2>11
      DEF Instrumentation
  <1>4. CASE UNCHANGED vars
    BY <1>4 DEF vars, mem, TypeOK
  <1> QED
    BY <1>1, <1>2, <1>3, <1>4 DEF Next, Done

LEMMA TypeInit == Init => TypeOK
  BY PointerTypes, ConstantsAssumption DEF Init, TypeOK, Outcomes

(* The state keeps its types whatever the threads, the environment and the *)
(* program do: pointers stay pointers, native stacks stay lists of frames, *)
(* and only return addresses and untouched words are in the mapping.       *)
THEOREM TypeCorrect == Spec => []TypeOK
  BY TypeInit, TypeStep, PTL DEF Spec

-----------------------------------------------------------------------------
(* The inductive invariant of a disciplined process.                       *)

S == stack[MainThread]
Depth == Len(S)
TopFrame == S[Depth]

LEMMA StackType ==
  ASSUME TypeOK
  PROVE  /\ S \in Seq(Frame)
         /\ Depth \in Nat
         /\ \A i \in 1 .. Depth : S[i] \in Frame
         /\ S # << >> => Depth > 0 /\ TopFrame \in Frame
         /\ S = << >> <=> Depth = 0
  BY ConstantsAssumption DEF TypeOK, S, Depth, TopFrame

(* What a frame has moved the pointer by: nothing, or one slot down.       *)
LEMMA AfterFun ==
  ASSUME NEW f \in Frame, f.fn = "fun"
  PROVE  /\ After(f) = f.entry \/ After(f) = Pushed(f.entry)
         /\ Pushed(f.entry).off = f.entry.off - Stride
         /\ Pushed(f.entry).page = f.entry.page
         /\ After(f).off \in (f.entry.off - Stride) .. f.entry.off
         /\ Recording(f) => After(f) = Pushed(f.entry)
  BY DEF After, Pushed, Moved, Stride, Frame, Ptr, Recording

(* What the invariant says of the frame that runs.                         *)
LEMMA RunningFrame ==
  ASSUME IInv, S # << >>
  PROVE  /\ S \in Seq(Frame) /\ Depth \in Nat \ {0} /\ TopFrame \in Frame
         /\ sp = After(TopFrame)
         /\ Depth = 1 => TopFrame.fn = "main" /\ MainOK(TopFrame)
         /\ Depth > 1 => TopFrame.fn = "fun" /\ FunOK(TopFrame)
  BY StackType DEF IInv, FramesOK, LinksOK, S, Depth, TopFrame

(* The process stops, and the reason is one of those the invariant allows. *)
LEMMA HaltStep ==
  ASSUME IInv, NEW why \in Outcomes, Halt(MainThread, why),
         why = "alarm" => TopFrame.got # TopFrame.orig,
         why = "hijacked" => TopFrame.fn = "main",
         why = "oob" => Stride * (Depth - 1) > PageWords - 1
  PROVE  IInv'
  <1>1. TypeOK'
    BY HaltType, ConstantsAssumption DEF IInv
  <1>2. StopOK'
    BY DEF Halt, StopOK, NoFalseAlarm, GuardedReturn, Capacity, Top, TopFrame, S, Depth
  <1> QED
    BY <1>1, <1>2
    DEF Halt, mem, IInv, FramesOK, MainOK, FunOK, BelowOK, LinksOK, DescentOK,
        DepthOK, After, Recording

(* A function is called, or a handler entered, above a frame in its body.  *)
LEMMA PushStep ==
  ASSUME IInv, status = "running", NEW a \in Addr, S # << >>, S[1].pc = "body",
         "overwrite" \in Env => TopFrame.pc = "body",
         Push(MainThread, NewFrame("fun", "enter", a))
  PROVE  IInv'
  <1> DEFINE T == S'
  <1>0. PICK f \in Frame : f = NewFrame("fun", "enter", a)
    BY NewFrameType DEF IInv
  <1>1. /\ T = Append(S, f) /\ T \in Seq(Frame) /\ Len(T) = Depth + 1
        /\ T[Depth + 1] = f
        /\ \A i \in 1 .. Depth : T[i] = S[i]
    BY <1>0, AppendFrame, StackType, ConstantsAssumption
    DEF Push, S, Depth, IInv, TypeOK
  <1>2. UNCHANGED <<sp, bound, shadow, status, by>>
    BY DEF Push, mem
  <1>3. f.fn = "fun" /\ f.pc = "enter" /\ f.ra = f.orig /\ f.entry = sp
    BY <1>0 DEF NewFrame
  <1>t. Depth \in Nat \ {0} /\ TopFrame \in Frame /\ sp = After(TopFrame)
        /\ T # << >> /\ \A i \in 1 .. Depth : S[i] \in Frame
    BY <1>1, RunningFrame, StackType DEF IInv
  <1>4. TypeOK'
    BY <1>0, PushType, ConstantsAssumption DEF IInv
  <1>5. FramesOK(S)'
    BY <1>1, <1>2, <1>3, <1>t
    DEF IInv, FramesOK, MainOK, FunOK, FunLabel, Recording, S, Depth
  <1>6. BelowOK(S)'
    BY <1>1, <1>t DEF IInv, BelowOK, S, Depth, TopFrame
  <1>7. LinksOK(S)'
    <2>1. \A i \in 1 .. Depth : T[i + 1].entry = After(S[i])
      BY <1>1, <1>3, <1>t DEF IInv, LinksOK, S, Depth, TopFrame
    <2>2. sp = After(f) /\ T[1].entry = Null
      BY <1>1, <1>3, <1>t DEF IInv, LinksOK, S, Depth, After
    <2>3. \A i \in 1 .. Depth : After(S[i])' = After(S[i])
      BY <1>1, <1>2 DEF After
    <2>4. After(S[Len(S)])' = After(f)
      BY <1>1, <1>2, <1>t DEF After
    <2>5. \A i \in 1 .. Len(T) - 1 : T[i + 1].entry = After(S[i])'
      BY <2>1, <2>3, <1>1, <1>t
    <2>6. sp' = After(S[Len(S)])' /\ T[1].entry = Null /\ T # << >>
      BY <2>2, <2>4, <1>2, <1>t
    <2> QED
      BY <2>5, <2>6 DEF LinksOK
  <1>8. DescentOK(S)'
    <2>1. \A i \in 2 .. Depth : f.entry.off <= After(S[i]).off
      <3> TAKE i \in 2 .. Depth
      <3>1. CASE i = Depth
        <4>1. f.entry = After(S[i])
          BY <3>1, <1>3, <1>t DEF TopFrame
        <4>2. S[i].fn = "fun" /\ S[i] \in Frame
          BY <1>t DEF IInv, FramesOK, S, Depth
        <4> QED
          BY <4>1, <4>2, AfterFun DEF Frame, Ptr, Stride
      <3>2. CASE i < Depth
        <4>1. TopFrame.fn = "fun" /\ S[i].fn = "fun" /\ S[i] \in Frame
          BY <3>2, <1>t DEF IInv, FramesOK, S, Depth, TopFrame
        <4>2. TopFrame.entry.off <= After(S[i]).off
          BY <3>2, <1>t DEF IInv, DescentOK, S, Depth, TopFrame
        <4> QED
          BY <4>1, <4>2, <1>3, <1>t, AfterFun DEF Frame, Ptr, Stride
      <3> QED
        BY <3>1, <3>2, <1>t
    <2> QED
      BY <2>1, <1>1, <1>2, <1>t DEF IInv, DescentOK, After, S, Depth
  <1>9. DepthOK(S)'
    <2>1. f.entry.off \in (PageWords - 1 - Stride * (Depth - 1)) .. (PageWords - 1)
      <3>1. CASE Depth = 1
        <4>1. f.entry = Base(bound)
          BY <3>1, <1>3, <1>t DEF IInv, FramesOK, S, Depth, TopFrame, After
        <4> QED
          BY <4>1, <3>1, ConstantsAssumption
          DEF Base, Moved, Null, Mapping, IInv, TypeOK, Stride
      <3>2. CASE Depth > 1
        <4>1. TopFrame.fn = "fun"
          BY <3>2, <1>t DEF IInv, FramesOK, S, Depth, TopFrame
        <4>2. TopFrame.entry.off \in (PageWords - 1 - Stride * (Depth - 2)) .. (PageWords - 1)
          BY <3>2, <1>t DEF IInv, DepthOK, S, Depth, TopFrame
        <4> QED
          BY <4>1, <4>2, <1>3, <1>t, AfterFun, ConstantsAssumption DEF Frame, Ptr, Stride
      <3> QED
        BY <3>1, <3>2, <1>t
    <2> QED
      BY <2>1, <1>1, <1>t DEF IInv, DepthOK, S, Depth
  <1>10. StopOK'
    BY <1>2 DEF StopOK, NoFalseAlarm, GuardedReturn, Capacity
  <1> QED
    BY <1>4, <1>5, <1>6, <1>7, <1>8, <1>9, <1>10 DEF IInv, S

(* The running function's code takes a step: only its frame changes, and   *)
(* the pointer moves to where the frame's new pc says it is.  The shadow   *)
(* words of the frames below stay as they are.                             *)
LEMMA TopStep ==
  ASSUME IInv, TypeOK', status' = "running", S # << >>,
         NEW g \in Frame, S' = Put(S, g),
         g.fn = TopFrame.fn, g.orig = TopFrame.orig, g.entry = TopFrame.entry,
         bound' = bound \/ Depth = 1,
         sp' = After(g)',
         Depth = 1 => MainOK(g)',
         Depth > 1 => FunOK(g)',
         \A i \in 2 .. Depth - 1 : FunOK(S[i])'
  PROVE  IInv'
  <1> DEFINE T == S'
  <1>1. /\ T \in Seq(Frame) /\ Len(T) = Depth /\ T[Depth] = g
        /\ \A i \in 1 .. Depth : i # Depth => T[i] = S[i]
        /\ Depth \in Nat \ {0} /\ T # << >>
    BY PutProperties, StackType DEF IInv, Depth
  <1>2. /\ Depth = 1 => TopFrame.fn = "main"
        /\ \A i \in 1 .. Depth : S[i].fn = IF i = 1 THEN "main" ELSE "fun"
    BY <1>1 DEF IInv, FramesOK, S, Depth, TopFrame
  <1>3. \A i \in 1 .. Depth : T[i].entry = S[i].entry /\ T[i].fn = S[i].fn
    BY <1>1 DEF TopFrame
  <1>4. \A i \in 1 .. Depth - 1 : T[i] = S[i] /\ After(S[i])' = After(S[i])
    BY <1>1 DEF After
  <1>5. FramesOK(S)'
    <2>1. (\A i \in 1 .. Depth - 1 : i = 1 => MainOK(S[i]))'
      BY <1>1 DEF IInv, FramesOK, MainOK, S, Depth
    <2>2. (Depth = 1 => MainOK(S[Depth]))' /\ (Depth > 1 => FunOK(S[Depth]))'
      BY <1>1 DEF MainOK, FunOK, Recording, Depth
    <2>3. (\A i \in 1 .. Depth : S[i].fn = IF i = 1 THEN "main" ELSE "fun")'
      BY <1>1, <1>2, <1>3 DEF Depth
    <2>4. (\A i \in 1 .. Depth : IF i = 1 THEN MainOK(S[i]) ELSE FunOK(S[i]))'
      BY <2>1, <2>2, <1>1 DEF Depth
    <2> QED
      BY <2>3, <2>4, <1>1 DEF FramesOK, S, Depth
  <1>6. BelowOK(S)'
    BY <1>1, <1>4 DEF IInv, BelowOK, S, Depth
  <1>7. LinksOK(S)'
    BY <1>1, <1>3, <1>4 DEF IInv, LinksOK, S, Depth
  <1>8. DescentOK(S)'
    BY <1>1, <1>3, <1>4 DEF IInv, DescentOK, S, Depth
  <1>9. DepthOK(S)'
    BY <1>1, <1>3 DEF IInv, DepthOK, S, Depth
  <1>10. StopOK'
    BY DEF StopOK, NoFalseAlarm, GuardedReturn, Capacity
  <1> QED
    BY <1>5, <1>6, <1>7, <1>8, <1>9, <1>10 DEF IInv, S

(* A function returns: it has moved the pointer back to where it found it. *)
LEMMA ReturnStep ==
  ASSUME IInv, TypeOK', status' = "running", S # << >>, TopFrame.pc = "ret",
         S' = Dropped(S), UNCHANGED mem
  PROVE  IInv'
  <1> DEFINE T == S'
  <1>1. /\ T \in Seq(Frame) /\ Len(T) = Depth - 1
        /\ \A i \in 1 .. Depth - 1 : T[i] = S[i]
        /\ Depth \in Nat \ {0}
    BY DroppedProperties, StackType DEF IInv, Depth
  <1>2. Depth > 1 /\ TopFrame.fn = "fun" /\ sp = TopFrame.entry /\ T # << >>
    BY <1>1, RunningFrame DEF MainOK, MainLabel, After
  <1>3. FramesOK(S)'
    BY <1>1 DEF mem, IInv, FramesOK, MainOK, FunOK, Recording, S, Depth
  <1>4. BelowOK(S)'
    BY <1>1 DEF IInv, BelowOK, S, Depth
  <1>5. LinksOK(S)'
    <2>1. sp = After(S[Depth - 1])
      BY <1>1, <1>2 DEF IInv, LinksOK, S, Depth, TopFrame
    <2>2. sp' = After(S[Len(S)])'
      BY <2>1, <1>1, <1>2 DEF mem, After
    <2>3. \A i \in 1 .. Depth - 2 : T[i + 1].entry = After(S[i])
      <3>1. \A i \in 1 .. Depth - 1 : S[i + 1].entry = After(S[i])
        BY DEF IInv, LinksOK, S, Depth
      <3>2. \A i \in 1 .. Depth - 2 : i + 1 \in 1 .. Depth - 1 /\ i \in 1 .. Depth - 1
        BY <1>1
      <3> QED
        BY <3>1, <3>2, <1>1
    <2>4. \A i \in 1 .. Depth - 2 : After(S[i])' = After(S[i])
      BY <1>1 DEF mem, After
    <2>5. T[1].entry = Null
      BY <1>1, <1>2 DEF IInv, LinksOK, S, Depth
    <2> QED
      BY <2>2, <2>3, <2>4, <2>5, <1>1, <1>2 DEF LinksOK, S, Depth
  <1>6. DescentOK(S)'
    <2>1. \A i, j \in 2 .. Depth : i < j => S[j].entry.off <= After(S[i]).off
      BY DEF IInv, DescentOK, S, Depth
    <2>2. \A i \in 2 .. Depth - 1 : T[i] = S[i] /\ After(S[i])' = After(S[i])
      BY <1>1 DEF mem, After
    <2> QED
      BY <2>1, <2>2, <1>1 DEF DescentOK
  <1>7. DepthOK(S)'
    <2>1. \A i \in 2 .. Depth - 1 : T[i].entry.off = S[i].entry.off
      BY <1>1
    <2>2. \A i \in 2 .. Depth :
            S[i].entry.off \in (PageWords - 1 - Stride * (i - 2)) .. (PageWords - 1)
      BY DEF IInv, DepthOK, S, Depth
    <2> QED
      BY <2>1, <2>2, <1>1 DEF DepthOK
  <1>8. StopOK'
    BY DEF StopOK, NoFalseAlarm, GuardedReturn, Capacity
  <1> QED
    BY <1>3, <1>4, <1>5, <1>6, <1>7, <1>8 DEF IInv, S

(* A stray store changes the saved return address of a frame in its body.  *)
LEMMA OverwriteStep ==
  ASSUME IInv, TypeOK', Overwrite(MainThread)
  PROVE  IInv'
  <1> DEFINE T == S'
  <1>1. PICK i \in 1 .. Depth, a \in Addr : T = [S EXCEPT ![i].ra = a]
    BY StackType, ConstantsAssumption DEF IInv, TypeOK, Overwrite, S, Depth
  <1>2. /\ UNCHANGED mem /\ status' = "running" /\ S # << >>
        /\ "overwrite" \in Env /\ TopFrame.pc = "body"
    BY DEF Overwrite, At, Continue, Top, S, Depth, TopFrame
  <1>3. Depth \in Nat \ {0} /\ \A k \in 1 .. Depth : S[k] \in Frame
    BY <1>2, StackType DEF IInv
  <1>4. \A k \in 1 .. Depth : S[k].pc = "body"
    BY <1>2, <1>3 DEF IInv, BelowOK, S, Depth, TopFrame
  <1>5. /\ Len(T) = Depth /\ T # << >>
        /\ \A k \in 1 .. Depth :
             /\ T[k].fn = S[k].fn /\ T[k].pc = "body" /\ T[k].entry = S[k].entry
             /\ T[k].orig = S[k].orig
    <2>1. T = [S EXCEPT ![i] = [S[i] EXCEPT !.ra = a]]
      BY <1>1
    <2>2. \A k \in 1 .. Depth : T[k] = IF k = i THEN [S[i] EXCEPT !.ra = a] ELSE S[k]
      BY <2>1, <1>3, StackType DEF IInv, Depth
    <2>3. [S[i] EXCEPT !.ra = a].fn = S[i].fn /\ [S[i] EXCEPT !.ra = a].pc = S[i].pc
          /\ [S[i] EXCEPT !.ra = a].entry = S[i].entry
          /\ [S[i] EXCEPT !.ra = a].orig = S[i].orig
      BY <1>3 DEF Frame
    <2>4. Len(T) = Depth /\ T # << >>
      BY <2>1, <1>3, StackType DEF IInv, Depth
    <2> QED
      BY <2>2, <2>3, <2>4, <1>3, <1>4
  <1>6. \A k \in 1 .. Depth : After(S[k])' = After(S[k])
    BY <1>2, <1>4, <1>5 DEF After, mem
  <1>7. FramesOK(S)'
    <2>1. \A k \in 1 .. Depth :
            S[k].fn = (IF k = 1 THEN "main" ELSE "fun") /\ (k > 1 => FunOK(S[k]))
      BY <1>3 DEF IInv, FramesOK, S, Depth
    <2>2. \A k \in 2 .. Depth : FunOK(S[k])'
      BY <2>1, <1>2, <1>3, <1>4, <1>5 DEF mem, FunOK, Recording
    <2>3. MainOK(S[1])'
      BY <1>3, <1>5 DEF MainOK, MainLabel
    <2> QED
      BY <2>1, <2>2, <2>3, <1>3, <1>5 DEF FramesOK
  <1>8. BelowOK(S)'
    BY <1>3, <1>5 DEF BelowOK
  <1>9. LinksOK(S)'
    <2>1. \A k \in 1 .. Depth - 1 : T[k + 1].entry = After(S[k])
      <3>1. \A k \in 1 .. Depth - 1 : S[k + 1].entry = After(S[k])
        BY DEF IInv, LinksOK, S, Depth
      <3>2. \A k \in 1 .. Depth - 1 : k + 1 \in 1 .. Depth
        BY <1>3
      <3> QED
        BY <3>1, <3>2, <1>5
    <2>2. sp' = After(S[Depth]) /\ T[1].entry = Null
      BY <1>2, <1>3, <1>5 DEF mem, IInv, LinksOK, S, Depth
    <2> QED
      BY <2>1, <2>2, <1>3, <1>5, <1>6 DEF LinksOK
  <1>10. DescentOK(S)'
    <2>1. \A j, k \in 2 .. Depth : j < k => S[k].entry.off <= After(S[j]).off
      BY DEF IInv, DescentOK, S, Depth
    <2> QED
      BY <2>1, <1>3, <1>5, <1>6 DEF DescentOK
  <1>11. DepthOK(S)'
    <2>1. \A k \in 2 .. Depth :
            S[k].entry.off \in (PageWords - 1 - Stride * (k - 2)) .. (PageWords - 1)
      BY DEF IInv, DepthOK, S, Depth
    <2> QED
      BY <2>1, <1>3, <1>5 DEF DepthOK
  <1>12. StopOK'
    BY <1>2 DEF StopOK, NoFalseAlarm, GuardedReturn, Capacity
  <1> QED
    BY <1>7, <1>8, <1>9, <1>10, <1>11, <1>12 DEF IInv, S

-----------------------------------------------------------------------------
(* Every step of a disciplined process preserves the invariant.            *)

(* The facts every case of the instrumentation starts from.                *)
LEMMA AtFacts ==
  ASSUME IInv, NEW label, At(MainThread, label)
  PROVE  /\ S # << >> /\ Depth \in Nat \ {0} /\ TopFrame \in Frame
         /\ Top(MainThread) = TopFrame /\ TopFrame.pc = label
         /\ status = "running" /\ sp = After(TopFrame) /\ TypeOK
         /\ Depth = 1 => TopFrame.fn = "main" /\ MainOK(TopFrame)
         /\ Depth > 1 => TopFrame.fn = "fun" /\ FunOK(TopFrame)
  <1>1. S # << >> /\ Top(MainThread) = TopFrame /\ TopFrame.pc = label
        /\ status = "running" /\ TypeOK
    BY DEF At, Top, S, Depth, TopFrame, IInv
  <1> QED
    BY <1>1, RunningFrame

(* Labels tell main's prologue from the code of the other functions.       *)
LEMMA AtMain ==
  ASSUME IInv, NEW label \in {"mmap", "base"}, At(MainThread, label)
  PROVE  /\ Depth = 1 /\ TopFrame.fn = "main" /\ TopFrame.pc = label
         /\ MainOK(TopFrame) /\ sp = TopFrame.entry
  BY AtFacts DEF FunOK, FunLabel, After

LEMMA AtFun ==
  ASSUME IInv, NEW label \in FunLabel \ {"body"}, At(MainThread, label)
  PROVE  /\ Depth > 1 /\ TopFrame.fn = "fun" /\ TopFrame.pc = label
         /\ FunOK(TopFrame)
         /\ label \in {"enter", "dec", "ret"} => sp = TopFrame.entry
         /\ label \notin {"enter", "dec", "ret"} => sp = Pushed(TopFrame.entry)
  BY AtFacts DEF MainOK, MainLabel, FunLabel, After

(* The new top frame of a step, named.                                     *)
LEMMA TopUpdate ==
  ASSUME IInv, NEW label, At(MainThread, label), NEW g \in Frame, SetTop(MainThread, g)
  PROVE  /\ S' = Put(S, g)
         /\ UNCHANGED shadow => \A i \in 2 .. Depth - 1 : FunOK(S[i])'
  <1>1. S # << >> /\ TypeOK
    BY AtFacts
  <1>2. S' = Put(S, g)
    BY <1>1, ConstantsAssumption DEF SetTop, TypeOK, S
  <1>3. \A i \in 1 .. Depth - 1 : S'[i] = S[i]
    <2>1. S \in Seq(Frame) /\ Depth \in Nat
      BY <1>1, StackType
    <2>2. \A i \in 1 .. Depth : i # Depth => Put(S, g)[i] = S[i]
      BY <1>1, <2>1, PutProperties DEF Depth
    <2> QED
      BY <1>2, <2>1, <2>2
  <1>4. \A i \in 2 .. Depth - 1 : FunOK(S[i])
    BY <1>1, StackType DEF IInv, FramesOK, S, Depth
  <1> QED
    BY <1>2, <1>3, <1>4 DEF FunOK, Recording

LEMMA MapShadowStep ==
  ASSUME IInv, TypeOK', MapShadow(MainThread)
  PROVE  IInv'
  <1>1. At(MainThread, "mmap") /\ status' = "running"
    BY DEF MapShadow, At, Continue
  <1>2. PICK g \in Frame : g = [TopFrame EXCEPT !.pc = "base", !.reg = bound']
    BY <1>1, AtFacts, PointerTypes DEF MapShadow, Frame, MainLabel
  <1>3. S' = Put(S, g)
    BY <1>1, <1>2, AtFacts, TopUpdate DEF MapShadow, GotoWith
  <1>4. g.fn = "main" /\ g.pc = "base" /\ g.reg = bound'
        /\ g.orig = TopFrame.orig /\ g.entry = TopFrame.entry
    BY <1>1, <1>2, AtFacts, AtMain DEF Frame
  <1>5. MainOK(g)' /\ sp' = After(g)' /\ Depth = 1
    BY <1>1, <1>4, AtMain DEF MainOK, MainLabel, After, MapShadow
  <1> QED
    BY <1>1, <1>3, <1>4, <1>5, AtFacts, AtMain, TopStep

LEMMA SetBaseStep ==
  ASSUME IInv, TypeOK', SetBase(MainThread)
  PROVE  IInv'
  <1>1. At(MainThread, "base") /\ status' = "running"
    BY DEF SetBase, At, Continue
  <1>2. PICK g \in Frame : g = [TopFrame EXCEPT !.pc = "body", !.reg = Null]
    BY <1>1, AtFacts, PointerTypes DEF Frame, MainLabel
  <1>3. S' = Put(S, g)
    BY <1>1, <1>2, AtFacts, TopUpdate DEF SetBase, GotoWith
  <1>4. g.fn = "main" /\ g.pc = "body"
        /\ g.orig = TopFrame.orig /\ g.entry = TopFrame.entry
    BY <1>1, <1>2, AtFacts, AtMain DEF Frame
  <1>5. MainOK(g)' /\ sp' = After(g)' /\ Depth = 1
    BY <1>1, <1>4, AtFacts, AtMain DEF MainOK, MainLabel, After, SetBase
  <1> QED
    BY <1>1, <1>3, <1>4, <1>5, AtFacts, AtMain, TopStep

LEMMA LoadForPushStep ==
  ASSUME IInv, TypeOK', LoadForPush(MainThread)
  PROVE  IInv'
  <1>1. At(MainThread, "enter") /\ status' = "running" /\ UNCHANGED mem
    BY DEF LoadForPush, At, Continue
  <1>2. PICK g \in Frame :
          g = [TopFrame EXCEPT !.pc = "dec", !.reg = sp, !.got = TopFrame.ra]
    BY <1>1, AtFacts DEF Frame, FunLabel, TypeOK
  <1>3. S' = Put(S, g) /\ \A i \in 2 .. Depth - 1 : FunOK(S[i])'
    BY <1>1, <1>2, AtFacts, TopUpdate DEF LoadForPush, mem
  <1>4. /\ Depth > 1 /\ TopFrame.fn = "fun" /\ sp = TopFrame.entry
        /\ TopFrame.ra = TopFrame.orig
    BY <1>1, AtFun DEF FunLabel, FunOK
  <1>5. /\ g.fn = "fun" /\ g.pc = "dec" /\ g.reg = sp /\ g.got = TopFrame.ra
        /\ g.ra = TopFrame.ra /\ g.orig = TopFrame.orig /\ g.entry = TopFrame.entry
    BY <1>1, <1>2, <1>4, AtFacts DEF Frame
  <1>6. FunOK(g)' /\ sp' = After(g)'
    BY <1>1, <1>4, <1>5 DEF FunOK, FunLabel, Recording, After, mem
  <1> QED
    BY <1>1, <1>3, <1>4, <1>5, <1>6, AtFacts, TopStep DEF mem

LEMMA DecrementStep ==
  ASSUME IInv, TypeOK', Decrement(MainThread)
  PROVE  IInv'
  <1>1. At(MainThread, "dec") /\ status' = "running" /\ UNCHANGED <<bound, shadow>>
    BY DEF Decrement, At, Continue
  <1>2. PICK g \in Frame : g = [TopFrame EXCEPT !.pc = "slot", !.reg = Null]
    BY <1>1, AtFacts, PointerTypes DEF Frame, FunLabel
  <1>3. S' = Put(S, g) /\ \A i \in 2 .. Depth - 1 : FunOK(S[i])'
    BY <1>1, <1>2, AtFacts, TopUpdate DEF Decrement, GotoWith
  <1>4. /\ Depth > 1 /\ TopFrame.fn = "fun" /\ TopFrame.reg = TopFrame.entry
        /\ TopFrame.ra = TopFrame.orig /\ TopFrame.got = TopFrame.orig
    BY <1>1, AtFun DEF FunLabel, FunOK
  <1>5. /\ g.fn = "fun" /\ g.pc = "slot" /\ g.got = TopFrame.got
        /\ g.ra = TopFrame.ra /\ g.orig = TopFrame.orig /\ g.entry = TopFrame.entry
    BY <1>1, <1>2, <1>4, AtFacts DEF Frame
  <1>6. FunOK(g)' /\ sp' = After(g)'
    BY <1>1, <1>4, <1>5, AtFacts DEF FunOK, FunLabel, Recording, After, Decrement
  <1> QED
    BY <1>1, <1>3, <1>4, <1>5, <1>6, AtFacts, TopStep

LEMMA ReloadForPushStep ==
  ASSUME IInv, TypeOK', ReloadForPush(MainThread)
  PROVE  IInv'
  <1>1. At(MainThread, "slot") /\ status' = "running" /\ UNCHANGED mem
    BY DEF ReloadForPush, At, Continue
  <1>2. PICK g \in Frame : g = [TopFrame EXCEPT !.pc = "push", !.reg = sp]
    BY <1>1, AtFacts DEF Frame, FunLabel, TypeOK
  <1>3. S' = Put(S, g) /\ \A i \in 2 .. Depth - 1 : FunOK(S[i])'
    BY <1>1, <1>2, AtFacts, TopUpdate DEF ReloadForPush, GotoWith, mem
  <1>4. /\ Depth > 1 /\ TopFrame.fn = "fun" /\ sp = Pushed(TopFrame.entry)
        /\ TopFrame.ra = TopFrame.orig /\ TopFrame.got = TopFrame.orig
    BY <1>1, AtFun DEF FunLabel, FunOK
  <1>5. /\ g.fn = "fun" /\ g.pc = "push" /\ g.reg = sp /\ g.got = TopFrame.got
        /\ g.ra = TopFrame.ra /\ g.orig = TopFrame.orig /\ g.entry = TopFrame.entry
    BY <1>1, <1>2, <1>4, AtFacts DEF Frame
  <1>6. FunOK(g)' /\ sp' = After(g)'
    BY <1>1, <1>4, <1>5 DEF FunOK, FunLabel, Recording, After, mem
  <1> QED
    BY <1>1, <1>3, <1>4, <1>5, <1>6, AtFacts, TopStep DEF mem

(* A prologue's store goes one slot below everything the live frames have  *)
(* recorded; if that is outside the mapping, it is full.                   *)
LEMMA StoreRetAddrStep ==
  ASSUME IInv, TypeOK', StoreRetAddr(MainThread)
  PROVE  IInv'
  <1>1. At(MainThread, "push")
    BY DEF StoreRetAddr
  <1>2. /\ Depth > 1 /\ TopFrame.fn = "fun" /\ sp = Pushed(TopFrame.entry)
        /\ TopFrame.reg = Pushed(TopFrame.entry)
        /\ TopFrame.ra = TopFrame.orig /\ TopFrame.got = TopFrame.orig
        /\ TopFrame \in Frame /\ Depth \in Nat /\ status = "running"
        /\ Top(MainThread) = TopFrame
    BY <1>1, AtFun, AtFacts DEF FunLabel, FunOK
  <1>3. CASE InBounds(TopFrame.reg)
    <2>1. /\ shadow' = [shadow EXCEPT ![TopFrame.reg.off] = TopFrame.got]
          /\ status' = "running" /\ UNCHANGED <<sp, bound>>
          /\ GotoWith(MainThread, "body", Null)
      BY <1>2, <1>3 DEF StoreRetAddr, Continue
    <2>2. PICK g \in Frame : g = [TopFrame EXCEPT !.pc = "body", !.reg = Null]
      BY <1>2, PointerTypes DEF Frame, FunLabel
    <2>3. S' = Put(S, g)
      BY <1>1, <1>2, <2>1, <2>2, TopUpdate DEF GotoWith
    <2>4. /\ g.fn = "fun" /\ g.pc = "body" /\ g.got = TopFrame.got
          /\ g.ra = TopFrame.ra /\ g.orig = TopFrame.orig /\ g.entry = TopFrame.entry
      BY <1>2, <2>2 DEF Frame
    <2>5. TopFrame.reg.off \in Offsets /\ shadow \in [Offsets -> Addr \cup {Zero}]
      BY <1>3 DEF InBounds, IInv, TypeOK
    <2>6. FunOK(g)' /\ sp' = After(g)'
      BY <1>2, <1>3, <2>1, <2>4, <2>5 DEF FunOK, FunLabel, Recording, After
    <2>7. \A i \in 2 .. Depth - 1 : FunOK(S[i])'
      <3>1. ASSUME NEW i \in 2 .. Depth - 1
            PROVE  /\ S'[i] = S[i] /\ FunOK(S[i]) /\ S[i].fn = "fun" /\ S[i] \in Frame
                   /\ TopFrame.entry.off <= After(S[i]).off
        <4>1. S \in Seq(Frame) /\ S # << >>
          BY <1>1, AtFacts, StackType
        <4>2. S'[i] = S[i]
          <5>1. \A k \in 1 .. Depth : k # Depth => Put(S, g)[k] = S[k]
            BY <4>1, PutProperties DEF Depth
          <5> QED
            BY <2>3, <5>1, <1>2
        <4>3. FunOK(S[i]) /\ S[i].fn = "fun" /\ S[i] \in Frame
          BY <4>1, <1>2 DEF IInv, FramesOK, S, Depth
        <4>4. TopFrame.entry.off <= After(S[i]).off
          BY <1>2 DEF IInv, DescentOK, S, Depth, TopFrame
        <4> QED
          BY <4>2, <4>3, <4>4
      <3>2. ASSUME NEW i \in 2 .. Depth - 1, Recording(S[i])
            PROVE  Pushed(S[i].entry).off # TopFrame.reg.off
        <4>1. After(S[i]) = Pushed(S[i].entry)
          BY <3>1, <3>2, AfterFun
        <4>2. TopFrame.reg.off = TopFrame.entry.off - Stride
          BY <1>2, AfterFun
        <4> QED
          BY <3>1, <4>1, <4>2, <1>2 DEF Stride, Frame, Ptr, Pushed, Moved
      <3> QED
        BY <3>1, <3>2, <2>1, <2>5 DEF FunOK, Recording, InBounds
    <2> QED
      BY <1>1, <1>2, <2>1, <2>3, <2>4, <2>6, <2>7, AtFacts, TopStep
  <1>4. CASE ~InBounds(TopFrame.reg)
    <2>1. PICK why \in {"oob", "fault"} :
            Halt(MainThread, why) /\ (why = "oob" => TopFrame.reg.page)
      BY <1>2, <1>4 DEF StoreRetAddr
    <2>2. ASSUME TopFrame.reg.page
          PROVE  Stride * (Depth - 1) > PageWords - 1
      <3>1. TopFrame.entry.off \in (PageWords - 1 - Stride * (Depth - 2)) .. (PageWords - 1)
        BY <1>2 DEF IInv, DepthOK, S, Depth, TopFrame
      <3>2. TopFrame.entry.off \in Int
            /\ TopFrame.entry.off - Stride \notin 0 .. (PageWords - 1)
        BY <1>2, <1>4, <2>2, AfterFun DEF InBounds, Offsets, Frame, Ptr
      <3> QED
        BY <3>1, <3>2, <1>2, ConstantsAssumption DEF Stride
    <2> QED
      BY <2>1, <2>2, HaltStep DEF Outcomes
  <1> QED
    BY <1>3, <1>4

LEMMA LoadForCheckStep ==
  ASSUME IInv, TypeOK', LoadForCheck(MainThread)
  PROVE  IInv'
  <1>1. At(MainThread, "body") /\ status' = "running" /\ UNCHANGED mem
    BY DEF LoadForCheck, At, Continue
  <1>2. PICK g \in Frame :
          g = [TopFrame EXCEPT !.pc = "cmp", !.reg = sp, !.got = TopFrame.ra]
    BY <1>1, AtFacts DEF Frame, FunLabel, TypeOK
  <1>3. S' = Put(S, g) /\ \A i \in 2 .. Depth - 1 : FunOK(S[i])'
    BY <1>1, <1>2, AtFacts, TopUpdate DEF LoadForCheck, mem
  <1>4. /\ Depth > 1 /\ TopFrame.fn = "fun" /\ FunOK(TopFrame)
        /\ sp = Pushed(TopFrame.entry) /\ Recording(TopFrame)
    BY <1>1, AtFacts DEF LoadForCheck, After, Recording
  <1>5. /\ g.fn = "fun" /\ g.pc = "cmp" /\ g.reg = sp /\ g.got = g.ra
        /\ g.orig = TopFrame.orig /\ g.entry = TopFrame.entry
    BY <1>1, <1>2, <1>4, AtFacts DEF Frame
  <1>6. FunOK(g)' /\ sp' = After(g)'
    BY <1>1, <1>4, <1>5 DEF FunOK, FunLabel, Recording, After, mem
  <1> QED
    BY <1>1, <1>3, <1>4, <1>5, <1>6, AtFacts, TopStep DEF mem

(* The word the epilogue compares with is the one its own prologue pushed. *)
LEMMA CompareStep ==
  ASSUME IInv, TypeOK', Compare(MainThread)
  PROVE  IInv'
  <1>1. At(MainThread, "cmp")
    BY DEF Compare
  <1>2. /\ Depth > 1 /\ TopFrame.fn = "fun" /\ sp = Pushed(TopFrame.entry)
        /\ TopFrame.reg = Pushed(TopFrame.entry) /\ InBounds(TopFrame.reg)
        /\ shadow[TopFrame.reg.off] = TopFrame.orig /\ TopFrame.got = TopFrame.ra
        /\ TopFrame \in Frame /\ Top(MainThread) = TopFrame /\ status = "running"
    BY <1>1, AtFun, AtFacts DEF FunLabel, FunOK, Recording
  <1>3. CASE TopFrame.got = TopFrame.orig
    <2>1. GotoWith(MainThread, "pop", Null) /\ UNCHANGED mem /\ status' = "running"
      BY <1>2, <1>3 DEF Compare, Continue
    <2>2. PICK g \in Frame : g = [TopFrame EXCEPT !.pc = "pop", !.reg = Null]
      BY <1>2, PointerTypes DEF Frame, FunLabel
    <2>3. S' = Put(S, g) /\ \A i \in 2 .. Depth - 1 : FunOK(S[i])'
      BY <1>1, <1>2, <2>1, <2>2, TopUpdate DEF GotoWith, mem
    <2>4. /\ g.fn = "fun" /\ g.pc = "pop" /\ g.ra = TopFrame.orig
          /\ g.orig = TopFrame.orig /\ g.entry = TopFrame.entry
      BY <1>2, <1>3, <2>2 DEF Frame
    <2>5. FunOK(g)' /\ sp' = After(g)'
      BY <1>2, <2>1, <2>4 DEF FunOK, FunLabel, Recording, After, mem
    <2> QED
      BY <1>1, <1>2, <2>1, <2>3, <2>4, <2>5, AtFacts, TopStep DEF mem
  <1>4. CASE TopFrame.got # TopFrame.orig
    <2>1. Halt(MainThread, "alarm")
      BY <1>2, <1>4 DEF Compare
    <2> QED
      BY <2>1, <1>4, HaltStep DEF Outcomes
  <1> QED
    BY <1>3, <1>4

LEMMA LoadForPopStep ==
  ASSUME IInv, TypeOK', LoadForPop(MainThread)
  PROVE  IInv'
  <1>1. At(MainThread, "pop") /\ status' = "running" /\ UNCHANGED mem
    BY DEF LoadForPop, At, Continue
  <1>2. PICK g \in Frame : g = [TopFrame EXCEPT !.pc = "inc", !.reg = sp]
    BY <1>1, AtFacts DEF Frame, FunLabel, TypeOK
  <1>3. S' = Put(S, g) /\ \A i \in 2 .. Depth - 1 : FunOK(S[i])'
    BY <1>1, <1>2, AtFacts, TopUpdate DEF LoadForPop, GotoWith, mem
  <1>4. /\ Depth > 1 /\ TopFrame.fn = "fun" /\ sp = Pushed(TopFrame.entry)
        /\ TopFrame.ra = TopFrame.orig
    BY <1>1, AtFun DEF FunLabel, FunOK
  <1>5. /\ g.fn = "fun" /\ g.pc = "inc" /\ g.reg = sp
        /\ g.ra = TopFrame.ra /\ g.orig = TopFrame.orig /\ g.entry = TopFrame.entry
    BY <1>1, <1>2, <1>4, AtFacts DEF Frame
  <1>6. FunOK(g)' /\ sp' = After(g)'
    BY <1>1, <1>4, <1>5 DEF FunOK, FunLabel, Recording, After, mem
  <1> QED
    BY <1>1, <1>3, <1>4, <1>5, <1>6, AtFacts, TopStep DEF mem

(* A pop undoes a push.                                                    *)
LEMMA PopUndoesPush == \A p \in Ptr : Popped(Pushed(p)) = p
  <1> TAKE p \in Ptr
  <1>1. p = [page |-> p.page, off |-> p.off] /\ p.off \in Int
    BY DEF Ptr
  <1>2. Pushed(p) = [page |-> p.page, off |-> p.off - 8]
    BY <1>1 DEF Pushed, Moved, Stride
  <1>3. Popped(Pushed(p)) = [page |-> p.page, off |-> p.off - 8 + 8]
    BY <1>1, <1>2 DEF Popped, Moved, Stride
  <1> QED
    BY <1>1, <1>3

LEMMA IncrementStep ==
  ASSUME IInv, TypeOK', Increment(MainThread)
  PROVE  IInv'
  <1>1. At(MainThread, "inc") /\ status' = "running" /\ UNCHANGED <<bound, shadow>>
    BY DEF Increment, At, Continue
  <1>2. PICK g \in Frame : g = [TopFrame EXCEPT !.pc = "ret", !.reg = Null]
    BY <1>1, AtFacts, PointerTypes DEF Frame, FunLabel
  <1>3. S' = Put(S, g) /\ \A i \in 2 .. Depth - 1 : FunOK(S[i])'
    BY <1>1, <1>2, AtFacts, TopUpdate DEF Increment, GotoWith
  <1>4. /\ Depth > 1 /\ TopFrame.fn = "fun" /\ TopFrame.reg = Pushed(TopFrame.entry)
        /\ TopFrame.ra = TopFrame.orig
    BY <1>1, AtFun DEF FunLabel, FunOK
  <1>5. /\ g.fn = "fun" /\ g.pc = "ret" /\ g.ra = TopFrame.ra
        /\ g.orig = TopFrame.orig /\ g.entry = TopFrame.entry
    BY <1>1, <1>2, <1>4, AtFacts DEF Frame
  <1>6. sp' = TopFrame.entry
    BY <1>1, <1>4, AtFacts, PopUndoesPush DEF Increment, Frame
  <1>7. FunOK(g)' /\ sp' = After(g)'
    BY <1>4, <1>5, <1>6 DEF FunOK, FunLabel, Recording, After
  <1> QED
    BY <1>1, <1>3, <1>4, <1>5, <1>7, AtFacts, TopStep

LEMMA RetStep ==
  ASSUME IInv, TypeOK', Ret(MainThread)
  PROVE  IInv'
  <1>1. At(MainThread, "ret") /\ status = "running" /\ Top(MainThread) = TopFrame
        /\ S # << >> /\ TopFrame.pc = "ret" /\ TypeOK
    BY AtFacts DEF Ret
  <1>2. TopFrame.ra = TopFrame.orig
    BY <1>1, AtFun DEF FunLabel, FunOK
  <1>3. UNCHANGED mem /\ status' = "running"
        /\ stack' = [stack EXCEPT ![MainThread] = Dropped(S)]
    BY <1>1, <1>2 DEF Ret, Continue, S
  <1>4. S' = Dropped(S)
    BY <1>1, <1>3, ConstantsAssumption DEF TypeOK, S
  <1> QED
    BY <1>1, <1>3, <1>4, ReturnStep

LEMMA StartMainStep ==
  ASSUME IInv, TypeOK', StartMain
  PROVE  IInv'
  <1>1. PICK a \in Addr : Push(MainThread, NewFrame("main", "mmap", a))
    BY DEF StartMain
  <1>2. PICK f \in Frame : f = NewFrame("main", "mmap", a)
    BY NewFrameType DEF IInv
  <1>3. S = << >> /\ sp = Null /\ UNCHANGED mem /\ status' = "running"
    BY <1>1 DEF StartMain, Push, IInv, LinksOK, S
  <1>4. S' = Append(S, f)
    BY <1>1, <1>2, ConstantsAssumption DEF Push, S, IInv, TypeOK
  <1>5. Len(S') = 1 /\ S'[1] = f /\ S' # << >>
    BY <1>3, <1>4
  <1>6. f.fn = "main" /\ f.pc = "mmap" /\ f.entry = Null
    BY <1>2, <1>3 DEF NewFrame
  <1>7. FramesOK(S)' /\ BelowOK(S)' /\ DescentOK(S)' /\ DepthOK(S)'
    BY <1>5, <1>6 DEF FramesOK, MainOK, MainLabel, BelowOK, DescentOK, DepthOK
  <1>8. LinksOK(S)'
    BY <1>3, <1>5, <1>6 DEF LinksOK, After, mem
  <1>9. StopOK'
    BY <1>3 DEF StopOK, NoFalseAlarm, GuardedReturn, Capacity
  <1> QED
    BY <1>7, <1>8, <1>9 DEF IInv, S

LEMMA CallStep ==
  ASSUME IInv, Call(MainThread)
  PROVE  IInv'
  <1>1. At(MainThread, "body")
    BY DEF Call
  <1>2. S # << >> /\ TopFrame.pc = "body" /\ status = "running" /\ Depth \in Nat \ {0}
    BY <1>1, AtFacts
  <1>3. S[1].pc = "body"
    BY <1>2 DEF IInv, BelowOK, S, Depth, TopFrame
  <1> QED
    BY <1>2, <1>3, PushStep DEF Call

(* A handler interrupts any instruction, but not in a program whose stores *)
(* go astray.                                                              *)
LEMMA SignalStep ==
  ASSUME IInv, Disciplined, Signal(MainThread)
  PROVE  IInv'
  <1>1. S # << >> /\ S[1].pc = "body" /\ status = "running" /\ "overwrite" \notin Env
    BY DEF Signal, MainRunning, S, Disciplined
  <1> QED
    BY <1>1, PushStep DEF Signal

LEMMA ExitStep ==
  ASSUME IInv, Exit(MainThread) \/ MainReturn(MainThread)
  PROVE  IInv'
  <1>1. PICK why \in {"exited", "hijacked"} :
          Halt(MainThread, why) /\ (why = "hijacked" => TopFrame.fn = "main")
    BY DEF Exit, MainReturn, Top, TopFrame, S, Depth
  <1> QED
    BY <1>1, HaltStep DEF Outcomes

LEMMA InvStep ==
  ASSUME Disciplined, IInv, [Next]_vars
  PROVE  IInv'
  <1>1. TypeOK /\ TypeOK'
    BY TypeStep DEF IInv
  <1>2. CASE StartMain
    BY <1>1, <1>2, StartMainStep
  <1>3. ASSUME NEW t \in Threads, Program(t)
        PROVE  IInv'
    <2>1. t = MainThread /\ "constructor" \notin Env /\ "longjmp" \notin Env
      BY DEF Disciplined
    <2> QED
      BY <1>1, <1>3, <2>1, CallStep, SignalStep, OverwriteStep, ExitStep
      DEF Program, StartRoutine, Longjmp
  <1>4. ASSUME NEW t \in Threads, Instrumentation(t)
        PROVE  IInv'
    <2>1. t = MainThread
      BY DEF Disciplined
    <2> QED
      BY <1>1, <1>4, <2>1, MapShadowStep, SetBaseStep, LoadForPushStep,
         DecrementStep, ReloadForPushStep, StoreRetAddrStep, LoadForCheckStep,
         CompareStep, LoadForPopStep, IncrementStep, RetStep
      DEF Instrumentation
  <1>5. CASE UNCHANGED vars
    <2>1. UNCHANGED <<sp, bound, shadow, stack, status, by>>
      BY <1>5 DEF vars, mem
    <2>2. FramesOK(S)' = FramesOK(S)
      BY <2>1 DEF FramesOK, MainOK, FunOK, Recording, S
    <2>3. BelowOK(S)' = BelowOK(S) /\ DepthOK(S)' = DepthOK(S)
      BY <2>1 DEF BelowOK, DepthOK, S
    <2>4. LinksOK(S)' = LinksOK(S) /\ DescentOK(S)' = DescentOK(S)
      BY <2>1 DEF LinksOK, DescentOK, After, S
    <2>5. StopOK' = StopOK
      BY <2>1 DEF StopOK, NoFalseAlarm, GuardedReturn, Capacity, Top
    <2> QED
      BY <1>1, <2>2, <2>3, <2>4, <2>5 DEF IInv, S
  <1> QED
    BY <1>2, <1>3, <1>4, <1>5 DEF Next, Done

LEMMA InvInit == Init => IInv
  <1> SUFFICES ASSUME Init PROVE IInv
    OBVIOUS
  <1>1. stack[MainThread] = << >> /\ status = "running"
    BY ConstantsAssumption DEF Init
  <1> QED
    BY <1>1, TypeInit
    DEF Init, IInv, FramesOK, BelowOK, LinksOK, DescentOK, DepthOK, StopOK,
        NoFalseAlarm, GuardedReturn, Capacity

(* The invariant behind the results below.  It is stronger than each of    *)
(* them: that the word a function compares with is the one it pushed needs *)
(* every frame to hand the pointer back as it found it, whatever ran above.*)
THEOREM Invariance == Disciplined => (Spec => []IInv)
  <1> SUFFICES ASSUME Disciplined PROVE Spec => []IInv
    OBVIOUS
  <1>1. IInv /\ [Next]_vars => IInv'
    BY InvStep
  <1> QED
    BY <1>1, InvInit, PTL DEF Spec

(* A single-threaded program with no instrumented code before main and no  *)
(* longjmp is stopped by the guard only when a return address was replaced;*)
(* handlers may run between any two instructions.                          *)
THEOREM AlarmsAreTrue == Disciplined => (Spec => []NoFalseAlarm)
  BY Invariance, PTL DEF IInv, StopOK

(* In such a program no function but main returns to a replaced address.   *)
THEOREM ReturnsAreGuarded == Disciplined => (Spec => []GuardedReturn)
  BY Invariance, PTL DEF IInv, StopOK

(* The mapping is never left before the native stack holds a frame for     *)
(* every Stride words of it.                                               *)
THEOREM CapacityIsUsed == Disciplined => (Spec => []Capacity)
  BY Invariance, PTL DEF IInv, StopOK

(* The word a running function's prologue pushed stays in the mapping and  *)
(* keeps the address it was given, however deep the calls above it go.     *)
THEOREM AddressesStayRecorded == Disciplined => (Spec => []Recorded)
  <1> SUFFICES ASSUME Disciplined PROVE Spec => []Recorded
    OBVIOUS
  <1>1. IInv => Recorded
    <2> SUFFICES ASSUME IInv, NEW t \in Threads, NEW i \in 1 .. Len(stack[t]),
                        Recording(stack[t][i])
                 PROVE  /\ InBounds(Pushed(stack[t][i].entry))
                        /\ shadow[Pushed(stack[t][i].entry).off] = stack[t][i].orig
      BY DEF Recorded
    <2>1. t = MainThread
      BY DEF Disciplined
    <2>2. stack[t][i].fn = "fun" /\ FunOK(stack[t][i])
      BY <2>1 DEF IInv, FramesOK, Recording
    <2> QED
      BY <2>2 DEF FunOK
  <1> QED
    BY <1>1, Invariance, PTL

-----------------------------------------------------------------------------
(* The frames above main's are guarded calls.                              *)

AbstractCall == [ra : Addr, orig : Addr]

CallsOK ==
  /\ S \in Seq(Frame) /\ Depth \in Nat
  /\ Depth = 0 => Calls = << >>
  /\ Depth > 0 =>
       /\ Calls \in Seq(AbstractCall) /\ Len(Calls) = Depth - 1
       /\ \A i \in 1 .. Depth - 1 : Calls[i] = [ra |-> S[i + 1].ra, orig |-> S[i + 1].orig]

LEMMA FunctionIsSeq ==
  ASSUME NEW n \in Nat, NEW R, NEW f \in [1 .. n -> R]
  PROVE  f \in Seq(R) /\ Len(f) = n
<1>1. f \in Seq(R)
  BY SeqDef
<1> QED
  BY <1>1, LenProperties

LEMMA CallsAre == TypeOK => CallsOK
<1> SUFFICES ASSUME TypeOK PROVE CallsOK
  OBVIOUS
<1>1. S \in Seq(Frame) /\ Depth \in Nat /\ \A i \in 1 .. Depth : S[i] \in Frame
  BY StackType
<1>2. Calls = [i \in 1 .. (Depth - 1) |-> [ra |-> S[i + 1].ra, orig |-> S[i + 1].orig]]
  BY DEF Calls, S, Depth
<1>3. CASE Depth = 0
  <2>1. 1 .. (Depth - 1) = {}
    BY <1>3
  <2> QED
    BY <1>1, <1>2, <1>3, <2>1 DEF CallsOK
<1>4. CASE Depth > 0
  <2>1. Depth - 1 \in Nat /\ \A i \in 1 .. (Depth - 1) : i + 1 \in 1 .. Depth
    BY <1>1, <1>4
  <2>2. \A i \in 1 .. (Depth - 1) :
          [ra |-> S[i + 1].ra, orig |-> S[i + 1].orig] \in AbstractCall
    BY <1>1, <2>1 DEF AbstractCall, Frame
  <2>3. Calls \in [1 .. (Depth - 1) -> AbstractCall]
    BY <1>2, <2>2
  <2>4. Calls \in Seq(AbstractCall) /\ Len(Calls) = Depth - 1
    BY <2>1, <2>3, FunctionIsSeq
  <2> QED
    BY <1>1, <1>2, <1>4, <2>4 DEF CallsOK
<1> QED
  BY <1>1, <1>3, <1>4

LEMMA CallsWillBe == TypeOK' => CallsOK'
  BY CallsAre, PTL

(* The running frame's code leaves the calls as they are.                  *)
LEMMA QuietTop ==
  ASSUME IInv, NEW label, At(MainThread, label), NEW g, SetTop(MainThread, g),
         g.ra = TopFrame.ra, g.orig = TopFrame.orig, Continue
  PROVE  UNCHANGED <<Calls, Verdict>>
<1>1. S \in Seq(Frame) /\ Depth \in Nat \ {0} /\ status = "running" /\ TypeOK
  BY AtFacts, StackType
<1>2. S' = [S EXCEPT ![Depth] = g]
  BY <1>1, ConstantsAssumption DEF SetTop, Put, TypeOK, S, Depth
<1>3. /\ Len(S') = Depth
      /\ \A i \in 1 .. Depth : S'[i].ra = S[i].ra /\ S'[i].orig = S[i].orig
  BY <1>1, <1>2 DEF S, Depth, TopFrame
<1>4. \A i \in 1 .. (Depth - 1) : i + 1 \in 1 .. Depth
  BY <1>1
<1>5. Calls = [i \in 1 .. (Depth - 1) |-> [ra |-> S[i + 1].ra, orig |-> S[i + 1].orig]]
  BY DEF Calls, S, Depth
<1>6. Calls' = [i \in 1 .. (Depth - 1) |-> [ra |-> S'[i + 1].ra, orig |-> S'[i + 1].orig]]
  BY <1>3 DEF Calls, S, Depth
<1>7. Calls' = Calls
  BY <1>3, <1>4, <1>5, <1>6
<1> QED
  BY <1>1, <1>7 DEF Continue, Verdict

LEMMA QuietGoto ==
  ASSUME IInv, NEW label, At(MainThread, label), NEW l, NEW r,
         GotoWith(MainThread, l, r), Continue
  PROVE  UNCHANGED <<Calls, Verdict>>
<1> DEFINE g == [TopFrame EXCEPT !.pc = l, !.reg = r]
<1>1. g.ra = TopFrame.ra /\ g.orig = TopFrame.orig /\ SetTop(MainThread, g)
  BY AtFacts DEF GotoWith, Frame
<1> QED
  BY <1>1, QuietTop

LEMMA QuietLoad ==
  ASSUME IInv, NEW label, At(MainThread, label), NEW l, NEW r, NEW a,
         SetTop(MainThread, [Top(MainThread) EXCEPT !.pc = l, !.reg = r, !.got = a]), Continue
  PROVE  UNCHANGED <<Calls, Verdict>>
<1> DEFINE g == [TopFrame EXCEPT !.pc = l, !.reg = r, !.got = a]
<1>1. g.ra = TopFrame.ra /\ g.orig = TopFrame.orig /\ SetTop(MainThread, g)
  BY AtFacts DEF Frame
<1> QED
  BY <1>1, QuietTop

(* A call or a handler enters with its address intact.                     *)
LEMMA PushEnters ==
  ASSUME IInv, TypeOK', status = "running", S # << >>, NEW a \in Addr,
         Push(MainThread, NewFrame("fun", "enter", a))
  PROVE  Guard!Enter
<1> DEFINE new == [ra |-> a, orig |-> a]
           longer == Append(Calls, new)
<1>0. PICK f \in Frame : f = NewFrame("fun", "enter", a)
  BY NewFrameType DEF IInv
<1>1. CallsOK /\ CallsOK' /\ Depth > 0
  BY CallsAre, CallsWillBe, StackType DEF IInv
<1>2. S \in Seq(Frame) /\ Depth \in Nat
  BY <1>1 DEF CallsOK
<1>3. S' = Append(S, f) /\ status' = status /\ by' = by
  BY <1>0, ConstantsAssumption DEF Push, S, IInv, TypeOK
<1>4. /\ Depth' = Depth + 1 /\ S'[Depth + 1] = f
      /\ \A i \in 1 .. Depth : S'[i] = S[i]
  BY <1>2, <1>3, AppendFrame DEF Depth
<1>5. f.ra = a /\ f.orig = a
  BY <1>0 DEF NewFrame
<1>6. /\ Calls \in Seq(AbstractCall) /\ Len(Calls) = Depth - 1
      /\ Calls' \in Seq(AbstractCall) /\ Len(Calls') = Depth
      /\ \A i \in 1 .. Depth - 1 : Calls[i] = [ra |-> S[i + 1].ra, orig |-> S[i + 1].orig]
      /\ \A i \in 1 .. Depth : Calls'[i] = [ra |-> S'[i + 1].ra, orig |-> S'[i + 1].orig]
  <2>1. Depth' > 0 /\ Depth' - 1 = Depth
    BY <1>1, <1>2, <1>4
  <2> QED
    BY <1>1, <2>1 DEF CallsOK
<1>7. new \in AbstractCall
  BY DEF AbstractCall
<1> HIDE DEF new
<1>8. /\ longer \in Seq(AbstractCall) /\ Len(longer) = Depth /\ longer[Depth] = new
      /\ \A i \in 1 .. Depth - 1 : longer[i] = Calls[i]
  BY <1>1, <1>2, <1>6, <1>7
<1>9. ASSUME NEW i \in 1 .. Depth PROVE Calls'[i] = longer[i]
  <2>1. CASE i = Depth
    BY <1>2, <1>4, <1>5, <1>6, <1>8, <2>1 DEF new
  <2>2. CASE i # Depth
    <3>1. i \in 1 .. Depth - 1 /\ i + 1 \in 1 .. Depth
      BY <1>2, <2>2
    <3> QED
      BY <1>4, <1>6, <1>8, <3>1
  <2> QED
    BY <2>1, <2>2
<1> HIDE DEF longer
<1>10. Calls' = longer
  BY <1>6, <1>8, <1>9, SeqEqual
<1>11. Verdict = "running" /\ Verdict' = "running"
  BY <1>3 DEF Verdict
<1> QED
  BY <1>10, <1>11 DEF Guard!Enter, Guard!Running, longer, new
(* A stray store tampers with the calls.                                   *)
LEMMA OverwriteTampers ==
  ASSUME IInv, TypeOK', Overwrite(MainThread)
  PROVE  Guard!Tamper
<1> DEFINE as == [i \in 1 .. Depth - 1 |-> Calls'[i].ra]
<1>1. PICK k \in 1 .. Depth, a \in Addr : S' = [S EXCEPT ![k].ra = a]
  BY StackType, ConstantsAssumption DEF IInv, TypeOK, Overwrite, S, Depth
<1>2. CallsOK /\ CallsOK' /\ Depth > 0 /\ S \in Seq(Frame) /\ Depth \in Nat
      /\ \A i \in 1 .. Depth : S[i] \in Frame
  BY AtFacts, CallsAre, CallsWillBe, StackType DEF IInv, Overwrite
<1>3. /\ Depth' = Depth
      /\ \A i \in 1 .. Depth : S'[i].orig = S[i].orig
  <2>1. S' = [S EXCEPT ![k] = [S[k] EXCEPT !.ra = a]]
    BY <1>1
  <2>2. [S[k] EXCEPT !.ra = a].orig = S[k].orig
    BY <1>2 DEF Frame
  <2> QED
    BY <1>2, <2>1, <2>2 DEF Depth
<1>4. /\ Calls \in Seq(AbstractCall) /\ Len(Calls) = Depth - 1
      /\ Calls' \in Seq(AbstractCall) /\ Len(Calls') = Depth - 1
      /\ \A i \in 1 .. Depth - 1 : Calls[i] = [ra |-> S[i + 1].ra, orig |-> S[i + 1].orig]
      /\ \A i \in 1 .. Depth - 1 : Calls'[i] = [ra |-> S'[i + 1].ra, orig |-> S'[i + 1].orig]
  <2>1. Depth' > 0 /\ Depth' - 1 = Depth - 1
    BY <1>2, <1>3
  <2> QED
    BY <1>2, <2>1 DEF CallsOK
<1>5. as \in [1 .. Len(Calls) -> Addr]
  <2>1. \A i \in 1 .. Depth - 1 : Calls'[i] \in AbstractCall
    BY <1>4, ElementOfSeq
  <2> QED
    BY <1>4, <2>1 DEF AbstractCall
<1>6. ASSUME NEW i \in 1 .. Depth - 1 PROVE Calls'[i] = [Calls[i] EXCEPT !.ra = as[i]]
  <2>1. i + 1 \in 1 .. Depth
    BY <1>2
  <2> QED
    BY <1>3, <1>4, <2>1
<1>7. Calls' = [i \in 1 .. Len(Calls) |-> Calls'[i]]
  BY <1>4
<1> HIDE DEF as
<1>8. Calls' = [i \in 1 .. Len(Calls) |-> [Calls[i] EXCEPT !.ra = as[i]]]
  BY <1>4, <1>6, <1>7, Zenon
<1>9. Verdict = "running" /\ Verdict' = "running"
  BY DEF Overwrite, At, Continue, Verdict
<1> QED
  BY <1>5, <1>8, <1>9 DEF Guard!Tamper, Guard!Running

(* A function that returns does so to its caller, and its call is gone.    *)
LEMMA RetLeaves ==
  ASSUME IInv, TypeOK', Ret(MainThread)
  PROVE  Guard!Leave
<1> DEFINE cut == SubSeq(Calls, 1, Len(Calls) - 1)
<1>1. /\ At(MainThread, "ret") /\ status = "running" /\ Top(MainThread) = TopFrame
      /\ Depth > 1 /\ TopFrame.ra = TopFrame.orig /\ TypeOK /\ S # << >>
  BY AtFacts, AtFun DEF Ret, FunLabel, FunOK
<1>2. S' = Dropped(S) /\ status' = "running"
  BY <1>1, ConstantsAssumption DEF Ret, Continue, TypeOK, S
<1>3. CallsOK /\ CallsOK' /\ S \in Seq(Frame) /\ Depth \in Nat
  BY <1>1, CallsAre, CallsWillBe, StackType
<1>4. Depth' = Depth - 1 /\ \A i \in 1 .. Depth - 1 : S'[i] = S[i]
  BY <1>1, <1>2, <1>3, DroppedProperties DEF Depth
<1>5. /\ Calls \in Seq(AbstractCall) /\ Len(Calls) = Depth - 1
      /\ Calls' \in Seq(AbstractCall) /\ Len(Calls') = Depth - 2
      /\ \A i \in 1 .. Depth - 1 : Calls[i] = [ra |-> S[i + 1].ra, orig |-> S[i + 1].orig]
      /\ \A i \in 1 .. Depth - 2 : Calls'[i] = [ra |-> S'[i + 1].ra, orig |-> S'[i + 1].orig]
  <2>1. Depth > 0 /\ Depth' > 0 /\ Depth' - 1 = Depth - 2
    BY <1>1, <1>3, <1>4
  <2>2. /\ Calls \in Seq(AbstractCall) /\ Len(Calls) = Depth - 1
        /\ \A i \in 1 .. Depth - 1 : Calls[i] = [ra |-> S[i + 1].ra, orig |-> S[i + 1].orig]
    BY <1>3, <2>1 DEF CallsOK
  <2>3. /\ Calls' \in Seq(AbstractCall) /\ Len(Calls') = Depth' - 1
        /\ \A i \in 1 .. Depth' - 1 : Calls'[i] = [ra |-> S'[i + 1].ra, orig |-> S'[i + 1].orig]
    BY <1>3, <2>1 DEF CallsOK
  <2> QED
    BY <2>1, <2>2, <2>3
<1>6. /\ cut \in Seq(AbstractCall) /\ Len(cut) = Depth - 2
      /\ \A i \in 1 .. Depth - 2 : cut[i] = Calls[i]
  <2>1. PICK n \in Nat : n = Depth - 2
    BY <1>1, <1>3
  <2>2. n = Len(Calls) - 1 /\ \A i \in 1 .. n : Calls[i] \in AbstractCall
    BY <1>5, <2>1, ElementOfSeq, <1>3
  <2>3. /\ SubSeq(Calls, 1, n) \in Seq(AbstractCall)
        /\ Len(SubSeq(Calls, 1, n)) = n
        /\ \A i \in 1 .. n : SubSeq(Calls, 1, n)[i] = Calls[i]
    BY <1>5, <2>2, SubSeqProperties
  <2> QED
    BY <2>1, <2>2, <2>3
<1> HIDE DEF cut
<1>7. \A i \in 1 .. Depth - 2 : Calls'[i] = cut[i]
  <2>1. \A i \in 1 .. Depth - 2 : i \in 1 .. Depth - 1 /\ i + 1 \in 1 .. Depth - 1
    BY <1>3
  <2> QED
    BY <1>4, <1>5, <1>6, <2>1, ZenonT(40)
<1>8. Calls' = cut
  BY <1>5, <1>6, <1>7, SeqEqual
<1>9. Calls # << >> /\ Calls[Len(Calls)] = [ra |-> TopFrame.ra, orig |-> TopFrame.orig]
  <2>1. Depth - 1 \in 1 .. Depth - 1 /\ Depth - 1 + 1 = Depth /\ Depth - 1 # 0
    BY <1>1, <1>3
  <2> QED
    BY <1>5, <2>1, EmptySeq DEF TopFrame
<1>10. Verdict = "running" /\ Verdict' = "running"
  BY <1>1, <1>2 DEF Verdict
<1> QED
  BY <1>1, <1>8, <1>9, <1>10
  DEF Guard!Leave, Guard!Running, Guard!Last, Guard!Intact, cut

(* The program's own ways to stop, and the mapping's.                      *)
LEMMA HaltStops ==
  ASSUME IInv, status = "running", NEW why \in {"exited", "oob", "fault", "hijacked"},
         Halt(MainThread, why), why = "hijacked" => TopFrame.fn = "main"
  PROVE  Guard!Stop
<1>1. status' = why /\ Calls' = Calls /\ Top(by)' = TopFrame
  BY DEF Halt, Calls, Top, TopFrame, S, Depth
<1>2. Verdict = "running" /\ Verdict' = "stopped"
  BY <1>1 DEF Verdict
<1> QED
  BY <1>1, <1>2 DEF Guard!Stop, Guard!Running

(* The guard stops the process where the running call was tampered with.   *)
LEMMA CompareGuards ==
  ASSUME IInv, TypeOK', Compare(MainThread)
  PROVE  Guard!Alarm \/ UNCHANGED <<Calls, Verdict>>
<1>1. At(MainThread, "cmp")
  BY DEF Compare
<1>2. /\ Depth > 1 /\ Depth \in Nat /\ InBounds(TopFrame.reg)
      /\ shadow[TopFrame.reg.off] = TopFrame.orig /\ TopFrame.got = TopFrame.ra
      /\ Top(MainThread) = TopFrame /\ status = "running" /\ TypeOK
  BY <1>1, AtFun, AtFacts DEF FunLabel, FunOK, Recording
<1>3. CASE GotoWith(MainThread, "pop", Null) /\ Continue
  BY <1>1, <1>3, QuietGoto
<1>4. CASE Halt(MainThread, "alarm") /\ TopFrame.ra # TopFrame.orig
  <2>1. status' = "alarm" /\ Calls' = Calls /\ Verdict' = "alarm" /\ Verdict = "running"
    BY <1>2, <1>4 DEF Halt, Calls, Verdict
  <2>2. CallsOK
    BY <1>2, CallsAre
  <2>3. Depth - 1 \in 1 .. Depth - 1 /\ Depth - 1 + 1 = Depth /\ Depth - 1 # 0 /\ Depth > 0
    BY <1>2
  <2>4. Calls # << >> /\ Calls[Len(Calls)] = [ra |-> TopFrame.ra, orig |-> TopFrame.orig]
    BY <2>2, <2>3, EmptySeq DEF CallsOK, TopFrame
  <2> QED
    BY <1>4, <2>1, <2>4 DEF Guard!Alarm, Guard!Running, Guard!Last, Guard!Intact
<1> QED
  BY <1>2, <1>3, <1>4 DEF Compare

LEMMA StoreRetAddrQuiet ==
  ASSUME IInv, StoreRetAddr(MainThread)
  PROVE  Guard!Stop \/ UNCHANGED <<Calls, Verdict>>
<1>1. At(MainThread, "push") /\ status = "running"
  BY AtFacts DEF StoreRetAddr
<1>2. CASE GotoWith(MainThread, "body", Null) /\ Continue
  BY <1>1, <1>2, QuietGoto
<1>3. CASE \E why \in {"oob", "fault"} : Halt(MainThread, why)
  BY <1>1, <1>3, HaltStops
<1> QED
  BY <1>2, <1>3 DEF StoreRetAddr

(* Each step of a disciplined process is one of guarded calls, or leaves   *)
(* the calls as they are.                                                  *)
LEMMA Simulation ==
  ASSUME Disciplined, IInv, [Next]_vars
  PROVE  [Guard!Next]_(Guard!vars)
<1> SUFFICES Guard!Next \/ UNCHANGED <<Calls, Verdict>>
  BY DEF Guard!vars
<1>0. TypeOK /\ TypeOK'
  BY TypeStep DEF IInv
<1>1. CASE StartMain
  <2>1. PICK a \in Addr : Push(MainThread, NewFrame("main", "mmap", a))
    BY <1>1 DEF StartMain
  <2>2. S = << >> /\ status = "running" /\ status' = "running"
        /\ S' = Append(S, NewFrame("main", "mmap", a))
    BY <1>0, <1>1, <2>1, ConstantsAssumption DEF StartMain, Push, S, TypeOK
  <2>3. Depth = 0 /\ Depth' = 1
    BY <2>2 DEF Depth
  <2>4. Calls = << >> /\ Calls' = << >>
    <3>1. CallsOK /\ CallsOK'
      BY <1>0, CallsAre, CallsWillBe
    <3>2. Depth' > 0 /\ Depth' - 1 = 0
      BY <2>3
    <3> QED
      BY <2>3, <3>1, <3>2, EmptySeq DEF CallsOK
  <2> QED
    BY <2>2, <2>4 DEF Verdict
<1>2. ASSUME NEW t \in Threads, Program(t)
      PROVE  Guard!Next
  <2>1. t = MainThread /\ "constructor" \notin Env /\ "longjmp" \notin Env
    BY DEF Disciplined
  <2>2. CASE Call(t) \/ Signal(t)
    <3>1. PICK a \in Addr : Push(MainThread, NewFrame("fun", "enter", a))
      BY <2>1, <2>2 DEF Call, Signal
    <3>2. status = "running" /\ S # << >>
      BY <2>1, <2>2 DEF Call, Signal, At, S
    <3> QED
      BY <1>0, <3>1, <3>2, PushEnters DEF Guard!Next
  <2>3. CASE Overwrite(t)
    BY <1>0, <2>1, <2>3, OverwriteTampers DEF Guard!Next
  <2>4. CASE Exit(t) \/ MainReturn(t)
    <3>1. PICK why \in {"exited", "hijacked"} :
            Halt(MainThread, why) /\ (why = "hijacked" => TopFrame.fn = "main")
      BY <2>1, <2>4 DEF Exit, MainReturn, Top, TopFrame, S, Depth
    <3>2. status = "running"
      BY <2>4 DEF Exit, MainReturn, At
    <3> QED
      BY <3>1, <3>2, HaltStops DEF Guard!Next
  <2> QED
    BY <1>2, <2>1, <2>2, <2>3, <2>4 DEF Program, StartRoutine, Longjmp
<1>3. ASSUME NEW t \in Threads, Instrumentation(t)
      PROVE  Guard!Next \/ UNCHANGED <<Calls, Verdict>>
  <2>1. t = MainThread
    BY DEF Disciplined
  <2>2. CASE MapShadow(t) \/ SetBase(t) \/ Decrement(t) \/ ReloadForPush(t)
             \/ LoadForPop(t) \/ Increment(t)
    BY <2>1, <2>2, QuietGoto
    DEF MapShadow, SetBase, Decrement, ReloadForPush, LoadForPop, Increment
  <2>3. CASE LoadForPush(t) \/ LoadForCheck(t)
    BY <2>1, <2>3, QuietLoad DEF LoadForPush, LoadForCheck
  <2>4. CASE StoreRetAddr(t)
    BY <2>1, <2>4, StoreRetAddrQuiet DEF Guard!Next
  <2>5. CASE Compare(t)
    BY <1>0, <2>1, <2>5, CompareGuards DEF Guard!Next
  <2>6. CASE Ret(t)
    BY <1>0, <2>1, <2>6, RetLeaves DEF Guard!Next
  <2> QED
    BY <1>3, <2>2, <2>3, <2>4, <2>5, <2>6 DEF Instrumentation
<1>4. CASE UNCHANGED vars
  BY <1>4 DEF vars, Calls, Verdict, Top
<1> QED
  BY <1>1, <1>2, <1>3, <1>4 DEF Next, Done

LEMMA StartsEmpty == Init => Guard!Init
<1> SUFFICES ASSUME Init PROVE Guard!Init
  OBVIOUS
<1>1. S = << >> /\ Depth = 0 /\ Verdict = "running"
  BY ConstantsAssumption DEF Init, S, Depth, Verdict
<1>2. Calls = << >>
  BY <1>1, TypeInit, CallsAre DEF CallsOK
<1> QED
  BY <1>1, <1>2 DEF Guard!Init

(* A disciplined process implements guarded calls: the ones whose return   *)
(* address is intact return unhindered, and the others never return.       *)
THEOREM CallsAreGuarded == Disciplined => (Spec => GuardsCalls)
<1> SUFFICES ASSUME Disciplined PROVE Spec => GuardsCalls
  OBVIOUS
<1>1. IInv /\ [Next]_vars => [Guard!Next]_(Guard!vars)
  BY Simulation
<1> QED
  BY <1>1, StartsEmpty, Invariance, PTL DEF Spec, GuardsCalls, Guard!Spec
-----------------------------------------------------------------------------
(* Faults, in any process.                                                 *)

(* Once main runs, or wherever a function does, the pointer is set.        *)
LEMMA SetByThen ==
  ASSUME MappedInv, NEW t \in Threads, stack[t] # << >>, Top(t).pc \notin {"mmap", "base"}
  PROVE  ~Starting /\ (t = MainThread \/ MainRunning)
<1>0. (\E u \in Threads \ {MainThread} : stack[u] # << >>) => MainRunning
  BY Zenon DEF MappedInv
<1>1. t # MainThread => MainRunning
  BY <1>0
<1>2. SUFFICES ASSUME Starting PROVE FALSE
  BY <1>1
<1>3. t = MainThread /\ Len(stack[t]) = 1
  BY <1>2 DEF MappedInv
<1> QED
  BY <1>2, <1>3 DEF Starting, Top

LEMMA MainIsUp ==
  ASSUME MappedInv, MainRunning
  PROVE  ~Starting
<1>1. SUFFICES ASSUME Starting PROVE FALSE
  OBVIOUS
<1>2. Len(stack[MainThread]) = 1
  BY <1>1 DEF MappedInv
<1> QED
  BY <1>1, <1>2 DEF Starting, MainRunning

(* A step that moves the pointer within the mapping, or within none, and   *)
(* that leaves a thread's frames as they were, or has them in order.       *)
FrameKept(f, g) == f.fn = g.fn /\ f.pc = g.pc /\ f.reg = g.reg
LEMMA MappedStep ==
  ASSUME MappedInv, TypeOK', ~Starting, bound' = bound, sp'.page = sp.page,
         status' = "fault" => bound = Null,
         NEW t \in Threads, \A u \in Threads \ {t} : stack'[u] = stack[u],
         \A i \in 1 .. Len(stack'[t]) :
           \/ i \in 1 .. Len(stack[t]) /\ FrameKept(stack'[t][i], stack[t][i])
           \/ stack'[t][i].fn = "fun" /\ FrameMapped(stack'[t][i], bound),
         t = MainThread \/ MainRunning,
         t = MainThread /\ MainRunning => MainRunning'
  PROVE  MappedInv'
<1>1. MainRunning => MainRunning'
  BY ConstantsAssumption DEF MainRunning
<1>2. ASSUME NEW u \in Threads, NEW i \in 1 .. Len(stack'[u])
      PROVE  /\ FrameMapped(stack'[u][i], bound)
             /\ stack'[u][i].fn = "main" => u = MainThread /\ i = 1
             /\ u = MainThread => stack'[u][i].pc \notin {"mmap", "base"}
  <2>1. CASE i \in 1 .. Len(stack[u]) /\ FrameKept(stack'[u][i], stack[u][i])
    <3>1. /\ FrameMapped(stack[u][i], bound)
          /\ stack[u][i].fn = "main" => u = MainThread /\ i = 1
      BY <2>1 DEF MappedInv
    <3>2. u = MainThread => stack[u][i].pc \notin {"mmap", "base"}
      BY <2>1 DEF Starting
    <3> QED
      BY <2>1, <3>1, <3>2 DEF FrameKept, FrameMapped
  <2>2. CASE stack'[u][i].fn = "fun" /\ FrameMapped(stack'[u][i], bound)
    BY <2>2 DEF FrameMapped, FunLabel
  <2>3. u # t => i \in 1 .. Len(stack[u]) /\ FrameKept(stack'[u][i], stack[u][i])
    BY DEF FrameKept
  <2> QED
    BY <2>1, <2>2, <2>3
<1>3. ~Starting'
  BY <1>2, ConstantsAssumption DEF Starting
<1>4. (\E u \in Threads \ {MainThread} : stack'[u] # << >>) => MainRunning'
  BY <1>1 DEF MappedInv
<1>5. Starting \/ sp.page = bound.page
  BY DEF MappedInv
<1>6. status' = "fault" => bound' = Null
  OBVIOUS
<1>7. (\A u \in Threads : \A i \in 1 .. Len(stack[u]) :
         /\ FrameMapped(stack[u][i], bound)
         /\ stack[u][i].fn = "main" => u = MainThread /\ i = 1)'
  BY <1>2
<1>8. (Starting \/ sp.page = bound.page)'
  BY <1>5
<1> QED
  BY <1>3, <1>4, <1>6, <1>7, <1>8 DEF MappedInv

(* The process stops.                                                      *)
LEMMA MappedHalt ==
  ASSUME MappedInv, TypeOK', NEW t \in Threads, NEW why, Halt(t, why), why = "fault" => bound = Null
  PROVE  MappedInv'
BY DEF Halt, mem, MappedInv, FrameMapped, Starting, MainRunning

(* A function is called, or interrupts another.                            *)
LEMMA MappedPush ==
  ASSUME MappedInv, TypeOK', ~Starting, NEW t \in Threads, t = MainThread \/ MainRunning,
         NEW a \in Addr, Push(t, NewFrame("fun", "enter", a))
  PROVE  MappedInv'
<1> DEFINE f == NewFrame("fun", "enter", a)
<1>1. TypeOK
  BY DEF MappedInv
<1>2. f \in Frame
  BY <1>1, NewFrameType
<1>3. FrameMapped(f, bound) /\ f.fn = "fun"
  BY DEF FrameMapped, NewFrame, FunLabel
<1>4. /\ stack' = [stack EXCEPT ![t] = Append(stack[t], f)] /\ stack[t] \in Seq(Frame)
      /\ bound' = bound /\ sp' = sp /\ status' = status
  BY <1>1 DEF Push, mem, TypeOK
<1> HIDE DEF f
<1>5. stack'[t] = Append(stack[t], f) /\ \A u \in Threads \ {t} : stack'[u] = stack[u]
  BY <1>1, <1>4 DEF TypeOK
<1>6. \A i \in 1 .. Len(stack'[t]) :
         \/ i \in 1 .. Len(stack[t]) /\ FrameKept(stack'[t][i], stack[t][i])
         \/ stack'[t][i].fn = "fun" /\ FrameMapped(stack'[t][i], bound)
  BY <1>2, <1>3, <1>4, <1>5, AppendFrame DEF FrameKept
<1>7. t = MainThread /\ MainRunning => MainRunning'
  BY <1>2, <1>4, <1>5, AppendFrame DEF MainRunning
<1>8. status' = "fault" => bound = Null
  BY <1>4 DEF MappedInv
<1> QED
  BY <1>4, <1>5, <1>6, <1>7, <1>8, MappedStep

(* A function goes on.                                                     *)
LEMMA MappedTop ==
  ASSUME MappedInv, TypeOK', NEW t \in Threads, stack[t] # << >>, Top(t).fn = "fun",
         NEW f \in Frame, SetTop(t, f), f.fn = "fun", FrameMapped(f, bound),
         bound' = bound, sp'.page = sp.page, Continue
  PROVE  MappedInv'
<1>1. TypeOK /\ Top(t).pc \notin {"mmap", "base"} /\ stack[t] \in Seq(Frame)
  <2>1. TypeOK /\ stack[t] \in Seq(Frame)
    BY DEF MappedInv, TypeOK
  <2>2. Len(stack[t]) \in 1 .. Len(stack[t])
    BY <2>1
  <2>3. FrameMapped(Top(t), bound)
    BY <2>2 DEF MappedInv, Top
  <2> QED
    BY <2>1, <2>3 DEF FrameMapped, FunLabel
<1>2. ~Starting /\ (t = MainThread \/ MainRunning)
  BY <1>1, SetByThen
<1>3. stack'[t] = Put(stack[t], f) /\ \A u \in Threads \ {t} : stack'[u] = stack[u]
  BY <1>1 DEF SetTop, TypeOK
<1>9. /\ Len(stack'[t]) = Len(stack[t]) /\ stack'[t][Len(stack[t])] = f
      /\ \A i \in 1 .. Len(stack[t]) : i # Len(stack[t]) => stack'[t][i] = stack[t][i]
      /\ Len(stack[t]) # 0
  <2>1. \A s \in Seq(Frame) : s # << >> => Len(s) # 0
    OBVIOUS
  <2>2. /\ Len(Put(stack[t], f)) = Len(stack[t]) /\ Put(stack[t], f)[Len(stack[t])] = f
        /\ \A i \in 1 .. Len(stack[t]) : i # Len(stack[t]) => Put(stack[t], f)[i] = stack[t][i]
    BY <1>1, PutProperties
  <2>3. stack'[t] = Put(stack[t], f)
    BY <1>3
  <2> QED
    BY <1>1, <2>1, <2>2, <2>3
<1>4. \A i \in 1 .. Len(stack'[t]) :
         \/ i \in 1 .. Len(stack[t]) /\ FrameKept(stack'[t][i], stack[t][i])
         \/ stack'[t][i].fn = "fun" /\ FrameMapped(stack'[t][i], bound)
  BY <1>9 DEF FrameKept
<1>5. t = MainThread /\ MainRunning => MainRunning'
  <2> SUFFICES ASSUME t = MainThread, MainRunning PROVE MainRunning'
    OBVIOUS
  <2>1. Len(stack[t]) # 1 /\ 1 \in 1 .. Len(stack[t])
    BY <1>1 DEF MainRunning, Top
  <2>2. stack'[t][1] = stack[t][1]
    BY <1>9, <2>1
  <2>3. stack'[t] # << >>
    BY <1>9
  <2> QED
    BY <2>2, <2>3 DEF MainRunning
<1>6. status' = "fault" => bound = Null
  BY DEF MappedInv, Continue
<1> QED
  BY <1>2, <1>3, <1>4, <1>5, <1>6, MappedStep

(* Frames are left, the first of them only if it is not main's.            *)
LEMMA MappedCut ==
  ASSUME MappedInv, TypeOK', NEW t \in Threads, stack[t] # << >>,
         Top(t).pc \notin {"mmap", "base"},
         NEW n \in 0 .. Len(stack[t]), n = 0 => stack[t][1].fn = "fun",
         stack' = [stack EXCEPT ![t] = SubSeq(stack[t], 1, n)], UNCHANGED mem, Continue
  PROVE  MappedInv'
<1>1. TypeOK /\ stack[t] \in Seq(Frame)
  BY DEF MappedInv, TypeOK
<1>2. ~Starting /\ (t = MainThread \/ MainRunning)
  BY SetByThen
<1>3. stack'[t] = SubSeq(stack[t], 1, n) /\ \A u \in Threads \ {t} : stack'[u] = stack[u]
  BY <1>1 DEF TypeOK
<1>10. n \in Nat
  BY <1>1
<1>4. Len(stack'[t]) = n /\ \A i \in 1 .. n : i \in 1 .. Len(stack[t]) /\ stack'[t][i] = stack[t][i]
  BY <1>1, <1>3, SubSeqProperties
<1>5. \A i \in 1 .. Len(stack'[t]) :
         \/ i \in 1 .. Len(stack[t]) /\ FrameKept(stack'[t][i], stack[t][i])
         \/ stack'[t][i].fn = "fun" /\ FrameMapped(stack'[t][i], bound)
  BY <1>4 DEF FrameKept
<1>6. t = MainThread /\ MainRunning => MainRunning'
  <2> SUFFICES ASSUME t = MainThread, MainRunning PROVE MainRunning'
    OBVIOUS
  <2>1. n # 0
    BY DEF MainRunning
  <2>2. n >= 1 /\ 1 \in 1 .. n
    BY <1>10, <2>1
  <2>3. stack'[t][1] = stack[t][1]
    BY <1>4, <2>2
  <2>4. stack'[t] # << >>
    BY <1>4, <2>1
  <2> QED
    BY <2>3, <2>4 DEF MainRunning
<1>8. bound' = bound /\ sp' = sp /\ (status' = "fault" => bound = Null)
  BY DEF MappedInv, Continue, mem
<1> QED
  BY <1>2, <1>3, <1>5, <1>6, <1>8, MappedStep

(* A return address is replaced.                                           *)
LEMMA MappedOverwrite ==
  ASSUME MappedInv, TypeOK', NEW t \in Threads, Overwrite(t)
  PROVE  MappedInv'
<1>1. PICK i \in 1 .. Len(stack[t]), a \in Addr :
        stack' = [stack EXCEPT ![t] = [stack[t] EXCEPT ![i].ra = a]]
  BY DEF Overwrite
<1>2. TypeOK /\ stack[t] \in Seq(Frame) /\ stack[t] # << >> /\ Top(t).pc = "body"
  BY DEF MappedInv, TypeOK, Overwrite, At
<1>3. ~Starting /\ (t = MainThread \/ MainRunning)
  BY <1>2, SetByThen
<1>4. /\ stack'[t] = [stack[t] EXCEPT ![i].ra = a]
      /\ \A u \in Threads \ {t} : stack'[u] = stack[u]
  BY <1>1, <1>2 DEF TypeOK
<1>5. /\ Len(stack'[t]) = Len(stack[t])
      /\ \A k \in 1 .. Len(stack[t]) : FrameKept(stack'[t][k], stack[t][k])
  <2>1. \A k \in 1 .. Len(stack[t]) : stack[t][k] \in Frame
    BY <1>2
  <2>2. Len(stack'[t]) = Len(stack[t])
        /\ \A k \in 1 .. Len(stack[t]) :
             stack'[t][k] = IF k = i THEN [stack[t][k] EXCEPT !.ra = a] ELSE stack[t][k]
    BY <1>2, <1>4
  <2> QED
    BY <2>1, <2>2 DEF FrameKept, Frame
<1>6. t = MainThread /\ MainRunning => MainRunning'
  <2> SUFFICES ASSUME t = MainThread, MainRunning PROVE MainRunning'
    OBVIOUS
  <2>1. 1 \in 1 .. Len(stack[t])
    BY <1>2
  <2>2. FrameKept(stack'[t][1], stack[t][1]) /\ stack'[t] # << >>
    BY <1>2, <1>5, <2>1
  <2> QED
    BY <2>2 DEF MainRunning, FrameKept
<1>7. bound' = bound /\ sp' = sp /\ (status' = "fault" => bound = Null)
  BY DEF MappedInv, Overwrite, Continue, mem
<1> QED
  BY <1>3, <1>4, <1>5, <1>6, <1>7, MappedStep

(* The top frame of a thread whose code is the pass's.                     *)
LEMMA MappedFrame ==
  ASSUME MappedInv, NEW t \in Threads, stack[t] # << >>
  PROVE  /\ TypeOK /\ stack[t] \in Seq(Frame) /\ Top(t) \in Frame
         /\ FrameMapped(Top(t), bound)
         /\ Top(t).fn = "main" => t = MainThread /\ Len(stack[t]) = 1
<1>1. TypeOK /\ stack[t] \in Seq(Frame)
  BY DEF MappedInv, TypeOK
<1>2. Len(stack[t]) \in 1 .. Len(stack[t]) /\ Top(t) \in Frame
  BY <1>1 DEF Top
<1> QED
  BY <1>1, <1>2 DEF MappedInv, Top

LEMMA MappedFun ==
  ASSUME MappedInv, NEW t \in Threads, stack[t] # << >>,
         Top(t).fn = "fun" \/ Top(t).pc \in FunLabel \ {"body"}
  PROVE  /\ Top(t) \in Frame /\ Top(t).fn = "fun" /\ Top(t).pc \in FunLabel
         /\ FrameMapped(Top(t), bound)
         /\ sp \in Ptr /\ sp.page = bound.page
<1>1. /\ TypeOK /\ Top(t) \in Frame /\ FrameMapped(Top(t), bound)
  BY MappedFrame
<1>2. Top(t).fn = "fun" /\ Top(t).pc \in FunLabel
  BY <1>1 DEF FrameMapped, Frame, MainLabel, FunLabel
<1>3. ~Starting
  BY <1>2, SetByThen DEF FunLabel
<1>4. (Starting \/ sp.page = bound.page) /\ sp \in Ptr
  BY DEF MappedInv, TypeOK
<1> QED
  BY <1>1, <1>2, <1>3, <1>4

(* While main's prologue runs, or when it starts, main's frame is alone.   *)
LEMMA MappedMain ==
  ASSUME MappedInv, NEW t \in Threads, stack[t] # << >>, Top(t).pc \in {"mmap", "base"}
  PROVE  /\ t = MainThread /\ Len(stack[t]) = 1 /\ Top(t).fn = "main"
         /\ Top(t) \in Frame /\ FrameMapped(Top(t), bound)
         /\ \A u \in Threads \ {MainThread} : stack[u] = << >>
<1>1. /\ TypeOK /\ stack[t] \in Seq(Frame) /\ Top(t) \in Frame
      /\ FrameMapped(Top(t), bound)
      /\ Top(t).fn = "main" => t = MainThread /\ Len(stack[t]) = 1
  BY MappedFrame
<1>2. Top(t).fn = "main"
  BY <1>1 DEF FrameMapped, Frame, FunLabel
<1>3. Starting
  BY <1>1, <1>2 DEF Starting, Top
<1>4. Starting => \A u \in Threads \ {MainThread} : stack[u] = << >>
  BY Zenon DEF MappedInv
<1> QED
  BY <1>1, <1>2, <1>3, <1>4

LEMMA MappedFirst ==
  ASSUME TypeOK', Len(stack'[MainThread]) = 1, stack'[MainThread][1].fn = "main",
         FrameMapped(stack'[MainThread][1], bound'),
         \A u \in Threads \ {MainThread} : stack'[u] = << >>,
         stack'[MainThread][1].pc = "body" => sp'.page = bound'.page,
         status' # "fault"
  PROVE  MappedInv'
<1>1. stack'[MainThread][1].pc \in MainLabel
  BY DEF FrameMapped
<1>2. (Starting \/ sp.page = bound.page)'
  BY <1>1 DEF Starting, MainLabel
<1>3. (\A t \in Threads : \A i \in 1 .. Len(stack[t]) :
         /\ FrameMapped(stack[t][i], bound)
         /\ stack[t][i].fn = "main" => t = MainThread /\ i = 1)'
  <2>1. ASSUME NEW t \in Threads, NEW i \in 1 .. Len(stack'[t])
        PROVE  t = MainThread /\ i = 1
    <3>1. t = MainThread
      BY <2>1
    <3>2. 1 .. Len(stack'[MainThread]) = {1}
      OBVIOUS
    <3>3. i \in 1 .. Len(stack'[MainThread])
      BY <3>1, Zenon
    <3> QED
      BY <3>1, <3>2, <3>3, Zenon
  <2> QED
    BY <2>1
<1>4. (Starting => /\ Len(stack[MainThread]) = 1
                   /\ \A t \in Threads \ {MainThread} : stack[t] = << >>)'
  OBVIOUS
<1>5. ((\E t \in Threads \ {MainThread} : stack[t] # << >>) => MainRunning)'
  OBVIOUS
<1>6. (status = "fault" => bound = Null)'
  OBVIOUS
<1> QED
  BY <1>2, <1>3, <1>4, <1>5, <1>6, Zenon DEF MappedInv

LEMMA MappedPages ==
  /\ \A p \in Ptr : Pushed(p).page = p.page /\ Popped(p).page = p.page
  /\ \A p \in Ptr : Base(p).page = p.page
  /\ Null \in Ptr /\ Mapping \in Ptr /\ Null.page = FALSE /\ Mapping.page = TRUE
BY DEF Ptr, Pushed, Popped, Base, Moved, Null, Mapping

LEMMA MappedStarts ==
  ASSUME MappedInv, TypeOK',
         StartMain \/ \E t \in Threads : MapShadow(t) \/ SetBase(t)
  PROVE  MappedInv'
<1>1. CASE StartMain
  <2>1. PICK a \in Addr : Push(MainThread, NewFrame("main", "mmap", a))
    BY <1>1 DEF StartMain
  <2> DEFINE f == NewFrame("main", "mmap", a)
  <2>2. f \in Frame /\ f.fn = "main" /\ FrameMapped(f, bound) /\ f.pc = "mmap"
    BY NewFrameType DEF MappedInv, NewFrame, FrameMapped, MainLabel
  <2>3. (\E u \in Threads \ {MainThread} : stack[u] # << >>) => MainRunning
    BY Zenon DEF MappedInv
  <2>4. \A u \in Threads \ {MainThread} : stack[u] = << >>
    BY <1>1, <2>3 DEF StartMain, MainRunning
  <2>5. /\ stack' = [stack EXCEPT ![MainThread] = Append(stack[MainThread], f)]
        /\ bound' = bound /\ status' = "running"
    BY <1>1, <2>1 DEF Push, mem, StartMain
  <2> HIDE DEF f
  <2>6. stack'[MainThread] = << f >> /\ \A u \in Threads \ {MainThread} : stack'[u] = << >>
    BY <1>1, <2>4, <2>5, ConstantsAssumption DEF MappedInv, TypeOK, StartMain
  <2>7. Len(stack'[MainThread]) = 1 /\ stack'[MainThread][1] = f
    BY <2>6
  <2> QED
    BY <2>2, <2>5, <2>6, <2>7, MappedFirst
<1>2. ASSUME NEW t \in Threads, MapShadow(t) \/ SetBase(t)
      PROVE  MappedInv'
  <2>1. /\ stack[t] # << >> /\ Top(t).pc \in {"mmap", "base"} /\ status' = "running"
    BY <1>2 DEF MapShadow, SetBase, At, Continue
  <2>2. /\ t = MainThread /\ Len(stack[t]) = 1 /\ Top(t).fn = "main"
        /\ Top(t) \in Frame /\ FrameMapped(Top(t), bound)
        /\ \A u \in Threads \ {MainThread} : stack[u] = << >>
    BY <2>1, MappedMain
  <2>3. TypeOK /\ stack[t] \in Seq(Frame)
    BY DEF MappedInv, TypeOK
  <2>4. ASSUME NEW f, SetTop(t, f)
        PROVE  /\ Len(stack'[MainThread]) = 1 /\ stack'[MainThread][1] = f
               /\ \A u \in Threads \ {MainThread} : stack'[u] = << >>
    <3>1. stack' = [stack EXCEPT ![t] = Put(stack[t], f)] /\ DOMAIN stack = Threads
      BY <2>3, <2>4 DEF SetTop, TypeOK
    <3>2. stack'[t] = Put(stack[t], f) /\ \A u \in Threads \ {MainThread} : stack'[u] = << >>
      BY <2>2, <3>1
    <3>3. Len(Put(stack[t], f)) = 1 /\ Put(stack[t], f)[1] = f
      BY <2>2, <2>3 DEF Put
    <3> QED
      BY <2>2, <3>2, <3>3
  <2>5. CASE MapShadow(t)
    <3> DEFINE f == [Top(t) EXCEPT !.pc = "base", !.reg = bound']
    <3>1. SetTop(t, f)
      BY <2>5 DEF MapShadow, GotoWith
    <3>2. f.fn = "main" /\ f.pc = "base" /\ f.reg = bound'
      BY <2>2 DEF Frame
    <3>3. FrameMapped(f, bound')
      BY <3>2 DEF FrameMapped, MainLabel
    <3> HIDE DEF f
    <3> QED
      BY <2>1, <2>4, <3>1, <3>2, <3>3, MappedFirst
  <2>6. CASE SetBase(t)
    <3> DEFINE f == [Top(t) EXCEPT !.pc = "body", !.reg = Null]
    <3>1. SetTop(t, f) /\ sp' = Base(Top(t).reg) /\ bound' = bound /\ Top(t).pc = "base"
      BY <2>6 DEF SetBase, GotoWith, At
    <3>2. f.fn = "main" /\ f.pc = "body"
      BY <2>2 DEF Frame
    <3>3. FrameMapped(f, bound')
      BY <3>2 DEF FrameMapped, MainLabel
    <3>4. Top(t).reg = bound /\ bound \in Ptr
      BY <2>2, <2>3, <3>1, MappedPages DEF FrameMapped, TypeOK
    <3>5. sp'.page = bound'.page
      BY <3>1, <3>4, MappedPages
    <3> HIDE DEF f
    <3> QED
      BY <2>1, <2>4, <3>1, <3>2, <3>3, <3>5, MappedFirst
  <2> QED
    BY <1>2, <2>5, <2>6
<1> QED
  BY <1>1, <1>2

(* The steps of the pass's code in a function.                             *)
LEMMA MappedCode ==
  ASSUME MappedInv, TypeOK', NEW t \in Threads,
         \/ LoadForPush(t) \/ Decrement(t) \/ ReloadForPush(t) \/ StoreRetAddr(t)
         \/ LoadForCheck(t) \/ Compare(t) \/ LoadForPop(t) \/ Increment(t)
  PROVE  MappedInv'
<1>1. stack[t] # << >> /\ status = "running"
  BY DEF LoadForPush, Decrement, ReloadForPush, StoreRetAddr, LoadForCheck, Compare,
         LoadForPop, Increment, At
<1>2. Top(t).fn = "fun" \/ Top(t).pc \in FunLabel \ {"body"}
  BY DEF LoadForPush, Decrement, ReloadForPush, StoreRetAddr, LoadForCheck, Compare,
         LoadForPop, Increment, At, FunLabel
<1>3. /\ Top(t) \in Frame /\ Top(t).fn = "fun" /\ Top(t).pc \in FunLabel
      /\ FrameMapped(Top(t), bound)
      /\ sp \in Ptr /\ sp.page = bound.page
  BY <1>1, <1>2, MappedFun
<1>4. /\ Top(t).reg \in Ptr /\ bound \in {Null, Mapping} /\ bound.page \in BOOLEAN
      /\ Top(t).ra \in Addr
  BY <1>3, MappedPages DEF MappedInv, TypeOK, Frame
<1>5. Top(t).pc \in {"dec", "push", "cmp", "inc"} => Top(t).reg.page = bound.page
  BY <1>3 DEF FrameMapped
<1>6. Top(t).pc \notin {"enter", "dec", "slot", "push"} => bound.page
  BY <1>3 DEF FrameMapped
<1>7. ASSUME NEW l \in FunLabel, NEW r \in Ptr, GotoWith(t, l, r),
             l \in {"dec", "push", "cmp", "inc"} => r.page = bound.page,
             l \notin {"enter", "dec", "slot", "push"} => bound.page,
             bound' = bound, sp'.page = sp.page, Continue
      PROVE  MappedInv'
  <2> DEFINE f == [Top(t) EXCEPT !.pc = l, !.reg = r]
  <2>1. f \in Frame /\ f.fn = "fun" /\ f.pc = l /\ f.reg = r
    BY <1>3 DEF Frame
  <2>2. SetTop(t, f)
    BY <1>7 DEF GotoWith
  <2>3. FrameMapped(f, bound)
    BY <1>7, <2>1 DEF FrameMapped
  <2> HIDE DEF f
  <2> QED
    BY <1>1, <1>3, <1>7, <2>1, <2>2, <2>3, MappedTop
<1>8. ASSUME NEW l \in FunLabel, SetTop(t, [Top(t) EXCEPT !.pc = l, !.reg = sp, !.got = Top(t).ra]),
             l \notin {"enter", "dec", "slot", "push"} => bound.page,
             UNCHANGED mem, Continue
      PROVE  MappedInv'
  <2> DEFINE f == [Top(t) EXCEPT !.pc = l, !.reg = sp, !.got = Top(t).ra]
  <2>1. f \in Frame /\ f.fn = "fun" /\ f.pc = l /\ f.reg = sp
    BY <1>3, <1>4 DEF Frame
  <2>2. SetTop(t, f)
    BY <1>8
  <2>3. FrameMapped(f, bound)
    BY <1>3, <1>8, <2>1 DEF FrameMapped
  <2>4. bound' = bound /\ sp'.page = sp.page
    BY <1>8 DEF mem
  <2> HIDE DEF f
  <2> QED
    BY <1>1, <1>3, <1>8, <2>1, <2>2, <2>3, <2>4, MappedTop
<1>9. ASSUME NEW why, Halt(t, why), why = "fault" => ~bound.page
      PROVE  MappedInv'
  <2>1. why = "fault" => bound = Null
    BY <1>4, <1>9, MappedPages
  <2> QED
    BY <1>9, <2>1, MappedHalt
<1>10. CASE LoadForPush(t)
  BY <1>8, <1>10 DEF LoadForPush, FunLabel
<1>11. CASE Decrement(t)
  <2>1. /\ sp' = Pushed(Top(t).reg) /\ bound' = bound /\ Continue
        /\ GotoWith(t, "slot", Null) /\ Top(t).pc = "dec"
    BY <1>11 DEF Decrement, At
  <2>2. sp'.page = sp.page
    BY <1>3, <1>4, <1>5, <2>1, MappedPages
  <2> QED
    BY <1>7, <2>1, <2>2, MappedPages DEF FunLabel
<1>12. CASE ReloadForPush(t)
  BY <1>3, <1>7, <1>12 DEF ReloadForPush, FunLabel, mem
<1>13. CASE StoreRetAddr(t)
  <2>1. Top(t).pc = "push" /\ Top(t).reg.page = bound.page
    BY <1>5, <1>13 DEF StoreRetAddr, At
  <2>2. CASE InBounds(Top(t).reg)
    <3>1. bound.page
      BY <2>1, <2>2 DEF InBounds
    <3>2. GotoWith(t, "body", Null) /\ bound' = bound /\ sp' = sp /\ Continue
      BY <1>13, <2>2 DEF StoreRetAddr
    <3> QED
      BY <1>7, <3>1, <3>2, MappedPages DEF FunLabel
  <2>3. CASE ~InBounds(Top(t).reg)
    BY <1>9, <1>13, <2>1, <2>3 DEF StoreRetAddr
  <2> QED
    BY <2>2, <2>3
<1>14. CASE LoadForCheck(t)
  <2>1. Top(t).pc = "body"
    BY <1>14 DEF LoadForCheck, At
  <2> QED
    BY <1>6, <1>8, <1>14, <2>1 DEF LoadForCheck, FunLabel
<1>15. CASE Compare(t)
  <2>1. Top(t).pc = "cmp" /\ Top(t).reg.page = bound.page /\ bound.page
    BY <1>5, <1>6, <1>15 DEF Compare, At
  <2>2. CASE GotoWith(t, "pop", Null) /\ UNCHANGED mem /\ Continue
    BY <1>7, <2>1, <2>2, MappedPages DEF FunLabel, mem
  <2>3. CASE Halt(t, "alarm") \/ Halt(t, "oob")
    BY <1>9, <2>3
  <2>4. ~Halt(t, IF Top(t).reg.page THEN "oob" ELSE "fault") \/ Halt(t, "oob")
    BY <2>1
  <2> QED
    BY <1>15, <2>2, <2>3, <2>4 DEF Compare
<1>16. CASE LoadForPop(t)
  <2>1. Top(t).pc = "pop"
    BY <1>16 DEF LoadForPop, At
  <2> QED
    BY <1>3, <1>6, <1>7, <1>16, <2>1 DEF LoadForPop, FunLabel, mem
<1>17. CASE Increment(t)
  <2>1. /\ sp' = Popped(Top(t).reg) /\ bound' = bound /\ Continue
        /\ GotoWith(t, "ret", Null) /\ Top(t).pc = "inc"
    BY <1>17 DEF Increment, At
  <2>2. sp'.page = sp.page
    BY <1>3, <1>4, <1>5, <2>1, MappedPages
  <2> QED
    BY <1>6, <1>7, <2>1, <2>2, MappedPages DEF FunLabel
<1> QED
  BY <1>10, <1>11, <1>12, <1>13, <1>14, <1>15, <1>16, <1>17

LEMMA MappedProgram ==
  ASSUME MappedInv, TypeOK', NEW t \in Threads, Program(t) \/ Ret(t)
  PROVE  MappedInv'
<1>0. TypeOK
  BY DEF MappedInv
<1>1. CASE StartRoutine(t)
  <2>1. ~Starting /\ (t = MainThread \/ MainRunning)
    <3>1. CASE t = MainThread
      BY <1>1, <3>1 DEF StartRoutine, Starting
    <3>2. CASE t # MainThread
      BY <1>1, <3>2, MainIsUp DEF StartRoutine
    <3> QED
      BY <3>1, <3>2
  <2> QED
    BY <1>1, <2>1, MappedPush DEF StartRoutine
<1>2. CASE Call(t)
  <2>1. stack[t] # << >> /\ Top(t).pc = "body"
    BY <1>2 DEF Call, At
  <2>2. ~Starting /\ (t = MainThread \/ MainRunning)
    BY <2>1, SetByThen
  <2> QED
    BY <1>2, <2>2, MappedPush DEF Call
<1>3. CASE Signal(t)
  <2>1. ~Starting /\ MainRunning
    BY <1>3, MainIsUp DEF Signal
  <2> QED
    BY <1>3, <2>1, MappedPush DEF Signal
<1>4. CASE Overwrite(t)
  BY <1>4, MappedOverwrite
<1>5. CASE Longjmp(t)
  <2>1. stack[t] # << >> /\ Top(t).pc = "body" /\ UNCHANGED mem /\ Continue
    BY <1>5 DEF Longjmp, At
  <2>2. PICK n \in 1 .. (Len(stack[t]) - 1) :
          stack' = [stack EXCEPT ![t] = SubSeq(stack[t], 1, n)]
    BY <1>5 DEF Longjmp
  <2>3. stack[t] \in Seq(Frame)
    BY <1>0 DEF TypeOK
  <2>4. n \in 0 .. Len(stack[t]) /\ n # 0
    BY <2>3
  <2> QED
    BY <2>1, <2>2, <2>4, MappedCut
<1>6. CASE Exit(t)
  BY <1>6, MappedHalt DEF Exit
<1>7. CASE MainReturn(t)
  <2>1. PICK why \in {"exited", "hijacked"} : Halt(t, why)
    BY <1>7 DEF MainReturn
  <2> QED
    BY <2>1, MappedHalt
<1>8. CASE Ret(t)
  <2>1. stack[t] # << >> /\ Top(t).pc = "ret"
    BY <1>8 DEF Ret, At
  <2>2. Top(t).fn = "fun"
    BY <2>1, MappedFun DEF FunLabel
  <2>3. CASE Halt(t, "hijacked")
    BY <2>3, MappedHalt
  <2>4. CASE stack' = [stack EXCEPT ![t] = Dropped(stack[t])] /\ UNCHANGED mem /\ Continue
    <3>1. stack[t] \in Seq(Frame)
      BY <1>0 DEF TypeOK
    <3>0. PICK k \in Nat : k = Len(stack[t]) /\ k # 0
      BY <2>1, <3>1
    <3> DEFINE n == Len(stack[t]) - 1
    <3>2. n \in 0 .. Len(stack[t]) /\ n = Len(stack[t]) - 1
      BY <3>0
    <3> HIDE DEF n
    <3>3. n = 0 => stack[t][1].fn = "fun"
      <4>1. n = 0 => Len(stack[t]) = 1
        BY <3>0, <3>2
      <4> QED
        BY <2>2, <4>1 DEF Top
    <3>4. stack' = [stack EXCEPT ![t] = SubSeq(stack[t], 1, n)]
      BY <2>4, <3>2 DEF Dropped
    <3>5. UNCHANGED mem /\ Continue /\ Top(t).pc \notin {"mmap", "base"} /\ stack[t] # << >>
      BY <2>1, <2>4
    <3> QED
      BY <2>1, <3>2, <3>3, <3>4, <3>5, MappedCut
  <2> QED
    BY <1>8, <2>3, <2>4 DEF Ret
<1> QED
  BY <1>1, <1>2, <1>3, <1>4, <1>5, <1>6, <1>7, <1>8 DEF Program

LEMMA MappedNext ==
  ASSUME MappedInv, [Next]_vars
  PROVE  MappedInv'
<1>1. TypeOK'
  BY TypeStep DEF MappedInv
<1>2. CASE StartMain
  BY <1>1, <1>2, MappedStarts
<1>3. ASSUME NEW t \in Threads, Program(t)
      PROVE  MappedInv'
  BY <1>1, <1>3, MappedProgram
<1>4. ASSUME NEW t \in Threads, Instrumentation(t)
      PROVE  MappedInv'
  BY <1>1, <1>4, MappedStarts, MappedCode, MappedProgram DEF Instrumentation
<1>5. CASE UNCHANGED vars
  <2>1. UNCHANGED <<sp, bound, shadow, stack, status>>
    BY <1>5 DEF vars, mem
  <2>2. MainRunning' = MainRunning /\ Starting' = Starting
    BY <2>1 DEF MainRunning, Starting
  <2>3. (\A t \in Threads : \A i \in 1 .. Len(stack[t]) :
           /\ FrameMapped(stack[t][i], bound)
           /\ stack[t][i].fn = "main" => t = MainThread /\ i = 1)'
    BY <2>1, Zenon DEF MappedInv
  <2>4. (Starting => /\ Len(stack[MainThread]) = 1
                     /\ \A t \in Threads \ {MainThread} : stack[t] = << >>)'
    BY <2>1, <2>2, Zenon DEF MappedInv
  <2>5. ((\E t \in Threads \ {MainThread} : stack[t] # << >>) => MainRunning)'
    BY <2>1, <2>2, Zenon DEF MappedInv
  <2>6. (Starting \/ sp.page = bound.page)' /\ (status = "fault" => bound = Null)'
    BY <2>1, <2>2, Zenon DEF MappedInv
  <2> QED
    BY <1>1, <2>3, <2>4, <2>5, <2>6, Zenon DEF MappedInv
<1> QED
  BY <1>2, <1>3, <1>4, <1>5 DEF Next, Done

(* In every process, with any threads and whatever its program does, the   *)
(* pointer and its copies are in the mapping as soon as there is one.      *)
THEOREM MappedInvariance == Spec => []MappedInv
<1>1. ASSUME Init PROVE MappedInv
  <2>1. TypeOK /\ sp = bound /\ status = "running"
    BY <1>1, TypeInit DEF Init
  <2>2. \A t \in Threads : stack[t] = << >> /\ Len(stack[t]) = 0
    BY <1>1 DEF Init
  <2>3. ASSUME NEW t \in Threads PROVE 1 .. Len(stack[t]) = {}
    <3>1. Len(stack[t]) = 0 /\ 1 .. 0 = {}
      BY <2>2
    <3> QED
      BY <3>1, Zenon
  <2>4. ~Starting
    BY <2>3, ConstantsAssumption DEF Starting
  <2> QED
    BY <2>1, <2>2, <2>3, <2>4, Zenon DEF MappedInv
<1>2. Init => MappedInv
  BY <1>1
<1> QED
  BY <1>2, MappedNext, PTL DEF Spec

(* In every process a function that runs without a mapping faults at its   *)
(* push, and nothing that runs with one faults.                            *)
THEOREM FaultsComeEarly == Spec => []FaultsAreEarly
<1>1. MappedInv => FaultsAreEarly
  <2>1. SUFFICES ASSUME MappedInv PROVE FaultsAreEarly
    OBVIOUS
  <2>2. status = "fault" => bound = Null
    BY <2>1, Zenon DEF MappedInv
  <2>3. ASSUME NEW t \in Threads, NEW i \in 1 .. Len(stack[t]), bound = Null,
               stack[t][i].fn = "fun"
        PROVE  stack[t][i].pc \in {"enter", "dec", "slot", "push"}
    <3>1. FrameMapped(stack[t][i], bound)
      BY <2>1, Zenon DEF MappedInv
    <3> QED
      BY <2>3, <3>1, MappedPages DEF FrameMapped
  <2> QED
    BY <2>2, <2>3 DEF FaultsAreEarly
<1> QED
  BY <1>1, MappedInvariance, PTL

=============================================================================
