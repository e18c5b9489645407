----------------------------- MODULE ShadowStack -----------------------------
(***************************************************************************)
(* A program instrumented by ShadowStackPass                               *)
(* (src/separated-call-stack/shadow-stack-llvm6/pass.cpp), at run time.    *)
(*                                                                         *)
(* main's prologue maps a page and points __shadow_stack_pointer at its    *)
(* last word.  The prologue of every other function pushes the return      *)
(* address it finds in its frame on the shadow stack; its epilogue compares*)
(* the address in the frame with the top of the shadow stack, prints an    *)
(* error and exits if they differ, and pops otherwise.  Every load and     *)
(* store of a shared word is a step of its own: the globals belong to the  *)
(* process, and a thread or a signal handler can run between two of them.  *)
(*                                                                         *)
(* The program around the instrumentation is arbitrary: functions call     *)
(* each other, return and exit as they please.  Env says what else it may  *)
(* do, so that each property is checked exactly where it should hold.      *)
(***************************************************************************)
EXTENDS Integers, Sequences

CONSTANTS
  Threads,    (* threads of the process                                    *)
  MainThread, (* the one libc calls main on                                *)
  Addr,       (* return addresses that calls push and overwrites leave     *)
  Zero,       (* the contents of an untouched word of the mapping          *)
  PageWords,  (* words in the mapping: 0x1000 / 8 = 512 in the code        *)
  MaxDepth,   (* bound: live frames on one native stack                    *)
  Env         (* what the program and its surroundings may do              *)

(* "constructor": instrumented code runs before main.  "mmap fails": mmap  *)
(* may return MAP_FAILED.  "signal": handlers, instrumented too, run       *)
(* between any two instructions.  "overwrite": a store of a function's     *)
(* body may replace a saved return address of its native stack.            *)
(* "longjmp": the body may longjmp to a function further up.               *)
(* "concurrent": main goes on while another thread lives; without it main  *)
(* creates a thread and joins it at once.                                  *)
Behaviours == {"constructor", "mmap fails", "signal", "overwrite",
               "longjmp", "concurrent"}

ASSUME ConstantsAssumption ==
  /\ MainThread \in Threads
  /\ Zero \notin Addr
  /\ PageWords \in Nat \ {0}
  /\ MaxDepth \in Nat \ {0}
  /\ Env \subseteq Behaviours

VARIABLES
  sp,      (* __shadow_stack_pointer                                       *)
  bound,   (* __shadow_stack_base, which holds the mapping's lowest word   *)
  shadow,  (* the words of the mapping                                     *)
  stack,   (* the native stack of each thread: its live frames             *)
  status,  (* "running", or why the process stopped                        *)
  by       (* the thread whose step stopped it                             *)

mem == <<sp, bound, shadow>>
vars == <<mem, stack, status, by>>

(***************************************************************************)
(* A pointer is a word offset, in the mapping or from an address that is   *)
(* never mapped: the null the globals start with, and MAP_FAILED, whose    *)
(* offset 4088 wraps around into page zero.                                *)
(***************************************************************************)
Offsets == 0 .. (PageWords - 1)
Ptr == [page : BOOLEAN, off : Int]
Null == [page |-> FALSE, off |-> 0]
Mapping == [page |-> TRUE, off |-> 0]
InBounds(p) == p.page /\ p.off \in Offsets

Moved(p, n) == [p EXCEPT !.off = @ + n]

(* The pointers are i64*, so a GEP by 8 elements moves them by 8 words.    *)
Stride == 8
Pushed(p) == Moved(p, -Stride)
Popped_OneWord(p) == Moved(p, 1)
Popped_Twice(p) == Moved(p, 2 * Stride)
Popped(p) == Moved(p, Stride)
Base(map) == Moved(map, PageWords - 1)

(***************************************************************************)
(* A frame holds the saved return address (ra), the address and the        *)
(* pointer its instrumentation keeps in registers (got, reg) and where its *)
(* code has come to (pc).  orig and entry record what the call pushed and  *)
(* where the shadow stack stood at that moment; no step reads them but Ret,*)
(* to tell a return to the caller from one to somewhere else.              *)
(***************************************************************************)
MainLabel == {"mmap", "base", "body"}
FunLabel == {"enter", "dec", "slot", "push", "body", "cmp", "pop", "inc", "ret"}

Frame == [fn : {"main", "fun"}, pc : MainLabel \cup FunLabel, reg : Ptr,
          got : Addr, ra : Addr, orig : Addr, entry : Ptr]

NewFrame(fn, first, a) ==
  [fn |-> fn, pc |-> first, reg |-> Null, got |-> a, ra |-> a, orig |-> a,
   entry |-> sp]

Outcomes == {"running", "exited", "alarm", "fault", "oob", "hijacked"}

Top(t) == stack[t][Len(stack[t])]
Put(s, f) == [s EXCEPT ![Len(s)] = f]
Dropped(s) == SubSeq(s, 1, Len(s) - 1)

MainRunning ==
  /\ stack[MainThread] # << >>
  /\ stack[MainThread][1].fn = "main"
  /\ stack[MainThread][1].pc = "body"

Scheduled(t) ==
  \/ "concurrent" \in Env
  \/ \A u \in Threads \ {t, MainThread} : stack[u] = << >>

At(t, label) ==
  /\ status = "running"
  /\ Scheduled(t)
  /\ stack[t] # << >>
  /\ Top(t).pc = label

(* The top frame of t, with some of its registers and its pc replaced.     *)
SetTop(t, f) == stack' = [stack EXCEPT ![t] = Put(stack[t], f)]
Goto(t, label) == SetTop(t, [Top(t) EXCEPT !.pc = label])
GotoWith(t, label, r) == SetTop(t, [Top(t) EXCEPT !.pc = label, !.reg = r])

Push(t, f) ==
  /\ Len(stack[t]) < MaxDepth
  /\ stack' = [stack EXCEPT ![t] = Append(stack[t], f)]
  /\ UNCHANGED <<mem, status, by>>

Halt(t, why) ==
  /\ status' = why
  /\ by' = t
  /\ UNCHANGED <<mem, stack>>

Continue == UNCHANGED <<status, by>>

Init ==
  /\ sp = Null
  /\ bound = Null
  /\ shadow = [o \in Offsets |-> Zero]
  /\ stack = [t \in Threads |-> << >>]
  /\ status = "running"
  /\ by = MainThread

-----------------------------------------------------------------------------
(* The program: what the code around the instrumentation may do.           *)

StartMain ==
  /\ status = "running"
  /\ stack[MainThread] = << >>
  /\ \E a \in Addr : Push(MainThread, NewFrame("main", "mmap", a))

(* A constructor on the main thread; the start routine of another thread,  *)
(* which main or a function it called creates.                             *)
StartRoutine(t) ==
  /\ status = "running"
  /\ stack[t] = << >>
  /\ Scheduled(t)
  /\ \/ t = MainThread /\ "constructor" \in Env
     \/ t # MainThread /\ MainRunning /\ Top(MainThread).pc = "body"
  /\ \E a \in Addr : Push(t, NewFrame("fun", "enter", a))

Call(t) ==
  /\ At(t, "body")
  /\ \E a \in Addr : Push(t, NewFrame("fun", "enter", a))

Signal(t) ==
  /\ "signal" \in Env
  /\ status = "running"
  /\ Scheduled(t)
  /\ MainRunning
  /\ stack[t] # << >>
  /\ \E a \in Addr : Push(t, NewFrame("fun", "enter", a))

Overwrite(t) ==
  /\ "overwrite" \in Env
  /\ At(t, "body")
  /\ \E i \in 1 .. Len(stack[t]), a \in Addr :
       stack' = [stack EXCEPT ![t] = [stack[t] EXCEPT ![i].ra = a]]
  /\ UNCHANGED mem
  /\ Continue

Longjmp(t) ==
  /\ "longjmp" \in Env
  /\ At(t, "body")
  /\ \E i \in 1 .. (Len(stack[t]) - 1) :
       /\ stack[t][i].pc = "body"
       /\ stack' = [stack EXCEPT ![t] = SubSeq(stack[t], 1, i)]
  /\ UNCHANGED mem
  /\ Continue

Exit(t) ==
  /\ At(t, "body")
  /\ Halt(t, "exited")

(* main has no epilogue: its return is not checked.                        *)
MainReturn(t) ==
  /\ At(t, "body")
  /\ Top(t).fn = "main"
  /\ Halt(t, IF Top(t).ra = Top(t).orig THEN "exited" ELSE "hijacked")

-----------------------------------------------------------------------------
(* createAllocationPrologue.                                               *)

MapShadow(t) ==
  /\ At(t, "mmap")
  /\ \/ bound' = Mapping
     \/ "mmap fails" \in Env /\ bound' = Null
  /\ GotoWith(t, "base", bound')
  /\ UNCHANGED <<sp, shadow>>
  /\ Continue

SetBase_FromPointer(t) ==
  /\ At(t, "base")
  /\ sp' = Base(sp)
  /\ GotoWith(t, "body", Null)
  /\ UNCHANGED <<bound, shadow>>
  /\ Continue

SetBase(t) ==
  /\ At(t, "base")
  /\ sp' = Base(Top(t).reg)
  /\ GotoWith(t, "body", Null)
  /\ UNCHANGED <<bound, shadow>>
  /\ Continue

-----------------------------------------------------------------------------
(* createShadowStackPrologue.                                              *)

LoadForPush(t) ==
  /\ At(t, "enter")
  /\ SetTop(t, [Top(t) EXCEPT !.pc = "dec", !.reg = sp, !.got = Top(t).ra])
  /\ UNCHANGED mem
  /\ Continue

Decrement(t) ==
  /\ At(t, "dec")
  /\ sp' = Pushed(Top(t).reg)
  /\ GotoWith(t, "slot", Null)
  /\ UNCHANGED <<bound, shadow>>
  /\ Continue

ReloadForPush_Stale(t) ==
  /\ At(t, "slot")
  /\ GotoWith(t, "push", Top(t).entry)
  /\ UNCHANGED mem
  /\ Continue

ReloadForPush(t) ==
  /\ At(t, "slot")
  /\ GotoWith(t, "push", sp)
  /\ UNCHANGED mem
  /\ Continue

(* Below the mapping the store hits whatever lies there, or nothing.       *)
StoreRetAddr(t) ==
  /\ At(t, "push")
  /\ \/ /\ InBounds(Top(t).reg)
        /\ shadow' = [shadow EXCEPT ![Top(t).reg.off] = Top(t).got]
        /\ GotoWith(t, "body", Null)
        /\ UNCHANGED <<sp, bound>>
        /\ Continue
     \/ /\ ~InBounds(Top(t).reg)
        /\ Halt(t, IF Top(t).reg.page THEN "oob" ELSE "fault")

-----------------------------------------------------------------------------
(* createShadowStackEpilogue.                                              *)

LoadForCheck_StaleAddr(t) ==
  /\ At(t, "body")
  /\ Top(t).fn = "fun"
  /\ GotoWith(t, "cmp", sp)
  /\ UNCHANGED mem
  /\ Continue

LoadForCheck(t) ==
  /\ At(t, "body")
  /\ Top(t).fn = "fun"
  /\ SetTop(t, [Top(t) EXCEPT !.pc = "cmp", !.reg = sp, !.got = Top(t).ra])
  /\ UNCHANGED mem
  /\ Continue

Compare_Swapped(t) ==
  /\ At(t, "cmp")
  /\ \/ /\ InBounds(Top(t).reg)
        /\ shadow[Top(t).reg.off] # Top(t).got
        /\ GotoWith(t, "pop", Null)
        /\ UNCHANGED mem
        /\ Continue
     \/ /\ InBounds(Top(t).reg)
        /\ shadow[Top(t).reg.off] = Top(t).got
        /\ Halt(t, "alarm")

Compare(t) ==
  /\ At(t, "cmp")
  /\ \/ /\ InBounds(Top(t).reg)
        /\ shadow[Top(t).reg.off] = Top(t).got
        /\ GotoWith(t, "pop", Null)
        /\ UNCHANGED mem
        /\ Continue
     \/ /\ InBounds(Top(t).reg)
        /\ shadow[Top(t).reg.off] # Top(t).got
        /\ Halt(t, "alarm")
     \/ /\ ~InBounds(Top(t).reg)
        /\ Halt(t, IF Top(t).reg.page THEN "oob" ELSE "fault")

LoadForPop(t) ==
  /\ At(t, "pop")
  /\ GotoWith(t, "inc", sp)
  /\ UNCHANGED mem
  /\ Continue

Increment(t) ==
  /\ At(t, "inc")
  /\ sp' = Popped(Top(t).reg)
  /\ GotoWith(t, "ret", Null)
  /\ UNCHANGED <<bound, shadow>>
  /\ Continue

Ret(t) ==
  /\ At(t, "ret")
  /\ \/ /\ Top(t).ra = Top(t).orig
        /\ stack' = [stack EXCEPT ![t] = Dropped(stack[t])]
        /\ UNCHANGED mem
        /\ Continue
     \/ /\ Top(t).ra # Top(t).orig
        /\ Halt(t, "hijacked")

-----------------------------------------------------------------------------
Done == status # "running" /\ UNCHANGED vars

Program(t) ==
  \/ StartRoutine(t) \/ Call(t) \/ Signal(t) \/ Overwrite(t) \/ Longjmp(t)
  \/ Exit(t) \/ MainReturn(t)

Instrumentation(t) ==
  \/ MapShadow(t) \/ SetBase(t)
  \/ LoadForPush(t) \/ Decrement(t) \/ ReloadForPush(t) \/ StoreRetAddr(t)
  \/ LoadForCheck(t) \/ Compare(t) \/ LoadForPop(t) \/ Increment(t) \/ Ret(t)

Next ==
  \/ StartMain
  \/ \E t \in Threads : Program(t) \/ Instrumentation(t)
  \/ Done

Spec == Init /\ [][Next]_vars

-----------------------------------------------------------------------------
TypeOK ==
  /\ sp \in Ptr
  /\ bound \in {Null, Mapping}
  /\ shadow \in [Offsets -> Addr \cup {Zero}]
  /\ stack \in [Threads -> Seq(Frame)]
  /\ status \in Outcomes
  /\ by \in Threads

Recording(f) == f.fn = "fun" /\ f.pc \in {"body", "cmp", "pop"}

(* The alarm of the epilogue (pass.cpp:170) tells the truth: it is raised  *)
(* only by a function whose saved return address was overwritten.          *)
NoFalseAlarm == status = "alarm" => Top(by).got # Top(by).orig

(* The only function whose overwritten return address is ever used is main,*)
(* the one runOnFunction gives no epilogue.                                *)
GuardedReturn == status = "hijacked" => Top(by).fn = "main"

(* While a function runs, the word its prologue pushed is in the mapping   *)
(* and holds the address its call pushed: no other prologue writes there.  *)
Recorded ==
  \A t \in Threads : \A i \in 1 .. Len(stack[t]) :
    LET f == stack[t][i]
    IN  Recording(f) => /\ InBounds(Pushed(f.entry))
                        /\ shadow[Pushed(f.entry).off] = f.orig

(* The shadow stack is never left through its lower end before the frames  *)
(* live at that moment need more than a page at Stride words each.         *)
Capacity == status = "oob" => Stride * (Len(stack[by]) - 1) > PageWords - 1

(* createShadowStackPrologue says that a push moves the pointer by         *)
(* the size of a pointer (pass.cpp:118): the mapping then has room for a   *)
(* frame in each word but one, and is left only when more are live.        *)
WordPerFrame == status = "oob" => Len(stack[by]) - 1 > PageWords - 1

(* A function that is entered without a mapping, as a constructor is before*)
(* main, or anything after an mmap that failed, never comes to its body:   *)
(* its push faults.  Where there is a mapping no push or check ever does,  *)
(* whoever interrupts whom, and wherever a longjmp left the pointer.       *)
FaultsAreEarly ==
  /\ status = "fault" => bound = Null
  /\ bound = Null => \A t \in Threads : \A i \in 1 .. Len(stack[t]) :
       stack[t][i].fn = "fun" => stack[t][i].pc \in {"enter", "dec", "slot", "push"}

(***************************************************************************)
(* The inductive invariant of a disciplined process: a single thread,      *)
(* nothing instrumented before main, no longjmp, and no handler in a       *)
(* program whose stores go astray.  A frame's code moves the pointer only  *)
(* between where the call found it and one slot below (After), and has     *)
(* moved it back when it returns, so each frame starts where the one below *)
(* it has left the pointer, and the slots of the live frames descend.      *)
(***************************************************************************)
Disciplined ==
  /\ Threads = {MainThread}
  /\ Env \subseteq {"mmap fails", "signal", "overwrite"}
  /\ ~({"signal", "overwrite"} \subseteq Env)

After(f) ==
  IF f.fn = "main" THEN IF f.pc = "body" THEN Base(bound) ELSE f.entry
  ELSE IF f.pc \in {"enter", "dec", "ret"} THEN f.entry ELSE Pushed(f.entry)

MainOK(f) ==
  /\ f.pc \in MainLabel
  /\ f.pc = "base" => f.reg = bound

FunOK(f) ==
  /\ f.pc \in FunLabel
  /\ f.pc = "dec" => f.reg = f.entry
  /\ f.pc \in {"push", "cmp", "inc"} => f.reg = Pushed(f.entry)
  /\ f.pc \in {"dec", "slot", "push"} => f.got = f.orig
  /\ f.pc = "cmp" => f.got = f.ra
  /\ f.pc \notin {"body", "cmp"} => f.ra = f.orig
  /\ Recording(f) => /\ InBounds(Pushed(f.entry))
                     /\ shadow[Pushed(f.entry).off] = f.orig

FramesOK(s) ==
  \A i \in 1 .. Len(s) :
    IF i = 1 THEN s[i].fn = "main" /\ MainOK(s[i])
             ELSE s[i].fn = "fun" /\ FunOK(s[i])

(* What makes handlers and callees harmless to the frames below them.      *)
BelowOK(s) ==
  /\ Len(s) > 1 => s[1].pc = "body"
  /\ "overwrite" \in Env => \A i \in 1 .. (Len(s) - 1) : s[i].pc = "body"

LinksOK(s) ==
  /\ \A i \in 1 .. (Len(s) - 1) : s[i + 1].entry = After(s[i])
  /\ sp = IF s = << >> THEN Null ELSE After(s[Len(s)])
  /\ s # << >> => s[1].entry = Null

DescentOK(s) ==
  \A i, j \in 2 .. Len(s) : i < j => s[j].entry.off <= After(s[i]).off

DepthOK(s) ==
  \A i \in 2 .. Len(s) :
    s[i].entry.off \in (PageWords - 1 - Stride * (i - 2)) .. (PageWords - 1)

StopOK == NoFalseAlarm /\ GuardedReturn /\ Capacity

IInv ==
  LET s == stack[MainThread]
  IN  TypeOK /\ FramesOK(s) /\ BelowOK(s) /\ LinksOK(s) /\ DescentOK(s)
             /\ DepthOK(s) /\ StopOK

(***************************************************************************)
(* The inductive invariant that shows FaultsAreEarly, of any process: until*)
(* main has set the pointer there is no frame but main's, and from then on *)
(* the pointer, and every copy of it in a register, is in the mapping if   *)
(* there is one.                                                           *)
(***************************************************************************)
Starting == \E i \in 1 .. Len(stack[MainThread]) :
              stack[MainThread][i].pc \in {"mmap", "base"}

FrameMapped(f, lowest) ==
  IF f.fn = "main"
  THEN f.pc \in MainLabel /\ (f.pc = "base" => f.reg = lowest)
  ELSE /\ f.pc \in FunLabel
       /\ f.pc \in {"dec", "push", "cmp", "inc"} => f.reg.page = lowest.page
       /\ f.pc \notin {"enter", "dec", "slot", "push"} => lowest.page

MappedInv ==
  /\ TypeOK
  /\ \A t \in Threads : \A i \in 1 .. Len(stack[t]) :
       /\ FrameMapped(stack[t][i], bound)
       /\ stack[t][i].fn = "main" => t = MainThread /\ i = 1
  /\ Starting => /\ Len(stack[MainThread]) = 1
                 /\ \A t \in Threads \ {MainThread} : stack[t] = << >>
  /\ (\E t \in Threads \ {MainThread} : stack[t] # << >>) => MainRunning
  /\ Starting \/ sp.page = bound.page
  /\ status = "fault" => bound = Null

(***************************************************************************)
(* The single-threaded process implements GuardedCalls: main's frame is not*)
(* a guarded call, the ones above it are.                                  *)
(***************************************************************************)
Calls ==
  LET s == stack[MainThread]
  IN  [i \in 1 .. (Len(s) - 1) |-> [ra |-> s[i + 1].ra, orig |-> s[i + 1].orig]]

Verdict ==
  CASE status \in {"running", "alarm"} -> status
    [] status = "hijacked" /\ Top(by).fn = "fun" -> "hijacked"
    [] OTHER -> "stopped"

Guard == INSTANCE GuardedCalls WITH calls <- Calls, verdict <- Verdict

(* Every behaviour of the instrumented process is one that GuardedCalls    *)
(* allows: intact calls return unhindered, tampered ones never return.     *)
GuardsCalls == Guard!Spec

=============================================================================
