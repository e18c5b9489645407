---------------------------- MODULE MCInterrupts -----------------------------
(***************************************************************************)
(* An instance of ShadowStack for TLC in which functions do not only       *)
(* return: handlers interrupt them, and a longjmp leaves them, in a process*)
(* that may run a constructor before main, may get no mapping, and whose   *)
(* main creates a thread and joins it.                                     *)
(***************************************************************************)
EXTENDS ShadowStack, TLC

CONSTANTS m, w, a1, a2

Rough == {"signal", "longjmp", "constructor", "mmap fails"}

(* Main waits while the other thread lives, so their frames form one stack,*)
(* in which each should start where the one below has left the pointer.    *)
Linked == LinksOK(stack[m] \o stack[w])

(* Handlers at any instruction of the guard, and threads that take turns   *)
(* with main, leave the pointer where they found it; while it is there, no *)
(* function runs without its address in the mapping and the epilogue       *)
(* raises no false alarm.  Only a longjmp takes it away: the frames it     *)
(* drops leave their words on the shadow stack.                            *)
OnlyLongjmpUnlinks ==
  [][Linked => \/ Linked' /\ Recorded' /\ NoFalseAlarm'
               \/ \E t \in Threads : Longjmp(t)]_vars

(* Wherever the pointer is, the word a running function has pushed stays   *)
(* until its epilogue: no other prologue writes over it.                   *)
Saved(f) ==
  /\ Recording(f)
  /\ InBounds(Pushed(f.entry))
  /\ shadow[Pushed(f.entry).off] = f.orig

WordsAreKept ==
  [][\A t \in Threads : \A i \in DOMAIN stack[t] \cap DOMAIN stack'[t] :
       Saved(stack[t][i]) /\ Recording(stack'[t][i]) => Saved(stack[t][i])']_vars

Symmetry == Permutations(Addr)
=============================================================================
