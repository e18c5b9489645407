----------------------------- MODULE AflMaybeLog -----------------------------
(***************************************************************************)
(* A program instrumented by AFLPass (src/afl_maybe_log/pass.cpp), at run  *)
(* time.  Each of its basic blocks starts with the chain of blocks         *)
(* afl_maybe_log, ..., afl_ret: the first visit attaches the fuzzer's      *)
(* shared memory segment, and every visit increments the counter of the    *)
(* edge it came by.  The two pointers and the failure flag are globals of  *)
(* the process, __afl_prev_loc is thread-local.  Each load and store of    *)
(* shared memory is a step; blocks follow each other in any order.         *)
(*                                                                         *)
(* A location is a vector of Bits bits, so that the xor and the shift of   *)
(* the pass are what they are on machine words.                            *)
(***************************************************************************)
EXTENDS Integers, FiniteSets, FiniteSetsExt

CONSTANTS
  Threads,
  Blocks,      (* basic blocks of the program                              *)
  Entry,       (* stands for what precedes a thread's first logged block   *)
  Bits,        (* MAP_SIZE is 2^Bits: 16 in the code                       *)
  WordBits,    (* a pointer takes 2^WordBits counters: 3 in the code       *)
  Wrap,        (* values of a counter: 256 in the code                     *)
  Assignments, (* the locations random() may give the blocks               *)
  MaxVisits    (* bound: blocks that the threads execute in all            *)

Bit == 0 .. (Bits - 1)
Loc == [Bit -> BOOLEAN]

ASSUME ConstantsAssumption ==
  /\ IsFiniteSet(Blocks) /\ Entry \notin Blocks
  /\ Bits \in Nat \ {0}
  /\ WordBits \in Nat
  /\ Wrap \in Nat \ {0}
  /\ Assignments \subseteq [Blocks -> Loc]
  /\ MaxVisits \in Nat

VARIABLES
  area,     (* __afl_area_ptr                                              *)
  global,   (* __afl_global_area_ptr                                       *)
  failure,  (* __afl_setup_failure                                         *)
  map,      (* the counters of the segment                                 *)
  prev,     (* __afl_prev_loc of each thread                               *)
  pc,       (* the instrumentation's block each thread is in               *)
  at,       (* the program's block each thread is in                       *)
  ptr,      (* registers: a pointer just loaded, or returned by shmat ...  *)
  idx,      (* ... the index of the counter of the edge ...                *)
  cnt,      (* ... and its value                                           *)
  loc,      (* the location compiled into each block                       *)
  hasEnv,   (* whether the environment names a segment                     *)
  crashed,  (* a thread went through a pointer to nowhere                  *)
  visits,   (* blocks executed so far                                      *)
  last,     (* history: the block each thread logged last                  *)
  hits,     (* history: how often each edge was logged                     *)
  attempts, (* history: how often the set-up was started                   *)
  raced,    (* history: two threads were in the set-up at once             *)
  overlapped(* history: two threads were incrementing one counter at once  *)

pointers == <<area, global, failure>>
registers == <<ptr, idx, cnt>>
fixed == <<loc, hasEnv>>
history == <<last, hits, attempts, raced, overlapped>>
vars == <<pointers, map, prev, pc, at, registers, fixed, crashed, visits, history>>

(* A segment attached twice has two addresses for the same bytes, so one   *)
(* value stands for all of them; Wild is anything else but null.           *)
Ptr == {"null", "segment", "wild"}

Xor(a, b) == [i \in Bit |-> a[i] # b[i]]
Half_Identity(a) == a
Half(a) == [i \in Bit |-> IF i + 1 \in Bit THEN a[i + 1] ELSE FALSE]
ZeroLoc == [i \in Bit |-> FALSE]

(* The counter of the edge between blocks at two locations.                *)
Edge(from, to) == Xor(Half(from), to)

Succ_NoWrap(n) == n + 1
Succ(n) == (n + 1) % Wrap

(* The pointer that the first bytes of the bitmap make when they are read  *)
(* as one.                                                                 *)
FirstWord == {l \in Loc : \A i \in Bit : i >= WordBits => ~l[i]}
Deref == IF \A l \in FirstWord : map[l] = 0 THEN "null" ELSE "wild"

Labels == {"block", "maybe_log", "check_failure", "check_global", "setup",
           "setup_store", "shm_getenv", "shm", "shm_success", "shm_publish",
           "store", "load", "write", "set_prev", "fail"}

(* The blocks of the set-up, which a thread enters when it sees no pointer.*)
Setting == {"check_failure", "check_global", "setup", "setup_store", "shm_getenv",
            "shm", "shm_success", "shm_publish", "fail"}

Init ==
  /\ area = "null" /\ global = "null" /\ failure = FALSE
  /\ map = [l \in Loc |-> 0]
  /\ prev = [t \in Threads |-> ZeroLoc]
  /\ pc = [t \in Threads |-> "block"]
  /\ at \in [Threads -> Blocks]
  /\ ptr = [t \in Threads |-> "null"]
  /\ idx = [t \in Threads |-> ZeroLoc]
  /\ cnt = [t \in Threads |-> 0]
  /\ loc \in Assignments
  /\ hasEnv \in BOOLEAN
  /\ crashed = FALSE
  /\ visits = 0
  /\ last = [t \in Threads |-> Entry]
  /\ hits = [e \in (Blocks \cup {Entry}) \X Blocks |-> 0]
  /\ attempts = 0 /\ raced = FALSE /\ overlapped = FALSE

At(t, label) == ~crashed /\ pc[t] = label
Goto(t, label) == pc' = [pc EXCEPT ![t] = label]

-----------------------------------------------------------------------------
(* The program enters a block: the instrumentation runs first.             *)
Visit(t) ==
  /\ At(t, "block")
  /\ visits < MaxVisits
  /\ visits' = visits + 1
  /\ \E b \in Blocks : at' = [at EXCEPT ![t] = b]
  /\ Goto(t, "maybe_log")
  /\ UNCHANGED <<pointers, map, prev, registers, fixed, crashed, history>>

MaybeLog(t) ==
  /\ At(t, "maybe_log")
  /\ Goto(t, IF area # "null" THEN "store" ELSE "check_failure")
  /\ raced' = (raced \/ /\ area = "null" /\ ~failure
                        /\ \E u \in Threads \ {t} : pc[u] \in Setting)
  /\ UNCHANGED <<pointers, map, prev, at, registers, fixed, crashed, visits,
                 last, hits, attempts, overlapped>>

CheckFailure_Restarts(t) ==
  /\ At(t, "check_failure")
  /\ Goto(t, IF failure THEN "maybe_log" ELSE "check_global")
  /\ UNCHANGED <<pointers, map, prev, at, registers, fixed, crashed, visits, history>>

CheckFailure(t) ==
  /\ At(t, "check_failure")
  /\ Goto(t, IF failure THEN "block" ELSE "check_global")
  /\ UNCHANGED <<pointers, map, prev, at, registers, fixed, crashed, visits, history>>

CheckGlobal(t) ==
  /\ At(t, "check_global")
  /\ Goto(t, IF global # "null" THEN "setup" ELSE "shm_getenv")
  /\ UNCHANGED <<pointers, map, prev, at, registers, fixed, crashed, visits, history>>

(* The global holds the segment's address, and the load goes through it.   *)
Setup(t) ==
  /\ At(t, "setup")
  /\ ptr' = [ptr EXCEPT ![t] = Deref]
  /\ Goto(t, "setup_store")
  /\ UNCHANGED <<pointers, map, prev, at, idx, cnt, fixed, crashed, visits, history>>

(* The block has no branch of its own: it falls through to the next one.   *)
SetupStore(t) ==
  /\ At(t, "setup_store")
  /\ area' = ptr[t]
  /\ Goto(t, "shm_getenv")
  /\ UNCHANGED <<global, failure, map, prev, at, registers, fixed, crashed, visits, history>>

ShmGetenv_Unchecked(t) ==
  /\ At(t, "shm_getenv")
  /\ attempts' = attempts + 1
  /\ Goto(t, IF hasEnv THEN "shm" ELSE "store")
  /\ UNCHANGED <<pointers, map, prev, at, registers, fixed, crashed, visits,
                 last, hits, raced, overlapped>>

ShmGetenv(t) ==
  /\ At(t, "shm_getenv")
  /\ attempts' = attempts + 1
  /\ Goto(t, IF hasEnv THEN "shm" ELSE "fail")
  /\ UNCHANGED <<pointers, map, prev, at, registers, fixed, crashed, visits,
                 last, hits, raced, overlapped>>

Shm(t) ==
  /\ At(t, "shm")
  /\ \/ ptr' = [ptr EXCEPT ![t] = "segment"] /\ Goto(t, "shm_success")
     \/ Goto(t, "fail") /\ UNCHANGED ptr
  /\ UNCHANGED <<pointers, map, prev, at, idx, cnt, fixed, crashed, visits, history>>

(* The block also loads through the global before it sets it (line 189),   *)
(* which mostly is null.  Nothing uses that value, and the code generator  *)
(* the compile script calls emits no instruction for a dead load.          *)
ShmSuccess(t) ==
  /\ At(t, "shm_success")
  /\ area' = ptr[t]
  /\ Goto(t, "shm_publish")
  /\ UNCHANGED <<global, failure, map, prev, at, registers, fixed, crashed, visits, history>>

ShmPublish(t) ==
  /\ At(t, "shm_publish")
  /\ global' = ptr[t]
  /\ Goto(t, "store")
  /\ UNCHANGED <<area, failure, map, prev, at, registers, fixed, crashed, visits, history>>

Fail_Unrecorded(t) ==
  /\ At(t, "fail")
  /\ Goto(t, "block")
  /\ UNCHANGED <<pointers, map, prev, at, registers, fixed, crashed, visits, history>>

Fail(t) ==
  /\ At(t, "fail")
  /\ failure' = TRUE
  /\ Goto(t, "block")
  /\ UNCHANGED <<area, global, map, prev, at, registers, fixed, crashed, visits, history>>

-----------------------------------------------------------------------------
(* afl_store: the pointer is loaded anew, whatever maybe_log saw.          *)
Store(t) ==
  /\ At(t, "store")
  /\ ptr' = [ptr EXCEPT ![t] = area]
  /\ idx' = [idx EXCEPT ![t] = Xor(prev[t], loc[at[t]])]
  /\ Goto(t, "load")
  /\ UNCHANGED <<pointers, map, prev, at, cnt, fixed, crashed, visits, history>>

LoadCounter(t) ==
  /\ At(t, "load")
  /\ \/ /\ ptr[t] = "segment"
        /\ cnt' = [cnt EXCEPT ![t] = map[idx[t]]]
        /\ Goto(t, "write")
        /\ UNCHANGED crashed
     \/ /\ ptr[t] # "segment"
        /\ crashed' = TRUE
        /\ UNCHANGED <<cnt, pc>>
  /\ overlapped' = (overlapped \/ \E u \in Threads \ {t} : /\ pc[u] = "write"
                                                           /\ idx[u] = idx[t])
  /\ UNCHANGED <<pointers, map, prev, at, ptr, idx, fixed, visits,
                 last, hits, attempts, raced>>

WriteCounter_Saturating(t) ==
  /\ At(t, "write")
  /\ map' = [map EXCEPT ![idx[t]] = IF cnt[t] = Wrap - 1 THEN cnt[t] ELSE cnt[t] + 1]
  /\ hits' = [hits EXCEPT ![<<last[t], at[t]>>] = @ + 1]
  /\ Goto(t, "set_prev")
  /\ UNCHANGED <<pointers, prev, at, registers, fixed, crashed, visits,
                 last, attempts, raced, overlapped>>

WriteCounter(t) ==
  /\ At(t, "write")
  /\ map' = [map EXCEPT ![idx[t]] = Succ(cnt[t])]
  /\ hits' = [hits EXCEPT ![<<last[t], at[t]>>] = @ + 1]
  /\ Goto(t, "set_prev")
  /\ UNCHANGED <<pointers, prev, at, registers, fixed, crashed, visits,
                 last, attempts, raced, overlapped>>

SetPrev_Shared(t) ==
  /\ At(t, "set_prev")
  /\ prev' = [u \in Threads |-> Half(loc[at[t]])]
  /\ last' = [last EXCEPT ![t] = at[t]]
  /\ Goto(t, "block")
  /\ UNCHANGED <<pointers, map, at, registers, fixed, crashed, visits,
                 hits, attempts, raced, overlapped>>

SetPrev(t) ==
  /\ At(t, "set_prev")
  /\ prev' = [prev EXCEPT ![t] = Half(loc[at[t]])]
  /\ last' = [last EXCEPT ![t] = at[t]]
  /\ Goto(t, "block")
  /\ UNCHANGED <<pointers, map, at, registers, fixed, crashed, visits,
                 hits, attempts, raced, overlapped>>

Instrumentation(t) ==
  \/ MaybeLog(t) \/ CheckFailure(t) \/ CheckGlobal(t) \/ Setup(t) \/ SetupStore(t)
  \/ ShmGetenv(t) \/ Shm(t) \/ ShmSuccess(t) \/ ShmPublish(t) \/ Fail(t)
  \/ Store(t) \/ LoadCounter(t) \/ WriteCounter(t) \/ SetPrev(t)

(* The program has exited, crashed, or used up the bound.                  *)
Done ==
  /\ crashed \/ \A t \in Threads : pc[t] = "block"
  /\ UNCHANGED vars

Next ==
  \/ \E t \in Threads : Visit(t) \/ Instrumentation(t)
  \/ Done

Spec == Init /\ [][Next]_vars

(* The scheduler runs every thread that is in the instrumentation; nothing *)
(* says that the program ever enters another block.                        *)
FairSpec == Spec /\ \A t \in Threads : WF_vars(Instrumentation(t))

-----------------------------------------------------------------------------
Edges == (Blocks \cup {Entry}) \X Blocks

TypeOK ==
  /\ area \in Ptr /\ global \in Ptr /\ failure \in BOOLEAN
  /\ map \in [Loc -> 0 .. (Wrap - 1)]
  /\ prev \in [Threads -> Loc]
  /\ pc \in [Threads -> Labels]
  /\ at \in [Threads -> Blocks]
  /\ ptr \in [Threads -> Ptr]
  /\ idx \in [Threads -> Loc]
  /\ cnt \in [Threads -> 0 .. (Wrap - 1)]
  /\ loc \in [Blocks -> Loc] /\ hasEnv \in BOOLEAN /\ crashed \in BOOLEAN
  /\ visits \in Nat /\ raced \in BOOLEAN /\ overlapped \in BOOLEAN
  /\ last \in [Threads -> Blocks \cup {Entry}]
  /\ hits \in [Edges -> Nat] /\ attempts \in Nat

LocOf(b) == IF b = Entry THEN ZeroLoc ELSE loc[b]

(* A thread increments the counter of its own edge: from the block that it *)
(* logged last itself, whatever the other threads logged in between.       *)
OwnEdges ==
  \A t \in Threads :
    /\ prev[t] = Half(LocOf(last[t]))
    /\ pc[t] \in {"load", "write"} => idx[t] = Edge(LocOf(last[t]), loc[at[t]])

(* The shift makes edges directed: going back from block B to block A is   *)
(* never counted where going from A to B is, wherever random() put them.   *)
DirectedEdges ==
  \A t \in Threads :
    LET from == LocOf(last[t])
        to == loc[at[t]]
    IN  pc[t] = "write" /\ from # to => idx[t] # Edge(to, from)

(* As long as no two threads increment one counter at the same time, the   *)
(* bitmap holds, for each index, how often the edges that share it were    *)
(* taken by any of them, modulo the counter's width.                       *)
CountsEdges ==
  ~overlapped =>
    \A l \in Loc :
      LET here == {e \in Edges : Edge(LocOf(e[1]), loc[e[2]]) = l}
      IN  map[l] = MapThenSumSet(LAMBDA e : hits[e], here) % Wrap

(* As long as no thread enters the set-up while another is in it, the      *)
(* program looks for the segment once, whether that succeeds or fails, and *)
(* never goes through a pointer to nowhere: a thread that comes later finds*)
(* the pointer or the failure flag, however far another one has got in the *)
(* blocks that use the pointer.                                            *)
SetUpOnce == ~raced => attempts <= 1
NeverCrashes == ~raced => ~crashed

(* Why: then the two pointers are set together, the set-up is on its way   *)
(* only while both are null and in one thread, and a set-up that was       *)
(* started has left its mark, a segment or the failure flag.               *)
SetUpOK(t) ==
  /\ pc[t] \notin {"setup", "setup_store"}
  /\ pc[t] \in {"check_failure", "check_global", "shm_getenv", "shm", "shm_success",
                "fail"} => area = "null"
  /\ pc[t] \in {"shm_publish", "store", "load", "write", "set_prev"}
       => area = "segment"
  /\ pc[t] \in {"shm_success", "shm_publish", "load", "write"} => ptr[t] = "segment"
  /\ pc[t] \in {"check_global", "shm_getenv"} => attempts = 0
  /\ pc[t] \in Setting \ {"check_failure"} => ~failure

AloneInSetUp(t, u) == pc[t] \in Setting /\ pc[u] \in Setting => t = u \/ failure

OrderlySetUp ==
  /\ ~crashed
  /\ area # "wild"
  /\ (\A t \in Threads : pc[t] # "shm_publish") => area = global
  /\ \A t \in Threads : SetUpOK(t)
  /\ \A t, u \in Threads : AloneInSetUp(t, u)
  /\ \/ attempts = 0
     \/ /\ attempts = 1
        /\ \/ area # "null" \/ failure
           \/ \E t \in Threads : pc[t] \in {"shm", "shm_success", "fail"}

SetUpInv == ~raced => OrderlySetUp

(* Executing a block's instrumentation ends, at the block it belongs to.   *)
Returns == \A t \in Threads : (pc[t] # "block") ~> (pc[t] = "block" \/ crashed)

(* What afl_setup leaves in the area pointer is the global, as the comment *)
(* at pass.cpp:128 says: simply load the global.                           *)
AreaIsGlobal == [][\A t \in Threads : SetupStore(t) => area' = global]_vars
=============================================================================
