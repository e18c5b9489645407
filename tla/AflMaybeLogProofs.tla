-------------------------- MODULE AflMaybeLogProofs --------------------------
(***************************************************************************)
(* Proofs about AflMaybeLog, for any bitmap size, counter width, number of *)
(* threads and assignment of locations.                                    *)
(***************************************************************************)
EXTENDS AflMaybeLog, FiniteSetTheorems, WellFoundedInduction, TLAPS

-----------------------------------------------------------------------------
(* Edges are directed.                                                     *)

Less == {pair \in Nat \X Nat : pair[1] < pair[2]}

LEMMA LessIsWellFounded == IsWellFoundedOn(Less, Nat)
  BY NatLessThanWellFounded DEF Less, OpToRel

(* Every non-empty set of naturals has a least element.                    *)
LEMMA Least ==
  ASSUME NEW T \in SUBSET Nat, T # {}
  PROVE  \E x \in T : \A y \in T : x <= y
  <1>1. PICK x \in T : \A y \in T : <<y, x>> \notin Less
    BY LessIsWellFounded, WFMin
  <1>2. ASSUME NEW y \in T PROVE ~(y < x)
    <2>1. <<y, x>> \in Nat \X Nat /\ <<y, x>>[1] = y /\ <<y, x>>[2] = x
      OBVIOUS
    <2> QED
      BY <1>1, <2>1 DEF Less
  <1> QED
    BY <1>2

(* A location is determined by its xor with its own half: the top bit is   *)
(* left alone, and each bit below is recovered from the one above.         *)
LEMMA GrayCode ==
  ASSUME NEW a \in Loc, NEW b \in Loc, Xor(a, Half(a)) = Xor(b, Half(b))
  PROVE  a = b
  <1> DEFINE D == {n \in 1 .. Bits : a[Bits - n] # b[Bits - n]}
  <1>1. \A i \in Bit : a[i] \in BOOLEAN /\ b[i] \in BOOLEAN
    BY DEF Loc
  <1>2. SUFFICES ASSUME D # {} PROVE FALSE
    <2>1. ASSUME D = {}, NEW i \in Bit PROVE a[i] = b[i]
      <3>1. Bits - i \in 1 .. Bits /\ Bits - (Bits - i) = i
        BY ConstantsAssumption DEF Bit
      <3> QED
        BY <2>1, <3>1
    <2> QED
      BY <2>1 DEF Loc
  <1>3. PICK n \in D : \A m \in D : n <= m
    <2> HIDE DEF D
    <2>1. D \in SUBSET Nat
      BY ConstantsAssumption DEF D
    <2> QED
      BY <1>2, <2>1, Least
  <1> DEFINE i == Bits - n
  <1>4. i \in Bit /\ a[i] # b[i] /\ n \in Nat
    BY <1>3, ConstantsAssumption DEF Bit
  <1>5. ASSUME i + 1 \in Bit PROVE a[i + 1] = b[i + 1]
    <2>1. n - 1 \in 1 .. Bits /\ Bits - (n - 1) = i + 1 /\ ~(n <= n - 1)
      BY <1>3, <1>5, ConstantsAssumption DEF Bit
    <2> QED
      BY <2>1, <1>3
  <1>6. (a[i] # Half(a)[i]) = (b[i] # Half(b)[i])
    BY <1>4 DEF Xor
  <1>7. Half(a)[i] = Half(b)[i] /\ Half(a)[i] \in BOOLEAN
    BY <1>1, <1>4, <1>5 DEF Half
  <1> QED
    BY <1>1, <1>4, <1>6, <1>7

(* Swapping the ends of an edge between two different locations changes    *)
(* the index of its counter.                                               *)
LEMMA SwappedEdge ==
  ASSUME NEW a \in Loc, NEW b \in Loc, Edge(a, b) = Edge(b, a)
  PROVE  a = b
  <1>1. ASSUME NEW i \in Bit
        PROVE  (a[i] # Half(a)[i]) = (b[i] # Half(b)[i])
    <2>1. (Half(a)[i] # b[i]) = (Half(b)[i] # a[i])
      BY DEF Edge, Xor
    <2>2. /\ a[i] \in BOOLEAN /\ b[i] \in BOOLEAN
          /\ Half(a)[i] \in BOOLEAN /\ Half(b)[i] \in BOOLEAN
      BY DEF Loc, Half, Bit
    <2> QED
      BY <2>1, <2>2
  <1>2. Xor(a, Half(a)) = Xor(b, Half(b))
    BY <1>1 DEF Xor
  <1> QED
    BY <1>2, GrayCode

-----------------------------------------------------------------------------
(* Type correctness.                                                       *)

LEMMA LocTypes ==
  /\ ZeroLoc \in Loc
  /\ \A a \in Loc : Half(a) \in Loc
  /\ \A a, b \in Loc : Xor(a, b) \in Loc
  BY DEF ZeroLoc, Half, Xor, Loc

LEMMA SuccType == \A n \in 0 .. (Wrap - 1) : Succ(n) \in 0 .. (Wrap - 1)
  BY ConstantsAssumption DEF Succ

LEMMA TypeInit == Init => TypeOK
  <1> SUFFICES ASSUME Init PROVE TypeOK
    OBVIOUS
  <1>1. loc \in [Blocks -> Loc] /\ 0 \in 0 .. (Wrap - 1)
    BY ConstantsAssumption DEF Init
  <1>2. /\ prev \in [Threads -> Loc] /\ idx \in [Threads -> Loc]
        /\ map \in [Loc -> 0 .. (Wrap - 1)] /\ cnt \in [Threads -> 0 .. (Wrap - 1)]
    BY <1>1, LocTypes DEF Init
  <1>3. /\ hits \in [Edges -> Nat] /\ last \in [Threads -> Blocks \cup {Entry}]
        /\ visits \in Nat /\ attempts \in Nat
        /\ raced \in BOOLEAN /\ overlapped \in BOOLEAN
    BY DEF Init, Edges
  <1>4. /\ area \in Ptr /\ global \in Ptr /\ ptr \in [Threads -> Ptr]
        /\ pc \in [Threads -> Labels] /\ at \in [Threads -> Blocks]
        /\ failure \in BOOLEAN /\ hasEnv \in BOOLEAN /\ crashed \in BOOLEAN
    BY DEF Init, Ptr, Labels
  <1> QED
    BY <1>1, <1>2, <1>3, <1>4 DEF TypeOK

LEMMA TypeStep ==
  ASSUME TypeOK, [Next]_vars
  PROVE  TypeOK'
  <1> USE DEF TypeOK, At, Goto, pointers, registers, fixed, history, Labels
  <1>1. ASSUME NEW t \in Threads, Visit(t)
        PROVE  TypeOK'
    BY <1>1 DEF Visit
  <1>2. ASSUME NEW t \in Threads, Instrumentation(t)
        PROVE  TypeOK'
    <2>1. CASE MaybeLog(t)
      BY <2>1 DEF MaybeLog
    <2>2. CASE CheckFailure(t)
      BY <2>2 DEF CheckFailure
    <2>3. CASE CheckGlobal(t)
      BY <2>3 DEF CheckGlobal
    <2>4. CASE Setup(t)
      BY <2>4 DEF Setup, Deref, Ptr
    <2>5. CASE SetupStore(t)
      BY <2>5 DEF SetupStore
    <2>6. CASE ShmGetenv(t)
      BY <2>6 DEF ShmGetenv
    <2>7. CASE Shm(t)
      BY <2>7 DEF Shm, Ptr
    <2>8. CASE ShmSuccess(t)
      BY <2>8 DEF ShmSuccess
    <2>9. CASE ShmPublish(t)
      BY <2>9 DEF ShmPublish
    <2>10. CASE Fail(t)
      BY <2>10 DEF Fail
    <2>11. CASE Store(t)
      BY <2>11, LocTypes DEF Store
    <2>12. CASE LoadCounter(t)
      BY <2>12 DEF LoadCounter
    <2>13. CASE WriteCounter(t)
      BY <2>13, SuccType DEF WriteCounter, Edges
    <2>14. CASE SetPrev(t)
      BY <2>14, LocTypes DEF SetPrev
    <2> QED
      BY <1>2, <2>1, <2>2, <2>3, <2>4, <2>5, <2>6, <2>7, <2>8, <2>9, <2>10, <2>11,
         <2>12, <2>13, <2>14 DEF Instrumentation
  <1>3. CASE UNCHANGED vars
    BY <1>3 DEF vars
  <1> QED
    BY <1>1, <1>2, <1>3 DEF Next, Done

(* The state keeps its types with any number of threads.                   *)
THEOREM TypeCorrect == Spec => []TypeOK
  BY TypeInit, TypeStep, PTL DEF Spec

-----------------------------------------------------------------------------
(* Edges belong to threads.                                                *)

LEMMA OwnInit == Init => OwnEdges
  BY DEF Init, OwnEdges, LocOf, Half, ZeroLoc

LEMMA OwnStep ==
  ASSUME TypeOK, OwnEdges, [Next]_vars
  PROVE  OwnEdges'
  <1> USE DEF TypeOK, OwnEdges, At, Goto, LocOf, pointers, registers, fixed, history
  <1>1. ASSUME NEW t \in Threads, Visit(t)
        PROVE  OwnEdges'
    BY <1>1 DEF Visit
  <1>2. ASSUME NEW t \in Threads, Instrumentation(t)
        PROVE  OwnEdges'
    <2>1. CASE MaybeLog(t) \/ CheckFailure(t) \/ CheckGlobal(t)
      BY <2>1 DEF MaybeLog, CheckFailure, CheckGlobal
    <2>2. CASE Setup(t) \/ SetupStore(t)
      BY <2>2 DEF Setup, SetupStore
    <2>3. CASE ShmGetenv(t) \/ Shm(t)
      BY <2>3 DEF ShmGetenv, Shm
    <2>4. CASE ShmSuccess(t) \/ ShmPublish(t) \/ Fail(t)
      BY <2>4 DEF ShmSuccess, ShmPublish, Fail
    <2>5. CASE Store(t)
      BY <2>5 DEF Store, Edge
    <2>6. CASE LoadCounter(t)
      BY <2>6 DEF LoadCounter
    <2>7. CASE WriteCounter(t)
      BY <2>7 DEF WriteCounter
    <2>8. CASE SetPrev(t)
      <3>1. at[t] # Entry
        BY ConstantsAssumption
      <3> QED
        BY <2>8, <3>1 DEF SetPrev
    <2> QED
      BY <1>2, <2>1, <2>2, <2>3, <2>4, <2>5, <2>6, <2>7, <2>8 DEF Instrumentation
  <1>3. CASE UNCHANGED vars
    BY <1>3 DEF vars
  <1> QED
    BY <1>1, <1>2, <1>3 DEF Next, Done

(* Every thread counts the edges of its own path: the previous location is *)
(* thread-local, so no interleaving mixes the paths of two threads.        *)
THEOREM EdgesAreOwn == Spec => []OwnEdges
  <1>1. TypeOK /\ OwnEdges /\ [Next]_vars => OwnEdges'
    BY OwnStep
  <1> QED
    BY <1>1, OwnInit, TypeCorrect, PTL DEF Spec

(* The two directions between two blocks at different locations never      *)
(* share a counter, for any bitmap size and any choice of locations.       *)
THEOREM EdgesAreDirected == Spec => []DirectedEdges
  <1>1. TypeOK /\ OwnEdges => DirectedEdges
    <2> SUFFICES ASSUME TypeOK, OwnEdges, NEW t \in Threads, pc[t] = "write",
                        LocOf(last[t]) # loc[at[t]]
                 PROVE  idx[t] # Edge(loc[at[t]], LocOf(last[t]))
      BY DEF DirectedEdges
    <2>1. LocOf(last[t]) \in Loc /\ loc[at[t]] \in Loc
      BY LocTypes DEF TypeOK, LocOf
    <2>2. idx[t] = Edge(LocOf(last[t]), loc[at[t]])
      BY DEF OwnEdges
    <2> QED
      BY <2>1, <2>2, SwappedEdge
  <1> QED
    BY <1>1, EdgesAreOwn, TypeCorrect, PTL

-----------------------------------------------------------------------------
(* The set-up, for any number of threads.                                  *)

LEMMA MaybeLogKeeps ==
  ASSUME TypeOK, OrderlySetUp, NEW t \in Threads, MaybeLog(t), ~raced'
  PROVE  OrderlySetUp'
  <1> USE DEF OrderlySetUp, SetUpOK, AloneInSetUp, Setting, TypeOK, At, Goto, pointers,
              registers, fixed
  <1>1. /\ pc[t] = "maybe_log"
        /\ UNCHANGED <<area, global, failure, ptr, crashed, attempts>>
    BY DEF MaybeLog
  <1>2. CASE area # "null"
    <2>1. pc' = [pc EXCEPT ![t] = "store"] /\ area = "segment"
      BY <1>2 DEF MaybeLog, Ptr
    <2> QED
      BY <1>1, <2>1
  <1>3. CASE area = "null"
    <2>1. pc' = [pc EXCEPT ![t] = "check_failure"]
      BY <1>3 DEF MaybeLog
    <2>2. failure \/ \A u \in Threads \ {t} : pc[u] \notin Setting
      BY <1>3 DEF MaybeLog
    <2>3. (\A u, v \in Threads : AloneInSetUp(u, v))'
      BY <1>1, <2>1, <2>2
    <2>4. (\A u \in Threads : SetUpOK(u))'
      BY <1>1, <1>3, <2>1
    <2> QED
      BY <1>1, <1>3, <2>1, <2>3, <2>4
  <1> QED
    BY <1>2, <1>3

LEMMA SetUpStep ==
  ASSUME TypeOK, SetUpInv, [Next]_vars
  PROVE  SetUpInv'
  <1> SUFFICES ASSUME ~raced' PROVE OrderlySetUp'
    BY DEF SetUpInv
  <1>0. ~raced /\ OrderlySetUp
    <2>1. ASSUME NEW t \in Threads, Visit(t) \/ Instrumentation(t) PROVE ~raced
      BY <2>1 DEF Visit, Instrumentation, MaybeLog, CheckFailure, CheckGlobal, Setup,
                  SetupStore, ShmGetenv, Shm, ShmSuccess, ShmPublish, Fail, Store,
                  LoadCounter, WriteCounter, SetPrev, history, TypeOK
    <2> QED
      BY <2>1 DEF Next, Done, vars, history, SetUpInv
  <1> USE <1>0 DEF OrderlySetUp, SetUpOK, AloneInSetUp, Setting, TypeOK, At, Goto, pointers,
                   registers, fixed, history
  <1>1. ASSUME NEW t \in Threads, Visit(t) PROVE OrderlySetUp'
    BY <1>1 DEF Visit
  <1>2. ASSUME NEW t \in Threads, MaybeLog(t) PROVE OrderlySetUp'
    BY <1>2, MaybeLogKeeps
  <1>3. ASSUME NEW t \in Threads, CheckFailure(t) PROVE OrderlySetUp'
    BY <1>3 DEF CheckFailure
  <1>4. ASSUME NEW t \in Threads, CheckGlobal(t) PROVE OrderlySetUp'
    BY <1>4 DEF CheckGlobal
  <1>5. ASSUME NEW t \in Threads, Setup(t) PROVE OrderlySetUp'
    BY <1>5 DEF Setup
  <1>6. ASSUME NEW t \in Threads, SetupStore(t) PROVE OrderlySetUp'
    BY <1>6 DEF SetupStore
  <1>7. ASSUME NEW t \in Threads, ShmGetenv(t) PROVE OrderlySetUp'
    BY <1>7 DEF ShmGetenv
  <1>8. ASSUME NEW t \in Threads, Shm(t) PROVE OrderlySetUp'
    BY <1>8 DEF Shm
  <1>9. ASSUME NEW t \in Threads, ShmSuccess(t) PROVE OrderlySetUp'
    BY <1>9 DEF ShmSuccess
  <1>10. ASSUME NEW t \in Threads, ShmPublish(t) PROVE OrderlySetUp'
    BY <1>10 DEF ShmPublish
  <1>11. ASSUME NEW t \in Threads, Fail(t) PROVE OrderlySetUp'
    BY <1>11 DEF Fail
  <1>12. ASSUME NEW t \in Threads, Store(t) PROVE OrderlySetUp'
    BY <1>12 DEF Store
  <1>13. ASSUME NEW t \in Threads, LoadCounter(t) PROVE OrderlySetUp'
    BY <1>13 DEF LoadCounter
  <1>14. ASSUME NEW t \in Threads, WriteCounter(t) PROVE OrderlySetUp'
    BY <1>14 DEF WriteCounter
  <1>15. ASSUME NEW t \in Threads, SetPrev(t) PROVE OrderlySetUp'
    BY <1>15 DEF SetPrev
  <1>16. CASE UNCHANGED vars
    BY <1>16 DEF vars
  <1> HIDE DEF OrderlySetUp
  <1> QED
    BY <1>1, <1>2, <1>3, <1>4, <1>5, <1>6, <1>7, <1>8, <1>9, <1>10, <1>11, <1>12, <1>13,
       <1>14, <1>15, <1>16 DEF Next, Done, Instrumentation

(* Until two threads are in the set-up at once, the pointers are set       *)
(* together and the set-up leaves its mark; afl_setup is not reached.      *)
THEOREM SetUpInvariance == Spec => []SetUpInv
  <1>1. Init => SetUpInv
    BY DEF Init, SetUpInv, OrderlySetUp, SetUpOK, AloneInSetUp, Setting
  <1>2. TypeOK /\ SetUpInv /\ [Next]_vars => SetUpInv'
    BY SetUpStep
  <1> QED
    BY <1>1, <1>2, TypeCorrect, PTL DEF Spec

(* A program in which no two threads are in the set-up at once tries to    *)
(* attach the segment at most once, however many threads it has.           *)
THEOREM SetUpHappensOnce == Spec => []SetUpOnce
  <1>1. SetUpInv => SetUpOnce
    BY DEF SetUpInv, OrderlySetUp, SetUpOnce
  <1> QED
    BY <1>1, SetUpInvariance, PTL

(* None of its threads goes through a null or wild area pointer.           *)
THEOREM OrderlySetUpNeverCrashes == Spec => []NeverCrashes
  <1>1. SetUpInv => NeverCrashes
    BY DEF SetUpInv, OrderlySetUp, NeverCrashes
  <1> QED
    BY <1>1, SetUpInvariance, PTL

-----------------------------------------------------------------------------
(* What the bitmap counts.                                                 *)

(* A sum over a set is what a function gives that adds up its subsets, in  *)
(* the order their elements are chosen.                                    *)
Chosen(s) == CHOOSE e \in s : TRUE
AddsUp(f, h, S) ==
  f = [s \in SUBSET S |-> IF s = {} THEN 0 ELSE h[Chosen(s)] + f[s \ {Chosen(s)}]]
Sum(h, S) == (CHOOSE f : AddsUp(f, h, S))[S]

(* There is one sum: take a smallest set on which two would differ.        *)
LEMMA OneSum ==
  ASSUME NEW S, IsFiniteSet(S), NEW h, NEW f, AddsUp(f, h, S), NEW g, AddsUp(g, h, S)
  PROVE  f[S] = g[S]
  <1> DEFINE Bad == {s \in SUBSET S : f[s] # g[s]}
  <1> SUFFICES ASSUME Bad # {} PROVE FALSE
    OBVIOUS
  <1>1. Bad \in SUBSET FiniteSubsetsOf(S)
    BY FS_Subset DEF FiniteSubsetsOf
  <1>2. PICK s \in Bad : \A t \in Bad : <<t, s>> \notin StrictSubsetOrdering(S)
    BY <1>1, FS_StrictSubsetOrderingWellFounded, WFMin
  <1>3. s \in SUBSET S /\ f[s] # g[s]
    OBVIOUS
  <1>4. /\ f[s] = IF s = {} THEN 0 ELSE h[Chosen(s)] + f[s \ {Chosen(s)}]
        /\ g[s] = IF s = {} THEN 0 ELSE h[Chosen(s)] + g[s \ {Chosen(s)}]
    BY <1>3 DEF AddsUp
  <1> DEFINE t == s \ {Chosen(s)}
  <1>5. s # {} /\ f[t] # g[t]
    BY <1>3, <1>4
  <1>6. Chosen(s) \in s
    BY <1>5 DEF Chosen
  <1>7. t \in Bad /\ t \subseteq s /\ t # s
    BY <1>3, <1>5, <1>6
  <1>8. <<t, s>> \in StrictSubsetOrdering(S)
    BY <1>3, <1>7 DEF StrictSubsetOrdering
  <1> QED
    BY <1>2, <1>7, <1>8

LEMMA SumIs ==
  ASSUME NEW S, IsFiniteSet(S), NEW h, NEW f, AddsUp(f, h, S)
  PROVE  Sum(h, S) = f[S]
  <1>1. AddsUp(CHOOSE g : AddsUp(g, h, S), h, S)
    OBVIOUS
  <1> QED
    BY <1>1, OneSum DEF Sum

LEMMA SumOfZeroes ==
  ASSUME NEW S, NEW h, \A e \in S : h[e] = 0
  PROVE  AddsUp([s \in SUBSET S |-> 0], h, S)
  <1> DEFINE f == [s \in SUBSET S |-> 0]
  <1>1. ASSUME NEW s \in SUBSET S
        PROVE  0 = IF s = {} THEN 0 ELSE h[Chosen(s)] + f[s \ {Chosen(s)}]
    <2>1. s # {} => Chosen(s) \in s /\ f[s \ {Chosen(s)}] = 0
      BY DEF Chosen
    <2> QED
      BY <2>1
  <1> QED
    BY <1>1 DEF AddsUp

(* One more of an element is one more of each set that has it.             *)
Grown(f, e, S) == [s \in SUBSET S |-> IF e \in s THEN f[s] + 1 ELSE f[s]]

LEMMA SumGrows ==
  ASSUME NEW D, NEW h \in [D -> Nat], NEW S \in SUBSET D, NEW e \in D,
         NEW f \in [SUBSET S -> Nat], AddsUp(f, h, S)
  PROVE  /\ Grown(f, e, S) \in [SUBSET S -> Nat]
         /\ AddsUp(Grown(f, e, S), [h EXCEPT ![e] = @ + 1], S)
  <1> DEFINE g == [s \in SUBSET S |-> IF e \in s THEN f[s] + 1 ELSE f[s]]
             k == [h EXCEPT ![e] = @ + 1]
  <1>1. ASSUME NEW s \in SUBSET S
        PROVE  (IF e \in s THEN f[s] + 1 ELSE f[s]) =
                 IF s = {} THEN 0 ELSE k[Chosen(s)] + g[s \ {Chosen(s)}]
    <2>1. f[s] = IF s = {} THEN 0 ELSE h[Chosen(s)] + f[s \ {Chosen(s)}]
      BY DEF AddsUp
    <2>2. CASE s = {}
      BY <2>1, <2>2
    <2>3. CASE s # {}
      <3> DEFINE c == Chosen(s)
                 r == s \ {c}
      <3>1. c \in s /\ c \in D
        BY <2>3 DEF Chosen
      <3> HIDE DEF c
      <3>2. r \in SUBSET S /\ f[r] \in Nat /\ h[c] \in Nat /\ f[s] = h[c] + f[r]
        BY <2>1, <2>3, <3>1 DEF c
      <3>3. g[r] = IF e \in r THEN f[r] + 1 ELSE f[r]
        BY <3>2
      <3>4. k[c] = IF c = e THEN h[c] + 1 ELSE h[c]
        BY <3>1
      <3>5. e \in s <=> c = e \/ e \in r
        BY <3>1
      <3> HIDE DEF r, k, g
      <3>6. (IF e \in s THEN f[s] + 1 ELSE f[s]) = k[c] + g[r]
        <4>1. c = e => e \notin r
          BY DEF r
        <4> QED
          BY <3>2, <3>3, <3>4, <3>5, <4>1
      <3> QED
        BY <2>3, <3>6 DEF r, c
    <2> QED
      BY <2>2, <2>3
  <1>2. g \in [SUBSET S -> Nat]
    OBVIOUS
  <1> QED
    BY <1>1, <1>2 DEF AddsUp, Grown

(* A quotient with a remainder below the divisor is the quotient.          *)
LEMMA Remainder ==
  ASSUME NEW w \in Nat \ {0}, NEW q \in Nat, NEW r \in 0 .. (w - 1)
  PROVE  (w * q + r) % w = r
  <1> DEFINE a == w * q + r  p == a \div w  d == a % w
  <1>1. a \in Nat
    OBVIOUS
  <1>2. a = w * p + d /\ d \in 0 .. (w - 1) /\ p \in Int
    BY <1>1
  <1> HIDE DEF p, d
  <1>3. w * (q - p) = d - r
    BY <1>2
  <1>4. q - p \in Int /\ d - r \in Int /\ d - r < w /\ d - r > -w
    BY <1>2
  <1>5. \A k \in Int : k >= 1 => w * k >= w
    OBVIOUS
  <1>6. \A k \in Int : k =< -1 => w * k =< -w
    OBVIOUS
  <1>7. q - p = 0
    BY <1>3, <1>4, <1>5, <1>6
  <1>8. d = r
    BY <1>2, <1>3, <1>7
  <1> QED
    BY <1>8 DEF d

LEMMA OneMore ==
  ASSUME NEW n \in Nat
  PROVE  Succ(n % Wrap) = (n + 1) % Wrap
  <1>1. PICK w \in Nat \ {0} : w = Wrap
    BY ConstantsAssumption
  <1>2. PICK q \in Nat, r \in 0 .. (w - 1) : n = w * q + r
    <2>1. n \div w \in Nat /\ n % w \in 0 .. (w - 1) /\ n = w * (n \div w) + (n % w)
      OBVIOUS
    <2> QED
      BY <2>1
  <1>3. n % w = r
    BY <1>2, Remainder
  <1>4. CASE r + 1 < w
    <2>1. (w * q + (r + 1)) % w = r + 1
      BY <1>4, Remainder
    <2>2. (w * 0 + (r + 1)) % w = r + 1
      BY <1>4, Remainder
    <2>3. n + 1 = w * q + (r + 1) /\ w * 0 + (r + 1) = r + 1
      BY <1>2
    <2>4. (n + 1) % w = r + 1
      BY <2>1, <2>3
    <2>5. (r + 1) % w = r + 1
      BY <2>2, <2>3
    <2> QED
      BY <1>1, <1>3, <2>4, <2>5 DEF Succ
  <1>5. CASE r + 1 = w
    <2>1. (w * (q + 1) + 0) % w = 0
      BY Remainder
    <2>2. (w * 1 + 0) % w = 0
      BY Remainder
    <2>3. n + 1 = w * (q + 1) + 0 /\ w * 1 + 0 = r + 1
      BY <1>2, <1>5
    <2>4. (n + 1) % w = 0
      BY <2>1, <2>3
    <2>5. (r + 1) % w = 0
      BY <2>2, <2>3
    <2> QED
      BY <1>1, <1>3, <2>4, <2>5 DEF Succ
  <1> QED
    BY <1>4, <1>5

(* The edges that share the counter at l.                                  *)
Here(l) == {e \in Edges : Edge(LocOf(e[1]), loc[e[2]]) = l}

LEMMA HereIsFinite ==
  ASSUME NEW l
  PROVE  IsFiniteSet(Here(l)) /\ Here(l) \in SUBSET Edges
  <1>1. IsFiniteSet(Edges)
    BY ConstantsAssumption, FS_Product, FS_AddElement DEF Edges
  <1> QED
    BY <1>1, FS_Subset DEF Here

(* The inductive invariant: each counter holds the sum of its edges, and   *)
(* each thread that is about to write, alone at its counter, writes the    *)
(* successor of what that holds.                                           *)
Holds(n, h, S) == \E f \in [SUBSET S -> Nat] : AddsUp(f, h, S) /\ n = f[S] % Wrap
AllHold == \A l \in Loc : Holds(map[l], hits, Here(l))
WriterOK(t) ==
  pc[t] = "write" =>
    /\ cnt[t] = map[idx[t]]
    /\ \A u \in Threads \ {t} : pc[u] = "write" => idx[u] # idx[t]
SumsInv == ~overlapped => AllHold /\ \A t \in Threads : WriterOK(t)

LEMMA SumsInit == Init => SumsInv
  <1> SUFFICES ASSUME Init PROVE SumsInv
    OBVIOUS
  <1>1. ASSUME NEW l \in Loc
        PROVE  \E f \in [SUBSET Here(l) -> Nat] :
                 AddsUp(f, hits, Here(l)) /\ map[l] = f[Here(l)] % Wrap
    <2> DEFINE f == [s \in SUBSET Here(l) |-> 0]
    <2>1. \A e \in Here(l) : hits[e] = 0
      BY DEF Init, Here, Edges
    <2>2. AddsUp(f, hits, Here(l))
      BY <2>1, SumOfZeroes
    <2>3. map[l] = 0 /\ f[Here(l)] = 0 /\ 0 % Wrap = 0
      BY ConstantsAssumption DEF Init
    <2>4. f \in [SUBSET Here(l) -> Nat]
      OBVIOUS
    <2> HIDE DEF f
    <2> QED
      BY <2>2, <2>3, <2>4
  <1>2. \A t \in Threads : pc[t] # "write"
    BY DEF Init
  <1> QED
    BY <1>1, <1>2 DEF SumsInv, AllHold, WriterOK, Holds

LEMMA CountedKeeps ==
  ASSUME NEW u \in Threads, TypeOK, OwnEdges, AllHold, WriterOK(u), WriteCounter(u)
  PROVE  AllHold'
  <1>1. PICK e \in Edges : e = <<last[u], at[u]>>
    BY DEF TypeOK, Edges
  <1>2. PICK i \in Loc : i = idx[u]
    BY DEF TypeOK
  <1>3. /\ pc[u] = "write" /\ pc' = [pc EXCEPT ![u] = "set_prev"]
        /\ map' = [map EXCEPT ![i] = Succ(cnt[u])]
        /\ hits' = [hits EXCEPT ![e] = @ + 1]
        /\ loc' = loc
    BY <1>1, <1>2 DEF WriteCounter, At, Goto, fixed
  <1>4. i = Edge(LocOf(e[1]), loc[e[2]]) /\ cnt[u] = map[i]
    BY <1>1, <1>2, <1>3 DEF OwnEdges, WriterOK
  <1>5. \A l \in Loc : Here(l)' = Here(l) /\ (e \in Here(l) <=> l = i)
    BY <1>3, <1>4 DEF Here, LocOf
  <1>6. ASSUME NEW l \in Loc
        PROVE  Holds(map'[l], hits', Here(l))
    <2>1. PICK S \in SUBSET Edges : S = Here(l)
      BY HereIsFinite
    <2>2. PICK f \in [SUBSET S -> Nat] : AddsUp(f, hits, S) /\ map[l] = f[S] % Wrap
      BY <2>1 DEF AllHold, Holds
    <2> DEFINE g == Grown(f, e, S)
    <2>3. hits \in [Edges -> Nat]
      BY DEF TypeOK
    <2>4. g \in [SUBSET S -> Nat] /\ AddsUp(g, hits', S)
      BY <1>3, <2>2, <2>3, SumGrows
    <2>5. g[S] = IF l = i THEN f[S] + 1 ELSE f[S]
      BY <1>5, <2>1 DEF Grown
    <2>6. f[S] \in Nat
      OBVIOUS
    <2>7. map'[l] = IF l = i THEN Succ(map[l]) ELSE map[l]
      BY <1>3, <1>4 DEF TypeOK
    <2> HIDE DEF g
    <2>8. map'[l] = g[S] % Wrap
      BY <2>2, <2>5, <2>6, <2>7, OneMore
    <2> QED
      BY <2>1, <2>4, <2>8 DEF Holds
  <1> QED
    BY <1>5, <1>6 DEF AllHold

LEMMA SumsStep ==
  ASSUME TypeOK, OwnEdges, SumsInv, [Next]_vars
  PROVE  SumsInv'
  <1> SUFFICES ASSUME ~overlapped' PROVE AllHold' /\ \A t \in Threads : WriterOK(t)'
    BY DEF SumsInv
  <1>0. ~overlapped /\ AllHold /\ \A t \in Threads : WriterOK(t)
    <2>1. ASSUME NEW t \in Threads, Visit(t) \/ Instrumentation(t) PROVE ~overlapped
      BY <2>1 DEF Visit, Instrumentation, MaybeLog, CheckFailure, CheckGlobal, Setup,
                  SetupStore, ShmGetenv, Shm, ShmSuccess, ShmPublish, Fail, Store,
                  LoadCounter, WriteCounter, SetPrev, history, TypeOK
    <2> QED
      BY <2>1 DEF Next, Done, vars, history, SumsInv
  <1>1. ASSUME UNCHANGED <<map, hits, loc>> PROVE AllHold'
    <2>1. \A l \in Loc : Here(l)' = Here(l)
      BY <1>1 DEF Here, LocOf
    <2> QED
      BY <1>0, <1>1, <2>1 DEF AllHold
  <1> USE DEF TypeOK, At, Goto, pointers, registers, fixed, history
  <1>2. ASSUME NEW u \in Threads, WriteCounter(u)
        PROVE  AllHold' /\ \A t \in Threads : WriterOK(t)'
    <2>1. AllHold'
      BY <1>0, <1>2, CountedKeeps
    <2>2. /\ pc[u] = "write" /\ pc' = [pc EXCEPT ![u] = "set_prev"] /\ idx' = idx /\ cnt' = cnt
          /\ map' = [map EXCEPT ![idx[u]] = Succ(cnt[u])]
      BY <1>2 DEF WriteCounter
    <2>3. ASSUME NEW t \in Threads PROVE WriterOK(t)'
      BY <1>0, <2>2 DEF WriterOK
    <2> QED
      BY <2>1, <2>3
  <1>3. ASSUME NEW u \in Threads, LoadCounter(u)
        PROVE  AllHold' /\ \A t \in Threads : WriterOK(t)'
    <2>1. /\ UNCHANGED <<map, hits, loc, idx>> /\ pc[u] = "load"
          /\ \/ cnt' = [cnt EXCEPT ![u] = map[idx[u]]] /\ pc' = [pc EXCEPT ![u] = "write"]
             \/ UNCHANGED <<cnt, pc>>
          /\ \A t \in Threads \ {u} : pc[t] = "write" => idx[t] # idx[u]
      BY <1>3 DEF LoadCounter
    <2>2. ASSUME NEW t \in Threads PROVE WriterOK(t)'
      BY <1>0, <2>1 DEF WriterOK
    <2> QED
      BY <1>1, <2>1, <2>2
  <1>4. ASSUME NEW u \in Threads,
               \/ Visit(u) \/ MaybeLog(u) \/ CheckFailure(u) \/ CheckGlobal(u) \/ Setup(u)
               \/ SetupStore(u) \/ ShmGetenv(u) \/ Shm(u) \/ ShmSuccess(u) \/ ShmPublish(u)
               \/ Fail(u) \/ Store(u) \/ SetPrev(u)
        PROVE  AllHold' /\ \A t \in Threads : WriterOK(t)'
    <2>1. /\ UNCHANGED <<map, hits, loc, cnt>> /\ pc[u] # "write"
          /\ pc'[u] # "write" /\ \A t \in Threads \ {u} : pc'[t] = pc[t]
          /\ \A t \in Threads \ {u} : idx'[t] = idx[t]
      BY <1>4 DEF Visit, MaybeLog, CheckFailure, CheckGlobal, Setup, SetupStore, ShmGetenv,
                  Shm, ShmSuccess, ShmPublish, Fail, Store, SetPrev
    <2>2. ASSUME NEW t \in Threads PROVE WriterOK(t)'
      BY <1>0, <2>1 DEF WriterOK
    <2> QED
      BY <1>1, <2>1, <2>2
  <1>5. CASE UNCHANGED vars
    BY <1>0, <1>1, <1>5 DEF vars, WriterOK
  <1> QED
    BY <1>2, <1>3, <1>4, <1>5 DEF Next, Done, Instrumentation

(* The bitmap counts the edges of all threads together, as long as no two  *)
(* of them increment one counter at once, however many blocks the program  *)
(* has, wherever random() puts them and however often a counter wraps.     *)
THEOREM BitmapCountsEdges == Spec => []CountsEdges
  <1>1. TypeOK /\ OwnEdges /\ SumsInv /\ [Next]_vars => SumsInv'
    BY SumsStep
  <1>2. SumsInv => CountsEdges
    <2> SUFFICES ASSUME SumsInv, ~overlapped, NEW l \in Loc
                 PROVE  map[l] = MapThenSumSet(LAMBDA e : hits[e], Here(l)) % Wrap
      BY DEF CountsEdges, Here
    <2>1. MapThenSumSet(LAMBDA e : hits[e], Here(l)) = Sum(hits, Here(l))
      BY DEF MapThenSumSet, MapThenFoldSet, Sum, AddsUp, Chosen
    <2>2. PICK f \in [SUBSET Here(l) -> Nat] :
            AddsUp(f, hits, Here(l)) /\ map[l] = f[Here(l)] % Wrap
      BY DEF SumsInv, AllHold, Holds
    <2>3. Sum(hits, Here(l)) = f[Here(l)]
      BY <2>2, HereIsFinite, SumIs
    <2> QED
      BY <2>1, <2>2, <2>3
  <1> QED
    BY <1>1, <1>2, SumsInit, EdgesAreOwn, TypeCorrect, PTL DEF Spec
=============================================================================
