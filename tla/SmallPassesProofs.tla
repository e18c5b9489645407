-------------------------- MODULE SmallPassesProofs --------------------------
(***************************************************************************)
(* Proofs about the smaller passes: about Counters for any number of       *)
(* threads and entries, about BranchPasses for any function, and about     *)
(* InsertingPasses for any function.                                       *)
(***************************************************************************)
EXTENDS Counters, BranchPasses, InsertingPasses,
        SequenceTheorems, FiniteSetTheorems, TLAPS

-----------------------------------------------------------------------------
(* The counters.                                                           *)

LEMMA StartHolds == CtrInit => CtrInv
<1> SUFFICES ASSUME CtrInit PROVE CtrInv
  OBVIOUS
<1>1. /\ step \in [Threads -> {"program", "loaded", "stored"}]
      /\ \A t \in Threads : step[t] = "program"
      /\ load \in [Threads -> Nat]
      /\ printed \in Seq(Nat) /\ Len(printed) = 0 /\ DOMAIN printed = {}
  BY CounterAssumption DEF CtrInit
<1>2. glob = Leet /\ glob \in Nat /\ entries = 0
  BY CounterAssumption DEF CtrInit
<1>0. prints \in BOOLEAN /\ overlapped \in BOOLEAN /\ ~overlapped
  BY Zenon DEF CtrInit
<1>3. CountsEntries
  BY <1>1, <1>2, CounterAssumption DEF CountsEntries
<1>4. glob >= Leet
  BY <1>2, CounterAssumption
<1>5. Len(printed) = entries - (IF \E t \in Threads : step[t] = "stored" THEN 1 ELSE 0)
  <2>1. ~ \E t \in Threads : step[t] = "stored"
    BY <1>1
  <2>2. Len(printed) = entries - 0
    BY <1>1, <1>2
  <2> QED
    BY <2>1, <2>2
<1>6. \A t \in Threads : step[t] # "loaded" /\ step[t] # "stored"
  BY <1>1
<1> QED
  BY <1>0, <1>1, <1>2, <1>3, <1>4, <1>5, <1>6 DEF CtrInv

LEMMA LoadKeeps ==
  ASSUME CtrInv, NEW t \in Threads, LoadGlob(t)
  PROVE  CtrInv'
<1>1. /\ step[t] = "program"
      /\ step' = [step EXCEPT ![t] = "loaded"] /\ load' = [load EXCEPT ![t] = glob]
      /\ overlapped' = (overlapped \/ \E u \in Threads : step[u] # "program")
      /\ UNCHANGED <<prints, glob, entries, printed>>
  BY DEF LoadGlob
<1>2. /\ step' \in [Threads -> {"program", "loaded", "stored"}] /\ step'[t] = "loaded"
      /\ load' \in [Threads -> Nat] /\ load'[t] = glob
      /\ \A u \in Threads \ {t} : step'[u] = step[u] /\ load'[u] = load[u]
  BY <1>1 DEF CtrInv
<1>3. overlapped' \in BOOLEAN /\ (~overlapped' => ~overlapped)
  BY <1>1 DEF CtrInv
<1>4. ~overlapped' => \A u \in Threads \ {t} : step'[u] = "program"
  BY <1>1, <1>2
<1>5. (\E u \in Threads : step'[u] = "stored") => \E u \in Threads : step[u] = "stored"
  BY <1>2
<1>6. (\E u \in Threads : step[u] = "stored") => \E u \in Threads : step'[u] = "stored"
  BY <1>1, <1>2
<1>7. CountsEntries'
  BY <1>1, <1>3 DEF CountsEntries, CtrInv
<1>8. ~overlapped' =>
        /\ \A v, u \in Threads : step'[v] # "program" /\ step'[u] # "program" => v = u
        /\ \A u \in Threads : step'[u] = "loaded" => load'[u] = glob
        /\ prints => Len(printed) =
             entries - (IF \E u \in Threads : step'[u] = "stored" THEN 1 ELSE 0)
  BY <1>2, <1>3, <1>4, <1>5, <1>6 DEF CtrInv
<1>9. glob \in Leet .. Leet + entries
  BY CounterAssumption DEF CtrInv, CountsEntries
<1> QED
  BY <1>1, <1>2, <1>3, <1>7, <1>8, <1>9 DEF CtrInv

LEMMA StoreKeeps ==
  ASSUME CtrInv, NEW t \in Threads, StoreInc(t)
  PROVE  CtrInv'
<1>1. /\ step[t] = "loaded" /\ glob' = load[t] + 1 /\ entries' = entries + 1
      /\ step' = [step EXCEPT ![t] = IF prints THEN "stored" ELSE "program"]
      /\ UNCHANGED <<prints, load, overlapped, printed>>
  BY DEF StoreInc
<1>2. /\ step' \in [Threads -> {"program", "loaded", "stored"}]
      /\ step'[t] = IF prints THEN "stored" ELSE "program"
      /\ \A u \in Threads \ {t} : step'[u] = step[u]
  BY <1>1 DEF CtrInv
<1>3. /\ load[t] \in Leet .. Leet + entries /\ load[t] \in Nat /\ entries \in Nat /\ Leet \in Nat
      /\ glob \in Nat /\ glob' \in Nat /\ glob' >= Leet /\ entries' \in Nat
  BY <1>1, CounterAssumption DEF CtrInv
<1>4. ~overlapped => /\ \A u \in Threads \ {t} : step[u] = "program"
                     /\ load[t] = glob
                     /\ ~ \E u \in Threads : step[u] = "stored"
  BY <1>1 DEF CtrInv
<1>5. CountsEntries'
  BY <1>1, <1>3, <1>4 DEF CountsEntries, CtrInv
<1>6. \A u \in Threads :
        /\ step'[u] = "loaded" => load[u] \in Leet .. Leet + entries'
        /\ step'[u] = "stored" => entries' > 0
        /\ ~prints => step'[u] # "stored"
  BY <1>1, <1>2, <1>3, CounterAssumption DEF CtrInv
<1>7. ASSUME ~overlapped
      PROVE  /\ \A v, u \in Threads : step'[v] # "program" /\ step'[u] # "program" => v = u
             /\ \A u \in Threads : step'[u] = "loaded" => load[u] = glob'
             /\ prints => Len(printed) =
                  entries' - (IF \E u \in Threads : step'[u] = "stored" THEN 1 ELSE 0)
  <2>1. prints => (\E u \in Threads : step'[u] = "stored")
    BY <1>2
  <2>2. prints => Len(printed) = entries
    BY <1>4, <1>7, <1>3 DEF CtrInv
  <2>3. prints => Len(printed) = entries' - 1
    BY <1>1, <1>3, <2>2
  <2> QED
    BY <1>2, <1>4, <1>7, <2>1, <2>3
<1> QED
  BY <1>1, <1>2, <1>3, <1>5, <1>6, <1>7 DEF CtrInv

LEMMA PrintKeeps ==
  ASSUME CtrInv, NEW t \in Threads, CallPrintf(t)
  PROVE  CtrInv'
<1>1. /\ step[t] = "stored" /\ printed' = Append(printed, glob)
      /\ step' = [step EXCEPT ![t] = "program"]
      /\ UNCHANGED <<prints, glob, load, entries, overlapped>>
  BY DEF CallPrintf
<1>2. /\ step' \in [Threads -> {"program", "loaded", "stored"}]
      /\ step'[t] = "program"
      /\ \A u \in Threads \ {t} : step'[u] = step[u]
  BY <1>1 DEF CtrInv
<1>3. /\ printed' \in Seq(Nat) /\ Len(printed') = Len(printed) + 1 /\ Len(printed) \in Nat
      /\ printed'[Len(printed) + 1] = glob
      /\ \A i \in 1 .. Len(printed) : printed'[i] = printed[i]
      /\ DOMAIN printed' = 1 .. Len(printed) + 1 /\ DOMAIN printed = 1 .. Len(printed)
  BY <1>1, AppendProperties DEF CtrInv
<1>4. entries > 0 /\ prints /\ entries \in Nat /\ glob \in Nat /\ Leet \in Nat
  BY <1>1, CounterAssumption DEF CtrInv
<1>5. ~overlapped => Len(printed) = entries - 1 /\ \A u \in Threads : step'[u] = "program"
  BY <1>1, <1>2, <1>4 DEF CtrInv
<1>6. glob \in Leet + 1 .. Leet + entries
  BY <1>4 DEF CtrInv, CountsEntries
<1>7. \A i \in DOMAIN printed' : printed'[i] \in Leet + 1 .. Leet + entries
  <2>1. \A i \in DOMAIN printed : printed[i] \in Leet + 1 .. Leet + entries
    BY DEF CtrInv, CountsEntries
  <2> QED
    BY <1>3, <1>6, <2>1
<1>8. ~overlapped => \A i \in DOMAIN printed' : printed'[i] = Leet + i
  <2>1. ~overlapped => glob = Leet + entries /\ \A i \in DOMAIN printed : printed[i] = Leet + i
    BY DEF CtrInv, CountsEntries
  <2> QED
    BY <1>3, <1>4, <1>5, <2>1
<1>9. CountsEntries'
  BY <1>1, <1>7, <1>8 DEF CtrInv, CountsEntries
<1>10. ASSUME ~overlapped
       PROVE  Len(printed') = entries - (IF \E u \in Threads : step'[u] = "stored" THEN 1 ELSE 0)
  BY <1>3, <1>4, <1>5, <1>10
<1>11. \A u \in Threads :
        /\ step'[u] = "loaded" => load[u] \in Leet .. Leet + entries
        /\ step'[u] = "stored" => entries > 0
        /\ ~prints => step'[u] # "stored"
  BY <1>2 DEF CtrInv
<1>12. ~overlapped =>
         /\ \A v, u \in Threads : step'[v] # "program" /\ step'[u] # "program" => v = u
         /\ \A u \in Threads : step'[u] = "loaded" => load[u] = glob
  BY <1>5
<1> QED
  BY <1>1, <1>2, <1>3, <1>9, <1>10, <1>11, <1>12 DEF CtrInv

(* The inductive invariant of the counting threads.                        *)
THEOREM Invariance == CtrSpec => []CtrInv
<1>1. CtrInv /\ [CtrNext]_ctrVars => CtrInv'
  <2> SUFFICES ASSUME CtrInv, [CtrNext]_ctrVars PROVE CtrInv'
    OBVIOUS
  <2>1. CASE CtrNext
    BY <2>1, LoadKeeps, StoreKeeps, PrintKeeps DEF CtrNext
  <2>2. CASE UNCHANGED ctrVars
    BY <2>2 DEF ctrVars, CtrInv, CountsEntries
  <2> QED
    BY <2>1, <2>2
<1> QED
  BY <1>1, StartHolds, PTL DEF CtrSpec

(* However many threads count at once, the counter never exceeds the       *)
(* entries; without overlap it and the numbers printed are exact           *)
(* (PrintFuncPass, ExampleModulePass).                                     *)
THEOREM EntriesAreCounted == CtrSpec => []CountsEntries
<1>1. CtrInv => CountsEntries
  BY DEF CtrInv
<1> QED
  BY <1>1, Invariance, PTL

-----------------------------------------------------------------------------
(* The branches.                                                           *)

LEMMA BranchesStart == BrInit => BrInv
<1> SUFFICES ASSUME BrInit PROVE BrInv
  OBVIOUS
<1>1. compiled \in [Blocks -> Terminator \cup Comparison] /\ rewritten = compiled
      /\ unseen = Blocks /\ magics = << >>
  BY BranchingAssumption DEF BrInit
<1>2. fuzzFirst \in BOOLEAN
  BY DEF BrInit
<1> QED
  BY <1>1, <1>2 DEF BrInv, MagicsTurn

(* What T-Fuzz does to the block it is given.                              *)
LEMMA FuzzTurns ==
  ASSUME BrInv, NEW b \in unseen
  PROVE  /\ IsEquality(rewritten, b) <=> IsEquality(compiled, b)
         /\ rewritten[b] = compiled[b]
         /\ TFuzz(rewritten, b) = [c \in Blocks |->
              IF IsEquality(compiled, c) /\ c \notin unseen \ {b}
              THEN Turned(compiled[c]) ELSE compiled[c]]
<1>1. b \in Blocks /\ rewritten[b] = compiled[b] /\ DOMAIN rewritten = Blocks
  BY DEF BrInv
<1>2. IsEquality(rewritten, b) <=> IsEquality(compiled, b)
  BY <1>1 DEF IsEquality
<1>3. CASE IsEquality(compiled, b)
  <2>1. TFuzz(rewritten, b) = [rewritten EXCEPT ![b] = Turned(compiled[b])]
    BY <1>1, <1>2, <1>3, Zenon DEF TFuzz, Turned
  <2> HIDE DEF TFuzz
  <2> QED
    BY <1>1, <1>2, <1>3, <2>1 DEF BrInv
<1>4. CASE ~IsEquality(compiled, b)
  <2>1. TFuzz(rewritten, b) = rewritten
    BY <1>2, <1>4 DEF TFuzz
  <2> QED
    BY <1>1, <1>2, <1>4, <2>1 DEF BrInv
<1> QED
  BY <1>1, <1>2, <1>3, <1>4

(* An exchanged branch takes the other way, whatever is compared.          *)
LEMMA TurnedTakesTheOther ==
  ASSUME NEW test \in Test, NEW w \in Word
  PROVE  /\ Turned(test) \in Test /\ Value(Turned(test)) = Value(test)
         /\ Zero(Turned(test)) <=> Zero(test)
         /\ Turned(test).size = test.size
         /\ {Outcome(w, test), Outcome(w, Turned(test))} = {test.yes, test.no}
<1>1. /\ Turned(test) \in Test
      /\ Turned(test).size = test.size /\ Turned(test).magic = test.magic
      /\ Turned(test).ne = test.ne /\ Turned(test).yes = test.no
      /\ Turned(test).no = test.yes
  BY DEF Turned, Test
<1>2. Value(Turned(test)) = Value(test) /\ (Equal(w, Turned(test)) <=> Equal(w, test))
  BY <1>1 DEF Value, Equal
<1>3. Zero(Turned(test)) <=> Zero(test)
  BY <1>2 DEF Zero
<1>4. test.ne \in BOOLEAN /\ Equal(w, test) \in BOOLEAN /\ Equal(w, Turned(test)) \in BOOLEAN
  BY DEF Test, Equal
<1>5. Outcome(w, test) = (IF Equal(w, test) # test.ne THEN test.yes ELSE test.no)
      /\ Outcome(w, Turned(test)) = (IF Equal(w, test) # test.ne THEN test.no ELSE test.yes)
  BY <1>1, <1>2, <1>4, Zenon DEF Outcome
<1> HIDE DEF Turned, Value, Zero, Outcome
<1> QED
  BY <1>1, <1>2, <1>3, <1>5

LEMMA BlockKeeps ==
  ASSUME BrInv, NEW b \in Blocks, RunOnBlock(b)
  PROVE  BrInv'
<1>1. /\ b \in unseen /\ unseen' = unseen \ {b} /\ rewritten' = TFuzz(rewritten, b)
      /\ magics' = Extract(IF fuzzFirst THEN rewritten' ELSE rewritten, b)
      /\ compiled' = compiled /\ fuzzFirst' = fuzzFirst
  BY DEF RunOnBlock
<1>2. /\ rewritten[b] = compiled[b]
      /\ rewritten' = [c \in Blocks |->
              IF IsEquality(compiled, c) /\ c \notin unseen'
              THEN Turned(compiled[c]) ELSE compiled[c]]
  BY <1>1, FuzzTurns
<1> DEFINE given == IF fuzzFirst THEN rewritten' ELSE rewritten
<1>3. given[b] = compiled[b] \/ (IsEquality(compiled, b) /\ given[b] = Turned(compiled[b]))
  BY <1>1, <1>2
<1>w. PICK w : w \in Word
  <2>1. 0 \in Byte
    BY FunctionAssumption DEF Byte
  <2>2. [k \in 0 .. MaxSize - 1 |-> 0] \in Word
    BY <2>1 DEF Word
  <2> QED
    BY <2>2
<1>4. /\ given[b] \in Test <=> compiled[b] \in Test
      /\ compiled[b] \in Test => /\ Zero(given[b]) <=> Zero(compiled[b])
                                 /\ Value(given[b]) = Value(compiled[b])
                                 /\ given[b].size = compiled[b].size
  <2>1. compiled[b] \in Test => Turned(compiled[b]) \in Test
    BY <1>w, TurnedTakesTheOther
  <2>2. compiled[b] \in Comparison => Turned(compiled[b]) \notin Test
    BY DEF Comparison, Test, Turned
  <2>3. given[b] \in Test <=> compiled[b] \in Test
    BY <1>3, <2>1, <2>2 DEF IsEquality
  <2> QED
    BY <1>3, <1>w, <2>3, TurnedTakesTheOther
<1> DEFINE noted == [size |-> compiled[b].size, value |-> Value(compiled[b])]
<1>5. /\ compiled[b] \in Test /\ ~Zero(compiled[b]) => magics' = Append(magics, noted)
      /\ ~(compiled[b] \in Test /\ ~Zero(compiled[b])) => magics' = magics
  BY <1>1, <1>4 DEF Extract
<1>6. compiled[b] \in Test => noted \in Magic
  <2> SUFFICES ASSUME compiled[b] \in Test PROVE noted \in Magic
    OBVIOUS
  <2>1. PICK n \in 1 .. MaxSize : n = compiled[b].size
    BY DEF Test
  <2>2. compiled[b].magic \in [0 .. MaxSize - 1 -> Byte]
    BY DEF Test, Word
  <2>3. n - 1 \in 0 .. MaxSize - 1 /\ 0 .. n - 1 \subseteq 0 .. MaxSize - 1
    BY <2>1, FunctionAssumption
  <2>4. Value(compiled[b]) \in [0 .. n - 1 -> Byte]
    BY <2>1, <2>2, <2>3 DEF Value
  <2> QED
    BY <2>1, <2>3, <2>4 DEF Magic
<1> HIDE DEF noted, given
<1>7. magics' \in Seq(Magic)
  BY <1>5, <1>6, AppendProperties DEF BrInv
<1>8. /\ \A i \in DOMAIN magics : i \in DOMAIN magics' /\ magics'[i] = magics[i]
      /\ compiled[b] \in Test /\ ~Zero(compiled[b]) =>
           \E i \in DOMAIN magics' : magics'[i] = noted
  <2>1. magics \in Seq(Magic)
    BY DEF BrInv
  <2>2. CASE compiled[b] \in Test /\ ~Zero(compiled[b])
    <3>1. /\ Len(magics') = Len(magics) + 1 /\ DOMAIN magics' = 1 .. Len(magics) + 1
          /\ magics'[Len(magics) + 1] = noted
          /\ \A i \in 1 .. Len(magics) : magics'[i] = magics[i]
      BY <1>5, <1>6, <2>1, <2>2, AppendProperties
    <3> QED
      BY <2>1, <3>1
  <2>3. CASE ~(compiled[b] \in Test /\ ~Zero(compiled[b]))
    BY <1>5, <2>3
  <2> QED
    BY <2>2, <2>3
<1>9. MagicsTurn'
  <2>1. ASSUME NEW c \in Blocks \ unseen', compiled[c] \in Test
        PROVE  /\ Zero(compiled[c]) \/ \E i \in DOMAIN magics' :
                    magics'[i] = [size |-> compiled[c].size, value |-> Value(compiled[c])]
               /\ \A v \in Word :
                    {Outcome(v, compiled[c]), Outcome(v, rewritten'[c])} =
                      {compiled[c].yes, compiled[c].no}
    <3>1. rewritten'[c] = Turned(compiled[c])
      BY <1>2, <2>1 DEF IsEquality
    <3>2. \A v \in Word :
            {Outcome(v, compiled[c]), Outcome(v, rewritten'[c])} = {compiled[c].yes, compiled[c].no}
      BY <2>1, <3>1, TurnedTakesTheOther
    <3>3. CASE c = b
      BY <1>8, <2>1, <3>2, <3>3 DEF noted
    <3>4. CASE c # b
      <4>1. c \in Blocks \ unseen
        BY <1>1, <3>4
      <4>2. Zero(compiled[c]) \/ \E i \in DOMAIN magics :
              magics[i] = [size |-> compiled[c].size, value |-> Value(compiled[c])]
        BY <2>1, <4>1, Zenon DEF BrInv, MagicsTurn
      <4> QED
        BY <1>8, <3>2, <4>2
    <3> QED
      BY <3>3, <3>4
  <2>2. ASSUME NEW c \in Blocks \ unseen', compiled[c] \notin Test
        PROVE  rewritten'[c] = IF compiled[c] \in Comparison /\ compiled[c].equality
                               THEN Turned(compiled[c]) ELSE compiled[c]
    BY <1>2, <2>2 DEF IsEquality
  <2> QED
    BY <1>1, <2>1, <2>2 DEF MagicsTurn
<1>10. unseen' \subseteq Blocks
  BY <1>1 DEF BrInv
<1> QED
  BY <1>1, <1>2, <1>7, <1>9, <1>10, Zenon DEF BrInv, IsEquality

(* The inductive invariant of the two passes' walk over the blocks.        *)
THEOREM BranchInvariance == BrSpec => []BrInv
<1>1. BrInv /\ [BrNext]_brVars => BrInv'
  <2> SUFFICES ASSUME BrInv, [BrNext]_brVars PROVE BrInv'
    OBVIOUS
  <2>1. CASE BrNext
    BY <2>1, BlockKeeps DEF BrNext
  <2>2. CASE UNCHANGED brVars
    BY <2>2 DEF brVars, BrInv, MagicsTurn, IsEquality
  <2> QED
    BY <2>1, <2>2
<1> QED
  BY <1>1, BranchesStart, PTL DEF BrSpec

(* In either order of the passes, each value tested for is noted or zero,  *)
(* each test takes its other branch, other equalities are exchanged too,   *)
(* and nothing else changes (TFuzzPass, MagicValueExtractPass).            *)
THEOREM BranchesTurn == BrSpec => []MagicsTurn
<1>1. BrInv => MagicsTurn
  BY DEF BrInv
<1> QED
  BY <1>1, BranchInvariance, PTL

-----------------------------------------------------------------------------
(* The passes that put instructions in.                                    *)

(* The position of an instruction in a list that has each instruction once.*)
LEMMA ListedAt ==
  ASSUME NEW n \in Nat, NEW s, Lists(s, n)
  PROVE  /\ DOMAIN s = 1 .. n
         /\ \A i \in 1 .. n : Position(s, i) \in 1 .. n /\ s[Position(s, i)] = i
         /\ \A j \in 1 .. n : s[j] \in 1 .. n /\ Position(s, s[j]) = j
<1>1. /\ DOMAIN s = 1 .. n /\ \A j \in 1 .. n : s[j] \in 1 .. n
      /\ \A i \in 1 .. n : \E j \in 1 .. n : s[j] = i
      /\ \A j, k \in 1 .. n : s[j] = s[k] => j = k
  <2>1. s \in Seq(1 .. n) /\ Len(s) = n
    BY DEF Lists
  <2>2. DOMAIN s = 1 .. n /\ \A j \in 1 .. n : s[j] \in 1 .. n
    BY <2>1
  <2> QED
    BY <2>2, Zenon DEF Lists
<1>2. ASSUME NEW i \in 1 .. n
      PROVE  Position(s, i) \in 1 .. n /\ s[Position(s, i)] = i
  <2>1. \E j \in DOMAIN s : s[j] = i
    BY <1>1
  <2> QED
    BY <1>1, <2>1, Zenon DEF Position
<1>3. ASSUME NEW j \in 1 .. n
      PROVE  Position(s, s[j]) = j
  BY <1>1, <1>2
<1> QED
  BY <1>1, <1>2, <1>3

(* What the iterator comes to next.                                        *)
LEMMA AfterIs ==
  ASSUME NEW n \in Nat, NEW s, Lists(s, n), NEW i \in 1 .. n
  PROVE  /\ Position(s, i) = n => After(s, i) = None
         /\ Position(s, i) # n => /\ After(s, i) \in 1 .. n
                                  /\ Position(s, After(s, i)) = Position(s, i) + 1
<1>1. /\ Position(s, i) \in 1 .. n /\ s[Position(s, i)] = i
      /\ \A j \in 1 .. n : s[j] \in 1 .. n /\ Position(s, s[j]) = j
  BY ListedAt
<1>2. Len(s) = n /\ n \in 1 .. n
  BY DEF Lists
<1>3. i = s[n] <=> Position(s, i) = n
  BY <1>1, <1>2
<1>4. After(s, i) = IF i = s[n] THEN None ELSE s[Position(s, i) + 1]
  BY <1>2, Zenon DEF After
<1> HIDE DEF Position
<1>5. CASE Position(s, i) = n
  BY <1>3, <1>4, <1>5
<1>6. CASE Position(s, i) # n
  <2>1. Position(s, i) + 1 \in 1 .. n
    BY <1>1, <1>6
  <2>2. After(s, i) = s[Position(s, i) + 1]
    BY <1>3, <1>4, <1>6
  <2> QED
    BY <1>1, <1>6, <2>1, <2>2
<1> QED
  BY <1>5, <1>6

(* Where an instruction stands when one has been put in at q.              *)
LEMMA InsertIs ==
  ASSUME NEW n \in Nat, NEW s, Lists(s, n), NEW q \in 1 .. n + 1
  PROVE  LET t == InsertAt(s, q, n + 1)
         IN  /\ Lists(t, n + 1)
             /\ Position(t, n + 1) = q
             /\ \A i \in 1 .. n :
                  Position(t, i) = IF Position(s, i) < q THEN Position(s, i) ELSE Position(s, i) + 1
<1> DEFINE t == InsertAt(s, q, n + 1)
<1>0. Len(s) = n /\ \A j \in 1 .. n : s[j] \in 1 .. n + 1
  <2>1. \A j \in 1 .. n : s[j] \in 1 .. n
    BY ListedAt, Zenon
  <2>2. Len(s) = n
    BY Zenon DEF Lists
  <2> QED
    BY <2>1, <2>2
<1>1. /\ \A i \in 1 .. n : \E j \in 1 .. n : s[j] = i
      /\ \A j, k \in 1 .. n : s[j] = s[k] => j = k
      /\ \A j \in 1 .. n : s[j] \in 1 .. n
  BY ListedAt DEF Lists
<1> DEFINE front == SubSeq(s, 1, q - 1)
           back == SubSeq(s, q, n)
<1>t. t = front \o <<n + 1>> \o back
  BY <1>0 DEF InsertAt
<1>f. /\ front \in Seq(1 .. n + 1) /\ Len(front) = q - 1
      /\ \A j \in 1 .. q - 1 : front[j] = s[j]
  <2>1. /\ 1 \in Int /\ q - 1 \in Int /\ \A j \in 1 .. q - 1 : s[j] \in 1 .. n + 1
    BY <1>0
  <2>2. /\ front \in Seq(1 .. n + 1) /\ Len(front) = IF 1 <= q - 1 THEN q - 1 - 1 + 1 ELSE 0
        /\ \A j \in 1 .. q - 1 - 1 + 1 : front[j] = s[1 + j - 1]
    BY <2>1, SubSeqProperties
  <2> HIDE DEF front
  <2>3. Len(front) = q - 1
    BY <2>2
  <2> QED
    BY <2>2, <2>3
<1>b. /\ back \in Seq(1 .. n + 1) /\ Len(back) = n - q + 1
      /\ \A j \in 1 .. n - q + 1 : back[j] = s[q + j - 1]
  <2>1. q \in Int /\ n \in Int /\ \A j \in q .. n : s[j] \in 1 .. n + 1
    BY <1>0
  <2>2. /\ back \in Seq(1 .. n + 1) /\ Len(back) = IF q <= n THEN n - q + 1 ELSE 0
        /\ \A j \in 1 .. n - q + 1 : back[j] = s[q + j - 1]
    BY <2>1, SubSeqProperties
  <2> HIDE DEF back
  <2>3. Len(back) = n - q + 1
    BY <2>2
  <2> QED
    BY <2>2, <2>3
<1> HIDE DEF t, front, back
<1>s. /\ t \in Seq(1 .. n + 1) /\ Len(t) = n + 1
      /\ \A j \in 1 .. n + 1 :
           t[j] = IF j < q THEN front[j] ELSE IF j = q THEN n + 1 ELSE back[j - q]
  <2> DEFINE more == front \o <<n + 1>>
  <2>0. <<n + 1>> \in Seq(1 .. n + 1) /\ Len(<<n + 1>>) = 1 /\ <<n + 1>>[1] = n + 1
    OBVIOUS
  <2>1. /\ more \in Seq(1 .. n + 1) /\ Len(more) = Len(front) + 1
        /\ \A j \in 1 .. Len(front) + 1 :
             more[j] = IF j <= Len(front) THEN front[j] ELSE <<n + 1>>[j - Len(front)]
    BY <1>f, <2>0, ConcatProperties
  <2> HIDE DEF more
  <2>2. /\ more \o back \in Seq(1 .. n + 1) /\ Len(more \o back) = Len(more) + Len(back)
        /\ \A j \in 1 .. Len(more) + Len(back) :
             (more \o back)[j] = IF j <= Len(more) THEN more[j] ELSE back[j - Len(more)]
    BY <1>b, <2>1, ConcatProperties
  <2>3. t = more \o back
    BY <1>t DEF more
  <2>4. Len(front) = q - 1 /\ Len(more) = q /\ Len(back) = n - q + 1
    BY <1>f, <1>b, <2>1
  <2>5. ASSUME NEW j \in 1 .. n + 1
        PROVE  t[j] = IF j < q THEN front[j] ELSE IF j = q THEN n + 1 ELSE back[j - q]
    <3>1. t[j] = IF j <= q THEN more[j] ELSE back[j - q]
      <4>1. j \in 1 .. Len(more) + Len(back)
        BY <2>4
      <4> QED
        BY <2>2, <2>3, <2>4, <4>1, Zenon
    <3>2. CASE j < q
      <4>1. j \in 1 .. Len(front) + 1 /\ j <= Len(front) /\ j <= q
        BY <2>4, <3>2
      <4> QED
        BY <2>1, <3>1, <3>2, <4>1, Zenon
    <3>3. CASE j = q
      <4>1. j \in 1 .. Len(front) + 1 /\ ~ (j <= Len(front)) /\ j <= q /\ ~ (j < q)
            /\ j - Len(front) = 1
        BY <2>4, <3>3
      <4> QED
        BY <2>0, <2>1, <3>1, <3>3, <4>1, Zenon
    <3>4. CASE j > q
      <4>1. ~ (j <= q) /\ ~ (j < q) /\ j # q
        BY <3>4
      <4> QED
        BY <3>1, <4>1, Zenon
    <3> QED
      BY <3>2, <3>3, <3>4
  <2>6. Len(t) = n + 1
    BY <2>2, <2>3, <2>4
  <2> QED
    BY <2>2, <2>3, <2>5, <2>6, Zenon
<1>2. /\ t[q] = n + 1
      /\ \A j \in 1 .. n : j < q => t[j] = s[j]
      /\ \A j \in 1 .. n : j >= q => t[j + 1] = s[j]
  <2>1. ASSUME NEW j \in 1 .. n, j < q PROVE t[j] = s[j]
    <3>1. j \in 1 .. n + 1 /\ j \in 1 .. q - 1
      BY <2>1
    <3> QED
      BY <1>f, <1>s, <2>1, <3>1, Zenon
  <2>2. ASSUME NEW j \in 1 .. n, j >= q PROVE t[j + 1] = s[j]
    <3>1. /\ j + 1 \in 1 .. n + 1 /\ ~ (j + 1 < q) /\ j + 1 # q
          /\ (j + 1) - q \in 1 .. n - q + 1 /\ q + ((j + 1) - q) - 1 = j
      BY <2>2
    <3>2. t[j + 1] = back[(j + 1) - q]
      BY <1>s, <3>1, Zenon
    <3>3. back[(j + 1) - q] = s[q + ((j + 1) - q) - 1]
      BY <1>b, <3>1, Zenon
    <3> QED
      BY <3>1, <3>2, <3>3, Zenon
  <2>3. t[q] = n + 1
    BY <1>s
  <2> QED
    BY <2>1, <2>2, <2>3
<1>3. /\ \A i \in 1 .. n + 1 : \E j \in 1 .. n + 1 : t[j] = i
      /\ \A j \in 1 .. n + 1 : j < q \/ j = q \/ (j > q /\ j - 1 \in 1 .. n /\ t[j] = s[j - 1])
  <2>1. ASSUME NEW j \in 1 .. n + 1, j > q PROVE j - 1 \in 1 .. n /\ t[j] = s[j - 1]
    <3>1. j - 1 \in 1 .. n /\ j - 1 >= q /\ (j - 1) + 1 = j
      BY <2>1
    <3> QED
      BY <1>2, <3>1
  <2>2. ASSUME NEW i \in 1 .. n + 1 PROVE \E j \in 1 .. n + 1 : t[j] = i
    <3>1. CASE i = n + 1
      BY <1>2, <3>1
    <3>2. CASE i # n + 1
      <4>1. PICK j \in 1 .. n : s[j] = i
        BY <1>1, <3>2
      <4>2. j \in 1 .. n + 1 /\ j + 1 \in 1 .. n + 1
        OBVIOUS
      <4> QED
        BY <1>2, <4>1, <4>2
    <3> QED
      BY <3>1, <3>2
  <2> QED
    BY <2>1, <2>2
<1>4. \A j, k \in 1 .. n + 1 : t[j] = t[k] => j = k
  <2> SUFFICES ASSUME NEW j \in 1 .. n + 1, NEW k \in 1 .. n + 1, t[j] = t[k]
               PROVE  j = k
    BY Zenon
  <2>1. \A i \in 1 .. n : s[i] # n + 1
    BY <1>1
  <2> DEFINE Old(i) == IF i < q THEN i ELSE i - 1
  <2>2. ASSUME NEW i \in 1 .. n + 1, i # q
        PROVE  Old(i) \in 1 .. n /\ t[i] = s[Old(i)]
    BY <1>2, <1>3, <2>2
  <2>3. CASE j # q /\ k # q
    <3>1. Old(j) = Old(k)
      BY <1>1, <2>2, <2>3
    <3> QED
      BY <2>3, <3>1
  <2>4. CASE j = q \/ k = q
    BY <1>2, <2>1, <2>2, <2>4
  <2> QED
    BY <2>3, <2>4
<1>5. Lists(t, n + 1)
  BY <1>s, <1>3, <1>4 DEF Lists
<1>6. \A j \in 1 .. n + 1 : Position(t, t[j]) = j
  BY <1>5, ListedAt
<1>7. \A i \in 1 .. n : Position(s, i) \in 1 .. n /\ s[Position(s, i)] = i
  BY ListedAt
<1>8. ASSUME NEW i \in 1 .. n
      PROVE  Position(t, i) = IF Position(s, i) < q THEN Position(s, i) ELSE Position(s, i) + 1
  <2>1. PICK j \in 1 .. n : j = Position(s, i) /\ s[j] = i
    BY <1>7
  <2>2. CASE j < q
    <3>1. t[j] = i /\ j \in 1 .. n + 1
      BY <1>2, <2>1, <2>2
    <3> QED
      BY <1>6, <2>1, <2>2, <3>1
  <2>3. CASE ~ (j < q)
    <3>1. t[j + 1] = i /\ j + 1 \in 1 .. n + 1
      BY <1>2, <2>1, <2>3
    <3> QED
      BY <1>6, <2>1, <2>3, <3>1
  <2> QED
    BY <2>2, <2>3
<1> QED
  BY <1>2, <1>5, <1>6, <1>8 DEF t

(* A use is an instruction and the number of one of its operands.          *)
LEMMA UsesAre ==
  ASSUME NEW c \in Seq(Instruction), NEW v
  PROVE  /\ IsFiniteSet(UsesIn(c, v)) /\ UsesIn(c, v) \subseteq Nat \X Nat
         /\ \A u : u \in UsesIn(c, v) <=>
              \E i \in DOMAIN c, k \in Nat :
                 u = <<i, k>> /\ k \in DOMAIN c[i].ops /\ c[i].ops[k] = v
<1> DEFINE at(i) == {j \in DOMAIN c[i].ops : c[i].ops[j] = v}
<1>1. \A i \in DOMAIN c : c[i].ops \in Seq(Int)
  <2>1. \A i \in DOMAIN c : c[i] \in Instruction
    OBVIOUS
  <2> QED
    BY <2>1 DEF Instruction
<1>2. ASSUME NEW i \in DOMAIN c
      PROVE  at(i) \subseteq Nat /\ IsFiniteSet(at(i))
  <2>0. c[i].ops \in Seq(Int)
    BY <1>1
  <2>1. PICK n \in Nat : DOMAIN c[i].ops = 1 .. n
    <3>1. Len(c[i].ops) \in Nat /\ DOMAIN c[i].ops = 1 .. Len(c[i].ops)
      BY <2>0
    <3> QED
      BY <3>1
  <2>2. IsFiniteSet(1 .. n)
    BY FS_Interval
  <2>3. at(i) \in SUBSET (1 .. n)
    BY <2>1
  <2> HIDE DEF at
  <2> QED
    BY <2>2, <2>3, FS_Subset
<1>3. ASSUME NEW i \in DOMAIN c
      PROVE  IsFiniteSet(UsesBy(c, i, v))
  <2> DEFINE f == [k \in at(i) |-> <<i, k>>]
  <2>1. f \in Surjection(at(i), UsesBy(c, i, v))
    BY DEF Surjection, UsesBy
  <2> HIDE DEF f, at
  <2> QED
    BY <1>2, <2>1, FS_Surjection
<1>4. IsFiniteSet({UsesBy(c, i, v) : i \in DOMAIN c})
  <2> DEFINE T == {UsesBy(c, i, v) : i \in DOMAIN c}
             f == [i \in DOMAIN c |-> UsesBy(c, i, v)]
  <2>1. f \in Surjection(DOMAIN c, T)
    BY DEF Surjection
  <2>2. PICK n \in Nat : DOMAIN c = 1 .. n
    OBVIOUS
  <2>3. IsFiniteSet(DOMAIN c)
    BY <2>2, FS_Interval
  <2> HIDE DEF f, T
  <2>4. IsFiniteSet(T)
    BY <2>1, <2>3, FS_Surjection
  <2> QED
    BY <2>4 DEF T
<1>5. IsFiniteSet(UsesIn(c, v))
  <2> DEFINE T == {UsesBy(c, i, v) : i \in DOMAIN c}
  <2>1. \A t \in T : IsFiniteSet(t)
    BY <1>3
  <2> HIDE DEF T
  <2>2. IsFiniteSet(T)
    BY <1>4 DEF T
  <2>3. IsFiniteSet(UNION T)
    BY <2>1, <2>2, FS_UNION
  <2> QED
    BY <2>3 DEF UsesIn, T
<1>6. ASSUME NEW u
      PROVE  u \in UsesIn(c, v) <=> \E i \in DOMAIN c : \E k \in at(i) : u = <<i, k>>
  BY DEF UsesIn, UsesBy
<1>7. \A u : u \in UsesIn(c, v) <=>
              \E i \in DOMAIN c, k \in Nat :
                 u = <<i, k>> /\ k \in DOMAIN c[i].ops /\ c[i].ops[k] = v
  BY <1>2, <1>6
<1>8. DOMAIN c \subseteq Nat
  OBVIOUS
<1>9. UsesIn(c, v) \subseteq Nat \X Nat
  BY <1>7, <1>8
<1> QED
  BY <1>5, <1>7, <1>9

(* The list of a value's uses has each of them.                            *)
LEMMA ByAgeIs ==
  ASSUME NEW all \in SUBSET (Nat \X Nat), IsFiniteSet(all), NEW newest \in BOOLEAN
  PROVE  ByAge(all, newest) \in Seq(Nat \X Nat) /\ ToSet(ByAge(all, newest)) = all
<1> DEFINE n == Cardinality(all)
           Rank(x) == Cardinality(Ahead(all, x, newest))
           Less(y, x) == IF newest THEN Before(x, y) ELSE Before(y, x)
           Next(j) == CHOOSE x \in all : Rank(x) = j - 1
           list == ByAge(all, newest)
<1>1. /\ \A x, y \in all : x = y \/ Less(x, y) \/ Less(y, x)
      /\ \A x \in all : ~Less(x, x)
      /\ \A x, y, z \in all : Less(x, y) /\ Less(y, z) => Less(x, z)
  <2>1. \A x \in all : x[1] \in Nat /\ x[2] \in Nat /\ x = <<x[1], x[2]>>
    OBVIOUS
  <2>2. \A x, y \in all : x = y \/ Before(x, y) \/ Before(y, x)
    BY <2>1 DEF Before
  <2>3. /\ \A x \in all : ~Before(x, x)
        /\ \A x, y, z \in all : Before(x, y) /\ Before(y, z) => Before(x, z)
    BY <2>1 DEF Before
  <2> QED
    BY <2>2, <2>3
<1>2. \A x : Ahead(all, x, newest) = {y \in all : Less(y, x)}
  BY DEF Ahead
<1> HIDE DEF Less
<1>3. n \in Nat
  BY FS_CardinalityType
<1>4. ASSUME NEW x \in all
      PROVE  /\ Ahead(all, x, newest) \in SUBSET all /\ IsFiniteSet(Ahead(all, x, newest))
             /\ Rank(x) \in Nat /\ Rank(x) < n
  <2>1. Ahead(all, x, newest) \in SUBSET all /\ Ahead(all, x, newest) # all
    BY <1>1, <1>2
  <2>2. /\ IsFiniteSet(Ahead(all, x, newest)) /\ Rank(x) <= n /\ Rank(x) # n
    BY <2>1, FS_Subset
  <2>3. Rank(x) \in Nat
    BY <2>2, FS_CardinalityType
  <2> QED
    BY <1>3, <2>1, <2>2, <2>3
<1>5. ASSUME NEW x \in all, NEW y \in all, Less(x, y)
      PROVE  Rank(x) # Rank(y)
  <2>1. /\ Ahead(all, x, newest) \in SUBSET Ahead(all, y, newest)
        /\ Ahead(all, x, newest) # Ahead(all, y, newest)
    BY <1>1, <1>2, <1>5
  <2> QED
    BY <1>4, <2>1, FS_Subset
<1>6. \A x, y \in all : Rank(x) = Rank(y) => x = y
  BY <1>1, <1>5
<1>7. \A j \in 1 .. n : \E x \in all : Rank(x) = j - 1
  <2> DEFINE f == [x \in all |-> Rank(x) + 1]
  <2>1. f \in [all -> 1 .. n]
    BY <1>3, <1>4
  <2>2. \A x, y \in all : f[x] = f[y] => x = y
    BY <1>4, <1>6
  <2>3. f \in Injection(all, 1 .. n)
    BY <2>1, <2>2 DEF Injection, IsInjective
  <2>4. IsFiniteSet(1 .. n) /\ Cardinality(1 .. n) = n
    BY <1>3, FS_Interval
  <2>5. \A x \in all : f[x] = Rank(x) + 1
    OBVIOUS
  <2> HIDE DEF f
  <2>6. f \in Surjection(all, 1 .. n)
    BY <2>3, <2>4, FS_Injection
  <2>7. \A j \in 1 .. n : \E x \in all : f[x] = j
    BY <2>6 DEF Surjection
  <2> HIDE DEF Rank
  <2>8. \A x \in all : Rank(x) \in Nat
    BY <1>4
  <2> QED
    BY <1>3, <2>5, <2>7, <2>8
<1>8. list = [j \in 1 .. n |-> Next(j)]
  BY DEF ByAge
<1> HIDE DEF Rank, list, n
<1>9. \A j \in 1 .. n : Next(j) \in all /\ Rank(Next(j)) = j - 1
  <2> SUFFICES ASSUME NEW j \in 1 .. n PROVE Next(j) \in all /\ Rank(Next(j)) = j - 1
    BY Zenon
  <2>1. \E x \in all : Rank(x) = j - 1
    BY <1>7
  <2> QED
    BY <2>1, Zenon
<1> HIDE DEF Next
<1>10. DOMAIN list = 1 .. n /\ \A j \in 1 .. n : list[j] \in all /\ list[j] = Next(j)
  BY <1>8, <1>9
<1>11. \A x \in all : \E j \in 1 .. n : list[j] = x
  <2> SUFFICES ASSUME NEW x \in all PROVE \E j \in 1 .. n : list[j] = x
    BY Zenon
  <2>1. Rank(x) + 1 \in 1 .. n /\ (Rank(x) + 1) - 1 = Rank(x)
    BY <1>3, <1>4 DEF Rank, n
  <2>2. Next(Rank(x) + 1) = x
    BY <1>6, <1>9, <2>1
  <2> QED
    BY <1>10, <2>1, <2>2
<1>12. ToSet(list) = all
  BY <1>10, <1>11 DEF ToSet
<1>13. list \in [1 .. n -> Nat \X Nat]
  BY <1>8, <1>9
<1>14. list \in Seq(Nat \X Nat)
  BY <1>3, <1>13
<1> QED
  BY <1>12, <1>14 DEF list

(* What the invariant says of the numbers of instructions.                 *)
LEMMA Numbers ==
  ASSUME CodeKept, Lists(order, Len(code))
  PROVE  /\ Len(code) \in Nat /\ Len(source) \in Nat /\ Len(source) <= Len(code)
         /\ DOMAIN code = 1 .. Len(code) /\ DOMAIN source = 1 .. Len(source)
         /\ source \in Seq(Instruction) /\ code \in Seq(Instruction)
         /\ Targets \subseteq 1 .. Len(source) /\ Added = Len(source) + 1 .. Len(code)
         /\ \A i \in 1 .. Len(code) :
              Position(order, i) \in 1 .. Len(code) /\ order[Position(order, i)] = i
         /\ \A i, k \in 1 .. Len(code) : Position(order, i) = Position(order, k) => i = k
         /\ it # None => it \in 1 .. Len(code)
<1>1. source \in Seq(Instruction) /\ code \in Seq(Instruction) /\ Len(source) <= Len(code)
  BY CodeAssumption DEF CodeKept
<1>2. /\ Len(code) \in Nat /\ Len(source) \in Nat
      /\ DOMAIN code = 1 .. Len(code) /\ DOMAIN source = 1 .. Len(source)
  BY <1>1
<1>3. Targets \subseteq 1 .. Len(source)
  BY <1>2 DEF Targets
<1>4. Added = Len(source) + 1 .. Len(code)
  BY <1>1, <1>2 DEF Added, IsNew
<1>5. \A i \in 1 .. Len(code) :
         Position(order, i) \in 1 .. Len(code) /\ order[Position(order, i)] = i
  BY <1>2, ListedAt, Zenon
<1>6. \A i, k \in 1 .. Len(code) : Position(order, i) = Position(order, k) => i = k
  BY <1>5, Zenon
<1>7. it # None => it \in 1 .. Len(code)
  BY <1>2 DEF CodeKept
<1> QED
  BY <1>1, <1>2, <1>3, <1>4, <1>5, <1>6, <1>7, Zenon

(* The iterator passes by one instruction when nothing is put in.          *)
LEMMA PassesOne ==
  ASSUME CodeKept, Lists(order, Len(code)), it # None, order' = order, it' = After(order, it)
  PROVE  /\ \A i \in 1 .. Len(code) : Passed(i)' <=> Passed(i) \/ i = it
         /\ it' \in 1 .. Len(code) \cup {None}
<1>1. /\ Len(code) \in Nat /\ it \in 1 .. Len(code)
      /\ \A i \in 1 .. Len(code) : Position(order, i) \in 1 .. Len(code)
      /\ \A i, k \in 1 .. Len(code) : Position(order, i) = Position(order, k) => i = k
  BY Numbers, Zenon
<1>2. /\ Position(order, it) = Len(code) => it' = None
      /\ Position(order, it) # Len(code) =>
           it' \in 1 .. Len(code) /\ Position(order, it') = Position(order, it) + 1
  BY <1>1, AfterIs
<1>3. None \notin 1 .. Len(code)
  BY <1>1, OperatorsAssumption
<1>4. ASSUME NEW i \in 1 .. Len(code)
      PROVE  Passed(i)' <=> Passed(i) \/ i = it
  <2>1. Passed(i) <=> Position(order, i) < Position(order, it)
    BY Zenon DEF Passed
  <2>2. Passed(i)' <=> it' = None \/ Position(order, i) < Position(order, it')
    BY Zenon DEF Passed
  <2>3. Passed(i) \/ i = it <=> Position(order, i) <= Position(order, it)
    BY <1>1, <2>1
  <2>4. PICK p \in 1 .. Len(code), at \in 1 .. Len(code) :
          p = Position(order, i) /\ at = Position(order, it)
    BY <1>1
  <2>5. CASE at = Len(code)
    <3>1. it' = None /\ p <= at
      BY <1>2, <2>4, <2>5
    <3> QED
      BY <2>2, <2>3, <2>4, <3>1
  <2>6. CASE at # Len(code)
    <3>1. it' # None /\ Position(order, it') = at + 1
      BY <1>2, <1>3, <2>4, <2>6
    <3>2. p < at + 1 <=> p <= at
      OBVIOUS
    <3> QED
      BY <2>2, <2>3, <2>4, <3>1, <3>2
  <2> QED
    BY <2>5, <2>6
<1> QED
  BY <1>2, <1>4

(* When nothing is put in and the same targets are served.                 *)
LEMMA ServedStay ==
  ASSUME CodeKept, ServedOnce, Served' = Served, pass' = pass, source' = source, order' = order,
         Len(code') = Len(code), code' \in Seq(Instruction)
  PROVE  ServedOnce' /\ Added' = Added /\ Targets' = Targets
<1>1. Targets' = Targets
  BY DEF Targets, Wanted
<1>2. Added' = Added
  <2>1. DOMAIN code' = DOMAIN code
    BY DEF CodeKept
  <2> QED
    BY <2>1 DEF Added, IsNew
<1>3. \A i : Beside(i)' = Beside(i)
  BY DEF Beside
<1> HIDE DEF Beside
<1>4. ServedOnce'
  BY <1>2, <1>3, Zenon DEF ServedOnce
<1> QED
  BY <1>1, <1>2, <1>4

(* When one is put in beside a target that had none.                       *)
LEMMA ServedOneMore ==
  ASSUME CodeKept, ServedOnce, NEW new \in Targets, new \notin Served,
         pass' = pass, source' = source,
         order' = InsertAt(order, IF pass = "multiply" THEN Position(order, new)
                                                       ELSE Position(order, new) + 1, New),
         code' \in Seq(Instruction), Len(code') = New, Served' = Served \cup {new}
  PROVE  ServedOnce' /\ Added' = Added \cup {New} /\ Targets' = Targets
<1> DEFINE n == Len(code)
           q == IF pass = "multiply" THEN Position(order, new) ELSE Position(order, new) + 1
<1>1. /\ n \in Nat /\ Len(source) \in Nat /\ Len(source) <= n /\ DOMAIN code = 1 .. n
      /\ DOMAIN source = 1 .. Len(source)
      /\ Targets \subseteq 1 .. Len(source) /\ Added = Len(source) + 1 .. n
      /\ \A i \in 1 .. n : Position(order, i) \in 1 .. n
      /\ \A i, k \in 1 .. n : Position(order, i) = Position(order, k) => i = k
      /\ Lists(order, n) /\ new \in 1 .. Len(source) /\ new \in 1 .. n
  BY Numbers DEF ServedOnce
<1>2. Targets' = Targets
  BY DEF Targets, Wanted
<1>3. Added' = Added \cup {New}
  <2>1. DOMAIN code' = 1 .. n + 1
    BY <1>1 DEF New
  <2>2. Added' = {m \in 1 .. n + 1 : m > Len(source)}
    BY <2>1 DEF Added, IsNew
  <2> QED
    <3>1. PICK l \in Nat, k \in Nat : l = Len(source) /\ k = n /\ l <= k
      BY <1>1, Zenon
    <3>2. Added = l + 1 .. k /\ Added' = {m \in 1 .. k + 1 : m > l} /\ New = k + 1
      BY <1>1, <2>2, <3>1, Zenon DEF New
    <3> QED
      BY <3>1, <3>2
<1>4. /\ q \in 1 .. n + 1 /\ New = n + 1
      /\ order' = InsertAt(order, q, n + 1)
  <2>1. PICK k \in Nat : k = n /\ Position(order, new) \in 1 .. k
    BY <1>1, Zenon
  <2>2. q \in 1 .. n + 1
    BY <2>1
  <2> QED
    BY <2>2 DEF New
<1> HIDE DEF q
<1>5. /\ Lists(order', n + 1) /\ Position(order', n + 1) = q
      /\ \A i \in 1 .. n :
           Position(order', i) = IF Position(order, i) < q THEN Position(order, i)
                                                           ELSE Position(order, i) + 1
  <2>1. n \in Nat /\ Lists(order, n) /\ q \in 1 .. n + 1
    BY <1>1, <1>4, Zenon
  <2> HIDE DEF n
  <2> QED
    BY <1>4, <2>1, InsertIs
<1>6. ASSUME NEW i \in DOMAIN source, NEW k \in DOMAIN source, i < k
      PROVE  Position(order', i) < Position(order', k)
  <2>1. Position(order, i) < Position(order, k)
    BY <1>6 DEF ServedOnce
  <2>2. i \in 1 .. n /\ k \in 1 .. n
    <3>1. PICK l \in Nat : l <= n /\ DOMAIN source = 1 .. l
      BY <1>1, Zenon
    <3>2. n \in Nat
      BY <1>1, Zenon
    <3> HIDE DEF n
    <3> QED
      BY <3>1, <3>2
  <2>3. PICK a \in 1 .. n, b \in 1 .. n : a = Position(order, i) /\ b = Position(order, k)
    BY <1>1, <2>2, Zenon
  <2>4. /\ Position(order', i) = IF a < q THEN a ELSE a + 1
        /\ Position(order', k) = IF b < q THEN b ELSE b + 1
    BY <1>5, <2>2, <2>3, Zenon
  <2> QED
    BY <1>4, <2>1, <2>3, <2>4
<1>7. \A i : Beside(i)' = IF pass = "multiply" THEN Position(order', i) - 1
                                               ELSE Position(order', i) + 1
  BY DEF Beside
<1>8. Beside(new)' = q /\ Position(order', New) = q
  <2>1. PICK p \in 1 .. n : p = Position(order, new)
    BY <1>1
  <2>2. q = IF pass = "multiply" THEN p ELSE p + 1
    BY <2>1 DEF q
  <2>3. Position(order', new) = IF p < q THEN p ELSE p + 1
    BY <1>1, <1>5, <2>1
  <2> QED
    BY <1>4, <1>5, <1>7, <2>2, <2>3
<1>9. ASSUME NEW i \in Served, NEW m \in Added, Position(order, m) = Beside(i)
      PROVE  Position(order', m) = Beside(i)'
  <2>1. i \in 1 .. n /\ m \in 1 .. n /\ m # new /\ i # new
    BY <1>1 DEF Served
  <2>2. PICK a \in 1 .. n, b \in 1 .. n, p \in 1 .. n :
          a = Position(order, i) /\ b = Position(order, m) /\ p = Position(order, new)
    BY <1>1, <2>1
  <2>3. a # p /\ b # p
    BY <1>1, <2>1, <2>2
  <2>4. b = IF pass = "multiply" THEN a - 1 ELSE a + 1
    BY <1>9, <2>2 DEF Beside
  <2>5. q = IF pass = "multiply" THEN p ELSE p + 1
    BY <2>2 DEF q
  <2>6. /\ Position(order', i) = IF a < q THEN a ELSE a + 1
        /\ Position(order', m) = IF b < q THEN b ELSE b + 1
    BY <1>5, <2>1, <2>2
  <2> QED
    BY <1>7, <2>3, <2>4, <2>5, <2>6
<1> HIDE DEF Beside, n
<1>10. \A m \in Added' : \E i \in Served' : Position(order', m) = Beside(i)'
  <2> SUFFICES ASSUME NEW m \in Added' PROVE \E i \in Served' : Position(order', m) = Beside(i)'
    BY Zenon
  <2>1. CASE m = New
    BY <1>8, <2>1, Zenon
  <2>2. CASE m \in Added
    <3>1. PICK i \in Served : Position(order, m) = Beside(i)
      BY <2>2, Zenon DEF ServedOnce
    <3> QED
      BY <1>9, <2>2, <3>1, Zenon
  <2> QED
    BY <1>3, <2>1, <2>2, Zenon
<1>11. \A i \in Served' : \E m \in Added' : Position(order', m) = Beside(i)'
  <2> SUFFICES ASSUME NEW i \in Served' PROVE \E m \in Added' : Position(order', m) = Beside(i)'
    BY Zenon
  <2>1. CASE i = new
    BY <1>3, <1>8, <2>1, Zenon
  <2>2. CASE i \in Served
    <3>1. PICK m \in Added : Position(order, m) = Beside(i)
      BY <2>2, Zenon DEF ServedOnce
    <3> QED
      BY <1>3, <1>9, <2>2, <3>1, Zenon
  <2> QED
    BY <2>1, <2>2, Zenon
<1>12. Lists(order', Len(code'))
  BY <1>4, <1>5
<1>13. ServedOnce'
  BY <1>6, <1>10, <1>11, <1>12, Zenon DEF ServedOnce
<1> QED
  BY <1>2, <1>3, <1>13

(* Appending an instruction leaves those there are as they are.            *)
LEMMA Appended ==
  ASSUME CodeKept, Lists(order, Len(code)), NEW rec \in Instruction, code' = Append(code, rec),
         rec.kind = IF pass = "multiply" THEN "operator" ELSE "call",
         pass' = pass, source' = source, it' \in 1 .. New \cup {None}
  PROVE  CodeKept' /\ code' \in Seq(Instruction) /\ Len(code') = New
         /\ \A i \in 1 .. Len(code) : code'[i] = code[i]
<1>1. /\ Len(code) \in Nat /\ Len(source) \in Nat /\ Len(source) <= Len(code)
      /\ DOMAIN code = 1 .. Len(code) /\ DOMAIN source = 1 .. Len(source)
      /\ code \in Seq(Instruction) /\ Added = Len(source) + 1 .. Len(code)
  BY Numbers, Zenon
<1>2. /\ code' \in Seq(Instruction) /\ Len(code') = New /\ DOMAIN code' = 1 .. New
      /\ code'[New] = rec /\ \A i \in 1 .. Len(code) : code'[i] = code[i]
  <2>1. code \in Seq(Instruction)
    BY <1>1
  <2> QED
    BY <2>1, AppendProperties DEF New
<1>3. PICK l \in Nat, n \in Nat : l = Len(source) /\ n = Len(code) /\ l <= n
  BY <1>1
<1>4. ASSUME NEW i \in DOMAIN source
      PROVE  code'[i].kind = source[i].kind /\ Len(code'[i].ops) = Len(source[i].ops)
  <2>1. i \in 1 .. n
    <3>1. i \in 1 .. l
      BY <1>1, <1>3, Zenon
    <3> QED
      BY <1>3, <3>1
  <2>2. code'[i] = code[i]
    BY <1>2, <1>3, <2>1, Zenon
  <2> QED
    BY <2>2, Zenon DEF CodeKept
<1>5. \A m \in Added' : m \in Added \/ m = New
  <2>1. Added' = {m \in 1 .. New : m > l}
    BY <1>2, <1>3, Zenon DEF Added, IsNew
  <2>2. Added = l + 1 .. n /\ New = n + 1
    BY <1>1, <1>3, Zenon DEF New
  <2> QED
    BY <1>3, <2>1, <2>2
<1>6. ASSUME NEW m \in Added'
      PROVE  code'[m].kind = IF pass' = "multiply" THEN "operator" ELSE "call"
  <2>1. CASE m = New
    BY <1>2, <2>1, Zenon
  <2>2. CASE m \in Added
    <3>1. m \in 1 .. n
      <4>1. m \in l + 1 .. n
        BY <1>1, <1>3, <2>2, Zenon
      <4> QED
        BY <1>3, <4>1
    <3>2. code'[m] = code[m]
      BY <1>2, <1>3, <3>1, Zenon
    <3> QED
      BY <2>2, <3>2, Zenon DEF CodeKept
  <2> QED
    BY <1>5, <2>1, <2>2
<1>7. Len(source) <= Len(code')
  BY <1>2, <1>3 DEF New
<1>8. it' \in DOMAIN code' \cup {None}
  BY <1>2, Zenon
<1>9. CodeKept'
  BY <1>2, <1>4, <1>6, <1>7, <1>8, Zenon DEF CodeKept
<1> QED
  BY <1>2, <1>9

(* The invariant as a pass begins.                                         *)
LEMMA InsStarts ==
  ASSUME code \in Codes, pass \in Passes, InsInit
  PROVE  InsInv
<1>0. /\ source = code /\ order = [i \in DOMAIN code |-> i] /\ it = First(order)
      /\ orig_calls = << >> /\ use = None
      /\ \E newest \in BOOLEAN : uses = [v \in DOMAIN code |-> ByAge(UsesIn(code, v), newest)]
  BY Zenon DEF InsInit, Instrs
<1>1. code \in Seq(Instruction)
  BY CodeAssumption
<1>2. PICK n \in Nat : n = Len(code) /\ DOMAIN code = 1 .. n
  BY <1>1
<1>3. /\ DOMAIN order = 1 .. n /\ \A i \in 1 .. n : order[i] = i
      /\ Lists(order, n)
  <2>1. order = [i \in 1 .. n |-> i]
    BY <1>0, <1>2
  <2>2. order \in Seq(1 .. n) /\ Len(order) = n
    BY <2>1
  <2>3. \A i \in 1 .. n : order[i] = i
    BY <2>1
  <2> QED
    BY <2>1, <2>2, <2>3 DEF Lists
<1>4. \A i \in 1 .. n : Position(order, i) = i
  <2>1. \A j \in 1 .. n : Position(order, order[j]) = j
    BY <1>3, ListedAt
  <2> QED
    BY <1>3, <2>1, Zenon
<1>5. IF n = 0 THEN it = None ELSE it = 1
  <2>1. CASE n = 0
    <3>1. order = << >>
      BY <1>0, <1>2, <2>1
    <3> QED
      BY <1>0, <2>1, <3>1 DEF First
  <2>2. CASE n # 0
    <3>1. 1 \in 1 .. n
      BY <2>2
    <3>2. order # << >> /\ order[1] = 1
      BY <1>3, <3>1
    <3> QED
      BY <1>0, <2>2, <3>2, Zenon DEF First
  <2> QED
    BY <2>1, <2>2
<1>6. Added = {}
  BY <1>0, <1>1, <1>2 DEF Added, IsNew
<1>7. Targets \subseteq 1 .. n
  BY <1>0, <1>2 DEF Targets
<1>8. \A i \in 1 .. n : ~Passed(i)
  <2> SUFFICES ASSUME NEW i \in 1 .. n PROVE ~Passed(i)
    OBVIOUS
  <2>1. it = 1 /\ 1 \in 1 .. n
    BY <1>5
  <2>2. Position(order, i) = i /\ Position(order, it) = 1
    BY <1>4, <2>1
  <2>3. it # None
    BY <2>1, OperatorsAssumption
  <2> QED
    BY <2>2, <2>3 DEF Passed
<1>9. Served = {}
  <2> SUFFICES ASSUME NEW i \in Served PROVE FALSE
    OBVIOUS
  <2>1. i \in 1 .. n /\ i \in Targets
    BY <1>7 DEF Served
  <2>2. ~Passed(i)
    BY <1>8, <2>1
  <2>3. it # None
    BY <2>2 DEF Passed
  <2> QED
    BY <1>0, <2>2, <2>3 DEF Served
<1>10. CodeKept
  <2>1. it \in DOMAIN code \cup {None}
    BY <1>2, <1>5
  <2>2. Len(source) <= Len(code)
    BY <1>0, <1>2
  <2> QED
    BY <1>0, <1>1, <1>6, <2>1, <2>2, Zenon DEF CodeKept
<1>11. ServedOnce
  BY <1>0, <1>2, <1>3, <1>4, <1>6, <1>9 DEF ServedOnce
<1>12. CallsOnce
  <2>1. orig_calls \in Seq(Targets) /\ DOMAIN orig_calls = {}
    BY <1>0
  <2> QED
    BY <1>0, <1>6, <1>7, <1>8, <2>1, Zenon DEF CallsOnce
<1>13. UsesMoved
  <2>1. PICK newest \in BOOLEAN : uses = [v \in DOMAIN code |-> ByAge(UsesIn(code, v), newest)]
    BY <1>0
  <2>2. \A v \in DOMAIN code : /\ ByAge(UsesIn(code, v), newest) \in Seq(Nat \X Nat)
                               /\ ToSet(ByAge(UsesIn(code, v), newest)) = UsesIn(code, v)
    BY <1>1, UsesAre, ByAgeIs
  <2>3. /\ uses \in Seq(Seq(Nat \X Nat)) /\ Len(uses) = n
    <3>1. uses \in [1 .. n -> Seq(Nat \X Nat)]
      BY <1>2, <2>1, <2>2
    <3> QED
      BY <3>1
  <2>4. \A v \in DOMAIN source : ToSet(uses[v]) = UsesIn(source, v)
    BY <1>0, <2>1, <2>2
  <2>5. \A v \in DOMAIN source : Kept(v)
    <3> SUFFICES ASSUME NEW v \in DOMAIN source, NEW u \in UsesIn(source, v)
                 PROVE  UsedAt(u) = v
      BY DEF Kept
    <3>0. u \in UsesIn(code, v)
      BY <1>0
    <3>1. PICK i \in DOMAIN code, k \in Nat : u = <<i, k>> /\ code[i].ops[k] = v
      BY <1>1, <3>0, UsesAre
    <3> QED
      BY <3>1 DEF UsedAt
  <2>6. \A v \in Targets : ~Passed(v)
    BY <1>7, <1>8
  <2> QED
    BY <1>0, <1>2, <2>3, <2>4, <2>5, <2>6, Zenon DEF UsesMoved, Kept
<1>14. ProductsMultiply
  BY <1>9 DEF ProductsMultiply
<1> QED
  BY <1>10, <1>11, <1>12, <1>13, <1>14 DEF InsInv

(* Each action keeps the invariant: the iterator goes on,                  *)
LEMMA SkipKeeps ==
  ASSUME InsInv, Skip
  PROVE  InsInv'
<1>1. /\ it # None /\ code[it].kind # Wanted /\ it' = After(order, it)
      /\ code' = code /\ pass' = pass /\ source' = source /\ order' = order
      /\ orig_calls' = orig_calls /\ uses' = uses /\ use' = use
  BY Zenon DEF Skip
<1>2. CodeKept /\ ServedOnce /\ CallsOnce /\ UsesMoved /\ Lists(order, Len(code))
  BY DEF InsInv, ServedOnce
<1>3. /\ \A i \in 1 .. Len(code) : Passed(i)' <=> Passed(i) \/ i = it
      /\ it' \in 1 .. Len(code) \cup {None}
  BY <1>1, <1>2, PassesOne
<1>4. /\ Targets \subseteq 1 .. Len(source) /\ DOMAIN source = 1 .. Len(source)
      /\ DOMAIN code = 1 .. Len(code) /\ Len(source) <= Len(code) /\ Len(source) \in Nat
      /\ Len(code) \in Nat /\ code \in Seq(Instruction)
  BY <1>2, Numbers
<1>5. it \notin Targets
  BY <1>1, <1>2 DEF Targets, CodeKept
<1>6. Targets \subseteq 1 .. Len(code) /\ 1 .. Len(source) \subseteq 1 .. Len(code)
  BY <1>4
<1>7. \A i \in Targets : Passed(i)' <=> Passed(i)
  BY <1>3, <1>5, <1>6
<1>8. Targets' = Targets
  BY <1>1 DEF Targets, Wanted
<1>9. use = None \/ pass # "multiply"
  BY <1>2, <1>5 DEF UsesMoved
<1>10. Served' = Served
  <2>1. CASE pass = "puts"
    <3>1. it' = None => \A i \in Targets : Passed(i)'
      BY Zenon DEF Passed
    <3>2. \A i \in Targets : Passed(i) <=> \E k \in DOMAIN orig_calls : orig_calls[k] = i
      BY <1>1, <1>2, <2>1 DEF CallsOnce
    <3>3. it' = None => \A i \in Targets : \E k \in DOMAIN orig_calls : orig_calls[k] = i
      BY <1>7, <3>1, <3>2
    <3>4. Served = {} /\ Served' = {}
      BY <1>1, <1>8, <2>1, <3>3 DEF Served
    <3> QED
      BY <3>4
  <2>2. CASE pass # "puts"
    <3>1. \A i \in Targets : i # it
      BY <1>5
    <3> HIDE DEF Passed, Targets
    <3>2. \A i \in Targets : i \in Served <=> Passed(i) \/ (pass = "multiply" /\ i = it /\ use # None)
      BY <2>2 DEF Served
    <3>3. \A i \in Targets : i \in Served' <=> Passed(i)' \/ (pass = "multiply" /\ i = it' /\ use # None)
      BY <1>1, <1>8, <2>2 DEF Served
    <3>4. Served \subseteq Targets /\ Served' \subseteq Targets
      BY <1>8 DEF Served
    <3> QED
      BY <1>7, <1>9, <3>2, <3>3, <3>4
  <2> QED
    BY <2>1, <2>2
<1>11. ServedOnce' /\ Added' = Added
  BY <1>1, <1>2, <1>4, <1>10, ServedStay
<1>12. CodeKept'
  BY <1>1, <1>2, <1>3, <1>4, <1>11, Zenon DEF CodeKept
<1>13. CallsOnce'
  <2>1. pass = "puts" /\ it' # None => Added = {}
        /\ \A i \in Targets : Passed(i)' <=> \E k \in DOMAIN orig_calls : orig_calls[k] = i
    BY <1>1, <1>2, <1>7 DEF CallsOnce
  <2> QED
    BY <1>1, <1>2, <1>8, <1>11, <2>1, Zenon DEF CallsOnce
<1>14. UsesMoved'
  <2>1. CASE pass # "multiply"
    BY <1>1, <1>2, <2>1 DEF UsesMoved
  <2>2. CASE pass = "multiply"
    <3>1. use' = None /\ use = None
      BY <1>1, <1>9, <2>2
    <3>2. /\ \A v : Kept(v)' <=> Kept(v)
          /\ \A u : UsedAt(u)' = UsedAt(u)
          /\ \A v : Beside(v)' = Beside(v)
          /\ \A i : IsNew(i)' <=> IsNew(i)
      BY <1>1 DEF Kept, UsedAt, Beside, IsNew
    <3>3. \A v \in DOMAIN source : ~Passed(v)' => ~Passed(v)
      BY <1>3, <1>4, <1>6
    <3> HIDE DEF Passed, Kept, UsedAt, Beside, IsNew
    <3> QED
      BY <1>1, <1>2, <1>7, <1>8, <2>2, <3>1, <3>2, <3>3 DEF UsesMoved
  <2> QED
    BY <2>1, <2>2
<1>15. ProductsMultiply'
  <2>1. ProductsMultiply
    BY DEF InsInv
  <2>2. \A i : Beside(i)' = Beside(i)
    BY <1>1 DEF Beside
  <2> HIDE DEF Served, Beside
  <2> QED
    BY <1>1, <1>10, <2>1, <2>2 DEF ProductsMultiply
<1> QED
  BY <1>11, <1>12, <1>13, <1>14, <1>15 DEF InsInv

(* a call is collected,                                                    *)
LEMMA CollectKeeps ==
  ASSUME InsInv, Collect
  PROVE  InsInv'
<1>1. /\ pass = "puts" /\ it # None /\ code[it].kind = "call" /\ it' = After(order, it)
      /\ orig_calls' = Append(orig_calls, it)
      /\ code' = code /\ pass' = pass /\ source' = source /\ order' = order
      /\ uses' = uses /\ use' = use
  BY Zenon DEF Collect
<1>2. CodeKept /\ ServedOnce /\ CallsOnce /\ UsesMoved /\ Lists(order, Len(code))
  BY DEF InsInv, ServedOnce
<1>3. /\ \A i \in 1 .. Len(code) : Passed(i)' <=> Passed(i) \/ i = it
      /\ it' \in 1 .. Len(code) \cup {None}
  BY <1>1, <1>2, PassesOne
<1>4. /\ Targets \subseteq 1 .. Len(source) /\ DOMAIN source = 1 .. Len(source)
      /\ DOMAIN code = 1 .. Len(code) /\ Len(source) <= Len(code) /\ Len(source) \in Nat
      /\ Len(code) \in Nat /\ code \in Seq(Instruction) /\ it \in 1 .. Len(code)
      /\ Added = Len(source) + 1 .. Len(code)
  BY <1>1, <1>2, Numbers
<1>5. Added = {} /\ Len(source) = Len(code)
  <2>1. Added = {}
    BY <1>1, <1>2 DEF CallsOnce
  <2>2. PICK l \in Nat, n \in Nat : l = Len(source) /\ n = Len(code) /\ l <= n
    BY <1>4
  <2>3. n \notin l + 1 .. n
    BY <1>4, <2>1, <2>2
  <2> QED
    BY <2>1, <2>2, <2>3
<1>6. it \in Targets
  <2>1. it \in DOMAIN source
    BY <1>4, <1>5
  <2>2. source[it].kind = "call"
    BY <1>1, <1>2, <2>1 DEF CodeKept
  <2> QED
    BY <1>1, <2>1, <2>2 DEF Targets, Wanted
<1>7. Targets' = Targets
  BY <1>1 DEF Targets, Wanted
<1>8. /\ orig_calls \in Seq(Targets)
      /\ \A i \in Targets : Passed(i) <=> \E k \in DOMAIN orig_calls : orig_calls[k] = i
      /\ \A j, k \in DOMAIN orig_calls : orig_calls[j] = orig_calls[k] => j = k
  BY <1>1, <1>2 DEF CallsOnce
<1>9. PICK n \in Nat : n = Len(orig_calls) /\ DOMAIN orig_calls = 1 .. n
  BY <1>8
<1>10. /\ orig_calls' \in Seq(Targets) /\ DOMAIN orig_calls' = 1 .. n + 1
       /\ orig_calls'[n + 1] = it /\ \A k \in 1 .. n : orig_calls'[k] = orig_calls[k]
  BY <1>1, <1>6, <1>8, <1>9, AppendProperties
<1>11. ~Passed(it)
  <2>1. Position(order, it) \in Nat
    BY <1>2, <1>4, Numbers
  <2> QED
    BY <1>1, <2>1 DEF Passed
<1>12. \A k \in 1 .. n : orig_calls[k] # it
  BY <1>6, <1>8, <1>9, <1>11
<1> HIDE DEF Passed
<1>13. \A i \in Targets : Passed(i)' <=> \E k \in DOMAIN orig_calls' : orig_calls'[k] = i
  <2> SUFFICES ASSUME NEW i \in Targets
               PROVE  Passed(i)' <=> \E k \in DOMAIN orig_calls' : orig_calls'[k] = i
    BY Zenon
  <2>1. Passed(i)' <=> Passed(i) \/ i = it
    BY <1>3, <1>4, <1>5
  <2>2. (\E k \in 1 .. n + 1 : orig_calls'[k] = i)
          <=> (\E k \in 1 .. n : orig_calls[k] = i) \/ i = it
    BY <1>10
  <2> QED
    BY <1>8, <1>9, <1>10, <2>1, <2>2
<1>14. \A j, k \in DOMAIN orig_calls' : orig_calls'[j] = orig_calls'[k] => j = k
  <2>1. \A j, k \in 1 .. n : orig_calls[j] = orig_calls[k] => j = k
    BY <1>8, <1>9
  <2> QED
    BY <1>10, <1>12, <2>1
<1>15. Served = {} /\ Served' = {}
  <2>1. it' = None => \A i \in Targets : Passed(i)'
    BY Zenon DEF Passed
  <2>2. it' = None => \A i \in Targets : \E k \in DOMAIN orig_calls' : orig_calls'[k] = i
    BY <1>13, <2>1
  <2> QED
    BY <1>1, <1>7, <2>2 DEF Served
<1>16. ServedOnce' /\ Added' = Added
  BY <1>1, <1>2, <1>4, <1>15, ServedStay
<1>17. CodeKept'
  BY <1>1, <1>2, <1>3, <1>4, <1>16, Zenon DEF CodeKept
<1>18. CallsOnce'
  BY <1>1, <1>5, <1>7, <1>10, <1>13, <1>14, <1>16, Zenon DEF CallsOnce
<1>19. UsesMoved'
  BY <1>1, <1>2 DEF UsesMoved
<1>20. ProductsMultiply'
  BY <1>1 DEF ProductsMultiply
<1> QED
  BY <1>16, <1>17, <1>18, <1>19, <1>20 DEF InsInv

(* What UtilPass and PrintFuncPass put in.                                 *)
LEMMA CallingIs == Calling \in Instruction /\ Calling.kind = "call"
<1>1. <<0>> \in Seq(Int)
  OBVIOUS
<1> QED
  BY <1>1 DEF Calling, Instruction, Kinds, Const

(* a collected call gets its instruction,                                  *)
LEMMA InstrumentKeeps ==
  ASSUME InsInv, InstrumentAfter
  PROVE  InsInv'
<1>1. /\ pass = "puts" /\ it = None /\ orig_calls # << >>
      /\ code' = Append(code, Calling)
      /\ order' = InsertAt(order, Position(order, orig_calls[1]) + 1, New)
      /\ orig_calls' = Tail(orig_calls)
      /\ pass' = pass /\ source' = source /\ it' = it /\ uses' = uses /\ use' = use
  BY Zenon DEF InstrumentAfter, PutAfter
<1>2. CodeKept /\ ServedOnce /\ CallsOnce /\ UsesMoved /\ Lists(order, Len(code))
  BY DEF InsInv, ServedOnce
<1>3. CodeKept' /\ code' \in Seq(Instruction) /\ Len(code') = New
  BY <1>1, <1>2, CallingIs, Appended
<1>4. /\ orig_calls \in Seq(Targets)
      /\ \A j, k \in DOMAIN orig_calls : orig_calls[j] = orig_calls[k] => j = k
  BY <1>2 DEF CallsOnce
<1>5. PICK n \in Nat : n = Len(orig_calls) /\ DOMAIN orig_calls = 1 .. n
  BY <1>4
<1>6. n # 0
  BY <1>1, <1>4, <1>5
<1>7. /\ orig_calls' \in Seq(Targets) /\ DOMAIN orig_calls' = 1 .. n - 1
      /\ \A k \in 1 .. n - 1 : orig_calls'[k] = orig_calls[k + 1]
      /\ orig_calls[1] \in Targets
  BY <1>1, <1>4, <1>5, <1>6
<1>8. Targets' = Targets
  BY <1>1 DEF Targets, Wanted
<1>9. /\ \A k \in 1 .. n - 1 : orig_calls'[k] # orig_calls[1]
      /\ \A j, k \in 1 .. n - 1 : orig_calls'[j] = orig_calls'[k] => j = k
  <2>1. \A j, k \in 1 .. n : orig_calls[j] = orig_calls[k] => j = k
    BY <1>4, <1>5
  <2>2. \A k \in 1 .. n - 1 : k + 1 \in 1 .. n /\ k + 1 # 1 /\ 1 \in 1 .. n
    BY <1>6
  <2>3. ASSUME NEW k \in 1 .. n - 1 PROVE orig_calls'[k] # orig_calls[1]
    BY <1>7, <2>1, <2>2
  <2>4. ASSUME NEW j \in 1 .. n - 1, NEW k \in 1 .. n - 1, orig_calls'[j] = orig_calls'[k]
        PROVE  j = k
    <3>1. orig_calls[j + 1] = orig_calls[k + 1]
      BY <1>7, <2>4
    <3>2. j + 1 = k + 1
      BY <2>1, <2>2, <3>1
    <3> QED
      BY <3>2
  <2> QED
    BY <2>3, <2>4
<1>10. /\ Served = {i \in Targets : \A k \in 1 .. n : orig_calls[k] # i}
       /\ Served' = {i \in Targets : \A k \in 1 .. n - 1 : orig_calls'[k] # i}
  BY <1>1, <1>5, <1>7, <1>8 DEF Served
<1>11. Served' = Served \cup {orig_calls[1]} /\ orig_calls[1] \notin Served
  <2>1. \A i : (\A k \in 1 .. n : orig_calls[k] # i)
          <=> orig_calls[1] # i /\ \A k \in 1 .. n - 1 : orig_calls'[k] # i
    <3> SUFFICES ASSUME NEW i
                 PROVE  (\A k \in 1 .. n : orig_calls[k] # i)
                   <=> orig_calls[1] # i /\ \A k \in 1 .. n - 1 : orig_calls'[k] # i
      BY Zenon
    <3>1. \A k \in 1 .. n : k = 1 \/ (k - 1 \in 1 .. n - 1 /\ orig_calls'[k - 1] = orig_calls[k])
      <4> SUFFICES ASSUME NEW k \in 1 .. n, k # 1
                   PROVE  k - 1 \in 1 .. n - 1 /\ orig_calls'[k - 1] = orig_calls[k]
        OBVIOUS
      <4>1. k - 1 \in 1 .. n - 1 /\ (k - 1) + 1 = k
        OBVIOUS
      <4>2. orig_calls'[k - 1] = orig_calls[(k - 1) + 1]
        BY <1>7, <4>1
      <4> QED
        BY <4>1, <4>2
    <3>2. 1 \in 1 .. n /\ \A k \in 1 .. n - 1 : k + 1 \in 1 .. n
      BY <1>6
    <3> QED
      BY <1>7, <3>1, <3>2
  <2>2. orig_calls[1] \in Targets /\ \A k \in 1 .. n - 1 : orig_calls'[k] # orig_calls[1]
    BY <1>7, <1>9, Zenon
  <2>3. ASSUME NEW i
        PROVE  /\ i \in Served <=> i \in Targets /\ \A k \in 1 .. n : orig_calls[k] # i
               /\ i \in Served' <=> i \in Targets /\ \A k \in 1 .. n - 1 : orig_calls'[k] # i
    BY <1>10, Zenon
  <2>4. \A i : i \in Served' <=> i \in Served \/ i = orig_calls[1]
    BY <2>1, <2>2, <2>3, Zenon
  <2>5. orig_calls[1] \notin Served
    BY <2>1, <2>3, Zenon
  <2> QED
    BY <2>4, <2>5
<1>12. ServedOnce'
  <2>1. order' = InsertAt(order, IF pass = "multiply" THEN Position(order, orig_calls[1])
                                   ELSE Position(order, orig_calls[1]) + 1, New)
    BY <1>1
  <2> QED
    BY <1>1, <1>2, <1>3, <1>7, <1>11, <2>1, ServedOneMore
<1>13. CallsOnce'
  BY <1>1, <1>7, <1>8, <1>9, Zenon DEF CallsOnce
<1>14. UsesMoved'
  BY <1>1, <1>2 DEF UsesMoved
<1>15. ProductsMultiply'
  BY <1>1 DEF ProductsMultiply
<1> QED
  BY <1>3, <1>12, <1>13, <1>14, <1>15 DEF InsInv

(* a store gets its instruction.                                           *)
LEMMA PrintStoreKeeps ==
  ASSUME InsInv, PrintStore
  PROVE  InsInv'
<1>1. /\ pass = "printf" /\ it # None /\ code[it].kind = "store"
      /\ code' = Append(code, Calling)
      /\ order' = InsertAt(order, Position(order, it) + 1, New)
      /\ it' = After(order', it)
      /\ pass' = pass /\ source' = source /\ orig_calls' = orig_calls /\ uses' = uses /\ use' = use
  BY Zenon DEF PrintStore, PutAfter
<1>2. CodeKept /\ ServedOnce /\ CallsOnce /\ UsesMoved /\ Lists(order, Len(code))
  BY DEF InsInv, ServedOnce
<1> DEFINE n == Len(code)
<1>3. /\ Targets \subseteq 1 .. Len(source) /\ DOMAIN source = 1 .. Len(source)
      /\ DOMAIN code = 1 .. n /\ Len(source) <= n /\ Len(source) \in Nat
      /\ n \in Nat /\ code \in Seq(Instruction) /\ it \in 1 .. n
      /\ \A i \in 1 .. n : Position(order, i) \in 1 .. n
      /\ \A i, k \in 1 .. n : Position(order, i) = Position(order, k) => i = k
  BY <1>1, <1>2, Numbers
<1>4. PICK p \in 1 .. n : p = Position(order, it)
  BY <1>3
<1>5. it \in Targets
  <2>1. it \in DOMAIN source
    <3>1. it \in DOMAIN code /\ (it \notin DOMAIN source => it \in Added)
      BY <1>3 DEF Added, IsNew
    <3>2. it \in Added => code[it].kind = "call"
      BY <1>1, <1>2, Zenon DEF CodeKept
    <3> QED
      BY <1>1, <3>1, <3>2
  <2>2. source[it].kind = "store"
    BY <1>1, <1>2, <2>1 DEF CodeKept
  <2> QED
    BY <1>1, <2>1, <2>2 DEF Targets, Wanted
<1>6. /\ Lists(order', n + 1) /\ Position(order', n + 1) = p + 1
      /\ \A i \in 1 .. n :
           Position(order', i) = IF Position(order, i) < p + 1 THEN Position(order, i)
                                                               ELSE Position(order, i) + 1
  <2>1. n \in Nat /\ Lists(order, n) /\ p + 1 \in 1 .. n + 1
    BY <1>2, <1>3
  <2>2. order' = InsertAt(order, p + 1, n + 1)
    BY <1>1, <1>4 DEF New
  <2> HIDE DEF n
  <2> QED
    BY <2>1, <2>2, InsertIs
<1>7. it' \in 1 .. n + 1 /\ Position(order', it') = p + 1
  <2>1. n + 1 \in Nat /\ it \in 1 .. n + 1 /\ p # n + 1
    BY <1>3
  <2>2. Position(order', it) = p
    BY <1>3, <1>4, <1>6
  <2> HIDE DEF n
  <2> QED
    BY <1>1, <1>6, <2>1, <2>2, AfterIs
<1>8. it' # None
  BY <1>3, <1>7, OperatorsAssumption
<1>9. \A i \in 1 .. n : Passed(i)' <=> Passed(i) \/ i = it
  <2> SUFFICES ASSUME NEW i \in 1 .. n PROVE Passed(i)' <=> Passed(i) \/ i = it
    BY Zenon
  <2>1. PICK a \in 1 .. n : a = Position(order, i)
    BY <1>3
  <2>2. Passed(i) <=> a < p
    BY <1>1, <1>4, <2>1, Zenon DEF Passed
  <2>3. Passed(i)' <=> Position(order', i) < p + 1
    BY <1>7, <1>8, Zenon DEF Passed
  <2>4. Position(order', i) = IF a < p + 1 THEN a ELSE a + 1
    BY <1>6, <2>1
  <2>5. i = it <=> a = p
    BY <1>3, <1>4, <2>1
  <2> QED
    BY <2>2, <2>3, <2>4, <2>5
<1>10. ~Passed(it)
  BY <1>1, <1>4 DEF Passed
<1>11. Targets' = Targets
  BY <1>1 DEF Targets, Wanted
<1>12. Targets \subseteq 1 .. n
  BY <1>3
<1> HIDE DEF Passed, n
<1>13. Served' = Served \cup {it} /\ it \notin Served
  <2>1. Served = {i \in Targets : Passed(i)}
    BY <1>1 DEF Served
  <2>2. Served' = {i \in Targets : Passed(i)'}
    BY <1>1, <1>11 DEF Served
  <2> QED
    BY <1>5, <1>9, <1>10, <1>12, <2>1, <2>2
<1>14. CodeKept' /\ code' \in Seq(Instruction) /\ Len(code') = New
  <2>1. it' \in 1 .. New \cup {None}
    BY <1>7 DEF New, n
  <2> QED
    BY <1>1, <1>2, <2>1, CallingIs, Appended
<1>15. ServedOnce'
  <2>1. order' = InsertAt(order, IF pass = "multiply" THEN Position(order, it)
                                   ELSE Position(order, it) + 1, New)
    BY <1>1
  <2> QED
    BY <1>1, <1>2, <1>5, <1>13, <1>14, <2>1, ServedOneMore
<1>16. CallsOnce'
  BY <1>1, <1>2, <1>11, Zenon DEF CallsOnce
<1>17. UsesMoved'
  BY <1>1, <1>2 DEF UsesMoved
<1>18. ProductsMultiply'
  BY <1>1 DEF ProductsMultiply
<1> QED
  BY <1>14, <1>15, <1>16, <1>17, <1>18 DEF InsInv

(* What setting operands does to the lists of uses: a use is put at the    *)
(* head of a list,                                                         *)
LEMMA LinkedIs ==
  ASSUME NEW T, NEW lists \in Seq(Seq(T)),
         NEW v \in 1 .. Len(lists), NEW u \in T
  PROVE  /\ Linked(lists, v, u) \in Seq(Seq(T)) /\ Len(Linked(lists, v, u)) = Len(lists)
         /\ Linked(lists, v, u)[v] = <<u>> \o lists[v]
         /\ \A w \in 1 .. Len(lists) : w # v => Linked(lists, v, u)[w] = lists[w]
<1> DEFINE new == <<u>> \o lists[v]
<1>1. new \in Seq(T)
  <2>1. <<u>> \in Seq(T) /\ lists[v] \in Seq(T)
    OBVIOUS
  <2> QED
    BY <2>1, ConcatProperties
<1>2. Linked(lists, v, u) = [lists EXCEPT ![v] = new]
  BY DEF Linked
<1> HIDE DEF new
<1>3. [lists EXCEPT ![v] = new] \in Seq(Seq(T)) /\ Len([lists EXCEPT ![v] = new]) = Len(lists)
  BY <1>1
<1>4. /\ [lists EXCEPT ![v] = new][v] = new
      /\ \A w \in 1 .. Len(lists) : w # v => [lists EXCEPT ![v] = new][w] = lists[w]
  OBVIOUS
<1> QED
  BY <1>2, <1>3, <1>4 DEF new

(* a use is taken out of its list,                                         *)
LEMMA UnlinkedIs ==
  ASSUME NEW T, NEW lists \in Seq(Seq(T)),
         NEW v \in 1 .. Len(lists), NEW u \in ToSet(lists[v])
  PROVE  /\ Unlinked(lists, v, u) \in Seq(Seq(T)) /\ Len(Unlinked(lists, v, u)) = Len(lists)
         /\ \A w \in 1 .. Len(lists) : w # v => Unlinked(lists, v, u)[w] = lists[w]
<1> DEFINE j == Position(lists[v], u)
           new == RemoveAt(lists[v], j)
<1>1. lists[v] \in Seq(T)
  OBVIOUS
<1>2. PICK m \in Nat : m = Len(lists[v]) /\ DOMAIN lists[v] = 1 .. m
  BY <1>1
<1>3. j \in 1 .. m
  <2>1. \E k \in DOMAIN lists[v] : lists[v][k] = u
    BY DEF ToSet
  <2>2. Position(lists[v], u) \in DOMAIN lists[v]
    BY <2>1, Zenon DEF Position
  <2> QED
    BY <1>2, <2>2
<1> HIDE DEF j
<1>4. new \in Seq(T)
  <2>1. \A k \in 1 .. m : lists[v][k] \in T
    BY <1>1, <1>2
  <2>2. SubSeq(lists[v], 1, j - 1) \in Seq(T)
    <3>1. 1 \in Int /\ j - 1 \in Int /\ \A k \in 1 .. j - 1 : lists[v][k] \in T
      BY <1>2, <1>3, <2>1
    <3> QED
      BY <3>1, SubSeqProperties
  <2>3. SubSeq(lists[v], j + 1, m) \in Seq(T)
    <3>1. j + 1 \in Int /\ m \in Int /\ \A k \in j + 1 .. m : lists[v][k] \in T
      BY <1>2, <1>3, <2>1
    <3> QED
      BY <3>1, SubSeqProperties
  <2>4. new = SubSeq(lists[v], 1, j - 1) \o SubSeq(lists[v], j + 1, m)
    BY <1>2 DEF RemoveAt
  <2> HIDE DEF new
  <2> QED
    BY <2>2, <2>3, <2>4, ConcatProperties
<1>5. Unlinked(lists, v, u) = [lists EXCEPT ![v] = new]
  BY DEF Unlinked, j
<1> HIDE DEF new
<1>6. [lists EXCEPT ![v] = new] \in Seq(Seq(T)) /\ Len([lists EXCEPT ![v] = new]) = Len(lists)
  BY <1>4
<1>7. \A w \in 1 .. Len(lists) : w # v => [lists EXCEPT ![v] = new][w] = lists[w]
  OBVIOUS
<1> QED
  BY <1>5, <1>6, <1>7

(* the multiplication takes over an operand of the operator.               *)
LEMMA OperatedIs ==
  ASSUME NEW T, NEW lists \in Seq(Seq(T)), Instrs = 1 .. Len(lists), NEW k \in 1 .. 2, <<New, k>> \in T
  PROVE  /\ Operated(lists, k) \in Seq(Seq(T)) /\ Len(Operated(lists, k)) = Len(lists)
         /\ \A w \in 1 .. Len(lists) : w # code[it].ops[k] => Operated(lists, k)[w] = lists[w]
<1> DEFINE o == code[it].ops[k]
           u == <<New, k>>
<1>1. u \in T
  OBVIOUS
<1>2. Operated(lists, k) = IF o \in Instrs THEN Linked(lists, o, u) ELSE lists
  BY Zenon DEF Operated
<1> HIDE DEF o, u
<1>3. CASE o \in Instrs
  <2>1. o \in 1 .. Len(lists) /\ u \in T
    BY <1>1, <1>3, Zenon
  <2>2. /\ Linked(lists, o, u) \in Seq(Seq(T)) /\ Len(Linked(lists, o, u)) = Len(lists)
        /\ \A w \in 1 .. Len(lists) : w # o => Linked(lists, o, u)[w] = lists[w]
    BY <2>1, LinkedIs, ZenonT(30)
  <2> QED
    BY <1>2, <1>3, <2>2, Zenon DEF o
<1>4. CASE o \notin Instrs
  BY <1>2, <1>4, Zenon DEF o
<1> QED
  BY <1>3, <1>4

(* An operator the walk comes to is one of the function's own, and its     *)
(* operands have been passed by or are multiplications.                    *)
LEMMA OperandsPassed ==
  ASSUME InsInv, pass = "multiply", use = None, it # None, code[it].kind = "operator"
  PROVE  /\ it \in Targets /\ it \notin Served /\ ~Passed(it)
         /\ \A v \in DOMAIN source : ~Passed(v) => v # code[it].ops[1] /\ v # code[it].ops[2]
         /\ code[it] \in Instruction /\ Len(code[it].ops) = 2
<1>1. CodeKept /\ ServedOnce /\ UsesMoved /\ Lists(order, Len(code))
  BY DEF InsInv, ServedOnce
<1> DEFINE n == Len(code)
<1>2. /\ Targets \subseteq 1 .. Len(source) /\ DOMAIN source = 1 .. Len(source)
      /\ DOMAIN code = 1 .. n /\ Len(source) <= n /\ Len(source) \in Nat
      /\ n \in Nat /\ code \in Seq(Instruction) /\ source \in Seq(Instruction) /\ it \in 1 .. n
      /\ \A i \in 1 .. n : Position(order, i) \in 1 .. n
      /\ Added = Len(source) + 1 .. n
  BY <1>1, Numbers
<1>3. PICK p \in 1 .. n : p = Position(order, it)
  BY <1>2
<1>4. \A i : Passed(i) <=> Position(order, i) < p
  BY <1>3 DEF Passed
<1>5. ~Passed(it)
  BY <1>3, <1>4
<1>6. \A i \in Served : Passed(i) /\ i \in Targets
  BY DEF Served
<1>7. it \notin Added
  <2> SUFFICES ASSUME it \in Added PROVE FALSE
    OBVIOUS
  <2>1. PICK i \in Served : Position(order, it) = Beside(i)
    BY <1>1, Zenon DEF ServedOnce
  <2>2. i \in 1 .. n
    <3>1. i \in 1 .. Len(source)
      BY <1>2, <1>6, Zenon
    <3>2. Len(source) \in Nat /\ n \in Nat /\ Len(source) <= n
      BY <1>2, Zenon
    <3> HIDE DEF n
    <3> QED
      BY <3>1, <3>2
  <2>3. PICK a \in 1 .. n : a = Position(order, i)
    BY <1>2, <2>2
  <2>4. p = a - 1 /\ a < p
    BY <1>3, <1>4, <1>6, <2>1, <2>3 DEF Beside
  <2> QED
    BY <2>4
<1>8. it \in DOMAIN source
  <2>1. PICK l \in Nat, m \in Nat : l = Len(source) /\ m = n /\ l <= m
    BY <1>2, Zenon
  <2>2. it \in 1 .. m /\ it \notin l + 1 .. m
    BY <1>2, <1>7, <2>1, Zenon
  <2>3. it \in 1 .. l
    BY <2>1, <2>2
  <2> QED
    BY <1>2, <2>1, <2>3, Zenon
<1>9. source[it].kind = "operator" /\ Len(code[it].ops) = Len(source[it].ops)
  BY <1>1, <1>8 DEF CodeKept
<1>10. it \in Targets
  BY <1>8, <1>9 DEF Targets, Wanted
<1>11. Len(source[it].ops) = 2 /\ \A k \in 1 .. 2 : source[it].ops[k] < it
  BY <1>1, <1>8, <1>9, OperatorsAssumption DEF CodeKept
<1>12. code[it] \in Instruction /\ source[it] \in Instruction
  BY <1>2, <1>8
<1>13. source[it].ops \in Seq(Int)
  BY <1>12 DEF Instruction
<1>14. DOMAIN source[it].ops = 1 .. 2 /\ \A k \in 1 .. 2 : source[it].ops[k] \in Int
  BY <1>11, <1>13
<1>15. \A k \in 1 .. 2 : code[it].ops[k] = source[it].ops[k] \/ IsNew(code[it].ops[k])
  BY <1>1, <1>8, <1>14 DEF UsesMoved
<1>16. ASSUME NEW v \in DOMAIN source, ~Passed(v), NEW k \in 1 .. 2
       PROVE  v # code[it].ops[k]
  <2>1. ~IsNew(v)
    <3>1. PICK l \in Nat : l = Len(source)
      BY <1>2
    <3>2. v \in 1 .. l
      BY <1>2, <3>1
    <3> QED
      BY <3>1, <3>2 DEF IsNew
  <2>2. v # source[it].ops[k]
    <3> SUFFICES ASSUME v = source[it].ops[k] PROVE FALSE
      OBVIOUS
    <3>1. v < it
      BY <1>11
    <3>2. Position(order, v) < p
      BY <1>1, <1>3, <1>8, <3>1 DEF ServedOnce
    <3> QED
      BY <1>4, <1>16, <3>2
  <2> QED
    BY <1>15, <2>1, <2>2
<1>17. it \notin Served
  BY <1>5, <1>6
<1> QED
  BY <1>5, <1>9, <1>10, <1>11, <1>12, <1>16, <1>17

(* What the multiplication does to the lists of uses.                      *)
WithProduct(lists) == Append(Operated(Operated(lists, 1), 2), << >>)
LEMMA WithProductIs ==
  ASSUME NEW T, NEW lists \in Seq(Seq(T)), Instrs = 1 .. Len(lists),
         <<New, 1>> \in T, <<New, 2>> \in T
  PROVE  /\ WithProduct(lists) \in Seq(Seq(T)) /\ Len(WithProduct(lists)) = Len(lists) + 1
         /\ WithProduct(lists)[Len(lists) + 1] = << >>
         /\ \A w \in 1 .. Len(lists) :
              w # code[it].ops[1] /\ w # code[it].ops[2] => WithProduct(lists)[w] = lists[w]
<1> DEFINE one == Operated(lists, 1)
           two == Operated(one, 2)
           new == WithProduct(lists)
<1>1. /\ one \in Seq(Seq(T)) /\ Len(one) = Len(lists)
      /\ \A w \in 1 .. Len(lists) : w # code[it].ops[1] => one[w] = lists[w]
  <2>1. 1 \in 1 .. 2
    OBVIOUS
  <2> QED
    BY <2>1, OperatedIs, Zenon
<1> HIDE DEF one
<1>2. /\ two \in Seq(Seq(T)) /\ Len(two) = Len(lists)
      /\ \A w \in 1 .. Len(lists) : w # code[it].ops[2] => two[w] = one[w]
  <2>1. 2 \in 1 .. 2 /\ Instrs = 1 .. Len(one)
    BY <1>1
  <2>2. /\ two \in Seq(Seq(T)) /\ Len(two) = Len(one)
        /\ \A w \in 1 .. Len(one) : w # code[it].ops[2] => two[w] = one[w]
    BY <1>1, <2>1, OperatedIs, Zenon
  <2> QED
    BY <1>1, <2>2
<1>3. new = Append(two, << >>)
  BY DEF one, WithProduct
<1> HIDE DEF new, two
<1>4. << >> \in Seq(T)
  OBVIOUS
<1>5. /\ new \in Seq(Seq(T)) /\ Len(new) = Len(two) + 1 /\ new[Len(two) + 1] = << >>
      /\ \A w \in 1 .. Len(two) : new[w] = two[w]
  <2> DEFINE S == Seq(T)
  <2>1. two \in Seq(S) /\ << >> \in S
    BY <1>2, <1>4
  <2> HIDE DEF S
  <2>2. PICK none \in S : none = << >>
    BY <2>1
  <2>3. /\ Append(two, none) \in Seq(S) /\ Len(Append(two, none)) = Len(two) + 1
        /\ Append(two, none)[Len(two) + 1] = none
        /\ \A w \in 1 .. Len(two) : Append(two, none)[w] = two[w]
    BY <2>1, AppendProperties
  <2> QED
    BY <1>3, <2>2, <2>3, Zenon DEF S
<1> QED
  BY <1>1, <1>2, <1>5 DEF new

(* The multiplication is put before the operator.                          *)
LEMMA CreateKeeps ==
  ASSUME InsInv, CreateMul
  PROVE  InsInv'
<1>1. /\ pass = "multiply" /\ it # None /\ use = None /\ code[it].kind = "operator"
      /\ code' = Append(code, [kind |-> "operator", ops |-> code[it].ops])
      /\ order' = InsertAt(order, Position(order, it), New)
      /\ uses' = Append(Operated(Operated(uses, 1), 2), << >>)
      /\ use' = First(uses'[it])
      /\ it' = IF use' = None THEN After(order, it) ELSE it
      /\ pass' = pass /\ source' = source /\ orig_calls' = orig_calls
  BY Zenon DEF CreateMul
<1>2. CodeKept /\ ServedOnce /\ CallsOnce /\ UsesMoved /\ Lists(order, Len(code))
  BY DEF InsInv, ServedOnce
<1> DEFINE n == Len(code)
<1>3. /\ Targets \subseteq 1 .. Len(source) /\ DOMAIN source = 1 .. Len(source)
      /\ DOMAIN code = 1 .. n /\ Len(source) <= n /\ Len(source) \in Nat
      /\ n \in Nat /\ code \in Seq(Instruction) /\ source \in Seq(Instruction) /\ it \in 1 .. n
      /\ \A i \in 1 .. n : Position(order, i) \in 1 .. n /\ order[Position(order, i)] = i
      /\ \A i, k \in 1 .. n : Position(order, i) = Position(order, k) => i = k
      /\ Added = Len(source) + 1 .. n
  BY <1>1, <1>2, Numbers
<1>4. /\ it \in Targets /\ it \notin Served /\ ~Passed(it)
      /\ \A v \in DOMAIN source : ~Passed(v) => v # code[it].ops[1] /\ v # code[it].ops[2]
      /\ code[it] \in Instruction
  BY <1>1, OperandsPassed
<1>5. 1 .. Len(source) \subseteq 1 .. n /\ Targets \subseteq 1 .. n
  <2>1. PICK l \in Nat, m \in Nat : l = Len(source) /\ m = n /\ l <= m
    BY <1>3, Zenon
  <2>2. 1 .. l \subseteq 1 .. m
    BY <2>1
  <2> QED
    BY <1>3, <2>1, <2>2, Zenon
<1>6. PICK p \in 1 .. n : p = Position(order, it)
  BY <1>3
<1>7. /\ Lists(order', n + 1) /\ Position(order', n + 1) = p
      /\ \A i \in 1 .. n :
           Position(order', i) = IF Position(order, i) < p THEN Position(order, i)
                                                           ELSE Position(order, i) + 1
  <2>1. n \in Nat /\ Lists(order, n) /\ p \in 1 .. n + 1
    BY <1>2, <1>3
  <2>2. order' = InsertAt(order, p, n + 1)
    BY <1>1, <1>6 DEF New
  <2> HIDE DEF n
  <2> QED
    BY <2>1, <2>2, InsertIs
<1>8. /\ \A i \in 1 .. n + 1 : Position(order', i) \in 1 .. n + 1 /\ order'[Position(order', i)] = i
  <2>1. n + 1 \in Nat
    BY <1>3
  <2> QED
    BY <1>7, <2>1, ListedAt, Zenon
(* The lists of uses.                                                      *)
<1>9. /\ uses' \in Seq(Seq(Nat \X Nat)) /\ Len(uses') = n + 1 /\ uses'[New] = << >>
      /\ \A v \in DOMAIN source : ~Passed(v) => uses'[v] = uses[v] /\ uses[v] \in Seq(Nat \X Nat)
  <2> DEFINE T == Nat \X Nat
  <2>1. /\ uses \in Seq(Seq(T)) /\ Len(uses) = n
    BY <1>1, <1>2 DEF UsesMoved
  <2>2. /\ Instrs = 1 .. Len(uses) /\ <<New, 1>> \in T /\ <<New, 2>> \in T
    <3>1. Instrs = 1 .. n /\ Len(uses) = n
      BY <1>3, <2>1, Zenon DEF Instrs
    <3>2. New \in Nat
      BY <1>3 DEF New
    <3> QED
      BY <3>1, <3>2
  <2> HIDE DEF T
  <2>3. /\ uses' \in Seq(Seq(T)) /\ Len(uses') = Len(uses) + 1 /\ uses'[Len(uses) + 1] = << >>
        /\ \A w \in 1 .. Len(uses) :
              w # code[it].ops[1] /\ w # code[it].ops[2] => uses'[w] = uses[w]
    <3>1. uses' = Append(Operated(Operated(uses, 1), 2), << >>) /\ uses \in Seq(Seq(T))
      BY <1>1, <2>1, Zenon
    <3>2. uses' = WithProduct(uses)
      BY <3>1 DEF WithProduct
    <3>3. /\ WithProduct(uses) \in Seq(Seq(T)) /\ Len(WithProduct(uses)) = Len(uses) + 1
          /\ WithProduct(uses)[Len(uses) + 1] = << >>
          /\ \A w \in 1 .. Len(uses) :
               w # code[it].ops[1] /\ w # code[it].ops[2] => WithProduct(uses)[w] = uses[w]
      BY <2>2, <3>1, WithProductIs, Zenon
    <3> QED
      BY <3>2, <3>3, Zenon
  <2>4. \A w \in 1 .. n : uses[w] \in Seq(T)
    BY <2>1
  <2>5. \A v \in DOMAIN source : v \in 1 .. n
    BY <1>3, <1>5
  <2> HIDE DEF n
  <2>6. \A v \in DOMAIN source : ~Passed(v) => uses'[v] = uses[v] /\ uses[v] \in Seq(T)
    BY <1>4, <2>1, <2>3, <2>4, <2>5, Zenon
  <2>7. Len(uses') = n + 1 /\ uses'[New] = << >>
    BY <2>1, <2>3 DEF New, n
  <2> QED
    BY <2>3, <2>6, <2>7 DEF T
<1>10. /\ ToSet(uses'[it]) = UsesIn(source, it) /\ uses'[it] \in Seq(Nat \X Nat)
  BY <1>1, <1>2, <1>3, <1>4, <1>9 DEF UsesMoved
<1>11. IF UsesIn(source, it) = {} THEN use' = None
       ELSE use' \in UsesIn(source, it) /\ use' # None
  <2>1. PICK list : list = uses'[it]
    OBVIOUS
  <2>2. list \in Seq(Nat \X Nat) /\ ToSet(list) = UsesIn(source, it) /\ use' = First(list)
    BY <1>1, <1>10, <2>1
  <2>3. CASE list = << >>
    <3>1. ToSet(list) = {}
      BY <2>3 DEF ToSet
    <3> QED
      BY <2>2, <2>3, <3>1 DEF First
  <2>4. CASE list # << >>
    <3>1. 1 \in DOMAIN list
      BY <2>2, <2>4
    <3>2. list[1] \in ToSet(list) /\ list[1] \in Nat \X Nat
      BY <2>2, <3>1 DEF ToSet
    <3>3. list[1] # None
      BY <3>2, OperatorsAssumption
    <3> QED
      BY <2>2, <2>4, <3>2, <3>3 DEF First
  <2> QED
    BY <2>3, <2>4
(* The iterator.                                                           *)
<1>12. /\ it' \in 1 .. n \cup {None}
       /\ \A i \in 1 .. n : Passed(i)' <=> Passed(i) \/ (use' = None /\ i = it)
  <2>0. None \notin 1 .. n
    BY <1>3, OperatorsAssumption
  <2>1. CASE use' = None
    <3>1. /\ p = n => it' = None
          /\ p # n => it' \in 1 .. n /\ Position(order, it') = p + 1
      <4>1. n \in Nat /\ Lists(order, n) /\ it \in 1 .. n
        BY <1>2, <1>3, Zenon
      <4>2. /\ Position(order, it) = n => After(order, it) = None
            /\ Position(order, it) # n => /\ After(order, it) \in 1 .. n
                  /\ Position(order, After(order, it)) = Position(order, it) + 1
        BY <4>1, AfterIs, Zenon
      <4> QED
        BY <1>1, <1>6, <2>1, <4>2, Zenon
    <3>2. ASSUME NEW i \in 1 .. n PROVE Passed(i)' <=> Passed(i) \/ i = it
      <4>1. PICK a \in 1 .. n : a = Position(order, i)
        BY <1>3
      <4>2. Passed(i) \/ i = it <=> a <= p
        <5>1. i = it <=> a = p
          BY <1>3, <1>6, <4>1, Zenon
        <5>2. Passed(i) <=> a < p
          BY <1>1, <1>6, <4>1, Zenon DEF Passed
        <5> QED
          BY <5>1, <5>2
      <4>3. CASE p = n
        BY <3>1, <4>2, <4>3 DEF Passed
      <4>4. CASE p # n
        <5>1. it' \in 1 .. n /\ Position(order, it') = p + 1
          BY <3>1, <4>4
        <5>2. Position(order', it') = p + 1 + 1
          BY <1>7, <5>1
        <5>3. Position(order', i) = IF a < p THEN a ELSE a + 1
          BY <1>7, <4>1
        <5>4. Passed(i)' <=> Position(order', i) < p + 1 + 1
          BY <2>0, <5>1, <5>2 DEF Passed
        <5> QED
          BY <4>2, <5>3, <5>4
      <4> QED
        BY <4>3, <4>4
    <3> QED
      BY <2>1, <3>1, <3>2
  <2>2. CASE use' # None
    <3>1. it' = it
      BY <1>1, <2>2
    <3>2. Position(order', it) = p + 1
      BY <1>3, <1>6, <1>7
    <3>3. ASSUME NEW i \in 1 .. n PROVE Passed(i)' <=> Passed(i)
      <4>1. PICK a \in 1 .. n : a = Position(order, i)
        BY <1>3
      <4>2. Passed(i) <=> a < p
        BY <1>1, <1>6, <4>1 DEF Passed
      <4>3. Passed(i)' <=> Position(order', i) < p + 1
        BY <1>1, <3>1, <3>2 DEF Passed
      <4>4. Position(order', i) = IF a < p THEN a ELSE a + 1
        BY <1>7, <4>1
      <4> QED
        BY <4>2, <4>3, <4>4
    <3> QED
      BY <1>3, <2>2, <3>1, <3>3
  <2> QED
    BY <2>1, <2>2
<1>13. CodeKept' /\ code' \in Seq(Instruction) /\ Len(code') = New
       /\ \A i \in 1 .. n : code'[i] = code[i]
  <2> DEFINE rec == [kind |-> "operator", ops |-> code[it].ops]
  <2>1. rec \in Instruction /\ rec.kind = "operator"
    BY <1>4 DEF Instruction, Kinds
  <2>2. code' = Append(code, rec)
    BY <1>1
  <2>3. it' \in 1 .. New \cup {None}
    <3>1. 1 .. n \subseteq 1 .. New
      BY <1>3 DEF New
    <3> QED
      BY <1>12, <3>1
  <2> HIDE DEF rec
  <2> QED
    BY <1>1, <1>2, <2>1, <2>2, <2>3, Appended
<1>14. Targets' = Targets
  BY <1>1 DEF Targets, Wanted
<1> HIDE DEF Passed
<1>15. Served' = Served \cup {it}
  <2>1. \A i \in Targets : i \in Served <=> Passed(i)
    BY <1>1 DEF Served
  <2>2. \A i \in Targets : i \in Served' <=> Passed(i)' \/ (i = it' /\ use' # None)
    BY <1>1, <1>14 DEF Served
  <2>3. Served \subseteq Targets /\ Served' \subseteq Targets
    BY <1>14 DEF Served
  <2>4. use' # None => it' = it
    BY <1>1
  <2>5. \A i \in Targets : Passed(i)' <=> Passed(i) \/ (use' = None /\ i = it)
    BY <1>5, <1>12
  <2> QED
    BY <1>4, <2>1, <2>2, <2>3, <2>4, <2>5
<1>16. ServedOnce' /\ Added' = Added \cup {New}
  <2>1. order' = InsertAt(order, IF pass = "multiply" THEN Position(order, it)
                                   ELSE Position(order, it) + 1, New)
    BY <1>1
  <2> QED
    BY <1>1, <1>2, <1>4, <1>13, <1>15, <2>1, ServedOneMore
<1>17. CallsOnce'
  BY <1>1, <1>2, <1>14, Zenon DEF CallsOnce
<1>18. \A v \in DOMAIN source : \A u \in UsesIn(source, v) : UsedAt(u)' = UsedAt(u)
  <2> SUFFICES ASSUME NEW v \in DOMAIN source, NEW u \in UsesIn(source, v)
               PROVE  code'[u[1]] = code[u[1]]
    BY Zenon DEF UsedAt
  <2>1. PICK i \in DOMAIN source, k \in Nat : u = <<i, k>>
    <3>1. source \in Seq(Instruction)
      BY <1>3
    <3> QED
      BY <3>1, UsesAre
  <2>2. u[1] = i /\ i \in 1 .. n
    BY <1>3, <1>5, <2>1
  <2> QED
    BY <1>13, <2>2
<1>19. use' # None => /\ it' \in Targets' /\ use' \in UsesIn(source', it')
                      /\ Mul' \in Added' /\ uses'[Mul'] = << >>
  <2> SUFFICES ASSUME use' # None
               PROVE  /\ it' \in Targets' /\ use' \in UsesIn(source', it')
                      /\ Mul' \in Added' /\ uses'[Mul'] = << >>
    OBVIOUS
  <2>1. it' = it /\ use' \in UsesIn(source', it')
    BY <1>1, <1>11
  <2>2. Mul' = New
    <3>1. Position(order', it) = p + 1 /\ order'[p] = n + 1
      <4>1. Position(order', it) = p + 1
        BY <1>3, <1>6, <1>7
      <4>2. n + 1 \in 1 .. n + 1
        BY <1>3
      <4> QED
        BY <1>7, <1>8, <4>1, <4>2
    <3>2. Mul' = order'[p + 1 - 1]
      BY <2>1, <3>1 DEF Mul
    <3> QED
      BY <3>1, <3>2 DEF New
  <2> QED
    BY <1>4, <1>9, <1>14, <1>16, <2>1, <2>2
<1>20. \A i \in DOMAIN source : \A k \in DOMAIN source[i].ops :
          code'[i].ops[k] = source[i].ops[k]
            \/ (source[i].ops[k] \in Targets /\ IsNew(code'[i].ops[k]))
  <2>1. \A i \in DOMAIN source : code'[i] = code[i]
    BY <1>3, <1>5, <1>13
  <2> QED
    BY <1>1, <1>2, <2>1 DEF UsesMoved
<1>21. \A v \in DOMAIN source : ~Passed(v)' => /\ Kept(v)'
                                               /\ ToSet(uses'[v]) = UsesIn(source, v)
  <2> SUFFICES ASSUME NEW v \in DOMAIN source, ~Passed(v)'
               PROVE  Kept(v)' /\ ToSet(uses'[v]) = UsesIn(source, v)
    BY Zenon
  <2>1. ~Passed(v)
    BY <1>3, <1>5, <1>12
  <2>2. Kept(v) /\ ToSet(uses[v]) = UsesIn(source, v)
    BY <1>1, <1>2, <2>1 DEF UsesMoved
  <2>3. Kept(v)'
    BY <1>1, <1>18, <2>2 DEF Kept
  <2> QED
    BY <1>9, <2>1, <2>2, <2>3
(* The multiplications that were there stay where they are.                *)
<1>p. ASSUME NEW v \in Served
      PROVE  order[Beside(v)] \in 1 .. n /\ order'[Beside(v)'] = order[Beside(v)]
  <2>1. v \in Targets /\ v \in 1 .. n /\ Passed(v)
    BY <1>1, <1>5 DEF Served
  <2>5. PICK m \in Added : Position(order, m) = Beside(v)
    BY <1>2, Zenon DEF ServedOnce
  <2>6. m \in 1 .. n
    BY <1>3
  <2>7. PICK a \in 1 .. n, b \in 1 .. n : a = Position(order, v) /\ b = Position(order, m)
    BY <1>3, <2>1, <2>6, Zenon
  <2>8. a < p /\ b = a - 1
    BY <1>1, <1>6, <2>1, <2>5, <2>7 DEF Passed, Beside
  <2>9. Position(order', v) = a /\ Position(order', m) = b
    <3>1. /\ Position(order', v) = IF a < p THEN a ELSE a + 1
          /\ Position(order', m) = IF b < p THEN b ELSE b + 1
      BY <1>7, <2>1, <2>6, <2>7, Zenon
    <3> QED
      BY <2>8, <3>1
  <2>10. Beside(v)' = b
    BY <1>1, <2>8, <2>9 DEF Beside
  <2>11. order'[b] = m /\ order[b] = m
    <3>1. m \in 1 .. n + 1
      BY <2>6, <1>3
    <3> QED
      BY <1>3, <1>8, <2>6, <2>7, <2>9, <3>1, Zenon
  <2> QED
    BY <2>5, <2>6, <2>7, <2>10, <2>11
<1>22. \A v \in Targets : Passed(v)' /\ UsesIn(source, v) # {} =>
          \E u \in UsesIn(source, v) :
            /\ UsedAt(u)' = order'[Beside(v)']
            /\ \A w \in UsesIn(source, v) \ {u} : UsedAt(w)' = v
  <2> SUFFICES ASSUME NEW v \in Targets, Passed(v)', UsesIn(source, v) # {}
               PROVE  \E u \in UsesIn(source, v) :
                        /\ UsedAt(u)' = order'[Beside(v)']
                        /\ \A w \in UsesIn(source, v) \ {u} : UsedAt(w)' = v
    BY Zenon
  <2>1. v \in DOMAIN source /\ v \in 1 .. n
    BY <1>3, <1>5
  <2>2. Passed(v)
    BY <1>11, <1>12, <2>1
  <2>3. PICK u \in UsesIn(source, v) :
          /\ UsedAt(u) = order[Beside(v)]
          /\ \A w \in UsesIn(source, v) \ {u} : UsedAt(w) = v
    BY <1>1, <1>2, <2>2 DEF UsesMoved
  <2>4. v \in Served
    BY <1>1, <2>2 DEF Served
  <2>12. UsedAt(u)' = order'[Beside(v)']
    BY <1>p, <1>18, <2>1, <2>3, <2>4
  <2>13. \A w \in UsesIn(source, v) \ {u} : UsedAt(w)' = v
    BY <1>18, <2>1, <2>3
  <2> QED
    BY <2>12, <2>13
<1>23. UsesMoved'
  <2>1. Len(uses') = Len(code')
    BY <1>9, <1>13 DEF New
  <2>2. \A i : IsNew(i)' <=> IsNew(i)
    BY <1>1 DEF IsNew
  <2> HIDE DEF IsNew, Kept, UsedAt, Beside, Mul
  <2> QED
    BY <1>1, <1>9, <1>14, <1>19, <1>20, <1>21, <1>22, <2>1, <2>2, Zenon DEF UsesMoved
<1>24. ProductsMultiply'
  <2>0. PICK o \in 1 .. n : o = it
    BY <1>3
  <2>1. order'[Beside(o)'] = New
    <3>1. Position(order', o) = p + 1 /\ New = n + 1 /\ New \in 1 .. n + 1
      BY <1>3, <1>6, <1>7, <2>0 DEF New
    <3>2. Beside(o)' = p
      BY <1>1, <3>1 DEF Beside
    <3> QED
      BY <1>7, <1>8, <3>1, <3>2
  <2>2. code'[New].ops = code[o].ops /\ code'[o] = code[o]
    <3>1. code'[New] = [kind |-> "operator", ops |-> code[o].ops]
      BY <1>1, <1>3, <2>0 DEF New
    <3> QED
      BY <1>13, <3>1
  <2>3. ASSUME NEW v \in Served
        PROVE  code'[order'[Beside(v)']].ops = code'[v].ops
    <3>1. v \in 1 .. n
      BY <1>5 DEF Served
    <3>2. code[order[Beside(v)]].ops = code[v].ops
      BY <1>1, Zenon DEF InsInv, ProductsMultiply
    <3> QED
      BY <1>p, <1>13, <3>1, <3>2
  <2>4. \A v \in Served' : code'[order'[Beside(v)']].ops = code'[v].ops
    <3>1. Served' = Served \cup {o}
      BY <1>15, <2>0
    <3>2. code'[order'[Beside(o)']].ops = code'[o].ops
      BY <2>1, <2>2
    <3> HIDE DEF Beside, Served
    <3> QED
      BY <2>3, <3>1, <3>2, Zenon
  <2>5. (\A v \in Served : code[order[Beside(v)]].ops = code[v].ops)'
    BY <2>4, Zenon
  <2> QED
    BY <2>5, Zenon DEF ProductsMultiply
<1> QED
  BY <1>13, <1>16, <1>17, <1>23, <1>24 DEF InsInv

(* A sequence of instructions with one operand set, and what that leaves.  *)
WithOperand(c, i, k, x) == [c EXCEPT ![i].ops[k] = x]
Changed(d, c, i, k, x) ==
  /\ d \in Seq(Instruction) /\ Len(d) = Len(c) /\ DOMAIN d = DOMAIN c
  /\ \A j \in DOMAIN c : d[j].kind = c[j].kind /\ Len(d[j].ops) = Len(c[j].ops)
  /\ \A j \in DOMAIN c : j # i => d[j] = c[j]
  /\ d[i].ops[k] = x /\ \A l \in DOMAIN c[i].ops : l # k => d[i].ops[l] = c[i].ops[l]
LEMMA WithOperandIs ==
  ASSUME NEW c \in Seq(Instruction), NEW i \in DOMAIN c, NEW k \in DOMAIN c[i].ops,
         NEW x \in Int
  PROVE  Changed(WithOperand(c, i, k, x), c, i, k, x)
<1> DEFINE ops == [c[i].ops EXCEPT ![k] = x]
           rec == [c[i] EXCEPT !.ops = ops]
           d == WithOperand(c, i, k, x)
<1>1. c[i] \in Instruction
  OBVIOUS
<1>2. c[i].ops \in Seq(Int) /\ c[i].kind \in Kinds
  BY <1>1 DEF Instruction
<1>3. /\ ops \in Seq(Int) /\ Len(ops) = Len(c[i].ops) /\ ops[k] = x
      /\ \A l \in DOMAIN c[i].ops : l # k => ops[l] = c[i].ops[l]
  BY <1>2
<1>5. d = [c EXCEPT ![i] = rec]
  BY DEF WithOperand
<1> HIDE DEF ops
<1>6. rec \in Instruction /\ rec.kind = c[i].kind /\ rec.ops = ops
  BY <1>1, <1>3 DEF Instruction
<1> HIDE DEF rec, d
<1>7. /\ d \in Seq(Instruction) /\ Len(d) = Len(c) /\ DOMAIN d = DOMAIN c
  BY <1>5, <1>6
<1>8. d[i] = rec /\ \A j \in DOMAIN c : j # i => d[j] = c[j]
  BY <1>5
<1> QED
  BY <1>3, <1>6, <1>7, <1>8 DEF d, Changed

(* A use of the operator becomes one of the multiplication.                *)
LEMMA MoveKeeps ==
  ASSUME InsInv, SetOperand
  PROVE  InsInv'
<1>1. /\ pass = "multiply" /\ use # None
      /\ code' = [code EXCEPT ![use[1]].ops[use[2]] = Mul]
      /\ uses' = Linked(Unlinked(uses, it, use), Mul, use)
      /\ use' = After(uses'[Mul], use)
      /\ it' = IF use' = None THEN After(order, it) ELSE it
      /\ pass' = pass /\ source' = source /\ order' = order /\ orig_calls' = orig_calls
  BY Zenon DEF SetOperand, NextUse
<1>2. CodeKept /\ ServedOnce /\ CallsOnce /\ UsesMoved /\ Lists(order, Len(code))
  BY DEF InsInv, ServedOnce
<1> DEFINE n == Len(code)
<1>3. /\ Targets \subseteq 1 .. Len(source) /\ DOMAIN source = 1 .. Len(source)
      /\ DOMAIN code = 1 .. n /\ Len(source) <= n /\ Len(source) \in Nat
      /\ n \in Nat /\ code \in Seq(Instruction) /\ source \in Seq(Instruction)
      /\ \A i \in 1 .. n : Position(order, i) \in 1 .. n /\ order[Position(order, i)] = i
      /\ Added = Len(source) + 1 .. n
  BY <1>2, Numbers
<1>4. 1 .. Len(source) \subseteq 1 .. n /\ Targets \subseteq 1 .. n
  <2>1. PICK l \in Nat, m \in Nat : l = Len(source) /\ m = n /\ l <= m
    BY <1>3, Zenon
  <2>2. 1 .. l \subseteq 1 .. m
    BY <2>1
  <2> QED
    BY <1>3, <2>1, <2>2, Zenon
<1>5. it \in Targets /\ use \in UsesIn(source, it) /\ Mul \in Added /\ uses[Mul] = << >>
  BY <1>1, <1>2 DEF UsesMoved
<1>6. it \in 1 .. n /\ it \in DOMAIN source /\ it # None /\ ~Passed(it)
  <2>1. it \in 1 .. n /\ it \in DOMAIN source
    BY <1>3, <1>4, <1>5
  <2>2. it # None
    BY <1>3, <2>1, OperatorsAssumption
  <2>3. Position(order, it) \in Nat
    BY <1>3, <2>1
  <2> QED
    BY <2>1, <2>2, <2>3 DEF Passed
<1>7. Mul \in 1 .. n /\ IsNew(Mul) /\ Mul # it
  <2>1. Mul \in 1 .. n /\ IsNew(Mul)
    BY <1>3, <1>5 DEF Added
  <2>2. PICK l \in Nat : l = Len(source) /\ it \in 1 .. l
    BY <1>3, <1>6
  <2> QED
    BY <2>1, <2>2 DEF IsNew
<1>8. PICK a \in DOMAIN source, b \in Nat :
         use = <<a, b>> /\ b \in DOMAIN source[a].ops /\ source[a].ops[b] = it
  <2>1. source \in Seq(Instruction)
    BY <1>3
  <2>2. \E a \in DOMAIN source, b \in Nat :
           use = <<a, b>> /\ b \in DOMAIN source[a].ops /\ source[a].ops[b] = it
    BY <1>5, <2>1, UsesAre
  <2> QED
    BY <2>2
<1>9. a \in DOMAIN code /\ b \in DOMAIN code[a].ops
  <2>1. a \in DOMAIN code
    BY <1>3, <1>4
  <2>2. Len(code[a].ops) = Len(source[a].ops)
    BY <1>2 DEF CodeKept
  <2>3. code[a] \in Instruction /\ source[a] \in Instruction
    BY <1>3, <2>1
  <2>4. code[a].ops \in Seq(Int) /\ source[a].ops \in Seq(Int)
    BY <2>3 DEF Instruction
  <2> QED
    BY <1>8, <2>1, <2>2, <2>4
<1>10. /\ code' \in Seq(Instruction) /\ Len(code') = n /\ DOMAIN code' = DOMAIN code
       /\ \A j \in DOMAIN code : code'[j].kind = code[j].kind /\ Len(code'[j].ops) = Len(code[j].ops)
       /\ \A j \in DOMAIN code : j # a => code'[j] = code[j]
       /\ code'[a].ops[b] = Mul
       /\ \A l \in DOMAIN code[a].ops : l # b => code'[a].ops[l] = code[a].ops[l]
  <2>1. code' = [code EXCEPT ![a].ops[b] = Mul]
    BY <1>1, <1>8
  <2>2. Mul \in Int
    BY <1>3, <1>7
  <2> HIDE DEF Mul
  <2> QED
    <3>1. code' = WithOperand(code, a, b, Mul)
      BY <2>1 DEF WithOperand
    <3>2. code \in Seq(Instruction)
      BY <1>3
    <3>3. Changed(WithOperand(code, a, b, Mul), code, a, b, Mul)
      BY <1>9, <2>2, <3>2, WithOperandIs, Zenon
    <3>4. Changed(code', code, a, b, Mul)
      BY <3>1, <3>3
    <3> QED
      BY <1>3, <3>4 DEF Changed
(* The lists of uses.                                                      *)
<1>11. /\ uses' \in Seq(Seq(Nat \X Nat)) /\ Len(uses') = n
       /\ uses'[Mul] = <<use>>
       /\ \A w \in 1 .. n : w # it /\ w # Mul => uses'[w] = uses[w]
  <2> DEFINE T == Nat \X Nat
             one == Unlinked(uses, it, use)
  <2>1. /\ uses \in Seq(Seq(T)) /\ Len(uses) = n
        /\ use \in ToSet(uses[it]) /\ use \in T
    BY <1>1, <1>2, <1>3, <1>5, <1>6, UsesAre DEF UsesMoved
  <2> HIDE DEF T
  <2>2. it \in 1 .. Len(uses) /\ Mul \in 1 .. Len(uses)
    BY <1>6, <1>7, <2>1
  <2>3. /\ one \in Seq(Seq(T)) /\ Len(one) = Len(uses)
        /\ \A w \in 1 .. Len(uses) : w # it => one[w] = uses[w]
    BY <2>1, <2>2, UnlinkedIs, Zenon
  <2> HIDE DEF one
  <2>4. Mul \in 1 .. Len(one)
    BY <2>2, <2>3
  <2> HIDE DEF Mul
  <2>5. /\ Linked(one, Mul, use) \in Seq(Seq(T)) /\ Len(Linked(one, Mul, use)) = Len(one)
        /\ Linked(one, Mul, use)[Mul] = <<use>> \o one[Mul]
        /\ \A w \in 1 .. Len(one) : w # Mul => Linked(one, Mul, use)[w] = one[w]
    BY <2>1, <2>3, <2>4, LinkedIs, Zenon
  <2>6. uses' = Linked(one, Mul, use)
    BY <1>1 DEF one
  <2>7. one[Mul] = << >>
    BY <1>5, <1>7, <2>2, <2>3, Zenon
  <2>8. <<use>> \o << >> = <<use>>
    OBVIOUS
  <2>9. uses'[Mul] = <<use>>
    BY <2>5, <2>6, <2>7, <2>8
  <2>10. Len(one) = n /\ Len(uses) = n
    BY <2>1, <2>3
  <2> HIDE DEF n
  <2>11. \A w \in 1 .. n : w # it /\ w # Mul => uses'[w] = uses[w]
    BY <2>3, <2>5, <2>6, <2>10, Zenon
  <2> QED
    BY <2>5, <2>6, <2>9, <2>10, <2>11 DEF T
<1>12. use' = None /\ it' = After(order, it)
  <2>1. use = <<use>>[Len(<<use>>)]
    OBVIOUS
  <2>2. After(<<use>>, use) = None
    BY <2>1, Zenon DEF After
  <2> QED
    BY <1>1, <1>11, <2>2
<1>13. /\ \A i \in 1 .. n : Passed(i)' <=> Passed(i) \/ i = it
       /\ it' \in 1 .. n \cup {None}
  BY <1>1, <1>2, <1>6, <1>12, PassesOne
<1>14. Targets' = Targets
  BY <1>1 DEF Targets, Wanted
<1> HIDE DEF Passed
<1>15. Served' = Served
  <2>1. \A i \in Targets : i \in Served <=> Passed(i) \/ i = it
    BY <1>1 DEF Served
  <2>2. \A i \in Targets : i \in Served' <=> Passed(i)'
    BY <1>1, <1>12, <1>14 DEF Served
  <2>3. Served \subseteq Targets /\ Served' \subseteq Targets
    BY <1>14 DEF Served
  <2> QED
    BY <1>4, <1>13, <2>1, <2>2, <2>3
<1>16. ServedOnce' /\ Added' = Added
  BY <1>1, <1>2, <1>10, <1>15, ServedStay
<1>17. CodeKept'
  <2>1. \A i \in DOMAIN source :
           code'[i].kind = source[i].kind /\ Len(code'[i].ops) = Len(source[i].ops)
    BY <1>2, <1>3, <1>4, <1>10 DEF CodeKept
  <2>2. \A m \in Added : code'[m].kind = IF pass = "multiply" THEN "operator" ELSE "call"
    BY <1>2, <1>10 DEF CodeKept, Added
  <2>3. it' \in DOMAIN code' \cup {None} /\ Len(source) <= Len(code')
    BY <1>3, <1>10, <1>13
  <2>4. /\ pass \in Passes /\ source \in Codes /\ code' \in Seq(Instruction)
        /\ pass' = pass /\ source' = source /\ Added' = Added
    BY <1>1, <1>2, <1>10, <1>16 DEF CodeKept
  <2> QED
    BY <2>1, <2>2, <2>3, <2>4, Zenon DEF CodeKept
<1>18. CallsOnce'
  BY <1>1, <1>2, <1>14, Zenon DEF CallsOnce
(* The operands.                                                           *)
<1>19. ASSUME NEW i \in DOMAIN source, NEW k \in DOMAIN source[i].ops
       PROVE  code'[i].ops[k] = IF i = a /\ k = b THEN Mul ELSE code[i].ops[k]
  <2>1. i \in DOMAIN code
    BY <1>3, <1>4
  <2>2. k \in DOMAIN code[i].ops
    <3>1. Len(code[i].ops) = Len(source[i].ops)
      BY <1>2 DEF CodeKept
    <3>2. code[i] \in Instruction /\ source[i] \in Instruction
      BY <1>3, <2>1
    <3>3. code[i].ops \in Seq(Int) /\ source[i].ops \in Seq(Int)
      BY <3>2 DEF Instruction
    <3> QED
      BY <3>1, <3>3
  <2> QED
    BY <1>10, <2>1, <2>2
<1>20. ASSUME NEW v, NEW u \in UsesIn(source, v)
       PROVE  /\ u = <<a, b>> => v = it
              /\ UsedAt(u)' = IF u = <<a, b>> THEN Mul ELSE UsedAt(u)
  <2>1. source \in Seq(Instruction)
    BY <1>3
  <2>2. PICK i \in DOMAIN source, k \in Nat :
           u = <<i, k>> /\ k \in DOMAIN source[i].ops /\ source[i].ops[k] = v
    BY <2>1, UsesAre
  <2>3. code'[i].ops[k] = IF i = a /\ k = b THEN Mul ELSE code[i].ops[k]
    BY <1>19, <2>2
  <2>4. UsedAt(u)' = code'[i].ops[k] /\ UsedAt(u) = code[i].ops[k]
    BY <2>2 DEF UsedAt
  <2>5. u = <<a, b>> <=> i = a /\ k = b
    BY <2>2
  <2> QED
    BY <1>8, <2>2, <2>3, <2>4, <2>5
<1>21. \A i \in DOMAIN source : \A k \in DOMAIN source[i].ops :
          code'[i].ops[k] = source[i].ops[k]
            \/ (source[i].ops[k] \in Targets /\ IsNew(code'[i].ops[k]))
  <2> SUFFICES ASSUME NEW i \in DOMAIN source, NEW k \in DOMAIN source[i].ops
               PROVE  code'[i].ops[k] = source[i].ops[k]
                        \/ (source[i].ops[k] \in Targets /\ IsNew(code'[i].ops[k]))
    BY Zenon
  <2>1. code[i].ops[k] = source[i].ops[k]
          \/ (source[i].ops[k] \in Targets /\ IsNew(code[i].ops[k]))
    BY <1>1, <1>2, Zenon DEF UsesMoved
  <2>2. CASE i = a /\ k = b
    <3>1. code'[i].ops[k] = Mul
      BY <1>19, <2>2
    <3> HIDE DEF Mul, Targets
    <3> QED
      BY <1>5, <1>7, <1>8, <2>2, <3>1, Zenon
  <2>3. CASE ~(i = a /\ k = b)
    <3>1. code'[i].ops[k] = code[i].ops[k]
      BY <1>19, <2>3
    <3> HIDE DEF Targets
    <3> QED
      BY <2>1, <3>1, Zenon
  <2> QED
    BY <2>2, <2>3
<1>22. \A v \in DOMAIN source : ~Passed(v)' => /\ Kept(v)'
                                               /\ ToSet(uses'[v]) = UsesIn(source, v)
  <2> SUFFICES ASSUME NEW v \in DOMAIN source, ~Passed(v)'
               PROVE  Kept(v)' /\ ToSet(uses'[v]) = UsesIn(source, v)
    BY Zenon
  <2>1. ~Passed(v) /\ v # it /\ v \in 1 .. n
    BY <1>3, <1>4, <1>13
  <2>2. Kept(v) /\ ToSet(uses[v]) = UsesIn(source, v)
    BY <1>1, <1>2, <2>1 DEF UsesMoved
  <2>3. Kept(v)'
    <3>1. \A u \in UsesIn(source, v) : UsedAt(u)' = v
      BY <1>20, <2>1, <2>2 DEF Kept
    <3> QED
      BY <1>1, <3>1 DEF Kept
  <2>4. v # Mul
    <3>1. PICK l \in Nat : l = Len(source) /\ v \in 1 .. l
      BY <1>3
    <3> QED
      BY <1>7, <3>1 DEF IsNew
  <2> QED
    BY <1>11, <2>1, <2>2, <2>3, <2>4
<1>23. \A v : Beside(v)' = Beside(v)
  BY <1>1 DEF Beside
<1>24. \A v \in Targets : Passed(v)' /\ UsesIn(source, v) # {} =>
          \E u \in UsesIn(source, v) :
            /\ UsedAt(u)' = order'[Beside(v)']
            /\ \A w \in UsesIn(source, v) \ {u} : UsedAt(w)' = v
  <2> SUFFICES ASSUME NEW v \in Targets, Passed(v)', UsesIn(source, v) # {}
               PROVE  \E u \in UsesIn(source, v) :
                        /\ UsedAt(u)' = order[Beside(v)]
                        /\ \A w \in UsesIn(source, v) \ {u} : UsedAt(w)' = v
    BY <1>1, <1>23, Zenon
  <2>1. CASE v = it
    <3>1. Mul = order[Beside(it)]
      BY <1>1 DEF Mul, Beside
    <3>2. Kept(it)
      BY <1>1, <1>2, <1>6 DEF UsesMoved
    <3>3. UsedAt(<<a, b>>)' = order[Beside(v)]
      BY <1>5, <1>8, <1>20, <2>1, <3>1
    <3>4. \A w \in UsesIn(source, v) \ {<<a, b>>} : UsedAt(w)' = v
      BY <1>20, <2>1, <3>2 DEF Kept
    <3> QED
      BY <1>5, <1>8, <2>1, <3>3, <3>4
  <2>2. CASE v # it
    <3>1. Passed(v)
      BY <1>4, <1>13, <2>2
    <3>2. PICK u \in UsesIn(source, v) :
            /\ UsedAt(u) = order[Beside(v)]
            /\ \A w \in UsesIn(source, v) \ {u} : UsedAt(w) = v
      BY <1>1, <1>2, <3>1 DEF UsesMoved
    <3>3. \A w \in UsesIn(source, v) : UsedAt(w)' = UsedAt(w)
      BY <1>20, <2>2
    <3> QED
      BY <3>2, <3>3
  <2> QED
    BY <2>1, <2>2
<1>25. UsesMoved'
  <2>2. Len(uses') = Len(code')
    BY <1>10, <1>11
  <2>4. source' = source /\ pass' = pass /\ Targets' = Targets
    BY <1>1, <1>14
  <2>5. uses' \in Seq(Seq(Nat \X Nat))
    BY <1>11
  <2>6. pass # "multiply" => use' = None
    BY <1>12
  <2>7. (\A i \in DOMAIN source : \A k \in DOMAIN source[i].ops :
           code[i].ops[k] = source[i].ops[k]
             \/ (source[i].ops[k] \in Targets /\ IsNew(code[i].ops[k])))'
    BY <1>21, <2>4, Zenon DEF IsNew
  <2>8. (\A v \in DOMAIN source :
            ~Passed(v) => Kept(v) /\ ToSet(uses[v]) = UsesIn(source, v))'
    BY <1>22, <2>4, Zenon
  <2>9. (\A v \in Targets : Passed(v) /\ UsesIn(source, v) # {} =>
            \E u \in UsesIn(source, v) :
              /\ UsedAt(u) = order[Beside(v)]
              /\ \A w \in UsesIn(source, v) \ {u} : UsedAt(w) = v)'
    BY <1>24, <2>4, Zenon
  <2> QED
    <3>1. (pass # "multiply" => use = None)'
      BY <2>4, <2>6
    <3>2. (Len(uses) = Len(code) /\ uses \in Seq(Seq(Nat \X Nat)))'
      BY <2>2, <2>5
    <3>3. (use # None => /\ it \in Targets /\ use \in UsesIn(source, it)
                        /\ Mul \in Added /\ uses[Mul] = << >>)'
      BY <1>12
    <3> QED
      BY <3>1, <3>2, <3>3, <2>7, <2>8, <2>9, Zenon DEF UsesMoved
(* The user comes after the operator, so it is not served yet.             *)
<1>26. ProductsMultiply'
  <2>1. ASSUME NEW v \in Served
        PROVE  v # a /\ v \in 1 .. n /\ order[Beside(v)] # a /\ order[Beside(v)] \in 1 .. n
    <3>1. v \in Targets /\ v \in 1 .. n /\ (Passed(v) \/ v = it)
      BY <1>1, <1>4 DEF Served
    <3>2. PICK m \in Added : Position(order, m) = Beside(v)
      BY <1>2, Zenon DEF ServedOnce
    <3>3. m \in 1 .. n /\ order[Beside(v)] = m
      <4>1. m \in 1 .. n
        BY <1>3
      <4> QED
        BY <1>3, <3>2, <4>1, Zenon
    <3>4. m # a
      <4>1. PICK l \in Nat : l = Len(source) /\ a \in 1 .. l
        BY <1>3
      <4> QED
        BY <4>1 DEF Added, IsNew
    <3>5. v # a
      <4> SUFFICES ASSUME v = a PROVE FALSE
        OBVIOUS
      <4>1. a \in Targets /\ source[a].kind = "operator" /\ a \in 1 .. n
        BY <1>1, <3>1 DEF Targets, Wanted
      <4>2. it < a
        <5>1. source \in Codes
          BY <1>2 DEF CodeKept
        <5>2. Len(source[a].ops) = 2 /\ \A k \in 1 .. 2 : source[a].ops[k] < a
          BY <4>1, <5>1, OperatorsAssumption
        <5>3. source[a].ops \in Seq(Int)
          <6>1. source[a] \in Instruction
            BY <1>3
          <6> QED
            BY <6>1 DEF Instruction
        <5>4. b \in 1 .. 2
          BY <1>8, <5>2, <5>3
        <5> QED
          BY <1>8, <5>2, <5>4
      <4>3. Position(order, it) < Position(order, a)
        BY <1>2, <1>6, <4>2 DEF ServedOnce
      <4>4. PICK s \in 1 .. n, t \in 1 .. n :
              s = Position(order, it) /\ t = Position(order, a)
        BY <1>3, <1>6, <4>1
      <4>5. ~Passed(a)
        BY <1>6, <4>3, <4>4 DEF Passed
      <4>6. a = it
        BY <3>1, <4>5
      <4> QED
        BY <4>3, <4>4, <4>6
    <3> QED
      BY <3>1, <3>3, <3>4, <3>5
  <2>2. ASSUME NEW v \in Served
        PROVE  code'[order[Beside(v)]].ops = code'[v].ops
    <3>1. code[order[Beside(v)]].ops = code[v].ops
      BY <1>1, Zenon DEF InsInv, ProductsMultiply
    <3> QED
      BY <1>3, <1>10, <2>1, <3>1
  <2>3. \A v \in Served' : code'[order'[Beside(v)']].ops = code'[v].ops
    <3> HIDE DEF Beside, Served
    <3> QED
      BY <1>1, <1>15, <1>23, <2>2, Zenon
  <2>4. (\A v \in Served : code[order[Beside(v)]].ops = code[v].ops)'
    BY <2>3, Zenon
  <2> QED
    BY <2>4, Zenon DEF ProductsMultiply
<1> QED
  BY <1>16, <1>17, <1>18, <1>25, <1>26 DEF InsInv

(* The inductive invariant of the three walks.                             *)
THEOREM InsertInvariance == InsSpec => []InsInv
<1>1. code \in Codes /\ pass \in Passes /\ InsInit => InsInv
  BY InsStarts
<1>2. InsInv /\ [InsNext]_insVars => InsInv'
  <2> SUFFICES ASSUME InsInv, [InsNext]_insVars PROVE InsInv'
    OBVIOUS
  <2>1. CASE InsNext
    BY <2>1, CreateKeeps, MoveKeeps, CollectKeeps, InstrumentKeeps, PrintStoreKeeps, SkipKeeps DEF InsNext
  <2>2. CASE UNCHANGED insVars
    <3>1. /\ code' = code /\ pass' = pass /\ source' = source /\ order' = order
          /\ it' = it /\ orig_calls' = orig_calls /\ uses' = uses /\ use' = use
      BY <2>2 DEF insVars
    <3>2. CodeKept' <=> CodeKept
      BY <3>1 DEF CodeKept, Added, IsNew
    <3>3. Served' = Served /\ Added' = Added /\ Targets' = Targets
      BY <3>1 DEF Served, Targets, Wanted, Passed, Added, IsNew
    <3>4. ServedOnce' <=> ServedOnce
      BY <3>1, <3>3 DEF ServedOnce, Beside
    <3>5. CallsOnce' <=> CallsOnce
      BY <3>1, <3>3 DEF CallsOnce, Passed
    <3>6. UsesMoved' <=> UsesMoved
      BY <3>1, <3>3 DEF UsesMoved, Passed, Kept, UsedAt, IsNew, Mul, Beside
    <3>7. ProductsMultiply' <=> ProductsMultiply
      BY <3>1, <3>3 DEF ProductsMultiply, Beside
    <3> QED
      BY <3>2, <3>4, <3>5, <3>6, <3>7 DEF InsInv
  <2> QED
    BY <2>1, <2>2
<1> QED
  BY <1>1, <1>2, PTL DEF InsSpec

(* However the walk changes what it walks, each target gets one            *)
(* instruction beside it, and nothing else does, in any function           *)
(* (OnlyOperatorMultiplyPass, UtilPass, PrintFuncPass).                     *)
THEOREM TargetsAreServedOnce == InsSpec => []EachOnce
<1>1. InsInv => EachOnce
  <2> SUFFICES ASSUME InsInv PROVE EachOnce
    OBVIOUS
  <2>1. CodeKept /\ ServedOnce /\ CallsOnce
    BY DEF InsInv
  <2>2. Served \subseteq Targets
    BY DEF Served
  <2>3. InsDone => Served = Targets
    <3> SUFFICES ASSUME InsDone, NEW i \in Targets PROVE i \in Served
      BY <2>2
    <3>1. Passed(i) /\ it = None /\ DOMAIN orig_calls = {}
      BY DEF InsDone, Passed
    <3> QED
      BY <3>1 DEF Served
  <2> QED
    BY <2>1, <2>2, <2>3 DEF ServedOnce, EachOnce
<1> QED
  BY <1>1, InsertInvariance, PTL

(* In any function, a multiplication has its operator's operands and       *)
(* replaces that operator only (OnlyOperatorMultiplyPass).                 *)
THEOREM OwnProductsFollow == InsSpec => []ProductsFollow
<1>1. InsInv => ProductsFollow
  <2> SUFFICES ASSUME InsInv, pass = "multiply" PROVE ProductsFollow
    BY DEF ProductsFollow
  <2>1. CodeKept /\ ServedOnce /\ UsesMoved /\ ProductsMultiply /\ Lists(order, Len(code))
    BY DEF InsInv, ServedOnce
  <2>2. source \in Seq(Instruction)
    BY <2>1, Numbers
  <2>3. ASSUME NEW i \in DOMAIN source, NEW k \in DOMAIN source[i].ops,
               code[i].ops[k] # source[i].ops[k]
        PROVE  /\ source[i].ops[k] \in Served
               /\ code[i].ops[k] = order[Beside(source[i].ops[k])]
    <3> DEFINE v == source[i].ops[k]
    <3>1. v \in Targets
      BY <2>1, <2>3 DEF UsesMoved
    <3>2. v \in DOMAIN source
      BY <3>1 DEF Targets
    <3>3. <<i, k>> \in UsesIn(source, v) /\ UsedAt(<<i, k>>) = code[i].ops[k]
      <4>1. k \in Nat
        <5>1. source[i] \in Instruction
          BY <2>2
        <5>2. source[i].ops \in Seq(Int)
          BY <5>1 DEF Instruction
        <5> QED
          BY <5>2
      <4> QED
        BY <2>2, <4>1, UsesAre DEF UsedAt
    <3> HIDE DEF v
    <3>4. UsedAt(<<i, k>>) # v
      BY <2>3, <3>3 DEF v
    <3>5. Passed(v)
      BY <2>1, <3>2, <3>3, <3>4 DEF UsesMoved, Kept
    <3>6. v \in Served
      BY <3>1, <3>5 DEF Served
    <3>7. UsedAt(<<i, k>>) = order[Beside(v)]
      BY <2>1, <3>1, <3>3, <3>4, <3>5 DEF UsesMoved
    <3> QED
      BY <3>3, <3>6, <3>7 DEF v
  <2> QED
    BY <2>1, <2>3 DEF ProductsFollow, ProductsMultiply
<1> QED
  BY <1>1, InsertInvariance, PTL

(* The defect, exactly: in any function, of an operator's uses the walk    *)
(* over its list moves one, never more.                                    *)
THEOREM OneUseIsMoved == InsSpec => []OneUseMoves
<1>1. InsInv => OneUseMoves
  <2> SUFFICES ASSUME InsInv, InsDone, pass = "multiply", NEW i \in Targets
               PROVE  /\ UsesIn(source, i) # {} => \E u \in UsesIn(source, i) : Moved(i) = {u}
                      /\ \A u \in Moved(i) : code[u[1]].ops[u[2]] = order[Beside(i)]
    BY DEF OneUseMoves
  <2>1. CodeKept /\ ServedOnce /\ UsesMoved /\ Lists(order, Len(code))
    BY DEF InsInv, ServedOnce
  <2>2. Passed(i) /\ i \in Served
    BY DEF InsDone, Passed, Served
  <2>3. Moved(i) = {u \in UsesIn(source, i) : IsNew(UsedAt(u))}
    BY DEF Moved, UsedAt
  <2>4. CASE UsesIn(source, i) = {}
    BY <2>3, <2>4
  <2>5. CASE UsesIn(source, i) # {}
    <3>1. PICK u \in UsesIn(source, i) :
            /\ UsedAt(u) = order[Beside(i)]
            /\ \A w \in UsesIn(source, i) \ {u} : UsedAt(w) = i
      BY <2>1, <2>2, <2>5 DEF UsesMoved
    <3>2. PICK m \in Added : Position(order, m) = Beside(i)
      BY <2>1, <2>2, Zenon DEF ServedOnce
    <3>3. order[Beside(i)] = m /\ IsNew(m)
      <4>1. m \in 1 .. Len(code)
        BY <2>1, Numbers DEF Added
      <4> QED
        BY <2>1, <3>2, <4>1, Numbers DEF Added
    <3>4. ~IsNew(i)
      BY <2>1, Numbers DEF IsNew
    <3>5. Moved(i) = {u}
      BY <2>3, <3>1, <3>3, <3>4
    <3> QED
      BY <3>1, <3>5 DEF UsedAt
  <2> QED
    BY <2>4, <2>5
<1> QED
  BY <1>1, InsertInvariance, PTL
=============================================================================
