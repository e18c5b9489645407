---------------------------- MODULE MCAflMaybeLog ----------------------------
(***************************************************************************)
(* Instances of AflMaybeLog for TLC: a bitmap of four counters of two      *)
(* values each, two blocks, two threads and up to four visits in all, from *)
(* four of one thread to two of each.                                      *)
(***************************************************************************)
EXTENDS AflMaybeLog

CONSTANTS t1, t2, A, B

(* Every pair of locations, up to exchanging the two blocks.               *)
Number(l) == (IF l[0] THEN 1 ELSE 0) + (IF l[1] THEN 2 ELSE 0)
AllAssignments == {a \in [{A, B} -> Loc] : Number(a[A]) <= Number(a[B])}
=============================================================================
