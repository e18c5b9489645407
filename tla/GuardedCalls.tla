---------------------------- MODULE GuardedCalls -----------------------------
(***************************************************************************)
(* What the shadow stack and the stack guard promise about the calls that  *)
(* were made and have not returned, said without either: a call whose      *)
(* saved value (its return address, its canary) is intact returns and is   *)
(* never stopped by the guard, and a call whose saved value was changed is *)
(* stopped instead of returning.                                           *)
(***************************************************************************)
EXTENDS Naturals, Sequences

CONSTANT Addr

VARIABLES
  calls,   (* the live calls: the saved value, and the right one           *)
  verdict  (* "running", "alarm", or "stopped" for the program's own ways  *)

vars == <<calls, verdict>>

Last == calls[Len(calls)]
Intact(c) == c.ra = c.orig

Init == calls = << >> /\ verdict = "running"

Running == verdict = "running"

Enter ==
  /\ Running
  /\ \E a \in Addr : calls' = Append(calls, [ra |-> a, orig |-> a])
  /\ UNCHANGED verdict

Tamper ==
  /\ Running
  /\ \E as \in [1 .. Len(calls) -> Addr] :
       calls' = [i \in 1 .. Len(calls) |-> [calls[i] EXCEPT !.ra = as[i]]]
  /\ UNCHANGED verdict

Leave ==
  /\ Running
  /\ calls # << >> /\ Intact(Last)
  /\ calls' = SubSeq(calls, 1, Len(calls) - 1)
  /\ UNCHANGED verdict

Alarm ==
  /\ Running
  /\ calls # << >> /\ ~Intact(Last)
  /\ verdict' = "alarm"
  /\ UNCHANGED calls

Stop ==
  /\ Running
  /\ verdict' = "stopped"
  /\ UNCHANGED calls

Next == Enter \/ Tamper \/ Leave \/ Alarm \/ Stop

Spec == Init /\ [][Next]_vars
=============================================================================
