------------------------------ MODULE Mailboxes ------------------------------
(***************************************************************************)
(* What the message service promises its users, said without lists: each   *)
(* name has a set of numbered messages; a delivery takes the number after  *)
(* the highest one ever given to that name; only the one who is logged in  *)
(* takes a message out, and only of the own set; a prompt shows the one    *)
(* who is logged in all unread messages or none of them.                   *)
(***************************************************************************)
EXTENDS Naturals

CONSTANTS Names, Texts, Nobody

VARIABLES
  known,  (* the names that exist                                          *)
  inbox,  (* for each name its messages                                    *)
  last,   (* for each name the highest number given                        *)
  who     (* the name logged in, or Nobody                                 *)

vars == <<known, inbox, last, who>>

Init ==
  /\ known = {}
  /\ inbox = [n \in Names |-> {}]
  /\ last = [n \in Names |-> 0]
  /\ who = Nobody

(* The boxes after n was prompted.                                         *)
Seen(S) == {[id |-> m.id, text |-> m.text, read |-> TRUE] : m \in S}
Prompted(boxes, n) ==
  {boxes, [b \in Names |-> IF b = n THEN Seen(boxes[b]) ELSE boxes[b]]}

Register ==
  /\ who = Nobody
  /\ \E n \in Names \ known : known' = known \cup {n}
  /\ UNCHANGED <<inbox, last, who>>

Enter ==
  /\ who = Nobody
  /\ who' \in known
  /\ inbox' \in Prompted(inbox, who')
  /\ UNCHANGED <<known, last>>

Deliver ==
  /\ who # Nobody
  /\ \E n \in known, t \in Texts :
       /\ last' = [last EXCEPT ![n] = @ + 1]
       /\ inbox' \in Prompted([inbox EXCEPT ![n] =
                       @ \cup {[id |-> last'[n], text |-> t, read |-> FALSE]}], who)
  /\ UNCHANGED <<known, who>>

See ==
  /\ who # Nobody
  /\ \E S \in SUBSET inbox[who] :
       inbox' = [inbox EXCEPT ![who] =
                   (@ \ S) \cup Seen(S)]
  /\ UNCHANGED <<known, last, who>>

Remove ==
  /\ who # Nobody
  /\ \E m \in inbox[who] :
       inbox' \in Prompted([inbox EXCEPT ![who] = @ \ {m}], who)
  /\ UNCHANGED <<known, last, who>>

Depart ==
  /\ who # Nobody
  /\ who' = Nobody
  /\ UNCHANGED <<known, inbox, last>>

Next == Register \/ Enter \/ Deliver \/ See \/ Remove \/ Depart

Spec == Init /\ [][Next]_vars
=============================================================================
