---------------------------- MODULE MessageService ---------------------------
(***************************************************************************)
(* The message service that the GEP and LEA analyses are tried on          *)
(* (src/gep_analysis/cgc/cromu_001.c, src/lea_analysis/cgc/cromu_001.c):   *)
(* one thread that reads lines, and keeps users and their messages in      *)
(* linked lists.  A user is created at the main menu; whoever is logged in *)
(* sends, reads, lists and deletes, and is shown the unread messages       *)
(* before every choice.                                                    *)
(*                                                                         *)
(* receive_until reads at most the size of a field.  A line that fills it  *)
(* leaves its newline behind, and the next read gets an empty line; of one *)
(* that is longer, the next read gets the rest, whatever that says.        *)
(***************************************************************************)
EXTENDS ServiceInput

CONSTANTS
  Texts,                 (* what a line can say for a message              *)
  MaxMessages,           (* the messages a user may have been sent         *)
  FullNames, FullTexts,  (* those that fill their field                    *)
  Nobody, NotFound,      (* the absence of a name, the error message       *)
  Wrap                   (* values of list_unread's unsigned char: 256     *)

ASSUME ServiceAssumption ==
  /\ Empty \in Texts
  /\ MaxMessages \in Nat
  /\ FullNames \subseteq Names \ {Empty}
  /\ FullTexts \subseteq Texts \ {Empty}
  /\ Nobody \notin Names
  /\ Wrap \in Nat \ {0}

Message == [id : Nat, text : Texts, read : BOOLEAN]
User == [name : Names, root : Seq(Message), count : Nat]

VARIABLES
  users,    (* the users, the newest first                                 *)
  current,  (* the position of the one logged in, 0 at the main menu       *)
  running,  (* the process has not exited                                  *)
  left,     (* nothing but a newline is left of the line read last         *)
  shown     (* what the last choice displayed, text by text                *)

vars == <<users, current, running, left, shown>>

Init ==
  /\ users = << >>
  /\ current = 0
  /\ running = TRUE
  /\ left = FALSE
  /\ shown = << >>

-----------------------------------------------------------------------------
(* The operations on one user's messages.                                  *)

Least(S) == CHOOSE i \in S : \A j \in S : i <= j
TextsOf(msgs) == [i \in DOMAIN msgs |-> msgs[i].text]
NotRead(msgs) == {i \in DOMAIN msgs : ~msgs[i].read}
MarkRead(msgs, S) ==
  [i \in DOMAIN msgs |-> IF i \in S THEN [msgs[i] EXCEPT !.read = TRUE] ELSE msgs[i]]

create_message(t) == [id |-> 0, text |-> t, read |-> FALSE]

add_message(u, pm) ==
  [u EXCEPT !.root = Append(@, [pm EXCEPT !.id = u.count + 1]), !.count = @ + 1]

(* The messages a walk for the number finds, none when it is out of range. *)
Hits_LastIsOutOfRange(u, id) ==
  {i \in DOMAIN u.root : id < u.count /\ u.root[i].id = id}
Hits(u, id) == {i \in DOMAIN u.root : id <= u.count /\ u.root[i].id = id}

delete_message_CountsDown(u, id) ==
  IF Hits(u, id) = {} THEN u
  ELSE [u EXCEPT !.root = RemoveAt(@, Least(Hits(u, id))), !.count = @ - 1]
delete_message_NoPrev(u, id) ==
  IF Hits(u, id) = {} THEN u
  ELSE [u EXCEPT !.root = SubSeq(@, Least(Hits(u, id)) + 1, Len(@))]
delete_message(u, id) ==
  IF Hits(u, id) = {} THEN u
  ELSE [u EXCEPT !.root = RemoveAt(@, Least(Hits(u, id)))]

(* read_message of these numbers: the messages marked, and what it prints. *)
Found(u, ids) == {Least(Hits(u, id)) : id \in {n \in ids : Hits(u, n) # {}}}
read_messages(u, ids) == [u EXCEPT !.root = MarkRead(@, Found(u, ids))]
display(u, id) ==
  IF Hits(u, id) = {} THEN NotFound ELSE u.root[Least(Hits(u, id))].text

Ids(u) == {u.root[i].id : i \in DOMAIN u.root}
list_messages(u) == read_messages(u, Ids(u))
display_all(u) == [i \in DOMAIN u.root |-> display(u, u.root[i].id)]

(* The unread messages are counted in an unsigned char; at zero there is   *)
(* nothing to list.                                                        *)
Unread(u) == Cardinality(NotRead(u.root))
Listed(u) == Unread(u) % Wrap # 0
list_unread_messages_Unmarked(u) == u
list_unread_messages(u) ==
  IF Listed(u) THEN [u EXCEPT !.root = MarkRead(@, NotRead(@))] ELSE u

-----------------------------------------------------------------------------
(* The users.                                                              *)

Named(n) == {i \in DOMAIN users : users[i].name = n}
get_user(n) == IF Named(n) = {} THEN 0 ELSE Least(Named(n))

NewUser(n) == [name |-> n, root |-> << >>, count |-> 0]
create_user(n) == IF Named(n) # {} THEN users ELSE <<NewUser(n)>> \o users

(* More than Wrap unread messages do not fit the buffer they are listed    *)
(* in, which leaves the language: the model stops before.                  *)
MayReceive(i) == Unread(users[i]) < Wrap /\ users[i].count < MaxMessages

send_user_message(n, t) ==
  IF get_user(n) = 0 THEN users
  ELSE [users EXCEPT ![get_user(n)] = add_message(@, create_message(t))]

-----------------------------------------------------------------------------
(* The menus.                                                              *)

(* handle_loggedin comes to its prompt for user i: all is what the choice  *)
(* made of the users, out what it displayed.                               *)
PromptIn(all, i, out) ==
  /\ users' = [all EXCEPT ![i] = list_unread_messages(@)]
  /\ shown' = out

(* A line that fills the field leaves nothing but its newline, or a rest,  *)
(* which is read as any other line is.                                     *)
receive_until(line, Full) == left' \in {FALSE, (line \in Full)}

AtMenu == running /\ ~left /\ current = 0
LoggedIn == running /\ ~left /\ current # 0

CreateUser ==
  /\ AtMenu
  /\ Len(users) < MaxUsers
  /\ \E n \in Names :
       /\ users' = create_user(n)
       /\ receive_until(n, FullNames)
  /\ shown' = << >>
  /\ UNCHANGED <<current, running>>

Login ==
  /\ AtMenu
  /\ \E n \in Names :
       /\ receive_until(n, FullNames)
       /\ current' = get_user(n)
       /\ IF get_user(n) = 0 THEN users' = users /\ shown' = << >>
          ELSE PromptIn(users, get_user(n), << >>)
  /\ UNCHANGED running

Send ==
  /\ LoggedIn
  /\ \E n \in Names :
       /\ get_user(n) # 0 => MayReceive(get_user(n))
       /\ \E t \in Texts :
            /\ receive_until(t, FullTexts)
            /\ PromptIn(send_user_message(n, t), current, << >>)
  /\ UNCHANGED <<current, running>>

(* A number may fill its field of four characters too.                     *)
Number == 0 .. (MaxMessages + 1)

Read ==
  /\ LoggedIn
  /\ \E id \in Number :
       PromptIn([users EXCEPT ![current] = read_messages(@, {id})], current,
                <<display(users[current], id)>>)
  /\ left' \in BOOLEAN
  /\ UNCHANGED <<current, running>>

List ==
  /\ LoggedIn
  /\ PromptIn([users EXCEPT ![current] = list_messages(@)], current,
              display_all(users[current]))
  /\ UNCHANGED <<current, running, left>>

Delete ==
  /\ LoggedIn
  /\ \E id \in Number :
       PromptIn([users EXCEPT ![current] = delete_message(@, id)], current, << >>)
  /\ left' \in BOOLEAN
  /\ UNCHANGED <<current, running>>

(* A choice of two characters leaves its newline.                          *)
InvalidChoice ==
  /\ running /\ ~left
  /\ left' \in BOOLEAN
  /\ IF current = 0 THEN users' = users /\ shown' = << >>
     ELSE PromptIn(users, current, << >>)
  /\ UNCHANGED <<current, running>>

Logout ==
  /\ LoggedIn
  /\ current' = 0
  /\ shown' = << >>
  /\ UNCHANGED <<users, running, left>>

(* The choice to exit, the end of the input, or an empty choice, which is  *)
(* what a newline left behind makes of the next one.                       *)
Terminate ==
  /\ running
  /\ running' = FALSE
  /\ shown' = << >>
  /\ UNCHANGED <<users, current, left>>

Next ==
  \/ CreateUser \/ Login
  \/ Send \/ Read \/ List \/ Delete \/ Logout
  \/ InvalidChoice \/ Terminate

Spec == Init /\ [][Next]_vars

-----------------------------------------------------------------------------
(* Properties.                                                             *)

(* The state has its types.                                                *)
TypeOK ==
  /\ users \in Seq(User)
  /\ current \in 0 .. Len(users)
  /\ running \in BOOLEAN /\ left \in BOOLEAN
  /\ shown \in Seq(Texts \cup {NotFound})

Ascending(u) ==
  /\ \A i, j \in DOMAIN u.root : i < j => u.root[i].id < u.root[j].id
  /\ \A i \in DOMAIN u.root : u.root[i].id \in 1 .. u.count

(* Whatever was deleted in between, the numbers in a list ascend and none  *)
(* is above the count, so the range check turns no existing message away   *)
(* and a walk that stops at the first hit misses none (add_message,        *)
(* delete_message, read_message).                                          *)
IdsAscend ==
  \A k \in DOMAIN users : Ascending(users[k])

(* No two users have one name, so login and send, which stop at the first  *)
(* of that name, reach every user (create_user, get_user).                 *)
NamesAreUnique ==
  \A i, j \in DOMAIN users : users[i].name = users[j].name => i = j

(* Whoever is asked for a choice has no unread message, unless it is as    *)
(* many as the counter has values (handle_loggedin, list_unread_messages). *)
PromptShowsAll == current # 0 => Unread(users[current]) \in {0, Wrap}

(* Choosing List displays each of the user's messages, in the order they   *)
(* came, although each is looked up again by its number (list_messages).   *)
ListShowsAll ==
  [][List => shown' = TextsOf(users[current].root)]_vars

(* The service implements the mailboxes.                                   *)
Known == {users[i].name : i \in DOMAIN users}
Box(n) == UNION {ToSet(users[i].root) : i \in Named(n)}
Inboxes == [n \in Names |-> Box(n)]
Highest(n) == IF Named(n) = {} THEN 0 ELSE users[get_user(n)].count
Numbers == [n \in Names |-> Highest(n)]
Who == IF current = 0 THEN Nobody ELSE users[current].name
Abstract == INSTANCE Mailboxes WITH
  known <- Known, inbox <- Inboxes, last <- Numbers, who <- Who
KeepsMailboxes == Abstract!Spec
=============================================================================
