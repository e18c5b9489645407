---------------------------- MODULE DraftService -----------------------------
(***************************************************************************)
(* The other program the GEP and LEA analyses are tried on                 *)
(* (src/gep_analysis/cgc/cromu_041.c, src/lea_analysis/cgc/cromu_041.c):   *)
(* users keep drafts, and send them to each other.  Each user has an array *)
(* of messages, in which drafts and messages received lie side by side;    *)
(* counters and flags stand beside it.                                     *)
(*                                                                         *)
(* What a line contains is free: Empty, a name, or a message.  Whoever is  *)
(* at the terminal may know a password or not, so passwords are left out;  *)
(* exit, the end of the input and the listings change nothing here.        *)
(* MaxUsers is MAX_USERS, 10.  An account is a user of this service.       *)
(***************************************************************************)
EXTENDS ServiceInput

CONSTANTS
  DraftTexts,          (* what a line can say for a message                *)
  MAX_MESSAGES,        (* the slots of an array: 20                        *)
  MAX_MESSAGES_LOGIN,  (* the drafts of a session: 4                       *)
  Patched              (* the build defines PATCHED                        *)

ASSUME DraftsAssumption == MAX_MESSAGES \in Nat

Account == [name : Names, first_login : BOOLEAN, msg_count : Int]
DraftMessage == [match : BOOLEAN, from : Names, to : Names, msg : DraftTexts \cup {Empty}, is_draft : BOOLEAN]
Blank == [match |-> FALSE, from |-> Empty, to |-> Empty, msg |-> Empty, is_draft |-> FALSE]

Slots == 0 .. (MAX_MESSAGES - 1)
Rows == 1 .. MaxUsers
Places == Rows \X Slots

VARIABLES
  listOfUsers,
  listOfMessages,   (* by user and slot                                    *)
  current_user,     (* the position of the one logged in, 0 at menu A      *)
  msg_count_login,  (* the drafts of this session                          *)
  bad_login_count,
  printer           (* globs.printer is set                                *)

draftsVars == <<listOfUsers, listOfMessages, current_user, msg_count_login,
                bad_login_count, printer>>

DraftsInit ==
  /\ listOfUsers = << >>
  /\ listOfMessages = [p \in Places |-> Blank]
  /\ current_user = 0
  /\ msg_count_login = 0
  /\ bad_login_count = 0
  /\ printer = FALSE

-----------------------------------------------------------------------------
(* user.c                                                                  *)

AccountsNamed(n) == {i \in DOMAIN listOfUsers : listOfUsers[i].name = n}
get_user__index(n) == IF AccountsNamed(n) = {} THEN 0 ELSE Min(AccountsNamed(n))

NewAccount(n) == [name |-> n, first_login |-> TRUE, msg_count |-> 0]

create_account_Again(n) ==
  /\ n # Empty /\ Len(listOfUsers) < MaxUsers
  /\ listOfUsers' = Append(listOfUsers, NewAccount(n))
create_account(n) ==
  /\ n # Empty /\ AccountsNamed(n) = {} /\ Len(listOfUsers) < MaxUsers
  /\ listOfUsers' = Append(listOfUsers, NewAccount(n))

(* create_user after three bad logins: the user's password is replaced.    *)
reset_user(n) ==
  listOfUsers' = IF get_user__index(n) = 0 THEN listOfUsers
                 ELSE [listOfUsers EXCEPT ![get_user__index(n)].first_login = TRUE]

-----------------------------------------------------------------------------
(* message.c                                                               *)

me == listOfUsers[current_user]
my_index == get_user__index(me.name)
Free(i) == {s \in Slots : ~listOfMessages[<<i, s>>].match}

get_draft_count(n) ==
  Cardinality({s \in Slots : LET m == listOfMessages[<<get_user__index(n), s>>]
                             IN  m.from = n /\ m.is_draft})
get_inbox_count(n) ==
  Cardinality({s \in Slots : LET m == listOfMessages[<<get_user__index(n), s>>]
                             IN  m.to = n /\ ~m.is_draft})
get_total_count ==
  MapThenSumSet(LAMBDA i : Max({0, listOfUsers[i].msg_count}), DOMAIN listOfUsers)

(* What the two lists and the list of all messages show.                   *)
list_drafts(i) ==
  {s \in Slots : LET m == listOfMessages[<<i, s>>]
                 IN  m.match /\ m.from = listOfUsers[i].name /\ m.is_draft}
list_inbox(i) ==
  {s \in Slots : LET m == listOfMessages[<<i, s>>]
                 IN  m.match /\ m.to = listOfUsers[i].name /\ ~m.is_draft}
list_all_messages == {p \in Places : p[1] \in DOMAIN listOfUsers /\ listOfMessages[p].to # Empty}

(* A draft goes into the first free slot, none when PATCHED is defined and *)
(* the row is full.  Otherwise, or at the first login after MAX_MESSAGES   *)
(* drafts, add_message writes behind the array, as its comments say, and   *)
(* that leaves the language: the model stops before.                       *)
MayDraft ==
  /\ Patched \/ Free(my_index) # {}
  /\ me.first_login => me.msg_count < MAX_MESSAGES

Draft(dest, text) ==
  [match |-> TRUE, from |-> me.name, to |-> dest, msg |-> text, is_draft |-> TRUE]

add_draft(dest, text) ==
  /\ printer' = TRUE
  /\ IF get_user__index(dest) = 0
     THEN UNCHANGED <<listOfUsers, listOfMessages, msg_count_login>>
     ELSE IF Free(my_index) = {}
     THEN /\ listOfUsers' = [listOfUsers EXCEPT ![current_user].first_login = FALSE]
          /\ UNCHANGED <<listOfMessages, msg_count_login>>
     ELSE /\ listOfMessages' = [listOfMessages EXCEPT
               ![<<my_index, Min(Free(my_index))>>] = Draft(dest, text)]
          /\ listOfUsers' = [listOfUsers EXCEPT ![current_user] =
               [me EXCEPT !.msg_count = me.msg_count + 1, !.first_login = FALSE]]
          /\ msg_count_login' = msg_count_login + 1

(* A cleared slot keeps its is_draft.                                      *)
Cleared_MatchOnly(m) == [m EXCEPT !.match = FALSE]
Cleared(m) == [m EXCEPT !.match = FALSE, !.from = Empty, !.to = Empty, !.msg = Empty]

(* The choice of a draft, by its slot, that sending and deleting accept.   *)
Selected_Any(s) == listOfMessages[<<my_index, s>>].match
Selected(s) ==
  LET m == listOfMessages[<<my_index, s>>]
  IN  m.from = me.name /\ m.is_draft

Sent(m) == [m EXCEPT !.match = TRUE, !.is_draft = FALSE]
print_draft_for_send(s) ==
  LET here == <<my_index, s>>
      dst_index == get_user__index(listOfMessages[here].to)
  IN  /\ Selected(s) /\ Free(dst_index) # {}
      /\ listOfMessages' =
           [listOfMessages EXCEPT
              ![<<dst_index, Min(Free(dst_index))>>] = Sent(listOfMessages[here]),
              ![here] = Cleared(@)]

print_draft_for_del(s) ==
  /\ Selected(s)
  /\ listOfMessages' = [listOfMessages EXCEPT ![<<my_index, s>>] = Cleared(@)]
  /\ listOfUsers' = [listOfUsers EXCEPT ![current_user].msg_count = @ - 1]

-----------------------------------------------------------------------------
(* service.c                                                               *)

A_CreateUser ==
  /\ current_user = 0
  /\ \E n \in Names : create_account(n)
  /\ UNCHANGED <<listOfMessages, current_user, msg_count_login, bad_login_count, printer>>

A_Login ==
  /\ current_user = 0
  /\ current_user' \in DOMAIN listOfUsers
  /\ msg_count_login' = 0
  /\ UNCHANGED <<listOfUsers, listOfMessages, bad_login_count, printer>>

A_BadLogin ==
  /\ current_user = 0
  /\ msg_count_login' = 0
  /\ IF bad_login_count + 1 < 3
     THEN bad_login_count' = bad_login_count + 1 /\ UNCHANGED listOfUsers
     ELSE bad_login_count' = 0 /\ \E n \in Names : reset_user(n)
  /\ UNCHANGED <<listOfMessages, current_user, printer>>

B_CreateMessage ==
  /\ current_user # 0 /\ msg_count_login < MAX_MESSAGES_LOGIN
  /\ MayDraft
  /\ \E dest \in Names, text \in DraftTexts : add_draft(dest, text)
  /\ UNCHANGED <<current_user, bad_login_count>>

B_SendMessage ==
  /\ current_user # 0 /\ get_draft_count(me.name) # 0
  /\ \E s \in Slots : print_draft_for_send(s)
  /\ UNCHANGED <<listOfUsers, current_user, msg_count_login, bad_login_count, printer>>

B_DeleteDraft ==
  /\ current_user # 0 /\ get_draft_count(me.name) # 0
  /\ \E s \in Slots : print_draft_for_del(s)
  /\ UNCHANGED <<current_user, msg_count_login, bad_login_count, printer>>

B_Logout ==
  /\ current_user # 0
  /\ listOfUsers' = [listOfUsers EXCEPT ![current_user].first_login = FALSE]
  /\ current_user' = 0
  /\ UNCHANGED <<listOfMessages, msg_count_login, bad_login_count, printer>>

DraftsNext ==
  \/ A_CreateUser \/ A_Login \/ A_BadLogin
  \/ B_CreateMessage \/ B_SendMessage \/ B_DeleteDraft \/ B_Logout

DraftsSpec == DraftsInit /\ [][DraftsNext]_draftsVars
-----------------------------------------------------------------------------
(* Properties.                                                             *)

(* The state has its types.                                                *)
DraftsTypeOK ==
  /\ listOfUsers \in Seq(Account)
  /\ listOfMessages \in [Places -> DraftMessage]
  /\ current_user \in 0 .. Len(listOfUsers) /\ Len(listOfUsers) <= MaxUsers
  /\ msg_count_login \in Nat /\ bad_login_count \in 0 .. 2
  /\ printer \in BOOLEAN

Valid(p) == listOfMessages[p].match

(* The counts in the menu are those of what is there, although one is kept *)
(* by hand, the other two ignore whether a slot is in use, and the lists   *)
(* do not (print_B): nothing is counted that a list does not show.  And    *)
(* what is listed can be printed, the printer is set by then.              *)
By(n) == {p \in Places : Valid(p) /\ listOfMessages[p].from = n}
CountsAreRight ==
  /\ \A i \in DOMAIN listOfUsers : LET u == listOfUsers[i] IN
       /\ u.msg_count = Cardinality(By(u.name))
       /\ get_draft_count(u.name) = Cardinality(list_drafts(i))
       /\ get_inbox_count(u.name) = Cardinality(list_inbox(i))
  /\ get_total_count = Cardinality(list_all_messages)
  /\ get_total_count # 0 => printer

(* A message in use is a draft in its author's array or a message received *)
(* in its addressee's, and both exist (add_message, print_draft_for_send). *)
RowsAreOwn ==
  \A p \in Places : LET m == listOfMessages[p] IN
    m.match => /\ {m.from, m.to} \subseteq {listOfUsers[i].name : i \in DOMAIN listOfUsers}
               /\ AccountsNamed(IF m.is_draft THEN m.from ELSE m.to) = {p[1]}

(* A message that was received stays as it is.  One arrives only as one    *)
(* draft of the user logged in leaves, with its contents, and with each    *)
(* step at most one; no other user's draft changes.                        *)
Received == {p \in Places : Valid(p) /\ ~listOfMessages[p].is_draft}
Drafts == {p \in Places : Valid(p) /\ listOfMessages[p].is_draft}
SentOnce ==
  [][ /\ \A p \in Received : listOfMessages'[p] = listOfMessages[p]
      /\ \A p \in Received' \ Received : \E q \in Drafts \ Drafts' :
           listOfMessages'[p] = [listOfMessages[q] EXCEPT !.is_draft = FALSE]
      /\ Cardinality(Received' \ Received) <= 1 /\ Cardinality(Drafts \ Drafts') <= 1
      /\ \A q \in Drafts : q[1] = current_user \/ listOfMessages'[q] = listOfMessages[q]
    ]_draftsVars

(* The inductive invariant: no two users have one name, so each is found   *)
(* at the own position; a slot not in use has no author and no addressee,  *)
(* so that none is taken for a message; each user's counter is that of the *)
(* messages the user wrote, and the printer is set once there is one.      *)
NamesOK ==
  \A i, j \in DOMAIN listOfUsers :
    listOfUsers[i].name # Empty /\ (listOfUsers[i].name = listOfUsers[j].name => i = j)
SlotsOK ==
  \A p \in Places :
    ~Valid(p) => listOfMessages[p].from = Empty /\ listOfMessages[p].to = Empty

CountsOK ==
  /\ \A i \in DOMAIN listOfUsers :
       listOfUsers[i].msg_count = Cardinality(By(listOfUsers[i].name))
  /\ (\E p \in Places : Valid(p)) => printer

RowsInv == DraftsTypeOK /\ NamesOK /\ SlotsOK /\ RowsAreOwn
IInv == RowsInv /\ CountsOK
=============================================================================
