-------------------------- MODULE DraftServiceProofs --------------------------
(***************************************************************************)
(* Theorems about DraftService, for any names, texts and sizes.            *)
(***************************************************************************)
EXTENDS DraftService, FiniteSetTheorems, WellFoundedInduction, TLAPS

(* Min of a set of naturals is its least element.                          *)
Less == {pair \in Nat \X Nat : pair[1] < pair[2]}

LEMMA MinIs ==
  ASSUME NEW S \in SUBSET Nat, S # {}
  PROVE  Min(S) \in S /\ \A x \in S : Min(S) <= x
  <1>1. IsWellFoundedOn(Less, Nat)
    BY NatLessThanWellFounded DEF Less, OpToRel
  <1>2. PICK x \in S : \A y \in S : <<y, x>> \notin Less
    BY <1>1, WFMin
  <1>3. ASSUME NEW y \in S PROVE x <= y
    <2>1. <<y, x>> \in Nat \X Nat /\ <<y, x>>[1] = y /\ <<y, x>>[2] = x
      OBVIOUS
    <2> QED BY <1>2, <2>1 DEF Less
  <1> QED BY <1>3 DEF Min

(* A free slot that is found is free.                                      *)
LEMMA FirstFree ==
  ASSUME NEW i, Free(i) # {}
  PROVE  Min(Free(i)) \in Free(i) /\ Min(Free(i)) \in Slots
  <1>1. Free(i) \in SUBSET Nat
    BY DraftsAssumption DEF Free, Slots
  <1> QED BY <1>1, MinIs DEF Free

(* A name is found at the position of the user who has it.                 *)
LEMMA GetUser ==
  ASSUME DraftsTypeOK, NamesOK, NEW n
  PROVE  /\ get_user__index(n) = 0 <=> AccountsNamed(n) = {}
         /\ get_user__index(n) # 0 =>
              /\ get_user__index(n) \in DOMAIN listOfUsers
              /\ listOfUsers[get_user__index(n)].name = n
              /\ AccountsNamed(n) = {get_user__index(n)}
  <1>1. CASE AccountsNamed(n) = {}
    BY <1>1 DEF get_user__index
  <1>2. CASE AccountsNamed(n) # {}
    <2>1. AccountsNamed(n) \in SUBSET Nat
      BY DEF AccountsNamed, DraftsTypeOK
    <2>2. Min(AccountsNamed(n)) \in AccountsNamed(n)
      BY <1>2, <2>1, MinIs
    <2>3. AccountsNamed(n) = {Min(AccountsNamed(n))}
      BY <2>2 DEF AccountsNamed, NamesOK
    <2>4. Min(AccountsNamed(n)) # 0
      BY <2>2 DEF AccountsNamed, DraftsTypeOK
    <2> QED BY <1>2, <2>2, <2>3, <2>4 DEF get_user__index, AccountsNamed
  <1> QED BY <1>1, <1>2

(* The user logged in is found at the own position.                        *)
LEMMA OwnPosition ==
  ASSUME DraftsTypeOK, NamesOK, current_user # 0
  PROVE  /\ current_user \in DOMAIN listOfUsers /\ my_index = current_user
         /\ me \in Account /\ me.name # Empty /\ AccountsNamed(me.name) = {current_user}
         /\ current_user \in Rows
  <1>1. current_user \in DOMAIN listOfUsers /\ current_user \in Rows
    BY InputAssumption DEF DraftsTypeOK, Rows
  <1>2. me \in Account /\ current_user \in AccountsNamed(me.name)
    BY <1>1 DEF DraftsTypeOK, me, AccountsNamed
  <1>3. AccountsNamed(me.name) = {get_user__index(me.name)}
    BY <1>2, GetUser
  <1> QED BY <1>1, <1>2, <1>3 DEF my_index, NamesOK, me

-----------------------------------------------------------------------------
(* What a slot of user i may hold.                                         *)
UserNames == {listOfUsers[i].name : i \in DOMAIN listOfUsers}
Owner(m) == IF m.is_draft THEN m.from ELSE m.to
SlotOK(m, i) ==
  /\ ~m.match => m.from = Empty /\ m.to = Empty
  /\ m.match => {m.from, m.to} \subseteq UserNames /\ AccountsNamed(Owner(m)) = {i}

LEMMA SlotBySlot ==
  SlotsOK /\ RowsAreOwn <=> \A p \in Places : SlotOK(listOfMessages[p], p[1])
  BY DEF SlotsOK, RowsAreOwn, SlotOK, UserNames, Owner, Valid

(* The users and their names are the same; so are their counters, or all   *)
(* but one.                                                                *)
SameUsers ==
  /\ listOfUsers' \in Seq(Account) /\ Len(listOfUsers') = Len(listOfUsers)
  /\ \A k \in DOMAIN listOfUsers : listOfUsers'[k].name = listOfUsers[k].name
SameCounts ==
  \A k \in DOMAIN listOfUsers : listOfUsers'[k].msg_count = listOfUsers[k].msg_count
CountOf(i, c) ==
  \A k \in DOMAIN listOfUsers :
    listOfUsers'[k].msg_count = IF k = i THEN c ELSE listOfUsers[k].msg_count

LEMMA UsersAlone ==
  ASSUME DraftsTypeOK, UNCHANGED listOfUsers
  PROVE  SameUsers /\ SameCounts
  BY DEF DraftsTypeOK, SameUsers, SameCounts

(* As long as the users keep their names, a step that puts fitting         *)
(* messages into slots keeps the invariant.                                *)
LEMMA WritesKeep ==
  ASSUME RowsInv, DraftsTypeOK', SameUsers,
         \A p \in Places : \/ listOfMessages'[p] = listOfMessages[p]
                           \/ SlotOK(listOfMessages'[p], p[1])
  PROVE  RowsInv'
  <1>1. DOMAIN listOfUsers' = DOMAIN listOfUsers
    BY DEF RowsInv, DraftsTypeOK, SameUsers
  <1>2. ASSUME NEW n PROVE AccountsNamed(n)' = AccountsNamed(n)
    BY <1>1 DEF AccountsNamed, SameUsers
  <1>3. UserNames' = UserNames
    BY <1>1 DEF UserNames, SameUsers
  <1>4. NamesOK'
    BY <1>1 DEF RowsInv, NamesOK, SameUsers
  <1>5. \A p \in Places : SlotOK(listOfMessages[p], p[1])
    BY SlotBySlot DEF RowsInv
  <1>6. \A p \in Places : SlotOK(listOfMessages'[p], p[1])
    BY <1>5
  <1>7. \A p \in Places : SlotOK(listOfMessages[p], p[1])'
    BY <1>2, <1>3, <1>6 DEF SlotOK, Owner
  <1>8. (SlotsOK /\ RowsAreOwn)'
    BY <1>7 DEF SlotsOK, RowsAreOwn, SlotOK, UserNames, Owner, Valid
  <1> QED BY <1>4, <1>8 DEF RowsInv

-----------------------------------------------------------------------------
(* The steps.                                                              *)

(* A user whose counter and flag change keeps the name.                    *)
LEMMA OneField ==
  ASSUME NEW r \in Account
  PROVE  /\ \A c \in Int : [r EXCEPT !.msg_count = c] \in Account
                          /\ [r EXCEPT !.msg_count = c].name = r.name
                          /\ [r EXCEPT !.msg_count = c].msg_count = c
         /\ \A b \in BOOLEAN : [r EXCEPT !.first_login = b] \in Account
                              /\ [r EXCEPT !.first_login = b].name = r.name
                              /\ [r EXCEPT !.first_login = b].msg_count = r.msg_count
  BY DEF Account

LEMMA Counted ==
  ASSUME NEW r \in Account, NEW c \in Int, NEW b \in BOOLEAN
  PROVE  /\ [r EXCEPT !.msg_count = c, !.first_login = b] \in Account
         /\ [r EXCEPT !.msg_count = c, !.first_login = b].name = r.name
         /\ [r EXCEPT !.msg_count = c, !.first_login = b].msg_count = c
  BY DEF Account

LEMMA UserChanged ==
  ASSUME DraftsTypeOK, NEW i \in DOMAIN listOfUsers, NEW c \in Int, NEW b \in BOOLEAN,
         listOfUsers' = [listOfUsers EXCEPT ![i] =
                           [listOfUsers[i] EXCEPT !.msg_count = c, !.first_login = b]]
  PROVE  SameUsers /\ CountOf(i, c)
  <1> DEFINE u == [listOfUsers[i] EXCEPT !.msg_count = c, !.first_login = b]
  <1>1. u \in Account /\ u.name = listOfUsers[i].name /\ u.msg_count = c
    <2>1. listOfUsers[i] \in Account
      BY DEF DraftsTypeOK
    <2> QED BY <2>1, Counted, ZenonT(40)
  <1>2. listOfUsers' = [listOfUsers EXCEPT ![i] = u]
    OBVIOUS
  <1> HIDE DEF u
  <1> QED BY <1>1, <1>2 DEF DraftsTypeOK, SameUsers, CountOf

LEMMA FlagChanged ==
  ASSUME DraftsTypeOK, NEW i \in DOMAIN listOfUsers, NEW b \in BOOLEAN,
         listOfUsers' = [listOfUsers EXCEPT ![i].first_login = b]
  PROVE  SameUsers /\ SameCounts
  <1> DEFINE u == [listOfUsers[i] EXCEPT !.first_login = b]
  <1>1. u \in Account /\ u.name = listOfUsers[i].name /\ u.msg_count = listOfUsers[i].msg_count
    <2>1. listOfUsers[i] \in Account
      BY DEF DraftsTypeOK
    <2> QED BY <2>1, OneField
  <1>2. listOfUsers' = [listOfUsers EXCEPT ![i] = u]
    OBVIOUS
  <1> HIDE DEF u
  <1> QED BY <1>1, <1>2 DEF DraftsTypeOK, SameUsers, SameCounts

LEMMA CountChanged ==
  ASSUME DraftsTypeOK, NEW i \in DOMAIN listOfUsers, NEW c \in Int,
         listOfUsers' = [listOfUsers EXCEPT ![i].msg_count = c]
  PROVE  SameUsers /\ CountOf(i, c)
  <1> DEFINE u == [listOfUsers[i] EXCEPT !.msg_count = c]
  <1>1. u \in Account /\ u.name = listOfUsers[i].name /\ u.msg_count = c
    <2>1. listOfUsers[i] \in Account
      BY DEF DraftsTypeOK
    <2> QED BY <2>1, OneField
  <1>2. listOfUsers' = [listOfUsers EXCEPT ![i] = u]
    OBVIOUS
  <1> HIDE DEF u
  <1> QED BY <1>1, <1>2 DEF DraftsTypeOK, SameUsers, CountOf

LEMMA CreateAccountKeeps ==
  ASSUME RowsInv, A_CreateUser
  PROVE  RowsInv'
  <1>1. PICK n \in Names : create_account(n)
    BY DEF A_CreateUser
  <1> USE <1>1 DEF RowsInv
  <1>2. DraftsTypeOK'
    <2>1. NewAccount(n) \in Account
      BY DEF NewAccount, Account
    <2>2. listOfUsers' \in Seq(Account) /\ Len(listOfUsers') = Len(listOfUsers) + 1
      BY <2>1 DEF DraftsTypeOK, create_account
    <2>3. Len(listOfUsers') <= MaxUsers
      BY <2>2, InputAssumption DEF create_account, DraftsTypeOK
    <2> QED BY <2>2, <2>3 DEF DraftsTypeOK, A_CreateUser
  <1>3. /\ DOMAIN listOfUsers' = DOMAIN listOfUsers \cup {Len(listOfUsers) + 1}
        /\ \A i \in DOMAIN listOfUsers : listOfUsers'[i] = listOfUsers[i]
        /\ listOfUsers'[Len(listOfUsers) + 1].name = n
        /\ Len(listOfUsers) + 1 \notin DOMAIN listOfUsers
    BY DEF DraftsTypeOK, create_account, NewAccount
  <1>4. \A i \in DOMAIN listOfUsers : listOfUsers[i].name # n
    BY DEF create_account, AccountsNamed
  <1>5. NamesOK'
    <2>1. \A i \in DOMAIN listOfUsers' : listOfUsers'[i].name # Empty
      BY <1>3 DEF NamesOK, create_account
    <2>2. ASSUME NEW i \in DOMAIN listOfUsers', NEW j \in DOMAIN listOfUsers',
                 listOfUsers'[i].name = listOfUsers'[j].name
          PROVE  i = j
      BY <1>3, <1>4, <2>2 DEF NamesOK
    <2> QED BY <2>1, <2>2 DEF NamesOK
  <1>6. SlotsOK'
    BY DEF A_CreateUser, SlotsOK, Valid
  <1>7. ASSUME NEW o \in UserNames PROVE AccountsNamed(o)' = AccountsNamed(o) /\ o \in UserNames'
    <2>1. o # n
      BY <1>4 DEF UserNames
    <2>2. AccountsNamed(o)' = {i \in DOMAIN listOfUsers' : listOfUsers'[i].name = o}
      BY DEF AccountsNamed
    <2>3. AccountsNamed(o)' = AccountsNamed(o)
      BY <1>3, <2>1, <2>2 DEF AccountsNamed
    <2> QED BY <1>3, <2>3 DEF UserNames
  <1>8. ASSUME NEW p \in Places, SlotOK(listOfMessages[p], p[1])
        PROVE  SlotOK(listOfMessages[p], p[1])'
    <2> DEFINE m == listOfMessages[p]
    <2>1. listOfMessages' = listOfMessages
      BY DEF A_CreateUser
    <2>2. ASSUME m.match
          PROVE  {m.from, m.to} \subseteq UserNames' /\ AccountsNamed(Owner(m))' = {p[1]}
      <3>1. Owner(m) \in UserNames /\ AccountsNamed(Owner(m)) = {p[1]} /\ {m.from, m.to} \subseteq UserNames
        BY <1>8, <2>2 DEF SlotOK, Owner
      <3> QED BY <1>7, <2>1, <3>1 DEF Owner
    <2>3. ~m.match => m.from = Empty /\ m.to = Empty
      BY <1>8 DEF SlotOK
    <2> QED BY <2>1, <2>2, <2>3 DEF SlotOK, Owner
  <1>9. RowsAreOwn'
    <2>1. \A p \in Places : SlotOK(listOfMessages[p], p[1])
      BY SlotBySlot
    <2> QED BY <1>8, <2>1 DEF RowsAreOwn, SlotOK, UserNames, Owner
  <1> QED BY <1>2, <1>5, <1>6, <1>9

LEMMA LoginKeeps ==
  ASSUME RowsInv, A_Login
  PROVE  RowsInv'
  <1>1. DraftsTypeOK'
    BY DEF RowsInv, DraftsTypeOK, A_Login
  <1> QED BY <1>1, UsersAlone, WritesKeep DEF A_Login, RowsInv

LEMMA BadLoginKeeps ==
  ASSUME RowsInv, A_BadLogin
  PROVE  RowsInv'
  <1> USE DEF RowsInv
  <1>1. CASE UNCHANGED listOfUsers
    <2>1. DraftsTypeOK'
      BY <1>1 DEF DraftsTypeOK, A_BadLogin
    <2> QED BY <1>1, <2>1, UsersAlone, WritesKeep DEF A_BadLogin
  <1>2. CASE bad_login_count' = 0 /\ \E n \in Names : reset_user(n)
    <2>1. PICK n \in Names : reset_user(n)
      BY <1>2
    <2>2. CASE get_user__index(n) = 0
      BY <1>1, <2>1, <2>2 DEF reset_user
    <2>3. CASE get_user__index(n) # 0
      <3>1. get_user__index(n) \in DOMAIN listOfUsers
        BY <2>3, GetUser
      <3>2. SameUsers
        BY <2>1, <2>3, <3>1, FlagChanged DEF reset_user
      <3>3. DraftsTypeOK'
        BY <1>2, <3>2 DEF DraftsTypeOK, A_BadLogin, SameUsers
      <3> QED BY <3>2, <3>3, WritesKeep DEF A_BadLogin
    <2> QED BY <2>2, <2>3
  <1> QED BY <1>1, <1>2 DEF A_BadLogin

LEMMA LogoutKeeps ==
  ASSUME RowsInv, B_Logout
  PROVE  RowsInv'
  <1> USE DEF RowsInv
  <1>1. current_user \in DOMAIN listOfUsers
    BY OwnPosition DEF B_Logout
  <1>2. SameUsers
    BY <1>1, FlagChanged DEF B_Logout
  <1>3. DraftsTypeOK'
    BY <1>2 DEF DraftsTypeOK, B_Logout, SameUsers
  <1> QED BY <1>2, <1>3, WritesKeep DEF B_Logout

(* The fields of a message that is sent or cleared.                        *)
LEMMA SentAndCleared ==
  ASSUME NEW m \in DraftMessage
  PROVE  /\ Sent(m) \in DraftMessage /\ Sent(m).match /\ ~Sent(m).is_draft
         /\ Sent(m).from = m.from /\ Sent(m).to = m.to
         /\ m.match => Sent(m) = [m EXCEPT !.is_draft = FALSE]
         /\ Cleared(m) \in DraftMessage /\ ~Cleared(m).match
         /\ Cleared(m).from = Empty /\ Cleared(m).to = Empty
  BY InputAssumption DEF DraftMessage, Sent, Cleared

(* A slot that may be selected holds a draft of the user logged in.        *)
LEMMA Selection ==
  ASSUME RowsInv, current_user # 0, NEW s \in Slots, Selected(s)
  PROVE  LET q == <<current_user, s>>
             m == listOfMessages[q]
         IN  /\ q \in Places /\ m \in DraftMessage /\ m.match /\ m.is_draft
             /\ m.to \in UserNames /\ my_index = current_user /\ m.from = me.name
  <1> DEFINE q == <<current_user, s>>
             m == listOfMessages[q]
  <1> USE DEF RowsInv
  <1>1. q \in Places /\ my_index = current_user /\ me.name # Empty
    BY OwnPosition DEF Places
  <1>2. m \in DraftMessage /\ m.from # Empty /\ m.is_draft /\ m.from = me.name
    BY <1>1 DEF Selected, DraftsTypeOK
  <1>3. m.match
    BY <1>1, <1>2 DEF SlotsOK, Valid
  <1>4. SlotOK(m, current_user)
    BY <1>1, SlotBySlot
  <1>5. m.to \in UserNames
    BY <1>3, <1>4 DEF SlotOK
  <1> QED BY <1>1, <1>2, <1>3, <1>5

(* What a step puts into the arrays.                                       *)
Adds(p, m) ==
  /\ p \in Places /\ ~Valid(p) /\ m \in DraftMessage /\ m.match /\ SlotOK(m, p[1])
LEMMA CreateMessageWrites ==
  ASSUME RowsInv, B_CreateMessage
  PROVE  /\ SameUsers /\ msg_count_login' \in Nat /\ printer' = TRUE
         /\ \/ UNCHANGED listOfMessages /\ SameCounts
            \/ \E p \in Places, m \in DraftMessage :
                 /\ Adds(p, m) /\ m.is_draft /\ m.from = me.name
                 /\ listOfMessages' = [listOfMessages EXCEPT ![p] = m]
                 /\ CountOf(current_user, me.msg_count + 1)
  <1> USE DEF RowsInv
  <1>1. PICK dest \in Names, text \in DraftTexts : add_draft(dest, text)
    BY DEF B_CreateMessage
  <1>2. /\ current_user \in DOMAIN listOfUsers /\ my_index = current_user
        /\ me \in Account /\ AccountsNamed(me.name) = {current_user} /\ current_user \in Rows
    BY OwnPosition DEF B_CreateMessage
  <1>3. CASE get_user__index(dest) = 0
    BY <1>1, <1>3 DEF add_draft, DraftsTypeOK, SameUsers, SameCounts
  <1>4. CASE get_user__index(dest) # 0 /\ Free(my_index) = {}
    BY <1>1, <1>2, <1>4, FlagChanged DEF add_draft, DraftsTypeOK
  <1>5. CASE get_user__index(dest) # 0 /\ Free(my_index) # {}
    <2> DEFINE m == Draft(dest, text)
               p == <<my_index, Min(Free(my_index))>>
    <2>1. /\ listOfMessages' = [listOfMessages EXCEPT ![p] = m]
          /\ listOfUsers' = [listOfUsers EXCEPT ![current_user] =
               [me EXCEPT !.msg_count = me.msg_count + 1, !.first_login = FALSE]]
          /\ msg_count_login' = msg_count_login + 1 /\ printer' = TRUE
      BY <1>1, <1>5 DEF add_draft
    <2>2. p \in Places /\ ~Valid(p) /\ p[1] = current_user
      BY <1>2, <1>5, FirstFree DEF Places, Free, Valid
    <2>3. m \in DraftMessage /\ m.match /\ m.is_draft /\ m.from = me.name /\ m.to = dest
      BY <1>2 DEF Draft, DraftMessage, Account
    <2>4. dest \in UserNames /\ me.name \in UserNames
      BY <1>2, <1>5, GetUser DEF UserNames, me
    <2>5. SlotOK(m, p[1])
      BY <1>2, <2>2, <2>3, <2>4 DEF SlotOK, Owner
    <2>6. SameUsers /\ CountOf(current_user, me.msg_count + 1)
      <3> DEFINE c == me.msg_count + 1
      <3>1. c \in Int /\ FALSE \in BOOLEAN
        BY <1>2 DEF Account
      <3>2. listOfUsers' = [listOfUsers EXCEPT ![current_user] =
              [listOfUsers[current_user] EXCEPT !.msg_count = c, !.first_login = FALSE]]
        BY <2>1 DEF me
      <3> HIDE DEF c
      <3>3. SameUsers /\ CountOf(current_user, c)
        BY <1>2, <3>1, <3>2, UserChanged
      <3> QED BY <3>3 DEF c
    <2>7. msg_count_login' \in Nat /\ printer' = TRUE
      BY <2>1 DEF DraftsTypeOK
    <2>8. Adds(p, m) /\ m.is_draft
      BY <2>2, <2>3, <2>5 DEF Adds
    <2> HIDE DEF m, p
    <2> QED BY <1>2, <2>1, <2>2, <2>3, <2>6, <2>7, <2>8
  <1> QED BY <1>3, <1>4, <1>5

LEMMA SendMessageWrites ==
  ASSUME RowsInv, B_SendMessage
  PROVE  \E q \in Places, p \in Places :
           /\ q[1] = current_user /\ Valid(q) /\ listOfMessages[q].is_draft /\ p # q
           /\ Adds(p, Sent(listOfMessages[q]))
           /\ listOfMessages' = [listOfMessages EXCEPT
                 ![p] = Sent(listOfMessages[q]), ![q] = Cleared(listOfMessages[q])]
  <1> USE DEF RowsInv
  <1>1. PICK s \in Slots : print_draft_for_send(s)
    BY DEF B_SendMessage
  <1> DEFINE q == <<current_user, s>>
             m == listOfMessages[q]
             i == get_user__index(m.to)
             p == <<i, Min(Free(i))>>
  <1>2. /\ q \in Places /\ m \in DraftMessage /\ m.match /\ m.is_draft
        /\ m.to \in UserNames /\ my_index = current_user
    BY <1>1, Selection DEF B_SendMessage, print_draft_for_send
  <1>3. i \in DOMAIN listOfUsers /\ i \in Rows /\ AccountsNamed(m.to) = {i}
    <2>1. AccountsNamed(m.to) # {}
      BY <1>2 DEF UserNames, AccountsNamed
    <2>2. i \in DOMAIN listOfUsers /\ AccountsNamed(m.to) = {i}
      BY <2>1, GetUser
    <2> QED BY <2>2, InputAssumption DEF DraftsTypeOK, Rows
  <1>4. /\ Free(i) # {}
        /\ listOfMessages' = [listOfMessages EXCEPT ![p] = Sent(m), ![q] = Cleared(@)]
    BY <1>1, <1>2 DEF print_draft_for_send
  <1>5. p \in Places /\ ~Valid(p) /\ p[1] = i
    BY <1>3, <1>4, FirstFree DEF Places, Free, Valid
  <1>6. p # q /\ Valid(q) /\ q[1] = current_user
    BY <1>2, <1>5 DEF Valid
  <1>7. SlotOK(m, current_user)
    BY <1>2, SlotBySlot
  <1>8. Adds(p, Sent(m))
    <2>1. {Sent(m).from, Sent(m).to} \subseteq UserNames /\ Owner(Sent(m)) = m.to
      BY <1>2, <1>7, SentAndCleared DEF SlotOK, Owner
    <2> QED BY <1>2, <1>3, <1>5, <2>1, SentAndCleared DEF Adds, SlotOK
  <1>9. listOfMessages' = [listOfMessages EXCEPT ![p] = Sent(m), ![q] = Cleared(m)]
    BY <1>4, <1>6
  <1> HIDE DEF q, p
  <1> QED BY <1>2, <1>5, <1>6, <1>8, <1>9

LEMMA DeleteDraftWrites ==
  ASSUME RowsInv, B_DeleteDraft
  PROVE  /\ SameUsers /\ CountOf(current_user, me.msg_count - 1)
         /\ \E q \in Places :
              /\ q[1] = current_user /\ Valid(q) /\ listOfMessages[q].is_draft
              /\ listOfMessages[q].from = me.name
              /\ listOfMessages' = [listOfMessages EXCEPT ![q] = Cleared(listOfMessages[q])]
  <1> USE DEF RowsInv
  <1>1. PICK s \in Slots : print_draft_for_del(s)
    BY DEF B_DeleteDraft
  <1>2. LET q == <<current_user, s>>
            m == listOfMessages[q]
        IN  /\ q \in Places /\ m \in DraftMessage /\ m.match /\ m.is_draft
            /\ m.to \in UserNames /\ my_index = current_user /\ m.from = me.name
    BY <1>1, Selection DEF B_DeleteDraft, print_draft_for_del
  <1>3. current_user \in DOMAIN listOfUsers /\ me \in Account
    BY OwnPosition DEF B_DeleteDraft
  <1>4. listOfUsers' = [listOfUsers EXCEPT ![current_user].msg_count = me.msg_count - 1]
    BY <1>1 DEF print_draft_for_del, me
  <1>5. me.msg_count - 1 \in Int
    BY <1>3 DEF Account
  <1>6. SameUsers /\ CountOf(current_user, me.msg_count - 1)
    BY <1>3, <1>4, <1>5, CountChanged
  <1>7. listOfMessages' = [listOfMessages EXCEPT
          ![<<current_user, s>>] = Cleared(listOfMessages[<<current_user, s>>])]
    BY <1>1, <1>2 DEF print_draft_for_del
  <1> QED BY <1>2, <1>6, <1>7 DEF Valid

-----------------------------------------------------------------------------
LEMMA InitHolds == DraftsInit => RowsInv
  <1> SUFFICES ASSUME DraftsInit PROVE RowsInv
    OBVIOUS
  <1>1. Blank \in DraftMessage
    BY InputAssumption DEF Blank, DraftMessage
  <1>2. DraftsTypeOK
    <2>1. listOfUsers \in Seq(Account) /\ Len(listOfUsers) = 0
      BY DEF DraftsInit
    <2>2. listOfMessages \in [Places -> DraftMessage]
      BY <1>1 DEF DraftsInit
    <2>3. current_user = 0 /\ msg_count_login \in Nat /\ bad_login_count \in 0 .. 2
      BY DEF DraftsInit
    <2>5. printer \in BOOLEAN
      BY DEF DraftsInit
    <2>4. current_user \in 0 .. Len(listOfUsers) /\ Len(listOfUsers) <= MaxUsers
      BY <2>1, <2>3, InputAssumption
    <2> QED BY <2>1, <2>2, <2>3, <2>4, <2>5 DEF DraftsTypeOK
  <1>3. NamesOK /\ SlotsOK /\ RowsAreOwn
    BY DEF DraftsInit, NamesOK, SlotsOK, RowsAreOwn, Valid, Blank
  <1> QED BY <1>2, <1>3 DEF RowsInv

(* A slot that is cleared holds nobody's message.                          *)
LEMMA ClearedIsOK ==
  ASSUME NEW m \in DraftMessage, NEW i
  PROVE  SlotOK(Cleared(m), i)
  BY SentAndCleared DEF SlotOK

LEMMA StepKeeps == RowsInv /\ [DraftsNext]_draftsVars => RowsInv'
  <1> SUFFICES ASSUME RowsInv, [DraftsNext]_draftsVars PROVE RowsInv'
    OBVIOUS
  <1>1. CASE B_CreateMessage
    <2>1. SameUsers
          /\ msg_count_login' \in Nat /\ printer' \in BOOLEAN
      BY <1>1, CreateMessageWrites
    <2>2. CASE UNCHANGED listOfMessages
      <3>1. DraftsTypeOK'
        BY <1>1, <2>1, <2>2 DEF RowsInv, DraftsTypeOK, SameUsers, B_CreateMessage
      <3> QED BY <2>1, <2>2, <3>1, WritesKeep
    <2>3. CASE \E p \in Places, m \in DraftMessage :
                 /\ Adds(p, m) /\ m.is_draft
                 /\ listOfMessages' = [listOfMessages EXCEPT ![p] = m]
      <3>1. PICK p \in Places, m \in DraftMessage :
                 /\ Adds(p, m) /\ m.is_draft
                 /\ listOfMessages' = [listOfMessages EXCEPT ![p] = m]
        BY <2>3
      <3>2. DraftsTypeOK'
        BY <1>1, <2>1, <3>1 DEF RowsInv, DraftsTypeOK, SameUsers, B_CreateMessage
      <3>3. \A r \in Places : \/ listOfMessages'[r] = listOfMessages[r]
                              \/ SlotOK(listOfMessages'[r], r[1])
        BY <3>1 DEF RowsInv, DraftsTypeOK, Adds
      <3> QED BY <2>1, <3>2, <3>3, WritesKeep
    <2> QED BY <1>1, <2>2, <2>3, CreateMessageWrites
  <1>2. CASE B_SendMessage
    <2>1. PICK q \in Places, p \in Places :
           /\ q[1] = current_user /\ Valid(q) /\ listOfMessages[q].is_draft /\ p # q
           /\ Adds(p, Sent(listOfMessages[q]))
           /\ listOfMessages' = [listOfMessages EXCEPT
                 ![p] = Sent(listOfMessages[q]), ![q] = Cleared(listOfMessages[q])]
      BY <1>2, SendMessageWrites
    <2>2. /\ listOfMessages[q] \in DraftMessage /\ Cleared(listOfMessages[q]) \in DraftMessage
          /\ Sent(listOfMessages[q]) \in DraftMessage
      BY SentAndCleared DEF RowsInv, DraftsTypeOK
    <2>3. DraftsTypeOK'
      BY <1>2, <2>1, <2>2 DEF RowsInv, DraftsTypeOK, B_SendMessage
    <2>4. SlotOK(Cleared(listOfMessages[q]), q[1])
      BY <2>2, ClearedIsOK
    <2>5. \A r \in Places : \/ listOfMessages'[r] = listOfMessages[r]
                            \/ SlotOK(listOfMessages'[r], r[1])
      BY <2>1, <2>4 DEF RowsInv, DraftsTypeOK, Adds
    <2> QED BY <1>2, <2>3, <2>5, UsersAlone, WritesKeep DEF B_SendMessage, RowsInv
  <1>3. CASE B_DeleteDraft
    <2>1. SameUsers
      BY <1>3, DeleteDraftWrites
    <2>2. PICK q \in Places :
              /\ q[1] = current_user /\ Valid(q) /\ listOfMessages[q].is_draft
              /\ listOfMessages' = [listOfMessages EXCEPT ![q] = Cleared(listOfMessages[q])]
      BY <1>3, DeleteDraftWrites
    <2>3. listOfMessages[q] \in DraftMessage /\ Cleared(listOfMessages[q]) \in DraftMessage
      BY SentAndCleared DEF RowsInv, DraftsTypeOK
    <2>4. DraftsTypeOK'
      BY <1>3, <2>1, <2>2, <2>3 DEF RowsInv, DraftsTypeOK, SameUsers, B_DeleteDraft
    <2>5. \A r \in Places : \/ listOfMessages'[r] = listOfMessages[r]
                            \/ SlotOK(listOfMessages'[r], r[1])
      BY <2>2, <2>3, ClearedIsOK DEF RowsInv, DraftsTypeOK
    <2> QED BY <2>1, <2>4, <2>5, WritesKeep
  <1>4. CASE UNCHANGED draftsVars
    <2>1. DraftsTypeOK'
      BY <1>4 DEF RowsInv, DraftsTypeOK, draftsVars
    <2> QED BY <1>4, <2>1, UsersAlone, WritesKeep DEF draftsVars, RowsInv
  <1> QED BY <1>1, <1>2, <1>3, <1>4, CreateAccountKeeps, LoginKeeps, BadLoginKeeps, LogoutKeeps DEF DraftsNext

(* Users are found at their own positions and rows hold what is their      *)
(* owner's (every function of the service).                                *)
THEOREM RowsInvariance == DraftsSpec => []RowsInv
  <1> QED BY InitHolds, StepKeeps, PTL DEF DraftsSpec

(* Drafts lie in their author's array and received messages in their       *)
(* addressee's, for any number of users and slots (add_message,            *)
(* print_draft_for_send).                                                  *)
THEOREM RowsStayOwn == DraftsSpec => []RowsAreOwn
  <1>1. RowsInv => RowsAreOwn
    BY DEF RowsInv
  <1> QED BY <1>1, RowsInvariance, PTL

-----------------------------------------------------------------------------
LEMMA AtMostOne ==
  ASSUME NEW x, NEW S, S \subseteq {x}
  PROVE  Cardinality(S) <= 1
  <1>1. CASE S = {}
    BY <1>1, FS_EmptySet
  <1>2. CASE S = {x}
    BY <1>2, FS_Singleton
  <1> QED BY <1>1, <1>2

(* A step that leaves the messages alone sends nothing.                    *)
LEMMA NothingSent ==
  ASSUME UNCHANGED listOfMessages
  PROVE  /\ Received' = Received /\ Drafts' = Drafts
         /\ Cardinality(Received' \ Received) <= 1 /\ Cardinality(Drafts \ Drafts') <= 1
  <1>1. Received' = Received /\ Drafts' = Drafts
    BY DEF Received, Drafts, Valid
  <1>2. Cardinality({}) = 0
    BY FS_EmptySet
  <1>3. Received' \ Received = {} /\ Drafts \ Drafts' = {}
    BY <1>1
  <1> QED BY <1>1, <1>2, <1>3

(* No message received is changed or lost, and one arrives only as one     *)
(* draft leaves, of the user logged in and with its contents, for any      *)
(* number of users and slots (print_draft_for_send).                       *)
THEOREM DraftsAreSentOnce == DraftsSpec => SentOnce
  <1> DEFINE Step ==
       /\ \A p \in Received : listOfMessages'[p] = listOfMessages[p]
       /\ \A p \in Received' \ Received : \E q \in Drafts \ Drafts' :
            listOfMessages'[p] = [listOfMessages[q] EXCEPT !.is_draft = FALSE]
       /\ Cardinality(Received' \ Received) <= 1 /\ Cardinality(Drafts \ Drafts') <= 1
       /\ \A q \in Drafts : q[1] = current_user \/ listOfMessages'[q] = listOfMessages[q]
  <1>1. ASSUME UNCHANGED listOfMessages PROVE Step
    BY <1>1, NothingSent
  <1>2. ASSUME RowsInv, B_CreateMessage PROVE Step
    <2>1. CASE UNCHANGED listOfMessages
      BY <1>1, <2>1
    <2>2. CASE \E p \in Places, m \in DraftMessage :
                 /\ Adds(p, m) /\ m.is_draft
                 /\ listOfMessages' = [listOfMessages EXCEPT ![p] = m]
      <3>1. PICK p \in Places, m \in DraftMessage :
                 /\ Adds(p, m) /\ m.is_draft
                 /\ listOfMessages' = [listOfMessages EXCEPT ![p] = m]
        BY <2>2
      <3>2. /\ listOfMessages'[p] = m /\ p \notin Received /\ p \notin Drafts
            /\ \A r \in Places : r # p => listOfMessages'[r] = listOfMessages[r]
        BY <1>2, <3>1 DEF RowsInv, DraftsTypeOK, Adds, Received, Drafts
      <3>3. Received' = Received /\ Drafts \subseteq Drafts'
        BY <3>1, <3>2 DEF Received, Drafts, Valid
      <3>4. Received' \ Received = {} /\ Drafts \ Drafts' = {} /\ Cardinality({}) = 0
        BY <3>3, FS_EmptySet
      <3>5. \A r \in Received \cup Drafts : r \in Places /\ r # p
        BY <3>2 DEF Received, Drafts
      <3> QED BY <3>2, <3>4, <3>5
    <2> QED BY <1>2, <2>1, <2>2, CreateMessageWrites
  <1>3. ASSUME RowsInv, B_SendMessage PROVE Step
    <2>1. PICK q \in Places, p \in Places :
           /\ q[1] = current_user /\ Valid(q) /\ listOfMessages[q].is_draft /\ p # q
           /\ Adds(p, Sent(listOfMessages[q]))
           /\ listOfMessages' = [listOfMessages EXCEPT
                 ![p] = Sent(listOfMessages[q]), ![q] = Cleared(listOfMessages[q])]
      BY <1>3, SendMessageWrites
    <2>2. listOfMessages[q] \in DraftMessage
      BY <1>3 DEF RowsInv, DraftsTypeOK
    <2>3. /\ listOfMessages'[p] = Sent(listOfMessages[q])
          /\ listOfMessages'[q] = Cleared(listOfMessages[q])
          /\ \A r \in Places : r # p /\ r # q => listOfMessages'[r] = listOfMessages[r]
          /\ p \notin Received /\ p \notin Drafts /\ q \in Drafts /\ q \notin Received
      BY <1>3, <2>1 DEF RowsInv, DraftsTypeOK, Adds, Received, Drafts
    <2>4. /\ ~listOfMessages'[q].match
          /\ listOfMessages'[p] = [listOfMessages[q] EXCEPT !.is_draft = FALSE]
          /\ listOfMessages'[p].match /\ ~listOfMessages'[p].is_draft
      BY <2>1, <2>2, <2>3, SentAndCleared DEF Valid
    <2>5. Received' = Received \cup {p}
      BY <2>3, <2>4 DEF Received, Valid
    <2>6. Drafts' = Drafts \ {q}
      BY <2>3, <2>4 DEF Drafts, Valid
    <2>7. Received' \ Received \subseteq {p} /\ Drafts \ Drafts' \subseteq {q} /\ q \in Drafts \ Drafts'
      BY <2>3, <2>5, <2>6
    <2>8. Cardinality(Received' \ Received) <= 1 /\ Cardinality(Drafts \ Drafts') <= 1
      BY <2>7, AtMostOne
    <2>9. \A r \in Received' \ Received : listOfMessages'[r] = [listOfMessages[q] EXCEPT !.is_draft = FALSE]
      BY <2>4, <2>7
    <2>10. \A r \in Received : r \in Places /\ r # p /\ r # q
      BY <2>3 DEF Received
    <2>11. \A r \in Drafts : r \in Places /\ r # p
      BY <2>3 DEF Drafts
    <2> QED BY <2>1, <2>3, <2>7, <2>8, <2>9, <2>10, <2>11
  <1>4. ASSUME RowsInv, B_DeleteDraft PROVE Step
    <2>1. PICK q \in Places :
              /\ q[1] = current_user /\ Valid(q) /\ listOfMessages[q].is_draft
              /\ listOfMessages' = [listOfMessages EXCEPT ![q] = Cleared(listOfMessages[q])]
      BY <1>4, DeleteDraftWrites
    <2>2. listOfMessages[q] \in DraftMessage
      BY <1>4 DEF RowsInv, DraftsTypeOK
    <2>3. /\ ~listOfMessages'[q].match /\ q \in Drafts /\ q \notin Received
          /\ \A r \in Places : r # q => listOfMessages'[r] = listOfMessages[r]
      BY <1>4, <2>1, <2>2, SentAndCleared DEF RowsInv, DraftsTypeOK, Received, Drafts
    <2>4. Received' = Received /\ Drafts' = Drafts \ {q}
      BY <2>3 DEF Received, Drafts, Valid
    <2>5. Received' \ Received = {} /\ Drafts \ Drafts' \subseteq {q} /\ Cardinality({}) = 0
      BY <2>4, FS_EmptySet
    <2>6. Cardinality(Drafts \ Drafts') <= 1
      BY <2>5, AtMostOne
    <2>7. \A r \in Received : r \in Places /\ r # q
      BY <2>3 DEF Received
    <2>8. \A r \in Drafts : r \in Places
      BY DEF Drafts
    <2>9. Cardinality(Received' \ Received) <= 1
      BY <2>5
    <2> QED BY <2>1, <2>3, <2>5, <2>6, <2>7, <2>8, <2>9
  <1>5. RowsInv /\ [DraftsNext]_draftsVars => [Step]_draftsVars
    BY <1>1, <1>2, <1>3, <1>4 DEF DraftsNext, A_CreateUser, A_Login, A_BadLogin, B_Logout
  <1>6. DraftsSpec => [][Step]_draftsVars
    BY <1>5, RowsInvariance, PTL DEF DraftsSpec
  <1> QED BY <1>6 DEF SentOnce
-----------------------------------------------------------------------------
(* The counters.  After a step, the messages n wrote are these.            *)
ByAfter(n) == {p \in Places : listOfMessages'[p].match /\ listOfMessages'[p].from = n}

LEMMA PlacesAreFinite == IsFiniteSet(Places)
  <1>1. IsFiniteSet(Rows) /\ IsFiniteSet(Slots)
    <2>1. 0 \in Int /\ 1 \in Int /\ MaxUsers \in Int /\ MAX_MESSAGES - 1 \in Int
      BY InputAssumption, DraftsAssumption
    <2> QED BY <2>1, FS_Interval DEF Rows, Slots
  <1> QED BY <1>1, FS_Product DEF Places

LEMMA ByIsFinite ==
  ASSUME NEW n
  PROVE  IsFiniteSet(By(n)) /\ Cardinality(By(n)) \in Nat
  <1>1. By(n) \in SUBSET Places
    BY DEF By
  <1> QED BY <1>1, PlacesAreFinite, FS_Subset, FS_CardinalityType

(* What the step has to give each user.                                    *)
LEMMA CountsFollow ==
  ASSUME RowsInv, SameUsers,
         \A k \in DOMAIN listOfUsers :
           listOfUsers'[k].msg_count = Cardinality(ByAfter(listOfUsers[k].name)),
         (\E p \in Places : listOfMessages'[p].match) => printer'
  PROVE  CountsOK'
  <1>1. DOMAIN listOfUsers' = DOMAIN listOfUsers
    BY DEF RowsInv, DraftsTypeOK, SameUsers
  <1>2. \A k \in DOMAIN listOfUsers' :
          listOfUsers'[k].msg_count = Cardinality(ByAfter(listOfUsers'[k].name))
    BY <1>1 DEF SameUsers
  <1> QED BY <1>2 DEF CountsOK, By, ByAfter, Valid

LEMMA QuietKeepsCounts ==
  ASSUME RowsInv, CountsOK, SameUsers, SameCounts, UNCHANGED listOfMessages,
         printer => printer'
  PROVE  CountsOK'
  <1>1. ASSUME NEW n PROVE ByAfter(n) = By(n)
    BY DEF ByAfter, By, Valid
  <1>2. \A k \in DOMAIN listOfUsers :
          listOfUsers'[k].msg_count = Cardinality(ByAfter(listOfUsers[k].name))
    BY <1>1 DEF SameCounts, CountsOK
  <1>3. (\E p \in Places : listOfMessages'[p].match) => printer'
    BY DEF CountsOK, Valid
  <1> QED BY <1>2, <1>3, CountsFollow

LEMMA CreateUserCounts ==
  ASSUME RowsInv, CountsOK, A_CreateUser
  PROVE  CountsOK'
  <1> USE DEF RowsInv
  <1>1. PICK n \in Names : create_account(n)
    BY DEF A_CreateUser
  <1>2. /\ DOMAIN listOfUsers' = DOMAIN listOfUsers \cup {Len(listOfUsers) + 1}
        /\ \A i \in DOMAIN listOfUsers : listOfUsers'[i] = listOfUsers[i]
        /\ listOfUsers'[Len(listOfUsers) + 1].name = n
        /\ listOfUsers'[Len(listOfUsers) + 1].msg_count = 0
    BY <1>1 DEF DraftsTypeOK, create_account, NewAccount
  <1>3. By(n) = {}
    <2> SUFFICES ASSUME NEW p \in By(n) PROVE FALSE
      OBVIOUS
    <2>1. p \in Places /\ Valid(p) /\ listOfMessages[p].from = n
      BY DEF By
    <2>2. n \in UserNames
      BY <2>1, SlotBySlot DEF SlotOK, Valid
    <2> QED BY <1>1, <2>2 DEF create_account, AccountsNamed, UserNames
  <1>4. listOfMessages' = listOfMessages /\ printer' = printer
    BY DEF A_CreateUser
  <1>5. ASSUME NEW i \in DOMAIN listOfUsers'
        PROVE  listOfUsers'[i].msg_count = Cardinality(By(listOfUsers[i].name)')
    <2>1. CASE i \in DOMAIN listOfUsers
      BY <1>2, <1>4, <2>1 DEF CountsOK, By, Valid
    <2>2. CASE i = Len(listOfUsers) + 1
      <3>1. By(listOfUsers[i].name)' = By(n)
        BY <1>2, <1>4, <2>2 DEF By, Valid
      <3> QED BY <1>2, <1>3, <2>2, <3>1, FS_EmptySet
    <2> QED BY <1>2, <2>1, <2>2
  <1>6. (\E p \in Places : Valid(p))' => printer'
    BY <1>4 DEF CountsOK, Valid
  <1> QED BY <1>5, <1>6 DEF CountsOK

(* A draft more, of the user logged in.                                    *)
LEMMA CreateMessageCounts ==
  ASSUME RowsInv, CountsOK, B_CreateMessage
  PROVE  CountsOK'
  <1>1. SameUsers /\ printer' = TRUE
    BY CreateMessageWrites
  <1>2. CASE UNCHANGED listOfMessages /\ SameCounts
    BY <1>1, <1>2, QuietKeepsCounts
  <1>3. CASE \E p \in Places, m \in DraftMessage :
                 /\ Adds(p, m) /\ m.is_draft /\ m.from = me.name
                 /\ listOfMessages' = [listOfMessages EXCEPT ![p] = m]
                 /\ CountOf(current_user, me.msg_count + 1)
    <2>1. PICK p \in Places, m \in DraftMessage :
                 /\ Adds(p, m) /\ m.is_draft /\ m.from = me.name
                 /\ listOfMessages' = [listOfMessages EXCEPT ![p] = m]
                 /\ CountOf(current_user, me.msg_count + 1)
      BY <1>3
    <2>2. /\ listOfMessages'[p] = m /\ m.match /\ ~Valid(p)
          /\ \A r \in Places : r # p => listOfMessages'[r] = listOfMessages[r]
      BY <2>1 DEF RowsInv, DraftsTypeOK, Adds
    <2>3. ASSUME NEW n, n # me.name PROVE ByAfter(n) = By(n)
      BY <2>1, <2>2, <2>3 DEF ByAfter, By, Valid
    <2>4. ByAfter(me.name) = By(me.name) \cup {p} /\ p \notin By(me.name)
      BY <2>1, <2>2 DEF ByAfter, By, Valid
    <2>5. Cardinality(ByAfter(me.name)) = Cardinality(By(me.name)) + 1
      BY <2>4, ByIsFinite, FS_AddElement
    <2>6. ASSUME NEW k \in DOMAIN listOfUsers
          PROVE  listOfUsers'[k].msg_count = Cardinality(ByAfter(listOfUsers[k].name))
      <3>1. current_user \in DOMAIN listOfUsers
        BY OwnPosition DEF RowsInv, B_CreateMessage
      <3>2. CASE k = current_user
        BY <2>1, <2>5, <3>1, <3>2 DEF CountOf, CountsOK, me
      <3>3. CASE k # current_user
        <4>1. listOfUsers[k].name # me.name
          BY <3>1, <3>3 DEF me, NamesOK, RowsInv
        <4> QED BY <2>1, <2>3, <3>3, <4>1 DEF CountOf, CountsOK
      <3> QED BY <3>2, <3>3
    <2> QED BY <1>1, <2>6, CountsFollow
  <1> QED BY <1>2, <1>3, CreateMessageWrites

(* Sent, a message keeps its author.                                       *)
LEMMA SendMessageCounts ==
  ASSUME RowsInv, CountsOK, B_SendMessage
  PROVE  CountsOK'
  <1>1. PICK q \in Places, p \in Places :
           /\ q[1] = current_user /\ Valid(q) /\ listOfMessages[q].is_draft /\ p # q
           /\ Adds(p, Sent(listOfMessages[q]))
           /\ listOfMessages' = [listOfMessages EXCEPT
                 ![p] = Sent(listOfMessages[q]), ![q] = Cleared(listOfMessages[q])]
    BY SendMessageWrites
  <1>2. listOfMessages[q] \in DraftMessage
    BY DEF RowsInv, DraftsTypeOK
  <1>3. /\ listOfMessages'[p] = Sent(listOfMessages[q])
        /\ listOfMessages'[q] = Cleared(listOfMessages[q])
        /\ \A r \in Places : r # p /\ r # q => listOfMessages'[r] = listOfMessages[r]
        /\ ~Valid(p)
    BY <1>1 DEF RowsInv, DraftsTypeOK, Adds
  <1>4. /\ ~listOfMessages'[q].match /\ listOfMessages'[p].match
        /\ listOfMessages'[p].from = listOfMessages[q].from
    BY <1>2, <1>3, SentAndCleared
  <1>5. ASSUME NEW n PROVE Cardinality(ByAfter(n)) = Cardinality(By(n))
    <2>1. CASE n # listOfMessages[q].from
      <3>1. ByAfter(n) = By(n)
        BY <1>1, <1>3, <1>4, <2>1 DEF ByAfter, By, Valid
      <3> QED BY <3>1
    <2>2. CASE n = listOfMessages[q].from
      <3>1. /\ ByAfter(n) = (By(n) \ {q}) \cup {p}
            /\ q \in By(n) /\ p \notin By(n) \ {q}
        BY <1>1, <1>3, <1>4, <2>2 DEF ByAfter, By, Valid
      <3>2. IsFiniteSet(By(n) \ {q}) /\ Cardinality(By(n) \ {q}) = Cardinality(By(n)) - 1
        BY <3>1, ByIsFinite, FS_RemoveElement
      <3>3. Cardinality((By(n) \ {q}) \cup {p}) = Cardinality(By(n) \ {q}) + 1
        BY <3>1, <3>2, FS_AddElement
      <3> QED BY <3>1, <3>2, <3>3, ByIsFinite
    <2> QED BY <2>1, <2>2
  <1>6. SameUsers /\ SameCounts
    BY UsersAlone DEF RowsInv, B_SendMessage
  <1>7. \A k \in DOMAIN listOfUsers :
          listOfUsers'[k].msg_count = Cardinality(ByAfter(listOfUsers[k].name))
    BY <1>5, <1>6 DEF SameCounts, CountsOK
  <1>8. printer'
    BY <1>1 DEF CountsOK, B_SendMessage
  <1> QED BY <1>6, <1>7, <1>8, CountsFollow

(* A draft less.                                                           *)
LEMMA DeleteDraftCounts ==
  ASSUME RowsInv, CountsOK, B_DeleteDraft
  PROVE  CountsOK'
  <1>1. SameUsers /\ CountOf(current_user, me.msg_count - 1)
    BY DeleteDraftWrites
  <1>2. PICK q \in Places :
              /\ q[1] = current_user /\ Valid(q) /\ listOfMessages[q].is_draft
              /\ listOfMessages[q].from = me.name
              /\ listOfMessages' = [listOfMessages EXCEPT ![q] = Cleared(listOfMessages[q])]
    BY DeleteDraftWrites
  <1>3. /\ ~listOfMessages'[q].match
        /\ \A r \in Places : r # q => listOfMessages'[r] = listOfMessages[r]
    BY <1>2, SentAndCleared DEF RowsInv, DraftsTypeOK
  <1>4. ASSUME NEW n, n # me.name PROVE ByAfter(n) = By(n)
    BY <1>2, <1>3, <1>4 DEF ByAfter, By, Valid
  <1>5. ByAfter(me.name) = By(me.name) \ {q} /\ q \in By(me.name)
    BY <1>2, <1>3 DEF ByAfter, By, Valid
  <1>6. Cardinality(ByAfter(me.name)) = Cardinality(By(me.name)) - 1
    BY <1>5, ByIsFinite, FS_RemoveElement
  <1>7. ASSUME NEW k \in DOMAIN listOfUsers
        PROVE  listOfUsers'[k].msg_count = Cardinality(ByAfter(listOfUsers[k].name))
    <2>1. current_user \in DOMAIN listOfUsers
      BY OwnPosition DEF RowsInv, B_DeleteDraft
    <2>2. CASE k = current_user
      BY <1>1, <1>6, <2>1, <2>2 DEF CountOf, CountsOK, me
    <2>3. CASE k # current_user
      <3>1. listOfUsers[k].name # me.name
        BY <2>1, <2>3 DEF me, NamesOK, RowsInv
      <3> QED BY <1>1, <1>4, <2>3, <3>1 DEF CountOf, CountsOK
    <2> QED BY <2>2, <2>3
  <1>8. printer'
    BY <1>2 DEF CountsOK, B_DeleteDraft
  <1> QED BY <1>1, <1>7, <1>8, CountsFollow

LEMMA CountsStep == RowsInv /\ CountsOK /\ [DraftsNext]_draftsVars => CountsOK'
  <1> SUFFICES ASSUME RowsInv, CountsOK, [DraftsNext]_draftsVars PROVE CountsOK'
    OBVIOUS
  <1>1. CASE A_Login \/ UNCHANGED draftsVars
    <2>1. SameUsers /\ SameCounts
      BY <1>1, UsersAlone DEF RowsInv, A_Login, draftsVars
    <2> QED BY <1>1, <2>1, QuietKeepsCounts DEF A_Login, draftsVars
  <1>2. CASE A_BadLogin
    <2>1. SameUsers /\ SameCounts
      <3>1. CASE UNCHANGED listOfUsers
        BY <3>1, UsersAlone DEF RowsInv
      <3>2. ASSUME NEW n \in Names, reset_user(n) PROVE SameUsers /\ SameCounts
        <4>1. CASE get_user__index(n) = 0
          BY <3>1, <3>2, <4>1 DEF reset_user
        <4>2. CASE get_user__index(n) # 0
          BY <3>2, <4>2, GetUser, FlagChanged DEF reset_user, RowsInv
        <4> QED BY <4>1, <4>2
      <3> QED BY <1>2, <3>1, <3>2 DEF A_BadLogin
    <2> QED BY <1>2, <2>1, QuietKeepsCounts DEF A_BadLogin
  <1>3. CASE B_Logout
    <2>1. SameUsers /\ SameCounts
      BY <1>3, OwnPosition, FlagChanged DEF RowsInv, B_Logout
    <2> QED BY <1>3, <2>1, QuietKeepsCounts DEF B_Logout
  <1> QED BY <1>1, <1>2, <1>3, CreateUserCounts, CreateMessageCounts,
             SendMessageCounts, DeleteDraftCounts DEF DraftsNext

(* The inductive invariant of the draft service, the counters with it.     *)
THEOREM Invariance == DraftsSpec => []IInv
  <1>1. DraftsInit => IInv
    <2>1. DraftsInit => CountsOK
      BY DEF DraftsInit, CountsOK, Valid, Blank
    <2> QED BY <2>1, InitHolds DEF IInv
  <1>2. IInv /\ [DraftsNext]_draftsVars => IInv'
    BY StepKeeps, CountsStep DEF IInv
  <1> QED BY <1>1, <1>2, PTL DEF DraftsSpec
-----------------------------------------------------------------------------
(* The three ways to count.                                                *)

LEMMA OneRow ==
  ASSUME RowsInv, NEW i \in DOMAIN listOfUsers
  PROVE  LET n == listOfUsers[i].name
         IN  /\ get_draft_count(n) = Cardinality(list_drafts(i))
             /\ get_inbox_count(n) = Cardinality(list_inbox(i))
  <1> DEFINE n == listOfUsers[i].name
  <1> USE DEF RowsInv
  <1>1. i \in Rows /\ n # Empty
    BY InputAssumption DEF DraftsTypeOK, Rows, NamesOK
  <1>2. get_user__index(n) = i
    <2>1. i \in AccountsNamed(n)
      BY DEF AccountsNamed
    <2> QED BY <2>1, GetUser
  <1>3. ASSUME NEW s \in Slots
        PROVE  LET m == listOfMessages[<<i, s>>]
               IN  m.from = n \/ m.to = n => m.match
    <2>1. <<i, s>> \in Places
      BY <1>1 DEF Places
    <2> QED BY <1>1, <2>1 DEF SlotsOK, Valid
  <1>4. /\ {s \in Slots : LET m == listOfMessages[<<get_user__index(n), s>>]
                          IN  m.from = n /\ m.is_draft} = list_drafts(i)
        /\ {s \in Slots : LET m == listOfMessages[<<get_user__index(n), s>>]
                          IN  m.to = n /\ ~m.is_draft} = list_inbox(i)
    BY <1>2, <1>3 DEF list_drafts, list_inbox
  <1> QED BY <1>4 DEF get_draft_count, get_inbox_count

(* A list of users, added up in the order the sum chooses, is the sum of   *)
(* what they wrote.                                                        *)
Users == DOMAIN listOfUsers
Chosen(s) == CHOOSE i \in s : TRUE
CountedOf(i) == Max({0, listOfUsers[i].msg_count})
IsSum(f) ==
  f = [s \in SUBSET Users |->
         IF s = {} THEN 0 ELSE CountedOf(Chosen(s)) + f[s \ {Chosen(s)}]]
ByAny(s) == {p \in Places : Valid(p) /\ \E i \in s : listOfMessages[p].from = listOfUsers[i].name}
Written == [s \in SUBSET Users |-> Cardinality(ByAny(s))]

LEMMA TotalIsASum == get_total_count = (CHOOSE f : IsSum(f))[Users]
  BY DEF get_total_count, MapThenSumSet, MapThenFoldSet, IsSum, CountedOf, Chosen, Users

LEMMA MaxOfZero ==
  ASSUME NEW n \in Nat
  PROVE  Max({0, n}) = n
  BY DEF Max

LEMMA ByAnyIsFinite ==
  ASSUME NEW s
  PROVE  IsFiniteSet(ByAny(s)) /\ Cardinality(ByAny(s)) \in Nat
  <1>1. ByAny(s) \in SUBSET Places
    BY DEF ByAny
  <1> QED BY <1>1, PlacesAreFinite, FS_Subset, FS_CardinalityType

LEMMA WrittenStep ==
  ASSUME IInv, NEW s \in SUBSET Users, s # {}
  PROVE  /\ Chosen(s) \in s
         /\ CountedOf(Chosen(s)) \in Nat
         /\ Written[s] = CountedOf(Chosen(s)) + Written[s \ {Chosen(s)}]
  <1> DEFINE c == Chosen(s)
             n == listOfUsers[c].name
             r == s \ {c}
  <1>1. c \in s /\ c \in DOMAIN listOfUsers
    BY DEF Chosen, Users
  <1>2. listOfUsers[c].msg_count = Cardinality(By(n))
    BY <1>1 DEF IInv, CountsOK
  <1> HIDE DEF c
  <1>3. CountedOf(c) = Cardinality(By(n)) /\ CountedOf(c) \in Nat
    BY <1>2, ByIsFinite, MaxOfZero DEF CountedOf
  <1>4. ByAny(s) = By(n) \cup ByAny(r)
    BY <1>1 DEF ByAny, By
  <1>5. By(n) \cap ByAny(r) = {}
    <2> SUFFICES ASSUME NEW i \in r, listOfUsers[i].name = n PROVE FALSE
      BY DEF ByAny, By
    <2>1. i \in DOMAIN listOfUsers /\ i # c
      BY DEF Users
    <2> QED BY <1>1, <2>1 DEF IInv, RowsInv, NamesOK
  <1>6. Cardinality(By(n) \cup ByAny(r)) = Cardinality(By(n)) + Cardinality(ByAny(r)) - Cardinality({})
    BY <1>5, ByIsFinite, ByAnyIsFinite, FS_Union
  <1>7. Cardinality(ByAny(s)) = Cardinality(By(n)) + Cardinality(ByAny(r))
    BY <1>4, <1>6, FS_EmptySet, ByIsFinite, ByAnyIsFinite
  <1>8. r \in SUBSET Users
    OBVIOUS
  <1> QED BY <1>1, <1>3, <1>7, <1>8 DEF Written, c

LEMMA WrittenIsASum ==
  ASSUME IInv
  PROVE  IsSum(Written)
  <1>1. Written[{}] = 0
    <2>1. ByAny({}) = {}
      BY DEF ByAny
    <2> QED BY <2>1, FS_EmptySet DEF Written
  <1>2. ASSUME NEW s \in SUBSET Users
        PROVE  Written[s] = IF s = {} THEN 0
                            ELSE CountedOf(Chosen(s)) + Written[s \ {Chosen(s)}]
    BY <1>1, WrittenStep
  <1>3. Written = [s \in SUBSET Users |-> Written[s]]
    BY DEF Written
  <1> QED BY <1>2, <1>3 DEF IsSum

(* There is one sum: take a smallest set on which another differs.         *)
LEMMA OneSum ==
  ASSUME IInv, NEW f, IsSum(f)
  PROVE  f[Users] = Written[Users]
  <1>1. IsFiniteSet(Users) /\ Users \in SUBSET Users
    <2>1. Users = 1 .. Len(listOfUsers) /\ Len(listOfUsers) \in Int /\ 1 \in Int
      BY DEF Users, IInv, RowsInv, DraftsTypeOK
    <2> QED BY <2>1, FS_Interval
  <1> DEFINE Bad == {s \in SUBSET Users : f[s] # Written[s]}
  <1> SUFFICES ASSUME Bad # {} PROVE FALSE
    BY <1>1
  <1>2. Bad \in SUBSET FiniteSubsetsOf(Users)
    BY <1>1, FS_Subset DEF FiniteSubsetsOf
  <1>3. IsWellFoundedOn(StrictSubsetOrdering(Users), FiniteSubsetsOf(Users))
    BY FS_StrictSubsetOrderingWellFounded
  <1>4. PICK s \in Bad : \A t \in Bad : <<t, s>> \notin StrictSubsetOrdering(Users)
    BY <1>2, <1>3, WFMin
  <1>5. s \in SUBSET Users /\ f[s] # Written[s]
    OBVIOUS
  <1>6. f[s] = IF s = {} THEN 0 ELSE CountedOf(Chosen(s)) + f[s \ {Chosen(s)}]
    BY <1>5 DEF IsSum
  <1>7. Written[s] = IF s = {} THEN 0 ELSE CountedOf(Chosen(s)) + Written[s \ {Chosen(s)}]
    BY <1>5, WrittenIsASum DEF IsSum
  <1>8. s # {} /\ f[s \ {Chosen(s)}] # Written[s \ {Chosen(s)}]
    BY <1>5, <1>6, <1>7
  <1>9. Chosen(s) \in s
    BY <1>8 DEF Chosen
  <1> DEFINE t == s \ {Chosen(s)}
  <1>10. t \in Bad /\ t \subseteq s /\ t # s
    BY <1>5, <1>8, <1>9
  <1>11. <<t, s>> \in StrictSubsetOrdering(Users)
    BY <1>5, <1>10 DEF StrictSubsetOrdering
  <1> QED BY <1>4, <1>10, <1>11

(* The counts in the menu are those of what the lists show, for any number *)
(* of users and slots and whatever was written, sent and deleted before    *)
(* (print_B, get_draft_count, get_inbox_count, get_total_count).           *)
THEOREM CountsStayRight == DraftsSpec => []CountsAreRight
  <1>1. ASSUME IInv PROVE CountsAreRight
    <2> USE <1>1
    <2>1. ASSUME NEW i \in DOMAIN listOfUsers
          PROVE  LET u == listOfUsers[i] IN
                 /\ u.msg_count = Cardinality(By(u.name))
                 /\ get_draft_count(u.name) = Cardinality(list_drafts(i))
                 /\ get_inbox_count(u.name) = Cardinality(list_inbox(i))
      BY OneRow DEF IInv, CountsOK
    <2>2. get_total_count = Written[Users]
      <3>1. IsSum(CHOOSE f : IsSum(f))
        BY WrittenIsASum
      <3> QED BY <3>1, OneSum, TotalIsASum
    <2>3. list_all_messages = {p \in Places : Valid(p)}
      <3>1. ASSUME NEW p \in Places
            PROVE  Valid(p) <=> p[1] \in DOMAIN listOfUsers /\ listOfMessages[p].to # Empty
        <4>1. SlotOK(listOfMessages[p], p[1])
          BY SlotBySlot DEF IInv, RowsInv
        <4>2. CASE Valid(p)
          <5>1. listOfMessages[p].to \in UserNames /\ AccountsNamed(Owner(listOfMessages[p])) = {p[1]}
            BY <4>1, <4>2 DEF SlotOK, Valid
          <5> QED BY <4>2, <5>1 DEF UserNames, AccountsNamed, IInv, RowsInv, NamesOK
        <4>3. CASE ~Valid(p)
          BY <4>1, <4>3 DEF SlotOK, Valid
        <4> QED BY <4>2, <4>3
      <3> QED BY <3>1 DEF list_all_messages
    <2>4. ByAny(Users) = {p \in Places : Valid(p)}
      <3>1. ASSUME NEW p \in Places, Valid(p)
            PROVE  \E i \in Users : listOfMessages[p].from = listOfUsers[i].name
        <4>1. listOfMessages[p].from \in UserNames
          BY <3>1, SlotBySlot DEF IInv, RowsInv, SlotOK, Valid
        <4> QED BY <4>1 DEF UserNames, Users
      <3> QED BY <3>1 DEF ByAny
    <2>5. get_total_count = Cardinality(list_all_messages)
      BY <2>2, <2>3, <2>4 DEF Written
    <2>6. get_total_count # 0 => printer
      <3>1. ASSUME ~printer PROVE Cardinality(list_all_messages) = 0
        <4>1. list_all_messages = {}
          BY <2>3, <3>1 DEF IInv, CountsOK
        <4> QED BY <4>1, FS_EmptySet
      <3> QED BY <2>5, <3>1
    <2> QED BY <2>1, <2>5, <2>6 DEF CountsAreRight
  <1> QED BY <1>1, Invariance, PTL
=============================================================================
