------------------------ MODULE MessageServiceProofs -------------------------
(***************************************************************************)
(* Proofs about MessageService, for any names, texts and bounds.           *)
(***************************************************************************)
EXTENDS MessageService, SequenceTheorems, FiniteSetTheorems, TLAPS

-----------------------------------------------------------------------------
(* One user: the messages ascend, and those unread fit the buffer.         *)

UserOK(u) == u \in User /\ Ascending(u) /\ Unread(u) <= Wrap

LEMMA LeastOfOne ==
  ASSUME NEW x \in Nat
  PROVE  Least({x}) = x
  BY DEF Least

(* Ascending numbers differ, so a walk finds one message or none.          *)
LEMMA OnlyHit ==
  ASSUME NEW u \in User, Ascending(u), NEW id, NEW i \in Hits(u, id)
  PROVE  /\ Hits(u, id) = {i}
         /\ Least(Hits(u, id)) = i
         /\ i \in 1 .. Len(u.root)
<1>1. u.root \in Seq(Message)
  BY DEF User
<1>2. i \in 1 .. Len(u.root) /\ i \in Nat
  BY <1>1 DEF Hits
<1>3. \A j \in DOMAIN u.root : u.root[j].id \in Int
  <2>1. \A j \in 1 .. Len(u.root) : u.root[j] \in Message
    BY <1>1, ElementOfSeq
  <2> QED
    BY <1>1, <2>1 DEF Message
<1>4. \A j \in Hits(u, id) : j = i
  <2> SUFFICES ASSUME NEW j \in Hits(u, id), j # i PROVE FALSE
    OBVIOUS
  <2>1. j \in DOMAIN u.root /\ i \in DOMAIN u.root /\ u.root[j].id = u.root[i].id
    BY DEF Hits
  <2>2. j \in Nat /\ (j < i \/ i < j)
    BY <1>1, <1>2, <2>1
  <2> QED
    BY <1>3, <2>1, <2>2 DEF Ascending
<1>5. Hits(u, id) = {i}
  BY <1>4
<1> QED
  BY <1>2, <1>5, LeastOfOne

(* Every message is found by its number.                                   *)
LEMMA FoundByItsNumber ==
  ASSUME NEW u \in User, Ascending(u), NEW i \in DOMAIN u.root
  PROVE  i \in Hits(u, u.root[i].id)
<1>1. u.root[i].id \in 1 .. u.count /\ u.count \in Nat
  BY DEF Ascending, User
<1> QED
  BY <1>1 DEF Hits

(* The sequence without its i-th element.                                  *)
LEMMA RemovedAt ==
  ASSUME NEW S, NEW s \in Seq(S), NEW i \in 1 .. Len(s)
  PROVE  /\ RemoveAt(s, i) \in Seq(S)
         /\ Len(RemoveAt(s, i)) = Len(s) - 1
         /\ \A j \in 1 .. (Len(s) - 1) :
              RemoveAt(s, i)[j] = s[IF j < i THEN j ELSE j + 1]
<1> DEFINE a == SubSeq(s, 1, i - 1)
           b == SubSeq(s, i + 1, Len(s))
<1>1. \A j \in 1 .. Len(s) : s[j] \in S
  BY ElementOfSeq
<1>2. /\ a \in Seq(S) /\ Len(a) = i - 1
      /\ \A j \in 1 .. (i - 1) : a[j] = s[j]
  <2>1. \A j \in 1 .. (i - 1) : s[j] \in S
    BY <1>1
  <2>2. /\ SubSeq(s, 1, i - 1) \in Seq(S)
        /\ Len(SubSeq(s, 1, i - 1)) = IF 1 <= i - 1 THEN i - 1 - 1 + 1 ELSE 0
        /\ \A j \in 1 .. i - 1 - 1 + 1 : SubSeq(s, 1, i - 1)[j] = s[1 + j - 1]
    BY <2>1, SubSeqProperties
  <2> QED
    BY <2>2
<1>3. /\ b \in Seq(S) /\ Len(b) = Len(s) - i
      /\ \A j \in 1 .. (Len(s) - i) : b[j] = s[i + j]
  <2>1. \A j \in (i + 1) .. Len(s) : s[j] \in S
    BY <1>1
  <2>2. /\ SubSeq(s, i + 1, Len(s)) \in Seq(S)
        /\ Len(SubSeq(s, i + 1, Len(s))) =
             IF i + 1 <= Len(s) THEN Len(s) - (i + 1) + 1 ELSE 0
        /\ \A j \in 1 .. Len(s) - (i + 1) + 1 :
             SubSeq(s, i + 1, Len(s))[j] = s[i + 1 + j - 1]
    BY <2>1, SubSeqProperties
  <2> QED
    BY <2>2
<1>4. /\ a \o b \in Seq(S) /\ Len(a \o b) = Len(a) + Len(b)
      /\ \A j \in 1 .. Len(a) + Len(b) :
           (a \o b)[j] = IF j <= Len(a) THEN a[j] ELSE b[j - Len(a)]
  BY <1>2, <1>3, ConcatProperties
<1>5. RemoveAt(s, i) = a \o b
  BY DEF RemoveAt
<1> HIDE DEF a, b
<1>6. ASSUME NEW j \in 1 .. (Len(s) - 1)
      PROVE  (a \o b)[j] = s[IF j < i THEN j ELSE j + 1]
  <2>1. CASE j < i
    BY <1>2, <1>3, <1>4, <2>1
  <2>2. CASE ~(j < i)
    <3>1. (a \o b)[j] = b[j - (i - 1)] /\ j - (i - 1) \in 1 .. (Len(s) - i)
      BY <1>2, <1>3, <1>4, <2>2
    <3>2. b[j - (i - 1)] = s[i + (j - (i - 1))] /\ i + (j - (i - 1)) = j + 1
      BY <1>3, <3>1
    <3> QED
      BY <2>2, <3>1, <3>2
  <2> QED
    BY <2>1, <2>2
<1>7. Len(a) + Len(b) = Len(s) - 1
  BY <1>2, <1>3
<1> QED
  BY <1>4, <1>5, <1>6, <1>7

(* Positions of a sequence are a finite set.                               *)
LEMMA NotReadIsFinite ==
  ASSUME NEW s \in Seq(Message)
  PROVE  /\ IsFiniteSet(NotRead(s)) /\ Cardinality(NotRead(s)) \in Nat
         /\ NotRead(s) \subseteq 1 .. Len(s)
<1>1. IsFiniteSet(1 .. Len(s))
  BY FS_Interval, Len(s) \in Int
<1>2. NotRead(s) \in SUBSET (1 .. Len(s))
  BY DEF NotRead
<1> QED
  BY <1>1, <1>2, FS_Subset, FS_CardinalityType

(* A user whose messages only got read.                                    *)
LEMMA OnlyRead ==
  ASSUME NEW u, UserOK(u), NEW v \in User,
         v.name = u.name, v.count = u.count, Len(v.root) = Len(u.root),
         \A i \in 1 .. Len(u.root) :
           v.root[i].id = u.root[i].id /\ (u.root[i].read => v.root[i].read)
  PROVE  UserOK(v)
<1>1. u.root \in Seq(Message) /\ v.root \in Seq(Message) /\ u \in User
  BY DEF User, UserOK
<1>2. DOMAIN u.root = 1 .. Len(u.root) /\ DOMAIN v.root = 1 .. Len(u.root)
  BY <1>1
<1>3. Ascending(v)
  BY <1>2 DEF Ascending, UserOK
<1>4. NotRead(v.root) \in SUBSET NotRead(u.root)
  BY <1>2 DEF NotRead
<1>5. Unread(v) <= Unread(u)
  BY <1>1, <1>4, NotReadIsFinite, FS_Subset DEF Unread
<1>6. Unread(u) <= Wrap /\ Unread(u) \in Nat /\ Unread(v) \in Nat /\ Wrap \in Nat
  BY <1>1, NotReadIsFinite, ServiceAssumption DEF UserOK, Unread
<1> QED
  BY <1>3, <1>5, <1>6 DEF UserOK

LEMMA MarkKeeps ==
  ASSUME NEW u, UserOK(u), NEW S
  PROVE  /\ UserOK([u EXCEPT !.root = MarkRead(@, S)])
         /\ [u EXCEPT !.root = MarkRead(@, S)].name = u.name
<1> DEFINE root == MarkRead(u.root, S)
           v == [u EXCEPT !.root = root]
<1>1. u \in User /\ u.root \in Seq(Message)
  BY DEF User, UserOK
<1>2. \A i \in 1 .. Len(u.root) : u.root[i] \in Message
  BY <1>1, ElementOfSeq
<1>3. root = [i \in 1 .. Len(u.root) |->
                IF i \in S THEN [u.root[i] EXCEPT !.read = TRUE] ELSE u.root[i]]
  BY <1>1 DEF MarkRead
<1>4. \A i \in 1 .. Len(u.root) :
        /\ root[i] \in Message
        /\ root[i].id = u.root[i].id
        /\ u.root[i].read => root[i].read
  <2>1. ASSUME NEW m \in Message
        PROVE  /\ [m EXCEPT !.read = TRUE] \in Message
               /\ [m EXCEPT !.read = TRUE].id = m.id
               /\ [m EXCEPT !.read = TRUE].read
    BY DEF Message
  <2>2. ASSUME NEW i \in 1 .. Len(u.root)
        PROVE  root[i] = IF i \in S THEN [u.root[i] EXCEPT !.read = TRUE] ELSE u.root[i]
    BY <1>3
  <2> HIDE DEF root
  <2> QED
    BY <1>2, <2>1, <2>2
<1> HIDE DEF root
<1>5. Len(u.root) \in Nat
  BY <1>1
<1>6. root \in Seq(Message) /\ Len(root) = Len(u.root)
  <2>1. root \in [1 .. Len(u.root) -> Message]
    BY <1>3, <1>4
  <2>2. root \in Seq(Message)
    BY <1>5, <2>1, SeqDef
  <2> QED
    BY <1>5, <2>1, <2>2, LenProperties
<1>7. v \in User /\ v.name = u.name /\ v.count = u.count /\ v.root = root
  BY <1>1, <1>6 DEF User
<1>8. UserOK(v)
  <2> HIDE DEF v
  <2> QED
    BY <1>4, <1>6, <1>7, OnlyRead
<1> QED
  BY <1>7, <1>8 DEF root

LEMMA ReadKeeps ==
  ASSUME NEW u, UserOK(u), NEW ids
  PROVE  UserOK(read_messages(u, ids)) /\ read_messages(u, ids).name = u.name
  BY MarkKeeps DEF read_messages

(* Listed, every message is read; else those unread are none, or Wrap.     *)
LEMMA ListUnreadKeeps ==
  ASSUME NEW u, UserOK(u)
  PROVE  /\ UserOK(list_unread_messages(u)) /\ list_unread_messages(u).name = u.name
         /\ Unread(list_unread_messages(u)) \in {0, Wrap}
<1>1. u \in User /\ u.root \in Seq(Message) /\ Unread(u) \in Nat /\ Unread(u) <= Wrap
  BY NotReadIsFinite DEF User, UserOK, Unread
<1>2. CASE Listed(u)
  <2> DEFINE root == MarkRead(u.root, NotRead(u.root))
  <2>1. \A i \in DOMAIN u.root : u.root[i] \in Message
    BY <1>1, ElementOfSeq
  <2>2. NotRead(root) = {}
    BY <2>1 DEF NotRead, MarkRead, Message
  <2>3. list_unread_messages(u) = [u EXCEPT !.root = MarkRead(@, NotRead(@))]
    BY <1>2 DEF list_unread_messages
  <2>4. list_unread_messages(u).root = root
    BY <1>1, <2>3 DEF User
  <2>5. Unread(list_unread_messages(u)) = 0
    BY <2>2, <2>4, FS_EmptySet DEF Unread
  <2> QED
    BY <2>3, <2>5, MarkKeeps
<1>3. CASE ~Listed(u)
  <2>1. Unread(u) % Wrap = 0
    BY <1>3 DEF Listed
  <2>2. Unread(u) \in {0, Wrap}
    BY <1>1, <2>1, ServiceAssumption
  <2> QED
    BY <1>3, <2>2 DEF list_unread_messages
<1> QED
  BY <1>2, <1>3

LEMMA OneMore ==
  ASSUME NEW S, IsFiniteSet(S), NEW x
  PROVE  IsFiniteSet(S \cup {x}) /\ Cardinality(S \cup {x}) <= Cardinality(S) + 1
<1>1. Cardinality(S) \in Nat
  BY FS_CardinalityType
<1>2. /\ IsFiniteSet(S \cup {x})
      /\ Cardinality(S \cup {x}) = IF x \in S THEN Cardinality(S) ELSE Cardinality(S) + 1
  BY FS_AddElement
<1> QED
  BY <1>1, <1>2

(* Looking each message up by its number displays each of them.            *)
LEMMA DisplayAll ==
  ASSUME NEW u, UserOK(u)
  PROVE  /\ display_all(u) = TextsOf(u.root)
         /\ display_all(u) \in Seq(Texts \cup {NotFound})
<1>1. u \in User /\ u.root \in Seq(Message) /\ Ascending(u)
  BY DEF User, UserOK
<1>2. ASSUME NEW i \in DOMAIN u.root
      PROVE  display(u, u.root[i].id) = u.root[i].text /\ u.root[i].text \in Texts
  <2>1. i \in Hits(u, u.root[i].id)
    BY <1>1, FoundByItsNumber
  <2>2. Least(Hits(u, u.root[i].id)) = i /\ Hits(u, u.root[i].id) # {}
    BY <1>1, <2>1, OnlyHit
  <2>3. u.root[i] \in Message
    BY <1>1, ElementOfSeq
  <2> QED
    BY <2>2, <2>3 DEF display, Message
<1>3. display_all(u) = TextsOf(u.root)
  BY <1>2 DEF display_all, TextsOf
<1>4. TextsOf(u.root) \in [1 .. Len(u.root) -> Texts \cup {NotFound}] /\ Len(u.root) \in Nat
  BY <1>1, <1>2 DEF TextsOf
<1> QED
  BY <1>3, <1>4, SeqDef

(* The next number is above all there are.                                 *)
LEMMA AddKeeps ==
  ASSUME NEW u, UserOK(u), Unread(u) < Wrap, NEW t \in Texts
  PROVE  UserOK(add_message(u, create_message(t))) /\ add_message(u, create_message(t)).name = u.name
<1> DEFINE m == [create_message(t) EXCEPT !.id = u.count + 1]
           root == Append(u.root, m)
           v == add_message(u, create_message(t))
           n == Len(u.root)
<1>1. u \in User /\ u.root \in Seq(Message) /\ u.count \in Nat /\ n \in Nat
  BY DEF User, UserOK
<1>2. m \in Message /\ m.id = u.count + 1
  <2>1. u.count + 1 \in Nat
    BY <1>1
  <2> QED
    BY <2>1 DEF Message, create_message
<1>3. /\ root \in Seq(Message) /\ Len(root) = n + 1
      /\ \A i \in 1 .. n : root[i] = u.root[i]
      /\ root[n + 1] = m
  BY <1>1, <1>2, AppendProperties
<1>4. v = [u EXCEPT !.root = root, !.count = u.count + 1]
  BY DEF add_message
<1> HIDE DEF m, root, v
<1>5. v \in User /\ v.name = u.name /\ v.root = root /\ v.count = u.count + 1
  <2>1. u.count + 1 \in Nat
    BY <1>1
  <2> QED
    BY <1>1, <1>3, <1>4, <2>1 DEF User
<1>6. DOMAIN u.root = 1 .. n /\ DOMAIN root = 1 .. (n + 1)
  BY <1>1, <1>3
<1>7. \A i \in 1 .. n : u.root[i].id \in 1 .. u.count
  BY <1>6 DEF Ascending, UserOK
<1>8. Ascending(v)
  <2>1. ASSUME NEW i \in 1 .. (n + 1), NEW j \in 1 .. (n + 1), i < j
        PROVE  root[i].id < root[j].id
    <3>1. i \in 1 .. n
      BY <1>1, <2>1
    <3>2. CASE j \in 1 .. n
      BY <1>3, <1>6, <2>1, <3>1, <3>2 DEF Ascending, UserOK
    <3>3. CASE j = n + 1
      BY <1>1, <1>2, <1>3, <1>7, <3>1, <3>3, SMTT(30)
    <3> QED
      BY <1>1, <3>2, <3>3
  <2>2. ASSUME NEW i \in 1 .. (n + 1)
        PROVE  root[i].id \in 1 .. (u.count + 1)
    <3>1. CASE i \in 1 .. n
      BY <1>1, <1>3, <1>7, <3>1
    <3>2. CASE i = n + 1
      BY <1>1, <1>2, <1>3, <3>2
    <3> QED
      BY <1>1, <3>1, <3>2
  <2> QED
    BY <1>5, <1>6, <2>1, <2>2 DEF Ascending
<1>9. Unread(v) <= Wrap
  <2>1. NotRead(root) \in SUBSET (NotRead(u.root) \cup {n + 1})
    <3> SUFFICES ASSUME NEW i \in NotRead(root), i # n + 1 PROVE i \in NotRead(u.root)
      OBVIOUS
    <3>1. i \in 1 .. n
      BY <1>1, <1>6 DEF NotRead
    <3> QED
      BY <1>3, <1>6, <3>1 DEF NotRead
  <2>2. /\ IsFiniteSet(NotRead(u.root)) /\ Cardinality(NotRead(u.root)) \in Nat
        /\ IsFiniteSet(NotRead(root)) /\ Cardinality(NotRead(root)) \in Nat
    BY <1>1, <1>3, NotReadIsFinite
  <2>3. /\ IsFiniteSet(NotRead(u.root) \cup {n + 1})
        /\ Cardinality(NotRead(u.root) \cup {n + 1}) <= Cardinality(NotRead(u.root)) + 1
    BY <2>2, OneMore
  <2>4. Cardinality(NotRead(root)) <= Cardinality(NotRead(u.root) \cup {n + 1})
    BY <2>1, <2>3, FS_Subset
  <2>5. Cardinality(NotRead(u.root) \cup {n + 1}) \in Nat
    BY <2>3, FS_CardinalityType
  <2> QED
    BY <1>5, <2>2, <2>3, <2>4, <2>5, ServiceAssumption DEF Unread
<1> QED
  BY <1>5, <1>8, <1>9 DEF UserOK, v

(* What follows a deleted message moves up, numbers and all.               *)
LEMMA DeleteKeeps ==
  ASSUME NEW u, UserOK(u), NEW id
  PROVE  UserOK(delete_message(u, id)) /\ delete_message(u, id).name = u.name
<1>1. u \in User /\ u.root \in Seq(Message) /\ Ascending(u)
  BY DEF User, UserOK
<1>2. CASE Hits(u, id) = {}
  BY <1>2 DEF delete_message
<1>3. ASSUME NEW k \in Hits(u, id)
      PROVE  UserOK(delete_message(u, id)) /\ delete_message(u, id).name = u.name
  <2> DEFINE root == RemoveAt(u.root, k)
             v == delete_message(u, id)
             n == Len(u.root)
             from(j) == IF j < k THEN j ELSE j + 1
  <2>1. k = Least(Hits(u, id)) /\ k \in 1 .. n /\ n \in Nat
    BY <1>1, <1>3, OnlyHit
  <2>2. /\ root \in Seq(Message) /\ Len(root) = n - 1
        /\ \A j \in 1 .. (n - 1) : root[j] = u.root[from(j)]
    BY <1>1, <2>1, RemovedAt
  <2>3. v = [u EXCEPT !.root = root]
    BY <1>3, <2>1 DEF delete_message
  <2> HIDE DEF root, v
  <2>4. v \in User /\ v.name = u.name /\ v.root = root /\ v.count = u.count
    BY <1>1, <2>2, <2>3 DEF User
  <2>5. DOMAIN u.root = 1 .. n /\ DOMAIN root = 1 .. (n - 1)
    BY <1>1, <2>1, <2>2
  <2>6. \A j \in 1 .. (n - 1) : from(j) \in 1 .. n
    BY <2>1
  <2>7. \A i, j \in 1 .. (n - 1) : i < j => from(i) < from(j)
    BY <2>1
  <2>8. Ascending(v)
    <3> HIDE DEF from
    <3>1. ASSUME NEW i \in 1 .. (n - 1), NEW j \in 1 .. (n - 1), i < j
          PROVE  root[i].id < root[j].id
      <4>1. from(i) < from(j) /\ from(i) \in DOMAIN u.root /\ from(j) \in DOMAIN u.root
        BY <2>5, <2>6, <2>7, <3>1
      <4>2. u.root[from(i)].id < u.root[from(j)].id
        BY <1>1, <4>1 DEF Ascending
      <4> QED
        BY <2>2, <4>2
    <3>2. \A i \in 1 .. (n - 1) : root[i].id \in 1 .. u.count
      BY <1>1, <2>2, <2>5, <2>6 DEF Ascending
    <3> QED
      BY <2>4, <2>5, <3>1, <3>2 DEF Ascending
  <2>9. Unread(v) <= Unread(u)
    <3> DEFINE f == [j \in NotRead(root) |-> from(j)]
    <3>1. \A j \in NotRead(root) : j \in 1 .. (n - 1) /\ from(j) \in NotRead(u.root)
      BY <2>2, <2>5, <2>6 DEF NotRead
    <3>2. f \in [NotRead(root) -> NotRead(u.root)]
      BY <3>1
    <3>3. \A i, j \in NotRead(root) : f[i] = f[j] => i = j
      BY <2>1, <3>1
    <3>4. f \in Injection(NotRead(root), NotRead(u.root))
      BY <3>2, <3>3 DEF Injection, IsInjective
    <3> QED
      BY <1>1, <2>4, <3>4, FS_Injection, NotReadIsFinite DEF Unread
  <2>10. Unread(u) \in Nat /\ Unread(v) \in Nat /\ Unread(u) <= Wrap /\ Wrap \in Nat
    BY <1>1, <2>2, <2>4, NotReadIsFinite, ServiceAssumption DEF Unread, UserOK
  <2> QED
    BY <2>4, <2>8, <2>9, <2>10 DEF UserOK, v
<1> QED
  BY <1>2, <1>3

-----------------------------------------------------------------------------
(* The list of users.                                                      *)

ListOK(all) ==
  /\ all \in Seq(User)
  /\ \A k \in 1 .. Len(all) : UserOK(all[k])
  /\ \A i, j \in 1 .. Len(all) : all[i].name = all[j].name => i = j

LEMMA UpdateKeeps ==
  ASSUME NEW all, ListOK(all), NEW i \in 1 .. Len(all),
         NEW v, UserOK(v), v.name = all[i].name,
         NEW new, new = [all EXCEPT ![i] = v]
  PROVE  ListOK(new)
<1>1. all \in Seq(User) /\ v \in User /\ Len(all) \in Nat
  BY DEF ListOK, UserOK
<1>2. /\ new \in Seq(User) /\ Len(new) = Len(all)
      /\ \A k \in 1 .. Len(all) : new[k] = IF k = i THEN v ELSE all[k]
  BY <1>1
<1>3. \A k \in 1 .. Len(all) : UserOK(new[k]) /\ new[k].name = all[k].name
  BY <1>2 DEF ListOK
<1>4. ListOK(new)
  BY <1>2, <1>3 DEF ListOK
<1> QED
  BY <1>2, <1>4

(* What is left when the user has been served.                             *)
LEMMA PromptKeeps ==
  ASSUME NEW all, ListOK(all), NEW i \in 1 .. Len(all), NEW out, PromptIn(all, i, out)
  PROVE  ListOK(users') /\ Len(users') = Len(all) /\ Unread(users'[i]) \in {0, Wrap}
<1> DEFINE v == list_unread_messages(all[i])
<1>1. UserOK(v) /\ v.name = all[i].name /\ Unread(v) \in {0, Wrap}
  BY ListUnreadKeeps DEF ListOK
<1>2. users' = [all EXCEPT ![i] = v]
  BY DEF PromptIn
<1> HIDE DEF v
<1>3. ListOK([all EXCEPT ![i] = v])
  BY <1>1, UpdateKeeps
<1>4. all \in Seq(User) /\ v \in User
  BY <1>1 DEF ListOK, UserOK
<1>5. Len(users') = Len(all) /\ users'[i] = v
  BY <1>2, <1>4
<1>6. ListOK(users')
  BY <1>2, <1>3
<1> QED
  BY <1>1, <1>5, <1>6

LEMMA GetUser ==
  ASSUME ListOK(users), NEW n
  PROVE  /\ get_user(n) \in 0 .. Len(users)
         /\ get_user(n) # 0 => users[get_user(n)].name = n
<1>1. CASE Named(n) = {}
  <2>1. get_user(n) = 0 /\ Len(users) \in Nat
    BY <1>1 DEF get_user, ListOK
  <2> QED
    BY <2>1
<1>2. ASSUME NEW k \in Named(n)
      PROVE  get_user(n) \in 1 .. Len(users) /\ users[get_user(n)].name = n
  <2>1. k \in 1 .. Len(users) /\ users[k].name = n /\ k \in Nat
    BY DEF Named, ListOK
  <2>2. Named(n) = {k}
    BY <2>1 DEF Named, ListOK
  <2> QED
    BY <2>1, <2>2, LeastOfOne DEF get_user
<1> QED
  BY <1>1, <1>2 DEF ListOK

LEMMA CreateKeeps ==
  ASSUME ListOK(users), NEW n \in Names
  PROVE  ListOK(create_user(n)) /\ Len(create_user(n)) >= Len(users)
<1> DEFINE u == NewUser(n)
           new == <<u>> \o users
<1>1. CASE Named(n) # {}
  BY <1>1 DEF create_user, ListOK
<1>2. CASE Named(n) = {}
  <2>1. users \in Seq(User) /\ Len(users) \in Nat
    BY DEF ListOK
  <2>2. u \in User
    BY EmptySeq DEF User, NewUser
  <2>3. <<u>> \in Seq(User) /\ Len(<<u>>) = 1 /\ <<u>>[1] = u
    BY <2>2
  <2>4. /\ new \in Seq(User) /\ Len(new) = 1 + Len(users)
        /\ \A k \in 1 .. 1 + Len(users) :
             new[k] = IF k <= 1 THEN <<u>>[k] ELSE users[k - 1]
    BY <2>1, <2>3, ConcatProperties
  <2>5. UserOK(u)
    <3>1. DOMAIN u.root = {}
      BY DEF NewUser
    <3>2. Ascending(u) /\ NotRead(u.root) = {}
      BY <3>1 DEF Ascending, NotRead
    <3>3. Unread(u) = 0
      BY <3>2, FS_EmptySet DEF Unread
    <3> HIDE DEF u
    <3> QED
      BY <2>2, <3>2, <3>3, ServiceAssumption DEF UserOK
  <2>6. u.name = n
    BY DEF NewUser
  <2>7. create_user(n) = new
    BY <1>2 DEF create_user
  <2> HIDE DEF u, new
  <2>8. \A k \in 1 .. 1 + Len(users) :
          new[k] = IF k = 1 THEN u ELSE users[k - 1]
    BY <2>1, <2>3, <2>4
  <2>9. \A k \in 1 .. Len(users) : users[k].name # n
    BY <1>2, <2>1 DEF Named
  <2>10. \A k \in 1 .. 1 + Len(users) : UserOK(new[k])
    BY <2>1, <2>5, <2>8 DEF ListOK
  <2>11. ASSUME NEW i \in 1 .. 1 + Len(users), NEW j \in 1 .. 1 + Len(users),
                new[i].name = new[j].name
         PROVE  i = j
    <3>1. CASE i = 1 /\ j # 1
      BY <2>1, <2>6, <2>8, <2>9, <2>11, <3>1
    <3>2. CASE i # 1 /\ j = 1
      BY <2>1, <2>6, <2>8, <2>9, <2>11, <3>2
    <3>3. CASE i # 1 /\ j # 1
      <4>1. i - 1 \in 1 .. Len(users) /\ j - 1 \in 1 .. Len(users)
        BY <2>1, <3>3
      <4>2. users[i - 1].name = users[j - 1].name
        BY <2>8, <2>11, <3>3
      <4>3. i - 1 = j - 1
        BY <4>1, <4>2 DEF ListOK
      <4> QED
        BY <4>1, <4>3
    <3> QED
      BY <3>1, <3>2, <3>3
  <2> QED
    BY <2>1, <2>4, <2>7, <2>10, <2>11 DEF ListOK
<1> QED
  BY <1>1, <1>2

LEMMA SendKeeps ==
  ASSUME ListOK(users), NEW n \in Names, NEW t \in Texts,
         get_user(n) # 0 => MayReceive(get_user(n))
  PROVE  ListOK(send_user_message(n, t)) /\ Len(send_user_message(n, t)) = Len(users)
<1>1. CASE get_user(n) = 0
  BY <1>1 DEF send_user_message
<1>2. CASE get_user(n) # 0
  <2> DEFINE k == get_user(n)
             v == add_message(users[k], create_message(t))
  <2>1. k \in 1 .. Len(users) /\ UserOK(users[k]) /\ Unread(users[k]) < Wrap
    BY <1>2, GetUser DEF ListOK, MayReceive
  <2>2. UserOK(v) /\ v.name = users[k].name
    BY <2>1, AddKeeps
  <2>3. send_user_message(n, t) = [users EXCEPT ![k] = v]
    BY <1>2 DEF send_user_message
  <2> HIDE DEF k, v
  <2> QED
    <3>1. ListOK([users EXCEPT ![k] = v])
      BY <2>1, <2>2, UpdateKeeps
    <3>2. Len([users EXCEPT ![k] = v]) = Len(users)
      BY <2>1 DEF ListOK
    <3> QED
      BY <2>3, <3>1, <3>2
<1> QED
  BY <1>1, <1>2

-----------------------------------------------------------------------------
(* The service.                                                            *)

IInv ==
  /\ ListOK(users)
  /\ current \in 0 .. Len(users)
  /\ running \in BOOLEAN /\ left \in BOOLEAN
  /\ shown \in Seq(Texts \cup {NotFound})
  /\ PromptShowsAll

LEMMA IInvInit == Init => IInv
<1> SUFFICES ASSUME Init PROVE IInv
  OBVIOUS
<1>1. users = << >> /\ Len(users) = 0 /\ users \in Seq(User) /\ shown \in Seq(Texts \cup {NotFound})
  BY EmptySeq DEF Init
<1>2. ListOK(users)
  BY <1>1 DEF ListOK
<1>3. current = 0 /\ current \in 0 .. Len(users)
  BY <1>1 DEF Init
<1> QED
  BY <1>1, <1>2, <1>3 DEF Init, IInv, PromptShowsAll

(* What a prompt for the one logged in gives.                              *)
LEMMA Served ==
  ASSUME IInv, NEW all, ListOK(all), Len(all) = Len(users),
         NEW i \in 1 .. Len(users), NEW out \in Seq(Texts \cup {NotFound}),
         PromptIn(all, i, out), current' = i, running' = running, left' \in BOOLEAN
  PROVE  IInv'
<1>1. ListOK(users') /\ Len(users') = Len(users) /\ Unread(users'[i]) \in {0, Wrap}
  BY PromptKeeps
<1>2. shown' = out
  BY DEF PromptIn
<1>3. current' \in 0 .. Len(users')
  BY <1>1 DEF IInv, ListOK
<1> QED
  BY <1>1, <1>2, <1>3 DEF IInv, PromptShowsAll, ListOK, UserOK, Ascending, Unread, NotRead

LEMMA LeftIs ==
  ASSUME NEW line, NEW Full, receive_until(line, Full)
  PROVE  left' \in BOOLEAN
<1>1. FALSE \in BOOLEAN /\ (line \in Full) \in BOOLEAN
  OBVIOUS
<1> QED
  BY <1>1 DEF receive_until

LEMMA IInvStep == IInv /\ [Next]_vars => IInv'
<1> SUFFICES ASSUME IInv, [Next]_vars PROVE IInv'
  OBVIOUS
<1> USE DEF IInv
<1>0. Len(users) \in Nat /\ << >> \in Seq(Texts \cup {NotFound})
  BY EmptySeq DEF ListOK
<1>c. current # 0 => current \in 1 .. Len(users) /\ UserOK(users[current])
  BY <1>0 DEF ListOK
<1>1. CASE CreateUser
  <2>1. PICK n \in Names : users' = create_user(n) /\ left' \in BOOLEAN
    BY <1>1, LeftIs DEF CreateUser
  <2>2. ListOK(users') /\ Len(users') >= Len(users)
    BY <2>1, CreateKeeps
  <2>3. current' = 0 /\ running' = running /\ shown' = << >>
    BY <1>1 DEF CreateUser, AtMenu
  <2>4. Len(users') \in Nat
    BY <2>2 DEF ListOK
  <2> QED
    BY <1>0, <2>1, <2>2, <2>3, <2>4 DEF PromptShowsAll
<1>2. CASE Login
  <2>1. PICK n \in Names :
          /\ left' \in BOOLEAN
          /\ current' = get_user(n)
          /\ IF get_user(n) = 0 THEN users' = users /\ shown' = << >>
             ELSE PromptIn(users, get_user(n), << >>)
    BY <1>2, LeftIs DEF Login
  <2>2. running' = running
    BY <1>2 DEF Login
  <2>3. CASE get_user(n) = 0
    BY <1>0, <2>1, <2>2, <2>3 DEF PromptShowsAll
  <2>4. CASE get_user(n) # 0
    <3>1. get_user(n) \in 1 .. Len(users)
      BY <1>0, <2>4, GetUser
    <3>2. PromptIn(users, get_user(n), << >>) /\ left' \in BOOLEAN
      BY <2>1, <2>4
    <3> QED
      BY <1>0, <2>1, <2>2, <3>1, <3>2, Served
  <2> QED
    BY <2>3, <2>4
<1>3. CASE Send
  <2>1. PICK n \in Names :
          /\ get_user(n) # 0 => MayReceive(get_user(n))
          /\ \E t \in Texts :
               /\ left' \in BOOLEAN
               /\ PromptIn(send_user_message(n, t), current, << >>)
    BY <1>3, LeftIs DEF Send
  <2>2. PICK t \in Texts :
          left' \in BOOLEAN /\ PromptIn(send_user_message(n, t), current, << >>)
    BY <2>1
  <2>3. ListOK(send_user_message(n, t)) /\ Len(send_user_message(n, t)) = Len(users)
    BY <2>1, SendKeeps
  <2>4. current # 0 /\ current' = current /\ running' = running
    BY <1>3 DEF Send, LoggedIn
  <2>5. left' \in BOOLEAN
    BY <2>2
  <2>6. PromptIn(send_user_message(n, t), current, << >>)
    BY <2>2
  <2> QED
    BY <1>0, <1>c, <2>3, <2>4, <2>5, <2>6, Served
<1>4. CASE Read
  <2>1. PICK id \in Number :
          PromptIn([users EXCEPT ![current] = read_messages(@, {id})], current,
                   <<display(users[current], id)>>)
    BY <1>4 DEF Read
  <2>2. current # 0 /\ current' = current /\ running' = running /\ left' \in BOOLEAN
    BY <1>4 DEF Read, LoggedIn
  <2>3. /\ UserOK(read_messages(users[current], {id}))
        /\ read_messages(users[current], {id}).name = users[current].name
    BY <1>c, <2>2, ReadKeeps
  <2> DEFINE new == [users EXCEPT ![current] = read_messages(users[current], {id})]
  <2>4. ListOK(new) /\ Len(new) = Len(users)
    <3>1. ListOK(new)
      BY <1>c, <2>2, <2>3, UpdateKeeps
    <3>2. \A x : Len([users EXCEPT ![current] = x]) = Len(users)
      BY <1>c, <2>2 DEF ListOK
    <3> QED
      BY <3>1, <3>2
  <2>5. <<display(users[current], id)>> \in Seq(Texts \cup {NotFound})
    <3>1. users[current] \in User /\ users[current].root \in Seq(Message)
      BY <1>c, <2>2 DEF UserOK, User
    <3>2. ASSUME NEW i \in Hits(users[current], id)
          PROVE  display(users[current], id) \in Texts
      <4>1. i \in 1 .. Len(users[current].root) /\ i = Least(Hits(users[current], id))
        BY <1>c, <2>2, <3>1, <3>2, OnlyHit DEF UserOK
      <4>2. users[current].root[i] \in Message
        BY <3>1, <4>1, ElementOfSeq
      <4> QED
        BY <3>2, <4>1, <4>2 DEF display, Message
    <3>3. display(users[current], id) \in Texts \cup {NotFound}
      BY <3>2 DEF display
    <3> QED
      BY <3>3
  <2> QED
    BY <1>0, <1>c, <2>1, <2>2, <2>4, <2>5, Served
<1>5. CASE List
  <2>1. /\ PromptIn([users EXCEPT ![current] = list_messages(@)], current,
                    display_all(users[current]))
        /\ current # 0 /\ current' = current /\ running' = running /\ left' = left
    BY <1>5 DEF List, LoggedIn
  <2>2. /\ UserOK(list_messages(users[current]))
        /\ list_messages(users[current]).name = users[current].name
    BY <1>c, <2>1, ReadKeeps DEF list_messages
  <2> DEFINE new == [users EXCEPT ![current] = list_messages(users[current])]
  <2>3. ListOK(new) /\ Len(new) = Len(users)
    <3>1. ListOK(new)
      BY <1>c, <2>1, <2>2, UpdateKeeps
    <3>2. \A x : Len([users EXCEPT ![current] = x]) = Len(users)
      BY <1>c, <2>1 DEF ListOK
    <3> QED
      BY <3>1, <3>2
  <2>4. display_all(users[current]) \in Seq(Texts \cup {NotFound})
    BY <1>c, <2>1, DisplayAll
  <2>5. PromptIn(new, current, display_all(users[current])) /\ left' \in BOOLEAN
    BY <2>1
  <2> HIDE DEF new
  <2> QED
    BY <1>c, <2>1, <2>3, <2>4, <2>5, Served
<1>6. CASE Delete
  <2>1. PICK id \in Number :
          PromptIn([users EXCEPT ![current] = delete_message(@, id)], current, << >>)
    BY <1>6 DEF Delete
  <2>2. current # 0 /\ current' = current /\ running' = running /\ left' \in BOOLEAN
    BY <1>6 DEF Delete, LoggedIn
  <2>3. /\ UserOK(delete_message(users[current], id))
        /\ delete_message(users[current], id).name = users[current].name
    BY <1>c, <2>2, DeleteKeeps
  <2> DEFINE new == [users EXCEPT ![current] = delete_message(users[current], id)]
  <2>4. ListOK(new) /\ Len(new) = Len(users)
    <3>1. ListOK(new)
      BY <1>c, <2>2, <2>3, UpdateKeeps
    <3>2. \A x : Len([users EXCEPT ![current] = x]) = Len(users)
      BY <1>c, <2>2 DEF ListOK
    <3> QED
      BY <3>1, <3>2
  <2> QED
    BY <1>0, <1>c, <2>1, <2>2, <2>4, Served
<1>7. CASE Logout
  BY <1>0, <1>7 DEF Logout, PromptShowsAll
<1>8. CASE InvalidChoice
  <2>1. current' = current /\ running' = running /\ left' \in BOOLEAN
    BY <1>8 DEF InvalidChoice
  <2>2. CASE current = 0
    BY <1>0, <1>8, <2>1, <2>2 DEF InvalidChoice, PromptShowsAll
  <2>3. CASE current # 0
    <3>1. PromptIn(users, current, << >>)
      BY <1>8, <2>3 DEF InvalidChoice
    <3> QED
      BY <1>0, <1>c, <2>1, <2>3, <3>1, Served
  <2> QED
    BY <2>2, <2>3
<1>9. CASE Terminate
  BY <1>0, <1>9 DEF Terminate, PromptShowsAll, Unread, NotRead, ListOK, UserOK, Ascending
<1>10. CASE UNCHANGED vars
  BY <1>10 DEF vars, PromptShowsAll, Unread, NotRead, ListOK, UserOK, Ascending
<1> QED
  BY <1>1, <1>2, <1>3, <1>4, <1>5, <1>6, <1>7, <1>8, <1>9, <1>10 DEF Next

(* The types, and the strengthened invariant: every user is in order, the  *)
(* names differ, and a prompt was preceded by the list of the unread.      *)
THEOREM Invariance == Spec => []IInv
  BY IInvInit, IInvStep, PTL DEF Spec

(* The state has its types (all of cromu_001.c).                           *)
THEOREM TypeCorrect == Spec => []TypeOK
<1>1. IInv => TypeOK
  BY DEF IInv, TypeOK, ListOK
<1> QED
  BY <1>1, Invariance, PTL

(* However messages are sent and deleted, the numbers ascend and stay      *)
(* within the count, for lists of any length.                              *)
THEOREM NumbersAscend == Spec => []IdsAscend
<1>1. IInv => IdsAscend
  BY DEF IInv, IdsAscend, ListOK, UserOK
<1> QED
  BY <1>1, Invariance, PTL

(* create_user never makes a second user of one name.                      *)
THEOREM NamesStayUnique == Spec => []NamesAreUnique
<1>1. IInv => NamesAreUnique
  BY DEF IInv, NamesAreUnique, ListOK
<1> QED
  BY <1>1, Invariance, PTL

(* A prompt leaves no message unread, unless they are as many as the       *)
(* counter has values, for a counter of any width.                         *)
THEOREM PromptsShowAll == Spec => []PromptShowsAll
<1>1. IInv => PromptShowsAll
  BY DEF IInv
<1> QED
  BY <1>1, Invariance, PTL

(* list_messages displays every message, in order, for lists of any length *)
(* and whatever was deleted before.                                        *)
THEOREM ListsAreWhole == Spec => ListShowsAll
<1>1. ASSUME IInv, List PROVE shown' = TextsOf(users[current].root)
  <2>1. current \in 1 .. Len(users) /\ shown' = display_all(users[current])
    BY <1>1 DEF List, LoggedIn, PromptIn, IInv, ListOK
  <2> QED
    BY <1>1, <2>1, DisplayAll DEF IInv, ListOK
<1>2. IInv /\ [Next]_vars => [List => shown' = TextsOf(users[current].root)]_vars
  BY <1>1
<1> QED
  BY <1>2, Invariance, PTL DEF Spec, ListShowsAll
-----------------------------------------------------------------------------
(* One user's messages as a set.                                           *)

LEMMA SeenOne ==
  ASSUME NEW m \in Message
  PROVE  /\ [m EXCEPT !.read = TRUE] = [id |-> m.id, text |-> m.text, read |-> TRUE]
         /\ m.read => m = [id |-> m.id, text |-> m.text, read |-> TRUE]
         /\ [id |-> m.id, text |-> m.text, read |-> TRUE] \in Message
<1> DEFINE seen(b) == [id |-> m.id, text |-> m.text, read |-> b]
<1>1. ASSUME NEW b PROVE [m EXCEPT !.read = b] = seen(b)
  BY DEF Message
<1>2. m = seen(m.read) /\ m.read \in BOOLEAN
  BY DEF Message
<1>3. ASSUME NEW b \in BOOLEAN PROVE seen(b) \in Message
  BY DEF Message
<1> HIDE DEF seen
<1>4. m.read => m = seen(TRUE)
  BY <1>2
<1>5. [m EXCEPT !.read = TRUE] = seen(TRUE) /\ seen(TRUE) \in Message
  BY <1>1, <1>3
<1> QED
  BY <1>4, <1>5 DEF seen

LEMMA Elements ==
  ASSUME NEW u, UserOK(u)
  PROVE  /\ u.root \in Seq(Message) /\ Len(u.root) \in Nat
         /\ DOMAIN u.root = 1 .. Len(u.root)
         /\ \A i \in DOMAIN u.root : u.root[i] \in Message /\ u.root[i].id \in Nat
         /\ \A i, j \in DOMAIN u.root : i # j => u.root[i].id # u.root[j].id
<1>1. u.root \in Seq(Message) /\ Len(u.root) \in Nat /\ DOMAIN u.root = 1 .. Len(u.root)
  BY DEF UserOK, User
<1>2. \A i \in DOMAIN u.root : u.root[i] \in Message
  BY <1>1, ElementOfSeq
<1>3. \A i \in DOMAIN u.root : u.root[i].id \in Nat
  BY <1>2 DEF Message
<1>4. ASSUME NEW i \in DOMAIN u.root, NEW j \in DOMAIN u.root, i # j
      PROVE  u.root[i].id # u.root[j].id
  <2>1. i < j \/ j < i
    BY <1>1, <1>4
  <2> QED
    BY <1>3, <2>1 DEF UserOK, Ascending
<1> QED
  BY <1>1, <1>2, <1>3, <1>4

(* Marking some messages makes them seen, and leaves the others.           *)
LEMMA MarkedSet ==
  ASSUME NEW u, UserOK(u), NEW S
  PROVE  \E T \in SUBSET ToSet(u.root) :
           /\ ToSet(MarkRead(u.root, S)) = (ToSet(u.root) \ T) \cup Abstract!Seen(T)
           /\ DOMAIN u.root \subseteq S => T = ToSet(u.root)
<1> DEFINE T == {u.root[i] : i \in S \cap DOMAIN u.root}
           r == MarkRead(u.root, S)
           seen(m) == [id |-> m.id, text |-> m.text, read |-> TRUE]
<1>1. \A i \in DOMAIN u.root : r[i] = IF i \in S THEN seen(u.root[i]) ELSE u.root[i]
  BY Elements, SeenOne DEF MarkRead
<1>2. DOMAIN r = DOMAIN u.root
  BY DEF MarkRead
<1>3. ToSet(r) = {r[i] : i \in DOMAIN u.root} /\ ToSet(u.root) = {u.root[i] : i \in DOMAIN u.root}
  BY <1>2 DEF ToSet
<1>4. Abstract!Seen(T) = {seen(u.root[i]) : i \in S \cap DOMAIN u.root}
  BY DEF Abstract!Seen
<1>5. \A i \in DOMAIN u.root : u.root[i] \in T <=> i \in S
  BY Elements
<1> HIDE DEF r, seen, T
<1>6. ToSet(u.root) \ T = {u.root[i] : i \in DOMAIN u.root \ S}
  BY <1>3, <1>5
<1>7. ToSet(r) = (ToSet(u.root) \ T) \cup Abstract!Seen(T)
  BY <1>1, <1>3, <1>4, <1>6
<1>8. T \in SUBSET ToSet(u.root) /\ (DOMAIN u.root \subseteq S => T = ToSet(u.root))
  BY <1>3 DEF T
<1> QED
  BY <1>7, <1>8 DEF r

(* Shown the unread messages, a user has seen all of them, or nothing      *)
(* changed.                                                                *)
LEMMA ListedSet ==
  ASSUME NEW u, UserOK(u)
  PROVE  /\ list_unread_messages(u).count = u.count
         /\ ToSet(list_unread_messages(u).root) \in {ToSet(u.root), Abstract!Seen(ToSet(u.root))}
<1>0. u \in User
  BY DEF UserOK
<1>1. CASE ~Listed(u)
  BY <1>1 DEF list_unread_messages
<1>2. CASE Listed(u)
  <2> DEFINE r == MarkRead(u.root, NotRead(u.root))
             seen(m) == [id |-> m.id, text |-> m.text, read |-> TRUE]
  <2>1. list_unread_messages(u) = [u EXCEPT !.root = r]
    BY <1>2 DEF list_unread_messages
  <2>2. \A i \in DOMAIN u.root : r[i] = seen(u.root[i])
    BY Elements, SeenOne DEF MarkRead, NotRead
  <2>3. ToSet(r) = {r[i] : i \in DOMAIN u.root} /\ ToSet(u.root) = {u.root[i] : i \in DOMAIN u.root}
    BY DEF ToSet, MarkRead
  <2>4. Abstract!Seen(ToSet(u.root)) = {seen(u.root[i]) : i \in DOMAIN u.root}
    BY <2>3 DEF Abstract!Seen
  <2> HIDE DEF r, seen
  <2>5. ToSet(r) = Abstract!Seen(ToSet(u.root))
    BY <2>2, <2>3, <2>4
  <2> QED
    BY <1>0, <2>1, <2>5 DEF User
<1> QED
  BY <1>1, <1>2

LEMMA AddedSet ==
  ASSUME NEW u, UserOK(u), NEW t \in Texts
  PROVE  LET v == add_message(u, create_message(t))
         IN  /\ v.count = u.count + 1
             /\ ToSet(v.root) = ToSet(u.root)
                  \cup {[id |-> u.count + 1, text |-> t, read |-> FALSE]}
<1> DEFINE m == [create_message(t) EXCEPT !.id = u.count + 1]
           r == Append(u.root, m)
           n == Len(u.root)
<1>1. u \in User /\ u.root \in Seq(Message) /\ n \in Nat /\ u.count + 1 \in Nat
  BY DEF UserOK, User
<1>2. m = [id |-> u.count + 1, text |-> t, read |-> FALSE]
  <2>1. ASSUME NEW b, NEW c
        PROVE  [[id |-> 0, text |-> t, read |-> b] EXCEPT !.id = c]
                 = [id |-> c, text |-> t, read |-> b]
    OBVIOUS
  <2> QED
    BY <2>1 DEF create_message
<1>3. m \in Message
  BY <1>1 DEF create_message, Message
<1> HIDE DEF m
<1>4. /\ Len(r) = n + 1 /\ r \in Seq(Message)
      /\ \A i \in 1 .. n : r[i] = u.root[i]
      /\ r[n + 1] = m
  BY <1>1, <1>3, AppendProperties
<1>5. DOMAIN r = DOMAIN u.root \cup {n + 1} /\ DOMAIN u.root = 1 .. n
  BY <1>1, <1>4
<1>6. add_message(u, create_message(t)) = [u EXCEPT !.root = r, !.count = u.count + 1]
  BY DEF add_message, m
<1> HIDE DEF r
<1>7. ToSet(r) = ToSet(u.root) \cup {m}
  BY <1>4, <1>5 DEF ToSet
<1>8. [u EXCEPT !.root = r, !.count = u.count + 1].root = r
      /\ [u EXCEPT !.root = r, !.count = u.count + 1].count = u.count + 1
  BY <1>1 DEF User
<1> QED
  BY <1>2, <1>6, <1>7, <1>8

LEMMA DeletedSet ==
  ASSUME NEW u, UserOK(u), NEW id
  PROVE  /\ delete_message(u, id).count = u.count
         /\ \/ delete_message(u, id) = u
            \/ \E m \in ToSet(u.root) :
                 ToSet(delete_message(u, id).root) = ToSet(u.root) \ {m}
<1>1. CASE Hits(u, id) = {}
  BY <1>1 DEF delete_message
<1>2. ASSUME NEW k \in Hits(u, id)
      PROVE  /\ delete_message(u, id).count = u.count
             /\ k \in DOMAIN u.root
             /\ ToSet(delete_message(u, id).root) = ToSet(u.root) \ {u.root[k]}
  <2> DEFINE r == RemoveAt(u.root, k)
             n == Len(u.root)
             from(j) == IF j < k THEN j ELSE j + 1
  <2>1. u \in User /\ Ascending(u) /\ u.root \in Seq(Message) /\ n \in Nat /\ DOMAIN u.root = 1 .. n
    BY Elements DEF UserOK
  <2>2. k = Least(Hits(u, id)) /\ k \in 1 .. n
    BY <1>2, <2>1, OnlyHit
  <2>3. /\ r \in Seq(Message) /\ Len(r) = n - 1
        /\ \A j \in 1 .. (n - 1) : r[j] = u.root[from(j)]
    BY <2>1, <2>2, RemovedAt
  <2>4. delete_message(u, id) = [u EXCEPT !.root = r]
    BY <1>2, <2>2 DEF delete_message
  <2> HIDE DEF r
  <2>5. DOMAIN r = 1 .. (n - 1)
    BY <2>1, <2>3
  <2>6. \A i \in 1 .. n : i # k => \E j \in 1 .. (n - 1) : i = from(j)
    <3> SUFFICES ASSUME NEW i \in 1 .. n, i # k PROVE \E j \in 1 .. (n - 1) : i = from(j)
      OBVIOUS
    <3>1. CASE i < k
      BY <2>1, <2>2, <3>1
    <3>2. CASE i > k
      <4>1. i - 1 \in 1 .. (n - 1) /\ i = from(i - 1)
        BY <2>1, <2>2, <3>2
      <4> QED
        BY <4>1
    <3> QED
      BY <2>2, <3>1, <3>2
  <2>7. \A j \in 1 .. (n - 1) : from(j) \in 1 .. n /\ from(j) # k
    BY <2>1, <2>2
  <2> HIDE DEF from
  <2>8. ToSet(r) = {u.root[i] : i \in (1 .. n) \ {k}}
    <3>1. ToSet(r) = {u.root[from(j)] : j \in 1 .. (n - 1)}
      BY <2>3, <2>5 DEF ToSet
    <3>2. {u.root[from(j)] : j \in 1 .. (n - 1)} \subseteq {u.root[i] : i \in (1 .. n) \ {k}}
      BY <2>7
    <3>3. {u.root[i] : i \in (1 .. n) \ {k}} \subseteq {u.root[from(j)] : j \in 1 .. (n - 1)}
      BY <2>6
    <3> QED
      BY <3>1, <3>2, <3>3
  <2>9. \A i \in 1 .. n : u.root[i] = u.root[k] <=> i = k
    BY <2>1, <2>2, Elements
  <2>10. ToSet(u.root) = {u.root[i] : i \in 1 .. n}
    BY <2>1 DEF ToSet
  <2>11. ToSet(r) = ToSet(u.root) \ {u.root[k]}
    BY <2>8, <2>9, <2>10
  <2> QED
    BY <2>1, <2>2, <2>4, <2>11 DEF User
<1>3. ASSUME NEW k \in DOMAIN u.root PROVE u.root[k] \in ToSet(u.root)
  BY DEF ToSet
<1> QED
  BY <1>1, <1>2, <1>3
-----------------------------------------------------------------------------
(* A list of users as mailboxes.                                           *)

NamedIn(all, n) == {i \in DOMAIN all : all[i].name = n}
KnownIn(all) == {all[i].name : i \in DOMAIN all}
BoxesIn(all) == [n \in Names |-> UNION {ToSet(all[i].root) : i \in NamedIn(all, n)}]
NumbersIn(all) ==
  [n \in Names |-> IF NamedIn(all, n) = {} THEN 0 ELSE all[Least(NamedIn(all, n))].count]

LEMMA Mapped ==
  Known = KnownIn(users) /\ Inboxes = BoxesIn(users) /\ Numbers = NumbersIn(users)
BY DEF Known, Inboxes, Numbers, Box, Highest, get_user, Named,
       KnownIn, BoxesIn, NumbersIn, NamedIn

LEMMA WillBeMapped ==
  /\ Known' = KnownIn(users') /\ Inboxes' = BoxesIn(users')
  /\ Numbers' = NumbersIn(users')
BY DEF Known, Inboxes, Numbers, Box, Highest, get_user, Named,
       KnownIn, BoxesIn, NumbersIn, NamedIn

LEMMA MappedUser ==
  ASSUME NEW all, ListOK(all), NEW i \in 1 .. Len(all)
  PROVE  /\ all[i].name \in Names /\ all[i].name \in KnownIn(all)
         /\ NamedIn(all, all[i].name) = {i}
         /\ BoxesIn(all)[all[i].name] = ToSet(all[i].root)
         /\ NumbersIn(all)[all[i].name] = all[i].count
<1>1. all \in Seq(User) /\ i \in DOMAIN all /\ i \in Nat /\ all[i] \in User
  BY DEF ListOK
<1>2. all[i].name \in Names
  BY <1>1 DEF User
<1>3. NamedIn(all, all[i].name) = {i}
  BY <1>1 DEF NamedIn, ListOK
<1>4. Least({i}) = i
  BY <1>1, LeastOfOne
<1>5. UNION {ToSet(all[k].root) : k \in {i}} = ToSet(all[i].root)
  OBVIOUS
<1> QED
  BY <1>1, <1>2, <1>3, <1>4, <1>5 DEF KnownIn, BoxesIn, NumbersIn

LEMMA MappedStranger ==
  ASSUME NEW all, NEW n \in Names, n \notin KnownIn(all)
  PROVE  BoxesIn(all)[n] = {} /\ NumbersIn(all)[n] = 0
<1>1. NamedIn(all, n) = {}
  BY DEF NamedIn, KnownIn
<1> QED
  BY <1>1 DEF BoxesIn, NumbersIn

(* A user who changes changes the own mailbox.                             *)
LEMMA MappedUpdate ==
  ASSUME NEW all, ListOK(all), NEW i \in 1 .. Len(all),
         NEW v, UserOK(v), v.name = all[i].name
  PROVE  LET new == [all EXCEPT ![i] = v] IN
         /\ KnownIn(new) = KnownIn(all)
         /\ BoxesIn(new) = [BoxesIn(all) EXCEPT ![v.name] = ToSet(v.root)]
         /\ NumbersIn(new) = [NumbersIn(all) EXCEPT ![v.name] = v.count]
<1> DEFINE new == [all EXCEPT ![i] = v]
<1>1. ListOK(new)
  BY UpdateKeeps
<1>2. /\ DOMAIN new = DOMAIN all /\ DOMAIN all = 1 .. Len(all) /\ i \in DOMAIN all
      /\ Len(new) = Len(all)
      /\ new[i] = v /\ \A k \in DOMAIN all : k # i => new[k] = all[k]
  BY DEF ListOK
<1> HIDE DEF new
<1>3. \A k \in DOMAIN all : new[k].name = all[k].name
  BY <1>2
<1>4. KnownIn(new) = KnownIn(all)
  BY <1>2, <1>3 DEF KnownIn
<1>5. ASSUME NEW n \in Names
      PROVE  /\ BoxesIn(new)[n] = IF n = v.name THEN ToSet(v.root) ELSE BoxesIn(all)[n]
             /\ NumbersIn(new)[n] = IF n = v.name THEN v.count ELSE NumbersIn(all)[n]
  <2>1. CASE n = v.name
    BY <1>1, <1>2, <2>1, MappedUser
  <2>2. ASSUME NEW k \in DOMAIN all, n = all[k].name, n # v.name
        PROVE  BoxesIn(new)[n] = BoxesIn(all)[n] /\ NumbersIn(new)[n] = NumbersIn(all)[n]
    <3>1. k \in 1 .. Len(all) /\ k \in 1 .. Len(new) /\ new[k] = all[k]
      BY <1>2, <2>2
    <3> QED
      BY <1>1, <2>2, <3>1, MappedUser
  <2>3. CASE n \notin KnownIn(all) /\ n # v.name
    BY <1>4, <2>3, MappedStranger
  <2> QED
    BY <2>1, <2>2, <2>3 DEF KnownIn
<1>6. v.name \in Names
  BY MappedUser
<1>7. BoxesIn(new) = [BoxesIn(all) EXCEPT ![v.name] = ToSet(v.root)]
  <2>1. /\ BoxesIn(new) = [n \in Names |-> BoxesIn(new)[n]]
        /\ BoxesIn(all) = [n \in Names |-> BoxesIn(all)[n]]
    BY DEF BoxesIn
  <2>2. [BoxesIn(all) EXCEPT ![v.name] = ToSet(v.root)]
          = [n \in Names |-> IF n = v.name THEN ToSet(v.root) ELSE BoxesIn(all)[n]]
    BY <2>1
  <2> QED
    BY <1>5, <2>1, <2>2
<1>8. NumbersIn(new) = [NumbersIn(all) EXCEPT ![v.name] = v.count]
  <2>1. /\ NumbersIn(new) = [n \in Names |-> NumbersIn(new)[n]]
        /\ NumbersIn(all) = [n \in Names |-> NumbersIn(all)[n]]
    BY DEF NumbersIn
  <2>2. [NumbersIn(all) EXCEPT ![v.name] = v.count]
          = [n \in Names |-> IF n = v.name THEN v.count ELSE NumbersIn(all)[n]]
    BY <2>1
  <2> QED
    BY <1>5, <2>1, <2>2
<1> QED
  BY <1>4, <1>7, <1>8 DEF new

(* A prompt shows user i all unread messages, or none.                     *)
LEMMA MappedPrompt ==
  ASSUME NEW all, ListOK(all), NEW i \in 1 .. Len(all), NEW out, PromptIn(all, i, out)
  PROVE  LET n == all[i].name IN
         /\ KnownIn(users') = KnownIn(all) /\ NumbersIn(users') = NumbersIn(all)
         /\ users'[i].name = n
         /\ BoxesIn(users') \in Abstract!Prompted(BoxesIn(all), n)
<1> DEFINE n == all[i].name
           v == list_unread_messages(all[i])
           boxes == BoxesIn(all)
<1>1. UserOK(all[i]) /\ UserOK(v) /\ v.name = n
  BY ListUnreadKeeps DEF ListOK
<1>2. users' = [all EXCEPT ![i] = v]
  BY DEF PromptIn
<1>3. /\ v.count = all[i].count
      /\ ToSet(v.root) \in {ToSet(all[i].root), Abstract!Seen(ToSet(all[i].root))}
  BY <1>1, ListedSet
<1> HIDE DEF v
<1>4. /\ KnownIn(users') = KnownIn(all)
      /\ BoxesIn(users') = [boxes EXCEPT ![n] = ToSet(v.root)]
      /\ NumbersIn(users') = [NumbersIn(all) EXCEPT ![n] = v.count]
  <2> DEFINE new == [all EXCEPT ![i] = v]
  <2>1. /\ KnownIn(new) = KnownIn(all)
        /\ BoxesIn(new) = [BoxesIn(all) EXCEPT ![v.name] = ToSet(v.root)]
        /\ NumbersIn(new) = [NumbersIn(all) EXCEPT ![v.name] = v.count]
    BY <1>1, MappedUpdate
  <2>2. users' = new
    BY <1>2
  <2> HIDE DEF new
  <2> QED
    BY <1>1, <2>1, <2>2
<1>5. n \in Names /\ boxes[n] = ToSet(all[i].root) /\ NumbersIn(all)[n] = all[i].count
  BY MappedUser
<1>6. boxes = [b \in Names |-> boxes[b]] /\ NumbersIn(all) = [b \in Names |-> NumbersIn(all)[b]]
  BY DEF BoxesIn, NumbersIn
<1> HIDE DEF boxes
<1>7. NumbersIn(users') = NumbersIn(all)
  BY <1>3, <1>4, <1>5, <1>6
<1>8. CASE ToSet(v.root) = boxes[n]
  <2>1. BoxesIn(users') = boxes
    BY <1>4, <1>6, <1>8
  <2> QED
    BY <1>1, <1>2, <1>4, <1>7, <2>1 DEF Abstract!Prompted, boxes, ListOK
<1>9. CASE ToSet(v.root) = Abstract!Seen(boxes[n])
  <2>1. BoxesIn(users') = [b \in Names |-> IF b = n THEN Abstract!Seen(boxes[b]) ELSE boxes[b]]
    BY <1>4, <1>6, <1>9
  <2> QED
    BY <1>1, <1>2, <1>4, <1>7, <2>1 DEF Abstract!Prompted, boxes, ListOK
<1> QED
  BY <1>3, <1>5, <1>8, <1>9
-----------------------------------------------------------------------------
(* The steps are those of the mailboxes.                                   *)

LEMMA WhoIsLoggedIn ==
  ASSUME IInv, current # 0
  PROVE  /\ current \in 1 .. Len(users) /\ UserOK(users[current])
         /\ Who = users[current].name /\ Who # Nobody /\ Who \in Names
<1>1. current \in 1 .. Len(users) /\ ListOK(users)
  BY DEF IInv, ListOK
<1> QED
  BY <1>1, MappedUser, ServiceAssumption DEF ListOK, Who

SomeSeen(before, after) ==
  \E T \in SUBSET before : after = (before \ T) \cup Abstract!Seen(T)

(* Marked messages, and then a prompt: the user has seen some or all.      *)
LEMMA Sees ==
  ASSUME IInv, current # 0, current' = current,
         NEW v, UserOK(v), v.name = users[current].name, v.count = users[current].count,
         SomeSeen(ToSet(users[current].root), ToSet(v.root)),
         NEW out, PromptIn([users EXCEPT ![current] = v], current, out)
  PROVE  Abstract!See
<1> DEFINE all == [users EXCEPT ![current] = v]
           boxes == BoxesIn(users)
           n == users[current].name
           box == ToSet(users[current].root)
<1>1. /\ current \in 1 .. Len(users) /\ ListOK(users)
      /\ Who = n /\ Who # Nobody /\ n \in Names
  BY WhoIsLoggedIn DEF IInv
<1>2. /\ KnownIn(all) = KnownIn(users)
      /\ BoxesIn(all) = [boxes EXCEPT ![n] = ToSet(v.root)]
      /\ NumbersIn(all) = [NumbersIn(users) EXCEPT ![n] = v.count]
  <2>1. /\ KnownIn(all) = KnownIn(users)
        /\ BoxesIn(all) = [BoxesIn(users) EXCEPT ![v.name] = ToSet(v.root)]
        /\ NumbersIn(all) = [NumbersIn(users) EXCEPT ![v.name] = v.count]
    BY <1>1, MappedUpdate
  <2> HIDE DEF all
  <2> QED
    BY <2>1
<1>3. boxes[n] = box /\ NumbersIn(users)[n] = v.count
  BY <1>1, MappedUser
<1>4. boxes = [b \in Names |-> boxes[b]] /\ NumbersIn(users) = [b \in Names |-> NumbersIn(users)[b]]
  BY DEF BoxesIn, NumbersIn
<1>5. ListOK(all) /\ Len(all) = Len(users) /\ all[current].name = n
  BY <1>1, UpdateKeeps DEF ListOK
<1> HIDE DEF all, boxes
<1>6. NumbersIn(all) = NumbersIn(users)
  BY <1>1, <1>2, <1>3, <1>4
<1>7. PromptIn(all, current, out)
  BY DEF all
<1>8. /\ KnownIn(users') = KnownIn(users) /\ NumbersIn(users') = NumbersIn(users)
      /\ users'[current].name = n
      /\ BoxesIn(users') \in Abstract!Prompted(BoxesIn(all), n)
  <2>1. current \in 1 .. Len(all)
    BY <1>1, <1>5
  <2>2. LET m == all[current].name IN
        /\ KnownIn(users') = KnownIn(all) /\ NumbersIn(users') = NumbersIn(all)
        /\ users'[current].name = m
        /\ BoxesIn(users') \in Abstract!Prompted(BoxesIn(all), m)
    BY <1>5, <1>7, <2>1, MappedPrompt
  <2> QED
    BY <1>2, <1>5, <1>6, <2>2
<1>9. Who' = n
  BY <1>1, <1>8 DEF Who
<1>10. \E S \in SUBSET box :
         BoxesIn(users') = [boxes EXCEPT ![n] = (box \ S) \cup Abstract!Seen(S)]
  <2>1. CASE BoxesIn(users') = BoxesIn(all)
    BY <1>2, <2>1 DEF SomeSeen
  <2>2. CASE BoxesIn(users') = [b \in Names |-> IF b = n THEN Abstract!Seen(BoxesIn(all)[b])
                                               ELSE BoxesIn(all)[b]]
    <3>1. Abstract!Seen(ToSet(v.root)) = Abstract!Seen(box)
      BY DEF SomeSeen, Abstract!Seen
    <3>2. BoxesIn(users') = [boxes EXCEPT ![n] = Abstract!Seen(box)]
      BY <1>1, <1>2, <1>4, <2>2, <3>1
    <3>3. (box \ box) \cup Abstract!Seen(box) = Abstract!Seen(box)
      OBVIOUS
    <3> QED
      BY <3>2, <3>3
  <2> QED
    BY <1>8, <2>1, <2>2 DEF Abstract!Prompted
<1>11. /\ Known' = Known /\ Numbers' = Numbers /\ Who' = Who
       /\ Inboxes = boxes /\ Inboxes' = BoxesIn(users')
  BY <1>1, <1>8, <1>9, Mapped, WillBeMapped DEF boxes
<1> QED
  BY <1>1, <1>3, <1>10, <1>11 DEF Abstract!See

LEMMA MarkSees ==
  ASSUME IInv, current # 0, current' = current, NEW ids, NEW out,
         PromptIn([users EXCEPT ![current] = read_messages(@, ids)], current, out)
  PROVE  Abstract!See
<1> DEFINE u == users[current]
           v == read_messages(u, ids)
<1>1. current \in 1 .. Len(users) /\ UserOK(u) /\ u \in User
  BY WhoIsLoggedIn DEF UserOK
<1>2. UserOK(v) /\ v.name = u.name
  BY <1>1, ReadKeeps
<1>3. v.root = MarkRead(u.root, Found(u, ids)) /\ v.count = u.count
  BY <1>1 DEF read_messages, User
<1>4. SomeSeen(ToSet(u.root), ToSet(v.root))
  <2>1. PICK T \in SUBSET ToSet(u.root) :
          ToSet(MarkRead(u.root, Found(u, ids))) = (ToSet(u.root) \ T) \cup Abstract!Seen(T)
    BY <1>1, MarkedSet
  <2> HIDE DEF v
  <2> QED
    BY <1>3, <2>1 DEF SomeSeen
<1>5. PromptIn([users EXCEPT ![current] = v], current, out)
  OBVIOUS
<1> HIDE DEF v
<1> QED
  BY <1>2, <1>3, <1>4, <1>5, Sees

(* Nothing happened before the prompt.                                     *)
LEMMA OnlyPrompted ==
  ASSUME IInv, current # 0, current' = current, NEW out, PromptIn(users, current, out)
  PROVE  Abstract!See
<1> DEFINE u == users[current]
<1>1. current \in 1 .. Len(users) /\ UserOK(u)
  BY WhoIsLoggedIn
<1>2. users = [users EXCEPT ![current] = u]
  BY DEF IInv, ListOK
<1>3. PromptIn([users EXCEPT ![current] = u], current, out)
  BY <1>2
<1>4. SomeSeen(ToSet(u.root), ToSet(u.root))
  <2>1. ToSet(u.root) = (ToSet(u.root) \ {}) \cup Abstract!Seen({})
    BY DEF Abstract!Seen
  <2> QED
    BY <2>1 DEF SomeSeen
<1> HIDE DEF u
<1> QED
  BY <1>1, <1>3, <1>4, Sees DEF u
(* A new user has an empty mailbox.                                        *)
LEMMA MappedCreate ==
  ASSUME ListOK(users), NEW n \in Names, Named(n) = {}
  PROVE  LET new == create_user(n) IN
         /\ n \notin KnownIn(users) /\ KnownIn(new) = KnownIn(users) \cup {n}
         /\ BoxesIn(new) = BoxesIn(users) /\ NumbersIn(new) = NumbersIn(users)
<1> DEFINE new == create_user(n)
           u == NewUser(n)
<1>1. users \in Seq(User) /\ Len(users) \in Nat /\ u \in User
  BY EmptySeq DEF ListOK, User, NewUser
<1>2. new = <<u>> \o users
  BY DEF create_user
<1>3. /\ DOMAIN new = 1 .. (1 + Len(users)) /\ DOMAIN users = 1 .. Len(users)
      /\ Len(new) = 1 + Len(users)
      /\ new[1] = u /\ \A k \in 1 .. Len(users) : new[k + 1] = users[k]
  <2>1. <<u>> \in Seq(User) /\ Len(<<u>>) = 1 /\ <<u>>[1] = u
    BY <1>1
  <2> HIDE DEF u
  <2>2. /\ <<u>> \o users \in Seq(User) /\ Len(<<u>> \o users) = 1 + Len(users)
        /\ \A k \in 1 .. 1 + Len(users) :
             (<<u>> \o users)[k] = IF k <= 1 THEN <<u>>[k] ELSE users[k - 1]
    BY <1>1, <2>1, ConcatProperties
  <2>3. \A k \in 1 .. Len(users) : k + 1 \in 1 .. 1 + Len(users) /\ ~(k + 1 <= 1) /\ (k + 1) - 1 = k
    BY <1>1
  <2>4. 1 \in 1 .. 1 + Len(users)
    BY <1>1
  <2> HIDE DEF new
  <2> QED
    BY <1>1, <1>2, <2>1, <2>2, <2>3, <2>4
<1>4. ListOK(new)
  BY CreateKeeps
<1>5. u.name = n /\ u.root = << >> /\ u.count = 0
  BY DEF NewUser
<1> HIDE DEF new, u
<1>6. n \notin KnownIn(users)
  BY DEF KnownIn, Named
<1>7. KnownIn(new) = KnownIn(users) \cup {n}
  <2>1. \A k \in DOMAIN new : k = 1 \/ \E j \in DOMAIN users : k = j + 1
    <3> SUFFICES ASSUME NEW k \in DOMAIN new, k # 1 PROVE \E j \in DOMAIN users : k = j + 1
      OBVIOUS
    <3>1. k - 1 \in DOMAIN users /\ k = (k - 1) + 1
      BY <1>1, <1>3
    <3> QED
      BY <3>1
  <2>2. 1 \in DOMAIN new /\ \A j \in DOMAIN users : j + 1 \in DOMAIN new
    BY <1>1, <1>3
  <2>3. KnownIn(new) \subseteq KnownIn(users) \cup {n}
    BY <1>3, <1>5, <2>1 DEF KnownIn
  <2>4. n \in KnownIn(new) /\ KnownIn(users) \subseteq KnownIn(new)
    BY <1>3, <1>5, <2>2 DEF KnownIn
  <2> QED
    BY <2>3, <2>4
<1>8. ASSUME NEW m \in Names
      PROVE  /\ BoxesIn(new)[m] = BoxesIn(users)[m]
             /\ NumbersIn(new)[m] = NumbersIn(users)[m]
  <2>1. CASE m = n
    <3>1. BoxesIn(new)[m] = ToSet(<< >>) /\ NumbersIn(new)[m] = 0
      <4>1. 1 \in 1 .. Len(new)
        BY <1>1, <1>3
      <4> QED
        BY <1>3, <1>4, <1>5, <2>1, <4>1, MappedUser
    <3>2. ToSet(<< >>) = {}
      BY DEF ToSet
    <3> QED
      BY <1>6, <2>1, <3>1, <3>2, MappedStranger
  <2>2. ASSUME NEW k \in DOMAIN users, m = users[k].name
        PROVE  /\ BoxesIn(new)[m] = BoxesIn(users)[m]
               /\ NumbersIn(new)[m] = NumbersIn(users)[m]
    <3>1. k \in 1 .. Len(users) /\ k + 1 \in 1 .. Len(new) /\ new[k + 1] = users[k]
      BY <1>1, <1>3
    <3> QED
      BY <1>4, <2>2, <3>1, MappedUser
  <2>3. CASE m \notin KnownIn(users) /\ m # n
    BY <1>7, <2>3, MappedStranger
  <2> QED
    BY <2>1, <2>2, <2>3 DEF KnownIn
<1>9. /\ BoxesIn(new) = [m \in Names |-> BoxesIn(new)[m]]
      /\ BoxesIn(users) = [m \in Names |-> BoxesIn(users)[m]]
      /\ NumbersIn(new) = [m \in Names |-> NumbersIn(new)[m]]
      /\ NumbersIn(users) = [m \in Names |-> NumbersIn(users)[m]]
  BY DEF BoxesIn, NumbersIn
<1>10. BoxesIn(new) = BoxesIn(users) /\ NumbersIn(new) = NumbersIn(users)
  BY <1>8, <1>9
<1> QED
  BY <1>6, <1>7, <1>10 DEF new

LEMMA Registers ==
  ASSUME IInv, CreateUser
  PROVE  Abstract!Register \/ UNCHANGED <<Known, Inboxes, Numbers, Who>>
<1>1. PICK n \in Names : users' = create_user(n)
  BY DEF CreateUser
<1>2. ListOK(users) /\ Who = Nobody /\ Who' = Nobody
  BY DEF IInv, CreateUser, AtMenu, Who
<1>3. CASE Named(n) # {}
  <2>1. users' = users
    BY <1>1, <1>3 DEF create_user
  <2> QED
    BY <1>2, <2>1, Mapped, WillBeMapped
<1>4. CASE Named(n) = {}
  <2>1. LET new == create_user(n) IN
         /\ n \notin KnownIn(users) /\ KnownIn(new) = KnownIn(users) \cup {n}
         /\ BoxesIn(new) = BoxesIn(users) /\ NumbersIn(new) = NumbersIn(users)
    BY <1>2, <1>4, MappedCreate
  <2>2. /\ n \notin Known /\ Known' = Known \cup {n}
        /\ Inboxes' = Inboxes /\ Numbers' = Numbers
    BY <1>1, <2>1, Mapped, WillBeMapped
  <2> QED
    BY <1>2, <2>2 DEF Abstract!Register
<1> QED
  BY <1>3, <1>4

LEMMA Enters ==
  ASSUME IInv, Login
  PROVE  Abstract!Enter \/ UNCHANGED <<Known, Inboxes, Numbers, Who>>
<1>1. PICK n \in Names :
        /\ current' = get_user(n)
        /\ IF get_user(n) = 0 THEN users' = users /\ shown' = << >>
           ELSE PromptIn(users, get_user(n), << >>)
  BY DEF Login
<1>2. ListOK(users) /\ current = 0 /\ Who = Nobody
  BY DEF IInv, Login, AtMenu, Who
<1>3. CASE get_user(n) = 0
  <2>1. users' = users /\ current' = 0
    BY <1>1, <1>3
  <2>2. Who' = Nobody
    BY <2>1 DEF Who
  <2> QED
    BY <1>2, <2>1, <2>2, Mapped, WillBeMapped
<1>4. CASE get_user(n) # 0
  <2>1. PICK i \in 1 .. Len(users) : i = get_user(n) /\ users[i].name = n /\ i # 0
    <3>1. get_user(n) \in 0 .. Len(users) /\ users[get_user(n)].name = n
      BY <1>2, <1>4, GetUser
    <3> QED
      BY <1>2, <1>4, <3>1 DEF ListOK
  <2>2. PromptIn(users, i, << >>) /\ current' = i
    BY <1>1, <1>4, <2>1
  <2>3. LET m == users[i].name IN
        /\ KnownIn(users') = KnownIn(users) /\ NumbersIn(users') = NumbersIn(users)
        /\ users'[i].name = m
        /\ BoxesIn(users') \in Abstract!Prompted(BoxesIn(users), m)
    BY <1>2, <2>1, <2>2, MappedPrompt
  <2>4. n \in KnownIn(users)
    BY <1>2, <2>1, MappedUser
  <2>5. Who' = n
    BY <2>1, <2>2, <2>3 DEF Who
  <2> QED
    BY <1>2, <2>1, <2>3, <2>4, <2>5, Mapped, WillBeMapped DEF Abstract!Enter
<1> QED
  BY <1>3, <1>4
(* What the mailboxes are after a change and a prompt for the one logged   *)
(* in.                                                                     *)
LEMMA Prompts ==
  ASSUME IInv, current # 0, current' = current,
         NEW all, ListOK(all), Len(all) = Len(users),
         all[current].name = users[current].name,
         NEW out, PromptIn(all, current, out)
  PROVE  /\ Known' = KnownIn(all) /\ Numbers' = NumbersIn(all)
         /\ Inboxes' \in Abstract!Prompted(BoxesIn(all), Who)
         /\ Who' = Who /\ Who # Nobody
<1>1. current \in 1 .. Len(all) /\ Who = users[current].name /\ Who # Nobody
  BY WhoIsLoggedIn
<1>2. LET m == all[current].name IN
      /\ KnownIn(users') = KnownIn(all) /\ NumbersIn(users') = NumbersIn(all)
      /\ users'[current].name = m
      /\ BoxesIn(users') \in Abstract!Prompted(BoxesIn(all), m)
  BY <1>1, MappedPrompt
<1>3. Who' = Who
  BY <1>1, <1>2 DEF Who
<1> QED
  BY <1>1, <1>2, <1>3, WillBeMapped

LEMMA Delivers ==
  ASSUME IInv, Send
  PROVE  Abstract!Deliver \/ Abstract!See
<1>1. PICK n \in Names :
        /\ get_user(n) # 0 => MayReceive(get_user(n))
        /\ \E t \in Texts :
             PromptIn(send_user_message(n, t), current, << >>)
  BY DEF Send
<1>2. PICK t \in Texts : PromptIn(send_user_message(n, t), current, << >>)
  BY <1>1
<1>3. current # 0 /\ current' = current /\ ListOK(users)
  BY DEF Send, LoggedIn, IInv
<1>4. CASE get_user(n) = 0
  <2>1. PromptIn(users, current, << >>)
    BY <1>2, <1>4 DEF send_user_message
  <2> QED
    BY <1>3, <2>1, OnlyPrompted
<1>5. CASE get_user(n) # 0
  <2>1. PICK k \in 1 .. Len(users) : k = get_user(n) /\ users[k].name = n
    <3>1. get_user(n) \in 0 .. Len(users) /\ users[get_user(n)].name = n
      BY <1>3, <1>5, GetUser
    <3> QED
      BY <1>3, <1>5, <3>1 DEF ListOK
  <2> DEFINE v == add_message(users[k], create_message(t))
             all == send_user_message(n, t)
             m == [id |-> users[k].count + 1, text |-> t, read |-> FALSE]
  <2>2. UserOK(users[k]) /\ Unread(users[k]) < Wrap
    BY <1>1, <1>5, <2>1 DEF IInv, ListOK, MayReceive
  <2>3. UserOK(v) /\ v.name = n
    BY <2>1, <2>2, AddKeeps
  <2>4. v.count = users[k].count + 1 /\ ToSet(v.root) = ToSet(users[k].root) \cup {m}
    BY <2>2, AddedSet
  <2>5. all = [users EXCEPT ![k] = v]
    BY <1>5, <2>1 DEF send_user_message
  <2>6. ListOK(all) /\ Len(all) = Len(users)
    BY <1>1, <1>3, SendKeeps
  <2> HIDE DEF v
  <2>7. /\ KnownIn(all) = KnownIn(users)
        /\ BoxesIn(all) = [BoxesIn(users) EXCEPT ![n] = ToSet(v.root)]
        /\ NumbersIn(all) = [NumbersIn(users) EXCEPT ![n] = v.count]
    <3> DEFINE new == [users EXCEPT ![k] = v]
    <3>1. /\ KnownIn(new) = KnownIn(users)
          /\ BoxesIn(new) = [BoxesIn(users) EXCEPT ![v.name] = ToSet(v.root)]
          /\ NumbersIn(new) = [NumbersIn(users) EXCEPT ![v.name] = v.count]
      BY <1>3, <2>1, <2>3, MappedUpdate
    <3>2. all = new
      BY <2>5
    <3> HIDE DEF new, all
    <3> QED
      BY <2>3, <3>1, <3>2
  <2>8. /\ n \in KnownIn(users) /\ n \in Names
        /\ BoxesIn(users)[n] = ToSet(users[k].root)
        /\ NumbersIn(users)[n] = users[k].count
    BY <1>3, <2>1, MappedUser
  <2>9. all[current].name = users[current].name
    <3>1. current \in 1 .. Len(users)
      BY <1>3, WhoIsLoggedIn
    <3> QED
      BY <1>3, <2>1, <2>3, <2>5, <3>1 DEF ListOK
  <2>10. PromptIn(all, current, << >>)
    BY <1>2
  <2> HIDE DEF all
  <2>11. /\ Known' = KnownIn(all) /\ Numbers' = NumbersIn(all)
         /\ Inboxes' \in Abstract!Prompted(BoxesIn(all), Who)
         /\ Who' = Who /\ Who # Nobody
    BY <1>3, <2>6, <2>9, <2>10, Prompts
  <2>12. BoxesIn(all) = [Inboxes EXCEPT ![n] = @ \cup {m}]
    BY <2>4, <2>7, <2>8, Mapped
  <2>13. Numbers' = [Numbers EXCEPT ![n] = @ + 1]
    BY <2>4, <2>7, <2>8, <2>11, Mapped
  <2>14. Numbers'[n] = users[k].count + 1
    <3>1. NumbersIn(users) = [b \in Names |-> NumbersIn(users)[b]]
      BY DEF NumbersIn
    <3> QED
      BY <2>4, <2>7, <2>8, <2>11, <3>1
  <2>15. m = [id |-> Numbers'[n], text |-> t, read |-> FALSE]
    BY <2>14
  <2> HIDE DEF m
  <2>16. Inboxes' \in Abstract!Prompted([Inboxes EXCEPT ![n] =
           @ \cup {[id |-> Numbers'[n], text |-> t, read |-> FALSE]}], Who)
    BY <2>11, <2>12, <2>15
  <2>17. n \in Known /\ Known' = Known
    BY <2>7, <2>8, <2>11, Mapped
  <2> QED
    BY <2>11, <2>13, <2>16, <2>17 DEF Abstract!Deliver
<1> QED
  BY <1>4, <1>5

LEMMA Removes ==
  ASSUME IInv, Delete
  PROVE  Abstract!Remove \/ Abstract!See
<1>1. PICK id \in Number :
        PromptIn([users EXCEPT ![current] = delete_message(@, id)], current, << >>)
  BY DEF Delete
<1>2. current # 0 /\ current' = current /\ ListOK(users)
  BY DEF Delete, LoggedIn, IInv
<1>3. current \in 1 .. Len(users) /\ UserOK(users[current]) /\ Who = users[current].name
      /\ Who \in Names
  BY <1>2, WhoIsLoggedIn
<1> DEFINE u == users[current]
           v == delete_message(u, id)
           all == [users EXCEPT ![current] = v]
<1>4. UserOK(v) /\ v.name = u.name
  BY <1>3, DeleteKeeps
<1>5. /\ v.count = u.count
      /\ v = u \/ \E m \in ToSet(u.root) : ToSet(v.root) = ToSet(u.root) \ {m}
  BY <1>3, DeletedSet
<1>6. PromptIn(all, current, << >>)
  BY <1>1
<1>7. CASE v = u
  <2>1. all = users
    BY <1>2, <1>7 DEF ListOK
  <2>2. PromptIn(users, current, << >>)
    <3> HIDE DEF all
    <3> QED
      BY <1>6, <2>1
  <2> QED
    BY <1>2, <2>2, OnlyPrompted
<1>0. ASSUME NEW w, UserOK(w), w.name = users[current].name
      PROVE  LET new == [users EXCEPT ![current] = w] IN
             /\ KnownIn(new) = KnownIn(users)
             /\ BoxesIn(new) = [BoxesIn(users) EXCEPT ![w.name] = ToSet(w.root)]
             /\ NumbersIn(new) = [NumbersIn(users) EXCEPT ![w.name] = w.count]
  BY <1>0, <1>2, <1>3, MappedUpdate, SMTT(60)
<1> HIDE DEF v
<1>8. ASSUME NEW m \in ToSet(u.root), ToSet(v.root) = ToSet(u.root) \ {m}
      PROVE  Abstract!Remove
  <2>1. /\ KnownIn(all) = KnownIn(users)
        /\ BoxesIn(all) = [BoxesIn(users) EXCEPT ![v.name] = ToSet(v.root)]
        /\ NumbersIn(all) = [NumbersIn(users) EXCEPT ![v.name] = v.count]
    BY <1>0, <1>4, Zenon
  <2>2. /\ BoxesIn(users)[u.name] = ToSet(u.root)
        /\ NumbersIn(users)[u.name] = u.count
    BY <1>2, <1>3, MappedUser
  <2>3. ListOK(all) /\ Len(all) = Len(users) /\ all[current].name = u.name
    <3>1. ListOK(all)
      BY <1>2, <1>3, <1>4, UpdateKeeps
    <3>2. Len(all) = Len(users) /\ all[current] = v
      BY <1>2, <1>3 DEF ListOK
    <3> QED
      BY <1>4, <3>1, <3>2
  <2> HIDE DEF all
  <2>4. /\ Known' = KnownIn(all) /\ Numbers' = NumbersIn(all)
        /\ Inboxes' \in Abstract!Prompted(BoxesIn(all), Who)
        /\ Who' = Who /\ Who # Nobody
    BY <1>2, <1>6, <2>3, Prompts
  <2>5. BoxesIn(all) = [Inboxes EXCEPT ![Who] = @ \ {m}] /\ m \in Inboxes[Who]
    BY <1>3, <1>4, <1>8, <2>1, <2>2, Mapped
  <2>6. Numbers' = Numbers
    <3>1. NumbersIn(users) = [b \in Names |-> NumbersIn(users)[b]]
      BY DEF NumbersIn
    <3> QED
      BY <1>3, <1>4, <1>5, <2>1, <2>2, <2>4, <3>1, Mapped
  <2>7. Known' = Known
    BY <2>1, <2>4, Mapped
  <2>8. \E x \in Inboxes[Who] :
          Inboxes' \in Abstract!Prompted([Inboxes EXCEPT ![Who] = @ \ {x}], Who)
    BY <2>4, <2>5
  <2> QED
    BY <2>4, <2>6, <2>7, <2>8 DEF Abstract!Remove
<1> QED
  BY <1>5, <1>7, <1>8

LEMMA Simulation ==
  ASSUME IInv, [Next]_vars
  PROVE  Abstract!Next \/ UNCHANGED <<Known, Inboxes, Numbers, Who>>
<1>1. CASE CreateUser
  BY <1>1, Registers DEF Abstract!Next
<1>2. CASE Login
  BY <1>2, Enters DEF Abstract!Next
<1>3. CASE Send
  BY <1>3, Delivers DEF Abstract!Next
<1>4. CASE Read
  <2>1. PICK id \in Number :
          PromptIn([users EXCEPT ![current] = read_messages(@, {id})], current,
                   <<display(users[current], id)>>)
    BY <1>4 DEF Read
  <2>2. current # 0 /\ current' = current
    BY <1>4 DEF Read, LoggedIn
  <2>3. Abstract!See
    BY <2>1, <2>2, MarkSees
  <2> QED
    BY <2>3 DEF Abstract!Next
<1>5. CASE List
  <2>1. PromptIn([users EXCEPT ![current] = read_messages(@, Ids(@))], current,
                 display_all(users[current]))
    BY <1>5 DEF List, list_messages
  <2>2. current # 0 /\ current' = current
    BY <1>5 DEF List, LoggedIn
  <2>3. Abstract!See
    BY <2>1, <2>2, MarkSees
  <2> QED
    BY <2>3 DEF Abstract!Next
<1>6. CASE Delete
  BY <1>6, Removes DEF Abstract!Next
<1>7. CASE Logout
  <2>1. users' = users /\ current # 0 /\ current' = 0
    BY <1>7 DEF Logout, LoggedIn
  <2>2. Who # Nobody /\ Who' = Nobody
    BY <2>1, WhoIsLoggedIn DEF Who
  <2>3. Known' = Known /\ Inboxes' = Inboxes /\ Numbers' = Numbers
    BY <2>1, Mapped, WillBeMapped
  <2> QED
    BY <2>2, <2>3 DEF Abstract!Depart, Abstract!Next
<1>8. CASE InvalidChoice /\ current # 0
  <2>1. PromptIn(users, current, << >>) /\ current' = current
    BY <1>8 DEF InvalidChoice
  <2> QED
    BY <1>8, <2>1, OnlyPrompted DEF Abstract!Next
<1>9. CASE (InvalidChoice /\ current = 0) \/ Terminate \/ UNCHANGED vars
  <2>1. users' = users /\ current' = current
    BY <1>9 DEF InvalidChoice, Terminate, vars
  <2>2. Who' = Who
    BY <2>1 DEF Who
  <2> QED
    BY <2>1, <2>2, Mapped, WillBeMapped
<1> QED
  BY <1>1, <1>2, <1>3, <1>4, <1>5, <1>6, <1>7, <1>8, <1>9 DEF Next

LEMMA MailboxesStart == Init => Abstract!Init
<1> SUFFICES ASSUME Init PROVE Abstract!Init
  OBVIOUS
<1>1. users = << >> /\ DOMAIN users = {} /\ current = 0
  BY DEF Init
<1>2. Known = {} /\ Who = Nobody /\ \A n : Named(n) = {}
  BY <1>1 DEF Known, Who, Named
<1>3. Inboxes = [n \in Names |-> {}] /\ Numbers = [n \in Names |-> 0]
  BY <1>2 DEF Inboxes, Numbers, Box, Highest
<1> QED
  BY <1>2, <1>3 DEF Abstract!Init

(* The service is one of mailboxes, for lists of any length, any names,    *)
(* texts and a counter of any width: a number is never given twice, only   *)
(* the owner takes a message out, a prompt shows all unread messages or    *)
(* none (every function that walks or changes the lists).                  *)
THEOREM MailboxesAreKept == Spec => KeepsMailboxes
<1>1. IInv /\ [Next]_vars => [Abstract!Next]_(Abstract!vars)
  BY Simulation DEF Abstract!vars
<1> QED
  BY <1>1, MailboxesStart, Invariance, PTL DEF Spec, KeepsMailboxes, Abstract!Spec
=============================================================================
