--------------------------- MODULE Settings_proofs ---------------------------
(* The settings window, for every configuration that the settings can have *)
(* saved, any chords, and any number of menus, actions, slots, items and   *)
(* edits.                                                                  *)
EXTENDS MCSettings, Filter_proofs, FiniteSetTheorems

-----------------------------------------------------------------------------
(* A closed window records nothing.                                        *)

\* The hook is armed for a recorder that is on; closing ends both.
RecorderInv ==
  /\ recording \in BOOLEAN /\ capture \in BOOLEAN
  /\ capture => recording
  /\ ClosedWindowRecordsNothing

\* Whatever is typed, posted, opened and hidden: a closed window has neither
\* recorder nor hook.  (closeEvent, finishTriggerRecording)
THEOREM ClosedIsQuiet == Spec => []ClosedWindowRecordsNothing
<1>1. Init => RecorderInv
  BY DEF Init, RecorderInv, ClosedWindowRecordsNothing
<1>2. RecorderInv /\ [Next]_vars => RecorderInv'
  <2> SUFFICES ASSUME RecorderInv, [Next]_vars PROVE RecorderInv'
    OBVIOUS
  <2> USE DEF RecorderInv, ClosedWindowRecordsNothing
  <2>1. ASSUME UNCHANGED <<panel, recording, capture>> PROVE RecorderInv'
    BY <2>1
  <2>2. CASE Select \/ AddMenu \/ AddAction \/ RemoveMenu \/ RemoveAction \/ MenuPage \/ ActionPage
    <3>1. UNCHANGED <<panel, recording, capture>>
      BY <2>2 DEF Select, AddMenu, AddAction, RemoveMenu, RemoveAction, MenuPage, ActionPage, Look, Edit
    <3> QED BY <2>1, <3>1
  <2>3. CASE Save \/ UNCHANGED vars
    <3>1. UNCHANGED <<panel, recording, capture>>
      BY <2>3 DEF Save, vars
    <3> QED BY <2>1, <3>1
  <2>4. CASE Record
    BY <2>4 DEF Record
  <2>5. ASSUME NEW chord, HookDelivers(chord) PROVE RecorderInv'
    BY <2>5 DEF HookDelivers
  <2>6. ASSUME NEW chord, FinishTriggerRecording(chord) PROVE RecorderInv'
    BY <2>6 DEF FinishTriggerRecording
  <2>7. CASE FinishPosted
    BY <2>6, <2>7 DEF FinishPosted
  <2>8. ASSUME NEW chord, KeyPress(chord) PROVE RecorderInv'
    BY <2>6, <2>8 DEF KeyPress
  <2>9. CASE ShowSettingsWindow \/ OpenSearchFromTray
    BY <2>9 DEF ShowSettingsWindow, OpenSearchFromTray
  <2>10. CASE Close
    BY <2>10 DEF Close
  <2> QED BY <2>2, <2>3, <2>4, <2>5, <2>7, <2>8, <2>9, <2>10 DEF Next
<1>3. RecorderInv => ClosedWindowRecordsNothing
  BY DEF RecorderInv
<1> QED BY <1>1, <1>2, <1>3, PTL DEF Spec

-----------------------------------------------------------------------------
(* Rows that are removed, inserted and moved.                              *)

LEMMA RemoveAtMoves ==
  ASSUME NEW T, NEW s \in Seq(T), NEW i \in 1 .. Len(s)
  PROVE  RemoveAt(s, i) \in Seq(T) /\ ButOne(RemoveAt(s, i), s, i)
<1> DEFINE a == SubSeq(s, 1, i - 1)
           b == SubSeq(s, i + 1, Len(s))
           n == Len(s)
<1>1. n \in Nat /\ i \in Nat /\ 1 <= i /\ i <= n /\ \A j \in 1 .. n : s[j] \in T
  OBVIOUS
<1>2. /\ a \in Seq(T) /\ Len(a) = i - 1
      /\ \A j \in 1 .. i - 1 : a[j] = s[j]
  <2>1. 1 \in Int /\ i - 1 \in Int /\ \A j \in 1 .. i - 1 : s[j] \in T
    BY <1>1
  <2>2. /\ a \in Seq(T)
        /\ Len(a) = IF 1 <= i - 1 THEN (i - 1) - 1 + 1 ELSE 0
        /\ \A j \in 1 .. (i - 1) - 1 + 1 : a[j] = s[1 + j - 1]
    BY <2>1, SubSeqProperties
  <2> HIDE DEF a
  <2>3. (i - 1) - 1 + 1 = i - 1 /\ \A j \in 1 .. i - 1 : 1 + j - 1 = j
    BY <1>1
  <2> QED BY <1>1, <2>2, <2>3
<1>3. /\ b \in Seq(T) /\ Len(b) = n - i
      /\ \A j \in 1 .. n - i : b[j] = s[i + j]
  <2>1. i + 1 \in Int /\ n \in Int /\ \A j \in i + 1 .. n : s[j] \in T
    BY <1>1
  <2>2. /\ b \in Seq(T)
        /\ Len(b) = IF i + 1 <= n THEN n - (i + 1) + 1 ELSE 0
        /\ \A j \in 1 .. n - (i + 1) + 1 : b[j] = s[(i + 1) + j - 1]
    BY <2>1, SubSeqProperties
  <2> HIDE DEF b, n
  <2>3. n - (i + 1) + 1 = n - i /\ \A j \in 1 .. n - i : (i + 1) + j - 1 = i + j
    BY <1>1
  <2> QED BY <1>1, <2>2, <2>3
<1>4. RemoveAt(s, i) = a \o b
  BY DEF RemoveAt
<1> HIDE DEF a, b, n
<1>5. /\ a \o b \in Seq(T) /\ Len(a \o b) = Len(a) + Len(b)
      /\ \A j \in 1 .. Len(a) + Len(b) : (a \o b)[j] = IF j <= Len(a) THEN a[j] ELSE b[j - Len(a)]
  BY <1>2, <1>3, ConcatProperties
<1>6. Len(a) + Len(b) = n - 1
  BY <1>1, <1>2, <1>3
<1>7. ASSUME NEW j \in 1 .. n - 1 PROVE (a \o b)[j] = IF j < i THEN s[j] ELSE s[j + 1]
  <2>1. CASE j < i
    <3>1. j \in 1 .. i - 1 /\ j <= Len(a) /\ j \in 1 .. Len(a) + Len(b)
      BY <1>1, <1>2, <1>6, <2>1
    <3> QED BY <1>2, <1>5, <2>1, <3>1
  <2>2. CASE ~(j < i)
    <3>1. /\ j - (i - 1) \in 1 .. n - i /\ ~(j <= Len(a)) /\ j \in 1 .. Len(a) + Len(b)
          /\ i + (j - (i - 1)) = j + 1
      BY <1>1, <1>2, <1>6, <2>2
    <3>2. (a \o b)[j] = b[j - (i - 1)] /\ b[j - (i - 1)] = s[i + (j - (i - 1))]
      BY <1>2, <1>3, <1>5, <3>1
    <3> QED BY <2>2, <3>1, <3>2
  <2> QED BY <2>1, <2>2
<1>8. \A j \in 1 .. i - 1 : j \in 1 .. n - 1 /\ j < i
  BY <1>1
<1>9. \A j \in i .. n - 1 : j \in 1 .. n - 1 /\ ~(j < i)
  BY <1>1
<1> QED BY <1>4, <1>5, <1>6, <1>7, <1>8, <1>9 DEF n, ButOne

\* t is s with e at i.
WithOne(t, s, i, e) ==
  /\ Len(t) = Len(s) + 1
  /\ \A j \in 1 .. Len(s) + 1 : t[j] = IF j < i THEN s[j] ELSE IF j = i THEN e ELSE s[j - 1]

LEMMA InsertAtMoves ==
  ASSUME NEW T, NEW s \in Seq(T), NEW i \in 1 .. Len(s) + 1, NEW e \in T
  PROVE  InsertAt(s, i, e) \in Seq(T) /\ WithOne(InsertAt(s, i, e), s, i, e)
<1> DEFINE a == SubSeq(s, 1, i - 1)
           b == SubSeq(s, i, Len(s))
           c == a \o <<e>>
           n == Len(s)
<1>1. n \in Nat /\ i \in Nat /\ 1 <= i /\ i <= n + 1 /\ \A j \in 1 .. n : s[j] \in T
  OBVIOUS
<1>2. /\ a \in Seq(T) /\ Len(a) = i - 1
      /\ \A j \in 1 .. i - 1 : a[j] = s[j]
  <2>1. 1 \in Int /\ i - 1 \in Int /\ \A j \in 1 .. i - 1 : s[j] \in T
    BY <1>1
  <2>2. /\ a \in Seq(T)
        /\ Len(a) = IF 1 <= i - 1 THEN (i - 1) - 1 + 1 ELSE 0
        /\ \A j \in 1 .. (i - 1) - 1 + 1 : a[j] = s[1 + j - 1]
    BY <2>1, SubSeqProperties
  <2> HIDE DEF a
  <2>3. (i - 1) - 1 + 1 = i - 1 /\ \A j \in 1 .. i - 1 : 1 + j - 1 = j
    BY <1>1
  <2> QED BY <1>1, <2>2, <2>3
<1>3. /\ b \in Seq(T) /\ Len(b) = n - i + 1
      /\ \A j \in 1 .. n - i + 1 : b[j] = s[i + j - 1]
  <2>1. i \in Int /\ n \in Int /\ \A j \in i .. n : s[j] \in T
    BY <1>1
  <2>2. /\ b \in Seq(T)
        /\ Len(b) = IF i <= n THEN n - i + 1 ELSE 0
        /\ \A j \in 1 .. n - i + 1 : b[j] = s[i + j - 1]
    BY <2>1, SubSeqProperties
  <2> HIDE DEF b, n
  <2> QED BY <1>1, <2>2
<1>4. InsertAt(s, i, e) = c \o b
  BY DEF InsertAt
<1>5. /\ c \in Seq(T) /\ Len(c) = i
      /\ \A j \in 1 .. i : c[j] = IF j < i THEN s[j] ELSE e
  <2>1. <<e>> \in Seq(T) /\ Len(<<e>>) = 1 /\ <<e>>[1] = e
    OBVIOUS
  <2> DEFINE one == <<e>>
  <2> HIDE DEF a, one
  <2>2. /\ a \o one \in Seq(T) /\ Len(a \o one) = Len(a) + Len(one)
        /\ \A j \in 1 .. Len(a) + Len(one) :
             (a \o one)[j] = IF j <= Len(a) THEN a[j] ELSE one[j - Len(a)]
    <3>1. one \in Seq(T)
      BY <2>1 DEF one
    <3> QED BY <1>2, <3>1, ConcatProperties
  <2>3. ASSUME NEW j \in 1 .. i PROVE (a \o one)[j] = IF j < i THEN s[j] ELSE e
    <3>1. CASE j < i
      <4>1. j \in 1 .. i - 1 /\ j <= Len(a) /\ j \in 1 .. Len(a) + 1
        BY <1>1, <1>2, <3>1
      <4> QED BY <1>2, <2>1, <2>2, <3>1, <4>1 DEF one
    <3>2. CASE ~(j < i)
      <4>1. j = i /\ ~(j <= Len(a)) /\ j \in 1 .. Len(a) + 1 /\ j - Len(a) = 1
        BY <1>1, <1>2, <3>2
      <4> QED BY <2>1, <2>2, <3>2, <4>1 DEF one
    <3> QED BY <3>1, <3>2
  <2>4. c = a \o one
    BY DEF one
  <2>5. Len(one) = 1
    BY <2>1 DEF one
  <2> HIDE DEF c
  <2> QED BY <1>1, <1>2, <2>2, <2>3, <2>4, <2>5
<1> HIDE DEF a, b, c, n
<1>6. /\ c \o b \in Seq(T) /\ Len(c \o b) = Len(c) + Len(b)
      /\ \A j \in 1 .. Len(c) + Len(b) : (c \o b)[j] = IF j <= Len(c) THEN c[j] ELSE b[j - Len(c)]
  BY <1>3, <1>5, ConcatProperties
<1>7. Len(c) + Len(b) = n + 1
  BY <1>1, <1>3, <1>5
<1>8. ASSUME NEW j \in 1 .. n + 1
      PROVE  (c \o b)[j] = IF j < i THEN s[j] ELSE IF j = i THEN e ELSE s[j - 1]
  <2>1. CASE j <= i
    <3>1. j \in 1 .. i /\ j <= Len(c) /\ j \in 1 .. Len(c) + Len(b)
      BY <1>1, <1>5, <1>7, <2>1
    <3>2. (c \o b)[j] = c[j] /\ c[j] = IF j < i THEN s[j] ELSE e
      BY <1>5, <1>6, <3>1
    <3> QED BY <1>1, <2>1, <3>2
  <2>2. CASE ~(j <= i)
    <3>1. /\ j - i \in 1 .. n - i + 1 /\ ~(j <= Len(c)) /\ j \in 1 .. Len(c) + Len(b)
          /\ i + (j - i) - 1 = j - 1 /\ ~(j < i) /\ j # i
      BY <1>1, <1>5, <1>7, <2>2
    <3>2. (c \o b)[j] = b[j - i] /\ b[j - i] = s[i + (j - i) - 1]
      BY <1>3, <1>5, <1>6, <3>1
    <3> QED BY <3>1, <3>2
  <2> QED BY <1>1, <2>1, <2>2
<1> QED BY <1>4, <1>6, <1>7, <1>8 DEF n, WithOne

\* A move takes nothing away and brings nothing in.
LEMMA MovedMoves ==
  ASSUME NEW T, NEW s \in Seq(T), NEW from \in 1 .. Len(s), NEW to \in 1 .. Len(s)
  PROVE  /\ Moved(s, from, to) \in Seq(T) /\ Len(Moved(s, from, to)) = Len(s)
         /\ \A j \in 1 .. Len(s) : \E i \in 1 .. Len(s) : Moved(s, from, to)[j] = s[i]
<1> DEFINE r == RemoveAt(s, from)
           n == Len(s)
<1>1. n \in Nat /\ from \in Nat /\ to \in Nat /\ 1 <= to /\ to <= n /\ 1 <= from /\ from <= n
      /\ s[from] \in T
  OBVIOUS
<1>2. /\ r \in Seq(T) /\ Len(r) = n - 1
      /\ \A j \in 1 .. n - 1 : r[j] = IF j < from THEN s[j] ELSE s[j + 1]
  <2>1. r \in Seq(T) /\ ButOne(r, s, from)
    BY RemoveAtMoves, Zenon
  <2> HIDE DEF r
  <2> QED BY <1>1, <2>1 DEF ButOne
<1> HIDE DEF r, n
<1>3. to \in 1 .. Len(r) + 1 /\ Len(r) + 1 = n
  BY <1>1, <1>2
<1> DEFINE e == s[from]
           t == InsertAt(r, to, e)
<1>4. /\ t \in Seq(T) /\ Len(t) = Len(r) + 1
      /\ \A j \in 1 .. Len(r) + 1 : t[j] = IF j < to THEN r[j] ELSE IF j = to THEN e ELSE r[j - 1]
  <2>1. e \in T
    BY <1>1
  <2>2. t \in Seq(T) /\ WithOne(t, r, to, e)
    BY <1>2, <1>3, <2>1, InsertAtMoves, Zenon
  <2> QED BY <2>2 DEF WithOne
<1> HIDE DEF t
<1>5. \A j \in 1 .. n - 1 : \E i \in 1 .. n : r[j] = s[i]
  <2> SUFFICES ASSUME NEW j \in 1 .. n - 1 PROVE \E i \in 1 .. n : r[j] = s[i]
    OBVIOUS
  <2>1. j \in 1 .. n /\ j + 1 \in 1 .. n
    BY <1>1
  <2> QED BY <1>2, <2>1
<1>6. ASSUME NEW j \in 1 .. n PROVE \E i \in 1 .. n : t[j] = s[i]
  <2>1. CASE j < to
    <3>1. j \in 1 .. n - 1
      BY <1>1, <2>1
    <3> QED BY <1>3, <1>4, <1>5, <2>1, <3>1
  <2>2. CASE j = to
    <3>1. t[j] = s[from] /\ from \in 1 .. n
      BY <1>1, <1>3, <1>4, <2>2
    <3> QED BY <3>1
  <2>3. CASE ~(j < to) /\ j # to
    <3>1. j - 1 \in 1 .. n - 1 /\ j \in 1 .. Len(r) + 1
      BY <1>1, <1>3, <2>3
    <3>2. t[j] = r[j - 1]
      BY <1>4, <2>3, <3>1
    <3> QED BY <1>5, <3>1, <3>2
  <2> QED BY <2>1, <2>2, <2>3
<1>7. Moved(s, from, to) = t
  BY DEF Moved, r, t
<1> QED BY <1>3, <1>4, <1>6, <1>7 DEF n
-----------------------------------------------------------------------------
(* A sound working copy: ids apart, slots and targets known.               *)

MenuType == [id : Nat \ {None}, trigger : Chords \cup {None}, named : BOOLEAN,
             useHook : BOOLEAN, slots : Seq(Nat)]
ItemType == [type : {"menu", "script", "close"}, arg : Int]
ActionType == [id : Nat \ {None}, channel : Int, items : Seq(ItemType)]
Copy == [menus : Seq(MenuType), actions : Seq(ActionType)]

Apart(e) == \A i, j \in 1 .. Len(e) : e[i].id = e[j].id => i = j

SlotsIn(slots, known) == \A i \in 1 .. Len(slots) : slots[i] \in known
TargetsIn(its, known) ==
  \A i \in 1 .. Len(its) : its[i].type = "menu" => its[i].arg \in known \cup {None}

Sound(w) ==
  /\ w \in Copy
  /\ Apart(w.menus) /\ Apart(w.actions)
  /\ \A m \in 1 .. Len(w.menus) : SlotsIn(w.menus[m].slots, Ids(w.actions))
  /\ \A a \in 1 .. Len(w.actions) : TargetsIn(w.actions[a].items, Ids(w.menus))

\* There are as many ids as rows if they are apart.
LEMMA IdsCount ==
  ASSUME NEW T, NEW e \in Seq(T)
  PROVE  /\ IsFiniteSet(Ids(e)) /\ Cardinality(Ids(e)) \in Nat /\ Cardinality(Ids(e)) <= Len(e)
         /\ Cardinality(Ids(e)) = Len(e) <=> Apart(e)
<1> DEFINE f == [i \in 1 .. Len(e) |-> e[i].id]
<1>1. Len(e) \in Nat /\ DOMAIN e = 1 .. Len(e)
  OBVIOUS
<1>2. IsFiniteSet(1 .. Len(e)) /\ Cardinality(1 .. Len(e)) = Len(e)
  <2>1. Cardinality(1 .. Len(e)) = IF 1 > Len(e) THEN 0 ELSE Len(e) - 1 + 1
    BY <1>1, FS_Interval
  <2>2. IsFiniteSet(1 .. Len(e))
    BY <1>1, FS_Interval
  <2> QED BY <1>1, <2>1, <2>2
<1>3. Ids(e) = {f[i] : i \in 1 .. Len(e)}
  BY <1>1 DEF Ids
<1>4. f \in Surjection(1 .. Len(e), Ids(e))
  <2>1. f \in [1 .. Len(e) -> Ids(e)]
    BY <1>1 DEF Ids
  <2> HIDE DEF f
  <2> QED BY <1>3, <2>1 DEF Surjection
<1>5. f \in Injection(1 .. Len(e), Ids(e)) <=> Apart(e)
  <2>1. f \in [1 .. Len(e) -> Ids(e)] /\ \A i \in 1 .. Len(e) : f[i] = e[i].id
    BY <1>4 DEF Surjection
  <2> HIDE DEF f
  <2> QED BY <2>1 DEF Injection, IsInjective, Apart
<1> HIDE DEF f
<1> QED BY <1>1, <1>2, <1>4, <1>5, FS_Surjection, FS_CardinalityType

LEMMA LeastOf ==
  ASSUME NEW S, S # {}, S \subseteq Nat
  PROVE  Min(S) \in S /\ \A y \in S : Min(S) <= y
<1>1. PICK x \in S : \A y \in S : ~(<<y, x>> \in OpToRel(<, Nat))
  BY NatLessThanWellFounded, WFMin
<1>2. ASSUME NEW y \in S PROVE x <= y
  <2>1. x \in Nat /\ y \in Nat
    OBVIOUS
  <2>2. y < x => <<y, x>> \in OpToRel(<, Nat)
    BY <2>1 DEF OpToRel
  <2>3. ~(y < x)
    BY <1>1, <2>2
  <2> QED BY <2>1, <2>3
<1> QED BY <1>2 DEF Min

\* A free id is free.
LEMMA FreeIdIsFree ==
  ASSUME NEW T, NEW e \in Seq(T)
  PROVE  FreeId(e) \in Nat \ {0} /\ FreeId(e) \notin Ids(e)
<1> DEFINE n == Len(e)
           S == 1 .. n + 1 \ Ids(e)
<1>1. n \in Nat /\ IsFiniteSet(Ids(e)) /\ Cardinality(Ids(e)) <= n /\ Cardinality(Ids(e)) \in Nat
  BY IdsCount
<1>2. S # {}
  <2> SUFFICES ASSUME S = {} PROVE FALSE
    OBVIOUS
  <2>1. (1 .. n + 1) \in SUBSET Ids(e)
    OBVIOUS
  <2>2. Cardinality(1 .. n + 1) = IF 1 > n + 1 THEN 0 ELSE (n + 1) - 1 + 1
    BY <1>1, FS_Interval
  <2>3. Cardinality(1 .. n + 1) <= Cardinality(Ids(e))
    BY <1>1, <2>1, FS_Subset
  <2> QED BY <1>1, <2>2, <2>3
<1>3. S \subseteq Nat /\ 0 \notin S
  BY <1>1
<1>4. FreeId(e) = Min(S)
  BY DEF FreeId
<1> HIDE DEF S
<1>5. FreeId(e) \in S
  BY <1>2, <1>3, <1>4, LeastOf
<1> QED BY <1>3, <1>5 DEF S

-----------------------------------------------------------------------------
(* A change of one menu or of one action.                                  *)

SetMenu(w, m, x) == [menus |-> [w.menus EXCEPT ![m] = x], actions |-> w.actions]
SetAction(w, a, x) == [menus |-> w.menus, actions |-> [w.actions EXCEPT ![a] = x]]

\* It leaves the others, and all ids.
LEMMA RowReplaced ==
  ASSUME NEW T, NEW e \in Seq(T), NEW k \in 1 .. Len(e), NEW x \in T, x.id = e[k].id
  PROVE  LET f == [e EXCEPT ![k] = x]
         IN  /\ f \in Seq(T) /\ Len(f) = Len(e) /\ f[k] = x
             /\ \A i \in 1 .. Len(e) : f[i].id = e[i].id /\ (i # k => f[i] = e[i])
             /\ Ids(f) = Ids(e) /\ (Apart(e) => Apart(f))
<1> DEFINE f == [e EXCEPT ![k] = x]
<1>1. Len(e) \in Nat /\ DOMAIN e = 1 .. Len(e)
  OBVIOUS
<1>2. f \in Seq(T) /\ Len(f) = Len(e) /\ DOMAIN f = 1 .. Len(e)
  OBVIOUS
<1>3. f[k] = x /\ \A i \in 1 .. Len(e) : i # k => f[i] = e[i]
  OBVIOUS
<1> HIDE DEF f
<1>4. \A i \in 1 .. Len(e) : f[i].id = e[i].id
  BY <1>3
<1>5. Ids(f) = Ids(e)
  BY <1>1, <1>2, <1>4 DEF Ids
<1> QED BY <1>2, <1>3, <1>4, <1>5 DEF f, Apart

LEMMA SetMenuSound ==
  ASSUME NEW w, Sound(w), NEW m \in 1 .. Len(w.menus), NEW x \in MenuType,
         x.id = w.menus[m].id, SlotsIn(x.slots, Ids(w.actions))
  PROVE  /\ Sound(SetMenu(w, m, x))
         /\ SetMenu(w, m, x).actions = w.actions
         /\ Len(SetMenu(w, m, x).menus) = Len(w.menus)
         /\ SetMenu(w, m, x).menus[m] = x
         /\ \A n \in 1 .. Len(w.menus) : /\ SetMenu(w, m, x).menus[n].id = w.menus[n].id
                                         /\ n # m => SetMenu(w, m, x).menus[n] = w.menus[n]
<1> DEFINE f == [w.menus EXCEPT ![m] = x]
<1>1. /\ w.menus \in Seq(MenuType) /\ w.actions \in Seq(ActionType)
      /\ Apart(w.menus) /\ Apart(w.actions)
      /\ \A n \in 1 .. Len(w.menus) : SlotsIn(w.menus[n].slots, Ids(w.actions))
      /\ \A a \in 1 .. Len(w.actions) : TargetsIn(w.actions[a].items, Ids(w.menus))
  BY DEF Sound, Copy
<1> HIDE DEF MenuType
<1>2. /\ f \in Seq(MenuType) /\ Len(f) = Len(w.menus) /\ f[m] = x
      /\ \A i \in 1 .. Len(w.menus) : f[i].id = w.menus[i].id /\ (i # m => f[i] = w.menus[i])
      /\ Ids(f) = Ids(w.menus) /\ (Apart(w.menus) => Apart(f))
  BY <1>1, RowReplaced
<1>3. SetMenu(w, m, x) = [menus |-> f, actions |-> w.actions]
  BY DEF SetMenu
<1> HIDE DEF f
<1>4. \A n \in 1 .. Len(f) : SlotsIn(f[n].slots, Ids(w.actions))
  BY <1>1, <1>2
<1> QED BY <1>1, <1>2, <1>3, <1>4 DEF Sound, Copy

LEMMA SetActionSound ==
  ASSUME NEW w, Sound(w), NEW a \in 1 .. Len(w.actions), NEW x \in ActionType,
         x.id = w.actions[a].id, TargetsIn(x.items, Ids(w.menus))
  PROVE  /\ Sound(SetAction(w, a, x))
         /\ SetAction(w, a, x).menus = w.menus
         /\ Len(SetAction(w, a, x).actions) = Len(w.actions)
         /\ SetAction(w, a, x).actions[a] = x
         /\ \A n \in 1 .. Len(w.actions) : /\ SetAction(w, a, x).actions[n].id = w.actions[n].id
                                           /\ n # a => SetAction(w, a, x).actions[n] = w.actions[n]
<1> DEFINE f == [w.actions EXCEPT ![a] = x]
<1>1. /\ w.menus \in Seq(MenuType) /\ w.actions \in Seq(ActionType)
      /\ Apart(w.menus) /\ Apart(w.actions)
      /\ \A n \in 1 .. Len(w.menus) : SlotsIn(w.menus[n].slots, Ids(w.actions))
      /\ \A b \in 1 .. Len(w.actions) : TargetsIn(w.actions[b].items, Ids(w.menus))
  BY DEF Sound, Copy
<1> HIDE DEF ActionType
<1>2. /\ f \in Seq(ActionType) /\ Len(f) = Len(w.actions) /\ f[a] = x
      /\ \A i \in 1 .. Len(w.actions) : f[i].id = w.actions[i].id /\ (i # a => f[i] = w.actions[i])
      /\ Ids(f) = Ids(w.actions) /\ (Apart(w.actions) => Apart(f))
  BY <1>1, RowReplaced
<1>3. SetAction(w, a, x) = [menus |-> w.menus, actions |-> f]
  BY DEF SetAction
<1> HIDE DEF f
<1>4. \A n \in 1 .. Len(f) : TargetsIn(f[n].items, Ids(w.menus))
  BY <1>1, <1>2
<1> QED BY <1>1, <1>2, <1>3, <1>4 DEF Sound, Copy
-----------------------------------------------------------------------------
(* Rows that are added and removed.                                        *)

LEMMA RowAdded ==
  ASSUME NEW T, NEW e \in Seq(T), NEW x \in T
  PROVE  /\ Append(e, x) \in Seq(T) /\ Len(Append(e, x)) = Len(e) + 1
         /\ Append(e, x)[Len(e) + 1] = x
         /\ \A i \in 1 .. Len(e) : Append(e, x)[i] = e[i]
         /\ Ids(Append(e, x)) = Ids(e) \cup {x.id}
         /\ Apart(e) /\ x.id \notin Ids(e) => Apart(Append(e, x))
<1> DEFINE f == Append(e, x)
           n == Len(e)
<1>1. n \in Nat /\ DOMAIN e = 1 .. n
  OBVIOUS
<1>2. /\ f \in Seq(T) /\ Len(f) = n + 1 /\ f[n + 1] = x /\ DOMAIN f = 1 .. n + 1
      /\ \A i \in 1 .. n : f[i] = e[i]
  BY AppendProperties
<1> HIDE DEF f, n
<1>3. \A i \in 1 .. n + 1 : i \in 1 .. n \/ i = n + 1
  BY <1>1
<1>4. 1 .. n \subseteq 1 .. n + 1 /\ n + 1 \in 1 .. n + 1
  BY <1>1
<1>5. Ids(e) = {e[i].id : i \in 1 .. n} /\ Ids(f) = {f[i].id : i \in 1 .. n + 1}
  BY <1>1, <1>2 DEF Ids
<1>6. Ids(f) = Ids(e) \cup {x.id}
  BY <1>2, <1>3, <1>4, <1>5
<1>7. ASSUME Apart(e), x.id \notin Ids(e) PROVE Apart(f)
  <2>1. \A i \in 1 .. n : f[i].id # x.id
    BY <1>2, <1>5, <1>7
  <2>2. \A i, j \in 1 .. n : f[i].id = f[j].id => i = j
    BY <1>2, <1>7 DEF Apart, n
  <2> QED BY <1>2, <1>3, <2>1, <2>2 DEF Apart
<1> QED BY <1>2, <1>6, <1>7 DEF f, n

\* f has the rows of e but the k-th.
LessRow(f, e, k) ==
  /\ Apart(f) /\ Ids(f) = Ids(e) \ {e[k].id}
  /\ \A j \in 1 .. Len(f) : \E i \in 1 .. Len(e) : f[j] = e[i]

LEMMA RowRemoved ==
  ASSUME NEW T, NEW e \in Seq(T), NEW k \in 1 .. Len(e), Apart(e)
  PROVE  RemoveAt(e, k) \in Seq(T) /\ LessRow(RemoveAt(e, k), e, k)
<1> DEFINE f == RemoveAt(e, k)
           n == Len(e)
           g(j) == IF j < k THEN j ELSE j + 1
<1>1. n \in Nat /\ DOMAIN e = 1 .. n /\ k \in 1 .. n
  OBVIOUS
<1>2. /\ f \in Seq(T) /\ Len(f) = n - 1 /\ DOMAIN f = 1 .. n - 1
      /\ \A j \in 1 .. n - 1 : f[j] = e[g(j)]
  <2>1. f \in Seq(T) /\ ButOne(f, e, k)
    BY RemoveAtMoves, Zenon
  <2> HIDE DEF f
  <2>2. \A j \in 1 .. n - 1 : (j < k => j \in 1 .. k - 1) /\ (~(j < k) => j \in k .. n - 1)
    BY <1>1
  <2> QED BY <1>1, <2>1, <2>2 DEF ButOne
<1> HIDE DEF f, n
<1>3. \A j \in 1 .. n - 1 : g(j) \in 1 .. n /\ g(j) # k
  BY <1>1
<1>4. \A i, j \in 1 .. n - 1 : g(i) = g(j) => i = j
  BY <1>1
<1>5. \A i \in 1 .. n : i # k => \E j \in 1 .. n - 1 : g(j) = i
  <2> SUFFICES ASSUME NEW i \in 1 .. n, i # k PROVE \E j \in 1 .. n - 1 : g(j) = i
    OBVIOUS
  <2>1. CASE i < k
    <3>1. i \in 1 .. n - 1 /\ g(i) = i
      BY <1>1, <2>1
    <3> QED BY <3>1
  <2>2. CASE ~(i < k)
    <3>1. i - 1 \in 1 .. n - 1 /\ g(i - 1) = i
      BY <1>1, <2>2
    <3> QED BY <3>1
  <2> QED BY <2>1, <2>2
<1> HIDE DEF g
<1>6. \A i, j \in 1 .. n : e[i].id = e[j].id => i = j
  BY DEF Apart, n
<1>7. Ids(e) = {e[i].id : i \in 1 .. n} /\ Ids(f) = {e[g(j)].id : j \in 1 .. n - 1}
  BY <1>1, <1>2 DEF Ids
<1>8. Ids(f) = Ids(e) \ {e[k].id}
  BY <1>1, <1>3, <1>5, <1>6, <1>7
<1>9. Apart(f)
  BY <1>2, <1>3, <1>4, <1>6 DEF Apart
<1>10. \A j \in 1 .. n - 1 : \E i \in 1 .. n : f[j] = e[i]
  BY <1>2, <1>3
<1> QED BY <1>2, <1>8, <1>9, <1>10 DEF f, n, LessRow

\* A menu or an action added refers to nothing, and has a new id.
LEMMA AddMenuSound ==
  ASSUME NEW w, Sound(w), NEW x \in MenuType, x.id \notin Ids(w.menus), x.slots = <<>>
  PROVE  /\ Sound([w EXCEPT !.menus = Append(@, x)])
         /\ [w EXCEPT !.menus = Append(@, x)] = [menus |-> Append(w.menus, x), actions |-> w.actions]
<1> DEFINE f == Append(w.menus, x)
<1>1. /\ w.menus \in Seq(MenuType) /\ w.actions \in Seq(ActionType)
      /\ Apart(w.menus) /\ Apart(w.actions)
      /\ \A n \in 1 .. Len(w.menus) : SlotsIn(w.menus[n].slots, Ids(w.actions))
      /\ \A b \in 1 .. Len(w.actions) : TargetsIn(w.actions[b].items, Ids(w.menus))
  BY DEF Sound, Copy
<1>2. [w EXCEPT !.menus = Append(@, x)] = [menus |-> f, actions |-> w.actions]
  BY DEF Sound, Copy
<1> HIDE DEF MenuType
<1>3. /\ f \in Seq(MenuType) /\ Len(f) = Len(w.menus) + 1 /\ f[Len(w.menus) + 1] = x
      /\ \A i \in 1 .. Len(w.menus) : f[i] = w.menus[i]
      /\ Ids(f) = Ids(w.menus) \cup {x.id} /\ Apart(f)
  BY <1>1, RowAdded
<1> HIDE DEF f
<1>4. Len(w.menus) \in Nat /\ Len(x.slots) = 0
  BY <1>1
<1>5. \A n \in 1 .. Len(f) : n \in 1 .. Len(w.menus) \/ n = Len(w.menus) + 1
  BY <1>3, <1>4
<1>6. \A n \in 1 .. Len(f) : SlotsIn(f[n].slots, Ids(w.actions))
  BY <1>1, <1>3, <1>4, <1>5 DEF SlotsIn
<1>7. \A b \in 1 .. Len(w.actions) : TargetsIn(w.actions[b].items, Ids(f))
  BY <1>1, <1>3 DEF TargetsIn
<1> QED BY <1>1, <1>2, <1>3, <1>6, <1>7 DEF Sound, Copy, f

LEMMA AddActionSound ==
  ASSUME NEW w, Sound(w), NEW x \in ActionType, x.id \notin Ids(w.actions), x.items = <<>>
  PROVE  /\ Sound([w EXCEPT !.actions = Append(@, x)])
         /\ [w EXCEPT !.actions = Append(@, x)] = [menus |-> w.menus, actions |-> Append(w.actions, x)]
<1> DEFINE f == Append(w.actions, x)
<1>1. /\ w.menus \in Seq(MenuType) /\ w.actions \in Seq(ActionType)
      /\ Apart(w.menus) /\ Apart(w.actions)
      /\ \A n \in 1 .. Len(w.menus) : SlotsIn(w.menus[n].slots, Ids(w.actions))
      /\ \A b \in 1 .. Len(w.actions) : TargetsIn(w.actions[b].items, Ids(w.menus))
  <2> HIDE DEF MenuType, ActionType
  <2>1. w \in Copy
    BY DEF Sound
  <2>2. w.menus \in Seq(MenuType) /\ w.actions \in Seq(ActionType)
    BY <2>1 DEF Copy
  <2> QED BY <2>2 DEF Sound
<1>2. [w EXCEPT !.actions = Append(@, x)] = [menus |-> w.menus, actions |-> f]
  <2> HIDE DEF MenuType, ActionType, f
  <2>1. w = [menus |-> w.menus, actions |-> w.actions]
    BY DEF Sound, Copy
  <2> QED BY <2>1 DEF f
<1> HIDE DEF ActionType
<1>3. /\ f \in Seq(ActionType) /\ Len(f) = Len(w.actions) + 1 /\ f[Len(w.actions) + 1] = x
      /\ \A i \in 1 .. Len(w.actions) : f[i] = w.actions[i]
      /\ Ids(f) = Ids(w.actions) \cup {x.id} /\ Apart(f)
  BY <1>1, RowAdded
<1> HIDE DEF f
<1>4. Len(w.actions) \in Nat /\ Len(x.items) = 0
  BY <1>1
<1>5. \A n \in 1 .. Len(f) : n \in 1 .. Len(w.actions) \/ n = Len(w.actions) + 1
  BY <1>3, <1>4
<1>6. \A n \in 1 .. Len(w.menus) : SlotsIn(w.menus[n].slots, Ids(f))
  BY <1>1, <1>3 DEF SlotsIn
<1>7. \A b \in 1 .. Len(f) : TargetsIn(f[b].items, Ids(w.menus))
  BY <1>1, <1>3, <1>4, <1>5 DEF TargetsIn
<1> QED BY <1>1, <1>2, <1>3, <1>6, <1>7 DEF Sound, Copy, f

\* With a menu goes what opens it.
LEMMA RemoveMenuSound ==
  ASSUME NEW w, Sound(w), NEW k \in 1 .. Len(w.menus)
  PROVE  /\ Sound(ClearMenuReferences([w EXCEPT !.menus = RemoveAt(@, k)], w.menus[k].id))
         /\ ClearMenuReferences([w EXCEPT !.menus = RemoveAt(@, k)], w.menus[k].id).menus =
              RemoveAt(w.menus, k)
<1> DEFINE id == w.menus[k].id
           f == RemoveAt(w.menus, k)
           clear(its) == [i \in DOMAIN its |-> ClearedItem(its[i], id)]
           h == [a \in DOMAIN w.actions |->
                   [w.actions[a] EXCEPT !.items = clear(w.actions[a].items)]]
<1>1. /\ w.menus \in Seq(MenuType) /\ w.actions \in Seq(ActionType)
      /\ Apart(w.menus) /\ Apart(w.actions)
      /\ \A n \in 1 .. Len(w.menus) : SlotsIn(w.menus[n].slots, Ids(w.actions))
      /\ \A b \in 1 .. Len(w.actions) : TargetsIn(w.actions[b].items, Ids(w.menus))
  BY DEF Sound, Copy
<1>2. ClearMenuReferences([w EXCEPT !.menus = RemoveAt(@, k)], id) = [menus |-> f, actions |-> h]
  <2> DEFINE u == [w EXCEPT !.menus = RemoveAt(@, k)]
  <2>1. u = [menus |-> f, actions |-> w.actions]
    BY DEF Sound, Copy
  <2> HIDE DEF u
  <2>2. u.actions = w.actions /\ u.menus = f
    BY <2>1
  <2>3. ClearMenuReferences(u, id) = [u EXCEPT !.actions = h]
    BY <2>2 DEF ClearMenuReferences
  <2> HIDE DEF h, f
  <2>4. [u EXCEPT !.actions = h] = [menus |-> f, actions |-> h]
    BY <2>1
  <2> QED BY <2>3, <2>4 DEF u
<1>3. /\ f \in Seq(MenuType) /\ Apart(f) /\ Ids(f) = Ids(w.menus) \ {id}
      /\ \A j \in 1 .. Len(f) : \E i \in 1 .. Len(w.menus) : f[j] = w.menus[i]
  <2>1. w.menus \in Seq(MenuType) /\ Apart(w.menus)
    BY <1>1
  <2>2. f \in Seq(MenuType) /\ LessRow(f, w.menus, k)
    BY <2>1, RowRemoved, Zenon
  <2> HIDE DEF MenuType, f
  <2> QED BY <2>2 DEF LessRow
<1>4. DOMAIN w.actions = 1 .. Len(w.actions) /\ Len(w.actions) \in Nat
  BY <1>1
<1>5. ASSUME NEW a \in 1 .. Len(w.actions)
      PROVE  /\ h[a] \in ActionType /\ h[a].id = w.actions[a].id
             /\ h[a].items = clear(w.actions[a].items)
             /\ TargetsIn(h[a].items, Ids(f))
  <2> DEFINE its == w.actions[a].items
  <2>1. w.actions[a] \in ActionType /\ its \in Seq(ItemType)
    <3>1. w.actions[a] \in ActionType
      <4> HIDE DEF ActionType
      <4> QED BY <1>1
    <3> QED BY <3>1 DEF ActionType
  <2>2. h[a] = [w.actions[a] EXCEPT !.items = clear(its)]
    BY <1>4
  <2> HIDE DEF its, f, h
  <2>3. Len(its) \in Nat /\ DOMAIN its = 1 .. Len(its)
    BY <2>1
  <2>4. ASSUME NEW i \in 1 .. Len(its)
        PROVE  /\ clear(its)[i] \in ItemType
               /\ clear(its)[i].type = its[i].type
               /\ clear(its)[i].arg = IF its[i].type = "menu" /\ its[i].arg = id THEN None ELSE its[i].arg
    <3>1. its[i] \in ItemType
      BY <2>1
    <3> QED BY <2>3, <3>1 DEF ItemType, None, ClearedItem
  <2>5. clear(its) \in Seq(ItemType) /\ Len(clear(its)) = Len(its)
    <3>1. clear(its) \in [1 .. Len(its) -> ItemType]
      BY <2>3, <2>4
    <3> HIDE DEF clear, ItemType
    <3> QED BY <2>3, <3>1
  <2>6. \A i \in 1 .. Len(its) : its[i].type = "menu" => its[i].arg \in Ids(w.menus) \cup {None}
    BY <1>1 DEF TargetsIn, its
  <2>7. TargetsIn(clear(its), Ids(f))
    <3> DEFINE c == clear(its)
    <3>1. /\ Len(c) = Len(its)
          /\ \A i \in 1 .. Len(its) :
               /\ c[i].type = its[i].type
               /\ c[i].arg = IF its[i].type = "menu" /\ its[i].arg = id THEN None ELSE its[i].arg
      BY <2>4, <2>5
    <3>2. Ids(f) = Ids(w.menus) \ {id}
      BY <1>3
    <3> HIDE DEF c, id
    <3>3. \A i \in 1 .. Len(c) : c[i].type = "menu" => c[i].arg \in Ids(f) \cup {None}
      BY <2>6, <3>1, <3>2
    <3> QED BY <3>3 DEF TargetsIn, c
  <2> HIDE DEF clear
  <2>8. h[a] \in ActionType /\ h[a].id = w.actions[a].id /\ h[a].items = clear(its)
    BY <2>1, <2>2, <2>5 DEF ActionType
  <2> QED BY <2>7, <2>8 DEF its
<1>6. h \in Seq(ActionType) /\ Len(h) = Len(w.actions)
  <2>1. h \in [1 .. Len(w.actions) -> ActionType]
    <3>1. h = [a \in 1 .. Len(w.actions) |-> h[a]]
      BY <1>4
    <3> HIDE DEF h, ActionType
    <3> QED BY <1>5, <3>1
  <2> HIDE DEF h, ActionType
  <2> QED BY <1>4, <2>1
<1>7. Apart(h) /\ Ids(h) = Ids(w.actions)
  <2>1. DOMAIN h = 1 .. Len(w.actions)
    BY <1>4
  <2>2. \A j \in 1 .. Len(w.actions) : h[j].id = w.actions[j].id
    BY <1>5
  <2> HIDE DEF h
  <2>3. Apart(h)
    BY <1>1, <1>6, <2>2 DEF Apart
  <2>4. Ids(h) = Ids(w.actions)
    BY <1>4, <2>1, <2>2 DEF Ids
  <2> QED BY <2>3, <2>4
<1> HIDE DEF h, f
<1>8. \A n \in 1 .. Len(f) : SlotsIn(f[n].slots, Ids(h))
  BY <1>1, <1>3, <1>7
<1>9. \A b \in 1 .. Len(h) : TargetsIn(h[b].items, Ids(f))
  BY <1>5, <1>6
<1>10. Sound([menus |-> f, actions |-> h])
  BY <1>3, <1>6, <1>7, <1>8, <1>9 DEF Sound, Copy
<1> QED BY <1>2, <1>10 DEF f

\* With an action go its slots.
LEMMA RemoveActionSound ==
  ASSUME NEW w, Sound(w), NEW k \in 1 .. Len(w.actions)
  PROVE  LET v == DeleteActionReferences([w EXCEPT !.actions = RemoveAt(@, k)], w.actions[k].id)
         IN  /\ Sound(v) /\ Len(v.menus) = Len(w.menus)
             /\ \A m \in 1 .. Len(w.menus) : /\ v.menus[m].trigger = w.menus[m].trigger
                                             /\ v.menus[m].named = w.menus[m].named
<1> DEFINE id == w.actions[k].id
           f == RemoveAt(w.actions, k)
           left(s) == Only(s, Range(s) \ {id})
           h == [m \in DOMAIN w.menus |->
                   [w.menus[m] EXCEPT !.slots = left(w.menus[m].slots)]]
<1>1. /\ w.menus \in Seq(MenuType) /\ w.actions \in Seq(ActionType)
      /\ Apart(w.menus) /\ Apart(w.actions)
      /\ \A n \in 1 .. Len(w.menus) : SlotsIn(w.menus[n].slots, Ids(w.actions))
      /\ \A b \in 1 .. Len(w.actions) : TargetsIn(w.actions[b].items, Ids(w.menus))
  BY DEF Sound, Copy
<1>2. DeleteActionReferences([w EXCEPT !.actions = RemoveAt(@, k)], id) = [menus |-> h, actions |-> f]
  <2> DEFINE u == [w EXCEPT !.actions = RemoveAt(@, k)]
  <2>1. u = [menus |-> w.menus, actions |-> f]
    BY DEF Sound, Copy
  <2> HIDE DEF u
  <2>2. u.menus = w.menus /\ u.actions = f
    BY <2>1
  <2>3. DeleteActionReferences(u, id) = [u EXCEPT !.menus = h]
    BY <2>2 DEF DeleteActionReferences
  <2> HIDE DEF h, f
  <2>4. [u EXCEPT !.menus = h] = [menus |-> h, actions |-> f]
    BY <2>1
  <2> QED BY <2>3, <2>4 DEF u
<1>3. /\ f \in Seq(ActionType) /\ Apart(f) /\ Ids(f) = Ids(w.actions) \ {id}
      /\ \A j \in 1 .. Len(f) : \E i \in 1 .. Len(w.actions) : f[j] = w.actions[i]
  <2>1. w.actions \in Seq(ActionType) /\ Apart(w.actions)
    BY <1>1
  <2>2. f \in Seq(ActionType) /\ LessRow(f, w.actions, k)
    BY <2>1, RowRemoved, Zenon
  <2> HIDE DEF ActionType, f
  <2> QED BY <2>2 DEF LessRow
<1>4. DOMAIN w.menus = 1 .. Len(w.menus) /\ Len(w.menus) \in Nat
  BY <1>1
<1>5. ASSUME NEW m \in 1 .. Len(w.menus)
      PROVE  /\ h[m] \in MenuType /\ h[m].id = w.menus[m].id
             /\ h[m].trigger = w.menus[m].trigger /\ h[m].named = w.menus[m].named
             /\ SlotsIn(h[m].slots, Ids(f))
  <2> DEFINE s == w.menus[m].slots
             t == left(s)
  <2>1. w.menus[m] \in MenuType /\ s \in Seq(Nat)
    <3>1. w.menus[m] \in MenuType
      <4> HIDE DEF MenuType
      <4> QED BY <1>1
    <3> QED BY <3>1 DEF MenuType
  <2>2. h[m] = [w.menus[m] EXCEPT !.slots = t]
    BY <1>4
  <2>3. SlotsIn(s, Ids(w.actions))
    BY <1>1
  <2> HIDE DEF s, f, h
  <2>4. /\ t \in Seq(Nat)
        /\ \A j \in 1 .. Len(t) : t[j] \in Range(s) \ {id}
    BY <2>1, OnlyElements
  <2>5. DOMAIN s = 1 .. Len(s)
    BY <2>1
  <2>6. SlotsIn(t, Ids(f))
    <3> HIDE DEF t
    <3> SUFFICES ASSUME NEW j \in 1 .. Len(t) PROVE t[j] \in Ids(f)
      BY DEF SlotsIn
    <3>1. t[j] \in Range(s) /\ t[j] # id
      BY <2>4
    <3>2. PICK i \in 1 .. Len(s) : t[j] = s[i]
      BY <2>5, <3>1 DEF Range
    <3>3. s[i] \in Ids(w.actions)
      BY <2>3 DEF SlotsIn
    <3> QED BY <1>3, <3>1, <3>2, <3>3
  <2> HIDE DEF t
  <2> QED BY <2>1, <2>2, <2>4, <2>6 DEF MenuType
<1>6. h \in Seq(MenuType) /\ Len(h) = Len(w.menus)
  <2>1. h \in [1 .. Len(w.menus) -> MenuType]
    <3>1. h = [m \in 1 .. Len(w.menus) |-> h[m]]
      BY <1>4
    <3> HIDE DEF h, MenuType
    <3> QED BY <1>5, <3>1
  <2> HIDE DEF h, MenuType
  <2> QED BY <1>4, <2>1
<1>7. Apart(h) /\ Ids(h) = Ids(w.menus)
  <2>1. DOMAIN h = 1 .. Len(w.menus)
    BY <1>4
  <2>2. \A j \in 1 .. Len(w.menus) : h[j].id = w.menus[j].id
    BY <1>5
  <2> HIDE DEF h
  <2>3. Apart(h)
    BY <1>1, <1>6, <2>2 DEF Apart
  <2>4. Ids(h) = Ids(w.menus)
    BY <1>4, <2>1, <2>2 DEF Ids
  <2> QED BY <2>3, <2>4
<1> HIDE DEF h, f
<1>8. \A n \in 1 .. Len(h) : SlotsIn(h[n].slots, Ids(f))
  BY <1>5, <1>6
<1>9. \A b \in 1 .. Len(f) : TargetsIn(f[b].items, Ids(h))
  BY <1>1, <1>3, <1>7
<1>10. Sound([menus |-> h, actions |-> f])
  BY <1>3, <1>6, <1>7, <1>8, <1>9 DEF Sound, Copy
<1> QED BY <1>2, <1>5, <1>6, <1>10
-----------------------------------------------------------------------------
(* What the window shows of a sound working copy.                          *)

ViewType == [kind : {"none", "menu", "action"}, menu : Nat, action : Nat, slot : Nat, item : Nat,
             page : {"none", "menu", "action"}, slotCombo : Nat, targetCombo : Nat]

\* A slot is selected if there is one, and the combo box shows what it has.
MenuShown(w, v) ==
  LET slots == w.menus[v.menu].slots
  IN  /\ v.slot \in 1 .. Len(slots) \/ (v.slot = 0 /\ Len(slots) = 0)
      /\ v.slot # 0 => /\ v.slotCombo \in 1 .. Len(w.actions)
                       /\ w.actions[v.slotCombo].id = slots[v.slot]

\* An item is selected if there is one, and the combo box shows its target.
ActionShown(w, v) ==
  LET its == w.actions[v.action].items
  IN  /\ v.item \in 1 .. Len(its) \/ (v.item = 0 /\ Len(its) = 0)
      /\ v.item # 0 /\ its[v.item].type = "menu" /\ its[v.item].arg # None
           => /\ v.targetCombo \in 1 .. Len(w.menus)
              /\ w.menus[v.targetCombo].id = its[v.item].arg

\* The page is the one of the row selected.
PageFits(v) ==
  v.page = IF CurrentMenu(v) # 0 THEN "menu" ELSE IF CurrentAction(v) # 0 THEN "action" ELSE "none"

RowsFit(w, v) ==
  CurrentMenu(v) \in 0 .. Len(w.menus) /\ CurrentAction(v) \in 0 .. Len(w.actions)

Faithful(w, v) ==
  /\ v \in ViewType /\ RowsFit(w, v) /\ PageFits(v)
  /\ CurrentMenu(v) # 0 => MenuShown(w, v)
  /\ CurrentAction(v) # 0 => ActionShown(w, v)

\* The combo box finds an id there is.
LEMMA ComboShows ==
  ASSUME NEW T, NEW e \in Seq(T), NEW id
  PROVE  /\ ComboRow(e, id) \in Nat
         /\ id \in Ids(e) => ComboRow(e, id) \in 1 .. Len(e) /\ e[ComboRow(e, id)].id = id
<1> DEFINE I == {i \in 1 .. Len(e) : e[i].id = id}
           shown == IF I # {} THEN Min(I) ELSE 0
           one == Min({1, Len(e)})
<1>1. Len(e) \in Nat /\ DOMAIN e = 1 .. Len(e)
  OBVIOUS
<1>2. ComboRow(e, id) = IF shown # 0 THEN shown ELSE one
  BY DEF ComboRow, SelectInSeq
<1>3. one \in Nat
  <2>1. {1, Len(e)} \subseteq Nat /\ {1, Len(e)} # {}
    BY <1>1
  <2> QED BY <2>1, LeastOf
<1> HIDE DEF one
<1>4. I # {} => shown \in I
  <2>1. I \subseteq Nat
    BY <1>1
  <2> HIDE DEF I
  <2> QED BY <2>1, LeastOf
<1>5. id \in Ids(e) => I # {}
  BY <1>1 DEF Ids
<1>6. I # {} => shown \in 1 .. Len(e) /\ e[shown].id = id /\ shown # 0
  BY <1>1, <1>4
<1>7. I = {} => shown = 0
  OBVIOUS
<1> HIDE DEF shown, I
<1> QED BY <1>1, <1>2, <1>3, <1>5, <1>6, <1>7

LEMMA FirstRow ==
  ASSUME NEW n \in Nat, NEW r \in Nat
  PROVE  /\ Kept(r, n) \in 0 .. n
         /\ KeptOrFirst(r, n) \in 1 .. n \/ (KeptOrFirst(r, n) = 0 /\ n = 0)
<1>1. Min({1, n}) \in {1, n} /\ \A y \in {1, n} : Min({1, n}) <= y
  <2>1. {1, n} \subseteq Nat /\ {1, n} # {}
    OBVIOUS
  <2> QED BY <2>1, LeastOf
<1>2. Min({1, n}) \in 1 .. n \/ (Min({1, n}) = 0 /\ n = 0)
  BY <1>1
<1> QED BY <1>2 DEF Kept, KeptOrFirst

\* The row and the page stay.
SameRow(u, v) ==
  /\ u \in ViewType
  /\ u.kind = v.kind /\ u.menu = v.menu /\ u.action = v.action /\ u.page = v.page

LEMMA SlotComboShows ==
  ASSUME NEW w, Sound(w), NEW v \in ViewType, v.menu \in 1 .. Len(w.menus),
         v.slot \in 1 .. Len(w.menus[v.menu].slots) \/ (v.slot = 0 /\ Len(w.menus[v.menu].slots) = 0)
  PROVE  /\ SameRow(RefreshSlotActionCombo(w, v), v)
         /\ MenuShown(w, RefreshSlotActionCombo(w, v))
<1> DEFINE slots == w.menus[v.menu].slots
           id == IF v.slot = 0 THEN None ELSE slots[v.slot]
           c == ComboRow(w.actions, id)
           u == [v EXCEPT !.slotCombo = c]
<1>1. RefreshSlotActionCombo(w, v) = u
  BY DEF RefreshSlotActionCombo
<1>2. w.actions \in Seq(ActionType) /\ SlotsIn(slots, Ids(w.actions))
  BY DEF Sound, Copy
<1>3. c \in Nat /\ (id \in Ids(w.actions) => c \in 1 .. Len(w.actions) /\ w.actions[c].id = id)
  <2> HIDE DEF id
  <2> QED BY <1>2, ComboShows
<1> HIDE DEF c
<1>4. /\ u \in ViewType /\ u.slotCombo = c /\ u.slot = v.slot
      /\ u.kind = v.kind /\ u.menu = v.menu /\ u.action = v.action /\ u.page = v.page
  BY <1>3 DEF ViewType
<1>5. v.slot # 0 => id \in Ids(w.actions) /\ id = slots[v.slot]
  BY <1>2 DEF SlotsIn
<1> HIDE DEF u, id, ViewType
<1> QED BY <1>1, <1>3, <1>4, <1>5 DEF SameRow, MenuShown

LEMMA MenuEditorShows ==
  ASSUME NEW w, Sound(w), NEW v \in ViewType, v.menu \in 1 .. Len(w.menus)
  PROVE  SameRow(RefreshMenuEditor(w, v), v) /\ MenuShown(w, RefreshMenuEditor(w, v))
<1> DEFINE n == Len(w.menus[v.menu].slots)
           u == [v EXCEPT !.slot = KeptOrFirst(@, n)]
<1>1. n \in Nat
  <2>1. w.menus[v.menu] \in MenuType
    <3>1. w.menus \in Seq(MenuType)
      BY DEF Sound, Copy
    <3> HIDE DEF MenuType
    <3> QED BY <3>1
  <2> QED BY <2>1 DEF MenuType
<1> HIDE DEF n
<1>2. KeptOrFirst(v.slot, n) \in 1 .. n \/ (KeptOrFirst(v.slot, n) = 0 /\ n = 0)
  BY <1>1, FirstRow DEF ViewType
<1>3. /\ u \in ViewType /\ u.slot = KeptOrFirst(v.slot, n)
      /\ u.kind = v.kind /\ u.menu = v.menu /\ u.action = v.action /\ u.page = v.page
  BY <1>1, <1>2 DEF ViewType
<1>4. RefreshMenuEditor(w, v) = RefreshSlotActionCombo(w, u)
  BY DEF RefreshMenuEditor, n
<1> HIDE DEF u
<1>5. u.slot \in 1 .. Len(w.menus[u.menu].slots) \/ (u.slot = 0 /\ Len(w.menus[u.menu].slots) = 0)
  BY <1>2, <1>3 DEF n
<1> DEFINE r == RefreshSlotActionCombo(w, u)
<1>6. SameRow(r, u) /\ MenuShown(w, r)
  BY <1>3, <1>5, SlotComboShows
<1> QED BY <1>3, <1>4, <1>6 DEF SameRow

LEMMA ItemDetailShows ==
  ASSUME NEW w, Sound(w), NEW v \in ViewType, v.action \in 1 .. Len(w.actions),
         v.item \in 1 .. Len(w.actions[v.action].items)
           \/ (v.item = 0 /\ Len(w.actions[v.action].items) = 0)
  PROVE  /\ SameRow(RefreshItemDetail(w, v), v)
         /\ ActionShown(w, RefreshItemDetail(w, v))
<1> DEFINE its == w.actions[v.action].items
           id == its[v.item].arg
           c == ComboRow(w.menus, id)
           u == [v EXCEPT !.targetCombo = c]
<1>1. w.menus \in Seq(MenuType) /\ TargetsIn(its, Ids(w.menus))
  BY DEF Sound, Copy
<1>2. c \in Nat /\ (id \in Ids(w.menus) => c \in 1 .. Len(w.menus) /\ w.menus[c].id = id)
  <2> HIDE DEF id
  <2> QED BY <1>1, ComboShows
<1>3. RefreshItemDetail(w, v) = IF v.item # 0 /\ its[v.item].type = "menu" THEN u ELSE v
  BY DEF RefreshItemDetail
<1> HIDE DEF c
<1>4. /\ u \in ViewType /\ u.targetCombo = c /\ u.item = v.item
      /\ u.kind = v.kind /\ u.menu = v.menu /\ u.action = v.action /\ u.page = v.page
  BY <1>2 DEF ViewType
<1>5. v.item # 0 /\ its[v.item].type = "menu" => id \in Ids(w.menus) \cup {None}
  BY <1>1 DEF TargetsIn
<1> HIDE DEF u, ViewType
<1> QED BY <1>2, <1>3, <1>4, <1>5 DEF SameRow, ActionShown

LEMMA ActionEditorShows ==
  ASSUME NEW w, Sound(w), NEW v \in ViewType, v.action \in 1 .. Len(w.actions)
  PROVE  SameRow(RefreshActionEditor(w, v), v) /\ ActionShown(w, RefreshActionEditor(w, v))
<1> DEFINE n == Len(w.actions[v.action].items)
           u == [v EXCEPT !.item = KeptOrFirst(@, n)]
<1>1. n \in Nat
  <2>1. w.actions[v.action] \in ActionType
    <3>1. w.actions \in Seq(ActionType)
      BY DEF Sound, Copy
    <3> HIDE DEF ActionType
    <3> QED BY <3>1
  <2> QED BY <2>1 DEF ActionType
<1> HIDE DEF n
<1>2. KeptOrFirst(v.item, n) \in 1 .. n \/ (KeptOrFirst(v.item, n) = 0 /\ n = 0)
  BY <1>1, FirstRow DEF ViewType
<1>3. /\ u \in ViewType /\ u.item = KeptOrFirst(v.item, n)
      /\ u.kind = v.kind /\ u.menu = v.menu /\ u.action = v.action /\ u.page = v.page
  BY <1>1, <1>2 DEF ViewType
<1>4. RefreshActionEditor(w, v) = RefreshItemDetail(w, u)
  BY DEF RefreshActionEditor, n
<1> HIDE DEF u
<1>5. u.item \in 1 .. Len(w.actions[u.action].items) \/ (u.item = 0 /\ Len(w.actions[u.action].items) = 0)
  BY <1>2, <1>3 DEF n
<1> DEFINE r == RefreshItemDetail(w, u)
<1>6. SameRow(r, u) /\ ActionShown(w, r)
  BY <1>3, <1>5, ItemDetailShows
<1> QED BY <1>3, <1>4, <1>6 DEF SameRow
LEMMA EditorsShow ==
  ASSUME NEW w, Sound(w), NEW v \in ViewType, RowsFit(w, v)
  PROVE  Faithful(w, RefreshEditors(w, v))
<1>1. Len(w.menus) \in Nat /\ Len(w.actions) \in Nat
  BY DEF Sound, Copy
<1>2. CASE CurrentMenu(v) # 0
  <2> DEFINE u == [v EXCEPT !.page = "menu"]
             r == RefreshMenuEditor(w, u)
  <2>1. v.kind = "menu" /\ v.menu # 0 /\ v.menu \in 1 .. Len(w.menus)
    BY <1>1, <1>2 DEF CurrentMenu, RowsFit
  <2>2. u \in ViewType /\ u.kind = "menu" /\ u.menu = v.menu /\ u.page = "menu"
    BY <2>1 DEF ViewType
  <2>3. RefreshEditors(w, v) = r
    BY <1>2 DEF RefreshEditors
  <2> HIDE DEF u
  <2>4. SameRow(r, u) /\ MenuShown(w, r)
    BY <2>1, <2>2, MenuEditorShows
  <2> HIDE DEF r
  <2>5. Faithful(w, r)
    BY <1>1, <2>1, <2>2, <2>4 DEF Faithful, SameRow, RowsFit, PageFits, CurrentMenu, CurrentAction
  <2> QED BY <2>3, <2>5
<1>3. CASE CurrentMenu(v) = 0 /\ CurrentAction(v) # 0
  <2> DEFINE u == [v EXCEPT !.page = "action"]
             r == RefreshActionEditor(w, u)
  <2>1. v.kind = "action" /\ v.action # 0 /\ v.action \in 1 .. Len(w.actions)
    BY <1>1, <1>3 DEF CurrentAction, RowsFit
  <2>2. u \in ViewType /\ u.kind = "action" /\ u.action = v.action /\ u.page = "action"
    BY <2>1 DEF ViewType
  <2>3. RefreshEditors(w, v) = r
    BY <1>3 DEF RefreshEditors
  <2> HIDE DEF u
  <2>4. SameRow(r, u) /\ ActionShown(w, r)
    BY <2>1, <2>2, ActionEditorShows
  <2> HIDE DEF r
  <2>5. Faithful(w, r)
    BY <1>1, <2>1, <2>2, <2>4 DEF Faithful, SameRow, RowsFit, PageFits, CurrentMenu, CurrentAction
  <2> QED BY <2>3, <2>5
<1>4. CASE CurrentMenu(v) = 0 /\ CurrentAction(v) = 0
  <2> DEFINE u == [v EXCEPT !.page = "none"]
  <2>1. /\ u \in ViewType /\ u.kind = v.kind /\ u.menu = v.menu /\ u.action = v.action
        /\ u.page = "none"
    BY DEF ViewType
  <2>2. RefreshEditors(w, v) = u
    BY <1>4 DEF RefreshEditors
  <2> HIDE DEF u
  <2>3. CurrentMenu(u) = 0 /\ CurrentAction(u) = 0
    BY <1>4, <2>1 DEF CurrentMenu, CurrentAction
  <2> QED BY <1>1, <2>1, <2>2, <2>3 DEF Faithful, RowsFit, PageFits
<1> QED BY <1>2, <1>3, <1>4

LEMMA ListsFit ==
  ASSUME NEW w, Sound(w), NEW v \in ViewType
  PROVE  RefreshLists(w, v) \in ViewType /\ RowsFit(w, RefreshLists(w, v))
<1> DEFINE m == Kept(CurrentMenu(v), Len(w.menus))
           a == Kept(CurrentAction(v), Len(w.actions))
           u == [v EXCEPT !.menu = m, !.action = a]
<1>1. Len(w.menus) \in Nat /\ Len(w.actions) \in Nat
  BY DEF Sound, Copy
<1>2. m \in 0 .. Len(w.menus) /\ a \in 0 .. Len(w.actions)
  BY <1>1 DEF Kept
<1>3. RefreshLists(w, v) = u
  BY DEF RefreshLists
<1> HIDE DEF m, a
<1>4. u \in ViewType /\ u.kind = v.kind /\ u.menu = m /\ u.action = a
  <2>1. m \in Nat /\ a \in Nat
    BY <1>1, <1>2
  <2> QED BY <2>1 DEF ViewType
<1> HIDE DEF u
<1> QED BY <1>1, <1>2, <1>3, <1>4 DEF RowsFit, CurrentMenu, CurrentAction

LEMMA MenuSelected ==
  ASSUME NEW w, Sound(w), NEW v \in ViewType, NEW i \in 1 .. Len(w.menus)
  PROVE  Faithful(w, SetSelectedMenu(w, v, i))
<1> DEFINE u == [v EXCEPT !.kind = "menu", !.menu = i, !.action = 0]
<1>1. Len(w.menus) \in Nat /\ Len(w.actions) \in Nat
  BY DEF Sound, Copy
<1>2. u \in ViewType /\ u.kind = "menu" /\ u.menu = i
  <2>1. i \in Nat /\ 0 \in Nat
    BY <1>1
  <2> QED BY <2>1 DEF ViewType
<1>3. SetSelectedMenu(w, v, i) = RefreshEditors(w, u)
  BY DEF SetSelectedMenu
<1> HIDE DEF u
<1>4. RowsFit(w, u)
  BY <1>1, <1>2 DEF RowsFit, CurrentMenu, CurrentAction
<1> QED BY <1>2, <1>3, <1>4, EditorsShow

LEMMA ActionSelected ==
  ASSUME NEW w, Sound(w), NEW v \in ViewType, NEW i \in 1 .. Len(w.actions)
  PROVE  Faithful(w, SetSelectedAction(w, v, i))
<1> DEFINE u == [v EXCEPT !.kind = "action", !.action = i, !.menu = 0]
<1>1. Len(w.menus) \in Nat /\ Len(w.actions) \in Nat
  BY DEF Sound, Copy
<1>2. u \in ViewType /\ u.kind = "action" /\ u.action = i
  <2>1. i \in Nat /\ 0 \in Nat
    BY <1>1
  <2> QED BY <2>1 DEF ViewType
<1>3. SetSelectedAction(w, v, i) = RefreshEditors(w, u)
  BY DEF SetSelectedAction
<1> HIDE DEF u
<1>4. RowsFit(w, u)
  BY <1>1, <1>2 DEF RowsFit, CurrentMenu, CurrentAction
<1> QED BY <1>2, <1>3, <1>4, EditorsShow

\* A menu edited in place: the window is right if its page is.
LEMMA MenuEdited ==
  ASSUME NEW w, Sound(w), NEW v, Faithful(w, v), CurrentMenu(v) # 0,
         NEW x \in MenuType, x.id = w.menus[v.menu].id, SlotsIn(x.slots, Ids(w.actions))
  PROVE  /\ Sound(SetMenu(w, v.menu, x))
         /\ x.slots = w.menus[v.menu].slots => Faithful(SetMenu(w, v.menu, x), v)
         /\ \A u : SameRow(u, v) /\ MenuShown(SetMenu(w, v.menu, x), u)
                     => Faithful(SetMenu(w, v.menu, x), u)
<1> DEFINE m == v.menu
           y == SetMenu(w, m, x)
<1>1. Len(w.menus) \in Nat /\ Len(w.actions) \in Nat
  BY DEF Sound, Copy
<1>2. v \in ViewType /\ v.kind = "menu" /\ m \in 1 .. Len(w.menus) /\ v.page = "menu" /\ MenuShown(w, v)
  BY <1>1 DEF Faithful, RowsFit, PageFits, CurrentMenu, CurrentAction
<1>3. Sound(y) /\ y.actions = w.actions /\ Len(y.menus) = Len(w.menus) /\ y.menus[m] = x
  BY <1>2, SetMenuSound
<1> HIDE DEF y
<1>4. ASSUME NEW u, SameRow(u, v), MenuShown(y, u) PROVE Faithful(y, u)
  BY <1>1, <1>2, <1>3, <1>4 DEF Faithful, SameRow, RowsFit, PageFits, CurrentMenu, CurrentAction
<1>5. ASSUME x.slots = w.menus[m].slots PROVE Faithful(y, v)
  <2>1. MenuShown(y, v)
    BY <1>2, <1>3, <1>5 DEF MenuShown
  <2>2. SameRow(v, v)
    BY <1>2 DEF SameRow
  <2> QED BY <1>4, <2>1, <2>2
<1> QED BY <1>3, <1>4, <1>5 DEF y

LEMMA ActionEdited ==
  ASSUME NEW w, Sound(w), NEW v, Faithful(w, v), CurrentAction(v) # 0,
         NEW x \in ActionType, x.id = w.actions[v.action].id, TargetsIn(x.items, Ids(w.menus))
  PROVE  /\ Sound(SetAction(w, v.action, x))
         /\ x.items = w.actions[v.action].items => Faithful(SetAction(w, v.action, x), v)
         /\ \A u : SameRow(u, v) /\ ActionShown(SetAction(w, v.action, x), u)
                     => Faithful(SetAction(w, v.action, x), u)
<1> DEFINE a == v.action
           y == SetAction(w, a, x)
<1>1. Len(w.menus) \in Nat /\ Len(w.actions) \in Nat
  BY DEF Sound, Copy
<1>2. /\ v \in ViewType /\ v.kind = "action" /\ a \in 1 .. Len(w.actions)
      /\ v.page = "action" /\ ActionShown(w, v)
  BY <1>1 DEF Faithful, RowsFit, PageFits, CurrentMenu, CurrentAction
<1>3. Sound(y) /\ y.menus = w.menus /\ Len(y.actions) = Len(w.actions) /\ y.actions[a] = x
  BY <1>2, SetActionSound
<1> HIDE DEF y
<1>4. ASSUME NEW u, SameRow(u, v), ActionShown(y, u) PROVE Faithful(y, u)
  BY <1>1, <1>2, <1>3, <1>4 DEF Faithful, SameRow, RowsFit, PageFits, CurrentMenu, CurrentAction
<1>5. ASSUME x.items = w.actions[a].items PROVE Faithful(y, v)
  <2>1. ActionShown(y, v)
    BY <1>2, <1>3, <1>5 DEF ActionShown
  <2>2. SameRow(v, v)
    BY <1>2 DEF SameRow
  <2> QED BY <1>4, <2>1, <2>2
<1> QED BY <1>3, <1>4, <1>5 DEF y
-----------------------------------------------------------------------------
(* Edits of the selected menu.                                             *)

\* y is w, but for the selected menu, which is x.
LEMMA MenuPut ==
  ASSUME NEW w, Sound(w), NEW v, Faithful(w, v), CurrentMenu(v) # 0
  PROVE  /\ v \in ViewType /\ v.kind = "menu" /\ v.menu \in 1 .. Len(w.menus) /\ MenuShown(w, v)
         /\ w.menus[v.menu] \in MenuType
         /\ SlotsIn(w.menus[v.menu].slots, Ids(w.actions))
         /\ DOMAIN w.menus[v.menu].slots = 1 .. Len(w.menus[v.menu].slots)
         /\ Len(w.menus[v.menu].slots) \in Nat
         /\ w.menus[v.menu].slots \in Seq(Nat)
<1>1. /\ w.menus \in Seq(MenuType) /\ Len(w.menus) \in Nat
      /\ \A m \in 1 .. Len(w.menus) : SlotsIn(w.menus[m].slots, Ids(w.actions))
  BY DEF Sound, Copy
<1>2. v \in ViewType /\ v.kind = "menu" /\ v.menu \in 1 .. Len(w.menus) /\ MenuShown(w, v)
  BY <1>1 DEF Faithful, RowsFit, CurrentMenu
<1>3. w.menus[v.menu] \in MenuType
  <2> HIDE DEF MenuType
  <2> QED BY <1>1, <1>2
<1>4. w.menus[v.menu].slots \in Seq(Nat)
  BY <1>3 DEF MenuType
<1> HIDE DEF MenuType
<1> QED BY <1>1, <1>2, <1>3, <1>4

\* What the window shows after an edit of the selected menu is right, and no
\* chord is given twice that was not.
Keeps(w, y) == Sound(y) /\ (TriggersDiffer(w) => TriggersDiffer(y))

LEMMA MenuChanged ==
  ASSUME NEW w, Sound(w), NEW v, Faithful(w, v), CurrentMenu(v) # 0,
         NEW x \in MenuType, x.id = w.menus[v.menu].id, x.slots = w.menus[v.menu].slots,
         x.trigger \in {w.menus[v.menu].trigger, None}
  PROVE  Keeps(w, SetMenu(w, v.menu, x)) /\ Faithful(SetMenu(w, v.menu, x), v)
<1> DEFINE y == SetMenu(w, v.menu, x)
<1>1. v.menu \in 1 .. Len(w.menus) /\ SlotsIn(x.slots, Ids(w.actions))
  BY MenuPut
<1>2. Sound(y) /\ Faithful(y, v)
  BY <1>1, MenuEdited
<1>3. /\ Len(y.menus) = Len(w.menus) /\ y.menus[v.menu] = x
      /\ \A n \in 1 .. Len(w.menus) : n # v.menu => y.menus[n] = w.menus[n]
  BY <1>1, SetMenuSound
<1>4. DOMAIN y.menus = 1 .. Len(y.menus) /\ DOMAIN w.menus = 1 .. Len(w.menus)
  BY <1>2 DEF Sound, Copy
<1> HIDE DEF y
<1>5. TriggersDiffer(w) => TriggersDiffer(y)
  BY <1>3, <1>4 DEF TriggersDiffer
<1> QED BY <1>2, <1>5 DEF Keeps, y

\* y is w with the slots t in the selected menu.
SlotsPut(w, v, y, t) ==
  /\ Keeps(w, y)
  /\ y.actions = w.actions /\ v.menu \in 1 .. Len(y.menus) /\ y.menus[v.menu].slots = t
  /\ \A u : SameRow(u, v) /\ MenuShown(y, u) => Faithful(y, u)
  /\ Faithful(y, RefreshMenuEditor(y, v))

LEMMA SlotsEdited ==
  ASSUME NEW w, Sound(w), NEW v, Faithful(w, v), CurrentMenu(v) # 0,
         NEW t \in Seq(Nat), SlotsIn(t, Ids(w.actions))
  PROVE  SlotsPut(w, v, WithSlots(w, v.menu, t), t)
<1> DEFINE m == v.menu
           x == [w.menus[m] EXCEPT !.slots = t]
           y == SetMenu(w, m, x)
<1>1. v \in ViewType /\ m \in 1 .. Len(w.menus) /\ w.menus[m] \in MenuType
  BY MenuPut
<1>2. WithSlots(w, m, t) = y
  <2>1. w \in Copy
    BY DEF Sound
  <2>2. WithSlots(w, m, t) = [w EXCEPT !.menus = [w.menus EXCEPT ![m] = x]]
    BY DEF WithSlots
  <2> DEFINE f == [w.menus EXCEPT ![m] = x]
  <2> HIDE DEF f
  <2>3. [w EXCEPT !.menus = f] = [menus |-> f, actions |-> w.actions]
    BY <2>1 DEF Copy
  <2> QED BY <2>2, <2>3 DEF SetMenu, f
<1>3. /\ x \in MenuType /\ x.id = w.menus[m].id /\ x.slots = t
      /\ x.trigger = w.menus[m].trigger
  <2> DEFINE z == w.menus[m]
  <2>1. z \in MenuType
    BY <1>1
  <2> HIDE DEF z
  <2>2. [z EXCEPT !.slots = t] \in MenuType
    BY <2>1 DEF MenuType
  <2>3. LET q == [z EXCEPT !.slots = t]
        IN  q.id = z.id /\ q.slots = t /\ q.trigger = z.trigger
    BY <2>1 DEF MenuType
  <2> QED BY <2>2, <2>3 DEF z
<1> HIDE DEF x
<1>4. Sound(y) /\ \A u : SameRow(u, v) /\ MenuShown(y, u) => Faithful(y, u)
  BY <1>3, MenuEdited
<1>5. /\ Len(y.menus) = Len(w.menus) /\ y.menus[m] = x /\ y.actions = w.actions
      /\ \A n \in 1 .. Len(w.menus) : n # m => y.menus[n] = w.menus[n]
  BY <1>1, <1>3, SetMenuSound
<1>6. DOMAIN y.menus = 1 .. Len(y.menus) /\ DOMAIN w.menus = 1 .. Len(w.menus)
  BY <1>4 DEF Sound, Copy
<1> HIDE DEF y
<1>7. TriggersDiffer(w) => TriggersDiffer(y)
  BY <1>3, <1>5, <1>6 DEF TriggersDiffer
<1>8. Faithful(y, RefreshMenuEditor(y, v))
  <2> DEFINE r == RefreshMenuEditor(y, v)
  <2>1. SameRow(r, v) /\ MenuShown(y, r)
    BY <1>1, <1>4, <1>5, MenuEditorShows
  <2> HIDE DEF r
  <2>2. Faithful(y, r)
    BY <1>4, <2>1
  <2> QED BY <2>2 DEF r
<1> QED BY <1>1, <1>2, <1>3, <1>4, <1>5, <1>7, <1>8 DEF SlotsPut, Keeps

\* A slot is selected: its combo box is filled.
LEMMA SlotSelected ==
  ASSUME NEW y, Sound(y), NEW v, NEW r, SameRow(r, v), v.menu \in 1 .. Len(y.menus),
         NEW i \in 1 .. Len(y.menus[v.menu].slots), i \in Nat,
         \A u : SameRow(u, v) /\ MenuShown(y, u) => Faithful(y, u)
  PROVE  Faithful(y, RefreshSlotActionCombo(y, [r EXCEPT !.slot = i]))
<1> DEFINE u == [r EXCEPT !.slot = i]
           q == RefreshSlotActionCombo(y, u)
<1>1. u \in ViewType /\ u.slot = i /\ SameRow(u, v)
  BY DEF SameRow, ViewType
<1> HIDE DEF u
<1>2. u.menu = v.menu
  BY <1>1 DEF SameRow
<1>3. SameRow(q, u) /\ MenuShown(y, q)
  BY <1>1, <1>2, SlotComboShows
<1> HIDE DEF q
<1>4. SameRow(q, v)
  BY <1>1, <1>3 DEF SameRow
<1>5. Faithful(y, q)
  BY <1>3, <1>4
<1> QED BY <1>5 DEF q, u
LEMMA MenuWritten ==
  ASSUME NEW w, Sound(w), NEW m, NEW x
  PROVE  [w EXCEPT !.menus = [w.menus EXCEPT ![m] = x]] = SetMenu(w, m, x)
<1>1. w \in Copy
  BY DEF Sound
<1> DEFINE f == [w.menus EXCEPT ![m] = x]
<1> HIDE DEF f
<1>2. [w EXCEPT !.menus = f] = [menus |-> f, actions |-> w.actions]
  BY <1>1 DEF Copy
<1> QED BY <1>2 DEF SetMenu, f

LEMMA EditWrites ==
  ASSUME NEW y, NEW u, Edit(y, u), Keeps(work, y), Faithful(y, u)
  PROVE  Keeps(work, work') /\ Faithful(work', view')
BY DEF Edit

LEMMA LookKeeps ==
  ASSUME Sound(work), NEW u, Look(u), Faithful(work, u)
  PROVE  Keeps(work, work') /\ Faithful(work', view')
BY DEF Look, Keeps

LEMMA MenuPageKeeps ==
  ASSUME Sound(work), Faithful(work, view), MenuPage
  PROVE  Keeps(work, work') /\ Faithful(work', view')
<1> DEFINE m == view.menu
           s == view.slot
           slots == work.menus[m].slots
           Goal == Keeps(work, work') /\ Faithful(work', view')
<1> HIDE DEF Goal
<1>1. CurrentMenu(view) # 0
  BY DEF MenuPage
<1>2. /\ view \in ViewType /\ view.kind = "menu" /\ m \in 1 .. Len(work.menus) /\ MenuShown(work, view)
      /\ work.menus[m] \in MenuType
      /\ SlotsIn(slots, Ids(work.actions))
      /\ DOMAIN slots = 1 .. Len(slots) /\ Len(slots) \in Nat
      /\ slots \in Seq(Nat)
  BY <1>1, MenuPut
<1>3. /\ work.actions \in Seq(ActionType) /\ DOMAIN work.actions = 1 .. Len(work.actions)
      /\ work.menus \in Seq(MenuType) /\ work \in Copy
  BY DEF Sound, Copy
<1>4. \A c \in 1 .. Len(work.actions) :
        work.actions[c].id \in Nat /\ work.actions[c].id \in Ids(work.actions)
  <2> SUFFICES ASSUME NEW c \in 1 .. Len(work.actions)
               PROVE  work.actions[c].id \in Nat /\ work.actions[c].id \in Ids(work.actions)
    OBVIOUS
  <2>1. work.actions[c] \in ActionType
    <3> HIDE DEF ActionType
    <3> QED BY <1>3
  <2> QED BY <1>3, <2>1 DEF Ids, ActionType
\* Another value of a field.
<1>5. ASSUME NEW x \in MenuType, x.id = work.menus[m].id, x.slots = slots,
             x.trigger \in {work.menus[m].trigger, None},
             Edit(SetMenu(work, m, x), view)
      PROVE  Goal
  <2>1. Keeps(work, SetMenu(work, m, x)) /\ Faithful(SetMenu(work, m, x), view)
    BY <1>1, <1>5, MenuChanged
  <2> QED BY <1>5, <2>1, EditWrites, Zenon DEF Goal
<1>6. CASE Edit([work EXCEPT !.menus[m].useHook = ~@], view)
  <2> DEFINE b == ~work.menus[m].useHook
             x == [work.menus[m] EXCEPT !.useHook = b]
  <2>1. b \in BOOLEAN
    OBVIOUS
  <2>2. Edit(SetMenu(work, m, x), view)
    BY <1>6, MenuWritten
  <2> HIDE DEF b
  <2>3. x \in MenuType
    BY <1>2, <2>1 DEF MenuType
  <2>4. x.id = work.menus[m].id /\ x.slots = slots /\ x.trigger = work.menus[m].trigger
    BY <1>2 DEF MenuType
  <2> HIDE DEF x
  <2> QED BY <1>5, <2>2, <2>3, <2>4 DEF Goal
<1>7. CASE Edit([work EXCEPT !.menus[m].named = ~@], view)
  <2> DEFINE b == ~work.menus[m].named
             x == [work.menus[m] EXCEPT !.named = b]
  <2>1. b \in BOOLEAN
    OBVIOUS
  <2>2. Edit(SetMenu(work, m, x), view)
    BY <1>7, MenuWritten
  <2> HIDE DEF b
  <2>3. x \in MenuType
    BY <1>2, <2>1 DEF MenuType
  <2>4. x.id = work.menus[m].id /\ x.slots = slots /\ x.trigger = work.menus[m].trigger
    BY <1>2 DEF MenuType
  <2> HIDE DEF x
  <2> QED BY <1>5, <2>2, <2>3, <2>4 DEF Goal
<1>8. CASE Edit([work EXCEPT !.menus[m].trigger = None], view)
  <2> DEFINE x == [work.menus[m] EXCEPT !.trigger = None]
  <2>1. Edit(SetMenu(work, m, x), view)
    BY <1>8, MenuWritten
  <2>2. x \in MenuType /\ x.id = work.menus[m].id /\ x.slots = slots /\ x.trigger = None
    BY <1>2 DEF MenuType
  <2> HIDE DEF x
  <2> QED BY <1>5, <2>1, <2>2 DEF Goal
\* Another sequence of slots.
<1>9. ASSUME NEW t \in Seq(Nat), SlotsIn(t, Ids(work.actions))
      PROVE  /\ SlotsPut(work, view, WithSlots(work, m, t), t)
             /\ Edit(WithSlots(work, m, t), RefreshMenuEditor(WithSlots(work, m, t), view)) => Goal
  <2> DEFINE y == WithSlots(work, m, t)
  <2>1. SlotsPut(work, view, y, t)
    BY <1>1, <1>9, SlotsEdited
  <2> HIDE DEF y
  <2>2. Keeps(work, y) /\ Faithful(y, RefreshMenuEditor(y, view))
    BY <2>1 DEF SlotsPut
  <2>3. ASSUME Edit(y, RefreshMenuEditor(y, view)) PROVE Goal
    BY <2>2, <2>3, EditWrites, Zenon DEF Goal
  <2> QED BY <2>1, <2>3 DEF y
<1>10. CASE /\ work.actions # <<>> /\ Len(slots) < MaxParts
            /\ LET w == WithSlots(work, m, Append(slots, work.actions[1].id))
               IN  Edit(w, RefreshMenuEditor(w, view))
  <2> DEFINE t == Append(slots, work.actions[1].id)
  <2>1. 1 \in 1 .. Len(work.actions)
    BY <1>3, <1>10
  <2> DEFINE id == work.actions[1].id
  <2>2. id \in Nat /\ id \in Ids(work.actions)
    BY <1>4, <2>1
  <2> HIDE DEF id
  <2> DEFINE sl == slots
  <2>3. sl \in Seq(Nat) /\ Len(sl) \in Nat /\ SlotsIn(sl, Ids(work.actions))
    BY <1>2
  <2> HIDE DEF sl
  <2>4. Append(sl, id) \in Seq(Nat) /\ SlotsIn(Append(sl, id), Ids(work.actions))
    BY <2>2, <2>3 DEF SlotsIn
  <2>5. t \in Seq(Nat) /\ SlotsIn(t, Ids(work.actions))
    BY <2>4 DEF sl, id
  <2> HIDE DEF t
  <2>6. Edit(WithSlots(work, m, t), RefreshMenuEditor(WithSlots(work, m, t), view))
    BY <1>10 DEF t
  <2> QED BY <1>9, <2>5, <2>6 DEF Goal
<1>11. CASE /\ s # 0
            /\ LET w == WithSlots(work, m, RemoveAt(slots, s)) IN Edit(w, RefreshMenuEditor(w, view))
  <2> DEFINE sl == slots
             t == RemoveAt(sl, s)
  <2>1. sl \in Seq(Nat) /\ Len(sl) \in Nat /\ SlotsIn(sl, Ids(work.actions)) /\ s \in 1 .. Len(sl)
    BY <1>2, <1>11 DEF MenuShown
  <2> HIDE DEF sl, s
  <2>2. t \in Seq(Nat) /\ ButOne(t, sl, s)
    BY <2>1, RemoveAtMoves, Zenon
  <2> HIDE DEF t
  <2>3. ASSUME NEW j \in 1 .. Len(t) PROVE t[j] \in Ids(work.actions)
    <3>1. j \in 1 .. Len(sl) /\ j + 1 \in 1 .. Len(sl) /\ (j \in 1 .. s - 1 \/ j \in s .. Len(sl) - 1)
      BY <2>1, <2>2 DEF ButOne
    <3> QED BY <2>1, <2>2, <3>1 DEF ButOne, SlotsIn
  <2>4. SlotsIn(t, Ids(work.actions))
    BY <2>3 DEF SlotsIn
  <2>5. Edit(WithSlots(work, m, t), RefreshMenuEditor(WithSlots(work, m, t), view))
    BY <1>11 DEF t, sl, s
  <2> QED BY <1>9, <2>2, <2>4, <2>5 DEF Goal
<1>12. ASSUME NEW to \in {s - 1, s + 1} \cap 1 .. Len(slots), s # 0,
              LET w == WithSlots(work, m, Moved(slots, s, to))
              IN  Edit(w, RefreshSlotActionCombo(w, [RefreshMenuEditor(w, view) EXCEPT !.slot = to]))
       PROVE  Goal
  <2> DEFINE sl == slots
             t == Moved(sl, s, to)
             y == WithSlots(work, m, t)
             r == RefreshMenuEditor(y, view)
             u == RefreshSlotActionCombo(y, [r EXCEPT !.slot = to])
  <2>1. /\ sl \in Seq(Nat) /\ Len(sl) \in Nat /\ SlotsIn(sl, Ids(work.actions))
        /\ s \in 1 .. Len(sl) /\ to \in 1 .. Len(sl)
    BY <1>2, <1>12 DEF MenuShown
  <2> HIDE DEF sl, s
  <2>2. /\ t \in Seq(Nat) /\ Len(t) = Len(sl)
        /\ \A j \in 1 .. Len(sl) : \E i \in 1 .. Len(sl) : t[j] = sl[i]
    BY <2>1, MovedMoves
  <2> HIDE DEF t
  <2>3. SlotsIn(t, Ids(work.actions))
    BY <2>1, <2>2 DEF SlotsIn
  <2>4. SlotsPut(work, view, y, t)
    BY <1>9, <2>2, <2>3
  <2>5. Edit(y, u)
    BY <1>12 DEF t, sl, s
  <2> HIDE DEF y
  <2>6. /\ Keeps(work, y) /\ Sound(y) /\ m \in 1 .. Len(y.menus) /\ y.menus[m].slots = t
        /\ \A q : SameRow(q, view) /\ MenuShown(y, q) => Faithful(y, q)
    BY <2>4 DEF SlotsPut, Keeps
  <2>7. SameRow(r, view)
    BY <1>2, <2>6, MenuEditorShows
  <2> HIDE DEF r
  <2>8. to \in 1 .. Len(y.menus[m].slots) /\ to \in Nat
    BY <2>1, <2>2, <2>6
  <2>9. Faithful(y, u)
    BY <2>6, <2>7, <2>8, SlotSelected
  <2> HIDE DEF u
  <2> QED BY <2>5, <2>6, <2>9, EditWrites, Zenon DEF Goal
<1>13. ASSUME NEW i \in DOMAIN slots, Look(RefreshSlotActionCombo(work, [view EXCEPT !.slot = i]))
       PROVE  Goal
  <2> DEFINE u == RefreshSlotActionCombo(work, [view EXCEPT !.slot = i])
  <2>1. SameRow(view, view) /\ i \in Nat /\ i \in 1 .. Len(slots)
    BY <1>2, <1>13 DEF SameRow
  <2>2. ASSUME NEW q, SameRow(q, view), MenuShown(work, q) PROVE Faithful(work, q)
    BY <1>1, <2>2 DEF Faithful, SameRow, RowsFit, PageFits, CurrentMenu, CurrentAction
  <2>3. Faithful(work, u)
    BY <1>2, <2>1, <2>2, SlotSelected
  <2> HIDE DEF u
  <2> QED BY <1>13, <2>3, LookKeeps, Zenon DEF Goal, u
<1>14. ASSUME NEW c \in DOMAIN work.actions \ {view.slotCombo}, s # 0,
              Edit(WithSlots(work, m, ReplaceAt(slots, s, work.actions[c].id)),
                   [view EXCEPT !.slotCombo = c])
       PROVE  Goal
  <2> DEFINE sl == slots
             id == work.actions[c].id
             t == ReplaceAt(sl, s, id)
             y == WithSlots(work, m, t)
             u == [view EXCEPT !.slotCombo = c]
  <2>1. /\ sl \in Seq(Nat) /\ Len(sl) \in Nat /\ SlotsIn(sl, Ids(work.actions))
        /\ s \in 1 .. Len(sl) /\ c \in 1 .. Len(work.actions)
    BY <1>2, <1>3, <1>14 DEF MenuShown
  <2>2. id \in Nat /\ id \in Ids(work.actions)
    BY <1>4, <2>1
  <2> HIDE DEF sl, id
  <2>3. /\ t \in Seq(Nat) /\ Len(t) = Len(sl) /\ t[s] = id
        /\ \A j \in 1 .. Len(sl) : t[j] \in {id, sl[j]}
    <3> HIDE DEF s
    <3> QED BY <2>1, <2>2 DEF ReplaceAt
  <2> HIDE DEF t
  <2>4. SlotsIn(t, Ids(work.actions))
    BY <2>1, <2>2, <2>3 DEF SlotsIn
  <2>5. SlotsPut(work, view, y, t)
    BY <1>9, <2>3, <2>4
  <2>6. Edit(y, u)
    BY <1>14 DEF t, sl, id
  <2> HIDE DEF y
  <2>7. /\ Keeps(work, y) /\ y.menus[m].slots = t /\ y.actions = work.actions
        /\ \A q : SameRow(q, view) /\ MenuShown(y, q) => Faithful(y, q)
    BY <2>5 DEF SlotsPut
  <2>8. u \in ViewType /\ u.slot = s /\ u.slotCombo = c /\ SameRow(u, view)
    <3>1. c \in Nat
      BY <1>3, <2>1
    <3> QED BY <1>2, <3>1 DEF SameRow, ViewType
  <2> HIDE DEF u
  <2>9. u.menu = m
    BY <2>8 DEF SameRow
  <2>10. MenuShown(y, u)
    BY <2>1, <2>3, <2>7, <2>8, <2>9 DEF MenuShown, id
  <2>11. Faithful(y, u)
    BY <2>7, <2>8, <2>10
  <2> QED BY <2>6, <2>7, <2>11, EditWrites, Zenon DEF Goal
<1> HIDE DEF m, s, slots
<1> QED BY <1>6, <1>7, <1>8, <1>10, <1>11, <1>12, <1>13, <1>14 DEF MenuPage, m, s, slots, Goal
-----------------------------------------------------------------------------
(* Edits of the selected action.                                           *)

LEMMA ActionPut ==
  ASSUME NEW w, Sound(w), NEW v, Faithful(w, v), CurrentAction(v) # 0
  PROVE  /\ v \in ViewType /\ v.kind = "action" /\ v.action \in 1 .. Len(w.actions)
         /\ ActionShown(w, v)
         /\ w.actions[v.action] \in ActionType
         /\ TargetsIn(w.actions[v.action].items, Ids(w.menus))
         /\ DOMAIN w.actions[v.action].items = 1 .. Len(w.actions[v.action].items)
         /\ Len(w.actions[v.action].items) \in Nat
         /\ w.actions[v.action].items \in Seq(ItemType)
<1>1. /\ w.actions \in Seq(ActionType) /\ Len(w.actions) \in Nat
      /\ \A a \in 1 .. Len(w.actions) : TargetsIn(w.actions[a].items, Ids(w.menus))
  BY DEF Sound, Copy
<1>2. v \in ViewType /\ v.kind = "action" /\ v.action \in 1 .. Len(w.actions) /\ ActionShown(w, v)
  BY <1>1 DEF Faithful, RowsFit, CurrentAction
<1>3. w.actions[v.action] \in ActionType
  <2> HIDE DEF ActionType
  <2> QED BY <1>1, <1>2
<1>4. w.actions[v.action].items \in Seq(ItemType)
  BY <1>3 DEF ActionType
<1> HIDE DEF ActionType, ItemType
<1> QED BY <1>1, <1>2, <1>3, <1>4

LEMMA ActionWritten ==
  ASSUME NEW w, Sound(w), NEW a, NEW x
  PROVE  [w EXCEPT !.actions = [w.actions EXCEPT ![a] = x]] = SetAction(w, a, x)
<1>1. w \in Copy
  BY DEF Sound
<1> DEFINE f == [w.actions EXCEPT ![a] = x]
<1> HIDE DEF f
<1>2. [w EXCEPT !.actions = f] = [menus |-> w.menus, actions |-> f]
  BY <1>1 DEF Copy
<1> QED BY <1>2 DEF SetAction, f

LEMMA ActionChanged ==
  ASSUME NEW w, Sound(w), NEW v, Faithful(w, v), CurrentAction(v) # 0,
         NEW x \in ActionType, x.id = w.actions[v.action].id, x.items = w.actions[v.action].items
  PROVE  Keeps(w, SetAction(w, v.action, x)) /\ Faithful(SetAction(w, v.action, x), v)
<1> DEFINE y == SetAction(w, v.action, x)
<1>1. v.action \in 1 .. Len(w.actions) /\ TargetsIn(x.items, Ids(w.menus))
  BY ActionPut
<1>2. Sound(y) /\ Faithful(y, v)
  BY <1>1, ActionEdited
<1>3. y.menus = w.menus
  BY DEF SetAction
<1> HIDE DEF y
<1> QED BY <1>2, <1>3 DEF Keeps, y, TriggersDiffer

\* y is w with the items t in the selected action.
ItemsPut(w, v, y, t) ==
  /\ Keeps(w, y)
  /\ y.menus = w.menus /\ v.action \in 1 .. Len(y.actions) /\ y.actions[v.action].items = t
  /\ \A u : SameRow(u, v) /\ ActionShown(y, u) => Faithful(y, u)
  /\ Faithful(y, RefreshActionEditor(y, v))

LEMMA ItemsEdited ==
  ASSUME NEW w, Sound(w), NEW v, Faithful(w, v), CurrentAction(v) # 0,
         NEW t \in Seq(ItemType), TargetsIn(t, Ids(w.menus))
  PROVE  ItemsPut(w, v, WithItems(w, v.action, t), t)
<1> DEFINE a == v.action
           x == [w.actions[a] EXCEPT !.items = t]
           y == SetAction(w, a, x)
<1>1. v \in ViewType /\ a \in 1 .. Len(w.actions) /\ w.actions[a] \in ActionType
  BY ActionPut
<1>2. WithItems(w, a, t) = y
  <2>1. WithItems(w, a, t) = [w EXCEPT !.actions = [w.actions EXCEPT ![a] = x]]
    BY DEF WithItems
  <2> HIDE DEF x
  <2> QED BY <2>1, ActionWritten
<1>3. x \in ActionType /\ x.id = w.actions[a].id /\ x.items = t
  <2> DEFINE z == w.actions[a]
  <2>1. z \in ActionType
    BY <1>1
  <2> HIDE DEF z
  <2>2. [z EXCEPT !.items = t] \in ActionType
    BY <2>1 DEF ActionType
  <2>3. LET q == [z EXCEPT !.items = t] IN q.id = z.id /\ q.items = t
    BY <2>1 DEF ActionType
  <2> QED BY <2>2, <2>3 DEF z
<1> HIDE DEF x
<1>4. Sound(y) /\ \A u : SameRow(u, v) /\ ActionShown(y, u) => Faithful(y, u)
  BY <1>3, ActionEdited
<1>5. Len(y.actions) = Len(w.actions) /\ y.actions[a] = x /\ y.menus = w.menus
  BY <1>1, <1>3, SetActionSound
<1> HIDE DEF y
<1>6. TriggersDiffer(w) => TriggersDiffer(y)
  BY <1>5 DEF TriggersDiffer
<1>7. Faithful(y, RefreshActionEditor(y, v))
  <2> DEFINE r == RefreshActionEditor(y, v)
  <2>1. SameRow(r, v) /\ ActionShown(y, r)
    BY <1>1, <1>4, <1>5, ActionEditorShows
  <2> HIDE DEF r
  <2>2. Faithful(y, r)
    BY <1>4, <2>1
  <2> QED BY <2>2 DEF r
<1> QED BY <1>1, <1>2, <1>3, <1>4, <1>5, <1>6, <1>7 DEF ItemsPut, Keeps

\* An item is selected: its page is filled.
LEMMA ItemSelected ==
  ASSUME NEW y, Sound(y), NEW v, NEW r, SameRow(r, v), v.action \in 1 .. Len(y.actions),
         NEW i \in 1 .. Len(y.actions[v.action].items), i \in Nat,
         \A u : SameRow(u, v) /\ ActionShown(y, u) => Faithful(y, u)
  PROVE  Faithful(y, RefreshItemDetail(y, [r EXCEPT !.item = i]))
<1> DEFINE u == [r EXCEPT !.item = i]
           q == RefreshItemDetail(y, u)
<1>1. u \in ViewType /\ u.item = i /\ SameRow(u, v)
  BY DEF SameRow, ViewType
<1> HIDE DEF u
<1>2. u.action = v.action
  BY <1>1 DEF SameRow
<1>3. SameRow(q, u) /\ ActionShown(y, q)
  BY <1>1, <1>2, ItemDetailShows
<1> HIDE DEF q
<1>4. SameRow(q, v)
  BY <1>1, <1>3 DEF SameRow
<1>5. Faithful(y, q)
  BY <1>3, <1>4
<1> QED BY <1>5 DEF q, u

LEMMA ActionPageKeeps ==
  ASSUME Sound(work), Faithful(work, view), ActionPage
  PROVE  Keeps(work, work') /\ Faithful(work', view')
<1> DEFINE a == view.action
           i == view.item
           its == work.actions[a].items
           Goal == Keeps(work, work') /\ Faithful(work', view')
<1> HIDE DEF Goal
<1>1. CurrentAction(view) # 0
  BY DEF ActionPage
<1>2. /\ view \in ViewType /\ view.kind = "action" /\ a \in 1 .. Len(work.actions)
      /\ ActionShown(work, view)
      /\ work.actions[a] \in ActionType
      /\ TargetsIn(its, Ids(work.menus))
      /\ DOMAIN its = 1 .. Len(its) /\ Len(its) \in Nat
      /\ its \in Seq(ItemType)
  BY <1>1, ActionPut
<1>3. /\ work.actions \in Seq(ActionType)
      /\ work.menus \in Seq(MenuType) /\ DOMAIN work.menus = 1 .. Len(work.menus)
      /\ Len(work.menus) \in Nat
  BY DEF Sound, Copy
<1>4. \A c \in 1 .. Len(work.menus) :
        work.menus[c].id \in Int /\ work.menus[c].id \in Ids(work.menus)
  <2> SUFFICES ASSUME NEW c \in 1 .. Len(work.menus)
               PROVE  work.menus[c].id \in Int /\ work.menus[c].id \in Ids(work.menus)
    OBVIOUS
  <2>1. work.menus[c] \in MenuType
    <3> HIDE DEF MenuType
    <3> QED BY <1>3
  <2>2. work.menus[c].id \in Int
    BY <2>1 DEF MenuType
  <2> QED BY <1>3, <2>2 DEF Ids
<1>5. CASE Edit([work EXCEPT !.actions[a].channel = 1 - @], view)
  <2> DEFINE x == [work.actions[a] EXCEPT !.channel = 1 - @]
  <2>1. Edit(SetAction(work, a, x), view)
    BY <1>5, ActionWritten
  <2>2. x \in ActionType /\ x.id = work.actions[a].id /\ x.items = its
    BY <1>2 DEF ActionType
  <2> HIDE DEF x
  <2>3. Keeps(work, SetAction(work, a, x)) /\ Faithful(SetAction(work, a, x), view)
    BY <1>1, <2>2, ActionChanged
  <2> QED BY <2>1, <2>3, EditWrites, Zenon
\* Another sequence of items.
<1>6. ASSUME NEW t \in Seq(ItemType), TargetsIn(t, Ids(work.menus))
      PROVE  ItemsPut(work, view, WithItems(work, a, t), t)
  BY <1>1, <1>6, ItemsEdited
<1>7. ASSUME NEW t \in Seq(ItemType), TargetsIn(t, Ids(work.menus)),
             NEW j \in 1 .. Len(t), j \in Nat,
             LET w == WithItems(work, a, t)
             IN  Edit(w, RefreshItemDetail(w, [RefreshActionEditor(w, view) EXCEPT !.item = j]))
      PROVE  Goal
  <2> DEFINE y == WithItems(work, a, t)
             r == RefreshActionEditor(y, view)
             u == RefreshItemDetail(y, [r EXCEPT !.item = j])
  <2>1. ItemsPut(work, view, y, t)
    BY <1>6, <1>7
  <2>2. Edit(y, u)
    BY <1>7
  <2> HIDE DEF y
  <2>3. /\ Keeps(work, y) /\ Sound(y) /\ a \in 1 .. Len(y.actions) /\ y.actions[a].items = t
        /\ \A q : SameRow(q, view) /\ ActionShown(y, q) => Faithful(y, q)
    BY <2>1 DEF ItemsPut, Keeps
  <2>4. SameRow(r, view)
    BY <1>2, <2>3, ActionEditorShows
  <2> HIDE DEF r
  <2>5. j \in 1 .. Len(y.actions[a].items)
    BY <1>7, <2>3
  <2>6. Faithful(y, u)
    BY <1>7, <2>3, <2>4, <2>5, ItemSelected
  <2> HIDE DEF u
  <2> QED BY <2>2, <2>3, <2>6, EditWrites, Zenon DEF Goal
<1>8. ASSUME NEW type \in ItemTypes,
             LET w == WithItems(work, a, Append(its, NewItem(work, type)))
             IN  Edit(w, RefreshItemDetail(w, [RefreshActionEditor(w, view) EXCEPT !.item = Len(its) + 1]))
      PROVE  Goal
  <2> DEFINE l == its
             e == NewItem(work, type)
             t == Append(l, e)
             n == Len(l) + 1
  <2>1. e \in ItemType /\ (e.type = "menu" => e.arg \in Ids(work.menus) \cup {None})
    <3>1. type \in {"menu", "script", "close"} /\ None \in Int
      BY EditorAssumption DEF None
    <3>2. work.menus # <<>> => 1 \in 1 .. Len(work.menus)
      BY <1>3
    <3>3. \/ e = [type |-> type, arg |-> None]
          \/ work.menus # <<>> /\ e = [type |-> type, arg |-> work.menus[1].id]
      BY DEF NewItem
    <3> HIDE DEF e
    <3> QED BY <1>4, <3>1, <3>2, <3>3 DEF ItemType
  <2>2. l \in Seq(ItemType) /\ Len(l) \in Nat /\ TargetsIn(l, Ids(work.menus))
    BY <1>2
  <2> HIDE DEF l, e
  <2>3. /\ t \in Seq(ItemType) /\ Len(t) = n /\ t[n] = e
        /\ \A j \in 1 .. Len(l) : t[j] = l[j]
    <3> HIDE DEF ItemType
    <3> QED BY <2>1, <2>2
  <2>4. \A j \in 1 .. n : j \in 1 .. Len(l) \/ j = n
    BY <2>2
  <2> HIDE DEF t
  <2>5. TargetsIn(t, Ids(work.menus))
    BY <2>1, <2>2, <2>3, <2>4 DEF TargetsIn
  <2>6. n \in 1 .. Len(t) /\ n \in Nat
    BY <2>2, <2>3
  <2>7. Edit(WithItems(work, a, t),
             RefreshItemDetail(WithItems(work, a, t),
                               [RefreshActionEditor(WithItems(work, a, t), view) EXCEPT !.item = n]))
    BY <1>8 DEF t, l, e
  <2> HIDE DEF n
  <2> QED BY <1>7, <2>3, <2>5, <2>6, <2>7
<1>9. CASE /\ i # 0
           /\ LET w == WithItems(work, a, RemoveAt(its, i)) IN Edit(w, RefreshActionEditor(w, view))
  <2> DEFINE l == its
             t == RemoveAt(l, i)
             y == WithItems(work, a, t)
  <2>1. l \in Seq(ItemType) /\ Len(l) \in Nat /\ TargetsIn(l, Ids(work.menus)) /\ i \in 1 .. Len(l)
    BY <1>2, <1>9 DEF ActionShown
  <2>2. Edit(y, RefreshActionEditor(y, view))
    BY <1>9
  <2> HIDE DEF l, i
  <2>3. t \in Seq(ItemType) /\ ButOne(t, l, i)
    BY <2>1, RemoveAtMoves, Zenon
  <2> HIDE DEF t
  <2>4. ASSUME NEW j \in 1 .. Len(t)
        PROVE  t[j].type = "menu" => t[j].arg \in Ids(work.menus) \cup {None}
    <3>1. j \in 1 .. Len(l) /\ j + 1 \in 1 .. Len(l) /\ (j \in 1 .. i - 1 \/ j \in i .. Len(l) - 1)
      BY <2>1, <2>3 DEF ButOne
    <3>2. t[j] = l[j] \/ t[j] = l[j + 1]
      BY <2>3, <3>1 DEF ButOne
    <3> QED BY <2>1, <3>1, <3>2 DEF TargetsIn
  <2>5. TargetsIn(t, Ids(work.menus))
    BY <2>4 DEF TargetsIn
  <2>6. ItemsPut(work, view, y, t)
    BY <1>6, <2>3, <2>5
  <2> HIDE DEF y
  <2>7. Keeps(work, y) /\ Faithful(y, RefreshActionEditor(y, view))
    BY <2>6 DEF ItemsPut
  <2> QED BY <2>2, <2>7, EditWrites, Zenon
<1>10. ASSUME NEW to \in {i - 1, i + 1} \cap 1 .. Len(its), i # 0,
              LET w == WithItems(work, a, Moved(its, i, to))
              IN  Edit(w, RefreshItemDetail(w, [RefreshActionEditor(w, view) EXCEPT !.item = to]))
       PROVE  Goal
  <2> DEFINE l == its
             t == Moved(l, i, to)
  <2>1. /\ l \in Seq(ItemType) /\ Len(l) \in Nat /\ TargetsIn(l, Ids(work.menus))
        /\ i \in 1 .. Len(l) /\ to \in 1 .. Len(l)
    BY <1>2, <1>10 DEF ActionShown
  <2> HIDE DEF l, i
  <2>2. /\ t \in Seq(ItemType) /\ Len(t) = Len(l)
        /\ \A j \in 1 .. Len(l) : \E k \in 1 .. Len(l) : t[j] = l[k]
    <3> HIDE DEF ItemType
    <3> QED BY <2>1, MovedMoves
  <2> HIDE DEF t
  <2>3. TargetsIn(t, Ids(work.menus))
    BY <2>1, <2>2 DEF TargetsIn
  <2>4. Edit(WithItems(work, a, t),
             RefreshItemDetail(WithItems(work, a, t),
                               [RefreshActionEditor(WithItems(work, a, t), view) EXCEPT !.item = to]))
    BY <1>10 DEF t, l, i
  <2>5. to \in 1 .. Len(t) /\ to \in Nat
    BY <2>1, <2>2
  <2> QED BY <1>7, <2>2, <2>3, <2>4, <2>5
<1>11. ASSUME NEW j \in DOMAIN its, Look(RefreshItemDetail(work, [view EXCEPT !.item = j]))
       PROVE  Goal
  <2> DEFINE u == RefreshItemDetail(work, [view EXCEPT !.item = j])
  <2>1. SameRow(view, view) /\ j \in Nat /\ j \in 1 .. Len(its)
    BY <1>2, <1>11 DEF SameRow
  <2>2. ASSUME NEW q, SameRow(q, view), ActionShown(work, q) PROVE Faithful(work, q)
    BY <1>1, <2>2 DEF Faithful, SameRow, RowsFit, PageFits, CurrentMenu, CurrentAction
  <2>3. Faithful(work, u)
    BY <1>2, <2>1, <2>2, ItemSelected
  <2> HIDE DEF u
  <2> QED BY <1>11, <2>3, LookKeeps, Zenon DEF Goal, u
\* Another value in the selected item.
<1>12. ASSUME NEW b \in Int, i # 0
       PROVE  LET l == its
                  e == [type |-> l[i].type, arg |-> b]
                  t == [l EXCEPT ![i] = e]
              IN  /\ [work EXCEPT !.actions[a].items[i].arg = b] = WithItems(work, a, t)
                  /\ i \in 1 .. Len(l) /\ l \in Seq(ItemType) /\ TargetsIn(l, Ids(work.menus))
                  /\ t \in Seq(ItemType) /\ Len(t) = Len(l) /\ t[i] = e
                  /\ \A j \in 1 .. Len(l) : j # i => t[j] = l[j]
  <2> DEFINE l == its
             e == [type |-> l[i].type, arg |-> b]
             t == [l EXCEPT ![i] = e]
  <2>1. /\ l \in Seq(ItemType) /\ Len(l) \in Nat /\ TargetsIn(l, Ids(work.menus))
        /\ i \in 1 .. Len(l)
    BY <1>2, <1>12 DEF ActionShown
  <2>2. [l[i] EXCEPT !.arg = b] = e /\ e \in ItemType
    <3>1. l[i] \in ItemType
      <4> HIDE DEF l, i, ItemType
      <4> QED BY <2>1
    <3> HIDE DEF l, i
    <3> QED BY <1>12, <3>1 DEF ItemType
  <2>3. [work EXCEPT !.actions[a].items[i].arg = b] = WithItems(work, a, [l EXCEPT ![i] = [l[i] EXCEPT !.arg = b]])
    BY DEF WithItems
  <2>4. t \in Seq(ItemType) /\ Len(t) = Len(l) /\ t[i] = e /\ \A j \in 1 .. Len(l) : j # i => t[j] = l[j]
    <3> HIDE DEF l, i, e, ItemType
    <3> QED BY <2>1, <2>2
  <2> QED BY <2>1, <2>2, <2>3, <2>4
<1>13. ASSUME NEW c \in DOMAIN work.menus \ {view.targetCombo}, i # 0, its[i].type = "menu",
              Edit([work EXCEPT !.actions[a].items[i].arg = work.menus[c].id],
                   [view EXCEPT !.targetCombo = c])
       PROVE  Goal
  <2> DEFINE l == its
             b == work.menus[c].id
             e == [type |-> l[i].type, arg |-> b]
             t == [l EXCEPT ![i] = e]
             y == WithItems(work, a, t)
             u == [view EXCEPT !.targetCombo = c]
  <2>1. c \in 1 .. Len(work.menus)
    BY <1>3, <1>13
  <2>2. b \in Int /\ b \in Ids(work.menus)
    BY <1>4, <2>1
  <2>3. /\ [work EXCEPT !.actions[a].items[i].arg = b] = y
        /\ i \in 1 .. Len(l) /\ l \in Seq(ItemType) /\ TargetsIn(l, Ids(work.menus))
        /\ t \in Seq(ItemType) /\ Len(t) = Len(l) /\ t[i] = e
        /\ \A j \in 1 .. Len(l) : j # i => t[j] = l[j]
    <3> HIDE DEF b
    <3> QED BY <1>12, <1>13, <2>2
  <2>4. Edit(y, u)
    BY <1>13, <2>3
  <2>5. e.arg = b
    OBVIOUS
  <2> HIDE DEF b, l, i, e, t
  <2>6. TargetsIn(t, Ids(work.menus))
    BY <2>2, <2>3, <2>5 DEF TargetsIn
  <2>7. ItemsPut(work, view, y, t)
    BY <1>6, <2>3, <2>6
  <2> HIDE DEF y
  <2>8. /\ Keeps(work, y) /\ y.actions[a].items = t /\ y.menus = work.menus
        /\ \A q : SameRow(q, view) /\ ActionShown(y, q) => Faithful(y, q)
    BY <2>7 DEF ItemsPut
  <2>9. u \in ViewType /\ u.item = i /\ u.targetCombo = c /\ SameRow(u, view)
    <3>1. c \in Nat
      BY <1>3, <2>1
    <3> QED BY <1>2, <3>1 DEF SameRow, ViewType, i
  <2> HIDE DEF u
  <2>10. u.action = a
    BY <2>9 DEF SameRow
  <2>11. ActionShown(y, u)
    BY <2>1, <2>3, <2>5, <2>8, <2>9, <2>10 DEF ActionShown, b
  <2>12. Faithful(y, u)
    BY <2>8, <2>9, <2>11
  <2> QED BY <2>4, <2>8, <2>12, EditWrites, Zenon DEF Goal
<1>14. CASE /\ i # 0 /\ its[i].type = "script"
            /\ Edit([work EXCEPT !.actions[a].items[i].arg = 1 - @], view)
  <2> DEFINE l == its
             b == 1 - l[i].arg
             e == [type |-> l[i].type, arg |-> b]
             t == [l EXCEPT ![i] = e]
             y == WithItems(work, a, t)
  <2>1. b \in Int
    <3>1. i \in 1 .. Len(l) /\ l \in Seq(ItemType)
      BY <1>2, <1>14 DEF ActionShown
    <3>2. l[i] \in ItemType
      <4> HIDE DEF l, i, ItemType
      <4> QED BY <3>1
    <3> HIDE DEF l, i
    <3> QED BY <3>2 DEF ItemType
  <2>2. Edit([work EXCEPT !.actions[a].items[i].arg = b], view)
    BY <1>14
  <2>3. /\ [work EXCEPT !.actions[a].items[i].arg = b] = y
        /\ i \in 1 .. Len(l) /\ l \in Seq(ItemType) /\ TargetsIn(l, Ids(work.menus))
        /\ t \in Seq(ItemType) /\ Len(t) = Len(l) /\ t[i] = e
        /\ \A j \in 1 .. Len(l) : j # i => t[j] = l[j]
    <3> HIDE DEF b
    <3> QED BY <1>12, <1>14, <2>1
  <2>4. Edit(y, view)
    BY <2>2, <2>3
  <2>5. e.type = "script" /\ l[i].type = "script"
    BY <1>14
  <2> HIDE DEF b, l, i, e, t
  <2>6. TargetsIn(t, Ids(work.menus))
    BY <2>3, <2>5 DEF TargetsIn
  <2>7. ItemsPut(work, view, y, t)
    BY <1>6, <2>3, <2>6
  <2> HIDE DEF y
  <2>8. /\ Keeps(work, y) /\ y.actions[a].items = t /\ y.menus = work.menus
        /\ \A q : SameRow(q, view) /\ ActionShown(y, q) => Faithful(y, q)
    BY <2>7 DEF ItemsPut
  <2>9. SameRow(view, view)
    BY <1>2 DEF SameRow
  <2>10. ActionShown(y, view)
    BY <2>3, <2>5, <2>8 DEF ActionShown, i
  <2>11. Faithful(y, view)
    BY <2>8, <2>9, <2>10
  <2> QED BY <2>4, <2>8, <2>11, EditWrites, Zenon
<1> HIDE DEF a, i, its
<1> QED BY <1>5, <1>8, <1>9, <1>10, <1>11, <1>13, <1>14 DEF ActionPage, a, i, its, Goal
-----------------------------------------------------------------------------
(* The steps that add and remove rows, and the chord that arrives.         *)

AllNamed(w) == \A m \in DOMAIN w.menus : w.menus[m].named

\* A configuration that starts the application, or that was saved.
Good(w) == Sound(w) /\ TriggersDiffer(w)

LEMMA RowsAddedKeep ==
  ASSUME Sound(work), Faithful(work, view), AddMenu \/ AddAction
  PROVE  Keeps(work, work') /\ Faithful(work', view')
<1>1. /\ work.menus \in Seq(MenuType) /\ work.actions \in Seq(ActionType)
      /\ view \in ViewType
  BY DEF Sound, Copy, Faithful
<1>2. CASE AddMenu
  <2> DEFINE x == [id |-> FreeId(work.menus), trigger |-> None, named |-> TRUE,
                   useHook |-> FALSE, slots |-> <<>>]
             w == [work EXCEPT !.menus = Append(@, x)]
             f == Append(work.menus, x)
             v == RefreshLists(w, view)
             u == SetSelectedMenu(w, v, Len(w.menus))
  <2>1. Edit(w, u)
    BY <1>2 DEF AddMenu
  <2>2. FreeId(work.menus) \in Nat \ {0} /\ FreeId(work.menus) \notin Ids(work.menus)
    <3> HIDE DEF MenuType
    <3> QED BY <1>1, FreeIdIsFree
  <2>3. x \in MenuType /\ x.id \notin Ids(work.menus) /\ x.slots = <<>> /\ x.trigger = None
    <3>1. <<>> \in Seq(Nat) /\ TRUE \in BOOLEAN /\ FALSE \in BOOLEAN
      OBVIOUS
    <3> QED BY <2>2, <3>1 DEF MenuType, None
  <2> HIDE DEF x
  <2>4. Sound(w) /\ w = [menus |-> f, actions |-> work.actions]
    BY <2>3, AddMenuSound
  <2>5. /\ Len(f) = Len(work.menus) + 1 /\ f[Len(work.menus) + 1] = x
        /\ \A i \in 1 .. Len(work.menus) : f[i] = work.menus[i]
        /\ DOMAIN f = 1 .. Len(work.menus) + 1 /\ DOMAIN work.menus = 1 .. Len(work.menus)
        /\ Len(work.menus) \in Nat
    <3> HIDE DEF MenuType
    <3> QED BY <1>1, <2>3
  <2> HIDE DEF f
  <2>6. w.menus = f
    BY <2>4
  <2> HIDE DEF w
  <2>7. Len(w.menus) \in 1 .. Len(w.menus)
    BY <2>5, <2>6
  <2>8. Faithful(w, u)
    <3>1. v \in ViewType
      BY <1>1, <2>4, ListsFit
    <3> HIDE DEF v
    <3> QED BY <2>4, <2>7, <3>1, MenuSelected
  <2>9. TriggersDiffer(work) => TriggersDiffer(w)
    <3>1. \A m \in DOMAIN f : m \in DOMAIN work.menus \/ m = Len(work.menus) + 1
      BY <2>5
    <3> QED BY <2>3, <2>5, <2>6, <3>1 DEF TriggersDiffer
  <2> HIDE DEF u
  <2>10. Keeps(work, w)
    BY <2>4, <2>9 DEF Keeps
  <2> QED BY <2>1, <2>8, <2>10, EditWrites, Zenon
<1>3. CASE AddAction
  <2> DEFINE x == [id |-> FreeId(work.actions), channel |-> 0, items |-> <<>>]
             w == [work EXCEPT !.actions = Append(@, x)]
             f == Append(work.actions, x)
             v == RefreshLists(w, view)
             u == SetSelectedAction(w, v, Len(w.actions))
  <2>1. Edit(w, u)
    BY <1>3 DEF AddAction
  <2>2. FreeId(work.actions) \in Nat \ {0} /\ FreeId(work.actions) \notin Ids(work.actions)
    <3> HIDE DEF ActionType
    <3> QED BY <1>1, FreeIdIsFree
  <2>3. x \in ActionType /\ x.id \notin Ids(work.actions) /\ x.items = <<>>
    <3>1. <<>> \in Seq(ItemType)
      OBVIOUS
    <3> QED BY <2>2, <3>1 DEF ActionType, None
  <2> HIDE DEF x
  <2>4. Sound(w) /\ w = [menus |-> work.menus, actions |-> f]
    BY <2>3, AddActionSound
  <2>5. Len(f) = Len(work.actions) + 1 /\ Len(work.actions) \in Nat
    <3> HIDE DEF ActionType
    <3> QED BY <1>1, <2>3
  <2> HIDE DEF f
  <2>6. w.actions = f /\ w.menus = work.menus
    BY <2>4
  <2> HIDE DEF w
  <2>7. Len(w.actions) \in 1 .. Len(w.actions)
    BY <2>5, <2>6
  <2>8. Faithful(w, u)
    <3>1. v \in ViewType
      BY <1>1, <2>4, ListsFit
    <3> HIDE DEF v
    <3> QED BY <2>4, <2>7, <3>1, ActionSelected
  <2> HIDE DEF u
  <2>9. Keeps(work, w)
    BY <2>4, <2>6 DEF Keeps, TriggersDiffer
  <2> QED BY <2>1, <2>8, <2>9, EditWrites, Zenon
<1> QED BY <1>2, <1>3

LEMMA RowsRemovedKeep ==
  ASSUME Sound(work), Faithful(work, view), RemoveMenu \/ RemoveAction
  PROVE  Keeps(work, work') /\ Faithful(work', view')
<1>1. /\ work.menus \in Seq(MenuType) /\ work.actions \in Seq(ActionType)
      /\ Apart(work.menus) /\ DOMAIN work.menus = 1 .. Len(work.menus)
      /\ view \in ViewType
  BY DEF Sound, Copy, Faithful
<1>2. ASSUME NEW w, Sound(w), Edit(w, RefreshEditors(w, RefreshLists(w, view))),
             TriggersDiffer(work) => TriggersDiffer(w)
      PROVE  Keeps(work, work') /\ Faithful(work', view')
  <2> DEFINE v == RefreshLists(w, view)
  <2>1. v \in ViewType /\ RowsFit(w, v)
    BY <1>1, <1>2, ListsFit
  <2> HIDE DEF v
  <2> DEFINE u == RefreshEditors(w, v)
  <2>2. Faithful(w, u)
    BY <1>2, <2>1, EditorsShow
  <2>3. Edit(w, u)
    BY <1>2 DEF v
  <2>4. Keeps(work, w)
    BY <1>2 DEF Keeps
  <2> HIDE DEF u
  <2> QED BY <2>2, <2>3, <2>4, EditWrites, Zenon
<1>3. CASE RemoveMenu
  <2> DEFINE k == view.menu
             w == ClearMenuReferences([work EXCEPT !.menus = RemoveAt(@, k)], work.menus[k].id)
             f == RemoveAt(work.menus, k)
  <2>1. k \in 1 .. Len(work.menus)
    BY <1>3, MenuPut DEF RemoveMenu
  <2>2. Edit(w, RefreshEditors(w, RefreshLists(w, view)))
    BY <1>3 DEF RemoveMenu
  <2>3. Sound(w) /\ w.menus = f
    BY <2>1, RemoveMenuSound
  <2> HIDE DEF w
  <2>4. f \in Seq(MenuType) /\ LessRow(f, work.menus, k)
    BY <1>1, <2>1, RowRemoved, Zenon
  <2> HIDE DEF f, MenuType
  <2>5. TriggersDiffer(work) => TriggersDiffer(w)
    <3> SUFFICES ASSUME TriggersDiffer(work), NEW i \in 1 .. Len(f), NEW j \in 1 .. Len(f),
                        i # j, f[i].trigger = f[j].trigger
                 PROVE  f[i].trigger = None
      <4>1. DOMAIN f = 1 .. Len(f)
        BY <2>4
      <4> QED BY <2>3, <4>1 DEF TriggersDiffer
    <3>1. PICK p \in 1 .. Len(work.menus) : f[i] = work.menus[p]
      BY <2>4 DEF LessRow
    <3>2. PICK q \in 1 .. Len(work.menus) : f[j] = work.menus[q]
      BY <2>4 DEF LessRow
    <3>3. p # q
      <4>1. f[i].id # f[j].id
        BY <2>4 DEF LessRow, Apart
      <4> QED BY <3>1, <3>2, <4>1
    <3> QED BY <1>1, <3>1, <3>2, <3>3 DEF TriggersDiffer
  <2> QED BY <1>2, <2>2, <2>3, <2>5
<1>4. CASE RemoveAction
  <2> DEFINE k == view.action
             w == DeleteActionReferences([work EXCEPT !.actions = RemoveAt(@, k)], work.actions[k].id)
  <2>1. k \in 1 .. Len(work.actions)
    BY <1>4, ActionPut DEF RemoveAction
  <2>2. Edit(w, RefreshEditors(w, RefreshLists(w, view)))
    BY <1>4 DEF RemoveAction
  <2>3. /\ Sound(w) /\ Len(w.menus) = Len(work.menus)
        /\ \A m \in 1 .. Len(work.menus) : w.menus[m].trigger = work.menus[m].trigger
    BY <2>1, RemoveActionSound
  <2> HIDE DEF w
  <2>4. DOMAIN w.menus = 1 .. Len(w.menus)
    BY <2>3 DEF Sound, Copy
  <2>5. TriggersDiffer(work) => TriggersDiffer(w)
    BY <1>1, <2>3, <2>4 DEF TriggersDiffer
  <2> QED BY <1>2, <2>2, <2>3, <2>5
<1> QED BY <1>3, <1>4

\* The menu selected when the chord arrives gets it, if no other has it.
LEMMA ChordArrives ==
  ASSUME Sound(work), Faithful(work, view), NEW chord \in Chords \cup {None},
         FinishTriggerRecording(chord)
  PROVE  /\ Sound(work') /\ Faithful(work', view')
         /\ TriggersDiffer(work) /\ AllNamed(work) => TriggersDiffer(work')
<1> DEFINE m == CurrentMenu(view)
           ok == recording /\ chord # None /\ m # 0 /\ ~Conflict(work, chord, m)
<1>1. CASE ~ok
  <2>1. UNCHANGED <<work, view>>
    BY <1>1 DEF FinishTriggerRecording
  <2> QED BY <2>1 DEF AllNamed, TriggersDiffer
<1>2. CASE ok
  <2> DEFINE z == work.menus[m]
             x == [z EXCEPT !.trigger = chord]
             y == SetMenu(work, m, x)
             b == x.useHook \/ chord \in WinChords
             q == [x EXCEPT !.useHook = b]
             r == SetMenu(y, m, q)
  <2>1. /\ view \in ViewType /\ m = view.menu /\ m \in 1 .. Len(work.menus) /\ CurrentMenu(view) # 0
        /\ z \in MenuType
        /\ SlotsIn(z.slots, Ids(work.actions))
    BY <1>2, MenuPut DEF CurrentMenu
  <2>2. DOMAIN work.menus = 1 .. Len(work.menus)
    BY DEF Sound, Copy
  <2>3. x \in MenuType /\ x.id = z.id /\ x.slots = z.slots /\ x.trigger = chord
    <3> HIDE DEF z
    <3> QED BY <2>1 DEF MenuType
  <2>4. Sound(y) /\ Faithful(y, view)
    <3> HIDE DEF x
    <3> QED BY <2>1, <2>3, MenuEdited
  <2>5. /\ y.actions = work.actions /\ Len(y.menus) = Len(work.menus) /\ y.menus[m] = x
        /\ \A n \in 1 .. Len(work.menus) : n # m => y.menus[n] = work.menus[n]
    <3> HIDE DEF x
    <3> QED BY <2>1, <2>3, SetMenuSound
  <2>6. q \in MenuType /\ q.id = x.id /\ q.slots = x.slots /\ q.trigger = x.trigger
    <3>1. b \in BOOLEAN
      OBVIOUS
    <3> HIDE DEF x, b
    <3> QED BY <2>3, <3>1 DEF MenuType
  <2>7. work' = r /\ view' = view
    <3>1. /\ work' = [work EXCEPT !.menus[m].trigger = chord,
                                  !.menus[m].useHook = @ \/ chord \in WinChords]
          /\ view' = view
      BY <1>2 DEF FinishTriggerRecording
    <3> DEFINE d == [work EXCEPT !.menus[m].trigger = chord]
    <3>2. d = y
      BY MenuWritten
    <3>3. work' = [d EXCEPT !.menus = [d.menus EXCEPT ![m] = [d.menus[m] EXCEPT
                     !.useHook = d.menus[m].useHook \/ chord \in WinChords]]]
      BY <3>1
    <3> HIDE DEF d, y, x
    <3>4. work' = [y EXCEPT !.menus = [y.menus EXCEPT ![m] = q]]
      BY <2>5, <3>2, <3>3
    <3> HIDE DEF q
    <3> QED BY <2>4, <3>1, <3>4, MenuWritten
  <2> HIDE DEF q, x
  <2>8. q.id = y.menus[m].id /\ q.slots = y.menus[m].slots /\ q.trigger = y.menus[m].trigger
    BY <2>5, <2>6
  <2> HIDE DEF y
  <2>9. Keeps(y, r) /\ Faithful(r, view)
    BY <2>1, <2>4, <2>6, <2>8, MenuChanged
  <2> HIDE DEF r
  <2>10. ASSUME TriggersDiffer(work), AllNamed(work) PROVE TriggersDiffer(y)
    <3>1. \A n \in DOMAIN work.menus \ {m} : work.menus[n].trigger # chord
      <4> DEFINE others == {n \in DOMAIN work.menus \ {m} : work.menus[n].trigger = chord}
      <4>1. SUFFICES ASSUME others # {} PROVE FALSE
        OBVIOUS
      <4>2. others \subseteq Nat
        BY <2>2
      <4>3. Min(others) \in others
        <5> HIDE DEF others
        <5> QED BY <4>1, <4>2, LeastOf
      <4>4. work.menus[Min(others)].named
        BY <2>10, <4>3 DEF AllNamed
      <4>5. Conflict(work, chord, m)
        BY <4>1, <4>4 DEF Conflict
      <4> QED BY <1>2, <4>5
    <3>2. DOMAIN y.menus = 1 .. Len(y.menus)
      BY <2>4 DEF Sound, Copy
    <3> HIDE DEF m
    <3> QED BY <2>2, <2>3, <2>5, <2>10, <3>1, <3>2 DEF TriggersDiffer
  <2> QED BY <2>7, <2>9, <2>10 DEF Keeps
<1> QED BY <1>1, <1>2
-----------------------------------------------------------------------------
(* The window's invariant and what follows from it.                        *)

WindowInv ==
  /\ Sound(work) /\ Good(live)
  /\ Faithful(work, view)
  /\ posted \in Seq(Chords \cup {None})

\* What validation lets pass is sound.
LEMMA Validated ==
  ASSUME NEW w \in Copy, ValidateWorkingCopy(w)
  PROVE  Good(w)
<1>1. /\ w.menus \in Seq(MenuType) /\ w.actions \in Seq(ActionType)
      /\ DOMAIN w.menus = 1 .. Len(w.menus) /\ DOMAIN w.actions = 1 .. Len(w.actions)
  BY DEF Copy
<1>2. Apart(w.menus) /\ Apart(w.actions)
  <2>1. Cardinality(Ids(w.actions)) = Len(w.actions) /\ Cardinality(Ids(w.menus)) = Len(w.menus)
    BY DEF ValidateWorkingCopy
  <2> HIDE DEF MenuType, ActionType
  <2> QED BY <1>1, <2>1, IdsCount
<1>3. ASSUME NEW m \in 1 .. Len(w.menus) PROVE SlotsIn(w.menus[m].slots, Ids(w.actions))
  <2>1. w.menus[m] \in MenuType
    <3> HIDE DEF MenuType
    <3> QED BY <1>1
  <2>2. DOMAIN w.menus[m].slots = 1 .. Len(w.menus[m].slots)
    BY <2>1 DEF MenuType
  <2>3. Range(w.menus[m].slots) \subseteq Ids(w.actions)
    BY <1>1 DEF ValidateWorkingCopy
  <2> QED BY <2>2, <2>3 DEF SlotsIn, Range
<1>4. ASSUME NEW a \in 1 .. Len(w.actions) PROVE TargetsIn(w.actions[a].items, Ids(w.menus))
  <2>1. w.actions[a] \in ActionType
    <3> HIDE DEF ActionType
    <3> QED BY <1>1
  <2>2. DOMAIN w.actions[a].items = 1 .. Len(w.actions[a].items)
    BY <2>1 DEF ActionType
  <2>3. \A i \in DOMAIN w.actions[a].items : ItemComplete(w, w.actions[a].items[i])
    BY <1>1 DEF ValidateWorkingCopy
  <2>4. \A i \in DOMAIN w.actions[a].items :
          w.actions[a].items[i].type = "menu" => w.actions[a].items[i].arg \in Ids(w.menus)
    BY <2>3 DEF ItemComplete
  <2> QED BY <2>2, <2>4 DEF TargetsIn
<1>5. TriggersDiffer(w)
  BY DEF ValidateWorkingCopy
<1> QED BY <1>2, <1>3, <1>4, <1>5 DEF Good, Sound

LEMMA WindowStarts ==
  ASSUME Init PROVE WindowInv
<1>1. Good(live)
  <2>1. live \in Copy /\ ValidateWorkingCopy(live)
    BY ConfigsAssumption DEF Init, Copy, MenuType, ActionType, ItemType
  <2> QED BY <2>1, Validated
<1>2. Sound(work)
  <2> DEFINE e == <<>>
  <2>1. work.menus = e /\ work.actions = e /\ work = [menus |-> e, actions |-> e]
    BY DEF Init
  <2>2. e \in Seq(MenuType) /\ e \in Seq(ActionType) /\ Len(e) = 0
    OBVIOUS
  <2> HIDE DEF e, MenuType, ActionType
  <2> QED BY <2>1, <2>2 DEF Sound, Copy, Apart
<1>3. Faithful(work, view)
  <2>1. view = NoView
    BY DEF Init
  <2>2. NoView \in ViewType /\ CurrentMenu(NoView) = 0 /\ CurrentAction(NoView) = 0
        /\ NoView.page = "none"
    BY DEF NoView, ViewType, CurrentMenu, CurrentAction
  <2>3. Len(work.menus) = 0 /\ Len(work.actions) = 0
    BY DEF Init
  <2> QED BY <2>1, <2>2, <2>3 DEF Faithful, RowsFit, PageFits
<1>4. posted \in Seq(Chords \cup {None})
  BY DEF Init
<1> QED BY <1>1, <1>2, <1>3, <1>4 DEF WindowInv

\* Opening the window takes what was saved.
LEMMA WindowOpens ==
  ASSUME Good(live), view \in ViewType, ShowSettingsWindow
  PROVE  Good(work') /\ Faithful(work', view')
<1> DEFINE v0 == [view EXCEPT !.kind = "none"]
           v == RefreshLists(live, v0)
<1>1. v0 \in ViewType
  BY DEF ViewType
<1> HIDE DEF v0
<1>2. v \in ViewType /\ RowsFit(live, v)
  BY <1>1, ListsFit DEF Good
<1> HIDE DEF v
<1>3. /\ work' = live
      /\ view' = IF live.menus # <<>> THEN SetSelectedMenu(live, v, 1)
                 ELSE IF live.actions # <<>> THEN SetSelectedAction(live, v, 1)
                 ELSE RefreshEditors(live, v)
  BY DEF ShowSettingsWindow, v, v0
<1>4. /\ live.menus # <<>> => 1 \in 1 .. Len(live.menus)
      /\ live.actions # <<>> => 1 \in 1 .. Len(live.actions)
  BY DEF Good, Sound, Copy
<1>5. CASE live.menus # <<>> /\ view' = SetSelectedMenu(live, v, 1)
  <2>1. Faithful(live, SetSelectedMenu(live, v, 1))
    BY <1>2, <1>4, <1>5, MenuSelected DEF Good
  <2> QED BY <1>3, <1>5, <2>1
<1>6. CASE live.actions # <<>> /\ view' = SetSelectedAction(live, v, 1)
  <2>1. Faithful(live, SetSelectedAction(live, v, 1))
    BY <1>2, <1>4, <1>6, ActionSelected DEF Good
  <2> QED BY <1>3, <1>6, <2>1
<1>7. CASE view' = RefreshEditors(live, v)
  <2>1. Faithful(live, RefreshEditors(live, v))
    BY <1>2, EditorsShow DEF Good
  <2> QED BY <1>3, <1>7, <2>1
<1>8. \/ live.menus # <<>> /\ view' = SetSelectedMenu(live, v, 1)
      \/ live.actions # <<>> /\ view' = SetSelectedAction(live, v, 1)
      \/ view' = RefreshEditors(live, v)
  BY <1>3
<1> QED BY <1>5, <1>6, <1>7, <1>8

\* One step: the working copy stays sound and the window right.  Two menus
\* get one chord only from a step that started with a nameless menu or with
\* two that had it.
LEMMA WindowStep ==
  ASSUME WindowInv, [Next]_vars
  PROVE  WindowInv' /\ (TriggersDiffer(work) /\ AllNamed(work) => TriggersDiffer(work'))
<1>1. Sound(work) /\ Good(live) /\ Faithful(work, view) /\ posted \in Seq(Chords \cup {None})
  BY DEF WindowInv
<1>2. ASSUME Keeps(work, work') /\ Faithful(work', view'), UNCHANGED <<live, posted>>
      PROVE  WindowInv' /\ (TriggersDiffer(work) => TriggersDiffer(work'))
  BY <1>1, <1>2 DEF WindowInv, Keeps, Good, TriggersDiffer
<1>3. ASSUME UNCHANGED <<live, work, view>>, posted' \in Seq(Chords \cup {None})
      PROVE  WindowInv' /\ (TriggersDiffer(work) => TriggersDiffer(work'))
  BY <1>1, <1>3 DEF WindowInv, TriggersDiffer
<1>4. CASE Select
  <2>1. DOMAIN work.menus = 1 .. Len(work.menus) /\ DOMAIN work.actions = 1 .. Len(work.actions)
    BY <1>1 DEF Sound, Copy
  <2>2. view \in ViewType
    BY <1>1 DEF Faithful
  <2>3. ASSUME NEW i \in DOMAIN work.menus, Look(SetSelectedMenu(work, view, i))
        PROVE  WindowInv' /\ (TriggersDiffer(work) => TriggersDiffer(work'))
    <3>1. Faithful(work, SetSelectedMenu(work, view, i))
      BY <1>1, <2>1, <2>2, <2>3, MenuSelected
    <3>2. Keeps(work, work') /\ Faithful(work', view')
      BY <1>1, <2>3, <3>1, LookKeeps, Zenon
    <3> QED BY <1>2, <2>3, <3>2 DEF Look
  <2>4. ASSUME NEW i \in DOMAIN work.actions, Look(SetSelectedAction(work, view, i))
        PROVE  WindowInv' /\ (TriggersDiffer(work) => TriggersDiffer(work'))
    <3>1. Faithful(work, SetSelectedAction(work, view, i))
      BY <1>1, <2>1, <2>2, <2>4, ActionSelected
    <3>2. Keeps(work, work') /\ Faithful(work', view')
      BY <1>1, <2>4, <3>1, LookKeeps, Zenon
    <3> QED BY <1>2, <2>4, <3>2 DEF Look
  <2> QED BY <1>4, <2>3, <2>4 DEF Select
<1>5. CASE AddMenu \/ AddAction
  <2>1. UNCHANGED <<live, posted>>
    BY <1>5 DEF AddMenu, AddAction, Edit
  <2> QED BY <1>1, <1>2, <1>5, <2>1, RowsAddedKeep
<1>6. CASE RemoveMenu \/ RemoveAction
  <2>1. UNCHANGED <<live, posted>>
    BY <1>6 DEF RemoveMenu, RemoveAction, Edit
  <2> QED BY <1>1, <1>2, <1>6, <2>1, RowsRemovedKeep
<1>7. CASE MenuPage
  <2>1. UNCHANGED <<live, posted>>
    BY <1>7 DEF MenuPage, Edit, Look
  <2> QED BY <1>1, <1>2, <1>7, <2>1, MenuPageKeeps
<1>8. CASE ActionPage
  <2>1. UNCHANGED <<live, posted>>
    BY <1>8 DEF ActionPage, Edit, Look
  <2> QED BY <1>1, <1>2, <1>8, <2>1, ActionPageKeeps
<1>9. CASE Record \/ Close \/ OpenSearchFromTray \/ UNCHANGED vars
  BY <1>1, <1>3, <1>9 DEF Record, Close, OpenSearchFromTray, vars
<1>10. ASSUME NEW chord \in Chords \cup {None}, HookDelivers(chord)
       PROVE  WindowInv' /\ (TriggersDiffer(work) => TriggersDiffer(work'))
  <2>1. UNCHANGED <<live, work, view>> /\ posted' = Append(posted, chord)
    BY <1>10 DEF HookDelivers
  <2>2. posted' \in Seq(Chords \cup {None})
    BY <1>1, <1>10, <2>1
  <2> QED BY <1>3, <2>1, <2>2
<1>11. ASSUME NEW chord \in Chords \cup {None}, FinishTriggerRecording(chord),
              posted' \in Seq(Chords \cup {None})
       PROVE  WindowInv' /\ (TriggersDiffer(work) /\ AllNamed(work) => TriggersDiffer(work'))
  <2>1. live' = live
    BY <1>11 DEF FinishTriggerRecording
  <2>2. /\ Sound(work') /\ Faithful(work', view')
        /\ TriggersDiffer(work) /\ AllNamed(work) => TriggersDiffer(work')
    BY <1>1, <1>11, ChordArrives
  <2> QED BY <1>1, <1>11, <2>1, <2>2 DEF WindowInv, Good, TriggersDiffer
<1>12. CASE FinishPosted
  <2>1. posted # <<>> /\ posted' = Tail(posted) /\ FinishTriggerRecording(Head(posted))
    BY <1>12 DEF FinishPosted
  <2>2. Head(posted) \in Chords \cup {None} /\ Tail(posted) \in Seq(Chords \cup {None})
    BY <1>1, <2>1
  <2> QED BY <1>11, <2>1, <2>2
<1>13. ASSUME NEW chord \in Chords \cup {None}, KeyPress(chord)
       PROVE  WindowInv' /\ (TriggersDiffer(work) /\ AllNamed(work) => TriggersDiffer(work'))
  <2>1. posted' = posted /\ FinishTriggerRecording(chord)
    BY <1>13 DEF KeyPress
  <2> QED BY <1>1, <1>11, <2>1
<1>14. CASE ShowSettingsWindow
  <2>1. UNCHANGED <<live, posted>>
    BY <1>14 DEF ShowSettingsWindow
  <2>2. view \in ViewType
    BY <1>1 DEF Faithful
  <2>3. Good(work') /\ Faithful(work', view')
    BY <1>1, <1>14, <2>2, WindowOpens
  <2>4. Keeps(work, work')
    BY <2>3 DEF Keeps, Good
  <2> QED BY <1>2, <2>1, <2>3, <2>4
<1>15. CASE Save
  <2>1. live' = work /\ UNCHANGED <<work, view, posted>> /\ ValidateWorkingCopy(work)
    BY <1>15 DEF Save
  <2>2. Good(work)
    <3>1. TriggersDiffer(work)
      BY <2>1 DEF ValidateWorkingCopy
    <3> QED BY <1>1, <3>1 DEF Good
  <2> QED BY <1>1, <2>1, <2>2 DEF WindowInv, Good, TriggersDiffer
<1> QED
  BY <1>4, <1>5, <1>6, <1>7, <1>8, <1>9, <1>10, <1>12, <1>13, <1>14, <1>15 DEF Next

\* Whatever is added, removed, moved and chosen, and whatever comes from the
\* hook meanwhile, no slot and no target names what is gone, and ids differ.
\* (deleteActionReferences, clearMenuReferences, makeUnique...Id)
THEOREM NothingDangles == Spec => []NoDanglingReferences
<1>1. Init => WindowInv
  BY WindowStarts
<1>2. WindowInv /\ [Next]_vars => WindowInv'
  BY WindowStep
<1>3. WindowInv => NoDanglingReferences
  <2> SUFFICES ASSUME WindowInv PROVE NoDanglingReferences
    OBVIOUS
  <2>1. /\ work.menus \in Seq(MenuType) /\ work.actions \in Seq(ActionType)
        /\ Apart(work.menus) /\ Apart(work.actions)
        /\ DOMAIN work.menus = 1 .. Len(work.menus) /\ DOMAIN work.actions = 1 .. Len(work.actions)
        /\ \A m \in 1 .. Len(work.menus) : SlotsIn(work.menus[m].slots, Ids(work.actions))
        /\ \A a \in 1 .. Len(work.actions) : TargetsIn(work.actions[a].items, Ids(work.menus))
    BY DEF WindowInv, Sound, Copy
  <2>2. Cardinality(Ids(work.actions)) = Len(work.actions) /\ Cardinality(Ids(work.menus)) = Len(work.menus)
    <3> HIDE DEF MenuType, ActionType
    <3> QED BY <2>1, IdsCount
  <2>3. ASSUME NEW m \in DOMAIN work.menus PROVE Range(work.menus[m].slots) \subseteq Ids(work.actions)
    <3>1. work.menus[m] \in MenuType
      <4> HIDE DEF MenuType
      <4> QED BY <2>1
    <3>2. DOMAIN work.menus[m].slots = 1 .. Len(work.menus[m].slots)
      BY <3>1 DEF MenuType
    <3> QED BY <2>1, <3>2 DEF SlotsIn, Range
  <2>4. ASSUME NEW a \in DOMAIN work.actions, NEW i \in DOMAIN work.actions[a].items,
               work.actions[a].items[i].type = "menu"
        PROVE  work.actions[a].items[i].arg \in Ids(work.menus) \cup {None}
    <3>1. work.actions[a] \in ActionType
      <4> HIDE DEF ActionType
      <4> QED BY <2>1
    <3>2. DOMAIN work.actions[a].items = 1 .. Len(work.actions[a].items)
      BY <3>1 DEF ActionType
    <3> QED BY <2>1, <2>4, <3>2 DEF TargetsIn
  <2> QED BY <2>2, <2>3, <2>4 DEF NoDanglingReferences
<1> QED BY <1>1, <1>2, <1>3, PTL DEF Spec

\* No edit goes to another row than the one in sight.
\* (refreshEditors, refreshMenuEditor, refreshActionEditor, refreshItemDetail)
THEOREM EditorIsFaithful == Spec => []EditorShowsSelection
<1>1. Init => WindowInv
  BY WindowStarts
<1>2. WindowInv /\ [Next]_vars => WindowInv'
  BY WindowStep
<1>3. WindowInv => EditorShowsSelection
  <2> SUFFICES ASSUME WindowInv PROVE EditorShowsSelection
    OBVIOUS
  <2>1. Sound(work) /\ Faithful(work, view)
    BY DEF WindowInv
  <2>2. DOMAIN work.menus = 1 .. Len(work.menus) /\ DOMAIN work.actions = 1 .. Len(work.actions)
    BY <2>1 DEF Sound, Copy
  <2>3. ASSUME view.page = "menu"
        PROVE  /\ CurrentMenu(view) \in DOMAIN work.menus
               /\ LET slots == work.menus[view.menu].slots
                  IN  /\ view.slot \in DOMAIN slots \/ (view.slot = 0 /\ slots = <<>>)
                      /\ view.slot # 0 => /\ view.slotCombo \in DOMAIN work.actions
                                           /\ work.actions[view.slotCombo].id = slots[view.slot]
    <3>1. CurrentMenu(view) # 0
      BY <2>1, <2>3 DEF Faithful, PageFits
    <3>2. view.kind = "menu" /\ view.menu \in 1 .. Len(work.menus) /\ MenuShown(work, view)
      BY <2>1, <3>1, MenuPut
    <3> DEFINE slots == work.menus[view.menu].slots
    <3>3. slots \in Seq(Nat) /\ DOMAIN slots = 1 .. Len(slots)
      BY <2>1, <3>1, MenuPut
    <3>4. MenuShown(work, view) <=>
            /\ view.slot \in 1 .. Len(slots) \/ (view.slot = 0 /\ Len(slots) = 0)
            /\ view.slot # 0 => /\ view.slotCombo \in 1 .. Len(work.actions)
                                /\ work.actions[view.slotCombo].id = slots[view.slot]
      BY DEF MenuShown
    <3>5. CurrentMenu(view) \in DOMAIN work.menus
      BY <2>2, <3>2 DEF CurrentMenu
    <3> HIDE DEF slots
    <3>6. Len(slots) = 0 => slots = <<>>
      BY <3>3
    <3> QED BY <2>2, <3>2, <3>3, <3>4, <3>5, <3>6 DEF slots
  <2>4. ASSUME view.page = "action"
        PROVE  /\ CurrentAction(view) \in DOMAIN work.actions
               /\ LET its == work.actions[view.action].items
                  IN  /\ view.item \in DOMAIN its \/ (view.item = 0 /\ its = <<>>)
                      /\ view.item # 0 /\ its[view.item].type = "menu" /\ its[view.item].arg # None
                           => /\ view.targetCombo \in DOMAIN work.menus
                              /\ work.menus[view.targetCombo].id = its[view.item].arg
    <3>1. CurrentAction(view) # 0
      BY <2>1, <2>4 DEF Faithful, PageFits
    <3>2. view.kind = "action" /\ view.action \in 1 .. Len(work.actions) /\ ActionShown(work, view)
      BY <2>1, <3>1, ActionPut
    <3> DEFINE its == work.actions[view.action].items
    <3>3. its \in Seq(ItemType) /\ DOMAIN its = 1 .. Len(its)
      BY <2>1, <3>1, ActionPut
    <3>4. ActionShown(work, view) <=>
            /\ view.item \in 1 .. Len(its) \/ (view.item = 0 /\ Len(its) = 0)
            /\ view.item # 0 /\ its[view.item].type = "menu" /\ its[view.item].arg # None
                 => /\ view.targetCombo \in 1 .. Len(work.menus)
                    /\ work.menus[view.targetCombo].id = its[view.item].arg
      BY DEF ActionShown
    <3>5. CurrentAction(view) \in DOMAIN work.actions
      BY <2>2, <3>2 DEF CurrentAction
    <3> HIDE DEF its, ItemType
    <3>6. Len(its) = 0 => its = <<>>
      BY <3>3
    <3> QED BY <2>2, <3>2, <3>3, <3>4, <3>5, <3>6 DEF its
  <2> QED BY <2>3, <2>4 DEF EditorShowsSelection
<1> QED BY <1>1, <1>2, <1>3, PTL DEF Spec

\* While all menus have names, no step gives one chord to two of them.
\* (finishTriggerRecording, validateWorkingCopy)
THEOREM ChordsStayApart == Spec => TriggersKeptApart
<1>1. Init => WindowInv
  BY WindowStarts
<1>2. WindowInv /\ [Next]_vars => WindowInv'
  BY WindowStep
<1>3. WindowInv /\ [Next]_vars =>
        [TriggersDiffer(work) /\ (\A m \in DOMAIN work.menus : work.menus[m].named)
           => TriggersDiffer(work')]_vars
  BY WindowStep DEF AllNamed
<1> QED BY <1>1, <1>2, <1>3, PTL DEF Spec, TriggersKeptApart
-----------------------------------------------------------------------------
(* The page of one item: its controls, field by field.                     *)

\* A spin box stays in its range, and leaves what it can show.
SpinRight(s, v) ==
  /\ Page!InSpin(s, v) \in Int /\ s.lo <= Page!InSpin(s, v) /\ Page!InSpin(s, v) <= s.hi
  /\ s.lo <= v /\ v <= s.hi /\ v % s.step = 0 => Page!InSpin(s, v) = v

LEMMA SpinRounds ==
  ASSUME NEW lo \in Int, NEW hi \in Int, lo <= hi, NEW v \in Int,
         NEW step \in {1, 10, 100}
  PROVE  SpinRight(Page!Steps(lo, hi, step), v)
<1> DEFINE s == Page!Steps(lo, hi, step)
           rounded == ((v + step \div 2) \div step) * step
<1>1. s.lo = lo /\ s.hi = hi /\ s.step = step
  BY DEF Page!Steps
<1>2. Page!InSpin(s, v) = IF rounded < lo THEN lo ELSE IF rounded > hi THEN hi ELSE rounded
  BY <1>1 DEF Page!InSpin
<1>3. rounded \in Int /\ (v % step = 0 => rounded = v)
  <2>1. CASE step = 1
    BY <2>1
  <2>2. CASE step = 10
    BY <2>2
  <2>3. CASE step = 100
    BY <2>3
  <2> QED BY <2>1, <2>2, <2>3
<1> HIDE DEF s, rounded
<1> QED BY <1>1, <1>2, <1>3 DEF SpinRight, s

SpinFields == {"interval", "hold", "duration", "x", "y", "dx", "dy", "channel", "n"}

LEMMA SpinTable ==
  /\ DOMAIN Page!Spin = SpinFields
  /\ Page!Spin["interval"] = Page!Steps(10, 50000, 10)
  /\ Page!Spin["hold"] = Page!Steps(0, 36000000, 100)
  /\ Page!Spin["duration"] = Page!Steps(0, 86400000, 1)
  /\ \A f \in {"x", "y"} : Page!Spin[f] = Page!Steps(-100000, 100000, 1)
  /\ \A f \in {"dx", "dy"} : Page!Spin[f] = Page!Steps(-12000, 12000, 1)
  /\ Page!Spin["channel"] = Page!Steps(0, 1000000, 1)
  /\ Page!Spin["n"] = Page!Steps(1, 1000, 1)
BY DEF Page!Spin, SpinFields

LEMMA SpinsRight ==
  ASSUME NEW f \in SpinFields, NEW v \in Int
  PROVE  SpinRight(Page!Spin[f], v)
<1>1. CASE f = "interval"
  <2>1. SpinRight(Page!Steps(10, 50000, 10), v)
    BY SpinRounds
  <2> QED BY <1>1, <2>1, SpinTable
<1>2. CASE f = "hold"
  <2>1. SpinRight(Page!Steps(0, 36000000, 100), v)
    BY SpinRounds
  <2> QED BY <1>2, <2>1, SpinTable
<1>3. CASE f = "duration"
  <2>1. SpinRight(Page!Steps(0, 86400000, 1), v)
    BY SpinRounds
  <2> QED BY <1>3, <2>1, SpinTable
<1>4. CASE f \in {"x", "y"}
  <2>1. SpinRight(Page!Steps(-100000, 100000, 1), v)
    BY SpinRounds
  <2> QED BY <1>4, <2>1, SpinTable
<1>5. CASE f \in {"dx", "dy"}
  <2>1. SpinRight(Page!Steps(-12000, 12000, 1), v)
    BY SpinRounds
  <2> QED BY <1>5, <2>1, SpinTable
<1>6. CASE f = "channel"
  <2>1. SpinRight(Page!Steps(0, 1000000, 1), v)
    BY SpinRounds
  <2> QED BY <1>6, <2>1, SpinTable
<1>7. CASE f = "n"
  <2>1. SpinRight(Page!Steps(1, 1000, 1), v)
    BY SpinRounds
  <2> QED BY <1>7, <2>1, SpinTable
<1> QED BY <1>1, <1>2, <1>3, <1>4, <1>5, <1>6, <1>7 DEF SpinFields

BoxFields == {"preset", "keycode", "button", "level", "protocol"}

LEMMA BoxTable ==
  /\ DOMAIN Page!Box = BoxFields
  /\ Page!Box["keycode"].entries = ListedKeys /\ Page!Box["keycode"].other = 65
  /\ Page!Box["button"].entries = 0 .. 2 /\ Page!Box["button"].other = 0
BY DEF Page!Box, BoxFields, Page!A

\* What a control shows, whatever the item has.
PageValue(f, v) ==
  /\ f \in SpinFields => v \in Int /\ Page!Spin[f].lo <= v /\ v <= Page!Spin[f].hi
  /\ f = "keycode" => v # 0
  /\ f = "button" => v \in 0 .. 2
  /\ f \in Page!Lines => Typewritten(v)

\* A value that a field of an item may have.
ItemValue(f, v) ==
  /\ f \in SpinFields => v \in Int
  /\ f \in Page!Lines => Typewritten(v)

LineFields == {"destination", "method", "url", "target", "path", "message"}

LEMMA LineTable ==
  /\ Page!Lines = LineFields
  /\ Page!Trimmed = {"destination", "method", "url"}
BY DEF Page!Lines, Page!Trimmed, LineFields

\* What a control shows of a value is a value of the control; what is written
\* for it is the value itself, if the control can show that.
LEMMA ShownWritten ==
  ASSUME NEW f, NEW v, ItemValue(f, v)
  PROVE  /\ PageValue(f, Page!Shown(f, v))
         /\ Page!Representable(f, v) => Page!Written(f, Page!Shown(f, v)) = v
<1> DEFINE u == Page!Shown(f, v)
<1>1. CASE f \in SpinFields
  <2>1. u = Page!InSpin(Page!Spin[f], v)
    <3>1. f \in DOMAIN Page!Spin /\ f \notin DOMAIN Page!Box /\ f # "modifiers" /\ f # "method"
      BY <1>1, SpinTable, BoxTable DEF SpinFields, BoxFields
    <3> QED BY <3>1 DEF Page!Shown
  <2>2. SpinRight(Page!Spin[f], v)
    BY <1>1, SpinsRight DEF ItemValue
  <2>3. f \notin LineFields /\ f # "keycode" /\ f # "button" /\ f \notin Page!Trimmed
    BY <1>1, LineTable DEF SpinFields, LineFields
  <2>4. Page!Written(f, u) = u
    BY <2>3 DEF Page!Written
  <2>5. Page!Representable(f, v) <=>
          v \in Page!Spin[f].lo .. Page!Spin[f].hi /\ v % Page!Spin[f].step = 0
    <3>1. /\ f \in DOMAIN Page!Spin /\ f \notin DOMAIN Page!Box /\ f # "modifiers"
          /\ f \notin {"method", "url"} /\ f # "destination"
      BY <1>1, SpinTable, BoxTable DEF SpinFields, BoxFields
    <3> QED BY <3>1 DEF Page!Representable
  <2> HIDE DEF u
  <2> QED BY <1>1, <2>1, <2>2, <2>3, <2>4, <2>5, LineTable DEF SpinRight, PageValue, ItemValue, u
<1>2. CASE f \in BoxFields
  <2>0. /\ f \notin DOMAIN Page!Spin /\ f \in DOMAIN Page!Box /\ f # "modifiers"
        /\ f \notin {"method", "url"} /\ f # "destination"
    BY <1>2, SpinTable, BoxTable DEF SpinFields, BoxFields
  <2>1. f \notin SpinFields /\ f \notin LineFields /\ f \notin Page!Trimmed
    BY <1>2, LineTable DEF SpinFields, BoxFields, LineFields
  <2>2. u = IF v \in Page!Box[f].entries THEN v ELSE Page!Box[f].other
    BY <1>2, <2>1, <2>0 DEF Page!Shown
  <2>3. Page!Written(f, u) = u
    BY <2>1 DEF Page!Written
  <2>4. Page!Representable(f, v) <=> v \in Page!Box[f].entries
    BY <1>2, <2>1, <2>0 DEF Page!Representable
  <2> HIDE DEF u
  <2>5. f = "keycode" => u # 0
    BY <2>2, BoxTable, PageAssumption
  <2>6. f = "button" => u \in 0 .. 2
    BY <2>2, BoxTable
  <2> QED BY <2>1, <2>2, <2>3, <2>4, <2>5, <2>6, LineTable DEF PageValue, u
<1>3. CASE f = "modifiers"
  <2>1. f \notin SpinFields /\ f \notin BoxFields /\ f \notin LineFields /\ f \notin Page!Trimmed
    BY <1>3, LineTable DEF SpinFields, BoxFields, LineFields
  <2>2. u = v \cap Page!PageBits
    BY <1>3, <2>1, SpinTable, BoxTable DEF Page!Shown
  <2>3. Page!Written(f, u) = u
    BY <2>1 DEF Page!Written
  <2>4. Page!Representable(f, v) <=> v \subseteq Page!PageBits
    BY <1>3, <2>1, SpinTable, BoxTable DEF Page!Representable
  <2> HIDE DEF u
  <2> QED BY <1>3, <2>1, <2>2, <2>3, <2>4, LineTable DEF PageValue, u
<1>4. CASE f \in LineFields
  <2>1. f \notin SpinFields /\ f \notin BoxFields /\ f # "modifiers"
    BY <1>4 DEF SpinFields, BoxFields, LineFields
  <2>2. u = IF f = "method" /\ v = Page!Blank THEN Page!Text("POST") ELSE v
    BY <2>1, SpinTable, BoxTable DEF Page!Shown
  <2>3. v.padded \in BOOLEAN /\ v = [word |-> v.word, padded |-> v.padded]
    BY <1>4, LineTable DEF ItemValue, Typewritten
  <2>4. Typewritten(u)
    <3>1. Typewritten(Page!Text("POST"))
      BY DEF Typewritten, Page!Text
    <3>2. Typewritten(v)
      BY <2>3 DEF Typewritten
    <3> QED BY <2>2, <3>1, <3>2
  <2>5. PageValue(f, u)
    <3> HIDE DEF u
    <3> QED BY <1>4, <2>1, <2>4 DEF PageValue, LineFields, BoxFields
  <2>6. ASSUME Page!Representable(f, v) PROVE Page!Written(f, u) = v
    <3>1. CASE f \in {"method", "url"}
      <4>1. v.word # "" /\ ~ v.padded
        <5>1. /\ f \notin DOMAIN Page!Spin /\ f \notin DOMAIN Page!Box /\ f # "modifiers"
              /\ f \in {"method", "url"} /\ f # "destination"
          BY <2>1, <3>1, SpinTable, BoxTable
        <5> QED BY <2>6, <5>1 DEF Page!Representable
      <4>2. v # Page!Blank /\ v = Page!Text(v.word)
        <5>1. v.padded = FALSE
          BY <2>3, <4>1
        <5>2. Page!Blank.word = ""
          BY DEF Page!Blank
        <5> QED BY <2>3, <4>1, <5>1, <5>2 DEF Page!Text
      <4>3. u = v
        BY <2>2, <4>2
      <4> HIDE DEF u
      <4>4. Page!Written(f, u) = Page!Text(v.word)
        BY <3>1, <4>1, <4>3, LineTable DEF Page!Written
      <4> QED BY <4>2, <4>4
    <3>2. CASE f = "destination"
      <4>1. ~ v.padded
        BY <2>1, <2>6, <3>2, SpinTable, BoxTable DEF Page!Representable
      <4>2. v = Page!Text(v.word)
        <5>1. v.padded = FALSE
          BY <2>3, <4>1
        <5> QED BY <2>3, <5>1 DEF Page!Text
      <4>3. u = v
        BY <2>2, <3>2
      <4> HIDE DEF u
      <4>4. Page!Written(f, u) = Page!Text(v.word)
        BY <3>2, <4>3, LineTable DEF Page!Written
      <4> QED BY <4>2, <4>4
    <3>3. CASE f \notin Page!Trimmed
      <4>1. u = v
        BY <2>2, <3>3, LineTable
      <4> HIDE DEF u
      <4> QED BY <3>3, <4>1 DEF Page!Written
    <3> QED BY <3>1, <3>2, <3>3, LineTable
  <2> QED BY <2>5, <2>6
<1>5. CASE f \notin SpinFields /\ f \notin BoxFields /\ f # "modifiers" /\ f \notin LineFields
  <2>1. f # "method" /\ f \notin Page!Trimmed /\ f # "keycode" /\ f # "button"
    BY <1>5, LineTable DEF LineFields, BoxFields
  <2>2. u = v
    BY <1>5, <2>1, SpinTable, BoxTable DEF Page!Shown
  <2> HIDE DEF u
  <2>3. Page!Written(f, u) = u
    BY <2>1 DEF Page!Written
  <2> QED BY <1>5, <2>1, <2>2, <2>3, LineTable DEF PageValue, u
<1> QED BY <1>1, <1>2, <1>3, <1>4, <1>5
LEMMA FieldTable ==
  /\ Page!Fields("launch_app") = {"preset", "target"}
  /\ Page!Fields("script") = {"path"}
  /\ Page!Fields("delay") = {"duration"}
  /\ Page!Fields("keystroke") = {"modifiers", "keycode", "hold", "proceed"}
  /\ Page!Fields("mouse_move") = {"x", "y"}
  /\ Page!Fields("mouse_button") = {"modifiers", "button", "hold", "proceed"}
  /\ Page!Fields("mouse_scroll") = {"dx", "dy", "modifiers", "interval", "hold", "proceed"}
  /\ Page!Fields("cancel") = {"level", "channel"}
  /\ Page!Fields("nth_recent") = {"n"} /\ Page!Fields("nth_frequent") = {"n"}
  /\ Page!Fields("socket") = {"protocol", "destination", "message", "method"}
  /\ Page!Fields("search") = {"actions", "programs", "menus", "web", "url"}
  /\ Page!Fields("close") = {} /\ Page!Fields("key_release") = {}
BY DEF Page!Fields

\* What a handler writes for a control is a value of the field; of times, keys
\* and buttons, one that validation lets pass.
LEMMA WrittenTyped ==
  ASSUME NEW f, NEW u, PageValue(f, u)
  PROVE  /\ ItemValue(f, Page!Written(f, u))
         /\ f \notin LineFields => Page!Written(f, u) = u
<1>1. f \in Page!Trimmed => f \in LineFields
  BY LineTable DEF LineFields
<1>2. CASE f \notin Page!Trimmed
  <2>1. Page!Written(f, u) = u
    BY <1>2 DEF Page!Written
  <2> QED BY <2>1 DEF PageValue, ItemValue
<1>3. CASE f \in Page!Trimmed
  <2>1. f \notin SpinFields
    BY <1>3, LineTable DEF SpinFields
  <2>2. \E w : Page!Written(f, u) = Page!Text(w)
    BY <1>3 DEF Page!Written
  <2>3. \A w : Typewritten(Page!Text(w))
    BY DEF Typewritten, Page!Text
  <2> QED BY <1>1, <1>3, <2>1, <2>2, <2>3 DEF ItemValue
<1> QED BY <1>1, <1>2, <1>3

\* What the user makes a control show is a value of the control.
LEMMA OfferedValue ==
  ASSUME NEW f, NEW v \in Page!Offered(f)
  PROVE  PageValue(f, v)
<1>1. CASE f \in SpinFields
  <2>1. /\ f \in DOMAIN Page!Spin /\ f \notin DOMAIN Page!Box /\ f \notin Page!Checks
        /\ f # "modifiers" /\ f \notin LineFields /\ f # "keycode" /\ f # "button"
    BY <1>1, SpinTable, BoxTable DEF SpinFields, BoxFields, LineFields, Page!Checks
  <2>2. v \in Numbers /\ Page!InSpin(Page!Spin[f], v) = v
    <3>1. Page!Offered(f) = {w \in Numbers : Page!InSpin(Page!Spin[f], w) = w}
      BY <2>1, LineTable DEF Page!Offered
    <3> QED BY <3>1
  <2>3. v \in Int
    BY <2>2, PageAssumption
  <2>4. SpinRight(Page!Spin[f], v)
    BY <1>1, <2>3, SpinsRight
  <2> QED BY <2>1, <2>2, <2>3, <2>4, LineTable DEF PageValue, SpinRight
<1>2. CASE f \in BoxFields
  <2>1. /\ f \notin DOMAIN Page!Spin /\ f \in DOMAIN Page!Box /\ f \notin Page!Checks
        /\ f # "modifiers" /\ f \notin LineFields /\ f \notin SpinFields
    BY <1>2, SpinTable, BoxTable DEF SpinFields, BoxFields, LineFields, Page!Checks
  <2>2. v \in Page!Box[f].entries
    <3>1. Page!Offered(f) = Page!Box[f].entries
      BY <2>1, LineTable DEF Page!Offered
    <3> QED BY <3>1
  <2> QED BY <2>1, <2>2, LineTable, BoxTable, PageAssumption DEF PageValue
<1>3. CASE f \in LineFields
  <2>1. /\ f \notin DOMAIN Page!Spin /\ f \notin DOMAIN Page!Box /\ f \notin Page!Checks
        /\ f # "modifiers" /\ f \notin SpinFields /\ f # "keycode" /\ f # "button"
    BY <1>3, SpinTable, BoxTable DEF SpinFields, BoxFields, LineFields, Page!Checks
  <2>2. v \in [word : Words, padded : BOOLEAN]
    <3>1. Page!Offered(f) = [word : Words, padded : BOOLEAN]
      BY <1>3, <2>1, LineTable DEF Page!Offered
    <3> QED BY <3>1
  <2> QED BY <2>1, <2>2 DEF PageValue, Typewritten
<1> QED BY <1>1, <1>2, <1>3, LineTable DEF PageValue, BoxFields

-----------------------------------------------------------------------------
(* The page shows the selected item.                                       *)

PageShows(item, p) ==
  /\ DOMAIN p = Page!Fields(item.type) /\ p = [f \in DOMAIN p |-> p[f]]
  /\ \A f \in Page!Fields(item.type) :
       /\ PageValue(f, p[f])
       /\ Page!Representable(f, item.args[f]) => Page!Written(f, p[f]) = item.args[f]

AllTyped(its) ==
  /\ \E T : its \in Seq(T)
  /\ \A i \in 1 .. Len(its) : PageItem(its[i])

PageInv ==
  /\ AllTyped(items) /\ row \in 0 .. Len(items)
  /\ row # 0 => PageShows(items[row], page)

LEMMA ItemValues ==
  ASSUME NEW item, PageItem(item)
  PROVE  \A f \in Page!Fields(item.type) : ItemValue(f, item.args[f])
BY SpinTable DEF PageItem, ItemValue

LEMMA PageFilled ==
  ASSUME NEW item, PageItem(item)
  PROVE  PageShows(item, Page!RefreshItemDetail(item))
<1> DEFINE p == Page!RefreshItemDetail(item)
<1>1. p = [f \in Page!Fields(item.type) |-> Page!Shown(f, item.args[f])]
  BY DEF Page!RefreshItemDetail
<1>2. DOMAIN p = Page!Fields(item.type) /\ p = [f \in DOMAIN p |-> p[f]]
  BY <1>1
<1>3. ASSUME NEW f \in Page!Fields(item.type)
      PROVE  /\ PageValue(f, p[f])
             /\ Page!Representable(f, item.args[f]) => Page!Written(f, p[f]) = item.args[f]
  <2>1. p[f] = Page!Shown(f, item.args[f])
    BY <1>1, <1>3
  <2>2. ItemValue(f, item.args[f])
    BY <1>3, ItemValues
  <2> HIDE DEF p
  <2> QED BY <2>1, <2>2, ShownWritten
<1> HIDE DEF p
<1> QED BY <1>2, <1>3 DEF PageShows, p

LEMMA PageTurned ==
  ASSUME NEW its, AllTyped(its), NEW r \in 0 .. Len(its), items' = its, Page!SelectRow(its, r)
  PROVE  PageInv'
<1>1. row' = r /\ page' = IF r = 0 THEN <<>> ELSE Page!RefreshItemDetail(its[r])
  BY DEF Page!SelectRow, Page!PageFor
<1>2. Len(its) \in Nat
  BY DEF AllTyped
<1>3. ASSUME r # 0 PROVE PageShows(its[r], page')
  <2>1. r \in 1 .. Len(its)
    BY <1>2, <1>3
  <2>2. PageItem(its[r])
    BY <2>1 DEF AllTyped
  <2> QED BY <1>1, <1>3, <2>2, PageFilled
<1> QED BY <1>1, <1>3 DEF PageInv, AllTyped

\* A new item has the fields of its type.
LEMMA NewItemTyped ==
  ASSUME NEW type \in AllTypes
  PROVE  PageItem(Page!NewItem(type))
<1> DEFINE e == Page!NewItem(type)
           F == Page!Fields(type)
<1>1. e = [type |-> type, args |-> e.args] /\ e.type = type
  <2>1. \E x : e = [type |-> type, args |-> x]
    BY Zenon DEF Page!NewItem
  <2> HIDE DEF e
  <2> QED BY <2>1
<1>2. /\ Typewritten(Page!Blank)
      /\ \A w : Typewritten(Page!Text(w))
  BY DEF Typewritten, Page!Blank, Page!Text
<1>3. /\ e.args = [f \in DOMAIN e.args |-> e.args[f]]
      /\ \A f \in F : /\ f \in DOMAIN e.args
                      /\ f \in SpinFields => e.args[f] \in Int
                      /\ f \in LineFields => Typewritten(e.args[f])
  <2>1. CASE type = "launch_app"
    <3>1. e.args = [preset |-> "calculator", target |-> Page!Blank]
      BY <2>1 DEF Page!NewItem
    <3> HIDE DEF e
    <3> QED BY <1>2, <2>1, <3>1, FieldTable DEF SpinFields, LineFields
  <2>2. CASE type = "script"
    <3>1. e.args = [path |-> Page!Blank]
      BY <2>2 DEF Page!NewItem
    <3> HIDE DEF e
    <3> QED BY <1>2, <2>2, <3>1, FieldTable DEF SpinFields, LineFields
  <2>3. CASE type = "delay"
    <3>1. e.args = [duration |-> 0]
      BY <2>3 DEF Page!NewItem
    <3> HIDE DEF e
    <3> QED BY <1>2, <2>3, <3>1, FieldTable DEF SpinFields, LineFields
  <2>4. CASE type = "keystroke"
    <3>1. e.args = [modifiers |-> {}, keycode |-> Page!A, hold |-> 0, proceed |-> FALSE]
      BY <2>4 DEF Page!NewItem
    <3> HIDE DEF e
    <3>2. F = {"modifiers", "keycode", "hold", "proceed"} /\ DOMAIN e.args = F /\ e.args.hold = 0
      BY <2>4, <3>1, FieldTable
    <3>3. e.args = [f \in DOMAIN e.args |-> e.args[f]]
      BY <3>1
    <3> HIDE DEF F
    <3> QED BY <3>2, <3>3 DEF SpinFields, LineFields
  <2>5. CASE type = "mouse_move"
    <3>1. e.args = [x |-> 0, y |-> 0]
      BY <2>5 DEF Page!NewItem
    <3> HIDE DEF e
    <3> QED BY <1>2, <2>5, <3>1, FieldTable DEF SpinFields, LineFields
  <2>6. CASE type = "mouse_button"
    <3>1. e.args = [modifiers |-> {}, button |-> 0, hold |-> 0, proceed |-> FALSE]
      BY <2>6 DEF Page!NewItem
    <3> HIDE DEF e
    <3> QED BY <1>2, <2>6, <3>1, FieldTable DEF SpinFields, LineFields
  <2>7. CASE type = "mouse_scroll"
    <3>1. e.args = [dx |-> 0, dy |-> 120, modifiers |-> {}, interval |-> 500,
                    hold |-> 0, proceed |-> FALSE]
      BY <2>7 DEF Page!NewItem
    <3> HIDE DEF e
    <3> QED BY <1>2, <2>7, <3>1, FieldTable DEF SpinFields, LineFields
  <2>8. CASE type = "cancel"
    <3>1. e.args = [level |-> "latest", channel |-> 0]
      BY <2>8 DEF Page!NewItem
    <3> HIDE DEF e
    <3> QED BY <1>2, <2>8, <3>1, FieldTable DEF SpinFields, LineFields
  <2>9. CASE type \in {"nth_recent", "nth_frequent"}
    <3>1. e.args = [n |-> 1]
      BY <2>9 DEF Page!NewItem
    <3> HIDE DEF e
    <3> QED BY <1>2, <2>9, <3>1, FieldTable DEF SpinFields, LineFields
  <2>10. CASE type = "socket"
    <3>1. e.args = [protocol |-> "udp", destination |-> Page!Text("host:port"),
                    message |-> Page!Blank, method |-> Page!Text("POST")]
      BY <2>10 DEF Page!NewItem
    <3> HIDE DEF e
    <3> QED BY <1>2, <2>10, <3>1, FieldTable DEF SpinFields, LineFields
  <2>11. CASE type = "search"
    <3>1. e.args = [actions |-> TRUE, programs |-> TRUE, menus |-> TRUE,
                    web |-> TRUE, url |-> Page!Text("google")]
      BY <2>11 DEF Page!NewItem
    <3> HIDE DEF e
    <3> QED BY <1>2, <2>11, <3>1, FieldTable DEF SpinFields, LineFields
  <2>12. CASE type = "close"
    <3>1. e.args = <<>>
      BY <2>12 DEF Page!NewItem
    <3>2. F = {}
      BY <2>12, FieldTable
    <3> HIDE DEF e, F
    <3> QED BY <3>1, <3>2
  <2> HIDE DEF e, F
  <2> QED
    BY <2>1, <2>2, <2>3, <2>4, <2>5, <2>6, <2>7, <2>8, <2>9, <2>10, <2>11, <2>12 DEF AllTypes
<1> HIDE DEF e
<1> QED BY <1>1, <1>3, SpinTable, LineTable DEF PageItem, e
-----------------------------------------------------------------------------
(* The handlers of the page.                                               *)

SavedTypes == {"keystroke", "mouse_button", "mouse_scroll", "delay", "nth_recent", "nth_frequent"}

\* The items have changed in place.
InPlace == row' = row /\ Len(items') = Len(items)

\* The steps of WritesWhatChanged and of EditedItemsAreValid.
ChangedWritten ==
  InPlace =>
    \A i \in DOMAIN items : items'[i] # items[i] =>
      /\ i = row
      /\ \A f \in Page!Fields(items[row].type) : items'[i].args[f] # items[i].args[f] =>
           page'[f] # page[f] \/ ~ Page!Representable(f, items[i].args[f])

ChangedValid ==
  \A i \in DOMAIN items :
    InPlace /\ items'[i] # items[i] /\ items[i].type \in SavedTypes => Page!Valid(items'[i])

\* What a control can show is valid.
LEMMA PageValid ==
  ASSUME NEW item, item.type \in SavedTypes,
         \A f \in Page!Fields(item.type) : PageValue(f, item.args[f])
  PROVE  Page!Valid(item)
<1>1. /\ Page!Spin["hold"].lo = 0 /\ Page!Spin["interval"].lo = 10
      /\ Page!Spin["duration"].lo = 0 /\ Page!Spin["n"].lo = 1
  BY SpinTable DEF Page!Steps
<1> DEFINE a == item.args
<1>2. CASE item.type = "keystroke"
  <2>1. PageValue("keycode", a.keycode) /\ PageValue("hold", a.hold)
    BY <1>2, FieldTable
  <2> HIDE DEF a
  <2>2. a.keycode # 0 /\ a.hold >= 0
    BY <1>1, <2>1 DEF PageValue, SpinFields
  <2> QED BY <1>2, <2>2 DEF Page!Valid, a
<1>3. CASE item.type = "mouse_button"
  <2>1. PageValue("button", a.button) /\ PageValue("hold", a.hold)
    BY <1>3, FieldTable
  <2> HIDE DEF a
  <2>2. a.button \in 0 .. 2 /\ a.hold >= 0
    BY <1>1, <2>1 DEF PageValue, SpinFields
  <2> QED BY <1>3, <2>2 DEF Page!Valid, a
<1>4. CASE item.type = "mouse_scroll"
  <2>1. PageValue("interval", a.interval) /\ PageValue("hold", a.hold)
    BY <1>4, FieldTable
  <2> HIDE DEF a
  <2>2. a.interval >= 10 /\ a.hold >= 0
    BY <1>1, <2>1 DEF PageValue, SpinFields
  <2> QED BY <1>4, <2>2 DEF Page!Valid, a
<1>5. CASE item.type = "delay"
  <2>1. PageValue("duration", a.duration)
    BY <1>5, FieldTable
  <2> HIDE DEF a
  <2>2. a.duration >= 0
    BY <1>1, <2>1 DEF PageValue, SpinFields
  <2> QED BY <1>5, <2>2 DEF Page!Valid, a
<1>6. CASE item.type \in {"nth_recent", "nth_frequent"}
  <2>1. PageValue("n", a.n)
    BY <1>6, FieldTable
  <2> HIDE DEF a
  <2>2. a.n >= 1
    BY <1>1, <2>1 DEF PageValue, SpinFields
  <2> QED BY <1>6, <2>2 DEF Page!Valid, a
<1> QED BY <1>2, <1>3, <1>4, <1>5, <1>6 DEF SavedTypes

\* The selected item gets the values a.
LEMMA ItemRewritten ==
  ASSUME PageInv, row # 0, NEW a, a = [g \in DOMAIN a |-> a[g]],
         \A g \in Page!Fields(items[row].type) : g \in DOMAIN a /\ ItemValue(g, a[g]),
         items' = [items EXCEPT ![row].args = a]
  PROVE  /\ AllTyped(items') /\ Len(items') = Len(items) /\ DOMAIN items = 1 .. Len(items)
         /\ row \in 1 .. Len(items) /\ PageItem(items[row])
         /\ items'[row].type = items[row].type /\ items'[row].args = a
         /\ \A i \in 1 .. Len(items) : i # row => items'[i] = items[i]
<1> DEFINE e == [type |-> items[row].type, args |-> a]
<1>1. PICK T : items \in Seq(T)
  BY DEF PageInv, AllTyped
<1>2. /\ Len(items) \in Nat /\ DOMAIN items = 1 .. Len(items) /\ row \in 1 .. Len(items)
      /\ \A i \in 1 .. Len(items) : PageItem(items[i])
  BY <1>1 DEF PageInv, AllTyped
<1>3. [items[row] EXCEPT !.args = a] = e
  <2> DEFINE z == items[row]
  <2>1. z = [type |-> z.type, args |-> z.args]
    BY <1>2 DEF PageItem
  <2> HIDE DEF z
  <2>2. [z EXCEPT !.args = a] = [type |-> z.type, args |-> a]
    BY <2>1
  <2> QED BY <2>2 DEF z
<1>4. items' = [items EXCEPT ![row] = e]
  BY <1>3
<1>5. e.type = items[row].type /\ e.args = a /\ e = [type |-> e.type, args |-> e.args]
  OBVIOUS
<1> HIDE DEF e
<1>6. PageItem(e)
  <2>1. e.type \in AllTypes \cup {"key_release"}
    BY <1>2, <1>5 DEF PageItem
  <2>2. \A g \in Page!Fields(e.type) :
          /\ g \in DOMAIN e.args
          /\ g \in DOMAIN Page!Spin => e.args[g] \in Int
          /\ g \in Page!Lines => Typewritten(e.args[g])
    BY <1>5, SpinTable DEF ItemValue
  <2> QED BY <1>5, <2>1, <2>2 DEF PageItem
<1>7. items' \in Seq(T \cup {e}) /\ Len(items') = Len(items) /\ items'[row] = e
      /\ \A i \in 1 .. Len(items) : i # row => items'[i] = items[i]
  BY <1>1, <1>2, <1>4
<1>8. AllTyped(items')
  BY <1>2, <1>6, <1>7 DEF AllTyped
<1> QED BY <1>2, <1>5, <1>7, <1>8

LEMMA Handled ==
  ASSUME PageInv, row # 0, NEW f \in Page!Fields(items[row].type), NEW v \in Page!Offered(f),
         Page!Touch(f, v), NEW a, a = [g \in DOMAIN a |-> a[g]],
         items' = [items EXCEPT ![row].args = a],
         \A g \in Page!Fields(items[row].type) :
           /\ g \in DOMAIN a
           /\ a[g] = Page!Written(g, page'[g]) \/ (g # f /\ a[g] = items[row].args[g])
  PROVE  /\ PageInv' /\ ChangedWritten
         /\ \/ items[row].type \notin SavedTypes
            \/ \A g \in Page!Fields(items[row].type) : a[g] = Page!Written(g, page'[g])
            => ChangedValid
<1> DEFINE F == Page!Fields(items[row].type)
           old == items[row].args
<1>1. PageShows(items[row], page)
  BY DEF PageInv
<1>2. row' = row /\ v # page[f] /\ page' = [page EXCEPT ![f] = v]
  BY DEF Page!Touch
<1>3. DOMAIN page = F /\ page = [g \in DOMAIN page |-> page[g]]
  BY <1>1 DEF PageShows
<1>4. /\ DOMAIN page' = F /\ page' = [g \in DOMAIN page' |-> page'[g]]
      /\ page'[f] = v /\ \A g \in F : g # f => page'[g] = page[g]
  <2> HIDE DEF F
  <2>1. f \in F
    BY DEF F
  <2> QED BY <1>2, <1>3, <2>1
<1>5. \A g \in F : PageValue(g, page'[g])
  <2>1. PageValue(f, v)
    BY OfferedValue
  <2>2. \A g \in F : PageValue(g, page[g])
    BY <1>1 DEF PageShows
  <2> QED BY <1>4, <2>1, <2>2
<1>6. row \in 1 .. Len(items) /\ PageItem(items[row])
  <2>1. Len(items) \in Nat
    BY DEF PageInv, AllTyped
  <2> QED BY <2>1 DEF PageInv, AllTyped
<1>7. \A g \in F : ItemValue(g, a[g])
  <2>1. \A g \in F : ItemValue(g, old[g])
    BY <1>6, ItemValues
  <2>2. \A g \in F : ItemValue(g, Page!Written(g, page'[g]))
    BY <1>5, WrittenTyped
  <2> QED BY <2>1, <2>2
<1>8. /\ AllTyped(items') /\ Len(items') = Len(items) /\ DOMAIN items = 1 .. Len(items)
      /\ items'[row].type = items[row].type /\ items'[row].args = a
      /\ \A i \in 1 .. Len(items) : i # row => items'[i] = items[i]
  BY <1>7, ItemRewritten
<1>9. PageShows(items'[row], page')
  <2>1. ASSUME NEW g \in F, Page!Representable(g, a[g]) PROVE Page!Written(g, page'[g]) = a[g]
    <3>1. CASE a[g] = Page!Written(g, page'[g])
      BY <3>1
    <3>2. CASE g # f /\ a[g] = old[g]
      <4>1. Page!Written(g, page[g]) = old[g]
        BY <1>1, <2>1, <3>2 DEF PageShows
      <4> QED BY <1>4, <3>2, <4>1
    <3> QED BY <3>1, <3>2
  <2> QED BY <1>4, <1>5, <1>8, <2>1 DEF PageShows
<1>10. PageInv'
  BY <1>2, <1>6, <1>8, <1>9 DEF PageInv
<1>11. ChangedWritten
  <2> SUFFICES ASSUME NEW g \in F, a[g] # old[g]
               PROVE  page'[g] # page[g] \/ ~ Page!Representable(g, old[g])
    BY <1>8 DEF ChangedWritten
  <2>1. CASE g = f
    BY <1>2, <1>4, <2>1
  <2>2. CASE g # f
    <3>1. a[g] = Page!Written(g, page[g])
      BY <1>4, <2>2
    <3>2. Page!Representable(g, old[g]) => Page!Written(g, page[g]) = old[g]
      BY <1>1 DEF PageShows
    <3> QED BY <3>1, <3>2
  <2> QED BY <2>1, <2>2
<1>12. ASSUME items[row].type \notin SavedTypes PROVE ChangedValid
  BY <1>8, <1>12 DEF ChangedValid
<1>13. ASSUME \A g \in F : a[g] = Page!Written(g, page'[g]), items[row].type \in SavedTypes
       PROVE  ChangedValid
  <2>1. \A g \in F : g \notin LineFields
    BY <1>13, FieldTable DEF SavedTypes, LineFields
  <2>2. \A g \in F : PageValue(g, a[g])
    BY <1>5, <1>13, <2>1, WrittenTyped
  <2>3. Page!Valid(items'[row])
    BY <1>8, <1>13, <2>2, PageValid
  <2> QED BY <1>8, <2>3 DEF ChangedValid
<1> QED BY <1>10, <1>11, <1>12, <1>13
\* A handler that writes the whole page.
LEMMA PageWritten ==
  ASSUME PageInv, NEW type, Page!WritePage(type)
  PROVE  PageInv' /\ ChangedWritten /\ ChangedValid
<1>1. row # 0 /\ items[row].type = type
  BY DEF Page!WritePage, Page!Selected, Page!Item
<1>2. PICK f \in Page!Fields(type) : \E v \in Page!Offered(f) :
        /\ Page!Touch(f, v)
        /\ items' = [items EXCEPT ![row].args = [g \in Page!Fields(type) |-> Page!Written(g, page'[g])]]
  BY Zenon DEF Page!WritePage
<1>3. PICK v \in Page!Offered(f) :
        /\ Page!Touch(f, v)
        /\ items' = [items EXCEPT ![row].args = [g \in Page!Fields(type) |-> Page!Written(g, page'[g])]]
  BY <1>2
<1> DEFINE a == [g \in Page!Fields(items[row].type) |-> Page!Written(g, page'[g])]
<1>4. /\ a = [g \in DOMAIN a |-> a[g]]
      /\ \A g \in Page!Fields(items[row].type) : g \in DOMAIN a /\ a[g] = Page!Written(g, page'[g])
  OBVIOUS
<1>5. f \in Page!Fields(items[row].type) /\ items' = [items EXCEPT ![row].args = a]
  BY <1>1, <1>3
<1> HIDE DEF a
<1> QED BY <1>1, <1>3, <1>4, <1>5, Handled

\* A handler that writes the one field that changed.
LEMMA FieldWritten ==
  ASSUME PageInv, NEW types, NEW f, Page!WriteField(types, f),
         \A type \in types : /\ f \in Page!Fields(type)
                             /\ type \in SavedTypes => Page!Fields(type) = {f}
  PROVE  PageInv' /\ ChangedWritten /\ ChangedValid
<1>1. row # 0 /\ items[row].type \in types
  BY DEF Page!WriteField, Page!Selected, Page!Item
<1>2. PICK v \in Page!Offered(f) :
        /\ Page!Touch(f, v)
        /\ items' = [items EXCEPT ![row].args[f] = Page!Written(f, v)]
  BY DEF Page!WriteField
<1> DEFINE old == items[row].args
           a == [old EXCEPT ![f] = Page!Written(f, v)]
<1>3. items' = [items EXCEPT ![row].args = a]
  BY <1>2
<1>4. /\ old = [g \in DOMAIN old |-> old[g]]
      /\ \A g \in Page!Fields(items[row].type) : g \in DOMAIN old
  <2>1. row \in 1 .. Len(items)
    BY <1>1 DEF PageInv, AllTyped
  <2>2. PageItem(items[row])
    BY <2>1 DEF PageInv, AllTyped
  <2> QED BY <2>2 DEF PageItem
<1>5. f \in Page!Fields(items[row].type)
  BY <1>1
<1>6. page'[f] = v
  <2>1. PageShows(items[row], page)
    BY <1>1 DEF PageInv
  <2>2. DOMAIN page = Page!Fields(items[row].type) /\ page = [g \in DOMAIN page |-> page[g]]
    BY <2>1 DEF PageShows
  <2>3. page' = [page EXCEPT ![f] = v]
    BY <1>2 DEF Page!Touch
  <2> QED BY <1>5, <2>2, <2>3
<1> HIDE DEF old
<1>7. /\ a = [g \in DOMAIN a |-> a[g]] /\ a[f] = Page!Written(f, v)
      /\ \A g \in Page!Fields(items[row].type) : g \in DOMAIN a /\ (g # f => a[g] = old[g])
  BY <1>4, <1>5
<1> HIDE DEF a
<1>8. \A g \in Page!Fields(items[row].type) :
        /\ g \in DOMAIN a
        /\ a[g] = Page!Written(g, page'[g]) \/ (g # f /\ a[g] = items[row].args[g])
  BY <1>6, <1>7 DEF old
<1>9. \/ items[row].type \notin SavedTypes
      \/ \A g \in Page!Fields(items[row].type) : a[g] = Page!Written(g, page'[g])
  BY <1>1, <1>6, <1>7
<1>10. Page!Touch(f, v) /\ v \in Page!Offered(f)
  BY <1>2
<1>11. a = [g \in DOMAIN a |-> a[g]]
  BY <1>7
<1>12. PageInv' /\ ChangedWritten /\
         (\/ items[row].type \notin SavedTypes
          \/ \A g \in Page!Fields(items[row].type) : a[g] = Page!Written(g, page'[g])
          => ChangedValid)
  BY <1>1, <1>3, <1>5, <1>8, <1>10, <1>11, Handled
<1> QED BY <1>9, <1>12

\* A handler that chooses new arguments and fills the page anew.
LEMMA ArgsSet ==
  ASSUME PageInv, row # 0, NEW a, Page!SetArgs(a), a = [g \in DOMAIN a |-> a[g]],
         items[row].type \notin SavedTypes,
         \A g \in Page!Fields(items[row].type) :
           /\ g \in DOMAIN a /\ ItemValue(g, a[g])
           /\ a[g] # items[row].args[g] => Page!Shown(g, a[g]) # page[g]
  PROVE  PageInv' /\ ChangedWritten /\ ChangedValid
<1> DEFINE its == [items EXCEPT ![row].args = a]
<1>1. items' = its /\ Page!SelectRow(its, row)
  BY DEF Page!SetArgs, Page!Change
<1>2. /\ AllTyped(items') /\ Len(items') = Len(items) /\ DOMAIN items = 1 .. Len(items)
      /\ row \in 1 .. Len(items)
      /\ items'[row].type = items[row].type /\ items'[row].args = a
      /\ \A i \in 1 .. Len(items) : i # row => items'[i] = items[i]
  BY <1>1, ItemRewritten
<1> HIDE DEF its
<1>3. AllTyped(its) /\ row \in 0 .. Len(its)
  <2>1. row \in 0 .. Len(items)
    BY DEF PageInv
  <2> QED BY <1>1, <1>2, <2>1
<1>4. PageInv'
  BY <1>1, <1>3, PageTurned
<1>5. \A g \in Page!Fields(items[row].type) : page'[g] = Page!Shown(g, a[g])
  <2>1. page' = Page!RefreshItemDetail(items'[row])
    BY <1>1 DEF Page!SelectRow, Page!PageFor
  <2>2. page' = [g \in Page!Fields(items[row].type) |-> Page!Shown(g, a[g])]
    BY <1>2, <2>1 DEF Page!RefreshItemDetail
  <2> QED BY <2>2
<1>6. ChangedWritten
  BY <1>2, <1>5 DEF ChangedWritten
<1>7. ChangedValid
  BY <1>2 DEF ChangedValid
<1> QED BY <1>4, <1>6, <1>7

\* The texts that a button or a preset writes are shown as they are.
LEMMA PlainTexts ==
  ASSUME NEW f \in {"target", "path"}, NEW v
  PROVE  Page!Shown(f, v) = v /\ Page!Written(f, v) = v /\ Page!Representable(f, v)
<1>1. /\ f \notin DOMAIN Page!Spin /\ f \notin DOMAIN Page!Box /\ f # "modifiers"
      /\ f \notin {"method", "url"} /\ f # "destination" /\ f \notin Page!Trimmed /\ f # "method"
  BY SpinTable, BoxTable, LineTable DEF SpinFields, BoxFields
<1>2. Page!Shown(f, v) = v
  BY <1>1 DEF Page!Shown
<1>3. Page!Written(f, v) = v
  BY <1>1 DEF Page!Written
<1>4. Page!Representable(f, v)
  BY <1>1 DEF Page!Representable
<1> QED BY <1>2, <1>3, <1>4

LEMMA ButtonsWrite ==
  ASSUME PageInv,
         \/ \E preset \in Page!Presets : Page!LaunchPresetChosen(preset)
         \/ \E path \in Words : Page!BrowseLaunchApp(path) \/ Page!BrowseScript(path)
  PROVE  PageInv' /\ ChangedWritten /\ ChangedValid
<1> DEFINE old == items[row].args
<1>1. ASSUME row # 0
      PROVE  /\ PageShows(items[row], page) /\ PageItem(items[row])
             /\ \A f \in Page!Fields(items[row].type) \cap {"target", "path"} : page[f] = old[f]
  <2>1. row \in 1 .. Len(items)
    BY <1>1 DEF PageInv, AllTyped
  <2>2. PageShows(items[row], page) /\ PageItem(items[row])
    BY <1>1, <2>1 DEF PageInv, AllTyped
  <2>3. ASSUME NEW f \in Page!Fields(items[row].type) \cap {"target", "path"}
        PROVE  page[f] = old[f]
    <3>1. Page!Written(f, page[f]) = page[f] /\ Page!Representable(f, old[f])
      BY PlainTexts
    <3> QED BY <2>2, <3>1 DEF PageShows
  <2> QED BY <2>2, <2>3
<1>2. \A w : Typewritten(Page!Text(w))
  BY DEF Typewritten, Page!Text
<1>3. {"launch_app", "script"} \cap SavedTypes = {}
  BY DEF SavedTypes
<1>4. "preset" \notin SpinFields /\ "preset" \notin LineFields
      /\ "target" \notin SpinFields /\ "path" \notin SpinFields
  BY DEF SpinFields, LineFields
<1>5. ASSUME NEW preset \in Page!Presets, Page!LaunchPresetChosen(preset)
      PROVE  PageInv' /\ ChangedWritten /\ ChangedValid
  <2> DEFINE text == IF preset = "custom" THEN old.target ELSE Page!Text(preset)
             a == [preset |-> preset, target |-> text]
  <2>1. row # 0 /\ items[row].type = "launch_app" /\ preset # page.preset /\ Page!SetArgs(a)
    BY <1>5 DEF Page!LaunchPresetChosen, Page!Selected, Page!Item
  <2>2. Typewritten(text)
    <3>1. Typewritten(old.target)
      BY <1>1, <2>1, FieldTable, LineTable DEF PageItem, LineFields
    <3> QED BY <1>2, <3>1
  <2> HIDE DEF text
  <2>3. /\ a = [g \in DOMAIN a |-> a[g]] /\ DOMAIN a = {"preset", "target"}
        /\ a.preset = preset /\ a.target = text
    OBVIOUS
  <2> HIDE DEF a
  <2>4. Page!Shown("preset", preset) = preset
    <3>1. Page!Box["preset"].entries = Page!Presets
      BY DEF Page!Box
    <3>2. "preset" \in DOMAIN Page!Box /\ "preset" \notin DOMAIN Page!Spin
      BY SpinTable, BoxTable DEF SpinFields, BoxFields
    <3> QED BY <3>1, <3>2 DEF Page!Shown
  <2>5. Page!Shown("target", text) = text /\ page["target"] = old["target"]
    BY <1>1, <2>1, FieldTable, PlainTexts
  <2>6. Page!Fields(items[row].type) = {"preset", "target"}
    BY <2>1, FieldTable
  <2>7. \A g \in Page!Fields(items[row].type) :
           /\ g \in DOMAIN a /\ ItemValue(g, a[g])
           /\ a[g] # old[g] => Page!Shown(g, a[g]) # page[g]
    <3>1. ItemValue("preset", preset) /\ ItemValue("target", text)
      BY <1>4, <2>2, LineTable DEF ItemValue
    <3> HIDE DEF old
    <3> QED BY <2>1, <2>3, <2>4, <2>5, <2>6, <3>1
  <2> QED BY <1>3, <2>1, <2>3, <2>7, ArgsSet
<1>6. ASSUME NEW path, Page!BrowseLaunchApp(path)
      PROVE  PageInv' /\ ChangedWritten /\ ChangedValid
  <2> DEFINE text == Page!Text(path)
             a == [preset |-> "custom", target |-> text]
  <2>1. row # 0 /\ items[row].type = "launch_app" /\ old.preset = "custom" /\ Page!SetArgs(a)
    BY <1>6 DEF Page!BrowseLaunchApp, Page!Selected, Page!Item
  <2>2. Typewritten(text)
    BY <1>2
  <2> HIDE DEF text
  <2>3. /\ a = [g \in DOMAIN a |-> a[g]] /\ DOMAIN a = {"preset", "target"}
        /\ a.preset = "custom" /\ a.target = text
    OBVIOUS
  <2> HIDE DEF a
  <2>4. Page!Shown("target", text) = text /\ page["target"] = old["target"]
    BY <1>1, <2>1, FieldTable, PlainTexts
  <2>5. Page!Fields(items[row].type) = {"preset", "target"}
    BY <2>1, FieldTable
  <2>6. \A g \in Page!Fields(items[row].type) :
           /\ g \in DOMAIN a /\ ItemValue(g, a[g])
           /\ a[g] # old[g] => Page!Shown(g, a[g]) # page[g]
    <3>1. ItemValue("preset", a.preset) /\ ItemValue("target", text)
      BY <1>4, <2>2, LineTable DEF ItemValue
    <3> HIDE DEF old
    <3> QED BY <2>1, <2>3, <2>4, <2>5, <3>1
  <2> QED BY <1>3, <2>1, <2>3, <2>6, ArgsSet
<1>7. ASSUME NEW path, Page!BrowseScript(path)
      PROVE  PageInv' /\ ChangedWritten /\ ChangedValid
  <2> DEFINE text == Page!Text(path)
             a == [path |-> text]
  <2>1. row # 0 /\ items[row].type = "script" /\ Page!SetArgs(a)
    BY <1>7 DEF Page!BrowseScript, Page!Selected, Page!Item
  <2>2. Typewritten(text)
    BY <1>2
  <2> HIDE DEF text
  <2>3. a = [g \in DOMAIN a |-> a[g]] /\ DOMAIN a = {"path"} /\ a.path = text
    OBVIOUS
  <2> HIDE DEF a
  <2>4. Page!Shown("path", text) = text /\ page["path"] = old["path"]
    BY <1>1, <2>1, FieldTable, PlainTexts
  <2>5. Page!Fields(items[row].type) = {"path"}
    BY <2>1, FieldTable
  <2>6. \A g \in Page!Fields(items[row].type) :
           /\ g \in DOMAIN a /\ ItemValue(g, a[g])
           /\ a[g] # old[g] => Page!Shown(g, a[g]) # page[g]
    <3>1. ItemValue("path", text)
      BY <1>4, <2>2 DEF ItemValue
    <3> HIDE DEF old
    <3> QED BY <2>1, <2>3, <2>4, <2>5, <3>1
  <2> QED BY <1>3, <2>1, <2>3, <2>6, ArgsSet
<1> QED BY <1>5, <1>6, <1>7
-----------------------------------------------------------------------------
(* The list of the items.                                                  *)

\* After a change of the list the page is filled for the row selected.
LEMMA ListChanged ==
  ASSUME PageInv, NEW its, AllTyped(its), NEW r \in 0 .. Len(its), Page!Change(its, r),
         Len(its) = Len(items) => r # row
  PROVE  PageInv' /\ ChangedWritten /\ ChangedValid
<1>1. items' = its /\ Page!SelectRow(its, r) /\ row' = r
  BY DEF Page!Change, Page!SelectRow
<1>2. PageInv'
  BY <1>1, PageTurned
<1>3. ~ InPlace
  BY <1>1 DEF InPlace
<1> QED BY <1>2, <1>3 DEF ChangedWritten, ChangedValid

LEMMA ItemSelectedShows ==
  ASSUME PageInv, NEW r \in DOMAIN items, Page!Select(r)
  PROVE  PageInv' /\ ChangedWritten /\ ChangedValid
<1>1. items' = items /\ Page!SelectRow(items, r)
  BY DEF Page!Select
<1>2. AllTyped(items) /\ r \in 0 .. Len(items)
  BY DEF PageInv, AllTyped
<1>3. PageInv'
  BY <1>1, <1>2, PageTurned
<1> QED BY <1>1, <1>3 DEF ChangedWritten, ChangedValid

LEMMA ItemAdded ==
  ASSUME PageInv, NEW type \in AddTypes, Page!AddItem(type)
  PROVE  PageInv' /\ ChangedWritten /\ ChangedValid
<1> DEFINE e == Page!NewItem(type)
           its == Append(items, e)
<1>1. PageItem(e)
  BY PageAssumption, NewItemTyped
<1>2. Page!Change(its, Len(items) + 1)
  BY DEF Page!AddItem
<1>3. PICK T : items \in Seq(T)
  BY DEF PageInv, AllTyped
<1> HIDE DEF e
<1>4. /\ its \in Seq(T \cup {e}) /\ Len(its) = Len(items) + 1 /\ Len(items) \in Nat
      /\ its[Len(its)] = e /\ \A i \in 1 .. Len(items) : its[i] = items[i]
  BY <1>3
<1> HIDE DEF its
<1>5. \A i \in 1 .. Len(its) : PageItem(its[i])
  BY <1>1, <1>4 DEF PageInv, AllTyped
<1>6. AllTyped(its) /\ Len(items) + 1 \in 0 .. Len(its) /\ Len(its) # Len(items)
  BY <1>4, <1>5 DEF AllTyped
<1> QED BY <1>2, <1>6, ListChanged

LEMMA ItemRemoved ==
  ASSUME PageInv, Page!RemoveItem
  PROVE  PageInv' /\ ChangedWritten /\ ChangedValid
<1> DEFINE its == RemoveAt(items, row)
           r == Page!KeptOrFirst(row, Len(its))
<1>1. Page!RemoveAt(items, row) = its
  BY DEF Page!RemoveAt, RemoveAt
<1>2. row # 0 /\ Page!Change(its, r)
  BY <1>1 DEF Page!RemoveItem
<1>3. PICK T : items \in Seq(T)
  BY DEF PageInv, AllTyped
<1>4. row \in 1 .. Len(items) /\ Len(items) \in Nat
  BY <1>2, <1>3 DEF PageInv
<1>5. its \in Seq(T) /\ ButOne(its, items, row)
  BY <1>3, <1>4, RemoveAtMoves, Zenon
<1> HIDE DEF its
<1>6. Len(its) = Len(items) - 1 /\ Len(its) \in Nat
  BY <1>5 DEF ButOne
<1>7. \A j \in 1 .. Len(its) : its[j] = items[j] \/ its[j] = items[j + 1]
  BY <1>4, <1>5, <1>6 DEF ButOne
<1>8. AllTyped(its)
  BY <1>5, <1>6, <1>7 DEF PageInv, AllTyped
<1>9. r \in 0 .. Len(its)
  BY <1>4, <1>6 DEF Page!KeptOrFirst
<1> HIDE DEF r
<1> QED BY <1>2, <1>6, <1>8, <1>9, ListChanged

LEMMA ItemMoved ==
  ASSUME PageInv, NEW to \in DOMAIN items, Page!MoveItem(to)
  PROVE  PageInv' /\ ChangedWritten /\ ChangedValid
<1> DEFINE its == [items EXCEPT ![row] = items[to], ![to] = items[row]]
<1>1. PICK T : items \in Seq(T)
  BY DEF PageInv, AllTyped
<1>2. /\ row \in 1 .. Len(items) /\ to \in 1 .. Len(items) /\ to # row
      /\ Len(items) \in Nat /\ DOMAIN items = 1 .. Len(items)
  <2>1. row # 0 /\ to \in {row - 1, row + 1}
    BY DEF Page!MoveItem
  <2> QED BY <1>1, <2>1 DEF PageInv
<1>3. Page!Change(its, to)
  BY DEF Page!MoveItem
<1>4. /\ its \in Seq(T) /\ Len(its) = Len(items)
      /\ \A i \in 1 .. Len(items) : \E j \in 1 .. Len(items) : its[i] = items[j]
  BY <1>1, <1>2
<1> HIDE DEF its
<1>5. AllTyped(its)
  BY <1>4 DEF PageInv, AllTyped
<1>6. to \in 0 .. Len(its)
  BY <1>2, <1>4
<1> QED BY <1>2, <1>3, <1>5, <1>6, ListChanged
-----------------------------------------------------------------------------
(* Every step of the page.                                                 *)

LEMMA PageStarts == Page!Init => PageInv
<1> SUFFICES ASSUME Page!Init PROVE PageInv
  OBVIOUS
<1>1. items \in Opened /\ row = Page!KeptOrFirst(1, Len(items)) /\ page = Page!PageFor(items, row)
  BY DEF Page!Init
<1>2. items \in Seq(Range(items)) /\ \A i \in DOMAIN items : PageItem(items[i])
  BY <1>1, PageAssumption
<1>3. Len(items) \in Nat /\ DOMAIN items = 1 .. Len(items)
  BY <1>2
<1>4. AllTyped(items)
  BY <1>2, <1>3 DEF AllTyped
<1>5. row \in 0 .. Len(items)
  BY <1>1, <1>3 DEF Page!KeptOrFirst
<1>6. ASSUME row # 0 PROVE PageShows(items[row], page)
  <2>1. PageItem(items[row])
    BY <1>2, <1>3, <1>5, <1>6
  <2>2. page = Page!RefreshItemDetail(items[row])
    BY <1>1, <1>6 DEF Page!PageFor
  <2> QED BY <2>1, <2>2, PageFilled
<1> QED BY <1>4, <1>5, <1>6 DEF PageInv

LEMMA PageStep ==
  ASSUME PageInv, [Page!Next]_(Page!vars)
  PROVE  PageInv' /\ ChangedWritten /\ ChangedValid
<1> DEFINE Upheld == PageInv' /\ ChangedWritten /\ ChangedValid
<1>1. ASSUME NEW r \in DOMAIN items, Page!Select(r) PROVE Upheld
  BY <1>1, ItemSelectedShows
<1>2. ASSUME NEW type \in AddTypes, Page!AddItem(type) PROVE Upheld
  BY <1>2, ItemAdded
<1>3. CASE Page!RemoveItem
  BY <1>3, ItemRemoved
<1>4. ASSUME NEW to \in DOMAIN items, Page!MoveItem(to) PROVE Upheld
  BY <1>4, ItemMoved
<1>5. ASSUME NEW type, Page!WritePage(type) PROVE Upheld
  BY <1>5, PageWritten
<1>6. CASE Page!MouseMoveChanged
  <2>1. PICK f \in {"x", "y"} : Page!WriteField({"mouse_move"}, f)
    BY <1>6 DEF Page!MouseMoveChanged
  <2>2. \A type \in {"mouse_move"} : /\ f \in Page!Fields(type)
                                     /\ type \in SavedTypes => Page!Fields(type) = {f}
    BY FieldTable DEF SavedTypes
  <2> QED BY <2>1, <2>2, FieldWritten
<1>7. CASE Page!NthChanged
  <2> DEFINE types == {"nth_recent", "nth_frequent"}
  <2>1. Page!WriteField(types, "n")
    BY <1>7 DEF Page!NthChanged
  <2>2. \A type \in types : /\ "n" \in Page!Fields(type)
                            /\ type \in SavedTypes => Page!Fields(type) = {"n"}
    BY FieldTable
  <2> HIDE DEF types
  <2> QED BY <2>1, <2>2, FieldWritten
<1>8. CASE Page!DelayChanged
  <2>1. Page!WriteField({"delay"}, "duration")
    BY <1>8 DEF Page!DelayChanged
  <2>2. \A type \in {"delay"} : /\ "duration" \in Page!Fields(type)
                                /\ type \in SavedTypes => Page!Fields(type) = {"duration"}
    BY FieldTable
  <2> QED BY <2>1, <2>2, FieldWritten
<1>9. CASE Page!ScriptPathEdited
  <2>1. Page!WriteField({"script"}, "path")
    BY <1>9 DEF Page!ScriptPathEdited
  <2>2. \A type \in {"script"} : /\ "path" \in Page!Fields(type)
                                 /\ type \in SavedTypes => Page!Fields(type) = {"path"}
    BY FieldTable
  <2> QED BY <2>1, <2>2, FieldWritten
<1>10. CASE Page!CustomPathEdited
  <2>1. Page!WriteField({"launch_app"}, "target")
    BY <1>10 DEF Page!CustomPathEdited
  <2>2. \A type \in {"launch_app"} : /\ "target" \in Page!Fields(type)
                                     /\ type \in SavedTypes => Page!Fields(type) = {"target"}
    BY FieldTable DEF SavedTypes
  <2> QED BY <2>1, <2>2, FieldWritten
<1>11. CASE \/ \E preset \in Page!Presets : Page!LaunchPresetChosen(preset)
            \/ \E path \in Words : Page!BrowseLaunchApp(path) \/ Page!BrowseScript(path)
  BY <1>11, ButtonsWrite
<1>12. CASE UNCHANGED Page!vars
  <2>1. items' = items /\ row' = row /\ page' = page
    BY <1>12 DEF Page!vars
  <2> QED BY <2>1 DEF PageInv, ChangedWritten, ChangedValid
<1>13. CASE \/ Page!KeystrokeEditorChanged \/ Page!MouseButtonEditorChanged
            \/ Page!MouseScrollEditorChanged \/ Page!CancelEditorChanged
            \/ Page!SocketEditorChanged \/ Page!SearchEditorChanged
  BY <1>5, <1>13
     DEF Page!KeystrokeEditorChanged, Page!MouseButtonEditorChanged,
         Page!MouseScrollEditorChanged, Page!CancelEditorChanged, Page!SocketEditorChanged,
         Page!SearchEditorChanged
<1>14. Page!Next => Upheld
  BY <1>1, <1>2, <1>3, <1>4, <1>6, <1>7, <1>8, <1>9, <1>10, <1>11, <1>13, Zenon DEF Page!Next
<1> QED BY <1>12, <1>14

\* Of an item the page was filled for, what the handlers of its controls write
\* back is what changed on the page: an edit of one control does not rewrite
\* the others, nor another item (keystrokeEditorChanged and the handlers of
\* the other pages, after refreshItemDetail has filled them).
THEOREM EditsAreLocal == Page!Spec => WritesWhatChanged
<1>1. Page!Init => PageInv
  BY PageStarts
<1>2. PageInv /\ [Page!Next]_(Page!vars) => PageInv' /\ ChangedWritten
  BY PageStep
<1>3. ChangedWritten =>
        (row' = row /\ Len(items') = Len(items) =>
           \A i \in DOMAIN items : items'[i] # items[i] =>
             /\ i = row
             /\ \A f \in Page!Fields(Page!Item.type) : items'[i].args[f] # items[i].args[f] =>
                  page'[f] # page[f] \/ ~ Page!Representable(f, items[i].args[f]))
  BY DEF ChangedWritten, InPlace, Page!Item
<1> QED BY <1>1, <1>2, <1>3, PTL DEF Page!Spec, WritesWhatChanged, Page!WritesWhatChanged

\* The keyboard, mouse, delay and history pages write nothing that the next
\* save refuses, whatever number the file had there: the control has brought it
\* into its range when the page was filled (the ranges the constructor sets and the
\* conditions of validateWorkingCopy).
THEOREM EditsPassValidation == Page!Spec => EditedItemsAreValid
<1>1. Page!Init => PageInv
  BY PageStarts
<1>2. PageInv /\ [Page!Next]_(Page!vars) => PageInv' /\ ChangedValid
  BY PageStep
<1>3. ChangedValid =>
        \A i \in DOMAIN items :
          /\ row' = row /\ Len(items') = Len(items) /\ items'[i] # items[i]
          /\ items[i].type \in {"keystroke", "mouse_button", "mouse_scroll", "delay",
                                "nth_recent", "nth_frequent"}
          => Page!Valid(items'[i])
  BY DEF ChangedValid, InPlace, SavedTypes
<1> QED BY <1>1, <1>2, <1>3, PTL DEF Page!Spec, EditedItemsAreValid, Page!EditedItemsAreValid

\* The lists and boxes show the menu, the action and the slot that are
\* selected, and the detail page the item that is, after any edits of either
\* (refreshEditors and refreshItemDetail).
THEOREM ControlsAreFaithful == Spec /\ Page!Spec => []ControlsShowSelection
<1>1. Page!Init => PageInv
  BY PageStarts
<1>2. PageInv /\ [Page!Next]_(Page!vars) => PageInv'
  BY PageStep
<1>3. PageInv => Page!PageShowsItem
  BY DEF PageInv, PageShows, Page!PageShowsItem, Page!Item
<1>4. EditorShowsSelection /\ Page!PageShowsItem => ControlsShowSelection
  BY DEF ControlsShowSelection
<1> QED BY <1>1, <1>2, <1>3, <1>4, EditorIsFaithful, PTL DEF Page!Spec
=============================================================================
