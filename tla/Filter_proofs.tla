---------------------------- MODULE Filter_proofs ----------------------------
(* What Only returns, for every sequence and every set.  It is recursive,  *)
(* so each fact is an induction: on a set of numbers, as NatInduct has it. *)
EXTENDS Filter, SequenceTheorems, FiniteSetTheorems, WellFoundedInduction, TLAPS

\* Induction on the natural numbers, for a set.
LEMMA NatInduct ==
  ASSUME NEW Q, 0 \in Q, \A n \in Nat : n \in Q => n + 1 \in Q
  PROVE  Nat \subseteq Q
<1> DEFINE T == {n \in Nat : n \notin Q}
<1>1. SUFFICES ASSUME T # {} PROVE FALSE
  OBVIOUS
<1>2. PICK x \in T : \A y \in T : ~(<<y, x>> \in OpToRel(<, Nat))
  <2>1. T \subseteq Nat
    OBVIOUS
  <2> HIDE DEF T
  <2> QED BY <1>1, <2>1, NatLessThanWellFounded, WFMin
<1>3. x # 0 /\ x \in Nat
  OBVIOUS
<1>4. x - 1 \in Nat /\ x = (x - 1) + 1
  BY <1>3
<1>5. x - 1 \in T => <<x - 1, x>> \in OpToRel(<, Nat)
  BY <1>3 DEF OpToRel
<1> QED BY <1>2, <1>3, <1>4, <1>5

\* The recursive function that Only evaluates, as far as m.
Filters(s, S, m, f) ==
  f = [n \in 0 .. m |->
         IF n = 0 THEN <<>>
         ELSE IF s[n] \in S THEN Append(f[n - 1], s[n]) ELSE f[n - 1]]

\* There is such a function.
LEMMA FiltersExists ==
  ASSUME NEW s, NEW S, NEW m \in Nat
  PROVE  \E f : Filters(s, S, m, f)
<1> DEFINE Q == {k \in Nat : \E f : Filters(s, S, k, f)}
<1>1. 0 \in Q
  <2> DEFINE f == [n \in 0 .. 0 |-> <<>>]
  <2>1. Filters(s, S, 0, f)
    BY DEF Filters
  <2> QED BY <2>1
<1>2. ASSUME NEW k \in Nat, k \in Q PROVE k + 1 \in Q
  <2>1. PICK f : Filters(s, S, k, f)
    BY <1>2
  <2> DEFINE last == IF s[k + 1] \in S THEN Append(f[k], s[k + 1]) ELSE f[k]
             g == [n \in 0 .. k + 1 |-> IF n = k + 1 THEN last ELSE f[n]]
  <2>2. \A n \in 0 .. k : g[n] = f[n]
    OBVIOUS
  <2>3. g[k + 1] = last
    OBVIOUS
  <2>4. \A n \in 0 .. k : f[n] = IF n = 0 THEN <<>>
         ELSE IF s[n] \in S THEN Append(f[n - 1], s[n]) ELSE f[n - 1]
    BY <2>1 DEF Filters
  <2> DEFINE e(n) == IF n = 0 THEN <<>>
                     ELSE IF s[n] \in S THEN Append(g[n - 1], s[n]) ELSE g[n - 1]
  <2>5. \A n \in 0 .. k + 1 : g[n] = e(n)
    <3> HIDE DEF g
    <3>1. ASSUME NEW n \in 0 .. k PROVE g[n] = e(n)
      <4>1. n = 0 \/ n - 1 \in 0 .. k
        OBVIOUS
      <4> QED BY <2>2, <2>4, <4>1
    <3>2. g[k + 1] = e(k + 1)
      <4>1. k + 1 # 0 /\ (k + 1) - 1 = k /\ k \in 0 .. k
        OBVIOUS
      <4> QED BY <2>2, <2>3, <4>1
    <3> QED BY <3>1, <3>2
  <2>6. g = [n \in 0 .. k + 1 |-> g[n]]
    OBVIOUS
  <2>7. g = [n \in 0 .. k + 1 |-> e(n)]
    <3> HIDE DEF g, e
    <3> QED BY <2>5, <2>6
  <2>8. Filters(s, S, k + 1, g)
    BY <2>7 DEF Filters
  <2> QED BY <2>8
<1> HIDE DEF Q
<1>3. Nat \subseteq Q
  BY <1>1, <1>2, NatInduct
<1> QED BY <1>3 DEF Q

\* Only is its last value.
LEMMA OnlyFilters ==
  ASSUME NEW s, NEW S, Len(s) \in Nat
  PROVE  \E f : Filters(s, S, Len(s), f) /\ Only(s, S) = f[Len(s)]
<1> DEFINE f == CHOOSE g : Filters(s, S, Len(s), g)
<1>1. Filters(s, S, Len(s), f)
  BY FiltersExists
<1>2. Only(s, S) = f[Len(s)]
  BY DEF Only, Filters
<1> QED BY <1>1, <1>2

-----------------------------------------------------------------------------
(* What Only returns.                                                      *)

\* Of the first m elements: those in S, no more than there are, and all of
\* a beginning that lies in S.
Filtered(T, s, S, m, t) ==
  /\ t \in Seq(T \cap S) /\ Len(t) <= m
  /\ \A i \in 1 .. m : s[i] \in S => \E j \in 1 .. Len(t) : t[j] = s[i]
  /\ \A k \in 0 .. m : (\A i \in 1 .. k : s[i] \in S) =>
       Len(t) >= k /\ \A i \in 1 .. k : t[i] = s[i]

\* One element more.
LEMMA FilteredStep ==
  ASSUME NEW T, NEW s \in Seq(T), NEW S, NEW m \in Nat, m + 1 <= Len(s),
         NEW t, Filtered(T, s, S, m, t)
  PROVE  Filtered(T, s, S, m + 1,
                  IF s[m + 1] \in S THEN Append(t, s[m + 1]) ELSE t)
<1>1. /\ t \in Seq(T \cap S) /\ Len(t) \in Nat /\ Len(t) <= m /\ s[m + 1] \in T
  BY DEF Filtered
<1>2. CASE s[m + 1] \notin S
  <2>1. ASSUME NEW k \in 0 .. m + 1, \A i \in 1 .. k : s[i] \in S
        PROVE  Len(t) >= k /\ \A i \in 1 .. k : t[i] = s[i]
    <3>1. k # m + 1
      BY <1>2, <2>1
    <3> QED BY <2>1, <3>1 DEF Filtered
  <2>2. ASSUME NEW i \in 1 .. m + 1, s[i] \in S PROVE \E j \in 1 .. Len(t) : t[j] = s[i]
    <3>1. i \in 1 .. m
      BY <1>2, <2>2
    <3> QED BY <2>2, <3>1 DEF Filtered
  <2> QED BY <1>1, <1>2, <2>1, <2>2 DEF Filtered
<1>3. CASE s[m + 1] \in S
  <2> DEFINE u == Append(t, s[m + 1])
  <2>1. /\ u \in Seq(T \cap S) /\ Len(u) = Len(t) + 1
        /\ \A i \in 1 .. Len(t) : u[i] = t[i]
        /\ u[Len(t) + 1] = s[m + 1]
    BY <1>1, <1>3, AppendProperties
  <2> HIDE DEF u
  <2>2. ASSUME NEW k \in 0 .. m + 1, \A i \in 1 .. k : s[i] \in S
        PROVE  Len(u) >= k /\ \A i \in 1 .. k : u[i] = s[i]
    <3>1. CASE k \in 0 .. m
      <4>1. Len(t) >= k /\ \A i \in 1 .. k : t[i] = s[i]
        BY <2>2, <3>1 DEF Filtered
      <4> QED BY <1>1, <2>1, <4>1
    <3>2. CASE k = m + 1
      <4>1. \A i \in 1 .. m : s[i] \in S
        BY <2>2, <3>2
      <4>2. Len(t) >= m /\ \A i \in 1 .. m : t[i] = s[i]
        BY <4>1 DEF Filtered
      <4>3. Len(t) = m
        BY <1>1, <4>2
      <4> QED BY <2>1, <3>2, <4>2, <4>3
    <3> QED BY <3>1, <3>2
  <2>3. ASSUME NEW i \in 1 .. m + 1, s[i] \in S PROVE \E j \in 1 .. Len(u) : u[j] = s[i]
    <3>1. CASE i \in 1 .. m
      <4>1. PICK j \in 1 .. Len(t) : t[j] = s[i]
        BY <2>3, <3>1 DEF Filtered
      <4> QED BY <1>1, <2>1, <4>1
    <3>2. CASE i = m + 1
      BY <1>1, <2>1, <3>2
    <3> QED BY <3>1, <3>2
  <2>4. Filtered(T, s, S, m + 1, u)
    BY <1>1, <2>1, <2>2, <2>3 DEF Filtered
  <2> QED BY <1>3, <2>4 DEF u
<1> QED BY <1>2, <1>3

\* So it is for the whole.
LEMMA OnlyFiltered ==
  ASSUME NEW T, NEW s \in Seq(T), NEW S
  PROVE  Filtered(T, s, S, Len(s), Only(s, S))
<1>1. Len(s) \in Nat
  OBVIOUS
<1>2. PICK f : Filters(s, S, Len(s), f) /\ Only(s, S) = f[Len(s)]
  BY <1>1, OnlyFilters
<1>3. \A n \in 0 .. Len(s) :
        f[n] = IF n = 0 THEN <<>>
               ELSE IF s[n] \in S THEN Append(f[n - 1], s[n]) ELSE f[n - 1]
  BY <1>1, <1>2 DEF Filters
<1> DEFINE Q == {n \in Nat : n <= Len(s) => Filtered(T, s, S, n, f[n])}
<1>4. 0 \in Q
  <2>1. f[0] = <<>>
    BY <1>1, <1>3
  <2>2. <<>> \in Seq(T \cap S) /\ Len(<<>>) = 0
    BY EmptySeq
  <2>3. Filtered(T, s, S, 0, <<>>)
    BY <2>2 DEF Filtered
  <2> QED BY <2>1, <2>3
<1>5. ASSUME NEW n \in Nat, n \in Q PROVE n + 1 \in Q
  <2> SUFFICES ASSUME n + 1 <= Len(s) PROVE Filtered(T, s, S, n + 1, f[n + 1])
    OBVIOUS
  <2>1. Filtered(T, s, S, n, f[n])
    BY <1>1, <1>5
  <2>2. f[n + 1] = IF s[n + 1] \in S THEN Append(f[n], s[n + 1]) ELSE f[n]
    <3>1. n + 1 \in 0 .. Len(s) /\ n + 1 # 0 /\ (n + 1) - 1 = n
      BY <1>1
    <3> QED BY <1>3, <3>1
  <2> QED BY <2>1, <2>2, FilteredStep
<1> HIDE DEF Q
<1>6. Nat \subseteq Q
  BY <1>4, <1>5, NatInduct
<1> QED BY <1>1, <1>2, <1>6 DEF Q

\* Its elements are those of s that are in S.
LEMMA OnlyElements ==
  ASSUME NEW T, NEW s \in Seq(T), NEW S
  PROVE  /\ Only(s, S) \in Seq(T) /\ Len(Only(s, S)) <= Len(s)
         /\ \A j \in 1 .. Len(Only(s, S)) : Only(s, S)[j] \in S
         /\ \A i \in 1 .. Len(s) : s[i] \in S => \E j \in 1 .. Len(Only(s, S)) : Only(s, S)[j] = s[i]
<1>1. Filtered(T, s, S, Len(s), Only(s, S))
  BY OnlyFiltered
<1>2. Only(s, S) \in Seq(T \cap S) /\ T \cap S \subseteq T
  BY <1>1 DEF Filtered
<1>3. Only(s, S) \in Seq(T)
  BY <1>2, SeqMonotonic
<1>4. \A j \in 1 .. Len(Only(s, S)) : Only(s, S)[j] \in T \cap S
  BY <1>2, ElementOfSeq
<1> QED BY <1>1, <1>3, <1>4 DEF Filtered

\* A beginning that lies in S stays where it is.
LEMMA OnlyPrefix ==
  ASSUME NEW T, NEW s \in Seq(T), NEW S, NEW k \in 0 .. Len(s),
         \A i \in 1 .. k : s[i] \in S
  PROVE  /\ Len(Only(s, S)) >= k
         /\ \A i \in 1 .. k : Only(s, S)[i] = s[i]
<1>1. Filtered(T, s, S, Len(s), Only(s, S))
  BY OnlyFiltered
<1> QED BY <1>1 DEF Filtered

\* A sequence over S stays as it is.
LEMMA OnlyAll ==
  ASSUME NEW T, NEW s \in Seq(T), NEW S, \A i \in 1 .. Len(s) : s[i] \in S
  PROVE  Only(s, S) = s
<1>1. Len(s) \in Nat /\ Len(s) \in 0 .. Len(s)
  OBVIOUS
<1>2. /\ Only(s, S) \in Seq(T) /\ Len(Only(s, S)) <= Len(s) /\ Len(Only(s, S)) \in Nat
  BY OnlyElements
<1>3. /\ Len(Only(s, S)) >= Len(s)
      /\ \A i \in 1 .. Len(s) : Only(s, S)[i] = s[i]
  BY <1>1, OnlyPrefix
<1> QED BY <1>1, <1>2, <1>3, SeqEqual
\* Its elements are in the order of s.
LEMMA OnlyOrdered ==
  ASSUME NEW T, NEW s \in Seq(T), NEW S
  PROVE  \E g \in [1 .. Len(Only(s, S)) -> 1 .. Len(s)] :
           /\ \A i, j \in 1 .. Len(Only(s, S)) : i < j => g[i] < g[j]
           /\ \A j \in 1 .. Len(Only(s, S)) : Only(s, S)[j] = s[g[j]]
<1>1. Len(s) \in Nat
  OBVIOUS
<1>2. PICK f : Filters(s, S, Len(s), f) /\ Only(s, S) = f[Len(s)]
  BY <1>1, OnlyFilters
<1>3. \A n \in 0 .. Len(s) :
        f[n] = IF n = 0 THEN <<>>
               ELSE IF s[n] \in S THEN Append(f[n - 1], s[n]) ELSE f[n - 1]
  BY <1>1, <1>2 DEF Filters
<1> DEFINE Increasing(n, t, g) ==
             /\ t \in Seq(T)
             /\ g \in [1 .. Len(t) -> 1 .. n]
             /\ \A i, j \in 1 .. Len(t) : i < j => g[i] < g[j]
             /\ \A j \in 1 .. Len(t) : t[j] = s[g[j]]
           Q == {n \in Nat : n <= Len(s) => \E g : Increasing(n, f[n], g)}
<1>4. 0 \in Q
  <2>1. f[0] = <<>>
    BY <1>1, <1>3
  <2>2. <<>> \in Seq(T) /\ Len(<<>>) = 0 /\ 1 .. 0 = {}
    BY EmptySeq
  <2> DEFINE g == [i \in 1 .. 0 |-> 0]
  <2>3. g \in [1 .. 0 -> 1 .. 0]
    BY <2>2
  <2> HIDE DEF g
  <2>4. Increasing(0, <<>>, g)
    BY <2>2, <2>3
  <2>5. Increasing(0, f[0], g)
    <3> HIDE DEF Increasing
    <3> QED BY <2>1, <2>4
  <2>6. \E h : Increasing(0, f[0], h)
    <3> HIDE DEF Increasing
    <3> QED BY <2>5
  <2> QED BY <2>6
<1>5. ASSUME NEW n \in Nat, n \in Q PROVE n + 1 \in Q
  <2> SUFFICES ASSUME n + 1 <= Len(s) PROVE \E g : Increasing(n + 1, f[n + 1], g)
    OBVIOUS
  <2>1. PICK g : Increasing(n, f[n], g)
    BY <1>1, <1>5
  <2>2. f[n + 1] = IF s[n + 1] \in S THEN Append(f[n], s[n + 1]) ELSE f[n]
    <3>1. n + 1 \in 0 .. Len(s) /\ n + 1 # 0 /\ (n + 1) - 1 = n
      BY <1>1
    <3> QED BY <1>3, <3>1
  <2>3. CASE s[n + 1] \notin S
    <3>1. Increasing(n + 1, f[n], g)
      BY <2>1
    <3> QED BY <2>2, <2>3, <3>1
  <2>4. CASE s[n + 1] \in S
    <3> DEFINE u == Append(f[n], s[n + 1])
               l == Len(f[n])
               h == [i \in 1 .. l + 1 |-> IF i = l + 1 THEN n + 1 ELSE g[i]]
    <3>1. s[n + 1] \in T /\ f[n] \in Seq(T) /\ l \in Nat
      BY <1>1, <2>1
    <3>2. /\ u \in Seq(T) /\ Len(u) = l + 1
          /\ \A i \in 1 .. l : u[i] = f[n][i]
          /\ u[l + 1] = s[n + 1]
      BY <3>1, AppendProperties
    <3>3. /\ h \in [1 .. l + 1 -> 1 .. n + 1]
          /\ h[l + 1] = n + 1
          /\ \A i \in 1 .. l : h[i] = g[i] /\ g[i] \in 1 .. n
      <4>1. g \in [1 .. l -> 1 .. n]
        BY <2>1
      <4> HIDE DEF l
      <4> QED BY <3>1, <4>1
    <3> HIDE DEF u, h, l
    <3>4. \A i \in 1 .. l + 1 : i \in 1 .. l \/ i = l + 1
      BY <3>1
    <3>5. \A i, j \in 1 .. l + 1 : i < j => h[i] < h[j]
      <4> SUFFICES ASSUME NEW i \in 1 .. l + 1, NEW j \in 1 .. l + 1, i < j PROVE h[i] < h[j]
        OBVIOUS
      <4>1. i \in 1 .. l
        BY <3>1
      <4>2. CASE j \in 1 .. l
        BY <2>1, <3>3, <4>1, <4>2 DEF l
      <4>3. CASE j = l + 1
        BY <3>3, <4>1, <4>3
      <4> QED BY <3>4, <4>2, <4>3
    <3>6. \A j \in 1 .. l + 1 : u[j] = s[h[j]]
      <4>1. \A j \in 1 .. l : f[n][j] = s[g[j]]
        BY <2>1 DEF l
      <4> QED BY <3>2, <3>3, <3>4, <4>1
    <3>7. Increasing(n + 1, u, h)
      BY <3>2, <3>3, <3>5, <3>6
    <3> QED BY <2>2, <2>4, <3>7 DEF u
  <2> QED BY <2>3, <2>4
<1> HIDE DEF Q
<1>6. Nat \subseteq Q
  BY <1>4, <1>5, NatInduct
<1>7. PICK g : Increasing(Len(s), f[Len(s)], g)
  BY <1>1, <1>6 DEF Q
<1> QED BY <1>1, <1>2, <1>7

\* Each of its elements is one of s.
LEMMA OnlyFrom ==
  ASSUME NEW T, NEW s \in Seq(T), NEW S
  PROVE  \A j \in 1 .. Len(Only(s, S)) : \E i \in 1 .. Len(s) : Only(s, S)[j] = s[i]
<1>1. PICK g \in [1 .. Len(Only(s, S)) -> 1 .. Len(s)] :
        /\ \A i, j \in 1 .. Len(Only(s, S)) : i < j => g[i] < g[j]
        /\ \A j \in 1 .. Len(Only(s, S)) : Only(s, S)[j] = s[g[j]]
  BY OnlyOrdered
<1> QED BY <1>1
\* t is s without what is at p.
ButOne(t, s, p) ==
  /\ Len(t) = Len(s) - 1
  /\ \A j \in 1 .. p - 1 : t[j] = s[j]
  /\ \A j \in p .. Len(s) - 1 : t[j] = s[j + 1]

\* Without the one place p of an element, what is after p moves down.
LEMMA OnlyButOne ==
  ASSUME NEW T, NEW s \in Seq(T), NEW a, NEW p \in 1 .. Len(s),
         \A i \in 1 .. Len(s) : s[i] = a <=> i = p
  PROVE  ButOne(Only(s, T \ {a}), s, p)
<1> DEFINE S == T \ {a}
<1>1. Len(s) \in Nat /\ p \in Nat /\ 0 < p /\ p <= Len(s)
  OBVIOUS
<1>2. PICK f : Filters(s, S, Len(s), f) /\ Only(s, S) = f[Len(s)]
  BY <1>1, OnlyFilters
<1>3. \A n \in 0 .. Len(s) :
        f[n] = IF n = 0 THEN <<>>
               ELSE IF s[n] \in S THEN Append(f[n - 1], s[n]) ELSE f[n - 1]
  BY <1>1, <1>2 DEF Filters
<1>4. \A i \in 1 .. Len(s) : s[i] \in T /\ (s[i] \in S <=> i # p)
  BY <1>1
<1> DEFINE Long(n) == IF n < p THEN n ELSE n - 1
           Moved(n, t) == /\ t \in Seq(T) /\ Len(t) = Long(n)
                          /\ \A j \in 1 .. Long(n) : t[j] = IF j < p THEN s[j] ELSE s[j + 1]
           Q == {n \in Nat : n <= Len(s) => Moved(n, f[n])}
<1> HIDE DEF S
<1>5. 0 \in Q
  <2>1. f[0] = <<>> /\ <<>> \in Seq(T) /\ Len(<<>>) = 0 /\ Long(0) = 0
    BY <1>1, <1>3, EmptySeq
  <2>2. Moved(0, <<>>)
    BY <2>1
  <2> QED BY <2>1, <2>2
<1>6. ASSUME NEW n \in Nat, n \in Q PROVE n + 1 \in Q
  <2> SUFFICES ASSUME n + 1 <= Len(s) PROVE Moved(n + 1, f[n + 1])
    OBVIOUS
  <2>1. f[n] \in Seq(T) /\ Moved(n, f[n])
    BY <1>1, <1>6
  <2>2. f[n + 1] = IF s[n + 1] \in S THEN Append(f[n], s[n + 1]) ELSE f[n]
    <3>1. n + 1 \in 0 .. Len(s) /\ n + 1 # 0 /\ (n + 1) - 1 = n
      BY <1>1
    <3> QED BY <1>3, <3>1
  <2>3. n + 1 \in 1 .. Len(s) /\ s[n + 1] \in T
    BY <1>1, <1>4
  <2>4. CASE n + 1 = p
    <3>1. f[n + 1] = f[n] /\ Long(n + 1) = Long(n)
      BY <1>1, <1>4, <2>2, <2>3, <2>4
    <3> HIDE DEF Long
    <3> QED BY <2>1, <3>1
  <2>5. CASE n + 1 # p
    <3> DEFINE u == Append(f[n], s[n + 1])
    <3>1. /\ u \in Seq(T) /\ Len(u) = Len(f[n]) + 1
          /\ \A j \in 1 .. Len(f[n]) : u[j] = f[n][j]
          /\ u[Len(f[n]) + 1] = s[n + 1]
      BY <2>1, <2>3, AppendProperties
    <3>2. f[n + 1] = u
      BY <1>4, <2>2, <2>3, <2>5
    <3>3. Len(f[n]) = Long(n) /\ Long(n) \in Nat /\ Long(n + 1) = Long(n) + 1
      BY <1>1, <2>1, <2>5
    <3>4. s[n + 1] = IF Long(n) + 1 < p THEN s[Long(n) + 1] ELSE s[(Long(n) + 1) + 1]
      BY <1>1, <2>5
    <3> HIDE DEF u, Long
    <3>5. \A j \in 1 .. Long(n) + 1 : j \in 1 .. Long(n) \/ j = Long(n) + 1
      BY <3>3
    <3> QED BY <2>1, <3>1, <3>2, <3>3, <3>4, <3>5
  <2> QED BY <2>4, <2>5
<1> HIDE DEF Q
<1>7. Nat \subseteq Q
  BY <1>5, <1>6, NatInduct
<1>8. Moved(Len(s), f[Len(s)]) /\ Long(Len(s)) = Len(s) - 1
  BY <1>1, <1>7 DEF Q
<1>9. /\ \A j \in 1 .. p - 1 : j \in 1 .. Len(s) - 1 /\ j < p
      /\ \A j \in p .. Len(s) - 1 : j \in 1 .. Len(s) - 1 /\ ~(j < p)
  BY <1>1
<1> QED BY <1>2, <1>8, <1>9 DEF S, ButOne

\* What comes before another in s does in what is kept.
LEMMA OnlyKeepsOrder ==
  ASSUME NEW T, NEW s \in Seq(T), NEW S,
         \A i, j \in 1 .. Len(s) : s[i] = s[j] => i = j,
         NEW i \in 1 .. Len(s), NEW j \in 1 .. Len(s), i < j,
         NEW k \in 1 .. Len(Only(s, S)), NEW l \in 1 .. Len(Only(s, S)),
         Only(s, S)[k] = s[i], Only(s, S)[l] = s[j]
  PROVE  k < l
<1>1. PICK g \in [1 .. Len(Only(s, S)) -> 1 .. Len(s)] :
        /\ \A x, y \in 1 .. Len(Only(s, S)) : x < y => g[x] < g[y]
        /\ \A x \in 1 .. Len(Only(s, S)) : Only(s, S)[x] = s[g[x]]
  BY OnlyOrdered
<1>2. g[k] = i /\ g[l] = j
  <2>1. g[k] \in 1 .. Len(s) /\ g[l] \in 1 .. Len(s)
    BY <1>1
  <2>2. s[g[k]] = s[i] /\ s[g[l]] = s[j]
    BY <1>1
  <2> QED BY <2>1, <2>2
<1>3. i \in Nat /\ j \in Nat /\ k \in Nat /\ l \in Nat
  BY OnlyElements
<1>4. k # l /\ ~(l < k)
  BY <1>1, <1>2, <1>3
<1> QED BY <1>3, <1>4
\* Where everything is told apart by what is before it, that many places are
\* taken, each by one.
LEMMA Positions ==
  ASSUME NEW U, IsFiniteSet(U), NEW A \in [U -> SUBSET U],
         \A a \in U : a \notin A[a],
         \A a, b \in U : b \in A[a] => A[b] \subseteq A[a],
         \A a, b \in U : a # b => a \in A[b] \/ b \in A[a]
  PROVE  /\ \A a \in U : Cardinality(A[a]) \in 0 .. Cardinality(U) - 1
         /\ \A a, b \in U : Cardinality(A[a]) = Cardinality(A[b]) => a = b
         /\ \A k \in 0 .. Cardinality(U) - 1 : \E a \in U : Cardinality(A[a]) = k
<1> DEFINE f == [a \in U |-> Cardinality(A[a])]
           n == Cardinality(U)
<1>1. n \in Nat
  BY FS_CardinalityType
<1>2. ASSUME NEW a \in U PROVE IsFiniteSet(A[a]) /\ f[a] = Cardinality(A[a]) /\ f[a] \in 0 .. n - 1
  <2>1. IsFiniteSet(U \ {a}) /\ Cardinality(U \ {a}) = n - 1 /\ A[a] \in SUBSET (U \ {a})
    BY FS_RemoveElement
  <2>2. IsFiniteSet(A[a]) /\ Cardinality(A[a]) <= n - 1
    BY <2>1, FS_Subset
  <2> QED BY <1>1, <2>2, FS_CardinalityType
<1>3. ASSUME NEW a \in U, NEW b \in U, b \in A[a] PROVE f[a] # f[b]
  <2>1. A[b] \in SUBSET A[a] /\ A[a] # A[b]
    BY <1>3
  <2> QED BY <1>2, <2>1, FS_Subset
<1>4. ASSUME NEW a \in U, NEW b \in U, f[a] = f[b] PROVE a = b
  BY <1>3, <1>4
<1>5. f \in Injection(U, 0 .. n - 1)
  <2>1. f \in [U -> 0 .. n - 1]
    BY <1>2
  <2> HIDE DEF f, n
  <2> QED BY <1>4, <2>1 DEF Injection, IsInjective
<1>6. IsFiniteSet(0 .. n - 1) /\ Cardinality(0 .. n - 1) = n
  <2>1. 0 \in Int /\ n - 1 \in Int
    BY <1>1
  <2> HIDE DEF f, n
  <2>2. Cardinality(0 .. n - 1) = IF 0 > n - 1 THEN 0 ELSE (n - 1) - 0 + 1
    BY <2>1, FS_Interval
  <2> QED BY <1>1, <2>1, <2>2, FS_Interval
<1>7. f \in Surjection(U, 0 .. n - 1)
  BY <1>5, <1>6, FS_Injection
<1>8. \A k \in 0 .. n - 1 : \E a \in U : f[a] = k
  BY <1>7 DEF Surjection
<1> QED BY <1>2, <1>4, <1>8
=============================================================================
