----------------------------- MODULE ListProofs -----------------------------
(***************************************************************************)
(* Induction over numbers, said of a set of them rather than of a          *)
(* predicate, and what it shows of the lists in Lists.                     *)
(***************************************************************************)
EXTENDS Lists, FiniteSetTheorems, TLAPS

-----------------------------------------------------------------------------
(* Induction. *)

\* A set of numbers that begins with 0 and never ends holds them all: of the intervals up
\* to a number it lacks, a smallest would have a smaller one.
LEMMA NumbersInduct ==
  ASSUME NEW S \in SUBSET Nat, 0 \in S, \A n \in S : n + 1 \in S
  PROVE  S = Nat
<1> SUFFICES ASSUME NEW n \in Nat, n \notin S PROVE FALSE
  OBVIOUS
<1> DEFINE D == 0 .. n
           I == {0 .. m : m \in {k \in 0 .. n : k \notin S}}
<1>1. IsFiniteSet(D)
  BY FS_Interval
<1>2. IsWellFoundedOn(StrictSubsetOrdering(D), FiniteSubsetsOf(D))
  BY <1>1, FS_StrictSubsetOrderingWellFounded
<1>3. I # {}
  OBVIOUS
<1>4. I \subseteq FiniteSubsetsOf(D)
  <2>1. \A m \in 0 .. n : IsFiniteSet(0 .. m) /\ 0 .. m \subseteq 0 .. n
    BY FS_Interval
  <2> QED BY <2>1 DEF FiniteSubsetsOf
<1>5. PICK x \in I : \A y \in I : ~ (<<y, x>> \in StrictSubsetOrdering(D))
  <2> HIDE DEF I, D
  <2> QED BY <1>2, <1>3, <1>4, WFMin
<1>6. PICK m \in 0 .. n : m \notin S /\ x = 0 .. m
  BY <1>5
<1>7. m # 0 /\ m - 1 \in 0 .. n /\ m - 1 \in Nat /\ m - 1 + 1 = m
  BY <1>6
<1>8. m - 1 \notin S
  BY <1>6, <1>7
<1>9. 0 .. m - 1 \in I /\ 0 .. m - 1 \subseteq x /\ 0 .. m - 1 # x /\ x \subseteq D
  <2>1. m \in 0 .. m /\ m \notin 0 .. m - 1 /\ 0 .. m - 1 \subseteq 0 .. m /\ 0 .. m \subseteq 0 .. n
    BY <1>6, <1>7
  <2> QED BY <1>6, <1>7, <1>8, <2>1
<1> QED BY <1>5, <1>9 DEF StrictSubsetOrdering

-----------------------------------------------------------------------------
(* One list after another, and what is left of a list. *)

LEMMA FunctionsAreLists ==
  ASSUME NEW T, NEW n \in Nat, NEW f \in [1 .. n -> T] PROVE f \in Seq(T) /\ Len(f) = n
  OBVIOUS

LEMMA JoinedInOrder ==
  ASSUME NEW T, NEW a \in Seq(T), NEW b \in Seq(T)
  PROVE  /\ a \o b \in Seq(T) /\ Len(a \o b) = Len(a) + Len(b)
         /\ \A i \in 1 .. Len(a) : (a \o b)[i] = a[i]
         /\ \A i \in 1 .. Len(b) : (a \o b)[Len(a) + i] = b[i]
<1>1. Len(a) \in Nat /\ Len(b) \in Nat
  OBVIOUS
<1>2. a \o b \in Seq(T) /\ Len(a \o b) = Len(a) + Len(b)
  OBVIOUS
<1>3. \A i \in 1 .. Len(a) : (a \o b)[i] = a[i]
  BY <1>1
<1>4. \A i \in 1 .. Len(b) : (a \o b)[Len(a) + i] = b[i]
  <2> SUFFICES ASSUME NEW i \in 1 .. Len(b) PROVE (a \o b)[Len(a) + i] = b[i]
    OBVIOUS
  <2>1. Len(a) + i \in 1 .. Len(a) + Len(b) /\ ~(Len(a) + i <= Len(a)) /\ Len(a) + i - Len(a) = i
    BY <1>1
  <2> QED BY <1>1, <2>1
<1> QED BY <1>2, <1>3, <1>4

LEMMA RemovalShifts ==
  ASSUME NEW T, NEW s \in Seq(T), NEW i \in 1 .. Len(s)
  PROVE  /\ RemoveAt(s, i) \in Seq(T) /\ Len(RemoveAt(s, i)) = Len(s) - 1
         /\ \A m \in 1 .. Len(s) - 1 : RemoveAt(s, i)[m] = IF m < i THEN s[m] ELSE s[m + 1]
<1> DEFINE a == SubSeq(s, 1, i - 1)
           b == SubSeq(s, i + 1, Len(s))
<1>0. Len(s) \in Nat
  OBVIOUS
<1>1. a \in Seq(T) /\ Len(a) = i - 1 /\ \A m \in 1 .. i - 1 : a[m] = s[m]
  BY <1>0
<1>2. b \in Seq(T) /\ Len(b) = Len(s) - i /\ \A m \in 1 .. Len(s) - i : b[m] = s[i + m]
  BY <1>0
<1>3. RemoveAt(s, i) = a \o b
  BY DEF RemoveAt
<1> HIDE DEF a, b
<1>a. a \in Seq(T) /\ b \in Seq(T)
  BY <1>1, <1>2
<1>4. a \o b \in Seq(T) /\ Len(a \o b) = Len(a) + Len(b)
  BY <1>a, JoinedInOrder
<1>b. \A m \in 1 .. Len(a) : (a \o b)[m] = a[m]
  BY <1>a, JoinedInOrder
<1>c. \A m \in 1 .. Len(b) : (a \o b)[Len(a) + m] = b[m]
  BY <1>a, JoinedInOrder
<1>5. ASSUME NEW m \in 1 .. Len(s) - 1 PROVE (a \o b)[m] = IF m < i THEN s[m] ELSE s[m + 1]
  <2>1. CASE m < i
    <3>1. m \in 1 .. i - 1
      BY <1>0, <2>1
    <3> QED BY <1>1, <1>b, <2>1, <3>1
  <2>2. CASE ~(m < i)
    <3>1. m - i + 1 \in 1 .. Len(s) - i /\ (i - 1) + (m - i + 1) = m /\ i + (m - i + 1) = m + 1
      BY <1>0, <2>2
    <3> DEFINE k == m - i + 1
    <3>2. k \in 1 .. Len(b) /\ Len(a) + k = m /\ i + k = m + 1
      BY <1>1, <1>2, <3>1
    <3> HIDE DEF k
    <3>3. (a \o b)[Len(a) + k] = b[k]
      BY <1>c, <3>2
    <3>4. b[k] = s[i + k]
      BY <1>2, <3>2
    <3> QED BY <2>2, <3>2, <3>3, <3>4
  <2> QED BY <2>1, <2>2
<1> QED BY <1>0, <1>1, <1>2, <1>3, <1>4, <1>5

LEMMA TailShifts ==
  ASSUME NEW T, NEW s \in Seq(T), s # <<>>
  PROVE  /\ Head(s) = s[1] /\ Head(s) \in T /\ 1 \in 1 .. Len(s)
         /\ Tail(s) \in Seq(T) /\ Len(Tail(s)) = Len(s) - 1
         /\ \A i \in 1 .. Len(s) - 1 : Tail(s)[i] = s[i + 1]
  OBVIOUS

-----------------------------------------------------------------------------
(* Filters. *)

\* One entry more of a filter.
Sift(kept, s, S, n) ==
  IF n = 0 THEN <<>> ELSE IF s[n] \in S THEN Append(kept[n - 1], s[n]) ELSE kept[n - 1]

LEMMA SieveExists ==
  ASSUME NEW T, NEW s \in Seq(T), NEW S
  PROVE  \E kept : /\ kept = [n \in 0 .. Len(s) |-> Sift(kept, s, S, n)]
                   /\ Among(s, S) = kept[Len(s)]
<1> DEFINE Upto(m) == \E kept : kept = [n \in 0 .. m |-> Sift(kept, s, S, n)]
           E == {m \in Nat : Upto(m)}
<1>1. 0 \in E
  <2> DEFINE g == [n \in 0 .. 0 |-> <<>>]
  <2>1. g = [n \in 0 .. 0 |-> Sift(g, s, S, n)]
    BY DEF Sift
  <2> QED BY <2>1
<1>2. \A m \in E : m + 1 \in E
  <2> SUFFICES ASSUME NEW m \in Nat, NEW g, g = [n \in 0 .. m |-> Sift(g, s, S, n)]
               PROVE  Upto(m + 1)
    OBVIOUS
  <2> DEFINE h == [n \in 0 .. m + 1 |-> IF n = m + 1 THEN Sift(g, s, S, n) ELSE g[n]]
  <2>1. \A n \in 0 .. m : g[n] = Sift(g, s, S, n)
    OBVIOUS
  <2>2. \A n \in 0 .. m : h[n] = g[n]
    OBVIOUS
  <2>3. \A n \in 0 .. m + 1 : Sift(h, s, S, n) = Sift(g, s, S, n)
    <3> SUFFICES ASSUME NEW n \in 0 .. m + 1, n # 0 PROVE h[n - 1] = g[n - 1]
      BY DEF Sift
    <3>1. n - 1 \in 0 .. m
      OBVIOUS
    <3> QED BY <2>2, <3>1
  <2>4. \A n \in 0 .. m + 1 : h[n] = Sift(g, s, S, n)
    BY <2>1
  <2>5. h = [n \in 0 .. m + 1 |-> h[n]]
    OBVIOUS
  <2> HIDE DEF h
  <2>6. h = [n \in 0 .. m + 1 |-> Sift(h, s, S, n)]
    BY <2>3, <2>4, <2>5
  <2> QED BY <2>6
<1>3. E = Nat
  <2> HIDE DEF E
  <2>1. E \in SUBSET Nat
    BY DEF E
  <2> QED BY SMTT(30), <1>1, <1>2, <2>1, NumbersInduct
<1>4. Upto(Len(s))
  BY <1>3
<1> DEFINE kept == CHOOSE kept : kept = [n \in 0 .. Len(s) |->
              IF n = 0 THEN <<>>
              ELSE IF s[n] \in S THEN Append(kept[n - 1], s[n]) ELSE kept[n - 1]]
<1>5. kept = [n \in 0 .. Len(s) |-> Sift(kept, s, S, n)]
  BY <1>4 DEF Sift
<1>6. Among(s, S) = kept[Len(s)]
  BY DEF Among
<1> QED BY <1>5, <1>6

\* k is what a filter keeps of the first n entries, in their order.
Sifted(k, s, S, T, n) ==
  /\ k \in Seq(T)
  /\ \E place \in [1 .. Len(k) -> 1 .. n] :
       /\ \A i \in 1 .. Len(k) : k[i] = s[place[i]]
       /\ \A i, j \in 1 .. Len(k) : i < j => place[i] < place[j]
  /\ \A i \in 1 .. n : s[i] \in S => \E j \in 1 .. Len(k) : k[j] = s[i]
  /\ \A j \in 1 .. Len(k) : k[j] \in S

LEMMA AmongKeeps ==
  ASSUME NEW T, NEW s \in Seq(T), NEW S
  PROVE  Sifted(Among(s, S), s, S, T, Len(s))
<1>1. PICK kept : /\ kept = [n \in 0 .. Len(s) |-> Sift(kept, s, S, n)]
                  /\ Among(s, S) = kept[Len(s)]
  BY SieveExists
<1> DEFINE E == {n \in Nat : n <= Len(s) => Sifted(kept[n], s, S, T, n)}
<1>2. \A n \in 0 .. Len(s) : kept[n] = Sift(kept, s, S, n)
  BY <1>1
<1>3. 0 \in E
  <2>1. kept[0] = <<>>
    BY <1>2 DEF Sift
  <2>2. Sifted(<<>>, s, S, T, 0)
    <3> DEFINE f == [i \in 1 .. 0 |-> 1]
    <3>1. Len(<<>>) = 0 /\ <<>> \in Seq(T) /\ \A i \in 1 .. 0 : FALSE
      OBVIOUS
    <3>2. f \in [1 .. 0 -> 1 .. 0]
      BY <3>1
    <3> QED BY <3>1, <3>2 DEF Sifted
  <2> QED BY <2>1, <2>2
<1>4. ASSUME NEW n \in E PROVE n + 1 \in E
  <2> SUFFICES ASSUME n + 1 <= Len(s) PROVE Sifted(kept[n + 1], s, S, T, n + 1)
    BY <1>4
  <2>0. n \in Nat /\ Len(s) \in Nat /\ n + 1 \in 1 .. Len(s) /\ n + 1 \in 0 .. Len(s)
    BY <1>4
  <2> DEFINE k == kept[n]
  <2>1. Sifted(k, s, S, T, n)
    BY <1>4, <2>0
  <2>2. kept[n + 1] = IF s[n + 1] \in S THEN Append(k, s[n + 1]) ELSE k
    <3>1. n + 1 # 0 /\ n + 1 - 1 = n
      BY <2>0
    <3> QED BY <1>2, <2>0, <3>1 DEF Sift
  <2> HIDE DEF k
  <2>3. \A i \in 1 .. n + 1 : i \in 1 .. n \/ i = n + 1
    BY <2>0
  <2>4. PICK place \in [1 .. Len(k) -> 1 .. n] :
          /\ \A i \in 1 .. Len(k) : k[i] = s[place[i]]
          /\ \A i, j \in 1 .. Len(k) : i < j => place[i] < place[j]
    BY <2>1 DEF Sifted
  <2>5. k \in Seq(T) /\ Len(k) \in Nat /\ \A i \in 1 .. Len(k) : place[i] \in 1 .. n /\ place[i] \in 1 .. n + 1
    <3>1. k \in Seq(T)
      BY <2>1 DEF Sifted
    <3>2. \A i \in 1 .. Len(k) : place[i] \in 1 .. n
      BY <2>4
    <3> QED BY <2>0, <3>1, <3>2
  <2>6. CASE s[n + 1] \notin S
    <3>1. place \in [1 .. Len(k) -> 1 .. n + 1]
      BY <2>4, <2>5
    <3>2. Sifted(k, s, S, T, n + 1)
      BY <2>1, <2>3, <2>4, <2>6, <3>1 DEF Sifted
    <3> QED BY <2>2, <2>6, <3>2
  <2>7. CASE s[n + 1] \in S
    <3> DEFINE a == Append(k, s[n + 1])
               f == [i \in 1 .. Len(a) |-> IF i = Len(a) THEN n + 1 ELSE place[i]]
    <3>0. s[n + 1] \in T
      BY <2>0
    <3>1. /\ a \in Seq(T) /\ Len(a) = Len(k) + 1
          /\ \A i \in 1 .. Len(k) : a[i] = k[i] /\ i \in 1 .. Len(a) /\ i # Len(a)
          /\ a[Len(k) + 1] = s[n + 1] /\ Len(k) + 1 \in 1 .. Len(a)
      BY <2>5, <3>0
    <3> HIDE DEF a
    <3>2. \A i \in 1 .. Len(a) : i \in 1 .. Len(k) \/ i = Len(k) + 1
      BY <2>5, <3>1
    <3>3. f \in [1 .. Len(a) -> 1 .. n + 1]
      BY <2>0, <2>5, <3>1, <3>2
    <3>4. /\ \A i \in 1 .. Len(k) : f[i] = place[i]
          /\ f[Len(k) + 1] = n + 1
      BY <3>1
    <3> HIDE DEF f
    <3>5. \A i \in 1 .. Len(a) : a[i] = s[f[i]]
      BY <2>4, <3>1, <3>2, <3>4
    <3>6. \A i, j \in 1 .. Len(a) : i < j => f[i] < f[j]
      <4> SUFFICES ASSUME NEW i \in 1 .. Len(a), NEW j \in 1 .. Len(a), i < j PROVE f[i] < f[j]
        OBVIOUS
      <4>1. i \in 1 .. Len(k)
        BY <2>5, <3>1
      <4>2. CASE j \in 1 .. Len(k)
        BY <2>4, <3>4, <4>1, <4>2
      <4>3. CASE j = Len(k) + 1
        BY <2>0, <2>5, <3>4, <4>1, <4>3
      <4> QED BY <3>2, <4>2, <4>3
    <3>7. \A i \in 1 .. n + 1 : s[i] \in S => \E j \in 1 .. Len(a) : a[j] = s[i]
      <4> SUFFICES ASSUME NEW i \in 1 .. n + 1, s[i] \in S PROVE \E j \in 1 .. Len(a) : a[j] = s[i]
        OBVIOUS
      <4>1. CASE i = n + 1
        BY <3>1, <4>1
      <4>2. CASE i \in 1 .. n
        <5>1. PICK j \in 1 .. Len(k) : k[j] = s[i]
          BY <2>1, <4>2 DEF Sifted
        <5> QED BY <3>1, <5>1
      <4> QED BY <2>3, <4>1, <4>2
    <3>8. \A j \in 1 .. Len(a) : a[j] \in S
      BY <2>1, <2>7, <3>1, <3>2 DEF Sifted
    <3>9. Sifted(a, s, S, T, n + 1)
      BY <3>1, <3>3, <3>5, <3>6, <3>7, <3>8 DEF Sifted
    <3> QED BY <2>2, <2>7, <3>9 DEF a
  <2> QED BY <2>6, <2>7
<1>5. E = Nat
  <2>1. E \in SUBSET Nat
    OBVIOUS
  <2> HIDE DEF E
  <2> QED BY <1>3, <1>4, <2>1, NumbersInduct
<1>6. Sifted(kept[Len(s)], s, S, T, Len(s))
  <2>1. Len(s) \in E /\ Len(s) <= Len(s)
    BY <1>5
  <2> QED BY <2>1
<1> QED BY <1>1, <1>6

-----------------------------------------------------------------------------
(* Sorting. *)

\* Of two, one comes first.
Orders(R, S) ==
  /\ \A x \in S : <<x, x>> \notin R
  /\ \A x, y \in S : x # y => <<x, y>> \in R \/ <<y, x>> \in R
  /\ \A x, y, z \in S : <<x, y>> \in R /\ <<y, z>> \in R => <<x, z>> \in R

LEMMA SomeoneIsLast ==
  ASSUME NEW U, IsFiniteSet(U), NEW R, Orders(R, U)
  PROVE  \A S \in SUBSET U : S # {} => \E x \in S : \A y \in S \ {x} : <<y, x>> \in R
<1> DEFINE HasLast(S) == \E x \in S : \A y \in S \ {x} : <<y, x>> \in R
           E == {n \in Nat : \A S \in SUBSET U : Cardinality(S) = n + 1 => HasLast(S)}
<1>0. \A S \in SUBSET U : IsFiniteSet(S) /\ Cardinality(S) \in Nat
  BY FS_Subset, FS_CardinalityType
<1>1. 0 \in E
  <2> SUFFICES ASSUME NEW S \in SUBSET U, Cardinality(S) = 1 PROVE HasLast(S)
    OBVIOUS
  <2>1. PICK x : S = {x}
    BY <1>0, FS_Singleton
  <2> QED BY <2>1
<1>2. ASSUME NEW n \in E PROVE n + 1 \in E
  <2> SUFFICES ASSUME NEW S \in SUBSET U, Cardinality(S) = n + 1 + 1 PROVE HasLast(S)
    BY <1>2
  <2>0. n \in Nat /\ IsFiniteSet(S)
    BY <1>0, <1>2
  <2>1. PICK a \in S : TRUE
    BY <2>0, FS_EmptySet
  <2>2. S \ {a} \in SUBSET U /\ Cardinality(S \ {a}) = n + 1
    <3>1. Cardinality(S \ {a}) = Cardinality(S) - 1
      BY <2>0, <2>1, FS_RemoveElement
    <3> QED BY <2>0, <3>1
  <2>3. PICK x \in S \ {a} : \A y \in (S \ {a}) \ {x} : <<y, x>> \in R
    BY <1>2, <2>2
  <2>4. a \in U /\ x \in U /\ a # x /\ S \subseteq U
    BY <2>1, <2>3
  <2>5. CASE <<a, x>> \in R
    BY <2>3, <2>5
  <2>6. CASE <<x, a>> \in R
    <3>1. \A y \in S \ {a} : <<y, a>> \in R
      BY <2>3, <2>4, <2>6 DEF Orders
    <3> QED BY <2>1, <3>1
  <2> QED BY <2>4, <2>5, <2>6 DEF Orders
<1>3. E = Nat
  <2>1. E \in SUBSET Nat
    OBVIOUS
  <2> HIDE DEF E
  <2> QED BY <1>1, <1>2, <2>1, NumbersInduct
<1>4. ASSUME NEW S \in SUBSET U, S # {} PROVE HasLast(S)
  <2>1. Cardinality(S) \in Nat \ {0}
    BY <1>0, <1>4, FS_EmptySet
  <2>2. Cardinality(S) - 1 \in E /\ Cardinality(S) - 1 + 1 = Cardinality(S)
    <3> HIDE DEF E
    <3> QED BY <1>3, <2>1
  <2> QED BY <2>2
<1> QED BY <1>4

\* The first n in order.
Sorted(R, S, n, s) ==
  s \in [1 .. n -> S] /\ \A m, k \in 1 .. n : m < k => <<s[m], s[k]>> \in R

\* What is finite can be sorted: the last, after the others in order.
LEMMA OrderExists ==
  ASSUME NEW U, IsFiniteSet(U), NEW R, Orders(R, U)
  PROVE  \A S \in SUBSET U : \E s : Sorted(R, S, Cardinality(S), s)
<1> DEFINE Ordered(S, n) == \E s : Sorted(R, S, n, s)
           E == {n \in Nat : \A S \in SUBSET U : Cardinality(S) = n => Ordered(S, n)}
<1>0. \A S \in SUBSET U : IsFiniteSet(S) /\ Cardinality(S) \in Nat
  BY FS_Subset, FS_CardinalityType
<1>1. 0 \in E
  <2> SUFFICES ASSUME NEW S \in SUBSET U PROVE Ordered(S, 0)
    OBVIOUS
  <2>1. Sorted(R, S, 0, [m \in 1 .. 0 |-> 0])
    BY DEF Sorted
  <2> QED BY <2>1
<1>2. ASSUME NEW n \in E PROVE n + 1 \in E
  <2> SUFFICES ASSUME NEW S \in SUBSET U, Cardinality(S) = n + 1 PROVE Ordered(S, n + 1)
    BY <1>2
  <2>0. n \in Nat /\ IsFiniteSet(S) /\ S # {}
    BY <1>0, <1>2, FS_EmptySet
  <2>1. PICK x \in S : \A y \in S \ {x} : <<y, x>> \in R
    BY <2>0, SomeoneIsLast
  <2>2. S \ {x} \in SUBSET U /\ Cardinality(S \ {x}) = n
    BY <2>0, <2>1, FS_RemoveElement
  <2>3. PICK r : Sorted(R, S \ {x}, n, r)
    BY <1>2, <2>2
  <2> DEFINE s == [m \in 1 .. n + 1 |-> IF m = n + 1 THEN x ELSE r[m]]
  <2>4. r \in [1 .. n -> S \ {x}] /\ \A m, k \in 1 .. n : m < k => <<r[m], r[k]>> \in R
    BY <2>3 DEF Sorted
  <2>5. \A m \in 1 .. n + 1 : m \in 1 .. n \/ m = n + 1
    BY <2>0
  <2>6. \A m \in 1 .. n : s[m] = r[m] /\ r[m] \in S \ {x}
    BY <2>0, <2>4
  <2>7. s[n + 1] = x
    BY <2>0
  <2>8. s \in [1 .. n + 1 -> S]
    BY <2>1, <2>5, <2>6
  <2> HIDE DEF s
  <2>9. ASSUME NEW m \in 1 .. n + 1, NEW k \in 1 .. n + 1, m < k PROVE <<s[m], s[k]>> \in R
    <3>1. m \in 1 .. n
      BY <2>0, <2>9
    <3>2. CASE k \in 1 .. n
      BY <2>4, <2>6, <2>9, <3>1, <3>2
    <3>3. CASE k = n + 1
      BY <2>1, <2>6, <2>7, <3>1, <3>3
    <3> QED BY <2>5, <3>2, <3>3
  <2> QED BY <2>8, <2>9 DEF Sorted
<1>3. E = Nat
  <2>1. E \in SUBSET Nat
    OBVIOUS
  <2> HIDE DEF E
  <2> QED BY <1>1, <1>2, <2>1, NumbersInduct
<1> QED BY <1>0, <1>3

\* A sorted list of a finite set holds everybody once.
LEMMA SortedIsComplete ==
  ASSUME NEW S, IsFiniteSet(S), NEW R, Orders(R, S), NEW s, Sorted(R, S, Cardinality(S), s)
  PROVE  /\ \A m, k \in 1 .. Cardinality(S) : s[m] = s[k] => m = k
         /\ \A x \in S : \E m \in 1 .. Cardinality(S) : s[m] = x
<1>1. PICK n : n = Cardinality(S)
  OBVIOUS
<1>2. n \in Nat /\ s \in [1 .. n -> S] /\ \A m, k \in 1 .. n : m < k => <<s[m], s[k]>> \in R
  BY <1>1, FS_CardinalityType DEF Sorted
<1>3. \A m, k \in 1 .. n : s[m] = s[k] => m = k
  <2>1. ASSUME NEW m \in 1 .. n, NEW k \in 1 .. n, m < k PROVE s[m] # s[k]
    <3>1. s[m] \in S /\ <<s[m], s[k]>> \in R
      BY <1>2, <2>1
    <3> QED BY <3>1 DEF Orders
  <2>2. \A m, k \in 1 .. n : m # k => m < k \/ k < m
    BY <1>2
  <2> QED BY <2>1, <2>2
<1>4. IsFiniteSet(1 .. n) /\ Cardinality(1 .. n) = n
  BY <1>2, FS_Interval
<1>5. s \in Injection(1 .. n, S)
  BY <1>2, <1>3 DEF Injection, IsInjective
<1>6. s \in Surjection(1 .. n, S)
  BY <1>1, <1>2, <1>4, <1>5, FS_Injection
<1> QED BY <1>1, <1>3, <1>6 DEF Surjection

\* In a sorted list, i - 1 of the set come before the i-th.
LEMMA SortedRanks ==
  ASSUME NEW S, IsFiniteSet(S), NEW R, Orders(R, S), NEW s, Sorted(R, S, Cardinality(S), s),
         NEW i \in 1 .. Cardinality(S)
  PROVE  Cardinality({y \in S : <<y, s[i]>> \in R}) = i - 1
<1> DEFINE Before == {y \in S : <<y, s[i]>> \in R}
           t == [m \in 1 .. i - 1 |-> s[m]]
<1>1. PICK n : n = Cardinality(S)
  OBVIOUS
<1>2. n \in Nat /\ s \in [1 .. n -> S] /\ \A m, k \in 1 .. n : m < k => <<s[m], s[k]>> \in R
  BY <1>1, FS_CardinalityType DEF Sorted
<1>3. /\ \A m, k \in 1 .. n : s[m] = s[k] => m = k
      /\ \A x \in S : \E m \in 1 .. n : s[m] = x
  BY <1>1, SortedIsComplete
<1>4. i \in 1 .. n /\ i - 1 \in Nat /\ \A m \in 1 .. i - 1 : m \in 1 .. n /\ m < i
  BY <1>1, <1>2
<1>5. t \in [1 .. i - 1 -> Before]
  BY <1>2, <1>4
<1>6. \A m, k \in 1 .. i - 1 : t[m] = t[k] => m = k
  BY <1>3, <1>4
<1>7. ASSUME NEW y \in Before PROVE \E m \in 1 .. i - 1 : t[m] = y
  <2>1. PICK m \in 1 .. n : s[m] = y
    BY <1>3, <1>7
  <2>2. y \in S /\ <<y, s[i]>> \in R /\ s[i] \in S
    BY <1>2, <1>4, <1>7
  <2>3. <<s[i], y>> \notin R /\ y # s[i]
    BY <2>2 DEF Orders
  <2>4. ~(i < m) /\ m # i
    BY <1>2, <1>4, <2>1, <2>3
  <2>5. m \in 1 .. i - 1
    BY <1>2, <1>4, <2>1, <2>4
  <2> QED BY <2>1, <2>5
<1> HIDE DEF t, Before
<1>8. t \in Bijection(1 .. i - 1, Before)
  BY <1>5, <1>6, <1>7 DEF Bijection, Injection, IsInjective, Surjection
<1>9. Cardinality(Before) = i - 1
  BY <1>4, <1>8, FS_CountingElements DEF ExistsBijection
<1> QED BY <1>9 DEF Before

\* Sorting puts everybody in a list, once, and the first before the others.
LEMMA InOrderSorts ==
  ASSUME NEW S, IsFiniteSet(S), NEW R, Orders(R, S)
  PROVE  LET n == Cardinality(S)
             s == InOrder(S, R)
         IN  /\ n \in Nat /\ Sorted(R, S, n, s) /\ s \in Seq(S) /\ Len(s) = n
             /\ \A m, k \in 1 .. n : s[m] = s[k] => m = k
             /\ \A x \in S : \E m \in 1 .. n : s[m] = x
<1>1. PICK n : n = Cardinality(S)
  OBVIOUS
<1>2. n \in Nat
  BY <1>1, FS_CardinalityType
<1>3. PICK s : Sorted(R, S, Cardinality(S), s)
  BY OrderExists
<1>4. s \in [1 .. n -> S]
  BY <1>1, <1>3 DEF Sorted
<1>5. /\ \A m, k \in 1 .. n : s[m] = s[k] => m = k
      /\ \A x \in S : \E m \in 1 .. n : s[m] = x
  BY <1>1, <1>3, SortedIsComplete
<1>6. \A i \in 1 .. n : Cardinality({y \in S : <<y, s[i]>> \in R}) = i - 1
  BY <1>1, <1>3, SortedRanks
<1> DEFINE Place(x) == Cardinality({y \in S : <<y, x>> \in R})
           Nth(m) == CHOOSE x \in S : Cardinality({y \in S : <<y, x>> \in R}) = m - 1
<1>7. ASSUME NEW i \in 1 .. n PROVE Nth(i) = s[i]
  <2>1. s[i] \in S /\ Place(s[i]) = i - 1
    BY <1>4, <1>6
  <2>2. ASSUME NEW x \in S, Place(x) = i - 1 PROVE x = s[i]
    <3>1. PICK m \in 1 .. n : s[m] = x
      BY <1>5
    <3>2. Place(x) = m - 1
      BY <1>6, <3>1
    <3>3. m = i
      BY <1>2, <2>2, <3>2
    <3> QED BY <3>1, <3>3
  <2> QED BY <2>1, <2>2
<1>8. InOrder(S, R) = s
  <2>1. InOrder(S, R) = [m \in 1 .. Cardinality(S) |-> Nth(m)]
    BY DEF InOrder
  <2> HIDE DEF Nth
  <2> QED BY <1>1, <1>4, <1>7, <2>1
<1>9. s \in Seq(S) /\ Len(s) = n
  BY <1>2, <1>4, FunctionsAreLists
<1> QED BY <1>1, <1>2, <1>3, <1>5, <1>8, <1>9

=============================================================================
