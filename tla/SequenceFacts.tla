--------------------------- MODULE SequenceFacts ----------------------------
(***************************************************************************)
(* What Append(), RemoveAt() and RemoveFirst() do to the elements of a     *)
(* sequence, in particular of one without duplicates: a vector of workers, *)
(* a queue of delegates.                                                   *)
(***************************************************************************)
EXTENDS SequencesExt, SequenceTheorems, WellFoundedInduction, TLAPS

\* A new element at the end.
LEMMA AppendToSet ==
    ASSUME NEW C, NEW s \in Seq(C), NEW e \in C, IsInjective(s), e \notin ToSet(s)
    PROVE  /\ ToSet(Append(s, e)) = ToSet(s) \cup {e}
           /\ IsInjective(Append(s, e))
<1> DEFINE n == Len(s)
           f == Append(s, e)
<1>1. /\ n \in Nat /\ DOMAIN s = 1 .. n /\ DOMAIN f = 1 .. n + 1
      /\ f[n + 1] = e /\ \A k \in 1 .. n : f[k] = s[k]
  OBVIOUS
<1> HIDE DEF f, n
<1>2. ToSet(f) = ToSet(s) \cup {e}
  BY <1>1 DEF ToSet
<1>3. IsInjective(f)
  BY <1>1 DEF ToSet, IsInjective
<1> QED
  BY <1>2, <1>3 DEF f

\* The sequence without its element at i.
LEMMA RemoveAtElements ==
    ASSUME NEW C, NEW s \in Seq(C), NEW i \in 1 .. Len(s)
    PROVE  /\ RemoveAt(s, i) \in Seq(C)
           /\ Len(RemoveAt(s, i)) = Len(s) - 1
           /\ \A k \in 1 .. Len(s) - 1 :
                RemoveAt(s, i)[k] = s[IF k < i THEN k ELSE k + 1]
<1> DEFINE n == Len(s)
           a == SubSeq(s, 1, i - 1)
           b == SubSeq(s, i + 1, n)
           f == a \o b
<1>1. /\ n \in Nat /\ i \in 1 .. n /\ DOMAIN s = 1 .. n
      /\ \A k \in 1 .. n : s[k] \in C
  OBVIOUS
<1> HIDE DEF n
<1>2. /\ a \in Seq(C) /\ Len(a) = i - 1
      /\ \A k \in 1 .. i - 1 : a[k] = s[k]
  <2>1. \A k \in 1 .. i - 1 : s[k] \in C
    BY <1>1
  <2>2. /\ a \in Seq(C) /\ Len(a) = IF 1 <= i - 1 THEN i - 1 - 1 + 1 ELSE 0
        /\ \A k \in 1 .. i - 1 - 1 + 1 : a[k] = s[1 + k - 1]
    BY <1>1, <2>1, SubSeqProperties
  <2> QED
    BY <1>1, <2>2
<1>3. /\ b \in Seq(C) /\ Len(b) = n - i
      /\ \A k \in 1 .. n - i : b[k] = s[i + k]
  <2>1. \A k \in i + 1 .. n : s[k] \in C
    BY <1>1
  <2>2. /\ b \in Seq(C) /\ Len(b) = IF i + 1 <= n THEN n - (i + 1) + 1 ELSE 0
        /\ \A k \in 1 .. n - (i + 1) + 1 : b[k] = s[i + 1 + k - 1]
    BY <1>1, <2>1, SubSeqProperties
  <2> QED
    BY <1>1, <2>2
<1> HIDE DEF a, b
<1>4. /\ f \in Seq(C) /\ Len(f) = n - 1
      /\ \A k \in 1 .. i - 1 : f[k] = s[k]
      /\ \A k \in i .. n - 1 : f[k] = s[k + 1]
  <2>1. a \in Seq(C) /\ b \in Seq(C)
    BY <1>2, <1>3
  <2>2. /\ f \in Seq(C) /\ Len(f) = Len(a) + Len(b)
        /\ \A k \in 1 .. Len(a) + Len(b) :
            f[k] = IF k <= Len(a) THEN a[k] ELSE b[k - Len(a)]
    BY <2>1, ConcatProperties
  <2> HIDE DEF f
  <2>3. Len(f) = n - 1 /\ DOMAIN f = 1 .. n - 1
    BY <1>1, <1>2, <1>3, <2>2
  <2>4. ASSUME NEW k \in i .. n - 1 PROVE f[k] = s[k + 1]
    <3>1. k \in 1 .. Len(a) + Len(b) /\ ~(k <= Len(a)) /\ k - Len(a) \in 1 .. n - i
      BY <1>1, <1>2, <1>3
    <3>2. f[k] = b[k - Len(a)] /\ b[k - Len(a)] = s[i + (k - Len(a))]
      BY <1>3, <2>2, <3>1
    <3>3. i + (k - Len(a)) = k + 1
      BY <1>1, <1>2
    <3> QED
      BY <3>2, <3>3
  <2>5. ASSUME NEW k \in 1 .. i - 1 PROVE f[k] = s[k]
    BY <1>1, <1>2, <1>3, <2>2
  <2> QED
    BY <2>2, <2>3, <2>4, <2>5
<1> HIDE DEF f
<1>5. \A k \in 1 .. n - 1 : f[k] = s[IF k < i THEN k ELSE k + 1]
  BY <1>1, <1>4
<1> QED
  BY <1>4, <1>5 DEF f, a, b, n, RemoveAt

\* In particular of one without duplicates.
LEMMA RemoveAtToSet ==
    ASSUME NEW C, NEW s \in Seq(C), IsInjective(s), NEW i \in DOMAIN s
    PROVE  /\ RemoveAt(s, i) \in Seq(C)
           /\ ToSet(RemoveAt(s, i)) = ToSet(s) \ {s[i]}
           /\ IsInjective(RemoveAt(s, i))
<1> DEFINE n == Len(s)
           f == RemoveAt(s, i)
<1>1. /\ n \in Nat /\ i \in 1 .. n /\ DOMAIN s = 1 .. n
      /\ \A k \in 1 .. n : s[k] \in C
  OBVIOUS
<1>2. /\ f \in Seq(C) /\ Len(f) = n - 1
      /\ \A k \in 1 .. n - 1 : f[k] = s[IF k < i THEN k ELSE k + 1]
  BY <1>1, RemoveAtElements
<1> HIDE DEF n, f
<1>4. /\ f \in Seq(C) /\ DOMAIN f = 1 .. n - 1
      /\ \A k \in 1 .. i - 1 : f[k] = s[k]
      /\ \A k \in i .. n - 1 : f[k] = s[k + 1]
  <2>1. DOMAIN f = 1 .. n - 1
    BY <1>2
  <2>2. ASSUME NEW k \in 1 .. i - 1 PROVE f[k] = s[k]
    <3>1. k \in 1 .. n - 1 /\ k < i
      BY <1>1
    <3> QED
      BY <1>2, <3>1
  <2>3. ASSUME NEW k \in i .. n - 1 PROVE f[k] = s[k + 1]
    <3>1. k \in 1 .. n - 1 /\ ~(k < i)
      BY <1>1
    <3> QED
      BY <1>2, <3>1
  <2> QED
    BY <1>2, <2>1, <2>2, <2>3
<1> DEFINE m(k) == IF k < i THEN k ELSE k + 1
<1>5. ASSUME NEW k \in 1 .. n - 1 PROVE m(k) \in 1 .. n /\ m(k) # i /\ f[k] = s[m(k)]
  <2>1. CASE k < i
    BY <1>1, <1>4, <2>1
  <2>2. CASE k >= i
    BY <1>1, <1>4, <2>2
  <2> QED
    BY <1>1, <2>1, <2>2
<1>9. IsInjective(f)
  <2> SUFFICES ASSUME NEW j \in 1 .. n - 1, NEW k \in 1 .. n - 1, f[j] = f[k]
               PROVE  j = k
    BY <1>4 DEF IsInjective
  <2>1. m(j) = m(k)
    BY <1>1, <1>5 DEF IsInjective
  <2> QED
    BY <1>1, <2>1
<1>6. \A k \in DOMAIN f : f[k] \in ToSet(s) \ {s[i]}
  <2> SUFFICES ASSUME NEW k \in 1 .. n - 1 PROVE f[k] \in ToSet(s) \ {s[i]}
    BY <1>4
  <2>1. m(k) \in DOMAIN s /\ i \in DOMAIN s /\ m(k) # i /\ f[k] = s[m(k)]
    BY <1>1, <1>5
  <2> HIDE DEF m
  <2> QED
    BY <2>1 DEF ToSet, IsInjective
<1>7. ASSUME NEW k \in 1 .. n, k # i PROVE s[k] \in ToSet(f)
  <2>1. CASE k < i
    BY <1>1, <1>4, <2>1 DEF ToSet
  <2>2. CASE k > i
    <3>1. k - 1 \in i .. n - 1 /\ f[k - 1] = s[k]
      BY <1>1, <1>4, <2>2
    <3> QED
      BY <1>1, <1>4, <3>1 DEF ToSet
  <2> QED
    BY <1>1, <1>7, <2>1, <2>2
<1>8. ToSet(f) = ToSet(s) \ {s[i]}
  BY <1>1, <1>6, <1>7 DEF ToSet
<1> QED
  BY <1>4, <1>8, <1>9 DEF f

\* RemoveAt() followed by Tail(), element by element.
LEMMA RemoveAtTail ==
    ASSUME NEW S, NEW s \in Seq(S), NEW p \in 2 .. Len(s)
    PROVE  /\ Tail(RemoveAt(s, p)) \in Seq(S)
           /\ Len(Tail(RemoveAt(s, p))) = Len(s) - 2
           /\ \A k \in 1 .. Len(s) - 2 :
                Tail(RemoveAt(s, p))[k] = s[IF k < p - 1 THEN k + 1 ELSE k + 2]
<1> DEFINE g == RemoveAt(s, p)
<1>1. /\ g \in Seq(S) /\ Len(g) = Len(s) - 1
      /\ \A k \in 1 .. Len(s) - 1 : g[k] = s[IF k < p THEN k ELSE k + 1]
  BY RemoveAtElements
<1> HIDE DEF g
<1>2. Len(s) \in Nat /\ Len(g) > 0
  BY <1>1
<1>3. /\ Tail(g) \in Seq(S) /\ Len(Tail(g)) = Len(s) - 2
      /\ \A k \in 1 .. Len(s) - 2 : Tail(g)[k] = g[k + 1]
  BY <1>1, <1>2
<1>4. \A k \in 1 .. Len(s) - 2 : Tail(g)[k] = s[IF k < p - 1 THEN k + 1 ELSE k + 2]
  BY <1>1, <1>2, <1>3
<1> QED
  BY <1>3, <1>4 DEF g

\* A set of natural numbers has a least element.
LEMMA LeastElement ==
    ASSUME NEW I \in SUBSET Nat, I # {}
    PROVE  \E x \in I : \A y \in I : x <= y
<1> DEFINE R == {xy \in Nat \X Nat : xy[1] < xy[2]}
<1>1. PICK x \in I : \A y \in I : <<y, x>> \notin R
  <2>1. IsWellFoundedOn(R, Nat)
    BY NatLessThanWellFounded DEF OpToRel
  <2> HIDE DEF R
  <2> QED
    BY <2>1, WFMin
<1>2. ASSUME NEW y \in I
      PROVE  x <= y
  <2>1. <<y, x>> \in Nat \X Nat /\ <<y, x>>[1] = y /\ <<y, x>>[2] = x
    OBVIOUS
  <2>2. ~ (y < x)
    BY <1>1, <2>1
  <2> QED
    BY <2>2
<1> QED
  BY <1>2

\* Min() finds it.
LEMMA LeastNat ==
    ASSUME NEW I \in SUBSET Nat, I # {}
    PROVE  Min(I) \in I /\ \A y \in I : Min(I) <= y
<1>1. \E x \in I : \A y \in I : x <= y
  BY LeastElement
<1> QED
  BY <1>1 DEF Min

\* The first e is removed, if there is one.
LEMMA RemoveFirstSeq ==
    ASSUME NEW S, NEW s \in Seq(S), NEW e
    PROVE  RemoveFirst(s, e) \in Seq(S)
<1>1. CASE \E i \in 1 .. Len(s) : s[i] = e
  <2> DEFINE I == {i \in 1 .. Len(s) : s[i] = e}
             k == Min(I)
  <2>1. I # {} /\ I \in SUBSET Nat
    BY <1>1
  <2>2. k \in 1 .. Len(s)
    BY <2>1, LeastNat
  <2>3. RemoveFirst(s, e) = SubSeq(s, 1, k - 1) \o SubSeq(s, k + 1, Len(s))
    BY <1>1, <2>1 DEF RemoveFirst, RemoveAt, SelectInSeq
  <2> HIDE DEF k
  <2>4. Len(s) \in Nat /\ \A i \in 1 .. Len(s) : s[i] \in S
    OBVIOUS
  <2>5. SubSeq(s, 1, k - 1) \in Seq(S)
    <3>1. \A i \in 1 .. k - 1 : s[i] \in S
      BY <2>2, <2>4
    <3> QED
      BY <2>2, <3>1, SubSeqProperties
  <2>6. SubSeq(s, k + 1, Len(s)) \in Seq(S)
    <3>1. \A i \in k + 1 .. Len(s) : s[i] \in S
      BY <2>2, <2>4
    <3> QED
      BY <2>2, <2>4, <3>1, SubSeqProperties
  <2> QED
    BY <2>3, <2>5, <2>6, ConcatProperties
<1> QED
  BY <1>1 DEF RemoveFirst

\* Without duplicates there is no second e.
LEMMA RemoveFirstToSet ==
    ASSUME NEW C, NEW s \in Seq(C), IsInjective(s), NEW e
    PROVE  /\ ToSet(RemoveFirst(s, e)) = ToSet(s) \ {e}
           /\ IsInjective(RemoveFirst(s, e))
<1>0. Len(s) \in Nat /\ DOMAIN s = 1 .. Len(s)
  OBVIOUS
<1>1. CASE \E i \in 1 .. Len(s) : s[i] = e
  <2> DEFINE I == {i \in 1 .. Len(s) : s[i] = e}
             k == Min(I)
  <2>1. I # {} /\ I \in SUBSET Nat
    BY <1>1
  <2>2. k \in DOMAIN s /\ s[k] = e
    BY <1>0, <2>1, LeastNat
  <2>3. RemoveFirst(s, e) = RemoveAt(s, k)
    BY <1>1 DEF RemoveFirst, SelectInSeq
  <2> HIDE DEF k
  <2> QED
    BY <2>2, <2>3, RemoveAtToSet
<1>2. CASE ~ \E i \in 1 .. Len(s) : s[i] = e
  BY <1>0, <1>2 DEF RemoveFirst, ToSet
<1> QED
  BY <1>1, <1>2

\* One step of the recursion of FlattenSeq().
Joins(f, s, i) == f[i] = IF i = 1 THEN s[i] ELSE f[i - 1] \o s[i]

\* The recursion of FlattenSeq() has a solution.
LEMMA FlattenUnfolds ==
    ASSUME NEW S, NEW n \in Nat \ {0}, NEW s \in [1 .. n -> Seq(S)]
    PROVE  \E f : FlattenSeq(s) = f[n] /\ \A i \in 1 .. n : Joins(f, s, i)
<1> DEFINE Solves(f, m) == f = [i \in 1 .. m |-> IF i = 1 THEN s[i] ELSE f[i - 1] \o s[i]]
           I == {m \in 1 .. n : ~ \E f : Solves(f, m)}
<1>1. I = {}
  <2> SUFFICES ASSUME I # {} PROVE FALSE
    OBVIOUS
  <2>1. PICK m \in I : \A k \in I : m <= k
    <3> HIDE DEF Solves
    <3>1. I \in SUBSET Nat
      OBVIOUS
    <3> HIDE DEF I
    <3> QED
      BY <3>1, LeastElement
  <2>2. m \in 1 .. n /\ ~ \E f : Solves(f, m)
    OBVIOUS
  <2>3. m # 1
    <3>1. Solves([i \in 1 .. 1 |-> s[i]], 1)
      OBVIOUS
    <3> HIDE DEF Solves
    <3> QED
      BY <2>2, <3>1
  <2>4. PICK f : Solves(f, m - 1)
    <3>1. m - 1 \in 1 .. n /\ ~(m <= m - 1)
      BY <2>2, <2>3
    <3> HIDE DEF Solves
    <3> QED
      BY <2>1, <3>1
  <2> DEFINE g == [i \in 1 .. m |-> IF i = m THEN f[m - 1] \o s[m] ELSE f[i]]
  <2>5. ASSUME NEW i \in 1 .. m
        PROVE  g[i] = IF i = 1 THEN s[i] ELSE g[i - 1] \o s[i]
    <3>1. CASE i = m
      <4>1. i - 1 \in 1 .. m /\ i - 1 # m
        BY <2>2, <2>3, <3>1
      <4> QED
        BY <2>2, <2>3, <3>1, <4>1
    <3>2. CASE i # m
      <4>1. i \in 1 .. m - 1
        BY <2>2, <3>2
      <4>2. f[i] = IF i = 1 THEN s[i] ELSE f[i - 1] \o s[i]
        BY <2>4, <4>1
      <4>3. i # 1 => i - 1 \in 1 .. m /\ i - 1 # m
        BY <2>2, <4>1
      <4> QED
        BY <3>2, <4>2, <4>3
    <3> QED
      BY <3>1, <3>2
  <2>6. Solves(g, m)
    <3> DEFINE h == [i \in 1 .. m |-> IF i = 1 THEN s[i] ELSE g[i - 1] \o s[i]]
    <3>1. DOMAIN g = 1 .. m /\ DOMAIN h = 1 .. m /\ \A i \in 1 .. m : g[i] = h[i]
      BY <2>5
    <3>2. g = [i \in DOMAIN g |-> g[i]] /\ h = [i \in DOMAIN h |-> h[i]]
      OBVIOUS
    <3> HIDE DEF g
    <3>3. g = h
      <4> HIDE DEF h
      <4> QED
        BY <3>1, <3>2
    <3> QED
      BY <3>3
  <2> HIDE DEF Solves
  <2> QED
    BY <2>2, <2>6
<1>2. \E f : Solves(f, n)
  <2> HIDE DEF Solves
  <2>1. n \in 1 .. n
    OBVIOUS
  <2> QED
    BY <1>1, <2>1
<1> DEFINE c == CHOOSE f : Solves(f, n)
<1>3. Solves(c, n)
  <2> HIDE DEF Solves
  <2> QED
    BY <1>2
<1>4. Len(s) = n
  OBVIOUS
<1>5. FlattenSeq(s) = c[n]
  BY <1>4 DEF FlattenSeq
<1> HIDE DEF c
<1>6. \A i \in 1 .. n : Joins(c, s, i)
  BY <1>3 DEF Joins
<1> QED
  BY <1>5, <1>6

\* Sequences that have nothing in common and no doubles have none when they are
\* put one behind the other.
LEMMA ConcatApart ==
    ASSUME NEW S, NEW a \in Seq(S), NEW b \in Seq(S), IsInjective(a), IsInjective(b),
           ToSet(a) \cap ToSet(b) = {}
    PROVE  /\ a \o b \in Seq(S) /\ IsInjective(a \o b)
           /\ ToSet(a \o b) = ToSet(a) \union ToSet(b)
<1> DEFINE c == a \o b
           p == Len(a)
           q == Len(b)
<1>1. /\ p \in Nat /\ q \in Nat /\ DOMAIN a = 1 .. p /\ DOMAIN b = 1 .. q
      /\ c \in Seq(S) /\ DOMAIN c = 1 .. p + q
      /\ \A i \in 1 .. p + q : c[i] = IF i <= p THEN a[i] ELSE b[i - p]
  OBVIOUS
<1>2. \A i \in 1 .. p + q : i <= p => i \in 1 .. p /\ c[i] = a[i] /\ c[i] \in ToSet(a)
  BY <1>1 DEF ToSet
<1>3. \A i \in 1 .. p + q :
         i > p => i - p \in 1 .. q /\ c[i] = b[i - p] /\ c[i] \in ToSet(b)
  BY <1>1 DEF ToSet
<1>4. \A i \in 1 .. p : i \in 1 .. p + q /\ c[i] = a[i]
  BY <1>1
<1>5. \A i \in 1 .. q : i + p \in 1 .. p + q /\ c[i + p] = b[i]
  BY <1>1
<1> HIDE DEF c, p, q
<1>6. ToSet(c) \subseteq ToSet(a) \union ToSet(b)
  BY <1>1, <1>2, <1>3 DEF ToSet
<1>7. ToSet(a) \subseteq ToSet(c) /\ ToSet(b) \subseteq ToSet(c)
  <2>1. \A i \in 1 .. p : a[i] \in ToSet(c)
    BY <1>1, <1>4 DEF ToSet
  <2>2. \A i \in 1 .. q : b[i] \in ToSet(c)
    BY <1>1, <1>5 DEF ToSet
  <2> QED
    BY <1>1, <2>1, <2>2 DEF ToSet
<1>8. ASSUME NEW i \in 1 .. p + q, NEW j \in 1 .. p + q, c[i] = c[j]
      PROVE  i = j
  <2>1. CASE i <= p /\ j <= p
    BY <1>1, <1>2, <1>8, <2>1 DEF IsInjective
  <2>2. CASE i > p /\ j > p
    <3>1. i - p = j - p
      BY <1>1, <1>3, <1>8, <2>2 DEF IsInjective
    <3> QED
      BY <1>1, <3>1
  <2>3. CASE (i <= p /\ j > p) \/ (i > p /\ j <= p)
    BY <1>2, <1>3, <1>8, <2>3
  <2> QED
    BY <1>1, <2>1, <2>2, <2>3
<1>9. IsInjective(c)
  BY <1>1, <1>8 DEF IsInjective
<1> QED
  BY <1>1, <1>6, <1>7, <1>9 DEF c

LEMMA FlattenApart ==
    ASSUME NEW S, NEW n \in Nat \ {0}, NEW s \in [1 .. n -> Seq(S)],
           \A i \in 1 .. n : IsInjective(s[i]),
           \A i, j \in 1 .. n : i # j => ToSet(s[i]) \cap ToSet(s[j]) = {}
    PROVE  /\ FlattenSeq(s) \in Seq(S) /\ IsInjective(FlattenSeq(s))
           /\ ToSet(FlattenSeq(s)) = UNION {ToSet(s[i]) : i \in 1 .. n}
<1>1. PICK f : FlattenSeq(s) = f[n] /\ \A i \in 1 .. n : Joins(f, s, i)
  BY FlattenUnfolds
<1>2. \A i \in 1 .. n : f[i] = IF i = 1 THEN s[i] ELSE f[i - 1] \o s[i]
  BY <1>1 DEF Joins
<1> DEFINE Joined(m) == /\ f[m] \in Seq(S) /\ IsInjective(f[m])
                        /\ ToSet(f[m]) = UNION {ToSet(s[i]) : i \in 1 .. m}
           I == {m \in 1 .. n : ~Joined(m)}
<1>3. Joined(1)
  <2>1. f[1] = s[1] /\ s[1] \in Seq(S) /\ 1 \in 1 .. n
    BY <1>2
  <2>2. UNION {ToSet(s[i]) : i \in 1 .. 1} = ToSet(s[1])
    <3>1. \A i \in 1 .. 1 : i = 1
      OBVIOUS
    <3>2. 1 \in 1 .. 1
      OBVIOUS
    <3> QED
      BY <3>1, <3>2, Zenon
  <2> QED
    BY <2>1, <2>2
<1>4. ASSUME NEW m \in 1 .. n - 1, Joined(m) PROVE Joined(m + 1)
  <2>1. /\ m + 1 \in 1 .. n /\ m \in 1 .. n /\ s[m + 1] \in Seq(S)
        /\ f[m + 1] = f[m] \o s[m + 1]
    <3>1. /\ m + 1 \in 1 .. n /\ m \in 1 .. n
          /\ m + 1 # 1 /\ (m + 1) - 1 = m
      OBVIOUS
    <3> QED
      BY <1>2, <3>1
  <2>2. ToSet(f[m]) \cap ToSet(s[m + 1]) = {}
    <3>1. \A i \in 1 .. m : i \in 1 .. n /\ i # m + 1
      BY <2>1
    <3> QED
      BY <1>4, <2>1, <3>1
  <2>3. f[m + 1] \in Seq(S) /\ IsInjective(f[m + 1])
        /\ ToSet(f[m + 1]) = ToSet(f[m]) \union ToSet(s[m + 1])
    BY <1>4, <2>1, <2>2, ConcatApart
  <2>4. UNION {ToSet(s[i]) : i \in 1 .. m + 1}
           = (UNION {ToSet(s[i]) : i \in 1 .. m}) \union ToSet(s[m + 1])
    <3>1. \A i : i \in 1 .. m + 1 <=> i \in 1 .. m \/ i = m + 1
      OBVIOUS
    <3> QED
      BY <3>1, Zenon
  <2> QED
    BY <1>4, <2>3, <2>4
<1>5. I = {}
  <2> SUFFICES ASSUME I # {} PROVE FALSE
    OBVIOUS
  <2> HIDE DEF Joined
  <2>1. I \in SUBSET Nat
    OBVIOUS
  <2>2. PICK m \in I : \A k \in I : m <= k
    <3> HIDE DEF I
    <3> QED
      BY <2>1, LeastElement
  <2>3. m \in 1 .. n /\ ~Joined(m)
    OBVIOUS
  <2>4. m # 1
    BY <1>3, <2>3
  <2>5. m - 1 \in 1 .. n - 1 /\ m - 1 \in 1 .. n /\ ~(m <= m - 1) /\ (m - 1) + 1 = m
    BY <2>3, <2>4
  <2>6. Joined(m - 1)
    BY <2>2, <2>5
  <2> QED
    BY <1>4, <2>3, <2>5, <2>6
<1>6. Joined(n)
  <2> HIDE DEF Joined
  <2>1. n \in 1 .. n
    OBVIOUS
  <2> QED
    BY <1>5, <2>1
<1> QED
  BY <1>1, <1>6

\* The first element and the rest.
LEMMA HeadTailToSet ==
    ASSUME NEW S, NEW s \in Seq(S), s # <<>>
    PROVE  /\ Head(s) \in S /\ Tail(s) \in Seq(S)
           /\ ToSet(s) = {Head(s)} \union ToSet(Tail(s))
           /\ Tail(s) = <<>> <=> s = <<Head(s)>>
<1> DEFINE n == Len(s)
           t == Tail(s)
           h == Head(s)
<1>1. /\ n \in Nat \ {0} /\ DOMAIN s = 1 .. n /\ h = s[1] /\ h \in S
      /\ t \in Seq(S) /\ Len(t) = n - 1 /\ DOMAIN t = 1 .. n - 1
      /\ \A i \in 1 .. n - 1 : t[i] = s[i + 1]
  OBVIOUS
<1>2. t = <<>> <=> n = 1
  <2>1. Len(t) = 0 <=> t = <<>>
    BY <1>1, EmptySeq
  <2> QED
    BY <1>1, <2>1
<1>3. s = <<h>> <=> n = 1
  <2>1. s = <<h>> => n = 1
    OBVIOUS
  <2>2. n = 1 => s = <<h>>
    BY <1>1
  <2> QED
    BY <2>1, <2>2
<1> HIDE DEF n, t, h
<1>4. ToSet(s) \subseteq {h} \union ToSet(t)
  <2> SUFFICES ASSUME NEW i \in 1 .. n PROVE s[i] \in {h} \union ToSet(t)
    BY <1>1 DEF ToSet
  <2>1. CASE i = 1
    BY <1>1, <2>1
  <2>2. CASE i # 1
    <3>1. i - 1 \in 1 .. n - 1 /\ t[i - 1] = s[i]
      BY <1>1, <2>2
    <3> QED
      BY <1>1, <3>1 DEF ToSet
  <2> QED
    BY <2>1, <2>2
<1>5. {h} \union ToSet(t) \subseteq ToSet(s)
  <2>1. 1 \in 1 .. n /\ \A i \in 1 .. n - 1 : i + 1 \in 1 .. n
    BY <1>1
  <2> QED
    BY <1>1, <2>1 DEF ToSet
<1> QED
  BY <1>1, <1>2, <1>3, <1>4, <1>5 DEF t, h

\* The last element and the rest, of a sequence without duplicates.
LEMMA FrontLastToSet ==
    ASSUME NEW S, NEW s \in Seq(S), s # <<>>, IsInjective(s)
    PROVE  /\ Last(s) \in S /\ Last(s) \in ToSet(s)
           /\ Front(s) \in Seq(S) /\ IsInjective(Front(s))
           /\ ToSet(Front(s)) = ToSet(s) \ {Last(s)}
           /\ Len(s) = 1 <=> Front(s) = <<>>
<1> DEFINE n == Len(s)
<1>1. n \in Nat \ {0} /\ DOMAIN s = 1 .. n
  BY EmptySeq
<1>2. n \in DOMAIN s /\ s[n] \in S
  BY <1>1
<1>3. Front(s) = RemoveAt(s, n)
  <2>1. \A i \in 1 .. n - 1 : s[i] \in S
    BY <1>1
  <2>2. SubSeq(s, 1, n - 1) \in Seq(S)
    BY <1>1, <2>1, SubSeqProperties
  <2>3. SubSeq(s, n + 1, n) = <<>>
    BY <1>1
  <2> DEFINE f == SubSeq(s, 1, n - 1)
  <2>4. Front(s) = f
    BY DEF Front
  <2>5. RemoveAt(s, n) = f \o <<>>
    BY <2>3 DEF RemoveAt
  <2> HIDE DEF f
  <2> QED
    BY <2>2, <2>4, <2>5, ConcatEmptySeq DEF f
<1>4. /\ Front(s) \in Seq(S) /\ IsInjective(Front(s))
      /\ ToSet(Front(s)) = ToSet(s) \ {s[n]}
  BY <1>2, <1>3, RemoveAtToSet
<1>5. Len(Front(s)) = n - 1
  BY <1>1, <1>2, <1>3, RemoveAtElements
<1>6. Len(Front(s)) = 0 <=> Front(s) = <<>>
  BY <1>4, EmptySeq
<1>7. Last(s) = s[n] /\ s[n] \in ToSet(s)
  BY <1>2 DEF Last, ToSet
<1>8. Len(s) = 1 <=> Front(s) = <<>>
  BY <1>1, <1>5, <1>6
<1> HIDE DEF n
<1> QED
  BY <1>2, <1>4, <1>7, <1>8

-----------------------------------------------------------------------------
(* Induction up to n, for the set Q of the numbers reached *)

LEMMA StepByStep ==
    ASSUME NEW n \in Nat, NEW Q, 0 \in Q, \A i \in 1 .. n : i - 1 \in Q => i \in Q
    PROVE  n \in Q
<1> DEFINE I == {i \in 0 .. n : i \notin Q}
<1> SUFFICES ASSUME I # {} PROVE FALSE
  OBVIOUS
<1>1. PICK m \in I : \A k \in I : m <= k
  <2>1. I \in SUBSET Nat
    OBVIOUS
  <2> HIDE DEF I
  <2> QED
    BY <2>1, LeastElement
<1>2. m \in 1 .. n /\ m - 1 \in 0 .. n /\ ~(m <= m - 1)
  OBVIOUS
<1>3. m - 1 \in Q
  BY <1>1, <1>2
<1> QED
  BY <1>2, <1>3

\* FoldLeft() takes the elements of a sequence off from the end.
LEMMA MaxUpTo ==
    ASSUME NEW i \in Nat \ {0}
    PROVE  Max(1 .. i) = i /\ (1 .. i) \ {i} = 1 .. i - 1 /\ 1 .. i # {}
<1>1. i \in 1 .. i /\ \A y \in 1 .. i : i >= y
  OBVIOUS
<1>2. \A x \in 1 .. i : (\A y \in 1 .. i : x >= y) => x = i
  BY <1>1
<1>3. Max(1 .. i) = i
  BY <1>1, <1>2 DEF Max
<1> QED
  BY <1>1, <1>3

LEMMA MaxIn ==
    ASSUME NEW n \in Nat, NEW u \in SUBSET (1 .. n), u # {}
    PROVE  Max(u) \in u /\ \A y \in u : Max(u) >= y
<1> DEFINE I == {n - y : y \in u}
<1>1. I \in SUBSET Nat /\ I # {}
  <2>1. \A y \in u : y \in 1 .. n
    OBVIOUS
  <2>2. \A y \in 1 .. n : n - y \in Nat
    OBVIOUS
  <2>3. \A y \in u : n - y \in Nat
    BY <2>1, <2>2
  <2> QED
    BY <2>3, Zenon
<1>2. PICK m \in I : \A k \in I : m <= k
  <2> HIDE DEF I
  <2> QED
    BY <1>1, LeastElement
<1>3. n - m \in u /\ \A y \in u : n - m >= y
  BY <1>2
<1> QED
  BY <1>3 DEF Max

\* One step of the recursion of FoldLeft(), for an operator that is a function F.
FoldsOn(f, F, b, q, u) ==
    f[u] = IF u = {} THEN b ELSE F[<<f[u \ {Max(u)}], q[Max(u)]>>]

FoldInput(T, E, F, b, n, q) ==
    F \in [T \X E -> T] /\ b \in T /\ n \in Nat /\ q \in [1 .. n -> E]
FoldExists(T, F, b, n, q) ==
    \E f \in [SUBSET (1 .. n) -> T] : \A u \in SUBSET (1 .. n) : FoldsOn(f, F, b, q, u)

\* The recursion of FoldLeft() has a solution.
LEMMA FoldSolved ==
    ASSUME NEW T, NEW E, NEW F, NEW b, NEW n, NEW q, FoldInput(T, E, F, b, n, q)
    PROVE  FoldExists(T, F, b, n, q)
<1> USE DEF FoldInput
<1> DEFINE Solves(f, m) == /\ f \in [SUBSET (1 .. m) -> T]
                           /\ \A u \in SUBSET (1 .. m) : FoldsOn(f, F, b, q, u)
           Q == {m \in 0 .. n : \E f : Solves(f, m)}
<1>1. 0 \in Q
  <2> DEFINE f == [u \in SUBSET (1 .. 0) |-> b]
  <2>1. 1 .. 0 = {} /\ SUBSET (1 .. 0) = {{}}
    OBVIOUS
  <2>2. f \in [SUBSET (1 .. 0) -> T] /\ \A u \in SUBSET (1 .. 0) : u = {} /\ f[u] = b
    BY <2>1
  <2> HIDE DEF f
  <2>3. Solves(f, 0)
    BY <2>2 DEF FoldsOn
  <2> HIDE DEF Solves
  <2> QED
    BY <2>3
<1>2. ASSUME NEW m \in 1 .. n, m - 1 \in Q
      PROVE  m \in Q
  <2>1. PICK f : Solves(f, m - 1)
    <3> HIDE DEF Solves
    <3> QED
      BY <1>2
  <2> DEFINE g == [u \in SUBSET (1 .. m) |->
                     IF m \in u THEN F[<<f[u \ {m}], q[m]>>] ELSE f[u]]
  <2>2. ASSUME NEW u \in SUBSET (1 .. m)
        PROVE  /\ m \notin u => u \in SUBSET (1 .. m - 1)
               /\ u \ {m} \in SUBSET (1 .. m - 1) /\ u \ {m} \in SUBSET (1 .. m)
               /\ m \in u => Max(u) = m
    <3>1. m \in u => Max(u) = m
      <4> SUFFICES ASSUME m \in u PROVE Max(u) = m
        OBVIOUS
      <4>1. m \in Nat /\ u # {} /\ \A y \in u : y \in 1 .. m
        OBVIOUS
      <4>2. Max(u) \in u /\ \A y \in u : Max(u) >= y
        BY <4>1, MaxIn
      <4>3. \A x \in 1 .. m : x >= m => x = m
        OBVIOUS
      <4> QED
        BY <4>1, <4>2, <4>3
    <3> QED
      BY <3>1
  <2>3. g \in [SUBSET (1 .. m) -> T]
    <3> SUFFICES ASSUME NEW u \in SUBSET (1 .. m)
                 PROVE  (IF m \in u THEN F[<<f[u \ {m}], q[m]>>] ELSE f[u]) \in T
      OBVIOUS
    <3>1. f[u \ {m}] \in T /\ (m \notin u => f[u] \in T) /\ q[m] \in E
      BY <2>1, <2>2
    <3>2. <<f[u \ {m}], q[m]>> \in T \X E
      BY <3>1
    <3> QED
      BY <3>1, <3>2
  <2>4. ASSUME NEW u \in SUBSET (1 .. m)
        PROVE  FoldsOn(g, F, b, q, u)
    <3>1. CASE m \in u
      <4>1. Max(u) = m /\ u # {} /\ g[u] = F[<<f[u \ {m}], q[m]>>] /\ g[u \ {m}] = f[u \ {m}]
        BY <2>2, <3>1
      <4> QED
        BY <4>1 DEF FoldsOn
    <3>2. CASE m \notin u
      <4>1. u \in SUBSET (1 .. m - 1) /\ g[u] = f[u]
        BY <2>2, <3>2
      <4>2. FoldsOn(f, F, b, q, u)
        BY <2>1, <4>1
      <4>3. u # {} => g[u \ {Max(u)}] = f[u \ {Max(u)}]
        <5>1. u \ {Max(u)} \in SUBSET (1 .. m) /\ m \notin u \ {Max(u)}
          BY <3>2
        <5> QED
          BY <5>1
      <4> HIDE DEF g
      <4> QED
        BY <4>1, <4>2, <4>3 DEF FoldsOn
    <3> QED
      BY <3>1, <3>2
  <2> HIDE DEF g
  <2>5. Solves(g, m)
    BY <2>3, <2>4
  <2> HIDE DEF Solves
  <2> QED
    BY <2>5
<1>3. n \in Q
  <2> HIDE DEF Q
  <2> QED
    BY <1>1, <1>2, StepByStep
<1> QED
  BY <1>3 DEF FoldExists

=============================================================================
