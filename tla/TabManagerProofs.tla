--------------------------- MODULE TabManagerProofs ---------------------------
(***************************************************************************)
(* Type correctness and the structural invariant of TabManager, and what a *)
(* step may never do: move the focus anywhere but to a neighbour, change   *)
(* the order of tabs nobody moved, or reopen another closed tab than the   *)
(* newest of its window.  For every set of window ids, tab ids and pages   *)
(* and every ring size.                                                    *)
(***************************************************************************)
EXTENDS TabManager, SequencesExt, SequenceTheorems, WellFoundedInduction, TLAPS

(***************************************************************************)
(* What the list operations of the community modules do to the length, the *)
(* elements and the injectivity of a list                                  *)
(***************************************************************************)

\* An element at a position of a list is one of its elements.
LEMMA ElementInRange ==
  ASSUME NEW S, NEW s \in Seq(S), NEW i \in 1 .. Len(s)
  PROVE  s[i] \in ToSet(s) /\ i \in DOMAIN s
BY SMT DEF ToSet

\* An element of a list is at one of its positions.
LEMMA RangeIndex ==
  ASSUME NEW S, NEW s \in Seq(S), NEW x
  PROVE  x \in ToSet(s) <=> \E i \in 1 .. Len(s) : s[i] = x
BY SMT DEF ToSet

\* Length and elements of a contiguous part of a list.
LEMMA SubSeqElements ==
  ASSUME NEW S, NEW s \in Seq(S), NEW m \in 1 .. Len(s) + 1, NEW n \in 0 .. Len(s)
  PROVE  /\ SubSeq(s, m, n) \in Seq(S)
         /\ Len(SubSeq(s, m, n)) = IF m <= n THEN n - m + 1 ELSE 0
         /\ \A i \in 1 .. Len(SubSeq(s, m, n)) : SubSeq(s, m, n)[i] = s[m + i - 1]
<1>1. \A i \in m .. n : s[i] \in S
  BY SMT
<1>2. /\ SubSeq(s, m, n) \in Seq(S)
      /\ Len(SubSeq(s, m, n)) = IF m <= n THEN n - m + 1 ELSE 0
      /\ \A i \in 1 .. n - m + 1 : SubSeq(s, m, n)[i] = s[m + i - 1]
  <2>1. m \in Int /\ n \in Int
    BY SMT
  <2>2. QED
    BY <1>1, <2>1, SubSeqProperties
<1>3. QED
  BY <1>2, SMT

\* Length and elements of two lists in a row.
LEMMA ConcatElements ==
  ASSUME NEW S, NEW s \in Seq(S), NEW t \in Seq(S)
  PROVE  /\ s \o t \in Seq(S)
         /\ Len(s \o t) = Len(s) + Len(t)
         /\ \A i \in 1 .. Len(s) + Len(t) :
              (s \o t)[i] = IF i <= Len(s) THEN s[i] ELSE t[i - Len(s)]
BY ConcatProperties, SMT

\* Vec::remove: the elements behind the position move up.
LEMMA RemoveAtElements ==
  ASSUME NEW S, NEW s \in Seq(S), NEW i \in 1 .. Len(s)
  PROVE  /\ RemoveAt(s, i) \in Seq(S)
         /\ Len(RemoveAt(s, i)) = Len(s) - 1
         /\ \A j \in 1 .. Len(s) - 1 :
              RemoveAt(s, i)[j] = IF j < i THEN s[j] ELSE s[j + 1]
<1> DEFINE a == SubSeq(s, 1, i - 1)
           b == SubSeq(s, i + 1, Len(s))
<1>1. /\ a \in Seq(S) /\ Len(a) = i - 1
      /\ \A j \in 1 .. i - 1 : a[j] = s[j]
  <2>1. 1 \in 1 .. Len(s) + 1 /\ i - 1 \in 0 .. Len(s)
    BY SMT
  <2>2. /\ a \in Seq(S) /\ Len(a) = IF 1 <= i - 1 THEN i - 1 - 1 + 1 ELSE 0
        /\ \A j \in 1 .. Len(a) : a[j] = s[1 + j - 1]
    BY <2>1, SubSeqElements
  <2>3. QED
    BY <2>2, SMT
<1>2. /\ b \in Seq(S) /\ Len(b) = Len(s) - i
      /\ \A j \in 1 .. Len(s) - i : b[j] = s[i + j]
  <2>1. i + 1 \in 1 .. Len(s) + 1 /\ Len(s) \in 0 .. Len(s)
    BY SMT
  <2>2. /\ b \in Seq(S) /\ Len(b) = IF i + 1 <= Len(s) THEN Len(s) - (i + 1) + 1 ELSE 0
        /\ \A j \in 1 .. Len(b) : b[j] = s[(i + 1) + j - 1]
    BY <2>1, SubSeqElements
  <2>3. QED
    BY <2>2, SMT
<1>3. /\ a \o b \in Seq(S)
      /\ Len(a \o b) = Len(a) + Len(b)
      /\ \A j \in 1 .. Len(a) + Len(b) :
           (a \o b)[j] = IF j <= Len(a) THEN a[j] ELSE b[j - Len(a)]
  BY <1>1, <1>2, ConcatElements
<1>4. RemoveAt(s, i) = a \o b
  BY DEF RemoveAt
<1> DEFINE r == a \o b
<1>5. /\ r \in Seq(S) /\ Len(r) = Len(s) - 1
      /\ \A j \in 1 .. Len(s) - 1 : r[j] = IF j <= i - 1 THEN a[j] ELSE b[j - (i - 1)]
  <2> HIDE DEF a, b, r
  <2>1. /\ r \in Seq(S)
        /\ Len(r) = Len(a) + Len(b)
        /\ \A j \in 1 .. Len(a) + Len(b) : r[j] = IF j <= Len(a) THEN a[j] ELSE b[j - Len(a)]
    BY <1>3 DEF r
  <2>2. Len(a) = i - 1 /\ Len(a) + Len(b) = Len(s) - 1
    <3>1. Len(a) = i - 1 /\ Len(b) = Len(s) - i /\ Len(s) \in Nat
      BY <1>1, <1>2, LenProperties
    <3>2. QED
      BY <3>1, SMT
  <2>3. QED
    BY <2>1, <2>2
<1>6. RemoveAt(s, i) = r
  BY <1>4
<1> HIDE DEF a, b, r
<1>7. \A j \in 1 .. Len(s) - 1 : r[j] = IF j < i THEN s[j] ELSE s[j + 1]
  <2>1. TAKE j \in 1 .. Len(s) - 1
  <2>2. r[j] = IF j <= i - 1 THEN a[j] ELSE b[j - (i - 1)]
    BY <1>5
  <2>3. CASE j < i
    <3>1. j <= i - 1 /\ j \in 1 .. i - 1
      BY <2>3, SMT
    <3>2. QED
      BY <1>1, <2>2, <2>3, <3>1
  <2>4. CASE ~(j < i)
    <3>1. ~(j <= i - 1) /\ j - (i - 1) \in 1 .. Len(s) - i /\ i + (j - (i - 1)) = j + 1
      BY <2>4, SMT
    <3>2. QED
      BY <1>2, <2>2, <2>4, <3>1
  <2>5. QED
    BY <2>3, <2>4
<1>8. QED
  BY <1>5, <1>6, <1>7

\* Vec::insert: the elements from the position on move down.
LEMMA InsertAtElements ==
  ASSUME NEW S, NEW s \in Seq(S), NEW e \in S, NEW i \in 1 .. Len(s) + 1
  PROVE  /\ InsertAt(s, i, e) \in Seq(S)
         /\ Len(InsertAt(s, i, e)) = Len(s) + 1
         /\ \A j \in 1 .. i - 1 : InsertAt(s, i, e)[j] = s[j]
         /\ InsertAt(s, i, e)[i] = e
         /\ \A j \in i .. Len(s) : InsertAt(s, i, e)[j + 1] = s[j]
<1> DEFINE a == SubSeq(s, 1, i - 1)
           b == SubSeq(s, i, Len(s))
           c == a \o <<e>>
<1>1. /\ a \in Seq(S) /\ Len(a) = i - 1
      /\ \A j \in 1 .. i - 1 : a[j] = s[j]
  <2>1. 1 \in 1 .. Len(s) + 1 /\ i - 1 \in 0 .. Len(s)
    BY SMT
  <2>2. /\ a \in Seq(S) /\ Len(a) = IF 1 <= i - 1 THEN i - 1 - 1 + 1 ELSE 0
        /\ \A j \in 1 .. Len(a) : a[j] = s[1 + j - 1]
    BY <2>1, SubSeqElements
  <2>3. QED
    BY <2>2, SMT
<1>2. /\ b \in Seq(S) /\ Len(b) = Len(s) - i + 1
      /\ \A j \in 1 .. Len(s) - i + 1 : b[j] = s[i + j - 1]
  <2>1. i \in 1 .. Len(s) + 1 /\ Len(s) \in 0 .. Len(s)
    BY SMT
  <2>2. /\ b \in Seq(S) /\ Len(b) = IF i <= Len(s) THEN Len(s) - i + 1 ELSE 0
        /\ \A j \in 1 .. Len(b) : b[j] = s[i + j - 1]
    BY <2>1, SubSeqElements
  <2>3. QED
    BY <2>2, SMT
<1>3. <<e>> \in Seq(S) /\ Len(<<e>>) = 1 /\ <<e>>[1] = e
  BY SMT
<1>4. /\ c \in Seq(S)
      /\ Len(c) = Len(a) + Len(<<e>>)
      /\ \A j \in 1 .. Len(a) + Len(<<e>>) :
           c[j] = IF j <= Len(a) THEN a[j] ELSE <<e>>[j - Len(a)]
  BY <1>1, <1>3, ConcatElements
<1>5. /\ Len(c) = i
      /\ \A j \in 1 .. i : c[j] = IF j < i THEN s[j] ELSE e
  <2> DEFINE d == <<e>>
  <2>1. Len(d) = 1 /\ d[1] = e
    BY <1>3
  <2> HIDE DEF a, c, d
  <2>2. /\ Len(c) = Len(a) + Len(d)
        /\ \A j \in 1 .. Len(a) + Len(d) :
             c[j] = IF j <= Len(a) THEN a[j] ELSE d[j - Len(a)]
    BY <1>4 DEF d
  <2>3. QED
    BY <1>1, <2>1, <2>2, SMT
<1>6. /\ c \o b \in Seq(S)
      /\ Len(c \o b) = Len(c) + Len(b)
      /\ \A j \in 1 .. Len(c) + Len(b) :
           (c \o b)[j] = IF j <= Len(c) THEN c[j] ELSE b[j - Len(c)]
  <2> HIDE DEF b, c
  <2>1. b \in Seq(S) /\ c \in Seq(S)
    BY <1>2, <1>4
  <2>2. QED
    BY <2>1, ConcatElements
<1> DEFINE r == c \o b
<1>7. InsertAt(s, i, e) = r
  BY DEF InsertAt
<1>8. /\ r \in Seq(S) /\ Len(r) = Len(s) + 1
      /\ \A j \in 1 .. Len(s) + 1 : r[j] = IF j <= i THEN c[j] ELSE b[j - i]
  <2> HIDE DEF b, c, r
  <2>1. /\ r \in Seq(S)
        /\ Len(r) = Len(c) + Len(b)
        /\ \A j \in 1 .. Len(c) + Len(b) : r[j] = IF j <= Len(c) THEN c[j] ELSE b[j - Len(c)]
    BY <1>6 DEF r
  <2>2. QED
    BY <1>2, <1>5, <2>1, SMT
<1> HIDE DEF a, b, c, r
<1>9. \A j \in 1 .. i - 1 : r[j] = s[j]
  BY <1>5, <1>8, SMT
<1>10. r[i] = e
  BY <1>5, <1>8, SMT
<1>11. ASSUME NEW j \in i .. Len(s)
       PROVE  r[j + 1] = s[j]
  <2>1. j + 1 - i \in 1 .. Len(s) - i + 1 /\ r[j + 1] = b[j + 1 - i]
    BY <1>8, SMT
  <2>2. r[j + 1] = s[i + (j + 1 - i) - 1]
    BY <1>2, <2>1
  <2>3. QED
    BY <2>2, SMT
<1>12. QED
  BY <1>7, <1>8, <1>9, <1>10, <1>11

\* A list without the one place that held x holds exactly the other elements.
LEMMA RemoveAtRange ==
  ASSUME NEW S, NEW s \in Seq(S), IsInjective(s), NEW i \in 1 .. Len(s)
  PROVE  /\ ToSet(RemoveAt(s, i)) = ToSet(s) \ {s[i]}
         /\ IsInjective(RemoveAt(s, i))
<1> DEFINE r == RemoveAt(s, i)
<1>1. /\ r \in Seq(S)
      /\ Len(r) = Len(s) - 1
      /\ \A j \in 1 .. Len(s) - 1 : r[j] = IF j < i THEN s[j] ELSE s[j + 1]
  BY RemoveAtElements
<1> HIDE DEF r
<1>2. \A j, k \in 1 .. Len(s) : s[j] = s[k] => j = k
  BY SMT DEF IsInjective
<1>3. IsInjective(r)
  BY <1>1, <1>2, SMT DEF IsInjective
<1>4. \A x : x \in ToSet(r) <=> x \in ToSet(s) /\ x # s[i]
  <2>1. SUFFICES ASSUME NEW x
                 PROVE  x \in ToSet(r) <=> x \in ToSet(s) /\ x # s[i]
    OBVIOUS
  <2>2. x \in ToSet(r) <=> \E j \in 1 .. Len(r) : r[j] = x
    BY <1>1, RangeIndex
  <2>3. x \in ToSet(s) <=> \E j \in 1 .. Len(s) : s[j] = x
    BY RangeIndex
  <2>4. ASSUME NEW j \in 1 .. Len(r), r[j] = x
        PROVE  x \in ToSet(s) /\ x # s[i]
    BY <1>1, <1>2, <2>3, <2>4, SMT
  <2>5. ASSUME NEW j \in 1 .. Len(s), s[j] = x, x # s[i]
        PROVE  \E k \in 1 .. Len(r) : r[k] = x
    <3>1. CASE j < i
      <4>1. j \in 1 .. Len(r) /\ r[j] = x
        BY <1>1, <2>5, <3>1, SMT
      <4>2. QED
        BY <4>1
    <3>2. CASE j > i
      <4>1. j - 1 \in 1 .. Len(r) /\ r[j - 1] = x
        BY <1>1, <2>5, <3>2, SMT
      <4>2. QED
        BY <4>1
    <3>3. QED
      BY <2>5, <3>1, <3>2, SMT
  <2>6. QED
    BY <2>2, <2>3, <2>4, <2>5
<1>5. QED
  BY <1>3, <1>4 DEF r

\* A list with an element that it did not hold inserted stays injective.
LEMMA InsertAtRange ==
  ASSUME NEW S, NEW s \in Seq(S), IsInjective(s), NEW e \in S, e \notin ToSet(s),
         NEW i \in 1 .. Len(s) + 1
  PROVE  /\ ToSet(InsertAt(s, i, e)) = ToSet(s) \cup {e}
         /\ IsInjective(InsertAt(s, i, e))
<1> DEFINE r == InsertAt(s, i, e)
<1>1. /\ r \in Seq(S)
      /\ Len(r) = Len(s) + 1
      /\ \A j \in 1 .. i - 1 : r[j] = s[j]
      /\ r[i] = e
      /\ \A j \in i .. Len(s) : r[j + 1] = s[j]
  BY InsertAtElements
<1> HIDE DEF r
<1>2. /\ \A j, k \in 1 .. Len(s) : s[j] = s[k] => j = k
      /\ \A j \in 1 .. Len(s) : s[j] # e
  BY RangeIndex, SMT DEF IsInjective
<1> DEFINE at(j) == IF j < i THEN j ELSE j - 1
<1>a. \A j \in 1 .. Len(s) + 1 : j # i => at(j) \in 1 .. Len(s) /\ r[j] = s[at(j)]
  <2>1. SUFFICES ASSUME NEW j \in 1 .. Len(s) + 1, j # i
                 PROVE  at(j) \in 1 .. Len(s) /\ r[j] = s[at(j)]
    OBVIOUS
  <2>2. CASE j < i
    BY <1>1, <2>1, <2>2, SMT
  <2>3. CASE j > i
    <3>1. j - 1 \in i .. Len(s) /\ (j - 1) + 1 = j
      BY <2>1, <2>3, SMT
    <3>2. r[(j - 1) + 1] = s[j - 1]
      BY <1>1, <3>1
    <3>3. QED
      BY <2>3, <3>1, <3>2, SMT
  <2>4. QED
    BY <2>1, <2>2, <2>3, SMT
<1> HIDE DEF at
<1>3. IsInjective(r)
  <2>1. SUFFICES ASSUME NEW j \in 1 .. Len(s) + 1, NEW k \in 1 .. Len(s) + 1, r[j] = r[k]
                 PROVE  j = k
    BY <1>1 DEF IsInjective
  <2>2. CASE j = i \/ k = i
    BY <1>1, <1>2, <1>a, <2>1, <2>2
  <2>3. CASE j # i /\ k # i
    <3>1. at(j) = at(k)
      BY <1>2, <1>a, <2>1, <2>3
    <3>2. QED
      BY <2>3, <3>1, SMT DEF at
  <2>4. QED
    BY <2>2, <2>3
<1>4. \A x : x \in ToSet(r) <=> x \in ToSet(s) \/ x = e
  <2>1. SUFFICES ASSUME NEW x
                 PROVE  x \in ToSet(r) <=> x \in ToSet(s) \/ x = e
    OBVIOUS
  <2>2. x \in ToSet(r) <=> \E j \in 1 .. Len(r) : r[j] = x
    BY <1>1, RangeIndex
  <2>3. x \in ToSet(s) <=> \E j \in 1 .. Len(s) : s[j] = x
    BY RangeIndex
  <2>4. ASSUME NEW j \in 1 .. Len(r), r[j] = x
        PROVE  x \in ToSet(s) \/ x = e
    BY <1>1, <1>a, <2>3, <2>4
  <2>5. ASSUME NEW j \in 1 .. Len(s), s[j] = x
        PROVE  \E k \in 1 .. Len(r) : r[k] = x
    <3>1. CASE j < i
      <4>1. j \in 1 .. Len(r) /\ r[j] = x
        BY <1>1, <2>5, <3>1, SMT
      <4>2. QED
        BY <4>1
    <3>2. CASE j >= i
      <4>1. j + 1 \in 1 .. Len(r) /\ r[j + 1] = x
        BY <1>1, <2>5, <3>2, SMT
      <4>2. QED
        BY <4>1
    <3>3. QED
      BY <2>5, <3>1, <3>2, SMT
  <2>6. i \in 1 .. Len(r) /\ r[i] = e
    BY <1>1, SMT
  <2>7. QED
    BY <2>2, <2>3, <2>4, <2>5, <2>6
<1>5. QED
  BY <1>3, <1>4 DEF r

\* A list with an element it did not hold appended stays injective.
LEMMA AppendRange ==
  ASSUME NEW S, NEW s \in Seq(S), NEW e \in S
  PROVE  /\ Append(s, e) \in Seq(S)
         /\ Len(Append(s, e)) = Len(s) + 1
         /\ ToSet(Append(s, e)) = ToSet(s) \cup {e}
         /\ IsInjective(s) /\ e \notin ToSet(s) => IsInjective(Append(s, e))
<1> DEFINE r == Append(s, e)
<1>1. /\ r \in Seq(S) /\ Len(r) = Len(s) + 1
      /\ \A j \in 1 .. Len(s) : r[j] = s[j]
      /\ r[Len(s) + 1] = e
  BY AppendProperties
<1> HIDE DEF r
<1>2. \A x : x \in ToSet(r) <=> \E j \in 1 .. Len(r) : r[j] = x
  BY <1>1, RangeIndex
<1>3. \A x : x \in ToSet(s) <=> \E j \in 1 .. Len(s) : s[j] = x
  BY RangeIndex
<1>4. \A x : x \in ToSet(r) <=> x \in ToSet(s) \/ x = e
  BY <1>1, <1>2, <1>3, SMT
<1>5. ASSUME IsInjective(s), e \notin ToSet(s)
      PROVE  IsInjective(r)
  BY <1>1, <1>3, <1>5, SMT DEF IsInjective
<1>6. QED
  BY <1>1, <1>4, <1>5 DEF r

(***************************************************************************)
(* The list helpers of the module                                          *)
(***************************************************************************)

\* Vec::iter().position finds an element that the list holds.
LEMMA IndexOfElement ==
  ASSUME NEW S, NEW s \in Seq(S), NEW x \in ToSet(s)
  PROVE  IndexOf(s, x) \in 1 .. Len(s) /\ s[IndexOf(s, x)] = x
<1>1. \E i \in DOMAIN s : s[i] = x
  BY DEF ToSet
<1>2. IndexOf(s, x) \in DOMAIN s /\ s[IndexOf(s, x)] = x
  BY <1>1 DEF IndexOf
<1>3. QED
  BY <1>2, LenProperties

\* Taking an element out of a list without duplicates leaves the others.
LEMMA WithoutElement ==
  ASSUME NEW S, NEW s \in Seq(S), IsInjective(s), NEW x \in ToSet(s)
  PROVE  /\ Without(s, x) \in Seq(S)
         /\ Len(Without(s, x)) = Len(s) - 1
         /\ ToSet(Without(s, x)) = ToSet(s) \ {x}
         /\ IsInjective(Without(s, x))
BY IndexOfElement, RemoveAtElements, RemoveAtRange DEF Without

\* An insertion at a clamped position adds one element and no duplicate.
LEMMA InsertClampedElement ==
  ASSUME NEW S, NEW s \in Seq(S), IsInjective(s), NEW x \in S, x \notin ToSet(s),
         NEW n \in Nat
  PROVE  /\ InsertClamped(s, n, x) \in Seq(S)
         /\ Len(InsertClamped(s, n, x)) = Len(s) + 1
         /\ ToSet(InsertClamped(s, n, x)) = ToSet(s) \cup {x}
         /\ IsInjective(InsertClamped(s, n, x))
<1> DEFINE i == (IF n < Len(s) THEN n ELSE Len(s)) + 1
<1>1. i \in 1 .. Len(s) + 1
  BY LenProperties, SMT
<1>2. InsertClamped(s, n, x) = InsertAt(s, i, x)
  BY DEF InsertClamped
<1> HIDE DEF i
<1>3. QED
  BY <1>1, <1>2, InsertAtElements, InsertAtRange

\* The newest n of a list are n of its elements, or all of them.
LEMMA NewestElements ==
  ASSUME NEW S, NEW s \in Seq(S), NEW n \in Nat \ {0}
  PROVE  /\ Newest(s, n) \in Seq(S)
         /\ Len(Newest(s, n)) = IF Len(s) > n THEN n ELSE Len(s)
         /\ Len(Newest(s, n)) <= n
<1>1. Len(s) \in Nat
  BY LenProperties
<1>2. CASE Len(s) > n
  <2>1. Len(s) - n + 1 \in 1 .. Len(s) + 1 /\ Len(s) \in 0 .. Len(s)
    BY <1>1, <1>2, SMT
  <2>2. /\ SubSeq(s, Len(s) - n + 1, Len(s)) \in Seq(S)
        /\ Len(SubSeq(s, Len(s) - n + 1, Len(s))) =
             IF Len(s) - n + 1 <= Len(s) THEN Len(s) - (Len(s) - n + 1) + 1 ELSE 0
    BY <2>1, SubSeqElements
  <2>3. QED
    BY <1>1, <1>2, <2>2, SMT DEF Newest
<1>3. CASE ~(Len(s) > n)
  BY <1>1, <1>3, SMT DEF Newest
<1>4. QED
  BY <1>2, <1>3

\* A list without duplicates that has one element has no other.
LEMMA SingletonList ==
  ASSUME NEW S, NEW s \in Seq(S), NEW x \in ToSet(s), Len(s) = 1
  PROVE  ToSet(s) = {x}
BY RangeIndex, SMT

\* A list with an element is not the empty list.
LEMMA NonEmptyList ==
  ASSUME NEW S, NEW s \in Seq(S)
  PROVE  /\ s # <<>> <=> Len(s) > 0
         /\ s # <<>> <=> ToSet(s) # {}
<1>1. s # <<>> <=> Len(s) > 0
  BY EmptySeq, LenProperties, SMT
<1>2. Len(s) > 0 => s[1] \in ToSet(s)
  BY LenProperties, ElementInRange, SMT
<1>3. ToSet(s) # {} => Len(s) > 0
  BY RangeIndex, LenProperties, SMT
<1>4. QED
  BY <1>1, <1>2, <1>3

\* A nonempty set of positions has a greatest one.
LEMMA MaxOfInterval ==
  ASSUME NEW n \in Nat, NEW P \in SUBSET (1 .. n), P # {}
  PROVE  \E x \in P : \A y \in P : x >= y
<1> DEFINE R == OpToRel(<, Nat)
           down == {k \in Nat : n - k \in P}
<1>1. down \subseteq Nat /\ down # {}
  <2>1. PICK x \in P : TRUE
    OBVIOUS
  <2>2. n - x \in Nat /\ n - (n - x) = x
    BY <2>1, SMT
  <2>3. QED
    BY <2>1, <2>2
<1>2. PICK m \in down : \A k \in down : <<k, m>> \notin R
  <2> HIDE DEF R, down
  <2>1. QED
    BY <1>1, WFMin, NatLessThanWellFounded DEF R
<1>3. \A k \in down : ~(k < m)
  BY <1>1, <1>2 DEF OpToRel
<1>4. ASSUME NEW y \in P
      PROVE  n - m >= y
  <2>1. n - y \in Nat /\ n - (n - y) = y
    BY SMT
  <2>2. n - y \in down
    BY <2>1
  <2>3. ~(n - y < m) /\ m \in Nat
    BY <1>3, <2>2
  <2>4. QED
    BY <2>3, SMT
<1>5. QED
  BY <1>2, <1>4

(***************************************************************************)
(* Windows                                                                 *)
(***************************************************************************)

\* A window whose list has no duplicates and holds its active tab.
WindowOK(window) ==
  /\ window \in Window
  /\ window.tab_ids # <<>>
  /\ IsInjective(window.tab_ids)
  /\ window.active_tab_id \in ToSet(window.tab_ids)

\* Focus after a detach stays inside the window.
LEMMA DetachedWindow ==
  ASSUME NEW window, WindowOK(window), NEW t \in ToSet(window.tab_ids),
         Len(window.tab_ids) # 1
  PROVE  /\ WindowOK(Detached(window, t))
         /\ ToSet(Detached(window, t).tab_ids) = ToSet(window.tab_ids) \ {t}
<1> DEFINE list == window.tab_ids
           rest == Without(list, t)
           idx  == IndexOf(list, t)
           next == IF idx < Len(rest) THEN idx ELSE Len(rest)
           focus == IF window.active_tab_id = t THEN rest[next] ELSE window.active_tab_id
<1>1. /\ list \in Seq(TabId) /\ window.active_tab_id \in TabId
      /\ list # <<>> /\ IsInjective(list)
      /\ window.active_tab_id \in ToSet(list)
  BY DEF WindowOK, Window
<1>2. /\ rest \in Seq(TabId) /\ Len(rest) = Len(list) - 1
      /\ ToSet(rest) = ToSet(list) \ {t} /\ IsInjective(rest)
  BY <1>1, WithoutElement
<1>3. idx \in 1 .. Len(list)
  BY <1>1, IndexOfElement
<1>4. Len(list) \in Nat /\ Len(list) > 1
  <2>1. Len(list) \in Nat
    BY <1>1, LenProperties
  <2>2. Len(list) > 0
    BY <1>1, NonEmptyList
  <2>3. Len(list) # 1
    OBVIOUS
  <2>4. \A n \in Nat : n > 0 /\ n # 1 => n > 1
    BY SMT
  <2>5. QED
    BY <2>1, <2>2, <2>3, <2>4
<1>5. next \in 1 .. Len(rest)
  <2> HIDE DEF list, rest, idx
  <2>1. QED
    BY <1>2, <1>3, <1>4, SMT
<1>6. Detached(window, t) = [tab_ids |-> rest, active_tab_id |-> focus]
  BY DEF Detached
<1>7. rest[next] \in ToSet(rest) /\ rest[next] \in TabId
  BY <1>2, <1>5, ElementInRange, ElementOfSeq
<1> HIDE DEF list, rest, idx, next
<1>8. focus \in ToSet(rest) /\ focus \in TabId
  BY <1>1, <1>2, <1>7
<1>9. rest # <<>>
  BY <1>2, <1>7, NonEmptyList
<1> HIDE DEF focus
<1>10. QED
  BY <1>2, <1>6, <1>8, <1>9 DEF WindowOK, Window, list

\* What StructureOK says of one window.
LEMMA EachWindowOK ==
  ASSUME TypeOK, StructureOK, NEW w \in DOMAIN windows
  PROVE  WindowOK(windows[w])
BY DEF TypeOK, StructureOK, WindowsNonEmpty, ActiveIsMember, ListsAreSets,
       WindowOK, TabsOf

\* A tab lies in the list of its window.
LEMMA TabInItsWindow ==
  ASSUME TypeOK, StructureOK, NEW t \in DOMAIN tabs
  PROVE  /\ tabs[t] \in Tab
         /\ tabs[t].window_id \in DOMAIN windows
         /\ t \in ToSet(windows[tabs[t].window_id].tab_ids)
         /\ t \in TabId
BY DEF TypeOK, StructureOK, NoOrphans, TabsOf

(***************************************************************************)
(* The invariant                                                           *)
(***************************************************************************)

\* The inductive invariant in the form the steps use: it follows from the
\* parts and gives them back.
Structure ==
  /\ \A w \in DOMAIN windows : WindowOK(windows[w])
  /\ \A w \in DOMAIN windows : \A t :
       t \in ToSet(windows[w].tab_ids) <=> t \in DOMAIN tabs /\ tabs[t].window_id = w
  /\ \A t \in DOMAIN tabs : tabs[t].window_id \in DOMAIN windows
  /\ IsInjective(windowOrder)
  /\ ToSet(windowOrder) = DOMAIN windows

\* On well-typed states the flat form says what StructureOK says.
LEMMA StructureEquiv == TypeOK => (StructureOK <=> Structure)
<1>1. ASSUME TypeOK, StructureOK PROVE Structure
  <2>1. \A w \in DOMAIN windows : WindowOK(windows[w])
    BY <1>1, EachWindowOK
  <2>2. QED
    BY <1>1, <2>1 DEF StructureOK, BackLinks, NoOrphans, OrderListsWindows, TabsOf, Structure
<1>2. ASSUME TypeOK, Structure PROVE StructureOK
  BY <1>2 DEF StructureOK, WindowsNonEmpty, ActiveIsMember, ListsAreSets, BackLinks,
              NoOrphans, OrderListsWindows, TabsOf, Structure, WindowOK
<1>3. QED
  BY <1>1, <1>2

\* The initial states: no window, and the ring of the previous session.
LEMMA InitInv == Init => TypeOK /\ Structure /\ RingBounded
<1> SUFFICES ASSUME Init PROVE TypeOK /\ Structure /\ RingBounded
  OBVIOUS
<1>1. /\ windows = <<>> /\ tabs = <<>> /\ windowOrder = <<>>
      /\ DOMAIN windows = {} /\ DOMAIN tabs = {} /\ DOMAIN windowOrder = {}
  BY SMT DEF Init
<1>2. PICK rows \in BoundedSeq(ClosedTab, RingSize + 1) : closed = LoadedRing(rows)
  BY DEF Init
<1>3. rows \in Seq(ClosedTab)
  BY RingSizeIsPos, SMT DEF BoundedSeq, SeqOf
<1>4. closed \in Seq(ClosedTab) /\ Len(closed) <= RingSize
  BY <1>2, <1>3, NewestElements, RingSizeIsPos DEF LoadedRing
<1>5. windowOrder \in Seq(WindowId)
  BY <1>1, EmptySeq
<1>6. TypeOK
  BY <1>1, <1>4, <1>5 DEF TypeOK
<1>7. Structure
  BY <1>1 DEF Structure, IsInjective, ToSet
<1>8. QED
  BY <1>4, <1>6, <1>7 DEF RingBounded

\* A window with a first tab appears.
LEMMA CreateWindowInv ==
  ASSUME TypeOK, Structure, NEW w \in WindowId, NEW t \in TabId, CreateWindow(w, t)
  PROVE  TypeOK' /\ Structure'
<1> DEFINE window == [tab_ids |-> <<t>>, active_tab_id |-> t]
           tab == [window_id |-> w, page |-> NewTab]
<1>1. w \notin DOMAIN windows /\ t \notin DOMAIN tabs
  BY DEF CreateWindow, FreshWindow, FreshTab
<1>2. /\ <<t>> \in Seq(TabId) /\ <<t>> # <<>> /\ IsInjective(<<t>>)
      /\ \A x : x \in ToSet(<<t>>) <=> x = t
  BY SMT DEF IsInjective, ToSet
<1>3. WindowOK(window)
  BY <1>2 DEF WindowOK, Window
<1>4. tab \in Tab
  BY NewTabIsPage DEF Tab
<1>5. /\ DOMAIN windows' = DOMAIN windows \cup {w}
      /\ windows'[w] = window
      /\ \A v \in DOMAIN windows : windows'[v] = windows[v]
      /\ windows' = [v \in DOMAIN windows' |-> windows'[v]]
  BY <1>1 DEF CreateWindow, Put
<1>6. /\ DOMAIN tabs' = DOMAIN tabs \cup {t}
      /\ tabs'[t] = tab
      /\ \A u \in DOMAIN tabs : tabs'[u] = tabs[u]
      /\ tabs' = [u \in DOMAIN tabs' |-> tabs'[u]]
  BY <1>1 DEF CreateWindow, Put
<1>7. /\ windowOrder' \in Seq(WindowId)
      /\ IsInjective(windowOrder')
      /\ ToSet(windowOrder') = DOMAIN windows \cup {w}
  BY <1>1, AppendRange DEF CreateWindow, TypeOK, Structure
<1> HIDE DEF window, tab
<1>8. TypeOK'
  <2>1. window \in Window
    BY <1>3 DEF WindowOK
  <2>2. windows' \in [DOMAIN windows' -> Window] /\ DOMAIN windows' \subseteq WindowId
    BY <1>5, <2>1 DEF TypeOK
  <2>3. tabs' \in [DOMAIN tabs' -> Tab] /\ DOMAIN tabs' \subseteq TabId
    BY <1>4, <1>6 DEF TypeOK
  <2>4. QED
    BY <1>7, <2>2, <2>3 DEF TypeOK, CreateWindow
<1>9. Structure'
  <2>1. \A v \in DOMAIN windows' : WindowOK(windows'[v])
    BY <1>3, <1>5 DEF Structure
  <2>2. ASSUME NEW v \in DOMAIN windows', NEW u
        PROVE  u \in ToSet(windows'[v].tab_ids) <=> u \in DOMAIN tabs' /\ tabs'[u].window_id = v
    BY <1>1, <1>2, <1>5, <1>6 DEF Structure, window, tab
  <2>3. \A u \in DOMAIN tabs' : tabs'[u].window_id \in DOMAIN windows'
    BY <1>5, <1>6 DEF Structure, tab
  <2>4. QED
    BY <1>5, <1>7, <2>1, <2>2, <2>3 DEF Structure
<1>10. QED
  BY <1>8, <1>9

\* What is left of the windows when a tab leaves its window, which close_tab
\* and move_tab share.
LEMMA TabLeavesWindow ==
  ASSUME TypeOK, Structure, NEW t \in DOMAIN tabs,
         NEW w, w = tabs[t].window_id
  PROVE  LET left == WindowsWithout(w, t) IN
         /\ DOMAIN left \subseteq DOMAIN windows
         /\ left \in [DOMAIN left -> Window]
         /\ \A v \in DOMAIN left : WindowOK(left[v])
         /\ \A v \in DOMAIN left :
              ToSet(left[v].tab_ids) = ToSet(windows[v].tab_ids) \ {t}
         /\ \A v \in DOMAIN windows : v # w => v \in DOMAIN left
         /\ \A u \in DOMAIN tabs : u # t => tabs[u].window_id \in DOMAIN left
         /\ OrderWithout(w, t) \in Seq(WindowId)
         /\ IsInjective(OrderWithout(w, t))
         /\ ToSet(OrderWithout(w, t)) = DOMAIN left
<1> DEFINE left == WindowsWithout(w, t)
           order == OrderWithout(w, t)
           list == windows[w].tab_ids
<1>1. /\ w \in DOMAIN windows /\ w \in WindowId /\ t \in ToSet(list)
      /\ WindowOK(windows[w]) /\ list \in Seq(TabId)
      /\ windowOrder \in Seq(WindowId) /\ IsInjective(windowOrder)
      /\ ToSet(windowOrder) = DOMAIN windows
  BY DEF TypeOK, Structure, WindowOK, Window
<1>2. \A v \in DOMAIN windows : v # w => t \notin ToSet(windows[v].tab_ids)
  BY DEF Structure
<1>3. CASE Len(list) = 1
  <2>1. /\ DOMAIN left = DOMAIN windows \ {w}
        /\ left = [v \in DOMAIN left |-> windows[v]]
        /\ \A v \in DOMAIN left : left[v] = windows[v]
    BY <1>3 DEF WindowsWithout, Drop
  <2>2. order = Without(windowOrder, w)
    BY <1>3 DEF OrderWithout
  <2>3. /\ order \in Seq(WindowId) /\ IsInjective(order)
        /\ ToSet(order) = DOMAIN windows \ {w}
    BY <1>1, <2>2, WithoutElement
  <2>4. ToSet(list) = {t}
    BY <1>1, <1>3, SingletonList
  <2> HIDE DEF left, order, list
  <2>5. \A u \in DOMAIN tabs : u # t => tabs[u].window_id \in DOMAIN left
    BY <2>1, <2>4 DEF Structure, list
  <2>6. left \in [DOMAIN left -> Window] /\ \A v \in DOMAIN left : WindowOK(left[v])
    BY <2>1 DEF Structure, TypeOK
  <2>7. \A v \in DOMAIN left : ToSet(left[v].tab_ids) = ToSet(windows[v].tab_ids) \ {t}
    BY <1>2, <2>1
  <2>8. QED
    BY <2>1, <2>3, <2>5, <2>6, <2>7 DEF left, order
<1>4. CASE Len(list) # 1
  <2>1. left = [windows EXCEPT ![w] = Detached(windows[w], t)]
    BY <1>4 DEF WindowsWithout
  <2>2. order = windowOrder
    BY <1>4 DEF OrderWithout
  <2>3. /\ WindowOK(Detached(windows[w], t))
        /\ ToSet(Detached(windows[w], t).tab_ids) = ToSet(list) \ {t}
    BY <1>1, <1>4, DetachedWindow
  <2>4. /\ DOMAIN left = DOMAIN windows
        /\ left = [v \in DOMAIN left |-> left[v]]
        /\ left[w] = Detached(windows[w], t)
        /\ \A v \in DOMAIN windows : v # w => left[v] = windows[v]
    BY <1>1, <2>1
  <2> HIDE DEF left, order, list
  <2>5. \A v \in DOMAIN left : WindowOK(left[v])
    BY <2>3, <2>4 DEF Structure
  <2>6. left \in [DOMAIN left -> Window]
    BY <2>4, <2>5 DEF WindowOK
  <2>7. \A v \in DOMAIN left : ToSet(left[v].tab_ids) = ToSet(windows[v].tab_ids) \ {t}
    BY <1>2, <2>3, <2>4 DEF list
  <2>8. \A u \in DOMAIN tabs : tabs[u].window_id \in DOMAIN left
    BY <2>4 DEF Structure
  <2>9. QED
    BY <1>1, <2>2, <2>4, <2>5, <2>6, <2>7, <2>8 DEF left, order
<1>5. QED
  BY <1>3, <1>4

\* The ring stays a list of closed tabs, and within its bound; before it is full
\* nothing is forgotten.
LEMMA RememberInv ==
  ASSUME TypeOK, NEW list \in Seq(TabId), ToSet(list) \subseteq DOMAIN tabs
  PROVE  /\ Remember(closed, list) \in Seq(ClosedTab)
         /\ Len(Remember(closed, list)) <= RingSize
         /\ Len(Remember(closed, list)) =
              IF Len(closed) + Len(list) > RingSize THEN RingSize ELSE Len(closed) + Len(list)
<1> DEFINE e(i) == tabs[list[i]]
           entries == [i \in DOMAIN list |-> e(i)]
<1>1. DOMAIN list = 1 .. Len(list) /\ Len(list) \in Nat
  BY LenProperties
<1>2. \A i \in 1 .. Len(list) : e(i) \in ClosedTab
  BY <1>1, ElementInRange DEF TypeOK, Tab, ClosedTab
<1>3. entries \in Seq(ClosedTab) /\ Len(entries) = Len(list)
  <2> HIDE DEF e
  <2>1. [i \in 1 .. Len(list) |-> e(i)] \in Seq(ClosedTab)
    BY <1>1, <1>2, IsASeq
  <2>2. entries \in Seq(ClosedTab) /\ DOMAIN entries = 1 .. Len(list)
    BY <1>1, <2>1
  <2> HIDE DEF entries
  <2>3. QED
    BY <1>1, <2>2, LenProperties, SMT
<1>4. closed \in Seq(ClosedTab)
  BY DEF TypeOK
<1>5. /\ closed \o entries \in Seq(ClosedTab)
      /\ Len(closed \o entries) = Len(closed) + Len(list)
  <2> HIDE DEF entries
  <2>1. /\ closed \o entries \in Seq(ClosedTab)
        /\ Len(closed \o entries) = Len(closed) + Len(entries)
    BY <1>3, <1>4, ConcatElements
  <2>2. QED
    BY <1>3, <2>1
<1>6. Remember(closed, list) = Newest(closed \o entries, RingSize)
  BY DEF Remember
<1> DEFINE all == closed \o entries
<1> HIDE DEF entries, all
<1>7. all \in Seq(ClosedTab) /\ Len(all) = Len(closed) + Len(list)
  BY <1>5 DEF all
<1>8. RingSize \in Nat \ {0}
  BY RingSizeIsPos
<1>9. /\ Newest(all, RingSize) \in Seq(ClosedTab)
      /\ Len(Newest(all, RingSize)) <= RingSize
      /\ Len(Newest(all, RingSize)) = IF Len(all) > RingSize THEN RingSize ELSE Len(all)
  BY <1>7, <1>8, NewestElements
<1>10. QED
  BY <1>6, <1>7, <1>9 DEF all

\* close_tab keeps the invariant: the tab leaves its window and enters the ring.
LEMMA CloseTabInv ==
  ASSUME TypeOK, Structure, NEW t \in TabId, CloseTab(t)
  PROVE  TypeOK' /\ Structure' /\ RingBounded'
<1> DEFINE w == tabs[t].window_id
           left == WindowsWithout(w, t)
<1>1. t \in DOMAIN tabs
  BY DEF CloseTab
<1>2. /\ DOMAIN left \subseteq DOMAIN windows
      /\ left \in [DOMAIN left -> Window]
      /\ \A v \in DOMAIN left : WindowOK(left[v])
      /\ \A v \in DOMAIN left : ToSet(left[v].tab_ids) = ToSet(windows[v].tab_ids) \ {t}
      /\ \A u \in DOMAIN tabs : u # t => tabs[u].window_id \in DOMAIN left
      /\ OrderWithout(w, t) \in Seq(WindowId)
      /\ IsInjective(OrderWithout(w, t))
      /\ ToSet(OrderWithout(w, t)) = DOMAIN left
  BY <1>1, TabLeavesWindow
<1>3. windows' = left /\ windowOrder' = OrderWithout(w, t)
  BY DEF CloseTab
<1>4. /\ DOMAIN tabs' = DOMAIN tabs \ {t}
      /\ tabs' = [u \in DOMAIN tabs' |-> tabs[u]]
      /\ \A u \in DOMAIN tabs' : tabs'[u] = tabs[u]
  BY DEF CloseTab, Drop
<1>5. closed' \in Seq(ClosedTab) /\ Len(closed') <= RingSize
  <2>1. <<t>> \in Seq(TabId) /\ ToSet(<<t>>) \subseteq DOMAIN tabs
    BY <1>1, SMT DEF ToSet
  <2>2. QED
    BY <2>1, RememberInv DEF CloseTab
<1> HIDE DEF left, w
<1>6. TypeOK'
  BY <1>2, <1>3, <1>4, <1>5 DEF TypeOK
<1>7. Structure'
  <2>1. \A v \in DOMAIN windows' : \A u :
          u \in ToSet(windows'[v].tab_ids) <=> u \in DOMAIN tabs' /\ tabs'[u].window_id = v
    <3>1. SUFFICES ASSUME NEW v \in DOMAIN windows', NEW u
                   PROVE  u \in ToSet(windows'[v].tab_ids) <=>
                          u \in DOMAIN tabs' /\ tabs'[u].window_id = v
      OBVIOUS
    <3>2. v \in DOMAIN windows /\ ToSet(windows'[v].tab_ids) = ToSet(windows[v].tab_ids) \ {t}
      BY <1>2, <1>3
    <3>3. u \in ToSet(windows[v].tab_ids) <=> u \in DOMAIN tabs /\ tabs[u].window_id = v
      BY <3>2 DEF Structure
    <3>4. u \in DOMAIN tabs' <=> u \in DOMAIN tabs /\ u # t
      BY <1>4
    <3>5. QED
      BY <1>4, <3>2, <3>3, <3>4
  <2>2. \A u \in DOMAIN tabs' : tabs'[u].window_id \in DOMAIN windows'
    BY <1>2, <1>3, <1>4
  <2>3. QED
    BY <1>2, <1>3, <2>1, <2>2 DEF Structure
<1>8. QED
  BY <1>5, <1>6, <1>7 DEF RingBounded

\* close_window keeps the invariant: a window leaves with all of its tabs.
LEMMA CloseWindowInv ==
  ASSUME TypeOK, Structure, NEW w \in WindowId, CloseWindow(w)
  PROVE  TypeOK' /\ Structure' /\ RingBounded'
<1>1. w \in DOMAIN windows
  BY DEF CloseWindow
<1>2. /\ DOMAIN windows' = DOMAIN windows \ {w}
      /\ windows' = [v \in DOMAIN windows' |-> windows[v]]
      /\ \A v \in DOMAIN windows' : windows'[v] = windows[v]
  BY DEF CloseWindow, Drop
<1>3. /\ DOMAIN tabs' = DOMAIN tabs \ ToSet(windows[w].tab_ids)
      /\ tabs' = [u \in DOMAIN tabs' |-> tabs[u]]
      /\ \A u \in DOMAIN tabs' : tabs'[u] = tabs[u]
  BY DEF CloseWindow, Drop, TabsOf
<1>4. /\ windowOrder' \in Seq(WindowId) /\ IsInjective(windowOrder')
      /\ ToSet(windowOrder') = DOMAIN windows \ {w}
  BY <1>1, WithoutElement DEF CloseWindow, TypeOK, Structure
<1>5. closed' \in Seq(ClosedTab) /\ Len(closed') <= RingSize
  <2>1. windows[w].tab_ids \in Seq(TabId) /\ ToSet(windows[w].tab_ids) \subseteq DOMAIN tabs
    BY <1>1 DEF TypeOK, Structure, Window
  <2>2. QED
    BY <2>1, RememberInv DEF CloseWindow
<1>6. TypeOK'
  <2>1. windows' \in [DOMAIN windows' -> Window] /\ DOMAIN windows' \subseteq WindowId
    BY <1>2 DEF TypeOK
  <2>2. tabs' \in [DOMAIN tabs' -> Tab] /\ DOMAIN tabs' \subseteq TabId
    BY <1>3 DEF TypeOK
  <2>3. QED
    BY <1>4, <1>5, <2>1, <2>2 DEF TypeOK
<1>7. Structure'
  <2>1. \A v \in DOMAIN windows' : \A u :
          u \in ToSet(windows'[v].tab_ids) <=> u \in DOMAIN tabs' /\ tabs'[u].window_id = v
    BY <1>1, <1>2, <1>3 DEF Structure
  <2>2. \A u \in DOMAIN tabs' : tabs'[u].window_id \in DOMAIN windows'
    BY <1>1, <1>2, <1>3 DEF Structure
  <2>3. QED
    BY <1>2, <1>4, <2>1, <2>2 DEF Structure
<1>8. QED
  BY <1>5, <1>6, <1>7 DEF RingBounded

\* A new tab at the end of a window, whatever the ring becomes meanwhile.
LEMMA TabComesIn ==
  ASSUME TypeOK, Structure, NEW w \in DOMAIN windows, NEW t \in FreshTab, NEW p \in Page,
         tabs' = Put(tabs, t, [window_id |-> w, page |-> p]),
         windows' = [windows EXCEPT
                       ![w] = [tab_ids |-> Append(@.tab_ids, t), active_tab_id |-> t]],
         windowOrder' = windowOrder, closed' \in Seq(ClosedTab)
  PROVE  TypeOK' /\ Structure'
<1> DEFINE tab == [window_id |-> w, page |-> p]
           list == windows[w].tab_ids
           window == [tab_ids |-> Append(list, t), active_tab_id |-> t]
<1>1. w \in DOMAIN windows /\ w \in WindowId /\ t \in TabId /\ t \notin DOMAIN tabs
  BY DEF FreshTab, TypeOK
<1>2. list \in Seq(TabId) /\ IsInjective(list) /\ t \notin ToSet(list)
  BY <1>1 DEF Structure, WindowOK, Window
<1>3. /\ Append(list, t) \in Seq(TabId) /\ IsInjective(Append(list, t))
      /\ ToSet(Append(list, t)) = ToSet(list) \cup {t}
  BY <1>1, <1>2, AppendRange
<1>4. WindowOK(window)
  <2>1. Append(list, t) # <<>>
    BY <1>3, NonEmptyList
  <2>2. QED
    BY <1>1, <1>3, <2>1 DEF WindowOK, Window
<1>5. /\ DOMAIN windows' = DOMAIN windows
      /\ windows' = [v \in DOMAIN windows' |-> windows'[v]]
      /\ windows'[w] = window
      /\ \A v \in DOMAIN windows : v # w => windows'[v] = windows[v]
  BY <1>1
<1>6. /\ DOMAIN tabs' = DOMAIN tabs \cup {t}
      /\ tabs'[t] = tab
      /\ \A u \in DOMAIN tabs : tabs'[u] = tabs[u]
      /\ tabs' = [u \in DOMAIN tabs' |-> tabs'[u]]
  BY <1>1 DEF Put
<1>7. tab \in Tab /\ tab.window_id = w
  BY <1>1 DEF Tab
<1>8. ToSet(window.tab_ids) = ToSet(list) \cup {t}
  BY <1>3
<1> HIDE DEF tab, window
<1>9. TypeOK'
  <2>1. windows' \in [DOMAIN windows' -> Window]
    BY <1>4, <1>5 DEF TypeOK, WindowOK
  <2>2. DOMAIN tabs' \subseteq TabId
    BY <1>1, <1>6 DEF TypeOK
  <2>3. \A u \in DOMAIN tabs' : tabs'[u] \in Tab
    BY <1>6, <1>7 DEF TypeOK
  <2>4. tabs' \in [DOMAIN tabs' -> Tab]
    BY <1>6, <2>3
  <2>5. QED
    BY <1>5, <2>1, <2>2, <2>4 DEF TypeOK
<1>10. Structure'
  <2>1. ASSUME NEW v \in DOMAIN windows', NEW u
        PROVE  u \in ToSet(windows'[v].tab_ids) <=> u \in DOMAIN tabs' /\ tabs'[u].window_id = v
    <3>1. u \in ToSet(windows[v].tab_ids) <=> u \in DOMAIN tabs /\ tabs[u].window_id = v
      BY <1>5 DEF Structure
    <3>2. CASE v = w
      BY <1>1, <1>5, <1>6, <1>7, <1>8, <3>1, <3>2
    <3>3. CASE v # w
      BY <1>1, <1>5, <1>6, <1>7, <3>1, <3>3
    <3>4. QED
      BY <3>2, <3>3
  <2>2. \A u \in DOMAIN tabs' : tabs'[u].window_id \in DOMAIN windows'
    <3>1. \A u \in DOMAIN tabs : tabs'[u].window_id \in DOMAIN windows
      BY <1>6 DEF Structure
    <3>2. tabs'[t].window_id \in DOMAIN windows
      BY <1>1, <1>6, <1>7
    <3>3. QED
      BY <1>5, <1>6, <3>1, <3>2
  <2>3. \A v \in DOMAIN windows' : WindowOK(windows'[v])
    BY <1>4, <1>5 DEF Structure
  <2>4. QED
    BY <1>5, <2>1, <2>2, <2>3 DEF Structure
<1>11. QED
  BY <1>9, <1>10

\* create_tab keeps the invariant.
LEMMA CreateTabInv ==
  ASSUME TypeOK, Structure, NEW w \in WindowId, NEW t \in TabId, NEW p \in Page,
         CreateTab(w, t, p)
  PROVE  TypeOK' /\ Structure'
BY TabComesIn DEF CreateTab, TypeOK

\* A step that only changes one window to one with the same tabs.
LEMMA SameTabsInv ==
  ASSUME TypeOK, Structure, NEW w \in DOMAIN windows, NEW window,
         WindowOK(window), ToSet(window.tab_ids) = ToSet(windows[w].tab_ids),
         windows' = [windows EXCEPT ![w] = window],
         UNCHANGED <<tabs, windowOrder, closed>>
  PROVE  TypeOK' /\ Structure'
<1>1. /\ DOMAIN windows' = DOMAIN windows
      /\ windows' = [v \in DOMAIN windows' |-> windows'[v]]
      /\ windows'[w] = window
      /\ \A v \in DOMAIN windows : v # w => windows'[v] = windows[v]
  OBVIOUS
<1>2. windows' \in [DOMAIN windows' -> Window]
  BY <1>1 DEF TypeOK, WindowOK
<1>3. TypeOK'
  BY <1>1, <1>2 DEF TypeOK
<1>4. \A v \in DOMAIN windows' :
        WindowOK(windows'[v]) /\ ToSet(windows'[v].tab_ids) = ToSet(windows[v].tab_ids)
  BY <1>1 DEF Structure
<1>5. Structure'
  BY <1>1, <1>4 DEF Structure
<1>6. QED
  BY <1>3, <1>5

\* activate_tab keeps the invariant: the focus goes to a tab of the window.
LEMMA ActivateTabInv ==
  ASSUME TypeOK, Structure, NEW t \in TabId, ActivateTab(t)
  PROVE  TypeOK' /\ Structure'
<1> DEFINE w == tabs[t].window_id
           window == [windows[w] EXCEPT !.active_tab_id = t]
<1>1. w \in DOMAIN windows /\ t \in ToSet(windows[w].tab_ids)
  BY DEF ActivateTab, Structure
<1>2. windows[w] \in Window /\ WindowOK(windows[w])
  BY <1>1 DEF Structure, WindowOK
<1>3. /\ window \in Window
      /\ window.tab_ids = windows[w].tab_ids /\ window.active_tab_id = t
  BY <1>2 DEF Window
<1>4. WindowOK(window)
  BY <1>1, <1>2, <1>3 DEF WindowOK
<1>5. windows' = [windows EXCEPT ![w] = window]
  BY DEF ActivateTab
<1> HIDE DEF window
<1>6. QED
  BY <1>1, <1>3, <1>4, <1>5, SameTabsInv DEF ActivateTab

\* reorder_tab keeps the invariant: the window keeps the same tabs.
LEMMA ReorderTabInv ==
  ASSUME TypeOK, Structure, NEW t \in TabId, NEW n \in Nat, ReorderTab(t, n)
  PROVE  TypeOK' /\ Structure'
<1> DEFINE w == tabs[t].window_id
           list == windows[w].tab_ids
           rest == Without(list, t)
           moved == InsertClamped(rest, n, t)
           window == [windows[w] EXCEPT !.tab_ids = moved]
<1>1. w \in DOMAIN windows /\ t \in ToSet(list)
  BY DEF ReorderTab, Structure
<1>2. windows[w] \in Window /\ WindowOK(windows[w]) /\ list \in Seq(TabId) /\ IsInjective(list)
  BY <1>1 DEF Structure, WindowOK, Window
<1>3. /\ rest \in Seq(TabId) /\ IsInjective(rest)
      /\ ToSet(rest) = ToSet(list) \ {t}
  BY <1>1, <1>2, WithoutElement
<1> HIDE DEF rest
<1>4. /\ moved \in Seq(TabId) /\ IsInjective(moved)
      /\ ToSet(moved) = ToSet(rest) \cup {t}
  <2>1. t \notin ToSet(rest)
    BY <1>3
  <2>2. QED
    BY <1>3, <2>1, InsertClampedElement
<1> HIDE DEF moved
<1>5. /\ window \in Window
      /\ window.tab_ids = moved /\ window.active_tab_id = windows[w].active_tab_id
  BY <1>2, <1>4 DEF Window
<1>6. ToSet(moved) = ToSet(list) /\ moved # <<>>
  <2>1. ToSet(moved) = ToSet(list)
    BY <1>1, <1>3, <1>4
  <2>2. ToSet(moved) # {}
    BY <1>1, <2>1
  <2>3. QED
    BY <1>4, <2>1, <2>2, NonEmptyList
<1>7. WindowOK(window)
  BY <1>2, <1>4, <1>5, <1>6 DEF WindowOK
<1>8. windows' = [windows EXCEPT ![w] = window]
  BY DEF ReorderTab, moved, rest
<1> HIDE DEF window
<1>9. QED
  BY <1>1, <1>5, <1>6, <1>7, <1>8, SameTabsInv DEF ReorderTab

\* A drag into another window: the tab leaves one list and enters another.
LEMMA MoveTabInv ==
  ASSUME TypeOK, Structure, NEW t \in TabId, NEW w \in WindowId, NEW n \in Nat,
         MoveTab(t, w, n)
  PROVE  TypeOK' /\ Structure'
<1>1. CASE tabs[t].window_id = w
  BY <1>1, ReorderTabInv DEF MoveTab
<1>2. CASE tabs[t].window_id # w
  <2> DEFINE from == tabs[t].window_id
             left == WindowsWithout(from, t)
             list == left[w].tab_ids
             window == [tab_ids |-> InsertClamped(list, n, t), active_tab_id |-> t]
  <2>1. t \in DOMAIN tabs /\ w \in DOMAIN windows
    BY DEF MoveTab
  <2>2. /\ DOMAIN left \subseteq DOMAIN windows
        /\ left \in [DOMAIN left -> Window]
        /\ \A v \in DOMAIN left : WindowOK(left[v])
        /\ \A v \in DOMAIN left : ToSet(left[v].tab_ids) = ToSet(windows[v].tab_ids) \ {t}
        /\ \A v \in DOMAIN windows : v # from => v \in DOMAIN left
        /\ \A u \in DOMAIN tabs : u # t => tabs[u].window_id \in DOMAIN left
        /\ OrderWithout(from, t) \in Seq(WindowId)
        /\ IsInjective(OrderWithout(from, t))
        /\ ToSet(OrderWithout(from, t)) = DOMAIN left
    BY <2>1, TabLeavesWindow
  <2>3. w \in DOMAIN left
    BY <1>2, <2>1, <2>2
  <2>4. list \in Seq(TabId) /\ IsInjective(list) /\ t \notin ToSet(list)
    BY <2>2, <2>3 DEF WindowOK, Window
  <2>5. /\ windows' = [left EXCEPT ![w] = window]
        /\ windowOrder' = OrderWithout(from, t)
        /\ tabs' = [tabs EXCEPT ![t].window_id = w]
        /\ closed' = closed
    BY <1>2 DEF MoveTab
  <2>6. tabs[t] \in Tab
    BY <2>1 DEF TypeOK
  <2> HIDE DEF left, from, list
  <2>7. /\ InsertClamped(list, n, t) \in Seq(TabId)
        /\ IsInjective(InsertClamped(list, n, t))
        /\ ToSet(InsertClamped(list, n, t)) = ToSet(list) \cup {t}
    BY <2>4, InsertClampedElement
  <2>8. WindowOK(window) /\ ToSet(window.tab_ids) = ToSet(list) \cup {t}
    <3>1. InsertClamped(list, n, t) # <<>>
      BY <2>7, NonEmptyList
    <3>2. QED
      BY <2>7, <3>1 DEF WindowOK, Window
  <2> HIDE DEF window
  <2>9. /\ DOMAIN windows' = DOMAIN left
        /\ windows' = [v \in DOMAIN windows' |-> windows'[v]]
        /\ windows'[w] = window
        /\ \A v \in DOMAIN left : v # w => windows'[v] = left[v]
    BY <2>2, <2>3, <2>5
  <2>10. /\ DOMAIN tabs' = DOMAIN tabs
         /\ tabs' = [u \in DOMAIN tabs' |-> tabs'[u]]
         /\ tabs'[t] \in Tab /\ tabs'[t].window_id = w
         /\ \A u \in DOMAIN tabs : u # t => tabs'[u] = tabs[u]
    BY <2>1, <2>5, <2>6 DEF Tab
  <2>11. TypeOK'
    <3>1. windows' \in [DOMAIN windows' -> Window]
      BY <2>2, <2>8, <2>9 DEF WindowOK
    <3>2. tabs' \in [DOMAIN tabs' -> Tab]
      BY <2>1, <2>10 DEF TypeOK
    <3>3. QED
      BY <2>2, <2>5, <2>9, <2>10, <3>1, <3>2 DEF TypeOK
  <2>12. Structure'
    <3>1. ASSUME NEW v \in DOMAIN windows', NEW u
          PROVE  u \in ToSet(windows'[v].tab_ids) <=> u \in DOMAIN tabs' /\ tabs'[u].window_id = v
      <4>1. u \in ToSet(windows[v].tab_ids) <=> u \in DOMAIN tabs /\ tabs[u].window_id = v
        BY <2>2, <2>9 DEF Structure
      <4>2. ToSet(left[v].tab_ids) = ToSet(windows[v].tab_ids) \ {t}
        BY <2>2, <2>9
      <4>3. CASE v = w
        BY <2>1, <2>8, <2>9, <2>10, <4>1, <4>2, <4>3 DEF list
      <4>4. CASE v # w
        BY <2>1, <2>9, <2>10, <4>1, <4>2, <4>4
      <4>5. QED
        BY <4>3, <4>4
    <3>2. \A u \in DOMAIN tabs' : tabs'[u].window_id \in DOMAIN windows'
      BY <2>2, <2>3, <2>9, <2>10
    <3>3. \A v \in DOMAIN windows' : WindowOK(windows'[v])
      BY <2>2, <2>8, <2>9
    <3>4. QED
      BY <2>2, <2>5, <2>9, <3>1, <3>2, <3>3 DEF Structure
  <2>13. QED
    BY <2>11, <2>12
<1>3. QED
  BY <1>1, <1>2

\* notify_committed keeps the invariant: only the page of a tab changes.
LEMMA NotifyCommittedInv ==
  ASSUME TypeOK, Structure, NEW t \in TabId, NEW p \in Page, NotifyCommitted(t, p)
  PROVE  TypeOK' /\ Structure'
<1>1. t \in DOMAIN tabs /\ tabs[t] \in Tab
  BY DEF NotifyCommitted, TypeOK
<1>2. /\ DOMAIN tabs' = DOMAIN tabs
      /\ tabs' = [u \in DOMAIN tabs' |-> tabs'[u]]
      /\ tabs'[t] \in Tab
      /\ \A u \in DOMAIN tabs : u # t => tabs'[u] = tabs[u]
      /\ \A u \in DOMAIN tabs : tabs'[u].window_id = tabs[u].window_id
  BY <1>1 DEF NotifyCommitted, Tab
<1>3. TypeOK'
  <2>1. tabs' \in [DOMAIN tabs' -> Tab]
    BY <1>2 DEF TypeOK
  <2>2. QED
    BY <1>2, <2>1 DEF TypeOK, NotifyCommitted
<1>4. Structure'
  BY <1>2 DEF Structure, NotifyCommitted
<1>5. QED
  BY <1>3, <1>4

\* reopen_closed_tab keeps the invariant: the ring loses one entry.
LEMMA ReopenClosedTabInv ==
  ASSUME TypeOK, Structure, RingBounded, NEW w \in WindowId, ReopenClosedTab(w)
  PROVE  TypeOK' /\ Structure' /\ RingBounded'
<1>1. /\ closed \in Seq(ClosedTab) /\ Len(closed) \in Nat /\ Len(closed) > 0
      /\ DOMAIN closed = 1 .. Len(closed)
  <2>1. closed \in Seq(ClosedTab) /\ closed # <<>>
    BY DEF TypeOK, ReopenClosedTab
  <2>2. QED
    BY <2>1, LenProperties, NonEmptyList
<1>2. ReopenIndex(w) \in 1 .. Len(closed)
  <2> DEFINE ofWindow == {i \in DOMAIN closed : closed[i].window_id = w}
  <2>1. CASE ofWindow = {}
    BY <1>1, <2>1, SMT DEF ReopenIndex
  <2>2. CASE ofWindow # {}
    <3>1. ofWindow \in SUBSET (1 .. Len(closed))
      BY <1>1
    <3> HIDE DEF ofWindow
    <3>2. Max(ofWindow) \in ofWindow
      <4>1. \E x \in ofWindow : \A y \in ofWindow : x >= y
        BY <1>1, <2>2, <3>1, MaxOfInterval
      <4>2. QED
        BY <4>1 DEF Max
    <3>3. QED
      BY <2>2, <3>1, <3>2 DEF ReopenIndex, ofWindow
  <2>3. QED
    BY <2>1, <2>2
<1>3. closed' \in Seq(ClosedTab) /\ Len(closed') = Len(closed) - 1
  BY <1>1, <1>2, RemoveAtElements DEF ReopenClosedTab
<1>4. TypeOK' /\ Structure'
  BY <1>3 DEF TypeOK, Structure, ReopenClosedTab
<1>5. RingBounded'
  BY <1>1, <1>3, RingSizeIsPos, SMT DEF RingBounded
<1>6. QED
  BY <1>4, <1>5

\* A window of a snapshot comes back with a list of fresh tabs.
LEMMA RestoreWindowInv ==
  ASSUME TypeOK, Structure, NEW w \in WindowId, NEW list \in Seq(TabId),
         NEW pages \in [DOMAIN list -> Page], NEW n \in Nat,
         RestoreWindow(w, list, pages, n)
  PROVE  TypeOK' /\ Structure'
<1> DEFINE focus == list[IF n < Len(list) THEN n + 1 ELSE 1]
           window == [tab_ids |-> list, active_tab_id |-> focus]
           tab(u) == [window_id |-> w, page |-> pages[IndexOf(list, u)]]
<1>1. /\ w \notin DOMAIN windows /\ list # <<>> /\ IsInjective(list)
      /\ \A u \in ToSet(list) : u \notin DOMAIN tabs /\ u \in TabId
  BY DEF RestoreWindow, FreshWindow, FreshTab
<1>2. Len(list) \in Nat /\ Len(list) > 0
  BY <1>1, LenProperties, NonEmptyList
<1>3. focus \in ToSet(list) /\ focus \in TabId
  <2>1. (IF n < Len(list) THEN n + 1 ELSE 1) \in 1 .. Len(list)
    BY <1>2, SMT
  <2>2. QED
    BY <2>1, ElementInRange, ElementOfSeq
<1>4. WindowOK(window) /\ window.tab_ids = list
  BY <1>1, <1>3 DEF WindowOK, Window
<1>5. \A u \in ToSet(list) : tab(u) \in Tab /\ tab(u).window_id = w
  <2>1. \A u \in ToSet(list) : pages[IndexOf(list, u)] \in Page
    BY IndexOfElement, LenProperties
  <2>2. QED
    BY <2>1 DEF Tab
<1>6. /\ DOMAIN windows' = DOMAIN windows \cup {w}
      /\ windows'[w] = window
      /\ \A v \in DOMAIN windows : windows'[v] = windows[v]
      /\ windows' = [v \in DOMAIN windows' |-> windows'[v]]
  BY <1>1 DEF RestoreWindow, Put
<1>7. /\ DOMAIN tabs' = DOMAIN tabs \cup ToSet(list)
      /\ \A u \in ToSet(list) : tabs'[u] = tab(u)
      /\ \A u \in DOMAIN tabs : tabs'[u] = tabs[u]
      /\ tabs' = [u \in DOMAIN tabs' |-> tabs'[u]]
  BY <1>1 DEF RestoreWindow
<1>8. /\ windowOrder' \in Seq(WindowId)
      /\ IsInjective(windowOrder')
      /\ ToSet(windowOrder') = DOMAIN windows \cup {w}
  BY <1>1, AppendRange DEF RestoreWindow, TypeOK, Structure
<1> HIDE DEF focus, window, tab
<1>9. TypeOK'
  <2>1. window \in Window
    BY <1>4 DEF WindowOK
  <2>2. windows' \in [DOMAIN windows' -> Window] /\ DOMAIN windows' \subseteq WindowId
    BY <1>6, <2>1 DEF TypeOK
  <2>3. tabs' \in [DOMAIN tabs' -> Tab] /\ DOMAIN tabs' \subseteq TabId
    BY <1>1, <1>5, <1>7 DEF TypeOK
  <2>4. QED
    BY <1>8, <2>2, <2>3 DEF TypeOK, RestoreWindow
<1>10. Structure'
  <2>1. \A v \in DOMAIN windows' : WindowOK(windows'[v])
    BY <1>4, <1>6 DEF Structure
  <2>2. ASSUME NEW v \in DOMAIN windows', NEW u
        PROVE  u \in ToSet(windows'[v].tab_ids) <=> u \in DOMAIN tabs' /\ tabs'[u].window_id = v
    <3>1. CASE v = w
      BY <1>1, <1>4, <1>5, <1>6, <1>7, <3>1 DEF Structure
    <3>2. CASE v # w
      <4>1. v \in DOMAIN windows /\ windows'[v] = windows[v]
        BY <1>6, <3>2
      <4>2. u \in ToSet(windows[v].tab_ids) <=> u \in DOMAIN tabs /\ tabs[u].window_id = v
        BY <4>1 DEF Structure
      <4>3. QED
        BY <1>1, <1>5, <1>7, <3>2, <4>1, <4>2
    <3>3. QED
      BY <3>1, <3>2
  <2>3. \A u \in DOMAIN tabs' : tabs'[u].window_id \in DOMAIN windows'
    BY <1>5, <1>6, <1>7 DEF Structure
  <2>4. QED
    BY <1>6, <1>8, <2>1, <2>2, <2>3 DEF Structure
<1>11. QED
  BY <1>9, <1>10

(***************************************************************************)
(* The theorems                                                            *)
(***************************************************************************)

Inv == TypeOK /\ Structure /\ RingBounded

\* Every step keeps the inductive invariant.
LEMMA NextInv == Inv /\ [Next]_vars => Inv'
<1> SUFFICES ASSUME Inv, [Next]_vars PROVE Inv'
  OBVIOUS
<1> USE DEF Inv
<1>1. Positions \subseteq Nat
  BY SMT DEF Positions
<1>2. ASSUME NEW w \in WindowId, NEW t \in TabId, CreateWindow(w, t) PROVE Inv'
  BY <1>2, CreateWindowInv DEF CreateWindow, RingBounded
<1>3. ASSUME NEW w \in WindowId, CloseWindow(w) PROVE Inv'
  BY <1>3, CloseWindowInv
<1>4. ASSUME NEW w \in WindowId, NEW t \in TabId, NEW p \in Page, CreateTab(w, t, p) PROVE Inv'
  BY <1>4, CreateTabInv DEF CreateTab, RingBounded
<1>5. ASSUME NEW t \in TabId, CloseTab(t) PROVE Inv'
  BY <1>5, CloseTabInv
<1>6. ASSUME NEW t \in TabId, ActivateTab(t) PROVE Inv'
  BY <1>6, ActivateTabInv DEF ActivateTab, RingBounded
<1>7. ASSUME NEW t \in TabId, NEW i \in Positions, ReorderTab(t, i) PROVE Inv'
  BY <1>1, <1>7, ReorderTabInv DEF ReorderTab, RingBounded
<1>8. ASSUME NEW t \in TabId, NEW w \in WindowId, NEW i \in Positions, MoveTab(t, w, i)
      PROVE  Inv'
  BY <1>1, <1>8, MoveTabInv DEF MoveTab, ReorderTab, RingBounded
<1>9. ASSUME NEW t \in TabId, NEW p \in Page, NotifyCommitted(t, p) PROVE Inv'
  BY <1>9, NotifyCommittedInv DEF NotifyCommitted, RingBounded
<1>10. ASSUME NEW w \in WindowId, ReopenClosedTab(w) PROVE Inv'
  BY <1>10, ReopenClosedTabInv
<1>11. ASSUME NEW w \in WindowId, NEW list \in BoundedSeq(TabId, Cardinality(TabId)),
              NEW i \in Positions, NEW pages \in [DOMAIN list -> Page],
              RestoreWindow(w, list, pages, i)
       PROVE  Inv'
  <2>1. list \in Seq(TabId)
    BY SMT DEF BoundedSeq, SeqOf
  <2>2. QED
    BY <1>1, <1>11, <2>1, RestoreWindowInv DEF RestoreWindow, RingBounded
<1>12. CASE UNCHANGED vars
  BY <1>12 DEF vars, TypeOK, Structure, RingBounded
<1>13. QED
  BY <1>2, <1>3, <1>4, <1>5, <1>6, <1>7, <1>8, <1>9, <1>10, <1>11, <1>12 DEF Next

\* The inductive invariant holds in every reachable state.
LEMMA InvHolds == Spec => []Inv
<1>1. Init => Inv
  BY InitInv DEF Inv
<1>2. QED
  BY <1>1, NextInv, PTL DEF Spec

\* Every variable keeps the shape of its Rust type through every operation of
\* the tab manager (crates/blaze-core/src/tabs.rs).
THEOREM TypeCorrect == Spec => []TypeOK
BY InvHolds, PTL DEF Inv

\* check_invariants holds after every sequence of operations, for any number
\* of windows, tabs and pages: no empty window, no dangling focus, no orphan,
\* no tab in two places, and a window order that misses none.
THEOREM StructureHolds == Spec => []StructureOK
<1>1. Inv => StructureOK
  BY StructureEquiv DEF Inv
<1>2. QED
  BY <1>1, InvHolds, PTL

\* The ring of closed tabs never exceeds its capacity, even when a window with
\* more tabs than the ring has places closes at once.
THEOREM RingStaysBounded == Spec => []RingBounded
BY InvHolds, PTL DEF Inv

(***************************************************************************)
(* Positions                                                               *)
(***************************************************************************)

\* A list without duplicates has an element at one position.
LEMMA IndexUnique ==
  ASSUME NEW S, NEW s \in Seq(S), IsInjective(s), NEW i \in 1 .. Len(s), NEW x, s[i] = x
  PROVE  IndexOf(s, x) = i
<1>1. x \in ToSet(s) /\ i \in DOMAIN s
  BY ElementInRange
<1>2. IndexOf(s, x) \in 1 .. Len(s) /\ s[IndexOf(s, x)] = x
  BY <1>1, IndexOfElement
<1>3. DOMAIN s = 1 .. Len(s)
  BY LenProperties
<1>4. QED
  BY <1>1, <1>2, <1>3 DEF IsInjective

\* When an element goes, those behind it move up.
LEMMA IndexWithout ==
  ASSUME NEW S, NEW s \in Seq(S), IsInjective(s), NEW t \in ToSet(s),
         NEW x \in ToSet(s), x # t
  PROVE  IndexOf(Without(s, t), x) =
           IF IndexOf(s, x) < IndexOf(s, t) THEN IndexOf(s, x) ELSE IndexOf(s, x) - 1
<1> DEFINE i == IndexOf(s, t)
           j == IndexOf(s, x)
           r == Without(s, t)
           k == IF j < i THEN j ELSE j - 1
<1>1. Len(s) \in Nat /\ i \in 1 .. Len(s) /\ j \in 1 .. Len(s) /\ s[i] = t /\ s[j] = x
  BY IndexOfElement, LenProperties
<1>2. /\ r \in Seq(S) /\ IsInjective(r) /\ Len(r) = Len(s) - 1
  BY WithoutElement
<1>3. \A m \in 1 .. Len(s) - 1 : r[m] = IF m < i THEN s[m] ELSE s[m + 1]
  BY <1>1, RemoveAtElements DEF Without
<1> HIDE DEF i, j, r
<1>4. i # j
  BY <1>1
<1>5. k \in 1 .. Len(r) /\ r[k] = x
  <2>1. k \in 1 .. Len(s) - 1 /\ (k < i => k = j) /\ (~(k < i) => k + 1 = j)
    BY <1>1, <1>4, SMT
  <2>2. QED
    BY <1>1, <1>2, <1>3, <2>1
<1> HIDE DEF k
<1>6. IndexOf(r, x) = k
  BY <1>2, <1>5, IndexUnique
<1>7. QED
  BY <1>6 DEF k, i, j, r

\* When an element comes in, those behind it move down.
LEMMA IndexInsert ==
  ASSUME NEW S, NEW s \in Seq(S), IsInjective(s), NEW t \in S, t \notin ToSet(s),
         NEW n \in Nat, NEW x \in ToSet(s)
  PROVE  IndexOf(InsertClamped(s, n, t), x) =
           IF IndexOf(s, x) <= n THEN IndexOf(s, x) ELSE IndexOf(s, x) + 1
<1> DEFINE i == (IF n < Len(s) THEN n ELSE Len(s)) + 1
           j == IndexOf(s, x)
           r == InsertClamped(s, n, t)
           k == IF j <= n THEN j ELSE j + 1
<1>1. Len(s) \in Nat /\ j \in 1 .. Len(s) /\ s[j] = x
  BY IndexOfElement, LenProperties
<1>2. i \in 1 .. Len(s) + 1
  BY <1>1, SMT
<1>3. r \in Seq(S) /\ IsInjective(r) /\ Len(r) = Len(s) + 1
  BY InsertClampedElement
<1>4. r = InsertAt(s, i, t)
  BY DEF InsertClamped
<1> HIDE DEF j, r
<1>5. /\ \A m \in 1 .. i - 1 : r[m] = s[m]
      /\ \A m \in i .. Len(s) : r[m + 1] = s[m]
  <2> HIDE DEF i, k
  <2> DEFINE u == InsertAt(s, i, t)
  <2>1. /\ \A m \in 1 .. i - 1 : u[m] = s[m]
        /\ \A m \in i .. Len(s) : u[m + 1] = s[m]
    BY <1>2, InsertAtElements
  <2> HIDE DEF u
  <2>2. r = u
    BY <1>4 DEF u
  <2>3. QED
    BY <2>1, <2>2
<1>6. k \in 1 .. Len(r) /\ r[k] = x
  <2>1. CASE j <= n
    <3>1. j \in 1 .. i - 1 /\ k = j /\ k \in 1 .. Len(r)
      BY <1>1, <1>3, <2>1, SMT
    <3>2. QED
      BY <1>1, <1>5, <3>1
  <2>2. CASE ~(j <= n)
    <3>1. j \in i .. Len(s) /\ k = j + 1 /\ k \in 1 .. Len(r)
      BY <1>1, <1>3, <2>2, SMT
    <3>2. QED
      BY <1>1, <1>5, <3>1
  <2>3. QED
    BY <2>1, <2>2
<1> HIDE DEF k
<1>7. IndexOf(r, x) = k
  BY <1>3, <1>6, IndexUnique
<1>8. QED
  BY <1>7 DEF k, j, r

\* An element at the end moves none.
LEMMA IndexAppend ==
  ASSUME NEW S, NEW s \in Seq(S), IsInjective(s), NEW t \in S, t \notin ToSet(s),
         NEW x \in ToSet(s)
  PROVE  IndexOf(Append(s, t), x) = IndexOf(s, x)
<1> DEFINE j == IndexOf(s, x)
           r == Append(s, t)
<1>1. Len(s) \in Nat /\ j \in 1 .. Len(s) /\ s[j] = x
  BY IndexOfElement, LenProperties
<1>2. r \in Seq(S) /\ IsInjective(r) /\ Len(r) = Len(s) + 1
  BY AppendRange
<1>3. \A m \in 1 .. Len(s) : r[m] = s[m]
  BY AppendProperties
<1> HIDE DEF j, r
<1>4. j \in 1 .. Len(r) /\ r[j] = x
  BY <1>1, <1>2, <1>3, SMT
<1>5. IndexOf(r, x) = j
  BY <1>2, <1>4, IndexUnique
<1>6. QED
  BY <1>5 DEF j, r

(***************************************************************************)
(* What a step does to the list of a window                                *)
(***************************************************************************)

Leaves(w) == \E t \in TabsOf(w) :
  Len(windows[w].tab_ids) # 1 /\ windows'[w] = Detached(windows[w], t)
Enters(w) == \E t \in TabId \ TabsOf(w) :
  \/ windows'[w].tab_ids = Append(windows[w].tab_ids, t)
  \/ \E n \in Nat : windows'[w].tab_ids = InsertClamped(windows[w].tab_ids, n, t)
Dragged(w) == \E t \in TabsOf(w), n \in Nat :
  windows'[w].tab_ids = InsertClamped(Without(windows[w].tab_ids, t), n, t)

\* A step takes one tab out of a window, or puts one in, or drags one inside, or
\* leaves the list alone.
ListStep(w) ==
  windows'[w].tab_ids = windows[w].tab_ids \/ Leaves(w) \/ Enters(w) \/ Dragged(w)

ListSteps == \A w \in DOMAIN windows : Survives(w) => ListStep(w)

\* A window that a tab leaves, and the others beside it.
LEMMA WindowsWithoutStep ==
  ASSUME TypeOK, Structure, NEW t \in DOMAIN tabs, NEW v \in DOMAIN windows,
         v \in DOMAIN WindowsWithout(tabs[t].window_id, t)
  PROVE  LET w == tabs[t].window_id IN
         IF v = w THEN /\ t \in TabsOf(w) /\ Len(windows[w].tab_ids) # 1
                       /\ WindowsWithout(w, t)[v] = Detached(windows[w], t)
                  ELSE WindowsWithout(w, t)[v] = windows[v]
<1> DEFINE w == tabs[t].window_id
<1>1. w \in DOMAIN windows /\ t \in TabsOf(w)
  BY DEF Structure, TabsOf
<1>2. CASE Len(windows[w].tab_ids) = 1
  BY <1>2 DEF WindowsWithout, Drop
<1>3. CASE Len(windows[w].tab_ids) # 1
  BY <1>1, <1>3 DEF WindowsWithout
<1>4. QED
  BY <1>2, <1>3

\* A drag inside a window: only its list changes, and it is dragged.
LEMMA ReorderStep ==
  ASSUME TypeOK, Structure, NEW t \in TabId, NEW n \in Nat, ReorderTab(t, n)
  PROVE  ListSteps
<1> DEFINE w == tabs[t].window_id
<1>1. w \in DOMAIN windows /\ t \in TabsOf(w)
  BY DEF ReorderTab, Structure, TabsOf
<1>2. /\ windows'[w].tab_ids = InsertClamped(Without(windows[w].tab_ids, t), n, t)
      /\ \A v \in DOMAIN windows : v # w => windows'[v] = windows[v]
  <2>1. windows[w] \in Window
    BY <1>1 DEF TypeOK
  <2>2. QED
    BY <1>1, <2>1 DEF ReorderTab, Window
<1>3. QED
  BY <1>1, <1>2 DEF ListSteps, ListStep, Dragged

\* Every step of the tab manager is one of these.
LEMMA EveryListStep ==
  ASSUME TypeOK, Structure, [Next]_vars
  PROVE  ListSteps
<1>1. Positions \subseteq Nat
  BY SMT DEF Positions
<1>2. ASSUME NEW w \in WindowId, NEW t \in TabId, CreateWindow(w, t) PROVE ListSteps
  BY <1>2 DEF CreateWindow, FreshWindow, Put, ListSteps, ListStep
<1>3. ASSUME NEW w \in WindowId, CloseWindow(w) PROVE ListSteps
  BY <1>3 DEF CloseWindow, Drop, ListSteps, ListStep, Survives
<1>4. ASSUME NEW w \in WindowId, NEW t \in TabId, NEW p \in Page, CreateTab(w, t, p)
      PROVE  ListSteps
  <2>1. t \notin TabsOf(w)
    BY <1>4 DEF CreateTab, FreshTab, Structure, TabsOf
  <2>2. /\ windows'[w].tab_ids = Append(windows[w].tab_ids, t)
        /\ \A v \in DOMAIN windows : v # w => windows'[v] = windows[v]
    BY <1>4 DEF CreateTab
  <2>3. QED
    BY <2>1, <2>2 DEF ListSteps, ListStep, Enters
<1>5. ASSUME NEW t \in TabId, CloseTab(t) PROVE ListSteps
  <2>1. t \in DOMAIN tabs /\ windows' = WindowsWithout(tabs[t].window_id, t)
    BY <1>5 DEF CloseTab
  <2>2. QED
    BY <2>1, WindowsWithoutStep DEF ListSteps, ListStep, Leaves, Survives
<1>6. ASSUME NEW t \in TabId, ActivateTab(t) PROVE ListSteps
  <2>1. tabs[t].window_id \in DOMAIN windows
    BY <1>6 DEF ActivateTab, Structure
  <2>2. windows[tabs[t].window_id] \in Window
    BY <2>1 DEF TypeOK
  <2>3. \A v \in DOMAIN windows : windows'[v].tab_ids = windows[v].tab_ids
    BY <1>6, <2>1, <2>2 DEF ActivateTab, Window
  <2>4. QED
    BY <2>3 DEF ListSteps, ListStep
<1>7. ASSUME NEW t \in TabId, NEW i \in Positions, ReorderTab(t, i) PROVE ListSteps
  BY <1>1, <1>7, ReorderStep
<1>8. ASSUME NEW t \in TabId, NEW w \in WindowId, NEW i \in Positions, MoveTab(t, w, i)
      PROVE  ListSteps
  <2>1. CASE ReorderTab(t, i)
    BY <1>1, <2>1, ReorderStep
  <2>2. CASE ~ReorderTab(t, i)
    <3> DEFINE left == WindowsWithout(tabs[t].window_id, t)
    <3>1. /\ w \in DOMAIN windows /\ t \in DOMAIN tabs /\ tabs[t].window_id # w
          /\ windows' = [left EXCEPT ![w] = [tab_ids |-> InsertClamped(@.tab_ids, i, t),
                                             active_tab_id |-> t]]
      BY <1>8, <2>2 DEF MoveTab
    <3>2. t \notin TabsOf(w)
      BY <3>1 DEF Structure, TabsOf
    <3>3. w \in DOMAIN left
      BY <3>1, TabLeavesWindow
    <3>4. left[w] = windows[w]
      BY <3>1, <3>3, WindowsWithoutStep
    <3> HIDE DEF left
    <3>5. /\ windows'[w].tab_ids = InsertClamped(windows[w].tab_ids, i, t)
          /\ DOMAIN windows' = DOMAIN left
          /\ \A v \in DOMAIN left : v # w => windows'[v] = left[v]
      BY <3>1, <3>3, <3>4
    <3>6. ListStep(w)
      BY <1>1, <3>2, <3>5 DEF ListStep, Enters
    <3>7. ASSUME NEW v \in DOMAIN windows, v # w, Survives(v)
          PROVE  ListStep(v)
      <4>1. v \in DOMAIN left /\ windows'[v] = left[v]
        BY <3>5, <3>7 DEF Survives
      <4>2. QED
        BY <3>1, <4>1, WindowsWithoutStep DEF left, ListStep, Leaves
    <3>8. QED
      BY <3>6, <3>7 DEF ListSteps
  <2>3. QED
    BY <2>1, <2>2
<1>9. ASSUME NEW t \in TabId, NEW p \in Page, NotifyCommitted(t, p) PROVE ListSteps
  BY <1>9 DEF NotifyCommitted, ListSteps, ListStep
<1>10. ASSUME NEW w \in WindowId, ReopenClosedTab(w) PROVE ListSteps
  BY <1>10 DEF ReopenClosedTab, ListSteps, ListStep
<1>11. ASSUME NEW w \in WindowId, NEW list, NEW i, NEW pages, RestoreWindow(w, list, pages, i)
       PROVE  ListSteps
  BY <1>11 DEF RestoreWindow, FreshWindow, Put, ListSteps, ListStep
<1>12. CASE UNCHANGED vars
  BY <1>12 DEF vars, ListSteps, ListStep
<1>13. QED
  BY <1>2, <1>3, <1>4, <1>5, <1>6, <1>7, <1>8, <1>9, <1>10, <1>11, <1>12 DEF Next

(***************************************************************************)
(* The focus                                                               *)
(***************************************************************************)

\* The tab beside the one that left is where the focus goes.
LEMMA NeighbourTakesFocus ==
  ASSUME NEW window, WindowOK(window), Len(window.tab_ids) # 1
  PROVE  LET list == window.tab_ids
             t    == window.active_tab_id
             i    == IndexOf(list, t)
         IN  Detached(window, t).active_tab_id = IF i < Len(list) THEN list[i + 1] ELSE list[i - 1]
<1> DEFINE list == window.tab_ids
           t    == window.active_tab_id
           i    == IndexOf(list, t)
           rest == Without(list, t)
           next == IF i < Len(rest) THEN i ELSE Len(rest)
<1>1. /\ list \in Seq(TabId) /\ IsInjective(list) /\ t \in ToSet(list) /\ list # <<>>
  BY DEF WindowOK, Window
<1>2. Len(list) \in Nat /\ Len(list) > 0 /\ Len(list) # 1 /\ i \in 1 .. Len(list)
  BY <1>1, IndexOfElement, LenProperties, NonEmptyList
<1>3. /\ Len(rest) = Len(list) - 1
      /\ \A j \in 1 .. Len(list) - 1 : rest[j] = IF j < i THEN list[j] ELSE list[j + 1]
  BY <1>1, <1>2, RemoveAtElements DEF Without
<1>4. Detached(window, t).active_tab_id = rest[next]
  BY DEF Detached
<1> HIDE DEF list, t, i, rest
<1>5. CASE i < Len(list)
  <2>1. next = i /\ i \in 1 .. Len(list) - 1
    BY <1>2, <1>3, <1>5, SMT
  <2>2. rest[i] = list[i + 1]
    BY <1>2, <1>3, <2>1, SMT
  <2>3. QED
    BY <1>4, <1>5, <2>1, <2>2 DEF list, t, i
<1>6. CASE ~(i < Len(list))
  <2>1. next = i - 1 /\ i - 1 \in 1 .. Len(list) - 1 /\ i - 1 < i
    BY <1>2, <1>3, <1>6, SMT
  <2>2. rest[i - 1] = list[i - 1]
    BY <1>3, <2>1
  <2>3. QED
    BY <1>4, <1>6, <2>1, <2>2 DEF list, t, i
<1>7. QED
  BY <1>5, <1>6

\* Only a tab that is detached disappears from a window that survives.
LEMMA FocusStep ==
  ASSUME Inv, [Next]_vars
  PROVE  FocusGoesToNeighbour
<1>1. SUFFICES ASSUME NEW w \in DOMAIN windows, Survives(w),
                      windows[w].active_tab_id \notin ToSet(windows'[w].tab_ids)
               PROVE  LET list == windows[w].tab_ids
                          i    == Index(w, windows[w].active_tab_id)
                      IN  windows'[w].active_tab_id =
                            IF i < Len(list) THEN list[i + 1] ELSE list[i - 1]
  BY DEF FocusGoesToNeighbour
<1> DEFINE list == windows[w].tab_ids
           t    == windows[w].active_tab_id
<1>2. /\ WindowOK(windows[w])
      /\ list \in Seq(TabId) /\ IsInjective(list) /\ t \in ToSet(list) /\ t \in TabId
  BY DEF Inv, Structure, WindowOK, Window
<1>3. ListStep(w)
  BY <1>1, EveryListStep DEF Inv, ListSteps
<1>4. ~Enters(w)
  <2>1. ASSUME NEW u \in TabId \ TabsOf(w), windows'[w].tab_ids = Append(list, u)
        PROVE  FALSE
    <3>1. t \in ToSet(Append(list, u))
      BY <1>2, AppendRange
    <3>2. QED
      BY <1>1, <2>1, <3>1
  <2>2. ASSUME NEW u \in TabId \ TabsOf(w), NEW n \in Nat,
               windows'[w].tab_ids = InsertClamped(list, n, u)
        PROVE  FALSE
    <3>1. t \in ToSet(InsertClamped(list, n, u))
      BY <1>2, InsertClampedElement DEF TabsOf
    <3>2. QED
      BY <1>1, <2>2, <3>1
  <2>3. QED
    BY <2>1, <2>2 DEF Enters
<1>5. ~Dragged(w)
  <2>1. ASSUME NEW u \in TabsOf(w), NEW n \in Nat,
               windows'[w].tab_ids = InsertClamped(Without(list, u), n, u)
        PROVE  FALSE
    <3>1. /\ Without(list, u) \in Seq(TabId) /\ IsInjective(Without(list, u))
          /\ ToSet(Without(list, u)) = ToSet(list) \ {u} /\ u \in TabId
      BY <1>2, WithoutElement, RangeIndex, ElementOfSeq DEF TabsOf
    <3>2. ToSet(windows'[w].tab_ids) = (ToSet(list) \ {u}) \cup {u}
      BY <2>1, <3>1, InsertClampedElement
    <3>3. QED
      BY <1>1, <1>2, <3>2
  <2>2. QED
    BY <2>1 DEF Dragged
<1>6. PICK u \in TabsOf(w) : Len(list) # 1 /\ windows'[w] = Detached(windows[w], u)
  BY <1>1, <1>2, <1>3, <1>4, <1>5 DEF ListStep, Leaves
<1>7. u = t
  <2>1. ToSet(windows'[w].tab_ids) = ToSet(list) \ {u}
    BY <1>2, <1>6, DetachedWindow DEF TabsOf
  <2>2. QED
    BY <1>1, <1>2, <2>1
<1>8. QED
  BY <1>2, <1>6, <1>7, NeighbourTakesFocus DEF Index

\* US2-AC2 for any number of tabs: when the tab in front leaves a window that
\* survives, its right neighbour gets the focus, or the left one at the end.
THEOREM FocusHolds == Spec => FocusProperty
<1>1. Inv /\ [Next]_vars => FocusGoesToNeighbour
  BY FocusStep
<1>2. QED
  BY <1>1, InvHolds, PTL DEF Spec, FocusProperty

(***************************************************************************)
(* The order                                                               *)
(***************************************************************************)

\* Two lists have the elements of a set in the same order.
SameOrder(s, r, S) ==
  \A x, y \in S : IndexOf(s, x) < IndexOf(s, y) <=> IndexOf(r, x) < IndexOf(r, y)

LEMMA OrderWithoutElement ==
  ASSUME NEW S, NEW s \in Seq(S), IsInjective(s), NEW t \in ToSet(s)
  PROVE  SameOrder(s, Without(s, t), ToSet(s) \ {t})
<1>1. SUFFICES ASSUME NEW x \in ToSet(s) \ {t}, NEW y \in ToSet(s) \ {t}
               PROVE  IndexOf(s, x) < IndexOf(s, y)
                        <=> IndexOf(Without(s, t), x) < IndexOf(Without(s, t), y)
  BY DEF SameOrder
<1>2. \A z \in {x, y, t} : IndexOf(s, z) \in Nat
  BY IndexOfElement, LenProperties, SMT
<1>3. IndexOf(s, x) # IndexOf(s, t) /\ IndexOf(s, y) # IndexOf(s, t)
  BY IndexOfElement
<1>4. \A z \in {x, y} : IndexOf(Without(s, t), z) =
        IF IndexOf(s, z) < IndexOf(s, t) THEN IndexOf(s, z) ELSE IndexOf(s, z) - 1
  BY IndexWithout
<1>5. \A i, j, k, a, b \in Nat :
        /\ i # k /\ j # k
        /\ a = (IF i < k THEN i ELSE i - 1) /\ b = (IF j < k THEN j ELSE j - 1)
        => (i < j <=> a < b)
  BY SMT
<1>6. /\ IndexOf(Without(s, t), x) \in Nat
      /\ IndexOf(Without(s, t), y) \in Nat
  BY WithoutElement, IndexOfElement, LenProperties, SMT
<1>7. QED
  BY <1>2, <1>3, <1>4, <1>5, <1>6

LEMMA OrderInsertElement ==
  ASSUME NEW S, NEW s \in Seq(S), IsInjective(s), NEW t \in S, t \notin ToSet(s), NEW n \in Nat
  PROVE  SameOrder(s, InsertClamped(s, n, t), ToSet(s))
<1>1. SUFFICES ASSUME NEW x \in ToSet(s), NEW y \in ToSet(s)
               PROVE  IndexOf(s, x) < IndexOf(s, y)
                        <=> IndexOf(InsertClamped(s, n, t), x) < IndexOf(InsertClamped(s, n, t), y)
  BY DEF SameOrder
<1>2. IndexOf(s, x) \in Nat /\ IndexOf(s, y) \in Nat
  BY IndexOfElement, LenProperties, SMT
<1>3. \A z \in {x, y} : IndexOf(InsertClamped(s, n, t), z) =
        IF IndexOf(s, z) <= n THEN IndexOf(s, z) ELSE IndexOf(s, z) + 1
  BY IndexInsert
<1>4. \A i, j \in Nat :
        i < j <=> (IF i <= n THEN i ELSE i + 1) < (IF j <= n THEN j ELSE j + 1)
  BY SMT
<1>5. QED
  BY <1>2, <1>3, <1>4

LEMMA OrderAppendElement ==
  ASSUME NEW S, NEW s \in Seq(S), IsInjective(s), NEW t \in S, t \notin ToSet(s)
  PROVE  SameOrder(s, Append(s, t), ToSet(s))
BY IndexAppend DEF SameOrder

\* The tabs a step leaves in a window, but for one that is dragged inside it, stay
\* in order.
LEMMA OrderStep ==
  ASSUME Inv, [Next]_vars
  PROVE  OthersKeepOrder
<1>1. SUFFICES ASSUME NEW w \in DOMAIN windows, Survives(w)
               PROVE  \E dragged \in TabId : SameOrder(windows[w].tab_ids, windows'[w].tab_ids,
                        IF ToSet(windows'[w].tab_ids) = TabsOf(w)
                        THEN (TabsOf(w) \cap ToSet(windows'[w].tab_ids)) \ {dragged}
                        ELSE TabsOf(w) \cap ToSet(windows'[w].tab_ids))
  BY DEF OthersKeepOrder, SameOrder, Index
<1> DEFINE list  == windows[w].tab_ids
           after == windows'[w].tab_ids
           focus == windows[w].active_tab_id
<1>2. /\ WindowOK(windows[w])
      /\ list \in Seq(TabId) /\ IsInjective(list) /\ focus \in TabId
      /\ TabsOf(w) = ToSet(list) /\ \A t \in TabsOf(w) : t \in TabId
  <2>1. WindowOK(windows[w])
    BY DEF Inv, Structure
  <2>2. list \in Seq(TabId) /\ IsInjective(list) /\ focus \in TabId /\ TabsOf(w) = ToSet(list)
    BY <2>1 DEF WindowOK, Window, TabsOf
  <2>3. \A t \in TabsOf(w) : t \in TabId
    BY <2>2, RangeIndex, ElementOfSeq
  <2>4. QED
    BY <2>1, <2>2, <2>3
<1>3. ListStep(w)
  BY <1>1, EveryListStep DEF Inv, ListSteps
<1>4. CASE after = list
  BY <1>2, <1>4 DEF SameOrder
<1>5. ASSUME NEW t \in TabsOf(w), Len(list) # 1, windows'[w] = Detached(windows[w], t)
      PROVE  SameOrder(list, after, ToSet(list) \ {t}) /\ ToSet(after) = ToSet(list) \ {t}
  <2>1. after = Without(list, t)
    BY <1>5 DEF Detached
  <2>2. QED
    BY <1>2, <2>1, OrderWithoutElement, WithoutElement
<1>6. ASSUME NEW t \in TabId \ TabsOf(w), after = Append(list, t)
      PROVE  SameOrder(list, after, ToSet(list))
  BY <1>2, <1>6, OrderAppendElement
<1>7. ASSUME NEW t \in TabId \ TabsOf(w), NEW n \in Nat, after = InsertClamped(list, n, t)
      PROVE  SameOrder(list, after, ToSet(list))
  BY <1>2, <1>7, OrderInsertElement
<1>8. ASSUME NEW t \in TabsOf(w), NEW n \in Nat, after = InsertClamped(Without(list, t), n, t)
      PROVE  SameOrder(list, after, ToSet(list) \ {t}) /\ ToSet(after) = ToSet(list)
  <2> DEFINE rest == Without(list, t)
  <2>1. /\ rest \in Seq(TabId) /\ IsInjective(rest)
        /\ ToSet(rest) = ToSet(list) \ {t} /\ t \in TabId
        /\ SameOrder(list, rest, ToSet(list) \ {t})
    BY <1>2, WithoutElement, OrderWithoutElement
  <2> HIDE DEF rest
  <2>2. /\ SameOrder(rest, InsertClamped(rest, n, t), ToSet(rest))
        /\ ToSet(InsertClamped(rest, n, t)) = ToSet(rest) \cup {t}
    <3>1. t \notin ToSet(rest)
      BY <2>1
    <3>2. SameOrder(rest, InsertClamped(rest, n, t), ToSet(rest))
      BY <2>1, <3>1, OrderInsertElement
    <3>3. ToSet(InsertClamped(rest, n, t)) = ToSet(rest) \cup {t}
      BY <2>1, <3>1, InsertClampedElement
    <3>4. QED
      BY <3>2, <3>3
  <2>3. after = InsertClamped(rest, n, t)
    BY <1>8 DEF rest
  <2> HIDE DEF after, list
  <2>4. SameOrder(list, after, ToSet(list) \ {t})
    BY <2>1, <2>2, <2>3 DEF SameOrder
  <2>5. QED
    BY <1>2, <2>1, <2>2, <2>3, <2>4
<1> HIDE DEF list, after
<1>9. \A A, B : B \subseteq A /\ SameOrder(list, after, A) => SameOrder(list, after, B)
  BY DEF SameOrder
<1>10. \E d \in TabId : \E A :
         /\ SameOrder(list, after, A)
         /\ \/ ToSet(list) \subseteq A
            \/ A = ToSet(list) \ {d} /\ d \notin ToSet(after)
            \/ A = ToSet(list) \ {d} /\ ToSet(after) = ToSet(list)
  <2>1. CASE after = list
    BY <1>2, <2>1 DEF SameOrder
  <2>2. CASE Leaves(w)
    BY <1>2, <1>5, <2>2 DEF Leaves, list
  <2>3. CASE Enters(w)
    BY <1>2, <1>6, <1>7, <2>3 DEF Enters, list, after
  <2>4. CASE Dragged(w)
    BY <1>2, <1>8, <2>4 DEF Dragged, list, after
  <2>5. QED
    BY <1>3, <2>1, <2>2, <2>3, <2>4 DEF ListStep, list, after
<1>11. QED
  BY <1>2, <1>9, <1>10 DEF list, after

\* For any number of tabs: a drag moves one tab of a window, and one that enters
\* or leaves moves none; the others keep their relative order.
THEOREM OrderHolds == Spec => OrderProperty
<1>1. Inv /\ [Next]_vars => OthersKeepOrder
  BY OrderStep
<1>2. QED
  BY <1>1, InvHolds, PTL DEF Spec, OrderProperty

(***************************************************************************)
(* Reopening                                                               *)
(***************************************************************************)

\* Closing never shortens the ring.
LEMMA RememberLength ==
  ASSUME Inv, NEW list \in Seq(TabId), ToSet(list) \subseteq DOMAIN tabs
  PROVE  Len(Remember(closed, list)) >= Len(closed)
<1>1. Len(closed) \in Nat /\ Len(list) \in Nat /\ Len(closed) <= RingSize
  BY LenProperties DEF Inv, TypeOK, RingBounded
<1>2. Len(Remember(closed, list)) =
        IF Len(closed) + Len(list) > RingSize THEN RingSize ELSE Len(closed) + Len(list)
  BY RememberInv DEF Inv
<1>3. QED
  BY <1>1, <1>2, RingSizeIsPos, SMT

\* The position taken is the last of the window's, or the last of all when the
\* window has none.
LEMMA ReopenTakesNewest ==
  ASSUME Inv, NEW w \in WindowId, closed # <<>>
  PROVE  LET i == ReopenIndex(w) IN
         /\ i \in DOMAIN closed
         /\ \A j \in i + 1 .. Len(closed) : closed[j].window_id # closed[i].window_id
<1> DEFINE i == ReopenIndex(w)
           ofWindow == {k \in DOMAIN closed : closed[k].window_id = w}
<1>1. Len(closed) \in Nat /\ Len(closed) > 0 /\ DOMAIN closed = 1 .. Len(closed)
  BY LenProperties, NonEmptyList DEF Inv, TypeOK
<1>2. CASE ofWindow = {}
  <2>1. i = Len(closed)
    BY <1>2 DEF ReopenIndex
  <2> HIDE DEF i
  <2>2. i \in 1 .. Len(closed) /\ i + 1 .. Len(closed) = {}
    BY <1>1, <2>1, SMT
  <2>3. QED
    BY <1>1, <2>2 DEF i
<1>3. CASE ofWindow # {}
  <2>1. i = Max(ofWindow)
    BY <1>3 DEF ReopenIndex
  <2>2. ofWindow \in SUBSET (1 .. Len(closed))
    BY <1>1
  <2> HIDE DEF i, ofWindow
  <2>3. i \in ofWindow /\ \A y \in ofWindow : i >= y
    <3>1. \E x \in ofWindow : \A y \in ofWindow : x >= y
      BY <1>1, <1>3, <2>2, MaxOfInterval
    <3>2. QED
      BY <2>1, <3>1 DEF Max
  <2>4. i \in 1 .. Len(closed)
    BY <2>2, <2>3
  <2>5. ASSUME NEW j \in i + 1 .. Len(closed)
        PROVE  closed[j].window_id # closed[i].window_id
    <3>1. j \in 1 .. Len(closed) /\ ~(i >= j)
      BY <1>1, <2>4, SMT
    <3>2. j \notin ofWindow
      BY <2>3, <3>1
    <3>3. closed[j].window_id # w /\ closed[i].window_id = w
      BY <1>1, <2>3, <3>1, <3>2 DEF ofWindow
    <3>4. QED
      BY <3>3
  <2>6. QED
    BY <1>1, <2>4, <2>5 DEF i
<1>4. QED
  BY <1>2, <1>3

\* Only a reopening takes an entry without a new one pressing.
LEMMA ReopenStep ==
  ASSUME Inv, [Next]_vars
  PROVE  ReopenTakesNewestOfItsWindow
<1>1. Len(closed) \in Nat /\ closed \in Seq(ClosedTab)
  BY LenProperties DEF Inv, TypeOK
<1>2. ASSUME closed' = closed PROVE ReopenTakesNewestOfItsWindow
  <2>1. ~(Len(closed') < Len(closed))
    BY <1>1, <1>2, SMT
  <2>2. QED
    BY <2>1 DEF ReopenTakesNewestOfItsWindow
<1>3. ASSUME NEW list \in Seq(TabId), ToSet(list) \subseteq DOMAIN tabs,
             closed' = Remember(closed, list)
      PROVE  ReopenTakesNewestOfItsWindow
  <2>1. Remember(closed, list) \in Seq(ClosedTab)
    BY <1>3, RememberInv DEF Inv
  <2>2. Len(closed') >= Len(closed) /\ Len(closed') \in Nat
    BY <1>3, <2>1, RememberLength, LenProperties
  <2>3. ~(Len(closed') < Len(closed))
    BY <1>1, <2>2, SMT
  <2>4. QED
    BY <2>3 DEF ReopenTakesNewestOfItsWindow
<1>4. ASSUME NEW w \in WindowId, ReopenClosedTab(w) PROVE ReopenTakesNewestOfItsWindow
  <2>1. /\ closed # <<>> /\ closed' = RemoveAt(closed, ReopenIndex(w))
        /\ UNCHANGED <<windows, tabs>>
    BY <1>4 DEF ReopenClosedTab
  <2>2. QED
    BY <2>1, ReopenTakesNewest DEF ReopenTakesNewestOfItsWindow
<1>5. ASSUME NEW w \in WindowId, CloseWindow(w) PROVE ReopenTakesNewestOfItsWindow
  <2>1. windows[w].tab_ids \in Seq(TabId) /\ ToSet(windows[w].tab_ids) \subseteq DOMAIN tabs
    BY <1>5 DEF CloseWindow, Inv, Structure, WindowOK, Window
  <2>2. QED
    BY <1>3, <1>5, <2>1 DEF CloseWindow
<1>6. ASSUME NEW t \in TabId, CloseTab(t) PROVE ReopenTakesNewestOfItsWindow
  <2> DEFINE list == <<t>>
  <2>1. list \in Seq(TabId) /\ ToSet(list) = {t}
    BY SMT DEF ToSet
  <2>2. t \in DOMAIN tabs /\ closed' = Remember(closed, list)
    BY <1>6 DEF CloseTab
  <2> HIDE DEF list
  <2>3. QED
    BY <1>3, <2>1, <2>2
<1>7. QED
  BY <1>2, <1>4, <1>5, <1>6
  DEF Next, vars, CreateWindow, CreateTab, ActivateTab, ReorderTab, MoveTab, NotifyCommitted,
      RestoreWindow

\* FR-015 for any ring: reopening takes one entry and none newer than it was closed
\* in the same window; the entries it leaves keep their order.
THEOREM ReopenHolds == Spec => ReopenProperty
<1>1. Inv /\ [Next]_vars => ReopenTakesNewestOfItsWindow
  BY ReopenStep
<1>2. QED
  BY <1>1, InvHolds, PTL DEF Spec, ReopenProperty

(***************************************************************************)
(* What closing leaves in the ring                                         *)
(***************************************************************************)

\* The newest n of a list are its last ones.
LEMMA NewestAreLast ==
  ASSUME NEW S, NEW s \in Seq(S), NEW n \in Nat \ {0}
  PROVE  \A i \in 1 .. Len(Newest(s, n)) :
           Newest(s, n)[i] = s[Len(s) - Len(Newest(s, n)) + i]
<1> DEFINE r == Newest(s, n)
<1>1. Len(s) \in Nat
  BY LenProperties
<1>2. Len(r) = IF Len(s) > n THEN n ELSE Len(s)
  BY NewestElements
<1>3. CASE Len(s) > n
  <2> DEFINE u == SubSeq(s, Len(s) - n + 1, Len(s))
             m == Len(s) - n + 1
  <2>1. m \in 1 .. Len(s) + 1 /\ Len(s) \in 0 .. Len(s) /\ Len(r) = n
    BY <1>1, <1>2, <1>3, SMT
  <2>2. r = u
    BY <1>3 DEF Newest
  <2>3. u = SubSeq(s, m, Len(s))
    OBVIOUS
  <2> HIDE DEF u, r, m
  <2>4. \A i \in 1 .. Len(u) : u[i] = s[m + i - 1]
    BY <2>1, <2>3, SubSeqElements
  <2>5. SUFFICES ASSUME NEW i \in 1 .. Len(r)
                 PROVE  r[i] = s[Len(s) - Len(r) + i]
    BY DEF r
  <2>6. m + i - 1 = Len(s) - Len(r) + i
    BY <1>1, <2>1, SMT DEF m
  <2>7. QED
    BY <2>2, <2>4, <2>6
<1>4. CASE ~(Len(s) > n)
  <2>1. r = s
    BY <1>4 DEF Newest
  <2> HIDE DEF r
  <2>2. \A i \in 1 .. Len(r) : Len(s) - Len(r) + i = i
    BY <1>1, <2>1, SMT
  <2>3. QED
    BY <2>1, <2>2 DEF r
<1>5. QED
  BY <1>3, <1>4

\* A list is the end of another: position for position, counted from the end.
LEMMA SuffixElements ==
  ASSUME NEW S, NEW s \in Seq(S), NEW t \in Seq(S)
  PROVE  IsSuffix(s, t) <=>
           /\ Len(s) <= Len(t)
           /\ \A i \in 1 .. Len(s) : s[i] = t[Len(t) - Len(s) + i]
<1> DEFINE a == Reverse(s)
           b == Reverse(t)
           m == Len(s)
           n == Len(t)
<1>1. m \in Nat /\ n \in Nat /\ s = [i \in 1 .. m |-> s[i]] /\ t = [i \in 1 .. n |-> t[i]]
      /\ (\A i \in 1 .. m : s[i] \in S) /\ (\A i \in 1 .. n : t[i] \in S)
  BY LenProperties, ElementOfSeq
<1>2. /\ a \in Seq(S) /\ Len(a) = m
      /\ \A i \in 1 .. m : a[i] = s[m - i + 1]
  <2> DEFINE e(i) == s[m - i + 1]
  <2>1. \A i \in 1 .. m : e(i) \in S
    BY <1>1, SMT
  <2>2. a = [i \in 1 .. m |-> e(i)]
    BY DEF Reverse
  <2> HIDE DEF e, m, a
  <2>3. [i \in 1 .. m |-> e(i)] \in Seq(S)
    BY <1>1, <2>1, IsASeq
  <2>4. a \in Seq(S) /\ DOMAIN a = 1 .. m /\ \A i \in 1 .. m : a[i] = e(i)
    BY <2>2, <2>3
  <2>5. Len(a) = m
    BY <1>1, <2>4, LenProperties, SMT
  <2>6. QED
    BY <2>4, <2>5 DEF e
<1>3. /\ b \in Seq(S) /\ Len(b) = n
      /\ \A i \in 1 .. n : b[i] = t[n - i + 1]
  <2> DEFINE e(i) == t[n - i + 1]
  <2>1. \A i \in 1 .. n : e(i) \in S
    BY <1>1, SMT
  <2>2. b = [i \in 1 .. n |-> e(i)]
    BY DEF Reverse
  <2> HIDE DEF e, n, b
  <2>3. [i \in 1 .. n |-> e(i)] \in Seq(S)
    BY <1>1, <2>1, IsASeq
  <2>4. b \in Seq(S) /\ DOMAIN b = 1 .. n /\ \A i \in 1 .. n : b[i] = e(i)
    BY <2>2, <2>3
  <2>5. Len(b) = n
    BY <1>1, <2>4, LenProperties, SMT
  <2>6. QED
    BY <2>4, <2>5 DEF e
<1>4. IsSuffix(s, t) <=> Len(a) <= Len(b) /\ SubSeq(a, 1, Len(a)) = SubSeq(b, 1, Len(a))
  BY DEF IsSuffix, IsPrefix
<1> HIDE DEF a, b
<1>5. ASSUME m <= n
      PROVE  SubSeq(a, 1, m) = SubSeq(b, 1, m) <=> \A i \in 1 .. m : a[i] = b[i]
  <2> DEFINE u == SubSeq(a, 1, m)
             v == SubSeq(b, 1, m)
  <2>1. 1 \in 1 .. m + 1 /\ m \in 0 .. m /\ 1 \in 1 .. n + 1 /\ m \in 0 .. n
        /\ (1 <= m => m - 1 + 1 = m) /\ (~(1 <= m) => m = 0)
    BY <1>1, <1>5, SMT
  <2> HIDE DEF m, n
  <2>2. /\ u \in Seq(S) /\ Len(u) = m
        /\ \A i \in 1 .. Len(u) : u[i] = a[1 + i - 1]
    BY <1>2, <2>1, SubSeqElements
  <2>3. /\ v \in Seq(S) /\ Len(v) = m
        /\ \A i \in 1 .. Len(v) : v[i] = b[1 + i - 1]
    BY <1>3, <2>1, SubSeqElements
  <2> HIDE DEF u, v
  <2>4. \A i \in 1 .. m : 1 + i - 1 = i
    BY <1>1, SMT
  <2>5. u = v <=> \A i \in 1 .. m : u[i] = v[i]
    BY <2>2, <2>3, SeqEqual
  <2>6. QED
    BY <2>2, <2>3, <2>4, <2>5 DEF u, v
<1>6. ASSUME m <= n
      PROVE  (\A i \in 1 .. m : a[i] = b[i]) <=> \A i \in 1 .. m : s[i] = t[n - m + i]
  <2>0. m \in Nat /\ n \in Nat /\ m <= n
    BY <1>1, <1>6
  <2> HIDE DEF m, n
  <2>1. ASSUME NEW i \in 1 .. m
        PROVE  /\ m - i + 1 \in 1 .. m /\ m - i + 1 \in 1 .. n /\ m - (m - i + 1) + 1 = i
               /\ i \in 1 .. n /\ n - m + (m - i + 1) = n - i + 1
               /\ n - (m - i + 1) + 1 = n - m + i
    BY <2>0, SMT
  <2>2. ASSUME \A i \in 1 .. m : a[i] = b[i], NEW i \in 1 .. m
        PROVE  s[i] = t[n - m + i]
    <3> DEFINE k == m - i + 1
    <3>1. k \in 1 .. m /\ k \in 1 .. n /\ m - k + 1 = i /\ n - k + 1 = n - m + i
      BY <2>1
    <3> HIDE DEF k
    <3>2. a[k] = s[m - k + 1] /\ b[k] = t[n - k + 1] /\ a[k] = b[k]
      BY <1>2, <1>3, <2>2, <3>1
    <3>3. QED
      BY <3>1, <3>2
  <2>3. ASSUME \A i \in 1 .. m : s[i] = t[n - m + i], NEW i \in 1 .. m
        PROVE  a[i] = b[i]
    <3> DEFINE k == m - i + 1
    <3>1. k \in 1 .. m /\ n - m + k = n - i + 1 /\ i \in 1 .. n
      BY <2>1
    <3>2. a[i] = s[k] /\ b[i] = t[n - i + 1]
      BY <1>2, <1>3, <3>1
    <3> HIDE DEF k
    <3>3. s[k] = t[n - m + k]
      BY <2>3, <3>1
    <3>4. QED
      BY <3>1, <3>2, <3>3
  <2>4. QED
    BY <2>2, <2>3
<1>7. QED
  BY <1>2, <1>3, <1>4, <1>5, <1>6

\* The ring after tabs closed is the end of the old ring with their entries behind it.
LEMMA RememberKeepsNewest ==
  ASSUME TypeOK, NEW list \in Seq(TabId), ToSet(list) \subseteq DOMAIN tabs
  PROVE  LET all == closed \o [i \in DOMAIN list |-> tabs[list[i]]] IN
         /\ IsSuffix(Remember(closed, list), all)
         /\ Len(Remember(closed, list)) = IF Len(all) < RingSize THEN Len(all) ELSE RingSize
<1> DEFINE e(i) == tabs[list[i]]
           entries == [i \in DOMAIN list |-> e(i)]
           all == closed \o entries
<1>1. DOMAIN list = 1 .. Len(list) /\ Len(list) \in Nat
  BY LenProperties
<1>2. \A i \in 1 .. Len(list) : e(i) \in ClosedTab
  BY <1>1, ElementInRange DEF TypeOK, Tab, ClosedTab
<1>3. entries \in Seq(ClosedTab)
  <2> HIDE DEF e
  <2>1. [i \in 1 .. Len(list) |-> e(i)] \in Seq(ClosedTab)
    BY <1>1, <1>2, IsASeq
  <2>2. QED
    BY <1>1, <2>1
<1>4. Remember(closed, list) = Newest(all, RingSize)
  BY DEF Remember
<1> DEFINE r == Newest(all, RingSize)
<1> HIDE DEF entries
<1>5. all \in Seq(ClosedTab)
  BY <1>3, ConcatElements DEF TypeOK
<1> HIDE DEF all
<1>6. r \in Seq(ClosedTab) /\ Len(r) = IF Len(all) > RingSize THEN RingSize ELSE Len(all)
  BY <1>5, RingSizeIsPos, NewestElements
<1>7. \A i \in 1 .. Len(r) : r[i] = all[Len(all) - Len(r) + i]
  BY <1>5, RingSizeIsPos, NewestAreLast
<1> HIDE DEF r
<1>8. Len(all) \in Nat
  BY <1>5, LenProperties
<1>9. Len(r) <= Len(all) /\ Len(r) = IF Len(all) < RingSize THEN Len(all) ELSE RingSize
  BY <1>6, <1>8, RingSizeIsPos, SMT
<1>10. IsSuffix(r, all)
  BY <1>5, <1>6, <1>7, <1>9, SuffixElements
<1>11. QED
  BY <1>4, <1>9, <1>10 DEF r, all, entries

\* A stretch of one window that closes satisfies the property.
LEMMA StretchCloses ==
  ASSUME TypeOK, NEW w \in DOMAIN windows, NEW list \in Seq(TabId),
         NEW first \in DOMAIN windows[w].tab_ids, NEW last \in DOMAIN windows[w].tab_ids,
         SubSeq(windows[w].tab_ids, first, last) = list,
         ToSet(list) = DOMAIN tabs \ DOMAIN tabs',
         closed' = Remember(closed, list)
  PROVE  ClosedTabsAreRemembered
<1> DEFINE all == closed \o [i \in DOMAIN list |-> tabs[list[i]]]
<1>1. ToSet(list) \subseteq DOMAIN tabs
  OBVIOUS
<1>2. /\ IsSuffix(closed', all)
      /\ Len(closed') = IF Len(all) < RingSize THEN Len(all) ELSE RingSize
  BY <1>1, RememberKeepsNewest
<1>3. QED
  BY <1>2 DEF ClosedTabsAreRemembered

\* Only closing a tab or a window takes tabs away.
LEMMA RingStep ==
  ASSUME Inv, [Next]_vars
  PROVE  ClosedTabsAreRemembered
<1>1. ASSUME DOMAIN tabs \ DOMAIN tabs' = {} PROVE ClosedTabsAreRemembered
  BY <1>1 DEF ClosedTabsAreRemembered
<1>2. ASSUME NEW t \in TabId, CloseTab(t) PROVE ClosedTabsAreRemembered
  <2> DEFINE w == tabs[t].window_id
             s == windows[w].tab_ids
             list == <<t>>
  <2>1. t \in DOMAIN tabs /\ closed' = Remember(closed, list) /\ tabs' = Drop(tabs, {t})
    BY <1>2 DEF CloseTab
  <2>2. w \in DOMAIN windows /\ t \in ToSet(s) /\ s \in Seq(TabId)
    BY <2>1 DEF Inv, TypeOK, Structure, Window
  <2>3. PICK n \in 1 .. Len(s) : s[n] = t
    BY <2>2, RangeIndex
  <2>4. Len(s) \in Nat /\ DOMAIN s = 1 .. Len(s)
    BY <2>2, LenProperties
  <2>5. SubSeq(s, n, n) = list
    <3> DEFINE u == SubSeq(s, n, n)
    <3>1. n \in 1 .. Len(s) + 1 /\ n \in 0 .. Len(s) /\ n - n + 1 = 1 /\ n <= n /\ n + 1 - 1 = n
      BY <2>4, SMT
    <3> HIDE DEF s
    <3>2. u \in Seq(TabId) /\ Len(u) = 1 /\ \A i \in 1 .. Len(u) : u[i] = s[n + i - 1]
      BY <2>2, <3>1, SubSeqElements
    <3> HIDE DEF u
    <3>3. u[1] = t
      BY <2>3, <3>1, <3>2, SMT
    <3>4. list \in Seq(TabId) /\ Len(list) = 1 /\ list[1] = t
      OBVIOUS
    <3> HIDE DEF list
    <3>5. \A i \in 1 .. 1 : i = 1
      BY SMT
    <3>6. QED
      BY <3>2, <3>3, <3>4, <3>5, SeqEqual DEF u
  <2>6. list \in Seq(TabId) /\ ToSet(list) = {t}
    BY SMT DEF ToSet
  <2>7. DOMAIN tabs \ DOMAIN tabs' = {t}
    BY <2>1 DEF Drop
  <2> HIDE DEF list
  <2>8. SubSeq(windows[w].tab_ids, n, n) = list /\ n \in DOMAIN windows[w].tab_ids
    BY <2>3, <2>4, <2>5
  <2> HIDE DEF w, s
  <2>9. QED
    BY <2>1, <2>2, <2>6, <2>7, <2>8, StretchCloses DEF Inv
<1>3. ASSUME NEW w \in WindowId, CloseWindow(w) PROVE ClosedTabsAreRemembered
  <2> DEFINE s == windows[w].tab_ids
  <2>1. /\ w \in DOMAIN windows /\ closed' = Remember(closed, s)
        /\ tabs' = Drop(tabs, ToSet(s))
    BY <1>3 DEF CloseWindow, TabsOf
  <2>2. s \in Seq(TabId) /\ ToSet(s) \subseteq DOMAIN tabs /\ s # <<>>
    BY <2>1, NonEmptyList DEF Inv, TypeOK, Structure, Window, WindowOK
  <2>3. DOMAIN tabs \ DOMAIN tabs' = ToSet(s)
    BY <2>1, <2>2 DEF Drop
  <2>4. Len(s) > 0 /\ DOMAIN s = 1 .. Len(s) /\ Len(s) \in Nat
    BY <2>2, NonEmptyList, LenProperties
  <2>5. 1 \in DOMAIN s /\ Len(s) \in DOMAIN s
    BY <2>4, SMT
  <2>6. SubSeq(windows[w].tab_ids, 1, Len(s)) = s
    BY <2>2, SubSeqFull
  <2>7. 1 \in DOMAIN windows[w].tab_ids /\ Len(s) \in DOMAIN windows[w].tab_ids
    BY <2>5
  <2> HIDE DEF s
  <2>8. QED
    BY <2>1, <2>2, <2>3, <2>6, <2>7, StretchCloses DEF Inv
<1>4. CASE \/ \E w \in WindowId, t \in TabId : CreateWindow(w, t)
           \/ \E w \in WindowId, t \in TabId, p \in Page : CreateTab(w, t, p)
           \/ \E t \in TabId : ActivateTab(t)
           \/ \E t \in TabId, i \in Positions : ReorderTab(t, i)
           \/ \E t \in TabId, w \in WindowId, i \in Positions : MoveTab(t, w, i)
           \/ \E t \in TabId, p \in Page : NotifyCommitted(t, p)
           \/ \E w \in WindowId : ReopenClosedTab(w)
           \/ UNCHANGED vars
  <2>1. DOMAIN tabs \subseteq DOMAIN tabs'
    BY <1>4
    DEF vars, CreateWindow, CreateTab, ActivateTab, ReorderTab, MoveTab, NotifyCommitted,
        ReopenClosedTab, Put
  <2>2. QED
    BY <1>1, <2>1
<1>5. ASSUME NEW w \in WindowId, NEW list, NEW pages, NEW i, RestoreWindow(w, list, pages, i)
      PROVE  ClosedTabsAreRemembered
  <2>1. DOMAIN tabs \subseteq DOMAIN tabs'
    BY <1>5 DEF RestoreWindow
  <2>2. QED
    BY <1>1, <2>1
<1>6. QED
  BY <1>2, <1>3, <1>4, <1>5 DEF Next

\* FR-015 for any ring: the tabs a step closes are a stretch of one window's list, and
\* end up in its order at the new end of the ring, which only drops its oldest entries.
THEOREM RingHolds == Spec => RingProperty
<1>1. Inv /\ [Next]_vars => ClosedTabsAreRemembered
  BY RingStep
<1>2. QED
  BY <1>1, InvHolds, PTL DEF Spec, RingProperty
===============================================================================
