---------------------------- MODULE DownloadsProofs ----------------------------
(***************************************************************************)
(* Theorems about Downloads: for any downloads, workers, file names, sizes *)
(* and versions.                                                           *)
(***************************************************************************)
EXTENDS Downloads, SequenceTheorems, WellFoundedInduction, TLAPS

(***************************************************************************)
(* The tables on the way from the database to what is settled              *)
(***************************************************************************)

\* Induction over the naturals, for a set instead of a predicate.
LEMMA SetInduction ==
  ASSUME NEW S, 0 \in S, \A n \in Nat : n \in S => n + 1 \in S
  PROVE  \A n \in Nat : n \in S
<1> DEFINE R == OpToRel(<, Nat)
           T == {n \in Nat : n \notin S}
<1>1. SUFFICES ASSUME T # {}
               PROVE  FALSE
  OBVIOUS
<1>2. PICK m \in T : \A k \in T : <<k, m>> \notin R
  <2>1. T \subseteq Nat
    OBVIOUS
  <2> HIDE DEF R, T
  <2>2. QED
    BY <1>1, <2>1, WFMin, NatLessThanWellFounded DEF R
<1>3. \A k \in T : ~(k < m)
  BY <1>2 DEF OpToRel
<1>4. m \in Nat /\ m # 0 /\ m \notin S
  OBVIOUS
<1>5. m - 1 \in Nat /\ m - 1 < m /\ (m - 1) + 1 = m
  BY <1>4, SMT
<1>6. m - 1 \in S
  BY <1>3, <1>5
<1>7. QED
  BY <1>4, <1>5, <1>6

\* The recursion has a solution, hence Written is one.
LEMMA WrittenSteps ==
  ASSUME NEW t, NEW S, NEW q \in Seq(S)
  PROVE  /\ Written(t, q)[0] = t
         /\ \A n \in 1 .. Len(q) : Written(t, q)[n] = Applied(Written(t, q)[n - 1], q[n])
<1> DEFINE IsTables(f, n) ==
             f = [k \in 0 .. n |-> IF k = 0 THEN t ELSE Applied(f[k - 1], q[k])]
           Solved == {n \in Nat : \E f : IsTables(f, n)}
<1>1. 0 \in Solved
  <2> DEFINE f == [k \in 0 .. 0 |-> t]
  <2>1. f = [k \in 0 .. 0 |-> IF k = 0 THEN t ELSE Applied(f[k - 1], q[k])]
    BY SMT
  <2>2. IsTables(f, 0)
    BY <2>1
  <2>3. QED
    BY <2>2
<1>2. ASSUME NEW n \in Nat, n \in Solved
      PROVE  n + 1 \in Solved
  <2>1. PICK f : IsTables(f, n)
    BY <1>2
  <2> DEFINE g == [k \in 0 .. n + 1 |-> IF k <= n THEN f[k] ELSE Applied(f[n], q[n + 1])]
  <2>2. ASSUME NEW k \in 0 .. n + 1
        PROVE  g[k] = IF k = 0 THEN t ELSE Applied(g[k - 1], q[k])
    <3>1. CASE k = 0
      <4>1. g[k] = f[0] /\ f[0] = t
        BY <2>1, <3>1
      <4>2. QED
        BY <3>1, <4>1
    <3>2. CASE k \in 1 .. n
      <4>1. k \in 0 .. n /\ k - 1 \in 0 .. n /\ k # 0 /\ k <= n /\ k - 1 <= n /\ k - 1 \in 0 .. n + 1
        BY <3>2, SMT
      <4>2. g[k] = f[k] /\ g[k - 1] = f[k - 1]
        BY <4>1
      <4>3. f[k] = Applied(f[k - 1], q[k])
        BY <2>1, <4>1
      <4>4. QED
        BY <4>1, <4>2, <4>3
    <3>3. CASE k = n + 1
      <4>1. k - 1 = n /\ ~(k <= n) /\ k # 0 /\ n <= n /\ n \in 0 .. n + 1
        BY <3>3, SMT
      <4>2. g[k] = Applied(f[n], q[n + 1]) /\ g[k - 1] = f[n]
        BY <3>3, <4>1
      <4>3. QED
        BY <3>3, <4>1, <4>2
    <3>4. QED
      BY <3>1, <3>2, <3>3, SMT
  <2>3. IsTables(g, n + 1)
    BY <2>2
  <2>4. \E h : IsTables(h, n + 1)
    <3> HIDE DEF g, IsTables
    <3>1. QED
      BY <2>3
  <2>5. n + 1 \in Nat
    BY SMT
  <2>6. QED
    BY <2>4, <2>5
<1>3. Len(q) \in Solved
  <2> HIDE DEF Solved
  <2>1. \A n \in Nat : n \in Solved
    BY <1>1, <1>2, SetInduction
  <2>2. QED
    BY <2>1, LenProperties
<1>4. IsTables(Written(t, q), Len(q))
  BY <1>3 DEF Written
<1>5. Len(q) \in Nat
  BY LenProperties
<1>6. QED
  BY <1>4, <1>5, SMT

\* An operation queued last leaves the tables before it.
LEMMA WrittenAppend ==
  ASSUME NEW t, NEW S, NEW q \in Seq(S), NEW op \in S
  PROVE  /\ \A n \in 0 .. Len(q) : Written(t, Append(q, op))[n] = Written(t, q)[n]
         /\ Written(t, Append(q, op))[Len(q) + 1] = Applied(Written(t, q)[Len(q)], op)
<1> DEFINE r == Append(q, op)
           Same == {n \in Nat : n <= Len(q) => Written(t, r)[n] = Written(t, q)[n]}
<1>1. r \in Seq(S) /\ Len(r) = Len(q) + 1 /\ Len(q) \in Nat /\ r[Len(q) + 1] = op
      /\ \A n \in 1 .. Len(q) : r[n] = q[n]
  BY AppendProperties, LenProperties
<1> HIDE DEF r
<1>2. /\ Written(t, r)[0] = t
      /\ \A n \in 1 .. Len(r) : Written(t, r)[n] = Applied(Written(t, r)[n - 1], r[n])
  BY <1>1, WrittenSteps
<1>3. /\ Written(t, q)[0] = t
      /\ \A n \in 1 .. Len(q) : Written(t, q)[n] = Applied(Written(t, q)[n - 1], q[n])
  BY WrittenSteps
<1>4. 0 \in Same
  BY <1>2, <1>3
<1>5. ASSUME NEW n \in Nat, n \in Same
      PROVE  n + 1 \in Same
  <2>1. n + 1 \in Nat
    BY SMT
  <2>2. SUFFICES ASSUME n + 1 <= Len(q)
                 PROVE  Written(t, r)[n + 1] = Written(t, q)[n + 1]
    BY <2>1
  <2>3. n + 1 \in 1 .. Len(q) /\ n + 1 \in 1 .. Len(r) /\ (n + 1) - 1 = n /\ n <= Len(q)
    BY <1>1, <2>2, SMT
  <2>4. Written(t, r)[n] = Written(t, q)[n]
    BY <1>5, <2>3
  <2>5. Written(t, r)[n + 1] = Applied(Written(t, r)[n], r[n + 1])
    BY <1>2, <2>3
  <2>6. Written(t, q)[n + 1] = Applied(Written(t, q)[n], q[n + 1])
    BY <1>3, <2>3
  <2>7. r[n + 1] = q[n + 1]
    BY <1>1, <2>3
  <2>8. QED
    BY <2>4, <2>5, <2>6, <2>7
<1>6. \A n \in Nat : n \in Same
  <2> HIDE DEF Same
  <2>1. QED
    BY <1>4, <1>5, SetInduction
<1>7. \A n \in 0 .. Len(q) : Written(t, r)[n] = Written(t, q)[n]
  BY <1>1, <1>6, SMT
<1>8. Len(q) + 1 \in 1 .. Len(r) /\ (Len(q) + 1) - 1 = Len(q) /\ Len(q) \in 0 .. Len(q)
  BY <1>1, SMT
<1>9. Written(t, r)[Len(q) + 1] = Applied(Written(t, q)[Len(q)], op)
  BY <1>1, <1>2, <1>7, <1>8
<1>10. QED
  BY <1>7, <1>9 DEF r

\* The writer's step takes the first table away.
LEMMA WrittenTail ==
  ASSUME NEW t, NEW S, NEW q \in Seq(S), q # <<>>
  PROVE  \A n \in 0 .. Len(q) - 1 :
           Written(Applied(t, Head(q)), Tail(q))[n] = Written(t, q)[n + 1]
<1> DEFINE r == Tail(q)
           u == Applied(t, Head(q))
           Same == {n \in Nat : n <= Len(r) => Written(u, r)[n] = Written(t, q)[n + 1]}
<1>1. /\ r \in Seq(S) /\ Len(q) \in Nat \ {0} /\ Len(r) = Len(q) - 1 /\ Head(q) = q[1]
      /\ \A n \in 1 .. Len(r) : r[n] = q[n + 1]
  BY HeadTailProperties, EmptySeq, LenProperties, SMT
<1> HIDE DEF r
<1>2. /\ Written(u, r)[0] = u
      /\ \A n \in 1 .. Len(r) : Written(u, r)[n] = Applied(Written(u, r)[n - 1], r[n])
  BY <1>1, WrittenSteps
<1>3. /\ Written(t, q)[0] = t
      /\ \A n \in 1 .. Len(q) : Written(t, q)[n] = Applied(Written(t, q)[n - 1], q[n])
  BY WrittenSteps
<1>4. 0 \in Same
  <2>1. 1 \in 1 .. Len(q) /\ 1 - 1 = 0 /\ 0 + 1 = 1
    BY <1>1, SMT
  <2>2. Written(t, q)[0 + 1] = Applied(t, q[1])
    BY <1>3, <2>1
  <2>3. QED
    BY <1>1, <1>2, <2>2
<1>5. ASSUME NEW n \in Nat, n \in Same
      PROVE  n + 1 \in Same
  <2>1. n + 1 \in Nat
    BY SMT
  <2>2. SUFFICES ASSUME n + 1 <= Len(r)
                 PROVE  Written(u, r)[n + 1] = Written(t, q)[(n + 1) + 1]
    BY <2>1
  <2>3. /\ n + 1 \in 1 .. Len(r) /\ (n + 1) + 1 \in 1 .. Len(q) /\ (n + 1) - 1 = n
        /\ ((n + 1) + 1) - 1 = n + 1 /\ n <= Len(r)
    BY <1>1, <2>2, SMT
  <2>4. Written(u, r)[n] = Written(t, q)[n + 1]
    BY <1>5, <2>3
  <2>5. Written(u, r)[n + 1] = Applied(Written(u, r)[n], r[n + 1])
    BY <1>2, <2>3
  <2>6. Written(t, q)[(n + 1) + 1] = Applied(Written(t, q)[n + 1], q[(n + 1) + 1])
    BY <1>3, <2>3
  <2>7. r[n + 1] = q[(n + 1) + 1]
    BY <1>1, <2>3
  <2>8. QED
    BY <2>4, <2>5, <2>6, <2>7
<1>6. \A n \in Nat : n \in Same
  <2> HIDE DEF Same
  <2>1. QED
    BY <1>4, <1>5, SetInduction
<1>7. \A n \in 0 .. Len(q) - 1 : Written(u, r)[n] = Written(t, q)[n + 1]
  BY <1>1, <1>6, SMT
<1>8. QED
  BY <1>7 DEF r

(***************************************************************************)
(* What the invariants say about the channel                               *)
(***************************************************************************)

\* The operations queued, and each with those behind it
Ops(q) == {q[n] : n \in 1 .. Len(q)}
Behind(q) ==
  {y \in Ops(q) \X Ops(q) : \E i, j \in 1 .. Len(q) : i < j /\ y = <<q[i], q[j]>>}

\* The tables from the database to what is settled, each operation with the table
\* it will find, and with the tables from it on
Tables(t, q) == {Written(t, q)[n] : n \in 0 .. Len(q)}
Writes(t, q) == {<<Written(t, q)[n - 1], q[n]>> : n \in 1 .. Len(q)}
Since(t, q) ==
  {y \in Ops(q) \X Tables(t, q) :
     \E i, j \in 1 .. Len(q) : i <= j /\ y = <<q[i], Written(t, q)[j]>>}
Final(t, q) == Written(t, q)[Len(q)]

LEMMA SettledIsFinal == Settled = Final(rows, queue)
BY DEF Settled, Final

\* An empty channel
LEMMA NothingQueued ==
  ASSUME NEW t
  PROVE  /\ Ops(<<>>) = {} /\ Behind(<<>>) = {} /\ Writes(t, <<>>) = {}
         /\ Since(t, <<>>) = {} /\ Tables(t, <<>>) = {t} /\ Final(t, <<>>) = t
<1>1. <<>> \in Seq({}) /\ Len(<<>>) = 0
  BY EmptySeq
<1>2. Written(t, <<>>)[0] = t
  BY <1>1, WrittenSteps
<1>3. 1 .. 0 = {} /\ 0 .. 0 = {0}
  BY SMT
<1>4. QED
  BY <1>1, <1>2, <1>3 DEF Ops, Behind, Writes, Since, Tables, Final

\* The ends of the way
LEMMA EndsAreTables ==
  ASSUME NEW t, NEW S, NEW q \in Seq(S)
  PROVE  t \in Tables(t, q) /\ Final(t, q) \in Tables(t, q)
<1>1. 0 \in 0 .. Len(q) /\ Len(q) \in 0 .. Len(q)
  BY LenProperties, SMT
<1>2. QED
  BY <1>1, WrittenSteps DEF Tables, Final

\* Queueing an operation adds what it does to the last table.
LEMMA QueueOne ==
  ASSUME NEW t, NEW S, NEW q \in Seq(S), NEW op \in S
  PROVE  LET r == Append(q, op)
             new == Applied(Final(t, q), op)
         IN /\ Ops(r) = Ops(q) \cup {op}
            /\ Behind(r) \subseteq Behind(q) \cup {<<x, op>> : x \in Ops(q)}
            /\ Final(t, r) = new
            /\ Tables(t, r) = Tables(t, q) \cup {new}
            /\ Writes(t, r) = Writes(t, q) \cup {<<Final(t, q), op>>}
            /\ Since(t, r) \subseteq Since(t, q) \cup {<<x, new>> : x \in Ops(r)}
<1> DEFINE r == Append(q, op)
           new == Applied(Final(t, q), op)
           n1 == Len(q) + 1
           before == Written(t, q)
           after == Written(t, r)
<1>1. r \in Seq(S) /\ Len(r) = n1 /\ Len(q) \in Nat /\ r[n1] = op
      /\ \A n \in 1 .. Len(q) : r[n] = q[n]
  BY AppendProperties, LenProperties
<1>2. /\ \A n \in 0 .. Len(q) : after[n] = before[n]
      /\ after[n1] = new
  BY WrittenAppend DEF Final
<1>3. /\ 1 .. n1 = 1 .. Len(q) \cup {n1}
      /\ 0 .. n1 = 0 .. Len(q) \cup {n1}
      /\ n1 - 1 = Len(q) /\ Len(q) \in 0 .. Len(q)
      /\ \A i \in 1 .. Len(q) : i - 1 \in 0 .. Len(q) /\ i \in 0 .. Len(q) /\ ~(n1 <= i)
  BY <1>1, SMT
<1> HIDE DEF r, new, n1, before, after
<1>4. Ops(r) = Ops(q) \cup {op}
  BY <1>1, <1>3 DEF Ops
<1>5. ASSUME NEW y \in Behind(r)
      PROVE  y \in Behind(q) \cup {<<x, op>> : x \in Ops(q)}
  <2>1. PICK i, j \in 1 .. n1 : i < j /\ y = <<r[i], r[j]>>
    BY <1>1 DEF Behind
  <2>2. i \in 1 .. Len(q)
    BY <1>1, <2>1, SMT DEF n1
  <2>3. r[i] = q[i] /\ q[i] \in Ops(q)
    BY <1>1, <2>2 DEF Ops
  <2>4. CASE j \in 1 .. Len(q)
    <3>1. r[j] = q[j] /\ q[j] \in Ops(q)
      BY <1>1, <2>4 DEF Ops
    <3>2. QED
      BY <2>1, <2>2, <2>3, <2>4, <3>1 DEF Behind
  <2>5. CASE j = n1
    BY <1>1, <2>1, <2>3, <2>5
  <2>6. QED
    BY <1>3, <2>4, <2>5
<1>6. Final(t, r) = new
  BY <1>1, <1>2 DEF Final, after, n1
<1>7. Tables(t, r) = Tables(t, q) \cup {new}
  BY <1>1, <1>2, <1>3 DEF Tables, after, before
<1>8. Writes(t, r) = Writes(t, q) \cup {<<Final(t, q), op>>}
  BY <1>1, <1>2, <1>3 DEF Writes, Final, after, before
<1>9. ASSUME NEW y \in Since(t, r)
      PROVE  y \in Since(t, q) \cup {<<x, new>> : x \in Ops(r)}
  <2>1. PICK i, j \in 1 .. n1 : i <= j /\ y = <<r[i], after[j]>>
    BY <1>1 DEF Since, after
  <2>2. r[i] \in Ops(r)
    BY <1>1 DEF Ops
  <2>3. CASE j \in 1 .. Len(q)
    <3>1. i \in 1 .. Len(q) /\ j \in 0 .. Len(q)
      BY <1>1, <2>1, <2>3, SMT DEF n1
    <3>2. r[i] = q[i] /\ q[i] \in Ops(q) /\ after[j] = before[j] /\ before[j] \in Tables(t, q)
      BY <1>1, <1>2, <3>1 DEF Ops, Tables, before
    <3>3. QED
      BY <2>1, <2>3, <3>1, <3>2 DEF Since, before
  <2>4. CASE j = n1
    BY <1>2, <2>1, <2>2, <2>4
  <2>5. QED
    BY <1>3, <2>3, <2>4
<1>10. QED
  BY <1>4, <1>5, <1>6, <1>7, <1>8, <1>9 DEF r, new

\* The writer's step: what was settled still is, and nothing is new.
LEMMA WriteOne ==
  ASSUME NEW t, NEW S, NEW q \in Seq(S), q # <<>>
  PROVE  LET r == Tail(q)
             u == Applied(t, Head(q))
         IN /\ r \in Seq(S) /\ Head(q) \in Ops(q) /\ Ops(r) \subseteq Ops(q)
            /\ Behind(r) \subseteq Behind(q)
            /\ \A x \in Ops(r) : <<Head(q), x>> \in Behind(q)
            /\ Final(u, r) = Final(t, q)
            /\ Tables(u, r) \subseteq Tables(t, q)
            /\ Writes(u, r) \subseteq Writes(t, q)
            /\ <<t, Head(q)>> \in Writes(t, q)
            /\ Since(u, r) \subseteq Since(t, q)
            /\ \A x \in Tables(u, r) : <<Head(q), x>> \in Since(t, q)
<1> DEFINE r == Tail(q)
           u == Applied(t, Head(q))
           before == Written(t, q)
           after == Written(u, r)
<1>1. /\ r \in Seq(S) /\ Len(q) \in Nat \ {0} /\ Len(r) = Len(q) - 1 /\ Head(q) = q[1]
      /\ \A n \in 1 .. Len(r) : r[n] = q[n + 1]
  BY HeadTailProperties, EmptySeq, LenProperties, SMT
<1>2. \A n \in 0 .. Len(r) : after[n] = before[n + 1]
  BY <1>1, WrittenTail
<1>3. before[0] = t
  BY WrittenSteps
<1>4. /\ 1 \in 1 .. Len(q) /\ 1 - 1 = 0 /\ Len(r) + 1 = Len(q) /\ Len(r) \in 0 .. Len(r)
      /\ \A n \in 1 .. Len(r) : /\ n + 1 \in 1 .. Len(q) /\ 1 < n + 1 /\ n \in 0 .. Len(r)
                                /\ n - 1 \in 0 .. Len(r) /\ (n - 1) + 1 = (n + 1) - 1
      /\ \A n \in 0 .. Len(r) : n + 1 \in 0 .. Len(q) /\ n + 1 \in 1 .. Len(q) /\ 1 <= n + 1
  BY <1>1, SMT
<1>5. \A i, j \in 1 .. Len(r) : (i < j => i + 1 < j + 1) /\ (i <= j => i + 1 <= j + 1)
  BY SMT
<1> HIDE DEF r, u, before, after
<1>6. Head(q) \in Ops(q) /\ Ops(r) \subseteq Ops(q)
  BY <1>1, <1>4 DEF Ops
<1>7. ASSUME NEW y \in Behind(r)
      PROVE  y \in Behind(q)
  <2>1. PICK i, j \in 1 .. Len(r) : i < j /\ y = <<r[i], r[j]>>
    BY DEF Behind
  <2>2. r[i] = q[i + 1] /\ r[j] = q[j + 1] /\ i + 1 < j + 1
        /\ i + 1 \in 1 .. Len(q) /\ j + 1 \in 1 .. Len(q)
    BY <1>1, <1>4, <1>5, <2>1
  <2>3. q[i + 1] \in Ops(q) /\ q[j + 1] \in Ops(q)
    BY <2>2 DEF Ops
  <2>4. QED
    BY <2>1, <2>2, <2>3 DEF Behind
<1>8. ASSUME NEW x \in Ops(r)
      PROVE  <<Head(q), x>> \in Behind(q)
  <2>1. PICK n \in 1 .. Len(r) : x = r[n]
    BY DEF Ops
  <2>2. x = q[n + 1] /\ n + 1 \in 1 .. Len(q) /\ 1 < n + 1
    BY <1>1, <1>4, <2>1
  <2>3. x \in Ops(q)
    BY <2>2 DEF Ops
  <2>4. QED
    BY <1>1, <1>4, <1>6, <2>2, <2>3 DEF Behind
<1>9. Final(u, r) = Final(t, q)
  BY <1>2, <1>4 DEF Final, after, before
<1>10. Tables(u, r) \subseteq Tables(t, q)
  BY <1>2, <1>4 DEF Tables, after, before
<1>11. Writes(u, r) \subseteq Writes(t, q) /\ <<t, Head(q)>> \in Writes(t, q)
  <2>1. ASSUME NEW n \in 1 .. Len(r)
        PROVE  <<after[n - 1], r[n]>> \in Writes(t, q)
    <3>1. after[n - 1] = before[(n + 1) - 1] /\ r[n] = q[n + 1] /\ n + 1 \in 1 .. Len(q)
      BY <1>1, <1>2, <1>4
    <3>2. QED
      BY <3>1 DEF Writes, before
  <2>2. QED
    BY <1>1, <1>3, <1>4, <2>1 DEF Writes, after, before
<1>12. ASSUME NEW y \in Since(u, r)
       PROVE  y \in Since(t, q)
  <2>1. PICK i, j \in 1 .. Len(r) : i <= j /\ y = <<r[i], after[j]>>
    BY DEF Since, after
  <2>2. r[i] = q[i + 1] /\ after[j] = before[j + 1] /\ i + 1 <= j + 1
        /\ i + 1 \in 1 .. Len(q) /\ j + 1 \in 1 .. Len(q) /\ j + 1 \in 0 .. Len(q)
    BY <1>1, <1>2, <1>4, <1>5, <2>1
  <2>3. q[i + 1] \in Ops(q) /\ before[j + 1] \in Tables(t, q)
    BY <2>2 DEF Ops, Tables, before
  <2>4. QED
    BY <2>1, <2>2, <2>3 DEF Since, before
<1>13. ASSUME NEW x \in Tables(u, r)
       PROVE  <<Head(q), x>> \in Since(t, q)
  <2>1. PICK n \in 0 .. Len(r) : x = after[n]
    BY DEF Tables, after
  <2>2. x = before[n + 1] /\ n + 1 \in 1 .. Len(q) /\ n + 1 \in 0 .. Len(q) /\ 1 <= n + 1
    BY <1>2, <1>4, <2>1
  <2>3. x \in Tables(t, q)
    BY <2>2 DEF Tables, before
  <2>4. QED
    BY <1>1, <1>4, <1>6, <2>2, <2>3 DEF Since, before
<1>14. QED
  BY <1>1, <1>6, <1>7, <1>8, <1>9, <1>10, <1>11, <1>12, <1>13 DEF r, u

(***************************************************************************)
(* Calls, workers and rows                                                 *)
(***************************************************************************)

\* The shell calls from one thread and lets the launch pass end first.
OneCaller == LaunchFirst /\ \A c, d \in UserThread : c = d

\* The types of the module without its bounds
RowT == [name : FileName, received : Nat, state : State, etag : Etag]
OpT ==
  [op : {"upsert"}, id : DownloadId, name : FileName]
    \cup [op : {"progress"}, id : DownloadId, received : Nat, etag : Etag]
    \cup [op : {"state"}, id : DownloadId, state : State]
    \cup {MarkStale} \cup [op : {"flush"}, by : Thread]
CallT ==
  [pc : {"idle"}, todo : Todo]
    \cup [pc : {"name", "part", "reserve"}, id : DownloadId, name : FileName, todo : Todo]
    \cup [pc : {"flush"}, then : {"resume", "cancel"}, id : DownloadId, todo : Todo]
    \cup [pc : {"flush"}, then : {"list"}, id : {None}, todo : {{}}]
    \cup [pc : {"resume", "cancel"}, id : DownloadId, todo : Todo]
    \cup [pc : {"list"}, id : {None}, todo : {{}}]
    \cup [pc : {"spawn"}, id : DownloadId, name : FileName, from : Nat,
          etag : Etag, todo : Todo]
    \cup [pc : {"register"}, id : DownloadId, worker : Worker, todo : Todo]
JobT ==
  [pc : {"send", "open", "check", "read", "rename", "settle", "leave"},
   id : DownloadId, name : FileName, from : Nat, etag : Etag,
   control : {"run", "pause", "cancel"}, version : Version \cup {None},
   got : Nat, received : Nat,
   outcome : {"completed", "paused", "cancelled", "interrupted", None}]
ContentT == Seq(Version \X (1 .. Size))

TableT(t) == DOMAIN t \subseteq DownloadId /\ \A id \in DOMAIN t : t[id] \in RowT

Types ==
  /\ \A t \in Tables(rows, queue) : TableT(t)
  /\ queue \in Seq(OpT)
  /\ DOMAIN jobs \subseteq DownloadId /\ \A id \in DOMAIN jobs : jobs[id] \in Worker
  /\ DOMAIN workers \subseteq Worker /\ \A w \in DOMAIN workers : workers[w] \in JobT
  /\ callers = [c \in Thread |-> callers[c]] /\ \A c \in Thread : callers[c] \in CallT
  /\ DOMAIN parts \subseteq FileName /\ \A n \in DOMAIN parts : parts[n] \in ContentT
  /\ DOMAIN dests \subseteq FileName /\ \A n \in DOMAIN dests : dests[n] \in ContentT
  /\ server \in Version
  /\ launched \in BOOLEAN

\* At most one thread is in a call, and before the launch pass none is.
OneAtATime ==
  \A c, d \in Thread : callers[c] # Idle({}) /\ callers[d] # Idle({}) => c = d
NothingBeforeLaunch ==
  ~launched => /\ queue = <<>> /\ jobs = <<>> /\ workers = <<>>
               /\ \A c \in Thread : callers[c] = Idle({})

\* A live worker is in the registry or about to be entered, and who works on a
\* download without a registered worker works on it alone.
Enters(c, w) ==
  callers[c].pc = "register" /\ callers[c].worker = w /\ callers[c].id = workers[w].id
WorkersAreKnown ==
  \A w \in DOMAIN workers :
    \/ workers[w].id \in DOMAIN jobs /\ jobs[workers[w].id] = w
    \/ \E c \in Thread : Enters(c, w)
WorksOn(c) ==
  \/ callers[c].pc \in {"name", "part", "reserve", "resume", "cancel", "spawn", "register"}
  \/ callers[c].pc = "flush" /\ callers[c].then # "list"
CallsAreApart == \A c \in Thread : WorksOn(c) => callers[c].id \notin DOMAIN jobs

\* A flush in the channel is waited for, each thread has one, and behind it nobody
\* writes the row that it was made for: what is read after it is what is settled.
FlushesAreWaitedFor ==
  /\ \A op \in Ops(queue) : op.op = "flush" => callers[op.by].pc = "flush"
  /\ \A y \in Behind(queue) : y[1].op = "flush" /\ y[2].op = "flush" => y[1].by # y[2].by
Agrees(t, id) == id \in DOMAIN t /\ t[id] = Settled[id]
FlushSees ==
  \A y \in Since(rows, queue) :
    y[1].op = "flush" /\ callers[y[1].by].then # "list" => Agrees(y[2], callers[y[1].by].id)
RowIsSettled ==
  \A c \in Thread : callers[c].pc \in {"resume", "cancel"} =>
    \A t \in Tables(rows, queue) : Agrees(t, callers[c].id)

\* The row of a download that is being started, and of one that is transferred
ActiveRow(id, name) ==
  id \in DOMAIN Settled /\ Settled[id].state = "active" /\ Settled[id].name = name
RowOfCall ==
  \A c \in Thread :
    /\ callers[c].pc \in {"name", "part", "reserve"} => callers[c].id \notin DOMAIN Settled
    /\ callers[c].pc = "spawn" => /\ ActiveRow(callers[c].id, callers[c].name)
                                  /\ callers[c].etag = Settled[callers[c].id].etag
Outcome == {"completed", "paused", "cancelled", "interrupted"}
RowOfWorker ==
  \A w \in DOMAIN workers :
    LET job == workers[w]
    IN /\ job.id \in DOMAIN Settled /\ Settled[job.id].name = job.name
       /\ job.pc # "leave" => Settled[job.id].state = "active"
       /\ job.pc = "leave" => Settled[job.id].state = job.outcome
       /\ job.pc = "send" => job.etag = Settled[job.id].etag
       /\ job.pc = "rename" => job.outcome = "completed"
       /\ job.pc \in {"settle", "leave"} => job.outcome \in Outcome
       /\ job.pc \in {"open", "check", "read", "rename"} => job.version \in Version

\* What each operation in the channel finds
Legal(t, op) ==
  /\ op.op = "upsert" => op.id \notin DOMAIN t
  /\ op.op = "progress" => op.id \in DOMAIN t
  /\ op.op = "state" => op.id \in DOMAIN t /\ CanTransition(t[op.id].state, op.state)
LegalWrites == \A y \in Writes(rows, queue) : Legal(y[1], y[2])

\* Rows are added only, and the launch pass resumes what it has seen.
TablesGrow ==
  /\ \A t \in Tables(rows, queue) : DOMAIN t \subseteq DOMAIN Settled
  /\ \A c \in Thread : callers[c].todo \subseteq DOMAIN Settled

Inv ==
  /\ Types
  /\ OneAtATime
  /\ NothingBeforeLaunch
  /\ WorkersAreKnown
  /\ CallsAreApart
  /\ FlushesAreWaitedFor
  /\ FlushSees
  /\ RowIsSettled
  /\ RowOfCall
  /\ RowOfWorker
  /\ ActiveHasTransfer
  /\ LegalWrites
  /\ TablesGrow

(***************************************************************************)
(* Names and files                                                         *)
(***************************************************************************)

\* A cancel that a crash cuts short leaves an active row without a .part, and so does
\* a reservation that fails: the name is free for a second download, unless there is
\* but one.
FilesAreSafe == "crash" \notin Faults /\ "disk" \notin Faults
NoSharedNames == FilesAreSafe \/ \A i, j \in DownloadId : i = j

\* A download holds its name, and its .part, until it is completed or cancelled; its
\* worker renames or drops the .part first.
Over == {"completed", "cancelled"}
GivenUp(w) == workers[w].pc \in {"settle", "leave"} /\ workers[w].outcome \in Over
Holds(id) ==
  /\ id \in DOMAIN Settled
  /\ Settled[id].state \notin Over
  /\ \A w \in DOMAIN workers : workers[w].id = id => ~GivenUp(w)

NamesAreHeld ==
  /\ \A i, j \in DownloadId :
       Holds(i) /\ Holds(j) /\ Settled[i].name = Settled[j].name => i = j
  /\ FilesAreSafe => \A id \in DownloadId : Holds(id) => Settled[id].name \in DOMAIN parts
  /\ \A c \in Thread : callers[c].pc = "reserve" => callers[c].name \notin DOMAIN parts

OnDisk(n) == IF n \in DOMAIN parts THEN Len(parts[n]) ELSE 0
JobOnDisk(job) ==
  /\ job.pc = "send" => job.from = OnDisk(job.name) /\ job.received = job.from
  /\ job.pc = "open" => job.got = 0 \/ job.got = OnDisk(job.name)
  /\ job.pc \in {"check", "read", "rename"} =>
       job.name \in DOMAIN parts /\ Len(parts[job.name]) = job.got
CountsAreOnDisk ==
  /\ \A c \in Thread : callers[c].pc = "spawn" => callers[c].from = OnDisk(callers[c].name)
  /\ \A w \in DOMAIN workers : JobOnDisk(workers[w])

\* The bounds of TypeOK
BoundedChannel ==
  /\ \A t \in Tables(rows, queue) : \A id \in DOMAIN t : t[id].received <= Size
  /\ \A op \in Ops(queue) : op.op = "progress" => op.received <= Size
Bounded ==
  /\ \A c \in Thread : callers[c].pc = "spawn" => callers[c].from <= Size
  /\ \A w \in DOMAIN workers :
       workers[w].from <= Size /\ workers[w].got <= Size /\ workers[w].received <= Size
  /\ \A n \in DOMAIN parts : Len(parts[n]) <= Size
  /\ \A n \in DOMAIN dests : Len(dests[n]) <= Size

FileInv == NamesAreHeld /\ CountsAreOnDisk /\ BoundedChannel /\ Bounded

\* A download is done from the rename on.  Its file is in place; who searches past that
\* has slipped, and so has one of two downloads that came to its name.
Completes(w) == workers[w].pc \in {"settle", "leave"} /\ workers[w].outcome = "completed"
Done(id) ==
  /\ id \in DOMAIN Settled
  /\ \/ Settled[id].state = "completed"
     \/ \E w \in DOMAIN workers : workers[w].id = id /\ Completes(w)

DoneInPlace == \A id \in DownloadId : Done(id) => Settled[id].name \in DOMAIN dests
SearchesSlip ==
  \A c \in Thread, id \in DownloadId :
    /\ callers[c].pc \in {"part", "reserve"} /\ Done(id)
    /\ Settled[id].name = callers[c].name
    => callers[c].id \in slipped
NamesSlip ==
  \A i, j \in DownloadId :
    /\ i # j /\ Done(i) /\ (Done(j) \/ Holds(j))
    /\ Settled[i].name = Settled[j].name
    => i \in slipped \/ j \in slipped

NameInv == DoneInPlace /\ SearchesSlip /\ NamesSlip

(***************************************************************************)
(* Content                                                                 *)
(***************************************************************************)

\* The rename may not fail; and either there is one version, or a server that
\* always or never sends validators and no crash between the new validator and
\* the truncation of the old file.
VersionsAreTold ==
  /\ "disk" \notin Faults
  /\ \/ \A u, v \in Version : u = v
     \/ /\ "crash" \notin Faults
        /\ \A u, v \in Version : Validator[u] = None => Validator[v] = None

\* The content is what a transfer of version v has written so far.
Piece(content, v) == content = [i \in 1 .. Len(content) |-> <<v, i>>]
\* The validator, if there is one, names the version of the file.
Tells(n, etag) ==
  etag # None /\ n \in DOMAIN parts =>
    \A v \in Version : Validator[v] = etag => Piece(parts[n], v)
Writing(w) == workers[w].pc \in {"open", "check", "read", "rename"}

CompletedIn(t) ==
  \A id \in DOMAIN t : t[id].state = "completed" =>
    t[id].name \in DOMAIN dests /\ Whole(dests[t[id].name])

\* A worker writes the version that the row's validator names, if there is one, and
\* on from what it left off in that version; when it renames, it has all that was
\* announced, and what it completed is in place.
JobContent(job) ==
  /\ job.pc \in {"open", "check", "read", "rename"} =>
       \A v \in Version :
         Settled[job.id].etag # None /\ Validator[v] = Settled[job.id].etag => v = job.version
  /\ job.pc = "open" /\ job.got > 0 =>
       job.name \in DOMAIN parts /\ Piece(parts[job.name], job.version)
  /\ job.pc \in {"check", "read", "rename"} => Piece(parts[job.name], job.version)
  /\ job.pc = "rename" /\ job.version \in Announced => job.got = Size
  /\ job.pc \in {"settle", "leave"} /\ job.outcome = "completed" =>
       job.name \in DOMAIN dests /\ Whole(dests[job.name])

PartsAreOneVersion == \A n \in DOMAIN parts : \E v \in Version : Piece(parts[n], v)
HoldersAreTold ==
  \A id \in DownloadId :
    Holds(id) => \/ Tells(Settled[id].name, Settled[id].etag)
                 \/ \E w \in DOMAIN workers : workers[w].id = id /\ Writing(w)
JobsContent == \A w \in DOMAIN workers : JobContent(workers[w])
CompletedAreWhole == \A t \in Tables(rows, queue) : CompletedIn(t)

ContentInv == PartsAreOneVersion /\ HoldersAreTold /\ JobsContent /\ CompletedAreWhole

(***************************************************************************)
(* Progress                                                                *)
(***************************************************************************)

\* No fault of the disk, no crash, and a server that names every version: otherwise a
\* resume truncates a .part whose length is still listed.
NothingIsLost ==
  "disk" \notin Faults /\ "crash" \notin Faults /\ \A v \in Version : Validator[v] # None

\* A download that holds its name has a validator for what it has on disk, and while
\* it rests, the row counts it: what rests has no transfer.
RowProgress(id) ==
  /\ OnDisk(Settled[id].name) > 0 => Settled[id].etag # None
  /\ Settled[id].state \in {"paused", "interrupted"} =>
       Settled[id].received = OnDisk(Settled[id].name)
\* A worker reports what it has, up to the end.
JobProgress(job) ==
  /\ job.pc \in {"open", "check", "read", "rename"} =>
       job.received = job.got /\ Settled[job.id].etag # None
  /\ job.pc = "settle" /\ job.outcome \in {"paused", "interrupted"} =>
       job.received = OnDisk(job.name)

\* Without a crash, the launch pass finds an empty table.
NothingToMark == ~launched => DOMAIN Settled = {}
RowsCount == \A id \in DownloadId : Holds(id) => RowProgress(id)
JobsCount == \A w \in DOMAIN workers : JobProgress(workers[w])

ProgressInv == NothingToMark /\ RowsCount /\ JobsCount

(***************************************************************************)
(* What one operation does to a table                                      *)
(***************************************************************************)

OthersKept(t, u, id) == \A i \in DOMAIN t \ {id} : u[i] = t[i]

LEMMA UpsertRow ==
  ASSUME NEW t, TableT(t), NEW id \in DownloadId, NEW name \in FileName
  PROVE  LET u == Applied(t, Upsert(id, name))
         IN /\ TableT(u) /\ DOMAIN u = DOMAIN t \cup {id} /\ OthersKept(t, u, id)
            /\ u[id] = [name |-> name, received |-> 0, state |-> "active", etag |-> None]
<1>1. Applied(t, Upsert(id, name)) =
        Put(t, id, [name |-> name, received |-> 0, state |-> "active", etag |-> None])
  BY DEF Applied, Upsert
<1>2. [name |-> name, received |-> 0, state |-> "active", etag |-> None] \in RowT
  BY SMT DEF RowT, State, Etag
<1>3. QED
  BY <1>1, <1>2 DEF Put, TableT, OthersKept

LEMMA ProgressRow ==
  ASSUME NEW t, TableT(t), NEW id \in DOMAIN t, NEW received \in Nat, NEW etag \in Etag
  PROVE  LET u == Applied(t, Progress(id, received, etag))
         IN /\ TableT(u) /\ DOMAIN u = DOMAIN t /\ OthersKept(t, u, id)
            /\ u[id].name = t[id].name /\ u[id].state = t[id].state
            /\ u[id].received = received
            /\ u[id].etag = IF etag = None THEN t[id].etag ELSE etag
<1> DEFINE u == Applied(t, Progress(id, received, etag))
<1>1. u = [t EXCEPT ![id].received = received,
                    ![id].etag = IF etag = None THEN @ ELSE etag]
  BY DEF Applied, Progress, UpdateProgress
<1> HIDE DEF u
<1>2. /\ DOMAIN u = DOMAIN t /\ OthersKept(t, u, id)
      /\ u[id] = [t[id] EXCEPT !.received = received,
                               !.etag = IF etag = None THEN @ ELSE etag]
  BY <1>1, SMT DEF OthersKept
<1>3. t[id] \in RowT
  BY DEF TableT
<1>4. /\ u[id].name = t[id].name /\ u[id].state = t[id].state /\ u[id].received = received
      /\ u[id].etag = IF etag = None THEN t[id].etag ELSE etag
      /\ u[id] \in RowT
  <2> DEFINE row == t[id]
             new == IF etag = None THEN row.etag ELSE etag
  <2>1. row \in RowT /\ new \in Etag /\ u[id] = [row EXCEPT !.received = received, !.etag = new]
    BY <1>2, <1>3 DEF RowT
  <2> HIDE DEF row, new
  <2> DEFINE r1 == [row EXCEPT !.received = received]
  <2>2. u[id] = [r1 EXCEPT !.etag = new]
    BY <2>1
  <2>3. r1 \in RowT /\ r1.name = row.name /\ r1.state = row.state /\ r1.received = received
    BY <2>1, SMT DEF RowT
  <2> HIDE DEF r1
  <2>4. /\ u[id].name = r1.name /\ u[id].state = r1.state /\ u[id].received = r1.received
        /\ u[id].etag = new /\ u[id] \in RowT
    BY <2>1, <2>2, <2>3, SMT DEF RowT
  <2>5. QED
    BY <2>3, <2>4 DEF row, new
<1>5. TableT(u)
  BY <1>2, <1>4 DEF TableT, OthersKept
<1>6. QED
  BY <1>2, <1>4, <1>5 DEF u

LEMMA StateRow ==
  ASSUME NEW t, TableT(t), NEW id \in DOMAIN t, NEW state \in State
  PROVE  LET u == Applied(t, SetState(id, state))
         IN /\ TableT(u) /\ DOMAIN u = DOMAIN t /\ OthersKept(t, u, id)
            /\ u[id].name = t[id].name /\ u[id].state = state
            /\ u[id].received = t[id].received /\ u[id].etag = t[id].etag
<1> DEFINE u == Applied(t, SetState(id, state))
<1>1. u = [t EXCEPT ![id].state = state]
  BY DEF Applied, SetState
<1> HIDE DEF u
<1>2. /\ DOMAIN u = DOMAIN t /\ OthersKept(t, u, id)
      /\ u[id] = [t[id] EXCEPT !.state = state]
  BY <1>1, SMT DEF OthersKept
<1>3. t[id] \in RowT
  BY DEF TableT
<1>4. /\ u[id].name = t[id].name /\ u[id].state = state
      /\ u[id].received = t[id].received /\ u[id].etag = t[id].etag
      /\ u[id] \in RowT
  <2> DEFINE row == t[id]
  <2> HIDE DEF row
  <2>1. row \in RowT /\ u[id] = [row EXCEPT !.state = state]
    BY <1>2, <1>3 DEF row
  <2>2. /\ u[id].name = row.name /\ u[id].state = state /\ u[id].received = row.received
        /\ u[id].etag = row.etag /\ u[id] \in RowT
    BY <2>1, SMT DEF RowT
  <2>3. QED
    BY <2>2 DEF row
<1>5. TableT(u)
  BY <1>2, <1>4 DEF TableT, OthersKept
<1>6. QED
  BY <1>2, <1>4, <1>5 DEF u

LEMMA MarkRow ==
  ASSUME NEW t, TableT(t)
  PROVE  LET u == Applied(t, MarkStale)
         IN /\ TableT(u) /\ DOMAIN u = DOMAIN t
            /\ \A id \in DOMAIN t :
                 /\ u[id].name = t[id].name
                 /\ u[id].received = t[id].received /\ u[id].etag = t[id].etag
                 /\ u[id].state = IF t[id].state = "active" THEN "interrupted" ELSE t[id].state
<1> DEFINE u == Applied(t, MarkStale)
<1>1. u = [id \in DOMAIN t |->
             IF t[id].state = "active" THEN [t[id] EXCEPT !.state = "interrupted"] ELSE t[id]]
  BY DEF Applied, MarkStale, MarkStaleActive
<1> HIDE DEF u
<1>2. ASSUME NEW id \in DOMAIN t
      PROVE  /\ u[id] \in RowT /\ u[id].name = t[id].name
             /\ u[id].received = t[id].received /\ u[id].etag = t[id].etag
             /\ u[id].state = IF t[id].state = "active" THEN "interrupted" ELSE t[id].state
  <2>1. t[id] \in RowT
    BY DEF TableT
  <2>2. u[id] = IF t[id].state = "active" THEN [t[id] EXCEPT !.state = "interrupted"] ELSE t[id]
    BY <1>1
  <2>3. QED
    BY <2>1, <2>2, SMT DEF RowT, State
<1>3. DOMAIN u = DOMAIN t
  BY <1>1
<1>4. QED
  BY <1>2, <1>3 DEF TableT, u

LEMMA FlushRow == ASSUME NEW t, NEW c PROVE Applied(t, Flush(c)) = t
BY DEF Applied, Flush

(***************************************************************************)
(* What a step does to the channel                                         *)
(***************************************************************************)

LEMMA SameChannel ==
  ASSUME rows' = rows, queue' = queue
  PROVE  /\ Settled' = Settled
         /\ Tables(rows', queue') = Tables(rows, queue)
         /\ Writes(rows', queue') = Writes(rows, queue)
         /\ Since(rows', queue') = Since(rows, queue)
         /\ Ops(queue') = Ops(queue) /\ Behind(queue') = Behind(queue)
BY DEF Settled

LEMMA SettledTyped ==
  ASSUME Types
  PROVE  TableT(Settled) /\ TableT(rows) /\ Settled \in Tables(rows, queue)
         /\ rows \in Tables(rows, queue)
<1>1. queue \in Seq(OpT)
  BY DEF Types
<1>2. rows \in Tables(rows, queue) /\ Settled \in Tables(rows, queue)
  BY <1>1, EndsAreTables, SettledIsFinal
<1>3. QED
  BY <1>2 DEF Types

LEMMA SubmitOne ==
  ASSUME Types, NEW op \in OpT, Submit(<<op>>), rows' = rows
  PROVE  /\ queue' \in Seq(OpT)
         /\ Settled' = Applied(Settled, op)
         /\ Tables(rows', queue') = Tables(rows, queue) \cup {Settled'}
         /\ Writes(rows', queue') = Writes(rows, queue) \cup {<<Settled, op>>}
         /\ Since(rows', queue') \subseteq
              Since(rows, queue) \cup {<<x, Settled'>> : x \in Ops(queue) \cup {op}}
         /\ Ops(queue') = Ops(queue) \cup {op}
         /\ Behind(queue') \subseteq Behind(queue) \cup {<<x, op>> : x \in Ops(queue)}
<1>1. queue \in Seq(OpT)
  BY DEF Types
<1>2. queue' = Append(queue, op)
  BY <1>1, SMT DEF Submit
<1>3. queue' \in Seq(OpT)
  BY <1>1, <1>2, AppendProperties
<1>4. Settled' = Final(rows', queue')
  BY DEF Settled, Final
<1>5. QED
  BY <1>1, <1>2, <1>3, <1>4, QueueOne, SettledIsFinal

LEMMA SubmitTwo ==
  ASSUME Types, NEW a \in OpT, NEW b \in OpT, Submit(<<a, b>>), rows' = rows
  PROVE  LET mid == Applied(Settled, a)
         IN /\ queue' \in Seq(OpT)
            /\ Settled' = Applied(mid, b)
            /\ Tables(rows', queue') = Tables(rows, queue) \cup {mid, Settled'}
            /\ Writes(rows', queue') =
                 Writes(rows, queue) \cup {<<Settled, a>>, <<mid, b>>}
            /\ Since(rows', queue') \subseteq
                 Since(rows, queue) \cup {<<x, mid>> : x \in Ops(queue) \cup {a}}
                   \cup {<<x, Settled'>> : x \in Ops(queue) \cup {a, b}}
            /\ Ops(queue') = Ops(queue) \cup {a, b}
            /\ Behind(queue') \subseteq
                 Behind(queue) \cup {<<x, a>> : x \in Ops(queue)}
                   \cup {<<x, b>> : x \in Ops(queue) \cup {a}}
<1> DEFINE r == Append(queue, a)
<1>1. queue \in Seq(OpT)
  BY DEF Types
<1>2. queue' = Append(r, b) /\ r \in Seq(OpT)
  <2>1. queue' = queue \o <<a, b>>
    BY DEF Submit
  <2>2. Append(Append(queue, a), b) = queue \o <<a, b>>
    BY <1>1, SMT
  <2>3. QED
    BY <1>1, <2>1, <2>2, AppendProperties
<1>3. queue' \in Seq(OpT)
  BY <1>2, AppendProperties
<1>4. Settled' = Final(rows', queue')
  BY DEF Settled, Final
<1> DEFINE mid == Applied(Settled, a)
<1>5. /\ Ops(r) = Ops(queue) \cup {a} /\ Final(rows, r) = mid
      /\ Behind(r) \subseteq Behind(queue) \cup {<<x, a>> : x \in Ops(queue)}
      /\ Tables(rows, r) = Tables(rows, queue) \cup {mid}
      /\ Writes(rows, r) = Writes(rows, queue) \cup {<<Settled, a>>}
      /\ Since(rows, r) \subseteq Since(rows, queue) \cup {<<x, mid>> : x \in Ops(r)}
  BY <1>1, QueueOne, SettledIsFinal
<1> HIDE DEF mid, r
<1>6. /\ Ops(queue') = Ops(r) \cup {b} /\ Final(rows, queue') = Applied(mid, b)
      /\ Behind(queue') \subseteq Behind(r) \cup {<<x, b>> : x \in Ops(r)}
      /\ Tables(rows, queue') = Tables(rows, r) \cup {Applied(mid, b)}
      /\ Writes(rows, queue') = Writes(rows, r) \cup {<<mid, b>>}
      /\ Since(rows, queue') \subseteq
           Since(rows, r) \cup {<<x, Applied(mid, b)>> : x \in Ops(queue')}
  BY <1>2, <1>5, QueueOne
<1>7. QED
  BY <1>3, <1>4, <1>5, <1>6 DEF mid

LEMMA ApplyOne ==
  ASSUME Types, queue # <<>>, rows' = Applied(rows, Head(queue)), queue' = Tail(queue)
  PROVE  /\ queue' \in Seq(OpT) /\ Head(queue) \in Ops(queue)
         /\ Settled' = Settled
         /\ Tables(rows', queue') \subseteq Tables(rows, queue)
         /\ Writes(rows', queue') \subseteq Writes(rows, queue)
         /\ <<rows, Head(queue)>> \in Writes(rows, queue)
         /\ Since(rows', queue') \subseteq Since(rows, queue)
         /\ \A t \in Tables(rows', queue') : <<Head(queue), t>> \in Since(rows, queue)
         /\ Ops(queue') \subseteq Ops(queue)
         /\ Behind(queue') \subseteq Behind(queue)
         /\ \A op \in Ops(queue') : <<Head(queue), op>> \in Behind(queue)
<1>1. queue \in Seq(OpT)
  BY DEF Types
<1>2. Settled' = Final(rows', queue')
  BY DEF Settled, Final
<1>3. QED
  BY <1>1, <1>2, WriteOne, SettledIsFinal

LEMMA OpsTyped ==
  ASSUME Types
  PROVE  \A op \in Ops(queue) : op \in OpT
<1>1. \A n \in 1 .. Len(queue) : queue[n] \in OpT
  BY ElementOfSeq DEF Types
<1>2. QED
  BY <1>1 DEF Ops

(***************************************************************************)
(* Who works on what                                                       *)
(***************************************************************************)

LEMMA CallFields ==
  ASSUME NEW call \in CallT
  PROVE  /\ call.todo \in SUBSET DownloadId
         /\ call.pc = "idle" => call = Idle(call.todo)
         /\ call.pc \in {"name", "part", "reserve", "resume", "cancel", "spawn", "register"} =>
              call.id \in DownloadId
         /\ call.pc = "flush" => call.then \in {"resume", "cancel", "list"}
         /\ call.pc = "flush" /\ call.then # "list" => call.id \in DownloadId
         /\ call.pc = "flush" /\ call.then = "list" => call.id = None /\ call.todo = {}
         /\ call.pc \in {"name", "part", "reserve", "spawn"} => call.name \in FileName
         /\ call.pc = "spawn" => call.from \in Nat /\ call.etag \in Etag
         /\ call.pc = "register" => call.worker \in Worker
BY SMT DEF CallT, Todo, Idle

LEMMA CallForms ==
  ASSUME NEW todo \in SUBSET DownloadId, NEW id \in DownloadId
  PROVE  /\ Idle(todo) \in CallT
         /\ \A pc \in {"name", "part", "reserve"}, name \in FileName :
              [pc |-> pc, id |-> id, name |-> name, todo |-> todo] \in CallT
         /\ \A then \in {"resume", "cancel"} :
              [pc |-> "flush", then |-> then, id |-> id, todo |-> todo] \in CallT
         /\ \A pc \in {"resume", "cancel"} : [pc |-> pc, id |-> id, todo |-> todo] \in CallT
         /\ \A name \in FileName, from \in Nat, etag \in Etag :
              [pc |-> "spawn", id |-> id, name |-> name, from |-> from, etag |-> etag,
               todo |-> todo] \in CallT
         /\ \A w \in Worker :
              [pc |-> "register", id |-> id, worker |-> w, todo |-> todo] \in CallT
BY SMT DEF CallT, Todo, Idle

LEMMA LaunchForms ==
  /\ [pc |-> "flush", then |-> "list", id |-> None, todo |-> {}] \in CallT
  /\ [pc |-> "list", id |-> None, todo |-> {}] \in CallT
  /\ Idle({}) \in CallT
BY SMT DEF CallT, Todo, Idle

\* Who is in a call, or may begin one, is alone in it.
LEMMA Alone ==
  ASSUME Inv, OneCaller, NEW c \in Thread, callers[c] # Idle({}) \/ MayCall(c)
  PROVE  launched /\ \A d \in Thread \ {c} : callers[d] = Idle({})
<1>1. CASE callers[c] # Idle({})
  BY <1>1 DEF Inv, OneAtATime, NothingBeforeLaunch
<1>2. CASE MayCall(c)
  <2>1. c \in UserThread /\ launched /\ \A d \in LaunchThread : callers[d] = Idle({})
    BY <1>2 DEF MayCall, LaunchOver, OneCaller
  <2>2. QED
    BY <2>1 DEF OneCaller, Thread
<1>3. QED
  BY <1>1, <1>2

\* Then one thread changes its place, and the others stay where they are.
LEMMA OneMoves ==
  ASSUME Types, NEW c \in Thread, \A d \in Thread \ {c} : callers[d] = Idle({}),
         NEW call \in CallT, callers' = [callers EXCEPT ![c] = call]
  PROVE  /\ callers'[c] = call
         /\ \A d \in Thread \ {c} : callers'[d] = Idle({})
         /\ callers' = [x \in Thread |-> callers'[x]] /\ \A x \in Thread : callers'[x] \in CallT
         /\ OneAtATime'
<1>1. callers = [x \in Thread |-> callers[x]]
  BY DEF Types
<1>2. DOMAIN callers = Thread
  BY <1>1
<1>3. /\ callers'[c] = call
      /\ \A d \in Thread \ {c} : callers'[d] = Idle({})
      /\ callers' = [x \in Thread |-> callers'[x]]
  BY <1>2
<1>4. QED
  BY <1>3, LaunchForms DEF OneAtATime

\* A worker's download is worked on by nobody else, but the thread that enters it.
LEMMA OnItsOwn ==
  ASSUME Inv, NEW w \in DOMAIN workers, NEW c \in Thread, WorksOn(c),
         callers[c].id = workers[w].id
  PROVE  callers[c].pc = "register" /\ callers[c].worker = w
<1>1. callers[c].id \notin DOMAIN jobs
  BY DEF Inv, CallsAreApart
<1>2. PICK d \in Thread : Enters(d, w)
  BY <1>1 DEF Inv, WorkersAreKnown
<1>3. callers[d] # Idle({}) /\ callers[c] # Idle({})
  BY <1>2 DEF Enters, WorksOn, Idle
<1>4. c = d
  BY <1>3 DEF Inv, OneAtATime
<1>5. QED
  BY <1>2, <1>4 DEF Enters

\* No download has two workers.
LEMMA OneWorkerEach ==
  ASSUME Inv, NEW v \in DOMAIN workers, NEW w \in DOMAIN workers,
         workers[v].id = workers[w].id
  PROVE  v = w
<1>1. CASE \E c \in Thread : Enters(c, v)
  <2>1. PICK c \in Thread : Enters(c, v)
    BY <1>1
  <2>2. WorksOn(c) /\ callers[c].id = workers[w].id /\ callers[c].worker = v
    BY <2>1 DEF Enters, WorksOn
  <2>3. QED
    BY <2>2, OnItsOwn
<1>2. CASE \E c \in Thread : Enters(c, w)
  <2>1. PICK c \in Thread : Enters(c, w)
    BY <1>2
  <2>2. WorksOn(c) /\ callers[c].id = workers[v].id /\ callers[c].worker = w
    BY <2>1 DEF Enters, WorksOn
  <2>3. QED
    BY <2>2, OnItsOwn
<1>3. QED
  BY <1>1, <1>2 DEF Inv, WorkersAreKnown

\* While no thread waits, no flush is in the channel.
LEMMA NoFlush ==
  ASSUME Inv, \A c \in Thread : callers[c].pc # "flush"
  PROVE  \A op \in Ops(queue) : op.op # "flush"
<1>1. ASSUME NEW op \in Ops(queue), op.op = "flush"
      PROVE  FALSE
  <2>1. op \in OpT
    BY OpsTyped DEF Inv
  <2>2. op.by \in Thread
    BY <1>1, <2>1, SMT DEF OpT, MarkStale
  <2>3. QED
    BY <1>1, <2>2 DEF Inv, FlushesAreWaitedFor
<1>2. QED
  BY <1>1

(***************************************************************************)
(* The steps of a call.  What they share: one thread moves, the others     *)
(* are idle, and the channel stays, gets an operation on the row of the    *)
(* call, or gets a flush.                                                  *)
(***************************************************************************)

\* The part of the invariant about callers and the channel
CallInv ==
  /\ callers = [c \in Thread |-> callers[c]] /\ \A c \in Thread : callers[c] \in CallT
  /\ queue \in Seq(OpT) /\ \A t \in Tables(rows, queue) : TableT(t)
  /\ OneAtATime /\ FlushesAreWaitedFor /\ FlushSees /\ RowIsSettled /\ RowOfCall
  /\ LegalWrites /\ TablesGrow

\* The premises on the new place of the thread, for what is settled afterwards
Admitted(call, table) ==
  /\ call.pc \in {"name", "part", "reserve"} => call.id \notin DOMAIN table
  /\ call.pc = "spawn" => /\ call.id \in DOMAIN table
                          /\ table[call.id].state = "active"
                          /\ table[call.id].name = call.name
                          /\ table[call.id].etag = call.etag
  /\ call.todo \subseteq DOMAIN table

LEMMA QuietCall ==
  ASSUME Inv, NEW c \in Thread, \A d \in Thread \ {c} : callers[d] = Idle({}),
         callers[c].pc # "flush", NEW call \in CallT,
         callers' = [callers EXCEPT ![c] = call], rows' = rows, queue' = queue,
         call.pc \notin {"flush", "resume", "cancel"}, Admitted(call, Settled)
  PROVE  CallInv'
<1>1. /\ callers'[c] = call /\ \A d \in Thread \ {c} : callers'[d] = Idle({})
      /\ callers' = [x \in Thread |-> callers'[x]] /\ \A x \in Thread : callers'[x] \in CallT
      /\ OneAtATime'
  BY OneMoves DEF Inv
<1>2. \A d \in Thread : callers[d].pc # "flush"
  BY DEF Idle
<1>3. \A op \in Ops(queue) : op.op # "flush"
  BY <1>2, NoFlush
<1>4. \A d \in Thread : callers'[d].pc \notin {"flush", "resume", "cancel"}
  BY <1>1 DEF Idle
<1>5. queue' \in Seq(OpT) /\ \A t \in Tables(rows', queue') : TableT(t)
  BY SameChannel DEF Inv, Types
<1>6. FlushesAreWaitedFor' /\ FlushSees'
  <2>1. \A y \in Behind(queue') : y[1] \in Ops(queue)
    BY SameChannel DEF Behind
  <2>2. \A y \in Since(rows', queue') : y[1] \in Ops(queue)
    BY SameChannel DEF Since
  <2>3. QED
    BY <1>3, <2>1, <2>2, SameChannel DEF FlushesAreWaitedFor, FlushSees
<1>7. RowIsSettled'
  BY <1>4 DEF RowIsSettled
<1>8. RowOfCall'
  BY <1>1, SameChannel DEF RowOfCall, Admitted, ActiveRow, Idle
<1>9. LegalWrites'
  BY SameChannel DEF Inv, LegalWrites
<1>10. TablesGrow'
  BY <1>1, SameChannel DEF Inv, TablesGrow, Admitted, Idle
<1>11. QED
  BY <1>1, <1>5, <1>6, <1>7, <1>8, <1>9, <1>10 DEF CallInv

LEMMA WritingCall ==
  ASSUME Inv, NEW c \in Thread, \A d \in Thread \ {c} : callers[d] = Idle({}),
         callers[c].pc # "flush", NEW call \in CallT,
         callers' = [callers EXCEPT ![c] = call], rows' = rows,
         NEW op \in OpT, Submit(<<op>>), op.op # "flush", Legal(Settled, op),
         TableT(Settled'), DOMAIN Settled \subseteq DOMAIN Settled',
         call.pc \notin {"flush", "resume", "cancel"}, Admitted(call, Settled')
  PROVE  CallInv'
<1>1. /\ callers'[c] = call /\ \A d \in Thread \ {c} : callers'[d] = Idle({})
      /\ callers' = [x \in Thread |-> callers'[x]] /\ \A x \in Thread : callers'[x] \in CallT
      /\ OneAtATime'
  BY OneMoves DEF Inv
<1>2. \A d \in Thread : callers[d].pc # "flush"
  BY DEF Idle
<1>3. \A x \in Ops(queue) : x.op # "flush"
  BY <1>2, NoFlush
<1>4. \A d \in Thread : callers'[d].pc \notin {"flush", "resume", "cancel"}
  BY <1>1 DEF Idle
<1>a. Types
  BY DEF Inv
<1>b. /\ queue' \in Seq(OpT)
      /\ Tables(rows', queue') = Tables(rows, queue) \cup {Settled'}
      /\ Writes(rows', queue') = Writes(rows, queue) \cup {<<Settled, op>>}
      /\ Ops(queue') = Ops(queue) \cup {op}
  BY <1>a, SubmitOne
<1>5. queue' \in Seq(OpT) /\ \A t \in Tables(rows', queue') : TableT(t)
  BY <1>a, <1>b DEF Types
<1>c. \A x \in Ops(queue') : x.op # "flush"
  BY <1>b, <1>3
<1>6. FlushesAreWaitedFor' /\ FlushSees'
  <2>1. \A y \in Behind(queue') : y[1] \in Ops(queue')
    BY DEF Behind
  <2>2. \A y \in Since(rows', queue') : y[1] \in Ops(queue')
    BY DEF Since
  <2>3. QED
    BY <1>c, <2>1, <2>2 DEF FlushesAreWaitedFor, FlushSees
<1>7. RowIsSettled'
  BY <1>4 DEF RowIsSettled
<1>8. RowOfCall'
  BY <1>1 DEF RowOfCall, Admitted, ActiveRow, Idle
<1>9. LegalWrites'
  <2>1. \A y \in Writes(rows, queue) : Legal(y[1], y[2])
    BY DEF Inv, LegalWrites
  <2>2. \A y \in Writes(rows', queue') : Legal(y[1], y[2])
    BY <1>b, <2>1
  <2>3. QED
    BY <2>2 DEF LegalWrites
<1>10. TablesGrow'
  <2>1. \A t \in Tables(rows', queue') : DOMAIN t \subseteq DOMAIN Settled'
    BY <1>b DEF Inv, TablesGrow
  <2>2. \A d \in Thread : callers'[d].todo \subseteq DOMAIN Settled'
    BY <1>1 DEF Admitted, Idle
  <2>3. QED
    BY <2>1, <2>2 DEF TablesGrow
<1>11. QED
  BY <1>1, <1>5, <1>6, <1>7, <1>8, <1>9, <1>10 DEF CallInv

\* A call that waits will read the row as it is settled now.
LEMMA WaitingCall ==
  ASSUME Inv, NEW c \in Thread, \A d \in Thread \ {c} : callers[d] = Idle({}),
         callers[c].pc = "idle", NEW call \in CallT,
         callers' = [callers EXCEPT ![c] = call], rows' = rows, Submit(<<Flush(c)>>),
         call.pc = "flush", call.then # "list", call.id \in DOMAIN Settled,
         call.todo \subseteq DOMAIN Settled
  PROVE  CallInv' /\ Settled' = Settled
<1>1. /\ callers'[c] = call /\ \A d \in Thread \ {c} : callers'[d] = Idle({})
      /\ callers' = [x \in Thread |-> callers'[x]] /\ \A x \in Thread : callers'[x] \in CallT
      /\ OneAtATime'
  BY OneMoves DEF Inv
<1>2. \A d \in Thread : callers[d].pc # "flush"
  BY DEF Idle
<1>3. \A x \in Ops(queue) : x.op # "flush"
  BY <1>2, NoFlush
<1>4. \A d \in Thread : callers'[d].pc \notin {"resume", "cancel", "spawn", "name", "part", "reserve"}
  BY <1>1 DEF Idle
<1>a. Types /\ Flush(c) \in OpT /\ Flush(c).op = "flush" /\ Flush(c).by = c
  BY SMT DEF Inv, Flush, OpT
<1>b. /\ queue' \in Seq(OpT)
      /\ Settled' = Settled
      /\ Tables(rows', queue') = Tables(rows, queue) \cup {Settled'}
      /\ Writes(rows', queue') = Writes(rows, queue) \cup {<<Settled, Flush(c)>>}
      /\ Since(rows', queue') \subseteq
           Since(rows, queue) \cup {<<x, Settled'>> : x \in Ops(queue) \cup {Flush(c)}}
      /\ Ops(queue') = Ops(queue) \cup {Flush(c)}
      /\ Behind(queue') \subseteq Behind(queue) \cup {<<x, Flush(c)>> : x \in Ops(queue)}
  BY <1>a, SubmitOne, FlushRow
<1> DEFINE op == Flush(c)
<1> HIDE DEF op
<1>5. queue' \in Seq(OpT) /\ \A t \in Tables(rows', queue') : TableT(t)
  BY <1>a, <1>b, SettledTyped DEF Types
<1>6. FlushesAreWaitedFor'
  <2>a. \A y \in Behind(queue) : y[1] \in Ops(queue)
    BY DEF Behind
  <2>1. \A y \in Behind(queue') : y[1] \in Ops(queue)
    BY <1>b, <2>a
  <2>2. \A x \in Ops(queue') : x.op = "flush" => callers'[x.by].pc = "flush"
    BY <1>1, <1>3, <1>a, <1>b
  <2>3. QED
    BY <1>3, <2>1, <2>2 DEF FlushesAreWaitedFor
<1>7. FlushSees'
  <2>1. \A y \in Since(rows, queue) : y[1] \in Ops(queue)
    BY DEF Since
  <2>2. ASSUME NEW y \in Since(rows', queue'), y[1].op = "flush"
        PROVE  y = <<Flush(c), Settled'>>
    BY <1>3, <1>b, <2>1, <2>2
  <2>4. ASSUME NEW y \in Since(rows', queue'), y[1].op = "flush"
        PROVE  Agrees(y[2], callers[y[1].by].id)'
    <3>1. y[1] = Flush(c) /\ y[2] = Settled'
      BY <2>2, <2>4
    <3>2. callers'[y[1].by].id = call.id
      BY <1>1, <1>a, <3>1
    <3>3. QED
      BY <1>b, <3>1, <3>2 DEF Agrees
  <2>5. QED
    BY <2>4 DEF FlushSees
<1>8. RowIsSettled' /\ RowOfCall'
  BY <1>4 DEF RowIsSettled, RowOfCall
<1>9. LegalWrites'
  <2>1. \A y \in Writes(rows, queue) : Legal(y[1], y[2])
    BY DEF Inv, LegalWrites
  <2>2. Legal(Settled, Flush(c))
    BY <1>a DEF Legal
  <2>3. \A y \in Writes(rows', queue') : Legal(y[1], y[2])
    BY <1>b, <2>1, <2>2
  <2>4. QED
    BY <2>3 DEF LegalWrites
<1>10. TablesGrow'
  <2>1. \A t \in Tables(rows', queue') : DOMAIN t \subseteq DOMAIN Settled'
    BY <1>b DEF Inv, TablesGrow
  <2>2. \A d \in Thread : callers'[d].todo \subseteq DOMAIN Settled'
    BY <1>1, <1>b DEF Idle
  <2>3. QED
    BY <2>1, <2>2 DEF TablesGrow
<1>11. QED
  BY <1>1, <1>5, <1>6, <1>7, <1>8, <1>9, <1>10, <1>b DEF CallInv

\* The part of the types that is not about callers and the channel
OtherTypes ==
  /\ DOMAIN jobs \subseteq DownloadId /\ \A id \in DOMAIN jobs : jobs[id] \in Worker
  /\ DOMAIN workers \subseteq Worker /\ \A w \in DOMAIN workers : workers[w] \in JobT
  /\ DOMAIN parts \subseteq FileName /\ \A n \in DOMAIN parts : parts[n] \in ContentT
  /\ DOMAIN dests \subseteq FileName /\ \A n \in DOMAIN dests : dests[n] \in ContentT
  /\ server \in Version
  /\ launched \in BOOLEAN

\* The part of the invariant about workers and jobs
WorkInv ==
  OtherTypes /\ NothingBeforeLaunch /\ WorkersAreKnown /\ CallsAreApart /\ RowOfWorker
  /\ ActiveHasTransfer

LEMMA InvParts == Inv <=> CallInv /\ WorkInv
BY DEF Inv, CallInv, WorkInv, Types, OtherTypes

\* The search begins with the first name.
LEMMA StartDownloadInv ==
  ASSUME Inv, OneCaller, NEW c \in Thread, NEW id \in DownloadId, StartDownload(c, id)
  PROVE  Inv'
<1> DEFINE call == [pc |-> "name", id |-> id, name |-> 1, todo |-> {}]
<1>1. callers[c] = Idle({}) /\ MayCall(c) /\ id \in FreshId
  BY DEF StartDownload, MayCall
<1>2. launched /\ \A d \in Thread \ {c} : callers[d] = Idle({})
  BY <1>1, Alone
<1>3. /\ callers' = [callers EXCEPT ![c] = call] /\ call \in CallT
      /\ rows' = rows /\ queue' = queue /\ jobs' = jobs /\ workers' = workers
      /\ parts' = parts /\ dests' = dests /\ server' = server /\ launched' = launched
  <2>1. 1 \in FileName
    BY NamesIsPos, SMT DEF FileName
  <2>2. call \in CallT
    BY <2>1, CallForms
  <2>3. callers[c].todo = {}
    BY <1>1 DEF Idle
  <2>4. QED
    BY <2>2, <2>3 DEF StartDownload, Searching, files
<1>4. id \notin DOMAIN Settled /\ id \notin DOMAIN jobs
  BY <1>1 DEF FreshId
<1>5. CallInv'
  <2>1. Admitted(call, Settled)
    BY <1>4 DEF Admitted
  <2>2. callers[c].pc # "flush" /\ call.pc \notin {"flush", "resume", "cancel"}
    BY <1>1 DEF Idle
  <2> HIDE DEF call
  <2>3. QED
    BY <1>2, <1>3, <2>1, <2>2, QuietCall
<1>6. callers'[c] = call /\ \A d \in Thread \ {c} : callers'[d] = Idle({})
  BY <1>2, <1>3, OneMoves DEF Inv
<1>7. WorkInv'
  <2>1. OtherTypes' /\ NothingBeforeLaunch'
    BY <1>2, <1>3 DEF Inv, Types, OtherTypes, NothingBeforeLaunch
  <2>2. WorkersAreKnown'
    BY <1>1, <1>2, <1>3 DEF Inv, WorkersAreKnown, Enters, Idle
  <2>3. CallsAreApart'
    BY <1>3, <1>4, <1>6 DEF CallsAreApart, WorksOn, Idle
  <2>4. RowOfWorker'
    BY <1>3, SameChannel DEF Inv, RowOfWorker
  <2>5. ActiveHasTransfer'
    BY <1>1, <1>2, <1>3, SameChannel DEF Inv, ActiveHasTransfer, Running, Idle
  <2>6. QED
    BY <2>1, <2>2, <2>3, <2>4, <2>5 DEF WorkInv
<1>8. QED
  BY <1>5, <1>7, InvParts, PTL

\* The next place of a search: on, for the same download, or out of the call
LEMMA ProbeMoves ==
  ASSUME Types, NEW c \in Thread, ProbeFile(c) \/ ProbePart(c)
  PROVE  /\ callers[c].pc \in {"name", "part"}
         /\ UNCHANGED <<rows, queue, jobs, workers, parts, dests, slipped, server, launched>>
         /\ \E call \in CallT :
              /\ callers' = [callers EXCEPT ![c] = call]
              /\ call.todo = callers[c].todo
              /\ \/ call.pc = "idle"
                 \/ call.pc = "name" /\ call.id = callers[c].id
                 \/ /\ call.pc = "part" /\ callers[c].pc = "name"
                    /\ call.id = callers[c].id
                    /\ call.name = callers[c].name /\ call.name \notin DOMAIN dests
                 \/ /\ call.pc = "reserve" /\ callers[c].pc = "part"
                    /\ call.id = callers[c].id
                    /\ call.name = callers[c].name /\ call.name \notin DOMAIN parts
<1> DEFINE id == callers[c].id
           name == callers[c].name
           todo == callers[c].todo
           At(pc, n) == [pc |-> pc, id |-> id, name |-> n, todo |-> todo]
<1>1. callers[c].pc \in {"name", "part"} /\ callers[c] \in CallT
  BY DEF ProbeFile, ProbePart, Types
<1>2. UNCHANGED <<rows, queue, jobs, workers, parts, dests, slipped, server, launched>>
  BY DEF ProbeFile, ProbePart, files
<1>3. id \in DownloadId /\ name \in FileName /\ todo \in SUBSET DownloadId
  BY <1>1, CallFields
<1>4. Idle(todo) \in CallT /\ Idle(todo).pc = "idle" /\ Idle(todo).todo = todo
  BY <1>3, CallForms DEF Idle
<1>5. \A pc \in {"name", "part", "reserve"}, n \in FileName :
        At(pc, n) \in CallT /\ At(pc, n).pc = pc /\ At(pc, n).id = id
          /\ At(pc, n).name = n /\ At(pc, n).todo = todo
  BY <1>3, CallForms
<1>6. name # Names => name + 1 \in FileName
  BY <1>3, NamesIsPos, SMT DEF FileName
<1>7. CASE callers' = NextName(c)
  <2>1. CASE name = Names
    <3>1. callers' = [callers EXCEPT ![c] = Idle(todo)]
      BY <1>7, <2>1 DEF NextName, Returned
    <3>2. QED
      BY <1>1, <1>2, <1>4, <3>1
  <2>2. CASE name # Names
    <3>1. PICK call : call = At("name", name + 1)
      OBVIOUS
    <3>2. call \in CallT /\ call.pc = "name" /\ call.id = id /\ call.todo = todo
      BY <1>5, <1>6, <2>2, <3>1
    <3>3. callers' = [callers EXCEPT ![c] = call]
      BY <1>7, <2>2, <3>1 DEF NextName, Searching
    <3>4. QED
      BY <1>1, <1>2, <3>2, <3>3
  <2>3. QED
    BY <2>1, <2>2
<1>8. CASE /\ callers[c].pc = "name" /\ name \notin DOMAIN dests
           /\ callers' = Searching(c, "part", id, name)
  <2>1. PICK call : call = At("part", name)
    OBVIOUS
  <2>2. /\ call \in CallT /\ call.pc = "part" /\ call.id = id /\ call.name = name
        /\ call.todo = todo
    BY <1>3, <1>5, <2>1
  <2>3. callers' = [callers EXCEPT ![c] = call]
    BY <1>8, <2>1 DEF Searching
  <2>4. QED
    BY <1>1, <1>2, <1>8, <2>2, <2>3
<1>9. CASE /\ callers[c].pc = "part" /\ name \notin DOMAIN parts
           /\ callers' = Searching(c, "reserve", id, name)
  <2>1. PICK call : call = At("reserve", name)
    OBVIOUS
  <2>2. /\ call \in CallT /\ call.pc = "reserve" /\ call.id = id /\ call.name = name
        /\ call.todo = todo
    BY <1>3, <1>5, <2>1
  <2>3. callers' = [callers EXCEPT ![c] = call]
    BY <1>9, <2>1 DEF Searching
  <2>4. QED
    BY <1>1, <1>2, <1>9, <2>2, <2>3
<1>10. QED
  BY <1>7, <1>8, <1>9 DEF ProbeFile, ProbePart

LEMMA ProbeInv ==
  ASSUME Inv, OneCaller, NEW c \in Thread, ProbeFile(c) \/ ProbePart(c)
  PROVE  Inv'
<1>1. PICK call \in CallT :
        /\ callers' = [callers EXCEPT ![c] = call]
        /\ call.todo = callers[c].todo
        /\ \/ call.pc = "idle"
           \/ call.pc \in {"name", "part", "reserve"} /\ call.id = callers[c].id
  BY ProbeMoves DEF Inv
<1>2. /\ rows' = rows /\ queue' = queue /\ jobs' = jobs /\ workers' = workers
      /\ parts' = parts /\ dests' = dests /\ server' = server /\ launched' = launched
      /\ callers[c].pc \in {"name", "part"}
  BY ProbeMoves DEF Inv
<1>3. launched /\ \A d \in Thread \ {c} : callers[d] = Idle({})
  <2>1. callers[c] # Idle({})
    BY <1>2 DEF Idle
  <2>2. QED
    BY <2>1, Alone
<1>4. callers[c].id \notin DOMAIN Settled /\ callers[c].id \notin DOMAIN jobs
      /\ callers[c].todo \subseteq DOMAIN Settled
  BY <1>2 DEF Inv, RowOfCall, CallsAreApart, WorksOn, TablesGrow
<1>5. CallInv'
  <2>1. Admitted(call, Settled)
    BY <1>1, <1>4 DEF Admitted
  <2>2. callers[c].pc # "flush" /\ call.pc \notin {"flush", "resume", "cancel"}
    BY <1>1, <1>2
  <2>3. QED
    BY <1>1, <1>2, <1>3, <2>1, <2>2, QuietCall
<1>6. callers'[c] = call /\ \A d \in Thread \ {c} : callers'[d] = Idle({})
  BY <1>1, <1>3, OneMoves DEF Inv
<1>7. WorkInv'
  <2>1. OtherTypes' /\ NothingBeforeLaunch'
    BY <1>2, <1>3 DEF Inv, Types, OtherTypes, NothingBeforeLaunch
  <2>2. WorkersAreKnown'
    BY <1>2, <1>3 DEF Inv, WorkersAreKnown, Enters, Idle
  <2>3. CallsAreApart'
    BY <1>1, <1>2, <1>4, <1>6 DEF CallsAreApart, WorksOn, Idle
  <2>4. RowOfWorker'
    BY <1>2, SameChannel DEF Inv, RowOfWorker
  <2>5. ActiveHasTransfer'
    BY <1>2, <1>3, SameChannel DEF Inv, ActiveHasTransfer, Running, Idle
  <2>6. QED
    BY <2>1, <2>2, <2>3, <2>4, <2>5 DEF WorkInv
<1>8. QED
  BY <1>5, <1>7, InvParts, PTL

LEMMA ReserveInv ==
  ASSUME Inv, OneCaller, NEW c \in Thread, Reserve(c)
  PROVE  Inv'
<1> DEFINE id == callers[c].id
           name == callers[c].name
           op == Upsert(id, name)
           call == [pc |-> "spawn", id |-> id, name |-> name, from |-> 0, etag |-> None,
                    todo |-> callers[c].todo]
<1>1. callers[c].pc = "reserve" /\ callers[c] \in CallT
  BY DEF Reserve, Inv, Types
<1>2. id \in DownloadId /\ name \in FileName /\ callers[c].todo \in SUBSET DownloadId
  BY <1>1, CallFields
<1>3. launched /\ \A d \in Thread \ {c} : callers[d] = Idle({})
  <2>1. callers[c] # Idle({})
    BY <1>1 DEF Idle
  <2>2. QED
    BY <2>1, Alone
<1>4. call \in CallT
  BY <1>2, CallForms DEF Etag
<1>5. /\ callers' = [callers EXCEPT ![c] = call] /\ Submit(<<op>>)
      /\ rows' = rows /\ jobs' = jobs /\ workers' = workers
      /\ parts' \in {parts, Put(parts, name, <<>>)}
      /\ dests' = dests /\ server' = server /\ launched' = launched
  BY DEF Reserve, Spawning
<1>6. id \notin DOMAIN Settled /\ id \notin DOMAIN jobs /\ callers[c].todo \subseteq DOMAIN Settled
  BY <1>1 DEF Inv, RowOfCall, CallsAreApart, WorksOn, TablesGrow
<1>7. op \in OpT /\ op.op = "upsert" /\ op.id = id
  BY <1>2, SMT DEF Upsert, OpT
<1>8. /\ TableT(Settled') /\ DOMAIN Settled' = DOMAIN Settled \cup {id}
      /\ OthersKept(Settled, Settled', id)
      /\ Settled'[id] = [name |-> name, received |-> 0, state |-> "active", etag |-> None]
  <2>1. Types /\ TableT(Settled)
    BY SettledTyped DEF Inv
  <2>2. Settled' = Applied(Settled, op)
    BY <1>5, <1>7, <2>1, SubmitOne
  <2> HIDE DEF id, name
  <2>3. QED
    BY <1>2, <2>1, <2>2, UpsertRow
<1>9. CallInv'
  <2>1. Admitted(call, Settled')
    BY <1>6, <1>8 DEF Admitted
  <2>2. Legal(Settled, op)
    BY <1>6, <1>7 DEF Legal
  <2>3. callers[c].pc # "flush" /\ call.pc \notin {"flush", "resume", "cancel"}
        /\ op.op # "flush" /\ DOMAIN Settled \subseteq DOMAIN Settled'
    BY <1>1, <1>7, <1>8
  <2> HIDE DEF call, op
  <2>4. QED
    BY <1>3, <1>4, <1>5, <1>7, <1>8, <2>1, <2>2, <2>3, WritingCall
<1>10. callers'[c] = call /\ \A d \in Thread \ {c} : callers'[d] = Idle({})
  <2> HIDE DEF call
  <2>1. QED
    BY <1>3, <1>4, <1>5, OneMoves DEF Inv
<1>11. \A w \in DOMAIN workers : workers[w].id # id /\ Settled'[workers[w].id] = Settled[workers[w].id]
  BY <1>6, <1>8 DEF Inv, RowOfWorker, OthersKept
<1>12. WorkInv'
  <2>1. OtherTypes'
    <3>1. <<>> \in ContentT
      BY EmptySeq DEF ContentT
    <3>2. QED
      BY <1>2, <1>5, <3>1 DEF Inv, Types, OtherTypes, Put
  <2>2. NothingBeforeLaunch'
    BY <1>3, <1>5 DEF NothingBeforeLaunch
  <2>3. WorkersAreKnown'
    BY <1>1, <1>3, <1>5 DEF Inv, WorkersAreKnown, Enters, Idle
  <2>4. CallsAreApart'
    BY <1>5, <1>6, <1>10 DEF CallsAreApart, WorksOn, Idle
  <2>5. RowOfWorker'
    BY <1>5, <1>8, <1>11 DEF Inv, RowOfWorker
  <2>6. ActiveHasTransfer'
    <3>1. ASSUME NEW i, i = id
          PROVE  Running(i)'
      BY <1>10, <3>1 DEF Running
    <3>2. ASSUME NEW i \in DOMAIN Settled, i # id, Settled'[i].state = "active"
          PROVE  Running(i)'
      <4>1. Settled[i].state = "active"
        BY <1>8, <3>2 DEF OthersKept
      <4>2. Running(i)
        BY <1>3, <4>1 DEF Inv, ActiveHasTransfer
      <4>3. QED
        BY <1>1, <1>3, <1>5, <4>2 DEF Running, Idle
    <3>3. QED
      BY <1>8, <3>1, <3>2 DEF ActiveHasTransfer
  <2>7. QED
    BY <2>1, <2>2, <2>3, <2>4, <2>5, <2>6 DEF WorkInv
<1>13. QED
  BY <1>9, <1>12, InvParts, PTL

LEMMA SpawnWorkerInv ==
  ASSUME Inv, OneCaller, NEW c \in Thread, NEW w \in Worker, SpawnWorker(c, w)
  PROVE  Inv'
<1> DEFINE id == callers[c].id
           job == [pc |-> "send", id |-> id, name |-> callers[c].name, from |-> callers[c].from,
                   etag |-> callers[c].etag, control |-> "run", version |-> None, got |-> 0,
                   received |-> callers[c].from, outcome |-> None]
           call == [pc |-> "register", id |-> id, worker |-> w, todo |-> callers[c].todo]
<1>1. callers[c].pc = "spawn" /\ callers[c] \in CallT /\ w \in FreshWorker
  BY DEF SpawnWorker, Inv, Types
<1>2. id \in DownloadId /\ callers[c].name \in FileName /\ callers[c].from \in Nat
      /\ callers[c].etag \in Etag /\ callers[c].todo \in SUBSET DownloadId
  BY <1>1, CallFields
<1>3. launched /\ \A d \in Thread \ {c} : callers[d] = Idle({})
  <2>1. callers[c] # Idle({})
    BY <1>1 DEF Idle
  <2>2. QED
    BY <2>1, Alone
<1>4. call \in CallT
  BY <1>2, CallForms
<1>5. /\ callers' = [callers EXCEPT ![c] = call] /\ workers' = Put(workers, w, job)
      /\ rows' = rows /\ queue' = queue /\ jobs' = jobs
      /\ parts' = parts /\ dests' = dests /\ server' = server /\ launched' = launched
  BY DEF SpawnWorker, files
<1>6. /\ ActiveRow(id, callers[c].name) /\ callers[c].etag = Settled[id].etag
      /\ id \notin DOMAIN jobs /\ callers[c].todo \subseteq DOMAIN Settled
  BY <1>1 DEF Inv, RowOfCall, CallsAreApart, WorksOn, TablesGrow
<1>7. w \notin DOMAIN workers
  BY <1>1 DEF FreshWorker
<1>8. /\ DOMAIN workers' = DOMAIN workers \cup {w} /\ workers'[w] = job
      /\ \A v \in DOMAIN workers : workers'[v] = workers[v]
  <2> HIDE DEF job
  <2>1. QED
    BY <1>5, <1>7 DEF Put
<1>9. CallInv'
  <2>1. Admitted(call, Settled)
    BY <1>6 DEF Admitted, ActiveRow
  <2>2. callers[c].pc # "flush" /\ call.pc \notin {"flush", "resume", "cancel"}
    BY <1>1
  <2> HIDE DEF call
  <2>3. QED
    BY <1>3, <1>4, <1>5, <2>1, <2>2, QuietCall
<1>10. callers'[c] = call /\ \A d \in Thread \ {c} : callers'[d] = Idle({})
  <2> HIDE DEF call
  <2>1. QED
    BY <1>3, <1>4, <1>5, OneMoves DEF Inv
<1>11. Settled' = Settled
  BY <1>5, SameChannel
<1>12. WorkInv'
  <2>1. OtherTypes'
    <3>1. job \in JobT
      BY <1>2, SMT DEF JobT
    <3> HIDE DEF job
    <3>2. QED
      BY <1>5, <1>8, <3>1 DEF Inv, Types, OtherTypes
  <2>2. NothingBeforeLaunch'
    BY <1>3, <1>5 DEF NothingBeforeLaunch
  <2>3. WorkersAreKnown'
    <3>1. Enters(c, w)'
      BY <1>8, <1>10 DEF Enters
    <3>2. ASSUME NEW v \in DOMAIN workers
          PROVE  workers'[v].id \in DOMAIN jobs' /\ jobs'[workers'[v].id] = v
      BY <1>1, <1>3, <1>5, <1>8 DEF Inv, WorkersAreKnown, Enters, Idle
    <3>3. QED
      BY <1>8, <3>1, <3>2 DEF WorkersAreKnown
  <2>4. CallsAreApart'
    BY <1>5, <1>6, <1>10 DEF CallsAreApart, WorksOn, Idle
  <2>5. RowOfWorker'
    <3>1. \A v \in DOMAIN workers : workers'[v] = workers[v]
      BY <1>8
    <3>2. /\ workers'[w].id = id /\ workers'[w].name = callers[c].name
          /\ workers'[w].pc = "send" /\ workers'[w].etag = callers[c].etag
      BY <1>8
    <3>3. QED
      BY <1>6, <1>8, <1>11, <3>1, <3>2 DEF Inv, RowOfWorker, ActiveRow
  <2>6. ActiveHasTransfer'
    <3>1. ASSUME NEW i \in DOMAIN Settled, Settled[i].state = "active"
          PROVE  Running(i)'
      <4>1. Running(i)
        BY <1>3, <3>1 DEF Inv, ActiveHasTransfer
      <4>2. CASE \E v \in DOMAIN workers : workers[v].id = i /\ workers[v].pc # "leave"
        BY <1>8, <4>2 DEF Running
      <4>3. CASE \E d \in Thread : callers[d].pc = "spawn" /\ callers[d].id = i
        <5>1. id = i
          BY <1>3, <4>3 DEF Idle
        <5>2. workers'[w].id = i /\ workers'[w].pc = "send"
          BY <1>8, <5>1
        <5>3. QED
          BY <1>8, <5>2 DEF Running
      <4>4. QED
        BY <4>1, <4>2, <4>3 DEF Running
    <3>2. QED
      BY <1>11, <3>1 DEF ActiveHasTransfer
  <2>7. QED
    BY <2>1, <2>2, <2>3, <2>4, <2>5, <2>6 DEF WorkInv
<1>13. QED
  BY <1>9, <1>12, InvParts, PTL

LEMMA RegisterInv ==
  ASSUME Inv, OneCaller, NEW c \in Thread, Register(c)
  PROVE  Inv'
<1> DEFINE id == callers[c].id
           w == callers[c].worker
           call == Idle(callers[c].todo)
<1>1. callers[c].pc = "register" /\ callers[c] \in CallT
  BY DEF Register, Inv, Types
<1>2. id \in DownloadId /\ w \in Worker /\ callers[c].todo \in SUBSET DownloadId
  BY <1>1, CallFields
<1>3. launched /\ \A d \in Thread \ {c} : callers[d] = Idle({})
  <2>1. callers[c] # Idle({})
    BY <1>1 DEF Idle
  <2>2. QED
    BY <2>1, Alone
<1>4. call \in CallT
  BY <1>2, CallForms
<1>5. /\ callers' = [callers EXCEPT ![c] = call] /\ jobs' = Put(jobs, id, w)
      /\ rows' = rows /\ queue' = queue /\ workers' = workers
      /\ parts' = parts /\ dests' = dests /\ server' = server /\ launched' = launched
  BY DEF Register, Returned, files
<1>6. id \notin DOMAIN jobs /\ callers[c].todo \subseteq DOMAIN Settled
  BY <1>1 DEF Inv, CallsAreApart, WorksOn, TablesGrow
<1>7. CallInv'
  <2>1. Admitted(call, Settled)
    BY <1>6 DEF Admitted, Idle
  <2>2. callers[c].pc # "flush" /\ call.pc \notin {"flush", "resume", "cancel"}
    BY <1>1 DEF Idle
  <2> HIDE DEF call
  <2>3. QED
    BY <1>3, <1>4, <1>5, <2>1, <2>2, QuietCall
<1>8. callers'[c] = call /\ \A d \in Thread \ {c} : callers'[d] = Idle({})
  <2> HIDE DEF call
  <2>1. QED
    BY <1>3, <1>4, <1>5, OneMoves DEF Inv
<1>9. Settled' = Settled
  BY <1>5, SameChannel
<1>10. /\ DOMAIN jobs' = DOMAIN jobs \cup {id} /\ jobs'[id] = w
       /\ \A i \in DOMAIN jobs : jobs'[i] = jobs[i]
  <2> HIDE DEF id, w
  <2>1. QED
    BY <1>5, <1>6 DEF Put
<1>11. WorkInv'
  <2>1. OtherTypes'
    BY <1>2, <1>5, <1>10 DEF Inv, Types, OtherTypes
  <2>2. NothingBeforeLaunch'
    BY <1>3, <1>5 DEF NothingBeforeLaunch
  <2>3. WorkersAreKnown'
    <3>1. ASSUME NEW v \in DOMAIN workers
          PROVE  workers[v].id \in DOMAIN jobs' /\ jobs'[workers[v].id] = v
      <4>1. CASE workers[v].id \in DOMAIN jobs /\ jobs[workers[v].id] = v
        BY <1>10, <4>1
      <4>2. CASE \E d \in Thread : Enters(d, v)
        <5>1. Enters(c, v)
          BY <1>3, <4>2 DEF Enters, Idle
        <5>2. QED
          BY <1>10, <5>1 DEF Enters
      <4>3. QED
        BY <4>1, <4>2 DEF Inv, WorkersAreKnown
    <3>2. QED
      BY <1>5, <3>1 DEF WorkersAreKnown
  <2>4. CallsAreApart'
    BY <1>8 DEF CallsAreApart, WorksOn, Idle
  <2>5. RowOfWorker'
    BY <1>5, <1>9 DEF Inv, RowOfWorker
  <2>6. ActiveHasTransfer'
    BY <1>1, <1>3, <1>5, <1>9 DEF Inv, ActiveHasTransfer, Running, Idle
  <2>7. QED
    BY <2>1, <2>2, <2>3, <2>4, <2>5, <2>6 DEF WorkInv
<1>12. QED
  BY <1>7, <1>11, InvParts, PTL

\* The workers and the registry stay, and no row of a worker changes.
LEMMA SameWork ==
  ASSUME Inv, launched, NEW c \in Thread, \A d \in Thread \ {c} : callers[d] = Idle({}),
         callers[c].pc \notin {"spawn", "register"}, NEW call \in CallT,
         callers' = [callers EXCEPT ![c] = call], call.pc # "register",
         call.pc \in {"name", "part", "reserve", "resume", "cancel", "spawn", "flush"} =>
           call.id \notin DOMAIN jobs,
         workers' = workers, jobs' = jobs, launched' = launched, server' = server,
         DOMAIN parts' \subseteq FileName, \A n \in DOMAIN parts' : parts'[n] \in ContentT,
         dests' = dests,
         \A w \in DOMAIN workers :
           /\ workers[w].id \in DOMAIN Settled'
           /\ Settled'[workers[w].id] = Settled[workers[w].id],
         \A i \in DOMAIN Settled' : Settled'[i].state = "active" =>
           \/ i \in DOMAIN Settled /\ Settled[i].state = "active"
           \/ call.pc = "spawn" /\ call.id = i
  PROVE  WorkInv'
<1>1. callers'[c] = call /\ \A d \in Thread \ {c} : callers'[d] = Idle({})
  BY OneMoves DEF Inv
<1>2. OtherTypes'
  BY DEF Inv, Types, OtherTypes
<1>3. NothingBeforeLaunch'
  BY DEF NothingBeforeLaunch
<1>4. WorkersAreKnown'
  <2>1. \A w \in DOMAIN workers : workers[w].id \in DOMAIN jobs /\ jobs[workers[w].id] = w
    BY DEF Inv, WorkersAreKnown, Enters, Idle
  <2>2. QED
    BY <2>1 DEF WorkersAreKnown
<1>5. CallsAreApart'
  BY <1>1 DEF CallsAreApart, WorksOn, Idle
<1>6. RowOfWorker'
  BY DEF Inv, RowOfWorker
<1>7. ActiveHasTransfer'
  <2>1. ASSUME NEW i \in DOMAIN Settled', Settled'[i].state = "active"
        PROVE  Running(i)'
    <3>1. CASE i \in DOMAIN Settled /\ Settled[i].state = "active"
      <4>1. Running(i)
        BY <3>1 DEF Inv, ActiveHasTransfer
      <4>2. \E w \in DOMAIN workers : workers[w].id = i /\ workers[w].pc # "leave"
        BY <4>1 DEF Running, Idle
      <4>3. QED
        BY <4>2 DEF Running
    <3>2. CASE call.pc = "spawn" /\ call.id = i
      BY <1>1, <3>2 DEF Running
    <3>3. QED
      BY <2>1, <3>1, <3>2
  <2>2. QED
    BY <2>1 DEF ActiveHasTransfer
<1>8. QED
  BY <1>2, <1>3, <1>4, <1>5, <1>6, <1>7 DEF WorkInv

LEMMA FlushForCall ==
  ASSUME Inv, OneCaller, NEW c \in Thread, NEW id \in DownloadId, NEW todo,
         callers[c].pc = "idle", callers[c] # Idle({}) \/ MayCall(c),
         id \in DOMAIN Settled \ DOMAIN jobs, todo \subseteq callers[c].todo,
         NEW then \in {"resume", "cancel"}, Submit(<<Flush(c)>>),
         callers' = [callers EXCEPT ![c] =
                       [pc |-> "flush", then |-> then, id |-> id, todo |-> todo]],
         UNCHANGED <<rows, jobs, workers, files, server, launched>>
  PROVE  Inv'
<1> DEFINE call == [pc |-> "flush", then |-> then, id |-> id, todo |-> todo]
<1>1. launched /\ \A d \in Thread \ {c} : callers[d] = Idle({})
  BY Alone
<1>2. todo \in SUBSET DownloadId /\ todo \subseteq DOMAIN Settled
  <2>1. callers[c] \in CallT /\ callers[c].todo \subseteq DOMAIN Settled
    BY DEF Inv, Types, TablesGrow
  <2>2. QED
    BY <2>1, CallFields
<1>3. call \in CallT
  BY <1>2, CallForms
<1>4. call.pc = "flush" /\ call.then # "list" /\ call.id = id /\ call.todo = todo
  OBVIOUS
<1> HIDE DEF call
<1>5. callers' = [callers EXCEPT ![c] = call]
  BY DEF call
<1>6. CallInv' /\ Settled' = Settled
  BY <1>1, <1>2, <1>3, <1>4, <1>5, WaitingCall
<1>7. WorkInv'
  <2>1. \A w \in DOMAIN workers : workers[w].id \in DOMAIN Settled
    BY DEF Inv, RowOfWorker
  <2>2. parts' = parts /\ dests' = dests
    BY DEF files
  <2>3. DOMAIN parts' \subseteq FileName /\ \A n \in DOMAIN parts' : parts'[n] \in ContentT
    BY <2>2 DEF Inv, Types
  <2>4. QED
    BY <1>1, <1>3, <1>4, <1>5, <1>6, <2>1, <2>2, <2>3, SameWork
<1>8. QED
  BY <1>6, <1>7, InvParts, PTL

LEMMA ResumeDownloadInv ==
  ASSUME Inv, OneCaller, NEW c \in Thread, NEW id \in DownloadId, ResumeDownload(c, id)
  PROVE  Inv'
<1> DEFINE todo == callers[c].todo \ {id}
<1>1. callers[c].pc = "idle" /\ (callers[c] # Idle({}) \/ MayCall(c))
  BY DEF ResumeDownload, MayCall, Idle
<1>2. id \in DOMAIN Settled \ DOMAIN jobs
  BY DEF ResumeDownload, Inv, TablesGrow
<1>3. callers' = [callers EXCEPT ![c] =
                    [pc |-> "flush", then |-> "resume", id |-> id, todo |-> todo]]
  <2>1. DOMAIN callers = Thread
    BY DEF Inv, Types
  <2> DEFINE r == [pc |-> "flush", then |-> "resume", id |-> id, todo |-> callers[c].todo]
             r2 == [pc |-> "flush", then |-> "resume", id |-> id, todo |-> todo]
  <2>a. [r EXCEPT !.todo = r.todo \ {id}] = r2
    OBVIOUS
  <2>b. Waiting(c, "resume", id) = [callers EXCEPT ![c] = r]
    BY DEF Waiting
  <2>c. Waiting(c, "resume", id)[c] = r
    BY <2>1, <2>b
  <2> HIDE DEF r, r2
  <2>2. [Waiting(c, "resume", id) EXCEPT ![c].todo = @ \ {id}] = [callers EXCEPT ![c] = r2]
    BY <2>1, <2>a, <2>b, <2>c
  <2>3. QED
    BY <2>2 DEF ResumeDownload, r2
<1>4. Submit(<<Flush(c)>>) /\ UNCHANGED <<rows, jobs, workers, files, server, launched>>
  BY DEF ResumeDownload
<1>5. todo \subseteq callers[c].todo
  OBVIOUS
<1> HIDE DEF todo
<1>6. QED
  BY <1>1, <1>2, <1>3, <1>4, <1>5, FlushForCall

LEMMA CancelWaitInv ==
  ASSUME Inv, OneCaller, NEW c \in Thread, NEW id \in DownloadId, CancelDownload(c, id),
         id \notin DOMAIN jobs
  PROVE  Inv'
<1> DEFINE todo == callers[c].todo
<1>1. callers[c].pc = "idle" /\ (callers[c] # Idle({}) \/ MayCall(c))
  BY DEF CancelDownload, MayCall, Idle
<1>2. id \in DOMAIN Settled \ DOMAIN jobs
  BY DEF CancelDownload
<1>3. callers' = [callers EXCEPT ![c] =
                    [pc |-> "flush", then |-> "cancel", id |-> id, todo |-> todo]]
  BY DEF CancelDownload, Waiting
<1>4. Submit(<<Flush(c)>>) /\ UNCHANGED <<rows, jobs, workers, files, server, launched>>
  BY DEF CancelDownload
<1>5. todo \subseteq callers[c].todo
  OBVIOUS
<1> HIDE DEF todo
<1>6. QED
  BY <1>1, <1>2, <1>3, <1>4, <1>5, FlushForCall

LEMMA SkipResumeInv ==
  ASSUME Inv, OneCaller, NEW c \in Thread, NEW id \in DownloadId, SkipResume(c, id)
  PROVE  Inv'
<1> DEFINE call == Idle(callers[c].todo \ {id})
<1>1. callers[c].pc = "idle" /\ callers[c] \in CallT /\ callers[c].todo # {}
  BY DEF SkipResume, Inv, Types
<1>2. callers[c] = Idle(callers[c].todo) /\ callers[c].todo \in SUBSET DownloadId
  BY <1>1, CallFields
<1>3. launched /\ \A d \in Thread \ {c} : callers[d] = Idle({})
  <2>1. callers[c] # Idle({})
    BY <1>1 DEF Idle
  <2>2. QED
    BY <2>1, Alone
<1>4. call \in CallT
  <2>1. callers[c].todo \ {id} \in SUBSET DownloadId
    BY <1>2
  <2>2. QED
    BY <2>1, CallForms
<1>5. callers' = [callers EXCEPT ![c] = call]
  <2>1. [callers[c] EXCEPT !.todo = callers[c].todo \ {id}] = call
    BY <1>2, SMT DEF Idle
  <2>2. QED
    BY <2>1 DEF SkipResume
<1>6. /\ rows' = rows /\ queue' = queue /\ jobs' = jobs /\ workers' = workers
      /\ parts' = parts /\ dests' = dests /\ server' = server /\ launched' = launched
  BY DEF SkipResume, files
<1>7. call.pc = "idle" /\ call.todo \subseteq DOMAIN Settled
  BY DEF Inv, TablesGrow, Idle
<1> HIDE DEF call
<1>8. CallInv'
  <2>1. Admitted(call, Settled)
    BY <1>7 DEF Admitted
  <2>2. QED
    BY <1>1, <1>3, <1>4, <1>5, <1>6, <1>7, <2>1, QuietCall
<1>9. WorkInv'
  <2>1. Settled' = Settled /\ \A w \in DOMAIN workers : workers[w].id \in DOMAIN Settled
    BY <1>6, SameChannel DEF Inv, RowOfWorker
  <2>2. DOMAIN parts' \subseteq FileName /\ \A n \in DOMAIN parts' : parts'[n] \in ContentT
    BY <1>6 DEF Inv, Types
  <2>3. QED
    BY <1>1, <1>3, <1>4, <1>5, <1>6, <1>7, <2>1, <2>2, SameWork
<1>10. QED
  BY <1>8, <1>9, InvParts, PTL

\* The row that resume_download and cancel_download read is the settled one, and no
\* worker has the download.
LEMMA ReadRow ==
  ASSUME Inv, NEW c \in Thread, callers[c].pc \in {"resume", "cancel"}
  PROVE  /\ callers[c].id \in DownloadId
         /\ callers[c].todo \in SUBSET DownloadId /\ callers[c].todo \subseteq DOMAIN Settled
         /\ callers[c].id \in DOMAIN Settled /\ rows[callers[c].id] = Settled[callers[c].id]
         /\ rows[callers[c].id] \in RowT
         /\ callers[c].id \notin DOMAIN jobs
         /\ \A w \in DOMAIN workers : workers[w].id # callers[c].id
<1>1. callers[c] \in CallT /\ rows \in Tables(rows, queue) /\ TableT(rows)
  BY SettledTyped DEF Inv, Types
<1>2. callers[c].id \in DownloadId /\ callers[c].todo \in SUBSET DownloadId
  BY <1>1, CallFields
<1>3. Agrees(rows, callers[c].id) /\ callers[c].id \in DOMAIN rows
  BY <1>1 DEF Inv, RowIsSettled, Agrees
<1>4. callers[c].id \in DOMAIN Settled /\ callers[c].todo \subseteq DOMAIN Settled
  BY <1>1, <1>3 DEF Inv, TablesGrow
<1>5. WorksOn(c)
  BY DEF WorksOn
<1>6. \A w \in DOMAIN workers : workers[w].id # callers[c].id
  BY <1>5, OnItsOwn
<1>7. QED
  BY <1>1, <1>2, <1>3, <1>4, <1>5, <1>6 DEF Agrees, TableT, Inv, CallsAreApart

\* A call that ends in a write to its row, in a state the row may go to
LEMMA RowWritten ==
  ASSUME Inv, OneCaller, NEW c \in Thread, callers[c].pc \in {"resume", "cancel"},
         NEW state \in State, CanTransition(rows[callers[c].id].state, state),
         Submit(<<SetState(callers[c].id, state)>>), rows' = rows,
         NEW call \in CallT, callers' = [callers EXCEPT ![c] = call],
         call.pc \in {"idle", "spawn"}, call.todo = callers[c].todo,
         call.pc = "spawn" => /\ call.id = callers[c].id /\ state = "active"
                              /\ call.name = rows[call.id].name /\ call.etag = rows[call.id].etag,
         state = "active" => call.pc = "spawn",
         workers' = workers, jobs' = jobs, launched' = launched, server' = server,
         DOMAIN parts' \subseteq FileName, \A n \in DOMAIN parts' : parts'[n] \in ContentT,
         dests' = dests
  PROVE  Inv'
<1> DEFINE id == callers[c].id
           op == SetState(id, state)
<1>1. launched /\ \A d \in Thread \ {c} : callers[d] = Idle({})
  <2>1. callers[c] # Idle({})
    BY DEF Idle
  <2>2. QED
    BY <2>1, Alone
<1>2. /\ id \in DownloadId /\ call.todo \subseteq DOMAIN Settled
      /\ id \in DOMAIN Settled /\ rows[id] = Settled[id] /\ id \notin DOMAIN jobs
      /\ \A w \in DOMAIN workers : workers[w].id # id
  BY ReadRow
<1>3. op \in OpT /\ op.op = "state" /\ op.id = id /\ op.state = state
  BY <1>2, SMT DEF SetState, OpT
<1>4. /\ TableT(Settled') /\ DOMAIN Settled' = DOMAIN Settled /\ OthersKept(Settled, Settled', id)
      /\ Settled'[id].name = Settled[id].name /\ Settled'[id].state = state
      /\ Settled'[id].etag = Settled[id].etag
  <2>1. Types /\ TableT(Settled)
    BY SettledTyped DEF Inv
  <2>2. Settled' = Applied(Settled, op)
    BY <1>3, <2>1, SubmitOne
  <2> HIDE DEF id
  <2>3. QED
    BY <1>2, <2>1, <2>2, StateRow
<1> HIDE DEF id, op
<1>5. Submit(<<op>>) /\ Legal(Settled, op) /\ op.op # "flush"
      /\ DOMAIN Settled \subseteq DOMAIN Settled'
  BY <1>2, <1>3, <1>4 DEF op, id, Legal
<1>6. Admitted(call, Settled')
  BY <1>2, <1>4 DEF Admitted, id
<1>7. CallInv'
  <2>1. callers[c].pc # "flush" /\ call.pc \notin {"flush", "resume", "cancel"}
    OBVIOUS
  <2>2. QED
    BY <1>1, <1>3, <1>4, <1>5, <1>6, <2>1, WritingCall
<1>8. WorkInv'
  <2>1. \A w \in DOMAIN workers :
           /\ workers[w].id \in DOMAIN Settled'
           /\ Settled'[workers[w].id] = Settled[workers[w].id]
    BY <1>2, <1>4 DEF OthersKept, Inv, RowOfWorker
  <2>2. \A i \in DOMAIN Settled' : Settled'[i].state = "active" =>
           \/ i \in DOMAIN Settled /\ Settled[i].state = "active"
           \/ call.pc = "spawn" /\ call.id = i
    BY <1>4 DEF OthersKept, id
  <2>3. callers[c].pc \notin {"spawn", "register"} /\ call.pc # "register"
    OBVIOUS
  <2>4. call.pc \in {"name", "part", "reserve", "resume", "cancel", "spawn", "flush"} =>
          call.id \notin DOMAIN jobs
    BY <1>2 DEF id
  <2>5. QED
    BY <1>1, <2>1, <2>2, <2>3, <2>4, SameWork
<1>9. QED
  BY <1>7, <1>8, InvParts, PTL

\* A call that finds the row in another state returns.
LEMMA RowRefused ==
  ASSUME Inv, OneCaller, NEW c \in Thread, callers[c].pc \in {"resume", "cancel"},
         callers' = Returned(c),
         UNCHANGED <<rows, queue, jobs, workers, files, server, launched>>
  PROVE  Inv'
<1> DEFINE call == Idle(callers[c].todo)
<1>1. launched /\ \A d \in Thread \ {c} : callers[d] = Idle({})
  <2>1. callers[c] # Idle({})
    BY DEF Idle
  <2>2. QED
    BY <2>1, Alone
<1>2. callers[c].todo \in SUBSET DownloadId /\ callers[c].todo \subseteq DOMAIN Settled
  BY ReadRow
<1>3. call \in CallT
  <2>1. callers[c] \in CallT
    BY DEF Inv, Types
  <2>2. callers[c].id \in DownloadId
    BY ReadRow
  <2>3. QED
    BY <1>2, <2>2, CallForms
<1>4. call.pc = "idle" /\ call.todo \subseteq DOMAIN Settled
  BY <1>2 DEF Idle
<1>5. /\ callers' = [callers EXCEPT ![c] = call]
      /\ rows' = rows /\ queue' = queue /\ jobs' = jobs /\ workers' = workers
      /\ parts' = parts /\ dests' = dests /\ server' = server /\ launched' = launched
  BY DEF Returned, files
<1> HIDE DEF call
<1>6. CallInv'
  <2>1. Admitted(call, Settled)
    BY <1>4 DEF Admitted
  <2>2. QED
    BY <1>1, <1>3, <1>4, <1>5, <2>1, QuietCall
<1>7. WorkInv'
  <2>1. Settled' = Settled /\ \A w \in DOMAIN workers : workers[w].id \in DOMAIN Settled
    BY <1>5, SameChannel DEF Inv, RowOfWorker
  <2>2. DOMAIN parts' \subseteq FileName /\ \A n \in DOMAIN parts' : parts'[n] \in ContentT
    BY <1>5 DEF Inv, Types
  <2>3. QED
    BY <1>1, <1>3, <1>4, <1>5, <2>1, <2>2, SameWork
<1>8. QED
  BY <1>6, <1>7, InvParts, PTL

LEMMA ResumeRowInv ==
  ASSUME Inv, OneCaller, NEW c \in Thread, ResumeRow(c)
  PROVE  Inv'
<1> DEFINE id == callers[c].id
           row == rows[id]
           from == IF row.name \in DOMAIN parts THEN Len(parts[row.name]) ELSE 0
           call == [pc |-> "spawn", id |-> id, name |-> row.name, from |-> from,
                    etag |-> row.etag, todo |-> callers[c].todo]
<1>1. callers[c].pc = "resume"
  BY DEF ResumeRow
<1>2. CASE CanTransition(row.state, "active")
  <2>1. /\ Submit(<<SetState(id, "active")>>) /\ rows' = rows
        /\ callers' = [callers EXCEPT ![c] = call]
        /\ workers' = workers /\ jobs' = jobs /\ launched' = launched /\ server' = server
        /\ parts' = parts /\ dests' = dests
    BY <1>2 DEF ResumeRow, Spawning, files
  <2>2. row \in RowT /\ id \in DownloadId /\ callers[c].todo \in SUBSET DownloadId
    BY <1>1, ReadRow
  <2>3. from \in Nat
    BY LenProperties DEF Inv, Types, ContentT
  <2>4. row.name \in FileName /\ row.etag \in Etag /\ "active" \in State
    BY <2>2, SMT DEF RowT, State
  <2> HIDE DEF from
  <2>5. call \in CallT
    BY <2>2, <2>3, <2>4, CallForms
  <2>6. /\ call.pc = "spawn" /\ call.todo = callers[c].todo
        /\ call.id = id /\ call.name = rows[call.id].name /\ call.etag = rows[call.id].etag
    OBVIOUS
  <2>7. DOMAIN parts' \subseteq FileName /\ \A n \in DOMAIN parts' : parts'[n] \in ContentT
    BY <2>1 DEF Inv, Types
  <2> HIDE DEF call
  <2>8. QED
    BY <1>1, <1>2, <2>1, <2>4, <2>5, <2>6, <2>7, RowWritten
<1>3. CASE ~CanTransition(row.state, "active")
  <2>1. callers' = Returned(c) /\ UNCHANGED <<rows, queue, jobs, workers, files, server, launched>>
    BY <1>3 DEF ResumeRow
  <2>2. QED
    BY <1>1, <2>1, RowRefused
<1>4. QED
  BY <1>2, <1>3

LEMMA CancelRowInv ==
  ASSUME Inv, OneCaller, NEW c \in Thread, CancelRow(c)
  PROVE  Inv'
<1> DEFINE id == callers[c].id
           row == rows[id]
           call == Idle(callers[c].todo)
<1>1. callers[c].pc = "cancel"
  BY DEF CancelRow
<1>2. CASE CanTransition(row.state, "cancelled")
  <2>1. /\ Submit(<<SetState(id, "cancelled")>>) /\ rows' = rows
        /\ callers' = [callers EXCEPT ![c] = call]
        /\ workers' = workers /\ jobs' = jobs /\ launched' = launched /\ server' = server
        /\ parts' = Drop(parts, {row.name}) /\ dests' = dests
    BY <1>2 DEF CancelRow, Returned
  <2>2. id \in DownloadId /\ callers[c].todo \in SUBSET DownloadId /\ "cancelled" \in State
    BY <1>1, ReadRow DEF State
  <2>3. call \in CallT
    BY <2>2, CallForms
  <2>4. call.pc = "idle" /\ call.todo = callers[c].todo
    BY DEF Idle
  <2>5. DOMAIN parts' \subseteq FileName /\ \A n \in DOMAIN parts' : parts'[n] \in ContentT
    BY <2>1 DEF Inv, Types, Drop
  <2> HIDE DEF call
  <2>6. QED
    BY <1>1, <1>2, <2>1, <2>2, <2>3, <2>4, <2>5, RowWritten
<1>3. CASE ~CanTransition(row.state, "cancelled")
  <2>1. callers' = Returned(c) /\ UNCHANGED <<rows, queue, jobs, workers, files, server, launched>>
    BY <1>3 DEF CancelRow, files
  <2>2. QED
    BY <1>1, <2>1, RowRefused
<1>4. QED
  BY <1>2, <1>3

LEMMA ListInterruptedInv ==
  ASSUME Inv, OneCaller, NEW c \in Thread, ListInterrupted(c)
  PROVE  Inv'
<1> DEFINE todo == {id \in DOMAIN rows : rows[id].state = "interrupted" /\ rows[id].etag # None}
           call == Idle(todo)
<1>1. callers[c].pc = "list" /\ callers' = [callers EXCEPT ![c] = call]
  BY DEF ListInterrupted
<1>2. launched /\ \A d \in Thread \ {c} : callers[d] = Idle({})
  <2>1. callers[c] # Idle({})
    BY <1>1 DEF Idle
  <2>2. QED
    BY <2>1, Alone
<1>3. todo \in SUBSET DownloadId /\ todo \subseteq DOMAIN Settled
  <2>1. rows \in Tables(rows, queue) /\ TableT(rows)
    BY SettledTyped DEF Inv
  <2>2. QED
    BY <2>1 DEF Inv, TablesGrow, TableT
<1> HIDE DEF todo
<1>4. call \in CallT
  BY <1>3, SMT DEF CallT, Todo, Idle
<1>5. call.pc = "idle" /\ call.todo \subseteq DOMAIN Settled
  BY <1>3 DEF Idle
<1>6. /\ rows' = rows /\ queue' = queue /\ jobs' = jobs /\ workers' = workers
      /\ parts' = parts /\ dests' = dests /\ server' = server /\ launched' = launched
  BY DEF ListInterrupted, files
<1> HIDE DEF call
<1>7. CallInv'
  <2>1. Admitted(call, Settled)
    BY <1>5 DEF Admitted
  <2>2. QED
    BY <1>1, <1>2, <1>4, <1>5, <1>6, <2>1, QuietCall
<1>8. WorkInv'
  <2>1. Settled' = Settled /\ \A w \in DOMAIN workers : workers[w].id \in DOMAIN Settled
    BY <1>6, SameChannel DEF Inv, RowOfWorker
  <2>2. DOMAIN parts' \subseteq FileName /\ \A n \in DOMAIN parts' : parts'[n] \in ContentT
    BY <1>6 DEF Inv, Types
  <2>3. QED
    BY <1>1, <1>2, <1>4, <1>5, <1>6, <2>1, <2>2, SameWork
<1>9. QED
  BY <1>7, <1>8, InvParts, PTL

\* The launch pass begins with an empty channel and leaves no row active.
LEMMA ResumeInterruptedInv ==
  ASSUME Inv, OneCaller, NEW c \in Thread, ResumeInterrupted(c)
  PROVE  Inv'
<1> DEFINE call == [pc |-> "flush", then |-> "list", id |-> None, todo |-> {}]
           mid == Applied(Settled, MarkStale)
<1>1. /\ queue = <<>> /\ jobs = <<>> /\ workers = <<>>
      /\ \A d \in Thread : callers[d] = Idle({})
  BY DEF ResumeInterrupted, Inv, NothingBeforeLaunch
<1>2. /\ launched' = TRUE /\ Submit(<<MarkStale, Flush(c)>>)
      /\ callers' = [callers EXCEPT ![c] = call]
      /\ rows' = rows /\ jobs' = jobs /\ workers' = workers
      /\ parts' = parts /\ dests' = dests /\ server' = server
  BY DEF ResumeInterrupted, files
<1>3. Types /\ TableT(Settled)
  BY SettledTyped DEF Inv
<1>4. /\ MarkStale \in OpT /\ MarkStale.op = "mark"
      /\ Flush(c) \in OpT /\ Flush(c).op = "flush" /\ Flush(c).by = c
  BY SMT DEF MarkStale, Flush, OpT
<1>5. /\ Ops(queue) = {} /\ Behind(queue) = {} /\ Writes(rows, queue) = {}
      /\ Since(rows, queue) = {} /\ Tables(rows, queue) = {rows} /\ Settled = rows
  BY <1>1, NothingQueued, SettledIsFinal
<1>6. /\ queue' \in Seq(OpT)
      /\ Settled' = mid
      /\ Tables(rows', queue') = {rows, mid}
      /\ Writes(rows', queue') = {<<Settled, MarkStale>>, <<mid, Flush(c)>>}
      /\ Since(rows', queue') \subseteq
           {<<MarkStale, mid>>, <<MarkStale, Settled'>>, <<Flush(c), Settled'>>}
      /\ Ops(queue') = {MarkStale, Flush(c)}
      /\ Behind(queue') \subseteq {<<MarkStale, Flush(c)>>}
  <2> DEFINE a == MarkStale
             b == Flush(c)
  <2>1. /\ queue' \in Seq(OpT)
        /\ Settled' = Applied(mid, b)
        /\ Tables(rows', queue') = Tables(rows, queue) \cup {mid, Settled'}
        /\ Writes(rows', queue') =
             Writes(rows, queue) \cup {<<Settled, a>>, <<mid, b>>}
        /\ Since(rows', queue') \subseteq
             Since(rows, queue) \cup {<<x, mid>> : x \in Ops(queue) \cup {a}}
               \cup {<<x, Settled'>> : x \in Ops(queue) \cup {a, b}}
        /\ Ops(queue') = Ops(queue) \cup {a, b}
        /\ Behind(queue') \subseteq
             Behind(queue) \cup {<<x, a>> : x \in Ops(queue)}
               \cup {<<x, b>> : x \in Ops(queue) \cup {a}}
    BY <1>2, <1>3, <1>4, SubmitTwo
  <2>2. Applied(mid, b) = mid
    BY FlushRow
  <2> HIDE DEF a, b, mid
  <2>3. QED
    BY <1>5, <2>1, <2>2 DEF a, b
<1>7. /\ TableT(mid) /\ DOMAIN mid = DOMAIN Settled
      /\ \A i \in DOMAIN mid : mid[i].state # "active"
  <2>1. /\ TableT(mid) /\ DOMAIN mid = DOMAIN Settled
        /\ \A i \in DOMAIN Settled :
             mid[i].state = IF Settled[i].state = "active" THEN "interrupted" ELSE Settled[i].state
    BY <1>3, MarkRow
  <2> HIDE DEF mid
  <2>2. QED
    BY <2>1
<1> HIDE DEF mid
<1>8. /\ callers'[c] = call /\ \A d \in Thread \ {c} : callers'[d] = Idle({})
      /\ callers' = [x \in Thread |-> callers'[x]] /\ \A x \in Thread : callers'[x] \in CallT
      /\ OneAtATime'
  <2>1. call \in CallT
    BY LaunchForms
  <2> HIDE DEF call
  <2>2. QED
    BY <1>1, <1>2, <1>3, <2>1, OneMoves
<1>9. CallInv'
  <2>1. queue' \in Seq(OpT) /\ \A t \in Tables(rows', queue') : TableT(t)
    BY <1>3, <1>5, <1>6, <1>7
  <2>2. FlushesAreWaitedFor'
    BY <1>4, <1>6, <1>8 DEF FlushesAreWaitedFor
  <2>3. FlushSees'
    BY <1>4, <1>6, <1>8 DEF FlushSees
  <2>4. RowIsSettled' /\ RowOfCall'
    BY <1>8 DEF RowIsSettled, RowOfCall, Idle
  <2>5. LegalWrites'
    <3>1. Legal(Settled, MarkStale) /\ Legal(mid, Flush(c))
      BY <1>4 DEF Legal
    <3>2. \A y \in Writes(rows', queue') : Legal(y[1], y[2])
      BY <1>6, <3>1
    <3>3. QED
      BY <3>2 DEF LegalWrites
  <2>6. TablesGrow'
    BY <1>5, <1>6, <1>7, <1>8 DEF TablesGrow, Idle
  <2>7. QED
    BY <1>8, <2>1, <2>2, <2>3, <2>4, <2>5, <2>6 DEF CallInv
<1>10. WorkInv'
  <2>1. DOMAIN workers' = {} /\ DOMAIN jobs' = {}
    BY <1>1, <1>2, SMT
  <2>2. OtherTypes' /\ NothingBeforeLaunch'
    BY <1>2 DEF Inv, Types, OtherTypes, NothingBeforeLaunch
  <2>3. WorkersAreKnown' /\ RowOfWorker'
    BY <2>1 DEF WorkersAreKnown, RowOfWorker
  <2>4. CallsAreApart'
    BY <2>1 DEF CallsAreApart
  <2>5. ActiveHasTransfer'
    BY <1>6, <1>7 DEF ActiveHasTransfer
  <2>6. QED
    BY <2>2, <2>3, <2>4, <2>5 DEF WorkInv
<1>11. QED
  BY <1>9, <1>10, InvParts, PTL

(***************************************************************************)
(* The steps of a worker                                                   *)
(***************************************************************************)

\* Workers move and keep their downloads; none is at its end before or after.
Kept(v) ==
  /\ workers'[v].id = workers[v].id /\ workers'[v].name = workers[v].name
  /\ workers'[v].pc = "leave" <=> workers[v].pc = "leave"
  /\ workers'[v].pc = "send" => workers[v].pc = "send" /\ workers'[v].etag = workers[v].etag
  /\ workers'[v].pc = "rename" => workers'[v].outcome = "completed"
  /\ workers'[v].pc \in {"settle", "leave"} => workers'[v].outcome \in Outcome
  /\ workers'[v].pc = "leave" => workers'[v].outcome = workers[v].outcome
  /\ workers'[v].pc \in {"open", "check", "read", "rename"} => workers'[v].version \in Version

\* Then the invariant is kept if the rows of the workers and the active rows are.
LEMMA WorkersMove ==
  ASSUME Inv, launched, callers' = callers, jobs' = jobs, launched' = launched,
         server' = server,
         DOMAIN workers' = DOMAIN workers,
         \A v \in DOMAIN workers : workers'[v] \in JobT /\ Kept(v),
         DOMAIN parts' \subseteq FileName, \A n \in DOMAIN parts' : parts'[n] \in ContentT,
         DOMAIN dests' \subseteq FileName, \A n \in DOMAIN dests' : dests'[n] \in ContentT,
         DOMAIN Settled' = DOMAIN Settled,
         \A i \in DOMAIN Settled : Settled'[i].name = Settled[i].name
                                   /\ Settled'[i].state = Settled[i].state,
         \A v \in DOMAIN workers : workers'[v].pc = "send" =>
           Settled'[workers[v].id].etag = Settled[workers[v].id].etag
  PROVE  WorkInv'
<1>1. OtherTypes'
  BY DEF Inv, Types, OtherTypes
<1>2. NothingBeforeLaunch'
  BY DEF NothingBeforeLaunch
<1>3. WorkersAreKnown'
  BY DEF Inv, WorkersAreKnown, Enters, Kept
<1>4. CallsAreApart'
  BY DEF Inv, CallsAreApart, WorksOn
<1>5. RowOfWorker'
  <2>1. ASSUME NEW v \in DOMAIN workers
        PROVE  LET job == workers[v]
               IN /\ job.id \in DOMAIN Settled /\ Settled[job.id].name = job.name
                  /\ job.pc # "leave" => Settled[job.id].state = "active"
                  /\ job.pc = "leave" => Settled[job.id].state = job.outcome
                  /\ job.pc = "send" => job.etag = Settled[job.id].etag
    BY DEF Inv, RowOfWorker
  <2>2. ASSUME NEW v \in DOMAIN workers
        PROVE  LET job == workers'[v]
               IN /\ job.id \in DOMAIN Settled' /\ Settled'[job.id].name = job.name
                  /\ job.pc # "leave" => Settled'[job.id].state = "active"
                  /\ job.pc = "leave" => Settled'[job.id].state = job.outcome
                  /\ job.pc = "send" => job.etag = Settled'[job.id].etag
                  /\ job.pc = "rename" => job.outcome = "completed"
                  /\ job.pc \in {"settle", "leave"} => job.outcome \in Outcome
                  /\ job.pc \in {"open", "check", "read", "rename"} => job.version \in Version
    <3>1. Kept(v) /\ (workers'[v].pc = "send" =>
                        Settled'[workers[v].id].etag = Settled[workers[v].id].etag)
      OBVIOUS
    <3>2. QED
      BY <2>1, <3>1 DEF Kept
  <2>3. QED
    BY <2>2 DEF RowOfWorker
<1>6. ActiveHasTransfer'
  <2>1. ASSUME NEW i \in DOMAIN Settled', Settled'[i].state = "active"
        PROVE  Running(i)'
    <3>1. Running(i)
      BY <2>1 DEF Inv, ActiveHasTransfer
    <3>2. CASE \E w \in DOMAIN workers : workers[w].id = i /\ workers[w].pc # "leave"
      BY <3>2 DEF Running, Kept
    <3>3. CASE \E c \in Thread : callers[c].pc = "spawn" /\ callers[c].id = i
      BY <3>3 DEF Running
    <3>4. QED
      BY <3>1, <3>2, <3>3 DEF Running
  <2>2. QED
    BY <2>1 DEF ActiveHasTransfer
<1>7. QED
  BY <1>1, <1>2, <1>3, <1>4, <1>5, <1>6 DEF WorkInv

\* What is settled lies behind every operation in the channel.
LEMMA SinceFinal ==
  ASSUME Types, NEW x \in Ops(queue)
  PROVE  <<x, Settled>> \in Since(rows, queue)
<1>1. queue \in Seq(OpT) /\ Len(queue) \in Nat
  BY LenProperties DEF Types
<1>2. PICK i \in 1 .. Len(queue) : x = queue[i]
  BY DEF Ops
<1>3. i <= Len(queue) /\ Len(queue) \in 1 .. Len(queue)
  BY <1>1, <1>2, SMT
<1>4. Settled \in Tables(rows, queue) /\ Settled = Written(rows, queue)[Len(queue)]
  BY SettledTyped, SettledIsFinal DEF Final
<1>5. QED
  BY <1>2, <1>3, <1>4 DEF Since

\* A worker leaves the channel alone ...
LEMMA QuietWorker ==
  ASSUME Inv, callers' = callers, rows' = rows, queue' = queue
  PROVE  CallInv'
<1>1. callers = [c \in Thread |-> callers[c]] /\ \A c \in Thread : callers[c] \in CallT
  BY DEF Inv, Types
<1>2. queue' \in Seq(OpT) /\ \A t \in Tables(rows', queue') : TableT(t)
  BY SameChannel DEF Inv, Types
<1>3. OneAtATime' /\ FlushesAreWaitedFor'
  BY SameChannel DEF Inv, OneAtATime, FlushesAreWaitedFor
<1>4. FlushSees' /\ RowIsSettled'
  BY SameChannel DEF Inv, FlushSees, RowIsSettled, Agrees
<1>5. RowOfCall' /\ LegalWrites' /\ TablesGrow'
  BY SameChannel DEF Inv, RowOfCall, ActiveRow, LegalWrites, TablesGrow
<1>6. QED
  BY <1>1, <1>2, <1>3, <1>4, <1>5 DEF CallInv

\* ... or queues operations on its own row, which no call reads meanwhile.
LEMMA WritingWorker ==
  ASSUME Inv, NEW w \in DOMAIN workers, callers' = callers, rows' = rows,
         NEW new, NEW done, NEW finds,
         queue' \in Seq(OpT),
         Tables(rows', queue') = Tables(rows, queue) \cup new, Settled' \in new,
         Writes(rows', queue') = Writes(rows, queue) \cup finds,
         Since(rows', queue') \subseteq
           Since(rows, queue) \cup (Ops(queue') \X new),
         Ops(queue') = Ops(queue) \cup done,
         \A y \in Behind(queue') : y \in Behind(queue) \/ y[2] \in done,
         \A op \in done : op.op # "flush",
         \A y \in finds : Legal(y[1], y[2]),
         \A t \in new : /\ TableT(t) /\ DOMAIN t = DOMAIN Settled
                        /\ OthersKept(Settled, t, workers[w].id)
  PROVE  CallInv'
<1>1. callers = [c \in Thread |-> callers[c]] /\ \A c \in Thread : callers[c] \in CallT
  BY DEF Inv, Types
<1>2. \A t \in Tables(rows', queue') : TableT(t)
  BY DEF Inv, Types
<1>3. DOMAIN Settled' = DOMAIN Settled
  OBVIOUS
<1>4. ASSUME NEW c \in Thread,
             \/ callers[c].pc \in {"resume", "cancel", "spawn"}
             \/ callers[c].pc = "flush" /\ callers[c].then # "list"
      PROVE  callers[c].id # workers[w].id
  <2>1. WorksOn(c) /\ callers[c].pc # "register"
    BY <1>4 DEF WorksOn
  <2>2. QED
    BY <2>1, OnItsOwn
<1>5. ASSUME NEW c \in Thread,
             \/ callers[c].pc \in {"resume", "cancel", "spawn"}
             \/ callers[c].pc = "flush" /\ callers[c].then # "list",
             callers[c].id \in DOMAIN Settled,
             NEW t \in new
      PROVE  callers[c].id \in DOMAIN t /\ t[callers[c].id] = Settled'[callers[c].id]
             /\ Settled'[callers[c].id] = Settled[callers[c].id]
  BY <1>4, <1>5 DEF OthersKept
<1>6. OneAtATime' /\ FlushesAreWaitedFor'
  BY DEF Inv, OneAtATime, FlushesAreWaitedFor
<1>7. FlushSees'
  <2>1. ASSUME NEW y \in Since(rows', queue'), y[1].op = "flush",
               callers[y[1].by].then # "list"
        PROVE  /\ callers[y[1].by].id \in DOMAIN y[2]
               /\ y[2][callers[y[1].by].id] = Settled'[callers[y[1].by].id]
    <3> DEFINE c == y[1].by
    <3>1. y[1] \in Ops(queue)
      <4>1. y[1] \in Ops(queue')
        BY DEF Since
      <4>2. QED
        BY <2>1, <4>1
    <3>2. c \in Thread
      <4>1. y[1] \in OpT
        BY <3>1, OpsTyped DEF Inv
      <4>2. QED
        BY <2>1, <4>1, SMT DEF OpT, MarkStale
    <3>3. callers[c].pc = "flush"
      BY <2>1, <3>1 DEF Inv, FlushesAreWaitedFor
    <3>4. callers[c].id \in DOMAIN Settled
      <4>1. <<y[1], Settled>> \in Since(rows, queue)
        BY <3>1, SinceFinal DEF Inv
      <4>2. QED
        BY <2>1, <4>1 DEF Inv, FlushSees, Agrees
    <3>5. Settled'[callers[c].id] = Settled[callers[c].id]
      BY <1>5, <2>1, <3>2, <3>3, <3>4
    <3>6. CASE y \in Since(rows, queue)
      BY <2>1, <3>5, <3>6 DEF Inv, FlushSees, Agrees
    <3>7. CASE y \in Ops(queue') \X new
      BY <1>5, <2>1, <3>2, <3>3, <3>4, <3>7
    <3>8. QED
      BY <3>6, <3>7
  <2>2. QED
    BY <2>1 DEF FlushSees, Agrees
<1>8. RowIsSettled'
  <2>1. ASSUME NEW c \in Thread, callers[c].pc \in {"resume", "cancel"},
               NEW t \in Tables(rows', queue')
        PROVE  callers[c].id \in DOMAIN t /\ t[callers[c].id] = Settled'[callers[c].id]
    <3>1. callers[c].id \in DOMAIN Settled
      BY <2>1, ReadRow
    <3>2. Settled'[callers[c].id] = Settled[callers[c].id]
      BY <1>5, <2>1, <3>1
    <3>3. CASE t \in Tables(rows, queue)
      BY <2>1, <3>2, <3>3 DEF Inv, RowIsSettled, Agrees
    <3>4. CASE t \in new
      BY <1>5, <2>1, <3>1, <3>4
    <3>5. QED
      BY <3>3, <3>4
  <2>2. QED
    BY <2>1 DEF RowIsSettled, Agrees
<1>9. RowOfCall'
  <2>1. ASSUME NEW c \in Thread, callers[c].pc = "spawn"
        PROVE  callers[c].id \in DOMAIN Settled /\ Settled'[callers[c].id] = Settled[callers[c].id]
    BY <1>5, <2>1 DEF Inv, RowOfCall, ActiveRow
  <2>2. QED
    BY <1>3, <2>1 DEF Inv, RowOfCall, ActiveRow
<1>10. LegalWrites'
  <2>1. \A y \in Writes(rows', queue') : Legal(y[1], y[2])
    BY DEF Inv, LegalWrites
  <2>2. QED
    BY <2>1 DEF LegalWrites
<1>11. TablesGrow'
  <2>1. \A t \in Tables(rows', queue') : DOMAIN t \subseteq DOMAIN Settled'
    BY <1>3 DEF Inv, TablesGrow
  <2>2. QED
    BY <1>3, <2>1 DEF Inv, TablesGrow
<1>12. QED
  BY <1>1, <1>2, <1>6, <1>7, <1>8, <1>9, <1>10, <1>11 DEF CallInv

(***************************************************************************)
(* One worker moves                                                        *)
(***************************************************************************)

Moves(w) ==
  DOMAIN workers' = DOMAIN workers /\ \A v \in DOMAIN workers \ {w} : workers'[v] = workers[v]
SameDownload(w) ==
  /\ workers'[w].id = workers[w].id /\ workers'[w].name = workers[w].name
  /\ workers'[w].from = workers[w].from /\ workers'[w].etag = workers[w].etag
SameTransfer(w) ==
  /\ SameDownload(w) /\ workers'[w].version = workers[w].version
  /\ workers'[w].got = workers[w].got /\ workers'[w].received = workers[w].received

LEMMA EndedJob ==
  ASSUME Types, NEW w \in DOMAIN workers, NEW outcome \in Outcome, workers' = Ended(w, outcome)
  PROVE  /\ Moves(w) /\ SameTransfer(w) /\ workers'[w] \in JobT
         /\ workers'[w].pc = IF outcome = "completed" THEN "rename" ELSE "settle"
         /\ workers'[w].outcome = outcome
<1> DEFINE job == workers[w]
           pc == IF outcome = "completed" THEN "rename" ELSE "settle"
           j1 == [job EXCEPT !.outcome = outcome]
           j2 == [j1 EXCEPT !.pc = pc]
<1>1. job \in JobT
  BY DEF Types
<1>2. Moves(w) /\ workers'[w] = j2
  BY DEF Ended, Moves
<1>3. pc \in {"rename", "settle"}
  OBVIOUS
<1> HIDE DEF job, pc
<1>4. /\ j1 \in JobT /\ j1.outcome = outcome /\ j1.id = job.id /\ j1.name = job.name
      /\ j1.from = job.from /\ j1.etag = job.etag /\ j1.version = job.version
      /\ j1.got = job.got /\ j1.received = job.received
  BY <1>1, SMT DEF JobT, Outcome
<1> HIDE DEF j1
<1>5. /\ j2 \in JobT /\ j2.pc = pc /\ j2.outcome = j1.outcome /\ j2.id = j1.id /\ j2.name = j1.name
      /\ j2.from = j1.from /\ j2.etag = j1.etag /\ j2.version = j1.version
      /\ j2.got = j1.got /\ j2.received = j1.received
  BY <1>3, <1>4, SMT DEF JobT
<1> HIDE DEF j2
<1>6. QED
  BY <1>2, <1>4, <1>5 DEF SameTransfer, SameDownload, job, pc

LEMMA MovedJob ==
  ASSUME Types, NEW w \in DOMAIN workers, NEW pc \in {"check", "read", "settle", "leave"},
         workers' = [workers EXCEPT ![w].pc = pc]
  PROVE  /\ Moves(w) /\ SameTransfer(w) /\ workers'[w] \in JobT
         /\ workers'[w].pc = pc /\ workers'[w].outcome = workers[w].outcome
<1> DEFINE job == workers[w]
           j2 == [job EXCEPT !.pc = pc]
<1>1. job \in JobT
  BY DEF Types
<1>2. Moves(w) /\ workers'[w] = j2
  BY DEF Moves
<1> HIDE DEF job
<1>3. /\ j2 \in JobT /\ j2.pc = pc /\ j2.outcome = job.outcome /\ j2.id = job.id /\ j2.name = job.name
      /\ j2.from = job.from /\ j2.etag = job.etag /\ j2.version = job.version
      /\ j2.got = job.got /\ j2.received = job.received
  BY <1>1, SMT DEF JobT
<1> HIDE DEF j2
<1>4. QED
  BY <1>2, <1>3 DEF SameTransfer, SameDownload, job

LEMMA HeadersJob ==
  ASSUME Types, NEW w \in DOMAIN workers, NEW got \in Nat, NEW received \in Nat,
         workers' = [workers EXCEPT ![w].pc = "open", ![w].version = server,
                                    ![w].got = got, ![w].received = received]
  PROVE  /\ Moves(w) /\ SameDownload(w) /\ workers'[w] \in JobT
         /\ workers'[w].pc = "open" /\ workers'[w].version = server
         /\ workers'[w].got = got /\ workers'[w].received = received
<1> DEFINE job == workers[w]
           j1 == [job EXCEPT !.pc = "open"]
           j2 == [j1 EXCEPT !.version = server]
           j3 == [j2 EXCEPT !.got = got]
           j4 == [j3 EXCEPT !.received = received]
<1>1. job \in JobT /\ server \in Version
  BY DEF Types
<1>2. Moves(w) /\ workers'[w] = j4
  BY DEF Moves
<1> HIDE DEF job
<1>3. j1 \in JobT /\ j1.pc = "open" /\ j1.id = job.id /\ j1.name = job.name
      /\ j1.from = job.from /\ j1.etag = job.etag
  BY <1>1, SMT DEF JobT
<1> HIDE DEF j1
<1>4. j2 \in JobT /\ j2.pc = "open" /\ j2.id = j1.id /\ j2.name = j1.name
      /\ j2.from = j1.from /\ j2.etag = j1.etag /\ j2.version = server
  BY <1>1, <1>3, SMT DEF JobT
<1> HIDE DEF j2
<1>5. j3 \in JobT /\ j3.pc = "open" /\ j3.id = j2.id /\ j3.name = j2.name
      /\ j3.from = j2.from /\ j3.etag = j2.etag /\ j3.version = server /\ j3.got = got
  BY <1>4, SMT DEF JobT
<1> HIDE DEF j3
<1>6. j4 \in JobT /\ j4.pc = "open" /\ j4.id = j3.id /\ j4.name = j3.name
      /\ j4.from = j3.from /\ j4.etag = j3.etag /\ j4.version = server /\ j4.got = got
      /\ j4.received = received
  BY <1>5, SMT DEF JobT
<1> HIDE DEF j4
<1>7. QED
  BY <1>2, <1>3, <1>4, <1>5, <1>6 DEF SameDownload, job

LEMMA ChunkJob ==
  ASSUME Types, NEW w \in DOMAIN workers, NEW got \in Nat,
         workers' = [workers EXCEPT ![w].pc = "check", ![w].got = got, ![w].received = got]
  PROVE  /\ Moves(w) /\ SameDownload(w) /\ workers'[w] \in JobT
         /\ workers'[w].pc = "check" /\ workers'[w].version = workers[w].version
         /\ workers'[w].got = got /\ workers'[w].received = got
<1> DEFINE job == workers[w]
           j1 == [job EXCEPT !.pc = "check"]
           j2 == [j1 EXCEPT !.got = got]
           j3 == [j2 EXCEPT !.received = got]
<1>1. job \in JobT
  BY DEF Types
<1>2. Moves(w) /\ workers'[w] = j3
  BY DEF Moves
<1> HIDE DEF job
<1>3. j1 \in JobT /\ j1.pc = "check" /\ j1.id = job.id /\ j1.name = job.name
      /\ j1.from = job.from /\ j1.etag = job.etag /\ j1.version = job.version
  BY <1>1, SMT DEF JobT
<1> HIDE DEF j1
<1>4. j2 \in JobT /\ j2.pc = "check" /\ j2.id = j1.id /\ j2.name = j1.name
      /\ j2.from = j1.from /\ j2.etag = j1.etag /\ j2.version = j1.version /\ j2.got = got
  BY <1>3, SMT DEF JobT
<1> HIDE DEF j2
<1>5. j3 \in JobT /\ j3.pc = "check" /\ j3.id = j2.id /\ j3.name = j2.name
      /\ j3.from = j2.from /\ j3.etag = j2.etag /\ j3.version = j2.version /\ j3.got = got
      /\ j3.received = got
  BY <1>4, SMT DEF JobT
<1> HIDE DEF j3
<1>6. QED
  BY <1>2, <1>3, <1>4, <1>5 DEF SameDownload, job

\* Every row but the worker's stays, and the worker's keeps its name and state.
LEMMA ProgressWorker ==
  ASSUME Inv, NEW w \in DOMAIN workers, callers' = callers, rows' = rows,
         NEW received \in Nat, NEW etag \in Etag,
         Submit(<<Progress(workers[w].id, received, etag)>>)
  PROVE  /\ CallInv'
         /\ DOMAIN Settled' = DOMAIN Settled
         /\ OthersKept(Settled, Settled', workers[w].id)
         /\ Settled'[workers[w].id].name = Settled[workers[w].id].name
         /\ Settled'[workers[w].id].state = Settled[workers[w].id].state
         /\ Settled'[workers[w].id].received = received
         /\ Settled'[workers[w].id].etag =
              IF etag = None THEN Settled[workers[w].id].etag ELSE etag
         /\ Tables(rows', queue') = Tables(rows, queue) \cup {Settled'}
         /\ Ops(queue') = Ops(queue) \cup {Progress(workers[w].id, received, etag)}
<1> DEFINE id == workers[w].id
           op == Progress(id, received, etag)
<1>1. Types /\ TableT(Settled) /\ id \in DownloadId /\ id \in DOMAIN Settled
  <2>1. workers[w] \in JobT
    BY DEF Inv, Types
  <2>2. QED
    BY <2>1, SettledTyped, SMT DEF Inv, RowOfWorker, JobT
<1>2. op \in OpT /\ op.op = "progress" /\ op.id = id
  BY <1>1, SMT DEF Progress, OpT
<1>3. /\ queue' \in Seq(OpT)
      /\ Settled' = Applied(Settled, op)
      /\ Tables(rows', queue') = Tables(rows, queue) \cup {Settled'}
      /\ Writes(rows', queue') = Writes(rows, queue) \cup {<<Settled, op>>}
      /\ Since(rows', queue') \subseteq
           Since(rows, queue) \cup {<<x, Settled'>> : x \in Ops(queue) \cup {op}}
      /\ Ops(queue') = Ops(queue) \cup {op}
      /\ Behind(queue') \subseteq Behind(queue) \cup {<<x, op>> : x \in Ops(queue)}
  BY <1>1, <1>2, SubmitOne
<1> HIDE DEF id
<1>4. /\ TableT(Settled') /\ DOMAIN Settled' = DOMAIN Settled /\ OthersKept(Settled, Settled', id)
      /\ Settled'[id].name = Settled[id].name /\ Settled'[id].state = Settled[id].state
      /\ Settled'[id].received = received
      /\ Settled'[id].etag = IF etag = None THEN Settled[id].etag ELSE etag
  BY <1>1, <1>3, ProgressRow
<1> HIDE DEF op
<1>5. Legal(Settled, op)
  BY <1>1, <1>2 DEF Legal
<1>6. CallInv'
  <2> DEFINE new == {Settled'}
             done == {op}
             finds == {<<Settled, op>>}
  <2>1. \A y \in Behind(queue') : y \in Behind(queue) \/ y[2] \in done
    BY <1>3
  <2>2. Since(rows', queue') \subseteq Since(rows, queue) \cup (Ops(queue') \X new)
    BY <1>3
  <2>3. \A y \in finds : Legal(y[1], y[2])
    BY <1>5
  <2>4. \A t \in new : TableT(t) /\ DOMAIN t = DOMAIN Settled /\ OthersKept(Settled, t, workers[w].id)
    BY <1>4 DEF id
  <2>5. /\ Settled' \in new /\ \A x \in done : x.op # "flush"
        /\ Tables(rows', queue') = Tables(rows, queue) \cup new
        /\ Writes(rows', queue') = Writes(rows, queue) \cup finds
        /\ Ops(queue') = Ops(queue) \cup done
    BY <1>2, <1>3
  <2> HIDE DEF new, done, finds
  <2>6. QED
    BY <1>3, <2>1, <2>2, <2>3, <2>4, <2>5, WritingWorker
<1>7. QED
  BY <1>3, <1>4, <1>6 DEF id, op

LEMMA Launched == ASSUME Inv, NEW w \in DOMAIN workers PROVE launched
<1>1. DOMAIN <<>> = {}
  BY SMT
<1>2. QED
  BY <1>1 DEF Inv, NothingBeforeLaunch

\* A step of a worker that is not its last write
LEMMA WorkerMoves ==
  ASSUME Inv, NEW w \in DOMAIN workers, Moves(w), workers'[w] \in JobT,
         workers'[w].id = workers[w].id, workers'[w].name = workers[w].name,
         workers[w].pc # "leave",
         workers'[w].pc \in {"open", "check", "read", "rename", "settle"},
         workers'[w].pc = "rename" => workers'[w].outcome = "completed",
         workers'[w].pc = "settle" => workers'[w].outcome \in Outcome,
         workers'[w].pc \in {"open", "check", "read", "rename"} => workers'[w].version \in Version,
         callers' = callers, jobs' = jobs, launched' = launched, server' = server,
         DOMAIN parts' \subseteq FileName, \A n \in DOMAIN parts' : parts'[n] \in ContentT,
         DOMAIN dests' \subseteq FileName, \A n \in DOMAIN dests' : dests'[n] \in ContentT,
         CallInv', DOMAIN Settled' = DOMAIN Settled,
         OthersKept(Settled, Settled', workers[w].id),
         Settled'[workers[w].id].name = Settled[workers[w].id].name,
         Settled'[workers[w].id].state = Settled[workers[w].id].state
  PROVE  Inv'
<1>1. launched
  BY Launched
<1>2. DOMAIN workers' = DOMAIN workers
  BY DEF Moves
<1>3. ASSUME NEW v \in DOMAIN workers
      PROVE  workers'[v] \in JobT /\ Kept(v)
  <2>1. CASE v = w
    BY <2>1 DEF Kept
  <2>2. CASE v # w
    BY <2>2 DEF Moves, Kept, Inv, Types, RowOfWorker
  <2>3. QED
    BY <2>1, <2>2
<1>4. \A i \in DOMAIN Settled : Settled'[i].name = Settled[i].name
                                /\ Settled'[i].state = Settled[i].state
  BY DEF OthersKept
<1>5. ASSUME NEW v \in DOMAIN workers, workers'[v].pc = "send"
      PROVE  Settled'[workers[v].id].etag = Settled[workers[v].id].etag
  <2>1. v # w
    BY <1>5
  <2>2. workers[v].id # workers[w].id
    BY <2>1, OneWorkerEach
  <2>3. QED
    BY <2>2 DEF OthersKept, Inv, RowOfWorker
<1>6. WorkInv'
  BY <1>1, <1>2, <1>3, <1>4, <1>5, WorkersMove
<1>7. QED
  BY <1>6, InvParts, PTL

\* The same, when the channel stays
LEMMA WorkerMovesQuietly ==
  ASSUME Inv, NEW w \in DOMAIN workers, Moves(w), workers'[w] \in JobT,
         workers'[w].id = workers[w].id, workers'[w].name = workers[w].name,
         workers[w].pc # "leave",
         workers'[w].pc \in {"open", "check", "read", "rename", "settle"},
         workers'[w].pc = "rename" => workers'[w].outcome = "completed",
         workers'[w].pc = "settle" => workers'[w].outcome \in Outcome,
         workers'[w].pc \in {"open", "check", "read", "rename"} => workers'[w].version \in Version,
         rows' = rows, queue' = queue,
         callers' = callers, jobs' = jobs, launched' = launched, server' = server,
         DOMAIN parts' \subseteq FileName, \A n \in DOMAIN parts' : parts'[n] \in ContentT,
         DOMAIN dests' \subseteq FileName, \A n \in DOMAIN dests' : dests'[n] \in ContentT
  PROVE  Inv'
<1>1. CallInv'
  BY QuietWorker
<1>2. Settled' = Settled
  BY SameChannel
<1>3. OthersKept(Settled, Settled', workers[w].id)
  BY <1>2 DEF OthersKept
<1>4. QED
  BY <1>1, <1>2, <1>3, WorkerMoves

LEMMA FilesTyped ==
  ASSUME Inv
  PROVE  /\ DOMAIN parts \subseteq FileName /\ \A n \in DOMAIN parts : parts[n] \in ContentT
         /\ DOMAIN dests \subseteq FileName /\ \A n \in DOMAIN dests : dests[n] \in ContentT
BY DEF Inv, Types

LEMMA JobFields ==
  ASSUME Inv, NEW w \in DOMAIN workers
  PROVE  /\ workers[w].id \in DownloadId /\ workers[w].name \in FileName
         /\ workers[w].from \in Nat /\ workers[w].etag \in Etag
         /\ workers[w].got \in Nat /\ workers[w].received \in Nat
         /\ workers[w].version \in Version \cup {None}
<1>1. workers[w] \in JobT
  BY DEF Inv, Types
<1>2. QED
  BY <1>1, SMT DEF JobT

LEMMA EtagOfServer == ASSUME Inv PROVE server \in Version /\ Validator[server] \in Etag
BY DEF Inv, Types, Etag

LEMMA ControlInv ==
  ASSUME Inv, NEW id \in DOMAIN jobs, NEW value \in {"pause", "cancel"}, Control(id, value)
  PROVE  Inv'
<1>1. /\ workers' = [w \in DOMAIN workers |->
              IF w = jobs[id] THEN [workers[w] EXCEPT !.control = value] ELSE workers[w]]
      /\ rows' = rows /\ queue' = queue /\ jobs' = jobs /\ callers' = callers
      /\ parts' = parts /\ dests' = dests /\ server' = server /\ launched' = launched
  BY DEF Control, files
<1>2. DOMAIN workers' = DOMAIN workers
  BY <1>1
<1>3. CallInv' /\ Settled' = Settled
  BY <1>1, QuietWorker, SameChannel
<1>4. ASSUME NEW v \in DOMAIN workers
      PROVE  workers'[v] \in JobT /\ Kept(v)
  <2> DEFINE job == workers[v]
             told == [job EXCEPT !.control = value]
  <2>1. job \in JobT /\ workers'[v] \in {job, told}
    BY <1>1 DEF Inv, Types
  <2> HIDE DEF job
  <2>2. /\ told \in JobT /\ told.id = job.id /\ told.name = job.name /\ told.pc = job.pc
        /\ told.etag = job.etag /\ told.outcome = job.outcome /\ told.version = job.version
    BY <2>1, SMT DEF JobT
  <2>3. /\ job.pc = "rename" => job.outcome = "completed"
        /\ job.pc \in {"settle", "leave"} => job.outcome \in Outcome
        /\ job.pc \in {"open", "check", "read", "rename"} => job.version \in Version
    BY DEF Inv, RowOfWorker, job
  <2> HIDE DEF told
  <2>4. QED
    BY <2>1, <2>2, <2>3 DEF Kept, job
<1>5. launched
  <2>1. DOMAIN <<>> = {}
    BY SMT
  <2>2. QED
    BY <2>1 DEF Inv, NothingBeforeLaunch
<1>6. WorkInv'
  BY <1>1, <1>2, <1>3, <1>4, <1>5, FilesTyped, WorkersMove
<1>7. QED
  BY <1>3, <1>6, InvParts, PTL

LEMMA SendRequestInv ==
  ASSUME Inv, NEW w \in DOMAIN workers, SendRequest(w)
  PROVE  Inv'
<1>1. /\ workers[w].pc = "send" /\ rows' = rows /\ jobs' = jobs /\ callers' = callers
      /\ parts' = parts /\ dests' = dests /\ server' = server /\ launched' = launched
  BY DEF SendRequest, files
<1>2. CASE RequestFails(w)
  <2>1. workers' = Ended(w, "interrupted") /\ queue' = queue /\ "interrupted" \in Outcome
    BY <1>2 DEF RequestFails, Outcome
  <2>2. /\ Moves(w) /\ SameTransfer(w) /\ workers'[w] \in JobT
        /\ workers'[w].pc = "settle" /\ workers'[w].outcome = "interrupted"
    BY <2>1, EndedJob DEF Inv
  <2>3. workers'[w].id = workers[w].id /\ workers'[w].name = workers[w].name
    BY <2>2 DEF SameTransfer, SameDownload
  <2>4. QED
    BY <1>1, <2>1, <2>2, <2>3, FilesTyped, WorkerMovesQuietly
<1>3. ASSUME NEW got \in Nat, NEW received \in Nat, Headers(w, got, received)
      PROVE  Inv'
  <2>1. /\ Moves(w) /\ SameDownload(w) /\ workers'[w] \in JobT
        /\ workers'[w].pc = "open" /\ workers'[w].version = server
    BY <1>3, HeadersJob DEF Headers, Inv
  <2>2. /\ CallInv'
        /\ DOMAIN Settled' = DOMAIN Settled
        /\ OthersKept(Settled, Settled', workers[w].id)
        /\ Settled'[workers[w].id].name = Settled[workers[w].id].name
        /\ Settled'[workers[w].id].state = Settled[workers[w].id].state
    BY <1>1, <1>3, EtagOfServer, ProgressWorker DEF Headers
  <2>3. workers'[w].id = workers[w].id /\ workers'[w].name = workers[w].name
    BY <2>1 DEF SameDownload
  <2>4. QED
    BY <1>1, <2>1, <2>2, <2>3, FilesTyped, EtagOfServer, WorkerMoves
<1>4. CASE Continues(w)
  BY <1>3, <1>4, JobFields DEF Continues
<1>5. CASE Restarts(w)
  BY <1>3, <1>5, JobFields DEF Restarts
<1>6. QED
  BY <1>2, <1>4, <1>5 DEF SendRequest

LEMMA OpenPartInv ==
  ASSUME Inv, NEW w \in DOMAIN workers, OpenPart(w)
  PROVE  Inv'
<1>1. /\ workers[w].pc = "open" /\ rows' = rows /\ queue' = queue /\ jobs' = jobs
      /\ callers' = callers /\ dests' = dests /\ server' = server /\ launched' = launched
  BY DEF OpenPart
<1>2. workers[w].version \in Version /\ workers[w].name \in FileName
  BY <1>1, JobFields DEF Inv, RowOfWorker
<1>3. CASE /\ workers' = [workers EXCEPT ![w].pc = "check"]
           /\ \/ parts' = parts
              \/ parts' = Put(parts, workers[w].name, <<>>)
  <2>1. /\ Moves(w) /\ SameTransfer(w) /\ workers'[w] \in JobT /\ workers'[w].pc = "check"
    BY <1>3, MovedJob DEF Inv
  <2>2. /\ workers'[w].id = workers[w].id /\ workers'[w].name = workers[w].name
        /\ workers'[w].version = workers[w].version
    BY <2>1 DEF SameTransfer, SameDownload
  <2>3. DOMAIN parts' \subseteq FileName /\ \A n \in DOMAIN parts' : parts'[n] \in ContentT
    <3>1. <<>> \in ContentT
      BY EmptySeq DEF ContentT
    <3>2. QED
      BY <1>2, <1>3, <3>1, FilesTyped DEF Put
  <2>4. QED
    BY <1>1, <1>2, <2>1, <2>2, <2>3, FilesTyped, WorkerMovesQuietly
<1>4. CASE workers' = Ended(w, "interrupted") /\ parts' = parts
  <2>1. /\ Moves(w) /\ SameTransfer(w) /\ workers'[w] \in JobT
        /\ workers'[w].pc = "settle" /\ workers'[w].outcome \in Outcome
    BY <1>4, EndedJob DEF Inv, Outcome
  <2>2. workers'[w].id = workers[w].id /\ workers'[w].name = workers[w].name
    BY <2>1 DEF SameTransfer, SameDownload
  <2>3. QED
    BY <1>1, <1>4, <2>1, <2>2, FilesTyped, WorkerMovesQuietly
<1>5. QED
  BY <1>3, <1>4 DEF OpenPart

LEMMA CheckControlInv ==
  ASSUME Inv, NEW w \in DOMAIN workers, CheckControl(w)
  PROVE  Inv'
<1>1. /\ workers[w].pc = "check" /\ rows' = rows /\ queue' = queue /\ jobs' = jobs
      /\ callers' = callers /\ dests' = dests /\ server' = server /\ launched' = launched
  BY DEF CheckControl
<1>2. DOMAIN parts' \subseteq FileName /\ \A n \in DOMAIN parts' : parts'[n] \in ContentT
  BY FilesTyped DEF CheckControl, Drop
<1>3. CASE workers' = [workers EXCEPT ![w].pc = "read"]
  <2>1. workers[w].version \in Version
    BY <1>1 DEF Inv, RowOfWorker
  <2>2. /\ Moves(w) /\ SameTransfer(w) /\ workers'[w] \in JobT /\ workers'[w].pc = "read"
    BY <1>3, MovedJob DEF Inv
  <2>3. /\ workers'[w].id = workers[w].id /\ workers'[w].name = workers[w].name
        /\ workers'[w].version = workers[w].version
    BY <2>2 DEF SameTransfer, SameDownload
  <2>4. QED
    BY <1>1, <1>2, <2>1, <2>2, <2>3, FilesTyped, WorkerMovesQuietly
<1>4. CASE \E outcome \in {"paused", "cancelled"} : workers' = Ended(w, outcome)
  <2>1. /\ Moves(w) /\ SameTransfer(w) /\ workers'[w] \in JobT
        /\ workers'[w].pc = "settle" /\ workers'[w].outcome \in Outcome
    BY <1>4, EndedJob DEF Inv, Outcome
  <2>2. workers'[w].id = workers[w].id /\ workers'[w].name = workers[w].name
    BY <2>1 DEF SameTransfer, SameDownload
  <2>3. QED
    BY <1>1, <1>2, <2>1, <2>2, FilesTyped, WorkerMovesQuietly
<1>5. QED
  BY <1>3, <1>4 DEF CheckControl

LEMMA ReadChunkInv ==
  ASSUME Inv, NEW w \in DOMAIN workers, ReadChunk(w)
  PROVE  Inv'
<1> DEFINE name == workers[w].name
           got == workers[w].got + 1
           chunk == <<workers[w].version, got>>
<1>1. /\ workers[w].pc = "read" /\ rows' = rows /\ jobs' = jobs
      /\ callers' = callers /\ dests' = dests /\ server' = server /\ launched' = launched
      /\ got <= Size
      /\ parts' = (IF name \in DOMAIN parts THEN [parts EXCEPT ![name] = Append(@, chunk)]
                   ELSE parts)
      /\ workers' = [workers EXCEPT ![w].pc = "check", ![w].got = got, ![w].received = got]
      /\ Submit(<<>>) \/ Submit(<<Progress(workers[w].id, got, None)>>)
  BY DEF ReadChunk
<1>2. got \in Nat /\ got \in 1 .. Size /\ workers[w].version \in Version
  BY <1>1, SizeIsPos, JobFields, SMT DEF Inv, RowOfWorker
<1>3. chunk \in Version \X (1 .. Size)
  BY <1>2
<1>4. DOMAIN parts' \subseteq FileName /\ \A n \in DOMAIN parts' : parts'[n] \in ContentT
  <2> HIDE DEF chunk
  <2>1. \A s \in ContentT : Append(s, chunk) \in ContentT
    BY <1>3, AppendProperties DEF ContentT
  <2>2. QED
    BY <1>1, <2>1, FilesTyped
<1> HIDE DEF got
<1>5. /\ Moves(w) /\ SameDownload(w) /\ workers'[w] \in JobT
      /\ workers'[w].pc = "check" /\ workers'[w].version = workers[w].version
  BY <1>1, <1>2, ChunkJob DEF Inv
<1>6. workers'[w].id = workers[w].id /\ workers'[w].name = workers[w].name
  BY <1>5 DEF SameDownload
<1>7. CASE Submit(<<>>)
  <2>1. queue' = queue
    BY <1>7, ConcatEmptySeq DEF Submit, Inv, Types
  <2>2. QED
    BY <1>1, <1>2, <1>4, <1>5, <1>6, <2>1, FilesTyped, WorkerMovesQuietly
<1>8. CASE Submit(<<Progress(workers[w].id, got, None)>>)
  <2>1. None \in Etag
    BY DEF Etag
  <2>2. /\ CallInv'
        /\ DOMAIN Settled' = DOMAIN Settled
        /\ OthersKept(Settled, Settled', workers[w].id)
        /\ Settled'[workers[w].id].name = Settled[workers[w].id].name
        /\ Settled'[workers[w].id].state = Settled[workers[w].id].state
    BY <1>1, <1>2, <1>8, <2>1, ProgressWorker
  <2>3. QED
    BY <1>1, <1>2, <1>4, <1>5, <1>6, <2>2, FilesTyped, WorkerMoves
<1>9. QED
  BY <1>1, <1>7, <1>8

LEMMA ReadEndInv ==
  ASSUME Inv, NEW w \in DOMAIN workers, ReadEnd(w)
  PROVE  Inv'
<1>1. /\ workers[w].pc = "read" /\ rows' = rows /\ queue' = queue /\ jobs' = jobs
      /\ callers' = callers /\ parts' = parts /\ dests' = dests
      /\ server' = server /\ launched' = launched
  BY DEF ReadEnd, files
<1>2. PICK outcome \in {"completed", "interrupted"} : workers' = Ended(w, outcome)
  BY DEF ReadEnd, EndOfBody
<1>3. /\ Moves(w) /\ SameTransfer(w) /\ workers'[w] \in JobT
      /\ workers'[w].pc = (IF outcome = "completed" THEN "rename" ELSE "settle")
      /\ workers'[w].outcome = outcome /\ outcome \in Outcome
  BY <1>2, EndedJob DEF Inv, Outcome
<1>4. /\ workers'[w].id = workers[w].id /\ workers'[w].name = workers[w].name
      /\ workers'[w].version = workers[w].version
  BY <1>3 DEF SameTransfer, SameDownload
<1>5. workers[w].version \in Version
  BY <1>1 DEF Inv, RowOfWorker
<1>6. QED
  BY <1>1, <1>3, <1>4, <1>5, FilesTyped, WorkerMovesQuietly

LEMMA RenameInv ==
  ASSUME Inv, NEW w \in DOMAIN workers, Rename(w)
  PROVE  Inv'
<1>1. /\ workers[w].pc = "rename" /\ rows' = rows /\ queue' = queue /\ jobs' = jobs
      /\ callers' = callers /\ server' = server /\ launched' = launched
      /\ workers' = [workers EXCEPT ![w].pc = "settle"]
  BY DEF Rename
<1>2. /\ DOMAIN parts' \subseteq FileName /\ \A n \in DOMAIN parts' : parts'[n] \in ContentT
      /\ DOMAIN dests' \subseteq FileName /\ \A n \in DOMAIN dests' : dests'[n] \in ContentT
  BY FilesTyped DEF Rename, files, Drop, Put
<1>3. /\ Moves(w) /\ SameTransfer(w) /\ workers'[w] \in JobT /\ workers'[w].pc = "settle"
      /\ workers'[w].outcome = workers[w].outcome
  BY <1>1, MovedJob DEF Inv
<1>4. workers'[w].id = workers[w].id /\ workers'[w].name = workers[w].name
  BY <1>3 DEF SameTransfer, SameDownload
<1>5. workers[w].outcome \in Outcome
  BY <1>1 DEF Inv, RowOfWorker, Outcome
<1>6. QED
  BY <1>1, <1>2, <1>3, <1>4, <1>5, WorkerMovesQuietly

\* The last write: what was active takes the outcome of the transfer.
LEMMA SettleChannel ==
  ASSUME Inv, NEW w \in DOMAIN workers, Settle(w)
  PROVE  LET id == workers[w].id
             mid == Applied(Settled, Progress(id, workers[w].received, None))
         IN /\ CallInv'
            /\ DOMAIN Settled' = DOMAIN Settled
            /\ OthersKept(Settled, Settled', id)
            /\ Settled'[id].name = Settled[id].name
            /\ Settled'[id].state = workers[w].outcome
            /\ Settled'[id].received = workers[w].received
            /\ Settled'[id].etag = Settled[id].etag
            /\ Tables(rows', queue') = Tables(rows, queue) \cup {mid, Settled'}
            /\ DOMAIN mid = DOMAIN Settled /\ OthersKept(Settled, mid, id)
            /\ mid[id].name = Settled[id].name /\ mid[id].state = Settled[id].state
            /\ mid[id].received = workers[w].received
            /\ \A op \in Ops(queue') : \/ op \in Ops(queue)
                                       \/ op = Progress(id, workers[w].received, None)
                                       \/ op.op # "progress"
<1> DEFINE id == workers[w].id
           received == workers[w].received
           outcome == workers[w].outcome
           a == Progress(id, received, None)
           b == SetState(id, outcome)
           mid == Applied(Settled, a)
<1>1. /\ workers[w].pc = "settle" /\ rows' = rows /\ callers' = callers /\ Submit(<<a, b>>)
  BY DEF Settle
<1>2. Types /\ TableT(Settled) /\ id \in DOMAIN Settled /\ id \in DownloadId
      /\ received \in Nat /\ outcome \in Outcome /\ Settled[id].state = "active"
  BY <1>1, SettledTyped, JobFields DEF Inv, RowOfWorker
<1>3. outcome \in State /\ CanTransition("active", outcome) /\ None \in Etag
  BY <1>2 DEF Outcome, State, CanTransition, Etag
<1> HIDE DEF id, received, outcome
<1>4. /\ a \in OpT /\ a.op = "progress" /\ a.id = id
      /\ b \in OpT /\ b.op = "state" /\ b.id = id /\ b.state = outcome
  BY <1>2, <1>3, SMT DEF Progress, SetState, OpT
<1>5. /\ TableT(mid) /\ DOMAIN mid = DOMAIN Settled /\ OthersKept(Settled, mid, id)
      /\ mid[id].name = Settled[id].name /\ mid[id].state = Settled[id].state
      /\ mid[id].received = received /\ mid[id].etag = Settled[id].etag
  BY <1>2, <1>3, ProgressRow
<1> DEFINE last == Applied(mid, b)
<1> HIDE DEF mid
<1>6. /\ TableT(last) /\ DOMAIN last = DOMAIN mid /\ OthersKept(mid, last, id)
      /\ last[id].name = mid[id].name /\ last[id].state = outcome
      /\ last[id].received = mid[id].received /\ last[id].etag = mid[id].etag
  BY <1>2, <1>3, <1>5, StateRow
<1> HIDE DEF a, b
<1>7. /\ queue' \in Seq(OpT)
      /\ Settled' = last
      /\ Tables(rows', queue') = Tables(rows, queue) \cup {mid, Settled'}
      /\ Writes(rows', queue') = Writes(rows, queue) \cup {<<Settled, a>>, <<mid, b>>}
      /\ Since(rows', queue') \subseteq
           Since(rows, queue) \cup {<<x, mid>> : x \in Ops(queue) \cup {a}}
             \cup {<<x, Settled'>> : x \in Ops(queue) \cup {a, b}}
      /\ Ops(queue') = Ops(queue) \cup {a, b}
      /\ Behind(queue') \subseteq
           Behind(queue) \cup {<<x, a>> : x \in Ops(queue)}
             \cup {<<x, b>> : x \in Ops(queue) \cup {a}}
  BY <1>1, <1>2, <1>4, SubmitTwo DEF mid
<1> HIDE DEF last
<1>8. OthersKept(Settled, last, id)
  BY <1>5, <1>6 DEF OthersKept
<1>9. Legal(Settled, a) /\ Legal(mid, b)
  BY <1>2, <1>3, <1>4, <1>5 DEF Legal
<1>10. CallInv'
  <2> DEFINE new == {mid, Settled'}
             done == {a, b}
             finds == {<<Settled, a>>, <<mid, b>>}
  <2>1. \A y \in Behind(queue') : y \in Behind(queue) \/ y[2] \in done
    BY <1>7
  <2>2. Since(rows', queue') \subseteq Since(rows, queue) \cup (Ops(queue') \X new)
    BY <1>7
  <2>3. \A y \in finds : Legal(y[1], y[2])
    BY <1>9
  <2>4. \A t \in new : TableT(t) /\ DOMAIN t = DOMAIN Settled /\ OthersKept(Settled, t, workers[w].id)
    BY <1>5, <1>6, <1>7, <1>8 DEF id
  <2>5. /\ Settled' \in new /\ \A x \in done : x.op # "flush"
        /\ Tables(rows', queue') = Tables(rows, queue) \cup new
        /\ Writes(rows', queue') = Writes(rows, queue) \cup finds
        /\ Ops(queue') = Ops(queue) \cup done
    BY <1>4, <1>7
  <2> HIDE DEF new, done, finds
  <2>6. QED
    BY <1>1, <1>7, <2>1, <2>2, <2>3, <2>4, <2>5, WritingWorker
<1>11. \A op \in Ops(queue') : op \in Ops(queue) \/ op = a \/ op.op # "progress"
  BY <1>4, <1>7
<1>12. QED
  BY <1>5, <1>6, <1>7, <1>8, <1>10, <1>11 DEF id, received, outcome, a, mid

LEMMA SettleInv ==
  ASSUME Inv, NEW w \in DOMAIN workers, Settle(w)
  PROVE  Inv'
<1> DEFINE id == workers[w].id
<1>1. /\ workers[w].pc = "settle" /\ workers[w].outcome \in Outcome /\ jobs' = jobs
      /\ callers' = callers /\ parts' = parts /\ dests' = dests
      /\ server' = server /\ launched' = launched
      /\ workers' = [workers EXCEPT ![w].pc = "leave"]
  BY DEF Settle, files, Inv, RowOfWorker
<1>2. /\ CallInv' /\ DOMAIN Settled' = DOMAIN Settled /\ OthersKept(Settled, Settled', id)
      /\ Settled'[id].name = Settled[id].name /\ Settled'[id].state = workers[w].outcome
  BY SettleChannel
<1>3. /\ Moves(w) /\ SameTransfer(w) /\ workers'[w] \in JobT
      /\ workers'[w].pc = "leave" /\ workers'[w].outcome = workers[w].outcome
  BY <1>1, MovedJob DEF Inv
<1>4. /\ DOMAIN workers' = DOMAIN workers /\ workers'[w].id = id
      /\ workers'[w].name = workers[w].name
      /\ \A v \in DOMAIN workers : v # w => workers'[v] = workers[v]
  BY <1>3 DEF Moves, SameTransfer, SameDownload
<1>5. \A v \in DOMAIN workers : v # w => workers[v].id # id
  BY OneWorkerEach
<1>6. WorkInv'
  <2>1. OtherTypes' /\ NothingBeforeLaunch'
    BY <1>1, <1>3, <1>4, Launched DEF Inv, Types, OtherTypes, NothingBeforeLaunch
  <2>2. WorkersAreKnown' /\ CallsAreApart'
    <3>1. \A v \in DOMAIN workers : workers'[v].id = workers[v].id
      BY <1>4
    <3>2. QED
      BY <1>1, <1>4, <3>1 DEF Inv, WorkersAreKnown, Enters, CallsAreApart, WorksOn
  <2>3. RowOfWorker'
    <3> DEFINE Fits(job, row) ==
                 /\ row.name = job.name
                 /\ job.pc # "leave" => row.state = "active"
                 /\ job.pc = "leave" => row.state = job.outcome
                 /\ job.pc = "send" => job.etag = row.etag
                 /\ job.pc = "rename" => job.outcome = "completed"
                 /\ job.pc \in {"settle", "leave"} => job.outcome \in Outcome
                 /\ job.pc \in {"open", "check", "read", "rename"} => job.version \in Version
    <3>1. \A v \in DOMAIN workers :
            workers[v].id \in DOMAIN Settled /\ Fits(workers[v], Settled[workers[v].id])
      BY DEF Inv, RowOfWorker
    <3>2. Fits(workers'[w], Settled'[id])
      BY <1>1, <1>2, <1>3, <1>4, <3>1
    <3>3. \A v \in DOMAIN workers : v # w =>
            workers'[v] = workers[v] /\ Settled'[workers[v].id] = Settled[workers[v].id]
      BY <1>2, <1>4, <1>5, <3>1 DEF OthersKept
    <3>4. \A v \in DOMAIN workers' :
            workers'[v].id \in DOMAIN Settled' /\ Fits(workers'[v], Settled'[workers'[v].id])
      <4> HIDE DEF Fits
      <4>1. QED
        BY <1>2, <1>4, <3>1, <3>2, <3>3
    <3>5. QED
      BY <3>4 DEF RowOfWorker
  <2>4. ActiveHasTransfer'
    <3>1. ASSUME NEW i \in DOMAIN Settled', Settled'[i].state = "active"
          PROVE  Running(i)'
      <4>1. i # id
        BY <1>1, <1>2, <3>1 DEF Outcome
      <4>2. i \in DOMAIN Settled /\ Settled[i].state = "active"
        BY <1>2, <3>1, <4>1 DEF OthersKept
      <4>3. Running(i)
        BY <4>2, Launched DEF Inv, ActiveHasTransfer
      <4>4. CASE \E v \in DOMAIN workers : workers[v].id = i /\ workers[v].pc # "leave"
        BY <1>4, <4>1, <4>4 DEF Running
      <4>5. CASE \E c \in Thread : callers[c].pc = "spawn" /\ callers[c].id = i
        BY <1>1, <4>5 DEF Running
      <4>6. QED
        BY <4>3, <4>4, <4>5 DEF Running
    <3>2. QED
      BY <3>1 DEF ActiveHasTransfer
  <2>5. QED
    BY <2>1, <2>2, <2>3, <2>4 DEF WorkInv
<1>7. QED
  BY <1>2, <1>6, InvParts, PTL

\* The job leaves the registry when its row is no longer active.
LEMMA LeaveInv ==
  ASSUME Inv, NEW w \in DOMAIN workers, Leave(w)
  PROVE  Inv'
<1> DEFINE id == workers[w].id
<1>1. /\ workers[w].pc = "leave" /\ jobs' = Drop(jobs, {id}) /\ workers' = Drop(workers, {w})
      /\ rows' = rows /\ queue' = queue /\ callers' = callers /\ parts' = parts /\ dests' = dests
      /\ server' = server /\ launched' = launched
  BY DEF Leave, files
<1>2. CallInv' /\ Settled' = Settled
  BY <1>1, QuietWorker, SameChannel
<1>3. /\ DOMAIN workers' = DOMAIN workers \ {w}
      /\ \A v \in DOMAIN workers' : workers'[v] = workers[v]
      /\ DOMAIN jobs' = DOMAIN jobs \ {id}
      /\ \A i \in DOMAIN jobs' : jobs'[i] = jobs[i]
  BY <1>1 DEF Drop
<1>4. \A v \in DOMAIN workers' : workers[v].id # id
  BY <1>3, OneWorkerEach
<1>5. WorkInv'
  <2>1. OtherTypes' /\ NothingBeforeLaunch'
    BY <1>1, <1>3, Launched DEF Inv, Types, OtherTypes, NothingBeforeLaunch
  <2>2. WorkersAreKnown'
    <3>1. ASSUME NEW v \in DOMAIN workers'
          PROVE  \/ workers[v].id \in DOMAIN jobs' /\ jobs'[workers[v].id] = v
                 \/ \E c \in Thread : Enters(c, v)
      <4>1. v \in DOMAIN workers /\ workers[v].id # id
        BY <1>3, <1>4
      <4>2. QED
        BY <1>3, <4>1 DEF Inv, WorkersAreKnown
    <3>2. \A v \in DOMAIN workers' : \A c \in Thread : Enters(c, v) => Enters(c, v)'
      BY <1>1, <1>3 DEF Enters
    <3>3. \A v \in DOMAIN workers' : workers'[v].id = workers[v].id
      BY <1>3
    <3>4. QED
      BY <3>1, <3>2, <3>3 DEF WorkersAreKnown
  <2>a. CallsAreApart'
    BY <1>1, <1>3 DEF Inv, CallsAreApart, WorksOn
  <2>3. RowOfWorker'
    BY <1>2, <1>3 DEF Inv, RowOfWorker
  <2>4. ActiveHasTransfer'
    <3>1. ASSUME NEW i \in DOMAIN Settled, Settled[i].state = "active"
          PROVE  Running(i)'
      <4>1. Running(i)
        BY <3>1, Launched DEF Inv, ActiveHasTransfer
      <4>2. QED
        BY <1>1, <1>3, <4>1 DEF Running
    <3>2. QED
      BY <1>2, <3>1 DEF ActiveHasTransfer
  <2>5. QED
    BY <2>1, <2>2, <2>a, <2>3, <2>4 DEF WorkInv
<1>6. QED
  BY <1>2, <1>5, InvParts, PTL

(***************************************************************************)
(* The writer, the world outside, and the theorem                          *)
(***************************************************************************)

\* What is settled stays settled; whom the writer acknowledges reads that.
LEMMA WriterApplyInv ==
  ASSUME Inv, WriterApply
  PROVE  Inv'
<1> DEFINE op == Head(queue)
           c == op.by
<1>1. /\ queue # <<>> /\ rows' = Applied(rows, op) /\ queue' = Tail(queue)
      /\ callers' = Acknowledged(op) /\ jobs' = jobs /\ workers' = workers
      /\ parts' = parts /\ dests' = dests /\ server' = server /\ launched' = launched
  BY DEF WriterApply, files
<1>2. /\ queue' \in Seq(OpT) /\ op \in Ops(queue)
      /\ Settled' = Settled
      /\ Tables(rows', queue') \subseteq Tables(rows, queue)
      /\ Writes(rows', queue') \subseteq Writes(rows, queue)
      /\ Since(rows', queue') \subseteq Since(rows, queue)
      /\ \A t \in Tables(rows', queue') : <<op, t>> \in Since(rows, queue)
      /\ Ops(queue') \subseteq Ops(queue)
      /\ Behind(queue') \subseteq Behind(queue)
      /\ \A x \in Ops(queue') : <<op, x>> \in Behind(queue)
  BY <1>1, ApplyOne DEF Inv
<1>3. op \in OpT
  BY <1>2, OpsTyped DEF Inv
<1> HIDE DEF op
<1>4. launched
  <2>1. QED
    BY <1>1 DEF Inv, NothingBeforeLaunch
<1>5. /\ \A d \in Thread : callers'[d] = callers[d] \/ (op.op = "flush" /\ d = c)
      /\ callers' = [d \in Thread |-> callers'[d]]
      /\ op.op = "flush" => /\ c \in Thread /\ callers[c].pc = "flush"
                            /\ callers'[c] = [pc |-> callers[c].then, id |-> callers[c].id,
                                              todo |-> callers[c].todo]
  <2>1. op.op = "flush" => c \in Thread
    BY <1>3, SMT DEF OpT, MarkStale
  <2>2. callers = [d \in Thread |-> callers[d]] /\ DOMAIN callers = Thread
    BY DEF Inv, Types
  <2>3. op.op = "flush" => callers[c].pc = "flush"
    BY <1>2 DEF Inv, FlushesAreWaitedFor
  <2>4. CASE op.op # "flush"
    BY <1>1, <2>2, <2>4 DEF Acknowledged
  <2>5. CASE op.op = "flush"
    <3> DEFINE call == [pc |-> callers[c].then, id |-> callers[c].id, todo |-> callers[c].todo]
    <3>1. callers' = [callers EXCEPT ![c] = call]
      BY <1>1, <2>5 DEF Acknowledged
    <3> HIDE DEF call
    <3>2. /\ callers'[c] = call
          /\ \A d \in Thread \ {c} : callers'[d] = callers[d]
          /\ callers' = [d \in Thread |-> callers'[d]]
      BY <2>1, <2>2, <2>5, <3>1
    <3>3. QED
      BY <2>1, <2>3, <2>5, <3>2 DEF call
  <2>6. QED
    BY <2>4, <2>5
<1>6. op.op = "flush" =>
        /\ callers'[c].pc \in {"resume", "cancel", "list"} /\ callers'[c] \in CallT
        /\ callers'[c].id = callers[c].id /\ callers'[c].todo = callers[c].todo
        /\ callers'[c].pc = callers[c].then
  <2>1. SUFFICES ASSUME op.op = "flush"
                 PROVE  /\ callers'[c].pc \in {"resume", "cancel", "list"} /\ callers'[c] \in CallT
                        /\ callers'[c].id = callers[c].id /\ callers'[c].todo = callers[c].todo
                        /\ callers'[c].pc = callers[c].then
    OBVIOUS
  <2>2. callers[c] \in CallT /\ callers[c].pc = "flush"
    BY <1>5, <2>1 DEF Inv, Types
  <2>3. CASE callers[c].then = "list"
    <3>1. callers'[c] = [pc |-> "list", id |-> None, todo |-> {}] /\ callers[c].todo = {}
          /\ callers[c].id = None
      BY <1>5, <2>1, <2>2, <2>3, CallFields
    <3>2. callers'[c] \in CallT
      BY <3>1, LaunchForms
    <3>3. QED
      BY <2>3, <3>1, <3>2
  <2>4. CASE callers[c].then # "list"
    <3>1. callers[c].then \in {"resume", "cancel"} /\ callers[c].id \in DownloadId
          /\ callers[c].todo \in SUBSET DownloadId
      BY <2>2, <2>4, CallFields
    <3>2. callers'[c] = [pc |-> callers[c].then, id |-> callers[c].id, todo |-> callers[c].todo]
      BY <1>5, <2>1
    <3>3. callers'[c] \in CallT
      BY <3>1, <3>2, CallForms
    <3>4. QED
      BY <3>1, <3>2, <3>3
  <2>5. QED
    BY <2>3, <2>4
<1> HIDE DEF c
<1>7. CallInv'
  <2>1. \A d \in Thread : callers'[d] \in CallT
    BY <1>5, <1>6 DEF Inv, Types
  <2>2. \A t \in Tables(rows', queue') : TableT(t)
    BY <1>2 DEF Inv, Types
  <2>3. OneAtATime'
    <3>1. op.op = "flush" => callers[c] # Idle({})
      BY <1>5 DEF Idle
    <3>2. QED
      BY <1>5, <3>1 DEF Inv, OneAtATime
  <2>4. FlushesAreWaitedFor'
    <3>1. \A x \in Ops(queue') : x.op = "flush" => callers'[x.by].pc = "flush"
      <4>1. ASSUME NEW x \in Ops(queue'), x.op = "flush"
            PROVE  callers'[x.by].pc = "flush"
        <5>1. callers[x.by].pc = "flush" /\ x.by \in Thread
          <6>1. x \in Ops(queue) /\ x \in OpT
            BY <1>2, OpsTyped DEF Inv
          <6>2. x.by \in Thread
            BY <4>1, <6>1, SMT DEF OpT, MarkStale
          <6>3. QED
            BY <4>1, <6>1, <6>2 DEF Inv, FlushesAreWaitedFor
        <5>2. op.op = "flush" => x.by # c
          <6>1. <<op, x>> \in Behind(queue)
            BY <1>2, <4>1
          <6>2. op.op = "flush" => op.by # x.by
            BY <4>1, <6>1 DEF Inv, FlushesAreWaitedFor
          <6>3. QED
            BY <6>2 DEF c
        <5>3. QED
          BY <1>5, <5>1, <5>2
      <4>2. QED
        BY <4>1
    <3>2. \A y \in Behind(queue') : y[1].op = "flush" /\ y[2].op = "flush" => y[1].by # y[2].by
      BY <1>2 DEF Inv, FlushesAreWaitedFor
    <3>3. QED
      BY <3>1, <3>2 DEF FlushesAreWaitedFor
  <2>5. FlushSees'
    <3>1. ASSUME NEW y \in Since(rows', queue'), y[1].op = "flush", callers'[y[1].by].then # "list"
          PROVE  Agrees(y[2], callers[y[1].by].id)'
      <4>1. y \in Since(rows, queue) /\ y[1] \in Ops(queue')
        BY <1>2 DEF Since
      <4>2. y[1].by \in Thread
        <5>1. y[1] \in OpT
          BY <1>2, <4>1, OpsTyped DEF Inv
        <5>2. QED
          BY <3>1, <5>1, SMT DEF OpT, MarkStale
      <4>3. op.op = "flush" => y[1].by # c
        <5>1. <<op, y[1]>> \in Behind(queue)
          BY <1>2, <4>1
        <5>2. op.op = "flush" => op.by # y[1].by
          BY <3>1, <5>1 DEF Inv, FlushesAreWaitedFor
        <5>3. QED
          BY <5>2 DEF c
      <4>4. callers'[y[1].by] = callers[y[1].by]
        BY <1>5, <4>2, <4>3
      <4>5. QED
        BY <1>2, <3>1, <4>1, <4>4 DEF Inv, FlushSees, Agrees
    <3>2. QED
      BY <3>1 DEF FlushSees
  <2>6. RowIsSettled'
    <3>1. ASSUME NEW d \in Thread, callers'[d].pc \in {"resume", "cancel"},
                 NEW t \in Tables(rows', queue')
          PROVE  callers'[d].id \in DOMAIN t /\ t[callers'[d].id] = Settled[callers'[d].id]
      <4>1. CASE callers'[d] = callers[d]
        BY <1>2, <3>1, <4>1 DEF Inv, RowIsSettled, Agrees
      <4>2. CASE op.op = "flush" /\ d = c
        <5>1. <<op, t>> \in Since(rows, queue)
          BY <1>2, <3>1
        <5>2. callers[op.by].then # "list" /\ callers'[d].id = callers[op.by].id
          BY <1>6, <3>1, <4>2 DEF c
        <5>3. Agrees(t, callers[op.by].id)
          BY <4>2, <5>1, <5>2 DEF Inv, FlushSees
        <5>4. QED
          BY <5>2, <5>3 DEF Agrees
      <4>3. QED
        BY <1>5, <4>1, <4>2
    <3>2. QED
      BY <1>2, <3>1 DEF RowIsSettled, Agrees
  <2>7. RowOfCall'
    BY <1>2, <1>5, <1>6 DEF Inv, RowOfCall, ActiveRow
  <2>8. LegalWrites' /\ TablesGrow'
    BY <1>2, <1>5, <1>6 DEF Inv, LegalWrites, TablesGrow
  <2>9. QED
    BY <1>2, <1>5, <2>1, <2>2, <2>3, <2>4, <2>5, <2>6, <2>7, <2>8 DEF CallInv
<1>8. WorkInv'
  <2>1. OtherTypes' /\ NothingBeforeLaunch' /\ RowOfWorker'
    BY <1>1, <1>2, <1>4 DEF Inv, Types, OtherTypes, NothingBeforeLaunch, RowOfWorker
  <2>2. \A d \in Thread : callers[d].pc \in {"spawn", "register"} => callers'[d] = callers[d]
    BY <1>5
  <2>3. WorkersAreKnown' /\ ActiveHasTransfer'
    BY <1>1, <1>2, <1>4, <2>2 DEF Inv, WorkersAreKnown, Enters, ActiveHasTransfer, Running
  <2>4. CallsAreApart'
    <3>1. ASSUME NEW d \in Thread, WorksOn(d)'
          PROVE  WorksOn(d) /\ callers'[d].id = callers[d].id
      <4>1. CASE callers'[d] = callers[d]
        BY <3>1, <4>1 DEF WorksOn
      <4>2. CASE op.op = "flush" /\ d = c
        BY <1>5, <1>6, <3>1, <4>2 DEF WorksOn
      <4>3. QED
        BY <1>5, <4>1, <4>2
    <3>2. QED
      BY <1>1, <3>1 DEF Inv, CallsAreApart
  <2>5. QED
    BY <2>1, <2>3, <2>4 DEF WorkInv
<1>9. QED
  BY <1>7, <1>8, InvParts, PTL

\* A process that has just begun
AtRest ==
  /\ TableT(rows) /\ queue = <<>> /\ jobs = <<>> /\ workers = <<>>
  /\ callers = [c \in Thread |-> Idle({})]
  /\ DOMAIN parts \subseteq FileName /\ \A n \in DOMAIN parts : parts[n] \in ContentT
  /\ DOMAIN dests \subseteq FileName /\ \A n \in DOMAIN dests : dests[n] \in ContentT
  /\ server \in Version /\ launched = FALSE

LEMMA AtRestInv == AtRest => Inv
<1> SUFFICES ASSUME AtRest
             PROVE  Inv
  OBVIOUS
<1>1. /\ Ops(queue) = {} /\ Behind(queue) = {} /\ Writes(rows, queue) = {}
      /\ Since(rows, queue) = {} /\ Tables(rows, queue) = {rows} /\ Settled = rows
  BY NothingQueued, SettledIsFinal DEF AtRest
<1>2. DOMAIN jobs = {} /\ DOMAIN workers = {}
  BY SMT DEF AtRest
<1>3. \A c \in Thread : callers[c] = Idle({})
  BY DEF AtRest
<1>4. CallInv
  <2>1. callers = [c \in Thread |-> callers[c]] /\ \A c \in Thread : callers[c] \in CallT
    BY <1>3, LaunchForms DEF AtRest
  <2>2. queue \in Seq(OpT)
    BY EmptySeq DEF AtRest
  <2>3. OneAtATime /\ RowIsSettled /\ RowOfCall
    BY <1>3 DEF OneAtATime, RowIsSettled, RowOfCall, Idle
  <2>4. FlushesAreWaitedFor /\ FlushSees /\ LegalWrites
    BY <1>1 DEF FlushesAreWaitedFor, FlushSees, LegalWrites
  <2>5. TablesGrow
    BY <1>1, <1>3 DEF TablesGrow, Idle
  <2>6. QED
    BY <1>1, <2>1, <2>2, <2>3, <2>4, <2>5 DEF CallInv, AtRest
<1>5. WorkInv
  BY <1>2, <1>3 DEF WorkInv, OtherTypes, AtRest, NothingBeforeLaunch, WorkersAreKnown,
    CallsAreApart, RowOfWorker, ActiveHasTransfer
<1>6. QED
  BY <1>4, <1>5, InvParts

LEMMA InitInv == Init => Inv
<1> SUFFICES ASSUME Init
             PROVE  Inv
  OBVIOUS
<1>1. DOMAIN <<>> = {}
  BY SMT
<1>2. AtRest
  BY <1>1 DEF Init, AtRest, TableT
<1>3. QED
  BY <1>2, AtRestInv

LEMMA RestartInv ==
  ASSUME Inv, Restart
  PROVE  Inv'
<1>1. AtRest'
  BY SettledTyped, FilesTyped, EtagOfServer DEF Restart, AtRest, files, Inv
<1>2. QED
  BY <1>1, AtRestInv, PTL

LEMMA ServerChangesInv ==
  ASSUME Inv, ServerChanges
  PROVE  Inv'
<1>1. /\ rows' = rows /\ queue' = queue /\ jobs' = jobs /\ workers' = workers
      /\ callers' = callers /\ parts' = parts /\ dests' = dests /\ launched' = launched
      /\ server' \in Version
  BY DEF ServerChanges, files
<1>2. CallInv' /\ Settled' = Settled
  BY <1>1, QuietWorker, SameChannel
<1>3. OtherTypes' /\ NothingBeforeLaunch'
  BY <1>1 DEF Inv, Types, OtherTypes, NothingBeforeLaunch
<1>4. WorkersAreKnown' /\ CallsAreApart'
  BY <1>1 DEF Inv, WorkersAreKnown, Enters, CallsAreApart, WorksOn
<1>5. RowOfWorker' /\ ActiveHasTransfer'
  BY <1>1, <1>2 DEF Inv, RowOfWorker, ActiveHasTransfer, Running
<1>6. WorkInv'
  BY <1>3, <1>4, <1>5 DEF WorkInv
<1>7. QED
  BY <1>2, <1>6, InvParts, PTL

LEMMA StutteringInv == ASSUME Inv, UNCHANGED vars PROVE Inv'
<1>1. UNCHANGED <<rows, queue, jobs, workers, callers, parts, dests, server, launched>>
  BY DEF vars, files
<1>2. CallInv' /\ Settled' = Settled
  BY <1>1, QuietWorker, SameChannel
<1>3. OtherTypes' /\ NothingBeforeLaunch'
  BY <1>1 DEF Inv, Types, OtherTypes, NothingBeforeLaunch
<1>4. WorkersAreKnown' /\ CallsAreApart'
  BY <1>1 DEF Inv, WorkersAreKnown, Enters, CallsAreApart, WorksOn
<1>5. RowOfWorker' /\ ActiveHasTransfer'
  BY <1>1, <1>2 DEF Inv, RowOfWorker, ActiveHasTransfer, Running
<1>6. WorkInv'
  BY <1>3, <1>4, <1>5 DEF WorkInv
<1>7. QED
  BY <1>2, <1>6, InvParts, PTL

\* Every step of the system keeps the invariant.
LEMMA StepInv ==
  ASSUME Inv, OneCaller, [Next]_vars
  PROVE  Inv'
<1>1. ASSUME NEW c \in Thread, CallStep(c)
      PROVE  Inv'
  BY <1>1, ProbeInv, ReserveInv, RegisterInv, ResumeRowInv, CancelRowInv, ListInterruptedInv,
     SpawnWorkerInv DEF CallStep
<1>2. ASSUME NEW c \in Thread, UserStep(c)
      PROVE  Inv'
  <2>1. PICK id \in DownloadId :
          StartDownload(c, id) \/ PauseDownload(c, id) \/ CancelDownload(c, id)
    BY <1>2 DEF UserStep
  <2>2. CASE StartDownload(c, id)
    BY <2>2, StartDownloadInv
  <2>3. CASE PauseDownload(c, id)
    BY <2>3, ControlInv DEF PauseDownload
  <2>4. CASE CancelDownload(c, id) /\ id \in DOMAIN jobs
    BY <2>4, ControlInv DEF CancelDownload
  <2>5. CASE CancelDownload(c, id) /\ id \notin DOMAIN jobs
    BY <2>5, CancelWaitInv
  <2>6. QED
    BY <2>1, <2>2, <2>3, <2>4, <2>5
<1>3. ASSUME NEW c \in Thread, ResumeStep(c)
      PROVE  Inv'
  BY <1>3, ResumeDownloadInv, SkipResumeInv DEF ResumeStep
<1>4. ASSUME NEW w \in Worker, WorkerStep(w)
      PROVE  Inv'
  BY <1>4, SendRequestInv, OpenPartInv, CheckControlInv, ReadChunkInv, ReadEndInv, RenameInv,
     SettleInv, LeaveInv DEF WorkerStep
<1>5. QED
  BY <1>1, <1>2, <1>3, <1>4, ResumeInterruptedInv, WriterApplyInv, ServerChangesInv, RestartInv,
     StutteringInv DEF Next

\* With one caller and the launch pass first, whatever else goes wrong, the channel,
\* the calls, the workers and the rows fit together: among the rest, an active row has
\* a transfer behind it, and every write in the channel finds a row it may change.
THEOREM InvHolds == ASSUME OneCaller PROVE Spec => []Inv
<1>1. Init => Inv
  BY InitInv
<1>2. Inv /\ [Next]_vars => Inv'
  BY StepInv
<1>3. QED
  BY <1>1, <1>2, PTL DEF Spec

(***************************************************************************)
(* Names: who holds one, and that it is his alone                          *)
(***************************************************************************)

\* A transfer that has not ended holds the name of its download.
LEMMA TransferHolds ==
  ASSUME Inv, NEW w \in DOMAIN workers, workers[w].pc \notin {"settle", "leave"}
  PROVE  Holds(workers[w].id) /\ Settled[workers[w].id].name = workers[w].name
<1>1. /\ workers[w].id \in DOMAIN Settled /\ Settled[workers[w].id].name = workers[w].name
      /\ Settled[workers[w].id].state = "active"
  BY DEF Inv, RowOfWorker
<1>2. \A v \in DOMAIN workers : workers[v].id = workers[w].id => ~GivenUp(v)
  BY OneWorkerEach DEF GivenUp
<1>3. QED
  BY <1>1, <1>2 DEF Holds, Over

\* So does one that is about to be spawned.
LEMMA SpawnHolds ==
  ASSUME Inv, NEW c \in Thread, callers[c].pc = "spawn"
  PROVE  /\ Holds(callers[c].id) /\ Settled[callers[c].id].name = callers[c].name
         /\ \A w \in DOMAIN workers : workers[w].id # callers[c].id
<1>1. /\ callers[c].id \in DOMAIN Settled /\ Settled[callers[c].id].name = callers[c].name
      /\ Settled[callers[c].id].state = "active"
  BY DEF Inv, RowOfCall, ActiveRow
<1>2. \A w \in DOMAIN workers : workers[w].id # callers[c].id
  <2>1. WorksOn(c)
    BY DEF WorksOn
  <2>2. QED
    BY <2>1, OnItsOwn
<1>3. QED
  BY <1>1, <1>2 DEF Holds, Over

\* A download that rests holds its name.
LEMMA RestHolds ==
  ASSUME Inv, NEW id \in DOMAIN Settled, Settled[id].state \in {"paused", "interrupted"}
  PROVE  Holds(id) /\ id \in DownloadId
<1>1. id \in DownloadId
  BY SettledTyped DEF Inv, TableT
<1>2. ASSUME NEW w \in DOMAIN workers, workers[w].id = id
      PROVE  ~GivenUp(w)
  BY <1>2 DEF Inv, RowOfWorker, GivenUp, Over
<1>3. QED
  BY <1>1, <1>2 DEF Holds, Over

\* The name picked by start_download is nobody else's.
LEMMA ReservedIsFree ==
  ASSUME Inv, NamesAreHeld, NoSharedNames, NEW c \in Thread, callers[c].pc = "reserve",
         NEW id \in DownloadId, Holds(id)
  PROVE  Settled[id].name # callers[c].name /\ id # callers[c].id
<1>1. callers[c].id \notin DOMAIN Settled /\ callers[c].id \in DownloadId
  <2>1. callers[c] \in CallT
    BY DEF Inv, Types
  <2>2. QED
    BY <2>1, CallFields DEF Inv, RowOfCall
<1>2. id # callers[c].id
  BY <1>1 DEF Holds
<1>3. FilesAreSafe
  BY <1>1, <1>2 DEF NoSharedNames
<1>4. QED
  BY <1>2, <1>3 DEF NamesAreHeld

\* Two transfers have two names.
LEMMA NamesApart ==
  ASSUME Inv, NamesAreHeld,
         NEW v \in DOMAIN workers, workers[v].pc \notin {"settle", "leave"},
         NEW w \in DOMAIN workers, workers[w].pc \notin {"settle", "leave"}, v # w
  PROVE  workers[v].name # workers[w].name
<1>1. workers[v].id # workers[w].id
  BY OneWorkerEach
<1>2. workers[v].id \in DownloadId /\ workers[w].id \in DownloadId
  BY JobFields
<1>3. QED
  BY <1>1, <1>2, TransferHolds DEF NamesAreHeld

LEMMA SpawnNameApart ==
  ASSUME Inv, NamesAreHeld, NEW c \in Thread, callers[c].pc = "spawn",
         NEW w \in DOMAIN workers, workers[w].pc \notin {"settle", "leave"}
  PROVE  callers[c].name # workers[w].name
<1>1. callers[c].id \in DownloadId /\ workers[w].id \in DownloadId
  <2>1. callers[c] \in CallT
    BY DEF Inv, Types
  <2>2. QED
    BY <2>1, CallFields, JobFields
<1>2. QED
  BY <1>1, TransferHolds, SpawnHolds DEF NamesAreHeld

(***************************************************************************)
(* Steps that change no row, no file and no transfer                       *)
(***************************************************************************)

SameJob(v) ==
  SameTransfer(v) /\ workers'[v].pc = workers[v].pc /\ workers'[v].outcome = workers[v].outcome
SameChannelOrLess ==
  /\ Settled' = Settled /\ Tables(rows', queue') \subseteq Tables(rows, queue)
  /\ \A op \in Ops(queue') : op.op = "progress" => op \in Ops(queue)
Quiet ==
  /\ SameChannelOrLess
  /\ parts' = parts /\ dests' = dests /\ slipped' = slipped /\ (launched => launched')
  /\ DOMAIN workers' = DOMAIN workers /\ \A v \in DOMAIN workers : SameJob(v)
  /\ \A c \in Thread :
       callers'[c].pc \in {"reserve", "spawn"} \/ callers[c].pc = "spawn" =>
         callers'[c] = callers[c]
  /\ \A c \in Thread : callers'[c].pc = "part" => callers'[c] = callers[c] \/ ProbeFile(c)

LEMMA SameJobs == ASSUME workers' = workers PROVE \A v \in DOMAIN workers : SameJob(v)
BY DEF SameJob, SameTransfer, SameDownload

\* One thread goes to, or comes from, a place that has nothing to do with a file.
LEMMA QuietCaller ==
  ASSUME Inv, NEW c \in Thread, NEW call, callers' = [callers EXCEPT ![c] = call],
         call.pc \notin {"reserve", "spawn"}, callers[c].pc # "spawn",
         call.pc # "part" \/ ProbeFile(c), workers' = workers,
         parts' = parts, dests' = dests, slipped' = slipped, launched' = launched,
         SameChannelOrLess
  PROVE  Quiet
<1>1. \A d \in Thread : d # c => callers'[d] = callers[d]
  BY DEF Inv, Types
<1>2. callers'[c] = call
  BY DEF Inv, Types
<1>3. QED
  BY <1>1, <1>2, SameJobs DEF Quiet

LEMMA ChannelKept ==
  ASSUME rows' = rows, queue' = queue
  PROVE  SameChannelOrLess
BY SameChannel DEF SameChannelOrLess

LEMMA ChannelFlushed ==
  ASSUME Inv, rows' = rows, NEW c \in Thread, Submit(<<Flush(c)>>)
  PROVE  SameChannelOrLess
<1>1. Types /\ Flush(c) \in OpT /\ Flush(c).op = "flush"
  BY SMT DEF Inv, Flush, OpT
<1>2. /\ Settled' = Applied(Settled, Flush(c))
      /\ Tables(rows', queue') = Tables(rows, queue) \cup {Settled'}
      /\ Ops(queue') = Ops(queue) \cup {Flush(c)}
  BY <1>1, SubmitOne
<1>3. Settled \in Tables(rows, queue)
  BY <1>1, SettledTyped
<1>4. QED
  BY <1>1, <1>2, <1>3, FlushRow DEF SameChannelOrLess

LEMMA RegisterQuiet == ASSUME Inv, NEW c \in Thread, Register(c) PROVE Quiet
<1>1. /\ callers' = [callers EXCEPT ![c] = Idle(callers[c].todo)] /\ callers[c].pc = "register"
      /\ rows' = rows /\ queue' = queue /\ workers' = workers
      /\ parts' = parts /\ dests' = dests /\ slipped' = slipped
      /\ launched' = launched
  BY DEF Register, Returned, files
<1>2. Idle(callers[c].todo).pc = "idle"
  BY DEF Idle
<1>3. QED
  BY <1>1, <1>2, ChannelKept, QuietCaller

LEMMA ResumeDownloadQuiet ==
  ASSUME Inv, NEW c \in Thread, NEW id, ResumeDownload(c, id) PROVE Quiet
<1> DEFINE call == callers'[c]
<1>1. /\ callers' = [Waiting(c, "resume", id) EXCEPT ![c].todo = @ \ {id}]
      /\ callers[c].pc = "idle" /\ rows' = rows /\ Submit(<<Flush(c)>>) /\ workers' = workers
      /\ parts' = parts /\ dests' = dests /\ slipped' = slipped
      /\ launched' = launched
  BY DEF ResumeDownload, MayCall, Idle, files
<1>2. DOMAIN callers = Thread
  BY DEF Inv, Types
<1>3. /\ Waiting(c, "resume", id)[c].pc = "flush"
      /\ DOMAIN Waiting(c, "resume", id) = Thread
      /\ \A d \in Thread : d # c => Waiting(c, "resume", id)[d] = callers[d]
  BY <1>2 DEF Waiting
<1>4. callers'[c].pc = "flush" /\ \A d \in Thread : d # c => callers'[d] = callers[d]
  BY <1>1, <1>3
<1>5. SameChannelOrLess
  BY <1>1, ChannelFlushed
<1>6. QED
  BY <1>1, <1>4, <1>5, SameJobs DEF Quiet

LEMMA CancelWaitQuiet ==
  ASSUME Inv, NEW c \in Thread, NEW id, CancelDownload(c, id), id \notin DOMAIN jobs PROVE Quiet
<1> DEFINE call == [pc |-> "flush", then |-> "cancel", id |-> id, todo |-> callers[c].todo]
<1>1. /\ callers' = [callers EXCEPT ![c] = call]
      /\ callers[c].pc = "idle" /\ rows' = rows /\ Submit(<<Flush(c)>>) /\ workers' = workers
      /\ parts' = parts /\ dests' = dests /\ slipped' = slipped
      /\ launched' = launched
  BY DEF CancelDownload, MayCall, Idle, Waiting, files
<1>2. call.pc = "flush"
  OBVIOUS
<1> HIDE DEF call
<1>3. QED
  BY <1>1, <1>2, ChannelFlushed, QuietCaller

LEMMA SkipResumeQuiet ==
  ASSUME Inv, NEW c \in Thread, NEW id, SkipResume(c, id) PROVE Quiet
<1> DEFINE call == [callers[c] EXCEPT !.todo = callers[c].todo \ {id}]
<1>1. /\ callers' = [callers EXCEPT ![c] = call] /\ callers[c].pc = "idle"
      /\ rows' = rows /\ queue' = queue /\ workers' = workers
      /\ parts' = parts /\ dests' = dests /\ slipped' = slipped
      /\ launched' = launched
  BY DEF SkipResume, files
<1>2. call.pc = "idle"
  BY <1>1
<1> HIDE DEF call
<1>3. QED
  BY <1>1, <1>2, ChannelKept, QuietCaller

LEMMA ListInterruptedQuiet == ASSUME Inv, NEW c \in Thread, ListInterrupted(c) PROVE Quiet
<1> DEFINE call == Idle({id \in DOMAIN rows : rows[id].state = "interrupted" /\ rows[id].etag # None})
<1>1. /\ callers' = [callers EXCEPT ![c] = call] /\ callers[c].pc = "list"
      /\ rows' = rows /\ queue' = queue /\ workers' = workers
      /\ parts' = parts /\ dests' = dests /\ slipped' = slipped
      /\ launched' = launched
  BY DEF ListInterrupted, files
<1>2. call.pc = "idle"
  BY DEF Idle
<1> HIDE DEF call
<1>3. QED
  BY <1>1, <1>2, ChannelKept, QuietCaller

LEMMA RefusedQuiet ==
  ASSUME Inv, NEW c \in Thread, callers[c].pc \in {"resume", "cancel"}, callers' = Returned(c),
         UNCHANGED <<rows, queue, jobs, workers, files, server, launched>>
  PROVE  Quiet
<1>1. /\ callers' = [callers EXCEPT ![c] = Idle(callers[c].todo)]
      /\ rows' = rows /\ queue' = queue /\ workers' = workers
      /\ parts' = parts /\ dests' = dests /\ slipped' = slipped
      /\ launched' = launched
  BY DEF Returned, files
<1>2. Idle(callers[c].todo).pc = "idle"
  BY DEF Idle
<1>3. QED
  BY <1>1, <1>2, ChannelKept, QuietCaller

\* A search, up to the name it ends with
LEMMA StartDownloadQuiet ==
  ASSUME Inv, NEW c \in Thread, NEW id, StartDownload(c, id) PROVE Quiet
<1> DEFINE call == [pc |-> "name", id |-> id, name |-> 1, todo |-> callers[c].todo]
<1>1. /\ callers' = [callers EXCEPT ![c] = call] /\ callers[c].pc = "idle"
      /\ rows' = rows /\ queue' = queue /\ workers' = workers
      /\ parts' = parts /\ dests' = dests /\ slipped' = slipped
      /\ launched' = launched
  BY DEF StartDownload, Searching, MayCall, Idle, files
<1>2. call.pc = "name"
  OBVIOUS
<1> HIDE DEF call
<1>3. QED
  BY <1>1, <1>2, ChannelKept, QuietCaller

Chooses(c) == ProbePart(c) /\ callers'[c].pc = "reserve"

LEMMA ProbeQuiet ==
  ASSUME Inv, NEW c \in Thread, ProbeFile(c) \/ ProbePart(c), ~Chooses(c) PROVE Quiet
<1>1. PICK call \in CallT :
        /\ callers' = [callers EXCEPT ![c] = call]
        /\ call.pc \in {"idle", "name", "part", "reserve"}
        /\ call.pc = "reserve" => callers[c].pc = "part"
        /\ call.pc = "part" => callers[c].pc = "name"
  BY ProbeMoves DEF Inv
<1>2. /\ rows' = rows /\ queue' = queue /\ workers' = workers
      /\ parts' = parts /\ dests' = dests /\ slipped' = slipped
      /\ launched' = launched
      /\ callers[c].pc \in {"name", "part"}
  BY ProbeMoves DEF Inv
<1>3. callers'[c] = call
  BY <1>1 DEF Inv, Types
<1>4. call.pc # "reserve"
  BY <1>1, <1>3 DEF Chooses, ProbeFile
<1>5. call.pc = "part" => ProbeFile(c)
  BY <1>1 DEF ProbePart
<1>6. QED
  BY <1>1, <1>2, <1>4, <1>5, ChannelKept, QuietCaller

LEMMA ControlQuiet ==
  ASSUME Inv, NEW id \in DOMAIN jobs, NEW value, Control(id, value) PROVE Quiet
<1>1. /\ workers' = [w \in DOMAIN workers |->
              IF w = jobs[id] THEN [workers[w] EXCEPT !.control = value] ELSE workers[w]]
      /\ rows' = rows /\ queue' = queue /\ callers' = callers
      /\ parts' = parts /\ dests' = dests /\ slipped' = slipped
      /\ launched' = launched
  BY DEF Control, files
<1>2. DOMAIN workers' = DOMAIN workers
  BY <1>1
<1>3. ASSUME NEW v \in DOMAIN workers
      PROVE  SameJob(v)
  <2> DEFINE job == workers[v]
             told == [job EXCEPT !.control = value]
  <2>1. job \in JobT /\ workers'[v] \in {job, told}
    BY <1>1 DEF Inv, Types
  <2> HIDE DEF job
  <2>2. /\ told.id = job.id /\ told.name = job.name /\ told.pc = job.pc
        /\ told.from = job.from /\ told.etag = job.etag /\ told.outcome = job.outcome
        /\ told.version = job.version /\ told.got = job.got /\ told.received = job.received
    BY <2>1, SMT DEF JobT
  <2> HIDE DEF told
  <2>3. QED
    BY <2>1, <2>2 DEF SameJob, SameTransfer, SameDownload, job
<1>4. QED
  BY <1>1, <1>2, <1>3, ChannelKept DEF Quiet

LEMMA WriterQuiet == ASSUME Inv, WriterApply PROVE Quiet
<1> DEFINE op == Head(queue)
<1>1. /\ queue # <<>> /\ rows' = Applied(rows, op) /\ queue' = Tail(queue)
      /\ callers' = Acknowledged(op) /\ workers' = workers
      /\ parts' = parts /\ dests' = dests /\ slipped' = slipped
      /\ launched' = launched
  BY DEF WriterApply, files
<1>2. /\ op \in Ops(queue) /\ Settled' = Settled
      /\ Tables(rows', queue') \subseteq Tables(rows, queue)
      /\ Ops(queue') \subseteq Ops(queue)
  BY <1>1, ApplyOne DEF Inv
<1> HIDE DEF op
<1>3. SameChannelOrLess
  BY <1>2 DEF SameChannelOrLess
<1>4. CASE op.op # "flush"
  <2>1. callers' = callers
    BY <1>1, <1>4 DEF Acknowledged
  <2>2. QED
    BY <1>1, <1>3, <2>1, SameJobs DEF Quiet
<1>5. CASE op.op = "flush"
  <2> DEFINE c == op.by
             call == [pc |-> callers[c].then, id |-> callers[c].id, todo |-> callers[c].todo]
  <2>1. c \in Thread /\ callers[c].pc = "flush"
    <3>1. op \in OpT
      BY <1>2, OpsTyped DEF Inv
    <3>2. c \in Thread
      BY <1>5, <3>1, SMT DEF OpT, MarkStale
    <3>3. QED
      BY <1>2, <1>5, <3>2 DEF Inv, FlushesAreWaitedFor
  <2>2. callers' = [callers EXCEPT ![c] = call]
    BY <1>1, <1>5 DEF Acknowledged
  <2>3. call.pc \in {"resume", "cancel", "list"}
    <3>1. callers[c] \in CallT
      BY <2>1 DEF Inv, Types
    <3>2. QED
      BY <2>1, <3>1, CallFields
  <2> HIDE DEF call, c
  <2>4. QED
    BY <1>1, <1>3, <2>1, <2>2, <2>3, QuietCaller
<1>6. QED
  BY <1>4, <1>5

LEMMA ServerQuiet == ASSUME Inv, ServerChanges PROVE Quiet
<1>1. /\ rows' = rows /\ queue' = queue /\ workers' = workers /\ callers' = callers
      /\ parts' = parts /\ dests' = dests /\ slipped' = slipped
      /\ launched' = launched
  BY DEF ServerChanges, files
<1>2. QED
  BY <1>1, ChannelKept, SameJobs DEF Quiet

LEMMA StutteringQuiet == ASSUME Inv, UNCHANGED vars PROVE Quiet
<1>1. /\ rows' = rows /\ queue' = queue /\ workers' = workers /\ callers' = callers
      /\ parts' = parts /\ dests' = dests /\ slipped' = slipped
      /\ launched' = launched
  BY DEF vars, files
<1>2. QED
  BY <1>1, ChannelKept, SameJobs DEF Quiet

\* What a step may be, when it does more than that
GoesOn(c) == ResumeRow(c) /\ CanTransition(rows[callers[c].id].state, "active")
Cancels(c) == CancelRow(c) /\ CanTransition(rows[callers[c].id].state, "cancelled")

LEMMA StepCases ==
  ASSUME Inv, OneCaller, [Next]_vars
  PROVE  \/ Quiet
         \/ \E c \in Thread : Chooses(c)
         \/ \E c \in Thread : Reserve(c) \/ GoesOn(c) \/ Cancels(c) \/ ResumeInterrupted(c)
         \/ \E c \in Thread, w \in Worker : SpawnWorker(c, w)
         \/ \E w \in DOMAIN workers : WorkerStep(w)
         \/ Restart
<1> DEFINE Case ==
         \/ Quiet
         \/ \E c \in Thread : Chooses(c)
         \/ \E c \in Thread : Reserve(c) \/ GoesOn(c) \/ Cancels(c) \/ ResumeInterrupted(c)
         \/ \E c \in Thread, w \in Worker : SpawnWorker(c, w)
         \/ \E w \in DOMAIN workers : WorkerStep(w)
         \/ Restart
<1>1. ASSUME NEW c \in Thread, ResumeRow(c), ~CanTransition(rows[callers[c].id].state, "active")
      PROVE  Quiet
  <2>1. /\ callers[c].pc = "resume" /\ callers' = Returned(c)
        /\ UNCHANGED <<rows, queue, jobs, workers, files, server, launched>>
    BY <1>1 DEF ResumeRow
  <2>2. QED
    BY <2>1, RefusedQuiet
<1>2. ASSUME NEW c \in Thread, CancelRow(c), ~CanTransition(rows[callers[c].id].state, "cancelled")
      PROVE  Quiet
  <2>1. /\ callers[c].pc = "cancel" /\ callers' = Returned(c)
        /\ UNCHANGED <<rows, queue, jobs, workers, files, server, launched>>
    BY <1>2 DEF CancelRow, files
  <2>2. QED
    BY <2>1, RefusedQuiet
<1>3. ASSUME NEW c \in Thread, CallStep(c)
      PROVE  Case
  BY <1>1, <1>2, <1>3, ProbeQuiet, RegisterQuiet, ListInterruptedQuiet
     DEF CallStep, GoesOn, Cancels
<1>4. ASSUME NEW c \in Thread, UserStep(c)
      PROVE  Case
  <2>1. PICK id \in DownloadId :
          StartDownload(c, id) \/ PauseDownload(c, id) \/ CancelDownload(c, id)
    BY <1>4 DEF UserStep
  <2>2. CASE PauseDownload(c, id)
    BY <2>2, ControlQuiet DEF PauseDownload
  <2>3. CASE CancelDownload(c, id) /\ id \in DOMAIN jobs
    BY <2>3, ControlQuiet DEF CancelDownload
  <2>4. CASE CancelDownload(c, id) /\ id \notin DOMAIN jobs
    BY <2>4, CancelWaitQuiet
  <2>5. QED
    BY <2>1, <2>2, <2>3, <2>4, StartDownloadQuiet
<1>5. ASSUME NEW c \in Thread, ResumeStep(c)
      PROVE  Case
  BY <1>5, ResumeDownloadQuiet, SkipResumeQuiet DEF ResumeStep
<1>6. ASSUME NEW w \in Worker, WorkerStep(w)
      PROVE  Case
  BY <1>6 DEF WorkerStep
<1> HIDE DEF Case
<1>7. WriterApply \/ ServerChanges \/ UNCHANGED vars => Case
  BY WriterQuiet, ServerQuiet, StutteringQuiet DEF Case
<1>8. ASSUME NEW c \in Thread, ResumeInterrupted(c)
      PROVE  Case
  BY <1>8 DEF Case
<1>9. Restart => Case
  BY DEF Case
<1>10. Case
  BY <1>3, <1>4, <1>5, <1>6, <1>7, <1>8, <1>9 DEF Next
<1>11. QED
  BY <1>10 DEF Case

(***************************************************************************)
(* Names and files: what steps have in common                              *)
(***************************************************************************)

SameElsewhere(n) ==
  \A m \in FileName \ {n} :
    /\ m \in DOMAIN parts' <=> m \in DOMAIN parts
    /\ m \in DOMAIN parts => parts'[m] = parts[m]
    /\ m \in DOMAIN dests' <=> m \in DOMAIN dests
    /\ m \in DOMAIN dests => dests'[m] = dests[m]

\* Who holds a name held it before, and a reserved one is still free.
LEMMA NamesKept ==
  ASSUME NamesAreHeld,
         \A i \in DownloadId : Holds(i)' => Holds(i) /\ Settled'[i].name = Settled[i].name,
         \A i \in DownloadId :
           FilesAreSafe /\ Holds(i)' /\ Settled[i].name \in DOMAIN parts =>
             Settled[i].name \in DOMAIN parts',
         \A c \in Thread : callers'[c].pc = "reserve" => callers'[c].name \notin DOMAIN parts'
  PROVE  NamesAreHeld'
<1>1. \A i, j \in DownloadId :
        Holds(i)' /\ Holds(j)' /\ Settled'[i].name = Settled'[j].name => i = j
  BY DEF NamesAreHeld
<1>2. FilesAreSafe => \A i \in DownloadId : Holds(i)' => Settled'[i].name \in DOMAIN parts'
  BY DEF NamesAreHeld
<1>3. QED
  BY <1>1, <1>2 DEF NamesAreHeld

LEMMA QuietHolds ==
  ASSUME Quiet
  PROVE  \A i \in DownloadId : (Holds(i)' <=> Holds(i)) /\ Settled'[i].name = Settled[i].name
<1>1. \A v \in DOMAIN workers :
        (GivenUp(v)' <=> GivenUp(v)) /\ workers'[v].id = workers[v].id
  BY DEF Quiet, SameJob, SameTransfer, SameDownload, GivenUp
<1>2. QED
  BY <1>1 DEF Quiet, SameChannelOrLess, Holds

\* One row changes, and no transfer.
LEMMA RowHolds ==
  ASSUME NEW id, id \in DOMAIN Settled, workers' = workers, DOMAIN Settled' = DOMAIN Settled,
         OthersKept(Settled, Settled', id), Settled'[id].name = Settled[id].name,
         Holds(id)' => Holds(id)
  PROVE  \A i \in DownloadId : Holds(i)' => Holds(i) /\ Settled'[i].name = Settled[i].name
<1>1. \A v \in DOMAIN workers : GivenUp(v)' <=> GivenUp(v)
  BY DEF GivenUp
<1>2. QED
  BY <1>1 DEF Holds, OthersKept

\* One transfer and its row change.
LEMMA WorkerHolds ==
  ASSUME Inv, NEW w \in DOMAIN workers, Moves(w), workers'[w].id = workers[w].id,
         DOMAIN Settled' = DOMAIN Settled, OthersKept(Settled, Settled', workers[w].id),
         Settled'[workers[w].id].name = Settled[workers[w].id].name,
         Settled'[workers[w].id].state \notin Over /\ ~GivenUp(w)' =>
           Settled[workers[w].id].state \notin Over /\ ~GivenUp(w)
  PROVE  \A i \in DownloadId : Holds(i)' => Holds(i) /\ Settled'[i].name = Settled[i].name
<1> SUFFICES ASSUME NEW i \in DownloadId, Holds(i)'
             PROVE  Holds(i) /\ Settled'[i].name = Settled[i].name
  OBVIOUS
<1>1. i \in DOMAIN Settled /\ Settled'[i].state \notin Over
      /\ \A v \in DOMAIN workers : workers'[v].id = i => ~GivenUp(v)'
  BY DEF Holds, Moves
<1>2. CASE i = workers[w].id
  <2>1. ~GivenUp(w)'
    BY <1>1, <1>2
  <2>2. Settled[i].state \notin Over /\ ~GivenUp(w)
    BY <1>1, <1>2, <2>1
  <2>3. \A v \in DOMAIN workers : workers[v].id = i => v = w
    BY <1>2, OneWorkerEach
  <2>4. QED
    BY <1>1, <1>2, <2>2, <2>3 DEF Holds
<1>3. CASE i # workers[w].id
  <2>1. Settled'[i] = Settled[i]
    BY <1>1, <1>3 DEF OthersKept
  <2>2. \A v \in DOMAIN workers : workers[v].id = i => workers'[v] = workers[v]
    BY <1>3 DEF Moves
  <2>3. \A v \in DOMAIN workers : workers[v].id = i => ~GivenUp(v)
    BY <1>1, <2>2 DEF GivenUp
  <2>4. QED
    BY <1>1, <2>1, <2>3 DEF Holds
<1>4. QED
  BY <1>2, <1>3

\* The counts of the others, when one transfer and its .part change
LEMMA CountsKept ==
  ASSUME Inv, FileInv, NEW w \in DOMAIN workers, workers[w].pc \notin {"settle", "leave"},
         Moves(w), callers' = callers, SameElsewhere(workers[w].name), JobOnDisk(workers[w])'
  PROVE  CountsAreOnDisk'
<1>1. ASSUME NEW c \in Thread, callers[c].pc = "spawn"
      PROVE  callers[c].from = OnDisk(callers[c].name)'
  <2>1. callers[c].name # workers[w].name
    BY <1>1, SpawnNameApart DEF FileInv
  <2>2. callers[c].name \in FileName
    <3>1. callers[c] \in CallT
      BY DEF Inv, Types
    <3>2. QED
      BY <1>1, <3>1, CallFields
  <2>3. OnDisk(callers[c].name)' = OnDisk(callers[c].name)
    BY <2>1, <2>2 DEF OnDisk, SameElsewhere
  <2>4. QED
    BY <1>1, <2>3 DEF FileInv, CountsAreOnDisk
<1>2. ASSUME NEW v \in DOMAIN workers, v # w
      PROVE  JobOnDisk(workers[v])'
  <2> PICK job : job = workers[v]
    OBVIOUS
  <2>1. workers[v] = job /\ workers'[v] = job /\ JobOnDisk(job)
    BY <1>2 DEF Moves, FileInv, CountsAreOnDisk
  <2>2. CASE workers[v].pc \in {"settle", "leave"}
    BY <2>1, <2>2 DEF JobOnDisk
  <2>3. CASE workers[v].pc \notin {"settle", "leave"}
    <3>1. job.name # workers[w].name /\ job.name \in FileName
      BY <1>2, <2>1, <2>3, NamesApart, JobFields DEF FileInv
    <3>2. OnDisk(job.name)' = OnDisk(job.name)
      BY <2>1, <3>1 DEF OnDisk, SameElsewhere
    <3>3. (job.name \in DOMAIN parts' <=> job.name \in DOMAIN parts)
          /\ (job.name \in DOMAIN parts => parts'[job.name] = parts[job.name])
      BY <3>1 DEF SameElsewhere
    <3>5. /\ job.pc = "send" => job.from = OnDisk(job.name)' /\ job.received = job.from
          /\ job.pc = "open" => job.got = 0 \/ job.got = OnDisk(job.name)'
          /\ job.pc \in {"check", "read", "rename"} =>
               job.name \in DOMAIN parts' /\ Len(parts'[job.name]) = job.got
      BY <2>1, <3>2, <3>3 DEF JobOnDisk
    <3>6. QED
      BY <2>1, <3>5 DEF JobOnDisk
  <2>4. QED
    BY <2>2, <2>3
<1>3. QED
  BY <1>1, <1>2 DEF CountsAreOnDisk, Moves

LEMMA SettledBounded ==
  ASSUME Inv, FileInv
  PROVE  \A id \in DOMAIN Settled : Settled[id].received <= Size
BY SettledTyped DEF Inv, FileInv, BoundedChannel

\* Operations that keep the bound
LEMMA ChannelBounded ==
  ASSUME FileInv, NEW new, Tables(rows', queue') \subseteq Tables(rows, queue) \cup new,
         \A t \in new : \A id \in DOMAIN t : t[id].received <= Size,
         \A op \in Ops(queue') : op.op = "progress" => op \in Ops(queue) \/ op.received <= Size
  PROVE  BoundedChannel'
BY DEF FileInv, BoundedChannel

\* The files stay; one transfer changes.
LEMMA BoundedMoves ==
  ASSUME FileInv, NEW w \in DOMAIN workers, Moves(w), callers' = callers,
         workers'[w].from <= Size, workers'[w].got <= Size, workers'[w].received <= Size,
         \A n \in DOMAIN parts' : Len(parts'[n]) <= Size,
         \A n \in DOMAIN dests' : Len(dests'[n]) <= Size
  PROVE  Bounded'
BY DEF FileInv, Bounded, Moves

LEMMA QuietFiles ==
  ASSUME Inv, FileInv, Quiet
  PROVE  FileInv'
<1>1. /\ parts' = parts /\ dests' = dests
      /\ DOMAIN workers' = DOMAIN workers /\ \A v \in DOMAIN workers : SameJob(v)
      /\ \A c \in Thread : callers'[c].pc \in {"reserve", "spawn"} => callers'[c] = callers[c]
  BY DEF Quiet
<1>2. NamesAreHeld'
  BY <1>1, QuietHolds, NamesKept DEF FileInv, NamesAreHeld
<1>3. CountsAreOnDisk'
  <2>1. \A n : OnDisk(n)' = OnDisk(n)
    BY <1>1 DEF OnDisk
  <2>2. ASSUME NEW v \in DOMAIN workers
        PROVE  JobOnDisk(workers[v])'
    <3>1. JobOnDisk(workers[v]) /\ SameJob(v)
      BY <1>1 DEF FileInv, CountsAreOnDisk
    <3>2. QED
      BY <1>1, <3>1 DEF JobOnDisk, SameJob, SameTransfer, SameDownload, OnDisk
  <2>3. \A c \in Thread : (callers[c].pc = "spawn" => callers[c].from = OnDisk(callers[c].name))'
    BY <1>1 DEF FileInv, CountsAreOnDisk, OnDisk
  <2>4. QED
    BY <1>1, <2>2, <2>3 DEF CountsAreOnDisk
<1>4. BoundedChannel'
  BY DEF Quiet, SameChannelOrLess, FileInv, BoundedChannel
<1>5. Bounded'
  BY <1>1 DEF FileInv, Bounded, SameJob, SameTransfer, SameDownload
<1>6. QED
  BY <1>2, <1>3, <1>4, <1>5 DEF FileInv

\* The search ends with a name that has no .part.
LEMMA ChoosesCall ==
  ASSUME Inv, OneCaller, NEW c \in Thread, Chooses(c)
  PROVE  /\ rows' = rows /\ queue' = queue /\ workers' = workers /\ parts' = parts
         /\ dests' = dests /\ slipped' = slipped /\ launched' = launched
         /\ callers[c].pc = "part" /\ callers'[c].pc = "reserve"
         /\ callers'[c].id = callers[c].id /\ callers'[c].name = callers[c].name
         /\ callers[c].name \notin DOMAIN parts
         /\ \A d \in Thread \ {c} : callers'[d] = Idle({})
         /\ SameChannelOrLess /\ Settled' = Settled
<1>1. PICK call \in CallT :
        /\ callers' = [callers EXCEPT ![c] = call]
        /\ call.pc = "reserve" => /\ callers[c].pc = "part" /\ call.id = callers[c].id
                                  /\ call.name = callers[c].name
                                  /\ call.name \notin DOMAIN parts
  BY ProbeMoves DEF Inv, Chooses
<1>2. /\ rows' = rows /\ queue' = queue /\ workers' = workers
      /\ parts' = parts /\ dests' = dests /\ slipped' = slipped /\ launched' = launched
      /\ callers[c].pc \in {"name", "part"}
  BY ProbeMoves DEF Inv, Chooses
<1>3. callers[c] # Idle({})
  BY <1>2 DEF Idle
<1>4. callers'[c] = call /\ \A d \in Thread \ {c} : callers'[d] = Idle({})
  BY <1>1, <1>3, Alone DEF Inv, Types
<1>5. QED
  BY <1>1, <1>2, <1>4, ChannelKept, SameChannel DEF Chooses

LEMMA ChoosesFiles ==
  ASSUME Inv, FileInv, OneCaller, NEW c \in Thread, Chooses(c)
  PROVE  FileInv'
<1>1. /\ workers' = workers /\ parts' = parts /\ dests' = dests
      /\ callers'[c].pc = "reserve" /\ callers'[c].name \notin DOMAIN parts
      /\ \A d \in Thread \ {c} : callers'[d] = Idle({})
      /\ SameChannelOrLess /\ Settled' = Settled
  BY ChoosesCall
<1>2. NamesAreHeld'
  <2>1. \A i \in DownloadId : Holds(i)' => Holds(i)
    BY <1>1 DEF Holds, GivenUp
  <2>2. \A d \in Thread : callers'[d].pc = "reserve" => callers'[d].name \notin DOMAIN parts'
    BY <1>1 DEF Idle
  <2>3. QED
    BY <1>1, <2>1, <2>2, NamesKept DEF FileInv
<1>3. CountsAreOnDisk'
  <2>1. \A v \in DOMAIN workers : JobOnDisk(workers[v])'
    BY <1>1 DEF FileInv, CountsAreOnDisk, JobOnDisk, OnDisk
  <2>2. QED
    BY <1>1, <2>1 DEF CountsAreOnDisk, Idle
<1>4. BoundedChannel'
  BY <1>1 DEF SameChannelOrLess, FileInv, BoundedChannel
<1>5. Bounded'
  BY <1>1 DEF FileInv, Bounded, Idle
<1>6. QED
  BY <1>2, <1>3, <1>4, <1>5 DEF FileInv

\* What start_download writes
Reserves(c, id, name) ==
  /\ id \in DownloadId /\ name \in FileName /\ id \notin DOMAIN Settled
  /\ DOMAIN Settled' = DOMAIN Settled \cup {id}
  /\ OthersKept(Settled, Settled', id)
  /\ Settled'[id] = [name |-> name, received |-> 0, state |-> "active", etag |-> None]
  /\ Tables(rows', queue') = Tables(rows, queue) \cup {Settled'}
  /\ \A op \in Ops(queue') : op \in Ops(queue) \/ op.op = "upsert"
  /\ callers'[c] = [pc |-> "spawn", id |-> id, name |-> name, from |-> 0,
                    etag |-> None, todo |-> callers[c].todo]
  /\ \A d \in Thread \ {c} : callers[d] = Idle({}) /\ callers'[d] = Idle({})
  /\ \A w \in DOMAIN workers : workers[w].id # id
  /\ \/ parts' = (IF name \in DOMAIN parts THEN parts ELSE Put(parts, name, <<>>))
     \/ "disk" \in Faults /\ parts' = parts
  /\ dests' = dests /\ slipped' = slipped /\ workers' = workers

LEMMA ReserveRow ==
  ASSUME Inv, OneCaller, NEW c \in Thread, Reserve(c)
  PROVE  Reserves(c, callers[c].id, callers[c].name)
<1> DEFINE id == callers[c].id
           name == callers[c].name
           op == Upsert(id, name)
           call == [pc |-> "spawn", id |-> id, name |-> name, from |-> 0, etag |-> None,
                    todo |-> callers[c].todo]
<1>1. callers[c].pc = "reserve" /\ callers[c] \in CallT
  BY DEF Reserve, Inv, Types
<1>2. id \in DownloadId /\ name \in FileName
  BY <1>1, CallFields
<1>3. \A d \in Thread \ {c} : callers[d] = Idle({})
  <2>1. callers[c] # Idle({})
    BY <1>1 DEF Idle
  <2>2. QED
    BY <2>1, Alone
<1>4. /\ callers' = [callers EXCEPT ![c] = call] /\ Submit(<<op>>) /\ rows' = rows
      /\ \/ parts' = (IF name \in DOMAIN parts THEN parts ELSE Put(parts, name, <<>>))
         \/ "disk" \in Faults /\ parts' = parts
      /\ dests' = dests /\ slipped' = slipped /\ workers' = workers
  BY DEF Reserve, Spawning
<1>5. id \notin DOMAIN Settled
  BY <1>1 DEF Inv, RowOfCall
<1> HIDE DEF id, name
<1>6. op \in OpT /\ op.op = "upsert"
  BY <1>2, SMT DEF Upsert, OpT
<1>7. Types /\ TableT(Settled)
  BY SettledTyped DEF Inv
<1>8. /\ Settled' = Applied(Settled, op) /\ Ops(queue') = Ops(queue) \cup {op}
      /\ Tables(rows', queue') = Tables(rows, queue) \cup {Settled'}
  BY <1>4, <1>6, <1>7, SubmitOne
<1>9. /\ DOMAIN Settled' = DOMAIN Settled \cup {id} /\ OthersKept(Settled, Settled', id)
      /\ Settled'[id] = [name |-> name, received |-> 0, state |-> "active", etag |-> None]
  BY <1>2, <1>7, <1>8, UpsertRow
<1>10. callers'[c] = call /\ \A d \in Thread \ {c} : callers'[d] = Idle({})
  <2> HIDE DEF call
  <2>1. QED
    BY <1>3, <1>4 DEF Inv, Types
<1>11. \A w \in DOMAIN workers : workers[w].id # id
  BY <1>5 DEF Inv, RowOfWorker
<1>12. \A x \in Ops(queue') : x \in Ops(queue) \/ x.op = "upsert"
  BY <1>6, <1>8
<1> HIDE DEF op
<1>13. Reserves(c, id, name)
  BY <1>2, <1>3, <1>4, <1>5, <1>8, <1>9, <1>10, <1>11, <1>12 DEF Reserves
<1>14. QED
  BY <1>13 DEF id, name

LEMMA ReserveFiles ==
  ASSUME Inv, FileInv, NoSharedNames, OneCaller, NEW c \in Thread, Reserve(c)
  PROVE  FileInv'
<1> PICK id, name : id = callers[c].id /\ name = callers[c].name
  OBVIOUS
<1>b. Reserves(c, id, name)
  <2>1. Reserves(c, callers[c].id, callers[c].name)
    BY ReserveRow
  <2>2. QED
    BY <2>1
<1>1. /\ id \in DownloadId /\ name \in FileName /\ id \notin DOMAIN Settled
      /\ DOMAIN Settled' = DOMAIN Settled \cup {id}
      /\ OthersKept(Settled, Settled', id)
      /\ Settled'[id].name = name /\ Settled'[id].received = 0
      /\ Tables(rows', queue') = Tables(rows, queue) \cup {Settled'}
      /\ \A op \in Ops(queue') : op \in Ops(queue) \/ op.op = "upsert"
      /\ \A d \in Thread \ {c} : callers[d] = Idle({}) /\ callers'[d] = Idle({})
      /\ \A w \in DOMAIN workers : workers[w].id # id
      /\ dests' = dests /\ workers' = workers
  BY <1>b DEF Reserves
<1>a. callers'[c].pc = "spawn" /\ callers'[c].name = name /\ callers'[c].from = 0
  BY <1>b DEF Reserves
<1>2. callers[c].pc = "reserve" /\ name \notin DOMAIN parts
  BY DEF Reserve, FileInv, NamesAreHeld
<1>3. /\ DOMAIN parts \subseteq DOMAIN parts' /\ DOMAIN parts' \subseteq DOMAIN parts \cup {name}
      /\ \A n \in DOMAIN parts : parts'[n] = parts[n]
      /\ name \in DOMAIN parts' => parts'[name] = <<>>
      /\ FilesAreSafe => name \in DOMAIN parts'
  <2>1. CASE parts' = Put(parts, name, <<>>)
    BY <1>2, <2>1 DEF Put
  <2>2. CASE "disk" \in Faults /\ parts' = parts
    BY <1>2, <2>2 DEF FilesAreSafe
  <2>3. QED
    BY <1>b, <1>2, <2>1, <2>2 DEF Reserves
<1>4. \A i \in DownloadId : Holds(i) => Settled[i].name # name /\ i # id
  BY <1>2, ReservedIsFree DEF FileInv
<1>5. NamesAreHeld'
  <2>1. ASSUME NEW i \in DownloadId, Holds(i)', i # id
        PROVE  Holds(i) /\ Settled'[i].name = Settled[i].name /\ Settled'[i].name # name
    <3>1. i \in DOMAIN Settled /\ Settled'[i] = Settled[i]
      BY <1>1, <2>1 DEF Holds, OthersKept
    <3>2. Holds(i)
      BY <1>1, <2>1, <3>1 DEF Holds, GivenUp
    <3>3. QED
      BY <1>4, <3>1, <3>2
  <2>2. \A i, j \in DownloadId :
          Holds(i)' /\ Holds(j)' /\ Settled'[i].name = Settled'[j].name => i = j
    BY <1>1, <2>1 DEF FileInv, NamesAreHeld
  <2>3. FilesAreSafe => \A i \in DownloadId : Holds(i)' => Settled'[i].name \in DOMAIN parts'
    BY <1>1, <1>3, <2>1 DEF FileInv, NamesAreHeld
  <2>4. \A d \in Thread : callers'[d].pc # "reserve"
    BY <1>1, <1>a DEF Idle
  <2>5. QED
    BY <2>2, <2>3, <2>4 DEF NamesAreHeld
<1>6. CountsAreOnDisk'
  <2>1. \A n : n # name => OnDisk(n)' = OnDisk(n)
    BY <1>3 DEF OnDisk
  <2>2. OnDisk(name)' = 0
    BY <1>3, EmptySeq DEF OnDisk
  <2>3. ASSUME NEW v \in DOMAIN workers
        PROVE  JobOnDisk(workers[v])'
    <3> PICK job : job = workers[v]
      OBVIOUS
    <3>1. workers'[v] = job /\ JobOnDisk(job)
      BY <1>1 DEF FileInv, CountsAreOnDisk
    <3>2. CASE job.pc \in {"settle", "leave"}
      BY <3>1, <3>2 DEF JobOnDisk
    <3>3. CASE job.pc \notin {"settle", "leave"}
      <4>1. job.name # name
        BY <1>4, <3>3, TransferHolds, JobFields
      <4>2. OnDisk(job.name)' = OnDisk(job.name)
        BY <2>1, <4>1
      <4>3. (job.name \in DOMAIN parts' <=> job.name \in DOMAIN parts)
            /\ (job.name \in DOMAIN parts => parts'[job.name] = parts[job.name])
        BY <1>3, <4>1
      <4>4. /\ job.pc = "send" => job.from = OnDisk(job.name)' /\ job.received = job.from
            /\ job.pc = "open" => job.got = 0 \/ job.got = OnDisk(job.name)'
            /\ job.pc \in {"check", "read", "rename"} =>
                 job.name \in DOMAIN parts' /\ Len(parts'[job.name]) = job.got
        BY <3>1, <4>2, <4>3 DEF JobOnDisk
      <4>5. QED
        BY <3>1, <4>4 DEF JobOnDisk
    <3>4. QED
      BY <3>2, <3>3
  <2>4. \A d \in Thread : (callers[d].pc = "spawn" => callers[d].from = OnDisk(callers[d].name))'
    BY <1>1, <1>a, <2>2 DEF Idle
  <2>5. QED
    BY <1>1, <2>3, <2>4 DEF CountsAreOnDisk
<1>7. BoundedChannel'
  <2>1. \A i \in DOMAIN Settled' : Settled'[i].received <= Size
    BY <1>1, SettledBounded, SizeIsPos, SMT DEF OthersKept
  <2>2. \A op \in Ops(queue') : op.op = "progress" => op \in Ops(queue)
    BY <1>1
  <2> DEFINE new == {Settled'}
  <2>3. Tables(rows', queue') \subseteq Tables(rows, queue) \cup new
        /\ \A t \in new : \A i \in DOMAIN t : t[i].received <= Size
    BY <1>1, <2>1
  <2> HIDE DEF new
  <2>4. QED
    BY <2>2, <2>3, ChannelBounded
<1>8. Bounded'
  <2>1. \A d \in Thread : callers'[d].pc = "spawn" => callers'[d].from <= Size
    BY <1>1, <1>a, SizeIsPos, SMT DEF Idle
  <2>2. \A n \in DOMAIN parts' : Len(parts'[n]) <= Size
    BY <1>3, EmptySeq, SizeIsPos, SMT DEF FileInv, Bounded
  <2>3. QED
    BY <1>1, <2>1, <2>2 DEF FileInv, Bounded
<1>9. QED
  BY <1>5, <1>6, <1>7, <1>8 DEF FileInv

LEMMA SpawnWorkerFiles ==
  ASSUME Inv, FileInv, OneCaller, NEW c \in Thread, NEW w \in Worker, SpawnWorker(c, w)
  PROVE  FileInv'
<1> PICK job : job = [pc |-> "send", id |-> callers[c].id, name |-> callers[c].name,
                      from |-> callers[c].from, etag |-> callers[c].etag, control |-> "run",
                      version |-> None, got |-> 0, received |-> callers[c].from, outcome |-> None]
  OBVIOUS
<1> PICK call : call = [pc |-> "register", id |-> callers[c].id, worker |-> w,
                        todo |-> callers[c].todo]
  OBVIOUS
<1>1. /\ callers[c].pc = "spawn" /\ w \notin DOMAIN workers
      /\ callers' = [callers EXCEPT ![c] = call] /\ workers' = Put(workers, w, job)
      /\ rows' = rows /\ queue' = queue /\ parts' = parts /\ dests' = dests
  BY DEF SpawnWorker, files, FreshWorker
<1>2. /\ DOMAIN workers' = DOMAIN workers \cup {w} /\ workers'[w] = job
      /\ \A v \in DOMAIN workers : workers'[v] = workers[v]
  BY <1>1 DEF Put
<1>3. /\ job.pc = "send" /\ job.id = callers[c].id /\ job.name = callers[c].name
      /\ job.from = callers[c].from /\ job.got = 0 /\ job.received = callers[c].from
      /\ call.pc = "register"
  OBVIOUS
<1>4. callers'[c].pc = "register" /\ \A d \in Thread \ {c} : callers'[d] = Idle({})
  <2>1. callers[c] # Idle({})
    BY <1>1 DEF Idle
  <2>2. QED
    BY <1>1, <1>3, <2>1, Alone DEF Inv, Types
<1>5. SameChannelOrLess /\ Settled' = Settled
  BY <1>1, ChannelKept, SameChannel
<1>6. NamesAreHeld'
  <2>1. \A i \in DownloadId : Holds(i)' => Holds(i)
    <3>1. \A v \in DOMAIN workers : GivenUp(v)' <=> GivenUp(v)
      BY <1>2 DEF GivenUp
    <3>2. QED
      BY <1>2, <1>5, <3>1 DEF Holds
  <2>2. \A d \in Thread : callers'[d].pc # "reserve"
    BY <1>4 DEF Idle
  <2>3. QED
    BY <1>1, <1>5, <2>1, <2>2, NamesKept DEF FileInv
<1>7. CountsAreOnDisk'
  <2>1. \A v \in DOMAIN workers : JobOnDisk(workers[v])'
    BY <1>1, <1>2 DEF FileInv, CountsAreOnDisk, JobOnDisk, OnDisk
  <2>2. JobOnDisk(workers[w])'
    BY <1>1, <1>2, <1>3 DEF FileInv, CountsAreOnDisk, JobOnDisk, OnDisk
  <2>3. \A d \in Thread : callers'[d].pc # "spawn"
    BY <1>4 DEF Idle
  <2>4. QED
    BY <1>2, <2>1, <2>2, <2>3 DEF CountsAreOnDisk
<1>8. BoundedChannel'
  BY <1>5 DEF SameChannelOrLess, FileInv, BoundedChannel
<1>9. Bounded'
  <2>1. job.from <= Size /\ job.got <= Size /\ job.received <= Size
    BY <1>1, <1>3, SizeIsPos, SMT DEF FileInv, Bounded
  <2>2. \A d \in Thread : callers'[d].pc # "spawn"
    BY <1>4 DEF Idle
  <2>3. QED
    BY <1>1, <1>2, <2>1, <2>2 DEF FileInv, Bounded
<1>10. QED
  BY <1>6, <1>7, <1>8, <1>9 DEF FileInv

\* What a call writes to the row it has read
RowStep(c, id, state) ==
  /\ id \in DownloadId /\ id \in DOMAIN Settled /\ rows[id] = Settled[id]
  /\ \A w \in DOMAIN workers : workers[w].id # id
  /\ DOMAIN Settled' = DOMAIN Settled /\ OthersKept(Settled, Settled', id)
  /\ Settled'[id].name = Settled[id].name /\ Settled'[id].state = state
  /\ Settled'[id].received = Settled[id].received /\ Settled'[id].etag = Settled[id].etag
  /\ Tables(rows', queue') = Tables(rows, queue) \cup {Settled'}
  /\ \A op \in Ops(queue') : op \in Ops(queue) \/ op.op = "state"
  /\ \A d \in Thread \ {c} : callers[d] = Idle({})

LEMMA RowStepHolds ==
  ASSUME Inv, OneCaller, NEW c \in Thread, callers[c].pc \in {"resume", "cancel"},
         NEW state \in State, Submit(<<SetState(callers[c].id, state)>>), rows' = rows
  PROVE  RowStep(c, callers[c].id, state)
<1> DEFINE id == callers[c].id
           op == SetState(id, state)
<1>1. \A d \in Thread \ {c} : callers[d] = Idle({})
  <2>1. callers[c] # Idle({})
    BY DEF Idle
  <2>2. QED
    BY <2>1, Alone
<1>2. /\ id \in DownloadId /\ id \in DOMAIN Settled /\ rows[id] = Settled[id]
      /\ \A w \in DOMAIN workers : workers[w].id # id
  BY ReadRow
<1> HIDE DEF id
<1>3. op \in OpT /\ op.op = "state"
  BY <1>2, SMT DEF SetState, OpT
<1>4. Types /\ TableT(Settled)
  BY SettledTyped DEF Inv
<1>5. /\ Settled' = Applied(Settled, op) /\ Ops(queue') = Ops(queue) \cup {op}
      /\ Tables(rows', queue') = Tables(rows, queue) \cup {Settled'}
  BY <1>3, <1>4, SubmitOne DEF id
<1>6. /\ DOMAIN Settled' = DOMAIN Settled /\ OthersKept(Settled, Settled', id)
      /\ Settled'[id].name = Settled[id].name /\ Settled'[id].state = state
      /\ Settled'[id].received = Settled[id].received /\ Settled'[id].etag = Settled[id].etag
  BY <1>2, <1>4, <1>5, StateRow
<1> HIDE DEF op
<1>7. RowStep(c, id, state)
  BY <1>1, <1>2, <1>3, <1>5, <1>6 DEF RowStep
<1>8. QED
  BY <1>7 DEF id

\* resume_download goes on with what is on disk.
GoingOn(c, id) ==
  /\ RowStep(c, id, "active") /\ Settled[id].state \in {"paused", "interrupted"}
  /\ callers'[c].pc = "spawn" /\ callers'[c].id = id /\ callers'[c].name = Settled[id].name
  /\ callers'[c].from = OnDisk(Settled[id].name) /\ callers'[c].etag = Settled[id].etag
  /\ \A d \in Thread \ {c} : callers'[d] = Idle({})
  /\ workers' = workers /\ parts' = parts /\ dests' = dests /\ slipped' = slipped
  /\ launched' = launched

LEMMA GoesOnRow ==
  ASSUME Inv, OneCaller, NEW c \in Thread, GoesOn(c)
  PROVE  GoingOn(c, callers[c].id)
<1> DEFINE id == callers[c].id
           call == [pc |-> "spawn", id |-> id, name |-> rows[id].name, from |-> OnDisk(rows[id].name),
                    etag |-> rows[id].etag, todo |-> callers[c].todo]
<1>1. /\ callers[c].pc = "resume" /\ CanTransition(rows[id].state, "active")
      /\ Submit(<<SetState(id, "active")>>) /\ rows' = rows
      /\ callers' = [callers EXCEPT ![c] = call]
      /\ workers' = workers /\ parts' = parts /\ dests' = dests /\ slipped' = slipped
      /\ launched' = launched
  BY DEF GoesOn, ResumeRow, Spawning, files, OnDisk
<1>2. RowStep(c, id, "active")
  BY <1>1, RowStepHolds DEF State
<1>3. /\ call.pc = "spawn" /\ call.id = id /\ call.name = rows[id].name
      /\ call.from = OnDisk(rows[id].name) /\ call.etag = rows[id].etag
  OBVIOUS
<1> HIDE DEF call
<1>4. callers'[c] = call /\ \A d \in Thread \ {c} : callers'[d] = Idle({})
  BY <1>1, <1>2 DEF RowStep, Inv, Types
<1>5. rows[id] = Settled[id]
  BY <1>2 DEF RowStep
<1>6. Settled[id].state \in {"paused", "interrupted"}
  BY <1>1, <1>5 DEF CanTransition
<1> HIDE DEF id
<1>7. GoingOn(c, id)
  BY <1>1, <1>2, <1>3, <1>4, <1>5, <1>6 DEF GoingOn
<1>8. QED
  BY <1>7 DEF id

\* cancel_download removes the .part of a download that rests.
Cancelling(c, id) ==
  /\ RowStep(c, id, "cancelled") /\ Settled[id].state \in {"active", "paused", "interrupted"}
  /\ callers'[c].pc = "idle" /\ \A d \in Thread \ {c} : callers'[d] = Idle({})
  /\ workers' = workers /\ parts' = Drop(parts, {Settled[id].name}) /\ dests' = dests
  /\ slipped' = slipped /\ launched' = launched

LEMMA CancelsRow ==
  ASSUME Inv, OneCaller, NEW c \in Thread, Cancels(c)
  PROVE  Cancelling(c, callers[c].id)
<1> DEFINE id == callers[c].id
           call == Idle(callers[c].todo)
<1>1. /\ callers[c].pc = "cancel" /\ CanTransition(rows[id].state, "cancelled")
      /\ Submit(<<SetState(id, "cancelled")>>) /\ rows' = rows
      /\ callers' = [callers EXCEPT ![c] = call]
      /\ workers' = workers /\ parts' = Drop(parts, {rows[id].name}) /\ dests' = dests
      /\ slipped' = slipped /\ launched' = launched
  BY DEF Cancels, CancelRow, Returned
<1>2. RowStep(c, id, "cancelled")
  BY <1>1, RowStepHolds DEF State
<1>3. call.pc = "idle"
  BY DEF Idle
<1> HIDE DEF call
<1>4. callers'[c] = call /\ \A d \in Thread \ {c} : callers'[d] = Idle({})
  BY <1>1, <1>2 DEF RowStep, Inv, Types
<1>5. rows[id] = Settled[id]
  BY <1>2 DEF RowStep
<1>6. Settled[id].state \in {"active", "paused", "interrupted"}
  BY <1>1, <1>5 DEF CanTransition
<1> HIDE DEF id
<1>7. Cancelling(c, id)
  BY <1>1, <1>2, <1>3, <1>4, <1>5, <1>6 DEF Cancelling
<1>8. QED
  BY <1>7 DEF id

LEMMA RowStepBounded ==
  ASSUME Inv, FileInv, NEW c, NEW id, NEW state, RowStep(c, id, state)
  PROVE  BoundedChannel'
<1> DEFINE new == {Settled'}
<1>1. \A i \in DOMAIN Settled' : Settled'[i].received <= Size
  BY SettledBounded DEF RowStep, OthersKept
<1>2. /\ Tables(rows', queue') \subseteq Tables(rows, queue) \cup new
      /\ \A t \in new : \A i \in DOMAIN t : t[i].received <= Size
      /\ \A op \in Ops(queue') : op.op = "progress" => op \in Ops(queue) \/ op.received <= Size
  BY <1>1 DEF RowStep
<1> HIDE DEF new
<1>3. QED
  BY <1>2, ChannelBounded

LEMMA GoesOnFiles ==
  ASSUME Inv, FileInv, OneCaller, NEW c \in Thread, GoesOn(c)
  PROVE  FileInv'
<1> PICK id : id = callers[c].id
  OBVIOUS
<1>1. GoingOn(c, id)
  <2>1. GoingOn(c, callers[c].id)
    BY GoesOnRow
  <2>2. QED
    BY <2>1
<1>2. RowStep(c, id, "active")
  BY <1>1 DEF GoingOn
<1>3. Holds(id)
  <2>1. Settled[id].state \notin Over /\ id \in DOMAIN Settled
        /\ \A w \in DOMAIN workers : workers[w].id # id
    BY <1>1, <1>2 DEF GoingOn, RowStep, Over
  <2>2. QED
    BY <2>1 DEF Holds
<1>4. workers' = workers /\ parts' = parts /\ dests' = dests
  BY <1>1 DEF GoingOn
<1>5. NamesAreHeld'
  <2>1. \A i \in DownloadId : Holds(i)' => Holds(i) /\ Settled'[i].name = Settled[i].name
    BY <1>2, <1>3, <1>4, RowHolds DEF RowStep
  <2>2. \A d \in Thread : callers'[d].pc # "reserve"
    BY <1>1 DEF GoingOn, Idle
  <2>3. QED
    BY <1>4, <2>1, <2>2, NamesKept DEF FileInv
<1>6. CountsAreOnDisk'
  <2>1. \A v \in DOMAIN workers : JobOnDisk(workers[v])'
    BY <1>4 DEF FileInv, CountsAreOnDisk, JobOnDisk, OnDisk
  <2>2. \A d \in Thread : (callers[d].pc = "spawn" => callers[d].from = OnDisk(callers[d].name))'
    BY <1>1, <1>4 DEF GoingOn, OnDisk, Idle
  <2>3. QED
    BY <1>4, <2>1, <2>2 DEF CountsAreOnDisk
<1>7. BoundedChannel'
  BY <1>2, RowStepBounded
<1>8. Bounded'
  <2>1. OnDisk(Settled[id].name) <= Size
    BY SizeIsPos, SMT DEF OnDisk, FileInv, Bounded
  <2>2. \A d \in Thread : callers'[d].pc = "spawn" => callers'[d].from <= Size
    BY <1>1, <2>1 DEF GoingOn, Idle
  <2>3. QED
    BY <1>4, <2>2 DEF FileInv, Bounded
<1>9. QED
  BY <1>5, <1>6, <1>7, <1>8 DEF FileInv

LEMMA CancelsFiles ==
  ASSUME Inv, FileInv, OneCaller, NEW c \in Thread, Cancels(c)
  PROVE  FileInv'
<1> PICK id : id = callers[c].id
  OBVIOUS
<1>1. Cancelling(c, id)
  <2>1. Cancelling(c, callers[c].id)
    BY CancelsRow
  <2>2. QED
    BY <2>1
<1>2. RowStep(c, id, "cancelled")
  BY <1>1 DEF Cancelling
<1> PICK name : name = Settled[id].name
  OBVIOUS
<1>3. /\ id \in DownloadId /\ Holds(id) /\ ~Holds(id)'
  <2>1. Settled[id].state \notin Over /\ id \in DOMAIN Settled /\ id \in DownloadId
        /\ \A w \in DOMAIN workers : workers[w].id # id
    BY <1>1, <1>2 DEF Cancelling, RowStep, Over
  <2>2. Settled'[id].state \in Over
    BY <1>2 DEF RowStep, Over
  <2>3. QED
    BY <2>1, <2>2 DEF Holds
<1>4. workers' = workers /\ dests' = dests
      /\ DOMAIN parts' = DOMAIN parts \ {name} /\ \A n \in DOMAIN parts' : parts'[n] = parts[n]
  BY <1>1 DEF Cancelling, Drop
<1>5. \A i \in DownloadId : Holds(i) /\ i # id => Settled[i].name # name
  BY <1>3 DEF FileInv, NamesAreHeld
<1>6. \A d \in Thread : callers'[d].pc \notin {"reserve", "spawn"}
  BY <1>1 DEF Cancelling, Idle
<1>7. NamesAreHeld'
  <2>1. \A i \in DownloadId : Holds(i)' => Holds(i) /\ Settled'[i].name = Settled[i].name
    BY <1>2, <1>3, <1>4, RowHolds DEF RowStep
  <2>2. \A i \in DownloadId : Holds(i)' => Settled[i].name # name
    BY <1>3, <1>5, <2>1
  <2>3. QED
    BY <1>4, <1>6, <2>1, <2>2, NamesKept DEF FileInv
<1>8. CountsAreOnDisk'
  <2>1. ASSUME NEW v \in DOMAIN workers
        PROVE  JobOnDisk(workers[v])'
    <3> PICK job : job = workers[v]
      OBVIOUS
    <3>1. workers[v] = job /\ workers'[v] = job /\ JobOnDisk(job)
      BY <1>4 DEF FileInv, CountsAreOnDisk
    <3>2. CASE job.pc \in {"settle", "leave"}
      BY <3>1, <3>2 DEF JobOnDisk
    <3>3. CASE job.pc \notin {"settle", "leave"}
      <4>1. job.name # name
        <5>1. Holds(job.id) /\ Settled[job.id].name = job.name /\ job.id \in DownloadId
          BY <3>1, <3>3, TransferHolds, JobFields
        <5>2. job.id # id
          BY <1>2, <3>1 DEF RowStep
        <5>3. QED
          BY <1>5, <5>1, <5>2
      <4>2. OnDisk(job.name)' = OnDisk(job.name)
            /\ (job.name \in DOMAIN parts' <=> job.name \in DOMAIN parts)
            /\ (job.name \in DOMAIN parts => parts'[job.name] = parts[job.name])
        BY <1>4, <4>1 DEF OnDisk
      <4>3. /\ job.pc = "send" => job.from = OnDisk(job.name)' /\ job.received = job.from
            /\ job.pc = "open" => job.got = 0 \/ job.got = OnDisk(job.name)'
            /\ job.pc \in {"check", "read", "rename"} =>
                 job.name \in DOMAIN parts' /\ Len(parts'[job.name]) = job.got
        BY <3>1, <4>2 DEF JobOnDisk
      <4>4. QED
        BY <3>1, <4>3 DEF JobOnDisk
    <3>4. QED
      BY <3>2, <3>3
  <2>2. QED
    BY <1>4, <1>6, <2>1 DEF CountsAreOnDisk
<1>9. BoundedChannel'
  BY <1>2, RowStepBounded
<1>10. Bounded'
  BY <1>4, <1>6 DEF FileInv, Bounded
<1>11. QED
  BY <1>7, <1>8, <1>9, <1>10 DEF FileInv

\* A transfer moves, and its .part, its row and its name with it.
LEMMA WorkerFiles ==
  ASSUME Inv, FileInv, NoSharedNames, NEW w \in DOMAIN workers,
         workers[w].pc \notin {"settle", "leave"}, Moves(w), callers' = callers,
         workers'[w].id = workers[w].id, SameElsewhere(workers[w].name), JobOnDisk(workers[w])',
         DOMAIN Settled' = DOMAIN Settled, OthersKept(Settled, Settled', workers[w].id),
         Settled'[workers[w].id].name = Settled[workers[w].id].name,
         Settled'[workers[w].id].state = Settled[workers[w].id].state,
         BoundedChannel',
         workers'[w].from <= Size, workers'[w].got <= Size, workers'[w].received <= Size,
         workers[w].name \in DOMAIN parts' => Len(parts'[workers[w].name]) <= Size,
         workers[w].name \in DOMAIN dests' => Len(dests'[workers[w].name]) <= Size,
         workers[w].name \in DOMAIN parts => GivenUp(w)' \/ workers[w].name \in DOMAIN parts',
         DOMAIN parts' \subseteq FileName, DOMAIN dests' \subseteq FileName
  PROVE  FileInv'
<1> PICK name : name = workers[w].name
  OBVIOUS
<1> PICK id : id = workers[w].id
  OBVIOUS
<1>1. id \in DownloadId /\ name \in FileName /\ Holds(id) /\ Settled[id].name = name
  BY TransferHolds, JobFields
<1>2. ~GivenUp(w)
  BY DEF GivenUp
<1>3. NamesAreHeld'
  <2>1. \A i \in DownloadId : Holds(i)' => Holds(i) /\ Settled'[i].name = Settled[i].name
    BY <1>2, WorkerHolds
  <2>2. ASSUME NEW i \in DownloadId, Holds(i)', Settled[i].name \in DOMAIN parts
        PROVE  Settled[i].name \in DOMAIN parts'
    <3>1. CASE Settled[i].name = name
      <4>1. i = id
        BY <1>1, <2>1, <2>2, <3>1 DEF FileInv, NamesAreHeld
      <4>2. ~GivenUp(w)'
        BY <2>2, <4>1 DEF Holds, Moves
      <4>3. QED
        BY <2>2, <3>1, <4>2
    <3>2. CASE Settled[i].name # name
      <4>1. Settled[i].name \in FileName
        BY <2>2, FilesTyped
      <4>2. QED
        BY <2>2, <3>2, <4>1 DEF SameElsewhere
    <3>3. QED
      BY <3>1, <3>2
  <2>3. ASSUME NEW c \in Thread, callers[c].pc = "reserve"
        PROVE  callers[c].name \notin DOMAIN parts'
    <3>1. callers[c].name # name
      BY <1>1, <2>3, ReservedIsFree DEF FileInv
    <3>2. callers[c].name \notin DOMAIN parts
      BY <2>3 DEF FileInv, NamesAreHeld
    <3>3. QED
      BY <3>1, <3>2 DEF SameElsewhere
  <2>4. QED
    BY <2>1, <2>2, <2>3, NamesKept DEF FileInv
<1>4. CountsAreOnDisk'
  BY CountsKept
<1>5. Bounded'
  <2>1. \A n \in DOMAIN parts' : Len(parts'[n]) <= Size
    BY DEF SameElsewhere, FileInv, Bounded
  <2>2. \A n \in DOMAIN dests' : Len(dests'[n]) <= Size
    BY DEF SameElsewhere, FileInv, Bounded
  <2>3. QED
    BY <2>1, <2>2, BoundedMoves
<1>6. QED
  BY <1>3, <1>4, <1>5 DEF FileInv

\* The launch pass marks what a dead process has left active.
Marks(c) ==
  /\ Settled = rows /\ Tables(rows, queue) = {Settled} /\ ~launched
  /\ DOMAIN workers = {} /\ \A d \in Thread : callers[d] = Idle({})
  /\ DOMAIN workers' = {} /\ \A d \in Thread : callers'[d].pc \notin {"part", "reserve", "spawn"}
  /\ DOMAIN Settled' = DOMAIN Settled
  /\ \A i \in DOMAIN Settled :
       /\ Settled'[i].name = Settled[i].name
       /\ Settled'[i].received = Settled[i].received /\ Settled'[i].etag = Settled[i].etag
       /\ Settled'[i].state =
            IF Settled[i].state = "active" THEN "interrupted" ELSE Settled[i].state
  /\ Tables(rows', queue') = {Settled, Settled'}
  /\ \A op \in Ops(queue') : op.op # "progress"
  /\ parts' = parts /\ dests' = dests /\ slipped' = slipped /\ rows' = rows

LEMMA MarksRows ==
  ASSUME Inv, NEW c \in Thread, ResumeInterrupted(c)
  PROVE  Marks(c)
<1> DEFINE call == [pc |-> "flush", then |-> "list", id |-> None, todo |-> {}]
           mid == Applied(Settled, MarkStale)
<1>1. /\ ~launched /\ queue = <<>> /\ workers = <<>> /\ \A d \in Thread : callers[d] = Idle({})
  BY DEF ResumeInterrupted, Inv, NothingBeforeLaunch
<1>2. /\ Submit(<<MarkStale, Flush(c)>>) /\ callers' = [callers EXCEPT ![c] = call]
      /\ rows' = rows /\ workers' = workers /\ parts' = parts /\ dests' = dests
      /\ slipped' = slipped
  BY DEF ResumeInterrupted, files
<1>3. DOMAIN workers = {}
  BY <1>1, SMT
<1>4. Types /\ TableT(Settled)
  BY SettledTyped DEF Inv
<1>5. /\ MarkStale \in OpT /\ MarkStale.op = "mark" /\ Flush(c) \in OpT /\ Flush(c).op = "flush"
  BY SMT DEF MarkStale, Flush, OpT
<1>6. Tables(rows, queue) = {rows} /\ Settled = rows /\ Ops(queue) = {}
  BY <1>1, NothingQueued, SettledIsFinal
<1>7. /\ Settled' = Applied(mid, Flush(c))
      /\ Tables(rows', queue') = Tables(rows, queue) \cup {mid, Settled'}
      /\ Ops(queue') = Ops(queue) \cup {MarkStale, Flush(c)}
  BY <1>2, <1>4, <1>5, SubmitTwo
<1>8. /\ DOMAIN mid = DOMAIN Settled
      /\ \A i \in DOMAIN Settled :
           /\ mid[i].name = Settled[i].name
           /\ mid[i].received = Settled[i].received /\ mid[i].etag = Settled[i].etag
           /\ mid[i].state = IF Settled[i].state = "active" THEN "interrupted" ELSE Settled[i].state
  BY <1>4, MarkRow
<1>9. Applied(mid, Flush(c)) = mid
  BY FlushRow
<1> HIDE DEF mid
<1>10. call.pc \notin {"part", "reserve", "spawn"}
  OBVIOUS
<1> HIDE DEF call
<1>11. \A d \in Thread : callers'[d].pc \notin {"part", "reserve", "spawn"}
  <2>1. callers'[c] = call /\ \A d \in Thread \ {c} : callers'[d] = callers[d]
    BY <1>2 DEF Inv, Types
  <2>2. QED
    BY <1>1, <1>10, <2>1 DEF Idle
<1>12. \A op \in Ops(queue') : op.op # "progress"
  BY <1>5, <1>6, <1>7
<1>13. Settled' = mid /\ Tables(rows', queue') = {Settled, Settled'}
  BY <1>6, <1>7, <1>9
<1>14. QED
  BY <1>1, <1>2, <1>3, <1>6, <1>8, <1>11, <1>12, <1>13 DEF Marks

LEMMA ResumeInterruptedFiles ==
  ASSUME Inv, FileInv, NEW c \in Thread, ResumeInterrupted(c)
  PROVE  FileInv'
<1>1. Marks(c)
  BY MarksRows
<1>2. /\ DOMAIN workers = {} /\ DOMAIN workers' = {} /\ parts' = parts /\ dests' = dests
      /\ \A d \in Thread : callers'[d].pc \notin {"reserve", "spawn"}
  BY <1>1 DEF Marks
<1>3. NamesAreHeld'
  <2>1. \A i \in DownloadId : Holds(i)' => Holds(i) /\ Settled'[i].name = Settled[i].name
    BY <1>1 DEF Marks, Holds, Over
  <2>2. QED
    BY <1>2, <2>1, NamesKept DEF FileInv
<1>4. CountsAreOnDisk'
  BY <1>2 DEF CountsAreOnDisk
<1>5. BoundedChannel'
  <2> DEFINE new == {Settled'}
  <2>1. \A i \in DOMAIN Settled' : Settled'[i].received <= Size
    BY <1>1, SettledBounded DEF Marks
  <2>2. /\ Tables(rows', queue') \subseteq Tables(rows, queue) \cup new
        /\ \A t \in new : \A i \in DOMAIN t : t[i].received <= Size
        /\ \A op \in Ops(queue') : op.op = "progress" => op \in Ops(queue) \/ op.received <= Size
    BY <1>1, <2>1 DEF Marks
  <2> HIDE DEF new
  <2>3. QED
    BY <2>2, ChannelBounded
<1>6. Bounded'
  BY <1>2 DEF FileInv, Bounded
<1>7. QED
  BY <1>3, <1>4, <1>5, <1>6 DEF FileInv

\* A new process finds the files and the rows, and nobody at work.
Rests ==
  /\ queue' = <<>> /\ DOMAIN workers' = {} /\ \A c \in Thread : callers'[c] = Idle({})
  /\ rows' = rows /\ parts' = parts /\ dests' = dests /\ "crash" \in Faults
  /\ Settled' = rows /\ Tables(rows', queue') = {rows} /\ Ops(queue') = {}
  /\ TableT(rows) /\ rows \in Tables(rows, queue) /\ server' = server /\ ~launched'

LEMMA RestartRests ==
  ASSUME Inv, Restart
  PROVE  Rests
<1>1. /\ queue' = <<>> /\ workers' = <<>> /\ \A c \in Thread : callers'[c] = Idle({})
      /\ rows' = rows /\ parts' = parts /\ dests' = dests /\ "crash" \in Faults
      /\ server' = server /\ ~launched'
  BY DEF Restart, files
<1>2. DOMAIN workers' = {}
  BY <1>1, SMT
<1>3. Tables(rows', queue') = {rows} /\ Ops(queue') = {} /\ Settled' = rows
  <2>1. Settled' = Final(rows', queue')
    BY DEF Settled, Final
  <2>2. QED
    BY <1>1, <2>1, NothingQueued
<1>4. QED
  BY <1>1, <1>2, <1>3, SettledTyped DEF Rests, Inv

LEMMA RestartFiles ==
  ASSUME Inv, FileInv, NoSharedNames, Restart
  PROVE  FileInv'
<1>1. Rests
  BY RestartRests
<1>2. NamesAreHeld'
  BY <1>1 DEF Rests, NoSharedNames, FilesAreSafe, NamesAreHeld, Idle
<1>3. CountsAreOnDisk'
  BY <1>1 DEF Rests, CountsAreOnDisk, Idle
<1>4. BoundedChannel'
  BY <1>1 DEF Rests, FileInv, BoundedChannel
<1>5. Bounded'
  BY <1>1 DEF Rests, FileInv, Bounded, Idle
<1>6. QED
  BY <1>2, <1>3, <1>4, <1>5 DEF FileInv

(***************************************************************************)
(* What each step of a worker does                                         *)
(***************************************************************************)

\* The transfer advances, and the channel stays.
Advances(w, pc, outcome) ==
  /\ Moves(w) /\ SameTransfer(w) /\ workers'[w].pc = pc /\ workers'[w].outcome = outcome
  /\ rows' = rows /\ queue' = queue /\ callers' = callers
  /\ server' = server /\ launched' = launched

LEMMA EndAdvances ==
  ASSUME Inv, NEW w \in DOMAIN workers, NEW outcome \in Outcome, workers' = Ended(w, outcome),
         UNCHANGED <<rows, queue, callers, server, launched>>
  PROVE  Advances(w, IF outcome = "completed" THEN "rename" ELSE "settle", outcome)
BY EndedJob DEF Inv, Advances

LEMMA MoveAdvances ==
  ASSUME Inv, NEW w \in DOMAIN workers, NEW pc \in {"check", "read", "settle", "leave"},
         workers' = [workers EXCEPT ![w].pc = pc],
         UNCHANGED <<rows, queue, callers, server, launched>>
  PROVE  Advances(w, pc, workers[w].outcome)
BY MovedJob DEF Inv, Advances

\* The headers come in.
HasHeaders(w, got, received) ==
  LET id == workers[w].id
      etag == Validator[server]
  IN /\ Moves(w) /\ SameDownload(w) /\ workers'[w].pc = "open" /\ workers'[w].version = server
     /\ workers'[w].got = got /\ workers'[w].received = received
     /\ callers' = callers /\ parts' = parts /\ dests' = dests
     /\ server' = server /\ launched' = launched /\ rows' = rows
     /\ DOMAIN Settled' = DOMAIN Settled /\ OthersKept(Settled, Settled', id)
     /\ Settled'[id].name = Settled[id].name /\ Settled'[id].state = Settled[id].state
     /\ Settled'[id].received = received
     /\ Settled'[id].etag = IF etag = None THEN Settled[id].etag ELSE etag
     /\ Tables(rows', queue') = Tables(rows, queue) \cup {Settled'}
     /\ Ops(queue') = Ops(queue) \cup {Progress(id, received, etag)}

LEMMA SendCases ==
  ASSUME Inv, NEW w \in DOMAIN workers, SendRequest(w)
  PROVE  /\ workers[w].pc = "send"
         /\ \/ Advances(w, "settle", "interrupted") /\ parts' = parts /\ dests' = dests
            \/ /\ HasHeaders(w, workers[w].from, workers[w].received)
               /\ ServerAgrees(w) /\ workers[w].from < Size
            \/ HasHeaders(w, 0, IF WantsResume(w) THEN 0 ELSE workers[w].received)
<1>1. /\ workers[w].pc = "send" /\ rows' = rows /\ callers' = callers
      /\ parts' = parts /\ dests' = dests /\ server' = server /\ launched' = launched
  BY DEF SendRequest, files
<1>2. CASE RequestFails(w)
  <2>1. Advances(w, "settle", "interrupted")
    BY <1>1, <1>2, EndAdvances DEF RequestFails, Outcome
  <2>2. QED
    BY <1>1, <2>1
<1>3. ASSUME NEW got \in Nat, NEW received \in Nat, Headers(w, got, received)
      PROVE  HasHeaders(w, got, received)
  <2>1. /\ Moves(w) /\ SameDownload(w) /\ workers'[w].pc = "open" /\ workers'[w].version = server
        /\ workers'[w].got = got /\ workers'[w].received = received
    BY <1>3, HeadersJob DEF Headers, Inv
  <2>2. /\ DOMAIN Settled' = DOMAIN Settled
        /\ OthersKept(Settled, Settled', workers[w].id)
        /\ Settled'[workers[w].id].name = Settled[workers[w].id].name
        /\ Settled'[workers[w].id].state = Settled[workers[w].id].state
        /\ Settled'[workers[w].id].received = received
        /\ Settled'[workers[w].id].etag =
             IF Validator[server] = None THEN Settled[workers[w].id].etag ELSE Validator[server]
        /\ Tables(rows', queue') = Tables(rows, queue) \cup {Settled'}
        /\ Ops(queue') = Ops(queue) \cup {Progress(workers[w].id, received, Validator[server])}
    BY <1>1, <1>3, EtagOfServer, ProgressWorker DEF Headers
  <2>3. QED
    BY <1>1, <2>1, <2>2 DEF HasHeaders
<1>4. CASE Continues(w)
  <2>1. HasHeaders(w, workers[w].from, workers[w].received)
    BY <1>3, <1>4, JobFields DEF Continues
  <2>2. QED
    BY <1>1, <1>4, <2>1 DEF Continues
<1>5. CASE Restarts(w)
  <2>1. HasHeaders(w, 0, IF WantsResume(w) THEN 0 ELSE workers[w].received)
    BY <1>3, <1>5, JobFields DEF Restarts
  <2>2. QED
    BY <1>1, <2>1
<1>6. QED
  BY <1>2, <1>4, <1>5 DEF SendRequest

LEMMA OpenCases ==
  ASSUME Inv, NEW w \in DOMAIN workers, OpenPart(w)
  PROVE  /\ workers[w].pc = "open" /\ dests' = dests
         /\ \/ /\ Advances(w, "check", workers[w].outcome)
               /\ \/ workers[w].got = 0 /\ parts' = Put(parts, workers[w].name, <<>>)
                  \/ workers[w].got > 0 /\ workers[w].name \in DOMAIN parts /\ parts' = parts
            \/ /\ Advances(w, "settle", "interrupted") /\ parts' = parts
               /\ "disk" \in Faults \/ (workers[w].got > 0 /\ workers[w].name \notin DOMAIN parts)
<1>1. /\ workers[w].pc = "open" /\ rows' = rows /\ queue' = queue /\ callers' = callers
      /\ dests' = dests /\ server' = server /\ launched' = launched
  BY DEF OpenPart
<1>2. CASE /\ workers[w].got > 0 => workers[w].name \in DOMAIN parts
           /\ parts' = IF workers[w].got > 0 THEN parts ELSE Put(parts, workers[w].name, <<>>)
           /\ workers' = [workers EXCEPT ![w].pc = "check"]
  <2>1. Advances(w, "check", workers[w].outcome)
    BY <1>1, <1>2, MoveAdvances
  <2>2. workers[w].got = 0 \/ workers[w].got > 0
    BY JobFields, SMT
  <2>3. workers[w].got = 0 => ~(workers[w].got > 0)
    BY SMT
  <2>4. QED
    BY <1>1, <1>2, <2>1, <2>2, <2>3
<1>3. CASE /\ "disk" \in Faults \/ (workers[w].got > 0 /\ workers[w].name \notin DOMAIN parts)
           /\ workers' = Ended(w, "interrupted") /\ parts' = parts
  <2>1. Advances(w, "settle", "interrupted")
    BY <1>1, <1>3, EndAdvances DEF Outcome
  <2>2. QED
    BY <1>1, <1>3, <2>1
<1>4. QED
  BY <1>2, <1>3 DEF OpenPart

LEMMA CheckCases ==
  ASSUME Inv, NEW w \in DOMAIN workers, CheckControl(w)
  PROVE  /\ workers[w].pc = "check" /\ dests' = dests
         /\ \/ Advances(w, "read", workers[w].outcome) /\ parts' = parts
            \/ Advances(w, "settle", "paused") /\ parts' = parts
            \/ Advances(w, "settle", "cancelled") /\ parts' = Drop(parts, {workers[w].name})
<1>1. /\ workers[w].pc = "check" /\ rows' = rows /\ queue' = queue /\ callers' = callers
      /\ dests' = dests /\ server' = server /\ launched' = launched
  BY DEF CheckControl
<1>2. ASSUME workers' = [workers EXCEPT ![w].pc = "read"]
      PROVE  Advances(w, "read", workers[w].outcome)
  BY <1>1, <1>2, MoveAdvances
<1>3. ASSUME workers' = Ended(w, "paused")
      PROVE  Advances(w, "settle", "paused")
  BY <1>1, <1>3, EndAdvances DEF Outcome
<1>4. ASSUME workers' = Ended(w, "cancelled")
      PROVE  Advances(w, "settle", "cancelled")
  BY <1>1, <1>4, EndAdvances DEF Outcome
<1>5. QED
  BY <1>1, <1>2, <1>3, <1>4 DEF CheckControl

\* A chunk comes in; sometimes it is reported.
HasChunk(w) ==
  LET id == workers[w].id
      name == workers[w].name
      got == workers[w].got + 1
  IN /\ Moves(w) /\ SameDownload(w) /\ workers'[w].pc = "check"
     /\ workers'[w].version = workers[w].version
     /\ workers'[w].got = got /\ workers'[w].received = got /\ got <= Size
     /\ callers' = callers /\ dests' = dests /\ server' = server /\ launched' = launched
     /\ rows' = rows
     /\ parts' = (IF name \in DOMAIN parts
                  THEN [parts EXCEPT ![name] = Append(@, <<workers[w].version, got>>)]
                  ELSE parts)
     /\ DOMAIN Settled' = DOMAIN Settled /\ OthersKept(Settled, Settled', id)
     /\ Settled'[id].name = Settled[id].name /\ Settled'[id].state = Settled[id].state
     /\ Settled'[id].etag = Settled[id].etag /\ Settled'[id].received \in {Settled[id].received, got}
     /\ Tables(rows', queue') = Tables(rows, queue) \cup {Settled'}
     /\ \A op \in Ops(queue') : op \in Ops(queue) \/ op = Progress(id, got, None)

LEMMA ChunkCases ==
  ASSUME Inv, NEW w \in DOMAIN workers, ReadChunk(w)
  PROVE  workers[w].pc = "read" /\ HasChunk(w)
<1> DEFINE name == workers[w].name
           got == workers[w].got + 1
           chunk == <<workers[w].version, got>>
<1>1. /\ workers[w].pc = "read" /\ rows' = rows
      /\ callers' = callers /\ dests' = dests /\ server' = server /\ launched' = launched
      /\ got <= Size
      /\ parts' = (IF name \in DOMAIN parts THEN [parts EXCEPT ![name] = Append(@, chunk)]
                   ELSE parts)
      /\ workers' = [workers EXCEPT ![w].pc = "check", ![w].got = got, ![w].received = got]
      /\ Submit(<<>>) \/ Submit(<<Progress(workers[w].id, got, None)>>)
  BY DEF ReadChunk
<1>2. got \in Nat
  BY JobFields, SMT
<1> HIDE DEF got
<1>3. /\ Moves(w) /\ SameDownload(w) /\ workers'[w].pc = "check"
      /\ workers'[w].version = workers[w].version
      /\ workers'[w].got = got /\ workers'[w].received = got
  BY <1>1, <1>2, ChunkJob DEF Inv
<1> PICK id : id = workers[w].id
  OBVIOUS
<1>4. /\ DOMAIN Settled' = DOMAIN Settled /\ OthersKept(Settled, Settled', id)
      /\ Settled'[id].name = Settled[id].name /\ Settled'[id].state = Settled[id].state
      /\ Settled'[id].etag = Settled[id].etag /\ Settled'[id].received \in {Settled[id].received, got}
      /\ Tables(rows', queue') = Tables(rows, queue) \cup {Settled'}
      /\ \A op \in Ops(queue') : op \in Ops(queue) \/ op = Progress(id, got, None)
  <2>1. CASE Submit(<<>>)
    <3>1. queue' = queue
      BY <2>1, ConcatEmptySeq DEF Submit, Inv, Types
    <3>2. /\ Settled' = Settled /\ Tables(rows', queue') = Tables(rows, queue)
          /\ Ops(queue') = Ops(queue)
      BY <1>1, <3>1, SameChannel
    <3>3. Settled \in Tables(rows, queue)
      BY SettledTyped DEF Inv
    <3>4. QED
      BY <3>2, <3>3 DEF OthersKept
  <2>2. CASE Submit(<<Progress(workers[w].id, got, None)>>)
    <3>1. None \in Etag
      BY DEF Etag
    <3>2. /\ DOMAIN Settled' = DOMAIN Settled
          /\ OthersKept(Settled, Settled', workers[w].id)
          /\ Settled'[workers[w].id].name = Settled[workers[w].id].name
          /\ Settled'[workers[w].id].state = Settled[workers[w].id].state
          /\ Settled'[workers[w].id].received = got
          /\ Settled'[workers[w].id].etag =
               IF None = None THEN Settled[workers[w].id].etag ELSE None
          /\ Tables(rows', queue') = Tables(rows, queue) \cup {Settled'}
          /\ Ops(queue') = Ops(queue) \cup {Progress(workers[w].id, got, None)}
      BY <1>1, <1>2, <2>2, <3>1, ProgressWorker
    <3>3. QED
      BY <3>2
  <2>3. QED
    BY <1>1, <2>1, <2>2
<1>5. QED
  BY <1>1, <1>3, <1>4 DEF HasChunk, got

LEMMA EndCases ==
  ASSUME Inv, FileInv, NEW w \in DOMAIN workers, ReadEnd(w)
  PROVE  /\ workers[w].pc = "read" /\ parts' = parts /\ dests' = dests
         /\ \/ Advances(w, "settle", "interrupted")
            \/ /\ Advances(w, "rename", "completed")
               /\ workers[w].version \in Announced => workers[w].got = Size
<1>1. /\ workers[w].pc = "read" /\ rows' = rows /\ queue' = queue /\ callers' = callers
      /\ parts' = parts /\ dests' = dests /\ server' = server /\ launched' = launched
  BY DEF ReadEnd, files
<1>2. CASE workers' = Ended(w, "interrupted")
  BY <1>1, <1>2, EndAdvances DEF Outcome
<1>3. CASE /\ workers' = Ended(w, "completed")
           /\ ~(workers[w].got < Size /\ workers[w].version \in Announced)
  <2>1. workers[w].version \in Announced => workers[w].got = Size
    BY <1>3, JobFields, SizeIsPos, SMT DEF FileInv, Bounded
  <2>2. Advances(w, "rename", "completed")
    BY <1>1, <1>3, EndAdvances DEF Outcome
  <2>3. QED
    BY <1>1, <2>1, <2>2
<1>4. QED
  BY <1>2, <1>3 DEF ReadEnd, EndOfBody

LEMMA RenameCases ==
  ASSUME Inv, NEW w \in DOMAIN workers, Rename(w)
  PROVE  /\ workers[w].pc = "rename" /\ Advances(w, "settle", "completed")
         /\ \/ /\ workers[w].name \in DOMAIN parts
               /\ dests' = Put(dests, workers[w].name, parts[workers[w].name])
               /\ parts' = Drop(parts, {workers[w].name})
               /\ slipped' = slipped \cup Overtaken(workers[w].name)
            \/ /\ workers[w].name \notin DOMAIN parts \/ "disk" \in Faults
               /\ parts' = parts /\ dests' = dests /\ slipped' = slipped
<1>1. /\ workers[w].pc = "rename" /\ rows' = rows /\ queue' = queue /\ callers' = callers
      /\ server' = server /\ launched' = launched
      /\ workers' = [workers EXCEPT ![w].pc = "settle"]
  BY DEF Rename
<1>2. workers[w].outcome = "completed"
  BY <1>1 DEF Inv, RowOfWorker
<1>3. Advances(w, "settle", "completed")
  BY <1>1, <1>2, MoveAdvances
<1>4. QED
  BY <1>1, <1>3 DEF Rename, files

(***************************************************************************)
(* Names and files: the steps of a worker                                  *)
(***************************************************************************)

LEMMA FilesElsewhere ==
  ASSUME parts' = parts, dests' = dests
  PROVE  \A n : SameElsewhere(n)
BY DEF SameElsewhere

LEMMA AdvancesFiles ==
  ASSUME Inv, FileInv, NoSharedNames, NEW w \in DOMAIN workers,
         workers[w].pc \notin {"settle", "leave"}, NEW pc, NEW outcome, Advances(w, pc, outcome),
         SameElsewhere(workers[w].name), JobOnDisk(workers[w])',
         workers[w].name \in DOMAIN parts' => Len(parts'[workers[w].name]) <= Size,
         workers[w].name \in DOMAIN dests' => Len(dests'[workers[w].name]) <= Size,
         workers[w].name \in DOMAIN parts => GivenUp(w)' \/ workers[w].name \in DOMAIN parts',
         DOMAIN parts' \subseteq FileName, DOMAIN dests' \subseteq FileName
  PROVE  FileInv'
<1>1. /\ Moves(w) /\ SameTransfer(w) /\ callers' = callers /\ rows' = rows /\ queue' = queue
  BY DEF Advances
<1>2. Settled' = Settled /\ SameChannelOrLess
  BY <1>1, SameChannel, ChannelKept
<1>3. OthersKept(Settled, Settled', workers[w].id)
  BY <1>2 DEF OthersKept
<1>4. BoundedChannel'
  BY <1>2 DEF SameChannelOrLess, FileInv, BoundedChannel
<1>5. /\ workers'[w].id = workers[w].id /\ workers'[w].from <= Size
      /\ workers'[w].got <= Size /\ workers'[w].received <= Size
  BY <1>1 DEF SameTransfer, SameDownload, FileInv, Bounded
<1>6. QED
  BY <1>1, <1>2, <1>3, <1>4, <1>5, WorkerFiles

LEMMA StaysFiles ==
  ASSUME Inv, FileInv, NoSharedNames, NEW w \in DOMAIN workers,
         workers[w].pc \notin {"settle", "leave"}, NEW pc, NEW outcome, Advances(w, pc, outcome),
         parts' = parts, dests' = dests, JobOnDisk(workers[w])'
  PROVE  FileInv'
<1>1. SameElsewhere(workers[w].name)
  BY FilesElsewhere
<1>2. /\ workers[w].name \in DOMAIN parts' => Len(parts'[workers[w].name]) <= Size
      /\ workers[w].name \in DOMAIN dests' => Len(dests'[workers[w].name]) <= Size
  BY DEF FileInv, Bounded
<1>3. QED
  BY <1>1, <1>2, FilesTyped, AdvancesFiles

\* A transfer that is over counts nothing any more.
LEMMA OverCounts ==
  ASSUME NEW w, workers'[w].pc = "settle"
  PROVE  JobOnDisk(workers[w])'
BY DEF JobOnDisk

LEMMA SendRequestFiles ==
  ASSUME Inv, FileInv, NoSharedNames, NEW w \in DOMAIN workers, SendRequest(w)
  PROVE  FileInv'
<1>1. workers[w].pc = "send"
  BY SendCases
<1>2. CASE Advances(w, "settle", "interrupted") /\ parts' = parts /\ dests' = dests
  <2>1. JobOnDisk(workers[w])'
    BY <1>2, OverCounts DEF Advances
  <2>2. QED
    BY <1>1, <1>2, <2>1, StaysFiles
<1>3. ASSUME NEW got, NEW received, HasHeaders(w, got, received),
             got = 0 \/ got = workers[w].from, received = 0 \/ received = workers[w].received
      PROVE  FileInv'
  <2>1. /\ Moves(w) /\ SameDownload(w) /\ workers'[w].pc = "open"
        /\ workers'[w].got = got /\ workers'[w].received = received
        /\ callers' = callers /\ parts' = parts /\ dests' = dests
        /\ DOMAIN Settled' = DOMAIN Settled /\ OthersKept(Settled, Settled', workers[w].id)
        /\ Settled'[workers[w].id].name = Settled[workers[w].id].name
        /\ Settled'[workers[w].id].state = Settled[workers[w].id].state
        /\ Settled'[workers[w].id].received = received
        /\ Tables(rows', queue') = Tables(rows, queue) \cup {Settled'}
        /\ Ops(queue') = Ops(queue) \cup {Progress(workers[w].id, received, Validator[server])}
    BY <1>3 DEF HasHeaders
  <2>2. workers'[w].id = workers[w].id /\ workers'[w].name = workers[w].name
        /\ workers'[w].from = workers[w].from
    BY <2>1 DEF SameDownload
  <2>3. got <= Size /\ received <= Size /\ workers[w].from <= Size
    BY <1>3, SizeIsPos, SMT DEF FileInv, Bounded
  <2>4. JobOnDisk(workers[w])'
    <3>1. workers[w].from = OnDisk(workers[w].name)
      BY <1>1 DEF FileInv, CountsAreOnDisk, JobOnDisk
    <3>2. OnDisk(workers[w].name)' = OnDisk(workers[w].name)
      BY <2>1, <2>2 DEF OnDisk
    <3>3. workers'[w].pc = "open" /\ (workers'[w].got = 0 \/ workers'[w].got = OnDisk(workers[w].name)')
      BY <1>3, <2>1, <3>1, <3>2
    <3>4. QED
      BY <3>3 DEF JobOnDisk
  <2>5. BoundedChannel'
    <3> DEFINE new == {Settled'}
    <3>1. \A i \in DOMAIN Settled' : Settled'[i].received <= Size
      BY <2>1, <2>3, SettledBounded DEF OthersKept
    <3>2. Progress(workers[w].id, received, Validator[server]).received = received
      BY DEF Progress
    <3>3. /\ Tables(rows', queue') \subseteq Tables(rows, queue) \cup new
          /\ \A t \in new : \A i \in DOMAIN t : t[i].received <= Size
          /\ \A op \in Ops(queue') : op.op = "progress" => op \in Ops(queue) \/ op.received <= Size
      BY <2>1, <2>3, <3>1, <3>2
    <3> HIDE DEF new
    <3>4. QED
      BY <3>3, ChannelBounded
  <2>6. SameElsewhere(workers[w].name)
    BY <2>1, FilesElsewhere
  <2>7. /\ workers[w].name \in DOMAIN parts' => Len(parts'[workers[w].name]) <= Size
        /\ workers[w].name \in DOMAIN dests' => Len(dests'[workers[w].name]) <= Size
    BY <2>1 DEF FileInv, Bounded
  <2>8. QED
    BY <1>1, <2>1, <2>2, <2>3, <2>4, <2>5, <2>6, <2>7, FilesTyped, WorkerFiles
<1>4. CASE HasHeaders(w, workers[w].from, workers[w].received)
  BY <1>3, <1>4
<1>5. CASE HasHeaders(w, 0, IF WantsResume(w) THEN 0 ELSE workers[w].received)
  BY <1>3, <1>5
<1>6. QED
  BY <1>2, <1>4, <1>5, SendCases

LEMMA OpenPartFiles ==
  ASSUME Inv, FileInv, NoSharedNames, NEW w \in DOMAIN workers, OpenPart(w)
  PROVE  FileInv'
<1> PICK name : name = workers[w].name
  OBVIOUS
<1>1. workers[w].pc = "open" /\ dests' = dests /\ name \in FileName
  BY OpenCases, JobFields
<1>2. CASE Advances(w, "check", workers[w].outcome)
  <2>1. /\ workers'[w].pc = "check" /\ workers'[w].name = name /\ workers'[w].got = workers[w].got
    BY <1>2 DEF Advances, SameTransfer, SameDownload
  <2>2. CASE workers[w].got = 0 /\ parts' = Put(parts, name, <<>>)
    <3>1. /\ DOMAIN parts' = DOMAIN parts \cup {name} /\ parts'[name] = <<>>
          /\ \A n \in DOMAIN parts \ {name} : parts'[n] = parts[n]
      BY <2>2 DEF Put
    <3>2. Len(parts'[name]) = 0
      BY <3>1, EmptySeq
    <3>3. JobOnDisk(workers[w])'
      BY <2>1, <2>2, <3>1, <3>2 DEF JobOnDisk
    <3>4. SameElsewhere(name)
      BY <1>1, <3>1 DEF SameElsewhere
    <3>5. Len(parts'[name]) <= Size /\ (name \in DOMAIN dests' => Len(dests'[name]) <= Size)
      BY <1>1, <3>2, SizeIsPos, SMT DEF FileInv, Bounded
    <3>6. DOMAIN parts' \subseteq FileName /\ DOMAIN dests' \subseteq FileName
      BY <1>1, <3>1, FilesTyped
    <3>7. QED
      BY <1>1, <1>2, <3>1, <3>3, <3>4, <3>5, <3>6, AdvancesFiles
  <2>3. CASE workers[w].got > 0 /\ name \in DOMAIN parts /\ parts' = parts
    <3>1. Len(parts[name]) = workers[w].got
      <4>1. JobOnDisk(workers[w])
        BY DEF FileInv, CountsAreOnDisk
      <4>2. workers[w].got # 0
        BY <2>3, SMT
      <4>3. QED
        BY <1>1, <2>3, <4>1, <4>2 DEF JobOnDisk, OnDisk
    <3>2. JobOnDisk(workers[w])'
      BY <2>1, <2>3, <3>1 DEF JobOnDisk
    <3>3. QED
      BY <1>1, <1>2, <2>3, <3>2, StaysFiles
  <2>4. ~Advances(w, "settle", "interrupted")
    BY <2>1 DEF Advances
  <2>5. QED
    BY <2>2, <2>3, <2>4, OpenCases
<1>3. CASE Advances(w, "settle", "interrupted") /\ parts' = parts
  <2>1. JobOnDisk(workers[w])'
    BY <1>3, OverCounts DEF Advances
  <2>2. QED
    BY <1>1, <1>3, <2>1, StaysFiles
<1>4. QED
  BY <1>2, <1>3, OpenCases

LEMMA CheckControlFiles ==
  ASSUME Inv, FileInv, NoSharedNames, NEW w \in DOMAIN workers, CheckControl(w)
  PROVE  FileInv'
<1> PICK name : name = workers[w].name
  OBVIOUS
<1>1. workers[w].pc = "check" /\ dests' = dests /\ name \in FileName
  BY CheckCases, JobFields
<1>2. CASE Advances(w, "read", workers[w].outcome) /\ parts' = parts
  <2>1. workers'[w].pc = "read" /\ workers'[w].name = name /\ workers'[w].got = workers[w].got
    BY <1>2 DEF Advances, SameTransfer, SameDownload
  <2>2. name \in DOMAIN parts /\ Len(parts[name]) = workers[w].got
    BY <1>1 DEF FileInv, CountsAreOnDisk, JobOnDisk
  <2>3. JobOnDisk(workers[w])'
    BY <1>2, <2>1, <2>2 DEF JobOnDisk
  <2>4. QED
    BY <1>1, <1>2, <2>3, StaysFiles
<1>3. CASE Advances(w, "settle", "paused") /\ parts' = parts
  <2>1. JobOnDisk(workers[w])'
    BY <1>3, OverCounts DEF Advances
  <2>2. QED
    BY <1>1, <1>3, <2>1, StaysFiles
<1>4. CASE Advances(w, "settle", "cancelled") /\ parts' = Drop(parts, {name})
  <2>1. JobOnDisk(workers[w])' /\ GivenUp(w)'
    BY <1>4, OverCounts DEF Advances, GivenUp, Over
  <2>2. DOMAIN parts' = DOMAIN parts \ {name} /\ \A n \in DOMAIN parts' : parts'[n] = parts[n]
    BY <1>4 DEF Drop
  <2>3. SameElsewhere(name)
    BY <1>1, <2>2 DEF SameElsewhere
  <2>4. name \in DOMAIN dests' => Len(dests'[name]) <= Size
    BY <1>1 DEF FileInv, Bounded
  <2>5. DOMAIN parts' \subseteq FileName /\ DOMAIN dests' \subseteq FileName
    BY <1>1, <2>2, FilesTyped
  <2>6. QED
    BY <1>1, <1>4, <2>1, <2>2, <2>3, <2>4, <2>5, AdvancesFiles
<1>5. QED
  BY <1>2, <1>3, <1>4, CheckCases

LEMMA ReadChunkFiles ==
  ASSUME Inv, FileInv, NoSharedNames, NEW w \in DOMAIN workers, ReadChunk(w)
  PROVE  FileInv'
<1> PICK name : name = workers[w].name
  OBVIOUS
<1> PICK got : got = workers[w].got + 1
  OBVIOUS
<1> PICK chunk : chunk = <<workers[w].version, got>>
  OBVIOUS
<1>1. /\ workers[w].pc = "read" /\ Moves(w) /\ SameDownload(w) /\ workers'[w].pc = "check"
      /\ workers'[w].got = got /\ workers'[w].received = got /\ got <= Size
      /\ callers' = callers /\ dests' = dests
      /\ parts' = (IF name \in DOMAIN parts THEN [parts EXCEPT ![name] = Append(@, chunk)] ELSE parts)
      /\ DOMAIN Settled' = DOMAIN Settled /\ OthersKept(Settled, Settled', workers[w].id)
      /\ Settled'[workers[w].id].name = Settled[workers[w].id].name
      /\ Settled'[workers[w].id].state = Settled[workers[w].id].state
      /\ Settled'[workers[w].id].received \in {Settled[workers[w].id].received, got}
      /\ Tables(rows', queue') = Tables(rows, queue) \cup {Settled'}
      /\ \A op \in Ops(queue') : op \in Ops(queue) \/ op = Progress(workers[w].id, got, None)
  BY ChunkCases DEF HasChunk
<1>2. /\ workers'[w].id = workers[w].id /\ workers'[w].name = name
      /\ workers'[w].from = workers[w].from /\ workers[w].from <= Size
  BY <1>1 DEF SameDownload, FileInv, Bounded
<1>3. name \in DOMAIN parts /\ Len(parts[name]) = workers[w].got /\ name \in FileName
  BY <1>1, JobFields DEF FileInv, CountsAreOnDisk, JobOnDisk
<1>4. DOMAIN parts' = DOMAIN parts /\ parts'[name] = Append(parts[name], chunk)
      /\ \A n \in DOMAIN parts \ {name} : parts'[n] = parts[n]
  BY <1>1, <1>3
<1>5. Len(parts'[name]) = got
  <2>1. parts[name] \in ContentT
    BY <1>3, FilesTyped
  <2>2. Len(Append(parts[name], chunk)) = Len(parts[name]) + 1
    BY <2>1, SMT DEF ContentT
  <2>3. QED
    BY <1>3, <1>4, <2>2
<1>6. JobOnDisk(workers[w])'
  BY <1>1, <1>2, <1>3, <1>4, <1>5 DEF JobOnDisk
<1>7. BoundedChannel'
  <2> DEFINE new == {Settled'}
  <2>1. \A i \in DOMAIN Settled' : Settled'[i].received <= Size
    BY <1>1, SettledBounded DEF OthersKept
  <2>2. Progress(workers[w].id, got, None).received = got
    BY DEF Progress
  <2>3. /\ Tables(rows', queue') \subseteq Tables(rows, queue) \cup new
        /\ \A t \in new : \A i \in DOMAIN t : t[i].received <= Size
        /\ \A op \in Ops(queue') : op.op = "progress" => op \in Ops(queue) \/ op.received <= Size
    BY <1>1, <2>1, <2>2
  <2> HIDE DEF new
  <2>4. QED
    BY <2>3, ChannelBounded
<1>8. SameElsewhere(name)
  BY <1>1, <1>4 DEF SameElsewhere
<1>9. name \in DOMAIN dests' => Len(dests'[name]) <= Size
  BY <1>1 DEF FileInv, Bounded
<1>10. DOMAIN parts' \subseteq FileName /\ DOMAIN dests' \subseteq FileName
  BY <1>1, <1>4, FilesTyped
<1>11. QED
  BY <1>1, <1>2, <1>3, <1>4, <1>5, <1>6, <1>7, <1>8, <1>9, <1>10, WorkerFiles

LEMMA ReadEndFiles ==
  ASSUME Inv, FileInv, NoSharedNames, NEW w \in DOMAIN workers, ReadEnd(w)
  PROVE  FileInv'
<1>1. workers[w].pc = "read" /\ parts' = parts /\ dests' = dests
  BY EndCases
<1>2. CASE Advances(w, "settle", "interrupted")
  <2>1. JobOnDisk(workers[w])'
    BY <1>2, OverCounts DEF Advances
  <2>2. QED
    BY <1>1, <1>2, <2>1, StaysFiles
<1>3. CASE Advances(w, "rename", "completed")
  <2> PICK name : name = workers[w].name
    OBVIOUS
  <2>1. workers'[w].pc = "rename" /\ workers'[w].name = name /\ workers'[w].got = workers[w].got
    BY <1>3 DEF Advances, SameTransfer, SameDownload
  <2>2. name \in DOMAIN parts /\ Len(parts[name]) = workers[w].got
    BY <1>1 DEF FileInv, CountsAreOnDisk, JobOnDisk
  <2>3. JobOnDisk(workers[w])'
    BY <1>1, <2>1, <2>2 DEF JobOnDisk
  <2>4. QED
    BY <1>1, <1>3, <2>3, StaysFiles
<1>4. QED
  BY <1>2, <1>3, EndCases

LEMMA RenameFiles ==
  ASSUME Inv, FileInv, NoSharedNames, NEW w \in DOMAIN workers, Rename(w)
  PROVE  FileInv'
<1> PICK name : name = workers[w].name
  OBVIOUS
<1>1. workers[w].pc = "rename" /\ Advances(w, "settle", "completed") /\ name \in FileName
  BY RenameCases, JobFields
<1>2. JobOnDisk(workers[w])' /\ GivenUp(w)'
  BY <1>1, OverCounts DEF Advances, GivenUp, Over
<1>3. CASE parts' = parts /\ dests' = dests
  BY <1>1, <1>2, <1>3, StaysFiles
<1>4. CASE /\ name \in DOMAIN parts /\ dests' = Put(dests, name, parts[name])
           /\ parts' = Drop(parts, {name})
  <2>1. /\ DOMAIN parts' = DOMAIN parts \ {name} /\ \A n \in DOMAIN parts' : parts'[n] = parts[n]
        /\ DOMAIN dests' = DOMAIN dests \cup {name} /\ dests'[name] = parts[name]
        /\ \A n \in DOMAIN dests \ {name} : dests'[n] = dests[n]
    BY <1>4 DEF Drop, Put
  <2>2. SameElsewhere(name)
    BY <2>1 DEF SameElsewhere
  <2>3. Len(dests'[name]) <= Size
    BY <1>4, <2>1 DEF FileInv, Bounded
  <2>4. DOMAIN parts' \subseteq FileName /\ DOMAIN dests' \subseteq FileName
    BY <1>1, <2>1, FilesTyped
  <2>5. QED
    BY <1>1, <1>2, <2>1, <2>2, <2>3, <2>4, AdvancesFiles
<1>5. QED
  BY <1>3, <1>4, RenameCases

\* The last write of a transfer
Settles(w) ==
  LET id == workers[w].id
      received == workers[w].received
  IN /\ Moves(w) /\ SameTransfer(w) /\ workers[w].pc = "settle" /\ workers'[w].pc = "leave"
     /\ workers[w].outcome \in Outcome /\ workers'[w].outcome = workers[w].outcome
     /\ callers' = callers /\ parts' = parts /\ dests' = dests
     /\ server' = server /\ launched' = launched /\ rows' = rows
     /\ DOMAIN Settled' = DOMAIN Settled /\ OthersKept(Settled, Settled', id)
     /\ Settled'[id].name = Settled[id].name /\ Settled[id].state = "active"
     /\ Settled'[id].state = workers[w].outcome
     /\ Settled'[id].received = received /\ Settled'[id].etag = Settled[id].etag
     /\ \E mid : /\ Tables(rows', queue') = Tables(rows, queue) \cup {mid, Settled'}
                 /\ DOMAIN mid = DOMAIN Settled /\ OthersKept(Settled, mid, id)
                 /\ mid[id].name = Settled[id].name /\ mid[id].state = Settled[id].state
                 /\ mid[id].received = received
     /\ \A op \in Ops(queue') :
          op \in Ops(queue) \/ op = Progress(id, received, None) \/ op.op # "progress"

LEMMA SettleSettles ==
  ASSUME Inv, NEW w \in DOMAIN workers, Settle(w)
  PROVE  Settles(w)
<1> PICK id : id = workers[w].id
  OBVIOUS
<1> PICK mid : mid = Applied(Settled, Progress(workers[w].id, workers[w].received, None))
  OBVIOUS
<1>1. /\ workers[w].pc = "settle" /\ callers' = callers /\ parts' = parts /\ dests' = dests
      /\ server' = server /\ launched' = launched /\ rows' = rows
      /\ workers' = [workers EXCEPT ![w].pc = "leave"]
  BY DEF Settle, files
<1>2. workers[w].outcome \in Outcome /\ Settled[id].state = "active"
  BY <1>1 DEF Inv, RowOfWorker
<1>3. /\ Moves(w) /\ SameTransfer(w) /\ workers'[w].pc = "leave"
      /\ workers'[w].outcome = workers[w].outcome
  BY <1>1, MovedJob DEF Inv
<1>4. /\ DOMAIN Settled' = DOMAIN Settled /\ OthersKept(Settled, Settled', id)
      /\ Settled'[id].name = Settled[id].name /\ Settled'[id].state = workers[w].outcome
      /\ Settled'[id].received = workers[w].received /\ Settled'[id].etag = Settled[id].etag
      /\ Tables(rows', queue') = Tables(rows, queue) \cup {mid, Settled'}
      /\ DOMAIN mid = DOMAIN Settled /\ OthersKept(Settled, mid, id)
      /\ mid[id].name = Settled[id].name /\ mid[id].state = Settled[id].state
      /\ mid[id].received = workers[w].received
      /\ \A op \in Ops(queue') : \/ op \in Ops(queue)
                                 \/ op = Progress(id, workers[w].received, None)
                                 \/ op.op # "progress"
  BY SettleChannel
<1>5. QED
  BY <1>1, <1>2, <1>3, <1>4 DEF Settles

LEMMA SettleFiles ==
  ASSUME Inv, FileInv, NEW w \in DOMAIN workers, Settle(w)
  PROVE  FileInv'
<1> PICK id : id = workers[w].id
  OBVIOUS
<1>1. Settles(w)
  BY SettleSettles
<1> PICK mid : /\ Tables(rows', queue') = Tables(rows, queue) \cup {mid, Settled'}
               /\ DOMAIN mid = DOMAIN Settled /\ OthersKept(Settled, mid, id)
               /\ mid[id].received = workers[w].received
  BY <1>1 DEF Settles
<1>2. /\ Moves(w) /\ SameTransfer(w) /\ workers[w].pc = "settle" /\ workers'[w].pc = "leave"
      /\ workers'[w].outcome = workers[w].outcome
      /\ callers' = callers /\ parts' = parts /\ dests' = dests
      /\ DOMAIN Settled' = DOMAIN Settled /\ OthersKept(Settled, Settled', id)
      /\ Settled'[id].name = Settled[id].name /\ Settled[id].state = "active"
      /\ Settled'[id].state = workers[w].outcome /\ Settled'[id].received = workers[w].received
      /\ \A op \in Ops(queue') : \/ op \in Ops(queue)
                                 \/ op = Progress(id, workers[w].received, None)
                                 \/ op.op # "progress"
  BY <1>1 DEF Settles
<1>3. workers'[w].id = id /\ workers[w].received <= Size
  BY <1>2 DEF SameTransfer, SameDownload, FileInv, Bounded
<1>4. NamesAreHeld'
  <2>1. \A i \in DownloadId : Holds(i)' => Holds(i) /\ Settled'[i].name = Settled[i].name
    BY <1>2, <1>3, WorkerHolds DEF GivenUp, Over
  <2>2. QED
    BY <1>2, <2>1, NamesKept DEF FileInv, NamesAreHeld
<1>5. CountsAreOnDisk'
  <2>1. ASSUME NEW v \in DOMAIN workers, v # w
        PROVE  JobOnDisk(workers[v])'
    <3>1. workers'[v] = workers[v] /\ JobOnDisk(workers[v])
      BY <1>2, <2>1 DEF Moves, FileInv, CountsAreOnDisk
    <3>2. QED
      BY <1>2, <3>1 DEF JobOnDisk, OnDisk
  <2>2. JobOnDisk(workers[w])'
    BY <1>2 DEF JobOnDisk
  <2>3. QED
    BY <1>2, <2>1, <2>2 DEF Moves, FileInv, CountsAreOnDisk, OnDisk
<1>6. BoundedChannel'
  <2> DEFINE new == {mid, Settled'}
  <2>1. /\ \A i \in DOMAIN Settled' : Settled'[i].received <= Size
        /\ \A i \in DOMAIN mid : mid[i].received <= Size
    BY <1>2, <1>3, SettledBounded DEF OthersKept
  <2>2. Progress(id, workers[w].received, None).received = workers[w].received
    BY DEF Progress
  <2>3. /\ Tables(rows', queue') \subseteq Tables(rows, queue) \cup new
        /\ \A t \in new : \A i \in DOMAIN t : t[i].received <= Size
        /\ \A op \in Ops(queue') : op.op = "progress" => op \in Ops(queue) \/ op.received <= Size
    BY <1>2, <1>3, <2>1, <2>2
  <2> HIDE DEF new
  <2>4. QED
    BY <2>3, ChannelBounded
<1>7. Bounded'
  <2>1. /\ workers'[w].from <= Size /\ workers'[w].got <= Size /\ workers'[w].received <= Size
    BY <1>2 DEF SameTransfer, SameDownload, FileInv, Bounded
  <2>2. QED
    BY <1>2, <2>1, BoundedMoves DEF FileInv, Bounded
<1>8. QED
  BY <1>4, <1>5, <1>6, <1>7 DEF FileInv

\* The thread ends; the row says how the transfer did.
Leaves(w) ==
  /\ DOMAIN workers' = DOMAIN workers \ {w} /\ \A v \in DOMAIN workers' : workers'[v] = workers[v]
  /\ workers[w].pc = "leave" /\ Settled[workers[w].id].state = workers[w].outcome
  /\ rows' = rows /\ queue' = queue /\ Settled' = Settled /\ callers' = callers
  /\ parts' = parts /\ dests' = dests /\ server' = server /\ launched' = launched

LEMMA LeaveLeaves ==
  ASSUME Inv, NEW w \in DOMAIN workers, Leave(w)
  PROVE  Leaves(w)
<1>1. /\ workers[w].pc = "leave" /\ workers' = Drop(workers, {w})
      /\ rows' = rows /\ queue' = queue /\ callers' = callers /\ parts' = parts /\ dests' = dests
      /\ server' = server /\ launched' = launched
  BY DEF Leave, files
<1>2. Settled' = Settled
  BY <1>1, SameChannel
<1>3. Settled[workers[w].id].state = workers[w].outcome
  BY <1>1 DEF Inv, RowOfWorker
<1>4. /\ DOMAIN workers' = DOMAIN workers \ {w}
      /\ \A v \in DOMAIN workers' : workers'[v] = workers[v]
  BY <1>1 DEF Drop
<1>5. QED
  BY <1>1, <1>2, <1>3, <1>4 DEF Leaves

LEMMA LeaveHolds ==
  ASSUME NEW w \in DOMAIN workers, Leaves(w)
  PROVE  \A i \in DownloadId : (Holds(i)' <=> Holds(i)) /\ Settled'[i].name = Settled[i].name
<1>1. \A v \in DOMAIN workers' :
        v \in DOMAIN workers /\ workers'[v] = workers[v] /\ (GivenUp(v)' <=> GivenUp(v))
  BY DEF Leaves, GivenUp
<1>2. GivenUp(w) => Settled[workers[w].id].state \in Over
  BY DEF Leaves, GivenUp
<1>3. QED
  BY <1>1, <1>2 DEF Leaves, Holds

LEMMA LeaveFiles ==
  ASSUME Inv, FileInv, NEW w \in DOMAIN workers, Leave(w)
  PROVE  FileInv'
<1>1. Leaves(w)
  BY LeaveLeaves
<1>2. /\ DOMAIN workers' \subseteq DOMAIN workers
      /\ \A v \in DOMAIN workers' : workers'[v] = workers[v]
      /\ rows' = rows /\ queue' = queue /\ callers' = callers
      /\ parts' = parts /\ dests' = dests
  BY <1>1 DEF Leaves
<1>3. SameChannelOrLess
  BY <1>2, ChannelKept
<1>4. NamesAreHeld'
  <2>1. \A i \in DownloadId : (Holds(i)' <=> Holds(i)) /\ Settled'[i].name = Settled[i].name
    BY <1>1, LeaveHolds
  <2>2. QED
    BY <1>2, <2>1, NamesKept DEF FileInv, NamesAreHeld
<1>5. CountsAreOnDisk'
  BY <1>2 DEF FileInv, CountsAreOnDisk, JobOnDisk, OnDisk
<1>6. BoundedChannel'
  BY <1>3 DEF SameChannelOrLess, FileInv, BoundedChannel
<1>7. Bounded'
  BY <1>2 DEF FileInv, Bounded
<1>8. QED
  BY <1>4, <1>5, <1>6, <1>7 DEF FileInv

LEMMA InitFiles == Init => FileInv
<1> SUFFICES ASSUME Init
             PROVE  FileInv
  OBVIOUS
<1>1. /\ rows = <<>> /\ queue = <<>> /\ workers = <<>> /\ parts = <<>> /\ dests = <<>>
      /\ \A c \in Thread : callers[c] = Idle({})
  BY DEF Init
<1>2. DOMAIN <<>> = {}
  BY SMT
<1>3. Ops(queue) = {} /\ Tables(rows, queue) = {rows} /\ Settled = rows
  BY <1>1, NothingQueued, SettledIsFinal
<1>4. NamesAreHeld /\ CountsAreOnDisk
  BY <1>1, <1>2, <1>3 DEF NamesAreHeld, CountsAreOnDisk, Holds, Idle
<1>5. BoundedChannel /\ Bounded
  BY <1>1, <1>2, <1>3 DEF BoundedChannel, Bounded, Idle
<1>6. QED
  BY <1>4, <1>5 DEF FileInv

LEMMA StepFiles ==
  ASSUME Inv, FileInv, OneCaller, NoSharedNames, [Next]_vars
  PROVE  FileInv'
<1>1. ASSUME NEW w \in DOMAIN workers, WorkerStep(w)
      PROVE  FileInv'
  BY <1>1, SendRequestFiles, OpenPartFiles, CheckControlFiles, ReadChunkFiles, ReadEndFiles,
     RenameFiles, SettleFiles, LeaveFiles DEF WorkerStep
<1>2. ASSUME NEW c \in Thread, Reserve(c) \/ GoesOn(c) \/ Cancels(c) \/ ResumeInterrupted(c)
      PROVE  FileInv'
  BY <1>2, ReserveFiles, GoesOnFiles, CancelsFiles, ResumeInterruptedFiles
<1>3. QED
  BY <1>1, <1>2, StepCases, QuietFiles, ChoosesFiles, SpawnWorkerFiles, RestartFiles

\* Names and counts, on top of the invariant: a name has one holder, and every count a
\* transfer or a call carries is the length of the .part.
THEOREM FilesHold == ASSUME OneCaller, NoSharedNames PROVE Spec => [](Inv /\ FileInv)
<1>1. Init => Inv /\ FileInv
  BY InitInv, InitFiles
<1>2. (Inv /\ FileInv) /\ [Next]_vars => (Inv /\ FileInv)'
  BY StepInv, StepFiles
<1>3. QED
  BY <1>1, <1>2, PTL DEF Spec

(***************************************************************************)
(* Names of finished files: who is done, and who has slipped               *)
(***************************************************************************)

\* Nobody is done who was not, nobody holds a name who did not.
LEMMA DoneKept ==
  ASSUME NameInv, slipped' = slipped, dests' = dests,
         \A i \in DownloadId : Done(i)' => Done(i) /\ Settled'[i].name = Settled[i].name,
         \A i \in DownloadId : Holds(i)' => Holds(i) /\ Settled'[i].name = Settled[i].name
  PROVE  DoneInPlace' /\ NamesSlip'
<1>1. DoneInPlace'
  BY DEF NameInv, DoneInPlace
<1>2. NamesSlip'
  BY DEF NameInv, NamesSlip
<1>3. QED
  BY <1>1, <1>2

\* Then a search that stays where it is has slipped no less, and no other is under way.
LEMMA SearchesKept ==
  ASSUME NameInv, slipped' = slipped, dests' = dests,
         \A i \in DownloadId : Done(i)' => Done(i) /\ Settled'[i].name = Settled[i].name,
         \A i \in DownloadId : Holds(i)' => Holds(i) /\ Settled'[i].name = Settled[i].name,
         \A c \in Thread : callers'[c].pc \in {"part", "reserve"} => callers'[c] = callers[c]
  PROVE  NameInv'
<1>1. DoneInPlace' /\ NamesSlip'
  BY DoneKept
<1>2. SearchesSlip'
  BY DEF NameInv, SearchesSlip
<1>3. QED
  BY <1>1, <1>2 DEF NameInv

LEMMA QuietNames ==
  ASSUME Inv, NameInv, Quiet
  PROVE  NameInv'
<1>1. slipped' = slipped /\ dests' = dests /\ Settled' = Settled
      /\ DOMAIN workers' = DOMAIN workers
      /\ \A v \in DOMAIN workers :
           workers'[v].id = workers[v].id /\ (Completes(v)' <=> Completes(v))
  BY DEF Quiet, SameChannelOrLess, SameJob, SameTransfer, SameDownload, Completes
<1>2. \A i \in DownloadId : Done(i)' => Done(i) /\ Settled'[i].name = Settled[i].name
  BY <1>1 DEF Done
<1>3. \A i \in DownloadId : Holds(i)' => Holds(i) /\ Settled'[i].name = Settled[i].name
  BY QuietHolds
<1>4. DoneInPlace' /\ NamesSlip'
  BY <1>1, <1>2, <1>3, DoneKept
<1>5. ASSUME NEW c \in Thread, NEW id \in DownloadId,
             callers'[c].pc \in {"part", "reserve"}, Done(id)',
             Settled'[id].name = callers'[c].name
      PROVE  callers'[c].id \in slipped'
  <2>1. Done(id) /\ Settled[id].name = callers'[c].name
    BY <1>2, <1>5
  <2>2. CASE callers'[c] = callers[c]
    BY <1>1, <1>5, <2>1, <2>2 DEF NameInv, SearchesSlip
  <2>3. CASE ProbeFile(c) /\ callers'[c].pc = "part"
    <3>1. PICK call \in CallT :
            /\ callers' = [callers EXCEPT ![c] = call]
            /\ call.pc = "part" => call.name \notin DOMAIN dests
      BY <2>3, ProbeMoves DEF Inv
    <3>2. callers'[c] = call
      BY <3>1 DEF Inv, Types
    <3>3. Settled[id].name \notin DOMAIN dests
      BY <2>1, <2>3, <3>1, <3>2
    <3>4. QED
      BY <2>1, <3>3 DEF NameInv, DoneInPlace
  <2>4. QED
    BY <1>5, <2>2, <2>3 DEF Quiet
<1>6. QED
  BY <1>4, <1>5 DEF NameInv, SearchesSlip

LEMMA ChoosesNames ==
  ASSUME Inv, NameInv, OneCaller, NEW c \in Thread, Chooses(c)
  PROVE  NameInv'
<1>1. /\ workers' = workers /\ dests' = dests /\ slipped' = slipped /\ Settled' = Settled
      /\ callers[c].pc = "part" /\ callers'[c].id = callers[c].id
      /\ callers'[c].name = callers[c].name
      /\ \A d \in Thread \ {c} : callers'[d] = Idle({})
  BY ChoosesCall
<1>2. \A i \in DownloadId : (Done(i)' <=> Done(i)) /\ (Holds(i)' <=> Holds(i))
  BY <1>1 DEF Done, Completes, Holds, GivenUp
<1>3. DoneInPlace' /\ NamesSlip'
  BY <1>1, <1>2, DoneKept
<1>4. SearchesSlip'
  BY <1>1, <1>2 DEF NameInv, SearchesSlip, Idle
<1>5. QED
  BY <1>3, <1>4 DEF NameInv

\* The name that is reserved is a finished file's only if the search was overtaken.
LEMMA ReserveNames ==
  ASSUME Inv, NameInv, OneCaller, NEW c \in Thread, Reserve(c)
  PROVE  NameInv'
<1> PICK id, name : id = callers[c].id /\ name = callers[c].name
  OBVIOUS
<1>1. Reserves(c, id, name)
  <2>1. Reserves(c, callers[c].id, callers[c].name)
    BY ReserveRow
  <2>2. QED
    BY <2>1
<1>2. /\ id \in DownloadId /\ id \notin DOMAIN Settled
      /\ DOMAIN Settled' = DOMAIN Settled \cup {id} /\ OthersKept(Settled, Settled', id)
      /\ Settled'[id].name = name /\ Settled'[id].state = "active"
      /\ callers'[c].pc = "spawn" /\ \A d \in Thread \ {c} : callers'[d] = Idle({})
      /\ \A w \in DOMAIN workers : workers[w].id # id
      /\ workers' = workers /\ dests' = dests /\ slipped' = slipped
  BY <1>1 DEF Reserves
<1>3. ASSUME NEW i \in DownloadId, Done(i)'
      PROVE  Done(i) /\ i # id /\ Settled'[i].name = Settled[i].name
  <2>1. i # id
    BY <1>2, <1>3 DEF Done
  <2>2. i \in DOMAIN Settled /\ Settled'[i] = Settled[i]
    BY <1>2, <1>3, <2>1 DEF Done, OthersKept
  <2>3. QED
    BY <1>2, <1>3, <2>1, <2>2 DEF Done, Completes
<1>4. ASSUME NEW i \in DownloadId, Holds(i)', i # id
      PROVE  Holds(i) /\ Settled'[i].name = Settled[i].name
  <2>1. i \in DOMAIN Settled /\ Settled'[i] = Settled[i]
    BY <1>2, <1>4 DEF Holds, OthersKept
  <2>2. QED
    BY <1>2, <1>4, <2>1 DEF Holds, GivenUp
<1>5. DoneInPlace'
  BY <1>2, <1>3 DEF NameInv, DoneInPlace
<1>6. SearchesSlip'
  BY <1>2 DEF SearchesSlip, Idle
<1>7. ASSUME NEW i \in DownloadId, NEW j \in DownloadId, i # j, Done(i)',
             Done(j)' \/ Holds(j)', Settled'[i].name = Settled'[j].name
      PROVE  i \in slipped' \/ j \in slipped'
  <2>1. Done(i) /\ Settled'[i].name = Settled[i].name
    BY <1>3, <1>7
  <2>2. CASE j = id
    <3>1. callers[c].pc = "reserve" /\ Settled[i].name = callers[c].name
      BY <1>2, <1>7, <2>1, <2>2 DEF Reserve
    <3>2. callers[c].id \in slipped
      BY <2>1, <3>1 DEF NameInv, SearchesSlip
    <3>3. QED
      BY <1>2, <2>2, <3>2
  <2>3. CASE j # id
    <3>1. (Done(j) \/ Holds(j)) /\ Settled'[j].name = Settled[j].name
      BY <1>3, <1>4, <1>7, <2>3
    <3>2. QED
      BY <1>2, <1>7, <2>1, <3>1 DEF NameInv, NamesSlip
  <2>4. QED
    BY <2>2, <2>3
<1>8. QED
  BY <1>5, <1>6, <1>7 DEF NameInv, NamesSlip

\* A row is changed by a call, and completed by none.
LEMMA RowDone ==
  ASSUME NEW c, NEW id, NEW state, RowStep(c, id, state), state # "completed",
         workers' = workers
  PROVE  \A i \in DownloadId : Done(i)' => Done(i) /\ Settled'[i].name = Settled[i].name
<1>1. /\ DOMAIN Settled' = DOMAIN Settled /\ OthersKept(Settled, Settled', id)
      /\ Settled'[id].state # "completed" /\ \A w \in DOMAIN workers : workers[w].id # id
  BY DEF RowStep
<1>2. QED
  BY <1>1 DEF Done, Completes, OthersKept

LEMMA GoesOnNames ==
  ASSUME Inv, NameInv, OneCaller, NEW c \in Thread, GoesOn(c)
  PROVE  NameInv'
<1> PICK id : id = callers[c].id
  OBVIOUS
<1>1. GoingOn(c, id)
  <2>1. GoingOn(c, callers[c].id)
    BY GoesOnRow
  <2>2. QED
    BY <2>1
<1>2. /\ RowStep(c, id, "active") /\ workers' = workers /\ dests' = dests
      /\ slipped' = slipped /\ Settled[id].state \in {"paused", "interrupted"}
      /\ \A d \in Thread : callers'[d].pc \notin {"part", "reserve"}
  BY <1>1 DEF GoingOn, Idle
<1>3. Holds(id)
  BY <1>2 DEF RowStep, Holds, Over
<1>4. \A i \in DownloadId : Done(i)' => Done(i) /\ Settled'[i].name = Settled[i].name
  BY <1>2, RowDone
<1>5. \A i \in DownloadId : Holds(i)' => Holds(i) /\ Settled'[i].name = Settled[i].name
  BY <1>2, <1>3, RowHolds DEF RowStep
<1>6. QED
  BY <1>2, <1>4, <1>5, SearchesKept

LEMMA CancelsNames ==
  ASSUME Inv, NameInv, OneCaller, NEW c \in Thread, Cancels(c)
  PROVE  NameInv'
<1> PICK id : id = callers[c].id
  OBVIOUS
<1>1. Cancelling(c, id)
  <2>1. Cancelling(c, callers[c].id)
    BY CancelsRow
  <2>2. QED
    BY <2>1
<1>2. /\ RowStep(c, id, "cancelled") /\ workers' = workers /\ dests' = dests
      /\ slipped' = slipped
      /\ \A d \in Thread : callers'[d].pc \notin {"part", "reserve"}
  BY <1>1 DEF Cancelling, Idle
<1>3. ~Holds(id)'
  BY <1>2 DEF RowStep, Holds, Over
<1>4. \A i \in DownloadId : Done(i)' => Done(i) /\ Settled'[i].name = Settled[i].name
  BY <1>2, RowDone
<1>5. \A i \in DownloadId : Holds(i)' => Holds(i) /\ Settled'[i].name = Settled[i].name
  BY <1>2, <1>3, RowHolds DEF RowStep
<1>6. QED
  BY <1>2, <1>4, <1>5, SearchesKept

LEMMA ResumeInterruptedNames ==
  ASSUME Inv, NameInv, NEW c \in Thread, ResumeInterrupted(c)
  PROVE  NameInv'
<1>1. Marks(c)
  BY MarksRows
<1>2. /\ DOMAIN workers = {} /\ DOMAIN workers' = {} /\ dests' = dests /\ slipped' = slipped
      /\ \A d \in Thread : callers'[d].pc \notin {"part", "reserve"}
  BY <1>1 DEF Marks
<1>3. \A i \in DownloadId : Done(i)' => Done(i) /\ Settled'[i].name = Settled[i].name
  BY <1>1, <1>2 DEF Marks, Done
<1>4. \A i \in DownloadId : Holds(i)' => Holds(i) /\ Settled'[i].name = Settled[i].name
  BY <1>1, <1>2 DEF Marks, Holds, Over
<1>5. QED
  BY <1>2, <1>3, <1>4, SearchesKept

LEMMA SpawnWorkerNames ==
  ASSUME Inv, NameInv, OneCaller, NEW c \in Thread, NEW w \in Worker, SpawnWorker(c, w)
  PROVE  NameInv'
<1> PICK job : job = [pc |-> "send", id |-> callers[c].id, name |-> callers[c].name,
                      from |-> callers[c].from, etag |-> callers[c].etag, control |-> "run",
                      version |-> None, got |-> 0, received |-> callers[c].from, outcome |-> None]
  OBVIOUS
<1> PICK call : call = [pc |-> "register", id |-> callers[c].id, worker |-> w,
                        todo |-> callers[c].todo]
  OBVIOUS
<1>1. /\ callers[c].pc = "spawn" /\ w \notin DOMAIN workers
      /\ callers' = [callers EXCEPT ![c] = call] /\ workers' = Put(workers, w, job)
      /\ rows' = rows /\ queue' = queue /\ dests' = dests /\ slipped' = slipped
  BY DEF SpawnWorker, files, FreshWorker
<1>2. /\ DOMAIN workers' = DOMAIN workers \cup {w} /\ workers'[w] = job
      /\ \A v \in DOMAIN workers : workers'[v] = workers[v]
  BY <1>1 DEF Put
<1>3. job.pc = "send" /\ call.pc = "register"
  OBVIOUS
<1>4. callers'[c].pc = "register" /\ \A d \in Thread : d # c => callers'[d] = callers[d]
  BY <1>1, <1>3 DEF Inv, Types
<1>5. Settled' = Settled
  BY <1>1, SameChannel
<1>6. \A i \in DownloadId : Done(i)' => Done(i)
  <2>1. ~Completes(w)' /\ \A v \in DOMAIN workers : Completes(v)' <=> Completes(v)
    BY <1>2, <1>3 DEF Completes
  <2>2. QED
    BY <1>2, <1>5, <2>1 DEF Done
<1>7. \A i \in DownloadId : Holds(i)' => Holds(i)
  <2>1. \A v \in DOMAIN workers : GivenUp(v)' <=> GivenUp(v)
    BY <1>2 DEF GivenUp
  <2>2. QED
    BY <1>2, <1>5, <2>1 DEF Holds
<1>8. \A d \in Thread : callers'[d].pc \in {"part", "reserve"} => callers'[d] = callers[d]
  BY <1>4
<1>9. QED
  BY <1>1, <1>5, <1>6, <1>7, <1>8, SearchesKept

\* A worker is at a step that completes nothing.
LEMMA WorkerDone ==
  ASSUME Inv, NEW w \in DOMAIN workers, Moves(w), workers'[w].id = workers[w].id,
         DOMAIN Settled' = DOMAIN Settled, OthersKept(Settled, Settled', workers[w].id),
         Settled'[workers[w].id].name = Settled[workers[w].id].name,
         Settled'[workers[w].id].state = "completed" \/ Completes(w)' =>
           Settled[workers[w].id].state = "completed" \/ Completes(w)
  PROVE  \A i \in DownloadId : Done(i)' => Done(i) /\ Settled'[i].name = Settled[i].name
<1> SUFFICES ASSUME NEW i \in DownloadId, Done(i)'
             PROVE  Done(i) /\ Settled'[i].name = Settled[i].name
  OBVIOUS
<1>1. i \in DOMAIN Settled
  BY DEF Done
<1>2. \A v \in DOMAIN workers : v # w =>
        workers'[v].id = workers[v].id /\ (Completes(v)' <=> Completes(v))
  BY DEF Moves, Completes
<1>3. CASE i = workers[w].id
  <2>1. \A v \in DOMAIN workers : workers[v].id = i => v = w
    BY <1>3, OneWorkerEach
  <2>2. Settled'[i].state = "completed" \/ Completes(w)'
    BY <1>2, <2>1 DEF Done, Moves
  <2>3. QED
    BY <1>1, <1>3, <2>2 DEF Done
<1>4. CASE i # workers[w].id
  <2>1. Settled'[i] = Settled[i]
    BY <1>1, <1>4 DEF OthersKept
  <2>2. QED
    BY <1>1, <1>2, <1>4, <2>1 DEF Done, Moves
<1>5. QED
  BY <1>3, <1>4

\* What the steps of a transfer before its rename have in common
LEMMA TransferMoves ==
  ASSUME Inv, FileInv, NEW w \in DOMAIN workers,
         SendRequest(w) \/ OpenPart(w) \/ CheckControl(w) \/ ReadChunk(w) \/ ReadEnd(w)
  PROVE  /\ workers[w].pc \notin {"settle", "leave"}
         /\ Moves(w) /\ workers'[w].id = workers[w].id /\ ~Completes(w)'
         /\ callers' = callers /\ dests' = dests /\ slipped' = slipped
         /\ DOMAIN Settled' = DOMAIN Settled /\ OthersKept(Settled, Settled', workers[w].id)
         /\ Settled'[workers[w].id].name = Settled[workers[w].id].name
         /\ Settled'[workers[w].id].state = Settled[workers[w].id].state
<1>1. slipped' = slipped
  BY DEF SendRequest, OpenPart, CheckControl, ReadChunk, ReadEnd, files
<1>2. ASSUME NEW pc, NEW outcome, Advances(w, pc, outcome),
             pc \in {"settle", "leave"} => outcome # "completed"
      PROVE  /\ Moves(w) /\ workers'[w].id = workers[w].id /\ ~Completes(w)'
             /\ callers' = callers
             /\ DOMAIN Settled' = DOMAIN Settled /\ OthersKept(Settled, Settled', workers[w].id)
             /\ Settled'[workers[w].id].name = Settled[workers[w].id].name
             /\ Settled'[workers[w].id].state = Settled[workers[w].id].state
  <2>1. Settled' = Settled
    BY <1>2, SameChannel DEF Advances
  <2>2. OthersKept(Settled, Settled', workers[w].id)
    BY <2>1 DEF OthersKept
  <2>3. QED
    BY <1>2, <2>1, <2>2 DEF Advances, SameTransfer, SameDownload, Completes
<1>3. ASSUME NEW got, NEW received, HasHeaders(w, got, received)
      PROVE  /\ Moves(w) /\ workers'[w].id = workers[w].id /\ ~Completes(w)'
             /\ callers' = callers
             /\ DOMAIN Settled' = DOMAIN Settled /\ OthersKept(Settled, Settled', workers[w].id)
             /\ Settled'[workers[w].id].name = Settled[workers[w].id].name
             /\ Settled'[workers[w].id].state = Settled[workers[w].id].state
  BY <1>3 DEF HasHeaders, SameDownload, Completes
<1>4. ASSUME HasChunk(w)
      PROVE  /\ Moves(w) /\ workers'[w].id = workers[w].id /\ ~Completes(w)'
             /\ callers' = callers
             /\ DOMAIN Settled' = DOMAIN Settled /\ OthersKept(Settled, Settled', workers[w].id)
             /\ Settled'[workers[w].id].name = Settled[workers[w].id].name
             /\ Settled'[workers[w].id].state = Settled[workers[w].id].state
  BY <1>4 DEF HasChunk, SameDownload, Completes
<1>5. CASE SendRequest(w)
  <2>1. workers[w].pc = "send" /\ dests' = dests
    BY <1>5 DEF SendRequest, files
  <2>2. \/ Advances(w, "settle", "interrupted")
        \/ \E got, received : HasHeaders(w, got, received)
    BY <1>5, SendCases
  <2>3. QED
    BY <1>1, <1>2, <1>3, <2>1, <2>2
<1>6. CASE OpenPart(w)
  <2>1. /\ workers[w].pc = "open" /\ dests' = dests
        /\ Advances(w, "check", workers[w].outcome) \/ Advances(w, "settle", "interrupted")
    BY <1>6, OpenCases
  <2>2. QED
    BY <1>1, <1>2, <2>1
<1>7. CASE CheckControl(w)
  <2>1. /\ workers[w].pc = "check" /\ dests' = dests
        /\ \/ Advances(w, "read", workers[w].outcome)
           \/ Advances(w, "settle", "paused")
           \/ Advances(w, "settle", "cancelled")
    BY <1>7, CheckCases
  <2>2. QED
    BY <1>1, <1>2, <2>1
<1>8. CASE ReadChunk(w)
  <2>1. workers[w].pc = "read" /\ HasChunk(w)
    BY <1>8, ChunkCases
  <2>2. dests' = dests
    BY <1>8 DEF ReadChunk
  <2>3. QED
    BY <1>1, <1>4, <2>1, <2>2
<1>9. CASE ReadEnd(w)
  <2>1. /\ workers[w].pc = "read" /\ dests' = dests
        /\ Advances(w, "settle", "interrupted") \/ Advances(w, "rename", "completed")
    BY <1>9, EndCases
  <2>2. QED
    BY <1>1, <1>2, <2>1
<1>10. QED
  BY <1>5, <1>6, <1>7, <1>8, <1>9

LEMMA TransferNames ==
  ASSUME Inv, FileInv, NameInv, NEW w \in DOMAIN workers,
         SendRequest(w) \/ OpenPart(w) \/ CheckControl(w) \/ ReadChunk(w) \/ ReadEnd(w)
  PROVE  NameInv'
<1>1. /\ workers[w].pc \notin {"settle", "leave"}
      /\ Moves(w) /\ workers'[w].id = workers[w].id /\ ~Completes(w)'
      /\ callers' = callers /\ dests' = dests /\ slipped' = slipped
      /\ DOMAIN Settled' = DOMAIN Settled /\ OthersKept(Settled, Settled', workers[w].id)
      /\ Settled'[workers[w].id].name = Settled[workers[w].id].name
      /\ Settled'[workers[w].id].state = Settled[workers[w].id].state
  BY TransferMoves
<1>2. ~GivenUp(w)
  BY <1>1 DEF GivenUp
<1>3. \A i \in DownloadId : Done(i)' => Done(i) /\ Settled'[i].name = Settled[i].name
  BY <1>1, WorkerDone
<1>4. \A i \in DownloadId : Holds(i)' => Holds(i) /\ Settled'[i].name = Settled[i].name
  BY <1>1, <1>2, WorkerHolds
<1>5. QED
  BY <1>1, <1>3, <1>4, SearchesKept

\* A transfer is done by the rename.  Searches that have asked for the file slip; no
\* search can have asked for the .part and not seen it.
LEMMA RenameNames ==
  ASSUME Inv, FileInv, NameInv, FilesAreSafe, NEW w \in DOMAIN workers, Rename(w)
  PROVE  NameInv'
<1> PICK id, name : id = workers[w].id /\ name = workers[w].name
  OBVIOUS
<1>1. /\ workers[w].pc = "rename" /\ Advances(w, "settle", "completed")
      /\ id \in DownloadId /\ name \in DOMAIN parts
      /\ Holds(id) /\ Settled[id].name = name /\ ~GivenUp(w)
  BY RenameCases, JobFields, TransferHolds DEF FileInv, CountsAreOnDisk, JobOnDisk, GivenUp
<1>2. dests' = Put(dests, name, parts[name]) /\ slipped' = slipped \cup Overtaken(name)
  BY <1>1, RenameCases DEF FilesAreSafe
<1>3. DOMAIN dests' = DOMAIN dests \cup {name} /\ slipped \subseteq slipped'
  BY <1>2 DEF Put
<1>4. /\ Moves(w) /\ workers'[w].id = id /\ GivenUp(w)' /\ callers' = callers
      /\ Settled' = Settled
  BY <1>1, SameChannel DEF Advances, SameTransfer, SameDownload, GivenUp, Over
<1>5. \A i \in DownloadId : Holds(i)' => Holds(i) /\ i # id
  <2>1. OthersKept(Settled, Settled', workers[w].id)
    BY <1>4 DEF OthersKept
  <2>2. \A i \in DownloadId : Holds(i)' => Holds(i)
    BY <1>4, <2>1, WorkerHolds
  <2>3. ~Holds(id)'
    BY <1>4 DEF Holds, Moves
  <2>4. QED
    BY <2>2, <2>3
<1>6. \A i \in DownloadId : Done(i)' => Done(i) \/ i = id
  <2>1. \A v \in DOMAIN workers : v # w =>
          workers'[v].id = workers[v].id /\ (Completes(v)' <=> Completes(v))
    BY <1>4 DEF Moves, Completes
  <2>2. QED
    BY <1>4, <2>1 DEF Done, Moves
<1>7. DoneInPlace'
  BY <1>1, <1>3, <1>4, <1>6 DEF NameInv, DoneInPlace
<1>8. ASSUME NEW c \in Thread, NEW i \in DownloadId, callers[c].pc \in {"part", "reserve"},
             Done(i)', Settled[i].name = callers[c].name
      PROVE  callers[c].id \in slipped'
  <2>1. CASE Done(i)
    BY <1>3, <1>8, <2>1 DEF NameInv, SearchesSlip
  <2>2. CASE i = id /\ callers[c].pc = "part"
    BY <1>1, <1>2, <1>8, <2>2 DEF Overtaken
  <2>3. CASE i = id /\ callers[c].pc = "reserve"
    BY <1>1, <1>8, <2>3 DEF FileInv, NamesAreHeld
  <2>4. QED
    BY <1>6, <1>8, <2>1, <2>2, <2>3
<1>9. ASSUME NEW i \in DownloadId, NEW j \in DownloadId, i # j, Done(i)',
             Done(j)' \/ Holds(j)', Settled[i].name = Settled[j].name
      PROVE  i \in slipped' \/ j \in slipped'
  <2>1. CASE i = id
    <3>1. Done(j) \/ Holds(j)
      BY <1>5, <1>6, <1>9, <2>1
    <3>2. ~Holds(j)
      BY <1>1, <1>9, <2>1 DEF FileInv, NamesAreHeld
    <3>3. QED
      BY <1>1, <1>3, <1>9, <2>1, <3>1, <3>2 DEF NameInv, NamesSlip
  <2>2. CASE i # id
    <3>1. Done(i)
      BY <1>6, <1>9, <2>2
    <3>2. Done(j) \/ Holds(j)
      BY <1>1, <1>5, <1>6, <1>9
    <3>3. QED
      BY <1>3, <1>9, <3>1, <3>2 DEF NameInv, NamesSlip
  <2>3. QED
    BY <2>1, <2>2
<1>10. SearchesSlip' /\ NamesSlip'
  BY <1>4, <1>8, <1>9 DEF SearchesSlip, NamesSlip
<1>11. QED
  BY <1>7, <1>10 DEF NameInv

LEMMA SettleNames ==
  ASSUME Inv, NameInv, NEW w \in DOMAIN workers, Settle(w)
  PROVE  NameInv'
<1>1. Settles(w) /\ slipped' = slipped
  BY SettleSettles DEF Settle, files
<1>2. /\ Moves(w) /\ workers'[w].id = workers[w].id
      /\ workers[w].pc = "settle" /\ workers'[w].pc = "leave"
      /\ workers'[w].outcome = workers[w].outcome
      /\ callers' = callers /\ dests' = dests
      /\ DOMAIN Settled' = DOMAIN Settled /\ OthersKept(Settled, Settled', workers[w].id)
      /\ Settled'[workers[w].id].name = Settled[workers[w].id].name
      /\ Settled'[workers[w].id].state = workers[w].outcome
      /\ Settled[workers[w].id].state = "active"
  BY <1>1 DEF Settles, SameTransfer, SameDownload
<1>3. \A i \in DownloadId : Done(i)' => Done(i) /\ Settled'[i].name = Settled[i].name
  BY <1>2, WorkerDone DEF Completes
<1>4. \A i \in DownloadId : Holds(i)' => Holds(i) /\ Settled'[i].name = Settled[i].name
  BY <1>2, WorkerHolds DEF GivenUp, Over
<1>5. QED
  BY <1>1, <1>2, <1>3, <1>4, SearchesKept

LEMMA LeaveNames ==
  ASSUME Inv, NameInv, NEW w \in DOMAIN workers, Leave(w)
  PROVE  NameInv'
<1>1. Leaves(w) /\ slipped' = slipped
  BY LeaveLeaves DEF Leave, files
<1>2. /\ DOMAIN workers' \subseteq DOMAIN workers /\ Settled' = Settled
      /\ \A v \in DOMAIN workers' : workers'[v] = workers[v]
      /\ callers' = callers /\ dests' = dests
  BY <1>1 DEF Leaves
<1>3. \A i \in DownloadId : Done(i)' => Done(i)
  BY <1>2 DEF Done, Completes
<1>4. \A i \in DownloadId : Holds(i)' => Holds(i)
  BY <1>1, LeaveHolds
<1>5. QED
  BY <1>1, <1>2, <1>3, <1>4, SearchesKept

LEMMA InitNames == Init => NameInv
<1> SUFFICES ASSUME Init
             PROVE  NameInv
  OBVIOUS
<1>1. rows = <<>> /\ queue = <<>> /\ \A c \in Thread : callers[c] = Idle({})
  BY DEF Init
<1>2. DOMAIN Settled = {}
  BY <1>1, NothingQueued, SettledIsFinal, SMT
<1>3. QED
  BY <1>1, <1>2 DEF NameInv, DoneInPlace, SearchesSlip, NamesSlip, Done, Idle

LEMMA StepNames ==
  ASSUME Inv, FileInv, NameInv, OneCaller, FilesAreSafe, [Next]_vars
  PROVE  NameInv'
<1>1. ASSUME NEW w \in DOMAIN workers, WorkerStep(w)
      PROVE  NameInv'
  BY <1>1, TransferNames, RenameNames, SettleNames, LeaveNames DEF WorkerStep
<1>2. ASSUME NEW c \in Thread, Reserve(c) \/ GoesOn(c) \/ Cancels(c) \/ ResumeInterrupted(c)
      PROVE  NameInv'
  BY <1>2, ReserveNames, GoesOnNames, CancelsNames, ResumeInterruptedNames
<1>3. ~Restart
  BY DEF Restart, FilesAreSafe
<1>4. QED
  BY <1>1, <1>2, <1>3, StepCases, QuietNames, ChoosesNames, SpawnWorkerNames

THEOREM NamesHold ==
  ASSUME OneCaller, FilesAreSafe PROVE Spec => [](Inv /\ FileInv /\ NameInv)
<1>1. NoSharedNames
  BY DEF NoSharedNames
<1>2. Init => Inv /\ FileInv /\ NameInv
  BY InitInv, InitFiles, InitNames
<1>3. (Inv /\ FileInv /\ NameInv) /\ [Next]_vars => (Inv /\ FileInv /\ NameInv)'
  BY <1>1, StepInv, StepFiles, StepNames
<1>4. QED
  BY <1>2, <1>3, PTL DEF Spec

(***************************************************************************)
(* The ids that slipped are ids                                            *)
(***************************************************************************)

Slips == slipped \subseteq DownloadId

LEMMA StepSlips ==
  ASSUME Inv, OneCaller, Slips, [Next]_vars
  PROVE  Slips'
<1>1. CASE slipped' = slipped
  BY <1>1 DEF Slips
<1>2. ASSUME NEW w \in DOMAIN workers, Rename(w)
      PROVE  Slips'
  <2>1. slipped' \subseteq slipped \cup Overtaken(workers[w].name)
    BY <1>2, RenameCases
  <2>2. Overtaken(workers[w].name) \subseteq DownloadId
    BY CallFields DEF Overtaken, Inv, Types
  <2>3. QED
    BY <2>1, <2>2 DEF Slips
<1>3. ASSUME NEW w \in DOMAIN workers, WorkerStep(w), ~Rename(w)
      PROVE  slipped' = slipped
  BY <1>3 DEF WorkerStep, SendRequest, OpenPart, CheckControl, ReadChunk, ReadEnd, Settle,
     Leave, files
<1>4. ASSUME NEW c \in Thread, NEW w \in Worker, SpawnWorker(c, w)
      PROVE  slipped' = slipped
  BY <1>4 DEF SpawnWorker, files
<1>5. ASSUME NEW c \in Thread,
             Chooses(c) \/ Reserve(c) \/ GoesOn(c) \/ Cancels(c) \/ ResumeInterrupted(c)
      PROVE  slipped' = slipped
  BY <1>5 DEF Chooses, ProbePart, Reserve, GoesOn, ResumeRow, Cancels, CancelRow,
     ResumeInterrupted, files
<1>6. Quiet \/ Restart => slipped' = slipped
  BY DEF Quiet, Restart, files
<1>7. QED
  BY <1>1, <1>2, <1>3, <1>4, <1>5, <1>6, StepCases

LEMMA SlipsHold == ASSUME OneCaller PROVE Spec => []Slips
<1>1. Init => Inv /\ Slips
  BY InitInv DEF Init, Slips
<1>2. (Inv /\ Slips) /\ [Next]_vars => (Inv /\ Slips)'
  BY StepInv, StepSlips
<1>3. QED
  BY <1>1, <1>2, PTL DEF Spec

(***************************************************************************)
(* The properties of the runs that follow                                  *)
(***************************************************************************)

LEMMA WorkersApart == Inv /\ FileInv => OneWorkerPerFile
<1> SUFFICES ASSUME Inv, FileInv, NEW v \in DOMAIN workers, NEW w \in DOMAIN workers,
                    Transferring(v), Transferring(w), workers[v].name = workers[w].name
             PROVE  v = w
  BY DEF OneWorkerPerFile
<1>1. QED
  BY NamesApart DEF Transferring, FileInv

LEMMA OwnersApart == Inv /\ FileInv /\ NameInv => NamesAreDistinct
<1> SUFFICES ASSUME Inv, FileInv, NameInv, NEW i \in DOMAIN Settled, NEW j \in DOMAIN Settled,
                    Settled[i].state \in {"completed", "paused", "interrupted"},
                    Settled[j].state \in {"completed", "paused", "interrupted"},
                    i # j, Settled[i].name = Settled[j].name
             PROVE  /\ Settled[i].state = "completed" \/ Settled[j].state = "completed"
                    /\ i \in slipped \/ j \in slipped
  BY DEF NamesAreDistinct
<1>1. i \in DownloadId /\ j \in DownloadId
  BY SettledTyped DEF Inv, TableT
<1>2. /\ Settled[i].state = "completed" => Done(i)
      /\ Settled[j].state = "completed" => Done(j)
  BY DEF Done
<1>3. /\ Settled[i].state # "completed" => Holds(i)
      /\ Settled[j].state # "completed" => Holds(j)
  BY RestHolds
<1>4. Settled[i].state = "completed" \/ Settled[j].state = "completed"
  BY <1>1, <1>3 DEF FileInv, NamesAreHeld
<1>5. QED
  BY <1>1, <1>2, <1>3, <1>4 DEF NameInv, NamesSlip

\* A bounded sequence is a sequence within the bound.
LEMMA Bounding ==
  ASSUME NEW S, NEW n \in Nat, NEW s \in Seq(S), Len(s) <= n
  PROVE  s \in BoundedSeq(S, n)
<1>1. Len(s) \in Nat /\ s \in [1 .. Len(s) -> S]
  BY LenProperties
<1>2. Len(s) \in 0 .. n
  BY <1>1, SMT
<1>3. QED
  BY <1>1, <1>2 DEF BoundedSeq, SeqOf

\* The types of the module, from those of the proof and the bounds
LEMMA TypesBounded == Inv /\ FileInv /\ Slips => TypeOK
<1> SUFFICES ASSUME Inv, FileInv, Slips
             PROVE  TypeOK
  OBVIOUS
<1>1. Types /\ BoundedChannel /\ Bounded /\ Size \in Nat
  BY SizeIsPos DEF Inv, FileInv
<1>2. DOMAIN rows \subseteq DownloadId /\ \A id \in DOMAIN rows : rows[id] \in Row
  <2>1. TableT(rows) /\ rows \in Tables(rows, queue)
    BY <1>1, SettledTyped
  <2>2. ASSUME NEW id \in DOMAIN rows
        PROVE  rows[id] \in Row
    <3>1. rows[id] \in RowT /\ rows[id].received <= Size
      BY <1>1, <2>1 DEF TableT, BoundedChannel
    <3> PICK row : row = rows[id]
      OBVIOUS
    <3>2. row \in RowT /\ row.received <= Size
      BY <3>1
    <3>3. row \in Row
      BY <1>1, <3>2, SMT DEF RowT, Row, Received
    <3>4. QED
      BY <3>3
  <2>3. QED
    BY <2>1, <2>2 DEF TableT
<1>3. \A i \in DOMAIN queue : queue[i] \in Op
  <2>1. \A op : op \in OpT /\ (op.op = "progress" => op.received <= Size) => op \in Op
    BY <1>1, SMT DEF OpT, Op, Received, MarkStale
  <2>2. \A i \in DOMAIN queue : queue[i] \in OpT /\ queue[i] \in Ops(queue)
    <3>1. DOMAIN queue = 1 .. Len(queue)
      BY <1>1, LenProperties DEF Types
    <3>2. QED
      BY <1>1, <3>1, ElementOfSeq DEF Types, Ops
  <2>3. QED
    BY <1>1, <2>1, <2>2 DEF BoundedChannel
<1>4. DOMAIN workers \subseteq Worker /\ \A w \in DOMAIN workers : workers[w] \in Job
  <2>1. ASSUME NEW w \in DOMAIN workers
        PROVE  workers[w] \in Job
    <3> PICK job : job = workers[w]
      OBVIOUS
    <3>1. job \in JobT /\ job.from <= Size /\ job.got <= Size /\ job.received <= Size
      BY <1>1 DEF Types, Bounded
    <3>2. job \in Job
      BY <1>1, <3>1, SMT DEF JobT, Job, Received
    <3>3. QED
      BY <3>2
  <2>2. QED
    BY <1>1, <2>1 DEF Types
<1>5. DOMAIN callers = Thread /\ \A c \in Thread : callers[c] \in Call
  <2>1. ASSUME NEW c \in Thread
        PROVE  callers[c] \in Call
    <3> PICK call : call = callers[c]
      OBVIOUS
    <3>1. call \in CallT /\ (call.pc = "spawn" => call.from <= Size)
      BY <1>1 DEF Types, Bounded
    <3>2. call \in Call
      BY <1>1, <3>1, SMT DEF CallT, Call, Received
    <3>3. QED
      BY <3>2
  <2>2. QED
    BY <1>1, <2>1 DEF Types
<1>6. /\ DOMAIN parts \subseteq FileName /\ \A n \in DOMAIN parts : parts[n] \in Content
      /\ DOMAIN dests \subseteq FileName /\ \A n \in DOMAIN dests : dests[n] \in Content
  BY <1>1, Bounding DEF Types, Bounded, ContentT, Content
<1>7. QED
  BY <1>1, <1>2, <1>3, <1>4, <1>5, <1>6 DEF Types, TypeOK, Slips

\* Two live transfers never share a .part.  The registry keeps the second worker of a
\* download away while the first has not seen its pause, and of two downloads the search
\* never gives away a .part that is there.  OneCaller is a premise the shell does not
\* enforce: two resumes that both ask the registry before either enters its worker, one
\* of them the launch pass's, make two workers of one download.
THEOREM WorkersAreApart ==
  ASSUME OneCaller, NoSharedNames PROVE Spec => []OneWorkerPerFile
BY FilesHold, WorkersApart, PTL

\* Two downloads that can go on never have one name, and of two that are completed or
\* can go on, one has it because its search asked for the file before the rename and
\* for the .part after it: collision_safe_path's two questions leave no other gap.
THEOREM OwnersAreApart ==
  ASSUME OneCaller, NoSharedNames PROVE Spec => []NamesAreDistinct
<1>1. CASE FilesAreSafe
  BY <1>1, NamesHold, OwnersApart, PTL
<1>2. CASE \A i, j \in DownloadId : i = j
  <2>1. Inv => NamesAreDistinct
    BY <1>2, SettledTyped DEF Inv, TableT, NamesAreDistinct
  <2>2. QED
    BY <2>1, InvHolds, PTL
<1>3. QED
  BY <1>1, <1>2 DEF NoSharedNames

\* The types hold, and an active row always has a transfer behind it.
THEOREM ActiveRuns ==
  ASSUME OneCaller, NoSharedNames PROVE Spec => []ActiveMeansRunning
<1>1. Inv /\ FileInv /\ Slips => ActiveMeansRunning
  BY TypesBounded DEF ActiveMeansRunning, Inv
<1>2. QED
  BY <1>1, FilesHold, SlipsHold, PTL

(***************************************************************************)
(* Content: what steps have in common                                      *)
(***************************************************************************)

LEMMA EmptyPiece == ASSUME NEW v PROVE Piece(<<>>, v)
<1>1. Len(<<>>) = 0 /\ 1 .. 0 = {}
  BY EmptySeq, SMT
<1>2. QED
  BY <1>1, SMT DEF Piece

LEMMA PieceIsWhole ==
  ASSUME NEW content \in ContentT, NEW v \in Version, Piece(content, v),
         Len(content) <= Size, v \in Announced => Len(content) = Size
  PROVE  Whole(content)
<1>1. Len(content) \in 0 .. Size
  BY LenProperties, SizeIsPos, SMT DEF ContentT
<1>2. Len(content) \in Lengths(v)
  BY <1>1 DEF Lengths
<1>3. QED
  BY <1>2 DEF Piece, Whole

\* The next chunk continues a piece.
LEMMA LongerPiece ==
  ASSUME NEW s \in ContentT, NEW v \in Version, Piece(s, v), Len(s) + 1 <= Size
  PROVE  Piece(Append(s, <<v, Len(s) + 1>>), v)
<1> PICK n : n = Len(s) + 1
  OBVIOUS
<1> PICK chunk : chunk = <<v, n>>
  OBVIOUS
<1>1. Len(s) \in Nat /\ n \in 1 .. Size
  BY LenProperties, SizeIsPos, SMT DEF ContentT
<1>2. chunk \in Version \X (1 .. Size)
  BY <1>1
<1> PICK r : r = Append(s, chunk)
  OBVIOUS
<1>3. /\ r \in Seq(Version \X (1 .. Size)) /\ Len(r) = n /\ r[n] = chunk
      /\ \A i \in 1 .. Len(s) : r[i] = s[i]
  BY <1>2, AppendProperties DEF ContentT
<1>4. r = [i \in 1 .. n |-> r[i]]
  BY <1>3, LenProperties
<1>5. \A i \in 1 .. n : r[i] = <<v, i>>
  <2>1. \A i \in 1 .. Len(s) : s[i] = <<v, i>>
    BY DEF Piece
  <2>2. \A i \in 1 .. n : i \in 1 .. Len(s) \/ i = n
    BY <1>1, SMT
  <2>3. QED
    BY <1>3, <2>1, <2>2
<1>6. r = [i \in 1 .. n |-> <<v, i>>]
  BY <1>4, <1>5
<1>7. QED
  BY <1>3, <1>6 DEF Piece

\* Steps of a call, of the writer and of the server: files stay, shrink or are reserved.
LEMMA CallContent ==
  ASSUME Inv, FileInv, ContentInv, dests' = dests,
         DOMAIN workers \subseteq DOMAIN workers', \A v \in DOMAIN workers : SameJob(v),
         \A v \in DOMAIN workers' \ DOMAIN workers : workers'[v].pc = "send",
         \A i \in DownloadId : Holds(i)' =>
           \/ /\ Holds(i) /\ Settled'[i].name = Settled[i].name
              /\ Settled'[i].etag = Settled[i].etag
           \/ Settled'[i].etag = None,
         \A v \in DOMAIN workers : Settled'[workers[v].id].etag = Settled[workers[v].id].etag,
         \A n \in DOMAIN parts' : (n \in DOMAIN parts /\ parts'[n] = parts[n]) \/ parts'[n] = <<>>,
         \A v \in DOMAIN workers : Writing(v) /\ workers[v].name \in DOMAIN parts =>
                                     workers[v].name \in DOMAIN parts',
         \A t \in Tables(rows', queue') :
           \/ t \in Tables(rows, queue)
           \/ /\ Settled \in Tables(rows, queue)
              /\ \A i \in DOMAIN t : t[i].state = "completed" =>
                   /\ i \in DOMAIN Settled /\ Settled[i].state = "completed"
                   /\ t[i].name = Settled[i].name
  PROVE  ContentInv'
<1>1. PartsAreOneVersion /\ HoldersAreTold /\ JobsContent /\ CompletedAreWhole
  BY DEF ContentInv
<1>2. PartsAreOneVersion'
  BY <1>1, EmptyPiece, EtagOfServer DEF PartsAreOneVersion
<1>3. HoldersAreTold'
  <2>1. SUFFICES ASSUME NEW i \in DownloadId, Holds(i)'
                 PROVE  \/ Tells(Settled[i].name, Settled[i].etag)'
                        \/ \E w \in DOMAIN workers' : workers'[w].id = i /\ Writing(w)'
    BY DEF HoldersAreTold
  <2>2. CASE Settled'[i].etag = None
    BY <2>2 DEF Tells
  <2>3. CASE /\ Holds(i) /\ Settled'[i].name = Settled[i].name
             /\ Settled'[i].etag = Settled[i].etag
    <3>1. CASE Tells(Settled[i].name, Settled[i].etag)
      BY <2>3, <3>1, EmptyPiece DEF Tells
    <3>2. CASE \E w \in DOMAIN workers : workers[w].id = i /\ Writing(w)
      BY <3>2 DEF SameJob, SameTransfer, SameDownload, Writing
    <3>3. QED
      BY <1>1, <2>3, <3>1, <3>2 DEF HoldersAreTold
  <2>4. QED
    BY <2>1, <2>2, <2>3
<1>4. JobsContent'
  <2>1. ASSUME NEW v \in DOMAIN workers
        PROVE  JobContent(workers[v])'
    <3> PICK job : job = workers[v]
      OBVIOUS
    <3> PICK new : new = workers'[v]
      OBVIOUS
    <3>1. /\ new.pc = job.pc /\ new.outcome = job.outcome /\ new.id = job.id
          /\ new.name = job.name /\ new.version = job.version /\ new.got = job.got
          /\ Settled'[job.id].etag = Settled[job.id].etag
      BY DEF SameJob, SameTransfer, SameDownload
    <3>2. JobContent(job) /\ JobOnDisk(job)
      BY <1>1 DEF JobsContent, FileInv, CountsAreOnDisk
    <3>3. job.pc \in {"open", "check", "read", "rename"} /\ job.name \in DOMAIN parts =>
            /\ job.name \in DOMAIN parts'
            /\ \A u : Piece(parts[job.name], u) => Piece(parts'[job.name], u)
      BY EmptyPiece DEF Writing
    <3>4. job.pc \in {"check", "read", "rename"} => job.name \in DOMAIN parts
      BY <3>2 DEF JobOnDisk
    <3>5. /\ new.pc \in {"open", "check", "read", "rename"} =>
               \A u \in Version :
                 Settled'[new.id].etag # None /\ Validator[u] = Settled'[new.id].etag =>
                   u = new.version
          /\ new.pc = "open" /\ new.got > 0 =>
               new.name \in DOMAIN parts' /\ Piece(parts'[new.name], new.version)
          /\ new.pc \in {"check", "read", "rename"} => Piece(parts'[new.name], new.version)
          /\ new.pc = "rename" /\ new.version \in Announced => new.got = Size
          /\ new.pc \in {"settle", "leave"} /\ new.outcome = "completed" =>
               new.name \in DOMAIN dests' /\ Whole(dests'[new.name])
      BY <3>1, <3>2, <3>3, <3>4 DEF JobContent
    <3>6. QED
      BY <3>5 DEF JobContent
  <2>2. ASSUME NEW v \in DOMAIN workers' \ DOMAIN workers
        PROVE  JobContent(workers[v])'
    BY <2>2 DEF JobContent
  <2>3. QED
    BY <2>1, <2>2 DEF JobsContent
<1>5. CompletedAreWhole'
  BY <1>1 DEF CompletedAreWhole, CompletedIn
<1>6. QED
  BY <1>2, <1>3, <1>4, <1>5 DEF ContentInv

\* The others, when one transfer, its row and its files change
LEMMA WorkerContent ==
  ASSUME Inv, FileInv, ContentInv, NEW w \in DOMAIN workers,
         workers[w].pc \notin {"settle", "leave"}, Moves(w),
         workers'[w].id = workers[w].id, workers'[w].name = workers[w].name,
         SameElsewhere(workers[w].name),
         DOMAIN Settled' = DOMAIN Settled, OthersKept(Settled, Settled', workers[w].id),
         Settled'[workers[w].id].name = Settled[workers[w].id].name,
         Settled'[workers[w].id].state = Settled[workers[w].id].state,
         Tables(rows', queue') \subseteq Tables(rows, queue) \cup {Settled'},
         DOMAIN parts' \subseteq FileName,
         workers[w].name \in DOMAIN parts' => \E v \in Version : Piece(parts'[workers[w].name], v),
         workers[w].name \in DOMAIN dests => workers[w].name \in DOMAIN dests',
         workers[w].name \in DOMAIN dests' =>
           \/ Whole(dests'[workers[w].name])
           \/ workers[w].name \in DOMAIN dests /\ dests'[workers[w].name] = dests[workers[w].name],
         \/ Writing(w)'
         \/ GivenUp(w)'
         \/ Tells(workers[w].name, Settled[workers[w].id].etag)',
         JobContent(workers[w])'
  PROVE  ContentInv'
<1> PICK name : name = workers[w].name
  OBVIOUS
<1> PICK id : id = workers[w].id
  OBVIOUS
<1>1. PartsAreOneVersion /\ HoldersAreTold /\ JobsContent /\ CompletedAreWhole
  BY DEF ContentInv
<1>2. id \in DownloadId /\ name \in FileName /\ Holds(id) /\ Settled[id].name = name
      /\ id \in DOMAIN Settled /\ Settled[id].state = "active"
  BY TransferHolds, JobFields DEF Inv, RowOfWorker
<1>3. \A n \in FileName : n \in DOMAIN dests =>
        /\ n \in DOMAIN dests'
        /\ Whole(dests[n]) => Whole(dests'[n])
  BY DEF SameElsewhere
<1>4. PartsAreOneVersion'
  BY <1>1 DEF PartsAreOneVersion, SameElsewhere
<1>5. HoldersAreTold'
  <2>1. SUFFICES ASSUME NEW i \in DownloadId, Holds(i)'
                 PROVE  \/ Tells(Settled[i].name, Settled[i].etag)'
                        \/ \E v \in DOMAIN workers' : workers'[v].id = i /\ Writing(v)'
    BY DEF HoldersAreTold
  <2>2. CASE i = id
    <3>1. ~GivenUp(w)'
      BY <2>1, <2>2 DEF Holds, Moves
    <3>2. CASE Writing(w)'
      BY <2>2, <3>2 DEF Moves
    <3>3. CASE Tells(workers[w].name, Settled[workers[w].id].etag)'
      BY <1>2, <2>2, <3>3 DEF Tells
    <3>4. QED
      BY <3>1, <3>2, <3>3
  <2>3. CASE i # id
    <3>1. Settled'[i] = Settled[i] /\ i \in DOMAIN Settled
      BY <2>1, <2>3 DEF Holds, OthersKept
    <3>2. \A v \in DOMAIN workers : workers[v].id = i => workers'[v] = workers[v]
      BY <2>3 DEF Moves
    <3>3. Holds(i)
      BY <2>1, <3>1, <3>2 DEF Holds, GivenUp, Moves
    <3>4. Settled[i].name # name /\ Settled[i].name \in FileName
      <4>1. Settled[i].name # name
        BY <1>2, <2>3, <3>3 DEF FileInv, NamesAreHeld
      <4>2. Settled[i] \in RowT
        BY <3>1, SettledTyped DEF Inv, TableT
      <4>3. QED
        BY <4>1, <4>2 DEF RowT
    <3>5. CASE Tells(Settled[i].name, Settled[i].etag)
      BY <3>1, <3>4, <3>5 DEF Tells, SameElsewhere
    <3>6. CASE \E v \in DOMAIN workers : workers[v].id = i /\ Writing(v)
      BY <3>2, <3>6 DEF Moves, Writing
    <3>7. QED
      BY <1>1, <3>3, <3>5, <3>6 DEF HoldersAreTold
  <2>4. QED
    BY <2>2, <2>3
<1>6. JobsContent'
  <2>1. ASSUME NEW v \in DOMAIN workers, v # w
        PROVE  JobContent(workers[v])'
    <3> PICK job : job = workers[v]
      OBVIOUS
    <3>1. /\ workers'[v] = job /\ JobContent(job) /\ job.name \in FileName
          /\ Settled'[job.id] = Settled[job.id]
      <4>1. job.id # id /\ job.id \in DOMAIN Settled
        BY <2>1, OneWorkerEach DEF Inv, RowOfWorker
      <4>2. QED
        BY <1>1, <2>1, <4>1, JobFields DEF Moves, JobsContent, OthersKept
    <3>2. job.pc \notin {"settle", "leave"} =>
            /\ job.name \in DOMAIN parts => job.name \in DOMAIN parts'
            /\ job.name \in DOMAIN parts => parts'[job.name] = parts[job.name]
      BY <2>1, <3>1, NamesApart DEF FileInv, SameElsewhere
    <3>3. job.pc \in {"check", "read", "rename"} => job.name \in DOMAIN parts
      BY <2>1 DEF FileInv, CountsAreOnDisk, JobOnDisk
    <3>4. /\ job.pc \in {"open", "check", "read", "rename"} =>
               \A u \in Version :
                 Settled'[job.id].etag # None /\ Validator[u] = Settled'[job.id].etag =>
                   u = job.version
          /\ job.pc = "open" /\ job.got > 0 =>
               job.name \in DOMAIN parts' /\ Piece(parts'[job.name], job.version)
          /\ job.pc \in {"check", "read", "rename"} => Piece(parts'[job.name], job.version)
          /\ job.pc = "rename" /\ job.version \in Announced => job.got = Size
          /\ job.pc \in {"settle", "leave"} /\ job.outcome = "completed" =>
               job.name \in DOMAIN dests' /\ Whole(dests'[job.name])
      BY <1>3, <3>1, <3>2, <3>3 DEF JobContent
    <3>5. QED
      BY <3>1, <3>4 DEF JobContent
  <2>2. QED
    BY <2>1 DEF JobsContent, Moves
<1>7. CompletedAreWhole'
  <2>1. ASSUME NEW t, TableT(t), CompletedIn(t)
        PROVE  CompletedIn(t)'
    <3>1. ASSUME NEW i \in DOMAIN t, t[i].state = "completed"
          PROVE  t[i].name \in DOMAIN dests' /\ Whole(dests'[t[i].name])
      <4>1. t[i].name \in FileName
        BY <2>1, <3>1 DEF TableT, RowT
      <4>2. QED
        BY <1>3, <2>1, <3>1, <4>1 DEF CompletedIn
    <3>2. QED
      BY <3>1 DEF CompletedIn
  <2>2. \A t \in Tables(rows, queue) : CompletedIn(t)'
    BY <1>1, <2>1 DEF CompletedAreWhole, Inv, Types
  <2>3. CompletedIn(Settled)'
    <3>1. ASSUME NEW i \in DOMAIN Settled', Settled'[i].state = "completed"
          PROVE  Settled'[i].name \in DOMAIN dests' /\ Whole(dests'[Settled'[i].name])
      <4>1. i # id /\ Settled'[i] = Settled[i] /\ i \in DOMAIN Settled
        BY <1>2, <3>1 DEF OthersKept
      <4>2. Settled \in Tables(rows, queue) /\ TableT(Settled)
        BY SettledTyped DEF Inv
      <4>3. Settled[i].name \in FileName /\ Settled[i].name \in DOMAIN dests
            /\ Whole(dests[Settled[i].name])
        BY <1>1, <3>1, <4>1, <4>2 DEF TableT, RowT, CompletedAreWhole, CompletedIn
      <4>4. QED
        BY <1>3, <4>1, <4>3
    <3>2. QED
      BY <3>1 DEF CompletedIn
  <2>4. QED
    BY <2>2, <2>3 DEF CompletedAreWhole
<1>8. QED
  BY <1>4, <1>5, <1>6, <1>7 DEF ContentInv

(***************************************************************************)
(* Content: the steps                                                      *)
(***************************************************************************)

LEMMA QuietContent ==
  ASSUME Inv, FileInv, ContentInv, Quiet
  PROVE  ContentInv'
<1>1. /\ parts' = parts /\ dests' = dests /\ Settled' = Settled
      /\ Tables(rows', queue') \subseteq Tables(rows, queue)
      /\ DOMAIN workers' = DOMAIN workers /\ \A v \in DOMAIN workers : SameJob(v)
  BY DEF Quiet, SameChannelOrLess
<1>2. \A i \in DownloadId : (Holds(i)' <=> Holds(i)) /\ Settled'[i].name = Settled[i].name
  BY QuietHolds
<1>3. QED
  BY <1>1, <1>2, CallContent

LEMMA ChoosesContent ==
  ASSUME Inv, FileInv, ContentInv, OneCaller, NEW c \in Thread, Chooses(c)
  PROVE  ContentInv'
<1>1. /\ workers' = workers /\ parts' = parts /\ dests' = dests /\ Settled' = Settled
      /\ Tables(rows', queue') \subseteq Tables(rows, queue)
  BY ChoosesCall DEF SameChannelOrLess
<1>2. \A i \in DownloadId : Holds(i)' => Holds(i)
  BY <1>1 DEF Holds, GivenUp
<1>3. QED
  BY <1>1, <1>2, SameJobs, CallContent

LEMMA ReserveContent ==
  ASSUME Inv, FileInv, ContentInv, OneCaller, NEW c \in Thread, Reserve(c)
  PROVE  ContentInv'
<1> PICK id : id = callers[c].id
  OBVIOUS
<1> PICK name : name = callers[c].name
  OBVIOUS
<1>1. Reserves(c, id, name)
  <2>1. Reserves(c, callers[c].id, callers[c].name)
    BY ReserveRow
  <2>2. QED
    BY <2>1
<1>2. /\ id \notin DOMAIN Settled /\ DOMAIN Settled' = DOMAIN Settled \cup {id}
      /\ OthersKept(Settled, Settled', id)
      /\ Settled'[id] = [name |-> name, received |-> 0, state |-> "active", etag |-> None]
      /\ Tables(rows', queue') = Tables(rows, queue) \cup {Settled'}
      /\ \A w \in DOMAIN workers : workers[w].id # id
      /\ parts' = parts \/ parts' = Put(parts, name, <<>>)
      /\ dests' = dests /\ workers' = workers
  BY <1>1 DEF Reserves
<1>3. Settled'[id].etag = None /\ Settled'[id].state = "active"
  BY <1>2
<1>4. \A i \in DownloadId : Holds(i)' =>
        \/ /\ Holds(i) /\ Settled'[i].name = Settled[i].name /\ Settled'[i].etag = Settled[i].etag
        \/ Settled'[i].etag = None
  <2>1. SUFFICES ASSUME NEW i \in DownloadId, Holds(i)', i # id
                 PROVE  /\ Holds(i) /\ Settled'[i].name = Settled[i].name
                        /\ Settled'[i].etag = Settled[i].etag
    BY <1>3
  <2>2. i \in DOMAIN Settled /\ Settled'[i] = Settled[i]
    BY <1>2, <2>1 DEF Holds, OthersKept
  <2>3. QED
    BY <1>2, <2>1, <2>2 DEF Holds, GivenUp
<1>5. \A v \in DOMAIN workers : Settled'[workers[v].id].etag = Settled[workers[v].id].etag
  BY <1>2 DEF OthersKept, Inv, RowOfWorker
<1>6. /\ \A n \in DOMAIN parts' : (n \in DOMAIN parts /\ parts'[n] = parts[n]) \/ parts'[n] = <<>>
      /\ DOMAIN parts \subseteq DOMAIN parts'
  BY <1>2 DEF Put
<1>7. ASSUME NEW t \in Tables(rows', queue'), t \notin Tables(rows, queue)
      PROVE  /\ Settled \in Tables(rows, queue)
             /\ \A i \in DOMAIN t : t[i].state = "completed" =>
                  /\ i \in DOMAIN Settled /\ Settled[i].state = "completed"
                  /\ t[i].name = Settled[i].name
  <2>1. t = Settled'
    BY <1>2, <1>7
  <2>2. ASSUME NEW i \in DOMAIN t, t[i].state = "completed"
        PROVE  i \in DOMAIN Settled /\ t[i] = Settled[i]
    BY <1>2, <1>3, <2>1, <2>2 DEF OthersKept
  <2>3. QED
    BY <2>2, SettledTyped DEF Inv
<1>8. QED
  BY <1>2, <1>4, <1>5, <1>6, <1>7, SameJobs, CallContent

LEMMA SpawnWorkerContent ==
  ASSUME Inv, FileInv, ContentInv, NEW c \in Thread, NEW w \in Worker, SpawnWorker(c, w)
  PROVE  ContentInv'
<1> PICK job : job = [pc |-> "send", id |-> callers[c].id, name |-> callers[c].name,
                      from |-> callers[c].from, etag |-> callers[c].etag, control |-> "run",
                      version |-> None, got |-> 0, received |-> callers[c].from, outcome |-> None]
  OBVIOUS
<1>1. /\ w \notin DOMAIN workers /\ workers' = Put(workers, w, job)
      /\ rows' = rows /\ queue' = queue /\ parts' = parts /\ dests' = dests
  BY DEF SpawnWorker, files, FreshWorker
<1>2. /\ DOMAIN workers' = DOMAIN workers \cup {w} /\ workers'[w].pc = "send"
      /\ \A v \in DOMAIN workers : workers'[v] = workers[v]
  BY <1>1 DEF Put
<1>3. Settled' = Settled /\ Tables(rows', queue') = Tables(rows, queue)
  BY <1>1, SameChannel
<1>4. \A v \in DOMAIN workers : SameJob(v) /\ (GivenUp(v)' <=> GivenUp(v))
  BY <1>2 DEF SameJob, SameTransfer, SameDownload, GivenUp
<1>5. \A i \in DownloadId : Holds(i)' => Holds(i)
  BY <1>2, <1>3, <1>4 DEF Holds
<1>6. QED
  BY <1>1, <1>2, <1>3, <1>4, <1>5, CallContent

\* A call that writes a row does not complete it.
LEMMA RowStepContent ==
  ASSUME Inv, FileInv, ContentInv, NEW c, NEW id, NEW state, RowStep(c, id, state),
         state # "completed", Holds(id)' => Holds(id), workers' = workers, dests' = dests,
         \A n \in DOMAIN parts' : n \in DOMAIN parts /\ parts'[n] = parts[n],
         \A v \in DOMAIN workers : Writing(v) /\ workers[v].name \in DOMAIN parts =>
                                     workers[v].name \in DOMAIN parts'
  PROVE  ContentInv'
<1>1. /\ id \in DOMAIN Settled /\ DOMAIN Settled' = DOMAIN Settled
      /\ OthersKept(Settled, Settled', id)
      /\ Settled'[id].name = Settled[id].name /\ Settled'[id].state = state
      /\ Settled'[id].etag = Settled[id].etag
      /\ Tables(rows', queue') = Tables(rows, queue) \cup {Settled'}
  BY DEF RowStep
<1>2. \A i \in DownloadId : Holds(i)' => Holds(i) /\ Settled'[i].name = Settled[i].name
  BY <1>1, RowHolds
<1>3. \A i \in DOMAIN Settled : Settled'[i].etag = Settled[i].etag
  BY <1>1 DEF OthersKept
<1>4. ASSUME NEW t \in Tables(rows', queue'), t \notin Tables(rows, queue)
      PROVE  /\ Settled \in Tables(rows, queue)
             /\ \A i \in DOMAIN t : t[i].state = "completed" =>
                  /\ i \in DOMAIN Settled /\ Settled[i].state = "completed"
                  /\ t[i].name = Settled[i].name
  <2>1. t = Settled'
    BY <1>1, <1>4
  <2>2. ASSUME NEW i \in DOMAIN t, t[i].state = "completed"
        PROVE  i \in DOMAIN Settled /\ t[i] = Settled[i]
    BY <1>1, <2>1, <2>2 DEF OthersKept
  <2>3. QED
    BY <2>2, SettledTyped DEF Inv
<1>5. \A i \in DownloadId : Holds(i)' => i \in DOMAIN Settled
  BY <1>2 DEF Holds
<1>6. \A v \in DOMAIN workers : workers[v].id \in DOMAIN Settled
  BY DEF Inv, RowOfWorker
<1>7. QED
  BY <1>2, <1>3, <1>4, <1>5, <1>6, SameJobs, CallContent

LEMMA GoesOnContent ==
  ASSUME Inv, FileInv, ContentInv, OneCaller, NEW c \in Thread, GoesOn(c)
  PROVE  ContentInv'
<1> PICK id : id = callers[c].id
  OBVIOUS
<1>1. GoingOn(c, id)
  <2>1. GoingOn(c, callers[c].id)
    BY GoesOnRow
  <2>2. QED
    BY <2>1
<1>2. RowStep(c, id, "active") /\ workers' = workers /\ parts' = parts /\ dests' = dests
  BY <1>1 DEF GoingOn
<1>3. Holds(id)
  <2>1. Settled[id].state \notin Over /\ id \in DOMAIN Settled
        /\ \A w \in DOMAIN workers : workers[w].id # id
    BY <1>1, <1>2 DEF GoingOn, RowStep, Over
  <2>2. QED
    BY <2>1 DEF Holds
<1>4. QED
  BY <1>2, <1>3, RowStepContent

LEMMA CancelsContent ==
  ASSUME Inv, FileInv, ContentInv, OneCaller, NEW c \in Thread, Cancels(c)
  PROVE  ContentInv'
<1> PICK id : id = callers[c].id
  OBVIOUS
<1>1. Cancelling(c, id)
  <2>1. Cancelling(c, callers[c].id)
    BY CancelsRow
  <2>2. QED
    BY <2>1
<1> PICK name : name = Settled[id].name
  OBVIOUS
<1>2. RowStep(c, id, "cancelled") /\ workers' = workers /\ dests' = dests
      /\ parts' = Drop(parts, {name})
  BY <1>1 DEF Cancelling
<1>3. DOMAIN parts' = DOMAIN parts \ {name} /\ \A n \in DOMAIN parts' : parts'[n] = parts[n]
  BY <1>2 DEF Drop
<1>4. Holds(id) /\ id \in DownloadId /\ \A w \in DOMAIN workers : workers[w].id # id
  <2>1. Settled[id].state \notin Over /\ id \in DOMAIN Settled /\ id \in DownloadId
        /\ \A w \in DOMAIN workers : workers[w].id # id
    BY <1>1, <1>2 DEF Cancelling, RowStep, Over
  <2>2. QED
    BY <2>1 DEF Holds
<1>5. ASSUME NEW v \in DOMAIN workers, Writing(v)
      PROVE  workers[v].name # name
  <2>1. Holds(workers[v].id) /\ Settled[workers[v].id].name = workers[v].name
        /\ workers[v].id \in DownloadId
    BY <1>5, TransferHolds, JobFields DEF Writing
  <2>2. QED
    BY <1>4, <2>1 DEF FileInv, NamesAreHeld
<1>6. QED
  BY <1>2, <1>3, <1>4, <1>5, RowStepContent

LEMMA ResumeInterruptedContent ==
  ASSUME Inv, FileInv, ContentInv, NEW c \in Thread, ResumeInterrupted(c)
  PROVE  ContentInv'
<1>1. Marks(c)
  BY MarksRows
<1>2. /\ DOMAIN workers = {} /\ DOMAIN workers' = {} /\ parts' = parts /\ dests' = dests
      /\ Tables(rows, queue) = {Settled} /\ Tables(rows', queue') = {Settled, Settled'}
      /\ DOMAIN Settled' = DOMAIN Settled
  BY <1>1 DEF Marks
<1>3. \A i \in DOMAIN Settled :
        /\ Settled'[i].name = Settled[i].name /\ Settled'[i].etag = Settled[i].etag
        /\ Settled'[i].state = (IF Settled[i].state = "active" THEN "interrupted" ELSE Settled[i].state)
  BY <1>1 DEF Marks
<1>4. \A i \in DownloadId : Holds(i)' => i \in DOMAIN Settled /\ Holds(i)
  BY <1>2, <1>3 DEF Holds, Over
<1>5. QED
  BY <1>2, <1>3, <1>4, CallContent

\* After a crash there is one version: each .part is of it.
LEMMA RestartContent ==
  ASSUME Inv, ContentInv, VersionsAreTold, Restart
  PROVE  ContentInv'
<1>1. Rests
  BY RestartRests
<1>2. /\ DOMAIN workers' = {} /\ parts' = parts /\ dests' = dests
      /\ Tables(rows', queue') = {rows} /\ rows \in Tables(rows, queue)
      /\ \A u, v \in Version : u = v
  BY <1>1 DEF Rests, VersionsAreTold
<1>3. PartsAreOneVersion' /\ JobsContent'
  BY <1>2 DEF ContentInv, PartsAreOneVersion, JobsContent
<1>4. HoldersAreTold'
  <2>1. \A n \in DOMAIN parts : \A v \in Version : Piece(parts[n], v)
    BY <1>2 DEF ContentInv, PartsAreOneVersion
  <2>2. ASSUME NEW i \in DownloadId
        PROVE  Tells(Settled[i].name, Settled[i].etag)'
    BY <1>2, <2>1 DEF Tells
  <2>3. QED
    BY <2>2 DEF HoldersAreTold
<1>5. CompletedAreWhole'
  BY <1>2 DEF ContentInv, CompletedAreWhole, CompletedIn
<1>6. QED
  BY <1>3, <1>4, <1>5 DEF ContentInv

LEMMA AdvancesContent ==
  ASSUME Inv, FileInv, ContentInv, NEW w \in DOMAIN workers,
         workers[w].pc \notin {"settle", "leave"}, NEW pc, NEW outcome, Advances(w, pc, outcome),
         SameElsewhere(workers[w].name), DOMAIN parts' \subseteq FileName,
         workers[w].name \in DOMAIN parts' => \E v \in Version : Piece(parts'[workers[w].name], v),
         workers[w].name \in DOMAIN dests => workers[w].name \in DOMAIN dests',
         workers[w].name \in DOMAIN dests' =>
           \/ Whole(dests'[workers[w].name])
           \/ workers[w].name \in DOMAIN dests /\ dests'[workers[w].name] = dests[workers[w].name],
         \/ Writing(w)'
         \/ GivenUp(w)'
         \/ Tells(workers[w].name, Settled[workers[w].id].etag)',
         JobContent(workers[w])'
  PROVE  ContentInv'
<1>1. Moves(w) /\ SameTransfer(w) /\ rows' = rows /\ queue' = queue
  BY DEF Advances
<1>2. Settled' = Settled /\ Tables(rows', queue') = Tables(rows, queue)
  BY <1>1, SameChannel
<1>3. OthersKept(Settled, Settled', workers[w].id)
  BY <1>2 DEF OthersKept
<1>4. workers'[w].id = workers[w].id /\ workers'[w].name = workers[w].name
  BY <1>1 DEF SameTransfer, SameDownload
<1>5. QED
  BY <1>1, <1>2, <1>3, <1>4, WorkerContent

LEMMA StaysContent ==
  ASSUME Inv, FileInv, ContentInv, NEW w \in DOMAIN workers,
         workers[w].pc \notin {"settle", "leave"}, NEW pc, NEW outcome, Advances(w, pc, outcome),
         parts' = parts, dests' = dests,
         \/ Writing(w)'
         \/ Tells(workers[w].name, Settled[workers[w].id].etag)',
         JobContent(workers[w])'
  PROVE  ContentInv'
<1>1. SameElsewhere(workers[w].name) /\ DOMAIN parts' \subseteq FileName
  BY FilesElsewhere, FilesTyped
<1>2. workers[w].name \in DOMAIN parts' => \E v \in Version : Piece(parts'[workers[w].name], v)
  BY DEF ContentInv, PartsAreOneVersion
<1>3. QED
  BY <1>1, <1>2, AdvancesContent

\* What a worker has written, it leaves under the validator that was sent with it.
LEMMA WrittenIsTold ==
  ASSUME Inv, ContentInv, NEW w \in DOMAIN workers, workers[w].pc \in {"check", "read"},
         NEW outcome, Advances(w, "settle", outcome), parts' = parts
  PROVE  Tells(workers[w].name, Settled[workers[w].id].etag)'
<1>1. JobContent(workers[w])
  BY DEF ContentInv, JobsContent
<1>2. Tells(workers[w].name, Settled[workers[w].id].etag)
  BY <1>1 DEF JobContent, Tells
<1>3. /\ rows' = rows /\ queue' = queue
      /\ workers'[w].name = workers[w].name /\ workers'[w].id = workers[w].id
  BY DEF Advances, SameTransfer, SameDownload
<1>4. Settled' = Settled
  BY <1>3, SameChannel
<1>5. QED
  BY <1>2, <1>3, <1>4 DEF Tells

\* A transfer that is over, and not completed, claims nothing.
LEMMA OverClaims ==
  ASSUME NEW w, workers'[w].pc = "settle", workers'[w].outcome # "completed"
  PROVE  JobContent(workers[w])'
<1> PICK new : new = workers'[w]
  OBVIOUS
<1>1. new.pc = "settle" /\ new.outcome # "completed"
  OBVIOUS
<1>2. QED
  BY <1>1 DEF JobContent

\* Before the headers, the validator tells what the .part holds.
LEMMA SenderIsTold ==
  ASSUME Inv, ContentInv, NEW w \in DOMAIN workers, workers[w].pc = "send"
  PROVE  /\ Tells(workers[w].name, Settled[workers[w].id].etag)
         /\ workers[w].etag = Settled[workers[w].id].etag
<1>1. Holds(workers[w].id) /\ Settled[workers[w].id].name = workers[w].name
      /\ workers[w].id \in DownloadId
  BY TransferHolds, JobFields
<1>2. ~\E v \in DOMAIN workers : workers[v].id = workers[w].id /\ Writing(v)
  BY OneWorkerEach DEF Writing
<1>3. QED
  BY <1>1, <1>2 DEF ContentInv, HoldersAreTold, Inv, RowOfWorker

LEMMA SendRequestContent ==
  ASSUME Inv, FileInv, ContentInv, VersionsAreTold, NEW w \in DOMAIN workers, SendRequest(w)
  PROVE  ContentInv'
<1> PICK name : name = workers[w].name
  OBVIOUS
<1> PICK id : id = workers[w].id
  OBVIOUS
<1>1. workers[w].pc = "send"
  BY SendCases
<1>2. Tells(name, Settled[id].etag) /\ workers[w].etag = Settled[id].etag
  BY <1>1, SenderIsTold
<1>3. CASE Advances(w, "settle", "interrupted") /\ parts' = parts /\ dests' = dests
  <2>1. /\ rows' = rows /\ queue' = queue /\ workers'[w].name = name /\ workers'[w].id = id
        /\ workers'[w].pc = "settle" /\ workers'[w].outcome # "completed"
    BY <1>3 DEF Advances, SameTransfer, SameDownload
  <2>2. Settled' = Settled
    BY <2>1, SameChannel
  <2>3. Tells(workers[w].name, Settled[workers[w].id].etag)'
    BY <1>2, <1>3, <2>1, <2>2 DEF Tells
  <2>4. JobContent(workers[w])'
    BY <2>1, OverClaims
  <2>5. QED
    BY <1>1, <1>3, <2>3, <2>4, StaysContent
<1>4. ASSUME NEW got, NEW received, HasHeaders(w, got, received),
             got > 0 => ServerAgrees(w) /\ got = workers[w].from
      PROVE  ContentInv'
  <2>1. /\ Moves(w) /\ SameDownload(w) /\ workers'[w].pc = "open" /\ workers'[w].version = server
        /\ workers'[w].got = got /\ parts' = parts /\ dests' = dests /\ server' = server
        /\ DOMAIN Settled' = DOMAIN Settled /\ OthersKept(Settled, Settled', id)
        /\ Settled'[id].name = Settled[id].name /\ Settled'[id].state = Settled[id].state
        /\ Settled'[id].etag =
             (IF Validator[server] = None THEN Settled[id].etag ELSE Validator[server])
        /\ Tables(rows', queue') = Tables(rows, queue) \cup {Settled'}
    BY <1>4 DEF HasHeaders
  <2>2. workers'[w].id = id /\ workers'[w].name = name
    BY <2>1 DEF SameDownload
  <2>3. server \in Version
    BY EtagOfServer
  <2>4. ASSUME NEW v \in Version, Settled'[id].etag # None, Validator[v] = Settled'[id].etag
        PROVE  v = server
    <3>1. CASE Validator[server] # None
      BY <2>1, <2>3, <2>4, <3>1, ValidatorsTellVersions
    <3>2. CASE Validator[server] = None
      BY <2>3, <2>4, <3>2 DEF VersionsAreTold
    <3>3. QED
      BY <3>1, <3>2
  <2>5. got > 0 => name \in DOMAIN parts /\ Piece(parts[name], server)
    <3>1. SUFFICES ASSUME got > 0
                   PROVE  name \in DOMAIN parts /\ Piece(parts[name], server)
      OBVIOUS
    <3>2. workers[w].from > 0 /\ Settled[id].etag # None /\ Settled[id].etag = Validator[server]
      BY <1>2, <1>4, <3>1 DEF ServerAgrees, WantsResume
    <3>3. workers[w].from = OnDisk(name)
      BY <1>1 DEF FileInv, CountsAreOnDisk, JobOnDisk
    <3>4. name \in DOMAIN parts
      BY <3>2, <3>3, SMT DEF OnDisk
    <3>5. QED
      BY <1>2, <2>3, <3>2, <3>4 DEF Tells
  <2>6. JobContent(workers[w])'
    <3> PICK new : new = workers'[w]
      OBVIOUS
    <3>1. /\ new.pc \in {"open", "check", "read", "rename"} =>
               \A u \in Version :
                 Settled'[new.id].etag # None /\ Validator[u] = Settled'[new.id].etag =>
                   u = new.version
          /\ new.pc = "open" /\ new.got > 0 =>
               new.name \in DOMAIN parts' /\ Piece(parts'[new.name], new.version)
          /\ new.pc = "open"
      BY <2>1, <2>2, <2>4, <2>5
    <3>2. QED
      BY <3>1 DEF JobContent
  <2>7. SameElsewhere(name) /\ DOMAIN parts' \subseteq FileName
    BY <2>1, FilesElsewhere, FilesTyped
  <2>8. name \in DOMAIN parts' => \E v \in Version : Piece(parts'[name], v)
    BY <2>1 DEF ContentInv, PartsAreOneVersion
  <2>9. Writing(w)'
    BY <2>1 DEF Writing
  <2>10. QED
    BY <1>1, <2>1, <2>2, <2>6, <2>7, <2>8, <2>9, WorkerContent
<1>5. CASE HasHeaders(w, workers[w].from, workers[w].received) /\ ServerAgrees(w)
  BY <1>4, <1>5
<1>6. CASE HasHeaders(w, 0, IF WantsResume(w) THEN 0 ELSE workers[w].received)
  <2>1. ~(0 > 0)
    BY SMT
  <2>2. QED
    BY <1>4, <1>6, <2>1
<1>7. QED
  BY <1>3, <1>5, <1>6, SendCases

LEMMA OpenPartContent ==
  ASSUME Inv, FileInv, ContentInv, VersionsAreTold, NEW w \in DOMAIN workers, OpenPart(w)
  PROVE  ContentInv'
<1> PICK job : job = workers[w]
  OBVIOUS
<1> PICK name : name = job.name
  OBVIOUS
<1>1. job.pc = "open" /\ dests' = dests /\ name \in FileName
  BY OpenCases, JobFields
<1>2. JobContent(job) /\ job.version \in Version
  BY <1>1 DEF ContentInv, JobsContent, Inv, RowOfWorker
<1>3. CASE Advances(w, "check", job.outcome)
  <2> PICK new : new = workers'[w]
    OBVIOUS
  <2>1. /\ new.pc = "check" /\ new.name = name /\ new.got = job.got
        /\ new.version = job.version /\ new.id = job.id
        /\ rows' = rows /\ queue' = queue
    BY <1>3 DEF Advances, SameTransfer, SameDownload
  <2>2. Settled' = Settled /\ Writing(w)'
    BY <2>1, SameChannel DEF Writing
  <2>3. ASSUME Piece(parts'[name], job.version)
        PROVE  JobContent(workers[w])'
    <3>1. /\ \A u \in Version :
               Settled'[new.id].etag # None /\ Validator[u] = Settled'[new.id].etag =>
                 u = new.version
          /\ Piece(parts'[new.name], new.version) /\ new.pc = "check"
      BY <1>1, <1>2, <2>1, <2>2, <2>3 DEF JobContent
    <3>2. QED
      BY <3>1 DEF JobContent
  <2>4. CASE parts' = Put(parts, name, <<>>)
    <3>1. /\ DOMAIN parts' = DOMAIN parts \cup {name} /\ parts'[name] = <<>>
          /\ \A n \in DOMAIN parts \ {name} : parts'[n] = parts[n]
      BY <2>4 DEF Put
    <3>2. Piece(parts'[name], job.version)
      BY <3>1, EmptyPiece
    <3>3. SameElsewhere(name) /\ DOMAIN parts' \subseteq FileName
      BY <1>1, <3>1, FilesTyped DEF SameElsewhere
    <3>4. QED
      BY <1>1, <1>2, <1>3, <2>2, <2>3, <3>2, <3>3, AdvancesContent
  <2>5. CASE job.got > 0 /\ parts' = parts
    <3>1. Piece(parts'[name], job.version)
      BY <1>1, <1>2, <2>5 DEF JobContent
    <3>2. QED
      BY <1>1, <1>3, <2>2, <2>3, <2>5, <3>1, StaysContent
  <2>6. ~Advances(w, "settle", "interrupted")
    BY <2>1 DEF Advances
  <2>7. QED
    BY <2>4, <2>5, <2>6, OpenCases
<1>4. CASE "disk" \in Faults \/ (job.got > 0 /\ name \notin DOMAIN parts)
  BY <1>1, <1>2, <1>4 DEF JobContent, VersionsAreTold
<1>5. QED
  BY <1>3, <1>4, OpenCases

LEMMA CheckControlContent ==
  ASSUME Inv, FileInv, ContentInv, NEW w \in DOMAIN workers, CheckControl(w)
  PROVE  ContentInv'
<1> PICK job : job = workers[w]
  OBVIOUS
<1> PICK name : name = job.name
  OBVIOUS
<1>1. job.pc = "check" /\ dests' = dests /\ name \in FileName
  BY CheckCases, JobFields
<1>2. JobContent(job)
  BY DEF ContentInv, JobsContent
<1>3. CASE Advances(w, "read", job.outcome) /\ parts' = parts
  <2> PICK new : new = workers'[w]
    OBVIOUS
  <2>1. /\ new.pc = "read" /\ new.name = name /\ new.version = job.version /\ new.id = job.id
        /\ rows' = rows /\ queue' = queue
    BY <1>3 DEF Advances, SameTransfer, SameDownload
  <2>2. Settled' = Settled /\ Writing(w)'
    BY <2>1, SameChannel DEF Writing
  <2>3. JobContent(workers[w])'
    <3>1. /\ \A u \in Version :
               Settled'[new.id].etag # None /\ Validator[u] = Settled'[new.id].etag =>
                 u = new.version
          /\ Piece(parts'[new.name], new.version) /\ new.pc = "read"
      BY <1>1, <1>2, <1>3, <2>1, <2>2 DEF JobContent
    <3>2. QED
      BY <3>1 DEF JobContent
  <2>4. QED
    BY <1>1, <1>3, <2>2, <2>3, StaysContent
<1>4. CASE Advances(w, "settle", "paused") /\ parts' = parts
  <2>1. Tells(workers[w].name, Settled[workers[w].id].etag)'
    BY <1>1, <1>4, WrittenIsTold
  <2>2. JobContent(workers[w])'
    BY <1>4, OverClaims DEF Advances
  <2>3. QED
    BY <1>1, <1>4, <2>1, <2>2, StaysContent
<1>5. CASE Advances(w, "settle", "cancelled") /\ parts' = Drop(parts, {name})
  <2>1. DOMAIN parts' = DOMAIN parts \ {name} /\ \A n \in DOMAIN parts' : parts'[n] = parts[n]
    BY <1>5 DEF Drop
  <2>2. SameElsewhere(name) /\ DOMAIN parts' \subseteq FileName
    BY <1>1, <2>1, FilesTyped DEF SameElsewhere
  <2>3. JobContent(workers[w])' /\ GivenUp(w)'
    BY <1>5, OverClaims DEF Advances, GivenUp, Over
  <2>4. QED
    BY <1>1, <1>5, <2>1, <2>2, <2>3, AdvancesContent
<1>6. QED
  BY <1>3, <1>4, <1>5, CheckCases

LEMMA ReadChunkContent ==
  ASSUME Inv, FileInv, ContentInv, NEW w \in DOMAIN workers, ReadChunk(w)
  PROVE  ContentInv'
<1> PICK job : job = workers[w]
  OBVIOUS
<1> PICK name : name = job.name
  OBVIOUS
<1> PICK got : got = job.got + 1
  OBVIOUS
<1> PICK chunk : chunk = <<job.version, got>>
  OBVIOUS
<1> PICK new : new = workers'[w]
  OBVIOUS
<1>1. /\ job.pc = "read" /\ Moves(w) /\ SameDownload(w) /\ new.pc = "check"
      /\ new.version = job.version /\ got <= Size /\ dests' = dests
      /\ parts' = (IF name \in DOMAIN parts THEN [parts EXCEPT ![name] = Append(@, chunk)] ELSE parts)
      /\ DOMAIN Settled' = DOMAIN Settled /\ OthersKept(Settled, Settled', job.id)
      /\ Settled'[job.id].name = Settled[job.id].name
      /\ Settled'[job.id].state = Settled[job.id].state
      /\ Settled'[job.id].etag = Settled[job.id].etag
      /\ Tables(rows', queue') = Tables(rows, queue) \cup {Settled'}
  BY ChunkCases DEF HasChunk
<1>2. new.id = job.id /\ new.name = name /\ name \in FileName
  BY <1>1, JobFields DEF SameDownload
<1>3. JobContent(job) /\ job.version \in Version
  BY <1>1 DEF ContentInv, JobsContent, Inv, RowOfWorker
<1>4. name \in DOMAIN parts /\ Len(parts[name]) = job.got
  BY <1>1 DEF FileInv, CountsAreOnDisk, JobOnDisk
<1>5. DOMAIN parts' = DOMAIN parts /\ parts'[name] = Append(parts[name], chunk)
      /\ \A n \in DOMAIN parts \ {name} : parts'[n] = parts[n]
  BY <1>1, <1>4
<1>6. Piece(parts'[name], job.version)
  <2>1. parts[name] \in ContentT /\ Piece(parts[name], job.version)
    BY <1>1, <1>3, <1>4, FilesTyped DEF JobContent
  <2>2. Len(parts[name]) + 1 <= Size /\ chunk = <<job.version, Len(parts[name]) + 1>>
    BY <1>1, <1>4
  <2>3. Piece(Append(parts[name], <<job.version, Len(parts[name]) + 1>>), job.version)
    BY <1>3, <2>1, <2>2, LongerPiece
  <2>4. QED
    BY <1>5, <2>2, <2>3
<1>7. JobContent(workers[w])'
  <2>1. /\ \A u \in Version :
             Settled'[new.id].etag # None /\ Validator[u] = Settled'[new.id].etag =>
               u = new.version
        /\ Piece(parts'[new.name], new.version) /\ new.pc = "check"
    BY <1>1, <1>2, <1>3, <1>6 DEF JobContent
  <2>2. QED
    BY <2>1 DEF JobContent
<1>8. SameElsewhere(name) /\ DOMAIN parts' \subseteq FileName
  BY <1>1, <1>5, FilesTyped DEF SameElsewhere
<1>9. Writing(w)'
  BY <1>1 DEF Writing
<1>10. QED
  BY <1>1, <1>2, <1>3, <1>6, <1>7, <1>8, <1>9, WorkerContent

LEMMA ReadEndContent ==
  ASSUME Inv, FileInv, ContentInv, NEW w \in DOMAIN workers, ReadEnd(w)
  PROVE  ContentInv'
<1> PICK job : job = workers[w]
  OBVIOUS
<1>1. job.pc = "read" /\ parts' = parts /\ dests' = dests
  BY EndCases
<1>2. CASE Advances(w, "settle", "interrupted")
  <2>1. Tells(workers[w].name, Settled[workers[w].id].etag)'
    BY <1>1, <1>2, WrittenIsTold
  <2>2. JobContent(workers[w])'
    BY <1>2, OverClaims DEF Advances
  <2>3. QED
    BY <1>1, <1>2, <2>1, <2>2, StaysContent
<1>3. CASE /\ Advances(w, "rename", "completed")
           /\ job.version \in Announced => job.got = Size
  <2> PICK new : new = workers'[w]
    OBVIOUS
  <2>1. /\ new.pc = "rename" /\ new.name = job.name /\ new.version = job.version
        /\ new.got = job.got /\ new.id = job.id /\ rows' = rows /\ queue' = queue
    BY <1>3 DEF Advances, SameTransfer, SameDownload
  <2>2. Settled' = Settled /\ Writing(w)' /\ JobContent(job)
    BY <2>1, SameChannel DEF Writing, ContentInv, JobsContent
  <2>3. JobContent(workers[w])'
    <3>1. /\ \A u \in Version :
               Settled'[new.id].etag # None /\ Validator[u] = Settled'[new.id].etag =>
                 u = new.version
          /\ Piece(parts'[new.name], new.version) /\ new.pc = "rename"
          /\ new.version \in Announced => new.got = Size
      BY <1>1, <1>3, <2>1, <2>2 DEF JobContent
    <3>2. QED
      BY <3>1 DEF JobContent
  <2>4. QED
    BY <1>1, <1>3, <2>2, <2>3, StaysContent
<1>4. QED
  BY <1>2, <1>3, EndCases

\* The file that gets its final name is as long as was announced, and of one version.
LEMMA RenamedIsWhole ==
  ASSUME Inv, FileInv, ContentInv, NEW w \in DOMAIN workers, workers[w].pc = "rename"
  PROVE  workers[w].name \in DOMAIN parts /\ Whole(parts[workers[w].name])
<1> PICK job : job = workers[w]
  OBVIOUS
<1>1. JobContent(job) /\ job.version \in Version
  BY DEF ContentInv, JobsContent, Inv, RowOfWorker
<1>2. /\ job.name \in DOMAIN parts /\ Len(parts[job.name]) = job.got
      /\ parts[job.name] \in ContentT /\ Len(parts[job.name]) <= Size
  BY FilesTyped DEF FileInv, CountsAreOnDisk, JobOnDisk, Bounded
<1>3. Piece(parts[job.name], job.version)
      /\ (job.version \in Announced => Len(parts[job.name]) = Size)
  BY <1>1, <1>2 DEF JobContent
<1>4. QED
  BY <1>1, <1>2, <1>3, PieceIsWhole

LEMMA RenameContent ==
  ASSUME Inv, FileInv, ContentInv, VersionsAreTold, NEW w \in DOMAIN workers, Rename(w)
  PROVE  ContentInv'
<1> PICK job : job = workers[w]
  OBVIOUS
<1> PICK name : name = job.name
  OBVIOUS
<1>1. job.pc = "rename" /\ Advances(w, "settle", "completed") /\ name \in FileName
  BY RenameCases, JobFields
<1>2. name \in DOMAIN parts
  BY <1>1, RenamedIsWhole
<1>3. Whole(parts[name])
  BY <1>1, RenamedIsWhole
<1>4. dests' = Put(dests, name, parts[name]) /\ parts' = Drop(parts, {name})
  BY <1>2, RenameCases DEF VersionsAreTold
<1>5. /\ DOMAIN parts' = DOMAIN parts \ {name} /\ \A n \in DOMAIN parts' : parts'[n] = parts[n]
      /\ DOMAIN dests' = DOMAIN dests \cup {name} /\ dests'[name] = parts[name]
      /\ \A n \in DOMAIN dests \ {name} : dests'[n] = dests[n]
  BY <1>4 DEF Drop, Put
<1>6. SameElsewhere(name) /\ DOMAIN parts' \subseteq FileName
  BY <1>5, FilesTyped DEF SameElsewhere
<1> PICK new : new = workers'[w]
  OBVIOUS
<1>7. new.pc = "settle" /\ new.name = name
  BY <1>1 DEF Advances, SameTransfer, SameDownload
<1>8. JobContent(workers[w])'
  <2>1. new.pc = "settle" /\ new.name \in DOMAIN dests' /\ Whole(dests'[new.name])
    BY <1>3, <1>5, <1>7
  <2>2. QED
    BY <2>1 DEF JobContent
<1>9. Tells(workers[w].name, Settled[workers[w].id].etag)'
  BY <1>5, <1>7 DEF Tells
<1>10. QED
  BY <1>1, <1>3, <1>5, <1>6, <1>8, <1>9, AdvancesContent

LEMMA SettleContent ==
  ASSUME Inv, FileInv, ContentInv, NEW w \in DOMAIN workers, Settle(w)
  PROVE  ContentInv'
<1> PICK job : job = workers[w]
  OBVIOUS
<1> PICK id : id = job.id
  OBVIOUS
<1>1. Settles(w)
  BY SettleSettles
<1> PICK mid : /\ Tables(rows', queue') = Tables(rows, queue) \cup {mid, Settled'}
               /\ DOMAIN mid = DOMAIN Settled /\ OthersKept(Settled, mid, id)
               /\ mid[id].name = Settled[id].name /\ mid[id].state = Settled[id].state
  BY <1>1 DEF Settles
<1>2. /\ Moves(w) /\ SameTransfer(w) /\ job.pc = "settle" /\ workers'[w].pc = "leave"
      /\ workers'[w].outcome = job.outcome /\ parts' = parts /\ dests' = dests
      /\ DOMAIN Settled' = DOMAIN Settled /\ OthersKept(Settled, Settled', id)
      /\ Settled'[id].name = Settled[id].name /\ Settled[id].state = "active"
      /\ Settled'[id].state = job.outcome /\ Settled'[id].etag = Settled[id].etag
  BY <1>1 DEF Settles
<1>3. workers'[w].id = id /\ workers'[w].name = job.name
  BY <1>2 DEF SameTransfer, SameDownload
<1>4. PartsAreOneVersion /\ HoldersAreTold /\ JobsContent /\ CompletedAreWhole /\ JobContent(job)
      /\ PartsAreOneVersion'
  BY <1>2 DEF ContentInv, PartsAreOneVersion, JobsContent
<1>5. HoldersAreTold'
  <2>1. \A i \in DownloadId : Holds(i)' => Holds(i) /\ Settled'[i].name = Settled[i].name
    BY <1>2, <1>3, WorkerHolds DEF GivenUp, Over
  <2>2. SUFFICES ASSUME NEW i \in DownloadId, Holds(i)'
                 PROVE  \/ Tells(Settled[i].name, Settled[i].etag)'
                        \/ \E v \in DOMAIN workers' : workers'[v].id = i /\ Writing(v)'
    BY DEF HoldersAreTold
  <2>3. Holds(i) /\ Settled'[i].name = Settled[i].name /\ Settled'[i].etag = Settled[i].etag
    BY <1>2, <2>1, <2>2 DEF Holds, OthersKept
  <2>4. CASE Tells(Settled[i].name, Settled[i].etag)
    BY <1>2, <2>3, <2>4 DEF Tells
  <2>5. CASE \E v \in DOMAIN workers : workers[v].id = i /\ Writing(v)
    BY <1>2, <2>5 DEF Moves, Writing
  <2>6. QED
    BY <1>4, <2>3, <2>4, <2>5 DEF HoldersAreTold
<1>6. JobsContent'
  <2>1. ASSUME NEW v \in DOMAIN workers, v # w
        PROVE  JobContent(workers[v])'
    <3>1. /\ workers'[v] = workers[v] /\ JobContent(workers[v])
          /\ Settled'[workers[v].id] = Settled[workers[v].id]
      <4>1. workers[v].id # id /\ workers[v].id \in DOMAIN Settled
        BY <2>1, OneWorkerEach DEF Inv, RowOfWorker
      <4>2. QED
        BY <1>2, <1>4, <2>1, <4>1 DEF Moves, JobsContent, OthersKept
    <3>2. QED
      BY <1>2, <3>1 DEF JobContent
  <2>2. JobContent(workers[w])'
    <3> PICK new : new = workers'[w]
      OBVIOUS
    <3>1. new.pc = "leave" /\ (new.outcome = "completed" =>
                                 new.name \in DOMAIN dests' /\ Whole(dests'[new.name]))
      BY <1>2, <1>3, <1>4 DEF JobContent
    <3>2. QED
      BY <3>1 DEF JobContent
  <2>3. QED
    BY <1>2, <2>1, <2>2 DEF JobsContent, Moves
<1>7. CompletedAreWhole'
  <2>1. ASSUME NEW t \in Tables(rows, queue)
        PROVE  CompletedIn(t)'
    BY <1>2, <1>4 DEF CompletedAreWhole, CompletedIn
  <2>2. CompletedIn(Settled)
    BY <1>4, SettledTyped DEF CompletedAreWhole, Inv
  <2>3. CompletedIn(mid)'
    <3>1. \A i \in DOMAIN mid : mid[i].state = "completed" =>
            mid[i].name \in DOMAIN dests' /\ Whole(dests'[mid[i].name])
      BY <1>2, <2>2 DEF CompletedIn, OthersKept
    <3>2. QED
      BY <3>1 DEF CompletedIn
  <2>4. CompletedIn(Settled)'
    <3>1. Settled[id].name = job.name
      BY DEF Inv, RowOfWorker
    <3>2. \A i \in DOMAIN Settled' : Settled'[i].state = "completed" =>
            Settled'[i].name \in DOMAIN dests' /\ Whole(dests'[Settled'[i].name])
      BY <1>2, <1>4, <2>2, <3>1 DEF CompletedIn, OthersKept, JobContent
    <3>3. QED
      BY <3>2 DEF CompletedIn
  <2>5. QED
    BY <2>1, <2>3, <2>4 DEF CompletedAreWhole
<1>8. QED
  BY <1>4, <1>5, <1>6, <1>7 DEF ContentInv

LEMMA LeaveContent ==
  ASSUME Inv, ContentInv, NEW w \in DOMAIN workers, Leave(w)
  PROVE  ContentInv'
<1>1. Leaves(w)
  BY LeaveLeaves
<1>2. /\ DOMAIN workers' = DOMAIN workers \ {w} /\ workers[w].pc = "leave"
      /\ \A v \in DOMAIN workers' : workers'[v] = workers[v]
      /\ rows' = rows /\ queue' = queue /\ parts' = parts /\ dests' = dests /\ Settled' = Settled
  BY <1>1 DEF Leaves
<1>3. PartsAreOneVersion' /\ CompletedAreWhole'
  BY <1>2 DEF ContentInv, PartsAreOneVersion, CompletedAreWhole, CompletedIn
<1>4. HoldersAreTold'
  <2>1. \A i \in DownloadId : Holds(i)' => Holds(i)
    BY <1>1, LeaveHolds
  <2>2. \A v \in DOMAIN workers : Writing(v) => v \in DOMAIN workers' /\ Writing(v)'
    BY <1>2 DEF Writing
  <2>3. QED
    BY <1>2, <2>1, <2>2 DEF ContentInv, HoldersAreTold, Tells
<1>5. JobsContent'
  BY <1>2 DEF ContentInv, JobsContent, JobContent
<1>6. QED
  BY <1>3, <1>4, <1>5 DEF ContentInv

LEMMA InitContent == Init => ContentInv
<1> SUFFICES ASSUME Init
             PROVE  ContentInv
  OBVIOUS
<1>1. rows = <<>> /\ queue = <<>> /\ workers = <<>> /\ parts = <<>> /\ dests = <<>>
  BY DEF Init
<1>2. DOMAIN <<>> = {}
  BY SMT
<1>3. Tables(rows, queue) = {rows} /\ Settled = rows
  BY <1>1, NothingQueued, SettledIsFinal
<1>4. QED
  BY <1>1, <1>2, <1>3 DEF ContentInv, PartsAreOneVersion, HoldersAreTold, JobsContent,
    CompletedAreWhole, CompletedIn, Holds

LEMMA StepContent ==
  ASSUME Inv, FileInv, ContentInv, OneCaller, VersionsAreTold, [Next]_vars
  PROVE  ContentInv'
<1>1. ASSUME NEW w \in DOMAIN workers, WorkerStep(w)
      PROVE  ContentInv'
  BY <1>1, SendRequestContent, OpenPartContent, CheckControlContent, ReadChunkContent,
     ReadEndContent, RenameContent, SettleContent, LeaveContent DEF WorkerStep
<1>2. ASSUME NEW c \in Thread, Reserve(c) \/ GoesOn(c) \/ Cancels(c) \/ ResumeInterrupted(c)
      PROVE  ContentInv'
  BY <1>2, ReserveContent, GoesOnContent, CancelsContent, ResumeInterruptedContent
<1>3. QED
  BY <1>1, <1>2, StepCases, QuietContent, ChoosesContent, SpawnWorkerContent, RestartContent

\* Contents, on top of names and counts: every .part is a beginning of one version, the
\* one its validator names, and every file with a final name is whole: as long as was
\* announced, if it was.
THEOREM ContentHolds ==
  ASSUME OneCaller, NoSharedNames, VersionsAreTold
  PROVE  Spec => [](Inv /\ FileInv /\ ContentInv)
<1>1. Init => Inv /\ FileInv /\ ContentInv
  BY InitInv, InitFiles, InitContent
<1>2. (Inv /\ FileInv /\ ContentInv) /\ [Next]_vars => (Inv /\ FileInv /\ ContentInv)'
  BY StepInv, StepFiles, StepContent
<1>3. QED
  BY <1>1, <1>2, PTL DEF Spec

\* FR-023: what the list calls completed is in place, of one version, and all of it if
\* the server said how much that is; an early end of a body of unknown length counts as
\* its end.  So it is through pauses, cut connections, a changing server and restarts,
\* unless the disk fails the rename, or the process dies between a new validator and the
\* truncation of the old file.
THEOREM CompletedWhole ==
  ASSUME OneCaller, NoSharedNames, VersionsAreTold PROVE Spec => []CompletedIsWhole
<1>1. Inv /\ ContentInv => CompletedIsWhole
  BY SettledTyped DEF Inv, ContentInv, CompletedAreWhole, CompletedIn, CompletedIsWhole
<1>2. QED
  BY <1>1, ContentHolds, PTL

(***************************************************************************)
(* The lifecycle                                                           *)
(***************************************************************************)

LEMMA StateOf ==
  ASSUME Inv, NEW id \in DOMAIN rows
  PROVE  rows[id] \in RowT /\ rows[id].state \in State /\ id \in DownloadId
<1>1. TableT(rows)
  BY SettledTyped DEF Inv
<1>2. QED
  BY <1>1 DEF TableT, RowT

LEMMA NothingListed ==
  ASSUME rows' = rows, dests' = dests
  PROVE  UNCHANGED Lifecycle!vars
BY DEF Lifecycle!vars, ListedState, Delivered

\* Only the writer and the rename of a finished file do something to the list.
LEMMA ListCases ==
  ASSUME Inv, [Next]_vars
  PROVE  \/ WriterApply
         \/ \E w \in DOMAIN workers : Rename(w)
         \/ rows' = rows /\ dests' = dests
<1>1. ASSUME NEW c \in Thread, CallStep(c)
      PROVE  rows' = rows /\ dests' = dests
  BY <1>1 DEF CallStep, ProbeFile, ProbePart, Reserve, Register, ResumeRow, CancelRow, ListInterrupted,
     SpawnWorker, files
<1>2. ASSUME NEW c \in Thread, UserStep(c) \/ ResumeStep(c) \/ ResumeInterrupted(c)
      PROVE  rows' = rows /\ dests' = dests
  BY <1>2 DEF UserStep, StartDownload, PauseDownload, CancelDownload, Control, ResumeStep,
     ResumeDownload, SkipResume, ResumeInterrupted, files
<1>3. ASSUME NEW w \in Worker, WorkerStep(w), ~Rename(w)
      PROVE  rows' = rows /\ dests' = dests
  BY <1>3 DEF WorkerStep, SendRequest, OpenPart, CheckControl, ReadChunk, ReadEnd, Settle, Leave, files
<1>4. ServerChanges \/ Restart \/ UNCHANGED vars => rows' = rows /\ dests' = dests
  BY DEF ServerChanges, Restart, vars, files
<1>5. ASSUME NEW w \in Worker, WorkerStep(w)
      PROVE  w \in DOMAIN workers
  BY <1>5 DEF WorkerStep
<1>6. QED
  BY <1>1, <1>2, <1>3, <1>4, <1>5 DEF Next

\* A rename completes files: those of downloads that the list does not call completed,
\* because for these the file is in place already.
LEMMA RenameDelivers ==
  ASSUME Inv, FileInv, ContentInv, VersionsAreTold, NEW w \in DOMAIN workers, Rename(w)
  PROVE  \E ids \in SUBSET DownloadId : Lifecycle!Deliver(ids)
<1> PICK name : name = workers[w].name
  OBVIOUS
<1>1. rows' = rows
  BY DEF Rename
<1>2. name \in DOMAIN parts
  BY RenamedIsWhole DEF Rename
<1>3. Whole(parts[name])
  BY RenamedIsWhole DEF Rename
<1>4. dests' = Put(dests, name, parts[name])
  BY <1>2, RenameCases DEF VersionsAreTold
<1>5. /\ DOMAIN dests' = DOMAIN dests \cup {name} /\ dests'[name] = parts[name]
      /\ \A n \in DOMAIN dests \ {name} : dests'[n] = dests[n]
  BY <1>4 DEF Put
<1>6. Delivered \subseteq Delivered'
  BY <1>1, <1>3, <1>5 DEF Delivered
<1>7. PICK ids : ids = Delivered' \ Delivered
  OBVIOUS
<1>8. ASSUME NEW id \in ids
      PROVE  id \in DownloadId /\ ListedState(id) \in {"active", "paused", "interrupted"}
  <2>1. id \in DOMAIN rows /\ rows[id].state # "cancelled" /\ id \notin Delivered
    BY <1>1, <1>7 DEF Delivered
  <2>2. rows[id].state \in State /\ id \in DownloadId
    BY <2>1, StateOf
  <2>3. rows[id].state # "completed"
    BY <2>1, SettledTyped DEF Inv, ContentInv, CompletedAreWhole, CompletedIn, Delivered
  <2>4. QED
    BY <2>1, <2>2, <2>3 DEF ListedState, State
<1>9. \A id \in ids : [i \in DownloadId |-> ListedState(i)][id] \in {"active", "paused", "interrupted"}
  BY <1>8
<1>10. Delivered' = Delivered \cup ids
  BY <1>6, <1>7
<1>11. [id \in DownloadId |-> ListedState(id)]' = [id \in DownloadId |-> ListedState(id)]
  BY <1>1 DEF ListedState
<1>12. Lifecycle!Deliver(ids)
  BY <1>9, <1>10, <1>11 DEF Lifecycle!Deliver
<1>13. ids \in SUBSET DownloadId
  BY <1>8
<1>14. QED
  BY <1>12, <1>13

\* What an operation does to one row shows in the list as one new state.
OneRow(id, old, new) ==
  /\ DOMAIN rows' = DOMAIN rows \cup {id}
  /\ OthersKept(rows, rows', id)
  /\ ListedState(id) = old
  /\ rows'[id].state = new
  /\ dests' = dests

LEMMA OneRowListed ==
  ASSUME Inv, NEW id \in DownloadId, NEW old, NEW new, OneRow(id, old, new)
  PROVE  /\ [i \in DownloadId |-> ListedState(i)][id] = old
         /\ [i \in DownloadId |-> ListedState(i)]' =
              [[i \in DownloadId |-> ListedState(i)] EXCEPT ![id] = new]
         /\ Delivered' \ {id} = Delivered \ {id}
         /\ Delivered' = IF id \in Delivered' THEN Delivered \cup {id} ELSE Delivered \ {id}
<1>1. ASSUME NEW i \in DownloadId
      PROVE  ListedState(i)' = IF i = id THEN new ELSE ListedState(i)
  BY DEF OneRow, ListedState, OthersKept
<1>2. Delivered' \ {id} = Delivered \ {id}
  BY DEF OneRow, OthersKept, Delivered
<1>3. [i \in DownloadId |-> ListedState(i)][id] = old
  BY DEF OneRow
<1>4. QED
  BY <1>1, <1>2, <1>3

\* The writer takes the list along the transition matrix; the download that it calls
\* completed has its file by then.
LEMMA WriterKeepsLifecycle ==
  ASSUME Inv, ContentInv, WriterApply
  PROVE  [Lifecycle!Next]_(Lifecycle!vars)
<1> PICK op : op = Head(queue)
  OBVIOUS
<1>1. /\ rows' = Applied(rows, op) /\ dests' = dests /\ op \in OpT
      /\ Legal(rows, op) /\ rows' \in Tables(rows, queue) /\ TableT(rows)
  <2>1. queue # <<>> /\ rows' = Applied(rows, op) /\ queue' = Tail(queue) /\ dests' = dests
    BY DEF WriterApply, files
  <2>2. /\ op \in Ops(queue) /\ <<rows, op>> \in Writes(rows, queue) /\ queue' \in Seq(OpT)
        /\ Tables(rows', queue') \subseteq Tables(rows, queue)
    BY <2>1, ApplyOne DEF Inv
  <2>3. op \in OpT
    BY <2>2, OpsTyped DEF Inv
  <2>4. Legal(rows, op)
    BY <2>2 DEF Inv, LegalWrites
  <2>5. rows' \in Tables(rows', queue')
    BY <2>2, EndsAreTables
  <2>6. QED
    BY <2>1, <2>2, <2>3, <2>4, <2>5, SettledTyped DEF Inv
<1>2. CASE op.op = "upsert"
  <2> PICK id, name : id = op.id /\ name = op.name
    OBVIOUS
  <2>1. id \in DownloadId /\ name \in FileName /\ op = Upsert(id, name)
    BY <1>1, <1>2, SMT DEF OpT, MarkStale, Upsert
  <2>2. OneRow(id, "none", "active")
    <3>1. /\ DOMAIN rows' = DOMAIN rows \cup {id} /\ OthersKept(rows, rows', id)
          /\ rows'[id] = [name |-> name, received |-> 0, state |-> "active", etag |-> None]
      <4>1. rows' = Applied(rows, Upsert(id, name)) /\ TableT(rows)
        BY <1>1, <2>1
      <4> PICK new : new = rows'
        OBVIOUS
      <4>2. QED
        BY <2>1, <4>1, UpsertRow, Zenon
    <3>2. rows'[id].state = "active"
      BY <3>1
    <3>3. ListedState(id) = "none"
      BY <1>1, <1>2 DEF Legal, ListedState
    <3>4. QED
      BY <1>1, <3>1, <3>2, <3>3 DEF OneRow
  <2>3. id \notin Delivered
    BY <1>1, <1>2 DEF Legal, Delivered
  <2>4. Delivered' \in {Delivered, Delivered \cup {id}}
    <3>1. Delivered' \ {id} = Delivered \ {id}
      BY <2>1, <2>2, OneRowListed
    <3>2. QED
      BY <2>3, <3>1
  <2>5. Lifecycle!Begin(id)
    BY <2>1, <2>2, <2>4, OneRowListed DEF Lifecycle!Begin, Lifecycle!Becomes
  <2>6. QED
    BY <2>1, <2>5 DEF Lifecycle!Next
<1>3. CASE op.op = "progress"
  <2>1. /\ op.id \in DOMAIN rows /\ op.received \in Nat /\ op.etag \in Etag
        /\ op = Progress(op.id, op.received, op.etag)
    BY <1>1, <1>3, SMT DEF OpT, MarkStale, Progress, Legal
  <2>2. /\ DOMAIN rows' = DOMAIN rows
        /\ \A i \in DOMAIN rows : rows'[i].state = rows[i].state /\ rows'[i].name = rows[i].name
    BY <1>1, <2>1, ProgressRow DEF OthersKept
  <2>3. UNCHANGED Lifecycle!vars
    BY <1>1, <2>2 DEF Lifecycle!vars, ListedState, Delivered
  <2>4. QED
    BY <2>3
<1>4. CASE op.op = "state"
  <2> PICK id, new : id = op.id /\ new = op.state
    OBVIOUS
  <2>1. /\ id \in DownloadId /\ id \in DOMAIN rows /\ new \in State /\ op = SetState(id, new)
        /\ CanTransition(rows[id].state, new)
    BY <1>1, <1>4, SMT DEF OpT, MarkStale, SetState, Legal
  <2> PICK old : old = rows[id].state
    OBVIOUS
  <2>2. OneRow(id, old, new) /\ rows'[id].name = rows[id].name
    <3>1. /\ DOMAIN rows' = DOMAIN rows /\ OthersKept(rows, rows', id)
          /\ rows'[id].state = new /\ rows'[id].name = rows[id].name
      BY <1>1, <2>1, StateRow
    <3>2. ListedState(id) = old /\ DOMAIN rows' = DOMAIN rows \cup {id}
      BY <2>1, <3>1 DEF ListedState
    <3>3. QED
      BY <1>1, <3>1, <3>2 DEF OneRow
  <2>3. new # "cancelled" /\ old # "cancelled" => Delivered' = Delivered
    <3>1. new # "cancelled" /\ old # "cancelled" => (id \in Delivered' <=> id \in Delivered)
      BY <1>1, <2>1, <2>2 DEF Delivered, OneRow
    <3>2. Delivered' \ {id} = Delivered \ {id}
      BY <2>1, <2>2, OneRowListed
    <3>3. QED
      BY <3>1, <3>2
  <2>4. new = "cancelled" => Delivered' = Delivered \ {id}
    <3>1. new = "cancelled" => id \notin Delivered'
      BY <2>2 DEF Delivered, OneRow
    <3>2. QED
      BY <2>1, <2>2, <3>1, OneRowListed
  <2>5. new = "completed" => id \in Delivered
    <3>1. CompletedIn(rows')
      BY <1>1 DEF ContentInv, CompletedAreWhole
    <3>2. old = "active" \/ new # "completed"
      BY <2>1 DEF CanTransition
    <3>3. QED
      BY <1>1, <2>1, <2>2, <3>1, <3>2 DEF CompletedIn, OneRow, Delivered
  <2>6. Lifecycle!Becomes(id, {old}, new)
    BY <2>1, <2>2, OneRowListed DEF Lifecycle!Becomes
  <2>7. \/ old = "active" /\ new \in {"paused", "completed", "interrupted", "cancelled"}
        \/ old \in {"paused", "interrupted"} /\ new \in {"active", "cancelled"}
    BY <2>1 DEF CanTransition
  <2>8. CASE new = "interrupted"
    <3> PICK ids : ids = {id}
      OBVIOUS
    <3>1. \A i \in ids : [j \in DownloadId |-> ListedState(j)][i] = "active"
      BY <2>1, <2>6, <2>7, <2>8 DEF Lifecycle!Becomes
    <3>2. [i \in DownloadId |-> ListedState(i)]' =
            [i \in DownloadId |-> IF i \in ids THEN "interrupted"
                                  ELSE [j \in DownloadId |-> ListedState(j)][i]]
      BY <2>6, <2>8 DEF Lifecycle!Becomes
    <3>3. Delivered' = Delivered
      BY <2>3, <2>7, <2>8
    <3>4. Lifecycle!Interrupt(ids)
      BY <3>1, <3>2, <3>3 DEF Lifecycle!Interrupt
    <3>5. ids \in SUBSET DownloadId
      BY <2>1
    <3>6. QED
      BY <3>4, <3>5 DEF Lifecycle!Next
  <2>9. CASE new # "interrupted"
    <3>1. new = "completed" => Lifecycle!Complete(id)
      BY <2>3, <2>5, <2>6, <2>7 DEF Lifecycle!Complete
    <3>2. new = "paused" => Lifecycle!Pause(id)
      BY <2>3, <2>6, <2>7 DEF Lifecycle!Pause
    <3>3. new = "active" => Lifecycle!Resume(id)
      BY <2>3, <2>6, <2>7 DEF Lifecycle!Resume, Lifecycle!Becomes
    <3>4. new = "cancelled" => Lifecycle!Cancel(id)
      BY <2>4, <2>6, <2>7 DEF Lifecycle!Cancel, Lifecycle!Becomes
    <3>5. QED
      BY <2>1, <2>7, <2>9, <3>1, <3>2, <3>3, <3>4 DEF Lifecycle!Next
  <2>10. QED
    BY <2>8, <2>9
<1>5. CASE op.op = "mark"
  <2> PICK ids : ids = {i \in DOMAIN rows : rows[i].state = "active"}
    OBVIOUS
  <2>1. /\ DOMAIN rows' = DOMAIN rows
        /\ \A i \in DOMAIN rows :
             /\ rows'[i].name = rows[i].name
             /\ rows'[i].state = IF i \in ids THEN "interrupted" ELSE rows[i].state
    <3>1. op = MarkStale
      BY <1>1, <1>5, SMT DEF OpT, MarkStale
    <3>2. QED
      BY <1>1, <3>1, MarkRow
  <2>2. ids \subseteq DownloadId /\ \A i \in ids : i \in DOMAIN rows /\ ListedState(i) = "active"
    BY <1>1 DEF ListedState, TableT
  <2>3. \A i \in DownloadId : ListedState(i)' = IF i \in ids THEN "interrupted" ELSE ListedState(i)
    BY <2>1, <2>2 DEF ListedState
  <2>4. Delivered' = Delivered
    BY <1>1, <2>1 DEF Delivered
  <2>5. Lifecycle!Interrupt(ids)
    BY <2>2, <2>3, <2>4 DEF Lifecycle!Interrupt
  <2>6. QED
    BY <2>2, <2>5 DEF Lifecycle!Next
<1>6. CASE op.op = "flush"
  <2>1. rows' = rows
    BY <1>1, <1>6 DEF Applied
  <2>2. QED
    BY <1>1, <2>1, NothingListed
<1>7. QED
  <2>1. op.op \in {"upsert", "progress", "state", "mark", "flush"}
    BY <1>1, SMT DEF OpT, MarkStale
  <2>2. QED
    BY <2>1, <1>2, <1>3, <1>4, <1>5, <1>6

\* The list is the lifecycle of DownloadLifecycle, whatever threads, queue, network and
\* restarts do underneath: no late write takes a download out of a final state or into
\* one that its state does not lead to, and none is completed without its file, as long
\* as was announced.
THEOREM LifecycleHolds ==
  ASSUME OneCaller, NoSharedNames, VersionsAreTold PROVE Spec => LifecycleSpec
<1>1. Init => Lifecycle!Init
  <2>1. Init => rows = <<>> /\ DOMAIN rows = {}
    BY SMT DEF Init
  <2>2. QED
    BY <2>1 DEF Lifecycle!Init, ListedState, Delivered
<1>2. (Inv /\ FileInv /\ ContentInv) /\ [Next]_vars => [Lifecycle!Next]_(Lifecycle!vars)
  <2>1. SUFFICES ASSUME Inv, FileInv, ContentInv, [Next]_vars
                 PROVE  [Lifecycle!Next]_(Lifecycle!vars)
    OBVIOUS
  <2>2. ASSUME NEW w \in DOMAIN workers, Rename(w)
        PROVE  Lifecycle!Next
    BY <2>1, <2>2, RenameDelivers DEF Lifecycle!Next
  <2>3. QED
    BY <2>1, <2>2, ListCases, WriterKeepsLifecycle, NothingListed
<1>3. QED
  BY <1>1, <1>2, ContentHolds, PTL DEF Spec, LifecycleSpec, Lifecycle!Spec

(***************************************************************************)
(* Progress                                                                *)
(***************************************************************************)

\* As long as ever
SameOnDisk(n) == (IF n \in DOMAIN parts' THEN Len(parts'[n]) ELSE 0) = OnDisk(n)

LEMMA SamePartsOnDisk == ASSUME parts' = parts PROVE \A n : SameOnDisk(n)
BY DEF SameOnDisk, OnDisk

LEMMA ElsewhereOnDisk ==
  ASSUME NEW name, SameElsewhere(name)
  PROVE  \A n \in FileName \ {name} : SameOnDisk(n)
BY DEF SameElsewhere, SameOnDisk, OnDisk

\* A worker that has not given up the download holds its name.
LEMMA WorkerHasName ==
  ASSUME Inv, NEW w \in DOMAIN workers, workers[w].pc # "leave", ~GivenUp(w)
  PROVE  /\ Holds(workers[w].id) /\ Settled[workers[w].id].name = workers[w].name
         /\ workers[w].id \in DownloadId
<1>1. /\ workers[w].id \in DOMAIN Settled /\ Settled[workers[w].id].name = workers[w].name
      /\ Settled[workers[w].id].state = "active"
  BY DEF Inv, RowOfWorker
<1>2. \A v \in DOMAIN workers : workers[v].id = workers[w].id => ~GivenUp(v)
  BY OneWorkerEach
<1>3. QED
  BY <1>1, <1>2, JobFields DEF Holds, Over

LEMMA NextRowProgress ==
  ASSUME NEW id, NEW row, row = Settled'[id],
         NEW size, size = (IF row.name \in DOMAIN parts' THEN Len(parts'[row.name]) ELSE 0),
         size > 0 => row.etag # None,
         row.state \in {"paused", "interrupted"} => row.received = size
  PROVE  RowProgress(id)'
BY DEF RowProgress, OnDisk

\* A row that a call leaves alone, or takes up again, with its file
KeptRow(i) ==
  /\ Settled'[i].name = Settled[i].name /\ Settled'[i].received = Settled[i].received
  /\ Settled'[i].etag = Settled[i].etag
  /\ Settled'[i].state \in {"active", Settled[i].state}
  /\ SameOnDisk(Settled[i].name)
\* A row that has just begun
NewRow(i) ==
  /\ Settled'[i].state = "active"
  /\ Settled'[i].name \in DOMAIN parts' => Len(parts'[Settled'[i].name]) = 0

LEMMA KeptProgress ==
  ASSUME NEW i, KeptRow(i), RowProgress(i)
  PROVE  RowProgress(i)'
<1> PICK row : row = Settled'[i]
  OBVIOUS
<1> PICK size : size = IF row.name \in DOMAIN parts' THEN Len(parts'[row.name]) ELSE 0
  OBVIOUS
<1>1. size = OnDisk(Settled[i].name)
  BY DEF KeptRow, SameOnDisk
<1>2. size > 0 => row.etag # None
  BY <1>1 DEF KeptRow, RowProgress
<1>3. row.state \in {"paused", "interrupted"} => row.received = size
  BY <1>1 DEF KeptRow, RowProgress
<1>4. QED
  BY <1>2, <1>3, NextRowProgress

LEMMA NewProgress ==
  ASSUME NEW i, NewRow(i)
  PROVE  RowProgress(i)'
<1> PICK row : row = Settled'[i]
  OBVIOUS
<1> PICK size : size = IF row.name \in DOMAIN parts' THEN Len(parts'[row.name]) ELSE 0
  OBVIOUS
<1>1. size = 0 /\ row.state = "active"
  BY DEF NewRow
<1>2. ~(size > 0)
  BY <1>1, SMT
<1>3. QED
  BY <1>1, <1>2, NextRowProgress

\* The jobs, when a step is not theirs
LEMMA JobKept ==
  ASSUME Inv, NEW v \in DOMAIN workers, JobProgress(workers[v]), SameJob(v),
         Settled'[workers[v].id].etag = Settled[workers[v].id].etag,
         workers[v].pc = "settle" /\ ~GivenUp(v) => SameOnDisk(workers[v].name)
  PROVE  JobProgress(workers[v])'
<1> PICK job : job = workers[v]
  OBVIOUS
<1> PICK new : new = workers'[v]
  OBVIOUS
<1>1. /\ new.pc = job.pc /\ new.outcome = job.outcome /\ new.id = job.id /\ new.name = job.name
      /\ new.got = job.got /\ new.received = job.received
  BY DEF SameJob, SameTransfer, SameDownload
<1>2. new.pc \in {"open", "check", "read", "rename"} =>
        new.received = new.got /\ Settled'[new.id].etag # None
  BY <1>1 DEF JobProgress
<1>3. new.pc = "settle" /\ new.outcome \in {"paused", "interrupted"} =>
        new.received = IF new.name \in DOMAIN parts' THEN Len(parts'[new.name]) ELSE 0
  BY <1>1 DEF JobProgress, SameOnDisk, GivenUp, Over
<1>4. QED
  BY <1>2, <1>3 DEF JobProgress, OnDisk

LEMMA CallProgress ==
  ASSUME Inv, ProgressInv, ~launched' => DOMAIN Settled' = {},
         \A v \in DOMAIN workers' : (v \in DOMAIN workers /\ SameJob(v)) \/ workers'[v].pc = "send",
         \A i \in DownloadId : Holds(i)' => (Holds(i) /\ KeptRow(i)) \/ NewRow(i),
         \A v \in DOMAIN workers : Settled'[workers[v].id].etag = Settled[workers[v].id].etag,
         \A v \in DOMAIN workers :
           workers[v].pc = "settle" /\ ~GivenUp(v) => SameOnDisk(workers[v].name)
  PROVE  ProgressInv'
<1>1. NothingToMark'
  BY DEF NothingToMark
<1>2. RowsCount'
  <2>1. SUFFICES ASSUME NEW i \in DownloadId, Holds(i)'
                 PROVE  RowProgress(i)'
    BY DEF RowsCount
  <2>2. QED
    BY <2>1, KeptProgress, NewProgress DEF ProgressInv, RowsCount
<1>3. JobsCount'
  <2>1. ASSUME NEW v \in DOMAIN workers', v \in DOMAIN workers /\ SameJob(v)
        PROVE  JobProgress(workers[v])'
    <3>1. v \in DOMAIN workers /\ SameJob(v) /\ JobProgress(workers[v])
      BY <2>1 DEF ProgressInv, JobsCount
    <3>2. QED
      BY <3>1, JobKept
  <2>2. ASSUME NEW v \in DOMAIN workers', workers'[v].pc = "send"
        PROVE  JobProgress(workers[v])'
    BY <2>2 DEF JobProgress
  <2>3. QED
    BY <2>1, <2>2 DEF JobsCount
<1>4. QED
  BY <1>1, <1>2, <1>3 DEF ProgressInv

\* The others, when one transfer, its row and its .part change
LEMMA WorkerProgress ==
  ASSUME Inv, FileInv, ProgressInv, NEW w \in DOMAIN workers, workers[w].pc # "leave",
         Moves(w), workers'[w].id = workers[w].id, launched' = launched,
         \A n \in FileName \ {workers[w].name} : SameOnDisk(n),
         workers[w].pc = "settle" => SameOnDisk(workers[w].name),
         DOMAIN Settled' = DOMAIN Settled, OthersKept(Settled, Settled', workers[w].id),
         Holds(workers[w].id)' => RowProgress(workers[w].id)',
         JobProgress(workers[w])'
  PROVE  ProgressInv'
<1> PICK name : name = workers[w].name
  OBVIOUS
<1> PICK id : id = workers[w].id
  OBVIOUS
<1>1. id \in DownloadId /\ id \in DOMAIN Settled /\ name \in FileName
  BY JobFields DEF Inv, RowOfWorker
<1>2. ASSUME NEW i \in DownloadId, Holds(i), i # id
      PROVE  SameOnDisk(Settled[i].name)
  <2>1. Settled[i].name \in FileName
    <3>1. Settled[i] \in RowT
      BY <1>2, SettledTyped DEF Inv, TableT, Holds
    <3>2. QED
      BY <3>1 DEF RowT
  <2>2. CASE workers[w].pc \notin {"settle", "leave"}
    <3>1. Settled[i].name # name
      BY <1>1, <1>2, <2>2, TransferHolds DEF FileInv, NamesAreHeld
    <3>2. QED
      BY <2>1, <3>1
  <2>3. CASE workers[w].pc = "settle"
    BY <2>1, <2>3
  <2>4. QED
    BY <2>2, <2>3
<1>3. NothingToMark'
  BY DEF ProgressInv, NothingToMark
<1>4. RowsCount'
  <2>1. SUFFICES ASSUME NEW i \in DownloadId, Holds(i)'
                 PROVE  RowProgress(i)'
    BY DEF RowsCount
  <2>2. CASE i = id
    <3>1. Holds(id)' => RowProgress(id)'
      BY DEF Moves
    <3>2. QED
      BY <2>1, <2>2, <3>1
  <2>3. CASE i # id
    <3>1. Settled'[i] = Settled[i] /\ i \in DOMAIN Settled
      BY <2>1, <2>3 DEF Holds, OthersKept
    <3>2. \A v \in DOMAIN workers : workers[v].id = i => workers'[v] = workers[v]
      BY <2>3 DEF Moves
    <3>3. Holds(i)
      BY <2>1, <3>1, <3>2 DEF Holds, GivenUp, Moves
    <3>4. KeptRow(i)
      BY <1>2, <2>3, <3>1, <3>3 DEF KeptRow
    <3>5. QED
      BY <3>3, <3>4, KeptProgress DEF ProgressInv, RowsCount
  <2>4. QED
    BY <2>2, <2>3
<1>5. JobsCount'
  <2>1. ASSUME NEW v \in DOMAIN workers, v # w
        PROVE  JobProgress(workers[v])'
    <3>1. workers'[v] = workers[v] /\ JobProgress(workers[v])
      BY <2>1 DEF Moves, ProgressInv, JobsCount
    <3>2. SameJob(v)
      BY <3>1 DEF SameJob, SameTransfer, SameDownload
    <3>3. workers[v].id # id /\ workers[v].id \in DOMAIN Settled
      BY <2>1, OneWorkerEach DEF Inv, RowOfWorker
    <3>4. Settled'[workers[v].id].etag = Settled[workers[v].id].etag
      BY <3>3 DEF OthersKept
    <3>5. ASSUME workers[v].pc = "settle", ~GivenUp(v)
          PROVE  SameOnDisk(workers[v].name)
      <4>1. /\ Holds(workers[v].id) /\ Settled[workers[v].id].name = workers[v].name
            /\ workers[v].id \in DownloadId
        BY <3>5, WorkerHasName
      <4>2. QED
        BY <1>2, <3>3, <4>1
    <3>6. QED
      BY <3>1, <3>2, <3>4, <3>5, JobKept
  <2>2. QED
    BY <2>1 DEF JobsCount, Moves
<1>6. QED
  BY <1>3, <1>4, <1>5 DEF ProgressInv

(***************************************************************************)
(* Progress: the steps                                                     *)
(***************************************************************************)

LEMMA QuietProgress ==
  ASSUME Inv, ProgressInv, Quiet
  PROVE  ProgressInv'
<1>1. /\ parts' = parts /\ Settled' = Settled /\ (launched => launched')
      /\ DOMAIN workers' = DOMAIN workers /\ \A v \in DOMAIN workers : SameJob(v)
  BY DEF Quiet, SameChannelOrLess
<1>2. \A i \in DownloadId : Holds(i)' => Holds(i) /\ KeptRow(i)
  BY <1>1, QuietHolds, SamePartsOnDisk DEF KeptRow
<1>3. ~launched' => DOMAIN Settled' = {}
  BY <1>1 DEF ProgressInv, NothingToMark
<1>4. QED
  BY <1>1, <1>2, <1>3, SamePartsOnDisk, CallProgress

LEMMA ChoosesProgress ==
  ASSUME Inv, ProgressInv, OneCaller, NEW c \in Thread, Chooses(c)
  PROVE  ProgressInv'
<1>1. workers' = workers /\ parts' = parts /\ launched' = launched /\ Settled' = Settled
  BY ChoosesCall
<1>2. \A i \in DownloadId : Holds(i)' => Holds(i) /\ KeptRow(i)
  BY <1>1, SamePartsOnDisk DEF Holds, GivenUp, KeptRow
<1>3. ~launched' => DOMAIN Settled' = {}
  BY <1>1 DEF ProgressInv, NothingToMark
<1>4. QED
  BY <1>1, <1>2, <1>3, SamePartsOnDisk, SameJobs, CallProgress

\* A call waits for the launch pass.
LEMMA CallsAreLate ==
  ASSUME Inv, NEW c \in Thread, callers[c].pc # "idle"
  PROVE  launched
BY DEF Inv, NothingBeforeLaunch, Idle

LEMMA ReserveProgress ==
  ASSUME Inv, FileInv, ProgressInv, OneCaller, NEW c \in Thread, Reserve(c)
  PROVE  ProgressInv'
<1> PICK id : id = callers[c].id
  OBVIOUS
<1> PICK name : name = callers[c].name
  OBVIOUS
<1>1. Reserves(c, id, name)
  <2>1. Reserves(c, callers[c].id, callers[c].name)
    BY ReserveRow
  <2>2. QED
    BY <2>1
<1>2. /\ id \notin DOMAIN Settled /\ DOMAIN Settled' = DOMAIN Settled \cup {id}
      /\ OthersKept(Settled, Settled', id)
      /\ Settled'[id] = [name |-> name, received |-> 0, state |-> "active", etag |-> None]
      /\ \A w \in DOMAIN workers : workers[w].id # id
      /\ parts' = parts \/ parts' = Put(parts, name, <<>>)
      /\ workers' = workers
  BY <1>1 DEF Reserves
<1>3. Settled'[id].name = name /\ Settled'[id].state = "active"
  BY <1>2
<1>4. callers[c].pc = "reserve" /\ launched' = launched
  BY DEF Reserve
<1>5. name \notin DOMAIN parts
  BY <1>4 DEF FileInv, NamesAreHeld
<1>6. /\ \A n \in DOMAIN parts : n \in DOMAIN parts' /\ parts'[n] = parts[n]
      /\ \A n \in DOMAIN parts' : n \in DOMAIN parts \/ n = name
      /\ name \in DOMAIN parts' => parts'[name] = <<>>
  BY <1>2, <1>5 DEF Put
<1>7. Len(<<>>) = 0
  BY EmptySeq
<1>8. \A n : SameOnDisk(n)
  BY <1>5, <1>6, <1>7 DEF SameOnDisk, OnDisk
<1>9. \A i \in DownloadId : Holds(i)' => (Holds(i) /\ KeptRow(i)) \/ NewRow(i)
  <2>1. SUFFICES ASSUME NEW i \in DownloadId, Holds(i)'
                 PROVE  (Holds(i) /\ KeptRow(i)) \/ NewRow(i)
    OBVIOUS
  <2>2. CASE i = id
    BY <1>3, <1>6, <1>7, <2>2 DEF NewRow
  <2>3. CASE i # id
    <3>1. i \in DOMAIN Settled /\ Settled'[i] = Settled[i]
      BY <1>2, <2>1, <2>3 DEF Holds, OthersKept
    <3>2. Holds(i)
      BY <1>2, <2>1, <3>1 DEF Holds, GivenUp
    <3>3. QED
      BY <1>8, <3>1, <3>2 DEF KeptRow
  <2>4. QED
    BY <2>2, <2>3
<1>10. \A v \in DOMAIN workers : Settled'[workers[v].id].etag = Settled[workers[v].id].etag
  BY <1>2 DEF OthersKept, Inv, RowOfWorker
<1>11. launched'
  BY <1>4, CallsAreLate
<1>12. QED
  BY <1>2, <1>8, <1>9, <1>10, <1>11, SameJobs, CallProgress

LEMMA SpawnWorkerProgress ==
  ASSUME Inv, ProgressInv, NEW c \in Thread, NEW w \in Worker, SpawnWorker(c, w)
  PROVE  ProgressInv'
<1> PICK job : job = [pc |-> "send", id |-> callers[c].id, name |-> callers[c].name,
                      from |-> callers[c].from, etag |-> callers[c].etag, control |-> "run",
                      version |-> None, got |-> 0, received |-> callers[c].from, outcome |-> None]
  OBVIOUS
<1>1. /\ w \notin DOMAIN workers /\ workers' = Put(workers, w, job)
      /\ rows' = rows /\ queue' = queue /\ parts' = parts /\ launched' = launched
  BY DEF SpawnWorker, files, FreshWorker
<1>2. /\ DOMAIN workers' = DOMAIN workers \cup {w} /\ workers'[w].pc = "send"
      /\ \A v \in DOMAIN workers : workers'[v] = workers[v]
  BY <1>1 DEF Put
<1>3. Settled' = Settled
  BY <1>1, SameChannel
<1>4. \A v \in DOMAIN workers : SameJob(v) /\ (GivenUp(v)' <=> GivenUp(v))
  BY <1>2 DEF SameJob, SameTransfer, SameDownload, GivenUp
<1>5. \A i \in DownloadId : Holds(i)' => Holds(i) /\ KeptRow(i)
  BY <1>1, <1>2, <1>3, <1>4, SamePartsOnDisk DEF Holds, KeptRow
<1>6. ~launched' => DOMAIN Settled' = {}
  BY <1>1, <1>3 DEF ProgressInv, NothingToMark
<1>7. QED
  BY <1>1, <1>2, <1>3, <1>4, <1>5, <1>6, SamePartsOnDisk, CallProgress

LEMMA GoesOnProgress ==
  ASSUME Inv, ProgressInv, OneCaller, NEW c \in Thread, GoesOn(c)
  PROVE  ProgressInv'
<1> PICK id : id = callers[c].id
  OBVIOUS
<1>1. GoingOn(c, id)
  <2>1. GoingOn(c, callers[c].id)
    BY GoesOnRow
  <2>2. QED
    BY <2>1
<1>2. /\ id \in DOMAIN Settled /\ DOMAIN Settled' = DOMAIN Settled
      /\ OthersKept(Settled, Settled', id)
      /\ Settled'[id].name = Settled[id].name /\ Settled'[id].state = "active"
      /\ Settled'[id].received = Settled[id].received /\ Settled'[id].etag = Settled[id].etag
      /\ workers' = workers /\ parts' = parts /\ launched' = launched
      /\ Settled[id].state \in {"paused", "interrupted"}
      /\ \A w \in DOMAIN workers : workers[w].id # id
  BY <1>1 DEF GoingOn, RowStep
<1>3. Holds(id)
  BY <1>2 DEF Holds, Over
<1>4. \A i \in DownloadId : Holds(i)' => Holds(i) /\ Settled'[i].name = Settled[i].name
  BY <1>2, <1>3, RowHolds
<1>5. \A i \in DownloadId : Holds(i)' => Holds(i) /\ KeptRow(i)
  <2>1. SUFFICES ASSUME NEW i \in DownloadId, Holds(i)'
                 PROVE  Holds(i) /\ KeptRow(i)
    OBVIOUS
  <2>2. Holds(i) /\ i \in DOMAIN Settled /\ SameOnDisk(Settled[i].name)
    BY <1>2, <1>4, <2>1, SamePartsOnDisk DEF Holds
  <2>3. CASE i = id
    BY <1>2, <2>2, <2>3 DEF KeptRow
  <2>4. CASE i # id
    BY <1>2, <2>2, <2>4 DEF KeptRow, OthersKept
  <2>5. QED
    BY <2>3, <2>4
<1>6. \A v \in DOMAIN workers : Settled'[workers[v].id].etag = Settled[workers[v].id].etag
  BY <1>2 DEF OthersKept, Inv, RowOfWorker
<1>7. launched'
  BY <1>2, CallsAreLate DEF GoesOn, ResumeRow
<1>8. QED
  BY <1>2, <1>5, <1>6, <1>7, SamePartsOnDisk, SameJobs, CallProgress

\* The .part that a cancel drops is nobody else's.
LEMMA CancelsProgress ==
  ASSUME Inv, FileInv, ProgressInv, OneCaller, NEW c \in Thread, Cancels(c)
  PROVE  ProgressInv'
<1> PICK id : id = callers[c].id
  OBVIOUS
<1>1. Cancelling(c, id)
  <2>1. Cancelling(c, callers[c].id)
    BY CancelsRow
  <2>2. QED
    BY <2>1
<1> PICK name : name = Settled[id].name
  OBVIOUS
<1>2. /\ id \in DownloadId /\ id \in DOMAIN Settled /\ DOMAIN Settled' = DOMAIN Settled
      /\ OthersKept(Settled, Settled', id)
      /\ Settled'[id].name = name /\ Settled'[id].state = "cancelled"
      /\ Settled'[id].etag = Settled[id].etag
      /\ Settled[id].state \in {"active", "paused", "interrupted"}
      /\ workers' = workers /\ launched' = launched /\ parts' = Drop(parts, {name})
      /\ \A w \in DOMAIN workers : workers[w].id # id
  BY <1>1 DEF Cancelling, RowStep
<1>3. Holds(id) /\ ~Holds(id)'
  BY <1>2 DEF Holds, Over
<1>4. ASSUME NEW i \in DownloadId, Holds(i), i # id
      PROVE  SameOnDisk(Settled[i].name)
  <2>1. Settled[i].name # name
    BY <1>2, <1>3, <1>4 DEF FileInv, NamesAreHeld
  <2>2. DOMAIN parts' = DOMAIN parts \ {name} /\ \A n \in DOMAIN parts' : parts'[n] = parts[n]
    BY <1>2 DEF Drop
  <2>3. QED
    BY <2>1, <2>2 DEF SameOnDisk, OnDisk
<1>5. \A i \in DownloadId : Holds(i)' => Holds(i) /\ KeptRow(i)
  <2>1. SUFFICES ASSUME NEW i \in DownloadId, Holds(i)'
                 PROVE  Holds(i) /\ KeptRow(i)
    OBVIOUS
  <2>2. i # id /\ i \in DOMAIN Settled
    BY <1>2, <1>3, <2>1 DEF Holds
  <2>3. Holds(i) /\ Settled'[i] = Settled[i]
    BY <1>2, <2>1, <2>2 DEF Holds, GivenUp, OthersKept
  <2>4. QED
    BY <1>4, <2>2, <2>3 DEF KeptRow
<1>6. ASSUME NEW v \in DOMAIN workers, workers[v].pc = "settle", ~GivenUp(v)
      PROVE  SameOnDisk(workers[v].name)
  <2>1. /\ Holds(workers[v].id) /\ Settled[workers[v].id].name = workers[v].name
        /\ workers[v].id \in DownloadId
    BY <1>6, WorkerHasName
  <2>2. QED
    BY <1>2, <1>4, <2>1
<1>7. \A v \in DOMAIN workers : Settled'[workers[v].id].etag = Settled[workers[v].id].etag
  BY <1>2 DEF OthersKept, Inv, RowOfWorker
<1>8. launched'
  BY <1>2, CallsAreLate DEF Cancels, CancelRow
<1>9. QED
  BY <1>2, <1>5, <1>6, <1>7, <1>8, SameJobs, CallProgress

LEMMA ResumeInterruptedProgress ==
  ASSUME Inv, ProgressInv, NEW c \in Thread, ResumeInterrupted(c)
  PROVE  ProgressInv'
<1>1. Marks(c)
  BY MarksRows
<1>2. DOMAIN workers = {} /\ DOMAIN workers' = {} /\ DOMAIN Settled' = {}
  BY <1>1 DEF Marks, ProgressInv, NothingToMark
<1>3. QED
  BY <1>2, CallProgress DEF Holds

LEMMA AdvancesProgress ==
  ASSUME Inv, FileInv, ProgressInv, NEW w \in DOMAIN workers,
         workers[w].pc \notin {"settle", "leave"}, NEW pc, NEW outcome, Advances(w, pc, outcome),
         SameElsewhere(workers[w].name),
         \/ GivenUp(w)'
         \/ SameOnDisk(workers[w].name)
         \/ Settled[workers[w].id].etag # None,
         JobProgress(workers[w])'
  PROVE  ProgressInv'
<1> PICK id : id = workers[w].id
  OBVIOUS
<1> PICK name : name = workers[w].name
  OBVIOUS
<1>1. /\ Moves(w) /\ rows' = rows /\ queue' = queue /\ launched' = launched
      /\ workers'[w].id = id
  BY DEF Advances, SameTransfer, SameDownload
<1>2. Settled' = Settled
  BY <1>1, SameChannel
<1>3. /\ Holds(id) /\ Settled[id].name = name /\ Settled[id].state = "active"
      /\ id \in DownloadId
  BY TransferHolds, JobFields DEF Inv, RowOfWorker
<1>4. RowProgress(id)
  BY <1>3 DEF ProgressInv, RowsCount
<1>5. ASSUME Holds(id)'
      PROVE  RowProgress(id)'
  <2>1. ~GivenUp(w)'
    BY <1>1, <1>5 DEF Holds, Moves
  <2> PICK row : row = Settled'[id]
    OBVIOUS
  <2> PICK size : size = IF row.name \in DOMAIN parts' THEN Len(parts'[row.name]) ELSE 0
    OBVIOUS
  <2>2. row.state = "active" /\ row.name = name /\ row.etag = Settled[id].etag
    BY <1>2, <1>3
  <2>3. SameOnDisk(name) => (size > 0 => row.etag # None)
    BY <1>3, <1>4, <2>2 DEF SameOnDisk, RowProgress
  <2>4. size > 0 => row.etag # None
    BY <2>1, <2>2, <2>3
  <2>5. QED
    BY <2>2, <2>4, NextRowProgress
<1>6. Holds(workers[w].id)' => RowProgress(workers[w].id)'
  BY <1>1, <1>5
<1>7. \A n \in FileName \ {name} : SameOnDisk(n)
  BY ElsewhereOnDisk
<1>8. OthersKept(Settled, Settled', id)
  BY <1>2 DEF OthersKept
<1>9. QED
  BY <1>1, <1>2, <1>6, <1>7, <1>8, WorkerProgress

LEMMA StaysProgress ==
  ASSUME Inv, FileInv, ProgressInv, NEW w \in DOMAIN workers,
         workers[w].pc \notin {"settle", "leave"}, NEW pc, NEW outcome, Advances(w, pc, outcome),
         parts' = parts, dests' = dests, JobProgress(workers[w])'
  PROVE  ProgressInv'
BY FilesElsewhere, SamePartsOnDisk, AdvancesProgress

\* Where a transfer ends, it has counted what is on disk.
LEMMA StopProgress ==
  ASSUME Inv, FileInv, NEW w \in DOMAIN workers, NEW outcome, Advances(w, "settle", outcome),
         parts' = parts, workers[w].received = OnDisk(workers[w].name)
  PROVE  JobProgress(workers[w])'
<1> PICK new : new = workers'[w]
  OBVIOUS
<1>1. /\ new.pc = "settle" /\ new.name = workers[w].name /\ new.received = workers[w].received
  BY DEF Advances, SameTransfer, SameDownload
<1>2. new.received = IF new.name \in DOMAIN parts' THEN Len(parts'[new.name]) ELSE 0
  BY <1>1 DEF OnDisk
<1>3. QED
  BY <1>1, <1>2 DEF JobProgress, OnDisk

\* Where it goes on, it has counted what it got.
LEMMA GoOnProgress ==
  ASSUME Inv, ProgressInv, NEW w \in DOMAIN workers,
         workers[w].pc \in {"open", "check", "read"}, NEW pc \in {"check", "read", "rename"},
         NEW outcome, Advances(w, pc, outcome)
  PROVE  JobProgress(workers[w])' /\ Settled[workers[w].id].etag # None
<1> PICK new : new = workers'[w]
  OBVIOUS
<1>1. /\ new.pc = pc /\ new.id = workers[w].id /\ new.got = workers[w].got
      /\ new.received = workers[w].received /\ rows' = rows /\ queue' = queue
  BY DEF Advances, SameTransfer, SameDownload
<1>2. Settled' = Settled
  BY <1>1, SameChannel
<1>3. JobProgress(workers[w])
  BY DEF ProgressInv, JobsCount
<1>4. Settled[workers[w].id].etag # None /\ workers[w].received = workers[w].got
  BY <1>3 DEF JobProgress
<1>5. new.received = new.got /\ Settled'[new.id].etag # None /\ new.pc # "settle"
  BY <1>1, <1>2, <1>4
<1>6. JobProgress(workers[w])'
  BY <1>5 DEF JobProgress
<1>7. QED
  BY <1>4, <1>6

LEMMA SendRequestProgress ==
  ASSUME Inv, FileInv, ProgressInv, NothingIsLost, NEW w \in DOMAIN workers, SendRequest(w)
  PROVE  ProgressInv'
<1> PICK job : job = workers[w]
  OBVIOUS
<1> PICK name : name = job.name
  OBVIOUS
<1> PICK id : id = job.id
  OBVIOUS
<1>1. job.pc = "send" /\ job.from \in Nat
  BY SendCases, JobFields
<1>2. job.from = OnDisk(name) /\ job.received = job.from
  BY <1>1 DEF FileInv, CountsAreOnDisk, JobOnDisk
<1>3. /\ Holds(id) /\ Settled[id].name = name /\ Settled[id].state = "active"
      /\ id \in DownloadId /\ job.etag = Settled[id].etag
  BY <1>1, TransferHolds, JobFields DEF Inv, RowOfWorker
<1>4. CASE Advances(w, "settle", "interrupted") /\ parts' = parts /\ dests' = dests
  <2>1. JobProgress(workers[w])'
    BY <1>2, <1>4, StopProgress
  <2>2. QED
    BY <1>1, <1>4, <2>1, StaysProgress
<1>5. ASSUME NEW got, HasHeaders(w, got, got)
      PROVE  ProgressInv'
  <2>1. /\ Moves(w) /\ SameDownload(w) /\ workers'[w].pc = "open"
        /\ workers'[w].got = got /\ workers'[w].received = got
        /\ parts' = parts /\ launched' = launched
        /\ DOMAIN Settled' = DOMAIN Settled /\ OthersKept(Settled, Settled', id)
        /\ Settled'[id].state = Settled[id].state
        /\ Settled'[id].etag =
             (IF Validator[server] = None THEN Settled[id].etag ELSE Validator[server])
    BY <1>5 DEF HasHeaders
  <2>2. Settled'[id].etag # None
    BY <2>1, EtagOfServer DEF NothingIsLost
  <2>3. JobProgress(workers[w])'
    <3> PICK new : new = workers'[w]
      OBVIOUS
    <3>1. new.pc = "open" /\ new.received = new.got /\ Settled'[new.id].etag # None
      BY <2>1, <2>2 DEF SameDownload
    <3>2. QED
      BY <3>1 DEF JobProgress
  <2>4. RowProgress(id)'
    <3> PICK row : row = Settled'[id]
      OBVIOUS
    <3> PICK size : size = IF row.name \in DOMAIN parts' THEN Len(parts'[row.name]) ELSE 0
      OBVIOUS
    <3>1. row.etag # None /\ row.state = "active"
      BY <1>3, <2>1, <2>2
    <3>2. QED
      BY <3>1, NextRowProgress
  <2>5. workers'[w].id = id
    BY <2>1 DEF SameDownload
  <2>6. RowProgress(workers[w].id)'
    BY <2>4, <2>5
  <2>7. QED
    BY <1>1, <2>1, <2>3, <2>5, <2>6, SamePartsOnDisk, WorkerProgress
<1>6. CASE HasHeaders(w, job.from, job.received)
  BY <1>2, <1>5, <1>6
<1>7. CASE HasHeaders(w, 0, IF WantsResume(w) THEN 0 ELSE job.received)
  <2>1. ~WantsResume(w) => job.received = 0
    <3>1. job.from > 0 => job.etag # None
      BY <1>2, <1>3 DEF ProgressInv, RowsCount, RowProgress
    <3>2. ~WantsResume(w) => ~(job.from > 0)
      BY <3>1 DEF WantsResume
    <3>3. ~(job.from > 0) => job.from = 0
      BY <1>1, SMT
    <3>4. QED
      BY <1>2, <3>2, <3>3
  <2>2. QED
    BY <1>5, <1>7, <2>1
<1>8. QED
  BY <1>4, <1>6, <1>7, SendCases

LEMMA OpenPartProgress ==
  ASSUME Inv, FileInv, ProgressInv, NothingIsLost, NEW w \in DOMAIN workers, OpenPart(w)
  PROVE  ProgressInv'
<1> PICK job : job = workers[w]
  OBVIOUS
<1> PICK name : name = job.name
  OBVIOUS
<1>1. job.pc = "open" /\ dests' = dests /\ name \in FileName
  BY OpenCases, JobFields
<1>2. CASE Advances(w, "check", job.outcome)
  <2>1. JobProgress(workers[w])' /\ Settled[job.id].etag # None
    BY <1>1, <1>2, GoOnProgress
  <2>2. parts' = parts => SameElsewhere(name)
    BY <1>1, FilesElsewhere
  <2>3. parts' = Put(parts, name, <<>>) => SameElsewhere(name)
    BY <1>1 DEF Put, SameElsewhere
  <2>4. parts' = parts \/ parts' = Put(parts, name, <<>>)
    <3>1. ~Advances(w, "settle", "interrupted")
      BY <1>2 DEF Advances
    <3>2. QED
      BY <3>1, OpenCases
  <2>5. QED
    BY <1>1, <1>2, <2>1, <2>2, <2>3, <2>4, AdvancesProgress
<1>3. CASE "disk" \in Faults \/ (job.got > 0 /\ name \notin DOMAIN parts)
  <2>1. job.got = 0 \/ job.got = OnDisk(name)
    BY <1>1 DEF FileInv, CountsAreOnDisk, JobOnDisk
  <2>2. name \notin DOMAIN parts => ~(job.got > 0)
    BY <2>1, SMT DEF OnDisk
  <2>3. QED
    BY <1>3, <2>2 DEF NothingIsLost
<1>4. QED
  BY <1>2, <1>3, OpenCases

\* Between two chunks, what is received is on disk.
LEMMA ReadIsOnDisk ==
  ASSUME Inv, FileInv, ProgressInv, NEW w \in DOMAIN workers, workers[w].pc \in {"check", "read"}
  PROVE  workers[w].received = OnDisk(workers[w].name)
<1>1. /\ workers[w].name \in DOMAIN parts /\ Len(parts[workers[w].name]) = workers[w].got
  BY DEF FileInv, CountsAreOnDisk, JobOnDisk
<1>2. workers[w].received = workers[w].got
  BY DEF ProgressInv, JobsCount, JobProgress
<1>3. QED
  BY <1>1, <1>2 DEF OnDisk

LEMMA CheckControlProgress ==
  ASSUME Inv, FileInv, ProgressInv, NEW w \in DOMAIN workers, CheckControl(w)
  PROVE  ProgressInv'
<1> PICK name : name = workers[w].name
  OBVIOUS
<1>1. workers[w].pc = "check" /\ dests' = dests /\ name \in FileName
  BY CheckCases, JobFields
<1>2. CASE Advances(w, "read", workers[w].outcome) /\ parts' = parts
  <2>1. JobProgress(workers[w])'
    BY <1>1, <1>2, GoOnProgress
  <2>2. QED
    BY <1>1, <1>2, <2>1, StaysProgress
<1>3. CASE Advances(w, "settle", "paused") /\ parts' = parts
  <2>1. JobProgress(workers[w])'
    BY <1>1, <1>3, ReadIsOnDisk, StopProgress
  <2>2. QED
    BY <1>1, <1>3, <2>1, StaysProgress
<1>4. CASE Advances(w, "settle", "cancelled") /\ parts' = Drop(parts, {name})
  <2>1. DOMAIN parts' = DOMAIN parts \ {name} /\ \A n \in DOMAIN parts' : parts'[n] = parts[n]
    BY <1>4 DEF Drop
  <2>2. SameElsewhere(name)
    BY <1>1, <2>1 DEF SameElsewhere
  <2>3. workers'[w].pc = "settle" /\ workers'[w].outcome = "cancelled"
    BY <1>4 DEF Advances
  <2>4. GivenUp(w)' /\ JobProgress(workers[w])'
    BY <2>3 DEF GivenUp, Over, JobProgress
  <2>5. QED
    BY <1>1, <1>4, <2>2, <2>4, AdvancesProgress
<1>5. QED
  BY <1>2, <1>3, <1>4, CheckCases

LEMMA ReadChunkProgress ==
  ASSUME Inv, FileInv, ProgressInv, NEW w \in DOMAIN workers, ReadChunk(w)
  PROVE  ProgressInv'
<1> PICK job : job = workers[w]
  OBVIOUS
<1> PICK name : name = job.name
  OBVIOUS
<1> PICK id : id = job.id
  OBVIOUS
<1> PICK got : got = job.got + 1
  OBVIOUS
<1>1. job.pc = "read" /\ HasChunk(w) /\ name \in FileName
  BY ChunkCases, JobFields
<1>2. /\ Moves(w) /\ SameDownload(w) /\ workers'[w].pc = "check"
      /\ workers'[w].got = got /\ workers'[w].received = got /\ launched' = launched
      /\ dests' = dests
      /\ parts' = (IF name \in DOMAIN parts
                   THEN [parts EXCEPT ![name] = Append(@, <<job.version, got>>)] ELSE parts)
      /\ DOMAIN Settled' = DOMAIN Settled /\ OthersKept(Settled, Settled', id)
      /\ Settled'[id].state = Settled[id].state /\ Settled'[id].etag = Settled[id].etag
  BY <1>1 DEF HasChunk
<1>3. Settled[id].etag # None /\ Settled[id].state = "active"
  BY <1>1 DEF ProgressInv, JobsCount, JobProgress, Inv, RowOfWorker
<1>4. workers'[w].id = id
  BY <1>2 DEF SameDownload
<1>5. JobProgress(workers[w])'
  <2> PICK new : new = workers'[w]
    OBVIOUS
  <2>1. new.pc = "check" /\ new.received = new.got /\ Settled'[new.id].etag # None
    BY <1>2, <1>3, <1>4
  <2>2. QED
    BY <2>1 DEF JobProgress
<1>6. RowProgress(id)'
  <2> PICK row : row = Settled'[id]
    OBVIOUS
  <2> PICK size : size = IF row.name \in DOMAIN parts' THEN Len(parts'[row.name]) ELSE 0
    OBVIOUS
  <2>1. row.etag # None /\ row.state = "active"
    BY <1>2, <1>3
  <2>2. QED
    BY <2>1, NextRowProgress
<1>7. RowProgress(workers[w].id)'
  BY <1>4, <1>6
<1>8. SameElsewhere(name)
  BY <1>2 DEF SameElsewhere
<1>9. QED
  BY <1>1, <1>2, <1>4, <1>5, <1>7, <1>8, ElsewhereOnDisk, WorkerProgress

LEMMA ReadEndProgress ==
  ASSUME Inv, FileInv, ProgressInv, NEW w \in DOMAIN workers, ReadEnd(w)
  PROVE  ProgressInv'
<1>1. workers[w].pc = "read" /\ parts' = parts /\ dests' = dests
  BY EndCases
<1>2. CASE Advances(w, "settle", "interrupted")
  <2>1. JobProgress(workers[w])'
    BY <1>1, <1>2, ReadIsOnDisk, StopProgress
  <2>2. QED
    BY <1>1, <1>2, <2>1, StaysProgress
<1>3. CASE Advances(w, "rename", "completed")
  <2>1. JobProgress(workers[w])'
    BY <1>1, <1>3, GoOnProgress
  <2>2. QED
    BY <1>1, <1>3, <2>1, StaysProgress
<1>4. QED
  BY <1>2, <1>3, EndCases

LEMMA RenameProgress ==
  ASSUME Inv, FileInv, ProgressInv, NEW w \in DOMAIN workers, Rename(w)
  PROVE  ProgressInv'
<1> PICK name : name = workers[w].name
  OBVIOUS
<1>1. workers[w].pc = "rename" /\ Advances(w, "settle", "completed") /\ name \in FileName
  BY RenameCases, JobFields
<1>2. Settled[workers[w].id].etag # None
  BY <1>1 DEF ProgressInv, JobsCount, JobProgress
<1>3. workers'[w].pc = "settle" /\ workers'[w].outcome = "completed"
  BY <1>1 DEF Advances
<1>4. JobProgress(workers[w])'
  BY <1>3 DEF JobProgress
<1>5. SameElsewhere(name)
  <2>1. parts' = parts /\ dests' = dests => SameElsewhere(name)
    BY FilesElsewhere
  <2>2. dests' = Put(dests, name, parts[name]) /\ parts' = Drop(parts, {name}) => SameElsewhere(name)
    BY DEF Put, Drop, SameElsewhere
  <2>3. QED
    BY <2>1, <2>2, RenameCases
<1>6. QED
  BY <1>1, <1>2, <1>4, <1>5, AdvancesProgress

\* The last progress is queued with the final state.
LEMMA SettleProgress ==
  ASSUME Inv, FileInv, ProgressInv, NEW w \in DOMAIN workers, Settle(w)
  PROVE  ProgressInv'
<1> PICK job : job = workers[w]
  OBVIOUS
<1> PICK name : name = job.name
  OBVIOUS
<1> PICK id : id = job.id
  OBVIOUS
<1>1. Settles(w)
  BY SettleSettles
<1>2. /\ Moves(w) /\ SameTransfer(w) /\ job.pc = "settle" /\ workers'[w].pc = "leave"
      /\ workers'[w].outcome = job.outcome /\ parts' = parts /\ launched' = launched
      /\ DOMAIN Settled' = DOMAIN Settled /\ OthersKept(Settled, Settled', id)
      /\ Settled'[id].name = Settled[id].name /\ Settled'[id].state = job.outcome
      /\ Settled'[id].received = job.received /\ Settled'[id].etag = Settled[id].etag
  BY <1>1 DEF Settles
<1>3. workers'[w].id = id
  BY <1>2 DEF SameTransfer, SameDownload
<1>4. ASSUME Holds(id)'
      PROVE  RowProgress(id)'
  <2>1. ~GivenUp(w)
    BY <1>2, <1>4 DEF Holds, GivenUp
  <2>2. Holds(id) /\ Settled[id].name = name /\ id \in DownloadId
    BY <1>2, <2>1, WorkerHasName
  <2>3. RowProgress(id) /\ JobProgress(job)
    BY <2>2 DEF ProgressInv, RowsCount, JobsCount
  <2> PICK row : row = Settled'[id]
    OBVIOUS
  <2> PICK size : size = IF row.name \in DOMAIN parts' THEN Len(parts'[row.name]) ELSE 0
    OBVIOUS
  <2>4. size = OnDisk(name) /\ row.etag = Settled[id].etag
    BY <1>2, <2>2 DEF OnDisk
  <2>5. size > 0 => row.etag # None
    BY <2>2, <2>3, <2>4 DEF RowProgress
  <2>6. row.state \in {"paused", "interrupted"} => row.received = size
    BY <1>2, <2>3, <2>4 DEF JobProgress
  <2>7. QED
    BY <2>5, <2>6, NextRowProgress
<1>5. Holds(workers[w].id)' => RowProgress(workers[w].id)'
  BY <1>3, <1>4
<1>6. JobProgress(workers[w])'
  BY <1>2 DEF JobProgress
<1>7. QED
  BY <1>2, <1>3, <1>5, <1>6, SamePartsOnDisk, WorkerProgress

LEMMA LeaveProgress ==
  ASSUME Inv, ProgressInv, NEW w \in DOMAIN workers, Leave(w)
  PROVE  ProgressInv'
<1>1. Leaves(w)
  BY LeaveLeaves
<1>2. /\ DOMAIN workers' = DOMAIN workers \ {w} /\ \A v \in DOMAIN workers' : workers'[v] = workers[v]
      /\ Settled' = Settled /\ parts' = parts /\ launched' = launched
  BY <1>1 DEF Leaves
<1>3. \A v \in DOMAIN workers' : v \in DOMAIN workers /\ SameJob(v)
  BY <1>2 DEF SameJob, SameTransfer, SameDownload
<1>4. \A i \in DownloadId : Holds(i)' => Holds(i) /\ KeptRow(i)
  BY <1>1, <1>2, LeaveHolds, SamePartsOnDisk DEF KeptRow
<1>5. ~launched' => DOMAIN Settled' = {}
  BY <1>2 DEF ProgressInv, NothingToMark
<1>6. QED
  BY <1>2, <1>3, <1>4, <1>5, SamePartsOnDisk, CallProgress

LEMMA InitProgress == Init => ProgressInv
<1>1. SUFFICES ASSUME Init
               PROVE  ProgressInv
  OBVIOUS
<1>2. Settled = <<>>
  BY <1>1, NothingQueued, SettledIsFinal DEF Init
<1>3. DOMAIN Settled = {} /\ DOMAIN workers = {}
  BY <1>1, <1>2, SMT DEF Init
<1>4. QED
  BY <1>3 DEF ProgressInv, NothingToMark, RowsCount, JobsCount, Holds

LEMMA StepProgress ==
  ASSUME Inv, FileInv, ProgressInv, OneCaller, NothingIsLost, [Next]_vars
  PROVE  ProgressInv'
<1>1. ASSUME NEW w \in DOMAIN workers, WorkerStep(w)
      PROVE  ProgressInv'
  BY <1>1, SendRequestProgress, OpenPartProgress, CheckControlProgress, ReadChunkProgress,
     ReadEndProgress, RenameProgress, SettleProgress, LeaveProgress DEF WorkerStep
<1>2. ASSUME NEW c \in Thread, Reserve(c) \/ GoesOn(c) \/ Cancels(c) \/ ResumeInterrupted(c)
      PROVE  ProgressInv'
  BY <1>2, ReserveProgress, GoesOnProgress, CancelsProgress, ResumeInterruptedProgress
<1>3. ~Restart
  BY DEF Restart, NothingIsLost
<1>4. QED
  BY <1>1, <1>2, <1>3, StepCases, QuietProgress, ChoosesProgress, SpawnWorkerProgress

\* The progress listed for a download that rests is what its .part holds, as long as the
\* process lives, the disk works and the server names what it sends: a worker queues its
\* last count before the final state, and a 200 that starts over sets the count to zero.
THEOREM ProgressTells ==
  ASSUME OneCaller, NothingIsLost PROVE Spec => []ProgressIsOnDisk
<1>1. NoSharedNames
  BY DEF NothingIsLost, NoSharedNames, FilesAreSafe
<1>2. Init => ProgressInv
  BY InitProgress
<1>3. (Inv /\ FileInv) /\ ProgressInv /\ [Next]_vars => ProgressInv'
  BY StepProgress
<1>4. Inv /\ ProgressInv => ProgressIsOnDisk
  <2>1. SUFFICES ASSUME Inv, ProgressInv, NEW id \in DOMAIN Settled,
                        Settled[id].state \in {"paused", "interrupted"}
                 PROVE  Settled[id].received = OnDisk(Settled[id].name)
    BY DEF ProgressIsOnDisk, OnDisk
  <2>2. Holds(id) /\ id \in DownloadId
    BY <2>1, RestHolds
  <2>3. QED
    BY <2>1, <2>2 DEF ProgressInv, RowsCount, RowProgress
<1>5. Spec => [](Inv /\ FileInv)
  BY <1>1, FilesHold
<1>6. QED
  BY <1>2, <1>3, <1>4, <1>5, PTL DEF Spec
===============================================================================
