----------------------------- MODULE EngineProofs -----------------------------
(***************************************************************************)
(* Theorems about EngineParity: for any pages and any number of calls.     *)
(***************************************************************************)
EXTENDS EngineParity, SequenceTheorems, WellFoundedInduction, TLAPS

(***************************************************************************)
(* Parts of a list of entries                                              *)
(***************************************************************************)

\* Length and elements of a contiguous part of a list.
LEMMA PartElements ==
  ASSUME NEW S, NEW s \in Seq(S), NEW m \in 1 .. Len(s) + 1, NEW n \in 0 .. Len(s)
  PROVE  /\ SubSeq(s, m, n) \in Seq(S)
         /\ Len(SubSeq(s, m, n)) = IF m <= n THEN n - m + 1 ELSE 0
         /\ \A i \in 1 .. Len(SubSeq(s, m, n)) : SubSeq(s, m, n)[i] = s[m + i - 1]
<1>1. \A i \in m .. n : s[i] \in S
  BY SMT
<1>2. /\ SubSeq(s, m, n) \in Seq(S)
      /\ Len(SubSeq(s, m, n)) = IF m <= n THEN n - m + 1 ELSE 0
      /\ \A i \in 1 .. n - m + 1 : SubSeq(s, m, n)[i] = s[m + i - 1]
  <2>1. m \in Int /\ n \in Int
    BY SMT
  <2>2. QED
    BY <1>1, <2>1, SubSeqProperties
<1>3. QED
  BY <1>2, SMT

\* A reversed list has the elements of the list, last first.
LEMMA ReverseElements ==
  ASSUME NEW S, NEW s \in Seq(S)
  PROVE  /\ Reverse(s) \in Seq(S)
         /\ Len(Reverse(s)) = Len(s)
         /\ \A i \in 1 .. Len(s) : Reverse(s)[i] = s[Len(s) - i + 1]
<1> DEFINE r == [i \in 1 .. Len(s) |-> s[(Len(s) - i) + 1]]
<1>1. Len(s) \in Nat /\ \A i \in 1 .. Len(s) : s[(Len(s) - i) + 1] \in S
  BY SMT
<1>2. r \in Seq(S) /\ Len(r) = Len(s)
  BY <1>1, SMT
<1>3. \A i \in 1 .. Len(s) : r[i] = s[Len(s) - i + 1]
  BY SMT
<1>4. Reverse(s) = r
  BY DEF Reverse
<1>5. QED
  BY <1>2, <1>3, <1>4

\* A step back along the entries: what is left of the entries before, the entry
\* reached, and the entries after with the one that was left.
LEMMA StepBack ==
  ASSUME NEW S, NEW s \in Seq(S), NEW c \in 2 .. Len(s)
  PROVE  /\ SubSeq(s, 1, c - 1) # <<>>
         /\ Front(SubSeq(s, 1, c - 1)) = SubSeq(s, 1, c - 2)
         /\ Last(SubSeq(s, 1, c - 1)) = s[c - 1]
         /\ Append(Reverse(SubSeq(s, c + 1, Len(s))), s[c]) = Reverse(SubSeq(s, c, Len(s)))
<1> DEFINE back == SubSeq(s, 1, c - 1)
           front == SubSeq(back, 1, c - 2)
           less == SubSeq(s, 1, c - 2)
           after == SubSeq(s, c + 1, Len(s))
           more == SubSeq(s, c, Len(s))
<1>1. Len(s) \in Nat /\ c \in Nat /\ c - 1 \in Nat /\ c - 2 \in Nat /\ s[c] \in S
  BY SMT
<1>2. /\ 1 \in 1 .. Len(s) + 1 /\ c - 1 \in 0 .. Len(s) /\ c - 2 \in 0 .. Len(s)
      /\ c \in 1 .. Len(s) + 1 /\ c + 1 \in 1 .. Len(s) + 1 /\ Len(s) \in 0 .. Len(s)
      /\ 1 <= c - 1 /\ (c - 1) - 1 + 1 = c - 1 /\ (c - 1) - 1 = c - 2
  BY <1>1, SMT
<1>3. /\ back \in Seq(S) /\ Len(back) = c - 1
      /\ \A i \in 1 .. Len(back) : back[i] = s[1 + i - 1]
  BY <1>2, PartElements
<1>4. /\ less \in Seq(S) /\ Len(less) = IF 1 <= c - 2 THEN (c - 2) - 1 + 1 ELSE 0
      /\ \A i \in 1 .. Len(less) : less[i] = s[1 + i - 1]
  BY <1>2, PartElements
<1>5. /\ after \in Seq(S) /\ Len(after) = IF c + 1 <= Len(s) THEN Len(s) - (c + 1) + 1 ELSE 0
      /\ \A i \in 1 .. Len(after) : after[i] = s[(c + 1) + i - 1]
  BY <1>2, PartElements
<1>6. /\ more \in Seq(S) /\ Len(more) = IF c <= Len(s) THEN Len(s) - c + 1 ELSE 0
      /\ \A i \in 1 .. Len(more) : more[i] = s[c + i - 1]
  BY <1>2, PartElements
<1> HIDE DEF back, less, after, more
<1>7. /\ front \in Seq(S) /\ Len(front) = IF 1 <= c - 2 THEN (c - 2) - 1 + 1 ELSE 0
      /\ \A i \in 1 .. Len(front) : front[i] = back[1 + i - 1]
  <2>1. 1 \in 1 .. Len(back) + 1 /\ c - 2 \in 0 .. Len(back)
    BY <1>1, <1>3, SMT
  <2>2. QED
    BY <1>3, <2>1, PartElements
<1>8. front = less
  <2> HIDE DEF front
  <2>1. Len(front) = Len(less) /\ \A i \in 1 .. Len(front) : front[i] = less[i]
    BY <1>1, <1>3, <1>4, <1>7, SMT
  <2>2. QED
    BY <1>4, <1>7, <2>1, SeqEqual
<1>9. Front(back) = less
  BY <1>2, <1>3, <1>8 DEF Front
<1>10. Last(back) = s[c - 1]
  <2>1. Last(back) = back[c - 1]
    BY <1>3 DEF Last
  <2>2. c - 1 \in 1 .. Len(back) /\ 1 + (c - 1) - 1 = c - 1
    BY <1>1, <1>3, SMT
  <2>3. QED
    BY <1>3, <2>1, <2>2
<1>11. back # <<>>
  BY <1>1, <1>3, SMT
<1>12. Append(Reverse(after), s[c]) = Reverse(more)
  <2> DEFINE ra == Reverse(after)
             rm == Reverse(more)
             ap == Append(ra, s[c])
  <2>1. ra \in Seq(S) /\ Len(ra) = Len(after)
        /\ \A i \in 1 .. Len(after) : ra[i] = after[Len(after) - i + 1]
    BY <1>5, ReverseElements
  <2>2. rm \in Seq(S) /\ Len(rm) = Len(more)
        /\ \A i \in 1 .. Len(more) : rm[i] = more[Len(more) - i + 1]
    BY <1>6, ReverseElements
  <2> HIDE DEF ra, rm
  <2>3. ap \in Seq(S) /\ Len(ap) = Len(ra) + 1
        /\ (\A i \in 1 .. Len(ra) : ap[i] = ra[i]) /\ ap[Len(ra) + 1] = s[c]
    BY <1>1, <2>1, AppendProperties
  <2> HIDE DEF ap
  <2>4. Len(after) = Len(s) - c /\ Len(more) = Len(s) - c + 1
    BY <1>1, <1>5, <1>6, SMT
  <2>5. ASSUME NEW i \in 1 .. Len(ap)
        PROVE  ap[i] = rm[i]
    <3>1. CASE i \in 1 .. Len(after)
      <4>1. ap[i] = after[Len(after) - i + 1]
        BY <2>1, <2>3, <3>1
      <4>2. Len(after) - i + 1 \in 1 .. Len(after)
            /\ (c + 1) + (Len(after) - i + 1) - 1 = Len(s) - i + 1
        BY <1>1, <2>4, <3>1, SMT
      <4>3. ap[i] = s[Len(s) - i + 1]
        BY <1>5, <4>1, <4>2
      <4>4. i \in 1 .. Len(more) /\ Len(more) - i + 1 \in 1 .. Len(more)
            /\ c + (Len(more) - i + 1) - 1 = Len(s) - i + 1
        BY <1>1, <2>4, <3>1, SMT
      <4>5. rm[i] = s[Len(s) - i + 1]
        BY <1>6, <2>2, <4>4
      <4>6. QED
        BY <4>3, <4>5
    <3>2. CASE i = Len(after) + 1
      <4>1. ap[i] = s[c]
        BY <2>1, <2>3, <3>2
      <4>2. i \in 1 .. Len(more) /\ Len(more) - i + 1 \in 1 .. Len(more)
            /\ c + (Len(more) - i + 1) - 1 = c
        BY <1>1, <2>4, <3>2, SMT
      <4>3. rm[i] = s[c]
        BY <1>6, <2>2, <4>2
      <4>4. QED
        BY <4>1, <4>3
    <3>3. i \in 1 .. Len(after) \/ i = Len(after) + 1
      <4>1. Len(ap) = Len(after) + 1 /\ Len(after) \in Nat
        BY <1>5, <2>1, <2>3, LenProperties
      <4>2. QED
        BY <4>1, SMT
    <3>4. QED
      BY <3>1, <3>2, <3>3
  <2>6. Len(ap) = Len(rm)
    BY <1>1, <2>1, <2>2, <2>3, <2>4, SMT
  <2>7. ap = rm
    BY <2>2, <2>3, <2>5, <2>6, SeqEqual
  <2>8. QED
    BY <2>7 DEF ap, ra, rm
<1>13. QED
  BY <1>9, <1>10, <1>11, <1>12 DEF back, less, after, more

\* A list that is empty reversed
LEMMA ReverseOfEmpty == Reverse(<<>>) = <<>>
<1>1. <<>> \in Seq({}) /\ Len(<<>>) = 0
  BY EmptySeq
<1>2. Reverse(<<>>) \in Seq({}) /\ Len(Reverse(<<>>)) = 0
  BY <1>1, ReverseElements
<1>3. QED
  BY <1>2, SMT

\* A beginning of a list and the entry after it
LEMMA AppendPart ==
  ASSUME NEW S, NEW s \in Seq(S), NEW c \in 1 .. Len(s)
  PROVE  Append(SubSeq(s, 1, c - 1), s[c]) = SubSeq(s, 1, c)
<1> DEFINE back == SubSeq(s, 1, c - 1)
           more == SubSeq(s, 1, c)
           ap == Append(back, s[c])
<1>1. Len(s) \in Nat /\ c \in Nat /\ c - 1 \in Nat /\ s[c] \in S
      /\ 1 \in 1 .. Len(s) + 1 /\ c - 1 \in 0 .. Len(s) /\ c \in 0 .. Len(s)
  BY SMT
<1>2. /\ back \in Seq(S) /\ Len(back) = IF 1 <= c - 1 THEN (c - 1) - 1 + 1 ELSE 0
      /\ \A i \in 1 .. Len(back) : back[i] = s[1 + i - 1]
  BY <1>1, PartElements
<1>3. /\ more \in Seq(S) /\ Len(more) = IF 1 <= c THEN c - 1 + 1 ELSE 0
      /\ \A i \in 1 .. Len(more) : more[i] = s[1 + i - 1]
  BY <1>1, PartElements
<1> HIDE DEF back, more
<1>4. Len(back) = c - 1 /\ Len(more) = c
  BY <1>1, <1>2, <1>3, SMT
<1>5. ap \in Seq(S) /\ Len(ap) = Len(back) + 1
      /\ (\A i \in 1 .. Len(back) : ap[i] = back[i]) /\ ap[Len(back) + 1] = s[c]
  BY <1>1, <1>2, AppendProperties
<1> HIDE DEF ap
<1>6. Len(ap) = Len(more) /\ \A i \in 1 .. Len(ap) : ap[i] = more[i]
  BY <1>1, <1>2, <1>3, <1>4, <1>5, SMT
<1>7. ap = more
  BY <1>3, <1>5, <1>6, SeqEqual
<1>8. QED
  BY <1>7 DEF ap, back, more

\* A step forward: the same towards the other end.
LEMMA StepForward ==
  ASSUME NEW S, NEW s \in Seq(S), NEW c \in 1 .. Len(s) - 1
  PROVE  /\ Reverse(SubSeq(s, c + 1, Len(s))) # <<>>
         /\ Front(Reverse(SubSeq(s, c + 1, Len(s)))) = Reverse(SubSeq(s, c + 2, Len(s)))
         /\ Last(Reverse(SubSeq(s, c + 1, Len(s)))) = s[c + 1]
         /\ Append(SubSeq(s, 1, c - 1), s[c]) = SubSeq(s, 1, c)
<1> DEFINE after == SubSeq(s, c + 1, Len(s))
           less == SubSeq(s, c + 2, Len(s))
           ra == Reverse(after)
           rl == Reverse(less)
           front == SubSeq(ra, 1, Len(ra) - 1)
<1>1. Len(s) \in Nat /\ c \in Nat /\ c - 1 \in Nat /\ c <= Len(s) - 1 /\ s[c] \in S
  BY SMT
<1>2. /\ 1 \in 1 .. Len(s) + 1 /\ c - 1 \in 0 .. Len(s) /\ c \in 0 .. Len(s)
      /\ c + 1 \in 1 .. Len(s) + 1 /\ c + 2 \in 1 .. Len(s) + 1 /\ Len(s) \in 0 .. Len(s)
  BY <1>1, SMT
<1>3. /\ after \in Seq(S) /\ Len(after) = IF c + 1 <= Len(s) THEN Len(s) - (c + 1) + 1 ELSE 0
      /\ \A i \in 1 .. Len(after) : after[i] = s[(c + 1) + i - 1]
  BY <1>2, PartElements
<1>4. /\ less \in Seq(S) /\ Len(less) = IF c + 2 <= Len(s) THEN Len(s) - (c + 2) + 1 ELSE 0
      /\ \A i \in 1 .. Len(less) : less[i] = s[(c + 2) + i - 1]
  BY <1>2, PartElements
<1> HIDE DEF after, less
<1>7. Len(after) = Len(s) - c /\ Len(less) = Len(s) - c - 1
  BY <1>1, <1>3, <1>4, SMT
<1>8. ra \in Seq(S) /\ Len(ra) = Len(after)
      /\ \A i \in 1 .. Len(after) : ra[i] = after[Len(after) - i + 1]
  BY <1>3, ReverseElements
<1>9. rl \in Seq(S) /\ Len(rl) = Len(less)
      /\ \A i \in 1 .. Len(less) : rl[i] = less[Len(less) - i + 1]
  BY <1>4, ReverseElements
<1> HIDE DEF ra, rl
<1>10. front \in Seq(S) /\ Len(front) = Len(rl) /\ \A i \in 1 .. Len(front) : front[i] = ra[1 + i - 1]
  <2>1. 1 \in 1 .. Len(ra) + 1 /\ Len(ra) - 1 \in 0 .. Len(ra)
    BY <1>1, <1>7, <1>8, SMT
  <2>2. /\ front \in Seq(S) /\ Len(front) = IF 1 <= Len(ra) - 1 THEN (Len(ra) - 1) - 1 + 1 ELSE 0
        /\ \A i \in 1 .. Len(front) : front[i] = ra[1 + i - 1]
    BY <1>8, <2>1, PartElements
  <2> HIDE DEF front
  <2>3. Len(front) = Len(rl)
    BY <1>1, <1>7, <1>8, <1>9, <2>2, SMT
  <2>4. QED
    BY <2>2, <2>3
<1>11. front = rl
  <2> HIDE DEF front
  <2>1. ASSUME NEW i \in 1 .. Len(front)
        PROVE  front[i] = rl[i]
    <3>1. /\ 1 + i - 1 = i /\ i \in 1 .. Len(after) /\ i \in 1 .. Len(less)
          /\ Len(after) - i + 1 \in 1 .. Len(after) /\ Len(less) - i + 1 \in 1 .. Len(less)
          /\ (c + 1) + (Len(after) - i + 1) - 1 = (c + 2) + (Len(less) - i + 1) - 1
      BY <1>1, <1>7, <1>9, <1>10, SMT
    <3>2. front[i] = s[(c + 1) + (Len(after) - i + 1) - 1]
      BY <1>3, <1>8, <1>10, <3>1
    <3>3. rl[i] = s[(c + 2) + (Len(less) - i + 1) - 1]
      BY <1>4, <1>9, <3>1
    <3>4. QED
      BY <3>1, <3>2, <3>3
  <2>2. QED
    BY <1>9, <1>10, <2>1, SeqEqual
<1>12. Front(ra) = rl
  BY <1>11 DEF Front
<1>13. Last(ra) = s[c + 1]
  <2>1. Last(ra) = ra[Len(after)]
    BY <1>8 DEF Last
  <2>2. Len(after) \in 1 .. Len(after) /\ Len(after) - Len(after) + 1 = 1
        /\ 1 \in 1 .. Len(after) /\ (c + 1) + 1 - 1 = c + 1
    BY <1>1, <1>7, SMT
  <2>3. QED
    BY <1>3, <1>8, <2>1, <2>2
<1>14. ra # <<>>
  BY <1>1, <1>7, <1>8, SMT
<1>15. Append(SubSeq(s, 1, c - 1), s[c]) = SubSeq(s, 1, c)
  <2>1. c \in 1 .. Len(s)
    BY <1>1, SMT
  <2>2. QED
    BY <2>1, AppendPart
<1>16. QED
  BY <1>12, <1>13, <1>14, <1>15 DEF after, less, ra, rl

\* A visit cuts off what comes after the cursor, and goes behind it.
LEMMA StepVisit ==
  ASSUME NEW S, NEW s \in Seq(S), NEW c \in 0 .. Len(s), NEW u \in S
  PROVE  LET v == Append(SubSeq(s, 1, c), u)
         IN  /\ v \in Seq(S) /\ Len(v) = c + 1 /\ v[c + 1] = u
             /\ SubSeq(v, 1, c) = SubSeq(s, 1, c)
             /\ Reverse(SubSeq(v, c + 2, Len(v))) = <<>>
<1> DEFINE v == Append(SubSeq(s, 1, c), u)
           kept == SubSeq(s, 1, c)
           again == SubSeq(v, 1, c)
           none == SubSeq(v, c + 2, Len(v))
<1>1. Len(s) \in Nat /\ c \in Nat /\ 1 \in 1 .. Len(s) + 1
  BY SMT
<1>2. /\ kept \in Seq(S) /\ Len(kept) = IF 1 <= c THEN c - 1 + 1 ELSE 0
      /\ \A i \in 1 .. Len(kept) : kept[i] = s[1 + i - 1]
  BY <1>1, PartElements
<1>3. v = Append(kept, u)
  OBVIOUS
<1> HIDE DEF kept, v
<1>4. /\ v \in Seq(S) /\ Len(v) = Len(kept) + 1 /\ v[Len(kept) + 1] = u
      /\ \A i \in 1 .. Len(kept) : v[i] = kept[i]
  BY <1>2, <1>3, AppendProperties
<1>5. Len(kept) = c /\ Len(v) = c + 1
  BY <1>1, <1>2, <1>4, SMT
<1>6. 1 \in 1 .. Len(v) + 1 /\ c \in 0 .. Len(v) /\ c + 2 \in 1 .. Len(v) + 1 /\ Len(v) \in 0 .. Len(v)
  BY <1>1, <1>5, SMT
<1>7. /\ again \in Seq(S) /\ Len(again) = IF 1 <= c THEN c - 1 + 1 ELSE 0
      /\ \A i \in 1 .. Len(again) : again[i] = v[1 + i - 1]
  BY <1>4, <1>6, PartElements
<1>8. none \in Seq(S) /\ Len(none) = IF c + 2 <= Len(v) THEN Len(v) - (c + 2) + 1 ELSE 0
  BY <1>4, <1>6, PartElements
<1> HIDE DEF again, none
<1>9. Len(again) = Len(kept) /\ \A i \in 1 .. Len(again) : again[i] = kept[i]
  BY <1>1, <1>2, <1>4, <1>5, <1>7, SMT
<1>10. again = kept
  BY <1>2, <1>7, <1>9, SeqEqual
<1>11. Len(none) = 0
  BY <1>1, <1>5, <1>8, SMT
<1>12. Reverse(none) = <<>>
  <2>1. Reverse(none) \in Seq(S) /\ Len(Reverse(none)) = 0
    BY <1>8, <1>11, ReverseElements
  <2>2. QED
    BY <2>1, SMT
<1>13. QED
  BY <1>4, <1>5, <1>10, <1>12 DEF again, none, kept, v

(***************************************************************************)
(* The scaffold's history                                                  *)
(***************************************************************************)

EngineRec ==
  [pending : Load \cup {NoLoad}, current : Url \cup {NoUrl}, back_stack : Seq(Url),
   forward_stack : Seq(Url), muted : BOOLEAN, suspended : BOOLEAN]
TrailRec == [entries : Seq(Url), cursor : Nat, intact : BOOLEAN]

\* The entry the user is at
Here == IF trail.entries = <<>> THEN NoUrl ELSE trail.entries[trail.cursor]

\* While a history move is under way, the page that was left is on a stack already
\* and the page that comes is the entry the cursor has gone to.
MoveIsKnown ==
  /\ engine.current = NoUrl
  /\ trail.entries # <<>> => engine.pending.url = Here

Linear ==
  /\ engine.back_stack = SubSeq(trail.entries, 1, trail.cursor - 1)
  /\ engine.forward_stack = Reverse(SubSeq(trail.entries, trail.cursor + 1, Len(trail.entries)))
  /\ IF MovesHistory THEN MoveIsKnown ELSE engine.current = Here

CursorIsInside ==
  /\ trail.cursor <= Len(trail.entries)
  /\ trail.entries # <<>> => trail.cursor >= 1

HistoryInv ==
  /\ engine \in EngineRec /\ trail \in TrailRec
  /\ engine.suspended => engine.pending = NoLoad
  /\ CursorIsInside
  /\ trail.intact => Linear

\* The events of the scaffold do not matter to its history.
LEMMA HistoryInit == SimInit => HistoryInv
<1> SUFFICES ASSUME SimInit
             PROVE  HistoryInv
  OBVIOUS
<1>1. engine \in EngineRec /\ trail \in TrailRec
  BY EmptySeq DEF SimInit, EngineRec, TrailRec
<1>2. trail.entries = <<>> /\ trail.cursor = 0 /\ engine.pending = NoLoad /\ engine.current = NoUrl
      /\ engine.back_stack = <<>> /\ engine.forward_stack = <<>> /\ engine.suspended = FALSE
  BY DEF SimInit
<1>3. CursorIsInside
  BY <1>2, EmptySeq DEF CursorIsInside
<1>4. <<>> \in Seq(Url) /\ Len(<<>>) = 0
  BY EmptySeq
<1>5. SubSeq(<<>>, 1, 0 - 1) = <<>> /\ SubSeq(<<>>, 0 + 1, 0) = <<>>
  BY SubSeqEmpty, SMT
<1>6. Linear
  BY <1>2, <1>4, <1>5, ReverseOfEmpty DEF Linear, MovesHistory, Here
<1>7. QED
  BY <1>1, <1>2, <1>3, <1>6 DEF HistoryInv

\* Ending a load, or cutting it short, without touching the stacks: what was linear
\* stays so, unless a history move is cut short.
LEMMA HistoryCut ==
  ASSUME HistoryInv, trail' = CutShort, NEW p \in Load \cup {NoLoad},
         p = NoLoad \/ p.from_history = FALSE, NEW s \in BOOLEAN, s => p = NoLoad,
         engine' = [engine EXCEPT !.pending = p, !.suspended = s]
  PROVE  HistoryInv'
<1>1. /\ engine' \in EngineRec
      /\ engine'.pending = p /\ engine'.current = engine.current /\ engine'.suspended = s
      /\ engine'.back_stack = engine.back_stack /\ engine'.forward_stack = engine.forward_stack
  BY DEF HistoryInv, EngineRec
<1>2. /\ trail' \in TrailRec /\ trail'.entries = trail.entries /\ trail'.cursor = trail.cursor
      /\ trail'.intact => trail.intact /\ ~MovesHistory
  <2>1. PICK k \in BOOLEAN : k <=> (trail.intact /\ ~MovesHistory)
    BY DEF HistoryInv
  <2>2. trail' = [trail EXCEPT !.intact = k]
    BY <2>1 DEF CutShort, HistoryInv, TrailRec
  <2>3. trail' \in TrailRec /\ trail'.entries = trail.entries /\ trail'.cursor = trail.cursor
        /\ trail'.intact = k
    BY <2>2 DEF HistoryInv, TrailRec
  <2>4. QED
    BY <2>1, <2>3
<1>3. ~MovesHistory'
  BY <1>1 DEF MovesHistory
<1>4. trail'.intact => Linear'
  BY <1>1, <1>2, <1>3 DEF HistoryInv, Linear, Here
<1>5. CursorIsInside'
  BY <1>2 DEF HistoryInv, CursorIsInside
<1>6. QED
  BY <1>1, <1>2, <1>4, <1>5 DEF HistoryInv

\* The loads a call starts
LEMMA LoadStarts ==
  ASSUME NEW u \in Url, NEW fh \in BOOLEAN, NEW p, p = [url |-> u, stage |-> "started", from_history |-> fh]
  PROVE  p \in Load /\ p # NoLoad /\ p.url = u /\ p.stage = "started" /\ p.from_history = fh
BY NoLoadIsNone DEF Load

LEMMA HistoryNavigate ==
  ASSUME HistoryInv, NEW u \in Url, SimNavigate(u)
  PROVE  HistoryInv'
<1>1. PICK p : p = [url |-> u, stage |-> "started", from_history |-> FALSE]
  OBVIOUS
<1>2. p \in Load /\ p # NoLoad /\ p.from_history = FALSE
  BY <1>1, LoadStarts
<1>3. engine' = [engine EXCEPT !.suspended = FALSE, !.pending = p] /\ trail' = CutShort
  BY <1>1 DEF SimNavigate, BeginLoad
<1>4. engine' = [engine EXCEPT !.pending = p, !.suspended = FALSE]
  BY <1>3 DEF HistoryInv, EngineRec
<1>5. QED
  BY <1>2, <1>3, <1>4, HistoryCut

\* Stopping, suspending and failing take the pending load away.
LEMMA HistoryStop ==
  ASSUME HistoryInv, SimStop \/ SimSuspend \/ PumpFails
  PROVE  HistoryInv'
<1>1. PICK s \in BOOLEAN : engine' = [engine EXCEPT !.pending = NoLoad, !.suspended = s]
  <2>1. CASE SimSuspend
    BY <2>1 DEF SimSuspend
  <2>2. CASE SimStop \/ PumpFails
    <3>1. engine' = [engine EXCEPT !.pending = NoLoad]
      BY <2>2 DEF SimStop, PumpFails
    <3>2. engine.suspended \in BOOLEAN
          /\ [engine EXCEPT !.pending = NoLoad]
             = [engine EXCEPT !.pending = NoLoad, !.suspended = engine.suspended]
      BY DEF HistoryInv, EngineRec
    <3>3. QED
      BY <3>1, <3>2
  <2>3. QED
    BY <2>1, <2>2
<1>2. trail' = CutShort
  BY DEF SimStop, SimSuspend, PumpFails
<1>3. QED
  BY <1>1, <1>2, HistoryCut

LEMMA HistoryMuted ==
  ASSUME HistoryInv, NEW m \in BOOLEAN, SimSetMuted(m)
  PROVE  HistoryInv'
<1>1. engine' = [engine EXCEPT !.muted = m] /\ trail' = trail
  BY DEF SimSetMuted
<1>2. /\ engine' \in EngineRec
      /\ engine'.pending = engine.pending /\ engine'.current = engine.current
      /\ engine'.suspended = engine.suspended
      /\ engine'.back_stack = engine.back_stack /\ engine'.forward_stack = engine.forward_stack
  BY <1>1 DEF HistoryInv, EngineRec
<1>3. (MovesHistory' <=> MovesHistory) /\ CursorIsInside'
  BY <1>1, <1>2 DEF MovesHistory, CursorIsInside, HistoryInv
<1>4. trail'.intact => Linear'
  BY <1>1, <1>2, <1>3 DEF Linear, MoveIsKnown, Here, HistoryInv
<1>5. QED
  BY <1>1, <1>2, <1>3, <1>4 DEF HistoryInv

LEMMA HistoryCommits ==
  ASSUME HistoryInv, PumpCommits
  PROVE  HistoryInv'
<1>1. engine.pending \in Load /\ engine.pending # NoLoad /\ trail' = trail
      /\ engine' = [engine EXCEPT !.pending.stage = "committed"]
  BY DEF PumpCommits, HistoryInv, EngineRec
<1>2. PICK p : p = [engine.pending EXCEPT !.stage = "committed"]
  OBVIOUS
<1>3. p \in Load /\ p # NoLoad /\ p.url = engine.pending.url
      /\ p.from_history = engine.pending.from_history
  BY <1>1, <1>2, NoLoadIsNone DEF Load
<1>4. engine' = [engine EXCEPT !.pending = p]
  BY <1>1, <1>2 DEF HistoryInv, EngineRec
<1>5. /\ engine' \in EngineRec
      /\ engine'.pending = p /\ engine'.current = engine.current
      /\ engine'.suspended = engine.suspended
      /\ engine'.back_stack = engine.back_stack /\ engine'.forward_stack = engine.forward_stack
  BY <1>3, <1>4 DEF HistoryInv, EngineRec
<1>6. (MovesHistory' <=> MovesHistory) /\ CursorIsInside'
  BY <1>1, <1>3, <1>5 DEF MovesHistory, CursorIsInside, HistoryInv
<1>7. trail'.intact => Linear'
  BY <1>1, <1>3, <1>5, <1>6 DEF Linear, MoveIsKnown, Here, HistoryInv
<1>8. QED
  BY <1>1, <1>5, <1>6, <1>7 DEF HistoryInv

\* A history move that starts puts the page that is left on the other stack.
LEMMA HistoryMoves ==
  ASSUME HistoryInv, NEW back \in Seq(Url), NEW forward \in Seq(Url), NEW u \in Url,
         NEW c \in Nat, c <= Len(trail.entries), trail.entries # <<>> => c >= 1,
         NEW k \in BOOLEAN, k => trail.intact /\ ~MovesHistory,
         k => /\ back = SubSeq(trail.entries, 1, c - 1)
              /\ forward = Reverse(SubSeq(trail.entries, c + 1, Len(trail.entries)))
              /\ trail.entries # <<>> => u = trail.entries[c],
         NEW current \in Url \cup {NoUrl}, k => current = NoUrl,
         NEW p, p = [url |-> u, stage |-> "started", from_history |-> TRUE],
         engine' = [pending |-> p, current |-> current, back_stack |-> back,
                    forward_stack |-> forward, muted |-> engine.muted, suspended |-> FALSE],
         trail' = [entries |-> trail.entries, cursor |-> c, intact |-> k]
  PROVE  HistoryInv'
<1>1. p \in Load /\ p # NoLoad /\ p.url = u /\ p.from_history = TRUE
  BY LoadStarts
<1>2. /\ engine' \in EngineRec /\ trail' \in TrailRec
      /\ engine'.pending = p /\ engine'.current = current /\ engine'.suspended = FALSE
      /\ engine'.back_stack = back /\ engine'.forward_stack = forward
      /\ trail'.entries = trail.entries /\ trail'.cursor = c /\ trail'.intact = k
  BY <1>1 DEF HistoryInv, EngineRec, TrailRec
<1>3. MovesHistory' /\ CursorIsInside'
  BY <1>1, <1>2 DEF MovesHistory, CursorIsInside
<1>4. trail'.intact => Linear'
  BY <1>1, <1>2, <1>3 DEF Linear, MoveIsKnown, Here
<1>5. QED
  BY <1>2, <1>3, <1>4 DEF HistoryInv

\* What the call does to the trail, as a record
LEMMA CutTrail ==
  ASSUME HistoryInv
  PROVE  /\ (trail.intact /\ ~MovesHistory) \in BOOLEAN
         /\ CutShort = [entries |-> trail.entries, cursor |-> trail.cursor,
                        intact |-> trail.intact /\ ~MovesHistory]
BY DEF HistoryInv, TrailRec, CutShort

LEMMA HistoryBack ==
  ASSUME HistoryInv, SimGoBack
  PROVE  HistoryInv'
<1>1. CASE engine.back_stack = <<>>
  BY <1>1 DEF SimGoBack, simVars, HistoryInv, CursorIsInside, Linear, MoveIsKnown, Here, MovesHistory
<1>2. CASE engine.back_stack # <<>>
  <2> DEFINE E == trail.entries
             c == trail.cursor
             d == IF c > 1 THEN c - 1 ELSE c
             back == Front(engine.back_stack)
             forward == Push(engine.forward_stack, engine.current)
             u == Last(engine.back_stack)
             k == trail.intact /\ ~MovesHistory
  <2>1. /\ engine.back_stack \in Seq(Url) /\ engine.forward_stack \in Seq(Url)
        /\ engine.current \in Url \cup {NoUrl} /\ E \in Seq(Url) /\ c \in Nat
        /\ c <= Len(E) /\ (E # <<>> => c >= 1)
    BY DEF HistoryInv, EngineRec, TrailRec, CursorIsInside
  <2>2. Len(engine.back_stack) \in Nat \ {0}
    BY <1>2, <2>1, EmptySeq
  <2>3. back \in Seq(Url)
    <3>1. 1 \in 1 .. Len(engine.back_stack) + 1
          /\ Len(engine.back_stack) - 1 \in 0 .. Len(engine.back_stack)
      BY <2>2, SMT
    <3>2. QED
      BY <2>1, <3>1, PartElements DEF Front
  <2>4. u \in Url
    BY <2>1, <2>2, SMT DEF Last
  <2>5. forward \in Seq(Url)
    BY <2>1, AppendProperties DEF Push
  <2>6. d \in Nat /\ d <= Len(E) /\ (E # <<>> => d >= 1)
    BY <2>1, SMT
  <2>7. PICK m \in BOOLEAN : m = k
    BY CutTrail
  <2>8. PICK p : p = [url |-> u, stage |-> "started", from_history |-> TRUE]
    OBVIOUS
  <2>9. /\ engine' = [pending |-> p, current |-> NoUrl, back_stack |-> back,
                      forward_stack |-> forward, muted |-> engine.muted, suspended |-> FALSE]
        /\ trail' = [entries |-> E, cursor |-> d, intact |-> m]
    <3>1. /\ engine' = [[engine EXCEPT !.back_stack = Front(@), !.current = NoUrl,
                                       !.forward_stack = Push(@, engine.current)]
                        EXCEPT !.suspended = FALSE, !.pending = p]
          /\ trail' = [CutShort EXCEPT !.cursor = IF @ > 1 THEN @ - 1 ELSE @]
      BY <1>2, <2>8 DEF SimGoBack, BeginLoad
    <3>2. engine' = [pending |-> p, current |-> NoUrl, back_stack |-> back,
                     forward_stack |-> forward, muted |-> engine.muted, suspended |-> FALSE]
      BY <3>1 DEF HistoryInv, EngineRec
    <3>3. CutShort = [entries |-> E, cursor |-> c, intact |-> m]
      BY <2>7, CutTrail
    <3>4. trail' = [entries |-> E, cursor |-> d, intact |-> m]
      BY <3>1, <3>3
    <3>5. QED
      BY <3>2, <3>4
  <2>10. ASSUME m
         PROVE  /\ back = SubSeq(E, 1, d - 1)
                /\ forward = Reverse(SubSeq(E, d + 1, Len(E)))
                /\ u = E[d]
    <3>1. trail.intact /\ ~MovesHistory
      BY <2>7, <2>10
    <3>2. /\ engine.back_stack = SubSeq(E, 1, c - 1)
          /\ engine.forward_stack = Reverse(SubSeq(E, c + 1, Len(E)))
          /\ engine.current = IF E = <<>> THEN NoUrl ELSE E[c]
      BY <3>1 DEF HistoryInv, Linear, Here
    <3>3. c \in 2 .. Len(E)
      <4>1. SUFFICES ASSUME c < 2
                     PROVE  FALSE
        BY <2>1, SMT
      <4>2. c - 1 \in Int /\ c - 1 < 1
        BY <2>1, <4>1, SMT
      <4>3. SubSeq(E, 1, c - 1) = <<>>
        BY <4>2, SubSeqEmpty
      <4>4. QED
        BY <1>2, <3>2, <4>3
    <3>4. E # <<>> /\ E[c] \in Url /\ d = c - 1 /\ d - 1 = c - 2 /\ d + 1 = c
      BY <2>1, <3>3, SMT
    <3>5. /\ Front(SubSeq(E, 1, c - 1)) = SubSeq(E, 1, c - 2)
          /\ Last(SubSeq(E, 1, c - 1)) = E[c - 1]
          /\ Append(Reverse(SubSeq(E, c + 1, Len(E))), E[c]) = Reverse(SubSeq(E, c, Len(E)))
      BY <2>1, <3>3, StepBack
    <3>6. engine.current = E[c] /\ engine.current # NoUrl
      BY <3>2, <3>4, NoUrlIsNone
    <3>7. forward = Append(engine.forward_stack, E[c])
      BY <3>6 DEF Push
    <3>8. QED
      BY <3>2, <3>4, <3>5, <3>7
  <2> HIDE DEF E, c, d, back, forward, u, k
  <2>11. QED
    <3>1. m => trail.intact /\ ~MovesHistory
      BY <2>7 DEF k
    <3>2. E = trail.entries
      BY DEF E
    <3>3. QED
      BY <2>3, <2>4, <2>5, <2>6, <2>8, <2>9, <2>10, <3>1, <3>2, HistoryMoves
<1>3. QED
  BY <1>1, <1>2

LEMMA HistoryForward ==
  ASSUME HistoryInv, SimGoForward
  PROVE  HistoryInv'
<1>1. CASE engine.forward_stack = <<>>
  BY <1>1 DEF SimGoForward, simVars, HistoryInv, CursorIsInside, Linear, MoveIsKnown, Here, MovesHistory
<1>2. CASE engine.forward_stack # <<>>
  <2> DEFINE E == trail.entries
             c == trail.cursor
             d == IF c < Len(E) THEN c + 1 ELSE c
             forward == Front(engine.forward_stack)
             back == Push(engine.back_stack, engine.current)
             u == Last(engine.forward_stack)
             k == trail.intact /\ ~MovesHistory
  <2>1. /\ engine.back_stack \in Seq(Url) /\ engine.forward_stack \in Seq(Url)
        /\ engine.current \in Url \cup {NoUrl} /\ E \in Seq(Url) /\ c \in Nat /\ Len(E) \in Nat
        /\ c <= Len(E) /\ (E # <<>> => c >= 1)
    BY LenProperties DEF HistoryInv, EngineRec, TrailRec, CursorIsInside
  <2>2. Len(engine.forward_stack) \in Nat \ {0}
    BY <1>2, <2>1, EmptySeq
  <2>3. forward \in Seq(Url)
    <3>1. 1 \in 1 .. Len(engine.forward_stack) + 1
          /\ Len(engine.forward_stack) - 1 \in 0 .. Len(engine.forward_stack)
      BY <2>2, SMT
    <3>2. QED
      BY <2>1, <3>1, PartElements DEF Front
  <2>4. u \in Url
    BY <2>1, <2>2, SMT DEF Last
  <2>5. back \in Seq(Url)
    BY <2>1, AppendProperties DEF Push
  <2>6. d \in Nat /\ d <= Len(E) /\ (E # <<>> => d >= 1)
    BY <2>1, SMT
  <2>7. PICK m \in BOOLEAN : m = k
    BY CutTrail
  <2>8. PICK p : p = [url |-> u, stage |-> "started", from_history |-> TRUE]
    OBVIOUS
  <2>9. /\ engine' = [pending |-> p, current |-> NoUrl, back_stack |-> back,
                      forward_stack |-> forward, muted |-> engine.muted, suspended |-> FALSE]
        /\ trail' = [entries |-> E, cursor |-> d, intact |-> m]
    <3>1. /\ engine' = [[engine EXCEPT !.forward_stack = Front(@), !.current = NoUrl,
                                       !.back_stack = Push(@, engine.current)]
                        EXCEPT !.suspended = FALSE, !.pending = p]
          /\ trail' = [CutShort EXCEPT !.cursor = IF @ < Len(trail.entries) THEN @ + 1 ELSE @]
      BY <1>2, <2>8 DEF SimGoForward, BeginLoad
    <3>2. engine' = [pending |-> p, current |-> NoUrl, back_stack |-> back,
                     forward_stack |-> forward, muted |-> engine.muted, suspended |-> FALSE]
      BY <3>1 DEF HistoryInv, EngineRec
    <3>3. CutShort = [entries |-> E, cursor |-> c, intact |-> m]
      BY <2>7, CutTrail
    <3>4. trail' = [entries |-> E, cursor |-> d, intact |-> m]
      BY <3>1, <3>3
    <3>5. QED
      BY <3>2, <3>4
  <2>10. ASSUME m
         PROVE  /\ back = SubSeq(E, 1, d - 1)
                /\ forward = Reverse(SubSeq(E, d + 1, Len(E)))
                /\ u = E[d]
    <3>1. trail.intact /\ ~MovesHistory
      BY <2>7, <2>10
    <3>2. /\ engine.back_stack = SubSeq(E, 1, c - 1)
          /\ engine.forward_stack = Reverse(SubSeq(E, c + 1, Len(E)))
          /\ engine.current = IF E = <<>> THEN NoUrl ELSE E[c]
      BY <3>1 DEF HistoryInv, Linear, Here
    <3>3. c \in 1 .. Len(E) - 1
      <4>1. c < Len(E)
        <5>1. SUFFICES ASSUME ~(c < Len(E))
                       PROVE  FALSE
          OBVIOUS
        <5>2. c + 1 \in Int /\ Len(E) \in Int /\ Len(E) < c + 1
          BY <2>1, <5>1, SMT
        <5>3. SubSeq(E, c + 1, Len(E)) = <<>>
          BY <5>2, SubSeqEmpty
        <5>4. QED
          BY <1>2, <3>2, <5>3, ReverseOfEmpty
      <4>2. E # <<>>
        BY <2>1, <4>1, EmptySeq, SMT
      <4>3. QED
        BY <2>1, <4>1, <4>2, SMT
    <3>4. E # <<>> /\ E[c] \in Url /\ d = c + 1 /\ d - 1 = c /\ d + 1 = c + 2
      BY <2>1, <3>3, SMT
    <3>5. /\ Front(Reverse(SubSeq(E, c + 1, Len(E)))) = Reverse(SubSeq(E, c + 2, Len(E)))
          /\ Last(Reverse(SubSeq(E, c + 1, Len(E)))) = E[c + 1]
          /\ Append(SubSeq(E, 1, c - 1), E[c]) = SubSeq(E, 1, c)
      BY <2>1, <3>3, StepForward
    <3>6. engine.current = E[c] /\ engine.current # NoUrl
      BY <3>2, <3>4, NoUrlIsNone
    <3>7. back = Append(engine.back_stack, E[c])
      BY <3>6 DEF Push
    <3>8. QED
      BY <3>2, <3>4, <3>5, <3>7
  <2> HIDE DEF E, c, d, back, forward, u, k
  <2>11. QED
    <3>1. m => trail.intact /\ ~MovesHistory
      BY <2>7 DEF k
    <3>2. E = trail.entries
      BY DEF E
    <3>3. QED
      BY <2>3, <2>4, <2>5, <2>6, <2>8, <2>9, <2>10, <3>1, <3>2, HistoryMoves
<1>3. QED
  BY <1>1, <1>2

LEMMA HistoryReload ==
  ASSUME HistoryInv, SimReload
  PROVE  HistoryInv'
<1>1. CASE engine.current = NoUrl
  BY <1>1 DEF SimReload, simVars, HistoryInv, CursorIsInside, Linear, MoveIsKnown, Here, MovesHistory
<1>2. CASE engine.current # NoUrl
  <2>1. /\ engine.back_stack \in Seq(Url) /\ engine.forward_stack \in Seq(Url)
        /\ engine.current \in Url /\ trail.cursor \in Nat
        /\ trail.cursor <= Len(trail.entries) /\ (trail.entries # <<>> => trail.cursor >= 1)
    BY <1>2 DEF HistoryInv, EngineRec, TrailRec, CursorIsInside
  <2>2. PICK m \in BOOLEAN : m = (trail.intact /\ ~MovesHistory)
    BY CutTrail
  <2>3. PICK p : p = [url |-> engine.current, stage |-> "started", from_history |-> TRUE]
    OBVIOUS
  <2>4. engine' = [pending |-> p, current |-> NoUrl, back_stack |-> engine.back_stack,
                   forward_stack |-> engine.forward_stack, muted |-> engine.muted, suspended |-> FALSE]
    <3>1. engine' = [[engine EXCEPT !.current = NoUrl] EXCEPT !.suspended = FALSE, !.pending = p]
      BY <1>2, <2>3 DEF SimReload, BeginLoad
    <3>2. QED
      BY <3>1 DEF HistoryInv, EngineRec
  <2>5. trail' = [entries |-> trail.entries, cursor |-> trail.cursor, intact |-> m]
    BY <1>2, <2>2, CutTrail DEF SimReload
  <2>6. m => /\ engine.back_stack = SubSeq(trail.entries, 1, trail.cursor - 1)
             /\ engine.forward_stack
                  = Reverse(SubSeq(trail.entries, trail.cursor + 1, Len(trail.entries)))
             /\ trail.entries # <<>> => engine.current = trail.entries[trail.cursor]
    BY <2>2 DEF HistoryInv, Linear, Here
  <2>7. m => trail.intact /\ ~MovesHistory
    BY <2>2
  <2>8. QED
    BY <2>1, <2>3, <2>4, <2>5, <2>6, <2>7, HistoryMoves
<1>3. QED
  BY <1>1, <1>2

LEMMA HistoryResume ==
  ASSUME HistoryInv, NEW u \in Url, SimResume(u)
  PROVE  HistoryInv'
<1>1. /\ engine.back_stack \in Seq(Url) /\ engine.forward_stack \in Seq(Url)
      /\ engine.current \in Url \cup {NoUrl} /\ trail.cursor \in Nat
      /\ trail.cursor <= Len(trail.entries) /\ (trail.entries # <<>> => trail.cursor >= 1)
  BY DEF HistoryInv, EngineRec, TrailRec, CursorIsInside
<1>2. PICK i \in BOOLEAN : i = (trail.intact /\ ~MovesHistory)
  BY CutTrail
<1>3. PICK m \in BOOLEAN : m = (i /\ engine.current = NoUrl /\ trail.entries = <<>>)
  OBVIOUS
<1>4. PICK p : p = [url |-> u, stage |-> "started", from_history |-> TRUE]
  OBVIOUS
<1>5. engine' = [pending |-> p, current |-> engine.current, back_stack |-> engine.back_stack,
                 forward_stack |-> engine.forward_stack, muted |-> engine.muted, suspended |-> FALSE]
  <2>1. engine' = [engine EXCEPT !.suspended = FALSE, !.pending = p]
    BY <1>4 DEF SimResume, BeginLoad
  <2>2. QED
    BY <2>1 DEF HistoryInv, EngineRec
<1>6. trail' = [entries |-> trail.entries, cursor |-> trail.cursor, intact |-> m]
  <2>1. CutShort = [entries |-> trail.entries, cursor |-> trail.cursor, intact |-> i]
    BY <1>2, CutTrail
  <2>2. trail' = [CutShort EXCEPT !.intact = @ /\ engine.current = NoUrl /\ trail.entries = <<>>]
    BY DEF SimResume
  <2>3. trail' = [entries |-> trail.entries, cursor |-> trail.cursor,
                  intact |-> i /\ engine.current = NoUrl /\ trail.entries = <<>>]
    BY <2>1, <2>2
  <2>4. QED
    BY <1>3, <2>3
<1>7. m => trail.intact /\ ~MovesHistory
  BY <1>2, <1>3
<1>8. m => engine.current = NoUrl /\ trail.entries = <<>>
  BY <1>3
<1>9. m => /\ engine.back_stack = SubSeq(trail.entries, 1, trail.cursor - 1)
           /\ engine.forward_stack
                = Reverse(SubSeq(trail.entries, trail.cursor + 1, Len(trail.entries)))
  BY <1>7 DEF HistoryInv, Linear
<1>10. QED
  BY <1>1, <1>4, <1>5, <1>6, <1>7, <1>8, <1>9, HistoryMoves

\* A load that ends visits its page: at the cursor it already has, when it was a
\* history move, or behind it.
LEMMA HistoryFinishes ==
  ASSUME HistoryInv, PumpFinishes
  PROVE  HistoryInv'
<1> DEFINE E == trail.entries
           c == trail.cursor
           u == engine.pending.url
           fh == engine.pending.from_history
           back == Push(engine.back_stack, engine.current)
           forward == IF fh THEN engine.forward_stack ELSE <<>>
           visited == Append(SubSeq(E, 1, c), u)
<1>1. /\ engine.pending \in Load /\ engine.pending # NoLoad /\ u \in Url /\ fh \in BOOLEAN
      /\ engine.back_stack \in Seq(Url) /\ engine.forward_stack \in Seq(Url)
      /\ engine.current \in Url \cup {NoUrl} /\ E \in Seq(Url) /\ c \in Nat /\ Len(E) \in Nat
      /\ c <= Len(E) /\ (E # <<>> => c >= 1)
  BY LenProperties DEF PumpFinishes, HistoryInv, EngineRec, TrailRec, CursorIsInside, Load
<1>2. back \in Seq(Url) /\ forward \in Seq(Url)
  BY <1>1, AppendProperties, EmptySeq DEF Push
<1>3. engine' = [pending |-> NoLoad, current |-> u, back_stack |-> back,
                 forward_stack |-> forward, muted |-> engine.muted, suspended |-> engine.suspended]
  <2>1. engine' = [engine EXCEPT !.pending = NoLoad, !.current = u,
                     !.back_stack = Push(@, engine.current),
                     !.forward_stack = IF engine.pending.from_history THEN @ ELSE <<>>]
    BY DEF PumpFinishes
  <2>2. QED
    BY <2>1 DEF HistoryInv, EngineRec
<1>4. trail' = IF fh /\ E # <<>> THEN trail ELSE [trail EXCEPT !.entries = visited, !.cursor = @ + 1]
  BY DEF PumpFinishes, Visit
<1>5. MovesHistory <=> fh
  BY <1>1 DEF MovesHistory
<1> HIDE DEF back, forward, visited, u, fh
<1>6. /\ engine' \in EngineRec /\ engine'.pending = NoLoad /\ engine'.current = u
      /\ engine'.back_stack = back /\ engine'.forward_stack = forward
  BY <1>1, <1>2, <1>3 DEF HistoryInv, EngineRec
<1>7. ~MovesHistory'
  BY <1>6 DEF MovesHistory
<1>8. ASSUME trail.intact
      PROVE  /\ engine.back_stack = SubSeq(E, 1, c - 1)
             /\ engine.forward_stack = Reverse(SubSeq(E, c + 1, Len(E)))
             /\ fh => engine.current = NoUrl /\ (E # <<>> => u = E[c])
             /\ ~fh => engine.current = IF E = <<>> THEN NoUrl ELSE E[c]
  BY <1>5, <1>8 DEF HistoryInv, Linear, MoveIsKnown, Here, u
<1>9. CASE fh /\ E # <<>>
  <2>1. trail' = trail
    BY <1>4, <1>9
  <2>2. forward = engine.forward_stack
    BY <1>9 DEF forward
  <2>3. trail.intact => back = engine.back_stack
    BY <1>8, <1>9 DEF back, Push
  <2>4. trail'.intact => Linear'
    BY <1>6, <1>7, <1>8, <1>9, <2>1, <2>2, <2>3 DEF Linear, Here
  <2>5. CursorIsInside'
    BY <2>1 DEF HistoryInv, CursorIsInside
  <2>6. QED
    BY <1>6, <2>1, <2>4, <2>5 DEF HistoryInv
<1>10. CASE ~(fh /\ E # <<>>)
  <2>1. trail' = [trail EXCEPT !.entries = visited, !.cursor = @ + 1]
    BY <1>4, <1>10
  <2>2. c \in 0 .. Len(E)
    BY <1>1, SMT
  <2>3. /\ visited \in Seq(Url) /\ Len(visited) = c + 1 /\ visited[c + 1] = u
        /\ SubSeq(visited, 1, c) = SubSeq(E, 1, c)
        /\ Reverse(SubSeq(visited, c + 2, Len(visited))) = <<>>
    <3>1. E \in Seq(Url) /\ u \in Url
      BY <1>1
    <3> HIDE DEF E, c
    <3>2. QED
      BY <2>2, <3>1, StepVisit DEF visited
  <2>4. /\ trail' \in TrailRec /\ trail'.entries = visited /\ trail'.cursor = c + 1
        /\ trail'.intact = trail.intact
    <3>1. trail' = [entries |-> visited, cursor |-> c + 1, intact |-> trail.intact]
      BY <2>1 DEF HistoryInv, TrailRec
    <3>2. c + 1 \in Nat /\ trail.intact \in BOOLEAN
      BY <1>1 DEF HistoryInv, TrailRec
    <3>3. QED
      BY <2>3, <3>1, <3>2 DEF TrailRec
  <2>5. visited # <<>>
    BY <1>1, <2>3, EmptySeq, SMT
  <2>6. CursorIsInside'
    <3>1. c + 1 <= c + 1 /\ c + 1 >= 1
      BY <1>1, SMT
    <3>2. QED
      BY <2>3, <2>4, <3>1 DEF CursorIsInside
  <2>7. ASSUME trail.intact
        PROVE  Linear'
    <3>1. /\ (c + 1) - 1 = c /\ (c + 1) + 1 = c + 2 /\ c - 1 \in Int /\ c + 1 \in Int /\ Len(E) \in Int
      BY <1>1, SMT
    <3>2. back = SubSeq(E, 1, c)
      <4>1. CASE E = <<>>
        <5>1. c = 0 /\ engine.current = NoUrl
          BY <1>1, <1>8, <2>7, <4>1, EmptySeq, SMT
        <5>2. SubSeq(E, 1, c - 1) = <<>> /\ SubSeq(E, 1, c) = <<>>
          BY <5>1, SubSeqEmpty, SMT
        <5>3. QED
          BY <1>8, <2>7, <5>1, <5>2 DEF back, Push
      <4>2. CASE E # <<>>
        <5>1. ~fh /\ engine.current = E[c] /\ c \in 1 .. Len(E)
          BY <1>1, <1>8, <1>10, <2>7, <4>2, SMT
        <5>2. E[c] \in Url /\ E[c] # NoUrl
          BY <1>1, <5>1, NoUrlIsNone
        <5>3. Append(SubSeq(E, 1, c - 1), E[c]) = SubSeq(E, 1, c)
          BY <1>1, <5>1, AppendPart
        <5>4. QED
          BY <1>8, <2>7, <5>1, <5>2, <5>3 DEF back, Push
      <4>3. QED
        BY <4>1, <4>2
    <3>3. forward = <<>>
      <4>1. CASE ~fh
        BY <4>1 DEF forward
      <4>2. CASE fh
        <5>1. E = <<>> /\ c = 0 /\ Len(E) = 0
          BY <1>1, <1>10, <4>2, EmptySeq, SMT
        <5>2. SubSeq(E, c + 1, Len(E)) = <<>>
          BY <5>1, SubSeqEmpty, SMT
        <5>3. QED
          BY <1>8, <2>7, <4>2, <5>2, ReverseOfEmpty DEF forward
      <4>3. QED
        BY <4>1, <4>2
    <3>4. QED
      BY <1>6, <1>7, <2>3, <2>4, <2>5, <3>1, <3>2, <3>3 DEF Linear, Here
  <2>8. QED
    BY <1>6, <2>4, <2>6, <2>7 DEF HistoryInv
<1>11. QED
  BY <1>9, <1>10

\* The embedded engine's steps leave the scaffold alone.
LEMMA HistoryStep ==
  ASSUME HistoryInv, [Next]_vars
  PROVE  HistoryInv'
<1>1. CASE UNCHANGED simVars
  BY <1>1 DEF simVars, HistoryInv, CursorIsInside, Linear, MoveIsKnown, Here, MovesHistory
<1>2. CASE Navigate
  BY <1>2, HistoryNavigate DEF Navigate
<1>3. CASE GoBack
  BY <1>3, HistoryBack DEF GoBack
<1>4. CASE GoForward
  BY <1>4, HistoryForward DEF GoForward
<1>5. CASE Reload
  BY <1>5, HistoryReload DEF Reload
<1>6. CASE Stop
  BY <1>6, HistoryStop DEF Stop
<1>7. CASE SetMuted
  BY <1>7, HistoryMuted DEF SetMuted
<1>8. CASE Suspend
  BY <1>8, HistoryStop DEF Suspend
<1>9. CASE Resume
  BY <1>9, HistoryResume DEF Resume
<1>10. CASE SimPump
  BY <1>10, HistoryStop, HistoryCommits, HistoryFinishes DEF SimPump, Pump
<1>11. CASE ApplyBlocking \/ Frame \/ Drop \/ Join \/ ThreadStep
  <2>1. UNCHANGED simVars
    BY <1>11 DEF ApplyBlocking, Frame, Drop, Join, ThreadStep
  <2>2. QED
    BY <1>1, <2>1
<1>12. CASE UNCHANGED vars
  BY <1>1, <1>12 DEF vars
<1>13. QED
  BY <1>2, <1>3, <1>4, <1>5, <1>6, <1>7, <1>8, <1>9, <1>10, <1>11, <1>12 DEF Next

\* Back stack, current page and forward stack of the scaffold are one linear history,
\* for any pages and any number of calls, whatever loads fail, are stopped or
\* superseded, until a history move is cut short or a view with a page is resumed.
THEOREM HistoryHolds == Spec => []HistoryIsLinear
<1>1. Init => HistoryInv
  BY HistoryInit DEF Init
<1>2. HistoryInv /\ [Next]_vars => HistoryInv'
  BY HistoryStep
<1>3. HistoryInv => HistoryIsLinear
  BY DEF HistoryInv, HistoryIsLinear, Linear, Here
<1>4. QED
  BY <1>1, <1>2, <1>3, PTL DEF Spec

(***************************************************************************)
(* Queued events                                                           *)
(***************************************************************************)

\* Induction over the naturals, for a set instead of a predicate.
LEMMA SetInduction ==
  ASSUME NEW S, 0 \in S, \A n \in Nat : n \in S => n + 1 \in S
  PROVE  \A n \in Nat : n \in S
<1> DEFINE R == OpToRel(<, Nat)
           T == {n \in Nat : n \notin S}
<1>1. SUFFICES ASSUME T # {}
               PROVE  FALSE
  OBVIOUS
<1>2. PICK m \in T : \A k \in T : <<k, m>> \notin R
  <2>1. T \subseteq Nat
    OBVIOUS
  <2> HIDE DEF R, T
  <2>2. QED
    BY <1>1, <2>1, WFMin, NatLessThanWellFounded DEF R
<1>3. \A k \in T : ~(k < m)
  BY <1>2 DEF OpToRel
<1>4. m \in Nat /\ m # 0 /\ m \notin S
  OBVIOUS
<1>5. m - 1 \in Nat /\ m - 1 < m /\ (m - 1) + 1 = m
  BY <1>4, SMT
<1>6. m - 1 \in S
  BY <1>3, <1>5
<1>7. QED
  BY <1>4, <1>5, <1>6

EventRec == [kind : {"started", "committed", "finished", "failed", "muted", "silent", "crashed"},
             url : Url \cup {NoUrl}]

\* One more event kept, or not
Keep(kept, e, kinds) == IF e.kind \in kinds THEN Append(kept, e) ELSE kept

\* The recursion of OfKind has a solution.
LEMMA KeptSteps ==
  ASSUME NEW S, NEW q \in Seq(S), NEW kinds
  PROVE  \E f : /\ f = [n \in 0 .. Len(q) |-> IF n = 0 THEN <<>> ELSE Keep(f[n - 1], q[n], kinds)]
                /\ OfKind(q, kinds) = f[Len(q)]
<1> DEFINE IsKept(f, n) ==
             f = [k \in 0 .. n |-> IF k = 0 THEN <<>> ELSE Keep(f[k - 1], q[k], kinds)]
           Solved == {n \in Nat : \E f : IsKept(f, n)}
<1>1. 0 \in Solved
  <2> DEFINE f == [k \in 0 .. 0 |-> <<>>]
  <2>1. f = [k \in 0 .. 0 |-> IF k = 0 THEN <<>> ELSE Keep(f[k - 1], q[k], kinds)]
    BY SMT
  <2>2. IsKept(f, 0)
    BY <2>1
  <2>3. QED
    BY <2>2
<1>2. ASSUME NEW n \in Nat, n \in Solved
      PROVE  n + 1 \in Solved
  <2>1. PICK f : IsKept(f, n)
    BY <1>2
  <2> DEFINE g == [k \in 0 .. n + 1 |-> IF k <= n THEN f[k] ELSE Keep(f[n], q[n + 1], kinds)]
  <2>2. ASSUME NEW k \in 0 .. n + 1
        PROVE  g[k] = IF k = 0 THEN <<>> ELSE Keep(g[k - 1], q[k], kinds)
    <3>1. CASE k = 0
      <4>1. g[k] = f[0] /\ f[0] = <<>>
        BY <2>1, <3>1
      <4>2. QED
        BY <3>1, <4>1
    <3>2. CASE k \in 1 .. n
      <4>1. k \in 0 .. n /\ k - 1 \in 0 .. n /\ k # 0 /\ k <= n /\ k - 1 <= n /\ k - 1 \in 0 .. n + 1
        BY <3>2, SMT
      <4>2. g[k] = f[k] /\ g[k - 1] = f[k - 1]
        BY <4>1
      <4>3. f[k] = Keep(f[k - 1], q[k], kinds)
        BY <2>1, <4>1
      <4>4. QED
        BY <4>1, <4>2, <4>3
    <3>3. CASE k = n + 1
      <4>1. k - 1 = n /\ ~(k <= n) /\ k # 0 /\ n <= n /\ n \in 0 .. n + 1
        BY <3>3, SMT
      <4>2. g[k] = Keep(f[n], q[n + 1], kinds) /\ g[k - 1] = f[n]
        BY <3>3, <4>1
      <4>3. QED
        BY <3>3, <4>1, <4>2
    <3>4. QED
      BY <3>1, <3>2, <3>3, SMT
  <2>3. IsKept(g, n + 1)
    <3>1. g = [k \in 0 .. n + 1 |-> g[k]]
      OBVIOUS
    <3> HIDE DEF g
    <3>2. QED
      BY <2>2, <3>1, Zenon
  <2>4. n + 1 \in Nat
    BY SMT
  <2>5. QED
    BY <2>3, <2>4
<1>3. Len(q) \in Solved
  <2> HIDE DEF Solved
  <2>1. \A n \in Nat : n \in Solved
    BY <1>1, <1>2, SetInduction
  <2>2. QED
    BY <2>1, LenProperties
<1> DEFINE kept == CHOOSE f : IsKept(f, Len(q))
<1>4. IsKept(kept, Len(q))
  BY <1>3
<1>5. OfKind(q, kinds) = kept[Len(q)]
  BY DEF OfKind, Keep
<1>6. QED
  BY <1>4, <1>5

\* What is kept are events of the queue, of these kinds.
LEMMA KeptKinds ==
  ASSUME NEW S, NEW q \in Seq(S), NEW kinds
  PROVE  OfKind(q, kinds) \in Seq({x \in S : x.kind \in kinds})
<1> DEFINE K == {x \in S : x.kind \in kinds}
<1>1. PICK f : /\ f = [n \in 0 .. Len(q) |-> IF n = 0 THEN <<>> ELSE Keep(f[n - 1], q[n], kinds)]
               /\ OfKind(q, kinds) = f[Len(q)]
  BY KeptSteps
<1>2. Len(q) \in Nat /\ \A n \in 1 .. Len(q) : q[n] \in S
  BY SMT
<1> DEFINE Good == {n \in Nat : n <= Len(q) => f[n] \in Seq(K)}
<1>3. 0 \in Good
  <2>1. 0 \in 0 .. Len(q)
    BY <1>2, SMT
  <2>2. f[0] = <<>>
    BY <1>1, <2>1
  <2>3. QED
    BY <2>2, EmptySeq
<1>4. ASSUME NEW n \in Nat, n \in Good
      PROVE  n + 1 \in Good
  <2>1. n + 1 \in Nat
    BY SMT
  <2>2. SUFFICES ASSUME n + 1 <= Len(q)
                 PROVE  f[n + 1] \in Seq(K)
    BY <2>1
  <2>3. n + 1 \in 0 .. Len(q) /\ n + 1 # 0 /\ (n + 1) - 1 = n /\ n <= Len(q) /\ n + 1 \in 1 .. Len(q)
    BY <1>2, <2>2, SMT
  <2>4. f[n] \in Seq(K)
    BY <1>4, <2>3
  <2>5. f[n + 1] = Keep(f[n], q[n + 1], kinds)
    BY <1>1, <2>3
  <2>6. q[n + 1] \in S
    BY <1>2, <2>3
  <2>7. q[n + 1].kind \in kinds => q[n + 1] \in K
    BY <2>6
  <2> HIDE DEF K
  <2>8. QED
    BY <2>4, <2>5, <2>7, AppendProperties DEF Keep
<1>5. \A n \in Nat : n \in Good
  <2> HIDE DEF Good
  <2>1. QED
    BY <1>3, <1>4, SetInduction
<1>6. Len(q) <= Len(q)
  BY <1>2, SMT
<1>7. QED
  BY <1>1, <1>2, <1>5, <1>6

\* An event queued last is the last one kept, if it is of these kinds.
LEMMA KeptAppend ==
  ASSUME NEW S, NEW q \in Seq(S), NEW e \in S, NEW kinds
  PROVE  OfKind(Append(q, e), kinds) = Keep(OfKind(q, kinds), e, kinds)
<1> DEFINE r == Append(q, e)
<1>1. r \in Seq(S) /\ Len(r) = Len(q) + 1 /\ Len(q) \in Nat /\ r[Len(q) + 1] = e
      /\ \A n \in 1 .. Len(q) : r[n] = q[n]
  BY AppendProperties, LenProperties
<1> HIDE DEF r
<1>2. PICK f : /\ f = [n \in 0 .. Len(q) |-> IF n = 0 THEN <<>> ELSE Keep(f[n - 1], q[n], kinds)]
               /\ OfKind(q, kinds) = f[Len(q)]
  BY KeptSteps
<1>3. PICK g : /\ g = [n \in 0 .. Len(r) |-> IF n = 0 THEN <<>> ELSE Keep(g[n - 1], r[n], kinds)]
               /\ OfKind(r, kinds) = g[Len(r)]
  BY <1>1, KeptSteps
<1> DEFINE Same == {n \in Nat : n <= Len(q) => g[n] = f[n]}
<1>4. 0 \in Same
  <2>1. 0 \in 0 .. Len(q) /\ 0 \in 0 .. Len(r)
    BY <1>1, SMT
  <2>2. QED
    BY <1>2, <1>3, <2>1
<1>5. ASSUME NEW n \in Nat, n \in Same
      PROVE  n + 1 \in Same
  <2>1. n + 1 \in Nat
    BY SMT
  <2>2. SUFFICES ASSUME n + 1 <= Len(q)
                 PROVE  g[n + 1] = f[n + 1]
    BY <2>1
  <2>3. n + 1 \in 0 .. Len(q) /\ n + 1 \in 0 .. Len(r) /\ n + 1 # 0 /\ (n + 1) - 1 = n
        /\ n <= Len(q) /\ n + 1 \in 1 .. Len(q)
    BY <1>1, <2>2, SMT
  <2>4. g[n] = f[n] /\ r[n + 1] = q[n + 1]
    BY <1>1, <1>5, <2>3
  <2>5. f[n + 1] = Keep(f[n], q[n + 1], kinds)
    BY <1>2, <2>3
  <2>6. g[n + 1] = Keep(g[n], r[n + 1], kinds)
    BY <1>3, <2>3
  <2>7. QED
    BY <2>4, <2>5, <2>6
<1>6. \A n \in Nat : n \in Same
  <2> HIDE DEF Same
  <2>1. QED
    BY <1>4, <1>5, SetInduction
<1>7. Len(r) \in 0 .. Len(r) /\ Len(r) # 0 /\ Len(r) - 1 = Len(q) /\ Len(q) <= Len(q)
  BY <1>1, SMT
<1>8. g[Len(q)] = f[Len(q)]
  BY <1>1, <1>6, <1>7
<1>9. g[Len(r)] = Keep(g[Len(q)], r[Len(r)], kinds)
  BY <1>3, <1>7
<1>10. OfKind(r, kinds) = Keep(OfKind(q, kinds), e, kinds)
  BY <1>1, <1>2, <1>3, <1>8, <1>9
<1>11. QED
  BY <1>10 DEF r

\* The last report of a load in a queue
LastSaid(queue, e) ==
  /\ Len(NavigationsIn(queue)) > 0
  /\ NavigationsIn(queue)[Len(NavigationsIn(queue))] = e

NavKinds == {"started", "committed", "finished", "failed"}

\* A queue that keeps the contract
Contract(queue) == queue \in Seq(EventRec) /\ KeepsContract(queue)

\* Reports of other things do not touch the contract.
LEMMA ContractOther ==
  ASSUME NEW q, Contract(q), NEW e \in EventRec, e.kind \notin NavKinds
  PROVE  /\ Contract(Append(q, e))
         /\ NavigationsIn(Append(q, e)) = NavigationsIn(q)
<1>1. Append(q, e) \in Seq(EventRec)
  BY AppendProperties DEF Contract
<1>2. NavigationsIn(Append(q, e)) = NavigationsIn(q)
  BY KeptAppend DEF NavigationsIn, Keep, NavKinds, Contract
<1>3. QED
  BY <1>1, <1>2 DEF Contract, KeepsContract

\* A report of a load keeps the contract when it follows the report it must follow.
LEMMA ContractSays ==
  ASSUME NEW q, Contract(q), NEW u \in Url, NEW kind \in NavKinds,
         kind = "committed" => LastSaid(q, Event("started", u)),
         kind = "finished" => LastSaid(q, Event("committed", u)),
         kind = "failed" => LastSaid(q, Event("started", u))
  PROVE  /\ Contract(Append(q, Event(kind, u)))
         /\ LastSaid(Append(q, Event(kind, u)), Event(kind, u))
<1> DEFINE e == Event(kind, u)
           said == NavigationsIn(q)
           more == NavigationsIn(Append(q, e))
           Ok(s, i) ==
             /\ s[i].kind = "committed" => i > 1 /\ s[i - 1] = Event("started", s[i].url)
             /\ s[i].kind = "finished" => i > 1 /\ s[i - 1] = Event("committed", s[i].url)
             /\ s[i].kind = "failed" => i > 1 /\ s[i - 1] = Event("started", s[i].url)
<1>1. e \in EventRec /\ e.kind = kind /\ e.url = u
  BY DEF Event, EventRec, NavKinds
<1>2. q \in Seq(EventRec)
  BY DEF Contract
<1>3. more = Append(said, e)
  BY <1>1, <1>2, KeptAppend DEF NavigationsIn, Keep, NavKinds
<1>4. said \in Seq({x \in EventRec : x.kind \in NavKinds})
  BY <1>2, KeptKinds DEF NavigationsIn, NavKinds
<1>5. /\ more \in Seq({x \in EventRec : x.kind \in NavKinds})
      /\ Len(more) = Len(said) + 1 /\ Len(said) \in Nat
      /\ more[Len(said) + 1] = e /\ \A i \in 1 .. Len(said) : more[i] = said[i]
  <2>1. e \in {x \in EventRec : x.kind \in NavKinds}
    BY <1>1
  <2> HIDE DEF e, said, more
  <2>2. QED
    BY <1>3, <1>4, <2>1, AppendProperties, LenProperties
<1>6. ASSUME NEW s, s \in Seq({x \in EventRec : x.kind \in NavKinds})
      PROVE  (\A i \in DOMAIN s :
                LET After(j, k) == j > 1 /\ s[j - 1] = Event(k, s[j].url)
                IN  CASE s[i].kind = "started" -> TRUE
                      [] s[i].kind = "committed" -> After(i, "started")
                      [] s[i].kind = "finished" -> After(i, "committed")
                      [] s[i].kind = "failed" -> After(i, "started"))
             <=> \A i \in 1 .. Len(s) : Ok(s, i)
  <2>1. DOMAIN s = 1 .. Len(s)
    BY <1>6, LenProperties
  <2>2. \A i \in 1 .. Len(s) : s[i].kind \in NavKinds
    BY <1>6, SMT
  <2>3. QED
    BY <2>1, <2>2 DEF NavKinds
<1>7. \A i \in 1 .. Len(said) : Ok(said, i)
  <2>1. KeepsContract(q)
    BY DEF Contract
  <2>2. QED
    BY <1>4, <1>6, <2>1 DEF KeepsContract
<1>8. \A i \in 1 .. Len(more) : Ok(more, i)
  <2>1. SUFFICES ASSUME NEW i \in 1 .. Len(more)
                 PROVE  Ok(more, i)
    OBVIOUS
  <2>2. CASE i \in 1 .. Len(said)
    <3>1. more[i] = said[i] /\ (i > 1 => more[i - 1] = said[i - 1])
      <4>1. i > 1 => i - 1 \in 1 .. Len(said)
        BY <1>5, <2>2, SMT
      <4>2. QED
        BY <1>5, <2>2, <4>1
    <3>2. Ok(said, i)
      BY <1>7, <2>2
    <3> HIDE DEF more, said, e
    <3>3. QED
      BY <3>1, <3>2
  <2>3. CASE i = Len(said) + 1
    <3>1. more[i] = e /\ i - 1 = Len(said) /\ (Len(said) > 0 => i > 1 /\ more[i - 1] = said[Len(said)])
      <4>1. i - 1 = Len(said) /\ (Len(said) > 0 => i > 1 /\ Len(said) \in 1 .. Len(said))
        BY <1>5, <2>3, SMT
      <4>2. QED
        BY <1>5, <2>3, <4>1
    <3>2. more[i].kind = kind /\ more[i].url = u
      BY <1>1, <3>1
    <3>3. /\ kind = "committed" => i > 1 /\ more[i - 1] = Event("started", u)
          /\ kind = "finished" => i > 1 /\ more[i - 1] = Event("committed", u)
          /\ kind = "failed" => i > 1 /\ more[i - 1] = Event("started", u)
      BY <3>1 DEF LastSaid
    <3> HIDE DEF more, said, e
    <3>4. QED
      BY <3>2, <3>3
  <2>4. i \in 1 .. Len(said) \/ i = Len(said) + 1
    <3>1. Len(more) = Len(said) + 1 /\ Len(said) \in Nat
      BY <1>5
    <3> HIDE DEF more, said
    <3>2. QED
      BY <3>1, SMT
  <2>5. QED
    BY <2>2, <2>3, <2>4
<1>9. KeepsContract(Append(q, e))
  BY <1>5, <1>6, <1>8 DEF KeepsContract
<1>10. Append(q, e) \in Seq(EventRec)
  BY <1>1, <1>2, AppendProperties
<1>11. LastSaid(Append(q, e), e)
  <2>1. Len(more) > 0 /\ Len(more) = Len(said) + 1
    BY <1>5, SMT
  <2>2. more[Len(more)] = e
    BY <1>5, <2>1
  <2>3. QED
    BY <2>1, <2>2 DEF LastSaid
<1>12. QED
  BY <1>9, <1>10, <1>11 DEF Contract

(***************************************************************************)
(* The channel of the embedded engine                                      *)
(***************************************************************************)

CommandRec ==
  [op : {"navigate", "go_back", "go_forward", "reload", "apply_blocking", "set_muted",
         "suspend", "resume", "frame", "shutdown"},
   url : Url \cup {NoUrl}, muted : BOOLEAN, call : 0 .. MaxCalls]
Commands == {c \in CommandRec : c.op \in {"navigate", "resume"} => c.url \in Url}
HandleRec ==
  [suspended : BOOLEAN, status : {"open", "dropping", "dropped"}, frame : 0 .. MaxCalls]
SharedRec == [events : Seq(EventRec), muted : BOOLEAN]
WantedRec == [view : BOOLEAN, baked : Nat, applied : Nat]

\* What a command makes of a view: of whether there is one, of the artifacts it was
\* built with and of those that were applied
Obey(v, c) ==
  [view |-> IF c.op \in {"navigate", "resume"} THEN TRUE
            ELSE IF c.op = "suspend" THEN FALSE ELSE v.view,
   baked |-> IF c.op = "resume" \/ (c.op = "navigate" /\ ~v.view) THEN v.applied ELSE v.baked,
   applied |-> IF c.op = "apply_blocking" THEN v.applied + 1 ELSE v.applied]

\* The course from the view of the thread to the view the calls ask for: every
\* command queued takes it one step further.
IsCourse(f) ==
  /\ f \in [0 .. Len(commands) -> WantedRec]
  /\ f[0].view <=> webview # NoView
  /\ f[0].applied = artifacts
  /\ webview # NoView => f[0].baked = webview.baked
  /\ \A i \in 1 .. Len(commands) : f[i] = Obey(f[i - 1], commands[i])
  /\ f[Len(commands)] = wanted
  /\ \A i \in 0 .. Len(commands) : f[i].applied <= wanted.applied

EmbInv ==
  /\ handle \in HandleRec /\ shared \in SharedRec /\ commands \in Seq(Commands)
  /\ wanted \in WantedRec /\ calls \in 0 .. MaxCalls
  /\ thread \in {"starting", "running", "ended"}
  /\ webview \in View \cup {NoView}
  /\ thread # "running" => webview = NoView
  /\ thread = "ended" => commands = <<>>
  /\ thread # "ended" => \E f : IsCourse(f)
  /\ wanted.applied <= calls
  /\ handle.suspended => ~wanted.view

\* A command keeps a view a view, and never takes artifacts back.
LEMMA ObeyType ==
  ASSUME NEW v \in WantedRec, NEW c
  PROVE  /\ Obey(v, c) \in WantedRec
         /\ v.applied <= Obey(v, c).applied
<1>1. v.applied \in Nat /\ v.baked \in Nat /\ v.view \in BOOLEAN
  BY DEF WantedRec
<1>2. PICK w \in BOOLEAN : w <=> (IF c.op \in {"navigate", "resume"} THEN TRUE
                                  ELSE IF c.op = "suspend" THEN FALSE ELSE v.view)
  BY <1>1
<1>3. PICK b \in Nat : b = IF c.op = "resume" \/ (c.op = "navigate" /\ ~v.view) THEN v.applied ELSE v.baked
  BY <1>1
<1>4. PICK a \in Nat : a = IF c.op = "apply_blocking" THEN v.applied + 1 ELSE v.applied
  BY <1>1, SMT
<1>5. Obey(v, c).view \in BOOLEAN /\ Obey(v, c).baked \in Nat /\ Obey(v, c).applied = a
      /\ Obey(v, c) = [view |-> Obey(v, c).view, baked |-> Obey(v, c).baked,
                       applied |-> Obey(v, c).applied]
  BY <1>1, <1>3, <1>4 DEF Obey
<1>6. v.applied <= a
  BY <1>1, <1>4, SMT
<1>7. QED
  BY <1>5, <1>6 DEF WantedRec

LEMMA EmbStarts == EmbInit => EmbInv
<1> SUFFICES ASSUME EmbInit
             PROVE  EmbInv
  OBVIOUS
<1>1. handle \in HandleRec /\ calls \in 0 .. MaxCalls
  BY MaxCallsIsNat DEF EmbInit, HandleRec
<1>2. shared \in SharedRec /\ commands \in Seq(Commands) /\ Len(commands) = 0
  BY EmptySeq DEF EmbInit, SharedRec
<1>3. wanted \in WantedRec
  BY DEF EmbInit, WantedRec
<1>4. IsCourse([i \in 0 .. Len(commands) |-> wanted])
  <2> DEFINE f == [i \in 0 .. Len(commands) |-> wanted]
  <2>1. f \in [0 .. Len(commands) -> WantedRec] /\ \A i \in 0 .. Len(commands) : f[i] = wanted
    BY <1>3
  <2>2. 0 \in 0 .. Len(commands) /\ 1 .. Len(commands) = {}
    BY <1>2, SMT
  <2>3. wanted.view = FALSE /\ wanted.applied = 0 /\ artifacts = 0 /\ webview = NoView
    BY DEF EmbInit
  <2> HIDE DEF f
  <2>4. IsCourse(f)
    BY <1>2, <2>1, <2>2, <2>3 DEF IsCourse
  <2>5. QED
    BY <2>4 DEF f
<1>5. wanted.applied <= calls /\ ~wanted.view /\ webview = NoView /\ thread = "starting"
  BY DEF EmbInit
<1>6. QED
  BY <1>1, <1>2, <1>3, <1>4, <1>5 DEF EmbInv

\* A call that sends a command, and wants the view the command leads to
LEMMA EmbSends ==
  ASSUME EmbInv, NEW c \in Commands, Send(c), wanted' = Obey(wanted, c),
         calls' \in 0 .. MaxCalls, wanted'.applied <= calls',
         handle' \in HandleRec, handle'.suspended => ~wanted'.view,
         shared' \in SharedRec, UNCHANGED <<thread, artifacts, webview>>
  PROVE  EmbInv'
<1>1. wanted \in WantedRec /\ commands \in Seq(Commands) /\ Len(commands) \in Nat
  BY LenProperties DEF EmbInv
<1>2. wanted' \in WantedRec /\ wanted.applied <= wanted'.applied
  BY <1>1, ObeyType
<1>3. CASE thread = "ended"
  <2>1. commands' = commands /\ thread' = "ended"
    BY <1>3 DEF Send
  <2>2. QED
    BY <1>2, <1>3, <2>1 DEF EmbInv
<1>4. CASE thread # "ended"
  <2>1. commands' = Append(commands, c) /\ thread' # "ended"
    BY <1>4 DEF Send
  <2>2. /\ commands' \in Seq(Commands) /\ Len(commands') = Len(commands) + 1
        /\ commands'[Len(commands) + 1] = c
        /\ \A i \in 1 .. Len(commands) : commands'[i] = commands[i]
    BY <1>1, <2>1, AppendProperties
  <2>3. PICK f : IsCourse(f)
    BY <1>4 DEF EmbInv
  <2> PICK g : g = [i \in 0 .. Len(commands) + 1 |-> IF i <= Len(commands) THEN f[i] ELSE wanted']
    OBVIOUS
  <2>4. /\ \A i \in 0 .. Len(commands) : i \in 0 .. Len(commands) + 1 /\ i <= Len(commands)
        /\ Len(commands) + 1 \in 0 .. Len(commands) + 1 /\ ~(Len(commands) + 1 <= Len(commands))
        /\ 0 \in 0 .. Len(commands) /\ Len(commands) \in 0 .. Len(commands)
        /\ \A i \in 0 .. Len(commands) + 1 : i \in 0 .. Len(commands) \/ i = Len(commands) + 1
    BY <1>1, SMT
  <2>5. (\A i \in 0 .. Len(commands) : g[i] = f[i]) /\ g[Len(commands) + 1] = wanted'
    BY <2>4
  <2>6. \A i \in 0 .. Len(commands) : f[i] \in WantedRec /\ f[i].applied <= wanted.applied
    BY <2>3 DEF IsCourse
  <2>7. g \in [0 .. Len(commands') -> WantedRec]
    BY <1>2, <2>2, <2>4, <2>6
  <2>8. ASSUME NEW i \in 0 .. Len(commands')
        PROVE  g[i].applied <= wanted'.applied
    <3>1. wanted.applied \in Nat /\ wanted'.applied \in Nat
      BY <1>1, <1>2 DEF WantedRec
    <3>2. CASE i \in 0 .. Len(commands)
      <4>1. f[i].applied \in Nat /\ f[i].applied <= wanted.applied /\ g[i] = f[i]
        BY <2>5, <2>6, <3>2 DEF WantedRec
      <4>2. QED
        BY <1>2, <3>1, <4>1, SMT
    <3>3. CASE i = Len(commands) + 1
      BY <2>5, <3>1, <3>3, SMT
    <3>4. QED
      BY <2>2, <2>4, <3>2, <3>3
  <2>9. ASSUME NEW i \in 1 .. Len(commands')
        PROVE  g[i] = Obey(g[i - 1], commands'[i])
    <3>1. CASE i \in 1 .. Len(commands)
      <4>1. i \in 0 .. Len(commands) /\ i - 1 \in 0 .. Len(commands)
        BY <1>1, <3>1, SMT
      <4>2. f[i] = Obey(f[i - 1], commands[i])
        BY <2>3, <3>1 DEF IsCourse
      <4>3. QED
        BY <2>2, <2>5, <3>1, <4>1, <4>2
    <3>2. CASE i = Len(commands) + 1
      <4>1. i - 1 = Len(commands)
        BY <1>1, <3>2, SMT
      <4>2. g[i - 1] = wanted
        BY <2>3, <2>4, <2>5, <4>1 DEF IsCourse
      <4>3. QED
        BY <2>2, <2>5, <3>2, <4>2
    <3>3. i \in 1 .. Len(commands) \/ i = Len(commands) + 1
      BY <1>1, <2>2, SMT
    <3>4. QED
      BY <3>1, <3>2, <3>3
  <2>10. IsCourse(g)'
    <3>1. g[0] = f[0] /\ g[Len(commands')] = wanted'
      BY <2>2, <2>4, <2>5
    <3>2. QED
      BY <2>3, <2>7, <2>8, <2>9, <3>1 DEF IsCourse
  <2>11. QED
    BY <1>2, <1>4, <2>1, <2>2, <2>10 DEF EmbInv
<1>5. QED
  BY <1>3, <1>4

\* What leaves channel and artifacts alone, and keeps what a view was built with
LEMMA EmbKeeps ==
  ASSUME EmbInv, UNCHANGED <<commands, artifacts, wanted>>,
         webview' \in View \cup {NoView}, webview' = NoView <=> webview = NoView,
         webview # NoView => webview'.baked = webview.baked,
         thread' = thread \/ (thread = "starting" /\ thread' = "running"),
         handle' \in HandleRec, handle'.suspended = handle.suspended, shared' \in SharedRec,
         calls' \in 0 .. MaxCalls, calls <= calls'
  PROVE  EmbInv'
<1>1. wanted' = wanted /\ commands' = commands /\ artifacts' = artifacts
  OBVIOUS
<1>2. ASSUME NEW f, IsCourse(f)
      PROVE  IsCourse(f)'
  BY <1>1, <1>2 DEF IsCourse
<1>3. thread' # "ended" => \E f : IsCourse(f)'
  <2>1. SUFFICES ASSUME thread' # "ended"
                 PROVE  \E f : IsCourse(f)'
    OBVIOUS
  <2>2. thread # "ended"
    BY <2>1
  <2>3. PICK f : IsCourse(f)
    BY <2>2 DEF EmbInv
  <2>4. QED
    BY <1>2, <2>3
<1>4. wanted'.applied <= calls'
  <2>1. wanted.applied \in Nat /\ wanted.applied <= calls /\ calls \in Nat
    BY DEF EmbInv, WantedRec
  <2>2. QED
    BY <1>1, <2>1, MaxCallsIsNat, SMT
<1>5. thread' \in {"starting", "running", "ended"} /\ (thread' # "running" => webview' = NoView)
      /\ (thread' = "ended" => commands' = <<>>)
  BY DEF EmbInv
<1>6. QED
  BY <1>1, <1>3, <1>4, <1>5 DEF EmbInv

\* The end of the thread throws the channel away.
LEMMA EmbEnds ==
  ASSUME EmbInv, thread' = "ended", commands' = <<>>, webview' = NoView,
         shared' \in SharedRec, UNCHANGED <<handle, calls, wanted>>
  PROVE  EmbInv'
<1>1. commands' \in Seq(Commands)
  BY EmptySeq
<1>2. QED
  BY <1>1 DEF EmbInv

\* Loading a page: a view that is there stays the one that was built.
LEMMA LoadedType ==
  ASSUME NEW u \in Url, artifacts \in 0 .. MaxCalls, webview \in View \cup {NoView},
         NEW view \in {webview, NoView}
  PROVE  /\ Loaded(view, u) \in View /\ Loaded(view, u) # NoView
         /\ Loaded(view, u).baked = IF view = NoView THEN artifacts ELSE view.baked
         /\ Loaded(view, u).load = "begun"
<1>1. CASE view = NoView
  <2>1. Loaded(view, u) = [url |-> u, load |-> "begun", visited |-> {u}, baked |-> artifacts]
    BY <1>1 DEF Loaded, Build
  <2>2. QED
    BY <1>1, <2>1, NoViewIsNone DEF View
<1>2. CASE view # NoView
  <2>1. view \in View
    BY <1>2
  <2>2. Loaded(view, u) = [view EXCEPT !.url = u, !.load = "begun", !.visited = @ \cup {u}]
    BY <1>2 DEF Loaded
  <2>3. view.visited \cup {u} \in SUBSET Url
    BY <2>1 DEF View
  <2>4. Loaded(view, u) = [url |-> u, load |-> "begun", visited |-> view.visited \cup {u},
                           baked |-> view.baked]
    BY <2>1, <2>2 DEF View
  <2>5. QED
    BY <1>2, <2>1, <2>3, <2>4, NoViewIsNone DEF View
<1>3. QED
  BY <1>1, <1>2

\* The thread does with its view what the command makes of a view.
LEMMA ViewObeys ==
  ASSUME webview \in View \cup {NoView}, artifacts \in 0 .. MaxCalls, NEW c \in Commands,
         c.op # "shutdown", NEW w \in ViewAfter(c), NEW v \in WantedRec,
         v.view <=> webview # NoView, v.applied = artifacts,
         webview # NoView => v.baked = webview.baked
  PROVE  /\ w \in View \cup {NoView}
         /\ Obey(v, c).view <=> w # NoView
         /\ w # NoView => Obey(v, c).baked = w.baked
         /\ w = webview \/ w = NoView \/ w.load = "begun"
<1>1. CASE c.op = "navigate"
  <2>1. c.url \in Url /\ w = Loaded(webview, c.url)
    BY <1>1 DEF ViewAfter, Commands
  <2>2. Obey(v, c).view = TRUE
    BY <1>1 DEF Obey
  <2>3. Obey(v, c).baked = IF webview # NoView THEN v.baked ELSE v.applied
    BY <1>1 DEF Obey
  <2>4. QED
    BY <2>1, <2>2, <2>3, LoadedType
<1>2. CASE c.op = "resume"
  <2>1. c.url \in Url /\ w = Loaded(NoView, c.url)
    BY <1>2 DEF ViewAfter, Commands
  <2>2. Obey(v, c).view = TRUE /\ Obey(v, c).baked = v.applied
    BY <1>2 DEF Obey
  <2>3. QED
    BY <2>1, <2>2, LoadedType
<1>3. CASE c.op = "suspend"
  <2>1. w = NoView
    BY <1>3 DEF ViewAfter
  <2>2. Obey(v, c).view = FALSE
    BY <1>3 DEF Obey
  <2>3. QED
    BY <2>1, <2>2
<1>4. CASE c.op \notin {"navigate", "resume", "suspend"}
  <2>1. Obey(v, c).view = v.view /\ Obey(v, c).baked = v.baked
    BY <1>4 DEF Obey
  <2>2. w = webview \/ (webview # NoView /\ \E u \in webview.visited : w = Loaded(webview, u))
    BY <1>4 DEF ViewAfter
  <2>3. CASE w = webview
    BY <2>1, <2>3
  <2>4. CASE webview # NoView /\ \E u \in webview.visited : w = Loaded(webview, u)
    <3>1. PICK u \in webview.visited : w = Loaded(webview, u)
      BY <2>4
    <3>2. u \in Url
      BY <2>4, <3>1 DEF View
    <3>3. w \in View /\ w # NoView /\ w.baked = webview.baked /\ w.load = "begun"
      BY <2>4, <3>1, <3>2, LoadedType
    <3>4. QED
      BY <2>1, <2>4, <3>3
  <2>5. QED
    BY <2>2, <2>3, <2>4
<1>5. QED
  BY <1>1, <1>2, <1>3, <1>4

\* The artifacts the thread has are some of those that were applied.
LEMMA ArtifactsBound ==
  ASSUME EmbInv, thread # "ended"
  PROVE  artifacts \in 0 .. MaxCalls
<1>1. PICK f : IsCourse(f)
  BY DEF EmbInv
<1>2. Len(commands) \in Nat /\ 0 \in 0 .. Len(commands)
  BY LenProperties, SMT DEF EmbInv
<1>3. f[0] \in WantedRec /\ f[0].applied = artifacts /\ f[0].applied <= wanted.applied
  BY <1>1, <1>2 DEF IsCourse
<1>4. artifacts \in Nat /\ wanted.applied \in Nat /\ wanted.applied <= calls /\ calls \in 0 .. MaxCalls
  BY <1>3 DEF EmbInv, WantedRec
<1>5. QED
  BY <1>3, <1>4, MaxCallsIsNat, SMT

\* The thread takes a command, which takes it one step along the course.
LEMMA EmbTakes ==
  ASSUME EmbInv, HandleCommand
  PROVE  EmbInv' /\ (webview' = webview \/ webview' = NoView \/ webview'.load = "begun")
<1> DEFINE c == Head(commands)
<1>1. /\ thread = "running" /\ commands # <<>> /\ UNCHANGED <<shared, calls, wanted>>
      /\ c.op = "shutdown" => /\ thread' = "ended" /\ webview' = NoView /\ commands' = <<>>
                              /\ UNCHANGED <<handle, artifacts>>
      /\ c.op # "shutdown" =>
           /\ webview' \in ViewAfter(c)
           /\ artifacts' = IF c.op = "apply_blocking" THEN artifacts + 1 ELSE artifacts
           /\ handle' = IF c.op = "frame" /\ c.call = handle.frame
                        THEN [handle EXCEPT !.frame = 0] ELSE handle
           /\ commands' = Tail(commands)
           /\ thread' = thread
  BY DEF HandleCommand
<1>2. /\ c \in Commands /\ Tail(commands) \in Seq(Commands)
      /\ Len(Tail(commands)) = Len(commands) - 1 /\ Len(commands) \in Nat \ {0} /\ c = commands[1]
      /\ \A i \in 1 .. Len(Tail(commands)) : Tail(commands)[i] = commands[i + 1]
  BY <1>1, HeadTailProperties, EmptySeq DEF EmbInv
<1> HIDE DEF c
<1>3. CASE c.op = "shutdown"
  BY <1>1, <1>3, EmbEnds DEF EmbInv
<1>4. CASE c.op # "shutdown"
  <2>1. c \in Commands /\ commands' \in Seq(Commands) /\ commands' = Tail(commands)
        /\ Len(commands') = Len(commands) - 1
        /\ \A i \in 1 .. Len(commands') : commands'[i] = commands[i + 1]
    BY <1>1, <1>2, <1>4
  <2>2. PICK f : IsCourse(f)
    BY <1>1 DEF EmbInv
  <2>3. /\ 0 \in 0 .. Len(commands) /\ 1 \in 1 .. Len(commands) /\ 1 \in 0 .. Len(commands) /\ 1 - 1 = 0
        /\ \A i \in 0 .. Len(commands') : i + 1 \in 0 .. Len(commands)
        /\ \A i \in 1 .. Len(commands') : /\ i + 1 \in 1 .. Len(commands) /\ (i + 1) - 1 = (i - 1) + 1
                                          /\ i \in 0 .. Len(commands') /\ i - 1 \in 0 .. Len(commands')
        /\ 0 \in 0 .. Len(commands') /\ Len(commands') \in 0 .. Len(commands')
        /\ 0 + 1 = 1 /\ Len(commands') + 1 = Len(commands)
    BY <1>2, <2>1, SMT
  <2>4. f[0] \in WantedRec /\ (f[0].view <=> webview # NoView) /\ f[0].applied = artifacts
        /\ (webview # NoView => f[0].baked = webview.baked) /\ f[1] = Obey(f[0], c)
    <3>1. f[1] = Obey(f[1 - 1], commands[1])
      BY <2>2, <2>3 DEF IsCourse
    <3>2. QED
      BY <1>2, <2>2, <2>3, <3>1 DEF IsCourse
  <2>5. artifacts \in 0 .. MaxCalls /\ webview \in View \cup {NoView}
    BY <1>1, ArtifactsBound DEF EmbInv
  <2>6. /\ webview' \in View \cup {NoView}
        /\ f[1].view <=> webview' # NoView
        /\ webview' # NoView => f[1].baked = webview'.baked
        /\ webview' = webview \/ webview' = NoView \/ webview'.load = "begun"
    <3>1. PICK w \in ViewAfter(c) : w = webview'
      BY <1>1, <1>4
    <3>2. /\ w \in View \cup {NoView}
          /\ Obey(f[0], c).view <=> w # NoView
          /\ w # NoView => Obey(f[0], c).baked = w.baked
          /\ w = webview \/ w = NoView \/ w.load = "begun"
      BY <1>4, <2>1, <2>4, <2>5, ViewObeys
    <3>3. QED
      BY <2>4, <3>1, <3>2
  <2>7. f[1].applied = artifacts'
    <3>1. Obey(f[0], c).applied = IF c.op = "apply_blocking" THEN f[0].applied + 1 ELSE f[0].applied
      BY DEF Obey
    <3>2. QED
      BY <1>1, <1>4, <2>4, <3>1
  <2> PICK g : g = [i \in 0 .. Len(commands') |-> f[i + 1]]
    OBVIOUS
  <2>8. \A i \in 0 .. Len(commands') : g[i] = f[i + 1]
    OBVIOUS
  <2>9. IsCourse(g)'
    <3>1. g \in [0 .. Len(commands') -> WantedRec]
      <4>1. \A i \in 0 .. Len(commands') : f[i + 1] \in WantedRec
        BY <2>2, <2>3 DEF IsCourse
      <4>2. QED
        BY <4>1
    <3>2. g[0] = f[1] /\ g[Len(commands')] = wanted'
      <4>1. f[Len(commands)] = wanted /\ wanted' = wanted
        BY <1>1, <2>2 DEF IsCourse
      <4>2. QED
        BY <2>3, <2>8, <4>1
    <3>3. \A i \in 1 .. Len(commands') : g[i] = Obey(g[i - 1], commands'[i])
      <4>1. TAKE i \in 1 .. Len(commands')
      <4>2. f[i + 1] = Obey(f[(i + 1) - 1], commands[i + 1])
        BY <2>2, <2>3 DEF IsCourse
      <4>3. g[i] = f[i + 1] /\ g[i - 1] = f[(i + 1) - 1] /\ commands'[i] = commands[i + 1]
        BY <2>1, <2>3, <2>8
      <4>4. QED
        BY <4>2, <4>3
    <3>4. \A i \in 0 .. Len(commands') : g[i].applied <= wanted'.applied
      BY <1>1, <2>2, <2>3, <2>8 DEF IsCourse
    <3>5. QED
      BY <2>6, <2>7, <3>1, <3>2, <3>3, <3>4 DEF IsCourse
  <2>10. handle' \in HandleRec /\ handle'.suspended = handle.suspended
    <3>1. handle \in HandleRec /\ 0 \in 0 .. MaxCalls
      BY MaxCallsIsNat, SMT DEF EmbInv
    <3>2. QED
      BY <1>1, <1>4, <3>1 DEF HandleRec
  <2>11. QED
    BY <1>1, <1>4, <2>1, <2>6, <2>9, <2>10 DEF EmbInv
<1>5. QED
  BY <1>3, <1>4

\* The commands of the handle
LEMMA CommandType ==
  ASSUME NEW op \in {"navigate", "go_back", "go_forward", "reload", "apply_blocking",
                     "suspend", "resume", "shutdown", "set_muted", "frame"},
         NEW u \in Url \cup {NoUrl}, op \in {"navigate", "resume"} => u \in Url
  PROVE  /\ Command(op, u) \in Commands
         /\ Command(op, u).op = op /\ Command(op, u).url = u
<1>1. 0 \in 0 .. MaxCalls
  BY MaxCallsIsNat, SMT
<1>2. QED
  BY <1>1 DEF Command, Commands, CommandRec

\* A call counts.
LEMMA CalledCounts ==
  ASSUME EmbInv, Called
  PROVE  /\ calls' \in 0 .. MaxCalls /\ calls <= calls' /\ calls' = calls + 1
         /\ wanted.applied <= calls' /\ wanted.applied + 1 <= calls'
         /\ calls \in Nat /\ wanted.applied \in Nat
<1>1. calls \in 0 .. MaxCalls /\ calls < MaxCalls /\ calls' = calls + 1
      /\ wanted.applied \in Nat /\ wanted.applied <= calls
  BY DEF EmbInv, Called, Free, WantedRec
<1>2. QED
  BY <1>1, MaxCallsIsNat, SMT

\* Commands that want nothing of the view
LEMMA EmbOther ==
  ASSUME EmbInv, NEW c \in Commands, Send(c), UNCHANGED <<wanted, thread, artifacts, webview>>,
         c.op \notin {"navigate", "resume", "suspend", "apply_blocking"},
         calls' \in 0 .. MaxCalls, calls <= calls',
         handle' \in HandleRec, handle'.suspended = handle.suspended, shared' \in SharedRec
  PROVE  EmbInv'
<1>1. wanted \in WantedRec /\ wanted.applied \in Nat /\ wanted.applied <= calls /\ calls \in Nat
  BY DEF EmbInv, WantedRec
<1>2. wanted' = Obey(wanted, c)
  BY <1>1 DEF Obey, WantedRec
<1>3. wanted'.applied <= calls'
  BY <1>1, MaxCallsIsNat, SMT
<1>4. handle'.suspended => ~wanted'.view
  BY DEF EmbInv
<1>5. QED
  BY <1>2, <1>3, <1>4, EmbSends

LEMMA EmbNavigates ==
  ASSUME EmbInv, Called, NEW u \in Url, EmbNavigate(u)
  PROVE  EmbInv'
<1> PICK c : c = Command("navigate", u)
  OBVIOUS
<1>1. c \in Commands /\ c.op = "navigate"
  BY CommandType
<1>2. wanted \in WantedRec /\ handle \in HandleRec /\ shared' \in SharedRec
  BY DEF EmbInv, EmbNavigate
<1>3. handle' \in HandleRec /\ handle'.suspended = FALSE
  BY <1>2 DEF EmbNavigate, HandleRec
<1>4. wanted' = Obey(wanted, c) /\ wanted'.applied = wanted.applied
  BY <1>1, <1>2 DEF EmbNavigate, Obey, WantedRec
<1>5. QED
  BY <1>1, <1>2, <1>3, <1>4, CalledCounts, EmbSends DEF EmbNavigate

LEMMA EmbResumes ==
  ASSUME EmbInv, Called, NEW u \in Url, EmbResume(u)
  PROVE  EmbInv'
<1> PICK c : c = Command("resume", u)
  OBVIOUS
<1>1. c \in Commands /\ c.op = "resume"
  BY CommandType
<1>2. wanted \in WantedRec /\ handle \in HandleRec /\ shared' \in SharedRec
  BY DEF EmbInv, EmbResume
<1>3. handle' \in HandleRec /\ handle'.suspended = FALSE
  BY <1>2 DEF EmbResume, HandleRec
<1>4. wanted' = Obey(wanted, c) /\ wanted'.applied = wanted.applied
  BY <1>1, <1>2 DEF EmbResume, Obey, WantedRec
<1>5. QED
  BY <1>1, <1>2, <1>3, <1>4, CalledCounts, EmbSends DEF EmbResume

LEMMA EmbSuspends ==
  ASSUME EmbInv, Called, EmbSuspend
  PROVE  EmbInv'
<1> PICK c : c = Command("suspend", NoUrl)
  OBVIOUS
<1>1. c \in Commands /\ c.op = "suspend"
  BY CommandType
<1>2. wanted \in WantedRec /\ handle \in HandleRec /\ shared' \in SharedRec
  BY DEF EmbInv, EmbSuspend
<1>3. handle' \in HandleRec
  BY <1>2 DEF EmbSuspend, HandleRec
<1>4. wanted' = Obey(wanted, c) /\ wanted'.applied = wanted.applied /\ wanted'.view = FALSE
  BY <1>1, <1>2 DEF EmbSuspend, Obey, WantedRec
<1>5. QED
  BY <1>1, <1>2, <1>3, <1>4, CalledCounts, EmbSends DEF EmbSuspend

LEMMA EmbApplies ==
  ASSUME EmbInv, Called, EmbApplyBlocking
  PROVE  EmbInv'
<1> PICK c : c = Command("apply_blocking", NoUrl)
  OBVIOUS
<1>1. c \in Commands /\ c.op = "apply_blocking"
  BY CommandType
<1>2. wanted \in WantedRec /\ handle' \in HandleRec /\ shared' \in SharedRec
  BY DEF EmbInv, EmbApplyBlocking
<1>3. wanted' = [wanted EXCEPT !.applied = wanted.applied + 1]
  BY DEF EmbApplyBlocking
<1>4. wanted' = Obey(wanted, c) /\ wanted'.applied = wanted.applied + 1 /\ wanted'.view = wanted.view
  BY <1>1, <1>2, <1>3 DEF Obey, WantedRec
<1>5. handle'.suspended => ~wanted'.view
  BY <1>4 DEF EmbInv, EmbApplyBlocking
<1>6. QED
  BY <1>1, <1>2, <1>4, <1>5, CalledCounts, EmbSends DEF EmbApplyBlocking

LEMMA EmbMutes ==
  ASSUME EmbInv, Called, NEW m \in BOOLEAN, EmbSetMuted(m)
  PROVE  EmbInv'
<1>1. CASE shared.muted = m
  <2>1. UNCHANGED <<shared, commands, handle, thread, artifacts, webview, wanted>>
    BY <1>1 DEF EmbSetMuted
  <2>2. QED
    BY <2>1, CalledCounts, EmbKeeps DEF EmbInv
<1>2. CASE shared.muted # m
  <2> PICK c : c = [Command("set_muted", NoUrl) EXCEPT !.muted = m]
    OBVIOUS
  <2>1. c \in Commands /\ c.op = "set_muted"
    BY CommandType DEF Commands, CommandRec
  <2>2. Send(c) /\ shared' = [events |-> Append(shared.events, Audio(m)), muted |-> m]
        /\ UNCHANGED <<handle, thread, artifacts, webview, wanted>>
    BY <1>2 DEF EmbSetMuted
  <2>3. shared' \in SharedRec
    <3>1. Audio(m) \in EventRec /\ shared.events \in Seq(EventRec)
      BY DEF Audio, EventRec, EmbInv, SharedRec
    <3>2. Append(shared.events, Audio(m)) \in Seq(EventRec)
      BY <3>1, AppendProperties
    <3>3. QED
      BY <2>2, <3>2 DEF SharedRec
  <2>4. handle' \in HandleRec
    BY <2>2 DEF EmbInv
  <2>5. QED
    BY <2>1, <2>2, <2>3, <2>4, CalledCounts, EmbOther
<1>3. QED
  BY <1>1, <1>2

LEMMA EmbAsksHistory ==
  ASSUME EmbInv, Called, NEW op \in {"go_back", "go_forward", "reload"}, EmbSend(op)
  PROVE  EmbInv'
<1>1. PICK c : c = Command(op, NoUrl)
  OBVIOUS
<1>2. c \in Commands /\ c.op = op
  BY <1>1, CommandType
<1>3. Send(c) /\ UNCHANGED <<handle, shared, thread, artifacts, webview, wanted>>
  BY <1>1 DEF EmbSend
<1>4. handle' \in HandleRec /\ shared' \in SharedRec
  BY <1>3 DEF EmbInv
<1>5. QED
  BY <1>2, <1>3, <1>4, CalledCounts, EmbOther

LEMMA EmbFrames ==
  ASSUME EmbInv, AskFrame \/ FrameTimesOut
  PROVE  EmbInv'
<1>1. handle \in HandleRec /\ 0 \in 0 .. MaxCalls /\ calls \in 0 .. MaxCalls
  BY MaxCallsIsNat, SMT DEF EmbInv
<1>2. CASE AskFrame
  <2>1. Called
    BY <1>2 DEF AskFrame
  <2> PICK c : c = [Command("frame", NoUrl) EXCEPT !.call = calls + 1]
    OBVIOUS
  <2>2. calls + 1 \in 0 .. MaxCalls
    BY <2>1, CalledCounts
  <2>3. c \in Commands /\ c.op = "frame"
    BY <2>2, CommandType DEF Commands, CommandRec
  <2>4. Send(c) /\ UNCHANGED <<shared, thread, artifacts, webview, wanted>>
        /\ handle' = [handle EXCEPT !.frame = calls + 1]
    BY <1>2 DEF AskFrame
  <2>5. handle' \in HandleRec /\ handle'.suspended = handle.suspended /\ shared' \in SharedRec
    BY <1>1, <2>2, <2>4 DEF EmbInv, HandleRec
  <2>6. QED
    BY <2>1, <2>3, <2>4, <2>5, CalledCounts, EmbOther
<1>3. CASE FrameTimesOut
  <2>1. handle' \in HandleRec /\ handle'.suspended = handle.suspended
    BY <1>1, <1>3 DEF FrameTimesOut, HandleRec
  <2>2. UNCHANGED <<shared, commands, thread, artifacts, webview, calls, wanted>>
    BY <1>3 DEF FrameTimesOut
  <2>3. calls <= calls'
    BY <1>1, <2>2, SMT
  <2>4. QED
    BY <2>1, <2>2, <2>3, EmbKeeps DEF EmbInv
<1>4. QED
  BY <1>2, <1>3

LEMMA EmbDrops ==
  ASSUME EmbInv, DropEngine \/ Joined
  PROVE  EmbInv'
<1>1. handle \in HandleRec /\ calls \in 0 .. MaxCalls
  BY DEF EmbInv
<1>2. handle' \in HandleRec /\ handle'.suspended = handle.suspended
      /\ UNCHANGED <<shared, thread, artifacts, webview, calls, wanted>>
  BY <1>1 DEF DropEngine, Joined, HandleRec
<1>3. calls' \in 0 .. MaxCalls /\ calls <= calls' /\ shared' \in SharedRec
  BY <1>1, <1>2, SMT DEF EmbInv
<1>4. CASE DropEngine
  <2> PICK c : c = Command("shutdown", NoUrl)
    OBVIOUS
  <2>1. c \in Commands /\ c.op = "shutdown"
    BY CommandType
  <2>2. Send(c)
    BY <1>4 DEF DropEngine
  <2>3. QED
    BY <1>2, <1>3, <2>1, <2>2, EmbOther
<1>5. CASE Joined
  <2>1. UNCHANGED commands
    BY <1>5 DEF Joined
  <2>2. QED
    BY <1>2, <1>3, <2>1, EmbKeeps DEF EmbInv
<1>6. QED
  BY <1>4, <1>5

\* What the thread reports
LEMMA EmbSays ==
  ASSUME EmbInv, NEW e \in EventRec, Say(e)
  PROVE  shared' \in SharedRec /\ shared'.events = Append(shared.events, e)
         /\ shared'.muted = shared.muted
<1>1. shared.events \in Seq(EventRec) /\ shared \in SharedRec
  BY DEF EmbInv, SharedRec
<1>2. Append(shared.events, e) \in Seq(EventRec)
  BY <1>1, AppendProperties
<1>3. QED
  BY <1>1, <1>2 DEF Say, SharedRec

LEMMA EmbSpins ==
  ASSUME EmbInv, Spin
  PROVE  EmbInv'
<1>1. webview \in View /\ webview # NoView
  BY DEF EmbInv, Spin
<1>2. PICK load \in {"started", "committed", "finished"} :
        webview' = [webview EXCEPT !.load = load] /\ Say(Event(load, webview.url))
  BY DEF Spin
<1>3. webview' \in View /\ webview' # NoView /\ webview'.baked = webview.baked
  BY <1>1, <1>2, NoViewIsNone DEF View
<1>4. Event(load, webview.url) \in EventRec
  BY <1>1, <1>2 DEF View, Event, EventRec
<1>5. shared' \in SharedRec
  BY <1>2, <1>4, EmbSays
<1>6. UNCHANGED <<handle, commands, thread, artifacts, calls, wanted>>
  BY DEF Spin
<1>7. calls' \in 0 .. MaxCalls /\ calls <= calls'
  BY <1>6, SMT DEF EmbInv
<1>8. QED
  BY <1>1, <1>3, <1>5, <1>6, <1>7, EmbKeeps DEF EmbInv

LEMMA EmbThreadStarts ==
  ASSUME EmbInv, StartThread
  PROVE  EmbInv'
<1>1. thread = "starting" /\ UNCHANGED <<handle, artifacts, webview, calls, wanted>> /\ webview = NoView
  BY DEF StartThread, EmbInv
<1>2. CASE thread' = "running" /\ UNCHANGED <<shared, commands>>
  <2>1. calls' \in 0 .. MaxCalls /\ calls <= calls'
    BY <1>1, SMT DEF EmbInv
  <2>2. QED
    BY <1>1, <1>2, <2>1, EmbKeeps DEF EmbInv
<1>3. CASE thread' = "ended" /\ commands' = <<>> /\ Say(Event("crashed", NoUrl))
  <2>1. Event("crashed", NoUrl) \in EventRec
    BY DEF Event, EventRec
  <2>2. shared' \in SharedRec
    BY <1>3, <2>1, EmbSays
  <2>3. QED
    BY <1>1, <1>3, <2>2, EmbEnds
<1>4. QED
  BY <1>2, <1>3 DEF StartThread

LEMMA EmbStep ==
  ASSUME EmbInv, [Next]_vars
  PROVE  EmbInv'
<1>1. CASE UNCHANGED embVars
  <2>1. UNCHANGED <<commands, artifacts, wanted, handle, shared, thread, webview, calls>>
    BY <1>1 DEF embVars
  <2>2. calls <= calls'
    BY <2>1, MaxCallsIsNat, SMT DEF EmbInv
  <2>3. QED
    BY <2>1, <2>2, EmbKeeps DEF EmbInv
<1>2. CASE Navigate
  BY <1>2, EmbNavigates DEF Navigate
<1>3. CASE GoBack \/ GoForward \/ Reload
  BY <1>3, EmbAsksHistory DEF GoBack, GoForward, Reload
<1>4. CASE Stop
  <2>1. Called /\ UNCHANGED <<handle, shared, commands, thread, artifacts, webview, wanted>>
    BY <1>4 DEF Stop, EmbStop
  <2>2. QED
    BY <2>1, CalledCounts, EmbKeeps DEF EmbInv
<1>5. CASE ApplyBlocking
  BY <1>5, EmbApplies DEF ApplyBlocking
<1>6. CASE SetMuted
  BY <1>6, EmbMutes DEF SetMuted
<1>7. CASE Suspend
  BY <1>7, EmbSuspends DEF Suspend
<1>8. CASE Resume
  BY <1>8, EmbResumes DEF Resume
<1>9. CASE Frame
  BY <1>9, EmbFrames DEF Frame
<1>10. CASE Drop \/ Join
  BY <1>10, EmbDrops DEF Drop, Join
<1>11. CASE SimPump
  BY <1>1, <1>11 DEF SimPump
<1>12. CASE ThreadStep
  BY <1>12, EmbThreadStarts, EmbTakes, EmbSpins DEF ThreadStep
<1>13. CASE UNCHANGED vars
  BY <1>1, <1>13 DEF vars
<1>14. QED
  BY <1>2, <1>3, <1>4, <1>5, <1>6, <1>7, <1>8, <1>9, <1>10, <1>11, <1>12, <1>13 DEF Next

\* When the channel is empty the thread of the embedded engine has the view the calls
\* asked for, built with the artifacts applied before it, for any number of calls.
THEOREM ViewHolds == Spec => []ViewIsAsAsked
<1>1. Init => EmbInv
  BY EmbStarts DEF Init
<1>2. EmbInv /\ [Next]_vars => EmbInv'
  BY EmbStep
<1>3. EmbInv => ViewIsAsAsked
  <2> SUFFICES ASSUME EmbInv, thread = "running", commands = <<>>
               PROVE  /\ (webview # NoView) = wanted.view
                      /\ handle.suspended => webview = NoView
                      /\ webview # NoView => webview.baked = wanted.baked
    BY DEF ViewIsAsAsked
  <2>1. PICK f : IsCourse(f)
    BY DEF EmbInv
  <2>2. Len(commands) = 0
    BY EmptySeq
  <2>3. f[0] = wanted
    BY <2>1, <2>2 DEF IsCourse
  <2>4. /\ wanted.view <=> webview # NoView
        /\ webview # NoView => wanted.baked = webview.baked
    BY <2>1, <2>3 DEF IsCourse
  <2>5. wanted.view \in BOOLEAN /\ (handle.suspended => ~wanted.view)
    BY DEF EmbInv, WantedRec
  <2>6. QED
    BY <2>4, <2>5
<1>4. QED
  BY <1>1, <1>2, <1>3, PTL DEF Spec

(***************************************************************************)
(* The events of both                                                      *)
(***************************************************************************)

\* The last report of a load is about the load that is pending, and says how far it is.
SimReports ==
  /\ Contract(events)
  /\ engine.pending # NoLoad => LastSaid(events, Event(engine.pending.stage, engine.pending.url))

EmbReports ==
  /\ Contract(shared.events)
  /\ (webview # NoView /\ webview.load \in {"started", "committed"}) =>
       LastSaid(shared.events, Event(webview.load, webview.url))

SameSound == AudioIn(events) = AudioIn(shared.events) /\ engine.muted = shared.muted

EventInv == HistoryInv /\ EmbInv /\ SimReports /\ EmbReports /\ SameSound

\* Steps after which an engine says nothing new of the sound
SimSilent == AudioIn(events)' = AudioIn(events) /\ engine'.muted = engine.muted
EmbSilent == AudioIn(shared.events)' = AudioIn(shared.events) /\ shared'.muted = shared.muted

LEMMA EventStarts == Init => EventInv
<1> SUFFICES ASSUME Init
             PROVE  EventInv
  OBVIOUS
<1>1. HistoryInv /\ EmbInv
  BY HistoryInit, EmbStarts DEF Init
<1>2. events = <<>> /\ shared.events = <<>> /\ engine.pending = NoLoad /\ webview = NoView
      /\ engine.muted = shared.muted
  BY DEF Init, SimInit, EmbInit
<1>3. Contract(<<>>)
  <2>1. <<>> \in Seq(EventRec) /\ Len(<<>>) = 0
    BY EmptySeq
  <2>2. NavigationsIn(<<>>) = <<>>
    <3>1. PICK q \in Seq(EventRec) : q = <<>>
      BY <2>1
    <3>2. PICK f : /\ f = [n \in 0 .. Len(q) |-> IF n = 0 THEN <<>> ELSE
                             Keep(f[n - 1], q[n], {"started", "committed", "finished", "failed"})]
                   /\ NavigationsIn(q) = f[Len(q)]
      BY KeptSteps DEF NavigationsIn
    <3>3. Len(q) = 0 /\ 0 \in 0 .. Len(q)
      BY <2>1, <3>1, SMT
    <3>4. f[0] = <<>>
      BY <3>2, <3>3
    <3>5. QED
      BY <3>1, <3>2, <3>3, <3>4
  <2>3. DOMAIN <<>> = {}
    BY SMT
  <2>4. QED
    BY <2>1, <2>2, <2>3 DEF Contract, KeepsContract
<1>4. QED
  BY <1>1, <1>2, <1>3 DEF EventInv, SimReports, EmbReports, SameSound

\* Reports of loads are not about the sound.
LEMMA AudioAppend ==
  ASSUME NEW q \in Seq(EventRec), NEW e \in EventRec
  PROVE  /\ e.kind \notin {"muted", "silent"} => AudioIn(Append(q, e)) = AudioIn(q)
         /\ e.kind \in {"muted", "silent"} => AudioIn(Append(q, e)) = Append(AudioIn(q), e)
BY KeptAppend DEF AudioIn, Keep

\* A load that begins
LEMMA ReportBegins ==
  ASSUME SimReports, NEW e \in EngineRec, e.muted = engine.muted, NEW u \in Url, NEW fh \in BOOLEAN,
         BeginLoad(e, u, fh)
  PROVE  SimReports' /\ SimSilent
<1>1. PICK p : p = [url |-> u, stage |-> "started", from_history |-> fh]
  OBVIOUS
<1>2. p \in Load /\ p.url = u /\ p.stage = "started"
  BY <1>1, LoadStarts
<1>3. engine' = [e EXCEPT !.suspended = FALSE, !.pending = p] /\ events' = Append(events, Event("started", u))
  BY <1>1 DEF BeginLoad
<1>4. engine'.pending = p /\ engine'.muted = engine.muted
  BY <1>3 DEF EngineRec
<1>5. Contract(events)' /\ LastSaid(events, Event("started", u))'
  BY <1>3, ContractSays DEF SimReports, NavKinds
<1>6. Event("started", u) \in EventRec /\ Event("started", u).kind = "started" /\ events \in Seq(EventRec)
  BY DEF Event, EventRec, SimReports, Contract
<1>7. AudioIn(events)' = AudioIn(events)
  BY <1>3, <1>6, AudioAppend
<1>8. QED
  BY <1>2, <1>4, <1>5, <1>7 DEF SimReports, SimSilent

\* What takes a load away says nothing that has to be followed up.
LEMMA ReportStops ==
  ASSUME SimReports, HistoryInv, SimStop \/ SimSuspend
  PROVE  SimReports' /\ SimSilent
<1>1. engine'.pending = NoLoad /\ engine'.muted = engine.muted /\ events' = events
  BY DEF SimStop, SimSuspend, HistoryInv, EngineRec
<1>2. QED
  BY <1>1 DEF SimReports, SimSilent, AudioIn

LEMMA ReportPumps ==
  ASSUME SimReports, HistoryInv, Pump
  PROVE  SimReports' /\ SimSilent
<1> DEFINE u == engine.pending.url
<1>1. engine.pending \in Load /\ engine.pending # NoLoad /\ u \in Url /\ engine \in EngineRec
      /\ events \in Seq(EventRec) /\ Contract(events)
      /\ LastSaid(events, Event(engine.pending.stage, u))
  BY DEF Pump, PumpFails, PumpCommits, PumpFinishes, HistoryInv, EngineRec, Load, SimReports, Contract
<1>2. ASSUME NEW kind \in NavKinds
      PROVE  Event(kind, u) \in EventRec /\ Event(kind, u).kind = kind
  BY <1>1 DEF Event, EventRec, NavKinds
<1>3. ASSUME NEW kind \in NavKinds, events' = Append(events, Event(kind, u))
      PROVE  AudioIn(events)' = AudioIn(events)
  BY <1>1, <1>2, <1>3, AudioAppend DEF NavKinds
<1>4. CASE PumpFails
  <2>1. engine'.pending = NoLoad /\ engine'.muted = engine.muted
        /\ events' = Append(events, Event("failed", u)) /\ engine.pending.stage = "started"
    BY <1>1, <1>4 DEF PumpFails, EngineRec
  <2>2. Contract(events)'
    BY <1>1, <2>1, ContractSays DEF NavKinds
  <2>3. QED
    BY <1>3, <2>1, <2>2 DEF SimReports, SimSilent, NavKinds
<1>5. CASE PumpCommits
  <2>1. engine' = [engine EXCEPT !.pending.stage = "committed"]
        /\ events' = Append(events, Event("committed", u)) /\ engine.pending.stage = "started"
    BY <1>5 DEF PumpCommits
  <2>2. engine'.pending = [engine.pending EXCEPT !.stage = "committed"] /\ engine'.muted = engine.muted
    BY <1>1, <2>1 DEF EngineRec
  <2>3. engine'.pending.stage = "committed" /\ engine'.pending.url = u
    BY <1>1, <2>2 DEF Load
  <2>4. Contract(events') /\ LastSaid(events', Event("committed", u))
    <3>1. LastSaid(events, Event("started", u))
      BY <1>1, <2>1
    <3>2. "committed" \in NavKinds
      BY DEF NavKinds
    <3> HIDE DEF u
    <3>3. QED
      BY <1>1, <2>1, <3>1, <3>2, ContractSays
  <2>5. QED
    BY <1>3, <2>1, <2>2, <2>3, <2>4 DEF SimReports, SimSilent, NavKinds
<1>6. CASE PumpFinishes
  <2>1. engine'.pending = NoLoad /\ engine'.muted = engine.muted
        /\ events' = Append(events, Event("finished", u)) /\ engine.pending.stage = "committed"
    BY <1>1, <1>6 DEF PumpFinishes, EngineRec
  <2>2. Contract(events)'
    BY <1>1, <2>1, ContractSays DEF NavKinds
  <2>3. QED
    BY <1>3, <2>1, <2>2 DEF SimReports, SimSilent, NavKinds
<1>7. QED
  BY <1>4, <1>5, <1>6 DEF Pump

\* A history move or reload begins a load or does nothing.
LEMMA ReportMoves ==
  ASSUME SimReports, HistoryInv, SimGoBack \/ SimGoForward \/ SimReload
  PROVE  SimReports' /\ SimSilent
<1>1. /\ engine \in EngineRec /\ engine.back_stack \in Seq(Url) /\ engine.forward_stack \in Seq(Url)
      /\ engine.current \in Url \cup {NoUrl}
  BY DEF HistoryInv, EngineRec
<1>2. CASE UNCHANGED simVars
  BY <1>2 DEF simVars, SimReports, SimSilent, AudioIn
<1>3. ASSUME NEW s \in Seq(Url), s # <<>>
      PROVE  Front(s) \in Seq(Url) /\ Last(s) \in Url
  <2>1. Len(s) \in Nat \ {0}
    BY <1>3, EmptySeq
  <2>2. 1 \in 1 .. Len(s) + 1 /\ Len(s) - 1 \in 0 .. Len(s) /\ Len(s) \in 1 .. Len(s)
    BY <2>1, SMT
  <2>3. Front(s) \in Seq(Url)
    BY <2>2, PartElements DEF Front
  <2>4. Last(s) \in Url
    BY <2>2 DEF Last
  <2>5. QED
    BY <2>3, <2>4
<1>4. ASSUME NEW s \in Seq(Url), NEW u \in Url \cup {NoUrl}
      PROVE  Push(s, u) \in Seq(Url)
  BY <1>4, AppendProperties DEF Push
<1>5. CASE SimGoBack /\ engine.back_stack # <<>>
  <2>1. PICK e : e = [engine EXCEPT !.back_stack = Front(@), !.current = NoUrl,
                                    !.forward_stack = Push(@, engine.current)]
    OBVIOUS
  <2>2. Front(engine.back_stack) \in Seq(Url) /\ Last(engine.back_stack) \in Url
        /\ Push(engine.forward_stack, engine.current) \in Seq(Url)
    BY <1>1, <1>3, <1>4, <1>5
  <2>3. e \in EngineRec /\ e.muted = engine.muted
    BY <1>1, <2>1, <2>2 DEF EngineRec
  <2>4. BeginLoad(e, Last(engine.back_stack), TRUE)
    BY <1>5, <2>1 DEF SimGoBack
  <2>5. QED
    BY <2>2, <2>3, <2>4, ReportBegins
<1>6. CASE SimGoForward /\ engine.forward_stack # <<>>
  <2>1. PICK e : e = [engine EXCEPT !.forward_stack = Front(@), !.current = NoUrl,
                                    !.back_stack = Push(@, engine.current)]
    OBVIOUS
  <2>2. Front(engine.forward_stack) \in Seq(Url) /\ Last(engine.forward_stack) \in Url
        /\ Push(engine.back_stack, engine.current) \in Seq(Url)
    BY <1>1, <1>3, <1>4, <1>6
  <2>3. e \in EngineRec /\ e.muted = engine.muted
    BY <1>1, <2>1, <2>2 DEF EngineRec
  <2>4. BeginLoad(e, Last(engine.forward_stack), TRUE)
    BY <1>6, <2>1 DEF SimGoForward
  <2>5. QED
    BY <2>2, <2>3, <2>4, ReportBegins
<1>7. CASE SimReload /\ engine.current # NoUrl
  <2>1. PICK e : e = [engine EXCEPT !.current = NoUrl]
    OBVIOUS
  <2>2. e \in EngineRec /\ e.muted = engine.muted
    BY <1>1, <2>1 DEF EngineRec
  <2>3. BeginLoad(e, engine.current, TRUE)
    BY <1>7, <2>1 DEF SimReload
  <2>4. QED
    BY <1>1, <1>7, <2>2, <2>3, ReportBegins
<1>8. QED
  BY <1>2, <1>5, <1>6, <1>7 DEF SimGoBack, SimGoForward, SimReload

\* The owner's calls, and the thread when it takes a command, report nothing of a load.
LEMMA ReportKeeps ==
  ASSUME EmbReports, UNCHANGED shared,
         webview' = webview \/ webview' = NoView \/ webview'.load = "begun"
  PROVE  EmbReports' /\ EmbSilent
<1>1. Contract(shared.events)' /\ EmbSilent
  BY DEF EmbReports, EmbSilent, AudioIn
<1>2. CASE webview' = webview
  BY <1>1, <1>2 DEF EmbReports
<1>3. CASE webview' = NoView \/ webview'.load = "begun"
  <2>1. ~(webview' # NoView /\ webview'.load \in {"started", "committed"})
    BY <1>3
  <2>2. QED
    BY <1>1, <2>1 DEF EmbReports
<1>4. QED
  BY <1>2, <1>3

LEMMA ReportSpins ==
  ASSUME EmbInv, EmbReports, Spin
  PROVE  EmbReports' /\ EmbSilent
<1>1. webview \in View /\ webview # NoView /\ webview.url \in Url
  BY DEF EmbInv, Spin, View
<1>2. PICK step \in {<<"begun", "started">>, <<"started", "committed">>, <<"committed", "finished">>} :
        /\ webview.load = step[1]
        /\ webview' = [webview EXCEPT !.load = step[2]]
        /\ Say(Event(step[2], webview.url))
  BY DEF Spin
<1>3. PICK load : load = step[2]
  OBVIOUS
<1>4. PICK e : e = Event(load, webview.url)
  OBVIOUS
<1>5. /\ load \in NavKinds \ {"failed"} /\ load \in {"started", "committed", "finished"}
      /\ load = "committed" => webview.load = "started"
      /\ load = "finished" => webview.load = "committed"
  BY <1>2, <1>3 DEF NavKinds
<1>6. webview' \in View /\ webview'.load = load /\ webview'.url = webview.url
  BY <1>1, <1>2, <1>3, <1>5 DEF View
<1>7. e \in EventRec /\ e.kind = load /\ Say(e)
  BY <1>1, <1>2, <1>3, <1>4, <1>5 DEF Event, EventRec
<1>8. shared'.events = Append(shared.events, e) /\ shared'.muted = shared.muted
  BY <1>7, EmbSays
<1>9. /\ Contract(shared.events)
      /\ load = "committed" => LastSaid(shared.events, Event("started", webview.url))
      /\ load = "finished" => LastSaid(shared.events, Event("committed", webview.url))
  BY <1>1, <1>5 DEF EmbReports
<1>10. Contract(shared'.events) /\ LastSaid(shared'.events, e)
  <2>1. load \in NavKinds /\ load # "failed"
    BY <1>5
  <2>2. QED
    BY <1>1, <1>4, <1>8, <1>9, <2>1, ContractSays
<1>11. EmbReports'
  BY <1>4, <1>6, <1>10 DEF EmbReports
<1>12. EmbSilent
  <2>1. shared.events \in Seq(EventRec) /\ e.kind \notin {"muted", "silent"}
    BY <1>5, <1>7 DEF EmbReports, Contract
  <2>2. AudioIn(shared'.events) = AudioIn(shared.events)
    BY <1>7, <1>8, <2>1, AudioAppend
  <2>3. QED
    BY <1>8, <2>2 DEF EmbSilent, AudioIn
<1>13. QED
  BY <1>11, <1>12

LEMMA ReportThreadStarts ==
  ASSUME EmbInv, EmbReports, StartThread
  PROVE  EmbReports' /\ EmbSilent
<1>1. thread = "starting" /\ webview = NoView /\ webview' = webview
  BY DEF StartThread, EmbInv
<1>2. CASE UNCHANGED shared
  BY <1>1, <1>2, ReportKeeps
<1>3. CASE Say(Event("crashed", NoUrl))
  <2>1. PICK e : e = Event("crashed", NoUrl)
    OBVIOUS
  <2>2. e \in EventRec /\ e.kind = "crashed"
    BY <2>1 DEF Event, EventRec
  <2>3. shared'.events = Append(shared.events, e) /\ shared'.muted = shared.muted
    BY <1>3, <2>1, <2>2, EmbSays
  <2>4. Contract(shared.events) /\ shared.events \in Seq(EventRec)
    BY DEF EmbReports, Contract
  <2>5. Contract(shared'.events)
    BY <2>2, <2>3, <2>4, ContractOther DEF NavKinds
  <2>6. AudioIn(shared'.events) = AudioIn(shared.events)
    BY <2>2, <2>3, <2>4, AudioAppend
  <2>7. QED
    BY <1>1, <2>3, <2>5, <2>6 DEF EmbReports, EmbSilent, AudioIn
<1>4. QED
  BY <1>2, <1>3 DEF StartThread

\* A change of the sound is reported by both, or by neither.
LEMMA ReportMuted ==
  ASSUME HistoryInv, EmbInv, SimReports, EmbReports, SameSound, NEW m \in BOOLEAN,
         SimSetMuted(m), EmbSetMuted(m)
  PROVE  SimReports' /\ EmbReports' /\ SameSound'
<1>1. /\ engine'.muted = m /\ engine'.pending = engine.pending /\ webview' = webview
      /\ events \in Seq(EventRec) /\ shared.events \in Seq(EventRec)
      /\ Contract(events) /\ Contract(shared.events) /\ shared \in SharedRec
  BY DEF SimSetMuted, EmbSetMuted, HistoryInv, EngineRec, SimReports, EmbReports, Contract, EmbInv
<1>2. CASE engine.muted = m
  <2>1. events' = events /\ shared' = shared
    BY <1>2 DEF SimSetMuted, EmbSetMuted, SameSound
  <2>2. QED
    BY <1>1, <1>2, <2>1 DEF SimReports, EmbReports, SameSound, AudioIn
<1>3. CASE engine.muted # m
  <2>1. PICK e : e = Audio(m)
    OBVIOUS
  <2>2. e \in EventRec /\ e.kind \in {"muted", "silent"}
    BY <2>1 DEF Audio, EventRec
  <2>3. events' = Append(events, e) /\ shared' = [events |-> Append(shared.events, e), muted |-> m]
    BY <1>3, <2>1 DEF SimSetMuted, EmbSetMuted, SameSound
  <2>4. shared'.events = Append(shared.events, e) /\ shared'.muted = m
    BY <2>3
  <2>5. /\ Contract(events') /\ NavigationsIn(events') = NavigationsIn(events)
        /\ Contract(shared'.events) /\ NavigationsIn(shared'.events) = NavigationsIn(shared.events)
    BY <1>1, <2>2, <2>3, <2>4, ContractOther DEF NavKinds
  <2>6. AudioIn(events') = Append(AudioIn(events), e)
        /\ AudioIn(shared'.events) = Append(AudioIn(shared.events), e)
    BY <1>1, <2>2, <2>3, <2>4, AudioAppend
  <2>7. SimReports' /\ EmbReports'
    BY <1>1, <2>5 DEF SimReports, EmbReports, LastSaid
  <2>8. SameSound'
    BY <1>1, <2>4, <2>6 DEF SameSound, AudioIn
  <2>9. QED
    BY <2>7, <2>8
<1>4. QED
  BY <1>2, <1>3

LEMMA SilenceKeepsSound ==
  ASSUME SameSound, SimSilent, EmbSilent
  PROVE  SameSound'
BY DEF SameSound, SimSilent, EmbSilent, AudioIn

LEMMA EventStep ==
  ASSUME EventInv, [Next]_vars
  PROVE  EventInv'
<1>1. HistoryInv' /\ EmbInv'
  BY HistoryStep, EmbStep DEF EventInv
<1>2. HistoryInv /\ EmbInv /\ SimReports /\ EmbReports /\ SameSound /\ engine \in EngineRec
  BY DEF EventInv, HistoryInv
<1>3. ASSUME UNCHANGED simVars
      PROVE  SimReports' /\ SimSilent
  BY <1>2, <1>3 DEF simVars, SimReports, SimSilent, AudioIn
<1>4. ASSUME UNCHANGED <<shared, webview>>
      PROVE  EmbReports' /\ EmbSilent
  BY <1>2, <1>4, ReportKeeps
<1>5. SUFFICES ASSUME ~SetMuted
               PROVE  SimReports' /\ EmbReports' /\ SimSilent /\ EmbSilent
  <2>1. CASE SetMuted
    BY <1>1, <1>2, <2>1, ReportMuted DEF SetMuted, EventInv
  <2>2. QED
    BY <1>1, <1>2, <2>1, SilenceKeepsSound DEF EventInv
<1>6. CASE Navigate
  <2>1. PICK u \in Url : SimNavigate(u) /\ EmbNavigate(u)
    BY <1>6 DEF Navigate
  <2>2. SimReports' /\ SimSilent
    BY <1>2, <2>1, ReportBegins DEF SimNavigate
  <2>3. QED
    BY <1>4, <2>1, <2>2 DEF EmbNavigate
<1>7. CASE GoBack \/ GoForward \/ Reload
  <2>1. SimReports' /\ SimSilent
    BY <1>2, <1>7, ReportMoves DEF GoBack, GoForward, Reload
  <2>2. UNCHANGED <<shared, webview>>
    BY <1>7 DEF GoBack, GoForward, Reload, EmbSend
  <2>3. QED
    BY <1>4, <2>1, <2>2
<1>8. CASE Stop \/ Suspend
  <2>1. SimReports' /\ SimSilent
    BY <1>2, <1>8, ReportStops DEF Stop, Suspend
  <2>2. UNCHANGED <<shared, webview>>
    BY <1>8 DEF Stop, Suspend, EmbStop, EmbSuspend
  <2>3. QED
    BY <1>4, <2>1, <2>2
<1>9. CASE ApplyBlocking \/ Frame \/ Drop \/ Join
  <2>1. UNCHANGED simVars /\ UNCHANGED <<shared, webview>>
    BY <1>9 DEF ApplyBlocking, EmbApplyBlocking, Frame, AskFrame, FrameTimesOut, Drop, DropEngine,
                Join, Joined
  <2>2. QED
    BY <1>3, <1>4, <2>1
<1>10. CASE Resume
  <2>1. PICK u \in Url : SimResume(u) /\ EmbResume(u)
    BY <1>10 DEF Resume
  <2>2. SimReports' /\ SimSilent
    BY <1>2, <2>1, ReportBegins DEF SimResume
  <2>3. QED
    BY <1>4, <2>1, <2>2 DEF EmbResume
<1>11. CASE SimPump
  <2>1. SimReports' /\ SimSilent
    BY <1>2, <1>11, ReportPumps DEF SimPump
  <2>2. QED
    BY <1>4, <1>11, <2>1 DEF SimPump, embVars
<1>12. CASE ThreadStep
  <2>1. SimReports' /\ SimSilent
    BY <1>3, <1>12 DEF ThreadStep
  <2>2. EmbReports' /\ EmbSilent
    <3>1. CASE HandleCommand
      <4>1. UNCHANGED shared
        BY <3>1 DEF HandleCommand
      <4>2. QED
        BY <1>2, <3>1, <4>1, EmbTakes, ReportKeeps
    <3>2. QED
      BY <1>2, <1>12, <3>1, ReportSpins, ReportThreadStarts DEF ThreadStep
  <2>3. QED
    BY <2>1, <2>2
<1>13. CASE UNCHANGED vars
  BY <1>3, <1>4, <1>13 DEF vars, embVars
<1>14. QED
  BY <1>5, <1>6, <1>7, <1>8, <1>9, <1>10, <1>11, <1>12, <1>13 DEF Next

\* Either backend reports loads by the contract of the trait, and both the same changes
\* of the sound, for any pages and any number of calls; and every variable keeps its type.
THEOREM ContractHolds == Spec => []EventContract
<1>1. Init => EventInv
  BY EventStarts
<1>2. EventInv /\ [Next]_vars => EventInv'
  BY EventStep
<1>3. EventInv => EventContract
  <2> SUFFICES ASSUME EventInv
               PROVE  EventContract
    OBVIOUS
  <2>1. SimTypeOK
    <3>1. trail.cursor \in Nat /\ trail.cursor <= Len(trail.entries) /\ Len(trail.entries) \in Nat
      BY LenProperties DEF EventInv, HistoryInv, TrailRec, CursorIsInside
    <3>2. trail.cursor \in 0 .. Len(trail.entries)
      BY <3>1, SMT
    <3>3. QED
      BY <3>2 DEF EventInv, HistoryInv, EngineRec, TrailRec, SimTypeOK
  <2>2. EmbTypeOK
    BY DEF EventInv, EmbInv, HandleRec, EmbTypeOK
  <2>3. QED
    BY <2>1, <2>2 DEF EventContract, TypeOK, EventInv, SimReports, EmbReports, SameSound, Contract
<1>4. QED
  BY <1>1, <1>2, <1>3, PTL DEF Spec

===============================================================================
