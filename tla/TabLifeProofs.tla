---------------------------- MODULE TabLifeProofs ----------------------------
(***************************************************************************)
(* For any tabs, any number of tabs kept alive, and any order of loads,    *)
(* posts, snapshots and window updates: the tab manager and the media      *)
(* tracker agree, and suspension spares the tabs that are in use.          *)
(***************************************************************************)
EXTENDS TabLife, SequencesExt, SequenceTheorems, FiniteSetTheorems, TLAPS

(***************************************************************************)
(* What the list operations of the community modules do to the length, the *)
(* elements and the injectivity of a list                                  *)
(***************************************************************************)

\* An element of a list is at one of its positions.
LEMMA RangeIndex ==
  ASSUME NEW S, NEW s \in Seq(S), NEW x
  PROVE  x \in ToSet(s) <=> \E i \in 1 .. Len(s) : s[i] = x
BY SMT DEF ToSet

\* Length and elements of a contiguous part of a list.
LEMMA SubSeqElements ==
  ASSUME NEW S, NEW s \in Seq(S), NEW m \in 1 .. Len(s) + 1, NEW n \in 0 .. Len(s)
  PROVE  /\ SubSeq(s, m, n) \in Seq(S)
         /\ Len(SubSeq(s, m, n)) = IF m <= n THEN n - m + 1 ELSE 0
         /\ \A i \in 1 .. Len(SubSeq(s, m, n)) : SubSeq(s, m, n)[i] = s[m + i - 1]
<1>1. \A i \in m .. n : s[i] \in S
  BY SMT
<1>2. /\ SubSeq(s, m, n) \in Seq(S)
      /\ Len(SubSeq(s, m, n)) = IF m <= n THEN n - m + 1 ELSE 0
      /\ \A i \in 1 .. n - m + 1 : SubSeq(s, m, n)[i] = s[m + i - 1]
  <2>1. m \in Int /\ n \in Int
    BY SMT
  <2>2. QED
    BY <1>1, <2>1, SubSeqProperties
<1>3. QED
  BY <1>2, SMT

\* Length and elements of two lists in a row.
LEMMA ConcatElements ==
  ASSUME NEW S, NEW s \in Seq(S), NEW t \in Seq(S)
  PROVE  /\ s \o t \in Seq(S)
         /\ Len(s \o t) = Len(s) + Len(t)
         /\ \A i \in 1 .. Len(s) + Len(t) :
              (s \o t)[i] = IF i <= Len(s) THEN s[i] ELSE t[i - Len(s)]
BY ConcatProperties, SMT

\* Vec::remove: the elements behind the position move up.
LEMMA RemoveAtElements ==
  ASSUME NEW S, NEW s \in Seq(S), NEW i \in 1 .. Len(s)
  PROVE  /\ RemoveAt(s, i) \in Seq(S)
         /\ Len(RemoveAt(s, i)) = Len(s) - 1
         /\ \A j \in 1 .. Len(s) - 1 :
              RemoveAt(s, i)[j] = IF j < i THEN s[j] ELSE s[j + 1]
<1> DEFINE a == SubSeq(s, 1, i - 1)
           b == SubSeq(s, i + 1, Len(s))
<1>1. /\ a \in Seq(S) /\ Len(a) = i - 1
      /\ \A j \in 1 .. i - 1 : a[j] = s[j]
  <2>1. 1 \in 1 .. Len(s) + 1 /\ i - 1 \in 0 .. Len(s)
    BY SMT
  <2>2. /\ a \in Seq(S) /\ Len(a) = IF 1 <= i - 1 THEN i - 1 - 1 + 1 ELSE 0
        /\ \A j \in 1 .. Len(a) : a[j] = s[1 + j - 1]
    BY <2>1, SubSeqElements
  <2>3. QED
    BY <2>2, SMT
<1>2. /\ b \in Seq(S) /\ Len(b) = Len(s) - i
      /\ \A j \in 1 .. Len(s) - i : b[j] = s[i + j]
  <2>1. i + 1 \in 1 .. Len(s) + 1 /\ Len(s) \in 0 .. Len(s)
    BY SMT
  <2>2. /\ b \in Seq(S) /\ Len(b) = IF i + 1 <= Len(s) THEN Len(s) - (i + 1) + 1 ELSE 0
        /\ \A j \in 1 .. Len(b) : b[j] = s[(i + 1) + j - 1]
    BY <2>1, SubSeqElements
  <2>3. QED
    BY <2>2, SMT
<1>3. /\ a \o b \in Seq(S)
      /\ Len(a \o b) = Len(a) + Len(b)
      /\ \A j \in 1 .. Len(a) + Len(b) :
           (a \o b)[j] = IF j <= Len(a) THEN a[j] ELSE b[j - Len(a)]
  BY <1>1, <1>2, ConcatElements
<1>4. RemoveAt(s, i) = a \o b
  BY DEF RemoveAt
<1> DEFINE r == a \o b
<1>5. /\ r \in Seq(S) /\ Len(r) = Len(s) - 1
      /\ \A j \in 1 .. Len(s) - 1 : r[j] = IF j <= i - 1 THEN a[j] ELSE b[j - (i - 1)]
  <2> HIDE DEF a, b, r
  <2>1. /\ r \in Seq(S)
        /\ Len(r) = Len(a) + Len(b)
        /\ \A j \in 1 .. Len(a) + Len(b) : r[j] = IF j <= Len(a) THEN a[j] ELSE b[j - Len(a)]
    BY <1>3 DEF r
  <2>2. Len(a) = i - 1 /\ Len(a) + Len(b) = Len(s) - 1
    <3>1. Len(a) = i - 1 /\ Len(b) = Len(s) - i /\ Len(s) \in Nat
      BY <1>1, <1>2, LenProperties
    <3>2. QED
      BY <3>1, SMT
  <2>3. QED
    BY <2>1, <2>2
<1>6. RemoveAt(s, i) = r
  BY <1>4
<1> HIDE DEF a, b, r
<1>7. \A j \in 1 .. Len(s) - 1 : r[j] = IF j < i THEN s[j] ELSE s[j + 1]
  <2>1. TAKE j \in 1 .. Len(s) - 1
  <2>2. r[j] = IF j <= i - 1 THEN a[j] ELSE b[j - (i - 1)]
    BY <1>5
  <2>3. CASE j < i
    <3>1. j <= i - 1 /\ j \in 1 .. i - 1
      BY <2>3, SMT
    <3>2. QED
      BY <1>1, <2>2, <2>3, <3>1
  <2>4. CASE ~(j < i)
    <3>1. ~(j <= i - 1) /\ j - (i - 1) \in 1 .. Len(s) - i /\ i + (j - (i - 1)) = j + 1
      BY <2>4, SMT
    <3>2. QED
      BY <1>2, <2>2, <2>4, <3>1
  <2>5. QED
    BY <2>3, <2>4
<1>8. QED
  BY <1>5, <1>6, <1>7

\* A list without the one place that held x holds exactly the other elements.
LEMMA RemoveAtRange ==
  ASSUME NEW S, NEW s \in Seq(S), IsInjective(s), NEW i \in 1 .. Len(s)
  PROVE  /\ ToSet(RemoveAt(s, i)) = ToSet(s) \ {s[i]}
         /\ IsInjective(RemoveAt(s, i))
<1> DEFINE r == RemoveAt(s, i)
<1>1. /\ r \in Seq(S)
      /\ Len(r) = Len(s) - 1
      /\ \A j \in 1 .. Len(s) - 1 : r[j] = IF j < i THEN s[j] ELSE s[j + 1]
  BY RemoveAtElements
<1> HIDE DEF r
<1>2. \A j, k \in 1 .. Len(s) : s[j] = s[k] => j = k
  BY SMT DEF IsInjective
<1>3. IsInjective(r)
  BY <1>1, <1>2, SMT DEF IsInjective
<1>4. \A x : x \in ToSet(r) <=> x \in ToSet(s) /\ x # s[i]
  <2>1. SUFFICES ASSUME NEW x
                 PROVE  x \in ToSet(r) <=> x \in ToSet(s) /\ x # s[i]
    OBVIOUS
  <2>2. x \in ToSet(r) <=> \E j \in 1 .. Len(r) : r[j] = x
    BY <1>1, RangeIndex
  <2>3. x \in ToSet(s) <=> \E j \in 1 .. Len(s) : s[j] = x
    BY RangeIndex
  <2>4. ASSUME NEW j \in 1 .. Len(r), r[j] = x
        PROVE  x \in ToSet(s) /\ x # s[i]
    BY <1>1, <1>2, <2>3, <2>4, SMT
  <2>5. ASSUME NEW j \in 1 .. Len(s), s[j] = x, x # s[i]
        PROVE  \E k \in 1 .. Len(r) : r[k] = x
    <3>1. CASE j < i
      <4>1. j \in 1 .. Len(r) /\ r[j] = x
        BY <1>1, <2>5, <3>1, SMT
      <4>2. QED
        BY <4>1
    <3>2. CASE j > i
      <4>1. j - 1 \in 1 .. Len(r) /\ r[j - 1] = x
        BY <1>1, <2>5, <3>2, SMT
      <4>2. QED
        BY <4>1
    <3>3. QED
      BY <2>5, <3>1, <3>2, SMT
  <2>6. QED
    BY <2>2, <2>3, <2>4, <2>5
<1>5. QED
  BY <1>3, <1>4 DEF r

\* A list with an element it did not hold appended stays injective.
LEMMA AppendRange ==
  ASSUME NEW S, NEW s \in Seq(S), NEW e \in S
  PROVE  /\ Append(s, e) \in Seq(S)
         /\ Len(Append(s, e)) = Len(s) + 1
         /\ ToSet(Append(s, e)) = ToSet(s) \cup {e}
         /\ IsInjective(s) /\ e \notin ToSet(s) => IsInjective(Append(s, e))
<1> DEFINE r == Append(s, e)
<1>1. /\ r \in Seq(S) /\ Len(r) = Len(s) + 1
      /\ \A j \in 1 .. Len(s) : r[j] = s[j]
      /\ r[Len(s) + 1] = e
  BY AppendProperties
<1> HIDE DEF r
<1>2. \A x : x \in ToSet(r) <=> \E j \in 1 .. Len(r) : r[j] = x
  BY <1>1, RangeIndex
<1>3. \A x : x \in ToSet(s) <=> \E j \in 1 .. Len(s) : s[j] = x
  BY RangeIndex
<1>4. \A x : x \in ToSet(r) <=> x \in ToSet(s) \/ x = e
  BY <1>1, <1>2, <1>3, SMT
<1>5. ASSUME IsInjective(s), e \notin ToSet(s)
      PROVE  IsInjective(r)
  BY <1>1, <1>3, <1>5, SMT DEF IsInjective
<1>6. QED
  BY <1>1, <1>4, <1>5 DEF r

-----------------------------------------------------------------------------

\* The last of the messages on their way says what the page does now.
PostsEndInPresent ==
  \A t \in DOMAIN views :
    views[t].posts # <<>> => views[t].posts[Len(views[t].posts)] = views[t].playing

\* A page that plays and has nothing left to say has been heard.
PlayersHeard ==
  \A t \in DOMAIN views \cap DOMAIN tabs :
    (views[t].playing /\ views[t].posts = <<>>) => SessionOf(t).playing

\* Only a view that is torn down leaves last words, so a tab has one voice.
OneVoice == lastWords # <<>> => front \in Tab \ DOMAIN views

Inv == AudioAgrees /\ PostsEndInPresent /\ PlayersHeard /\ OneVoice /\ shown.active \in Tab

-----------------------------------------------------------------------------
(***************************************************************************)
(* Lists and maps                                                          *)
(***************************************************************************)

\* remove: the one place that held the element is gone.
LEMMA RemoveFirstRange ==
  ASSUME NEW S, NEW list \in Seq(S), IsInjective(list), NEW x
  PROVE  /\ RemoveFirst(list, x) \in Seq(S)
         /\ ToSet(RemoveFirst(list, x)) = ToSet(list) \ {x}
         /\ IsInjective(RemoveFirst(list, x))
<1>1. CASE \E i \in 1 .. Len(list) : list[i] = x
  <2>1. PICK i \in 1 .. Len(list) : list[i] = x
    BY <1>1
  <2>2. {j \in 1 .. Len(list) : list[j] = x} = {i}
    BY <2>1 DEF IsInjective
  <2>3. SelectInSeq(list, LAMBDA v : v = x) = i
    BY <2>2 DEF SelectInSeq, Min
  <2>4. RemoveFirst(list, x) = RemoveAt(list, i)
    BY <1>1, <2>3 DEF RemoveFirst
  <2> QED BY <2>1, <2>4, RemoveAtRange, RemoveAtElements
<1>2. CASE ~\E i \in 1 .. Len(list) : list[i] = x
  <2>1. RemoveFirst(list, x) = list
    BY <1>2 DEF RemoveFirst
  <2>2. x \notin ToSet(list)
    BY <1>2, RangeIndex
  <2> QED BY <2>1, <2>2
<1> QED BY <1>1, <1>2

\* touch: the element is the last of the list, once.
LEMMA TouchRange ==
  ASSUME NEW S, NEW list \in Seq(S), IsInjective(list), NEW x \in S
  PROVE  /\ Touch(list, x) \in Seq(S)
         /\ ToSet(Touch(list, x)) = ToSet(list) \cup {x}
         /\ IsInjective(Touch(list, x))
<1> DEFINE rest == RemoveFirst(list, x)
<1>1. rest \in Seq(S) /\ ToSet(rest) = ToSet(list) \ {x} /\ IsInjective(rest)
  BY RemoveFirstRange
<1> HIDE DEF rest
<1>2. /\ Append(rest, x) \in Seq(S) /\ ToSet(Append(rest, x)) = ToSet(rest) \cup {x}
      /\ IsInjective(Append(rest, x))
  BY <1>1, AppendRange
<1>3. Touch(list, x) = Append(rest, x)
  BY DEF Touch, rest
<1> QED BY <1>1, <1>2, <1>3

\* A list made of a finite set holds each of its elements once.
LEMMA SetToSeqRange ==
  ASSUME NEW S, IsFiniteSet(S)
  PROVE  SetToSeq(S) \in Seq(S) /\ ToSet(SetToSeq(S)) = S /\ IsInjective(SetToSeq(S))
<1> DEFINE n == Cardinality(S)
           f == SetToSeq(S)
<1>1. n \in Nat /\ ExistsBijection(1 .. n, S)
  BY FS_CardinalityType
<1>2. \E g \in [1 .. n -> S] : IsInjective(g)
  BY <1>1 DEF ExistsBijection, Bijection, Injection, IsInjective
<1>3. f \in [1 .. n -> S] /\ IsInjective(f)
  BY <1>2 DEF SetToSeq
<1> HIDE DEF f, n
<1>4. f \in Injection(1 .. n, S)
  BY <1>3 DEF Injection, IsInjective
<1>5. Cardinality(1 .. n) = n
  BY <1>1, FS_Interval
<1>6. f \in Surjection(1 .. n, S)
  BY <1>4, <1>5, FS_Injection DEF n
<1>7. f \in Seq(S) /\ Len(f) = n
  BY <1>1, <1>3
<1>8. ToSet(f) = S
  <2>1. \A x \in S : \E i \in 1 .. n : f[i] = x
    BY <1>6 DEF Surjection
  <2>2. \A x : x \in ToSet(f) <=> \E i \in 1 .. n : f[i] = x
    BY <1>7, RangeIndex
  <2> QED BY <1>3, <2>1, <2>2
<1> QED BY <1>3, <1>7, <1>8 DEF f

\* The last element after an append and after the first has gone.
LEMMA LastElement ==
  ASSUME NEW S, NEW s \in Seq(S), NEW e \in S
  PROVE  /\ Append(s, e) \in Seq(S) /\ Append(s, e) # <<>>
         /\ Append(s, e)[Len(Append(s, e))] = e
         /\ s # <<>> =>
              /\ Head(s) \in S /\ Tail(s) \in Seq(S)
              /\ Tail(s) # <<>> => Tail(s)[Len(Tail(s))] = s[Len(s)]
              /\ Tail(s) = <<>> => Head(s) = s[Len(s)]
<1>1. /\ Append(s, e) \in Seq(S) /\ Append(s, e) # <<>>
      /\ Append(s, e)[Len(Append(s, e))] = e
  OBVIOUS
<1>2. ASSUME s # <<>>
      PROVE  /\ Head(s) \in S /\ Tail(s) \in Seq(S)
             /\ Tail(s) # <<>> => Tail(s)[Len(Tail(s))] = s[Len(s)]
             /\ Tail(s) = <<>> => Head(s) = s[Len(s)]
  <2>1. /\ Head(s) \in S /\ Head(s) = s[1]
        /\ Tail(s) \in Seq(S) /\ Len(Tail(s)) = Len(s) - 1
        /\ \A i \in 1 .. Len(Tail(s)) : Tail(s)[i] = s[i + 1]
    BY <1>2, HeadTailProperties
  <2>2. Len(s) \in Nat \ {0} /\ (Tail(s) = <<>> <=> Len(Tail(s)) = 0)
    BY <1>2, <2>1, EmptySeq
  <2> QED BY <2>1, <2>2
<1> QED BY <1>1, <1>2

LEMMA EmptyList ==
  ASSUME NEW S
  PROVE  <<>> \in Seq(S)
  OBVIOUS

\* A view after an assignment to some of its fields.
LEMMA FieldUpdate ==
  ASSUME NEW L, NEW B, NEW P, NEW v \in [loads : L, muted : B, playing : B, posts : P],
         NEW m \in B, NEW b \in B, NEW p \in P, NEW w
  PROVE  /\ w = [v EXCEPT !.playing = b, !.posts = p] =>
              /\ w \in [loads : L, muted : B, playing : B, posts : P]
              /\ w.playing = b /\ w.posts = p
         /\ w = [v EXCEPT !.muted = m, !.playing = b, !.posts = p] =>
              /\ w \in [loads : L, muted : B, playing : B, posts : P]
              /\ w.playing = b /\ w.posts = p
  OBVIOUS

LEMMA MutedField ==
  ASSUME NEW L, NEW B, NEW P, NEW v \in [loads : L, muted : B, playing : B, posts : P],
         NEW m \in B, NEW w, w = [v EXCEPT !.muted = m]
  PROVE  /\ w \in [loads : L, muted : B, playing : B, posts : P]
         /\ w.playing = v.playing /\ w.posts = v.posts
  OBVIOUS

LEMMA MutedView ==
  ASSUME NEW v \in View, NEW m \in BOOLEAN,
         NEW w, w = [v EXCEPT !.muted = m]
  PROVE  w \in View /\ w.playing = v.playing /\ w.posts = v.posts
<1> DEFINE P == Seq(BOOLEAN)
           B == BOOLEAN
           L == 0 .. MaxLoads
<1>1. View = [loads : L, muted : B, playing : B, posts : P]
  BY DEF View
<1>2. m \in B
  OBVIOUS
<1> HIDE DEF P, B, L
<1> QED BY <1>1, <1>2, MutedField

LEMMA SwitchedView ==
  ASSUME NEW v \in View
  PROVE  /\ SwitchPlayer(v) \in View
         /\ SwitchPlayer(v).posts # <<>>
         /\ SwitchPlayer(v).posts[Len(SwitchPlayer(v).posts)] = SwitchPlayer(v).playing
<1> DEFINE P == Seq(BOOLEAN)
           B == BOOLEAN
           L == 0 .. MaxLoads
           w == SwitchPlayer(v)
           b == ~v.playing
           p == Append(v.posts, b)
<1>1. View = [loads : L, muted : B, playing : B, posts : P]
  BY DEF View
<1>2. b \in B /\ v.posts \in Seq(B) /\ P = Seq(B)
  BY DEF View
<1>3. w = [v EXCEPT !.playing = b, !.posts = p]
  BY Zenon DEF SwitchPlayer
<1> HIDE DEF P, B, w, b
<1>4. p \in P /\ p # <<>> /\ p[Len(p)] = b
  BY <1>2, LastElement
<1> HIDE DEF L, p
<1>5. w \in View /\ w.playing = b /\ w.posts = p
  BY <1>1, <1>2, <1>3, <1>4, FieldUpdate
<1> QED BY <1>4, <1>5 DEF w

LEMMA ReplacedView ==
  ASSUME NEW v \in View, NEW p \in Seq(BOOLEAN), p = IF v.playing THEN Append(v.posts, FALSE) ELSE v.posts
  PROVE  Replaced(v) \in View /\ Replaced(v).playing = FALSE /\ Replaced(v).posts = p
<1> DEFINE P == Seq(BOOLEAN)
           B == BOOLEAN
           L == 0 .. MaxLoads
           w == Replaced(v)
           b == FALSE
<1>1. View = [loads : L, muted : B, playing : B, posts : P]
  BY DEF View
<1>2. b \in B /\ p \in P
  OBVIOUS
<1>3. w = [v EXCEPT !.muted = b, !.playing = b, !.posts = p]
  BY DEF Replaced
<1> HIDE DEF P, B, L, w, b
<1>4. w \in View /\ w.playing = b /\ w.posts = p
  BY <1>1, <1>2, <1>3, FieldUpdate
<1> QED BY <1>4 DEF w, b

\* transition changes a state and nothing else.
LEMMA SetStateFacts ==
  ASSUME NEW map, NEW T, NEW state \in {"active", "loading", "suspended"},
         \A t \in DOMAIN map : map[t] \in TabRecord
  PROVE  /\ DOMAIN SetState(map, T, state) = DOMAIN map
         /\ \A t \in DOMAIN map :
              /\ SetState(map, T, state)[t] \in TabRecord
              /\ SetState(map, T, state)[t].audio = map[t].audio
              /\ t \notin T => SetState(map, T, state)[t] = map[t]
              /\ t \in T => SetState(map, T, state)[t].state = state
  BY DEF SetState, TabRecord

\* Who is suspended was in the background, alive, unpinned and not audible.
LEMMA CandidateFacts ==
  ASSUME NEW map, NEW focus, NEW order, NEW t \in Candidates(map, focus, order)
  PROVE  t \in DOMAIN map /\ ~map[t].pinned /\ map[t].audio # "audible" /\ t # focus
  BY DEF Candidates, LeastRecent

\* The order of activation
LEMMA RecencyFacts ==
  ASSUME Inv
  PROVE  /\ recency \in Seq(Tab) /\ IsInjective(recency) /\ ToSet(recency) = DOMAIN tabs
         /\ active \in DOMAIN tabs /\ DOMAIN tabs \subseteq Tab
         /\ \A t \in Tab : /\ Touch(recency, t) \in Seq(Tab)
                          /\ ToSet(Touch(recency, t)) = DOMAIN tabs \cup {t}
                          /\ IsInjective(Touch(recency, t))
<1>1. /\ recency \in Seq(Tab) /\ IsInjective(recency) /\ ToSet(recency) = DOMAIN tabs
      /\ active \in DOMAIN tabs /\ DOMAIN tabs \subseteq Tab
  BY DEF Inv, AudioAgrees, TypeOK
<1>2. ASSUME NEW t \in Tab
      PROVE  /\ Touch(recency, t) \in Seq(Tab)
             /\ ToSet(Touch(recency, t)) = ToSet(recency) \cup {t}
             /\ IsInjective(Touch(recency, t))
  BY <1>1, TouchRange
<1> QED BY <1>1, <1>2

LEMMA SessionFacts ==
  ASSUME TypeOK, NEW t
  PROVE  SessionOf(t) \in Session
  BY DEF TypeOK, SessionOf, Session

LEMMA InitInv == Init => Inv
<1> SUFFICES ASSUME Init PROVE Inv
  OBVIOUS
<1>1. PICK open \in SUBSET Tab \ {{}}, page \in BOOLEAN :
        /\ active \in open
        /\ tabs = [t \in open |-> [NewTab(t = active /\ ~page) EXCEPT !.state = "suspended"]]
        /\ recency = Append(SetToSeq(open \ {active}), active)
        /\ sessions = <<>> /\ shown = Snapshot(tabs, active) /\ stale = TRUE
        /\ views = <<>> /\ front = NoTab /\ lastWords = <<>>
  BY DEF Init
<1>2. DOMAIN tabs = open /\ active \in Tab /\ DOMAIN sessions = {} /\ DOMAIN views = {}
  BY <1>1
<1>3. \A t \in DOMAIN tabs : tabs[t] \in TabRecord /\ tabs[t].audio = "silent"
  BY <1>1 DEF NewTab, TabRecord
<1>4. recency \in Seq(Tab) /\ ToSet(recency) = open /\ IsInjective(recency)
  <2> DEFINE rest == SetToSeq(open \ {active})
  <2>1. IsFiniteSet(open \ {active})
    BY TabIsFinite, FS_Subset
  <2>2. rest \in Seq(open \ {active}) /\ ToSet(rest) = open \ {active} /\ IsInjective(rest)
    BY <2>1, SetToSeqRange
  <2> HIDE DEF rest
  <2>3. rest \in Seq(Tab)
    BY <2>2
  <2>4. /\ Append(rest, active) \in Seq(Tab)
        /\ ToSet(Append(rest, active)) = ToSet(rest) \cup {active}
        /\ IsInjective(Append(rest, active))
    BY <1>2, <2>2, <2>3, AppendRange
  <2> QED BY <1>1, <2>2, <2>4 DEF rest
<1>5. TypeOK
  BY <1>1, <1>2, <1>3, <1>4 DEF TypeOK
<1>6. \A t \in DOMAIN tabs : tabs[t].audio = Effective(SessionOf(t))
  BY <1>2, <1>3 DEF Effective, SessionOf
<1> QED BY <1>1, <1>2, <1>5, <1>6
        DEF Inv, AudioAgrees, PostsEndInPresent, PlayersHeard, OneVoice, Snapshot
-----------------------------------------------------------------------------
(***************************************************************************)
(* The user                                                                *)
(***************************************************************************)

\* What a call of the core with its refresh at the end leaves alone.
CoreCall ==
  /\ UNCHANGED <<views, front, lastWords>>
  /\ shown' = Snapshot(tabs', active') /\ stale' \in BOOLEAN

\* The tabs of `map`, each as it is or suspended
Lulled(map) ==
  /\ DOMAIN tabs' = DOMAIN map
  /\ \A t \in DOMAIN map : tabs'[t] \in TabRecord /\ tabs'[t].audio = map[t].audio

LEMMA SuspendFacts ==
  ASSUME TypeOK, NEW map, NEW queued, RefreshAndSuspend(map, queued),
         UNCHANGED <<views, front, lastWords>>,
         \A t \in DOMAIN map : map[t] \in TabRecord
  PROVE  CoreCall /\ Lulled(map)
<1>1. CoreCall
  BY DEF RefreshAndSuspend, Refresh, CoreCall, TypeOK
<1>2. tabs' = map \/ tabs' = SetState(map, Candidates(map, active', recency'), "suspended")
  BY DEF RefreshAndSuspend
<1> QED BY <1>1, <1>2, SetStateFacts DEF Lulled

\* A call keeps the invariant when what is new about the tabs is: a tab without a
\* session and without a view; a tab less.
LEMMA CoreCallInv ==
  ASSUME Inv, CoreCall,
         DOMAIN tabs' \subseteq Tab, active' \in DOMAIN tabs',
         \A t \in DOMAIN tabs' : tabs'[t] \in TabRecord,
         recency' \in Seq(Tab), ToSet(recency') = DOMAIN tabs', IsInjective(recency'),
         DOMAIN sessions' \subseteq Tab, \A t \in DOMAIN sessions' : sessions'[t] \in Session,
         \A t \in DOMAIN tabs' : tabs'[t].audio = Effective(SessionOf(t)'),
         \A t \in DOMAIN tabs' : t \in DOMAIN tabs \/ t \notin DOMAIN views,
         \A t \in DOMAIN tabs \cap DOMAIN tabs' : SessionOf(t)'.playing = SessionOf(t).playing
  PROVE  Inv'
<1>1. TypeOK'
  BY DEF Inv, AudioAgrees, TypeOK, CoreCall
<1>2. AudioAgrees'
  BY <1>1 DEF AudioAgrees
<1>3. PlayersHeard'
  BY DEF Inv, PlayersHeard, CoreCall
<1>4. PostsEndInPresent' /\ OneVoice' /\ (shown.active \in Tab)'
  BY DEF Inv, PostsEndInPresent, OneVoice, CoreCall, Snapshot
<1> QED BY <1>2, <1>3, <1>4 DEF Inv

LEMMA ActivateTabInv ==
  ASSUME Inv, NEW t \in Tab, ActivateTab(t)
  PROVE  Inv'
<1>1. UNCHANGED sessions /\ active' = t /\ t \in DOMAIN tabs /\ recency' = Touch(recency, t)
  BY DEF ActivateTab
<1>2. CoreCall /\ Lulled(tabs)
  BY SuspendFacts DEF Inv, AudioAgrees, TypeOK, ActivateTab
<1>3. recency' \in Seq(Tab) /\ ToSet(recency') = DOMAIN tabs /\ IsInjective(recency')
  BY <1>1, RecencyFacts
<1>4. \A u \in Tab : SessionOf(u)' = SessionOf(u)
  BY <1>1 DEF SessionOf
<1> QED BY <1>1, <1>2, <1>3, <1>4, CoreCallInv DEF Inv, AudioAgrees, TypeOK, Lulled

\* A tab that is new has no session and no view.
LEMMA NewTabInv ==
  ASSUME Inv, NEW t \in Fresh, NEW isEmpty \in BOOLEAN, NEW queued,
         RefreshAndSuspend(Put(tabs, t, NewTab(isEmpty)), queued),
         UNCHANGED <<sessions, views, front, lastWords>>,
         active' \in {active, t},
         recency' \in Seq(Tab), ToSet(recency') = DOMAIN tabs \cup {t}, IsInjective(recency')
  PROVE  Inv'
<1> DEFINE map == Put(tabs, t, NewTab(isEmpty))
<1>1. t \in Tab /\ t \notin DOMAIN tabs /\ t \notin DOMAIN sessions /\ t \notin DOMAIN views
  BY DEF Fresh
<1>2. NewTab(isEmpty) \in TabRecord /\ NewTab(isEmpty).audio = "silent"
  BY DEF NewTab, TabRecord
<1>3. /\ DOMAIN map = DOMAIN tabs \cup {t}
      /\ map[t] = NewTab(isEmpty)
      /\ \A u \in DOMAIN tabs : map[u] = tabs[u]
  BY <1>1 DEF Put
<1> HIDE DEF map
<1>4. \A u \in DOMAIN map : map[u] \in TabRecord
  BY <1>2, <1>3 DEF Inv, AudioAgrees, TypeOK
<1>5. CoreCall /\ Lulled(map)
  BY <1>4, SuspendFacts DEF Inv, AudioAgrees, map
<1>6. \A u \in Tab : SessionOf(u)' = SessionOf(u)
  BY DEF SessionOf
<1>7. Effective(SessionOf(t)) = "silent"
  BY <1>1 DEF Effective, SessionOf
<1>8. \A u \in DOMAIN tabs' : tabs'[u].audio = Effective(SessionOf(u)')
  BY <1>1, <1>2, <1>3, <1>5, <1>6, <1>7 DEF Inv, AudioAgrees, TypeOK, Lulled
<1> QED BY <1>1, <1>3, <1>5, <1>6, <1>8, CoreCallInv DEF Inv, AudioAgrees, TypeOK, Lulled

LEMMA CreateTabInv ==
  ASSUME Inv, NEW t \in Tab, CreateTab(t)
  PROVE  Inv'
<1>1. PICK isEmpty \in BOOLEAN : RefreshAndSuspend(Put(tabs, t, NewTab(isEmpty)), <<Batch>>)
  BY DEF CreateTab
<1>2. recency' \in Seq(Tab) /\ ToSet(recency') = DOMAIN tabs \cup {t} /\ IsInjective(recency')
  BY RecencyFacts DEF CreateTab
<1> QED BY <1>1, <1>2, NewTabInv DEF CreateTab

LEMMA CreateBackgroundTabInv ==
  ASSUME Inv, NEW t \in Tab, CreateBackgroundTab(t)
  PROVE  Inv'
<1>1. t \in Fresh /\ t \notin DOMAIN tabs /\ active \in DOMAIN tabs /\ active \in Tab
  BY DEF CreateBackgroundTab, Fresh, Inv, AudioAgrees, TypeOK
<1>2. /\ Append(recency, t) \in Seq(Tab) /\ ToSet(Append(recency, t)) = DOMAIN tabs \cup {t}
      /\ IsInjective(Append(recency, t))
  BY <1>1, AppendRange DEF Inv, AudioAgrees, TypeOK
<1>3. recency' \in Seq(Tab) /\ ToSet(recency') = DOMAIN tabs \cup {t} /\ IsInjective(recency')
  <2> DEFINE longer == Append(recency, t)
  <2>1. longer \in Seq(Tab) /\ IsInjective(longer) /\ ToSet(longer) = DOMAIN tabs \cup {t}
    BY <1>2
  <2> HIDE DEF longer
  <2>2. /\ Touch(longer, active) \in Seq(Tab)
        /\ ToSet(Touch(longer, active)) = ToSet(longer) \cup {active}
        /\ IsInjective(Touch(longer, active))
    BY <1>1, <2>1, TouchRange
  <2>3. recency' = Touch(longer, active)
    BY DEF CreateBackgroundTab, longer
  <2> QED BY <1>1, <2>1, <2>2, <2>3
<1> QED BY <1>1, <1>3, NewTabInv DEF CreateBackgroundTab

\* A tab that closes takes its session along, and nobody else's.
LEMMA CloseTabInv ==
  ASSUME Inv, NEW t \in Tab, CloseTab(t)
  PROVE  Inv'
<1>1. /\ DOMAIN tabs' = DOMAIN tabs \ {t} /\ \A u \in DOMAIN tabs' : tabs'[u] = tabs[u]
      /\ DOMAIN sessions' = DOMAIN sessions \ {t}
      /\ \A u \in DOMAIN sessions' : sessions'[u] = sessions[u]
  BY DEF CloseTab, Drop
<1>2. active' \in DOMAIN tabs'
  BY <1>1 DEF CloseTab, Inv, AudioAgrees, TypeOK
<1>3. recency' \in Seq(Tab) /\ ToSet(recency') = DOMAIN tabs' /\ IsInjective(recency')
  <2>1. /\ RemoveFirst(recency, t) \in Seq(Tab)
        /\ ToSet(RemoveFirst(recency, t)) = ToSet(recency) \ {t}
        /\ IsInjective(RemoveFirst(recency, t))
    BY RecencyFacts, RemoveFirstRange
  <2> QED BY <1>1, <2>1, RecencyFacts DEF CloseTab
<1>4. CoreCall
  BY DEF CloseTab, Refresh, CoreCall, Inv, AudioAgrees, TypeOK
<1>5. \A u \in DOMAIN tabs' : SessionOf(u)' = SessionOf(u)
  BY <1>1 DEF SessionOf
<1> QED BY <1>1, <1>2, <1>3, <1>4, <1>5, CoreCallInv DEF Inv, AudioAgrees, TypeOK

LEMMA SetPinnedInv ==
  ASSUME Inv, NEW t \in Tab, SetPinned(t)
  PROVE  Inv'
<1>1. /\ DOMAIN tabs' = DOMAIN tabs
      /\ \A u \in DOMAIN tabs' : tabs'[u] \in TabRecord /\ tabs'[u].audio = tabs[u].audio
  BY DEF SetPinned, Inv, AudioAgrees, TypeOK, TabRecord
<1>2. UNCHANGED <<active, recency, sessions>>
  BY DEF SetPinned
<1>3. CoreCall
  BY DEF SetPinned, Refresh, CoreCall, Inv, AudioAgrees, TypeOK
<1>4. \A u \in DOMAIN tabs' : SessionOf(u)' = SessionOf(u)
  BY <1>2 DEF SessionOf
<1> QED BY <1>1, <1>2, <1>3, <1>4, CoreCallInv DEF Inv, AudioAgrees, TypeOK
-----------------------------------------------------------------------------
(***************************************************************************)
(* The sound                                                               *)
(***************************************************************************)

\* Whatever becomes of a session, the tab manager hears of it.
LEMMA UpdateSessionFacts ==
  ASSUME AudioAgrees, NEW t \in Tab, NEW s \in Session, UpdateSession(t, s)
  PROVE  /\ DOMAIN tabs' = DOMAIN tabs /\ DOMAIN sessions' \subseteq Tab
         /\ \A u \in DOMAIN tabs' : tabs'[u] \in TabRecord
         /\ \A u \in DOMAIN sessions' : sessions'[u] \in Session
         /\ SessionOf(t)' = s
         /\ \A u : u # t => SessionOf(u)' = SessionOf(u)
         /\ \A u \in DOMAIN tabs' : tabs'[u].audio = Effective(SessionOf(u)')
<1>1. /\ DOMAIN sessions' = DOMAIN sessions \cup {t} /\ sessions'[t] = s
      /\ \A u \in DOMAIN sessions : u # t => sessions'[u] = sessions[u]
  BY DEF UpdateSession, Put
<1>2. Effective(s) \in {"silent", "audible", "muted"}
  BY DEF Effective
<1>3. DOMAIN tabs' = DOMAIN tabs /\ \A u \in DOMAIN tabs' : tabs'[u] \in TabRecord
  BY <1>2 DEF UpdateSession, AudioAgrees, TypeOK, TabRecord
<1>4. SessionOf(t)' = s /\ \A u : u # t => SessionOf(u)' = SessionOf(u)
  BY <1>1 DEF SessionOf
<1>5. ASSUME NEW u \in DOMAIN tabs' PROVE tabs'[u].audio = Effective(SessionOf(u)')
  <2>1. CASE u = t
    <3>1. tabs'[t].audio = Effective(s)
      BY <1>3, <2>1 DEF UpdateSession, AudioAgrees, TypeOK, TabRecord
    <3> QED BY <1>4, <2>1, <3>1
  <2>2. CASE u # t
    BY <1>3, <1>4, <2>2 DEF UpdateSession, AudioAgrees
  <2> QED BY <2>1, <2>2
<1> QED BY <1>1, <1>3, <1>4, <1>5 DEF AudioAgrees, TypeOK

LEMMA SetMutedInv ==
  ASSUME Inv, NEW t \in Tab, SetMuted(t)
  PROVE  Inv'
<1> DEFINE s == [SessionOf(t) EXCEPT !.muted = (tabs[t].audio # "muted")]
<1>1. s \in Session /\ s.playing = SessionOf(t).playing
  BY SessionFacts DEF Inv, AudioAgrees, Session
<1>2. UpdateSession(t, s) /\ UNCHANGED <<active, recency>>
  BY DEF SetMuted
<1>3. CoreCall
  BY DEF SetMuted, Refresh, CoreCall, Inv, AudioAgrees, TypeOK
<1> HIDE DEF s
<1>4. /\ DOMAIN tabs' = DOMAIN tabs /\ DOMAIN sessions' \subseteq Tab
      /\ \A u \in DOMAIN tabs' : tabs'[u] \in TabRecord
      /\ \A u \in DOMAIN sessions' : sessions'[u] \in Session
      /\ SessionOf(t)' = s
      /\ \A u : u # t => SessionOf(u)' = SessionOf(u)
      /\ \A u \in DOMAIN tabs' : tabs'[u].audio = Effective(SessionOf(u)')
  BY <1>1, <1>2, UpdateSessionFacts DEF Inv
<1> QED BY <1>1, <1>2, <1>3, <1>4, CoreCallInv DEF Inv, AudioAgrees, TypeOK
-----------------------------------------------------------------------------
(***************************************************************************)
(* Pages and views                                                         *)
(***************************************************************************)

\* What a view holds.
LEMMA ViewFacts ==
  ASSUME Inv, NEW t \in DOMAIN views
  PROVE  /\ t \in Tab /\ views[t] \in View
         /\ views[t].loads \in Nat /\ views[t].playing \in BOOLEAN /\ views[t].muted \in BOOLEAN
         /\ views[t].posts \in Seq(BOOLEAN)
         /\ views[t].posts # <<>> => views[t].posts[Len(views[t].posts)] = views[t].playing
  BY Bounds DEF Inv, AudioAgrees, TypeOK, View, PostsEndInPresent

\* Steps of loads, views and the window change no sound and no session.
LEMMA QuietInv ==
  ASSUME Inv, UNCHANGED <<active, recency, sessions, shown>>,
         DOMAIN tabs' = DOMAIN tabs,
         \A t \in DOMAIN tabs' : tabs'[t] \in TabRecord /\ tabs'[t].audio = tabs[t].audio,
         DOMAIN views' \subseteq Tab, \A t \in DOMAIN views' : views'[t] \in View,
         front' \in Tab \cup {NoTab}, lastWords' \in Seq(BOOLEAN), stale' \in BOOLEAN,
         PostsEndInPresent', OneVoice',
         \A t \in DOMAIN views' :
           (views'[t].playing /\ views'[t].posts = <<>>) =>
             t \in DOMAIN views /\ views[t].playing /\ views[t].posts = <<>>
  PROVE  Inv'
<1>1. TypeOK'
  BY DEF Inv, AudioAgrees, TypeOK
<1>2. \A t : SessionOf(t)' = SessionOf(t)
  BY DEF SessionOf
<1>3. AudioAgrees'
  BY <1>1, <1>2 DEF Inv, AudioAgrees
<1>4. PlayersHeard'
  BY <1>2 DEF Inv, PlayersHeard
<1> QED BY <1>3, <1>4 DEF Inv

LEMMA NavigateInv ==
  ASSUME Inv, Navigate
  PROVE  Inv'
<1>1. /\ UNCHANGED <<active, recency, sessions, shown, stale, front, lastWords>>
      /\ front \in DOMAIN views => views[front].loads < MaxLoads
  BY DEF Navigate
<1>2. /\ DOMAIN tabs' = DOMAIN tabs
      /\ \A t \in DOMAIN tabs' : tabs'[t] \in TabRecord /\ tabs'[t].audio = tabs[t].audio
  BY SetStateFacts DEF Navigate, Inv, AudioAgrees, TypeOK
<1>3. DOMAIN views' = DOMAIN views
  BY DEF Navigate
<1>4. ASSUME NEW t \in DOMAIN views
      PROVE  /\ views'[t] \in View
             /\ views'[t].playing = views[t].playing /\ views'[t].posts = views[t].posts
  <2>1. views'[t] = views[t] \/ (t = front /\ views'[t] = BeginLoad(views[t]))
    BY DEF Navigate
  <2>2. CASE t = front /\ views'[t] = BeginLoad(views[t])
    BY <1>1, <2>2, ViewFacts, Bounds DEF BeginLoad, View
  <2> QED BY <2>1, <2>2, ViewFacts
<1>5. PostsEndInPresent' /\ OneVoice'
  BY <1>1, <1>3, <1>4 DEF Inv, PostsEndInPresent, OneVoice
<1> QED BY <1>1, <1>2, <1>3, <1>4, <1>5, QuietInv DEF Inv, AudioAgrees, TypeOK

LEMMA FollowLinkInv ==
  ASSUME Inv, NEW t \in Tab, FollowLink(t)
  PROVE  Inv'
<1>1. /\ UNCHANGED <<tabs, active, recency, sessions, shown, stale, front, lastWords>>
      /\ t \in DOMAIN views /\ views[t].loads < MaxLoads
      /\ views' = [views EXCEPT ![t] = BeginLoad(@)]
  BY DEF FollowLink, coreVars
<1>2. ASSUME NEW u \in DOMAIN views
      PROVE  /\ views'[u] \in View
             /\ views'[u].playing = views[u].playing /\ views'[u].posts = views[u].posts
  <2>1. CASE u = t
    BY <1>1, <2>1, ViewFacts, Bounds DEF BeginLoad, View
  <2>2. CASE u # t
    BY <1>1, <2>2, ViewFacts
  <2> QED BY <2>1, <2>2
<1>3. PostsEndInPresent' /\ OneVoice'
  BY <1>1, <1>2 DEF Inv, PostsEndInPresent, OneVoice
<1> QED BY <1>1, <1>2, <1>3, QuietInv DEF Inv, AudioAgrees, TypeOK

\* The old document says that it stops.
LEMMA CommitInv ==
  ASSUME Inv, NEW t \in Tab, Commit(t)
  PROVE  Inv'
<1> DEFINE posts == IF views[t].playing THEN Append(views[t].posts, FALSE) ELSE views[t].posts
<1>1. /\ UNCHANGED <<active, recency, sessions, shown, stale, front, lastWords>>
      /\ t \in DOMAIN views
      /\ views' = [views EXCEPT ![t] = Replaced(views[t])]
  BY DEF Commit
<1>2. /\ DOMAIN tabs' = DOMAIN tabs
      /\ \A u \in DOMAIN tabs' : tabs'[u] \in TabRecord /\ tabs'[u].audio = tabs[u].audio
  <2>1. tabs' = tabs \/ (t \in DOMAIN tabs /\ tabs' = [tabs EXCEPT ![t].empty = FALSE])
    BY DEF Commit
  <2>2. \A u \in DOMAIN tabs : tabs[u] \in TabRecord
    BY DEF Inv, AudioAgrees, TypeOK
  <2> QED BY <2>1, <2>2 DEF TabRecord
<1>3. posts \in Seq(BOOLEAN) /\ (posts # <<>> => posts[Len(posts)] = FALSE)
  <2>1. views[t].posts \in Seq(BOOLEAN) /\ FALSE \in BOOLEAN
    BY <1>1, ViewFacts
  <2>2. CASE views[t].playing
    BY <2>1, <2>2, LastElement, Zenon
  <2>3. CASE ~views[t].playing
    <3>1. posts = views[t].posts /\ views[t].playing = FALSE
      BY <1>1, <2>3, ViewFacts
    <3> QED BY <1>1, <3>1, ViewFacts
  <2> QED BY <2>2, <2>3
<1> HIDE DEF posts
<1>4. views'[t] \in View /\ views'[t].playing = FALSE /\ views'[t].posts = posts
  <2>1. views[t] \in View /\ views'[t] = Replaced(views[t])
    BY <1>1, ViewFacts
  <2>2. posts = IF views[t].playing THEN Append(views[t].posts, FALSE) ELSE views[t].posts
    BY Zenon DEF posts
  <2> QED BY <1>3, <2>1, <2>2, ReplacedView
<1>5. DOMAIN views' = DOMAIN views /\ \A u \in DOMAIN views : u # t => views'[u] = views[u]
  BY <1>1
<1>6. PostsEndInPresent'
  BY <1>3, <1>4, <1>5 DEF Inv, PostsEndInPresent
<1>7. OneVoice'
  BY <1>1, <1>5 DEF Inv, OneVoice
<1>8. \A u \in DOMAIN views' : views'[u] \in View
  BY <1>4, <1>5, ViewFacts
<1> QED BY <1>1, <1>2, <1>4, <1>5, <1>6, <1>7, <1>8, QuietInv DEF Inv, AudioAgrees, TypeOK

LEMMA LoadEndsInv ==
  ASSUME Inv, NEW t \in Tab, LoadEnds(t)
  PROVE  Inv'
<1>1. /\ UNCHANGED <<active, recency, sessions, shown, stale, front, lastWords>>
      /\ t \in DOMAIN views /\ views[t].loads > 0
      /\ views' = [views EXCEPT ![t] = EndLoad(views[t])]
  BY DEF LoadEnds
<1>2. /\ DOMAIN tabs' = DOMAIN tabs
      /\ \A u \in DOMAIN tabs' : tabs'[u] \in TabRecord /\ tabs'[u].audio = tabs[u].audio
  BY SetStateFacts DEF LoadEnds, Inv, AudioAgrees, TypeOK
<1>3. ASSUME NEW u \in DOMAIN views
      PROVE  /\ views'[u] \in View
             /\ views'[u].playing = views[u].playing /\ views'[u].posts = views[u].posts
  <2>1. CASE u = t
    <3>1. views[t] \in View /\ views[t].loads - 1 \in 0 .. MaxLoads
      BY <1>1, ViewFacts, Bounds DEF View
    <3>2. views'[u] = [views[t] EXCEPT !.loads = views[t].loads - 1]
      BY <1>1, <2>1 DEF EndLoad
    <3> QED BY <2>1, <3>1, <3>2 DEF View
  <2>2. CASE u # t
    BY <1>1, <2>2, ViewFacts
  <2> QED BY <2>1, <2>2
<1>4. PostsEndInPresent' /\ OneVoice'
  BY <1>1, <1>3 DEF Inv, PostsEndInPresent, OneVoice
<1> QED BY <1>1, <1>2, <1>3, <1>4, QuietInv DEF Inv, AudioAgrees, TypeOK

\* What a page does it says.
LEMMA PlayOrPauseInv ==
  ASSUME Inv, NEW t \in Tab, PlayOrPause(t)
  PROVE  Inv'
<1>1. /\ UNCHANGED <<tabs, active, recency, sessions, shown, stale, front, lastWords>>
      /\ t \in DOMAIN views
      /\ views' = [views EXCEPT ![t] = SwitchPlayer(views[t])]
  BY DEF PlayOrPause, coreVars
<1>2. views[t] \in View /\ views'[t] = SwitchPlayer(views[t])
  BY <1>1, ViewFacts
<1>3. /\ views'[t] \in View /\ views'[t].posts # <<>>
      /\ views'[t].posts[Len(views'[t].posts)] = views'[t].playing
  BY <1>2, SwitchedView
<1>4. DOMAIN views' = DOMAIN views /\ \A u \in DOMAIN views : u # t => views'[u] = views[u]
  BY <1>1
<1>5. PostsEndInPresent'
  BY <1>3, <1>4 DEF Inv, PostsEndInPresent
<1>6. OneVoice'
  BY <1>1, <1>4 DEF Inv, OneVoice
<1>7. \A u \in DOMAIN views' : views'[u] \in View
  BY <1>3, <1>4, ViewFacts
<1> QED BY <1>1, <1>3, <1>4, <1>5, <1>6, <1>7, QuietInv DEF Inv, AudioAgrees, TypeOK

\* When the last message has arrived, the session says what the page does.
LEMMA DeliverPostInv ==
  ASSUME Inv, NEW t \in Tab, DeliverPost(t)
  PROVE  Inv'
<1> DEFINE posts == views[t].posts
           s == [SessionOf(t) EXCEPT !.playing = Head(posts)]
<1>1. /\ UNCHANGED <<active, recency, shown, stale, front, lastWords>>
      /\ t \in DOMAIN views /\ posts # <<>>
      /\ views' = [views EXCEPT ![t].posts = Tail(posts)]
      /\ UpdateSession(t, s)
  BY DEF DeliverPost
<1>2. /\ posts \in Seq(BOOLEAN) /\ posts[Len(posts)] = views[t].playing
  BY <1>1, ViewFacts
<1>3. /\ Head(posts) \in BOOLEAN /\ Tail(posts) \in Seq(BOOLEAN)
      /\ Tail(posts) # <<>> => Tail(posts)[Len(Tail(posts))] = posts[Len(posts)]
      /\ Tail(posts) = <<>> => Head(posts) = posts[Len(posts)]
  BY <1>1, <1>2, LastElement
<1>4. s \in Session /\ s.playing = Head(posts)
  BY <1>3, SessionFacts DEF Inv, AudioAgrees, Session
<1>5. /\ DOMAIN views' = DOMAIN views /\ \A u \in DOMAIN views : u # t => views'[u] = views[u]
      /\ views'[t] \in View /\ views'[t].playing = views[t].playing
      /\ views'[t].posts = Tail(posts)
  BY <1>1, <1>3, ViewFacts DEF View
<1> HIDE DEF posts, s
<1>6. /\ DOMAIN tabs' = DOMAIN tabs /\ DOMAIN sessions' \subseteq Tab
      /\ \A u \in DOMAIN tabs' : tabs'[u] \in TabRecord
      /\ \A u \in DOMAIN sessions' : sessions'[u] \in Session
      /\ SessionOf(t)' = s
      /\ \A u : u # t => SessionOf(u)' = SessionOf(u)
      /\ \A u \in DOMAIN tabs' : tabs'[u].audio = Effective(SessionOf(u)')
  BY <1>1, <1>4, UpdateSessionFacts DEF Inv
<1>7. \A u \in DOMAIN views' : views'[u] \in View
  BY <1>5, ViewFacts
<1>8. AudioAgrees'
  BY <1>1, <1>5, <1>6, <1>7 DEF Inv, AudioAgrees, TypeOK
<1>9. PostsEndInPresent'
  BY <1>2, <1>3, <1>5 DEF Inv, PostsEndInPresent
<1>10. PlayersHeard'
  BY <1>2, <1>3, <1>4, <1>5, <1>6 DEF Inv, PlayersHeard
<1>11. OneVoice' /\ (shown.active \in Tab)'
  BY <1>1, <1>5 DEF Inv, OneVoice
<1> QED BY <1>8, <1>9, <1>10, <1>11 DEF Inv

\* What a view says that is torn down: its tab has no other.
LEMMA DeliverLastWordsInv ==
  ASSUME Inv, DeliverLastWords
  PROVE  Inv'
<1> DEFINE s == [SessionOf(front) EXCEPT !.playing = Head(lastWords)]
<1>1. /\ UNCHANGED <<active, recency, shown, stale, views, front>>
      /\ lastWords # <<>> /\ lastWords' = Tail(lastWords)
      /\ UpdateSession(front, s)
  BY DEF DeliverLastWords
<1>2. Head(lastWords) \in BOOLEAN /\ lastWords' \in Seq(BOOLEAN)
  BY <1>1 DEF Inv, AudioAgrees, TypeOK
<1>3. front \in Tab /\ front \notin DOMAIN views
  BY <1>1 DEF Inv, OneVoice
<1>4. s \in Session
  BY <1>2, SessionFacts DEF Inv, AudioAgrees, Session
<1> HIDE DEF s
<1>5. /\ DOMAIN tabs' = DOMAIN tabs /\ DOMAIN sessions' \subseteq Tab
      /\ \A u \in DOMAIN tabs' : tabs'[u] \in TabRecord
      /\ \A u \in DOMAIN sessions' : sessions'[u] \in Session
      /\ \A u : u # front => SessionOf(u)' = SessionOf(u)
      /\ \A u \in DOMAIN tabs' : tabs'[u].audio = Effective(SessionOf(u)')
  BY <1>1, <1>3, <1>4, UpdateSessionFacts DEF Inv
<1>6. AudioAgrees'
  BY <1>1, <1>2, <1>5 DEF Inv, AudioAgrees, TypeOK
<1>7. PostsEndInPresent' /\ OneVoice' /\ (shown.active \in Tab)'
  BY <1>1, <1>3 DEF Inv, PostsEndInPresent, OneVoice
<1>8. PlayersHeard'
  BY <1>1, <1>3, <1>5 DEF Inv, PlayersHeard
<1> QED BY <1>6, <1>7, <1>8 DEF Inv
-----------------------------------------------------------------------------
(***************************************************************************)
(* The shell                                                               *)
(***************************************************************************)

LEMMA HandleBatchInv ==
  ASSUME Inv, HandleBatch
  PROVE  Inv'
<1>1. /\ UNCHANGED <<tabs, active, recency, sessions, views, front, lastWords>>
      /\ shown' = Snapshot(tabs, active) /\ stale' \in BOOLEAN
  BY DEF HandleBatch, coreVars, Inv, AudioAgrees, TypeOK
<1>2. TypeOK' /\ shown'.active \in Tab
  BY <1>1 DEF Inv, AudioAgrees, TypeOK, Snapshot
<1>3. \A u : SessionOf(u)' = SessionOf(u)
  BY <1>1 DEF SessionOf
<1> QED BY <1>1, <1>2, <1>3 DEF Inv, AudioAgrees, PostsEndInPresent, PlayersHeard, OneVoice

\* A view that goes leaves its last words if the window holds it.
LEMMA SyncViewsInv ==
  ASSUME Inv, SyncViews
  PROVE  Inv'
<1>1. PICK gone \in SUBSET DOMAIN views :
        /\ views' = [t \in DOMAIN views \ gone |->
                       [views[t] EXCEPT !.muted = (t \in Head(main).muted)]]
        /\ lastWords' = IF front \notin gone THEN lastWords
                        ELSE views[front].posts \o (IF views[front].playing THEN <<FALSE>> ELSE <<>>)
  BY DEF SyncViews
<1>2. UNCHANGED <<tabs, active, recency, sessions, shown, stale, front>>
  BY DEF SyncViews, coreVars
<1>3. /\ DOMAIN views' = DOMAIN views \ gone
      /\ \A t \in DOMAIN views' :
           /\ views'[t] \in View
           /\ views'[t].playing = views[t].playing /\ views'[t].posts = views[t].posts
  <2>1. DOMAIN views' = DOMAIN views \ gone
    BY <1>1
  <2>2. ASSUME NEW t \in DOMAIN views'
        PROVE  /\ views'[t] \in View
               /\ views'[t].playing = views[t].playing /\ views'[t].posts = views[t].posts
    <3>1. PICK m \in BOOLEAN : m = (t \in Head(main).muted)
      <4>1. (t \in Head(main).muted) \in BOOLEAN
        OBVIOUS
      <4> QED BY <4>1, Zenon
    <3>2. views'[t] = [views[t] EXCEPT !.muted = m]
      BY <1>1, <2>1, <2>2, <3>1
    <3>3. views[t] \in View
      BY <2>1, <2>2, ViewFacts
    <3> QED BY <3>2, <3>3, MutedView
  <2> QED BY <2>1, <2>2
<1>4. lastWords' \in Seq(BOOLEAN)
  <2>1. CASE front \in gone
    <3>1. views[front].posts \in Seq(BOOLEAN) /\ <<FALSE>> \in Seq(BOOLEAN) /\ <<>> \in Seq(BOOLEAN)
      BY <2>1, ViewFacts, LastElement, EmptyList
    <3>2. \A a, b \in Seq(BOOLEAN) : a \o b \in Seq(BOOLEAN)
      BY ConcatProperties
    <3> QED BY <1>1, <2>1, <3>1, <3>2
  <2>2. CASE front \notin gone
    BY <1>1, <2>2 DEF Inv, AudioAgrees, TypeOK
  <2> QED BY <2>1, <2>2
<1>5. OneVoice'
  <2>1. CASE front \in gone
    BY <1>2, <1>3, <2>1, ViewFacts DEF OneVoice
  <2>2. CASE front \notin gone
    BY <1>1, <1>2, <1>3, <2>2 DEF Inv, OneVoice
  <2> QED BY <2>1, <2>2
<1>6. PostsEndInPresent'
  BY <1>3 DEF Inv, PostsEndInPresent
<1> QED BY <1>2, <1>3, <1>4, <1>5, <1>6, QuietInv DEF Inv, AudioAgrees, TypeOK

\* A new view is silent, and the words of an older one are dropped with it.
LEMMA UpdateWindowInv ==
  ASSUME Inv, UpdateWindow
  PROVE  Inv'
<1>1. /\ UNCHANGED <<active, recency, sessions, shown>>
      /\ stale' = FALSE /\ front' = shown.active /\ front' \in Tab
  BY DEF UpdateWindow, Inv
<1>2. lastWords' = <<>>
  BY DEF UpdateWindow, Inv, OneVoice
<1>3. /\ DOMAIN tabs' = DOMAIN tabs
      /\ \A t \in DOMAIN tabs' : tabs'[t] \in TabRecord /\ tabs'[t].audio = tabs[t].audio
  BY SetStateFacts DEF UpdateWindow, Inv, AudioAgrees, TypeOK
<1>4. \/ views' = views
      \/ views' \in {Put(views, front', NewView), Put(views, front', BeginLoad(NewView))}
         /\ front' \notin DOMAIN views
  BY DEF UpdateWindow
<1>5. /\ NewView \in View /\ NewView.posts = <<>> /\ ~NewView.playing
      /\ BeginLoad(NewView) \in View /\ BeginLoad(NewView).posts = <<>>
      /\ ~BeginLoad(NewView).playing
  <2>1. 0 \in 0 .. MaxLoads /\ 1 \in 0 .. MaxLoads /\ 0 + 1 = 1 /\ <<>> \in Seq(BOOLEAN)
    BY Bounds, EmptyList
  <2>2. /\ NewView = [loads |-> 0, muted |-> FALSE, playing |-> FALSE, posts |-> <<>>]
        /\ BeginLoad(NewView) = [NewView EXCEPT !.loads = NewView.loads + 1]
    BY DEF NewView, BeginLoad
  <2>3. BeginLoad(NewView) = [loads |-> 1, muted |-> FALSE, playing |-> FALSE, posts |-> <<>>]
    BY <2>1, <2>2
  <2> QED BY <2>1, <2>2, <2>3 DEF View
<1>6. /\ DOMAIN views' \subseteq Tab
      /\ \A t \in DOMAIN views' :
           \/ t \in DOMAIN views /\ views'[t] = views[t]
           \/ views'[t] \in View /\ views'[t].posts = <<>> /\ ~views'[t].playing
  BY <1>1, <1>4, <1>5, ViewFacts DEF Put
<1>7. \A t \in DOMAIN views' : views'[t] \in View
  BY <1>6, ViewFacts
<1>8. PostsEndInPresent' /\ OneVoice'
  BY <1>2, <1>6 DEF Inv, PostsEndInPresent, OneVoice
<1>9. lastWords' \in Seq(BOOLEAN) /\ stale' \in BOOLEAN
  BY <1>1, <1>2, EmptyList
<1> QED BY <1>1, <1>3, <1>6, <1>7, <1>8, <1>9, QuietInv
-----------------------------------------------------------------------------
LEMMA NextInv == Inv /\ [Next]_vars => Inv'
<1> SUFFICES ASSUME Inv, [Next]_vars PROVE Inv'
  OBVIOUS
<1>1. ASSUME NEW t \in Tab,
             \/ ActivateTab(t) \/ CreateTab(t) \/ CreateBackgroundTab(t) \/ CloseTab(t)
             \/ SetPinned(t) \/ SetMuted(t)
      PROVE  Inv'
  BY <1>1, ActivateTabInv, CreateTabInv, CreateBackgroundTabInv, CloseTabInv,
     SetPinnedInv, SetMutedInv
<1>2. ASSUME NEW t \in Tab,
             FollowLink(t) \/ Commit(t) \/ LoadEnds(t) \/ PlayOrPause(t) \/ DeliverPost(t)
      PROVE  Inv'
  BY <1>2, FollowLinkInv, CommitInv, LoadEndsInv, PlayOrPauseInv, DeliverPostInv
<1>3. CASE Navigate \/ DeliverLastWords \/ HandleBatch \/ SyncViews \/ UpdateWindow
  BY <1>3, NavigateInv, DeliverLastWordsInv, HandleBatchInv, SyncViewsInv, UpdateWindowInv
<1>4. CASE UNCHANGED vars
  <2>1. UNCHANGED <<tabs, active, recency, sessions, shown, stale, views, front, lastWords>>
    BY <1>4 DEF vars, coreVars
  <2>2. \A u : SessionOf(u)' = SessionOf(u)
    BY <2>1 DEF SessionOf
  <2> QED BY <2>1, <2>2 DEF Inv, AudioAgrees, TypeOK, PostsEndInPresent, PlayersHeard, OneVoice
<1> QED BY <1>1, <1>2, <1>3, <1>4 DEF Next

\* The tab manager (tabs.rs) and the media tracker (blaze-media) say the same of
\* the sound of every tab, with the types, for any tabs and any order of messages.
THEOREM AudioHolds == Spec => []AudioAgrees
<1>1. Inv => AudioAgrees
  BY DEF Inv
<1> QED BY <1>1, InitInv, NextInv, PTL DEF Spec
-----------------------------------------------------------------------------
\* A step that suspends a tab, as SuspendSparesTabsInUse wants it.
Spares ==
  \A t \in DOMAIN tabs \cap DOMAIN tabs' :
    (tabs[t].state # "suspended" /\ tabs'[t].state = "suspended") =>
      /\ t # active' /\ ~tabs[t].pinned
      /\ ~(/\ t \in DOMAIN views /\ views[t].playing /\ views[t].posts = <<>>
           /\ tabs[t].audio # "muted")

\* A tab whose page plays and has been heard is audible or muted.
LEMMA HeardIsAudible ==
  ASSUME Inv, NEW t \in DOMAIN tabs, t \in DOMAIN views, views[t].playing,
         views[t].posts = <<>>, tabs[t].audio # "muted"
  PROVE  tabs[t].audio = "audible"
<1>1. SessionOf(t).playing /\ tabs[t].audio = Effective(SessionOf(t))
  BY DEF Inv, PlayersHeard, AudioAgrees
<1> QED BY <1>1 DEF Effective

\* Suspension under pressure, on the tabs as they are or with a new one.
LEMMA SuspendSpares ==
  ASSUME Inv, NEW map, NEW queued, RefreshAndSuspend(map, queued),
         \A t \in DOMAIN tabs : t \in DOMAIN map /\ map[t] = tabs[t],
         \A t \in DOMAIN map : map[t] \in TabRecord
  PROVE  Spares
<1>1. tabs' = map \/ tabs' = SetState(map, Candidates(map, active', recency'), "suspended")
  BY DEF RefreshAndSuspend
<1>2. ASSUME NEW t \in DOMAIN tabs, tabs[t].state # "suspended", tabs'[t].state = "suspended"
      PROVE  t # active' /\ ~tabs[t].pinned /\ tabs[t].audio # "audible"
  <2>1. t \in Candidates(map, active', recency')
    BY <1>1, <1>2, SetStateFacts
  <2> QED BY <2>1, CandidateFacts
<1> QED BY <1>2, HeardIsAudible DEF Spares

\* Suspension spares the tab in front, pinned tabs, and tabs whose page plays and has
\* said so: lru_suspension_candidates looks at what media messages left in the table.
THEOREM SuspensionSpares == Spec => SuspendSparesTabsInUse
<1>1. Inv /\ [Next]_vars => Spares \/ UNCHANGED vars
  <2> SUFFICES ASSUME Inv, [Next]_vars PROVE Spares \/ UNCHANGED vars
    OBVIOUS
  <2>1. \A t \in DOMAIN tabs : tabs[t] \in TabRecord
    BY DEF Inv, AudioAgrees, TypeOK
  <2>2. ASSUME NEW t \in Tab, ActivateTab(t) PROVE Spares
    BY <2>1, <2>2, SuspendSpares DEF ActivateTab
  <2>3. ASSUME NEW t \in Tab, CreateTab(t) \/ CreateBackgroundTab(t) PROVE Spares
    <3>1. PICK isEmpty \in BOOLEAN : \E queued :
            RefreshAndSuspend(Put(tabs, t, NewTab(isEmpty)), queued)
      BY <2>3 DEF CreateTab, CreateBackgroundTab
    <3>2. t \notin DOMAIN tabs
      BY <2>3 DEF CreateTab, CreateBackgroundTab, Fresh
    <3>3. NewTab(isEmpty) \in TabRecord
      BY DEF NewTab, TabRecord
    <3> DEFINE map == Put(tabs, t, NewTab(isEmpty))
    <3>4. /\ \A u \in DOMAIN tabs : u \in DOMAIN map /\ map[u] = tabs[u]
          /\ \A u \in DOMAIN map : map[u] \in TabRecord
      BY <2>1, <3>2, <3>3 DEF Put
    <3> HIDE DEF map
    <3> QED BY <3>1, <3>4, SuspendSpares DEF map
  <2>4. ASSUME NEW t \in Tab, CloseTab(t) PROVE Spares
    BY <2>4 DEF CloseTab, Drop, Spares
  <2>5. ASSUME NEW t \in Tab, SetPinned(t) \/ Commit(t) PROVE Spares
    <3>1. \A u \in DOMAIN tabs \cap DOMAIN tabs' : tabs'[u].state = tabs[u].state
      BY <2>1, <2>5 DEF SetPinned, Commit, TabRecord
    <3> QED BY <3>1 DEF Spares
  <2>6. ASSUME NEW t \in Tab, SetMuted(t) \/ DeliverPost(t) PROVE Spares
    <3>1. \A u \in DOMAIN tabs \cap DOMAIN tabs' : tabs'[u].state = tabs[u].state
      BY <2>1, <2>6 DEF SetMuted, DeliverPost, UpdateSession, TabRecord
    <3> QED BY <3>1 DEF Spares
  <2>7. CASE DeliverLastWords
    <3>1. \A u \in DOMAIN tabs \cap DOMAIN tabs' : tabs'[u].state = tabs[u].state
      BY <2>1, <2>7 DEF DeliverLastWords, UpdateSession, TabRecord
    <3> QED BY <3>1 DEF Spares
  <2>8. ASSUME NEW t \in Tab, FollowLink(t) \/ PlayOrPause(t) PROVE Spares
    BY <2>8 DEF FollowLink, PlayOrPause, coreVars, Spares
  <2>9. CASE HandleBatch \/ SyncViews
    BY <2>9 DEF HandleBatch, SyncViews, coreVars, Spares
  <2>10. ASSUME NEW t \in Tab, LoadEnds(t) PROVE Spares
    BY <2>1, <2>10, SetStateFacts DEF LoadEnds, Spares
  <2>11. CASE Navigate \/ UpdateWindow
    BY <2>1, <2>11, SetStateFacts DEF Navigate, UpdateWindow, Spares
  <2> QED BY <2>2, <2>3, <2>4, <2>5, <2>6, <2>7, <2>8, <2>9, <2>10, <2>11 DEF Next
<1>2. Spec => []Inv
  BY InitInv, NextInv, PTL DEF Spec
<1>3. Spec => [][Spares]_vars
  BY <1>1, <1>2, PTL DEF Spec
<1> QED BY <1>3 DEF SuspendSparesTabsInUse, Spares
-----------------------------------------------------------------------------
(***************************************************************************)
(* Views and the snapshots on their way                                    *)
(***************************************************************************)

Message ==
  {Batch} \cup [batch : {FALSE}, keep : SUBSET Tab, muted : SUBSET Tab]
NoBatch(queued) == \A i \in 1 .. Len(queued) : ~queued[i].batch

\* Unless a batch is still to be handled, the shell's snapshot and the newest one on
\* its way to the views are those of the present.
NewestIsCurrent ==
  NoBatch(main) => /\ shown = Snapshot(tabs, active)
                   /\ main # <<>> => main[Len(main)] = Published(tabs)

\* When nothing is on its way to a view, it is as its tab is; the empty one in front
\* of a suspended tab is that of the active tab, so no window update makes another.
ViewIsCurrent(t) ==
  /\ t \in DOMAIN tabs
  /\ tabs[t].state = "suspended" => t = front /\ t = active /\ tabs[t].empty
  /\ tabs[t].empty \/ (views[t].muted <=> tabs[t].audio = "muted")
ViewsAreCurrent == main = <<>> => \A t \in DOMAIN views : ViewIsCurrent(t)

MainInv == main \in Seq(Message) /\ NewestIsCurrent /\ ViewsAreCurrent

LEMMA MessageFacts ==
  /\ Batch \in Message /\ Batch.batch
  /\ \A map : DOMAIN map \subseteq Tab => Published(map) \in Message
  /\ \A map : ~Published(map).batch
BY DEF Batch, Published, Message

LEMMA AppendFacts ==
  ASSUME NEW S, NEW q \in Seq(S), NEW m \in S
  PROVE  /\ Append(q, m) \in Seq(S) /\ Append(q, m) # <<>>
         /\ Len(Append(q, m)) = Len(q) + 1 /\ Len(Append(q, m)) \in 1 .. Len(Append(q, m))
         /\ Append(q, m)[Len(Append(q, m))] = m
<1>1. /\ Append(q, m) \in Seq(S) /\ Len(Append(q, m)) = Len(q) + 1
      /\ Append(q, m)[Len(q) + 1] = m /\ Len(q) \in Nat
  BY AppendProperties, LenProperties
<1> QED BY <1>1, EmptySeq

\* A step that changes a tab posts a batch for it.
LEMMA BatchFollows ==
  ASSUME main \in Seq(Message), main' = Append(main, Batch)
  PROVE  MainInv'
<1>1. /\ main' \in Seq(Message) /\ main' # <<>> /\ Len(main') \in 1 .. Len(main')
      /\ main'[Len(main')] = Batch
  BY MessageFacts, AppendFacts
<1>2. ~NoBatch(main')
  BY <1>1, MessageFacts DEF NoBatch
<1> QED BY <1>1, <1>2 DEF MainInv, NewestIsCurrent, ViewsAreCurrent

\* A call ends with a snapshot of the tabs as it left them.
LEMMA RefreshFollows ==
  ASSUME main \in Seq(Message), NEW queued \in Seq(Message), Refresh(queued),
         DOMAIN tabs' \subseteq Tab
  PROVE  MainInv'
<1> DEFINE before == main \o queued
           last == Published(tabs')
<1>1. before \in Seq(Message) /\ last \in Message
  BY MessageFacts, ConcatProperties
<1>2. main' = Append(before, last)
  <2>1. main' = before \o <<last>>
    BY DEF Refresh
  <2> HIDE DEF before, last
  <2> QED BY <1>1, <2>1, AppendIsConcat
<1> HIDE DEF before, last
<1>3. main' \in Seq(Message) /\ main' # <<>> /\ main'[Len(main')] = last
  BY <1>1, <1>2, AppendFacts
<1>4. shown' = Snapshot(tabs', active')
  BY DEF Refresh
<1> QED BY <1>3, <1>4 DEF MainInv, NewestIsCurrent, ViewsAreCurrent, last

\* A step that leaves tabs and queue alone keeps the views that are current.
LEMMA StillFollows ==
  ASSUME MainInv, UNCHANGED <<tabs, active, shown, main>>,
         main = <<>> => \A t \in DOMAIN views' : ViewIsCurrent(t)'
  PROVE  MainInv'
BY DEF MainInv, NewestIsCurrent, ViewsAreCurrent

LEMMA SameViewsFollow ==
  ASSUME MainInv, UNCHANGED <<tabs, active, shown, main, front>>,
         DOMAIN views' = DOMAIN views,
         \A t \in DOMAIN views : views'[t].muted = views[t].muted
  PROVE  MainInv'
<1>1. ASSUME main = <<>>, NEW t \in DOMAIN views'
      PROVE  ViewIsCurrent(t)'
  <2>1. ViewIsCurrent(t)
    BY <1>1 DEF MainInv, ViewsAreCurrent
  <2> QED BY <2>1 DEF ViewIsCurrent
<1> QED BY <1>1, StillFollows

\* What the calls of the core queue before their last snapshot.
LEMMA QueuedFacts ==
  /\ <<>> \in Seq(Message) /\ <<Batch>> \in Seq(Message)
  /\ \A queued \in Seq(Message) : \A map :
       DOMAIN map \subseteq Tab => queued \o <<Published(map), Batch>> \in Seq(Message)
<1>1. <<>> \in Seq(Message) /\ <<Batch>> \in Seq(Message)
  BY MessageFacts
<1>2. ASSUME NEW queued \in Seq(Message), NEW map, DOMAIN map \subseteq Tab
      PROVE  queued \o <<Published(map), Batch>> \in Seq(Message)
  <2> DEFINE more == <<Published(map), Batch>>
  <2>1. more \in Seq(Message)
    BY <1>2, MessageFacts
  <2> HIDE DEF more
  <2>2. queued \o more \in Seq(Message)
    BY <2>1, ConcatProperties
  <2> QED BY <2>2 DEF more
<1> QED BY <1>1, <1>2

LEMMA SuspendFollows ==
  ASSUME main \in Seq(Message), NEW map, NEW queued \in Seq(Message),
         RefreshAndSuspend(map, queued), DOMAIN map \subseteq Tab
  PROVE  MainInv'
<1> DEFINE victims == Candidates(map, active', recency')
           more == queued \o <<Published(map), Batch>>
<1>1. CASE victims = {}
  <2>1. tabs' = map /\ Refresh(queued)
    BY <1>1 DEF RefreshAndSuspend
  <2> QED BY <2>1, RefreshFollows
<1>2. CASE victims # {}
  <2>1. tabs' = SetState(map, victims, "suspended") /\ Refresh(more)
    BY <1>2 DEF RefreshAndSuspend
  <2>2. more \in Seq(Message)
    BY QueuedFacts
  <2> HIDE DEF victims, more
  <2>3. DOMAIN tabs' \subseteq Tab
    BY <2>1 DEF SetState
  <2> QED BY <2>1, <2>2, <2>3, RefreshFollows
<1> QED BY <1>1, <1>2

LEMMA CallsFollow ==
  ASSUME Inv, MainInv, Inv', NEW t \in Tab,
         \/ ActivateTab(t) \/ CreateTab(t) \/ CreateBackgroundTab(t) \/ CloseTab(t)
         \/ SetPinned(t) \/ SetMuted(t)
  PROVE  MainInv'
<1>1. /\ main \in Seq(Message) /\ DOMAIN tabs \subseteq Tab /\ DOMAIN tabs' \subseteq Tab
      /\ <<>> \in Seq(Message) /\ <<Batch>> \in Seq(Message)
  BY QueuedFacts DEF MainInv, Inv, AudioAgrees, TypeOK
<1>2. CASE ActivateTab(t)
  BY <1>1, <1>2, SuspendFollows DEF ActivateTab
<1>3. CASE CreateTab(t) \/ CreateBackgroundTab(t)
  <2>1. PICK isEmpty \in BOOLEAN : RefreshAndSuspend(Put(tabs, t, NewTab(isEmpty)), <<Batch>>)
    BY <1>3 DEF CreateTab, CreateBackgroundTab
  <2>2. DOMAIN Put(tabs, t, NewTab(isEmpty)) \subseteq Tab
    BY <1>1 DEF Put
  <2> QED BY <1>1, <2>1, <2>2, SuspendFollows
<1>4. CASE CloseTab(t)
  BY <1>1, <1>4, RefreshFollows DEF CloseTab
<1>5. CASE SetPinned(t)
  BY <1>1, <1>5, RefreshFollows DEF SetPinned
<1>6. CASE SetMuted(t)
  <2>1. Refresh(<<>>) \/ Refresh(<<Batch>>)
    BY <1>6 DEF SetMuted
  <2> QED BY <1>1, <2>1, RefreshFollows
<1> QED BY <1>2, <1>3, <1>4, <1>5, <1>6

\* What a page does, and what its messages change
LEMMA PagesFollow ==
  ASSUME Inv, MainInv, NEW t \in Tab,
         FollowLink(t) \/ Commit(t) \/ LoadEnds(t) \/ PlayOrPause(t) \/ DeliverPost(t)
  PROVE  MainInv'
<1>1. main \in Seq(Message)
  BY DEF MainInv
<1>2. ASSUME UNCHANGED <<tabs, active, shown, main, front>>, t \in DOMAIN views,
             NEW v, v.muted = views[t].muted, views' = [views EXCEPT ![t] = v]
      PROVE  MainInv'
  <2>1. DOMAIN views' = DOMAIN views /\ \A u \in DOMAIN views : views'[u].muted = views[u].muted
    BY <1>2
  <2> QED BY <1>2, <2>1, SameViewsFollow
<1>3. CASE FollowLink(t)
  <2>1. /\ UNCHANGED <<tabs, active, shown, main, front>> /\ t \in DOMAIN views
        /\ views' = [views EXCEPT ![t] = BeginLoad(views[t])]
    BY <1>3 DEF FollowLink, coreVars
  <2>2. BeginLoad(views[t]).muted = views[t].muted
    BY <2>1, ViewFacts DEF BeginLoad, View
  <2> QED BY <1>2, <2>1, <2>2
<1>4. CASE Commit(t)
  <2>1. CASE t \in DOMAIN tabs
    BY <1>1, <1>4, <2>1, BatchFollows DEF Commit
  <2>2. CASE t \notin DOMAIN tabs
    <3>1. UNCHANGED <<tabs, active, shown, main>> /\ t \in DOMAIN views
      BY <1>4, <2>2 DEF Commit
    <3>2. main # <<>>
      BY <2>2, <3>1 DEF MainInv, ViewsAreCurrent, ViewIsCurrent
    <3> QED BY <3>1, <3>2, StillFollows
  <2> QED BY <2>1, <2>2
<1>5. CASE LoadEnds(t)
  <2>1. CASE t \in DOMAIN tabs /\ tabs[t].state # "suspended"
    BY <1>1, <1>5, <2>1, BatchFollows DEF LoadEnds
  <2>2. CASE ~(t \in DOMAIN tabs /\ tabs[t].state # "suspended")
    <3>1. /\ UNCHANGED <<tabs, active, shown, main, front>> /\ t \in DOMAIN views
          /\ views' = [views EXCEPT ![t] = EndLoad(views[t])]
      BY <1>5, <2>2 DEF LoadEnds
    <3>2. EndLoad(views[t]).muted = views[t].muted
      BY <3>1, ViewFacts DEF EndLoad, View
    <3> QED BY <1>2, <3>1, <3>2
  <2> QED BY <2>1, <2>2
<1>6. CASE PlayOrPause(t)
  <2>1. /\ UNCHANGED <<tabs, active, shown, main, front>> /\ t \in DOMAIN views
        /\ views' = [views EXCEPT ![t] = SwitchPlayer(views[t])]
    BY <1>6 DEF PlayOrPause, coreVars
  <2>2. SwitchPlayer(views[t]).muted = views[t].muted
    BY <2>1, ViewFacts DEF SwitchPlayer, View
  <2> QED BY <1>2, <2>1, <2>2
<1>7. CASE DeliverPost(t)
  <2>1. CASE tabs' = tabs
    <3>1. /\ UNCHANGED <<tabs, active, shown, main, front>> /\ t \in DOMAIN views
          /\ views' = [views EXCEPT ![t].posts = Tail(@)]
      BY <1>7, <2>1 DEF DeliverPost, EmitIfChanged
    <3> DEFINE v == [views[t] EXCEPT !.posts = Tail(@)]
    <3>2. views' = [views EXCEPT ![t] = v]
      BY <3>1
    <3>3. v.muted = views[t].muted
      BY <3>1, ViewFacts DEF View
    <3> QED BY <1>2, <3>1, <3>2, <3>3
  <2>2. CASE tabs' # tabs
    BY <1>1, <1>7, <2>2, BatchFollows DEF DeliverPost, EmitIfChanged
  <2> QED BY <2>1, <2>2
<1> QED BY <1>3, <1>4, <1>5, <1>6, <1>7

LEMMA DeliverLastWordsFollows ==
  ASSUME MainInv, DeliverLastWords
  PROVE  MainInv'
<1>1. CASE tabs' = tabs
  <2>1. UNCHANGED <<tabs, active, shown, main, front, views>>
    BY <1>1 DEF DeliverLastWords, EmitIfChanged
  <2> QED BY <2>1, SameViewsFollow
<1>2. CASE tabs' # tabs
  BY <1>2, BatchFollows DEF DeliverLastWords, EmitIfChanged, MainInv
<1> QED BY <1>1, <1>2

\* A batch is answered with a snapshot of the present.
LEMMA HandleBatchFollows ==
  ASSUME Inv, MainInv, HandleBatch
  PROVE  MainInv'
<1>1. /\ main # <<>> /\ UNCHANGED <<tabs, active>> /\ shown' = Snapshot(tabs, active)
      /\ main' = Append(Tail(main), Published(tabs))
  BY DEF HandleBatch, coreVars
<1>2. Tail(main) \in Seq(Message) /\ Published(tabs) \in Message
  BY <1>1, MessageFacts, HeadTailProperties DEF MainInv, Inv, AudioAgrees, TypeOK
<1>3. main' \in Seq(Message) /\ main' # <<>> /\ main'[Len(main')] = Published(tabs)
  BY <1>1, <1>2, AppendFacts
<1>4. Published(tabs)' = Published(tabs) /\ Snapshot(tabs, active)' = Snapshot(tabs, active)
  BY <1>1
<1> QED BY <1>1, <1>3, <1>4 DEF MainInv, NewestIsCurrent, ViewsAreCurrent

\* The last snapshot leaves a view for each live tab that has one, muted as the tab.
LEMMA SyncViewsFollows ==
  ASSUME Inv, MainInv, SyncViews
  PROVE  MainInv'
<1>1. /\ main # <<>> /\ ~Head(main).batch /\ main' = Tail(main)
      /\ UNCHANGED <<tabs, active, shown, front>>
  BY DEF SyncViews, coreVars
<1>2. /\ main \in Seq(Message) /\ main' \in Seq(Message)
      /\ Len(main) \in Nat \ {0} /\ Len(main') = Len(main) - 1
      /\ Head(main) = main[1] /\ \A i \in 1 .. Len(main') : main'[i] = main[i + 1]
  BY <1>1, HeadTailProperties, EmptySeq DEF MainInv
<1>3. NoBatch(main') => NoBatch(main)
  <2> SUFFICES ASSUME NoBatch(main'), NEW i \in 1 .. Len(main) PROVE ~main[i].batch
    BY DEF NoBatch
  <2>1. CASE i = 1
    BY <1>1, <1>2, <2>1
  <2>2. CASE i # 1
    <3>1. i - 1 \in 1 .. Len(main') /\ (i - 1) + 1 = i
      BY <1>2, <2>2
    <3>2. ~main'[i - 1].batch /\ main'[i - 1] = main[(i - 1) + 1]
      BY <1>2, <3>1 DEF NoBatch
    <3> QED BY <3>1, <3>2
  <2> QED BY <2>1, <2>2
<1>4. NewestIsCurrent'
  <2>1. main' # <<>> => main'[Len(main')] = main[Len(main)]
    <3> SUFFICES ASSUME main' # <<>> PROVE main'[Len(main')] = main[Len(main)]
      OBVIOUS
    <3>1. Len(main') \in 1 .. Len(main') /\ Len(main') + 1 = Len(main)
      BY <1>2, EmptySeq
    <3> QED BY <1>2, <3>1
  <2> QED BY <1>1, <1>3, <2>1 DEF MainInv, NewestIsCurrent, Published, Snapshot
<1>5. ViewsAreCurrent'
  <2> SUFFICES ASSUME main' = <<>>, NEW t \in DOMAIN views' PROVE ViewIsCurrent(t)'
    BY DEF ViewsAreCurrent
  <2>1. Len(main) = 1 /\ NoBatch(main') /\ Head(main) = main[Len(main)]
    <3>1. Len(main') = 0
      BY EmptySeq
    <3>2. Len(main) = 1
      BY <1>2, <3>1
    <3>3. NoBatch(main')
      BY <3>1 DEF NoBatch
    <3> QED BY <1>2, <3>2, <3>3
  <2>2. Head(main) = Published(tabs)
    BY <1>1, <1>3, <2>1 DEF MainInv, NewestIsCurrent
  <2>3. t \in DOMAIN views /\ t \in Head(main).keep
        /\ views'[t] = [views[t] EXCEPT !.muted = (t \in Head(main).muted)]
    BY DEF SyncViews
  <2>4. t \in DOMAIN tabs /\ tabs[t].state # "suspended"
    BY <2>2, <2>3 DEF Published
  <2>5. (t \in Head(main).muted) <=> tabs[t].audio = "muted"
    BY <2>2, <2>4 DEF Published
  <2>6. PICK m \in BOOLEAN : m = (t \in Head(main).muted)
    <3>1. (t \in Head(main).muted) \in BOOLEAN
      OBVIOUS
    <3> QED BY <3>1, Zenon
  <2>7. views'[t] = [views[t] EXCEPT !.muted = m]
    BY <2>3, <2>6
  <2>8. views'[t].muted = m
    BY <2>3, <2>7, ViewFacts DEF View
  <2>9. views'[t].muted <=> tabs[t].audio = "muted"
    <3>1. m <=> t \in Head(main).muted
      BY <2>6
    <3> QED BY <2>5, <2>8, <3>1
  <2> QED BY <1>1, <2>4, <2>9 DEF ViewIsCurrent
<1> QED BY <1>2, <1>4, <1>5 DEF MainInv

\* With an empty queue the window shows the tab that is active now; if that has a
\* page, resuming it posts a batch, else its new view has nothing to be muted.
LEMMA UpdateWindowFollows ==
  ASSUME Inv, MainInv, UpdateWindow
  PROVE  MainInv'
<1>1. /\ UNCHANGED <<active, shown>> /\ front' = shown.active
      /\ main \in Seq(Message) /\ active \in DOMAIN tabs
  BY DEF UpdateWindow, MainInv, Inv, AudioAgrees, TypeOK
<1>2. main = <<>> => shown = Snapshot(tabs, active)
  <2>1. main = <<>> => NoBatch(main)
    BY SMT DEF NoBatch
  <2> QED BY <2>1 DEF MainInv, NewestIsCurrent
<1>3. main = <<>> => front' = active /\ shown.tabs = tabs
  BY <1>1, <1>2 DEF Snapshot
<1>4. CASE front' \in DOMAIN views
  <2>1. UNCHANGED <<tabs, main, views>>
    BY <1>4 DEF UpdateWindow
  <2>2. ASSUME main = <<>>, NEW t \in DOMAIN views'
        PROVE  ViewIsCurrent(t)'
    <3>1. ViewIsCurrent(t)
      BY <2>1, <2>2 DEF MainInv, ViewsAreCurrent
    <3> QED BY <1>1, <1>3, <2>1, <2>2, <3>1 DEF ViewIsCurrent
  <2> QED BY <1>1, <2>1, <2>2, StillFollows
<1>5. CASE front' \notin DOMAIN views /\ shown.tabs[front'].empty
  <2>1. UNCHANGED <<tabs, main>> /\ views' = Put(views, front', NewView)
    BY <1>5 DEF UpdateWindow
  <2>2. ASSUME main = <<>>, NEW t \in DOMAIN views'
        PROVE  ViewIsCurrent(t)'
    <3>1. CASE t = front'
      BY <1>1, <1>3, <1>5, <2>1, <2>2, <3>1 DEF ViewIsCurrent
    <3>2. CASE t # front'
      <4>1. t \in DOMAIN views /\ views'[t] = views[t]
        BY <2>1, <2>2, <3>2 DEF Put
      <4>2. ViewIsCurrent(t)
        BY <2>2, <4>1 DEF MainInv, ViewsAreCurrent
      <4> QED BY <1>1, <1>3, <2>1, <2>2, <4>1, <4>2 DEF ViewIsCurrent
    <3> QED BY <3>1, <3>2
  <2> QED BY <1>1, <2>1, <2>2, StillFollows
<1>6. CASE front' \notin DOMAIN views /\ ~shown.tabs[front'].empty
  BY <1>1, <1>6, BatchFollows DEF UpdateWindow
<1> QED BY <1>4, <1>5, <1>6

LEMMA InitMain == Init => MainInv
<1> SUFFICES ASSUME Init PROVE MainInv
  OBVIOUS
<1>1. main = <<Published(tabs)>> /\ shown = Snapshot(tabs, active) /\ DOMAIN tabs \subseteq Tab
  BY DEF Init
<1>2. Published(tabs) \in Message
  BY <1>1, MessageFacts
<1> DEFINE first == Published(tabs)
<1>3. main = <<first>> /\ first \in Message
  BY <1>1, <1>2
<1> HIDE DEF first
<1>4. main \in Seq(Message) /\ main # <<>> /\ main[Len(main)] = first
  BY <1>3
<1> QED BY <1>1, <1>4 DEF MainInv, NewestIsCurrent, ViewsAreCurrent, first

LEMMA NextMain == Inv /\ MainInv /\ [Next]_vars => MainInv'
<1> SUFFICES ASSUME Inv, MainInv, [Next]_vars PROVE MainInv'
  OBVIOUS
<1>1. Inv'
  BY NextInv
<1>2. ASSUME NEW t \in Tab,
             \/ ActivateTab(t) \/ CreateTab(t) \/ CreateBackgroundTab(t) \/ CloseTab(t)
             \/ SetPinned(t) \/ SetMuted(t)
      PROVE  MainInv'
  BY <1>1, <1>2, CallsFollow
<1>3. ASSUME NEW t \in Tab,
             FollowLink(t) \/ Commit(t) \/ LoadEnds(t) \/ PlayOrPause(t) \/ DeliverPost(t)
      PROVE  MainInv'
  BY <1>3, PagesFollow
<1>4. CASE Navigate
  BY <1>4, BatchFollows DEF Navigate, MainInv
<1>5. CASE DeliverLastWords \/ HandleBatch \/ SyncViews \/ UpdateWindow
  BY <1>5, DeliverLastWordsFollows, HandleBatchFollows, SyncViewsFollows, UpdateWindowFollows
<1>6. CASE UNCHANGED vars
  <2>1. UNCHANGED <<tabs, active, shown, main, front, views>>
    BY <1>6 DEF vars, coreVars
  <2> QED BY <2>1, SameViewsFollow
<1> QED BY <1>2, <1>3, <1>4, <1>5, <1>6 DEF Next

\* WebViewStore.sync: whatever loads, suspensions, closes and window updates came
\* between, once the main queue has run dry no closed or suspended tab holds a web view,
\* but for the empty one in front.
THEOREM ViewsFollow == Spec => []ViewsFollowTabs
<1>1. MainInv => ViewsFollowTabs
  BY DEF MainInv, ViewsAreCurrent, ViewIsCurrent, ViewsFollowTabs
<1> QED BY <1>1, InitInv, NextInv, InitMain, NextMain, PTL DEF Spec

\* Once the main queue has run dry the page of a muted tab is muted and no other, though
\* each load replaces the document that was: its commit posts the batch that mutes it.
THEOREM MuteReaches == Spec => []MuteReachesPage
<1>1. MainInv => MuteReachesPage
  BY DEF MainInv, ViewsAreCurrent, ViewIsCurrent, MuteReachesPage
<1> QED BY <1>1, InitInv, NextInv, InitMain, NextMain, PTL DEF Spec
===============================================================================
