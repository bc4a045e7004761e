--------------------------- MODULE BookmarksProofs ---------------------------
(***************************************************************************)
(* The bookmarks stay a forest of folders: for every table, every sequence *)
(* of operations, and a break-off between any two statements of a move.    *)
(***************************************************************************)
EXTENDS Bookmarks, FiniteSetTheorems, TLAPS

\* What the two statements of a move that come before the new parent is
\* written rely on: nothing has changed since the checks.
MoveIsSafe ==
  move.step \in {"room", "place"} =>
    /\ move.id \in DOMAIN nodes
    /\ ValidateParent(move.to)
    /\ move.to # Root => ~WouldCreateCycle(move.id, move.to)

Inv == TypeOK /\ ParentsAreFolders /\ Acyclic /\ MoveIsSafe

\* Only positions and urls change.
SameTree ==
  /\ DOMAIN nodes' = DOMAIN nodes
  /\ \A n \in DOMAIN nodes :
       nodes'[n].parent = nodes[n].parent /\ nodes'[n].folder = nodes[n].folder

\* The type of a table, from the type of its rows.
LEMMA TableType ==
  ASSUME DOMAIN nodes' \subseteq Id,
         nodes' = [n \in DOMAIN nodes' |-> nodes'[n]],
         \A n \in DOMAIN nodes' : nodes'[n] \in Row
  PROVE  nodes' \in [DOMAIN nodes' -> Row]
  OBVIOUS

\* A step that keeps the tree keeps the forest, and what a move relies on.
LEMMA SameTreeForest ==
  ASSUME ParentsAreFolders, Acyclic, SameTree
  PROVE  ParentsAreFolders' /\ Acyclic'
<1>1. ParentsAreFolders'
  BY DEF SameTree, ParentsAreFolders, ValidateParent
<1>2. Acyclic'
  BY DEF SameTree, Acyclic
<1> QED BY <1>1, <1>2

LEMMA SameTreeCycle ==
  ASSUME SameTree, NEW node, NEW candidate
  PROVE  WouldCreateCycle(node, candidate)' <=> WouldCreateCycle(node, candidate)
  BY DEF SameTree, WouldCreateCycle

\* Finitely many rows stand before a row, and their number is one.
LEMMA IndexType ==
  ASSUME TypeOK, NEW n \in DOMAIN nodes
  PROVE  /\ IsFiniteSet({s \in Siblings(nodes[n].parent) : Precedes(s, n)})
         /\ Index(n) \in Nat
<1>1. IsFiniteSet(Id)
  BY MaxIdIsPos, FS_Interval DEF Id
<1>2. IsFiniteSet({s \in Siblings(nodes[n].parent) : Precedes(s, n)})
  <2>1. {s \in Siblings(nodes[n].parent) : Precedes(s, n)} \subseteq Id
    BY DEF TypeOK, Siblings
  <2> QED BY <1>1, <2>1, FS_Subset
<1> QED BY <1>2, FS_CardinalityType DEF Index

LEMMA ClampType ==
  ASSUME NEW i \in Int, NEW hi \in Nat
  PROVE  Clamp(i, hi) \in Nat
  BY DEF Clamp
-----------------------------------------------------------------------------
LEMMA InitInv == Init => Inv
<1> SUFFICES ASSUME Init PROVE Inv
  OBVIOUS
<1>1. DOMAIN nodes = {}
  BY DEF Init
<1>2. TypeOK
  BY <1>1 DEF Init, TypeOK, Idle
<1>3. ParentsAreFolders /\ Acyclic
  BY <1>1 DEF ParentsAreFolders, Acyclic
<1>4. MoveIsSafe
  BY DEF Init, Idle, MoveIsSafe
<1> QED BY <1>2, <1>3, <1>4 DEF Inv

\* A new row is a leaf below a folder that is there.
LEMMA InsertInv ==
  ASSUME Inv, NEW p \in Id \cup {Root}, NEW folder \in BOOLEAN, NEW url \in Page \cup {NoPage},
         folder <=> url = NoPage, Insert(p, folder, url)
  PROVE  Inv'
<1>1. PICK id \in Id, pos \in 0 .. MaxPos :
        /\ FreshId(id)
        /\ nodes' = Put(nodes, id, [parent |-> p, folder |-> folder, url |-> url, pos |-> pos])
  BY DEF Insert
<1> DEFINE row == [parent |-> p, folder |-> folder, url |-> url, pos |-> pos]
<1>2. /\ move = Idle /\ move' = Idle
      /\ ValidateParent(p)
  BY DEF Insert
<1>3. id \notin DOMAIN nodes
  BY <1>1, MaxIdIsPos DEF FreshId, Id
<1>4. /\ DOMAIN nodes' = DOMAIN nodes \cup {id}
      /\ nodes'[id] = row
      /\ \A n \in DOMAIN nodes : nodes'[n] = nodes[n]
      /\ nodes' = [n \in DOMAIN nodes' |-> nodes'[n]]
  BY <1>1, <1>3 DEF Put
<1>5. row \in Row
  BY MaxPosIsNat DEF Row
<1>6. TypeOK'
  <2>1. \A n \in DOMAIN nodes' : nodes'[n] \in Row
    BY <1>4, <1>5 DEF Inv, TypeOK
  <2>2. DOMAIN nodes' \subseteq Id
    BY <1>1, <1>4 DEF Inv, TypeOK
  <2>3. \A n \in DOMAIN nodes' : nodes'[n].folder <=> nodes'[n].url = NoPage
    BY <1>4 DEF Inv, TypeOK
  <2> QED BY <1>2, <1>4, <2>1, <2>2, <2>3, TableType DEF TypeOK
<1>7. ParentsAreFolders'
  BY <1>2, <1>4 DEF Inv, ParentsAreFolders, ValidateParent
<1>8. Acyclic'
  <2> SUFFICES ASSUME NEW S \in SUBSET DOMAIN nodes', S # {}
               PROVE  \E n \in S : nodes'[n].parent \notin S
    BY DEF Acyclic
  <2>1. CASE id \notin S
    BY <2>1, <1>4 DEF Inv, Acyclic
  <2>2. CASE S = {id}
    <3>1. p # id
      BY <1>2, <1>3 DEF ValidateParent, Root, Id
    <3> QED BY <2>2, <3>1, <1>4
  <2>3. CASE id \in S /\ S # {id}
    <3>1. PICK n \in S \ {id} : nodes[n].parent \notin S \ {id}
      <4>1. S \ {id} \in SUBSET DOMAIN nodes /\ S \ {id} # {}
        BY <2>3, <1>4
      <4> QED BY <4>1 DEF Inv, Acyclic
    <3>2. nodes[n].parent # id
      BY <3>1, <1>3, <1>4 DEF Inv, ParentsAreFolders, ValidateParent, Root, Id
    <3> QED BY <3>1, <3>2, <1>4
  <2> QED BY <2>1, <2>2, <2>3
<1>9. MoveIsSafe'
  BY <1>2 DEF MoveIsSafe, Idle
<1> QED BY <1>6, <1>7, <1>8, <1>9 DEF Inv

\* What remains of a cascade is closed under parents.
LEMMA DeleteInv ==
  ASSUME Inv, DeleteNode
  PROVE  Inv'
<1>1. PICK id \in DOMAIN nodes : nodes' = Drop(nodes, Cascade(id))
  BY DEF DeleteNode
<1>2. move = Idle /\ move' = Idle
  BY DEF DeleteNode
<1>3. /\ DOMAIN nodes' = DOMAIN nodes \ Cascade(id)
      /\ \A n \in DOMAIN nodes' : nodes'[n] = nodes[n]
      /\ nodes' = [n \in DOMAIN nodes' |-> nodes'[n]]
  BY <1>1 DEF Drop
<1>4. TypeOK'
  <2>1. /\ \A n \in DOMAIN nodes' : nodes'[n] \in Row
        /\ DOMAIN nodes' \subseteq Id
        /\ \A n \in DOMAIN nodes' : nodes'[n].folder <=> nodes'[n].url = NoPage
    BY <1>3 DEF Inv, TypeOK
  <2> QED BY <1>2, <1>3, <2>1, TableType DEF TypeOK
<1>5. ASSUME NEW n \in DOMAIN nodes', nodes[n].parent # Root
      PROVE  nodes[n].parent \in DOMAIN nodes'
  <2> DEFINE q == nodes[n].parent
  <2>1. n \in DOMAIN nodes /\ n \notin Cascade(id) /\ q \in DOMAIN nodes
    BY <1>3, <1>5 DEF Inv, ParentsAreFolders, ValidateParent
  <2>2. PICK visited \in SUBSET DOMAIN nodes :
          /\ n \in visited /\ id \notin visited
          /\ \A m \in visited : nodes[m].parent # Root => nodes[m].parent \in visited
    BY <2>1 DEF Cascade, WouldCreateCycle
  <2>3. q \in visited
    BY <2>2, <1>5
  <2>4. ~WouldCreateCycle(id, q)
    BY <2>2, <2>3 DEF WouldCreateCycle
  <2> QED BY <2>1, <2>4, <1>3 DEF Cascade
<1>6. ParentsAreFolders'
  BY <1>3, <1>5 DEF Inv, ParentsAreFolders, ValidateParent
<1>7. Acyclic'
  BY <1>3 DEF Inv, Acyclic
<1>8. MoveIsSafe'
  BY <1>2 DEF MoveIsSafe, Idle
<1> QED BY <1>4, <1>6, <1>7, <1>8 DEF Inv

\* A new url changes no tree.
LEMMA UpdateInv ==
  ASSUME Inv, UpdateNode
  PROVE  Inv'
<1>1. PICK id \in DOMAIN nodes, url \in Page :
        nodes' = [nodes EXCEPT ![id].url = IF nodes[id].folder THEN NoPage ELSE url]
  BY DEF UpdateNode
<1>2. move = Idle /\ move' = Idle
  BY DEF UpdateNode
<1>3. \A n \in DOMAIN nodes : nodes[n] \in Row
  BY DEF Inv, TypeOK
<1>4. /\ DOMAIN nodes' = DOMAIN nodes
      /\ nodes' = [n \in DOMAIN nodes' |-> nodes'[n]]
  BY <1>1
<1>5. ASSUME NEW n \in DOMAIN nodes
      PROVE  /\ nodes'[n] \in Row
             /\ nodes'[n].parent = nodes[n].parent
             /\ nodes'[n].folder = nodes[n].folder
             /\ nodes'[n].folder <=> nodes'[n].url = NoPage
  <2>1. CASE n # id
    BY <1>1, <1>3, <2>1 DEF Inv, TypeOK
  <2>2. CASE n = id
    <3>1. nodes'[id] = [nodes[id] EXCEPT !.url = IF nodes[id].folder THEN NoPage ELSE url]
      BY <1>1
    <3>2. nodes[id] \in Row
      BY <1>3
    <3> QED BY <2>2, <3>1, <3>2, NoPageIsNoPage DEF Row
  <2> QED BY <2>1, <2>2
<1>6. SameTree
  BY <1>4, <1>5 DEF SameTree
<1>7. TypeOK'
  BY <1>2, <1>4, <1>5, TableType DEF Inv, TypeOK
<1>8. MoveIsSafe'
  BY <1>2 DEF MoveIsSafe, Idle
<1> QED BY <1>6, <1>7, <1>8, SameTreeForest DEF Inv

\* The checks of move_node.
LEMMA MoveNodeInv ==
  ASSUME Inv, MoveNode
  PROVE  Inv'
<1>1. PICK id \in DOMAIN nodes, to \in Id \cup {Root}, position \in -1 .. MaxPos :
        /\ id # to
        /\ to # Root => ~WouldCreateCycle(id, to)
        /\ ValidateParent(to)
        /\ move' = [step |-> "room", id |-> id, from |-> nodes[id].parent, to |-> to,
                    at |-> Clamp(position, Cardinality(Siblings(to) \ {id}))]
  BY DEF MoveNode
<1>2. nodes' = nodes
  BY DEF MoveNode
<1>3. move' \in Move
  <2>1. Cardinality(Siblings(to) \ {id}) \in Nat
    <3>1. Siblings(to) \ {id} \subseteq Id
      BY DEF Inv, TypeOK, Siblings
    <3>2. IsFiniteSet(Id)
      BY MaxIdIsPos, FS_Interval DEF Id
    <3> QED BY <3>1, <3>2, FS_Subset, FS_CardinalityType
  <2>2. Clamp(position, Cardinality(Siblings(to) \ {id})) \in Nat
    <3>1. position \in Int
      BY MaxPosIsNat
    <3> QED BY <2>1, <3>1, ClampType
  <2>3. id \in Id /\ nodes[id].parent \in Id \cup {Root}
    BY DEF Inv, TypeOK, Row
  <2> QED BY <1>1, <2>2, <2>3 DEF Move
<1>4. TypeOK'
  BY <1>2, <1>3 DEF Inv, TypeOK
<1>5. ParentsAreFolders' /\ Acyclic'
  BY <1>2 DEF Inv, ParentsAreFolders, ValidateParent, Acyclic
<1>6. MoveIsSafe'
  <2>1. move'.id = id /\ move'.to = to
    BY <1>1
  <2>2. \A c : WouldCreateCycle(id, c)' <=> WouldCreateCycle(id, c)
    BY <1>2 DEF WouldCreateCycle
  <2> QED BY <1>1, <1>2, <2>1, <2>2 DEF MoveIsSafe, ValidateParent
<1> QED BY <1>4, <1>5, <1>6 DEF Inv

\* A statement that gives rows new positions and nothing else.
LEMMA NewPositions ==
  ASSUME Inv, NEW P \in SUBSET DOMAIN nodes, NEW f,
         \A n \in P : f[n] \in Nat,
         nodes' = [n \in DOMAIN nodes |-> IF n \in P THEN [nodes[n] EXCEPT !.pos = f[n]] ELSE nodes[n]]
  PROVE  /\ SameTree
         /\ ParentsAreFolders' /\ Acyclic'
         /\ move' \in Move \cup {Idle} => TypeOK'
<1>1. /\ DOMAIN nodes' = DOMAIN nodes
      /\ nodes' = [n \in DOMAIN nodes' |-> nodes'[n]]
  OBVIOUS
<1>2. ASSUME NEW n \in DOMAIN nodes
      PROVE  /\ nodes'[n] \in Row
             /\ nodes'[n].parent = nodes[n].parent
             /\ nodes'[n].folder = nodes[n].folder
             /\ nodes'[n].url = nodes[n].url
  <2>1. nodes[n] \in Row
    BY DEF Inv, TypeOK
  <2>2. CASE n \notin P
    BY <2>1, <2>2
  <2>3. CASE n \in P
    <3>1. nodes'[n] = [nodes[n] EXCEPT !.pos = f[n]]
      BY <2>3
    <3>2. f[n] \in Nat
      BY <2>3
    <3> QED BY <2>1, <3>1, <3>2 DEF Row
  <2> QED BY <2>2, <2>3
<1>3. SameTree
  BY <1>1, <1>2 DEF SameTree
<1>4. ASSUME move' \in Move \cup {Idle}
      PROVE  TypeOK'
  BY <1>1, <1>2, <1>4, TableType DEF Inv, TypeOK
<1> QED BY <1>3, <1>4, SameTreeForest DEF Inv

LEMMA MakeRoomInv ==
  ASSUME Inv, MakeRoom
  PROVE  Inv'
<1> DEFINE P == {n \in Siblings(move.to) \ {move.id} : nodes[n].pos >= move.at}
           f == [n \in P |-> nodes[n].pos + 1]
<1>1. P \in SUBSET DOMAIN nodes /\ \A n \in P : f[n] \in Nat
  BY DEF Siblings, Inv, TypeOK, Row
<1>2. nodes' = [n \in DOMAIN nodes |-> IF n \in P THEN [nodes[n] EXCEPT !.pos = f[n]] ELSE nodes[n]]
  BY DEF MakeRoom
<1>3. move \in Move /\ move.step = "room"
  BY DEF Inv, TypeOK, MakeRoom, Idle
<1>4. move' = [move EXCEPT !.step = "place"]
  BY DEF MakeRoom
<1>5. move' \in Move /\ move'.id = move.id /\ move'.to = move.to
  BY <1>3, <1>4 DEF Move
<1> HIDE DEF P, f
<1>6. SameTree /\ ParentsAreFolders' /\ Acyclic' /\ TypeOK'
  BY <1>1, <1>2, <1>5, NewPositions
<1>7. MoveIsSafe'
  BY <1>3, <1>5, <1>6, SameTreeCycle DEF Inv, MoveIsSafe, SameTree, ValidateParent
<1> QED BY <1>6, <1>7 DEF Inv

\* resequence, in one folder or the other
LEMMA ResequencedForest ==
  ASSUME Inv, NEW p, nodes' = Resequenced(p), move' \in Move \cup {Idle}
  PROVE  ParentsAreFolders' /\ Acyclic' /\ TypeOK'
<1> DEFINE f == [n \in Siblings(p) |-> Index(n)]
<1>1. Siblings(p) \in SUBSET DOMAIN nodes
  BY DEF Siblings
<1>2. \A n \in Siblings(p) : f[n] \in Nat
  BY <1>1, IndexType DEF Inv
<1>3. nodes' = [n \in DOMAIN nodes |->
                  IF n \in Siblings(p) THEN [nodes[n] EXCEPT !.pos = f[n]] ELSE nodes[n]]
  BY DEF Resequenced
<1> HIDE DEF f
<1> QED BY <1>1, <1>2, <1>3, NewPositions

LEMMA CompactInv ==
  ASSUME Inv, CompactOld \/ CompactNew
  PROVE  Inv'
<1>1. move' \in Move \cup {Idle} /\ move'.step \notin {"room", "place"}
  <2>1. CASE CompactOld
    <3>1. move \in Move
      BY <2>1 DEF CompactOld, Inv, TypeOK, Idle
    <3> QED BY <2>1, <3>1 DEF CompactOld, Move
  <2>2. CASE CompactNew
    BY <2>2 DEF CompactNew, Idle
  <2> QED BY <2>1, <2>2
<1>2. \E p : nodes' = Resequenced(p)
  BY DEF CompactOld, CompactNew
<1>3. MoveIsSafe'
  BY <1>1 DEF MoveIsSafe
<1> QED BY <1>1, <1>2, <1>3, ResequencedForest DEF Inv

\* The new parent is written: a set of rows without a way out, cut down to
\* what the walk up from the new parent visits, was there before the move.
LEMMA PlaceInv ==
  ASSUME Inv, Place
  PROVE  Inv'
<1> DEFINE id == move.id
           to == move.to
<1>1. move \in Move /\ move.step = "place"
  BY DEF Inv, TypeOK, Place, Idle
<1>2. move' \in Move /\ move'.step = "compact_old"
  BY <1>1 DEF Place, Move
<1>3. id \in DOMAIN nodes /\ ValidateParent(to) /\ (to # Root => ~WouldCreateCycle(id, to))
  BY <1>1 DEF Inv, MoveIsSafe
<1>4. to \in Id \cup {Root} /\ move.at \in Nat
  BY <1>1 DEF Move
<1>5. nodes' = [nodes EXCEPT ![id].parent = to, ![id].pos = move.at]
  BY DEF Place
<1> HIDE DEF id, to
<1>6. /\ DOMAIN nodes' = DOMAIN nodes
      /\ nodes' = [n \in DOMAIN nodes' |-> nodes'[n]]
      /\ \A n \in DOMAIN nodes : n # id => nodes'[n] = nodes[n]
  BY <1>5
<1>7. /\ nodes'[id] \in Row
      /\ nodes'[id].parent = to
      /\ nodes'[id].folder = nodes[id].folder
      /\ nodes'[id].url = nodes[id].url
  <2>1. nodes[id] \in Row
    BY <1>3 DEF Inv, TypeOK
  <2>2. nodes'[id] = [[nodes[id] EXCEPT !.parent = to] EXCEPT !.pos = move.at]
    BY <1>3, <1>5
  <2> QED BY <2>1, <2>2, <1>4 DEF Row
<1>8. TypeOK'
  BY <1>2, <1>3, <1>6, <1>7, TableType DEF Inv, TypeOK
<1>9. ParentsAreFolders'
  BY <1>3, <1>6, <1>7 DEF Inv, ParentsAreFolders, ValidateParent
<1>10. Acyclic'
  <2> SUFFICES ASSUME NEW S \in SUBSET DOMAIN nodes', S # {},
                      \A n \in S : nodes'[n].parent \in S
               PROVE  FALSE
    BY DEF Acyclic
  <2>1. id \in S
    <3>1. PICK n \in S : nodes[n].parent \notin S
      BY <1>6 DEF Inv, Acyclic
    <3> QED BY <3>1, <1>6
  <2>2. to \in S /\ to # Root
    BY <2>1, <1>6, <1>7 DEF Inv, TypeOK, Root, Id
  <2>3. PICK visited \in SUBSET DOMAIN nodes :
          /\ to \in visited /\ id \notin visited
          /\ \A n \in visited : nodes[n].parent # Root => nodes[n].parent \in visited
    BY <2>2, <1>3 DEF WouldCreateCycle
  <2>4. PICK n \in S \cap visited : nodes[n].parent \notin S \cap visited
    BY <2>2, <2>3 DEF Inv, Acyclic
  <2>5. n # id /\ nodes[n].parent \in S
    BY <2>3, <2>4, <1>6
  <2>6. nodes[n].parent # Root
    BY <2>5, <1>6 DEF Inv, TypeOK, Root, Id
  <2> QED BY <2>3, <2>4, <2>5, <2>6
<1>11. MoveIsSafe'
  BY <1>2 DEF MoveIsSafe
<1> QED BY <1>8, <1>9, <1>10, <1>11 DEF Inv

LEMMA BreakOffInv ==
  ASSUME Inv, move' = Idle, nodes' = nodes
  PROVE  Inv'
<1>1. TypeOK' /\ ParentsAreFolders' /\ Acyclic'
  BY DEF Inv, TypeOK, ParentsAreFolders, ValidateParent, Acyclic
<1>2. MoveIsSafe'
  BY DEF MoveIsSafe, Idle
<1> QED BY <1>1, <1>2 DEF Inv

LEMMA NextInv == Inv /\ [Next]_vars => Inv'
<1> SUFFICES ASSUME Inv, [Next]_vars PROVE Inv'
  OBVIOUS
<1>1. CASE InsertBookmark
  BY <1>1, InsertInv, NoPageIsNoPage DEF InsertBookmark
<1>2. CASE InsertFolder
  BY <1>2, InsertInv DEF InsertFolder
<1>3. CASE UpdateNode
  BY <1>3, UpdateInv
<1>4. CASE DeleteNode
  BY <1>4, DeleteInv
<1>5. CASE MoveNode
  BY <1>5, MoveNodeInv
<1>6. CASE MoveStep
  BY <1>6, MakeRoomInv, PlaceInv, CompactInv DEF MoveStep
<1>7. CASE BreakOff
  BY <1>7, BreakOffInv DEF BreakOff
<1>8. CASE UNCHANGED vars
  <2>1. TypeOK' /\ ParentsAreFolders' /\ Acyclic'
    BY <1>8 DEF vars, Inv, TypeOK, ParentsAreFolders, ValidateParent, Acyclic
  <2>2. MoveIsSafe'
    BY <1>8 DEF vars, Inv, MoveIsSafe, ValidateParent, WouldCreateCycle
  <2> QED BY <2>1, <2>2 DEF Inv
<1> QED BY <1>1, <1>2, <1>3, <1>4, <1>5, <1>6, <1>7, <1>8 DEF Next
-----------------------------------------------------------------------------
\* Every table the operations can make, also with broken moves, has rows and
\* a move of their types.
THEOREM TypeCorrect == Spec => []TypeOK
<1>1. Inv => TypeOK
  BY DEF Inv
<1> QED BY <1>1, InitInv, NextInv, PTL DEF Spec

\* Folders never form a cycle and no entry hangs in what is not a folder of
\* the table, although the check and the new parent are different statements
\* and a delete takes whole subtrees with it.
THEOREM ForestHolds == Spec => []Forest
<1>1. Inv => Forest
  BY DEF Inv, Forest
<1> QED BY <1>1, InitInv, NextInv, PTL DEF Spec
-----------------------------------------------------------------------------
(***************************************************************************)
(* The order of the entries that are not moved                             *)
(***************************************************************************)

RowFacts == \A n \in DOMAIN nodes :
  n \in Nat /\ nodes[n].pos \in Nat /\ nodes[n].parent \in Id \cup {Root}

LEMMA RowsAreTyped == TypeOK => RowFacts
  BY MaxIdIsPos DEF TypeOK, Row, RowFacts, Id

\* ORDER BY position, id is a strict order of the rows, and total.
LEMMA PrecedesOrders ==
  ASSUME RowFacts, NEW a \in DOMAIN nodes, NEW b \in DOMAIN nodes
  PROVE  /\ ~Precedes(a, a)
         /\ a # b => Precedes(a, b) \/ Precedes(b, a)
         /\ \A c \in DOMAIN nodes : Precedes(a, b) /\ Precedes(b, c) => Precedes(a, c)
  BY SMT DEF RowFacts, Precedes

\* The index of a row among its siblings grows with the order.
LEMMA IndexGrows ==
  ASSUME TypeOK, NEW a \in DOMAIN nodes, NEW b \in DOMAIN nodes,
         nodes[a].parent = nodes[b].parent, Precedes(a, b)
  PROVE  Index(a) < Index(b)
<1> DEFINE A == {s \in Siblings(nodes[a].parent) : Precedes(s, a)}
           B == {s \in Siblings(nodes[b].parent) : Precedes(s, b)}
<1>1. IsFiniteSet(B) /\ Index(a) \in Nat /\ Index(b) \in Nat
  BY IndexType
<1>2. A \in SUBSET B /\ a \in B /\ a \notin A
  BY RowsAreTyped, PrecedesOrders DEF Siblings
<1>3. Index(a) = Cardinality(A) /\ Index(b) = Cardinality(B)
  BY DEF Index
<1> HIDE DEF A, B
<1>4. Cardinality(A) <= Cardinality(B) /\ Cardinality(A) # Cardinality(B)
  BY <1>1, <1>2, FS_Subset
<1> QED BY <1>1, <1>3, <1>4

\* What the property asks of a step, for two entries.
KeepsOrder(a, b) == Precedes(a, b) <=> Precedes(a, b)'

LEMMA SamePositions ==
  ASSUME NEW a, NEW b, nodes'[a].pos = nodes[a].pos, nodes'[b].pos = nodes[b].pos
  PROVE  KeepsOrder(a, b)
  BY DEF KeepsOrder, Precedes

\* resequence: siblings get new positions in the old order, and no others do.
LEMMA ResequencedKeepsOrder ==
  ASSUME TypeOK, NEW p, nodes' = Resequenced(p), NEW a \in DOMAIN nodes, NEW b \in DOMAIN nodes,
         nodes[a].parent = nodes[b].parent
  PROVE  KeepsOrder(a, b)
<1>1. RowFacts
  BY RowsAreTyped
<1>2. \A n \in DOMAIN nodes :
        nodes'[n].pos = IF nodes[n].parent = p THEN Index(n) ELSE nodes[n].pos
  <2>1. \A n \in DOMAIN nodes : nodes[n] \in Row
    BY DEF TypeOK
  <2> QED BY <2>1 DEF Resequenced, Siblings, Row
<1>3. CASE nodes[a].parent # p
  BY <1>2, <1>3, SamePositions
<1>4. CASE nodes[a].parent = p
  <2>1. nodes'[a].pos = Index(a) /\ nodes'[b].pos = Index(b)
    BY <1>2, <1>4
  <2>2. CASE Precedes(a, b)
    BY <2>1, <2>2, IndexGrows DEF KeepsOrder, Precedes
  <2>3. CASE a = b
    <3>1. ~Precedes(a, b)
      BY <1>1, <2>3, PrecedesOrders
    <3>2. Index(a) \in Nat /\ a \in Nat
      BY <1>1, IndexType DEF RowFacts
    <3>3. ~Precedes(a, b)'
      BY <2>1, <2>3, <3>2 DEF Precedes
    <3> QED BY <3>1, <3>3 DEF KeepsOrder
  <2>4. CASE Precedes(b, a)
    <3>1. ~Precedes(a, b)
      BY <1>1, <2>4, PrecedesOrders
    <3>2. Index(b) \in Nat /\ Index(a) \in Nat /\ Index(b) < Index(a)
      BY <2>4, IndexGrows, IndexType
    <3>3. ~Precedes(a, b)'
      BY <2>1, <3>2 DEF Precedes
    <3> QED BY <3>1, <3>3 DEF KeepsOrder
  <2> QED BY <1>1, <2>2, <2>3, <2>4, PrecedesOrders
<1> QED BY <1>3, <1>4

\* Making room moves all that stand behind a position, by one.
LEMMA MakeRoomKeepsOrder ==
  ASSUME TypeOK, MakeRoom, NEW a \in DOMAIN nodes, NEW b \in DOMAIN nodes,
         nodes[a].parent = nodes[b].parent, a # move.id, b # move.id
  PROVE  KeepsOrder(a, b)
<1>1. RowFacts
  BY RowsAreTyped
<1>2. move.at \in Nat
  BY DEF MakeRoom, TypeOK, Move, Idle
<1> DEFINE behind(n) == nodes[n].parent = move.to /\ nodes[n].pos >= move.at
<1>3. \A n \in {a, b} : nodes'[n].pos = IF behind(n) THEN nodes[n].pos + 1 ELSE nodes[n].pos
  <2>1. \A n \in DOMAIN nodes : nodes[n] \in Row
    BY DEF TypeOK
  <2> QED BY <2>1 DEF MakeRoom, Siblings, Row
<1> QED BY <1>1, <1>2, <1>3, SMT DEF KeepsOrder, Precedes, RowFacts

\* Whatever statement runs, and after whatever break-off: the entries of a folder
\* that are not the moved one keep the order in which the shell shows them.
THEOREM OrderHolds == Spec => OthersKeepOrder
<1> DEFINE Kept ==
      \A a, b \in DOMAIN nodes \cap DOMAIN nodes' :
        (/\ nodes[a].parent = nodes[b].parent
         /\ nodes'[a].parent = nodes'[b].parent
         /\ move # Idle => move.id \notin {a, b})
        => (Precedes(a, b) <=> Precedes(a, b)')
<1>1. Inv /\ [Next]_vars => Kept
  <2> SUFFICES ASSUME Inv, [Next]_vars,
                      NEW a \in DOMAIN nodes \cap DOMAIN nodes',
                      NEW b \in DOMAIN nodes \cap DOMAIN nodes',
                      nodes[a].parent = nodes[b].parent,
                      move # Idle => move.id \notin {a, b}
               PROVE  KeepsOrder(a, b)
    BY DEF KeepsOrder
  <2>1. TypeOK /\ \A n \in DOMAIN nodes : nodes[n] \in Row
    BY DEF Inv, TypeOK
  <2>2. move.step \in {"room", "place", "compact_old", "compact_new"} => a # move.id /\ b # move.id
    BY DEF Idle
  <2>3. CASE InsertBookmark \/ InsertFolder
    <3>1. PICK id \in Id : \E row : FreshId(id) /\ nodes' = Put(nodes, id, row)
      BY <2>3 DEF InsertBookmark, InsertFolder, Insert
    <3>2. id \notin DOMAIN nodes
      BY <3>1, MaxIdIsPos, SMT DEF FreshId, Id
    <3> QED BY <3>1, <3>2, SamePositions DEF Put
  <2>4. CASE UpdateNode
    BY <2>1, <2>4, SamePositions DEF UpdateNode, Row
  <2>5. CASE DeleteNode
    BY <2>5, SamePositions DEF DeleteNode, Drop
  <2>6. CASE MoveNode \/ BreakOff \/ UNCHANGED vars
    BY <2>6, SamePositions DEF MoveNode, BreakOff, vars
  <2>7. CASE MakeRoom
    BY <2>1, <2>2, <2>7, MakeRoomKeepsOrder DEF MakeRoom
  <2>8. CASE Place
    BY <2>2, <2>8, SamePositions DEF Place
  <2>9. CASE CompactOld
    BY <2>1, <2>9, ResequencedKeepsOrder DEF CompactOld
  <2>10. CASE CompactNew
    BY <2>1, <2>10, ResequencedKeepsOrder DEF CompactNew
  <2> QED BY <2>3, <2>4, <2>5, <2>6, <2>7, <2>8, <2>9, <2>10 DEF Next, MoveStep
<1>2. Spec => []Inv
  BY InitInv, NextInv, PTL DEF Spec
<1>3. Spec => [][Kept]_vars
  BY <1>1, <1>2, PTL DEF Spec
<1> QED BY <1>3 DEF OthersKeepOrder
-----------------------------------------------------------------------------
(***************************************************************************)
(* Positions after a move                                                  *)
(***************************************************************************)

\* As many different numbers below n as there are elements are all of them.
LEMMA NumbersFill ==
  ASSUME NEW S, IsFiniteSet(S), NEW f \in [S -> 0 .. Cardinality(S) - 1],
         \A a, b \in S : f[a] = f[b] => a = b
  PROVE  \A i \in 0 .. Cardinality(S) - 1 : \E s \in S : f[s] = i
<1> DEFINE n == Cardinality(S)
           T == 0 .. n - 1
<1>1. n \in Nat
  BY FS_CardinalityType
<1>2. IsFiniteSet(T) /\ Cardinality(T) = n
  <2> HIDE DEF n
  <2>1. 0 \in Int /\ n - 1 \in Int
    BY <1>1
  <2>2. IsFiniteSet(T) /\ Cardinality(T) = IF 0 > n - 1 THEN 0 ELSE n - 1 - 0 + 1
    BY <2>1, FS_Interval
  <2> QED BY <1>1, <2>2, SMT
<1> HIDE DEF T
<1>3. f \in [S -> T]
  BY DEF T
<1>4. f \in Injection(S, T)
  BY <1>3 DEF Injection, IsInjective
<1>5. f \in Surjection(S, T)
  BY <1>2, <1>4, FS_Injection
<1> QED BY <1>5 DEF Surjection, T

\* A folder that is numbered anew has the positions 0 .. n-1.
LEMMA ResequencedIsDense ==
  ASSUME TypeOK, NEW p, nodes' = Resequenced(p)
  PROVE  Dense(p)'
<1> DEFINE S == Siblings(p)
           f == [n \in S |-> Index(n)]
<1>1. S \subseteq DOMAIN nodes /\ \A n \in S : nodes[n].parent = p
  BY DEF Siblings
<1>2. IsFiniteSet(S)
  <2>1. 1 \in Int /\ MaxId \in Int
    BY MaxIdIsPos
  <2>2. IsFiniteSet(Id) /\ S \in SUBSET Id
    BY <1>1, <2>1, FS_Interval DEF TypeOK, Id
  <2> QED BY <2>2, FS_Subset
<1>3. \A n \in S : Index(n) \in Nat /\ Index(n) < Cardinality(S)
  <2> SUFFICES ASSUME NEW n \in S PROVE Index(n) \in Nat /\ Index(n) < Cardinality(S)
    OBVIOUS
  <2> DEFINE below == {s \in S : Precedes(s, n)}
  <2>1. n \in S /\ n \notin below
    BY <1>1, RowsAreTyped, PrecedesOrders
  <2>2. Index(n) = Cardinality(below)
    BY <1>1 DEF Index
  <2>3. below \in SUBSET S
    OBVIOUS
  <2> HIDE DEF S, below
  <2>4. below # S
    BY <2>1
  <2>5. /\ IsFiniteSet(below)
        /\ Cardinality(below) <= Cardinality(S) /\ Cardinality(below) # Cardinality(S)
    BY <1>2, <2>3, <2>4, FS_Subset
  <2>6. Cardinality(S) \in Nat /\ Cardinality(below) \in Nat
    BY <1>2, <2>5, FS_CardinalityType
  <2> QED BY <2>2, <2>5, <2>6
<1>4. \A a, b \in S : Index(a) = Index(b) => a = b
  <2> SUFFICES ASSUME NEW a \in S, NEW b \in S, a # b PROVE Index(a) # Index(b)
    OBVIOUS
  <2>1. Precedes(a, b) \/ Precedes(b, a)
    BY <1>1, RowsAreTyped, PrecedesOrders
  <2>2. Index(a) < Index(b) \/ Index(b) < Index(a)
    BY <1>1, <2>1, IndexGrows
  <2> QED BY <1>3, <2>2
<1>5. Siblings(p)' = S /\ \A n \in S : nodes'[n].pos = Index(n)
  <2>1. \A n \in DOMAIN nodes : nodes[n] \in Row
    BY DEF TypeOK
  <2> QED BY <2>1 DEF Resequenced, Siblings, Row
<1> HIDE DEF S
<1>6. Cardinality(S) \in Nat
  BY <1>2, FS_CardinalityType
<1>7. f \in [S -> 0 .. Cardinality(S) - 1]
  BY <1>3, <1>6, SMT
<1>8. \A n \in S : f[n] = Index(n)
  OBVIOUS
<1> HIDE DEF f
<1>9. \A i \in 0 .. Cardinality(S) - 1 : \E n \in S : f[n] = i
  BY <1>2, <1>4, <1>7, <1>8, NumbersFill
<1>10. {nodes'[n].pos : n \in S} = 0 .. Cardinality(S) - 1
  BY <1>5, <1>7, <1>8, <1>9
<1> QED BY <1>5, <1>10 DEF Dense

\* The other folders are not touched.
LEMMA OthersStayDense ==
  ASSUME TypeOK, NEW p, NEW q, q # p, nodes' = Resequenced(p), Dense(q)
  PROVE  Dense(q)'
<1>1. \A n \in DOMAIN nodes : nodes[n] \in Row
  BY DEF TypeOK
<1>2. Siblings(q)' = Siblings(q) /\ \A n \in Siblings(q) : nodes'[n].pos = nodes[n].pos
  BY <1>1 DEF Resequenced, Siblings, Row
<1> QED BY <1>2 DEF Dense

\* The folder a move came from is dense before its last statement.
OldIsDense == move.step = "compact_new" => Dense(move.from)

LEMMA OldIsDenseHolds == Spec => []OldIsDense
<1>1. Init => OldIsDense
  BY DEF Init, OldIsDense, Idle
<1>2. Inv /\ OldIsDense /\ [Next]_vars => OldIsDense'
  <2> SUFFICES ASSUME Inv, OldIsDense, [Next]_vars, move'.step = "compact_new"
               PROVE  Dense(move.from)'
    BY DEF OldIsDense
  <2>1. CASE CompactOld
    <3>1. move'.from = move.from /\ nodes' = Resequenced(move.from)
      BY <2>1 DEF CompactOld, Inv, TypeOK, Move, Idle
    <3> DEFINE p == move.from
    <3>2. Dense(p)'
      BY <3>1, ResequencedIsDense DEF Inv
    <3> QED BY <3>1, <3>2
  <2>2. CASE UNCHANGED vars
    BY <2>2 DEF vars, OldIsDense, Dense, Siblings
  <2>3. CASE MakeRoom \/ Place
    BY <2>3 DEF MakeRoom, Place, Inv, TypeOK, Move, Idle
  <2>4. CASE CompactNew \/ BreakOff
    BY <2>4 DEF CompactNew, BreakOff, Idle
  <2>5. CASE InsertBookmark \/ InsertFolder \/ UpdateNode \/ DeleteNode
    BY <2>5 DEF InsertBookmark, InsertFolder, Insert, UpdateNode, DeleteNode, Idle
  <2>6. CASE MoveNode
    <3>1. move'.step = "room"
      BY <2>6 DEF MoveNode
    <3> QED BY <3>1
  <2> QED BY <2>1, <2>2, <2>3, <2>4, <2>5, <2>6 DEF Next, MoveStep
<1>3. Spec => []Inv
  BY InitInv, NextInv, PTL DEF Spec
<1> QED BY <1>1, <1>2, <1>3, PTL DEF Spec

\* For any number of entries, gaps and equal positions: a move that runs to its end
\* leaves the folder it came from and the one it went to with positions 0 .. n-1.
THEOREM CompactHolds == Spec => MoveCompacts
<1> DEFINE Compacted == CompactNew => \A p \in {move.from, move.to} : Dense(p)'
<1>1. Inv /\ OldIsDense /\ [Next]_vars => Compacted
  <2> SUFFICES ASSUME Inv, OldIsDense, CompactNew, NEW p \in {move.from, move.to}
               PROVE  Dense(p)'
    OBVIOUS
  <2>1. TypeOK /\ nodes' = Resequenced(move.to)
    BY DEF CompactNew, Inv
  <2>2. CASE p = move.to
    BY <2>1, <2>2, ResequencedIsDense
  <2>3. CASE p # move.to
    <3>1. Dense(p)
      BY <2>3 DEF OldIsDense, CompactNew
    <3> QED BY <2>1, <2>3, <3>1, OthersStayDense
  <2> QED BY <2>2, <2>3
<1>2. Spec => []Inv
  BY InitInv, NextInv, PTL DEF Spec
<1>3. Spec => [][Compacted]_vars
  BY <1>1, <1>2, OldIsDenseHolds, PTL DEF Spec
<1> QED BY <1>3 DEF MoveCompacts
=============================================================================
