------------------------------ MODULE Bookmarks ------------------------------
(***************************************************************************)
(* The table of bookmarks and folders (src/crates/blaze-storage/src/       *)
(* bookmarks.rs). The writer thread runs one operation at a time, but each *)
(* statement commits by itself: a move is six statements, and the process  *)
(* may die, or a statement fail, between any two of them.                  *)
(***************************************************************************)
EXTENDS Integers, FiniteSets, FiniteSetsExt, Maps

CONSTANTS
  Page,          \* what an entry shows: title and url
  NoPage,        \* the url of a folder
  MaxId,         \* bound: row ids
  MaxPos         \* bound: positions of new rows, asked for in a move, left by a broken one

ASSUME NoPageIsNoPage == NoPage \notin Page
ASSUME MaxIdIsPos == MaxId \in Nat \ {0}
ASSUME MaxPosIsNat == MaxPos \in Nat

Root == 0        \* parent_id IS NULL
Id == 1 .. MaxId
Idle == [step |-> "idle"]

VARIABLES
  nodes,         \* the table: id |-> row
  move           \* the move the writer is in, and its next statement

vars == <<nodes, move>>

Row == [parent : Id \cup {Root}, folder : BOOLEAN, url : Page \cup {NoPage}, pos : Nat]

Move == [step : {"room", "place", "compact_old", "compact_new"},
         id : Id, from : Id \cup {Root}, to : Id \cup {Root}, at : Nat]

Siblings(p) == {n \in DOMAIN nodes : nodes[n].parent = p}

\* ORDER BY position, id
Precedes(a, b) ==
  \/ nodes[a].pos < nodes[b].pos
  \/ (nodes[a].pos = nodes[b].pos /\ a < b)

\* Index among the siblings.
Index(n) == Cardinality({s \in Siblings(nodes[n].parent) : Precedes(s, n)})

\* Mutant: the walk looks at the parent of the candidate, and no further.
WouldCreateCycleShort(node, candidate) ==
  \/ node = candidate
  \/ candidate \in DOMAIN nodes /\ nodes[candidate].parent = node

\* The recursive query: does the walk up from candidate reach node? What it
\* visits is the smallest set that holds candidate and the parents of its
\* own members.
WouldCreateCycle(node, candidate) ==
  \A visited \in SUBSET DOMAIN nodes :
    (/\ candidate \in visited
     /\ \A n \in visited : nodes[n].parent # Root => nodes[n].parent \in visited)
    => node \in visited

ValidateParent(p) == p = Root \/ (p \in DOMAIN nodes /\ nodes[p].folder)

\* The rowid SQLite gives: one more than the largest.
FreshId(id) ==
  /\ \A n \in DOMAIN nodes : n < id
  /\ id = 1 \/ id - 1 \in DOMAIN nodes

\* MAX(position) + 1 of the siblings
NextPosition(p, pos) ==
  /\ \A s \in Siblings(p) : nodes[s].pos < pos
  /\ pos = 0 \/ \E s \in Siblings(p) : nodes[s].pos = pos - 1

Init == nodes = <<>> /\ move = Idle

Insert(p, folder, url) ==
  /\ move = Idle
  /\ ValidateParent(p)
  /\ \E id \in Id, pos \in 0 .. MaxPos :
       /\ FreshId(id)
       /\ NextPosition(p, pos)
       /\ nodes' = Put(nodes, id, [parent |-> p, folder |-> folder, url |-> url, pos |-> pos])
  /\ UNCHANGED move

InsertBookmark == \E p \in Id \cup {Root}, url \in Page : Insert(p, FALSE, url)
InsertFolder == \E p \in Id \cup {Root} : Insert(p, TRUE, NoPage)

\* Mutant: a folder gets a url.
UpdateNodeAnyUrl ==
  /\ move = Idle
  /\ \E id \in DOMAIN nodes, url \in Page : nodes' = [nodes EXCEPT ![id].url = url]
  /\ UNCHANGED move

\* update_node; the title is left out.
UpdateNode ==
  /\ move = Idle
  /\ \E id \in DOMAIN nodes, url \in Page :
       nodes' = [nodes EXCEPT ![id].url = IF nodes[id].folder THEN NoPage ELSE url]
  /\ UNCHANGED move

\* ON DELETE CASCADE: the row and all that hang below it.
Cascade(id) == {n \in DOMAIN nodes : WouldCreateCycle(id, n)}

DeleteNode ==
  /\ move = Idle
  /\ \E id \in DOMAIN nodes : nodes' = Drop(nodes, Cascade(id))
  /\ UNCHANGED move

Clamp(i, hi) == IF i < 0 THEN 0 ELSE IF i > hi THEN hi ELSE i

\* move_node: the checks; a move that fails one of them changes nothing.
MoveNode ==
  /\ move = Idle
  /\ \E id \in DOMAIN nodes, to \in Id \cup {Root}, position \in -1 .. MaxPos :
       /\ id # to
       /\ to # Root => ~WouldCreateCycle(id, to)
       /\ ValidateParent(to)
       /\ move' = [step |-> "room", id |-> id, from |-> nodes[id].parent, to |-> to,
                   at |-> Clamp(position, Cardinality(Siblings(to) \ {id}))]
  /\ UNCHANGED nodes

\* Mutant: the siblings behind the target move the other way.
MakeRoomBackwards ==
  /\ move.step = "room"
  /\ nodes' = [n \in DOMAIN nodes |->
                 IF /\ n \in Siblings(move.to) \ {move.id}
                    /\ nodes[n].pos >= move.at /\ nodes[n].pos > 0
                 THEN [nodes[n] EXCEPT !.pos = @ - 1] ELSE nodes[n]]
  /\ move' = [move EXCEPT !.step = "place"]

MakeRoom ==
  /\ move.step = "room"
  /\ nodes' = [n \in DOMAIN nodes |->
                 IF n \in Siblings(move.to) \ {move.id} /\ nodes[n].pos >= move.at
                 THEN [nodes[n] EXCEPT !.pos = @ + 1] ELSE nodes[n]]
  /\ move' = [move EXCEPT !.step = "place"]

Place ==
  /\ move.step = "place"
  /\ nodes' = [nodes EXCEPT ![move.id].parent = move.to, ![move.id].pos = move.at]
  /\ move' = [move EXCEPT !.step = "compact_old"]

\* Mutant: rows numbered by position alone.
ResequencedByPosition(p) ==
  [n \in DOMAIN nodes |->
     IF n \in Siblings(p)
     THEN [nodes[n] EXCEPT !.pos =
             Cardinality({s \in Siblings(p) : nodes[s].pos < nodes[n].pos})]
     ELSE nodes[n]]

\* resequence: positions 0 .. n-1 in the order they have
Resequenced(p) ==
  [n \in DOMAIN nodes |->
     IF n \in Siblings(p) THEN [nodes[n] EXCEPT !.pos = Index(n)] ELSE nodes[n]]

CompactOld ==
  /\ move.step = "compact_old"
  /\ nodes' = Resequenced(move.from)
  /\ move' = [move EXCEPT !.step = "compact_new"]

CompactNew ==
  /\ move.step = "compact_new"
  /\ nodes' = Resequenced(move.to)
  /\ move' = Idle

\* A statement fails, or the process dies: what is committed stays.
BreakOff ==
  /\ move # Idle
  /\ \A n \in DOMAIN nodes : nodes[n].pos <= MaxPos
  /\ move' = Idle
  /\ UNCHANGED nodes

MoveStep == MakeRoom \/ Place \/ CompactOld \/ CompactNew

Next ==
  \/ InsertBookmark \/ InsertFolder \/ UpdateNode \/ DeleteNode
  \/ MoveNode \/ MoveStep \/ BreakOff

Spec == Init /\ [][Next]_vars
-----------------------------------------------------------------------------
\* Rows and the move have their types; only bookmarks have a url.
TypeOK ==
  /\ DOMAIN nodes \subseteq Id
  /\ nodes \in [DOMAIN nodes -> Row]
  /\ \A n \in DOMAIN nodes : nodes[n].folder <=> nodes[n].url = NoPage
  /\ move \in Move \cup {Idle}

\* Every entry hangs in a folder of the table, or at the root.
ParentsAreFolders ==
  \A n \in DOMAIN nodes : ValidateParent(nodes[n].parent)

\* No set of rows has all its parents within itself.
Acyclic ==
  \A S \in SUBSET DOMAIN nodes :
    S # {} => \E n \in S : nodes[n].parent \notin S

\* The tree stays a tree, also between the statements of a move and after a
\* crash there: build_tree, which walks down from the root, shows every row.
Forest == ParentsAreFolders /\ Acyclic

\* No statement of a move changes the order of the other entries of a folder,
\* although deletes leave gaps and broken moves leave equal positions.
OthersKeepOrder ==
  [][\A a, b \in DOMAIN nodes \cap DOMAIN nodes' :
       (/\ nodes[a].parent = nodes[b].parent
        /\ nodes'[a].parent = nodes'[b].parent
        /\ move # Idle => move.id \notin {a, b})
       => (Precedes(a, b) <=> Precedes(a, b)')]_vars

\* A finished move leaves both folders with the positions 0 .. n-1, whatever
\* gaps and equal positions were there (resequence).
Dense(p) == {nodes[s].pos : s \in Siblings(p)} = 0 .. Cardinality(Siblings(p)) - 1

MoveCompacts == [][CompactNew => \A p \in {move.from, move.to} : Dense(p)']_vars
=============================================================================
