---------------------------- MODULE SessionProofs ----------------------------
(***************************************************************************)
(* No change of the session is lost unnoticed: for every set of window     *)
(* ids, tab ids and pages and every size of ring and table, what is not    *)
(* marked dirty is on its way to the disk, through calls, the debounce,    *)
(* the writer, shutdowns, crashes and restarts.                            *)
(***************************************************************************)
EXTENDS Session, SequencesExt, SequenceTheorems, WellFoundedInduction, TLAPS

\* What is proved of the tab manager
P == INSTANCE TabManagerProofs

(***************************************************************************)
(* The tab manager of this module and that of the lemmas                   *)
(***************************************************************************)

\* Session and the lemmas each have an instance of the tab manager, over the same
\* variables; their definitions are the same.
LEMMA SameLists ==
  /\ \A s, n : Tabs!Newest(s, n) = P!Newest(s, n)
  /\ \A s, x : Tabs!IndexOf(s, x) = P!IndexOf(s, x)
  /\ \A s, x : Tabs!Without(s, x) = P!Without(s, x)
  /\ \A s, n, x : Tabs!InsertClamped(s, n, x) = P!InsertClamped(s, n, x)
  /\ \A s : Tabs!ToSet(s) = P!ToSet(s)
  /\ \A s : Tabs!IsInjective(s) <=> P!IsInjective(s)
BY DEF Tabs!Newest, P!Newest, Tabs!IndexOf, P!IndexOf, Tabs!Without, P!Without,
   Tabs!InsertClamped, P!InsertClamped, Tabs!ToSet, P!ToSet, Tabs!IsInjective,
   P!IsInjective, Tabs!RemoveAt, P!RemoveAt, Tabs!InsertAt, P!InsertAt

LEMMA SameTerms ==
  /\ Tabs!Window = P!Window
  /\ Tabs!Tab = P!Tab
  /\ Tabs!ClosedTab = P!ClosedTab
  /\ Tabs!FreshTab = P!FreshTab
  /\ Tabs!FreshWindow = P!FreshWindow
  /\ \A w : Tabs!TabsOf(w) = P!TabsOf(w)
  /\ \A w : Tabs!ReopenIndex(w) = P!ReopenIndex(w)
  /\ \A s, list : Tabs!Remember(s, list) = P!Remember(s, list)
  /\ \A map, k, v : Tabs!Put(map, k, v) = P!Put(map, k, v)
  /\ \A map, keys : Tabs!Drop(map, keys) = P!Drop(map, keys)
BY DEF Tabs!Window, P!Window, Tabs!Tab, P!Tab, Tabs!ClosedTab, P!ClosedTab, Tabs!FreshTab,
   P!FreshTab, Tabs!FreshWindow, P!FreshWindow, Tabs!TabsOf, P!TabsOf, Tabs!ToSet, P!ToSet,
   Tabs!ReopenIndex, P!ReopenIndex, Tabs!Max, P!Max, Tabs!Remember, P!Remember, Tabs!Newest,
   P!Newest, Tabs!Put, P!Put, Tabs!Drop, P!Drop

LEMMA SameWindowsWithout ==
  ASSUME NEW w, NEW t
  PROVE  /\ Tabs!WindowsWithout(w, t) = P!WindowsWithout(w, t)
         /\ Tabs!OrderWithout(w, t) = P!OrderWithout(w, t)
BY SameLists, SameTerms DEF Tabs!WindowsWithout, P!WindowsWithout, Tabs!OrderWithout,
   P!OrderWithout, Tabs!Detached, P!Detached

LEMMA SamePredicates ==
  /\ Tabs!TypeOK <=> P!TypeOK
  /\ Tabs!StructureOK <=> P!StructureOK
BY SameLists, SameTerms DEF Tabs!TypeOK, P!TypeOK, Tabs!StructureOK, P!StructureOK,
   Tabs!WindowsNonEmpty, P!WindowsNonEmpty, Tabs!ActiveIsMember, P!ActiveIsMember,
   Tabs!ListsAreSets, P!ListsAreSets, Tabs!BackLinks, P!BackLinks, Tabs!NoOrphans,
   P!NoOrphans, Tabs!OrderListsWindows, P!OrderListsWindows

(***************************************************************************)
(* Its steps                                                               *)
(***************************************************************************)

LEMMA SameCreateWindow ==
  ASSUME NEW w, NEW t, Tabs!CreateWindow(w, t)
  PROVE  P!CreateWindow(w, t)
BY SameTerms DEF Tabs!CreateWindow, P!CreateWindow

LEMMA SameCreateTab ==
  ASSUME NEW w, NEW t, NEW p, Tabs!CreateTab(w, t, p)
  PROVE  P!CreateTab(w, t, p)
BY SameTerms DEF Tabs!CreateTab, P!CreateTab

LEMMA SameCloseWindow ==
  ASSUME NEW w, Tabs!CloseWindow(w)
  PROVE  P!CloseWindow(w)
BY SameLists, SameTerms DEF Tabs!CloseWindow, P!CloseWindow

LEMMA SameCloseTab ==
  ASSUME NEW t, Tabs!CloseTab(t)
  PROVE  P!CloseTab(t)
BY SameTerms, SameWindowsWithout DEF Tabs!CloseTab, P!CloseTab

LEMMA SameActivateTab ==
  ASSUME NEW t, Tabs!ActivateTab(t)
  PROVE  P!ActivateTab(t)
BY DEF Tabs!ActivateTab, P!ActivateTab

LEMMA SameReorderTab ==
  ASSUME NEW t, NEW n, Tabs!ReorderTab(t, n)
  PROVE  P!ReorderTab(t, n)
BY SameLists DEF Tabs!ReorderTab, P!ReorderTab

LEMMA SameMoveTab ==
  ASSUME NEW t, NEW w, NEW n, Tabs!MoveTab(t, w, n)
  PROVE  P!MoveTab(t, w, n)
BY SameLists, SameReorderTab, SameWindowsWithout DEF Tabs!MoveTab, P!MoveTab

LEMMA SameNotifyCommitted ==
  ASSUME NEW t, NEW p, Tabs!NotifyCommitted(t, p)
  PROVE  P!NotifyCommitted(t, p)
BY DEF Tabs!NotifyCommitted, P!NotifyCommitted

LEMMA SameRestoreWindow ==
  ASSUME NEW w, NEW list, NEW pages, NEW n,
         Tabs!RestoreWindow(w, list, pages, n)
  PROVE  P!RestoreWindow(w, list, pages, n)
BY SameLists, SameTerms DEF Tabs!RestoreWindow, P!RestoreWindow

(***************************************************************************)
(* The invariant                                                           *)
(***************************************************************************)

\* A window of a snapshot has its active tab among its tabs.
GoodWindow == {window \in Window : window.active_index < Len(window.pages)}

GoodOp ==
  [op : {"snapshot"}, snapshot : Seq(GoodWindow)]
    \cup [op : {"push"}, entry : P!ClosedTab]
    \cup [op : {"pop"}, window_id : WindowId]

Types ==
  /\ up \in BOOLEAN
  /\ unrestored \in Seq(GoodWindow)
  /\ recent \in BOOLEAN
  /\ dirty \in BOOLEAN
  /\ queue \in Seq(GoodOp)
  /\ snapshot \in Seq(GoodWindow)
  /\ rows \in Seq(P!ClosedTab)

\* Nothing of a process outlives it but the disk.
DownIsEmpty ==
  ~up => /\ windows = <<>> /\ tabs = <<>> /\ windowOrder = <<>>
         /\ unrestored = <<>> /\ queue = <<>> /\ ~dirty

\* While a session comes back, nothing is written, and what is back and what is
\* still to come are together what the disk holds.
RestoreFollowsDisk ==
  unrestored # <<>> =>
    queue = <<>> /\ ~dirty /\ snapshot = CurrentSnapshot \o unrestored

Inv == P!Inv /\ Types /\ DownIsEmpty /\ RestoreFollowsDisk /\ SavedUnlessDirty

(***************************************************************************)
(* What is on its way to the disk                                          *)
(***************************************************************************)

\* The greatest of some positions of a list is one of them.
LEMMA MaxPosition ==
  ASSUME NEW n \in Nat, NEW places \in SUBSET (1 .. n), places # {}
  PROVE  Max(places) \in 1 .. n
<1>1. \E x \in places : \A y \in places : x >= y
  BY P!MaxOfInterval, NewTabIsPage, RingSizeIsPos
<1>2. Max(places) \in places
  BY <1>1 DEF Max
<1>3. QED
  BY <1>2

SavedIn(q) == {i \in DOMAIN q : q[i].op = "snapshot"}

\* The last snapshot of a queue is found.
LEMMA LastSaved ==
  ASSUME NEW q \in Seq(GoodOp), NEW m \in 1 .. Len(q), q[m].op = "snapshot",
         \A i \in 1 .. Len(q) : i > m => q[i].op # "snapshot"
  PROVE  SavedIn(q) # {} /\ Max(SavedIn(q)) = m
<1>1. DOMAIN q = 1 .. Len(q) /\ Len(q) \in Nat
  BY LenProperties
<1>2. m \in SavedIn(q)
  BY <1>1 DEF SavedIn
<1>3. \A i \in SavedIn(q) : i \in 1 .. Len(q) /\ m >= i
  BY <1>1, SMT DEF SavedIn
<1> HIDE DEF SavedIn
<1>4. \A x \in SavedIn(q) : (\A y \in SavedIn(q) : x >= y) => x = m
  BY <1>1, <1>2, <1>3, SMT
<1>5. QED
  BY <1>2, <1>3, <1>4 DEF Max

\* A snapshot at the end of the queue is what the disk will hold.
LEMMA SavedLast ==
  ASSUME queue \in Seq(GoodOp), NEW ops \in Seq(GoodOp), NEW s \in Seq(GoodWindow),
         queue' = queue \o Append(ops, Saved(s))
  PROVE  queue' \in Seq(GoodOp) /\ QueuedSnapshot' = s
<1> DEFINE more == Append(ops, Saved(s))
           all == queue \o more
<1>1. Saved(s) \in GoodOp /\ Saved(s).op = "snapshot" /\ Saved(s).snapshot = s
  BY DEF Saved, GoodOp
<1>2. more \in Seq(GoodOp) /\ Len(more) = Len(ops) + 1 /\ more[Len(more)] = Saved(s)
  BY <1>1, AppendProperties, LenProperties
<1>3. Len(queue) \in Nat /\ Len(ops) \in Nat
  BY LenProperties
<1> HIDE DEF more
<1>4. /\ all \in Seq(GoodOp)
      /\ Len(all) = Len(queue) + Len(more)
      /\ \A i \in 1 .. Len(queue) + Len(more) :
           all[i] = IF i <= Len(queue) THEN queue[i] ELSE more[i - Len(queue)]
  BY <1>2, P!ConcatElements, NewTabIsPage, RingSizeIsPos
<1> HIDE DEF all
<1>5. /\ Len(all) \in 1 .. Len(all)
      /\ all[Len(all)] = more[Len(more)]
      /\ \A i \in 1 .. Len(all) : ~(i > Len(all))
  BY <1>2, <1>3, <1>4, SMT
<1>6. SavedIn(all) # {} /\ Max(SavedIn(all)) = Len(all)
  BY <1>1, <1>2, <1>4, <1>5, LastSaved
<1>7. queue' = all
  BY DEF all, more
<1>8. QED
  BY <1>1, <1>2, <1>4, <1>5, <1>6, <1>7 DEF QueuedSnapshot, SavedIn

\* Another operation at the end leaves what the disk will hold.
LEMMA UnsavedLast ==
  ASSUME queue \in Seq(GoodOp), NEW op \in GoodOp, op.op # "snapshot",
         queue' = Append(queue, op), snapshot' = snapshot
  PROVE  queue' \in Seq(GoodOp) /\ QueuedSnapshot' = QueuedSnapshot
<1> DEFINE all == Append(queue, op)
<1>1. Len(queue) \in Nat /\ DOMAIN queue = 1 .. Len(queue)
  BY LenProperties
<1>2. /\ all \in Seq(GoodOp) /\ Len(all) = Len(queue) + 1 /\ all[Len(queue) + 1] = op
      /\ \A i \in 1 .. Len(queue) : all[i] = queue[i]
  BY AppendProperties
<1> HIDE DEF all
<1>3. DOMAIN all = 1 .. Len(queue) + 1
  BY <1>2, LenProperties
<1>4. \A i : i \in 1 .. Len(queue) + 1 <=> i \in 1 .. Len(queue) \/ i = Len(queue) + 1
  BY <1>1, SMT
<1>5. \A i : i \in SavedIn(all) <=> i \in SavedIn(queue)
  BY <1>1, <1>2, <1>3, <1>4 DEF SavedIn
<1>6. SavedIn(all) = SavedIn(queue)
  BY <1>5
<1>7. SavedIn(queue) # {} => all[Max(SavedIn(queue))] = queue[Max(SavedIn(queue))]
  <2>1. SavedIn(queue) \in SUBSET (1 .. Len(queue))
    BY <1>1 DEF SavedIn
  <2> HIDE DEF SavedIn
  <2>2. SavedIn(queue) # {} => Max(SavedIn(queue)) \in 1 .. Len(queue)
    BY <1>1, <2>1, MaxPosition
  <2>3. QED
    BY <1>2, <2>2
<1>8. queue' = all
  BY DEF all
<1>9. QED
  BY <1>2, <1>6, <1>7, <1>8 DEF QueuedSnapshot, SavedIn

\* The queue behind its first operation.
LEMMA TailOfQueue ==
  ASSUME queue \in Seq(GoodOp), queue # <<>>, queue' = Tail(queue)
  PROVE  /\ queue' \in Seq(GoodOp)
         /\ Len(queue') + 1 = Len(queue) /\ Len(queue') \in Nat
         /\ \A i \in 1 .. Len(queue') : queue'[i] = queue[i + 1]
         /\ Head(queue) = queue[1] /\ queue[1] \in GoodOp
<1>1. Len(queue) \in Nat /\ Len(queue) > 0
  BY EmptySeq, LenProperties, SMT
<1>2. QED
  BY <1>1, HeadTailProperties, LenProperties, ElementOfSeq, SMT

\* The writer's step takes nothing from what the disk will hold.
LEMMA WriterKeepsQueued ==
  ASSUME queue \in Seq(GoodOp), WriterApply
  PROVE  QueuedSnapshot' = QueuedSnapshot
<1>1. /\ queue # <<>> /\ queue' = Tail(queue)
      /\ snapshot' = SnapshotAfter(snapshot, Head(queue))
  BY DEF WriterApply
<1>2. /\ queue' \in Seq(GoodOp)
      /\ Len(queue') + 1 = Len(queue) /\ Len(queue') \in Nat
      /\ \A i \in 1 .. Len(queue') : queue'[i] = queue[i + 1]
      /\ Head(queue) = queue[1] /\ queue[1] \in GoodOp
  BY <1>1, TailOfQueue
<1>3. DOMAIN queue = 1 .. Len(queue) /\ DOMAIN queue' = 1 .. Len(queue')
  BY <1>2, LenProperties
<1>4. QueuedSnapshot = IF SavedIn(queue) = {} THEN snapshot
                                              ELSE queue[Max(SavedIn(queue))].snapshot
  BY DEF QueuedSnapshot, SavedIn
<1>5. QueuedSnapshot' = IF SavedIn(queue') = {} THEN snapshot'
                                                ELSE queue'[Max(SavedIn(queue'))].snapshot
  BY DEF QueuedSnapshot, SavedIn
<1>6. CASE SavedIn(queue') = {}
  <2>1. \A i \in 1 .. Len(queue') : queue'[i].op # "snapshot"
    BY <1>3, <1>6 DEF SavedIn
  <2>2. \A i \in 1 .. Len(queue) : i > 1 => queue[i].op # "snapshot"
    <3>1. SUFFICES ASSUME NEW i \in 1 .. Len(queue), i > 1
                   PROVE  queue[i].op # "snapshot"
      OBVIOUS
    <3>2. i - 1 \in 1 .. Len(queue') /\ (i - 1) + 1 = i
      BY <1>2, <3>1, SMT
    <3>3. QED
      BY <1>2, <2>1, <3>2
  <2>3. 1 \in 1 .. Len(queue)
    BY <1>2, SMT
  <2>4. CASE queue[1].op = "snapshot"
    <3>1. SavedIn(queue) # {} /\ Max(SavedIn(queue)) = 1
      BY <2>2, <2>3, <2>4, LastSaved
    <3>2. QED
      BY <1>1, <1>2, <1>4, <1>5, <1>6, <2>4, <3>1 DEF SnapshotAfter
  <2>5. CASE queue[1].op # "snapshot"
    <3>1. SavedIn(queue) = {}
      <4>1. \A i \in 1 .. Len(queue) : i = 1 \/ i > 1
        BY SMT
      <4>2. QED
        BY <1>3, <2>2, <2>5, <4>1 DEF SavedIn
    <3>2. QED
      BY <1>1, <1>2, <1>4, <1>5, <1>6, <2>5, <3>1 DEF SnapshotAfter
  <2>6. QED
    BY <2>4, <2>5
<1>7. CASE SavedIn(queue') # {}
  <2>1. SavedIn(queue') \in SUBSET (1 .. Len(queue'))
    BY <1>3 DEF SavedIn
  <2>2. PICK k \in SavedIn(queue') : \A i \in SavedIn(queue') : k >= i
    <3> HIDE DEF SavedIn
    <3>1. QED
      BY <1>2, <1>7, <2>1, P!MaxOfInterval, NewTabIsPage, RingSizeIsPos
  <2>3. k \in 1 .. Len(queue') /\ queue'[k].op = "snapshot"
    BY <1>3, <2>2 DEF SavedIn
  <2>4. \A i \in 1 .. Len(queue') : i > k => queue'[i].op # "snapshot"
    <3>1. SUFFICES ASSUME NEW i \in 1 .. Len(queue'), i > k, queue'[i].op = "snapshot"
                   PROVE  FALSE
      OBVIOUS
    <3>2. i \in SavedIn(queue')
      BY <1>3, <3>1 DEF SavedIn
    <3>3. k >= i
      BY <2>2, <3>2
    <3>4. QED
      BY <2>3, <3>1, <3>3, SMT
  <2>5. k + 1 \in 1 .. Len(queue) /\ queue[k + 1] = queue'[k]
    BY <1>2, <2>3, SMT
  <2>6. \A i \in 1 .. Len(queue) : i > k + 1 => queue[i].op # "snapshot"
    <3>1. SUFFICES ASSUME NEW i \in 1 .. Len(queue), i > k + 1
                   PROVE  queue[i].op # "snapshot"
      OBVIOUS
    <3>2. i - 1 \in 1 .. Len(queue') /\ (i - 1) + 1 = i /\ i - 1 > k
      BY <1>2, <2>3, <3>1, SMT
    <3>3. QED
      BY <1>2, <2>4, <3>2
  <2>7. Max(SavedIn(queue')) = k
    BY <1>2, <2>3, <2>4, LastSaved
  <2>8. SavedIn(queue) # {} /\ Max(SavedIn(queue)) = k + 1
    BY <2>3, <2>5, <2>6, LastSaved
  <2>9. QED
    BY <1>4, <1>5, <1>7, <2>5, <2>7, <2>8
<1>8. QED
  BY <1>6, <1>7

(***************************************************************************)
(* The snapshot of the windows                                             *)
(***************************************************************************)

\* The entry of window w in a snapshot
Entry(w) ==
  [pages |-> [j \in DOMAIN windows[w].tab_ids |-> tabs[windows[w].tab_ids[j]].page],
   active_index |-> Tabs!IndexOf(windows[w].tab_ids, windows[w].active_tab_id) - 1]

\* The entry it has in the next state
NextEntry(w) ==
  [pages |-> [j \in DOMAIN windows'[w].tab_ids |-> tabs'[windows'[w].tab_ids[j]].page],
   active_index |-> Tabs!IndexOf(windows'[w].tab_ids, windows'[w].active_tab_id) - 1]

LEMMA SnapshotEntries == CurrentSnapshot = [i \in DOMAIN windowOrder |-> Entry(windowOrder[i])]
BY DEF CurrentSnapshot, Entry

\* A window has its active tab among its tabs, so has its entry.
LEMMA EntryIsGood ==
  ASSUME P!TypeOK, P!Structure, NEW w \in DOMAIN windows
  PROVE  Entry(w) \in GoodWindow
<1> DEFINE list == windows[w].tab_ids
           active == windows[w].active_tab_id
           page(j) == tabs[list[j]].page
<1>1. /\ list \in Seq(TabId) /\ list # <<>>
      /\ active \in P!ToSet(list)
  BY DEF P!Structure, P!WindowOK, P!Window
<1>2. Len(list) \in Nat /\ DOMAIN list = 1 .. Len(list)
  BY <1>1, LenProperties
<1>3. \A j \in 1 .. Len(list) : page(j) \in Page
  <2>1. SUFFICES ASSUME NEW j \in 1 .. Len(list)
                 PROVE  tabs[list[j]] \in P!Tab
    BY DEF P!Tab
  <2>2. list[j] \in P!ToSet(list)
    BY <1>2 DEF P!ToSet
  <2>3. list[j] \in DOMAIN tabs
    BY <2>2 DEF P!Structure
  <2>4. QED
    BY <2>3 DEF P!TypeOK
<1>4. Entry(w).pages = [j \in 1 .. Len(list) |-> page(j)]
  BY <1>2 DEF Entry
<1>5. Entry(w).active_index = P!IndexOf(list, active) - 1
  BY SameLists DEF Entry
<1>6. P!IndexOf(list, active) \in 1 .. Len(list)
  <2>1. \E i \in DOMAIN list : list[i] = active
    BY <1>1, <1>2, P!RangeIndex, NewTabIsPage, RingSizeIsPos DEF P!ToSet
  <2>2. QED
    BY <1>2, <2>1 DEF P!IndexOf
<1>7. Entry(w) = [pages |-> Entry(w).pages, active_index |-> Entry(w).active_index]
  BY DEF Entry
<1> HIDE DEF list, active, page
<1>8. [j \in 1 .. Len(list) |-> page(j)] \in Seq(Page) /\
      Len([j \in 1 .. Len(list) |-> page(j)]) = Len(list)
  BY <1>2, <1>3, IsASeq, LenProperties
<1>9. Entry(w).active_index \in Nat /\ Entry(w).active_index < Len(list)
  BY <1>2, <1>5, <1>6, SMT
<1>10. QED
  BY <1>4, <1>7, <1>8, <1>9 DEF GoodWindow, Window

LEMMA SnapshotIsGood ==
  ASSUME P!TypeOK, P!Structure
  PROVE  /\ CurrentSnapshot \in Seq(GoodWindow)
         /\ Len(CurrentSnapshot) = Len(windowOrder)
         /\ \A i \in 1 .. Len(windowOrder) : CurrentSnapshot[i] = Entry(windowOrder[i])
<1>1. /\ windowOrder \in Seq(WindowId) /\ DOMAIN windowOrder = 1 .. Len(windowOrder)
      /\ Len(windowOrder) \in Nat
  BY LenProperties DEF P!TypeOK
<1>2. ASSUME NEW i \in 1 .. Len(windowOrder)
      PROVE  Entry(windowOrder[i]) \in GoodWindow
  <2>1. windowOrder[i] \in P!ToSet(windowOrder)
    BY <1>1 DEF P!ToSet
  <2>2. windowOrder[i] \in DOMAIN windows
    BY <2>1 DEF P!Structure
  <2>3. QED
    BY <2>2, EntryIsGood
<1>3. CurrentSnapshot = [i \in 1 .. Len(windowOrder) |-> Entry(windowOrder[i])]
  BY <1>1, SnapshotEntries
<1> DEFINE e(i) == Entry(windowOrder[i])
<1> HIDE DEF e
<1>4. [i \in 1 .. Len(windowOrder) |-> e(i)] \in Seq(GoodWindow)
  <2>1. \A i \in 1 .. Len(windowOrder) : e(i) \in GoodWindow
    BY <1>2 DEF e
  <2>2. QED
    BY <1>1, <2>1, IsASeq
<1>5. CurrentSnapshot = [i \in 1 .. Len(windowOrder) |-> e(i)]
  BY <1>3 DEF e
<1>6. /\ DOMAIN CurrentSnapshot = 1 .. Len(windowOrder)
      /\ \A i \in 1 .. Len(windowOrder) : CurrentSnapshot[i] = e(i)
  BY <1>5
<1>7. CurrentSnapshot \in Seq(GoodWindow)
  BY <1>4, <1>5
<1> HIDE DEF CurrentSnapshot
<1>8. QED
  BY <1>1, <1>6, <1>7, LenProperties, SMT DEF e

\* The same of the next state
LEMMA NextSnapshotIsGood ==
  (P!TypeOK /\ P!Structure)' =>
    /\ CurrentSnapshot' \in Seq(GoodWindow)
    /\ Len(CurrentSnapshot') = Len(windowOrder')
    /\ \A i \in 1 .. Len(windowOrder') : CurrentSnapshot'[i] = NextEntry(windowOrder'[i])
<1> DEFINE Good == /\ CurrentSnapshot \in Seq(GoodWindow)
                   /\ Len(CurrentSnapshot) = Len(windowOrder)
                   /\ \A i \in 1 .. Len(windowOrder) :
                        CurrentSnapshot[i] = Entry(windowOrder[i])
<1>1. P!TypeOK /\ P!Structure => Good
  BY SnapshotIsGood
<1> HIDE DEF Good
<1>2. (P!TypeOK /\ P!Structure)' => Good'
  BY <1>1, PTL
<1>3. QED
  BY <1>2 DEF Good, Entry, NextEntry, Tabs!IndexOf

\* A window that comes back has the entry it was restored from, and the others keep theirs.
LEMMA RestoredEntries ==
  ASSUME P!TypeOK, P!Structure, NEW w \in WindowId, NEW list \in Seq(TabId),
         NEW window \in GoodWindow, Len(list) = Len(window.pages),
         P!RestoreWindow(w, list, window.pages, window.active_index)
  PROVE  /\ NextEntry(w) = window
         /\ \A v \in DOMAIN windows : NextEntry(v) = Entry(v)
<1> DEFINE n == window.active_index
<1>1. /\ window.pages \in Seq(Page) /\ n \in Nat /\ n < Len(window.pages)
      /\ window = [pages |-> window.pages, active_index |-> n]
  BY DEF GoodWindow, Window
<1>2. Len(list) \in Nat /\ DOMAIN list = 1 .. Len(list) /\ DOMAIN window.pages = 1 .. Len(list)
  BY <1>1, LenProperties
<1>3. /\ w \notin DOMAIN windows /\ P!IsInjective(list)
      /\ \A u \in P!ToSet(list) : u \notin DOMAIN tabs
  BY DEF P!RestoreWindow, P!FreshWindow, P!FreshTab
<1>4. windows'[w] = [tab_ids |-> list, active_tab_id |-> list[n + 1]]
  BY <1>1, <1>3 DEF P!RestoreWindow, P!Put
<1>5. \A v \in DOMAIN windows : windows'[v] = windows[v]
  BY <1>3 DEF P!RestoreWindow, P!Put
<1>6. \A u \in P!ToSet(list) : tabs'[u].page = window.pages[P!IndexOf(list, u)]
  BY DEF P!RestoreWindow
<1>7. \A u \in DOMAIN tabs : tabs'[u] = tabs[u]
  BY <1>3 DEF P!RestoreWindow
<1>8. \A j \in 1 .. Len(list) : list[j] \in P!ToSet(list) /\ P!IndexOf(list, list[j]) = j
  BY <1>2, <1>3 DEF P!ToSet, P!IsInjective, P!IndexOf
<1>9. NextEntry(w) = window
  <2>1. NextEntry(w) = [pages |-> [j \in DOMAIN list |-> tabs'[list[j]].page],
                         active_index |-> P!IndexOf(list, list[n + 1]) - 1]
    BY <1>4, SameLists DEF NextEntry
  <2>2. n + 1 \in 1 .. Len(list) /\ (n + 1) - 1 = n
    BY <1>1, <1>2, SMT
  <2>3. P!IndexOf(list, list[n + 1]) - 1 = n
    BY <1>8, <2>2
  <2>4. [j \in DOMAIN list |-> tabs'[list[j]].page] = window.pages
    <3>1. \A j \in DOMAIN list : tabs'[list[j]].page = window.pages[j]
      BY <1>2, <1>6, <1>8
    <3>2. window.pages = [j \in DOMAIN list |-> window.pages[j]]
      BY <1>1, <1>2
    <3>3. QED
      BY <3>1, <3>2
  <2>5. QED
    BY <1>1, <2>1, <2>3, <2>4
<1>10. ASSUME NEW v \in DOMAIN windows
       PROVE  NextEntry(v) = Entry(v)
  <2>1. \A j \in DOMAIN windows[v].tab_ids : windows[v].tab_ids[j] \in DOMAIN tabs
    BY DEF P!Structure, P!ToSet
  <2>2. \A j \in DOMAIN windows[v].tab_ids :
          tabs'[windows[v].tab_ids[j]].page = tabs[windows[v].tab_ids[j]].page
    BY <1>7, <2>1
  <2>3. windows'[v] = windows[v]
    BY <1>5
  <2>4. QED
    BY <2>2, <2>3 DEF Entry, NextEntry
<1>11. QED
  BY <1>9, <1>10

\* The first entry still to come moves to what is back.
LEMMA ConcatHeadTail ==
  ASSUME NEW S, NEW s \in Seq(S), NEW t \in Seq(S), t # <<>>
  PROVE  s \o t = Append(s, Head(t)) \o Tail(t)
<1> DEFINE a == s \o t
           b == Append(s, Head(t))
           c == b \o Tail(t)
<1>1. Len(s) \in Nat /\ Len(t) \in Nat /\ Len(t) > 0
  BY EmptySeq, LenProperties, SMT
<1>2. /\ Head(t) = t[1] /\ Head(t) \in S /\ Tail(t) \in Seq(S) /\ Len(Tail(t)) = Len(t) - 1
      /\ \A i \in 1 .. Len(t) - 1 : Tail(t)[i] = t[i + 1]
  BY <1>1, HeadTailProperties, SMT
<1>3. /\ b \in Seq(S) /\ Len(b) = Len(s) + 1 /\ b[Len(s) + 1] = t[1]
      /\ \A i \in 1 .. Len(s) : b[i] = s[i]
  BY <1>1, <1>2, AppendProperties
<1>4. /\ a \in Seq(S) /\ Len(a) = Len(s) + Len(t)
      /\ \A i \in 1 .. Len(s) + Len(t) : a[i] = IF i <= Len(s) THEN s[i] ELSE t[i - Len(s)]
  BY P!ConcatElements, NewTabIsPage, RingSizeIsPos
<1> HIDE DEF b
<1>5. /\ c \in Seq(S) /\ Len(c) = Len(b) + Len(Tail(t))
      /\ \A i \in 1 .. Len(b) + Len(Tail(t)) :
           c[i] = IF i <= Len(b) THEN b[i] ELSE Tail(t)[i - Len(b)]
  BY <1>2, <1>3, P!ConcatElements, NewTabIsPage, RingSizeIsPos
<1> HIDE DEF a, c
<1>6. Len(a) = Len(c)
  BY <1>1, <1>2, <1>3, <1>4, <1>5, SMT
<1>7. ASSUME NEW i \in 1 .. Len(a)
      PROVE  a[i] = c[i]
  <2>1. i \in 1 .. Len(s) + Len(t) /\ i \in 1 .. Len(b) + Len(Tail(t))
    BY <1>1, <1>2, <1>3, <1>4, SMT
  <2>2. CASE i <= Len(s)
    <3>1. i \in 1 .. Len(s) /\ i <= Len(b)
      BY <1>1, <1>3, <2>1, <2>2, SMT
    <3>2. QED
      BY <1>3, <1>4, <1>5, <2>1, <2>2, <3>1
  <2>3. CASE i = Len(s) + 1
    <3>1. ~(i <= Len(s)) /\ i - Len(s) = 1 /\ i <= Len(b)
      BY <1>1, <1>3, <2>3, SMT
    <3>2. QED
      BY <1>3, <1>4, <1>5, <2>1, <2>3, <3>1
  <2>4. CASE i > Len(s) + 1
    <3>1. /\ ~(i <= Len(s)) /\ ~(i <= Len(b))
          /\ i - Len(b) \in 1 .. Len(t) - 1 /\ (i - Len(b)) + 1 = i - Len(s)
      BY <1>1, <1>3, <2>1, <2>4, SMT
    <3>2. QED
      BY <1>2, <1>4, <1>5, <2>1, <3>1
  <2>5. QED
    BY <1>1, <2>1, <2>2, <2>3, <2>4, SMT
<1>8. a = c
  BY <1>4, <1>5, <1>6, <1>7, SeqEqual
<1>9. QED
  BY <1>8 DEF a, b, c

\* After a restored window the snapshot of the windows has its entry at the end.
LEMMA RestoreAppends ==
  ASSUME P!Inv, NEW w \in WindowId, NEW list \in Seq(TabId),
         NEW window \in GoodWindow, Len(list) = Len(window.pages),
         P!RestoreWindow(w, list, window.pages, window.active_index)
  PROVE  P!Inv' /\ CurrentSnapshot' = Append(CurrentSnapshot, window)
<1> DEFINE s == CurrentSnapshot
           n == Len(windowOrder)
<1>1. window.pages \in Seq(Page) /\ window.active_index \in Nat
  BY DEF GoodWindow, Window
<1>2. window.pages \in [DOMAIN list -> Page]
  BY <1>1, LenProperties
<1>3. P!TypeOK' /\ P!Structure'
  BY <1>1, <1>2, P!RestoreWindowInv, NewTabIsPage, RingSizeIsPos DEF P!Inv
<1>4. P!Inv'
  BY <1>3 DEF P!Inv, P!RestoreWindow, P!RingBounded
<1>5. /\ s \in Seq(GoodWindow) /\ Len(s) = n
      /\ \A i \in 1 .. n : s[i] = Entry(windowOrder[i])
  BY SnapshotIsGood DEF P!Inv
<1>6. /\ s' \in Seq(GoodWindow) /\ Len(s') = Len(windowOrder')
      /\ \A i \in 1 .. Len(windowOrder') : s'[i] = NextEntry(windowOrder'[i])
  BY <1>3, NextSnapshotIsGood
<1>7. /\ NextEntry(w) = window
      /\ \A v \in DOMAIN windows : NextEntry(v) = Entry(v)
  BY RestoredEntries DEF P!Inv
<1>8. /\ windowOrder' = Append(windowOrder, w) /\ windowOrder \in Seq(WindowId)
      /\ P!ToSet(windowOrder) = DOMAIN windows
  BY DEF P!RestoreWindow, P!Inv, P!TypeOK, P!Structure
<1>9. /\ n \in Nat /\ Len(windowOrder') = n + 1 /\ windowOrder'[n + 1] = w
      /\ \A i \in 1 .. n : windowOrder'[i] = windowOrder[i]
  BY <1>8, AppendProperties, LenProperties
<1>10. \A i \in 1 .. n : windowOrder[i] \in DOMAIN windows
  BY <1>8, LenProperties DEF P!ToSet
<1>11. /\ \A i \in 1 .. n : NextEntry(windowOrder'[i]) = Entry(windowOrder[i])
       /\ NextEntry(windowOrder'[n + 1]) = window
  BY <1>7, <1>9, <1>10
<1> DEFINE r == Append(s, window)
<1>12. /\ r \in Seq(GoodWindow) /\ Len(r) = n + 1 /\ r[n + 1] = window
       /\ \A i \in 1 .. n : r[i] = s[i]
  BY <1>5, AppendProperties
<1>13. ASSUME NEW i \in 1 .. n + 1
       PROVE  s'[i] = r[i]
  <2>1. i \in 1 .. n \/ i = n + 1
    BY <1>9, SMT
  <2>2. s'[i] = NextEntry(windowOrder'[i])
    BY <1>6, <1>9
  <2>3. CASE i \in 1 .. n
    BY <1>5, <1>11, <1>12, <2>2, <2>3
  <2>4. CASE i = n + 1
    BY <1>11, <1>12, <2>2, <2>4
  <2>5. QED
    BY <2>1, <2>3, <2>4
<1>14. s' = r
  <2> HIDE DEF s, r
  <2>1. Len(s') = n + 1
    BY <1>6, <1>9
  <2>2. QED
    BY <1>6, <1>12, <1>13, <2>1, SeqEqual
<1>15. QED
  BY <1>4, <1>14

(***************************************************************************)
(* The table and the ring                                                  *)
(***************************************************************************)

\* Every operation of the writer leaves a table of closed tabs.
LEMMA RowsAfterType ==
  ASSUME NEW table \in Seq(P!ClosedTab), NEW op \in GoodOp
  PROVE  RowsAfter(table, op) \in Seq(P!ClosedTab)
<1>1. CASE op.op = "push"
  <2>1. op.entry \in P!ClosedTab
    BY <1>1 DEF GoodOp
  <2>2. Append(table, op.entry) \in Seq(P!ClosedTab)
    BY <2>1, AppendProperties
  <2>3. KeptRows \in Nat \ {0}
    BY TableHoldsRing, RingSizeIsPos, SMT
  <2>4. P!Newest(Append(table, op.entry), KeptRows) \in Seq(P!ClosedTab)
    BY <2>2, <2>3, P!NewestElements, NewTabIsPage, RingSizeIsPos
  <2>5. QED
    BY <1>1, <2>4, SameLists DEF RowsAfter
<1>2. CASE op.op = "pop"
  <2> DEFINE w == op.window_id
             ofWindow == {i \in DOMAIN table : table[i].window_id = w}
             place == IF ofWindow # {} THEN Max(ofWindow) ELSE Len(table)
  <2>1. CASE table = <<>>
    BY <1>2, <2>1 DEF RowsAfter, WithoutPopped
  <2>2. CASE table # <<>>
    <3>1. Len(table) \in Nat /\ Len(table) > 0 /\ DOMAIN table = 1 .. Len(table)
      BY <2>2, EmptySeq, LenProperties, SMT
    <3>2. ofWindow \in SUBSET (1 .. Len(table))
      BY <3>1
    <3> HIDE DEF ofWindow
    <3>3. place \in 1 .. Len(table)
      BY <3>1, <3>2, MaxPosition, SMT
    <3> HIDE DEF place
    <3>4. RemoveAt(table, place) \in Seq(P!ClosedTab)
      BY <3>3, P!RemoveAtElements, NewTabIsPage, RingSizeIsPos DEF RemoveAt, P!RemoveAt
    <3>5. QED
      BY <1>2, <2>2, <3>4 DEF RowsAfter, WithoutPopped, place, ofWindow
  <2>3. QED
    BY <2>1, <2>2
<1>3. CASE op.op = "snapshot"
  BY <1>3 DEF RowsAfter
<1>4. QED
  BY <1>1, <1>2, <1>3 DEF GoodOp

\* What a reopening takes is an entry of the ring.
LEMMA ReopenedEntry ==
  ASSUME P!Inv, NEW w, closed # <<>>
  PROVE  /\ closed[Tabs!ReopenIndex(w)] \in P!ClosedTab
         /\ RemoveAt(closed, Tabs!ReopenIndex(w)) \in Seq(P!ClosedTab)
         /\ Len(RemoveAt(closed, Tabs!ReopenIndex(w))) <= RingSize
<1> DEFINE ofWindow == {i \in DOMAIN closed : closed[i].window_id = w}
           place == Tabs!ReopenIndex(w)
<1>1. /\ closed \in Seq(P!ClosedTab) /\ Len(closed) \in Nat /\ Len(closed) > 0
      /\ DOMAIN closed = 1 .. Len(closed) /\ Len(closed) <= RingSize
  <2>1. closed \in Seq(P!ClosedTab) /\ Len(closed) <= RingSize
    BY DEF P!Inv, P!TypeOK, P!RingBounded
  <2>2. QED
    BY <2>1, EmptySeq, LenProperties, SMT
<1>2. ofWindow \in SUBSET (1 .. Len(closed))
  BY <1>1
<1>3. place = IF ofWindow # {} THEN Max(ofWindow) ELSE Len(closed)
  BY DEF Tabs!ReopenIndex, Tabs!Max, Max
<1> HIDE DEF place, ofWindow
<1>4. place \in 1 .. Len(closed)
  BY <1>1, <1>2, <1>3, MaxPosition, SMT
<1>5. closed[place] \in P!ClosedTab
  BY <1>1, <1>4, ElementOfSeq
<1>6. /\ RemoveAt(closed, place) \in Seq(P!ClosedTab)
      /\ Len(RemoveAt(closed, place)) = Len(closed) - 1
  BY <1>1, <1>4, P!RemoveAtElements, NewTabIsPage, RingSizeIsPos DEF RemoveAt, P!RemoveAt
<1>7. QED
  BY <1>1, <1>5, <1>6, RingSizeIsPos, SMT DEF place

\* A tab manager without windows is in order, whatever ring it has loaded.
LEMMA EmptyIsInOrder ==
  ASSUME windows' = <<>>, tabs' = <<>>, windowOrder' = <<>>,
         closed' \in Seq(P!ClosedTab), Len(closed') <= RingSize
  PROVE  P!Inv' /\ CurrentSnapshot' = <<>>
<1>1. DOMAIN windows' = {} /\ DOMAIN tabs' = {}
  BY SMT
<1>2. windows' \in [DOMAIN windows' -> P!Window] /\ tabs' \in [DOMAIN tabs' -> P!Tab]
  BY <1>1, SMT
<1>3. /\ windowOrder' \in Seq(WindowId) /\ Len(windowOrder') = 0
      /\ P!ToSet(windowOrder') = {} /\ P!IsInjective(windowOrder')
  BY SMT DEF P!ToSet, P!IsInjective
<1>4. P!TypeOK'
  BY <1>1, <1>2, <1>3 DEF P!TypeOK
<1>5. P!Structure'
  BY <1>1, <1>3 DEF P!Structure, P!ToSet, P!IsInjective
<1>6. CurrentSnapshot' = <<>>
  BY <1>3, <1>4, <1>5, NextSnapshotIsGood, EmptySeq
<1>7. QED
  BY <1>4, <1>5, <1>6 DEF P!Inv, P!RingBounded

(***************************************************************************)
(* The steps                                                               *)
(***************************************************************************)

\* After a call that notes the change, either the snapshot is queued or the mark is set.
LEMMA NotedInv ==
  ASSUME Inv, P!Inv', up, unrestored = <<>>, UNCHANGED <<up, unrestored, disk>>,
         NEW ops \in Seq(GoodOp), NoteSessionChanged(ops)
  PROVE  Inv'
<1>1. up' /\ unrestored' = <<>> /\ snapshot' = snapshot /\ rows' = rows
  BY DEF disk
<1>2. CurrentSnapshot' \in Seq(GoodWindow)
  BY NextSnapshotIsGood DEF P!Inv
<1>3. CASE ~recent
  <2>1. /\ recent' = TRUE /\ dirty' = FALSE
        /\ queue' = queue \o Append(ops, Saved(CurrentSnapshot'))
    BY <1>3 DEF NoteSessionChanged
  <2>2. queue' \in Seq(GoodOp) /\ QueuedSnapshot' = CurrentSnapshot'
    BY <1>2, <2>1, SavedLast DEF Inv, Types
  <2>3. QED
    BY <1>1, <2>1, <2>2
       DEF Inv, Types, DownIsEmpty, RestoreFollowsDisk, SavedUnlessDirty, Restored
<1>4. CASE recent
  <2>1. recent' = recent /\ dirty' = TRUE /\ queue' = queue \o ops
    BY <1>4 DEF NoteSessionChanged
  <2>2. queue' \in Seq(GoodOp)
    BY <2>1, ConcatProperties DEF Inv, Types
  <2>3. QED
    BY <1>1, <2>1, <2>2
       DEF Inv, Types, DownIsEmpty, RestoreFollowsDisk, SavedUnlessDirty, Restored
<1>5. QED
  BY <1>3, <1>4

LEMMA EmptyOps == <<>> \in Seq(GoodOp)
BY EmptySeq

LEMMA CreateWindowInv ==
  ASSUME Inv, up, unrestored = <<>>, UNCHANGED <<up, unrestored, disk>>,
         NEW w \in WindowId, NEW t \in TabId, CreateWindow(w, t)
  PROVE  Inv'
<1>1. P!CreateWindow(w, t) /\ NoteSessionChanged(<<>>)
  BY SameCreateWindow DEF CreateWindow
<1>2. P!TypeOK' /\ P!Structure'
  BY <1>1, P!CreateWindowInv, NewTabIsPage, RingSizeIsPos DEF Inv, P!Inv
<1>3. P!Inv'
  BY <1>1, <1>2 DEF Inv, P!Inv, P!CreateWindow, P!RingBounded
<1>4. QED
  BY <1>1, <1>3, EmptyOps, NotedInv

LEMMA RearrangeInv ==
  ASSUME Inv, up, unrestored = <<>>, UNCHANGED <<up, unrestored, disk>>, Rearrange
  PROVE  Inv'
<1>1. P!TypeOK /\ P!Structure /\ P!RingBounded
  BY DEF Inv, P!Inv
<1>2. Tabs!Positions \subseteq Nat
  BY SMT DEF Tabs!Positions
<1>3. P!TypeOK' /\ P!Structure' /\ closed' = closed
  <2>1. ASSUME NEW w \in WindowId, NEW t \in TabId, NEW p \in Page, Tabs!CreateTab(w, t, p)
        PROVE  P!TypeOK' /\ P!Structure' /\ closed' = closed
    <3>1. P!CreateTab(w, t, p)
      BY <2>1, SameCreateTab
    <3>2. QED
      BY <1>1, <3>1, P!CreateTabInv, NewTabIsPage, RingSizeIsPos DEF P!CreateTab
  <2>2. ASSUME NEW t \in TabId, Tabs!ActivateTab(t)
        PROVE  P!TypeOK' /\ P!Structure' /\ closed' = closed
    <3>1. P!ActivateTab(t)
      BY <2>2, SameActivateTab
    <3>2. QED
      BY <1>1, <3>1, P!ActivateTabInv, NewTabIsPage, RingSizeIsPos DEF P!ActivateTab
  <2>3. ASSUME NEW t \in TabId, NEW i \in Tabs!Positions, Tabs!ReorderTab(t, i)
        PROVE  P!TypeOK' /\ P!Structure' /\ closed' = closed
    <3>1. P!ReorderTab(t, i)
      BY <2>3, SameReorderTab
    <3>2. QED
      BY <1>1, <1>2, <3>1, P!ReorderTabInv, NewTabIsPage, RingSizeIsPos DEF P!ReorderTab
  <2>4. ASSUME NEW t \in TabId, NEW w \in WindowId, NEW i \in Tabs!Positions,
               Tabs!MoveTab(t, w, i)
        PROVE  P!TypeOK' /\ P!Structure' /\ closed' = closed
    <3>1. P!MoveTab(t, w, i)
      BY <2>4, SameMoveTab
    <3>2. closed' = closed
      BY <3>1 DEF P!MoveTab, P!ReorderTab
    <3>3. QED
      BY <1>1, <1>2, <3>1, <3>2, P!MoveTabInv, NewTabIsPage, RingSizeIsPos
  <2>5. ASSUME NEW t \in TabId, NEW p \in Page, Tabs!NotifyCommitted(t, p)
        PROVE  P!TypeOK' /\ P!Structure' /\ closed' = closed
    <3>1. P!NotifyCommitted(t, p)
      BY <2>5, SameNotifyCommitted
    <3>2. QED
      BY <1>1, <3>1, P!NotifyCommittedInv, NewTabIsPage, RingSizeIsPos DEF P!NotifyCommitted
  <2>6. QED
    BY <2>1, <2>2, <2>3, <2>4, <2>5 DEF Rearrange
<1>4. P!Inv'
  BY <1>1, <1>3 DEF P!Inv, P!RingBounded
<1>5. QED
  BY <1>4, EmptyOps, NotedInv DEF Rearrange

\* close_tab queues the entry it has put into the ring.
LEMMA CloseTabInv ==
  ASSUME Inv, up, unrestored = <<>>, UNCHANGED <<up, unrestored, disk>>,
         NEW t \in TabId, CloseTab(t)
  PROVE  Inv'
<1>1. P!CloseTab(t) /\ NoteSessionChanged(<<Pushed(Last(closed'))>>)
  BY SameCloseTab DEF CloseTab
<1>2. P!Inv'
  BY <1>1, P!CloseTabInv, NewTabIsPage, RingSizeIsPos DEF Inv, P!Inv
<1>3. closed' \in Seq(P!ClosedTab) /\ Len(closed') > 0
  <2>1. closed' = P!Remember(closed, <<t>>) /\ t \in DOMAIN tabs
    BY <1>1 DEF P!CloseTab
  <2>2. <<t>> \in Seq(TabId) /\ Len(<<t>>) = 1 /\ P!ToSet(<<t>>) \subseteq DOMAIN tabs
    BY <2>1, SMT DEF P!ToSet
  <2>3. Len(closed') = IF Len(closed) + 1 > RingSize THEN RingSize ELSE Len(closed) + 1
    BY <2>1, <2>2, P!RememberInv, NewTabIsPage, RingSizeIsPos DEF Inv, P!Inv
  <2>4. Len(closed) \in Nat
    BY LenProperties DEF Inv, P!Inv, P!TypeOK
  <2>5. QED
    BY <1>2, <2>3, <2>4, RingSizeIsPos, SMT DEF P!Inv, P!TypeOK
<1>4. Last(closed') \in P!ClosedTab
  <2>1. Len(closed') \in 1 .. Len(closed')
    BY <1>3, LenProperties, SMT
  <2>2. QED
    BY <1>3, <2>1, ElementOfSeq DEF Last
<1>5. <<Pushed(Last(closed'))>> \in Seq(GoodOp)
  <2>1. Pushed(Last(closed')) \in GoodOp
    BY <1>4 DEF Pushed, GoodOp
  <2>2. QED
    BY <2>1
<1>6. QED
  BY <1>1, <1>2, <1>5, NotedInv

\* close_window queues the entries of all its tabs, newest first.
LEMMA CloseWindowInv ==
  ASSUME Inv, up, unrestored = <<>>, UNCHANGED <<up, unrestored, disk>>,
         NEW w \in WindowId, CloseWindow(w)
  PROVE  Inv'
<1> DEFINE n == Len(windows[w].tab_ids)
           newest == Tabs!Newest(closed', n)
           entries == Reverse(newest)
           ops == [i \in DOMAIN entries |-> Pushed(entries[i])]
<1>1. P!CloseWindow(w) /\ NoteSessionChanged(ops)
  BY SameCloseWindow DEF CloseWindow
<1>2. P!Inv'
  BY <1>1, P!CloseWindowInv, NewTabIsPage, RingSizeIsPos DEF Inv, P!Inv
<1>3. n \in Nat \ {0}
  <2>1. windows[w].tab_ids \in Seq(TabId) /\ windows[w].tab_ids # <<>>
    BY <1>1 DEF P!CloseWindow, Inv, P!Inv, P!Structure, P!WindowOK, P!Window
  <2>2. QED
    BY <2>1, EmptySeq, LenProperties, SMT
<1>4. closed' \in Seq(P!ClosedTab)
  BY <1>2 DEF P!Inv, P!TypeOK
<1>5. newest \in Seq(P!ClosedTab)
  <2> HIDE DEF n
  <2>1. P!Newest(closed', n) \in Seq(P!ClosedTab)
    BY <1>3, <1>4, P!NewestElements, NewTabIsPage, RingSizeIsPos
  <2>2. QED
    BY <2>1, SameLists
<1> HIDE DEF newest
<1>6. \A i \in DOMAIN entries : Pushed(entries[i]) \in GoodOp
  <2>1. SUFFICES ASSUME NEW i \in 1 .. Len(newest)
                 PROVE  Pushed(newest[Len(newest) - i + 1]) \in GoodOp
    BY DEF Reverse
  <2>2. Len(newest) - i + 1 \in 1 .. Len(newest)
    BY <1>5, LenProperties, SMT
  <2>3. newest[Len(newest) - i + 1] \in P!ClosedTab
    BY <1>5, <2>2, ElementOfSeq
  <2>4. QED
    BY <2>3 DEF Pushed, GoodOp
<1>7. DOMAIN entries = 1 .. Len(newest) /\ Len(newest) \in Nat
  BY <1>5, LenProperties DEF Reverse
<1>8. ops \in Seq(GoodOp)
  <2> DEFINE e(i) == Pushed(entries[i])
  <2>1. \A i \in 1 .. Len(newest) : e(i) \in GoodOp
    BY <1>6, <1>7
  <2> HIDE DEF e
  <2>2. [i \in 1 .. Len(newest) |-> e(i)] \in Seq(GoodOp)
    BY <1>7, <2>1, IsASeq
  <2>3. QED
    BY <1>7, <2>2 DEF e
<1> HIDE DEF ops
<1>9. QED
  BY <1>1, <1>2, <1>8, NotedInv

\* reopen_closed_tab queues the removal of the entry, and the mark is set when a tab
\* came back.
LEMMA ReopenClosedTabInv ==
  ASSUME Inv, up, unrestored = <<>>, UNCHANGED <<up, unrestored, disk>>,
         NEW w \in WindowId, ReopenClosedTab(w)
  PROVE  Inv'
<1> DEFINE entry == closed[Tabs!ReopenIndex(w)]
<1>1. /\ up' /\ unrestored' = <<>> /\ snapshot' = snapshot /\ rows' = rows
      /\ closed' = RemoveAt(closed, Tabs!ReopenIndex(w))
  BY DEF disk, ReopenClosedTab
<1>2. entry \in P!ClosedTab /\ closed' \in Seq(P!ClosedTab) /\ Len(closed') <= RingSize
  BY <1>1, ReopenedEntry DEF ReopenClosedTab, Inv
<1>3. entry.window_id \in WindowId /\ entry.page \in Page
  BY <1>2 DEF P!ClosedTab
<1>4. Popped(entry.window_id) \in GoodOp /\ Popped(entry.window_id).op = "pop"
  BY <1>3 DEF Popped, GoodOp
<1>5. queue \in Seq(GoodOp)
  BY DEF Inv, Types
<1>6. CASE Target(w, entry) = {}
  <2>1. /\ queue' = Append(queue, Popped(entry.window_id))
        /\ UNCHANGED <<windows, tabs, windowOrder, recent, dirty>>
    BY <1>6 DEF ReopenClosedTab
  <2>2. P!Inv'
    BY <1>2, <2>1 DEF Inv, P!Inv, P!TypeOK, P!Structure, P!RingBounded
  <2>3. CurrentSnapshot' = CurrentSnapshot
    BY <2>1 DEF CurrentSnapshot, Tabs!IndexOf
  <2> HIDE DEF entry
  <2>4. queue' \in Seq(GoodOp) /\ QueuedSnapshot' = QueuedSnapshot
    BY <1>1, <1>4, <1>5, <2>1, UnsavedLast
  <2>5. QED
    BY <1>1, <2>1, <2>2, <2>3, <2>4
       DEF Inv, Types, DownIsEmpty, RestoreFollowsDisk, SavedUnlessDirty, Restored
<1>7. CASE Target(w, entry) # {}
  <2>1. PICK target \in Target(w, entry), t \in Tabs!FreshTab :
          /\ windows' = [windows EXCEPT ![target] =
               [tab_ids |-> Append(@.tab_ids, t), active_tab_id |-> t]]
          /\ tabs' = Tabs!Put(tabs, t, [window_id |-> target, page |-> entry.page])
          /\ UNCHANGED windowOrder
          /\ queue' = queue \o <<Popped(entry.window_id)>>
                        \o (IF recent THEN <<>> ELSE <<Saved(CurrentSnapshot')>>)
          /\ recent' = TRUE
          /\ dirty' = TRUE
    BY <1>7 DEF ReopenClosedTab
  <2> HIDE DEF entry
  <2>2. target \in DOMAIN windows /\ t \in P!FreshTab
    BY <2>1, SameTerms DEF Target
  <2>3. tabs' = P!Put(tabs, t, [window_id |-> target, page |-> entry.page])
    BY <2>1, SameTerms
  <2>4. P!TypeOK' /\ P!Structure'
    BY <1>2, <1>3, <2>1, <2>2, <2>3, P!TabComesIn, NewTabIsPage, RingSizeIsPos
       DEF Inv, P!Inv
  <2>5. P!Inv'
    BY <1>2, <2>4 DEF P!Inv, P!RingBounded
  <2>6. queue' \in Seq(GoodOp)
    <3> DEFINE note == IF recent THEN <<>> ELSE <<Saved(CurrentSnapshot')>>
    <3>1. Saved(CurrentSnapshot') \in GoodOp
      BY <2>4, NextSnapshotIsGood DEF Saved, GoodOp
    <3>2. note \in Seq(GoodOp) /\ <<Popped(entry.window_id)>> \in Seq(GoodOp)
      BY <1>4, <3>1, EmptyOps
    <3> HIDE DEF note
    <3>3. queue \o <<Popped(entry.window_id)>> \in Seq(GoodOp)
      BY <1>5, <3>2, ConcatProperties
    <3>4. queue \o <<Popped(entry.window_id)>> \o note \in Seq(GoodOp)
      BY <3>2, <3>3, ConcatProperties
    <3>5. QED
      BY <2>1, <3>4 DEF note
  <2>7. QED
    BY <1>1, <2>1, <2>5, <2>6
       DEF Inv, Types, DownIsEmpty, RestoreFollowsDisk, SavedUnlessDirty, Restored
<1>8. QED
  BY <1>6, <1>7

\* Every call keeps the invariant.
LEMMA CallInv ==
  ASSUME Inv, Call
  PROVE  Inv'
<1>1. up /\ unrestored = <<>> /\ UNCHANGED <<up, unrestored, disk>>
  BY DEF Call, MayCall
<1>2. ASSUME NEW w \in WindowId, NEW t \in TabId, CreateWindow(w, t) PROVE Inv'
  BY <1>1, <1>2, CreateWindowInv
<1>3. ASSUME Rearrange PROVE Inv'
  BY <1>1, <1>3, RearrangeInv
<1>4. ASSUME NEW t \in TabId, CloseTab(t) PROVE Inv'
  BY <1>1, <1>4, CloseTabInv
<1>5. ASSUME NEW w \in WindowId, CloseWindow(w) PROVE Inv'
  BY <1>1, <1>5, CloseWindowInv
<1>6. ASSUME NEW w \in WindowId, ReopenClosedTab(w) PROVE Inv'
  BY <1>1, <1>6, ReopenClosedTabInv
<1>7. QED
  BY <1>2, <1>3, <1>4, <1>5, <1>6 DEF Call

\* A second passes: the debounce window ends.
LEMMA SecondPassesInv ==
  ASSUME Inv, SecondPasses
  PROVE  Inv'
<1>1. /\ UNCHANGED <<windows, tabs, windowOrder, closed, up, unrestored, dirty, queue>>
      /\ UNCHANGED <<snapshot, rows>> /\ recent' = FALSE
  BY DEF SecondPasses, memory, disk
<1>2. P!Inv' /\ CurrentSnapshot' = CurrentSnapshot /\ QueuedSnapshot' = QueuedSnapshot
  BY <1>1 DEF Inv, P!Inv, P!TypeOK, P!Structure, P!RingBounded, CurrentSnapshot,
              QueuedSnapshot, Tabs!IndexOf
<1>3. QED
  BY <1>1, <1>2 DEF Inv, Types, DownIsEmpty, RestoreFollowsDisk, SavedUnlessDirty, Restored

\* The writer applies an operation; while a session comes back there is none.
LEMMA WriterApplyInv ==
  ASSUME Inv, WriterApply
  PROVE  Inv'
<1>1. /\ queue # <<>> /\ queue' = Tail(queue)
      /\ snapshot' = SnapshotAfter(snapshot, Head(queue))
      /\ rows' = RowsAfter(rows, Head(queue))
      /\ UNCHANGED <<windows, tabs, windowOrder, closed, up, unrestored, recent, dirty>>
  BY DEF WriterApply, memory
<1>2. queue' \in Seq(GoodOp) /\ Head(queue) \in GoodOp
  BY <1>1, TailOfQueue DEF Inv, Types
<1>3. snapshot' \in Seq(GoodWindow)
  BY <1>1, <1>2 DEF SnapshotAfter, GoodOp, Inv, Types
<1>4. rows' \in Seq(P!ClosedTab)
  BY <1>1, <1>2, RowsAfterType DEF Inv, Types
<1>5. P!Inv' /\ CurrentSnapshot' = CurrentSnapshot
  BY <1>1 DEF Inv, P!Inv, P!TypeOK, P!Structure, P!RingBounded, CurrentSnapshot, Tabs!IndexOf
<1>6. QueuedSnapshot' = QueuedSnapshot
  BY WriterKeepsQueued DEF Inv, Types
<1>7. up /\ unrestored = <<>>
  BY <1>1 DEF Inv, DownIsEmpty, RestoreFollowsDisk, Types
<1>8. QED
  BY <1>1, <1>2, <1>3, <1>4, <1>5, <1>6, <1>7
     DEF Inv, Types, DownIsEmpty, RestoreFollowsDisk, SavedUnlessDirty, Restored

\* With nothing queued the disk holds what it will hold.
LEMMA NothingQueued ==
  ASSUME queue = <<>>
  PROVE  QueuedSnapshot = snapshot
<1>1. {i \in DOMAIN queue : queue[i].op = "snapshot"} = {}
  BY SMT
<1>2. QED
  BY <1>1 DEF QueuedSnapshot

LEMMA NothingQueuedNext ==
  ASSUME queue' = <<>>
  PROVE  QueuedSnapshot' = snapshot'
<1>1. {i \in DOMAIN queue' : queue'[i].op = "snapshot"} = {}
  BY SMT
<1>2. QED
  BY <1>1 DEF QueuedSnapshot

\* A process that is gone leaves nothing to agree with.
LEMMA GoneInv ==
  ASSUME Gone, snapshot' \in Seq(GoodWindow), rows' \in Seq(P!ClosedTab)
  PROVE  Inv'
<1>1. closed' \in Seq(P!ClosedTab) /\ Len(closed') <= RingSize
  <2>1. <<>> \in Seq(P!ClosedTab) /\ Len(<<>>) = 0
    BY EmptySeq
  <2>2. QED
    BY <2>1, RingSizeIsPos, SMT DEF Gone
<1>2. P!Inv'
  BY <1>1, EmptyIsInOrder DEF Gone
<1>3. <<>> \in Seq(GoodWindow)
  BY EmptySeq
<1>4. QED
  BY <1>2, <1>3, EmptyOps
     DEF Gone, Inv, Types, DownIsEmpty, RestoreFollowsDisk, SavedUnlessDirty, Restored

\* A shutdown writes the last snapshot.
LEMMA ShutdownInv ==
  ASSUME Inv, Shutdown
  PROVE  Inv' /\ snapshot' = CurrentSnapshot
<1>1. /\ up /\ unrestored = <<>> /\ queue = <<>> /\ rows' = rows /\ Gone
      /\ snapshot' = IF dirty THEN CurrentSnapshot ELSE snapshot
  BY DEF Shutdown, Flushed
<1>2. snapshot' = CurrentSnapshot
  BY <1>1, NothingQueued DEF Inv, SavedUnlessDirty, Restored
<1>3. CurrentSnapshot \in Seq(GoodWindow)
  BY SnapshotIsGood DEF Inv, P!Inv
<1>4. QED
  BY <1>1, <1>2, <1>3, GoneInv DEF Inv, Types

\* A new core has loaded the ring, and the whole snapshot is still to come back.
LEMMA StartInv ==
  ASSUME Inv, Start
  PROVE  Inv'
<1>1. /\ ~up /\ up' = TRUE /\ closed' = Tabs!LoadedRing(rows) /\ unrestored' = snapshot
      /\ UNCHANGED <<windows, tabs, windowOrder, recent, dirty, queue, snapshot, rows>>
  BY DEF Start, disk
<1>2. windows = <<>> /\ tabs = <<>> /\ windowOrder = <<>> /\ queue = <<>> /\ ~dirty
  BY <1>1 DEF Inv, DownIsEmpty
<1>3. closed' \in Seq(P!ClosedTab) /\ Len(closed') <= RingSize
  <2>1. closed' = P!Newest(rows, RingSize)
    BY <1>1, SameLists DEF Tabs!LoadedRing
  <2>2. QED
    BY <2>1, P!NewestElements, NewTabIsPage, RingSizeIsPos DEF Inv, Types
<1>4. P!Inv' /\ CurrentSnapshot' = <<>>
  BY <1>1, <1>2, <1>3, EmptyIsInOrder
<1>5. QueuedSnapshot' = snapshot
  BY <1>1, <1>2, NothingQueuedNext
<1>6. <<>> \o snapshot = snapshot
  BY ConcatEmptySeq DEF Inv, Types
<1>7. QED
  BY <1>1, <1>2, <1>4, <1>5, <1>6
     DEF Inv, Types, DownIsEmpty, RestoreFollowsDisk, SavedUnlessDirty, Restored

\* A window comes back: its entry moves from what is to come to what is there.
LEMMA RestoreInv ==
  ASSUME Inv, NEW w \in WindowId, NEW list \in Seq(TabId), Restore(w, list)
  PROVE  Inv'
<1> DEFINE window == Head(unrestored)
           s == CurrentSnapshot
<1>1. /\ unrestored # <<>> /\ unrestored' = Tail(unrestored)
      /\ Len(list) = Len(window.pages)
      /\ P!RestoreWindow(w, list, window.pages, window.active_index)
      /\ UNCHANGED <<up, recent, dirty, queue, snapshot, rows>>
  BY SameRestoreWindow DEF Restore, disk
<1>2. window \in GoodWindow /\ unrestored' \in Seq(GoodWindow)
  BY <1>1, HeadTailProperties DEF Inv, Types
<1>3. up /\ queue = <<>> /\ ~dirty /\ snapshot = s \o unrestored
  BY <1>1 DEF Inv, DownIsEmpty, RestoreFollowsDisk, Types
<1> HIDE DEF window
<1>4. P!Inv' /\ s' = Append(s, window)
  BY <1>1, <1>2, RestoreAppends DEF Inv
<1>5. s \in Seq(GoodWindow) /\ s' \in Seq(GoodWindow)
  BY <1>4, SnapshotIsGood, NextSnapshotIsGood DEF Inv, P!Inv
<1> HIDE DEF s
<1>6. snapshot' = s' \o unrestored'
  <2>1. s \o unrestored = Append(s, window) \o Tail(unrestored)
    BY <1>1, <1>5, ConcatHeadTail DEF Inv, Types, window
  <2>2. QED
    BY <1>1, <1>3, <1>4, <2>1
<1>7. QueuedSnapshot' = snapshot'
  BY <1>1, <1>3, NothingQueuedNext
<1>8. unrestored' = <<>> => snapshot' = s'
  BY <1>5, <1>6, ConcatEmptySeq
<1>9. QED
  BY <1>1, <1>2, <1>3, <1>4, <1>6, <1>7, <1>8
     DEF Inv, Types, DownIsEmpty, RestoreFollowsDisk, SavedUnlessDirty, Restored, s

LEMMA InitInv == Init => Inv
<1> SUFFICES ASSUME Init PROVE Inv
  OBVIOUS
<1>1. /\ windows = <<>> /\ tabs = <<>> /\ windowOrder = <<>> /\ closed = <<>>
      /\ up = FALSE /\ unrestored = <<>> /\ queue = <<>> /\ dirty = FALSE /\ recent = FALSE
      /\ snapshot = <<>> /\ rows = <<>>
  BY DEF Init
<1>2. P!Inv
  <2>1. DOMAIN windows = {} /\ DOMAIN tabs = {}
    BY <1>1, SMT
  <2>2. /\ windows \in [DOMAIN windows -> P!Window] /\ tabs \in [DOMAIN tabs -> P!Tab]
    BY <1>1, SMT
  <2>3. /\ windowOrder \in Seq(WindowId) /\ P!ToSet(windowOrder) = {}
        /\ P!IsInjective(windowOrder) /\ closed \in Seq(P!ClosedTab) /\ Len(closed) = 0
    BY <1>1, SMT DEF P!ToSet, P!IsInjective
  <2>4. P!RingBounded
    BY <2>3, RingSizeIsPos, SMT DEF P!RingBounded
  <2>5. QED
    BY <2>1, <2>2, <2>3, <2>4 DEF P!Inv, P!TypeOK, P!Structure
<1>3. <<>> \in Seq(GoodWindow) /\ <<>> \in Seq(P!ClosedTab)
  BY EmptySeq
<1>4. QED
  BY <1>1, <1>2, <1>3, EmptyOps
     DEF Inv, Types, DownIsEmpty, RestoreFollowsDisk, SavedUnlessDirty, Restored

\* Every step keeps the inductive invariant.
LEMMA NextInv == Inv /\ [Next]_vars => Inv'
<1> SUFFICES ASSUME Inv, [Next]_vars PROVE Inv'
  OBVIOUS
<1>1. CASE Call
  BY <1>1, CallInv
<1>2. CASE SecondPasses
  BY <1>2, SecondPassesInv
<1>3. CASE WriterApply
  BY <1>3, WriterApplyInv
<1>4. CASE Shutdown
  BY <1>4, ShutdownInv
<1>5. CASE Crash
  BY <1>5, GoneInv DEF Crash, Inv, Types, disk
<1>6. CASE Start
  BY <1>6, StartInv
<1>7. ASSUME NEW w \in WindowId, NEW list \in BoundedSeq(TabId, Cardinality(TabId)),
             Restore(w, list)
      PROVE  Inv'
  <2>1. list \in Seq(TabId)
    BY SMT DEF BoundedSeq, SeqOf
  <2>2. QED
    BY <1>7, <2>1, RestoreInv
<1>8. CASE UNCHANGED vars
  <2>1. /\ UNCHANGED <<windows, tabs, windowOrder, closed, up, unrestored, recent, dirty>>
        /\ UNCHANGED <<queue, snapshot, rows>>
    BY <1>8 DEF vars, memory, disk
  <2>2. P!Inv' /\ CurrentSnapshot' = CurrentSnapshot /\ QueuedSnapshot' = QueuedSnapshot
    BY <2>1 DEF Inv, P!Inv, P!TypeOK, P!Structure, P!RingBounded, CurrentSnapshot,
                QueuedSnapshot, Tabs!IndexOf
  <2>3. QED
    BY <2>1, <2>2
       DEF Inv, Types, DownIsEmpty, RestoreFollowsDisk, SavedUnlessDirty, Restored
<1>9. QED
  BY <1>1, <1>2, <1>3, <1>4, <1>5, <1>6, <1>7, <1>8 DEF Next

(***************************************************************************)
(* The theorems                                                            *)
(***************************************************************************)

LEMMA InvHolds == Spec => []Inv
BY InitInv, NextInv, PTL DEF Spec

\* The types, and the structure of the tab manager, hold through every restart and
\* every reopening (crates/blaze-core/src/session.rs, tabs.rs).
THEOREM StructureHolds == Spec => []StructureOK
<1>1. Inv => StructureOK
  <2> SUFFICES ASSUME Inv PROVE StructureOK
    OBVIOUS
  <2>1. P!TypeOK /\ P!StructureOK
    BY P!StructureEquiv, NewTabIsPage, RingSizeIsPos DEF Inv, P!Inv
  <2>2. Tabs!TypeOK /\ Tabs!StructureOK
    BY <2>1, SamePredicates
  <2>3. \A s \in Seq(GoodWindow) : s \in Seq(Window)
    BY SeqMonotonic DEF GoodWindow
  <2>4. GoodOp \subseteq Op
    BY <2>3, SameTerms DEF GoodOp, Op
  <2>5. \A s \in Seq(GoodOp) : s \in Seq(Op)
    BY <2>4, SeqMonotonic
  <2>6. QED
    BY <2>2, <2>3, <2>5, SameTerms DEF Inv, Types, StructureOK, TypeOK
<1>2. QED
  BY <1>1, InvHolds, PTL

\* FR-017, FR-018: what is not marked dirty is on its way to the disk, and a session
\* that was restored is the one the disk holds, in whatever order calls, writer,
\* debounce, shutdowns and crashes come.
THEOREM NothingUnsaved == Spec => []SavedUnlessDirty
BY InvHolds, PTL DEF Inv

\* "quit never loses session state": after prepareForTermination the disk holds the
\* windows as they were.
THEOREM ShutdownHolds == Spec => ShutdownKeepsSession
<1>1. Inv /\ [Next]_vars => [Shutdown => snapshot' = CurrentSnapshot]_vars
  BY ShutdownInv
<1>2. QED
  BY <1>1, InvHolds, PTL DEF Spec, ShutdownKeepsSession

(***************************************************************************)
(* The table behind the queue                                              *)
(***************************************************************************)

\* Induction over the naturals, for a set instead of a predicate.
LEMMA SetInduction ==
  ASSUME NEW S, 0 \in S, \A n \in Nat : n \in S => n + 1 \in S
  PROVE  \A n \in Nat : n \in S
<1> DEFINE R == OpToRel(<, Nat)
           T == {n \in Nat : n \notin S}
<1>1. SUFFICES ASSUME T # {}
               PROVE  FALSE
  OBVIOUS
<1>2. PICK m \in T : \A k \in T : <<k, m>> \notin R
  <2>1. T \subseteq Nat
    OBVIOUS
  <2> HIDE DEF R, T
  <2>2. QED
    BY <1>1, <2>1, WFMin, NatLessThanWellFounded DEF R
<1>3. \A k \in T : ~(k < m)
  BY <1>2 DEF OpToRel
<1>4. m \in Nat /\ m # 0 /\ m \notin S
  OBVIOUS
<1>5. m - 1 \in Nat /\ m - 1 < m /\ (m - 1) + 1 = m
  BY <1>4, SMT
<1>6. m - 1 \in S
  BY <1>3, <1>5
<1>7. QED
  BY <1>4, <1>5, <1>6

\* The recursion has a solution, hence TablesOf is one.
LEMMA TableSteps ==
  ASSUME NEW table, NEW S, NEW q \in Seq(S)
  PROVE  /\ TablesOf(table, q)[0] = table
         /\ \A n \in 1 .. Len(q) : TablesOf(table, q)[n] = RowsAfter(TablesOf(table, q)[n - 1], q[n])
<1> DEFINE IsTables(f, n) ==
             f = [k \in 0 .. n |-> IF k = 0 THEN table ELSE RowsAfter(f[k - 1], q[k])]
           Solved == {n \in Nat : \E f : IsTables(f, n)}
<1>1. 0 \in Solved
  <2> DEFINE f == [k \in 0 .. 0 |-> table]
  <2>1. f = [k \in 0 .. 0 |-> IF k = 0 THEN table ELSE RowsAfter(f[k - 1], q[k])]
    BY SMT
  <2>2. IsTables(f, 0)
    BY <2>1
  <2>3. QED
    BY <2>2
<1>2. ASSUME NEW n \in Nat, n \in Solved
      PROVE  n + 1 \in Solved
  <2>1. PICK f : IsTables(f, n)
    BY <1>2
  <2> DEFINE g == [k \in 0 .. n + 1 |-> IF k <= n THEN f[k] ELSE RowsAfter(f[n], q[n + 1])]
  <2>2. ASSUME NEW k \in 0 .. n + 1
        PROVE  g[k] = IF k = 0 THEN table ELSE RowsAfter(g[k - 1], q[k])
    <3>1. CASE k = 0
      <4>1. g[k] = f[0] /\ f[0] = table
        BY <2>1, <3>1
      <4>2. QED
        BY <3>1, <4>1
    <3>2. CASE k \in 1 .. n
      <4>1. k \in 0 .. n /\ k - 1 \in 0 .. n /\ k # 0 /\ k <= n /\ k - 1 <= n /\ k - 1 \in 0 .. n + 1
        BY <3>2, SMT
      <4>2. g[k] = f[k] /\ g[k - 1] = f[k - 1]
        BY <4>1
      <4>3. f[k] = RowsAfter(f[k - 1], q[k])
        BY <2>1, <4>1
      <4>4. QED
        BY <4>1, <4>2, <4>3
    <3>3. CASE k = n + 1
      <4>1. k - 1 = n /\ ~(k <= n) /\ k # 0 /\ n <= n /\ n \in 0 .. n + 1
        BY <3>3, SMT
      <4>2. g[k] = RowsAfter(f[n], q[n + 1]) /\ g[k - 1] = f[n]
        BY <3>3, <4>1
      <4>3. QED
        BY <3>3, <4>1, <4>2
    <3>4. QED
      BY <3>1, <3>2, <3>3, SMT
  <2>3. IsTables(g, n + 1)
    BY <2>2
  <2>4. \E h : IsTables(h, n + 1)
    <3> HIDE DEF g, IsTables
    <3>1. QED
      BY <2>3
  <2>5. n + 1 \in Nat
    BY SMT
  <2>6. QED
    BY <2>4, <2>5
<1>3. Len(q) \in Solved
  <2> HIDE DEF Solved
  <2>1. \A n \in Nat : n \in Solved
    BY <1>1, <1>2, SetInduction
  <2>2. QED
    BY <2>1, LenProperties
<1>4. IsTables(TablesOf(table, q), Len(q))
  BY <1>3 DEF TablesOf
<1>5. Len(q) \in Nat
  BY LenProperties
<1>6. QED
  BY <1>4, <1>5, SMT

\* An operation queued last leaves the tables before it.
LEMMA TableAppend ==
  ASSUME NEW table, NEW S, NEW q \in Seq(S), NEW op \in S
  PROVE  /\ \A n \in 0 .. Len(q) : TablesOf(table, Append(q, op))[n] = TablesOf(table, q)[n]
         /\ TablesOf(table, Append(q, op))[Len(q) + 1] = RowsAfter(TablesOf(table, q)[Len(q)], op)
<1> DEFINE r == Append(q, op)
           Same == {n \in Nat : n <= Len(q) => TablesOf(table, r)[n] = TablesOf(table, q)[n]}
<1>1. r \in Seq(S) /\ Len(r) = Len(q) + 1 /\ Len(q) \in Nat /\ r[Len(q) + 1] = op
      /\ \A n \in 1 .. Len(q) : r[n] = q[n]
  BY AppendProperties, LenProperties
<1> HIDE DEF r
<1>2. /\ TablesOf(table, r)[0] = table
      /\ \A n \in 1 .. Len(r) : TablesOf(table, r)[n] = RowsAfter(TablesOf(table, r)[n - 1], r[n])
  BY <1>1, TableSteps
<1>3. /\ TablesOf(table, q)[0] = table
      /\ \A n \in 1 .. Len(q) : TablesOf(table, q)[n] = RowsAfter(TablesOf(table, q)[n - 1], q[n])
  BY TableSteps
<1>4. 0 \in Same
  BY <1>2, <1>3
<1>5. ASSUME NEW n \in Nat, n \in Same
      PROVE  n + 1 \in Same
  <2>1. n + 1 \in Nat
    BY SMT
  <2>2. SUFFICES ASSUME n + 1 <= Len(q)
                 PROVE  TablesOf(table, r)[n + 1] = TablesOf(table, q)[n + 1]
    BY <2>1
  <2>3. n + 1 \in 1 .. Len(q) /\ n + 1 \in 1 .. Len(r) /\ (n + 1) - 1 = n /\ n <= Len(q)
    BY <1>1, <2>2, SMT
  <2>4. TablesOf(table, r)[n] = TablesOf(table, q)[n]
    BY <1>5, <2>3
  <2>5. TablesOf(table, r)[n + 1] = RowsAfter(TablesOf(table, r)[n], r[n + 1])
    BY <1>2, <2>3
  <2>6. TablesOf(table, q)[n + 1] = RowsAfter(TablesOf(table, q)[n], q[n + 1])
    BY <1>3, <2>3
  <2>7. r[n + 1] = q[n + 1]
    BY <1>1, <2>3
  <2>8. QED
    BY <2>4, <2>5, <2>6, <2>7
<1>6. \A n \in Nat : n \in Same
  <2> HIDE DEF Same
  <2>1. QED
    BY <1>4, <1>5, SetInduction
<1>7. \A n \in 0 .. Len(q) : TablesOf(table, r)[n] = TablesOf(table, q)[n]
  BY <1>1, <1>6, SMT
<1>8. Len(q) + 1 \in 1 .. Len(r) /\ (Len(q) + 1) - 1 = Len(q) /\ Len(q) \in 0 .. Len(q)
  BY <1>1, SMT
<1>9. TablesOf(table, r)[Len(q) + 1] = RowsAfter(TablesOf(table, q)[Len(q)], op)
  BY <1>1, <1>2, <1>7, <1>8
<1>10. QED
  BY <1>7, <1>9 DEF r

\* The writer's step takes the first table away.
LEMMA TableTail ==
  ASSUME NEW table, NEW S, NEW q \in Seq(S), q # <<>>
  PROVE  \A n \in 0 .. Len(q) - 1 :
           TablesOf(RowsAfter(table, Head(q)), Tail(q))[n] = TablesOf(table, q)[n + 1]
<1> DEFINE r == Tail(q)
           u == RowsAfter(table, Head(q))
           Same == {n \in Nat : n <= Len(r) => TablesOf(u, r)[n] = TablesOf(table, q)[n + 1]}
<1>1. /\ r \in Seq(S) /\ Len(q) \in Nat \ {0} /\ Len(r) = Len(q) - 1 /\ Head(q) = q[1]
      /\ \A n \in 1 .. Len(r) : r[n] = q[n + 1]
  BY HeadTailProperties, EmptySeq, LenProperties, SMT
<1> HIDE DEF r
<1>2. /\ TablesOf(u, r)[0] = u
      /\ \A n \in 1 .. Len(r) : TablesOf(u, r)[n] = RowsAfter(TablesOf(u, r)[n - 1], r[n])
  BY <1>1, TableSteps
<1>3. /\ TablesOf(table, q)[0] = table
      /\ \A n \in 1 .. Len(q) : TablesOf(table, q)[n] = RowsAfter(TablesOf(table, q)[n - 1], q[n])
  BY TableSteps
<1>4. 0 \in Same
  <2>1. 1 \in 1 .. Len(q) /\ 1 - 1 = 0 /\ 0 + 1 = 1
    BY <1>1, SMT
  <2>2. TablesOf(table, q)[0 + 1] = RowsAfter(table, q[1])
    BY <1>3, <2>1
  <2>3. QED
    BY <1>1, <1>2, <2>2
<1>5. ASSUME NEW n \in Nat, n \in Same
      PROVE  n + 1 \in Same
  <2>1. n + 1 \in Nat
    BY SMT
  <2>2. SUFFICES ASSUME n + 1 <= Len(r)
                 PROVE  TablesOf(u, r)[n + 1] = TablesOf(table, q)[(n + 1) + 1]
    BY <2>1
  <2>3. /\ n + 1 \in 1 .. Len(r) /\ (n + 1) + 1 \in 1 .. Len(q) /\ (n + 1) - 1 = n
        /\ ((n + 1) + 1) - 1 = n + 1 /\ n <= Len(r)
    BY <1>1, <2>2, SMT
  <2>4. TablesOf(u, r)[n] = TablesOf(table, q)[n + 1]
    BY <1>5, <2>3
  <2>5. TablesOf(u, r)[n + 1] = RowsAfter(TablesOf(u, r)[n], r[n + 1])
    BY <1>2, <2>3
  <2>6. TablesOf(table, q)[(n + 1) + 1] = RowsAfter(TablesOf(table, q)[n + 1], q[(n + 1) + 1])
    BY <1>3, <2>3
  <2>7. r[n + 1] = q[(n + 1) + 1]
    BY <1>1, <2>3
  <2>8. QED
    BY <2>4, <2>5, <2>6, <2>7
<1>6. \A n \in Nat : n \in Same
  <2> HIDE DEF Same
  <2>1. QED
    BY <1>4, <1>5, SetInduction
<1>7. \A n \in 0 .. Len(q) - 1 : TablesOf(u, r)[n] = TablesOf(table, q)[n + 1]
  BY <1>1, <1>6, SMT
<1>8. QED
  BY <1>7 DEF r

\* What the table is after the operations of q.
RowsBehind(q) == TablesOf(rows, q)[Len(q)]

\* One more operation is applied last.
LEMMA RowsBehindAppend ==
  ASSUME NEW q \in Seq(GoodOp), NEW op \in GoodOp
  PROVE  RowsBehind(Append(q, op)) = RowsAfter(RowsBehind(q), op)
<1>1. Len(Append(q, op)) = Len(q) + 1
  BY AppendProperties
<1>2. TablesOf(rows, Append(q, op))[Len(q) + 1] = RowsAfter(TablesOf(rows, q)[Len(q)], op)
  BY TableAppend
<1>3. QED
  BY <1>1, <1>2 DEF RowsBehind

\* A snapshot leaves the table.
LEMMA RowsBehindSaved ==
  ASSUME NEW q \in Seq(GoodOp), NEW s \in Seq(GoodWindow)
  PROVE  RowsBehind(Append(q, Saved(s))) = RowsBehind(q)
<1>1. Saved(s) \in GoodOp /\ Saved(s).op = "snapshot"
  BY DEF Saved, GoodOp
<1>2. \A table : RowsAfter(table, Saved(s)) = table
  BY <1>1 DEF RowsAfter
<1>3. QED
  BY <1>1, <1>2, RowsBehindAppend

\* The table behind the queue is a table.
LEMMA QueuedRowsType ==
  ASSUME Inv
  PROVE  QueuedRows \in Seq(P!ClosedTab)
<1> DEFINE Good == {n \in Nat : n <= Len(queue) => TablesOf(rows, queue)[n] \in Seq(P!ClosedTab)}
<1>1. rows \in Seq(P!ClosedTab) /\ queue \in Seq(GoodOp) /\ Len(queue) \in Nat
  BY LenProperties DEF Inv, Types
<1>2. /\ TablesOf(rows, queue)[0] = rows
      /\ \A n \in 1 .. Len(queue) :
           TablesOf(rows, queue)[n] = RowsAfter(TablesOf(rows, queue)[n - 1], queue[n])
  BY <1>1, TableSteps
<1>3. 0 \in Good
  BY <1>1, <1>2
<1>4. ASSUME NEW n \in Nat, n \in Good
      PROVE  n + 1 \in Good
  <2>1. SUFFICES ASSUME n + 1 <= Len(queue)
                 PROVE  TablesOf(rows, queue)[n + 1] \in Seq(P!ClosedTab)
    BY SMT
  <2>2. n + 1 \in 1 .. Len(queue) /\ (n + 1) - 1 = n /\ n <= Len(queue)
    BY <1>1, <2>1, SMT
  <2>3. TablesOf(rows, queue)[n] \in Seq(P!ClosedTab)
    BY <1>4, <2>2
  <2>4. queue[n + 1] \in GoodOp
    BY <1>1, <2>2, ElementOfSeq
  <2>5. QED
    BY <1>2, <2>2, <2>3, <2>4, RowsAfterType
<1>5. \A n \in Nat : n \in Good
  <2> HIDE DEF Good
  <2>1. QED
    BY <1>3, <1>4, SetInduction
<1>6. Len(queue) <= Len(queue)
  BY <1>1, SMT
<1>7. QED
  BY <1>1, <1>5, <1>6 DEF QueuedRows

(***************************************************************************)
(* Ends of lists                                                           *)
(***************************************************************************)

\* A list is the end of another: position for position, counted from the end.
LEMMA SuffixElements ==
  ASSUME NEW S, NEW s \in Seq(S), NEW t \in Seq(S)
  PROVE  IsSuffix(s, t) <=>
           /\ Len(s) <= Len(t)
           /\ \A i \in 1 .. Len(s) : s[i] = t[Len(t) - Len(s) + i]
<1>1. IsSuffix(s, t) <=> P!IsSuffix(s, t)
  BY DEF IsSuffix, P!IsSuffix, IsPrefix, P!IsPrefix, Reverse, P!Reverse
<1>2. QED
  BY <1>1, P!SuffixElements, NewTabIsPage, RingSizeIsPos

LEMMA AppendKeepsSuffix ==
  ASSUME NEW S, NEW s \in Seq(S), NEW t \in Seq(S), NEW e \in S, IsSuffix(s, t)
  PROVE  IsSuffix(Append(s, e), Append(t, e))
<1> DEFINE u == Append(s, e)
           v == Append(t, e)
           a == Len(s)
           b == Len(t)
<1>1. a <= b /\ \A i \in 1 .. a : s[i] = t[b - a + i]
  BY SuffixElements
<1>2. a \in Nat /\ b \in Nat
  BY LenProperties
<1>3. /\ u \in Seq(S) /\ Len(u) = a + 1 /\ u[a + 1] = e
      /\ \A i \in 1 .. a : u[i] = s[i]
  BY AppendProperties
<1>4. /\ v \in Seq(S) /\ Len(v) = b + 1 /\ v[b + 1] = e
      /\ \A i \in 1 .. b : v[i] = t[i]
  BY AppendProperties
<1> HIDE DEF u, v, a, b
<1>5. Len(u) <= Len(v)
  BY <1>1, <1>2, <1>3, <1>4, SMT
<1>6. ASSUME NEW i \in 1 .. Len(u)
      PROVE  u[i] = v[Len(v) - Len(u) + i]
  <2>1. CASE i = a + 1
    <3>1. Len(v) - Len(u) + i = b + 1
      BY <1>2, <1>3, <1>4, <2>1, SMT
    <3>2. QED
      BY <1>3, <1>4, <2>1, <3>1
  <2>2. CASE i # a + 1
    <3>1. i \in 1 .. a /\ Len(v) - Len(u) + i = b - a + i /\ b - a + i \in 1 .. b
      BY <1>1, <1>2, <1>3, <1>4, <2>2, SMT
    <3>2. QED
      BY <1>1, <1>3, <1>4, <3>1
  <2>3. QED
    BY <2>1, <2>2
<1>7. IsSuffix(u, v)
  BY <1>3, <1>4, <1>5, <1>6, SuffixElements
<1>8. QED
  BY <1>7 DEF u, v

\* The newest m of the end are the end of the newest n, when n is not less.
LEMMA NewestKeepsSuffix ==
  ASSUME NEW S, NEW s \in Seq(S), NEW t \in Seq(S), IsSuffix(s, t),
         NEW m \in Nat \ {0}, NEW n \in Nat \ {0}, m <= n
  PROVE  IsSuffix(P!Newest(s, m), P!Newest(t, n))
<1> DEFINE u == P!Newest(s, m)
           v == P!Newest(t, n)
           a == Len(s)
           b == Len(t)
<1>1. a <= b /\ \A i \in 1 .. a : s[i] = t[b - a + i]
  BY SuffixElements
<1>2. a \in Nat /\ b \in Nat
  BY LenProperties
<1>3. u \in Seq(S) /\ Len(u) = (IF a > m THEN m ELSE a)
  BY P!NewestElements, NewTabIsPage, RingSizeIsPos
<1>4. v \in Seq(S) /\ Len(v) = (IF b > n THEN n ELSE b)
  BY P!NewestElements, NewTabIsPage, RingSizeIsPos
<1>5. \A i \in 1 .. Len(u) : u[i] = s[a - Len(u) + i]
  BY P!NewestAreLast, NewTabIsPage, RingSizeIsPos
<1>6. \A i \in 1 .. Len(v) : v[i] = t[b - Len(v) + i]
  BY P!NewestAreLast, NewTabIsPage, RingSizeIsPos
<1> HIDE DEF u, v, a, b
<1>7. /\ Len(u) <= Len(v) /\ Len(u) \in Nat /\ Len(v) \in Nat /\ Len(u) <= a /\ Len(v) <= b
  BY <1>1, <1>2, <1>3, <1>4, SMT
<1>8. ASSUME NEW i \in 1 .. Len(u)
      PROVE  u[i] = v[Len(v) - Len(u) + i]
  <2> DEFINE j == a - Len(u) + i
             k == Len(v) - Len(u) + i
  <2>1. j \in 1 .. a /\ k \in 1 .. Len(v) /\ b - a + j = b - Len(v) + k
    BY <1>1, <1>2, <1>7, SMT
  <2>2. u[i] = s[j]
    BY <1>5
  <2> HIDE DEF j, k
  <2>3. s[j] = t[b - a + j] /\ v[k] = t[b - Len(v) + k]
    BY <1>1, <1>6, <2>1
  <2>4. QED
    BY <2>1, <2>2, <2>3 DEF k
<1>9. IsSuffix(u, v)
  BY <1>3, <1>4, <1>7, <1>8, SuffixElements
<1>10. QED
  BY <1>9 DEF u, v

\* The same entry taken out of both.
LEMMA RemoveKeepsSuffix ==
  ASSUME NEW S, NEW s \in Seq(S), NEW t \in Seq(S), IsSuffix(s, t), NEW p \in 1 .. Len(s)
  PROVE  IsSuffix(RemoveAt(s, p), RemoveAt(t, Len(t) - Len(s) + p))
<1> DEFINE a == Len(s)
           b == Len(t)
           r == b - a + p
           u == RemoveAt(s, p)
           v == RemoveAt(t, r)
<1>1. a <= b /\ \A i \in 1 .. a : s[i] = t[b - a + i]
  BY SuffixElements
<1>2. a \in Nat /\ b \in Nat
  BY LenProperties
<1>3. r \in 1 .. b /\ p \in 1 .. a
  BY <1>1, <1>2, SMT
<1> HIDE DEF r
<1>4. /\ u \in Seq(S) /\ Len(u) = a - 1
      /\ \A i \in 1 .. a - 1 : u[i] = IF i < p THEN s[i] ELSE s[i + 1]
  BY P!RemoveAtElements, NewTabIsPage, RingSizeIsPos DEF RemoveAt, P!RemoveAt
<1>5. /\ v \in Seq(S) /\ Len(v) = b - 1
      /\ \A i \in 1 .. b - 1 : v[i] = IF i < r THEN t[i] ELSE t[i + 1]
  BY <1>3, P!RemoveAtElements, NewTabIsPage, RingSizeIsPos DEF RemoveAt, P!RemoveAt
<1> HIDE DEF u, v, a, b
<1>6. Len(u) <= Len(v)
  BY <1>1, <1>2, <1>4, <1>5, SMT
<1>7. ASSUME NEW i \in 1 .. Len(u)
      PROVE  u[i] = v[Len(v) - Len(u) + i]
  <2> DEFINE k == Len(v) - Len(u) + i
  <2>1. /\ i \in 1 .. a - 1 /\ i \in 1 .. a /\ i + 1 \in 1 .. a
        /\ k \in 1 .. b - 1 /\ k = b - a + i /\ k + 1 = b - a + (i + 1)
        /\ (i < p <=> k < r)
    BY <1>1, <1>2, <1>3, <1>4, <1>5, SMT DEF r
  <2> HIDE DEF k
  <2>2. s[i] = t[k] /\ s[i + 1] = t[k + 1]
    BY <1>1, <2>1
  <2>3. u[i] = v[k]
    BY <1>4, <1>5, <2>1, <2>2
  <2>4. QED
    BY <2>3 DEF k
<1>8. IsSuffix(u, v)
  BY <1>4, <1>5, <1>6, <1>7, SuffixElements
<1>9. QED
  BY <1>8 DEF u, v, r, a, b

(***************************************************************************)
(* Ring and table                                                          *)
(***************************************************************************)

\* A call that queues nothing, but maybe a snapshot, leaves the table as it will be.
LEMMA NothingNoted ==
  ASSUME Inv, P!Inv', UNCHANGED disk, NoteSessionChanged(<<>>)
  PROVE  QueuedRows' = QueuedRows
<1>1. rows' = rows /\ queue \in Seq(GoodOp)
  BY DEF disk, Inv, Types
<1>2. PICK s : s = CurrentSnapshot'
  OBVIOUS
<1>3. s \in Seq(GoodWindow)
  BY <1>2, NextSnapshotIsGood DEF P!Inv
<1>4. queue' = queue \/ queue' = Append(queue, Saved(s))
  <2>1. Append(<<>>, Saved(s)) = <<Saved(s)>>
    OBVIOUS
  <2>2. queue \o <<>> = queue /\ queue \o <<Saved(s)>> = Append(queue, Saved(s))
    <3>1. Saved(s) \in GoodOp
      BY <1>3 DEF Saved, GoodOp
    <3>2. QED
      BY <1>1, <3>1, ConcatEmptySeq, AppendIsConcat
  <2>3. QED
    BY <1>2, <2>1, <2>2 DEF NoteSessionChanged
<1>5. RowsBehind(queue') = RowsBehind(queue)
  BY <1>1, <1>3, <1>4, RowsBehindSaved
<1>6. QED
  BY <1>1, <1>5 DEF QueuedRows, RowsBehind

\* A call that queues an operation, and maybe a snapshot, has it applied last.
LEMMA OneNoted ==
  ASSUME Inv, P!Inv', UNCHANGED disk, NEW op \in GoodOp, NoteSessionChanged(<<op>>)
  PROVE  QueuedRows' = RowsAfter(QueuedRows, op)
<1> DEFINE q == Append(queue, op)
<1>1. rows' = rows /\ queue \in Seq(GoodOp)
  BY DEF disk, Inv, Types
<1>2. PICK s : s = CurrentSnapshot'
  OBVIOUS
<1>3. s \in Seq(GoodWindow)
  BY <1>2, NextSnapshotIsGood DEF P!Inv
<1>4. q \in Seq(GoodOp)
  BY <1>1, AppendProperties
<1>5. queue' = q \/ queue' = Append(q, Saved(s))
  <2>1. Saved(s) \in GoodOp
    BY <1>3 DEF Saved, GoodOp
  <2>2. <<op>> \in Seq(GoodOp) /\ <<Saved(s)>> \in Seq(GoodOp)
    BY <2>1
  <2>3. Append(<<op>>, Saved(s)) = <<op>> \o <<Saved(s)>> /\ queue \o <<op>> = q
        /\ Append(q, Saved(s)) = q \o <<Saved(s)>>
    <3> HIDE DEF q
    <3>1. q = Append(queue, op)
      BY DEF q
    <3>2. QED
      BY <1>1, <1>4, <2>1, <2>2, <3>1, AppendIsConcat
  <2>4. queue \o (<<op>> \o <<Saved(s)>>) = (queue \o <<op>>) \o <<Saved(s)>>
    BY <1>1, <2>2, ConcatAssociative
  <2> HIDE DEF q
  <2>5. QED
    BY <1>2, <2>3, <2>4 DEF NoteSessionChanged
<1>6. RowsBehind(queue') = RowsBehind(q)
  <2> HIDE DEF q
  <2>1. QED
    BY <1>3, <1>4, <1>5, RowsBehindSaved
<1>7. RowsBehind(q) = RowsAfter(RowsBehind(queue), op)
  BY <1>1, RowsBehindAppend
<1>8. QED
  BY <1>1, <1>6, <1>7 DEF QueuedRows, RowsBehind

\* The ring takes one tab: its entry comes last.
LEMMA OneRemembered ==
  ASSUME P!TypeOK, NEW t \in DOMAIN tabs
  PROVE  /\ tabs[t] \in P!ClosedTab
         /\ P!Remember(closed, <<t>>) = P!Newest(Append(closed, tabs[t]), RingSize)
         /\ Last(P!Remember(closed, <<t>>)) = tabs[t]
         /\ Len(P!Remember(closed, <<t>>)) \in Nat \ {0}
<1> DEFINE all == Append(closed, tabs[t])
           r == P!Newest(all, RingSize)
<1>1. tabs[t] \in P!ClosedTab /\ closed \in Seq(P!ClosedTab)
  BY DEF P!TypeOK, P!Tab, P!ClosedTab
<1>2. P!Remember(closed, <<t>>) = r
  <2>1. [i \in DOMAIN <<t>> |-> tabs[<<t>>[i]]] = <<tabs[t]>>
    BY SMT
  <2>2. closed \o <<tabs[t]>> = all
    BY <1>1, AppendIsConcat
  <2>3. QED
    BY <2>1, <2>2 DEF P!Remember
<1>3. /\ all \in Seq(P!ClosedTab) /\ Len(all) = Len(closed) + 1 /\ Len(closed) \in Nat
      /\ all[Len(closed) + 1] = tabs[t]
  BY <1>1, AppendProperties, LenProperties
<1> HIDE DEF all
<1>4. Len(r) = IF Len(all) > RingSize THEN RingSize ELSE Len(all)
  BY <1>3, RingSizeIsPos, P!NewestElements, NewTabIsPage
<1>5. \A i \in 1 .. Len(r) : r[i] = all[Len(all) - Len(r) + i]
  BY <1>3, RingSizeIsPos, P!NewestAreLast, NewTabIsPage
<1> HIDE DEF r
<1>6. Len(r) \in Nat \ {0} /\ Len(r) \in 1 .. Len(r) /\ Len(all) - Len(r) + Len(r) = Len(closed) + 1
  BY <1>3, <1>4, RingSizeIsPos, SMT
<1>7. Last(r) = tabs[t]
  BY <1>3, <1>5, <1>6 DEF Last
<1>8. QED
  BY <1>1, <1>2, <1>6, <1>7 DEF all, r

\* An entry pushed to both ends leaves the ring the newest part of the table.
LEMMA PushedAgrees ==
  ASSUME Inv, RingsAgree, up, NEW t \in DOMAIN tabs,
         closed' = P!Remember(closed, <<t>>),
         QueuedRows' = RowsAfter(QueuedRows, Pushed(tabs[t]))
  PROVE  RingsAgree'
<1> DEFINE e == tabs[t]
<1>1. e \in P!ClosedTab /\ closed' = P!Newest(Append(closed, e), RingSize)
  BY OneRemembered DEF Inv, P!Inv
<1>2. QueuedRows' = P!Newest(Append(QueuedRows, e), KeptRows)
  <2>1. Pushed(e).op = "push" /\ Pushed(e).entry = e
    BY DEF Pushed
  <2>2. QED
    BY <2>1, SameLists DEF RowsAfter
<1>3. closed \in Seq(P!ClosedTab) /\ QueuedRows \in Seq(P!ClosedTab) /\ IsSuffix(closed, QueuedRows)
  BY QueuedRowsType DEF Inv, P!Inv, P!TypeOK, RingsAgree
<1> HIDE DEF e
<1>4. PICK r : r = QueuedRows
  OBVIOUS
<1>5. IsSuffix(Append(closed, e), Append(r, e))
  BY <1>1, <1>3, <1>4, AppendKeepsSuffix
<1>6. Append(closed, e) \in Seq(P!ClosedTab) /\ Append(r, e) \in Seq(P!ClosedTab)
  BY <1>1, <1>3, <1>4, AppendProperties
<1>7. KeptRows \in Nat \ {0} /\ RingSize \in Nat \ {0} /\ RingSize <= KeptRows
  BY TableHoldsRing, RingSizeIsPos, SMT
<1>8. IsSuffix(P!Newest(Append(closed, e), RingSize), P!Newest(Append(r, e), KeptRows))
  BY <1>5, <1>6, <1>7, NewestKeepsSuffix
<1>9. QED
  BY <1>1, <1>2, <1>4, <1>8 DEF RingsAgree

\* close_tab: one entry for both.
LEMMA CloseTabAgrees ==
  ASSUME Inv, P!Inv', RingsAgree, up, UNCHANGED disk, NEW t \in TabId, CloseTab(t)
  PROVE  RingsAgree'
<1>1. P!CloseTab(t) /\ NoteSessionChanged(<<Pushed(Last(closed'))>>)
  BY SameCloseTab DEF CloseTab
<1>2. t \in DOMAIN tabs /\ closed' = P!Remember(closed, <<t>>)
  BY <1>1 DEF P!CloseTab
<1>3. Last(closed') = tabs[t] /\ tabs[t] \in P!ClosedTab
  BY <1>2, OneRemembered DEF Inv, P!Inv
<1>4. Pushed(tabs[t]) \in GoodOp
  BY <1>3 DEF Pushed, GoodOp
<1>5. QueuedRows' = RowsAfter(QueuedRows, Pushed(tabs[t]))
  BY <1>1, <1>3, <1>4, OneNoted
<1>6. QED
  BY <1>2, <1>5, PushedAgrees

\* close_window of a window with one tab: one entry for both.
LEMMA CloseWindowAgrees ==
  ASSUME Inv, P!Inv', RingsAgree, up, UNCHANGED disk, AtMostOneCloses,
         NEW w \in WindowId, CloseWindow(w)
  PROVE  RingsAgree'
<1> DEFINE s == windows[w].tab_ids
           newest == Tabs!Newest(closed', Len(s))
           entries == Reverse(newest)
           ops == [i \in DOMAIN entries |-> Pushed(entries[i])]
<1>1. P!CloseWindow(w) /\ NoteSessionChanged(ops)
  BY SameCloseWindow DEF CloseWindow
<1>2. /\ w \in DOMAIN windows /\ closed' = P!Remember(closed, s)
      /\ DOMAIN tabs' = DOMAIN tabs \ P!ToSet(s)
  BY <1>1 DEF P!CloseWindow, P!Drop, P!TabsOf
<1>3. /\ s \in Seq(TabId) /\ s # <<>> /\ P!IsInjective(s) /\ P!ToSet(s) \subseteq DOMAIN tabs
  BY <1>2 DEF Inv, P!Inv, P!TypeOK, P!Structure, P!Window, P!WindowOK
<1>4. \A x, y \in P!ToSet(s) : x = y
  BY <1>2, <1>3 DEF AtMostOneCloses
<1> DEFINE t == s[1]
<1> HIDE DEF s
<1>5. Len(s) = 1 /\ t \in P!ToSet(s) /\ s = <<t>>
  <2>1. Len(s) \in Nat /\ Len(s) > 0 /\ DOMAIN s = 1 .. Len(s)
    BY <1>3, EmptySeq, LenProperties, SMT
  <2>2. \A i \in 1 .. Len(s) : s[i] \in P!ToSet(s)
    BY <1>3, P!ElementInRange, NewTabIsPage, RingSizeIsPos
  <2>3. 1 \in 1 .. Len(s) /\ Len(s) \in 1 .. Len(s)
    BY <2>1, SMT
  <2>4. s[1] = s[Len(s)]
    BY <1>4, <2>2, <2>3
  <2>5. Len(s) = 1
    BY <1>3, <2>1, <2>3, <2>4 DEF P!IsInjective
  <2>6. s = <<t>>
    BY <1>3, <2>5, SMT
  <2>7. QED
    BY <2>2, <2>3, <2>5, <2>6
<1>6. t \in DOMAIN tabs /\ closed' = P!Remember(closed, <<t>>)
  BY <1>2, <1>3, <1>5
<1> HIDE DEF t
<1>7. tabs[t] \in P!ClosedTab /\ Last(closed') = tabs[t] /\ Len(closed') \in Nat \ {0}
  BY <1>6, OneRemembered DEF Inv, P!Inv
<1>8. closed' \in Seq(P!ClosedTab)
  BY DEF P!Inv, P!TypeOK
<1>9. newest \in Seq(P!ClosedTab) /\ Len(newest) = 1 /\ newest[1] = tabs[t]
  <2>1. newest = P!Newest(closed', 1)
    BY <1>5, SameLists
  <2>2. 1 \in Nat \ {0}
    OBVIOUS
  <2> HIDE DEF newest
  <2>3. /\ newest \in Seq(P!ClosedTab)
        /\ Len(newest) = IF Len(closed') > 1 THEN 1 ELSE Len(closed')
    BY <1>8, <2>1, <2>2, P!NewestElements, NewTabIsPage, RingSizeIsPos
  <2>4. Len(newest) = 1
    <3>1. \A n \in Nat \ {0} : (IF n > 1 THEN 1 ELSE n) = 1
      BY SMT
    <3>2. QED
      BY <1>7, <2>3, <3>1
  <2>5. \A i \in 1 .. Len(newest) : newest[i] = closed'[Len(closed') - Len(newest) + i]
    BY <1>8, <2>1, <2>2, P!NewestAreLast, NewTabIsPage, RingSizeIsPos
  <2>6. 1 \in 1 .. Len(newest) /\ Len(closed') - Len(newest) + 1 = Len(closed')
    BY <1>7, <2>4, SMT
  <2>7. newest[1] = closed'[Len(closed')]
    BY <2>5, <2>6
  <2>8. QED
    BY <1>7, <2>3, <2>4, <2>7 DEF Last
<1> HIDE DEF newest
<1>10. ops = <<Pushed(tabs[t])>>
  <2>1. entries = [i \in 1 .. 1 |-> newest[(1 - i) + 1]]
    BY <1>9 DEF Reverse
  <2>2. \A i \in 1 .. 1 : i = 1 /\ (1 - i) + 1 = 1
    BY SMT
  <2>3. DOMAIN entries = 1 .. 1 /\ \A i \in 1 .. 1 : entries[i] = tabs[t]
    BY <1>9, <2>1, <2>2
  <2> HIDE DEF entries
  <2>4. ops = [i \in 1 .. 1 |-> Pushed(tabs[t])]
    BY <2>3
  <2> HIDE DEF ops
  <2>5. QED
    BY <2>4, SMT
<1>11. Pushed(tabs[t]) \in GoodOp
  BY <1>7 DEF Pushed, GoodOp
<1> HIDE DEF ops
<1>12. QueuedRows' = RowsAfter(QueuedRows, Pushed(tabs[t]))
  BY <1>1, <1>10, <1>11, OneNoted
<1>13. QED
  BY <1>6, <1>12, PushedAgrees

\* The newest row of a window is found at its place.
LEMMA MaxIsPlace ==
  ASSUME NEW n \in Nat, NEW places \in SUBSET (1 .. n), NEW m \in places,
         \A i \in 1 .. n : i > m => i \notin places
  PROVE  Max(places) = m
<1>1. \A i \in places : i \in 1 .. n /\ m >= i
  BY SMT
<1>2. \A x \in places : (\A y \in places : x >= y) => x = m
  BY <1>1, SMT
<1>3. QED
  BY <1>1, <1>2 DEF Max

\* pop_closed_tab takes the row of the entry that leaves the ring.
LEMMA PoppedAgrees ==
  ASSUME Inv, RingsAgree, up, NEW w \in WindowId, closed # <<>>,
         closed' = RemoveAt(closed, Tabs!ReopenIndex(w)),
         QueuedRows' = RowsAfter(QueuedRows, Popped(closed[Tabs!ReopenIndex(w)].window_id))
  PROVE  RingsAgree'
<1> DEFINE p == Tabs!ReopenIndex(w)
           v == closed[p].window_id
           a == Len(closed)
<1>1. p = P!ReopenIndex(w)
  BY SameTerms
<1>2. /\ p \in DOMAIN closed
      /\ \A j \in p + 1 .. a : closed[j].window_id # v
  BY <1>1, P!ReopenTakesNewest, NewTabIsPage, RingSizeIsPos DEF Inv
<1>3. PICK r : r = QueuedRows
  OBVIOUS
<1> DEFINE b == Len(r)
           place == b - a + p
<1>4. closed \in Seq(P!ClosedTab) /\ r \in Seq(P!ClosedTab) /\ IsSuffix(closed, r)
  BY <1>3, QueuedRowsType DEF Inv, P!Inv, P!TypeOK, RingsAgree
<1>5. /\ a \in Nat /\ b \in Nat /\ DOMAIN closed = 1 .. a /\ DOMAIN r = 1 .. b
  BY <1>4, LenProperties
<1>6. /\ a <= b
      /\ \A i \in 1 .. a : closed[i] = r[b - a + i]
  BY <1>4, SuffixElements
<1> HIDE DEF p, a, b
<1>7. p \in 1 .. a /\ place \in 1 .. b
  BY <1>2, <1>5, <1>6, SMT
<1>8. r[place].window_id = v
  BY <1>6, <1>7
<1>9. ASSUME NEW j \in 1 .. b, j > place
      PROVE  r[j].window_id # v
  <2> DEFINE i == j - (b - a)
  <2>1. i \in 1 .. a /\ i \in p + 1 .. a /\ b - a + i = j
    BY <1>5, <1>6, <1>7, <1>9, SMT
  <2> HIDE DEF i
  <2>2. closed[i].window_id # v /\ closed[i] = r[b - a + i]
    BY <1>2, <1>6, <2>1
  <2>3. QED
    BY <2>1, <2>2
<1> HIDE DEF v, place
<1> DEFINE ofWindow == {i \in DOMAIN r : r[i].window_id = v}
<1>10. ofWindow # {} /\ Max(ofWindow) = place
  <2>1. ofWindow \in SUBSET (1 .. b) /\ place \in ofWindow
    BY <1>5, <1>7, <1>8
  <2>2. \A i \in 1 .. b : i > place => i \notin ofWindow
    BY <1>9
  <2> HIDE DEF ofWindow
  <2>3. QED
    BY <1>5, <2>1, <2>2, MaxIsPlace
<1>11. r # <<>>
  BY <1>4, <1>7, EmptySeq, SMT DEF b
<1>12. WithoutPopped(r, v) = RemoveAt(r, place)
  BY <1>10, <1>11 DEF WithoutPopped
<1>13. QueuedRows' = WithoutPopped(r, v)
  <2>1. Popped(v).op = "pop" /\ Popped(v).window_id = v
    BY DEF Popped
  <2>2. RowsAfter(r, Popped(v)) = WithoutPopped(r, v)
    BY <2>1 DEF RowsAfter
  <2>3. QED
    BY <1>3, <2>2 DEF v, p
<1>14. IsSuffix(RemoveAt(closed, p), RemoveAt(r, place))
  BY <1>4, <1>7, RemoveKeepsSuffix DEF place, a, b
<1>15. QED
  BY <1>12, <1>13, <1>14 DEF RingsAgree, p

\* reopen_closed_tab: the same entry leaves both, whatever else is queued with it.
LEMMA ReopenAgrees ==
  ASSUME Inv, P!Inv', RingsAgree, up, UNCHANGED disk, NEW w \in WindowId, ReopenClosedTab(w)
  PROVE  RingsAgree'
<1> DEFINE entry == closed[Tabs!ReopenIndex(w)]
           op == Popped(entry.window_id)
           q == Append(queue, op)
<1>1. /\ closed # <<>> /\ closed' = RemoveAt(closed, Tabs!ReopenIndex(w))
      /\ rows' = rows
      /\ \/ queue' = q
         \/ queue' = queue \o <<op>> \o (IF recent THEN <<>> ELSE <<Saved(CurrentSnapshot')>>)
  BY DEF ReopenClosedTab, disk
<1>2. op \in GoodOp
  <2>1. entry \in P!ClosedTab
    BY <1>1, ReopenedEntry DEF Inv
  <2>2. entry.window_id \in WindowId
    BY <2>1 DEF P!ClosedTab
  <2>3. QED
    BY <2>2 DEF Popped, GoodOp
<1>3. queue \in Seq(GoodOp)
  BY DEF Inv, Types
<1>4. PICK s : s = CurrentSnapshot'
  OBVIOUS
<1>5. s \in Seq(GoodWindow)
  BY <1>4, NextSnapshotIsGood DEF P!Inv
<1> HIDE DEF op
<1>6. q \in Seq(GoodOp) /\ queue \o <<op>> = q
  BY <1>2, <1>3, AppendProperties, AppendIsConcat
<1> HIDE DEF q
<1>7. q \o <<>> = q /\ q \o <<Saved(s)>> = Append(q, Saved(s))
  <2>1. Saved(s) \in GoodOp
    BY <1>5 DEF Saved, GoodOp
  <2>2. QED
    BY <1>6, <2>1, ConcatEmptySeq, AppendIsConcat
<1>8. queue' = q \/ queue' = Append(q, Saved(s))
  BY <1>1, <1>4, <1>6, <1>7
<1>9. RowsBehind(queue') = RowsBehind(q)
  BY <1>5, <1>6, <1>8, RowsBehindSaved
<1>10. RowsBehind(q) = RowsAfter(RowsBehind(queue), op)
  BY <1>2, <1>3, RowsBehindAppend DEF q
<1>11. QueuedRows' = RowsAfter(QueuedRows, op)
  BY <1>1, <1>9, <1>10 DEF QueuedRows, RowsBehind
<1>12. QED
  BY <1>1, <1>11, PoppedAgrees DEF op

\* The other calls touch neither.
LEMMA CallAgrees ==
  ASSUME Inv, P!Inv', RingsAgree, AtMostOneCloses, Call
  PROVE  RingsAgree'
<1>1. up /\ UNCHANGED disk
  BY DEF Call, MayCall
<1>2. ASSUME closed' = closed, NoteSessionChanged(<<>>) PROVE RingsAgree'
  <2>1. QueuedRows' = QueuedRows
    BY <1>1, <1>2, NothingNoted
  <2>2. QED
    BY <1>1, <1>2, <2>1 DEF RingsAgree
<1>3. ASSUME NEW w \in WindowId, NEW t \in TabId, CreateWindow(w, t) PROVE RingsAgree'
  BY <1>2, <1>3 DEF CreateWindow, Tabs!CreateWindow
<1>4. ASSUME Rearrange PROVE RingsAgree'
  BY <1>2, <1>4
     DEF Rearrange, Tabs!CreateTab, Tabs!ActivateTab, Tabs!ReorderTab, Tabs!MoveTab,
         Tabs!NotifyCommitted
<1>5. ASSUME NEW t \in TabId, CloseTab(t) PROVE RingsAgree'
  BY <1>1, <1>5, CloseTabAgrees
<1>6. ASSUME NEW w \in WindowId, CloseWindow(w) PROVE RingsAgree'
  BY <1>1, <1>6, CloseWindowAgrees
<1>7. ASSUME NEW w \in WindowId, ReopenClosedTab(w) PROVE RingsAgree'
  BY <1>1, <1>7, ReopenAgrees
<1>8. QED
  BY <1>3, <1>4, <1>5, <1>6, <1>7 DEF Call

\* The writer brings the table nearer to what it will be.
LEMMA WriterKeepsRows ==
  ASSUME Inv, WriterApply
  PROVE  QueuedRows' = QueuedRows
<1>1. /\ queue # <<>> /\ queue \in Seq(GoodOp)
      /\ queue' = Tail(queue) /\ rows' = RowsAfter(rows, Head(queue))
  BY DEF WriterApply, Inv, Types
<1>2. Len(queue') + 1 = Len(queue) /\ Len(queue') \in Nat
  BY <1>1, TailOfQueue
<1>3. \A n \in 0 .. Len(queue) - 1 :
        TablesOf(RowsAfter(rows, Head(queue)), Tail(queue))[n] = TablesOf(rows, queue)[n + 1]
  BY <1>1, TableTail
<1>4. Len(Tail(queue)) + 1 = Len(queue) /\ Len(Tail(queue)) \in 0 .. Len(queue) - 1
  BY <1>1, <1>2, SMT
<1>5. TablesOf(RowsAfter(rows, Head(queue)), Tail(queue))[Len(Tail(queue))] =
        TablesOf(rows, queue)[Len(queue)]
  BY <1>3, <1>4
<1>6. QED
  BY <1>1, <1>5 DEF QueuedRows

\* A new core loads the newest rows.
LEMMA StartAgrees ==
  ASSUME Inv, Start
  PROVE  RingsAgree'
<1>1. closed' = P!Newest(rows, RingSize) /\ queue' = <<>> /\ rows' = rows
      /\ rows \in Seq(P!ClosedTab)
  BY SameLists DEF Start, disk, Tabs!LoadedRing, Inv, Types, DownIsEmpty
<1>2. QueuedRows' = rows
  <2> DEFINE q == <<>>
  <2>1. q \in Seq(GoodOp) /\ Len(q) = 0
    BY EmptySeq
  <2>2. queue' = q
    BY <1>1
  <2> HIDE DEF q
  <2>3. TablesOf(rows, q)[0] = rows
    BY <2>1, TableSteps
  <2>4. QED
    BY <1>1, <2>1, <2>2, <2>3 DEF QueuedRows
<1> DEFINE r == P!Newest(rows, RingSize)
<1>3. /\ r \in Seq(P!ClosedTab)
      /\ Len(r) = IF Len(rows) > RingSize THEN RingSize ELSE Len(rows)
      /\ \A i \in 1 .. Len(r) : r[i] = rows[Len(rows) - Len(r) + i]
  BY <1>1, P!NewestElements, P!NewestAreLast, NewTabIsPage, RingSizeIsPos
<1> HIDE DEF r
<1>4. Len(r) <= Len(rows)
  BY <1>1, <1>3, LenProperties, RingSizeIsPos, SMT
<1>5. IsSuffix(r, rows)
  BY <1>1, <1>3, <1>4, SuffixElements
<1>6. QED
  BY <1>1, <1>2, <1>5 DEF RingsAgree, r

\* Every step keeps the agreement.
LEMMA RingsStep ==
  ASSUME Inv, Inv', [Next]_vars, RingsAgree, AtMostOneCloses
  PROVE  RingsAgree'
<1>1. ASSUME UNCHANGED <<closed, up, queue, rows>> PROVE RingsAgree'
  BY <1>1 DEF RingsAgree, QueuedRows
<1>2. CASE Call
  BY <1>2, CallAgrees DEF Inv
<1>3. CASE SecondPasses
  BY <1>1, <1>3 DEF SecondPasses, memory, disk
<1>4. CASE WriterApply
  <2>1. UNCHANGED <<closed, up>> /\ QueuedRows' = QueuedRows
    BY <1>4, WriterKeepsRows DEF WriterApply, memory
  <2>2. QED
    BY <2>1 DEF RingsAgree
<1>5. CASE Shutdown \/ Crash
  BY <1>5 DEF Shutdown, Crash, Gone, RingsAgree
<1>6. CASE Start
  BY <1>6, StartAgrees
<1>7. ASSUME NEW w, NEW list, Restore(w, list) PROVE RingsAgree'
  BY <1>1, <1>7 DEF Restore, Tabs!RestoreWindow, disk
<1>8. CASE UNCHANGED vars
  BY <1>1, <1>8 DEF vars, memory, disk
<1>9. QED
  BY <1>2, <1>3, <1>4, <1>5, <1>6, <1>7, <1>8 DEF Next

\* FR-015 for any ring and any table that holds it: the ring stays the newest part of the
\* rows, through every step but the close of several tabs at once.
THEOREM RingsHold == Spec => RingsStayAgreed
<1>1. Inv /\ Inv' /\ [Next]_vars => (RingsAgree /\ AtMostOneCloses => RingsAgree')
  BY RingsStep
<1>2. QED
  BY <1>1, InvHolds, PTL DEF Spec, RingsStayAgreed
=============================================================================
