------------------------------ MODULE TabManager ------------------------------
(***************************************************************************)
(* The ownership of windows and tabs in blaze-core (src/crates/blaze-core/ *)
(* src/tabs.rs): the window map with its ordered tab lists and focus, the  *)
(* flat tab map, the window order, and the ring of closed tabs.            *)
(*                                                                         *)
(* Every operation runs under the one mutex BlazeCore holds around the     *)
(* TabManager, so an operation is one action.  A call that returns         *)
(* NotFound or InvalidArgument leaves the state alone and is the absence   *)
(* of a step.                                                              *)
(*                                                                         *)
(* Ids are random UUIDs.  A fresh id is one that nothing in the state      *)
(* mentions: a closed window id stays taken while the ring mentions it.    *)
(* A tab carries its window and its page; life cycle, audio and recency    *)
(* are the subject of TabLife.                                             *)
(***************************************************************************)
EXTENDS Naturals, Sequences, FiniteSets, SequencesExt, Maps

CONSTANTS
  WindowId,       \* window ids that can be drawn
  TabId,          \* tab ids that can be drawn
  Page,           \* what a tab shows: its url
  NewTab,         \* the page of a tab created without a url
  RingSize        \* CLOSED_TAB_RING

ASSUME NewTabIsPage == NewTab \in Page
ASSUME RingSizeIsPos == RingSize \in Nat \ {0}

VARIABLES
  windows,        \* window id |-> its tab list and its active tab
  tabs,           \* tab id |-> its window (back link) and its page
  windowOrder,    \* window ids, in creation order
  closed          \* closed tabs, oldest first

vars == <<windows, tabs, windowOrder, closed>>

Window == [tab_ids : Seq(TabId), active_tab_id : TabId]
Tab == [window_id : WindowId, page : Page]
ClosedTab == [window_id : WindowId, page : Page]

(***************************************************************************)
(* Lists                                                                   *)
(***************************************************************************)

\* Vec::iter().position of an element the list holds once
IndexOf(list, x) == CHOOSE i \in DOMAIN list : list[i] = x

\* Mutant: Vec::swap_remove, the last element takes the place.
SwapWithout(list, x) ==
  LET last == list[Len(list)]
  IN Front([i \in DOMAIN list |-> IF list[i] = x THEN last ELSE list[i]])

\* The list without an element it holds once (Vec::remove at its position,
\* Vec::retain(|y| y != x))
Without(list, x) == RemoveAt(list, IndexOf(list, x))

\* Vec::insert at a 0-based position clamped to the length
InsertClamped(list, position, x) ==
  InsertAt(list, (IF position < Len(list) THEN position ELSE Len(list)) + 1, x)

\* The newest n elements of a list that grows at its end
Newest(list, n) ==
  IF Len(list) > n THEN SubSeq(list, Len(list) - n + 1, Len(list)) ELSE list

TabsOf(w) == ToSet(windows[w].tab_ids)

FreshTab == TabId \ DOMAIN tabs
FreshWindow ==
  {w \in WindowId \ DOMAIN windows : \A i \in DOMAIN closed : closed[i].window_id # w}

(***************************************************************************)
(* Closing                                                                 *)
(***************************************************************************)

\* Mutants: the ring keeps ids; it takes the last first.
RememberIds(ring, list) == Newest(ring \o list, RingSize)

RememberReversed(ring, list) ==
  Newest(ring \o Reverse([i \in DOMAIN list |-> tabs[list[i]]]), RingSize)

\* remember_closed: one tab after the other, evicting the oldest
Remember(ring, list) ==
  Newest(ring \o [i \in DOMAIN list |-> tabs[list[i]]], RingSize)

\* Mutant: the focus always goes to the last tab.
DetachedToLast(window, t) ==
  LET rest == Without(window.tab_ids, t)
  IN [tab_ids |-> rest,
      active_tab_id |-> IF window.active_tab_id = t THEN rest[Len(rest)]
                                                    ELSE window.active_tab_id]

\* The window after tab t left its list: the focus of a window that lost its
\* active tab goes to the tab now at that position, or to the last one.
Detached(window, t) ==
  LET idx  == IndexOf(window.tab_ids, t)
      rest == Without(window.tab_ids, t)
      next == IF idx < Len(rest) THEN idx ELSE Len(rest)
  IN [tab_ids |-> rest,
      active_tab_id |-> IF window.active_tab_id = t THEN rest[next]
                                                    ELSE window.active_tab_id]

\* The window map after t left window w; a window that held only t goes too.
WindowsWithout(w, t) ==
  IF Len(windows[w].tab_ids) = 1 THEN Drop(windows, {w})
  ELSE [windows EXCEPT ![w] = Detached(windows[w], t)]

\* Mutant: a window that closes with its last tab stays in the order.
OrderKept(w, t) == windowOrder

OrderWithout(w, t) ==
  IF Len(windows[w].tab_ids) = 1 THEN Without(windowOrder, w) ELSE windowOrder

(***************************************************************************)
(* The operations                                                          *)
(***************************************************************************)

\* load_closed_ring: what is kept of the rows the database had
LoadedRing(rows) == Newest(rows, RingSize)

\* The core starts without windows, with the ring of the previous session.
Init ==
  /\ windows = <<>>
  /\ tabs = <<>>
  /\ windowOrder = <<>>
  /\ \E rows \in BoundedSeq(ClosedTab, RingSize + 1) : closed = LoadedRing(rows)

CreateWindow(w, t) ==
  /\ w \in FreshWindow
  /\ t \in FreshTab
  /\ windows' = Put(windows, w, [tab_ids |-> <<t>>, active_tab_id |-> t])
  /\ tabs' = Put(tabs, t, [window_id |-> w, page |-> NewTab])
  /\ windowOrder' = Append(windowOrder, w)
  /\ UNCHANGED closed

CloseWindow(w) ==
  /\ w \in DOMAIN windows
  /\ windows' = Drop(windows, {w})
  /\ windowOrder' = Without(windowOrder, w)
  /\ tabs' = Drop(tabs, TabsOf(w))
  /\ closed' = Remember(closed, windows[w].tab_ids)

\* A new tab goes to the end of its window and takes the focus.
CreateTab(w, t, p) ==
  /\ w \in DOMAIN windows
  /\ t \in FreshTab
  /\ tabs' = Put(tabs, t, [window_id |-> w, page |-> p])
  /\ windows' = [windows EXCEPT
                   ![w] = [tab_ids |-> Append(@.tab_ids, t), active_tab_id |-> t]]
  /\ UNCHANGED <<windowOrder, closed>>

CloseTab(t) ==
  /\ t \in DOMAIN tabs
  /\ closed' = Remember(closed, <<t>>)
  /\ tabs' = Drop(tabs, {t})
  /\ windows' = WindowsWithout(tabs[t].window_id, t)
  /\ windowOrder' = OrderWithout(tabs[t].window_id, t)

ActivateTab(t) ==
  /\ t \in DOMAIN tabs
  /\ windows' = [windows EXCEPT ![tabs[t].window_id].active_tab_id = t]
  /\ UNCHANGED <<tabs, windowOrder, closed>>

ReorderTab(t, position) ==
  /\ t \in DOMAIN tabs
  /\ windows' = [windows EXCEPT ![tabs[t].window_id].tab_ids =
                   InsertClamped(Without(@, t), position, t)]
  /\ UNCHANGED <<tabs, windowOrder, closed>>

\* Drag a tab into another window, where it takes the focus; the window it
\* leaves may close.  Inside its own window this is reorder_tab.
MoveTab(t, w, position) ==
  /\ w \in DOMAIN windows
  /\ t \in DOMAIN tabs
  /\ \/ /\ tabs[t].window_id = w
        /\ ReorderTab(t, position)
     \/ /\ tabs[t].window_id # w
        /\ windows' = [WindowsWithout(tabs[t].window_id, t) EXCEPT
                         ![w] = [tab_ids |-> InsertClamped(@.tab_ids, position, t),
                                 active_tab_id |-> t]]
        /\ windowOrder' = OrderWithout(tabs[t].window_id, t)
        /\ tabs' = [tabs EXCEPT ![t].window_id = w]
        /\ UNCHANGED closed

\* The engine committed a page in the tab.
NotifyCommitted(t, p) ==
  /\ t \in DOMAIN tabs
  /\ tabs' = [tabs EXCEPT ![t].page = p]
  /\ UNCHANGED <<windows, windowOrder, closed>>

\* Mutant: the oldest entry of the window
ReopenOldest(w) ==
  LET ofWindow == {i \in DOMAIN closed : closed[i].window_id = w}
  IN IF ofWindow # {} THEN Min(ofWindow) ELSE Len(closed)

\* The ring position reopen_closed_tab takes for window w: the newest entry of
\* w, else the newest entry.
ReopenIndex(w) ==
  LET ofWindow == {i \in DOMAIN closed : closed[i].window_id = w}
  IN IF ofWindow # {} THEN Max(ofWindow) ELSE Len(closed)

ReopenClosedTab(w) ==
  /\ closed # <<>>
  /\ closed' = RemoveAt(closed, ReopenIndex(w))
  /\ UNCHANGED <<windows, tabs, windowOrder>>

\* A window of a snapshot comes back with the tabs of `list`, showing `pages`;
\* an active index beyond the list means the first tab.
RestoreWindow(w, list, pages, active_index) ==
  /\ w \in FreshWindow
  /\ list # <<>>
  /\ ToSet(list) \subseteq FreshTab
  /\ IsInjective(list)
  /\ windows' = Put(windows, w,
                  [tab_ids |-> list,
                   active_tab_id |-> list[IF active_index < Len(list)
                                          THEN active_index + 1 ELSE 1]])
  /\ tabs' = [t \in DOMAIN tabs \cup ToSet(list) |->
                IF t \in ToSet(list)
                THEN [window_id |-> w, page |-> pages[IndexOf(list, t)]]
                ELSE tabs[t]]
  /\ windowOrder' = Append(windowOrder, w)
  /\ UNCHANGED closed

Positions == 0 .. Cardinality(TabId)

Next ==
  \/ \E w \in WindowId, t \in TabId : CreateWindow(w, t)
  \/ \E w \in WindowId : CloseWindow(w)
  \/ \E w \in WindowId, t \in TabId, p \in Page : CreateTab(w, t, p)
  \/ \E t \in TabId : CloseTab(t)
  \/ \E t \in TabId : ActivateTab(t)
  \/ \E t \in TabId, i \in Positions : ReorderTab(t, i)
  \/ \E t \in TabId, w \in WindowId, i \in Positions : MoveTab(t, w, i)
  \/ \E t \in TabId, p \in Page : NotifyCommitted(t, p)
  \/ \E w \in WindowId : ReopenClosedTab(w)
  \/ \E w \in WindowId, list \in BoundedSeq(TabId, Cardinality(TabId)),
        i \in Positions :
       \E pages \in [DOMAIN list -> Page] : RestoreWindow(w, list, pages, i)

Spec == Init /\ [][Next]_vars

(***************************************************************************)
(* Type and structure                                                      *)
(***************************************************************************)

\* Every variable has the shape of its Rust type; maps hold ids of their kind.
TypeOK ==
  /\ DOMAIN windows \subseteq WindowId
  /\ windows \in [DOMAIN windows -> Window]
  /\ DOMAIN tabs \subseteq TabId
  /\ tabs \in [DOMAIN tabs -> Tab]
  /\ windowOrder \in Seq(WindowId)
  /\ closed \in Seq(ClosedTab)

\* Every window has a tab, and its active tab is one of its tabs.
WindowsNonEmpty == \A w \in DOMAIN windows : windows[w].tab_ids # <<>>
ActiveIsMember == \A w \in DOMAIN windows : windows[w].active_tab_id \in TabsOf(w)

\* A window lists a tab once, and only tabs that exist and point back to it.
ListsAreSets == \A w \in DOMAIN windows : IsInjective(windows[w].tab_ids)
BackLinks ==
  \A w \in DOMAIN windows : \A t \in TabsOf(w) :
    t \in DOMAIN tabs /\ tabs[t].window_id = w

\* Every tab is listed by the window it points to.
NoOrphans ==
  \A t \in DOMAIN tabs :
    tabs[t].window_id \in DOMAIN windows /\ t \in TabsOf(tabs[t].window_id)

\* The order lists every window of the map exactly once.
OrderListsWindows ==
  /\ IsInjective(windowOrder)
  /\ ToSet(windowOrder) = DOMAIN windows

\* check_invariants of the source, with the window order: after any sequence
\* of operations the three maps and the order agree, so the expect() calls on
\* a tab's window and on its position never fail and snapshots miss nothing.
StructureOK ==
  /\ WindowsNonEmpty
  /\ ActiveIsMember
  /\ ListsAreSets
  /\ BackLinks
  /\ NoOrphans
  /\ OrderListsWindows

\* The ring never grows beyond CLOSED_TAB_RING, whatever closes at once.
RingBounded == Len(closed) <= RingSize

(***************************************************************************)
(* What a step may never do                                                *)
(***************************************************************************)

Survives(w) == w \in DOMAIN windows /\ w \in DOMAIN windows'
Index(w, t) == IndexOf(windows[w].tab_ids, t)

\* US2-AC2: when the tab in front leaves a window that survives, the focus goes
\* to the tab that was its right neighbour, or to its left one at the end.
FocusGoesToNeighbour ==
  \A w \in DOMAIN windows : Survives(w) =>
    LET list == windows[w].tab_ids
        t    == windows[w].active_tab_id
        i    == Index(w, t)
    IN t \notin ToSet(windows'[w].tab_ids) =>
         windows'[w].active_tab_id = IF i < Len(list) THEN list[i + 1] ELSE list[i - 1]

FocusProperty == [][FocusGoesToNeighbour]_vars

\* A drag moves one tab of a window, and a tab that enters or leaves moves none:
\* the others keep their relative order.
OthersKeepOrder ==
  \A w \in DOMAIN windows : Survives(w) =>
    LET after    == ToSet(windows'[w].tab_ids)
        kept     == TabsOf(w) \cap after
        After(t) == IndexOf(windows'[w].tab_ids, t)
    IN \E dragged \in TabId :
         \A s, t \in IF after = TabsOf(w) THEN kept \ {dragged} ELSE kept :
           Index(w, s) < Index(w, t) <=> After(s) < After(t)

OrderProperty == [][OthersKeepOrder]_vars

\* FR-015: the tabs a step closes end up at the new end of the ring, in the order
\* they had in the window, and only the oldest entries make room for them.
ClosedTabsAreRemembered ==
  LET gone == DOMAIN tabs \ DOMAIN tabs'
  IN gone # {} =>
       \E w \in DOMAIN windows : \E first, last \in DOMAIN windows[w].tab_ids :
         LET list == SubSeq(windows[w].tab_ids, first, last)
             all  == closed \o [i \in DOMAIN list |-> tabs[list[i]]]
         IN /\ ToSet(list) = gone
            /\ IsSuffix(closed', all)
            /\ Len(closed') = IF Len(all) < RingSize THEN Len(all) ELSE RingSize

RingProperty == [][ClosedTabsAreRemembered]_vars

\* FR-015: reopening takes one entry and no entry newer than it was closed in
\* the same window; the entries it leaves keep their order.
ReopenTakesNewestOfItsWindow ==
  Len(closed') < Len(closed) =>
    \E i \in DOMAIN closed :
      /\ closed' = RemoveAt(closed, i)
      /\ \A j \in i + 1 .. Len(closed) : closed[j].window_id # closed[i].window_id
      /\ UNCHANGED <<windows, tabs>>

ReopenProperty == [][ReopenTakesNewestOfItsWindow]_vars
===============================================================================
