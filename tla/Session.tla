------------------------------- MODULE Session -------------------------------
(***************************************************************************)
(* What outlives the process: the snapshot of the windows and the rows of  *)
(* closed tabs (src/crates/blaze-core/src/session.rs, blaze-storage/src/   *)
(* session.rs), above the tab manager and below the calls of the facade    *)
(* (blaze-core/src/lib.rs).  A change of the session is written at most    *)
(* once a second; one that comes earlier only sets a flag.  Everything     *)
(* written goes through the writer's channel and dies with the process     *)
(* until it is applied.                                                    *)
(*                                                                         *)
(* The shell makes these calls on its main thread, one after the other.  A *)
(* crash inside a call leaves a prefix of what the call queues, as a crash *)
(* after it does; so a call is one action.                                 *)
(***************************************************************************)
EXTENDS Naturals, Sequences, FiniteSets, SequencesExt

CONSTANTS
  WindowId, TabId, Page, NewTab, RingSize,   \* those of TabManager
  KeptRows,       \* CLOSED_TABS_KEPT, of the table
  MaxQueue        \* bound: a call is made when the writer is no further behind

ASSUME NewTabIsPage == NewTab \in Page
ASSUME RingSizeIsPos == RingSize \in Nat \ {0}
ASSUME TableHoldsRing == KeptRows \in Nat /\ RingSize <= KeptRows

VARIABLES
  windows, tabs, windowOrder, closed,        \* those of TabManager
  up,             \* the process runs
  unrestored,     \* windows of the snapshot that are still to be restored
  recent,         \* a snapshot was written within the last second
  dirty,          \* SnapshotDebounce.dirty
  queue,          \* the writer's channel
  snapshot,       \* the newest snapshot on disk; <<>> if there is none
  rows            \* the table closed_tabs, oldest first

Tabs == INSTANCE TabManager

memory == <<windows, tabs, windowOrder, closed>>
disk == <<snapshot, rows>>
vars == <<memory, up, unrestored, recent, dirty, queue, disk>>

(***************************************************************************)
(* The writer's operations                                                 *)
(***************************************************************************)

Saved(s) == [op |-> "snapshot", snapshot |-> s]
Pushed(entry) == [op |-> "push", entry |-> entry]
Popped(w) == [op |-> "pop", window_id |-> w]

\* Mutant: the newest row, whatever its window
WithoutNewest(table, w) == IF table = <<>> THEN table ELSE Front(table)

\* pop_closed_tab deletes the newest row of the window, or the newest row.
WithoutPopped(table, w) ==
  LET ofWindow == {i \in DOMAIN table : table[i].window_id = w}
  IN IF table = <<>> THEN table
     ELSE RemoveAt(table, IF ofWindow # {} THEN Max(ofWindow) ELSE Len(table))

\* The table after an operation
RowsAfter(table, op) ==
  CASE op.op = "push" -> Tabs!Newest(Append(table, op.entry), KeptRows)
    [] op.op = "pop"  -> WithoutPopped(table, op.window_id)
    [] OTHER          -> table

SnapshotAfter(s, op) == IF op.op = "snapshot" THEN op.snapshot ELSE s

\* What the disk will hold when the channel is drained
QueuedSnapshot ==
  LET saved == {i \in DOMAIN queue : queue[i].op = "snapshot"}
  IN IF saved = {} THEN snapshot ELSE queue[Max(saved)].snapshot


\* The table before each operation of a queue and after the last
TablesOf(table, q) ==
  LET f[n \in 0 .. Len(q)] == IF n = 0 THEN table ELSE RowsAfter(f[n - 1], q[n])
  IN f

QueuedRows == TablesOf(rows, queue)[Len(queue)]

\* current_snapshot: the windows in their order, with the place of the active tab
CurrentSnapshot ==
  [i \in DOMAIN windowOrder |->
     LET window == windows[windowOrder[i]]
     IN [pages |-> [j \in DOMAIN window.tab_ids |-> tabs[window.tab_ids[j]].page],
         active_index |-> Tabs!IndexOf(window.tab_ids, window.active_tab_id) - 1]]

\* Mutant: a change within the second leaves no mark.
NoteForgetful(ops) ==
  \/ /\ ~recent
     /\ recent' = TRUE
     /\ dirty' = FALSE
     /\ queue' = queue \o Append(ops, Saved(CurrentSnapshot'))
  \/ /\ recent
     /\ queue' = queue \o ops
     /\ UNCHANGED <<recent, dirty>>

\* note_session_changed at the end of a call that has queued `ops`
NoteSessionChanged(ops) ==
  \/ /\ ~recent
     /\ recent' = TRUE
     /\ dirty' = FALSE
     /\ queue' = queue \o Append(ops, Saved(CurrentSnapshot'))
  \/ /\ recent
     /\ dirty' = TRUE
     /\ queue' = queue \o ops
     /\ UNCHANGED recent

(***************************************************************************)
(* The calls                                                               *)
(***************************************************************************)

MayCall == up /\ unrestored = <<>> /\ Len(queue) <= MaxQueue

\* No row names the window of a random id.
NamedByRow(w) ==
  \/ \E i \in DOMAIN rows : rows[i].window_id = w
  \/ \E i \in DOMAIN queue : queue[i].op = "push" /\ queue[i].entry.window_id = w

CreateWindow(w, t) == ~NamedByRow(w) /\ Tabs!CreateWindow(w, t) /\ NoteSessionChanged(<<>>)

\* Calls that change the windows and close no tab; activating the tab in front
\* stands for those that change nothing in a snapshot (set_pinned).
Rearrange ==
  /\ \/ \E w \in WindowId, t \in TabId, p \in Page : Tabs!CreateTab(w, t, p)
     \/ \E t \in TabId : Tabs!ActivateTab(t)
     \/ \E t \in TabId, i \in Tabs!Positions : Tabs!ReorderTab(t, i)
     \/ \E t \in TabId, w \in WindowId, i \in Tabs!Positions : Tabs!MoveTab(t, w, i)
     \/ \E t \in TabId, p \in Page : Tabs!NotifyCommitted(t, p)
  /\ NoteSessionChanged(<<>>)

CloseTab(t) == Tabs!CloseTab(t) /\ NoteSessionChanged(<<Pushed(Last(closed'))>>)

\* recently_closed hands the entries out newest first, and so they are queued.
CloseWindow(w) ==
  LET entries == Reverse(Tabs!Newest(closed', Len(windows[w].tab_ids)))
  IN /\ Tabs!CloseWindow(w)
     /\ NoteSessionChanged([i \in DOMAIN entries |-> Pushed(entries[i])])

\* Mutant: its own window, there or not
TargetUnchecked(w, entry) == IF w \in DOMAIN windows THEN {w} ELSE {entry.window_id}

\* The window a reopened tab comes back to: the one asked for, else its own
Target(w, entry) ==
  IF w \in DOMAIN windows THEN {w} ELSE {entry.window_id} \cap DOMAIN windows

\* The entry leaves ring and table.  The tab is created, which is one change of the
\* session, and then gets its old title, which is another.
ReopenClosedTab(w) ==
  LET entry == closed[Tabs!ReopenIndex(w)]
  IN /\ closed # <<>>
     /\ closed' = RemoveAt(closed, Tabs!ReopenIndex(w))
     /\ \/ /\ Target(w, entry) = {}
           /\ queue' = Append(queue, Popped(entry.window_id))
           /\ UNCHANGED <<windows, tabs, windowOrder, recent, dirty>>
        \/ \E target \in Target(w, entry), t \in Tabs!FreshTab :
             /\ windows' = [windows EXCEPT ![target] =
                  [tab_ids |-> Append(@.tab_ids, t), active_tab_id |-> t]]
             /\ tabs' = Tabs!Put(tabs, t, [window_id |-> target, page |-> entry.page])
             /\ UNCHANGED windowOrder
             /\ queue' = queue \o <<Popped(entry.window_id)>>
                           \o (IF recent THEN <<>> ELSE <<Saved(CurrentSnapshot')>>)
             /\ recent' = TRUE
             /\ dirty' = TRUE

Call ==
  /\ MayCall
  /\ \/ \E w \in WindowId, t \in TabId : CreateWindow(w, t)
     \/ Rearrange
     \/ \E t \in TabId : CloseTab(t)
     \/ \E w \in WindowId : CloseWindow(w) \/ ReopenClosedTab(w)
  /\ UNCHANGED <<up, unrestored, disk>>

(***************************************************************************)
(* Time, the writer, and the process                                       *)
(***************************************************************************)

SecondPasses ==
  /\ recent
  /\ recent' = FALSE
  /\ UNCHANGED <<memory, up, unrestored, dirty, queue, disk>>

WriterApply ==
  /\ queue # <<>>
  /\ snapshot' = SnapshotAfter(snapshot, Head(queue))
  /\ rows' = RowsAfter(rows, Head(queue))
  /\ queue' = Tail(queue)
  /\ UNCHANGED <<memory, up, unrestored, recent, dirty>>

\* Nothing of the process is left.
Gone ==
  /\ windows' = <<>> /\ tabs' = <<>> /\ windowOrder' = <<>> /\ closed' = <<>>
  /\ up' = FALSE
  /\ unrestored' = <<>>
  /\ recent' = FALSE
  /\ dirty' = FALSE
  /\ queue' = <<>>

\* Mutant: the last change is not flushed.
FlushedLate == snapshot

\* flush_session writes what note_session_changed held back.
Flushed == IF dirty THEN CurrentSnapshot ELSE snapshot

\* prepareForTermination: the session, then the storage, then the process ends. The
\* main thread waits in it for the writer, whose steps come first.
Shutdown ==
  /\ up
  /\ unrestored = <<>>
  /\ queue = <<>>
  /\ snapshot' = Flushed
  /\ UNCHANGED rows
  /\ Gone

\* The process is killed, or the watchdog ends it.
Crash == up /\ Gone /\ UNCHANGED disk

\* A new core loads the ring and begins to restore the newest snapshot.
Start ==
  /\ ~up
  /\ up' = TRUE
  /\ closed' = Tabs!LoadedRing(rows)
  /\ unrestored' = snapshot
  /\ UNCHANGED <<windows, tabs, windowOrder, recent, dirty, queue, disk>>

\* restore_previous_session: one window after the other
Restore(w, list) ==
  /\ unrestored # <<>>
  /\ ~NamedByRow(w)
  /\ LET window == Head(unrestored)
     IN /\ Len(list) = Len(window.pages)
        /\ Tabs!RestoreWindow(w, list, window.pages, window.active_index)
  /\ unrestored' = Tail(unrestored)
  /\ UNCHANGED <<up, recent, dirty, queue, disk>>

Init ==
  /\ windows = <<>> /\ tabs = <<>> /\ windowOrder = <<>> /\ closed = <<>>
  /\ up = FALSE
  /\ unrestored = <<>>
  /\ recent = FALSE
  /\ dirty = FALSE
  /\ queue = <<>>
  /\ snapshot = <<>>
  /\ rows = <<>>

Next ==
  \/ Call
  \/ SecondPasses \/ WriterApply
  \/ Shutdown \/ Crash \/ Start
  \/ \E w \in WindowId, list \in BoundedSeq(TabId, Cardinality(TabId)) : Restore(w, list)

Spec == Init /\ [][Next]_vars

(***************************************************************************)
(* Properties                                                              *)
(***************************************************************************)

Window == [pages : Seq(Page), active_index : Nat]
Op ==
  [op : {"snapshot"}, snapshot : Seq(Window)]
    \cup [op : {"push"}, entry : Tabs!ClosedTab]
    \cup [op : {"pop"}, window_id : WindowId]

\* Every variable has its shape.
TypeOK ==
  /\ Tabs!TypeOK
  /\ up \in BOOLEAN
  /\ unrestored \in Seq(Window)
  /\ recent \in BOOLEAN
  /\ dirty \in BOOLEAN
  /\ queue \in Seq(Op)
  /\ snapshot \in Seq(Window)
  /\ rows \in Seq(Tabs!ClosedTab)

Restored == up /\ unrestored = <<>>

\* The types, and: the windows, tabs and order of the tab manager agree also in
\* what a restart rebuilds from the disk and where a reopened tab is put.
StructureOK == TypeOK /\ Tabs!StructureOK

\* FR-017, FR-018: what is not marked dirty is on its way to the disk, whatever
\* order calls, writer, debounce, shutdowns and crashes took; a session that was
\* just restored is the one the disk holds.
SavedUnlessDirty == Restored /\ ~dirty => QueuedSnapshot = CurrentSnapshot

\* "quit never loses session state": after a shutdown the disk holds the windows as
\* they were, also a change that came within the second of the last write.
ShutdownKeepsSession == [][Shutdown => snapshot' = CurrentSnapshot]_vars

\* The ring is the newest part of the rows.
RingsAgree == up => IsSuffix(closed, QueuedRows)

\* A step takes away at most one tab.
AtMostOneCloses == \A s, t \in DOMAIN tabs \ DOMAIN tabs' : s = t

\* FR-015: ring and table stay in agreement, and a restart brings the ring back,
\* through every step but the close of several tabs at once (which queues them
\* in the wrong order), whatever the two capacities drop.
RingsStayAgreed ==
  [][RingsAgree /\ AtMostOneCloses => RingsAgree']_vars
=============================================================================
