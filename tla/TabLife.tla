------------------------------- MODULE TabLife -------------------------------
(***************************************************************************)
(* The life of tabs between the core and the macOS shell: activation,      *)
(* suspension under LRU pressure, the media tracker (blaze-core,           *)
(* blaze-media), and the shell that keeps one web view per live tab        *)
(* (WebViewStore, BrowserWindow, WebKitBackend).                           *)
(*                                                                         *)
(* The core is called from the main thread only, so a call is one step.    *)
(* What is concurrent is the rest: pages load, play and post messages;     *)
(* event batches and published snapshots of the state wait in the main     *)
(* queue; SwiftUI updates the window when it comes to it. One window.      *)
(***************************************************************************)
EXTENDS Naturals, Sequences, FiniteSets, SequencesExt, Maps

CONSTANTS
  Tab,           \* tab ids that can be drawn
  Player,        \* tabs whose pages play, and that the user mutes
  Pinnable,      \* tabs the user pins
  NoTab,
  MaxActive,     \* tab_suspend.max_active
  MaxQueue,      \* bound: blocks in the main queue when a new cause arises
  MaxLoads,      \* bound: loads of a view that have not ended
  MaxPosts       \* bound: messages of a page on their way

ASSUME Subsets == Player \subseteq Tab /\ Pinnable \subseteq Tab /\ NoTab \notin Tab
ASSUME Bounds == MaxActive \in Nat /\ MaxLoads \in Nat \ {0}
ASSUME TabIsFinite == IsFiniteSet(Tab)

VARIABLES
  tabs,          \* TabManager: open tab |-> its record
  active,        \* active_tab_id
  recency,       \* open tabs by last_activated
  sessions,      \* MediaTracker: tab |-> session
  shown,         \* browserState, the shell's last snapshot
  stale,         \* the window has not been updated since that changed
  main,          \* main queue: batches to handle, snapshots to reconcile with
  views,         \* WebViewStore.backends: tab |-> its web view
  front,         \* tab of the window's activeBackend, which may be torn down
  lastWords      \* posts of the torn-down view that activeBackend retains

coreVars == <<tabs, active, recency, sessions>>
vars == <<coreVars, shown, stale, main, views, front, lastWords>>

TabRecord == [state : {"active", "loading", "suspended"}, pinned : BOOLEAN,
              audio : {"silent", "audible", "muted"}, empty : BOOLEAN]
Session == [playing : BOOLEAN, muted : BOOLEAN]
View == [loads : 0 .. MaxLoads, muted : BOOLEAN,
         playing : BOOLEAN, posts : Seq(BOOLEAN)]

NewTab(isEmpty) == [state |-> "active", pinned |-> FALSE, audio |-> "silent", empty |-> isEmpty]
NewView == [loads |-> 0, muted |-> FALSE, playing |-> FALSE, posts |-> <<>>]

(***************************************************************************)
(* The core                                                                *)
(***************************************************************************)

Touch(list, t) == Append(RemoveFirst(list, t), t)

SetState(map, T, state) ==
  [t \in DOMAIN map |-> IF t \in T THEN [map[t] EXCEPT !.state = state] ELSE map[t]]

\* MediaSession::effective
Effective(s) == IF s.muted THEN "muted" ELSE IF s.playing THEN "audible" ELSE "silent"

SessionOf(t) ==
  IF t \in DOMAIN sessions THEN sessions[t] ELSE [playing |-> FALSE, muted |-> FALSE]

\* Mutant: the tracker answers for playback only.
UpdateSessionByPlayback(t, s) ==
  /\ sessions' = Put(sessions, t, s)
  /\ tabs' = IF t \in DOMAIN tabs /\ SessionOf(t).playing # s.playing
             THEN [tabs EXCEPT ![t].audio = Effective(s)] ELSE tabs

\* MediaTracker::update and apply_audio_state, which finds no tab when the
\* tab was closed meanwhile; the session stays.
UpdateSession(t, s) ==
  /\ sessions' = Put(sessions, t, s)
  /\ tabs' = IF t \in DOMAIN tabs /\ Effective(SessionOf(t)) # Effective(s)
             THEN [tabs EXCEPT ![t].audio = Effective(s)] ELSE tabs

\* Of some tabs, those that at least MaxActive others were activated after
LeastRecent(T, order) ==
  LET rank == [t \in T |-> CHOOSE i \in DOMAIN order : order[i] = t]
  IN  {t \in T : Cardinality({u \in T : rank[u] > rank[t]}) >= MaxActive}

\* Mutant: sound does not keep a tab alive.
CandidatesAnyAudio(map, focus, order) ==
  LeastRecent({t \in DOMAIN map : map[t].state = "active" /\ ~map[t].pinned /\ t # focus},
              order)

\* lru_suspension_candidates
Candidates(map, focus, order) ==
  LeastRecent({t \in DOMAIN map : /\ map[t].state = "active" /\ ~map[t].pinned
                                  /\ map[t].audio # "audible" /\ t # focus},
              order)

(***************************************************************************)
(* The main queue                                                          *)
(***************************************************************************)

Batch == [batch |-> TRUE]
Snapshot(map, focus) == [tabs |-> map, active |-> focus]

\* What WebViewStore.sync looks at in a snapshot
Published(map) == [batch |-> FALSE,
                   keep  |-> {t \in DOMAIN map : map[t].state # "suspended"},
                   muted |-> {t \in DOMAIN map : map[t].audio = "muted"}]

Room == Len(main) < MaxQueue

\* refreshState after the blocks `queued` were posted
Refresh(queued) ==
  /\ shown' = Snapshot(tabs', active')
  /\ stale' = (stale \/ shown' # shown)
  /\ main' = main \o queued \o <<Published(tabs')>>

\* A batch follows a change of the tabs that the core reports.
EmitIfChanged ==
  main' = IF tabs' = tabs THEN main ELSE Append(main, Batch)

\* refreshState on the tabs `map`, then enforceTabSuspension
RefreshAndSuspend(map, queued) ==
  LET victims == Candidates(map, active', recency')
  IN  IF victims = {} THEN tabs' = map /\ Refresh(queued)
      ELSE /\ tabs' = SetState(map, victims, "suspended")
           /\ Refresh(queued \o <<Published(map), Batch>>)

(***************************************************************************)
(* The user                                                                *)
(***************************************************************************)

ActivateTab(t) ==
  /\ Room /\ t \in DOMAIN tabs
  /\ active' = t
  /\ recency' = Touch(recency, t)
  /\ RefreshAndSuspend(tabs, <<>>)
  /\ UNCHANGED <<sessions, views, front, lastWords>>

Fresh == Tab \ (DOMAIN tabs \cup DOMAIN sessions \cup DOMAIN views \cup {front})

CreateTab(t) ==
  /\ Room /\ t \in Fresh
  /\ active' = t
  /\ recency' = Touch(recency, t)
  /\ \E isEmpty \in BOOLEAN : RefreshAndSuspend(Put(tabs, t, NewTab(isEmpty)), <<Batch>>)
  /\ UNCHANGED <<sessions, views, front, lastWords>>

\* A link that opens a window: asked for by the page, so at any time.
CreateBackgroundTab(t) ==
  /\ Room /\ t \in Fresh
  /\ UNCHANGED active
  /\ recency' = Touch(Append(recency, t), active)
  /\ RefreshAndSuspend(Put(tabs, t, NewTab(FALSE)), <<Batch>>)
  /\ UNCHANGED <<sessions, views, front, lastWords>>

\* TabManager says which tab has the focus then.
CloseTab(t) ==
  /\ Room /\ t \in DOMAIN tabs /\ Cardinality(DOMAIN tabs) > 1
  /\ tabs' = Drop(tabs, {t})
  /\ recency' = RemoveFirst(recency, t)
  /\ sessions' = Drop(sessions, {t})
  /\ IF active = t THEN active' \in DOMAIN tabs' ELSE UNCHANGED active
  /\ Refresh(<<Batch>>)
  /\ UNCHANGED <<views, front, lastWords>>

SetPinned(t) ==
  /\ Room /\ t \in DOMAIN tabs \cap Pinnable
  /\ tabs' = [tabs EXCEPT ![t].pinned = ~@]
  /\ UNCHANGED active
  /\ Refresh(<<>>)
  /\ UNCHANGED <<recency, sessions, views, front, lastWords>>

\* The menu mutes what is not muted.
SetMuted(t) ==
  /\ Room /\ t \in DOMAIN tabs \cap Player
  /\ UpdateSession(t, [SessionOf(t) EXCEPT !.muted = (tabs[t].audio # "muted")])
  /\ UNCHANGED active
  /\ Refresh(IF tabs' = tabs THEN <<>> ELSE <<Batch>>)
  /\ UNCHANGED <<recency, views, front, lastWords>>

BeginLoad(v) == [v EXCEPT !.loads = @ + 1]
EndLoad(v) == [v EXCEPT !.loads = @ - 1]

\* submitAddress, openBookmark: by the toolbar of the view in front. A view
\* that is torn down loads for nobody.
Navigate ==
  /\ Room /\ front \in DOMAIN tabs
  /\ front \in DOMAIN views => views[front].loads < MaxLoads
  /\ tabs' = SetState(tabs, {front}, "loading")
  /\ main' = Append(main, Batch)
  /\ views' = IF front \in DOMAIN views THEN [views EXCEPT ![front] = BeginLoad(@)] ELSE views
  /\ UNCHANGED <<active, recency, sessions, shown, stale, front, lastWords>>

(***************************************************************************)
(* The pages                                                               *)
(***************************************************************************)

\* A page follows a link by itself; the core hears of the commit.
FollowLink(t) ==
  /\ Room /\ t \in DOMAIN views /\ views[t].loads < MaxLoads
  /\ t \in DOMAIN tabs /\ ~tabs[t].empty
  /\ views' = [views EXCEPT ![t] = BeginLoad(@)]
  /\ UNCHANGED <<coreVars, shown, stale, main, front, lastWords>>

\* The old document posts that it stops; the new one has not been muted.
Replaced(v) ==
  [v EXCEPT !.muted = FALSE, !.playing = FALSE,
            !.posts = IF v.playing THEN Append(@, FALSE) ELSE @]

\* That a load commits once is left out.
Commit(t) ==
  /\ Room /\ t \in DOMAIN views /\ views[t].loads > 0
  /\ views' = [views EXCEPT ![t] = Replaced(@)]
  /\ IF t \in DOMAIN tabs
     THEN tabs' = [tabs EXCEPT ![t].empty = FALSE] /\ main' = Append(main, Batch)
     ELSE UNCHANGED <<tabs, main>>
  /\ UNCHANGED <<active, recency, sessions, shown, stale, front, lastWords>>

\* didFinish, or a failure before or after the commit: notify_loaded, which
\* refuses a suspended tab.
LoadEnds(t) ==
  /\ t \in DOMAIN views /\ views[t].loads > 0
  /\ views' = [views EXCEPT ![t] = EndLoad(@)]
  /\ IF t \in DOMAIN tabs /\ tabs[t].state # "suspended"
     THEN tabs' = SetState(tabs, {t}, "active") /\ main' = Append(main, Batch)
     ELSE UNCHANGED <<tabs, main>>
  /\ UNCHANGED <<active, recency, sessions, shown, stale, front, lastWords>>

SwitchPlayer(v) == [v EXCEPT !.playing = ~v.playing, !.posts = Append(@, ~v.playing)]

PlayOrPause(t) ==
  /\ t \in DOMAIN views \cap Player /\ Len(views[t].posts) < MaxPosts
  /\ t \in DOMAIN tabs /\ ~tabs[t].empty
  /\ views' = [views EXCEPT ![t] = SwitchPlayer(@)]
  /\ UNCHANGED <<coreVars, shown, stale, main, front, lastWords>>

\* notify_media_playback
DeliverPost(t) ==
  /\ Room /\ t \in DOMAIN views /\ views[t].posts # <<>>
  /\ UpdateSession(t, [SessionOf(t) EXCEPT !.playing = Head(views[t].posts)])
  /\ EmitIfChanged
  /\ views' = [views EXCEPT ![t].posts = Tail(@)]
  /\ UNCHANGED <<active, recency, shown, stale, front, lastWords>>

\* Messages have no guard against a view that is torn down.
DeliverLastWords ==
  /\ Room /\ lastWords # <<>>
  /\ UpdateSession(front, [SessionOf(front) EXCEPT !.playing = Head(lastWords)])
  /\ EmitIfChanged
  /\ lastWords' = Tail(lastWords)
  /\ UNCHANGED <<active, recency, shown, stale, views, front>>

(***************************************************************************)
(* The shell                                                               *)
(***************************************************************************)

\* CoreBridge.handle: every event means: pull the state again.
HandleBatch ==
  /\ main # <<>> /\ Head(main).batch
  /\ shown' = Snapshot(tabs, active)
  /\ stale' = (stale \/ shown' # shown)
  /\ main' = Append(Tail(main), Published(tabs))
  /\ UNCHANGED <<coreVars, views, front, lastWords>>

\* Mutants: sync mutes no new document; it keeps the views of suspended tabs.
SyncViewsMuteOnce ==
  /\ main # <<>> /\ ~Head(main).batch
  /\ LET gone == DOMAIN views \ Head(main).keep
     IN  /\ views' = [t \in DOMAIN views \ gone |->
                        [views[t] EXCEPT !.muted = @ \/ (t \in Head(main).muted /\ t # front)]]
         /\ UNCHANGED lastWords
  /\ main' = Tail(main)
  /\ UNCHANGED <<coreVars, shown, stale, front>>

SyncViewsKeepSuspended ==
  /\ main # <<>> /\ ~Head(main).batch
  /\ views' = [t \in DOMAIN views \cap (DOMAIN tabs \cup Head(main).keep) |->
                 [views[t] EXCEPT !.muted = (t \in Head(main).muted)]]
  /\ main' = Tail(main)
  /\ UNCHANGED <<coreVars, shown, stale, front, lastWords>>

\* WebViewStore.sync: a view whose tab is closed or suspended in the snapshot
\* is torn down; its page pauses, which is heard if activeBackend retains it.
SyncViews ==
  /\ main # <<>> /\ ~Head(main).batch
  /\ LET gone == DOMAIN views \ Head(main).keep
     IN  /\ views' = [t \in DOMAIN views \ gone |->
                        [views[t] EXCEPT !.muted = (t \in Head(main).muted)]]
         /\ lastWords' = IF front \notin gone THEN lastWords
                         ELSE views[front].posts \o (IF views[front].playing THEN <<FALSE>> ELSE <<>>)
  /\ main' = Tail(main)
  /\ UNCHANGED <<coreVars, shown, stale, front>>

\* onChange (taken to fire also when the state changed and changed back),
\* syncWithState: the window shows the view of the active tab. A
\* view made for a page resumes it, by way of navigate.
UpdateWindow ==
  /\ stale
  /\ stale' = FALSE
  /\ front' = shown.active
  /\ lastWords' = IF front' = front /\ front \in DOMAIN views THEN lastWords ELSE <<>>
  /\ IF front' \in DOMAIN views THEN UNCHANGED <<tabs, main, views>>
     ELSE IF shown.tabs[front'].empty
     THEN views' = Put(views, front', NewView) /\ UNCHANGED <<tabs, main>>
     ELSE /\ views' = Put(views, front', BeginLoad(NewView))
          /\ tabs' = SetState(tabs, {front'}, "loading")
          /\ main' = Append(main, Batch)
  /\ UNCHANGED <<active, recency, sessions, shown>>

\* restore_window: all tabs suspended, the active one activated last; the shell
\* pulls the state.
Init ==
  \E open \in SUBSET Tab \ {{}}, page \in BOOLEAN :
    /\ active \in open
    /\ tabs = [t \in open |-> [NewTab(t = active /\ ~page) EXCEPT !.state = "suspended"]]
    /\ recency = Append(SetToSeq(open \ {active}), active)
    /\ sessions = <<>>
    /\ shown = Snapshot(tabs, active) /\ stale = TRUE
    /\ main = <<Published(tabs)>>
    /\ views = <<>> /\ front = NoTab /\ lastWords = <<>>

Next ==
  \/ Navigate \/ DeliverLastWords \/ HandleBatch \/ SyncViews \/ UpdateWindow
  \/ \E t \in Tab :
       \/ ActivateTab(t) \/ CreateTab(t) \/ CreateBackgroundTab(t) \/ CloseTab(t)
       \/ SetPinned(t) \/ SetMuted(t)
       \/ FollowLink(t) \/ Commit(t) \/ LoadEnds(t) \/ PlayOrPause(t) \/ DeliverPost(t)

Spec == Init /\ [][Next]_vars
-----------------------------------------------------------------------------
\* The types, and that the active tab is open.
TypeOK ==
  /\ DOMAIN tabs \subseteq Tab /\ \A t \in DOMAIN tabs : tabs[t] \in TabRecord
  /\ active \in DOMAIN tabs
  /\ recency \in Seq(Tab) /\ ToSet(recency) = DOMAIN tabs /\ IsInjective(recency)
  /\ DOMAIN sessions \subseteq Tab /\ \A t \in DOMAIN sessions : sessions[t] \in Session
  /\ DOMAIN views \subseteq Tab /\ \A t \in DOMAIN views : views[t] \in View
  /\ front \in Tab \cup {NoTab}
  /\ lastWords \in Seq(BOOLEAN) /\ stale \in BOOLEAN

\* The types, and: what the tab manager says of a tab's sound is what the tracker
\* says. None of the changes the tracker reports is lost, late ones for closed tabs
\* included.
AudioAgrees ==
  /\ TypeOK
  /\ \A t \in DOMAIN tabs : tabs[t].audio = Effective(SessionOf(t))

\* When the main queue is empty no closed or suspended tab holds a web view, but
\* for the empty one in front (it has nothing to resume, so nothing unsuspends it).
ViewsFollowTabs ==
  main = <<>> =>
    \A t \in DOMAIN views :
      /\ t \in DOMAIN tabs
      /\ tabs[t].state = "suspended" => t = front /\ tabs[t].empty

\* When the main queue is empty every page of a muted tab is muted, and no
\* other, though each load replaces the document that was muted.
MuteReachesPage ==
  main = <<>> =>
    \A t \in DOMAIN views : tabs[t].empty \/ (views[t].muted <=> tabs[t].audio = "muted")

\* "A background tab with audible playback is in use however long ago it was
\* activated": no tab is suspended whose page plays, unmuted, and has said so;
\* nor one that is pinned or has the focus.
SuspendSparesTabsInUse ==
  [][\A t \in DOMAIN tabs \cap DOMAIN tabs' :
       (tabs[t].state # "suspended" /\ tabs'[t].state = "suspended") =>
         /\ t # active' /\ ~tabs[t].pinned
         /\ ~(/\ t \in DOMAIN views /\ views[t].playing /\ views[t].posts = <<>>
              /\ tabs[t].audio # "muted")]_vars
=============================================================================
