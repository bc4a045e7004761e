# Blaze browser: a TLA+ development

Blaze is a browser with a Rust core and a macOS shell. This directory models
the core's stateful parts in TLA+, checks the models with TLC on small
instances, and proves theorems about them with TLAPS. Every definition is
translated from the source; `PROJECT.json` names the lines of each.

## 1. Inventory

The core is one library. The shell calls it through the FFI from its main
thread and from a utility queue; engines call back with page events. The
facade `BlazeCore` (crates/blaze-core/src/lib.rs) holds each component behind
a mutex of its own, so that an operation on one component is atomic and what
spans two components, or a flush, is not.

| Component | State | Operations | Interacts with | What is hard, and what makes it correct |
|---|---|---|---|---|
| Tab manager (`blaze-core/tabs.rs`) | windows with tab lists and focus, flat tab map, window order, ring of closed tabs | create, close, activate, move, reorder, reopen, restore, suspend | session, navigation, media, shell | Three structures that must agree after any sequence; focus and order through closes and drags; the bounded ring |
| Session (`blaze-core/session.rs`, `blaze-storage/session.rs`) | debounce time and dirty flag, last snapshot, persisted ring | note change, flush, restore, reopen, persist closed tab | tab manager, writer, crash and restart | No timer behind the debounce; memory ring and table ring must agree; snapshots computed and submitted in two steps |
| Downloads (`blaze-core/downloads.rs`, `blaze-net/download.rs`, `blaze-storage/downloads.rs`) | table rows, job registry with control flags, `.part` and finished files | start, pause, resume, cancel, launch pass; the worker's request, reads, rename, settle | writer, file system, server, shell threads | One thread per transfer against API threads, a FIFO to the table, faults, restarts, a resource that changes. One writer per file, whole files, legal transitions, every transfer settles |
| Storage writer (`blaze-storage/writer.rs`, `lib.rs`, `retention.rs`) | channel, writer thread, handles, retention thread | submit, flush, synchronous write, prune, drop | everything persistent | Barrier semantics of flush across threads; a drop that neither loses writes nor waits for ever |
| Navigation and history (`blaze-core/navigation.rs`) | page and history of a tab, history rows | navigate, committed, loaded | tab manager, session, writer | A title that arrives after the last snapshot |
| Tab suspension, media (`blaze-core/session.rs`, `blaze-media`) | tab life cycle, recency, playing and muted sessions | suspend LRU, transition, playback, mute, drop tab | tab manager, engines | What the engines, the tracker and the tab manager each believe of a tab's sound; views that follow the tabs with a delay |
| Events (`blaze-core/events.rs`) | pending batch | emit, flush | all; shell | Concurrent flushes split batches and deliver them out of order |
| Bookmarks (`blaze-core/bookmarks.rs`, `blaze-storage/bookmarks.rs`) | tree of nodes with positions | insert, update, delete, move | writer (synchronous) | Folders without cycles; positions after moves |
| Settings, site exceptions (`blaze-storage`) | settings document, exceptions table | update, toggle | FFI, ad blocking | Memory changed before the save can fail |
| Ad blocking (`blaze-adblock`, start in `blaze-ffi`) | engine, its cached image and fingerprint, shield counters | init, classify, exceptions | settings, FFI | Two files written in turn and a crash, or a refused write, between |
| Engines (`blaze-engine`, `blaze-engine-servo`) | current and target page, back and forward stacks, engine thread | load, back, forward, reload, stop, suspend, resume | tab manager | Commands around a pending load; commands to a thread that ends |
| FFI, diagnostics, watchdog, shell | panic guard, log files, mirrors of core state | call, log, probe | core | Mirrors that lag; launch order of the threads |

`PROJECT.json` lists every component with its status and every hazard at its
line.

## 2. Plan

The modules in the order in which they were written, most important behaviour
first. `A < B` says that B composes or extends A.

| Module | What it is for | State |
|---|---|---|
| `TabManager`, `TabManagerProofs` | structure, focus, order, ring | checked and proved |
| `DownloadLifecycle` < `Downloads`, `DownloadsProofs` | transfers against API threads, faults, restarts | checked, safety and refinement proved |
| `OrderedStore` < `StorageWriter`, `StorageWriterProofs` | the writer thread, its barriers and its drop | checked, refinement and drain proved |
| `TabManager` < `Session`, `SessionProofs` | debounce, snapshots, ring and table, crash and restart | checked, structure, snapshots and rings proved |
| `Bookmarks`, `BookmarksProofs` | a forest under moves that break off | checked, forest, order and compaction proved |
| `FilterCache`, `SiteExceptions` < `ContentBlocking`, `ContentBlockingProofs` | from the lists on disk to the rules in a view | checked, cache, switch and lookup proved |
| `TabLife`, `TabLifeProofs` | suspension, media and the shell's web views | checked, sound, suspension, views and mute proved |
| `ServoEngine` < `EmbeddedEngine` < `EngineParity`, `EngineProofs` | two backends under the same calls | checked, safety proved |

What is left: an abstract `BrowserWindows` (a partition of the tabs into windows
with a focus), implemented by `TabManager`.

## 3. The modules

`Maps` has the two operations on maps with a changing set of keys that the
modules share.

### TabManager

`windows`, `tabs`, `windowOrder` and `closed` are the fields of the struct of
the same name. One action is one method; each runs under the facade's mutex. A
call that fails with `NotFound` or `InvalidArgument` changes nothing and is not a step.
A tab is reduced to its window (the back link) and its page; a closed tab to
the same. Ids are random UUIDs: a fresh one is mentioned nowhere in the state.
`Init` loads any ring the database may hold, longer than the capacity too.

`MCTabManager.cfg` has three tabs, three windows, two pages and a ring of two:
a window with three tabs closes into a ring of two (double eviction), a tab is
dragged out of a window it leaves empty, and every insert position exists,
beyond the end too. Ids are interchangeable, hence the symmetry.

- `StructureOK`: `check_invariants` of the source with the window order.
- `RingBounded`, the ring within its capacity: proved (section 4), and in no run.
- `FocusProperty`: the focus goes to the right neighbour of the tab that left,
  to the left one at the end.
- `OrderProperty`: a drag moves one tab; a close, insert or detach none.
- `RingProperty`: the tabs a step closes are a stretch of one window and enter the
  ring in its order; the oldest entries give way.
- `ReopenProperty`: reopening takes the newest entry of a window and leaves the
  others in order.

### Downloads and DownloadLifecycle

`rows` is the table, `queue` the writer's channel, `jobs` the registry,
`workers` the live worker threads with their `WorkerCtx`, `callers` the API
threads, `parts` and `dests` the files, `server` the version the server holds.
A call is cut where the code lets other threads in: `StartDownload`, then for each
name tried `ProbeFile` and `ProbePart` (the two questions of
`collision_safe_path`), `Reserve` (the `.part`, which the disk may refuse, and the
row), `SpawnWorker` (the thread), `Register` (the registry, afterwards); `ResumeDownload` (check, flush),
`ResumeRow`; `CancelDownload`, `CancelRow`; `ResumeInterrupted` (mark, flush),
`ListInterrupted`, and one resume after the other (`SkipResume` where it
fails). A worker steps through `SendRequest`, `OpenPart`, `CheckControl`,
`ReadChunk`, `ReadEnd`, `Rename`, `Settle`, `Leave`. The reading of a row and
what follows from it up to the submit is one step; so are the two submits of
`Settle`.

Abstractions: a file is the sequence of its chunks, each the piece of a version of
the resource; bytes, headers and the total length are otherwise left out.
`etag` stands for the validator the code uses (etag, or last-modified); a
validator names one version. The 250 ms throttle of progress writes is a free
choice. `Announced` are the versions whose answers carry their length: a body of any other
that ends early, without an error of the connection, counts as complete
(`EndOfBody`), so a whole file of it is any beginning of it (`Lengths`). `slipped` is a history variable:
the downloads in whose search a file got, between the two questions about a name, that name. With
two workers on one file, which the code does not intend, a write counts as an
append. Events change no state here.

Bounds: resources of one or two chunks (a resume needs one chunk on disk and
one to come), one or two versions (a stale validator needs two; one of the two announces
its length, the other does not), one or two downloads (a shared name needs two), two
workers, two names (the search goes from one to the next). Faults
are a constant: the network, the disk, the end of the process. Restarts and
pauses are not counted: the state space is finite without.
`DownloadsPair` drops states in which the writer is more than three operations
behind (`ShortQueue`).

Threads: `MayCall` lets the user's thread call at any time, or only after the
launch pass (`LaunchFirst`). The shell starts the pass on a utility queue and
does not wait. The safety runs that pass assume it is over before the user
acts, which is the usual course; section 5 says what happens otherwise.

| Run | Shows |
|---|---|
| `downloads_restart` | Network failures and restarts at every step: one worker per file, completed files whole, an active row always has a transfer behind it, and the table implements `DownloadLifecycle` |
| `downloads_change` | The resource changes: completed files are of one version (without restarts), cut ones only where the length is not known, and the progress of a resting download is what is on disk |
| `downloads_pair` | Two downloads that ask for one name never transfer into one `.part`; they share a name only when a rename falls between the two questions of a search |
| `downloads_liveness` | The network and the disk fail, the launch pass runs at any time: calls return, and every active download leaves that state |

`DownloadLifecycle` is the abstract specification: the transition matrix, and
"completed only with the file in place", whole if its length is known. Its `state` is the state column
of the table, its `delivered` the downloads whose row names such a file: a rename
delivers to every row with that name at once (`Deliver`). `ActiveMeansRunning`
starts with the types of the module. A property of the table that the next reader of
the file will see, after a flush, is stated of `Settled`: the last of the tables
that the queued writes lead through (`Written`).

Fairness: the writer drains its channel and API threads that are in a call
go on (`FairThreads`): both are threads that wait for nothing else, and
`FairSpec` assumes no more. That a connection delivers, ends or fails
(`FairWorkers`) is a premise inside `TransfersSettle`: the transport has a
connect timeout but no read timeout, so the code alone does not justify it.

### StorageWriter and OrderedStore

`queue` is the channel, `waiting` the writes each caller waits for, `holders`
the threads that own a `WriterHandle`, `retention` the daily job, `profile` the
progress of the drop, field by field. Writes are numbered by submission and
otherwise abstract. `OrderedStore` is the promise: writes applied in order, and
a waiting call returns only when all that was submitted before it is applied.
When the writer fails for good, no call waits any more and nothing more
is applied. Four writes, two clients and one handle let every kind of operation stand
behind every other. `WriterPanics` is a write that takes the thread along; the
code catches no panic there, and the receiver drops with the thread.

One run, `storage_writer`, checks the refinement (`ImplementsStore`), that the drop
of the profile loses no write (`DropDrains`, with the types), that no caller waits for ever
(`NoCallHangs`) and that the drop ends (`DropReturns`).

Fairness: the writer, the retention job and the dropping thread run. That
threads with a handle end (`FairHolders`) is a premise inside `DropReturns`.
Without it the property fails: `StorageWriter::drop` says "Closing the channel
ends the thread loop" (writer.rs:81), but the loop ends only with the last
handle, and a download worker stalled in a read holds one.

### Session

`Session` composes the tab manager (`Tabs`, an instance over the same variables)
with what outlives the process. `recent` and `dirty` are `SnapshotDebounce` (an
age below and above one second), `queue` the writer's channel with the
operations of `blaze-storage/session.rs`, `snapshot` the newest row of
`session_snapshots` (nothing reads the others), `rows` the table `closed_tabs`.
A call of the facade is one action, with everything it queues and the
`note_session_changed` at its end; the shell calls from one thread, and a crash
inside a call leaves what a crash after it leaves. `Shutdown` is
`prepareForTermination`, which blocks the main thread until the writer has drained its channel, `Crash` a kill or the watchdog's `exit`. `Start` loads
the ring; `Restore` brings one window of the snapshot back, with the setting
at its default. A call takes less than a second, so of the two notes of
`reopen_closed_tab` the second finds the first recent.

`MCSession.cfg` has two windows, two tabs, two pages, a ring of two and a table
of three: a tab can be closed beside another or with its window, reopened out of
the middle of the ring, in its own window, in another or nowhere. The code's two
capacities are equal; here the table's is larger, so that rows stand in it that the ring has dropped. `MaxQueue = 0`: a call is made when the
channel is drained; the operations of one call still reach the disk one by one, with
crashes between.

- `SavedUnlessDirty`: what is not marked dirty is on its way to the disk, and a
  restored session equals the snapshot it came from.
- `ShutdownKeepsSession`: a shutdown writes what the debounce held back.
- `RingsStayAgreed`: the ring stays the newest part of the table, through every
  step but the close of several tabs at once.
- `StructureOK`: the types, and the tab manager's structure, through restarts
  and reopenings.

### Bookmarks

`nodes` is the table, `move` the move the writer thread is in and the statement
it comes to next. An insert, an update and a delete are one statement and one
action (`InsertBookmark`, `InsertFolder`, `UpdateNode`, `DeleteNode` with its
cascade). `MoveNode` makes the checks and fixes the target, then `MakeRoom`,
`Place`, `CompactOld` and `CompactNew` run one by one, each committed by itself;
`BreakOff` is a statement that fails, or the end of the process, between two of
them. The recursive query of `would_create_cycle` is written as membership in
every set closed under "parent of", which needs no recursion and can be proved
about. Titles, times and the search are left out.

`Bookmarks.cfg` has four rows and positions up to two: a folder in a folder in a
folder, three siblings beside the place one moves to, gaps left by deletes and
equal positions left by broken moves. `MaxPos` bounds the positions of new rows,
those asked for in a move, and those a broken move may leave. The run checks
with deadlock on: some operation is always possible.

- `Forest`: each parent is a folder of the table, and there is no cycle.
- `OthersKeepOrder`: no statement changes the order of the entries that are not moved.
- `MoveCompacts`: a finished move leaves both folders with positions 0 .. n-1.

### FilterCache, SiteExceptions, ContentBlocking

`FilterCache` is `init_adblock`, step by step: `files` are the engine image, the
WebKit rules and a fingerprint beside each, `step` and `writing` say how far it
has come, `engine` and `rules` are the two `OnceLock`s. A write truncates
(`OpenFile`) and fills (`FillFile`); it may fail at the open, which leaves the old content, or
later, which leaves a piece (`RefuseFile`), and nobody looks at the result; `refused`, a history variable,
has the artifacts whose last write failed. Unreadable lists end the start (`InitFails`).
`CacheEnds` and `InstallLists` are a crash at any step and an update of the
application. An artifact is the version of the lists it was built from.

`SiteExceptions` is the table with the writer between a toggle and it; a host is
the sequence of its labels. `ContentBlocking` extends both with the switch: `setting`
in the core, `saved` in the file, `pending` in the dispatcher's queue, `taken` the batches that other
threads have taken and not yet handed on, `events` on the main queue, `mirror` in the
shell, `view` the rule list of one web view (waiting to ask again, waiting for
the compiler, or with rules), `compiled` the rule list all views share.
`update_settings` is two steps, since another thread's flush may come between the
event (`UpdateSettings`) and its own flush (`FlushSettings`); that other flush, of
`init_adblock` or a download worker, is two steps too (`TakeBatch`, `PostBatch`), because
the batch is handed on outside the lock. `outdated` and `overtaken` are history variables: which taken
batches are not the newest any more, and whether the batch posted last was such a one.

`ContentBlocking.cfg`: two versions of the lists (stale needs two), hosts of one,
two and three labels, one of them toggled, one thread that flushes beside the main
thread, two batches on their way (one can overtake the other), a disk that
refuses writes and lists that cannot be read. It stays off downgrades (section 5).
Cache, exceptions and switch meet only in the start and in the view, so
`OnePartAtATime` keeps their busy times apart: the settings change under the first lists, before
a write of the cache is refused or a site toggled, and lists, refused writes and toggles come
while the switch is at rest. The theorems have no such bound.

- `CacheMatchesLists`: the engine and the rules in use are those of the installed lists,
  whatever crashed in between, except an artifact whose own last write failed (section 5).
- `LookupIsNearest`: for every table over the hosts, the nearest exception
  decides, and a top-level domain covers nothing but itself.
- `ShellShowsSaved`: the types, and when no event is on its way the shell shows
  what the next start will load, also when a save failed, except when the batch posted
  last was taken before the newest change (section 5).
- `RulesArrive`: a view that waits for its rules gets them, unless blocking is
  off, the start failed, or the view goes.

Fairness: `init_adblock` runs on its queue (WF), a call of the main thread ends (WF of
`FlushSettings`), and between two calls, however many the user makes, the main thread serves its
queue, due timers and answers of WebKit (SF). Nothing is assumed of the user, of the disk or of
the other flushers.

`ShieldsToggle.cfg` is the same model without faults, for the finding of section 5.

### TabLife

`tabs` (state, pin, audio, whether it has a page), `active` and `recency` are the
tab manager's, `sessions` the media tracker's; `shown` is the state the shell
published last, `main` the main queue with event batches (`HandleBatch`) and
published snapshots (`SyncViews`), `stale` and `UpdateWindow` the update SwiftUI owes
the window, `views` the `WebViewStore`, `front` the view the window holds, and
`lastWords` what such a view still posts after its teardown. A call on the main
thread is one step with the refresh at its end; where the code refreshes,
computes candidates and suspends, `RefreshAndSuspend` does. Pages load
(`FollowLink`, `Commit`, `LoadEnds`), play and post (`PlayOrPause`,
`DeliverPost`, `DeliverLastWords`) between any two of them.

`TabLife.cfg` has two tabs, one that plays and one that is pinned at times, and
lets no background tab stay alive (`MaxActive = 0`), so each loss of focus
suspends. A new cause arises while the main queue has fewer than `MaxQueue` = 2 blocks: what the cause
adds may stand behind another, so a stale snapshot is there when a window update makes a
view. All of it is the main thread's: the shell calls `enforceTabSuspension` there, and
the window updates come between any two blocks of the queue. Batches that another thread
flushes are in `ContentBlocking` only; here "the queue is dry" also stands for "no other
thread holds a batch". A batch says no more here than "refresh", so their order does not matter.

- `AudioAgrees`: types, and tab manager and tracker say the same of the sound,
  late messages for closed tabs included.
- `ViewsFollowTabs`: with the queue dry, no closed or suspended tab holds a view
  (an empty tab in front excepted).
- `MuteReachesPage`: with the queue dry, the page of a muted tab is muted, in spite of loads
  that replace the document.
- `SuspendSparesTabsInUse`: no step suspends a tab that has the focus, is pinned,
  or plays unmuted and has said so.

The properties are safety; no fairness is assumed.

### ServoEngine, EmbeddedEngine, EngineParity

`ServoEngine` is the scaffold backend: `engine` has the fields of the struct, a
pending load advances one stage per `Pump`, `events` is all that was queued (the
owner drains it, which no step depends on), `trail` a history variable. `EmbeddedEngine` is
the libservo backend: `handle` is what the caller's side keeps, `commands` the
channel, `shared` the memory behind a mutex (events, mute), and `thread`, `webview`,
`artifacts` what the engine thread owns. libservo is not in the
repository: `Spin` and `ViewAfter` allow what its use in the code allows, where a history
move leads included. `EngineParity` gives both the same calls, as
`tests/engine_parity.rs` does. The backends share nothing but the calls, so one
order of their own steps stands for all (`Idle`).

`EngineParity.cfg` has two pages, the first one loaded being `news` without loss
(`FirstIsNews`: pages are interchangeable), and four calls: navigate, navigate, back,
forward, with any of them stopped, superseded or failing; a suspension and a
resume around a change of the artifacts; a frame request and a drop
at any time.

- `EventContract`: types; a commit follows its start, a success its commit, a
  failure its start, in either queue; both report the same changes of the sound.
- `HistoryIsLinear`: stacks and current page of the scaffold are one linear history, until a
  history move is itself cut short or a view is resumed (section 5).
- `ViewIsAsAsked`: with no command on its way, the thread has a view when and
  only when the calls asked for one, with the artifacts applied before the call
  that built it.
- `DropReturns`: a drop returns, whatever the thread was at.

Fairness: the engine thread runs, and a join that can return does.

## 4. What is proved

`TabManagerProofs` proves for all sets of ids and pages and every capacity,
from `NewTabIsPage` and `RingSizeIsPos` alone:

- `TypeCorrect`: `Spec => []TypeOK`
- `StructureHolds`: `Spec => []StructureOK`
- `RingStaysBounded`: `Spec => []RingBounded`

The inductive invariant is `Inv == TypeOK /\ Structure /\ RingBounded`.
`StructureOK` alone is not inductive without the types, and its parts need one
another: that a detached tab disappears from all windows needs the back links,
that a window left with one tab dies with it needs injectivity of its list,
that the tab at the focus position exists needs both. `Structure` is
`StructureOK` with its parts at one level, equal to it on well-typed states
(`StructureEquiv`). There is one lemma per action; `TabLeavesWindow` is shared
by closing and moving, `SameTabsInv` by activation and reordering.
The first section says what the list operations of the community modules do to
length, elements and injectivity of a list.

The second half of the module proves the action properties, from the same
assumptions:

- `FocusHolds`: `Spec => FocusProperty`
- `OrderHolds`: `Spec => OrderProperty`
- `ReopenHolds`: `Spec => ReopenProperty`
- `RingHolds`: `Spec => RingProperty`

They need the invariant before the step only. What a step does to the list of a
surviving window is one of three things (`ListStep`): a tab leaves, one comes in, or
one is taken out and put back. For each, a formula says at which index
every other tab stands afterwards, from which the order follows (`SameOrder`) and which tab
stands at the place of the one that left, which the focus needs. Reopening removes the last
index at which the window occurs in the ring, or the last at all (`ReopenTakesNewest`).
The ring is the end of the old ring followed by what closed (`RememberKeepsNewest`), and
being the end of a list is compared position by position from the last
(`SuffixElements`).

`SessionProofs` proves for all ids and pages, every ring and every table at least as
long, from `NewTabIsPage`, `RingSizeIsPos` and `TableHoldsRing`:

- `StructureHolds`: `Spec => []StructureOK`
- `NothingUnsaved`: `Spec => []SavedUnlessDirty`
- `ShutdownHolds`: `Spec => ShutdownKeepsSession`
- `RingsHold`: `Spec => RingsStayAgreed`

The lemmas about the tab manager are used through an instance (`P`), which the first
section shows to be the one `Session` composes (`Same...`). The invariant adds to
`SavedUnlessDirty` what a restart needs: nothing of a process but the disk outlives it
(`DownIsEmpty`), and while a session comes back, what is back followed by what is still
to come is what the disk holds (`RestoreFollowsDisk`). Each restored window moves one entry
across that line (`RestoreAppends`), which is exact only because every snapshot ever written
has its active index among its tabs (`GoodWindow`): an index beyond the list would come
back as the first tab and differ from the disk. For the channel, the writer's step
leaves what the last queued snapshot will make of the disk (`WriterKeepsQueued`).
For the ring, the table behind the channel is the value of a recursive function
(`TablesOf`): an operation queued is applied last (`TableAppend`), the writer takes the
first table away (`TableTail`). A push and a removal at corresponding places keep one list
the end of the other, and so does trimming, because the table is trimmed to no less than the
ring. A pop deletes the newest row of the entry's window: that this is the row of
the entry (`PoppedAgrees`) is so because no entry of the ring behind it is of that window.

`BookmarksProofs` proves for any pages and any size of the table, from
`NoPageIsNoPage`, `MaxIdIsPos` and `MaxPosIsNat`:

- `TypeCorrect`: `Spec => []TypeOK`
- `ForestHolds`: `Spec => []Forest`
- `OrderHolds`: `Spec => OthersKeepOrder`
- `CompactHolds`: `Spec => MoveCompacts`

The inductive invariant is `Inv == TypeOK /\ ParentsAreFolders /\ Acyclic /\
MoveIsSafe`. The last part is why it holds between the statements of a move:
until the row is placed, its new parent is a folder that is not below it, a fact
`would_create_cycle` established some statements before and no other statement may
disturb. Acyclicity says that no non-empty set of rows holds all its own parents; with the
cycle test as "every closed set that holds the target holds the node", placing
the node is safe by an argument about one set, without induction along paths
(`PlaceInv`). The statements that only renumber keep tree and cycles as they are
(`SameTreeForest`, `SameTreeCycle`); a cascading delete takes a closed set away
(`DeleteInv`). That cascade, the writer's one operation at a time, and row ids that are fresh
are assumed of SQLite and of the writer, as the module states them.
Renumbering gives an entry the number of entries before it, which grows strictly with the
position (`IndexGrows`), so it keeps the order (`ResequencedKeepsOrder`); such
numbers, all different and all below n, are exactly 0 .. n-1 (`NumbersFill`). That
`CompactNew` leaves the old folder dense needs to know that `CompactOld` has
run and nothing came between (`OldIsDense`).

`StorageWriterProofs` proves for any threads and any number of writes, from
`MaxWritesIsPos`, `OwnerIsNoClient` and `FreeIsNoNumber`:

- `WriterImplementsStore`: `Spec => ImplementsStore`
- `NoWriteIsLost`: `Spec => []DropDrains`

The invariant relates the channel to the calls. Until a write panics, what is applied,
followed by the writes queued, is 1 .. `submitted` in order (`AppliedInOrder`,
`QueuedInOrder`, `NothingMissing`); a waiting call has exactly one operation in the
channel, behind all the writes that it waits for (`CallsServed`, `OneCallEach`). So
when the writer answers it, those writes are applied, which is the step of
`OrderedStore`; without `OneCallEach` a second answer could come too early. For
the drop, the writer ends last (`WriterLast`) and the owner waits in the join
(`OwnerWaitsInDrop`). A step of the writer that answers nobody stutters.

`ContentBlockingProofs` proves for any number of versions, sites and flushing threads, from
`VersionsIsPos` and `NoVersion`, the last theorem from `TogglesAreHosts` and `HostsHaveLabels` too:

- `CacheHolds`: `"downgrade" \notin CacheFaults => (Spec => []CacheMatchesLists)`
- `ShellHolds`: `Spec => []ShellShowsSaved`
- `LookupHolds`: `Spec => []LookupIsNearest`

The first needs what each crash leaves on disk: a file is as new as its
fingerprint or newer (`Backed`), nothing on disk is newer than the installed lists
(`NotNewer`), a fingerprint of the installed
lists stands beside whole rules (`RulesWhole`; a torn engine image is noticed when it is read), each of these unless
the artifact's own last write failed (`refused`), and nothing is in use before its files are written (`NotYetSet`). Only without
downgrades does "as new or newer" make an equal fingerprint mean an equal file, hence the
premise; section 5 has the behaviour without it. The second follows
the newest event (`NewestIsSaved`): it says what is saved, in the dispatcher, in the hands of the one flusher whose
batch is not `outdated`, and, posted, at the end of the main queue, until the shell has it; only a batch that is
`outdated` when it is posted can come behind it. The third is about
the walk from a host to its parents, a recursive function: by `SetInduction`, which states
the induction over the naturals for a set, the recursion has a solution and its value is the
exception of the longest suffix the table has (`WalkAnswers`), for every table; which one is there does not matter.

`TabLifeProofs` proves for any finite set of tabs, any bounds and any number of
tabs kept alive, from `Subsets`, `Bounds` and `TabIsFinite`:

- `AudioHolds`: `Spec => []AudioAgrees`
- `SuspensionSpares`: `Spec => SuspendSparesTabsInUse`
- `ViewsFollow`: `Spec => []ViewsFollowTabs`
- `MuteReaches`: `Spec => []MuteReachesPage`

`AudioAgrees` carries itself. The other follows the sound from the page to
the candidate: the last message on its way says what the page does now
(`PostsEndInPresent`), so a page that plays and has nothing left to say
has been heard by the tracker (`PlayersHeard`), so its tab is audible or muted, and
`Candidates` spares the audible. A load that replaces a document, a teardown
and a late post of a torn-down view (`OneVoice`: while its last words are out, the
tab has no other view) must each keep that chain.

The last two follow the tabs to the shell. Every change of a tab posts a batch or a
snapshot; so while no batch is queued the shell's copy, and the newest snapshot on its way, are of
the table as it is (`NewestIsCurrent`), and once nothing is on its way each view is as its tab is (`ViewsAreCurrent`).

`DownloadsProofs` proves for any downloads, workers, names, sizes and versions, from
`SizeIsPos`, `NamesIsPos` and `ValidatorsTellVersions`, each theorem under the premises named:

| Theorem | Premises | States |
|---|---|---|
| `InvHolds` | `OneCaller` | `Spec => []Inv` |
| `WorkersAreApart` | and `NoSharedNames` | `Spec => []OneWorkerPerFile` |
| `NamesHold` | `OneCaller`, neither crash nor fault of the disk (`FilesAreSafe`) | `Spec => [](Inv /\ FileInv /\ NameInv)` |
| `OwnersAreApart` | `OneCaller`, `NoSharedNames` | `Spec => []NamesAreDistinct` |
| `ActiveRuns` | the same | `Spec => []ActiveMeansRunning` |
| `CompletedWhole` | and `VersionsAreTold` | `Spec => []CompletedIsWhole` |
| `LifecycleHolds` | the same | `Spec => LifecycleSpec` |
| `ProgressTells` | `OneCaller`, `NothingIsLost` | `Spec => []ProgressIsOnDisk` |

The premises say where the code keeps its promise; section 5 has what happens without
each. `OneCaller`: the user's calls come from one thread, after the launch pass. That is the
shell's usual course, not something it enforces: it does not wait for the pass, and two resumes that
both pass the registry's check make two workers of one download. What `WorkersAreApart`
adds under it is a resume that comes right after a pause the worker has not seen, and the files of
different downloads. `NoSharedNames`: there is neither a crash nor a fault of the disk, or one download only; a crash
between the removal of a `.part` and its row frees a name that is still taken, and so does a
reservation that the disk refuses.
`VersionsAreTold`: no rename fails, and there is one version, or no crash and a server that always
or never sends validators. `NothingIsLost`: no fault of the disk, no crash, a validator for each version.
None of them asks that lengths are announced. The runs satisfy the premises of what they check.

The invariant comes in layers, each inductive given `Inv` and `FileInv`.

- `Inv` has no premise about files. Each thread and each download has its place: a call
  that waits has one barrier in the channel, a registered worker one download, an
  active row a transfer or a caller about to start one. And each write queued is one
  that the table, as it will be by then, allows (`LegalWrites`): that is why
  everything is said of all tables from `rows` to `Settled`, not of `rows` alone. What `Written` is, a
  function defined by recursion, needs an induction that the library states for predicates;
  `SetInduction` states it for sets, from the well-foundedness of the naturals.
- `FileInv`: a name has one holder, from its reservation until the download is completed or cancelled, which begins
  with the rename or the removal of the `.part` (`Holds`), and every count that a
  call or a worker carries is the length of the `.part` at that moment (`CountsAreOnDisk`).
- `NameInv` (`NamesHold`): a finished download's file is in place, so who asks for it finds it; a search that
  went past it, and a download that came to its name, is in `slipped`, because the file came after the question
  (`SearchesSlip`, `NamesSlip`).
- `ContentInv`: each `.part` is a beginning of one version; the validator in the row, if any, names
  that version, unless a worker is just about to truncate the file; that worker knows its version (`JobContent`).
- `ProgressInv`: the last count a worker queues is that length.

For each action a lemma says what it does to `Settled` first; most actions leave rows,
files or workers of other downloads alone, and these are treated once (`QuietFiles`,
`QuietNames`, `QuietContent`, `QuietProgress`). A restart throws the channel away: the table is then one of those on the way, which
is the reason to keep all of them in the invariant. For the refinement, only the writer changes
the listed state, by a legal write, and only `Rename` what is delivered; all else stutters (`ListCases`).

`EngineProofs` proves for any pages and any number of calls, from `NoUrlIsNone`, `NoLoadIsNone`,
`NoViewIsNone` and `MaxCallsIsNat`:

- `HistoryHolds`: `Spec => []HistoryIsLinear`
- `ContractHolds`: `Spec => []EventContract`
- `ViewHolds`: `Spec => []ViewIsAsAsked`

`HistoryIsLinear` is silent while a history move is under way, so it cannot carry itself: the move has
already put the page it leaves on a stack, and its own page comes only when the load ends. `HistoryInv` says that
in between there is no current page and the load is of the entry the cursor went to (`MoveIsKnown`);
`StepBack`, `StepForward` and `StepVisit` are what the moves do to the parts of a list.
For the channel, `EmbInv` has a course of views (`IsCourse`): it begins at the view the thread has,
each command queued takes it one step further, and it ends at the view the calls ask for. A call
adds a step at one end, the thread takes one away at the other, and an empty channel makes the two views one. The
course also bounds the artifacts by the calls, which the types need. The contract needs that the last report of
a load in a queue is about the pending load and says its stage (`SimReports`, `EmbReports`).
No proof uses `Idle`: they hold for every order of the backends' own steps.

Checked by TLC only: of `EngineParity` `DropReturns`; of `Downloads` `CallsReturn` and
`TransfersSettle`; of `StorageWriter` `NoCallHangs` and `DropReturns`; of `ContentBlocking`
`RulesArrive`. All of these are liveness, which is beyond the prover; every other
property of a passing run is proved.

## 5. Where code and comments disagree

`shields_toggle` ends with a counterexample: a page is opened, the rules are
compiled, the switch is turned off meanwhile, and the compiler's answer adds the
rules to the view. The other way round, switching on announces the change before the shell's
copy of the settings says "on" (CoreBridge.swift:611-615), the view asks that
copy (WebKitBackend.swift:92), and no rules come until the view is made anew. The comment of the handler is
"Global Shields toggle (T060): add/remove declarative rules live."

The models have these too. No run is listed for them; most appear
when a constant of a module gets another value.

Downloads:

- A worker that ends before it is registered (`SpawnWorker` before `Register`)
  leaves its entry behind, and the download answers "already running" until the
  next start, although downloads.rs:85 says "In-process registry of live download workers".
- `LaunchThread <- BackgroundThread`, `LaunchFirst = FALSE`: the launch pass and
  the user both pass the check of downloads.rs:179-183 and start two workers on one
  file (`OneWorkerPerFile` fails).
- `collision_safe_path` asks for the file and for the `.part` in two calls (download.rs:256). A rename of
  a worker between them makes a taken name look free, and the second download
  overwrites the finished file of the first, although the doc says "First non-colliding path" and
  blaze-core/downloads.rs:138 "Reserve the final name so concurrent starts cannot collide". It is the exception in
  `NamesAreDistinct` (`slipped`).
- A body of unknown length that ends early without an error of the connection is `Completed` (download.rs:155-163), although
  download.rs:47 has `Interrupted` for "Network failure or early EOF". So `CompletedIsWhole`
  asks for all of the file only where its length was announced.
- Two versions and restarts: on_meta queues the new validator (download.rs:107)
  before the old bytes are truncated; a crash in between, and the next resume
  completes a file of two versions (`CompletedIsWhole` fails).
- A `.part` that already holds every byte asks for an empty range and is
  interrupted, again and again (download.rs:83), without the "network failure or early
  EOF" of download.rs:47.
- `DownloadsPair` with `Faults <- NetworkAndCrash`: a cancel removes the `.part`, and a crash before
  "cancelled" is written leaves a row that is resumed without a file. Its name is
  free for a new download, and two workers write one file (`OneWorkerPerFile` and
  `NamesAreDistinct` fail).
- `LaunchFirst = FALSE`: a launch pass that begins after a download was started
  marks it interrupted, and its worker goes on (`LifecycleSpec` fails).
- Two threads in `UserThread`: the result of `create_new` is ignored
  (blaze-core/downloads.rs:139), so starts of one name at once share a file
  (`OneWorkerPerFile` fails). The shell calls from its main thread only.
- Two versions of which only one has a validator: the row keeps the old validator (schema column
  updated with COALESCE) while the file is of the version without; if the server goes back to the first,
  a resume completes a file of two versions. `VersionsAreTold` excludes it.
- `Validator <- NoValidator`: a resume without a validator truncates the `.part`
  and keeps the old progress until the first chunk (`ProgressIsOnDisk` fails).
- A cancel of a registered job only stores a flag. A worker that has passed its last look
  at it ends the download otherwise, in spite of blaze-core/downloads.rs:205.

Session:

- A change within a second of the last write stays unwritten until the next
  change or the shutdown: no timer is behind the debounce. A kill much later loses
  it, although session.rs:38-39 says "kill -9 loses <=1s".
- `close_window` persists the closed tabs newest first, the opposite of the ring
  (`CloseWindow` of `Session`).
- A reopen when neither the window asked for nor the tab's own is there consumes the
  entry (`ReopenClosedTab` without a `Target`), although the FFI says
  "None when the ring is empty".

Bookmarks:

- `move_node` makes room before it takes the row out, so a move behind its own place
  ends one short: the first of two siblings moved to index 1 stays where it is. Gaps
  that deletes leave shift the result in the same way.
- Deletes leave gaps, although bookmarks.rs:3 calls positions dense.

Content blocking:

- `CacheFaults` with `"downgrade"`: the image is written before its fingerprint,
  so a crash between them leaves a new image under the old fingerprint; going back
  to the old lists then takes the wrong engine (`CacheMatchesLists` fails).
- An exception is queued to the writer while the popover says "Changes apply on
  next page load" (ShieldPopover.swift:37): a load before the write misses it.
- The results of the writes are ignored (blaze-ffi/src/lib.rs:434-435, 467-468): when the write of an
  image fails at its open and that of its fingerprint does not, the new fingerprint vouches for the old image, and
  every later start uses it. It is the exception in `CacheMatchesLists` (`refused`).
- A thread that flushes the dispatcher while the main thread is between emit and flush takes the
  event and may post it after a newer one (events.rs:90-96). The shell then applies the older settings
  (CoreBridge.swift:662-664) and shows them until the next change, although CoreBridge.swift:590 says "the resulting `SettingsChanged`
  event refreshes the mirror in every window". It is the exception in `ShellShowsSaved` (`overtaken`).
- A save that fails leaves the settings in memory changed (`setting` and `saved`
  differ), although the caller is told of an error.

Tabs and views:

- A snapshot published before a tab was activated has the view torn down that a window update made
  for the tab since (WindowManager.swift:188), and nothing makes it again before the window's next
  update. No property is stated of when the active tab is shown.
- A restored empty tab that is active stays suspended: each published snapshot
  takes its view away, and an address typed into it may be lost.
- The page reports each media element by itself: a pause of one reports silence
  while another plays, and the audible tab may be suspended, in spite of
  tabs.rs:346. The model has one player per page.
- The tracker's `playing` survives a suspension, so unmuting a suspended tab
  shows it audible.

Engines:

- In the scaffold, a resume pushes the page once more on the back stack, and a history
  move that is stopped, superseded or suspended loses its entry: hence the
  premise of `HistoryIsLinear`.
- The embedded `stop` does nothing, `go_back` does not clear `suspended`, and a mute sent while there is no
  view is not applied to the next one.

## 6. Not modelled

- Update of the filter lists (`blaze-net/filter_update.rs`): no other crate calls it.
- Resolution of typed text (`blaze-net/url.rs`), filter matching, rule conversion, cosmetic
  resources and shield counters: string work and lookups without a protocol.
- The schema's migrations and the paths: straight code, once, at the start.
- Titles, favicons, history rows, popup windows, the DRM notice, the blank page and
  crashed pages of the shell. `clear_site_exception`, which nothing calls.
- Engines: titles, the pixels of a frame, resizing, and what blocking filters out.
- The watchdog's timer (its restart is the crash of `Session`), crash logs,
  drawing, menus and dialogs: input and output without state of their own.

## 7. Running

    tlc -config MCSession.cfg MCSession
    tlc -config DownloadsRestart.cfg MCDownloads
    tlc -config TabLife.cfg MCTabLife
    tlc -config ContentBlocking.cfg MCContentBlocking
    tlapm TabManagerProofs.tla
    tlapm SessionProofs.tla
    tlapm BookmarksProofs.tla
    tlapm StorageWriterProofs.tla
    tlapm ContentBlockingProofs.tla
    tlapm TabLifeProofs.tla
    tlapm DownloadsProofs.tla
    tlapm EngineProofs.tla
