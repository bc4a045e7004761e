--------------------------- MODULE ContentBlocking ---------------------------
(***************************************************************************)
(* Content blocking in one process: the filter cache, the site exceptions, *)
(* the global switch (adblock_enabled) that goes from the core's settings  *)
(* by event to the shell's mirror, and the rule list of one web view       *)
(* (WebKitBackend.swift). Cache and exceptions are the modules of these    *)
(* names, over the same variables. Settings and views are the main         *)
(* thread's; the queue of the Dispatcher is emptied by other threads too.  *)
(***************************************************************************)
EXTENDS FilterCache, SiteExceptions

CONSTANTS
  Flusher,       \* threads that flush beside the main thread: init_adblock, downloads
  MaxEvents      \* bound: events taken or posted

VARIABLES
  setting,       \* adblock_enabled in the settings the core holds
  saved,         \* in settings.json
  pending,       \* Dispatcher.queue: SettingsChanged emitted and not yet taken
  taken,         \* Flusher |-> the batch it has taken and not yet posted
  events,        \* SettingsChanged posted to the main queue
  mirror,        \* the shell's copy
  compiled,      \* WebKitBackend.compiledRules, one for all views
  view,          \* the web view
  outdated,      \* history: flushers whose batch is not the newest any more
  overtaken      \* history: the batch posted last was such a one

eventVars == <<pending, taken, outdated, overtaken>>
shellVars == <<setting, saved, eventVars, events, mirror, compiled, view>>
vars == <<cacheVars, siteVars, shellVars>>

NoView == [open |-> FALSE, rules |-> FALSE, retry |-> FALSE, compiling |-> FALSE]

Init ==
  /\ CacheInit /\ SiteInit
  /\ setting = TRUE /\ saved = TRUE
  /\ events = <<>> /\ mirror = TRUE
  /\ compiled = FALSE /\ view = NoView
  /\ pending = <<>> /\ taken = [f \in Flusher |-> <<>>]
  /\ outdated = {} /\ overtaken = FALSE

\* The main thread is in no call: between the two halves of update_settings it
\* runs nothing else.
MainIsFree == pending = <<>>
OnItsWay == pending # <<>> \/ events # <<>> \/ \E f \in Flusher : taken[f] # <<>>

\* installContentRules: what becomes of view v when the mirror is on or off
InstallContentRules(v, on) ==
  IF ~on THEN v
  ELSE IF compiled THEN [v EXCEPT !.rules = TRUE]
  ELSE IF rules = Missing THEN [v EXCEPT !.retry = TRUE]
  ELSE [v EXCEPT !.compiling = TRUE]

\* The shell starts the core, init_adblock on its queue, and copies the settings.
Launch ==
  /\ CacheLaunch
  /\ setting' = saved /\ mirror' = saved
  /\ UNCHANGED <<siteVars, saved, eventVars, events, compiled, view>>

InitAdblock ==
  /\ InitStep \/ RefuseFile \/ InitFails
  /\ UNCHANGED <<siteVars, shellVars>>

Crash ==
  /\ Running
  /\ CacheEnds /\ SitesEnd
  /\ setting' = saved /\ mirror' = saved
  /\ pending' = <<>> /\ taken' = [f \in Flusher |-> <<>>] /\ events' = <<>>
  /\ outdated' = {} /\ overtaken' = FALSE
  /\ compiled' = FALSE /\ view' = NoView
  /\ UNCHANGED saved

Update ==
  /\ InstallLists
  /\ UNCHANGED <<siteVars, shellVars>>

\* The switch is in the popover of a page, and shows what the table says.
Toggle ==
  /\ MainIsFree /\ view.open
  /\ \E h \in Toggled : SetSiteException(h, ~BlockingEnabledFor(exceptions, h))
  /\ UNCHANGED <<cacheVars, shellVars>>

WriteToggle ==
  /\ ApplyToggle
  /\ UNCHANGED <<cacheVars, shellVars>>

\* update_settings, the main thread's: nothing else is being emitted.
Room ==
  /\ Running /\ MainIsFree
  /\ Len(events) + Cardinality({f \in Flusher : taken[f] # <<>>}) < MaxEvents

\* Emitted, it makes the batches taken so far old ones.
Emit(on) ==
  /\ pending' = Append(pending, on)
  /\ outdated' = {f \in Flusher : taken[f] # <<>>}

\* Mutant: the event is emitted also when the save failed.
UpdateSettingsAlwaysEmits ==
  /\ Room
  /\ \E on \in BOOLEAN :
       /\ setting' = on
       /\ Emit(on)
       /\ saved' = on \/ ("disk" \in CacheFaults /\ UNCHANGED saved)
  /\ UNCHANGED <<cacheVars, siteVars, taken, overtaken, events, mirror, compiled, view>>

\* update_settings up to its flush: the memory first, then the file (written
\* beside and renamed, so whole in any case), then the event; a save that fails
\* returns an error before the event.
UpdateSettings ==
  /\ Room
  /\ \E on \in BOOLEAN :
       /\ setting' = on
       /\ \/ saved' = on /\ Emit(on)
          \/ "disk" \in CacheFaults /\ UNCHANGED <<saved, pending, outdated>>
  /\ UNCHANGED <<cacheVars, siteVars, taken, overtaken, events, mirror, compiled, view>>

\* The flush at its end: what nobody has taken is posted. The main thread takes
\* and posts; what it has taken is the newest, whatever is posted in between.
FlushSettings ==
  /\ pending # <<>>
  /\ events' = events \o pending
  /\ pending' = <<>>
  /\ overtaken' = FALSE
  /\ UNCHANGED <<cacheVars, siteVars, setting, saved, taken, outdated, mirror, compiled, view>>

\* Another thread's flush takes the batch under the lock ...
TakeBatch(f) ==
  /\ pending # <<>> /\ taken[f] = <<>>
  /\ taken' = [taken EXCEPT ![f] = pending]
  /\ pending' = <<>>
  /\ outdated' = outdated \ {f}
  /\ UNCHANGED <<cacheVars, siteVars, setting, saved, events, overtaken, mirror, compiled, view>>

\* ... and hands it on without the lock: newer ones may be posted already.
PostBatch(f) ==
  /\ taken[f] # <<>>
  /\ events' = events \o taken[f]
  /\ taken' = [taken EXCEPT ![f] = <<>>]
  /\ outdated' = outdated \ {f}
  /\ overtaken' = (f \in outdated)
  /\ UNCHANGED <<cacheVars, siteVars, setting, saved, pending, mirror, compiled, view>>

\* applySettings: the notification goes out before the mirror changes, so a
\* view that is told "on" still reads "off" there.
HandleSettingsChanged ==
  /\ MainIsFree /\ events # <<>>
  /\ events' = Tail(events)
  /\ mirror' = Head(events)
  /\ view' = IF ~view.open \/ mirror' = mirror THEN view
             ELSE IF mirror' THEN InstallContentRules(view, mirror)
             ELSE [view EXCEPT !.rules = FALSE]
  /\ UNCHANGED <<cacheVars, siteVars, setting, saved, eventVars, compiled>>

OpenView ==
  /\ MainIsFree /\ Running /\ ~view.open
  /\ view' = InstallContentRules([NoView EXCEPT !.open = TRUE], mirror)
  /\ UNCHANGED <<cacheVars, siteVars, setting, saved, eventVars, events, mirror, compiled>>

CloseView ==
  /\ MainIsFree /\ view.open
  /\ view' = NoView
  /\ UNCHANGED <<cacheVars, siteVars, setting, saved, eventVars, events, mirror, compiled>>

\* Mutant: a retry that comes too early is the last.
RetryOnce ==
  /\ MainIsFree /\ view.retry
  /\ view' = IF rules = Missing THEN [view EXCEPT !.retry = FALSE]
             ELSE InstallContentRules([view EXCEPT !.retry = FALSE], mirror)
  /\ UNCHANGED <<cacheVars, siteVars, setting, saved, eventVars, events, mirror, compiled>>

\* Half a second later, again and again until the rules are there.
Retry ==
  /\ MainIsFree /\ view.retry
  /\ view' = InstallContentRules([view EXCEPT !.retry = FALSE], mirror)
  /\ UNCHANGED <<cacheVars, siteVars, setting, saved, eventVars, events, mirror, compiled>>

\* WKContentRuleListStore answers; it refuses a piece of a rule list. The
\* answer does not ask for the mirror.
RulesCompiled ==
  /\ MainIsFree /\ view.compiling
  /\ compiled' = (compiled \/ rules # Torn)
  /\ view' = [view EXCEPT !.compiling = FALSE, !.rules = @ \/ rules # Torn]
  /\ UNCHANGED <<cacheVars, siteVars, setting, saved, eventVars, events, mirror>>

Next ==
  \/ Launch \/ InitAdblock \/ Crash \/ Update
  \/ Toggle \/ WriteToggle
  \/ UpdateSettings \/ FlushSettings \/ HandleSettingsChanged
  \/ \E f \in Flusher : TakeBatch(f) \/ PostBatch(f)
  \/ OpenView \/ CloseView \/ Retry \/ RulesCompiled

Spec == Init /\ [][Next]_vars

\* Threads that wait for nothing else run: the queue init_adblock is on and the
\* main thread, whose calls end and which serves, between two calls and however many
\* there are, its queue, a timer that is due and an answer of WebKit.
FairSpec ==
  /\ Spec
  /\ WF_vars(InitAdblock) /\ WF_vars(FlushSettings)
  /\ SF_vars(HandleSettingsChanged) /\ SF_vars(Retry) /\ SF_vars(RulesCompiled)
-----------------------------------------------------------------------------
TypeOK ==
  /\ CacheTypeOK /\ SiteTypeOK
  /\ setting \in BOOLEAN /\ saved \in BOOLEAN
  /\ pending \in Seq(BOOLEAN) /\ taken \in [Flusher -> Seq(BOOLEAN)]
  /\ events \in Seq(BOOLEAN) /\ mirror \in BOOLEAN /\ compiled \in BOOLEAN
  /\ view \in [open : BOOLEAN, rules : BOOLEAN, retry : BOOLEAN, compiling : BOOLEAN]
  /\ outdated \subseteq Flusher /\ overtaken \in BOOLEAN

\* The types, and: when no event is on its way the shell shows what the next start
\* will load, whoever flushed it. The one exception is that the batch posted last was
\* taken before the newest change: it overwrites what the shell has heard since.
\* (The core's own copy may differ: a save that fails leaves it changed.)
ShellShowsSaved ==
  /\ TypeOK
  /\ ~OnItsWay => mirror = saved \/ overtaken

\* A view that waits for the rules gets them, however long init_adblock takes
\* and whatever it finds in the cache: unless it fails, the rules are a torn
\* piece, blocking is switched off, or view or process end.
RulesArrive ==
  (view.retry \/ view.compiling) ~>
    (view.rules \/ ~mirror \/ ~view.open \/ ~Running \/ step = "failed" \/ rules = Torn)

\* "Global Shields toggle (T060): add/remove declarative rules live."
RulesFollowSwitch ==
  (/\ view.open /\ ~view.retry /\ ~view.compiling
   /\ ~OnItsWay /\ step = "done" /\ rules # Torn)
  => (view.rules <=> mirror)
=============================================================================
