------------------------------ MODULE Downloads ------------------------------
(***************************************************************************)
(* Downloads across their threads: the calls of the API (start, pause,     *)
(* resume, cancel, the launch pass), one worker thread per running         *)
(* transfer, the storage writer's queue in front of the database, the      *)
(* files of the download directory, the server, and the death of the       *)
(* process (src/crates/blaze-core/src/downloads.rs, blaze-net download.rs, *)
(* blaze-storage downloads.rs).                                            *)
(*                                                                         *)
(* A call is split where the code lets other threads in: between its lock  *)
(* scopes, at a flush, around the spawn of a thread.  A call that returns  *)
(* an error and changes nothing is the absence of a step, or a return to   *)
(* the idle thread when it has already waited.  All downloads fetch the    *)
(* same resource, which is Size chunks long and changes on the server.     *)
(***************************************************************************)
EXTENDS Naturals, Sequences, FiniteSets, SequencesExt, Maps

CONSTANTS
  DownloadId,     \* ids that can be drawn
  UserThread,     \* threads that start, pause, resume and cancel
  LaunchThread,   \* threads that run the launch pass, once per process
  LaunchFirst,    \* whether users wait for the launch pass to be over
  Worker,         \* worker threads that can exist at a time
  Names,          \* bound: file names collision_safe_path tries (of 2^32)
  Size,           \* chunks of the resource
  Version,        \* what the server can hold
  Validator,      \* version |-> its etag (or last-modified), or None
  Announced,      \* versions whose answers say how long they are
  None,
  Faults          \* what may go wrong: "network", "disk", "crash"

ASSUME SizeIsPos == Size \in Nat \ {0}
ASSUME NamesIsPos == Names \in Nat \ {0}
ASSUME ValidatorsTellVersions ==
  \A u, v \in Version : Validator[u] = Validator[v] => u = v \/ Validator[u] = None

VARIABLES
  rows,        \* the downloads table: id |-> row
  queue,       \* the writer's channel, oldest operation first
  jobs,        \* the registry: id |-> worker
  workers,     \* live worker threads
  callers,     \* the API threads: what each is in the middle of
  parts,       \* file name |-> content of its .part
  dests,       \* file name |-> content of the finished file
  slipped,     \* history: ids in whose search a file got the name asked for last
  server,      \* the version the server holds
  launched     \* the launch pass of this process has begun

files == <<parts, dests, slipped>>
vars == <<rows, queue, jobs, workers, callers, files, server, launched>>

Thread == UserThread \cup LaunchThread
FileName == 1 .. Names
State == {"active", "paused", "completed", "interrupted", "cancelled"}

\* A file is the chunks it holds, each the piece of a version: all of them in order,
\* or as many as came of a version whose answers do not say how many there are.
Lengths(v) == IF v \in Announced THEN {Size} ELSE 0 .. Size
Whole(content) ==
  \E v \in Version : \E n \in Lengths(v) : content = [i \in 1 .. n |-> <<v, i>>]

(***************************************************************************)
(* The table and the writer                                                *)
(***************************************************************************)

\* can_transition
CanTransition(old, new) ==
  \/ old = "active" /\ new \in {"paused", "completed", "interrupted", "cancelled"}
  \/ old \in {"paused", "interrupted"} /\ new \in {"active", "cancelled"}

Upsert(id, name) == [op |-> "upsert", id |-> id, name |-> name]
Progress(id, received, etag) ==
  [op |-> "progress", id |-> id, received |-> received, etag |-> etag]
SetState(id, state) == [op |-> "state", id |-> id, state |-> state]
MarkStale == [op |-> "mark"]
Flush(c) == [op |-> "flush", by |-> c]

\* update_progress: COALESCE keeps the validator when there is no new one.
UpdateProgress(table, op) ==
  [table EXCEPT ![op.id].received = op.received,
                ![op.id].etag = IF op.etag = None THEN @ ELSE op.etag]

\* Mutant: whatever is not over is marked, the paused downloads too.
MarkUnfinished(table) ==
  [id \in DOMAIN table |->
     IF table[id].state \notin {"completed", "cancelled"}
     THEN [table[id] EXCEPT !.state = "interrupted"] ELSE table[id]]

\* mark_stale_active_as_interrupted
MarkStaleActive(table) ==
  [id \in DOMAIN table |->
     IF table[id].state = "active" THEN [table[id] EXCEPT !.state = "interrupted"]
     ELSE table[id]]

\* The table after one operation; updates of an absent row change nothing.
Applied(table, op) ==
  CASE op.op = "upsert" ->
         Put(table, op.id,
             [name |-> op.name, received |-> 0, state |-> "active", etag |-> None])
    [] op.op = "progress" ->
         IF op.id \in DOMAIN table THEN UpdateProgress(table, op) ELSE table
    [] op.op = "state" ->
         IF op.id \in DOMAIN table THEN [table EXCEPT ![op.id].state = op.state] ELSE table
    [] op.op = "mark" -> MarkStaleActive(table)
    [] op.op = "flush" -> table

\* The tables on the way: Written(table, ops)[n] has the first n operations.
Written(table, ops) ==
  LET after[n \in 0 .. Len(ops)] ==
        IF n = 0 THEN table ELSE Applied(after[n - 1], ops[n])
  IN after

\* The table once everything queued is written
Settled == Written(rows, queue)[Len(queue)]

Submit(ops) == queue' = queue \o ops

(***************************************************************************)
(* API threads                                                             *)
(***************************************************************************)

\* A thread outside any call; `todo` are the downloads its launch pass has still
\* to resume.
Idle(todo) == [pc |-> "idle", todo |-> todo]
Returned(c) == [callers EXCEPT ![c] = Idle(@.todo)]

\* A thread that waits for the writer, to go on at `then`
Waiting(c, then, id) ==
  [callers EXCEPT ![c] = [pc |-> "flush", then |-> then, id |-> id, todo |-> @.todo]]

LaunchOver == launched /\ \A c \in LaunchThread : callers[c] = Idle({})

MayCall(c) ==
  /\ c \in UserThread
  /\ callers[c] = Idle({})
  /\ LaunchFirst => LaunchOver

\* Ids are random: a fresh one is mentioned nowhere.
FreshId ==
  {id \in DownloadId \ (DOMAIN Settled \cup DOMAIN jobs) :
     /\ \A c \in Thread : callers[c].pc # "idle" => callers[c].id # id
     /\ \A w \in DOMAIN workers : workers[w].id # id}

\* A thread that looks for a name: at the file, at the .part, at the reservation
Searching(c, at, id, name) ==
  [callers EXCEPT ![c] = [pc |-> at, id |-> id, name |-> name, todo |-> @.todo]]

\* start_download up to the search (its id is drawn here and not after it)
StartDownload(c, id) ==
  /\ MayCall(c)
  /\ id \in FreshId
  /\ callers' = Searching(c, "name", id, 1)
  /\ UNCHANGED <<rows, queue, jobs, workers, files, server, launched>>

\* The name is taken; after the last one, a bound of the model, the call ends.
NextName(c) ==
  IF callers[c].name = Names THEN Returned(c)
  ELSE Searching(c, "name", callers[c].id, callers[c].name + 1)

\* Mutants: finished files, unfinished files are not asked for.
ProbeFileBlindly(c) ==
  /\ callers[c].pc = "name"
  /\ callers' = Searching(c, "part", callers[c].id, callers[c].name)
  /\ UNCHANGED <<rows, queue, jobs, workers, files, server, launched>>

ProbePartBlindly(c) ==
  /\ callers[c].pc = "part"
  /\ callers' = Searching(c, "reserve", callers[c].id, callers[c].name)
  /\ UNCHANGED <<rows, queue, jobs, workers, files, server, launched>>

\* collision_safe_path asks the file system twice for each name: is there a file ...
ProbeFile(c) ==
  /\ callers[c].pc = "name"
  /\ callers' = IF callers[c].name \in DOMAIN dests THEN NextName(c)
                ELSE Searching(c, "part", callers[c].id, callers[c].name)
  /\ UNCHANGED <<rows, queue, jobs, workers, files, server, launched>>

\* ... and is there a .part? A worker may rename the one to the other in between.
ProbePart(c) ==
  /\ callers[c].pc = "part"
  /\ callers' = IF callers[c].name \in DOMAIN parts THEN NextName(c)
                ELSE Searching(c, "reserve", callers[c].id, callers[c].name)
  /\ UNCHANGED <<rows, queue, jobs, workers, files, server, launched>>

\* A thread about to spawn the worker of a row
Spawning(c, id, name, from, etag) ==
  [callers EXCEPT ![c] = [pc |-> "spawn", id |-> id, name |-> name, from |-> from,
                          etag |-> etag, todo |-> @.todo]]

\* create_new of the .part, whose failure is ignored, then the row
Reserve(c) ==
  LET call == callers[c]
  IN /\ call.pc = "reserve"
     /\ \/ parts' = IF call.name \in DOMAIN parts THEN parts ELSE Put(parts, call.name, <<>>)
        \/ "disk" \in Faults /\ UNCHANGED parts
     /\ Submit(<<Upsert(call.id, call.name)>>)
     /\ callers' = Spawning(c, call.id, call.name, 0, None)
     /\ UNCHANGED <<rows, jobs, workers, dests, slipped, server, launched>>

FreshWorker ==
  {w \in Worker \ DOMAIN workers :
     /\ \A id \in DOMAIN jobs : jobs[id] # w
     /\ \A c \in Thread : callers[c].pc = "register" => callers[c].worker # w}

\* spawn_worker starts the thread ...
SpawnWorker(c, w) ==
  LET call == callers[c]
  IN /\ call.pc = "spawn"
     /\ w \in FreshWorker
     /\ workers' = Put(workers, w,
          [pc |-> "send", id |-> call.id, name |-> call.name, from |-> call.from,
           etag |-> call.etag, control |-> "run", version |-> None, got |-> 0,
           received |-> call.from, outcome |-> None])
     /\ callers' = [callers EXCEPT ![c] =
          [pc |-> "register", id |-> call.id, worker |-> w, todo |-> call.todo]]
     /\ UNCHANGED <<rows, queue, jobs, files, server, launched>>

\* ... and then enters it into the registry.
Register(c) ==
  /\ callers[c].pc = "register"
  /\ jobs' = Put(jobs, callers[c].id, callers[c].worker)
  /\ callers' = Returned(c)
  /\ UNCHANGED <<rows, queue, workers, files, server, launched>>

\* A store into the control flag of a registered job
Control(id, value) ==
  /\ workers' = [w \in DOMAIN workers |->
       IF w = jobs[id] THEN [workers[w] EXCEPT !.control = value] ELSE workers[w]]
  /\ UNCHANGED <<rows, queue, jobs, callers, files, server, launched>>

\* Mutant: the pause is recorded at once, before the worker has seen it.
PauseEagerly(c, id) ==
  /\ MayCall(c)
  /\ id \in DOMAIN jobs
  /\ workers' = [w \in DOMAIN workers |->
       IF w = jobs[id] THEN [workers[w] EXCEPT !.control = "pause"] ELSE workers[w]]
  /\ jobs' = Drop(jobs, {id})
  /\ Submit(<<SetState(id, "paused")>>)
  /\ UNCHANGED <<rows, callers, files, server, launched>>

PauseDownload(c, id) ==
  /\ MayCall(c)
  /\ id \in DOMAIN jobs
  /\ Control(id, "pause")

\* resume_download up to its flush, called by a user or by the launch pass
ResumeDownload(c, id) ==
  /\ \/ MayCall(c) /\ id \in DOMAIN Settled
     \/ callers[c].pc = "idle" /\ id \in callers[c].todo
  /\ id \notin DOMAIN jobs
  /\ Submit(<<Flush(c)>>)
  /\ callers' = [Waiting(c, "resume", id) EXCEPT ![c].todo = @ \ {id}]
  /\ UNCHANGED <<rows, jobs, workers, files, server, launched>>

\* The launch pass drops a download that is running already.
SkipResume(c, id) ==
  /\ callers[c].pc = "idle"
  /\ id \in callers[c].todo
  /\ id \in DOMAIN jobs
  /\ callers' = [callers EXCEPT ![c].todo = @ \ {id}]
  /\ UNCHANGED <<rows, queue, jobs, workers, files, server, launched>>

\* resume_download with the row it read: what is on disk decides where to go on.
ResumeRow(c) ==
  LET id   == callers[c].id
      row  == rows[id]
      from == IF row.name \in DOMAIN parts THEN Len(parts[row.name]) ELSE 0
  IN /\ callers[c].pc = "resume"
     /\ \/ /\ CanTransition(row.state, "active")
           /\ Submit(<<SetState(id, "active")>>)
           /\ callers' = Spawning(c, id, row.name, from, row.etag)
        \/ /\ ~CanTransition(row.state, "active")
           /\ callers' = Returned(c)
           /\ UNCHANGED queue
     /\ UNCHANGED <<rows, jobs, workers, files, server, launched>>

\* cancel_download: a running job is told, any other is cancelled here.
CancelDownload(c, id) ==
  /\ MayCall(c)
  /\ \/ /\ id \in DOMAIN jobs
        /\ Control(id, "cancel")
     \/ /\ id \in DOMAIN Settled \ DOMAIN jobs
        /\ Submit(<<Flush(c)>>)
        /\ callers' = Waiting(c, "cancel", id)
        /\ UNCHANGED <<rows, jobs, workers, files, server, launched>>

CancelRow(c) ==
  LET id  == callers[c].id
      row == rows[id]
  IN /\ callers[c].pc = "cancel"
     /\ \/ /\ CanTransition(row.state, "cancelled")
           /\ parts' = Drop(parts, {row.name})
           /\ Submit(<<SetState(id, "cancelled")>>)
        \/ /\ ~CanTransition(row.state, "cancelled")
           /\ UNCHANGED <<parts, queue>>
     /\ callers' = Returned(c)
     /\ UNCHANGED <<rows, jobs, workers, dests, slipped, server, launched>>

\* resume_interrupted_downloads: mark and wait (its first flush only delays the
\* mark, which the queue keeps behind everything older anyway) ...
ResumeInterrupted(c) ==
  /\ c \in LaunchThread
  /\ callers[c] = Idle({})
  /\ ~launched
  /\ launched' = TRUE
  /\ Submit(<<MarkStale, Flush(c)>>)
  /\ callers' = [callers EXCEPT ![c] =
       [pc |-> "flush", then |-> "list", id |-> None, todo |-> {}]]
  /\ UNCHANGED <<rows, jobs, workers, files, server>>

\* ... then list what can go on.
ListInterrupted(c) ==
  /\ callers[c].pc = "list"
  /\ callers' = [callers EXCEPT ![c] =
       Idle({id \in DOMAIN rows : rows[id].state = "interrupted" /\ rows[id].etag # None})]
  /\ UNCHANGED <<rows, queue, jobs, workers, files, server, launched>>

(***************************************************************************)
(* The writer thread                                                       *)
(***************************************************************************)

\* Mutant: a flush with work behind it is not acknowledged.
AcknowledgedWhenLast(op) ==
  IF op.op # "flush" \/ Len(queue) > 1 THEN callers
  ELSE [callers EXCEPT ![op.by] = [pc |-> @.then, id |-> @.id, todo |-> @.todo]]

\* A flush is acknowledged when the writer gets to it.
Acknowledged(op) ==
  IF op.op # "flush" THEN callers
  ELSE [callers EXCEPT ![op.by] = [pc |-> @.then, id |-> @.id, todo |-> @.todo]]

WriterApply ==
  /\ queue # <<>>
  /\ rows' = Applied(rows, Head(queue))
  /\ callers' = Acknowledged(Head(queue))
  /\ queue' = Tail(queue)
  /\ UNCHANGED <<jobs, workers, files, server, launched>>

(***************************************************************************)
(* A worker thread: run_download inside download_worker                    *)
(***************************************************************************)

\* The transfer is over: a completed one still renames its file.
Ended(w, outcome) ==
  [workers EXCEPT ![w].outcome = outcome,
                  ![w].pc = IF outcome = "completed" THEN "rename" ELSE "settle"]

WantsResume(w) == workers[w].from > 0 /\ workers[w].etag # None
\* Mutant: a Range request without If-Range
RangeOnly(w) == WantsResume(w)

ServerAgrees(w) == WantsResume(w) /\ workers[w].etag = Validator[server]

\* Headers are in: on_meta persists the validator before the file is opened.
Headers(w, got, received) ==
  /\ workers' = [workers EXCEPT ![w].pc = "open", ![w].version = server,
                                ![w].got = got, ![w].received = received]
  /\ Submit(<<Progress(workers[w].id, received, Validator[server])>>)

\* The request fails, or is refused: bytes beyond the end (416).
RequestFails(w) ==
  /\ \/ "network" \in Faults
     \/ ServerAgrees(w) /\ workers[w].from >= Size
  /\ workers' = Ended(w, "interrupted")
  /\ UNCHANGED queue

\* 206, the rest of the version the validator names
Continues(w) ==
  /\ ServerAgrees(w)
  /\ workers[w].from < Size
  /\ Headers(w, workers[w].from, workers[w].received)

\* 200, all of the current version: the answer to a plain request, to a stale
\* validator, and of a server without ranges
Restarts(w) == Headers(w, 0, IF WantsResume(w) THEN 0 ELSE workers[w].received)

SendRequest(w) ==
  /\ workers[w].pc = "send"
  /\ RequestFails(w) \/ Continues(w) \/ Restarts(w)
  /\ UNCHANGED <<rows, jobs, callers, files, server, launched>>

\* Open to append what continues, which needs the file; else create or truncate.
OpenPart(w) ==
  LET name    == workers[w].name
      resumed == workers[w].got > 0
  IN /\ workers[w].pc = "open"
     /\ \/ /\ resumed => name \in DOMAIN parts
           /\ parts' = IF resumed THEN parts ELSE Put(parts, name, <<>>)
           /\ workers' = [workers EXCEPT ![w].pc = "check"]
        \/ /\ "disk" \in Faults \/ (resumed /\ name \notin DOMAIN parts)
           /\ workers' = Ended(w, "interrupted")
           /\ UNCHANGED parts
     /\ UNCHANGED <<rows, queue, jobs, callers, dests, slipped, server, launched>>

\* Mutant: a paused transfer keeps its connection and waits.
CheckControlWaiting(w) ==
  /\ workers[w].pc = "check"
  /\ \/ /\ workers[w].control = "run"
        /\ workers' = [workers EXCEPT ![w].pc = "read"]
        /\ UNCHANGED parts
     \/ /\ workers[w].control = "cancel"
        /\ parts' = Drop(parts, {workers[w].name})
        /\ workers' = Ended(w, "cancelled")
  /\ UNCHANGED <<rows, queue, jobs, callers, dests, slipped, server, launched>>

\* The top of the loop looks at the control flag.
CheckControl(w) ==
  /\ workers[w].pc = "check"
  /\ \/ /\ workers[w].control = "run"
        /\ workers' = [workers EXCEPT ![w].pc = "read"]
        /\ UNCHANGED parts
     \/ /\ workers[w].control = "pause"
        /\ workers' = Ended(w, "paused")
        /\ UNCHANGED parts
     \/ /\ workers[w].control = "cancel"
        /\ parts' = Drop(parts, {workers[w].name})
        /\ workers' = Ended(w, "cancelled")
  /\ UNCHANGED <<rows, queue, jobs, callers, dests, slipped, server, launched>>

\* The next chunk is written; every 250 ms the progress is persisted too.  What
\* goes to a file removed underneath is lost.
ReadChunk(w) ==
  LET name == workers[w].name
      got  == workers[w].got + 1
  IN /\ workers[w].pc = "read"
     /\ got <= Size
     /\ parts' = IF name \in DOMAIN parts
                 THEN [parts EXCEPT ![name] = Append(@, <<workers[w].version, got>>)]
                 ELSE parts
     /\ workers' = [workers EXCEPT ![w].pc = "check", ![w].got = got, ![w].received = got]
     /\ Submit(<<>>) \/ Submit(<<Progress(workers[w].id, got, None)>>)
     /\ UNCHANGED <<rows, jobs, callers, dests, slipped, server, launched>>

\* Mutant: the length the server announced is not checked.
EndIsCompletion(w) == "completed"

\* The end of a body comes too early if it was announced for later.
EndOfBody(w) ==
  IF workers[w].got < Size /\ workers[w].version \in Announced THEN "interrupted"
  ELSE "completed"

\* The body ends, early when the connection is cut; a read or a write may fail.
ReadEnd(w) ==
  /\ workers[w].pc = "read"
  /\ \/ /\ workers[w].got = Size \/ "network" \in Faults
        /\ workers' = Ended(w, EndOfBody(w))
     \/ /\ Faults \cap {"network", "disk"} # {}
        /\ workers' = Ended(w, "interrupted")
  /\ UNCHANGED <<rows, queue, jobs, callers, files, server, launched>>

\* Searches that have found no file of this name and not yet asked for its .part
Overtaken(name) ==
  {callers[c].id : c \in {d \in Thread : callers[d].pc = "part" /\ callers[d].name = name}}

\* The .part gets its final name; when that fails it is only logged.
Rename(w) ==
  LET name == workers[w].name
  IN /\ workers[w].pc = "rename"
     /\ \/ /\ name \in DOMAIN parts
           /\ dests' = Put(dests, name, parts[name])
           /\ parts' = Drop(parts, {name})
           /\ slipped' = slipped \cup Overtaken(name)
        \/ /\ name \notin DOMAIN parts \/ "disk" \in Faults
           /\ UNCHANGED files
     /\ workers' = [workers EXCEPT ![w].pc = "settle"]
     /\ UNCHANGED <<rows, queue, jobs, callers, server, launched>>

\* Mutants: an interrupted download is left to the next launch pass; the last
\* progress is left to the throttled ticks.
SettleUnlessInterrupted(w) ==
  /\ workers[w].pc = "settle"
  /\ Submit(IF workers[w].outcome = "interrupted" THEN <<>>
            ELSE <<SetState(workers[w].id, workers[w].outcome)>>)
  /\ workers' = [workers EXCEPT ![w].pc = "leave"]
  /\ UNCHANGED <<rows, jobs, callers, files, server, launched>>

SettleStateOnly(w) ==
  /\ workers[w].pc = "settle"
  /\ Submit(<<SetState(workers[w].id, workers[w].outcome)>>)
  /\ workers' = [workers EXCEPT ![w].pc = "leave"]
  /\ UNCHANGED <<rows, jobs, callers, files, server, launched>>

\* The last progress and the final state are queued before the job leaves the
\* registry.
Settle(w) ==
  /\ workers[w].pc = "settle"
  /\ Submit(<<Progress(workers[w].id, workers[w].received, None),
              SetState(workers[w].id, workers[w].outcome)>>)
  /\ workers' = [workers EXCEPT ![w].pc = "leave"]
  /\ UNCHANGED <<rows, jobs, callers, files, server, launched>>

\* jobs.remove takes whatever the registry has under the id.
Leave(w) ==
  /\ workers[w].pc = "leave"
  /\ jobs' = Drop(jobs, {workers[w].id})
  /\ workers' = Drop(workers, {w})
  /\ UNCHANGED <<rows, queue, callers, files, server, launched>>

(***************************************************************************)
(* The world outside                                                       *)
(***************************************************************************)

ServerChanges ==
  /\ server' \in Version \ {server}
  /\ UNCHANGED <<rows, queue, jobs, workers, callers, files, launched>>

\* The process dies, or quits, and is started again: files and rows remain.
Restart ==
  /\ "crash" \in Faults
  /\ queue' = <<>>
  /\ jobs' = <<>>
  /\ workers' = <<>>
  /\ callers' = [c \in Thread |-> Idle({})]
  /\ launched' = FALSE
  /\ UNCHANGED <<rows, files, server>>

Init ==
  /\ rows = <<>>
  /\ queue = <<>>
  /\ jobs = <<>>
  /\ workers = <<>>
  /\ callers = [c \in Thread |-> Idle({})]
  /\ parts = <<>>
  /\ dests = <<>>
  /\ slipped = {}
  /\ server \in Version
  /\ launched = FALSE

\* What a thread does on its own once it is in a call
CallStep(c) ==
  \/ ProbeFile(c) \/ ProbePart(c)
  \/ Reserve(c) \/ Register(c) \/ ResumeRow(c) \/ CancelRow(c) \/ ListInterrupted(c)
  \/ \E w \in Worker : SpawnWorker(c, w)

UserStep(c) ==
  \E id \in DownloadId :
    StartDownload(c, id) \/ PauseDownload(c, id) \/ CancelDownload(c, id)

ResumeStep(c) == \E id \in DownloadId : ResumeDownload(c, id) \/ SkipResume(c, id)

WorkerStep(w) ==
  /\ w \in DOMAIN workers
  /\ \/ SendRequest(w) \/ OpenPart(w) \/ CheckControl(w) \/ ReadChunk(w) \/ ReadEnd(w)
     \/ Rename(w) \/ Settle(w) \/ Leave(w)

Next ==
  \/ \E c \in Thread : CallStep(c) \/ UserStep(c) \/ ResumeStep(c) \/ ResumeInterrupted(c)
  \/ WriterApply
  \/ \E w \in Worker : WorkerStep(w)
  \/ ServerChanges
  \/ Restart

Spec == Init /\ [][Next]_vars

(***************************************************************************)
(* Fairness: threads run, the writer drains its channel.  That a           *)
(* connection delivers, ends or fails, FairWorkers, is not assumed: the    *)
(* transport has a connect timeout and no other.                           *)
(***************************************************************************)

GoOn(c) == CallStep(c) \/ (callers[c].todo # {} /\ ResumeStep(c))

FairThreads == WF_vars(WriterApply) /\ \A c \in Thread : WF_vars(GoOn(c))
FairWorkers == \A w \in Worker : WF_vars(WorkerStep(w))

FairSpec == Spec /\ FairThreads

(***************************************************************************)
(* Type                                                                    *)
(***************************************************************************)

Etag == {Validator[v] : v \in Version} \cup {None}
Content == BoundedSeq(Version \X (1 .. Size), Size)
Received == 0 .. Size

Row == [name : FileName, received : Received, state : State, etag : Etag]
Op ==
  [op : {"upsert"}, id : DownloadId, name : FileName]
    \cup [op : {"progress"}, id : DownloadId, received : Received, etag : Etag]
    \cup [op : {"state"}, id : DownloadId, state : State]
    \cup {MarkStale} \cup [op : {"flush"}, by : Thread]

Todo == SUBSET DownloadId
Call ==
  [pc : {"idle"}, todo : Todo]
    \cup [pc : {"name", "part", "reserve"}, id : DownloadId, name : FileName, todo : Todo]
    \cup [pc : {"flush"}, then : {"resume", "cancel"}, id : DownloadId, todo : Todo]
    \cup [pc : {"flush"}, then : {"list"}, id : {None}, todo : {{}}]
    \cup [pc : {"resume", "cancel"}, id : DownloadId, todo : Todo]
    \cup [pc : {"list"}, id : {None}, todo : {{}}]
    \cup [pc : {"spawn"}, id : DownloadId, name : FileName, from : Received,
          etag : Etag, todo : Todo]
    \cup [pc : {"register"}, id : DownloadId, worker : Worker, todo : Todo]

Job ==
  [pc : {"send", "open", "check", "read", "rename", "settle", "leave"},
   id : DownloadId, name : FileName, from : Received, etag : Etag,
   control : {"run", "pause", "cancel"}, version : Version \cup {None},
   got : Received, received : Received,
   outcome : {"completed", "paused", "cancelled", "interrupted", None}]

\* Every variable has its shape; no transfer counts or stores more than Size.
TypeOK ==
  /\ DOMAIN rows \subseteq DownloadId /\ \A id \in DOMAIN rows : rows[id] \in Row
  /\ \A i \in DOMAIN queue : queue[i] \in Op
  /\ DOMAIN jobs \subseteq DownloadId /\ \A id \in DOMAIN jobs : jobs[id] \in Worker
  /\ DOMAIN workers \subseteq Worker /\ \A w \in DOMAIN workers : workers[w] \in Job
  /\ DOMAIN callers = Thread /\ \A c \in Thread : callers[c] \in Call
  /\ DOMAIN parts \subseteq FileName /\ \A n \in DOMAIN parts : parts[n] \in Content
  /\ DOMAIN dests \subseteq FileName /\ \A n \in DOMAIN dests : dests[n] \in Content
  /\ slipped \subseteq DownloadId
  /\ server \in Version
  /\ launched \in BOOLEAN

(***************************************************************************)
(* Safety                                                                  *)
(***************************************************************************)

Transferring(w) == workers[w].pc \notin {"settle", "leave"}

\* Two live transfers never share a .part: not those of two downloads, whose names
\* collision_safe_path and the reservation keep apart, and not two workers of one
\* download, when it is resumed right after a pause its worker has not seen
\* (resume_download asks the registry; two calls that ask it at once both go on).
OneWorkerPerFile ==
  \A v, w \in DOMAIN workers :
    Transferring(v) /\ Transferring(w) /\ workers[v].name = workers[w].name => v = w

\* FR-023: what the list calls completed is in place, from one version of the
\* resource, and all of it if the server said how much that is, through pauses, cut
\* connections, restarts and If-Range.
CompletedIsWhole ==
  \A id \in DOMAIN rows : rows[id].state = "completed" =>
    rows[id].name \in DOMAIN dests /\ Whole(dests[rows[id].name])

\* Two downloads that are completed or can go on have the same name only if one of
\* them is completed and the name was given away while the file was being renamed:
\* nothing else makes one overwrite or continue the other's file.
NamesAreDistinct ==
  LET owners == {id \in DOMAIN Settled :
                   Settled[id].state \in {"completed", "paused", "interrupted"}}
  IN \A i, j \in owners :
       i # j /\ Settled[i].name = Settled[j].name =>
         /\ Settled[i].state = "completed" \/ Settled[j].state = "completed"
         /\ i \in slipped \/ j \in slipped

Running(id) ==
  \/ \E w \in DOMAIN workers : workers[w].id = id /\ workers[w].pc # "leave"
  \/ \E c \in Thread : callers[c].pc = "spawn" /\ callers[c].id = id

ActiveHasTransfer ==
  launched => \A id \in DOMAIN Settled : Settled[id].state = "active" => Running(id)

\* The types, and: once the launch pass has begun, a row that is active, or will
\* be when the queue is written, has a transfer behind it that will settle it.  So
\* the resume and the cancel of a download whose worker has left never read a row
\* that is still active and refuse, or miss, the state it ended in.
ActiveMeansRunning == TypeOK /\ ActiveHasTransfer

\* The progress listed for a download that rests is what its .part holds.
ProgressIsOnDisk ==
  \A id \in DOMAIN Settled :
    Settled[id].state \in {"paused", "interrupted"} /\ ~Running(id) =>
      Settled[id].received = IF Settled[id].name \in DOMAIN parts
                             THEN Len(parts[Settled[id].name]) ELSE 0

(***************************************************************************)
(* Refinement                                                              *)
(***************************************************************************)

ListedState(id) == IF id \in DOMAIN rows THEN rows[id].state ELSE "none"
Delivered ==
  {id \in DOMAIN rows : /\ rows[id].state # "cancelled"
                        /\ rows[id].name \in DOMAIN dests
                        /\ Whole(dests[rows[id].name])}

Lifecycle == INSTANCE DownloadLifecycle
               WITH state <- [id \in DownloadId |-> ListedState(id)],
                    delivered <- Delivered

\* The table moves along the transition matrix, whoever writes it: no late write
\* of a worker, of the launch pass or of a second call takes a download out of a
\* final state or into one its state does not lead to.
LifecycleSpec == Lifecycle!Spec

(***************************************************************************)
(* Liveness                                                                *)
(***************************************************************************)

\* A call returns, and the launch pass comes to its end, without the network's
\* help: it waits for the writer only.
CallsReturn == \A c \in Thread : callers[c] # Idle({}) ~> callers[c] = Idle({})

\* A transfer whose connection does not stall ends one day, and the table says
\* how, the launch pass and other calls in between notwithstanding.
TransfersSettle ==
  FairWorkers => \A id \in DownloadId : ListedState(id) = "active" ~> ListedState(id) # "active"
=============================================================================
