---------------------------- MODULE EmbeddedEngine ----------------------------
(***************************************************************************)
(* The libservo backend of the engine trait (src/crates/blaze-engine-servo/*)
(* src/embedded.rs): a handle that sends commands over a channel, and a    *)
(* thread of its own that owns the web view and spins the event loop.      *)
(* Events and the mute flag are shared memory. libservo is not part of the *)
(* repository: what it may do is taken from how it is used.                *)
(***************************************************************************)
EXTENDS ServoEngine

CONSTANTS
  NoView,
  MaxCalls       \* bound: calls of the trait in a run

View == [url : Url, load : {"begun", "started", "committed", "finished"},
         visited : SUBSET Url, baked : 0 .. MaxCalls]

ASSUME NoViewIsNone == NoView \notin View
ASSUME MaxCallsIsNat == MaxCalls \in Nat

VARIABLES
  handle,        \* EmbeddedServoEngine: suspended, whether it is dropped, the
                 \* frame it waits for
  shared,        \* Shared: events, muted
  commands,      \* the channel
  thread,        \* "starting", "running", "ended"
  artifacts,     \* Delegate.artifacts: how many apply_blocking calls reached it
  webview,       \* EngineThread.webview, NoView or its page, load and artifacts
  calls,         \* calls so far, which number the frame requests
  wanted         \* history: the view the calls ask for

embVars == <<handle, shared, commands, thread, artifacts, webview, calls, wanted>>

EmbTypeOK ==
  /\ handle.suspended \in BOOLEAN /\ handle.status \in {"open", "dropping", "dropped"}
  /\ handle.frame \in 0 .. MaxCalls
  /\ thread \in {"starting", "running", "ended"}
  /\ webview \in View \cup {NoView}
  /\ thread # "running" => webview = NoView

EmbInit ==
  /\ handle = [suspended |-> FALSE, status |-> "open", frame |-> 0]
  /\ shared = [events |-> <<>>, muted |-> FALSE]
  /\ commands = <<>>
  /\ thread = "starting" /\ artifacts = 0 /\ webview = NoView
  /\ calls = 0
  /\ wanted = [view |-> FALSE, baked |-> 0, applied |-> 0]

Command(op, u) == [op |-> op, url |-> u, muted |-> FALSE, call |-> 0]

\* Sender::send; the receiver goes with the thread.
Send(command) == commands' = IF thread = "ended" THEN commands ELSE Append(commands, command)

Say(event) == shared' = [shared EXCEPT !.events = Append(@, event)]

\* The owner may call: it has not dropped the engine, and waits for no frame.
Free == handle.status = "open" /\ handle.frame = 0 /\ calls < MaxCalls
Called == Free /\ calls' = calls + 1

(***************************************************************************)
(* The handle                                                              *)
(***************************************************************************)

EmbNavigate(u) ==
  /\ Send(Command("navigate", u))
  /\ handle' = [handle EXCEPT !.suspended = FALSE]
  /\ wanted' = [wanted EXCEPT !.view = TRUE,
                              !.baked = IF wanted.view THEN @ ELSE wanted.applied]
  /\ UNCHANGED <<shared, thread, artifacts, webview>>

\* go_back, go_forward, reload
EmbSend(op) ==
  /\ Send(Command(op, NoUrl))
  /\ UNCHANGED <<handle, shared, thread, artifacts, webview, wanted>>

\* There is no call to cancel a load.
EmbStop == UNCHANGED <<handle, shared, commands, thread, artifacts, webview, wanted>>

EmbApplyBlocking ==
  /\ Send(Command("apply_blocking", NoUrl))
  /\ wanted' = [wanted EXCEPT !.applied = @ + 1]
  /\ UNCHANGED <<handle, shared, thread, artifacts, webview>>

\* The flag, the command and the event are three steps in the code; in between
\* the thread can only queue events of other kinds.
EmbSetMuted(muted) ==
  /\ IF shared.muted = muted THEN UNCHANGED <<shared, commands>>
     ELSE /\ Send([Command("set_muted", NoUrl) EXCEPT !.muted = muted])
          /\ shared' = [events |-> Append(shared.events, Audio(muted)), muted |-> muted]
  /\ UNCHANGED <<handle, thread, artifacts, webview, wanted>>

EmbSuspend ==
  /\ Send(Command("suspend", NoUrl))
  /\ handle' = [handle EXCEPT !.suspended = TRUE]
  /\ wanted' = [wanted EXCEPT !.view = FALSE]
  /\ UNCHANGED <<shared, thread, artifacts, webview>>

EmbResume(u) ==
  /\ Send(Command("resume", u))
  /\ handle' = [handle EXCEPT !.suspended = FALSE]
  /\ wanted' = [wanted EXCEPT !.view = TRUE, !.baked = wanted.applied]
  /\ UNCHANGED <<shared, thread, artifacts, webview>>

\* frame_rgba: a channel for the answer, and a wait of at most two seconds
AskFrame ==
  /\ Called
  /\ Send([Command("frame", NoUrl) EXCEPT !.call = calls + 1])
  /\ handle' = [handle EXCEPT !.frame = calls + 1]
  /\ UNCHANGED <<shared, thread, artifacts, webview, wanted>>

FrameTimesOut ==
  /\ handle.frame # 0
  /\ handle' = [handle EXCEPT !.frame = 0]
  /\ UNCHANGED <<shared, commands, thread, artifacts, webview, calls, wanted>>

\* Mutant: the drop waits for the thread, but does not tell it.
DropEngineSilently ==
  /\ handle.status = "open" /\ handle.frame = 0
  /\ handle' = [handle EXCEPT !.status = "dropping"]
  /\ UNCHANGED <<shared, commands, thread, artifacts, webview, calls, wanted>>

\* Drop: the thread is told, and joined.
DropEngine ==
  /\ handle.status = "open" /\ handle.frame = 0
  /\ Send(Command("shutdown", NoUrl))
  /\ handle' = [handle EXCEPT !.status = "dropping"]
  /\ UNCHANGED <<shared, thread, artifacts, webview, calls, wanted>>

Joined ==
  /\ handle.status = "dropping" /\ thread = "ended"
  /\ handle' = [handle EXCEPT !.status = "dropped"]
  /\ UNCHANGED <<shared, commands, thread, artifacts, webview, calls, wanted>>

(***************************************************************************)
(* The thread                                                              *)
(***************************************************************************)

StartThread ==
  /\ thread = "starting"
  /\ \/ thread' = "running" /\ UNCHANGED <<shared, commands>>
     \/ thread' = "ended" /\ commands' = <<>> /\ Say(Event("crashed", NoUrl))
  /\ UNCHANGED <<handle, artifacts, webview, calls, wanted>>

Build(u) == [url |-> u, load |-> "begun", visited |-> {u}, baked |-> artifacts]

\* EngineThread::load
Loaded(view, u) ==
  IF view = NoView THEN Build(u)
  ELSE [view EXCEPT !.url = u, !.load = "begun", !.visited = @ \cup {u}]

\* Mutant: a suspended view is kept, and resumed.
ViewAfterReusing(command) ==
  CASE command.op \in {"navigate", "resume"} -> {Loaded(webview, command.url)}
    [] command.op \in {"go_back", "go_forward", "reload"} /\ webview # NoView ->
         {webview} \cup {Loaded(webview, u) : u \in webview.visited}
    [] OTHER -> {webview}

\* handle: the views a command can leave. Where history leads is libservo's.
ViewAfter(command) ==
  CASE command.op = "navigate" -> {Loaded(webview, command.url)}
    [] command.op = "resume" -> {Loaded(NoView, command.url)}
    [] command.op = "suspend" -> {NoView}
    [] command.op \in {"go_back", "go_forward", "reload"} /\ webview # NoView ->
         {webview} \cup {Loaded(webview, u) : u \in webview.visited}
    [] OTHER -> {webview}

HandleCommand ==
  /\ thread = "running" /\ commands # <<>>
  /\ LET command == Head(commands)
     IN  IF command.op = "shutdown"
         THEN thread' = "ended" /\ webview' = NoView /\ commands' = <<>>
              /\ UNCHANGED <<handle, artifacts>>
         ELSE /\ webview' \in ViewAfter(command)
              /\ artifacts' = IF command.op = "apply_blocking" THEN artifacts + 1 ELSE artifacts
              /\ handle' = IF command.op = "frame" /\ command.call = handle.frame
                           THEN [handle EXCEPT !.frame = 0] ELSE handle
              /\ commands' = Tail(commands)
              /\ UNCHANGED thread
  /\ UNCHANGED <<shared, calls, wanted>>

\* spin_event_loop: libservo reports how far the load of the view is, and the
\* delegate queues it. What a dropped view does is not heard.
Spin ==
  /\ thread = "running" /\ webview # NoView
  /\ \E step \in {<<"begun", "started">>, <<"started", "committed">>, <<"committed", "finished">>} :
       /\ webview.load = step[1]
       /\ webview' = [webview EXCEPT !.load = step[2]]
       /\ Say(Event(step[2], webview.url))
  /\ UNCHANGED <<handle, commands, thread, artifacts, calls, wanted>>
-----------------------------------------------------------------------------
\* When the channel is empty the thread has the view the calls asked for, or
\* none; its scriptlets and styles are those that were applied before the call
\* that built it ("suspend -> resume or first navigate").
ViewIsAsAsked ==
  (thread = "running" /\ commands = <<>>) =>
    /\ (webview # NoView) = wanted.view
    /\ handle.suspended => webview = NoView
    /\ webview # NoView => webview.baked = wanted.baked

\* A drop returns, whatever the thread was at, and if it had ended before.
DropReturns == (handle.status = "dropping") ~> (handle.status = "dropped")
=============================================================================
