-------------------------- MODULE DownloadLifecycle --------------------------
(***************************************************************************)
(* What the downloads list promises, whatever threads, queue, network and  *)
(* restarts do underneath: a download moves along the transition matrix of *)
(* DownloadState, it is completed only once its file is in place, as long  *)
(* as the server announced, and completed and cancelled are final.         *)
(***************************************************************************)
EXTENDS FiniteSets

CONSTANT DownloadId

VARIABLES
  state,       \* download |-> what the list shows, "none" before it is listed
  delivered    \* the downloads whose file is in place, whole if its length is known

vars == <<state, delivered>>

Init ==
  /\ state = [id \in DownloadId |-> "none"]
  /\ delivered = {}

Becomes(id, old, new) ==
  /\ state[id] \in old
  /\ state' = [state EXCEPT ![id] = new]

\* A download shows up active; a fast one may have its file by then.
Begin(id) ==
  /\ Becomes(id, {"none"}, "active")
  /\ delivered' \in {delivered, delivered \cup {id}}

\* A file gets its name; the list may still show the state before the resume, and
\* a download just cancelled that had the name before.
Deliver(ids) ==
  /\ \A id \in ids : state[id] \in {"active", "paused", "interrupted"}
  /\ delivered' = delivered \cup ids
  /\ UNCHANGED state

Complete(id) ==
  /\ Becomes(id, {"active"}, "completed")
  /\ id \in delivered
  /\ UNCHANGED delivered

Pause(id) == Becomes(id, {"active"}, "paused") /\ UNCHANGED delivered

\* The launch after a crash interrupts every active download at once.
Interrupt(ids) ==
  /\ \A id \in ids : state[id] = "active"
  /\ state' = [id \in DownloadId |-> IF id \in ids THEN "interrupted" ELSE state[id]]
  /\ UNCHANGED delivered

Resume(id) == Becomes(id, {"paused", "interrupted"}, "active") /\ UNCHANGED delivered

Cancel(id) ==
  /\ Becomes(id, {"active", "paused", "interrupted"}, "cancelled")
  /\ delivered' = delivered \ {id}

Next ==
  \/ \E id \in DownloadId :
       Begin(id) \/ Complete(id) \/ Pause(id) \/ Resume(id) \/ Cancel(id)
  \/ \E ids \in SUBSET DownloadId : Deliver(ids) \/ Interrupt(ids)

Spec == Init /\ [][Next]_vars
=============================================================================
