---------------------------- MODULE StorageWriter ----------------------------
(***************************************************************************)
(* The single writer thread of a profile (src/crates/blaze-storage/src/    *)
(* writer.rs), the threads that use it, the daily retention job that holds *)
(* a handle of its own (retention.rs), and the drop of the profile, which  *)
(* stops the job, flushes, closes the channel and joins the writer.        *)
(*                                                                         *)
(* Clients borrow the profile, so none is inside a call when it drops; a   *)
(* handle is cloned into a thread that may outlive it (download workers).  *)
(* Writes are numbered in the order of their submission.                   *)
(***************************************************************************)
EXTENDS Naturals, Sequences, SequencesExt

CONSTANTS
  Client,        \* threads that borrow the profile
  Holder,        \* threads with a WriterHandle
  Owner,         \* the thread that drops the profile
  MaxWrites,     \* bound: writes submitted in a run
  Free           \* no barrier

ASSUME OwnerIsNoClient == Owner \notin Client
ASSUME MaxWritesIsPos == MaxWrites \in Nat \ {0}
ASSUME FreeIsNoNumber == Free \notin Nat

VARIABLES
  queue,         \* the channel, oldest operation first
  submitted,     \* how many writes were submitted
  applied,       \* the writes the database holds, in the order it got them
  waiting,       \* thread |-> the writes its call waits for, or Free
  holders,       \* the threads that still have their handle
  retention,     \* the job: "sleeping", told to "stop", "ended"
  profile,       \* how far the drop has come
  writer         \* the writer thread: "running", "ended", "panicked"

vars == <<queue, submitted, applied, waiting, holders, retention, profile, writer>>

Write(n) == [op |-> "write", n |-> n]
Flush(c) == [op |-> "flush", by |-> c]
WriteSync(n, c) == [op |-> "sync", n |-> n, by |-> c]

\* The receiver is there until the writer thread is gone.
Listening == writer = "running"

\* Mutant: what a caller waits for goes to the front of the channel.
SendUrgent(op) ==
  queue' = IF ~Listening THEN queue
           ELSE IF op.op = "write" THEN Append(queue, op) ELSE <<op>> \o queue

\* Sender::send: what nobody receives is discarded.
Send(op) == queue' = IF Listening THEN Append(queue, op) ELSE queue

\* StorageWriter::submit, WriterHandle::submit
Submit ==
  /\ submitted < MaxWrites
  /\ submitted' = submitted + 1
  /\ Send(Write(submitted'))
  /\ UNCHANGED <<applied, waiting, holders, retention, profile, writer>>

\* write_sync: a write, and its answer to wait for
CallWriteSync(c) ==
  /\ submitted < MaxWrites
  /\ submitted' = submitted + 1
  /\ Send(WriteSync(submitted', c))
  /\ waiting' = [waiting EXCEPT ![c] = IF Listening THEN submitted' ELSE Free]
  /\ UNCHANGED <<applied, holders, retention, profile, writer>>

\* flush: an operation of its own; without a writer it returns at once.
CallFlush(c) ==
  /\ Send(Flush(c))
  /\ waiting' = [waiting EXCEPT ![c] = IF Listening THEN submitted ELSE Free]
  /\ UNCHANGED <<submitted, applied, holders, retention, profile, writer>>

ClientCall(c) ==
  /\ profile = "open"
  /\ waiting[c] = Free
  /\ Submit \/ CallWriteSync(c) \/ CallFlush(c)

HolderSubmit(h) == h \in holders /\ Submit

\* The thread ends and its handle drops.
HolderEnds(h) ==
  /\ h \in holders
  /\ holders' = holders \ {h}
  /\ UNCHANGED <<queue, submitted, applied, waiting, retention, profile, writer>>

(***************************************************************************)
(* The retention job                                                       *)
(***************************************************************************)

\* 24 hours have passed.
RetentionPrunes == retention = "sleeping" /\ Submit

\* The stop message wakes it, and its handle drops with the thread.
RetentionEnds ==
  /\ retention = "stop"
  /\ retention' = "ended"
  /\ UNCHANGED <<queue, submitted, applied, waiting, holders, profile, writer>>

(***************************************************************************)
(* The writer thread                                                       *)
(***************************************************************************)

\* Who hears from the writer about an operation
Answered(op) ==
  IF op.op = "write" THEN waiting ELSE [waiting EXCEPT ![op.by] = Free]

WriterStep ==
  LET op == Head(queue)
  IN /\ writer = "running"
     /\ queue # <<>>
     /\ applied' = IF op.op = "flush" THEN applied ELSE Append(applied, op.n)
     /\ waiting' = Answered(op)
     /\ queue' = Tail(queue)
     /\ UNCHANGED <<submitted, holders, retention, profile, writer>>

\* Everybody who can send: the StorageWriter, the handles, the retention job
Senders ==
  (IF profile \in {"join", "closed"} THEN {} ELSE {"storage writer"})
    \cup (IF holders = {} THEN {} ELSE {"handle"})
    \cup (IF retention = "ended" THEN {} ELSE {"retention"})

\* recv fails when the channel is empty and the last sender is gone.
WriterEnds ==
  /\ writer = "running"
  /\ queue = <<>>
  /\ Senders = {}
  /\ writer' = "ended"
  /\ UNCHANGED <<queue, submitted, applied, waiting, holders, retention, profile>>

\* Mutant: the answers of the lost operations stay open.
PanicKeepingWaiters ==
  /\ writer = "running"
  /\ queue # <<>>
  /\ Head(queue).op # "flush"
  /\ writer' = "panicked"
  /\ queue' = <<>>
  /\ UNCHANGED <<submitted, applied, waiting, holders, retention, profile>>

\* A write may panic and take the thread along.  That drops the receiver: queued
\* writes are lost, whoever waits is let go.
WriterPanics ==
  /\ writer = "running"
  /\ queue # <<>>
  /\ Head(queue).op # "flush"
  /\ writer' = "panicked"
  /\ queue' = <<>>
  /\ waiting' = [c \in DOMAIN waiting |-> Free]
  /\ UNCHANGED <<submitted, applied, holders, retention, profile>>

(***************************************************************************)
(* The drop of the profile: the fields in their order                      *)
(***************************************************************************)

\* Mutant: the job is joined without being told to stop.
DropWithoutStop ==
  /\ profile = "open"
  /\ \A c \in Client : waiting[c] = Free
  /\ profile' = "stopping"
  /\ UNCHANGED <<queue, submitted, applied, waiting, holders, retention, writer>>

\* RetentionJob::drop sends the stop message and joins.
DropRetention ==
  /\ profile = "open"
  /\ \A c \in Client : waiting[c] = Free
  /\ retention' = "stop"
  /\ profile' = "stopping"
  /\ UNCHANGED <<queue, submitted, applied, waiting, holders, writer>>

\* StorageWriter::drop flushes ...
DropFlush ==
  /\ profile = "stopping"
  /\ retention = "ended"
  /\ profile' = "flushing"
  /\ Send(Flush(Owner))
  /\ waiting' = [waiting EXCEPT ![Owner] = IF Listening THEN submitted ELSE Free]
  /\ UNCHANGED <<submitted, applied, holders, retention, writer>>

\* ... gives up its sender ...
DropSender ==
  /\ profile = "flushing"
  /\ waiting[Owner] = Free
  /\ profile' = "join"
  /\ UNCHANGED <<queue, submitted, applied, waiting, holders, retention, writer>>

\* Mutant: the thread is not joined.
DropDetached ==
  /\ profile = "join"
  /\ profile' = "closed"
  /\ UNCHANGED <<queue, submitted, applied, waiting, holders, retention, writer>>

\* ... and joins the thread.
DropJoin ==
  /\ profile = "join"
  /\ writer # "running"
  /\ profile' = "closed"
  /\ UNCHANGED <<queue, submitted, applied, waiting, holders, retention, writer>>

DropStep == DropFlush \/ DropSender \/ DropJoin

(***************************************************************************)
(* The system                                                              *)
(***************************************************************************)

\* Profile::open has spawned the job, which submits its first prune before.
Init ==
  /\ submitted = 1
  /\ queue = <<Write(1)>>
  /\ applied = <<>>
  /\ waiting = [c \in Client \cup {Owner} |-> Free]
  /\ holders = Holder
  /\ retention = "sleeping"
  /\ profile = "open"
  /\ writer = "running"

Next ==
  \/ \E c \in Client : ClientCall(c)
  \/ \E h \in Holder : HolderSubmit(h) \/ HolderEnds(h)
  \/ RetentionPrunes \/ RetentionEnds
  \/ WriterStep \/ WriterEnds \/ WriterPanics
  \/ DropRetention \/ DropStep

Spec == Init /\ [][Next]_vars

\* Threads that have something to do, do it.  That a thread with a handle ever ends,
\* FairHolders, is not assumed: a download may stall in a read without timeout.
Fairness ==
  /\ WF_vars(WriterStep) /\ WF_vars(WriterEnds)
  /\ WF_vars(RetentionEnds) /\ WF_vars(DropStep)
FairHolders == \A h \in Holder : WF_vars(HolderEnds(h))

FairSpec == Spec /\ Fairness

(***************************************************************************)
(* Properties                                                              *)
(***************************************************************************)

Thread == Client \cup {Owner}
Number == 1 .. MaxWrites
Op == [op : {"write"}, n : Number] \cup [op : {"flush"}, by : Thread]
        \cup [op : {"sync"}, n : Number, by : Thread]

\* Every variable has its shape.
TypeOK ==
  /\ queue \in Seq(Op)
  /\ submitted \in 0 .. MaxWrites
  /\ applied \in Seq(Number)
  /\ waiting \in [Thread -> (0 .. MaxWrites) \cup {Free}]
  /\ holders \subseteq Holder
  /\ retention \in {"sleeping", "stop", "ended"}
  /\ profile \in {"open", "stopping", "flushing", "join", "closed"}
  /\ writer \in {"running", "ended", "panicked"}

Store == INSTANCE OrderedStore WITH Client <- Thread, barrier <- waiting,
                                       failed <- writer = "panicked"

\* The writer implements the ordered store: no write overtakes another, and
\* flush ("block until every previously queued write has been applied") and
\* write_sync return only when what was queued before is applied, whichever
\* thread queued it.
ImplementsStore == Store!Spec

\* The types, and: dropping the profile loses nothing. When it is done, every write
\* ever submitted is in the database, those of the handles that outlived it too.
DropDrains ==
  /\ TypeOK
  /\ profile = "closed" /\ writer # "panicked" => applied = [n \in 1 .. submitted |-> n]

\* A caller that waits for the writer gets on, even when a write takes the
\* writer thread along.
NoCallHangs == \A c \in Thread : waiting[c] # Free ~> waiting[c] = Free

\* When the threads with a handle end, the drop of the profile ends: the order in
\* which it stops the job, flushes, closes and joins has no deadlock.
DropReturns == FairHolders => (profile # "open" ~> profile = "closed")
=============================================================================
