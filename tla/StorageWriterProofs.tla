------------------------- MODULE StorageWriterProofs -------------------------
(***************************************************************************)
(* For any threads and any number of writes: the writer implements the     *)
(* ordered store, and dropping the profile loses no write.                 *)
(***************************************************************************)
EXTENDS StorageWriter, SequenceTheorems, TLAPS

IsWrite(op) == op.op # "flush"
IsCall(op) == op.op # "write"

\* The database holds 1, 2, ...
AppliedInOrder ==
  /\ Len(applied) <= submitted
  /\ \A n \in DOMAIN applied : applied[n] = n

\* The channel holds the writes that are submitted and not applied, in order.
QueuedInOrder ==
  /\ \A i \in DOMAIN queue : IsWrite(queue[i]) =>
       Len(applied) < queue[i].n /\ queue[i].n <= submitted
  /\ \A i, j \in DOMAIN queue :
       (i < j /\ IsWrite(queue[i]) /\ IsWrite(queue[j])) => queue[i].n < queue[j].n

NothingMissing ==
  writer # "panicked" =>
    \A n \in Number : (Len(applied) < n /\ n <= submitted) =>
      \E i \in DOMAIN queue : IsWrite(queue[i]) /\ queue[i].n = n

\* The operation a call waits for stands behind all writes the call waits for.
Serves(i, c) ==
  /\ IsCall(queue[i]) /\ queue[i].by = c
  /\ IsWrite(queue[i]) => queue[i].n = waiting[c]
  /\ \A j \in DOMAIN queue : (i < j /\ IsWrite(queue[j])) => waiting[c] < queue[j].n

CallsServed ==
  \A c \in Thread : waiting[c] # Free =>
    waiting[c] <= submitted /\ \E i \in DOMAIN queue : Serves(i, c)

\* A thread is in one call at a time.
OneCallEach ==
  /\ \A i \in DOMAIN queue : IsCall(queue[i]) => waiting[queue[i].by] # Free
  /\ \A i, j \in DOMAIN queue :
       (IsCall(queue[i]) /\ IsCall(queue[j]) /\ queue[i].by = queue[j].by) => i = j

\* When the writer ends nobody is left to send; when it is gone nothing is queued.
WriterLast ==
  /\ writer = "ended" => holders = {} /\ retention = "ended" /\ profile \in {"join", "closed"}
  /\ writer # "running" => queue = <<>>
  /\ profile = "closed" => writer # "running"

OwnerWaitsInDrop == waiting[Owner] # Free => profile = "flushing"

QueueInv ==
  AppliedInOrder /\ QueuedInOrder /\ NothingMissing /\ CallsServed /\ OneCallEach

Inv == TypeOK /\ QueueInv /\ WriterLast /\ OwnerWaitsInDrop

\* What an operation holds.
LEMMA OpFacts ==
  ASSUME NEW op \in Op
  PROVE  /\ op.op \in {"write", "flush", "sync"}
         /\ IsWrite(op) => op.n \in Number
         /\ IsCall(op) => op.by \in Thread
  BY DEF Op, IsWrite, IsCall

LEMMA NumberFacts == Number \subseteq Nat /\ 0 .. MaxWrites \subseteq Nat
  BY MaxWritesIsPos DEF Number

LEMMA InitInv == Init => Inv
<1> SUFFICES ASSUME Init PROVE Inv
  OBVIOUS
<1>1. Write(1) \in Op /\ IsWrite(Write(1)) /\ ~IsCall(Write(1)) /\ Write(1).n = 1
  BY MaxWritesIsPos DEF Write, Op, Number, IsWrite, IsCall
<1>2. queue = <<Write(1)>> /\ Len(queue) = 1 /\ DOMAIN queue = {1} /\ queue[1] = Write(1)
  BY DEF Init
<1>3. TypeOK
  BY <1>1, MaxWritesIsPos DEF Init, TypeOK, Thread
<1>4. AppliedInOrder /\ QueuedInOrder
  BY <1>1, <1>2 DEF Init, AppliedInOrder, QueuedInOrder
<1>5. NothingMissing
  BY <1>1, <1>2, NumberFacts DEF Init, NothingMissing
<1>6. CallsServed /\ OneCallEach /\ WriterLast /\ OwnerWaitsInDrop
  BY <1>1, <1>2 DEF Init, CallsServed, OneCallEach, WriterLast, OwnerWaitsInDrop, Thread
<1> QED BY <1>3, <1>4, <1>5, <1>6 DEF Inv, QueueInv
-----------------------------------------------------------------------------
(***************************************************************************)
(* The channel                                                             *)
(***************************************************************************)

\* What is in the channel, and the numbers there are.
LEMMA QueueFacts ==
  ASSUME TypeOK
  PROVE  /\ Len(queue) \in Nat /\ DOMAIN queue = 1 .. Len(queue)
         /\ submitted \in Nat /\ Len(applied) \in Nat
         /\ \A i \in DOMAIN queue : queue[i] \in Op
         /\ \A i \in DOMAIN queue : IsWrite(queue[i]) => queue[i].n \in Nat
         /\ \A i \in DOMAIN queue : IsCall(queue[i]) => queue[i].by \in Thread
         /\ \A c \in Thread : waiting[c] # Free => waiting[c] \in Nat
<1>1. Len(queue) \in Nat /\ DOMAIN queue = 1 .. Len(queue) /\ \A i \in DOMAIN queue : queue[i] \in Op
  BY DEF TypeOK
<1>2. submitted \in Nat /\ Len(applied) \in Nat /\ \A c \in Thread : waiting[c] # Free => waiting[c] \in Nat
  BY NumberFacts DEF TypeOK
<1> QED BY <1>1, <1>2, OpFacts, NumberFacts

\* An operation at the end of the channel.
LEMMA AppendFacts ==
  ASSUME TypeOK, NEW op \in Op, queue' = Append(queue, op)
  PROVE  /\ queue' \in Seq(Op)
         /\ DOMAIN queue' = DOMAIN queue \cup {Len(queue) + 1}
         /\ \A i \in DOMAIN queue : i < Len(queue) + 1 /\ i \in Nat /\ queue'[i] = queue[i]
         /\ queue'[Len(queue) + 1] = op /\ Len(queue) + 1 \in Nat
  BY DEF TypeOK

\* A write at the end of the channel, with a call or without.
LEMMA WriteInv ==
  ASSUME TypeOK, QueueInv, Listening,
         NEW op \in Op, queue' = Append(queue, op),
         IsWrite(op) => submitted' = submitted + 1 /\ op.n = submitted',
         ~IsWrite(op) => submitted' = submitted,
         UNCHANGED <<applied, writer>>
  PROVE  AppliedInOrder' /\ QueuedInOrder' /\ NothingMissing'
<1>1. /\ submitted \in Nat /\ Len(applied) \in Nat
      /\ \A i \in DOMAIN queue : IsWrite(queue[i]) => queue[i].n \in Nat
  BY QueueFacts
<1>2. submitted' \in Nat /\ submitted <= submitted'
  BY <1>1
<1>3. AppliedInOrder'
  BY <1>1, <1>2 DEF QueueInv, AppliedInOrder
<1>4. QueuedInOrder'
  <2>1. ASSUME NEW i \in DOMAIN queue', IsWrite(queue'[i])
        PROVE  Len(applied') < queue'[i].n /\ queue'[i].n <= submitted'
    <3>1. CASE i \in DOMAIN queue
      <4>1. queue'[i] = queue[i] /\ Len(applied) < queue[i].n /\ queue[i].n <= submitted
        BY <2>1, <3>1, AppendFacts DEF QueueInv, QueuedInOrder
      <4> QED BY <1>1, <1>2, <2>1, <3>1, <4>1
    <3>2. CASE i = Len(queue) + 1
      BY <1>1, <1>2, <2>1, <3>2, AppendFacts DEF QueueInv, AppliedInOrder
    <3> QED BY <3>1, <3>2, AppendFacts
  <2>2. ASSUME NEW i \in DOMAIN queue', NEW j \in DOMAIN queue',
               i < j, IsWrite(queue'[i]), IsWrite(queue'[j])
        PROVE  queue'[i].n < queue'[j].n
    <3>1. CASE i \in DOMAIN queue /\ j \in DOMAIN queue
      BY <2>2, <3>1, AppendFacts DEF QueueInv, QueuedInOrder
    <3>2. CASE i \in DOMAIN queue /\ j = Len(queue) + 1
      <4>1. queue'[i] = queue[i] /\ queue[i].n \in Nat /\ queue[i].n <= submitted
        BY <1>1, <2>2, <3>2, AppendFacts DEF QueueInv, QueuedInOrder
      <4>2. queue'[j].n = submitted + 1
        BY <2>2, <3>2, AppendFacts
      <4> QED BY <1>1, <4>1, <4>2
    <3>3. CASE i = Len(queue) + 1
      BY <2>2, <3>3, AppendFacts, QueueFacts
    <3> QED BY <3>1, <3>2, <3>3, AppendFacts
  <2> QED BY <2>1, <2>2 DEF QueuedInOrder
<1>5. NothingMissing'
  <2>1. SUFFICES ASSUME NEW n \in Number, Len(applied) < n, n <= submitted'
                 PROVE  \E i \in DOMAIN queue' : IsWrite(queue'[i]) /\ queue'[i].n = n
    BY DEF NothingMissing
  <2>2. CASE n <= submitted
    <3>1. PICK i \in DOMAIN queue : IsWrite(queue[i]) /\ queue[i].n = n
      BY <2>1, <2>2 DEF QueueInv, NothingMissing, Listening
    <3> QED BY <3>1, AppendFacts
  <2>3. CASE ~(n <= submitted)
    <3>1. IsWrite(op) /\ op.n = n
      BY <1>1, <2>1, <2>3, NumberFacts
    <3> QED BY <3>1, AppendFacts
  <2> QED BY <2>2, <2>3
<1> QED BY <1>3, <1>4, <1>5

\* A thread that is waiting keeps its place.
LEMMA ServesStays ==
  ASSUME TypeOK, QueueInv,
         NEW op \in Op, queue' = Append(queue, op),
         IsWrite(op) => submitted' = submitted + 1 /\ op.n = submitted',
         NEW d \in Thread, waiting[d] # Free, waiting'[d] = waiting[d]
  PROVE  waiting[d] <= submitted /\ \E i \in DOMAIN queue' : Serves(i, d)'
<1>1. PICK i \in DOMAIN queue : Serves(i, d)
  BY DEF QueueInv, CallsServed
<1>2. waiting[d] <= submitted /\ waiting[d] \in Nat /\ submitted \in Nat
  BY QueueFacts DEF QueueInv, CallsServed
<1>3. ASSUME NEW j \in DOMAIN queue', i < j, IsWrite(queue'[j])
      PROVE  waiting'[d] < queue'[j].n
  <2>1. CASE j \in DOMAIN queue
    BY <1>1, <1>3, <2>1, AppendFacts DEF Serves
  <2>2. CASE j = Len(queue) + 1
    BY <1>2, <1>3, <2>2, AppendFacts
  <2> QED BY <2>1, <2>2, AppendFacts
<1>4. i \in DOMAIN queue' /\ queue'[i] = queue[i]
  BY AppendFacts
<1>5. Serves(i, d)'
  BY <1>1, <1>3, <1>4 DEF Serves
<1> QED BY <1>2, <1>4, <1>5

\* A write without a call.
LEMMA SubmitInv ==
  ASSUME TypeOK, QueueInv, Submit, Listening
  PROVE  QueueInv'
<1> DEFINE op == Write(submitted + 1)
<1>1. op \in Op /\ IsWrite(op) /\ ~IsCall(op) /\ op.n = submitted + 1
  BY MaxWritesIsPos DEF Submit, TypeOK, Write, Op, Number, IsWrite, IsCall
<1>2. queue' = Append(queue, op) /\ submitted' = submitted + 1
  BY DEF Submit, Send, Listening
<1>3. UNCHANGED <<applied, waiting, writer>>
  BY DEF Submit
<1> HIDE DEF op
<1>4. AppliedInOrder' /\ QueuedInOrder' /\ NothingMissing'
  BY <1>1, <1>2, <1>3, WriteInv
<1>5. CallsServed'
  <2>1. SUFFICES ASSUME NEW d \in Thread, waiting'[d] # Free
                 PROVE  waiting'[d] <= submitted' /\ \E i \in DOMAIN queue' : Serves(i, d)'
    BY DEF CallsServed
  <2>2. waiting[d] <= submitted /\ \E i \in DOMAIN queue' : Serves(i, d)'
    BY <1>1, <1>2, <1>3, <2>1, ServesStays
  <2>3. waiting[d] \in Nat /\ submitted \in Nat
    BY <1>3, <2>1, QueueFacts
  <2> QED BY <1>2, <1>3, <2>2, <2>3
<1>6. OneCallEach'
  BY <1>1, <1>2, <1>3, AppendFacts DEF QueueInv, OneCallEach
<1> QED BY <1>4, <1>5, <1>6 DEF QueueInv

\* A call that waits, with a write of its own or with none.
LEMMA CallInv ==
  ASSUME TypeOK, QueueInv, Listening,
         NEW c \in Thread, waiting[c] = Free,
         NEW op \in Op, IsCall(op), op.by = c,
         IsWrite(op) => submitted' = submitted + 1 /\ op.n = submitted',
         ~IsWrite(op) => submitted' = submitted,
         queue' = Append(queue, op),
         waiting' = [waiting EXCEPT ![c] = submitted'],
         UNCHANGED <<applied, writer>>
  PROVE  QueueInv'
<1>1. submitted \in Nat /\ submitted' \in Nat /\ submitted <= submitted'
  BY QueueFacts
<1>2. waiting'[c] = submitted' /\ \A d \in Thread \ {c} : waiting'[d] = waiting[d]
  BY DEF TypeOK
<1>3. \A i \in DOMAIN queue : IsCall(queue[i]) => queue[i].by # c
  BY DEF QueueInv, OneCallEach
<1>4. AppliedInOrder' /\ QueuedInOrder' /\ NothingMissing'
  BY WriteInv
<1>5. CallsServed'
  <2>0. PICK last \in Nat : last = Len(queue) + 1
    BY QueueFacts
  <2>1. \A j \in DOMAIN queue' : ~(last < j)
    BY <2>0, AppendFacts, QueueFacts
  <2>2. last \in DOMAIN queue' /\ queue'[last] = op /\ Serves(last, c)'
    BY <1>2, <2>0, <2>1, AppendFacts DEF Serves
  <2>3. ASSUME NEW d \in Thread, waiting'[d] # Free
        PROVE  waiting'[d] <= submitted' /\ \E i \in DOMAIN queue' : Serves(i, d)'
    <3>1. CASE d = c
      BY <1>1, <1>2, <2>2, <3>1
    <3>2. CASE d # c
      <4>1. waiting'[d] = waiting[d]
        BY <1>2, <3>2
      <4>2. waiting[d] <= submitted /\ \E i \in DOMAIN queue' : Serves(i, d)'
        BY <2>3, <4>1, ServesStays
      <4>3. waiting[d] \in Nat
        BY <2>3, <4>1, QueueFacts
      <4> QED BY <1>1, <4>1, <4>2, <4>3
    <3> QED BY <3>1, <3>2
  <2> QED BY <2>3 DEF CallsServed
<1>6. OneCallEach'
  <2>1. submitted' # Free
    BY <1>1, FreeIsNoNumber
  <2> QED BY <1>2, <1>3, <2>1, AppendFacts, OpFacts DEF QueueInv, OneCallEach, TypeOK
<1> QED BY <1>4, <1>5, <1>6 DEF QueueInv

\* Whatever the oldest operation is, the next write in the channel is the one
\* the database is at.
LEMMA HeadFacts ==
  ASSUME TypeOK, QueueInv, writer = "running", queue # <<>>
  PROVE  /\ Head(queue) \in Op /\ Head(queue) = queue[1] /\ 1 \in DOMAIN queue
         /\ Len(queue) \in Nat \ {0}
         /\ Tail(queue) \in Seq(Op)
         /\ DOMAIN queue = 1 .. Len(queue) /\ DOMAIN Tail(queue) = 1 .. Len(queue) - 1
         /\ \A i \in DOMAIN Tail(queue) : i + 1 \in DOMAIN queue /\ Tail(queue)[i] = queue[i + 1]
         /\ IsWrite(Head(queue)) => Head(queue).n = Len(applied) + 1
         /\ ~IsWrite(Head(queue)) => waiting[Head(queue).by] <= Len(applied)
<1>1. /\ Head(queue) \in Op /\ Head(queue) = queue[1]
      /\ Tail(queue) \in Seq(Op) /\ Len(Tail(queue)) = Len(queue) - 1
      /\ \A i \in 1 .. Len(Tail(queue)) : Tail(queue)[i] = queue[i + 1]
  BY HeadTailProperties DEF TypeOK
<1>2. /\ Len(queue) \in Nat \ {0} /\ DOMAIN queue = 1 .. Len(queue)
      /\ DOMAIN Tail(queue) = 1 .. Len(queue) - 1 /\ 1 \in DOMAIN queue
  BY <1>1, EmptySeq DEF TypeOK
<1>3. ASSUME IsWrite(queue[1]) PROVE queue[1].n = Len(applied) + 1
  <2>1. /\ Len(applied) < queue[1].n /\ queue[1].n <= submitted
        /\ queue[1].n \in Number /\ Len(applied) \in Nat /\ submitted \in 0 .. MaxWrites
    BY <1>1, <1>2, <1>3, OpFacts DEF TypeOK, QueueInv, QueuedInOrder
  <2>2. Len(applied) + 1 \in Number /\ Len(applied) + 1 <= submitted
    BY <2>1, MaxWritesIsPos DEF Number
  <2>3. PICK i \in DOMAIN queue : IsWrite(queue[i]) /\ queue[i].n = Len(applied) + 1
    BY <2>1, <2>2, NumberFacts DEF QueueInv, NothingMissing
  <2>4. i # 1 => queue[1].n < queue[i].n
    BY <1>2, <1>3, <2>3 DEF QueueInv, QueuedInOrder
  <2>5. queue[1].n \in Nat
    BY <2>1, NumberFacts
  <2> QED BY <2>1, <2>3, <2>4, <2>5
<1>4. ASSUME ~IsWrite(queue[1]) PROVE waiting[queue[1].by] <= Len(applied)
  <2> DEFINE c == queue[1].by
  <2>1. IsCall(queue[1]) /\ c \in Thread /\ waiting[c] # Free
    BY <1>1, <1>2, <1>4, OpFacts DEF IsWrite, IsCall, QueueInv, OneCallEach
  <2>2. waiting[c] \in 0 .. MaxWrites /\ waiting[c] <= submitted
    BY <2>1 DEF TypeOK, QueueInv, CallsServed
  <2>3. PICK i \in DOMAIN queue : Serves(i, c)
    BY <2>1 DEF QueueInv, CallsServed
  <2>4. i = 1
    BY <1>2, <2>1, <2>3 DEF Serves, QueueInv, OneCallEach
  <2>5. \A j \in DOMAIN queue : IsWrite(queue[j]) => waiting[c] < queue[j].n
    BY <1>2, <1>4, <2>3, <2>4 DEF Serves
  <2>6. Len(applied) \in Nat /\ waiting[c] \in Nat
    BY <2>2, NumberFacts DEF TypeOK
  <2>7. CASE Len(applied) < waiting[c]
    <3>1. waiting[c] \in Number
      BY <2>2, <2>6, <2>7 DEF Number
    <3>2. PICK j \in DOMAIN queue : IsWrite(queue[j]) /\ queue[j].n = waiting[c]
      BY <2>2, <2>7, <3>1 DEF QueueInv, NothingMissing
    <3> QED BY <2>5, <2>6, <3>2
  <2> QED BY <2>6, <2>7
<1> QED BY <1>1, <1>2, <1>3, <1>4
-----------------------------------------------------------------------------
(***************************************************************************)
(* The steps                                                               *)
(***************************************************************************)

\* Nobody sends to a writer that has ended: it ends behind the last sender.
LEMMA SubmitTotal ==
  ASSUME Inv, Submit, writer # "ended"
  PROVE  Inv'
<1>1. TypeOK'
  <2>1. submitted + 1 \in Number /\ submitted' = submitted + 1 /\ submitted' \in 0 .. MaxWrites
    BY MaxWritesIsPos DEF Inv, TypeOK, Submit, Number
  <2>2. Write(submitted + 1) \in Op
    BY <2>1 DEF Write, Op
  <2>3. queue' \in Seq(Op)
    BY <2>1, <2>2, AppendFacts DEF Inv, TypeOK, Submit, Send
  <2> QED BY <2>1, <2>3 DEF Inv, TypeOK, Submit
<1>2. QueueInv'
  <2>1. CASE Listening
    BY <2>1, SubmitInv DEF Inv
  <2>2. CASE ~Listening
    <3>1. UNCHANGED <<queue, applied, waiting, writer>> /\ submitted' = submitted + 1
      BY <2>2 DEF Submit, Send
    <3>2. writer = "panicked" /\ queue = <<>>
      BY <2>2 DEF Inv, TypeOK, WriterLast, Listening
    <3>3. AppliedInOrder'
      BY <3>1, QueueFacts DEF Inv, QueueInv, AppliedInOrder
    <3>4. QueuedInOrder' /\ NothingMissing' /\ OneCallEach' /\ CallsServed'
      BY <3>1, <3>2 DEF Inv, QueueInv, QueuedInOrder, NothingMissing, OneCallEach, CallsServed
    <3> QED BY <3>3, <3>4 DEF QueueInv
  <2> QED BY <2>1, <2>2
<1>3. WriterLast' /\ OwnerWaitsInDrop'
  BY DEF Inv, Submit, Send, Listening, WriterLast, OwnerWaitsInDrop
<1> QED BY <1>1, <1>2, <1>3 DEF Inv

\* A thread that calls is in no call. Without a writer the call returns at once.
LEMMA CallTotal ==
  ASSUME Inv, writer # "ended", NEW c \in Thread, waiting[c] = Free,
         CallWriteSync(c) \/ CallFlush(c) \/ (c = Owner /\ DropFlush),
         c = Owner => profile' = "flushing"
  PROVE  Inv'
<1>1. UNCHANGED <<applied, holders, retention, writer>>
  BY DEF CallWriteSync, CallFlush, DropFlush
<1>2. PICK op \in Op :
        /\ IsCall(op) /\ op.by = c
        /\ IsWrite(op) => submitted' = submitted + 1 /\ op.n = submitted'
        /\ ~IsWrite(op) => submitted' = submitted
        /\ submitted' \in 0 .. MaxWrites
        /\ Send(op)
        /\ waiting' = [waiting EXCEPT ![c] = IF Listening THEN submitted' ELSE Free]
  <2>1. CASE CallWriteSync(c)
    <3>1. submitted' = submitted + 1 /\ submitted' \in Number /\ submitted' \in 0 .. MaxWrites
      BY <2>1, MaxWritesIsPos DEF Inv, TypeOK, CallWriteSync, Number
    <3>2. WriteSync(submitted', c) \in Op
      BY <3>1 DEF WriteSync, Op
    <3>3. /\ IsCall(WriteSync(submitted', c)) /\ IsWrite(WriteSync(submitted', c))
          /\ WriteSync(submitted', c).by = c /\ WriteSync(submitted', c).n = submitted'
      BY DEF WriteSync, IsCall, IsWrite
    <3> QED BY <2>1, <3>1, <3>2, <3>3 DEF CallWriteSync
  <2>2. CASE CallFlush(c) \/ (c = Owner /\ DropFlush)
    <3>1. Flush(c) \in Op /\ IsCall(Flush(c)) /\ ~IsWrite(Flush(c)) /\ Flush(c).by = c
      BY DEF Flush, Op, IsCall, IsWrite
    <3>2. submitted' = submitted /\ submitted' \in 0 .. MaxWrites
      BY <2>2 DEF Inv, TypeOK, CallFlush, DropFlush
    <3>3. Send(Flush(c)) /\ waiting' = [waiting EXCEPT ![c] = IF Listening THEN submitted' ELSE Free]
      BY <2>2, <3>2 DEF CallFlush, DropFlush
    <3> QED BY <3>1, <3>2, <3>3
  <2> QED BY <2>1, <2>2
<1>3. profile' \in {profile, "flushing"}
  BY DEF CallWriteSync, CallFlush, DropFlush
<1>4. TypeOK'
  <2>1. queue' \in Seq(Op)
    BY <1>2, AppendFacts DEF Inv, TypeOK, Send
  <2>2. waiting' \in [Thread -> (0 .. MaxWrites) \cup {Free}]
    BY <1>2 DEF Inv, TypeOK
  <2> QED BY <1>1, <1>2, <1>3, <2>1, <2>2 DEF Inv, TypeOK
<1>5. QueueInv'
  <2>1. CASE Listening
    BY <1>1, <1>2, <2>1, CallInv DEF Inv, Send
  <2>2. CASE ~Listening
    <3>1. queue' = queue /\ waiting' = waiting
      BY <1>2, <2>2 DEF Inv, TypeOK, Send
    <3>2. writer = "panicked" /\ queue = <<>>
      BY <2>2 DEF Inv, TypeOK, WriterLast, Listening
    <3>3. AppliedInOrder'
      BY <1>1, <1>2, QueueFacts DEF Inv, QueueInv, AppliedInOrder
    <3>4. QueuedInOrder' /\ NothingMissing' /\ OneCallEach' /\ CallsServed'
      BY <1>1, <3>1, <3>2 DEF Inv, QueueInv, QueuedInOrder, NothingMissing, OneCallEach, CallsServed
    <3> QED BY <3>3, <3>4 DEF QueueInv
  <2> QED BY <2>1, <2>2
<1>6. WriterLast'
  BY <1>1, <1>2, <1>3 DEF Inv, Send, Listening, WriterLast
<1>7. OwnerWaitsInDrop'
  <2>1. c # Owner => waiting'[Owner] = waiting[Owner] /\ profile' = profile
    BY <1>2 DEF Inv, TypeOK, Thread, CallWriteSync, CallFlush
  <2> QED BY <2>1 DEF Inv, OwnerWaitsInDrop
<1> QED BY <1>4, <1>5, <1>6, <1>7 DEF Inv

\* The oldest operation leaves the channel; a write is the next of the database.
LEMMA WriterStepInv ==
  ASSUME Inv, WriterStep
  PROVE  Inv'
<1> DEFINE op == Head(queue)
<1>1. /\ writer = "running" /\ queue # <<>> /\ queue' = Tail(queue)
      /\ applied' = IF IsWrite(op) THEN Append(applied, op.n) ELSE applied
      /\ waiting' = IF IsCall(op) THEN [waiting EXCEPT ![op.by] = Free] ELSE waiting
      /\ UNCHANGED <<submitted, holders, retention, profile, writer>>
  BY DEF WriterStep, Answered, IsWrite, IsCall
<1>2. /\ op \in Op /\ op = queue[1] /\ 1 \in DOMAIN queue
      /\ queue' \in Seq(Op)
      /\ DOMAIN queue = 1 .. Len(queue) /\ DOMAIN queue' = 1 .. Len(queue) - 1
      /\ \A i \in DOMAIN queue' : i + 1 \in DOMAIN queue /\ queue'[i] = queue[i + 1]
      /\ IsWrite(op) => op.n = Len(applied) + 1
  BY <1>1, HeadFacts DEF Inv
<1>3. /\ IsWrite(op) => op.n \in Number
      /\ IsCall(op) => op.by \in Thread
  BY <1>2, OpFacts
<1> HIDE DEF op
<1>4. /\ Len(applied) \in Nat /\ submitted \in Nat /\ applied \in Seq(Number)
      /\ Len(applied') = (IF IsWrite(op) THEN Len(applied) + 1 ELSE Len(applied))
      /\ applied' \in Seq(Number)
      /\ \A n \in DOMAIN applied' :
           applied'[n] = IF n \in DOMAIN applied THEN applied[n] ELSE op.n
      /\ \A n \in DOMAIN applied' : n \in DOMAIN applied \/ (IsWrite(op) /\ n = Len(applied) + 1)
  BY <1>1, <1>3, NumberFacts DEF Inv, TypeOK
<1>5. TypeOK'
  BY <1>1, <1>2, <1>3, <1>4 DEF Inv, TypeOK
<1>6. AppliedInOrder'
  <2>1. IsWrite(op) => Len(applied) + 1 <= submitted
    BY <1>2 DEF Inv, QueueInv, QueuedInOrder
  <2> QED BY <1>1, <1>2, <1>4, <2>1 DEF Inv, QueueInv, AppliedInOrder
<1>7. QueuedInOrder'
  <2>1. ASSUME NEW i \in DOMAIN queue', IsWrite(queue'[i])
        PROVE  Len(applied') < queue'[i].n /\ queue'[i].n <= submitted'
    <3>1. /\ i + 1 \in DOMAIN queue /\ queue'[i] = queue[i + 1] /\ 1 < i + 1
          /\ Len(applied) < queue[i + 1].n /\ queue[i + 1].n <= submitted /\ queue[i + 1].n \in Nat
      BY <1>2, <2>1, QueueFacts DEF Inv, QueueInv, QueuedInOrder
    <3>2. IsWrite(op) => op.n < queue[i + 1].n
      BY <1>2, <2>1, <3>1 DEF Inv, QueueInv, QueuedInOrder
    <3> QED BY <1>1, <1>2, <1>4, <3>1, <3>2
  <2>2. ASSUME NEW i \in DOMAIN queue', NEW j \in DOMAIN queue',
               i < j, IsWrite(queue'[i]), IsWrite(queue'[j])
        PROVE  queue'[i].n < queue'[j].n
    <3>1. i + 1 < j + 1
      BY <1>2, <2>2, QueueFacts DEF Inv
    <3> QED BY <1>2, <2>2, <3>1 DEF Inv, QueueInv, QueuedInOrder
  <2> QED BY <2>1, <2>2 DEF QueuedInOrder
<1>8. NothingMissing'
  <2>1. SUFFICES ASSUME NEW n \in Number, Len(applied') < n, n <= submitted
                 PROVE  \E i \in DOMAIN queue' : IsWrite(queue'[i]) /\ queue'[i].n = n
    BY <1>1 DEF NothingMissing
  <2>2. Len(applied) < n /\ (IsWrite(op) => op.n # n)
    BY <1>2, <1>4, <2>1, NumberFacts
  <2>3. PICK i \in DOMAIN queue : IsWrite(queue[i]) /\ queue[i].n = n
    BY <1>1, <2>1, <2>2 DEF Inv, QueueInv, NothingMissing
  <2>4. i # 1 /\ i - 1 \in DOMAIN queue' /\ i - 1 + 1 = i
    BY <1>2, <2>2, <2>3, QueueFacts DEF Inv
  <2> QED BY <1>2, <2>3, <2>4
<1>9. CallsServed' /\ OneCallEach'
  <2>1. \A c \in Thread : waiting'[c] = IF IsCall(op) /\ c = op.by THEN Free ELSE waiting[c]
    BY <1>1, <1>3 DEF Inv, TypeOK
  <2>2. ASSUME NEW c \in Thread, waiting'[c] # Free
        PROVE  waiting'[c] <= submitted' /\ \E i \in DOMAIN queue' : Serves(i, c)'
    <3>1. waiting'[c] = waiting[c] /\ waiting[c] # Free /\ ~(IsCall(op) /\ c = op.by)
      BY <2>1, <2>2
    <3>2. PICK i \in DOMAIN queue : Serves(i, c)
      BY <3>1 DEF Inv, QueueInv, CallsServed
    <3>3. i # 1
      BY <1>2, <3>1, <3>2 DEF Serves
    <3>4. PICK k \in Nat : k = i - 1 /\ k \in DOMAIN queue' /\ k + 1 = i
      BY <1>2, <3>3, QueueFacts DEF Inv
    <3>5. \A j \in DOMAIN queue' : k < j => i < j + 1
      BY <1>2, <3>4, QueueFacts DEF Inv
    <3>6. Serves(k, c)'
      BY <1>2, <3>1, <3>2, <3>4, <3>5 DEF Serves
    <3> QED BY <1>1, <3>1, <3>4, <3>6 DEF Inv, QueueInv, CallsServed
  <2>3. ASSUME NEW i \in DOMAIN queue', IsCall(queue'[i])
        PROVE  waiting'[queue'[i].by] # Free
    <3>1. /\ i + 1 \in DOMAIN queue /\ queue'[i] = queue[i + 1] /\ i + 1 # 1
          /\ queue[i + 1].by \in Thread
      BY <1>2, <2>3, QueueFacts DEF Inv
    <3>2. IsCall(op) => queue[i + 1].by # op.by
      BY <1>2, <2>3, <3>1 DEF Inv, QueueInv, OneCallEach
    <3> QED BY <2>1, <2>3, <3>1, <3>2 DEF Inv, QueueInv, OneCallEach
  <2>4. ASSUME NEW i \in DOMAIN queue', NEW j \in DOMAIN queue',
               IsCall(queue'[i]), IsCall(queue'[j]), queue'[i].by = queue'[j].by
        PROVE  i = j
    <3>1. i + 1 = j + 1
      BY <1>2, <2>4 DEF Inv, QueueInv, OneCallEach
    <3> QED BY <1>2, <3>1, QueueFacts DEF Inv
  <2> QED BY <2>2, <2>3, <2>4 DEF CallsServed, OneCallEach
<1>10. WriterLast'
  BY <1>1 DEF Inv, WriterLast
<1>11. OwnerWaitsInDrop'
  BY <1>1, <1>3 DEF Inv, TypeOK, Thread, OwnerWaitsInDrop
<1> QED BY <1>5, <1>6, <1>7, <1>8, <1>9, <1>10, <1>11 DEF Inv, QueueInv

\* A write that panics takes the queue along and lets everybody go.
LEMMA PanicInv ==
  ASSUME Inv, WriterPanics
  PROVE  Inv'
<1>1. /\ queue' = <<>> /\ DOMAIN queue' = {} /\ queue' \in Seq(Op)
      /\ writer' = "panicked" /\ writer = "running"
      /\ waiting' = [c \in Thread |-> Free]
      /\ UNCHANGED <<submitted, applied, holders, retention, profile>>
  BY DEF WriterPanics, Inv, TypeOK
<1>2. TypeOK'
  BY <1>1 DEF Inv, TypeOK
<1>3. QueueInv'
  BY <1>1 DEF Inv, QueueInv, AppliedInOrder, QueuedInOrder, NothingMissing, CallsServed, OneCallEach
<1>4. WriterLast' /\ OwnerWaitsInDrop'
  BY <1>1 DEF WriterLast, OwnerWaitsInDrop, Thread
<1> QED BY <1>2, <1>3, <1>4 DEF Inv

\* Steps of the threads that end, of the drop and of the writer at its end leave
\* the channel alone.
LEMMA EndsInv ==
  ASSUME Inv,
         \/ \E h \in Holder : HolderEnds(h)
         \/ RetentionEnds
         \/ WriterEnds
         \/ DropRetention \/ DropSender \/ DropJoin
         \/ UNCHANGED vars
  PROVE  Inv'
<1>1. /\ UNCHANGED <<queue, submitted, applied, waiting>>
      /\ writer' = writer \/ (writer = "running" /\ writer' = "ended")
  BY DEF HolderEnds, RetentionEnds, WriterEnds, DropRetention, DropSender, DropJoin, vars
<1>2. TypeOK'
  <2>1. holders' \subseteq holders /\ retention' \in {retention, "stop", "ended"}
    BY DEF HolderEnds, RetentionEnds, WriterEnds, DropRetention, DropSender, DropJoin, vars
  <2>2. profile' \in {profile, "stopping", "join", "closed"}
    BY DEF HolderEnds, RetentionEnds, WriterEnds, DropRetention, DropSender, DropJoin, vars
  <2> QED BY <1>1, <2>1, <2>2 DEF Inv, TypeOK
<1>3. QueueInv'
  <2>1. AppliedInOrder' /\ QueuedInOrder' /\ NothingMissing'
    BY <1>1 DEF Inv, QueueInv, AppliedInOrder, QueuedInOrder, NothingMissing
  <2>2. CallsServed' /\ OneCallEach'
    BY <1>1 DEF Inv, QueueInv, CallsServed, OneCallEach, Serves
  <2> QED BY <2>1, <2>2 DEF QueueInv
<1>4. WriterLast' /\ OwnerWaitsInDrop'
  <2>1. CASE \E h \in Holder : HolderEnds(h)
    BY <2>1 DEF Inv, WriterLast, OwnerWaitsInDrop, HolderEnds
  <2>2. CASE RetentionEnds
    BY <2>2 DEF Inv, WriterLast, OwnerWaitsInDrop, RetentionEnds
  <2>3. CASE WriterEnds
    <3>1. holders = {} /\ retention = "ended" /\ profile \in {"join", "closed"}
      BY <2>3 DEF WriterEnds, Senders
    <3> QED BY <2>3, <3>1 DEF Inv, WriterLast, OwnerWaitsInDrop, WriterEnds
  <2>4. CASE DropRetention
    BY <2>4 DEF Inv, WriterLast, OwnerWaitsInDrop, DropRetention
  <2>5. CASE DropSender
    BY <2>5 DEF Inv, WriterLast, OwnerWaitsInDrop, DropSender
  <2>6. CASE DropJoin
    BY <2>6 DEF Inv, WriterLast, OwnerWaitsInDrop, DropJoin
  <2>7. CASE UNCHANGED vars
    BY <2>7 DEF Inv, WriterLast, OwnerWaitsInDrop, vars
  <2> QED BY <2>1, <2>2, <2>3, <2>4, <2>5, <2>6, <2>7
<1> QED BY <1>2, <1>3, <1>4 DEF Inv

\* Who calls in a state of the profile that allows it finds no writer that ended.
LEMMA CallersFindWriter ==
  ASSUME Inv
  PROVE  /\ \A c \in Client : ClientCall(c) => writer # "ended" /\ c \in Thread /\ c # Owner
         /\ \A h \in Holder : HolderSubmit(h) => writer # "ended"
         /\ RetentionPrunes => writer # "ended"
         /\ DropFlush => writer # "ended" /\ waiting[Owner] = Free /\ Owner \in Thread
  BY OwnerIsNoClient
  DEF Inv, WriterLast, OwnerWaitsInDrop, Thread, ClientCall, HolderSubmit, RetentionPrunes, DropFlush

LEMMA NextInv == Inv /\ [Next]_vars => Inv'
<1> SUFFICES ASSUME Inv, [Next]_vars PROVE Inv'
  OBVIOUS
<1>1. ASSUME NEW c \in Client, ClientCall(c) PROVE Inv'
  <2>1. writer # "ended" /\ c \in Thread /\ c # Owner /\ waiting[c] = Free
    BY <1>1, CallersFindWriter DEF ClientCall
  <2>2. Submit \/ CallWriteSync(c) \/ CallFlush(c)
    BY <1>1 DEF ClientCall
  <2> QED BY <2>1, <2>2, SubmitTotal, CallTotal
<1>2. ASSUME NEW h \in Holder, HolderSubmit(h) PROVE Inv'
  BY <1>2, CallersFindWriter, SubmitTotal DEF HolderSubmit
<1>3. CASE RetentionPrunes
  BY <1>3, CallersFindWriter, SubmitTotal DEF RetentionPrunes
<1>4. CASE DropFlush
  <2>1. profile' = "flushing"
    BY <1>4 DEF DropFlush
  <2> QED BY <1>4, <2>1, CallersFindWriter, CallTotal
<1>5. CASE WriterStep
  BY <1>5, WriterStepInv
<1>6. CASE WriterPanics
  BY <1>6, PanicInv
<1>7. CASE \/ \E h \in Holder : HolderEnds(h)
           \/ RetentionEnds
           \/ WriterEnds
           \/ DropRetention \/ DropSender \/ DropJoin
           \/ UNCHANGED vars
  BY <1>7, EndsInv
<1> QED BY <1>1, <1>2, <1>3, <1>4, <1>5, <1>6, <1>7 DEF Next, DropStep
-----------------------------------------------------------------------------
\* When the profile is closed and no write panicked, the channel has been emptied.
LEMMA DrainsInv == Inv => DropDrains
<1> SUFFICES ASSUME Inv, profile = "closed", writer # "panicked"
             PROVE  applied = [n \in 1 .. submitted |-> n]
  BY DEF Inv, DropDrains
<1>1. DOMAIN queue = {}
  <2>1. queue = <<>>
    BY DEF Inv, TypeOK, WriterLast
  <2> QED BY <2>1
<1>2. Len(applied) \in Nat /\ submitted \in 0 .. MaxWrites /\ Len(applied) <= submitted
  BY DEF Inv, TypeOK, QueueInv, AppliedInOrder
<1>3. Len(applied) = submitted
  <2>1. CASE Len(applied) < submitted
    <3>1. submitted \in Number /\ submitted <= submitted
      BY <1>2, <2>1 DEF Number
    <3> QED BY <1>1, <2>1, <3>1 DEF Inv, QueueInv, NothingMissing
  <2> QED BY <1>2, <2>1, MaxWritesIsPos
<1>4. applied \in [1 .. submitted -> Number]
  BY <1>3 DEF Inv, TypeOK
<1> QED BY <1>4 DEF Inv, QueueInv, AppliedInOrder

\* Dropping the profile (writer.rs, Drop for StorageWriter) loses no write that
\* anybody submitted, unless a write took the writer thread along.
THEOREM NoWriteIsLost == Spec => []DropDrains
<1>1. Spec => []Inv
  BY InitInv, NextInv, PTL DEF Spec
<1> QED BY <1>1, DrainsInv, PTL
-----------------------------------------------------------------------------
(***************************************************************************)
(* Refinement                                                              *)
(***************************************************************************)

\* A call that begins is one of the store, unless there is no writer.
LEMMA CallMaps ==
  ASSUME Inv, NEW c \in Thread, waiting[c] = Free,
         CallWriteSync(c) \/ CallFlush(c) \/ (c = Owner /\ DropFlush)
  PROVE  Store!Wait(c) \/ Store!Submit \/ UNCHANGED Store!vars
<1>1. UNCHANGED <<applied, writer>> /\ submitted' \in {submitted, submitted + 1}
  BY DEF CallWriteSync, CallFlush, DropFlush
<1>2. CASE Listening
  <2>1. waiting' = [waiting EXCEPT ![c] = submitted']
    BY <1>2 DEF CallWriteSync, CallFlush, DropFlush
  <2> QED BY <1>1, <1>2, <2>1 DEF Store!Wait, Listening
<1>3. CASE ~Listening
  <2>1. waiting' = waiting
    BY <1>3 DEF Inv, TypeOK, CallWriteSync, CallFlush, DropFlush
  <2> QED BY <1>1, <2>1 DEF Store!Submit, Store!vars
<1> QED BY <1>2, <1>3

\* What the writer takes from the channel is what the store is at.
LEMMA WriterStepMaps ==
  ASSUME Inv, WriterStep
  PROVE  \/ Store!Apply
         \/ \E c \in Thread : Store!Return(c) \/ Store!ApplyAndReturn(c)
<1> DEFINE op == Head(queue)
<1>1. /\ writer = "running" /\ queue # <<>>
      /\ applied' = IF IsWrite(op) THEN Append(applied, op.n) ELSE applied
      /\ waiting' = IF IsCall(op) THEN [waiting EXCEPT ![op.by] = Free] ELSE waiting
      /\ UNCHANGED <<submitted, writer>>
  BY DEF WriterStep, Answered, IsWrite, IsCall
<1>2. /\ op \in Op /\ op = queue[1] /\ 1 \in DOMAIN queue
      /\ IsWrite(op) => op.n = Len(applied) + 1
      /\ ~IsWrite(op) => waiting[op.by] <= Len(applied)
  BY <1>1, HeadFacts DEF Inv
<1>3. IsWrite(op) => Len(applied) + 1 <= submitted
  BY <1>2 DEF Inv, QueueInv, QueuedInOrder
<1>4. IsCall(op) => op.by \in Thread /\ waiting[op.by] # Free
  BY <1>2, OpFacts DEF Inv, QueueInv, OneCallEach
<1>5. IsWrite(op) \/ IsCall(op)
  BY DEF IsWrite, IsCall
<1> HIDE DEF op
<1>6. CASE IsWrite(op) /\ ~IsCall(op)
  BY <1>1, <1>2, <1>3, <1>6 DEF Store!Apply, Store!Oldest
<1>7. CASE ~IsWrite(op)
  <2>1. Store!Return(op.by)
    BY <1>1, <1>2, <1>4, <1>5, <1>7 DEF Store!Return
  <2> QED BY <1>4, <1>5, <1>7, <2>1
<1>8. CASE IsWrite(op) /\ IsCall(op)
  <2>1. PICK i \in DOMAIN queue : Serves(i, op.by)
    BY <1>4, <1>8 DEF Inv, QueueInv, CallsServed
  <2>2. i = 1
    BY <1>2, <1>8, <2>1 DEF Serves, Inv, QueueInv, OneCallEach
  <2>3. waiting[op.by] = Len(applied) + 1
    BY <1>2, <1>8, <2>1, <2>2 DEF Serves
  <2>4. Store!ApplyAndReturn(op.by)
    BY <1>1, <1>2, <1>8, <2>3 DEF Store!ApplyAndReturn, Store!Oldest
  <2> QED BY <1>4, <1>8, <2>4
<1> QED BY <1>5, <1>6, <1>7, <1>8

\* A write that nobody waits for, to a writer or to none
LEMMA SubmitMaps == Submit => Store!Submit
  BY DEF Submit, Store!Submit

LEMMA StepMaps == Inv /\ [Next]_vars => [Store!Next]_(Store!vars)
<1> SUFFICES ASSUME Inv, [Next]_vars PROVE Store!Next \/ UNCHANGED Store!vars
  OBVIOUS
<1>1. ASSUME NEW c \in Client, ClientCall(c) PROVE Store!Next \/ UNCHANGED Store!vars
  <2>1. c \in Thread /\ waiting[c] = Free
    BY <1>1 DEF ClientCall, Thread
  <2>2. Submit \/ CallWriteSync(c) \/ CallFlush(c)
    BY <1>1 DEF ClientCall
  <2> QED BY <2>1, <2>2, SubmitMaps, CallMaps DEF Store!Next
<1>2. CASE (\E h \in Holder : HolderSubmit(h)) \/ RetentionPrunes
  BY <1>2, SubmitMaps DEF HolderSubmit, RetentionPrunes, Store!Next
<1>3. CASE DropFlush
  BY <1>3, CallersFindWriter, CallMaps DEF Store!Next
<1>4. CASE WriterStep
  BY <1>4, WriterStepMaps DEF Store!Next
<1>5. CASE WriterPanics
  <2>1. waiting' = [c \in Thread |-> Free]
    BY <1>5 DEF WriterPanics, Inv, TypeOK
  <2>2. Store!Fail
    BY <1>5, <2>1 DEF WriterPanics, Store!Fail
  <2> QED BY <2>2 DEF Store!Next
<1>6. CASE \/ \E h \in Holder : HolderEnds(h)
           \/ RetentionEnds
           \/ WriterEnds
           \/ DropRetention \/ DropSender \/ DropJoin
           \/ UNCHANGED vars
  BY <1>6 DEF HolderEnds, RetentionEnds, WriterEnds, DropRetention, DropSender, DropJoin,
              vars, Store!vars
<1> QED BY <1>1, <1>2, <1>3, <1>4, <1>5, <1>6 DEF Next, DropStep

LEMMA InitMaps == Init => Store!Init
  BY DEF Init, Thread, Store!Init

\* The writer thread, the channel and the calls of writer.rs implement the ordered
\* store, for any number of threads and writes.
THEOREM WriterImplementsStore == Spec => ImplementsStore
<1>1. Spec => []Inv
  BY InitInv, NextInv, PTL DEF Spec
<1> QED BY <1>1, InitMaps, StepMaps, PTL DEF Spec, ImplementsStore, Store!Spec
=============================================================================
