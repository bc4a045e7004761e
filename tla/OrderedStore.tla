----------------------------- MODULE OrderedStore -----------------------------
(***************************************************************************)
(* What the storage writer promises its callers: writes are applied one at *)
(* a time in the order they were submitted, whoever submitted them, and a  *)
(* call that waits returns only when everything submitted before it, by    *)
(* anyone, is applied.  When the writer fails for good, what was not       *)
(* applied is lost, nothing is applied any more, and no call waits.        *)
(***************************************************************************)
EXTENDS Naturals, Sequences

CONSTANTS Client, Free

VARIABLES
  submitted,   \* how many writes were submitted: 1 .. submitted, in this order
  applied,     \* the writes applied
  barrier,     \* client |-> the writes its call waits for, or Free
  failed       \* the writer is gone for good

vars == <<submitted, applied, barrier, failed>>

Init ==
  /\ submitted \in Nat
  /\ applied = <<>>
  /\ barrier = [c \in Client |-> Free]
  /\ failed = FALSE

Submit ==
  /\ submitted' = submitted + 1
  /\ UNCHANGED <<applied, barrier, failed>>

\* The write that is next
Oldest == Len(applied) + 1

Apply ==
  /\ ~failed
  /\ Oldest <= submitted
  /\ applied' = Append(applied, Oldest)
  /\ UNCHANGED <<submitted, barrier, failed>>

\* A call begins to wait: a flush for what was submitted before, a synchronous
\* write for itself too.
Wait(c) ==
  /\ ~failed
  /\ barrier[c] = Free
  /\ submitted' \in {submitted, submitted + 1}
  /\ barrier' = [barrier EXCEPT ![c] = submitted']
  /\ UNCHANGED <<applied, failed>>

Return(c) ==
  /\ barrier[c] # Free
  /\ barrier[c] <= Len(applied)
  /\ barrier' = [barrier EXCEPT ![c] = Free]
  /\ UNCHANGED <<submitted, applied, failed>>

\* A synchronous write is applied and answered in one go.
ApplyAndReturn(c) ==
  /\ ~failed
  /\ barrier[c] = Oldest
  /\ applied' = Append(applied, Oldest)
  /\ barrier' = [barrier EXCEPT ![c] = Free]
  /\ UNCHANGED <<submitted, failed>>

Fail ==
  /\ ~failed
  /\ failed' = TRUE
  /\ barrier' = [c \in Client |-> Free]
  /\ UNCHANGED <<submitted, applied>>

Next ==
  \/ Submit
  \/ Apply
  \/ Fail
  \/ \E c \in Client : Wait(c) \/ Return(c) \/ ApplyAndReturn(c)

Spec == Init /\ [][Next]_vars
=============================================================================
