----------------------------- MODULE ServoEngine -----------------------------
(***************************************************************************)
(* The scaffold backend of the engine trait (src/crates/blaze-engine-servo/*)
(* src/lib.rs): loads advance one stage per pump, history is two stacks.   *)
(* The owner calls it from one thread. Titles, popups, what is blocked and *)
(* the draining of events are left out: `events` is all that was queued.   *)
(***************************************************************************)
EXTENDS Naturals, Sequences, SequencesExt

CONSTANTS
  Url,           \* pages
  NoUrl,         \* Option::None
  NoLoad         \* no pending load

ASSUME NoUrlIsNone == NoUrl \notin Url

Load == [url : Url, stage : {"started", "committed"}, from_history : BOOLEAN]

ASSUME NoLoadIsNone == NoLoad \notin Load

VARIABLES
  engine,        \* the fields of ServoEngine
  events,        \* EngineEvents, oldest first
  trail          \* history: the entries the user went through, where he is, and
                 \* whether no history move was cut short

simVars == <<engine, events, trail>>

SimTypeOK ==
  /\ engine.pending \in Load \cup {NoLoad}
  /\ engine.current \in Url \cup {NoUrl}
  /\ engine.back_stack \in Seq(Url) /\ engine.forward_stack \in Seq(Url)
  /\ engine.muted \in BOOLEAN /\ engine.suspended \in BOOLEAN
  /\ engine.suspended => engine.pending = NoLoad
  /\ trail.entries \in Seq(Url) /\ trail.cursor \in 0 .. Len(trail.entries)

SimInit ==
  /\ engine = [pending |-> NoLoad, current |-> NoUrl, back_stack |-> <<>>,
               forward_stack |-> <<>>, muted |-> FALSE, suspended |-> FALSE]
  /\ events = <<>>
  /\ trail = [entries |-> <<>>, cursor |-> 0, intact |-> TRUE]

Event(kind, u) == [kind |-> kind, url |-> u]
Audio(muted) == [kind |-> IF muted THEN "muted" ELSE "silent", url |-> NoUrl]

(***************************************************************************)
(* History variable                                                        *)
(***************************************************************************)

MovesHistory == engine.pending # NoLoad /\ engine.pending.from_history

\* What happens cuts short a history move, whose entry is on no stack.
CutShort == [trail EXCEPT !.intact = @ /\ ~MovesHistory]

Visit(tr, u) ==
  [tr EXCEPT !.entries = Append(SubSeq(tr.entries, 1, tr.cursor), u), !.cursor = @ + 1]

(***************************************************************************)
(* The trait                                                               *)
(***************************************************************************)

BeginLoad(e, u, fromHistory) ==
  /\ engine' = [e EXCEPT !.suspended = FALSE,
                         !.pending = [url |-> u, stage |-> "started", from_history |-> fromHistory]]
  /\ events' = Append(events, Event("started", u))

SimNavigate(u) == BeginLoad(engine, u, FALSE) /\ trail' = CutShort

Push(stack, u) == IF u = NoUrl THEN stack ELSE Append(stack, u)

SimGoBack ==
  IF engine.back_stack = <<>> THEN UNCHANGED simVars
  ELSE /\ BeginLoad([engine EXCEPT !.back_stack = Front(@), !.current = NoUrl,
                                   !.forward_stack = Push(@, engine.current)],
                    Last(engine.back_stack), TRUE)
       /\ trail' = [CutShort EXCEPT !.cursor = IF @ > 1 THEN @ - 1 ELSE @]

\* Mutant: the page that is left is forgotten.
SimGoForwardForgets ==
  IF engine.forward_stack = <<>> THEN UNCHANGED simVars
  ELSE /\ BeginLoad([engine EXCEPT !.forward_stack = Front(@), !.current = NoUrl],
                    Last(engine.forward_stack), TRUE)
       /\ trail' = [CutShort EXCEPT !.cursor = IF @ < Len(trail.entries) THEN @ + 1 ELSE @]

SimGoForward ==
  IF engine.forward_stack = <<>> THEN UNCHANGED simVars
  ELSE /\ BeginLoad([engine EXCEPT !.forward_stack = Front(@), !.current = NoUrl,
                                   !.back_stack = Push(@, engine.current)],
                    Last(engine.forward_stack), TRUE)
       /\ trail' = [CutShort EXCEPT !.cursor = IF @ < Len(trail.entries) THEN @ + 1 ELSE @]

SimReload ==
  IF engine.current = NoUrl THEN UNCHANGED simVars
  ELSE /\ BeginLoad([engine EXCEPT !.current = NoUrl], engine.current, TRUE)
       /\ trail' = CutShort

SimStop ==
  /\ engine' = [engine EXCEPT !.pending = NoLoad]
  /\ trail' = CutShort
  /\ UNCHANGED events

SimSetMuted(muted) ==
  /\ engine' = [engine EXCEPT !.muted = muted]
  /\ events' = IF engine.muted = muted THEN events ELSE Append(events, Audio(muted))
  /\ UNCHANGED trail

SimSuspend ==
  /\ engine' = [engine EXCEPT !.pending = NoLoad, !.suspended = TRUE]
  /\ trail' = CutShort
  /\ UNCHANGED events

\* The page that was current is still there, and goes on the back stack when the
\* load ends: the history holds it twice.
SimResume(u) ==
  /\ BeginLoad(engine, u, TRUE)
  /\ trail' = [CutShort EXCEPT !.intact = @ /\ engine.current = NoUrl /\ trail.entries = <<>>]

(***************************************************************************)
(* pump                                                                    *)
(***************************************************************************)

\* The page source has no such page.
PumpFails ==
  /\ engine.pending # NoLoad /\ engine.pending.stage = "started"
  /\ engine' = [engine EXCEPT !.pending = NoLoad]
  /\ events' = Append(events, Event("failed", engine.pending.url))
  /\ trail' = CutShort

PumpCommits ==
  /\ engine.pending # NoLoad /\ engine.pending.stage = "started"
  /\ engine' = [engine EXCEPT !.pending.stage = "committed"]
  /\ events' = Append(events, Event("committed", engine.pending.url))
  /\ UNCHANGED trail

\* Mutant: the load that ends is not taken out.
PumpFinishesAgain ==
  /\ engine.pending # NoLoad /\ engine.pending.stage = "committed"
  /\ LET u == engine.pending.url
     IN  /\ engine' = [engine EXCEPT
                         !.current = u, !.back_stack = Push(@, engine.current),
                         !.forward_stack = IF engine.pending.from_history THEN @ ELSE <<>>]
         /\ events' = Append(events, Event("finished", u))
         /\ trail' = IF engine.pending.from_history /\ trail.entries # <<>> THEN trail
                     ELSE Visit(trail, u)

PumpFinishes ==
  /\ engine.pending # NoLoad /\ engine.pending.stage = "committed"
  /\ LET u == engine.pending.url
     IN  /\ engine' = [engine EXCEPT
                         !.pending = NoLoad,
                         !.current = u, !.back_stack = Push(@, engine.current),
                         !.forward_stack = IF engine.pending.from_history THEN @ ELSE <<>>]
         /\ events' = Append(events, Event("finished", u))
         /\ trail' = IF engine.pending.from_history /\ trail.entries # <<>> THEN trail
                     ELSE Visit(trail, u)

Pump == PumpFails \/ PumpCommits \/ PumpFinishes
-----------------------------------------------------------------------------
\* Stacks and current page are one linear history, as a tab's TabHistory is,
\* whatever navigations fail, are stopped or superseded: until a history move is
\* itself cut short, or a view is resumed.
HistoryIsLinear ==
  (trail.intact /\ ~MovesHistory) =>
    /\ engine.back_stack = SubSeq(trail.entries, 1, trail.cursor - 1)
    /\ engine.current = IF trail.entries = <<>> THEN NoUrl ELSE trail.entries[trail.cursor]
    /\ engine.forward_stack = Reverse(SubSeq(trail.entries, trail.cursor + 1, Len(trail.entries)))

\* The events of some kinds, in their order; kept[n] are those of the first n.
OfKind(queue, kinds) ==
  LET kept[n \in 0 .. Len(queue)] ==
        IF n = 0 THEN <<>>
        ELSE IF queue[n].kind \in kinds THEN Append(kept[n - 1], queue[n]) ELSE kept[n - 1]
  IN  kept[Len(queue)]
NavigationsIn(queue) == OfKind(queue, {"started", "committed", "finished", "failed"})

\* The event contract of the trait, for a queue of either backend: a commit
\* follows the start of its load, a success its commit, a failure its start -
\* so every load finishes at most once, and none that was stopped or superseded.
KeepsContract(queue) ==
  LET said == NavigationsIn(queue)
      After(i, kind) == i > 1 /\ said[i - 1] = Event(kind, said[i].url)
  IN  \A i \in DOMAIN said :
        CASE said[i].kind = "started" -> TRUE
          [] said[i].kind = "committed" -> After(i, "started")
          [] said[i].kind = "finished" -> After(i, "committed")
          [] said[i].kind = "failed" -> After(i, "started")
=============================================================================
