----------------------------- MODULE EngineParity -----------------------------
(***************************************************************************)
(* Both backends behind the engine trait get the same calls (what          *)
(* src/crates/blaze-engine-servo/tests/engine_parity.rs asks of a backend):*)
(* which promises of the trait hold for either, however pump, engine       *)
(* thread and calls interleave.                                            *)
(***************************************************************************)
EXTENDS EmbeddedEngine

vars == <<simVars, embVars>>

Init == SimInit /\ EmbInit

Navigate == Called /\ \E u \in Url : SimNavigate(u) /\ EmbNavigate(u)
GoBack == Called /\ SimGoBack /\ EmbSend("go_back")
GoForward == Called /\ SimGoForward /\ EmbSend("go_forward")
Reload == Called /\ SimReload /\ EmbSend("reload")
Stop == Called /\ SimStop /\ EmbStop
ApplyBlocking == Called /\ EmbApplyBlocking /\ UNCHANGED simVars
SetMuted == Called /\ \E muted \in BOOLEAN : SimSetMuted(muted) /\ EmbSetMuted(muted)
Suspend == Called /\ SimSuspend /\ EmbSuspend
Resume == Called /\ handle.suspended /\ \E u \in Url : SimResume(u) /\ EmbResume(u)

Frame == (AskFrame \/ FrameTimesOut) /\ UNCHANGED simVars
Drop == DropEngine /\ UNCHANGED simVars
Join == Joined /\ UNCHANGED simVars

\* The backends share nothing but the calls, so one order of their own steps
\* stands for all: the scaffold pumps when the engine thread has nothing to do.
Idle ==
  /\ thread # "starting" /\ commands = <<>>
  /\ webview # NoView => webview.load = "finished"
SimPump == Pump /\ Idle /\ UNCHANGED embVars
ThreadStep == (StartThread \/ HandleCommand \/ Spin) /\ UNCHANGED simVars

Next ==
  \/ Navigate \/ GoBack \/ GoForward \/ Reload \/ Stop \/ ApplyBlocking \/ SetMuted
  \/ Suspend \/ Resume \/ Frame \/ Drop \/ Join \/ SimPump \/ ThreadStep

Spec == Init /\ [][Next]_vars

\* The engine thread runs, and so does a drop that can return.
FairSpec == Spec /\ WF_vars(ThreadStep) /\ WF_vars(Join)
-----------------------------------------------------------------------------
TypeOK == SimTypeOK /\ EmbTypeOK

AudioIn(queue) == OfKind(queue, {"muted", "silent"})

\* What either backend reports of a load follows the contract, however calls cut
\* loads short; and both report the same changes of the sound, once each.
EventContract ==
  /\ TypeOK
  /\ KeepsContract(events) /\ KeepsContract(shared.events)
  /\ AudioIn(events) = AudioIn(shared.events)
  /\ engine.muted = shared.muted
=============================================================================
