-------------------------- MODULE MCContentBlocking --------------------------
(***************************************************************************)
(* Two versions of the lists, hosts of one, two and three labels, and one  *)
(* thread that flushes beside the main thread, or none.                    *)
(***************************************************************************)
EXTENDS ContentBlocking
CONSTANTS www, news, org, worker
Hosts == {<<org>>, <<news, org>>, <<www, news, org>>, <<www, org>>}
OneSite == {<<news, org>>}
NoSite == {}
OneFlusher == {worker}
NoFlusher == {}
DiskAndInput == {"disk", "input"}
NoFaults == {}

SwitchAtRest == ~OnItsWay /\ setting = saved /\ mirror = saved /\ ~overtaken
Untouched == installed = 1 /\ refused = {} /\ exceptions = <<>> /\ toggles = <<>>

\* Bound: settings change under the first lists, before a write of the cache is
\* refused or a site toggled; that happens while the switch is at rest.
OnePartAtATime ==
  /\ (installed' # installed \/ refused' # refused \/ Len(toggles') > Len(toggles))
       => SwitchAtRest
  /\ (Running /\ Running' /\ (setting' # setting \/ Len(pending') > Len(pending)))
       => Untouched
=============================================================================
