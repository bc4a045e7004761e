----------------------------- MODULE MCDownloads -----------------------------
(***************************************************************************)
(* One or two downloads of a resource of two chunks, in up to two versions *)
(* told apart by their validators, or of a server that sends none.         *)
(***************************************************************************)
EXTENDS Downloads, TLC

CONSTANTS d1, d2, ui, background, worker1, worker2, v1, v2

OneDownload == {d1}
TwoDownloads == {d1, d2}
UiThread == {ui}
BackgroundThread == {background}
OneWorker == {worker1}
TwoWorkers == {worker1, worker2}
OneVersion == {v1}
TwoVersions == {v1, v2}
Distinct == [v \in Version |-> v]
FirstVersion == {v1}
NoVersion == {}
NoValidator == [v \in Version |-> None]
NetworkAndCrash == {"network", "crash"}
Network == {"network"}
Unreliable == {"network", "disk"}
NoFault == {}

\* Ids of downloads and of workers are interchangeable.
Symmetry == Permutations(DownloadId) \cup Permutations(Worker)

\* With two downloads the writer is never more than three operations behind.
ShortQueue == Len(queue) <= 3
=============================================================================
