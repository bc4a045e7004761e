--------------------------- MODULE MCStorageWriter ---------------------------
(***************************************************************************)
(* Two clients and a thread with a handle; four writes at most.            *)
(***************************************************************************)
EXTENDS StorageWriter

CONSTANTS client1, client2, worker

Clients == {client1, client2}
Holders == {worker}
=============================================================================
