--------------------------- MODULE MCWorkerProcess ---------------------------
(* Small instances of WorkerProcess: two loops that share one OCR slot, with *)
(* or without room to wait for it.                                           *)
EXTENDS WorkerProcess

MCRooms == {0, 1}
=============================================================================
