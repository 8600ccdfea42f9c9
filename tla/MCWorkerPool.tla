---------------------------- MODULE MCWorkerPool ----------------------------
(***************************************************************************)
(* The owner and two workers: the least with which a thread can leave the  *)
(* vector while another one scans it and a third one sleeps.               *)
(***************************************************************************)
EXTENDS WorkerPool
=============================================================================
