------------------------------ MODULE MCWorker ------------------------------
(***************************************************************************)
(* Instances of Worker for TLC.  e1 and e2 carry the same job id, as when  *)
(* the cloud retries a job in a new envelope.                              *)
(***************************************************************************)
EXTENDS Worker

CONSTANTS e1, e2, j1

SameJob == [m \in Envelope |-> j1]

(* The windows of e1 and its retry e2 meet, so that two calls can race for *)
(* the job, and end more than the retention time apart.                    *)
Sealed == [m \in Envelope |-> IF m = e2 THEN 3 ELSE 1]

(* e2 names no agent; e1 expires before its window closes. *)
SomeBlank == [m \in Envelope |-> IF m = e2 THEN "blank" ELSE "this"]
SomeExpire == [m \in Envelope |-> IF m = e1 THEN 1 ELSE MaxTime + 1]
=============================================================================
