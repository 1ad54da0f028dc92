---- MODULE MCWorkerState ----
(* An instance of WorkerState for TLC. *)
EXTENDS WorkerState

\* Long before short and short before long, so that either of two progresses
\* can be the larger one.
MCTaskLens == <<2, 1, 2>>
====
