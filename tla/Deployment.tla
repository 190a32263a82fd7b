----------------------------- MODULE Deployment -----------------------------
(***************************************************************************)
(* What every part of teller shares: the notifications of a run, the       *)
(* worker processes, and the budget of environment faults.                 *)
(*                                                                         *)
(* A worker process takes a fresh identity each time it starts (host name  *)
(* plus eight characters of a UUID), so a process that is restarted after  *)
(* a crash is simply another member of Workers: one that has done nothing  *)
(* yet.                                                                    *)
(***************************************************************************)
EXTENDS Integers, FiniteSets

CONSTANTS
    Notifications,   \* the notifications some client asks for
    NoNotification,  \* "handles no notification"
    Workers,         \* the worker processes, one member per process start
    NoWorker,        \* processing_worker_id NULL (or '', gorm reads both as "")
    MaxFaults        \* bound: how many faults the environment may inject

ASSUME DeploymentAssumption ==
    /\ IsFiniteSet(Workers)
    /\ NoWorker \notin Workers
    /\ NoNotification \notin Notifications
    /\ MaxFaults \in Nat

VARIABLE faults      \* how many faults happened so far

(***************************************************************************)
(* A fault: an error returned by PostgreSQL or NATS, a process killed, a   *)
(* process asked to stop, a deadline that expires.                         *)
(***************************************************************************)
Fault == faults < MaxFaults /\ faults' = faults + 1

=============================================================================
