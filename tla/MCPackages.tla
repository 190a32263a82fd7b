----------------------------- MODULE MCPackages -----------------------------
(***************************************************************************)
(* Instances of the shared packages for TLC: a process that publishes and  *)
(* subscribes with one of the in-memory pubsubs while it answers a health  *)
(* check.                                                                  *)
(***************************************************************************)
EXTENDS MemoryPubSub, WPubSub, HealthCheck, TLC

VARIABLE pubsub     \* the implementation the process was built with

packageVars == <<memoryVars, wpubsubVars, healthVars, pubsub>>

PackagesInit ==
    /\ MemoryInit /\ WPubSubInit /\ HealthInit
    /\ pubsub \in {"MemoryPubSub", "WPubSub"}

PackagesNext ==
    /\ \/ /\ pubsub = "MemoryPubSub" /\ MemoryNext
          /\ UNCHANGED <<wpubsubVars, healthVars>>
       \/ /\ pubsub = "WPubSub" /\ WPubSubNext
          /\ UNCHANGED <<memoryVars, healthVars>>
       \/ HealthNext /\ UNCHANGED <<memoryVars, wpubsubVars>>
    /\ UNCHANGED pubsub

PackagesSpec == PackagesInit /\ [][PackagesNext]_packageVars /\ HealthFairness
=============================================================================
