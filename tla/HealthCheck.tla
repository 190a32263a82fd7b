---------------------------- MODULE HealthCheck ----------------------------
(***************************************************************************)
(* HealthzCheck (pkg/healthcheck/service.go): pings every data source of   *)
(* the service, more than one of them each in a goroutine that sends its   *)
(* error to a buffered channel, waits for all and collects the errors.     *)
(***************************************************************************)
EXTENDS Naturals, FiniteSets

CONSTANT Sources

ASSUME HealthAssumption == IsFiniteSet(Sources)

VARIABLES
    ds,         \* the data sources of the service
    check,      \* where HealthzCheck stands
    ping,       \* where the goroutine of each source stands
    errsCH,     \* the channel: the sources whose error it holds
    receives,   \* receives left in the collecting loop
    errrs,      \* the errors collected
    broken      \* history: the sources whose ping returned an error

healthVars == <<ds, check, ping, errsCH, receives, errrs, broken>>

HealthInit ==
    /\ ds \in SUBSET Sources
    /\ check = "called"
    /\ ping = [z \in Sources |-> "none"]
    /\ errsCH = {} /\ receives = 0 /\ errrs = {} /\ broken = {}

(* Fault injection: the buffer holds one error. *)
SmallBuffer == 1

Buffer == Cardinality(ds)

Answered(failed) == IF failed THEN "internal" ELSE "success"

(* No source, or one: answered by the caller itself. *)
CheckDirectly ==
    /\ check = "called" /\ Cardinality(ds) <= 1
    /\ broken' \in SUBSET ds
    /\ check' = Answered(broken' # {})
    /\ UNCHANGED <<ds, ping, errsCH, receives, errrs>>

StartPings ==
    /\ check = "called" /\ Cardinality(ds) > 1
    /\ check' = "waiting"
    /\ ping' = [z \in Sources |-> IF z \in ds THEN "pinging" ELSE "none"]
    /\ receives' = Cardinality(ds)
    /\ UNCHANGED <<ds, errsCH, errrs, broken>>

Pinged(z) ==
    /\ ping[z] = "pinging"
    /\ \/ ping' = [ping EXCEPT ![z] = "done"] /\ UNCHANGED broken
       \/ ping' = [ping EXCEPT ![z] = "sending"] /\ broken' = broken \cup {z}
    /\ UNCHANGED <<ds, check, errsCH, receives, errrs>>

(* The send blocks while the buffer is full. *)
SendError(z) ==
    /\ ping[z] = "sending" /\ Cardinality(errsCH) < Buffer
    /\ errsCH' = errsCH \cup {z}
    /\ ping' = [ping EXCEPT ![z] = "done"]
    /\ UNCHANGED <<ds, check, receives, errrs, broken>>

(* Fault injection: the errors are collected without waiting. *)
WaitForNone ==
    /\ check = "waiting"
    /\ check' = "collecting"
    /\ UNCHANGED <<ds, ping, errsCH, receives, errrs, broken>>

Wait ==
    /\ check = "waiting"
    /\ \A z \in ds : ping[z] = "done"
    /\ check' = "collecting"
    /\ UNCHANGED <<ds, ping, errsCH, receives, errrs, broken>>

(* One receive per source; those that find the channel empty get nothing. *)
Collect ==
    /\ check = "collecting" /\ receives > 0
    /\ receives' = receives - 1
    /\ \/ \E z \in errsCH : errsCH' = errsCH \ {z} /\ errrs' = errrs \cup {z}
       \/ errsCH = {} /\ UNCHANGED <<errsCH, errrs>>
    /\ UNCHANGED <<ds, check, ping, broken>>

Reply ==
    /\ check = "collecting" /\ receives = 0
    /\ check' = Answered(errrs # {})
    /\ UNCHANGED <<ds, ping, errsCH, receives, errrs, broken>>

HealthNext ==
    \/ CheckDirectly \/ StartPings
    \/ \E z \in Sources : Pinged(z) \/ SendError(z)
    \/ Wait \/ Collect \/ Reply

HealthSpec == HealthInit /\ [][HealthNext]_healthVars

(* Every ping returns. *)
HealthFairness == WF_healthVars(HealthNext)
-----------------------------------------------------------------------------
HasAnswered == check \in {"success", "internal"}

(* The answer is success exactly if every source answered its ping, it     *)
(* tells every error, and no goroutine is left to send to the channel that *)
(* HealthzCheck closes as it returns.                                      *)
AnswerIsRight ==
    HasAnswered =>
        /\ check = "success" <=> broken = {}
        /\ Cardinality(ds) > 1 => errrs = broken
        /\ \A z \in Sources : ping[z] \in {"none", "done"}

(* However many pings fail, none of the goroutines blocks the answer. *)
AlwaysAnswers == <>HasAnswered

(***************************************************************************)
(* The inductive invariant: an error is told, in the channel or about to   *)
(* be sent, and nowhere twice; after the wait nobody sends any more, and   *)
(* the receives that are left suffice for the errors in the channel.       *)
(***************************************************************************)
HealthTypeOK ==
    /\ ds \in SUBSET Sources
    /\ check \in {"called", "waiting", "collecting", "success", "internal"}
    /\ ping \in [Sources -> {"none", "pinging", "sending", "done"}]
    /\ errsCH \in SUBSET ds /\ errrs \in SUBSET ds /\ broken \in SUBSET ds
    /\ receives \in Nat

Unsent == {z \in ds : ping[z] = "sending"}

ErrorsKept ==
    /\ Cardinality(ds) > 1 => broken = errsCH \cup errrs \cup Unsent
    /\ \A z \in errsCH : ping[z] = "done"
    /\ \A z \in Sources : ping[z] # "none" => z \in ds

HealthInv ==
    /\ HealthTypeOK
    /\ ErrorsKept
    /\ check = "called" => broken = {} /\ errsCH = {} /\ errrs = {}
    /\ check = "waiting" => receives = Cardinality(ds) /\ Cardinality(ds) > 1
    /\ check = "collecting" =>
          Cardinality(errsCH) <= receives /\ Cardinality(ds) > 1
    /\ check # "waiting" => \A z \in Sources : ping[z] \in {"none", "done"}
    /\ AnswerIsRight

(* A goroutine that has an error to send never waits for a receive: the    *)
(* buffer has room for the errors of all data sources.                     *)
SendNeverBlocks ==
    \A z \in Sources : ping[z] = "sending" => Cardinality(errsCH) < Buffer
=============================================================================
