-------------------------- MODULE TellerInvariant --------------------------
(***************************************************************************)
(* The inductive invariant of Teller: the properties of TellerProperties   *)
(* and what the processes know between their steps that makes them hold.   *)
(***************************************************************************)
EXTENDS TellerProperties

(* A message waits only while a delivery is left to it. *)
BrokerInv ==
    \A n \in Notifications :
        /\ message[n] = "queued" => deliveries[n] < MaxDeliver
        /\ message[n] = "none" => deliveries[n] = 0

(* A call touches its own notifications only; their rows do not exist     *)
(* before it saved them, and do exist when it publishes them.             *)
CallInv(r) ==
    /\ unpublished[r] \subseteq Batch[r]
    /\ failing[r] \in Batch[r] \cup {NoNotification}
    /\ request[r] = "new" =>
          \A n \in Batch[r] : row[n].status = "absent" /\ claims[n] = 0
    /\ request[r] = "publishing" =>
          \A n \in Batch[r] : row[n].status # "absent"

(* A handler has a job, its goroutines run only between claim and release, *)
(* a row it claimed exists, and what it releases is a settled status.      *)
HandlerInv(w) ==
    /\ phase[w] \in {"claiming", "sending", "releasing", "acking", "naking"}
          => job[w] \in Notifications
    /\ \A d \in Destinations :
          /\ step[w][d] # "none" =>
                phase[w] = "sending" /\ d \in DestinationsOf[job[w]]
          /\ step[w][d] \in {"read", "save"} => outcome[w][d] \in Settled
    /\ phase[w] = "releasing" => final[w] \in Settled
    /\ Working(w) => row[job[w]].status # "absent"

Inv ==
    /\ TypeOK
    /\ BrokerInv
    /\ \A r \in Requests : CallInv(r)
    /\ \A w \in Workers : HandlerInv(w)
    /\ ClaimsCounted
    /\ ProcessingIsOwned

(***************************************************************************)
(* What has been delivered, as far as the copies held by the goroutines    *)
(* and the decision held by a handler tell.                                *)
(***************************************************************************)
Truthful(r, n) ==
    /\ r.status = "sent" \/ r.sentAt => Delivered(n)
    /\ \A c \in Channels : r.results[c] = "sent" => DeliveredOn(n, c)

HonestHandler(w) ==
    /\ \A d \in Destinations :
          /\ step[w][d] \in {"read", "save"} /\ outcome[w][d] = "sent"
                => sends[job[w]][d] > 0
          /\ step[w][d] = "save" => Truthful(copy[w][d], job[w])
    /\ final[w] = "sent" => phase[w] = "releasing" /\ Delivered(job[w])

DeliveryInv ==
    /\ \A n \in Notifications : Truthful(row[n], n)
    /\ \A w \in Workers : HonestHandler(w)

(***************************************************************************)
(* What ties a notification to its message, and what a handler relies on   *)
(* between its steps: the notification it handles is stored, is due before *)
(* it is claimed, counts the claim it holds, and is not left unclaimed     *)
(* when its message is about to be acknowledged.                           *)
(***************************************************************************)
Unclaimed(n) == row[n].status = "pending" /\ claims[n] = 0

TriggerKept(n) ==
    /\ row[n].status = "absent" => message[n] = "none"
    /\ row[n].status = "processing" => claims[n] > 0
    /\ n \notin Scheduled =>
          n \in due /\ (Unclaimed(n) => message[n] # "acked")
    /\ Delivered(n) => n \in due

JobInv(w) ==
    /\ phase[w] \in {"claiming", "acking"} \/ Working(w)
          => row[job[w]].status # "absent"
    /\ phase[w] = "claiming" \/ Working(w) => job[w] \in due
    /\ Working(w) => claims[job[w]] > 0
    /\ phase[w] = "acking" /\ job[w] \notin Scheduled => ~Unclaimed(job[w])

TriggerInv ==
    /\ \A n \in Notifications : TriggerKept(n)
    /\ \A w \in Workers : JobInv(w)

(***************************************************************************)
(* A claim pays for one delivery to each destination: those made, and      *)
(* those that goroutines are still to make.                                *)
(***************************************************************************)
Sending(n, d) == {w \in Workers : job[w] = n /\ step[w][d] = "send"}

PaidInv ==
    \A n \in Notifications, d \in Destinations :
        sends[n][d] + Cardinality(Sending(n, d)) <= claims[n]

(***************************************************************************)
(* If live workers are prompt: the row a worker works on is its own, so    *)
(* are the copies of it its goroutines will write back, and no claim can   *)
(* take it.                                                                *)
(***************************************************************************)
HolderInv(w) ==
    Working(w) =>
        /\ row[job[w]].worker = w /\ row[job[w]].status # "pending"
        /\ \A v \in Workers \ {w} : Working(v) => job[v] # job[w]
        /\ \A d \in Destinations : step[w][d] = "save" => copy[w][d].worker = w

HeldInv == Prompt => \A w \in Workers : HolderInv(w)

(* What determineFinalStatus returned is still what the row says.          *)
DecisionInv ==
    \A w \in Workers :
        phase[w] = "releasing" => final[w] = FinalStatus(row[job[w]])
=============================================================================
