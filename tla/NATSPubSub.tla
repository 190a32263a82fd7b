----------------------------- MODULE NATSPubSub -----------------------------
(***************************************************************************)
(* The JetStream stream with its one durable pull consumer                 *)
(* (pkg/wpubsub/nats_pubsub.go): work-queue retention, explicit            *)
(* acknowledgement, at most MaxDeliver deliveries of a message, redelivery *)
(* after AckWait or at once after a negative acknowledgement.  All workers *)
(* share the consumer.  The message of a notification is identified with   *)
(* the notification: it is published at most once.                         *)
(*                                                                         *)
(* The broker's side of each operation is external code, modelled from how *)
(* NewNATSPubSub and Subscribe configure and use it.                       *)
(***************************************************************************)
EXTENDS Deployment

CONSTANTS
    MaxDeliver,      \* deliveries of one message before the broker gives up
    FetchBatch       \* messages per Fetch

ASSUME NATSAssumption ==
    /\ MaxDeliver \in Nat \ {0}
    /\ FetchBatch \in Nat \ {0}

VARIABLES
    message,     \* the state of each message in the stream
    deliveries,  \* how often each message was delivered
    inbox        \* the messages of a worker's last Fetch it has not answered

natsVars == <<message, deliveries, inbox>>

(***************************************************************************)
(* "none": never stored; "queued": to be delivered; "inflight": delivered, *)
(* unanswered; "dead": delivered MaxDeliver times, kept in the stream and  *)
(* never delivered again; "acked": removed from the stream.                *)
(***************************************************************************)
MessageStates == {"none", "queued", "inflight", "dead", "acked"}

NATSTypeOK ==
    /\ message \in [Notifications -> MessageStates]
    /\ deliveries \in [Notifications -> 0..MaxDeliver]
    /\ inbox \in [Workers -> SUBSET Notifications]

NATSInit ==
    /\ message = [n \in Notifications |-> "none"]
    /\ deliveries = [n \in Notifications |-> 0]
    /\ inbox = [w \in Workers |-> {}]

(* Publish: the stream stores the message of n. *)
Enqueue(n) ==
    /\ message[n] = "none"
    /\ message' = [message EXCEPT ![n] = "queued"]
    /\ UNCHANGED <<deliveries, inbox>>

(* Fetch: worker w receives a batch of queued messages. *)
Fetch(w) ==
    \E batch \in SUBSET {n \in Notifications : message[n] = "queued"} :
        /\ Cardinality(batch) \in 1..FetchBatch
        /\ message' = [n \in Notifications |->
                         IF n \in batch THEN "inflight" ELSE message[n]]
        /\ deliveries' = [n \in Notifications |->
                         IF n \in batch THEN deliveries[n] + 1 ELSE deliveries[n]]
        /\ inbox' = [inbox EXCEPT ![w] = batch]

(* Fault injection: a consumer without MaxDeliver. *)
RedeliveryUnlimited(n) == "queued"

(* What becomes of a delivered message that has to be delivered again. *)
Redelivery(n) == IF deliveries[n] < MaxDeliver THEN "queued" ELSE "dead"

(* Fault injection: an acknowledgement covers the whole batch. *)
AckBatch(w, n) ==
    /\ message' = [m \in Notifications |->
                     IF m \in inbox[w] THEN "acked" ELSE message[m]]
    /\ inbox' = [inbox EXCEPT ![w] = {}]
    /\ UNCHANGED deliveries

(* Ack removes the message, even when it was meanwhile queued again or is *)
(* in flight to another worker.                                           *)
Ack(w, n) ==
    /\ message' = [message EXCEPT ![n] = "acked"]
    /\ inbox' = [inbox EXCEPT ![w] = @ \ {n}]
    /\ UNCHANGED deliveries

(* Nak asks for redelivery; it is void unless the message is in flight. *)
Nak(w, n) ==
    /\ message' = [message EXCEPT ![n] =
                     IF @ = "inflight" THEN Redelivery(n) ELSE @]
    /\ inbox' = [inbox EXCEPT ![w] = @ \ {n}]
    /\ UNCHANGED deliveries

(* Ack or Nak returns an error, which Subscribe only logs. *)
AnswerLost(w, n) ==
    /\ inbox' = [inbox EXCEPT ![w] = @ \ {n}]
    /\ UNCHANGED <<message, deliveries>>

(* AckWait passes without an answer. *)
AckWaitExpires(n) ==
    /\ message[n] = "inflight"
    /\ message' = [message EXCEPT ![n] = Redelivery(n)]
    /\ UNCHANGED <<deliveries, inbox>>

(* The process of worker w ends: its batch is never answered. *)
DropInbox(w) ==
    /\ inbox' = [inbox EXCEPT ![w] = {}]
    /\ UNCHANGED <<message, deliveries>>

=============================================================================
