------------------------- MODULE NotificationServer -------------------------
(***************************************************************************)
(* The teller server's SendToUser and BulkSendToUser (biz/notification.go) *)
(* with their statements on the table.  Both save the rows, publish one    *)
(* message per notification and, when a publish fails, mark that row       *)
(* failed; SendToUser is the case of a batch of one.  A request's context  *)
(* carries the server's one second deadline.                               *)
(***************************************************************************)
EXTENDS NotificationTable

CONSTANTS
    Requests,    \* the calls of a run
    Batch        \* the notifications each call asks for

ASSUME ServerAssumption ==
    /\ Batch \in [Requests -> SUBSET Notifications]
    /\ \A r \in Requests : Batch[r] # {}
    /\ \A r, s \in Requests : r # s => Batch[r] \cap Batch[s] = {}

VARIABLES
    request,     \* progress of each call
    unpublished, \* the notifications the call's loop has not reached
    failing,     \* the notification whose publish just failed
    accepted,    \* the notification ids in the reply
    expired      \* the calls whose context is done

serverVars == <<request, unpublished, failing, accepted, expired>>

RequestStates == {"new", "publishing", "replied", "lost"}

ServerTypeOK ==
    /\ request \in [Requests -> RequestStates]
    /\ unpublished \in [Requests -> SUBSET Notifications]
    /\ failing \in [Requests -> Notifications \cup {NoNotification}]
    /\ accepted \in [Requests -> SUBSET Notifications]
    /\ expired \subseteq Requests

ServerInit ==
    /\ request = [r \in Requests |-> "new"]
    /\ unpublished = [r \in Requests |-> {}]
    /\ failing = [r \in Requests |-> NoNotification]
    /\ accepted = [r \in Requests |-> {}]
    /\ expired = {}

(* An operation of call r on the database or on NATS fails: because the *)
(* context is done, or by a fault.                                      *)
CallFails(r) == IF r \in expired THEN UNCHANGED faults ELSE Fault

Inserted(r) ==
    row' = [n \in Notifications |->
              IF n \in Batch[r] THEN NewNotification ELSE row[n]]

(* Save or BulkSave: one transaction inserts every row of the call. *)
SaveRows(r) ==
    /\ request[r] = "new" /\ r \notin expired
    /\ Inserted(r)
    /\ request' = [request EXCEPT ![r] = "publishing"]
    /\ unpublished' = [unpublished EXCEPT ![r] = Batch[r]]
    /\ UNCHANGED <<faults, claims, failing, accepted, expired>>

(* Save or BulkSave returns an error, whether or not the transaction was *)
(* committed; the call returns INTERNAL and publishes nothing.           *)
SaveRowsFails(r) ==
    /\ request[r] = "new"
    /\ CallFails(r)
    /\ Inserted(r) \/ UNCHANGED row
    /\ request' = [request EXCEPT ![r] = "replied"]
    /\ UNCHANGED <<claims, unpublished, failing, accepted, expired>>

(* The loop's next notification; the order of a batch plays no part. *)
Publishing(r, n) ==
    /\ request[r] = "publishing"
    /\ failing[r] = NoNotification
    /\ n \in unpublished[r]
    /\ unpublished' = [unpublished EXCEPT ![r] = @ \ {n}]

(* PublishNotification succeeds; the stream stores the message. *)
Publish(r, n) ==
    /\ Publishing(r, n)
    /\ r \notin expired
    /\ accepted' = [accepted EXCEPT ![r] = @ \cup {n}]
    /\ UNCHANGED <<faults, tableVars, request, failing, expired>>

(* PublishNotification returns an error. *)
PublishFails(r, n) ==
    /\ Publishing(r, n)
    /\ CallFails(r)
    /\ failing' = [failing EXCEPT ![r] = n]
    /\ UNCHANGED <<tableVars, request, accepted, expired>>

(* Fault injection: the row of a failed publish is left as it is. *)
MarkNothing(r) ==
    /\ failing[r] # NoNotification /\ r \notin expired
    /\ request[r] = "publishing"
    /\ failing' = [failing EXCEPT ![r] = NoNotification]
    /\ UNCHANGED <<faults, tableVars, request, unpublished, accepted, expired>>

(* UpdateStatus(failed) after a failed publish: it overwrites the status *)
(* whatever it is by now.                                                *)
MarkFailed(r) ==
    /\ failing[r] # NoNotification /\ r \notin expired
    /\ request[r] = "publishing"
    /\ row' = [row EXCEPT ![failing[r]].status = "failed"]
    /\ failing' = [failing EXCEPT ![r] = NoNotification]
    /\ UNCHANGED <<faults, claims, request, unpublished, accepted, expired>>

(* UpdateStatus itself fails: the error is discarded. *)
MarkFailedFails(r) ==
    /\ failing[r] # NoNotification
    /\ request[r] = "publishing"
    /\ CallFails(r)
    /\ failing' = [failing EXCEPT ![r] = NoNotification]
    /\ UNCHANGED <<tableVars, request, unpublished, accepted, expired>>

(* The call returns: BulkSendToUser lists the accepted ids, SendToUser its *)
(* one id or an error.                                                     *)
Reply(r) ==
    /\ request[r] = "publishing"
    /\ failing[r] = NoNotification /\ unpublished[r] = {}
    /\ request' = [request EXCEPT ![r] = "replied"]
    /\ UNCHANGED <<faults, tableVars, unpublished, failing, accepted, expired>>

(* The deadline of the call passes. *)
Expire(r) ==
    /\ request[r] \in {"new", "publishing"}
    /\ r \notin expired
    /\ Fault
    /\ expired' = expired \cup {r}
    /\ UNCHANGED <<tableVars, request, unpublished, failing, accepted>>

(* The server process ends: every call it runs is lost. *)
ServerCrash ==
    /\ \E r \in Requests : request[r] = "publishing"
    /\ Fault
    /\ request' = [r \in Requests |->
                     IF request[r] = "publishing" THEN "lost" ELSE request[r]]
    /\ accepted' = [r \in Requests |->
                     IF request[r] = "publishing" THEN {} ELSE accepted[r]]
    /\ UNCHANGED <<tableVars, unpublished, failing, expired>>

=============================================================================
