-------------------------- MODULE NotificationTable --------------------------
(***************************************************************************)
(* The table "notifications" of PostgreSQL and the statements of           *)
(* data/notification.go that read and write it.  Every statement is atomic *)
(* and is given here as the row it leaves; UpdateChannelResult is not one  *)
(* statement but two, a SELECT and an UPDATE of every column, and only its *)
(* computation on the row it read is given here (WithResult).              *)
(***************************************************************************)
EXTENDS Deployment

CONSTANTS
    Channels,        \* constant.NotificationChannel
    Destinations,    \* the entries of the column channels
    DestinationsOf,  \* the entries of one notification
    ChannelOf,       \* the channel of an entry: two entries may share one
    MaxAttempts      \* the 5 of ResetStuckNotifications

ASSUME TableAssumption ==
    /\ IsFiniteSet(Channels) /\ Channels # {}
    /\ DestinationsOf \in [Notifications -> SUBSET Destinations]
    /\ \A n \in Notifications : DestinationsOf[n] # {}
    /\ ChannelOf \in [Destinations -> Channels]
    /\ MaxAttempts \in Nat \ {0}

VARIABLES
    row,     \* the row of each notification
    claims   \* history: how often the notification was claimed

tableVars == <<row, claims>>

Settled == {"sent", "failed"}
Statuses == {"pending", "processing"} \cup Settled

(***************************************************************************)
(* A row: results maps a channel to what the column results holds for it,  *)
(* started says whether processing_started_at is set, sentAt whether       *)
(* sent_at is.  Title, body, ref_id and the timestamps themselves do not   *)
(* influence any statement.                                                *)
(***************************************************************************)
Row == [status   : Statuses \cup {"absent"},
        worker   : Workers \cup {NoWorker},
        started  : BOOLEAN,
        attempts : Nat,
        sentAt   : BOOLEAN,
        results  : [Channels -> {"none"} \cup Settled]]

NoResults == [c \in Channels |-> "none"]

BlankRow(status) ==
    [status |-> status, worker |-> NoWorker, started |-> FALSE,
     attempts |-> 0, sentAt |-> FALSE, results |-> NoResults]

Absent == BlankRow("absent")

(* The row prepareNotification builds and Save or BulkSave inserts. *)
NewNotification == BlankRow("pending")

(* Fault injection: the claim forgets processing_started_at. *)
ClaimedUnstamped(r, w) ==
    [r EXCEPT !.status = "processing", !.worker = w, !.attempts = @ + 1]

(* The row ClaimNotificationForProcessing returns to worker w. *)
Claimed(r, w) ==
    [r EXCEPT !.status = "processing", !.worker = w, !.started = TRUE,
              !.attempts = @ + 1]

(* The row ReleaseNotificationFromProcessing leaves. *)
Released(r, status) ==
    [r EXCEPT !.status = status, !.worker = NoWorker, !.started = FALSE,
              !.sentAt = @ \/ status = "sent"]

(* Fault injection: the reset without its limit on the attempts, without *)
(* its condition on the status, and with a limit one too low.            *)
ResettableForever(r) == r.status = "processing" /\ r.started
ResettableAnyStatus(r) == r.started /\ r.attempts < MaxAttempts
ResettableTooLate(r) ==
    r.status = "processing" /\ r.started /\ r.attempts + 1 < MaxAttempts

(* The rows ResetStuckNotifications may select, their age left aside, ... *)
Resettable(r) ==
    /\ r.status = "processing"
    /\ r.started
    /\ r.attempts < MaxAttempts

(* Fault injection: the reset gives the attempts back. *)
ResetAttempts(r) ==
    [r EXCEPT !.status = "pending", !.worker = NoWorker, !.started = FALSE,
              !.attempts = 0]

(* ... and the row it leaves. *)
Reset(r) ==
    [r EXCEPT !.status = "pending", !.worker = NoWorker, !.started = FALSE]

(***************************************************************************)
(* The row UpdateChannelResult saves, computed from the row r it read.     *)
(* The results only ever hold "sent" and "failed", so all of them are      *)
(* complete and one of the two statuses is always chosen.                  *)
(***************************************************************************)
WithResult(r, c, outcome) ==
    LET results == [r.results EXCEPT ![c] = outcome]
        status  == IF \E k \in Channels : results[k] = "sent"
                   THEN "sent" ELSE "failed"
    IN  [r EXCEPT !.results = results, !.status = status,
                  !.sentAt = @ \/ status = "sent"]

(* Fault injection: a failure goes back to pending to be tried again. *)
FinalStatusRetry(r) ==
    IF \E c \in Channels : r.results[c] = "sent" THEN "sent" ELSE "pending"

(* Fault injection: looks at the row as it was claimed, without a result. *)
FinalStatusAsClaimed(r) == "failed"

(* determineFinalStatus on the row it read: no result counts as failed. *)
FinalStatus(r) ==
    IF \E c \in Channels : r.results[c] = "sent" THEN "sent" ELSE "failed"

(***************************************************************************)
(* What GetNotificationStatus answers for the row it read: an entry for    *)
(* every result recorded so far, none for a channel that has no result.    *)
(***************************************************************************)
StatusPerChannel(r) ==
    {[channel |-> c, status |-> r.results[c]] :
        c \in {k \in Channels : r.results[k] # "none"}}

GetNotificationStatus(n) == StatusPerChannel(row[n])

TableInit ==
    /\ row = [n \in Notifications |-> Absent]
    /\ claims = [n \in Notifications |-> 0]

=============================================================================
