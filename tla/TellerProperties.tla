-------------------------- MODULE TellerProperties --------------------------
(***************************************************************************)
(* What the notification service guarantees, and some of what its          *)
(* documentation says it guarantees and the code does not.                 *)
(***************************************************************************)
EXTENDS Teller

(***************************************************************************)
(* Invariants.                                                             *)
(***************************************************************************)

(* A row that still needs work counts every claim, even those whose worker *)
(* died or never heard of them, and a pending one has a claim left: no     *)
(* path back to pending bypasses the limit in ResetStuckNotifications.     *)
ClaimsCounted ==
    \A n \in Notifications :
        /\ row[n].status \in {"pending", "processing"}
              => row[n].attempts = claims[n]
        /\ row[n].status = "pending" => claims[n] < MaxAttempts
        /\ claims[n] <= MaxAttempts

(* A row in processing names its worker and its start time, without which  *)
(* ResetStuckNotifications could never recover it; a pending one has none. *)
ProcessingIsOwned ==
    \A n \in Notifications :
        /\ row[n].status = "processing" => row[n].worker # NoWorker /\ row[n].started
        /\ row[n].status = "pending" => row[n].worker = NoWorker /\ ~row[n].started

(* However claims, redeliveries, resets and restarts interleave, a         *)
(* destination never receives a notification more than MaxAttempts times.  *)
DeliveriesBounded ==
    \A n \in Notifications, d \in Destinations : sends[n][d] <= MaxAttempts

Delivered(n) == \E d \in DestinationsOf[n] : sends[n][d] > 0

DeliveredOn(n, c) ==
    \E d \in DestinationsOf[n] : ChannelOf[d] = c /\ sends[n][d] > 0

(* A row is "sent" only if some provider delivered the notification, and   *)
(* GetNotificationStatus answers "sent" only for a channel it was          *)
(* delivered on, although both are computed from copies of the row that    *)
(* may be out of date.                                                     *)
SentMeansDelivered ==
    \A n \in Notifications :
        /\ row[n].status = "sent" \/ row[n].sentAt => Delivered(n)
        /\ \A s \in GetNotificationStatus(n) :
              s.status = "sent" => DeliveredOn(n, s.channel)

(* Nothing is delivered before its schedule. *)
NotBeforeSchedule ==
    \A n \in Notifications : Delivered(n) => n \in due

(* Acknowledging a message removes the only trigger a notification has: no *)
(* worker does it while the row is pending and was never claimed (unless   *)
(* it is scheduled, see ScheduledIsSent).                                  *)
UnclaimedKeepsMessage ==
    \A n \in Notifications \ Scheduled :
        row[n].status = "pending" /\ claims[n] = 0 => message[n] # "acked"

(* As long as a live worker finishes within the five minutes, no two       *)
(* workers work on one notification, and the worker that does is the one   *)
(* the row names: the claim, the full-row writes of UpdateChannelResult,   *)
(* the reset and the server's UpdateStatus never hand it to another.       *)
ExclusiveClaim ==
    \A w \in Workers : Working(w) =>
        /\ row[job[w]].worker = w
        /\ \A v \in Workers \ {w} : Working(v) => job[v] # job[w]

(***************************************************************************)
(* Action properties.                                                      *)
(***************************************************************************)

(* A settled notification is never opened again: what Release, Reset,      *)
(* UpdateStatus or a write of an old copy of the row leaves is settled.    *)
NeverReopened ==
    [][\A n \in Notifications :
          row[n].status \in Settled => row'[n].status \in Settled]_vars

(* ARCHITECTURE.md: "processing --> sent: Partial Success".  A worker that *)
(* gives up a row in which a channel is recorded as sent leaves it sent,   *)
(* although its decision and its release are two steps.  Holds as long as  *)
(* nothing fails and workers are prompt: determineFinalStatus takes a read *)
(* that fails for a notification that failed.                              *)
RecordedSuccessIsSent ==
    [][\A n \in Notifications :
          /\ row[n].worker # NoWorker /\ row'[n].worker = NoWorker
          /\ row'[n].status \in Settled
          /\ \E c \in Channels : row[n].results[c] = "sent"
          => row'[n].status = "sent"]_vars

(* ARCHITECTURE.md: "sent --> [*]: Final State".  A status "sent" is never *)
(* overwritten.                                                            *)
SentIsFinal ==
    [][\A n \in Notifications :
          row[n].status = "sent" => row'[n].status = "sent"]_vars

ReportedChannels(n) == {s.channel : s \in GetNotificationStatus(n)}

(* ARCHITECTURE.md: "Per-channel status tracking".  A channel that         *)
(* GetNotificationStatus reported does not disappear from its answers.     *)
ResultIsKept ==
    [][\A n \in Notifications :
          ReportedChannels(n) \subseteq ReportedChannels(n)']_vars

(* cmd/worker/main.go: "Cancel context to trigger graceful shutdown".  A   *)
(* worker told to stop does not leave in the middle of a notification.     *)
GracefulShutdown ==
    [][\A w \in Workers :
          w \in stopping /\ Working(w) => phase'[w] # "down"]_vars

(***************************************************************************)
(* Refinement.                                                             *)
(***************************************************************************)

(* Through all its faults the service implements NotificationLifecycle:    *)
(* the status of the row, every claim an attempt, every delivery.          *)
Lifecycle == INSTANCE NotificationLifecycle WITH
    status <- [n \in Notifications |-> row[n].status],
    attempts <- claims,
    delivered <- {n \in Notifications : Delivered(n)}

ImplementsLifecycle == Lifecycle!Spec

(***************************************************************************)
(* Liveness, under FairSpec.                                               *)
(***************************************************************************)
Accepted(n) == \E r \in Requests : n \in accepted[r]

IsSettled(n) == row[n].status \in Settled

(* A notification whose id the server returned is settled in the end. *)
AcceptedSettles ==
    \A n \in Notifications : Accepted(n) ~> IsSettled(n)

(* README.md: "Workers automatically recover stuck notifications after 5   *)
(* minutes".  A row in processing with an attempt left does not stay so.   *)
StuckIsReset ==
    \A n \in Notifications :
        row[n].status = "processing" /\ row[n].attempts < MaxAttempts
            ~> row[n].status # "processing"

(* ARCHITECTURE.md: "Stuck notifications can be reclaimed".  A row left in *)
(* processing by a worker that died is claimed again, or settled.          *)
CrashedClaim(n, k) ==
    /\ row[n].status = "processing" /\ claims[n] = k /\ k < MaxAttempts
    /\ row[n].worker # NoWorker /\ ~Alive(row[n].worker)

StuckIsReclaimed ==
    \A n \in Notifications, k \in 1..MaxAttempts :
        CrashedClaim(n, k) ~> claims[n] > k \/ IsSettled(n)

(* ARCHITECTURE.md: "Scheduled notifications".  A notification accepted    *)
(* with a schedule is delivered once its time has come.                    *)
ScheduledIsSent ==
    \A n \in Scheduled : Accepted(n) /\ n \in due ~> Delivered(n)

(* ARCHITECTURE.md: "failed --> processing: Retry (attempt < max)".  A     *)
(* notification whose delivery failed, with attempts left, is claimed      *)
(* again.                                                                  *)
FailedIsRetried ==
    \A n \in Notifications, k \in 1..MaxAttempts - 1 :
        row[n].status = "failed" /\ claims[n] = k ~> claims[n] > k
=============================================================================
