------------------------ MODULE NotificationLifecycle ------------------------
(***************************************************************************)
(* What the service promises about one notification, whatever processes,   *)
(* messages and statements implement it: it is attempted at most           *)
(* MaxAttempts times, each attempt after the first only once the previous  *)
(* one was recovered, it is settled at most as "sent" what was delivered,  *)
(* and once settled it is never attempted again.  That a settled status    *)
(* may still be revised is part of the promise: see Settle.                *)
(***************************************************************************)
EXTENDS Integers

CONSTANTS Notifications, MaxAttempts

VARIABLES
    status,     \* what GetNotificationStatus reads
    attempts,   \* how often the notification was attempted
    delivered   \* the notifications some provider delivered

lifecycleVars == <<status, attempts, delivered>>

Init ==
    /\ status = [n \in Notifications |-> "absent"]
    /\ attempts = [n \in Notifications |-> 0]
    /\ delivered = {}

(* A client's call creates all its notifications at once. *)
Create(S) ==
    /\ \A n \in S : status[n] = "absent"
    /\ status' = [n \in Notifications |-> IF n \in S THEN "pending" ELSE status[n]]
    /\ UNCHANGED <<attempts, delivered>>

Attempt(n) ==
    /\ status[n] = "pending"
    /\ attempts[n] < MaxAttempts
    /\ status' = [status EXCEPT ![n] = "processing"]
    /\ attempts' = [attempts EXCEPT ![n] = @ + 1]
    /\ UNCHANGED delivered

Deliver(n) ==
    /\ attempts[n] > 0
    /\ delivered' = delivered \cup {n}
    /\ UNCHANGED <<status, attempts>>

(* Attempts that came to nothing are given back, if one is left. *)
Recover(S) ==
    /\ \A n \in S : status[n] = "processing" /\ attempts[n] < MaxAttempts
    /\ status' = [n \in Notifications |-> IF n \in S THEN "pending" ELSE status[n]]
    /\ UNCHANGED <<attempts, delivered>>

(* The notification is settled, or its outcome revised. *)
Settle(n, outcome) ==
    /\ status[n] # "absent"
    /\ outcome = "sent" => n \in delivered
    /\ status' = [status EXCEPT ![n] = outcome]
    /\ UNCHANGED <<attempts, delivered>>

Next ==
    \/ \E S \in SUBSET Notifications : Create(S) \/ Recover(S)
    \/ \E n \in Notifications :
          \/ Attempt(n)
          \/ Deliver(n)
          \/ \E outcome \in {"sent", "failed"} : Settle(n, outcome)

Spec == Init /\ [][Next]_lifecycleVars
=============================================================================
