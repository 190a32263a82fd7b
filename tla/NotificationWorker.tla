------------------------- MODULE NotificationWorker -------------------------
(***************************************************************************)
(* The worker process (biz/notification_worker.go) with its statements on  *)
(* the table: the handler processNotification, its goroutines, one per     *)
(* destination, and the cleanup goroutine.  The subscription loop hands it *)
(* one message at a time.                                                  *)
(***************************************************************************)
EXTENDS NotificationTable

CONSTANTS
    Scheduled,   \* the notifications with a schedule_at, in the future at first
    Flaky,       \* the channels whose provider may return an error
    Prompt       \* TRUE: a live worker always finishes within the 5 minutes
                 \* after which ResetStuckNotifications takes a claim for stuck

ASSUME WorkerAssumption ==
    /\ Scheduled \subseteq Notifications
    /\ Flaky \subseteq Channels
    /\ Prompt \in BOOLEAN

VARIABLES
    phase,     \* where the subscription loop of each worker stands
    job,       \* the notification it handles
    step,      \* where the goroutine of each destination stands
    outcome,   \* what the provider answered it
    copy,      \* the row its UpdateChannelResult read
    final,     \* what determineFinalStatus returned
    stopping,  \* the workers whose context is cancelled
    due,       \* the notifications whose schedule_at is not in the future
    sends      \* history: deliveries the provider made per destination

goroutineVars == <<step, outcome, copy>>
workerVars == <<phase, job, goroutineVars, final, stopping, due, sends>>

(***************************************************************************)
(* "polling": in Fetch; "handling": takes the next message of its batch;   *)
(* "claiming", "sending", "releasing": in processNotification; "acking",   *)
(* "naking": the handler returned; "unsubscribed": the loop ended after    *)
(* cancellation; "down": the process is gone.                              *)
(***************************************************************************)
Phases == {"polling", "handling", "claiming", "sending", "releasing",
           "acking", "naking", "unsubscribed", "down"}

Steps == {"none", "send", "read", "save", "done"}

NoSteps == [d \in Destinations |-> "none"]
NoCopies == [d \in Destinations |-> Absent]

WorkerTypeOK ==
    /\ phase \in [Workers -> Phases]
    /\ job \in [Workers -> Notifications \cup {NoNotification}]
    /\ step \in [Workers -> [Destinations -> Steps]]
    /\ outcome \in [Workers -> [Destinations -> {"none"} \cup Settled]]
    /\ copy \in [Workers -> [Destinations -> Row]]
    /\ final \in [Workers -> {"none"} \cup Settled]
    /\ stopping \subseteq Workers
    /\ due \subseteq Notifications
    /\ sends \in [Notifications -> [Destinations -> Nat]]

WorkerInit ==
    /\ phase = [w \in Workers |-> "polling"]
    /\ job = [w \in Workers |-> NoNotification]
    /\ step = [w \in Workers |-> NoSteps]
    /\ outcome = [w \in Workers |-> NoSteps]
    /\ copy = [w \in Workers |-> NoCopies]
    /\ final = [w \in Workers |-> "none"]
    /\ stopping = {}
    /\ due = Notifications \ Scheduled
    /\ sends = [n \in Notifications |-> [d \in Destinations |-> 0]]

Alive(w) == phase[w] # "down"

(* Worker w holds, or believes it holds, a claim on its job. *)
Working(w) == phase[w] \in {"sending", "releasing"}

(***************************************************************************)
(* Start passes its context to every statement but that of                 *)
(* determineFinalStatus: once it is cancelled they fail without any fault. *)
(***************************************************************************)
ContextLive(w) == w \notin stopping
StatementFails(w) == IF ContextLive(w) THEN Fault ELSE UNCHANGED faults

Goto(w, p) == phase' = [phase EXCEPT ![w] = p]

(***************************************************************************)
(* SubscribeToNotifications' wrapper and the first lines of                *)
(* processNotification.                                                    *)
(***************************************************************************)

(* Fault injection: schedule_at is not looked at. *)
ReceiveAnyTime(w, n) ==
    /\ phase[w] = "handling" /\ ContextLive(w)
    /\ row[n].status # "absent"
    /\ Goto(w, "claiming")
    /\ job' = [job EXCEPT ![w] = n]
    /\ UNCHANGED <<faults, tableVars, goroutineVars, final, stopping, due, sends>>

(* The wrapper reads the row.  A notification that is not due yet is left *)
(* alone and its message answered as if it had been handled.              *)
Receive(w, n) ==
    /\ phase[w] = "handling" /\ ContextLive(w)
    /\ row[n].status # "absent"
    /\ Goto(w, IF n \in due THEN "claiming" ELSE "acking")
    /\ job' = [job EXCEPT ![w] = n]
    /\ UNCHANGED <<faults, tableVars, goroutineVars, final, stopping, due, sends>>

(* The wrapper's SELECT fails. *)
ReceiveFails(w, n) ==
    /\ phase[w] = "handling"
    /\ StatementFails(w)
    /\ Goto(w, "naking")
    /\ job' = [job EXCEPT ![w] = n]
    /\ UNCHANGED <<tableVars, goroutineVars, final, stopping, due, sends>>

(***************************************************************************)
(* ClaimNotificationForProcessing.                                         *)
(***************************************************************************)

(* Fault injection: the claim does not look at the status. *)
TakeAnyClaim(w) ==
    /\ row' = [row EXCEPT ![job[w]] = Claimed(@, w)]
    /\ claims' = [claims EXCEPT ![job[w]] = @ + 1]

(* Fault injection: RowsAffected is not looked at. *)
TakeClaimUncounted(w) ==
    \/ /\ row[job[w]].status = "pending"
       /\ row' = [row EXCEPT ![job[w]] = Claimed(@, w)]
       /\ claims' = [claims EXCEPT ![job[w]] = @ + 1]
    \/ row[job[w]].status # "pending" /\ UNCHANGED tableVars

(* The UPDATE ... WHERE status = 'pending'. *)
TakeClaim(w) ==
    /\ row[job[w]].status = "pending"
    /\ row' = [row EXCEPT ![job[w]] = Claimed(@, w)]
    /\ claims' = [claims EXCEPT ![job[w]] = @ + 1]

(* The claim succeeds; one goroutine per destination starts. *)
Claim(w) ==
    /\ phase[w] = "claiming" /\ ContextLive(w)
    /\ TakeClaim(w)
    /\ Goto(w, "sending")
    /\ step' = [step EXCEPT ![w] =
                  [d \in Destinations |->
                     IF d \in DestinationsOf[job[w]] THEN "send" ELSE "none"]]
    /\ UNCHANGED <<faults, job, outcome, copy, final, stopping, due, sends>>

(* ErrNotificationNotPending: nothing to do, the handler returns nil. *)
ClaimNotPending(w) ==
    /\ phase[w] = "claiming" /\ ContextLive(w)
    /\ row[job[w]].status # "pending"
    /\ Goto(w, "acking")
    /\ UNCHANGED <<faults, tableVars, job, goroutineVars, final, stopping, due, sends>>

(* Fault injection: the error is swallowed. *)
ClaimFailsSilently(w) ==
    /\ phase[w] = "claiming"
    /\ StatementFails(w)
    /\ TakeClaim(w) \/ UNCHANGED tableVars
    /\ Goto(w, "acking")
    /\ UNCHANGED <<job, goroutineVars, final, stopping, due, sends>>

(* Another error, whether or not the UPDATE was committed. *)
ClaimFails(w) ==
    /\ phase[w] = "claiming"
    /\ StatementFails(w)
    /\ TakeClaim(w) \/ UNCHANGED tableVars
    /\ Goto(w, "naking")
    /\ UNCHANGED <<job, goroutineVars, final, stopping, due, sends>>

(***************************************************************************)
(* sendToChannel and updateChannelStatus, in the goroutine of d.           *)
(***************************************************************************)
StepTo(w, d, s) == step' = [step EXCEPT ![w][d] = s]

(* Fault injection: the provider's error is not looked at. *)
SendUnchecked(w, d) ==
    /\ step[w][d] = "send"
    /\ outcome' = [outcome EXCEPT ![w][d] = "sent"]
    /\ \/ sends' = [sends EXCEPT ![job[w]][d] = @ + 1]
       \/ ChannelOf[d] \in Flaky /\ UNCHANGED sends
    /\ StepTo(w, d, "read")
    /\ UNCHANGED <<faults, tableVars, phase, job, copy, final, stopping, due>>

(* provider.Send; "failed" stands for its error. *)
Send(w, d) ==
    /\ step[w][d] = "send"
    /\ \/ /\ outcome' = [outcome EXCEPT ![w][d] = "sent"]
          /\ sends' = [sends EXCEPT ![job[w]][d] = @ + 1]
       \/ /\ ChannelOf[d] \in Flaky
          /\ outcome' = [outcome EXCEPT ![w][d] = "failed"]
          /\ UNCHANGED sends
    /\ StepTo(w, d, "read")
    /\ UNCHANGED <<faults, tableVars, phase, job, copy, final, stopping, due>>

(* The SELECT of UpdateChannelResult. *)
ReadRow(w, d) ==
    /\ step[w][d] = "read" /\ ContextLive(w)
    /\ copy' = [copy EXCEPT ![w][d] = row[job[w]]]
    /\ StepTo(w, d, "save")
    /\ UNCHANGED <<faults, tableVars, phase, job, outcome, final, stopping, due, sends>>

(* The UPDATE of UpdateChannelResult writes every column of the copy back, *)
(* whatever happened to the row since it was read.                         *)
SaveRow(w, d) ==
    /\ step[w][d] = "save" /\ ContextLive(w)
    /\ row' = [row EXCEPT ![job[w]] =
                 WithResult(copy[w][d], ChannelOf[d], outcome[w][d])]
    /\ StepTo(w, d, "done")
    /\ UNCHANGED <<faults, claims, phase, job, outcome, copy, final, stopping, due, sends>>

(* Either statement fails: the error is logged and the result is lost. *)
RecordFails(w, d) ==
    /\ step[w][d] \in {"read", "save"}
    /\ StatementFails(w)
    /\ StepTo(w, d, "done")
    /\ UNCHANGED <<tableVars, phase, job, outcome, copy, final, stopping, due, sends>>

(***************************************************************************)
(* The deferred release.                                                   *)
(***************************************************************************)
GoroutinesDone(w) == \A d \in Destinations : step[w][d] \in {"none", "done"}

ClearGoroutines(w) ==
    /\ step' = [step EXCEPT ![w] = NoSteps]
    /\ outcome' = [outcome EXCEPT ![w] = NoSteps]
    /\ copy' = [copy EXCEPT ![w] = NoCopies]

(* determineFinalStatus: reads with a context that is never cancelled, and *)
(* takes a failed read for a failed notification.                          *)
Decide(w) ==
    /\ phase[w] = "sending" /\ GoroutinesDone(w)
    /\ \/ /\ final' = [final EXCEPT ![w] = FinalStatus(row[job[w]])]
          /\ UNCHANGED faults
       \/ /\ final' = [final EXCEPT ![w] = "failed"]
          /\ Fault
    /\ Goto(w, "releasing")
    /\ ClearGoroutines(w)
    /\ UNCHANGED <<tableVars, job, stopping, due, sends>>

(* ReleaseNotificationFromProcessing; the handler returns nil whatever it *)
(* answers: done, ErrNotificationNotOwned, or another error.              *)
Release(w) ==
    /\ phase[w] = "releasing"
    /\ \/ /\ ContextLive(w)
          /\ row' = IF row[job[w]].worker = w
                    THEN [row EXCEPT ![job[w]] = Released(@, final[w])]
                    ELSE row
          /\ UNCHANGED faults
       \/ /\ StatementFails(w)
          /\ UNCHANGED row
    /\ Goto(w, "acking")
    /\ final' = [final EXCEPT ![w] = "none"]
    /\ UNCHANGED <<claims, job, goroutineVars, stopping, due, sends>>

(***************************************************************************)
(* cleanupStuckNotifications.                                              *)
(***************************************************************************)

(* Whether a claim may be five minutes old. *)
MayBeStuck(n) ==
    /\ Resettable(row[n])
    /\ Prompt => \A w \in Workers : ~(Working(w) /\ job[w] = n)

(* A tick of worker w's cleanup goroutine resets the rows that are too old. *)
ResetStuckNotifications(w) ==
    /\ Alive(w) /\ ContextLive(w)
    /\ \E stuck \in (SUBSET {n \in Notifications : MayBeStuck(n)}) \ {{}} :
          row' = [n \in Notifications |->
                    IF n \in stuck THEN Reset(row[n]) ELSE row[n]]
    /\ UNCHANGED <<faults, claims, workerVars>>

(***************************************************************************)
(* The process.                                                            *)
(***************************************************************************)

(* The context is cancelled: main received SIGINT or SIGTERM. *)
Shutdown(w) ==
    /\ Alive(w) /\ ContextLive(w)
    /\ Fault
    /\ stopping' = stopping \cup {w}
    /\ UNCHANGED <<tableVars, phase, job, goroutineVars, final, due, sends>>

Leave(w) ==
    /\ Goto(w, "down")
    /\ job' = [job EXCEPT ![w] = NoNotification]
    /\ final' = [final EXCEPT ![w] = "none"]
    /\ ClearGoroutines(w)
    /\ UNCHANGED <<tableVars, stopping, due, sends>>

(* main returns: it does not wait for Start, so at any point of the work. *)
Exit(w) ==
    /\ Alive(w) /\ ~ContextLive(w)
    /\ Leave(w)
    /\ UNCHANGED faults

(* The process is killed. *)
Crash(w) ==
    /\ Alive(w)
    /\ Fault
    /\ Leave(w)

(* Time reaches the schedule of n. *)
ScheduleArrives(n) ==
    /\ n \notin due
    /\ due' = due \cup {n}
    /\ UNCHANGED <<faults, tableVars, phase, job, goroutineVars, final, stopping, sends>>

=============================================================================
