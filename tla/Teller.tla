------------------------------- MODULE Teller -------------------------------
(***************************************************************************)
(* The notification service as deployed: the server process and the worker *)
(* processes around one table and one JetStream stream.  Each action joins *)
(* the step of a process with the step of the broker it calls.             *)
(***************************************************************************)
EXTENDS NotificationServer, NotificationWorker, NATSPubSub

vars == <<faults, tableVars, serverVars, workerVars, natsVars>>

Init ==
    /\ faults = 0
    /\ TableInit
    /\ ServerInit
    /\ WorkerInit
    /\ NATSInit

(***************************************************************************)
(* The server.                                                             *)
(***************************************************************************)
ServerSave(r) ==
    /\ SaveRows(r) \/ SaveRowsFails(r)
    /\ UNCHANGED <<workerVars, natsVars>>

ServerPublish(r, n) ==
    /\ Publish(r, n)
    /\ Enqueue(n)
    /\ UNCHANGED workerVars

(* The error may hide that the stream stored the message. *)
ServerPublishFails(r, n) ==
    /\ PublishFails(r, n)
    /\ Enqueue(n) \/ UNCHANGED natsVars
    /\ UNCHANGED workerVars

ServerMark(r) ==
    /\ MarkFailed(r) \/ MarkFailedFails(r)
    /\ UNCHANGED <<workerVars, natsVars>>

ServerReply(r) ==
    /\ Reply(r)
    /\ UNCHANGED <<workerVars, natsVars>>

ServerStep(r) ==
    \/ ServerSave(r)
    \/ \E n \in Notifications : ServerPublish(r, n) \/ ServerPublishFails(r, n)
    \/ ServerMark(r)
    \/ ServerReply(r)

ServerFault ==
    /\ (\E r \in Requests : Expire(r)) \/ ServerCrash
    /\ UNCHANGED <<workerVars, natsVars>>

(***************************************************************************)
(* The subscription loop of a worker.                                      *)
(***************************************************************************)
Poll(w) ==
    /\ phase[w] = "polling"
    /\ Fetch(w)
    /\ Goto(w, "handling")
    /\ UNCHANGED <<faults, tableVars, serverVars, job, goroutineVars, final, stopping, due, sends>>

(* Fetch times out: the loop ends if the context is cancelled. *)
PollTimesOut(w) ==
    /\ phase[w] = "polling" /\ ~ContextLive(w)
    /\ Goto(w, "unsubscribed")
    /\ UNCHANGED <<faults, tableVars, serverVars, job, goroutineVars, final, stopping, due, sends, natsVars>>

Handle(w) ==
    /\ \E n \in inbox[w] : Receive(w, n) \/ ReceiveFails(w, n)
    /\ UNCHANGED <<serverVars, natsVars>>

(* The loop goes on with the batch, and looks at its context only after it. *)
NextMessage(w) ==
    /\ Goto(w, IF inbox'[w] # {} THEN "handling"
               ELSE IF ContextLive(w) THEN "polling" ELSE "unsubscribed")
    /\ job' = [job EXCEPT ![w] = NoNotification]
    /\ UNCHANGED <<tableVars, serverVars, goroutineVars, final, stopping, due, sends>>

Answer(w) ==
    /\ \/ phase[w] = "acking" /\ Ack(w, job[w]) /\ UNCHANGED faults
       \/ phase[w] = "naking" /\ Nak(w, job[w]) /\ UNCHANGED faults
       \/ phase[w] \in {"acking", "naking"} /\ AnswerLost(w, job[w]) /\ Fault
    /\ NextMessage(w)

(***************************************************************************)
(* The handler and the cleanup of a worker.                                *)
(***************************************************************************)
Work(w) ==
    /\ \/ Claim(w)
       \/ ClaimNotPending(w)
       \/ ClaimFails(w)
       \/ \E d \in Destinations :
             Send(w, d) \/ ReadRow(w, d) \/ SaveRow(w, d) \/ RecordFails(w, d)
       \/ Decide(w)
       \/ Release(w)
    /\ UNCHANGED <<serverVars, natsVars>>

Cleanup(w) ==
    /\ ResetStuckNotifications(w)
    /\ UNCHANGED <<serverVars, natsVars>>

WorkerShutdown(w) ==
    /\ Shutdown(w)
    /\ UNCHANGED <<serverVars, natsVars>>

WorkerEnds(w) ==
    /\ Exit(w) \/ Crash(w)
    /\ DropInbox(w)
    /\ UNCHANGED serverVars

WorkerLoop(w) == Poll(w) \/ PollTimesOut(w) \/ Handle(w) \/ Work(w) \/ Answer(w)

(***************************************************************************)
(* Time.                                                                   *)
(***************************************************************************)
Redeliver(n) ==
    /\ AckWaitExpires(n)
    /\ UNCHANGED <<faults, tableVars, serverVars, workerVars>>

Clock(n) ==
    /\ ScheduleArrives(n)
    /\ UNCHANGED <<serverVars, natsVars>>

Next ==
    \/ \E r \in Requests : ServerStep(r)
    \/ ServerFault
    \/ \E w \in Workers :
          WorkerLoop(w) \/ Cleanup(w) \/ WorkerShutdown(w) \/ WorkerEnds(w)
    \/ \E n \in Notifications : Redeliver(n) \/ Clock(n)

Spec == Init /\ [][Next]_vars

(***************************************************************************)
(* Fairness.  A process that runs keeps running, the broker redelivers     *)
(* what is not answered, the cleanup ticks every 30 seconds and schedules  *)
(* come due.  Nothing obliges a fault to happen, a process to be stopped   *)
(* or a broken one to come back.                                           *)
(***************************************************************************)
Fairness ==
    /\ \A r \in Requests : WF_vars(ServerStep(r))
    /\ \A w \in Workers :
          /\ WF_vars(WorkerLoop(w))
          /\ \A n \in Notifications : WF_vars(Cleanup(w) /\ row'[n] # row[n])
    /\ \A n \in Notifications : WF_vars(Redeliver(n)) /\ WF_vars(Clock(n))

FairSpec == Spec /\ Fairness
-----------------------------------------------------------------------------
TypeOK ==
    /\ faults \in 0..MaxFaults
    /\ row \in [Notifications -> Row]
    /\ claims \in [Notifications -> Nat]
    /\ ServerTypeOK
    /\ WorkerTypeOK
    /\ NATSTypeOK
=============================================================================
