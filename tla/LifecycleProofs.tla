--------------------------- MODULE LifecycleProofs ---------------------------
(***************************************************************************)
(* Proof, for every value of the constants, that the service implements    *)
(* NotificationLifecycle.                                                  *)
(*                                                                         *)
(* A step of the service is a step of the lifecycle, or none: the lemmas   *)
(* of the first part say which changes of the rows, the claims and the     *)
(* deliveries are which step, those of the second part find that change in *)
(* each action.                                                            *)
(***************************************************************************)
EXTENDS DeliveryProofs, TriggerProofs

LifecycleStep == [Lifecycle!Next]_(Lifecycle!lifecycleVars)

SameStatus(n) == row'[n].status = row[n].status

(***************************************************************************)
(* Changes of the state that are steps of the lifecycle.                   *)
(***************************************************************************)
LEMMA SameDeliveries ==
    ASSUME UNCHANGED sends
    PROVE  {n \in Notifications : Delivered(n)}' = {n \in Notifications : Delivered(n)}
  BY DEF Delivered

LEMMA NothingChanges ==
    ASSUME UNCHANGED <<claims, sends>>, \A n \in Notifications : SameStatus(n)
    PROVE  LifecycleStep
  <1>1. [n \in Notifications |-> row[n].status]' = [n \in Notifications |-> row[n].status]
    BY DEF SameStatus
  <1> QED BY <1>1, SameDeliveries DEF LifecycleStep, Lifecycle!lifecycleVars

LEMMA IsCreate ==
    ASSUME NEW S \in SUBSET Notifications, UNCHANGED <<claims, sends>>,
           \A n \in S : row[n].status = "absent" /\ row'[n].status = "pending",
           \A n \in Notifications \ S : SameStatus(n)
    PROVE  LifecycleStep
  <1>1. Lifecycle!Create(S)
    BY SameDeliveries DEF Lifecycle!Create, SameStatus
  <1> QED BY <1>1 DEF LifecycleStep, Lifecycle!Next

LEMMA IsRecover ==
    ASSUME NEW S \in SUBSET Notifications, UNCHANGED <<claims, sends>>,
           \A n \in S : /\ row[n].status = "processing" /\ claims[n] < MaxAttempts
                        /\ row'[n].status = "pending",
           \A n \in Notifications \ S : SameStatus(n)
    PROVE  LifecycleStep
  <1>1. Lifecycle!Recover(S)
    BY SameDeliveries DEF Lifecycle!Recover, SameStatus
  <1> QED BY <1>1 DEF LifecycleStep, Lifecycle!Next

LEMMA IsAttempt ==
    ASSUME NEW n \in Notifications, UNCHANGED sends,
           row[n].status = "pending", claims[n] < MaxAttempts,
           row'[n].status = "processing", claims' = [claims EXCEPT ![n] = @ + 1],
           \A m \in Notifications \ {n} : SameStatus(m)
    PROVE  LifecycleStep
  <1>1. Lifecycle!Attempt(n)
    BY SameDeliveries DEF Lifecycle!Attempt, SameStatus
  <1> QED BY <1>1 DEF LifecycleStep, Lifecycle!Next

LEMMA IsSettle ==
    ASSUME NEW n \in Notifications, NEW o \in {"sent", "failed"},
           UNCHANGED <<claims, sends>>,
           row[n].status # "absent", row'[n].status = o, o = "sent" => Delivered(n),
           \A m \in Notifications \ {n} : SameStatus(m)
    PROVE  LifecycleStep
  <1>1. Lifecycle!Settle(n, o)
    BY SameDeliveries DEF Lifecycle!Settle, SameStatus
  <1> QED BY <1>1 DEF LifecycleStep, Lifecycle!Next

LEMMA IsDeliver ==
    ASSUME NEW n \in Notifications, UNCHANGED <<row, claims>>, claims[n] > 0,
           Delivered(n)',
           \A m \in Notifications \ {n} : sends'[m] = sends[m]
    PROVE  LifecycleStep
  <1>1. Lifecycle!Deliver(n)
    <2>1. {m \in Notifications : Delivered(m)}' =
             {m \in Notifications : Delivered(m)} \cup {n}
      BY DEF Delivered
    <2> QED BY <2>1 DEF Lifecycle!Deliver
  <1> QED BY <1>1 DEF LifecycleStep, Lifecycle!Next

(***************************************************************************)
(* The server creates notifications, and settles those it could not        *)
(* publish.                                                                *)
(***************************************************************************)
LEMMA ServerLifecycle ==
    ASSUME Inv, DeliveryInv, NEW r \in Requests, ServerStep(r)
    PROVE  LifecycleStep
  <1>1. UNCHANGED <<claims, sends>>
    BY DEF ServerStep, ServerSave, SaveRows, SaveRowsFails, ServerPublish, Publish,
           ServerPublishFails, PublishFails, ServerMark, MarkFailed, MarkFailedFails,
           ServerReply, Reply, tableVars, workerVars
  <1>2. CASE UNCHANGED row
    BY <1>1, <1>2, NothingChanges DEF SameStatus
  <1>3. CASE Inserted(r) /\ request[r] = "new"
    <2>1. Batch[r] \in SUBSET Notifications
      BY ServerAssumption
    <2>2. \A n \in Batch[r] : row[n].status = "absent"
      BY <1>3 DEF Inv, CallInv
    <2>3. \A n \in Batch[r] : row'[n].status = "pending"
      BY <1>3, <2>1 DEF Inserted, NewNotification, BlankRow
    <2>4. \A n \in Notifications \ Batch[r] : SameStatus(n)
      BY <1>3 DEF Inserted, SameStatus
    <2> QED BY <1>1, <2>1, <2>2, <2>3, <2>4, IsCreate
  <1>4. CASE MarkFailed(r)
    <2> DEFINE n == failing[r]
    <2>1. n \in Notifications /\ row[n].status # "absent"
      BY <1>4, ServerAssumption DEF Inv, CallInv, MarkFailed
    <2>2. /\ row'[n] = [row[n] EXCEPT !.status = "failed"]
          /\ \A m \in Notifications \ {n} : row'[m] = row[m]
          /\ row[n] \in Row
      BY <1>4, <2>1 DEF Inv, TypeOK, MarkFailed
    <2>3. row'[n].status = "failed"
      BY <2>2 DEF Row
    <2>4. \A m \in Notifications \ {n} : SameStatus(m)
      BY <2>2 DEF SameStatus
    <2> QED BY <1>1, <2>1, <2>3, <2>4, IsSettle
  <1> QED BY <1>2, <1>3, <1>4 DEF ServerStep, ServerSave, SaveRows, SaveRowsFails,
          ServerPublish, Publish, ServerPublishFails, PublishFails, ServerMark,
          MarkFailedFails, ServerReply, Reply, tableVars

(***************************************************************************)
(* A claim is an attempt, even one whose worker never hears of it.         *)
(***************************************************************************)
LEMMA ClaimLifecycle ==
    ASSUME Inv, NEW w \in Workers, Claim(w) \/ ClaimNotPending(w) \/ ClaimFails(w)
    PROVE  LifecycleStep
  <1> DEFINE n == job[w]
  <1>1. n \in Notifications
    BY DEF Inv, HandlerInv, Claim, ClaimNotPending, ClaimFails
  <1>2. UNCHANGED sends
    BY DEF Claim, ClaimNotPending, ClaimFails
  <1>3. CASE TakeClaim(w)
    <2>1. /\ row'[n] = Claimed(row[n], w)
          /\ \A m \in Notifications \ {n} : row'[m] = row[m]
          /\ row[n] \in Row /\ row[n].status = "pending"
          /\ claims' = [claims EXCEPT ![n] = @ + 1]
      BY <1>1, <1>3 DEF Inv, TypeOK, TakeClaim
    <2>2. row'[n].status = "processing"
      BY <2>1, ClaimedType
    <2>3. claims[n] < MaxAttempts
      BY <1>1, <2>1 DEF Inv, ClaimsCounted
    <2>4. \A m \in Notifications \ {n} : SameStatus(m)
      BY <2>1 DEF SameStatus
    <2> QED BY <1>1, <1>2, <2>1, <2>2, <2>3, <2>4, IsAttempt
  <1>4. CASE UNCHANGED tableVars
    BY <1>2, <1>4, NothingChanges DEF SameStatus, tableVars
  <1> QED BY <1>3, <1>4 DEF Claim, ClaimNotPending, ClaimFails

(***************************************************************************)
(* Deliveries, and what is written down of them.                           *)
(***************************************************************************)
LEMMA SendLifecycle ==
    ASSUME Inv, TriggerInv, NEW w \in Workers, NEW d \in Destinations, Send(w, d)
    PROVE  LifecycleStep
  <1> DEFINE n == job[w]
  <1>1. n \in Notifications /\ phase[w] = "sending" /\ d \in DestinationsOf[n]
    BY DEF Inv, HandlerInv, Send
  <1>2. UNCHANGED <<row, claims, job>>
    BY DEF Send, tableVars
  <1>3. CASE UNCHANGED sends
    BY <1>2, <1>3, NothingChanges DEF SameStatus
  <1>4. CASE sends' = [sends EXCEPT ![n][d] = @ + 1]
    <2>1. claims[n] > 0
      BY <1>1 DEF TriggerInv, JobInv, Working
    <2>2. sends'[n][d] > 0 /\ \A m \in Notifications \ {n} : sends'[m] = sends[m]
      BY <1>1, <1>4 DEF Inv, TypeOK, WorkerTypeOK
    <2>3. Delivered(n)'
      BY <1>1, <1>2, <2>2 DEF Delivered
    <2>4. ASSUME NEW m \in Notifications, m = n PROVE LifecycleStep
      BY <1>2, <2>1, <2>2, <2>3, <2>4, IsDeliver DEF Delivered
    <2> QED BY <1>1, <2>4
  <1> QED BY <1>3, <1>4 DEF Send

LEMMA SaveRowLifecycle ==
    ASSUME Inv, DeliveryInv, NEW w \in Workers, NEW d \in Destinations, SaveRow(w, d)
    PROVE  LifecycleStep
  <1> DEFINE n == job[w]
             r == WithResult(copy[w][d], ChannelOf[d], outcome[w][d])
  <1>1. /\ n \in Notifications /\ row[n].status # "absent"
        /\ step[w][d] = "save" /\ d \in DestinationsOf[n]
        /\ outcome[w][d] \in Settled /\ copy[w][d] \in Row
    BY DEF Inv, HandlerInv, SaveRow, Working, TypeOK, WorkerTypeOK
  <1>2. r.status \in Settled
    BY <1>1, WithResultType, TableAssumption
  <1>3. Truthful(copy[w][d], n) /\ (outcome[w][d] = "sent" => sends[n][d] > 0)
    BY <1>1 DEF DeliveryInv, HonestHandler
  <1>4. r.status = "sent" => Delivered(n)
    BY <1>1, <1>3, ResultIsTruthful DEF Truthful
  <1>5. /\ row'[n] = r
        /\ \A m \in Notifications \ {n} : SameStatus(m)
        /\ UNCHANGED <<claims, sends>>
    BY <1>1 DEF Inv, TypeOK, SaveRow, SameStatus
  <1> QED BY <1>1, <1>2, <1>4, <1>5, IsSettle DEF Settled

LEMMA ReleaseLifecycle ==
    ASSUME Inv, DeliveryInv, NEW w \in Workers, Release(w)
    PROVE  LifecycleStep
  <1> DEFINE n == job[w]
  <1>1. /\ n \in Notifications /\ final[w] \in Settled
        /\ row[n] \in Row /\ row[n].status # "absent"
        /\ UNCHANGED <<claims, sends>>
    BY DEF Inv, HandlerInv, Release, Working, TypeOK
  <1>2. final[w] = "sent" => Delivered(n)
    BY DEF DeliveryInv, HonestHandler
  <1>3. CASE UNCHANGED row
    BY <1>1, <1>3, NothingChanges DEF SameStatus
  <1>4. CASE row' = [row EXCEPT ![n] = Released(@, final[w])]
    <2>1. row'[n] = Released(row[n], final[w]) /\ \A m \in Notifications \ {n} : SameStatus(m)
      BY <1>1, <1>4 DEF Inv, TypeOK, SameStatus
    <2>2. row'[n].status = final[w]
      BY <1>1, <2>1 DEF Released, Row
    <2> QED BY <1>1, <1>2, <2>1, <2>2, IsSettle DEF Settled
  <1> QED BY <1>3, <1>4 DEF Release

(***************************************************************************)
(* A reset is a recovery.                                                  *)
(***************************************************************************)
LEMMA CleanupLifecycle ==
    ASSUME Inv, NEW w \in Workers, Cleanup(w)
    PROVE  LifecycleStep
  <1>1. PICK stuck \in SUBSET {n \in Notifications : MayBeStuck(n)} :
           row' = [n \in Notifications |->
                     IF n \in stuck THEN Reset(row[n]) ELSE row[n]]
    BY DEF Cleanup, ResetStuckNotifications
  <1>2. \A n \in stuck : row[n].status = "processing" /\ claims[n] < MaxAttempts
    BY DEF MayBeStuck, Resettable, Inv, ClaimsCounted
  <1>3. \A n \in stuck : row'[n].status = "pending"
    BY <1>1, ResetType DEF Inv, TypeOK
  <1>4. \A n \in Notifications \ stuck : SameStatus(n)
    BY <1>1 DEF SameStatus
  <1>5. UNCHANGED <<claims, sends>>
    BY DEF Cleanup, ResetStuckNotifications, workerVars
  <1> QED BY <1>2, <1>3, <1>4, <1>5, IsRecover

(***************************************************************************)
(* Everything else happens inside.                                         *)
(***************************************************************************)
LEMMA IdleLifecycle ==
    ASSUME UNCHANGED tableVars, UNCHANGED sends
    PROVE  LifecycleStep
  BY NothingChanges DEF SameStatus, tableVars

LEMMA StepLifecycle ==
    ASSUME Inv, DeliveryInv, TriggerInv, [Next]_vars
    PROVE  LifecycleStep
  <1>1. ASSUME NEW r \in Requests, ServerStep(r) PROVE LifecycleStep
    BY <1>1, ServerLifecycle
  <1>2. CASE ServerFault
    BY <1>2, IdleLifecycle DEF ServerFault, Expire, ServerCrash, workerVars
  <1>3. ASSUME NEW w \in Workers, WorkerLoop(w) PROVE LifecycleStep
    <2>1. CASE Poll(w) \/ PollTimesOut(w) \/ Handle(w) \/ Answer(w)
      BY <2>1, IdleLifecycle DEF Poll, PollTimesOut, Handle, Receive, ReceiveFails, Answer,
         NextMessage
    <2>2. ASSUME NEW d \in Destinations, ReadRow(w, d) \/ RecordFails(w, d)
          PROVE  LifecycleStep
      BY <2>2, IdleLifecycle DEF ReadRow, RecordFails
    <2>3. CASE Decide(w)
      BY <2>3, IdleLifecycle DEF Decide
    <2> QED BY <1>3, <2>1, <2>2, <2>3, ClaimLifecycle, SendLifecycle, SaveRowLifecycle,
            ReleaseLifecycle DEF WorkerLoop, Work
  <1>4. ASSUME NEW w \in Workers, WorkerShutdown(w) \/ WorkerEnds(w) PROVE LifecycleStep
    BY <1>4, IdleLifecycle DEF WorkerShutdown, Shutdown, WorkerEnds, Exit, Crash, Leave
  <1>5. ASSUME NEW n \in Notifications, Redeliver(n) \/ Clock(n) PROVE LifecycleStep
    BY <1>5, IdleLifecycle DEF Redeliver, Clock, ScheduleArrives, workerVars
  <1>6. CASE UNCHANGED vars
    BY <1>6, IdleLifecycle DEF vars, workerVars
  <1> QED BY <1>1, <1>2, <1>3, <1>4, <1>5, <1>6, CleanupLifecycle DEF Next

LEMMA InitLifecycle ==
    ASSUME Init PROVE Lifecycle!Init
  <1>1. \A n \in Notifications : row[n].status = "absent"
    BY DEF Init, TableInit, Absent, BlankRow
  <1>2. \A n \in Notifications : ~Delivered(n)
    BY TableAssumption DEF Init, WorkerInit, Delivered
  <1>3. claims = [n \in Notifications |-> 0]
    BY DEF Init, TableInit
  <1> QED BY <1>1, <1>2, <1>3 DEF Lifecycle!Init

(***************************************************************************)
(* The theorem.                                                            *)
(***************************************************************************)

(* Through every interleaving, fault and restart the service keeps the     *)
(* promise of NotificationLifecycle: bounded attempts, each after a        *)
(* recovery, "sent" only for what was delivered, and nothing attempted     *)
(* again once it is settled.                                               *)
THEOREM ServiceImplementsLifecycle == Spec => ImplementsLifecycle
  <1>1. Init => Lifecycle!Init
    BY InitLifecycle
  <1>2. Inv /\ DeliveryInv /\ TriggerInv /\ [Next]_vars
           => [Lifecycle!Next]_(Lifecycle!lifecycleVars)
    BY StepLifecycle DEF LifecycleStep
  <1> QED BY <1>1, <1>2, InvHolds, DeliveryInvHolds, TriggerInvHolds, PTL
          DEF Spec, ImplementsLifecycle, Lifecycle!Spec

=============================================================================
