---------------------------- MODULE TriggerProofs ----------------------------
(***************************************************************************)
(* Proof, for every value of the constants, of what ties a notification to *)
(* its message and to its schedule.                                        *)
(*                                                                         *)
(* NotBeforeSchedule and UnclaimedKeepsMessage are broken, if at all, by a *)
(* step far from the one that looked at the schedule or at the row: the    *)
(* handler checks schedule_at when it receives the message and sends two   *)
(* statements later, it finds the row not pending and acknowledges the     *)
(* message after others have reset that row.  JobInv says what a handler   *)
(* still knows by then.                                                    *)
(***************************************************************************)
EXTENDS TellerProofs

(***************************************************************************)
(* What no step does to the table: claims are never taken back, rows never *)
(* deleted, and a row becomes pending unclaimed only as it is inserted.    *)
(***************************************************************************)
TableForward ==
    \A n \in Notifications :
        /\ claims'[n] \in Nat /\ claims[n] <= claims'[n]
        /\ row'[n].status = "absent" => row[n].status = "absent"
        /\ Unclaimed(n)' => Unclaimed(n) \/ row[n].status = "absent"
        /\ row'[n].status = "processing" => claims'[n] > 0

(* The messages and the deliveries of a step that acknowledges nothing and *)
(* sends nothing.                                                          *)
BrokerForward ==
    /\ UNCHANGED sends
    /\ \A n \in Notifications :
          /\ message'[n] = "acked" => message[n] = "acked"
          /\ row[n].status = "absent" => message'[n] = message[n]

LEMMA SameTable ==
    ASSUME Inv, TriggerInv, UNCHANGED tableVars
    PROVE  TableForward
  BY DEF TableForward, tableVars, TriggerInv, TriggerKept, Unclaimed, Inv, TypeOK

LEMMA SameBroker ==
    ASSUME UNCHANGED <<sends, message>>
    PROVE  BrokerForward
  BY DEF BrokerForward

LEMMA NotificationsKept ==
    ASSUME Inv, TriggerInv, TableForward, BrokerForward, due \subseteq due'
    PROVE  \A n \in Notifications : TriggerKept(n)'
  BY DEF Inv, TypeOK, TriggerInv, TriggerKept, TableForward, BrokerForward, Unclaimed,
         Delivered

(* A worker that takes no part in a step keeps what it knows.              *)
LEMMA JobKept ==
    ASSUME Inv, TriggerInv, TableForward, due \subseteq due', NEW v \in Workers,
           phase'[v] = phase[v], job'[v] = job[v]
    PROVE  JobInv(v)'
  <1>1. phase[v] \in {"claiming", "acking"} \/ Working(v) => job[v] \in Notifications
    BY DEF Inv, HandlerInv, Working
  <1>2. JobInv(v)
    BY DEF TriggerInv
  <1>3. CASE phase[v] \in {"claiming", "acking"} \/ Working(v)
    <2> DEFINE n == job[v]
    <2>1. /\ n \in Notifications
          /\ claims[n] \in Nat /\ claims'[n] \in Nat /\ claims[n] <= claims'[n]
      BY <1>1, <1>3 DEF Inv, TypeOK, TableForward
    <2>2. row[n].status # "absent" /\ row'[n].status # "absent"
      BY <1>2, <1>3, <2>1 DEF JobInv, TableForward
    <2>3. Unclaimed(n)' => Unclaimed(n)
      BY <2>1, <2>2 DEF TableForward
    <2>4. Working(v) => claims'[n] > 0
      BY <1>2, <2>1 DEF JobInv
    <2> QED BY <1>2, <2>2, <2>3, <2>4 DEF JobInv, Working, Unclaimed
  <1>4. CASE ~(phase[v] \in {"claiming", "acking"} \/ Working(v))
    BY <1>4 DEF JobInv, Working
  <1> QED BY <1>3, <1>4

(* Steps of other parts of the system.                                     *)
LEMMA JobsKept ==
    ASSUME Inv, TriggerInv, TableForward, BrokerForward, due \subseteq due',
           UNCHANGED <<phase, job>>
    PROVE  TriggerInv'
  BY NotificationsKept, JobKept DEF TriggerInv

(* Steps of the loop or the handler of w.                                  *)
LEMMA WorkerKept ==
    ASSUME Inv, TriggerInv, TableForward, BrokerForward, due \subseteq due',
           NEW w \in Workers, JobInv(w)',
           \A v \in Workers \ {w} : phase'[v] = phase[v] /\ job'[v] = job[v]
    PROVE  TriggerInv'
  BY NotificationsKept, JobKept DEF TriggerInv

(***************************************************************************)
(* The server.                                                             *)
(***************************************************************************)
LEMMA ServerTrigger ==
    ASSUME Inv, TriggerInv, NEW r \in Requests, ServerStep(r)
    PROVE  TriggerInv'
  <1>1. UNCHANGED <<claims, workerVars>>
    BY DEF ServerStep, ServerSave, SaveRows, SaveRowsFails, ServerPublish, Publish,
           ServerPublishFails, PublishFails, ServerMark, MarkFailed, MarkFailedFails,
           ServerReply, Reply, tableVars
  <1>2. UNCHANGED <<phase, job, due, sends>>
    BY <1>1 DEF workerVars
  <1>3. TableForward
    <2>1. CASE UNCHANGED row
      BY <1>1, <2>1, SameTable DEF tableVars
    <2>2. CASE Inserted(r) /\ request[r] = "new"
      <3>1. \A n \in Batch[r] : row[n].status = "absent"
        BY <2>2 DEF Inv, CallInv
      <3>2. \A n \in Notifications \ Batch[r] : row'[n] = row[n]
        BY <2>2 DEF Inserted
      <3>3. \A n \in Notifications \cap Batch[r] : row'[n].status = "pending"
        BY <2>2 DEF Inserted, NewNotification, BlankRow
      <3> QED BY <1>1, <3>1, <3>2, <3>3
              DEF TableForward, TriggerInv, TriggerKept, Unclaimed, Inv, TypeOK
    <2>3. CASE MarkFailed(r)
      <3> DEFINE n == failing[r]
      <3>1. n \in Notifications
        BY <2>3, ServerAssumption DEF Inv, CallInv, MarkFailed
      <3>2. /\ row'[n] = [row[n] EXCEPT !.status = "failed"]
            /\ \A m \in Notifications \ {n} : row'[m] = row[m]
            /\ row[n] \in Row
        BY <2>3, <3>1 DEF Inv, TypeOK, MarkFailed
      <3>3. row'[n].status = "failed"
        BY <3>2 DEF Row
      <3>4. row[n].status # "absent"
        BY <2>3 DEF Inv, CallInv, MarkFailed
      <3>5. \A m \in Notifications : claims[m] \in Nat /\ claims'[m] = claims[m]
        BY <1>1 DEF Inv, TypeOK
      <3>6. \A m \in Notifications :
               /\ row'[m].status = "absent" => row[m].status = "absent"
               /\ row'[m].status \in {"pending", "processing"} =>
                     row[m].status = row'[m].status
        BY <3>2, <3>3, <3>4
      <3>7. \A m \in Notifications : row[m].status = "processing" => claims[m] > 0
        BY DEF TriggerInv, TriggerKept
      <3> QED BY <3>5, <3>6, <3>7 DEF TableForward, Unclaimed
    <2> QED BY <2>1, <2>2, <2>3 DEF ServerStep, ServerSave, SaveRows, SaveRowsFails,
            ServerPublish, Publish, ServerPublishFails, PublishFails, ServerMark,
            MarkFailedFails, ServerReply, Reply, tableVars
  <1>4. BrokerForward
    <2>1. CASE UNCHANGED natsVars
      BY <1>2, <2>1, SameBroker DEF natsVars
    <2>2. ASSUME NEW n \in Notifications, Publishing(r, n), Enqueue(n)
          PROVE  BrokerForward
      <3>1. row[n].status # "absent"
        BY <2>2 DEF Inv, CallInv, Publishing
      <3> QED BY <1>2, <2>2, <3>1 DEF BrokerForward, Enqueue, Inv, TypeOK, NATSTypeOK
    <2> QED BY <2>1, <2>2 DEF ServerStep, ServerSave, ServerPublish, Publish,
            ServerPublishFails, PublishFails, ServerMark, ServerReply
  <1> QED BY <1>2, <1>3, <1>4, JobsKept

(***************************************************************************)
(* The subscription loop.                                                  *)
(***************************************************************************)
LEMMA PollTrigger ==
    ASSUME Inv, TriggerInv, NEW w \in Workers, Poll(w) \/ PollTimesOut(w)
    PROVE  TriggerInv'
  <1>1. TableForward /\ UNCHANGED <<due, sends>>
    BY SameTable DEF Poll, PollTimesOut
  <1>2. BrokerForward
    <2>1. CASE PollTimesOut(w)
      BY <2>1, SameBroker DEF PollTimesOut, natsVars
    <2>2. CASE Poll(w)
      <3>1. \A n \in Notifications :
               message'[n] = message[n] \/ (message[n] = "queued" /\ message'[n] = "inflight")
        BY <2>2 DEF Poll, Fetch
      <3> QED BY <1>1, <3>1 DEF BrokerForward, TriggerInv, TriggerKept
    <2> QED BY <2>1, <2>2
  <1>3. /\ phase'[w] \in {"handling", "unsubscribed"}
        /\ \A v \in Workers \ {w} : phase'[v] = phase[v] /\ job'[v] = job[v]
    BY DEF Inv, TypeOK, WorkerTypeOK, Poll, PollTimesOut, Goto
  <1>4. JobInv(w)'
    BY <1>3 DEF JobInv, Working
  <1> QED BY <1>1, <1>2, <1>3, <1>4, WorkerKept

(* The wrapper looks at the row and at its schedule.                       *)
LEMMA HandleTrigger ==
    ASSUME Inv, TriggerInv, NEW w \in Workers, Handle(w)
    PROVE  TriggerInv'
  <1>1. PICK n \in inbox[w] : Receive(w, n) \/ ReceiveFails(w, n)
    BY DEF Handle
  <1>2. n \in Notifications
    BY DEF Inv, TypeOK, NATSTypeOK
  <1>3. UNCHANGED tableVars /\ UNCHANGED <<due, sends, message>>
    BY <1>1 DEF Handle, Receive, ReceiveFails, natsVars
  <1>4. TableForward /\ BrokerForward
    BY <1>3, SameTable, SameBroker
  <1>5. /\ job'[w] = n
        /\ \A v \in Workers \ {w} : phase'[v] = phase[v] /\ job'[v] = job[v]
    BY <1>1, <1>2 DEF Inv, TypeOK, WorkerTypeOK, Receive, ReceiveFails, Goto
  <1>6. CASE Receive(w, n)
    <2>1. /\ row[n].status # "absent"
          /\ phase'[w] = IF n \in due THEN "claiming" ELSE "acking"
      BY <1>6 DEF Inv, TypeOK, WorkerTypeOK, Receive, Goto
    <2>2. n \notin Scheduled => n \in due
      BY <1>2 DEF TriggerInv, TriggerKept
    <2>3. JobInv(w)'
      BY <1>3, <1>5, <2>1, <2>2 DEF JobInv, Working, tableVars
    <2> QED BY <1>3, <1>4, <1>5, <2>3, WorkerKept
  <1>7. CASE ReceiveFails(w, n)
    <2>1. phase'[w] = "naking"
      BY <1>7 DEF Inv, TypeOK, WorkerTypeOK, ReceiveFails, Goto
    <2>2. JobInv(w)'
      BY <2>1 DEF JobInv, Working
    <2> QED BY <1>3, <1>4, <1>5, <2>2, WorkerKept
  <1> QED BY <1>1, <1>6, <1>7

(* The one step that removes a message.                                    *)
LEMMA AnswerTrigger ==
    ASSUME Inv, TriggerInv, NEW w \in Workers, Answer(w)
    PROVE  TriggerInv'
  <1> DEFINE n == job[w]
  <1>1. n \in Notifications
    BY DEF Inv, HandlerInv, Answer
  <1>2. UNCHANGED tableVars /\ UNCHANGED <<due, sends>>
    BY DEF Answer, NextMessage
  <1>3. TableForward
    BY <1>2, SameTable
  <1>4. /\ phase'[w] \in {"handling", "polling", "unsubscribed"}
        /\ \A v \in Workers \ {w} : phase'[v] = phase[v] /\ job'[v] = job[v]
    BY DEF Inv, TypeOK, WorkerTypeOK, Answer, NextMessage, Goto
  <1>5. JobInv(w)'
    BY <1>4 DEF JobInv, Working
  <1>6. CASE ~(phase[w] = "acking" /\ Ack(w, n))
    <2>1. Nak(w, n) \/ UNCHANGED message
      BY <1>6 DEF Answer, AnswerLost
    <2>2. ASSUME NEW m \in Notifications
          PROVE  message'[m] = message[m]
                    \/ (message[m] = "inflight" /\ message'[m] \in {"queued", "dead"})
      BY <1>1, <2>1 DEF Nak, Redelivery, Inv, TypeOK, NATSTypeOK
    <2>3. BrokerForward
      BY <1>2, <2>2 DEF BrokerForward, TriggerInv, TriggerKept
    <2> QED BY <1>2, <1>3, <1>4, <1>5, <2>3, WorkerKept
  <1>7. CASE phase[w] = "acking" /\ Ack(w, n)
    <2>1. \A m \in Notifications \ {n} : message'[m] = message[m]
      BY <1>1, <1>7 DEF Ack, Inv, TypeOK, NATSTypeOK
    <2>2. row[n].status # "absent" /\ (n \notin Scheduled => ~Unclaimed(n))
      BY <1>7 DEF TriggerInv, JobInv
    <2>3. \A m \in Notifications : TriggerKept(m)'
      BY <1>1, <1>2, <2>1, <2>2 DEF TriggerInv, TriggerKept, Unclaimed, Delivered, tableVars
    <2>4. \A v \in Workers \ {w} : JobInv(v)'
      BY <1>2, <1>3, <1>4, JobKept
    <2> QED BY <1>5, <2>3, <2>4 DEF TriggerInv
  <1> QED BY <1>6, <1>7

(***************************************************************************)
(* The claim.                                                              *)
(***************************************************************************)
LEMMA TakeClaimForward ==
    ASSUME Inv, TriggerInv, NEW w \in Workers, job[w] \in Notifications, TakeClaim(w)
    PROVE  TableForward /\ claims'[job[w]] > 0 /\ row'[job[w]].status = "processing"
  <1> DEFINE n == job[w]
  <1>1. /\ row'[n] = Claimed(row[n], w) /\ claims'[n] = claims[n] + 1
        /\ \A m \in Notifications \ {n} : row'[m] = row[m] /\ claims'[m] = claims[m]
        /\ row[n] \in Row
        /\ \A m \in Notifications : claims[m] \in Nat
    BY DEF Inv, TypeOK, TakeClaim
  <1>2. row'[n].status = "processing" /\ row[n].status = "pending"
    BY <1>1, ClaimedType DEF TakeClaim
  <1>3. \A m \in Notifications : row[m].status = "processing" => claims[m] > 0
    BY DEF TriggerInv, TriggerKept
  <1>4. ASSUME NEW m \in Notifications \ {n}
        PROVE  /\ row'[m] = row[m] /\ claims'[m] = claims[m]
               /\ Unclaimed(m)' => Unclaimed(m)
    BY <1>1 DEF Unclaimed
  <1>5. claims'[n] \in Nat /\ claims[n] <= claims'[n] /\ claims'[n] > 0
    BY <1>1
  <1>6. ASSUME NEW m \in Notifications, m = n
        PROVE  ~Unclaimed(m)'
    BY <1>2, <1>6 DEF Unclaimed
  <1>7. TableForward
    BY <1>1, <1>2, <1>3, <1>4, <1>5, <1>6 DEF TableForward
  <1> QED BY <1>2, <1>5, <1>7

LEMMA ClaimTrigger ==
    ASSUME Inv, TriggerInv, NEW w \in Workers, UNCHANGED natsVars,
           Claim(w) \/ ClaimNotPending(w) \/ ClaimFails(w)
    PROVE  TriggerInv'
  <1> DEFINE n == job[w]
  <1>1. n \in Notifications /\ phase[w] = "claiming"
    BY DEF Inv, HandlerInv, Claim, ClaimNotPending, ClaimFails
  <1>2. UNCHANGED <<job, due, sends, message>>
    BY DEF Claim, ClaimNotPending, ClaimFails, natsVars
  <1>3. BrokerForward
    BY <1>2, SameBroker
  <1>4. TableForward
    BY <1>1, TakeClaimForward, SameTable DEF Claim, ClaimNotPending, ClaimFails
  <1>5. \A v \in Workers \ {w} : phase'[v] = phase[v] /\ job'[v] = job[v]
    BY <1>2 DEF Inv, TypeOK, WorkerTypeOK, Claim, ClaimNotPending, ClaimFails, Goto
  <1>6. JobInv(w)
    BY DEF TriggerInv
  <1>7. CASE Claim(w)
    <2>1. phase'[w] = "sending"
      BY <1>7 DEF Inv, TypeOK, WorkerTypeOK, Claim, Goto
    <2>2. claims'[n] > 0 /\ row'[n].status = "processing"
      BY <1>1, <1>7, TakeClaimForward DEF Claim
    <2>3. JobInv(w)'
      BY <1>1, <1>2, <1>6, <2>1, <2>2 DEF JobInv, Working
    <2> QED BY <1>2, <1>3, <1>4, <1>5, <2>3, WorkerKept
  <1>8. CASE ClaimNotPending(w)
    <2>1. phase'[w] = "acking" /\ UNCHANGED tableVars
      BY <1>8 DEF Inv, TypeOK, WorkerTypeOK, ClaimNotPending, Goto
    <2>2. row[n].status \notin {"absent", "pending"}
      BY <1>1, <1>6, <1>8 DEF JobInv, ClaimNotPending
    <2>3. JobInv(w)'
      BY <1>2, <2>1, <2>2 DEF JobInv, Working, Unclaimed, tableVars
    <2> QED BY <1>2, <1>3, <1>4, <1>5, <2>3, WorkerKept
  <1>9. CASE ClaimFails(w)
    <2>1. phase'[w] = "naking"
      BY <1>9 DEF Inv, TypeOK, WorkerTypeOK, ClaimFails, Goto
    <2>2. JobInv(w)'
      BY <2>1 DEF JobInv, Working
    <2> QED BY <1>2, <1>3, <1>4, <1>5, <2>2, WorkerKept
  <1> QED BY <1>7, <1>8, <1>9

(***************************************************************************)
(* The goroutines.                                                         *)
(***************************************************************************)
LEMMA SendTrigger ==
    ASSUME Inv, TriggerInv, NEW w \in Workers, NEW d \in Destinations, Send(w, d),
           UNCHANGED natsVars
    PROVE  TriggerInv'
  <1> DEFINE n == job[w]
  <1>1. n \in Notifications /\ phase[w] = "sending"
    BY DEF Inv, HandlerInv, Send
  <1>2. UNCHANGED tableVars /\ UNCHANGED <<phase, job, due, message>>
    BY DEF Send, natsVars
  <1>3. n \in due
    BY <1>1 DEF TriggerInv, JobInv, Working
  <1>4. TableForward
    BY <1>2, SameTable
  <1>5. \A m \in Notifications \ {n} : sends'[m] = sends[m]
    BY <1>1 DEF Inv, TypeOK, WorkerTypeOK, Send
  <1>6. \A m \in Notifications : TriggerKept(m)'
    BY <1>2, <1>3, <1>5 DEF TriggerInv, TriggerKept, Unclaimed, Delivered, tableVars
  <1>7. \A v \in Workers : JobInv(v)'
    BY <1>2, <1>4, JobKept
  <1> QED BY <1>6, <1>7 DEF TriggerInv

(* UpdateChannelResult writes a settled row.                               *)
LEMMA SaveRowForward ==
    ASSUME Inv, TriggerInv, NEW w \in Workers, NEW d \in Destinations, SaveRow(w, d)
    PROVE  TableForward
  <1> DEFINE n == job[w]
             r == WithResult(copy[w][d], ChannelOf[d], outcome[w][d])
  <1>1. /\ n \in Notifications /\ row[n].status # "absent"
        /\ d \in DestinationsOf[n] /\ outcome[w][d] \in Settled
    BY DEF Inv, HandlerInv, SaveRow, Working
  <1>2. r \in Row /\ r.status \in Settled
    BY <1>1, WithResultType, TableAssumption DEF Inv, TypeOK, WorkerTypeOK
  <1>3. /\ row'[n] = r
        /\ \A m \in Notifications \ {n} : row'[m] = row[m]
        /\ \A m \in Notifications : claims[m] \in Nat /\ claims'[m] = claims[m]
    BY <1>1 DEF Inv, TypeOK, SaveRow
  <1>4. \A m \in Notifications :
           /\ row'[m].status = "absent" => row[m].status = "absent"
           /\ row'[m].status \in {"pending", "processing"} =>
                 row[m].status = row'[m].status
    BY <1>1, <1>2, <1>3 DEF Settled
  <1>5. \A m \in Notifications : row[m].status = "processing" => claims[m] > 0
    BY DEF TriggerInv, TriggerKept
  <1> QED BY <1>3, <1>4, <1>5 DEF TableForward, Unclaimed

LEMMA RecordTrigger ==
    ASSUME Inv, TriggerInv, NEW w \in Workers, NEW d \in Destinations,
           ReadRow(w, d) \/ SaveRow(w, d) \/ RecordFails(w, d), UNCHANGED natsVars
    PROVE  TriggerInv'
  <1>1. UNCHANGED <<phase, job, due, sends, message>>
    BY DEF ReadRow, SaveRow, RecordFails, natsVars
  <1>2. TableForward
    BY SaveRowForward, SameTable DEF ReadRow, RecordFails
  <1> QED BY <1>1, <1>2, SameBroker, JobsKept

(***************************************************************************)
(* The decision and the release.                                           *)
(***************************************************************************)
LEMMA DecideTrigger ==
    ASSUME Inv, TriggerInv, NEW w \in Workers, Decide(w), UNCHANGED natsVars
    PROVE  TriggerInv'
  <1>1. UNCHANGED tableVars /\ UNCHANGED <<job, due, sends, message>>
    BY DEF Decide, natsVars
  <1>2. /\ phase[w] = "sending" /\ phase'[w] = "releasing"
        /\ \A v \in Workers \ {w} : phase'[v] = phase[v] /\ job'[v] = job[v]
    BY <1>1 DEF Inv, TypeOK, WorkerTypeOK, Decide, Goto
  <1>3. JobInv(w)'
    BY <1>1, <1>2 DEF TriggerInv, JobInv, Working, tableVars
  <1> QED BY <1>1, <1>2, <1>3, SameTable, SameBroker, WorkerKept

LEMMA ReleaseTrigger ==
    ASSUME Inv, TriggerInv, NEW w \in Workers, Release(w), UNCHANGED natsVars
    PROVE  TriggerInv'
  <1> DEFINE n == job[w]
  <1>1. UNCHANGED <<claims, job, due, sends, message>>
    BY DEF Release, natsVars
  <1>2. /\ phase[w] = "releasing" /\ phase'[w] = "acking"
        /\ \A v \in Workers \ {w} : phase'[v] = phase[v] /\ job'[v] = job[v]
    BY <1>1 DEF Inv, TypeOK, WorkerTypeOK, Release, Goto
  <1>3. n \in Notifications /\ final[w] \in Settled /\ row[n].status # "absent"
    BY <1>2 DEF Inv, HandlerInv, Working
  <1>4. claims[n] > 0
    BY <1>2 DEF TriggerInv, JobInv, Working
  <1>5. \A m \in Notifications : claims[m] \in Nat /\ claims'[m] = claims[m]
    BY <1>1 DEF Inv, TypeOK
  <1>6. \A m \in Notifications :
           /\ row'[m].status = "absent" => row[m].status = "absent"
           /\ row'[m].status \in {"pending", "processing"} =>
                 row[m].status = row'[m].status
    <2>1. CASE row' = [row EXCEPT ![n] = Released(@, final[w])]
      <3>1. /\ row'[n] = Released(row[n], final[w]) /\ row[n] \in Row
            /\ \A m \in Notifications \ {n} : row'[m] = row[m]
        BY <1>3, <2>1 DEF Inv, TypeOK
      <3>2. row'[n].status \in Settled
        BY <1>3, <3>1 DEF Released, Row
      <3> QED BY <3>1, <3>2 DEF Settled
    <2> QED BY <2>1 DEF Release
  <1>7. \A m \in Notifications : row[m].status = "processing" => claims[m] > 0
    BY DEF TriggerInv, TriggerKept
  <1>8. TableForward
    BY <1>5, <1>6, <1>7 DEF TableForward, Unclaimed
  <1>9. JobInv(w)'
    BY <1>1, <1>2, <1>3, <1>4, <1>6 DEF JobInv, Working, Unclaimed
  <1> QED BY <1>1, <1>2, <1>8, <1>9, SameBroker, WorkerKept

(***************************************************************************)
(* The cleanup and the end of a worker.                                    *)
(***************************************************************************)
LEMMA CleanupTrigger ==
    ASSUME Inv, TriggerInv, NEW w \in Workers, Cleanup(w)
    PROVE  TriggerInv'
  <1>1. UNCHANGED <<claims, phase, job, due, sends, message>>
    BY DEF Cleanup, ResetStuckNotifications, workerVars, natsVars
  <1>2. ASSUME NEW n \in Notifications
        PROVE  \/ row'[n] = row[n]
               \/ row[n].status = "processing" /\ row'[n].status = "pending"
    <2>1. row'[n] = row[n] \/ (row'[n] = Reset(row[n]) /\ row[n].status = "processing")
      BY DEF Cleanup, ResetStuckNotifications, MayBeStuck, Resettable
    <2>2. Reset(row[n]).status = "pending"
      BY ResetType DEF Inv, TypeOK
    <2> QED BY <2>1, <2>2
  <1>3. \A n \in Notifications : row[n].status = "processing" => claims[n] > 0
    BY DEF TriggerInv, TriggerKept
  <1>4. \A n \in Notifications : claims[n] \in Nat /\ claims'[n] = claims[n]
    BY <1>1 DEF Inv, TypeOK
  <1>5. TableForward
    BY <1>2, <1>3, <1>4 DEF TableForward, Unclaimed
  <1> QED BY <1>1, <1>5, SameBroker, JobsKept

LEMMA EndsTrigger ==
    ASSUME Inv, TriggerInv, NEW w \in Workers, WorkerEnds(w)
    PROVE  TriggerInv'
  <1>1. UNCHANGED tableVars /\ UNCHANGED <<due, sends, message>>
    BY DEF WorkerEnds, Exit, Crash, Leave, DropInbox
  <1>2. /\ phase'[w] = "down"
        /\ \A v \in Workers \ {w} : phase'[v] = phase[v] /\ job'[v] = job[v]
    BY DEF Inv, TypeOK, WorkerTypeOK, WorkerEnds, Exit, Crash, Leave, Goto
  <1>3. JobInv(w)'
    BY <1>2 DEF JobInv, Working
  <1> QED BY <1>1, <1>2, <1>3, SameTable, SameBroker, WorkerKept

(***************************************************************************)
(* Time.                                                                   *)
(***************************************************************************)
LEMMA ClockTrigger ==
    ASSUME Inv, TriggerInv, NEW n \in Notifications, Redeliver(n) \/ Clock(n)
    PROVE  TriggerInv'
  <1>1. UNCHANGED tableVars /\ UNCHANGED <<phase, job, sends>> /\ due \subseteq due'
    BY DEF Redeliver, Clock, ScheduleArrives, workerVars
  <1>2. BrokerForward
    <2>1. CASE Redeliver(n)
      <3>1. /\ message[n] = "inflight" /\ message'[n] \in {"queued", "dead"}
            /\ \A m \in Notifications \ {n} : message'[m] = message[m]
        BY <2>1 DEF Inv, TypeOK, NATSTypeOK, Redeliver, AckWaitExpires, Redelivery
      <3> QED BY <1>1, <3>1 DEF BrokerForward, TriggerInv, TriggerKept
    <2>2. CASE Clock(n)
      BY <1>1, <2>2, SameBroker DEF Clock, natsVars
    <2> QED BY <2>1, <2>2
  <1> QED BY <1>1, <1>2, SameTable, JobsKept

(***************************************************************************)
(* The next-state relation, and the theorems.                              *)
(***************************************************************************)
LEMMA InitTrigger ==
    ASSUME Init PROVE TriggerInv
  <1> USE DEF Init
  <1>1. ASSUME NEW n \in Notifications PROVE TriggerKept(n)
    <2>1. row[n].status = "absent" /\ message[n] = "none"
      BY DEF TableInit, NATSInit, Absent, BlankRow
    <2>2. n \notin Scheduled => n \in due
      BY DEF WorkerInit
    <2>3. ~Delivered(n)
      BY TableAssumption DEF Delivered, WorkerInit
    <2> QED BY <2>1, <2>2, <2>3 DEF TriggerKept
  <1>2. ASSUME NEW w \in Workers PROVE JobInv(w)
    BY DEF WorkerInit, JobInv, Working
  <1> QED BY <1>1, <1>2 DEF TriggerInv

LEMMA IdleTrigger ==
    ASSUME Inv, TriggerInv, UNCHANGED tableVars, UNCHANGED <<phase, job, due, sends, message>>
    PROVE  TriggerInv'
  BY SameTable, SameBroker, JobsKept

LEMMA NextTrigger ==
    ASSUME Inv, TriggerInv, [Next]_vars
    PROVE  TriggerInv'
  <1>1. ASSUME NEW r \in Requests, ServerStep(r) PROVE TriggerInv'
    BY <1>1, ServerTrigger
  <1>2. CASE ServerFault
    BY <1>2, IdleTrigger DEF ServerFault, Expire, ServerCrash, workerVars, natsVars
  <1>3. ASSUME NEW w \in Workers, WorkerLoop(w) PROVE TriggerInv'
    <2>1. CASE Work(w)
      <3>1. UNCHANGED natsVars
        BY <2>1 DEF Work
      <3> QED BY <2>1, <3>1, ClaimTrigger, SendTrigger, RecordTrigger, DecideTrigger,
              ReleaseTrigger DEF Work
    <2> QED BY <1>3, <2>1, PollTrigger, HandleTrigger, AnswerTrigger DEF WorkerLoop
  <1>4. ASSUME NEW w \in Workers, WorkerShutdown(w) PROVE TriggerInv'
    BY <1>4, IdleTrigger DEF WorkerShutdown, Shutdown, natsVars
  <1>5. CASE UNCHANGED vars
    BY <1>5, IdleTrigger DEF vars, workerVars, natsVars
  <1> QED BY <1>1, <1>2, <1>3, <1>4, <1>5, CleanupTrigger, EndsTrigger, ClockTrigger
          DEF Next

(* What handlers rely on between their steps holds at all times.           *)
THEOREM TriggerInvHolds == Spec => []TriggerInv
  <1>1. Init => TriggerInv
    BY InitTrigger
  <1>2. Inv /\ TriggerInv /\ [Next]_vars => TriggerInv'
    BY NextTrigger
  <1> QED BY <1>1, <1>2, InvHolds, PTL DEF Spec

(* No provider is asked to deliver a notification before its schedule,     *)
(* however long after the look at schedule_at the goroutines run.          *)
THEOREM ScheduleRespected == Spec => []NotBeforeSchedule
  <1>1. TriggerInv => NotBeforeSchedule
    BY DEF TriggerInv, TriggerKept, NotBeforeSchedule
  <1> QED BY <1>1, TriggerInvHolds, PTL

(* No worker acknowledges the message of an unscheduled notification whose *)
(* row still waits for its first claim.                                    *)
THEOREM UnclaimedNotForgotten == Spec => []UnclaimedKeepsMessage
  <1>1. TriggerInv => UnclaimedKeepsMessage
    BY DEF TriggerInv, TriggerKept, Unclaimed, UnclaimedKeepsMessage
  <1> QED BY <1>1, TriggerInvHolds, PTL

=============================================================================
