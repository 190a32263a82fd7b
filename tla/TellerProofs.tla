---------------------------- MODULE TellerProofs ----------------------------
(***************************************************************************)
(* Proofs, for every value of the constants, that Teller keeps Inv, and of *)
(* the properties that follow from it.                                     *)
(***************************************************************************)
EXTENDS TellerInvariant, TLAPS

(***************************************************************************)
(* The statements on the table leave a row.                                *)
(***************************************************************************)
LEMMA BlankRowType ==
    /\ Absent \in Row /\ Absent.status = "absent"
    /\ NewNotification \in Row
    /\ NewNotification.status = "pending" /\ NewNotification.attempts = 0
    /\ NewNotification.worker = NoWorker /\ ~NewNotification.started
  BY DEF Absent, NewNotification, BlankRow, NoResults, Row, Statuses, Settled

LEMMA ClaimedType ==
    ASSUME NEW r \in Row, NEW w \in Workers
    PROVE  /\ Claimed(r, w) \in Row
           /\ Claimed(r, w).status = "processing"
           /\ Claimed(r, w).worker = w /\ Claimed(r, w).started
           /\ Claimed(r, w).attempts = r.attempts + 1
  <1>1. Claimed(r, w) \in Row
    <2>1. r.attempts + 1 \in Nat
      BY DEF Row
    <2>2. \A a \in Nat :
             [r EXCEPT !.status = "processing", !.worker = w,
                       !.started = TRUE, !.attempts = a] \in Row
      BY DEF Row, Statuses
    <2> QED BY <2>1, <2>2 DEF Claimed
  <1>2. /\ Claimed(r, w).status = "processing"
        /\ Claimed(r, w).worker = w
        /\ Claimed(r, w).attempts = r.attempts + 1
    BY DEF Claimed, Row
  <1>3. Claimed(r, w).started
    BY DEF Claimed, Row
  <1> QED BY <1>1, <1>2, <1>3

LEMMA ReleasedType ==
    ASSUME NEW r \in Row, NEW s \in Settled
    PROVE  Released(r, s) \in Row /\ Released(r, s).status = s
  BY DEF Released, Row, Statuses, Settled

LEMMA ResetType ==
    ASSUME NEW r \in Row
    PROVE  /\ Reset(r) \in Row
           /\ Reset(r).status = "pending" /\ Reset(r).attempts = r.attempts
           /\ Reset(r).worker = NoWorker /\ ~Reset(r).started
  BY DEF Reset, Row, Statuses, Settled

LEMMA WithResultType ==
    ASSUME NEW r \in Row, NEW c \in Channels, NEW o \in Settled
    PROVE  WithResult(r, c, o) \in Row /\ WithResult(r, c, o).status \in Settled
  BY DEF WithResult, Row, Statuses, Settled

LEMMA MarkedType ==
    ASSUME NEW r \in Row
    PROVE  [r EXCEPT !.status = "failed"] \in Row
  BY DEF Row, Statuses, Settled

LEMMA FinalStatusType ==
    ASSUME NEW r
    PROVE  FinalStatus(r) \in Settled
  BY DEF FinalStatus, Settled

(***************************************************************************)
(* Init.                                                                   *)
(***************************************************************************)
LEMMA InitInv == Init => Inv
  <1> SUFFICES ASSUME Init PROVE Inv
    OBVIOUS
  <1> USE DeploymentAssumption, TableAssumption, NATSAssumption, ServerAssumption, WorkerAssumption
  <1>1. TypeOK
    <2>1. faults \in 0..MaxFaults
      BY DEF Init
    <2>2. row \in [Notifications -> Row] /\ claims \in [Notifications -> Nat]
      BY BlankRowType DEF Init, TableInit
    <2>3. ServerTypeOK
      BY DEF Init, ServerInit, ServerTypeOK, RequestStates
    <2>4. WorkerTypeOK
      BY BlankRowType DEF Init, WorkerInit, WorkerTypeOK, Phases, Steps, NoSteps, NoCopies
    <2>5. NATSTypeOK
      BY DEF Init, NATSInit, NATSTypeOK, MessageStates
    <2> QED BY <2>1, <2>2, <2>3, <2>4, <2>5 DEF TypeOK
  <1>2. BrokerInv
    BY DEF Init, NATSInit, BrokerInv
  <1>3. \A r \in Requests : CallInv(r)
    BY BlankRowType DEF Init, ServerInit, TableInit, CallInv
  <1>4. \A w \in Workers : HandlerInv(w)
    BY DEF Init, WorkerInit, HandlerInv, Working, NoSteps
  <1>5. ClaimsCounted /\ ProcessingIsOwned
    BY BlankRowType DEF Init, TableInit, ClaimsCounted, ProcessingIsOwned
  <1> QED BY <1>1, <1>2, <1>3, <1>4, <1>5 DEF Inv

(***************************************************************************)
(* Steps shared by several actions.                                        *)
(***************************************************************************)
LEMMA FaultType ==
    ASSUME TypeOK, Fault \/ UNCHANGED faults
    PROVE  faults' \in 0..MaxFaults
  BY DeploymentAssumption DEF TypeOK, Fault

LEMMA ClearedGoroutines ==
    ASSUME WorkerTypeOK, NEW w \in Workers, ClearGoroutines(w)
    PROVE  /\ step' \in [Workers -> [Destinations -> Steps]]
           /\ outcome' \in [Workers -> [Destinations -> {"none"} \cup Settled]]
           /\ copy' \in [Workers -> [Destinations -> Row]]
           /\ \A d \in Destinations : step'[w][d] = "none"
           /\ \A v \in Workers \ {w} : /\ step'[v] = step[v]
                                       /\ outcome'[v] = outcome[v]
                                       /\ copy'[v] = copy[v]
  <1>1. NoSteps \in [Destinations -> {"none"}] /\ NoCopies \in [Destinations -> Row]
    BY BlankRowType DEF NoSteps, NoCopies
  <1> QED BY <1>1 DEF ClearGoroutines, WorkerTypeOK, Steps

LEMMA StepTaken ==
    ASSUME WorkerTypeOK, NEW w \in Workers, NEW d \in Destinations,
           NEW s \in Steps, StepTo(w, d, s)
    PROVE  /\ step' \in [Workers -> [Destinations -> Steps]]
           /\ step'[w][d] = s
           /\ \A v \in Workers, e \in Destinations :
                 v # w \/ e # d => step'[v][e] = step[v][e]
  BY DEF StepTo, WorkerTypeOK

(* A settled row stays settled. *)
SettledKept ==
    \A n \in Notifications :
        row[n].status \in Settled => row'[n].status \in Settled

(* What a step that inserts no row does to the table as far as Inv goes. *)
TableKept ==
    /\ row' \in [Notifications -> Row] /\ claims' \in [Notifications -> Nat]
    /\ \A n \in Notifications :
          /\ row'[n].status = "absent" <=> row[n].status = "absent"
          /\ row[n].status = "absent" => claims'[n] = claims[n]
    /\ SettledKept
    /\ ClaimsCounted'
    /\ ProcessingIsOwned'

(* Overwriting an existing row with a settled one keeps the table sound. *)
LEMMA SettlingStep ==
    ASSUME Inv, NEW n \in Notifications, row[n].status # "absent",
           NEW r \in Row, r.status \in Settled,
           row' = [row EXCEPT ![n] = r], UNCHANGED claims
    PROVE  TableKept
  <1>1. /\ row' \in [Notifications -> Row] /\ claims' \in [Notifications -> Nat]
        /\ row'[n] = r
        /\ \A m \in Notifications \ {n} : row'[m] = row[m]
    BY DEF Inv, TypeOK
  <1>2. \A m \in Notifications :
           (row'[m].status = "absent" <=> row[m].status = "absent")
    BY <1>1 DEF Settled
  <1>3. ClaimsCounted'
    BY <1>1 DEF Inv, ClaimsCounted, Settled
  <1>4. ProcessingIsOwned'
    BY <1>1 DEF Inv, ProcessingIsOwned, Settled
  <1>5. SettledKept
    BY <1>1 DEF SettledKept
  <1> QED BY <1>1, <1>2, <1>3, <1>4, <1>5 DEF TableKept

(* So does a claim. *)
LEMMA ClaimingStep ==
    ASSUME Inv, NEW w \in Workers, job[w] \in Notifications, TakeClaim(w)
    PROVE  TableKept
  <1> DEFINE n == job[w]
  <1>1. row[n] \in Row /\ claims[n] \in Nat
    BY DEF Inv, TypeOK
  <1>2. /\ Claimed(row[n], w) \in Row
        /\ Claimed(row[n], w).status = "processing"
        /\ Claimed(row[n], w).worker = w /\ Claimed(row[n], w).started
        /\ Claimed(row[n], w).attempts = row[n].attempts + 1
    BY <1>1, ClaimedType
  <1>3. /\ row' \in [Notifications -> Row] /\ claims' \in [Notifications -> Nat]
        /\ row'[n] = Claimed(row[n], w) /\ claims'[n] = claims[n] + 1
        /\ \A m \in Notifications \ {n} : row'[m] = row[m] /\ claims'[m] = claims[m]
    BY <1>1, <1>2 DEF Inv, TypeOK, TakeClaim
  <1>4. row[n].status = "pending"
    BY DEF TakeClaim
  <1>5. ClaimsCounted'
    BY <1>1, <1>2, <1>3, <1>4, TableAssumption DEF Inv, ClaimsCounted
  <1>6. ProcessingIsOwned'
    BY <1>2, <1>3, DeploymentAssumption DEF Inv, ProcessingIsOwned
  <1>7. SettledKept
    BY <1>3, <1>4 DEF SettledKept, Settled
  <1> QED BY <1>2, <1>3, <1>4, <1>5, <1>6, <1>7 DEF TableKept

(* So does a reset. *)
LEMMA ResettingStep ==
    ASSUME Inv, NEW w \in Workers, ResetStuckNotifications(w)
    PROVE  TableKept
  <1>1. PICK stuck \in SUBSET {n \in Notifications : MayBeStuck(n)} :
           row' = [n \in Notifications |->
                     IF n \in stuck THEN Reset(row[n]) ELSE row[n]]
    BY DEF ResetStuckNotifications
  <1>2. \A n \in stuck : row[n].status = "processing" /\ row[n].attempts < MaxAttempts
    BY <1>1 DEF MayBeStuck, Resettable
  <1>3. \A n \in Notifications :
           /\ Reset(row[n]) \in Row
           /\ Reset(row[n]).status = "pending"
           /\ Reset(row[n]).attempts = row[n].attempts
           /\ Reset(row[n]).worker = NoWorker /\ ~Reset(row[n]).started
    BY ResetType DEF Inv, TypeOK
  <1>4. row' \in [Notifications -> Row] /\ UNCHANGED claims
    BY <1>1, <1>3 DEF Inv, TypeOK, ResetStuckNotifications
  <1>5. \A n \in Notifications :
           row'[n].status = "absent" <=> row[n].status = "absent"
    BY <1>1, <1>2, <1>3
  <1>6. ClaimsCounted'
    BY <1>1, <1>2, <1>3, <1>4 DEF Inv, ClaimsCounted
  <1>7. ProcessingIsOwned'
    BY <1>1, <1>2, <1>3, <1>4 DEF Inv, ProcessingIsOwned
  <1>8. SettledKept
    BY <1>1, <1>2 DEF SettledKept, Settled
  <1> QED BY <1>4, <1>5, <1>6, <1>7, <1>8 DEF TableKept, Inv, TypeOK

LEMMA ServerPublishInv ==
    ASSUME Inv, NEW r \in Requests, NEW n \in Notifications, ServerPublish(r, n)
    PROVE  Inv' /\ SettledKept
  <1> USE DEF tableVars, serverVars, workerVars, goroutineVars, natsVars
  <1>1. TypeOK'
    <2>1. faults' \in 0..MaxFaults
      BY FaultType DEF Inv, ServerPublish, Publish, Publishing, Enqueue
    <2>2. ServerTypeOK'
      BY DEF Inv, TypeOK, ServerTypeOK, RequestStates, ServerPublish,
        Publish, Publishing, Enqueue
    <2>3. NATSTypeOK'
      BY DEF Inv, TypeOK, NATSTypeOK, MessageStates, ServerPublish,
        Publish, Publishing, Enqueue
    <2> QED BY <2>1, <2>2, <2>3 DEF Inv, TypeOK, ServerTypeOK,
      WorkerTypeOK, NATSTypeOK, ServerPublish, Publish, Publishing,
      Enqueue
  <1>2. BrokerInv'
    BY NATSAssumption DEF Inv, BrokerInv, TypeOK, NATSTypeOK,
      ServerPublish, Publish, Publishing, Enqueue
  <1>3. \A q \in Requests : CallInv(q)'
    BY DEF Inv, CallInv, TypeOK, ServerTypeOK, ServerPublish, Publish,
      Publishing, Enqueue
  <1>4. \A v \in Workers : HandlerInv(v)'
    BY DEF Inv, HandlerInv, Working, ServerPublish, Publish, Publishing,
      Enqueue
  <1>5. ClaimsCounted'
    BY DEF Inv, ClaimsCounted, ServerPublish, Publish, Publishing, Enqueue
  <1>6. ProcessingIsOwned'
    BY DEF Inv, ProcessingIsOwned, ServerPublish, Publish, Publishing,
      Enqueue
  <1>7. SettledKept
    BY DEF SettledKept, ServerPublish, Publish, Publishing, Enqueue
  <1> QED BY <1>1, <1>2, <1>3, <1>4, <1>5, <1>6, <1>7 DEF Inv

LEMMA ServerPublishFailsInv ==
    ASSUME Inv, NEW r \in Requests, NEW n \in Notifications, ServerPublishFails(r, n)
    PROVE  Inv' /\ SettledKept
  <1> USE DEF tableVars, serverVars, workerVars, goroutineVars, natsVars
  <1>1. TypeOK'
    <2>1. faults' \in 0..MaxFaults
      BY FaultType DEF Inv, ServerPublishFails, PublishFails, CallFails,
        Publishing, Enqueue
    <2>2. ServerTypeOK'
      BY DEF Inv, TypeOK, ServerTypeOK, RequestStates,
        ServerPublishFails, PublishFails, CallFails, Publishing, Enqueue
    <2>3. NATSTypeOK'
      BY DEF Inv, TypeOK, NATSTypeOK, MessageStates, ServerPublishFails,
        PublishFails, CallFails, Publishing, Enqueue
    <2> QED BY <2>1, <2>2, <2>3 DEF Inv, TypeOK, ServerTypeOK,
      WorkerTypeOK, NATSTypeOK, ServerPublishFails, PublishFails,
      CallFails, Publishing, Enqueue
  <1>2. BrokerInv'
    BY NATSAssumption DEF Inv, BrokerInv, TypeOK, NATSTypeOK,
      ServerPublishFails, PublishFails, CallFails, Publishing, Enqueue
  <1>3. \A q \in Requests : CallInv(q)'
    BY DEF Inv, CallInv, TypeOK, ServerTypeOK, ServerPublishFails,
      PublishFails, CallFails, Publishing, Enqueue
  <1>4. \A v \in Workers : HandlerInv(v)'
    BY DEF Inv, HandlerInv, Working, ServerPublishFails, PublishFails,
      CallFails, Publishing, Enqueue
  <1>5. ClaimsCounted'
    BY DEF Inv, ClaimsCounted, ServerPublishFails, PublishFails,
      CallFails, Publishing, Enqueue
  <1>6. ProcessingIsOwned'
    BY DEF Inv, ProcessingIsOwned, ServerPublishFails, PublishFails,
      CallFails, Publishing, Enqueue
  <1>7. SettledKept
    BY DEF SettledKept, ServerPublishFails, PublishFails, CallFails,
      Publishing, Enqueue
  <1> QED BY <1>1, <1>2, <1>3, <1>4, <1>5, <1>6, <1>7 DEF Inv

LEMMA ServerReplyInv ==
    ASSUME Inv, NEW r \in Requests, ServerReply(r)
    PROVE  Inv' /\ SettledKept
  <1> USE DEF tableVars, serverVars, workerVars, goroutineVars, natsVars
  <1>1. TypeOK'
    <2>1. faults' \in 0..MaxFaults
      BY FaultType DEF Inv, ServerReply, Reply
    <2>2. ServerTypeOK'
      BY DEF Inv, TypeOK, ServerTypeOK, RequestStates, ServerReply,
        Reply
    <2> QED BY <2>1, <2>2 DEF Inv, TypeOK, ServerTypeOK, WorkerTypeOK,
      NATSTypeOK, ServerReply, Reply
  <1>2. BrokerInv'
    BY DEF Inv, BrokerInv, ServerReply, Reply
  <1>3. \A q \in Requests : CallInv(q)'
    BY DEF Inv, CallInv, TypeOK, ServerTypeOK, ServerReply, Reply
  <1>4. \A v \in Workers : HandlerInv(v)'
    BY DEF Inv, HandlerInv, Working, ServerReply, Reply
  <1>5. ClaimsCounted'
    BY DEF Inv, ClaimsCounted, ServerReply, Reply
  <1>6. ProcessingIsOwned'
    BY DEF Inv, ProcessingIsOwned, ServerReply, Reply
  <1>7. SettledKept
    BY DEF SettledKept, ServerReply, Reply
  <1> QED BY <1>1, <1>2, <1>3, <1>4, <1>5, <1>6, <1>7 DEF Inv

LEMMA ServerFaultInv ==
    ASSUME Inv, ServerFault
    PROVE  Inv' /\ SettledKept
  <1> USE DEF tableVars, serverVars, workerVars, goroutineVars, natsVars
  <1>1. TypeOK'
    <2>1. faults' \in 0..MaxFaults
      BY FaultType DEF Inv, ServerFault, Expire, ServerCrash
    <2>2. ServerTypeOK'
      BY DEF Inv, TypeOK, ServerTypeOK, RequestStates, ServerFault,
        Expire, ServerCrash
    <2> QED BY <2>1, <2>2 DEF Inv, TypeOK, ServerTypeOK, WorkerTypeOK,
      NATSTypeOK, ServerFault, Expire, ServerCrash
  <1>2. BrokerInv'
    BY DEF Inv, BrokerInv, ServerFault, Expire, ServerCrash
  <1>3. \A q \in Requests : CallInv(q)'
    BY DEF Inv, CallInv, TypeOK, ServerTypeOK, ServerFault, Expire,
      ServerCrash
  <1>4. \A v \in Workers : HandlerInv(v)'
    BY DEF Inv, HandlerInv, Working, ServerFault, Expire, ServerCrash
  <1>5. ClaimsCounted'
    BY DEF Inv, ClaimsCounted, ServerFault, Expire, ServerCrash
  <1>6. ProcessingIsOwned'
    BY DEF Inv, ProcessingIsOwned, ServerFault, Expire, ServerCrash
  <1>7. SettledKept
    BY DEF SettledKept, ServerFault, Expire, ServerCrash
  <1> QED BY <1>1, <1>2, <1>3, <1>4, <1>5, <1>6, <1>7 DEF Inv

LEMMA PollTimesOutInv ==
    ASSUME Inv, NEW w \in Workers, PollTimesOut(w)
    PROVE  Inv' /\ SettledKept
  <1> USE DEF tableVars, serverVars, workerVars, goroutineVars, natsVars
  <1>1. TypeOK'
    <2>1. faults' \in 0..MaxFaults
      BY FaultType DEF Inv, PollTimesOut, Goto
    <2>2. WorkerTypeOK'
      BY DEF Inv, TypeOK, WorkerTypeOK, Phases, Steps, Settled,
        PollTimesOut, Goto
    <2> QED BY <2>1, <2>2 DEF Inv, TypeOK, ServerTypeOK, WorkerTypeOK,
      NATSTypeOK, PollTimesOut, Goto
  <1>2. BrokerInv'
    BY DEF Inv, BrokerInv, PollTimesOut, Goto
  <1>3. \A q \in Requests : CallInv(q)'
    BY DEF Inv, CallInv, PollTimesOut, Goto
  <1>4. \A v \in Workers : HandlerInv(v)'
    BY DEF Inv, HandlerInv, Working, TypeOK, WorkerTypeOK, PollTimesOut,
      Goto
  <1>5. ClaimsCounted'
    BY DEF Inv, ClaimsCounted, PollTimesOut, Goto
  <1>6. ProcessingIsOwned'
    BY DEF Inv, ProcessingIsOwned, PollTimesOut, Goto
  <1>7. SettledKept
    BY DEF SettledKept, PollTimesOut, Goto
  <1> QED BY <1>1, <1>2, <1>3, <1>4, <1>5, <1>6, <1>7 DEF Inv

LEMMA PollInv ==
    ASSUME Inv, NEW w \in Workers, Poll(w)
    PROVE  Inv' /\ SettledKept
  <1> USE DEF tableVars, serverVars, workerVars, goroutineVars, natsVars
  <1>1. TypeOK'
    <2>1. faults' \in 0..MaxFaults
      BY FaultType DEF Inv, Poll, Fetch, Goto
    <2>2. WorkerTypeOK'
      BY DEF Inv, TypeOK, WorkerTypeOK, Phases, Steps, Settled, Poll,
        Fetch, Goto
    <2>3. NATSTypeOK'
      BY NATSAssumption DEF Inv, TypeOK, NATSTypeOK, MessageStates, BrokerInv, Poll, Fetch
    <2> QED BY <2>1, <2>2, <2>3 DEF Inv, TypeOK, ServerTypeOK,
      WorkerTypeOK, NATSTypeOK, Poll, Fetch, Goto
  <1>2. BrokerInv'
    BY DEF Inv, BrokerInv, TypeOK, NATSTypeOK, Poll, Fetch, Goto
  <1>3. \A q \in Requests : CallInv(q)'
    BY DEF Inv, CallInv, Poll, Fetch, Goto
  <1>4. \A v \in Workers : HandlerInv(v)'
    BY DEF Inv, HandlerInv, Working, TypeOK, WorkerTypeOK, Poll, Fetch,
      Goto
  <1>5. ClaimsCounted'
    BY DEF Inv, ClaimsCounted, Poll, Fetch, Goto
  <1>6. ProcessingIsOwned'
    BY DEF Inv, ProcessingIsOwned, Poll, Fetch, Goto
  <1>7. SettledKept
    BY DEF SettledKept, Poll, Fetch, Goto
  <1> QED BY <1>1, <1>2, <1>3, <1>4, <1>5, <1>6, <1>7 DEF Inv

LEMMA HandleInv ==
    ASSUME Inv, NEW w \in Workers, Handle(w)
    PROVE  Inv' /\ SettledKept
  <1> USE DEF tableVars, serverVars, workerVars, goroutineVars, natsVars
  <1>1. TypeOK'
    <2>1. faults' \in 0..MaxFaults
      BY FaultType DEF Inv, Handle, Receive, ReceiveFails,
        StatementFails, Goto
    <2>2. WorkerTypeOK'
      <3>1. /\ \E p \in {"claiming", "acking", "naking"} : phase' = [phase EXCEPT ![w] = p]
            /\ \E n \in Notifications : job' = [job EXCEPT ![w] = n]
            /\ UNCHANGED <<goroutineVars, final, stopping, due, sends>>
        BY DEF Inv, TypeOK, NATSTypeOK, Handle, Receive, ReceiveFails, Goto
      <3> QED BY <3>1 DEF Inv, TypeOK, WorkerTypeOK, Phases
    <2> QED BY <2>1, <2>2 DEF Inv, TypeOK, ServerTypeOK, WorkerTypeOK,
      NATSTypeOK, Handle, Receive, ReceiveFails, StatementFails, Goto
  <1>2. BrokerInv'
    BY DEF Inv, BrokerInv, Handle, Receive, ReceiveFails, StatementFails,
      Goto
  <1>3. \A q \in Requests : CallInv(q)'
    BY DEF Inv, CallInv, Handle, Receive, ReceiveFails, StatementFails,
      Goto
  <1>4. \A v \in Workers : HandlerInv(v)'
    <2>1. /\ \E p \in {"claiming", "acking", "naking"} : phase' = [phase EXCEPT ![w] = p]
          /\ \E n \in Notifications : job' = [job EXCEPT ![w] = n]
          /\ UNCHANGED <<goroutineVars, final, row>> /\ phase[w] = "handling"
      BY DEF Inv, TypeOK, NATSTypeOK, Handle, Receive, ReceiveFails, Goto
    <2> QED BY <2>1 DEF Inv, TypeOK, WorkerTypeOK, HandlerInv, Working
  <1>5. ClaimsCounted'
    BY DEF Inv, ClaimsCounted, Handle, Receive, ReceiveFails,
      StatementFails, Goto
  <1>6. ProcessingIsOwned'
    BY DEF Inv, ProcessingIsOwned, Handle, Receive, ReceiveFails,
      StatementFails, Goto
  <1>7. SettledKept
    BY DEF SettledKept, Handle, Receive, ReceiveFails, StatementFails,
      Goto
  <1> QED BY <1>1, <1>2, <1>3, <1>4, <1>5, <1>6, <1>7 DEF Inv

LEMMA AnswerInv ==
    ASSUME Inv, NEW w \in Workers, Answer(w)
    PROVE  Inv' /\ SettledKept
  <1> USE DEF tableVars, serverVars, workerVars, goroutineVars, natsVars
  <1>1. TypeOK'
    <2>1. faults' \in 0..MaxFaults
      BY FaultType DEF Inv, Answer, Ack, Nak, AnswerLost, Redelivery,
        NextMessage, Goto
    <2>2. WorkerTypeOK'
      BY DEF Inv, TypeOK, WorkerTypeOK, Phases, Steps, Settled, Answer,
        Ack, Nak, AnswerLost, Redelivery, NextMessage, Goto
    <2>3. NATSTypeOK'
      BY DEF Inv, TypeOK, NATSTypeOK, MessageStates, Answer, Ack, Nak,
        AnswerLost, Redelivery, NextMessage, Goto
    <2> QED BY <2>1, <2>2, <2>3 DEF Inv, TypeOK, ServerTypeOK,
      WorkerTypeOK, NATSTypeOK, Answer, Ack, Nak, AnswerLost, Redelivery,
      NextMessage, Goto
  <1>2. BrokerInv'
    BY DEF Inv, BrokerInv, TypeOK, NATSTypeOK, Answer, Ack, Nak,
      AnswerLost, Redelivery, NextMessage, Goto
  <1>3. \A q \in Requests : CallInv(q)'
    BY DEF Inv, CallInv, Answer, Ack, Nak, AnswerLost, Redelivery,
      NextMessage, Goto
  <1>4. \A v \in Workers : HandlerInv(v)'
    BY DEF Inv, HandlerInv, Working, TypeOK, WorkerTypeOK, Answer, Ack,
      Nak, AnswerLost, Redelivery, NextMessage, Goto
  <1>5. ClaimsCounted'
    BY DEF Inv, ClaimsCounted, Answer, Ack, Nak, AnswerLost, Redelivery,
      NextMessage, Goto
  <1>6. ProcessingIsOwned'
    BY DEF Inv, ProcessingIsOwned, Answer, Ack, Nak, AnswerLost,
      Redelivery, NextMessage, Goto
  <1>7. SettledKept
    BY DEF SettledKept, Answer, Ack, Nak, AnswerLost, Redelivery,
      NextMessage, Goto
  <1> QED BY <1>1, <1>2, <1>3, <1>4, <1>5, <1>6, <1>7 DEF Inv

LEMMA RedeliverInv ==
    ASSUME Inv, NEW n \in Notifications, Redeliver(n)
    PROVE  Inv' /\ SettledKept
  <1> USE DEF tableVars, serverVars, workerVars, goroutineVars, natsVars
  <1>1. TypeOK'
    <2>1. faults' \in 0..MaxFaults
      BY FaultType DEF Inv, Redeliver, AckWaitExpires, Redelivery
    <2>2. NATSTypeOK'
      BY DEF Inv, TypeOK, NATSTypeOK, MessageStates, Redeliver,
        AckWaitExpires, Redelivery
    <2> QED BY <2>1, <2>2 DEF Inv, TypeOK, ServerTypeOK, WorkerTypeOK,
      NATSTypeOK, Redeliver, AckWaitExpires, Redelivery
  <1>2. BrokerInv'
    BY DEF Inv, BrokerInv, TypeOK, NATSTypeOK, Redeliver, AckWaitExpires,
      Redelivery
  <1>3. \A q \in Requests : CallInv(q)'
    BY DEF Inv, CallInv, Redeliver, AckWaitExpires, Redelivery
  <1>4. \A v \in Workers : HandlerInv(v)'
    BY DEF Inv, HandlerInv, Working, Redeliver, AckWaitExpires, Redelivery
  <1>5. ClaimsCounted'
    BY DEF Inv, ClaimsCounted, Redeliver, AckWaitExpires, Redelivery
  <1>6. ProcessingIsOwned'
    BY DEF Inv, ProcessingIsOwned, Redeliver, AckWaitExpires, Redelivery
  <1>7. SettledKept
    BY DEF SettledKept, Redeliver, AckWaitExpires, Redelivery
  <1> QED BY <1>1, <1>2, <1>3, <1>4, <1>5, <1>6, <1>7 DEF Inv

LEMMA ClockInv ==
    ASSUME Inv, NEW n \in Notifications, Clock(n)
    PROVE  Inv' /\ SettledKept
  <1> USE DEF tableVars, serverVars, workerVars, goroutineVars, natsVars
  <1>1. TypeOK'
    <2>1. faults' \in 0..MaxFaults
      BY FaultType DEF Inv, Clock, ScheduleArrives
    <2>2. WorkerTypeOK'
      BY DEF Inv, TypeOK, WorkerTypeOK, Phases, Steps, Settled, Clock,
        ScheduleArrives
    <2> QED BY <2>1, <2>2 DEF Inv, TypeOK, ServerTypeOK, WorkerTypeOK,
      NATSTypeOK, Clock, ScheduleArrives
  <1>2. BrokerInv'
    BY DEF Inv, BrokerInv, Clock, ScheduleArrives
  <1>3. \A q \in Requests : CallInv(q)'
    BY DEF Inv, CallInv, Clock, ScheduleArrives
  <1>4. \A v \in Workers : HandlerInv(v)'
    BY DEF Inv, HandlerInv, Working, TypeOK, WorkerTypeOK, Clock,
      ScheduleArrives
  <1>5. ClaimsCounted'
    BY DEF Inv, ClaimsCounted, Clock, ScheduleArrives
  <1>6. ProcessingIsOwned'
    BY DEF Inv, ProcessingIsOwned, Clock, ScheduleArrives
  <1>7. SettledKept
    BY DEF SettledKept, Clock, ScheduleArrives
  <1> QED BY <1>1, <1>2, <1>3, <1>4, <1>5, <1>6, <1>7 DEF Inv

LEMMA ShutdownInv ==
    ASSUME Inv, NEW w \in Workers, WorkerShutdown(w)
    PROVE  Inv' /\ SettledKept
  <1> USE DEF tableVars, serverVars, workerVars, goroutineVars, natsVars
  <1>1. TypeOK'
    <2>1. faults' \in 0..MaxFaults
      BY FaultType DEF Inv, WorkerShutdown, Shutdown
    <2>2. WorkerTypeOK'
      BY DEF Inv, TypeOK, WorkerTypeOK, Phases, Steps, Settled,
        WorkerShutdown, Shutdown
    <2> QED BY <2>1, <2>2 DEF Inv, TypeOK, ServerTypeOK, WorkerTypeOK,
      NATSTypeOK, WorkerShutdown, Shutdown
  <1>2. BrokerInv'
    BY DEF Inv, BrokerInv, WorkerShutdown, Shutdown
  <1>3. \A q \in Requests : CallInv(q)'
    BY DEF Inv, CallInv, WorkerShutdown, Shutdown
  <1>4. \A v \in Workers : HandlerInv(v)'
    BY DEF Inv, HandlerInv, Working, TypeOK, WorkerTypeOK, WorkerShutdown,
      Shutdown
  <1>5. ClaimsCounted'
    BY DEF Inv, ClaimsCounted, WorkerShutdown, Shutdown
  <1>6. ProcessingIsOwned'
    BY DEF Inv, ProcessingIsOwned, WorkerShutdown, Shutdown
  <1>7. SettledKept
    BY DEF SettledKept, WorkerShutdown, Shutdown
  <1> QED BY <1>1, <1>2, <1>3, <1>4, <1>5, <1>6, <1>7 DEF Inv

LEMMA EndsInv ==
    ASSUME Inv, NEW w \in Workers, WorkerEnds(w)
    PROVE  Inv' /\ SettledKept
  <1> USE DEF tableVars, serverVars, workerVars, goroutineVars, natsVars
  <1>1. TypeOK'
    <2>1. faults' \in 0..MaxFaults
      BY FaultType DEF Inv, WorkerEnds, Exit, Crash, Leave, DropInbox,
        Goto
    <2>2. WorkerTypeOK'
      BY ClearedGoroutines DEF Inv, TypeOK, WorkerTypeOK, Phases, Steps,
        Settled, WorkerEnds, Exit, Crash, Leave, DropInbox, Goto
    <2>3. NATSTypeOK'
      BY DEF Inv, TypeOK, NATSTypeOK, MessageStates, WorkerEnds, Exit,
        Crash, Leave, DropInbox, Goto
    <2> QED BY <2>1, <2>2, <2>3 DEF Inv, TypeOK, ServerTypeOK,
      WorkerTypeOK, NATSTypeOK, WorkerEnds, Exit, Crash, Leave, DropInbox,
      Goto
  <1>2. BrokerInv'
    BY DEF Inv, BrokerInv, TypeOK, NATSTypeOK, WorkerEnds, Exit, Crash,
      Leave, DropInbox, Goto
  <1>3. \A q \in Requests : CallInv(q)'
    BY DEF Inv, CallInv, WorkerEnds, Exit, Crash, Leave, DropInbox, Goto
  <1>4. \A v \in Workers : HandlerInv(v)'
    <2>1. /\ phase'[w] = "down"
          /\ \A v \in Workers \ {w} : /\ phase'[v] = phase[v]
                                      /\ job'[v] = job[v] /\ final'[v] = final[v]
      BY DEF Inv, TypeOK, WorkerTypeOK, WorkerEnds, Exit, Crash, Leave, Goto
    <2>2. /\ \A d \in Destinations : step'[w][d] = "none"
          /\ \A v \in Workers \ {w} : /\ step'[v] = step[v]
                                      /\ outcome'[v] = outcome[v]
      BY ClearedGoroutines DEF Inv, TypeOK, WorkerEnds, Exit, Crash, Leave
    <2>3. UNCHANGED row
      BY DEF WorkerEnds, Exit, Crash, Leave
    <2>4. HandlerInv(w)'
      BY <2>1, <2>2 DEF HandlerInv, Working
    <2>5. ASSUME NEW v \in Workers \ {w} PROVE HandlerInv(v)'
      BY <2>1, <2>2, <2>3, <2>5 DEF Inv, HandlerInv, Working
    <2> QED BY <2>4, <2>5
  <1>5. ClaimsCounted'
    BY DEF Inv, ClaimsCounted, WorkerEnds, Exit, Crash, Leave, DropInbox,
      Goto
  <1>6. ProcessingIsOwned'
    BY DEF Inv, ProcessingIsOwned, WorkerEnds, Exit, Crash, Leave,
      DropInbox, Goto
  <1>7. SettledKept
    BY DEF SettledKept, WorkerEnds, Exit, Crash, Leave, DropInbox, Goto
  <1> QED BY <1>1, <1>2, <1>3, <1>4, <1>5, <1>6, <1>7 DEF Inv

LEMMA ServerSaveInv ==
    ASSUME Inv, NEW r \in Requests, ServerSave(r)
    PROVE  Inv' /\ SettledKept
  <1> USE DEF tableVars, serverVars, workerVars, goroutineVars, natsVars
  <1>1. TypeOK'
    <2>1. faults' \in 0..MaxFaults
      BY FaultType DEF Inv, ServerSave, SaveRows, SaveRowsFails,
        CallFails, Inserted
    <2>2. row' \in [Notifications -> Row] /\ claims' \in [Notifications -> Nat]
      BY BlankRowType DEF Inv, TypeOK, ServerSave, SaveRows,
        SaveRowsFails, CallFails, Inserted
    <2>3. ServerTypeOK'
      BY ServerAssumption DEF Inv, TypeOK, ServerTypeOK, RequestStates,
        ServerSave, SaveRows, SaveRowsFails, CallFails, Inserted
    <2> QED BY <2>1, <2>2, <2>3 DEF Inv, TypeOK, ServerTypeOK,
      WorkerTypeOK, NATSTypeOK, ServerSave, SaveRows, SaveRowsFails,
      CallFails, Inserted
  <1>2. BrokerInv'
    BY DEF Inv, BrokerInv, ServerSave, SaveRows, SaveRowsFails, CallFails,
      Inserted
  <1>3. \A q \in Requests : CallInv(q)'
    BY ServerAssumption, DeploymentAssumption, BlankRowType DEF Inv,
      CallInv, TypeOK, ServerTypeOK, TypeOK, ServerSave, SaveRows,
      SaveRowsFails, CallFails, Inserted
  <1>4. \A v \in Workers : HandlerInv(v)'
    BY BlankRowType DEF Inv, HandlerInv, Working, TypeOK, ServerSave,
      SaveRows, SaveRowsFails, CallFails, Inserted
  <1>5. ClaimsCounted'
    <2>1. UNCHANGED claims /\ (Inserted(r) \/ UNCHANGED row)
      BY DEF ServerSave, SaveRows, SaveRowsFails
    <2>2. \A n \in Batch[r] : claims[n] = 0
      BY DEF Inv, CallInv, ServerSave, SaveRows, SaveRowsFails
    <2>3. CASE UNCHANGED row
      BY <2>1, <2>3 DEF Inv, ClaimsCounted
    <2>4. CASE Inserted(r)
      BY <2>1, <2>2, <2>4, BlankRowType, TableAssumption
         DEF Inv, ClaimsCounted, Inserted
    <2> QED BY <2>1, <2>3, <2>4
  <1>6. ProcessingIsOwned'
    BY BlankRowType DEF Inv, ProcessingIsOwned, TypeOK, ServerSave,
      SaveRows, SaveRowsFails, CallFails, Inserted
  <1>7. SettledKept
    <2>1. \A n \in Batch[r] : request[r] = "new" => row[n].status = "absent"
      BY DEF Inv, CallInv
    <2> QED BY <2>1 DEF SettledKept, Settled, ServerSave, SaveRows, SaveRowsFails,
              Inserted
  <1> QED BY <1>1, <1>2, <1>3, <1>4, <1>5, <1>6, <1>7 DEF Inv

LEMMA ServerMarkInv ==
    ASSUME Inv, NEW r \in Requests, ServerMark(r)
    PROVE  Inv' /\ SettledKept
  <1> USE DEF tableVars, serverVars, workerVars, goroutineVars, natsVars
  <1>0. TableKept
    <2>1. CASE UNCHANGED tableVars
      BY <2>1 DEF Inv, TypeOK, TableKept, SettledKept, ClaimsCounted,
                  ProcessingIsOwned
    <2>2. CASE MarkFailed(r)
      <3> DEFINE n == failing[r]
      <3>1. n \in Notifications /\ row[n].status # "absent" /\ UNCHANGED claims
        BY <2>2, ServerAssumption DEF Inv, CallInv, MarkFailed
      <3>2. [row[n] EXCEPT !.status = "failed"] \in Row
        BY <3>1, MarkedType DEF Inv, TypeOK
      <3>3. [row[n] EXCEPT !.status = "failed"].status \in Settled
        BY <3>1 DEF Inv, TypeOK, Row, Settled
      <3> QED BY <2>2, <3>1, <3>2, <3>3, SettlingStep DEF MarkFailed
    <2> QED BY <2>1, <2>2 DEF ServerMark, MarkFailedFails
  <1>1. TypeOK'
    <2>1. faults' \in 0..MaxFaults
      BY FaultType DEF Inv, ServerMark, MarkFailed, MarkFailedFails,
        CallFails
    <2>2. row' \in [Notifications -> Row] /\ claims' \in [Notifications -> Nat]
      BY <1>0 DEF TableKept
    <2>3. ServerTypeOK'
      BY ServerAssumption DEF Inv, TypeOK, ServerTypeOK, RequestStates,
        ServerMark, MarkFailed, MarkFailedFails, CallFails
    <2> QED BY <2>1, <2>2, <2>3 DEF Inv, TypeOK, ServerTypeOK,
      WorkerTypeOK, NATSTypeOK, ServerMark, MarkFailed, MarkFailedFails,
      CallFails
  <1>2. BrokerInv'
    BY DEF Inv, BrokerInv, ServerMark, MarkFailed, MarkFailedFails,
      CallFails
  <1>3. \A q \in Requests : CallInv(q)'
    BY <1>0, ServerAssumption DEF Inv, CallInv, TableKept, TypeOK,
      ServerTypeOK, TypeOK, ServerMark, MarkFailed, MarkFailedFails,
      CallFails
  <1>4. \A v \in Workers : HandlerInv(v)'
    BY <1>0 DEF Inv, HandlerInv, Working, TableKept, TypeOK, ServerMark,
      MarkFailed, MarkFailedFails, CallFails
  <1>5. ClaimsCounted'
    BY <1>0 DEF TableKept
  <1>6. ProcessingIsOwned'
    BY <1>0 DEF TableKept
  <1>7. SettledKept
    BY <1>0 DEF TableKept
  <1> QED BY <1>1, <1>2, <1>3, <1>4, <1>5, <1>6, <1>7 DEF Inv

LEMMA ClaimInv ==
    ASSUME Inv, NEW w \in Workers, Claim(w), UNCHANGED <<serverVars, natsVars>>
    PROVE  Inv' /\ SettledKept
  <1> USE DEF tableVars, serverVars, workerVars, goroutineVars, natsVars
  <1>0. TableKept
    BY ClaimingStep DEF Inv, HandlerInv, Claim
  <1>1. TypeOK'
    <2>1. faults' \in 0..MaxFaults
      BY FaultType DEF Inv, Claim, Goto
    <2>2. row' \in [Notifications -> Row] /\ claims' \in [Notifications -> Nat]
      BY <1>0 DEF TableKept
    <2>3. WorkerTypeOK'
      BY DEF Inv, TypeOK, WorkerTypeOK, Phases, Steps, Settled, Claim,
        Goto
    <2> QED BY <2>1, <2>2, <2>3 DEF Inv, TypeOK, ServerTypeOK,
      WorkerTypeOK, NATSTypeOK, Claim, Goto
  <1>2. BrokerInv'
    BY DEF Inv, BrokerInv, Claim, Goto
  <1>3. \A q \in Requests : CallInv(q)'
    BY <1>0, ServerAssumption DEF Inv, CallInv, TableKept, TypeOK, Claim,
      Goto
  <1>4. \A v \in Workers : HandlerInv(v)'
    <2>1. job[w] \in Notifications /\ row[job[w]].status = "pending"
      BY DEF Inv, HandlerInv, Claim, TakeClaim
    <2> QED BY <1>0, <2>1 DEF Inv, HandlerInv, Working, TableKept, TypeOK,
              WorkerTypeOK, Claim, Goto
  <1>5. ClaimsCounted'
    BY <1>0 DEF TableKept
  <1>6. ProcessingIsOwned'
    BY <1>0 DEF TableKept
  <1>7. SettledKept
    BY <1>0 DEF TableKept
  <1> QED BY <1>1, <1>2, <1>3, <1>4, <1>5, <1>6, <1>7 DEF Inv

LEMMA ClaimNotPendingInv ==
    ASSUME Inv, NEW w \in Workers, ClaimNotPending(w), UNCHANGED <<serverVars, natsVars>>
    PROVE  Inv' /\ SettledKept
  <1> USE DEF tableVars, serverVars, workerVars, goroutineVars, natsVars
  <1>1. TypeOK'
    <2>1. faults' \in 0..MaxFaults
      BY FaultType DEF Inv, ClaimNotPending, Goto
    <2>2. WorkerTypeOK'
      BY DEF Inv, TypeOK, WorkerTypeOK, Phases, Steps, Settled,
        ClaimNotPending, Goto
    <2> QED BY <2>1, <2>2 DEF Inv, TypeOK, ServerTypeOK, WorkerTypeOK,
      NATSTypeOK, ClaimNotPending, Goto
  <1>2. BrokerInv'
    BY DEF Inv, BrokerInv, ClaimNotPending, Goto
  <1>3. \A q \in Requests : CallInv(q)'
    BY DEF Inv, CallInv, ClaimNotPending, Goto
  <1>4. \A v \in Workers : HandlerInv(v)'
    BY DEF Inv, HandlerInv, Working, TypeOK, WorkerTypeOK,
      ClaimNotPending, Goto
  <1>5. ClaimsCounted'
    BY DEF Inv, ClaimsCounted, ClaimNotPending, Goto
  <1>6. ProcessingIsOwned'
    BY DEF Inv, ProcessingIsOwned, ClaimNotPending, Goto
  <1>7. SettledKept
    BY DEF SettledKept, ClaimNotPending, Goto
  <1> QED BY <1>1, <1>2, <1>3, <1>4, <1>5, <1>6, <1>7 DEF Inv

LEMMA ClaimFailsInv ==
    ASSUME Inv, NEW w \in Workers, ClaimFails(w), UNCHANGED <<serverVars, natsVars>>
    PROVE  Inv' /\ SettledKept
  <1> USE DEF tableVars, serverVars, workerVars, goroutineVars, natsVars
  <1>0. TableKept
    <2>1. CASE TakeClaim(w)
      BY <2>1, ClaimingStep DEF Inv, HandlerInv, ClaimFails
    <2>2. CASE UNCHANGED tableVars
      BY <2>2 DEF Inv, TypeOK, TableKept, SettledKept, ClaimsCounted,
                  ProcessingIsOwned
    <2> QED BY <2>1, <2>2 DEF ClaimFails
  <1>1. TypeOK'
    <2>1. faults' \in 0..MaxFaults
      BY FaultType DEF Inv, ClaimFails, StatementFails, Goto
    <2>2. row' \in [Notifications -> Row] /\ claims' \in [Notifications -> Nat]
      BY <1>0 DEF TableKept
    <2>3. WorkerTypeOK'
      BY DEF Inv, TypeOK, WorkerTypeOK, Phases, Steps, Settled,
        ClaimFails, StatementFails, Goto
    <2> QED BY <2>1, <2>2, <2>3 DEF Inv, TypeOK, ServerTypeOK,
      WorkerTypeOK, NATSTypeOK, ClaimFails, StatementFails, Goto
  <1>2. BrokerInv'
    BY DEF Inv, BrokerInv, ClaimFails, StatementFails, Goto
  <1>3. \A q \in Requests : CallInv(q)'
    BY <1>0, ServerAssumption DEF Inv, CallInv, TableKept, TypeOK,
      ClaimFails, StatementFails, Goto
  <1>4. \A v \in Workers : HandlerInv(v)'
    BY <1>0 DEF Inv, HandlerInv, Working, TableKept, TypeOK, WorkerTypeOK,
      ClaimFails, StatementFails, Goto
  <1>5. ClaimsCounted'
    BY <1>0 DEF TableKept
  <1>6. ProcessingIsOwned'
    BY <1>0 DEF TableKept
  <1>7. SettledKept
    BY <1>0 DEF TableKept
  <1> QED BY <1>1, <1>2, <1>3, <1>4, <1>5, <1>6, <1>7 DEF Inv

LEMMA SendInv ==
    ASSUME Inv, NEW w \in Workers, NEW d \in Destinations, Send(w, d), UNCHANGED <<serverVars, natsVars>>
    PROVE  Inv' /\ SettledKept
  <1> USE DEF tableVars, serverVars, workerVars, goroutineVars, natsVars
  <1>1. TypeOK'
    <2>1. faults' \in 0..MaxFaults
      BY FaultType DEF Inv, Send
    <2>2. WorkerTypeOK'
      <3>1. phase[w] = "sending" /\ job[w] \in Notifications
        BY DEF Inv, HandlerInv, Send
      <3>2. sends' \in [Notifications -> [Destinations -> Nat]]
        <4>1. sends[job[w]][d] + 1 \in Nat /\ sends \in [Notifications -> [Destinations -> Nat]]
          BY <3>1 DEF Inv, TypeOK, WorkerTypeOK
        <4>2. \/ UNCHANGED sends
              \/ \E n \in Notifications, k \in Nat :
                    sends' = [sends EXCEPT ![n][d] = k]
          BY <3>1, <4>1 DEF Send
        <4> QED BY <4>1, <4>2
      <3>3. outcome' \in [Workers -> [Destinations -> {"none"} \cup Settled]]
        <4>1. \E o \in Settled : outcome' = [outcome EXCEPT ![w][d] = o]
          BY DEF Send, Settled
        <4> QED BY <4>1 DEF Inv, TypeOK, WorkerTypeOK
      <3>4. step' \in [Workers -> [Destinations -> Steps]]
        BY StepTaken DEF Inv, TypeOK, Steps, Send
      <3> QED BY <3>2, <3>3, <3>4 DEF Inv, TypeOK, WorkerTypeOK, Send
    <2> QED BY <2>1, <2>2 DEF Inv, TypeOK, ServerTypeOK, WorkerTypeOK,
      NATSTypeOK, Send
  <1>2. BrokerInv'
    BY DEF Inv, BrokerInv, Send
  <1>3. \A q \in Requests : CallInv(q)'
    BY DEF Inv, CallInv, Send
  <1>4. \A v \in Workers : HandlerInv(v)'
    <2>1. /\ step'[w][d] = "read"
          /\ \A v \in Workers, e \in Destinations :
                v # w \/ e # d => step'[v][e] = step[v][e]
      BY StepTaken DEF Inv, TypeOK, Steps, Send
    <2>2. /\ outcome'[w][d] \in Settled
          /\ \A v \in Workers, e \in Destinations :
                v # w \/ e # d => outcome'[v][e] = outcome[v][e]
      BY DEF Inv, TypeOK, WorkerTypeOK, Settled, Send
    <2> QED BY <2>1, <2>2 DEF Inv, HandlerInv, Working, Send
  <1>5. ClaimsCounted'
    BY DEF Inv, ClaimsCounted, Send
  <1>6. ProcessingIsOwned'
    BY DEF Inv, ProcessingIsOwned, Send
  <1>7. SettledKept
    BY DEF SettledKept, Send
  <1> QED BY <1>1, <1>2, <1>3, <1>4, <1>5, <1>6, <1>7 DEF Inv

LEMMA ReadRowInv ==
    ASSUME Inv, NEW w \in Workers, NEW d \in Destinations, ReadRow(w, d), UNCHANGED <<serverVars, natsVars>>
    PROVE  Inv' /\ SettledKept
  <1> USE DEF tableVars, serverVars, workerVars, goroutineVars, natsVars
  <1>1. TypeOK'
    <2>1. faults' \in 0..MaxFaults
      BY FaultType DEF Inv, ReadRow
    <2>2. WorkerTypeOK'
      <3>1. phase[w] = "sending" /\ job[w] \in Notifications
        BY DEF Inv, HandlerInv, ReadRow
      <3>2. copy' \in [Workers -> [Destinations -> Row]]
        BY <3>1 DEF Inv, TypeOK, WorkerTypeOK, ReadRow
      <3>3. step' \in [Workers -> [Destinations -> Steps]]
        BY StepTaken DEF Inv, TypeOK, Steps, ReadRow
      <3> QED BY <3>2, <3>3 DEF Inv, TypeOK, WorkerTypeOK, ReadRow
    <2> QED BY <2>1, <2>2 DEF Inv, TypeOK, ServerTypeOK, WorkerTypeOK,
      NATSTypeOK, ReadRow
  <1>2. BrokerInv'
    BY DEF Inv, BrokerInv, ReadRow
  <1>3. \A q \in Requests : CallInv(q)'
    BY DEF Inv, CallInv, ReadRow
  <1>4. \A v \in Workers : HandlerInv(v)'
    <2>1. /\ step'[w][d] = "save" /\ step[w][d] # "none"
          /\ \A v \in Workers, e \in Destinations :
                v # w \/ e # d => step'[v][e] = step[v][e]
      BY StepTaken DEF Inv, TypeOK, Steps, ReadRow
    <2>2. outcome[w][d] \in Settled
      BY DEF Inv, HandlerInv, ReadRow
    <2> QED BY <2>1, <2>2 DEF Inv, HandlerInv, Working, ReadRow
  <1>5. ClaimsCounted'
    BY DEF Inv, ClaimsCounted, ReadRow
  <1>6. ProcessingIsOwned'
    BY DEF Inv, ProcessingIsOwned, ReadRow
  <1>7. SettledKept
    BY DEF SettledKept, ReadRow
  <1> QED BY <1>1, <1>2, <1>3, <1>4, <1>5, <1>6, <1>7 DEF Inv

LEMMA SaveRowInv ==
    ASSUME Inv, NEW w \in Workers, NEW d \in Destinations, SaveRow(w, d), UNCHANGED <<serverVars, natsVars>>
    PROVE  Inv' /\ SettledKept
  <1> USE DEF tableVars, serverVars, workerVars, goroutineVars, natsVars
  <1>0. TableKept
    <2> DEFINE n == job[w]
               r == WithResult(copy[w][d], ChannelOf[d], outcome[w][d])
    <2>1. n \in Notifications /\ row[n].status # "absent" /\ outcome[w][d] \in Settled
      BY DEF Inv, HandlerInv, Working, SaveRow
    <2>2. r \in Row /\ r.status \in Settled
      BY <2>1, WithResultType, TableAssumption DEF Inv, TypeOK, WorkerTypeOK
    <2>3. row' = [row EXCEPT ![n] = r] /\ UNCHANGED claims
      BY DEF SaveRow
    <2> HIDE DEF n, r
    <2> QED BY <2>1, <2>2, <2>3, SettlingStep
  <1>1. TypeOK'
    <2>1. faults' \in 0..MaxFaults
      BY FaultType DEF Inv, SaveRow
    <2>2. row' \in [Notifications -> Row] /\ claims' \in [Notifications -> Nat]
      BY <1>0 DEF TableKept
    <2>3. WorkerTypeOK'
      BY StepTaken DEF Inv, TypeOK, WorkerTypeOK, Steps, SaveRow
    <2> QED BY <2>1, <2>2, <2>3 DEF Inv, TypeOK, ServerTypeOK,
      WorkerTypeOK, NATSTypeOK, SaveRow
  <1>2. BrokerInv'
    BY DEF Inv, BrokerInv, SaveRow
  <1>3. \A q \in Requests : CallInv(q)'
    BY <1>0, ServerAssumption DEF Inv, CallInv, TableKept, TypeOK, SaveRow
  <1>4. \A v \in Workers : HandlerInv(v)'
    <2>1. /\ step'[w][d] = "done" /\ step[w][d] # "none"
          /\ \A v \in Workers, e \in Destinations :
                v # w \/ e # d => step'[v][e] = step[v][e]
      BY StepTaken DEF Inv, TypeOK, Steps, SaveRow
    <2> QED BY <1>0, <2>1 DEF Inv, HandlerInv, Working, TableKept, SaveRow
  <1>5. ClaimsCounted'
    BY <1>0 DEF TableKept
  <1>6. ProcessingIsOwned'
    BY <1>0 DEF TableKept
  <1>7. SettledKept
    BY <1>0 DEF TableKept
  <1> QED BY <1>1, <1>2, <1>3, <1>4, <1>5, <1>6, <1>7 DEF Inv

LEMMA RecordFailsInv ==
    ASSUME Inv, NEW w \in Workers, NEW d \in Destinations, RecordFails(w, d), UNCHANGED <<serverVars, natsVars>>
    PROVE  Inv' /\ SettledKept
  <1> USE DEF tableVars, serverVars, workerVars, goroutineVars, natsVars
  <1>1. TypeOK'
    <2>1. faults' \in 0..MaxFaults
      BY FaultType DEF Inv, RecordFails, StepTo, StatementFails
    <2>2. WorkerTypeOK'
      BY DEF Inv, TypeOK, WorkerTypeOK, Phases, Steps, Settled,
        RecordFails, StepTo, StatementFails
    <2> QED BY <2>1, <2>2 DEF Inv, TypeOK, ServerTypeOK, WorkerTypeOK,
      NATSTypeOK, RecordFails, StepTo, StatementFails
  <1>2. BrokerInv'
    BY DEF Inv, BrokerInv, RecordFails, StepTo, StatementFails
  <1>3. \A q \in Requests : CallInv(q)'
    BY DEF Inv, CallInv, RecordFails, StepTo, StatementFails
  <1>4. \A v \in Workers : HandlerInv(v)'
    BY DEF Inv, HandlerInv, Working, TypeOK, WorkerTypeOK, RecordFails,
      StepTo, StatementFails
  <1>5. ClaimsCounted'
    BY DEF Inv, ClaimsCounted, RecordFails, StepTo, StatementFails
  <1>6. ProcessingIsOwned'
    BY DEF Inv, ProcessingIsOwned, RecordFails, StepTo, StatementFails
  <1>7. SettledKept
    BY DEF SettledKept, RecordFails, StepTo, StatementFails
  <1> QED BY <1>1, <1>2, <1>3, <1>4, <1>5, <1>6, <1>7 DEF Inv

LEMMA DecideInv ==
    ASSUME Inv, NEW w \in Workers, Decide(w), UNCHANGED <<serverVars, natsVars>>
    PROVE  Inv' /\ SettledKept
  <1> USE DEF tableVars, serverVars, workerVars, goroutineVars, natsVars
  <1>1. TypeOK'
    <2>1. faults' \in 0..MaxFaults
      BY FaultType DEF Inv, Decide, Goto
    <2>2. WorkerTypeOK'
      <3>1. final' \in [Workers -> {"none"} \cup Settled]
        BY FinalStatusType DEF Inv, TypeOK, WorkerTypeOK, Settled, Decide
      <3> QED BY <3>1, ClearedGoroutines DEF Inv, TypeOK, WorkerTypeOK, Phases, Decide, Goto
    <2> QED BY <2>1, <2>2 DEF Inv, TypeOK, ServerTypeOK, WorkerTypeOK,
      NATSTypeOK, Decide, Goto
  <1>2. BrokerInv'
    BY DEF Inv, BrokerInv, Decide, Goto
  <1>3. \A q \in Requests : CallInv(q)'
    BY DEF Inv, CallInv, Decide, Goto
  <1>4. \A v \in Workers : HandlerInv(v)'
    <2>1. final'[w] \in Settled /\ \A v \in Workers \ {w} : final'[v] = final[v]
      BY FinalStatusType DEF Inv, TypeOK, WorkerTypeOK, Settled, Decide
    <2> QED BY <2>1, ClearedGoroutines DEF Inv, TypeOK, WorkerTypeOK, HandlerInv,
              Working, Decide, Goto
  <1>5. ClaimsCounted'
    BY DEF Inv, ClaimsCounted, Decide, Goto
  <1>6. ProcessingIsOwned'
    BY DEF Inv, ProcessingIsOwned, Decide, Goto
  <1>7. SettledKept
    BY DEF SettledKept, Decide, Goto
  <1> QED BY <1>1, <1>2, <1>3, <1>4, <1>5, <1>6, <1>7 DEF Inv

LEMMA ReleaseInv ==
    ASSUME Inv, NEW w \in Workers, Release(w), UNCHANGED <<serverVars, natsVars>>
    PROVE  Inv' /\ SettledKept
  <1> USE DEF tableVars, serverVars, workerVars, goroutineVars, natsVars
  <1>0. TableKept
    <2> DEFINE n == job[w]
               r == Released(row[n], final[w])
    <2>1. n \in Notifications /\ row[n].status # "absent" /\ final[w] \in Settled
      BY DEF Inv, HandlerInv, Working, Release
    <2>2. r \in Row /\ r.status \in Settled
      BY <2>1, ReleasedType DEF Inv, TypeOK
    <2>3. UNCHANGED claims /\ (row' = [row EXCEPT ![n] = r] \/ UNCHANGED row)
      BY DEF Release
    <2> HIDE DEF n, r
    <2>4. CASE row' = [row EXCEPT ![n] = r]
      BY <2>1, <2>2, <2>3, <2>4, SettlingStep
    <2>5. CASE UNCHANGED row
      BY <2>3, <2>5 DEF Inv, TypeOK, TableKept, SettledKept, ClaimsCounted,
                        ProcessingIsOwned
    <2> QED BY <2>3, <2>4, <2>5
  <1>1. TypeOK'
    <2>1. faults' \in 0..MaxFaults
      BY FaultType DEF Inv, Release, StatementFails, Goto
    <2>2. row' \in [Notifications -> Row] /\ claims' \in [Notifications -> Nat]
      BY <1>0 DEF TableKept
    <2>3. WorkerTypeOK'
      BY DEF Inv, TypeOK, WorkerTypeOK, Phases, Steps, Settled, Release,
        StatementFails, Goto
    <2> QED BY <2>1, <2>2, <2>3 DEF Inv, TypeOK, ServerTypeOK,
      WorkerTypeOK, NATSTypeOK, Release, StatementFails, Goto
  <1>2. BrokerInv'
    BY DEF Inv, BrokerInv, Release, StatementFails, Goto
  <1>3. \A q \in Requests : CallInv(q)'
    BY <1>0, ServerAssumption DEF Inv, CallInv, TableKept, TypeOK,
      Release, StatementFails, Goto
  <1>4. \A v \in Workers : HandlerInv(v)'
    BY <1>0 DEF Inv, HandlerInv, Working, TableKept, TypeOK, WorkerTypeOK,
      Release, StatementFails, Goto
  <1>5. ClaimsCounted'
    BY <1>0 DEF TableKept
  <1>6. ProcessingIsOwned'
    BY <1>0 DEF TableKept
  <1>7. SettledKept
    BY <1>0 DEF TableKept
  <1> QED BY <1>1, <1>2, <1>3, <1>4, <1>5, <1>6, <1>7 DEF Inv

LEMMA CleanupInv ==
    ASSUME Inv, NEW w \in Workers, Cleanup(w)
    PROVE  Inv' /\ SettledKept
  <1> USE DEF tableVars, serverVars, workerVars, goroutineVars, natsVars
  <1>0. TableKept
    BY ResettingStep DEF Cleanup
  <1>1. TypeOK'
    <2>1. faults' \in 0..MaxFaults
      BY FaultType DEF Inv, Cleanup, ResetStuckNotifications
    <2>2. row' \in [Notifications -> Row] /\ claims' \in [Notifications -> Nat]
      BY <1>0 DEF TableKept
    <2> QED BY <2>1, <2>2 DEF Inv, TypeOK, ServerTypeOK, WorkerTypeOK,
      NATSTypeOK, Cleanup, ResetStuckNotifications
  <1>2. BrokerInv'
    BY DEF Inv, BrokerInv, Cleanup, ResetStuckNotifications
  <1>3. \A q \in Requests : CallInv(q)'
    BY <1>0, ServerAssumption DEF Inv, CallInv, TableKept, TypeOK,
      Cleanup, ResetStuckNotifications
  <1>4. \A v \in Workers : HandlerInv(v)'
    BY <1>0 DEF Inv, HandlerInv, Working, TableKept, TypeOK, Cleanup,
      ResetStuckNotifications
  <1>5. ClaimsCounted'
    BY <1>0 DEF TableKept
  <1>6. ProcessingIsOwned'
    BY <1>0 DEF TableKept
  <1>7. SettledKept
    BY <1>0 DEF TableKept
  <1> QED BY <1>1, <1>2, <1>3, <1>4, <1>5, <1>6, <1>7 DEF Inv

(* No action: everything is as it was. *)
LEMMA StutterInv ==
    ASSUME Inv, UNCHANGED vars
    PROVE  Inv' /\ SettledKept
  <1> USE DEF vars, tableVars, serverVars, workerVars, goroutineVars, natsVars
  <1>1. TypeOK'
    BY DEF Inv, TypeOK, ServerTypeOK, WorkerTypeOK, NATSTypeOK
  <1>2. BrokerInv' /\ \A r \in Requests : CallInv(r)'
    BY DEF Inv, BrokerInv, CallInv
  <1>3. \A w \in Workers : HandlerInv(w)'
    BY DEF Inv, HandlerInv, Working
  <1>4. ClaimsCounted' /\ ProcessingIsOwned' /\ SettledKept
    BY DEF Inv, ClaimsCounted, ProcessingIsOwned, SettledKept
  <1> QED BY <1>1, <1>2, <1>3, <1>4 DEF Inv

(***************************************************************************)
(* Every step.                                                             *)
(***************************************************************************)
LEMMA NextInv ==
    ASSUME Inv, [Next]_vars
    PROVE  Inv' /\ SettledKept
  <1>1. CASE \E r \in Requests : ServerStep(r)
    <2>1. PICK r \in Requests : ServerStep(r)
      BY <1>1
    <2>2. CASE ServerSave(r)
      BY <2>2, ServerSaveInv
    <2>3. ASSUME NEW n \in Notifications, ServerPublish(r, n)
          PROVE  Inv' /\ SettledKept
      BY <2>3, ServerPublishInv
    <2>4. ASSUME NEW n \in Notifications, ServerPublishFails(r, n)
          PROVE  Inv' /\ SettledKept
      BY <2>4, ServerPublishFailsInv
    <2>5. CASE ServerMark(r)
      BY <2>5, ServerMarkInv
    <2>6. CASE ServerReply(r)
      BY <2>6, ServerReplyInv
    <2> QED BY <2>1, <2>2, <2>3, <2>4, <2>5, <2>6 DEF ServerStep
  <1>2. CASE ServerFault
    BY <1>2, ServerFaultInv
  <1>3. ASSUME NEW w \in Workers, WorkerLoop(w)
        PROVE  Inv' /\ SettledKept
    <2>1. CASE Poll(w)
      BY <2>1, PollInv
    <2>2. CASE PollTimesOut(w)
      BY <2>2, PollTimesOutInv
    <2>3. CASE Handle(w)
      BY <2>3, HandleInv
    <2>4. CASE Answer(w)
      BY <2>4, AnswerInv
    <2>5. CASE Work(w)
      <3>1. UNCHANGED <<serverVars, natsVars>>
        BY <2>5 DEF Work
      <3>2. CASE Claim(w)
        BY <3>1, <3>2, ClaimInv
      <3>3. CASE ClaimNotPending(w)
        BY <3>1, <3>3, ClaimNotPendingInv
      <3>4. CASE ClaimFails(w)
        BY <3>1, <3>4, ClaimFailsInv
      <3>5. ASSUME NEW d \in Destinations, Send(w, d)
            PROVE  Inv' /\ SettledKept
        BY <3>1, <3>5, SendInv
      <3>6. ASSUME NEW d \in Destinations, ReadRow(w, d)
            PROVE  Inv' /\ SettledKept
        BY <3>1, <3>6, ReadRowInv
      <3>7. ASSUME NEW d \in Destinations, SaveRow(w, d)
            PROVE  Inv' /\ SettledKept
        BY <3>1, <3>7, SaveRowInv
      <3>8. ASSUME NEW d \in Destinations, RecordFails(w, d)
            PROVE  Inv' /\ SettledKept
        BY <3>1, <3>8, RecordFailsInv
      <3>9. CASE Decide(w)
        BY <3>1, <3>9, DecideInv
      <3>10. CASE Release(w)
        BY <3>1, <3>10, ReleaseInv
      <3> QED BY <2>5, <3>2, <3>3, <3>4, <3>5, <3>6, <3>7, <3>8, <3>9, <3>10
              DEF Work
    <2> QED BY <1>3, <2>1, <2>2, <2>3, <2>4, <2>5 DEF WorkerLoop
  <1>4. ASSUME NEW w \in Workers, Cleanup(w) \/ WorkerShutdown(w) \/ WorkerEnds(w)
        PROVE  Inv' /\ SettledKept
    BY <1>4, CleanupInv, ShutdownInv, EndsInv
  <1>5. ASSUME NEW n \in Notifications, Redeliver(n) \/ Clock(n)
        PROVE  Inv' /\ SettledKept
    BY <1>5, RedeliverInv, ClockInv
  <1>6. CASE UNCHANGED vars
    BY <1>6, StutterInv
  <1> QED BY <1>1, <1>2, <1>3, <1>4, <1>5, <1>6 DEF Next

(***************************************************************************)
(* The theorems.                                                           *)
(***************************************************************************)

(* Inv holds throughout: the base of all that follows. *)
THEOREM InvHolds == Spec => []Inv
  <1>1. Init => Inv
    BY InitInv
  <1>2. Inv /\ [Next]_vars => Inv'
    BY NextInv
  <1> QED BY <1>1, <1>2, PTL DEF Spec

(* The state of every process, the table and the stream stay in their      *)
(* types; in particular no message is delivered more than MaxDeliver times. *)
THEOREM TypeCorrect == Spec => []TypeOK
  <1>1. Inv => TypeOK
    BY DEF Inv
  <1> QED BY <1>1, InvHolds, PTL

(* No notification is ever claimed more than MaxAttempts times, and its    *)
(* row knows how often it was (ResetStuckNotifications' limit).            *)
THEOREM AttemptsBounded == Spec => []ClaimsCounted
  <1>1. Inv => ClaimsCounted
    BY DEF Inv
  <1> QED BY <1>1, InvHolds, PTL

(* A row in processing always names its worker and its start time, so that *)
(* ResetStuckNotifications can find it.                                    *)
THEOREM StuckRowsCanBeFound == Spec => []ProcessingIsOwned
  <1>1. Inv => ProcessingIsOwned
    BY DEF Inv
  <1> QED BY <1>1, InvHolds, PTL

(* No write, however old the copy of the row it was computed from, opens a *)
(* settled notification again.                                             *)
THEOREM SettledStays == Spec => NeverReopened
  <1>1. Inv /\ [Next]_vars => [SettledKept]_vars
    BY NextInv
  <1>2. Spec => [][SettledKept]_vars
    BY <1>1, InvHolds, PTL DEF Spec
  <1>3. [SettledKept]_vars =>
           [\A n \in Notifications :
               row[n].status \in Settled => row'[n].status \in Settled]_vars
    BY DEF SettledKept
  <1> QED BY <1>2, <1>3, PTL DEF NeverReopened

=============================================================================
