--------------------------- MODULE DeliveryProofs ---------------------------
(***************************************************************************)
(* Proof, for every value of the constants, that the table never claims a  *)
(* delivery that no provider made.                                         *)
(*                                                                         *)
(* SentMeansDelivered is about rows, but a row is computed from a copy of  *)
(* it read earlier, from what a provider answered and from what            *)
(* determineFinalStatus read; DeliveryInv says that all of these are true  *)
(* of the deliveries made, and deliveries are never undone.  And what a    *)
(* client reads of a row obeys the rules of the API.                       *)
(***************************************************************************)
EXTENDS TellerProofs, StatusReplies, ValidationProofs

(***************************************************************************)
(* The statements keep a row truthful.                                     *)
(***************************************************************************)
LEMMA BlankIsTruthful ==
    ASSUME NEW n \in Notifications
    PROVE  Truthful(Absent, n) /\ Truthful(NewNotification, n)
  BY DEF Truthful, Absent, NewNotification, BlankRow, NoResults

(* A row whose results are those of r and whose status and sent_at tell no *)
(* more than those of r.                                                   *)
LEMMA NoMoreThan ==
    ASSUME NEW n \in Notifications, NEW r, NEW q, Truthful(r, n),
           q.results = r.results,
           q.status = "sent" \/ q.sentAt => r.status = "sent" \/ r.sentAt
    PROVE  Truthful(q, n)
  BY DEF Truthful

LEMMA ResultIsTruthful ==
    ASSUME NEW n \in Notifications, NEW r \in Row, NEW d \in DestinationsOf[n],
           NEW o \in Settled, Truthful(r, n), o = "sent" => sends[n][d] > 0
    PROVE  Truthful(WithResult(r, ChannelOf[d], o), n)
  <1> DEFINE q == WithResult(r, ChannelOf[d], o)
  <1>1. ChannelOf[d] \in Channels
    BY TableAssumption
  <1>2. \A c \in Channels : q.results[c] = (IF c = ChannelOf[d] THEN o ELSE r.results[c])
    BY <1>1 DEF WithResult, Row
  <1>3. \A c \in Channels : q.results[c] = "sent" => DeliveredOn(n, c)
    BY <1>2 DEF Truthful, DeliveredOn
  <1>4. q.status = "sent" => \E c \in Channels : q.results[c] = "sent"
    BY <1>1 DEF WithResult, Row
  <1>5. q.sentAt => r.sentAt \/ q.status = "sent"
    BY DEF WithResult, Row
  <1>6. \A c \in Channels : DeliveredOn(n, c) => Delivered(n)
    BY DEF DeliveredOn, Delivered
  <1>7. q.status = "sent" \/ q.sentAt => Delivered(n)
    BY <1>3, <1>4, <1>5, <1>6 DEF Truthful
  <1> QED BY <1>3, <1>7 DEF Truthful

LEMMA FinalIsTruthful ==
    ASSUME NEW n \in Notifications, NEW r, Truthful(r, n), FinalStatus(r) = "sent"
    PROVE  Delivered(n)
  <1>1. PICK c \in Channels : r.results[c] = "sent"
    BY DEF FinalStatus
  <1> QED BY <1>1 DEF Truthful, DeliveredOn, Delivered

LEMMA ReleasedIsTruthful ==
    ASSUME NEW n \in Notifications, NEW r \in Row, NEW s \in Settled,
           Truthful(r, n), s = "sent" => Delivered(n)
    PROVE  Truthful(Released(r, s), n)
  <1>1. /\ Released(r, s).results = r.results
        /\ Released(r, s).status = s
        /\ Released(r, s).sentAt => r.sentAt \/ s = "sent"
    BY DEF Released, Row
  <1> QED BY <1>1 DEF Truthful

(***************************************************************************)
(* Steps that deliver nothing and learn nothing: no goroutine comes to     *)
(* hold an answer or a copy it did not hold, no handler a decision.        *)
(***************************************************************************)
HandlersKept ==
    \A w \in Workers :
        /\ \A d \in Destinations : step'[w][d] \in {"read", "save"} =>
              /\ step'[w][d] = step[w][d] /\ job'[w] = job[w]
              /\ outcome'[w][d] = outcome[w][d] /\ copy'[w][d] = copy[w][d]
        /\ final'[w] = "sent" =>
              final[w] = "sent" /\ phase'[w] = phase[w] /\ job'[w] = job[w]

LEMMA QuietStep ==
    ASSUME Inv, DeliveryInv, HandlersKept, UNCHANGED sends,
           \A n \in Notifications : Truthful(row'[n], n)
    PROVE  DeliveryInv'
  <1>1. ASSUME NEW n \in Notifications PROVE Truthful(row[n], n)'
    BY DEF Truthful, Delivered, DeliveredOn
  <1>2. ASSUME NEW w \in Workers PROVE HonestHandler(w)'
    BY DEF DeliveryInv, HandlersKept, HonestHandler, Truthful, Delivered, DeliveredOn
  <1> QED BY <1>1, <1>2 DEF DeliveryInv

(* Most steps do not touch the table, the goroutines or the decisions. *)
LEMMA IdleStep ==
    ASSUME Inv, DeliveryInv, UNCHANGED <<row, sends, goroutineVars, final>>,
           \A w \in Workers : Working(w) => phase'[w] = phase[w] /\ job'[w] = job[w]
    PROVE  DeliveryInv'
  <1>1. HandlersKept
    <2> SUFFICES ASSUME NEW w \in Workers
                 PROVE  /\ \A d \in Destinations : step'[w][d] \in {"read", "save"} =>
                              /\ step'[w][d] = step[w][d] /\ job'[w] = job[w]
                              /\ outcome'[w][d] = outcome[w][d]
                              /\ copy'[w][d] = copy[w][d]
                        /\ final'[w] = "sent" =>
                              /\ final[w] = "sent" /\ phase'[w] = phase[w]
                              /\ job'[w] = job[w]
      BY DEF HandlersKept
    <2>1. final[w] = "sent" => phase[w] = "releasing"
      BY DEF DeliveryInv, HonestHandler
    <2>2. \A d \in Destinations : step[w][d] # "none" => phase[w] = "sending"
      BY DEF Inv, HandlerInv
    <2> QED BY <2>1, <2>2 DEF goroutineVars, Working
  <1>2. \A n \in Notifications : Truthful(row'[n], n)
    BY DEF DeliveryInv
  <1> QED BY <1>1, <1>2, QuietStep

(***************************************************************************)
(* The server.                                                             *)
(***************************************************************************)
LEMMA ServerDelivery ==
    ASSUME Inv, DeliveryInv, NEW r \in Requests, ServerStep(r)
    PROVE  DeliveryInv'
  <1> USE DEF tableVars, workerVars
  <1>1. UNCHANGED workerVars
    BY DEF ServerStep, ServerSave, ServerPublish, ServerPublishFails, ServerMark, ServerReply
  <1>2. CASE UNCHANGED row
    BY <1>1, <1>2, IdleStep
  <1>3. HandlersKept
    BY <1>1 DEF HandlersKept, goroutineVars
  <1>4. CASE Inserted(r)
    BY <1>1, <1>3, <1>4, BlankIsTruthful, QuietStep DEF Inserted, DeliveryInv
  <1>5. CASE MarkFailed(r)
    <2> DEFINE n == failing[r]
    <2>1. n \in Notifications
      BY <1>5, ServerAssumption DEF Inv, CallInv, MarkFailed
    <2>2. /\ row'[n] = [row[n] EXCEPT !.status = "failed"]
          /\ \A m \in Notifications \ {n} : row'[m] = row[m]
          /\ row[n] \in Row
      BY <1>5, <2>1 DEF Inv, TypeOK, MarkFailed
    <2>3. /\ row'[n].results = row[n].results
          /\ row'[n].status = "failed"
          /\ row'[n].sentAt = row[n].sentAt
      BY <2>2 DEF Row
    <2>4. Truthful(row'[n], n)
      BY <2>1, <2>3, NoMoreThan DEF DeliveryInv
    <2> QED BY <1>1, <1>3, <2>2, <2>4, QuietStep DEF DeliveryInv
  <1> QED BY <1>2, <1>4, <1>5 DEF ServerStep, ServerSave, SaveRows, SaveRowsFails,
          ServerPublish, Publish, ServerPublishFails, PublishFails, ServerMark,
          MarkFailedFails, ServerReply, Reply

(***************************************************************************)
(* The subscription loop.                                                  *)
(***************************************************************************)
LEMMA LoopDelivery ==
    ASSUME Inv, DeliveryInv, NEW w \in Workers,
           Poll(w) \/ PollTimesOut(w) \/ Handle(w) \/ Answer(w)
    PROVE  DeliveryInv'
  <1>1. UNCHANGED <<row, sends, goroutineVars, final>>
    BY DEF Poll, PollTimesOut, Handle, Receive, ReceiveFails, Answer, NextMessage, tableVars
  <1>2. /\ ~Working(w)
        /\ \A v \in Workers \ {w} : phase'[v] = phase[v] /\ job'[v] = job[v]
    BY DEF Inv, TypeOK, WorkerTypeOK, Working, Poll, PollTimesOut, Handle, Receive,
           ReceiveFails, Answer, NextMessage, Goto
  <1> QED BY <1>1, <1>2, IdleStep

(***************************************************************************)
(* The claim.                                                              *)
(***************************************************************************)
LEMMA TakeClaimIsTruthful ==
    ASSUME Inv, DeliveryInv, NEW w \in Workers, job[w] \in Notifications, TakeClaim(w)
    PROVE  \A n \in Notifications : Truthful(row'[n], n)
  <1> DEFINE n == job[w]
  <1>1. /\ row'[n] = Claimed(row[n], w)
        /\ \A m \in Notifications \ {n} : row'[m] = row[m]
        /\ row[n] \in Row
    BY DEF Inv, TypeOK, TakeClaim
  <1>2. /\ row'[n].results = row[n].results
        /\ row'[n].status = "processing"
        /\ row'[n].sentAt = row[n].sentAt
    BY <1>1 DEF Claimed, Row
  <1>3. Truthful(row'[n], n)
    BY <1>2, NoMoreThan DEF DeliveryInv
  <1> QED BY <1>1, <1>3 DEF DeliveryInv

LEMMA ClaimDelivery ==
    ASSUME Inv, DeliveryInv, NEW w \in Workers,
           Claim(w) \/ ClaimNotPending(w) \/ ClaimFails(w)
    PROVE  DeliveryInv'
  <1>1. job[w] \in Notifications /\ phase[w] = "claiming"
    BY DEF Inv, HandlerInv, Claim, ClaimNotPending, ClaimFails
  <1>2. \A n \in Notifications : Truthful(row'[n], n)
    <2>1. CASE TakeClaim(w)
      BY <1>1, <2>1, TakeClaimIsTruthful
    <2>2. CASE UNCHANGED tableVars
      BY <2>2 DEF DeliveryInv, tableVars
    <2> QED BY <2>1, <2>2 DEF Claim, ClaimNotPending, ClaimFails
  <1>3. UNCHANGED <<job, outcome, copy, final, sends>>
    BY DEF Claim, ClaimNotPending, ClaimFails, goroutineVars
  <1>4. \A v \in Workers, d \in Destinations :
           step'[v][d] \in {"read", "save"} => step'[v][d] = step[v][d]
    <2>1. CASE UNCHANGED goroutineVars
      BY <2>1 DEF goroutineVars
    <2>2. CASE Claim(w)
      <3>1. /\ \A d \in Destinations : step'[w][d] \in {"send", "none"}
            /\ \A v \in Workers \ {w} : step'[v] = step[v]
        BY <2>2 DEF Inv, TypeOK, WorkerTypeOK, Claim
      <3> QED BY <3>1
    <2> QED BY <2>1, <2>2 DEF ClaimNotPending, ClaimFails
  <1>5. \A v \in Workers : phase'[v] = phase[v] \/ phase[v] = "claiming"
    BY <1>1 DEF Inv, TypeOK, WorkerTypeOK, Claim, ClaimNotPending, ClaimFails, Goto
  <1>6. HandlersKept
    BY <1>3, <1>4, <1>5 DEF HandlersKept, DeliveryInv, HonestHandler
  <1> QED BY <1>2, <1>3, <1>6, QuietStep

(***************************************************************************)
(* The goroutines.                                                         *)
(***************************************************************************)
LEMMA SendDelivery ==
    ASSUME Inv, DeliveryInv, NEW w \in Workers, NEW d \in Destinations, Send(w, d)
    PROVE  DeliveryInv'
  <1> DEFINE n == job[w]
  <1>1. n \in Notifications
    BY DEF Inv, HandlerInv, Send
  <1>2. /\ step'[w][d] = "read"
        /\ \A v \in Workers, e \in Destinations :
              v # w \/ e # d => step'[v][e] = step[v][e]
    BY StepTaken DEF Inv, TypeOK, Steps, Send
  <1>3. /\ \A v \in Workers, e \in Destinations :
              v # w \/ e # d => outcome'[v][e] = outcome[v][e]
        /\ UNCHANGED <<row, copy, final, phase, job>>
    BY DEF Inv, TypeOK, WorkerTypeOK, Send, tableVars
  <1>4. sends[n][d] \in Nat /\ sends \in [Notifications -> [Destinations -> Nat]]
    BY <1>1 DEF Inv, TypeOK, WorkerTypeOK
  <1>5. CASE /\ outcome' = [outcome EXCEPT ![w][d] = "sent"]
             /\ sends' = [sends EXCEPT ![n][d] = @ + 1]
    <2>1. \A m \in Notifications, e \in Destinations :
             sends[m][e] > 0 => sends'[m][e] > 0
      BY <1>1, <1>4, <1>5
    <2>2. sends'[n][d] > 0
      BY <1>1, <1>4, <1>5
    <2>3. ASSUME NEW m \in Notifications PROVE Truthful(row[m], m)'
      <3>1. \A e \in DestinationsOf[m] : sends[m][e] > 0 => sends'[m][e] > 0
        BY <2>1, TableAssumption
      <3> QED BY <1>3, <3>1 DEF DeliveryInv, Truthful, Delivered, DeliveredOn
    <2>4. ASSUME NEW v \in Workers PROVE HonestHandler(v)'
      <3>1. ASSUME NEW e \in Destinations, step'[v][e] \in {"read", "save"},
                   outcome'[v][e] = "sent"
            PROVE  sends'[job'[v]][e] > 0
        <4>1. CASE v = w /\ e = d
          BY <1>3, <2>2, <4>1
        <4>2. CASE v # w \/ e # d
          <5>1. step[v][e] \in {"read", "save"} /\ outcome[v][e] = "sent"
            BY <1>2, <1>3, <3>1, <4>2
          <5>2. job[v] \in Notifications
            BY <5>1 DEF Inv, HandlerInv
          <5>3. sends[job[v]][e] > 0
            BY <5>1 DEF DeliveryInv, HonestHandler
          <5> QED BY <1>3, <2>1, <5>2, <5>3
        <4> QED BY <4>1, <4>2
      <3>2. ASSUME NEW e \in Destinations, step'[v][e] = "save"
            PROVE  Truthful(copy[v][e], job[v])'
        <4>1. step[v][e] = "save"
          BY <1>2, <3>2
        <4>2. job[v] \in Notifications
          BY <4>1 DEF Inv, HandlerInv
        <4>3. Truthful(copy[v][e], job[v])
          BY <4>1 DEF DeliveryInv, HonestHandler
        <4>4. DestinationsOf[job[v]] \subseteq Destinations
          BY <4>2, TableAssumption
        <4> QED BY <1>3, <2>1, <4>2, <4>3, <4>4 DEF Truthful, Delivered, DeliveredOn
      <3>3. final'[v] = "sent" => (phase[v] = "releasing" /\ Delivered(job[v]))'
        <4> SUFFICES ASSUME final'[v] = "sent"
                     PROVE  (phase[v] = "releasing" /\ Delivered(job[v]))'
          OBVIOUS
        <4>1. phase[v] = "releasing" /\ Delivered(job[v])
          BY <1>3 DEF DeliveryInv, HonestHandler
        <4>2. job[v] \in Notifications
          BY <4>1 DEF Inv, HandlerInv
        <4>3. DestinationsOf[job[v]] \subseteq Destinations
          BY <4>2, TableAssumption
        <4> QED BY <1>3, <2>1, <4>1, <4>2, <4>3 DEF Delivered
      <3> QED BY <3>1, <3>2, <3>3 DEF HonestHandler
    <2> QED BY <2>3, <2>4 DEF DeliveryInv
  <1>6. CASE /\ outcome' = [outcome EXCEPT ![w][d] = "failed"]
             /\ UNCHANGED sends
    <2>1. outcome'[w][d] = "failed"
      BY <1>6 DEF Inv, TypeOK, WorkerTypeOK
    <2>2. ASSUME NEW v \in Workers PROVE HonestHandler(v)'
      BY <1>2, <1>3, <1>6, <2>1 DEF DeliveryInv, HonestHandler, Truthful,
         Delivered, DeliveredOn
    <2>3. ASSUME NEW m \in Notifications PROVE Truthful(row[m], m)'
      BY <1>3, <1>6 DEF DeliveryInv, Truthful, Delivered, DeliveredOn
    <2> QED BY <2>2, <2>3 DEF DeliveryInv
  <1> QED BY <1>5, <1>6 DEF Send

(* UpdateChannelResult's SELECT copies a truthful row. *)
LEMMA ReadRowDelivery ==
    ASSUME Inv, DeliveryInv, NEW w \in Workers, NEW d \in Destinations, ReadRow(w, d)
    PROVE  DeliveryInv'
  <1>1. job[w] \in Notifications
    BY DEF Inv, HandlerInv, ReadRow
  <1>2. /\ step[w][d] = "read"
        /\ \A v \in Workers, e \in Destinations :
              v # w \/ e # d => step'[v][e] = step[v][e]
    BY StepTaken DEF Inv, TypeOK, Steps, ReadRow
  <1>3. /\ copy'[w][d] = row[job[w]]
        /\ \A v \in Workers, e \in Destinations :
              v # w \/ e # d => copy'[v][e] = copy[v][e]
        /\ UNCHANGED <<row, outcome, final, phase, job, sends>>
    BY DEF Inv, TypeOK, WorkerTypeOK, ReadRow, tableVars
  <1>4. ASSUME NEW m \in Notifications PROVE Truthful(row[m], m)'
    BY <1>3 DEF DeliveryInv, Truthful, Delivered, DeliveredOn
  <1>5. ASSUME NEW v \in Workers PROVE HonestHandler(v)'
    <2>1. ASSUME NEW e \in Destinations, step'[v][e] \in {"read", "save"},
                 outcome'[v][e] = "sent"
          PROVE  sends'[job'[v]][e] > 0
      BY <1>2, <1>3, <2>1 DEF DeliveryInv, HonestHandler
    <2>2. ASSUME NEW e \in Destinations, step'[v][e] = "save"
          PROVE  Truthful(copy'[v][e], job[v])
      BY <1>1, <1>2, <1>3, <2>2 DEF DeliveryInv, HonestHandler
    <2>3. final'[v] = "sent" => phase'[v] = "releasing" /\ Delivered(job[v])
      BY <1>3 DEF DeliveryInv, HonestHandler
    <2> QED BY <1>3, <2>1, <2>2, <2>3 DEF HonestHandler, Truthful, Delivered, DeliveredOn
  <1> QED BY <1>4, <1>5 DEF DeliveryInv

(* Its UPDATE computes a row from that copy and from the answer. *)
LEMMA SaveRowDelivery ==
    ASSUME Inv, DeliveryInv, NEW w \in Workers, NEW d \in Destinations, SaveRow(w, d)
    PROVE  DeliveryInv'
  <1> DEFINE n == job[w]
  <1>1. /\ n \in Notifications
        /\ d \in DestinationsOf[n]
        /\ outcome[w][d] \in Settled
        /\ step[w][d] = "save"
    BY DEF Inv, HandlerInv, SaveRow
  <1>2. copy[w][d] \in Row
    BY DEF Inv, TypeOK, WorkerTypeOK
  <1>3. Truthful(copy[w][d], n) /\ (outcome[w][d] = "sent" => sends[n][d] > 0)
    BY <1>1 DEF DeliveryInv, HonestHandler
  <1>4. Truthful(WithResult(copy[w][d], ChannelOf[d], outcome[w][d]), n)
    BY <1>1, <1>2, <1>3, ResultIsTruthful
  <1>5. \A m \in Notifications : Truthful(row'[m], m)
    BY <1>1, <1>4 DEF Inv, TypeOK, SaveRow, DeliveryInv
  <1>6. HandlersKept
    <2>1. \A v \in Workers, e \in Destinations :
             step'[v][e] \in {"read", "save"} => step'[v][e] = step[v][e]
      BY StepTaken DEF Inv, TypeOK, Steps, SaveRow
    <2> QED BY <2>1 DEF HandlersKept, SaveRow
  <1> QED BY <1>5, <1>6, QuietStep DEF SaveRow

LEMMA RecordFailsDelivery ==
    ASSUME Inv, DeliveryInv, NEW w \in Workers, NEW d \in Destinations,
           RecordFails(w, d)
    PROVE  DeliveryInv'
  <1>1. HandlersKept
    <2>1. \A v \in Workers, e \in Destinations :
             step'[v][e] \in {"read", "save"} => step'[v][e] = step[v][e]
      BY StepTaken DEF Inv, TypeOK, Steps, RecordFails
    <2> QED BY <2>1 DEF HandlersKept, RecordFails
  <1> QED BY <1>1, QuietStep DEF RecordFails, tableVars, DeliveryInv

(***************************************************************************)
(* The decision and the release.                                           *)
(***************************************************************************)
LEMMA DecideDelivery ==
    ASSUME Inv, DeliveryInv, NEW w \in Workers, Decide(w)
    PROVE  DeliveryInv'
  <1> DEFINE n == job[w]
  <1>1. n \in Notifications
    BY DEF Inv, HandlerInv, Decide
  <1>2. /\ UNCHANGED <<row, job, sends>>
        /\ phase'[w] = "releasing"
        /\ \A v \in Workers \ {w} : phase'[v] = phase[v] /\ final'[v] = final[v]
    BY DEF Inv, TypeOK, WorkerTypeOK, Decide, Goto, tableVars
  <1>3. final'[w] = "sent" => Delivered(n)
    <2>1. CASE final' = [final EXCEPT ![w] = FinalStatus(row[n])]
      <3>1. final'[w] = FinalStatus(row[n])
        BY <2>1 DEF Inv, TypeOK, WorkerTypeOK
      <3> QED BY <1>1, <3>1, FinalIsTruthful DEF DeliveryInv
    <2>2. CASE final' = [final EXCEPT ![w] = "failed"]
      BY <2>2 DEF Inv, TypeOK, WorkerTypeOK
    <2> QED BY <2>1, <2>2 DEF Decide
  <1>4. /\ \A d \in Destinations : step'[w][d] = "none"
        /\ \A v \in Workers \ {w} : /\ step'[v] = step[v]
                                     /\ outcome'[v] = outcome[v]
                                     /\ copy'[v] = copy[v]
    BY ClearedGoroutines DEF Inv, TypeOK, Decide
  <1>5. ASSUME NEW m \in Notifications PROVE Truthful(row[m], m)'
    BY <1>2 DEF DeliveryInv, Truthful, Delivered, DeliveredOn
  <1>6. ASSUME NEW v \in Workers PROVE HonestHandler(v)'
    <2>1. CASE v = w
      BY <1>2, <1>3, <1>4, <2>1 DEF HonestHandler, Delivered
    <2>2. CASE v # w
      BY <1>2, <1>4, <2>2 DEF DeliveryInv, HonestHandler, Truthful, Delivered, DeliveredOn
    <2> QED BY <2>1, <2>2
  <1> QED BY <1>5, <1>6 DEF DeliveryInv

LEMMA ReleaseDelivery ==
    ASSUME Inv, DeliveryInv, NEW w \in Workers, Release(w)
    PROVE  DeliveryInv'
  <1> DEFINE n == job[w]
  <1>1. n \in Notifications /\ final[w] \in Settled /\ phase[w] = "releasing"
    BY DEF Inv, HandlerInv, Release
  <1>2. final[w] = "sent" => Delivered(n)
    BY DEF DeliveryInv, HonestHandler
  <1>3. Truthful(Released(row[n], final[w]), n)
    BY <1>1, <1>2, ReleasedIsTruthful DEF DeliveryInv, Inv, TypeOK
  <1>4. \A m \in Notifications : Truthful(row'[m], m)
    <2>1. CASE UNCHANGED row
      BY <2>1 DEF DeliveryInv
    <2>2. CASE row' = [row EXCEPT ![n] = Released(@, final[w])]
      BY <1>1, <1>3, <2>2 DEF DeliveryInv, Inv, TypeOK
    <2> QED BY <2>1, <2>2 DEF Release
  <1>5. HandlersKept
    <2>1. /\ \A v \in Workers \ {w} : phase'[v] = phase[v] /\ final'[v] = final[v]
          /\ final'[w] = "none"
      BY DEF Inv, TypeOK, WorkerTypeOK, Release, Goto
    <2>2. \A v \in Workers, e \in Destinations : step'[v][e] = step[v][e]
      BY DEF Release, goroutineVars
    <2> QED BY <2>1, <2>2 DEF HandlersKept, Release, goroutineVars
  <1> QED BY <1>4, <1>5, QuietStep DEF Release

(***************************************************************************)
(* The cleanup and the end of a worker.                                    *)
(***************************************************************************)
LEMMA CleanupDelivery ==
    ASSUME Inv, DeliveryInv, NEW w \in Workers, Cleanup(w)
    PROVE  DeliveryInv'
  <1>1. UNCHANGED workerVars
    BY DEF Cleanup, ResetStuckNotifications
  <1>2. \A n \in Notifications : row'[n] = row[n] \/ row'[n] = Reset(row[n])
    BY DEF Cleanup, ResetStuckNotifications, Inv, TypeOK
  <1>3. ASSUME NEW n \in Notifications PROVE Truthful(Reset(row[n]), n)
    <2>1. row[n] \in Row
      BY DEF Inv, TypeOK
    <2>2. /\ Reset(row[n]).results = row[n].results
          /\ Reset(row[n]).status = "pending"
          /\ Reset(row[n]).sentAt = row[n].sentAt
      BY <2>1 DEF Reset, Row
    <2> QED BY <2>2, NoMoreThan DEF DeliveryInv
  <1>4. \A n \in Notifications : Truthful(row'[n], n)
    BY <1>2, <1>3 DEF DeliveryInv
  <1>5. HandlersKept
    BY <1>1 DEF HandlersKept, workerVars, goroutineVars
  <1> QED BY <1>1, <1>4, <1>5, QuietStep DEF workerVars

LEMMA EndsDelivery ==
    ASSUME Inv, DeliveryInv, NEW w \in Workers, WorkerEnds(w)
    PROVE  DeliveryInv'
  <1>1. UNCHANGED <<row, sends>>
    BY DEF WorkerEnds, Exit, Crash, Leave, tableVars
  <1>2. /\ \A v \in Workers \ {w} : /\ phase'[v] = phase[v] /\ job'[v] = job[v]
                                     /\ final'[v] = final[v]
        /\ final'[w] = "none"
    BY DEF Inv, TypeOK, WorkerTypeOK, WorkerEnds, Exit, Crash, Leave, Goto
  <1>3. /\ \A d \in Destinations : step'[w][d] = "none"
        /\ \A v \in Workers \ {w} : /\ step'[v] = step[v]
                                     /\ outcome'[v] = outcome[v]
                                     /\ copy'[v] = copy[v]
    BY ClearedGoroutines DEF Inv, TypeOK, WorkerEnds, Exit, Crash, Leave
  <1>4. HandlersKept
    BY <1>2, <1>3 DEF HandlersKept
  <1> QED BY <1>1, <1>4, QuietStep DEF DeliveryInv

(***************************************************************************)
(* The next-state relation, and the theorems.                              *)
(***************************************************************************)
LEMMA InitDelivery ==
    ASSUME Init PROVE DeliveryInv
  <1> USE DEF Init
  <1>1. ASSUME NEW n \in Notifications PROVE Truthful(row[n], n)
    BY BlankIsTruthful DEF TableInit
  <1>2. ASSUME NEW w \in Workers PROVE HonestHandler(w)
    BY DEF WorkerInit, NoSteps, HonestHandler
  <1> QED BY <1>1, <1>2 DEF DeliveryInv

LEMMA StutterDelivery ==
    ASSUME Inv, DeliveryInv, UNCHANGED <<row, workerVars>>
    PROVE  DeliveryInv'
  BY IdleStep DEF workerVars

LEMMA NextDelivery ==
    ASSUME Inv, DeliveryInv, [Next]_vars
    PROVE  DeliveryInv'
  <1>1. ASSUME NEW r \in Requests, ServerStep(r) PROVE DeliveryInv'
    BY <1>1, ServerDelivery
  <1>2. CASE ServerFault
    BY <1>2, StutterDelivery DEF ServerFault, Expire, ServerCrash, tableVars
  <1>3. ASSUME NEW w \in Workers, WorkerLoop(w) PROVE DeliveryInv'
    BY <1>3, LoopDelivery, ClaimDelivery, SendDelivery, ReadRowDelivery,
       SaveRowDelivery, RecordFailsDelivery, DecideDelivery, ReleaseDelivery
    DEF WorkerLoop, Work
  <1>4. ASSUME NEW w \in Workers, WorkerShutdown(w) PROVE DeliveryInv'
    BY <1>4, IdleStep DEF WorkerShutdown, Shutdown, tableVars
  <1>5. ASSUME NEW n \in Notifications, Redeliver(n) \/ Clock(n) PROVE DeliveryInv'
    BY <1>5, IdleStep DEF Redeliver, Clock, ScheduleArrives, tableVars, workerVars
  <1>6. CASE UNCHANGED vars
    BY <1>6, StutterDelivery DEF vars, tableVars
  <1> QED BY <1>1, <1>2, <1>3, <1>4, <1>5, <1>6, CleanupDelivery, EndsDelivery DEF Next

(* Rows, copies of rows, answers and decisions never tell of a delivery    *)
(* that no provider made.                                                  *)
THEOREM DeliveryInvHolds == Spec => []DeliveryInv
  <1>1. Init => DeliveryInv
    BY InitDelivery
  <1>2. Inv /\ DeliveryInv /\ [Next]_vars => DeliveryInv'
    BY NextDelivery
  <1> QED BY <1>1, <1>2, InvHolds, PTL DEF Spec

(* A client is never told "sent", of a notification or of a channel, when  *)
(* no provider delivered it.                                               *)
THEOREM SentIsTruthful == Spec => []SentMeansDelivered
  <1>1. DeliveryInv => SentMeansDelivered
    BY DEF DeliveryInv, Truthful, SentMeansDelivered, GetNotificationStatus,
       StatusPerChannel
  <1> QED BY <1>1, DeliveryInvHolds, PTL

(***************************************************************************)
(* The reply of GetNotificationStatus.                                     *)
(***************************************************************************)
LEMMA StatusesValid ==
    ASSUME NEW r \in Row, NEW reason \in 0..1000, NEW s \in ChannelStatuses(r, reason)
    PROVE  StatusValid(s)
  <1>1. PICK c \in Channels :
          /\ r.results[c] # "none"
          /\ s = [channel |-> ProtoChannel(c), status |-> ProtoStatus(r.results[c]),
                  failReason |-> Optional(FailureReason(r.results[c], reason))]
    BY DEF ChannelStatuses, StatusPerChannel
  <1>2. r.results[c] \in Settled
    BY <1>1 DEF Row
  <1>3. ProtoChannel(c) \in NotificationChannels
    BY StatusAssumption DEF ProtoChannel
  <1>4. ProtoStatus(r.results[c]) \in NotificationStatuses
    BY <1>2 DEF ProtoStatus, Settled, NotificationStatuses
  <1>5. FailureReason(r.results[c], reason) \in 0..1000
    BY DEF FailureReason
  <1>6. \A text \in 0..1000 : Optional(text) = Nil \/ Optional(text) \in 1..1000
    BY DEF Optional
  <1> QED BY <1>1, <1>3, <1>4, <1>5, <1>6 DEF StatusValid

LEMMA StatusesFinite ==
    ASSUME NEW r, NEW reason
    PROVE  IsFiniteSet(ChannelStatuses(r, reason))
  <1> DEFINE known == {c \in Channels : r.results[c] # "none"}
             statusOf == [c \in known |->
                [channel |-> ProtoChannel(c), status |-> ProtoStatus(r.results[c]),
                 failReason |-> Optional(FailureReason(r.results[c], reason))]]
  <1>1. IsFiniteSet(known)
    BY TableAssumption, FS_Subset
  <1>2. statusOf \in Surjection(known, ChannelStatuses(r, reason))
    <2>1. ASSUME NEW c \in known
          PROVE  statusOf[c] \in ChannelStatuses(r, reason)
      <3>1. [channel |-> c, status |-> r.results[c]] \in StatusPerChannel(r)
        BY DEF StatusPerChannel
      <3> QED BY <3>1 DEF ChannelStatuses
    <2>2. \A s \in ChannelStatuses(r, reason) : \E c \in known : s = statusOf[c]
      BY DEF ChannelStatuses, StatusPerChannel
    <2>3. statusOf = [c \in known |-> statusOf[c]]
      OBVIOUS
    <2> HIDE DEF statusOf, known
    <2> QED BY <2>1, <2>2, <2>3 DEF Surjection
  <1> QED BY <1>1, <1>2, FS_Surjection

(* Whenever a client asks, every status it is told obeys the rules of the  *)
(* API, as long as the provider's error has at most 1000 characters.       *)
THEOREM RepliesAreValid == Spec => []ReplyIsValid
  <1>1. ASSUME TypeOK, NEW n \in Notifications, NEW reason \in {0, 1, 1000}
        PROVE  /\ \A s \in ChannelStatuses(row[n], reason) :
                     ValidateStatusPerChannel(s, TRUE) = {}
               /\ ValidateGetNotificationStatusReply(StatusReply(row[n], reason), TRUE) = {}
    <2> DEFINE told == ChannelStatuses(row[n], reason)
    <2>1. row[n] \in Row /\ reason \in 0..1000
      BY <1>1 DEF TypeOK
    <2>2. \A s \in told : StatusValid(s)
      BY <2>1, StatusesValid
    <2>3. IsFiniteSet(told)
      BY StatusesFinite
    <2>4. StatusReply(row[n], reason).statuses = SetToSeq(told)
      BY DEF StatusReply
    <2> HIDE DEF told
    <2>5. SetToSeq(told) \in [1..Cardinality(told) -> told]
      BY <2>3, SetNumbered
    <2>6. ValidateGetNotificationStatusReply(StatusReply(row[n], reason), TRUE) = {}
      <3>1. \A i \in DOMAIN SetToSeq(told) : StatusValid(SetToSeq(told)[i])
        BY <2>2, <2>5
      <3> QED BY <2>4, <3>1, ReplyValidated
    <2>7. \A s \in told : ValidateStatusPerChannel(s, TRUE) = {}
      BY <2>2, StatusValidated
    <2> QED BY <2>6, <2>7 DEF told
  <1>2. TypeOK => ReplyIsValid
    BY <1>1 DEF ReplyIsValid
  <1> QED BY <1>2, TypeCorrect, PTL
=============================================================================
