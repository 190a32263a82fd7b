----------------------------- MODULE ClaimProofs -----------------------------
(***************************************************************************)
(* Proof, for every value of the constants, of what a claim is good for:   *)
(* it pays for one delivery to each destination and, if live workers are   *)
(* prompt, it keeps every other worker away.                               *)
(***************************************************************************)
EXTENDS TellerProofs, FiniteSetTheorems

(***************************************************************************)
(* Exclusive claims.                                                       *)
(*                                                                         *)
(* A row that somebody works on changes in three ways only: it is settled, *)
(* it is overwritten with a copy that names the same worker, or that       *)
(* worker gives it up.                                                     *)
(***************************************************************************)
WorkedRowsKept ==
    \A w \in Workers : Working(w) /\ Working(w)' =>
        /\ row'[job[w]].worker = row[job[w]].worker
        /\ row'[job[w]].status = "pending" => row[job[w]].status = "pending"

NobodyStarts ==
    \A w \in Workers : Working(w)' => Working(w) /\ job'[w] = job[w]

CopiesOwned ==
    \A w \in Workers, d \in Destinations :
        step'[w][d] = "save" => copy'[w][d].worker = w

LEMMA ClaimsStayHeld ==
    ASSUME Prompt, HeldInv, WorkedRowsKept, NobodyStarts, CopiesOwned
    PROVE  HeldInv'
  <1> SUFFICES ASSUME NEW w \in Workers, Working(w)'
               PROVE  HolderInv(w)'
    BY DEF HeldInv, HolderInv
  <1>1. Working(w) /\ job'[w] = job[w] /\ HolderInv(w)
    BY DEF NobodyStarts, HeldInv
  <1>2. row'[job[w]].worker = w /\ row'[job[w]].status # "pending"
    BY <1>1 DEF WorkedRowsKept, HolderInv
  <1>3. \A v \in Workers \ {w} : Working(v)' => job'[v] # job[w]
    BY <1>1 DEF NobodyStarts, HolderInv
  <1>4. \A d \in Destinations : step'[w][d] = "save" => copy'[w][d].worker = w
    BY DEF CopiesOwned
  <1> QED BY <1>1, <1>2, <1>3, <1>4 DEF HolderInv

(* A goroutine that waits to write keeps the copy it read.                 *)
LEMMA CopiesStayOwned ==
    ASSUME Prompt, Inv, HeldInv,
           \A w \in Workers, d \in Destinations : step'[w][d] = "save" =>
               step[w][d] = "save" /\ copy'[w][d] = copy[w][d]
    PROVE  CopiesOwned
  <1> SUFFICES ASSUME NEW w \in Workers, NEW d \in Destinations, step'[w][d] = "save"
               PROVE  copy'[w][d].worker = w
    BY DEF CopiesOwned
  <1>1. step[w][d] = "save" /\ copy'[w][d] = copy[w][d]
    OBVIOUS
  <1>2. Working(w)
    BY <1>1 DEF Inv, HandlerInv, Working
  <1> QED BY <1>1, <1>2 DEF HeldInv, HolderInv

(* Steps of the server and of the loops of other workers.                  *)
LEMMA RowsStayHeld ==
    ASSUME Prompt, Inv, HeldInv, NobodyStarts, UNCHANGED goroutineVars, WorkedRowsKept
    PROVE  HeldInv'
  BY CopiesStayOwned, ClaimsStayHeld DEF goroutineVars

LEMMA NothingStarts ==
    ASSUME UNCHANGED <<phase, job>>
    PROVE  NobodyStarts
  BY DEF NobodyStarts, Working

LEMMA ServerHeld ==
    ASSUME Prompt, Inv, HeldInv, NEW r \in Requests, ServerStep(r)
    PROVE  HeldInv'
  <1>1. UNCHANGED workerVars
    BY DEF ServerStep, ServerSave, ServerPublish, ServerPublishFails, ServerMark, ServerReply
  <1>2. WorkedRowsKept
    <2>1. CASE UNCHANGED row
      BY <2>1 DEF WorkedRowsKept
    <2>2. CASE Inserted(r) /\ request[r] = "new"
      <3>1. \A n \in Batch[r] : row[n].status = "absent"
        BY <2>2 DEF Inv, CallInv
      <3>2. \A n \in Notifications \ Batch[r] : row'[n] = row[n]
        BY <2>2 DEF Inserted
      <3>3. \A w \in Workers : Working(w) =>
                job[w] \in Notifications /\ row[job[w]].status # "absent"
        BY DEF Inv, HandlerInv, Working
      <3> QED BY <3>1, <3>2, <3>3 DEF WorkedRowsKept
    <2>3. CASE MarkFailed(r)
      <3> DEFINE n == failing[r]
      <3>1. n \in Notifications
        BY <2>3, ServerAssumption DEF Inv, CallInv, MarkFailed
      <3>2. /\ row'[n] = [row[n] EXCEPT !.status = "failed"]
            /\ \A m \in Notifications \ {n} : row'[m] = row[m]
            /\ row[n] \in Row
        BY <2>3, <3>1 DEF Inv, TypeOK, MarkFailed
      <3>3. row'[n].status = "failed" /\ row'[n].worker = row[n].worker
        BY <3>2 DEF Row
      <3>4. \A w \in Workers : Working(w) => job[w] \in Notifications
        BY DEF Inv, HandlerInv, Working
      <3> QED BY <3>2, <3>3, <3>4 DEF WorkedRowsKept
    <2> QED BY <2>1, <2>2, <2>3 DEF ServerStep, ServerSave, SaveRows, SaveRowsFails,
            ServerPublish, Publish, ServerPublishFails, PublishFails, ServerMark,
            MarkFailedFails, ServerReply, Reply, tableVars
  <1> QED BY <1>1, <1>2, NothingStarts, RowsStayHeld DEF workerVars

LEMMA LoopHeld ==
    ASSUME Prompt, Inv, HeldInv, NEW w \in Workers,
           Poll(w) \/ PollTimesOut(w) \/ Handle(w) \/ Answer(w)
    PROVE  HeldInv'
  <1>1. UNCHANGED row /\ UNCHANGED goroutineVars
    BY DEF Poll, PollTimesOut, Handle, Receive, ReceiveFails, Answer, NextMessage, tableVars
  <1>2. /\ phase'[w] \notin {"sending", "releasing"}
        /\ \A v \in Workers \ {w} : phase'[v] = phase[v] /\ job'[v] = job[v]
    BY DEF Inv, TypeOK, WorkerTypeOK, Poll, PollTimesOut, Handle, Receive, ReceiveFails,
           Answer, NextMessage, Goto
  <1>3. NobodyStarts
    BY <1>2 DEF NobodyStarts, Working
  <1> QED BY <1>1, <1>3, RowsStayHeld DEF WorkedRowsKept

(* A claim needs a pending row, and nobody works on one.                   *)
LEMMA ClaimHeld ==
    ASSUME Prompt, Inv, HeldInv, NEW w \in Workers,
           Claim(w) \/ ClaimNotPending(w) \/ ClaimFails(w)
    PROVE  HeldInv'
  <1> DEFINE n == job[w]
  <1>1. n \in Notifications /\ phase[w] = "claiming" /\ UNCHANGED <<job, copy>>
    BY DEF Inv, HandlerInv, Claim, ClaimNotPending, ClaimFails, goroutineVars
  <1>2. ASSUME TakeClaim(w)
        PROVE  /\ \A v \in Workers : Working(v) => job[v] # n
               /\ row'[n].worker = w /\ row'[n].status = "processing"
               /\ \A m \in Notifications \ {n} : row'[m] = row[m]
    <2>1. row[n].status = "pending"
      BY <1>2 DEF TakeClaim
    <2>2. /\ row'[n] = Claimed(row[n], w)
          /\ \A m \in Notifications \ {n} : row'[m] = row[m]
          /\ row[n] \in Row /\ claims[n] \in Nat
      BY <1>1, <1>2 DEF Inv, TypeOK, TakeClaim
    <2>3. row'[n].worker = w /\ row'[n].status = "processing"
      BY <2>2, ClaimedType
    <2>4. \A v \in Workers : Working(v) => job[v] # n
      BY <2>1 DEF HeldInv, HolderInv
    <2> QED BY <2>2, <2>3, <2>4
  <1>3. \A v \in Workers : Working(v) => job[v] \in Notifications
    BY DEF Inv, HandlerInv, Working
  <1>4. WorkedRowsKept
    <2>1. CASE TakeClaim(w)
      BY <1>2, <1>3, <2>1 DEF WorkedRowsKept
    <2>2. CASE UNCHANGED tableVars
      BY <2>2 DEF WorkedRowsKept, tableVars
    <2> QED BY <2>1, <2>2 DEF Claim, ClaimNotPending, ClaimFails
  <1>5. \A v \in Workers \ {w} : phase'[v] = phase[v]
    BY DEF Inv, TypeOK, WorkerTypeOK, Claim, ClaimNotPending, ClaimFails, Goto
  <1>6. CASE ~Claim(w)
    <2>1. phase'[w] \in {"acking", "naking"}
      BY <1>6 DEF Inv, TypeOK, WorkerTypeOK, ClaimNotPending, ClaimFails, Goto
    <2>2. NobodyStarts
      BY <1>1, <1>5, <2>1 DEF NobodyStarts, Working
    <2> QED BY <1>4, <1>6, <2>2, RowsStayHeld DEF ClaimNotPending, ClaimFails
  <1>7. CASE Claim(w)
    <2>1. /\ \A d \in Destinations : step'[w][d] \in {"send", "none"}
          /\ \A v \in Workers \ {w} : step'[v] = step[v]
      BY <1>7 DEF Inv, TypeOK, WorkerTypeOK, Claim
    <2>2. CopiesOwned
      BY <1>1, <2>1, CopiesStayOwned
    <2>3. TakeClaim(w)
      BY <1>7 DEF Claim
    <2> SUFFICES ASSUME NEW v \in Workers, Working(v)'
                 PROVE  HolderInv(v)'
      BY DEF HeldInv, HolderInv
    <2>4. CASE v = w
      BY <1>1, <1>2, <1>5, <2>2, <2>3, <2>4 DEF HolderInv, CopiesOwned, Working
    <2>5. CASE v # w
      <3>1. Working(v) /\ HolderInv(v)
        BY <1>5, <2>5 DEF Working, HeldInv
      <3>2. row'[job[v]].worker = v /\ row'[job[v]].status # "pending"
        BY <1>4, <3>1 DEF WorkedRowsKept, HolderInv
      <3>3. \A u \in Workers \ {v} : Working(u)' => job[u] # job[v]
        BY <1>2, <1>5, <2>3, <3>1 DEF HolderInv, Working
      <3> QED BY <1>1, <2>2, <3>2, <3>3 DEF HolderInv, CopiesOwned
    <2> QED BY <2>4, <2>5
  <1> QED BY <1>6, <1>7

(* The copies are of the worker's own row.                                 *)
LEMMA GoroutineHeld ==
    ASSUME Prompt, Inv, HeldInv, NEW w \in Workers, NEW d \in Destinations,
           Send(w, d) \/ ReadRow(w, d) \/ RecordFails(w, d)
    PROVE  HeldInv'
  <1>1. UNCHANGED row /\ UNCHANGED <<phase, job>>
    BY DEF Send, ReadRow, RecordFails, tableVars
  <1>2. CASE ~ReadRow(w, d)
    <2>1. \A v \in Workers, e \in Destinations : step'[v][e] = "save" => step[v][e] = "save"
      BY <1>2, StepTaken DEF Inv, TypeOK, Steps, Send, RecordFails
    <2>2. CopiesOwned
      BY <1>2, <2>1, CopiesStayOwned DEF Send, RecordFails
    <2> QED BY <1>1, <2>2, NothingStarts, ClaimsStayHeld DEF WorkedRowsKept
  <1>3. CASE ReadRow(w, d)
    <2>1. /\ step[w][d] = "read"
          /\ \A v \in Workers, e \in Destinations :
                v # w \/ e # d => step'[v][e] = step[v][e] /\ copy'[v][e] = copy[v][e]
          /\ copy'[w][d] = row[job[w]]
      BY <1>3, StepTaken DEF Inv, TypeOK, WorkerTypeOK, Steps, ReadRow
    <2>2. Working(w)
      BY <2>1 DEF Inv, HandlerInv, Working
    <2>3. copy'[w][d].worker = w
      BY <2>1, <2>2 DEF HeldInv, HolderInv
    <2>4. ASSUME NEW v \in Workers, NEW e \in Destinations, step'[v][e] = "save"
          PROVE  copy'[v][e].worker = v
      <3>1. CASE v = w /\ e = d
        BY <2>3, <3>1
      <3>2. CASE v # w \/ e # d
        <4>1. step[v][e] = "save" /\ copy'[v][e] = copy[v][e]
          BY <2>1, <2>4, <3>2
        <4>2. Working(v)
          BY <4>1 DEF Inv, HandlerInv, Working
        <4> QED BY <4>1, <4>2 DEF HeldInv, HolderInv
      <3> QED BY <3>1, <3>2
    <2>5. CopiesOwned
      BY <2>4 DEF CopiesOwned
    <2> QED BY <1>1, <2>5, NothingStarts, ClaimsStayHeld DEF WorkedRowsKept
  <1> QED BY <1>2, <1>3

LEMMA SaveRowHeld ==
    ASSUME Prompt, Inv, HeldInv, NEW w \in Workers, NEW d \in Destinations, SaveRow(w, d)
    PROVE  HeldInv'
  <1> DEFINE n == job[w]
             r == WithResult(copy[w][d], ChannelOf[d], outcome[w][d])
  <1>1. /\ n \in Notifications /\ Working(w) /\ step[w][d] = "save"
        /\ d \in DestinationsOf[n] /\ outcome[w][d] \in Settled
        /\ copy[w][d] \in Row
    BY DEF Inv, HandlerInv, SaveRow, Working, TypeOK, WorkerTypeOK
  <1>2. r.status \in Settled
    BY <1>1, WithResultType, TableAssumption
  <1>3. r.worker = copy[w][d].worker
    BY <1>1 DEF WithResult, Row
  <1>4. r.worker = row[n].worker
    BY <1>1, <1>3 DEF HeldInv, HolderInv
  <1>5. /\ row'[n] = r
        /\ \A m \in Notifications \ {n} : row'[m] = row[m]
        /\ UNCHANGED <<phase, job, copy>>
    BY <1>1 DEF Inv, TypeOK, SaveRow
  <1>6. \A v \in Workers : Working(v) => job[v] \in Notifications
    BY DEF Inv, HandlerInv, Working
  <1>7. WorkedRowsKept
    BY <1>2, <1>4, <1>5, <1>6 DEF WorkedRowsKept, Settled
  <1>8. \A v \in Workers, e \in Destinations : step'[v][e] = "save" => step[v][e] = "save"
    BY StepTaken DEF Inv, TypeOK, Steps, SaveRow
  <1>9. CopiesOwned
    BY <1>5, <1>8, CopiesStayOwned
  <1> QED BY <1>5, <1>7, <1>9, NothingStarts, ClaimsStayHeld

LEMMA DecideHeld ==
    ASSUME Prompt, Inv, HeldInv, NEW w \in Workers, Decide(w)
    PROVE  HeldInv'
  <1>1. UNCHANGED row /\ UNCHANGED job
    BY DEF Decide, tableVars
  <1>2. /\ phase[w] = "sending"
        /\ \A v \in Workers \ {w} : phase'[v] = phase[v]
    BY DEF Inv, TypeOK, WorkerTypeOK, Decide, Goto
  <1>3. /\ \A d \in Destinations : step'[w][d] = "none"
        /\ \A v \in Workers \ {w} : step'[v] = step[v] /\ copy'[v] = copy[v]
    BY ClearedGoroutines DEF Inv, TypeOK, Decide
  <1>4. CopiesOwned
    BY <1>3, CopiesStayOwned
  <1>5. NobodyStarts
    BY <1>1, <1>2 DEF NobodyStarts, Working
  <1> QED BY <1>1, <1>4, <1>5, ClaimsStayHeld DEF WorkedRowsKept

(* The release gives up the row of its own worker, and nobody else's.      *)
LEMMA ReleaseHeld ==
    ASSUME Prompt, Inv, HeldInv, NEW w \in Workers, Release(w)
    PROVE  HeldInv'
  <1> DEFINE n == job[w]
  <1>1. /\ Working(w) /\ n \in Notifications
        /\ UNCHANGED job /\ UNCHANGED goroutineVars
    BY DEF Inv, HandlerInv, Release, Working
  <1>2. /\ phase'[w] = "acking"
        /\ \A v \in Workers \ {w} : phase'[v] = phase[v]
    BY DEF Inv, TypeOK, WorkerTypeOK, Release, Goto
  <1>3. \A m \in Notifications \ {n} : row'[m] = row[m]
    BY <1>1 DEF Inv, TypeOK, Release
  <1>4. \A v \in Workers \ {w} : Working(v) => job[v] \in Notifications \ {n}
    BY <1>1 DEF Inv, HandlerInv, HeldInv, HolderInv, Working
  <1>5. WorkedRowsKept
    BY <1>2, <1>3, <1>4 DEF WorkedRowsKept, Working
  <1>6. NobodyStarts
    BY <1>1, <1>2 DEF NobodyStarts, Working
  <1> QED BY <1>1, <1>5, <1>6, RowsStayHeld

(* A reset leaves alone what a live worker works on.                       *)
LEMMA CleanupHeld ==
    ASSUME Prompt, Inv, HeldInv, NEW w \in Workers, Cleanup(w)
    PROVE  HeldInv'
  <1>1. UNCHANGED workerVars
    BY DEF Cleanup, ResetStuckNotifications
  <1>2. \A n \in Notifications : row'[n] = row[n] \/ MayBeStuck(n)
    BY DEF Cleanup, ResetStuckNotifications
  <1>3. \A v \in Workers : Working(v) => job[v] \in Notifications
    BY DEF Inv, HandlerInv, Working
  <1>4. WorkedRowsKept
    BY <1>2, <1>3 DEF WorkedRowsKept, MayBeStuck
  <1> QED BY <1>1, <1>4, NothingStarts, RowsStayHeld DEF workerVars

LEMMA EndsHeld ==
    ASSUME Prompt, Inv, HeldInv, NEW w \in Workers, WorkerEnds(w)
    PROVE  HeldInv'
  <1>1. UNCHANGED row
    BY DEF WorkerEnds, Exit, Crash, Leave, tableVars
  <1>2. /\ phase'[w] = "down"
        /\ \A v \in Workers \ {w} : phase'[v] = phase[v] /\ job'[v] = job[v]
    BY DEF Inv, TypeOK, WorkerTypeOK, WorkerEnds, Exit, Crash, Leave, Goto
  <1>3. /\ \A d \in Destinations : step'[w][d] = "none"
        /\ \A v \in Workers \ {w} : step'[v] = step[v] /\ copy'[v] = copy[v]
    BY ClearedGoroutines DEF Inv, TypeOK, WorkerEnds, Exit, Crash, Leave
  <1>4. CopiesOwned
    BY <1>3, CopiesStayOwned
  <1>5. NobodyStarts
    BY <1>2 DEF NobodyStarts, Working
  <1> QED BY <1>1, <1>4, <1>5, ClaimsStayHeld DEF WorkedRowsKept

LEMMA IdleHeld ==
    ASSUME Prompt, Inv, HeldInv, UNCHANGED row, UNCHANGED <<phase, job, goroutineVars>>
    PROVE  HeldInv'
  BY NothingStarts, RowsStayHeld DEF WorkedRowsKept

LEMMA NextHeld ==
    ASSUME Inv, HeldInv, [Next]_vars
    PROVE  HeldInv'
  <1> SUFFICES ASSUME Prompt PROVE HeldInv'
    BY DEF HeldInv
  <1>1. ASSUME NEW r \in Requests, ServerStep(r) PROVE HeldInv'
    BY <1>1, ServerHeld
  <1>2. CASE ServerFault
    BY <1>2, IdleHeld DEF ServerFault, Expire, ServerCrash, workerVars, tableVars
  <1>3. ASSUME NEW w \in Workers, WorkerLoop(w) PROVE HeldInv'
    BY <1>3, LoopHeld, ClaimHeld, GoroutineHeld, SaveRowHeld, DecideHeld, ReleaseHeld
    DEF WorkerLoop, Work
  <1>4. ASSUME NEW w \in Workers, WorkerShutdown(w) PROVE HeldInv'
    BY <1>4, IdleHeld DEF WorkerShutdown, Shutdown, tableVars
  <1>5. ASSUME NEW n \in Notifications, Redeliver(n) \/ Clock(n) PROVE HeldInv'
    BY <1>5, IdleHeld DEF Redeliver, Clock, ScheduleArrives, tableVars, workerVars
  <1>6. CASE UNCHANGED vars
    BY <1>6, IdleHeld DEF vars, tableVars, workerVars
  <1> QED BY <1>1, <1>2, <1>3, <1>4, <1>5, <1>6, CleanupHeld, EndsHeld DEF Next

LEMMA InitHeld ==
    ASSUME Init PROVE HeldInv
  BY DEF Init, WorkerInit, HeldInv, HolderInv, Working

(* Whoever works on a row is the worker it names, whatever copies of it    *)
(* are written back, as long as live workers are prompt.                   *)
THEOREM HeldInvHolds == Spec => []HeldInv
  <1>1. Init => HeldInv
    BY InitHeld
  <1>2. Inv /\ HeldInv /\ [Next]_vars => HeldInv'
    BY NextHeld
  <1> QED BY <1>1, <1>2, InvHolds, PTL DEF Spec

(* No two workers ever work on one notification: a claim excludes all      *)
(* others until its worker releases it, exits or dies, provided that a     *)
(* live worker finishes within the five minutes.                           *)
THEOREM ClaimsExclude == Spec => [](Prompt => ExclusiveClaim)
  <1>1. HeldInv => (Prompt => ExclusiveClaim)
    BY DEF HeldInv, HolderInv, ExclusiveClaim
  <1> QED BY <1>1, HeldInvHolds, PTL

(***************************************************************************)
(* Releases.                                                               *)
(*                                                                         *)
(* Between determineFinalStatus and the release nobody but that worker     *)
(* writes the row, and its goroutines are done: the decision stays right.  *)
(***************************************************************************)
LEMMA RowWritten ==
    ASSUME Inv, Next, NEW n \in Notifications
    PROVE  \/ /\ row'[n].results = row[n].results
              /\ row'[n].worker = row[n].worker
                    \/ row'[n].status \in {"pending", "processing"}
           \/ row[n].status = "absent" /\ row'[n].status = "pending"
           \/ \E w \in Workers, d \in Destinations : SaveRow(w, d) /\ job[w] = n
           \/ \E w \in Workers : /\ Release(w) /\ job[w] = n
                                 /\ row'[n] = Released(row[n], final[w])
  <1>1. row \in [Notifications -> Row] /\ row[n] \in Row
    BY DEF Inv, TypeOK
  <1>2. CASE UNCHANGED row
    BY <1>2
  <1>3. ASSUME NEW r \in Requests, Inserted(r), request[r] = "new"
        PROVE  row'[n] = row[n] \/ (row[n].status = "absent" /\ row'[n].status = "pending")
    BY <1>3 DEF Inserted, NewNotification, BlankRow, Inv, CallInv
  <1>4. ASSUME NEW r \in Requests, MarkFailed(r)
        PROVE  row'[n].results = row[n].results /\ row'[n].worker = row[n].worker
    <2>1. row'[n] = row[n] \/ row'[n] = [row[n] EXCEPT !.status = "failed"]
      BY <1>1, <1>4 DEF MarkFailed
    <2> QED BY <1>1, <2>1 DEF Row
  <1>5. ASSUME NEW r \in Requests, ServerStep(r)
        PROVE  \/ /\ row'[n].results = row[n].results
                  /\ row'[n].worker = row[n].worker
               \/ row[n].status = "absent" /\ row'[n].status = "pending"
    BY <1>3, <1>4, <1>5 DEF ServerStep, ServerSave, SaveRows, SaveRowsFails, ServerPublish,
       Publish, ServerPublishFails, PublishFails, ServerMark, MarkFailedFails, ServerReply,
       Reply, tableVars
  <1>6. ASSUME NEW w \in Workers, TakeClaim(w)
        PROVE  /\ row'[n].results = row[n].results
               /\ row'[n].worker = row[n].worker \/ row'[n].status = "processing"
    <2>1. row'[n] = row[n] \/ row'[n] = Claimed(row[n], w)
      BY <1>1, <1>6 DEF TakeClaim
    <2> QED BY <1>1, <2>1 DEF Claimed, Row
  <1>7. ASSUME NEW w \in Workers, Cleanup(w)
        PROVE  /\ row'[n].results = row[n].results
               /\ row'[n].worker = row[n].worker \/ row'[n].status = "pending"
    <2>1. row'[n] = row[n] \/ row'[n] = Reset(row[n])
      BY <1>7 DEF Cleanup, ResetStuckNotifications
    <2> QED BY <1>1, <2>1 DEF Reset, Row
  <1>8. ASSUME NEW w \in Workers, NEW d \in Destinations, SaveRow(w, d)
        PROVE  row'[n] = row[n] \/ job[w] = n
    BY <1>1, <1>8 DEF SaveRow
  <1>9. ASSUME NEW w \in Workers, Release(w)
        PROVE  \/ row'[n] = row[n]
               \/ job[w] = n /\ row'[n] = Released(row[n], final[w])
    BY <1>1, <1>9 DEF Release
  <1>10. ASSUME NEW w \in Workers, Work(w)
         PROVE  \/ UNCHANGED row
                \/ TakeClaim(w)
                \/ \E d \in Destinations : SaveRow(w, d)
                \/ Release(w)
    BY <1>10 DEF Work, Claim, ClaimNotPending, ClaimFails, Send, ReadRow, RecordFails,
       Decide, tableVars
  <1>11. ASSUME NEW w \in Workers, WorkerLoop(w), ~Work(w)
         PROVE  UNCHANGED row
    BY <1>11 DEF WorkerLoop, Poll, PollTimesOut, Handle, Receive, ReceiveFails, Answer,
       NextMessage, tableVars
  <1>12. ASSUME NEW w \in Workers, WorkerShutdown(w) \/ WorkerEnds(w)
         PROVE  UNCHANGED row
    BY <1>12 DEF WorkerShutdown, Shutdown, WorkerEnds, Exit, Crash, Leave, tableVars
  <1>13. ASSUME ServerFault \/ \E m \in Notifications : Redeliver(m) \/ Clock(m)
         PROVE  UNCHANGED row
    BY <1>13 DEF ServerFault, Expire, ServerCrash, Redeliver, Clock, ScheduleArrives, tableVars
  <1>14. CASE \E r \in Requests : ServerStep(r)
    BY <1>5, <1>14
  <1>15. CASE \E w \in Workers : WorkerLoop(w)
    BY <1>2, <1>6, <1>8, <1>9, <1>10, <1>11, <1>15
  <1>16. CASE \E w \in Workers : Cleanup(w)
    BY <1>7, <1>16
  <1> QED BY <1>2, <1>12, <1>13, <1>14, <1>15, <1>16 DEF Next

(* A handler that is to release decided before, on what the row holds.     *)
LEMMA DecisionTaken ==
    ASSUME Inv, MaxFaults = 0, Next, NEW w \in Workers, phase'[w] = "releasing"
    PROVE  \/ phase[w] = "releasing" /\ job'[w] = job[w] /\ final'[w] = final[w]
           \/ UNCHANGED <<row, job>> /\ final'[w] = FinalStatus(row[job[w]])
  <1>1. /\ phase \in [Workers -> Phases] /\ final \in [Workers -> {"none"} \cup Settled]
        /\ job \in [Workers -> Notifications \cup {NoNotification}] /\ ~Fault
    BY DEF Inv, TypeOK, WorkerTypeOK, Fault
  <1>2. CASE UNCHANGED <<phase, job, final>>
    BY <1>2
  <1>3. ASSUME NEW v \in Workers, Decide(v)
        PROVE  \/ phase[w] = "releasing" /\ job'[w] = job[w] /\ final'[w] = final[w]
               \/ UNCHANGED <<row, job>> /\ final'[w] = FinalStatus(row[job[w]])
    BY <1>1, <1>3 DEF Decide, Goto, tableVars
  <1>4. ASSUME NEW v \in Workers, WorkerLoop(v) \/ WorkerEnds(v), ~Decide(v)
        PROVE  phase[w] = "releasing" /\ job'[w] = job[w] /\ final'[w] = final[w]
    <2>1. CASE Poll(v) \/ PollTimesOut(v) \/ Handle(v) \/ Answer(v)
      BY <1>1, <2>1 DEF Poll, PollTimesOut, Handle, Receive, ReceiveFails, Answer,
         NextMessage, Goto
    <2>2. CASE Work(v)
      BY <1>1, <1>4, <2>2 DEF Work, Claim, ClaimNotPending, ClaimFails, Send, ReadRow,
         SaveRow, RecordFails, Release, Goto
    <2>3. CASE WorkerEnds(v)
      BY <1>1, <2>3 DEF WorkerEnds, Exit, Crash, Leave, Goto
    <2> QED BY <1>4, <2>1, <2>2, <2>3 DEF WorkerLoop
  <1>5. ASSUME ~\E v \in Workers : WorkerLoop(v) \/ WorkerEnds(v)
        PROVE  UNCHANGED <<phase, job, final>>
    BY <1>5 DEF Next, ServerStep, ServerSave, ServerPublish, ServerPublishFails, ServerMark,
       ServerReply, ServerFault, Cleanup, ResetStuckNotifications, WorkerShutdown, Shutdown,
       Redeliver, Clock, ScheduleArrives, workerVars
  <1> QED BY <1>2, <1>3, <1>4, <1>5

LEMMA DecisionKept ==
    ASSUME Prompt, MaxFaults = 0, Inv, HeldInv, DecisionInv, [Next]_vars
    PROVE  DecisionInv'
  <1> SUFFICES ASSUME NEW w \in Workers, phase'[w] = "releasing"
               PROVE  final'[w] = FinalStatus(row'[job'[w]])
    BY DEF DecisionInv
  <1>1. CASE UNCHANGED vars
    BY <1>1 DEF vars, tableVars, workerVars, DecisionInv
  <1>2. CASE Next /\ UNCHANGED <<row, job>> /\ final'[w] = FinalStatus(row[job[w]])
    BY <1>2
  <1>3. CASE Next /\ phase[w] = "releasing" /\ job'[w] = job[w] /\ final'[w] = final[w]
    <2> DEFINE n == job[w]
    <2>1. /\ n \in Notifications /\ Working(w) /\ row[n].status # "absent"
          /\ \A d \in Destinations : step[w][d] # "save"
      BY <1>3 DEF Inv, HandlerInv, Working
    <2>2. \A v \in Workers \ {w} : Working(v) => job[v] # n
      BY <2>1 DEF HeldInv, HolderInv
    <2>3. ~\E v \in Workers, d \in Destinations : SaveRow(v, d) /\ job[v] = n
      BY <2>1, <2>2 DEF SaveRow, Working, Inv, HandlerInv
    <2>4. ~\E v \in Workers : Release(v) /\ job[v] = n
      <3>1. ~Release(w)
        BY DEF Release, Goto, Inv, TypeOK, WorkerTypeOK
      <3> QED BY <2>2, <3>1 DEF Release, Working
    <2>5. row'[n].results = row[n].results
      BY <1>3, <2>1, <2>3, <2>4, RowWritten
    <2>6. final[w] = FinalStatus(row[n])
      BY <1>3 DEF DecisionInv
    <2> QED BY <1>3, <2>5, <2>6 DEF FinalStatus
  <1> QED BY <1>1, <1>2, <1>3, DecisionTaken

(* A row that its worker gives up is sent if a channel of it is: true for  *)
(* every number of workers and destinations, as long as workers are prompt *)
(* and nothing fails.                                                      *)
THEOREM SuccessSurvivesRelease ==
    ASSUME Prompt, MaxFaults = 0
    PROVE  Spec => RecordedSuccessIsSent
  <1>1. Init => DecisionInv
    BY DEF Init, WorkerInit, DecisionInv
  <1>2. Inv /\ HeldInv /\ DecisionInv /\ [Next]_vars => DecisionInv'
    BY DecisionKept
  <1> DEFINE Kept == \A n \in Notifications :
                 /\ row[n].worker # NoWorker /\ row'[n].worker = NoWorker
                 /\ row'[n].status \in Settled
                 /\ \E c \in Channels : row[n].results[c] = "sent"
                 => row'[n].status = "sent"
  <1>3. ASSUME Inv, HeldInv, DecisionInv, Next PROVE Kept
    <2> SUFFICES ASSUME NEW n \in Notifications,
                        row[n].worker # NoWorker, row'[n].worker = NoWorker,
                        row'[n].status \in Settled,
                        \E c \in Channels : row[n].results[c] = "sent"
                 PROVE  row'[n].status = "sent"
      OBVIOUS
    <2>1. row[n] \in Row
      BY <1>3 DEF Inv, TypeOK
    <2>2. CASE \E w \in Workers, d \in Destinations : SaveRow(w, d) /\ job[w] = n
      <3> PICK w \in Workers, d \in Destinations : SaveRow(w, d) /\ job[w] = n
        BY <2>2
      <3>1. /\ Working(w) /\ step[w][d] = "save" /\ copy[w][d] \in Row
            /\ row'[n] = WithResult(copy[w][d], ChannelOf[d], outcome[w][d])
        BY <1>3 DEF SaveRow, Working, Inv, HandlerInv, TypeOK, WorkerTypeOK
      <3>2. copy[w][d].worker = w
        BY <1>3, <3>1 DEF HeldInv, HolderInv
      <3>3. row'[n].worker = w
        BY <3>1, <3>2 DEF WithResult, Row
      <3> QED BY <3>3, DeploymentAssumption
    <2>3. CASE \E w \in Workers : /\ Release(w) /\ job[w] = n
                                  /\ row'[n] = Released(row[n], final[w])
      <3> PICK w \in Workers : /\ Release(w) /\ job[w] = n
                               /\ row'[n] = Released(row[n], final[w])
        BY <2>3
      <3>1. final[w] = FinalStatus(row[n])
        BY <1>3 DEF Release, DecisionInv
      <3>2. final[w] = "sent"
        BY <3>1 DEF FinalStatus
      <3> QED BY <2>1, <3>2, ReleasedType DEF Settled
    <2> QED BY <1>3, <2>2, <2>3, RowWritten DEF Settled
  <1>4. Inv /\ HeldInv /\ DecisionInv /\ [Next]_vars => [Kept]_vars
    BY <1>3
  <1>5. Spec => [][Kept]_vars
    <2> HIDE DEF Kept
    <2> QED BY <1>1, <1>2, <1>4, InvHolds, HeldInvHolds, PTL DEF Spec
  <1> QED BY <1>5 DEF RecordedSuccessIsSent

(***************************************************************************)
(* Deliveries.                                                             *)
(*                                                                         *)
(* A bound on what was sent is not inductive: what matters is what was     *)
(* sent together with the goroutines that are about to send.               *)
(***************************************************************************)
LEMMA SendingFinite ==
    ASSUME NEW n \in Notifications, NEW d \in Destinations
    PROVE  IsFiniteSet(Sending(n, d)) /\ Cardinality(Sending(n, d)) \in Nat
  <1>1. Sending(n, d) \in SUBSET Workers
    BY DEF Sending
  <1> QED BY <1>1, DeploymentAssumption, FS_Subset, FS_CardinalityType

LEMMA FewerSending ==
    ASSUME NEW n \in Notifications, NEW d \in Destinations, NEW S \in SUBSET Sending(n, d)
    PROVE  /\ IsFiniteSet(S) /\ Cardinality(S) \in Nat
           /\ Cardinality(S) <= Cardinality(Sending(n, d))
  BY SendingFinite, FS_Subset, FS_CardinalityType

(* Most steps start no goroutine, send nothing, and never give a claim     *)
(* back.                                                                   *)
LEMMA NothingOwed ==
    ASSUME Inv, PaidInv, UNCHANGED sends,
           \A n \in Notifications : claims'[n] \in Nat /\ claims[n] <= claims'[n],
           \A w \in Workers, d \in Destinations :
               step'[w][d] = "send" => step[w][d] = "send" /\ job'[w] = job[w]
    PROVE  PaidInv'
  <1> SUFFICES ASSUME NEW n \in Notifications, NEW d \in Destinations
               PROVE  (sends[n][d] + Cardinality(Sending(n, d)) <= claims[n])'
    BY DEF PaidInv
  <1> DEFINE S == {w \in Workers : job'[w] = n /\ step'[w][d] = "send"}
  <1>1. Sending(n, d)' = S
    BY DEF Sending
  <1>2. S \in SUBSET Sending(n, d)
    BY DEF Sending
  <1>3. Cardinality(S) \in Nat /\ Cardinality(S) <= Cardinality(Sending(n, d))
    BY <1>2, FewerSending
  <1>4. sends[n][d] + Cardinality(Sending(n, d)) <= claims[n]
    BY DEF PaidInv
  <1>5. /\ sends[n][d] \in Nat /\ claims[n] \in Nat /\ Cardinality(Sending(n, d)) \in Nat
        /\ claims'[n] \in Nat /\ claims[n] <= claims'[n]
    BY SendingFinite DEF Inv, TypeOK, WorkerTypeOK
  <1>6. sends[n][d] + Cardinality(S) <= claims'[n]
    <2> HIDE DEF S
    <2> QED BY <1>3, <1>4, <1>5
  <1> QED BY <1>1, <1>6

LEMMA SameDebts ==
    ASSUME Inv, PaidInv, UNCHANGED <<claims, sends>>,
           \A w \in Workers, d \in Destinations :
               step'[w][d] = "send" => step[w][d] = "send" /\ job'[w] = job[w]
    PROVE  PaidInv'
  BY NothingOwed DEF Inv, TypeOK

(* A claim makes its worker owe one delivery to each destination.          *)
LEMMA ClaimPaid ==
    ASSUME Inv, PaidInv, NEW w \in Workers, Claim(w)
    PROVE  PaidInv'
  <1>1. job[w] \in Notifications /\ UNCHANGED <<job, sends>>
    BY DEF Inv, HandlerInv, Claim
  <1>2. /\ claims'[job[w]] = claims[job[w]] + 1
        /\ \A m \in Notifications \ {job[w]} : claims'[m] = claims[m]
    BY <1>1 DEF Inv, TypeOK, Claim, TakeClaim
  <1>3. \A v \in Workers \ {w} : step'[v] = step[v]
    BY DEF Inv, TypeOK, WorkerTypeOK, Claim
  <1> SUFFICES ASSUME NEW n \in Notifications, NEW d \in Destinations
               PROVE  (sends[n][d] + Cardinality(Sending(n, d)) <= claims[n])'
    BY DEF PaidInv
  <1> DEFINE S == {v \in Workers : job'[v] = n /\ step'[v][d] = "send"}
             c == Cardinality(Sending(n, d))
  <1>4. Sending(n, d)' = S
    BY DEF Sending
  <1>5. /\ sends[n][d] + c <= claims[n]
        /\ sends[n][d] \in Nat /\ claims[n] \in Nat /\ c \in Nat
    BY SendingFinite DEF PaidInv, Inv, TypeOK, WorkerTypeOK
  <1>6. CASE n = job[w]
    <2>1. S \in SUBSET (Sending(n, d) \cup {w})
      BY <1>1, <1>3 DEF Sending
    <2>2. /\ IsFiniteSet(Sending(n, d) \cup {w})
          /\ Cardinality(Sending(n, d) \cup {w}) \in {c, c + 1}
      BY SendingFinite, FS_AddElement
    <2>3. Cardinality(S) \in Nat /\ Cardinality(S) <= c + 1
      <3>1. /\ IsFiniteSet(S)
            /\ Cardinality(S) <= Cardinality(Sending(n, d) \cup {w})
        BY <2>1, <2>2, FS_Subset
      <3>2. Cardinality(S) \in Nat
        BY <3>1, FS_CardinalityType
      <3> HIDE DEF S, c
      <3> QED BY <1>5, <2>2, <3>1, <3>2
    <2>4. sends[n][d] + Cardinality(S) <= claims[n] + 1
      <3> HIDE DEF S, c
      <3> QED BY <1>5, <2>3
    <2> QED BY <1>1, <1>2, <1>4, <1>6, <2>4
  <1>7. CASE n # job[w]
    <2>1. S \in SUBSET Sending(n, d)
      BY <1>1, <1>3, <1>7 DEF Sending
    <2>2. Cardinality(S) \in Nat /\ Cardinality(S) <= c
      BY <2>1, FewerSending
    <2>3. sends[n][d] + Cardinality(S) <= claims[n]
      <3> HIDE DEF S, c
      <3> QED BY <1>5, <2>2
    <2> QED BY <1>1, <1>2, <1>4, <1>7, <2>3
  <1> QED BY <1>6, <1>7

(* A delivery settles what its goroutine owes.                             *)
LEMMA SendPaid ==
    ASSUME Inv, PaidInv, NEW w \in Workers, NEW e \in Destinations, Send(w, e)
    PROVE  PaidInv'
  <1>1. job[w] \in Notifications /\ step[w][e] = "send" /\ UNCHANGED <<claims, job>>
    BY DEF Inv, HandlerInv, Send, tableVars
  <1>2. /\ step'[w][e] = "read"
        /\ \A v \in Workers, d \in Destinations :
              v # w \/ d # e => step'[v][d] = step[v][d]
    BY StepTaken DEF Inv, TypeOK, Steps, Send
  <1>3. \A n \in Notifications, d \in Destinations :
           sends'[n][d] = sends[n][d]
              \/ (n = job[w] /\ d = e /\ sends'[n][d] = sends[n][d] + 1)
    BY <1>1 DEF Inv, TypeOK, WorkerTypeOK, Send
  <1> SUFFICES ASSUME NEW n \in Notifications, NEW d \in Destinations
               PROVE  (sends[n][d] + Cardinality(Sending(n, d)) <= claims[n])'
    BY DEF PaidInv
  <1> DEFINE S == {v \in Workers : job'[v] = n /\ step'[v][d] = "send"}
             c == Cardinality(Sending(n, d))
  <1>4. Sending(n, d)' = S
    BY DEF Sending
  <1>5. /\ sends[n][d] + c <= claims[n]
        /\ sends[n][d] \in Nat /\ claims[n] \in Nat /\ c \in Nat
    BY SendingFinite DEF PaidInv, Inv, TypeOK, WorkerTypeOK
  <1>6. CASE n = job[w] /\ d = e
    <2>1. w \in Sending(n, d) /\ S = Sending(n, d) \ {w}
      BY <1>1, <1>2, <1>6 DEF Sending
    <2>2. Cardinality(S) = c - 1
      BY <2>1, SendingFinite, FS_RemoveElement
    <2>3. sends'[n][d] + Cardinality(S) <= claims[n]
      <3> HIDE DEF S, c
      <3> QED BY <1>3, <1>5, <2>2
    <2> QED BY <1>1, <1>4, <2>3
  <1>7. CASE ~(n = job[w] /\ d = e)
    <2>1. S \in SUBSET Sending(n, d)
      BY <1>1, <1>2 DEF Sending
    <2>2. Cardinality(S) \in Nat /\ Cardinality(S) <= c
      BY <2>1, FewerSending
    <2>3. sends'[n][d] + Cardinality(S) <= claims[n]
      <3> HIDE DEF S, c
      <3> QED BY <1>3, <1>5, <1>7, <2>2
    <2> QED BY <1>1, <1>4, <2>3
  <1> QED BY <1>6, <1>7

(* The other steps of a handler.                                           *)
LEMMA HandlerPaid ==
    ASSUME Inv, PaidInv, NEW w \in Workers, Work(w)
    PROVE  PaidInv'
  <1>1. CASE ClaimNotPending(w)
    BY <1>1, SameDebts DEF ClaimNotPending, tableVars, goroutineVars
  <1>2. CASE ClaimFails(w)
    <2>1. \A n \in Notifications : claims'[n] \in Nat /\ claims[n] <= claims'[n]
      BY <1>2 DEF ClaimFails, TakeClaim, tableVars, Inv, TypeOK, HandlerInv
    <2> QED BY <1>2, <2>1, NothingOwed DEF ClaimFails, goroutineVars
  <1>3. ASSUME NEW d \in Destinations, ReadRow(w, d) \/ SaveRow(w, d) \/ RecordFails(w, d)
        PROVE  PaidInv'
    <2>1. \A v \in Workers, e \in Destinations : step'[v][e] = "send" => step[v][e] = "send"
      BY <1>3, StepTaken DEF Inv, TypeOK, Steps, ReadRow, SaveRow, RecordFails
    <2> QED BY <1>3, <2>1, SameDebts DEF ReadRow, SaveRow, RecordFails, tableVars
  <1>4. CASE Decide(w)
    <2>1. /\ \A d \in Destinations : step'[w][d] = "none"
          /\ \A v \in Workers \ {w} : step'[v] = step[v]
      BY <1>4, ClearedGoroutines DEF Inv, TypeOK, Decide
    <2> QED BY <1>4, <2>1, SameDebts DEF Decide, tableVars
  <1>5. CASE Release(w)
    BY <1>5, SameDebts DEF Release, goroutineVars
  <1> QED BY <1>1, <1>2, <1>3, <1>4, <1>5, ClaimPaid, SendPaid DEF Work

(* The loop has no goroutines, and whoever ends leaves none behind.        *)
LEMMA LoopPaid ==
    ASSUME Inv, PaidInv, NEW w \in Workers,
           \/ Poll(w) \/ PollTimesOut(w) \/ Handle(w) \/ Answer(w)
           \/ Cleanup(w) \/ WorkerShutdown(w)
    PROVE  PaidInv'
  <1>1. UNCHANGED <<claims, sends, step>>
    BY DEF Poll, PollTimesOut, Handle, Receive, ReceiveFails, Answer, NextMessage, Cleanup,
           ResetStuckNotifications, WorkerShutdown, Shutdown, tableVars, workerVars,
           goroutineVars
  <1>2. \A v \in Workers : job'[v] = job[v] \/ phase[v] # "sending"
    BY DEF Inv, TypeOK, WorkerTypeOK, Poll, PollTimesOut, Handle, Receive, ReceiveFails,
           Answer, NextMessage, Goto, Cleanup, ResetStuckNotifications, WorkerShutdown,
           Shutdown, workerVars
  <1>3. \A v \in Workers, d \in Destinations : step[v][d] = "send" => phase[v] = "sending"
    BY DEF Inv, HandlerInv
  <1> QED BY <1>1, <1>2, <1>3, SameDebts

LEMMA EndsPaid ==
    ASSUME Inv, PaidInv, NEW w \in Workers, WorkerEnds(w)
    PROVE  PaidInv'
  <1>1. UNCHANGED <<claims, sends>>
    BY DEF WorkerEnds, Exit, Crash, Leave, tableVars
  <1>2. \A v \in Workers \ {w} : job'[v] = job[v]
    BY DEF Inv, TypeOK, WorkerTypeOK, WorkerEnds, Exit, Crash, Leave
  <1>3. /\ \A d \in Destinations : step'[w][d] = "none"
        /\ \A v \in Workers \ {w} : step'[v] = step[v]
    BY ClearedGoroutines DEF Inv, TypeOK, WorkerEnds, Exit, Crash, Leave
  <1> QED BY <1>1, <1>2, <1>3, SameDebts

LEMMA NextPaid ==
    ASSUME Inv, PaidInv, [Next]_vars
    PROVE  PaidInv'
  <1>1. CASE UNCHANGED <<claims, workerVars>>
    BY <1>1, SameDebts DEF workerVars, goroutineVars
  <1>2. ASSUME NEW r \in Requests, ServerStep(r) PROVE PaidInv'
    <2>1. UNCHANGED <<claims, workerVars>>
      BY <1>2 DEF ServerStep, ServerSave, SaveRows, SaveRowsFails, ServerPublish, Publish,
         ServerPublishFails, PublishFails, ServerMark, MarkFailed, MarkFailedFails,
         ServerReply, Reply, tableVars
    <2> QED BY <1>1, <2>1
  <1>3. CASE ServerFault
    BY <1>1, <1>3 DEF ServerFault, Expire, ServerCrash, tableVars
  <1>4. ASSUME NEW n \in Notifications, Redeliver(n) \/ Clock(n) PROVE PaidInv'
    BY <1>4, SameDebts DEF Redeliver, Clock, ScheduleArrives, tableVars, workerVars,
       goroutineVars
  <1>5. CASE UNCHANGED vars
    BY <1>1, <1>5 DEF vars, tableVars
  <1> QED BY <1>2, <1>3, <1>4, <1>5, LoopPaid, HandlerPaid, EndsPaid DEF Next, WorkerLoop

LEMMA InitPaid ==
    ASSUME Init PROVE PaidInv
  <1> SUFFICES ASSUME NEW n \in Notifications, NEW d \in Destinations
               PROVE  sends[n][d] + Cardinality(Sending(n, d)) <= claims[n]
    BY DEF PaidInv
  <1>1. Sending(n, d) = {}
    BY DEF Init, WorkerInit, NoSteps, Sending
  <1>2. Cardinality(Sending(n, d)) = 0
    BY <1>1, FS_EmptySet
  <1>3. sends[n][d] = 0 /\ claims[n] = 0
    BY DEF Init, WorkerInit, TableInit
  <1> QED BY <1>2, <1>3

(* Every delivery, made or about to be made, was paid for by a claim.      *)
THEOREM PaidInvHolds == Spec => []PaidInv
  <1>1. Init => PaidInv
    BY InitPaid
  <1>2. Inv /\ PaidInv /\ [Next]_vars => PaidInv'
    BY NextPaid
  <1> QED BY <1>1, <1>2, InvHolds, PTL DEF Spec

(* No destination ever receives a notification more than MaxAttempts       *)
(* times, whatever is redelivered, reset or restarted.                     *)
THEOREM DeliveriesLimited == Spec => []DeliveriesBounded
  <1>1. ASSUME Inv, PaidInv PROVE DeliveriesBounded
    <2> SUFFICES ASSUME NEW n \in Notifications, NEW d \in Destinations
                 PROVE  sends[n][d] <= MaxAttempts
      BY DEF DeliveriesBounded
    <2>1. sends[n][d] + Cardinality(Sending(n, d)) <= claims[n] /\ claims[n] <= MaxAttempts
      BY <1>1 DEF PaidInv, Inv, ClaimsCounted
    <2>2. sends[n][d] \in Nat /\ claims[n] \in Nat /\ MaxAttempts \in Nat
      BY <1>1, TableAssumption DEF Inv, TypeOK, WorkerTypeOK
    <2> QED BY <2>1, <2>2, SendingFinite
  <1> QED BY <1>1, InvHolds, PaidInvHolds, PTL

=============================================================================
