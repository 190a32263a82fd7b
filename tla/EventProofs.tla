----------------------------- MODULE EventProofs -----------------------------
(***************************************************************************)
(* Proofs, for any number of calls and any requests, about the path of a   *)
(* call through both services.  Almost every step is about one call: the   *)
(* notifications of two calls differ, so a step that leaves a call and its *)
(* rows alone keeps what the invariant says of it.                         *)
(***************************************************************************)
EXTENDS EventProperties, ValidationProofs

(***************************************************************************)
(* The request of SendToUser that an event becomes.                        *)
(***************************************************************************)
LEMMA DigitsType ==
    ASSUME NEW count
    PROVE  Digits(count) \in 1..12
  <1>1. MoreDigits(count) \in SUBSET (1..9)
    <2>1. MoreDigits(count) \in SUBSET (1..(MaxDigits - 1))
      BY Zenon DEF MoreDigits
    <2>2. MaxDigits - 1 = 9
      BY DEF MaxDigits
    <2> QED BY <2>1, <2>2
  <1>2. /\ MoreDigits(count) \in SUBSET Nat /\ \A d \in MoreDigits(count) : d <= 9
        /\ 9 \in Nat /\ 9 + 1 = 10
    BY <1>1
  <1>3. IsFiniteSet(MoreDigits(count)) /\ Cardinality(MoreDigits(count)) <= 9 + 1
    BY <1>2, FS_BoundedSetOfNaturals
  <1>4. Cardinality(MoreDigits(count)) \in Nat
    BY <1>3, FS_CardinalityType
  <1> QED BY <1>3, <1>4 DEF Digits

EventTypes == {"ChatMessage", "Purchase", "PaymentReminder", "ShippingUpdate"}

LEMMA EventOfType ==
    ASSUME NEW m \in EcommerceRequest
    PROVE  EventOf(m) \in [type : EventTypes, buyerId : Nat, sellerId : Nat,
                           orderId : Nat, message : Nat]
  <1>1. CASE m \in SendChatMessageRequest
    BY <1>1 DEF EventOf, SendChatMessageRequest, SendChatMessage, Event, BodyText, EventTypes
  <1>2. CASE m \in TriggerPurchaseRequest
    <2> DEFINE count == Digits(ItemCount(m.items))
    <2>1. count \in Nat
      BY DigitsType
    <2>2. /\ m.method = "TriggerPurchase" /\ m.buyerId \in Nat /\ m.sellerId \in Nat
          /\ m.orderId \in Nat /\ m.amount \in Double
      BY <1>2 DEF TriggerPurchaseRequest
    <2>3. EventOf(m) = [type |-> "Purchase", buyerId |-> m.buyerId, sellerId |-> m.sellerId,
                        orderId |-> m.orderId,
                        message |-> 43 + (m.orderId + m.amount.printed + count)]
      BY <2>2 DEF EventOf, TriggerPurchase, Event, BodyText
    <2>4. m.amount.printed \in Nat
      BY <2>2 DEF Double
    <2> HIDE DEF count
    <2> QED BY <2>1, <2>2, <2>3, <2>4 DEF EventTypes
  <1>3. CASE m \in SendPaymentReminderRequest
    BY <1>3 DEF EventOf, SendPaymentReminderRequest, SendPaymentReminder, Event, BodyText,
                EventTypes, Double
  <1>4. CASE m \in SendShippingUpdateRequest
    BY <1>4 DEF EventOf, SendShippingUpdateRequest, SendShippingUpdate, StatusMessage,
                Event, BodyText, EventTypes
  <1> QED BY <1>1, <1>2, <1>3, <1>4 DEF EcommerceRequest

LEMMA CallOfType ==
    ASSUME NEW m \in EcommerceRequest
    PROVE  CallOf(m) \in TellerRequest /\ CallOf(m) # Nil
  <1> DEFINE e == EventOf(m)
  <1>1. e \in [type : EventTypes, buyerId : Nat, sellerId : Nat, orderId : Nat, message : Nat]
    BY EventOfType
  <1> HIDE DEF e
  <1>2. getDestinations(e) \in Seq(ChannelDestination)
    <2>1. CASE e.type \in {"ChatMessage", "Purchase"} /\ e.sellerId > 0
      <3>1. /\ Destination("email", "seller", 7 + e.sellerId + 12) \in ChannelDestination
            /\ Destination("push", "seller", 14 + e.sellerId) \in ChannelDestination
        BY <1>1 DEF Destination, ChannelDestination, AnyChannel, NotificationChannels
      <3> QED BY <1>1, <2>1, <3>1 DEF getDestinations
    <2>2. CASE e.type \in {"PaymentReminder", "ShippingUpdate"} /\ e.buyerId > 0
      <3>1. Destination("push", "buyer", 13 + e.buyerId) \in ChannelDestination
        BY <1>1 DEF Destination, ChannelDestination, AnyChannel, NotificationChannels
      <3> QED BY <1>1, <2>2, <3>1 DEF getDestinations
    <2>3. CASE /\ ~(e.type \in {"ChatMessage", "Purchase"} /\ e.sellerId > 0)
               /\ ~(e.type \in {"PaymentReminder", "ShippingUpdate"} /\ e.buyerId > 0)
      <3>1. Destination("email", "admin", 17) \in ChannelDestination
        BY DEF Destination, ChannelDestination, AnyChannel, NotificationChannels
      <3> QED BY <2>3, <3>1 DEF getDestinations
    <2> QED BY <2>1, <2>2, <2>3
  <1>3. generateRefID(e) \in Nat /\ getNotificationTitle[e.type] \in Nat
    BY <1>1 DEF generateRefID, RefPrefix, getNotificationTitle, EventTypes
  <1>4. NotificationRequest(e) \in SendToUserRequest
    <2>1. [title |-> getNotificationTitle[e.type], body |-> e.message,
           refId |-> generateRefID(e), channels |-> <<>>, scheduleAt |-> "none"]
          \in Notification
      <3>1. <<>> \in Seq(AnyChannel)
        OBVIOUS
      <3> QED BY <1>1, <1>3, <3>1 DEF Notification, Schedules
    <2> QED BY <1>2, <2>1 DEF NotificationRequest, SendToUserRequest
  <1>5. CallOf(m) \in TellerRequest
    BY <1>4 DEF CallOf, TellerRequest, e
  <1> QED BY <1>5, PathAssumption

ThisCallOK(r) == ProgressInv(r) /\ CallInv(r) /\ StageInv(r) /\ ContentInv(r)

(* A step leaves call q, its rows and its messages alone.                  *)
StoreSame(q) ==
    /\ request'[q] = request[q] /\ unpublished'[q] = unpublished[q]
    /\ failing'[q] = failing[q] /\ accepted'[q] = accepted[q]
    /\ \A n \in Batch[q] :
          row'[n] = row[n] /\ message'[n] = message[n] /\ content'[n] = content[n]

PathSame(q) ==
    /\ stage'[q] = stage[q] /\ event'[q] = event[q] /\ call'[q] = call[q]
    /\ answer'[q] = answer[q] /\ listed'[q] = listed[q]

LEMMA InitInv == Init => PathInv
  <1>1. Absent \in Row
    BY DEF Absent, BlankRow, Row, NoResults
  <1> SUFFICES ASSUME Init
               PROVE  PathInv
    OBVIOUS
  <1>2. PathTypeOK
    BY <1>1, NATSAssumption DEF Init, TableInit, ServerInit, NATSInit, PathTypeOK, ServerTypeOK,
       NATSTypeOK, RequestStates, MessageStates, Stages, Answers, Serving
  <1>3. ASSUME NEW r \in Requests
        PROVE  ThisCallOK(r)
    BY <1>3, ServerAssumption, DeploymentAssumption
       DEF Init, TableInit, ServerInit, NATSInit, ThisCallOK, ProgressInv, CallInv,
           StageInv, ContentInv, Serving, Absent, BlankRow
  <1> QED BY <1>2, <1>3 DEF PathInv, ThisCallOK

LEMMA CallUntouched ==
    ASSUME PathInv, NEW q \in Requests, StoreSame(q), PathSame(q)
    PROVE  ThisCallOK(q)'
  <1>1. ProgressInv(q)'
    BY DEF PathInv, ProgressInv, StoreSame, PathSame
  <1>2. CallInv(q)'
    BY DEF PathInv, CallInv, StoreSame, PathSame
  <1>3. StageInv(q)'
    BY DEF PathInv, StageInv, StoreSame, PathSame, Admitted, Serving, Sends
  <1>4. ContentInv(q)'
    BY DEF PathInv, ContentInv, StoreSame, PathSame
  <1> QED BY <1>1, <1>2, <1>3, <1>4 DEF ThisCallOK

(* Of the invariant, what the store does is not touched by a step on the   *)
(* path of a call.                                                         *)
LEMMA StoreKept ==
    ASSUME PathInv, StoreUnchanged
    PROVE  /\ ServerTypeOK' /\ NATSTypeOK' /\ row' \in [Notifications -> Row]
           /\ \A q \in Requests : StoreSame(q) /\ ProgressInv(q)'
  <1>1. ServerTypeOK' /\ NATSTypeOK' /\ row' \in [Notifications -> Row]
    BY DEF PathInv, PathTypeOK, ServerTypeOK, NATSTypeOK, StoreUnchanged, tableVars,
           serverVars, natsVars
  <1>2. \A q \in Requests : StoreSame(q)
    BY DEF StoreSame, StoreUnchanged, tableVars, serverVars, natsVars
  <1>3. \A q \in Requests : ProgressInv(q)'
    BY DEF PathInv, ProgressInv, StoreUnchanged, tableVars, serverVars, natsVars
  <1> QED BY <1>1, <1>2, <1>3

(* One call moves along its path while the store stays as it is.           *)
LEMMA PathStep ==
    ASSUME PathInv, NEW r \in Requests, StoreUnchanged,
           stage' \in [Requests -> Stages], answer' \in [Requests -> Answers],
           event' \in [Requests -> EcommerceRequest \cup {Nil}],
           call' \in [Requests -> TellerRequest \cup {Nil}],
           UNCHANGED listed,
           \A q \in Requests \ {r} : PathSame(q),
           stage'[r] = "answered" => answer'[r] # "none",
           request[r] = "publishing" => Serving(r)',
           CallInv(r)', StageInv(r)',
           call'[r] = call[r] \/ request[r] = "new"
    PROVE  PathInv'
  <1>1. /\ ServerTypeOK' /\ NATSTypeOK' /\ row' \in [Notifications -> Row]
        /\ \A q \in Requests : StoreSame(q) /\ ProgressInv(q)'
    BY StoreKept
  <1>2. \A q \in Requests \ {r} : ThisCallOK(q)'
    BY <1>1, CallUntouched
  <1>3. ContentInv(r)'
    <2>1. CASE call'[r] = call[r]
      BY <1>1, <2>1 DEF PathInv, ContentInv, StoreSame
    <2>2. CASE request[r] = "new"
      BY <1>1, <2>2 DEF PathInv, ProgressInv, ContentInv, StoreSame
    <2> QED BY <2>1, <2>2
  <1>4. PathTypeOK'
    <2>1. Serving(r)' => call'[r] # Nil
      BY DEF StageInv, Admitted
    <2>2. request'[r] = request[r]
      BY <1>1 DEF StoreSame
    <2>3. \A q \in Requests \ {r} :
             /\ request'[q] = "publishing" => Serving(q)'
             /\ stage'[q] = "answered" => answer'[q] # "none"
             /\ Serving(q)' => call'[q] # Nil
      BY <1>1 DEF PathInv, PathTypeOK, PathSame, StoreSame, Serving
    <2>4. /\ listed' \in [Requests -> SUBSET Notifications]
          /\ content' \in [Notifications -> Content \cup {Nil}]
      BY DEF PathInv, PathTypeOK, StoreUnchanged
    <2> QED BY <1>1, <2>1, <2>2, <2>3, <2>4 DEF PathTypeOK
  <1> QED BY <1>1, <1>2, <1>3, <1>4 DEF PathInv, ThisCallOK

(* A step gives call r an answer, and the requests stay as they are.       *)
LEMMA AnswerStep ==
    ASSUME PathInv, NEW r \in Requests, NEW a \in Answers \ {"none"},
           StoreUnchanged, Answered(r, a), UNCHANGED <<event, call, listed>>,
           ~Serving(r),
           a = "refused" => request[r] = "new",
           a = "success" => /\ call[r] # Nil
                            /\ Sends(r) => /\ listed[r] = accepted[r]
                                           /\ call[r].method # "SendToUser"
    PROVE  PathInv'
  <1>1. /\ stage' \in [Requests -> Stages] /\ stage'[r] = "answered"
        /\ answer' \in [Requests -> Answers] /\ answer'[r] = a
        /\ event' \in [Requests -> EcommerceRequest \cup {Nil}]
        /\ call' \in [Requests -> TellerRequest \cup {Nil}]
        /\ \A q \in Requests \ {r} : PathSame(q)
    BY DEF PathInv, PathTypeOK, Answered, ToStage, PathSame, Stages
  <1>2. CallInv(r)'
    BY DEF PathInv, CallInv
  <1>3. StoreSame(r)
    BY StoreKept
  <1>4. StageInv(r)'
    BY <1>1, <1>3 DEF PathInv, StageInv, StoreSame, Serving, Admitted, Sends
  <1>5. request[r] # "publishing"
    BY DEF PathInv, PathTypeOK
  <1> QED BY <1>1, <1>2, <1>4, <1>5, PathStep

LEMMA ToldType ==
    ASSUME NEW r, NEW result \in Answers \ {"none"}
    PROVE  /\ Told(r, result) \in Answers \ {"none"}
           /\ Told(r, result) = "success" <=> result = "success"
           /\ Told(r, result) = "refused" => result = "refused"
  BY DEF Told, Answers

(***************************************************************************)
(* The path: submission, validators, the teller's middleware.              *)
(***************************************************************************)

(* A call of SendToUser makes one request, for one notification.           *)
LEMMA OneRequest ==
    ASSUME PathInv, NEW r \in Requests, call[r] # Nil, call[r].method = "SendToUser"
    PROVE  call[r].requests # <<>> /\ \E n \in Batch[r] : Batch[r] = {n}
  <1>1. CASE event[r] # Nil
    <2>1. call[r].requests # <<>>
      <3>1. call[r] = CallOf(event[r])
        BY <1>1 DEF PathInv, CallInv
      <3> QED BY <3>1 DEF CallOf
    <2>2. event[r] \in Submissions[r] \ {Garbled} /\ event[r].method \in EventMethods
      BY <1>1 DEF PathInv, CallInv
    <2> QED BY <2>1, <2>2, PathAssumption
  <1>2. CASE event[r] = Nil
    <2>1. call[r] \in Submissions[r] \ {Garbled}
      BY <1>2 DEF PathInv, CallInv
    <2>2. Len(call[r].requests) = 1 /\ \E n \in Batch[r] : Batch[r] = {n}
      BY <2>1, PathAssumption
    <2>3. Len(<<>>) = 0
      OBVIOUS
    <2> QED BY <2>2, <2>3
  <1> QED BY <1>1, <1>2

LEMMA NotServing ==
    ASSUME PathInv, NEW r \in Requests,
           stage[r] \in {"idle", "received", "calling", "lost", "answered"}
    PROVE  ~Serving(r)
  BY DEF Serving

(* The methods of the two services differ.                                 *)
LEMMA RequestKinds ==
    ASSUME NEW r \in Requests, NEW m \in Submissions[r] \ {Garbled}
    PROVE  IF m.method \in EventMethods THEN m \in EcommerceRequest ELSE m \in TellerRequest
  <1>1. m \in EcommerceRequest \cup TellerRequest
    BY PathAssumption
  <1>2. m \in EcommerceRequest => m.method \in EventMethods
    BY DEF EcommerceRequest, SendChatMessageRequest, TriggerPurchaseRequest,
           SendPaymentReminderRequest, SendShippingUpdateRequest, EventMethods
  <1>3. m \in TellerRequest => m.method \notin EventMethods
    BY DEF TellerRequest, EventMethods
  <1> QED BY <1>1, <1>2, <1>3

LEMMA SubmitInv ==
    ASSUME PathInv, NEW r \in Requests, Submit(r)
    PROVE  PathInv'
  <1>1. PICK m \in Submissions[r] :
          \/ m = Garbled /\ Answered(r, "refused") /\ UNCHANGED <<event, call>>
          \/ /\ m # Garbled /\ m.method \in EventMethods
             /\ event' = [event EXCEPT ![r] = m]
             /\ ToStage(r, "received") /\ UNCHANGED <<call, answer>>
          \/ /\ m # Garbled /\ m.method \notin EventMethods
             /\ call' = [call EXCEPT ![r] = m]
             /\ ToStage(r, "calling") /\ UNCHANGED <<event, answer>>
    BY DEF Submit
  <1>2. /\ stage[r] = "idle" /\ request[r] = "new"
        /\ event[r] = Nil /\ call[r] = Nil /\ listed[r] = {}
        /\ answer[r] \notin {"success", "refused"}
        /\ StoreUnchanged /\ listed' = listed
    BY DEF Submit, PathInv, StageInv
  <1>3. CASE m = Garbled /\ Answered(r, "refused") /\ UNCHANGED <<event, call>>
    BY <1>2, <1>3, AnswerStep, NotServing DEF Answers
  <1>4. m # Nil
    BY PathAssumption, EcommerceMessagesAssumption
  <1>8. ASSUME m # Garbled
        PROVE  IF m.method \in EventMethods THEN m \in EcommerceRequest ELSE m \in TellerRequest
    BY <1>8, RequestKinds
  <1>5. request'[r] = "new" /\ StoreSame(r)
    BY <1>2, StoreKept DEF StoreSame
  <1>6. CASE /\ m # Garbled /\ m.method \in EventMethods
             /\ event' = [event EXCEPT ![r] = m]
             /\ ToStage(r, "received") /\ UNCHANGED <<call, answer>>
    <2>1. /\ stage' \in [Requests -> Stages] /\ stage'[r] = "received"
          /\ answer' \in [Requests -> Answers] /\ event'[r] = m
          /\ event' \in [Requests -> EcommerceRequest \cup {Nil}]
          /\ call' \in [Requests -> TellerRequest \cup {Nil}]
          /\ \A q \in Requests \ {r} : PathSame(q)
      BY <1>2, <1>6, <1>8 DEF PathInv, PathTypeOK, ToStage, PathSame, Stages
    <2>2. CallInv(r)' /\ StageInv(r)'
      BY <1>2, <1>4, <1>5, <1>6, <2>1 DEF CallInv, StageInv, Serving
    <2> QED BY <1>2, <1>6, <2>1, <2>2, PathStep
  <1>7. CASE /\ m # Garbled /\ m.method \notin EventMethods
             /\ call' = [call EXCEPT ![r] = m]
             /\ ToStage(r, "calling") /\ UNCHANGED <<event, answer>>
    <2>1. /\ stage' \in [Requests -> Stages] /\ stage'[r] = "calling"
          /\ answer' \in [Requests -> Answers] /\ call'[r] = m
          /\ event' \in [Requests -> EcommerceRequest \cup {Nil}]
          /\ call' \in [Requests -> TellerRequest \cup {Nil}]
          /\ \A q \in Requests \ {r} : PathSame(q)
      BY <1>2, <1>7, <1>8 DEF PathInv, PathTypeOK, ToStage, PathSame, Stages
    <2>2. CallInv(r)' /\ StageInv(r)'
      BY <1>2, <1>4, <1>5, <1>7, <2>1 DEF CallInv, StageInv, Serving
    <2> QED BY <1>2, <1>7, <2>1, <2>2, PathStep
  <1> QED BY <1>1, <1>3, <1>6, <1>7

LEMMA RefuseEventInv ==
    ASSUME PathInv, NEW r \in Requests, RefuseEvent(r)
    PROVE  PathInv'
  <1>1. request[r] = "new" /\ stage[r] = "received"
    BY DEF RefuseEvent, PathInv, StageInv
  <1> QED BY <1>1, AnswerStep, NotServing DEF RefuseEvent, Answers

LEMMA SendNotificationInv ==
    ASSUME PathInv, NEW r \in Requests, SendNotification(r)
    PROVE  PathInv'
  <1>1. /\ stage[r] = "received" /\ request[r] = "new"
        /\ event[r] # Nil /\ listed[r] = {}
        /\ answer[r] \notin {"success", "refused"}
        /\ StoreUnchanged /\ UNCHANGED <<event, answer, listed>>
    BY DEF SendNotification, PathInv, StageInv
  <1>2. request'[r] = "new"
    BY <1>1, StoreKept DEF StoreSame
  <1>3. /\ stage' \in [Requests -> Stages] /\ stage'[r] = "calling"
        /\ answer' \in [Requests -> Answers]
        /\ \A q \in Requests \ {r} : PathSame(q)
    BY <1>1 DEF SendNotification, PathInv, PathTypeOK, ToStage, PathSame, Stages
  <1>4. /\ call' \in [Requests -> TellerRequest \cup {Nil}]
        /\ event' \in [Requests -> EcommerceRequest \cup {Nil}]
        /\ call'[r] = CallOf(event[r]) /\ call'[r] # Nil
    <2>1. event[r] \in EcommerceRequest
      BY <1>1 DEF PathInv, PathTypeOK
    <2> QED BY <1>1, <2>1, CallOfType DEF SendNotification, PathInv, PathTypeOK
  <1>5. CallInv(r)' /\ StageInv(r)'
    BY <1>1, <1>2, <1>3, <1>4 DEF SendNotification, PathInv, CallInv, StageInv, Serving
  <1> QED BY <1>1, <1>3, <1>4, <1>5, PathStep

(* A call the teller refuses or panics on stores nothing.                  *)
LEMMA CallingIsNew ==
    ASSUME PathInv, NEW r \in Requests, stage[r] = "calling"
    PROVE  /\ request[r] = "new" /\ call[r] # Nil /\ ~Serving(r)
           /\ listed[r] = {} /\ accepted[r] = {}
           /\ answer[r] \notin {"success", "refused"}
  BY DEF PathInv, StageInv, ProgressInv, Serving

LEMMA RefuseCallInv ==
    ASSUME PathInv, NEW r \in Requests, RefuseCall(r)
    PROVE  PathInv'
  <1>1. "refused" \in Answers \ {"none"}
    BY DEF Answers
  <1>2. /\ Told(r, "refused") \in Answers \ {"none"}
        /\ Told(r, "refused") # "success"
    BY <1>1, ToldType
  <1> QED BY <1>2, CallingIsNew, AnswerStep DEF RefuseCall

LEMMA RecoverPanicInv ==
    ASSUME PathInv, NEW r \in Requests, RecoverPanic(r)
    PROVE  PathInv'
  <1>1. "error" \in Answers \ {"none"}
    BY DEF Answers
  <1>2. /\ Told(r, "error") \in Answers \ {"none"}
        /\ Told(r, "error") \notin {"success", "refused"}
    BY <1>1, ToldType
  <1> QED BY <1>2, CallingIsNew, AnswerStep DEF RecoverPanic

LEMMA NothingToDoInv ==
    ASSUME PathInv, NEW r \in Requests, NothingToDo(r)
    PROVE  PathInv'
  <1>1. Sends(r) => call[r].requests = <<>>
    BY DEF NothingToDo, Sends
  <1>2. call[r] # Nil /\ ~Serving(r) /\ listed[r] = accepted[r]
    BY CallingIsNew DEF NothingToDo
  <1>3. Sends(r) => call[r].method # "SendToUser"
    BY <1>1, <1>2, OneRequest
  <1> QED BY <1>2, <1>3, AnswerStep DEF NothingToDo, Answers

LEMMA QueryInv ==
    ASSUME PathInv, NEW r \in Requests, Query(r)
    PROVE  PathInv'
  <1>1. call[r] # Nil /\ ~Serving(r) /\ ~Sends(r)
    BY CallingIsNew DEF Query, Sends
  <1>2. PICK a \in {"success", "error"} : Answered(r, a)
    BY DEF Query
  <1>3. a \in Answers \ {"none"} /\ a # "refused"
    BY DEF Answers
  <1> QED BY <1>1, <1>2, <1>3, AnswerStep DEF Query

LEMMA AdmitInv ==
    ASSUME PathInv, NEW r \in Requests, Admit(r)
    PROVE  PathInv'
  <1>1. /\ request[r] = "new" /\ call[r] # Nil /\ listed[r] = {}
        /\ answer[r] \notin {"success", "refused"}
        /\ StoreUnchanged /\ UNCHANGED <<event, call, answer, listed>>
    BY CallingIsNew DEF Admit
  <1>2. /\ stage' \in [Requests -> Stages] /\ stage'[r] = "serving"
        /\ answer' \in [Requests -> Answers]
        /\ event' \in [Requests -> EcommerceRequest \cup {Nil}]
        /\ call' \in [Requests -> TellerRequest \cup {Nil}]
        /\ \A q \in Requests \ {r} : PathSame(q)
    BY <1>1 DEF Admit, PathInv, PathTypeOK, ToStage, PathSame, Stages
  <1>3. Admitted(r)
    BY <1>1 DEF Admit, Admitted
  <1>4. StoreSame(r)
    BY <1>1, StoreKept
  <1>5. CallInv(r)' /\ StageInv(r)'
    BY <1>1, <1>2, <1>3, <1>4 DEF PathInv, CallInv, StageInv, StoreSame, Serving, Admitted, Sends
  <1> QED BY <1>1, <1>2, <1>5, PathStep

LEMMA GiveUpInv ==
    ASSUME PathInv, NEW r \in Requests, GiveUp(r)
    PROVE  PathInv'
  <1>1. "error" \in Answers \ {"none"}
    BY DEF Answers
  <1>2. /\ Told(r, "error") \in Answers \ {"none"}
        /\ Told(r, "error") \notin {"success", "refused"}
    BY <1>1, ToldType
  <1>3. CASE stage[r] = "calling"
    <2>1. Answered(r, Told(r, "error"))
      BY <1>3 DEF GiveUp, Answered
    <2> QED BY <1>2, <1>3, <2>1, CallingIsNew, AnswerStep DEF GiveUp
  <1>4. CASE stage[r] = "serving"
    <2>1. StoreUnchanged /\ UNCHANGED <<event, call, listed>>
      BY DEF GiveUp
    <2>2. /\ stage' \in [Requests -> Stages] /\ stage'[r] = "abandoned"
          /\ answer' \in [Requests -> Answers] /\ answer'[r] = Told(r, "error")
          /\ event' \in [Requests -> EcommerceRequest \cup {Nil}]
          /\ call' \in [Requests -> TellerRequest \cup {Nil}]
          /\ \A q \in Requests \ {r} : PathSame(q)
      BY <1>2, <1>4, <2>1 DEF GiveUp, PathInv, PathTypeOK, ToStage, PathSame, Stages
    <2>3. StoreSame(r)
      BY <2>1, StoreKept
    <2>4. CallInv(r)' /\ StageInv(r)'
      BY <1>2, <1>4, <2>1, <2>2, <2>3
         DEF PathInv, CallInv, StageInv, StoreSame, Serving, Admitted, Sends
    <2>5. Serving(r)'
      BY <2>2 DEF Serving
    <2> QED BY <2>1, <2>2, <2>4, <2>5, PathStep
  <1> QED BY <1>3, <1>4 DEF GiveUp

LEMMA ConnectionLostInv ==
    ASSUME PathInv, NEW r \in Requests, ConnectionLost(r)
    PROVE  PathInv'
  <1>1. "error" \in Answers \ {"none"}
    BY DEF Answers
  <1>2. /\ Told(r, "error") \in Answers \ {"none"}
        /\ Told(r, "error") \notin {"success", "refused"}
    BY <1>1, ToldType
  <1> QED BY <1>2, NotServing, AnswerStep DEF ConnectionLost

(* A context that is done changes nothing yet.                             *)
LEMMA ContextStep ==
    ASSUME PathInv, NEW r \in Requests, expired' = expired \cup {r},
           UNCHANGED <<tableVars, request, unpublished, failing, accepted, natsVars, pathVars>>
    PROVE  PathInv'
  <1>1. \A q \in Requests : StoreSame(q) /\ PathSame(q)
    BY DEF tableVars, natsVars, pathVars, StoreSame, PathSame
  <1>2. \A q \in Requests : ThisCallOK(q)'
    BY <1>1, CallUntouched
  <1>3. PathTypeOK'
    BY DEF PathInv, PathTypeOK, ServerTypeOK, NATSTypeOK, tableVars, natsVars, pathVars, Serving
  <1> QED BY <1>2, <1>3 DEF PathInv, ThisCallOK

LEMMA ContextDoneInv ==
    ASSUME PathInv, NEW r \in Requests, ContextDone(r) \/ CallerGone(r)
    PROVE  PathInv'
  <1>1. /\ expired' = expired \cup {r}
        /\ UNCHANGED <<tableVars, request, unpublished, failing, accepted, natsVars, pathVars>>
    BY DEF ContextDone, CallerGone, Expire
  <1> QED BY <1>1, ContextStep

LEMMA EcommerceCrashInv ==
    ASSUME PathInv, EcommerceCrash
    PROVE  PathInv'
  <1> DEFINE hit == {r \in Requests :
                  event[r] # Nil /\ stage[r] \in {"received", "calling", "serving", "lost"}}
  <1>1. /\ answer' = [r \in Requests |-> IF r \in hit THEN "error" ELSE answer[r]]
        /\ stage' = [r \in Requests |->
                       IF r \notin hit THEN stage[r]
                       ELSE IF stage[r] = "serving" THEN "abandoned" ELSE "answered"]
        /\ UNCHANGED <<event, call, listed>> /\ StoreUnchanged
    BY DEF EcommerceCrash
  <1>2. /\ ServerTypeOK' /\ NATSTypeOK' /\ row' \in [Notifications -> Row]
        /\ \A q \in Requests : StoreSame(q) /\ ProgressInv(q)'
    BY <1>1, StoreKept
  <1>3. ASSUME NEW q \in hit
        PROVE  ThisCallOK(q)'
    <2>1. /\ answer'[q] = "error" /\ stage'[q] \in {"abandoned", "answered"}
          /\ stage'[q] = "abandoned" => stage[q] = "serving"
          /\ q \in Requests
      BY <1>1
    <2>2. CallInv(q)'
      BY <1>1, <2>1 DEF PathInv, CallInv
    <2>3. StageInv(q)'
      BY <1>1, <1>2, <2>1 DEF PathInv, StageInv, StoreSame, Serving, Admitted, Sends
    <2>4. ContentInv(q)'
      BY <1>1, <1>2, <2>1 DEF PathInv, ContentInv, StoreSame
    <2> QED BY <1>2, <2>1, <2>2, <2>3, <2>4 DEF ThisCallOK
  <1>4. ASSUME NEW q \in Requests, q \notin hit
        PROVE  ThisCallOK(q)'
    <2>1. PathSame(q)
      BY <1>1, <1>4 DEF PathSame
    <2> QED BY <1>2, <2>1, CallUntouched
  <1>5. PathTypeOK'
    <2>1. \A q \in Requests : /\ request'[q] = "publishing" => Serving(q)'
                              /\ stage'[q] = "answered" => answer'[q] # "none"
                              /\ Serving(q)' => call'[q] # Nil
      BY <1>1, <1>2 DEF PathInv, PathTypeOK, StoreSame, Serving
    <2>2. stage' \in [Requests -> Stages] /\ answer' \in [Requests -> Answers]
      BY <1>1 DEF PathInv, PathTypeOK, Stages, Answers
    <2>3. /\ event' \in [Requests -> EcommerceRequest \cup {Nil}]
          /\ call' \in [Requests -> TellerRequest \cup {Nil}]
          /\ listed' \in [Requests -> SUBSET Notifications]
          /\ content' \in [Notifications -> Content \cup {Nil}]
      BY <1>1 DEF PathInv, PathTypeOK, StoreUnchanged
    <2> QED BY <1>2, <2>1, <2>2, <2>3 DEF PathTypeOK
  <1> QED BY <1>3, <1>4, <1>5 DEF PathInv, ThisCallOK

(***************************************************************************)
(* The store: what the handlers of the teller do.                          *)
(***************************************************************************)

(* The notifications of a call are numbered like its requests.             *)
LEMMA BatchNumbered ==
    ASSUME NEW r \in Requests, NEW n \in Batch[r]
    PROVE  /\ Ids(r) \in [1..Cardinality(Batch[r]) -> Batch[r]]
           /\ \E i \in 1..Cardinality(Batch[r]) : Ids(r)[i] = n
  <1>1. IsFiniteSet(Batch[r])
    BY PathAssumption
  <1> QED BY <1>1, SetNumbered DEF Ids

(* An admitted call makes one request per notification.                    *)
LEMMA RequestPerNotification ==
    ASSUME PathInv, NEW r \in Requests, Admitted(r)
    PROVE  DOMAIN call[r].requests = 1..Cardinality(Batch[r])
  <1>1. call[r].requests \in Seq(SendToUserRequest)
    BY DEF PathInv, PathTypeOK, Admitted, Sends, TellerRequest
  <1>2. DOMAIN call[r].requests = 1..Len(call[r].requests) /\ Len(call[r].requests) # 0
    BY <1>1 DEF Admitted
  <1>3. CASE call[r].method = "SendToUser"
    <2>1. Cardinality(Batch[r]) = 1
      BY <1>3, OneRequest, FS_Singleton DEF Admitted
    <2>2. Len(call[r].requests) = 1
      <3>1. CASE event[r] # Nil
        <4>1. call[r] = CallOf(event[r])
          BY <3>1 DEF PathInv, CallInv, Admitted
        <4> QED BY <4>1 DEF CallOf
      <3>2. CASE event[r] = Nil
        BY <1>3, <3>2, PathAssumption DEF PathInv, CallInv, Admitted
      <3> QED BY <3>1, <3>2
    <2> QED BY <1>2, <2>1, <2>2
  <1>4. CASE call[r].method = "BulkSendToUser"
    <2>1. event[r] = Nil
      <3>1. event[r] # Nil => call[r] = CallOf(event[r])
        BY DEF PathInv, CallInv, Admitted
      <3>2. event[r] # Nil => call[r].method = "SendToUser"
        BY <3>1 DEF CallOf
      <3> QED BY <1>4, <3>2
    <2>2. call[r] \in Submissions[r] \ {Garbled}
      BY <2>1 DEF PathInv, CallInv, Admitted
    <2>3. Len(call[r].requests) \in {0, Cardinality(Batch[r])}
      BY <1>4, <2>2, PathAssumption
    <2> QED BY <1>2, <2>3
  <1> QED BY <1>3, <1>4 DEF Admitted, Sends

LEMMA EntityType ==
    ASSUME NEW q \in SendToUserRequest, q.notification # Nil
    PROVE  Entity(q) \in Content
  <1>1. q.notification \in Notification /\ q.destinations \in Seq(ChannelDestination)
    BY DEF SendToUserRequest
  <1>2. \A d \in ChannelDestination :
           [d EXCEPT !.channel = StoredChannel(@)] \in ChannelDestination
    BY DEF ChannelDestination, StoredChannel, AnyChannel, NotificationChannels
  <1>3. [i \in DOMAIN q.destinations |->
           [q.destinations[i] EXCEPT !.channel = StoredChannel(@)]] \in Seq(ChannelDestination)
    BY <1>1, <1>2
  <1> QED BY <1>1, <1>3 DEF Entity, Content, Notification

(* What a step may touch that works for call r.                            *)
OnlyOf(r) ==
    /\ \A q \in Requests \ {r} :
          /\ request'[q] = request[q] /\ unpublished'[q] = unpublished[q]
          /\ failing'[q] = failing[q] /\ accepted'[q] = accepted[q]
          /\ PathSame(q)
    /\ \A n \in Notifications \ Batch[r] :
          row'[n] = row[n] /\ message'[n] = message[n] /\ content'[n] = content[n]

LEMMA ContentStored ==
    ASSUME PathInv, NEW r \in Requests, Admitted(r), StoreContent(r),
           \A n \in Notifications \ Batch[r] : row'[n] = row[n]
    PROVE  /\ content' \in [Notifications -> Content \cup {Nil}]
           /\ \A n \in Notifications : row'[n] = row[n] => content'[n] = content[n]
           /\ \A n \in Batch[r] : row'[n] # row[n] =>
                 \E i \in DOMAIN call[r].requests : content'[n] = Entity(call[r].requests[i])
  <1> DEFINE index(n) == CHOOSE i \in DOMAIN Ids(r) : Ids(r)[i] = n
  <1>1. content' = [n \in Notifications |->
           IF row'[n] = row[n] THEN content[n] ELSE Entity(call[r].requests[index(n)])]
    BY DEF StoreContent
  <1>2. ASSUME NEW n \in Batch[r]
        PROVE  index(n) \in DOMAIN call[r].requests
    <2>1. DOMAIN Ids(r) = 1..Cardinality(Batch[r])
      BY BatchNumbered
    <2>2. \E i \in DOMAIN Ids(r) : Ids(r)[i] = n
      BY <2>1, BatchNumbered
    <2> QED BY <2>1, <2>2, RequestPerNotification
  <1> HIDE DEF index
  <1>3. ASSUME NEW i \in DOMAIN call[r].requests
        PROVE  Entity(call[r].requests[i]) \in Content
    <2>1. call[r].requests \in Seq(SendToUserRequest)
      BY DEF PathInv, PathTypeOK, Admitted, Sends, TellerRequest
    <2> QED BY <2>1, EntityType DEF Admitted, SomeHasNone
  <1>4. content \in [Notifications -> Content \cup {Nil}]
    BY DEF PathInv, PathTypeOK
  <1>5. ASSUME NEW n \in Notifications
        PROVE  /\ content'[n] \in Content \cup {Nil}
               /\ row'[n] = row[n] => content'[n] = content[n]
    <2>1. CASE row'[n] = row[n]
      BY <1>1, <1>4, <2>1
    <2>2. CASE row'[n] # row[n]
      <3>1. n \in Batch[r]
        BY <2>2
      <3>2. content'[n] = Entity(call[r].requests[index(n)])
        BY <1>1, <2>2
      <3> QED BY <1>2, <1>3, <2>2, <3>1, <3>2
    <2> QED BY <2>1, <2>2
  <1>6. ASSUME NEW n \in Batch[r], row'[n] # row[n]
        PROVE  \E i \in DOMAIN call[r].requests : content'[n] = Entity(call[r].requests[i])
    <2>1. n \in Notifications
      BY ServerAssumption
    <2> QED BY <1>1, <1>2, <1>6, <2>1
  <1>7. content' \in [Notifications -> Content \cup {Nil}]
    <2>1. content' = [n \in Notifications |-> content'[n]]
      BY <1>1
    <2> QED BY <1>5, <2>1
  <1> QED BY <1>5, <1>6, <1>7

LEMMA ServerStep ==
    ASSUME PathInv, NEW r \in Requests, OnlyOf(r), UNCHANGED <<event, call>>,
           ServerTypeOK', NATSTypeOK', row' \in [Notifications -> Row],
           stage' \in [Requests -> Stages], answer' \in [Requests -> Answers],
           listed' \in [Requests -> SUBSET Notifications],
           content' \in [Notifications -> Content \cup {Nil}],
           request'[r] = "publishing" => Serving(r)',
           stage'[r] = "answered" => answer'[r] # "none",
           ProgressInv(r)', StageInv(r)', ContentInv(r)'
    PROVE  PathInv'
  <1>1. ASSUME NEW q \in Requests \ {r}
        PROVE  StoreSame(q) /\ PathSame(q)
    <2>1. \A n \in Batch[q] : n \in Notifications \ Batch[r]
      BY ServerAssumption
    <2> QED BY <2>1 DEF OnlyOf, StoreSame
  <1>2. \A q \in Requests \ {r} : ThisCallOK(q)'
    BY <1>1, CallUntouched
  <1>3. CallInv(r)'
    BY DEF PathInv, CallInv
  <1>4. Serving(r)' => call'[r] # Nil
    BY DEF StageInv, Admitted
  <1>5. \A q \in Requests \ {r} : /\ request'[q] = "publishing" => Serving(q)'
                                  /\ stage'[q] = "answered" => answer'[q] # "none"
                                  /\ Serving(q)' => call'[q] # Nil
    BY <1>1 DEF PathInv, PathTypeOK, StoreSame, PathSame, Serving
  <1>6. PathTypeOK'
    BY <1>4, <1>5 DEF PathInv, PathTypeOK
  <1> QED BY <1>2, <1>3, <1>6 DEF PathInv, ThisCallOK

(* The handler of a call that is being served works for one it admitted.   *)
LEMMA ServingAdmitted ==
    ASSUME PathInv, NEW r \in Requests, Serving(r)
    PROVE  /\ Admitted(r) /\ call[r] # Nil
           /\ answer[r] \notin {"success", "refused"} /\ listed[r] = {}
           /\ stage[r] \in {"serving", "abandoned"} /\ Batch[r] \subseteq Notifications
  BY ServerAssumption DEF PathInv, StageInv, Serving, Admitted

LEMMA NewRow == NewNotification \in Row /\ NewNotification.status = "pending"
  BY DEF NewNotification, BlankRow, Row, NoResults, Statuses

(* The rows of the call are inserted, all of them.                         *)
LEMMA InsertStep ==
    ASSUME PathInv, NEW r \in Requests, Inserted(r)
    PROVE  /\ row' \in [Notifications -> Row]
           /\ \A n \in Batch[r] : row'[n].status = "pending"
           /\ \A n \in Notifications \ Batch[r] : row'[n] = row[n]
  BY NewRow, ServerAssumption DEF PathInv, PathTypeOK, Inserted

LEMMA SaveInv ==
    ASSUME PathInv, NEW r \in Requests, Save(r)
    PROVE  PathInv'
  <1>1. /\ Admitted(r) /\ call[r] # Nil /\ listed[r] = {}
        /\ answer[r] \notin {"success", "refused"} /\ Batch[r] \subseteq Notifications
    BY ServingAdmitted DEF Save
  <1>2. /\ Serving(r) /\ StoreContent(r) /\ Inserted(r)
        /\ UNCHANGED <<natsVars, stage, event, call, answer, listed>>
        /\ request[r] = "new"
        /\ request' = [request EXCEPT ![r] = "publishing"]
        /\ unpublished' = [unpublished EXCEPT ![r] = Batch[r]]
        /\ UNCHANGED <<failing, accepted, expired>>
    BY DEF Save, SaveRows
  <1>3. /\ row' \in [Notifications -> Row]
        /\ \A n \in Batch[r] : row'[n].status = "pending"
        /\ \A n \in Notifications \ Batch[r] : row'[n] = row[n]
    BY <1>2, InsertStep
  <1>4. /\ ServerTypeOK' /\ NATSTypeOK'
        /\ request'[r] = "publishing" /\ unpublished'[r] = Batch[r]
    BY <1>1, <1>2 DEF PathInv, PathTypeOK, ServerTypeOK, NATSTypeOK, natsVars, RequestStates
  <1>5. /\ content' \in [Notifications -> Content \cup {Nil}]
        /\ \A n \in Notifications : row'[n] = row[n] => content'[n] = content[n]
        /\ \A n \in Batch[r] : row'[n] # row[n] =>
              \E i \in DOMAIN call[r].requests : content'[n] = Entity(call[r].requests[i])
    BY <1>1, <1>2, <1>3, ContentStored
  <1>6. OnlyOf(r)
    BY <1>2, <1>3, <1>5 DEF OnlyOf, PathSame, natsVars, PathInv, PathTypeOK, ServerTypeOK
  <1>7. ProgressInv(r)'
    BY <1>2, <1>3, <1>4, DeploymentAssumption, <1>1 DEF PathInv, ProgressInv, natsVars
  <1>8. ContentInv(r)'
    <2>1. \A n \in Batch[r] : row'[n] # row[n]
      BY <1>2, <1>3 DEF PathInv, ProgressInv
    <2> QED BY <1>2, <1>5, <2>1 DEF ContentInv
  <1>9. StageInv(r)'
    BY <1>1, <1>2, <1>4 DEF PathInv, StageInv, Serving, Admitted, Sends
  <1>10. Serving(r)' /\ (stage'[r] = "answered" => answer'[r] # "none")
    BY <1>2 DEF Serving
  <1>11. /\ stage' \in [Requests -> Stages] /\ answer' \in [Requests -> Answers]
         /\ listed' \in [Requests -> SUBSET Notifications]
    BY <1>2 DEF PathInv, PathTypeOK
  <1> QED BY <1>2, <1>3, <1>4, <1>5, <1>6, <1>7, <1>8, <1>9, <1>10, <1>11, ServerStep

(* What a caller hears of the teller's answer.                             *)
LEMMA RespondStep ==
    ASSUME PathInv, NEW r \in Requests, Serving(r), NEW result \in {"success", "error"},
           NEW ids \in SUBSET Notifications, Respond(r, result, ids)
    PROVE  /\ stage' \in [Requests -> Stages] /\ stage'[r] = "answered"
           /\ answer' \in [Requests -> Answers]
           /\ answer'[r] \notin {"none", "refused"}
           /\ answer'[r] = "success" => result = "success" /\ listed'[r] = ids
           /\ listed' \in [Requests -> SUBSET Notifications]
           /\ \A q \in Requests \ {r} :
                 stage'[q] = stage[q] /\ answer'[q] = answer[q] /\ listed'[q] = listed[q]
  <1>1. result \in Answers \ {"none"}
    BY DEF Answers
  <1>2. /\ Told(r, result) \in Answers \ {"none", "refused"}
        /\ Told(r, result) = "success" <=> result = "success"
    BY <1>1, ToldType
  <1>3. "answered" \in Stages
    BY DEF Stages
  <1>4. CASE stage[r] = "serving"
    BY <1>2, <1>3, <1>4 DEF Respond, Answered, ToStage, PathInv, PathTypeOK
  <1>5. CASE stage[r] = "abandoned"
    BY <1>3, <1>5 DEF Respond, ToStage, PathInv, PathTypeOK, StageInv
  <1> QED BY <1>4, <1>5 DEF Serving

LEMMA SaveFailsInv ==
    ASSUME PathInv, NEW r \in Requests, SaveFails(r)
    PROVE  PathInv'
  <1>1. /\ Admitted(r) /\ call[r] # Nil /\ listed[r] = {}
        /\ answer[r] \notin {"success", "refused"} /\ Batch[r] \subseteq Notifications
    BY ServingAdmitted DEF SaveFails
  <1>2. /\ Serving(r) /\ StoreContent(r) /\ (Inserted(r) \/ UNCHANGED row)
        /\ Respond(r, "error", {})
        /\ UNCHANGED <<natsVars, event, call>>
        /\ request[r] = "new"
        /\ request' = [request EXCEPT ![r] = "replied"]
        /\ UNCHANGED <<unpublished, failing, accepted, expired>>
    BY DEF SaveFails, SaveRowsFails
  <1>3. /\ row' \in [Notifications -> Row]
        /\ \A n \in Notifications \ Batch[r] : row'[n] = row[n]
        /\ \A n \in Batch[r] : row'[n] = row[n] => row[n].status = "absent"
    BY <1>1, <1>2, InsertStep DEF PathInv, PathTypeOK, ProgressInv
  <1>4. /\ ServerTypeOK' /\ NATSTypeOK' /\ request'[r] = "replied"
    BY <1>2 DEF PathInv, PathTypeOK, ServerTypeOK, NATSTypeOK, natsVars, RequestStates
  <1>5. /\ content' \in [Notifications -> Content \cup {Nil}]
        /\ \A n \in Notifications : row'[n] = row[n] => content'[n] = content[n]
        /\ \A n \in Batch[r] : row'[n] # row[n] =>
              \E i \in DOMAIN call[r].requests : content'[n] = Entity(call[r].requests[i])
    BY <1>1, <1>2, <1>3, ContentStored
  <1>6. /\ stage' \in [Requests -> Stages] /\ stage'[r] = "answered"
        /\ answer' \in [Requests -> Answers]
        /\ answer'[r] \notin {"none", "refused", "success"}
        /\ listed' \in [Requests -> SUBSET Notifications]
        /\ \A q \in Requests \ {r} :
              stage'[q] = stage[q] /\ answer'[q] = answer[q] /\ listed'[q] = listed[q]
    BY <1>2, RespondStep
  <1>7. OnlyOf(r)
    BY <1>2, <1>3, <1>5, <1>6 DEF OnlyOf, PathSame, natsVars, PathInv, PathTypeOK, ServerTypeOK
  <1>8. ProgressInv(r)'
    BY <1>2, <1>4 DEF PathInv, ProgressInv, natsVars
  <1>9. ContentInv(r)'
    BY <1>2, <1>3, <1>5 DEF ContentInv
  <1>10. StageInv(r)'
    BY <1>1, <1>2, <1>4, <1>6 DEF PathInv, StageInv, Serving, Admitted, Sends
  <1> QED BY <1>2, <1>3, <1>4, <1>5, <1>6, <1>7, <1>8, <1>9, <1>10, ServerStep

(* Between the insertion of the rows and the reply, contents and answers   *)
(* stay as they are.                                                       *)
LEMMA PublishingStep ==
    ASSUME PathInv, NEW r \in Requests, Serving(r), UNCHANGED <<pathVars, request>>,
           ServerTypeOK', NATSTypeOK', row' \in [Notifications -> Row],
           request[r] = "publishing", ProgressInv(r)',
           \A q \in Requests \ {r} : /\ unpublished'[q] = unpublished[q]
                                     /\ failing'[q] = failing[q] /\ accepted'[q] = accepted[q],
           \A n \in Notifications \ Batch[r] : row'[n] = row[n] /\ message'[n] = message[n],
           \A n \in Batch[r] : row[n].status = "absent" => row'[n].status = "absent"
    PROVE  PathInv'
  <1>1. OnlyOf(r)
    BY DEF OnlyOf, PathSame, pathVars
  <1>2. Serving(r)' /\ (stage'[r] = "answered" => answer'[r] # "none")
    BY DEF Serving, pathVars
  <1>3. ContentInv(r)'
    BY DEF PathInv, ContentInv, pathVars
  <1>4. StageInv(r)'
    BY ServingAdmitted DEF PathInv, StageInv, Serving, Admitted, Sends, pathVars
  <1>5. /\ stage' \in [Requests -> Stages] /\ answer' \in [Requests -> Answers]
        /\ listed' \in [Requests -> SUBSET Notifications]
        /\ content' \in [Notifications -> Content \cup {Nil}]
        /\ UNCHANGED <<event, call>>
    BY DEF PathInv, PathTypeOK, pathVars
  <1> QED BY <1>1, <1>2, <1>3, <1>4, <1>5, ServerStep

LEMMA PublishInv ==
    ASSUME PathInv, NEW r \in Requests, Serving(r), UNCHANGED pathVars,
           NEW n \in Notifications, Publish(r, n), Enqueue(n)
    PROVE  PathInv'
  <1>1. /\ n \in Batch[r] /\ Batch[r] \subseteq Notifications
        /\ n \notin accepted[r] /\ failing[r] = NoNotification /\ request[r] = "publishing"
    BY ServerAssumption DEF PathInv, ProgressInv, Publish, Publishing
  <1>2. /\ unpublished' = [unpublished EXCEPT ![r] = @ \ {n}]
        /\ accepted' = [accepted EXCEPT ![r] = @ \cup {n}]
        /\ message' = [message EXCEPT ![n] = "queued"]
        /\ UNCHANGED <<row, request, failing, expired, deliveries, inbox>>
    BY DEF Publish, Publishing, Enqueue, tableVars
  <1>3. /\ unpublished'[r] = unpublished[r] \ {n} /\ accepted'[r] = accepted[r] \cup {n}
        /\ message'[n] = "queued" /\ \A m \in Notifications \ {n} : message'[m] = message[m]
    BY <1>2 DEF PathInv, PathTypeOK, ServerTypeOK, NATSTypeOK
  <1>4. ServerTypeOK' /\ NATSTypeOK' /\ row' \in [Notifications -> Row]
    BY <1>2 DEF PathInv, PathTypeOK, ServerTypeOK, NATSTypeOK, MessageStates
  <1>5. ProgressInv(r)'
    <2>1. row[n].status = "pending"
      BY <1>1 DEF PathInv, ProgressInv, Publish, Publishing
    <2>2. \A m \in accepted'[r] : row[m].status = "pending" /\ message'[m] # "none"
      BY <1>1, <1>3, <2>1 DEF PathInv, ProgressInv
    <2>3. NoNotification \notin Batch[r]
      BY <1>1, DeploymentAssumption
    <2> QED BY <1>1, <1>2, <1>3, <2>2, <2>3 DEF PathInv, ProgressInv
  <1>6. \A q \in Requests \ {r} : /\ unpublished'[q] = unpublished[q]
                                  /\ failing'[q] = failing[q] /\ accepted'[q] = accepted[q]
    BY <1>2 DEF PathInv, PathTypeOK, ServerTypeOK
  <1> QED BY <1>1, <1>2, <1>3, <1>4, <1>5, <1>6, PublishingStep

LEMMA PublishFailsInv ==
    ASSUME PathInv, NEW r \in Requests, Serving(r), UNCHANGED pathVars,
           NEW n \in Notifications, PublishFails(r, n), Enqueue(n) \/ UNCHANGED natsVars
    PROVE  PathInv'
  <1>1. /\ n \in Batch[r] /\ Batch[r] \subseteq Notifications
        /\ n \notin accepted[r] /\ request[r] = "publishing"
    BY ServerAssumption DEF PathInv, ProgressInv, PublishFails, Publishing
  <1>2. /\ unpublished' = [unpublished EXCEPT ![r] = @ \ {n}]
        /\ failing' = [failing EXCEPT ![r] = n]
        /\ UNCHANGED <<row, request, accepted, expired, deliveries, inbox>>
        /\ message' = message \/ message' = [message EXCEPT ![n] = "queued"]
    BY DEF PublishFails, Publishing, Enqueue, tableVars, natsVars
  <1>3. /\ unpublished'[r] = unpublished[r] \ {n} /\ failing'[r] = n
        /\ \A m \in Notifications : message[m] # "none" => message'[m] # "none"
        /\ \A m \in Notifications \ {n} : message'[m] = message[m]
    BY <1>2 DEF PathInv, PathTypeOK, ServerTypeOK, NATSTypeOK
  <1>4. ServerTypeOK' /\ NATSTypeOK' /\ row' \in [Notifications -> Row]
    BY <1>2 DEF PathInv, PathTypeOK, ServerTypeOK, NATSTypeOK, MessageStates
  <1>5. ProgressInv(r)'
    BY <1>1, <1>2, <1>3 DEF PathInv, ProgressInv
  <1>6. \A q \in Requests \ {r} : /\ unpublished'[q] = unpublished[q]
                                  /\ failing'[q] = failing[q] /\ accepted'[q] = accepted[q]
    BY <1>2 DEF PathInv, PathTypeOK, ServerTypeOK
  <1> QED BY <1>1, <1>2, <1>3, <1>4, <1>5, <1>6, PublishingStep

LEMMA PublishNotificationInv ==
    ASSUME PathInv, NEW r \in Requests, PublishNotification(r)
    PROVE  PathInv'
  BY PublishInv, PublishFailsInv DEF PublishNotification

(* Only a row whose publish failed is marked.                              *)
LEMMA MarkUnpublishedInv ==
    ASSUME PathInv, NEW r \in Requests, MarkUnpublished(r)
    PROVE  PathInv'
  <1> DEFINE f == failing[r]
  <1>1. /\ Serving(r) /\ request[r] = "publishing" /\ UNCHANGED <<natsVars, pathVars>>
        /\ failing' = [failing EXCEPT ![r] = NoNotification]
        /\ UNCHANGED <<request, unpublished, accepted, expired>>
        /\ row' = row \/ row' = [row EXCEPT ![f].status = "failed"]
        /\ f # NoNotification
    BY DEF MarkUnpublished, MarkFailed, MarkFailedFails, tableVars
  <1>2. /\ f \in Batch[r] /\ Batch[r] \subseteq Notifications
        /\ f \notin unpublished[r] \cup accepted[r]
    BY <1>1, ServerAssumption DEF PathInv, ProgressInv
  <1>3. /\ row' \in [Notifications -> Row]
        /\ \A n \in Notifications \ {f} : row'[n] = row[n]
        /\ row'[f].status # "absent"
    <2>1. f \in Notifications /\ row \in [Notifications -> Row] /\ row[f].status # "absent"
      BY <1>1, <1>2 DEF PathInv, PathTypeOK, ProgressInv
    <2> HIDE DEF f
    <2>2. [row[f] EXCEPT !.status = "failed"] \in Row
      <3>1. row[f] \in Row
        BY <2>1
      <3> QED BY <3>1 DEF Row, Statuses, Settled
    <2>3. CASE row' = row
      BY <2>1, <2>3
    <2>4. CASE row' = [row EXCEPT ![f].status = "failed"]
      <3>1. row' = [row EXCEPT ![f] = [row[f] EXCEPT !.status = "failed"]]
        BY <2>4
      <3>2. row[f] \in Row
        BY <2>1
      <3>3. [row[f] EXCEPT !.status = "failed"].status = "failed"
        BY <3>2 DEF Row
      <3> QED BY <2>1, <2>2, <3>1, <3>3
    <2> QED BY <1>1, <2>3, <2>4
  <1>4. ServerTypeOK' /\ NATSTypeOK'
    BY <1>1 DEF PathInv, PathTypeOK, ServerTypeOK, NATSTypeOK, natsVars
  <1>5. failing'[r] = NoNotification /\ NoNotification \notin Batch[r]
    BY <1>1, <1>2, DeploymentAssumption DEF PathInv, PathTypeOK, ServerTypeOK
  <1> HIDE DEF f
  <1>6. ProgressInv(r)'
    BY <1>1, <1>2, <1>3, <1>5 DEF PathInv, ProgressInv, natsVars
  <1>7. \A q \in Requests \ {r} : failing'[q] = failing[q]
    BY <1>1 DEF PathInv, PathTypeOK, ServerTypeOK
  <1>8. \A n \in Batch[r] : row[n].status # "absent"
    BY <1>1 DEF PathInv, ProgressInv
  <1> QED BY <1>1, <1>2, <1>3, <1>4, <1>6, <1>7, <1>8, PublishingStep DEF natsVars

LEMMA ReturnInv ==
    ASSUME PathInv, NEW r \in Requests, Return(r)
    PROVE  PathInv'
  <1> DEFINE result == IF call[r].method = "SendToUser" /\ accepted[r] = {} THEN "error" ELSE "success"
  <1>1. /\ Admitted(r) /\ call[r] # Nil /\ Batch[r] \subseteq Notifications
    BY ServingAdmitted DEF Return
  <1>2. /\ Serving(r) /\ Respond(r, result, accepted[r])
        /\ UNCHANGED <<natsVars, event, call, content, tableVars>>
        /\ request' = [request EXCEPT ![r] = "replied"]
        /\ request[r] = "publishing"
        /\ UNCHANGED <<unpublished, failing, accepted, expired>>
    BY DEF Return, Reply
  <1>3. /\ ServerTypeOK' /\ NATSTypeOK' /\ row' \in [Notifications -> Row]
        /\ request'[r] = "replied" /\ accepted[r] \in SUBSET Notifications
        /\ content' \in [Notifications -> Content \cup {Nil}]
    BY <1>2 DEF PathInv, PathTypeOK, ServerTypeOK, NATSTypeOK, natsVars, tableVars, RequestStates
  <1>4. result \in {"success", "error"}
    OBVIOUS
  <1>5. result = "success" /\ call[r].method = "SendToUser" => accepted[r] # {}
    OBVIOUS
  <1> HIDE DEF result
  <1>6. /\ stage' \in [Requests -> Stages] /\ stage'[r] = "answered"
        /\ answer' \in [Requests -> Answers]
        /\ answer'[r] \notin {"none", "refused"}
        /\ answer'[r] = "success" => result = "success" /\ listed'[r] = accepted[r]
        /\ listed' \in [Requests -> SUBSET Notifications]
        /\ \A q \in Requests \ {r} :
              stage'[q] = stage[q] /\ answer'[q] = answer[q] /\ listed'[q] = listed[q]
    BY <1>2, <1>3, <1>4, RespondStep
  <1>7. OnlyOf(r)
    BY <1>2, <1>6 DEF OnlyOf, PathSame, natsVars, tableVars, PathInv, PathTypeOK, ServerTypeOK
  <1>8. ProgressInv(r)' /\ ContentInv(r)'
    BY <1>2, <1>3 DEF PathInv, ProgressInv, ContentInv, natsVars, tableVars
  <1>9. StageInv(r)'
    BY <1>1, <1>2, <1>3, <1>5, <1>6 DEF PathInv, StageInv, Serving, Admitted, Sends
  <1> QED BY <1>2, <1>3, <1>6, <1>7, <1>8, <1>9, ServerStep

(***************************************************************************)
(* The teller dies with all the calls it serves.                           *)
(***************************************************************************)
LEMMA TellerCrashInv ==
    ASSUME PathInv, TellerCrash
    PROVE  PathInv'
  <1>1. /\ stage' = [r \in Requests |->
                        CASE stage[r] = "serving" -> "lost"
                          [] stage[r] = "abandoned" -> "answered"
                          [] OTHER -> stage[r]]
        /\ UNCHANGED <<natsVars, event, call, answer, listed, content, tableVars>>
    BY DEF TellerCrash, ServerCrash
  <1>2. /\ ServerTypeOK' /\ NATSTypeOK' /\ row' \in [Notifications -> Row]
        /\ UNCHANGED <<unpublished, failing>>
    BY <1>1 DEF TellerCrash, ServerCrash, PathInv, PathTypeOK, ServerTypeOK, NATSTypeOK,
                serverVars, natsVars, tableVars, RequestStates
  <1>3. ASSUME NEW r \in Requests
        PROVE  \/ /\ request[r] # "publishing" /\ request'[r] = request[r]
                  /\ accepted'[r] = accepted[r]
               \/ /\ request[r] = "publishing" /\ request'[r] = "lost" /\ accepted'[r] = {}
    BY <1>1 DEF TellerCrash, ServerCrash, serverVars
  <1>4. stage' \in [Requests -> Stages]
    BY <1>1 DEF PathInv, PathTypeOK, Stages
  <1>5. ASSUME NEW r \in Requests
        PROVE  /\ ThisCallOK(r)'
               /\ request'[r] # "publishing"
               /\ stage'[r] = "answered" => answer'[r] # "none"
               /\ ~Serving(r)'
    <2>1. CASE ~Serving(r)
      <3>1. PathSame(r) /\ request[r] # "publishing"
        BY <1>1, <2>1 DEF PathSame, Serving, PathInv, PathTypeOK
      <3>2. StoreSame(r)
        BY <1>1, <1>2, <1>3, <3>1, ServerAssumption DEF StoreSame, tableVars, natsVars
      <3>3. ThisCallOK(r)'
        BY <3>1, <3>2, CallUntouched
      <3> QED BY <2>1, <3>1, <3>2, <3>3 DEF PathSame, StoreSame, Serving, PathInv, PathTypeOK
    <2>2. CASE Serving(r)
      <3>1. \/ stage[r] = "serving" /\ stage'[r] = "lost"
            \/ stage[r] = "abandoned" /\ stage'[r] = "answered"
        BY <1>1, <2>2 DEF Serving
      <3>2. request'[r] # "publishing"
        BY <1>3
      <3>3. ProgressInv(r)'
        BY <1>1, <1>2, <1>3 DEF PathInv, ProgressInv, natsVars, tableVars
      <3>4. CallInv(r)' /\ ContentInv(r)'
        BY <1>1 DEF PathInv, CallInv, ContentInv, tableVars
      <3>5. StageInv(r)'
        BY <1>1, <1>3, <2>2, <3>1 DEF PathInv, StageInv, Serving, Admitted, Sends
      <3>6. stage'[r] = "answered" => answer'[r] # "none"
        BY <1>1, <2>2, <3>1 DEF PathInv, StageInv
      <3> QED BY <3>1, <3>2, <3>3, <3>4, <3>5, <3>6 DEF ThisCallOK, Serving
    <2> QED BY <2>1, <2>2
  <1>6. PathTypeOK'
    <2>1. /\ event' \in [Requests -> EcommerceRequest \cup {Nil}]
          /\ call' \in [Requests -> TellerRequest \cup {Nil}]
          /\ answer' \in [Requests -> Answers]
          /\ listed' \in [Requests -> SUBSET Notifications]
          /\ content' \in [Notifications -> Content \cup {Nil}]
      BY <1>1 DEF PathInv, PathTypeOK
    <2> QED BY <1>2, <1>4, <1>5, <2>1 DEF PathTypeOK
  <1> QED BY <1>5, <1>6 DEF PathInv, ThisCallOK

LEMMA PathStutter ==
    ASSUME PathInv, UNCHANGED vars
    PROVE  PathInv'
  <1>1. \A q \in Requests : StoreSame(q) /\ PathSame(q)
    BY DEF vars, tableVars, serverVars, natsVars, pathVars, StoreSame, PathSame
  <1>2. \A q \in Requests : ThisCallOK(q)'
    BY <1>1, CallUntouched
  <1>3. PathTypeOK'
    BY DEF vars, PathInv, PathTypeOK, ServerTypeOK, NATSTypeOK, tableVars, serverVars,
           natsVars, pathVars, Serving
  <1> QED BY <1>2, <1>3 DEF PathInv, ThisCallOK

(* The invariant holds for any calls, faults and crashes: where a call     *)
(* stands on its way, what the teller has begun for it and what its caller *)
(* was told agree.                                                         *)
THEOREM PathInvHolds == Spec => []PathInv
  <1>1. ASSUME PathInv, [Next]_vars
        PROVE  PathInv'
    <2>1. ASSUME NEW r \in Requests, CallStep(r)
          PROVE  PathInv'
      BY <1>1, <2>1, RefuseEventInv, SendNotificationInv, RefuseCallInv, RecoverPanicInv,
         NothingToDoInv, QueryInv, AdmitInv, SaveInv, SaveFailsInv, PublishNotificationInv,
         MarkUnpublishedInv, ReturnInv, GiveUpInv, ConnectionLostInv DEF CallStep
    <2> QED BY <1>1, <2>1, SubmitInv, ContextDoneInv, TellerCrashInv, EcommerceCrashInv,
               PathStutter DEF Next
  <1> QED BY <1>1, InitInv, PTL DEF Spec

(* Every variable keeps its type, a handler of the teller runs only for a  *)
(* call it admitted, and a call that ended was answered.                   *)
THEOREM PathTypeCorrect == Spec => []PathTypeOK
  <1>1. PathInv => PathTypeOK
    BY DEF PathInv
  <1> QED BY <1>1, PathInvHolds, PTL

(***************************************************************************)
(* What the invariant says to the callers.                                 *)
(***************************************************************************)

(* Every id in an answer of success names a row that is stored, that no    *)
(* failed publish marked, and whose message is in the stream.              *)
THEOREM SuccessMeansStored == Spec => []SuccessIsStored
  <1>1. ASSUME PathInv, NEW r \in Requests, answer[r] = "success", Sends(r)
        PROVE  /\ call[r].method = "SendToUser" => Cardinality(listed[r]) = 1
               /\ \A n \in listed[r] :
                     n \in Batch[r] /\ row[n].status = "pending" /\ message[n] # "none"
    <2>1. /\ call[r] # Nil /\ listed[r] = accepted[r]
          /\ call[r].method = "SendToUser" => accepted[r] # {}
      BY <1>1 DEF PathInv, StageInv
    <2>2. /\ accepted[r] \subseteq Batch[r]
          /\ \A n \in accepted[r] : row[n].status = "pending" /\ message[n] # "none"
      BY <1>1 DEF PathInv, ProgressInv
    <2>3. ASSUME call[r].method = "SendToUser"
          PROVE  Cardinality(listed[r]) = 1
      <3>1. PICK n \in Batch[r] : Batch[r] = {n}
        BY <1>1, <2>1, <2>3, OneRequest
      <3>2. listed[r] = {n}
        BY <2>1, <2>2, <2>3, <3>1
      <3> QED BY <3>2, FS_Singleton
    <2> QED BY <2>1, <2>2, <2>3
  <1>2. PathInv => SuccessIsStored
    BY <1>1 DEF SuccessIsStored
  <1> QED BY <1>2, PathInvHolds, PTL

(***************************************************************************)
(* What a bulk reply skips.                                                *)
(***************************************************************************)

(* Faults are only ever added, and a context that is done stays so.        *)
FailuresGrow ==
    /\ faults' \in Nat /\ faults <= faults'
    /\ expired \subseteq expired'

LEMMA FailuresAdded ==
    ASSUME PathInv, faults \in Nat, [Next]_vars
    PROVE  FailuresGrow
  <1>1. \/ UNCHANGED faults
        \/ Fault
    BY DEF Next, Submit, CallStep, RefuseEvent, SendNotification, RefuseCall, RecoverPanic,
           NothingToDo, Query, Admit, Save, SaveRows, SaveFails, SaveRowsFails,
           PublishNotification, Publish, PublishFails, MarkUnpublished, MarkFailed,
           MarkFailedFails, Return, Reply, GiveUp, ConnectionLost, ContextDone, Expire,
           CallerGone, TellerCrash, ServerCrash, EcommerceCrash, CallFails, vars
  <1>2. \/ UNCHANGED expired
        \/ \E r \in Requests : expired' = expired \cup {r}
    BY DEF Next, Submit, CallStep, RefuseEvent, SendNotification, RefuseCall, RecoverPanic,
           NothingToDo, Query, Admit, Save, SaveRows, SaveFails, SaveRowsFails,
           PublishNotification, Publish, PublishFails, MarkUnpublished, MarkFailed,
           MarkFailedFails, Return, Reply, GiveUp, ConnectionLost, ContextDone, Expire,
           CallerGone, TellerCrash, ServerCrash, EcommerceCrash, StoreUnchanged, serverVars, vars
  <1> QED BY <1>1, <1>2 DEF Fault, FailuresGrow

LEMMA MarksStay ==
    ASSUME FailuresGrow, faults \in Nat, NEW r, NEW n, MarkedOrWorse(r, n),
           row'[n].status = row[n].status
    PROVE  MarkedOrWorse(r, n)'
  BY DEF FailuresGrow, MarkedOrWorse

(* A step that neither publishes nor marks for call q, and does not tell   *)
(* its caller success.                                                     *)
LEMMA SkipKept ==
    ASSUME PathInv, FailuresGrow, faults \in Nat, NEW q \in Requests, SkipInv(q),
           \A n \in Batch[q] : row'[n].status = row[n].status,
           failing'[q] = failing[q],
           request'[q] = "publishing" =>
               /\ request[q] = "publishing" /\ unpublished'[q] = unpublished[q]
               /\ accepted'[q] = accepted[q],
           answer'[q] = "success" =>
               /\ answer[q] = "success" /\ call'[q] = call[q]
               /\ accepted'[q] = accepted[q]
    PROVE  SkipInv(q)'
  <1>1. failing'[q] # NoNotification => q \in expired' \/ faults' >= 1
    BY DEF SkipInv, FailuresGrow
  <1>2. ASSUME request'[q] = "publishing",
               NEW n \in Batch[q] \ (unpublished'[q] \cup accepted'[q] \cup {failing'[q]})
        PROVE  MarkedOrWorse(q, n)'
    BY <1>2, MarksStay DEF SkipInv
  <1>3. ASSUME answer'[q] = "success", Sends(q)', call'[q].requests # <<>>,
               NEW n \in Batch[q] \ accepted'[q]
        PROVE  MarkedOrWorse(q, n)'
    BY <1>3, MarksStay DEF SkipInv, Sends
  <1> QED BY <1>1, <1>2, <1>3 DEF SkipInv

(* A step of one call leaves the others alone.                             *)
LEMMA OthersAlone ==
    ASSUME PathInv, NEW r \in Requests, Submit(r) \/ CallStep(r),
           NEW q \in Requests \ {r}
    PROVE  /\ \A n \in Batch[q] : row'[n] = row[n]
           /\ failing'[q] = failing[q] /\ request'[q] = request[q]
           /\ unpublished'[q] = unpublished[q] /\ accepted'[q] = accepted[q]
           /\ answer'[q] = answer[q] /\ call'[q] = call[q]
  <1>1. \A n \in Batch[q] : n \in Notifications \ Batch[r]
    BY ServerAssumption
  <1>2. CASE StoreUnchanged
    BY <1>2 DEF PathInv, PathTypeOK, StoreUnchanged, tableVars, serverVars, Submit, CallStep,
           RefuseEvent, SendNotification, RefuseCall, RecoverPanic, NothingToDo, Query, Admit,
           GiveUp, ConnectionLost, Answered, ToStage, Save, SaveFails, PublishNotification,
           MarkUnpublished, Return, Respond, pathVars
  <1>3. CASE Save(r)
    BY <1>1, <1>3 DEF Save, SaveRows, Inserted, PathInv, PathTypeOK, ServerTypeOK
  <1>4. CASE SaveFails(r)
    BY <1>1, <1>4 DEF SaveFails, SaveRowsFails, Inserted, Respond, Answered, PathInv,
           PathTypeOK, ServerTypeOK
  <1>5. CASE PublishNotification(r)
    BY <1>5 DEF PublishNotification, Publish, PublishFails, Publishing, tableVars, pathVars,
           PathInv, PathTypeOK, ServerTypeOK
  <1>6. CASE MarkUnpublished(r)
    <2>1. failing[r] \in Batch[r] \cup {NoNotification}
      BY DEF PathInv, ProgressInv
    <2>2. failing[r] \notin Batch[q]
      BY <1>1, <1>6, <2>1 DEF MarkUnpublished, MarkFailed, MarkFailedFails
    <2> QED BY <1>1, <1>6, <2>2 DEF MarkUnpublished, MarkFailed, MarkFailedFails, tableVars,
               pathVars, PathInv, PathTypeOK, ServerTypeOK
  <1>7. CASE Return(r)
    BY <1>7 DEF Return, Reply, Respond, Answered, tableVars, PathInv, PathTypeOK, ServerTypeOK
  <1> QED BY <1>2, <1>3, <1>4, <1>5, <1>6, <1>7 DEF Submit, CallStep, RefuseEvent,
             SendNotification, RefuseCall, RecoverPanic, NothingToDo, Query, Admit, GiveUp,
             ConnectionLost

(* A call that is told success without having been served asked for        *)
(* nothing.                                                                *)
LEMMA PathSkip ==
    ASSUME PathInv, FailuresGrow, faults \in Nat, NEW r \in Requests, SkipInv(r),
           StoreUnchanged, Submit(r) \/ CallStep(r)
    PROVE  SkipInv(r)'
  <1>1. /\ \A n \in Batch[r] : row'[n] = row[n]
        /\ failing'[r] = failing[r] /\ request'[r] = request[r]
        /\ unpublished'[r] = unpublished[r] /\ accepted'[r] = accepted[r]
    BY DEF StoreUnchanged, tableVars, serverVars
  <1>2. CASE NothingToDo(r) \/ Query(r)
    <2>1. ASSUME Sends(r)' PROVE call'[r].requests = <<>>
      BY <1>2, <2>1 DEF NothingToDo, Query, Sends
    <2> QED BY <1>1, <2>1, MarksStay DEF SkipInv, FailuresGrow
  <1>3. CASE ~(NothingToDo(r) \/ Query(r))
    <2>1. answer[r] = "success" => stage[r] = "answered"
      BY DEF PathInv, StageInv
    <2>2. stage[r] # "answered"
      BY DEF Submit, CallStep, RefuseEvent, SendNotification, RefuseCall, RecoverPanic,
             NothingToDo, Query, Admit, Save, SaveFails, PublishNotification,
             MarkUnpublished, Return, GiveUp, ConnectionLost, Serving
    <2>3. /\ Told(r, "refused") # "success" /\ Told(r, "error") # "success"
      BY ToldType DEF Answers, Told
    <2>4. answer'[r] # "success"
      <3>1. answer[r] # "success" /\ answer \in [Requests -> Answers]
        BY <2>1, <2>2 DEF PathInv, PathTypeOK
      <3>2. \/ answer' = answer
            \/ \E a \in {"refused", "error"} :
                  answer' = [answer EXCEPT ![r] = a] \/ answer' = [answer EXCEPT ![r] = Told(r, a)]
        <4>1. ~Save(r) /\ ~SaveFails(r) /\ ~Return(r)
          BY DEF PathInv, PathTypeOK, ServerTypeOK, StoreUnchanged, serverVars, Save,
                 SaveRows, SaveFails, SaveRowsFails, Return, Reply
        <4> QED BY <1>3, <4>1 DEF Submit, CallStep, RefuseEvent, SendNotification,
                   RefuseCall, RecoverPanic, Admit, GiveUp, ConnectionLost, Answered,
                   PublishNotification, MarkUnpublished, pathVars
      <3> QED BY <2>3, <3>1, <3>2
    <2> QED BY <1>1, <2>4, SkipKept
  <1> QED BY <1>2, <1>3

LEMMA SaveSkip ==
    ASSUME PathInv, FailuresGrow, faults \in Nat, NEW r \in Requests, SkipInv(r),
           Save(r) \/ SaveFails(r)
    PROVE  SkipInv(r)'
  <1>1. /\ Serving(r) /\ answer[r] # "success"
        /\ failing'[r] = failing[r]
        /\ request'[r] = "publishing" => unpublished'[r] = Batch[r]
    <2>1. Serving(r) /\ answer[r] # "success"
      BY ServingAdmitted DEF Save, SaveFails
    <2> QED BY <2>1 DEF Save, SaveRows, SaveFails, SaveRowsFails, PathInv, PathTypeOK,
               ServerTypeOK
  <1>2. answer'[r] # "success"
    <2>1. CASE Save(r)
      BY <1>1, <2>1 DEF Save
    <2>2. CASE SaveFails(r)
      <3>1. Told(r, "error") # "success"
        BY DEF Told
      <3> QED BY <1>1, <2>2, <3>1 DEF SaveFails, Respond, Answered, PathInv, PathTypeOK
    <2> QED BY <2>1, <2>2
  <1> QED BY <1>1, <1>2 DEF SkipInv, FailuresGrow

(* A publish that failed is a fault, or the context of the call was done.  *)
LEMMA PublishSkip ==
    ASSUME PathInv, FailuresGrow, faults \in Nat, NEW r \in Requests, SkipInv(r),
           PublishNotification(r)
    PROVE  SkipInv(r)'
  <1>1. PICK n \in Notifications : Publish(r, n) \/ PublishFails(r, n)
    BY DEF PublishNotification
  <1>2. /\ request[r] = "publishing" /\ failing[r] = NoNotification
        /\ answer'[r] # "success"
        /\ unpublished'[r] = unpublished[r] \ {n}
        /\ \A m \in Batch[r] : row'[m] = row[m]
    <2>1. answer[r] # "success"
      BY ServingAdmitted DEF PublishNotification
    <2> QED BY <1>1, <2>1 DEF PublishNotification, Publish, PublishFails, Publishing, tableVars,
               pathVars, PathInv, PathTypeOK, ServerTypeOK
  <1>3. CASE Publish(r, n)
    <2>1. accepted'[r] = accepted[r] \cup {n} /\ failing'[r] = NoNotification
      BY <1>2, <1>3 DEF Publish, PathInv, PathTypeOK, ServerTypeOK
    <2> QED BY <1>2, <2>1, MarksStay DEF SkipInv
  <1>4. CASE PublishFails(r, n)
    <2>1. accepted'[r] = accepted[r] /\ failing'[r] = n
      BY <1>4 DEF PublishFails, PathInv, PathTypeOK, ServerTypeOK
    <2>2. r \in expired' \/ faults' >= 1
      BY <1>4 DEF PublishFails, CallFails, Fault, FailuresGrow
    <2>3. NoNotification \notin Batch[r]
      BY ServerAssumption, DeploymentAssumption
    <2>4. \A m \in Batch[r] \ (unpublished'[r] \cup accepted'[r] \cup {failing'[r]}) :
             MarkedOrWorse(r, m)'
      BY <1>2, <2>1, <2>3, MarksStay DEF SkipInv
    <2> QED BY <1>2, <2>2, <2>4 DEF SkipInv
  <1> QED BY <1>1, <1>3, <1>4

(* A mark that is missing took a second failure.                           *)
LEMMA MarkSkip ==
    ASSUME PathInv, FailuresGrow, faults \in Nat, NEW r \in Requests, SkipInv(r),
           MarkUnpublished(r)
    PROVE  SkipInv(r)'
  <1>1. /\ request[r] = "publishing" /\ failing[r] # NoNotification
        /\ failing'[r] = NoNotification
        /\ unpublished'[r] = unpublished[r] /\ accepted'[r] = accepted[r]
        /\ answer'[r] # "success"
    <2>1. answer[r] # "success"
      BY ServingAdmitted DEF MarkUnpublished
    <2> QED BY <2>1 DEF MarkUnpublished, MarkFailed, MarkFailedFails, pathVars, PathInv,
               PathTypeOK, ServerTypeOK
  <1>2. PICK f \in Batch[r] : f = failing[r]
    BY <1>1 DEF PathInv, ProgressInv
  <1>3. /\ Batch[r] \subseteq Notifications
        /\ \/ row' = [row EXCEPT ![f].status = "failed"]
           \/ row' = row /\ (r \in expired \/ faults' = faults + 1)
    BY <1>2, ServerAssumption
    DEF MarkUnpublished, MarkFailed, MarkFailedFails, CallFails, Fault, tableVars
  <1>4. row \in [Notifications -> Row]
    BY DEF PathInv, PathTypeOK
  <1>5. \A m \in Batch[r] \ {f} : row'[m] = row[m]
    BY <1>3, <1>4
  <1>6. MarkedOrWorse(r, f)'
    <2>1. CASE row' = [row EXCEPT ![f].status = "failed"]
      <3>1. row'[f] = [row[f] EXCEPT !.status = "failed"] /\ row[f] \in Row
        BY <1>3, <1>4, <2>1
      <3> QED BY <3>1 DEF MarkedOrWorse, Row
    <2>2. CASE r \in expired \/ faults' = faults + 1
      <3>1. r \in expired \/ faults >= 1
        BY <1>1 DEF SkipInv
      <3> QED BY <2>2, <3>1 DEF MarkedOrWorse, FailuresGrow
    <2> QED BY <1>3, <2>1, <2>2
  <1>7. ASSUME NEW m \in Batch[r] \ (unpublished[r] \cup accepted[r]), m # f
        PROVE  MarkedOrWorse(r, m)'
    <2>1. MarkedOrWorse(r, m)
      BY <1>1, <1>2, <1>7 DEF SkipInv
    <2> QED BY <1>5, <1>7, <2>1, MarksStay
  <1> QED BY <1>1, <1>6, <1>7 DEF SkipInv

LEMMA ReturnSkip ==
    ASSUME PathInv, FailuresGrow, faults \in Nat, NEW r \in Requests, SkipInv(r), Return(r)
    PROVE  SkipInv(r)'
  <1>1. /\ request[r] = "publishing" /\ failing[r] = NoNotification /\ unpublished[r] = {}
        /\ request'[r] = "replied" /\ failing'[r] = failing[r] /\ accepted'[r] = accepted[r]
        /\ \A n \in Batch[r] : row'[n] = row[n]
    BY DEF Return, Reply, tableVars, PathInv, PathTypeOK, ServerTypeOK
  <1>2. NoNotification \notin Batch[r]
    BY ServerAssumption, DeploymentAssumption
  <1>3. \A n \in Batch[r] \ accepted[r] : MarkedOrWorse(r, n)'
    BY <1>1, <1>2, MarksStay DEF SkipInv
  <1> QED BY <1>1, <1>3 DEF SkipInv

(* Deadlines and crashes tell nobody success.                              *)
LEMMA CrashSkip ==
    ASSUME PathInv, FailuresGrow, faults \in Nat, NEW q \in Requests, SkipInv(q),
           \/ \E r \in Requests : ContextDone(r) \/ CallerGone(r)
           \/ TellerCrash \/ EcommerceCrash \/ UNCHANGED vars
    PROVE  SkipInv(q)'
  <1>1. /\ row' = row /\ failing' = failing /\ unpublished' = unpublished /\ call' = call
    BY DEF ContextDone, CallerGone, Expire, TellerCrash, ServerCrash, EcommerceCrash,
           StoreUnchanged, vars, tableVars, serverVars, pathVars
  <1>2. /\ request'[q] = "publishing" => request[q] = "publishing"
        /\ request[q] # "publishing" \/ request'[q] = "publishing"
              => accepted'[q] = accepted[q]
    BY DEF ContextDone, CallerGone, Expire, TellerCrash, ServerCrash, EcommerceCrash,
           StoreUnchanged, vars, serverVars
  <1>3. answer'[q] = "success" => answer[q] = "success"
    BY DEF ContextDone, CallerGone, TellerCrash, EcommerceCrash, vars, pathVars
  <1>4. answer[q] = "success" => request[q] # "publishing"
    BY DEF PathInv, PathTypeOK, StageInv, Serving
  <1> QED BY <1>1, <1>2, <1>3, <1>4, SkipKept

LEMMA CallStepSkip ==
    ASSUME PathInv, FailuresGrow, faults \in Nat, NEW r \in Requests,
           Submit(r) \/ CallStep(r), NEW q \in Requests, SkipInv(q)
    PROVE  SkipInv(q)'
  <1>1. CASE q # r
    <2>1. /\ \A n \in Batch[q] : row'[n] = row[n]
          /\ failing'[q] = failing[q] /\ request'[q] = request[q]
          /\ unpublished'[q] = unpublished[q] /\ accepted'[q] = accepted[q]
          /\ answer'[q] = answer[q] /\ call'[q] = call[q]
      BY <1>1, OthersAlone
    <2> QED BY <2>1, SkipKept
  <1>2. CASE q = r
    BY <1>2, PathSkip, SaveSkip, PublishSkip, MarkSkip, ReturnSkip DEF Submit, CallStep,
       RefuseEvent, SendNotification, RefuseCall, RecoverPanic, NothingToDo, Query, Admit,
       GiveUp, ConnectionLost
  <1> QED BY <1>1, <1>2

LEMMA FailureInvHolds == Spec => []FailureInv
  <1>1. ASSUME Init PROVE FailureInv
    <2>1. \A r \in Requests : request[r] = "new" /\ failing[r] = NoNotification
                                /\ answer[r] = "none"
      BY <1>1 DEF Init, ServerInit
    <2> QED BY <1>1, <2>1 DEF Init, FailureInv, SkipInv
  <1>2. ASSUME PathInv, FailureInv, [Next]_vars PROVE FailureInv'
    <2>1. FailuresGrow
      BY <1>2, FailuresAdded DEF FailureInv
    <2>2. ASSUME NEW q \in Requests PROVE SkipInv(q)'
      BY <1>2, <2>1, CallStepSkip, CrashSkip DEF FailureInv, Next
    <2> QED BY <2>1, <2>2 DEF FailureInv, FailuresGrow
  <1> QED BY <1>1, <1>2, PathInvHolds, PTL DEF Spec

(* A bulk reply skips no notification silently unless two things failed.   *)
THEOREM SkippedNotSilent == Spec => []SkippedIsMarked
  <1>1. PathInv /\ FailureInv => SkippedIsMarked
    BY DEF PathInv, StageInv, FailureInv, SkipInv, SkippedIsMarked
  <1> QED BY <1>1, PathInvHolds, FailureInvHolds, PTL

(***************************************************************************)
(* What the validators let through.                                        *)
(***************************************************************************)

(* The teller begins only with valid requests that have a notification.    *)
LEMMA AdmittedValid ==
    ASSUME PathInv, NEW r \in Requests, Admitted(r), NEW i \in DOMAIN call[r].requests
    PROVE  /\ call[r].requests[i] \in SendToUserRequest
           /\ call[r].requests[i].notification \in Notification
           /\ RequestValid(call[r].requests[i])
  <1> DEFINE rs == call[r].requests
  <1>1. rs \in Seq(SendToUserRequest)
    BY DEF PathInv, PathTypeOK, Admitted, Sends, TellerRequest
  <1>2. rs[i] \in SendToUserRequest /\ rs[i].notification # Nil
    BY <1>1 DEF Admitted, SomeHasNone
  <1>3. ValidateSendToUserRequest(rs[i], FALSE) = {}
    <2>1. CASE call[r].method = "SendToUser"
      <3>1. DOMAIN rs = 1..1
        <4>1. Cardinality(Batch[r]) = 1
          BY <2>1, OneRequest, FS_Singleton DEF Admitted
        <4> QED BY <4>1, RequestPerNotification
      <3>2. i = 1 /\ Head(rs) = rs[1]
        BY <1>1, <3>1
      <3> QED BY <2>1, <3>2 DEF Admitted, ValidateCall
    <2>2. CASE call[r].method = "BulkSendToUser"
      <3> DEFINE rules == [j \in DOMAIN rs |->
                             Embedded("Requests", ValidateSendToUserRequest(rs[j], FALSE))]
      <3>1. Errors(call[r], rules, FALSE) = {}
        BY <2>2 DEF Admitted, ValidateCall, ValidateBulkSendToUserRequest, Each
      <3>2. call[r] # Nil
        BY DEF Admitted
      <3>3. rules[i].holds
        <4> HIDE DEF rules
        <4>1. \A j \in DOMAIN rules : rules[j].holds
          BY <3>1, <3>2, ErrorsIfBroken
        <4> QED BY <4>1 DEF rules
      <3> QED BY <3>3 DEF Embedded, Rule
    <2> QED BY <2>1, <2>2 DEF Admitted, Sends
  <1>4. rs[i].notification \in Notification
    BY <1>2 DEF SendToUserRequest
  <1> QED BY <1>2, <1>3, <1>4, RequestValidated

(* A request that the API refuses leaves nothing behind, and neither does  *)
(* any other of its call.                                                  *)
THEOREM RefusalIsClean == Spec => []RefusedLeavesNothing
  <1>1. ASSUME PathInv, NEW r \in Requests,
               \/ answer[r] = "refused"
               \/ call[r] # Nil /\ Sends(r) /\ \E i \in DOMAIN call[r].requests :
                                                   Unacceptable(call[r].requests[i])
        PROVE  \A n \in Batch[r] : row[n].status = "absent" /\ message[n] = "none"
    <2>1. ASSUME NEW i \in DOMAIN call[r].requests, Unacceptable(call[r].requests[i])
          PROVE  ~Admitted(r)
      <3> SUFFICES ASSUME Admitted(r)
                   PROVE  ~Unacceptable(call[r].requests[i])
        BY <2>1
      <3>1. /\ call[r].requests[i] \in SendToUserRequest
            /\ call[r].requests[i].notification \in Notification
            /\ RequestValid(call[r].requests[i])
        BY <1>1, <2>1, AdmittedValid
      <3> QED BY <3>1, RequestValidated, TellerMessagesAssumption DEF Unacceptable
    <2>2. request[r] = "new"
      BY <1>1, <2>1 DEF PathInv, StageInv
    <2> QED BY <1>1, <2>2 DEF PathInv, ProgressInv
  <1>2. PathInv => RefusedLeavesNothing
    BY <1>1 DEF RefusedLeavesNothing
  <1> QED BY <1>2, PathInvHolds, PTL

(***************************************************************************)
(* What becomes of an event.                                               *)
(***************************************************************************)

(* The validator of the ecommerce service asks for the parties of an event. *)
LEMMA PartiesNamed ==
    ASSUME NEW m \in EcommerceRequest, ValidateEvent(m, FALSE) = {}
    PROVE  /\ m.method \in {"SendChatMessage", "TriggerPurchase"} => m.sellerId >= 1
           /\ m.method \in {"SendPaymentReminder", "SendShippingUpdate"} => m.buyerId >= 1
  <1>1. CASE m \in SendChatMessageRequest
    <2> DEFINE rules == << NotEmpty("BuyerId", m.buyerId), NotEmpty("SellerId", m.sellerId),
                           NotEmpty("Message", m.message) >>
    <2>1. m.method = "SendChatMessage"
      BY <1>1 DEF SendChatMessageRequest
    <2>2. Errors(m, rules, FALSE) = {}
      BY <2>1 DEF ValidateEvent, ValidateSendChatMessageRequest
    <2>3. \A i \in DOMAIN rules : rules[i].holds
      BY <2>2, ErrorsIfBroken, EcommerceMessagesAssumption
    <2>4. NotEmpty("SellerId", m.sellerId).holds
      BY <2>3
    <2> QED BY <2>1, <2>4 DEF NotEmpty, Rule
  <1>2. CASE m \in TriggerPurchaseRequest
    <2> DEFINE start == << NotEmpty("BuyerId", m.buyerId), NotEmpty("SellerId", m.sellerId),
                           NotEmpty("OrderId", m.orderId), Positive("Amount", m.amount) >>
               last == [i \in DOMAIN m.items |->
                          Embedded("Items", ValidatePurchaseItem(m.items[i], FALSE))]
    <2>1. m.method = "TriggerPurchase" /\ m.items \in Seq([quantity : Int])
      BY <1>2 DEF TriggerPurchaseRequest
    <2>2. Errors(m, start \o last, FALSE) = {}
      BY <2>1 DEF ValidateEvent, ValidateTriggerPurchaseRequest, Each
    <2>3. start \in Seq(Rules)
      BY DEF NotEmpty, Positive, Rule, Rules, Fields
    <2>4. last \in Seq(Rules)
      <3>1. \A i \in DOMAIN m.items :
               Embedded("Items", ValidatePurchaseItem(m.items[i], FALSE)) \in Rules
        BY DEF Embedded, Rule, Rules, Fields
      <3>2. DOMAIN m.items = 1..Len(m.items) /\ Len(m.items) \in Nat
        BY <2>1
      <3>3. last \in [1..Len(m.items) -> Rules]
        BY <3>1, <3>2
      <3> HIDE DEF last
      <3> QED BY <3>2, <3>3
    <2>5. \A i \in DOMAIN start : start[i].holds
      <3> HIDE DEF start, last
      <3>1. \A i \in DOMAIN (start \o last) : (start \o last)[i].holds
        BY <2>2, ErrorsIfBroken, EcommerceMessagesAssumption
      <3> QED BY <2>3, <2>4, <3>1, AllHold
    <2>6. NotEmpty("SellerId", m.sellerId).holds
      BY <2>5
    <2> QED BY <2>1, <2>6 DEF NotEmpty, Rule
  <1>3. CASE m \in SendPaymentReminderRequest
    <2> DEFINE rules == << NotEmpty("BuyerId", m.buyerId), NotEmpty("OrderId", m.orderId),
                           Positive("AmountDue", m.amountDue) >>
    <2>1. m.method = "SendPaymentReminder"
      BY <1>3 DEF SendPaymentReminderRequest
    <2>2. Errors(m, rules, FALSE) = {}
      BY <2>1 DEF ValidateEvent, ValidateSendPaymentReminderRequest
    <2>3. \A i \in DOMAIN rules : rules[i].holds
      BY <2>2, ErrorsIfBroken, EcommerceMessagesAssumption
    <2>4. NotEmpty("BuyerId", m.buyerId).holds
      BY <2>3
    <2> QED BY <2>1, <2>4 DEF NotEmpty, Rule
  <1>4. CASE m \in SendShippingUpdateRequest
    <2> DEFINE rules == << NotEmpty("BuyerId", m.buyerId), NotEmpty("OrderId", m.orderId) >>
    <2>1. m.method = "SendShippingUpdate"
      BY <1>4 DEF SendShippingUpdateRequest
    <2>2. Errors(m, rules, FALSE) = {}
      BY <2>1 DEF ValidateEvent, ValidateSendShippingUpdateRequest
    <2>3. \A i \in DOMAIN rules : rules[i].holds
      BY <2>2, ErrorsIfBroken, EcommerceMessagesAssumption
    <2>4. NotEmpty("BuyerId", m.buyerId).holds
      BY <2>3
    <2> QED BY <2>1, <2>4 DEF NotEmpty, Rule
  <1> QED BY <1>1, <1>2, <1>3, <1>4 DEF EcommerceRequest

(* The destinations of an event, by its kind.                              *)
LEMMA EventDestinations ==
    ASSUME NEW m \in EcommerceRequest, ValidateEvent(m, FALSE) = {}
    PROVE  IF m.method \in {"SendChatMessage", "TriggerPurchase"}
           THEN /\ m.sellerId \in Nat /\ m.sellerId >= 1
                /\ getDestinations(EventOf(m)) =
                      << Destination("email", "seller", 7 + m.sellerId + 12),
                         Destination("push", "seller", 14 + m.sellerId) >>
           ELSE /\ m.buyerId \in Nat /\ m.buyerId >= 1
                /\ getDestinations(EventOf(m)) =
                      << Destination("push", "buyer", 13 + m.buyerId) >>
  <1>1. CASE m \in SendChatMessageRequest
    <2>1. m.method = "SendChatMessage" /\ m.sellerId \in Nat /\ m.sellerId >= 1
      BY <1>1, PartiesNamed DEF SendChatMessageRequest
    <2>2. EventOf(m).type = "ChatMessage" /\ EventOf(m).sellerId = m.sellerId
      BY <2>1 DEF EventOf, SendChatMessage, Event
    <2> QED BY <2>1, <2>2 DEF getDestinations
  <1>2. CASE m \in TriggerPurchaseRequest
    <2>1. m.method = "TriggerPurchase" /\ m.sellerId \in Nat /\ m.sellerId >= 1
      BY <1>2, PartiesNamed DEF TriggerPurchaseRequest
    <2>2. EventOf(m).type = "Purchase" /\ EventOf(m).sellerId = m.sellerId
      BY <2>1 DEF EventOf, TriggerPurchase, Event
    <2> QED BY <2>1, <2>2 DEF getDestinations
  <1>3. CASE m \in SendPaymentReminderRequest
    <2>1. m.method = "SendPaymentReminder" /\ m.buyerId \in Nat /\ m.buyerId >= 1
      BY <1>3, PartiesNamed DEF SendPaymentReminderRequest
    <2>2. EventOf(m).type = "PaymentReminder" /\ EventOf(m).buyerId = m.buyerId
      BY <2>1 DEF EventOf, SendPaymentReminder, Event
    <2> QED BY <2>1, <2>2 DEF getDestinations
  <1>4. CASE m \in SendShippingUpdateRequest
    <2>1. m.method = "SendShippingUpdate" /\ m.buyerId \in Nat /\ m.buyerId >= 1
      BY <1>4, PartiesNamed DEF SendShippingUpdateRequest
    <2>2. EventOf(m).type = "ShippingUpdate" /\ EventOf(m).buyerId = m.buyerId
      BY <2>1 DEF EventOf, SendShippingUpdate, Event
    <2> QED BY <2>1, <2>2 DEF getDestinations
  <1> QED BY <1>1, <1>2, <1>3, <1>4 DEF EcommerceRequest

LEMMA EventRoute ==
    ASSUME NEW m \in EcommerceRequest, ValidateEvent(m, FALSE) = {}
    PROVE  Route(getDestinations(EventOf(m))) = RequiredRoute(m)
  <1> DEFINE d == getDestinations(EventOf(m))
  <1>1. CASE m.method \in {"SendChatMessage", "TriggerPurchase"}
    <2>1. d = << Destination("email", "seller", 7 + m.sellerId + 12),
                 Destination("push", "seller", 14 + m.sellerId) >>
      BY <1>1, EventDestinations
    <2> HIDE DEF d
    <2>2. /\ DOMAIN d = {1, 2} /\ d[1].channel = "email" /\ d[1].to = "seller"
          /\ d[2].channel = "push" /\ d[2].to = "seller"
      BY <2>1 DEF Destination
    <2>3. Route(d) = {<<"email", "seller">>, <<"push", "seller">>}
      BY <2>2 DEF Route
    <2> QED BY <1>1, <2>3 DEF RequiredRoute, d
  <1>2. CASE m.method \notin {"SendChatMessage", "TriggerPurchase"}
    <2>1. d = << Destination("push", "buyer", 13 + m.buyerId) >>
      BY <1>2, EventDestinations
    <2> HIDE DEF d
    <2>2. DOMAIN d = {1} /\ d[1].channel = "push" /\ d[1].to = "buyer"
      BY <2>1 DEF Destination
    <2>3. Route(d) = {<<"push", "buyer">>}
      BY <2>2 DEF Route
    <2> QED BY <1>2, <2>3 DEF RequiredRoute, d
  <1> QED BY <1>1, <1>2

(* A valid destination is stored as it is.                                 *)
LEMMA DestinationsKept ==
    ASSUME NEW q \in SendToUserRequest, RequestValid(q)
    PROVE  Entity(q).channels = q.destinations
  <1>1. q.destinations \in Seq(ChannelDestination)
    BY DEF SendToUserRequest
  <1>2. ASSUME NEW i \in DOMAIN q.destinations
        PROVE  [q.destinations[i] EXCEPT !.channel = StoredChannel(@)] = q.destinations[i]
    <2>1. q.destinations[i] \in ChannelDestination
      BY <1>1
    <2>2. q.destinations[i].channel \in {"push", "email"}
      BY DEF RequestValid, DestinationValid, NotificationChannels
    <2>3. StoredChannel(q.destinations[i].channel) = q.destinations[i].channel
      BY <2>2 DEF StoredChannel
    <2> QED BY <2>1, <2>3 DEF ChannelDestination
  <1>3. Entity(q).channels = [i \in DOMAIN q.destinations |->
                                [q.destinations[i] EXCEPT !.channel = StoredChannel(@)]]
    BY DEF Entity
  <1>4. q.destinations = [i \in DOMAIN q.destinations |-> q.destinations[i]]
    BY <1>1
  <1> QED BY <1>2, <1>3, <1>4

(* What is stored fits the table, and goes where its request, or the event *)
(* it was made of, wants it to go.                                         *)
THEOREM StoredContentRight == Spec => []StoredAsAsked
  <1>1. ASSUME PathInv, NEW r \in Requests, NEW n \in Batch[r], row[n].status # "absent"
        PROVE  /\ content[n].title \in 1..255 /\ content[n].refId \in 1..255
               /\ content[n].channels # <<>>
               /\ \E i \in DOMAIN call[r].requests :
                     content[n].channels = call[r].requests[i].destinations
               /\ event[r] # Nil => Route(content[n].channels) = RequiredRoute(event[r])
    <2>1. Admitted(r)
      BY <1>1 DEF PathInv, ProgressInv, StageInv
    <2>2. PICK i \in DOMAIN call[r].requests : content[n] = Entity(call[r].requests[i])
      BY <1>1 DEF PathInv, ContentInv
    <2> DEFINE q == call[r].requests[i]
    <2>3. /\ q \in SendToUserRequest /\ q.notification \in Notification /\ RequestValid(q)
      BY <1>1, <2>1, AdmittedValid
    <2>4. NotificationValid(q.notification) /\ q.destinations # <<>>
      BY <2>3, TellerMessagesAssumption DEF RequestValid
    <2>5. content[n].channels = q.destinations
      BY <2>2, <2>3, DestinationsKept
    <2>6. content[n].title \in 1..255 /\ content[n].refId \in 1..50
      <3>1. content[n].title = q.notification.title /\ content[n].refId = q.notification.refId
        BY <2>2 DEF Entity
      <3> QED BY <2>4, <3>1 DEF NotificationValid
    <2>7. ASSUME event[r] # Nil
          PROVE  Route(q.destinations) = RequiredRoute(event[r])
      <3>1. /\ event[r] \in EcommerceRequest /\ call[r] = CallOf(event[r])
            /\ ValidateEvent(event[r], FALSE) = {}
        BY <1>1, <2>1, <2>7 DEF PathInv, PathTypeOK, CallInv, Admitted
      <3>2. q = NotificationRequest(EventOf(event[r]))
        BY <2>2, <3>1 DEF CallOf
      <3>3. q.destinations = getDestinations(EventOf(event[r]))
        BY <3>2 DEF NotificationRequest
      <3> QED BY <3>1, <3>3, EventRoute
    <2> QED BY <2>4, <2>5, <2>6, <2>7
  <1>2. PathInv => StoredAsAsked
    BY <1>1 DEF StoredAsAsked
  <1> QED BY <1>2, PathInvHolds, PTL

(***************************************************************************)
(* Where the limits of the two APIs disagree.                              *)
(***************************************************************************)

(* The request of an event holds no optional part.                         *)
LEMMA EventRequestValid ==
    ASSUME NEW m \in EcommerceRequest
    PROVE  LET e == EventOf(m)
               q == NotificationRequest(e)
           IN  /\ CallOf(m).requests = << q >> /\ q \in SendToUserRequest
               /\ RequestValid(q)
                     <=> /\ e.message \in 1..MaxBody /\ generateRefID(e) \in 1..50
                         /\ getDestinations(e) # <<>>
                         /\ \A i \in DOMAIN getDestinations(e) :
                               DestinationValid(getDestinations(e)[i])
  <1> DEFINE e == EventOf(m)
             q == NotificationRequest(e)
             d == getDestinations(e)
  <1>1. CallOf(m).requests = << q >>
    BY DEF CallOf
  <1>2. q \in SendToUserRequest
    <2>1. CallOf(m).requests \in Seq(SendToUserRequest)
      <3>1. CallOf(m).method = "SendToUser"
        BY DEF CallOf
      <3> QED BY <3>1, CallOfType DEF TellerRequest
    <2> QED BY <1>1, <2>1
  <1>3. e.type \in EventTypes
    BY EventOfType
  <1> HIDE DEF e
  <1>4. /\ q.notification.title = getNotificationTitle[e.type]
        /\ q.notification.body = e.message
        /\ q.notification.refId = generateRefID(e)
        /\ q.notification.channels = <<>> /\ q.notification.scheduleAt = "none"
        /\ q.destinations = d
    BY DEF NotificationRequest
  <1>5. q.notification # Nil
    <2>1. q.notification \in [title : {getNotificationTitle[e.type]}, body : {e.message},
                              refId : {generateRefID(e)}, channels : {<<>>},
                              scheduleAt : {"none"}]
      BY DEF NotificationRequest
    <2>2. q.notification \in Notification \cup {Nil}
      BY <1>2 DEF SendToUserRequest
    <2>3. /\ getNotificationTitle[e.type] \in Nat /\ generateRefID(e) \in Nat /\ e.message \in Nat
      <3>1. e \in [type : EventTypes, buyerId : Nat, sellerId : Nat, orderId : Nat, message : Nat]
        BY EventOfType DEF e
      <3> QED BY <3>1 DEF getNotificationTitle, generateRefID, RefPrefix, EventTypes
    <2>4. <<>> \in Seq(AnyChannel)
      OBVIOUS
    <2>5. q.notification \in Notification
      BY <2>1, <2>3, <2>4 DEF Notification, Schedules
    <2> QED BY <2>5, TellerMessagesAssumption
  <1> HIDE DEF q, d
  <1>6. getNotificationTitle[e.type] \in 1..255
    BY <1>3 DEF getNotificationTitle, EventTypes
  <1>7. NotificationValid(q.notification)
           <=> e.message \in 1..MaxBody /\ generateRefID(e) \in 1..50
    <2>1. \A i \in DOMAIN <<>> : <<>>[i] \in NotificationChannels
      OBVIOUS
    <2> QED BY <1>4, <1>6, <2>1 DEF NotificationValid
  <1>8. RequestValid(q)
           <=> /\ e.message \in 1..MaxBody /\ generateRefID(e) \in 1..50
               /\ d # <<>> /\ \A i \in DOMAIN d : DestinationValid(d[i])
    BY <1>4, <1>5, <1>7 DEF RequestValid
  <1> QED BY <1>1, <1>2, <1>8 DEF e, q, d

(* A body of at least one rune fits if it has at most ten thousand.        *)
LEMMA BodyLimit ==
    ASSUME NEW length \in Nat, length >= 1
    PROVE  length \in 1..MaxBody <=> length <= 10000
  <1>1. MaxBody = 10000
    BY DEF MaxBody
  <1>2. length \in 1..MaxBody => length <= 10000
    BY <1>1
  <1>3. length <= 10000 => length \in 1..MaxBody
    BY <1>1
  <1> QED BY <1>2, <1>3

(* For each event, the lengths that matter and the limits they meet.       *)
LEMMA EventFits ==
    ASSUME NEW m \in EcommerceRequest, ValidateEvent(m, FALSE) = {}
    PROVE  RequestValid(NotificationRequest(EventOf(m))) <=> Fits(m)
  <1> DEFINE e == EventOf(m)
             d == getDestinations(e)
  <1>1. RequestValid(NotificationRequest(e))
           <=> /\ e.message \in 1..MaxBody /\ generateRefID(e) \in 1..50
               /\ d # <<>> /\ \A i \in DOMAIN d : DestinationValid(d[i])
    BY EventRequestValid
  <1>2. CASE m.method \in {"SendChatMessage", "TriggerPurchase"}
    <2>1. /\ m.sellerId \in Nat /\ m.sellerId >= 1
          /\ d = << Destination("email", "seller", 7 + m.sellerId + 12),
                    Destination("push", "seller", 14 + m.sellerId) >>
      BY <1>2, EventDestinations
    <2> HIDE DEF d
    <2>2. /\ DOMAIN d = {1, 2} /\ d # <<>>
          /\ d[1].channel = "email" /\ d[1].destination = 19 + m.sellerId
          /\ d[2].channel = "push" /\ d[2].destination = 14 + m.sellerId
      BY <2>1 DEF Destination
    <2>3. /\ DestinationValid(d[1]) <=> m.sellerId <= 236
          /\ DestinationValid(d[2]) <=> m.sellerId <= 241
      BY <2>1, <2>2 DEF DestinationValid, NotificationChannels
    <2>4. (\A i \in DOMAIN d : DestinationValid(d[i])) <=> m.sellerId <= 236
      BY <2>1, <2>2, <2>3
    <2>5. CASE m \in SendChatMessageRequest
      <3>1. m.method = "SendChatMessage" /\ m.message \in Nat
        BY <2>5 DEF SendChatMessageRequest
      <3>2. e.type = "ChatMessage" /\ e.orderId = 0 /\ e.message = 24 + m.message
        BY <3>1 DEF EventOf, SendChatMessage, Event, BodyText
      <3>3. generateRefID(e) = 13
        BY <3>2 DEF generateRefID, RefPrefix
      <3>4. e.message \in 1..MaxBody <=> m.message <= 9976
        <4>1. e.message \in Nat /\ e.message >= 1
          BY <3>1, <3>2
        <4>2. e.message <= 10000 <=> m.message <= 9976
          BY <3>1, <3>2
        <4> QED BY <4>1, <4>2, BodyLimit
      <3>5. Fits(m) <=> m.message <= 9976 /\ m.sellerId <= 236
        BY <3>1 DEF Fits
      <3> QED BY <1>1, <2>2, <2>4, <3>3, <3>4, <3>5
    <2>6. CASE m \in TriggerPurchaseRequest
      <3> DEFINE count == Digits(ItemCount(m.items))
      <3>1. /\ m.method = "TriggerPurchase" /\ m.orderId \in Nat
            /\ m.amount.printed \in 1..313 /\ count \in 1..12
        BY <2>6, DigitsType DEF TriggerPurchaseRequest, Double
      <3>2. /\ e.type = "Purchase" /\ e.orderId = m.orderId
            /\ e.message = 43 + (m.orderId + m.amount.printed + count)
        BY <3>1 DEF EventOf, TriggerPurchase, Event, BodyText
      <3> HIDE DEF count
      <3>3. generateRefID(e) = 9 + (IF m.orderId > 0 THEN m.orderId + 11 ELSE 8)
        BY <3>1, <3>2 DEF generateRefID, RefPrefix
      <3>4. generateRefID(e) \in 1..50 <=> m.orderId <= 30
        BY <3>1, <3>3
      <3>5. m.orderId <= 30 => e.message \in 1..MaxBody
        <4>1. /\ m.amount.printed \in Nat /\ m.amount.printed <= 313
              /\ count \in Nat /\ count <= 12
          BY <3>1
        <4>2. e.message \in Nat /\ e.message >= 1
          BY <3>1, <3>2, <4>1
        <4>3. m.orderId <= 30 => e.message <= 10000
          BY <3>1, <3>2, <4>1
        <4> QED BY <4>2, <4>3, BodyLimit
      <3>6. Fits(m) <=> m.orderId <= 30 /\ m.sellerId <= 236
        BY <3>1 DEF Fits
      <3> QED BY <1>1, <2>2, <2>4, <3>4, <3>5, <3>6
    <2> QED BY <1>2, <2>5, <2>6 DEF EcommerceRequest, SendPaymentReminderRequest,
               SendShippingUpdateRequest
  <1>3. CASE m.method \notin {"SendChatMessage", "TriggerPurchase"}
    <2>1. /\ m.buyerId \in Nat /\ m.buyerId >= 1
          /\ d = << Destination("push", "buyer", 13 + m.buyerId) >>
      BY <1>3, EventDestinations
    <2> HIDE DEF d
    <2>2. /\ DOMAIN d = {1} /\ d # <<>>
          /\ d[1].channel = "push" /\ d[1].destination = 13 + m.buyerId
      BY <2>1 DEF Destination
    <2>3. DestinationValid(d[1]) <=> m.buyerId <= 242
      BY <2>1, <2>2 DEF DestinationValid, NotificationChannels
    <2>4. (\A i \in DOMAIN d : DestinationValid(d[i])) <=> m.buyerId <= 242
      BY <2>2, <2>3
    <2>5. CASE m \in SendPaymentReminderRequest
      <3>1. /\ m.method = "SendPaymentReminder" /\ m.orderId \in Nat /\ m.dueDate \in Nat
            /\ m.amountDue.printed \in 1..313
        BY <2>5 DEF SendPaymentReminderRequest, Double
      <3>2. /\ e.type = "PaymentReminder" /\ e.orderId = m.orderId
            /\ e.message = 39 + (m.amountDue.printed + m.dueDate + m.orderId)
        BY <3>1 DEF EventOf, SendPaymentReminder, Event, BodyText
      <3>3. generateRefID(e) = 8 + (IF m.orderId > 0 THEN m.orderId + 11 ELSE 8)
        BY <3>1, <3>2 DEF generateRefID, RefPrefix
      <3>4. generateRefID(e) \in 1..50 <=> m.orderId <= 31
        BY <3>1, <3>3
      <3>5. e.message \in 1..MaxBody
               <=> m.orderId + m.amountDue.printed + m.dueDate <= 9961
        <4>1. e.message \in Nat /\ e.message >= 1
          BY <3>1, <3>2
        <4>2. m.amountDue.printed \in Nat
          BY <3>1
        <4>3. /\ e.message <= 10000 => m.orderId + m.amountDue.printed + m.dueDate <= 9961
              /\ m.orderId + m.amountDue.printed + m.dueDate <= 9961 => e.message <= 10000
          BY <3>1, <3>2, <4>2
        <4> QED BY <4>1, <4>3, BodyLimit
      <3>6. Fits(m) <=> /\ m.orderId <= 31 /\ m.buyerId <= 242
                        /\ m.orderId + m.amountDue.printed + m.dueDate <= 9961
        BY <3>1 DEF Fits
      <3> QED BY <1>1, <2>2, <2>4, <3>4, <3>5, <3>6
    <2>6. CASE m \in SendShippingUpdateRequest
      <3> DEFINE text == StatusMessage(m.status)
      <3>1. /\ m.method = "SendShippingUpdate" /\ m.orderId \in Nat
            /\ m.trackingNumber \in Nat /\ m.carrier \in Nat /\ text \in Nat
        BY <2>6 DEF SendShippingUpdateRequest, StatusMessage
      <3>2. /\ e.type = "ShippingUpdate" /\ e.orderId = m.orderId
            /\ e.message = 25 + (text + m.orderId + m.trackingNumber + m.carrier)
        BY <3>1 DEF EventOf, SendShippingUpdate, Event, BodyText
      <3>3. generateRefID(e) = 9 + (IF m.orderId > 0 THEN m.orderId + 11 ELSE 8)
        BY <3>1, <3>2 DEF generateRefID, RefPrefix
      <3>4. Fits(m) <=> /\ m.orderId <= 30 /\ m.buyerId <= 242
                        /\ text + m.orderId + m.trackingNumber + m.carrier <= 9975
        BY <3>1 DEF Fits
      <3> HIDE DEF text
      <3>5. generateRefID(e) \in 1..50 <=> m.orderId <= 30
        BY <3>1, <3>3
      <3>6. e.message \in 1..MaxBody
               <=> text + m.orderId + m.trackingNumber + m.carrier <= 9975
        <4>1. e.message \in Nat /\ e.message >= 1
          BY <3>1, <3>2
        <4>2. e.message <= 10000
                 <=> text + m.orderId + m.trackingNumber + m.carrier <= 9975
          BY <3>1, <3>2
        <4> QED BY <4>1, <4>2, BodyLimit
      <3> QED BY <1>1, <2>2, <2>4, <3>4, <3>5, <3>6
    <2> QED BY <1>3, <2>5, <2>6 DEF EcommerceRequest, SendChatMessageRequest,
               TriggerPurchaseRequest
  <1> QED BY <1>2, <1>3

(* Of the events that the ecommerce service accepts, the teller refuses    *)
(* exactly those whose texts or ids are too long for its own limits.       *)
THEOREM LimitsAreTheseOnly == Spec => []EventsFit
  <1>1. ASSUME PathInv, NEW r \in Requests, event[r] # Nil, call[r] # Nil
        PROVE  ValidateCall(call[r], TRUE) = {} <=> Fits(event[r])
    <2> DEFINE m == event[r]
               q == NotificationRequest(EventOf(m))
    <2>1. /\ m \in EcommerceRequest /\ call[r] = CallOf(m)
          /\ ValidateEvent(m, FALSE) = {}
      BY <1>1 DEF PathInv, PathTypeOK, CallInv
    <2>2. CallOf(m).requests = << q >> /\ q \in SendToUserRequest
      BY <2>1, EventRequestValid
    <2>3. CallOf(m).method = "SendToUser"
      BY DEF CallOf
    <2>4. ValidateCall(call[r], TRUE) = ValidateSendToUserRequest(q, TRUE)
      BY <2>1, <2>2, <2>3 DEF ValidateCall
    <2>5. ValidateSendToUserRequest(q, TRUE) = {} <=> RequestValid(q)
      BY <2>2, RequestValidated
    <2> QED BY <2>1, <2>4, <2>5, EventFits
  <1>2. PathInv => EventsFit
    BY <1>1 DEF EventsFit
  <1> QED BY <1>2, PathInvHolds, PTL
=============================================================================
