------------------------------ MODULE EventPath ------------------------------
(***************************************************************************)
(* A call on its way: a client of the ecommerce service or of the teller,  *)
(* the ecommerce handler, the teller's middleware (recovery, validator)    *)
(* and its handlers around NotificationServer.  A deadline or a lost       *)
(* connection ends the wait of the caller, not the work of the teller.     *)
(* Workers play no part: what is stored and published here is where the    *)
(* module Teller begins.                                                   *)
(***************************************************************************)
EXTENDS NotificationServer, NATSPubSub, Ecommerce, SequencesExt

CONSTANTS
    Submissions,   \* what each call may be: requests of either API, or Garbled
    Garbled        \* a request body that cannot be decoded

(* The requests of the teller's API; names is the row a query asks for. *)
TellerRequest ==
    [method : {"SendToUser", "BulkSendToUser"}, requests : Seq(SendToUserRequest)]
    \cup [method : {"GetNotificationStatus"}, notificationId : Nat,
          names : Notifications \cup {NoNotification}]
    \cup [method : {"Boardcast"}, notification : Notification \cup {Nil}]

(* A call has one notification for each request it makes of the teller. *)
ASSUME PathAssumption ==
    /\ Submissions \in [Requests -> SUBSET (EcommerceRequest \cup TellerRequest \cup {Garbled})]
    /\ Nil \notin TellerRequest \cup {Garbled}
    /\ \A r \in Requests : IsFiniteSet(Batch[r])
    /\ \A r \in Requests : \A m \in Submissions[r] \ {Garbled} :
          /\ m.method \in EventMethods \cup {"SendToUser"} => \E n \in Batch[r] : Batch[r] = {n}
          /\ m.method = "SendToUser" => Len(m.requests) = 1
          /\ m.method = "BulkSendToUser" => Len(m.requests) \in {0, Cardinality(Batch[r])}

VARIABLES
    stage,     \* where each call stands
    event,     \* the ecommerce request it began with, or Nil
    call,      \* the teller request, or Nil
    answer,    \* what its client was told
    listed,    \* the notification ids in that answer
    content    \* title, body, ref_id, schedule_at and channels of each row

pathVars == <<stage, event, call, answer, listed, content>>
vars == <<faults, tableVars, serverVars, natsVars, pathVars>>

(***************************************************************************)
(* "idle"; "received": decoded by the ecommerce service; "calling": sent   *)
(* to the teller; "serving": in a handler of the teller; "abandoned": the  *)
(* same, but nobody waits for it; "lost": the teller died; "answered".     *)
(***************************************************************************)
Stages == {"idle", "received", "calling", "serving", "abandoned", "lost", "answered"}

(* "refused": an error of codec or validator; "error": any other error;    *)
(* "failure": the ecommerce service's success: false.                      *)
Answers == {"none", "success", "failure", "refused", "error"}

Init ==
    /\ faults = 0
    /\ TableInit /\ ServerInit /\ NATSInit
    /\ stage = [r \in Requests |-> "idle"]
    /\ event = [r \in Requests |-> Nil] /\ call = [r \in Requests |-> Nil]
    /\ answer = [r \in Requests |-> "none"]
    /\ listed = [r \in Requests |-> {}]
    /\ content = [n \in Notifications |-> Nil]

ToStage(r, s) == stage' = [stage EXCEPT ![r] = s]

Answered(r, a) == ToStage(r, "answered") /\ answer' = [answer EXCEPT ![r] = a]

StoreUnchanged == UNCHANGED <<tableVars, serverVars, natsVars, content>>

(***************************************************************************)
(* The ecommerce service.                                                  *)
(***************************************************************************)

(* Fault injection: an error of the teller is not passed on. *)
SuccessAnyway(r, result) ==
    IF event[r] # Nil THEN "success" ELSE result

(* What the client of r is told when the teller's answer is result. *)
Told(r, result) ==
    IF event[r] # Nil /\ result # "success" THEN "failure" ELSE result

(* A client calls either service; a handler decodes the body first. *)
Submit(r) ==
    /\ stage[r] = "idle"
    /\ \E m \in Submissions[r] :
          \/ m = Garbled /\ Answered(r, "refused") /\ UNCHANGED <<event, call>>
          \/ /\ m # Garbled /\ m.method \in EventMethods
             /\ event' = [event EXCEPT ![r] = m]
             /\ ToStage(r, "received") /\ UNCHANGED <<call, answer>>
          \/ /\ m # Garbled /\ m.method \notin EventMethods
             /\ call' = [call EXCEPT ![r] = m]
             /\ ToStage(r, "calling") /\ UNCHANGED <<event, answer>>
    /\ UNCHANGED <<faults, listed>> /\ StoreUnchanged

(* The validator of the ecommerce service. *)
RefuseEvent(r) ==
    /\ stage[r] = "received"
    /\ ValidateEvent(event[r], FALSE) # {}
    /\ Answered(r, "refused")
    /\ UNCHANGED <<faults, event, call, listed>> /\ StoreUnchanged

(* The call of SendToUser that an event becomes. *)
CallOf(m) ==
    [method |-> "SendToUser", requests |-> << NotificationRequest(EventOf(m)) >>]

(* Its handler, up to that call. *)
SendNotification(r) ==
    /\ stage[r] = "received"
    /\ ValidateEvent(event[r], FALSE) = {}
    /\ call' = [call EXCEPT ![r] = CallOf(event[r])]
    /\ ToStage(r, "calling")
    /\ UNCHANGED <<faults, event, answer, listed>> /\ StoreUnchanged

(***************************************************************************)
(* The teller: middleware and handlers that store nothing.                 *)
(***************************************************************************)
ValidateCall(c, all) ==
    CASE c.method = "SendToUser" -> ValidateSendToUserRequest(Head(c.requests), all)
      [] c.method = "BulkSendToUser" -> ValidateBulkSendToUserRequest(c, all)
      [] c.method = "Boardcast" -> ValidateBoardcastRequest(c, all)
      [] c.method = "GetNotificationStatus" ->
             ValidateGetNotificationStatusRequest(c, all)

RefuseCall(r) ==
    /\ stage[r] = "calling"
    /\ ValidateCall(call[r], FALSE) # {}
    /\ Answered(r, Told(r, "refused"))
    /\ UNCHANGED <<faults, event, call, listed>> /\ StoreUnchanged

Sends(r) == call[r].method \in {"SendToUser", "BulkSendToUser"}

(* prepareNotification dereferences the notification of every request. *)
SomeHasNone(requests) == \E i \in DOMAIN requests : requests[i].notification = Nil

(* Fault injection: a panic is not recovered. *)
NeverRecovered(r) == FALSE /\ UNCHANGED vars

(* The panic is recovered by the middleware and becomes an error. *)
RecoverPanic(r) ==
    /\ stage[r] = "calling" /\ ValidateCall(call[r], FALSE) = {}
    /\ Sends(r) /\ SomeHasNone(call[r].requests)
    /\ Answered(r, Told(r, "error"))
    /\ UNCHANGED <<faults, event, call, listed>> /\ StoreUnchanged

(* Boardcast does nothing; neither does BulkSendToUser without a request. *)
NothingToDo(r) ==
    /\ stage[r] = "calling" /\ ValidateCall(call[r], FALSE) = {}
    /\ call[r].method = "Boardcast" \/ (Sends(r) /\ call[r].requests = <<>>)
    /\ Answered(r, "success")
    /\ UNCHANGED <<faults, event, call, listed>> /\ StoreUnchanged

(* GetNotificationStatus finds the row it is asked for, or fails. *)
Query(r) ==
    /\ stage[r] = "calling" /\ ValidateCall(call[r], FALSE) = {}
    /\ call[r].method = "GetNotificationStatus"
    /\ \/ /\ Answered(r, IF \E n \in Notifications :
                              call[r].names = n /\ row[n].status # "absent"
                         THEN "success" ELSE "error")
          /\ UNCHANGED faults
       \/ Answered(r, "error") /\ CallFails(r)
    /\ UNCHANGED <<event, call, listed>> /\ StoreUnchanged

Admit(r) ==
    /\ stage[r] = "calling" /\ ValidateCall(call[r], FALSE) = {}
    /\ Sends(r) /\ call[r].requests # <<>> /\ ~SomeHasNone(call[r].requests)
    /\ ToStage(r, "serving")
    /\ UNCHANGED <<faults, event, call, answer, listed>> /\ StoreUnchanged

(***************************************************************************)
(* The teller: SendToUser and BulkSendToUser.                              *)
(***************************************************************************)
Serving(r) == stage[r] \in {"serving", "abandoned"}

(* The teller's answer reaches a caller that still waits. *)
Respond(r, result, ids) ==
    IF stage[r] = "serving"
    THEN Answered(r, Told(r, result)) /\ listed' = [listed EXCEPT ![r] = ids]
    ELSE ToStage(r, "answered") /\ UNCHANGED <<answer, listed>>

(* convertProtoChannelToConstant. *)
StoredChannel(channel) == IF channel = "push" THEN "push" ELSE "email"

(* The columns of a row that only its call reads. *)
Content ==
    [title : Nat, body : Nat, refId : Nat, scheduleAt : Schedules,
     channels : Seq(ChannelDestination)]

(* prepareNotification's entity. *)
Entity(q) ==
    [title |-> q.notification.title, body |-> q.notification.body,
     refId |-> q.notification.refId, scheduleAt |-> q.notification.scheduleAt,
     channels |-> [i \in DOMAIN q.destinations |->
         [q.destinations[i] EXCEPT !.channel = StoredChannel(@)]]]

(* The notifications of the call, in the order of its requests. *)
Ids(r) == SetToSeq(Batch[r])

(* The rows that this step inserts get the content of their request. *)
StoreContent(r) ==
    content' = [n \in Notifications |->
        IF row'[n] = row[n] THEN content[n]
        ELSE Entity(call[r].requests[CHOOSE i \in DOMAIN Ids(r) : Ids(r)[i] = n])]

Save(r) ==
    /\ Serving(r)
    /\ SaveRows(r)
    /\ StoreContent(r)
    /\ UNCHANGED <<natsVars, stage, event, call, answer, listed>>

SaveFails(r) ==
    /\ Serving(r)
    /\ SaveRowsFails(r)
    /\ StoreContent(r)
    /\ Respond(r, "error", {})
    /\ UNCHANGED <<natsVars, event, call>>

PublishNotification(r) ==
    /\ Serving(r)
    /\ \E n \in Notifications :
          \/ Publish(r, n) /\ Enqueue(n)
          \/ PublishFails(r, n) /\ (Enqueue(n) \/ UNCHANGED natsVars)
    /\ UNCHANGED pathVars

MarkUnpublished(r) ==
    /\ Serving(r)
    /\ MarkFailed(r) \/ MarkFailedFails(r)
    /\ UNCHANGED <<natsVars, pathVars>>

(* SendToUser answers an error if its publish failed, BulkSendToUser lists *)
(* the ids that are left, be it none.                                      *)
Return(r) ==
    /\ Serving(r)
    /\ Reply(r)
    /\ Respond(r,
          IF call[r].method = "SendToUser" /\ accepted[r] = {} THEN "error" ELSE "success",
          accepted[r])
    /\ UNCHANGED <<natsVars, event, call, content>>

(***************************************************************************)
(* Deadlines and crashes.                                                  *)
(***************************************************************************)

(* The context of a call is done, with that of every call it made: its     *)
(* deadline passed, or the connection to its client broke.                 *)
ContextDone(r) ==
    /\ stage[r] \in {"received", "calling", "serving"}
    /\ Expire(r)
    /\ UNCHANGED <<natsVars, pathVars>>

(* The teller notices that the caller of an abandoned call is gone. *)
CallerGone(r) ==
    /\ stage[r] = "abandoned" /\ r \notin expired
    /\ request[r] \in {"new", "publishing"}
    /\ expired' = expired \cup {r}
    /\ UNCHANGED <<faults, tableVars, request, unpublished, failing, accepted,
                   natsVars, pathVars>>

(* Fault injection: the call is closed under the handler that works on it. *)
GiveUpEnds(r) ==
    /\ stage[r] \in {"calling", "serving"} /\ r \in expired
    /\ Answered(r, Told(r, "error"))
    /\ UNCHANGED <<faults, event, call, listed>> /\ StoreUnchanged

(* The caller stops waiting; what the teller has begun goes on. *)
GiveUp(r) ==
    /\ stage[r] \in {"calling", "serving"} /\ r \in expired
    /\ answer' = [answer EXCEPT ![r] = Told(r, "error")]
    /\ ToStage(r, IF stage[r] = "serving" THEN "abandoned" ELSE "answered")
    /\ UNCHANGED <<faults, event, call, listed>> /\ StoreUnchanged

(* The teller dies with every call it serves. *)
TellerCrash ==
    /\ \E r \in Requests : Serving(r)
    /\ \/ ServerCrash
       \/ /\ \A r \in Requests : request[r] # "publishing"
          /\ Fault /\ UNCHANGED <<tableVars, serverVars>>
    /\ stage' = [r \in Requests |->
                   CASE stage[r] = "serving" -> "lost"
                     [] stage[r] = "abandoned" -> "answered"
                     [] OTHER -> stage[r]]
    /\ UNCHANGED <<natsVars, event, call, answer, listed, content>>

(* The caller sees its connection break. *)
ConnectionLost(r) ==
    /\ stage[r] = "lost"
    /\ Answered(r, Told(r, "error"))
    /\ UNCHANGED <<faults, event, call, listed>> /\ StoreUnchanged

(* The ecommerce service dies with every event it handles. *)
EcommerceCrash ==
    LET hit == {r \in Requests :
                  event[r] # Nil /\ stage[r] \in {"received", "calling", "serving", "lost"}}
    IN  /\ hit # {}
        /\ Fault
        /\ answer' = [r \in Requests |-> IF r \in hit THEN "error" ELSE answer[r]]
        /\ stage' = [r \in Requests |->
                       IF r \notin hit THEN stage[r]
                       ELSE IF stage[r] = "serving" THEN "abandoned" ELSE "answered"]
        /\ UNCHANGED <<event, call, listed>> /\ StoreUnchanged

CallStep(r) ==
    \/ RefuseEvent(r) \/ SendNotification(r)
    \/ RefuseCall(r) \/ RecoverPanic(r) \/ NothingToDo(r) \/ Query(r) \/ Admit(r)
    \/ Save(r) \/ SaveFails(r) \/ PublishNotification(r) \/ MarkUnpublished(r) \/ Return(r)
    \/ GiveUp(r) \/ ConnectionLost(r)

Next ==
    \/ \E r \in Requests : Submit(r) \/ CallStep(r) \/ ContextDone(r) \/ CallerGone(r)
    \/ TellerCrash \/ EcommerceCrash

Spec == Init /\ [][Next]_vars

(* A call under way goes on; nobody has to make one, and nothing to fail. *)
FairSpec == Spec /\ \A r \in Requests : WF_vars(CallStep(r))
=============================================================================
