--------------------------- MODULE EventProperties ---------------------------
(***************************************************************************)
(* What the callers of the two services may rely on.                       *)
(***************************************************************************)
EXTENDS EventPath

(* Types, and the stages of a call agree on both sides: a handler of the   *)
(* teller runs only for a call it admitted, and a call that ended was      *)
(* answered.                                                               *)
PathTypeOK ==
    /\ ServerTypeOK /\ NATSTypeOK
    /\ row \in [Notifications -> Row]
    /\ stage \in [Requests -> Stages] /\ answer \in [Requests -> Answers]
    /\ event \in [Requests -> EcommerceRequest \cup {Nil}]
    /\ call \in [Requests -> TellerRequest \cup {Nil}]
    /\ listed \in [Requests -> SUBSET Notifications]
    /\ content \in [Notifications -> Content \cup {Nil}]
    /\ \A r \in Requests :
          /\ request[r] = "publishing" => Serving(r)
          /\ stage[r] = "answered" => answer[r] # "none"
          /\ Serving(r) => call[r] # Nil

(* A caller that is told success may rely on it: every id it was given     *)
(* belongs to a row that is stored, not marked failed, and whose message   *)
(* is in the stream, and SendToUser and the four events return exactly one.*)
(* The contrary does not hold: a failure may hide a stored notification.   *)
SuccessIsStored ==
    \A r \in Requests :
        answer[r] = "success" /\ Sends(r) =>
            /\ call[r].method = "SendToUser" => Cardinality(listed[r]) = 1
            /\ \A n \in listed[r] :
                  n \in Batch[r] /\ row[n].status = "pending" /\ message[n] # "none"

(* A bulk reply skips the notifications whose publish failed.  One failure *)
(* never makes it skip a notification silently: its row says failed,       *)
(* unless UpdateStatus failed as well, by a failure of its own or because  *)
(* the deadline that stopped the publish stopped it too.                   *)
MarkedOrWorse(r, n) == row[n].status = "failed" \/ r \in expired \/ faults >= 2

SkippedIsMarked ==
    \A r \in Requests :
        answer[r] = "success" /\ Sends(r) =>
            \/ call[r].requests = <<>>
            \/ \A n \in Batch[r] \ listed[r] : MarkedOrWorse(r, n)

(* A request that breaks a rule of the API, or that panics in the handler, *)
(* leaves no trace, whatever other requests share its bulk call.           *)
Unacceptable(q) == q.notification = Nil \/ ValidateSendToUserRequest(q, TRUE) # {}

RefusedLeavesNothing ==
    \A r \in Requests :
        \/ answer[r] = "refused"
        \/ call[r] # Nil /\ Sends(r) /\ \E i \in DOMAIN call[r].requests :
                                            Unacceptable(call[r].requests[i])
        => \A n \in Batch[r] : row[n].status = "absent" /\ message[n] = "none"

(* docs/ARCHITECTURE.md, "Required Events": who is to be told of an event, *)
(* and on which channels.                                                  *)
RequiredRoute(e) ==
    IF e.method \in {"SendChatMessage", "TriggerPurchase"}
    THEN {<<"email", "seller">>, <<"push", "seller">>}
    ELSE {<<"push", "buyer">>}

Route(channels) ==
    {<<channels[i].channel, channels[i].to>> : i \in DOMAIN channels}

(* A stored row fits the columns of the table, keeps the destinations of   *)
(* its request in their order and on their channels (an unknown channel    *)
(* would silently become e-mail), and that of an event goes where the      *)
(* requirements send it.                                                   *)
StoredAsAsked ==
    \A r \in Requests : \A n \in Batch[r] :
        row[n].status # "absent" =>
            /\ content[n].title \in 1..255 /\ content[n].refId \in 1..255
            /\ content[n].channels # <<>>
            /\ \E i \in DOMAIN call[r].requests :
                  content[n].channels = call[r].requests[i].destinations
            /\ event[r] # Nil => Route(content[n].channels) = RequiredRoute(event[r])

(* What an event may hold so that the notification made of it is within    *)
(* the limits of the teller.                                               *)
Fits(e) ==
    CASE e.method = "SendChatMessage" -> e.message <= 9976 /\ e.sellerId <= 236
      [] e.method = "TriggerPurchase" -> e.orderId <= 30 /\ e.sellerId <= 236
      [] e.method = "SendPaymentReminder" ->
             /\ e.orderId <= 31 /\ e.buyerId <= 242
             /\ e.orderId + e.amountDue.printed + e.dueDate <= 9961
      [] e.method = "SendShippingUpdate" ->
             /\ e.orderId <= 30 /\ e.buyerId <= 242
             /\ StatusMessage(e.status) + e.orderId + e.trackingNumber + e.carrier <= 9975

(* An event that passes the validator of the ecommerce service is refused  *)
(* by the teller's exactly if one of those lengths is exceeded: the two    *)
(* APIs disagree on nothing else.  An order id of 36 characters, a UUID,   *)
(* is always too long.                                                     *)
EventsFit ==
    \A r \in Requests :
        event[r] # Nil /\ call[r] # Nil =>
            (ValidateCall(call[r], TRUE) = {} <=> Fits(event[r]))

(* Whatever the request, and whichever process dies or deadline passes,    *)
(* every caller gets an answer and every handler ends.                     *)
EveryCallIsAnswered ==
    \A r \in Requests :
        stage[r] # "idle" ~> stage[r] = "answered" /\ answer[r] # "none"

(***************************************************************************)
(* The inductive invariant.  How far the teller is with a call: an id is   *)
(* in exactly one of the places its loop puts it, and an accepted one has  *)
(* its message in the stream and a row that no publish marked.             *)
(***************************************************************************)
ProgressInv(r) ==
    /\ unpublished[r] \cup accepted[r] \subseteq Batch[r]
    /\ unpublished[r] \cap accepted[r] = {}
    /\ failing[r] \in Batch[r] \cup {NoNotification}
    /\ failing[r] \notin unpublished[r] \cup accepted[r]
    /\ request[r] = "new" =>
          /\ accepted[r] = {} /\ failing[r] = NoNotification
          /\ \A n \in Batch[r] : row[n].status = "absent" /\ message[n] = "none"
    /\ request[r] = "publishing" => /\ \A n \in Batch[r] : row[n].status # "absent"
                                   /\ \A n \in unpublished[r] : row[n].status = "pending"
    /\ \A n \in accepted[r] : row[n].status = "pending" /\ message[n] # "none"

(* Which requests a call consists of, and what the validators made of them. *)
Admitted(r) ==
    /\ call[r] # Nil /\ Sends(r)
    /\ ValidateCall(call[r], FALSE) = {}
    /\ call[r].requests # <<>> /\ ~SomeHasNone(call[r].requests)

CallInv(r) ==
    /\ event[r] = Nil \/ event[r] \in Submissions[r] \ {Garbled}
    /\ event[r] # Nil => event[r].method \in EventMethods
    /\ event[r] # Nil /\ call[r] # Nil =>
          call[r] = CallOf(event[r]) /\ ValidateEvent(event[r], FALSE) = {}
    /\ event[r] = Nil /\ call[r] # Nil =>
          call[r] \in Submissions[r] \ {Garbled} /\ call[r].method \notin EventMethods

(* Where a call stands: the teller begins only with what it admitted, and  *)
(* every answer tells what happened to the request.                        *)
StageInv(r) ==
    /\ stage[r] \in {"idle", "received", "calling"} => request[r] = "new"
    /\ stage[r] \in {"idle", "received"} => call[r] = Nil
    /\ stage[r] = "idle" => event[r] = Nil
    /\ stage[r] = "received" => event[r] # Nil
    /\ stage[r] = "calling" => call[r] # Nil
    /\ Serving(r) \/ request[r] # "new" => Admitted(r)
    /\ answer[r] \in {"success", "refused"} => stage[r] = "answered"
    /\ stage[r] # "answered" => listed[r] = {}
    /\ stage[r] = "abandoned" => answer[r] # "none"
    /\ answer[r] = "refused" => request[r] = "new"
    /\ answer[r] = "success" => call[r] # Nil
    /\ answer[r] = "success" /\ Sends(r) =>
          /\ listed[r] = accepted[r]
          /\ call[r].method = "SendToUser" => accepted[r] # {}

(* The content of a row is that of the request it was made of.             *)
ContentInv(r) ==
    \A n \in Batch[r] : row[n].status # "absent" =>
        \E i \in DOMAIN call[r].requests : content[n] = Entity(call[r].requests[i])

PathInv ==
    /\ PathTypeOK
    /\ \A r \in Requests : ProgressInv(r) /\ CallInv(r) /\ StageInv(r) /\ ContentInv(r)

(***************************************************************************)
(* How the publishes of a call failed: one that did was a fault, unless    *)
(* the call's context was done, and one that was dealt with left its mark. *)
(***************************************************************************)
SkipInv(r) ==
    /\ failing[r] # NoNotification => r \in expired \/ faults >= 1
    /\ request[r] = "publishing" =>
          \A n \in Batch[r] \ (unpublished[r] \cup accepted[r] \cup {failing[r]}) :
              MarkedOrWorse(r, n)
    /\ answer[r] = "success" /\ Sends(r) =>
          \/ call[r].requests = <<>>
          \/ \A n \in Batch[r] \ accepted[r] : MarkedOrWorse(r, n)

FailureInv == faults \in Nat /\ \A r \in Requests : SkipInv(r)
=============================================================================
