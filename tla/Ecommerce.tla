------------------------------ MODULE Ecommerce ------------------------------
(***************************************************************************)
(* The ecommerce service between its API and the call of the teller: the   *)
(* event that service/ecommerce.go and biz/ecommerce.go make of a request, *)
(* and the SendToUser request that data/commerce.go makes of the event.    *)
(* Strings are lengths; a destination also records whose address it is.    *)
(***************************************************************************)
EXTENDS EcommerceMessages, TellerMessages, Functions, FiniteSets

(* The texts of the four events without the caller's data: the fixed part  *)
(* of the body, the title, and the prefix of the reference id.             *)
BodyText == [ChatMessage |-> 24, Purchase |-> 43, PaymentReminder |-> 39,
             ShippingUpdate |-> 25]
getNotificationTitle ==
    [ChatMessage |-> 11, Purchase |-> 13, PaymentReminder |-> 16,
     ShippingUpdate |-> 15]
RefPrefix == [ChatMessage |-> 4, Purchase |-> 8, PaymentReminder |-> 7,
              ShippingUpdate |-> 8]

Event(type, buyerId, sellerId, orderId, text) ==
    [type |-> type, buyerId |-> buyerId, sellerId |-> sellerId,
     orderId |-> orderId, message |-> BodyText[type] + text]

SendChatMessage(m) ==
    Event("ChatMessage", m.buyerId, m.sellerId, 0, m.message)

ItemCount(items) ==
    FoldFunction(LAMBDA item, sum : item.quantity + sum, 0, items)

(* Bound: "%d" prints a count of up to ten digits. *)
MaxDigits == 10

(* The digits of a count after the first. *)
MoreDigits(count) == {d \in 1..(MaxDigits - 1) : count >= 10^d \/ -count >= 10^d}

(* What "%d" prints: the digits, and the sign of a negative count. *)
Digits(count) == (IF count < 0 THEN 2 ELSE 1) + Cardinality(MoreDigits(count))

TriggerPurchase(m) ==
    Event("Purchase", m.buyerId, m.sellerId, m.orderId,
          m.orderId + m.amount.printed + Digits(ItemCount(m.items)))

SendPaymentReminder(m) ==
    Event("PaymentReminder", m.buyerId, 0, m.orderId,
          m.amountDue.printed + m.dueDate + m.orderId)

StatusMessage(status) ==
    IF status.name = "in_transit" THEN 24 ELSE 20 + status.length

SendShippingUpdate(m) ==
    Event("ShippingUpdate", m.buyerId, 0, m.orderId,
          StatusMessage(m.status) + m.orderId + m.trackingNumber + m.carrier)

(* Fault injection: a whole UUID instead of its first eight characters, *)
(* with the order id.                                                   *)
RefIDWithUUID(e) == RefPrefix[e.type] + 1 + e.orderId + 1 + 36

(* The order id and the Unix time in seconds, or a piece of a UUID. *)
generateRefID(e) ==
    RefPrefix[e.type] + 1 + (IF e.orderId > 0 THEN e.orderId + 1 + 10 ELSE 8)

Destination(channel, to, length) ==
    [channel |-> channel, to |-> to, destination |-> length]

(* Fault injection: every event goes to both parties. *)
DestinationsOfBoth(e) ==
    << Destination("email", "seller", 7 + e.sellerId + 12),
       Destination("push", "seller", 14 + e.sellerId),
       Destination("push", "buyer", 13 + e.buyerId) >>

getDestinations(e) ==
    CASE e.type \in {"ChatMessage", "Purchase"} /\ e.sellerId > 0 ->
             << Destination("email", "seller", 7 + e.sellerId + 12),
                Destination("push", "seller", 14 + e.sellerId) >>
      [] e.type \in {"PaymentReminder", "ShippingUpdate"} /\ e.buyerId > 0 ->
             << Destination("push", "buyer", 13 + e.buyerId) >>
      [] OTHER -> << Destination("email", "admin", 17) >>

(* SendNotification's request; the metadata of the event stays behind. *)
NotificationRequest(e) ==
    [notification |-> [title |-> getNotificationTitle[e.type],
                       body |-> e.message,
                       refId |-> generateRefID(e),
                       channels |-> <<>>,
                       scheduleAt |-> "none"],
     destinations |-> getDestinations(e)]

(* The event of a request and its validator, by the method called. *)
EventMethods == {"SendChatMessage", "TriggerPurchase", "SendPaymentReminder",
                 "SendShippingUpdate"}

EventOf(m) ==
    CASE m.method = "SendChatMessage" -> SendChatMessage(m)
      [] m.method = "TriggerPurchase" -> TriggerPurchase(m)
      [] m.method = "SendPaymentReminder" -> SendPaymentReminder(m)
      [] m.method = "SendShippingUpdate" -> SendShippingUpdate(m)

ValidateEvent(m, all) ==
    CASE m.method = "SendChatMessage" -> ValidateSendChatMessageRequest(m, all)
      [] m.method = "TriggerPurchase" -> ValidateTriggerPurchaseRequest(m, all)
      [] m.method = "SendPaymentReminder" -> ValidateSendPaymentReminderRequest(m, all)
      [] m.method = "SendShippingUpdate" -> ValidateSendShippingUpdateRequest(m, all)

=============================================================================
