-------------------------- MODULE EcommerceMessages --------------------------
(***************************************************************************)
(* The requests of the ecommerce API and their validators                  *)
(* (apis/ecommerce/v1/ecommerce.pb.validate.go).  An amount is a record of *)
(* its class and of the number of characters that "%.2f" prints for it.    *)
(***************************************************************************)
EXTENDS MessageValidation

(* The longest double takes 313 characters. *)
Double == [class : {"negative", "zero", "positive", "nan"}, printed : 1..313]

SendChatMessageRequest ==
    [method : {"SendChatMessage"}, buyerId : Nat, sellerId : Nat, message : Nat]

TriggerPurchaseRequest ==
    [method : {"TriggerPurchase"}, buyerId : Nat, sellerId : Nat, orderId : Nat,
     amount : Double, items : Seq([quantity : Int])]

SendPaymentReminderRequest ==
    [method : {"SendPaymentReminder"}, buyerId : Nat, orderId : Nat,
     amountDue : Double, dueDate : Nat]

SendShippingUpdateRequest ==
    [method : {"SendShippingUpdate"}, buyerId : Nat, orderId : Nat,
     trackingNumber : Nat, carrier : Nat, status : [name : STRING, length : Nat]]

EcommerceRequest ==
    SendChatMessageRequest \cup TriggerPurchaseRequest
        \cup SendPaymentReminderRequest \cup SendShippingUpdateRequest

ASSUME EcommerceMessagesAssumption == Nil \notin EcommerceRequest

NotEmpty(field, length) == Rule(field, length >= 1)

(* "amount <= 0" refuses an amount; NaN compares false and passes. *)
Positive(field, amount) == Rule(field, amount.class \notin {"negative", "zero"})

ValidateSendChatMessageRequest(m, all) ==
    Errors(m,
        << NotEmpty("BuyerId", m.buyerId),
           NotEmpty("SellerId", m.sellerId),
           NotEmpty("Message", m.message) >>,
        all)

(* An item has no rules. *)
ValidatePurchaseItem(m, all) == Errors(m, <<>>, all)

ValidateTriggerPurchaseRequest(m, all) ==
    Errors(m,
        << NotEmpty("BuyerId", m.buyerId),
           NotEmpty("SellerId", m.sellerId),
           NotEmpty("OrderId", m.orderId),
           Positive("Amount", m.amount) >>
        \o Each(m.items, LAMBDA item :
                Embedded("Items", ValidatePurchaseItem(item, all))),
        all)

ValidateSendPaymentReminderRequest(m, all) ==
    Errors(m,
        << NotEmpty("BuyerId", m.buyerId),
           NotEmpty("OrderId", m.orderId),
           Positive("AmountDue", m.amountDue) >>,
        all)

ValidateSendShippingUpdateRequest(m, all) ==
    Errors(m,
        << NotEmpty("BuyerId", m.buyerId),
           NotEmpty("OrderId", m.orderId) >>,
        all)

=============================================================================
