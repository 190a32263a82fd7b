------------------------------ MODULE MCEvents ------------------------------
(***************************************************************************)
(* An instance of EventPath for TLC.  Lengths are taken at their limits.   *)
(***************************************************************************)
EXTENDS EventProperties, TLC

CONSTANTS n1, n2, n3, r1, r2, home

TwoCalls == (r1 :> {n1}) @@ (r2 :> {n2, n3})
AnyDestination == [n \in {n1, n2, n3} |-> {home}]
OneChannel == (home :> "email")

Amount(class, printed) == [class |-> class, printed |-> printed]
Price == Amount("positive", 5)
Item(quantity) == [quantity |-> quantity]

Chat(buyer, seller, text) ==
    [method |-> "SendChatMessage", buyerId |-> buyer, sellerId |-> seller,
     message |-> text]
Purchase(seller, order, amount, items) ==
    [method |-> "TriggerPurchase", buyerId |-> 1, sellerId |-> seller,
     orderId |-> order, amount |-> amount, items |-> items]
Payment(buyer, order, amount, due) ==
    [method |-> "SendPaymentReminder", buyerId |-> buyer, orderId |-> order,
     amountDue |-> amount, dueDate |-> due]
Shipping(buyer, order, status, carrier) ==
    [method |-> "SendShippingUpdate", buyerId |-> buyer, orderId |-> order,
     trackingNumber |-> 0, carrier |-> carrier,
     status |-> [name |-> status, length |-> 10]]

Events ==
    { Chat(1, 236, 9976), Chat(1, 237, 1), Chat(1, 1, 9977), Chat(0, 1, 1),
      Purchase(1, 30, Price, << Item(9), Item(1) >>), Purchase(1, 31, Price, <<>>),
      Purchase(1, 36, Price, <<>>), Purchase(1, 1, Amount("zero", 4), <<>>),
      Purchase(0, 1, Price, <<>>),
      Payment(242, 31, Price, 9925), Payment(1, 31, Price, 9926), Payment(1, 32, Price, 0),
      Payment(243, 1, Price, 0), Payment(1, 1, Amount("nan", 3), 0),
      Payment(1, 1, Amount("negative", 5), 0),
      Shipping(242, 30, "shipped", 9915), Shipping(1, 30, "in_transit", 9922),
      Shipping(1, 31, "delivered", 0), Shipping(1, 0, "shipped", 0) }

Text(title, ref, channels, schedule) ==
    [title |-> title, body |-> 1, refId |-> ref, channels |-> channels,
     scheduleAt |-> schedule]
Plain == Text(255, 50, <<>>, "none")
At(channel, length) == Destination(channel, "user", length)
User(notification, destinations) ==
    [notification |-> notification, destinations |-> destinations]
Good == User(Plain, << At("push", 255), At("email", 1) >>)
NoText == User(Nil, << At("push", 1) >>)
OddChannel == User(Plain, << At("push", 1), At("unknown", 1) >>)

Send(q) == [method |-> "SendToUser", requests |-> << q >>]
Bulk(requests) == [method |-> "BulkSendToUser", requests |-> requests]
StatusOf(n, length) ==
    [method |-> "GetNotificationStatus", notificationId |-> length, names |-> n]
Broadcast(notification) == [method |-> "Boardcast", notification |-> notification]

SingleCalls ==
    { Send(Good), Send(NoText), Send(OddChannel), Send(User(Plain, <<>>)),
      Send(User(Text(255, 50, <<"email">>, "future"), << At("email", 255) >>)),
      Send(User(Text(256, 50, <<>>, "none"), << At("email", 255) >>)),
      Send(User(Text(255, 51, <<>>, "none"), << At("email", 255) >>)),
      Send(User(Text(255, 50, <<"unknown">>, "past"), << At("email", 256) >>)) }

OtherCalls ==
    { Bulk(<< Good, Good >>), Bulk(<< Good, NoText >>), Bulk(<< Good, OddChannel >>),
      Bulk(<<>>), StatusOf(n1, 36), StatusOf(n1, 51), StatusOf(NoNotification, 36),
      Broadcast(Plain), Broadcast(Text(0, 1, <<>>, "none")) }

Calls == (r1 :> Events \cup SingleCalls \cup {Garbled})
         @@ (r2 :> OtherCalls \cup {Garbled})
=============================================================================
