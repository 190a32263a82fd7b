--------------------------- MODULE TellerMessages ---------------------------
(***************************************************************************)
(* The messages of the teller API and their validators                     *)
(* (apis/teller/v1/notification.pb.validate.go).                           *)
(***************************************************************************)
EXTENDS MessageValidation

(* The values of the enumerations that a message may hold; "unknown" is the *)
(* value 0 of each, and what an older or newer client may send.            *)
NotificationChannels == {"push", "email"}
NotificationStatuses == {"pending", "sent", "failed"}

AnyChannel == NotificationChannels \cup {"unknown"}

(* No time, one before or after now, and one out of range. *)
Schedules == {"none", "past", "future", "invalid"}

Notification ==
    [title : Nat, body : Nat, refId : Nat, channels : Seq(AnyChannel),
     scheduleAt : Schedules]

ChannelDestination ==
    [channel : AnyChannel, to : {"buyer", "seller", "admin", "user"}, destination : Nat]

SendToUserRequest ==
    [notification : Notification \cup {Nil}, destinations : Seq(ChannelDestination)]

ASSUME TellerMessagesAssumption ==
    Nil \notin Notification \cup ChannelDestination \cup SendToUserRequest

(* The longest body, in runes. *)
MaxBody == 10000

ValidateNotification(m, all) ==
    Errors(m,
        << Rule("Title", m.title \in 1..255),
           Rule("Body", m.body \in 1..MaxBody),
           Rule("RefId", m.refId \in 1..50) >>
        \o Each(m.channels, LAMBDA c : Rule("Channels", c \in NotificationChannels))
        \o << Rule("ScheduleAt", m.scheduleAt \in {"none", "future"}) >>,
        all)

ValidateChannelDestination(m, all) ==
    Errors(m,
        << Rule("Channel", m.channel \in NotificationChannels),
           Rule("Destination", m.destination \in 1..255) >>,
        all)

ValidateBoardcastRequest(m, all) ==
    Errors(m,
        << Embedded("Notification", ValidateNotification(m.notification, all)) >>,
        all)

(* The notification itself is not required. *)
ValidateSendToUserRequest(m, all) ==
    Errors(m,
        << Embedded("Notification", ValidateNotification(m.notification, all)),
           Rule("Destinations", m.destinations # <<>>) >>
        \o Each(m.destinations, LAMBDA d :
                Embedded("Destinations", ValidateChannelDestination(d, all))),
        all)

(* Fault injection: the embedded requests are not looked at. *)
ValidateBulkShallow(m, all) == Errors(m, <<>>, all)

ValidateBulkSendToUserRequest(m, all) ==
    Errors(m,
        Each(m.requests, LAMBDA q :
             Embedded("Requests", ValidateSendToUserRequest(q, all))),
        all)

ValidateGetNotificationStatusRequest(m, all) ==
    Errors(m, << Rule("NotificationId", m.notificationId \in 1..50) >>, all)

(* What StatusPerChannel and the message of the same name in the reply ask *)
(* of a status; completedAt, a Timestamp, has no rules of its own.         *)
StatusRules(m) ==
    << Rule("Channel", m.channel \in NotificationChannels),
       Rule("Status", m.status \in NotificationStatuses),
       Rule("FailReason", m.failReason = Nil \/ m.failReason \in 1..1000) >>

ValidateStatusPerChannel(m, all) == Errors(m, StatusRules(m), all)

ValidateReplyStatusPerChannel(m, all) == Errors(m, StatusRules(m), all)

ValidateGetNotificationStatusReply(m, all) ==
    Errors(m,
        Each(m.statuses, LAMBDA s :
             Embedded("Statuses", ValidateReplyStatusPerChannel(s, all))),
        all)

=============================================================================
