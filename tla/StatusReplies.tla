---------------------------- MODULE StatusReplies ----------------------------
(***************************************************************************)
(* The reply of GetNotificationStatus: the row read by biz/notification.go,*)
(* its results turned into StatusPerChannel messages, those copied by      *)
(* service/notification.go into the reply of the API.                      *)
(***************************************************************************)
EXTENDS TellerInvariant, TellerMessages, SequencesExt

(* constant.NotificationChannel: the API has a name for every channel. *)
ASSUME StatusAssumption == Channels \subseteq NotificationChannels

(* convertConstantChannelToProto and convertConstantStatusToProto. *)
ProtoChannel(channel) ==
    IF channel \in NotificationChannels THEN channel ELSE "unknown"
ProtoStatus(status) ==
    CASE status \in {"pending", "processing"} -> "pending"
      [] status \in Settled -> status
      [] OTHER -> "unknown"

(* A failed result holds the text of the provider's error, a sent one "". *)
FailureReason(status, reason) == IF status = "failed" THEN reason ELSE 0

(* Fault injection: the optional field is set even if it is empty. *)
AlwaysSet(text) == text

(* "" stays out of the message. *)
Optional(text) == IF text = 0 THEN Nil ELSE text

(* biz: the statuses for row r, with provider errors of the given length. *)
ChannelStatuses(r, reason) ==
    {[channel |-> ProtoChannel(s.channel), status |-> ProtoStatus(s.status),
      failReason |-> Optional(FailureReason(s.status, reason))] :
        s \in StatusPerChannel(r)}

(* service: the reply. *)
StatusReply(r, reason) == [statuses |-> SetToSeq(ChannelStatuses(r, reason))]

(* Whatever the order in which workers claim, record results, overwrite    *)
(* each other's and are reset, the status that a client reads meanwhile    *)
(* obeys the rules of the API, both inside and in the reply, as long as no *)
(* provider error is longer than the 1000 characters the rules allow: the  *)
(* worker stores it whole and nothing validates a reply.                   *)
ReplyIsValid ==
    \A n \in Notifications : \A reason \in {0, 1, 1000} :
        /\ \A s \in ChannelStatuses(row[n], reason) : ValidateStatusPerChannel(s, TRUE) = {}
        /\ ValidateGetNotificationStatusReply(StatusReply(row[n], reason), TRUE) = {}
=============================================================================
