--------------------------- MODULE ValidationProofs ---------------------------
(***************************************************************************)
(* What the validators of the teller accept, for messages of any length,   *)
(* and how the elements of a set are numbered in a repeated field.         *)
(***************************************************************************)
EXTENDS TellerMessages, SequencesExt, FiniteSetTheorems, TLAPS

(* SetToSeq numbers the elements of a finite set, all of them.             *)
LEMMA SetNumbered ==
    ASSUME NEW S, IsFiniteSet(S)
    PROVE  /\ SetToSeq(S) \in [1..Cardinality(S) -> S]
           /\ Cardinality(S) \in Nat
           /\ \A s \in S : \E i \in 1..Cardinality(S) : SetToSeq(S)[i] = s
  <1> DEFINE c == Cardinality(S)
  <1>1. c \in Nat /\ ExistsBijection(1..c, S)
    BY FS_CardinalityType
  <1>2. \E f \in [1..c -> S] : IsInjective(f)
    BY <1>1 DEF ExistsBijection, Bijection, Injection
  <1>3. SetToSeq(S) \in [1..c -> S] /\ IsInjective(SetToSeq(S))
    BY <1>2, Zenon DEF SetToSeq
  <1>4. SetToSeq(S) \in Injection(1..c, S)
    BY <1>3 DEF Injection
  <1>5. Cardinality(1..c) = c
    <2>1. 1 \in Int /\ c \in Int
      BY <1>1
    <2>2. Cardinality(1..c) = IF 1 > c THEN 0 ELSE c - 1 + 1
      BY ONLY <2>1, FS_Interval, Zenon
    <2> QED BY <1>1, <2>2
  <1>6. SetToSeq(S) \in Surjection(1..c, S)
    BY <1>4, <1>5, FS_Injection
  <1> QED BY <1>1, <1>3, <1>6 DEF Surjection

(***************************************************************************)
(* Rules and errors.                                                       *)
(***************************************************************************)
Fields == {"Title", "Body", "RefId", "Channels", "ScheduleAt", "Channel", "Destination",
           "Notification", "Destinations", "Requests",
           "BuyerId", "SellerId", "OrderId", "Amount", "Items"}
Rules == [field : Fields, holds : BOOLEAN]

(* Stopping at the first broken rule or not, the verdict is the same.      *)
LEMMA ErrorsIfBroken ==
    ASSUME NEW m, NEW rules, NEW all \in BOOLEAN
    PROVE  Errors(m, rules, all) = {} <=> m = Nil \/ \A i \in DOMAIN rules : rules[i].holds
  <1> DEFINE broken == {i \in DOMAIN rules : ~rules[i].holds}
             first == CHOOSE i \in broken : \A j \in broken : i <= j
             chosen == IF all THEN broken ELSE {first}
  <1>1. Errors(m, rules, all) = IF m = Nil \/ broken = {} THEN {}
                                ELSE {rules[i].field : i \in chosen}
    BY DEF Errors
  <1>2. broken # {} => chosen # {}
    OBVIOUS
  <1>3. broken = {} <=> \A i \in DOMAIN rules : rules[i].holds
    OBVIOUS
  <1> HIDE DEF chosen, broken
  <1>4. chosen # {} => {rules[i].field : i \in chosen} # {}
    OBVIOUS
  <1> QED BY <1>1, <1>2, <1>3, <1>4

LEMMA ThreeHold ==
    ASSUME NEW a, NEW b, NEW c
    PROVE  (\A i \in DOMAIN << a, b, c >> : << a, b, c >>[i].holds)
               <=> a.holds /\ b.holds /\ c.holds
  <1>1. DOMAIN << a, b, c >> = {1, 2, 3}
    OBVIOUS
  <1> QED BY <1>1

LEMMA AllHold ==
    ASSUME NEW s \in Seq(Rules), NEW t \in Seq(Rules)
    PROVE  (\A i \in DOMAIN (s \o t) : (s \o t)[i].holds)
               <=> /\ \A i \in DOMAIN s : s[i].holds
                   /\ \A i \in DOMAIN t : t[i].holds
  <1>1. /\ DOMAIN s = 1..Len(s) /\ DOMAIN t = 1..Len(t)
        /\ DOMAIN (s \o t) = 1..(Len(s) + Len(t))
        /\ Len(s) \in Nat /\ Len(t) \in Nat
    OBVIOUS
  <1>2. \A i \in 1..Len(s) : i \in 1..(Len(s) + Len(t)) /\ (s \o t)[i] = s[i]
    BY <1>1
  <1>3. \A i \in 1..Len(t) : Len(s) + i \in 1..(Len(s) + Len(t)) /\ (s \o t)[Len(s) + i] = t[i]
    BY <1>1
  <1>4. \A i \in 1..(Len(s) + Len(t)) : i \in 1..Len(s) \/ i - Len(s) \in 1..Len(t)
    BY <1>1
  <1>5. \A i \in 1..(Len(s) + Len(t)) : i - Len(s) \in 1..Len(t) => (s \o t)[i] = t[i - Len(s)]
    BY <1>1
  <1> QED BY <1>1, <1>2, <1>3, <1>4, <1>5

(***************************************************************************)
(* The messages of the teller, and what their validators ask of them.      *)
(***************************************************************************)
NotificationValid(m) ==
    /\ m.title \in 1..255 /\ m.body \in 1..MaxBody /\ m.refId \in 1..50
    /\ \A i \in DOMAIN m.channels : m.channels[i] \in NotificationChannels
    /\ m.scheduleAt \in {"none", "future"}

LEMMA NotificationValidated ==
    ASSUME NEW m \in Notification, NEW all \in BOOLEAN
    PROVE  ValidateNotification(m, all) = {} <=> NotificationValid(m)
  <1> DEFINE start == << Rule("Title", m.title \in 1..255),
                         Rule("Body", m.body \in 1..MaxBody),
                         Rule("RefId", m.refId \in 1..50) >>
             middle == [i \in DOMAIN m.channels |->
                          Rule("Channels", m.channels[i] \in NotificationChannels)]
             last == << Rule("ScheduleAt", m.scheduleAt \in {"none", "future"}) >>
  <1>1. ValidateNotification(m, all) = Errors(m, (start \o middle) \o last, all)
    BY DEF ValidateNotification, Each
  <1>2. m.channels \in Seq(AnyChannel)
    BY DEF Notification
  <1>3. start \in Seq(Rules) /\ last \in Seq(Rules)
    BY DEF Rule, Rules, Fields
  <1>4. middle \in Seq(Rules) /\ DOMAIN middle = DOMAIN m.channels
    <2>1. \A i \in DOMAIN m.channels :
             Rule("Channels", m.channels[i] \in NotificationChannels) \in Rules
      BY DEF Rule, Rules, Fields
    <2>2. DOMAIN m.channels = 1..Len(m.channels) /\ Len(m.channels) \in Nat
      BY <1>2
    <2> QED BY <2>1, <2>2
  <1>5. (\A i \in DOMAIN start : start[i].holds)
           <=> m.title \in 1..255 /\ m.body \in 1..MaxBody /\ m.refId \in 1..50
    <2>1. (\A i \in DOMAIN start : start[i].holds)
             <=> /\ Rule("Title", m.title \in 1..255).holds
                 /\ Rule("Body", m.body \in 1..MaxBody).holds
                 /\ Rule("RefId", m.refId \in 1..50).holds
      BY ThreeHold
    <2> HIDE DEF start
    <2>2. /\ Rule("Title", m.title \in 1..255).holds <=> m.title \in 1..255
          /\ Rule("Body", m.body \in 1..MaxBody).holds <=> m.body \in 1..MaxBody
          /\ Rule("RefId", m.refId \in 1..50).holds <=> m.refId \in 1..50
      BY DEF Rule
    <2> QED BY <2>1, <2>2
  <1>6. (\A i \in DOMAIN middle : middle[i].holds)
           <=> \A i \in DOMAIN m.channels : m.channels[i] \in NotificationChannels
    BY <1>4 DEF Rule
  <1>7. (\A i \in DOMAIN last : last[i].holds) <=> m.scheduleAt \in {"none", "future"}
    <2>1. DOMAIN last = {1} /\ last[1] = Rule("ScheduleAt", m.scheduleAt \in {"none", "future"})
      OBVIOUS
    <2>2. last[1].holds <=> m.scheduleAt \in {"none", "future"}
      BY <2>1 DEF Rule
    <2> HIDE DEF last
    <2> QED BY <2>1, <2>2
  <1> HIDE DEF start, middle, last
  <1>8. start \o middle \in Seq(Rules)
    BY <1>3, <1>4
  <1>9. (\A i \in DOMAIN ((start \o middle) \o last) : ((start \o middle) \o last)[i].holds)
           <=> NotificationValid(m)
    <2>1. (\A i \in DOMAIN (start \o middle) : (start \o middle)[i].holds)
             <=> /\ \A i \in DOMAIN start : start[i].holds
                 /\ \A i \in DOMAIN middle : middle[i].holds
      BY <1>3, <1>4, AllHold
    <2>2. (\A i \in DOMAIN ((start \o middle) \o last) : ((start \o middle) \o last)[i].holds)
             <=> /\ \A i \in DOMAIN (start \o middle) : (start \o middle)[i].holds
                 /\ \A i \in DOMAIN last : last[i].holds
      BY <1>3, <1>8, AllHold
    <2>3. (\A i \in DOMAIN ((start \o middle) \o last) : ((start \o middle) \o last)[i].holds)
             <=> /\ m.title \in 1..255 /\ m.body \in 1..MaxBody /\ m.refId \in 1..50
                 /\ \A i \in DOMAIN m.channels : m.channels[i] \in NotificationChannels
                 /\ m.scheduleAt \in {"none", "future"}
      BY <1>5, <1>6, <1>7, <2>1, <2>2
    <2> QED BY <2>3 DEF NotificationValid
  <1> QED BY <1>1, <1>9, ErrorsIfBroken, TellerMessagesAssumption

DestinationValid(d) == d.channel \in NotificationChannels /\ d.destination \in 1..255

LEMMA DestinationValidated ==
    ASSUME NEW d \in ChannelDestination, NEW all \in BOOLEAN
    PROVE  ValidateChannelDestination(d, all) = {} <=> DestinationValid(d)
  <1> DEFINE rules == << Rule("Channel", d.channel \in NotificationChannels),
                         Rule("Destination", d.destination \in 1..255) >>
  <1>1. ValidateChannelDestination(d, all) = Errors(d, rules, all)
    BY DEF ValidateChannelDestination
  <1>2. (\A i \in DOMAIN rules : rules[i].holds) <=> DestinationValid(d)
    <2>1. DOMAIN rules = {1, 2}
      OBVIOUS
    <2>2. /\ rules[1] = Rule("Channel", d.channel \in NotificationChannels)
          /\ rules[2] = Rule("Destination", d.destination \in 1..255)
      OBVIOUS
    <2>3. /\ rules[1].holds <=> d.channel \in NotificationChannels
          /\ rules[2].holds <=> d.destination \in 1..255
      BY <2>2 DEF Rule
    <2> HIDE DEF rules
    <2> QED BY <2>1, <2>3 DEF DestinationValid
  <1> HIDE DEF rules
  <1> QED BY <1>1, <1>2, ErrorsIfBroken, TellerMessagesAssumption

RequestValid(q) ==
    /\ q.notification = Nil \/ NotificationValid(q.notification)
    /\ q.destinations # <<>>
    /\ \A i \in DOMAIN q.destinations : DestinationValid(q.destinations[i])

LEMMA RequestValidated ==
    ASSUME NEW q \in SendToUserRequest, NEW all \in BOOLEAN
    PROVE  ValidateSendToUserRequest(q, all) = {} <=> RequestValid(q)
  <1> DEFINE start == << Embedded("Notification", ValidateNotification(q.notification, all)),
                         Rule("Destinations", q.destinations # <<>>) >>
             last == [i \in DOMAIN q.destinations |->
                        Embedded("Destinations",
                                 ValidateChannelDestination(q.destinations[i], all))]
  <1>1. ValidateSendToUserRequest(q, all) = Errors(q, start \o last, all)
    BY DEF ValidateSendToUserRequest, Each
  <1>2. /\ q.destinations \in Seq(ChannelDestination)
        /\ q.notification \in Notification \cup {Nil}
    BY DEF SendToUserRequest
  <1>3. start \in Seq(Rules)
    BY DEF Embedded, Rule, Rules, Fields
  <1>4. last \in Seq(Rules) /\ DOMAIN last = DOMAIN q.destinations
    <2>1. \A i \in DOMAIN q.destinations :
             Embedded("Destinations", ValidateChannelDestination(q.destinations[i], all)) \in Rules
      BY DEF Embedded, Rule, Rules, Fields
    <2>2. DOMAIN q.destinations = 1..Len(q.destinations) /\ Len(q.destinations) \in Nat
      BY <1>2
    <2> QED BY <2>1, <2>2
  <1>5. ValidateNotification(q.notification, all) = {}
           <=> q.notification = Nil \/ NotificationValid(q.notification)
    <2>1. ValidateNotification(Nil, all) = {}
      BY DEF ValidateNotification, Errors
    <2> QED BY <1>2, <2>1, NotificationValidated, TellerMessagesAssumption
  <1>6. (\A i \in DOMAIN start : start[i].holds)
           <=> /\ q.notification = Nil \/ NotificationValid(q.notification)
               /\ q.destinations # <<>>
    <2>1. DOMAIN start = {1, 2}
      OBVIOUS
    <2>2. /\ start[1] = Embedded("Notification", ValidateNotification(q.notification, all))
          /\ start[2] = Rule("Destinations", q.destinations # <<>>)
      OBVIOUS
    <2>3. /\ start[1].holds <=> ValidateNotification(q.notification, all) = {}
          /\ start[2].holds <=> q.destinations # <<>>
      BY <2>2 DEF Embedded, Rule
    <2> HIDE DEF start
    <2> QED BY <1>5, <2>1, <2>3
  <1>7. (\A i \in DOMAIN last : last[i].holds)
           <=> \A i \in DOMAIN q.destinations : DestinationValid(q.destinations[i])
    <2>1. ASSUME NEW i \in DOMAIN q.destinations
          PROVE  last[i].holds <=> DestinationValid(q.destinations[i])
      <3>1. q.destinations[i] \in ChannelDestination
        BY <1>2
      <3>2. last[i].holds <=> ValidateChannelDestination(q.destinations[i], all) = {}
        BY DEF Embedded, Rule
      <3> QED BY <3>1, <3>2, DestinationValidated
    <2> QED BY <1>4, <2>1
  <1> HIDE DEF start, last
  <1>8. (\A i \in DOMAIN (start \o last) : (start \o last)[i].holds) <=> RequestValid(q)
    BY <1>3, <1>4, <1>6, <1>7, AllHold DEF RequestValid
  <1> QED BY <1>1, <1>8, ErrorsIfBroken, TellerMessagesAssumption

(* A status, inside and in the reply.                                      *)
StatusValid(m) ==
    /\ m.channel \in NotificationChannels /\ m.status \in NotificationStatuses
    /\ m.failReason = Nil \/ m.failReason \in 1..1000

LEMMA StatusValidated ==
    ASSUME NEW m, StatusValid(m)
    PROVE  ValidateStatusPerChannel(m, TRUE) = {} /\ ValidateReplyStatusPerChannel(m, TRUE) = {}
  <1> DEFINE reason == m.failReason = Nil \/ m.failReason \in 1..1000
             channel == m.channel \in NotificationChannels
             status == m.status \in NotificationStatuses
  <1>1. /\ StatusRules(m) = << Rule("Channel", channel), Rule("Status", status),
                               Rule("FailReason", reason) >>
        /\ channel /\ status /\ reason
    BY DEF StatusRules, StatusValid
  <1> HIDE DEF channel, status, reason
  <1>2. /\ Rule("Channel", channel).holds /\ Rule("Status", status).holds
        /\ Rule("FailReason", reason).holds
    BY <1>1 DEF Rule
  <1>3. \A i \in DOMAIN StatusRules(m) : StatusRules(m)[i].holds
    BY <1>1, <1>2, ThreeHold
  <1> QED BY <1>3, ErrorsIfBroken DEF ValidateStatusPerChannel, ValidateReplyStatusPerChannel

LEMMA ReplyValidated ==
    ASSUME NEW m, \A i \in DOMAIN m.statuses : StatusValid(m.statuses[i])
    PROVE  ValidateGetNotificationStatusReply(m, TRUE) = {}
  <1> DEFINE rules == [i \in DOMAIN m.statuses |->
                Embedded("Statuses", ValidateReplyStatusPerChannel(m.statuses[i], TRUE))]
  <1>1. ValidateGetNotificationStatusReply(m, TRUE) = Errors(m, rules, TRUE)
    BY DEF ValidateGetNotificationStatusReply, Each
  <1>2. ASSUME NEW i \in DOMAIN rules
        PROVE  rules[i].holds
    <2>1. ValidateReplyStatusPerChannel(m.statuses[i], TRUE) = {}
      BY StatusValidated
    <2> QED BY <2>1 DEF Embedded, Rule
  <1> HIDE DEF rules
  <1> QED BY <1>1, <1>2, ErrorsIfBroken
=============================================================================
