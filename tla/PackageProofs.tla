---------------------------- MODULE PackageProofs ----------------------------
(***************************************************************************)
(* Proofs, for any number of goroutines and data sources, about the shared *)
(* packages.  The in-memory pubsubs are short arguments about a lock:      *)
(* MemoryPubSub keeps it while its handlers start, WPubSub only while it   *)
(* reads or writes the list.  HealthzCheck turns on no error being counted *)
(* twice: an error is about to be sent, in the channel, or collected, so   *)
(* the buffer is never full when a goroutine sends, and the receives that  *)
(* are left empty the channel.                                             *)
(***************************************************************************)
EXTENDS MemoryPubSub, WPubSub, HealthCheck, FiniteSetTheorems, TLAPS

(***************************************************************************)
(* MemoryPubSub.                                                           *)
(***************************************************************************)
LEMMA MemoryInitInv == MemoryInit => MemoryInv
  BY DEF MemoryInit, MemoryInv, RegistryOK, Ops, LockHeld, ClosedIsFinal,
         PublishProgress, MessageReachesSubscribers, Started, Reading, Writing

(* A step of c moves c alone.                                              *)
LEMMA OneMoves ==
    ASSUME MemoryInv, NEW c \in Callers, NEW from, NEW to \in Ops, Step(c, from, to)
    PROVE  /\ op' \in [Callers -> Ops]
           /\ op[c] = from /\ op'[c] = to
           /\ \A e \in Callers \ {c} : op'[e] = op[e]
  BY DEF MemoryInv, RegistryOK, Step

LEMMA PublishBeginsInv ==
    ASSUME MemoryInv, NEW c \in Callers, PublishBegins(c)
    PROVE  MemoryInv'
  <1> USE DEF MemoryInv, Reading, Writing
  <1>1. /\ op' \in [Callers -> Ops]
        /\ op'[c] = IF closed THEN "refused" ELSE "looking"
        /\ \A e \in Callers \ {c} : op'[e] = op[e]
    BY OneMoves DEF PublishBegins, Ops
  <1>2. /\ awaiting' \in [Callers -> SUBSET Callers]
        /\ awaiting'[c] = subscribers
        /\ \A e \in Callers \ {c} : awaiting'[e] = awaiting[e]
    BY DEF RegistryOK, PublishBegins
  <1>3. \A e \in Callers : ~Writing(e)
    BY DEF PublishBegins, RLock
  <1>4. RegistryOK'
    BY <1>1, <1>2, <1>3 DEF RegistryOK, PublishBegins
  <1>5. LockHeld' /\ ClosedIsFinal'
    BY <1>1, <1>3 DEF LockHeld, ClosedIsFinal, PublishBegins
  <1>6. (\A p \in Callers : PublishProgress(p)') /\ MessageReachesSubscribers'
    BY <1>1, <1>2 DEF PublishProgress, MessageReachesSubscribers, Started, PublishBegins
  <1> QED BY <1>4, <1>5, <1>6

LEMMA LookupInv ==
    ASSUME MemoryInv, NEW c \in Callers, Lookup(c)
    PROVE  MemoryInv'
  <1> USE DEF MemoryInv, Reading, Writing
  <1>1. /\ op' \in [Callers -> Ops]
        /\ op[c] = "looking" /\ op'[c] = "starting"
        /\ \A e \in Callers \ {c} : op'[e] = op[e]
    BY OneMoves DEF Lookup, Ops
  <1>2. /\ unstarted' \in [Callers -> SUBSET Callers]
        /\ unstarted'[c] = subscribers
        /\ \A e \in Callers \ {c} : unstarted'[e] = unstarted[e]
    BY DEF RegistryOK, Lookup
  <1>3. RegistryOK'
    BY <1>1, <1>2 DEF RegistryOK, Lookup
  <1>4. LockHeld' /\ ClosedIsFinal'
    BY <1>1 DEF LockHeld, ClosedIsFinal, Lookup
  <1>5. (\A p \in Callers : PublishProgress(p)') /\ MessageReachesSubscribers'
    BY <1>1, <1>2 DEF PublishProgress, MessageReachesSubscribers, Started, Lookup
  <1> QED BY <1>3, <1>4, <1>5

LEMMA StartHandlerInv ==
    ASSUME MemoryInv, NEW c \in Callers, StartHandler(c)
    PROVE  MemoryInv'
  <1> USE DEF MemoryInv
  <1>1. PICK s \in unstarted[c] :
           /\ spawned' = spawned \cup {<<c, s>>}
           /\ unstarted' = [unstarted EXCEPT ![c] = @ \ {s}]
    BY DEF StartHandler
  <1>2. /\ unstarted' \in [Callers -> SUBSET Callers]
        /\ unstarted'[c] = unstarted[c] \ {s}
        /\ \A e \in Callers \ {c} : unstarted'[e] = unstarted[e]
        /\ s \in Callers
    BY <1>1 DEF RegistryOK
  <1>3. RegistryOK'
    BY <1>1, <1>2 DEF RegistryOK, StartHandler
  <1>4. LockHeld' /\ ClosedIsFinal'
    BY DEF LockHeld, ClosedIsFinal, StartHandler, Reading, Writing
  <1>5. (\A p \in Callers : PublishProgress(p)') /\ MessageReachesSubscribers'
    BY <1>1, <1>2 DEF PublishProgress, MessageReachesSubscribers, Started, StartHandler
  <1> QED BY <1>3, <1>4, <1>5

LEMMA CallHandlerInv ==
    ASSUME MemoryInv, NEW g \in spawned, CallHandler(g)
    PROVE  MemoryInv'
  <1> USE DEF MemoryInv
  <1>1. Started' = Started
    BY DEF CallHandler, Started
  <1>2. RegistryOK'
    BY DEF RegistryOK, CallHandler
  <1>3. LockHeld' /\ ClosedIsFinal'
    BY DEF LockHeld, ClosedIsFinal, CallHandler, Reading, Writing
  <1>4. (\A p \in Callers : PublishProgress(p)') /\ MessageReachesSubscribers'
    BY <1>1 DEF PublishProgress, MessageReachesSubscribers, CallHandler
  <1> QED BY <1>2, <1>3, <1>4

LEMMA PublishReturnsInv ==
    ASSUME MemoryInv, NEW c \in Callers, PublishReturns(c)
    PROVE  MemoryInv'
  <1> USE DEF MemoryInv, Reading, Writing
  <1>1. /\ op' \in [Callers -> Ops]
        /\ op[c] = "starting" /\ op'[c] = "published" /\ unstarted[c] = {}
        /\ \A e \in Callers \ {c} : op'[e] = op[e]
    BY OneMoves DEF PublishReturns, Ops
  <1>2. RegistryOK'
    BY <1>1 DEF RegistryOK, PublishReturns
  <1>3. LockHeld' /\ ClosedIsFinal'
    BY <1>1 DEF LockHeld, ClosedIsFinal, PublishReturns
  <1>4. (\A p \in Callers : PublishProgress(p)') /\ MessageReachesSubscribers'
    BY <1>1 DEF PublishProgress, MessageReachesSubscribers, Started, PublishReturns
  <1> QED BY <1>2, <1>3, <1>4

(* Steps that take the write lock, or give it back without a change.       *)
LEMMA WriterInv ==
    ASSUME MemoryInv, NEW c \in Callers,
           SubscribeBegins(c) \/ UnsubscribeBegins(c) \/ Unsubscribe(c) \/ CloseBegins(c)
    PROVE  MemoryInv'
  <1> USE DEF MemoryInv, Reading, Writing
  <1>1. /\ op' \in [Callers -> Ops]
        /\ op'[c] \in {"refused", "appending", "removing", "unsubscribed", "closing"}
        /\ \A e \in Callers \ {c} : op'[e] = op[e]
        /\ op'[c] = "appending" => ~closed
        /\ op'[c] = "closing" <=> CloseBegins(c)
        /\ op[c] # "closing"
    BY DEF RegistryOK, Ops, Step, SubscribeBegins, UnsubscribeBegins, Unsubscribe, CloseBegins
  <1>2. UNCHANGED <<subscribers, unstarted, spawned, called, awaiting>>
    BY DEF SubscribeBegins, UnsubscribeBegins, Unsubscribe, CloseBegins
  <1>3. closed' = (closed \/ CloseBegins(c)) /\ closed' \in BOOLEAN
    BY DEF RegistryOK, SubscribeBegins, UnsubscribeBegins, Unsubscribe, CloseBegins, Step
  <1>4. Lock \/ (op[c] = "removing" /\ op'[c] = "unsubscribed")
    BY <1>1 DEF SubscribeBegins, UnsubscribeBegins, Unsubscribe, CloseBegins, Step, RegistryOK
  <1>5. RegistryOK'
    BY <1>1, <1>2, <1>3 DEF RegistryOK
  <1>6. LockHeld'
    BY <1>1, <1>4 DEF LockHeld, Lock
  <1>7. ClosedIsFinal'
    BY <1>1, <1>3, <1>4 DEF ClosedIsFinal, Lock, CloseBegins
  <1>8. (\A p \in Callers : PublishProgress(p)') /\ MessageReachesSubscribers'
    BY <1>1, <1>2 DEF PublishProgress, MessageReachesSubscribers, Started
  <1> QED BY <1>5, <1>6, <1>7, <1>8

LEMMA AppendInv ==
    ASSUME MemoryInv, NEW c \in Callers, Append(c)
    PROVE  MemoryInv'
  <1> USE DEF MemoryInv, Reading, Writing
  <1>1. /\ op' \in [Callers -> Ops]
        /\ op[c] = "appending" /\ op'[c] = "subscribed"
        /\ \A e \in Callers \ {c} : op'[e] = op[e]
    BY OneMoves DEF Append, Ops
  <1>2. ~closed
    BY <1>1 DEF ClosedIsFinal
  <1>3. RegistryOK'
    BY <1>1, <1>2 DEF RegistryOK, Append
  <1>4. LockHeld' /\ ClosedIsFinal'
    BY <1>1, <1>2 DEF LockHeld, ClosedIsFinal, Append
  <1>5. (\A p \in Callers : PublishProgress(p)') /\ MessageReachesSubscribers'
    BY <1>1 DEF PublishProgress, MessageReachesSubscribers, Started, Append
  <1> QED BY <1>3, <1>4, <1>5

(* Nobody is looking the topic up while Close empties it.                  *)
LEMMA CloseEndsInv ==
    ASSUME MemoryInv, NEW c \in Callers, CloseEnds(c)
    PROVE  MemoryInv'
  <1> USE DEF MemoryInv, Reading, Writing
  <1>1. /\ op' \in [Callers -> Ops]
        /\ op[c] = "closing" /\ op'[c] = "closed"
        /\ \A e \in Callers \ {c} : op'[e] = op[e]
    BY OneMoves DEF CloseEnds, Ops
  <1>2. \A e \in Callers \ {c} : ~Reading(e)
    BY <1>1 DEF LockHeld
  <1>3. RegistryOK'
    BY <1>1 DEF RegistryOK, CloseEnds
  <1>4. LockHeld' /\ ClosedIsFinal'
    BY <1>1 DEF LockHeld, ClosedIsFinal, CloseEnds
  <1>5. (\A p \in Callers : PublishProgress(p)') /\ MessageReachesSubscribers'
    BY <1>1, <1>2 DEF PublishProgress, MessageReachesSubscribers, Started, CloseEnds
  <1> QED BY <1>3, <1>4, <1>5

LEMMA MemoryNextInv ==
    ASSUME MemoryInv, [MemoryNext]_memoryVars
    PROVE  MemoryInv'
  <1>1. CASE UNCHANGED memoryVars
    BY <1>1 DEF memoryVars, MemoryInv, RegistryOK, LockHeld, ClosedIsFinal, PublishProgress,
       MessageReachesSubscribers, Started, Reading, Writing
  <1> QED BY <1>1, PublishBeginsInv, LookupInv, StartHandlerInv, CallHandlerInv, PublishReturnsInv,
          WriterInv, AppendInv, CloseEndsInv DEF MemoryNext

(* The invariant of MemoryPubSub.                                          *)
THEOREM MemoryInvHolds == MemorySpec => []MemoryInv
  <1> QED BY MemoryInitInv, MemoryNextInv, PTL DEF MemorySpec

(* Close leaves no subscription behind, whoever raced with it.             *)
THEOREM CloseEmptiesRegistry == MemorySpec => []RegistryOK
  <1>1. MemoryInv => RegistryOK
    BY DEF MemoryInv
  <1> QED BY <1>1, MemoryInvHolds, PTL

(* A Publish that succeeds started every handler subscribed before it.     *)
THEOREM PublishReachesAll == MemorySpec => []MessageReachesSubscribers
  <1>1. MemoryInv => MessageReachesSubscribers
    BY DEF MemoryInv
  <1> QED BY <1>1, MemoryInvHolds, PTL

(* After Close returned no Publish starts a goroutine any more: one that   *)
(* is still starting them would hold the lock that Close took.  So the     *)
(* handlers called later are those of goroutines started before.           *)
THEOREM OnlyTheRestAfterClose == MemorySpec => NoStartAfterClose
  <1>1. MemoryInv /\ [MemoryNext]_memoryVars
           => [(\E c \in Callers : op[c] = "closed")
                 => Started' = Started /\ spawned' \subseteq spawned]_memoryVars
    <2> SUFFICES ASSUME MemoryInv, MemoryNext, NEW e \in Callers, op[e] = "closed"
                 PROVE  Started' = Started /\ spawned' \subseteq spawned
      OBVIOUS
    <2>1. \A c \in Callers : ~StartHandler(c)
      BY DEF MemoryInv, ClosedIsFinal, Reading, StartHandler
    <2>2. CASE \E g \in spawned : CallHandler(g)
      BY <2>2 DEF CallHandler, Started
    <2>3. CASE UNCHANGED <<spawned, called>>
      BY <2>3 DEF Started
    <2> QED BY <2>1, <2>2, <2>3 DEF MemoryNext, PublishBegins, Lookup, PublishReturns,
            SubscribeBegins, Append, UnsubscribeBegins, Unsubscribe, CloseBegins, CloseEnds
  <1> QED BY <1>1, MemoryInvHolds, PTL DEF MemorySpec, NoStartAfterClose

(***************************************************************************)
(* WPubSub.                                                                *)
(***************************************************************************)
LEMMA WPubSubInitInv == WPubSubInit => WPubSubInv
  BY DEF WPubSubInit, WPubSubInv, WPubSubTypeOK, OneHolder, ListUpToDate,
         NoSubscriptionLost, Returned

LEMMA WPubSubNextInv ==
    ASSUME WPubSubInv, [WPubSubNext]_wpubsubVars
    PROVE  WPubSubInv'
  <1> USE DEF WPubSubInv, WPubSubTypeOK, Returned
  <1>1. ASSUME NEW c \in Clients, ReadHandlers(c) PROVE WPubSubInv'
    BY <1>1 DEF ReadHandlers, Moves, Unlocked, OneHolder, ListUpToDate, NoSubscriptionLost
  <1>2. ASSUME NEW c \in Clients, RunHandler(c) PROVE WPubSubInv'
    BY <1>2 DEF RunHandler, OneHolder, ListUpToDate, NoSubscriptionLost
  <1>3. ASSUME NEW c \in Clients, PublishDone(c) PROVE WPubSubInv'
    BY <1>3 DEF PublishDone, Moves, OneHolder, ListUpToDate, NoSubscriptionLost
  <1>4. ASSUME NEW c \in Clients, SubscribeReads(c) PROVE WPubSubInv'
    BY <1>4 DEF SubscribeReads, Moves, Unlocked, OneHolder, ListUpToDate, NoSubscriptionLost
  <1>5. ASSUME NEW c \in Clients, SubscribeStores(c) PROVE WPubSubInv'
    BY <1>5 DEF SubscribeStores, Moves, OneHolder, ListUpToDate, NoSubscriptionLost
  <1>6. ASSUME NEW c \in Clients, CloseLocks(c) PROVE WPubSubInv'
    BY <1>6 DEF CloseLocks, Moves, Unlocked, OneHolder, ListUpToDate, NoSubscriptionLost
  <1>7. ASSUME NEW c \in Clients, CloseClears(c) PROVE WPubSubInv'
    BY <1>7 DEF CloseClears, Moves, OneHolder, ListUpToDate, NoSubscriptionLost
  <1>8. CASE UNCHANGED wpubsubVars
    BY <1>8 DEF wpubsubVars, OneHolder, ListUpToDate, NoSubscriptionLost
  <1> QED BY <1>1, <1>2, <1>3, <1>4, <1>5, <1>6, <1>7, <1>8 DEF WPubSubNext

(* The invariant of WPubSub.                                               *)
THEOREM WPubSubInvHolds == WPubSubSpec => []WPubSubInv
  <1> QED BY WPubSubInitInv, WPubSubNextInv, PTL DEF WPubSubSpec

(* No Subscribe overwrites another's, and Close removes what it finds.     *)
THEOREM SubscriptionsKept == WPubSubSpec => []NoSubscriptionLost
  <1>1. WPubSubInv => NoSubscriptionLost
    BY DEF WPubSubInv
  <1> QED BY <1>1, WPubSubInvHolds, PTL

(* A Publish that returned ran every handler there was when it began, even *)
(* if Close emptied the list meanwhile.                                    *)
THEOREM HandlersRun == WPubSubSpec => []EveryHandlerRuns
  <1>1. WPubSubInv => EveryHandlerRuns
    BY DEF WPubSubInv, WPubSubTypeOK, ListUpToDate, EveryHandlerRuns
  <1> QED BY <1>1, WPubSubInvHolds, PTL

(***************************************************************************)
(* Counting: the sets of the model are finite, as ds is.                   *)
(***************************************************************************)
LEMMA SourcesCounted ==
    ASSUME HealthTypeOK, NEW S \in SUBSET ds
    PROVE  /\ IsFiniteSet(ds) /\ IsFiniteSet(S)
           /\ Cardinality(ds) \in Nat /\ Cardinality(S) \in Nat
           /\ Cardinality(S) <= Cardinality(ds)
  <1>1. IsFiniteSet(ds)
    BY HealthAssumption, FS_Subset DEF HealthTypeOK
  <1> QED BY <1>1, FS_Subset, FS_CardinalityType

(* A source is missing from S: S is smaller than ds.                       *)
LEMMA OneMissing ==
    ASSUME HealthTypeOK, NEW S \in SUBSET ds, NEW z \in ds, z \notin S
    PROVE  Cardinality(S) < Cardinality(ds)
  <1>1. S # ds
    OBVIOUS
  <1>2. Cardinality(S) # Cardinality(ds)
    BY <1>1, SourcesCounted, FS_Subset
  <1> QED BY <1>2, SourcesCounted

LEMMA OneReceived ==
    ASSUME HealthTypeOK, NEW z \in errsCH
    PROVE  Cardinality(errsCH \ {z}) = Cardinality(errsCH) - 1
  <1>1. IsFiniteSet(errsCH)
    BY SourcesCounted DEF HealthTypeOK
  <1> QED BY <1>1, FS_RemoveElement

(* An empty count is an empty channel.                                     *)
LEMMA NothingLeft ==
    ASSUME HealthTypeOK, Cardinality(errsCH) <= 0
    PROVE  errsCH = {}
  <1>1. IsFiniteSet(errsCH) /\ Cardinality(errsCH) \in Nat
    BY SourcesCounted DEF HealthTypeOK
  <1>2. Cardinality(errsCH) = 0
    BY <1>1
  <1> QED BY <1>1, <1>2, FS_EmptySet

(***************************************************************************)
(* The inductive invariant, one step per action.                           *)
(***************************************************************************)
LEMMA HealthInitInv == HealthInit => HealthInv
  BY DEF HealthInit, HealthInv, HealthTypeOK, ErrorsKept, Unsent,
         AnswerIsRight, HasAnswered

LEMMA CheckDirectlyInv ==
    ASSUME HealthInv, CheckDirectly
    PROVE  HealthInv'
  <1>1. Cardinality(ds) \in Nat
    BY SourcesCounted DEF HealthInv, HealthTypeOK
  <1>2. ds' = ds /\ ~(Cardinality(ds) > 1)
    BY <1>1 DEF CheckDirectly
  <1>3. check' \in {"success", "internal"} /\ (check' = "success" <=> broken' = {})
    BY DEF CheckDirectly, Answered
  <1>4. HealthTypeOK'
    BY <1>3 DEF HealthInv, HealthTypeOK, CheckDirectly
  <1>5. ErrorsKept'
    BY <1>2 DEF HealthInv, ErrorsKept, Unsent, CheckDirectly
  <1>6. AnswerIsRight'
    BY <1>2, <1>3 DEF HealthInv, AnswerIsRight, CheckDirectly
  <1> QED BY <1>3, <1>4, <1>5, <1>6 DEF HealthInv, CheckDirectly

LEMMA StartPingsInv ==
    ASSUME HealthInv, StartPings
    PROVE  HealthInv'
  <1>1. Cardinality(ds) \in Nat
    BY SourcesCounted DEF HealthInv, HealthTypeOK
  <1>2. \A z \in Sources : ping'[z] # "sending"
    BY DEF StartPings
  <1>3. HealthTypeOK'
    BY <1>1 DEF HealthInv, HealthTypeOK, StartPings
  <1>4. ErrorsKept'
    BY <1>2 DEF HealthInv, HealthTypeOK, ErrorsKept, Unsent, StartPings
  <1> QED BY <1>3, <1>4 DEF HealthInv, AnswerIsRight, HasAnswered, StartPings

(* Goroutines run only while HealthzCheck waits for them.                  *)
LEMMA WaitedFor ==
    ASSUME HealthInv, NEW z \in Sources, ping[z] \in {"pinging", "sending"}
    PROVE  check = "waiting"
  BY DEF HealthInv

LEMMA PingedInv ==
    ASSUME HealthInv, NEW z \in Sources, Pinged(z)
    PROVE  HealthInv'
  <1>1. check = "waiting" /\ check' = "waiting"
    BY WaitedFor DEF Pinged
  <1>2. z \in ds /\ z \notin Unsent /\ z \notin errsCH
    BY DEF HealthInv, ErrorsKept, Unsent, Pinged
  <1>3. HealthTypeOK'
    BY <1>2 DEF HealthInv, HealthTypeOK, Pinged
  <1>4. /\ \A y \in errsCH' : ping'[y] = "done"
        /\ \A y \in Sources : ping'[y] # "none" => y \in ds'
    BY <1>2 DEF HealthInv, HealthTypeOK, ErrorsKept, Pinged
  <1>5. CASE ping' = [ping EXCEPT ![z] = "done"] /\ UNCHANGED broken
    <2>1. Unsent' = Unsent
      BY <1>2, <1>5 DEF HealthInv, HealthTypeOK, Pinged, Unsent
    <2>2. ErrorsKept'
      BY <1>4, <1>5, <2>1 DEF HealthInv, ErrorsKept, Pinged
    <2> QED BY <1>1, <1>3, <2>2 DEF HealthInv, AnswerIsRight, HasAnswered, Pinged
  <1>6. CASE ping' = [ping EXCEPT ![z] = "sending"] /\ broken' = broken \cup {z}
    <2>1. Unsent' = Unsent \cup {z}
      BY <1>2, <1>6 DEF HealthInv, HealthTypeOK, Pinged, Unsent
    <2>2. ErrorsKept'
      BY <1>4, <1>6, <2>1 DEF HealthInv, ErrorsKept, Pinged
    <2> QED BY <1>1, <1>3, <2>2 DEF HealthInv, AnswerIsRight, HasAnswered, Pinged
  <1> QED BY <1>5, <1>6 DEF Pinged

LEMMA SendErrorInv ==
    ASSUME HealthInv, NEW z \in Sources, SendError(z)
    PROVE  HealthInv'
  <1>1. check = "waiting" /\ check' = "waiting"
    BY WaitedFor DEF SendError
  <1>2. z \in ds
    BY DEF HealthInv, ErrorsKept, SendError
  <1>3. HealthTypeOK'
    BY <1>2 DEF HealthInv, HealthTypeOK, SendError
  <1>4. Unsent' = Unsent \ {z} /\ z \in Unsent
    BY <1>2 DEF HealthInv, HealthTypeOK, SendError, Unsent
  <1>5. /\ \A y \in errsCH' : ping'[y] = "done"
        /\ \A y \in Sources : ping'[y] # "none" => y \in ds'
    BY <1>2 DEF HealthInv, HealthTypeOK, ErrorsKept, SendError
  <1>6. ErrorsKept'
    BY <1>4, <1>5 DEF HealthInv, ErrorsKept, SendError
  <1> QED BY <1>1, <1>3, <1>6 DEF HealthInv, AnswerIsRight, HasAnswered, SendError

LEMMA WaitInv ==
    ASSUME HealthInv, Wait
    PROVE  HealthInv'
  <1>1. HealthTypeOK'
    BY DEF HealthInv, HealthTypeOK, Wait
  <1>2. \A z \in Sources : ping[z] \in {"none", "done"}
    BY DEF HealthInv, HealthTypeOK, ErrorsKept, Wait
  <1>3. ErrorsKept'
    BY DEF HealthInv, ErrorsKept, Unsent, Wait
  <1>4. Cardinality(errsCH) <= receives
    BY SourcesCounted DEF HealthInv, HealthTypeOK, Wait
  <1> QED BY <1>1, <1>2, <1>3, <1>4
          DEF HealthInv, AnswerIsRight, HasAnswered, Wait

LEMMA CollectInv ==
    ASSUME HealthInv, Collect
    PROVE  HealthInv'
  <1>1. /\ HealthTypeOK /\ ErrorsKept
        /\ check = "collecting" /\ Cardinality(ds) > 1
        /\ \A y \in Sources : ping[y] \in {"none", "done"}
        /\ Cardinality(errsCH) <= receives
    BY DEF HealthInv, Collect
  <1>2. receives \in Nat /\ receives > 0 /\ receives' = receives - 1
    BY <1>1 DEF HealthTypeOK, Collect
  <1>3. HealthTypeOK'
    BY <1>1, <1>2 DEF HealthTypeOK, Collect
  <1>4. ErrorsKept' /\ Cardinality(errsCH') <= receives'
    <2>1. CASE \E z \in errsCH : errsCH' = errsCH \ {z} /\ errrs' = errrs \cup {z}
      <3>1. PICK z \in errsCH : errsCH' = errsCH \ {z} /\ errrs' = errrs \cup {z}
        BY <2>1
      <3>2. ErrorsKept'
        BY <1>1, <3>1 DEF ErrorsKept, Unsent, Collect
      <3>3. Cardinality(errsCH') = Cardinality(errsCH) - 1
        BY <1>1, <3>1, OneReceived
      <3>4. Cardinality(errsCH) \in Nat
        BY <1>1, SourcesCounted DEF HealthTypeOK
      <3> QED BY <1>1, <1>2, <3>2, <3>3, <3>4
    <2>2. CASE errsCH = {} /\ UNCHANGED <<errsCH, errrs>>
      <3>1. ErrorsKept'
        BY <1>1, <2>2 DEF ErrorsKept, Unsent, Collect
      <3>2. Cardinality(errsCH') = 0
        BY <2>2, FS_EmptySet
      <3> QED BY <1>2, <3>1, <3>2
    <2> QED BY <2>1, <2>2 DEF Collect
  <1> QED BY <1>1, <1>3, <1>4 DEF HealthInv, AnswerIsRight, HasAnswered, Collect

LEMMA ReplyInv ==
    ASSUME HealthInv, Reply
    PROVE  HealthInv'
  <1>1. /\ HealthTypeOK /\ ErrorsKept
        /\ Cardinality(ds) > 1
        /\ \A y \in Sources : ping[y] \in {"none", "done"}
        /\ Cardinality(errsCH) <= 0
    BY DEF HealthInv, Reply
  <1>2. errsCH = {} /\ Unsent = {}
    BY <1>1, NothingLeft DEF HealthTypeOK, Unsent
  <1>3. errrs = broken
    BY <1>1, <1>2 DEF ErrorsKept
  <1>4. check' \in {"success", "internal"} /\ (check' = "success" <=> errrs = {})
    BY DEF Reply, Answered
  <1>5. HealthTypeOK' /\ ErrorsKept'
    BY <1>1, <1>4 DEF HealthTypeOK, ErrorsKept, Unsent, Reply
  <1> QED BY <1>1, <1>3, <1>4, <1>5 DEF HealthInv, AnswerIsRight, Reply

LEMMA HealthStutterInv ==
    ASSUME HealthInv, UNCHANGED healthVars
    PROVE  HealthInv'
  BY DEF HealthInv, HealthTypeOK, ErrorsKept, Unsent, AnswerIsRight, HasAnswered,
         healthVars

(***************************************************************************)
(* The theorems.                                                           *)
(***************************************************************************)

(* However many sources there are, and whichever of their pings fail in    *)
(* whatever order: HealthzCheck loses no error and counts none twice.      *)
THEOREM HealthInvHolds == HealthSpec => []HealthInv
  <1>1. ASSUME HealthInv, [HealthNext]_healthVars
        PROVE  HealthInv'
    BY <1>1, CheckDirectlyInv, StartPingsInv, PingedInv, SendErrorInv, WaitInv,
       CollectInv, ReplyInv, HealthStutterInv DEF HealthNext
  <1> QED BY <1>1, HealthInitInv, PTL DEF HealthSpec

(* HealthzCheck answers success exactly if every source answered its ping; *)
(* with more than one source its answer tells all errors, and no goroutine *)
(* is left that would send to the closed channel.                          *)
THEOREM AnswerTellsErrors == HealthSpec => []AnswerIsRight
  <1>1. HealthInv => AnswerIsRight
    BY DEF HealthInv
  <1> QED BY <1>1, HealthInvHolds, PTL

(* The buffer of errsCH, one place per source, has room for every goroutine*)
(* with an error: none waits for the loop that starts only after them all. *)
THEOREM NoSendWaits == HealthSpec => []SendNeverBlocks
  <1>1. ASSUME HealthInv, NEW z \in Sources, ping[z] = "sending"
        PROVE  Cardinality(errsCH) < Buffer
    <2>1. HealthTypeOK /\ z \in ds /\ z \notin errsCH
      BY <1>1 DEF HealthInv, ErrorsKept
    <2> QED BY <2>1, OneMissing DEF HealthTypeOK, Buffer
  <1>2. HealthInv => SendNeverBlocks
    BY <1>1 DEF SendNeverBlocks
  <1> QED BY <1>2, HealthInvHolds, PTL
=============================================================================
