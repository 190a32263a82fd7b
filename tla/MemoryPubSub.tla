---------------------------- MODULE MemoryPubSub ----------------------------
(***************************************************************************)
(* The in-memory pubsub (pkg/wpubsub/memory_pubsub.go) for one topic.      *)
(* Publish holds the read lock, Subscribe, unsubscribe and Close the write *)
(* lock; who holds a lock is read off where the goroutines stand.  Every   *)
(* caller is a goroutine that makes one call; the goroutine a subscription *)
(* leaves behind, which waits for its context, continues its caller.       *)
(* Publish starts a goroutine for each handler under the lock; the handler *)
(* runs later, without it.                                                 *)
(***************************************************************************)
EXTENDS Naturals, FiniteSets

CONSTANT Callers

VARIABLES
    op,           \* where each goroutine stands
    subscribers,  \* the subscriptions of the topic
    closed,
    unstarted,    \* the handlers a Publish has yet to start a goroutine for
    spawned,      \* the goroutines, <<publish, subscription>>, yet to run
    called,       \* history: those whose handler was called
    awaiting      \* history: the subscriptions present when a Publish began

memoryVars == <<op, subscribers, closed, unstarted, spawned, called, awaiting>>

Ops == {"idle", "looking", "starting", "published", "appending", "subscribed",
        "removing", "unsubscribed", "closing", "closed", "refused"}

MemoryInit ==
    /\ op = [c \in Callers |-> "idle"]
    /\ subscribers = {} /\ closed = FALSE
    /\ unstarted = [c \in Callers |-> {}]
    /\ spawned = {} /\ called = {}
    /\ awaiting = [c \in Callers |-> {}]

(* Fault injection: the lock is released before the handlers start. *)
ReadingUntilLookup(c) == op[c] = "looking"

(* Fault injection: Publish takes no lock. *)
ReadingNever(c) == FALSE

Reading(c) == op[c] \in {"looking", "starting"}
Writing(c) == op[c] \in {"appending", "removing", "closing"}

RLock == \A c \in Callers : ~Writing(c)
Lock == \A c \in Callers : ~Writing(c) /\ ~Reading(c)

Step(c, from, to) == op[c] = from /\ op' = [op EXCEPT ![c] = to]

(* Publish: refused when closed; otherwise looks the topic up and starts a *)
(* goroutine for every handler.                                            *)
PublishBegins(c) ==
    /\ RLock
    /\ Step(c, "idle", IF closed THEN "refused" ELSE "looking")
    /\ awaiting' = [awaiting EXCEPT ![c] = subscribers]
    /\ UNCHANGED <<subscribers, closed, unstarted, spawned, called>>

Lookup(c) ==
    /\ Step(c, "looking", "starting")
    /\ unstarted' = [unstarted EXCEPT ![c] = subscribers]
    /\ UNCHANGED <<subscribers, closed, spawned, called, awaiting>>

(* The go statement. *)
StartHandler(c) ==
    /\ op[c] = "starting"
    /\ \E s \in unstarted[c] :
          /\ spawned' = spawned \cup {<<c, s>>}
          /\ unstarted' = [unstarted EXCEPT ![c] = @ \ {s}]
    /\ UNCHANGED <<op, subscribers, closed, called, awaiting>>

(* Its goroutine calls the handler, whatever became of the pubsub. *)
CallHandler(g) ==
    /\ spawned' = spawned \ {g}
    /\ called' = called \cup {g}
    /\ UNCHANGED <<op, subscribers, closed, unstarted, awaiting>>

PublishReturns(c) ==
    /\ unstarted[c] = {}
    /\ Step(c, "starting", "published")
    /\ UNCHANGED <<subscribers, closed, unstarted, spawned, called, awaiting>>

(* Fault injection: Subscribe does not look at closed. *)
SubscribeUnchecked(c) ==
    /\ Lock
    /\ Step(c, "idle", "appending")
    /\ UNCHANGED <<subscribers, closed, unstarted, spawned, called, awaiting>>

SubscribeBegins(c) ==
    /\ Lock
    /\ Step(c, "idle", IF closed THEN "refused" ELSE "appending")
    /\ UNCHANGED <<subscribers, closed, unstarted, spawned, called, awaiting>>

Append(c) ==
    /\ Step(c, "appending", "subscribed")
    /\ subscribers' = subscribers \cup {c}
    /\ UNCHANGED <<closed, unstarted, spawned, called, awaiting>>

(* The subscription's context is cancelled: unsubscribe takes the lock and *)
(* leaves the handler where it is, see its comment.                        *)
UnsubscribeBegins(c) ==
    /\ Lock
    /\ Step(c, "subscribed", "removing")
    /\ UNCHANGED <<subscribers, closed, unstarted, spawned, called, awaiting>>

Unsubscribe(c) ==
    /\ Step(c, "removing", "unsubscribed")
    /\ UNCHANGED <<subscribers, closed, unstarted, spawned, called, awaiting>>

CloseBegins(c) ==
    /\ Lock
    /\ Step(c, "idle", "closing")
    /\ closed' = TRUE
    /\ UNCHANGED <<subscribers, unstarted, spawned, called, awaiting>>

CloseEnds(c) ==
    /\ Step(c, "closing", "closed")
    /\ subscribers' = {}
    /\ UNCHANGED <<closed, unstarted, spawned, called, awaiting>>

MemoryNext ==
    \/ \E c \in Callers :
          \/ PublishBegins(c) \/ Lookup(c) \/ StartHandler(c) \/ PublishReturns(c)
          \/ SubscribeBegins(c) \/ Append(c)
          \/ UnsubscribeBegins(c) \/ Unsubscribe(c)
          \/ CloseBegins(c) \/ CloseEnds(c)
    \/ \E g \in spawned : CallHandler(g)

MemorySpec == MemoryInit /\ [][MemoryNext]_memoryVars
-----------------------------------------------------------------------------
(* Types, and Close leaves nothing behind: a subscription that raced with  *)
(* it was refused or removed, whichever took the lock first.               *)
RegistryOK ==
    /\ op \in [Callers -> Ops]
    /\ subscribers \subseteq Callers /\ closed \in BOOLEAN
    /\ unstarted \in [Callers -> SUBSET Callers]
    /\ spawned \cup called \subseteq Callers \X Callers
    /\ awaiting \in [Callers -> SUBSET Callers]
    /\ closed /\ (\A c \in Callers : op[c] # "closing") => subscribers = {}

(* The handlers that a go statement was executed for. *)
Started == spawned \cup called

(* A Publish that returns without an error started a goroutine for the     *)
(* handler of every subscription made before it began, even if Close was   *)
(* called meanwhile.                                                       *)
MessageReachesSubscribers ==
    \A p \in Callers : op[p] = "published" =>
        \A s \in awaiting[p] : <<p, s>> \in Started

(* Once Close returned, no Publish starts a goroutine any more, not even   *)
(* one that began before it: Close waited for it.  Handlers may still be   *)
(* called, but only those of goroutines started by then: what is left to   *)
(* run after a Close can only become less.                                 *)
NoStartAfterClose ==
    [][(\E c \in Callers : op[c] = "closed")
          => Started' = Started /\ spawned' \subseteq spawned]_memoryVars

(***************************************************************************)
(* The inductive invariant: who writes is alone, nobody appends or reads   *)
(* once the pubsub is closed, and between its look at closed and its       *)
(* return a Publish keeps every subscription it found either among the     *)
(* subscribers, or among those to start, or started.                       *)
(***************************************************************************)
LockHeld ==
    \A c \in Callers : Writing(c) =>
        \A e \in Callers \ {c} : ~Writing(e) /\ ~Reading(e)

ClosedIsFinal ==
    /\ \A c \in Callers : op[c] \in {"closing", "closed"} => closed
    /\ closed => \A c \in Callers : ~Reading(c) /\ op[c] # "appending"

PublishProgress(p) ==
    /\ op[p] = "looking" => awaiting[p] \subseteq subscribers
    /\ op[p] = "starting" =>
          \A s \in awaiting[p] : s \in unstarted[p] \/ <<p, s>> \in Started

MemoryInv ==
    /\ RegistryOK
    /\ LockHeld
    /\ ClosedIsFinal
    /\ \A p \in Callers : PublishProgress(p)
    /\ MessageReachesSubscribers
=============================================================================
