------------------------------- MODULE WPubSub -------------------------------
(***************************************************************************)
(* The other in-memory pubsub (pkg/wpubsub/wpubsub.go) for one topic.      *)
(* Unlike MemoryPubSub its Publish holds the lock only to read the list of *)
(* handlers and starts them after that, nothing is unsubscribed, and Close *)
(* only empties the map: a later call is accepted as before.               *)
(***************************************************************************)
EXTENDS Naturals, FiniteSets

CONSTANT Clients     \* goroutines that make one call each

VARIABLES
    at,        \* where each call stands
    handlers,  \* the map's list for the topic
    local,     \* the list a call has read
    begun,     \* history: the handlers each Publish started
    known,     \* history: the subscriptions there were when it began
    emptied    \* history: the subscriptions that a Close removed

wpubsubVars == <<at, handlers, local, begun, known, emptied>>

WPubSubInit ==
    /\ at = [c \in Clients |-> "idle"]
    /\ handlers = {} /\ emptied = {}
    /\ local = [c \in Clients |-> {}]
    /\ begun = [c \in Clients |-> {}] /\ known = [c \in Clients |-> {}]

Moves(c, from, to) == at[c] = from /\ at' = [at EXCEPT ![c] = to]

(* Fault injection: Subscribe takes only the read lock. *)
SharedLock == \A c \in Clients : at[c] # "clearing"

(* The lock is free: w.mu.Lock, and w.mu.RLock as no reader keeps it. *)
Unlocked == \A c \in Clients : at[c] \notin {"appending", "clearing"}

Returned == {c \in Clients : at[c] = "subscribed"}

(* Fault injection: Publish goes through the map's list as it is by then. *)
RunListed(c) ==
    /\ at[c] = "publishing"
    /\ \/ /\ \E h \in handlers \ begun[c] : begun' = [begun EXCEPT ![c] = @ \cup {h}]
          /\ UNCHANGED local
       \/ /\ handlers \subseteq begun[c]
          /\ local' = [local EXCEPT ![c] = {}]
          /\ UNCHANGED begun
    /\ UNCHANGED <<at, handlers, known, emptied>>

(* Publish: the list as it is now, read under the lock ... *)
ReadHandlers(c) ==
    /\ Unlocked
    /\ Moves(c, "idle", "publishing")
    /\ local' = [local EXCEPT ![c] = handlers]
    /\ known' = [known EXCEPT ![c] = Returned \ emptied]
    /\ UNCHANGED <<handlers, begun, emptied>>

(* ... and starts a goroutine for each of them, without it.  When that     *)
(* goroutine calls its handler is of no consequence to the list.           *)
RunHandler(c) ==
    /\ at[c] = "publishing"
    /\ \E h \in local[c] \ begun[c] : begun' = [begun EXCEPT ![c] = @ \cup {h}]
    /\ UNCHANGED <<at, handlers, local, known, emptied>>

PublishDone(c) ==
    /\ local[c] \subseteq begun[c]
    /\ Moves(c, "publishing", "published")
    /\ UNCHANGED <<handlers, local, begun, known, emptied>>

(* Subscribe: append reads the list, the assignment stores the longer one. *)
SubscribeReads(c) ==
    /\ Unlocked
    /\ Moves(c, "idle", "appending")
    /\ local' = [local EXCEPT ![c] = handlers]
    /\ UNCHANGED <<handlers, begun, known, emptied>>

SubscribeStores(c) ==
    /\ Moves(c, "appending", "subscribed")
    /\ handlers' = local[c] \cup {c}
    /\ UNCHANGED <<local, begun, known, emptied>>

CloseLocks(c) ==
    /\ Unlocked
    /\ Moves(c, "idle", "clearing")
    /\ UNCHANGED <<handlers, local, begun, known, emptied>>

CloseClears(c) ==
    /\ Moves(c, "clearing", "closed")
    /\ handlers' = {}
    /\ emptied' = emptied \cup Returned
    /\ UNCHANGED <<local, begun, known>>

WPubSubNext ==
    \E c \in Clients :
        \/ ReadHandlers(c) \/ RunHandler(c) \/ PublishDone(c)
        \/ SubscribeReads(c) \/ SubscribeStores(c)
        \/ CloseLocks(c) \/ CloseClears(c)

WPubSubSpec == WPubSubInit /\ [][WPubSubNext]_wpubsubVars
-----------------------------------------------------------------------------
(* The list holds exactly the subscriptions that were not closed: none is  *)
(* lost to another Subscribe that runs at the same time, and none that a   *)
(* Close found survives it.                                                *)
NoSubscriptionLost == handlers = Returned \ emptied

(* A Publish that returned started every handler whose Subscribe had       *)
(* returned before it began and that no Close had removed by then; a Close *)
(* that comes later, while it starts them, does not stop it.               *)
EveryHandlerRuns ==
    \A c \in Clients : at[c] = "published" => known[c] \subseteq begun[c]

(***************************************************************************)
(* The inductive invariant: one call at a time holds the lock, the list it *)
(* read is still the map's when it stores a longer one, and a Publish has  *)
(* every subscription it must serve in the list it read.                   *)
(***************************************************************************)
WPubSubTypeOK ==
    /\ at \in [Clients -> {"idle", "publishing", "published", "appending",
                           "subscribed", "clearing", "closed"}]
    /\ handlers \subseteq Clients /\ emptied \subseteq Returned
    /\ local \in [Clients -> SUBSET Clients]
    /\ begun \in [Clients -> SUBSET Clients]
    /\ known \in [Clients -> SUBSET Clients]

OneHolder ==
    \A c, e \in Clients :
        at[c] \in {"appending", "clearing"} /\ at[e] \in {"appending", "clearing"}
            => c = e

ListUpToDate ==
    /\ \A c \in Clients : at[c] = "appending" => local[c] = handlers
    /\ \A c \in Clients :
          at[c] \in {"publishing", "published"} => known[c] \subseteq local[c]

WPubSubInv ==
    /\ WPubSubTypeOK
    /\ OneHolder
    /\ ListUpToDate
    /\ NoSubscriptionLost
    /\ \A c \in Clients : at[c] = "published" => local[c] \subseteq begun[c]
=============================================================================
