------------------------------ MODULE MCTeller ------------------------------
(***************************************************************************)
(* Instances of Teller for TLC.  Each .cfg picks its constants from here.  *)
(***************************************************************************)
EXTENDS StatusReplies, TLC

CONSTANTS n1, n2, w1, w2, w3, email, push, home, phone, r1, r2

(* One notification to an e-mail address and a phone. *)
OneBatch == (r1 :> {n1})
OneToBoth == (n1 :> {home, phone})
OneToPhone == (n1 :> {phone})

(* Two notifications, one of them to both channels. *)
BulkBatch == (r1 :> {n1, n2})
TwoBatches == (r1 :> {n1}) @@ (r2 :> {n2})
OneToBothOneToPhone == (n1 :> {home, phone}) @@ (n2 :> {phone})
TwoToPhone == (n1 :> {phone}) @@ (n2 :> {phone})

ChannelOfEntry == (home :> email) @@ (phone :> push)

(* Two addresses on one channel, whose results share an entry of the row. *)
SharedChannel == (home :> email) @@ (phone :> email)

WorkerSymmetry == Permutations(Workers)
=============================================================================
