-------------------------- MODULE MCMessageBuffer --------------------------
(* Instances of MessageBuffer for TLC. *)
EXTENDS MessageBuffer, TLC

CONSTANTS p1, p2, m1, m2, m3, d1, d2

(* Faults: two messages through two processes, nobody deletes. *)
NoTarget == [d \in {} |-> m1]
NoOwn == [d \in {} |-> TRUE]
FaultsServedBy == m1 :> p1 @@ m2 :> p2

(* Deletes: the author deletes m1, somebody else names m2; one process, as
   without an overrun the lock admits one batch at a time anyway. *)
DeletesTarget == d1 :> m1 @@ d2 :> m2
DeletesOwn == d1 :> TRUE @@ d2 :> FALSE
DeletesServedBy == m1 :> p1 @@ m2 :> p1 @@ d1 :> p1 @@ d2 :> p1

(* One delete, three messages, one process: enough to move the positions. *)
CacheTarget == d1 :> m1
CacheOwn == d1 :> TRUE
CacheServedBy == m1 :> p1 @@ m2 :> p1 @@ m3 :> p1 @@ d1 :> p1
=============================================================================
