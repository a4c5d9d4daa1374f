---------------------------- MODULE MCMessageId ----------------------------
(* Instances of MessageId for TLC. *)
EXTENDS MessageId, TLC

CONSTANTS p1, p2

(* docker-compose starts two replicas and sets NODE_APP_INSTANCE in none. *)
Deployed == [p \in Procs |-> 0]

(* Two workers, told apart as a process manager would. *)
Numbered == p1 :> 0 @@ p2 :> 1
=============================================================================
