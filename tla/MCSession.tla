------------------------------ MODULE MCSession ------------------------------
(* Instances of Session for TLC. *)
EXTENDS Session, TLC

(* Nothing tells requests, accounts or names apart. *)
Alike == Permutations(Reqs) \cup Permutations(Users) \cup Permutations(Names)
=============================================================================
