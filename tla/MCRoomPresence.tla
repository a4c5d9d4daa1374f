--------------------------- MODULE MCRoomPresence ---------------------------
(* Instances of RoomPresence for TLC. *)
EXTENDS RoomPresence, TLC

CONSTANTS u1, u2, s1, s2, s3

(* Two windows of one user. *)
TwoWindows == s1 :> u1 @@ s2 :> u1

(* Two users for one place. *)
TwoUsers == s1 :> u1 @@ s2 :> u2
=============================================================================
