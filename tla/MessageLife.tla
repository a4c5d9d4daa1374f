---------------------------- MODULE MessageLife ----------------------------
(***************************************************************************)
(* What the write-back pipeline and deleteMessage promise about a chat     *)
(* message, whatever Redis and MySQL commands carry it out                 *)
(* (redis.service.ts 227-425, messages.service.ts 77-186).                 *)
(* A message is "unsent", then "pending" from the moment the sender's MULTI *)
(* is executed, then "stored", perhaps "deleted" and that for good, or     *)
(* "lost".  It is lost only after it was exposed to a fault; `risk' holds  *)
(* the exposed ones.  Only a message its author deletes can come back from *)
(* being lost: a mark written to an outdated position is a copy of it.     *)
(***************************************************************************)
CONSTANTS Messages, Deletable       \* Deletable: those their authors delete

VARIABLES life, risk

vars == <<life, risk>>

Stages == {"unsent", "pending", "stored", "deleted", "lost"}

TypeOK ==
    /\ life \in [Messages -> Stages]
    /\ risk \in SUBSET Messages

Init ==
    /\ life = [m \in Messages |-> "unsent"]
    /\ risk = {}

(* Message m goes from stage `from' to stage `to'. *)
Goes(m, from, to) == life[m] = from /\ life'[m] = to

(* The messages of S go on to some stage, the others stay where they are.  *)
Only(S) ==
    /\ life' \in [Messages -> Stages]
    /\ \A m \in Messages \ S : life'[m] = life[m]

(* More messages are exposed. *)
Expose == risk \subseteq risk' /\ risk' \subseteq Messages

(* A message sent while two batches overlap is at risk from its first step. *)
Send ==
    \E m \in Messages :
        /\ Only({m})
        /\ Goes(m, "unsent", "pending")
        /\ risk' \in {risk, risk \cup {m}}

(* An INSERT stores some messages; one marked in time is stored deleted.   *)
Store ==
    /\ \E S \in SUBSET Messages :
        /\ Only(S)
        /\ \A m \in S : \/ Goes(m, "pending", "stored")
                        \/ Goes(m, "pending", "deleted") /\ m \in Deletable
    /\ UNCHANGED risk

Delete ==
    /\ \E m \in Deletable : Only({m}) /\ Goes(m, "stored", "deleted")
    /\ UNCHANGED risk

(* A fault exposes some messages, and exposed ones are lost. *)
Lose ==
    /\ Expose
    /\ \E S \in SUBSET risk' : Only(S) /\ \A m \in S : Goes(m, "pending", "lost")

(* A mark takes the place of other messages' copies and is one of r again. *)
Misplace ==
    /\ Expose
    /\ \E r \in Deletable \cap risk' : \E S \in SUBSET (risk' \ {r}) :
        /\ Only(S \cup {r})
        /\ Goes(r, "lost", "pending")
        /\ \A m \in S : Goes(m, "pending", "lost")

Next == Send \/ Store \/ Delete \/ Lose \/ Misplace

(* No message stays in Redis for ever: each one is stored or lost. *)
Settled ==
    \A m \in Messages : (life[m] = "pending") ~> (life[m] \in {"stored", "deleted", "lost"})

Steps == Init /\ [][Next]_vars

Spec == Steps /\ Settled
=============================================================================
