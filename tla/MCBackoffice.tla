---------------------------- MODULE MCBackoffice ----------------------------
(***************************************************************************)
(* Instances of Rooms, AiSummary, LogCount and Listings for TLC.  They     *)
(* share no variable and no constant that matters to two of them, so that  *)
(* each behaviour moves one part and leaves the others at rest.            *)
(***************************************************************************)
EXTENDS Rooms, AiSummary, LogCount, Listings

VARIABLE part

backoffice == <<roomsVars, summaryVars, countVars, listVars, part>>

(* A filter that lets every row pass, and one that lets every other. *)
MCPasses(f, m) == f = "all" \/ m % 2 = 1

Init ==
    /\ RoomsInit /\ SummaryInit /\ CountInit /\ ListInit
    /\ part \in {"rooms", "summary", "count", "list"}
    /\ part # "list" => kind = "rooms" /\ params.filter = "all"

Next ==
    /\ UNCHANGED part
    /\ \/ part = "rooms"   /\ RoomsNext   /\ UNCHANGED <<summaryVars, countVars, listVars>>
       \/ part = "summary" /\ SummaryNext /\ UNCHANGED <<roomsVars, countVars, listVars>>
       \/ part = "count"   /\ CountNext   /\ UNCHANGED <<roomsVars, summaryVars, listVars>>
       \/ part = "list"    /\ ListNext    /\ UNCHANGED <<roomsVars, summaryVars, countVars>>

(* Only the nightly job is held to go on. *)
Spec == Init /\ [][Next]_backoffice /\ RoomsFairness

(* The types of the parts. *)
TypeOK == RoomsTypeOK /\ SummaryTypeOK /\ CountTypeOK /\ ListTypeOK
=============================================================================
