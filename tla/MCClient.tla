------------------------------ MODULE MCClient ------------------------------
(***************************************************************************)
(* Instances of ChatView, SearchPanel, MemberList and Browser, the four    *)
(* parts of the browser client, for TLC.  The message list and the search  *)
(* panel share the store and read nothing of each other; the other two     *)
(* share nothing at all.  One part at rest hides no behaviour of another,  *)
(* so each behaviour moves one of them, with the store.                    *)
(***************************************************************************)
EXTENDS ChatView, SearchPanel, MemberList, Browser, TLC

CONSTANTS q1, q2
VARIABLE part

(* q1 is in every message; q2 is in the third, and in the first in capitals. *)
MCHasWord(q, m) == q = q1 \/ m = 3
MCTableHasWord(q, m) == q = q1 \/ m % 2 = 1

(* The last two messages are of one millisecond. *)
MCRounded(m) == IF m = MaxPosted THEN m - 1 ELSE m

Init ==
    /\ StoreInit /\ ClientInit /\ PanelInit /\ MembersInit /\ BrowserInit
    /\ part \in {"list", "panel", "members", "browser"}
    /\ part # "browser" => alive = 0 /\ cookie = 0 /\ at = "open"
    /\ part # "panel" => query = q1
    /\ part \in {"members", "browser"} => trimmed = 0 /\ posted = Min(Held)

Next ==
    /\ UNCHANGED part
    /\ \/ part = "list"    /\ ClientNext  /\ UNCHANGED <<panel, memberVars, browserVars>>
       \/ part = "panel"   /\ PanelNext   /\ UNCHANGED <<client, memberVars, browserVars>>
       \/ part = "members" /\ MembersNext /\ UNCHANGED <<store, client, panel, browserVars>>
       \/ part = "browser" /\ BrowserNext /\ UNCHANGED <<store, client, panel, memberVars>>

Spec == Init /\ [][Next]_<<store, client, panel, memberVars, browserVars, part>>

(* Requests and handlers are told apart by what they do only. *)
Alike == Permutations(Slots) \cup Permutations(Workers) \cup Permutations(Calls)

(* The types of the store and of the four parts. *)
TypeOK == ViewTypeOK /\ PanelTypeOK /\ MembersTypeOK /\ BrowserTypeOK
=============================================================================
