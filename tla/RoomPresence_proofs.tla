------------------------- MODULE RoomPresence_proofs -------------------------
(***************************************************************************)
(* Proofs about RoomPresence, for every set of users and sockets, every    *)
(* capacity and any number of operations.                                  *)
(***************************************************************************)
EXTENDS RoomPresence, FiniteSetTheorems, TLAPS

---------------------------------------------------------------------------
(* Type correctness *)

OpType ==
    [kind : (OpKinds \ {"expiry"}) \cup {"none"}, at : {"relations", "commit", "sockets", "end"},
     who : SUBSET Users, srem : SUBSET Users, lookup : SUBSET Users,
     out : SUBSET Sockets]

LEMMA InitTypeOK == Init => TypeOK
<1> SUFFICES ASSUME Init PROVE TypeOK OBVIOUS
<1>1. op \in OpType BY DEF Init, NoOp, OpType
<1>2. /\ jpc \in [Sockets -> JoinSteps] /\ lpc \in [Sockets -> LeaveSteps]
      /\ dpc \in [Sockets -> DiscSteps]
    BY DEF Init, JoinSteps, LeaveSteps, DiscSteps
<1> QED BY <1>1, <1>2 DEF Init, TypeOK, OpType

(* The connection of s ends, or had ended: both tables keep their types.   *)
LEMMA DropType ==
    ASSUME TypeOK, NEW s \in Sockets, Drop(s)
    PROVE  /\ link' \in [Sockets -> {"new", "open", "closing", "closed"}]
           /\ dpc' \in [Sockets -> DiscSteps]
BY DEF TypeOK, Drop, DiscSteps

(* disconnectSockets keeps the type of link. *)
LEMMA ClosingType ==
    ASSUME TypeOK, NEW S
    PROVE  Closing(S) \in [Sockets -> {"new", "open", "closing", "closed"}]
BY DEF TypeOK, Closing

(* A join that goes to a step other than "sweep" and owes no socket.       *)
LEMMA JoinMoves ==
    ASSUME TypeOK, NEW s \in Sockets, NEW step \in JoinSteps \ {"sweep"},
           JGoto(s, step), jpc[s] # "sweep", sweep' = sweep
    PROVE  /\ jpc' \in [Sockets -> JoinSteps] /\ sweep' \in [Sockets -> SUBSET Sockets]
           /\ \A t \in Sockets : jpc'[t] = "sweep" <=> sweep'[t] # {}
BY DEF TypeOK, JGoto

LEMMA HistoryType ==
    ASSUME TypeOK, Next
    PROVE  disturbed' \in SUBSET Users /\ raced' \in SUBSET Users
BY DEF TypeOK, Next

(* The sockets of a user are sockets. *)
LEMMA UserSockets == \A u : SocketsOf(u) \subseteq Sockets
BY DEF SocketsOf

(* What the end of a key leaves alone: all but the fields or the index. *)
LEMMA ExpiryFrame ==
    ASSUME NEW u \in Users, RoomsExpire(u) \/ SocketsExpire(u)
    PROVE  /\ UNCHANGED <<roomUsers, banned, deleted, link, jpc, sweep, lpc, dpc, op>>
           /\ hash' \subseteq hash /\ hash \subseteq hash' \cup strays'
           /\ indexed' \subseteq indexed /\ indexed \subseteq indexed' \cup expired'
           /\ strays \subseteq strays' /\ strays' \subseteq strays \cup hash
           /\ expired \subseteq expired' /\ expired' \subseteq expired \cup Users
           /\ ops' = ops + 1
BY DEF RoomsExpire, SocketsExpire, ExpiryDue, mysql, joins

(* What the joins keep of TypeOK. *)
LEMMA JoinType ==
    ASSUME TypeOK, Next, NEW s \in Sockets, Join(s)
    PROVE  TypeOK'
<1> USE HistoryType DEF redis, expiry, mysql, joins, JoinSteps
<1> DEFINE shape == /\ jpc' \in [Sockets -> JoinSteps]
                    /\ sweep' \in [Sockets -> SUBSET Sockets]
                    /\ \A t \in Sockets : jpc'[t] = "sweep" <=> sweep'[t] # {}
<1>0. UserOf[s] \in Users BY PresenceAssumption
<1>1. CASE JoinFindRoom(s)
    <2>1. shape BY <1>1, JoinMoves DEF JoinFindRoom, Reject
    <2>2. /\ link' \in [Sockets -> {"new", "open", "closing", "closed"}]
          /\ dpc' \in [Sockets -> DiscSteps]
        BY <1>1, DropType DEF JoinFindRoom, Reject, TypeOK
    <2> QED BY <1>1, <2>1, <2>2 DEF JoinFindRoom, TypeOK
<1>2. CASE JoinCount(s)
    <2>1. shape BY <1>2, JoinMoves DEF JoinCount, Reject
    <2>2. /\ link' \in [Sockets -> {"new", "open", "closing", "closed"}]
          /\ dpc' \in [Sockets -> DiscSteps]
        BY <1>2, DropType DEF JoinCount, Reject, TypeOK
    <2> QED BY <1>2, <2>1, <2>2 DEF JoinCount, TypeOK
<1>3. CASE JoinCheckBan(s)
    <2>1. shape BY <1>3, JoinMoves DEF JoinCheckBan, Reject
    <2>2. /\ link' \in [Sockets -> {"new", "open", "closing", "closed"}]
          /\ dpc' \in [Sockets -> DiscSteps]
        BY <1>3, DropType DEF JoinCheckBan, Reject, TypeOK
    <2> QED BY <1>3, <2>1, <2>2 DEF JoinCheckBan, TypeOK
<1>4. CASE JoinAddUser(s)
    <2>1. shape BY <1>4, JoinMoves DEF JoinAddUser
    <2> QED BY <1>0, <1>4, <2>1 DEF JoinAddUser, TypeOK
<1>5. CASE JoinIndex(s)
    <2>1. shape BY <1>5, JoinMoves DEF JoinIndex
    <2> QED BY <1>0, <1>5, <2>1 DEF JoinIndex, TypeOK
<1>6. CASE JoinReadSockets(s)
    <2>1. shape BY <1>6, UserSockets DEF JoinReadSockets, JGoto, TypeOK
    <2> QED BY <1>6, <2>1 DEF JoinReadSockets, TypeOK
<1>7. CASE JoinCloseOther(s)
    BY <1>7, ClosingType DEF JoinCloseOther, TypeOK
<1>8. CASE JoinForgetOther(s)
    <2>1. shape BY <1>8 DEF JoinForgetOther, JGoto, TypeOK
    <2> QED BY <1>8, <2>1 DEF JoinForgetOther, TypeOK
<1>9. CASE JoinAddSocket(s)
    <2>1. shape BY <1>9, JoinMoves DEF JoinAddSocket
    <2> QED BY <1>9, <2>1 DEF JoinAddSocket, LeaveSteps, TypeOK
<1> QED BY <1>1, <1>2, <1>3, <1>4, <1>5, <1>6, <1>7, <1>8, <1>9 DEF Join

(* What connections and leaves keep of TypeOK. *)
LEMMA LeaveType ==
    ASSUME TypeOK, Next, NEW s \in Sockets, Connect(s) \/ Disconnect(s) \/ Leave(s)
    PROVE  TypeOK'
<1> USE HistoryType DEF redis, expiry, mysql, joins, LeaveSteps, DiscSteps
<1>1. CASE Connect(s) BY <1>1 DEF Connect, TypeOK
<1>2. CASE Disconnect(s) BY <1>2, DropType DEF Disconnect, TypeOK
<1>3. CASE LeaveCheck(s)
    <2>1. lpc' \in [Sockets -> LeaveSteps] BY <1>3 DEF LeaveCheck, TypeOK
    <2>2. /\ link' \in [Sockets -> {"new", "open", "closing", "closed"}]
          /\ dpc' \in [Sockets -> DiscSteps]
        BY <1>3, DropType DEF LeaveCheck, TypeOK
    <2> QED BY <1>3, <2>1, <2>2 DEF LeaveCheck, TypeOK
<1>4. CASE LeaveRemove(s) BY <1>4 DEF LeaveRemove, Unrelate, TypeOK
<1>5. CASE DiscRead(s) BY <1>5 DEF DiscRead, DGoto, TypeOK
<1>6. CASE DiscCheck(s) BY <1>6 DEF DiscCheck, DGoto, TypeOK
<1>7. CASE DiscRemove(s) BY <1>7 DEF DiscRemove, DGoto, Unrelate, TypeOK
<1>8. CASE DiscForgetSocket(s) BY <1>8 DEF DiscForgetSocket, DGoto, TypeOK
<1> QED BY <1>1, <1>2, <1>3, <1>4, <1>5, <1>6, <1>7, <1>8 DEF Leave

(* What the operations on users and rooms keep of TypeOK. *)
LEMMA StartType ==
    ASSUME TypeOK, NEW kind, kind # "expiry", NEW at \in {"relations", "commit", "sockets", "end"},
           NEW who \in SUBSET Users, NEW srem \in SUBSET Users,
           NEW lookup \in SUBSET Users, Start(kind, at, who, srem, lookup)
    PROVE  op' \in OpType /\ ops' \in Nat
BY DEF Start, OpType, TypeOK

LEMMA OperationType ==
    ASSUME TypeOK, Next, Operation
    PROVE  TypeOK'
<1> USE HistoryType DEF redis, expiry, mysql, joins
<1>0. op \in OpType BY DEF TypeOK, OpType
<1>1. ASSUME NEW u \in Users, Kick(u) PROVE TypeOK'
    <2>1. Start("kick", "relations", {u}, {u}, {}) BY <1>1 DEF Kick
    <2>2. op' \in OpType /\ ops' \in Nat BY <2>1, StartType
    <2> QED BY <2>1, <2>2 DEF Start, TypeOK, OpType
<1>2. ASSUME NEW u \in Users, Ban(u) PROVE TypeOK'
    <2>1. Start("ban", "relations", {u}, {u}, {}) BY <1>2 DEF Ban
    <2>2. op' \in OpType /\ ops' \in Nat BY <2>1, StartType
    <2> QED BY <2>1, <2>2 DEF Start, TypeOK, OpType
<1>3. ASSUME NEW u \in Users, LeaveAll(u) PROVE TypeOK'
    <2>1. Start("leaveAll", "relations", {u}, {u}, {}) BY <1>3 DEF LeaveAll
    <2>2. op' \in OpType /\ ops' \in Nat BY <2>1, StartType
    <2> QED BY <2>1, <2>2 DEF Start, TypeOK, OpType
<1>4. CASE DeleteRoom
    <2>1. Start("deleteRoom", "relations", Users, roomUsers, roomUsers)
        BY <1>4 DEF DeleteRoom
    <2>2. roomUsers \in SUBSET Users BY DEF TypeOK
    <2>3. op' \in OpType /\ ops' \in Nat BY <2>1, <2>2, StartType
    <2> QED BY <2>1, <2>3 DEF Start, TypeOK, OpType
<1>5. CASE OpUnrelate
    <2>1. PICK u \in op.srem :
            op' = IF op.kind \in {"kick", "leaveAll"}
                  THEN [op EXCEPT !.srem = {}, !.lookup = {u}, !.at = "sockets"]
                  ELSE [op EXCEPT !.srem = @ \ {u}]
        BY <1>5 DEF OpUnrelate
    <2>2. u \in Users BY <1>0 DEF OpType
    <2>3. [op EXCEPT !.srem = @ \ {u}] \in OpType BY <1>0 DEF OpType
    <2>4. [op EXCEPT !.srem = {}, !.lookup = {u}, !.at = "sockets"] \in OpType
        BY <1>0, <2>2 DEF OpType
    <2>5. op' \in OpType BY <2>1, <2>3, <2>4
    <2> QED BY <1>5, <2>5 DEF OpUnrelate, Unrelate, TypeOK, OpType
<1>6. CASE OpClear
    <2>1. op' \in OpType BY <1>0, <1>6 DEF OpClear, OpType
    <2> QED BY <1>6, <2>1 DEF OpClear, TypeOK, OpType
<1>7. CASE OpCommit
    <2>1. op' \in OpType BY <1>0, <1>7 DEF OpCommit, OpType
    <2>2. banned' \in SUBSET Users /\ deleted' \in BOOLEAN
        BY <1>0, <1>7 DEF OpCommit, OpType, TypeOK
    <2> QED BY <1>7, <2>1, <2>2 DEF OpCommit, TypeOK, OpType
<1>8. CASE OpLookup
    <2>1. op' \in OpType BY <1>0, <1>8, UserSockets DEF OpLookup, OpType
    <2> QED BY <1>8, <2>1 DEF OpLookup, TypeOK, OpType
<1>9. CASE OpClose BY <1>9, ClosingType DEF OpClose, TypeOK
<1>10. CASE OpForget
    <2>1. op' \in OpType BY <1>0, <1>10 DEF OpForget, OpType
    <2> QED BY <1>10, <2>1 DEF OpForget, TypeOK, OpType
<1>11. CASE OpEnd
    <2>1. op' \in OpType BY <1>11 DEF OpEnd, NoOp, OpType
    <2> QED BY <1>11, <2>1 DEF OpEnd, TypeOK, OpType
<1> QED BY <1>1, <1>2, <1>3, <1>4, <1>5, <1>6, <1>7, <1>8, <1>9, <1>10, <1>11 DEF Operation

LEMMA NextTypeOK == TypeOK /\ [Next]_vars => TypeOK'
<1> SUFFICES ASSUME TypeOK, [Next]_vars PROVE TypeOK' OBVIOUS
<1>1. CASE Next
    <2>1. Step BY <1>1 DEF Next
    <2>2. ASSUME NEW u \in Users, RoomsExpire(u) \/ SocketsExpire(u) PROVE TypeOK'
        BY <1>1, <2>2, ExpiryFrame, HistoryType DEF TypeOK
    <2> QED BY <1>1, <2>1, <2>2, JoinType, LeaveType, OperationType DEF Step
<1>2. CASE UNCHANGED vars
    BY <1>2 DEF vars, redis, mysql, joins, TypeOK
<1> QED BY <1>1, <1>2

(* Every variable keeps its type, and a join that closes other windows     *)
(* always has one left to close.                                           *)
THEOREM TypeCorrect == Spec => []TypeOK
<1>1. Init => TypeOK BY InitTypeOK
<1>2. TypeOK /\ [Next]_vars => TypeOK' BY NextTypeOK
<1> QED BY <1>1, <1>2, PTL DEF Spec

---------------------------------------------------------------------------
(* Whoever receives the room's messages can be found.  PresentFindable is  *)
(* not inductive: handleDisconnect forgets a socket, so it must be known   *)
(* to run on closed connections only, and a join to have begun on a        *)
(* connection that was made.                                               *)

FindInv ==
    /\ PresentFindable
    /\ \A s \in Sockets : dpc[s] # "none" => link[s] = "closed"
    /\ \A s \in Sockets : link[s] = "new" => jpc[s] = "idle"

LEMMA InitFindInv == Init => FindInv
BY DEF Init, FindInv, PresentFindable, Present

(* A step that neither opens a connection nor finishes a join, and keeps    *)
(* in user:sockets every socket whose connection stays open.               *)
LEMMA KeepsFindable ==
    ASSUME TypeOK, FindInv,
           \A s \in Sockets : link'[s] = "open" => link[s] = "open",
           \A s \in Sockets : jpc'[s] = "in" => jpc[s] = "in",
           \A s \in Sockets : lpc[s] = "left" => lpc'[s] = "left",
           \A s \in Sockets : s \in hash /\ link'[s] = "open" => s \in hash' \cup strays',
           strays \subseteq strays'
    PROVE  PresentFindable'
BY DEF FindInv, PresentFindable, Present

(* The two other conjuncts, when links and disconnects stay as they are or  *)
(* connections close, and joins only move.                                 *)
LEMMA KeepsLinks ==
    ASSUME TypeOK, FindInv,
           \A s \in Sockets : link'[s] = "new" => link[s] = "new",
           \A s \in Sockets : link[s] = "closed" => link'[s] = "closed",
           \A s \in Sockets : dpc'[s] # "none" => dpc[s] # "none" \/ link'[s] = "closed",
           \A s \in Sockets : jpc[s] = "idle" /\ link[s] = "new" => jpc'[s] = "idle"
    PROVE  /\ \A s \in Sockets : dpc'[s] # "none" => link'[s] = "closed"
           /\ \A s \in Sockets : link'[s] = "new" => jpc'[s] = "idle"
BY DEF FindInv

LEMMA JoinFindInv ==
    ASSUME TypeOK, FindInv, NEW s \in Sockets, Join(s)
    PROVE  FindInv'
<1> USE DEF redis, expiry, mysql, joins, TypeOK, JGoto
<1>0. SUFFICES PresentFindable' /\ (\A t \in Sockets : dpc'[t] # "none" => link'[t] = "closed")
                /\ (\A t \in Sockets : link'[t] = "new" => jpc'[t] = "idle")
    BY DEF FindInv
<1>1. CASE JoinFindRoom(s)
    BY <1>1, KeepsFindable, KeepsLinks DEF JoinFindRoom, Reject, Drop, Linked
<1>2. CASE JoinCount(s)
    BY <1>2, KeepsFindable, KeepsLinks DEF JoinCount, Reject, Drop, Linked
<1>3. CASE JoinCheckBan(s)
    BY <1>3, KeepsFindable, KeepsLinks DEF JoinCheckBan, Reject, Drop, Linked
<1>4. CASE JoinAddUser(s) BY <1>4, KeepsFindable, KeepsLinks DEF JoinAddUser
<1>5. CASE JoinIndex(s) BY <1>5, KeepsFindable, KeepsLinks DEF JoinIndex
<1>6. CASE JoinReadSockets(s) BY <1>6, KeepsFindable, KeepsLinks DEF JoinReadSockets
<1>7. CASE JoinCloseOther(s)
    BY <1>7, KeepsFindable, KeepsLinks DEF JoinCloseOther, Closing
<1>8. CASE JoinForgetOther(s)
    BY <1>8, KeepsFindable, KeepsLinks DEF JoinForgetOther
<1>9. CASE JoinAddSocket(s)
    <2>1. PresentFindable'
        BY <1>9 DEF JoinAddSocket, FindInv, PresentFindable, Present
    <2> QED BY <1>9, <2>1, KeepsLinks DEF JoinAddSocket
<1> QED BY <1>1, <1>2, <1>3, <1>4, <1>5, <1>6, <1>7, <1>8, <1>9 DEF Join

LEMMA LeaveFindInv ==
    ASSUME TypeOK, FindInv, NEW s \in Sockets, Connect(s) \/ Disconnect(s) \/ Leave(s)
    PROVE  FindInv'
<1> USE DEF redis, expiry, mysql, joins, TypeOK, DGoto
<1>0. SUFFICES PresentFindable' /\ (\A t \in Sockets : dpc'[t] # "none" => link'[t] = "closed")
                /\ (\A t \in Sockets : link'[t] = "new" => jpc'[t] = "idle")
    BY DEF FindInv
<1>1. CASE Connect(s) BY <1>1 DEF Connect, FindInv, PresentFindable, Present
<1>2. CASE Disconnect(s)
    BY <1>2, KeepsFindable, KeepsLinks DEF Disconnect, Drop, Linked
<1>3. CASE LeaveCheck(s)
    BY <1>3, KeepsFindable, KeepsLinks DEF LeaveCheck, Drop, Linked
<1>4. CASE LeaveRemove(s) BY <1>4, KeepsFindable, KeepsLinks DEF LeaveRemove
<1>5. CASE DiscRead(s) BY <1>5, KeepsFindable, KeepsLinks DEF DiscRead
<1>6. CASE DiscCheck(s) BY <1>6, KeepsFindable, KeepsLinks DEF DiscCheck
<1>7. CASE DiscRemove(s) BY <1>7, KeepsFindable, KeepsLinks DEF DiscRemove
<1>8. CASE DiscForgetSocket(s)
    <2>1. link[s] = "closed" BY <1>8 DEF DiscForgetSocket, FindInv
    <2> QED BY <1>8, <2>1, KeepsFindable, KeepsLinks DEF DiscForgetSocket
<1> QED BY <1>1, <1>2, <1>3, <1>4, <1>5, <1>6, <1>7, <1>8 DEF Leave

LEMMA OperationFindInv ==
    ASSUME TypeOK, FindInv, Operation
    PROVE  FindInv'
<1> USE DEF redis, expiry, mysql, joins
<1>0. SUFFICES PresentFindable' /\ (\A t \in Sockets : dpc'[t] # "none" => link'[t] = "closed")
                /\ (\A t \in Sockets : link'[t] = "new" => jpc'[t] = "idle")
    BY DEF FindInv
<1>1. CASE UNCHANGED <<hash, strays, link, jpc, lpc, dpc>>
    BY <1>1, KeepsFindable, KeepsLinks
<1>2. CASE OpClose
    BY <1>2, KeepsFindable, KeepsLinks DEF OpClose, Closing, TypeOK
<1>3. CASE OpForget
    BY <1>3, KeepsFindable, KeepsLinks DEF OpForget
<1>4. CASE \E u \in Users : Kick(u) \/ Ban(u) \/ LeaveAll(u)
    BY <1>1, <1>4 DEF Kick, Ban, LeaveAll, Start
<1>5. CASE DeleteRoom BY <1>1, <1>5 DEF DeleteRoom, Start
<1>6. CASE OpUnrelate \/ OpClear \/ OpCommit \/ OpLookup \/ OpEnd
    BY <1>1, <1>6 DEF OpUnrelate, OpClear, OpCommit, OpLookup, OpEnd
<1> QED BY <1>2, <1>3, <1>4, <1>5, <1>6 DEF Operation

LEMMA NextFindInv == TypeOK /\ FindInv /\ [Next]_vars => FindInv'
<1> SUFFICES ASSUME TypeOK, FindInv, [Next]_vars PROVE FindInv' OBVIOUS
<1>1. CASE Next
    <2>1. Step BY <1>1 DEF Next
    <2>2. ASSUME NEW u \in Users, RoomsExpire(u) \/ SocketsExpire(u) PROVE FindInv'
        BY <2>2, ExpiryFrame, KeepsFindable DEF FindInv
    <2> QED BY <2>1, <2>2, JoinFindInv, LeaveFindInv, OperationFindInv DEF Step
<1>2. CASE UNCHANGED vars
    BY <1>2 DEF vars, redis, mysql, joins, FindInv, PresentFindable, Present
<1> QED BY <1>1, <1>2

(* Whatever joins, leaves, disconnects and operations overlap, a socket    *)
(* that receives the room's messages is one that removeUserSocket finds.   *)
THEOREM PresentAreFindable == Spec => []PresentFindable
<1>1. Init => TypeOK /\ FindInv BY InitTypeOK, InitFindInv
<1>2. TypeOK /\ FindInv /\ [Next]_vars => (TypeOK /\ FindInv)'
    BY NextTypeOK, NextFindInv
<1>3. FindInv => PresentFindable BY DEF FindInv
<1> QED BY <1>1, <1>2, <1>3, PTL DEF Spec

---------------------------------------------------------------------------
(* Members can be found by leaveAllRooms.  MembersIndexed is inductive: a  *)
(* user is listed only by a join, which indexes the user next, and leaves   *)
(* the index only together with the list, or with the whole key.           *)

(* A step that lists nobody, takes from the index only users it takes from *)
(* the list, and ends no join between its two SADDs.                       *)
LEMMA KeepsIndexed ==
    ASSUME MembersIndexed, NEW U,
           roomUsers' \subseteq roomUsers \ U, indexed \subseteq indexed' \cup expired' \cup U,
           expired \subseteq expired',
           \A s \in Sockets : jpc[s] = "index" => jpc'[s] = "index"
    PROVE  MembersIndexed'
BY UserSockets DEF MembersIndexed, SocketsOf

LEMMA JoinIndexed ==
    ASSUME TypeOK, MembersIndexed, NEW s \in Sockets, Join(s)
    PROVE  MembersIndexed'
<1> USE DEF redis, expiry, JGoto, TypeOK
<1>1. CASE JoinAddUser(s)
    <2>1. jpc'[s] = "index" /\ \A t \in Sockets : jpc[t] = "index" => jpc'[t] = "index"
        BY <1>1 DEF JoinAddUser
    <2>2. s \in SocketsOf(UserOf[s]) BY DEF SocketsOf
    <2> QED BY <1>1, <2>1, <2>2 DEF JoinAddUser, MembersIndexed, SocketsOf
<1>2. CASE JoinIndex(s)
    BY <1>2 DEF JoinIndex, MembersIndexed, SocketsOf
<1>3. ASSUME ~JoinAddUser(s), ~JoinIndex(s) PROVE MembersIndexed'
    <2>1. roomUsers' = roomUsers /\ indexed' = indexed /\ expired' = expired
        BY <1>3 DEF Join, JoinFindRoom, JoinCount, JoinCheckBan, JoinReadSockets,
                    JoinCloseOther, JoinForgetOther, JoinAddSocket
    <2>2. \A t \in Sockets : jpc[t] = "index" => jpc'[t] = "index"
        BY <1>3 DEF Join, JoinFindRoom, JoinCount, JoinCheckBan, JoinReadSockets,
                    JoinCloseOther, JoinForgetOther, JoinAddSocket, Reject, joins
    <2> QED BY <2>1, <2>2, KeepsIndexed
<1> QED BY <1>1, <1>2, <1>3

LEMMA LeaveIndexed ==
    ASSUME MembersIndexed, NEW s \in Sockets, Connect(s) \/ Disconnect(s) \/ Leave(s)
    PROVE  MembersIndexed'
<1> USE DEF redis, expiry, joins
<1>1. CASE LeaveRemove(s) \/ DiscRemove(s)
    BY <1>1, KeepsIndexed DEF LeaveRemove, DiscRemove, Unrelate
<1>2. CASE Connect(s) \/ Disconnect(s) \/ LeaveCheck(s) \/ DiscRead(s) \/ DiscCheck(s)
                \/ DiscForgetSocket(s)
    BY <1>2, KeepsIndexed DEF Connect, Disconnect, LeaveCheck, DiscRead, DiscCheck,
                              DiscForgetSocket
<1> QED BY <1>1, <1>2 DEF Leave

LEMMA OperationIndexed ==
    ASSUME MembersIndexed, Operation
    PROVE  MembersIndexed'
<1> USE DEF redis, expiry, joins
<1>1. CASE OpUnrelate
    <2>1. PICK u \in op.srem : Unrelate(u) BY <1>1 DEF OpUnrelate
    <2> QED BY <1>1, <2>1, KeepsIndexed DEF OpUnrelate, Unrelate
<1>2. CASE OpClear
    BY <1>2 DEF OpClear, MembersIndexed
<1>3. CASE \E u \in Users : Kick(u) \/ Ban(u) \/ LeaveAll(u)
    BY <1>3, KeepsIndexed DEF Kick, Ban, LeaveAll, Start
<1>4. CASE DeleteRoom \/ OpCommit \/ OpLookup \/ OpClose \/ OpForget \/ OpEnd
    BY <1>4, KeepsIndexed DEF DeleteRoom, Start, OpCommit, OpLookup, OpClose, OpForget, OpEnd
<1> QED BY <1>1, <1>2, <1>3, <1>4 DEF Operation

LEMMA NextIndexed == TypeOK /\ MembersIndexed /\ [Next]_vars => MembersIndexed'
<1> SUFFICES ASSUME TypeOK, MembersIndexed, [Next]_vars PROVE MembersIndexed' OBVIOUS
<1>1. CASE Next
    <2>1. Step BY <1>1 DEF Next
    <2>2. ASSUME NEW u \in Users, RoomsExpire(u) \/ SocketsExpire(u) PROVE MembersIndexed'
        <3> DEFINE U == {}
        <3>1. roomUsers' \subseteq roomUsers \ U /\ indexed \subseteq indexed' \cup expired' \cup U
            BY <2>2, ExpiryFrame
        <3>2. expired \subseteq expired' /\ jpc' = jpc BY <2>2, ExpiryFrame
        <3> HIDE DEF U
        <3> QED BY <3>1, <3>2, KeepsIndexed
    <2> QED BY <2>1, <2>2, JoinIndexed, LeaveIndexed, OperationIndexed DEF Step
<1>2. CASE UNCHANGED vars
    BY <1>2 DEF vars, redis, joins, MembersIndexed
<1> QED BY <1>1, <1>2

(* Whoever is in the room's list is in user:rooms too, or a join of theirs  *)
(* is about to add it: leaveAllRooms misses no settled member.             *)
THEOREM MembersAreIndexed == Spec => []MembersIndexed
<1>1. Init => TypeOK /\ MembersIndexed BY InitTypeOK DEF Init, MembersIndexed
<1>2. TypeOK /\ MembersIndexed /\ [Next]_vars => (TypeOK /\ MembersIndexed)'
    BY NextTypeOK, NextIndexed
<1> QED BY <1>1, <1>2, PTL DEF Spec

---------------------------------------------------------------------------
(* What every state of the protocol satisfies                              *)

(* The handlers of a socket have begun. *)
Busy == {s \in Sockets : jpc[s] # "idle" \/ lpc[s] # "idle" \/ dpc[s] # "none"}

(* A field stands for a socket that joined, a closed connection has its     *)
(* handleDisconnect, a join closes windows of its own user.                *)
SocketInv ==
    /\ FindInv
    /\ IsFiniteSet(Busy)
    /\ \A s \in hash : jpc[s] = "in"
    /\ \A s \in Sockets : link[s] = "closed" => dpc[s] # "none"
    /\ \A s \in Sockets : sweep[s] \subseteq SocketsOf(UserOf[s])

(* The operation in progress works on its own users, in its own order. *)
OpInv ==
    /\ op.at = "end" => op = NoOp
    /\ op.kind = "none" => op.at = "end"
    /\ op.at = "commit" => op.kind = "deleteRoom"
    /\ op.kind = "deleteRoom" => op.who = Users
    /\ op.kind # "deleteRoom" /\ op.at = "relations" => op.lookup = {} /\ op.out = {}
    /\ op.kind \in {"kick", "leaveAll"} /\ op.at = "relations" =>
         op.srem = op.who /\ \A u, v \in op.who : u = v
    /\ op.lookup \cup op.srem \subseteq op.who
    /\ \A s \in op.out : UserOf[s] \in op.who

(* The two histories are up to date. *)
HistoryInv ==
    /\ \A u \in Users : Disturbed(u) => u \in disturbed
    /\ \A u \in Users : Raced(u) => u \in raced

LEMMA InitProtocol == Init => SocketInv /\ OpInv /\ HistoryInv
<1> SUFFICES ASSUME Init PROVE SocketInv /\ OpInv /\ HistoryInv OBVIOUS
<1>1. Busy = {} BY DEF Init, Busy
<1>2. SocketInv BY <1>1, InitFindInv, FS_EmptySet DEF Init, SocketInv
<1>3. OpInv BY DEF Init, OpInv, NoOp
<1>4. \A u : Joining(u) = {} /\ Leaving(u) = {} BY UserSockets DEF Init, Joining, Leaving
<1>5. HistoryInv BY <1>4 DEF Init, HistoryInv, Disturbed, Raced, NoOp
<1> QED BY <1>2, <1>3, <1>5

(* Handlers of one socket at most begin in a step. *)
LEMMA BusyGrows ==
    ASSUME TypeOK, Step
    PROVE  Busy' \subseteq Busy \/ \E s \in Sockets : Busy' \subseteq Busy \cup {s}
<1> USE DEF joins, redis, mysql, TypeOK
<1>1. ASSUME NEW s \in Sockets, Connect(s) \/ Disconnect(s) PROVE Busy' \subseteq Busy \cup {s}
    BY <1>1 DEF Connect, Disconnect, Drop, Busy
<1>2. ASSUME NEW s \in Sockets, Join(s) PROVE Busy' \subseteq Busy \cup {s}
    <2>1. CASE JoinFindRoom(s) \/ JoinCount(s) \/ JoinCheckBan(s)
        BY <2>1 DEF JoinFindRoom, JoinCount, JoinCheckBan, Reject, JGoto, Drop, Busy
    <2>2. CASE ~(JoinFindRoom(s) \/ JoinCount(s) \/ JoinCheckBan(s))
        BY <1>2, <2>2 DEF Join, JoinAddUser, JoinIndex, JoinReadSockets, JoinCloseOther,
                     JoinForgetOther, JoinAddSocket, JGoto, Busy
    <2> QED BY <2>1, <2>2
<1>3. ASSUME NEW s \in Sockets, Leave(s) PROVE Busy' \subseteq Busy \cup {s}
    BY <1>3 DEF Leave, LeaveCheck, LeaveRemove, DiscRead, DiscCheck, DiscRemove,
                DiscForgetSocket, DGoto, Drop, Busy
<1>4. ASSUME Operation PROVE Busy' = Busy
    BY <1>4 DEF Operation, Kick, Ban, LeaveAll, DeleteRoom, Start, OpUnrelate, OpClear, OpCommit,
                OpLookup, OpClose, OpForget, OpEnd, Busy
<1>5. ASSUME NEW u \in Users, RoomsExpire(u) \/ SocketsExpire(u) PROVE Busy' = Busy
    BY <1>5, ExpiryFrame DEF Busy
<1> QED BY <1>1, <1>2, <1>3, <1>4, <1>5 DEF Step

LEMMA NextSocketInv == TypeOK /\ SocketInv /\ [Next]_vars => SocketInv'
<1> SUFFICES ASSUME TypeOK, SocketInv, [Next]_vars PROVE SocketInv' OBVIOUS
<1>1. FindInv' BY NextFindInv DEF SocketInv
<1>2. CASE UNCHANGED vars
    BY <1>1, <1>2 DEF vars, redis, joins, SocketInv, Busy
<1>3. CASE Step
    <2> USE DEF joins, redis, mysql, TypeOK
    <2>0. IsFiniteSet(Busy')
        <3>1. IsFiniteSet(Busy) /\ \A s : IsFiniteSet(Busy \cup {s})
            BY FS_AddElement DEF SocketInv
        <3> QED BY <1>3, <3>1, BusyGrows, FS_Subset
    <2> DEFINE Rest == /\ \A s \in hash' : jpc'[s] = "in"
                       /\ \A s \in Sockets : link'[s] = "closed" => dpc'[s] # "none"
                       /\ \A s \in Sockets : sweep'[s] \subseteq SocketsOf(UserOf[s])
    <2>1. ASSUME NEW s \in Sockets, Connect(s) \/ Disconnect(s) PROVE Rest
        BY <2>1 DEF Connect, Disconnect, Drop, SocketInv
    <2>2. ASSUME NEW s \in Sockets, Join(s) PROVE Rest
        <3>1. CASE JoinFindRoom(s) \/ JoinCount(s) \/ JoinCheckBan(s)
            BY <3>1 DEF JoinFindRoom, JoinCount, JoinCheckBan, Reject, JGoto, Drop, SocketInv
        <3>2. CASE JoinAddUser(s) \/ JoinIndex(s) \/ JoinReadSockets(s)
            BY <3>2 DEF JoinAddUser, JoinIndex, JoinReadSockets, JGoto, SocketInv
        <3>3. CASE JoinCloseOther(s)
            BY <3>3 DEF JoinCloseOther, Closing, SocketInv
        <3>4. CASE JoinForgetOther(s) \/ JoinAddSocket(s)
            BY <3>4 DEF JoinForgetOther, JoinAddSocket, JGoto, SocketInv
        <3> QED BY <2>2, <3>1, <3>2, <3>3, <3>4 DEF Join
    <2>3. ASSUME NEW s \in Sockets, Leave(s) PROVE Rest
        BY <2>3 DEF Leave, LeaveCheck, LeaveRemove, DiscRead, DiscCheck, DiscRemove,
                    DiscForgetSocket, DGoto, Drop, SocketInv
    <2>4. ASSUME Operation PROVE Rest
        <3>1. CASE OpClose BY <3>1 DEF OpClose, Closing, SocketInv
        <3>2. CASE OpForget BY <3>2 DEF OpForget, SocketInv
        <3>3. CASE ~OpClose /\ ~OpForget
            <4>1. UNCHANGED <<hash, link, jpc, dpc, sweep>>
                BY <2>4, <3>3 DEF Operation, Kick, Ban, LeaveAll, DeleteRoom, Start, OpUnrelate,
                                  OpClear, OpCommit, OpLookup, OpEnd
            <4> QED BY <4>1 DEF SocketInv
        <3> QED BY <3>1, <3>2, <3>3
    <2>5. ASSUME NEW u \in Users, RoomsExpire(u) \/ SocketsExpire(u) PROVE Rest
        BY <2>5, ExpiryFrame DEF SocketInv
    <2> QED BY <1>1, <1>3, <2>0, <2>1, <2>2, <2>3, <2>4, <2>5 DEF Step, SocketInv
<1> QED BY <1>2, <1>3 DEF Next

LEMMA NextOpInv == TypeOK /\ OpInv /\ [Next]_vars => OpInv'
<1> SUFFICES ASSUME TypeOK, OpInv, [Next]_vars PROVE OpInv' OBVIOUS
<1>0. op \in OpType /\ roomUsers \subseteq Users BY DEF TypeOK, OpType
<1>1. CASE op' = op BY <1>1 DEF OpInv
<1>2. ASSUME NEW s \in Sockets, Connect(s) \/ Disconnect(s) \/ Join(s) \/ Leave(s) PROVE op' = op
    <2>1. CASE Connect(s) \/ Disconnect(s) BY <2>1 DEF Connect, Disconnect
    <2>2. CASE Join(s)
        BY <2>2 DEF Join, JoinFindRoom, JoinCount, JoinCheckBan, JoinAddUser, JoinIndex,
                    JoinReadSockets, JoinCloseOther, JoinForgetOther, JoinAddSocket
    <2>3. CASE Leave(s)
        BY <2>3 DEF Leave, LeaveCheck, LeaveRemove, DiscRead, DiscCheck, DiscRemove,
                    DiscForgetSocket
    <2> QED BY <1>2, <2>1, <2>2, <2>3
<1>3. ASSUME NEW u \in Users, Kick(u) \/ Ban(u) \/ LeaveAll(u) PROVE OpInv'
    BY <1>3 DEF Kick, Ban, LeaveAll, Start, OpInv, NoOp
<1>4. CASE DeleteRoom BY <1>0, <1>4 DEF DeleteRoom, Start, OpInv, NoOp
<1>5. CASE OpUnrelate BY <1>0, <1>5 DEF OpUnrelate, OpInv, OpType
<1>6. CASE OpClear BY <1>0, <1>6 DEF OpClear, OpInv, OpType
<1>7. CASE OpCommit BY <1>0, <1>7 DEF OpCommit, OpInv, OpType
<1>8. CASE OpLookup
    <2>1. PICK u \in op.lookup :
            op' = [op EXCEPT !.lookup = @ \ {u}, !.out = @ \cup (hash \cap SocketsOf(u))]
        BY <1>8 DEF OpLookup
    <2>2. /\ op'.kind = op.kind /\ op'.at = op.at /\ op'.who = op.who /\ op'.srem = op.srem
          /\ op'.lookup = op.lookup \ {u} /\ op'.out = op.out \cup (hash \cap SocketsOf(u))
          /\ op.at # "end" /\ (op.at = "relations" => op.kind = "deleteRoom")
        BY <1>0, <2>1 DEF OpType, OpInv, NoOp
    <2> QED BY <2>2 DEF OpInv, SocketsOf
<1>9. CASE OpClose BY <1>1, <1>9 DEF OpClose
<1>10. CASE OpForget
    <2>1. PICK s \in op.out : op' = [op EXCEPT !.out = @ \ {s}] BY <1>10 DEF OpForget
    <2>2. /\ op'.kind = op.kind /\ op'.at = op.at /\ op'.who = op.who /\ op'.srem = op.srem
          /\ op'.lookup = op.lookup /\ op'.out = op.out \ {s} /\ op.at # "end"
        BY <1>0, <2>1 DEF OpType, OpInv, NoOp
    <2> QED BY <2>2 DEF OpInv
<1>11. CASE OpEnd BY <1>11 DEF OpEnd, OpInv, NoOp
<1>12. CASE UNCHANGED vars BY <1>1, <1>12 DEF vars
<1>13. ASSUME NEW u \in Users, RoomsExpire(u) \/ SocketsExpire(u) PROVE op' = op
    BY <1>13, ExpiryFrame
<1> QED BY <1>1, <1>2, <1>3, <1>4, <1>5, <1>6, <1>7, <1>8, <1>9, <1>10, <1>11, <1>12, <1>13
        DEF Next, Step, Operation

LEMMA NextHistory == TypeOK /\ HistoryInv /\ [Next]_vars => HistoryInv'
<1> SUFFICES ASSUME HistoryInv, [Next]_vars PROVE HistoryInv' OBVIOUS
<1>1. CASE Next BY <1>1 DEF Next, HistoryInv
<1>2. CASE UNCHANGED vars
    BY <1>2 DEF vars, redis, mysql, joins, HistoryInv, Disturbed, Raced, Handlers, Joining,
                Leaving, Closed
<1> QED BY <1>1, <1>2

(* The handlers and the operation at work on a user whose join is not        *)
(* disturbed: the join, and nothing else.                                  *)
LEMMA OneOfMany ==
    ASSUME NEW J, NEW L, NEW C, IsFiniteSet(J), IsFiniteSet(L), IsFiniteSet(C),
           NEW b \in {0, 1}, NEW s \in J,
           ~(Cardinality(J) + Cardinality(L) + Cardinality(C) + b > 1)
    PROVE  J = {s} /\ L = {} /\ C = {} /\ b = 0
<1>1. /\ Cardinality(J) \in Nat /\ Cardinality(L) \in Nat /\ Cardinality(C) \in Nat
    BY FS_CardinalityType
<1>2. IsFiniteSet(J \ {s}) /\ Cardinality(J \ {s}) = Cardinality(J) - 1
    BY FS_RemoveElement
<1>3. Cardinality(J \ {s}) \in Nat BY <1>2, FS_CardinalityType
<1>4. Cardinality(J \ {s}) = 0 /\ Cardinality(L) = 0 /\ Cardinality(C) = 0 /\ b = 0
    BY <1>1, <1>2, <1>3
<1>5. J \ {s} = {} /\ L = {} /\ C = {} BY <1>2, <1>4, FS_EmptySet
<1> QED BY <1>4, <1>5

LEMMA BusyFinite ==
    ASSUME TypeOK, SocketInv, NEW u
    PROVE  IsFiniteSet(Joining(u)) /\ IsFiniteSet(Leaving(u)) /\ IsFiniteSet(Closed(u))
<1>1. Joining(u) \subseteq Busy /\ Leaving(u) \subseteq Busy /\ Closed(u) \subseteq Busy
    BY UserSockets DEF Joining, Leaving, Closed, Busy
<1> QED BY <1>1, FS_Subset DEF SocketInv

(* A join of u is alone, whoever leaves holds the room, and the windows     *)
(* that have lost their field are gone.                                    *)
Alone(u) ==
    /\ \A s \in Joining(u) : Joining(u) = {s} /\ Leaving(u) = {} /\ Closed(u) = {} /\ u \notin op.who
    /\ \A s \in Leaving(u) : s \in hash
    /\ \A s \in SocketsOf(u) \cap strays : dpc[s] = "done"

LEMMA UndisturbedAlone ==
    TypeOK /\ SocketInv /\ HistoryInv => \A u \in Users \ disturbed : Alone(u)
<1> SUFFICES ASSUME TypeOK, SocketInv, HistoryInv, NEW u \in Users, u \notin disturbed
             PROVE  Alone(u)
    OBVIOUS
<1>1. ~Disturbed(u) BY DEF HistoryInv
<1>2. ASSUME NEW s \in Joining(u)
      PROVE  Joining(u) = {s} /\ Leaving(u) = {} /\ Closed(u) = {} /\ u \notin op.who
    <2> DEFINE b == IF u \in op.who THEN 1 ELSE 0
    <2>1. ~(Cardinality(Joining(u)) + Cardinality(Leaving(u)) + Cardinality(Closed(u)) + b > 1)
        BY <1>1 DEF Disturbed, Handlers
    <2>2. b \in {0, 1} OBVIOUS
    <2> HIDE DEF b
    <2>3. Joining(u) = {s} /\ Leaving(u) = {} /\ Closed(u) = {} /\ b = 0
        BY <2>1, <2>2, OneOfMany, BusyFinite
    <2> QED BY <2>3 DEF b
<1> QED BY <1>1, <1>2 DEF Alone, Disturbed

AloneInv == \A u \in Users \ disturbed : Alone(u)

Protocol == TypeOK /\ SocketInv /\ OpInv /\ HistoryInv /\ AloneInv

LEMMA ProtocolHolds == Spec => []Protocol
<1>1. Init => TypeOK /\ SocketInv /\ OpInv /\ HistoryInv
    BY InitTypeOK, InitProtocol
<1>2. TypeOK /\ SocketInv /\ OpInv /\ HistoryInv /\ [Next]_vars
        => (TypeOK /\ SocketInv /\ OpInv /\ HistoryInv)'
    BY NextTypeOK, NextSocketInv, NextOpInv, NextHistory
<1>3. TypeOK /\ SocketInv /\ OpInv /\ HistoryInv => Protocol
    BY UndisturbedAlone DEF Protocol, AloneInv
<1> QED BY <1>1, <1>2, <1>3, PTL DEF Spec

---------------------------------------------------------------------------
(* What a step may change for a socket or a user                           *)

(* Operations leave the handlers of the sockets alone. *)
LEMMA OperationFrame ==
    ASSUME Operation
    PROVE  /\ UNCHANGED <<jpc, sweep, lpc, dpc>>
           /\ link' = link \/ \E s \in op.out : link' = Closing({s})
           /\ hash' = hash \/ \E s \in op.out : OpForget /\ link[s] # "open" /\ hash' = hash \ {s}
BY DEF Operation, Kick, Ban, LeaveAll, DeleteRoom, Start, OpUnrelate, OpClear, OpCommit,
       OpLookup, OpClose, OpForget, OpEnd, redis, joins

(* The join of a socket moves only through its own steps. *)
LEMMA JoinMovesBy ==
    ASSUME TypeOK, [Next]_vars, NEW s \in Sockets, jpc'[s] # jpc[s]
    PROVE  Join(s) /\ jpc[s] \notin {"in", "rejected"} /\ jpc'[s] # "idle"
<1> USE DEF joins, JGoto, TypeOK
<1>1. ASSUME NEW t \in Sockets, Join(t) PROVE t = s /\ jpc[s] \notin {"in", "rejected"} /\ jpc'[s] # "idle"
    <2>1. CASE JoinFindRoom(t) \/ JoinCount(t) \/ JoinCheckBan(t)
        BY <2>1 DEF JoinFindRoom, JoinCount, JoinCheckBan, Reject
    <2>2. CASE ~(JoinFindRoom(t) \/ JoinCount(t) \/ JoinCheckBan(t))
        BY <1>1, <2>2 DEF Join, JoinAddUser, JoinIndex, JoinReadSockets, JoinCloseOther,
                          JoinForgetOther, JoinAddSocket
    <2> QED BY <2>1, <2>2
<1>2. ASSUME NEW t \in Sockets, Connect(t) \/ Disconnect(t) \/ Leave(t) PROVE FALSE
    BY <1>2 DEF Connect, Disconnect, Leave, LeaveCheck, LeaveRemove, DiscRead, DiscCheck,
                DiscRemove, DiscForgetSocket
<1>3. CASE UNCHANGED vars BY <1>3 DEF vars
<1> QED BY <1>1, <1>2, <1>3, OperationFrame, ExpiryFrame DEF Next, Step

(* A socket enters the room by the last step of its join, and not else.     *)
LEMMA InFrom ==
    ASSUME TypeOK, [Next]_vars, NEW s \in Sockets, jpc'[s] = "in", jpc[s] # "in"
    PROVE  JoinAddSocket(s)
<1>1. Join(s) BY JoinMovesBy
<1> QED BY <1>1 DEF Join, JoinFindRoom, JoinCount, JoinCheckBan, JoinAddUser, JoinIndex,
                 JoinReadSockets, JoinCloseOther, JoinForgetOther, JoinAddSocket, Reject, JGoto,
                 joins, TypeOK

LEMMA LinkFrom ==
    ASSUME TypeOK, [Next]_vars, NEW s \in Sockets
    PROVE  /\ link'[s] = "open" => link[s] = "open" \/ Connect(s)
           /\ link[s] = "closed" => link'[s] = "closed"
           /\ link'[s] = "closed" /\ link[s] # "closed" => dpc'[s] = "read"
           /\ lpc[s] = "left" => lpc'[s] = "left" \/ JoinAddSocket(s)
<1> USE DEF TypeOK, joins
<1>1. ASSUME NEW t \in Sockets, Connect(t) \/ Disconnect(t)
      PROVE  /\ link'[s] = "open" => link[s] = "open" \/ Connect(s)
             /\ link[s] = "closed" => link'[s] = "closed"
             /\ link'[s] = "closed" /\ link[s] # "closed" => dpc'[s] = "read"
             /\ lpc' = lpc
    BY <1>1 DEF Connect, Disconnect, Drop, Linked
<1>2. ASSUME NEW t \in Sockets, Join(t)
      PROVE  /\ link'[s] = "open" => link[s] = "open"
             /\ link[s] = "closed" => link'[s] = "closed"
             /\ link'[s] = "closed" /\ link[s] # "closed" => dpc'[s] = "read"
             /\ lpc'[s] = lpc[s] \/ (JoinAddSocket(t) /\ s = t)
    <2>1. CASE JoinFindRoom(t) \/ JoinCount(t) \/ JoinCheckBan(t)
        BY <2>1 DEF JoinFindRoom, JoinCount, JoinCheckBan, Reject, Drop
    <2>2. CASE JoinCloseOther(t)
        BY <2>2 DEF JoinCloseOther, Closing
    <2>3. CASE JoinAddUser(t) \/ JoinIndex(t) \/ JoinReadSockets(t) \/ JoinForgetOther(t) \/ JoinAddSocket(t)
        BY <2>3 DEF JoinAddUser, JoinIndex, JoinReadSockets, JoinForgetOther, JoinAddSocket
    <2> QED BY <1>2, <2>1, <2>2, <2>3 DEF Join
<1>3. ASSUME NEW t \in Sockets, Leave(t)
      PROVE  /\ link'[s] = "open" => link[s] = "open"
             /\ link[s] = "closed" => link'[s] = "closed"
             /\ link'[s] = "closed" /\ link[s] # "closed" => dpc'[s] = "read"
             /\ lpc[s] = "left" => lpc'[s] = "left"
    <2>1. CASE LeaveCheck(t) BY <2>1 DEF LeaveCheck, Drop
    <2>2. CASE ~LeaveCheck(t)
        BY <1>3, <2>2 DEF Leave, LeaveRemove, DiscRead, DiscCheck, DiscRemove, DiscForgetSocket
    <2> QED BY <2>1, <2>2
<1>4. CASE Operation BY <1>4, OperationFrame DEF Closing
<1>5. CASE UNCHANGED vars BY <1>5 DEF vars
<1>6. ASSUME NEW u \in Users, RoomsExpire(u) \/ SocketsExpire(u)
      PROVE  UNCHANGED <<link, dpc, lpc>>
    BY <1>6, ExpiryFrame
<1> QED BY <1>1, <1>2, <1>3, <1>4, <1>5, <1>6 DEF Next, Step

(* A socket begins to receive the room's messages only by its join. *)
LEMMA PresentFrom ==
    ASSUME TypeOK, SocketInv, [Next]_vars, NEW s \in Sockets, Present(s)'
    PROVE  Present(s) \/ JoinAddSocket(s)
<1>1. jpc'[s] = "in" /\ link'[s] = "open" /\ lpc'[s] # "left" BY DEF Present
<1>2. lpc[s] # "left" \/ JoinAddSocket(s) BY <1>1, LinkFrom
<1>3. CASE jpc[s] = "in"
    <2>1. ~Connect(s) BY <1>3 DEF Connect, SocketInv, FindInv
    <2> QED BY <1>1, <1>2, <1>3, <2>1, LinkFrom DEF Present
<1> QED BY <1>1, <1>3, InFrom

(* A user is listed only by a join. *)
LEMMA ListedFrom ==
    ASSUME [Next]_vars, NEW u \in roomUsers', u \notin roomUsers
    PROVE  \E s \in SocketsOf(u) : JoinAddUser(s)
<1> USE DEF redis
<1>1. ASSUME NEW s \in Sockets, Join(s), ~JoinAddUser(s) PROVE FALSE
    BY <1>1 DEF Join, JoinFindRoom, JoinCount, JoinCheckBan, JoinIndex, JoinReadSockets,
                JoinCloseOther, JoinForgetOther, JoinAddSocket
<1>2. ASSUME NEW s \in Sockets, JoinAddUser(s) PROVE s \in SocketsOf(u)
    BY <1>2 DEF JoinAddUser, SocketsOf
<1>3. ASSUME NEW s \in Sockets, Connect(s) \/ Disconnect(s) \/ Leave(s) PROVE FALSE
    BY <1>3 DEF Connect, Disconnect, Leave, LeaveCheck, LeaveRemove, DiscRead, DiscCheck,
                DiscRemove, DiscForgetSocket, Unrelate
<1>4. CASE Operation
    BY <1>4 DEF Operation, Kick, Ban, LeaveAll, DeleteRoom, Start, OpUnrelate, OpClear, OpCommit,
                OpLookup, OpClose, OpForget, OpEnd, Unrelate
<1>5. CASE UNCHANGED vars BY <1>5 DEF vars
<1> QED BY <1>1, <1>2, <1>3, <1>4, <1>5, ExpiryFrame DEF Next, Step

(* A join begins when the room is not deleted, and passes the bans. *)
LEMMA JoiningFrom ==
    ASSUME TypeOK, [Next]_vars, NEW u, NEW s \in Joining(u)'
    PROVE  /\ s \in Joining(u) \/ (~deleted /\ jpc'[s] = "count")
           /\ jpc'[s] \notin {"count", "ban"} =>
                \/ s \in Joining(u) /\ jpc[s] \notin {"count", "ban"}
                \/ s \in Joining(u) /\ u \notin banned /\ jpc'[s] = "add"
<1>1. s \in Sockets /\ UserOf[s] = u /\ jpc'[s] \notin {"idle", "in", "rejected"}
    BY DEF Joining, SocketsOf
<1>2. CASE jpc'[s] = jpc[s] BY <1>1, <1>2 DEF Joining, SocketsOf
<1>3. CASE jpc'[s] # jpc[s]
    <2>1. Join(s) /\ jpc[s] \notin {"in", "rejected"} BY <1>1, <1>3, JoinMovesBy
    <2>2. jpc[s] = "idle" => JoinFindRoom(s)
        BY <2>1 DEF Join, JoinCount, JoinCheckBan, JoinAddUser, JoinIndex,
                    JoinReadSockets, JoinCloseOther, JoinForgetOther, JoinAddSocket
    <2>3. JoinFindRoom(s) => ~deleted /\ jpc'[s] = "count"
        BY <1>1 DEF JoinFindRoom, Reject, JGoto, TypeOK
    <2>4. jpc[s] \in {"count", "ban"} => JoinCount(s) \/ JoinCheckBan(s)
        BY <2>1 DEF Join, JoinFindRoom, JoinAddUser, JoinIndex,
                    JoinReadSockets, JoinCloseOther, JoinForgetOther, JoinAddSocket
    <2>5. JoinCount(s) => jpc'[s] = "ban"
        BY <1>1 DEF JoinCount, Reject, JGoto, TypeOK
    <2>6. JoinCheckBan(s) => u \notin banned /\ jpc'[s] = "add"
        BY <1>1 DEF JoinCheckBan, Reject, JGoto, TypeOK
    <2> QED BY <1>1, <2>1, <2>2, <2>3, <2>4, <2>5, <2>6 DEF Joining, SocketsOf
<1> QED BY <1>2, <1>3

(* Where the users and rooms operations are, when op changes. *)
LEMMA OpFrom ==
    ASSUME [Next]_vars
    PROVE  op' = op \/ Operation
<1> SUFFICES ASSUME ~Operation PROVE op' = op OBVIOUS
<1>1. ASSUME NEW s \in Sockets, Connect(s) \/ Disconnect(s) PROVE op' = op
    BY <1>1 DEF Connect, Disconnect
<1>2. ASSUME NEW s \in Sockets, Join(s) PROVE op' = op
    BY <1>2 DEF Join, JoinFindRoom, JoinCount, JoinCheckBan, JoinAddUser, JoinIndex,
                JoinReadSockets, JoinCloseOther, JoinForgetOther, JoinAddSocket
<1>3. ASSUME NEW s \in Sockets, Leave(s) PROVE op' = op
    BY <1>3 DEF Leave, LeaveCheck, LeaveRemove, DiscRead, DiscCheck, DiscRemove,
                DiscForgetSocket
<1> QED BY <1>1, <1>2, <1>3, ExpiryFrame DEF Next, Step, vars

(* The operation in progress will tell s to close. *)
Pursued(s) ==
    \/ UserOf[s] \in op.lookup \/ s \in op.out
    \/ op.kind = "ban" /\ op.at = "relations" /\ UserOf[s] \in op.who

(* The operation does not end before it has told s to close. *)
LEMMA PursuedStays ==
    ASSUME TypeOK, SocketInv, OpInv, [Next]_vars, NEW s \in Sockets,
           s \notin strays, Pursued(s), Present(s), Present(s)'
    PROVE  Pursued(s)' /\ op'.kind = op.kind /\ op'.who = op.who
<1>0. op \in OpType BY DEF TypeOK, OpType
<1>1. CASE op' = op BY <1>1 DEF Pursued
<1>2. op.at # "end" BY DEF OpInv, NoOp, Pursued
<1>3. ~DeleteRoom /\ \A u \in Users : ~(Kick(u) \/ Ban(u) \/ LeaveAll(u))
    BY <1>2 DEF DeleteRoom, Kick, Ban, LeaveAll, Start
<1>4. CASE OpUnrelate
    <2>1. PICK u \in op.srem :
            op' = IF op.kind \in {"kick", "leaveAll"}
                  THEN [op EXCEPT !.srem = {}, !.lookup = {u}, !.at = "sockets"]
                  ELSE [op EXCEPT !.srem = @ \ {u}]
        BY <1>4 DEF OpUnrelate
    <2>2. op.at = "relations" BY <1>4 DEF OpUnrelate
    <2>3. op.kind \notin {"kick", "leaveAll"} BY <2>2 DEF OpInv, Pursued
    <2>4. op' = [op EXCEPT !.srem = @ \ {u}] BY <2>1, <2>3
    <2> QED BY <1>0, <2>4 DEF OpType, Pursued
<1>5. CASE OpClear BY <1>0, <1>5 DEF OpClear, OpType, Pursued
<1>6. CASE OpCommit
    <2>1. op.kind = "ban" \/ op.kind = "deleteRoom" BY <1>6 DEF OpCommit, OpInv
    <2>2. /\ op'.kind = op.kind /\ op'.who = op.who /\ op'.out = op.out
          /\ op.kind = "ban" => op'.lookup = op.who
          /\ op.kind = "deleteRoom" => op'.lookup = op.lookup
        BY <1>0, <1>6, <2>1 DEF OpCommit, OpType
    <2>3. op.lookup \subseteq op.who /\ \A t \in op.out : UserOf[t] \in op.who BY DEF OpInv
    <2> QED BY <2>1, <2>2, <2>3 DEF Pursued
<1>7. CASE OpLookup
    <2>1. PICK u \in op.lookup :
            op' = [op EXCEPT !.lookup = @ \ {u}, !.out = @ \cup (hash \cap SocketsOf(u))]
        BY <1>7 DEF OpLookup
    <2>2. s \in hash BY DEF SocketInv, FindInv, PresentFindable
    <2>3. /\ op'.lookup = op.lookup \ {u} /\ op'.out = op.out \cup (hash \cap SocketsOf(u))
          /\ op'.kind = op.kind /\ op'.at = op.at /\ op'.who = op.who
        BY <1>0, <2>1 DEF OpType
    <2> QED BY <2>2, <2>3 DEF Pursued, SocketsOf
<1>8. CASE OpForget
    <2>1. PICK t \in op.out : link[t] # "open" /\ op' = [op EXCEPT !.out = @ \ {t}]
        BY <1>8 DEF OpForget
    <2>2. t # s BY <2>1 DEF Present
    <2> QED BY <1>0, <2>1, <2>2 DEF OpType, Pursued
<1>9. CASE OpClose BY <1>1, <1>9 DEF OpClose
<1>10. CASE OpEnd BY <1>10 DEF OpEnd, Pursued
<1> QED BY <1>1, <1>3, <1>4, <1>5, <1>6, <1>7, <1>8, <1>9, <1>10, OpFrom DEF Operation

---------------------------------------------------------------------------
(* A ban, or the deletion of the room, puts its users out for good         *)

(* What a ban or the deletion of the room has done, from its removal of the *)
(* relations on, to a user none of whose joins met it past its checks.     *)
PutOut(u) ==
    /\ u \in banned =>
         /\ u \notin roomUsers
         /\ \A s \in Joining(u) : jpc[s] \in {"count", "ban"}
         /\ \A s \in SocketsOf(u) \ strays : Present(s) => u \in op.who /\ Pursued(s)
    /\ op.kind = "ban" /\ op.at = "relations" /\ u \in op.who /\ u \notin op.srem
         => u \notin roomUsers
    /\ deleted \/ op.at = "commit" => u \notin roomUsers /\ Joining(u) = {}

PutOutInv == \A u \in Users \ raced : PutOut(u)

LEMMA InitPutOut == Init => PutOutInv
BY DEF Init, PutOutInv, PutOut, NoOp

(* A field that has ended with its key is not written again. *)
LEMMA StraysStay ==
    ASSUME [Next]_vars
    PROVE  /\ strays \subseteq strays'
           /\ strays' = strays \/ \E u \in Users : SocketsExpire(u)
<1> USE DEF redis, expiry
<1>1. ASSUME NEW s \in Sockets, Connect(s) \/ Disconnect(s) PROVE strays' = strays
    BY <1>1 DEF Connect, Disconnect
<1>2. ASSUME NEW s \in Sockets, Join(s) PROVE strays' = strays
    BY <1>2 DEF Join, JoinFindRoom, JoinCount, JoinCheckBan, JoinAddUser, JoinIndex,
                JoinReadSockets, JoinCloseOther, JoinForgetOther, JoinAddSocket
<1>3. ASSUME NEW s \in Sockets, Leave(s) PROVE strays' = strays
    BY <1>3 DEF Leave, LeaveCheck, LeaveRemove, DiscRead, DiscCheck, DiscRemove,
                DiscForgetSocket
<1>4. ASSUME Operation PROVE strays' = strays
    BY <1>4 DEF Operation, Kick, Ban, LeaveAll, DeleteRoom, Start, OpUnrelate, OpClear, OpCommit,
                OpLookup, OpClose, OpForget, OpEnd
<1>5. ASSUME NEW u \in Users, RoomsExpire(u) PROVE strays' = strays
    BY <1>5 DEF RoomsExpire
<1>6. ASSUME NEW u \in Users, SocketsExpire(u) PROVE strays \subseteq strays'
    BY <1>6 DEF SocketsExpire
<1>7. CASE UNCHANGED vars BY <1>7 DEF vars
<1> QED BY <1>1, <1>2, <1>3, <1>4, <1>5, <1>6, <1>7 DEF Next, Step

(* Exclusions become visible when they are committed, and stay. *)
LEMMA CommitFrom ==
    ASSUME [Next]_vars
    PROVE  /\ OpCommit \/ (banned' = banned /\ deleted' = deleted)
           /\ raced \subseteq raced' /\ strays \subseteq strays'
           /\ banned \subseteq banned' /\ (deleted => deleted')
<1> USE DEF mysql
<1>1. ASSUME NEW s \in Sockets, Connect(s) \/ Disconnect(s) PROVE banned' = banned /\ deleted' = deleted
    BY <1>1 DEF Connect, Disconnect
<1>2. ASSUME NEW s \in Sockets, Join(s) PROVE banned' = banned /\ deleted' = deleted
    BY <1>2 DEF Join, JoinFindRoom, JoinCount, JoinCheckBan, JoinAddUser, JoinIndex,
                JoinReadSockets, JoinCloseOther, JoinForgetOther, JoinAddSocket
<1>3. ASSUME NEW s \in Sockets, Leave(s) PROVE banned' = banned /\ deleted' = deleted
    BY <1>3 DEF Leave, LeaveCheck, LeaveRemove, DiscRead, DiscCheck, DiscRemove,
                DiscForgetSocket
<1>4. ASSUME Operation, ~OpCommit PROVE banned' = banned /\ deleted' = deleted
    BY <1>4 DEF Operation, Kick, Ban, LeaveAll, DeleteRoom, Start, OpUnrelate, OpClear,
                OpLookup, OpClose, OpForget, OpEnd
<1>5. OpCommit => banned \subseteq banned' /\ (deleted => deleted') BY DEF OpCommit
<1>6. CASE UNCHANGED vars BY <1>6 DEF vars, redis
<1>7. raced \subseteq raced' BY DEF Next, vars
<1>8. ASSUME NEW u \in Users, RoomsExpire(u) \/ SocketsExpire(u)
      PROVE  banned' = banned /\ deleted' = deleted
    BY <1>8, ExpiryFrame
<1> QED BY <1>1, <1>2, <1>3, <1>4, <1>5, <1>6, <1>7, <1>8, StraysStay DEF Next, Step

(* What changes the step of the operation. *)
LEMMA OpSteps ==
    ASSUME TypeOK, OpInv, [Next]_vars
    PROVE  /\ op'.at = "commit" => OpClear \/ op.at = "commit"
           /\ op'.at = "relations" =>
                \/ op'.srem = op'.who /\ op.at = "end" /\ op'.kind # "deleteRoom"
                \/ DeleteRoom
                \/ op.at = "relations" /\ op'.kind = op.kind /\ op'.who = op.who
           /\ op'.srem = op.srem \/ op'.srem = op'.who \/ OpUnrelate \/ DeleteRoom \/ OpEnd
<1>0. op \in OpType BY DEF TypeOK, OpType
<1>1. ASSUME NEW u \in Users, Kick(u) \/ Ban(u) \/ LeaveAll(u)
      PROVE  op'.at = "relations" /\ op'.srem = op'.who /\ op.at = "end" /\ op'.kind # "deleteRoom"
    BY <1>1 DEF Kick, Ban, LeaveAll, Start
<1>2. CASE DeleteRoom BY <1>2 DEF DeleteRoom, Start
<1>3. CASE OpUnrelate BY <1>0, <1>3 DEF OpUnrelate, OpType
<1>4. CASE OpClear BY <1>0, <1>4 DEF OpClear, OpType
<1>5. CASE OpCommit BY <1>0, <1>5 DEF OpCommit, OpType
<1>6. CASE OpLookup BY <1>0, <1>6 DEF OpLookup, OpType
<1>7. CASE OpForget BY <1>0, <1>7 DEF OpForget, OpType
<1>8. CASE OpClose BY <1>8 DEF OpClose
<1>9. CASE OpEnd BY <1>9 DEF OpEnd, NoOp
<1> QED BY <1>1, <1>2, <1>3, <1>4, <1>5, <1>6, <1>7, <1>8, <1>9, OpFrom DEF Operation

LEMMA NextPutOut == Protocol /\ Protocol' /\ PutOutInv /\ [Next]_vars => PutOutInv'
<1> SUFFICES ASSUME Protocol, Protocol', PutOutInv, [Next]_vars, NEW u \in Users, u \notin raced'
             PROVE  PutOut(u)'
    BY DEF PutOutInv
<1> USE DEF Protocol
<1>0. /\ u \notin raced /\ PutOut(u) /\ ~Raced(u) /\ ~Raced(u)'
    BY CommitFrom DEF PutOutInv, HistoryInv
<1>1. op \in OpType BY DEF TypeOK, OpType
<1>2. u \in roomUsers' => u \in roomUsers \/ \E s \in Joining(u) : JoinAddUser(s) /\ jpc[s] = "add"
    BY ListedFrom DEF JoinAddUser, Joining, SocketsOf
<1> DEFINE Gone == /\ u \notin roomUsers'
                   /\ \A s \in Joining(u)' : jpc'[s] \in {"count", "ban"}
                   /\ \A s \in SocketsOf(u) \ strays' :
                        Present(s)' => u \in op'.who /\ Pursued(s)'
<1>3. ASSUME u \in banned PROVE Gone
    <2>1. u \notin roomUsers' BY <1>0, <1>2, <1>3 DEF PutOut
    <2>2. \A s \in Joining(u)' : jpc'[s] \in {"count", "ban"}
        BY <1>0, <1>3, JoiningFrom DEF PutOut
    <2>3. ASSUME NEW s \in SocketsOf(u) \ strays', Present(s)' PROVE u \in op'.who /\ Pursued(s)'
        <3>1. s \in Sockets /\ s \notin strays BY StraysStay DEF SocketsOf
        <3>2. ~JoinAddSocket(s) BY <1>0, <1>3 DEF JoinAddSocket, PutOut, Joining
        <3>3. Present(s) BY <2>3, <3>1, <3>2, PresentFrom
        <3>4. u \in op.who /\ Pursued(s) BY <1>0, <1>3, <3>1, <3>3 DEF PutOut
        <3> QED BY <2>3, <3>1, <3>3, <3>4, PursuedStays
    <2> QED BY <2>1, <2>2, <2>3
<1>4. ASSUME u \notin banned, u \in banned' PROVE Gone
    <2>1. OpCommit /\ op.kind = "ban" /\ op.at = "relations" /\ op.srem = {} /\ u \in op.who
        BY <1>4, CommitFrom DEF OpCommit
    <2>2. /\ u \notin roomUsers /\ roomUsers' = roomUsers
          /\ UNCHANGED <<link, jpc, lpc>>
        BY <1>0, <2>1 DEF PutOut, OpCommit, redis, joins
    <2>3. op'.who = op.who /\ op'.lookup = op.who
        BY <1>1, <2>1 DEF OpCommit, OpType
    <2>4. \A s \in Joining(u) : jpc[s] \in {"count", "ban"}
        BY <1>0, <2>1 DEF Raced
    <2>5. \A s \in Joining(u)' : jpc'[s] \in {"count", "ban"}
        BY <2>2, <2>4 DEF Joining
    <2>6. \A s \in SocketsOf(u) : u \in op'.who /\ Pursued(s)'
        BY <2>1, <2>3 DEF Pursued, SocketsOf
    <2> QED BY <2>2, <2>5, <2>6
<1>5. ASSUME op'.kind = "ban", op'.at = "relations", u \in op'.who, u \notin op'.srem
      PROVE  u \notin roomUsers'
    <2>1. op.kind = "ban" /\ op.at = "relations" /\ u \in op.who
        BY <1>5, OpSteps DEF DeleteRoom, Start
    <2>2. \A s \in Joining(u)' : jpc'[s] \in {"count", "ban"}
        BY <1>0, <1>5 DEF Raced
    <2>3. \A s \in Joining(u) : JoinAddUser(s) => jpc'[s] = "index" /\ s \in Joining(u)'
        BY UserSockets DEF JoinAddUser, JGoto, TypeOK, Joining
    <2>4. u \in roomUsers' => u \in roomUsers BY <1>2, <2>2, <2>3
    <2>5. CASE u \notin op.srem BY <1>0, <2>1, <2>4, <2>5 DEF PutOut
    <2>6. CASE u \in op.srem
        <3>1. OpUnrelate BY <1>5, <2>1, <2>6, OpSteps DEF DeleteRoom, OpEnd, Start, NoOp
        <3>2. PICK v \in op.srem : Unrelate(v) /\ op' = [op EXCEPT !.srem = @ \ {v}]
            BY <2>1, <3>1 DEF OpUnrelate
        <3>3. u = v BY <1>1, <1>5, <2>6, <3>2 DEF OpType
        <3> QED BY <3>2, <3>3 DEF Unrelate
    <2> QED BY <2>5, <2>6
<1>6. ASSUME deleted \/ op.at = "commit" PROVE u \notin roomUsers' /\ Joining(u)' = {}
    <2>1. u \notin roomUsers /\ Joining(u) = {} BY <1>0, <1>6 DEF PutOut
    <2>2. u \notin roomUsers' BY <1>2, <2>1
    <2>3. ASSUME NEW s \in Joining(u)' PROVE FALSE
        <3>1. ~deleted /\ op.at = "commit" BY <1>6, <2>1, JoiningFrom
        <3>2. CASE op' = op BY <1>0, <3>1, <3>2, <2>3 DEF Raced, OpInv
        <3>3. CASE Operation BY <2>1, <2>3, <3>3, OperationFrame DEF Joining
        <3> QED BY <3>2, <3>3, OpFrom
    <2> QED BY <2>2, <2>3
<1>7. ASSUME ~deleted, op.at # "commit", deleted' \/ op'.at = "commit"
      PROVE  u \notin roomUsers' /\ Joining(u)' = {}
    <2>1. OpClear BY <1>7, OpSteps, CommitFrom DEF OpCommit
    <2>2. roomUsers' = {} /\ jpc' = jpc /\ op.at = "relations" /\ op.kind = "deleteRoom"
        BY <2>1 DEF OpClear, joins
    <2>3. Joining(u) = {} BY <1>0, <2>2 DEF Raced, OpInv
    <2>4. Joining(u)' = {} BY <2>2, <2>3 DEF Joining
    <2> QED BY <2>2, <2>4
<1>8. u \in banned' => Gone BY <1>3, <1>4
<1>9. deleted' \/ op'.at = "commit" => u \notin roomUsers' /\ Joining(u)' = {}
    BY <1>6, <1>7
<1> QED BY <1>5, <1>8, <1>9 DEF PutOut

LEMMA PutOutHolds == Spec => []PutOutInv
<1>1. Init => PutOutInv BY InitPutOut
<1>2. Protocol /\ Protocol' /\ PutOutInv /\ [Next]_vars => PutOutInv' BY NextPutOut
<1> QED BY <1>1, <1>2, ProtocolHolds, PTL DEF Spec

---------------------------------------------------------------------------
(* Membership is exact from an undisturbed join on                         *)

(* A field is written by a join; it is deleted by the handleDisconnect of   *)
(* its socket, or once the socket was told to close.                       *)
LEMMA HashSteps ==
    ASSUME TypeOK, [Next]_vars, NEW s \in Sockets
    PROVE  /\ s \in hash' => s \in hash \/ JoinAddSocket(s)
           /\ s \in hash => \/ s \in hash'
                            \/ DiscForgetSocket(s)
                            \/ \E t \in Sockets : JoinForgetOther(t) /\ s \in sweep[t]
                            \/ OpForget /\ s \in op.out
                            \/ s \in strays'
<1>1. ASSUME NEW t \in Sockets, Connect(t) \/ Disconnect(t) PROVE hash' = hash
    BY <1>1 DEF Connect, Disconnect, redis
<1>2. ASSUME NEW t \in Sockets, Join(t), ~JoinForgetOther(t), ~JoinAddSocket(t) PROVE hash' = hash
    BY <1>2 DEF Join, JoinFindRoom, JoinCount, JoinCheckBan, JoinAddUser, JoinIndex,
                JoinReadSockets, JoinCloseOther, redis
<1>3. ASSUME NEW t \in Sockets, JoinForgetOther(t)
      PROVE  (s \in hash' => s \in hash) /\ (s \in hash => s \in hash' \/ s \in sweep[t])
    BY <1>3 DEF JoinForgetOther
<1>4. ASSUME NEW t \in Sockets, JoinAddSocket(t)
      PROVE  (s \in hash' => s \in hash \/ s = t) /\ (s \in hash => s \in hash')
    BY <1>4 DEF JoinAddSocket
<1>5. ASSUME NEW t \in Sockets, Leave(t), ~DiscForgetSocket(t) PROVE hash' = hash
    BY <1>5 DEF Leave, LeaveCheck, LeaveRemove, DiscRead, DiscCheck, DiscRemove, redis
<1>6. ASSUME NEW t \in Sockets, DiscForgetSocket(t)
      PROVE  (s \in hash' => s \in hash) /\ (s \in hash => s \in hash' \/ s = t)
    BY <1>6 DEF DiscForgetSocket
<1>7. CASE Operation BY <1>7, OperationFrame
<1>8. CASE UNCHANGED vars BY <1>8 DEF vars, redis
<1>9. ASSUME NEW u \in Users, RoomsExpire(u) \/ SocketsExpire(u)
      PROVE  (s \in hash' => s \in hash) /\ (s \in hash => s \in hash' \/ s \in strays')
    BY <1>9, ExpiryFrame
<1> QED BY <1>1, <1>2, <1>3, <1>4, <1>5, <1>6, <1>7, <1>8, <1>9 DEF Next, Step

(* A user leaves the list by a leave or a disconnect, or by the operation. *)
LEMMA UnlistedBy ==
    ASSUME [Next]_vars, NEW u \in roomUsers, u \notin roomUsers'
    PROVE  \/ \E s \in SocketsOf(u) : LeaveRemove(s) \/ DiscRemove(s)
           \/ OpUnrelate /\ u \in op.srem
           \/ OpClear
<1>1. ASSUME NEW s \in Sockets, Connect(s) \/ Disconnect(s) PROVE FALSE
    BY <1>1 DEF Connect, Disconnect, redis
<1>2. ASSUME NEW s \in Sockets, Join(s) PROVE FALSE
    BY <1>2 DEF Join, JoinFindRoom, JoinCount, JoinCheckBan, JoinAddUser, JoinIndex,
                JoinReadSockets, JoinCloseOther, JoinForgetOther, JoinAddSocket, redis
<1>3. ASSUME NEW s \in Sockets, LeaveRemove(s) \/ DiscRemove(s) PROVE s \in SocketsOf(u)
    BY <1>3 DEF LeaveRemove, DiscRemove, Unrelate, SocketsOf
<1>4. ASSUME NEW s \in Sockets, Leave(s), ~LeaveRemove(s), ~DiscRemove(s) PROVE FALSE
    BY <1>4 DEF Leave, LeaveCheck, DiscRead, DiscCheck, DiscForgetSocket, redis
<1>5. ASSUME Operation, ~OpUnrelate, ~OpClear PROVE FALSE
    BY <1>5 DEF Operation, Kick, Ban, LeaveAll, DeleteRoom, Start, OpCommit, OpLookup, OpClose,
                OpForget, OpEnd, redis
<1>6. OpUnrelate => u \in op.srem BY DEF OpUnrelate, Unrelate
<1>7. CASE UNCHANGED vars BY <1>7 DEF vars, redis
<1> QED BY <1>1, <1>2, <1>3, <1>4, <1>5, <1>6, <1>7, ExpiryFrame DEF Next, Step

(* handleDisconnect moves by its own steps once the connection has ended. *)
LEMMA DisconnectSteps ==
    ASSUME TypeOK, [Next]_vars, NEW s \in Sockets, dpc'[s] # dpc[s]
    PROVE  \/ dpc'[s] = "read" /\ Linked(s)
           \/ DiscRead(s) \/ DiscCheck(s) \/ DiscRemove(s) \/ DiscForgetSocket(s)
<1> USE DEF TypeOK
<1>1. ASSUME NEW t \in Sockets, Connect(t) \/ Disconnect(t) PROVE dpc'[s] = "read" /\ Linked(s)
    BY <1>1 DEF Connect, Disconnect, Drop, Linked
<1>2. ASSUME NEW t \in Sockets, Join(t) PROVE dpc'[s] = "read" /\ Linked(s)
    BY <1>2 DEF Join, JoinFindRoom, JoinCount, JoinCheckBan, JoinAddUser, JoinIndex,
                JoinReadSockets, JoinCloseOther, JoinForgetOther, JoinAddSocket, Reject, Drop, Linked
<1>3. ASSUME NEW t \in Sockets, LeaveCheck(t) \/ LeaveRemove(t) PROVE dpc'[s] = "read" /\ Linked(s)
    BY <1>3 DEF LeaveCheck, LeaveRemove, Drop, Linked
<1>4. ASSUME NEW t \in Sockets, DiscRead(t) \/ DiscCheck(t) \/ DiscRemove(t) \/ DiscForgetSocket(t)
      PROVE  t = s
    BY <1>4 DEF DiscRead, DiscCheck, DiscRemove, DiscForgetSocket, DGoto
<1>5. CASE UNCHANGED vars BY <1>5 DEF vars
<1> QED BY <1>1, <1>2, <1>3, <1>4, <1>5, OperationFrame, ExpiryFrame DEF Next, Step, Leave

(* The sockets a join has to close are read once, then told to close. *)
LEMMA SweepSteps ==
    ASSUME TypeOK, [Next]_vars, NEW s \in Sockets, ~JoinReadSockets(s), ~JoinForgetOther(s)
    PROVE  sweep'[s] = sweep[s] /\ (jpc'[s] \in {"sweep", "hset"} => jpc'[s] = jpc[s])
<1> USE DEF TypeOK, joins
<1>1. ASSUME NEW t \in Sockets, Join(t) PROVE sweep'[s] = sweep[s]
    BY <1>1 DEF Join, JoinFindRoom, JoinCount, JoinCheckBan, JoinAddUser, JoinIndex,
                JoinReadSockets, JoinCloseOther, JoinForgetOther, JoinAddSocket
<1>2. ASSUME NEW t \in Sockets, Connect(t) \/ Disconnect(t) \/ Leave(t) PROVE sweep' = sweep
    BY <1>2 DEF Connect, Disconnect, Leave, LeaveCheck, LeaveRemove, DiscRead, DiscCheck,
                DiscRemove, DiscForgetSocket
<1>3. CASE UNCHANGED vars BY <1>3 DEF vars
<1>4. sweep'[s] = sweep[s]
    BY <1>1, <1>2, <1>3, OperationFrame, ExpiryFrame DEF Next, Step
<1>5. ASSUME jpc'[s] # jpc[s] PROVE jpc'[s] \notin {"sweep", "hset"}
    <2>1. Join(s) BY <1>5, JoinMovesBy
    <2> QED BY <1>5, <2>1 DEF Join, JoinFindRoom, JoinCount, JoinCheckBan, JoinAddUser, JoinIndex,
                JoinCloseOther, JoinAddSocket, Reject, JGoto
<1> QED BY <1>4, <1>5

(* leaveRoom: only LeaveRemove takes a socket out. *)
LEMMA LeftFrom ==
    ASSUME TypeOK, [Next]_vars, NEW s \in Sockets, lpc'[s] = "left"
    PROVE  lpc[s] = "left" \/ (lpc[s] = "remove" /\ LeaveRemove(s))
<1> USE DEF TypeOK
<1>1. ASSUME NEW t \in Sockets, Connect(t) \/ Disconnect(t) \/ Join(t) PROVE lpc[s] = "left"
    BY <1>1 DEF Connect, Disconnect, Join, JoinFindRoom, JoinCount, JoinCheckBan, JoinAddUser,
                JoinIndex, JoinReadSockets, JoinCloseOther, JoinForgetOther, JoinAddSocket
<1>2. ASSUME NEW t \in Sockets, Leave(t), ~LeaveRemove(t) PROVE lpc[s] = "left"
    BY <1>2 DEF Leave, LeaveCheck, DiscRead, DiscCheck, DiscRemove, DiscForgetSocket
<1>3. ASSUME NEW t \in Sockets, LeaveRemove(t)
      PROVE  lpc[s] = "left" \/ (lpc[s] = "remove" /\ s = t)
    BY <1>3 DEF LeaveRemove
<1>4. CASE UNCHANGED vars BY <1>4 DEF vars
<1> QED BY <1>1, <1>2, <1>3, <1>4, OperationFrame, ExpiryFrame DEF Next, Step

Fields(u) == hash \cap SocketsOf(u)

(* A window of u that receives the room's messages has its field. *)
LEMMA PresentHeld ==
    ASSUME Protocol, NEW u, Alone(u), NEW s \in SocketsOf(u), Present(s)
    PROVE  s \in Sockets \ strays /\ s \in Fields(u)
BY UserSockets DEF Protocol, SocketInv, FindInv, PresentFindable, Present, Alone, Fields

(* A join of u that is yet to close whatever else holds the room. *)
Clearing(u) == \E s \in Joining(u) : jpc[s] \in {"index", "read", "sweep"}

(* One window of u at a time, but for those that a join is about to close:  *)
(* its field is the only one, and whatever takes u out of the room does so  *)
(* for that window.                                                        *)
OneWindow(u) ==
    /\ \A s \in Joining(u) :
         /\ dpc[s] = "none"
         /\ jpc[s] = "sweep" => Fields(u) \subseteq sweep[s]
         /\ jpc[s] = "hset" => Fields(u) = {}
    /\ \/ Clearing(u)
       \/ /\ \A s, t \in Fields(u) : s = t
          /\ \A s \in SocketsOf(u) : dpc[s] = "done" => s \notin hash
    /\ \A s \in SocketsOf(u) : dpc[s] \in {"check", "remove"} => Fields(u) \subseteq {s}

(* A join of u that is alone goes on until it has closed the others. *)
LEMMA ClearingStays ==
    ASSUME TypeOK, [Next]_vars, NEW u, NEW s \in Joining(u), jpc[s] \in {"index", "read", "sweep"}
    PROVE  s \in Joining(u)' /\ jpc'[s] \in {"index", "read", "sweep", "hset"}
<1>0. s \in Sockets /\ UserOf[s] = u BY DEF Joining, SocketsOf
<1>1. jpc'[s] \in {"index", "read", "sweep", "hset"}
    <2>1. CASE jpc'[s] = jpc[s] BY <2>1
    <2>2. CASE jpc'[s] # jpc[s]
        <3>1. Join(s) BY <1>0, <2>2, JoinMovesBy
        <3>2. CASE JoinIndex(s) BY <1>0, <3>2 DEF JoinIndex, JGoto, TypeOK
        <3>3. CASE JoinReadSockets(s) BY <1>0, <3>3 DEF JoinReadSockets, JGoto, TypeOK
        <3>4. CASE JoinForgetOther(s) BY <1>0, <3>4 DEF JoinForgetOther, JGoto, TypeOK
        <3> QED BY <2>2, <3>1, <3>2, <3>3, <3>4
                DEF Join, JoinFindRoom, JoinCount, JoinCheckBan, JoinAddUser, JoinCloseOther,
                    JoinAddSocket, joins
    <2> QED BY <2>1, <2>2
<1> QED BY <1>0, <1>1 DEF Joining, SocketsOf

LEMMA NextOneWindow ==
    ASSUME Protocol, Protocol', [Next]_vars, NEW u \in Users, OneWindow(u), Alone(u), Alone(u)'
    PROVE  OneWindow(u)'
<1> USE DEF Protocol
<1>0. \A s : s \in SocketsOf(u) => s \in Sockets /\ UserOf[s] = u BY DEF SocketsOf
<1>1. ASSUME NEW s \in Fields(u)', s \notin Fields(u)
      PROVE  /\ JoinAddSocket(s) /\ s \in Joining(u) /\ jpc[s] = "hset" /\ jpc'[s] = "in"
             /\ Fields(u) = {} /\ Fields(u)' = {s} /\ dpc' = dpc
             /\ Joining(u) = {s} /\ Closed(u) = {} /\ dpc[s] = "none"
    <2>1. s \in Sockets /\ s \in SocketsOf(u) /\ JoinAddSocket(s)
        BY <1>0, <1>1, HashSteps DEF Fields
    <2>2. s \in Joining(u) /\ jpc[s] = "hset" /\ jpc'[s] = "in"
        BY <2>1 DEF JoinAddSocket, Joining, JGoto, TypeOK
    <2>3. Fields(u) = {} /\ dpc[s] = "none" BY <2>2 DEF OneWindow
    <2> QED BY <2>1, <2>2, <2>3 DEF JoinAddSocket, Fields, Alone
<1>3. ASSUME NEW s \in Joining(u)'
      PROVE  /\ dpc'[s] = "none"
             /\ jpc'[s] = "sweep" => Fields(u)' \subseteq sweep'[s]
             /\ jpc'[s] = "hset" => Fields(u)' = {}
    <2>0. s \in Sockets /\ UserOf[s] = u BY <1>0 DEF Joining
    <2>1. dpc'[s] = "none"
        <3>1. dpc'[s] \in {"none", "done"} BY <1>3 DEF Alone, Closed, Joining
        <3>2. dpc'[s] = "done" => dpc[s] # "none" /\ link[s] = "closed" /\ dpc'[s] # "none"
            BY <2>0, DisconnectSteps DEF DiscRead, DiscCheck, DiscRemove, DiscForgetSocket, DGoto,
                                         SocketInv, FindInv, TypeOK
        <3>3. CASE s \in Joining(u)
            BY <3>1, <3>2, <3>3 DEF OneWindow
        <3>4. CASE s \notin Joining(u)
            <4>1. JoinFindRoom(s) /\ Linked(s)
                BY <1>3, <2>0, <3>4, JoinMovesBy, JoiningFrom
                   DEF Join, JoinFindRoom, JoinCount, JoinCheckBan, JoinAddUser, JoinIndex,
                       JoinReadSockets, JoinCloseOther, JoinForgetOther, JoinAddSocket, Joining
            <4> QED BY <3>1, <3>2, <4>1 DEF Linked
        <3> QED BY <3>3, <3>4
    <2>2. s \in Joining(u) => \A t \in Fields(u)' : t \in Fields(u)
        BY <1>1, <1>3 DEF Joining
    <2>3. CASE JoinReadSockets(s)
        <3>1. hash' = hash /\ sweep'[s] = Fields(u) /\ jpc'[s] = IF Fields(u) = {} THEN "hset" ELSE "sweep"
            BY <2>0, <2>3 DEF JoinReadSockets, JGoto, Fields, TypeOK, redis
        <3> QED BY <2>1, <3>1 DEF Fields
    <2>4. CASE JoinForgetOther(s)
        <3>1. PICK o \in sweep[s] :
                /\ hash' = hash \ {o} /\ sweep'[s] = sweep[s] \ {o} /\ jpc[s] = "sweep"
                /\ jpc'[s] = IF sweep[s] = {o} THEN "hset" ELSE "sweep"
            BY <2>0, <2>4 DEF JoinForgetOther, JGoto, TypeOK
        <3>2. s \in Joining(u) BY <1>3, <3>1 DEF Joining
        <3>3. Fields(u) \subseteq sweep[s] BY <3>1, <3>2 DEF OneWindow
        <3> QED BY <2>1, <3>1, <3>3 DEF Fields
    <2>5. CASE ~JoinReadSockets(s) /\ ~JoinForgetOther(s)
        <3>1. sweep'[s] = sweep[s] /\ (jpc'[s] \in {"sweep", "hset"} => jpc'[s] = jpc[s])
            BY <2>0, <2>5, SweepSteps
        <3>2. jpc'[s] \in {"sweep", "hset"} => s \in Joining(u)
            BY <1>3, <3>1 DEF Joining
        <3> QED BY <2>1, <2>2, <3>1, <3>2 DEF OneWindow
    <2> QED BY <2>3, <2>4, <2>5
<1>4. ASSUME ~Clearing(u)'
      PROVE  /\ \A s, t \in Fields(u)' : s = t
             /\ \A s \in SocketsOf(u) : dpc'[s] = "done" => s \notin hash'
    <2>1. CASE Clearing(u)
        <3>1. PICK s \in Joining(u) : jpc[s] \in {"index", "read", "sweep"}
            BY <2>1 DEF Clearing
        <3>2. s \in Joining(u)' /\ jpc'[s] = "hset"
            BY <1>4, <3>1, ClearingStays DEF Clearing
        <3> QED BY <1>3, <3>2 DEF Fields
    <2>2. CASE ~Clearing(u)
        <3>1. \A s, t \in Fields(u)' : s = t BY <1>1, <2>2 DEF OneWindow
        <3>2. ASSUME NEW s \in SocketsOf(u), dpc'[s] = "done" PROVE s \notin hash'
            <4>1. CASE dpc[s] = "done"
                BY <1>0, <1>1, <2>2, <4>1 DEF OneWindow, Fields
            <4>2. CASE dpc[s] # "done"
                BY <1>0, <3>2, <4>2, DisconnectSteps DEF DiscRead, DiscCheck, DiscRemove,
                                     DiscForgetSocket, DGoto, TypeOK
            <4> QED BY <4>1, <4>2
        <3> QED BY <3>1, <3>2
    <2> QED BY <2>1, <2>2
<1>5. ASSUME NEW s \in SocketsOf(u), dpc'[s] \in {"check", "remove"}
      PROVE  Fields(u)' \subseteq {s}
    <2>1. dpc[s] \in {"read", "check", "remove"}
        BY <1>0, <1>5, DisconnectSteps DEF DiscRead, DiscCheck, DiscRemove,
                             DiscForgetSocket, DGoto, TypeOK
    <2>2. Closed(u) # {} BY <2>1 DEF Closed
    <2>3. Fields(u)' \subseteq Fields(u) /\ ~Clearing(u)
        BY <1>1, <2>2 DEF Clearing, Alone
    <2>4. CASE dpc[s] = "read"
        <3>1. DiscRead(s)
            BY <1>0, <1>5, <2>4, DisconnectSteps DEF DiscCheck, DiscRemove, DiscForgetSocket
        <3>2. s \in hash BY <1>0, <1>5, <3>1 DEF DiscRead, DGoto, TypeOK
        <3> QED BY <2>3, <3>2 DEF OneWindow, Fields
    <2> QED BY <2>1, <2>3, <2>4 DEF OneWindow
<1> QED BY <1>3, <1>4, <1>5 DEF OneWindow

(* A join past its first SADD: its user is listed. *)
Entering(u) == {s \in Joining(u) : jpc[s] \in {"index", "read", "sweep", "hset"}}

(* s keeps its user a member: it is in the room, or its disconnect is yet   *)
(* to take the user out.                                                   *)
Holds(s) ==
    /\ s \in hash /\ lpc[s] # "left"
    /\ link[s] \in {"open", "closing"} \/ dpc[s] \in {"read", "check", "remove"}

(* The list follows the window of u.  An operation removes its user from    *)
(* the list before it closes the window, except that the deletion of the   *)
(* room may close windows first.                                           *)
ListTrue(u) ==
    /\ Entering(u) # {} => u \in roomUsers
    /\ \A s \in SocketsOf(u) : Present(s) => u \in roomUsers \/ Pursued(s)
    /\ u \in roomUsers =>
         \/ Entering(u) # {}
         \/ \E s \in SocketsOf(u) : Holds(s)
         \/ op.kind = "deleteRoom" /\ op.at = "relations"
    /\ u \in op.who /\ op.at \in {"commit", "sockets"} => u \notin roomUsers
    /\ u \in op.who /\ op.kind = "ban" /\ u \notin op.srem => u \notin roomUsers
    /\ op.kind = "deleteRoom" => \A s \in SocketsOf(u) : Present(s) => Pursued(s)

(* How the operation goes on. *)
LEMMA OpGoesOn ==
    ASSUME TypeOK, OpInv, [Next]_vars
    PROVE  \/ op'.kind = op.kind /\ op'.at = op.at /\ op'.who = op.who /\ op'.srem = op.srem
           \/ op.at = "end" /\ Operation /\ op'.at = "relations" /\ op'.srem = op'.who /\ op'.kind # "deleteRoom"
           \/ op.at = "end" /\ DeleteRoom
           \/ OpUnrelate
           \/ OpClear /\ op'.kind = op.kind /\ op'.at = "commit" /\ op'.who = op.who
           \/ OpCommit /\ op'.kind = op.kind /\ op'.at = "sockets" /\ op'.who = op.who /\ op'.srem = op.srem
           \/ OpEnd
<1>0. op \in OpType BY DEF TypeOK, OpType
<1>1. ASSUME NEW u \in Users, Kick(u) \/ Ban(u) \/ LeaveAll(u)
      PROVE  op'.at = "relations" /\ op'.srem = op'.who /\ op.at = "end" /\ op'.kind # "deleteRoom"
    BY <1>1 DEF Kick, Ban, LeaveAll, Start
<1>2. CASE DeleteRoom BY <1>2 DEF DeleteRoom, Start
<1>3. CASE OpUnrelate BY <1>3
<1>4. CASE OpClear BY <1>0, <1>4 DEF OpClear, OpType
<1>5. CASE OpCommit BY <1>0, <1>5 DEF OpCommit, OpType
<1>6. CASE OpLookup BY <1>0, <1>6 DEF OpLookup, OpType
<1>7. CASE OpForget BY <1>0, <1>7 DEF OpForget, OpType
<1>8. CASE OpClose BY <1>8 DEF OpClose
<1>9. CASE OpEnd BY <1>9
<1> QED BY <1>1, <1>2, <1>3, <1>4, <1>5, <1>6, <1>7, <1>8, <1>9, OpFrom DEF Operation

(* What the removal of a relation leaves of the operation. *)
LEMMA OpUnrelates ==
    ASSUME TypeOK, OpInv, OpUnrelate
    PROVE  \E u \in op.srem :
             /\ Unrelate(u) /\ op.at = "relations" /\ op'.kind = op.kind /\ op'.who = op.who
             /\ IF op.kind \in {"kick", "leaveAll"}
                THEN op'.at = "sockets" /\ op'.lookup = {u} /\ op.who = {u}
                ELSE op'.at = "relations" /\ op'.srem = op.srem \ {u}
<1>0. op \in OpType BY DEF TypeOK, OpType
<1>1. PICK u \in op.srem :
        /\ Unrelate(u)
        /\ op' = IF op.kind \in {"kick", "leaveAll"}
                 THEN [op EXCEPT !.srem = {}, !.lookup = {u}, !.at = "sockets"]
                 ELSE [op EXCEPT !.srem = @ \ {u}]
    BY DEF OpUnrelate
<1>2. op.at = "relations" BY DEF OpUnrelate
<1>3. op.kind \in {"kick", "leaveAll"} => op.who = {u} BY <1>1, <1>2 DEF OpInv
<1> QED BY <1>0, <1>1, <1>2, <1>3 DEF OpType

LEMMA NextListExact ==
    ASSUME Protocol, Protocol', [Next]_vars, NEW u \in Users, OneWindow(u), ListTrue(u),
           Alone(u), Alone(u)'
    PROVE  ListTrue(u)'
<1> USE DEF Protocol
<1>0. \A s : s \in SocketsOf(u) <=> s \in Sockets /\ UserOf[s] = u BY DEF SocketsOf
<1>a. op \in OpType BY DEF TypeOK, OpType
<1>1. ASSUME u \in roomUsers', u \notin roomUsers
      PROVE  Entering(u)' # {} /\ u \notin op'.who /\ Joining(u) # {}
    <2>1. PICK s \in SocketsOf(u) : JoinAddUser(s) BY <1>1, ListedFrom
    <2>2. s \in Joining(u) /\ s \in Joining(u)' /\ s \in Entering(u)'
        BY <1>0, <2>1 DEF JoinAddUser, JGoto, Joining, Entering, TypeOK
    <2> QED BY <2>2 DEF Alone
<1>2. ASSUME NEW s \in Joining(u) PROVE u \in roomUsers => u \in roomUsers'
    <2> SUFFICES ASSUME u \in roomUsers, u \notin roomUsers' PROVE FALSE OBVIOUS
    <2>1. Leaving(u) = {} /\ Closed(u) = {} /\ u \notin op.who BY DEF Alone
    <2>2. \A t \in SocketsOf(u) : ~LeaveRemove(t) /\ ~DiscRemove(t)
        BY <2>1 DEF LeaveRemove, DiscRemove, Leaving, Closed
    <2>3. u \notin op.srem /\ ~OpClear BY <2>1 DEF OpInv, OpClear
    <2> QED BY <2>2, <2>3, UnlistedBy
<1>3. ASSUME NEW s \in Entering(u)' PROVE u \in roomUsers'
    <2>1. s \in Sockets /\ UserOf[s] = u /\ s \in Joining(u)' BY <1>0 DEF Entering, Joining
    <2>2. CASE s \in Entering(u) BY <1>2, <2>2 DEF ListTrue, Entering
    <2>3. CASE s \notin Entering(u)
        <3>1. jpc'[s] # jpc[s] BY <2>1, <2>3 DEF Entering, Joining
        <3>2. Join(s) BY <2>1, <3>1, JoinMovesBy
        <3>3. s \in Joining(u) /\ jpc[s] = "add"
            BY <2>1, <2>3, JoiningFrom DEF Entering, Joining, TypeOK, JoinSteps
        <3>4. JoinAddUser(s)
            BY <3>2, <3>3 DEF Join, JoinFindRoom, JoinCount, JoinCheckBan, JoinIndex,
                JoinReadSockets, JoinCloseOther, JoinForgetOther, JoinAddSocket
        <3> QED BY <2>1, <3>4 DEF JoinAddUser
    <2> QED BY <2>2, <2>3
<1>4. ASSUME NEW s \in SocketsOf(u), Present(s)' PROVE u \in roomUsers' \/ Pursued(s)'
    <2>0. s \in Sockets /\ UserOf[s] = u BY <1>0
    <2>1. CASE JoinAddSocket(s)
        <3>1. s \in Entering(u) BY <2>0, <2>1 DEF JoinAddSocket, Entering, Joining
        <3> QED BY <1>2, <3>1 DEF ListTrue, Entering
    <2>2. CASE Present(s) /\ Pursued(s)
        BY <1>4, <2>0, <2>2, PresentHeld, PursuedStays
    <2>3. CASE Present(s) /\ ~Pursued(s) /\ u \notin roomUsers'
        <3>1. u \in roomUsers BY <2>3 DEF ListTrue
        <3>2. s \in Fields(u) BY <2>3, PresentHeld
        <3>3. ASSUME NEW t \in SocketsOf(u), LeaveRemove(t) PROVE FALSE
            <4>1. t \in Fields(u) BY <3>3 DEF LeaveRemove, Alone, Leaving, Fields
            <4>2. ~Clearing(u) BY <3>3 DEF Clearing, Alone, LeaveRemove, Leaving
            <4>3. t = s BY <3>2, <4>1, <4>2 DEF OneWindow
            <4>4. lpc'[s] = "left" BY <2>0, <3>3, <4>3 DEF LeaveRemove, TypeOK
            <4> QED BY <1>4, <4>4 DEF Present
        <3>4. ASSUME NEW t \in SocketsOf(u), DiscRemove(t) PROVE FALSE
            <4>1. t = s BY <3>2, <3>4 DEF DiscRemove, OneWindow
            <4>2. link[s] = "closed" BY <2>0, <3>4, <4>1 DEF DiscRemove, SocketInv, FindInv
            <4> QED BY <2>3, <4>2 DEF Present
        <3>5. op.kind # "deleteRoom" BY <2>3 DEF ListTrue
        <3>6. OpUnrelate /\ u \in op.srem
            BY <2>3, <3>1, <3>3, <3>4, <3>5, UnlistedBy DEF OpClear
        <3>7. CASE op.kind \in {"kick", "leaveAll"}
            BY <2>0, <3>6, <3>7, OpUnrelates DEF OpInv, Pursued
        <3>8. CASE op.kind \notin {"kick", "leaveAll"}
            <4>1. op.kind = "ban" BY <1>a, <3>5, <3>6, <3>8, PresenceAssumption DEF OpType, OpUnrelate, OpInv
            <4> QED BY <2>0, <3>6, <3>8, <4>1, OpUnrelates DEF OpInv, Pursued
        <3> QED BY <3>7, <3>8
    <2> QED BY <1>4, <2>0, <2>1, <2>2, <2>3, PresentFrom
<1>5. ASSUME u \in roomUsers'
      PROVE  \/ Entering(u)' # {}
             \/ \E s \in SocketsOf(u) : Holds(s)'
             \/ op'.kind = "deleteRoom" /\ op'.at = "relations"
    <2>1. CASE u \notin roomUsers BY <1>1, <1>5, <2>1
    <2>2. ASSUME u \in roomUsers, NEW s \in Entering(u)
          PROVE  Entering(u)' # {} \/ \E t \in SocketsOf(u) : Holds(t)'
        <3>0. s \in Sockets /\ UserOf[s] = u /\ s \in Joining(u) /\ s \in SocketsOf(u)
            BY <1>0 DEF Entering, Joining
        <3>1. CASE jpc'[s] = jpc[s] BY <3>0, <3>1 DEF Entering, Joining
        <3>2. CASE JoinAddSocket(s)
            <4>1. s \in hash' /\ lpc'[s] # "left" /\ UNCHANGED link
                BY <3>0, <3>2 DEF JoinAddSocket, TypeOK
            <4>2. dpc[s] = "none" BY <3>0 DEF OneWindow
            <4>3. link[s] \in {"open", "closing"}
                BY <3>0, <4>2 DEF SocketInv, FindInv, TypeOK, Joining
            <4> QED BY <3>0, <4>1, <4>2, <4>3 DEF Holds
        <3>3. CASE jpc'[s] # jpc[s] /\ ~JoinAddSocket(s)
            <4>1. Join(s) BY <3>0, <3>3, JoinMovesBy
            <4>2. jpc[s] \in {"index", "read", "sweep", "hset"}
                BY <2>2 DEF Entering
            <4>3. jpc'[s] \in {"index", "read", "sweep", "hset"}
                <5>1. CASE JoinIndex(s) BY <3>0, <5>1 DEF JoinIndex, JGoto, TypeOK
                <5>2. CASE JoinReadSockets(s) BY <3>0, <5>2 DEF JoinReadSockets, JGoto, TypeOK
                <5>3. CASE JoinCloseOther(s) BY <4>2, <5>3 DEF JoinCloseOther, joins
                <5>4. CASE JoinForgetOther(s) BY <3>0, <5>4 DEF JoinForgetOther, JGoto, TypeOK
                <5>5. ~JoinFindRoom(s) /\ ~JoinCount(s) /\ ~JoinCheckBan(s) /\ ~JoinAddUser(s)
                    BY <4>2 DEF JoinFindRoom, JoinCount, JoinCheckBan, JoinAddUser
                <5> QED BY <3>3, <4>1, <5>1, <5>2, <5>3, <5>4, <5>5 DEF Join
            <4> QED BY <3>0, <4>3 DEF Entering, Joining
        <3> QED BY <3>1, <3>2, <3>3
    <2>3. ASSUME u \in roomUsers, NEW s \in SocketsOf(u), Holds(s)
          PROVE  \/ Entering(u)' # {} \/ Holds(s)'
                 \/ op'.kind = "deleteRoom" /\ op'.at = "relations"
        <3>0. s \in Sockets /\ UserOf[s] = u /\ s \in hash BY <1>0, <2>3 DEF Holds
        <3>1. CASE s \notin hash'
            <4>1. ~DiscForgetSocket(s)
                BY <2>3, <3>0 DEF DiscForgetSocket, Holds, SocketInv, FindInv
            <4>2. ASSUME NEW t \in Sockets, JoinForgetOther(t), s \in sweep[t] PROVE Entering(u)' # {}
                <5>1. UserOf[t] = u BY <3>0, <4>2 DEF SocketInv, SocketsOf
                <5>2. jpc'[t] \in {"hset", "sweep"} BY <4>2 DEF JoinForgetOther, JGoto, TypeOK
                <5> QED BY <1>0, <4>2, <5>1, <5>2 DEF Entering, Joining
            <4>3. ASSUME OpForget, s \in op.out PROVE op'.kind = "deleteRoom" /\ op'.at = "relations"
                <5>1. u \in op.who BY <3>0, <4>3 DEF OpInv
                <5>2. op.at \notin {"commit", "sockets"} BY <2>3, <5>1 DEF ListTrue
                <5>3. op.at # "end" BY <4>3 DEF OpInv, NoOp
                <5>4. op.at = "relations" /\ op.kind = "deleteRoom"
                    BY <1>a, <4>3, <5>2, <5>3 DEF OpType, OpInv
                <5> QED BY <1>a, <4>3, <5>4 DEF OpForget, OpType
            <4>4. s \notin strays'
                <5>1. dpc[s] # "done" BY <2>3, <3>0 DEF Holds, SocketInv, FindInv
                <5>2. dpc'[s] # "done"
                    BY <3>0, <4>1, <5>1, DisconnectSteps DEF DiscRead, DiscCheck, DiscRemove, DGoto,
                                                             TypeOK
                <5> QED BY <3>0, <5>2 DEF Alone
            <4> QED BY <3>0, <3>1, <4>1, <4>2, <4>3, <4>4, HashSteps
        <3>2. CASE s \in hash'
            <4>1. lpc'[s] # "left"
                BY <1>5, <2>3, <3>0, LeftFrom DEF Holds, LeaveRemove, Unrelate
            <4>2. link'[s] \in {"open", "closing"} \/ link'[s] = "closed"
                BY <3>0, <3>2 DEF TypeOK, SocketInv, FindInv
            <4>3. link'[s] = "closed" => dpc'[s] \in {"read", "check", "remove"}
                <5>1. CASE link[s] # "closed" BY <3>0, <5>1, LinkFrom
                <5>2. CASE link[s] = "closed"
                    <6>1. dpc[s] \in {"read", "check", "remove"} BY <2>3, <5>2 DEF Holds
                    <6>2. CASE dpc'[s] = dpc[s] BY <6>1, <6>2
                    <6>3. CASE dpc'[s] # dpc[s]
                        BY <1>5, <2>3, <3>0, <3>2, <6>1, <6>3, DisconnectSteps
                           DEF DiscRead, DiscCheck, DiscRemove, DiscForgetSocket, DGoto, Unrelate, TypeOK
                    <6> QED BY <6>2, <6>3
                <5> QED BY <5>1, <5>2
            <4> QED BY <3>2, <4>1, <4>2, <4>3 DEF Holds
        <3> QED BY <3>1, <3>2
    <2>4. ASSUME op.kind = "deleteRoom", op.at = "relations"
          PROVE  op'.kind = "deleteRoom" /\ op'.at = "relations"
        BY <1>5, <2>4, OpGoesOn, OpUnrelates DEF OpClear, OpCommit, OpEnd
    <2>5. \/ u \notin roomUsers \/ Entering(u) # {}
          \/ \E s \in SocketsOf(u) : Holds(s)
          \/ op.kind = "deleteRoom" /\ op.at = "relations"
        BY DEF ListTrue
    <2> QED BY <2>1, <2>2, <2>3, <2>4, <2>5
<1>6. ASSUME u \in op'.who, op'.at \in {"commit", "sockets"} PROVE u \notin roomUsers'
    <2> SUFFICES ASSUME u \in roomUsers' PROVE FALSE OBVIOUS
    <2>1. u \in roomUsers BY <1>1, <1>6
    <2>2. CASE OpUnrelate BY <1>6, <2>2, OpUnrelates DEF Unrelate
    <2>3. CASE OpClear BY <2>3 DEF OpClear
    <2>4. CASE OpCommit /\ op'.who = op.who BY <1>6, <2>1, <2>4 DEF OpCommit, ListTrue
    <2> QED BY <1>6, <2>1, <2>2, <2>3, <2>4, OpGoesOn DEF ListTrue, DeleteRoom, Start, OpEnd, NoOp
<1>7. ASSUME u \in op'.who, op'.kind = "ban", u \notin op'.srem PROVE u \notin roomUsers'
    <2> SUFFICES ASSUME u \in roomUsers' PROVE FALSE OBVIOUS
    <2>1. u \in roomUsers BY <1>1, <1>7
    <2>2. CASE OpUnrelate BY <1>7, <2>1, <2>2, OpUnrelates DEF Unrelate, ListTrue
    <2>3. CASE OpClear BY <2>3 DEF OpClear
    <2> QED BY <1>7, <2>1, <2>2, <2>3, OpGoesOn DEF ListTrue, DeleteRoom, Start, OpEnd, NoOp
<1>8. ASSUME op'.kind = "deleteRoom", NEW s \in SocketsOf(u), Present(s)' PROVE Pursued(s)'
    <2>0. s \in Sockets /\ UserOf[s] = u BY <1>0
    <2>1. CASE DeleteRoom
        <3>1. /\ op.at = "end" /\ op'.lookup = roomUsers
              /\ UNCHANGED <<link, jpc, lpc>>
            BY <2>1 DEF DeleteRoom, Start, joins
        <3>2. Present(s) BY <1>8, <3>1 DEF Present
        <3>3. ~Pursued(s) BY <3>1 DEF OpInv, NoOp, Pursued
        <3> QED BY <2>0, <3>1, <3>2, <3>3 DEF ListTrue, Pursued
    <2>2. CASE ~DeleteRoom
        <3>1. op.kind = "deleteRoom"
            BY <1>8, <2>2, OpGoesOn, OpUnrelates DEF OpEnd, NoOp
        <3>2. ~JoinAddSocket(s)
            BY <2>0, <3>1 DEF JoinAddSocket, Joining, Alone, OpInv, SocketsOf
        <3>3. Present(s) /\ Pursued(s) BY <1>8, <2>0, <3>1, <3>2, PresentFrom DEF ListTrue
        <3> QED BY <1>8, <2>0, <3>3, PresentHeld, PursuedStays
    <2> QED BY <2>1, <2>2
<1> HIDE DEF Protocol
<1> QED BY <1>3, <1>4, <1>5, <1>6, <1>7, <1>8 DEF ListTrue

(* A join that lists its user again, alone, is where both become true. *)
LEMMA RestoreMember ==
    ASSUME Protocol, Protocol', [Next]_vars, NEW u \in Users, Restores(u), Alone(u)'
    PROVE  OneWindow(u)' /\ ListTrue(u)'
<1> USE DEF Protocol
<1>0. \A s : s \in SocketsOf(u) <=> s \in Sockets /\ UserOf[s] = u BY DEF SocketsOf
<1>1. PICK s \in SocketsOf(u) : jpc[s] = "add" /\ jpc'[s] = "index" /\ Linked(s)
    BY DEF Restores
<1>2. s \in Joining(u)' /\ Joining(u)' = {s} /\ Closed(u)' = {} /\ u \notin op'.who
    BY <1>1 DEF Joining, Alone
<1>3. JoinAddUser(s)
    <2>1. Join(s) BY <1>0, <1>1, JoinMovesBy
    <2> QED BY <1>1, <2>1 DEF Join, JoinFindRoom, JoinCount, JoinCheckBan, JoinIndex,
                JoinReadSockets, JoinCloseOther, JoinForgetOther, JoinAddSocket
<1>4. dpc'[s] = "none" BY <1>0, <1>1, <1>3 DEF JoinAddUser, Linked, SocketInv, FindInv, TypeOK
<1>5. u \in roomUsers' BY <1>0, <1>3 DEF JoinAddUser
<1>6. OneWindow(u)'
    <2>1. Clearing(u)' BY <1>1, <1>2 DEF Clearing
    <2>2. \A t \in SocketsOf(u) : dpc'[t] \notin {"check", "remove"} BY <1>2 DEF Closed
    <2> QED BY <1>1, <1>2, <1>4, <2>1, <2>2 DEF OneWindow
<1>7. ListTrue(u)'
    <2>1. Entering(u)' # {} BY <1>1, <1>2 DEF Entering
    <2>2. op'.kind # "deleteRoom" BY <1>2 DEF OpInv
    <2> HIDE DEF Protocol
    <2> QED BY <1>2, <1>5, <2>1, <2>2 DEF ListTrue
<1> QED BY <1>6, <1>7

MemberInv == \A u \in Users \ disturbed : OneWindow(u) /\ ListTrue(u)

LEMMA InitMember == Init => MemberInv
<1> SUFFICES ASSUME Init, NEW u \in Users PROVE OneWindow(u) /\ ListTrue(u) BY DEF MemberInv
<1>1. Joining(u) = {} /\ SocketsOf(u) \subseteq Sockets BY UserSockets DEF Init, Joining
<1>2. \A s \in SocketsOf(u) : ~Present(s) BY <1>1 DEF Init, Present
<1> QED BY <1>1, <1>2 DEF Init, OneWindow, ListTrue, Fields, Entering, NoOp

LEMMA MemberHolds == Spec => []MemberInv
<1>1. Init => MemberInv BY InitMember
<1>2. Protocol /\ Protocol' /\ MemberInv /\ [Next]_vars => MemberInv'
    <2> SUFFICES ASSUME Protocol, Protocol', MemberInv, [Next]_vars,
                        NEW u \in Users, u \notin disturbed'
                 PROVE  OneWindow(u)' /\ ListTrue(u)'
        BY DEF MemberInv
    <2>1. Alone(u)' BY DEF Protocol, AloneInv
    <2>2. u \notin disturbed \/ Restores(u) BY DEF Next, vars
    <2>3. CASE Restores(u) BY <2>1, <2>3, RestoreMember
    <2>4. CASE u \notin disturbed
        <3>1. Alone(u) /\ OneWindow(u) /\ ListTrue(u)
            BY <2>4 DEF Protocol, AloneInv, MemberInv
        <3> QED BY <2>1, <3>1, NextOneWindow, NextListExact
    <2> QED BY <2>2, <2>3, <2>4
<1> QED BY <1>1, <1>2, ProtocolHolds, PTL DEF Spec

---------------------------------------------------------------------------
(* The two theorems                                                        *)

(* Nothing is at work on a quiet user. *)
LEMMA QuietIs ==
    ASSUME Protocol, NEW u, Quiet(u)
    PROVE  /\ Joining(u) = {} /\ Leaving(u) = {} /\ Closed(u) = {} /\ u \notin op.who
           /\ \A s \in SocketsOf(u) : link[s] # "closing"
<1>1. IsFiniteSet(Joining(u)) /\ IsFiniteSet(Leaving(u)) /\ IsFiniteSet(Closed(u))
    BY BusyFinite DEF Protocol
<1>2. /\ Cardinality(Joining(u)) \in Nat /\ Cardinality(Leaving(u)) \in Nat
      /\ Cardinality(Closed(u)) \in Nat
    BY <1>1, FS_CardinalityType
<1>3. /\ Cardinality(Joining(u)) = 0 /\ Cardinality(Leaving(u)) = 0
      /\ Cardinality(Closed(u)) = 0 /\ u \notin op.who
    <2> DEFINE b == IF u \in op.who THEN 1 ELSE 0
               j == Cardinality(Joining(u))
               l == Cardinality(Leaving(u))
               c == Cardinality(Closed(u))
    <2>1. b \in {0, 1} /\ (b = 0 => u \notin op.who) OBVIOUS
    <2>2. j \in Nat /\ l \in Nat /\ c \in Nat BY <1>2
    <2>3. j + l + c + b = 0 BY DEF Quiet, Handlers
    <2> HIDE DEF b, j, l, c
    <2>4. b \in Nat BY <2>1
    <2>5. j = 0 /\ l = 0 /\ c = 0 /\ b = 0 BY <2>2, <2>3, <2>4
    <2> QED BY <2>1, <2>5 DEF j, l, c
<1>4. Joining(u) = {} /\ Leaving(u) = {} /\ Closed(u) = {}
    BY <1>1, <1>3, FS_EmptySet
<1> QED BY <1>3, <1>4 DEF Quiet

LEMMA MemberSuffices == Protocol /\ MemberInv => PresenceExact
<1> SUFFICES ASSUME Protocol, MemberInv, NEW u \in Users, u \notin disturbed, Quiet(u)
             PROVE  /\ u \in roomUsers <=> \E s \in SocketsOf(u) : Present(s)
                    /\ \A s, t \in SocketsOf(u) : Present(s) /\ Present(t) => s = t
                    /\ \A s \in hash \cap SocketsOf(u) : link[s] = "open"
    BY DEF PresenceExact
<1>1. /\ Joining(u) = {} /\ Leaving(u) = {} /\ Closed(u) = {} /\ u \notin op.who
      /\ \A s \in SocketsOf(u) : link[s] # "closing"
    BY QuietIs
<1>2. OneWindow(u) /\ ListTrue(u) /\ Alone(u) /\ SocketsOf(u) \subseteq Sockets
    BY UserSockets DEF MemberInv, Protocol, AloneInv
<1>a. ~Clearing(u) BY <1>1 DEF Clearing
<1> USE DEF Protocol
<1>3. ASSUME NEW s \in hash \cap SocketsOf(u) PROVE link[s] = "open" /\ jpc[s] = "in"
    <2>1. s \in Sockets /\ jpc[s] = "in" BY <1>2 DEF SocketInv
    <2>2. dpc[s] = "none" BY <1>1, <1>2, <1>a DEF Closed, OneWindow
    <2> QED BY <1>1, <2>1, <2>2 DEF SocketInv, FindInv, TypeOK
<1>4. ASSUME u \in roomUsers PROVE \E s \in SocketsOf(u) : Present(s)
    <2>1. ~(op.kind = "deleteRoom" /\ op.at = "relations") BY <1>1 DEF OpInv
    <2>2. PICK s \in SocketsOf(u) : Holds(s) BY <1>1, <1>2, <1>4, <2>1 DEF ListTrue, Entering
    <2> QED BY <1>3, <2>2 DEF Holds, Present
<1>5. ASSUME NEW s \in SocketsOf(u), Present(s) PROVE u \in roomUsers /\ s \in Fields(u)
    <2>1. ~Pursued(s) BY <1>1 DEF Pursued, OpInv, SocketsOf
    <2> QED BY <1>2, <1>5, <2>1, PresentHeld DEF ListTrue
<1> QED BY <1>2, <1>3, <1>4, <1>5, <1>a DEF OneWindow

(* Membership is exact for every user since a join that no other handler    *)
(* overlapped, whatever the overlaps before it left behind: listed if and   *)
(* only if one window, and no more, receives the messages of the room; no   *)
(* field of a closed window is left.                                       *)
THEOREM MembershipExact == Spec => []PresenceExact
BY ProtocolHolds, MemberHolds, MemberSuffices, PTL

LEMMA PutOutSuffices == Protocol /\ MemberInv /\ PutOutInv => PutOutStaysOut
<1> SUFFICES ASSUME Protocol, MemberInv, PutOutInv, NEW u \in Users, u \notin raced, Quiet(u)
             PROVE  /\ u \in banned \/ deleted => u \notin roomUsers
                    /\ u \in banned \/ (deleted /\ u \notin disturbed)
                         => \A s \in SocketsOf(u) \ strays : ~Present(s)
    BY DEF PutOutStaysOut
<1>1. u \notin op.who BY QuietIs
<1>2. PutOut(u) BY DEF PutOutInv
<1>3. ASSUME deleted, u \notin disturbed, NEW s \in SocketsOf(u) PROVE ~Present(s)
    <2>1. ListTrue(u) BY <1>3 DEF MemberInv
    <2>2. ~Pursued(s) BY <1>1 DEF Pursued, Protocol, OpInv, SocketsOf
    <2> QED BY <1>2, <1>3, <2>1, <2>2 DEF ListTrue, PutOut
<1> QED BY <1>1, <1>2, <1>3 DEF PutOut

(* A banned user, and anybody once the room is deleted, stays out, unless a *)
(* join of theirs was past its check before the exclusion was committed.   *)
THEOREM PutOutForGood == Spec => []PutOutStaysOut
BY ProtocolHolds, MemberHolds, PutOutHolds, PutOutSuffices, PTL

---------------------------------------------------------------------------
(* The capacity.  Joins that have counted the members and not yet added    *)
(* theirs do not see each other.                                           *)

Counted == {s \in Sockets : jpc[s] \in {"ban", "add"}}

(* At most k joins are between their SCARD and their SADD. *)
CountedAtMost(k) == Cardinality(Counted) <= k

(* k joins between the two can overfill the room by k - 1 members. *)
Overfull(k) == Cardinality(roomUsers) <= Capacity + k - 1

RoomLeft(k) ==
    /\ IsFiniteSet(roomUsers) /\ IsFiniteSet(Counted)
    /\ Cardinality(roomUsers) + Cardinality(Counted) <= Capacity + k - 1

LEMMA InitRoomLeft == ASSUME NEW k \in Nat \ {0} PROVE Init => RoomLeft(k)
<1> SUFFICES ASSUME Init PROVE RoomLeft(k) OBVIOUS
<1>1. roomUsers = {} /\ Counted = {} BY DEF Init, Counted
<1> QED BY <1>1, FS_EmptySet, PresenceAssumption DEF RoomLeft

(* A join counts while the room is not full, or adds one user, or neither. *)
LEMMA CountedFrom ==
    ASSUME TypeOK, [Next]_vars
    PROVE  \/ roomUsers' \subseteq roomUsers /\ Counted' \subseteq Counted
           \/ \E s \in Sockets :
                /\ roomUsers' = roomUsers /\ Counted' \subseteq Counted \cup {s}
                /\ ~(Cardinality(roomUsers) >= Capacity)
           \/ \E s \in Counted :
                /\ roomUsers' = roomUsers \cup {UserOf[s]} /\ Counted' \subseteq Counted \ {s}
<1>1. ASSUME NEW s \in Sockets, JoinAddUser(s)
      PROVE  /\ s \in Counted /\ roomUsers' = roomUsers \cup {UserOf[s]}
             /\ Counted' \subseteq Counted \ {s}
    BY <1>1 DEF JoinAddUser, JGoto, Counted, TypeOK
<1>2. ASSUME NEW s \in Counted', s \notin Counted
      PROVE  /\ roomUsers' = roomUsers /\ Counted' \subseteq Counted \cup {s}
             /\ ~(Cardinality(roomUsers) >= Capacity)
    <2>1. s \in Sockets /\ jpc'[s] \in {"ban", "add"} /\ jpc[s] \notin {"ban", "add"}
        BY <1>2 DEF Counted
    <2>2. Join(s) BY <2>1, JoinMovesBy
    <2>3. JoinCount(s)
        BY <2>1, <2>2 DEF Join, JoinFindRoom, Reject, JoinCheckBan, JoinAddUser, JoinIndex,
                          JoinReadSockets, JoinCloseOther, JoinForgetOther, JoinAddSocket,
                          JGoto, joins, TypeOK
    <2>4. ~(Cardinality(roomUsers) >= Capacity)
        BY <2>1, <2>3 DEF JoinCount, Reject, JGoto, TypeOK
    <2> QED BY <2>3, <2>4 DEF JoinCount, JGoto, redis, Counted, TypeOK
<1>3. (\A s \in Sockets : ~JoinAddUser(s)) => roomUsers' \subseteq roomUsers
    BY ListedFrom, UserSockets
<1> QED BY <1>1, <1>2, <1>3 DEF Counted

LEMMA NextRoomLeft ==
    ASSUME NEW k \in Nat \ {0}, TypeOK, RoomLeft(k), CountedAtMost(k)', [Next]_vars
    PROVE  RoomLeft(k)'
<1> DEFINE r == Cardinality(roomUsers)
           c == Cardinality(Counted)
<1>1. /\ IsFiniteSet(roomUsers) /\ IsFiniteSet(Counted) /\ r \in Nat /\ c \in Nat
      /\ r + c <= Capacity + k - 1 /\ Capacity \in Nat \ {0}
    BY FS_CardinalityType, PresenceAssumption DEF RoomLeft
<1>2. CASE roomUsers' \subseteq roomUsers /\ Counted' \subseteq Counted
    <2>1. /\ IsFiniteSet(roomUsers') /\ Cardinality(roomUsers') <= r
          /\ IsFiniteSet(Counted') /\ Cardinality(Counted') <= c
        BY <1>1, <1>2, FS_Subset
    <2>2. Cardinality(roomUsers') \in Nat /\ Cardinality(Counted') \in Nat
        BY <2>1, FS_CardinalityType
    <2> QED BY <1>1, <2>1, <2>2 DEF RoomLeft
<1>3. ASSUME NEW s \in Sockets, roomUsers' = roomUsers, Counted' \subseteq Counted \cup {s}, ~(r >= Capacity)
      PROVE  RoomLeft(k)'
    <2>1. IsFiniteSet(Counted') BY <1>1, <1>3, FS_AddElement, FS_Subset
    <2>2. Cardinality(Counted') \in Nat /\ Cardinality(Counted') <= k
        BY <2>1, FS_CardinalityType DEF CountedAtMost
    <2> QED BY <1>1, <1>3, <2>1, <2>2 DEF RoomLeft
<1>4. ASSUME NEW s \in Counted, roomUsers' = roomUsers \cup {UserOf[s]}, Counted' \subseteq Counted \ {s}
      PROVE  RoomLeft(k)'
    <2>1. IsFiniteSet(Counted \ {s}) /\ Cardinality(Counted \ {s}) = c - 1
        BY <1>1, <1>4, FS_RemoveElement
    <2>2. IsFiniteSet(Counted') /\ Cardinality(Counted') <= c - 1
        BY <1>4, <2>1, FS_Subset
    <2>3. IsFiniteSet(roomUsers') /\ Cardinality(roomUsers') \in {r, r + 1}
        BY <1>1, <1>4, FS_AddElement
    <2>4. Cardinality(Counted') \in Nat BY <2>2, FS_CardinalityType
    <2> QED BY <1>1, <2>2, <2>3, <2>4 DEF RoomLeft
<1> QED BY <1>2, <1>3, <1>4, CountedFrom

(* While at most k joins are between their count and their add, the room    *)
(* holds at most k - 1 members more than it may: no sequence of joins,     *)
(* leaves and operations makes it worse.                                   *)
THEOREM OverfullBounded ==
    ASSUME NEW k \in Nat \ {0}
    PROVE  Spec /\ []CountedAtMost(k) => []Overfull(k)
<1>1. Init => TypeOK /\ RoomLeft(k) BY InitTypeOK, InitRoomLeft
<1>2. TypeOK /\ RoomLeft(k) /\ CountedAtMost(k)' /\ [Next]_vars => (TypeOK /\ RoomLeft(k))'
    BY NextTypeOK, NextRoomLeft
<1>3. RoomLeft(k) => Overfull(k)
    BY FS_CardinalityType, PresenceAssumption DEF RoomLeft, Overfull
<1> QED BY <1>1, <1>2, <1>3, PTL DEF Spec

(* The room respects its capacity as long as one join counts and adds       *)
(* before the next one counts: the gap between the two is all that lets it *)
(* fill up further.                                                        *)
THEOREM CapacityKept == Spec /\ []CountedAtMost(1) => []CapacityRespected
<1>1. Init => TypeOK /\ RoomLeft(1) BY InitTypeOK, InitRoomLeft
<1>2. TypeOK /\ RoomLeft(1) /\ CountedAtMost(1)' /\ [Next]_vars => (TypeOK /\ RoomLeft(1))'
    BY NextTypeOK, NextRoomLeft
<1>3. RoomLeft(1) => CapacityRespected
    BY FS_CardinalityType, PresenceAssumption DEF RoomLeft, CapacityRespected
<1> QED BY <1>1, <1>2, <1>3, PTL DEF Spec
=============================================================================
