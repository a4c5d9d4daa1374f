---------------------------- MODULE RoomPresence ----------------------------
(***************************************************************************)
(* Who is in a room: the handlers of socket.gateway.ts and                 *)
(* socket.service.ts that add and remove the members of one chat room, and *)
(* the operations on users and rooms that put members out of it.           *)
(*                                                                         *)
(* Membership is kept in three Redis keys (room:users:{room},              *)
(* user:rooms:{user}, user:sockets:{user}) and in socket.io itself; each   *)
(* command is one step, and the handlers of different sockets interleave.  *)
(* A socket serves one room, as useSocket.ts opens one per room page.      *)
(***************************************************************************)
EXTENDS Naturals, FiniteSets

CONSTANTS
    Users, Sockets,
    UserOf,         \* the user of a socket
    Capacity,       \* maxMembers of the room
    OpKinds,        \* the operations considered; "expiry" is that of keys
    MaxOps          \* bound: how many of them happen in a run

ASSUME PresenceAssumption ==
    /\ UserOf \in [Sockets -> Users]
    /\ Capacity \in Nat \ {0}
    /\ OpKinds \subseteq {"kick", "ban", "leaveAll", "deleteRoom", "expiry"}
    /\ MaxOps \in Nat

VARIABLES
    roomUsers,          \* Redis room:users:{room}
    indexed,            \* the users whose user:rooms:{user} holds the room
    hash,               \* the sockets in user:sockets:{user} of their user
    banned, deleted,    \* MySQL: banned users; is the room soft-deleted?
    link,               \* each connection
    jpc, sweep,         \* handleJoinRoom of each socket; sockets to put out
    lpc, dpc,           \* handleLeaveRoom and handleDisconnect of each socket
    op, ops,            \* the operation in progress; how many there were
    disturbed,          \* history: users with a join that met another handler,
                        \* until a join puts things right
    raced,              \* history: users with a join that met their exclusion
    expired,            \* history: users whose user:rooms ended since they joined
    strays              \* history: sockets whose field ended with user:sockets

expiry == <<expired, strays>>
redis == <<roomUsers, indexed, hash, expired, strays>>
mysql == <<banned, deleted>>
joins == <<jpc, sweep>>
vars == <<redis, mysql, link, joins, lpc, dpc, op, ops, disturbed, raced>>

JoinSteps == {"idle", "count", "ban", "add", "index", "read", "sweep", "hset",
              "in", "rejected"}
LeaveSteps == {"idle", "remove", "left", "refused"}
DiscSteps == {"none", "read", "check", "remove", "hdel", "done"}

(* An operation: the members whose relation it still has to delete, those  *)
(* whose sockets it has to look up, and the sockets it has to put out.     *)
NoOp == [kind |-> "none", at |-> "end", who |-> {}, srem |-> {}, lookup |-> {}, out |-> {}]

SocketsOf(u) == {s \in Sockets : UserOf[s] = u}

Init ==
    /\ roomUsers = {} /\ indexed = {} /\ hash = {}
    /\ banned = {} /\ deleted = FALSE
    /\ link = [s \in Sockets |-> "new"]
    /\ jpc = [s \in Sockets |-> "idle"]
    /\ sweep = [s \in Sockets |-> {}]
    /\ lpc = [s \in Sockets |-> "idle"]
    /\ dpc = [s \in Sockets |-> "none"]
    /\ op = NoOp /\ ops = 0
    /\ disturbed = {} /\ raced = {} /\ expired = {} /\ strays = {}

---------------------------------------------------------------------------
(* Connections.  A server-side disconnect reaches the process that holds   *)
(* the socket through the Redis adapter: the connection is "closing" until *)
(* then.                                                                   *)

Connect(s) ==
    /\ link[s] = "new"
    /\ link' = [link EXCEPT ![s] = "open"]
    /\ UNCHANGED <<redis, mysql, joins, lpc, dpc, op, ops>>

Linked(s) == link[s] \in {"open", "closing"}

(* The connection ends here and now, and handleDisconnect begins.  It may  *)
(* have ended before.                                                      *)
Drop(s) ==
    /\ link' = IF Linked(s) THEN [link EXCEPT ![s] = "closed"] ELSE link
    /\ dpc' = IF Linked(s) THEN [dpc EXCEPT ![s] = "read"] ELSE dpc

(* The client goes away, or the server's request to close arrives. *)
Disconnect(s) ==
    /\ Linked(s)
    /\ Drop(s)
    /\ UNCHANGED <<redis, mysql, joins, lpc, op, ops>>

(* disconnectSockets, as a new value of link. *)
Closing(S) == [s \in Sockets |-> IF s \in S /\ link[s] = "open" THEN "closing" ELSE link[s]]

---------------------------------------------------------------------------
(* handleJoinRoom *)

JGoto(s, step) == jpc' = [jpc EXCEPT ![s] = step]

(* catch: forcedDisconnect and client.disconnect(), of a local socket. *)
Reject(s) == JGoto(s, "rejected") /\ Drop(s)

(* The room is found, or it is soft-deleted. *)
JoinFindRoom(s) ==
    /\ jpc[s] = "idle" /\ Linked(s)
    /\ IF deleted THEN Reject(s) ELSE JGoto(s, "count") /\ UNCHANGED <<link, dpc>>
    /\ UNCHANGED <<redis, mysql, sweep, lpc, op, ops>>

JoinCount(s) ==
    /\ jpc[s] = "count"
    /\ IF Cardinality(roomUsers) >= Capacity
       THEN Reject(s) ELSE JGoto(s, "ban") /\ UNCHANGED <<link, dpc>>
    /\ UNCHANGED <<redis, mysql, sweep, lpc, op, ops>>

(* Mutant: the room's bans are not looked up. *)
JoinWithoutBanCheck(s) ==
    /\ jpc[s] = "ban"
    /\ JGoto(s, "add")
    /\ UNCHANGED <<redis, mysql, link, sweep, lpc, dpc, op, ops>>

JoinCheckBan(s) ==
    /\ jpc[s] = "ban"
    /\ IF UserOf[s] \in banned THEN Reject(s) ELSE JGoto(s, "add") /\ UNCHANGED <<link, dpc>>
    /\ UNCHANGED <<redis, mysql, sweep, lpc, op, ops>>

JoinAddUser(s) ==
    /\ jpc[s] = "add"
    /\ roomUsers' = roomUsers \cup {UserOf[s]}
    /\ JGoto(s, "index")
    /\ UNCHANGED <<indexed, hash, expiry, mysql, link, sweep, lpc, dpc, op, ops>>

(* Mutant: user:rooms is not written. *)
JoinWithoutIndex(s) ==
    /\ jpc[s] = "index"
    /\ JGoto(s, "read")
    /\ UNCHANGED <<redis, mysql, link, sweep, lpc, dpc, op, ops>>

(* SADD, and EXPIRE: the key lasts for another 24 hours. *)
JoinIndex(s) ==
    /\ jpc[s] = "index"
    /\ indexed' = indexed \cup {UserOf[s]}
    /\ expired' = expired \ {UserOf[s]}
    /\ JGoto(s, "read")
    /\ UNCHANGED <<roomUsers, hash, strays, mysql, link, sweep, lpc, dpc, op, ops>>

(* Mutant: the other windows keep the room. *)
JoinBesideOthers(s) ==
    /\ jpc[s] = "read"
    /\ JGoto(s, "hset")
    /\ UNCHANGED <<redis, mysql, link, sweep, lpc, dpc, op, ops>>

(* removeUserSocket: HGETALL, then each socket of the room is told to      *)
(* close and its field is deleted.                                         *)
JoinReadSockets(s) ==
    /\ jpc[s] = "read"
    /\ LET others == hash \cap SocketsOf(UserOf[s]) IN
        /\ sweep' = [sweep EXCEPT ![s] = others]
        /\ JGoto(s, IF others = {} THEN "hset" ELSE "sweep")
    /\ UNCHANGED <<redis, mysql, link, lpc, dpc, op, ops>>

JoinCloseOther(s) ==
    /\ jpc[s] = "sweep"
    /\ \E o \in sweep[s] : link[o] = "open" /\ link' = Closing({o})
    /\ UNCHANGED <<redis, mysql, joins, lpc, dpc, op, ops>>

(* Mutant: the join does not go on after the last socket. *)
JoinForgetAndStay(s) ==
    /\ jpc[s] = "sweep"
    /\ \E o \in sweep[s] :
        /\ link[o] # "open"
        /\ hash' = hash \ {o}
        /\ sweep' = [sweep EXCEPT ![s] = @ \ {o}]
    /\ UNCHANGED <<roomUsers, indexed, expiry, mysql, link, jpc, lpc, dpc, op, ops>>

JoinForgetOther(s) ==
    /\ jpc[s] = "sweep"
    /\ \E o \in sweep[s] :
        /\ link[o] # "open"
        /\ hash' = hash \ {o}
        /\ sweep' = [sweep EXCEPT ![s] = @ \ {o}]
        /\ JGoto(s, IF sweep[s] = {o} THEN "hset" ELSE "sweep")
    /\ UNCHANGED <<roomUsers, indexed, expiry, mysql, link, lpc, dpc, op, ops>>

(* HSET, EXPIRE and client.join, which no other handler tells apart.  A    *)
(* leave that was over before is undone.                                   *)
JoinAddSocket(s) ==
    /\ jpc[s] = "hset"
    /\ hash' = hash \cup {s}
    /\ lpc' = IF lpc[s] = "left" THEN [lpc EXCEPT ![s] = "idle"] ELSE lpc
    /\ JGoto(s, "in")
    /\ UNCHANGED <<roomUsers, indexed, expiry, mysql, link, sweep, dpc, op, ops>>

Join(s) ==
    \/ JoinFindRoom(s) \/ JoinCount(s) \/ JoinCheckBan(s) \/ JoinAddUser(s)
    \/ JoinIndex(s) \/ JoinReadSockets(s) \/ JoinCloseOther(s)
    \/ JoinForgetOther(s) \/ JoinAddSocket(s)

---------------------------------------------------------------------------
(* leaveRoom of socket.service.ts, from handleLeaveRoom and from           *)
(* handleDisconnect.  delUserRoomRelation deletes both relations at once.  *)

Unrelate(u) == roomUsers' = roomUsers \ {u} /\ indexed' = indexed \ {u}

(* Who is not in the room is disconnected.  The check is of the user: any  *)
(* window of a member may take the member out.                             *)
LeaveCheck(s) ==
    /\ lpc[s] = "idle" /\ Linked(s)
    /\ IF UserOf[s] \in roomUsers
       THEN lpc' = [lpc EXCEPT ![s] = "remove"] /\ UNCHANGED <<link, dpc>>
       ELSE lpc' = [lpc EXCEPT ![s] = "refused"] /\ Drop(s)
    /\ UNCHANGED <<redis, mysql, joins, op, ops>>

(* delUserRoomRelation and client.leave.  The socket's field stays. *)
LeaveRemove(s) ==
    /\ lpc[s] = "remove"
    /\ Unrelate(UserOf[s])
    /\ lpc' = [lpc EXCEPT ![s] = "left"]
    /\ UNCHANGED <<hash, expiry, mysql, link, joins, dpc, op, ops>>

DGoto(s, step) == dpc' = [dpc EXCEPT ![s] = step]

(* HGETALL: is there a room in this socket's field? *)
DiscRead(s) ==
    /\ dpc[s] = "read"
    /\ DGoto(s, IF s \in hash THEN "check" ELSE "hdel")
    /\ UNCHANGED <<redis, mysql, link, joins, lpc, op, ops>>

(* leaveRoom throws when the user is not in the room; the catch goes on.   *)
DiscCheck(s) ==
    /\ dpc[s] = "check"
    /\ DGoto(s, IF UserOf[s] \in roomUsers THEN "remove" ELSE "hdel")
    /\ UNCHANGED <<redis, mysql, link, joins, lpc, op, ops>>

DiscRemove(s) ==
    /\ dpc[s] = "remove"
    /\ Unrelate(UserOf[s])
    /\ DGoto(s, "hdel")
    /\ UNCHANGED <<hash, expiry, mysql, link, joins, lpc, op, ops>>

DiscForgetSocket(s) ==
    /\ dpc[s] = "hdel"
    /\ hash' = hash \ {s}
    /\ DGoto(s, "done")
    /\ UNCHANGED <<roomUsers, indexed, expiry, mysql, link, joins, lpc, op, ops>>

Leave(s) ==
    \/ LeaveCheck(s) \/ LeaveRemove(s)
    \/ DiscRead(s) \/ DiscCheck(s) \/ DiscRemove(s) \/ DiscForgetSocket(s)

---------------------------------------------------------------------------
(* kickUser, banUserById, leaveAllRooms and softDeleteRoom, at most one at *)
(* a time.  Each deletes relations and then, for each user, runs           *)
(* removeUserSocket.                                                       *)

Start(kind, at, who, srem, lookup) ==
    /\ op.at = "end" /\ ops < MaxOps /\ kind \in OpKinds
    /\ op' = [kind |-> kind, at |-> at, who |-> who, srem |-> srem,
              lookup |-> lookup, out |-> {}]
    /\ ops' = ops + 1
    /\ UNCHANGED <<redis, mysql, link, joins, lpc, dpc>>

(* The owner kicks a user who is in the room. *)
Kick(u) == u \in roomUsers /\ Start("kick", "relations", {u}, {u}, {})

(* The owner bans a user, in the room or not, who is not banned yet. *)
Ban(u) == u \notin banned /\ Start("ban", "relations", {u}, {u}, {})

(* Login, logout, a ban by the administrator or the end of an account. *)
LeaveAll(u) == u \in indexed /\ Start("leaveAll", "relations", {u}, {u}, {})

(* The members are read inside the transaction; an event asks for the      *)
(* sockets of each without waiting for them.                               *)
DeleteRoom ==
    ~deleted /\ Start("deleteRoom", "relations", Users, roomUsers, roomUsers)

(* delUserRoomRelation of one user.  Kick and leaveAllRooms go on to the   *)
(* sockets, the others have a transaction to commit.                       *)
OpUnrelate ==
    /\ op.at = "relations"
    /\ \E u \in op.srem :
        /\ Unrelate(u)
        /\ op' = IF op.kind \in {"kick", "leaveAll"}
                 THEN [op EXCEPT !.srem = {}, !.lookup = {u}, !.at = "sockets"]
                 ELSE [op EXCEPT !.srem = @ \ {u}]
    /\ UNCHANGED <<hash, expiry, mysql, link, joins, lpc, dpc, ops>>

(* softDeleteRoom: DEL room:users:{room}. *)
OpClear ==
    /\ op.at = "relations" /\ op.kind = "deleteRoom" /\ op.srem = {}
    /\ roomUsers' = {}
    /\ op' = [op EXCEPT !.at = "commit"]
    /\ UNCHANGED <<indexed, hash, expiry, mysql, link, joins, lpc, dpc, ops>>

(* The transaction commits: others see the ban or the deletion from here. *)
OpCommit ==
    /\ \/ /\ op.at = "relations" /\ op.kind = "ban" /\ op.srem = {}
          /\ banned' = banned \cup op.who
          /\ UNCHANGED deleted
       \/ /\ op.at = "commit"
          /\ deleted' = TRUE
          /\ UNCHANGED banned
    /\ op' = [op EXCEPT !.at = "sockets",
                        !.lookup = IF op.kind = "ban" THEN op.who ELSE @]
    /\ UNCHANGED <<redis, link, joins, lpc, dpc, ops>>

(* removeUserSocket of one user: HGETALL. *)
OpLookup ==
    /\ \E u \in op.lookup :
        op' = [op EXCEPT !.lookup = @ \ {u}, !.out = @ \cup (hash \cap SocketsOf(u))]
    /\ UNCHANGED <<redis, mysql, link, joins, lpc, dpc, ops>>

(* Mutant: the sockets are forgotten and not closed. *)
OpForgetOnly ==
    /\ \E s \in op.out : link[s] = "open" /\ hash' = hash \ {s}
                          /\ op' = [op EXCEPT !.out = @ \ {s}]
    /\ UNCHANGED <<roomUsers, indexed, expiry, mysql, link, joins, lpc, dpc, ops>>

OpClose ==
    /\ \E s \in op.out : link[s] = "open" /\ link' = Closing({s})
    /\ UNCHANGED <<redis, mysql, joins, lpc, dpc, op, ops>>

OpForget ==
    /\ \E s \in op.out :
        /\ link[s] # "open"
        /\ hash' = hash \ {s}
        /\ op' = [op EXCEPT !.out = @ \ {s}]
    /\ UNCHANGED <<roomUsers, indexed, expiry, mysql, link, joins, lpc, dpc, ops>>

OpEnd ==
    /\ op.at = "sockets" /\ op.lookup = {} /\ op.out = {}
    /\ op' = NoOp
    /\ UNCHANGED <<redis, mysql, link, joins, lpc, dpc, ops>>

Operation ==
    \/ \E u \in Users : Kick(u) \/ Ban(u) \/ LeaveAll(u)
    \/ DeleteRoom
    \/ OpUnrelate \/ OpClear \/ OpCommit \/ OpLookup \/ OpClose \/ OpForget \/ OpEnd

---------------------------------------------------------------------------
(* The keys of a user end 24 hours after a join renewed them, however long *)
(* its windows stay open.                                                  *)

ExpiryDue == "expiry" \in OpKinds /\ ops < MaxOps /\ ops' = ops + 1

(* user:rooms; a join that has just renewed it is not over for 24 hours. *)
RoomsExpire(u) ==
    /\ ExpiryDue
    /\ u \in indexed
    /\ \A s \in SocketsOf(u) : jpc[s] \notin {"read", "sweep", "hset"}
    /\ indexed' = indexed \ {u}
    /\ expired' = expired \cup {u}
    /\ UNCHANGED <<roomUsers, hash, strays, mysql, link, joins, lpc, dpc, op>>

(* user:sockets. *)
SocketsExpire(u) ==
    /\ ExpiryDue
    /\ hash \cap SocketsOf(u) # {}
    /\ hash' = hash \ SocketsOf(u)
    /\ strays' = strays \cup (hash \cap SocketsOf(u))
    /\ UNCHANGED <<roomUsers, indexed, expired, mysql, link, joins, lpc, dpc, op>>

---------------------------------------------------------------------------
(* The handlers at work on user u.  Those that take the user out may       *)
(* overlap; the user is disturbed when one of them, or another join,       *)
(* overlaps a join, when a window leaves that does not hold the room, or   *)
(* while a window has no field.                                            *)

Joining(u) == {s \in SocketsOf(u) : jpc[s] \notin {"idle", "in", "rejected"}}
Leaving(u) == {s \in SocketsOf(u) : lpc[s] = "remove"}
Closed(u) == {s \in SocketsOf(u) : dpc[s] \notin {"none", "done"}}
Handlers(u) ==
    Cardinality(Joining(u)) + Cardinality(Leaving(u)) + Cardinality(Closed(u))
        + (IF u \in op.who THEN 1 ELSE 0)

Disturbed(u) ==
    \/ Joining(u) # {} /\ Handlers(u) > 1
    \/ \E s \in Leaving(u) : s \notin hash
    \/ \E s \in SocketsOf(u) \cap strays : dpc[s] # "done"

(* A window that is still there lists its user: its join goes on to close  *)
(* whatever else holds the room, and puts things right if it stays alone.  *)
Restores(u) ==
    \E s \in SocketsOf(u) : jpc[s] = "add" /\ jpc'[s] = "index" /\ Linked(s)

(* A join of u is past the check that a ban, or the deletion of the room,  *)
(* will make fail, and neither is committed yet.                           *)
Raced(u) ==
    /\ u \in op.who /\ op.at \in {"relations", "commit"}
    /\ \/ op.kind = "ban" /\ \E s \in Joining(u) : jpc[s] \notin {"count", "ban"}
       \/ op.kind = "deleteRoom" /\ Joining(u) # {}

Step ==
    \/ \E s \in Sockets : Connect(s) \/ Disconnect(s) \/ Join(s) \/ Leave(s)
    \/ Operation
    \/ \E u \in Users : RoomsExpire(u) \/ SocketsExpire(u)

Next ==
    /\ Step
    /\ disturbed' = (disturbed \ {u \in Users : Restores(u)})
                        \cup {u \in Users : Disturbed(u)'}
    /\ raced' = raced \cup {u \in Users : Raced(u)'}

Spec == Init /\ [][Next]_vars

---------------------------------------------------------------------------
(* Properties *)

TypeOK ==
    /\ roomUsers \in SUBSET Users /\ indexed \in SUBSET Users
    /\ hash \in SUBSET Sockets
    /\ banned \in SUBSET Users /\ deleted \in BOOLEAN
    /\ link \in [Sockets -> {"new", "open", "closing", "closed"}]
    /\ jpc \in [Sockets -> JoinSteps] /\ sweep \in [Sockets -> SUBSET Sockets]
    /\ \A s \in Sockets : jpc[s] = "sweep" <=> sweep[s] # {}
    /\ lpc \in [Sockets -> LeaveSteps] /\ dpc \in [Sockets -> DiscSteps]
    /\ op \in [kind : (OpKinds \ {"expiry"}) \cup {"none"},
               at : {"relations", "commit", "sockets", "end"}, who : SUBSET Users,
               srem : SUBSET Users, lookup : SUBSET Users, out : SUBSET Sockets]
    /\ ops \in Nat
    /\ disturbed \in SUBSET Users /\ raced \in SUBSET Users
    /\ expired \in SUBSET Users /\ strays \in SUBSET Sockets

(* Nothing is going on about u, nor about to. *)
Quiet(u) == Handlers(u) = 0 /\ \A s \in SocketsOf(u) : link[s] # "closing"

(* A socket that receives the room's messages. *)
Present(s) == jpc[s] = "in" /\ link[s] = "open" /\ lpc[s] # "left"

(* Membership is exact from a join that overlapped no other handler on,    *)
(* whatever an earlier one left behind: the user is in the room's list if  *)
(* and only if one socket, and no more, receives its messages; and no      *)
(* field of a closed socket is left.                                       *)
PresenceExact ==
    \A u \in Users \ disturbed : Quiet(u) =>
        /\ u \in roomUsers <=> \E s \in SocketsOf(u) : Present(s)
        /\ \A s, t \in SocketsOf(u) : Present(s) /\ Present(t) => s = t
        /\ \A s \in hash \cap SocketsOf(u) : link[s] = "open"

(* A banned user, or anybody once the room is deleted, is out of the room  *)
(* for good, whatever else overlapped: only a join that was past its check *)
(* before the ban or the deletion was committed can stay.  The deletion    *)
(* closes the sockets of the listed members only, which an overlap of      *)
(* joins and leaves may have made too few.  A ban misses the windows whose *)
(* field has ended.                                                        *)
PutOutStaysOut ==
    \A u \in Users \ raced : Quiet(u) =>
        /\ u \in banned \/ deleted => u \notin roomUsers
        /\ u \in banned \/ (deleted /\ u \notin disturbed)
               => \A s \in SocketsOf(u) \ strays : ~Present(s)

(* Whatever overlapped, a socket that receives the room's messages is in   *)
(* user:sockets, where removeUserSocket looks for it: a socket is told to  *)
(* close before its field goes, unless the key itself ends.                *)
PresentFindable == \A s \in Sockets \ strays : Present(s) => s \in hash

(* Whoever is in the room's list can be found by leaveAllRooms, which      *)
(* walks user:rooms: whatever the overlaps, only a join between its two    *)
(* SADDs is missing there, and who joined more than a day ago.             *)
MembersIndexed ==
    \A u \in roomUsers \ expired : u \in indexed \/ \E s \in SocketsOf(u) : jpc[s] = "index"

(* "Maximum number of members" (the doc of maxMembers in                   *)
(* rooms/dto/create-room.dto.ts:14): the room never holds more.            *)
CapacityRespected == Cardinality(roomUsers) <= Capacity
=============================================================================
