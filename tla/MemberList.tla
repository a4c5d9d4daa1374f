----------------------------- MODULE MemberList -----------------------------
(***************************************************************************)
(* The list of members on every page of a room.  Each handler that changes *)
(* room:users reads the members afterwards and sends them to everybody in  *)
(* the room (roomEvent); a page shows the last list it was sent, whenever  *)
(* it was read.                                                            *)
(*                                                                         *)
(* Of RoomPresence this keeps one window a user and the checks that decide *)
(* whether a list is sent at all; SREM and the end of the transaction of a *)
(* ban are one step.  What two processes send to a window, one of them     *)
(* through Redis, may overtake: lists arrive in any order.                  *)
(***************************************************************************)
EXTENDS Naturals, FiniteSets

CONSTANTS
    People,
    RoomOwner,
    Workers,    \* handlers that can be at work at once
    MaxMail     \* bound on the different lists on their way to one page

ASSUME MembersAssumption ==
    RoomOwner \in People /\ MaxMail \in Nat \ {0}

VARIABLES
    members,    \* room:users
    barred,     \* users banned from the room
    window,     \* each user's socket: "in" and "lost" receive the room's events,
                \* "lost" is not in user:sockets
    listed,     \* roomUsers of each page
    mail,       \* lists on their way to each page
    work,       \* the handlers
    blurred     \* history: handlers have overlapped, or a replica has started, since
                \* a lone handler ended

memberVars == <<members, barred, window, listed, mail, work, blurred>>

Acts == {"join", "leave", "gone", "kick", "ban", "leaveAll"}
Work == [pc: {"change", "read", "out", "send"}, act: Acts, who: People,
         read: SUBSET People, alone: BOOLEAN]

NoWork == [pc |-> "idle"]
AtWork(h) == work[h] # NoWork
NoMail == [u \in People |-> {}]
Hushed == mail = NoMail /\ \A h \in Workers: ~AtWork(h)

MembersInit ==
    /\ members = {} /\ barred = {}
    /\ window = [u \in People |-> "closed"]
    /\ listed = [u \in People |-> {}]
    /\ mail = NoMail
    /\ work = [h \in Workers |-> NoWork]
    /\ blurred = FALSE

-----------------------------------------------------------------------------
(* The beginning of a handler.  Bound: once handlers have overlapped, the    *)
(* next ones do not, as nothing is claimed before one of them has ended.    *)
Handle(act, u) ==
    \E h \in Workers:
        /\ ~AtWork(h) /\ (blurred => \A g \in Workers: ~AtWork(g))
        /\ work' = [g \in Workers |->
              IF g = h THEN [pc |-> "change", act |-> act, who |-> u, read |-> {}, alone |-> Hushed]
              ELSE IF AtWork(g) THEN [work[g] EXCEPT !.alone = FALSE] ELSE NoWork]
        /\ blurred' = (blurred \/ ~Hushed)

(* Who has a socket in the room. *)
InRoom == {u \in People: window[u] \in {"in", "lost"}}

(* getBannedUsersByRoomId. *)
BanList == barred

(* The page looks for its user in the list of bans; joinRoom looks again.    *)
MayEnter(u) == u \notin BanList

(* The page opens its socket and joins. *)
JoinRoom(u) ==
    /\ window[u] = "closed" /\ MayEnter(u)
    /\ window' = [window EXCEPT ![u] = "open"]
    /\ Handle("join", u)
    /\ UNCHANGED <<members, barred, listed, mail>>

(* The end of the effect: leaveRoom, before the socket is closed.           *)
LeaveRoom(u) ==
    /\ u \in InRoom /\ u \in members
    /\ Handle("leave", u)
    /\ UNCHANGED <<members, barred, window, listed, mail>>

(* The socket's window is no more, nor what it showed or was to be sent.    *)
CloseWindow(u) ==
    /\ window' = [window EXCEPT ![u] = "closed"]
    /\ listed' = [listed EXCEPT ![u] = {}]
    /\ mail' = [mail EXCEPT ![u] = {}]

(* handleDisconnect: a socket that is not in the room, or whose user is not, *)
(* changes nothing.                                                         *)
Disconnect(u) ==
    /\ window[u] # "closed"
    /\ CloseWindow(u)
    /\ IF window[u] = "in" /\ u \in members THEN Handle("gone", u)
       ELSE UNCHANGED <<work, blurred>>
    /\ UNCHANGED <<members, barred>>

(* The buttons of the dialog about a user, for the owner: not about oneself. *)
MayPutOut(u) == RoomOwner \in InRoom /\ u # RoomOwner

Kick(u) ==
    /\ MayPutOut(u) /\ u \in members
    /\ Handle("kick", u)
    /\ UNCHANGED <<members, barred, window, listed, mail>>

Ban(u) ==
    /\ MayPutOut(u) /\ u \notin barred
    /\ Handle("ban", u)
    /\ UNCHANGED <<members, barred, window, listed, mail>>

(* The button in the dialog with the list of bans. *)
OffersUnban(u) == u \in BanList

(* unBanUserById: nobody in the room is told. *)
Unban(u) ==
    /\ OffersUnban(u)
    /\ barred' = barred \ {u}
    /\ UNCHANGED <<members, window, listed, mail, work, blurred>>

(* Another login, a logout or the end of the account, of a member.          *)
LeaveAllRooms(u) ==
    /\ u \in members
    /\ Handle("leaveAll", u)
    /\ UNCHANGED <<members, barred, window, listed, mail>>

-----------------------------------------------------------------------------
(* The steps of a handler: a ban closes the sockets before it reads the      *)
(* members, a kick and leaveAllRooms afterwards, the others close none.     *)
NextPc(act, pc) ==
    CASE pc = "change" -> IF act = "ban" THEN "out" ELSE "read"
      [] pc = "read"   -> IF act \in {"kick", "leaveAll"} THEN "out" ELSE "send"
      [] pc = "out"    -> IF act = "ban" THEN "read" ELSE "send"

Proceed(h) == work' = [work EXCEPT ![h].pc = NextPc(work[h].act, @)]

(* addRoomUser or delUserRoomRelation. *)
Change(h) ==
    LET u == work[h].who IN
    /\ work[h].pc = "change"
    /\ members' = IF work[h].act = "join" THEN members \cup {u} ELSE members \ {u}
    /\ barred' = IF work[h].act = "ban" THEN barred \cup {u} ELSE barred
    /\ Proceed(h)
    /\ UNCHANGED <<window, listed, mail, blurred>>

(* getRoomUsersSummary. *)
ReadMembers(h) ==
    /\ work[h].pc = "read"
    /\ work' = [work EXCEPT ![h].read = members, ![h].pc = NextPc(work[h].act, @)]
    /\ UNCHANGED <<members, barred, window, listed, mail, blurred>>

(* removeUserSocket of a user with a socket in the room; its own             *)
(* handleDisconnect finds nothing left to do.                               *)
PutOut(h) ==
    LET u == work[h].who IN
    /\ work[h].pc = "out"
    /\ IF window[u] = "in" THEN CloseWindow(u) ELSE UNCHANGED <<window, listed, mail>>
    /\ Proceed(h)
    /\ UNCHANGED <<members, barred, blurred>>

(* One of the reads after the change fails: no list is sent.  Who joins or   *)
(* leaves is disconnected; who is put out may stay connected.               *)
WorkFails(h) ==
    LET u == work[h].who IN
    /\ work[h].pc \in {"read", "out"}
    /\ IF work[h].act \in {"join", "leave"} THEN CloseWindow(u)
       ELSE UNCHANGED <<window, listed, mail>>
    /\ work' = [work EXCEPT ![h] = NoWork]
    /\ blurred' = TRUE
    /\ UNCHANGED <<members, barred>>

(* client.join or client.leave, of a socket that is still open. *)
Entered(h) ==
    LET u == work[h].who IN
    CASE work[h].act = "join"  -> IF window[u] = "open" THEN [window EXCEPT ![u] = "in"] ELSE window
      [] work[h].act = "leave" -> IF u \in InRoom THEN [window EXCEPT ![u] = "open"] ELSE window
      [] OTHER                 -> window

(* Mutant: who joins enters after the list was sent. *)
ReceiversBefore(h) == InRoom

Receivers(h) == {u \in People: Entered(h)[u] \in {"in", "lost"}}

(* server.to(roomId).emit('roomEvent'), in one step with client.join.       *)
SendMembers(h) ==
    /\ work[h].pc = "send"
    /\ \A u \in Receivers(h): Cardinality(mail[u] \cup {work[h].read}) <= MaxMail
    /\ window' = Entered(h)
    /\ mail' = [u \in People |->
                  IF u \in Receivers(h) THEN mail[u] \cup {work[h].read} ELSE mail[u]]
    /\ blurred' = (blurred /\ ~work[h].alone)
    /\ work' = [work EXCEPT ![h] = NoWork]
    /\ UNCHANGED <<members, barred, listed>>

(* setRoomUsers. *)
ReceiveMembers(u) ==
    /\ \E list \in mail[u]:
         /\ listed' = [listed EXCEPT ![u] = list]
         /\ mail' = [mail EXCEPT ![u] = @ \ {list}]
    /\ UNCHANGED <<members, barred, window, work, blurred>>

(* One replica starts: its sockets are closed, and it deletes room:users and *)
(* user:sockets for all.  Bound: between handlers.                          *)
OnModuleInit ==
    /\ \A h \in Workers: ~AtWork(h)
    /\ members' = {}
    /\ \E mine \in SUBSET People:
         /\ window' = [u \in People |-> IF u \in mine THEN "closed"
                                      ELSE IF window[u] = "in" THEN "lost" ELSE window[u]]
         /\ listed' = [u \in People |-> IF u \in mine THEN {} ELSE listed[u]]
         /\ mail' = [u \in People |-> IF u \in mine THEN {} ELSE mail[u]]
    /\ blurred' = TRUE
    /\ UNCHANGED <<barred, work>>

MembersNext ==
    \/ OnModuleInit
    \/ \E u \in People:
         \/ JoinRoom(u) \/ LeaveRoom(u) \/ Disconnect(u)
         \/ Kick(u) \/ Ban(u) \/ Unban(u) \/ LeaveAllRooms(u) \/ ReceiveMembers(u)
    \/ \E h \in Workers:
         Change(h) \/ ReadMembers(h) \/ PutOut(h) \/ WorkFails(h) \/ SendMembers(h)

MembersSpec == MembersInit /\ [][MembersNext]_memberVars

-----------------------------------------------------------------------------
(* Types. *)
MembersTypeOK ==
    /\ members \subseteq People /\ barred \subseteq People
    /\ window \in [People -> {"closed", "open", "in", "lost"}]
    /\ listed \in [People -> SUBSET People]
    /\ mail \in [People -> SUBSET SUBSET People]
    /\ work \in [Workers -> Work \cup {NoWork}]
    /\ blurred \in BOOLEAN

(* When nothing is under way every page in the room lists its members, from  *)
(* the first handler on that had the room to itself from its change to its  *)
(* list's arrival: of handlers that overlapped, the last list may be the    *)
(* older one, and what the start of a replica removed stays listed, until   *)
(* the next event.                                                          *)
MembersListed ==
    Hushed /\ ~blurred => \A u \in InRoom: listed[u] = members
=============================================================================
