------------------------------- MODULE Session -------------------------------
(***************************************************************************)
(* Accounts, their cached profiles and their sessions.  An account is a    *)
(* row of the users table; Redis keeps a copy of it (user:profile), the    *)
(* sessions (session) and, for each user, the session that the next login  *)
(* or an administrator has to remove (user:session:mapping).               *)
(*                                                                         *)
(* Every request is a process.  A step is one Redis command, one MULTI or  *)
(* one SQL statement, so requests interleave wherever the code awaits.  Of *)
(* a row only the name and the ban are kept: the e-mail address follows    *)
(* the checks of the name, the password is never compared between two      *)
(* requests.  The removal of the user from rooms, which leaveAllRooms does *)
(* before it removes the session, is in RoomPresence.                      *)
(***************************************************************************)
EXTENDS Naturals

CONSTANTS
    Users,      \* ids that rows have or can get
    Names,      \* account names
    Reqs,       \* requests; the session that a login creates is named after it
    FirstSid,   \* a session from before
    None,       \* no value
    Kinds       \* requests that this instance makes

AllKinds == {"login", "logout", "visit", "update", "ban", "unban", "delete", "create"}

Sids == Reqs \cup {FirstSid}
Row == [name: Names, banned: BOOLEAN]

ASSUME SessionAssumption ==
    /\ FirstSid \notin Reqs
    /\ None \notin Users \cup Names \cup Sids \cup Row
    /\ Kinds \subseteq AllKinds


VARIABLES
    row,        \* the users table
    profile,    \* user:profile:{u}
    session,    \* session:{s}
    mapping,    \* user:session:mapping:{u}
    req,        \* what each request holds between its awaits
    met,        \* history: the requests that were under way together with this one
    ended,      \* history: the sessions that existed when this request began
    cachedBy,   \* history: the request that wrote the profile, None before the first
    namedBy     \* history: the request that gave the account its name

vars == <<row, profile, session, mapping, req, met, ended, cachedBy, namedBy>>
history == <<met, ended, cachedBy, namedBy>>
redis == <<profile, session, mapping>>

Pcs == {"idle", "guard", "profile", "fill", "store", "sid", "clear", "multi",
        "old", "swap", "load", "name", "save", "cache", "drop", "insert",
        "done", "refused"}

Request == [pc: Pcs, kind: AllKinds, user: Users \cup {None}, name: Names \cup {None},
            row: Row \cup {None},       \* the entity that findOne returned
            copy: Row \cup {None},      \* the row that getUserProfile is about to store
            sid: Sids \cup {None},      \* the session read, or the cookie
            then: {"visit", "leave", "sid"}]    \* where getUserProfile returns to

Idle == [pc |-> "idle", kind |-> "visit", user |-> None, name |-> None,
         row |-> None, copy |-> None, sid |-> None, then |-> "visit"]

UnderWay(r) == req[r].pc \notin {"idle", "done", "refused"}
At(r, pc) == req[r].pc = pc
UserOf(r) == req[r].user
Go(r, pc) == req' = [req EXCEPT ![r].pc = pc]

(* Mutant: no name is ever found. *)
NoNameTaken(n) == FALSE

(* findOne where name = n. *)
NameTaken(n) == \E u \in Users: row[u] # None /\ row[u].name = n

(* One user has an account and perhaps a session; the others do not exist   *)
(* yet.  A profile without a session may have expired.                      *)
Init ==
    /\ \E u \in Users, n \in Names:
         /\ row = [v \in Users |-> IF v = u THEN [name |-> n, banned |-> FALSE] ELSE None]
         /\ \/ /\ session = [s \in Sids |-> None]
               /\ mapping = [v \in Users |-> None]
               /\ profile \in {row, [v \in Users |-> None]}
            \/ /\ session = [s \in Sids |-> IF s = FirstSid THEN u ELSE None]
               /\ mapping = [v \in Users |-> IF v = u THEN FirstSid ELSE None]
               /\ profile = row
    /\ req = [r \in Reqs |-> Idle]
    /\ met = [s \in Sids |-> {}]
    /\ ended = [r \in Reqs |-> {}]
    /\ cachedBy = [u \in Users |-> None]
    /\ namedBy = [u \in Users |-> None]

-----------------------------------------------------------------------------
(* The beginning of a request.                                              *)
Begin(r, new) ==
    /\ req[r].pc = "idle"
    /\ req' = [req EXCEPT ![r] = new]
    /\ LET others == {q \in Reqs: UnderWay(q)} IN
         met' = [s \in Sids |-> IF s = r THEN others
                                ELSE IF s \in others THEN met[s] \cup {r} ELSE met[s]]
    /\ ended' = [ended EXCEPT ![r] = {s \in Sids: session[s] # None}]
    /\ UNCHANGED <<row, profile, session, mapping, cachedBy, namedBy>>

(* Mutant: what is cached was not stripped. *)
WriteWhole(r) ==
    /\ profile' = [profile EXCEPT ![UserOf(r)] = req[r]]
    /\ cachedBy' = [cachedBy EXCEPT ![UserOf(r)] = r]

(* Mutant: the profile is not written. *)
WriteNothing(r) == UNCHANGED <<profile, cachedBy>>

(* SET user:profile with the entity of the request. *)
WriteProfile(r) ==
    /\ profile' = [profile EXCEPT ![UserOf(r)] = req[r].row]
    /\ cachedBy' = [cachedBy EXCEPT ![UserOf(r)] = r]

(* Mutant: the session outlives its mapping. *)
RevokeMapping(u, s) == mapping' = [mapping EXCEPT ![u] = None] /\ UNCHANGED session

(* The MULTI of delSessionByUserId. *)
Revoke(u, s) ==
    /\ session' = [session EXCEPT ![s] = None]
    /\ mapping' = [mapping EXCEPT ![u] = None]

(* logIn looks for the account by its name. *)
BeginLogin(r) ==
    \E u \in Users:
        /\ "login" \in Kinds
        /\ Begin(r, [Idle EXCEPT !.pc = "load", !.kind = "login", !.user = u])

(* The buttons of the administrators' page about an account, which may show  *)
(* it as it was.                                                            *)
BeginBan(r) ==
    \E k \in Kinds \cap {"ban", "unban"}, u \in Users:
        Begin(r, [Idle EXCEPT !.pc = "load", !.kind = k, !.user = u])

BeginUpdate(r) ==
    \E u \in Users, n \in Names:
        /\ "update" \in Kinds
        /\ Begin(r, [Idle EXCEPT !.pc = "load", !.kind = "update", !.user = u, !.name = n])

(* deleteUserById reads the profile, not the row. *)
BeginDelete(r) ==
    \E u \in Users:
        /\ "delete" \in Kinds
        /\ Begin(r, [Idle EXCEPT !.pc = "profile", !.kind = "delete", !.user = u, !.then = "leave"])

BeginCreate(r) ==
    \E n \in Names:
        /\ "create" \in Kinds
        /\ Begin(r, [Idle EXCEPT !.pc = "name", !.kind = "create", !.name = n])

(* Any request that a SessionGuard admits, a socket's handshake, or a logout. *)
BeginWithCookie(r) ==
    \E k \in Kinds \cap {"visit", "logout"}, s \in Sids:
        /\ s # FirstSid => At(s, "done") /\ req[s].kind = "login"
        /\ Begin(r, [Idle EXCEPT !.pc = "guard", !.kind = k, !.sid = s,
                                 !.then = IF k = "visit" THEN "visit" ELSE "leave"])

(* getUserIdBySession. *)
Guard(r) ==
    /\ At(r, "guard")
    /\ LET u == session[req[r].sid] IN
         req' = [req EXCEPT ![r].user = u, ![r].pc = IF u = None THEN "refused" ELSE "profile"]
    /\ UNCHANGED <<row, redis, history>>

-----------------------------------------------------------------------------
(* getUserProfile: GET, on a miss findOne, then SET.                        *)
ProfileReturns(r) ==
    req' = [req EXCEPT ![r].copy = None,
                       ![r].then = IF @ = "leave" THEN "sid" ELSE @,
                       ![r].pc = CASE req[r].then = "visit" -> "done"
                                   [] req[r].then = "leave" -> "profile"
                                   [] req[r].then = "sid"   -> "sid"]

ProfileGet(r) ==
    /\ At(r, "profile")
    /\ IF profile[UserOf(r)] # None THEN ProfileReturns(r) ELSE Go(r, "fill")
    /\ UNCHANGED <<row, redis, history>>

ProfileFind(r) ==
    /\ At(r, "fill")
    /\ LET found == row[UserOf(r)] IN
         req' = [req EXCEPT ![r].copy = found, ![r].pc = IF found = None THEN "refused" ELSE "store"]
    /\ UNCHANGED <<row, redis, history>>

ProfileStore(r) ==
    /\ At(r, "store")
    /\ profile' = [profile EXCEPT ![UserOf(r)] = req[r].copy]
    /\ cachedBy' = [cachedBy EXCEPT ![UserOf(r)] = r]
    /\ ProfileReturns(r)
    /\ UNCHANGED <<row, session, mapping, met, ended, namedBy>>

-----------------------------------------------------------------------------
(* delSessionByUserId, the end of leaveAllRooms.                            *)
AfterLeave(r) ==
    Go(r, CASE req[r].kind = "login"  -> "old"
            [] req[r].kind = "delete" -> "drop"
            [] OTHER                  -> "done")

SessionGet(r) ==
    /\ At(r, "sid")
    /\ LET s == mapping[UserOf(r)] IN
         req' = [req EXCEPT ![r].sid = s, ![r].pc = IF s = None THEN "clear" ELSE "multi"]
    /\ UNCHANGED <<row, redis, history>>

SessionClear(r) ==
    /\ At(r, "clear")
    /\ mapping' = [mapping EXCEPT ![UserOf(r)] = None]
    /\ AfterLeave(r)
    /\ UNCHANGED <<row, profile, session, history>>

SessionMulti(r) ==
    /\ At(r, "multi")
    /\ Revoke(UserOf(r), req[r].sid)
    /\ AfterLeave(r)
    /\ UNCHANGED <<row, profile, history>>

(* setLoginUserData: the old session is read again, then replaced in a MULTI. *)
LoginGetOld(r) ==
    /\ At(r, "old")
    /\ req' = [req EXCEPT ![r].sid = mapping[UserOf(r)], ![r].pc = "swap"]
    /\ UNCHANGED <<row, redis, history>>

LoginSwap(r) ==
    /\ At(r, "swap")
    /\ session' = [s \in Sids |-> IF s = r THEN UserOf(r)
                                  ELSE IF s = req[r].sid THEN None ELSE session[s]]
    /\ mapping' = [mapping EXCEPT ![UserOf(r)] = r]
    /\ WriteProfile(r)
    /\ Go(r, "done")
    /\ UNCHANGED <<row, met, ended, namedBy>>

-----------------------------------------------------------------------------
(* Mutant: an entity that starts without a ban. *)
EntityUnbanned(r, found) == [found EXCEPT !.banned = (req[r].kind = "ban")]

(* The entity a request holds after findOne: a ban or its end is set at once. *)
Entity(r, found) ==
    [found EXCEPT !.banned = CASE req[r].kind = "ban"   -> TRUE
                               [] req[r].kind = "unban" -> FALSE
                               [] OTHER                 -> @]

(* findOne: login refuses a banned account, a new name is looked up next.   *)
Load(r) ==
    LET found == row[UserOf(r)] IN
    /\ At(r, "load")
    /\ IF (found # None => req[r].kind = "login" /\ found.banned)
       THEN Go(r, "refused")
       ELSE req' = [req EXCEPT ![r].row = Entity(r, found),
                               ![r].pc = CASE req[r].kind = "login"  -> "profile"
                                           [] req[r].kind = "update" -> "name"
                                           [] OTHER                  -> "save",
                               ![r].then = IF req[r].kind = "login" THEN "sid" ELSE @]
    /\ UNCHANGED <<row, redis, history>>

(* findOne by the name, in createUser and in both updates.                  *)
CheckName(r) ==
    /\ At(r, "name")
    /\ IF NameTaken(req[r].name) THEN Go(r, "refused")
       ELSE IF req[r].kind = "create" THEN Go(r, "insert")
       ELSE req' = [req EXCEPT ![r].row.name = req[r].name, ![r].pc = "save"]
    /\ UNCHANGED <<row, redis, history>>

(* save of a loaded entity writes every column that differs from the table, *)
(* so the row becomes the entity, even a row removed meanwhile.             *)
Save(r) ==
    /\ At(r, "save")
    /\ LET u == UserOf(r) IN
         /\ row' = [row EXCEPT ![u] = req[r].row]
         /\ namedBy' = [namedBy EXCEPT ![u] =
                          IF row[u] # None /\ row[u].name = req[r].row.name THEN @ ELSE r]
    /\ Go(r, "cache")
    /\ UNCHANGED <<redis, met, ended, cachedBy>>

(* Mutant: a ban leaves the sessions. *)
CacheEnds(r) == Go(r, "done")

(* A ban goes on to leaveAllRooms. *)
AfterCache(r) ==
    IF req[r].kind = "ban" THEN req' = [req EXCEPT ![r].pc = "profile", ![r].then = "sid"]
    ELSE Go(r, "done")

(* setUserProfile with the saved entity; a ban then puts the user out. *)
Cache(r) ==
    /\ At(r, "cache")
    /\ WriteProfile(r)
    /\ AfterCache(r)
    /\ UNCHANGED <<row, session, mapping, met, ended, namedBy>>

(* The DELETE of deleteUserById; the cached profile stays. *)
Drop(r) ==
    /\ At(r, "drop")
    /\ row' = [row EXCEPT ![UserOf(r)] = None]
    /\ Go(r, IF row[UserOf(r)] = None THEN "refused" ELSE "done")
    /\ UNCHANGED <<redis, history>>

(* The INSERT of createUser, with an id that was never used. *)
Insert(r) ==
    /\ At(r, "insert")
    /\ \E u \in Users:
         /\ row[u] = None /\ profile[u] = None
         /\ \A q \in Reqs: UserOf(q) # u
         /\ row' = [row EXCEPT ![u] = [name |-> req[r].name, banned |-> FALSE]]
         /\ namedBy' = [namedBy EXCEPT ![u] = r]
         /\ req' = [req EXCEPT ![r].user = u, ![r].pc = "done"]
    /\ UNCHANGED <<redis, met, ended, cachedBy>>

Step(r) ==
    \/ BeginLogin(r) \/ BeginBan(r) \/ BeginUpdate(r) \/ BeginDelete(r) \/ BeginCreate(r)
    \/ BeginWithCookie(r) \/ Guard(r)
    \/ ProfileGet(r) \/ ProfileFind(r) \/ ProfileStore(r)
    \/ SessionGet(r) \/ SessionClear(r) \/ SessionMulti(r)
    \/ LoginGetOld(r) \/ LoginSwap(r)
    \/ Load(r) \/ CheckName(r) \/ Save(r) \/ Cache(r) \/ Drop(r) \/ Insert(r)

Next == \E r \in Reqs: Step(r)

Spec == Init /\ [][Next]_vars

-----------------------------------------------------------------------------
(* Types of the table, of the Redis keys and of what requests hold.         *)
TypeOK ==
    /\ row \in [Users -> Row \cup {None}]
    /\ profile \in [Users -> Row \cup {None}]
    /\ session \in [Sids -> Users \cup {None}]
    /\ mapping \in [Users -> Sids \cup {None}]
    /\ req \in [Reqs -> Request]
    /\ met \in [Sids -> SUBSET Reqs]
    /\ ended \in [Reqs -> SUBSET Sids]
    /\ cachedBy \in [Users -> Reqs \cup {None}]
    /\ namedBy \in [Users -> Reqs \cup {None}]

(* A session whose login had no other request beside it is the one in the   *)
(* user's mapping for as long as it lives: whatever logins, logouts and     *)
(* bans follow, and however they overlap, it can be found and removed.      *)
FindableSession ==
    \A s \in Sids: session[s] # None /\ met[s] = {} => mapping[session[s]] = s

(* When the ban of an account, its removal or a logout has finished, the    *)
(* sessions the user had before it are gone, except one whose login         *)
(* overlapped another request.                                              *)
PutOutEndsSessions ==
    \A r \in Reqs:
        req[r].kind \in {"ban", "delete", "logout"} /\ At(r, "done")
            => \A s \in ended[r]: met[s] = {} => session[s] # UserOf(r)

(* The cached profile is the row again once the requests are over, unless   *)
(* the request that wrote it overlapped another one or the account was      *)
(* removed: no operation leaves the copy behind its own change.             *)
ProfileFresh ==
    (\A r \in Reqs: ~UnderWay(r))
        => \A u \in Users:
             row[u] # None /\ profile[u] \notin {None, row[u]}
                => cachedBy[u] # None /\ met[cachedBy[u]] # {}

(* Two accounts have one name only if the request that named one of them    *)
(* overlapped another request: the column has no unique index, the lookup   *)
(* before the save is all there is.                                         *)
NamesApart ==
    \A u, v \in Users:
        u # v /\ row[u] # None /\ row[v] # None /\ row[u].name = row[v].name
            => \E w \in {u, v}: namedBy[w] # None /\ met[namedBy[w]] # {}

(* A ban is lifted by unbanUserById, or by a save that overlapped a request  *)
(* whose entity carries the ban: the one that bans, or a save of an entity  *)
(* that was loaded while the ban was there, which brings back even a ban    *)
(* that was lifted meanwhile.                                               *)
BanOnlyLifted ==
    [][\A u \in Users:
         row[u] # None /\ row[u].banned /\ row'[u] # None /\ ~row'[u].banned
             => \E r \in Reqs: /\ At(r, "save") /\ req'[r].pc = "cache"
                               /\ \/ req[r].kind = "unban"
                                  \/ \E b \in met[r]: req[b].row # None /\ req[b].row.banned]_vars
=============================================================================
