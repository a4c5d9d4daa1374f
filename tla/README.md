# SimFreeChat in TLA+

TLA+ models of the chat server in `src/backend` (NestJS, socket.io, Redis, MySQL) and of the
React client in `src/frontend`. TLC checks the models on small instances; TLAPS proves the
theorems for every value of the constants. Paths below are relative to `src/backend/src`, or to
`src/frontend/src` for `.tsx` files and hooks, unless they begin with `src/`.

## The system

Two replicas of the backend (`src/docker-compose.prod.yml:12-13`) behind nginx share one
Redis (append-only, `src/docker-compose.yml`) and one MySQL. Clients hold a session cookie,
call the HTTP API and open one socket per chat room page.

| Part | Code | State | Module |
|---|---|---|---|
| Write-back pipeline | `redis/redis.service.ts` 227-425, `messages/messages.service.ts` 77-186 | Redis `buffer:messages`, `buffer:logs`, their `:temp` keys, `room:messages:{id}`, `lock:batch-message-processing`; MySQL `messages`, `message_logs`; `isProcessing` of each process | `MessageBuffer`, `MessageLife` |
| Message ids | `messages/messages.service.ts` 18-51 | `lastTimestamp`, `sequence` of each process | `MessageId` |
| Room presence | `socket/`, `redis/redis.service.ts` 109-225 | Redis `room:users`, `user:rooms`, `user:sockets`; the sockets of socket.io | `RoomPresence` |
| Member lists | `socket/socket.gateway.ts` 73-120, 157-329, `hooks/useSocket.ts` | `roomUsers` of each page, `roomEvent`s under way | `MemberList` |
| Sessions, profiles, accounts | `auth/`, `users/`, `redis/redis.service.ts` 43-107 | Redis `session:*`, `user:session:mapping:*`, `user:profile:*`; MySQL `users` | `Session` |
| Rooms, retention, uploads | `rooms/`, `uploads/`, `components/chat/MessageInput.tsx` | MySQL `rooms`, upload folders, `lock:delete-old-rooms` | `Rooms` |
| AI summary | `messages/messages.service.ts` 334-442 | `lock:summary:{room}`; MySQL `room_summaries` | `AiSummary` |
| Message queries | `messages/messages.service.ts` 188-316 | none of their own: the room cache and `messages` | `MessageQueries` |
| Message list | `pages/ChatRoomPage.tsx`, `hooks/useSocket.ts`, `components/chat/MessageList.tsx` | `messages`, `serverLastId`, the request and the events under way | `ChatView` |
| Search panel | `components/chat/MessageSearchList.tsx` | `results`, `hasMore`, requests under way | `SearchPanel` |
| Log counts | `messages/messages.service.ts` 489-507, `redis/redis.service.ts` 427-449 | `user:logs:count:{admin}` | `LogCount` |
| Lists with filters | `pages/admin/AdminMessageLogs.tsx`, `pages/admin/AdminUserList.tsx`, `pages/RoomsPage.tsx` | the address, the rows shown, requests under way | `Listings` |
| Browser session | `providers/AuthProvider.tsx`, `ui/Header.tsx`, the login, register and profile pages | `user`, `loading`, the cookie, the page | `Browser` |

How they interact: a socket handler or a controller calls the services, which await one Redis or
MySQL command after another, so that handlers of different sockets, of one process or two,
interleave at every await. The pipeline's batch shares its lists with createMessage and
deleteMessage, and clears the log counts after it has stored logs. Room and user operations reach
the sockets through events (`socket/socket.events.ts`) and the Redis adapter of socket.io, which
delivers to the other replica some time later. The client mixes answers to HTTP requests with
events of its socket, which nothing orders among each other.

What is hard about it, with the line of each hazard, is the `hazards` list of `PROJECT.json`.
What makes each part correct:

- pipeline: a message is stored once or its loss has a named cause; the audit log follows the
  rows; one batch at a time; a deletion that took effect is never undone;
- ids: unique, and increasing for one process, since they are keys and cursors;
- presence: the three keys agree with the open sockets; whoever is put out stays out; every open
  socket can be found; the room's maximum;
- member lists: the pages come to show the members;
- sessions: the live session of a user can be found and ended; the cached profile follows the
  row; names are told apart; a ban stays until it is lifted;
- rooms: a removed room leaves nothing behind, a live one is never removed, old ones are removed
  in the end, an announced image has its files;
- summary: one at a time, its text and the id stored with it agree;
- queries and lists: no gap, no repetition, no wrong order between pages; what is shown is what
  was asked for last;
- browser: the window knows whether it is signed in.

## Modules

Each module is one component; the MC modules give it instances and are the only ones that know
them. `MessageLife` is the abstract specification of the pipeline. Some definitions are mutants,
marked as such: forms a plausible slip would give the definition that follows. With the mutant in
its place the property named in `PROJECT.json` fails, so the property depends on that line.

Histories (variables marked so) record nothing that an action's guard reads, except where a
guard is a named bound. A property that excludes some behaviour names it by a history, and the
comment of the property says which: these are the behaviours for which the code keeps no promise.

### MessageBuffer, MessageLife

One step is one Redis or MySQL command, a MULTI counting as one; what a handler does in memory
between two awaits belongs to the next command. `pc` follows each call of handleBufferToDb, of
a cron or of the push that found 500 messages, through `locking`, `llen`, `rename`, `lrange`,
`insert`, `del` for the list `key` it is at, messages first; `data` holds the rows it has yet to
insert. `dpc` follows each deleteMessage. A message is a model value, its room and author are the
same for all; whether a deleter is the author is `Own`. INSERT IGNORE keeps an existing message
row and always adds a log row.

Faults, at most `MaxFaults` of the kinds in `FaultKinds`: `dbError` (an INSERT or a deletion's
transaction fails), `crash` (a process dies at any point and is restarted at once; Redis and
MySQL keep their data), `overrun` (the 50 seconds of the lock end while its batch still runs).
Failing Redis commands are not modelled. `atRisk` records the messages that a fault or a race
touched; the properties about loss exclude only these.

`MessageLife` is the abstract view: unsent, pending, then stored, perhaps deleted by the author,
or lost; lost only when at risk, and never pending for ever. One action of it, `Misplace`, is there
because an LSET may use an outdated position: the mark of one message then overwrites the copies of
another in the buffer, and brings a lost one back. `LifeInOrder` is the refinement of its steps,
`ImplementsLife` that of the whole specification, liveness included.

### MessageId

An id is the triple it prints: time, worker and sequence number, each of fixed width, which
compare as the numbers do. The clock ticks or, `MaxSlips` times, is set back.

### RoomPresence

One room. `jpc`, `lpc` and `dpc` follow handleJoinRoom, handleLeaveRoom and handleDisconnect of
each socket; `op` is the kick, ban, leaveAllRooms or room deletion in progress. A socket told to
close through the adapter is `closing` until the request reaches it, and its client may still
send. Reads of profiles, and the member lists, are left out; the password check counts as passed.
The keys of a user end 24 hours after the last join that renewed them (`RoomsExpire`,
`SocketsExpire`), whether or not windows are still open.

`disturbed` and `raced` name the overlaps after which the code does not promise the exact outcome. A
user is `disturbed` by a join that overlaps another handler, by a leave from a window that does not
hold the room, and while a window has lost its field; the next join that has the user to itself puts
the three keys right, whatever was left behind, and ends it. `expired` and `strays` name what the end
of the keys puts out of reach: leaveAllRooms misses the room, a kick or a ban the window.

### MemberList

What RoomPresence leaves out: each handler changes `room:users`, reads the members, and sends
them to the sockets in the room; a page shows the last list that arrived. Handlers are taken at
the granularity of these three steps and of the closing of sockets, with one window a user. Of
lists sent through two processes any may arrive first. `OnModuleInit` is the start of a replica:
its windows are lost, the keys of all are deleted, and windows of the other replica receive
events without being known (`"lost"`). After handlers have overlapped, or a replica has started,
the pages may show an old list until the next handler that has the room to itself: that is
`blurred`.

### Session

Every request (login, logout, a visit with a cookie, a change, a ban, its lifting, removal,
registration) is a process whose `pc` goes through its Redis commands and SQL statements. `row`
holds what findOne returned, and a save writes it whole, as TypeORM's does for the columns that
differ; the profile that is cached is that entity. A session is named after the login that created
it. `met` records the requests that overlapped, which is what the exceptions of the properties
refer to.

### Rooms

The life of each room (`age`), its row in `room_summaries`, its message cache and upload folder;
updateRoom as a read and a later save; one upload with its two files written side by side; the
nightly job in each process, one step a statement, with its 60 second lock, which is never given
back. The foreign key of `room_summaries` makes the DELETE of a summarised room fail and ends the
job. The cutoff is one day, as in the code (the variable is called oneWeekAgo).

### AiSummary

getAiMessagesSummary of several requests: two reads in either order, the early returns, the lock
that expires, the model's answer, the upsert, the DEL of whosever lock it is. A text is the set of
messages that went into it. The room cache and the limit of a merge are both 100 in the code
(`KeptTalk` and `MergeAtMost` are equal in the instance), so that after the first summary every
one is a merge, and messages that have left the cache are skipped: `outrun`.

### MessageQueries, ChatView, SearchPanel

`MessageQueries` holds the store as readers see it: messages `posted`, those of them `stored` in
the table, those `trimmed` from the cache, those `deleted`, and the queries over them. A message
is known by its place in the order of ids; `Rounded` is the number that JavaScript makes of an id
of 18 digits, `HasWord` and `TableHasWord` say what matches a word in the cache (case-sensitive)
and in the table (not). `ChatView` adds a window's list, with one request under way (as
`loadingRef` has it), socket events in order, jumps and a lost connection. `SearchPanel` adds the
panel, with several requests at once, a search being two reads on the server.

### Listings, LogCount

`Listings`: the address decides what is asked for, no request waits for another, and the last
answer is shown. The logs are paged by the ids shown, the users by an offset, the rooms not at
all. `sent` holds the newest request and one from before. `LogCount`: an administrator's cached
number of logs for one filter, against the batch's INSERT, KEYS and DEL.

### Browser

AuthProvider, the guarded routes and the forms of one window, with several requests under way,
each carrying the cookie of its time. `alive` is the account's session on the server, which others
may end. `astray` marks what the window cannot know: a session ended elsewhere, a lost answer, a
login sent twice, a reload that outlives a logout.

### MCClient, MCBackoffice

MCClient puts the four parts of the client together, MCBackoffice the four that concern
administrators and the retention of rooms. Each behaviour moves one part and leaves the others in
one of their initial states. This loses nothing: the parts have disjoint variables and no action of one
reads a variable of another (the message list and the search panel share the store, which moves
with either), so that every behaviour of their interleaving is, seen from one part, a behaviour of
that part alone with stuttering, and every property is about one part.

## Runs

| Run | Instance | Shows |
|---|---|---|
| `buffer_faults` | 2 processes, 2 messages, chunks of 1, direct batch at 2, one fault of any kind | `TypeOK`, `SingleBatch`, `NoLossWithoutFault`, `SendLoggedOnce`, `ImplementsLife`, `EventuallyStored` |
| `buffer_deletes` | 1 process, 2 messages, the author's and a stranger's deletion, one failed INSERT or transaction | `DeletionReachesDb`, `DeletionLogged`, `OnlyOwnDeletes`, `LifeInOrder`, `MissesOnlyInBatch` |
| `buffer_cache` | 3 messages through a cache of 2, one deletion | violation of `CacheKeepsNewest` |
| `ids_ordered` | 2 numbered workers, 6 ids, 3 milliseconds, sequence modulo 3, clock set back once | `IdsIncrease` |
| `ids_replicas` | 2 replicas as deployed | violation of `IdsUnique` |
| `presence` | 2 windows of one user, one operation of any kind or the end of one key | `TypeOK`, `PresenceExact`, `PutOutStaysOut`, `PresentFindable`, `MembersIndexed` |
| `presence_capacity` | 2 users, room for 1 | violation of `CapacityRespected` |
| `accounts` | 3 requests of any kinds, 2 users, 2 names, a session from before | `TypeOK`, `FindableSession`, `PutOutEndsSessions`, `ProfileFresh`, `NamesApart`, `BanOnlyLifted` |
| `client` | 4 messages, 0, 2 or 3 of them there at first, pages and cache of 2, a list of 3, one lost connection; 2 searches at once; 2 users and 2 handlers; one window, 2 requests, one more login | `TypeOK`, `ViewInOrder`, `ViewWithoutHole`, `DeletedShown`, `SearchExact`, `ResultsComplete`, `MembersListed`, `SignedInShown` |
| `client_lastid` | 6 messages, a list of 4 | violation of `NewestReachable` |
| `browser_logout` | one window, 2 requests | violation of `LogoutSignsOut` |
| `backoffice` | 2 rooms, 2 processes, one upload, one fault; 2 summary requests, 6 messages, a cache of 3; 2 counts, 3 logs; 6 rows, 2 a page, 2 filters | `TypeOK`, `SummaryLock`, `SummaryWhole`, `RemovedRoomClean`, `ImagesWhole`, `ListExact`, `CountFresh`, `LiveRoomStays`, `OldRoomsRemoved` |

Why the bounds suffice. Two processes are the deployment; `buffer_deletes` has one, because
without an overrun the lock admits one batch at a time (`SingleBatch`), and that one meets the
deletions at every command. Two messages and two lists give a batch of more than one chunk, a list
that refills behind a batch, and a push between any two commands. A fault at each point is tried;
two faults in one run are not, though the theorems allow any number. Three messages and a cache of
two are the least that trim the cache. Three ids a millisecond reach the wrap of the sequence
number. In `presence` the interesting overlaps are between handlers of one user. Three requests on
accounts are two that overlap and one before, between or after them. Four messages with pages of
two give two pages in each direction, a page that straddles cache and table, a list that is cut,
a room longer than a page whose cache is gone, an empty room,
and a message in neither cache nor table. Two handlers of a room are the least that overlap. Two
requests of a window are the two that cross; a third would have to wait in the models of the
search and of the lists, where only the last two answers matter to what is shown. Two rooms let a
summarised one block the other. Six messages with a cache of three allow two summaries, a merge
and messages that are missed.

Deadlock is checked in the pipeline, whose cron always ticks again. The other models end when
their bounded inputs are used up, so their runs do not check it.

Fairness. `MessageBuffer`: the cron of each process fires (every minute), a call that waits for a
reply goes on, the lock expires; `EventuallyStored` and the liveness of `MessageLife` rest on it.
`Rooms`: some night comes when no lock is held (the cron runs daily), a job that has begun goes on
in some process, the lock expires; `OldRoomsRemoved` rests on it. Nobody has to send, to delete,
to ask or to fail, and nothing is fair elsewhere.

### What the violations show

- `CacheKeepsNewest` (`redis/redis.service.ts:267`): the position of the message in the room cache is
  read with LRANGE and used by LSET later. Pushes in between trim the list, and the LSET writes the
  deleted message over a newer one; readers then miss a message until the cache moves on.
- `IdsUnique` (`messages/messages.service.ts:39`): `NODE_APP_INSTANCE` is set nowhere, so both replicas are
  worker 00 and give the same id in one millisecond; `orIgnore` (`redis/redis.service.ts:413`)
  drops the second row.
- `CapacityRespected` (`socket/socket.service.ts:48`): the count is read several awaits before the user is added.
- `LogoutSignsOut` (`providers/AuthProvider.tsx:40`): logout hands `allowNotOk` over as the body of
  the request. When the session was ended elsewhere the 401 throws, and the window stays signed in.
- `NewestReachable` (`pages/ChatRoomPage.tsx:129`): a page of newer messages lowers serverLastId to
  its own last id, and the list does not load the rest at the bottom.

### What the models show besides

Behaviour without a text of the repository to hold against it, which the properties name as
exceptions:

- A message that is in the temporary key when it is deleted is marked in the cache alone and
  becomes live in MySQL (`MissesOnlyInBatch`: only while a batch runs); anybody's deleteMessage
  marks the cache.
- A failed INSERT, a crash after RENAME, or a lock that ends too early lose messages.
- leaveRoom from a window that was put out takes the user off the list while the other window
  stays open; softDeleteRoom then leaves that window connected. After the start of one replica no
  window of the other can be found until it joins again.
- Two logins at once leave a session that nothing can end before it expires; a login beside a ban
  may cache the profile of before; a save beside a ban lifts it; two registrations at once get one
  name.
- A room with a summary is never removed, nor are those after it in the night's list. A save of
  a room brings back one that was deleted meanwhile. Removing an owner removes the rows of the
  rooms and leaves files and cache. An unlink may come before its file.
- A summary whose lock expired may be stored over that of a newer one's, and gives away its lock.
- A search misses messages that have left the cache before a batch stored them, and, of two ids
  that are one number in JavaScript, may miss or repeat one. A room whose cache is empty opens at
  its oldest messages (no ORDER BY, `messages/messages.service.ts:216-222`).
- A jump that fails leaves an empty list; live messages are appended behind it in any case.
- A page turned before its rows have arrived goes on from the rows of another page.

## Proofs

What is proved holds for every value of the constants that satisfies the modules' named ASSUMEs
(TLC evaluates those in the runs): any number of processes, requests, users, windows, messages and
faults, any sizes of lists, caches and chunks. In the client and the back office each part is proved
from its own specification (`ViewSpec`, `RoomsSpec`, ...), and the results are then carried over to the
specification that is run. Every theorem has the same shape: a type invariant, an inductive
invariant that says what each process relies on between its awaits, one lemma for the initial
states and one for the steps, with a step of the proof for each action.

Where a run shows a text of the repository violated, `CacheKept`, `CapacityKept` and `IdsApart` say when
it is true. The hypotheses of the first two are about the interleaving alone: they are met by every
behaviour in which the commands in question do not overlap.

### The pipeline

`MessageBuffer_proofs`:

- `TypeCorrect`: `Spec => []TypeOK`, action by action, from lemmas about the list helpers.
- `BatchesExclude`: `SingleBatch` is not inductive: nothing in it keeps a second call from taking the
  lock. `LockInv` adds that a running batch implies the lock, as long as no overrun happened. Only
  `TryLock` adds to the running batches, and needs the lock free; only `LockExpires` frees the lock
  without an overrun, and needs no batch running. `isProcessing` plays no part in the argument: it is
  per process and read before the lock is awaited.
- `RowsArePermanent` (`RowsOnlyAdvance`, which `LifeInOrder` includes): `InsertRows` writes absent rows only, `CommitDelete` writes deleted.

`MessageBuffer_delivery`:

- `Delivery` (`NoLossWithoutFault`). An entry waits in a list, in a temporary key or in the data of a
  batch, and lemmas (`...Waiting`) say of each action what it does to the set of those that wait. That
  is not enough: DEL drops a whole temporary key. `PipeInv` says that each entry of a temporary key
  is stored, or in the hands of the batch that holds the key, or at risk; and that the entries of
  batches that overlap are at risk. With `BatchesExclude`'s argument this is what makes the DEL
  after the last chunk harmless, and what LRANGE after RENAME needs.
- `SendsLogOnce` (`SendLoggedOnce`): `LogOnceInv` says that a log has one place, one copy in it, and is
  not in the table while a batch has still to insert it.

`MessageBuffer_deletion`:

- `OwnDeletesOnly` (`OnlyOwnDeletes`): a call past the comparison of room and user is the author's.
- `DeletionsAudited` (`DeletionLogged`): `AuditInv` takes in the copies on their way: one marked as
  deleted has its DELETE log, because one MULTI of deleteMessage writes both.
- `DeletionsPrevail` (`DeletionReachesDb`): `BufferedInv`, that an entry of the list is in no temporary
  key, no batch and no live row, is what makes the LSET of the marked entry reach the only copy.
- `MissesInBatch` (`MissesOnlyInBatch`): by `Delivery` an unstored message that no fault touched is in a
  list or on its way through a batch, and what findIndex does not find is not in the list; an
  entry of a temporary key is in the hands of a running batch or at risk.
- `PipelineRefinesLife` (`LifeInOrder`): each step, deletions included, is one of `MessageLife` or a
  stutter. `LifeInv` puts together that a message is lost only by a fault (`Delivery`), that whatever
  waits or is stored was accepted (`KnownInv`), that only an author's call marks (`OwnCalls`), and
  that a deletion which commits has found the row (`RowFound`). That the abstraction needs
  `Misplace` came out of the proof; TLC finds the behaviour.
- `CacheKept` (`CacheKeepsNewest`): as long as every LSET on the room cache finds the message where
  findIndex saw it (`MarksInPlace`), the cache holds the newest messages it has room for. `CacheInv`
  says that its entries are of different messages, as many as were sent, up to the limit.

### Presence

`RoomPresence_proofs`:

- `TypeCorrect`, which includes that a join that closes other windows has one left to close.
- `PresentAreFindable`. `FindInv` adds that handleDisconnect runs on closed connections only, and that a
  join begins on a connection that was made; every other step that deletes a field has told the
  socket to close.
- `MembersAreIndexed`, inductive as it stands: joins list a user before they index the user, and both
  relations go in one MULTI.
- `MembershipExact` (`PresenceExact`). `SocketInv` and `OpInv` say what a handler knows at each command;
  `HistoryInv` and `Alone` that a user who is not `disturbed` has one handler at a time. For such a user
  `OneWindow` (one field at most; the sweep of a join holds every other one) and `ListTrue` (whoever
  is present is listed or about to be closed; whoever is listed has a window or a join) are inductive.
  A join that has the user to itself establishes both whatever it finds (`RestoreMember`): its SADD lists
  the user and its sweep holds every other window, so that what earlier overlaps left is mended.
- `PutOutForGood` (`PutOutStaysOut`): `PutOut` says that each window of a banned user which is still
  present is one the ban goes on to close, and each join one that will read the ban.
- `OverfullBounded`: while at most k joins are between their SCARD and their SADD, the room holds at
  most k - 1 members too many. `RoomLeft` counts members and such joins together: a join that passes
  the check leaves room for one, and there are at most k of them; an SADD turns one into a member.
  `CapacityKept` (`CapacityRespected`) is the case of one join at a time.

### Sessions and accounts

`Session_proofs`. `HeldOK` is what a request's record says at each of its steps; `SessionInv` is the type
with it. `MetInv` says that requests that are under way together have met.

- `SessionsFindable`: by `FindInv` a lone login's session is mapped from its MULTI on, and no request
  of that user is about to remove the mapping of another session.
- `PutOutsEndSessions`: from `FindInv`, as the session is found by the mapping; `OutInv` keeps it gone.
- `NamesStayApart` and `ProfilesFresh`: what a request that met no other holds is current (`AloneInv`:
  the copy and the entity are the row, the name it looked up is free). `Arrival` lists how a request
  comes to each step at which it holds something. `FreshInv` adds the request that has saved and has
  still to write the profile.
- `BansStay` (`BanOnlyLifted`): by `BanInv` a save about to undo a ban met a request that holds it. The
  first attempt at it showed that the property named too few requests: with four of them a save can
  bring back a ban that was lifted before, so the exception is any request met whose entity has the
  ban, not only one of the kind "ban". `SessionAssumption` says that None is no name and no row.

### Identifiers

`MessageId_proofs`. `IdsTypeCorrect` says that the parts of an id keep their width. `ClockInv` counts:
while the clock was not set back, the ids of a process's last millisecond (`Burst`) are as many as
the sequence number says, as long as they fit it. `IdsKeepOrder` (`IdsIncrease`) follows. `IdsApart`
says when the comment of generateCustomId (`messages/messages.service.ts:39`) is right: worker
numbers differ, the clock is not set back, no millisecond has more ids than the sequence counts.
`ids_replicas` shows that the deployment does not meet the first condition.

### Back office

`Backoffice_proofs`, from `SummarySpec`, `CountSpec`, `RoomsSpec` and `ListSpec`:

- `PartsApart`: `Spec` of `MCBackoffice` implies each of the four. `BackofficeTypeCorrect` (`TypeOK`) and
  `BackofficeCorrect` (every property below) are what follows for the specification that is run.
- `SummariesAreWhole`: `SummaryInv` says the same of the summary that each request has read, and that
  a request at the model has something to summarise. A merge adds all that the cache has, which
  begins no later than right after the summary, unless more was said than the cache keeps. `OneAtTheModel` (`SummaryLock`) is inductive.
- `CountsAreFresh`: `CountInv` adds the counts that are on their way to Redis.
- `LiveRoomsStay`: `JobsInv` says that no entity of a room in a job's list is held by updateRoom, so that
  no save can revive it. `RemovedRoomsAreClean`: `CleanInv` gives a removed room that is not clean a job
  that is at it. `ImagesAreWhole`: `ImageInv` follows the two files of an upload.
- `ListsAreExact` (`ListExact`). `NewestFirstIs` reads a list as a set of rows in its order, by how many
  are newer. `TailOf` and `HeadOf` say that the rows beyond a cursor are the part of the list beyond
  it; from these `TurnedForward` and `TurnedBack` show that the logs' page by cursor is the page by
  offset. `ListInv` says that the newest request is for the address, that its answer is right, and
  (`Placed`) that the cursor stands where the page in the address begins or ends.

### The client

`Client_proofs`, from `BrowserSpec`, `MembersSpec`, `ViewSpec` and `PanelSpec`:

- `PartsTogether`: `Spec` of `MCClient` implies the specifications of the window, the members' pages and
  the panel, also while the list moves the store that the panel searches. `ClientTypeCorrect`
  (`TypeOK`) and `ClientCorrect` (every property below) are what follows for the specification that
  is run.
- `SignInShown` (`SignedInShown`): `WindowInv` says when an answer that is on its way is still true. The
  proof of the type showed that `MaxLogins` must not be 0, as the window may start signed in.
- `MembersAreListed` (`MembersListed`): `AloneListed` gives a handler that has the room to itself a fresh
  read and no mail under way; `ListInv` that the mail and the pages then hold the members.
- `ChatView`, for messages, pages and lists of any number. A page is a sequence made of a set of ids
  by rank (`Ascending`); `RankGrows` and `RankExists` read it as the set in its order, without
  induction, as ranks are an injection into as many numbers. `PagesAre` then gives for each query the
  set of messages and the marks of its answer, and `TheLastIs` the end that slice(-200) leaves.
- `DeletionsShown` (`DeletedShown`): `ToldInv` says of the list, of the page under way and of each new
  message under way that it is marked, or its deletion is behind it on the socket, or the window
  missed that one.
- `ListsAreInOrder` (`ViewInOrder`): `OrderInv` says that what is on its way goes on from the list: new
  messages are newer than the list and the page (`Ahead`), and a page ends before the list's
  first message or begins after its last (`Fits`), unless a message and a page passed each other.
- `ListsHaveNoHole` (`ViewWithoutHole`): `HoleInv` adds that list and page have no hole (`Dense`), that the
  page has the very message next to the one it was asked from (`Adjoins`), and that all messages
  after the list's last are on the socket (`LiveGoesOn`). The first attempt at it showed that the
  model had opened windows only on rooms with as many messages as the cache holds. In a longer room
  whose cache is gone the first page is the oldest one, and a live message leaves a hole behind it;
  the initial states now have any number of messages (`Held`), and the property names the exception.
- `SearchesAreExact` (`SearchExact`): `NewestOfTwo` says that a page filled from the newer of two sources
  and then from the older is the page of both, and `CachedIs` that the cache is the newer. That
  JavaScript's numbers of ids grow with the ids (`QueriesAssumption`) is what a cursor needs.
- `ResultsAreComplete` (`ResultsComplete`): `PanelOrder` says that a request that overtook no other goes on
  from the results there are; `PanelComplete` says what is still to come at each of its stages
  (`RGoesOn`): after the cache was read, what is wanted and was not found is in the table and older.

### What is only model-checked

- Liveness, and the fairness of the refinement: `EventuallyStored`, `ImplementsLife` as a whole (its
  steps are `LifeInOrder`, which is proved), `OldRoomsRemoved`. The prover does not handle fairness
  or ENABLED.
- `NewestReachable` and `LogoutSignsOut`, which the code violates without any overlap.

## Plan

Every safety property that a passing run checks is proved, and each hazard listed has a property.
What remains is to widen the model: the start of a replica for the three keys of presence (it is in
`MemberList`, for the list alone), and Redis commands that fail between two steps of a handler.

## Not modelled

- Rate limiting (the throttler library), DTO validation, HTTP routing, CORS, logging and
  configuration: no state that outlives a request.
- The browser client in `src/frontend/legacy-public`, which the React client replaced and nothing serves.
- Markup, dialogs and forms beyond their request; the deletion button of `EditRoomPage.tsx` sends a
  GET (`apiGet` sets the method after the caller's), so that it changes nothing.
- Passwords and hashing; the password of a room counts as right.
- Typing notices: the client sends `typing`, which the server has no handler for. `roomUpdated`,
  which no client listens to. `request_sync`, which no client sends, and with it getMissedMessages.
- The check of an account's ban in joinRoom (`socket/socket.service.ts:58`) compares the text that JSON
  made of the date with a Date, which is never greater: the models let a banned account join.
- The cache of the profile failing after the save (`users/users.service.ts:131`).
- Metadata of the log filters, sort orders of the rooms, totals on the start page.

## Running

```
tlc -workers 2 -config buffer_faults.cfg MCMessageBuffer
tlc -workers 2 -config client.cfg MCClient
tlapm MessageBuffer_deletion.tla
tlapm Session_proofs.tla
```
