--------------------------- MODULE MessageQueries ---------------------------
(***************************************************************************)
(* What a room's members can read: the queries of MessagesService over the *)
(* two places where messages are, the room's cache in Redis and the        *)
(* messages table.  MessageBuffer has the way of a message from one to the *)
(* other; here it is one action, Flush.                                    *)
(*                                                                         *)
(* The messages of one room are numbered in the order of their ids, which  *)
(* is the order they were pushed in (MessageId).  The sizes of the code,   *)
(* 100 for a page and for the cache, 50 around a message and for a page of *)
(* a search, are constants.                                                *)
(***************************************************************************)
EXTENDS Integers, Sequences, FiniteSets, SequencesExt, FiniteSetsExt

CONSTANTS
    MaxPosted,      \* bound on the messages of the room
    Deletable,      \* bound: the messages that may be deleted
    Held,           \* how many it may hold when the window opens
    PageSize,       \* limit of getMessagesByRoom
    CacheSize,      \* ltrim of room:messages
    HalfSize,       \* limit of getSearchedMessageAround, on each side
    SearchSize,     \* LIMIT of searchMessages
    Queries,        \* search words
    HasWord(_, _),  \* String.includes, for messages of the cache
    TableHasWord(_, _), \* LIKE, or MATCH for longer words; neither minds the case
    Rounded(_)      \* Number(id): ids of 18 digits become multiples of 32

ASSUME QueriesAssumption ==
    /\ MaxPosted \in Nat /\ Deletable \subseteq 1..MaxPosted
    /\ {PageSize, CacheSize, HalfSize, SearchSize} \subseteq Nat \ {0}
    /\ Held \subseteq 0..MaxPosted
    /\ \A m, k \in 1..MaxPosted: Rounded(m) \in Nat /\ (m <= k => Rounded(m) <= Rounded(k))

VARIABLES
    posted,     \* the newest message
    stored,     \* the newest one in the messages table, with all before it
    trimmed,    \* messages up to this one were in the room before the cache was
    deleted     \* messages marked as deleted, in the cache and in the table

store == <<posted, stored, trimmed, deleted>>

Ids == 1..MaxPosted

(* Words that the cache and the table match alike. *)
Exact == {q \in Queries: \A m \in Ids: HasWord(q, m) = TableHasWord(q, m)}
Entry == [id: Ids, del: BOOLEAN]

(* The room's messages are stored; the cache has the newest, or was removed. *)
StoreInit ==
    /\ posted \in Held /\ stored = posted
    /\ trimmed \in {0, posted}
    /\ deleted = {}

(* createMessage: RPUSH and LTRIM in one MULTI. *)
Post ==
    /\ posted < MaxPosted
    /\ posted' = posted + 1
    /\ UNCHANGED <<stored, trimmed, deleted>>

(* The batch stores what the buffer held when it was renamed. *)
Flush ==
    /\ stored < posted
    /\ \E n \in (stored + 1)..posted: stored' = n
    /\ UNCHANGED <<posted, trimmed, deleted>>

(* deleteMessage, for a message that is in the cache or the table. *)
Delete(m) ==
    /\ m \in (Deletable \cap 1..posted) \ deleted
    /\ deleted' = deleted \cup {m}
    /\ UNCHANGED <<posted, stored, trimmed>>

-----------------------------------------------------------------------------
Ascending(S) == [i \in 1..Cardinality(S) |->
                   CHOOSE m \in S: Cardinality({k \in S: k < m}) = i - 1]
Entries(S) == [i \in 1..Cardinality(S) |->
                 LET m == Ascending(S)[i] IN [id |-> m, del |-> m \in deleted]]
Oldest(S, n) == {m \in S: Cardinality({k \in S: k < m}) < n}

(* ORDER BY id DESC with a limit. *)
Newest(S, n) == {m \in S: Cardinality({k \in S: k > m}) < n}

Cached == Newest((trimmed + 1)..posted, CacheSize)
Rows == 1..stored

(* getMessagesByRoom.  Without a cursor it is the cache, or the table by its *)
(* index when the cache is empty; with one it is the table alone.           *)
FirstPage == IF Cached # {} THEN Entries(Cached) ELSE Entries(Oldest(Rows, PageSize))
Before(c) == Entries(Newest({m \in Rows: m < c}, PageSize))

(* Mutant: the order of `before'. *)
RecentNewest(c) == Entries(Newest({m \in Rows: m > c}, PageSize))

Recent(c) == Entries(Oldest({m \in Rows: m > c}, PageSize))

(* The two queries of getSearchedMessageAround, on the table alone. *)
AroundBefore(t) == Entries(Newest({m \in Rows: m < t}, HalfSize))
AroundFrom(t) == Entries(Oldest({m \in Rows: m >= t}, HalfSize))

(* searchMessages: what the cache has, by the numbers that the ids become   *)
(* in JavaScript ... (cursor 0 is no cursor)                                *)
InCursor(m, c) == c = 0 \/ m < c
FoundInCache(q, c) ==
    {m \in Cached \ deleted: HasWord(q, m) /\ (c = 0 \/ Rounded(m) < Rounded(c))}

(* No other id becomes the same number as the cursor: no other message of   *)
(* its millisecond is that near.                                            *)
Apart(c) == \A m \in 1..posted: Rounded(m) = Rounded(c) => m = c

(* Mutant: the table may return what the cache has returned. *)
DbMatchesAgain(q, c, found) == {m \in Rows \ deleted: TableHasWord(q, m) /\ InCursor(m, c)}

DbMatches(q, c, found) == {m \in Rows \ deleted: TableHasWord(q, m) /\ InCursor(m, c) /\ m \notin found}

(* ... then as much of the table as the page lacks, the newest first.       *)
SearchPage(q, c, found) ==
    LET gap  == SearchSize - Cardinality(found)
        more == IF gap > 0 THEN Newest(DbMatches(q, c, found), gap) ELSE {}
    IN  Reverse(Ascending(Newest(found \cup more, SearchSize)))

-----------------------------------------------------------------------------
(* Every message is in the cache or in the table.  More messages than the   *)
(* cache holds between two batches break it.                                *)
NothingHidden == 1..posted \subseteq Cached \cup Rows

(* A page of a search is what it would be if cache and table were one: the  *)
(* newest matches that are not deleted, none left out at the border of the  *)
(* two and none twice, as long as every message is in one of them, the word *)
(* is matched alike in both and JavaScript tells the cursor from other ids. *)
SearchExact ==
    NothingHidden =>
        \A q \in Exact, c \in {0} \cup {m \in 1..posted: Apart(m)}:
            SearchPage(q, c, FoundInCache(q, c)) = Reverse(Ascending(
                Newest({m \in (1..posted) \ deleted: HasWord(q, m) /\ InCursor(m, c)}, SearchSize)))
=============================================================================
