------------------------------ MODULE AiSummary ------------------------------
(***************************************************************************)
(* The summary of a room by a language model: getAiMessagesSummary.  Any   *)
(* member may ask for it at any time.  The request reads the stored        *)
(* summary and the room's cache, decides whether enough is new, takes a    *)
(* lock that expires, asks the model and stores the answer with the id of  *)
(* the last message that it covers.                                        *)
(*                                                                         *)
(* Of a text only this is kept: the messages that went into it, the old    *)
(* summary's among them when it was merged.  The messages of the room are  *)
(* numbered in the order of their ids.                                     *)
(***************************************************************************)
EXTENDS Integers, FiniteSets

CONSTANTS
    Requests,       \* requests for the summary that can be under way at once
    None,           \* no request
    MaxTalk,        \* bound on the messages of the room
    KeptTalk,       \* ltrim of room:messages
    Enough,         \* messages that are worth a summary: 30
    MergeAtMost,    \* new messages that are merged into the old summary: 100
    Wordless        \* messages that leave no text for the model

ASSUME SummaryAssumption ==
    /\ None \notin Requests
    /\ MaxTalk \in Nat /\ Wordless \subseteq 1..MaxTalk
    /\ {KeptTalk, Enough, MergeAtMost} \subseteq Nat \ {0}

VARIABLES
    talk,       \* the newest message of the room
    summary,    \* the row of room_summaries
    lock,       \* lock:summary: the request that set it (the value does not say)
    ask,        \* the requests
    overrun,    \* history: the lock has expired before its holder was done
    outrun      \* history: messages have left the cache before a summary had them

summaryVars == <<talk, summary, lock, ask, overrun, outrun>>

Talk == 1..MaxTalk
Summary == [last: 0..MaxTalk, from: 0..MaxTalk, told: SUBSET Talk]
NoSummary == [last |-> 0, from |-> 0, told |-> {}]

(* row, cache: are the two first reads done?                                *)
Asking == [pc: {"idle", "read", "lock", "model", "unlock"}, row: BOOLEAN, cache: BOOLEAN,
           old: Summary, latest: 0..MaxTalk]
NotAsking == [pc |-> "idle", row |-> FALSE, cache |-> FALSE,
              old |-> NoSummary, latest |-> 0]

SummaryInit ==
    /\ talk = 0 /\ summary = NoSummary /\ lock = None
    /\ ask = [r \in Requests |-> NotAsking]
    /\ overrun = FALSE /\ outrun = FALSE

(* createMessage: RPUSH and LTRIM. *)
Say ==
    /\ talk < MaxTalk
    /\ talk' = talk + 1
    /\ UNCHANGED <<summary, lock, ask, overrun, outrun>>

(* What the cache held when its last message was l.                         *)
CacheAt(l) == {m \in Talk: l - KeptTalk < m /\ m <= l}

(* formatMessagesForAi *)
FormatMessagesForAi(ms) == ms \ Wordless

(* handleRequestSummary: a window whose toast was closed may ask again, so   *)
(* that requests hold each other back on the server only.                   *)
Ask(r) ==
    /\ ask[r].pc = "idle"
    /\ ask' = [ask EXCEPT ![r].pc = "read"]
    /\ UNCHANGED <<talk, summary, lock, overrun, outrun>>

(* The two reads of Promise.all, in either order.                           *)
ReadSummary(r) ==
    /\ ask[r].pc = "read" /\ ~ask[r].row
    /\ ask' = [ask EXCEPT ![r].row = TRUE, ![r].old = summary]
    /\ UNCHANGED <<talk, summary, lock, overrun, outrun>>

ReadTalk(r) ==
    /\ ask[r].pc = "read" /\ ~ask[r].cache
    /\ ask' = [ask EXCEPT ![r].cache = TRUE, ![r].latest = talk]
    /\ UNCHANGED <<talk, summary, lock, overrun, outrun>>

Cached(r) == CacheAt(ask[r].latest)
HasOld(r) == ask[r].old # NoSummary
New(r) == {m \in Cached(r): m > ask[r].old.last}
Merging(r) == HasOld(r) /\ Cardinality(New(r)) <= MergeAtMost

(* Too little in the room, or too little that is new.                       *)
NotWorthIt(r) ==
    \/ Cardinality(Cached(r)) < Enough
    \/ HasOld(r) /\ Cardinality(New(r)) < Enough

(* gapCount and the early returns, once both reads have answered.           *)
Decide(r) ==
    /\ ask[r].pc = "read" /\ ask[r].row /\ ask[r].cache
    /\ ask' = IF NotWorthIt(r) THEN [ask EXCEPT ![r] = NotAsking]
                               ELSE [ask EXCEPT ![r].pc = "lock"]
    /\ UNCHANGED <<talk, summary, lock, overrun, outrun>>

(* Mutant: SET without NX. *)
LockAnyhow == TRUE

(* SET NX succeeds. *)
LockFree == lock = None

(* The context of the prompt. *)
Context(r) == FormatMessagesForAi(IF Merging(r) THEN New(r) ELSE Cached(r))

(* getLock.  Without it the request returns; with it, but without context,  *)
(* it returns as well, before the try whose finally gives the lock back.    *)
GetLock(r) ==
    /\ ask[r].pc = "lock"
    /\ lock' = IF LockFree THEN r ELSE lock
    /\ ask' = IF LockFree /\ Context(r) # {} THEN [ask EXCEPT ![r].pc = "model"]
                                             ELSE [ask EXCEPT ![r] = NotAsking]
    /\ UNCHANGED <<talk, summary, overrun, outrun>>

(* Mutant: the last message is looked up when the model has answered. *)
LastNow(r) == talk

(* latestId *)
LatestId(r) == ask[r].latest

(* What the model wrote and the id that is stored with it.                  *)
Told(r) ==
    IF Merging(r)
    THEN [ask[r].old EXCEPT !.last = LatestId(r), !.told = @ \cup Context(r)]
    ELSE [last |-> LatestId(r), told |-> Context(r),
          from |-> CHOOSE m \in Cached(r): \A n \in Cached(r): m <= n]

(* generateContent has answered and the row is written.  No other request    *)
(* reads anything between the answer and the upsert.                        *)
Upsert(r) ==
    /\ ask[r].pc = "model"
    /\ summary' = Told(r)
    /\ outrun' = (outrun \/ (Merging(r) /\ ask[r].old.last + 1 \notin Cached(r)))
    /\ ask' = [ask EXCEPT ![r].pc = "unlock"]
    /\ UNCHANGED <<talk, lock, overrun>>

(* generateContent or the upsert fails. *)
ModelFails(r) ==
    /\ ask[r].pc = "model"
    /\ ask' = [ask EXCEPT ![r].pc = "unlock"]
    /\ UNCHANGED <<talk, summary, lock, overrun, outrun>>

(* The finally: DEL, whosever the lock is.                                  *)
Unlock(r) ==
    /\ ask[r].pc = "unlock"
    /\ lock' = None
    /\ ask' = [ask EXCEPT ![r] = NotAsking]
    /\ UNCHANGED <<talk, summary, overrun, outrun>>

(* One of the two reads fails, and the request with it. *)
ReadFails(r) ==
    /\ ask[r].pc = "read"
    /\ ask' = [ask EXCEPT ![r] = NotAsking]
    /\ UNCHANGED <<talk, summary, lock, overrun, outrun>>

Holds(r) == ask[r].pc \in {"model", "unlock"}

(* The 30 seconds of the lock are over; nothing bounds the model's answer.   *)
LockExpires ==
    /\ lock # None
    /\ lock' = None
    /\ overrun' = (overrun \/ \E r \in Requests: Holds(r))
    /\ UNCHANGED <<talk, summary, ask, outrun>>

SummaryNext ==
    \/ Say \/ LockExpires
    \/ \E r \in Requests:
         \/ Ask(r) \/ ReadSummary(r) \/ ReadTalk(r) \/ Decide(r) \/ GetLock(r)
         \/ Upsert(r) \/ ModelFails(r) \/ Unlock(r) \/ ReadFails(r)

SummarySpec == SummaryInit /\ [][SummaryNext]_summaryVars

-----------------------------------------------------------------------------
(* Types. *)
SummaryTypeOK ==
    /\ talk \in 0..MaxTalk /\ summary \in Summary /\ lock \in Requests \cup {None}
    /\ ask \in [Requests -> Asking]
    /\ overrun \in BOOLEAN /\ outrun \in BOOLEAN

(* Only one request at a time pays for the model, and the lock is its own,   *)
(* whatever locks were left behind by requests that had nothing to say,     *)
(* unless a lock expired under its holder.                                  *)
SummaryLock == ~overrun => \A r \in Requests: Holds(r) => lock = r

(* The text and the id stored with it agree, though both reads are older    *)
(* than the lock and summaries are written meanwhile: every message with    *)
(* words, from the first one summarised to the one that the next summary    *)
(* starts after, is in the text or in the one it was merged from.  More new *)
(* messages than the cache holds are the exception.                         *)
SummaryWhole ==
    ~outrun => (summary.from..summary.last) \ ({0} \cup Wordless) \subseteq summary.told
=============================================================================
