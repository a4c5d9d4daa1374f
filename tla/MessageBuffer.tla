--------------------------- MODULE MessageBuffer ---------------------------
(***************************************************************************)
(* The write-back pipeline of chat messages.                               *)
(*                                                                         *)
(*   messages.service.ts  createMessage, deleteMessage                     *)
(*   redis.service.ts     pushMessageAndLog, delMessageAndLog,             *)
(*                        delRoomMessageCache, getLock, handleBufferToDb,  *)
(*                        processBuffer                                    *)
(*                                                                         *)
(* Several Node processes share one Redis and one MySQL.  A message and    *)
(* its log are pushed on two Redis lists; a batch renames each list to a   *)
(* temporary key, inserts its elements into MySQL and deletes the key.     *)
(* Every Redis or MySQL command is one step; whatever a handler does        *)
(* between two awaits belongs to the step that follows.                    *)
(***************************************************************************)
EXTENDS Naturals, Sequences, FiniteSets

CONSTANTS
    Procs,          \* the Node processes (docker-compose: two replicas)
    Messages,       \* the messages of one room, one createMessage call each
    DelReqs,        \* deleteMessage calls
    Target,         \* the message a deleteMessage call names
    Own,            \* does the caller's (room, user) match the message's?
    ServedBy,       \* the process that serves a createMessage or deleteMessage
    Threshold,      \* 500: the buffer length that starts a batch at once
    ChunkSize,      \* 500: rows per INSERT
    CacheLimit,     \* 100: entries kept in room:messages:{id}
    FaultKinds,     \* the kinds of fault considered
    MaxFaults       \* how many faults may happen in a run

ASSUME ProcsAssumption == Procs # {} /\ Procs \cap Messages = {}
ASSUME RequestsAssumption ==
    /\ Target \in [DelReqs -> Messages]
    /\ Own \in [DelReqs -> BOOLEAN]
    /\ ServedBy \in [Messages \cup DelReqs -> Procs]
ASSUME SizesAssumption ==
    /\ {Threshold, ChunkSize, CacheLimit} \subseteq Nat \ {0}
    /\ FaultKinds \subseteq {"dbError", "crash", "overrun"}
    /\ MaxFaults \in Nat

(* The two lists a batch drains, in this order. *)
Keys == {"messages", "logs"}

(* An element of a list: a message and its isDeleted flag, or a log, whose *)
(* action is DELETE when `deleted' and SEND otherwise.                     *)
Entry == [id : Messages, deleted : BOOLEAN]

Live(m) == [id |-> m, deleted |-> FALSE]
Deleted(m) == [id |-> m, deleted |-> TRUE]

(* Calls of handleBufferToDb: the cron of a process and the direct call of *)
(* the pushMessageAndLog of a message.                                     *)
Calls == Procs \cup Messages
HomeOf(c) == IF c \in Procs THEN c ELSE ServedBy[c]
Rest(c) == IF c \in Procs THEN "idle" ELSE "done"

VARIABLES
    buffer, temp,       \* Redis: buffer:{key} and buffer:{key}:temp
    cache,              \* Redis: room:messages:{id}
    lock,               \* Redis: does lock:batch-message-processing exist?
    row,                \* MySQL messages: "absent", "live" or "deleted"
    logTable,           \* MySQL message_logs: how many rows of each log
    isProcessing,       \* memory of each process
    pc, key, data,      \* each handleBufferToDb call: step, list, rows to insert
    dpc, viaDb, index,  \* each deleteMessage call: step, branch, list position
    hit,                \* history: the calls that marked their own target
    atRisk,             \* history: the messages a fault or a race touched
    faults              \* the kinds of fault that happened, in order

redis == <<buffer, temp, cache, lock>>
mysql == <<row, logTable>>
batches == <<isProcessing, pc, key, data>>
deletes == <<dpc, viaDb, index, hit>>
vars == <<redis, mysql, batches, deletes, atRisk, faults>>

CallSteps == {"unsent", "pushed", "idle", "locking", "locked", "llen", "rename",
              "lrange", "insert", "del", "finish", "done"}
DelSteps == {"idle", "bufRead", "bufSet", "cacheRead", "cacheSet", "commit",
             "done", "failed"}

Init ==
    /\ buffer = [k \in Keys |-> <<>>]
    /\ temp = [k \in Keys |-> <<>>]
    /\ cache = <<>>
    /\ lock = FALSE
    /\ row = [m \in Messages |-> "absent"]
    /\ logTable = [e \in Entry |-> 0]
    /\ isProcessing = [p \in Procs |-> FALSE]
    /\ pc = [c \in Calls |-> IF c \in Procs THEN "idle" ELSE "unsent"]
    /\ key = [c \in Calls |-> "messages"]
    /\ data = [c \in Calls |-> <<>>]
    /\ dpc = [d \in DelReqs |-> "idle"]
    /\ viaDb = [d \in DelReqs |-> FALSE]
    /\ index = [d \in DelReqs |-> 1]
    /\ hit = {}
    /\ atRisk = {}
    /\ faults = <<>>

---------------------------------------------------------------------------
(* Helpers *)

Elements(s) == {s[i] : i \in 1..Len(s)}
Ids(s) == {e.id : e \in Elements(s)}

(* The newest n elements (LTRIM key -n -1). *)
Newest(s, n) == IF Len(s) <= n THEN s ELSE SubSeq(s, Len(s) - n + 1, Len(s))

(* findIndex: the first position that holds m, if any. *)
FirstAt(s, m) ==
    {i \in 1..Len(s) : s[i].id = m /\ \A j \in 1..(i - 1) : s[j].id # m}

(* LSET: an index beyond the end is an error and changes nothing. *)
SetAt(s, i, e) == IF i \in 1..Len(s) THEN [s EXCEPT ![i] = e] ELSE s

(* Calls between the SET NX that succeeded and the end of the batch. *)
Running == {"locked", "llen", "rename", "lrange", "insert", "del", "finish"}
Batches == {c \in Calls : pc[c] \in Running}

(* The elements of list k that still have a copy on the way to MySQL. *)
Waiting(k) ==
    Elements(buffer[k]) \cup Elements(temp[k])
        \cup UNION {Elements(data[c]) : c \in {b \in Calls : key[b] = k}}

Pending(k) == {e.id : e \in Waiting(k)}

Accepted == {m \in Messages : pc[m] # "unsent"}

(* One more fault of this kind. *)
Fault(kind) ==
    /\ kind \in FaultKinds
    /\ Len(faults) < MaxFaults
    /\ faults' = Append(faults, kind)

Happened == {faults[i] : i \in 1..Len(faults)}

Goto(c, step) == pc' = [pc EXCEPT ![c] = step]
DGoto(d, step) == dpc' = [dpc EXCEPT ![d] = step]

---------------------------------------------------------------------------
(* createMessage: MULTI rpush, rpush, rpush, ltrim; then LLEN *)

Push(m) ==
    /\ pc[m] = "unsent"
    /\ buffer' = [k \in Keys |-> Append(buffer[k], Live(m))]
    /\ cache' = Newest(Append(cache, Live(m)), CacheLimit)
    /\ Goto(m, "pushed")
    /\ atRisk' = IF Cardinality(Batches) > 1 THEN atRisk \cup {m} ELSE atRisk
    /\ UNCHANGED <<temp, lock, mysql, isProcessing, key, data, deletes, faults>>

CheckLength(m) ==
    /\ pc[m] = "pushed"
    /\ IF Len(buffer["messages"]) >= Threshold /\ ~isProcessing[HomeOf(m)]
       THEN Goto(m, "locking")
       ELSE Goto(m, "done")
    /\ UNCHANGED <<redis, mysql, isProcessing, key, data, deletes, atRisk, faults>>

---------------------------------------------------------------------------
(* handleBufferToDb and processBuffer *)

CronTick(p) ==
    /\ pc[p] = "idle"
    /\ ~isProcessing[p]
    /\ Goto(p, "locking")
    /\ UNCHANGED <<redis, mysql, isProcessing, key, data, deletes, atRisk, faults>>

(* Mutant: SET without NX. *)
TryLockWithoutNX(c) ==
    /\ pc[c] = "locking"
    /\ Goto(c, "locked")
    /\ lock' = TRUE
    /\ UNCHANGED <<buffer, temp, cache, mysql, isProcessing, key, data, deletes, atRisk, faults>>

(* SET NX EX 50.  When a batch overran its lock and is still running, this *)
(* starts a second one beside it, and all that waits in Redis is exposed.  *)
TryLock(c) ==
    /\ pc[c] = "locking"
    /\ IF lock
       THEN Goto(c, Rest(c)) /\ UNCHANGED <<lock, atRisk>>
       ELSE /\ Goto(c, "locked")
            /\ lock' = TRUE
            /\ atRisk' = IF Batches = {} THEN atRisk
                         ELSE atRisk \cup UNION {Pending(k) : k \in Keys}
    /\ UNCHANGED <<buffer, temp, cache, mysql, isProcessing, key, data, deletes, faults>>

Begin(c) ==
    /\ pc[c] = "locked"
    /\ isProcessing' = [isProcessing EXCEPT ![HomeOf(c)] = TRUE]
    /\ Goto(c, "llen")
    /\ UNCHANGED <<redis, mysql, key, data, deletes, atRisk, faults>>

(* An empty list returns at once, through the finally that deletes temp. *)
ReadLength(c) ==
    /\ pc[c] = "llen"
    /\ Goto(c, IF buffer[key[c]] = <<>> THEN "del" ELSE "rename")
    /\ UNCHANGED <<redis, mysql, isProcessing, key, data, deletes, atRisk, faults>>

(* Mutant: the list is emptied where it should be renamed. *)
EmptyList(c) ==
    /\ pc[c] = "rename"
    /\ buffer' = [buffer EXCEPT ![key[c]] = <<>>]
    /\ Goto(c, "lrange")
    /\ UNCHANGED <<temp, cache, lock, mysql, isProcessing, key, data, deletes, atRisk, faults>>

(* RENAME replaces an existing temp; of a missing key it is an error. *)
RenameList(c) ==
    /\ pc[c] = "rename"
    /\ LET k == key[c] IN
       IF buffer[k] = <<>>
       THEN Goto(c, "del") /\ UNCHANGED <<buffer, temp>>
       ELSE /\ temp' = [temp EXCEPT ![k] = buffer[k]]
            /\ buffer' = [buffer EXCEPT ![k] = <<>>]
            /\ Goto(c, "lrange")
    /\ UNCHANGED <<cache, lock, mysql, isProcessing, key, data, deletes, atRisk, faults>>

ReadTemp(c) ==
    /\ pc[c] = "lrange"
    /\ data' = [data EXCEPT ![c] = temp[key[c]]]
    /\ Goto(c, IF temp[key[c]] = <<>> THEN "del" ELSE "insert")
    /\ UNCHANGED <<redis, mysql, isProcessing, key, deletes, atRisk, faults>>

(* INSERT IGNORE: a message whose primary key exists is skipped, a log is *)
(* always a new row.                                                      *)
InsertRows(chunk) ==
    /\ row' = [m \in Messages |->
                 IF row[m] = "absent" /\ m \in Ids(chunk)
                 THEN IF \E i \in FirstAt(chunk, m) : chunk[i].deleted
                      THEN "deleted" ELSE "live"
                 ELSE row[m]]
    /\ UNCHANGED logTable

InsertLogs(chunk) ==
    /\ logTable' = [e \in Entry |->
                      logTable[e] + Cardinality({i \in 1..Len(chunk) : chunk[i] = e})]
    /\ UNCHANGED row

(* Mutant: the next slice starts at the last row of this one. *)
InsertChunkTwice(c) ==
    /\ pc[c] = "insert"
    /\ LET n == IF ChunkSize < Len(data[c]) THEN ChunkSize ELSE Len(data[c])
           chunk == SubSeq(data[c], 1, n)
           others == SubSeq(data[c], n, Len(data[c]))
       IN  /\ IF key[c] = "messages" THEN InsertRows(chunk) ELSE InsertLogs(chunk)
           /\ data' = [data EXCEPT ![c] = others]
           /\ Goto(c, IF others = <<>> THEN "del" ELSE "insert")
    /\ UNCHANGED <<redis, isProcessing, key, deletes, atRisk, faults>>

(* Mutant: one chunk only, without the loop. *)
InsertFirstChunk(c) ==
    /\ pc[c] = "insert"
    /\ LET chunk == SubSeq(data[c], 1, ChunkSize) IN
        IF key[c] = "messages" THEN InsertRows(chunk) ELSE InsertLogs(chunk)
    /\ data' = [data EXCEPT ![c] = <<>>]
    /\ Goto(c, "del")
    /\ UNCHANGED <<redis, isProcessing, key, deletes, atRisk, faults>>

InsertChunk(c) ==
    /\ pc[c] = "insert"
    /\ LET n == IF ChunkSize < Len(data[c]) THEN ChunkSize ELSE Len(data[c])
           chunk == SubSeq(data[c], 1, n)
           others == SubSeq(data[c], n + 1, Len(data[c]))
       IN  /\ IF key[c] = "messages" THEN InsertRows(chunk) ELSE InsertLogs(chunk)
           /\ data' = [data EXCEPT ![c] = others]
           /\ Goto(c, IF others = <<>> THEN "del" ELSE "insert")
    /\ UNCHANGED <<redis, isProcessing, key, deletes, atRisk, faults>>

(* The INSERT throws: the catch only logs it. *)
InsertFails(c) ==
    /\ pc[c] = "insert"
    /\ Fault("dbError")
    /\ atRisk' = atRisk \cup Ids(data[c])
    /\ data' = [data EXCEPT ![c] = <<>>]
    /\ Goto(c, "del")
    /\ UNCHANGED <<redis, mysql, isProcessing, key, deletes>>

(* Mutant: the batch goes on with a list nobody fills. *)
DeleteTempAndGoOn(c) ==
    /\ pc[c] = "del"
    /\ temp' = [temp EXCEPT ![key[c]] = <<>>]
    /\ key' = [key EXCEPT ![c] = IF key[c] = "messages" THEN "logs" ELSE "reads"]
    /\ Goto(c, "llen")
    /\ UNCHANGED <<buffer, cache, lock, mysql, isProcessing, data, deletes, atRisk, faults>>

(* finally: DEL temp, then the second list, then the end of the batch. *)
DeleteTemp(c) ==
    /\ pc[c] = "del"
    /\ temp' = [temp EXCEPT ![key[c]] = <<>>]
    /\ IF key[c] = "messages"
       THEN Goto(c, "llen") /\ key' = [key EXCEPT ![c] = "logs"]
       ELSE Goto(c, "finish") /\ UNCHANGED key
    /\ UNCHANGED <<buffer, cache, lock, mysql, isProcessing, data, deletes, atRisk, faults>>

(* Mutant: no finally, isProcessing stays set. *)
FinishProcessing(c) ==
    /\ pc[c] = "finish"
    /\ key' = [key EXCEPT ![c] = "messages"]
    /\ Goto(c, Rest(c))
    /\ UNCHANGED <<redis, mysql, isProcessing, data, deletes, atRisk, faults>>

(* The lock is not released here: it expires.  The count caches of the log *)
(* queries, deleted before this step, are not part of this model.  The     *)
(* locals of a call that ended go back to their first values.              *)
Finish(c) ==
    /\ pc[c] = "finish"
    /\ isProcessing' = [isProcessing EXCEPT ![HomeOf(c)] = FALSE]
    /\ key' = [key EXCEPT ![c] = "messages"]
    /\ Goto(c, Rest(c))
    /\ UNCHANGED <<redis, mysql, data, deletes, atRisk, faults>>

(* 50 seconds have passed since the SET NX, and no batch is running. *)
LockExpires ==
    /\ lock /\ Batches = {}
    /\ lock' = FALSE
    /\ UNCHANGED <<buffer, temp, cache, mysql, batches, deletes, atRisk, faults>>

(* 50 seconds have passed and the batch is still running. *)
LockOverrun ==
    /\ lock /\ Batches # {}
    /\ Fault("overrun")
    /\ lock' = FALSE
    /\ UNCHANGED <<buffer, temp, cache, mysql, batches, deletes, atRisk>>

---------------------------------------------------------------------------
(* deleteMessage *)

(* findOne by id, room and user.  Only a message that was sent is named.  *)
(* The transaction of the first branch takes effect when it commits.      *)
FindMessage(d) ==
    /\ dpc[d] = "idle"
    /\ Target[d] \in Accepted
    /\ LET found == Own[d] /\ row[Target[d]] # "absent" IN
        /\ viaDb' = [viaDb EXCEPT ![d] = found /\ row[Target[d]] = "live"]
        /\ DGoto(d, IF ~found THEN "bufRead"
                    ELSE IF row[Target[d]] = "deleted" THEN "failed"
                    ELSE "cacheRead")
    /\ UNCHANGED <<redis, mysql, batches, index, hit, atRisk, faults>>

(* Mutant: findIndex compares the message id alone. *)
FindBufferedById(d) ==
    /\ dpc[d] = "bufRead"
    /\ \/ /\ FirstAt(buffer["messages"], Target[d]) = {}
          /\ DGoto(d, "cacheRead")
          /\ UNCHANGED index
       \/ \E i \in FirstAt(buffer["messages"], Target[d]) :
             /\ index' = [index EXCEPT ![d] = i]
             /\ DGoto(d, "bufSet")
    /\ UNCHANGED <<redis, mysql, batches, viaDb, hit, atRisk, faults>>

(* Mutant: a position of zero is taken for none. *)
FindBufferedTruthy(d) ==
    /\ dpc[d] = "bufRead"
    /\ LET found == {i \in FirstAt(buffer["messages"], Target[d]) : Own[d] /\ i # 1} IN
        \/ /\ found = {}
           /\ DGoto(d, "cacheRead")
           /\ UNCHANGED index
        \/ \E i \in found :
             /\ index' = [index EXCEPT ![d] = i]
             /\ DGoto(d, "bufSet")
    /\ UNCHANGED <<redis, mysql, batches, viaDb, hit, atRisk, faults>>

(* delMessageAndLog: LRANGE buffer:messages, findIndex. *)
FindBuffered(d) ==
    /\ dpc[d] = "bufRead"
    /\ LET found == {i \in FirstAt(buffer["messages"], Target[d]) : Own[d]} IN
        \/ /\ found = {}
           /\ DGoto(d, "cacheRead")
           /\ UNCHANGED index
        \/ \E i \in found :
             /\ index' = [index EXCEPT ![d] = i]
             /\ DGoto(d, "bufSet")
    /\ UNCHANGED <<redis, mysql, batches, viaDb, hit, atRisk, faults>>

(* Mutant: the entry is written back with its flag as it was. *)
MarkBufferedLive(d) ==
    /\ dpc[d] = "bufSet"
    /\ LET i == index[d]
           list == buffer["messages"]
           there == IF i \in 1..Len(list) THEN {list[i].id} ELSE {}
       IN  /\ buffer' = [buffer EXCEPT !["messages"] = SetAt(@, i, Live(Target[d])),
                                        !["logs"] = Append(@, Deleted(Target[d]))]
           /\ hit' = IF Target[d] \in there THEN hit \cup {d} ELSE hit
           /\ atRisk' = IF there = {Target[d]} /\ Cardinality(Batches) <= 1
                        THEN atRisk ELSE atRisk \cup there \cup {Target[d]}
    /\ index' = [index EXCEPT ![d] = 1]
    /\ DGoto(d, "cacheRead")
    /\ UNCHANGED <<temp, cache, lock, mysql, batches, viaDb, faults>>

(* MULTI lset, rpush: the position is the one read before, whatever stands *)
(* there now, and the log is pushed even when the LSET is an error.        *)
MarkBuffered(d) ==
    /\ dpc[d] = "bufSet"
    /\ LET i == index[d]
           there == IF i \in 1..Len(buffer["messages"]) THEN {buffer["messages"][i].id} ELSE {}
       IN  /\ buffer' = [buffer EXCEPT !["messages"] = SetAt(@, i, Deleted(Target[d])),
                                        !["logs"] = Append(@, Deleted(Target[d]))]
           /\ hit' = IF Target[d] \in there THEN hit \cup {d} ELSE hit
           /\ atRisk' = IF there = {Target[d]} /\ Cardinality(Batches) <= 1
                        THEN atRisk
                        ELSE atRisk \cup there \cup {Target[d]}
    /\ index' = [index EXCEPT ![d] = 1]
    /\ DGoto(d, "cacheRead")
    /\ UNCHANGED <<temp, cache, lock, mysql, batches, viaDb, faults>>

AfterCache(d) == IF viaDb[d] THEN "commit" ELSE "done"

(* delRoomMessageCache: LRANGE room:messages:{id}, findIndex. *)
FindCached(d) ==
    /\ dpc[d] = "cacheRead"
    /\ \/ /\ FirstAt(cache, Target[d]) = {}
          /\ DGoto(d, AfterCache(d))
          /\ UNCHANGED index
       \/ \E i \in FirstAt(cache, Target[d]) :
            /\ index' = [index EXCEPT ![d] = i]
            /\ DGoto(d, "cacheSet")
    /\ UNCHANGED <<redis, mysql, batches, viaDb, hit, atRisk, faults>>

(* LSET at the position read before. *)
MarkCached(d) ==
    /\ dpc[d] = "cacheSet"
    /\ cache' = SetAt(cache, index[d], Deleted(Target[d]))
    /\ index' = [index EXCEPT ![d] = 1]
    /\ DGoto(d, AfterCache(d))
    /\ UNCHANGED <<buffer, temp, lock, mysql, batches, viaDb, hit, atRisk, faults>>

(* Mutant: the row is removed where it should be marked. *)
CommitRemoval(d) ==
    /\ dpc[d] = "commit"
    /\ row' = [row EXCEPT ![Target[d]] = "absent"]
    /\ logTable' = [logTable EXCEPT ![Deleted(Target[d])] = @ + 1]
    /\ hit' = hit \cup {d}
    /\ viaDb' = [viaDb EXCEPT ![d] = FALSE]
    /\ DGoto(d, "done")
    /\ UNCHANGED <<redis, batches, index, atRisk, faults>>

(* Mutant: the update commits without its log. *)
CommitWithoutLog(d) ==
    /\ dpc[d] = "commit"
    /\ row' = [row EXCEPT ![Target[d]] = "deleted"]
    /\ hit' = hit \cup {d}
    /\ viaDb' = [viaDb EXCEPT ![d] = FALSE]
    /\ DGoto(d, "done")
    /\ UNCHANGED <<redis, logTable, batches, index, atRisk, faults>>

(* The transaction commits the update of the row and its DELETE log. *)
CommitDelete(d) ==
    /\ dpc[d] = "commit"
    /\ row' = [row EXCEPT ![Target[d]] = "deleted"]
    /\ logTable' = [logTable EXCEPT ![Deleted(Target[d])] = @ + 1]
    /\ hit' = hit \cup {d}
    /\ viaDb' = [viaDb EXCEPT ![d] = FALSE]
    /\ DGoto(d, "done")
    /\ UNCHANGED <<redis, batches, index, atRisk, faults>>

CommitFails(d) ==
    /\ dpc[d] = "commit"
    /\ Fault("dbError")
    /\ viaDb' = [viaDb EXCEPT ![d] = FALSE]
    /\ DGoto(d, "failed")
    /\ UNCHANGED <<redis, mysql, batches, index, hit, atRisk>>

---------------------------------------------------------------------------
(* A process dies and is restarted at once: its calls and its memory are  *)
(* gone, Redis (appendonly) and MySQL keep theirs, the lock included.      *)

InFlight(c) ==
    CASE pc[c] = "lrange" -> Ids(temp[key[c]])
      [] pc[c] = "insert" -> Ids(data[c])
      [] OTHER -> {}

Crash(p) ==
    /\ Fault("crash")
    /\ LET mine == {c \in Calls : HomeOf(c) = p /\ pc[c] # "unsent"} IN
        /\ pc' = [c \in Calls |-> IF c \in mine THEN Rest(c) ELSE pc[c]]
        /\ key' = [c \in Calls |-> IF c \in mine THEN "messages" ELSE key[c]]
        /\ data' = [c \in Calls |-> IF c \in mine THEN <<>> ELSE data[c]]
        /\ atRisk' = atRisk \cup UNION {InFlight(c) : c \in mine}
    /\ isProcessing' = [isProcessing EXCEPT ![p] = FALSE]
    /\ LET mine == {d \in DelReqs : ServedBy[d] = p /\ dpc[d] \notin {"idle", "done"}} IN
        /\ dpc' = [d \in DelReqs |-> IF d \in mine THEN "failed" ELSE dpc[d]]
        /\ viaDb' = [d \in DelReqs |-> viaDb[d] /\ d \notin mine]
        /\ index' = [d \in DelReqs |-> IF d \in mine THEN 1 ELSE index[d]]
    /\ UNCHANGED <<redis, mysql, hit>>

---------------------------------------------------------------------------
BatchStep(c) ==
    \/ TryLock(c) \/ Begin(c) \/ ReadLength(c) \/ RenameList(c) \/ ReadTemp(c)
    \/ InsertChunk(c) \/ InsertFails(c) \/ DeleteTemp(c) \/ Finish(c)

DeleteStep(d) ==
    \/ FindMessage(d) \/ FindBuffered(d) \/ MarkBuffered(d) \/ FindCached(d)
    \/ MarkCached(d) \/ CommitDelete(d) \/ CommitFails(d)

Next ==
    \/ \E m \in Messages : Push(m) \/ CheckLength(m)
    \/ \E p \in Procs : CronTick(p) \/ Crash(p)
    \/ \E c \in Calls : BatchStep(c)
    \/ \E d \in DelReqs : DeleteStep(d)
    \/ LockExpires
    \/ LockOverrun

(* The cron fires every minute, the lock has a TTL, and a call that waits  *)
(* for a reply gets it.  Nothing obliges anyone to send or delete.         *)
Fairness ==
    /\ \A p \in Procs : WF_vars(CronTick(p))
    /\ \A c \in Calls : WF_vars(BatchStep(c))
    /\ WF_vars(LockExpires)

Spec == Init /\ [][Next]_vars /\ Fairness

---------------------------------------------------------------------------
(* Properties *)

TypeOK ==
    /\ buffer \in [Keys -> Seq(Entry)]
    /\ temp \in [Keys -> Seq(Entry)]
    /\ cache \in Seq(Entry)
    /\ lock \in BOOLEAN
    /\ row \in [Messages -> {"absent", "live", "deleted"}]
    /\ logTable \in [Entry -> Nat]
    /\ isProcessing \in [Procs -> BOOLEAN]
    /\ pc \in [Calls -> CallSteps]
    /\ key \in [Calls -> Keys]
    /\ data \in [Calls -> Seq(Entry)]
    /\ dpc \in [DelReqs -> DelSteps]
    /\ viaDb \in [DelReqs -> BOOLEAN]
    /\ index \in [DelReqs -> Nat]
    /\ hit \in SUBSET DelReqs
    /\ atRisk \in SUBSET Messages
    /\ faults \in Seq(FaultKinds)

(* Across all processes at most one batch runs, as long as none outlives  *)
(* the 50 seconds of its lock: isProcessing alone is per process, and it   *)
(* is read before the lock is asked for.                                   *)
SingleBatch == "overrun" \notin Happened => Cardinality(Batches) <= 1

(* Every accepted message, and its SEND log, is on its way to MySQL or     *)
(* there, unless a failed INSERT, a crash, two overlapping batches or an   *)
(* LSET at an outdated position touched it.                                *)
NoLossWithoutFault ==
    \A m \in Accepted \ atRisk :
        /\ row[m] # "absent" \/ m \in Pending("messages")
        /\ logTable[Live(m)] > 0 \/ Live(m) \in Waiting("logs")

(* message_logs has no key to ignore duplicates by: only the pipeline's    *)
(* order keeps a SEND log from being inserted twice.                       *)
SendLoggedOnce == \A m \in Messages \ atRisk : logTable[Live(m)] <= 1

(* A message row is never taken back: INSERT IGNORE neither revives nor    *)
(* removes what deleteMessage marked, whatever copies are still in flight. *)
RowsOnlyAdvance ==
    [][\A m \in Messages : row[m] # "absent" => row'[m] \in {row[m], "deleted"}]_vars

(* deleteMessage did its work: once a call marked the row or the buffered  *)
(* entry of its own target, the row is deleted or no live copy is left     *)
(* that an INSERT could still turn into a live row.                        *)
DeletionReachesDb ==
    \A d \in hit :
        \/ Target[d] \in atRisk
        \/ row[Target[d]] = "deleted"
        \/ row[Target[d]] = "absent" /\ Live(Target[d]) \notin Waiting("messages")

(* An author's call that finds no row goes to the buffer, and if it finds   *)
(* nothing there either, it succeeds and marks no copy.  That is so only   *)
(* while a batch has the message in hand, or once it stored the row: the   *)
(* same call made after the batch finds the row.                           *)
MissesOnlyInBatch ==
    [][\A d \in DelReqs :
         dpc[d] = "bufRead" /\ dpc'[d] = "cacheRead" /\ Own[d] =>
             \/ Target[d] \in atRisk
             \/ row[Target[d]] # "absent"
             \/ Batches # {}]_vars

(* The audit trail: a row marked deleted has its DELETE log, stored or on  *)
(* its way, although rows and logs are drained by separate renames.        *)
DeletionLogged ==
    \A m \in Messages \ atRisk :
        row[m] = "deleted" => logTable[Deleted(m)] > 0 \/ Deleted(m) \in Waiting("logs")

(* A call whose (room, user) is not the message's leaves MySQL and both    *)
(* buffers alone (the room cache is another matter).                       *)
OnlyOwnDeletes ==
    \A m \in Messages :
        (\A d \in DelReqs : Target[d] = m => ~Own[d]) =>
            /\ row[m] # "deleted" /\ logTable[Deleted(m)] = 0
            /\ \A k \in Keys : Deleted(m) \notin Waiting(k)

(* "Keep the newest 100 for reading" (the comment at redis.service.ts:287): *)
(* the room cache holds that many different messages once they were sent.  *)
CacheKeepsNewest ==
    LET sent == Cardinality(Accepted)
    IN  Cardinality(Ids(cache)) = IF sent < CacheLimit THEN sent ELSE CacheLimit

(* A message's life as MessageLife tells it. *)
LifeOf(m) ==
    CASE m \notin Accepted -> "unsent"
      [] m \in Accepted /\ row[m] = "live" -> "stored"
      [] m \in Accepted /\ row[m] = "deleted" -> "deleted"
      [] m \in Accepted /\ row[m] = "absent" ->
            IF m \in Pending("messages") THEN "pending" ELSE "lost"

Life == INSTANCE MessageLife
            WITH Deletable <- {Target[d] : d \in {x \in DelReqs : Own[x]}},
                 life <- [m \in Messages |-> LifeOf(m)],
                 risk <- atRisk

(* Each step of the pipeline is one of MessageLife: a stored message stays  *)
(* stored or is deleted, by its author alone and for good; a loss follows   *)
(* an exposure; and only a mark at an outdated position makes a lost       *)
(* message pending again.                                                  *)
LifeInOrder == Life!Steps

(* The pipeline implements MessageLife: its steps, and nothing is pending   *)
(* for ever.                                                               *)
ImplementsLife == Life!Spec

(* Every accepted message reaches both tables unless a fault touched it:   *)
(* the cron drains both lists whatever became of the earlier batches.      *)
EventuallyStored ==
    \A m \in Messages :
        (m \in Accepted) ~> (m \in atRisk \/ (row[m] # "absent" /\ logTable[Live(m)] > 0))
=============================================================================
