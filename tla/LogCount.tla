------------------------------- MODULE LogCount -------------------------------
(***************************************************************************)
(* The number of message logs that pass a filter, as getAllMessageLogs     *)
(* gives it.  Redis keeps, for each administrator, the last filter with    *)
(* its number for an hour; the batch, after it has stored logs, removes    *)
(* these numbers (KEYS, then DEL).  The logs are numbered by id and only   *)
(* added.  Of the requests for logs this is the part after their query.    *)
(***************************************************************************)
EXTENDS Integers, FiniteSets

CONSTANTS
    Counters,           \* requests under way at once
    FirstLogs, MaxLogs, \* bounds on the logs, at the beginning and later
    LogFilters,            \* settings of the filter
    Passes(_, _)        \* does the filter let the log pass?

ASSUME LogCountAssumption == FirstLogs \in 0..MaxLogs /\ MaxLogs \in Nat

VARIABLES
    logs,       \* the newest row of message_log
    counted,    \* user:logs:count of the administrator
    counting,   \* the requests
    wipe,       \* the batch, where it removes the numbers
    uncounted,  \* history: a log was written outside of the batch since it last did
    crossed     \* history: the number was counted before a log that came before its SET

countVars == <<logs, counted, counting, wipe, uncounted, crossed>>

(* old: logs have been added since the COUNT. *)
Counting == [pc: {"get", "count", "set"}, filter: LogFilters, count: 0..MaxLogs, old: BOOLEAN]
NotCounting == [pc |-> "idle"]
Count == [filter: LogFilters, count: 0..MaxLogs]
NoCount == [filter |-> "none", count |-> 0]

CountInit ==
    /\ logs = FirstLogs
    /\ counted = NoCount /\ wipe = "idle" /\ uncounted = FALSE /\ crossed = FALSE
    /\ counting = [c \in Counters |-> NotCounting]

(* Mutant: one log is counted that is not there. *)
NumberAndOne(f) == 1 + Cardinality({m \in 1..logs: Passes(f, m)})

(* COUNT(log.id) under the filter. *)
Number(f) == Cardinality({m \in 1..logs: Passes(f, m)})
GoOn(c, pc) == counting' = [counting EXCEPT ![c].pc = pc]

BeginCount(c) ==
    /\ counting[c].pc = "idle"
    /\ \E f \in LogFilters:
         counting' = [counting EXCEPT ![c] = [pc |-> "get", filter |-> f, count |-> 0, old |-> FALSE]]
    /\ UNCHANGED <<logs, counted, wipe, uncounted, crossed>>

(* cachedData.queryStr === currentQueryStr *)
CountKnown(c) == counted.filter = counting[c].filter

(* getUserLogQueryCache *)
GetCount(c) ==
    /\ counting[c].pc = "get"
    /\ IF CountKnown(c)
       THEN counting' = [counting EXCEPT ![c] = NotCounting]
       ELSE GoOn(c, "count")
    /\ UNCHANGED <<logs, counted, wipe, uncounted, crossed>>

CountLogs(c) ==
    /\ counting[c].pc = "count"
    /\ counting' = [counting EXCEPT ![c].pc = "set", ![c].count = Number(counting[c].filter)]
    /\ UNCHANGED <<logs, counted, wipe, uncounted, crossed>>

(* setUserLogQueryCache *)
SetCount(c) ==
    /\ counting[c].pc = "set"
    /\ counted' = [filter |-> counting[c].filter, count |-> counting[c].count]
    /\ crossed' = counting[c].old
    /\ counting' = [counting EXCEPT ![c] = NotCounting]
    /\ UNCHANGED <<logs, wipe, uncounted>>

(* The hour is over. *)
CountExpires ==
    /\ counted # NoCount
    /\ counted' = NoCount
    /\ UNCHANGED <<logs, counting, wipe, uncounted, crossed>>

AddLog ==
    /\ logs < MaxLogs
    /\ logs' = logs + 1
    /\ counting' = [c \in Counters |-> IF counting[c].pc = "set" THEN [counting[c] EXCEPT !.old = TRUE]
                                                                 ELSE counting[c]]

(* deleteMessage writes the log of the deletion of a stored message itself.  *)
LogDeletion ==
    /\ AddLog
    /\ uncounted' = TRUE
    /\ UNCHANGED <<counted, wipe, crossed>>

(* processBuffer stores logs; with an empty buffer there are none.          *)
BatchStores ==
    /\ wipe = "idle"
    /\ wipe' = "keys"
    /\ AddLog \/ UNCHANGED <<logs, counting>>
    /\ UNCHANGED <<counted, uncounted, crossed>>

(* delUserLogQueryCacheAll: KEYS, and DEL if there were any.                *)
FindCounts ==
    /\ wipe = "keys"
    /\ wipe' = IF counted = NoCount THEN "idle" ELSE "del"
    /\ uncounted' = (uncounted /\ counted # NoCount)
    /\ UNCHANGED <<logs, counted, counting, crossed>>

(* Mutant: the numbers stay. *)
KeepCounts ==
    /\ wipe = "del" /\ wipe' = "idle"
    /\ UNCHANGED <<logs, counted, counting, uncounted, crossed>>

DelCounts ==
    /\ wipe = "del"
    /\ wipe' = "idle"
    /\ counted' = NoCount
    /\ uncounted' = FALSE
    /\ UNCHANGED <<logs, counting, crossed>>

CountNext ==
    \/ CountExpires \/ LogDeletion \/ BatchStores \/ FindCounts \/ DelCounts
    \/ \E c \in Counters: BeginCount(c) \/ GetCount(c) \/ CountLogs(c) \/ SetCount(c)

CountSpec == CountInit /\ [][CountNext]_countVars

-----------------------------------------------------------------------------
(* Types. *)
CountTypeOK ==
    /\ logs \in 0..MaxLogs /\ counted \in Count \cup {NoCount}
    /\ counting \in [Counters -> Counting \cup {NotCounting}] /\ wipe \in {"idle", "keys", "del"}
    /\ uncounted \in BOOLEAN /\ crossed \in BOOLEAN

(* A cached number is right whenever no batch is between its INSERT and its  *)
(* DEL, whatever requests count and store meanwhile, unless logs came       *)
(* between its COUNT and its SET, or a deletion has been logged since the   *)
(* last batch.                                                              *)
CountFresh ==
    wipe = "idle" /\ counted # NoCount /\ ~uncounted /\ ~crossed
    => counted.count = Number(counted.filter)
=============================================================================
