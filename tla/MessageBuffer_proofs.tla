------------------------ MODULE MessageBuffer_proofs ------------------------
(***************************************************************************)
(* Proofs about MessageBuffer, for every set of processes, messages and    *)
(* delete requests, every size of buffer, chunk and cache, and any number  *)
(* of faults.                                                              *)
(***************************************************************************)
EXTENDS MessageBuffer, FiniteSetTheorems, TLAPS

---------------------------------------------------------------------------
(* Lemmas about the helpers *)

(* Live(m) and Deleted(m) are list elements. *)
LEMMA EntryTypes ==
    ASSUME NEW m \in Messages
    PROVE  Live(m) \in Entry /\ Deleted(m) \in Entry
BY DEF Live, Deleted, Entry

(* LTRIM leaves a list of the same kind of elements. *)
LEMMA NewestType ==
    ASSUME NEW s \in Seq(Entry), NEW n \in Nat
    PROVE  Newest(s, n) \in Seq(Entry)
BY DEF Newest

(* What a list holds are entries, and their ids are messages. *)
LEMMA ElementsType ==
    ASSUME NEW s \in Seq(Entry)
    PROVE  Elements(s) \subseteq Entry /\ Ids(s) \subseteq Messages
<1>1. \A i \in 1..Len(s) : s[i] \in Entry
    OBVIOUS
<1>2. Elements(s) \subseteq Entry
    BY <1>1 DEF Elements
<1>3. \A e \in Entry : e.id \in Messages
    BY DEF Entry
<1> QED BY <1>2, <1>3 DEF Ids

(* LSET leaves a list of the same kind of elements. *)
LEMMA SetAtType ==
    ASSUME NEW s \in Seq(Entry), NEW i, NEW e \in Entry
    PROVE  SetAt(s, i, e) \in Seq(Entry)
BY DEF SetAt

(* findIndex returns positions of the list. *)
LEMMA FirstAtType ==
    ASSUME NEW s \in Seq(Entry), NEW m
    PROVE  FirstAt(s, m) \subseteq Nat
BY DEF FirstAt

(* The number of times an entry stands in a chunk is a natural number. *)
LEMMA CountType ==
    ASSUME NEW s \in Seq(Entry), NEW e
    PROVE  Cardinality({i \in 1..Len(s) : s[i] = e}) \in Nat
<1>1. IsFiniteSet(1..Len(s))
    BY FS_Interval
<1>2. IsFiniteSet({i \in 1..Len(s) : s[i] = e})
    BY <1>1, FS_Subset
<1> QED BY <1>2, FS_CardinalityType

(* Calls rest at a step of their program; every call has a home process. *)
LEMMA CallTypes ==
    ASSUME NEW c \in Calls
    PROVE  Rest(c) \in CallSteps /\ HomeOf(c) \in Procs
BY RequestsAssumption DEF Rest, CallSteps, HomeOf, Calls

---------------------------------------------------------------------------
(* Type correctness *)

LEMMA InitTypeOK == Init => TypeOK
<1> SUFFICES ASSUME Init PROVE TypeOK OBVIOUS
<1>1. "messages" \in Keys BY DEF Keys
<1>2. pc \in [Calls -> CallSteps] BY DEF Init, CallSteps
<1>3. dpc \in [DelReqs -> DelSteps] BY DEF Init, DelSteps
<1>4. /\ buffer \in [Keys -> Seq(Entry)] /\ temp \in [Keys -> Seq(Entry)]
      /\ cache \in Seq(Entry) /\ data \in [Calls -> Seq(Entry)]
      /\ faults \in Seq(FaultKinds)
    BY DEF Init
<1>5. key \in [Calls -> Keys] BY <1>1 DEF Init
<1>6. /\ lock \in BOOLEAN
      /\ row \in [Messages -> {"absent", "live", "deleted"}]
      /\ isProcessing \in [Procs -> BOOLEAN] /\ viaDb \in [DelReqs -> BOOLEAN]
    BY DEF Init
<1>7. logTable \in [Entry -> Nat] /\ index \in [DelReqs -> Nat]
    BY DEF Init
<1>8. hit \in SUBSET DelReqs /\ atRisk \in SUBSET Messages
    BY DEF Init
<1> QED BY <1>2, <1>3, <1>4, <1>5, <1>6, <1>7, <1>8 DEF TypeOK

LEMMA NextTypeOK == TypeOK /\ [Next]_vars => TypeOK'
<1> SUFFICES ASSUME TypeOK, [Next]_vars PROVE TypeOK' OBVIOUS
<1> USE DEF TypeOK, redis, mysql, batches, deletes, Goto, DGoto
<1>1. ASSUME NEW m \in Messages, Push(m) PROVE TypeOK'
    <2>1. buffer' \in [Keys -> Seq(Entry)]
        BY <1>1, EntryTypes DEF Push
    <2>2. cache' \in Seq(Entry)
        <3>1. Append(cache, Live(m)) \in Seq(Entry) BY EntryTypes
        <3> QED BY <1>1, <3>1, NewestType, SizesAssumption DEF Push
    <2>3. pc' \in [Calls -> CallSteps] /\ atRisk' \in SUBSET Messages
        BY <1>1 DEF Push, CallSteps
    <2> QED BY <1>1, <2>1, <2>2, <2>3 DEF Push
<1>2. ASSUME NEW m \in Messages, CheckLength(m) PROVE TypeOK'
    BY <1>2 DEF CheckLength, CallSteps, Calls
<1>3. ASSUME NEW p \in Procs, CronTick(p) PROVE TypeOK'
    BY <1>3 DEF CronTick, CallSteps, Calls
<1>4. ASSUME NEW c \in Calls, TryLock(c) PROVE TypeOK'
    <2>1. Rest(c) \in CallSteps BY CallTypes
    <2>2. UNION {Pending(k) : k \in Keys} \subseteq Messages
        <3>1. \A k \in Keys : Waiting(k) \subseteq Entry
            BY ElementsType DEF Waiting
        <3>2. \A e \in Entry : e.id \in Messages BY DEF Entry
        <3> QED BY <3>1, <3>2 DEF Pending
    <2> QED BY <1>4, <2>1, <2>2 DEF TryLock, CallSteps
<1>5. ASSUME NEW c \in Calls, Begin(c) PROVE TypeOK'
    BY <1>5, CallTypes DEF Begin, CallSteps
<1>6. ASSUME NEW c \in Calls, ReadLength(c) PROVE TypeOK'
    BY <1>6 DEF ReadLength, CallSteps
<1>7. ASSUME NEW c \in Calls, RenameList(c) PROVE TypeOK'
    <2>1. pc' \in [Calls -> CallSteps]
        <3>1. \E step \in {"del", "lrange"} : pc' = [pc EXCEPT ![c] = step]
            BY <1>7 DEF RenameList
        <3> QED BY <3>1 DEF CallSteps
    <2>2. buffer' \in [Keys -> Seq(Entry)]
        <3>1. <<>> \in Seq(Entry) OBVIOUS
        <3> QED BY <1>7, <3>1 DEF RenameList
    <2>3. temp' \in [Keys -> Seq(Entry)]
        <3>1. temp' = temp \/ temp' = [temp EXCEPT ![key[c]] = buffer[key[c]]]
            BY <1>7 DEF RenameList
        <3>2. buffer[key[c]] \in Seq(Entry) OBVIOUS
        <3> QED BY <3>1, <3>2
    <2>4. UNCHANGED <<cache, lock, mysql, isProcessing, key, data, deletes, atRisk, faults>>
        BY <1>7 DEF RenameList
    <2> QED BY <2>1, <2>2, <2>3, <2>4
<1>8. ASSUME NEW c \in Calls, ReadTemp(c) PROVE TypeOK'
    <2>0. temp[key[c]] \in Seq(Entry) OBVIOUS
    <2>1. data' \in [Calls -> Seq(Entry)] BY <1>8, <2>0 DEF ReadTemp
    <2>2. pc' \in [Calls -> CallSteps] BY <1>8 DEF ReadTemp, CallSteps
    <2> QED BY <1>8, <2>1, <2>2 DEF ReadTemp
<1>9. ASSUME NEW c \in Calls, InsertChunk(c) PROVE TypeOK'
    <2> DEFINE n == IF ChunkSize < Len(data[c]) THEN ChunkSize ELSE Len(data[c])
               chunk == SubSeq(data[c], 1, n)
               others == SubSeq(data[c], n + 1, Len(data[c]))
    <2>1. n \in Nat /\ n <= Len(data[c])
        BY SizesAssumption
    <2>2. chunk \in Seq(Entry) /\ others \in Seq(Entry)
        BY <2>1
    <2>3. data' \in [Calls -> Seq(Entry)] /\ pc' \in [Calls -> CallSteps]
        BY <1>9, <2>2 DEF InsertChunk, CallSteps
    <2>4. row' \in [Messages -> {"absent", "live", "deleted"}]
        BY <1>9 DEF InsertChunk, InsertRows, InsertLogs
    <2>5. logTable' \in [Entry -> Nat]
        <3>1. CASE key[c] = "messages"
            <4>1. InsertRows(chunk) BY <1>9, <3>1 DEF InsertChunk
            <4> QED BY <4>1 DEF InsertRows
        <3>2. CASE key[c] # "messages"
            <4>1. InsertLogs(chunk) BY <1>9, <3>2 DEF InsertChunk
            <4>2. \A e \in Entry : Cardinality({i \in 1..Len(chunk) : chunk[i] = e}) \in Nat
                <5> HIDE DEF chunk
                <5> QED BY <2>2, CountType
            <4> HIDE DEF chunk
            <4>3. \A e \in Entry :
                    logTable[e] + Cardinality({i \in 1..Len(chunk) : chunk[i] = e}) \in Nat
                BY <4>2
            <4> QED BY <4>1, <4>3 DEF InsertLogs
        <3> QED BY <3>1, <3>2
    <2> QED BY <1>9, <2>3, <2>4, <2>5 DEF InsertChunk
<1>10. ASSUME NEW c \in Calls, InsertFails(c) PROVE TypeOK'
    <2>1. Ids(data[c]) \subseteq Messages BY ElementsType
    <2> QED BY <1>10, <2>1 DEF InsertFails, Fault, CallSteps
<1>11. ASSUME NEW c \in Calls, DeleteTemp(c) PROVE TypeOK'
    <2>1. temp' \in [Keys -> Seq(Entry)]
        <3>1. <<>> \in Seq(Entry) OBVIOUS
        <3> QED BY <1>11, <3>1 DEF DeleteTemp
    <2>2. pc' \in [Calls -> CallSteps] /\ key' \in [Calls -> Keys]
        BY <1>11 DEF DeleteTemp, CallSteps, Keys
    <2> QED BY <1>11, <2>1, <2>2 DEF DeleteTemp
<1>12. ASSUME NEW c \in Calls, Finish(c) PROVE TypeOK'
    BY <1>12, CallTypes DEF Finish, Keys
<1>13. ASSUME NEW d \in DelReqs, FindMessage(d) PROVE TypeOK'
    BY <1>13, RequestsAssumption DEF FindMessage, DelSteps
<1>14. ASSUME NEW d \in DelReqs, FindBuffered(d) PROVE TypeOK'
    <2>1. buffer["messages"] \in Seq(Entry) BY DEF Keys
    <2>2. FirstAt(buffer["messages"], Target[d]) \subseteq Nat BY <2>1, FirstAtType
    <2>3. index' \in [DelReqs -> Nat] BY <1>14, <2>2 DEF FindBuffered
    <2>4. dpc' \in [DelReqs -> DelSteps]
        <3>1. \E step \in DelSteps : dpc' = [dpc EXCEPT ![d] = step]
            BY <1>14 DEF FindBuffered, DelSteps
        <3> QED BY <3>1
    <2> QED BY <1>14, <2>3, <2>4 DEF FindBuffered
<1>15. ASSUME NEW d \in DelReqs, MarkBuffered(d) PROVE TypeOK'
    <2>1. Target[d] \in Messages BY RequestsAssumption
    <2>2. Deleted(Target[d]) \in Entry BY <2>1, EntryTypes
    <2>3. buffer["messages"] \in Seq(Entry) /\ buffer["logs"] \in Seq(Entry)
        BY DEF Keys
    <2>4. /\ SetAt(buffer["messages"], index[d], Deleted(Target[d])) \in Seq(Entry)
          /\ Append(buffer["logs"], Deleted(Target[d])) \in Seq(Entry)
        BY <2>2, <2>3, SetAtType
    <2>5. buffer' \in [Keys -> Seq(Entry)]
        BY <1>15, <2>4 DEF MarkBuffered, Keys
    <2> DEFINE there == IF index[d] \in 1..Len(buffer["messages"])
                        THEN {buffer["messages"][index[d]].id} ELSE {}
    <2>6. there \subseteq Messages
        BY <2>3, ElementsType DEF Ids, Elements
    <2>7. atRisk' \in SUBSET Messages
        BY <1>15, <2>1, <2>6 DEF MarkBuffered
    <2>8. hit' \in SUBSET DelReqs
        BY <1>15 DEF MarkBuffered
    <2>9. dpc' \in [DelReqs -> DelSteps] /\ index' \in [DelReqs -> Nat]
        BY <1>15 DEF MarkBuffered, DelSteps
    <2> QED BY <1>15, <2>5, <2>7, <2>8, <2>9 DEF MarkBuffered
<1>16. ASSUME NEW d \in DelReqs, FindCached(d) PROVE TypeOK'
    <2>1. FirstAt(cache, Target[d]) \subseteq Nat BY FirstAtType
    <2>2. index' \in [DelReqs -> Nat] BY <1>16, <2>1 DEF FindCached
    <2>3. dpc' \in [DelReqs -> DelSteps] BY <1>16 DEF FindCached, AfterCache, DelSteps
    <2> QED BY <1>16, <2>2, <2>3 DEF FindCached
<1>17. ASSUME NEW d \in DelReqs, MarkCached(d) PROVE TypeOK'
    BY <1>17, RequestsAssumption, EntryTypes, SetAtType DEF MarkCached, AfterCache, DelSteps
<1>18. ASSUME NEW d \in DelReqs, CommitDelete(d) PROVE TypeOK'
    <2>1. Target[d] \in Messages BY RequestsAssumption
    <2>2. row' \in [Messages -> {"absent", "live", "deleted"}]
        BY <1>18 DEF CommitDelete
    <2>3. logTable' \in [Entry -> Nat]
        BY <1>18, <2>1, EntryTypes DEF CommitDelete
    <2>4. dpc' \in [DelReqs -> DelSteps] /\ hit' \in SUBSET DelReqs
        BY <1>18 DEF CommitDelete, DelSteps
    <2>5. viaDb' \in [DelReqs -> BOOLEAN]
        BY <1>18 DEF CommitDelete
    <2> QED BY <1>18, <2>2, <2>3, <2>4, <2>5 DEF CommitDelete
<1>19. ASSUME NEW d \in DelReqs, CommitFails(d) PROVE TypeOK'
    BY <1>19 DEF CommitFails, Fault, DelSteps
<1>20. ASSUME NEW p \in Procs, Crash(p) PROVE TypeOK'
    <2>1. \A c \in Calls : InFlight(c) \subseteq Messages
        BY ElementsType DEF InFlight
    <2> QED BY <1>20, <2>1, CallTypes DEF Crash, Fault, CallSteps, DelSteps, Keys
<1>21. CASE LockExpires
    BY <1>21 DEF LockExpires
<1>22. CASE LockOverrun
    <2>1. faults' \in Seq(FaultKinds) BY <1>22 DEF LockOverrun, Fault
    <2> QED BY <1>22, <2>1 DEF LockOverrun
<1>23. CASE UNCHANGED vars
    BY <1>23 DEF vars
<1> QED BY <1>1, <1>2, <1>3, <1>4, <1>5, <1>6, <1>7, <1>8, <1>9, <1>10, <1>11,
           <1>12, <1>13, <1>14, <1>15, <1>16, <1>17, <1>18, <1>19, <1>20, <1>21,
           <1>22, <1>23 DEF Next, BatchStep, DeleteStep

(* The variables of the pipeline keep their types in every behaviour. *)
THEOREM TypeCorrect == Spec => []TypeOK
<1>1. Init => TypeOK BY InitTypeOK
<1>2. TypeOK /\ [Next]_vars => TypeOK' BY NextTypeOK
<1> QED BY <1>1, <1>2, PTL DEF Spec

---------------------------------------------------------------------------
(* Mutual exclusion of batches.  As long as no batch outlives its lock,    *)
(* a running batch implies the lock, and no two calls run one.  Nothing is *)
(* said of isProcessing, which is not what excludes: it is per process.    *)

LockInv ==
    "overrun" \notin Happened =>
        /\ \A b, c \in Batches : b = c
        /\ Batches # {} => lock

(* A step that starts no batch and leaves the lock alone keeps LockInv.    *)
LEMMA QuietStep ==
    ASSUME LockInv, Batches' \subseteq Batches, lock' = lock,
           Happened \subseteq Happened'
    PROVE  LockInv'
BY DEF LockInv

(* A call that does not take the lock leaves Batches or stays in it.       *)
LEMMA MoveBatch ==
    ASSUME TypeOK, NEW c \in Calls, NEW step, Goto(c, step),
           step \in Running => pc[c] \in Running
    PROVE  Batches' \subseteq Batches
BY DEF TypeOK, Goto, Batches

(* A fault is added to those that happened.                                *)
LEMMA FaultHappens ==
    ASSUME TypeOK, NEW kind, Fault(kind)
    PROVE  Happened' = Happened \cup {kind}
<1>1. faults \in Seq(FaultKinds) /\ kind \in FaultKinds /\ faults' = Append(faults, kind)
    BY DEF TypeOK, Fault
<1>2. Len(faults') = Len(faults) + 1 /\ faults'[Len(faults) + 1] = kind
    BY <1>1
<1>3. \A i \in 1..Len(faults) : faults'[i] = faults[i]
    BY <1>1
<1>4. Len(faults) \in Nat /\ 1..Len(faults') = 1..Len(faults) \cup {Len(faults) + 1}
    BY <1>1, <1>2
<1>5. \A j \in 1..Len(faults') : j \in 1..Len(faults) \/ j = Len(faults) + 1 BY <1>4
<1>6. 1..Len(faults) \subseteq 1..Len(faults') /\ Len(faults) + 1 \in 1..Len(faults') BY <1>4
<1> QED BY <1>2, <1>3, <1>5, <1>6 DEF Happened

LEMMA InitLockInv == Init => LockInv
<1> SUFFICES ASSUME Init PROVE LockInv OBVIOUS
<1>1. \A c \in Calls : pc[c] \in {"idle", "unsent"} BY DEF Init
<1>2. Batches = {} BY <1>1 DEF Batches, Running
<1> QED BY <1>2 DEF LockInv

LEMMA NextLockInv == TypeOK /\ LockInv /\ [Next]_vars => LockInv'
<1> SUFFICES ASSUME TypeOK, LockInv, [Next]_vars PROVE LockInv' OBVIOUS
<1> USE DEF redis, mysql, batches, deletes
<1>1. ASSUME NEW m \in Messages, Push(m) PROVE LockInv'
    BY <1>1, MoveBatch, QuietStep DEF Push, Running, Calls, Happened
<1>2. ASSUME NEW m \in Messages, CheckLength(m) PROVE LockInv'
    BY <1>2, MoveBatch, QuietStep DEF CheckLength, Running, Calls, Happened
<1>3. ASSUME NEW p \in Procs, CronTick(p) PROVE LockInv'
    BY <1>3, MoveBatch, QuietStep DEF CronTick, Running, Calls, Happened
<1>4. ASSUME NEW c \in Calls, TryLock(c) PROVE LockInv'
    <2>1. CASE lock
        BY <1>4, <2>1, MoveBatch, QuietStep DEF TryLock, Running, Rest, Happened
    <2>2. CASE ~lock
        <3>1. lock' = TRUE /\ Goto(c, "locked") /\ Happened' = Happened
            BY <1>4, <2>2 DEF TryLock, Happened
        <3>2. "overrun" \notin Happened => Batches = {}
            BY <2>2 DEF LockInv
        <3>3. Batches' \subseteq Batches \cup {c}
            BY <3>1 DEF TypeOK, Goto, Batches
        <3> QED BY <3>1, <3>2, <3>3 DEF LockInv
    <2> QED BY <2>1, <2>2
<1>5. ASSUME NEW c \in Calls, Begin(c) PROVE LockInv'
    BY <1>5, MoveBatch, QuietStep DEF Begin, Running, Happened
<1>6. ASSUME NEW c \in Calls, ReadLength(c) PROVE LockInv'
    BY <1>6, MoveBatch, QuietStep DEF ReadLength, Running, Happened
<1>7. ASSUME NEW c \in Calls, RenameList(c) PROVE LockInv'
    BY <1>7, MoveBatch, QuietStep DEF RenameList, Running, Happened
<1>8. ASSUME NEW c \in Calls, ReadTemp(c) PROVE LockInv'
    BY <1>8, MoveBatch, QuietStep DEF ReadTemp, Running, Happened
<1>9. ASSUME NEW c \in Calls, InsertChunk(c) PROVE LockInv'
    BY <1>9, MoveBatch, QuietStep DEF InsertChunk, Running, Happened
<1>10. ASSUME NEW c \in Calls, InsertFails(c) PROVE LockInv'
    BY <1>10, MoveBatch, QuietStep, FaultHappens DEF InsertFails, Running
<1>11. ASSUME NEW c \in Calls, DeleteTemp(c) PROVE LockInv'
    BY <1>11, MoveBatch, QuietStep DEF DeleteTemp, Running, Happened
<1>12. ASSUME NEW c \in Calls, Finish(c) PROVE LockInv'
    BY <1>12, MoveBatch, QuietStep DEF Finish, Running, Rest, Happened
<1>13. ASSUME NEW d \in DelReqs, FindMessage(d) \/ FindBuffered(d) \/ MarkBuffered(d)
              \/ FindCached(d) \/ MarkCached(d) \/ CommitDelete(d)
       PROVE LockInv'
    <2>1. pc' = pc /\ lock' = lock /\ faults' = faults
        BY <1>13 DEF FindMessage, FindBuffered, MarkBuffered, FindCached, MarkCached,
                     CommitDelete
    <2> QED BY <2>1 DEF LockInv, Batches, Happened
<1>14. ASSUME NEW d \in DelReqs, CommitFails(d) PROVE LockInv'
    <2>1. pc' = pc /\ lock' = lock /\ Fault("dbError")
        BY <1>14 DEF CommitFails
    <2> QED BY <2>1, FaultHappens DEF LockInv, Batches
<1>15. ASSUME NEW p \in Procs, Crash(p) PROVE LockInv'
    <2>1. lock' = lock /\ Fault("crash")
        BY <1>15 DEF Crash
    <2>2. \A c \in Calls : pc'[c] = pc[c] \/ pc'[c] = Rest(c)
        BY <1>15 DEF Crash, TypeOK
    <2>3. Batches' \subseteq Batches
        BY <2>2 DEF Batches, Running, Rest
    <2> QED BY <2>1, <2>3, FaultHappens, QuietStep
<1>16. CASE LockExpires
    BY <1>16 DEF LockExpires, LockInv, Batches, Happened
<1>17. CASE LockOverrun
    <2>1. "overrun" \in Happened'
        BY <1>17, FaultHappens DEF LockOverrun
    <2> QED BY <2>1 DEF LockInv
<1>18. CASE UNCHANGED vars
    BY <1>18 DEF vars, LockInv, Batches, Happened
<1> QED BY <1>1, <1>2, <1>3, <1>4, <1>5, <1>6, <1>7, <1>8, <1>9, <1>10, <1>11,
           <1>12, <1>13, <1>14, <1>15, <1>16, <1>17, <1>18
        DEF Next, BatchStep, DeleteStep

LEMMA LockInvSuffices == LockInv => SingleBatch
<1> SUFFICES ASSUME LockInv, "overrun" \notin Happened
             PROVE  Cardinality(Batches) <= 1
    BY DEF SingleBatch
<1>1. CASE Batches = {}
    BY <1>1, FS_EmptySet
<1>2. CASE Batches # {}
    <2>1. PICK c \in Batches : Batches = {c}
        BY <1>2 DEF LockInv
    <2>2. Cardinality({c}) = 1 BY FS_Singleton
    <2> QED BY <2>1, <2>2
<1> QED BY <1>1, <1>2

(* Two processes never run a batch at once while every batch ends within   *)
(* the TTL of its lock, crashes and failed INSERTs included.               *)
THEOREM BatchesExclude == Spec => []SingleBatch
<1>1. Init => TypeOK /\ LockInv BY InitTypeOK, InitLockInv
<1>2. TypeOK /\ LockInv /\ [Next]_vars => (TypeOK /\ LockInv)'
    BY NextTypeOK, NextLockInv
<1>3. LockInv => SingleBatch BY LockInvSuffices
<1> QED BY <1>1, <1>2, <1>3, PTL DEF Spec

---------------------------------------------------------------------------
(* Rows are permanent: no step of the pipeline, overlapping batches        *)
(* included, removes a message row or clears its is_deleted.               *)

LEMMA StepAdvancesRows ==
    ASSUME TypeOK, [Next]_vars
    PROVE  \A m \in Messages : row[m] # "absent" => row'[m] \in {row[m], "deleted"}
<1> USE DEF mysql
<1>1. ASSUME NEW c \in Calls, InsertChunk(c)
      PROVE  \A m \in Messages : row[m] # "absent" => row'[m] = row[m]
    BY <1>1 DEF InsertChunk, InsertRows, InsertLogs
<1>2. ASSUME NEW d \in DelReqs, CommitDelete(d)
      PROVE  \A m \in Messages : row'[m] \in {row[m], "deleted"}
    BY <1>2 DEF CommitDelete, TypeOK
<1>3. ASSUME NEW m \in Messages, Push(m) \/ CheckLength(m) PROVE row' = row
    BY <1>3 DEF Push, CheckLength
<1>4. ASSUME NEW p \in Procs, CronTick(p) \/ Crash(p) PROVE row' = row
    BY <1>4 DEF CronTick, Crash
<1>5. ASSUME NEW c \in Calls, BatchStep(c), ~InsertChunk(c) PROVE row' = row
    BY <1>5 DEF BatchStep, TryLock, Begin, ReadLength, RenameList, ReadTemp, InsertFails,
                DeleteTemp, Finish
<1>6. ASSUME NEW d \in DelReqs, DeleteStep(d), ~CommitDelete(d) PROVE row' = row
    BY <1>6 DEF DeleteStep, FindMessage, FindBuffered, MarkBuffered, FindCached, MarkCached,
                CommitFails
<1>7. CASE LockExpires \/ LockOverrun \/ UNCHANGED vars
    BY <1>7 DEF LockExpires, LockOverrun, vars
<1> QED BY <1>1, <1>2, <1>3, <1>4, <1>5, <1>6, <1>7 DEF Next

(* A row, once inserted, stays, and a deleted one stays deleted.           *)
THEOREM RowsArePermanent == Spec => RowsOnlyAdvance
<1>1. TypeOK /\ [Next]_vars =>
        [\A m \in Messages : row[m] # "absent" => row'[m] \in {row[m], "deleted"}]_vars
    BY StepAdvancesRows
<1> QED BY <1>1, TypeCorrect, PTL DEF Spec, RowsOnlyAdvance
=============================================================================
