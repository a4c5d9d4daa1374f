----------------------- MODULE MessageBuffer_deletion -----------------------
(***************************************************************************)
(* Proofs about deleteMessage: what a deletion leaves in MySQL and on its  *)
(* way there, whatever batches, other deletions and faults do meanwhile;   *)
(* that the pipeline with its deletions takes the steps of MessageLife; and *)
(* when the room cache keeps what it should.                               *)
(***************************************************************************)
EXTENDS MessageBuffer_delivery, FunctionTheorems

---------------------------------------------------------------------------
(* Only the author's calls change a message                                *)

(* A call that goes on to mark the buffer or the row is one of the author. *)
OwnCalls == \A d \in DelReqs : dpc[d] \in {"bufSet", "commit"} \/ viaDb[d] => Own[d]

LEMMA NextOwnCalls == TypeOK /\ OwnCalls /\ [Next]_vars => OwnCalls'
<1> SUFFICES ASSUME TypeOK, OwnCalls, [Next]_vars, NEW d \in DelReqs,
                    dpc'[d] \in {"bufSet", "commit"} \/ viaDb'[d]
             PROVE  Own[d]
    BY DEF OwnCalls
<1> USE DEF deletes, DGoto, TypeOK, OwnCalls
<1>1. ASSUME NEW m \in Messages, Push(m) \/ CheckLength(m) PROVE Own[d]
    BY <1>1 DEF Push, CheckLength
<1>2. ASSUME NEW p \in Procs, CronTick(p) PROVE Own[d]
    BY <1>2 DEF CronTick
<1>3. ASSUME NEW p \in Procs, Crash(p) PROVE Own[d]
    BY <1>3 DEF Crash
<1>4. ASSUME NEW c \in Calls, BatchStep(c) PROVE Own[d]
    BY <1>4 DEF BatchStep, TryLock, Begin, ReadLength, RenameList, ReadTemp, InsertChunk,
                InsertFails, DeleteTemp, Finish
<1>5. ASSUME NEW x \in DelReqs, DeleteStep(x) PROVE Own[d]
    <2>1. CASE x # d
        BY <1>5, <2>1 DEF DeleteStep, FindMessage, FindBuffered, MarkBuffered, FindCached,
                          MarkCached, CommitDelete, CommitFails
    <2>2. CASE FindMessage(d) BY <2>2, RequestsAssumption DEF FindMessage
    <2>3. CASE FindBuffered(d) BY <2>3 DEF FindBuffered
    <2>4. CASE MarkBuffered(d) \/ FindCached(d) \/ MarkCached(d)
        BY <2>4 DEF MarkBuffered, FindCached, MarkCached, AfterCache
    <2>5. CASE CommitDelete(d) \/ CommitFails(d)
        BY <2>5 DEF CommitDelete, CommitFails
    <2> QED BY <1>5, <2>1, <2>2, <2>3, <2>4, <2>5 DEF DeleteStep
<1>6. CASE LockExpires \/ LockOverrun \/ UNCHANGED vars
    BY <1>6 DEF LockExpires, LockOverrun, vars
<1> QED BY <1>1, <1>2, <1>3, <1>4, <1>5, <1>6 DEF Next

LEMMA InitOwn == Init => OwnCalls /\ OnlyOwnDeletes
<1> SUFFICES ASSUME Init PROVE OwnCalls /\ OnlyOwnDeletes OBVIOUS
<1>1. \A k \in Keys : Waiting(k) = {} BY WaitingIs, ElementsOfEmpty DEF Init
<1>2. \A m \in Messages : Deleted(m) \in Entry BY EntryTypes
<1> QED BY <1>1, <1>2 DEF Init, OwnCalls, OnlyOwnDeletes

LEMMA NextOwn ==
    TypeOK /\ PipeInv /\ OwnCalls /\ OnlyOwnDeletes /\ [Next]_vars => OnlyOwnDeletes'
<1> SUFFICES ASSUME TypeOK, PipeInv, OwnCalls, OnlyOwnDeletes, [Next]_vars,
                    NEW m \in Messages, \A d \in DelReqs : Target[d] = m => ~Own[d]
             PROVE  /\ row'[m] # "deleted" /\ logTable'[Deleted(m)] = 0
                    /\ \A k \in Keys : Deleted(m) \notin Waiting(k)'
    BY DEF OnlyOwnDeletes
<1>0. /\ Deleted(m) \in Entry /\ Deleted(m).id = m
      /\ \A x \in Messages : Deleted(m) # Live(x) /\ (Deleted(m) = Deleted(x) => m = x)
    BY EntryTypes DEF Live, Deleted
<1>1. /\ row[m] # "deleted" /\ logTable[Deleted(m)] = 0
      /\ \A k \in Keys : Deleted(m) \notin Waiting(k)
    BY DEF OnlyOwnDeletes
<1>2. ASSUME NEW d \in DelReqs, MarkBuffered(d) \/ CommitDelete(d) PROVE Target[d] # m
    BY <1>2 DEF MarkBuffered, CommitDelete, OwnCalls
<1>3. row'[m] # "deleted" BY <1>1, <1>2, RowFrom DEF Keys
<1>4. logTable'[Deleted(m)] = 0
    <2> SUFFICES ASSUME logTable'[Deleted(m)] # logTable[Deleted(m)] PROVE FALSE BY <1>1
    <2>1. PICK c \in Calls : key[c] = "logs" /\ Deleted(m) \in Elements(data[c])
        BY <1>0, <1>2, LogFrom, RequestsAssumption
    <2> QED BY <1>1, <2>1, WaitingIs DEF Keys
<1>5. \A k \in Keys : Deleted(m) \notin Waiting(k)'
    BY <1>0, <1>1, <1>2, WaitingGrows, RequestsAssumption
<1> QED BY <1>3, <1>4, <1>5

(* A deleteMessage call whose room or user is not the message's changes     *)
(* neither the row nor its logs nor what the buffers hold of them.         *)
THEOREM OwnDeletesOnly == Spec => []OnlyOwnDeletes
<1>1. Init => TypeOK /\ PipeInv /\ OwnCalls /\ OnlyOwnDeletes
    BY InitTypeOK, InitPipeInv, InitOwn
<1>2. TypeOK /\ PipeInv /\ OwnCalls /\ OnlyOwnDeletes /\ [Next]_vars
        => (TypeOK /\ PipeInv /\ OwnCalls /\ OnlyOwnDeletes)'
    BY NextTypeOK, NextPipeInv, NextOwnCalls, NextOwn
<1> QED BY <1>1, <1>2, PTL DEF Spec

---------------------------------------------------------------------------
(* The audit trail                                                         *)

Audited(m) == logTable[Deleted(m)] > 0 \/ Deleted(m) \in Waiting("logs")

(* A deletion that has reached the row, or waits to, has its log: MULTI     *)
(* pushes both, the transaction commits both.                              *)
AuditInv ==
    \A m \in Messages \ atRisk :
        row[m] = "deleted" \/ Deleted(m) \in Waiting("messages") => Audited(m)

LEMMA InitAudit == Init => AuditInv
<1> SUFFICES ASSUME Init PROVE AuditInv OBVIOUS
<1>1. Waiting("messages") = {} BY WaitingIs, ElementsOfEmpty DEF Init, Keys
<1> QED BY <1>1 DEF Init, AuditInv

LEMMA NextAudit == TypeOK /\ PipeInv /\ AuditInv /\ [Next]_vars => AuditInv'
<1> SUFFICES ASSUME TypeOK, PipeInv, AuditInv, [Next]_vars, NEW m \in Messages, m \notin atRisk',
                    row'[m] = "deleted" \/ Deleted(m) \in Waiting("messages")'
             PROVE  Audited(m)'
    BY DEF AuditInv
<1>0. /\ m \notin atRisk /\ Deleted(m) \in Entry /\ Deleted(m).id = m
      /\ \A x \in Messages : Deleted(m) # Live(x) /\ (Deleted(m) = Deleted(x) => m = x)
      /\ {"messages", "logs"} \subseteq Keys
    BY RiskGrows, EntryTypes DEF Live, Deleted, Keys
<1>1. CASE Audited(m)
    <2>1. CASE logTable[Deleted(m)] > 0
        BY <1>0, <2>1, StoredStays DEF Audited, Stored
    <2>2. CASE Deleted(m) \in Waiting("logs")
        BY <1>0, <2>2, WaitingStays DEF Audited, Stored
    <2> QED BY <1>1, <2>1, <2>2 DEF Audited
<1>2. CASE ~Audited(m)
    <2>1. row[m] # "deleted" /\ Deleted(m) \notin Waiting("messages")
        BY <1>0, <1>2 DEF AuditInv
    <2>2. \E d \in DelReqs : Target[d] = m /\ (MarkBuffered(d) \/ CommitDelete(d))
        <3>1. CASE row'[m] = "deleted" BY <2>1, <3>1, RowFrom
        <3>2. CASE Deleted(m) \in Waiting("messages")'
            BY <1>0, <2>1, <3>2, WaitingGrows, RequestsAssumption
        <3> QED BY <3>1, <3>2
    <2>3. ASSUME NEW d \in DelReqs, Target[d] = m, MarkBuffered(d) PROVE Audited(m)'
        <3>1. buffer'["logs"] = Append(buffer["logs"], Deleted(m)) /\ buffer["logs"] \in Seq(Entry)
            BY <1>0, <2>3 DEF MarkBuffered, TypeOK
        <3>2. Deleted(m) \in Elements(buffer'["logs"])
            BY <1>0, <3>1, ElementsOfAppend
        <3> QED BY <3>2, WaitingIs DEF Audited
    <2>4. ASSUME NEW d \in DelReqs, Target[d] = m, CommitDelete(d) PROVE Audited(m)'
        BY <1>0, <2>4 DEF CommitDelete, Audited, TypeOK
    <2> QED BY <2>2, <2>3, <2>4
<1> QED BY <1>1, <1>2

(* No message is found deleted without its DELETE log, stored or on its    *)
(* way, unless a fault touched it.                                         *)
THEOREM DeletionsAudited == Spec => []DeletionLogged
<1>1. Init => TypeOK /\ PipeInv /\ AuditInv
    BY InitTypeOK, InitPipeInv, InitAudit
<1>2. TypeOK /\ PipeInv /\ AuditInv /\ [Next]_vars => (TypeOK /\ PipeInv /\ AuditInv)'
    BY NextTypeOK, NextPipeInv, NextAudit
<1>3. AuditInv => DeletionLogged
    BY DEF AuditInv, Audited, DeletionLogged
<1> QED BY <1>1, <1>2, <1>3, PTL DEF Spec
---------------------------------------------------------------------------
(* What a deletion has done                                                *)

(* At most one position of s holds a copy of m. *)
OneCopy(s, m) == \A i, j \in 1..Len(s) : s[i].id = m /\ s[j].id = m => i = j

(* Unless it was exposed, a message still in the buffer is there once, is   *)
(* nowhere else, and no live row was made of it.                           *)
BufferedApart(m) ==
    /\ OneCopy(buffer["messages"], m)
    /\ m \in Ids(buffer["messages"]) =>
         /\ row[m] # "live" /\ m \notin Ids(temp["messages"])
         /\ \A c \in Calls : key[c] = "messages" => m \notin Ids(data[c])

BufferedInv ==
    /\ \A m \in Messages \ atRisk : BufferedApart(m)
    /\ \A d \in hit : Target[d] \in Accepted

LEMMA OneCopyAppend ==
    ASSUME NEW s \in Seq(Entry), NEW x \in Entry, NEW m, OneCopy(s, m),
           x.id # m \/ m \notin Ids(s)
    PROVE  OneCopy(Append(s, x), m)
<1>1. /\ Len(Append(s, x)) = Len(s) + 1 /\ Append(s, x)[Len(s) + 1] = x
      /\ \A i \in 1..Len(s) : Append(s, x)[i] = s[i] /\ (s[i].id = m => m \in Ids(s))
    BY DEF Ids, Elements
<1>2. Len(s) \in Nat /\ 1..(Len(s) + 1) = 1..Len(s) \cup {Len(s) + 1}
    OBVIOUS
<1> QED BY <1>1, <1>2 DEF OneCopy

(* An LSET over another message, or over a copy of x itself, leaves m alone. *)
LEMMA OneCopySetAt ==
    ASSUME NEW s \in Seq(Entry), NEW i \in Nat, NEW x \in Entry, NEW m, OneCopy(s, m),
           i \in 1..Len(s) => (s[i].id = m <=> x.id = m)
    PROVE  /\ OneCopy(SetAt(s, i, x), m)
           /\ m \in Ids(SetAt(s, i, x)) <=> m \in Ids(s)
<1>1. CASE i \notin 1..Len(s) BY <1>1 DEF SetAt
<1>2. CASE i \in 1..Len(s)
    <2> DEFINE t == [s EXCEPT ![i] = x]
    <2>1. Len(t) = Len(s) /\ \A j \in 1..Len(s) : t[j].id = m <=> s[j].id = m
        BY <1>2
    <2>2. SetAt(s, i, x) = t BY <1>2 DEF SetAt
    <2> HIDE DEF t
    <2>3. OneCopy(t, m) BY <2>1 DEF OneCopy
    <2>4. \A u : m \in Ids(u) <=> \E j \in 1..Len(u) : u[j].id = m
        BY DEF Ids, Elements
    <2> QED BY <2>1, <2>2, <2>3, <2>4
<1> QED BY <1>1, <1>2

LEMMA InitBuffered == Init => BufferedInv
BY DEF Init, BufferedInv, BufferedApart, OneCopy, Ids, Elements, Keys

(* A live row that was not there is inserted from the rows a batch holds.  *)
LEMMA LiveRowFrom ==
    ASSUME TypeOK, [Next]_vars, NEW m \in Messages, row'[m] = "live", row[m] # "live"
    PROVE  \E c \in Calls : InsertChunk(c) /\ key[c] = "messages" /\ m \in Ids(data[c])
<1>1. PICK c \in Calls : InsertChunk(c) BY RowFrom
<1> DEFINE l == IF ChunkSize < Len(data[c]) THEN ChunkSize ELSE Len(data[c])
           chunk == SubSeq(data[c], 1, l)
<1>2. key[c] = "messages" /\ InsertRows(chunk)
    BY <1>1 DEF InsertChunk, InsertLogs
<1>3. m \in Ids(chunk) BY <1>2 DEF InsertRows, TypeOK
<1>4. data[c] \in Seq(Entry) /\ l \in 0..Len(data[c]) BY SizesAssumption DEF TypeOK
<1>5. Elements(chunk) \subseteq Elements(data[c]) BY <1>4, ElementsOfParts
<1> HIDE DEF chunk
<1> QED BY <1>1, <1>2, <1>3, <1>5 DEF Ids

LEMMA NextBuffered ==
    TypeOK /\ PipeInv /\ KnownInv /\ BufferedInv /\ [Next]_vars
        => \A m \in Messages \ atRisk' : BufferedApart(m)'
<1> SUFFICES ASSUME TypeOK, PipeInv, KnownInv, BufferedInv, [Next]_vars,
                    NEW m \in Messages, m \notin atRisk'
             PROVE  BufferedApart(m)'
    OBVIOUS
<1> USE DEF redis, batches, deletes
<1> DEFINE B == buffer["messages"]
           T == temp["messages"]
<1>0. /\ "messages" \in Keys /\ m \notin atRisk
      /\ B \in Seq(Entry) /\ T \in Seq(Entry) /\ \A c \in Calls : data[c] \in Seq(Entry)
    BY RiskGrows DEF TypeOK, Keys
<1>1. /\ OneCopy(B, m)
      /\ m \in Ids(B) =>
           /\ row[m] # "live" /\ m \notin Ids(T)
           /\ \A c \in Calls : key[c] = "messages" => m \notin Ids(data[c])
    BY <1>0 DEF BufferedInv, BufferedApart
<1>2. BufferedApart(m)' <=>
      /\ OneCopy(B', m)
      /\ m \in Ids(B') =>
           /\ row'[m] # "live" /\ m \notin Ids(T')
           /\ \A c \in Calls : key'[c] = "messages" => m \notin Ids(data'[c])
    BY DEF BufferedApart
<1>3. Ids(<<>>) = {} BY ElementsOfEmpty DEF Ids
<1>4. m \in Ids(B) => row'[m] # "live" BY <1>1, LiveRowFrom
<1>5. CASE ~Moves
    <2>1. Quiet BY <1>5, QuietOrMoves
    <2> QED BY <1>1, <1>2, <1>4, <2>1 DEF Quiet
<1>6. ASSUME NEW x \in Messages, Push(x) PROVE BufferedApart(m)'
    <2>1. /\ row' = row /\ T' = T /\ key' = key /\ data' = data /\ B' = Append(B, Live(x))
        BY <1>0, <1>6 DEF Push, mysql
    <2>2. Live(x) \in Entry /\ Live(x).id = x BY EntryTypes DEF Live
    <2>3. Ids(B') = Ids(B) \cup {x} BY <1>0, <2>1, <2>2, ElementsOfAppend DEF Ids
    <2>4. CASE x = m
        <3>1. m \notin Accepted BY <1>6, <2>4 DEF Push, Accepted
        <3>2. row[m] = "absent" /\ \A e \in Waiting("messages") : e.id # m
            BY <1>0, <3>1 DEF KnownInv
        <3>3. m \notin Ids(B) /\ m \notin Ids(T)
              /\ \A c \in Calls : key[c] = "messages" => m \notin Ids(data[c])
            BY <3>2, WaitingIs DEF Ids
        <3>4. OneCopy(B', m) BY <1>0, <1>1, <2>1, <2>2, <3>3, OneCopyAppend
        <3> HIDE DEF B, T
        <3> QED BY <1>2, <2>1, <3>2, <3>3, <3>4
    <2>5. CASE x # m
        <3>1. OneCopy(B', m) BY <1>0, <1>1, <2>1, <2>2, <2>5, OneCopyAppend
        <3> HIDE DEF B, T
        <3> QED BY <1>1, <1>2, <2>1, <2>3, <2>5, <3>1
    <2> QED BY <2>4, <2>5
<1>7. ASSUME NEW c \in Calls, RenameList(c) PROVE BufferedApart(m)'
    <2>1. data' = data /\ key' = key /\ row' = row BY <1>7 DEF RenameList, mysql
    <2>2. B' = <<>> \/ (B' = B /\ T' = T)
        BY <1>0, <1>7 DEF RenameList, TypeOK
    <2> HIDE DEF B, T
    <2>3. OneCopy(<<>>, m) BY DEF OneCopy
    <2> QED BY <1>1, <1>2, <1>3, <2>1, <2>2, <2>3
<1>8. ASSUME NEW c \in Calls, ReadTemp(c) PROVE BufferedApart(m)'
    <2>1. /\ B' = B /\ T' = T /\ key' = key /\ row' = row /\ data'[c] = temp[key[c]]
          /\ \A b \in Calls : b # c => data'[b] = data[b]
        BY <1>8 DEF ReadTemp, mysql, TypeOK
    <2> HIDE DEF B
    <2> QED BY <1>1, <1>2, <2>1
<1>9. ASSUME NEW c \in Calls, InsertChunk(c) PROVE BufferedApart(m)'
    <2>1. B' = B /\ T' = T /\ key' = key BY <1>9 DEF InsertChunk
    <2>2. \A b \in Calls : Ids(data'[b]) \subseteq Ids(data[b])
        BY <1>9, InsertStores DEF Ids
    <2> HIDE DEF B, T
    <2> QED BY <1>1, <1>2, <1>4, <2>1, <2>2
<1>10. ASSUME NEW c \in Calls, InsertFails(c) PROVE BufferedApart(m)'
    <2>1. /\ B' = B /\ T' = T /\ key' = key
          /\ \A b \in Calls : data'[b] \in {<<>>, data[b]}
        BY <1>10 DEF InsertFails, TypeOK
    <2> HIDE DEF B, T
    <2> QED BY <1>1, <1>2, <1>3, <1>4, <2>1
<1>11. ASSUME NEW c \in Calls, DeleteTemp(c) PROVE BufferedApart(m)'
    <2>1. /\ B' = B /\ T' \in {<<>>, T} /\ data' = data /\ data[c] = <<>>
          /\ \A b \in Calls : b # c => key'[b] = key[b]
        BY <1>0, <1>11 DEF DeleteTemp, TypeOK, PipeInv
    <2> HIDE DEF B, T
    <2> QED BY <1>1, <1>2, <1>3, <1>4, <2>1
<1>12. ASSUME NEW c \in Calls, Finish(c) PROVE BufferedApart(m)'
    <2>1. /\ B' = B /\ T' = T /\ data' = data /\ data[c] = <<>>
          /\ \A b \in Calls : b # c => key'[b] = key[b]
        BY <1>12 DEF Finish, TypeOK, PipeInv
    <2> HIDE DEF B, T
    <2> QED BY <1>1, <1>2, <1>3, <1>4, <2>1
<1>13. ASSUME NEW d \in DelReqs, MarkBuffered(d) PROVE BufferedApart(m)'
    <2> DEFINE x == Deleted(Target[d])
               i == index[d]
    <2>1. Target[d] \in Messages /\ x \in Entry /\ x.id = Target[d] /\ i \in Nat
        BY RequestsAssumption, EntryTypes DEF Deleted, TypeOK
    <2>2. /\ T' = T /\ key' = key /\ data' = data /\ row' = row /\ B' = SetAt(B, i, x)
        BY <1>0, <1>13 DEF MarkBuffered, mysql, TypeOK
    <2>3. i \in 1..Len(B) => (B[i].id = m <=> x.id = m)
        BY <1>13, <2>1 DEF MarkBuffered
    <2>4. OneCopy(B', m) /\ (m \in Ids(B') <=> m \in Ids(B))
        BY <1>0, <1>1, <2>1, <2>2, <2>3, OneCopySetAt
    <2> HIDE DEF B, T
    <2> QED BY <1>1, <1>2, <2>2, <2>4
<1>14. ASSUME NEW p \in Procs, Crash(p) PROVE BufferedApart(m)'
    <2>1. /\ B' = B /\ T' = T
          /\ \A c \in Calls : data'[c] = <<>> \/ (data'[c] = data[c] /\ key'[c] = key[c])
        BY <1>14 DEF Crash
    <2> HIDE DEF B, T
    <2> QED BY <1>1, <1>2, <1>3, <1>4, <2>1
<1> QED BY <1>5, <1>6, <1>7, <1>8, <1>9, <1>10, <1>11, <1>12, <1>13, <1>14 DEF Moves

(* Only a call that finds its target where it marks it adds to hit. *)
LEMMA HitFrom ==
    ASSUME TypeOK, [Next]_vars, NEW d \in hit', d \notin hit
    PROVE  /\ d \in DelReqs
           /\ \/ CommitDelete(d)
              \/ /\ MarkBuffered(d) /\ index[d] \in 1..Len(buffer["messages"])
                 /\ buffer["messages"][index[d]].id = Target[d]
<1> USE DEF batches, deletes
<1>1. ASSUME NEW x \in DelReqs, DeleteStep(x), d # x PROVE FALSE
    BY <1>1 DEF DeleteStep, FindMessage, FindBuffered, MarkBuffered, FindCached, MarkCached,
                CommitDelete, CommitFails
<1>2. ASSUME d \in DelReqs, DeleteStep(d), ~CommitDelete(d)
      PROVE  /\ MarkBuffered(d) /\ index[d] \in 1..Len(buffer["messages"])
             /\ buffer["messages"][index[d]].id = Target[d]
    BY <1>2 DEF DeleteStep, FindMessage, FindBuffered, MarkBuffered, FindCached, MarkCached,
                CommitFails
<1>3. ASSUME NEW m \in Messages, Push(m) \/ CheckLength(m) PROVE FALSE
    BY <1>3 DEF Push, CheckLength
<1>4. ASSUME NEW p \in Procs, CronTick(p) \/ Crash(p) PROVE FALSE
    BY <1>4 DEF CronTick, Crash
<1>5. ASSUME NEW c \in Calls, BatchStep(c) PROVE FALSE
    BY <1>5 DEF BatchStep, TryLock, Begin, ReadLength, RenameList, ReadTemp, InsertChunk,
                InsertFails, DeleteTemp, Finish
<1>6. CASE LockExpires \/ LockOverrun \/ UNCHANGED vars
    BY <1>6 DEF LockExpires, LockOverrun, vars
<1>7. d \in DelReqs BY NextTypeOK DEF TypeOK
<1> QED BY <1>1, <1>2, <1>3, <1>4, <1>5, <1>6, <1>7 DEF Next

LEMMA NextHits ==
    TypeOK /\ KnownInv /\ BufferedInv /\ [Next]_vars => \A d \in hit' : Target[d] \in Accepted'
<1> SUFFICES ASSUME TypeOK, KnownInv, BufferedInv, [Next]_vars, NEW d \in hit'
             PROVE  Target[d] \in Accepted'
    OBVIOUS
<1>1. Accepted \subseteq Accepted' BY AcceptedGrows
<1>2. CASE d \in hit BY <1>1, <1>2 DEF BufferedInv
<1>3. CASE d \notin hit
    <2>1. d \in DelReqs /\ dpc[d] # "idle" BY <1>3, HitFrom DEF CommitDelete, MarkBuffered
    <2> QED BY <1>1, <2>1 DEF KnownInv
<1> QED BY <1>2, <1>3

LEMMA NextReaches ==
    ASSUME TypeOK, PipeInv, KnownInv, BufferedInv, DeletionReachesDb, [Next]_vars
    PROVE  DeletionReachesDb'
<1> SUFFICES ASSUME NEW d \in hit', Target[d] \notin atRisk', row'[Target[d]] # "deleted"
             PROVE  row'[Target[d]] = "absent" /\ Live(Target[d]) \notin Waiting("messages")'
    BY DEF DeletionReachesDb
<1> DEFINE m == Target[d]
<1>0. /\ d \in DelReqs /\ m \in Messages /\ m \notin atRisk /\ "messages" \in Keys
      /\ Live(m) \in Entry /\ Live(m).id = m /\ row'[m] \in {"absent", "live", "deleted"}
      /\ \A x \in Messages : Live(m) # Deleted(x) /\ (Live(m) = Live(x) => m = x)
    BY RequestsAssumption, NextTypeOK, RiskGrows, EntryTypes DEF TypeOK, Live, Deleted, Keys
<1>1. CASE d \in hit
    <2>1. row[m] # "deleted" BY <1>0, StepAdvancesRows
    <2>2. row[m] = "absent" /\ Live(m) \notin Waiting("messages")
        BY <1>0, <1>1, <2>1 DEF DeletionReachesDb
    <2>3. row'[m] # "live" BY <1>0, <2>2, RowFrom
    <2>4. m \in Accepted BY <1>1 DEF BufferedInv
    <2>5. ~Push(m) BY <2>4 DEF Push, Accepted
    <2>6. Live(m) \notin Waiting("messages")'
        BY <1>0, <2>2, <2>5, WaitingGrows, RequestsAssumption
    <2> QED BY <1>0, <2>3, <2>6
<1>2. CASE d \notin hit
    <2> DEFINE B == buffer["messages"]
               i == index[d]
    <2>1. ~CommitDelete(d) BY <1>0 DEF CommitDelete, TypeOK
    <2>2. MarkBuffered(d) /\ i \in 1..Len(B) /\ B[i].id = m BY <1>2, <2>1, HitFrom
    <2>3. m \in Ids(B) BY <2>2 DEF Ids, Elements
    <2>4. /\ OneCopy(B, m) /\ row[m] # "live" /\ m \notin Ids(temp["messages"])
          /\ \A c \in Calls : key[c] = "messages" => m \notin Ids(data[c])
        BY <1>0, <2>3 DEF BufferedInv, BufferedApart
    <2>5. /\ row' = row /\ temp' = temp /\ key' = key /\ data' = data
          /\ buffer'["messages"] = [B EXCEPT ![i] = Deleted(m)] /\ B \in Seq(Entry)
        BY <1>0, <2>2 DEF MarkBuffered, mysql, batches, TypeOK, SetAt
    <2>6. Live(m) \notin Elements(buffer'["messages"])
        <3> SUFFICES ASSUME NEW j \in 1..Len(B), [B EXCEPT ![i] = Deleted(m)][j] = Live(m)
                     PROVE  FALSE
            BY <2>5 DEF Elements
        <3>1. j # i /\ B[j] = Live(m) BY <1>0, <2>2, <2>5
        <3> QED BY <1>0, <2>2, <2>4, <3>1 DEF OneCopy
    <2>7. Live(m) \notin Waiting("messages")'
        BY <1>0, <2>4, <2>5, <2>6, WaitingIs DEF Ids
    <2> QED BY <1>0, <2>4, <2>5, <2>7
<1> QED BY <1>1, <1>2

LEMMA InitReaches == Init => DeletionReachesDb
BY DEF Init, DeletionReachesDb

(* A deletion that marked its message prevails: no live copy is left on the *)
(* way that an INSERT could still turn into a live row.                    *)
THEOREM DeletionsPrevail == Spec => []DeletionReachesDb
<1>1. Init => TypeOK /\ PipeInv /\ KnownInv /\ BufferedInv /\ DeletionReachesDb
    BY InitTypeOK, InitPipeInv, InitKnownInv, InitBuffered, InitReaches
<1>2. TypeOK /\ PipeInv /\ KnownInv /\ BufferedInv /\ DeletionReachesDb /\ [Next]_vars
        => (TypeOK /\ PipeInv /\ KnownInv /\ BufferedInv /\ DeletionReachesDb)'
    BY NextTypeOK, NextPipeInv, NextKnownInv, NextBuffered, NextHits, NextReaches
       DEF BufferedInv
<1> QED BY <1>1, <1>2, PTL DEF Spec

---------------------------------------------------------------------------
(* What a deletion misses                                                  *)

(* findIndex finds what the buffer holds. *)
LEMMA FoundAt ==
    ASSUME NEW s \in Seq(Entry), NEW m \in Ids(s)
    PROVE  FirstAt(s, m) # {}
<1> DEFINE at == {i \in 1..Len(s) : s[i].id = m}
<1>1. at # {} BY DEF Ids, Elements
<1>2. PICK i \in at : \A j \in at : i <= j BY <1>1, LeastPosition
<1>3. \A j \in 1..(i - 1) : j \in 1..Len(s) /\ ~(i <= j) BY <1>2
<1> QED BY <1>2, <1>3 DEF FirstAt

(* Where an accepted message is that is neither stored nor in the buffer.  *)
LEMMA InTransit ==
    ASSUME TypeOK, PipeInv, NoLossWithoutFault, NEW m \in Accepted \ atRisk,
           row[m] = "absent", m \notin Ids(buffer["messages"])
    PROVE  Batches # {}
<1>0. "messages" \in Keys BY DEF Keys
<1>1. PICK e \in Waiting("messages") : e.id = m BY DEF NoLossWithoutFault, Pending
<1>2. e \notin Elements(buffer["messages"]) BY <1>1 DEF Ids
<1>3. ~Stored("messages", e) BY <1>1 DEF Stored
<1>4. InHand("messages", e)
    <2>1. CASE e \in Elements(temp["messages"]) BY <1>0, <1>1, <1>3, <2>1 DEF PipeInv
    <2>2. CASE \E c \in Calls : key[c] = "messages" /\ e \in Elements(data[c])
        BY <2>2 DEF InHand
    <2> QED BY <1>1, <1>2, <2>1, <2>2, WaitingIs
<1>5. PICK c \in Calls : pc[c] = "lrange" \/ e \in Elements(data[c]) BY <1>4 DEF InHand
<1>6. pc[c] \in {"lrange", "insert"} BY <1>5, ElementsOfEmpty DEF PipeInv
<1> QED BY <1>6 DEF Batches, Running

(* Only LRANGE of the buffer leads a call from there to the cache. *)
LEMMA MissIs ==
    ASSUME TypeOK, [Next]_vars, NEW d \in DelReqs, dpc[d] = "bufRead", dpc'[d] = "cacheRead"
    PROVE  FindBuffered(d)
<1> USE DEF deletes, DGoto, TypeOK
<1>1. ASSUME NEW m \in Messages, Push(m) \/ CheckLength(m) PROVE FALSE
    BY <1>1 DEF Push, CheckLength
<1>2. ASSUME NEW p \in Procs, CronTick(p) \/ Crash(p) PROVE FALSE
    BY <1>2 DEF CronTick, Crash
<1>3. ASSUME NEW c \in Calls, BatchStep(c) PROVE FALSE
    BY <1>3 DEF BatchStep, TryLock, Begin, ReadLength, RenameList, ReadTemp, InsertChunk,
                InsertFails, DeleteTemp, Finish
<1>4. ASSUME NEW x \in DelReqs, DeleteStep(x) PROVE FindBuffered(d)
    BY <1>4 DEF DeleteStep, FindMessage, FindBuffered, MarkBuffered, FindCached, MarkCached,
                CommitDelete, CommitFails
<1>5. CASE LockExpires \/ LockOverrun \/ UNCHANGED vars
    BY <1>5 DEF LockExpires, LockOverrun, vars
<1> QED BY <1>1, <1>2, <1>3, <1>4, <1>5 DEF Next

(* A call of the author marks nothing only while a batch has the message in *)
(* hand or after it stored the row, unless a fault touched the message.    *)
THEOREM MissesInBatch == Spec => MissesOnlyInBatch
<1> DEFINE Inv == TypeOK /\ PipeInv /\ KnownInv /\ NoLossWithoutFault
           Missed == \A d \in DelReqs :
                dpc[d] = "bufRead" /\ dpc'[d] = "cacheRead" /\ Own[d] =>
                    \/ Target[d] \in atRisk
                    \/ row[Target[d]] # "absent"
                    \/ Batches # {}
<1>1. Init => Inv BY InitTypeOK, InitPipeInv, InitKnownInv, InitDelivery
<1>2. Inv /\ [Next]_vars => Inv'
    BY NextTypeOK, NextPipeInv, NextKnownInv, NextDelivery
<1>3. Inv /\ [Next]_vars => Missed
    <2> SUFFICES ASSUME Inv, [Next]_vars, NEW d \in DelReqs,
                        dpc[d] = "bufRead", dpc'[d] = "cacheRead", Own[d],
                        Target[d] \notin atRisk, row[Target[d]] = "absent"
                 PROVE  Batches # {}
        OBVIOUS
    <2>1. FindBuffered(d) BY MissIs
    <2>2. FirstAt(buffer["messages"], Target[d]) = {}
        BY <2>1 DEF FindBuffered, DGoto, TypeOK
    <2>3. buffer["messages"] \in Seq(Entry) BY DEF TypeOK, Keys
    <2>4. Target[d] \notin Ids(buffer["messages"]) BY <2>2, <2>3, FoundAt
    <2>5. Target[d] \in Accepted BY DEF KnownInv
    <2> QED BY <2>4, <2>5, InTransit
<1>4. Inv /\ [Next]_vars => [Missed]_vars BY <1>3
<1> HIDE DEF Inv
<1> QED BY <1>1, <1>2, <1>4, PTL DEF Spec, MissesOnlyInBatch

---------------------------------------------------------------------------
(* The pipeline implements MessageLife                                     *)

(* A call that goes to MySQL has found a row there, and rows stay.         *)
RowFound ==
    \A d \in DelReqs : /\ dpc[d] = "commit" => viaDb[d]
                       /\ viaDb[d] => row[Target[d]] # "absent"

LEMMA NextRowFound == TypeOK /\ RowFound /\ [Next]_vars => RowFound'
<1> SUFFICES ASSUME TypeOK, RowFound, [Next]_vars, NEW d \in DelReqs
             PROVE  /\ dpc'[d] = "commit" => viaDb'[d]
                    /\ viaDb'[d] => row'[Target[d]] # "absent"
    BY DEF RowFound
<1> DEFINE Found == /\ dpc'[d] = "commit" => viaDb'[d]
                    /\ viaDb'[d] => row[Target[d]] # "absent"
<1>0. (dpc[d] = "commit" => viaDb[d]) /\ (viaDb[d] => row[Target[d]] # "absent")
    BY DEF RowFound
<1> USE DEF deletes
<1>1. ASSUME NEW m \in Messages, Push(m) \/ CheckLength(m) PROVE dpc' = dpc /\ viaDb' = viaDb
    BY <1>1 DEF Push, CheckLength
<1>2. ASSUME NEW p \in Procs, CronTick(p) PROVE dpc' = dpc /\ viaDb' = viaDb
    BY <1>2 DEF CronTick
<1>3. ASSUME NEW p \in Procs, Crash(p) PROVE Found
    <2> DEFINE mine == {x \in DelReqs : ServedBy[x] = p /\ dpc[x] \notin {"idle", "done"}}
    <2>1. /\ dpc'[d] = IF d \in mine THEN "failed" ELSE dpc[d]
          /\ viaDb'[d] = (viaDb[d] /\ d \notin mine)
        BY <1>3 DEF Crash
    <2> HIDE DEF mine
    <2> QED BY <1>0, <2>1
<1>4. ASSUME NEW c \in Calls, BatchStep(c) PROVE dpc' = dpc /\ viaDb' = viaDb
    BY <1>4 DEF BatchStep, TryLock, Begin, ReadLength, RenameList, ReadTemp, InsertChunk,
                InsertFails, DeleteTemp, Finish
<1>5. ASSUME NEW x \in DelReqs, DeleteStep(x) PROVE Found
    <2> USE <1>0 DEF DGoto, TypeOK
    <2>1. CASE x # d
        BY <1>5, <2>1 DEF DeleteStep, FindMessage, FindBuffered, MarkBuffered, FindCached,
                          MarkCached, CommitDelete, CommitFails
    <2>2. CASE FindMessage(d) BY <2>2, RequestsAssumption DEF FindMessage
    <2>3. CASE FindBuffered(d) BY <2>3 DEF FindBuffered
    <2>4. CASE MarkBuffered(d) \/ FindCached(d) \/ MarkCached(d)
        BY <2>4 DEF MarkBuffered, FindCached, MarkCached, AfterCache
    <2>5. CASE CommitDelete(d) \/ CommitFails(d)
        BY <2>5 DEF CommitDelete, CommitFails
    <2> QED BY <1>5, <2>1, <2>2, <2>3, <2>4, <2>5 DEF DeleteStep
<1>6. ASSUME LockExpires \/ LockOverrun \/ UNCHANGED vars PROVE dpc' = dpc /\ viaDb' = viaDb
    BY <1>6 DEF LockExpires, LockOverrun, vars
<1>7. ASSUME dpc' = dpc, viaDb' = viaDb PROVE Found BY <1>0, <1>7
<1> HIDE DEF Found
<1>8. Found BY <1>1, <1>2, <1>3, <1>4, <1>5, <1>6, <1>7 DEF Next
<1>9. Target[d] \in Messages BY RequestsAssumption
<1> QED BY <1>8, <1>9, StepAdvancesRows DEF Found

(* What the refinement needs of every state. *)
LifeInv ==
    /\ TypeOK /\ PipeInv /\ KnownInv /\ NoLossWithoutFault
    /\ OwnCalls /\ OnlyOwnDeletes /\ RowFound

(* The messages whose authors delete them. *)
Named == {Target[d] : d \in {x \in DelReqs : Own[x]}}

LEMMA LifeOfIs ==
    ASSUME TypeOK, TypeOK', NEW m \in Messages
    PROVE  /\ LifeOf(m) = IF m \notin Accepted THEN "unsent"
                          ELSE IF row[m] = "live" THEN "stored"
                          ELSE IF row[m] = "deleted" THEN "deleted"
                          ELSE IF m \in Pending("messages") THEN "pending" ELSE "lost"
           /\ LifeOf(m)' = IF m \notin Accepted' THEN "unsent"
                           ELSE IF row'[m] = "live" THEN "stored"
                           ELSE IF row'[m] = "deleted" THEN "deleted"
                           ELSE IF m \in Pending("messages")' THEN "pending" ELSE "lost"
           /\ LifeOf(m)' \in Life!Stages
           /\ LifeOf(m) = "lost" => m \in Accepted /\ row[m] = "absent" /\ m \notin Pending("messages")
           /\ LifeOf(m)' = "lost" =>
                m \in Accepted' /\ row'[m] = "absent" /\ m \notin Pending("messages")'
<1>1. row[m] \in {"absent", "live", "deleted"} /\ row'[m] \in {"absent", "live", "deleted"}
    BY DEF TypeOK
<1> QED BY <1>1 DEF LifeOf, Life!Stages

(* The first state is the first state of MessageLife. *)
LEMMA InitLife == Init => Life!Init
<1> SUFFICES ASSUME Init PROVE Life!Init OBVIOUS
<1>1. \A m \in Messages : m \notin Accepted
    BY ProcsAssumption DEF Init, Accepted, Calls
<1>2. \A m \in Messages : LifeOf(m) = "unsent" BY <1>1 DEF LifeOf
<1> QED BY <1>2 DEF Init, Life!Init

(* The MULTI of a message is Send. *)
LEMMA PushSends ==
    ASSUME LifeInv, LifeInv', NEW x \in Messages, Push(x),
           x \notin Accepted, Accepted' = Accepted \cup {x}
    PROVE  Life!Send
<1> USE DEF LifeInv
<1>1. row' = row /\ temp' = temp /\ key' = key /\ data' = data /\ "messages" \in Keys
    BY DEF Push, mysql, Keys
<1>2. Elements(buffer'["messages"]) = Elements(buffer["messages"]) \cup {Live(x)}
    BY <1>1, ElementsOfAppend, EntryTypes DEF Push, TypeOK
<1>3. Pending("messages")' = Pending("messages") \cup {x}
    <2>1. \A e : e \in Waiting("messages")' <=> e \in Waiting("messages") \/ e = Live(x)
        BY <1>1, <1>2, WaitingIs
    <2>2. Live(x).id = x BY DEF Live
    <2>3. \A m : m \in Pending("messages")' <=> \E e \in Waiting("messages")' : e.id = m
        BY DEF Pending
    <2>4. \A m : m \in Pending("messages") <=> \E e \in Waiting("messages") : e.id = m
        BY DEF Pending
    <2> QED BY <2>1, <2>2, <2>3, <2>4
<1>4. row[x] = "absent" BY DEF KnownInv
<1>5. \A m \in Messages \ {x} : LifeOf(m)' = LifeOf(m)
    BY <1>1, <1>3, LifeOfIs
<1>6. LifeOf(x) = "unsent" /\ LifeOf(x)' = "pending" BY <1>1, <1>3, <1>4, LifeOfIs
<1>7. atRisk' \in {atRisk, atRisk \cup {x}} BY DEF Push
<1>8. \A m \in Messages : LifeOf(m)' \in Life!Stages BY LifeOfIs
<1> QED BY <1>5, <1>6, <1>7, <1>8 DEF Life!Send, Life!Only, Life!Goes

(* A chunk of rows is Store. *)
LEMMA InsertStoresLife ==
    ASSUME LifeInv, LifeInv', [Next]_vars, NEW c \in Calls, InsertChunk(c), Accepted' = Accepted
    PROVE  Life!Store
<1> USE DEF LifeInv
<1> DEFINE S == {m \in Messages : LifeOf(m)' # LifeOf(m)}
<1>1. key' = key /\ buffer' = buffer /\ temp' = temp /\ atRisk' = atRisk /\ "messages" \in Keys
    BY DEF InsertChunk, redis, Keys
<1>2. \A b \in Calls : b # c => data'[b] = data[b]
    BY InsertStores
<1>3. /\ Elements(data'[c]) \subseteq Elements(data[c])
      /\ \A e \in Elements(data[c]) : e \in Elements(data'[c]) \/ Stored(key[c], e)'
    BY InsertStores
<1>4. \A e \in Waiting("messages") : e \in Waiting("messages")' \/ Stored("messages", e)'
    BY <1>1, <1>2, <1>3, WaitingIs
<1>5. \A e \in Waiting("messages")' : e \in Waiting("messages")
    BY <1>1, <1>2, <1>3, WaitingIs
<1>6. \A d \in DelReqs : ~CommitDelete(d)
    BY DEF CommitDelete, InsertChunk, deletes, DGoto, TypeOK
<1>7. ASSUME NEW m \in S
      PROVE  /\ LifeOf(m) = "pending"
             /\ LifeOf(m)' = "stored" \/ (LifeOf(m)' = "deleted" /\ m \in Named)
    <2>0. /\ m \in Messages /\ Live(m).id = m /\ Deleted(m).id = m
          /\ row[m] \in {"absent", "live", "deleted"} /\ row'[m] \in {"absent", "live", "deleted"}
        BY DEF Live, Deleted, TypeOK
    <2>1. m \in Pending("messages") => m \in Pending("messages")' \/ row'[m] # "absent"
        BY <1>4 DEF Pending, Stored
    <2>2. m \in Pending("messages")' => m \in Pending("messages")
        BY <1>5 DEF Pending
    <2>3. row'[m] # row[m] BY <2>0, <2>1, <2>2, LifeOfIs
    <2>4. /\ row[m] = "absent"
          /\ row'[m] = "live" => Live(m) \in Waiting("messages")
          /\ row'[m] = "deleted" => Deleted(m) \in Waiting("messages")
        BY <1>6, <2>0, <2>3, RowFrom
    <2>5. m \in Pending("messages") BY <2>0, <2>3, <2>4 DEF Pending
    <2>6. row'[m] = "deleted" => m \in Named
        <3>1. SUFFICES ASSUME Deleted(m) \in Waiting("messages") PROVE m \in Named BY <2>4
        <3>2. ~(\A d \in DelReqs : Target[d] = m => ~Own[d])
            BY <1>1, <2>0, <3>1 DEF OnlyOwnDeletes
        <3> QED BY <3>2 DEF Named
    <2>7. m \in Accepted BY <2>0, <2>3, <2>4, <1>1 DEF KnownInv
    <2>8. LifeOf(m) = "pending" BY <2>0, <2>4, <2>5, <2>7, LifeOfIs
    <2>9. row'[m] = "live" \/ row'[m] = "deleted" BY <2>0, <2>3, <2>4
    <2>10. LifeOf(m)' = IF row'[m] = "live" THEN "stored" ELSE "deleted"
        BY <2>0, <2>7, <2>9, LifeOfIs
    <2> QED BY <2>6, <2>8, <2>9, <2>10
<1>8. \A m \in Messages \ S : LifeOf(m)' = LifeOf(m) OBVIOUS
<1>9. \A m \in Messages : LifeOf(m)' \in Life!Stages BY LifeOfIs
<1>10. S \in SUBSET Messages OBVIOUS
<1> HIDE DEF S
<1> QED BY <1>1, <1>7, <1>8, <1>9, <1>10 DEF Life!Store, Life!Only, Life!Goes, Named

(* The transaction of a deletion is Delete, or finds its row deleted.      *)
LEMMA CommitDeletesLife ==
    ASSUME LifeInv, LifeInv', NEW d \in DelReqs, CommitDelete(d), Accepted' = Accepted
    PROVE  Life!Delete \/ UNCHANGED Life!vars
<1> USE DEF LifeInv
<1> DEFINE t == Target[d]
<1>1. /\ t \in Messages /\ atRisk' = atRisk
      /\ row' = [row EXCEPT ![t] = "deleted"]
      /\ buffer' = buffer /\ temp' = temp /\ key' = key /\ data' = data
    BY RequestsAssumption DEF CommitDelete, redis, batches
<1>2. Pending("messages")' = Pending("messages") BY <1>1 DEF Pending, Waiting
<1>3. row[t] \in {"live", "deleted"} /\ t \in Accepted /\ t \in Named
    BY <1>1 DEF CommitDelete, RowFound, KnownInv, OwnCalls, TypeOK, Named
<1>4. row'[t] = "deleted" /\ \A m \in Messages \ {t} : row'[m] = row[m]
    BY <1>1 DEF TypeOK
<1> HIDE DEF t
<1>5. \A m \in Messages \ {t} : LifeOf(m)' = LifeOf(m) BY <1>2, <1>4, LifeOfIs
<1>6. LifeOf(t)' = "deleted" /\ LifeOf(t) \in {"stored", "deleted"}
    BY <1>1, <1>3, <1>4, LifeOfIs
<1>7. \A m \in Messages : LifeOf(m)' \in Life!Stages BY LifeOfIs
<1>8. CASE LifeOf(t) = "stored"
    BY <1>1, <1>3, <1>5, <1>6, <1>7, <1>8 DEF Life!Delete, Life!Only, Life!Goes, Named
<1>9. CASE LifeOf(t) = "deleted"
    <2>1. \A m \in Messages : LifeOf(m)' = LifeOf(m) BY <1>5, <1>6, <1>9
    <2> QED BY <1>1, <2>1 DEF Life!vars
<1> QED BY <1>6, <1>8, <1>9

(* Every other step loses what it loses to a fault, or misplaces a mark.    *)
LEMMA OthersLose ==
    ASSUME LifeInv, LifeInv', [Next]_vars, Accepted' = Accepted, row' = row
    PROVE  Life!Lose \/ Life!Misplace
<1> USE DEF LifeInv
<1>1. \A m \in Messages : ~Push(m)
    BY DEF Push, Goto, TypeOK, Accepted, Calls
<1>2. ASSUME NEW m \in Pending("messages")', m \notin Pending("messages")
      PROVE  \E d \in DelReqs : MarkBuffered(d) /\ m = Target[d]
    <2>1. PICK e \in Waiting("messages")' : e.id = m BY <1>2 DEF Pending
    <2>2. e \notin Waiting("messages") BY <1>2, <2>1 DEF Pending
    <2>3. PICK d \in DelReqs : MarkBuffered(d) /\ e = Deleted(Target[d])
        BY <1>1, <2>1, <2>2, WaitingGrows DEF Keys
    <2> QED BY <2>1, <2>3 DEF Deleted
<1>3. \A m \in Messages : \/ LifeOf(m)' = LifeOf(m)
                          \/ LifeOf(m) = "pending" /\ LifeOf(m)' = "lost"
                          \/ LifeOf(m) = "lost" /\ LifeOf(m)' = "pending"
    BY LifeOfIs
<1>4. \A m \in Messages : LifeOf(m)' = "lost" => m \in atRisk'
    BY LifeOfIs DEF NoLossWithoutFault
<1>5. \A m \in Messages : LifeOf(m) = "lost" => m \in atRisk'
    BY LifeOfIs, RiskGrows DEF NoLossWithoutFault
<1>6. atRisk \subseteq atRisk' /\ atRisk' \subseteq Messages
    BY RiskGrows DEF TypeOK
<1>7. \A m \in Messages : LifeOf(m)' \in Life!Stages BY LifeOfIs
<1> DEFINE S == {m \in Messages : LifeOf(m) = "pending" /\ LifeOf(m)' = "lost"}
<1>8. S \in SUBSET atRisk' BY <1>4
<1>9. CASE \E r \in Messages : LifeOf(r) = "lost" /\ LifeOf(r)' = "pending"
    <2>1. PICK r \in Messages : LifeOf(r) = "lost" /\ LifeOf(r)' = "pending" BY <1>9
    <2>2. r \in Pending("messages")' /\ r \notin Pending("messages") BY <2>1, LifeOfIs
    <2>3. PICK d \in DelReqs : MarkBuffered(d) /\ r = Target[d] BY <1>2, <2>2
    <2>4. r \in Named /\ r \in atRisk' BY <1>5, <2>1, <2>3 DEF MarkBuffered, OwnCalls, Named
    <2>5. ASSUME NEW m \in Messages, LifeOf(m) = "lost", LifeOf(m)' = "pending" PROVE m = r
        <3>1. m \in Pending("messages")' /\ m \notin Pending("messages") BY <2>5, LifeOfIs
        <3>2. PICK x \in DelReqs : MarkBuffered(x) /\ m = Target[x] BY <1>2, <3>1
        <3>3. x = d BY <2>3, <3>2 DEF MarkBuffered, DGoto, TypeOK
        <3> QED BY <2>3, <3>2, <3>3
    <2>6. \A m \in Messages \ (S \cup {r}) : LifeOf(m)' = LifeOf(m) BY <1>3, <2>5
    <2>7. S \in SUBSET (atRisk' \ {r}) BY <1>8, <2>1
    <2>8. \A m \in S : LifeOf(m) = "pending" /\ LifeOf(m)' = "lost" /\ m \in Messages OBVIOUS
    <2> HIDE DEF S
    <2>9. Life!Misplace
        BY <1>6, <1>7, <2>1, <2>4, <2>6, <2>7, <2>8
           DEF Life!Misplace, Life!Expose, Life!Only, Life!Goes, Named
    <2> QED BY <2>9
<1>10. CASE ~\E r \in Messages : LifeOf(r) = "lost" /\ LifeOf(r)' = "pending"
    <2>1. \A m \in Messages \ S : LifeOf(m)' = LifeOf(m) BY <1>3, <1>10
    <2>2. \A m \in S : LifeOf(m) = "pending" /\ LifeOf(m)' = "lost" /\ m \in Messages OBVIOUS
    <2> HIDE DEF S
    <2>3. Life!Lose
        BY <1>6, <1>7, <1>8, <2>1, <2>2 DEF Life!Lose, Life!Expose, Life!Only, Life!Goes
    <2> QED BY <2>3
<1> QED BY <1>9, <1>10

LEMMA NextLife ==
    ASSUME LifeInv, LifeInv', [Next]_vars
    PROVE  [Life!Next]_(Life!vars)
<1>1. CASE \E m \in Messages : Push(m) /\ m \notin Accepted /\ Accepted' = Accepted \cup {m}
    BY <1>1, PushSends DEF Life!Next
<1>2. CASE Accepted' = Accepted
    <2>1. ASSUME NEW c \in Calls, InsertChunk(c) PROVE [Life!Next]_(Life!vars)
        BY <1>2, <2>1, InsertStoresLife DEF Life!Next
    <2>2. ASSUME NEW d \in DelReqs, CommitDelete(d) PROVE [Life!Next]_(Life!vars)
        BY <1>2, <2>2, CommitDeletesLife DEF Life!Next
    <2>3. CASE row' = row
        BY <1>2, <2>3, OthersLose DEF Life!Next
    <2>4. CASE row' # row
        <3>1. PICK m \in Messages : row'[m] # row[m]
            BY <2>4 DEF LifeInv, TypeOK
        <3> QED BY <2>1, <2>2, <3>1, RowFrom DEF LifeInv
    <2> QED BY <2>3, <2>4
<1> QED BY <1>1, <1>2, AcceptedGrows DEF LifeInv

LEMMA LifeInvHolds == Spec => []LifeInv
<1>1. Init => RowFound BY DEF Init, RowFound
<1>2. Init => LifeInv
    BY <1>1, InitTypeOK, InitPipeInv, InitKnownInv, InitDelivery, InitOwn DEF LifeInv
<1>3. LifeInv /\ [Next]_vars => LifeInv'
    BY NextTypeOK, NextPipeInv, NextKnownInv, NextDelivery, NextOwnCalls, NextOwn, NextRowFound
       DEF LifeInv
<1> QED BY <1>2, <1>3, PTL DEF Spec

(* Every step of the pipeline and of deleteMessage is a step of MessageLife *)
(* or leaves the lives of the messages alone: stored and deleted are final, *)
(* what is lost was exposed to a fault, only the author deletes.           *)
THEOREM PipelineRefinesLife == Spec => LifeInOrder
<1>1. Init => Life!Init BY InitLife
<1>2. LifeInv /\ LifeInv' /\ [Next]_vars => [Life!Next]_(Life!vars) BY NextLife
<1> QED BY <1>1, <1>2, LifeInvHolds, PTL DEF Spec, LifeInOrder, Life!Steps

---------------------------------------------------------------------------
(* What the room cache keeps                                               *)

(* Every LSET on the room cache finds its target where findIndex saw it.   *)
MarksInPlace ==
    \A d \in DelReqs :
        MarkCached(d) /\ index[d] \in 1..Len(cache) => cache[index[d]].id = Target[d]

(* No two positions of s hold one message. *)
Apart(s) == \A i, j \in 1..Len(s) : s[i].id = s[j].id => i = j

(* The cache holds different messages, as many as were sent or as it may.  *)
CacheInv ==
    /\ IsFiniteSet(Accepted)
    /\ Ids(cache) \subseteq Accepted
    /\ Apart(cache)
    /\ Len(cache) = IF Cardinality(Accepted) < CacheLimit THEN Cardinality(Accepted) ELSE CacheLimit

LEMMA ApartCounts ==
    ASSUME NEW s \in Seq(Entry), Apart(s)
    PROVE  Cardinality(Ids(s)) = Len(s)
<1> DEFINE f == [i \in 1..Len(s) |-> s[i].id]
<1>1. \A x : x \in Ids(s) <=> \E i \in 1..Len(s) : s[i].id = x
    BY DEF Ids, Elements
<1>2. f \in [1..Len(s) -> Ids(s)] BY <1>1
<1>3. f \in Injection(1..Len(s), Ids(s)) BY <1>2, Fun_IsInj DEF Apart
<1>4. f \in Surjection(1..Len(s), Ids(s)) BY <1>1, <1>2, Fun_IsSurj
<1>5. Len(s) \in Nat /\ IsFiniteSet(1..Len(s)) /\ Cardinality(1..Len(s)) = Len(s)
    <2>1. 1 \in Int /\ Len(s) \in Nat OBVIOUS
    <2> HIDE DEF f
    <2> QED BY <2>1, FS_Interval
<1> HIDE DEF f
<1> QED BY <1>3, <1>4, <1>5, FS_Surjection

(* LTRIM keeps the end of the list. *)
LEMMA NewestIs ==
    ASSUME NEW s \in Seq(Entry), NEW n \in Nat \ {0}
    PROVE  LET t == Newest(s, n) IN
           /\ t \in Seq(Entry)
           /\ Len(t) = IF Len(s) <= n THEN Len(s) ELSE n
           /\ \A i \in 1..Len(t) :
                /\ i + (Len(s) - Len(t)) \in 1..Len(s)
                /\ t[i] = s[i + (Len(s) - Len(t))]
<1>1. CASE Len(s) <= n BY <1>1 DEF Newest
<1>2. CASE Len(s) > n
    <2> DEFINE a == Len(s) - n + 1
               t == SubSeq(s, a, Len(s))
    <2>1. Len(s) \in Nat /\ a \in 1..Len(s) BY <1>2
    <2>2. t \in Seq(Entry) /\ Len(t) = n /\ \A i \in 1..n : t[i] = s[a + i - 1]
        BY <1>2, <2>1
    <2>3. \A i \in 1..n : i + (Len(s) - n) \in 1..Len(s) /\ a + i - 1 = i + (Len(s) - n)
        BY <1>2, <2>1
    <2>4. Newest(s, n) = t BY <1>2 DEF Newest
    <2> HIDE DEF t, a
    <2> QED BY <1>2, <2>2, <2>3, <2>4
<1> QED BY <1>1, <1>2

(* Only the MULTI of a message and the LSET of a deletion change the cache. *)
LEMMA CacheFrom ==
    ASSUME [Next]_vars
    PROVE  \/ cache' = cache /\ \A m \in Messages : ~Push(m)
           \/ \E m \in Messages : Push(m)
           \/ \E d \in DelReqs : MarkCached(d)
<1> USE DEF redis
<1>1. ASSUME NEW m \in Messages, CheckLength(m) PROVE cache' = cache
    BY <1>1 DEF CheckLength
<1>2. ASSUME NEW p \in Procs, CronTick(p) \/ Crash(p) PROVE cache' = cache
    BY <1>2 DEF CronTick, Crash
<1>3. ASSUME NEW c \in Calls, BatchStep(c) PROVE cache' = cache
    BY <1>3 DEF BatchStep, TryLock, Begin, ReadLength, RenameList, ReadTemp, InsertChunk,
                InsertFails, DeleteTemp, Finish
<1>4. ASSUME NEW d \in DelReqs, DeleteStep(d), ~MarkCached(d) PROVE cache' = cache
    BY <1>4 DEF DeleteStep, FindMessage, FindBuffered, MarkBuffered, FindCached,
                CommitDelete, CommitFails
<1>5. CASE LockExpires \/ LockOverrun \/ UNCHANGED vars
    BY <1>5 DEF LockExpires, LockOverrun, vars
<1> QED BY <1>1, <1>2, <1>3, <1>4, <1>5 DEF Next

LEMMA InitCacheInv == Init => CacheInv
<1> SUFFICES ASSUME Init PROVE CacheInv OBVIOUS
<1>1. Accepted = {} BY ProcsAssumption DEF Init, Accepted, Calls
<1>2. cache = <<>> /\ Ids(cache) = {} BY ElementsOfEmpty DEF Init, Ids
<1>3. CacheLimit \in Nat \ {0} BY SizesAssumption
<1> QED BY <1>1, <1>2, <1>3, FS_EmptySet DEF CacheInv, Apart

(* A MULTI appends a new message and trims. *)
LEMMA PushKeepsCache ==
    ASSUME TypeOK, CacheInv, NEW m \in Messages, Push(m),
           m \notin Accepted, Accepted' = Accepted \cup {m}
    PROVE  CacheInv'
<1> DEFINE s == Append(cache, Live(m))
           t == Newest(s, CacheLimit)
           n == Cardinality(Accepted)
           drop == Len(s) - Len(t)
<1>1. /\ cache \in Seq(Entry) /\ Live(m) \in Entry /\ Live(m).id = m
      /\ CacheLimit \in Nat \ {0} /\ cache' = t
    BY EntryTypes, SizesAssumption DEF TypeOK, Push, Live
<1>2. /\ IsFiniteSet(Accepted) /\ Ids(cache) \subseteq Accepted /\ Apart(cache)
      /\ Len(cache) = IF n < CacheLimit THEN n ELSE CacheLimit
    BY DEF CacheInv
<1>3. n \in Nat /\ IsFiniteSet(Accepted') /\ Cardinality(Accepted') = n + 1
    BY <1>2, FS_AddElement, FS_CardinalityType
<1>4. /\ s \in Seq(Entry) /\ Len(s) = Len(cache) + 1 /\ s[Len(cache) + 1] = Live(m)
      /\ \A i \in 1..Len(cache) : s[i] = cache[i]
    BY <1>1
<1>5. \A i \in 1..Len(cache) : cache[i].id \in Accepted
    BY <1>2 DEF Ids, Elements
<1>6. Len(cache) \in Nat /\ 1..Len(s) = 1..Len(cache) \cup {Len(cache) + 1}
    BY <1>1, <1>4
<1>7. Apart(s) /\ \A i \in 1..Len(s) : s[i].id \in Accepted'
    BY <1>1, <1>2, <1>4, <1>5, <1>6 DEF Apart
<1> HIDE DEF s, n
<1>8. /\ t \in Seq(Entry) /\ Len(t) = IF Len(s) <= CacheLimit THEN Len(s) ELSE CacheLimit
      /\ \A i \in 1..Len(t) : i + drop \in 1..Len(s) /\ t[i] = s[i + drop]
    BY <1>1, <1>4, NewestIs
<1>9. Len(t) = IF n + 1 < CacheLimit THEN n + 1 ELSE CacheLimit
    BY <1>1, <1>2, <1>3, <1>4, <1>8
<1>10. Len(t) \in Nat /\ drop \in Int BY <1>6, <1>4, <1>8
<1> HIDE DEF t, drop
<1>11. Apart(t)
    <2> SUFFICES ASSUME NEW i \in 1..Len(t), NEW j \in 1..Len(t), t[i].id = t[j].id PROVE i = j
        BY DEF Apart
    <2>1. i + drop = j + drop BY <1>7, <1>8 DEF Apart
    <2> QED BY <1>10, <2>1
<1>12. Ids(t) \subseteq Accepted' BY <1>7, <1>8 DEF Ids, Elements
<1> QED BY <1>1, <1>3, <1>9, <1>11, <1>12 DEF CacheInv

(* An LSET in place changes no id. *)
LEMMA MarkKeepsCache ==
    ASSUME TypeOK, CacheInv, NEW d \in DelReqs, MarkCached(d), MarksInPlace, Accepted' = Accepted
    PROVE  CacheInv'
<1> DEFINE i == index[d]
           x == Deleted(Target[d])
<1>1. /\ cache \in Seq(Entry) /\ x.id = Target[d] /\ cache' = SetAt(cache, i, x)
      /\ i \in 1..Len(cache) => cache[i].id = x.id
    BY DEF TypeOK, MarkCached, MarksInPlace, Deleted
<1>2. Len(cache') = Len(cache) /\ \A j \in 1..Len(cache) : cache'[j].id = cache[j].id
    <2>1. CASE i \notin 1..Len(cache) BY <1>1, <2>1 DEF SetAt
    <2>2. CASE i \in 1..Len(cache)
        <3>1. cache' = [cache EXCEPT ![i] = x] BY <1>1, <2>2 DEF SetAt
        <3> HIDE DEF x
        <3> QED BY <1>1, <2>2, <3>1
    <2> QED BY <2>1, <2>2
<1>3. \A y : y \in Ids(cache) <=> \E j \in 1..Len(cache) : cache[j].id = y
    BY DEF Ids, Elements
<1>4. \A y : y \in Ids(cache)' <=> \E j \in 1..Len(cache') : cache'[j].id = y
    BY DEF Ids, Elements
<1>5. Ids(cache)' = Ids(cache) BY <1>2, <1>3, <1>4
<1>6. Apart(cache)' BY <1>2 DEF CacheInv, Apart
<1> QED BY <1>2, <1>5, <1>6 DEF CacheInv

LEMMA NextCacheInv == TypeOK /\ CacheInv /\ [Next]_vars /\ [MarksInPlace]_vars => CacheInv'
<1> SUFFICES ASSUME TypeOK, CacheInv, [Next]_vars, [MarksInPlace]_vars PROVE CacheInv' OBVIOUS
<1>1. CASE UNCHANGED vars
    BY <1>1 DEF vars, redis, batches, CacheInv, Accepted
<1>2. CASE MarksInPlace
    <2>1. ASSUME NEW m \in Messages, Push(m) PROVE CacheInv'
        <3>1. m \notin Accepted /\ Accepted' = Accepted \cup {m}
            BY <2>1 DEF Push, Goto, TypeOK, Accepted, Calls
        <3> QED BY <2>1, <3>1, PushKeepsCache
    <2>2. ASSUME \A m \in Messages : ~Push(m) PROVE Accepted' = Accepted
        BY <2>2, AcceptedGrows
    <2>3. ASSUME NEW d \in DelReqs, MarkCached(d) PROVE CacheInv'
        <3>1. \A m \in Messages : ~Push(m)
            <4>1. pc' = pc BY <2>3 DEF MarkCached, batches
            <4> QED BY <4>1 DEF Push, Goto, TypeOK, Calls
        <3> QED BY <1>2, <2>2, <2>3, <3>1, MarkKeepsCache
    <2>4. CASE cache' = cache /\ \A m \in Messages : ~Push(m)
        BY <2>2, <2>4 DEF CacheInv
    <2> QED BY <2>1, <2>3, <2>4, CacheFrom
<1> QED BY <1>1, <1>2

(* The room cache holds the newest messages it has room for, as the comment *)
(* of redis.service.ts:287 says, as long as every LSET of a deletion finds *)
(* its entry where it was read: the outdated position is all that breaks it. *)
THEOREM CacheKept == Spec /\ [][MarksInPlace]_vars => []CacheKeepsNewest
<1>1. Init => TypeOK /\ CacheInv BY InitTypeOK, InitCacheInv
<1>2. TypeOK /\ CacheInv /\ [Next]_vars /\ [MarksInPlace]_vars => (TypeOK /\ CacheInv)'
    BY NextTypeOK, NextCacheInv
<1>3. TypeOK /\ CacheInv => CacheKeepsNewest
    <2> SUFFICES ASSUME TypeOK, CacheInv PROVE CacheKeepsNewest OBVIOUS
    <2>1. Cardinality(Ids(cache)) = Len(cache) BY ApartCounts DEF TypeOK, CacheInv
    <2> QED BY <2>1 DEF CacheInv, CacheKeepsNewest
<1> QED BY <1>1, <1>2, <1>3, PTL DEF Spec
=============================================================================
