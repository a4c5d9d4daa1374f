----------------------- MODULE MessageBuffer_delivery -----------------------
(***************************************************************************)
(* Proofs that the write-back pipeline delivers: what happens to the       *)
(* copies of messages and logs on their way from Redis to MySQL, for every *)
(* set of processes, messages and delete requests, every size and any      *)
(* number of faults.                                                       *)
(***************************************************************************)
EXTENDS MessageBuffer_proofs, SequenceTheorems, WellFoundedInduction

---------------------------------------------------------------------------
(* Lemmas about lists *)

LEMMA ElementsOfEmpty == Elements(<<>>) = {}
BY DEF Elements

LEMMA ElementsOfAppend ==
    ASSUME NEW s \in Seq(Entry), NEW e \in Entry
    PROVE  Elements(Append(s, e)) = Elements(s) \cup {e}
<1>1. /\ Append(s, e) \in Seq(Entry) /\ Len(Append(s, e)) = Len(s) + 1
      /\ Append(s, e)[Len(s) + 1] = e
      /\ \A i \in 1..Len(s) : Append(s, e)[i] = s[i]
    OBVIOUS
<1>2. Len(s) \in Nat /\ 1..(Len(s) + 1) = 1..Len(s) \cup {Len(s) + 1}
    OBVIOUS
<1> QED BY <1>1, <1>2 DEF Elements

(* A chunk and the rest of the list are the list. *)
LEMMA ElementsOfParts ==
    ASSUME NEW s \in Seq(Entry), NEW n \in 0..Len(s)
    PROVE  Elements(s) = Elements(SubSeq(s, 1, n)) \cup Elements(SubSeq(s, n + 1, Len(s)))
<1> DEFINE a == SubSeq(s, 1, n)
           b == SubSeq(s, n + 1, Len(s))
<1>1. Len(a) = n /\ \A i \in 1..n : a[i] = s[i]
    OBVIOUS
<1>2. Len(b) = Len(s) - n /\ \A i \in 1..(Len(s) - n) : b[i] = s[n + i]
    OBVIOUS
<1>3. ASSUME NEW i \in 1..Len(s) PROVE s[i] \in Elements(a) \cup Elements(b)
    <2>1. CASE i <= n BY <2>1, <1>1 DEF Elements
    <2>2. CASE i > n
        <3>1. i - n \in 1..(Len(s) - n) /\ b[i - n] = s[i] BY <2>2, <1>2
        <3> QED BY <3>1, <1>2 DEF Elements
    <2> QED BY <2>1, <2>2
<1>4. \A i \in 1..n : i \in 1..Len(s) OBVIOUS
<1>5. \A i \in 1..(Len(s) - n) : n + i \in 1..Len(s) OBVIOUS
<1>6. Elements(a) \subseteq Elements(s) BY <1>1, <1>4 DEF Elements
<1>7. Elements(b) \subseteq Elements(s) BY <1>2, <1>5 DEF Elements
<1>8. Elements(s) \subseteq Elements(a) \cup Elements(b) BY <1>3 DEF Elements
<1> QED BY <1>6, <1>7, <1>8

(* LSET changes one position at most. *)
LEMMA ElementsOfSetAt ==
    ASSUME NEW s \in Seq(Entry), NEW i \in Nat, NEW e \in Entry
    PROVE  /\ Elements(SetAt(s, i, e)) \subseteq Elements(s) \cup {e}
           /\ i \notin 1..Len(s) => SetAt(s, i, e) = s
           /\ i \in 1..Len(s) =>
                /\ e \in Elements(SetAt(s, i, e))
                /\ \A x \in Elements(s) : x = s[i] \/ x \in Elements(SetAt(s, i, e))
<1>1. CASE i \notin 1..Len(s)
    BY <1>1 DEF SetAt
<1>2. CASE i \in 1..Len(s)
    <2> DEFINE t == [s EXCEPT ![i] = e]
    <2>1. SetAt(s, i, e) = t BY <1>2 DEF SetAt
    <2>2. /\ Len(t) = Len(s) /\ t[i] = e
          /\ \A j \in 1..Len(s) : j # i => t[j] = s[j]
        BY <1>2
    <2> HIDE DEF t
    <2> QED BY <1>2, <2>1, <2>2 DEF Elements
<1> QED BY <1>1, <1>2

(* A list that holds an entry holds it at a first position. *)
LEMMA LeastPosition ==
    ASSUME NEW s \in Seq(Entry), NEW at \in SUBSET (1..Len(s)), at # {}
    PROVE  \E i \in at : \A j \in at : i <= j
<1> DEFINE less == OpToRel(<, Nat)
<1>1. IsWellFoundedOn(less, Nat) BY NatLessThanWellFounded
<1>2. \A i, j \in Nat : i < j => <<i, j>> \in less BY DEF OpToRel
<1>3. at \subseteq Nat OBVIOUS
<1> HIDE DEF less
<1>4. PICK i \in at : \A j \in at : <<j, i>> \notin less BY <1>1, <1>3, WFMin
<1>5. \A j \in at : ~(j < i) BY <1>2, <1>3, <1>4
<1> QED BY <1>3, <1>4, <1>5

---------------------------------------------------------------------------
(* What the pipeline keeps between any two steps.  With it, the effect of  *)
(* a step on the copies under way can be told without its program counter. *)

(* Two calls run a batch. *)
Overlap == \E b, c \in Batches : b # c

(* MySQL has what e stands for. *)
Stored(k, e) == IF k = "messages" THEN row[e.id] # "absent" ELSE logTable[e] > 0

(* A batch will read the temporary list, or has e among what it inserts.   *)
InHand(k, e) ==
    \E c \in Calls : key[c] = k /\ (pc[c] = "lrange" \/ e \in Elements(data[c]))

(* A batch holds rows only while it inserts them; what a temporary list     *)
(* holds that no batch has in hand is stored or was exposed, so that RENAME *)
(* and DEL may drop it; and while two batches overlap all that waits is     *)
(* exposed.                                                                *)
PipeInv ==
    /\ IsFiniteSet(Batches)
    /\ \A c \in Calls : data[c] # <<>> => pc[c] = "insert"
    /\ \A k \in Keys : \A e \in Elements(temp[k]) :
           e.id \in atRisk \/ Stored(k, e) \/ InHand(k, e)
    /\ Overlap => \A k \in Keys : \A e \in Waiting(k) : e.id \in atRisk

(* Two batches are more than one. *)
LEMMA OverlapCounts ==
    ASSUME IsFiniteSet(Batches), Overlap
    PROVE  Cardinality(Batches) > 1 /\ ~(Cardinality(Batches) <= 1)
<1>1. PICK b, c \in Batches : b # c BY DEF Overlap
<1>2. /\ IsFiniteSet({b}) /\ Cardinality({b}) = 1 BY FS_Singleton
<1>3. c \notin {b} /\ Cardinality({b} \cup {c}) = Cardinality({b}) + 1
    BY <1>1, <1>2, FS_AddElement
<1>4. Cardinality({b} \cup {c}) <= Cardinality(Batches) BY <1>1, FS_Subset
<1>5. Cardinality(Batches) \in Nat BY FS_CardinalityType
<1> QED BY <1>2, <1>3, <1>4, <1>5

LEMMA WaitingTypes ==
    ASSUME TypeOK, NEW k \in Keys
    PROVE  /\ Elements(buffer[k]) \subseteq Entry /\ Elements(temp[k]) \subseteq Entry
           /\ \A c \in Calls : Elements(data[c]) \subseteq Entry
           /\ Waiting(k) \subseteq Entry
BY ElementsType DEF TypeOK, Waiting

(* Where the copies under way are, before a step and after it. *)
LEMMA WaitingIs ==
    /\ \A k, e : e \in Waiting(k) <=>
          \/ e \in Elements(buffer[k]) \/ e \in Elements(temp[k])
          \/ \E c \in Calls : key[c] = k /\ e \in Elements(data[c])
    /\ \A k, e : e \in Waiting(k)' <=>
          \/ e \in Elements(buffer'[k]) \/ e \in Elements(temp'[k])
          \/ \E c \in Calls : key'[c] = k /\ e \in Elements(data'[c])
BY DEF Waiting

(* Exposure is never taken back. *)
LEMMA RiskGrows == ASSUME [Next]_vars PROVE atRisk \subseteq atRisk'
<1> USE DEF batches, deletes, redis
<1>1. ASSUME NEW m \in Messages, Push(m) \/ CheckLength(m) PROVE atRisk \subseteq atRisk'
    BY <1>1 DEF Push, CheckLength
<1>2. ASSUME NEW p \in Procs, CronTick(p) \/ Crash(p) PROVE atRisk \subseteq atRisk'
    BY <1>2 DEF CronTick, Crash
<1>3. ASSUME NEW c \in Calls, BatchStep(c) PROVE atRisk \subseteq atRisk'
    BY <1>3 DEF BatchStep, TryLock, Begin, ReadLength, RenameList, ReadTemp, InsertChunk,
                InsertFails, DeleteTemp, Finish
<1>4. ASSUME NEW d \in DelReqs, DeleteStep(d) PROVE atRisk \subseteq atRisk'
    BY <1>4 DEF DeleteStep, FindMessage, FindBuffered, MarkBuffered, FindCached, MarkCached,
                CommitDelete, CommitFails
<1>5. CASE LockExpires \/ LockOverrun \/ UNCHANGED vars
    BY <1>5 DEF LockExpires, LockOverrun, vars
<1> QED BY <1>1, <1>2, <1>3, <1>4, <1>5 DEF Next

---------------------------------------------------------------------------
(* What happens to the copies                                              *)

(* A step that leaves the lists and the rows held alone changes no copy.   *)
Quiet == UNCHANGED <<buffer, temp, key, data>>

(* The steps that move copies; every other one is quiet.                   *)
Moves ==
    \/ \E m \in Messages : Push(m)
    \/ \E c \in Calls : RenameList(c) \/ ReadTemp(c) \/ InsertChunk(c) \/ InsertFails(c)
                        \/ DeleteTemp(c) \/ Finish(c)
    \/ \E d \in DelReqs : MarkBuffered(d)
    \/ \E p \in Procs : Crash(p)

LEMMA QuietOrMoves == ASSUME [Next]_vars PROVE Quiet \/ Moves
<1> USE DEF Quiet, Moves, batches, deletes, redis
<1>1. ASSUME NEW m \in Messages, CheckLength(m) PROVE Quiet
    BY <1>1 DEF CheckLength
<1>2. ASSUME NEW p \in Procs, CronTick(p) PROVE Quiet
    BY <1>2 DEF CronTick
<1>3. ASSUME NEW c \in Calls, TryLock(c) \/ Begin(c) \/ ReadLength(c) PROVE Quiet
    BY <1>3 DEF TryLock, Begin, ReadLength
<1>4. ASSUME NEW d \in DelReqs, DeleteStep(d), ~MarkBuffered(d) PROVE Quiet
    BY <1>4 DEF DeleteStep, FindMessage, FindBuffered, FindCached, MarkCached,
                CommitDelete, CommitFails
<1>5. CASE LockExpires \/ LockOverrun \/ UNCHANGED vars
    BY <1>5 DEF LockExpires, LockOverrun, vars
<1> QED BY <1>1, <1>2, <1>3, <1>4, <1>5 DEF Next, BatchStep

(* What an inserted chunk holds is stored. *)
LEMMA InsertStores ==
    ASSUME TypeOK, NEW c \in Calls, InsertChunk(c)
    PROVE  /\ Elements(data'[c]) \subseteq Elements(data[c])
           /\ \A b \in Calls : b # c => data'[b] = data[b]
           /\ \A e \in Elements(data[c]) : e \in Elements(data'[c]) \/ Stored(key[c], e)'
           /\ data'[c] # <<>> => pc'[c] = "insert"
<1> DEFINE n == IF ChunkSize < Len(data[c]) THEN ChunkSize ELSE Len(data[c])
           chunk == SubSeq(data[c], 1, n)
           others == SubSeq(data[c], n + 1, Len(data[c]))
<1>1. data[c] \in Seq(Entry) /\ n \in 0..Len(data[c])
    BY SizesAssumption DEF TypeOK
<1>2. Elements(data[c]) = Elements(chunk) \cup Elements(others)
    BY <1>1, ElementsOfParts
<1>3. data' = [data EXCEPT ![c] = others] /\ pc' = [pc EXCEPT ![c] = IF others = <<>> THEN "del" ELSE "insert"]
      /\ IF key[c] = "messages" THEN InsertRows(chunk) ELSE InsertLogs(chunk)
    BY DEF InsertChunk, Goto
<1>4. chunk \in Seq(Entry) BY <1>1
<1> HIDE DEF chunk, others
<1>5. ASSUME NEW e \in Elements(chunk) PROVE Stored(key[c], e)'
    <2>0. key' = key BY DEF InsertChunk
    <2>1. e \in Entry /\ e.id \in Messages BY <1>4, ElementsType DEF Ids
    <2>2. CASE key[c] = "messages"
        <3>1. InsertRows(chunk) BY <1>3, <2>2
        <3>2. e.id \in Ids(chunk) BY DEF Ids
        <3> QED BY <2>0, <2>1, <2>2, <3>1, <3>2 DEF InsertRows, Stored
    <2>3. CASE key[c] # "messages"
        <3>1. InsertLogs(chunk) BY <1>3, <2>3
        <3> DEFINE at == {i \in 1..Len(chunk) : chunk[i] = e}
        <3>2. Cardinality(at) > 0
            <4>1. PICK i \in 1..Len(chunk) : chunk[i] = e BY DEF Elements
            <4>2. i \in at BY <4>1
            <4>3. IsFiniteSet(at)
                <5>1. IsFiniteSet(1..Len(chunk)) BY <1>4, FS_Interval
                <5>2. at \subseteq 1..Len(chunk) OBVIOUS
                <5> HIDE DEF at
                <5> QED BY <5>1, <5>2, FS_Subset
            <4>4. Cardinality(at) # 0 BY <4>2, <4>3, FS_EmptySet
            <4>5. Cardinality(at) \in Nat BY <1>4, CountType
            <4> HIDE DEF at
            <4> QED BY <4>4, <4>5
        <3>3. Cardinality(at) \in Nat BY <1>4, CountType
        <3>4. logTable'[e] = logTable[e] + Cardinality(at)
            BY <2>1, <3>1 DEF InsertLogs
        <3>5. logTable[e] \in Nat BY <2>1 DEF TypeOK
        <3> HIDE DEF at
        <3> QED BY <2>0, <2>3, <3>2, <3>3, <3>4, <3>5 DEF Stored
    <2> QED BY <2>2, <2>3
<1>6. data'[c] = others /\ \A b \in Calls : b # c => data'[b] = data[b]
    BY <1>3 DEF TypeOK
<1>7. data'[c] # <<>> => pc'[c] = "insert"
    BY <1>3, <1>6 DEF TypeOK
<1> QED BY <1>2, <1>5, <1>6, <1>7

(* What MySQL has, it keeps. *)
LEMMA StoredStays ==
    ASSUME TypeOK, [Next]_vars, NEW k \in Keys, NEW e \in Entry, Stored(k, e)
    PROVE  Stored(k, e)'
<1>0. e.id \in Messages BY DEF Entry
<1>1. row[e.id] # "absent" => row'[e.id] # "absent"
    BY <1>0, StepAdvancesRows
<1>2. logTable'[e] >= logTable[e] /\ logTable[e] \in Nat /\ logTable'[e] \in Nat
    <2> USE DEF mysql
    <2>0. logTable[e] \in Nat /\ logTable'[e] \in Nat BY NextTypeOK DEF TypeOK
    <2>1. ASSUME NEW c \in Calls, InsertChunk(c) PROVE logTable'[e] >= logTable[e]
        <3> DEFINE n == IF ChunkSize < Len(data[c]) THEN ChunkSize ELSE Len(data[c])
                   chunk == SubSeq(data[c], 1, n)
        <3>1. CASE key[c] = "messages"
            BY <2>0, <2>1, <3>1 DEF InsertChunk, InsertRows
        <3>2. CASE key[c] # "messages"
            <4>1. InsertLogs(chunk) BY <2>1, <3>2 DEF InsertChunk
            <4>2. n \in 0..Len(data[c]) /\ data[c] \in Seq(Entry)
                BY SizesAssumption DEF TypeOK
            <4>3. chunk \in Seq(Entry) BY <4>2
            <4> HIDE DEF chunk
            <4>4. Cardinality({i \in 1..Len(chunk) : chunk[i] = e}) \in Nat BY <4>3, CountType
            <4>5. logTable'[e] = logTable[e] + Cardinality({i \in 1..Len(chunk) : chunk[i] = e})
                BY <4>1 DEF InsertLogs
            <4> QED BY <2>0, <4>4, <4>5
        <3> QED BY <3>1, <3>2
    <2>2. ASSUME NEW d \in DelReqs, CommitDelete(d) PROVE logTable'[e] >= logTable[e]
        BY <2>0, <2>2 DEF CommitDelete, TypeOK
    <2>3. ASSUME NEW m \in Messages, Push(m) \/ CheckLength(m) PROVE logTable' = logTable
        BY <2>3 DEF Push, CheckLength
    <2>4. ASSUME NEW p \in Procs, CronTick(p) \/ Crash(p) PROVE logTable' = logTable
        BY <2>4 DEF CronTick, Crash
    <2>5. ASSUME NEW c \in Calls, BatchStep(c), ~InsertChunk(c) PROVE logTable' = logTable
        BY <2>5 DEF BatchStep, TryLock, Begin, ReadLength, RenameList, ReadTemp, InsertFails,
                    DeleteTemp, Finish
    <2>6. ASSUME NEW d \in DelReqs, DeleteStep(d), ~CommitDelete(d) PROVE logTable' = logTable
        BY <2>6 DEF DeleteStep, FindMessage, FindBuffered, MarkBuffered, FindCached, MarkCached,
                    CommitFails
    <2>7. ASSUME LockExpires \/ LockOverrun \/ UNCHANGED vars PROVE logTable' = logTable
        BY <2>7 DEF LockExpires, LockOverrun, vars
    <2>8. \/ \E c \in Calls : InsertChunk(c)
          \/ \E d \in DelReqs : CommitDelete(d)
          \/ logTable' = logTable
        BY <2>3, <2>4, <2>5, <2>6, <2>7 DEF Next
    <2> QED BY <2>0, <2>1, <2>2, <2>8
<1> QED BY <1>1, <1>2 DEF Stored

(* Nothing comes to wait but the entries of a message that is sent and the  *)
(* marks of a deletion.                                                    *)
LEMMA WaitingGrows ==
    ASSUME TypeOK, PipeInv, [Next]_vars, NEW k \in Keys, NEW e \in Waiting(k)', e \notin Waiting(k)
    PROVE  \/ \E m \in Messages : Push(m) /\ e = Live(m)
           \/ \E d \in DelReqs : MarkBuffered(d) /\ e = Deleted(Target[d])
<1> USE WaitingIs DEF redis, batches, deletes
<1>1. CASE Quiet
    BY <1>1 DEF Quiet
<1>2. ASSUME NEW m \in Messages, Push(m) PROVE e = Live(m)
    <2>1. Elements(buffer'[k]) = Elements(buffer[k]) \cup {Live(m)}
        BY <1>2, ElementsOfAppend, EntryTypes DEF Push, TypeOK
    <2> QED BY <1>2, <2>1 DEF Push
<1>3. ASSUME NEW c \in Calls, RenameList(c) PROVE FALSE
    <2>1. /\ Elements(buffer'[k]) \subseteq Elements(buffer[k])
          /\ Elements(temp'[k]) \subseteq Elements(temp[k]) \cup Elements(buffer[k])
        <3>1. CASE k # key[c] \/ buffer[k] = <<>>
            <4>1. buffer'[k] = buffer[k] /\ temp'[k] = temp[k]
                BY <1>3, <3>1 DEF RenameList, TypeOK
            <4> QED BY <4>1
        <3>2. CASE k = key[c] /\ buffer[k] # <<>>
            <4>1. buffer'[k] = <<>> /\ temp'[k] = buffer[k]
                BY <1>3, <3>2 DEF RenameList, TypeOK
            <4> QED BY <4>1, ElementsOfEmpty
        <3> QED BY <3>1, <3>2
    <2>2. key' = key /\ data' = data BY <1>3 DEF RenameList
    <2> QED BY <2>1, <2>2
<1>4. ASSUME NEW c \in Calls, ReadTemp(c) PROVE FALSE
    <2>1. /\ data'[c] = temp[key[c]]
          /\ \A b \in Calls : b # c => data'[b] = data[b]
          /\ key' = key /\ buffer' = buffer /\ temp' = temp
        BY <1>4 DEF ReadTemp, TypeOK
    <2> QED BY <2>1
<1>5. ASSUME NEW c \in Calls, InsertChunk(c) PROVE FALSE
    <2>1. key' = key /\ buffer' = buffer /\ temp' = temp BY <1>5 DEF InsertChunk
    <2>2. \A b \in Calls : Elements(data'[b]) \subseteq Elements(data[b])
        BY <1>5, InsertStores
    <2> QED BY <2>1, <2>2
<1>6. ASSUME NEW c \in Calls, InsertFails(c) PROVE FALSE
    BY <1>6, ElementsOfEmpty DEF InsertFails, TypeOK
<1>7. ASSUME NEW c \in Calls, DeleteTemp(c) PROVE FALSE
    <2>1. Elements(data[c]) = {} BY <1>7, ElementsOfEmpty DEF DeleteTemp, PipeInv
    <2>2. Elements(temp'[k]) \subseteq Elements(temp[k])
        BY <1>7, ElementsOfEmpty DEF DeleteTemp, TypeOK
    <2>3. \A b \in Calls : b # c => key'[b] = key[b] BY <1>7 DEF DeleteTemp, TypeOK
    <2> QED BY <1>7, <2>1, <2>2, <2>3 DEF DeleteTemp
<1>8. ASSUME NEW c \in Calls, Finish(c) PROVE FALSE
    <2>1. Elements(data[c]) = {} BY <1>8, ElementsOfEmpty DEF Finish, PipeInv
    <2>3. \A b \in Calls : b # c => key'[b] = key[b] BY <1>8 DEF Finish, TypeOK
    <2> QED BY <1>8, <2>1, <2>3 DEF Finish
<1>9. ASSUME NEW d \in DelReqs, MarkBuffered(d) PROVE e = Deleted(Target[d])
    <2>0. Target[d] \in Messages /\ index[d] \in Nat BY RequestsAssumption DEF TypeOK
    <2>1. Deleted(Target[d]) \in Entry BY <2>0, EntryTypes
    <2>2. buffer["messages"] \in Seq(Entry) /\ buffer["logs"] \in Seq(Entry) BY DEF TypeOK, Keys
    <2>3. /\ Elements(SetAt(buffer["messages"], index[d], Deleted(Target[d])))
               \subseteq Elements(buffer["messages"]) \cup {Deleted(Target[d])}
          /\ Elements(Append(buffer["logs"], Deleted(Target[d])))
               = Elements(buffer["logs"]) \cup {Deleted(Target[d])}
        BY <2>0, <2>1, <2>2, ElementsOfAppend, ElementsOfSetAt
    <2>4. /\ buffer'["messages"] = SetAt(buffer["messages"], index[d], Deleted(Target[d]))
          /\ buffer'["logs"] = Append(buffer["logs"], Deleted(Target[d]))
        BY <1>9 DEF MarkBuffered, TypeOK, Keys
    <2>5. Elements(buffer'[k]) \subseteq Elements(buffer[k]) \cup {Deleted(Target[d])}
        <3>1. CASE k = "messages" BY <2>3, <2>4, <3>1
        <3>2. CASE k = "logs" BY <2>3, <2>4, <3>2
        <3> QED BY <3>1, <3>2 DEF Keys
    <2> QED BY <1>9, <2>5 DEF MarkBuffered
<1>10. ASSUME NEW p \in Procs, Crash(p) PROVE FALSE
    BY <1>10, ElementsOfEmpty DEF Crash, TypeOK, PipeInv
<1> QED BY <1>1, <1>2, <1>3, <1>4, <1>5, <1>6, <1>7, <1>8, <1>9, <1>10, QuietOrMoves DEF Moves

(* What a batch finds in the temporary list that it replaces or deletes.   *)
LEMMA TempDone ==
    ASSUME TypeOK, PipeInv, NEW c \in Calls, pc[c] \in {"rename", "del"},
           NEW e \in Elements(temp[key[c]])
    PROVE  \/ e.id \in atRisk \/ Stored(key[c], e)
           \/ \E b \in Calls : key[b] = key[c] /\ e \in Elements(data[b])
<1>0. key[c] \in Keys BY DEF TypeOK
<1>1. ASSUME NEW b \in Calls, pc[b] = "lrange" PROVE e.id \in atRisk
    <2>1. Overlap BY <1>1 DEF Overlap, Batches, Running
    <2>2. e \in Waiting(key[c]) BY WaitingIs
    <2> QED BY <1>0, <2>1, <2>2 DEF PipeInv
<1> QED BY <1>0, <1>1 DEF PipeInv, InHand

(* A copy waits until it is stored or exposed; a deletion may take its place. *)
LEMMA WaitingStays ==
    ASSUME TypeOK, PipeInv, [Next]_vars, NEW k \in Keys, NEW e \in Waiting(k)
    PROVE  \/ e \in Waiting(k)' \/ Stored(k, e)' \/ e.id \in atRisk'
           \/ /\ \E d \in DelReqs : MarkBuffered(d)
              /\ k = "messages" /\ Deleted(e.id) \in Waiting(k)'
<1> USE WaitingIs DEF redis, batches, deletes
<1> DEFINE Safe == e \in Waiting(k)' \/ Stored(k, e)' \/ e.id \in atRisk'
<1>0. e \in Entry BY WaitingTypes
<1>1. CASE Quiet
    BY <1>1 DEF Quiet
<1>2. ASSUME NEW m \in Messages, Push(m) PROVE Safe
    <2>1. Elements(buffer'[k]) = Elements(buffer[k]) \cup {Live(m)}
        BY <1>2, ElementsOfAppend, EntryTypes DEF Push, TypeOK
    <2> QED BY <1>2, <2>1 DEF Push
<1>3. ASSUME NEW c \in Calls, RenameList(c) PROVE Safe
    <2>0. data' = data /\ key' = key BY <1>3 DEF RenameList
    <2>1. CASE k # key[c] \/ buffer[k] = <<>>
        <3>1. buffer'[k] = buffer[k] /\ temp'[k] = temp[k]
            BY <1>3, <2>1 DEF RenameList, TypeOK
        <3> QED BY <2>0, <3>1
    <2>2. CASE k = key[c] /\ buffer[k] # <<>>
        <3>1. temp'[k] = buffer[k] BY <1>3, <2>2 DEF RenameList, TypeOK
        <3>2. CASE e \in Elements(temp[k])
            <4>1. pc[c] = "rename" BY <1>3 DEF RenameList
            <4> QED BY <1>0, <2>0, <2>2, <3>2, <4>1, TempDone, StoredStays, RiskGrows
        <3> QED BY <2>0, <3>1, <3>2
    <2> QED BY <2>1, <2>2
<1>4. ASSUME NEW c \in Calls, ReadTemp(c) PROVE Safe
    <2>1. /\ data'[c] = temp[key[c]] /\ Elements(data[c]) = {}
          /\ \A b \in Calls : b # c => data'[b] = data[b]
          /\ key' = key /\ buffer' = buffer /\ temp' = temp
        BY <1>4, ElementsOfEmpty DEF ReadTemp, TypeOK, PipeInv
    <2> QED BY <2>1
<1>5. ASSUME NEW c \in Calls, InsertChunk(c) PROVE Safe
    <2>1. key' = key /\ buffer' = buffer /\ temp' = temp BY <1>5 DEF InsertChunk
    <2>2. \A b \in Calls : b # c => data'[b] = data[b]
        BY <1>5, InsertStores
    <2>3. \A x \in Elements(data[c]) : x \in Elements(data'[c]) \/ Stored(key[c], x)'
        BY <1>5, InsertStores
    <2> QED BY <2>1, <2>2, <2>3
<1>6. ASSUME NEW c \in Calls, InsertFails(c) PROVE Safe
    <2>1. key' = key /\ buffer' = buffer /\ temp' = temp BY <1>6 DEF InsertFails
    <2>2. \A b \in Calls : b # c => data'[b] = data[b]
        BY <1>6 DEF InsertFails, TypeOK
    <2>3. \A x \in Elements(data[c]) : x.id \in atRisk'
        BY <1>6 DEF InsertFails, Ids
    <2> QED BY <2>1, <2>2, <2>3
<1>7. ASSUME NEW c \in Calls, DeleteTemp(c) PROVE Safe
    <2>1. Elements(data[c]) = {} BY <1>7, ElementsOfEmpty DEF DeleteTemp, PipeInv
    <2>2. \A b \in Calls : b # c => key'[b] = key[b] BY <1>7 DEF DeleteTemp, TypeOK
    <2>3. k # key[c] => temp'[k] = temp[k] BY <1>7 DEF DeleteTemp, TypeOK
    <2>4. buffer' = buffer /\ data' = data /\ pc[c] = "del" BY <1>7 DEF DeleteTemp
    <2>5. CASE k = key[c] /\ e \in Elements(temp[k])
        BY <1>0, <2>1, <2>2, <2>4, <2>5, TempDone, StoredStays, RiskGrows
    <2> QED BY <2>1, <2>2, <2>3, <2>4, <2>5
<1>8. ASSUME NEW c \in Calls, Finish(c) PROVE Safe
    <2>1. Elements(data[c]) = {} BY <1>8, ElementsOfEmpty DEF Finish, PipeInv
    <2>2. \A b \in Calls : b # c => key'[b] = key[b] BY <1>8 DEF Finish, TypeOK
    <2> QED BY <1>8, <2>1, <2>2 DEF Finish
<1>9. ASSUME NEW d \in DelReqs, MarkBuffered(d)
      PROVE  Safe \/ (k = "messages" /\ Deleted(e.id) \in Waiting(k)')
    <2> DEFINE i == index[d]
               list == buffer["messages"]
               mark == Deleted(Target[d])
    <2>0. Target[d] \in Messages /\ i \in Nat BY RequestsAssumption DEF TypeOK
    <2>1. mark \in Entry BY <2>0, EntryTypes
    <2>2. list \in Seq(Entry) /\ buffer["logs"] \in Seq(Entry) BY DEF TypeOK, Keys
    <2>3. buffer'["messages"] = SetAt(list, i, mark) /\ buffer'["logs"] = Append(buffer["logs"], mark)
        BY <1>9 DEF MarkBuffered, TypeOK, Keys
    <2>4. key' = key /\ data' = data /\ temp' = temp BY <1>9 DEF MarkBuffered
    <2>5. CASE k = "messages" /\ e \in Elements(list) /\ i \in 1..Len(list) /\ e = list[i]
        <3>1. e.id = Target[d] \/ e.id \in atRisk'
            <4>1. index[d] \in 1..Len(buffer["messages"]) /\ buffer["messages"][index[d]].id = e.id
                BY <2>5
            <4> QED BY <1>9, <4>1 DEF MarkBuffered
        <3>2. mark \in Elements(buffer'["messages"])
            BY <2>0, <2>1, <2>2, <2>3, <2>5, ElementsOfSetAt
        <3> QED BY <2>5, <3>1, <3>2
    <2>6. CASE k = "messages" /\ e \in Elements(list) /\ ~(i \in 1..Len(list) /\ e = list[i])
        <3>1. e \in Elements(SetAt(list, i, mark))
            BY <2>0, <2>1, <2>2, <2>6, ElementsOfSetAt
        <3> QED BY <2>3, <2>6, <3>1
    <2>7. CASE k = "logs"
        <3>1. Elements(buffer'["logs"]) = Elements(buffer["logs"]) \cup {mark}
            BY <2>1, <2>2, <2>3, ElementsOfAppend
        <3> QED BY <2>4, <2>7, <3>1
    <2> QED BY <2>4, <2>5, <2>6, <2>7 DEF Keys
<1>10. ASSUME NEW p \in Procs, Crash(p) PROVE Safe
    <2> DEFINE mine == {c \in Calls : HomeOf(c) = p /\ pc[c] # "unsent"}
    <2>1. buffer' = buffer /\ temp' = temp BY <1>10 DEF Crash
    <2>2. \A c \in Calls \ mine : key'[c] = key[c] /\ data'[c] = data[c] BY <1>10 DEF Crash
    <2>3. ASSUME NEW c \in mine, e \in Elements(data[c]) PROVE e.id \in atRisk'
        <3>1. pc[c] = "insert" BY <2>3, ElementsOfEmpty DEF PipeInv
        <3>2. e.id \in InFlight(c) BY <2>3, <3>1 DEF InFlight, Ids
        <3> QED BY <1>10, <3>2 DEF Crash
    <2> QED BY <2>1, <2>2, <2>3
<1> QED BY <1>1, <1>2, <1>3, <1>4, <1>5, <1>6, <1>7, <1>8, <1>9, <1>10, QuietOrMoves DEF Moves

---------------------------------------------------------------------------
(* PipeInv is inductive                                                    *)

(* A batch begins with the lock, and only there. *)
LEMMA BatchesGrow ==
    ASSUME TypeOK, [Next]_vars
    PROVE  \/ Batches' \subseteq Batches
           \/ \E c \in Calls : TryLock(c) /\ ~lock /\ Batches' \subseteq Batches \cup {c}
<1> USE DEF redis, batches, deletes
<1>1. ASSUME NEW m \in Messages, Push(m) \/ CheckLength(m) PROVE Batches' \subseteq Batches
    BY <1>1, MoveBatch DEF Push, CheckLength, Running, Calls
<1>2. ASSUME NEW p \in Procs, CronTick(p) PROVE Batches' \subseteq Batches
    BY <1>2, MoveBatch DEF CronTick, Running, Calls
<1>3. ASSUME NEW c \in Calls, TryLock(c)
      PROVE  Batches' \subseteq Batches \/ (~lock /\ Batches' \subseteq Batches \cup {c})
    <2>1. CASE lock BY <1>3, <2>1, MoveBatch DEF TryLock, Running, Rest
    <2>2. CASE ~lock BY <1>3, <2>2 DEF TryLock, Goto, TypeOK, Batches
    <2> QED BY <2>1, <2>2
<1>4. ASSUME NEW c \in Calls, BatchStep(c), ~TryLock(c) PROVE Batches' \subseteq Batches
    <2>1. CASE Begin(c) \/ ReadLength(c) \/ RenameList(c) \/ ReadTemp(c)
        BY <2>1, MoveBatch DEF Begin, ReadLength, RenameList, ReadTemp, Running
    <2>2. CASE InsertChunk(c) \/ InsertFails(c)
        BY <2>2, MoveBatch DEF InsertChunk, InsertFails, Running
    <2>3. CASE DeleteTemp(c) \/ Finish(c)
        BY <2>3, MoveBatch DEF DeleteTemp, Finish, Running, Rest
    <2> QED BY <1>4, <2>1, <2>2, <2>3 DEF BatchStep
<1>5. ASSUME NEW d \in DelReqs, DeleteStep(d) PROVE Batches' \subseteq Batches
    <2>1. pc' = pc
        BY <1>5 DEF DeleteStep, FindMessage, FindBuffered, MarkBuffered, FindCached, MarkCached,
                    CommitDelete, CommitFails
    <2> QED BY <2>1 DEF Batches
<1>6. ASSUME NEW p \in Procs, Crash(p) PROVE Batches' \subseteq Batches
    <2>1. \A c \in Calls : pc'[c] = pc[c] \/ pc'[c] = Rest(c)
        BY <1>6 DEF Crash
    <2> QED BY <2>1 DEF Batches, Running, Rest
<1>7. ASSUME LockExpires \/ LockOverrun \/ UNCHANGED vars PROVE Batches' \subseteq Batches
    BY <1>7 DEF LockExpires, LockOverrun, vars, Batches
<1> QED BY <1>1, <1>2, <1>3, <1>4, <1>5, <1>6, <1>7 DEF Next

(* What one step does to a call: it moves on from "lrange" with what it has *)
(* read, or in a crash, and takes up rows nowhere else.                    *)
LEMMA HeldRows ==
    ASSUME TypeOK, PipeInv, [Next]_vars, NEW c \in Calls
    PROVE  /\ data'[c] # <<>> => pc'[c] = "insert"
           /\ pc[c] = "lrange" =>
                \/ pc'[c] = "lrange" /\ key'[c] = key[c]
                \/ ReadTemp(c)
                \/ \A e \in Elements(temp[key[c]]) : e.id \in atRisk'
<1> USE DEF redis, batches, deletes, Goto, PipeInv
<1>1. ASSUME NEW m \in Messages, Push(m) \/ CheckLength(m)
      PROVE  data' = data /\ key' = key /\ (pc[c] \in {"insert", "lrange"} => pc'[c] = pc[c])
    BY <1>1 DEF Push, CheckLength, TypeOK
<1>2. ASSUME NEW p \in Procs, CronTick(p)
      PROVE  data' = data /\ key' = key /\ (pc[c] \in {"insert", "lrange"} => pc'[c] = pc[c])
    BY <1>2 DEF CronTick, TypeOK
<1>3. ASSUME NEW b \in Calls, TryLock(b) \/ Begin(b) \/ ReadLength(b) \/ RenameList(b)
      PROVE  data' = data /\ key' = key /\ (pc[c] \in {"insert", "lrange"} => pc'[c] = pc[c])
    BY <1>3 DEF TryLock, Begin, ReadLength, RenameList, TypeOK
<1>4. ASSUME NEW b \in Calls, DeleteTemp(b) \/ Finish(b)
      PROVE  data' = data /\ (pc[c] \in {"insert", "lrange"} => pc'[c] = pc[c] /\ key'[c] = key[c])
    BY <1>4 DEF DeleteTemp, Finish, TypeOK
<1>5. ASSUME NEW b \in Calls, ReadTemp(b)
      PROVE  /\ data'[c] # <<>> => pc'[c] = "insert"
             /\ b # c => pc'[c] = pc[c] /\ key'[c] = key[c]
    BY <1>5 DEF ReadTemp, TypeOK
<1>6. ASSUME NEW b \in Calls, InsertChunk(b) \/ InsertFails(b)
      PROVE  /\ data'[c] # <<>> => pc'[c] = "insert"
             /\ pc[c] = "lrange" => pc'[c] = pc[c] /\ key'[c] = key[c]
    <2>1. CASE InsertChunk(b)
        <3>1. pc[b] = "insert" /\ key' = key /\ (b # c => pc'[c] = pc[c])
            BY <2>1 DEF InsertChunk, TypeOK
        <3> QED BY <2>1, <3>1, InsertStores
    <2>2. CASE InsertFails(b) BY <2>2 DEF InsertFails, TypeOK
    <2> QED BY <1>6, <2>1, <2>2
<1>7. ASSUME NEW d \in DelReqs, DeleteStep(d) PROVE data' = data /\ key' = key /\ pc' = pc
    BY <1>7 DEF DeleteStep, FindMessage, FindBuffered, MarkBuffered, FindCached, MarkCached,
                CommitDelete, CommitFails
<1>8. ASSUME NEW p \in Procs, Crash(p)
      PROVE  /\ data'[c] # <<>> => pc'[c] = "insert"
             /\ pc[c] = "lrange" =>
                  \/ pc'[c] = "lrange" /\ key'[c] = key[c]
                  \/ \A e \in Elements(temp[key[c]]) : e.id \in atRisk'
    <2> DEFINE mine == {b \in Calls : HomeOf(b) = p /\ pc[b] # "unsent"}
    <2>1. CASE c \in mine
        <3>1. data'[c] = <<>> /\ InFlight(c) \subseteq atRisk' BY <1>8, <2>1 DEF Crash
        <3>2. pc[c] = "lrange" => InFlight(c) = Ids(temp[key[c]]) BY DEF InFlight
        <3> QED BY <3>1, <3>2 DEF Ids
    <2>2. CASE c \notin mine BY <1>8, <2>2 DEF Crash
    <2> QED BY <2>1, <2>2
<1>9. ASSUME LockExpires \/ LockOverrun \/ UNCHANGED vars
      PROVE  data' = data /\ key' = key /\ pc' = pc
    BY <1>9 DEF LockExpires, LockOverrun, vars
<1> QED BY <1>1, <1>2, <1>3, <1>4, <1>5, <1>6, <1>7, <1>8, <1>9 DEF Next, BatchStep

(* Only RENAME puts anything into a temporary list. *)
LEMMA TempFrom ==
    ASSUME TypeOK, [Next]_vars, NEW k \in Keys, NEW e \in Elements(temp'[k]), e \notin Elements(temp[k])
    PROVE  InHand(k, e)'
<1> USE DEF redis, batches, deletes
<1>1. ASSUME NEW c \in Calls, RenameList(c) PROVE InHand(k, e)'
    <2>1. key[c] = k /\ buffer[k] # <<>> BY <1>1 DEF RenameList, TypeOK
    <2>2. pc'[c] = "lrange" /\ key' = key BY <1>1, <2>1 DEF RenameList, Goto, TypeOK
    <2> QED BY <2>1, <2>2 DEF InHand
<1>2. ASSUME NEW c \in Calls, DeleteTemp(c) PROVE FALSE
    BY <1>2, ElementsOfEmpty DEF DeleteTemp, TypeOK
<1>3. ASSUME Moves, temp' # temp
      PROVE  \E c \in Calls : RenameList(c) \/ DeleteTemp(c)
    BY <1>3 DEF Moves, Push, ReadTemp, InsertChunk, InsertFails, Finish, MarkBuffered, Crash
<1> QED BY <1>1, <1>2, <1>3, QuietOrMoves DEF Quiet

LEMMA InitPipeInv == Init => PipeInv
<1> SUFFICES ASSUME Init PROVE PipeInv OBVIOUS
<1>1. Batches = {} BY DEF Init, Batches, Running, Calls
<1>2. \A k \in Keys : Elements(temp[k]) = {} BY ElementsOfEmpty DEF Init
<1> QED BY <1>1, <1>2, FS_EmptySet DEF Init, PipeInv, Overlap

LEMMA NextPipeInv == TypeOK /\ PipeInv /\ [Next]_vars => PipeInv'
<1> SUFFICES ASSUME TypeOK, PipeInv, [Next]_vars PROVE PipeInv' OBVIOUS
<1>1. IsFiniteSet(Batches')
    <2>1. IsFiniteSet(Batches) BY DEF PipeInv
    <2>2. \A c : IsFiniteSet(Batches \cup {c}) BY <2>1, FS_AddElement
    <2> QED BY <2>1, <2>2, BatchesGrow, FS_Subset
<1>2. \A c \in Calls : data'[c] # <<>> => pc'[c] = "insert"
    BY HeldRows
<1>3. ASSUME NEW k \in Keys, NEW e \in Elements(temp'[k])
      PROVE  e.id \in atRisk' \/ Stored(k, e)' \/ InHand(k, e)'
    <2>1. CASE e \notin Elements(temp[k]) BY <2>1, TempFrom
    <2>2. CASE e \in Elements(temp[k]) /\ (e.id \in atRisk \/ Stored(k, e))
        BY <2>2, RiskGrows, StoredStays, WaitingTypes
    <2>3. ASSUME e \in Elements(temp[k]), NEW c \in Calls, key[c] = k, e \in Elements(data[c])
          PROVE  e.id \in atRisk' \/ Stored(k, e)' \/ InHand(k, e)'
        <3>1. pc[c] = "insert" BY <2>3, ElementsOfEmpty DEF PipeInv
        <3>2. CASE Quiet BY <2>3, <3>2 DEF Quiet, InHand
        <3>3. ASSUME NEW b \in Calls, InsertChunk(b)
              PROVE  Stored(k, e)' \/ (key'[c] = k /\ e \in Elements(data'[c]))
            BY <2>3, <3>3, InsertStores DEF InsertChunk
        <3>4. ASSUME NEW b \in Calls, InsertFails(b)
              PROVE  e.id \in atRisk' \/ (key'[c] = k /\ e \in Elements(data'[c]))
            BY <2>3, <3>4 DEF InsertFails, TypeOK, Ids
        <3>5. ASSUME NEW b \in Calls, RenameList(b) \/ ReadTemp(b) \/ DeleteTemp(b) \/ Finish(b)
              PROVE  key'[c] = k /\ e \in Elements(data'[c])
            BY <2>3, <3>1, <3>5 DEF RenameList, ReadTemp, DeleteTemp, Finish, TypeOK
        <3>6. ASSUME NEW m \in Messages, Push(m) PROVE key'[c] = k /\ e \in Elements(data'[c])
            BY <2>3, <3>6 DEF Push
        <3>7. ASSUME NEW d \in DelReqs, MarkBuffered(d) PROVE key'[c] = k /\ e \in Elements(data'[c])
            BY <2>3, <3>7 DEF MarkBuffered, batches
        <3>8. ASSUME NEW p \in Procs, Crash(p)
              PROVE  e.id \in atRisk' \/ (key'[c] = k /\ e \in Elements(data'[c]))
            <4> DEFINE mine == {b \in Calls : HomeOf(b) = p /\ pc[b] # "unsent"}
            <4>1. CASE c \in mine
                <5>1. InFlight(c) \subseteq atRisk' BY <3>8, <4>1 DEF Crash
                <5> QED BY <2>3, <3>1, <5>1 DEF InFlight, Ids
            <4>2. CASE c \notin mine BY <2>3, <3>8, <4>2 DEF Crash
            <4> QED BY <4>1, <4>2
        <3> QED BY <3>2, <3>3, <3>4, <3>5, <3>6, <3>7, <3>8, QuietOrMoves DEF Moves, InHand
    <2>4. ASSUME e \in Elements(temp[k]), NEW c \in Calls, key[c] = k, pc[c] = "lrange"
          PROVE  e.id \in atRisk' \/ Stored(k, e)' \/ InHand(k, e)'
        <3>1. CASE pc'[c] = "lrange" /\ key'[c] = key[c] BY <2>4, <3>1 DEF InHand
        <3>2. CASE ReadTemp(c)
            <4>1. key' = key /\ data'[c] = temp[k] BY <2>4, <3>2 DEF ReadTemp, TypeOK
            <4> QED BY <2>4, <4>1 DEF InHand
        <3> QED BY <2>4, <3>1, <3>2, HeldRows
    <2> QED BY <2>1, <2>2, <2>3, <2>4 DEF PipeInv, InHand
<1>4. ASSUME Overlap', NEW k \in Keys, NEW e \in Waiting(k)' PROVE e.id \in atRisk'
    <2>1. CASE Batches' \subseteq Batches
        <3>1. Overlap BY <1>4, <2>1 DEF Overlap
        <3>2. CASE e \in Waiting(k) BY <3>1, <3>2, RiskGrows DEF PipeInv
        <3>3. ASSUME NEW m \in Messages, Push(m), e = Live(m) PROVE e.id \in atRisk'
            BY <3>1, <3>3, OverlapCounts DEF Push, Live, PipeInv
        <3>4. ASSUME NEW d \in DelReqs, MarkBuffered(d), e = Deleted(Target[d]) PROVE e.id \in atRisk'
            BY <3>1, <3>4, OverlapCounts DEF MarkBuffered, Deleted, PipeInv
        <3> QED BY <3>2, <3>3, <3>4, WaitingGrows
    <2>2. ASSUME NEW c \in Calls, TryLock(c), ~lock, Batches' \subseteq Batches \cup {c}
          PROVE  e.id \in atRisk'
        <3>1. Batches # {} BY <1>4, <2>2 DEF Overlap
        <3>2. atRisk' = atRisk \cup UNION {Pending(j) : j \in Keys} BY <2>2, <3>1 DEF TryLock
        <3>3. e \in Waiting(k) BY <2>2, WaitingIs DEF TryLock
        <3> QED BY <3>2, <3>3 DEF Pending
    <2> QED BY <2>1, <2>2, BatchesGrow
<1> QED BY <1>1, <1>2, <1>3, <1>4 DEF PipeInv

---------------------------------------------------------------------------
(* What MySQL gets, it gets from a list or from a transaction.             *)

LEMMA RowFrom ==
    ASSUME TypeOK, [Next]_vars, NEW m \in Messages, row'[m] # row[m]
    PROVE  \/ \E d \in DelReqs : CommitDelete(d) /\ m = Target[d] /\ row'[m] = "deleted"
           \/ /\ row[m] = "absent"
              /\ row'[m] = "live" => Live(m) \in Waiting("messages")
              /\ row'[m] = "deleted" => Deleted(m) \in Waiting("messages")
              /\ \E c \in Calls : InsertChunk(c)
<1> USE DEF mysql
<1>1. ASSUME NEW c \in Calls, InsertChunk(c)
      PROVE  /\ row[m] = "absent"
             /\ row'[m] = "live" => Live(m) \in Waiting("messages")
             /\ row'[m] = "deleted" => Deleted(m) \in Waiting("messages")
    <2> DEFINE n == IF ChunkSize < Len(data[c]) THEN ChunkSize ELSE Len(data[c])
               chunk == SubSeq(data[c], 1, n)
    <2>1. key[c] = "messages" /\ InsertRows(chunk)
        BY <1>1 DEF InsertChunk, InsertLogs
    <2>2. data[c] \in Seq(Entry) /\ n \in 0..Len(data[c]) BY SizesAssumption DEF TypeOK
    <2>3. Elements(chunk) \subseteq Elements(data[c]) BY <2>2, ElementsOfParts
    <2>4. chunk \in Seq(Entry) BY <2>2
    <2> HIDE DEF chunk
    <2>5. row[m] = "absent" /\ m \in Ids(chunk) BY <2>1 DEF InsertRows, TypeOK
    <2>6. \A x \in Elements(chunk) : x \in Waiting("messages") BY <2>1, <2>3, WaitingIs
    <2>7. \A i \in 1..Len(chunk) : chunk[i] \in Entry /\ chunk[i] \in Elements(chunk)
        BY <2>4 DEF Elements
    <2>8. ASSUME row'[m] = "deleted" PROVE Deleted(m) \in Waiting("messages")
        <3>1. PICK i \in FirstAt(chunk, m) : chunk[i].deleted
            BY <2>1, <2>5, <2>8 DEF InsertRows
        <3>2. chunk[i] = Deleted(m) BY <2>7, <3>1 DEF FirstAt, Entry, Deleted
        <3> QED BY <2>6, <2>7, <3>1, <3>2 DEF FirstAt
    <2>9. ASSUME row'[m] = "live" PROVE Live(m) \in Waiting("messages")
        <3>1. \A i \in FirstAt(chunk, m) : ~chunk[i].deleted
            BY <2>1, <2>5, <2>9 DEF InsertRows
        <3>2. PICK x \in Elements(chunk) : x.id = m BY <2>5 DEF Ids
        <3>3. CASE x.deleted = FALSE
            <4>1. x \in Entry BY <2>4, ElementsType
            <4>2. x = Live(m) BY <3>2, <3>3, <4>1 DEF Entry, Live
            <4> QED BY <2>6, <4>2
        <3>4. CASE x.deleted # FALSE
            <4> DEFINE at == {i \in 1..Len(chunk) : chunk[i].id = m}
            <4>1. at # {} BY <3>2 DEF Elements
            <4>2. PICK i \in at : \A j \in at : i <= j
                BY <2>4, <4>1, LeastPosition
            <4>3. i \in FirstAt(chunk, m)
                <5>1. \A j \in 1..(i - 1) : j \in 1..Len(chunk) /\ ~(i <= j) BY <2>4, <4>2
                <5> QED BY <4>2, <5>1 DEF FirstAt
            <4>4. chunk[i] = Live(m) BY <2>7, <3>1, <4>2, <4>3 DEF Entry, Live
            <4> QED BY <2>6, <2>7, <4>2, <4>4
        <3> QED BY <3>3, <3>4
    <2> QED BY <2>5, <2>8, <2>9
<1>2. ASSUME NEW d \in DelReqs, CommitDelete(d)
      PROVE  m = Target[d] /\ row'[m] = "deleted"
    BY <1>2 DEF CommitDelete, TypeOK
<1>3. ASSUME NEW x \in Messages, Push(x) \/ CheckLength(x) PROVE FALSE
    BY <1>3 DEF Push, CheckLength
<1>4. ASSUME NEW p \in Procs, CronTick(p) \/ Crash(p) PROVE FALSE
    BY <1>4 DEF CronTick, Crash
<1>5. ASSUME NEW c \in Calls, BatchStep(c), ~InsertChunk(c) PROVE FALSE
    BY <1>5 DEF BatchStep, TryLock, Begin, ReadLength, RenameList, ReadTemp, InsertFails,
                DeleteTemp, Finish
<1>6. ASSUME NEW d \in DelReqs, DeleteStep(d), ~CommitDelete(d) PROVE FALSE
    BY <1>6 DEF DeleteStep, FindMessage, FindBuffered, MarkBuffered, FindCached, MarkCached,
                CommitFails
<1>7. CASE LockExpires \/ LockOverrun \/ UNCHANGED vars
    BY <1>7 DEF LockExpires, LockOverrun, vars
<1> QED BY <1>1, <1>2, <1>3, <1>4, <1>5, <1>6, <1>7 DEF Next

---------------------------------------------------------------------------
(* Delivery                                                                *)

(* Only its MULTI makes a message accepted, and nothing takes that back.   *)
LEMMA AcceptedGrows ==
    ASSUME TypeOK, [Next]_vars
    PROVE  \/ Accepted' = Accepted
           \/ \E m \in Messages : Push(m) /\ m \notin Accepted /\ Accepted' = Accepted \cup {m}
<1> USE DEF redis, batches, deletes, Goto
<1>1. ASSUME NEW m \in Messages, Push(m)
      PROVE  m \notin Accepted /\ Accepted' = Accepted \cup {m}
    BY <1>1 DEF Push, TypeOK, Accepted, Calls
<1>2. ASSUME NEW m \in Messages, CheckLength(m) PROVE Accepted' = Accepted
    BY <1>2 DEF CheckLength, TypeOK, Accepted, Calls
<1>3. ASSUME NEW p \in Procs, CronTick(p) PROVE Accepted' = Accepted
    BY <1>3 DEF CronTick, TypeOK, Accepted, Calls
<1>4. ASSUME NEW c \in Calls, NEW step, Goto(c, step), step # "unsent", pc[c] # "unsent"
      PROVE  Accepted' = Accepted
    BY <1>4 DEF TypeOK, Accepted, Calls
<1>5. ASSUME NEW c \in Calls, BatchStep(c) PROVE Accepted' = Accepted
    <2>1. CASE TryLock(c) \/ Begin(c) \/ ReadLength(c) \/ RenameList(c) \/ ReadTemp(c)
        BY <1>4, <2>1 DEF TryLock, Begin, ReadLength, RenameList, ReadTemp, Rest
    <2>2. CASE InsertChunk(c) \/ InsertFails(c) \/ DeleteTemp(c) \/ Finish(c)
        BY <1>4, <2>2 DEF InsertChunk, InsertFails, DeleteTemp, Finish, Rest
    <2> QED BY <1>5, <2>1, <2>2 DEF BatchStep
<1>6. ASSUME NEW d \in DelReqs, DeleteStep(d) PROVE Accepted' = Accepted
    <2>1. pc' = pc
        BY <1>6 DEF DeleteStep, FindMessage, FindBuffered, MarkBuffered, FindCached, MarkCached,
                    CommitDelete, CommitFails
    <2> QED BY <2>1 DEF Accepted
<1>7. ASSUME NEW p \in Procs, Crash(p) PROVE Accepted' = Accepted
    <2>1. \A c \in Calls : pc'[c] = pc[c] \/ (pc[c] # "unsent" /\ pc'[c] = Rest(c))
        BY <1>7 DEF Crash
    <2> QED BY <2>1 DEF Accepted, Rest, Calls
<1>8. ASSUME LockExpires \/ LockOverrun \/ UNCHANGED vars PROVE Accepted' = Accepted
    BY <1>8 DEF LockExpires, LockOverrun, vars, Accepted
<1> QED BY <1>1, <1>2, <1>3, <1>5, <1>6, <1>7, <1>8 DEF Next

LEMMA InitDelivery == Init => NoLossWithoutFault
BY ProcsAssumption DEF Init, NoLossWithoutFault, Accepted, Calls

LEMMA NextDelivery == TypeOK /\ PipeInv /\ NoLossWithoutFault /\ [Next]_vars => NoLossWithoutFault'
<1> SUFFICES ASSUME TypeOK, PipeInv, NoLossWithoutFault, [Next]_vars,
                    NEW m \in Accepted', m \notin atRisk'
             PROVE  /\ row'[m] # "absent" \/ m \in Pending("messages")'
                    /\ logTable'[Live(m)] > 0 \/ Live(m) \in Waiting("logs")'
    BY DEF NoLossWithoutFault
<1> USE DEF Keys
<1>0. m \in Messages /\ Live(m) \in Entry /\ Live(m).id = m BY EntryTypes DEF Accepted, Live
<1>1. CASE m \in Accepted
    <2>0. m \notin atRisk BY RiskGrows
    <2>1. row'[m] # "absent" \/ m \in Pending("messages")'
        <3>1. CASE row[m] # "absent" BY <1>0, <3>1, StepAdvancesRows
        <3>2. ASSUME NEW e \in Waiting("messages"), e.id = m
              PROVE  row'[m] # "absent" \/ m \in Pending("messages")'
            <4>1. \/ e \in Waiting("messages")' \/ Stored("messages", e)'
                  \/ Deleted(m) \in Waiting("messages")'
                BY <3>2, WaitingStays
            <4>2. Stored("messages", e)' => row'[m] # "absent" BY <3>2 DEF Stored
            <4>3. Deleted(m).id = m BY DEF Deleted
            <4>4. \A x \in Waiting("messages")' : x.id \in Pending("messages")' BY DEF Pending
            <4> QED BY <3>2, <4>1, <4>2, <4>3, <4>4
        <3> QED BY <1>1, <2>0, <3>1, <3>2 DEF NoLossWithoutFault, Pending
    <2>2. logTable'[Live(m)] > 0 \/ Live(m) \in Waiting("logs")'
        <3>1. logTable[Live(m)] > 0 => Stored("logs", Live(m)) BY DEF Stored
        <3>2. Stored("logs", Live(m))' => logTable'[Live(m)] > 0 BY DEF Stored
        <3>3. Stored("logs", Live(m)) => Stored("logs", Live(m))' BY <1>0, StoredStays
        <3>4. Live(m) \in Waiting("logs") => Live(m) \in Waiting("logs")' \/ Stored("logs", Live(m))'
            BY <1>0, WaitingStays
        <3> QED BY <1>1, <2>0, <3>1, <3>2, <3>3, <3>4 DEF NoLossWithoutFault
    <2> QED BY <2>1, <2>2
<1>2. CASE m \notin Accepted
    <2>1. Push(m) BY <1>2, AcceptedGrows
    <2>2. \A k \in Keys : Elements(buffer'[k]) = Elements(buffer[k]) \cup {Live(m)}
        BY <1>0, <2>1, ElementsOfAppend DEF Push, TypeOK
    <2>3. \A k \in Keys : Live(m) \in Waiting(k)' BY <2>2, WaitingIs
    <2> QED BY <1>0, <2>3 DEF Pending
<1> QED BY <1>1, <1>2

(* No message that was accepted, and no SEND log, is lost on the way to     *)
(* MySQL unless a failed INSERT, a crash, two overlapping batches or an     *)
(* LSET at an outdated position touched it.                                *)
THEOREM Delivery == Spec => []NoLossWithoutFault
<1>1. Init => TypeOK /\ PipeInv /\ NoLossWithoutFault
    BY InitTypeOK, InitPipeInv, InitDelivery
<1>2. TypeOK /\ PipeInv /\ NoLossWithoutFault /\ [Next]_vars
        => (TypeOK /\ PipeInv /\ NoLossWithoutFault)'
    BY NextTypeOK, NextPipeInv, NextDelivery
<1> QED BY <1>1, <1>2, PTL DEF Spec

---------------------------------------------------------------------------
(* Only accepted messages are known anywhere *)

LEMMA LogFrom ==
    ASSUME TypeOK, [Next]_vars, NEW e \in Entry, logTable'[e] # logTable[e]
    PROVE  \/ \E d \in DelReqs : CommitDelete(d) /\ e = Deleted(Target[d])
           \/ \E c \in Calls : InsertChunk(c) /\ key[c] = "logs" /\ e \in Elements(data[c])
<1> USE DEF mysql
<1>1. ASSUME NEW c \in Calls, InsertChunk(c) PROVE key[c] = "logs" /\ e \in Elements(data[c])
    <2> DEFINE n == IF ChunkSize < Len(data[c]) THEN ChunkSize ELSE Len(data[c])
               chunk == SubSeq(data[c], 1, n)
    <2>1. key[c] = "logs" /\ InsertLogs(chunk)
        BY <1>1 DEF InsertChunk, InsertRows, TypeOK, Keys
    <2>2. data[c] \in Seq(Entry) /\ n \in 0..Len(data[c]) BY SizesAssumption DEF TypeOK
    <2>3. Elements(chunk) \subseteq Elements(data[c]) BY <2>2, ElementsOfParts
    <2> HIDE DEF chunk
    <2>4. CASE e \notin Elements(chunk)
        <3>1. {i \in 1..Len(chunk) : chunk[i] = e} = {} BY <2>4 DEF Elements
        <3>2. logTable'[e] = logTable[e] + 0 BY <2>1, <3>1, FS_EmptySet DEF InsertLogs
        <3> QED BY <3>2 DEF TypeOK
    <2> QED BY <2>1, <2>3, <2>4
<1>2. ASSUME NEW d \in DelReqs, CommitDelete(d) PROVE e = Deleted(Target[d])
    BY <1>2 DEF CommitDelete, TypeOK
<1>3. ASSUME NEW x \in Messages, Push(x) \/ CheckLength(x) PROVE FALSE
    BY <1>3 DEF Push, CheckLength
<1>4. ASSUME NEW p \in Procs, CronTick(p) \/ Crash(p) PROVE FALSE
    BY <1>4 DEF CronTick, Crash
<1>5. ASSUME NEW c \in Calls, BatchStep(c), ~InsertChunk(c) PROVE FALSE
    BY <1>5 DEF BatchStep, TryLock, Begin, ReadLength, RenameList, ReadTemp, InsertFails,
                DeleteTemp, Finish
<1>6. ASSUME NEW d \in DelReqs, DeleteStep(d), ~CommitDelete(d) PROVE FALSE
    BY <1>6 DEF DeleteStep, FindMessage, FindBuffered, MarkBuffered, FindCached, MarkCached,
                CommitFails
<1>7. CASE LockExpires \/ LockOverrun \/ UNCHANGED vars
    BY <1>7 DEF LockExpires, LockOverrun, vars
<1> QED BY <1>1, <1>2, <1>3, <1>4, <1>5, <1>6, <1>7 DEF Next

(* A deletion that has begun names an accepted message, and only accepted   *)
(* messages are in a list, in the table or in the log.                     *)
KnownInv ==
    /\ \A d \in DelReqs : dpc[d] # "idle" => Target[d] \in Accepted
    /\ \A k \in Keys : \A e \in Waiting(k) : e.id \in Accepted
    /\ \A m \in Messages : row[m] # "absent" => m \in Accepted
    /\ \A e \in Entry : logTable[e] > 0 => e.id \in Accepted

(* A deleteMessage call leaves its first step only by findOne. *)
LEMMA DeleteBegins ==
    ASSUME TypeOK, [Next]_vars, NEW d \in DelReqs, dpc[d] = "idle", dpc'[d] # "idle"
    PROVE  Target[d] \in Accepted
<1> USE DEF deletes, DGoto, TypeOK
<1>1. ASSUME NEW x \in DelReqs, DeleteStep(x) PROVE Target[d] \in Accepted
    BY <1>1 DEF DeleteStep, FindMessage, FindBuffered, MarkBuffered, FindCached, MarkCached,
                CommitDelete, CommitFails
<1>2. ASSUME NEW x \in Messages, Push(x) \/ CheckLength(x) PROVE FALSE
    BY <1>2 DEF Push, CheckLength
<1>3. ASSUME NEW p \in Procs, CronTick(p) \/ Crash(p) PROVE FALSE
    BY <1>3 DEF CronTick, Crash
<1>4. ASSUME NEW c \in Calls, BatchStep(c) PROVE FALSE
    BY <1>4 DEF BatchStep, TryLock, Begin, ReadLength, RenameList, ReadTemp, InsertChunk,
                InsertFails, DeleteTemp, Finish
<1>5. CASE LockExpires \/ LockOverrun \/ UNCHANGED vars
    BY <1>5 DEF LockExpires, LockOverrun, vars, batches
<1> QED BY <1>1, <1>2, <1>3, <1>4, <1>5 DEF Next

LEMMA InitKnownInv == Init => KnownInv
<1> SUFFICES ASSUME Init PROVE KnownInv OBVIOUS
<1>1. \A k \in Keys : Waiting(k) = {} BY WaitingIs, ElementsOfEmpty DEF Init
<1> QED BY <1>1 DEF Init, KnownInv

LEMMA NextKnownInv == TypeOK /\ PipeInv /\ KnownInv /\ [Next]_vars => KnownInv'
<1> SUFFICES ASSUME TypeOK, PipeInv, KnownInv, [Next]_vars PROVE KnownInv' OBVIOUS
<1>0. Accepted \subseteq Accepted' BY AcceptedGrows
<1>1. ASSUME NEW d \in DelReqs, dpc'[d] # "idle" PROVE Target[d] \in Accepted'
    BY <1>0, <1>1, DeleteBegins DEF KnownInv
<1>2. ASSUME NEW d \in DelReqs, MarkBuffered(d) \/ CommitDelete(d) PROVE Target[d] \in Accepted
    BY <1>2 DEF KnownInv, MarkBuffered, CommitDelete
<1>3. ASSUME NEW k \in Keys, NEW e \in Waiting(k)' PROVE e.id \in Accepted'
    <2>1. CASE e \in Waiting(k) BY <1>0, <2>1 DEF KnownInv
    <2>2. ASSUME NEW m \in Messages, Push(m), e = Live(m) PROVE e.id \in Accepted'
        BY <2>2, AcceptedGrows DEF Push, Goto, Accepted, Live, TypeOK, Calls
    <2>3. ASSUME NEW d \in DelReqs, MarkBuffered(d), e = Deleted(Target[d]) PROVE e.id \in Accepted'
        BY <1>0, <1>2, <2>3 DEF Deleted
    <2> QED BY <2>1, <2>2, <2>3, WaitingGrows
<1>4. ASSUME NEW m \in Messages, row'[m] # "absent" PROVE m \in Accepted'
    <2>1. CASE row[m] # "absent" BY <1>0, <2>1 DEF KnownInv
    <2>2. CASE row[m] = "absent"
        <3>1. /\ "messages" \in Keys /\ Live(m).id = m /\ Deleted(m).id = m
              /\ row'[m] \in {"live", "deleted"}
            BY <1>4, NextTypeOK DEF Keys, Live, Deleted, TypeOK
        <3> QED BY <1>0, <1>2, <1>4, <2>2, <3>1, RowFrom DEF KnownInv
    <2> QED BY <2>1, <2>2
<1>5. ASSUME NEW e \in Entry, logTable'[e] > 0 PROVE e.id \in Accepted'
    <2>1. CASE logTable'[e] = logTable[e] BY <1>0, <1>5, <2>1 DEF KnownInv
    <2>2. CASE logTable'[e] # logTable[e]
        <3>1. ASSUME NEW c \in Calls, key[c] = "logs", e \in Elements(data[c]) PROVE e.id \in Accepted
            BY <3>1, WaitingIs DEF KnownInv, Keys
        <3> QED BY <1>0, <1>2, <2>2, <3>1, LogFrom DEF Deleted
    <2> QED BY <2>1, <2>2
<1> QED BY <1>1, <1>3, <1>4, <1>5 DEF KnownInv

---------------------------------------------------------------------------
(* A SEND log is inserted once                                             *)

(* At most one position of s holds e. *)
Once(s, e) == \A i, j \in 1..Len(s) : s[i] = e /\ s[j] = e => i = j

LEMMA OnceEmpty == \A e : Once(<<>>, e)
BY DEF Once

LEMMA OnceAppend ==
    ASSUME NEW s \in Seq(Entry), NEW x \in Entry, NEW e, Once(s, e),
           x # e \/ e \notin Elements(s)
    PROVE  Once(Append(s, x), e)
<1>1. /\ Len(Append(s, x)) = Len(s) + 1 /\ Append(s, x)[Len(s) + 1] = x
      /\ \A i \in 1..Len(s) : Append(s, x)[i] = s[i] /\ s[i] \in Elements(s)
    BY DEF Elements
<1>2. Len(s) \in Nat /\ 1..(Len(s) + 1) = 1..Len(s) \cup {Len(s) + 1}
    OBVIOUS
<1> QED BY <1>1, <1>2 DEF Once

(* What stands in a list once stands in one part of it, and once there.    *)
LEMMA OnceParts ==
    ASSUME NEW s \in Seq(Entry), NEW n \in 0..Len(s), NEW e, Once(s, e)
    PROVE  /\ Once(SubSeq(s, 1, n), e) /\ Once(SubSeq(s, n + 1, Len(s)), e)
           /\ ~(e \in Elements(SubSeq(s, 1, n)) /\ e \in Elements(SubSeq(s, n + 1, Len(s))))
<1> DEFINE a == SubSeq(s, 1, n)
           b == SubSeq(s, n + 1, Len(s))
<1>1. Len(a) = n /\ \A i \in 1..n : a[i] = s[i] /\ i \in 1..Len(s)
    OBVIOUS
<1>2. Len(b) = Len(s) - n /\ \A i \in 1..(Len(s) - n) : b[i] = s[n + i] /\ n + i \in 1..Len(s)
    OBVIOUS
<1>3. n \in Nat /\ Len(s) - n \in Nat OBVIOUS
<1> HIDE DEF a, b
<1>4. Once(a, e) BY <1>1 DEF Once
<1>5. Once(b, e)
    <2> SUFFICES ASSUME NEW i \in 1..Len(b), NEW j \in 1..Len(b), b[i] = e, b[j] = e PROVE i = j
        BY DEF Once
    <2>1. n + i = n + j BY <1>2 DEF Once
    <2> QED BY <1>2, <1>3, <2>1
<1>6. ASSUME e \in Elements(a), e \in Elements(b) PROVE FALSE
    <2>1. PICK i \in 1..n : a[i] = e BY <1>1, <1>6 DEF Elements
    <2>2. PICK j \in 1..(Len(s) - n) : b[j] = e BY <1>2, <1>6 DEF Elements
    <2>3. i = n + j BY <1>1, <1>2, <2>1, <2>2 DEF Once
    <2> QED BY <1>3, <2>3
<1> QED BY <1>4, <1>5, <1>6 DEF a, b

(* Unless m was exposed, its SEND log stands once in each list, is not in    *)
(* the table while a batch still has it in hand, and what is in the buffer  *)
(* is nowhere else.                                                        *)
LogOnce(m) ==
    LET e == Live(m) IN
    /\ Once(buffer["logs"], e) /\ Once(temp["logs"], e)
    /\ e \in Elements(buffer["logs"]) => logTable[e] = 0 /\ e \notin Elements(temp["logs"])
    /\ \A c \in Calls : key[c] = "logs" =>
         /\ Once(data[c], e)
         /\ e \in Elements(data[c]) => logTable[e] = 0 /\ e \notin Elements(buffer["logs"])
         /\ pc[c] = "lrange" /\ e \in Elements(temp["logs"]) => logTable[e] = 0
    /\ logTable[e] <= 1

LogOnceInv == \A m \in Messages \ atRisk : LogOnce(m)

(* Only RENAME leads to LRANGE. *)
LEMMA RangeFrom ==
    ASSUME TypeOK, [Next]_vars, NEW c \in Calls, pc'[c] = "lrange", pc[c] # "lrange"
    PROVE  RenameList(c)
<1> USE DEF TypeOK, Goto, batches, deletes
<1>1. ASSUME NEW m \in Messages, Push(m) \/ CheckLength(m) PROVE FALSE
    BY <1>1 DEF Push, CheckLength
<1>2. ASSUME NEW p \in Procs, CronTick(p) PROVE FALSE
    BY <1>2 DEF CronTick
<1>3. ASSUME NEW p \in Procs, Crash(p) PROVE FALSE
    BY <1>3 DEF Crash, Rest
<1>4. ASSUME NEW b \in Calls, BatchStep(b), ~RenameList(b) PROVE FALSE
    BY <1>4 DEF BatchStep, TryLock, Begin, ReadLength, ReadTemp, InsertChunk,
                InsertFails, DeleteTemp, Finish, Rest
<1>5. ASSUME NEW b \in Calls, RenameList(b) PROVE b = c
    BY <1>5 DEF RenameList
<1>6. ASSUME NEW d \in DelReqs, DeleteStep(d) PROVE FALSE
    BY <1>6 DEF DeleteStep, FindMessage, FindBuffered, MarkBuffered, FindCached, MarkCached,
                CommitDelete, CommitFails
<1>7. CASE LockExpires \/ LockOverrun \/ UNCHANGED vars
    BY <1>7 DEF LockExpires, LockOverrun, vars
<1> QED BY <1>1, <1>2, <1>3, <1>4, <1>5, <1>6, <1>7 DEF Next

(* Of what was not exposed one batch at most is in charge. *)
LEMMA InChargeOnce ==
    ASSUME TypeOK, PipeInv, NEW k \in Keys, NEW e \in Waiting(k), e.id \notin atRisk,
           NEW b \in Calls, NEW c \in Calls, pc[b] \in Running, pc[c] \in Running
    PROVE  b = c
BY DEF PipeInv, Overlap, Batches

LEMMA InitLogOnce == Init => LogOnceInv
<1> SUFFICES ASSUME Init, NEW m \in Messages PROVE LogOnce(m) BY DEF LogOnceInv
<1>1. Live(m) \in Entry /\ "logs" \in Keys BY EntryTypes DEF Keys
<1> QED BY <1>1, OnceEmpty, ElementsOfEmpty DEF Init, LogOnce

LEMMA NextLogOnce == TypeOK /\ PipeInv /\ KnownInv /\ LogOnceInv /\ [Next]_vars => LogOnceInv'
<1> SUFFICES ASSUME TypeOK, PipeInv, KnownInv, LogOnceInv, [Next]_vars,
                    NEW m \in Messages, m \notin atRisk'
             PROVE  LogOnce(m)'
    BY DEF LogOnceInv
<1> DEFINE e == Live(m)
<1> USE DEF redis, batches, deletes
<1>0. /\ "logs" \in Keys /\ m \notin atRisk /\ e \in Entry /\ e.id = m /\ LogOnce(m)
      /\ \A x \in Messages : e # Deleted(x) /\ (x # m => e # Live(x))
    BY RiskGrows, EntryTypes DEF LogOnceInv, Keys, Live, Deleted
<1>1. /\ buffer["logs"] \in Seq(Entry) /\ temp["logs"] \in Seq(Entry) /\ logTable[e] \in Nat
      /\ \A c \in Calls : data[c] \in Seq(Entry)
    BY <1>0 DEF TypeOK
<1> HIDE DEF e
<1> DEFINE B == buffer["logs"]
           T == temp["logs"]
           n == logTable[e]
<1>2. /\ Once(B, e) /\ Once(T, e) /\ n <= 1
      /\ e \in Elements(B) => n = 0 /\ e \notin Elements(T)
      /\ \A c \in Calls : key[c] = "logs" =>
           /\ Once(data[c], e)
           /\ e \in Elements(data[c]) => n = 0 /\ e \notin Elements(B)
           /\ pc[c] = "lrange" /\ e \in Elements(T) => n = 0
    BY <1>0 DEF LogOnce, e
<1>3. LogOnce(m)' <=>
      /\ Once(B', e) /\ Once(T', e) /\ n' <= 1
      /\ e \in Elements(B') => n' = 0 /\ e \notin Elements(T')
      /\ \A c \in Calls : key'[c] = "logs" =>
           /\ Once(data'[c], e)
           /\ e \in Elements(data'[c]) => n' = 0 /\ e \notin Elements(B')
           /\ pc'[c] = "lrange" /\ e \in Elements(T') => n' = 0
    BY DEF LogOnce, e
<1>4. ASSUME n' # n PROVE \E c \in Calls : InsertChunk(c)
    BY <1>0, <1>4, LogFrom, RequestsAssumption
<1>5. \A c \in Calls : pc'[c] = "lrange" => pc[c] = "lrange" \/ RenameList(c)
    BY RangeFrom
<1>6. CASE ~Moves
    <2>1. n' = n /\ Quiet /\ \A c \in Calls : ~RenameList(c)
        BY <1>4, <1>6, QuietOrMoves DEF Moves
    <2> QED BY <1>2, <1>3, <1>5, <2>1 DEF Quiet
<1>7. ASSUME NEW x \in Messages, Push(x) PROVE LogOnce(m)'
    <2>1. /\ n' = n /\ T' = T /\ key' = key /\ data' = data /\ B' = Append(B, Live(x))
          /\ \A c \in Calls : pc'[c] = "lrange" => pc[c] = "lrange"
        BY <1>0, <1>7 DEF Push, mysql, Goto, TypeOK
    <2>2. Live(x) \in Entry /\ Elements(B') = Elements(B) \cup {Live(x)}
        BY <1>1, <2>1, ElementsOfAppend, EntryTypes
    <2>3. CASE x = m
        <3>1. m \notin Accepted BY <1>7, <2>3 DEF Push, Accepted
        <3>2. e \notin Waiting("logs") /\ n = 0 BY <1>0, <1>1, <3>1 DEF KnownInv
        <3>3. e \notin Elements(B) /\ e \notin Elements(T)
              /\ \A c \in Calls : key[c] = "logs" => e \notin Elements(data[c])
            BY <3>2, WaitingIs
        <3>4. Once(B', e) BY <1>1, <1>2, <2>1, <2>2, <3>3, OnceAppend
        <3> HIDE DEF B, T, n
        <3> QED BY <1>2, <1>3, <2>1, <3>2, <3>3, <3>4
    <2>4. CASE x # m
        <3>1. e # Live(x) BY <1>0, <2>4
        <3>2. Once(B', e) BY <1>1, <1>2, <2>1, <2>2, <3>1, OnceAppend
        <3> HIDE DEF B, T, n
        <3> QED BY <1>2, <1>3, <2>1, <2>2, <3>1, <3>2
    <2> QED BY <2>3, <2>4
<1>8. ASSUME NEW c \in Calls, RenameList(c) PROVE LogOnce(m)'
    <2>1. /\ n' = n /\ key' = key /\ data' = data
          /\ \A b \in Calls : b # c => pc'[b] = pc[b]
        BY <1>8 DEF RenameList, mysql, Goto, TypeOK
    <2>2. CASE key[c] = "logs" /\ B # <<>>
        <3>1. B' = <<>> /\ T' = B BY <1>0, <1>8, <2>2 DEF RenameList, TypeOK
        <3> HIDE DEF B, T, n
        <3> QED BY <1>2, <1>3, <2>1, <3>1, OnceEmpty, ElementsOfEmpty
    <2>3. CASE ~(key[c] = "logs" /\ B # <<>>)
        <3>1. /\ B' = B /\ T' = T
              /\ key[c] = "logs" => pc'[c] # "lrange"
            BY <1>0, <1>8, <2>3 DEF RenameList, Goto, TypeOK
        <3> HIDE DEF B, T, n
        <3> QED BY <1>2, <1>3, <2>1, <3>1
    <2> QED BY <2>2, <2>3
<1>9. ASSUME NEW c \in Calls, ReadTemp(c) PROVE LogOnce(m)'
    <2>1. /\ n' = n /\ key' = key /\ B' = B /\ T' = T /\ pc[c] = "lrange" /\ data'[c] = temp[key[c]]
          /\ \A b \in Calls : b # c => pc'[b] = pc[b] /\ data'[b] = data[b]
          /\ pc'[c] # "lrange"
        BY <1>9 DEF ReadTemp, mysql, Goto, TypeOK
    <2> HIDE DEF B, n
    <2> QED BY <1>2, <1>3, <2>1
<1>10. ASSUME NEW c \in Calls, InsertChunk(c) PROVE LogOnce(m)'
    <2> DEFINE l == IF ChunkSize < Len(data[c]) THEN ChunkSize ELSE Len(data[c])
               chunk == SubSeq(data[c], 1, l)
               others == SubSeq(data[c], l + 1, Len(data[c]))
               at == {i \in 1..Len(chunk) : chunk[i] = e}
    <2>1. /\ key' = key /\ B' = B /\ T' = T /\ data'[c] = others /\ pc[c] = "insert"
          /\ \A b \in Calls : b # c => pc'[b] = pc[b] /\ data'[b] = data[b]
          /\ pc'[c] # "lrange"
        BY <1>10 DEF InsertChunk, mysql, Goto, TypeOK
    <2>2. l \in 0..Len(data[c]) BY <1>1, SizesAssumption
    <2>3. /\ Elements(data[c]) = Elements(chunk) \cup Elements(others)
          /\ chunk \in Seq(Entry)
        BY <1>1, <2>2, ElementsOfParts
    <2>4. key[c] = "logs" => Once(chunk, e) /\ Once(others, e)
              /\ ~(e \in Elements(chunk) /\ e \in Elements(others))
        BY <1>1, <1>2, <2>2, OnceParts
    <2>5. CASE key[c] # "logs"
        <3>1. n' = n BY <1>10, <2>5 DEF InsertChunk, InsertRows, TypeOK, Keys
        <3> HIDE DEF B, T, n, others
        <3> QED BY <1>2, <1>3, <2>1, <2>5, <3>1
    <2>6. CASE key[c] = "logs" /\ e \notin Elements(chunk)
        <3>1. at = {} BY <2>6 DEF Elements
        <3>2. n' = n + Cardinality(at)
            BY <1>0, <1>10, <2>6 DEF InsertChunk, InsertLogs
        <3>3. n' = n
            <4>1. Cardinality(at) = 0 BY <3>1, FS_EmptySet
            <4> HIDE DEF n, at
            <4> QED BY <1>1, <3>2, <4>1 DEF n
        <3> HIDE DEF B, T, n, others
        <3> QED BY <1>2, <1>3, <2>1, <2>3, <2>4, <2>6, <3>3
    <2>7. CASE key[c] = "logs" /\ e \in Elements(chunk)
        <3>1. n' = n + Cardinality(at)
            BY <1>0, <1>10, <2>7 DEF InsertChunk, InsertLogs
        <3>2. PICK i \in 1..Len(chunk) : chunk[i] = e BY <2>7 DEF Elements
        <3>3. at = {i} BY <2>4, <2>7, <3>2 DEF Once
        <3>4. n' = 1
            <4>1. n = 0 BY <1>2, <2>3, <2>7
            <4>2. Cardinality(at) = 1 BY <3>3, FS_Singleton
            <4> HIDE DEF n, at
            <4> QED BY <3>1, <4>1, <4>2
        <3>5. e \in Waiting("logs") /\ e \notin Elements(B) BY <1>2, <2>3, <2>7, WaitingIs
        <3>6. ASSUME NEW b \in Calls, key[b] = "logs", b # c
              PROVE  e \notin Elements(data[b]) /\ pc[b] # "lrange"
            <4>1. pc[b] \notin {"insert", "lrange"}
                BY <1>0, <2>1, <3>5, <3>6, InChargeOnce DEF Running
            <4>2. data[b] = <<>> BY <4>1 DEF PipeInv
            <4> QED BY <4>1, <4>2, ElementsOfEmpty
        <3> HIDE DEF B, T, n, others, at
        <3> QED BY <1>2, <1>3, <2>1, <2>4, <2>7, <3>4, <3>5, <3>6
    <2> QED BY <2>5, <2>6, <2>7
<1>11. ASSUME NEW c \in Calls, InsertFails(c) PROVE LogOnce(m)'
    <2>1. /\ n' = n /\ key' = key /\ B' = B /\ T' = T /\ data'[c] = <<>>
          /\ \A b \in Calls : b # c => pc'[b] = pc[b] /\ data'[b] = data[b]
          /\ pc'[c] # "lrange"
        BY <1>11 DEF InsertFails, mysql, Goto, TypeOK
    <2> HIDE DEF B, T, n
    <2> QED BY <1>2, <1>3, <2>1, OnceEmpty, ElementsOfEmpty
<1>12. ASSUME NEW c \in Calls, DeleteTemp(c) PROVE LogOnce(m)'
    <2>1. /\ n' = n /\ B' = B /\ data' = data /\ data[c] = <<>>
          /\ \A b \in Calls : b # c => pc'[b] = pc[b] /\ key'[b] = key[b]
          /\ pc'[c] # "lrange" /\ (T' = T \/ T' = <<>>)
        BY <1>0, <1>12 DEF DeleteTemp, mysql, Goto, TypeOK, PipeInv
    <2> HIDE DEF B, T, n
    <2> QED BY <1>2, <1>3, <2>1, OnceEmpty, ElementsOfEmpty
<1>13. ASSUME NEW c \in Calls, Finish(c) PROVE LogOnce(m)'
    <2>1. /\ n' = n /\ B' = B /\ T' = T /\ data' = data /\ key'[c] # "logs"
          /\ \A b \in Calls : b # c => pc'[b] = pc[b] /\ key'[b] = key[b]
        BY <1>13 DEF Finish, mysql, Goto, TypeOK
    <2> HIDE DEF B, T, n
    <2> QED BY <1>2, <1>3, <2>1
<1>14. ASSUME NEW d \in DelReqs, MarkBuffered(d) PROVE LogOnce(m)'
    <2>1. Target[d] \in Messages /\ Deleted(Target[d]) \in Entry BY RequestsAssumption, EntryTypes
    <2>2. /\ n' = n /\ T' = T /\ key' = key /\ data' = data /\ pc' = pc
          /\ B' = Append(B, Deleted(Target[d]))
        BY <1>0, <1>14 DEF MarkBuffered, mysql, TypeOK
    <2>3. Elements(B') = Elements(B) \cup {Deleted(Target[d])}
        BY <1>1, <2>1, <2>2, ElementsOfAppend
    <2>4. Once(B', e) BY <1>0, <1>1, <1>2, <2>1, <2>2, OnceAppend
    <2>5. e # Deleted(Target[d]) BY <1>0, <2>1
    <2> HIDE DEF B, T, n
    <2> QED BY <1>2, <1>3, <2>2, <2>3, <2>4, <2>5
<1>15. ASSUME NEW p \in Procs, Crash(p) PROVE LogOnce(m)'
    <2>1. /\ n' = n /\ T' = T /\ B' = B
          /\ \A c \in Calls : \/ data'[c] = <<>> /\ pc'[c] # "lrange"
                              \/ data'[c] = data[c] /\ pc'[c] = pc[c] /\ key'[c] = key[c]
        BY <1>15 DEF Crash, mysql, Rest
    <2> HIDE DEF B, T, n
    <2> QED BY <1>2, <1>3, <2>1, OnceEmpty, ElementsOfEmpty
<1> QED BY <1>6, <1>7, <1>8, <1>9, <1>10, <1>11, <1>12, <1>13, <1>14, <1>15 DEF Moves

LEMMA LogOnceSuffices == LogOnceInv => SendLoggedOnce
BY DEF LogOnceInv, LogOnce, SendLoggedOnce

(* No SEND log is inserted twice, although message_logs has no key that     *)
(* would refuse it: the renames hand each entry to one batch, and a batch   *)
(* inserts each row of its list in one chunk.                              *)
THEOREM SendsLogOnce == Spec => []SendLoggedOnce
<1>1. Init => TypeOK /\ PipeInv /\ KnownInv /\ LogOnceInv
    BY InitTypeOK, InitPipeInv, InitKnownInv, InitLogOnce
<1>2. TypeOK /\ PipeInv /\ KnownInv /\ LogOnceInv /\ [Next]_vars
        => (TypeOK /\ PipeInv /\ KnownInv /\ LogOnceInv)'
    BY NextTypeOK, NextPipeInv, NextKnownInv, NextLogOnce
<1> QED BY <1>1, <1>2, LogOnceSuffices, PTL DEF Spec
=============================================================================
