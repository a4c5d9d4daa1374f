---------------------------- MODULE MessageId_proofs ----------------------------
(***************************************************************************)
(* Proofs about MessageId, for every number of processes, every limit of   *)
(* the sequence number and without a bound on the clock or the ids.        *)
(***************************************************************************)
EXTENDS MessageId, FiniteSetTheorems, TLAPS

LEMMA Remainder ==
    ASSUME NEW m \in Nat \ {0}, NEW n \in Nat
    PROVE  n % m \in 0..(m - 1) /\ (n < m => n % m = n)
OBVIOUS

Entry == [by : Procs, id : Id]

LEMMA SequenceType ==
    ASSUME TypeOK, NEW p \in Procs
    PROVE  SequenceAt(p) \in 0..(SeqLimit - 1)
<1>1. SeqLimit \in Nat \ {0} /\ sequence[p] + 1 \in Nat BY IdAssumption DEF TypeOK
<1>2. (sequence[p] + 1) % SeqLimit \in 0..(SeqLimit - 1) BY <1>1, Remainder
<1> QED BY <1>1, <1>2 DEF SequenceAt

LEMMA NextType == TypeOK /\ [Next]_vars => TypeOK'
<1> SUFFICES ASSUME TypeOK, [Next]_vars PROVE TypeOK' OBVIOUS
<1>1. ASSUME NEW p \in Procs, GenerateCustomId(p) PROVE TypeOK'
    <2> DEFINE new == [by |-> p, id |-> [time |-> now, worker |-> WorkerId[p], seq |-> SequenceAt(p)]]
    <2>1. SequenceAt(p) \in 0..(SeqLimit - 1) BY SequenceType
    <2>2. new \in Entry BY <2>1, IdAssumption DEF Entry, Id, TypeOK
    <2> HIDE DEF new
    <2>3. issued \in Seq(Entry) /\ issued' = Append(issued, new)
        BY <1>1 DEF GenerateCustomId, TypeOK, Entry, new
    <2>4. issued' \in Seq(Entry) BY <2>2, <2>3
    <2> QED BY <1>1, <2>1, <2>4 DEF GenerateCustomId, TypeOK, Entry
<1>2. CASE Tick BY <1>2 DEF Tick, TypeOK
<1>3. CASE SetBack
    <2>1. now' \in Nat BY <1>3 DEF SetBack, TypeOK
    <2> QED BY <1>3, <2>1 DEF SetBack, TypeOK
<1>4. CASE UNCHANGED vars BY <1>4 DEF vars, TypeOK
<1> QED BY <1>1, <1>2, <1>3, <1>4 DEF Next

(* The parts of every id keep their width, the sequence number among them.   *)
THEOREM IdsTypeCorrect == Spec => []TypeOK
<1>1. Init => TypeOK BY IdAssumption DEF Init, TypeOK
<1> QED BY <1>1, NextType, PTL DEF Spec

-----------------------------------------------------------------------------
(* The order of the ids                                                     *)

(* The ids that a process has given in the millisecond of its last one. *)
Burst(p) == {k \in 1..Len(issued) : issued[k].by = p /\ issued[k].id.time = lastTimestamp[p]}

(* While the clock is not set back, ids are of the past, and the sequence     *)
(* number counts those of the last millisecond until there are too many.     *)
ClockInv ==
    /\ now >= 1
    /\ \A k \in 1..Len(issued) : issued[k].id.worker = WorkerId[issued[k].by]
    /\ slips = 0 =>
         /\ \A p \in Procs : lastTimestamp[p] <= now
         /\ \A k \in 1..Len(issued) : issued[k].id.time <= lastTimestamp[issued[k].by]
    /\ \A p \in Procs : lastTimestamp[p] # 0 => Burst(p) # {}
    /\ slips = 0 => \A p \in Procs :
         Burst(p) # {} /\ Cardinality(Burst(p)) <= SeqLimit =>
           /\ sequence[p] = Cardinality(Burst(p)) - 1
           /\ \A k \in Burst(p) : issued[k].id.seq <= sequence[p]

LEMMA BurstFinite == ASSUME TypeOK, NEW p PROVE IsFiniteSet(Burst(p))
<1>1. IsFiniteSet(1..Len(issued)) BY FS_Interval DEF TypeOK
<1> QED BY <1>1, FS_Subset DEF Burst

(* What a call adds. *)
LEMMA Adds ==
    ASSUME TypeOK, NEW p \in Procs, GenerateCustomId(p)
    PROVE  LET n == Len(issued) + 1 IN
           /\ Len(issued) \in Nat /\ Len(issued') = n
           /\ \A k \in 1..Len(issued) : issued'[k] = issued[k] /\ issued[k] \in Entry
           /\ issued'[n].by = p /\ issued'[n].id.time = now
           /\ issued'[n].id.worker = WorkerId[p] /\ issued'[n].id.seq = SequenceAt(p)
<1> DEFINE new == [by |-> p, id |-> [time |-> now, worker |-> WorkerId[p], seq |-> SequenceAt(p)]]
<1>1. /\ new.by = p /\ new.id.time = now /\ new.id.worker = WorkerId[p] /\ new.id.seq = SequenceAt(p)
    OBVIOUS
<1>2. issued' = Append(issued, new) /\ issued \in Seq(Entry)
    BY DEF GenerateCustomId, TypeOK, Entry
<1> HIDE DEF new
<1> QED BY <1>1, <1>2

(* The burst of the process that gives an id, and that of another one. *)
LEMMA BurstGrows ==
    ASSUME TypeOK, ClockInv, NEW p \in Procs, GenerateCustomId(p)
    PROVE  LET n == Len(issued) + 1 IN
           /\ lastTimestamp[p] = now => Burst(p)' = Burst(p) \cup {n}
           /\ slips = 0 /\ lastTimestamp[p] # now => Burst(p)' = {n}
           /\ n \in Burst(p)'
           /\ n \notin Burst(p)
           /\ \A q \in Procs \ {p} : Burst(q)' = Burst(q)
<1> DEFINE n == Len(issued) + 1
<1>1. /\ Len(issued) \in Nat /\ Len(issued') = n
      /\ \A k \in 1..Len(issued) : issued'[k] = issued[k] /\ issued[k] \in Entry
      /\ issued'[n].by = p /\ issued'[n].id.time = now
    BY Adds
<1>2. /\ lastTimestamp'[p] = now /\ \A q \in Procs \ {p} : lastTimestamp'[q] = lastTimestamp[q]
    BY DEF GenerateCustomId, TypeOK
<1>3. 1..Len(issued') = 1..Len(issued) \cup {n} /\ n \notin 1..Len(issued) BY <1>1
<1>4. Burst(p)' = {k \in 1..Len(issued') : issued'[k].by = p /\ issued'[k].id.time = lastTimestamp'[p]}
    BY DEF Burst
<1>5. \A q \in Procs \ {p} :
        Burst(q)' = {k \in 1..Len(issued') : issued'[k].by = q /\ issued'[k].id.time = lastTimestamp'[q]}
    BY DEF Burst
<1>6. ASSUME slips = 0, lastTimestamp[p] # now, NEW k \in 1..Len(issued), issued[k].by = p
      PROVE  issued[k].id.time # now
    <2>1. issued[k].id.time <= lastTimestamp[p] /\ lastTimestamp[p] <= now BY <1>6 DEF ClockInv
    <2>2. issued[k].id.time \in Nat BY <1>1 DEF Entry, Id
    <2> QED BY <1>6, <2>1, <2>2 DEF TypeOK
<1> HIDE DEF n
<1>7. lastTimestamp[p] = now => Burst(p)' = Burst(p) \cup {n} BY <1>1, <1>2, <1>3, <1>4 DEF Burst
<1>8. slips = 0 /\ lastTimestamp[p] # now => Burst(p)' = {n}
    BY <1>1, <1>2, <1>3, <1>4, <1>6 DEF Burst
<1>9. n \in Burst(p)' /\ n \notin Burst(p) BY <1>1, <1>2, <1>3, <1>4 DEF Burst
<1>10. \A q \in Procs \ {p} : Burst(q)' = Burst(q) BY <1>1, <1>2, <1>3, <1>5 DEF Burst
<1> QED BY <1>7, <1>8, <1>9, <1>10 DEF n

LEMMA NextClock == TypeOK /\ TypeOK' /\ ClockInv /\ [Next]_vars => ClockInv'
<1> SUFFICES ASSUME TypeOK, TypeOK', ClockInv, [Next]_vars PROVE ClockInv' OBVIOUS
<1>1. ASSUME NEW p \in Procs, GenerateCustomId(p) PROVE ClockInv'
    <2> DEFINE n == Len(issued) + 1
    <2>1. /\ Len(issued) \in Nat /\ Len(issued') = n
          /\ \A k \in 1..Len(issued) : issued'[k] = issued[k] /\ issued[k] \in Entry
          /\ issued'[n].by = p /\ issued'[n].id.time = now
          /\ issued'[n].id.worker = WorkerId[p] /\ issued'[n].id.seq = SequenceAt(p)
        BY <1>1, Adds
    <2>2. /\ lastTimestamp'[p] = now /\ sequence'[p] = SequenceAt(p) /\ UNCHANGED <<now, slips>>
          /\ \A q \in Procs \ {p} : lastTimestamp'[q] = lastTimestamp[q] /\ sequence'[q] = sequence[q]
        BY <1>1 DEF GenerateCustomId, TypeOK
    <2>3. 1..Len(issued') = 1..Len(issued) \cup {n} /\ n \notin 1..Len(issued) BY <2>1
    <2> HIDE DEF n
    <2>4. /\ lastTimestamp[p] = now => Burst(p)' = Burst(p) \cup {n}
          /\ slips = 0 /\ lastTimestamp[p] # now => Burst(p)' = {n}
          /\ n \in Burst(p)' /\ n \notin Burst(p)
          /\ \A q \in Procs \ {p} : Burst(q)' = Burst(q)
        BY <1>1, BurstGrows DEF n
    <2>5. \A k \in 1..Len(issued') : issued'[k].id.worker = WorkerId[issued'[k].by]
        BY <2>1, <2>3 DEF ClockInv
    <2>6. ASSUME slips = 0
          PROVE  /\ \A q \in Procs : lastTimestamp'[q] <= now'
                 /\ \A k \in 1..Len(issued') : issued'[k].id.time <= lastTimestamp'[issued'[k].by]
        <3>0. now \in Nat /\ \A q \in Procs : lastTimestamp[q] \in Nat /\ lastTimestamp[q] <= now
            BY <2>6 DEF ClockInv, TypeOK
        <3>1. \A q \in Procs : lastTimestamp'[q] <= now' /\ lastTimestamp[q] <= lastTimestamp'[q]
            BY <2>2, <3>0
        <3>2. ASSUME NEW k \in 1..Len(issued)
              PROVE  issued'[k].id.time <= lastTimestamp'[issued'[k].by]
            <4>1. issued'[k] = issued[k] /\ issued[k].by \in Procs /\ issued[k].id.time \in Nat
                BY <2>1 DEF Entry, Id
            <4>2. issued[k].id.time <= lastTimestamp[issued[k].by] BY <2>6 DEF ClockInv
            <4>3. /\ lastTimestamp[issued[k].by] \in Nat /\ lastTimestamp'[issued[k].by] \in Nat
                  /\ lastTimestamp[issued[k].by] <= lastTimestamp'[issued[k].by]
                BY <3>1, <4>1 DEF TypeOK
            <4> QED BY <4>1, <4>2, <4>3
        <3>3. issued'[n].id.time <= lastTimestamp'[issued'[n].by] BY <2>1, <2>2 DEF TypeOK
        <3> QED BY <2>3, <3>1, <3>2, <3>3
    <2>7. \A q \in Procs : lastTimestamp'[q] # 0 => Burst(q)' # {}
        BY <2>2, <2>4 DEF ClockInv
    <2>8. ASSUME slips = 0, NEW q \in Procs, Burst(q)' # {}, Cardinality(Burst(q)') <= SeqLimit
          PROVE  /\ sequence'[q] = Cardinality(Burst(q)') - 1
                 /\ \A k \in Burst(q)' : issued'[k].id.seq <= sequence'[q]
        <3> DEFINE B == Burst(q)
        <3>0. B \subseteq 1..Len(issued) /\ IsFiniteSet(B) BY BurstFinite DEF Burst
        <3>1. CASE q # p
            BY <2>1, <2>2, <2>4, <2>8, <3>0, <3>1 DEF ClockInv
        <3>2. CASE q = p /\ lastTimestamp[p] # now
            <4>1. SequenceAt(p) = 0 BY <3>2 DEF SequenceAt
            <4>2. Burst(q)' = {n} /\ Cardinality({n}) = 1 BY <2>4, <2>8, <3>2, FS_Singleton
            <4> QED BY <2>1, <2>2, <3>2, <4>1, <4>2
        <3>3. CASE q = p /\ lastTimestamp[p] = now
            <4>1. Burst(q)' = B \cup {n} /\ n \notin B BY <2>4, <3>3
            <4>2. B # {}
                <5>1. now >= 1 /\ now \in Nat BY DEF ClockInv, TypeOK
                <5>2. lastTimestamp[p] # 0 BY <3>3, <5>1
                <5> QED BY <3>3, <5>2 DEF ClockInv
            <4> DEFINE c == Cardinality(B)
            <4>3. c \in Nat BY <3>0, FS_CardinalityType
            <4>4. Cardinality(Burst(q)') = c + 1 BY <3>0, <4>1, FS_AddElement
            <4> HIDE DEF c
            <4>5. c < SeqLimit /\ c <= SeqLimit BY <2>8, <4>3, <4>4, IdAssumption
            <4>6. sequence[p] = c - 1 /\ \A k \in B : issued[k].id.seq <= sequence[p]
                BY <2>8, <3>3, <4>2, <4>5 DEF ClockInv, c
            <4>7. SequenceAt(p) = c
                <5>1. c % SeqLimit = c BY <4>3, <4>5, Remainder, IdAssumption
                <5>2. sequence[p] + 1 = c BY <4>3, <4>6
                <5> QED BY <3>3, <5>1, <5>2 DEF SequenceAt
            <4>8. ASSUME NEW k \in B PROVE issued'[k].id.seq <= c
                <5>1. issued'[k] = issued[k] /\ issued[k].id.seq \in Int
                    BY <2>1, <3>0, IdAssumption DEF Entry, Id
                <5> QED BY <4>3, <4>6, <5>1
            <4> QED BY <2>1, <2>2, <3>3, <4>1, <4>3, <4>4, <4>7, <4>8
        <3> QED BY <3>1, <3>2, <3>3
    <2> QED BY <2>2, <2>5, <2>6, <2>7, <2>8 DEF ClockInv
<1>2. CASE Tick
    <2>1. /\ now \in Nat /\ now' = now + 1 /\ UNCHANGED <<lastTimestamp, sequence, issued, slips>>
        BY <1>2 DEF Tick, TypeOK
    <2>2. \A p \in Procs : lastTimestamp[p] \in Nat /\ Burst(p)' = Burst(p)
        BY <2>1 DEF Burst, TypeOK
    <2>3. slips = 0 => \A p \in Procs : lastTimestamp[p] <= now'
        BY <2>1, <2>2 DEF ClockInv
    <2>4. now' >= 1 BY <2>1
    <2> QED BY <2>1, <2>2, <2>3, <2>4 DEF ClockInv
<1>3. CASE SetBack
    <2>1. slips' # 0 /\ now' >= 1 /\ UNCHANGED <<lastTimestamp, sequence, issued>>
        BY <1>3 DEF SetBack, TypeOK
    <2> QED BY <2>1 DEF ClockInv, Burst
<1>4. CASE UNCHANGED vars BY <1>4 DEF vars, ClockInv, Burst
<1> QED BY <1>1, <1>2, <1>3, <1>4 DEF Next

LEMMA ClockHolds == Spec => [](TypeOK /\ ClockInv)
<1>1. Init => ClockInv
    <2> SUFFICES ASSUME Init PROVE ClockInv OBVIOUS
    <2>1. Len(issued) = 0 BY DEF Init
    <2>2. 1..Len(issued) = {} BY <2>1
    <2>3. \A p \in Procs : Burst(p) = {} BY <2>2 DEF Burst
    <2>4. now = 1 /\ \A p \in Procs : lastTimestamp[p] = 0 BY DEF Init
    <2> QED BY <2>2, <2>3, <2>4 DEF ClockInv
<1> QED BY <1>1, IdsTypeCorrect, NextClock, PTL DEF Spec

(* What IdsIncrease says of the id given j-th. *)
BurstTo(j) ==
    {k \in 1..j : issued[k].by = issued[j].by /\ issued[k].id.time = issued[j].id.time}

LEMMA NextIncrease ==
    TypeOK /\ ClockInv /\ IdsIncrease /\ [Next]_vars => IdsIncrease'
<1> SUFFICES ASSUME TypeOK, ClockInv, IdsIncrease, NEW p \in Procs, GenerateCustomId(p),
                    NEW j \in 1..Len(issued'), NEW i \in 1..(j - 1),
                    issued'[i].by = issued'[j].by, slips' = 0,
                    Cardinality(BurstTo(j)') <= SeqLimit
             PROVE  Precedes(issued'[i].id, issued'[j].id)
    <2>1. CASE UNCHANGED issued /\ (slips' = 0 => slips = 0)
        BY <2>1 DEF IdsIncrease, Precedes
    <2>2. CASE Tick BY <2>1, <2>2 DEF Tick
    <2>3. CASE SetBack
        <3>0. TypeOK => slips \in Nat BY DEF TypeOK
        <3>1. TypeOK => slips' # 0 BY <2>3, <3>0 DEF SetBack
        <3> QED BY <3>1 DEF IdsIncrease
    <2>4. CASE UNCHANGED vars BY <2>1, <2>4 DEF vars
    <2> QED BY <2>2, <2>3, <2>4 DEF Next, IdsIncrease, BurstTo, Precedes
<1> DEFINE n == Len(issued) + 1
<1>1. /\ Len(issued) \in Nat /\ Len(issued') = n
      /\ \A k \in 1..Len(issued) : issued'[k] = issued[k] /\ issued[k] \in Entry
      /\ issued'[n].by = p /\ issued'[n].id.time = now
      /\ issued'[n].id.worker = WorkerId[p] /\ issued'[n].id.seq = SequenceAt(p)
    BY Adds
<1>2. slips = 0 /\ i \in 1..Len(issued) /\ i < j BY <1>1 DEF GenerateCustomId
<1>3. CASE j \in 1..Len(issued)
    <2>1. \A k \in 1..j : issued'[k] = issued[k] BY <1>1, <1>3
    <2>2. BurstTo(j)' = {k \in 1..j : issued'[k].by = issued'[j].by /\ issued'[k].id.time = issued'[j].id.time}
        BY DEF BurstTo
    <2>3. BurstTo(j)' = BurstTo(j) BY <1>3, <2>1, <2>2 DEF BurstTo
    <2>4. issued[i].by = issued[j].by /\ Cardinality(BurstTo(j)) <= SeqLimit
        BY <1>2, <1>3, <2>1, <2>3
    <2>5. Precedes(issued[i].id, issued[j].id) BY <1>2, <1>3, <2>4 DEF IdsIncrease, BurstTo
    <2> QED BY <1>2, <1>3, <2>1, <2>5 DEF Precedes
<1>4. CASE j = n
    <2>1. /\ issued'[i] = issued[i] /\ issued[i] \in Entry /\ issued[i].by = p
          /\ issued[i].id.time <= lastTimestamp[p] /\ lastTimestamp[p] <= now
          /\ issued[i].id.worker = WorkerId[p]
        BY <1>1, <1>2, <1>4 DEF ClockInv
    <2>2. /\ issued[i].id.time \in Nat /\ lastTimestamp[p] \in Nat /\ now \in Nat
          /\ issued[i].id.seq \in Int
        <3>1. issued[i].id \in Id BY <2>1 DEF Entry
        <3>2. issued[i].id.time \in Nat /\ issued[i].id.seq \in Int
            BY <3>1 DEF Id
        <3> QED BY <3>2, IdAssumption DEF TypeOK
    <2>3. CASE issued[i].id.time < now BY <1>1, <1>4, <2>1, <2>3 DEF Precedes
    <2>4. CASE issued[i].id.time = now
        <3> DEFINE B == Burst(p)
                   c == Cardinality(B)
        <3>1. lastTimestamp[p] = now /\ i \in B BY <1>2, <2>1, <2>2, <2>4 DEF Burst
        <3>2. Burst(p)' = B \cup {n} /\ n \notin B BY <3>1, BurstGrows
        <3>3. Burst(p)' = BurstTo(j)'
            BY <1>1, <1>4 DEF Burst, BurstTo, GenerateCustomId, TypeOK
        <3>4. IsFiniteSet(B) BY BurstFinite
        <3>5. c \in Nat /\ Cardinality(B \cup {n}) = c + 1
            BY <3>2, <3>4, FS_AddElement, FS_CardinalityType
        <3>6. Cardinality(B \cup {n}) <= SeqLimit BY <3>2, <3>3
        <3> HIDE DEF c
        <3>7. c < SeqLimit /\ c <= SeqLimit BY <3>5, <3>6, IdAssumption
        <3>8. sequence[p] = c - 1 /\ issued[i].id.seq <= sequence[p]
            BY <1>2, <3>1, <3>7 DEF ClockInv, c
        <3>9. SequenceAt(p) = c
            <4>1. c % SeqLimit = c BY <3>5, <3>7, Remainder, IdAssumption
            <4>2. sequence[p] + 1 = c BY <3>5, <3>8
            <4> QED BY <3>1, <4>1, <4>2 DEF SequenceAt
        <3>10. issued[i].id.seq < SequenceAt(p) BY <2>2, <3>5, <3>8, <3>9
        <3> QED BY <1>1, <1>4, <2>1, <2>4, <3>10 DEF Precedes
    <2> QED BY <2>1, <2>2, <2>3, <2>4
<1> QED BY <1>1, <1>3, <1>4

(* The ids of one process increase, as long as the clock is not set back and *)
(* no millisecond has more ids than the sequence number counts.             *)
THEOREM IdsKeepOrder == Spec => []IdsIncrease
<1>1. Init => IdsIncrease BY DEF Init, IdsIncrease
<1> QED BY <1>1, ClockHolds, NextIncrease, PTL DEF Spec

(* Where every process has a worker number of its own, the clock is not set  *)
(* back and no millisecond has too many ids, no id is given twice: the      *)
(* comment of generateCustomId holds under these three conditions.          *)
THEOREM IdsApart ==
    ASSUME \A p, q \in Procs : p # q => WorkerId[p] # WorkerId[q]
    PROVE  Spec => [](slips = 0 /\ (\A j \in 1..Len(issued) : Cardinality(BurstTo(j)) <= SeqLimit)
                        => IdsUnique)
<1> DEFINE Calm == slips = 0 /\ \A j \in 1..Len(issued) : Cardinality(BurstTo(j)) <= SeqLimit
<1>1. TypeOK /\ ClockInv /\ IdsIncrease => (Calm => IdsUnique)
    <2> SUFFICES ASSUME TypeOK, ClockInv, IdsIncrease, Calm PROVE IdsUnique OBVIOUS
    <2>0. issued \in Seq(Entry) BY DEF TypeOK, Entry
    <2>1. \A k \in 1..Len(issued) : issued[k] \in Entry BY <2>0
    <2>2. ASSUME NEW j \in 1..Len(issued), NEW i \in 1..(j - 1) PROVE issued[i].id # issued[j].id
        <3>1. i \in 1..Len(issued) BY DEF TypeOK
        <3>2. /\ issued[i].by \in Procs /\ issued[j].by \in Procs
              /\ issued[i].id.worker = WorkerId[issued[i].by]
              /\ issued[j].id.worker = WorkerId[issued[j].by]
            BY <2>1, <3>1 DEF ClockInv, Entry
        <3>3. CASE issued[i].by # issued[j].by BY <3>2, <3>3
        <3>4. CASE issued[i].by = issued[j].by
            <4>1. Precedes(issued[i].id, issued[j].id) BY <3>4 DEF IdsIncrease, BurstTo
            <4>2. issued[i].id \in Id BY <2>1, <3>1 DEF Entry
            <4>3. issued[i].id.time \in Int /\ issued[i].id.worker \in Int /\ issued[i].id.seq \in Int
                BY <4>2, IdAssumption DEF Id
            <4> QED BY <4>1, <4>3 DEF Precedes
        <3> QED BY <3>3, <3>4
    <2>3. ASSUME NEW i \in 1..Len(issued), NEW j \in 1..Len(issued), i # j
          PROVE  issued[i].id # issued[j].id
        <3>1. i \in 1..(j - 1) \/ j \in 1..(i - 1) BY <2>3 DEF TypeOK
        <3> QED BY <2>2, <3>1
    <2> QED BY <2>3 DEF IdsUnique
<1> QED BY <1>1, ClockHolds, IdsKeepOrder, PTL
=============================================================================
