----------------------------- MODULE MessageId -----------------------------
(***************************************************************************)
(* generateCustomId of messages.service.ts.  An id prints the millisecond, *)
(* the worker number and a sequence number with a fixed width each (13, 2  *)
(* and 3 digits), so ids are equal and compare as the triples they print.  *)
(* Each process keeps lastTimestamp and sequence in memory; the processes  *)
(* read one clock.  The id is the primary key of the messages table and    *)
(* the cursor of every query by page.                                      *)
(***************************************************************************)
EXTENDS Naturals, Sequences, FiniteSets

CONSTANTS
    Procs,          \* the Node processes
    WorkerId,       \* NODE_APP_INSTANCE of a process, '0' when it is not set
    SeqLimit,       \* 1000: the sequence number is taken modulo this
    MaxTime,        \* bound: the last millisecond of the run
    MaxIds,         \* bound: how many ids are asked for
    MaxSlips        \* bound: how often the clock is set back

ASSUME IdAssumption ==
    /\ WorkerId \in [Procs -> Nat]
    /\ SeqLimit \in Nat \ {0}
    /\ {MaxTime, MaxIds, MaxSlips} \subseteq Nat

VARIABLES
    now,                        \* Date.now()
    lastTimestamp, sequence,    \* memory of each process
    issued,                     \* history: the ids, in the order they were given
    slips                       \* how often the clock was set back

vars == <<now, lastTimestamp, sequence, issued, slips>>

Id == [time : Nat, worker : Nat, seq : 0..(SeqLimit - 1)]

Init ==
    /\ now = 1
    /\ lastTimestamp = [p \in Procs |-> 0]
    /\ sequence = [p \in Procs |-> 0]
    /\ issued = <<>>
    /\ slips = 0

(* Mutant: the sequence number is not incremented. *)
SequenceKept(p) == IF now = lastTimestamp[p] THEN sequence[p] ELSE 0

SequenceAt(p) == IF now = lastTimestamp[p] THEN (sequence[p] + 1) % SeqLimit ELSE 0

(* One call runs without an await, so it is one step. *)
GenerateCustomId(p) ==
    /\ Len(issued) < MaxIds
    /\ sequence' = [sequence EXCEPT ![p] = SequenceAt(p)]
    /\ lastTimestamp' = [lastTimestamp EXCEPT ![p] = now]
    /\ issued' = Append(issued,
           [by |-> p, id |-> [time |-> now, worker |-> WorkerId[p], seq |-> SequenceAt(p)]])
    /\ UNCHANGED <<now, slips>>

Tick ==
    /\ now < MaxTime
    /\ now' = now + 1
    /\ UNCHANGED <<lastTimestamp, sequence, issued, slips>>

(* Date.now is the wall clock: an adjustment may set it back. *)
SetBack ==
    /\ slips < MaxSlips
    /\ \E t \in 1..(now - 1) : now' = t
    /\ slips' = slips + 1
    /\ UNCHANGED <<lastTimestamp, sequence, issued>>

Next == (\E p \in Procs : GenerateCustomId(p)) \/ Tick \/ SetBack

Spec == Init /\ [][Next]_vars

---------------------------------------------------------------------------
(* Properties *)

TypeOK ==
    /\ now \in Nat
    /\ lastTimestamp \in [Procs -> Nat]
    /\ sequence \in [Procs -> 0..(SeqLimit - 1)]
    /\ issued \in Seq([by : Procs, id : Id])
    /\ slips \in Nat

(* The order MySQL gives the ids. *)
Precedes(a, b) ==
    \/ a.time < b.time
    \/ a.time = b.time /\ a.worker < b.worker
    \/ a.time = b.time /\ a.worker = b.worker /\ a.seq < b.seq

(* Ids of one process increase, which cursors by id rely on: only a clock  *)
(* set back, or more than SeqLimit ids in one millisecond, break it.       *)
IdsIncrease ==
    \A j \in 1..Len(issued) : \A i \in 1..(j - 1) :
        LET p == issued[j].by
            burst == {k \in 1..j : issued[k].by = p /\ issued[k].id.time = issued[j].id.time}
        IN  issued[i].by = p /\ slips = 0 /\ Cardinality(burst) <= SeqLimit
                => Precedes(issued[i].id, issued[j].id)

(* "A method that makes unique ids" (the comment at                        *)
(* messages.service.ts:36): no id is given twice.                          *)
IdsUnique ==
    \A i, j \in 1..Len(issued) : i # j => issued[i].id # issued[j].id
=============================================================================
