-------------------------- MODULE Backoffice_proofs --------------------------
(***************************************************************************)
(* Proofs about the parts that MCBackoffice puts side by side: the summary *)
(* of a room (AiSummary), the number of logs (LogCount), the life of rooms *)
(* (Rooms) and the lists with filters (Listings), each by its own          *)
(* specification, for every number of requests, processes, rooms,          *)
(* messages, logs, rows and rows of a page; and, at the end, that the four *)
(* side by side behave as each does alone.                                 *)
(***************************************************************************)
EXTENDS MCBackoffice, FiniteSetTheorems, SequenceTheorems, TLAPS

-----------------------------------------------------------------------------
(* AiSummary: the messages in the cache and the types.                      *)

(* The cache of a room that anything was said in has an oldest message, and  *)
(* every message from it to the newest one.                                 *)
LEMMA CacheIsRun ==
    ASSUME NEW l \in 0..MaxTalk, CacheAt(l) # {}
    PROVE  \E m \in CacheAt(l) : /\ \A n \in CacheAt(l) : m <= n
                                 /\ m..l \subseteq CacheAt(l)
<1> DEFINE m == IF l - KeptTalk >= 0 THEN l - KeptTalk + 1 ELSE 1
<1>1. MaxTalk \in Nat /\ KeptTalk \in Nat \ {0} BY SummaryAssumption
<1>2. m \in Nat /\ m >= 1 /\ l - KeptTalk < m BY <1>1
<1>3. m <= l BY <1>1 DEF CacheAt, Talk
<1>4. m \in CacheAt(l) /\ m..l \subseteq CacheAt(l) BY <1>1, <1>2, <1>3 DEF CacheAt, Talk
<1>5. \A n \in CacheAt(l) : m <= n BY <1>1 DEF CacheAt, Talk
<1> HIDE DEF m
<1> QED BY <1>4, <1>5

LEMMA CacheInTalk ==
    ASSUME NEW l PROVE CacheAt(l) \subseteq Talk
BY DEF CacheAt

(* A request that has the lock has words to summarise; what a summary       *)
(* covers is in its text, also in those that requests read before.          *)
Covered(s) == (s.from..s.last) \ ({0} \cup Wordless) \subseteq s.told
SummaryInv ==
    /\ SummaryTypeOK
    /\ \A r \in Requests : ask[r].pc = "model" => Context(r) # {}
    /\ ~outrun => Covered(summary) /\ \A r \in Requests : Covered(ask[r].old)

LEMMA NotAskingRight ==
    /\ NotAsking \in Asking /\ NotAsking.old = NoSummary /\ NotAsking.pc = "idle"
    /\ NoSummary \in Summary /\ Covered(NoSummary) /\ MaxTalk \in Nat
<1>1. MaxTalk \in Nat BY SummaryAssumption
<1>2. NoSummary \in Summary BY <1>1 DEF NoSummary, Summary
<1>3. NotAsking \in Asking BY <1>1, <1>2 DEF NotAsking, Asking
<1> QED BY <1>1, <1>2, <1>3 DEF NotAsking, Covered, NoSummary

LEMMA InitSummaryInv == SummaryInit => SummaryInv
<1> SUFFICES ASSUME SummaryInit PROVE SummaryInv OBVIOUS
<1>1. SummaryTypeOK
    <2>1. talk \in 0..MaxTalk BY NotAskingRight DEF SummaryInit
    <2>2. ask \in [Requests -> Asking] BY NotAskingRight DEF SummaryInit
    <2> QED BY NotAskingRight, <2>1, <2>2 DEF SummaryInit, SummaryTypeOK
<1> QED BY NotAskingRight, <1>1 DEF SummaryInit, SummaryInv

(* What the model is told of is a summary of the right kind.                *)
LEMMA ToldRight ==
    ASSUME SummaryInv, NEW r \in Requests, ask[r].pc = "model"
    PROVE  /\ Told(r) \in Summary
           /\ ~outrun /\ (Merging(r) => ask[r].old.last + 1 \in Cached(r)) => Covered(Told(r))
<1> DEFINE l == ask[r].latest
           old == ask[r].old
<1>0. MaxTalk \in Nat /\ l \in 0..MaxTalk /\ old \in Summary
    BY SummaryAssumption DEF SummaryInv, SummaryTypeOK, Asking
<1>1. Context(r) \subseteq Talk /\ Context(r) # {}
    BY CacheInTalk DEF SummaryInv, Context, FormatMessagesForAi, New, Cached
<1>2. CASE Merging(r)
    <2>1. Told(r) = [old EXCEPT !.last = l, !.told = @ \cup Context(r)]
        BY <1>2 DEF Told, LatestId
    <2>2. /\ Told(r) \in Summary /\ Told(r).last = l /\ Told(r).from = old.from
          /\ Told(r).told = old.told \cup Context(r)
        BY <1>0, <1>1, <2>1 DEF Summary
    <2>3. ASSUME ~outrun, old.last + 1 \in Cached(r),
                 NEW m \in old.from..l, m \notin {0} \cup Wordless
          PROVE  m \in Told(r).told
        <3>1. Covered(old) BY <2>3 DEF SummaryInv
        <3>2. old.from \in Nat /\ old.last \in Nat /\ m \in Nat \ {0}
            BY <1>0, <2>3 DEF Summary
        <3>3. CASE m <= old.last BY <2>2, <2>3, <3>1, <3>2, <3>3 DEF Covered
        <3>4. CASE m > old.last
            <4>1. m \in CacheAt(l)
                BY <1>0, <2>3, <3>2, <3>4, SummaryAssumption DEF Cached, CacheAt, Talk
            <4>2. m \in Context(r)
                BY <1>2, <2>3, <3>4, <4>1 DEF Context, FormatMessagesForAi, New, Cached
            <4> QED BY <2>2, <4>2
        <3> QED BY <3>2, <3>3, <3>4
    <2> HIDE DEF l, old
    <2> QED BY <1>2, <2>2, <2>3 DEF Covered, old
<1>3. CASE ~Merging(r)
    <2> DEFINE Least(m) == m \in Cached(r) /\ \A n \in Cached(r) : m <= n
               from == CHOOSE m \in Cached(r) : \A n \in Cached(r) : m <= n
    <2>1. Context(r) = Cached(r) \ Wordless BY <1>3 DEF Context, FormatMessagesForAi
    <2>2. PICK m \in Cached(r) : (\A n \in Cached(r) : m <= n) /\ m..l \subseteq Cached(r)
        BY <1>0, <1>1, <2>1, CacheIsRun DEF Cached
    <2>3. from \in Cached(r) /\ \A n \in Cached(r) : from <= n BY <2>2
    <2> HIDE DEF from
    <2>4. from \in Talk /\ m \in Talk BY <2>2, <2>3, CacheInTalk DEF Cached
    <2>5. from = m BY <1>0, <2>2, <2>3, <2>4 DEF Talk
    <2>6. Told(r) = [last |-> l, told |-> Context(r), from |-> from]
        BY <1>3 DEF Told, LatestId, from
    <2>7. Told(r) \in Summary BY <1>0, <1>1, <2>4, <2>6 DEF Summary, Talk
    <2>8. Covered(Told(r)) BY <2>1, <2>2, <2>5, <2>6 DEF Covered
    <2> QED BY <2>7, <2>8
<1> QED BY <1>2, <1>3

(* A step of request r other than the upsert: what it reads is the stored    *)
(* summary, and it comes to the model with words only.                      *)
AskingMoves(r) ==
    /\ UNCHANGED <<talk, summary, overrun, outrun>> /\ lock' \in Requests \cup {None}
    /\ \E new \in Asking :
         /\ ask' = [ask EXCEPT ![r] = new]
         /\ new.old \in {ask[r].old, summary, NoSummary}
         /\ new.pc = "model" => new = [ask[r] EXCEPT !.pc = "model"] /\ Context(r) # {}

LEMMA OtherSteps ==
    ASSUME SummaryTypeOK, NEW r \in Requests,
           \/ Ask(r) \/ ReadSummary(r) \/ ReadTalk(r) \/ Decide(r) \/ GetLock(r)
           \/ ModelFails(r) \/ Unlock(r) \/ ReadFails(r)
    PROVE  AskingMoves(r)
<1>0. ask[r] \in Asking /\ talk \in 0..MaxTalk /\ summary \in Summary
    BY DEF SummaryTypeOK
<1>1. CASE Ask(r)
    <2>1. ask' = [ask EXCEPT ![r] = [ask[r] EXCEPT !.pc = "read"]] BY <1>1 DEF Ask
    <2>2. [ask[r] EXCEPT !.pc = "read"] \in Asking BY <1>0 DEF Asking
    <2>3. UNCHANGED <<talk, summary, overrun, outrun>> /\ lock' \in Requests \cup {None}
        BY <1>1 DEF Ask, SummaryTypeOK
    <2>4. /\ [ask[r] EXCEPT !.pc = "read"].old \in {ask[r].old, summary, NoSummary}
          /\ [ask[r] EXCEPT !.pc = "read"].pc = "model" =>
               [ask[r] EXCEPT !.pc = "read"] = [ask[r] EXCEPT !.pc = "model"] /\ Context(r) # {}
        BY <1>0, <1>1 DEF Ask, Asking
    <2> QED BY <2>1, <2>2, <2>3, <2>4 DEF AskingMoves
<1>2. CASE ReadSummary(r)
    <2>1. ask' = [ask EXCEPT ![r] = [ask[r] EXCEPT !.row = TRUE, !.old = summary]] BY <1>2 DEF ReadSummary
    <2>2. [ask[r] EXCEPT !.row = TRUE, !.old = summary] \in Asking BY <1>0 DEF Asking
    <2>3. UNCHANGED <<talk, summary, overrun, outrun>> /\ lock' \in Requests \cup {None}
        BY <1>2 DEF ReadSummary, SummaryTypeOK
    <2>4. /\ [ask[r] EXCEPT !.row = TRUE, !.old = summary].old \in {ask[r].old, summary, NoSummary}
          /\ [ask[r] EXCEPT !.row = TRUE, !.old = summary].pc = "model" =>
               [ask[r] EXCEPT !.row = TRUE, !.old = summary] = [ask[r] EXCEPT !.pc = "model"] /\ Context(r) # {}
        BY <1>0, <1>2 DEF ReadSummary, Asking
    <2> QED BY <2>1, <2>2, <2>3, <2>4 DEF AskingMoves
<1>3. CASE ReadTalk(r)
    <2>1. ask' = [ask EXCEPT ![r] = [ask[r] EXCEPT !.cache = TRUE, !.latest = talk]] BY <1>3 DEF ReadTalk
    <2>2. [ask[r] EXCEPT !.cache = TRUE, !.latest = talk] \in Asking BY <1>0 DEF Asking
    <2>3. UNCHANGED <<talk, summary, overrun, outrun>> /\ lock' \in Requests \cup {None}
        BY <1>3 DEF ReadTalk, SummaryTypeOK
    <2>4. /\ [ask[r] EXCEPT !.cache = TRUE, !.latest = talk].old \in {ask[r].old, summary, NoSummary}
          /\ [ask[r] EXCEPT !.cache = TRUE, !.latest = talk].pc = "model" =>
               [ask[r] EXCEPT !.cache = TRUE, !.latest = talk] = [ask[r] EXCEPT !.pc = "model"] /\ Context(r) # {}
        BY <1>0, <1>3 DEF ReadTalk, Asking
    <2> QED BY <2>1, <2>2, <2>3, <2>4 DEF AskingMoves
<1>4. CASE Decide(r) /\ ~NotWorthIt(r)
    <2>1. ask' = [ask EXCEPT ![r] = [ask[r] EXCEPT !.pc = "lock"]] BY <1>4 DEF Decide
    <2>2. [ask[r] EXCEPT !.pc = "lock"] \in Asking BY <1>0 DEF Asking
    <2>3. UNCHANGED <<talk, summary, overrun, outrun>> /\ lock' \in Requests \cup {None}
        BY <1>4 DEF Decide, SummaryTypeOK
    <2>4. /\ [ask[r] EXCEPT !.pc = "lock"].old \in {ask[r].old, summary, NoSummary}
          /\ [ask[r] EXCEPT !.pc = "lock"].pc = "model" =>
               [ask[r] EXCEPT !.pc = "lock"] = [ask[r] EXCEPT !.pc = "model"] /\ Context(r) # {}
        BY <1>0, <1>4 DEF Decide, Asking
    <2> QED BY <2>1, <2>2, <2>3, <2>4 DEF AskingMoves
<1>5. CASE GetLock(r) /\ LockFree /\ Context(r) # {}
    <2>1. ask' = [ask EXCEPT ![r] = [ask[r] EXCEPT !.pc = "model"]] BY <1>5 DEF GetLock
    <2>2. [ask[r] EXCEPT !.pc = "model"] \in Asking BY <1>0 DEF Asking
    <2>3. UNCHANGED <<talk, summary, overrun, outrun>> /\ lock' \in Requests \cup {None}
        BY <1>5 DEF GetLock, SummaryTypeOK
    <2>4. /\ [ask[r] EXCEPT !.pc = "model"].old \in {ask[r].old, summary, NoSummary}
          /\ [ask[r] EXCEPT !.pc = "model"].pc = "model" =>
               [ask[r] EXCEPT !.pc = "model"] = [ask[r] EXCEPT !.pc = "model"] /\ Context(r) # {}
        BY <1>0, <1>5 DEF GetLock, Asking
    <2> QED BY <2>1, <2>2, <2>3, <2>4 DEF AskingMoves
<1>6. CASE ModelFails(r)
    <2>1. ask' = [ask EXCEPT ![r] = [ask[r] EXCEPT !.pc = "unlock"]] BY <1>6 DEF ModelFails
    <2>2. [ask[r] EXCEPT !.pc = "unlock"] \in Asking BY <1>0 DEF Asking
    <2>3. UNCHANGED <<talk, summary, overrun, outrun>> /\ lock' \in Requests \cup {None}
        BY <1>6 DEF ModelFails, SummaryTypeOK
    <2>4. /\ [ask[r] EXCEPT !.pc = "unlock"].old \in {ask[r].old, summary, NoSummary}
          /\ [ask[r] EXCEPT !.pc = "unlock"].pc = "model" =>
               [ask[r] EXCEPT !.pc = "unlock"] = [ask[r] EXCEPT !.pc = "model"] /\ Context(r) # {}
        BY <1>0, <1>6 DEF ModelFails, Asking
    <2> QED BY <2>1, <2>2, <2>3, <2>4 DEF AskingMoves
<1>7. CASE \/ Decide(r) /\ NotWorthIt(r)
           \/ GetLock(r) /\ ~(LockFree /\ Context(r) # {})
           \/ Unlock(r) \/ ReadFails(r)
    <2>1. /\ ask' = [ask EXCEPT ![r] = NotAsking]
          /\ UNCHANGED <<talk, summary, overrun, outrun>>
          /\ lock' \in Requests \cup {None}
        BY <1>7 DEF Decide, GetLock, Unlock, ReadFails, SummaryTypeOK
    <2>2. NotAsking \in Asking /\ NotAsking.old = NoSummary /\ NotAsking.pc = "idle"
        BY NotAskingRight
    <2> QED BY <2>1, <2>2 DEF AskingMoves
<1> QED BY <1>1, <1>2, <1>3, <1>4, <1>5, <1>6, <1>7

LEMMA NextSummaryInv == SummaryInv /\ [SummaryNext]_summaryVars => SummaryInv'
<1> SUFFICES ASSUME SummaryInv, [SummaryNext]_summaryVars PROVE SummaryInv' OBVIOUS
<1>1. CASE Say
    <2>1. talk' \in 0..MaxTalk BY NotAskingRight, <1>1 DEF Say, SummaryInv, SummaryTypeOK
    <2>2. \A r : Context(r)' = Context(r)
        BY <1>1 DEF Say, Context, Merging, New, Cached, HasOld
    <2> QED BY <1>1, <2>1, <2>2 DEF Say, SummaryInv, SummaryTypeOK, Covered
<1>2. CASE LockExpires
    <2>1. \A r : Context(r)' = Context(r)
        BY <1>2 DEF LockExpires, Context, Merging, New, Cached, HasOld
    <2> QED BY <1>2, <2>1 DEF LockExpires, SummaryInv, SummaryTypeOK, Covered
<1>3. ASSUME NEW r \in Requests,
             \/ Ask(r) \/ ReadSummary(r) \/ ReadTalk(r) \/ Decide(r) \/ GetLock(r)
             \/ ModelFails(r) \/ Unlock(r) \/ ReadFails(r)
      PROVE  SummaryInv'
    <2>1. AskingMoves(r) BY <1>3, OtherSteps DEF SummaryInv
    <2>2. PICK new \in Asking :
            /\ ask' = [ask EXCEPT ![r] = new]
            /\ new.old \in {ask[r].old, summary, NoSummary}
            /\ new.pc = "model" => new = [ask[r] EXCEPT !.pc = "model"] /\ Context(r) # {}
        BY <2>1 DEF AskingMoves
    <2>3. SummaryTypeOK' BY <2>1, <2>2 DEF AskingMoves, SummaryInv, SummaryTypeOK
    <2>4. ASSUME NEW q \in Requests, ask'[q].pc = "model" PROVE Context(q)' # {}
        <3>1. CASE q = r
            <4>1. ask'[r].old = ask[r].old /\ ask'[r].latest = ask[r].latest
                BY <2>2, <2>4, <3>1 DEF SummaryInv, SummaryTypeOK, Asking
            <4>2. Context(r)' = Context(r)
                BY <4>1 DEF Context, Merging, New, Cached, HasOld
            <4> QED BY <2>2, <2>4, <3>1, <4>2 DEF SummaryInv, SummaryTypeOK
        <3>2. CASE q # r
            <4>1. ask'[q] = ask[q] BY <2>2, <3>2 DEF SummaryInv, SummaryTypeOK
            <4>2. Context(q)' = Context(q)
                BY <4>1 DEF Context, Merging, New, Cached, HasOld
            <4> QED BY <2>4, <4>1, <4>2 DEF SummaryInv
        <3> QED BY <3>1, <3>2
    <2>5. ~outrun' => Covered(summary') /\ \A q \in Requests : Covered(ask'[q].old)
        BY NotAskingRight, <2>1, <2>2 DEF AskingMoves, SummaryInv, SummaryTypeOK
    <2> QED BY <2>3, <2>4, <2>5 DEF SummaryInv, Covered
<1>4. ASSUME NEW r \in Requests, Upsert(r) PROVE SummaryInv'
    <2>1. Told(r) \in Summary /\ (~outrun' => Covered(Told(r)))
        BY <1>4, ToldRight DEF Upsert
    <2>2. ask' = [ask EXCEPT ![r] = [ask[r] EXCEPT !.pc = "unlock"]] BY <1>4 DEF Upsert
    <2>3. ask' \in [Requests -> Asking] /\ \A q \in Requests : ask'[q].old = ask[q].old
        BY <2>2 DEF SummaryInv, SummaryTypeOK, Asking
    <2>4. SummaryTypeOK' BY <1>4, <2>1, <2>3 DEF Upsert, SummaryInv, SummaryTypeOK
    <2>5. ASSUME NEW q \in Requests, ask'[q].pc = "model" PROVE Context(q)' # {}
        <3>1. ask'[q] = ask[q] BY <2>2, <2>5 DEF SummaryInv, SummaryTypeOK, Asking
        <3>2. Context(q)' = Context(q)
            BY <3>1 DEF Context, Merging, New, Cached, HasOld
        <3> QED BY <2>5, <3>1, <3>2 DEF SummaryInv
    <2>6. ~outrun' => Covered(summary') /\ \A q \in Requests : Covered(ask'[q].old)
        BY <1>4, <2>1, <2>3 DEF Upsert, SummaryInv
    <2> QED BY <2>4, <2>5, <2>6 DEF SummaryInv, Covered
<1>5. CASE UNCHANGED summaryVars
    <2>1. \A r : Context(r)' = Context(r)
        BY <1>5 DEF summaryVars, Context, Merging, New, Cached, HasOld
    <2> QED BY <1>5, <2>1 DEF summaryVars, SummaryInv, SummaryTypeOK, Covered
<1> QED BY <1>1, <1>2, <1>3, <1>4, <1>5 DEF SummaryNext

LEMMA SummaryInvHolds == SummarySpec => []SummaryInv
BY InitSummaryInv, NextSummaryInv, PTL DEF SummarySpec

(* What the summary feature keeps in memory, in Redis and in MySQL has the   *)
(* right type, for any number of requests and messages.                     *)
THEOREM SummaryTypeCorrect == SummarySpec => []SummaryTypeOK
<1>1. SummaryInv => SummaryTypeOK BY DEF SummaryInv
<1> QED BY <1>1, SummaryInvHolds, PTL

(* The stored id and the text agree: every message with words between the    *)
(* first one summarised and the stored id is in the text, unless more was   *)
(* said than the cache keeps.                                               *)
THEOREM SummariesAreWhole == SummarySpec => []SummaryWhole
<1>1. SummaryInv => SummaryWhole BY DEF SummaryInv, SummaryWhole, Covered
<1> QED BY <1>1, SummaryInvHolds, PTL

LEMMA NextSummaryLock ==
    SummaryTypeOK /\ SummaryLock /\ [SummaryNext]_summaryVars => SummaryLock'
<1> SUFFICES ASSUME SummaryTypeOK, SummaryLock, [SummaryNext]_summaryVars, ~overrun',
                    NEW q \in Requests, Holds(q)'
             PROVE  lock' = q
    BY DEF SummaryLock
<1> USE DEF SummaryTypeOK, Holds, summaryVars
<1>1. CASE Say \/ UNCHANGED summaryVars BY <1>1 DEF Say, SummaryLock
<1>2. CASE LockExpires BY <1>2 DEF LockExpires
<1>3. ASSUME NEW r \in Requests, GetLock(r) PROVE lock' = q
    BY <1>3, SummaryAssumption DEF GetLock, LockFree, SummaryLock, NotAsking, Asking
<1>4. ASSUME NEW r \in Requests, Upsert(r) \/ ModelFails(r) PROVE lock' = q
    BY <1>4 DEF Upsert, ModelFails, SummaryLock, Asking
<1>5. ASSUME NEW r \in Requests, Unlock(r) PROVE lock' = q
    BY <1>5 DEF Unlock, SummaryLock, NotAsking, Asking
<1>6. ASSUME NEW r \in Requests,
             Ask(r) \/ ReadSummary(r) \/ ReadTalk(r) \/ Decide(r) \/ ReadFails(r)
      PROVE  lock' = q
    BY <1>6 DEF Ask, ReadSummary, ReadTalk, Decide, ReadFails, SummaryLock, NotAsking, Asking
<1> QED BY <1>1, <1>2, <1>3, <1>4, <1>5, <1>6 DEF SummaryNext

(* One request at a time is at the language model, and the lock is its own,  *)
(* as long as no lock expires under its holder.                             *)
THEOREM OneAtTheModel == SummarySpec => []SummaryLock
<1>1. SummaryInit => SummaryLock BY DEF SummaryInit, SummaryLock, Holds, NotAsking
<1> QED BY <1>1, NextSummaryLock, SummaryTypeCorrect, PTL DEF SummarySpec

-----------------------------------------------------------------------------
(* LogCount: a number that is about to be stored is right unless a log came  *)
(* after its COUNT.                                                         *)

LEMMA NumberType ==
    ASSUME NEW f, logs \in 0..MaxLogs PROVE Number(f) \in 0..MaxLogs
<1> DEFINE all == 1..logs
           passing == {m \in 1..logs : Passes(f, m)}
<1>1. MaxLogs \in Nat /\ logs \in Nat /\ logs <= MaxLogs BY LogCountAssumption
<1>2. IsFiniteSet(all) /\ Cardinality(all) <= logs BY <1>1, FS_Interval
<1>3. passing \subseteq all OBVIOUS
<1> HIDE DEF all, passing
<1>4. IsFiniteSet(passing) /\ Cardinality(passing) <= Cardinality(all) BY <1>2, <1>3, FS_Subset
<1>5. Cardinality(passing) \in Nat /\ Cardinality(all) \in Nat
    BY <1>2, <1>4, FS_CardinalityType
<1>6. Cardinality(passing) \in 0..MaxLogs BY <1>1, <1>2, <1>4, <1>5
<1> QED BY <1>6 DEF Number, passing

CountInv ==
    /\ CountTypeOK
    /\ \A c \in Counters :
         counting[c].pc = "set" /\ ~counting[c].old
             => counting[c].count = Number(counting[c].filter)
    /\ CountFresh

LEMMA InitCountInv == CountInit => CountInv
<1> SUFFICES ASSUME CountInit PROVE CountInv OBVIOUS
<1>1. NotCounting.pc = "idle" BY DEF NotCounting
<1> QED BY <1>1, LogCountAssumption DEF CountInit, CountInv, CountTypeOK, CountFresh

(* Only a new log changes a number. *)
LEMMA NumberKept == logs' = logs => \A f : Number(f)' = Number(f)
BY DEF Number

(* A log is added: the numbers counted before are marked.                   *)
LEMMA AddLogMarks ==
    ASSUME CountInv, AddLog
    PROVE  /\ logs' \in 0..MaxLogs
           /\ counting' \in [Counters -> Counting \cup {NotCounting}]
           /\ \A c \in Counters : counting'[c].pc # "set" \/ counting'[c].old
<1>1. \A c \in Counters : counting[c] \in Counting \/ counting[c].pc = "idle"
    BY DEF CountInv, CountTypeOK, NotCounting
<1>2. ASSUME NEW c \in Counters, counting[c] \in Counting
      PROVE  /\ [counting[c] EXCEPT !.old = TRUE] \in Counting
             /\ [counting[c] EXCEPT !.old = TRUE].old
    BY <1>2 DEF Counting
<1> QED BY <1>1, <1>2, LogCountAssumption DEF AddLog, CountInv, CountTypeOK

LEMMA NextCountInv == CountInv /\ [CountNext]_countVars => CountInv'
<1> SUFFICES ASSUME CountInv, [CountNext]_countVars PROVE CountInv' OBVIOUS
<1>0. /\ NotCounting.pc = "idle"
      /\ \A c \in Counters : counting[c].pc # "idle" => counting[c] \in Counting
    BY LogCountAssumption DEF CountInv, CountTypeOK, NotCounting
<1> USE DEF CountInv, CountTypeOK, CountFresh
<1>1. CASE CountExpires BY <1>1, NumberKept DEF CountExpires
<1>2. CASE LogDeletion BY <1>2, AddLogMarks DEF LogDeletion
<1>3. CASE BatchStores /\ AddLog BY <1>3, AddLogMarks DEF BatchStores
<1>4. CASE BatchStores /\ ~AddLog BY <1>4, NumberKept DEF BatchStores
<1>5. CASE FindCounts BY <1>5, NumberKept DEF FindCounts
<1>6. CASE DelCounts BY <1>6, NumberKept DEF DelCounts
<1>7. ASSUME NEW c \in Counters, BeginCount(c) PROVE CountInv'
    BY <1>7, NumberKept, LogCountAssumption DEF BeginCount, Counting
<1>8. ASSUME NEW c \in Counters, GetCount(c) PROVE CountInv'
    BY <1>0, <1>8, NumberKept DEF GetCount, GoOn, Counting, NotCounting
<1>9. ASSUME NEW c \in Counters, CountLogs(c) PROVE CountInv'
    BY <1>0, <1>9, NumberKept, NumberType DEF CountLogs, Counting
<1>10. ASSUME NEW c \in Counters, SetCount(c) PROVE CountInv'
    BY <1>0, <1>10, NumberKept DEF SetCount, Counting, Count, NotCounting
<1>11. CASE UNCHANGED countVars BY <1>11, NumberKept DEF countVars
<1> QED BY <1>1, <1>2, <1>3, <1>4, <1>5, <1>6, <1>7, <1>8, <1>9, <1>10, <1>11 DEF CountNext

LEMMA CountInvHolds == CountSpec => []CountInv
BY InitCountInv, NextCountInv, PTL DEF CountSpec

(* The table of logs, the cached number and what the requests hold have the  *)
(* right type, for any number of requests and logs and any filters.         *)
THEOREM CountTypeCorrect == CountSpec => []CountTypeOK
<1>1. CountInv => CountTypeOK BY DEF CountInv
<1> QED BY <1>1, CountInvHolds, PTL

(* The number of logs that Redis keeps for a filter is right between two     *)
(* batches, however many requests count and store meanwhile.                *)
THEOREM CountsAreFresh == CountSpec => []CountFresh
<1>1. CountInv => CountFresh BY DEF CountInv
<1> QED BY <1>1, CountInvHolds, PTL

-----------------------------------------------------------------------------
(* Rooms: types.                                                            *)

(* No image is uploaded to no room. *)
ImageHasRoom ==
    image.room = NoRoom
        => image.answer = "none" /\ ~image.unlink /\ \A f \in Files : image.write[f] = "todo"

LEMMA InitRoomsType == RoomsInit => RoomsTypeOK /\ ImageHasRoom
<1> SUFFICES ASSUME RoomsInit PROVE RoomsTypeOK /\ ImageHasRoom OBVIOUS
<1>1. NoImage \in Image BY DEF NoImage, Image
<1>2. Resting \in Job BY DEF Resting, Job
<1>3. 0 \in 0..MaxFaults BY RoomsAssumption
<1>4. RoomsTypeOK BY <1>1, <1>2, <1>3 DEF RoomsInit, RoomsTypeOK, Ages
<1>5. ImageHasRoom BY DEF RoomsInit, ImageHasRoom, NoImage
<1> QED BY <1>4, <1>5

(* The steps of one file's writing, as new values of the image.             *)
LEMMA FileSteps ==
    ASSUME RoomsTypeOK, ImageHasRoom, NEW f \in Files,
           OpenFile(f) \/ FileDone(f) \/ FileFails(f)
    PROVE  /\ image' \in Image /\ image'.room = image.room /\ image.room # NoRoom
           /\ UNCHANGED <<age, outside, loaded, nightLock, job, faults, orphaned>>
<1>0. image \in Image BY DEF RoomsTypeOK
<1>1. NoImage.room = NoRoom /\ \A g \in Files : NoImage.write[g] = "todo" BY DEF NoImage
<1>2. CASE OpenFile(f)
    <2>1. image.room # NoRoom BY <1>2, RoomsAssumption DEF OpenFile, RoomsTypeOK
    <2>2. image' = [image EXCEPT !.write = [image.write EXCEPT ![f] = "open"],
                                 !.disk = image.disk \cup {f}]
        BY <1>2 DEF OpenFile
    <2>3. [image.write EXCEPT ![f] = "open"] \in [Files -> {"todo", "open", "done", "failed"}]
        BY <1>0 DEF Image
    <2> HIDE DEF Image
    <2>4. image' \in Image BY <1>0, <2>2, <2>3 DEF Image
    <2>5. image'.room = image.room BY <1>0, <2>2 DEF Image
    <2> QED BY <1>2, <2>1, <2>4, <2>5 DEF OpenFile
<1>3. CASE FileDone(f)
    <2>1. image.room # NoRoom BY <1>1, <1>3 DEF FileDone, ImageHasRoom
    <2>2. PICK w \in [Files -> {"todo", "open", "done", "failed"}], a \in {image.answer, "names"} :
            image' = [image EXCEPT !.write = w, !.answer = a]
        BY <1>0, <1>3 DEF FileDone, Image
    <2>3. image' \in Image /\ image'.room = image.room BY <1>0, <2>2 DEF Image
    <2> QED BY <1>3, <2>1, <2>3 DEF FileDone
<1>4. CASE FileFails(f)
    <2>1. PICK w \in [Files -> {"todo", "open", "done", "failed"}], u \in BOOLEAN,
               a \in {image.answer, "refused"} :
            image' = [image EXCEPT !.write = w, !.unlink = u, !.answer = a]
        BY <1>0, <1>4 DEF FileFails, Image
    <2>2. image' \in Image /\ image'.room = image.room BY <1>0, <2>1 DEF Image
    <2> QED BY <1>4, <2>2 DEF FileFails
<1> QED BY <1>2, <1>3, <1>4

LEMMA NextRoomsType ==
    RoomsTypeOK /\ ImageHasRoom /\ [RoomsNext]_roomsVars => RoomsTypeOK' /\ ImageHasRoom'
<1> SUFFICES ASSUME RoomsTypeOK, ImageHasRoom, [RoomsNext]_roomsVars
             PROVE  RoomsTypeOK' /\ ImageHasRoom'
    OBVIOUS
<1> DEFINE Kept == RoomsTypeOK' /\ ImageHasRoom'
<1> USE DEF RoomsTypeOK, outside, ImageHasRoom
<1>0. NoImage \in Image /\ NoImage.room = NoRoom /\ NoImage.answer = "none" BY DEF NoImage, Image
<1>1. ASSUME NEW r \in Rooms,
             \/ CreateRoom(r) \/ LoadRoom(r) \/ SaveRoom(r) \/ UpdateFails(r)
             \/ SoftDeleteRoom(r) \/ OwnerRemoved(r) \/ DayPasses(r)
      PROVE  Kept
    BY <1>1 DEF CreateRoom, LoadRoom, SaveRoom, UpdateFails, SoftDeleteRoom, OwnerRemoved,
                DayPasses, Ages
<1>2. ASSUME NEW r \in Rooms, PostIn(r) \/ Summarise(r) PROVE Kept
    BY <1>2 DEF PostIn, Summarise
<1>3. ASSUME NEW r \in Rooms, BeginUpload(r) PROVE Kept
    BY <1>3, RoomsAssumption DEF BeginUpload, Image, NoImage
<1>4. ASSUME NEW f \in Files, OpenFile(f) \/ FileDone(f) \/ FileFails(f) PROVE Kept
    BY <1>4, FileSteps
<1>5. CASE SendImage
    <2>1. image.room \in Rooms /\ image.room # NoRoom
        BY <1>0, <1>5, RoomsAssumption DEF SendImage, Image
    <2>2. image' \in Image /\ image'.room = image.room BY <1>5 DEF SendImage, Image
    <2> QED BY <1>5, <2>1, <2>2 DEF SendImage
<1>6. CASE Unlink
    <2>1. image.room # NoRoom BY <1>6 DEF Unlink, NoImage
    <2>2. image' \in Image /\ image'.room = image.room BY <1>6 DEF Unlink, Image
    <2> QED BY <1>6, <2>1, <2>2 DEF Unlink
<1>7. CASE NightLockExpires BY <1>7 DEF NightLockExpires
<1>8. ASSUME NEW p \in Processes, Night(p) PROVE Kept BY <1>8 DEF Night, Job
<1>9. ASSUME NEW p \in Processes, JobStep(p) PROVE Kept
    <2>1. CASE FindOldRooms(p) BY <2>1 DEF FindOldRooms, Expired, Job, Resting
    <2>2. CASE DeleteRow(p) BY <2>2 DEF DeleteRow, Job, Resting, Ages
    <2>3. CASE RemoveFiles(p)
        <3>1. image' \in {image, [image EXCEPT !.disk = {}]} BY <2>3 DEF RemoveFiles
        <3>2. image' \in Image /\ image'.room = image.room BY <3>1 DEF Image
        <3>3. UNCHANGED <<image.answer, image.unlink, image.write>> BY <3>1 DEF Image
        <3> QED BY <2>3, <3>1, <3>2, <3>3 DEF RemoveFiles, Job
    <2>4. CASE RemoveCache(p) BY <2>4 DEF RemoveCache, Job, Resting
    <2> QED BY <1>9, <2>1, <2>2, <2>3, <2>4 DEF JobStep
<1>10. ASSUME NEW p \in Processes, FilesStay(p) \/ JobStops(p) PROVE Kept
    BY <1>10, RoomsAssumption DEF FilesStay, JobStops, Job, Resting
<1>11. CASE UNCHANGED roomsVars BY <1>11 DEF roomsVars
<1> QED BY <1>1, <1>2, <1>3, <1>4, <1>5, <1>6, <1>7, <1>8, <1>9, <1>10, <1>11 DEF RoomsNext

(* Every variable of the rooms' model keeps its type, for any number of      *)
(* rooms, processes and failures.                                           *)
THEOREM RoomsTypeCorrect == RoomsSpec => []RoomsTypeOK
<1>1. RoomsSpec => [](RoomsTypeOK /\ ImageHasRoom)
    BY InitRoomsType, NextRoomsType, PTL DEF RoomsSpec
<1> QED BY <1>1, PTL

-----------------------------------------------------------------------------
(* Rooms: what the nightly jobs know.                                       *)

(* The list of a job is of rooms that were deleted for good when it was      *)
(* read: no update of them is under way, so none lives again; the room that *)
(* a job is at has lost its row.                                            *)
JobsInv ==
    /\ \A r \in Rooms : age[r] \in {"old", "gone"} => r \notin loaded
    /\ \A p \in Processes :
         /\ \A r \in job[p].left : r \notin loaded /\ age[r] \in {"deleted", "old", "gone"}
         /\ job[p].pc \in {"files", "cache"} => job[p].at \in Rooms /\ age[job[p].at] = "gone"

LEMMA InitJobs == RoomsInit => JobsInv
BY DEF RoomsInit, JobsInv, Resting

(* A request moves no job, and no room that a job knows to an age that the  *)
(* job does not know it by.                                                 *)
LEMMA RequestsAndJobs ==
    ASSUME RoomsTypeOK, JobsInv, NEW r \in Rooms,
           \/ CreateRoom(r) \/ LoadRoom(r) \/ SaveRoom(r) \/ UpdateFails(r) \/ SoftDeleteRoom(r)
           \/ OwnerRemoved(r) \/ PostIn(r) \/ Summarise(r) \/ DayPasses(r) \/ BeginUpload(r)
    PROVE  JobsInv' /\ job' = job
<1> USE DEF RoomsTypeOK, outside, JobsInv, Exists
<1>1. CASE CreateRoom(r) BY <1>1 DEF CreateRoom, Job
<1>2. CASE LoadRoom(r) BY <1>2 DEF LoadRoom, Job
<1>3. CASE SaveRoom(r) BY <1>3 DEF SaveRoom, Job
<1>4. CASE UpdateFails(r) BY <1>4 DEF UpdateFails, Job
<1>5. CASE SoftDeleteRoom(r) BY <1>5 DEF SoftDeleteRoom, Job
<1>6. CASE OwnerRemoved(r) BY <1>6 DEF OwnerRemoved, Job
<1>7. CASE PostIn(r) \/ Summarise(r) \/ BeginUpload(r)
    BY <1>7 DEF PostIn, Summarise, BeginUpload
<1>8. CASE DayPasses(r) BY <1>8 DEF DayPasses, Job
<1> QED BY <1>1, <1>2, <1>3, <1>4, <1>5, <1>6, <1>7, <1>8

LEMMA NextJobs ==
    RoomsTypeOK /\ RoomsTypeOK' /\ ImageHasRoom /\ JobsInv /\ [RoomsNext]_roomsVars => JobsInv'
<1> SUFFICES ASSUME RoomsTypeOK, RoomsTypeOK', ImageHasRoom, JobsInv, [RoomsNext]_roomsVars
             PROVE  JobsInv'
    OBVIOUS
<1>1. ASSUME NEW r \in Rooms,
             \/ CreateRoom(r) \/ LoadRoom(r) \/ SaveRoom(r) \/ UpdateFails(r) \/ SoftDeleteRoom(r)
             \/ OwnerRemoved(r) \/ PostIn(r) \/ Summarise(r) \/ DayPasses(r) \/ BeginUpload(r)
      PROVE  JobsInv'
    BY <1>1, RequestsAndJobs
<1>2. ASSUME UNCHANGED <<age, loaded, job>> PROVE JobsInv' BY <1>2 DEF JobsInv
<1>3. ASSUME NEW f \in Files, OpenFile(f) \/ FileDone(f) \/ FileFails(f) PROVE JobsInv'
    BY <1>2, <1>3 DEF OpenFile, FileDone, FileFails
<1>4. CASE SendImage \/ Unlink \/ NightLockExpires \/ UNCHANGED roomsVars
    BY <1>2, <1>4 DEF SendImage, Unlink, NightLockExpires, roomsVars
<1> USE DEF JobsInv, RoomsTypeOK
<1>5. ASSUME NEW p \in Processes, Night(p) PROVE JobsInv' BY <1>5 DEF Night, Job
<1>6. ASSUME NEW p \in Processes, FindOldRooms(p) PROVE JobsInv'
    BY <1>6 DEF FindOldRooms, Expired, Job, Resting
<1>7. ASSUME NEW p \in Processes, DeleteRow(p) PROVE JobsInv'
    <2>1. PICK r \in job[p].left :
            /\ job[p].pc = "row"
            /\ \/ job' = [job EXCEPT ![p] = Resting] /\ UNCHANGED age
               \/ /\ job' = [job EXCEPT ![p] = [pc |-> "files", at |-> r, left |-> @.left \ {r}]]
                  /\ age' = [age EXCEPT ![r] = "gone"]
            /\ UNCHANGED loaded
        BY <1>7 DEF DeleteRow
    <2>2. r \in Rooms /\ r \notin loaded BY DEF Job
    <2> QED BY <2>1, <2>2 DEF Job, Resting
<1>8. ASSUME NEW p \in Processes, RemoveFiles(p) \/ FilesStay(p) PROVE JobsInv'
    BY <1>8 DEF RemoveFiles, FilesStay, Job
<1>9. ASSUME NEW p \in Processes, RemoveCache(p) \/ JobStops(p) PROVE JobsInv'
    BY <1>9 DEF RemoveCache, JobStops, Job, Resting
<1> QED BY <1>1, <1>3, <1>4, <1>5, <1>6, <1>7, <1>8, <1>9 DEF RoomsNext, JobStep

LEMMA JobsHold == RoomsSpec => [](RoomsTypeOK /\ ImageHasRoom /\ JobsInv)
BY InitRoomsType, NextRoomsType, InitJobs, NextJobs, PTL DEF RoomsSpec

(* The nightly job never removes a room that is not deleted, though its list *)
(* is older than the removals and an update may take a deletion back.       *)
THEOREM LiveRoomsStay == RoomsSpec => LiveRoomStays
<1>1. ASSUME RoomsTypeOK, JobsInv, [RoomsNext]_roomsVars,
             NEW r \in Rooms, age[r] = "live", age'[r] = "gone"
      PROVE  r \in orphaned'
    <2> USE <1>1 DEF RoomsTypeOK, outside
    <2>1. ASSUME NEW q \in Rooms,
                 \/ CreateRoom(q) \/ LoadRoom(q) \/ SaveRoom(q) \/ UpdateFails(q)
                 \/ SoftDeleteRoom(q) \/ PostIn(q) \/ Summarise(q) \/ DayPasses(q) \/ BeginUpload(q)
          PROVE  age'[r] # "gone"
        BY <2>1 DEF CreateRoom, LoadRoom, SaveRoom, UpdateFails, SoftDeleteRoom, PostIn,
                    Summarise, DayPasses, BeginUpload
    <2>2. ASSUME NEW q \in Rooms, OwnerRemoved(q) PROVE r \in orphaned'
        BY <2>2 DEF OwnerRemoved
    <2>3. ASSUME NEW f \in Files, OpenFile(f) \/ FileDone(f) \/ FileFails(f) PROVE age' = age
        BY <2>3 DEF OpenFile, FileDone, FileFails
    <2>4. ASSUME NEW p \in Processes, DeleteRow(p) PROVE age'[r] # "gone"
        BY <2>4 DEF DeleteRow, JobsInv
    <2>5. ASSUME NEW p \in Processes,
                 \/ Night(p) \/ FindOldRooms(p) \/ RemoveFiles(p) \/ RemoveCache(p)
                 \/ FilesStay(p) \/ JobStops(p)
          PROVE  age' = age
        BY <2>5 DEF Night, FindOldRooms, RemoveFiles, RemoveCache, FilesStay, JobStops
    <2>6. CASE SendImage \/ Unlink \/ NightLockExpires \/ UNCHANGED roomsVars
        BY <2>6 DEF SendImage, Unlink, NightLockExpires, roomsVars
    <2> QED BY <2>1, <2>2, <2>3, <2>4, <2>5, <2>6 DEF RoomsNext, JobStep
<1>2. RoomsTypeOK /\ JobsInv /\ [RoomsNext]_roomsVars
      => [\A r \in Rooms : age[r] = "live" /\ age'[r] = "gone" => r \in orphaned']_roomsVars
    BY <1>1
<1> QED BY <1>2, JobsHold, PTL DEF RoomsSpec, LiveRoomStays

-----------------------------------------------------------------------------
(* Rooms: what is left of a removed room is still ahead of some job, and     *)
(* nothing is added to it.                                                  *)

CleanInv ==
    \A r \in Rooms : age[r] = "gone" /\ r \notin orphaned =>
        /\ r \in dirs => \E p \in Processes : job[p].at = r /\ job[p].pc = "files"
        /\ r \in cached
             => \E p \in Processes : job[p].at = r /\ job[p].pc \in {"files", "cache"}

LEMMA NextClean ==
    RoomsTypeOK /\ ImageHasRoom /\ JobsInv /\ CleanInv /\ [RoomsNext]_roomsVars => CleanInv'
<1> SUFFICES ASSUME RoomsTypeOK, ImageHasRoom, JobsInv, CleanInv, [RoomsNext]_roomsVars
             PROVE  CleanInv'
    OBVIOUS
<1>1. ASSUME UNCHANGED <<age, job, orphaned, dirs, cached>> PROVE CleanInv'
    BY <1>1 DEF CleanInv
<1> USE DEF RoomsTypeOK, outside
<1>2. ASSUME NEW r \in Rooms,
             \/ CreateRoom(r) \/ LoadRoom(r) \/ SaveRoom(r) \/ UpdateFails(r) \/ SoftDeleteRoom(r)
             \/ OwnerRemoved(r) \/ PostIn(r) \/ Summarise(r) \/ DayPasses(r) \/ BeginUpload(r)
      PROVE  CleanInv'
    BY <1>2 DEF CleanInv, CreateRoom, LoadRoom, SaveRoom, UpdateFails, SoftDeleteRoom,
                OwnerRemoved, PostIn, Summarise, DayPasses, BeginUpload
<1>3. ASSUME NEW f \in Files, OpenFile(f) \/ FileDone(f) \/ FileFails(f) PROVE CleanInv'
    BY <1>1, <1>3 DEF OpenFile, FileDone, FileFails
<1>4. CASE SendImage BY <1>4 DEF SendImage, CleanInv
<1>5. CASE Unlink \/ NightLockExpires \/ UNCHANGED roomsVars
    BY <1>1, <1>5 DEF Unlink, NightLockExpires, roomsVars
<1>6. ASSUME NEW p \in Processes, Night(p) \/ FindOldRooms(p) PROVE CleanInv'
    <2>1. /\ UNCHANGED <<age, orphaned, dirs, cached>> /\ job[p].pc \in {"idle", "find"}
          /\ \A q \in Processes \ {p} : job'[q] = job[q]
        BY <1>6 DEF Night, FindOldRooms
    <2>2. \A q \in Processes : job[q].pc \in {"files", "cache"} => job'[q] = job[q]
        BY <2>1
    <2> QED BY <2>1, <2>2 DEF CleanInv
<1>7. ASSUME NEW p \in Processes, DeleteRow(p) PROVE CleanInv'
    <2>1. PICK r \in job[p].left :
            /\ job[p].pc = "row" /\ UNCHANGED <<outside, orphaned>>
            /\ \/ job' = [job EXCEPT ![p] = Resting] /\ UNCHANGED age
               \/ /\ job' = [job EXCEPT ![p] = [pc |-> "files", at |-> r, left |-> @.left \ {r}]]
                  /\ age' = [age EXCEPT ![r] = "gone"]
        BY <1>7 DEF DeleteRow
    <2>2. \A q \in Processes : job[q].pc \in {"files", "cache"} => job'[q] = job[q]
        BY <2>1
    <2>3. CASE UNCHANGED age BY <2>1, <2>2, <2>3 DEF CleanInv
    <2>4. CASE job'[p].at = r /\ job'[p].pc = "files" /\ age' = [age EXCEPT ![r] = "gone"]
        <3> SUFFICES ASSUME NEW s \in Rooms, age'[s] = "gone", s \notin orphaned'
                     PROVE  /\ s \in dirs => \E q \in Processes : job'[q].at = s /\ job'[q].pc = "files"
                            /\ s \in cached => \E q \in Processes :
                                   job'[q].at = s /\ job'[q].pc \in {"files", "cache"}
            BY <2>1 DEF CleanInv
        <3>1. CASE s = r BY <2>4, <3>1
        <3>2. CASE s # r
            <4>1. age[s] = "gone" /\ s \notin orphaned BY <2>1, <2>4, <3>2
            <4> QED BY <2>2, <4>1 DEF CleanInv
        <3> QED BY <3>1, <3>2
    <2> QED BY <2>1, <2>3, <2>4
<1>8. ASSUME NEW p \in Processes, RemoveFiles(p) PROVE CleanInv'
    <2>1. /\ UNCHANGED <<age, orphaned, cached>> /\ dirs' = dirs \ {job[p].at}
          /\ job' = [job EXCEPT ![p] = [job[p] EXCEPT !.pc = "cache"]]
        BY <1>8 DEF RemoveFiles
    <2>2. /\ job'[p].at = job[p].at /\ job'[p].pc = "cache"
          /\ \A q \in Processes \ {p} : job'[q] = job[q]
        BY <2>1 DEF Job
    <2> QED BY <2>1, <2>2 DEF CleanInv
<1>9. ASSUME NEW p \in Processes, FilesStay(p) PROVE CleanInv'
    <2>1. /\ UNCHANGED <<age, dirs, cached>> /\ orphaned' = orphaned \cup {job[p].at}
          /\ job' = [job EXCEPT ![p] = [job[p] EXCEPT !.pc = "cache"]]
        BY <1>9 DEF FilesStay
    <2>2. \A q \in Processes \ {p} : job'[q] = job[q] BY <2>1
    <2> QED BY <2>1, <2>2 DEF CleanInv
<1>10. ASSUME NEW p \in Processes, RemoveCache(p) PROVE CleanInv'
    <2>1. /\ UNCHANGED <<age, dirs, orphaned>> /\ cached' = cached \ {job[p].at} /\ job[p].pc = "cache"
          /\ \A q \in Processes \ {p} : job'[q] = job[q]
        BY <1>10 DEF RemoveCache
    <2> QED BY <2>1 DEF CleanInv
<1>11. ASSUME NEW p \in Processes, JobStops(p) PROVE CleanInv'
    <2>1. /\ UNCHANGED <<age, dirs, cached>> /\ orphaned' = orphaned \cup ({job[p].at} \ {NoRoom})
          /\ \A q \in Processes \ {p} : job'[q] = job[q]
        BY <1>11 DEF JobStops
    <2> QED BY <2>1, RoomsAssumption DEF CleanInv
<1> QED BY <1>2, <1>3, <1>4, <1>5, <1>6, <1>7, <1>8, <1>9, <1>10, <1>11 DEF RoomsNext, JobStep

(* Of a removed room neither images nor messages are left once no job is at  *)
(* it, whichever processes work on it, unless a job was cut short there.    *)
THEOREM RemovedRoomsAreClean == RoomsSpec => []RemovedRoomClean
<1>1. RoomsInit => CleanInv BY DEF RoomsInit, CleanInv
<1>2. CleanInv => RemovedRoomClean BY DEF CleanInv, RemovedRoomClean
<1> QED BY <1>1, <1>2, NextClean, JobsHold, PTL DEF RoomsSpec

-----------------------------------------------------------------------------
(* Rooms: the files of the image.                                           *)

(* While the room has not lost its row, what was written of an image that    *)
(* was not refused is on the disk; of a refused one nothing is left, nor    *)
(* about to be written, after an unlink that did not come too early.        *)
ImageInv ==
    /\ image.unlink => image.answer = "refused"
    /\ image.answer \in {"names", "sent"} => \A f \in Files : image.write[f] = "done"
    /\ \A f \in Files : image.write[f] = "failed" => image.answer = "refused"
    /\ image.answer # "refused" /\ image.room \in Rooms /\ age[image.room] # "gone"
         => \A f \in Files : image.write[f] \in {"open", "done"} => f \in image.disk
    /\ image.answer = "refused" /\ ~image.unlink /\ ~image.missed
         => image.disk = {} /\ \A f \in Files : image.write[f] # "todo"

LEMMA NextImage ==
    RoomsTypeOK /\ ImageHasRoom /\ JobsInv /\ ImageInv /\ [RoomsNext]_roomsVars => ImageInv'
<1> SUFFICES ASSUME RoomsTypeOK, ImageHasRoom, JobsInv, ImageInv, [RoomsNext]_roomsVars
             PROVE  ImageInv'
    OBVIOUS
<1>0. image \in Image BY DEF RoomsTypeOK
<1>1. ASSUME image' = image, \A r \in Rooms : age[r] = "gone" => age'[r] = "gone" PROVE ImageInv'
    BY <1>1 DEF ImageInv
<1>2. ASSUME NEW r \in Rooms,
             \/ CreateRoom(r) \/ LoadRoom(r) \/ SaveRoom(r) \/ UpdateFails(r) \/ SoftDeleteRoom(r)
             \/ OwnerRemoved(r) \/ PostIn(r) \/ Summarise(r) \/ DayPasses(r)
      PROVE  ImageInv'
    <2>1. image' = image /\ \A q \in Rooms : age[q] = "gone" => age'[q] = "gone"
        BY <1>2 DEF RoomsTypeOK, JobsInv, Exists, CreateRoom, LoadRoom, SaveRoom, UpdateFails,
                    SoftDeleteRoom, OwnerRemoved, PostIn, Summarise, DayPasses
    <2> QED BY <1>1, <2>1
<1>3. ASSUME NEW r \in Rooms, BeginUpload(r) PROVE ImageInv'
    BY <1>3 DEF BeginUpload, NoImage, ImageInv
<1>4. ASSUME NEW f \in Files, OpenFile(f) PROVE ImageInv'
    BY <1>0, <1>4 DEF OpenFile, ImageInv, Image
<1>5. ASSUME NEW f \in Files, FileDone(f) PROVE ImageInv'
    BY <1>0, <1>5 DEF FileDone, BothWritten, ImageInv, Image
<1>6. ASSUME NEW f \in Files, FileFails(f) PROVE ImageInv'
    BY <1>0, <1>6 DEF FileFails, ImageInv, Image
<1>7. CASE SendImage BY <1>0, <1>7 DEF SendImage, ImageInv, Image
<1>8. CASE Unlink BY <1>0, <1>8 DEF Unlink, ImageInv, Image
<1>9. CASE NightLockExpires \/ UNCHANGED roomsVars
    BY <1>1, <1>9 DEF NightLockExpires, roomsVars
<1>10. ASSUME NEW p \in Processes, RemoveFiles(p) PROVE ImageInv'
    <2>1. job[p].at \in Rooms /\ age[job[p].at] = "gone" /\ age' = age
        BY <1>10 DEF RemoveFiles, JobsInv
    <2>2. CASE image.room = job[p].at
        <3>1. image' = [image EXCEPT !.disk = {}] BY <1>10, <2>2 DEF RemoveFiles
        <3> QED BY <1>0, <2>1, <2>2, <3>1 DEF ImageInv, Image
    <2>3. CASE image.room # job[p].at BY <1>1, <1>10, <2>1, <2>3 DEF RemoveFiles
    <2> QED BY <2>2, <2>3
<1>11. ASSUME NEW p \in Processes, DeleteRow(p) PROVE ImageInv'
    BY <1>1, <1>11 DEF DeleteRow, RoomsTypeOK
<1>12. ASSUME NEW p \in Processes,
              Night(p) \/ FindOldRooms(p) \/ RemoveCache(p) \/ FilesStay(p) \/ JobStops(p)
       PROVE  ImageInv'
    BY <1>1, <1>12 DEF Night, FindOldRooms, RemoveCache, FilesStay, JobStops
<1> QED BY <1>2, <1>3, <1>4, <1>5, <1>6, <1>7, <1>8, <1>9, <1>10, <1>11, <1>12 DEF RoomsNext, JobStep

(* An image that the client was told of is complete as long as its room has  *)
(* a row; of a refused one no file is left, unless an unlink came too early. *)
THEOREM ImagesAreWhole == RoomsSpec => []ImagesWhole
<1>1. RoomsInit => ImageInv BY DEF RoomsInit, NoImage, ImageInv
<1>2. ASSUME RoomsTypeOK, ImageHasRoom, ImageInv PROVE ImagesWhole
    <2>1. image \in Image BY <1>2 DEF RoomsTypeOK
    <2>2. ASSUME image.answer \in {"names", "sent"}, Exists(image.room) PROVE image.disk = Files
        <3>1. image.room \in Rooms BY <1>2, <2>1, <2>2 DEF ImageHasRoom, Image
        <3> QED BY <1>2, <2>1, <2>2, <3>1 DEF ImageInv, Exists, Image
    <2> QED BY <1>2, <2>2 DEF ImagesWhole, ImageInv, Settled
<1> QED BY <1>1, <1>2, NextImage, JobsHold, PTL DEF RoomsSpec

-----------------------------------------------------------------------------
(* Listings: sets of rows and the lists made of them.                        *)

(* How many rows of a set are newer: the place of a row in its list, from 0. *)
Newer(S, m) == Cardinality({k \in S : k > m})

LEMMA RowsFinite ==
    ASSUME NEW S \in SUBSET RowIds
    PROVE  /\ IsFiniteSet(S) /\ Cardinality(S) \in Nat
           /\ \A m \in S : m \in Nat \ {0} /\ m <= MaxRows
<1>1. MaxRows \in Nat BY ListingsAssumption
<1>2. IsFiniteSet(1..MaxRows) BY <1>1, FS_Interval
<1>3. IsFiniteSet(S) BY <1>2, FS_Subset DEF RowIds
<1>4. Cardinality(S) \in Nat BY <1>3, FS_CardinalityType
<1> QED BY <1>1, <1>3, <1>4 DEF RowIds

LEMMA NewerGrows ==
    ASSUME NEW S \in SUBSET RowIds, NEW m \in S, NEW n \in S, m < n
    PROVE  Newer(S, m) \in Nat /\ Newer(S, n) \in Nat /\ Newer(S, n) < Newer(S, m)
<1> DEFINE A == {k \in S : k > m}
           B == {k \in S : k > n}
<1>1. IsFiniteSet(A) /\ IsFiniteSet(B) /\ Cardinality(A) \in Nat /\ Cardinality(B) \in Nat
    BY RowsFinite
<1>2. m \in Nat /\ n \in Nat /\ \A k \in S : k \in Nat BY RowsFinite
<1>3. (\A k \in S : k > n => k > m) /\ n > m /\ ~(n > n) BY <1>2
<1>4. B \subseteq A /\ n \in A /\ n \notin B BY <1>3
<1> HIDE DEF A, B
<1>5. Cardinality(B) <= Cardinality(A) /\ Cardinality(B) # Cardinality(A) BY <1>1, <1>4, FS_Subset
<1> QED BY <1>1, <1>5 DEF Newer, A, B

LEMMA NewerBound ==
    ASSUME NEW S \in SUBSET RowIds, NEW m \in S
    PROVE  Newer(S, m) \in 0..(Cardinality(S) - 1)
<1> DEFINE A == {k \in S : k > m}
<1>1. IsFiniteSet(S) /\ Cardinality(S) \in Nat /\ Cardinality(A) \in Nat /\ m \in Nat
    BY RowsFinite
<1>2. A \subseteq S /\ m \notin A BY <1>1
<1> HIDE DEF A
<1>3. Cardinality(A) <= Cardinality(S) /\ Cardinality(A) # Cardinality(S)
    BY <1>1, <1>2, FS_Subset
<1> QED BY <1>1, <1>3 DEF Newer, A

LEMMA NewerUnique ==
    ASSUME NEW S \in SUBSET RowIds, NEW m \in S, NEW n \in S, Newer(S, m) = Newer(S, n)
    PROVE  m = n
<1>1. m \in Nat /\ n \in Nat BY RowsFinite
<1>2. ~(m < n) BY NewerGrows
<1>3. ~(n < m) BY NewerGrows
<1> QED BY <1>1, <1>2, <1>3

(* No place is left out, as places are an injection into as many numbers.    *)
LEMMA NewerExists ==
    ASSUME NEW S \in SUBSET RowIds, NEW i \in 1..Cardinality(S)
    PROVE  \E m \in S : Newer(S, m) = i - 1
<1> DEFINE n == Cardinality(S)
           T == 0..(n - 1)
           f == [m \in S |-> Newer(S, m)]
<1>1. IsFiniteSet(S) /\ n \in Nat BY RowsFinite
<1>2. IsFiniteSet(T) /\ Cardinality(T) = n
    <2> HIDE DEF n
    <2>1. n - 1 \in Int /\ (0 > n - 1 => n = 0) BY <1>1
    <2>2. IsFiniteSet(T) /\ Cardinality(T) = IF 0 > n - 1 THEN 0 ELSE (n - 1) - 0 + 1
        BY <2>1, FS_Interval
    <2> QED BY <1>1, <2>1, <2>2
<1>3. f \in [S -> T] BY NewerBound
<1>4. ASSUME NEW m \in S, NEW k \in S, f[m] = f[k] PROVE m = k
    <2>1. Newer(S, m) = Newer(S, k) BY <1>4
    <2> QED BY <2>1, NewerUnique
<1> HIDE DEF f
<1>5. f \in Injection(S, T) BY <1>3, <1>4 DEF Injection, IsInjective
<1> HIDE DEF T
<1>6. f \in Surjection(S, T) BY <1>1, <1>2, <1>5, FS_Injection
<1>7. i - 1 \in T BY <1>1 DEF T
<1>8. PICK m \in S : f[m] = i - 1 BY <1>6, <1>7 DEF Surjection
<1> QED BY <1>8 DEF f

(* ORDER BY id DESC.                                                         *)
LEMMA NewestFirstIs ==
    ASSUME NEW S \in SUBSET RowIds
    PROVE  LET s == NewestFirst(S) IN
           /\ s \in Seq(RowIds) /\ Len(s) = Cardinality(S) /\ Len(s) \in Nat
           /\ \A i \in 1..Len(s) : s[i] \in S /\ Newer(S, s[i]) = i - 1
           /\ \A i, j \in 1..Len(s) : i < j => s[i] > s[j]
           /\ \A m \in S : \E i \in 1..Len(s) : s[i] = m
<1> DEFINE n == Cardinality(S)
           s == NewestFirst(S)
<1>1. n \in Nat /\ S \subseteq Nat BY RowsFinite
<1>2. s = [i \in 1..n |-> CHOOSE m \in S : Newer(S, m) = i - 1] BY DEF NewestFirst, Newer
<1>3. ASSUME NEW i \in 1..n PROVE s[i] \in S /\ Newer(S, s[i]) = i - 1
    <2>1. \E m \in S : Newer(S, m) = i - 1 BY NewerExists
    <2>2. s[i] = CHOOSE m \in S : Newer(S, m) = i - 1 BY <1>2
    <2> QED BY <2>1, <2>2
<1>4. s \in Seq(RowIds) /\ Len(s) = n
    <2>1. s \in [1..n -> RowIds] BY <1>2, <1>3
    <2> HIDE DEF s, n
    <2> QED BY <1>1, <2>1
<1>5. ASSUME NEW i \in 1..n, NEW j \in 1..n, i < j PROVE s[i] > s[j]
    <2>1. s[i] \in S /\ s[j] \in S /\ Newer(S, s[i]) = i - 1 /\ Newer(S, s[j]) = j - 1 BY <1>3
    <2> HIDE DEF s, n
    <2>2. s[i] \in Nat /\ s[j] \in Nat BY <1>1, <2>1
    <2>5. i \in Nat /\ j \in Nat BY <1>1, <1>5
    <2>3. s[i] # s[j] BY <1>5, <2>1, <2>5
    <2>4. s[i] < s[j] => Newer(S, s[j]) < Newer(S, s[i]) BY <2>1, NewerGrows
    <2> QED BY <1>5, <2>1, <2>2, <2>3, <2>4, <2>5
<1>6. ASSUME NEW m \in S PROVE \E i \in 1..n : s[i] = m
    <2>1. Newer(S, m) \in 0..(n - 1) BY NewerBound
    <2> DEFINE i == Newer(S, m) + 1
    <2>2. i \in 1..n /\ i - 1 = Newer(S, m)
        <3> HIDE DEF n
        <3> QED BY <1>1, <2>1
    <2>3. s[i] \in S /\ Newer(S, s[i]) = Newer(S, m) BY <1>3, <2>2
    <2> HIDE DEF i, s, n
    <2>4. s[i] = m BY <2>3, NewerUnique
    <2> QED BY <2>2, <2>4
<1> HIDE DEF s, n
<1> QED BY <1>1, <1>3, <1>4, <1>5, <1>6 DEF s, n

(* A part of a list.                                                         *)

(* A part of a list.                                                         *)
LEMMA PartIs ==
    ASSUME NEW s \in Seq(RowIds), NEW a \in Nat, NEW b \in Nat, b <= Len(s)
    PROVE  LET t == SubSeq(s, a + 1, b) IN
           /\ t \in Seq(RowIds) /\ Len(t) = (IF a < b THEN b - a ELSE 0)
           /\ \A i \in 1..Len(t) : t[i] = s[a + i]
<1>1. Len(s) \in Nat /\ \A i \in 1..Len(s) : s[i] \in RowIds OBVIOUS
<1>2. \A i \in (a + 1)..b : s[i] \in RowIds BY <1>1
<1> DEFINE t == SubSeq(s, a + 1, b)
<1>3. /\ t \in Seq(RowIds) /\ Len(t) = IF a + 1 <= b THEN b - (a + 1) + 1 ELSE 0
      /\ \A i \in 1..(b - (a + 1) + 1) : t[i] = s[(a + 1) + i - 1]
    <2>1. a + 1 \in Int /\ b \in Int OBVIOUS
    <2> QED BY <1>2, <2>1, SubSeqProperties
<1> HIDE DEF t
<1>4. Len(t) = IF a < b THEN b - a ELSE 0 BY <1>3
<1>5. ASSUME NEW i \in 1..Len(t) PROVE t[i] = s[a + i]
    <2>1. i \in 1..(b - (a + 1) + 1) /\ (a + 1) + i - 1 = a + i BY <1>4
    <2> QED BY <1>3, <2>1
<1> QED BY <1>3, <1>4, <1>5 DEF t

(* LIMIT.                                                                    *)
LEMMA TakeIs ==
    ASSUME NEW s \in Seq(RowIds)
    PROVE  LET t == Take(s) IN
           /\ t \in Seq(RowIds) /\ Len(t) = (IF Len(s) < Line THEN Len(s) ELSE Line)
           /\ \A i \in 1..Len(t) : t[i] = s[i]
<1> DEFINE b == IF Len(s) < Line THEN Len(s) ELSE Line
           t == SubSeq(s, 0 + 1, b)
<1>1. Line \in Nat \ {0} /\ Len(s) \in Nat BY ListingsAssumption
<1>2. b \in Nat /\ b <= Len(s) BY <1>1
<1>3. Take(s) = t BY DEF Take
<1> HIDE DEF b
<1>4. /\ t \in Seq(RowIds) /\ Len(t) = (IF 0 < b THEN b - 0 ELSE 0)
      /\ \A i \in 1..Len(t) : t[i] = s[0 + i]
    <2>1. 0 \in Nat OBVIOUS
    <2> QED BY <1>2, <2>1, PartIs
<1> HIDE DEF t
<1>5. Len(t) = b BY <1>2, <1>4
<1>6. \A i \in 1..Len(t) : t[i] = s[i] BY <1>2, <1>4
<1> QED BY <1>3, <1>4, <1>5, <1>6 DEF b

(* The list turned round.                                                    *)
LEMMA TurnedIs ==
    ASSUME NEW s \in Seq(RowIds)
    PROVE  LET t == Reverse(s) IN
           /\ t \in Seq(RowIds) /\ Len(t) = Len(s)
           /\ \A i \in 1..Len(s) : t[i] = s[(Len(s) - i) + 1]
<1> DEFINE t == Reverse(s)
           n == Len(s)
<1>1. t = [i \in 1..n |-> s[(n - i) + 1]] BY DEF Reverse
<1>2. n \in Nat /\ \A i \in 1..n : s[i] \in RowIds OBVIOUS
<1> HIDE DEF n
<1>3. \A i \in 1..n : (n - i) + 1 \in 1..n BY <1>2
<1>4. t \in [1..n -> RowIds] BY <1>1, <1>2, <1>3
<1>5. \A i \in 1..n : t[i] = s[(n - i) + 1] BY <1>1
<1> HIDE DEF t
<1>6. t \in Seq(RowIds) /\ Len(t) = n BY <1>2, <1>4
<1> QED BY <1>5, <1>6 DEF t, n

(* OFFSET and LIMIT.                                                         *)
LEMMA SliceIs ==
    ASSUME NEW s \in Seq(RowIds), NEW a \in Nat
    PROVE  LET t == Take(SubSeq(s, a + 1, Len(s))) IN
           /\ t \in Seq(RowIds)
           /\ Len(t) = IF Len(s) <= a THEN 0 ELSE IF Len(s) - a < Line THEN Len(s) - a ELSE Line
           /\ \A i \in 1..Len(t) : t[i] = s[a + i]
<1> DEFINE u == SubSeq(s, a + 1, Len(s))
           t == Take(u)
<1>1. Line \in Nat \ {0} /\ Len(s) \in Nat BY ListingsAssumption
<1>2. /\ u \in Seq(RowIds) /\ Len(u) = (IF a < Len(s) THEN Len(s) - a ELSE 0)
      /\ \A i \in 1..Len(u) : u[i] = s[a + i]
    BY <1>1, PartIs
<1> HIDE DEF u
<1>3. /\ t \in Seq(RowIds) /\ Len(t) = (IF Len(u) < Line THEN Len(u) ELSE Line)
      /\ \A i \in 1..Len(t) : t[i] = u[i]
    BY <1>2, TakeIs
<1> HIDE DEF t
<1>4. Len(t) = IF Len(s) <= a THEN 0 ELSE IF Len(s) - a < Line THEN Len(s) - a ELSE Line
    BY <1>1, <1>2, <1>3
<1>5. ASSUME NEW i \in 1..Len(t) PROVE t[i] = s[a + i]
    <2>1. Len(u) \in Nat BY <1>2
    <2>2. i \in 1..Len(u) BY <1>1, <1>3, <2>1
    <2> QED BY <1>2, <1>3, <2>2
<1> QED BY <1>3, <1>4, <1>5 DEF t, u

(* WHERE id < cursor: what follows a row in the list.                        *)
LEMMA TailOf ==
    ASSUME NEW S \in SUBSET RowIds, NEW j \in 1..Len(NewestFirst(S))
    PROVE  LET s == NewestFirst(S) IN
           NewestFirst({m \in S : m < s[j]}) = SubSeq(s, j + 1, Len(s))
<1> DEFINE s == NewestFirst(S)
           c == s[j]
           T == {m \in S : m < c}
           U == {m \in S : ~(m < c)}
           V == {k \in S : k > c}
           t == NewestFirst(T)
           n == Len(s)
<1>1. /\ s \in Seq(RowIds) /\ n = Cardinality(S) /\ n \in Nat
      /\ \A i \in 1..n : s[i] \in S /\ Newer(S, s[i]) = i - 1
    BY NewestFirstIs
<1>2. T \in SUBSET RowIds /\ U \in SUBSET RowIds /\ V \in SUBSET RowIds OBVIOUS
<1>3. S \subseteq Nat /\ IsFiniteSet(T) /\ IsFiniteSet(U) /\ IsFiniteSet(V) /\ IsFiniteSet(S)
    <2> HIDE DEF T, U, V
    <2> QED BY <1>2, RowsFinite
<1>4. c \in S /\ Cardinality(V) = j - 1 /\ j \in Nat BY <1>1 DEF Newer
<1>5. U = V \cup {c} /\ c \notin V
    <2> HIDE DEF c
    <2>1. \A k \in S : ~(k < c) <=> k > c \/ k = c
        <3>1. \A k \in S : k \in Nat /\ c \in Nat BY <1>3, <1>4
        <3> QED BY <3>1
    <2>2. ~(c > c)
        <3>1. c \in Nat BY <1>3, <1>4
        <3> QED BY <3>1
    <2> QED BY <1>4, <2>1, <2>2
<1>6. T \cap U = {} /\ T \cup U = S OBVIOUS
<1>7. \A k \in S : k \in U => \A m \in T : k > m
    <2> SUFFICES ASSUME NEW k \in S, ~(k < c), NEW m \in S, m < c PROVE k > m OBVIOUS
    <2>1. k \in Nat /\ m \in Nat /\ c \in Nat BY <1>3, <1>4
    <2> QED BY <2>1
<1>8. Cardinality(U) = j
    <2> HIDE DEF U, V
    <2>1. Cardinality(V \cup {c}) = Cardinality(V) + 1 BY <1>3, <1>5, FS_AddElement
    <2> QED BY <1>4, <1>5, <2>1
<1>9. Cardinality(T) = n - j /\ Cardinality(T) \in Nat
    <2>1. Cardinality(T) \in Nat
        <3> HIDE DEF T
        <3> QED BY <1>2, RowsFinite
    <2> HIDE DEF T, U
    <2>2. Cardinality(T \cup U) = Cardinality(T) + Cardinality(U) - Cardinality(T \cap U)
        BY <1>3, FS_Union
    <2>3. Cardinality(T \cap U) = 0 BY <1>6, FS_EmptySet
    <2>4. Cardinality(S) = Cardinality(T) + j - 0 BY <1>6, <1>8, <2>2, <2>3
    <2> HIDE DEF n
    <2> QED BY <1>1, <1>4, <2>1, <2>4
<1>10. ASSUME NEW m \in T PROVE Newer(S, m) = Newer(T, m) + j
    <2> DEFINE W == {k \in T : k > m}
    <2>1. {k \in S : k > m} = W \cup U /\ W \cap U = {} BY <1>6, <1>7
    <2>2. IsFiniteSet(W) /\ Cardinality(W) \in Nat
        <3>1. W \in SUBSET RowIds BY <1>2
        <3> HIDE DEF W
        <3> QED BY <3>1, RowsFinite
    <2>3. Newer(S, m) = Cardinality(W \cup U) /\ Newer(T, m) = Cardinality(W) BY <2>1 DEF Newer
    <2> HIDE DEF W, U, T
    <2>4. Cardinality(W \cup U) = Cardinality(W) + Cardinality(U) - Cardinality(W \cap U)
        BY <1>3, <2>2, FS_Union
    <2>5. Cardinality(W \cap U) = 0 BY <2>1, FS_EmptySet
    <2> QED BY <1>4, <1>8, <2>2, <2>3, <2>4, <2>5
<1>11. T \subseteq S OBVIOUS
<1> HIDE DEF T, U, V, c
<1>12. /\ t \in Seq(RowIds) /\ Len(t) = Cardinality(T)
       /\ \A i \in 1..Len(t) : t[i] \in T /\ Newer(T, t[i]) = i - 1
    BY <1>2, NewestFirstIs
<1> DEFINE u == SubSeq(s, j + 1, n)
<1> HIDE DEF s, t
<1>13. /\ u \in Seq(RowIds) /\ Len(u) = (IF j < n THEN n - j ELSE 0)
       /\ \A i \in 1..Len(u) : u[i] = s[j + i]
    BY <1>1, <1>4, PartIs
<1>14. Len(t) = Len(u) BY <1>1, <1>4, <1>9, <1>12, <1>13
<1>15. ASSUME NEW i \in 1..Len(t) PROVE t[i] = u[i]
    <2>1. t[i] \in S /\ Newer(T, t[i]) = i - 1 /\ Newer(S, t[i]) = Newer(T, t[i]) + j
        BY <1>10, <1>11, <1>12
    <2>2. j + i \in 1..n /\ i \in Nat /\ (i - 1) + j = (j + i) - 1 BY <1>1, <1>4, <1>9, <1>12
    <2>3. s[j + i] \in S /\ Newer(S, s[j + i]) = (j + i) - 1 BY <1>1, <2>2
    <2>4. t[i] = s[j + i] BY <2>1, <2>2, <2>3, NewerUnique
    <2> QED BY <1>13, <1>14, <2>4
<1> HIDE DEF u
<1>16. t = u BY <1>12, <1>13, <1>14, <1>15, SeqEqual
<1> QED BY <1>16 DEF t, u, s, n, T, c

(* WHERE id > cursor: what is before a row in the list.                      *)
LEMMA HeadOf ==
    ASSUME NEW S \in SUBSET RowIds, NEW j \in 1..Len(NewestFirst(S))
    PROVE  LET s == NewestFirst(S)
               h == NewestFirst({m \in S : m > s[j]}) IN
           /\ h \in Seq(RowIds) /\ Len(h) = j - 1
           /\ \A i \in 1..Len(h) : h[i] = s[i]
<1> DEFINE s == NewestFirst(S)
           c == s[j]
           T == {m \in S : m > c}
           h == NewestFirst(T)
           n == Len(s)
<1>1. /\ s \in Seq(RowIds) /\ n = Cardinality(S) /\ n \in Nat
      /\ \A i \in 1..n : s[i] \in S /\ Newer(S, s[i]) = i - 1
    BY NewestFirstIs
<1>2. T \in SUBSET RowIds /\ S \subseteq Nat /\ c \in S BY <1>1, RowsFinite
<1>3. Cardinality(T) = j - 1 /\ j \in Nat BY <1>1 DEF Newer
<1>4. ASSUME NEW m \in T PROVE m \in S /\ Newer(S, m) = Newer(T, m)
    <2>1. \A k \in S : k > m => k > c
        <3> SUFFICES ASSUME NEW k \in S, k > m PROVE k > c OBVIOUS
        <3>1. m > c /\ k \in Nat /\ m \in Nat /\ c \in Nat BY <1>2
        <3> QED BY <3>1
    <2>2. {k \in S : k > m} = {k \in T : k > m} BY <2>1
    <2> QED BY <2>2 DEF Newer
<1> HIDE DEF T
<1>5. /\ h \in Seq(RowIds) /\ Len(h) = Cardinality(T)
      /\ \A i \in 1..Len(h) : h[i] \in T /\ Newer(T, h[i]) = i - 1
    BY <1>2, NewestFirstIs
<1> HIDE DEF h, s
<1>6. ASSUME NEW i \in 1..Len(h) PROVE h[i] = s[i]
    <2>1. i \in 1..n
        <3> HIDE DEF n
        <3>1. j <= n BY DEF n, s
        <3> QED BY <1>1, <1>3, <1>5, <3>1
    <2>2. h[i] \in S /\ Newer(S, h[i]) = i - 1 BY <1>4, <1>5
    <2>3. s[i] \in S /\ Newer(S, s[i]) = i - 1 BY <1>1, <2>1
    <2> QED BY <2>2, <2>3, NewerUnique
<1> QED BY <1>3, <1>5, <1>6 DEF h, s, T, c

(* A list without holes in a set of rows.                                    *)
Whole(s, S) ==
    /\ \A i \in 1..Len(s) : s[i] \in S
    /\ \A i, j \in 1..Len(s) : i < j => s[i] > s[j]
    /\ \A m \in S :
         s # <<>> /\ s[Len(s)] <= m /\ m <= s[1] => \E i \in 1..Len(s) : s[i] = m

(* Any run of the rows' list is one.                                         *)
LEMMA RunIsWhole ==
    ASSUME NEW S \in SUBSET RowIds, NEW t \in Seq(RowIds), NEW a \in Nat,
           LET s == NewestFirst(S) IN
             Len(t) # 0 => a + Len(t) <= Len(s) /\ \A i \in 1..Len(t) : t[i] = s[a + i]
    PROVE  Whole(t, S)
<1> DEFINE s == NewestFirst(S)
<1>1. S \subseteq Nat BY RowsFinite
<1>2. /\ s \in Seq(RowIds) /\ Len(s) \in Nat
      /\ \A i \in 1..Len(s) : s[i] \in S
      /\ \A i, j \in 1..Len(s) : i < j => s[i] > s[j]
      /\ \A m \in S : \E i \in 1..Len(s) : s[i] = m
    BY NewestFirstIs
<1>3. /\ Len(t) \in Nat
      /\ Len(t) # 0 => a + Len(t) <= Len(s) /\ \A i \in 1..Len(t) : t[i] = s[a + i]
    OBVIOUS
<1> HIDE DEF s
<1>4. \A i \in 1..Len(t) : a + i \in 1..Len(s) /\ t[i] = s[a + i]
    <2> SUFFICES ASSUME NEW i \in 1..Len(t) PROVE a + i \in 1..Len(s) /\ t[i] = s[a + i] OBVIOUS
    <2>1. Len(t) # 0 /\ i \in Nat /\ i >= 1 /\ i <= Len(t) BY <1>3
    <2> QED BY <1>2, <1>3, <2>1
<1>5. \A i \in 1..Len(t) : t[i] \in S BY <1>2, <1>4
<1>6. ASSUME NEW i \in 1..Len(t), NEW j \in 1..Len(t), i < j PROVE t[i] > t[j]
    <2>1. a + i < a + j BY <1>3, <1>6
    <2> QED BY <1>2, <1>4, <2>1
<1>7. ASSUME NEW m \in S, t # <<>>, t[Len(t)] <= m, m <= t[1]
      PROVE  \E i \in 1..Len(t) : t[i] = m
    <2>1. Len(t) \in 1..Len(t) /\ 1 \in 1..Len(t) BY <1>7
    <2>2. PICK k \in 1..Len(s) : s[k] = m BY <1>2
    <2>3. /\ t[Len(t)] = s[a + Len(t)] /\ t[1] = s[a + 1]
          /\ a + Len(t) \in 1..Len(s) /\ a + 1 \in 1..Len(s) BY <1>4, <2>1
    <2>4. m \in Nat /\ s[a + 1] \in Nat /\ s[a + Len(t)] \in Nat /\ k \in Nat
        <3>1. s[a + 1] \in S /\ s[a + Len(t)] \in S BY <1>2, <2>3
        <3>2. k \in Nat BY <1>2, <2>2
        <3> QED BY <1>1, <3>1, <3>2
    <2>5. ~(k < a + 1)
        <3>1. k < a + 1 => s[k] > s[a + 1] BY <1>2, <2>3
        <3> QED BY <1>7, <2>2, <2>3, <2>4, <3>1
    <2>6. ~(k > a + Len(t))
        <3>1. k > a + Len(t) => a + Len(t) < k BY <1>3, <2>4
        <3>2. a + Len(t) < k => s[a + Len(t)] > s[k] BY <1>2, <2>3
        <3> QED BY <1>7, <2>2, <2>3, <2>4, <3>1, <3>2
    <2>7. k - a \in 1..Len(t) /\ a + (k - a) = k BY <1>3, <2>4, <2>5, <2>6
    <2>8. t[k - a] = s[a + (k - a)] BY <1>4, <2>7
    <2>9. t[k - a] = m BY <2>2, <2>7, <2>8
    <2> QED BY <2>7, <2>9
<1> QED BY <1>5, <1>6, <1>7 DEF Whole

(* The rows that pass the filter, as a list.                                 *)
LEMMA PassingIs ==
    ASSUME NEW f, rows \in 0..MaxRows
    PROVE  /\ Passing(f) \in SUBSET RowIds /\ NewestFirst(Passing(f)) \in Seq(RowIds)
           /\ rows \in Nat /\ MaxRows \in Nat /\ rows <= MaxRows /\ Line \in Nat \ {0}
<1>1. MaxRows \in Nat /\ rows \in Nat /\ rows <= MaxRows /\ Line \in Nat \ {0} BY ListingsAssumption
<1>2. Passing(f) \in SUBSET RowIds BY <1>1 DEF Passing, RowIds
<1> QED BY <1>1, <1>2, NewestFirstIs

(* A page of the users, and of the logs, is a run.                           *)
Address(p) == p.page \in Nat \ {0} /\ p.cursor \in 0..MaxRows

LEMMA SliceWhole ==
    ASSUME rows \in 0..MaxRows, NEW p, Address(p)
    PROVE  Slice(p) \in Seq(RowIds) /\ Whole(Slice(p), Passing(p.filter))
<1> DEFINE s == NewestFirst(Passing(p.filter))
           a == (p.page - 1) * Line
<1>0. Passing(p.filter) \in SUBSET RowIds BY PassingIs
<1>1. s \in Seq(RowIds) /\ Line \in Nat \ {0} BY PassingIs
<1>2. a \in Nat
    <2>1. p.page - 1 \in Nat BY DEF Address
    <2> QED BY <1>1, <2>1
<1>3. Slice(p) = Take(SubSeq(s, a + 1, Len(s))) BY DEF Slice
<1> HIDE DEF a
<1> DEFINE t == Take(SubSeq(s, a + 1, Len(s)))
<1>4. /\ t \in Seq(RowIds)
      /\ Len(t) = IF Len(s) <= a THEN 0 ELSE IF Len(s) - a < Line THEN Len(s) - a ELSE Line
      /\ \A i \in 1..Len(t) : t[i] = s[a + i]
    BY <1>1, <1>2, SliceIs
<1> HIDE DEF t
<1>5. Len(t) # 0 => a + Len(t) <= Len(s)
    <2>1. Len(s) \in Nat BY <1>1
    <2> HIDE DEF s
    <2> QED BY <1>1, <1>2, <1>4, <2>1
<1>6. Whole(t, Passing(p.filter)) BY <1>0, <1>2, <1>4, <1>5, RunIsWhole DEF s
<1> QED BY <1>3, <1>4, <1>6 DEF t

(* The last rows of a list: LIMIT on the list turned round, turned back.     *)
LEMMA LastOnes ==
    ASSUME NEW s \in Seq(RowIds)
    PROVE  LET t == Reverse(Take(Reverse(s))) IN
           /\ t \in Seq(RowIds) /\ Len(t) = (IF Len(s) < Line THEN Len(s) ELSE Line)
           /\ \A i \in 1..Len(t) : t[i] = s[(Len(s) - Len(t)) + i]
<1> DEFINE r == Reverse(s)
           u == Take(r)
           t == Reverse(u)
<1>1. Line \in Nat \ {0} /\ Len(s) \in Nat BY ListingsAssumption
<1>2. /\ r \in Seq(RowIds) /\ Len(r) = Len(s)
      /\ \A i \in 1..Len(s) : r[i] = s[(Len(s) - i) + 1]
    BY TurnedIs
<1> HIDE DEF r
<1>3. /\ u \in Seq(RowIds) /\ Len(u) = (IF Len(r) < Line THEN Len(r) ELSE Line)
      /\ \A i \in 1..Len(u) : u[i] = r[i]
    BY <1>2, TakeIs
<1> HIDE DEF u
<1>4. /\ t \in Seq(RowIds) /\ Len(t) = Len(u)
      /\ \A i \in 1..Len(u) : t[i] = u[(Len(u) - i) + 1]
    BY <1>3, TurnedIs
<1> HIDE DEF t
<1>5. Len(t) = (IF Len(s) < Line THEN Len(s) ELSE Line) BY <1>2, <1>3, <1>4
<1>6. ASSUME NEW i \in 1..Len(t) PROVE t[i] = s[(Len(s) - Len(t)) + i]
    <2> DEFINE k == (Len(u) - i) + 1
    <2>1. k \in 1..Len(u) /\ k \in 1..Len(s) /\ (Len(s) - k) + 1 = (Len(s) - Len(t)) + i
        BY <1>1, <1>2, <1>3, <1>4
    <2>2. t[i] = u[k] BY <1>4
    <2> HIDE DEF k
    <2> QED BY <1>2, <1>3, <2>1, <2>2
<1> QED BY <1>4, <1>5, <1>6 DEF t, u, r

LEMMA LogsWhole ==
    ASSUME rows \in 0..MaxRows, NEW p, Address(p)
    PROVE  Logs(p) \in Seq(RowIds) /\ Whole(Logs(p), Passing(p.filter))
<1> DEFINE S == Passing(p.filter)
           L == {m \in S : p.cursor = 0 \/ m < p.cursor}
           R == {m \in S : m > p.cursor}
<1>1. /\ S \in SUBSET RowIds /\ L \in SUBSET RowIds /\ R \in SUBSET RowIds
      /\ Line \in Nat \ {0} /\ p.cursor \in Nat
    BY PassingIs DEF Address
<1>2. \A m \in S : m \in Nat BY <1>1, RowsFinite
<1>3. CASE p.direction = "prev"
    <2> DEFINE s == NewestFirst(R)
               t == Reverse(Take(Reverse(s)))
    <2>1. Logs(p) = t BY <1>3 DEF Logs, OldestFirst
    <2> HIDE DEF S
    <2>2. s \in Seq(RowIds) /\ Len(s) \in Nat BY <1>1, NewestFirstIs
    <2>3. /\ t \in Seq(RowIds) /\ Len(t) = (IF Len(s) < Line THEN Len(s) ELSE Line)
          /\ \A i \in 1..Len(t) : t[i] = s[(Len(s) - Len(t)) + i]
        BY <2>2, LastOnes
    <2>4. Len(s) - Len(t) \in Nat /\ (Len(s) - Len(t)) + Len(t) <= Len(s)
        <3> HIDE DEF s, t
        <3> QED BY <1>1, <2>2, <2>3
    <2> HIDE DEF t
    <2> DEFINE a == Len(s) - Len(t)
    <2>5. a \in Nat /\ Len(t) # 0 => a + Len(t) <= Len(s) /\ \A i \in 1..Len(t) : t[i] = s[a + i]
        BY <2>3, <2>4
    <2>a. a \in Nat BY <2>4
    <2> HIDE DEF a, R
    <2>6. Whole(t, R) BY <1>1, <2>3, <2>5, <2>a, RunIsWhole
    <2>7. R \subseteq S BY DEF R
    <2>8. ASSUME NEW m \in S, t # <<>>, t[Len(t)] <= m PROVE m \in R
        <3>1. Len(t) \in 1..Len(t) BY <2>3, <2>8
        <3>2. t[Len(t)] \in R BY <2>6, <3>1 DEF Whole
        <3>3. t[Len(t)] > p.cursor /\ t[Len(t)] \in Nat BY <1>2, <2>7, <3>2 DEF R
        <3> QED BY <1>1, <1>2, <2>8, <3>3 DEF R
    <2>9. Whole(t, S) BY <2>6, <2>7, <2>8 DEF Whole
    <2> QED BY <2>1, <2>3, <2>9 DEF S
<1>4. CASE p.direction # "prev"
    <2> DEFINE s == NewestFirst(L)
               t == Take(s)
    <2>1. Logs(p) = t BY <1>4 DEF Logs
    <2> HIDE DEF S
    <2>2. s \in Seq(RowIds) /\ Len(s) \in Nat BY <1>1, NewestFirstIs
    <2>3. /\ t \in Seq(RowIds) /\ Len(t) = (IF Len(s) < Line THEN Len(s) ELSE Line)
          /\ \A i \in 1..Len(t) : t[i] = s[i]
        BY <2>2, TakeIs
    <2> HIDE DEF t, L
    <2>4. 0 \in Nat /\ Len(t) # 0 => 0 + Len(t) <= Len(s) /\ \A i \in 1..Len(t) : t[i] = s[0 + i]
        <3>1. Len(t) <= Len(s) /\ Len(t) \in Nat BY <1>1, <2>2, <2>3
        <3> QED BY <2>3, <3>1
    <2>5. 0 \in Nat OBVIOUS
    <2>6. Whole(t, L) BY <1>1, <2>3, <2>4, <2>5, RunIsWhole
    <2>7. L \subseteq S BY DEF L
    <2>8. ASSUME NEW m \in S, t # <<>>, m <= t[1] PROVE m \in L
        <3>1. 1 \in 1..Len(t) BY <2>3, <2>8
        <3>2. t[1] \in L BY <2>6, <3>1 DEF Whole
        <3>3. (p.cursor = 0 \/ t[1] < p.cursor) /\ t[1] \in Nat BY <1>2, <2>7, <3>2 DEF L
        <3> QED BY <1>1, <1>2, <2>8, <3>3 DEF L
    <2>9. Whole(t, S) BY <2>6, <2>7, <2>8 DEF Whole
    <2> QED BY <2>1, <2>3, <2>9 DEF S
<1> QED BY <1>3, <1>4

(* Forward from the last log of a page, one comes to the next.               *)
LEMMA TurnedForward ==
    ASSUME rows \in 0..MaxRows, NEW p, Address(p), NEW q, q.filter = p.filter,
           Slice(p) # <<>>, q.page = p.page + 1, q.direction = "next",
           q.cursor = Slice(p)[Len(Slice(p))]
    PROVE  Logs(q) = Slice(q)
<1> DEFINE S == Passing(p.filter)
           s == NewestFirst(S)
           n == Len(s)
           a == (p.page - 1) * Line
           b == (q.page - 1) * Line
           t == Slice(p)
           l == Len(t)
<1>1. S \in SUBSET RowIds /\ s \in Seq(RowIds) /\ n \in Nat /\ Line \in Nat \ {0} BY PassingIs
<1>2. a \in Nat /\ b = a + Line
    <2>1. p.page - 1 \in Nat /\ q.page - 1 = (p.page - 1) + 1 BY DEF Address
    <2> DEFINE k == p.page - 1
    <2>2. k \in Nat /\ q.page - 1 = k + 1 BY <2>1
    <2> HIDE DEF k
    <2>3. k * Line \in Nat /\ (k + 1) * Line = k * Line + Line BY <1>1, <2>2
    <2> QED BY <2>2, <2>3 DEF k
<1>3. t = Take(SubSeq(s, a + 1, n)) /\ Slice(q) = Take(SubSeq(s, b + 1, n)) BY DEF Slice
<1> HIDE DEF a, b, t
<1>4. /\ t \in Seq(RowIds)
      /\ l = (IF n <= a THEN 0 ELSE IF n - a < Line THEN n - a ELSE Line)
      /\ \A i \in 1..l : t[i] = s[a + i]
    BY <1>1, <1>2, <1>3, SliceIs
<1>5. l # 0 /\ l \in 1..l BY <1>4 DEF t
<1> DEFINE j == a + l
<1>6. j \in 1..n /\ j \in Nat
    <2> HIDE DEF n, l
    <2> QED BY <1>1, <1>2, <1>4, <1>5
<1>7. q.cursor = s[j] /\ q.cursor \in S /\ q.cursor # 0
    <2>1. q.cursor = s[j] BY <1>4, <1>5 DEF t
    <2>2. s[j] \in S BY <1>1, <1>6, NewestFirstIs
    <2> HIDE DEF s, S, j
    <2>3. s[j] # 0 BY <1>1, <2>2, RowsFinite
    <2> QED BY <2>1, <2>2, <2>3
<1> HIDE DEF j, l
<1>8. NewestFirst({m \in S : m < s[j]}) = SubSeq(s, j + 1, n)
    BY <1>1, <1>6, TailOf
<1>9. Logs(q) = Take(SubSeq(s, j + 1, n))
    <2>1. {m \in S : q.cursor = 0 \/ m < q.cursor} = {m \in S : m < s[j]} BY <1>7
    <2>2. Logs(q) = Take(NewestFirst({m \in S : q.cursor = 0 \/ m < q.cursor})) BY DEF Logs
    <2> QED BY <1>8, <2>1, <2>2
<1>10. CASE l = Line
    <2>1. j = b BY <1>2, <1>10 DEF j
    <2> QED BY <1>3, <1>9, <2>1
<1>11. CASE l # Line
    <2> DEFINE u == Take(SubSeq(s, j + 1, n))
               v == Take(SubSeq(s, b + 1, n))
    <2> HIDE DEF s, n
    <2>1. n <= j /\ n <= b /\ b \in Nat BY <1>1, <1>2, <1>4, <1>5, <1>11 DEF j
    <2>2. u \in Seq(RowIds) /\ Len(u) = 0 BY <1>1, <1>6, <2>1, SliceIs DEF n
    <2>3. v \in Seq(RowIds) /\ Len(v) = 0 BY <1>1, <2>1, SliceIs DEF n
    <2> HIDE DEF u, v
    <2>4. u = v BY <2>2, <2>3
    <2> QED BY <1>3, <1>9, <2>4 DEF u, v
<1> QED BY <1>10, <1>11

(* Back from the first log of a page, one comes to the one before.           *)
LEMMA TurnedBack ==
    ASSUME rows \in 0..MaxRows, NEW p, Address(p), NEW q, q.filter = p.filter,
           Slice(p) # <<>>, p.page > 1, q.page = p.page - 1, q.direction = "prev",
           q.cursor = Slice(p)[1]
    PROVE  Logs(q) = Slice(q)
<1> DEFINE S == Passing(p.filter)
           s == NewestFirst(S)
           n == Len(s)
           a == (p.page - 1) * Line
           b == (q.page - 1) * Line
           t == Slice(p)
           l == Len(t)
<1>1. S \in SUBSET RowIds /\ s \in Seq(RowIds) /\ n \in Nat /\ Line \in Nat \ {0} BY PassingIs
<1>2. a \in Nat /\ b \in Nat /\ a = b + Line
    <2>1. p.page - 2 \in Nat /\ p.page - 1 = (p.page - 2) + 1 /\ q.page - 1 = p.page - 2 BY DEF Address
    <2> DEFINE k == p.page - 2
    <2>2. k \in Nat /\ p.page - 1 = k + 1 /\ q.page - 1 = k BY <2>1
    <2> HIDE DEF k
    <2>3. k * Line \in Nat /\ (k + 1) * Line = k * Line + Line BY <1>1, <2>2
    <2> QED BY <1>1, <2>2, <2>3
<1>3. t = Take(SubSeq(s, a + 1, n)) /\ Slice(q) = Take(SubSeq(s, b + 1, n)) BY DEF Slice
<1> HIDE DEF a, b, t
<1>4. /\ t \in Seq(RowIds)
      /\ l = (IF n <= a THEN 0 ELSE IF n - a < Line THEN n - a ELSE Line)
      /\ \A i \in 1..l : t[i] = s[a + i]
    BY <1>1, <1>2, <1>3, SliceIs
<1>5. l # 0 /\ 1 \in 1..l BY <1>4 DEF t
<1> DEFINE j == a + 1
           h == NewestFirst({m \in S : m > s[j]})
           u == Reverse(Take(Reverse(h)))
           v == Take(SubSeq(s, b + 1, n))
<1>6. j \in 1..n /\ j - 1 = a /\ a < n
    <2> HIDE DEF n, l
    <2> QED BY <1>1, <1>2, <1>4, <1>5
<1>7. q.cursor = s[j] BY <1>4, <1>5 DEF t
<1>8. Logs(q) = u BY <1>7 DEF Logs, OldestFirst
<1> HIDE DEF j
<1>9. /\ h \in Seq(RowIds) /\ Len(h) = a
      /\ \A i \in 1..Len(h) : h[i] = s[i]
    BY <1>1, <1>6, HeadOf
<1> HIDE DEF h
<1>10. /\ u \in Seq(RowIds) /\ Len(u) = (IF Len(h) < Line THEN Len(h) ELSE Line)
       /\ \A i \in 1..Len(u) : u[i] = h[(Len(h) - Len(u)) + i]
    BY <1>9, LastOnes
<1> HIDE DEF u
<1>11. /\ v \in Seq(RowIds)
       /\ Len(v) = (IF n <= b THEN 0 ELSE IF n - b < Line THEN n - b ELSE Line)
       /\ \A i \in 1..Len(v) : v[i] = s[b + i]
    BY <1>1, <1>2, SliceIs
<1> HIDE DEF v, n, s
<1>12. Len(u) = Line /\ Len(v) = Line BY <1>1, <1>2, <1>6, <1>9, <1>10, <1>11
<1>13. ASSUME NEW i \in 1..Len(u) PROVE u[i] = v[i]
    <2>1. (Len(h) - Len(u)) + i = b + i /\ b + i \in 1..Len(h) BY <1>1, <1>2, <1>9, <1>12
    <2> QED BY <1>9, <1>10, <1>11, <1>12, <2>1
<1>14. u = v BY <1>10, <1>11, <1>12, <1>13, SeqEqual
<1> QED BY <1>3, <1>8, <1>14 DEF v

(* The first page of the logs has no cursor.                                 *)
LEMMA FirstOfLogs ==
    ASSUME rows \in 0..MaxRows, NEW f
    PROVE  Logs(FirstPage(f)) = Slice(FirstPage(f))
<1> DEFINE p == FirstPage(f)
           S == Passing(f)
           s == NewestFirst(S)
           u == Take(s)
           v == Take(SubSeq(s, 0 + 1, Len(s)))
<1>1. s \in Seq(RowIds) /\ Line \in Nat \ {0} /\ Len(s) \in Nat BY PassingIs
<1>2. p.filter = f /\ p.page = 1 /\ p.cursor = 0 /\ p.direction = "" BY DEF FirstPage
<1>3. Logs(p) = u
    <2>1. {m \in S : p.cursor = 0 \/ m < p.cursor} = S BY <1>2
    <2> QED BY <1>2, <2>1 DEF Logs
<1>4. Slice(p) = v
    <2>1. (p.page - 1) * Line = 0
        <3>0. p.page = 1 BY <1>2
        <3>1. p.page - 1 = 0
            <4> HIDE DEF p
            <4> QED BY <3>0
        <3>2. 0 * Line = 0 BY <1>1
        <3> QED BY <3>1, <3>2
    <2> QED BY <1>2, <2>1 DEF Slice
<1> HIDE DEF s, p
<1>5. /\ u \in Seq(RowIds) /\ Len(u) = (IF Len(s) < Line THEN Len(s) ELSE Line)
      /\ \A i \in 1..Len(u) : u[i] = s[i]
    BY <1>1, TakeIs
<1>6. /\ v \in Seq(RowIds)
      /\ Len(v) = (IF Len(s) <= 0 THEN 0 ELSE IF Len(s) - 0 < Line THEN Len(s) - 0 ELSE Line)
      /\ \A i \in 1..Len(v) : v[i] = s[0 + i]
    <2>1. 0 \in Nat OBVIOUS
    <2> QED BY <1>1, <2>1, SliceIs
<1> HIDE DEF u, v
<1>7. Len(u) = Len(v) /\ \A i \in 1..Len(u) : u[i] = v[i] BY <1>1, <1>5, <1>6
<1>8. u = v BY <1>5, <1>6, <1>7, SeqEqual
<1> QED BY <1>3, <1>4, <1>8 DEF p

-----------------------------------------------------------------------------
(* Listings: what is shown.                                                  *)

(* Rows for the address as it is.                                            *)
Right(s) == Whole(s, Passing(params.filter)) /\ (~strayed.grown => s = RowsFor(params))

(* Pages are counted from 1.                                                 *)
Counted ==
    /\ params.page >= 1
    /\ \A i \in 1..2 : Waiting(i) => sent[i].params.page >= 1

(* The newest request is for the address, and its answer is right.           *)
NewestSent ==
    Waiting(2) => /\ sent[2].params = params /\ strayed.stale
                  /\ sent[2].answered => Right(sent[2].page)

ShownRight == ~strayed.stale => Right(shown)

(* The cursor of the logs is where the page in the address begins or ends.   *)
Placed == kind = "logs" /\ ~strayed.hasty /\ ~strayed.grown => Logs(params) = Slice(params)

ListInv == ListTypeOK /\ Counted /\ NewestSent /\ ShownRight /\ Placed

LEMMA ParamsAddress ==
    ASSUME NEW p \in Params, p.page >= 1
    PROVE  Address(p) /\ p.filter \in Filters
<1>1. p.page \in Int /\ p.cursor \in 0..MaxRows /\ p.filter \in Filters BY DEF Params
<1>2. p.page \in Nat \ {0} BY <1>1
<1> QED BY <1>1, <1>2 DEF Address

LEMMA SentTypes ==
    ASSUME ListTypeOK, NEW i \in 1..2, Waiting(i)
    PROVE  /\ sent[i] \in Sent /\ sent[i].answered \in BOOLEAN /\ sent[i].params \in Params
           /\ sent[i].page \in Seq(RowIds) /\ sent[i].count \in 0..MaxRows
<1>1. sent[i] \in Sent BY DEF ListTypeOK, Waiting
<1> QED BY <1>1 DEF Sent

LEMMA SentIs ==
    ASSUME NEW r \in Sent PROVE r # NotSent
<1>1. "params" \in DOMAIN r BY DEF Sent
<1>2. "params" \notin DOMAIN NotSent BY DEF NotSent
<1> QED BY <1>1, <1>2

LEMMA RequestIs ==
    ASSUME NEW p \in Params
    PROVE  Request(p) \in Sent /\ Request(p).params = p /\ Request(p).answered = FALSE
<1>1. 0 \in 0..MaxRows BY ListingsAssumption
<1>2. <<>> \in Seq(RowIds) OBVIOUS
<1> QED BY <1>1, <1>2 DEF Request, Sent

LEMMA FirstPageIs ==
    ASSUME NEW f \in Filters
    PROVE  FirstPage(f) \in Params /\ FirstPage(f).page = 1 /\ FirstPage(f).filter = f
<1>1. 0 \in 0..MaxRows BY ListingsAssumption
<1> QED BY <1>1 DEF FirstPage, Params

LEMMA AnswerIsRight ==
    ASSUME ListTypeOK, NEW p, Address(p)
    PROVE  RowsFor(p) \in Seq(RowIds) /\ Whole(RowsFor(p), Passing(p.filter))
<1>1. rows \in 0..MaxRows /\ kind \in {"logs", "users", "rooms"} BY DEF ListTypeOK
<1>2. CASE kind = "logs" BY <1>1, <1>2, LogsWhole DEF RowsFor
<1>3. CASE kind = "users" BY <1>1, <1>3, SliceWhole DEF RowsFor
<1>4. CASE kind = "rooms"
    <2> DEFINE S == Passing(p.filter)
               s == NewestFirst(S)
    <2>1. S \in SUBSET RowIds /\ s \in Seq(RowIds) BY <1>1, PassingIs
    <2>2. 0 \in Nat /\ Len(s) \in Nat /\ \A i \in 1..Len(s) : 0 + i = i BY <2>1
    <2>3. Len(s) # 0 => 0 + Len(s) <= Len(s) /\ \A i \in 1..Len(s) : s[i] = s[0 + i] BY <2>2
    <2>4. Whole(s, S)
        <3> HIDE DEF S
        <3> QED BY <2>1, <2>2, <2>3, RunIsWhole
    <2> QED BY <1>4, <2>1, <2>4 DEF RowsFor
<1> QED BY <1>1, <1>2, <1>3, <1>4


(* A request is sent: nothing is shown for it yet.                           *)
LEMMA SendStep ==
    ASSUME ListInv, NEW p \in Params, p.page >= 1, params' = p, Fetch(p),
           UNCHANGED <<kind, rows, shown, total>>,
           strayed' \in Strayed, strayed'.stale = TRUE, Placed'
    PROVE  ListInv'
<1>1. ListTypeOK /\ Counted BY DEF ListInv
<1> DEFINE x == IF Waiting(2) THEN sent[2] ELSE sent[1]
           r == Request(p)
<1>2. sent' = <<x, r>> BY DEF Fetch
<1>3. x \in Sent \cup {NotSent} BY <1>1 DEF ListTypeOK
<1>4. r \in Sent /\ r.params = p /\ r.answered = FALSE BY RequestIs
<1>5. x # NotSent => x.params.page >= 1 BY <1>1 DEF Counted, Waiting
<1> HIDE DEF x, r
<1>6. sent'[1] = x /\ sent'[2] = r /\ sent' \in [1..2 -> Sent \cup {NotSent}]
    <2>1. sent'[1] = x /\ sent'[2] = r BY <1>2
    <2>2. sent' = [i \in 1..2 |-> IF i = 1 THEN x ELSE r] BY <1>2
    <2> QED BY <1>3, <1>4, <2>1, <2>2
<1>7. ListTypeOK' BY <1>1, <1>6 DEF ListTypeOK
<1>8. Counted' BY <1>4, <1>5, <1>6 DEF Counted, Waiting
<1>9. NewestSent' BY <1>4, <1>6 DEF NewestSent
<1>10. ShownRight' BY DEF ShownRight
<1> QED BY <1>7, <1>8, <1>9, <1>10 DEF ListInv

LEMMA BeginStep ==
    ASSUME ListInv, NEW f \in Filters, BeginAt(f) PROVE ListInv'
<1>1. /\ FirstPage(f) \in Params /\ FirstPage(f).page = 1 BY FirstPageIs
<1>2. /\ params' = FirstPage(f) /\ Fetch(FirstPage(f))
      /\ strayed' = [stale |-> TRUE, hasty |-> FALSE, grown |-> FALSE]
      /\ UNCHANGED <<kind, rows, shown, total>>
    BY DEF BeginAt
<1>3. strayed' \in Strayed /\ strayed'.stale = TRUE BY <1>2 DEF Strayed
<1>4. rows \in 0..MaxRows BY DEF ListInv, ListTypeOK
<1>5. Logs(FirstPage(f)) = Slice(FirstPage(f)) BY <1>4, FirstOfLogs
<1>6. Logs(FirstPage(f))' = Logs(FirstPage(f)) /\ Slice(FirstPage(f))' = Slice(FirstPage(f))
    BY <1>2 DEF Logs, Slice, Passing, OldestFirst
<1>7. Placed'
    <2>1. Logs(params)' = Logs(FirstPage(f))' /\ Slice(params)' = Slice(FirstPage(f))'
        BY <1>2 DEF Logs, Slice, Passing, OldestFirst
    <2> QED BY <1>5, <1>6, <2>1 DEF Placed
<1>8. FirstPage(f).page >= 1 BY <1>1
<1> HIDE DEF FirstPage
<1> QED BY <1>1, <1>2, <1>3, <1>7, <1>8, SendStep

(* A page is turned over the rows of that page, or the turn was hasty.       *)
LEMMA TurnLogsStep ==
    ASSUME ListInv, TurnLogs PROVE ListInv'
<1>1. /\ ListTypeOK /\ Counted /\ ShownRight /\ Placed /\ params \in Params /\ strayed \in Strayed
      /\ rows \in 0..MaxRows /\ shown \in Seq(RowIds)
    BY DEF ListInv, ListTypeOK
<1>2. PICK d \in {"prev", "next"} :
        /\ kind = "logs" /\ shown # <<>> /\ CanTurn(d)
        /\ ~strayed.hasty
        /\ params' = [params EXCEPT !.page = Turned(d), !.direction = d,
                        !.cursor = shown[IF d = "prev" THEN 1 ELSE Len(shown)]]
        /\ Fetch(params')
        /\ strayed' = [strayed EXCEPT !.stale = TRUE, !.hasty = strayed.stale]
        /\ UNCHANGED <<kind, rows, shown, total>>
    BY DEF TurnLogs
<1> DEFINE q == [params EXCEPT !.page = Turned(d), !.direction = d,
                        !.cursor = shown[IF d = "prev" THEN 1 ELSE Len(shown)]]
           c == shown[IF d = "prev" THEN 1 ELSE Len(shown)]
<1>3. params' = q BY <1>2
<1>4. c \in 0..MaxRows
    <2>1. 1 \in 1..Len(shown) /\ Len(shown) \in 1..Len(shown) BY <1>1, <1>2
    <2>2. c \in RowIds BY <1>1, <2>1
    <2>3. MaxRows \in Nat BY ListingsAssumption
    <2> HIDE DEF c
    <2> QED BY <2>2, <2>3 DEF RowIds
<1>5. params.page \in Int /\ params.page >= 1 /\ Address(params)
    BY <1>1, ParamsAddress DEF Params, Counted
<1>6. Turned(d) \in Int /\ Turned(d) >= 1
      /\ (d = "prev" => params.page > 1 /\ Turned(d) = params.page - 1)
      /\ (d = "next" => Turned(d) = params.page + 1)
    BY <1>2, <1>5 DEF Turned, CanTurn
<1>7. /\ q.filter = params.filter /\ q.page = Turned(d) /\ q.direction = d /\ q.cursor = c
      /\ q \in Params
    BY <1>1, <1>2, <1>4, <1>6 DEF Params
<1>8. strayed' \in Strayed /\ strayed'.stale = TRUE /\ strayed'.hasty = strayed.stale
      /\ strayed'.grown = strayed.grown
    BY <1>1, <1>2 DEF Strayed
<1> HIDE DEF q
<1>9. ASSUME ~strayed.stale, ~strayed.grown PROVE Logs(q) = Slice(q)
    <2>1. shown = Slice(params)
        <3>1. shown = RowsFor(params) BY <1>1, <1>9 DEF ShownRight, Right
        <3>2. Logs(params) = Slice(params) BY <1>1, <1>2, <1>9 DEF Placed
        <3> QED BY <1>2, <3>1, <3>2 DEF RowsFor
    <2>2. CASE d = "next"
        <3>1. q.cursor = Slice(params)[Len(Slice(params))] BY <1>7, <2>1, <2>2
        <3> QED BY <1>1, <1>2, <1>5, <1>6, <1>7, <2>1, <2>2, <3>1, TurnedForward
    <2>3. CASE d = "prev"
        <3>1. q.cursor = Slice(params)[1] BY <1>7, <2>1, <2>3
        <3> QED BY <1>1, <1>2, <1>5, <1>6, <1>7, <2>1, <2>3, <3>1, TurnedBack
    <2> QED BY <2>2, <2>3
<1>10. Placed'
    <2>1. Logs(params)' = Logs(q) /\ Slice(params)' = Slice(q)
        BY <1>2, <1>3 DEF Logs, Slice, Passing, OldestFirst
    <2> QED BY <1>8, <1>9, <2>1 DEF Placed
<1>11. Fetch(q) /\ UNCHANGED <<kind, rows, shown, total>> /\ q.page >= 1
    BY <1>2, <1>3, <1>6, <1>7
<1> QED BY <1>3, <1>7, <1>8, <1>10, <1>11, SendStep

LEMMA TurnUsersStep ==
    ASSUME ListInv, TurnUsers PROVE ListInv'
<1>1. /\ ListTypeOK /\ Counted /\ params \in Params /\ strayed \in Strayed
    BY DEF ListInv, ListTypeOK
<1>2. PICK d \in {"prev", "next"} :
        /\ kind = "users" /\ CanTurn(d)
        /\ params' = [params EXCEPT !.page = Turned(d)]
        /\ Fetch(params')
        /\ strayed' = [strayed EXCEPT !.stale = TRUE]
        /\ UNCHANGED <<kind, rows, shown, total>>
    BY DEF TurnUsers
<1> DEFINE q == [params EXCEPT !.page = Turned(d)]
<1>3. params.page \in Int /\ params.page >= 1 BY <1>1 DEF Params, Counted
<1>4. Turned(d) \in Int /\ Turned(d) >= 1 BY <1>2, <1>3 DEF Turned, CanTurn
<1>5. q \in Params /\ q.page = Turned(d) BY <1>1, <1>4 DEF Params
<1>6. strayed' \in Strayed /\ strayed'.stale = TRUE BY <1>1, <1>2 DEF Strayed
<1>7. Placed' BY <1>2 DEF Placed
<1>8. params' = q /\ Fetch(q) /\ UNCHANGED <<kind, rows, shown, total>> BY <1>2
<1> HIDE DEF q
<1> QED BY <1>4, <1>5, <1>6, <1>7, <1>8, SendStep

LEMMA StaysPlaced ==
    ASSUME Placed, UNCHANGED <<kind, rows, params>>,
           strayed'.grown = strayed.grown, strayed'.hasty = strayed.hasty
    PROVE  Placed'
BY DEF Placed, Passing, Logs, Slice, OldestFirst

(* A request ends.                                                           *)
LEMMA Ended ==
    ASSUME ListTypeOK, NEW i \in 1..2, sent' = [sent EXCEPT ![i] = NotSent]
    PROVE  /\ sent' \in [1..2 -> Sent \cup {NotSent}]
           /\ \A j \in 1..2 : Waiting(j)' => j # i /\ Waiting(j) /\ sent'[j] = sent[j]
<1>1. sent \in [1..2 -> Sent \cup {NotSent}] BY DEF ListTypeOK
<1>2. sent' \in [1..2 -> Sent \cup {NotSent}] /\ sent'[i] = NotSent
      /\ \A j \in 1..2 : j # i => sent'[j] = sent[j]
    BY <1>1
<1>3. \A j \in 1..2 : Waiting(j)' <=> sent'[j] # NotSent BY DEF Waiting
<1> QED BY <1>2, <1>3 DEF Waiting

LEMMA AnswerStep ==
    ASSUME ListInv, NEW i \in 1..2, Answer(i) PROVE ListInv'
<1>1. /\ ListTypeOK /\ Counted /\ NewestSent /\ Placed /\ strayed \in Strayed
    BY DEF ListInv, ListTypeOK
<1>2. /\ sent[i].answered
      /\ shown' = sent[i].page /\ total' = sent[i].count
      /\ strayed' = [strayed EXCEPT !.stale = (i = 1)]
      /\ sent' = [sent EXCEPT ![i] = NotSent]
      /\ UNCHANGED <<kind, rows, params>>
    BY DEF Answer
<1>3. Waiting(i) BY <1>2 DEF Waiting, NotSent
<1>4. /\ sent[i].page \in Seq(RowIds) /\ sent[i].count \in 0..MaxRows BY <1>1, <1>3, SentTypes
<1>5. /\ sent' \in [1..2 -> Sent \cup {NotSent}]
      /\ \A j \in 1..2 : Waiting(j)' => j # i /\ Waiting(j) /\ sent'[j] = sent[j]
    BY <1>1, <1>2, Ended
<1> DEFINE b == (i = 1)
<1>6. b \in BOOLEAN OBVIOUS
<1>7. strayed' = [strayed EXCEPT !.stale = b] BY <1>2
<1> HIDE DEF b
<1>8. /\ strayed' \in Strayed /\ strayed'.stale = b
      /\ strayed'.hasty = strayed.hasty /\ strayed'.grown = strayed.grown
    BY <1>1, <1>6, <1>7 DEF Strayed
<1>9. ListTypeOK' BY <1>1, <1>2, <1>4, <1>5, <1>8 DEF ListTypeOK
<1>10. Counted' BY <1>1, <1>2, <1>5 DEF Counted
<1>11. NewestSent'
    <2> SUFFICES ASSUME Waiting(2)' PROVE
            /\ sent'[2].params = params' /\ strayed'.stale
            /\ sent'[2].answered => Right(sent[2].page)'
        BY DEF NewestSent
    <2>1. i = 1 /\ Waiting(2) /\ sent'[2] = sent[2] BY <1>5
    <2>2. sent[2].params = params /\ (sent[2].answered => Right(sent[2].page))
        BY <1>1, <2>1 DEF NewestSent
    <2> DEFINE s == sent[2].page
    <2>3. sent[2].answered => Right(s) BY <2>2
    <2>4. (sent[2].page)' = s BY <2>1
    <2> HIDE DEF s
    <2>5. sent[2].answered =>
              /\ Whole(s, Passing(params.filter)') /\ (~strayed'.grown => s = RowsFor(params)')
        BY <1>2, <1>8, <2>3 DEF Right, Whole, Passing, RowsFor, Logs, Slice, OldestFirst
    <2> QED BY <1>2, <1>8, <2>1, <2>2, <2>4, <2>5 DEF b, Right, Whole
<1>12. ShownRight'
    <2> SUFFICES ASSUME ~strayed'.stale PROVE Right(shown)' BY DEF ShownRight
    <2>1. i = 2
        <3>1. ~b BY <1>8
        <3> QED BY <3>1 DEF b
    <2>2. Right(sent[2].page) BY <1>1, <1>2, <1>3, <2>1 DEF NewestSent
    <2> DEFINE s == sent[2].page
    <2>3. Right(s) /\ shown' = s BY <1>2, <2>1, <2>2
    <2> HIDE DEF s
    <2>5. Whole(s, Passing(params.filter)') /\ (~strayed'.grown => s = RowsFor(params)')
        BY <1>2, <1>8, <2>3 DEF Right, Whole, Passing, RowsFor, Logs, Slice, OldestFirst
    <2> QED BY <2>3, <2>5 DEF Right, Whole
<1>13. Placed' BY <1>1, <1>2, <1>8, StaysPlaced
<1> QED BY <1>9, <1>10, <1>11, <1>12, <1>13 DEF ListInv

(* What was right in the same rows, for the same address, is right.          *)
LEMMA SameRight ==
    ASSUME NewestSent, ShownRight, Placed, UNCHANGED <<kind, rows, params, shown, strayed>>,
           Waiting(2)' => Waiting(2) /\ sent'[2] = sent[2]
    PROVE  NewestSent' /\ ShownRight' /\ Placed'
<1>1. /\ \A s : Whole(s, Passing(params.filter)') <=> Whole(s, Passing(params.filter))
      /\ RowsFor(params)' = RowsFor(params)
    BY DEF Passing, RowsFor, Logs, Slice, OldestFirst
<1>2. NewestSent'
    <2> SUFFICES ASSUME Waiting(2)' PROVE
            /\ sent'[2].params = params' /\ strayed'.stale
            /\ sent'[2].answered => Right(sent[2].page)'
        BY DEF NewestSent
    <2>1. /\ sent'[2] = sent[2] /\ sent[2].params = params /\ strayed.stale
          /\ sent[2].answered => Right(sent[2].page)
        BY DEF NewestSent
    <2> DEFINE s == sent[2].page
    <2>2. (sent[2].page)' = s BY <2>1
    <2>3. sent[2].answered => Right(s) BY <2>1
    <2> HIDE DEF s
    <2>4. sent[2].answered =>
              Whole(s, Passing(params.filter)') /\ (~strayed'.grown => s = RowsFor(params)')
        BY <1>1, <2>3 DEF Right
    <2> QED BY <2>1, <2>2, <2>4 DEF Right, Whole
<1>3. ShownRight'
    <2> SUFFICES ASSUME ~strayed'.stale PROVE Right(shown)' BY DEF ShownRight
    <2>1. Right(shown) BY DEF ShownRight
    <2> QED BY <1>1, <2>1 DEF Right, Whole
<1>4. Placed' BY StaysPlaced
<1> QED BY <1>2, <1>3, <1>4

LEMMA FailsStep ==
    ASSUME ListInv, NEW i \in 1..2, FetchFails(i) PROVE ListInv'
<1>1. ListTypeOK /\ Counted /\ NewestSent /\ ShownRight /\ Placed BY DEF ListInv
<1>2. sent' = [sent EXCEPT ![i] = NotSent] /\ UNCHANGED <<kind, rows, params, shown, total, strayed>>
    BY DEF FetchFails
<1>3. /\ sent' \in [1..2 -> Sent \cup {NotSent}]
      /\ \A j \in 1..2 : Waiting(j)' => j # i /\ Waiting(j) /\ sent'[j] = sent[j]
    BY <1>1, <1>2, Ended
<1>4. ListTypeOK' BY <1>1, <1>2, <1>3 DEF ListTypeOK
<1>5. Counted' BY <1>1, <1>2, <1>3 DEF Counted
<1>6. NewestSent' /\ ShownRight' /\ Placed' BY <1>1, <1>2, <1>3, SameRight
<1> QED BY <1>4, <1>5, <1>6 DEF ListInv

(* The server answers with the rows that are there.                          *)
LEMMA ServeStep ==
    ASSUME ListInv, NEW i \in 1..2, Serve(i) PROVE ListInv'
<1> DEFINE r == sent[i]
           p == RowsFor(r.params)
<1>1. /\ ListTypeOK /\ Counted /\ NewestSent /\ ShownRight /\ Placed
      /\ sent \in [1..2 -> Sent \cup {NotSent}] /\ rows \in 0..MaxRows
    BY DEF ListInv, ListTypeOK
<1>2. PICK n \in StartRows..rows :
        sent' = [sent EXCEPT ![i].answered = TRUE, ![i].page = p,
                    ![i].count = Cardinality({m \in 1..n : Matches(r.params.filter, m)})]
    BY DEF Serve
<1>3. Waiting(i) /\ UNCHANGED <<kind, rows, params, shown, total, strayed>> BY DEF Serve
<1>4. r \in Sent /\ r.params \in Params /\ r.params.page >= 1 BY <1>1, <1>3, SentTypes DEF Counted
<1>5. /\ p \in Seq(RowIds) /\ Whole(p, Passing(r.params.filter))
    BY <1>1, <1>4, ParamsAddress, AnswerIsRight
<1> DEFINE M == {m \in 1..n : Matches(r.params.filter, m)}
           c == Cardinality(M)
<1>6. c \in 0..MaxRows
    <2>1. n \in Nat /\ n <= MaxRows /\ MaxRows \in Nat
        <3>1. rows \in Nat /\ rows <= MaxRows /\ MaxRows \in Nat /\ StartRows \in Nat
            BY <1>1, ListingsAssumption
        <3> QED BY <3>1
    <2>2. IsFiniteSet(1..n) /\ Cardinality(1..n) = n
        <3>1. IsFiniteSet(1..n) /\ Cardinality(1..n) = IF 1 > n THEN 0 ELSE n - 1 + 1
            BY <2>1, FS_Interval
        <3> QED BY <2>1, <3>1
    <2>3. M \subseteq 1..n OBVIOUS
    <2> HIDE DEF M
    <2>4. IsFiniteSet(M) /\ Cardinality(M) <= Cardinality(1..n) BY <2>2, <2>3, FS_Subset
    <2>5. Cardinality(M) \in Nat BY <2>4, FS_CardinalityType
    <2> QED BY <2>1, <2>2, <2>4, <2>5
<1>7. sent' = [sent EXCEPT ![i] = [r EXCEPT !.answered = TRUE, !.page = p, !.count = c]] BY <1>2
<1> HIDE DEF r, p, c
<1> DEFINE s == [r EXCEPT !.answered = TRUE, !.page = p, !.count = c]
<1>8. s \in Sent /\ s.params = r.params /\ s.page = p BY <1>4, <1>5, <1>6 DEF Sent
<1>9. sent' = [sent EXCEPT ![i] = s] BY <1>7
<1> HIDE DEF s
<1>10. s # NotSent BY <1>8, SentIs
<1>11. /\ sent' \in [1..2 -> Sent \cup {NotSent}] /\ sent'[i] = s
       /\ \A j \in 1..2 : j # i => sent'[j] = sent[j]
    BY <1>1, <1>8, <1>9
<1>12. \A j \in 1..2 : Waiting(j)' <=> Waiting(j)
    <2> SUFFICES ASSUME NEW j \in 1..2 PROVE Waiting(j)' <=> Waiting(j) OBVIOUS
    <2>1. CASE j = i BY <1>3, <1>10, <1>11, <2>1 DEF Waiting
    <2>2. CASE j # i BY <1>11, <2>2 DEF Waiting
    <2> QED BY <2>1, <2>2
<1>13. ListTypeOK' BY <1>1, <1>3, <1>11 DEF ListTypeOK
<1>14. Counted'
    <2> SUFFICES ASSUME NEW j \in 1..2, Waiting(j) PROVE sent'[j].params.page >= 1
        BY <1>1, <1>3, <1>12 DEF Counted
    <2>1. CASE j = i BY <1>4, <1>8, <1>11, <2>1
    <2>2. CASE j # i BY <1>1, <1>11, <2>2 DEF Counted
    <2> QED BY <2>1, <2>2
<1>15. CASE i # 2 BY <1>1, <1>3, <1>11, <1>12, <1>13, <1>14, <1>15, SameRight DEF ListInv
<1>16. CASE i = 2
    <2>1. r.params = params /\ strayed.stale BY <1>1, <1>3, <1>16 DEF NewestSent, r
    <2>2. p = RowsFor(params) /\ Whole(p, Passing(params.filter)) BY <1>5, <2>1 DEF p
    <2>3. /\ \A x : Whole(x, Passing(params.filter)') <=> Whole(x, Passing(params.filter))
          /\ RowsFor(params)' = RowsFor(params)
        BY <1>3 DEF Passing, RowsFor, Logs, Slice, OldestFirst
    <2>4. (sent[2].page)' = p /\ (sent[2].params)' = params' BY <1>3, <1>8, <1>11, <1>16, <2>1
    <2>5. Whole(p, Passing(params.filter)') /\ p = RowsFor(params)' BY <2>2, <2>3
    <2>6. Right(sent[2].page)' BY <2>4, <2>5 DEF Right, Whole
    <2>7. NewestSent' BY <1>3, <2>1, <2>4, <2>6 DEF NewestSent
    <2>8. ShownRight' BY <1>3, <2>1 DEF ShownRight
    <2>9. Placed' BY <1>1, <1>3, StaysPlaced
    <2> QED BY <1>13, <1>14, <2>7, <2>8, <2>9 DEF ListInv
<1> QED BY <1>15, <1>16

(* A row that is added is newer than what is shown: it makes no hole.        *)
LEMMA AddRowStep ==
    ASSUME ListInv, AddRow PROVE ListInv'
<1>1. /\ ListTypeOK /\ Counted /\ NewestSent /\ ShownRight /\ strayed \in Strayed
      /\ rows \in Nat /\ MaxRows \in Nat
    BY ListingsAssumption DEF ListInv, ListTypeOK
<1>2. /\ rows < MaxRows /\ rows' = rows + 1
      /\ strayed' = [strayed EXCEPT !.grown = TRUE]
      /\ UNCHANGED <<kind, params, shown, total, sent>>
    BY DEF AddRow
<1>3. strayed' \in Strayed /\ strayed'.grown = TRUE /\ strayed'.stale = strayed.stale
    BY <1>1, <1>2 DEF Strayed
<1>4. ListTypeOK' BY <1>1, <1>2, <1>3 DEF ListTypeOK
<1>5. Counted' BY <1>1, <1>2 DEF Counted, Waiting
<1>6. ASSUME NEW s \in Seq(RowIds), Right(s) PROVE Whole(s, Passing(params.filter)')
    <2> DEFINE S == Passing(params.filter)
               T == Passing(params.filter)'
    <2>1. Whole(s, S) BY <1>6 DEF Right
    <2>2. S \subseteq 1..rows BY DEF Passing
    <2>3. \A m : m \in T <=> m \in 1..(rows + 1) /\ Matches(params.filter, m) BY <1>2 DEF Passing
    <2>4. \A m : m \in S <=> m \in 1..rows /\ Matches(params.filter, m) BY DEF Passing
    <2>5. S \subseteq T BY <1>1, <2>3, <2>4
    <2>6. ASSUME NEW m \in T, s # <<>>, m <= s[1] PROVE m \in S
        <3>1. 1 \in 1..Len(s) BY <2>6
        <3>2. s[1] \in 1..rows BY <2>1, <2>2, <3>1 DEF Whole
        <3>3. m \in 1..(rows + 1) /\ Matches(params.filter, m) BY <2>3
        <3>4. m \in 1..rows BY <1>1, <2>6, <3>2, <3>3
        <3> QED BY <2>4, <3>3, <3>4
    <2> HIDE DEF S, T
    <2>7. Whole(s, T) BY <2>1, <2>5, <2>6 DEF Whole
    <2> QED BY <2>7 DEF T
<1>7. NewestSent'
    <2> SUFFICES ASSUME Waiting(2)' PROVE
            /\ sent'[2].params = params' /\ strayed'.stale
            /\ sent'[2].answered => Right(sent[2].page)'
        BY DEF NewestSent
    <2>1. /\ Waiting(2) /\ sent'[2] = sent[2] BY <1>2 DEF Waiting
    <2>2. /\ sent[2].params = params /\ strayed.stale
          /\ sent[2].answered => Right(sent[2].page)
          /\ sent[2].page \in Seq(RowIds)
        BY <1>1, <2>1, SentTypes DEF NewestSent
    <2>3. sent[2].answered => Whole(sent[2].page, Passing(params.filter)') BY <1>6, <2>2
    <2> QED BY <1>2, <1>3, <2>1, <2>2, <2>3 DEF Right, Whole
<1>8. ShownRight'
    <2> SUFFICES ASSUME ~strayed'.stale PROVE Right(shown)' BY DEF ShownRight
    <2>1. Right(shown) /\ shown \in Seq(RowIds) BY <1>1, <1>3 DEF ShownRight, ListTypeOK
    <2>2. Whole(shown, Passing(params.filter)') BY <1>6, <2>1
    <2> QED BY <1>2, <1>3, <2>2 DEF Right, Whole
<1>9. Placed' BY <1>3 DEF Placed
<1> QED BY <1>4, <1>5, <1>7, <1>8, <1>9 DEF ListInv

LEMMA ListStarts == ListInit => ListInv
<1> SUFFICES ASSUME ListInit PROVE ListInv OBVIOUS
<1>1. PICK f \in Filters : params = FirstPage(f) /\ sent = <<NotSent, Request(params)>>
    BY DEF ListInit
<1>2. /\ kind \in {"logs", "users", "rooms"} /\ rows = StartRows /\ shown = <<>> /\ total = 0
      /\ strayed = [stale |-> TRUE, hasty |-> FALSE, grown |-> FALSE]
    BY DEF ListInit
<1>3. params \in Params /\ params.page = 1 BY <1>1, FirstPageIs
<1> DEFINE r == Request(params)
<1>4. r \in Sent /\ r.params = params /\ r.answered = FALSE BY <1>3, RequestIs
<1>5. sent = <<NotSent, r>> BY <1>1
<1> HIDE DEF r
<1>6. sent[1] = NotSent /\ sent[2] = r /\ sent \in [1..2 -> Sent \cup {NotSent}]
    <2>1. sent = [i \in 1..2 |-> IF i = 1 THEN NotSent ELSE r] BY <1>5
    <2> QED BY <1>4, <1>5, <2>1
<1>7. rows \in 0..MaxRows /\ 0 \in 0..MaxRows BY <1>2, ListingsAssumption
<1>8. strayed \in Strayed /\ strayed.stale = TRUE BY <1>2 DEF Strayed
<1>9. ListTypeOK
    <2>1. shown \in Seq(RowIds) BY <1>2
    <2> QED BY <1>2, <1>3, <1>6, <1>7, <1>8, <2>1 DEF ListTypeOK
<1>10. Counted BY <1>3, <1>4, <1>6 DEF Counted, Waiting
<1>11. NewestSent BY <1>4, <1>6, <1>8 DEF NewestSent
<1>12. ShownRight BY <1>8 DEF ShownRight
<1>13. Placed BY <1>1, <1>7, FirstOfLogs DEF Placed
<1> QED BY <1>9, <1>10, <1>11, <1>12, <1>13 DEF ListInv

LEMMA ListStep == ListInv /\ [ListNext]_listVars => ListInv'
<1> SUFFICES ASSUME ListInv, [ListNext]_listVars PROVE ListInv' OBVIOUS
<1>1. CASE FilterLogs BY <1>1, BeginStep DEF FilterLogs
<1>2. CASE FilterUsers BY <1>2, BeginStep DEF FilterUsers
<1>3. CASE FilterRooms BY <1>3, BeginStep DEF FilterRooms
<1>4. CASE TurnLogs BY <1>4, TurnLogsStep
<1>5. CASE TurnUsers BY <1>5, TurnUsersStep
<1>6. CASE AddRow BY <1>6, AddRowStep
<1>7. ASSUME NEW i \in 1..2, Serve(i) PROVE ListInv' BY <1>7, ServeStep
<1>8. ASSUME NEW i \in 1..2, Answer(i) PROVE ListInv' BY <1>8, AnswerStep
<1>9. ASSUME NEW i \in 1..2, FetchFails(i) PROVE ListInv' BY <1>9, FailsStep
<1>10. CASE UNCHANGED listVars
    <2>1. UNCHANGED <<kind, rows, params, shown, total, sent, strayed>> BY <1>10 DEF listVars
    <2>2. ListTypeOK /\ Counted /\ NewestSent /\ ShownRight /\ Placed BY DEF ListInv
    <2>3. ListTypeOK' BY <2>1, <2>2 DEF ListTypeOK
    <2>4. Counted' /\ (Waiting(2)' => Waiting(2) /\ sent'[2] = sent[2])
        BY <2>1, <2>2 DEF Counted, Waiting
    <2>5. NewestSent' /\ ShownRight' /\ Placed' BY <2>1, <2>2, <2>4, SameRight
    <2> QED BY <2>3, <2>4, <2>5 DEF ListInv
<1> QED BY <1>1, <1>2, <1>3, <1>4, <1>5, <1>6, <1>7, <1>8, <1>9, <1>10 DEF ListNext

LEMMA ListHolds == ListSpec => []ListInv
<1> QED BY ListStarts, ListStep, PTL DEF ListSpec

(* The address, the list and the requests keep their types, for any number   *)
(* of rows, filters and turns.                                               *)
THEOREM ListTypeCorrect == ListSpec => []ListTypeOK
<1>1. ListInv => ListTypeOK BY DEF ListInv
<1> QED BY <1>1, ListHolds, PTL

(* In every run, for any number of rows, any filter and length of page: when *)
(* no answer is outstanding, the logs, users or rooms shown are those of the *)
(* page in the address, whichever way it was turned to, and have no hole,    *)
(* unless an answer was late or lost or a turn was hasty.                    *)
THEOREM ListsAreExact == ListSpec => []ListExact
<1>1. ListInv => ListExact
    <2> SUFFICES ASSUME ListInv, ~strayed.stale, ~strayed.hasty
                 PROVE  /\ strayed.grown
                            \/ shown = (IF kind = "rooms" THEN NewestFirst(Passing(params.filter))
                                        ELSE Slice(params))
                        /\ \A m \in Passing(params.filter) :
                             shown # <<>> /\ shown[Len(shown)] <= m /\ m <= shown[1]
                               => \E i \in DOMAIN shown : shown[i] = m
        BY DEF ListExact
    <2>1. Right(shown) /\ Placed /\ kind \in {"logs", "users", "rooms"} /\ shown \in Seq(RowIds)
        BY DEF ListInv, ShownRight, ListTypeOK
    <2>2. strayed.grown \/ shown = (IF kind = "rooms" THEN NewestFirst(Passing(params.filter))
                                    ELSE Slice(params))
        BY <2>1 DEF Right, RowsFor, Placed
    <2>3. Whole(shown, Passing(params.filter)) /\ DOMAIN shown = 1..Len(shown) BY <2>1 DEF Right
    <2> QED BY <2>2, <2>3 DEF Whole
<1> QED BY <1>1, ListHolds, PTL

-----------------------------------------------------------------------------
(* The four parts side by side.                                             *)

(* Each of the parts behaves as its own specification says, whatever the     *)
(* others do.                                                               *)
THEOREM PartsApart == Spec => RoomsSpec /\ SummarySpec /\ CountSpec /\ ListSpec
<1>1. Init => RoomsInit /\ SummaryInit /\ CountInit /\ ListInit BY DEF Init
<1>2. [Next]_backoffice => [RoomsNext]_roomsVars BY DEF Next, backoffice
<1>3. [Next]_backoffice => [SummaryNext]_summaryVars BY DEF Next, backoffice
<1>4. [Next]_backoffice => [CountNext]_countVars BY DEF Next, backoffice
<1>5. [Next]_backoffice => [ListNext]_listVars BY DEF Next, backoffice
<1> QED BY <1>1, <1>2, <1>3, <1>4, <1>5, PTL DEF Spec, RoomsSpec, SummarySpec, CountSpec, ListSpec

(* Whichever part is at work, the variables of all four keep their types.    *)
THEOREM BackofficeTypeCorrect == Spec => []TypeOK
BY PartsApart, RoomsTypeCorrect, SummaryTypeCorrect, CountTypeCorrect, ListTypeCorrect, PTL DEF TypeOK

(* Side by side the parts keep what each keeps alone: summaries whole and    *)
(* asked for once, counts fresh, removed rooms clean, images whole, live     *)
(* rooms kept and lists exact.                                              *)
THEOREM BackofficeCorrect ==
    Spec => /\ [](/\ SummaryLock /\ SummaryWhole /\ CountFresh
                  /\ RemovedRoomClean /\ ImagesWhole /\ ListExact)
            /\ LiveRoomStays
BY PartsApart, OneAtTheModel, SummariesAreWhole, CountsAreFresh, RemovedRoomsAreClean, ImagesAreWhole,
   ListsAreExact, LiveRoomsStay, PTL
=============================================================================
