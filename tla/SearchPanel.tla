----------------------------- MODULE SearchPanel -----------------------------
(***************************************************************************)
(* The search panel of the room page.  A new search is not held back by    *)
(* the requests under way, and "more" goes on from the last result with    *)
(* the word that the input holds then.  Answers come in any order.         *)
(***************************************************************************)
EXTENDS MessageQueries

CONSTANTS
    Slots       \* requests that can be under way at once

VARIABLES
    query,      \* the word in the input
    results,    \* ids of the messages found
    hasMore,    \* is the button for more shown?
    waiting,    \* loading
    asked,      \* requests under way
    course      \* history: what has happened since the results were emptied

panel == <<query, results, hasMore, waiting, asked, course>>

Ask == [stage: {"cache", "table", "answered"}, what: {"search", "more"},
        word: Queries, cursor: 0..MaxPosted, found: SUBSET Ids, newest: 0..MaxPosted,
        page: Seq(Ids)]

(* overtaken: two requests were under way at once; edited: more was asked   *)
(* for with another word; torn: a message was hidden, or was posted and     *)
(* stored between the two reads of a search, or more was asked for from an  *)
(* id that JavaScript does not tell from others; word: of the last search.  *)
Course == [overtaken: BOOLEAN, edited: BOOLEAN, torn: BOOLEAN, word: Queries]

NoAsk == [stage |-> "none"]
Free(i) == asked[i] = NoAsk
InFlight == {i \in Slots: ~Free(i)}

PanelInit ==
    /\ query \in Queries
    /\ results = <<>> /\ hasMore = FALSE /\ waiting = FALSE
    /\ asked = [i \in Slots |-> NoAsk]
    /\ course = [overtaken |-> FALSE, edited |-> FALSE, torn |-> FALSE, word |-> query]

(* onChange of the input. *)
EditQuery ==
    \E q \in Queries \ {query}:
        query' = q /\ UNCHANGED <<store, results, hasMore, waiting, asked, course>>

Send(w, c) ==
    \E i \in Slots:
        /\ Free(i)
        /\ asked' = [asked EXCEPT ![i] = [stage |-> "cache", what |-> w, word |-> query,
                                         cursor |-> c, found |-> {}, newest |-> 0, page |-> <<>>]]

(* handleSearch *)
HandleSearch ==
    /\ Send("search", 0)
    /\ waiting' = TRUE /\ results' = <<>>
    /\ course' = [overtaken |-> InFlight # {}, edited |-> FALSE, torn |-> FALSE, word |-> query]
    /\ UNCHANGED <<store, query, hasMore>>

(* lastId of handleSearchMore *)
Cursor == results[Len(results)]

(* The button under the results: while loading there is a circle instead.   *)
MoreShown == results # <<>> /\ hasMore /\ ~waiting

(* handleSearchMore *)
HandleSearchMore ==
    /\ MoreShown
    /\ Send("more", Cursor)
    /\ waiting' = TRUE
    /\ course' = [course EXCEPT !.overtaken = @ \/ InFlight # {},
                                !.edited = @ \/ query # course.word,
                                !.torn = @ \/ ~Apart(Cursor)]
    /\ UNCHANGED <<store, query, results, hasMore>>

(* searchMessages on the server: the LRANGE, then the query.                *)
ReadCache(i) ==
    /\ asked[i].stage = "cache"
    /\ asked' = [asked EXCEPT ![i].stage = "table", ![i].newest = posted,
                              ![i].found = FoundInCache(asked[i].word, asked[i].cursor)]
    /\ course' = [course EXCEPT !.torn = @ \/ ~NothingHidden]
    /\ UNCHANGED <<store, query, results, hasMore, waiting>>

ReadTable(i) ==
    /\ asked[i].stage = "table"
    /\ asked' = [asked EXCEPT ![i].stage = "answered", ![i].found = {}, ![i].newest = 0,
                   ![i].page = SearchPage(asked[i].word, asked[i].cursor, asked[i].found)]
    /\ course' = [course EXCEPT !.torn = @ \/ stored > asked[i].newest]
    /\ UNCHANGED <<store, query, results, hasMore, waiting>>

(* Mutant: a full page is taken for the last one. *)
MoreAfterFull(page) == Len(page) > SearchSize

(* A full page: there may be more. *)
MoreAfter(page) == Len(page) = SearchSize

(* The answer of a search replaces the results, one of more is appended.    *)
Arrive(i) ==
    /\ asked[i].stage = "answered"
    /\ results' = IF asked[i].what = "search" THEN asked[i].page ELSE results \o asked[i].page
    /\ hasMore' = MoreAfter(asked[i].page)
    /\ waiting' = FALSE
    /\ asked' = [asked EXCEPT ![i] = NoAsk]
    /\ UNCHANGED <<store, query, course>>

(* The request fails; finally clears loading. *)
AskFails(i) ==
    /\ ~Free(i)
    /\ waiting' = FALSE
    /\ asked' = [asked EXCEPT ![i] = NoAsk]
    /\ UNCHANGED <<store, query, results, hasMore, course>>

StoreOnly == (Post \/ Flush \/ \E m \in Ids: Delete(m)) /\ UNCHANGED panel

PanelNext ==
    \/ EditQuery \/ HandleSearch \/ HandleSearchMore \/ StoreOnly
    \/ \E i \in Slots: ReadCache(i) \/ ReadTable(i) \/ Arrive(i) \/ AskFails(i)

panelVars == <<store, panel>>
PanelSpec == StoreInit /\ PanelInit /\ [][PanelNext]_panelVars

-----------------------------------------------------------------------------
(* Types of the panel. *)
PanelTypeOK ==
    /\ query \in Queries /\ results \in Seq(Ids)
    /\ hasMore \in BOOLEAN /\ waiting \in BOOLEAN
    /\ asked \in [Slots -> Ask \cup {NoAsk}] /\ course \in Course

(* The results are the newest first and none twice, over all pages and with *)
(* messages and deletions coming in between, unless two requests were under *)
(* way at once.  When there is no more to load, every message with the word *)
(* that is not deleted and no newer than the first result has been found,   *)
(* if the word is matched alike in cache and table.                         *)
ResultsComplete ==
    ~course.overtaken =>
        /\ \A i \in 1..(Len(results) - 1): results[i] > results[i + 1]
        /\ /\ ~course.edited /\ ~course.torn /\ course.word \in Exact
           /\ results # <<>> /\ ~hasMore /\ InFlight = {}
           => \A m \in (1..results[1]) \ deleted:
                HasWord(course.word, m) => \E i \in DOMAIN results: results[i] = m
=============================================================================
