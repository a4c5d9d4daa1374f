------------------------------ MODULE Listings ------------------------------
(***************************************************************************)
(* The lists with a filter: the administrators' message logs and users,    *)
(* and the rooms.  Each change of the parameters in the address of the     *)
(* page sends a request; none waits for the one before, and each answer    *)
(* replaces what is shown, in whatever order the answers come.             *)
(*                                                                         *)
(* The logs are paged by the id of the first or last one shown, the users  *)
(* by an offset, the rooms are all shown.  The server caches the number of *)
(* logs for one filter of each administrator; the batch, after it has      *)
(* stored logs, removes these caches (KEYS, then DEL).                     *)
(*                                                                         *)
(* Rows of one table are numbered by id; they are only added.              *)
(***************************************************************************)
EXTENDS Integers, Sequences, FiniteSets, SequencesExt, FiniteSetsExt

CONSTANTS
    StartRows, MaxRows,     \* bounds on the rows, at the beginning and later
    Line,                   \* rows of a page
    Filters,                \* settings of the filter
    Matches(_, _)           \* does the filter let the row pass?

ASSUME ListingsAssumption == StartRows \in 0..MaxRows /\ MaxRows \in Nat /\ Line \in Nat \ {0}

VARIABLES
    kind,       \* which of the lists
    rows,       \* the newest row
    params,     \* the address of the page
    shown,      \* ids of the rows shown
    total,      \* totalCount
    sent,       \* requests under way: 2 is the newest one, 1 one from before
    strayed     \* history: why the list may not be what the address says

listVars == <<kind, rows, params, shown, total, sent, strayed>>

RowIds == 1..MaxRows
Params == [filter: Filters, page: Int, cursor: 0..MaxRows, direction: {"", "next", "prev"}]
Sent == [answered: BOOLEAN, params: Params, page: Seq(RowIds), count: 0..MaxRows]

(* stale: the last answer shown is not the newest request's; hasty: the page *)
(* was turned over rows that were not the page's; grown: rows were added    *)
(* since the filter was set.                                                *)
Strayed == [stale: BOOLEAN, hasty: BOOLEAN, grown: BOOLEAN]

FirstPage(f) == [filter |-> f, page |-> 1, cursor |-> 0, direction |-> ""]
NotSent == [answered |-> FALSE]
Waiting(i) == sent[i] # NotSent
Quiet == ~Waiting(1) /\ ~Waiting(2)

Request(p) == [answered |-> FALSE, params |-> p, page |-> <<>>, count |-> 0]

ListInit ==
    /\ kind \in {"logs", "users", "rooms"}
    /\ rows = StartRows
    /\ \E f \in Filters:
         /\ params = FirstPage(f)
         /\ sent = <<NotSent, Request(params)>>
    /\ shown = <<>> /\ total = 0
    /\ strayed = [stale |-> TRUE, hasty |-> FALSE, grown |-> FALSE]

-----------------------------------------------------------------------------
(* The rows of the table that pass the filter, newest first.                *)
Passing(f) == {m \in 1..rows: Matches(f, m)}
NewestFirst(S) == [i \in 1..Cardinality(S) |-> CHOOSE m \in S: Cardinality({k \in S: k > m}) = i - 1]
OldestFirst(S) == Reverse(NewestFirst(S))
Take(s) == SubSeq(s, 1, IF Len(s) < Line THEN Len(s) ELSE Line)

(* Mutant: the rows before the cursor are taken from the newest on. *)
LogsFromTop(p) ==
    IF p.direction = "prev" THEN Take(NewestFirst({m \in Passing(p.filter): m > p.cursor}))
    ELSE Take(NewestFirst({m \in Passing(p.filter): p.cursor = 0 \/ m < p.cursor}))

(* The query of getAllMessageLogs; the page turns the rows of "prev" round.  *)
Logs(p) ==
    IF p.direction = "prev"
    THEN Reverse(Take(OldestFirst({m \in Passing(p.filter): m > p.cursor})))
    ELSE Take(NewestFirst({m \in Passing(p.filter): p.cursor = 0 \/ m < p.cursor}))

(* OFFSET (page - 1) * limit LIMIT limit. *)
Slice(p) == LET s == NewestFirst(Passing(p.filter)) IN Take(SubSeq(s, (p.page - 1) * Line + 1, Len(s)))

RowsFor(p) == CASE kind = "logs"  -> Logs(p)
                [] kind = "users" -> Slice(p)
                [] kind = "rooms" -> NewestFirst(Passing(p.filter))

TotalPages == IF total = 0 THEN 1 ELSE (total + Line - 1) \div Line

-----------------------------------------------------------------------------
(* The page.                                                                *)

(* The effect on searchParams: fetchLogs, loadUsers, load.                  *)
Fetch(p) ==
    /\ ~Waiting(1) \/ ~Waiting(2)
    /\ sent' = <<IF Waiting(2) THEN sent[2] ELSE sent[1], Request(p)>>

(* The address is set: nothing is known of the pages of this filter.        *)
BeginAt(f) ==
    /\ params' = FirstPage(f)
    /\ Fetch(params')
    /\ strayed' = [stale |-> TRUE, hasty |-> FALSE, grown |-> FALSE]
    /\ UNCHANGED <<kind, rows, shown, total>>

(* updateParams of the logs, for the search and each of the selections: the  *)
(* cursor goes and the first page is asked for.  An address that stays the  *)
(* same asks for nothing.                                                   *)
FilterLogs == kind = "logs" /\ \E f \in Filters: FirstPage(f) # params /\ BeginAt(f)

(* updateParams of the users, without a page among what is set.             *)
FilterUsers == kind = "users" /\ \E f \in Filters: FirstPage(f) # params /\ BeginAt(f)

(* Every letter of the search loads, and Enter does with the search as it is. *)
FilterRooms == kind = "rooms" /\ \E f \in Filters: BeginAt(f)

(* The buttons to either side of the page's number. *)
CanTurn(d) == IF d = "prev" THEN params.page > 1 ELSE params.page < TotalPages
Turned(d) == params.page + (IF d = "prev" THEN -1 ELSE 1)

(* movePage: the cursor is the first or the last log shown, be they those of *)
(* the page in the address or not.  Bound: not after a hasty turn.          *)
TurnLogs ==
    \E d \in {"prev", "next"}:
        /\ kind = "logs" /\ shown # <<>> /\ CanTurn(d)
        /\ ~strayed.hasty
        /\ params' = [params EXCEPT !.page = Turned(d), !.direction = d,
                        !.cursor = shown[IF d = "prev" THEN 1 ELSE Len(shown)]]
        /\ Fetch(params')
        /\ strayed' = [strayed EXCEPT !.stale = TRUE, !.hasty = strayed.stale]
        /\ UNCHANGED <<kind, rows, shown, total>>

(* The users' buttons: updateParams with a page. *)
TurnUsers ==
    \E d \in {"prev", "next"}:
        /\ kind = "users" /\ CanTurn(d)
        /\ params' = [params EXCEPT !.page = Turned(d)]
        /\ Fetch(params')
        /\ strayed' = [strayed EXCEPT !.stale = TRUE]
        /\ UNCHANGED <<kind, rows, shown, total>>

(* setLogs and setTotal with the answer, which may be an earlier request's.  *)
Answer(i) ==
    /\ sent[i].answered
    /\ shown' = sent[i].page /\ total' = sent[i].count
    /\ strayed' = [strayed EXCEPT !.stale = (i = 1)]
    /\ sent' = [sent EXCEPT ![i] = NotSent]
    /\ UNCHANGED <<kind, rows, params>>

(* The request fails: what was shown stays. *)
FetchFails(i) ==
    /\ Waiting(i)
    /\ sent' = [sent EXCEPT ![i] = NotSent]
    /\ UNCHANGED <<kind, rows, params, shown, total, strayed>>

-----------------------------------------------------------------------------
(* The server.                                                              *)

(* The rows, and a number of rows: the cached one, or one counted just       *)
(* before.                                                                  *)
Serve(i) ==
    /\ Waiting(i) /\ ~sent[i].answered
    /\ \E n \in StartRows..rows:
         sent' = [sent EXCEPT ![i].answered = TRUE, ![i].page = RowsFor(sent[i].params),
                    ![i].count = Cardinality({m \in 1..n: Matches(sent[i].params.filter, m)})]
    /\ UNCHANGED <<kind, rows, params, shown, total, strayed>>

(* A log, an account or a room is added. *)
AddRow ==
    /\ rows < MaxRows
    /\ rows' = rows + 1
    /\ strayed' = [strayed EXCEPT !.grown = TRUE]
    /\ UNCHANGED <<kind, params, shown, total, sent>>

ListNext ==
    \/ FilterLogs \/ FilterUsers \/ FilterRooms \/ TurnLogs \/ TurnUsers \/ AddRow
    \/ \E i \in 1..2: Serve(i) \/ Answer(i) \/ FetchFails(i)

ListSpec == ListInit /\ [][ListNext]_listVars

-----------------------------------------------------------------------------
(* Types. *)
ListTypeOK ==
    /\ kind \in {"logs", "users", "rooms"} /\ rows \in 0..MaxRows
    /\ params \in Params /\ shown \in Seq(RowIds) /\ total \in 0..MaxRows
    /\ sent \in [1..2 -> Sent \cup {NotSent}]
    /\ strayed \in Strayed

(* With no answer outstanding, the page that the address names is shown, by  *)
(* whichever way, forward and back, it was come to, unless an earlier       *)
(* request's answer was the last, the newest failed, or the page was turned *)
(* over rows of another page.  Rows added meanwhile may shift the pages,    *)
(* but what is shown has no hole.                                           *)
ListExact ==
    Quiet /\ ~strayed.stale /\ ~strayed.hasty =>
        /\ strayed.grown \/ shown = (IF kind = "rooms" THEN NewestFirst(Passing(params.filter))
                                     ELSE Slice(params))
        /\ \A m \in Passing(params.filter):
             shown # <<>> /\ shown[Len(shown)] <= m /\ m <= shown[1] => \E i \in DOMAIN shown: shown[i] = m
=============================================================================
