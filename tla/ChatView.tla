------------------------------ MODULE ChatView ------------------------------
(***************************************************************************)
(* The message list of one browser window: pages that the room page loads  *)
(* over HTTP, and the messages and deletions that come over the socket.    *)
(* Events of the socket keep their order; nothing orders them and the      *)
(* answers to HTTP requests.                                               *)
(***************************************************************************)
EXTENDS MessageQueries

CONSTANTS
    ViewLimit,      \* slice(-200)
    MaxLost         \* bound on the connections that are lost

ASSUME ViewAssumption == ViewLimit \in Nat \ {0} /\ MaxLost \in Nat

VARIABLES
    view,       \* the messages shown
    top,        \* serverLastId
    load,       \* the HTTP request of loadMessages or loadSearchedMessageAround
    joined,     \* is the socket in the room on the server?
    wire,       \* events sent to the socket and not yet handled
    lost,       \* how often the connection was lost
    past        \* history: what has happened to the list

client == <<view, top, load, joined, wire, lost, past>>

NoLoad == [kind |-> "none", at |-> 0, page |-> <<>>, answered |-> FALSE]
Request(k, c) == [kind |-> k, at |-> c, page |-> <<>>, answered |-> FALSE]
Loads == [kind: {"none", "init", "before", "recent", "around", "context"}, at: 0..MaxPosted,
          page: Seq(Entry), answered: BOOLEAN]
Event == [what: {"create", "delete"}, id: Ids]

(* crossed: a page and a live message passed each other.  gap: messages     *)
(* were posted while the socket was not in the room, or came to a list that *)
(* a jump had opened, or the oldest page,                                   *)
(* or were not in the table yet when the page before another was read.      *)
(* jumped: there was a jump, or the window opened with the oldest messages. *)
(* late: deletions whose event came beside a page or not at all.  seen: the *)
(* newest id shown.                                                         *)
Past == [crossed: BOOLEAN, gap: BOOLEAN, jumped: BOOLEAN, late: SUBSET Ids, seen: 0..MaxPosted]

(* The room has been fetched: the first load and the socket start together. *)
ClientInit ==
    /\ view = <<>> /\ top = 0
    /\ load = Request("init", 0)
    /\ joined = FALSE /\ wire = <<>> /\ lost = 0
    /\ past = [crossed |-> FALSE, gap |-> FALSE, jumped |-> FALSE, late |-> {}, seen |-> 0]

Loading == load.kind # "none"
LastId(v) == IF v = <<>> THEN 0 ELSE v[Len(v)].id
TheLast(v) == IF Len(v) <= ViewLimit THEN v ELSE SubSeq(v, Len(v) - ViewLimit + 1, Len(v))

(* setMessages, and the effect that follows it: serverLastId, which the load *)
(* may just have set to t, becomes at least the last id shown.               *)
Show(v, t, after) ==
    /\ view' = v
    /\ top' = Max({t, LastId(v)})
    /\ past' = [after EXCEPT !.seen = Max({@, LastId(v)})]

-----------------------------------------------------------------------------
(* The store, and the events it sends to a joined socket.                   *)
PostAndEmit ==
    /\ Post
    /\ wire' = IF joined THEN Append(wire, [what |-> "create", id |-> posted']) ELSE wire
    /\ past' = [past EXCEPT !.gap = @ \/ ~joined]
    /\ UNCHANGED <<view, top, load, joined, lost>>

DeleteAndEmit ==
    \E m \in Ids:
        /\ Delete(m)
        /\ wire' = IF joined THEN Append(wire, [what |-> "delete", id |-> m]) ELSE wire
        /\ past' = [past EXCEPT !.late = IF joined THEN @ ELSE @ \cup {m}]
        /\ UNCHANGED <<view, top, load, joined, lost>>

FlushOnly == Flush /\ UNCHANGED client

(* connect: joinRoom is sent after every connection, no messages are asked for. *)
Join ==
    /\ ~joined
    /\ joined' = TRUE
    /\ UNCHANGED <<store, view, top, load, wire, lost, past>>

(* The connection is lost with the events under way; the client reconnects. *)
LoseConnection ==
    /\ joined /\ lost < MaxLost
    /\ joined' = FALSE /\ wire' = <<>> /\ lost' = lost + 1
    /\ past' = [past EXCEPT !.gap = @ \/ \E i \in DOMAIN wire: wire[i].what = "create",
                            !.late = @ \cup {wire[i].id: i \in DOMAIN wire}]
    /\ UNCHANGED <<store, view, top, load>>

-----------------------------------------------------------------------------
(* Mutant: a live message without its isDeleted. *)
LiveUnmarked(m) == [id |-> m]

Live(m) == [id |-> m, del |-> FALSE]

(* messageCreate: the message is appended whatever the list shows. *)
ReceiveMessage ==
    /\ wire # <<>> /\ Head(wire).what = "create"
    /\ Show(TheLast(Append(view, Live(Head(wire).id))), top,
            [past EXCEPT !.crossed = @ \/ Loading, !.gap = @ \/ past.jumped])
    /\ wire' = Tail(wire)
    /\ UNCHANGED <<store, load, joined, lost>>

(* Mutant: the deletion of the last message only. *)
MarkLast(v, m) == [i \in DOMAIN v |-> [v[i] EXCEPT !.del = @ \/ (v[i].id = m /\ i = Len(v))]]

Mark(v, m) == [i \in DOMAIN v |-> [v[i] EXCEPT !.del = @ \/ v[i].id = m]]

(* messageDeleted: the message is marked if the list shows it. *)
ReceiveDeletion ==
    /\ wire # <<>> /\ Head(wire).what = "delete"
    /\ Show(Mark(view, Head(wire).id), top,
            [past EXCEPT !.late = IF Loading THEN @ \cup {Head(wire).id} ELSE @])
    /\ wire' = Tail(wire)
    /\ UNCHANGED <<store, load, joined, lost>>

-----------------------------------------------------------------------------
(* handleScroll at the top, and loadMessages("before"). *)
ScrollUp ==
    /\ ~Loading /\ view # <<>>
    /\ load' = Request("before", view[1].id)
    /\ UNCHANGED <<store, view, top, joined, wire, lost, past>>

(* handleScroll at the bottom, which compares numbers, and                  *)
(* loadMessages("recent").                                                  *)
ScrollDown ==
    /\ ~Loading /\ view # <<>> /\ Rounded(LastId(view)) < Rounded(top)
    /\ load' = Request("recent", LastId(view))
    /\ UNCHANGED <<store, view, top, joined, wire, lost, past>>

(* A click on a message that a search has found: the list is emptied first. *)
Jump ==
    \E m \in 1..posted:
        /\ ~Loading
        /\ load' = Request("context", m)
        /\ view' = <<>>
        /\ past' = [past EXCEPT !.jumped = TRUE]
        /\ UNCHANGED <<store, top, joined, wire, lost>>

(* A page with messages before a message that is not in the table yet. *)
LacksUnsaved == load.kind \in {"before", "context"} /\ load.at > stored + 1

(* A window that opens with the oldest messages of a longer room: the table *)
(* is read without an order, for want of a cache.                           *)
OpensOld == load.kind = "init" /\ Cached = {} /\ stored > PageSize

(* The first query of a jump. *)
AnswerBefore ==
    /\ load.kind = "context"
    /\ load' = [load EXCEPT !.kind = "around", !.page = AroundBefore(load.at)]
    /\ past' = [past EXCEPT !.gap = @ \/ LacksUnsaved]
    /\ UNCHANGED <<store, view, top, joined, wire, lost>>

(* The server answers with what it reads now. *)
Answer ==
    /\ load.kind \in {"init", "before", "recent", "around"} /\ ~load.answered
    /\ load' = [load EXCEPT !.answered = TRUE,
                            !.page = CASE load.kind = "init"   -> FirstPage
                                       [] load.kind = "before" -> Before(load.at)
                                       [] load.kind = "recent" -> Recent(load.at)
                                       [] load.kind = "around" -> load.page \o AroundFrom(load.at)]
    /\ past' = [past EXCEPT !.crossed = @ \/ wire # <<>>,
                            !.gap = @ \/ LacksUnsaved,
                            !.jumped = @ \/ OpensOld]
    /\ UNCHANGED <<store, view, top, joined, wire, lost>>

(* Mutant: the older page is put after the list. *)
MergedBehind(kind, page) ==
    CASE kind = "before" -> view \o page
      [] kind = "recent" -> TheLast(view \o page)
      [] OTHER           -> page

Merged(kind, page) ==
    CASE kind = "before" -> page \o view
      [] kind = "recent" -> TheLast(view \o page)
      [] OTHER           -> page

(* setMessages in loadMessages and loadSearchedMessageAround; an empty page *)
(* changes nothing.                                                         *)
Apply ==
    /\ Loading /\ load.answered
    /\ IF load.page = <<>> THEN UNCHANGED <<view, top, past>>
       ELSE Show(Merged(load.kind, load.page),
                 IF load.kind \in {"init", "recent"} THEN LastId(load.page) ELSE top,
                 past)
    /\ load' = NoLoad
    /\ UNCHANGED <<store, joined, wire, lost>>

(* The request fails: the list stays as it is. *)
LoadFails ==
    /\ Loading
    /\ load' = NoLoad
    /\ UNCHANGED <<store, view, top, joined, wire, lost, past>>

ClientNext ==
    \/ PostAndEmit \/ DeleteAndEmit \/ FlushOnly
    \/ Join \/ LoseConnection \/ ReceiveMessage \/ ReceiveDeletion
    \/ ScrollUp \/ ScrollDown \/ Jump \/ AnswerBefore \/ Answer \/ Apply \/ LoadFails

viewVars == <<store, client>>
ViewSpec == StoreInit /\ ClientInit /\ [][ClientNext]_viewVars

-----------------------------------------------------------------------------
(* Types of the store and of the list. *)
ViewTypeOK ==
    /\ posted \in 0..MaxPosted /\ stored \in 0..posted /\ trimmed \in 0..posted
    /\ deleted \subseteq Ids
    /\ view \in Seq(Entry) /\ top \in 0..MaxPosted
    /\ load \in Loads /\ joined \in BOOLEAN /\ wire \in Seq(Event)
    /\ lost \in 0..MaxLost /\ past \in Past

(* The list shows messages in the order of their ids and none twice, unless *)
(* a live message and a page passed each other.                             *)
ViewInOrder ==
    ~past.crossed => \A i \in 1..(Len(view) - 1): view[i].id < view[i + 1].id

(* Between two messages shown there is none that is not shown, through any  *)
(* number of pages in both directions and jumps, unless a page and a        *)
(* message crossed, the socket was out of the room, a live message came     *)
(* after a jump or to a window that had opened with the oldest messages, or *)
(* a page was asked for that was not in the table yet.                      *)
ViewWithoutHole ==
    ~past.crossed /\ ~past.gap =>
        \A i \in 1..(Len(view) - 1): view[i + 1].id <= view[i].id + 1

(* A message shown whose deletion the socket has delivered is shown as      *)
(* deleted, unless a load was under way when the event came.                *)
DeletedShown ==
    \A i \in DOMAIN view:
        view[i].id \in deleted \ past.late
            => view[i].del \/ \E j \in DOMAIN wire: wire[j] = [what |-> "delete", id |-> view[i].id]

(* The comment of handleScroll: the list loads on at the bottom when its    *)
(* last id is below the server's last one.  So a list that has seen newer   *)
(* messages than it shows can always load them.                             *)
NewestReachable ==
    ~past.crossed /\ ~Loading /\ view # <<>> /\ LastId(view) < past.seen => LastId(view) < top
=============================================================================
