---------------------------- MODULE Session_proofs ----------------------------
(***************************************************************************)
(* Proofs about Session, for every number of accounts, names and requests  *)
(* and every choice of the kinds of requests.                              *)
(***************************************************************************)
EXTENDS Session, TLAPS

-----------------------------------------------------------------------------
(* What a request holds between its awaits                                  *)

(* The requests that put a user out. *)
PutsOut == {"ban", "delete", "logout"}

(* What a request record says at each of its steps. *)
HeldOK(q) ==
    /\ q \in Request
    /\ q.pc \in {"profile", "fill", "store", "sid", "clear", "multi", "old", "swap", "load",
                 "save", "cache", "drop"} => q.user \in Users
    /\ q.pc = "guard" => /\ q.sid \in Sids /\ q.kind \in {"visit", "logout"}
                         /\ q.kind = "logout" => q.then # "visit"
    /\ q.pc \in {"profile", "fill", "store"} =>
         /\ q.kind \in PutsOut => q.then # "visit"
         /\ q.kind = "login" => q.row \in Row
    /\ q.pc = "store" => q.copy \in Row
    /\ q.pc \in {"sid", "clear", "multi"} /\ q.kind = "login" => q.row \in Row
    /\ q.pc = "multi" => q.sid \in Sids
    /\ q.pc \in {"old", "swap"} => q.kind = "login" /\ q.row \in Row
    /\ q.pc = "load" => /\ q.kind \in {"login", "ban", "unban", "update"} /\ q.row = None
                        /\ q.kind = "update" => q.name \in Names
    /\ q.pc = "name" => /\ q.kind \in {"create", "update"} /\ q.name \in Names
                        /\ q.kind = "update" => q.user \in Users /\ q.row \in Row
    /\ q.pc = "insert" => q.kind = "create" /\ q.name \in Names
    /\ q.pc \in {"save", "cache"} =>
         /\ q.kind \in {"update", "ban", "unban"} /\ q.row \in Row
         /\ q.kind = "ban" => q.row.banned
         /\ q.kind = "update" => q.row.name = q.name
    /\ q.pc = "drop" => q.kind = "delete"
    /\ q.pc = "done" /\ q.kind \in PutsOut => q.user \in Users

SessionInv == TypeOK /\ \A r \in Reqs : HeldOK(req[r])

LEMMA NoneApart ==
    /\ None \notin Users /\ None \notin Names /\ None \notin Reqs /\ None \notin Sids
    /\ None \notin Row /\ FirstSid \notin Reqs
BY SessionAssumption DEF Sids

LEMMA InitSession == Init => SessionInv
<1> SUFFICES ASSUME Init PROVE SessionInv OBVIOUS
<1>1. Idle \in Request BY DEF Idle, Request, Pcs, AllKinds
<1>2. HeldOK(Idle) BY <1>1 DEF HeldOK, Idle
<1>3. PICK u \in Users, n \in Names :
         /\ row = [v \in Users |-> IF v = u THEN [name |-> n, banned |-> FALSE] ELSE None]
         /\ \/ /\ session = [s \in Sids |-> None]
               /\ mapping = [v \in Users |-> None]
               /\ profile \in {row, [v \in Users |-> None]}
            \/ /\ session = [s \in Sids |-> IF s = FirstSid THEN u ELSE None]
               /\ mapping = [v \in Users |-> IF v = u THEN FirstSid ELSE None]
               /\ profile = row
    BY DEF Init
<1>4. row \in [Users -> Row \cup {None}] BY <1>3 DEF Row
<1>5. profile \in [Users -> Row \cup {None}] BY <1>3, <1>4
<1>6. session \in [Sids -> Users \cup {None}] /\ mapping \in [Users -> Sids \cup {None}]
    BY <1>3 DEF Sids
<1> QED BY <1>1, <1>2, <1>4, <1>5, <1>6 DEF Init, SessionInv, TypeOK

(* A step of r leaves r with `new`, and the other requests as they are.     *)
LEMMA Replaced ==
    ASSUME SessionInv, NEW r \in Reqs, NEW new, HeldOK(new), req' = [req EXCEPT ![r] = new]
    PROVE  req' \in [Reqs -> Request] /\ \A q \in Reqs : HeldOK(req'[q])
BY DEF SessionInv, TypeOK, HeldOK

Begins(r) ==
    \/ BeginLogin(r) \/ BeginBan(r) \/ BeginUpdate(r) \/ BeginDelete(r) \/ BeginCreate(r)
    \/ BeginWithCookie(r)

(* A request begins with one of these records. *)
Fresh(new) ==
    /\ HeldOK(new) /\ new.pc \in {"load", "profile", "name", "guard"} /\ new.row = None
    /\ new.pc = "name" => new.kind = "create"
    /\ new.pc = "profile" => new.kind = "delete"

LEMMA FreshIf ==
    ASSUME NEW new \in Request, new.row = None,
           \/ /\ new.pc = "load" /\ new.user \in Users
              /\ new.kind \in {"login", "ban", "unban", "update"}
              /\ new.kind = "update" => new.name \in Names
           \/ new.pc = "profile" /\ new.kind = "delete" /\ new.user \in Users /\ new.then = "leave"
           \/ new.pc = "name" /\ new.kind = "create" /\ new.name \in Names
           \/ /\ new.pc = "guard" /\ new.kind \in {"visit", "logout"} /\ new.sid \in Sids
              /\ new.kind = "logout" => new.then = "leave"
    PROVE  Fresh(new)
<1>1. CASE new.pc = "load" BY <1>1 DEF Fresh, HeldOK
<1>2. CASE new.pc = "profile" BY <1>2 DEF Fresh, HeldOK
<1>3. CASE new.pc = "name" BY <1>3 DEF Fresh, HeldOK
<1>4. CASE new.pc = "guard" BY <1>4 DEF Fresh, HeldOK
<1> QED BY <1>1, <1>2, <1>3, <1>4

LEMMA BeginsWith ==
    ASSUME SessionInv, NEW r \in Reqs, Begins(r)
    PROVE  \E new : Begin(r, new) /\ Fresh(new)
<1>1. Idle \in Request /\ Idle.row = None /\ Idle.then = "visit" /\ Idle.pc = "idle"
    BY DEF Idle, Request, Pcs, AllKinds
<1>0. /\ {"load", "profile", "name", "guard"} \subseteq Pcs
      /\ {"login", "ban", "unban", "update", "delete", "create", "visit", "logout"} \subseteq AllKinds
    BY DEF Pcs, AllKinds
<1> HIDE DEF Idle
<1>2. ASSUME NEW u \in Users
      PROVE  Fresh([Idle EXCEPT !.pc = "load", !.kind = "login", !.user = u])
    <2> DEFINE new == [Idle EXCEPT !.pc = "load", !.kind = "login", !.user = u]
    <2>1. new \in Request /\ new.row = None /\ new.pc = "load" /\ new.kind = "login" /\ new.user = u
        BY <1>0, <1>1 DEF Request
    <2> HIDE DEF new
    <2>2. Fresh(new) BY <2>1, FreshIf
    <2> QED BY <2>2 DEF new
<1>3. ASSUME NEW u \in Users, NEW k \in {"ban", "unban"}
      PROVE  Fresh([Idle EXCEPT !.pc = "load", !.kind = k, !.user = u])
    <2> DEFINE new == [Idle EXCEPT !.pc = "load", !.kind = k, !.user = u]
    <2>1. new \in Request /\ new.row = None /\ new.pc = "load" /\ new.kind = k /\ new.user = u
        BY <1>0, <1>1 DEF Request
    <2> HIDE DEF new
    <2>2. Fresh(new) BY <2>1, FreshIf
    <2> QED BY <2>2 DEF new
<1>4. ASSUME NEW u \in Users, NEW n \in Names
      PROVE  Fresh([Idle EXCEPT !.pc = "load", !.kind = "update", !.user = u, !.name = n])
    <2> DEFINE new == [Idle EXCEPT !.pc = "load", !.kind = "update", !.user = u, !.name = n]
    <2>1. new \in Request /\ new.row = None /\ new.pc = "load" /\ new.kind = "update"
          /\ new.user = u /\ new.name = n
        BY <1>0, <1>1 DEF Request
    <2> HIDE DEF new
    <2>2. Fresh(new) BY <2>1, FreshIf
    <2> QED BY <2>2 DEF new
<1>5. ASSUME NEW u \in Users
      PROVE  Fresh([Idle EXCEPT !.pc = "profile", !.kind = "delete", !.user = u, !.then = "leave"])
    <2> DEFINE new == [Idle EXCEPT !.pc = "profile", !.kind = "delete", !.user = u, !.then = "leave"]
    <2>1. new \in Request /\ new.row = None /\ new.pc = "profile" /\ new.kind = "delete"
          /\ new.user = u /\ new.then = "leave"
        BY <1>0, <1>1 DEF Request
    <2> HIDE DEF new
    <2>2. Fresh(new) BY <2>1, FreshIf
    <2> QED BY <2>2 DEF new
<1>6. ASSUME NEW n \in Names
      PROVE  Fresh([Idle EXCEPT !.pc = "name", !.kind = "create", !.name = n])
    <2> DEFINE new == [Idle EXCEPT !.pc = "name", !.kind = "create", !.name = n]
    <2>1. new \in Request /\ new.row = None /\ new.pc = "name" /\ new.kind = "create" /\ new.name = n
        BY <1>0, <1>1 DEF Request
    <2> HIDE DEF new
    <2>2. Fresh(new) BY <2>1, FreshIf
    <2> QED BY <2>2 DEF new
<1>7. ASSUME NEW k \in {"visit", "logout"}, NEW s \in Sids, NEW then \in {"visit", "leave"},
             k = "logout" => then = "leave"
      PROVE  Fresh([Idle EXCEPT !.pc = "guard", !.kind = k, !.sid = s, !.then = then])
    <2> DEFINE new == [Idle EXCEPT !.pc = "guard", !.kind = k, !.sid = s, !.then = then]
    <2>1. new \in Request /\ new.row = None /\ new.pc = "guard" /\ new.kind = k
          /\ new.sid = s /\ new.then = then
        BY <1>0, <1>1, <1>7 DEF Request
    <2> HIDE DEF new
    <2>2. Fresh(new) BY <2>1, FreshIf, <1>7
    <2> QED BY <2>2 DEF new
<1>8. CASE BeginLogin(r) BY <1>2, <1>8 DEF BeginLogin
<1>9. CASE BeginBan(r) BY <1>3, <1>9 DEF BeginBan
<1>10. CASE BeginUpdate(r) BY <1>4, <1>10 DEF BeginUpdate
<1>11. CASE BeginDelete(r) BY <1>5, <1>11 DEF BeginDelete
<1>12. CASE BeginCreate(r) BY <1>6, <1>12 DEF BeginCreate
<1>13. CASE BeginWithCookie(r) BY <1>7, <1>13 DEF BeginWithCookie
<1> QED BY <1>8, <1>9, <1>10, <1>11, <1>12, <1>13 DEF Begins

(* getUserProfile returns: to the end of a visit, to the second call, or to  *)
(* the removal of the session.                                              *)
LEMMA ReturnsWith ==
    ASSUME SessionInv, NEW r \in Reqs, ProfileReturns(r), req[r].pc \in {"profile", "store"}
    PROVE  \E new : /\ HeldOK(new) /\ req' = [req EXCEPT ![r] = new]
                    /\ new.pc \in {"done", "profile", "sid"} /\ new.kind = req[r].kind
                    /\ new.user = req[r].user /\ new.row = req[r].row
                    /\ new.pc = "done" => req[r].kind \notin PutsOut
<1>1. req[r] \in Request /\ HeldOK(req[r]) BY DEF SessionInv, TypeOK
<1>2. PICK pc \in {"done", "profile", "sid"}, then \in {"visit", "leave", "sid"} :
        /\ req' = [req EXCEPT ![r] = [req[r] EXCEPT !.copy = None, !.then = then, !.pc = pc]]
        /\ pc = "done" <=> req[r].then = "visit"
        /\ then = "visit" <=> req[r].then = "visit"
    BY <1>1 DEF ProfileReturns, Request
<1> DEFINE new == [req[r] EXCEPT !.copy = None, !.then = then, !.pc = pc]
<1>3. new \in Request /\ new.pc = pc /\ new.then = then /\ new.kind = req[r].kind
      /\ new.user = req[r].user /\ new.row = req[r].row
    <2>1. {"done", "profile", "sid"} \subseteq Pcs BY DEF Pcs
    <2> QED BY <1>1, <2>1 DEF Request
<1> HIDE DEF new
<1>4. HeldOK(new) BY <1>1, <1>2, <1>3 DEF HeldOK
<1>5. pc = "done" => req[r].kind \notin PutsOut BY <1>1, <1>2 DEF HeldOK
<1> QED BY <1>2, <1>3, <1>4, <1>5 DEF new

LEMMA StepSession ==
    ASSUME SessionInv, NEW r \in Reqs, Step(r) PROVE SessionInv'
<1> USE NoneApart DEF UserOf
<1>1. ASSUME Begins(r) PROVE SessionInv'
    <2>1. PICK new : Begin(r, new) /\ Fresh(new) BY <1>1, BeginsWith
    <2>2. req' \in [Reqs -> Request] /\ \A p \in Reqs : HeldOK(req'[p])
        BY <2>1, Replaced DEF Begin, Fresh
    <2>3. met' \in [Sids -> SUBSET Reqs] /\ ended' \in [Reqs -> SUBSET Sids]
        BY <2>1 DEF Begin, SessionInv, TypeOK
    <2> QED BY <2>1, <2>2, <2>3 DEF Begin, SessionInv, TypeOK
<1>2. ASSUME ProfileGet(r), profile[UserOf(r)] # None PROVE SessionInv'
    <2>1. ProfileReturns(r) /\ req[r].pc = "profile" BY <1>2 DEF ProfileGet, At
    <2>2. req' \in [Reqs -> Request] /\ \A p \in Reqs : HeldOK(req'[p])
        BY <2>1, ReturnsWith, Replaced
    <2> QED BY <1>2, <2>2 DEF ProfileGet, SessionInv, TypeOK, history, redis
<1>3. ASSUME ProfileStore(r) PROVE SessionInv'
    <2>1. ProfileReturns(r) /\ req[r].pc = "store" BY <1>3 DEF ProfileStore, At
    <2>2. req' \in [Reqs -> Request] /\ \A p \in Reqs : HeldOK(req'[p])
        BY <2>1, ReturnsWith, Replaced
    <2>3. req[r].copy \in Row BY <2>1 DEF SessionInv, HeldOK
    <2> QED BY <1>3, <2>2, <2>3 DEF ProfileStore, SessionInv, TypeOK
<1>4. ASSUME Guard(r), NEW u, u = session[req[r].sid], NEW pc \in Pcs,
             pc = IF u = None THEN "refused" ELSE "profile"
      PROVE  SessionInv'
    <2> DEFINE q == req[r]
               new == [q EXCEPT !.user = u, !.pc = pc]
    <2>0. q \in Request /\ HeldOK(q) BY DEF SessionInv, TypeOK
    <2>a. u \in Users \cup {None}
        BY <1>4, <2>0 DEF HeldOK, Guard, At, SessionInv, TypeOK
    <2>b. pc \in Pcs BY <1>4 DEF Pcs
    <2>1. req' = [req EXCEPT ![r] = new]
        BY <1>4 DEF Guard
    <2>2. new \in Request /\ new.user = u /\ new.pc = pc
          /\ new.kind = q.kind /\ new.name = q.name /\ new.row = q.row
          /\ new.copy = q.copy /\ new.sid = q.sid /\ new.then = q.then
        BY <2>0, <2>a, <2>1, <2>b DEF Request
    <2> HIDE DEF new, q
    <2>3. HeldOK(new) BY <1>4, <2>0, <2>a, <2>2 DEF HeldOK, Guard, At, q, PutsOut
    <2>4. req' \in [Reqs -> Request] /\ \A p \in Reqs : HeldOK(req'[p]) BY <2>1, <2>3, Replaced
    <2> QED BY <1>4, <2>1, <2>2, <2>4 DEF Guard, SessionInv, TypeOK, history, redis
<1>5. ASSUME ProfileGet(r), profile[UserOf(r)] = None PROVE SessionInv'
    <2> DEFINE q == req[r]
               new == [q EXCEPT !.pc = "fill"]
    <2>0. q \in Request /\ HeldOK(q) BY DEF SessionInv, TypeOK
    <2>b. "fill" \in Pcs BY <1>5 DEF Pcs
    <2>1. req' = [req EXCEPT ![r] = new]
        BY <1>5 DEF ProfileGet, Go
    <2>2. new \in Request /\ new.pc = "fill" /\ new.kind = q.kind
          /\ new.user = q.user /\ new.name = q.name /\ new.row = q.row
          /\ new.copy = q.copy /\ new.sid = q.sid /\ new.then = q.then
        BY <2>0, <2>1, <2>b DEF Request
    <2> HIDE DEF new, q
    <2>3. HeldOK(new) BY <1>5, <2>0, <2>2 DEF HeldOK, ProfileGet, At, q
    <2>4. req' \in [Reqs -> Request] /\ \A p \in Reqs : HeldOK(req'[p]) BY <2>1, <2>3, Replaced
    <2> QED BY <1>5, <2>1, <2>2, <2>4 DEF ProfileGet, SessionInv, TypeOK, history, redis
<1>6. ASSUME ProfileFind(r), NEW found, found = row[UserOf(r)], NEW pc \in Pcs,
             pc = IF found = None THEN "refused" ELSE "store"
      PROVE  SessionInv'
    <2> DEFINE q == req[r]
               new == [q EXCEPT !.copy = found, !.pc = pc]
    <2>0. q \in Request /\ HeldOK(q) BY DEF SessionInv, TypeOK
    <2>a. found \in Row \cup {None}
        BY <1>6, <2>0 DEF HeldOK, ProfileFind, At, SessionInv, TypeOK
    <2>b. pc \in Pcs BY <1>6 DEF Pcs
    <2>1. req' = [req EXCEPT ![r] = new]
        BY <1>6 DEF ProfileFind
    <2>2. new \in Request /\ new.copy = found /\ new.pc = pc
          /\ new.kind = q.kind /\ new.user = q.user /\ new.name = q.name
          /\ new.row = q.row /\ new.sid = q.sid /\ new.then = q.then
        BY <2>0, <2>a, <2>1, <2>b DEF Request
    <2> HIDE DEF new, q
    <2>3. HeldOK(new) BY <1>6, <2>0, <2>a, <2>2 DEF HeldOK, ProfileFind, At, q
    <2>4. req' \in [Reqs -> Request] /\ \A p \in Reqs : HeldOK(req'[p]) BY <2>1, <2>3, Replaced
    <2> QED BY <1>6, <2>1, <2>2, <2>4 DEF ProfileFind, SessionInv, TypeOK, history, redis
<1>7. ASSUME SessionGet(r), NEW s, s = mapping[UserOf(r)], NEW pc \in Pcs,
             pc = IF s = None THEN "clear" ELSE "multi"
      PROVE  SessionInv'
    <2> DEFINE q == req[r]
               new == [q EXCEPT !.sid = s, !.pc = pc]
    <2>0. q \in Request /\ HeldOK(q) BY DEF SessionInv, TypeOK
    <2>a. s \in Sids \cup {None}
        BY <1>7, <2>0 DEF HeldOK, SessionGet, At, SessionInv, TypeOK
    <2>b. pc \in Pcs BY <1>7 DEF Pcs
    <2>1. req' = [req EXCEPT ![r] = new]
        BY <1>7 DEF SessionGet
    <2>2. new \in Request /\ new.sid = s /\ new.pc = pc
          /\ new.kind = q.kind /\ new.user = q.user /\ new.name = q.name
          /\ new.row = q.row /\ new.copy = q.copy /\ new.then = q.then
        BY <2>0, <2>a, <2>1, <2>b DEF Request
    <2> HIDE DEF new, q
    <2>3. HeldOK(new) BY <1>7, <2>0, <2>a, <2>2 DEF HeldOK, SessionGet, At, q
    <2>4. req' \in [Reqs -> Request] /\ \A p \in Reqs : HeldOK(req'[p]) BY <2>1, <2>3, Replaced
    <2> QED BY <1>7, <2>1, <2>2, <2>4 DEF SessionGet, SessionInv, TypeOK, history, redis
<1>8. ASSUME SessionClear(r), NEW pc \in Pcs,
             pc = CASE req[r].kind = "login" -> "old"
                    [] req[r].kind = "delete" -> "drop"
                    [] OTHER -> "done"
      PROVE  SessionInv'
    <2> DEFINE q == req[r]
               new == [q EXCEPT !.pc = pc]
    <2>0. q \in Request /\ HeldOK(q) BY DEF SessionInv, TypeOK
    <2>b. pc \in Pcs BY <1>8 DEF Pcs
    <2>1. req' = [req EXCEPT ![r] = new]
        BY <1>8 DEF SessionClear, AfterLeave, Go
    <2>2. new \in Request /\ new.pc = pc /\ new.kind = q.kind
          /\ new.user = q.user /\ new.name = q.name /\ new.row = q.row
          /\ new.copy = q.copy /\ new.sid = q.sid /\ new.then = q.then
        BY <2>0, <2>1, <2>b DEF Request
    <2> HIDE DEF new, q
    <2>3. HeldOK(new) BY <1>8, <2>0, <2>2 DEF HeldOK, SessionClear, At, q
    <2>4. req' \in [Reqs -> Request] /\ \A p \in Reqs : HeldOK(req'[p]) BY <2>1, <2>3, Replaced
    <2> QED BY <1>8, <2>1, <2>2, <2>4 DEF SessionClear, SessionInv, TypeOK, history, redis
<1>9. ASSUME SessionMulti(r), NEW pc \in Pcs,
             pc = CASE req[r].kind = "login" -> "old"
                    [] req[r].kind = "delete" -> "drop"
                    [] OTHER -> "done"
      PROVE  SessionInv'
    <2> DEFINE q == req[r]
               new == [q EXCEPT !.pc = pc]
    <2>0. q \in Request /\ HeldOK(q) BY DEF SessionInv, TypeOK
    <2>b. pc \in Pcs BY <1>9 DEF Pcs
    <2>1. req' = [req EXCEPT ![r] = new]
        BY <1>9 DEF SessionMulti, AfterLeave, Go, Revoke
    <2>2. new \in Request /\ new.pc = pc /\ new.kind = q.kind
          /\ new.user = q.user /\ new.name = q.name /\ new.row = q.row
          /\ new.copy = q.copy /\ new.sid = q.sid /\ new.then = q.then
        BY <2>0, <2>1, <2>b DEF Request
    <2> HIDE DEF new, q
    <2>3. HeldOK(new) BY <1>9, <2>0, <2>2 DEF HeldOK, SessionMulti, At, q
    <2>4. req' \in [Reqs -> Request] /\ \A p \in Reqs : HeldOK(req'[p]) BY <2>1, <2>3, Replaced
    <2>c. req[r].sid \in Sids /\ req[r].user \in Users BY <1>9, <2>0 DEF HeldOK, SessionMulti, At, q
    <2> QED BY <1>9, <2>c, <2>1, <2>2, <2>4 DEF SessionMulti, SessionInv, TypeOK, history, redis, Revoke
<1>10. ASSUME LoginGetOld(r), NEW s, s = mapping[UserOf(r)] PROVE SessionInv'
    <2> DEFINE q == req[r]
               new == [q EXCEPT !.sid = s, !.pc = "swap"]
    <2>0. q \in Request /\ HeldOK(q) BY DEF SessionInv, TypeOK
    <2>a. s \in Sids \cup {None}
        BY <1>10, <2>0 DEF HeldOK, LoginGetOld, At, SessionInv, TypeOK
    <2>b. "swap" \in Pcs BY <1>10 DEF Pcs
    <2>1. req' = [req EXCEPT ![r] = new]
        BY <1>10 DEF LoginGetOld
    <2>2. new \in Request /\ new.sid = s /\ new.pc = "swap"
          /\ new.kind = q.kind /\ new.user = q.user /\ new.name = q.name
          /\ new.row = q.row /\ new.copy = q.copy /\ new.then = q.then
        BY <2>0, <2>a, <2>1, <2>b DEF Request
    <2> HIDE DEF new, q
    <2>3. HeldOK(new) BY <1>10, <2>0, <2>a, <2>2 DEF HeldOK, LoginGetOld, At, q
    <2>4. req' \in [Reqs -> Request] /\ \A p \in Reqs : HeldOK(req'[p]) BY <2>1, <2>3, Replaced
    <2> QED BY <1>10, <2>1, <2>2, <2>4 DEF LoginGetOld, SessionInv, TypeOK, history, redis
<1>11. ASSUME LoginSwap(r) PROVE SessionInv'
    <2> DEFINE q == req[r]
               new == [q EXCEPT !.pc = "done"]
    <2>0. q \in Request /\ HeldOK(q) BY DEF SessionInv, TypeOK
    <2>b. "done" \in Pcs BY <1>11 DEF Pcs
    <2>1. req' = [req EXCEPT ![r] = new]
        BY <1>11 DEF LoginSwap, Go, WriteProfile
    <2>2. new \in Request /\ new.pc = "done" /\ new.kind = q.kind
          /\ new.user = q.user /\ new.name = q.name /\ new.row = q.row
          /\ new.copy = q.copy /\ new.sid = q.sid /\ new.then = q.then
        BY <2>0, <2>1, <2>b DEF Request
    <2> HIDE DEF new, q
    <2>3. HeldOK(new) BY <1>11, <2>0, <2>2 DEF HeldOK, LoginSwap, At, q, PutsOut
    <2>4. req' \in [Reqs -> Request] /\ \A p \in Reqs : HeldOK(req'[p]) BY <2>1, <2>3, Replaced
    <2>c. req[r].row \in Row /\ req[r].user \in Users BY <1>11, <2>0 DEF HeldOK, LoginSwap, At, q
    <2> QED BY <1>11, <2>c, <2>1, <2>2, <2>4 DEF LoginSwap, SessionInv, TypeOK, history, redis,
           WriteProfile, Sids
<1>12. ASSUME Load(r), NEW pc \in Pcs, pc = "refused", NEW found, found = row[UserOf(r)],
              found # None => req[r].kind = "login" /\ found.banned
       PROVE  SessionInv'
    <2> DEFINE q == req[r]
               new == [q EXCEPT !.pc = pc]
    <2>0. q \in Request /\ HeldOK(q) BY DEF SessionInv, TypeOK
    <2>b. pc \in Pcs BY <1>12 DEF Pcs
    <2>1. req' = [req EXCEPT ![r] = new]
        BY <1>12 DEF Load, Go
    <2>2. new \in Request /\ new.pc = pc /\ new.kind = q.kind
          /\ new.user = q.user /\ new.name = q.name /\ new.row = q.row
          /\ new.copy = q.copy /\ new.sid = q.sid /\ new.then = q.then
        BY <2>0, <2>1, <2>b DEF Request
    <2> HIDE DEF new, q
    <2>3. HeldOK(new) BY <1>12, <2>0, <2>2 DEF HeldOK, Load, At, q
    <2>4. req' \in [Reqs -> Request] /\ \A p \in Reqs : HeldOK(req'[p]) BY <2>1, <2>3, Replaced
    <2> QED BY <1>12, <2>1, <2>2, <2>4 DEF Load, SessionInv, TypeOK, history, redis
<1>13. ASSUME Load(r), NEW found, found = row[UserOf(r)],
              ~(found # None => req[r].kind = "login" /\ found.banned), NEW e,
              e = Entity(r, found), NEW pc \in Pcs,
              pc = CASE req[r].kind = "login"  -> "profile"
                     [] req[r].kind = "update" -> "name"
                     [] OTHER -> "save",
              NEW then, then = IF req[r].kind = "login" THEN "sid" ELSE req[r].then
       PROVE  SessionInv'
    <2> DEFINE q == req[r]
               new == [q EXCEPT !.row = e, !.pc = pc, !.then = then]
    <2>0. q \in Request /\ HeldOK(q) BY DEF SessionInv, TypeOK
    <2>a. found \in Row /\ then \in {"visit", "leave", "sid"} /\ e \in Row
        BY <1>13, <2>0 DEF HeldOK, Load, At, SessionInv, TypeOK, Request, Entity, Row
    <2>b. pc \in Pcs BY <1>13 DEF Pcs
    <2>1. req' = [req EXCEPT ![r] = new]
        BY <1>13 DEF Load
    <2>2. new \in Request /\ new.row = e /\ new.pc = pc
          /\ new.then = then /\ new.kind = q.kind /\ new.user = q.user
          /\ new.name = q.name /\ new.copy = q.copy /\ new.sid = q.sid
        BY <2>0, <2>a, <2>1, <2>b DEF Request
    <2> HIDE DEF new, q
    <2>3. HeldOK(new) BY <1>13, <2>0, <2>a, <2>2 DEF HeldOK, Load, At, q, PutsOut, Entity, Row
    <2>4. req' \in [Reqs -> Request] /\ \A p \in Reqs : HeldOK(req'[p]) BY <2>1, <2>3, Replaced
    <2> QED BY <1>13, <2>1, <2>2, <2>4 DEF Load, SessionInv, TypeOK, history, redis
<1>14. ASSUME CheckName(r), NEW pc \in {"refused", "insert"},
              pc = IF NameTaken(req[r].name) THEN "refused" ELSE "insert",
              NameTaken(req[r].name) \/ req[r].kind = "create"
       PROVE  SessionInv'
    <2> DEFINE q == req[r]
               new == [q EXCEPT !.pc = pc]
    <2>0. q \in Request /\ HeldOK(q) BY DEF SessionInv, TypeOK
    <2>b. pc \in Pcs BY <1>14 DEF Pcs
    <2>1. req' = [req EXCEPT ![r] = new]
        BY <1>14 DEF CheckName, Go
    <2>2. new \in Request /\ new.pc = pc /\ new.kind = q.kind
          /\ new.user = q.user /\ new.name = q.name /\ new.row = q.row
          /\ new.copy = q.copy /\ new.sid = q.sid /\ new.then = q.then
        BY <2>0, <2>1, <2>b DEF Request
    <2> HIDE DEF new, q
    <2>3. HeldOK(new) BY <1>14, <2>0, <2>2 DEF HeldOK, CheckName, At, q
    <2>4. req' \in [Reqs -> Request] /\ \A p \in Reqs : HeldOK(req'[p]) BY <2>1, <2>3, Replaced
    <2> QED BY <1>14, <2>1, <2>2, <2>4 DEF CheckName, SessionInv, TypeOK, history, redis
<1>15. ASSUME CheckName(r), ~NameTaken(req[r].name), req[r].kind # "create", NEW e,
              e = [req[r].row EXCEPT !.name = req[r].name]
       PROVE  SessionInv'
    <2> DEFINE q == req[r]
               new == [q EXCEPT !.row = e, !.pc = "save"]
    <2>0. q \in Request /\ HeldOK(q) BY DEF SessionInv, TypeOK
    <2>a. e \in Row /\ e.name = req[r].name
        BY <1>15, <2>0 DEF HeldOK, CheckName, At, Row
    <2>b. "save" \in Pcs BY <1>15 DEF Pcs
    <2>1. req' = [req EXCEPT ![r] = new]
        BY <1>15 DEF CheckName
    <2>2. new \in Request /\ new.row = e /\ new.pc = "save"
          /\ new.kind = q.kind /\ new.user = q.user /\ new.name = q.name
          /\ new.copy = q.copy /\ new.sid = q.sid /\ new.then = q.then
        BY <2>0, <2>a, <2>1, <2>b DEF Request
    <2> HIDE DEF new, q
    <2>3. HeldOK(new) BY <1>15, <2>0, <2>a, <2>2 DEF HeldOK, CheckName, At, q
    <2>4. req' \in [Reqs -> Request] /\ \A p \in Reqs : HeldOK(req'[p]) BY <2>1, <2>3, Replaced
    <2> QED BY <1>15, <2>1, <2>2, <2>4 DEF CheckName, SessionInv, TypeOK, history, redis
<1>16. ASSUME Save(r) PROVE SessionInv'
    <2> DEFINE q == req[r]
               new == [q EXCEPT !.pc = "cache"]
    <2>0. q \in Request /\ HeldOK(q) BY DEF SessionInv, TypeOK
    <2>b. "cache" \in Pcs BY <1>16 DEF Pcs
    <2>1. req' = [req EXCEPT ![r] = new]
        BY <1>16 DEF Save, Go
    <2>2. new \in Request /\ new.pc = "cache" /\ new.kind = q.kind
          /\ new.user = q.user /\ new.name = q.name /\ new.row = q.row
          /\ new.copy = q.copy /\ new.sid = q.sid /\ new.then = q.then
        BY <2>0, <2>1, <2>b DEF Request
    <2> HIDE DEF new, q
    <2>3. HeldOK(new) BY <1>16, <2>0, <2>2 DEF HeldOK, Save, At, q
    <2>4. req' \in [Reqs -> Request] /\ \A p \in Reqs : HeldOK(req'[p]) BY <2>1, <2>3, Replaced
    <2>c. req[r].row \in Row /\ req[r].user \in Users BY <1>16, <2>0 DEF HeldOK, Save, At, q
    <2> QED BY <1>16, <2>c, <2>1, <2>2, <2>4 DEF Save, SessionInv, TypeOK, history, redis
<1>17. ASSUME Cache(r), req[r].kind = "ban" PROVE SessionInv'
    <2> DEFINE q == req[r]
               new == [q EXCEPT !.pc = "profile", !.then = "sid"]
    <2>0. q \in Request /\ HeldOK(q) BY DEF SessionInv, TypeOK
    <2>b. "profile" \in Pcs BY <1>17 DEF Pcs
    <2>1. req' = [req EXCEPT ![r] = new]
        BY <1>17 DEF Cache, AfterCache
    <2>2. new \in Request /\ new.pc = "profile" /\ new.then = "sid"
          /\ new.kind = q.kind /\ new.user = q.user /\ new.name = q.name
          /\ new.row = q.row /\ new.copy = q.copy /\ new.sid = q.sid
        BY <2>0, <2>1, <2>b DEF Request
    <2> HIDE DEF new, q
    <2>3. HeldOK(new) BY <1>17, <2>0, <2>2 DEF HeldOK, Cache, At, q
    <2>4. req' \in [Reqs -> Request] /\ \A p \in Reqs : HeldOK(req'[p]) BY <2>1, <2>3, Replaced
    <2>c. req[r].row \in Row /\ req[r].user \in Users BY <1>17, <2>0 DEF HeldOK, Cache, At, q
    <2> QED BY <1>17, <2>c, <2>1, <2>2, <2>4 DEF Cache, SessionInv, TypeOK, history, redis, WriteProfile
<1>18. ASSUME Cache(r), req[r].kind # "ban" PROVE SessionInv'
    <2> DEFINE q == req[r]
               new == [q EXCEPT !.pc = "done"]
    <2>0. q \in Request /\ HeldOK(q) BY DEF SessionInv, TypeOK
    <2>b. "done" \in Pcs BY <1>18 DEF Pcs
    <2>1. req' = [req EXCEPT ![r] = new]
        BY <1>18 DEF Cache, AfterCache, Go
    <2>2. new \in Request /\ new.pc = "done" /\ new.kind = q.kind
          /\ new.user = q.user /\ new.name = q.name /\ new.row = q.row
          /\ new.copy = q.copy /\ new.sid = q.sid /\ new.then = q.then
        BY <2>0, <2>1, <2>b DEF Request
    <2> HIDE DEF new, q
    <2>3. HeldOK(new) BY <1>18, <2>0, <2>2 DEF HeldOK, Cache, At, q, PutsOut
    <2>4. req' \in [Reqs -> Request] /\ \A p \in Reqs : HeldOK(req'[p]) BY <2>1, <2>3, Replaced
    <2>c. req[r].row \in Row /\ req[r].user \in Users BY <1>18, <2>0 DEF HeldOK, Cache, At, q
    <2> QED BY <1>18, <2>c, <2>1, <2>2, <2>4 DEF Cache, SessionInv, TypeOK, history, redis, WriteProfile
<1>19. ASSUME Drop(r), NEW pc \in {"refused", "done"},
              pc = IF row[UserOf(r)] = None THEN "refused" ELSE "done"
       PROVE  SessionInv'
    <2> DEFINE q == req[r]
               new == [q EXCEPT !.pc = pc]
    <2>0. q \in Request /\ HeldOK(q) BY DEF SessionInv, TypeOK
    <2>b. pc \in Pcs BY <1>19 DEF Pcs
    <2>1. req' = [req EXCEPT ![r] = new]
        BY <1>19 DEF Drop, Go
    <2>2. new \in Request /\ new.pc = pc /\ new.kind = q.kind
          /\ new.user = q.user /\ new.name = q.name /\ new.row = q.row
          /\ new.copy = q.copy /\ new.sid = q.sid /\ new.then = q.then
        BY <2>0, <2>1, <2>b DEF Request
    <2> HIDE DEF new, q
    <2>3. HeldOK(new) BY <1>19, <2>0, <2>2 DEF HeldOK, Drop, At, q
    <2>4. req' \in [Reqs -> Request] /\ \A p \in Reqs : HeldOK(req'[p]) BY <2>1, <2>3, Replaced
    <2>c. req[r].user \in Users BY <1>19, <2>0 DEF HeldOK, Drop, At, q
    <2> QED BY <1>19, <2>c, <2>1, <2>2, <2>4 DEF Drop, SessionInv, TypeOK, history, redis
<1>20. ASSUME Insert(r) PROVE SessionInv'
    <2>0. PICK u \in Users :
            /\ row' = [row EXCEPT ![u] = [name |-> req[r].name, banned |-> FALSE]]
            /\ namedBy' = [namedBy EXCEPT ![u] = r]
            /\ req' = [req EXCEPT ![r].user = u, ![r].pc = "done"]
        BY <1>20 DEF Insert
    <2>1. req' = [req EXCEPT ![r] = [req[r] EXCEPT !.user = u, !.pc = "done"]]
        BY <2>0 DEF SessionInv, TypeOK
    <2> DEFINE new == [req[r] EXCEPT !.user = u, !.pc = "done"]
    <2>2. /\ req[r] \in Request /\ HeldOK(req[r]) /\ req[r].pc = "insert"
          /\ req[r].name \in Names /\ req[r].kind = "create"
        BY <1>20 DEF SessionInv, TypeOK, HeldOK, Insert, At
    <2>3. new \in Request /\ new.pc = "done" /\ new.kind = "create" BY <2>2 DEF Request, Pcs
    <2> HIDE DEF new
    <2>4. HeldOK(new) BY <2>3 DEF HeldOK, PutsOut
    <2>5. req' \in [Reqs -> Request] /\ \A p \in Reqs : HeldOK(req'[p])
        BY <2>1, <2>4, Replaced DEF new
    <2> QED BY <1>20, <2>0, <2>2, <2>5 DEF Insert, SessionInv, TypeOK, Row, redis
<1>21. CASE Guard(r) BY <1>4, <1>21 DEF Pcs
<1>22. CASE ProfileGet(r) BY <1>2, <1>5, <1>22
<1>23. CASE ProfileFind(r) BY <1>6, <1>23 DEF Pcs
<1>24. CASE SessionGet(r) BY <1>7, <1>24 DEF Pcs
<1>25. CASE SessionClear(r) BY <1>8, <1>25 DEF Pcs
<1>26. CASE SessionMulti(r) BY <1>9, <1>26 DEF Pcs
<1>27. CASE LoginGetOld(r) BY <1>10, <1>27
<1>28. CASE Load(r)
    <2>1. CASE row[UserOf(r)] # None => req[r].kind = "login" /\ row[UserOf(r)].banned
        BY <1>12, <1>28, <2>1 DEF Pcs
    <2>2. CASE ~(row[UserOf(r)] # None => req[r].kind = "login" /\ row[UserOf(r)].banned)
        BY <1>13, <1>28, <2>2 DEF Pcs
    <2> QED BY <2>1, <2>2
<1>29. CASE CheckName(r) BY <1>14, <1>15, <1>29
<1>30. CASE Cache(r) BY <1>17, <1>18, <1>30
<1>31. CASE Drop(r) BY <1>19, <1>31
<1> QED BY <1>1, <1>3, <1>11, <1>16, <1>20, <1>21, <1>22, <1>23, <1>24, <1>25, <1>26, <1>27, <1>28,
           <1>29, <1>30, <1>31 DEF Step, Begins

LEMMA NextSession == SessionInv /\ [Next]_vars => SessionInv'
<1> SUFFICES ASSUME SessionInv, [Next]_vars PROVE SessionInv' OBVIOUS
<1>1. CASE Next BY <1>1, StepSession DEF Next
<1>2. CASE UNCHANGED vars
    BY <1>2 DEF vars, SessionInv, TypeOK
<1> QED BY <1>1, <1>2

LEMMA SessionHolds == Spec => []SessionInv
BY InitSession, NextSession, PTL DEF Spec

(* Every variable keeps its type, for any number of accounts and requests.   *)
THEOREM TypeCorrect == Spec => []TypeOK
<1>1. SessionInv => TypeOK BY DEF SessionInv
<1> QED BY <1>1, SessionHolds, PTL

-----------------------------------------------------------------------------
(* Who met whom                                                             *)

(* A step of r is its beginning, or r is under way; the others stay.        *)
LEMMA StepOf ==
    ASSUME SessionInv, NEW r \in Reqs, Step(r)
    PROVE  /\ \A q \in Reqs \ {r} : req'[q] = req[q]
           /\ \/ \E new : Begin(r, new) /\ Fresh(new)
              \/ UnderWay(r) /\ UNCHANGED <<met, ended>>
           /\ req'[r].pc # "idle"
<1> USE DEF SessionInv, TypeOK
<1>1. CASE Begins(r) BY <1>1, BeginsWith DEF Begin, Fresh
<1>2. ASSUME ProfileReturns(r), req[r].pc \in {"profile", "store"}
      PROVE  req'[r].pc # "idle" /\ \A q \in Reqs \ {r} : req'[q] = req[q]
    BY <1>2, ReturnsWith
<1>3. CASE ProfileGet(r) \/ ProfileStore(r)
    <2>1. req[r].pc \in {"profile", "store"} /\ UNCHANGED <<met, ended>>
        BY <1>3 DEF ProfileGet, ProfileStore, At, history
    <2>2. CASE ProfileReturns(r) BY <1>2, <2>1, <2>2 DEF UnderWay
    <2>3. CASE Go(r, "fill") BY <2>1, <2>3 DEF Go, UnderWay, Request
    <2> QED BY <1>3, <2>2, <2>3 DEF ProfileGet, ProfileStore
<1>4. CASE Guard(r) \/ ProfileFind(r)
    BY <1>4 DEF Guard, ProfileFind, At, history, UnderWay, Request
<1>5. CASE SessionGet(r) \/ SessionClear(r) \/ SessionMulti(r)
    BY <1>5 DEF SessionGet, SessionClear, SessionMulti, AfterLeave, Go, At, history, UnderWay, Request
<1>6. CASE LoginGetOld(r) \/ LoginSwap(r)
    BY <1>6 DEF LoginGetOld, LoginSwap, Go, At, history, UnderWay, Request
<1>7. CASE Load(r) BY <1>7 DEF Load, Go, At, history, UnderWay, Request
<1>8. CASE CheckName(r) BY <1>8 DEF CheckName, Go, At, history, UnderWay, Request
<1>9. CASE Save(r) \/ Cache(r)
    BY <1>9 DEF Save, Cache, AfterCache, Go, At, history, UnderWay, Request
<1>10. CASE Drop(r) BY <1>10 DEF Drop, Go, At, history, UnderWay, Request
<1>11. CASE Insert(r)
    <2>1. PICK u \in Users : req' = [req EXCEPT ![r].user = u, ![r].pc = "done"] BY <1>11 DEF Insert
    <2> QED BY <1>11, <2>1 DEF Insert, At, UnderWay, Request
<1> QED BY <1>1, <1>3, <1>4, <1>5, <1>6, <1>7, <1>8, <1>9, <1>10, <1>11 DEF Step, Begins

(* Requests that were under way together have met; what names a request is   *)
(* of one that has begun; a session is of a login that is done.             *)
MetInv ==
    /\ \A q, r \in Reqs : UnderWay(q) /\ UnderWay(r) /\ q # r => r \in met[q]
    /\ \A r \in Reqs : At(r, "idle") => met[r] = {} /\ session[r] = None /\ ended[r] = {}
    /\ \A u \in Users : /\ namedBy[u] # None => ~At(namedBy[u], "idle")
                        /\ cachedBy[u] # None => ~At(cachedBy[u], "idle")
    /\ \A r \in Reqs : session[r] # None => At(r, "done")
    /\ \A r, s \in Reqs : s \in ended[r] => At(s, "done")

LEMMA InitMet == Init => MetInv
<1> SUFFICES ASSUME Init PROVE MetInv OBVIOUS
<1>1. req = [r \in Reqs |-> Idle] /\ Idle.pc = "idle" BY DEF Init, Idle
<1>2. \A r \in Reqs : session[r] = None BY NoneApart DEF Init, Sids
<1> QED BY <1>1, <1>2 DEF Init, MetInv, UnderWay, At, Sids

(* What a step does to the history: it names only itself. *)
LEMMA NamesItself ==
    ASSUME SessionInv, NEW r \in Reqs, Step(r)
    PROVE  /\ \A u \in Users :
                namedBy'[u] \in {namedBy[u], r} /\ cachedBy'[u] \in {cachedBy[u], r}
           /\ \A s \in Sids : session'[s] # session[s] /\ session'[s] # None
                 => s = r /\ req'[r].pc = "done" /\ LoginSwap(r)
<1> USE DEF SessionInv, TypeOK
<1>1. CASE Begins(r)
    <2>1. PICK new : Begin(r, new) BY <1>1, BeginsWith
    <2> QED BY <2>1 DEF Begin
<1>2. CASE \/ Guard(r) \/ ProfileGet(r) \/ ProfileFind(r) \/ ProfileStore(r)
    BY <1>2 DEF Guard, ProfileGet, ProfileFind, ProfileStore, history, redis
<1>3. CASE SessionGet(r) \/ SessionClear(r) \/ SessionMulti(r) \/ LoginGetOld(r)
    BY <1>3 DEF SessionGet, SessionClear, SessionMulti, Revoke, LoginGetOld, history, redis
<1>4. CASE LoginSwap(r)
    BY <1>4 DEF LoginSwap, WriteProfile, Go, At, Request
<1>5. CASE Load(r) \/ CheckName(r) \/ Save(r) \/ Cache(r) \/ Drop(r)
    BY <1>5 DEF Load, CheckName, Save, Cache, WriteProfile, Drop, history, redis
<1>6. CASE Insert(r) BY <1>6 DEF Insert, redis
<1> QED BY <1>1, <1>2, <1>3, <1>4, <1>5, <1>6 DEF Step, Begins

LEMMA NextMet == SessionInv /\ SessionInv' /\ MetInv /\ [Next]_vars => MetInv'
<1> SUFFICES ASSUME SessionInv, SessionInv', MetInv, NEW r \in Reqs, Step(r) PROVE MetInv'
    <2>1. CASE UNCHANGED vars BY <2>1 DEF vars, MetInv, UnderWay, At
    <2> QED BY <2>1 DEF Next
<1> USE DEF At
<1>0. /\ \A q \in Reqs \ {r} : req'[q] = req[q]
      /\ req'[r].pc # "idle"
    BY StepOf
<1>1. \A q \in Reqs : /\ At(q, "done") => req'[q].pc = "done"
                      /\ req'[q].pc = "idle" => At(q, "idle") /\ q # r
    BY <1>0, StepOf DEF At, UnderWay, Begin
<1>2. CASE \E new : Begin(r, new) /\ Fresh(new)
    <2>1. PICK new : Begin(r, new) /\ Fresh(new) BY <1>2
    <2>2. /\ req[r].pc = "idle"
          /\ \A s \in Sids : met'[s] = IF s = r THEN {q \in Reqs : UnderWay(q)}
                                ELSE IF s \in Reqs /\ UnderWay(s) THEN met[s] \cup {r} ELSE met[s]
          /\ \A s \in Reqs : ended'[s] = IF s = r THEN {t \in Sids : session[t] # None} ELSE ended[s]
          /\ UNCHANGED <<session, cachedBy, namedBy>>
        BY <2>1 DEF Begin, SessionInv, TypeOK
    <2>3. ASSUME NEW p \in Reqs, NEW q \in Reqs, UnderWay(p)', UnderWay(q)', p # q PROVE q \in met'[p]
        <3>1. p \in Sids BY DEF Sids
        <3>2. CASE p = r BY <1>0, <2>2, <2>3, <3>1, <3>2 DEF UnderWay
        <3>3. CASE p # r /\ q = r BY <1>0, <2>2, <2>3, <3>1, <3>3 DEF UnderWay
        <3>4. CASE p # r /\ q # r
            <4>1. UnderWay(p) /\ UnderWay(q) BY <1>0, <2>3, <3>4 DEF UnderWay
            <4>2. q \in met[p] BY <2>3, <4>1 DEF MetInv
            <4> QED BY <2>2, <3>1, <3>4, <4>2
        <3> QED BY <3>2, <3>3, <3>4
    <2>4. ASSUME NEW q \in Reqs, req'[q].pc = "idle"
          PROVE  met'[q] = {} /\ session'[q] = None /\ ended'[q] = {}
        BY <1>1, <2>2, <2>4 DEF MetInv, UnderWay, At, Sids
    <2>5. \A u \in Users : /\ namedBy'[u] # None => req'[namedBy[u]].pc # "idle"
                           /\ cachedBy'[u] # None => req'[cachedBy[u]].pc # "idle"
        BY <1>1, <2>2 DEF MetInv, SessionInv, TypeOK
    <2>6. \A q \in Reqs : session'[q] # None => req'[q].pc = "done"
        BY <1>1, <2>2 DEF MetInv
    <2>7. ASSUME NEW p \in Reqs, NEW q \in Reqs, q \in ended'[p] PROVE req'[q].pc = "done"
        <3>1. CASE p = r
            <4>1. q \in {t \in Sids : session[t] # None} BY <2>2, <2>7, <3>1
            <4>2. session[q] # None BY <4>1
            <4> QED BY <1>1, <4>2 DEF MetInv
        <3>2. CASE p # r BY <1>1, <2>2, <2>7, <3>2 DEF MetInv
        <3> QED BY <3>1, <3>2
    <2> QED BY <2>2, <2>3, <2>4, <2>5, <2>6, <2>7 DEF MetInv, At
<1>3. CASE UnderWay(r) /\ UNCHANGED <<met, ended>>
    <2>1. \A q \in Reqs : UnderWay(q)' => UnderWay(q) BY <1>0, <1>3 DEF UnderWay
    <2>2. \A q \in Reqs : session'[q] # None => req'[q].pc = "done"
        <3> SUFFICES ASSUME NEW q \in Reqs, session'[q] # None PROVE req'[q].pc = "done" OBVIOUS
        <3>1. q \in Sids BY DEF Sids
        <3>2. CASE session'[q] = session[q] BY <1>1, <3>2 DEF MetInv
        <3>3. CASE session'[q] # session[q] BY <3>1, <3>3, NamesItself
        <3> QED BY <3>2, <3>3
    <2>3. \A u \in Users : /\ namedBy'[u] # None => req'[namedBy'[u]].pc # "idle"
                           /\ cachedBy'[u] # None => req'[cachedBy'[u]].pc # "idle"
        <3> SUFFICES ASSUME NEW u \in Users PROVE /\ namedBy'[u] # None => req'[namedBy'[u]].pc # "idle"
                                                  /\ cachedBy'[u] # None => req'[cachedBy'[u]].pc # "idle"
            OBVIOUS
        <3>1. namedBy'[u] \in {namedBy[u], r} /\ cachedBy'[u] \in {cachedBy[u], r} BY NamesItself
        <3>2. /\ namedBy[u] \in Reqs \cup {None} /\ cachedBy[u] \in Reqs \cup {None}
              /\ namedBy[u] # None => ~At(namedBy[u], "idle")
              /\ cachedBy[u] # None => ~At(cachedBy[u], "idle")
            BY DEF MetInv, SessionInv, TypeOK
        <3> QED BY <1>1, <3>1, <3>2
    <2>4. \A q \in Reqs : req'[q].pc = "idle" => met'[q] = {} /\ session'[q] = None /\ ended'[q] = {}
        <3> SUFFICES ASSUME NEW q \in Reqs, req'[q].pc = "idle"
                     PROVE  met'[q] = {} /\ session'[q] = None /\ ended'[q] = {}
            OBVIOUS
        <3>1. session'[q] # None => req'[q].pc = "done" BY <2>2
        <3> QED BY <1>1, <1>3, <3>1 DEF MetInv, At
    <2> QED BY <1>1, <1>3, <2>1, <2>2, <2>3, <2>4 DEF MetInv
<1> QED BY <1>2, <1>3, StepOf

LEMMA MetHolds == Spec => [](SessionInv /\ MetInv)
BY SessionHolds, InitMet, NextMet, PTL DEF Spec

(* A request that met none so far met none before; while r is under way and  *)
(* has met none, no other request takes a step.                             *)
LEMMA SoloSteps ==
    ASSUME SessionInv, MetInv, NEW r \in Reqs, Step(r)
    PROVE  /\ \A s \in Sids : met'[s] = {} => met[s] = {}
           /\ \A q \in Reqs \ {r} : UnderWay(q) => met'[q] # {}
<1>1. CASE UnderWay(r) /\ UNCHANGED <<met, ended>>
    <2>1. \A q \in Reqs \ {r} : UnderWay(q) => r \in met[q] BY <1>1 DEF MetInv
    <2> QED BY <1>1, <2>1
<1>2. CASE \E new : Begin(r, new) /\ Fresh(new)
    <2>1. PICK new : Begin(r, new) BY <1>2
    <2>2. \A s \in Sids : met'[s] = IF s = r THEN {q \in Reqs : UnderWay(q)}
                                    ELSE IF s \in Reqs /\ UnderWay(s) THEN met[s] \cup {r} ELSE met[s]
        BY <2>1 DEF Begin, SessionInv, TypeOK
    <2>3. met[r] = {} BY <2>1 DEF Begin, MetInv, At
    <2>4. \A q \in Reqs : q \in Sids BY DEF Sids
    <2> QED BY <2>2, <2>3, <2>4
<1> QED BY <1>1, <1>2, StepOf

-----------------------------------------------------------------------------
(* Sessions                                                                 *)

(* Who changes the session of a user in the mapping. *)
LEMMA MappingSteps ==
    ASSUME SessionInv, NEW r \in Reqs, Step(r), NEW u \in Users, mapping'[u] # mapping[u]
    PROVE  UserOf(r) = u /\ (SessionClear(r) \/ SessionMulti(r) \/ LoginSwap(r))
<1> USE DEF SessionInv, TypeOK
<1>1. ~Begins(r)
    <2> SUFFICES ASSUME Begins(r) PROVE FALSE OBVIOUS
    <2> QED BY BeginsWith DEF Begin
<1>2. \/ SessionClear(r) \/ SessionMulti(r) \/ LoginSwap(r)
    BY <1>1 DEF Step, Begins, Guard, ProfileGet, ProfileFind, ProfileStore, SessionGet, LoginGetOld,
       Load, CheckName, Save, Cache, Drop, Insert, history, redis
<1> QED BY <1>2 DEF SessionClear, SessionMulti, Revoke, LoginSwap

(* The removal and the replacement of a session know the mapping as it was   *)
(* when they read it.                                                       *)
LEMMA MappingRead ==
    ASSUME SessionInv, NEW r \in Reqs, Step(r), req'[r].pc \in {"clear", "multi", "swap"}
    PROVE  /\ req'[r].user = UserOf(r) /\ UserOf(r) \in Users
           /\ req'[r].pc = "clear" => mapping[UserOf(r)] = None
           /\ req'[r].pc \in {"multi", "swap"} => req'[r].sid = mapping[UserOf(r)]
<1> USE DEF SessionInv, TypeOK, At
<1>0. req[r] \in Request /\ HeldOK(req[r]) OBVIOUS
<1>1. SessionGet(r) \/ LoginGetOld(r)
    <2>1. ~Begins(r)
        <3> SUFFICES ASSUME Begins(r) PROVE FALSE OBVIOUS
        <3> QED BY BeginsWith DEF Begin, Fresh
    <2>2. ~ProfileGet(r) /\ ~ProfileStore(r)
        <3>1. ASSUME ProfileReturns(r), req[r].pc \in {"profile", "store"} PROVE FALSE
            BY <3>1, ReturnsWith
        <3> QED BY <1>0, <3>1 DEF ProfileGet, ProfileStore, Go, Request
    <2>3. ~Guard(r) /\ ~ProfileFind(r) /\ ~Load(r) /\ ~CheckName(r)
        BY <1>0 DEF Guard, ProfileFind, Load, CheckName, Go, Request
    <2>4. ~SessionClear(r) /\ ~SessionMulti(r) /\ ~LoginSwap(r)
        BY <1>0 DEF SessionClear, SessionMulti, LoginSwap, AfterLeave, Go, Request
    <2>5. ~Save(r) /\ ~Cache(r) /\ ~Drop(r)
        BY <1>0 DEF Save, Cache, AfterCache, Drop, Go, Request
    <2>6. ~Insert(r)
        <3>1. ASSUME NEW u, req' = [req EXCEPT ![r].user = u, ![r].pc = "done"] PROVE FALSE
            BY <1>0, <3>1 DEF Request
        <3> QED BY <3>1 DEF Insert
    <2> QED BY <2>1, <2>2, <2>3, <2>4, <2>5, <2>6 DEF Step, Begins
<1> QED BY <1>0, <1>1 DEF SessionGet, LoginGetOld, HeldOK, Request, UserOf

(* A session whose login met nobody is the one in the mapping, and whoever   *)
(* is about to remove or replace the user's session knows it.               *)
FindInv ==
    \A s \in Sids : session[s] # None /\ met[s] = {} =>
        /\ mapping[session[s]] = s
        /\ \A q \in Reqs : UserOf(q) = session[s] =>
             /\ ~At(q, "clear")
             /\ At(q, "multi") \/ At(q, "swap") => req[q].sid = s

LEMMA InitFind == Init => FindInv
<1> SUFFICES ASSUME Init, NEW s \in Sids, session[s] # None
             PROVE  mapping[session[s]] = s /\ \A q \in Reqs : UserOf(q) = None
    BY NoneApart, InitSession DEF FindInv, SessionInv, TypeOK
<1>1. PICK u \in Users :
         \/ session = [t \in Sids |-> None]
         \/ /\ session = [t \in Sids |-> IF t = FirstSid THEN u ELSE None]
            /\ mapping = [v \in Users |-> IF v = u THEN FirstSid ELSE None]
    BY DEF Init
<1>2. mapping[session[s]] = s BY <1>1
<1>3. \A q \in Reqs : UserOf(q) = None BY DEF Init, UserOf, Idle
<1> QED BY <1>2, <1>3

LEMMA NextFind == SessionInv /\ MetInv /\ FindInv /\ [Next]_vars => FindInv'
<1> SUFFICES ASSUME SessionInv, MetInv, FindInv, NEW r \in Reqs, Step(r),
                    NEW s \in Sids, session'[s] # None, met'[s] = {}
             PROVE  /\ mapping'[session'[s]] = s
                    /\ \A q \in Reqs : req'[q].user = session'[s] =>
                         /\ req'[q].pc # "clear"
                         /\ req'[q].pc \in {"multi", "swap"} => req'[q].sid = s
    <2>1. CASE UNCHANGED vars BY <2>1 DEF vars, FindInv, UserOf, At
    <2> QED BY <2>1 DEF Next, FindInv, UserOf, At
<1>0. /\ \A q \in Reqs \ {r} : req'[q] = req[q]
      /\ met[s] = {}
    BY StepOf, SoloSteps
<1>1. CASE session'[s] = session[s]
    <2> DEFINE u == session[s]
    <2>0. /\ u \in Users /\ mapping[u] = s /\ s # None
          /\ \A q \in Reqs : UserOf(q) = u =>
               /\ ~At(q, "clear")
               /\ At(q, "multi") \/ At(q, "swap") => req[q].sid = s
        BY <1>0, <1>1, NoneApart DEF FindInv, SessionInv, TypeOK
    <2>1. mapping'[u] = s
        <3> SUFFICES ASSUME mapping'[u] # mapping[u] PROVE FALSE BY <2>0
        <3>1. UserOf(r) = u /\ (SessionClear(r) \/ SessionMulti(r) \/ LoginSwap(r))
            BY <2>0, MappingSteps
        <3>2. ~SessionClear(r) BY <2>0, <3>1 DEF SessionClear
        <3>3. ~SessionMulti(r) BY <2>0, <3>1 DEF SessionMulti, Revoke, SessionInv, TypeOK
        <3>4. ~LoginSwap(r)
            <4> SUFFICES ASSUME LoginSwap(r) PROVE FALSE OBVIOUS
            <4>1. req[r].sid = s BY <2>0, <3>1 DEF LoginSwap
            <4>2. s # r BY <1>1 DEF LoginSwap, MetInv, At
            <4> QED BY <4>1, <4>2 DEF LoginSwap
        <3> QED BY <3>1, <3>2, <3>3, <3>4
    <2>2. ASSUME req'[r].user = u, req'[r].pc \in {"clear", "multi", "swap"}
          PROVE  req'[r].pc # "clear" /\ req'[r].sid = s
        BY <2>0, <2>2, MappingRead
    <2> QED BY <1>0, <1>1, <2>0, <2>1, <2>2 DEF UserOf, At
<1>2. CASE session'[s] # session[s]
    <2>1. s = r /\ LoginSwap(r) /\ req'[r].pc = "done" BY <1>2, NamesItself
    <2>2. /\ UserOf(r) \in Users /\ session'[s] = UserOf(r) /\ mapping'[UserOf(r)] = s
        BY <2>1 DEF LoginSwap, At, SessionInv, HeldOK, TypeOK, UserOf
    <2>3. ASSUME NEW q \in Reqs, req'[q].pc \in {"clear", "multi", "swap"} PROVE FALSE
        <3>1. q # r /\ UnderWay(q) /\ UnderWay(r) BY <1>0, <2>1, <2>3 DEF UnderWay, LoginSwap, At
        <3>2. q \in met[r] BY <3>1 DEF MetInv
        <3> QED BY <1>0, <2>1, <3>2
    <2> QED BY <2>1, <2>2, <2>3
<1> QED BY <1>1, <1>2

LEMMA FindHolds == Spec => [](SessionInv /\ MetInv /\ FindInv)
BY MetHolds, InitFind, NextFind, PTL DEF Spec

(* A session whose login met no other request can be found by its user for   *)
(* as long as it lives, however the requests that follow overlap.           *)
THEOREM SessionsFindable == Spec => []FindableSession
<1>1. FindInv => FindableSession BY DEF FindInv, FindableSession
<1> QED BY <1>1, FindHolds, PTL

(* How a request that puts a user out comes to its end. *)
LEMMA EndsBy ==
    ASSUME SessionInv, NEW r \in Reqs, Step(r),
           req'[r].kind \in PutsOut, req'[r].pc \in {"drop", "done"}
    PROVE  /\ SessionClear(r) \/ SessionMulti(r) \/ (Drop(r) /\ At(r, "drop"))
           /\ req'[r].kind = req[r].kind /\ req'[r].user = UserOf(r) /\ UserOf(r) \in Users
<1> USE DEF SessionInv, TypeOK, At
<1>0. req[r] \in Request /\ HeldOK(req[r]) OBVIOUS
<1>1. ~Begins(r)
    <2> SUFFICES ASSUME Begins(r) PROVE FALSE OBVIOUS
    <2> QED BY BeginsWith DEF Begin, Fresh
<1>2. ~ProfileGet(r) /\ ~ProfileStore(r)
    <2>1. ASSUME ProfileReturns(r), req[r].pc \in {"profile", "store"} PROVE FALSE
        BY <2>1, ReturnsWith
    <2> QED BY <1>0, <2>1 DEF ProfileGet, ProfileStore, Go, Request
<1>3. ~Guard(r) /\ ~ProfileFind(r) /\ ~CheckName(r) /\ ~SessionGet(r) /\ ~LoginGetOld(r)
    BY <1>0 DEF Guard, ProfileFind, CheckName, SessionGet, LoginGetOld, Go, Request
<1>4. ~Load(r) BY <1>0 DEF Load, Go, Request
<1>5. ~LoginSwap(r) BY <1>0 DEF LoginSwap, Go, Request, HeldOK, PutsOut
<1>6. ~Save(r) BY <1>0 DEF Save, Go, Request
<1>7. ~Cache(r) BY <1>0 DEF Cache, AfterCache, Go, Request, HeldOK, PutsOut
<1>8. ~Insert(r)
    <2>1. ASSUME NEW u, req' = [req EXCEPT ![r].user = u, ![r].pc = "done"], req[r].pc = "insert"
          PROVE  FALSE
        BY <1>0, <2>1 DEF Request, HeldOK, PutsOut
    <2> QED BY <2>1 DEF Insert
<1>9. SessionClear(r) \/ SessionMulti(r) \/ Drop(r)
    BY <1>1, <1>2, <1>3, <1>4, <1>5, <1>6, <1>7, <1>8 DEF Step, Begins
<1> QED BY <1>0, <1>9 DEF SessionClear, SessionMulti, AfterLeave, Drop, Go, HeldOK, Request, UserOf

(* From the removal of the session on, none is left of those that were there *)
(* when the request began.                                                  *)
OutInv ==
    \A r \in Reqs : req[r].kind \in PutsOut /\ req[r].pc \in {"drop", "done"} =>
        \A s \in ended[r] : met[s] = {} => session[s] # UserOf(r)

LEMMA NextOut == SessionInv /\ MetInv /\ FindInv /\ OutInv /\ [Next]_vars => OutInv'
<1> SUFFICES ASSUME SessionInv, MetInv, FindInv, OutInv, NEW p \in Reqs, Step(p),
                    NEW r \in Reqs, req'[r].kind \in PutsOut, req'[r].pc \in {"drop", "done"},
                    NEW s \in ended'[r], met'[s] = {}, session'[s] = req'[r].user
             PROVE  FALSE
    <2>1. CASE UNCHANGED vars BY <2>1 DEF vars, OutInv, UserOf
    <2> QED BY <2>1 DEF Next, OutInv, UserOf
<1>0. ended'[r] = ended[r] /\ s \in Sids
    <2>1. CASE UNCHANGED ended BY <2>1 DEF SessionInv, TypeOK
    <2>2. CASE \E new : Begin(p, new) /\ Fresh(new)
        <3>1. PICK new : Begin(p, new) /\ Fresh(new) BY <2>2
        <3>2. p # r BY <3>1 DEF Begin, Fresh, HeldOK, SessionInv, TypeOK
        <3> QED BY <3>1, <3>2 DEF Begin, SessionInv, TypeOK
    <2> QED BY <2>1, <2>2, StepOf
<1>1. met[s] = {} BY <1>0, SoloSteps
<1>2. CASE p # r
    <2>1. req'[r] = req[r] BY <1>2, StepOf
    <2>2. UserOf(r) \in Users \/ req[r].pc = "drop" BY <2>1 DEF SessionInv, HeldOK, UserOf
    <2>3. UserOf(r) \in Users BY <2>1, <2>2 DEF SessionInv, HeldOK, UserOf
    <2>4. session[s] # UserOf(r) BY <1>0, <1>1, <2>1 DEF OutInv
    <2>5. session'[s] # session[s] /\ session'[s] # None BY <2>1, <2>3, <2>4, NoneApart DEF UserOf
    <2>6. s = p /\ LoginSwap(p) BY <1>0, <2>5, NamesItself
    <2>7. At(s, "done") BY <1>0, <2>6 DEF MetInv
    <2> QED BY <2>6, <2>7 DEF LoginSwap, At
<1>3. CASE p = r
    <2>1. /\ SessionClear(r) \/ SessionMulti(r) \/ (Drop(r) /\ At(r, "drop"))
          /\ req'[r].kind = req[r].kind /\ req'[r].user = UserOf(r) /\ UserOf(r) \in Users
        BY <1>3, EndsBy
    <2>2. UserOf(r) # None BY <2>1, NoneApart
    <2>3. CASE SessionClear(r)
        <3>1. session[s] = UserOf(r) /\ At(r, "clear") BY <2>1, <2>3 DEF SessionClear
        <3> QED BY <1>0, <1>1, <2>2, <3>1 DEF FindInv
    <2>4. CASE SessionMulti(r)
        <3>1. /\ At(r, "multi") /\ session' = [session EXCEPT ![req[r].sid] = None]
            BY <2>4 DEF SessionMulti, Revoke
        <3>2. s # req[r].sid /\ session[s] = UserOf(r)
            BY <1>0, <2>1, <2>2, <3>1 DEF SessionInv, TypeOK
        <3> QED BY <1>0, <1>1, <2>2, <3>1, <3>2 DEF FindInv
    <2>5. CASE Drop(r) /\ At(r, "drop")
        BY <1>0, <1>1, <2>1, <2>5 DEF Drop, redis, OutInv, At
    <2> QED BY <2>1, <2>3, <2>4, <2>5
<1> QED BY <1>2, <1>3

(* When a ban, the removal of an account or a logout is done, every session  *)
(* that the user had when it began is gone, except one whose login met      *)
(* another request.                                                         *)
THEOREM PutOutsEndSessions == Spec => []PutOutEndsSessions
<1>1. Init => OutInv BY DEF Init, Idle, OutInv
<1>2. OutInv => PutOutEndsSessions BY DEF OutInv, PutOutEndsSessions, PutsOut, At
<1> QED BY <1>1, <1>2, NextOut, FindHolds, PTL DEF Spec

-----------------------------------------------------------------------------
(* Names, profiles and bans                                                 *)

LoginPcs == {"profile", "fill", "store", "sid", "clear", "multi", "old", "swap"}

(* Where each thing that a request is about to write comes from. *)
Arrival(r) ==
    /\ req'[r].pc = "store" =>
         row' = row /\ req'[r].user = UserOf(r) /\ req'[r].copy = row[UserOf(r)]
    /\ req'[r].kind = "login" /\ req'[r].pc \in LoginPcs =>
         /\ row' = row /\ req'[r].user = UserOf(r)
         /\ \/ req'[r].row = row[UserOf(r)]
            \/ req[r].kind = "login" /\ req[r].pc \in LoginPcs /\ req'[r].row = req[r].row
    /\ req'[r].pc = "save" =>
         /\ row' = row /\ req'[r].user = UserOf(r) /\ req'[r].kind = req[r].kind
         /\ req[r].kind = "update" =>
              /\ At(r, "name") /\ req'[r].row.name = req[r].name /\ ~NameTaken(req[r].name)
              /\ req'[r].row.banned = req[r].row.banned
         /\ req[r].kind # "update" =>
              row[UserOf(r)] # None /\ req'[r].row.name = row[UserOf(r)].name
    /\ req'[r].pc = "name" /\ req'[r].kind = "update" =>
         /\ row' = row /\ req'[r].user = UserOf(r) /\ row[UserOf(r)] # None
         /\ req'[r].row = row[UserOf(r)]
    /\ req'[r].pc = "insert" => row' = row /\ req'[r].name = req[r].name /\ ~NameTaken(req[r].name)
    /\ req'[r].pc = "cache" => Save(r) /\ req'[r].user = UserOf(r) /\ req'[r].row = req[r].row
    /\ req[r].row # None /\ ~At(r, "idle") =>
         req'[r].row # None /\ req'[r].row.banned = req[r].row.banned

LEMMA Arrives == ASSUME SessionInv, NEW r \in Reqs, Step(r) PROVE Arrival(r)
<1>0. req[r] \in Request /\ HeldOK(req[r]) /\ req \in [Reqs -> Request] BY DEF SessionInv, TypeOK
<1> USE DEF At, UserOf, LoginPcs
<1>1. CASE Begins(r)
    <2>1. PICK new : Begin(r, new) /\ Fresh(new) BY <1>1, BeginsWith
    <2>2. req'[r] = new /\ req[r].pc = "idle" BY <1>0, <2>1 DEF Begin
    <2> QED BY <2>1, <2>2 DEF Fresh, Arrival
<1>2. ASSUME ProfileReturns(r), req[r].pc \in {"profile", "store"}, row' = row PROVE Arrival(r)
    <2>1. /\ req'[r].pc \in {"done", "profile", "sid"} /\ req'[r].kind = req[r].kind
          /\ req'[r].user = req[r].user /\ req'[r].row = req[r].row
        BY <1>0, <1>2, ReturnsWith
    <2> QED BY <1>2, <2>1 DEF Arrival
<1>3. CASE ProfileGet(r)
    <2>1. CASE Go(r, "fill") BY <1>0, <1>3, <2>1 DEF ProfileGet, Go, Request, Arrival
    <2> QED BY <1>2, <1>3, <2>1 DEF ProfileGet
<1>4. CASE ProfileStore(r) BY <1>2, <1>4 DEF ProfileStore
<1>5. CASE Guard(r) BY <1>0, <1>5 DEF Guard, Request, Arrival, HeldOK
<1>6. CASE ProfileFind(r) BY <1>0, <1>6 DEF ProfileFind, Request, Arrival
<1>7. CASE SessionGet(r) \/ LoginGetOld(r)
    BY <1>0, <1>7 DEF SessionGet, LoginGetOld, Request, Arrival
<1>8. CASE SessionClear(r) \/ SessionMulti(r)
    BY <1>0, <1>8 DEF SessionClear, SessionMulti, AfterLeave, Go, Request, Arrival
<1>9. CASE LoginSwap(r) BY <1>0, <1>9 DEF LoginSwap, Go, Request, Arrival
<1>10. CASE Load(r)
    <2> DEFINE found == row[UserOf(r)]
    <2>1. CASE found # None => req[r].kind = "login" /\ found.banned
        BY <1>0, <1>10, <2>1 DEF Load, Go, Request, Arrival
    <2>2. CASE ~(found # None => req[r].kind = "login" /\ found.banned)
        <3>1. /\ found \in Row /\ found # None /\ req[r].row = None /\ req[r].pc = "load"
              /\ req[r].kind \in {"login", "ban", "unban", "update"}
            BY <1>0, <1>10, <2>2 DEF Load, HeldOK, SessionInv, TypeOK
        <3>2. PICK pc, then :
                /\ req' = [req EXCEPT ![r].row = Entity(r, found), ![r].pc = pc, ![r].then = then]
                /\ pc = CASE req[r].kind = "login"  -> "profile"
                          [] req[r].kind = "update" -> "name"
                          [] OTHER                  -> "save"
                /\ row' = row
            BY <1>10, <2>2 DEF Load
        <3>3. /\ req'[r].row = Entity(r, found) /\ req'[r].pc = pc
              /\ req'[r].kind = req[r].kind /\ req'[r].user = req[r].user
            BY <1>0, <3>2 DEF Request
        <3>4. /\ Entity(r, found).name = found.name
              /\ req[r].kind \in {"login", "update"} => Entity(r, found) = found
            BY <3>1 DEF Entity, Row
        <3> QED BY <3>1, <3>2, <3>3, <3>4 DEF Arrival
    <2> QED BY <2>1, <2>2
<1>11. CASE CheckName(r)
    <2>1. CASE NameTaken(req[r].name) \/ req[r].kind = "create"
        BY <1>0, <1>11, <2>1 DEF CheckName, Go, Request, Arrival, HeldOK
    <2>2. CASE ~NameTaken(req[r].name) /\ req[r].kind # "create"
        <3>1. /\ req' = [req EXCEPT ![r].row.name = req[r].name, ![r].pc = "save"]
              /\ row' = row /\ req[r].pc = "name"
              /\ req[r].kind = "update" /\ req[r].row \in Row
            BY <1>0, <1>11, <2>2 DEF CheckName, HeldOK
        <3>2. /\ req'[r].row = [req[r].row EXCEPT !.name = req[r].name] /\ req'[r].pc = "save"
              /\ req'[r].kind = "update" /\ req'[r].user = req[r].user
            BY <1>0, <3>1 DEF Request
        <3>3. /\ req'[r].row.name = req[r].name /\ req'[r].row.banned = req[r].row.banned
              /\ req'[r].row \in Row
            BY <1>0, <1>11, <3>1, <3>2 DEF Row, HeldOK, CheckName
        <3> QED BY <2>2, <3>1, <3>2, <3>3, NoneApart DEF Arrival
    <2> QED BY <2>1, <2>2
<1>12. CASE Save(r) BY <1>0, <1>12 DEF Save, Go, Request, Arrival
<1>13. CASE Cache(r) BY <1>0, <1>13 DEF Cache, AfterCache, Go, Request, Arrival, HeldOK
<1>14. CASE Drop(r) BY <1>0, <1>14 DEF Drop, Go, Request, Arrival
<1>15. CASE Insert(r)
    <2>1. PICK u \in Users : req' = [req EXCEPT ![r].user = u, ![r].pc = "done"] BY <1>15 DEF Insert
    <2> QED BY <1>0, <2>1 DEF Request, Arrival
<1> QED BY <1>1, <1>3, <1>4, <1>5, <1>6, <1>7, <1>8, <1>9, <1>10, <1>11, <1>12, <1>13, <1>14,
           <1>15 DEF Step, Begins

(* Who changes a row, and who changes a profile. *)
LEMMA RowSteps ==
    ASSUME SessionInv, NEW r \in Reqs, Step(r)
    PROVE  \/ UNCHANGED <<row, namedBy>>
           \/ Save(r) /\ UserOf(r) \in Users
           \/ Drop(r) /\ UserOf(r) \in Users /\ row' = [row EXCEPT ![UserOf(r)] = None]
              /\ namedBy' = namedBy
           \/ Insert(r)
<1> USE DEF SessionInv, TypeOK
<1>1. CASE Begins(r)
    <2>1. PICK new : Begin(r, new) BY <1>1, BeginsWith
    <2> QED BY <2>1 DEF Begin
<1>2. CASE Save(r) BY <1>2 DEF Save, HeldOK, At, UserOf
<1>3. CASE Drop(r) BY <1>3 DEF Drop, HeldOK, At, UserOf, history
<1> QED BY <1>1, <1>2, <1>3 DEF Step, Begins, Guard, ProfileGet, ProfileFind, ProfileStore, SessionGet,
       SessionClear, SessionMulti, LoginGetOld, LoginSwap, Load, CheckName, Cache, history, redis

LEMMA ProfileSteps ==
    ASSUME SessionInv, NEW r \in Reqs, Step(r)
    PROVE  \/ UNCHANGED <<profile, cachedBy>> /\ ~At(r, "cache")
           \/ /\ row' = row /\ UserOf(r) \in Users
              /\ cachedBy' = [cachedBy EXCEPT ![UserOf(r)] = r]
              /\ \/ /\ ProfileStore(r)
                    /\ profile' = [profile EXCEPT ![UserOf(r)] = req[r].copy]
                 \/ /\ LoginSwap(r) \/ Cache(r)
                    /\ profile' = [profile EXCEPT ![UserOf(r)] = req[r].row]
<1> USE DEF SessionInv, TypeOK
<1>1. CASE Begins(r)
    <2>1. PICK new : Begin(r, new) BY <1>1, BeginsWith
    <2> QED BY <2>1 DEF Begin, At
<1>2. CASE ProfileStore(r) BY <1>2 DEF ProfileStore, HeldOK, At, UserOf
<1>3. CASE LoginSwap(r) \/ Cache(r)
    BY <1>3 DEF LoginSwap, Cache, WriteProfile, HeldOK, At, UserOf
<1> QED BY <1>1, <1>2, <1>3 DEF At, Step, Begins, Guard, ProfileGet, ProfileFind, SessionGet,
       SessionClear, SessionMulti, LoginGetOld, Load, CheckName, Save, Drop, Insert, history, redis

(* What a request that has met no other one holds is what the table says,    *)
(* or what the table has no place for yet.                                  *)
Current(r) ==
    LET q == req[r]  u == UserOf(r) IN
    /\ At(r, "store") => q.copy = row[u]
    /\ q.kind = "login" /\ q.pc \in LoginPcs => q.row = row[u]
    /\ At(r, "save") /\ q.kind # "update" => row[u] # None /\ row[u].name = q.row.name
    /\ At(r, "save") /\ q.kind = "update" => ~NameTaken(q.row.name)
    /\ At(r, "insert") => ~NameTaken(q.name)
    /\ At(r, "cache") => q.row = row[u]

AloneInv == \A r \in Reqs : met[r] = {} => Current(r)

LEMMA NextAlone == SessionInv /\ MetInv /\ AloneInv /\ [Next]_vars => AloneInv'
<1> SUFFICES ASSUME SessionInv, MetInv, AloneInv, NEW p \in Reqs, Step(p),
                    NEW r \in Reqs, met'[r] = {}
             PROVE  Current(r)'
    <2>1. CASE UNCHANGED vars BY <2>1 DEF vars, AloneInv, Current, UserOf, At, NameTaken
    <2> QED BY <2>1 DEF Next, AloneInv
<1> USE DEF SessionInv, TypeOK, At, UserOf
<1>0. r \in Sids BY DEF Sids
<1>1. CASE p # r
    <2>1. req'[r] = req[r] /\ ~UnderWay(r) BY <1>1, StepOf, SoloSteps
    <2> QED BY <2>1 DEF UnderWay, Current, LoginPcs
<1>2. CASE p = r
    <2>1. met[r] = {} /\ Current(r) /\ Arrival(r)
        BY <1>0, <1>2, SoloSteps, Arrives DEF AloneInv
    <2>2. req'[r].pc = "cache" => req'[r].row = row'[req'[r].user]
        <3> SUFFICES ASSUME req'[r].pc = "cache" PROVE req'[r].row = row'[req'[r].user] OBVIOUS
        <3>1. Save(r) /\ req'[r].user = req[r].user /\ req'[r].row = req[r].row /\ req[r].user \in Users
            BY <2>1 DEF Arrival, Save, HeldOK
        <3> QED BY <3>1 DEF Save
    <2>3. /\ req'[r].pc = "store" => req'[r].copy = row'[req'[r].user]
          /\ req'[r].kind = "login" /\ req'[r].pc \in LoginPcs => req'[r].row = row'[req'[r].user]
        BY <2>1 DEF Arrival, Current
    <2>4. ASSUME req'[r].pc = "save" \/ req'[r].pc = "insert"
          PROVE  row' = row
        BY <2>1, <2>4 DEF Arrival
    <2>5. /\ req'[r].pc = "save" /\ req'[r].kind # "update" =>
                row'[req'[r].user] # None /\ row'[req'[r].user].name = req'[r].row.name
          /\ req'[r].pc = "save" /\ req'[r].kind = "update" =>
                ~NameTaken(req[r].name) /\ req'[r].row.name = req[r].name
          /\ req'[r].pc = "insert" => ~NameTaken(req[r].name) /\ req'[r].name = req[r].name
        BY <2>1 DEF Arrival
    <2>6. /\ req'[r].pc = "save" /\ req'[r].kind = "update" =>
               ~ \E v \in Users : row'[v] # None /\ row'[v].name = req'[r].row.name
          /\ req'[r].pc = "insert" => ~ \E v \in Users : row'[v] # None /\ row'[v].name = req'[r].name
        BY <2>4, <2>5 DEF NameTaken
    <2> QED BY <2>2, <2>3, <2>5, <2>6 DEF Current, NameTaken
<1> QED BY <1>1, <1>2

LEMMA AloneHolds == Spec => [](SessionInv /\ MetInv /\ AloneInv)
<1>1. Init => AloneInv BY DEF Init, Idle, AloneInv, Current, At, LoginPcs
<1> QED BY <1>1, MetHolds, NextAlone, PTL DEF Spec

LEMMA NextNames == SessionInv /\ MetInv /\ AloneInv /\ NamesApart /\ [Next]_vars => NamesApart'
<1> SUFFICES ASSUME SessionInv, MetInv, AloneInv, NamesApart, NEW r \in Reqs, Step(r),
                    NEW u \in Users, NEW v \in Users, u # v, row'[u] # None, row'[v] # None,
                    row'[u].name = row'[v].name
             PROVE  \E w \in {u, v} : namedBy'[w] # None /\ met'[namedBy'[w]] # {}
    <2>1. CASE UNCHANGED vars BY <2>1 DEF vars, NamesApart
    <2> QED BY <2>1 DEF Next, NamesApart
<1> USE DEF SessionInv, TypeOK
<1>0. r \in Sids /\ None \notin Reqs BY NoneApart DEF Sids
<1>1. \A q \in Reqs : met[q] # {} => met'[q] # {} BY SoloSteps DEF Sids
<1>2. ASSUME row[u] # None, row[v] # None, row[u].name = row[v].name,
             namedBy'[u] = namedBy[u], namedBy'[v] = namedBy[v]
      PROVE  \E w \in {u, v} : namedBy'[w] # None /\ met'[namedBy'[w]] # {}
    <2>1. PICK w \in {u, v} : namedBy[w] # None /\ met[namedBy[w]] # {} BY <1>2 DEF NamesApart
    <2>2. w \in Users /\ namedBy[w] \in Reqs /\ namedBy'[w] = namedBy[w] BY <1>2, <2>1
    <2> QED BY <1>1, <2>1, <2>2
<1>3. ASSUME NEW w \in {u, v}, namedBy'[w] = r, met[r] # {}
      PROVE  \E x \in {u, v} : namedBy'[x] # None /\ met'[namedBy'[x]] # {}
    BY <1>0, <1>1, <1>3
<1>4. CASE UNCHANGED <<row, namedBy>> BY <1>2, <1>4
<1>5. CASE Drop(r) /\ UserOf(r) \in Users /\ row' = [row EXCEPT ![UserOf(r)] = None]
           /\ namedBy' = namedBy
    BY <1>2, <1>5
<1>6. CASE Save(r) /\ UserOf(r) \in Users
    <2> DEFINE o == UserOf(r)
    <2>1. /\ row' = [row EXCEPT ![o] = req[r].row] /\ req[r].row \in Row /\ req[r].row # None
          /\ namedBy' = [namedBy EXCEPT ![o] =
                           IF row[o] # None /\ row[o].name = req[r].row.name THEN @ ELSE r]
          /\ At(r, "save")
        BY <1>6, NoneApart DEF Save, HeldOK, At
    <2>2. CASE o \notin {u, v} BY <1>2, <2>1, <2>2
    <2>3. CASE o \in {u, v} /\ row[o] # None /\ row[o].name = req[r].row.name
        BY <1>2, <2>1, <2>3
    <2>4. CASE o \in {u, v} /\ ~(row[o] # None /\ row[o].name = req[r].row.name)
        <3>1. namedBy'[o] = r BY <1>6, <2>1, <2>4
        <3>2. PICK w \in {u, v} : w # o BY <2>4
        <3>3. row[w] # None /\ row[w].name = req[r].row.name BY <1>6, <2>1, <2>4, <3>2
        <3>4. NameTaken(req[r].row.name) BY <3>3 DEF NameTaken
        <3>5. ~Current(r) BY <2>1, <2>4, <3>4 DEF Current
        <3>6. met[r] # {} BY <3>5 DEF AloneInv
        <3> QED BY <1>3, <2>4, <3>1, <3>6
    <2> QED BY <2>2, <2>3, <2>4
<1>7. CASE Insert(r)
    <2>1. PICK o \in Users :
            /\ row' = [row EXCEPT ![o] = [name |-> req[r].name, banned |-> FALSE]]
            /\ namedBy' = [namedBy EXCEPT ![o] = r]
        BY <1>7 DEF Insert
    <2>2. CASE o \notin {u, v} BY <1>2, <2>1, <2>2
    <2>3. CASE o \in {u, v}
        <3>1. namedBy'[o] = r BY <2>1
        <3>2. PICK w \in {u, v} : w # o BY <2>3
        <3>3. row[w] # None /\ row[w].name = req[r].name BY <2>1, <2>3, <3>2
        <3>4. NameTaken(req[r].name) BY <3>3 DEF NameTaken
        <3>5. met[r] # {} BY <1>7, <3>4 DEF AloneInv, Current, Insert
        <3> QED BY <1>3, <2>3, <3>1, <3>5
    <2> QED BY <2>2, <2>3
<1> QED BY <1>4, <1>5, <1>6, <1>7, RowSteps

(* Two accounts come to one name only by a request that met another one: the *)
(* lookup of the name before the save is enough where requests do not       *)
(* overlap.                                                                 *)
THEOREM NamesStayApart == Spec => []NamesApart
<1>1. Init => NamesApart
    <2> SUFFICES ASSUME Init, NEW u \in Users, NEW v \in Users, u # v, row[u] # None, row[v] # None
                 PROVE  FALSE
        BY DEF NamesApart
    <2> QED BY DEF Init
<1> QED BY <1>1, AloneHolds, NextNames, PTL DEF Spec

(* A profile that differs from its row was written by a request that met     *)
(* another one, or the request that changed the row is about to write it.   *)
FreshInv ==
    \A u \in Users : row[u] # None /\ profile[u] \notin {None, row[u]} =>
        \/ cachedBy[u] # None /\ met[cachedBy[u]] # {}
        \/ \E q \in Reqs : At(q, "cache") /\ UserOf(q) = u

LEMMA NextFresh == SessionInv /\ MetInv /\ AloneInv /\ FreshInv /\ [Next]_vars => FreshInv'
<1> SUFFICES ASSUME SessionInv, MetInv, AloneInv, FreshInv, NEW r \in Reqs, Step(r),
                    NEW u \in Users, row'[u] # None, profile'[u] \notin {None, row'[u]}
             PROVE  \/ cachedBy'[u] # None /\ met'[cachedBy'[u]] # {}
                    \/ \E q \in Reqs : req'[q].pc = "cache" /\ req'[q].user = u
    <2>1. CASE UNCHANGED vars BY <2>1 DEF vars, FreshInv, At, UserOf
    <2> QED BY <2>1 DEF Next, FreshInv, At, UserOf
<1> USE DEF SessionInv, TypeOK, At, UserOf
<1>0. r \in Sids /\ None \notin Reqs BY NoneApart DEF Sids
<1>1. \A q \in Reqs : met[q] # {} => met'[q] # {} BY SoloSteps DEF Sids
<1>2. ASSUME row'[u] = row[u], profile'[u] = profile[u], cachedBy'[u] = cachedBy[u],
             req[r].pc = "cache" => req[r].user # u
      PROVE  \/ cachedBy'[u] # None /\ met'[cachedBy'[u]] # {}
             \/ \E q \in Reqs : req'[q].pc = "cache" /\ req'[q].user = u
    <2>1. CASE cachedBy[u] # None /\ met[cachedBy[u]] # {} BY <1>1, <1>2, <2>1
    <2>2. CASE \E q \in Reqs : At(q, "cache") /\ UserOf(q) = u
        <3>1. PICK q \in Reqs : At(q, "cache") /\ UserOf(q) = u BY <2>2
        <3>2. q # r BY <1>2, <3>1
        <3> QED BY <3>1, <3>2, StepOf
    <2> QED BY <1>2, <2>1, <2>2 DEF FreshInv
<1>3. ASSUME cachedBy'[u] = r, ~Current(r)
      PROVE  cachedBy'[u] # None /\ met'[cachedBy'[u]] # {}
    BY <1>0, <1>1, <1>3 DEF AloneInv
<1>4. CASE /\ row' = row /\ req[r].user \in Users
           /\ cachedBy' = [cachedBy EXCEPT ![req[r].user] = r]
           /\ \/ /\ ProfileStore(r)
                 /\ profile' = [profile EXCEPT ![req[r].user] = req[r].copy]
              \/ /\ LoginSwap(r) \/ Cache(r)
                 /\ profile' = [profile EXCEPT ![req[r].user] = req[r].row]
    <2>2. CASE req[r].user # u BY <1>2, <1>4, <2>2
    <2>3. CASE req[r].user = u
        <3>1. CASE ProfileStore(r) /\ profile'[u] = req[r].copy
            <4>1. ~Current(r) BY <1>4, <2>3, <3>1 DEF Current, ProfileStore
            <4> QED BY <1>3, <1>4, <2>3, <4>1
        <3>2. CASE LoginSwap(r) /\ profile'[u] = req[r].row
            <4>1. req[r].kind = "login" BY <3>2 DEF LoginSwap, HeldOK
            <4>2. ~Current(r) BY <1>4, <2>3, <3>2, <4>1 DEF Current, LoginSwap, LoginPcs
            <4> QED BY <1>3, <1>4, <2>3, <4>2
        <3>3. CASE Cache(r) /\ profile'[u] = req[r].row
            <4>1. ~Current(r) BY <1>4, <2>3, <3>3 DEF Current, Cache
            <4> QED BY <1>3, <1>4, <2>3, <4>1
        <3> QED BY <1>4, <2>3, <3>1, <3>2, <3>3
    <2> QED BY <2>2, <2>3
<1>5. CASE UNCHANGED <<profile, cachedBy>> /\ req[r].pc # "cache"
    <2>1. CASE Save(r)
        <3>1. req'[r].pc = "cache" /\ req'[r].user = req[r].user BY <2>1 DEF Save, Go, Request
        <3>2. CASE req[r].user = u BY <3>1, <3>2
        <3>3. CASE req[r].user # u BY <1>2, <1>5, <2>1, <3>3 DEF Save
        <3> QED BY <3>2, <3>3
    <2>2. CASE Drop(r) /\ row' = [row EXCEPT ![req[r].user] = None]
        BY <1>2, <1>5, <2>2 DEF Drop, HeldOK
    <2>3. CASE Insert(r)
        <3>1. PICK o \in Users :
                /\ profile[o] = None
                /\ row' = [row EXCEPT ![o] = [name |-> req[r].name, banned |-> FALSE]]
            BY <2>3 DEF Insert
        <3>2. o # u BY <1>5, <3>1
        <3> QED BY <1>2, <1>5, <2>3, <3>1, <3>2 DEF Insert
    <2>4. CASE UNCHANGED row BY <1>2, <1>5, <2>4
    <2> QED BY <2>1, <2>2, <2>3, <2>4, RowSteps
<1> QED BY <1>4, <1>5, ProfileSteps

(* When no request is under way, a profile is the row, unless a request that *)
(* met another one wrote it: no request leaves the copy behind its change.  *)
THEOREM ProfilesFresh == Spec => []ProfileFresh
<1>1. Init => FreshInv
    <2> SUFFICES ASSUME Init, NEW u \in Users, row[u] # None PROVE profile[u] \in {None, row[u]}
        BY DEF FreshInv
    <2> QED BY DEF Init
<1>2. FreshInv => ProfileFresh BY DEF FreshInv, ProfileFresh, UnderWay, At
<1> QED BY <1>1, <1>2, AloneHolds, NextFresh, PTL DEF Spec

(* A request that holds a banned entity. *)
Bans(b) == req[b].row # None /\ req[b].row.banned

(* An update that is about to save an entity without the ban that the table  *)
(* has met a request that holds one with it.                                *)
BanInv ==
    /\ \A r \in Reqs : At(r, "idle") => req[r].row = None
    /\ \A q, r \in Reqs : q \in met[r] => ~At(q, "idle")
    /\ \A r \in Reqs :
         /\ req[r].kind = "update" /\ req[r].pc \in {"name", "save"} /\ ~req[r].row.banned
         /\ row[UserOf(r)] # None /\ row[UserOf(r)].banned
         => \E b \in met[r] : Bans(b)

LEMMA MetGrows ==
    ASSUME SessionInv, MetInv, NEW r \in Reqs, Step(r), NEW s \in Reqs
    PROVE  /\ met[s] \subseteq met'[s]
           /\ \A q \in met'[s] \ met[s] : q = r \/ UnderWay(q)
<1>1. s \in Sids BY DEF Sids
<1>2. CASE \E new : Begin(r, new) /\ Fresh(new)
    <2>1. PICK new : Begin(r, new) BY <1>2
    <2>2. met'[s] = IF s = r THEN {q \in Reqs : UnderWay(q)}
                    ELSE IF s \in Reqs /\ UnderWay(s) THEN met[s] \cup {r} ELSE met[s]
        BY <1>1, <2>1 DEF Begin, SessionInv, TypeOK
    <2>3. met[r] = {} BY <2>1 DEF Begin, MetInv, At
    <2> QED BY <2>2, <2>3
<1> QED BY <1>2, StepOf

LEMMA NextBan == SessionInv /\ MetInv /\ BanInv /\ [Next]_vars => BanInv'
<1> SUFFICES ASSUME SessionInv, MetInv, BanInv, NEW p \in Reqs, Step(p) PROVE BanInv'
    <2>1. CASE UNCHANGED vars BY <2>1 DEF vars, BanInv, At, UserOf, Bans
    <2> QED BY <2>1 DEF Next
<1> USE DEF SessionInv, TypeOK, At, UserOf
<1>1. req'[p].pc # "idle" /\ \A q \in Reqs \ {p} : req'[q] = req[q] BY StepOf
<1>2. \A r \in Reqs : req'[r].pc = "idle" => req'[r].row = None BY <1>1 DEF BanInv
<1>3. ASSUME NEW q \in Reqs, NEW r \in Reqs, q \in met'[r] PROVE req'[q].pc # "idle"
    BY <1>1, <1>3, MetGrows DEF BanInv, UnderWay
<1>4. ASSUME NEW b \in Reqs, Bans(b), req[b].pc # "idle"
      PROVE  req'[b].row # None /\ req'[b].row.banned
    BY <1>1, <1>4, Arrives DEF Arrival, Bans
<1>5. ASSUME NEW r \in Reqs, req'[r].kind = "update", req'[r].pc \in {"name", "save"},
             ~req'[r].row.banned, row'[req'[r].user] # None, row'[req'[r].user].banned
      PROVE  \E b \in met'[r] : req'[b].row # None /\ req'[b].row.banned
    <2>1. ASSUME NEW b \in met[r], Bans(b)
          PROVE  \E c \in met'[r] : req'[c].row # None /\ req'[c].row.banned
        <3>1. r \in Sids /\ b \in Reqs BY DEF Sids
        <3>2. req[b].pc # "idle" BY <3>1 DEF BanInv
        <3> QED BY <1>4, <2>1, <3>1, <3>2, MetGrows
    <2>2. CASE p = r
        <3>1. Arrival(r) BY <2>2, Arrives
        <3>2. CASE req'[r].pc = "name" BY <1>5, <3>1, <3>2 DEF Arrival
        <3>3. CASE req'[r].pc = "save"
            <4>1. /\ row' = row /\ req'[r].user = req[r].user /\ req[r].kind = "update"
                  /\ req[r].pc = "name" /\ req'[r].row.banned = req[r].row.banned
                BY <1>5, <3>1, <3>3 DEF Arrival
            <4>2. \E b \in met[r] : Bans(b) BY <1>5, <4>1 DEF BanInv
            <4> QED BY <2>1, <4>2
        <3> QED BY <1>5, <3>2, <3>3
    <2>3. CASE p # r
        <3> DEFINE u == req[r].user
        <3>1. req'[r] = req[r] /\ UnderWay(r) BY <1>1, <1>5, <2>3 DEF UnderWay
        <3>2. u \in Users BY <1>5, <3>1 DEF HeldOK
        <3>3. CASE row[u] # None /\ row[u].banned
            <4>1. \E b \in met[r] : Bans(b) BY <1>5, <3>1, <3>3 DEF BanInv
            <4> QED BY <2>1, <4>1
        <3>4. CASE ~(row[u] # None /\ row[u].banned)
            <4>1. Save(p)
                <5>1. row'[u] # row[u] BY <1>5, <3>1, <3>4
                <5>2. ASSUME Insert(p) PROVE FALSE
                    <6>1. PICK o \in Users :
                            row' = [row EXCEPT ![o] = [name |-> req[p].name, banned |-> FALSE]]
                        BY <5>2 DEF Insert
                    <6>2. row'[o].banned = FALSE /\ (o # u => row'[u] = row[u]) BY <3>2, <6>1
                    <6> QED BY <1>5, <3>1, <5>1, <6>2
                <5> QED BY <1>5, <3>1, <3>2, <5>1, <5>2, RowSteps
            <4>2. row'[u] = req[p].row /\ UnderWay(p) BY <1>5, <3>1, <3>2, <3>4, <4>1 DEF Save, UnderWay
            <4>3. p \in met[r] BY <2>3, <3>1, <4>2 DEF MetInv
            <4>4. Bans(p) BY <1>5, <3>1, <4>2 DEF Bans
            <4> QED BY <2>1, <4>3, <4>4
        <3> QED BY <3>3, <3>4
    <2> QED BY <2>2, <2>3
<1> QED BY <1>2, <1>3, <1>5 DEF BanInv, Bans

(* A ban is lifted only by an end of the ban, or by a save that met a        *)
(* request which holds the ban.                                             *)
THEOREM BansStay == Spec => BanOnlyLifted
<1> DEFINE Lifted(u) == row[u] # None /\ row[u].banned /\ row'[u] # None /\ ~row'[u].banned
           ByMeans == \E r \in Reqs : /\ At(r, "save") /\ req'[r].pc = "cache"
                                      /\ \/ req[r].kind = "unban"
                                         \/ \E b \in met[r] : req[b].row # None /\ req[b].row.banned
<1>1. Init => BanInv
    <2> SUFFICES ASSUME Init PROVE BanInv OBVIOUS
    <2>1. \A r \in Reqs : req[r].row = None /\ req[r].pc = "idle" /\ met[r] = {}
        BY DEF Init, Idle, Sids
    <2> QED BY <2>1 DEF BanInv
<1>2. SessionInv /\ BanInv /\ [Next]_vars => [\A u \in Users : Lifted(u) => ByMeans]_vars
    <2> SUFFICES ASSUME SessionInv, BanInv, NEW r \in Reqs, Step(r), NEW u \in Users, Lifted(u)
                 PROVE  ByMeans
        BY DEF Next
    <2> USE DEF SessionInv, TypeOK, At, UserOf
    <2>1. Save(r)
        <3>1. ~Insert(r)
            <4> SUFFICES ASSUME Insert(r) PROVE FALSE OBVIOUS
            <4> QED BY DEF Insert
        <3> QED BY <3>1, RowSteps
    <2>2. /\ req[r].user = u /\ ~req[r].row.banned /\ req[r].pc = "save" /\ req'[r].pc = "cache"
          /\ req[r].kind \in {"update", "unban"}
        BY <2>1 DEF Save, Go, Request, HeldOK
    <2>3. CASE req[r].kind = "update"
        <3>1. \E b \in met[r] : Bans(b) BY <2>2, <2>3 DEF BanInv
        <3> QED BY <2>2, <3>1 DEF Bans
    <2> QED BY <2>2, <2>3
<1> QED BY <1>1, <1>2, NextBan, MetHolds, PTL DEF Spec, BanOnlyLifted
=============================================================================
