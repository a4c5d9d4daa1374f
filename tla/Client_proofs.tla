----------------------------- MODULE Client_proofs -----------------------------
(***************************************************************************)
(* Proofs about the browser client: Browser, MemberList, ChatView and      *)
(* SearchPanel, for every number of requests under way, logins, users,     *)
(* handlers, messages, lost connections and sizes of pages and lists; and,  *)
(* at the end, that the four together do what each does alone.             *)
(***************************************************************************)
EXTENDS MCClient, FiniteSetTheorems, TLAPS

-----------------------------------------------------------------------------
(* Browser: who is signed in                                                *)

(* Sessions are numbered as they begin. *)
KnownSessions ==
    /\ alive <= logins /\ cookie <= logins
    /\ \A c \in Calls : call[c] # NoCall => call[c].cookie <= logins /\ call[c].sid <= logins

BrowserInv == BrowserTypeOK /\ KnownSessions

LEMMA BrowserInitInv == BrowserInit => BrowserInv
<1> SUFFICES ASSUME BrowserInit PROVE BrowserInv OBVIOUS
<1>0. 0 \in Sessions /\ 1 \in Sessions BY BrowserAssumption DEF Sessions
<1>1. PICK first \in Calls : call = [c \in Calls |-> IF c = first THEN Asked("me") ELSE NoCall]
    BY DEF BrowserInit
<1>2. alive \in {0, 1} /\ cookie \in {0, 1} /\ logins = 1 BY DEF BrowserInit
<1>3. Asked("me") \in Call /\ Asked("me").cookie = cookie /\ Asked("me").sid = 0
    BY <1>0, <1>2 DEF Asked, Call
<1>4. call \in [Calls -> Call \cup {NoCall}] BY <1>1, <1>3
<1>5. BrowserTypeOK BY <1>0, <1>2, <1>4 DEF BrowserInit, BrowserTypeOK, Pages, Landings
<1>6. KnownSessions BY <1>1, <1>2, <1>3 DEF KnownSessions
<1> QED BY <1>5, <1>6 DEF BrowserInv

(* A step puts one call in the place of another, or of none, and knows no    *)
(* session that has not begun.                                              *)
Puts(c, new) ==
    /\ c \in Calls /\ call' = [call EXCEPT ![c] = new]
    /\ new \in Call \cup {NoCall}
    /\ new # NoCall => new.cookie <= logins' /\ new.sid <= logins'

LEMMA PutsKeeps ==
    ASSUME BrowserInv, NEW c, NEW new, Puts(c, new), logins' \in Sessions, logins <= logins'
    PROVE  /\ call' \in [Calls -> Call \cup {NoCall}]
           /\ \A d \in Calls : call'[d] # NoCall => call'[d].cookie <= logins' /\ call'[d].sid <= logins'
<1>1. call' \in [Calls -> Call \cup {NoCall}] BY DEF BrowserInv, BrowserTypeOK, Puts
<1>2. ASSUME NEW d \in Calls, call'[d] # NoCall
      PROVE  call'[d].cookie <= logins' /\ call'[d].sid <= logins'
    <2>1. CASE d = c BY <1>2, <2>1 DEF BrowserInv, BrowserTypeOK, Puts
    <2>2. CASE d # c
        <3>1. call'[d] = call[d] /\ call[d] \in Call
            BY <1>2, <2>2 DEF BrowserInv, BrowserTypeOK, Puts
        <3>2. call[d].cookie \in Sessions /\ call[d].sid \in Sessions /\ logins \in Sessions
            BY <3>1 DEF Call, BrowserInv, BrowserTypeOK
        <3>3. call[d].cookie <= logins /\ call[d].sid <= logins
            BY <1>2, <3>1 DEF BrowserInv, KnownSessions
        <3> QED BY <3>1, <3>2, <3>3 DEF Sessions
    <2> QED BY <2>1, <2>2
<1> QED BY <1>1, <1>2

(* The calls that the steps put. *)
LEMMA CallTypes ==
    ASSUME BrowserInv
    PROVE  /\ \A c \in Calls : call[c].kind # "none" => call[c] \in Call
           /\ \A kind \in {"me", "login", "logout", "save", "register"} :
                /\ Asked(kind) \in Call /\ Asked(kind).cookie = cookie /\ Asked(kind).sid = 0
                /\ Asked(kind).kind = kind /\ Asked(kind).answer = "none" /\ Asked(kind) # NoCall
           /\ NoCall.kind = "none" /\ NoCall \notin Call
           /\ alive \in Sessions /\ logins \in Sessions /\ cookie \in Sessions /\ 0 \in Sessions
           /\ alive \in Nat /\ logins \in Nat /\ cookie \in Nat
<1>1. NoCall.kind = "none" BY DEF NoCall
<1>2. \A x \in Call : x.kind # "none" BY DEF Call
<1>3. /\ alive \in Sessions /\ logins \in Sessions /\ cookie \in Sessions /\ 0 \in Sessions
      /\ alive \in Nat /\ logins \in Nat /\ cookie \in Nat
    BY BrowserAssumption DEF BrowserInv, BrowserTypeOK, Sessions
<1>4. ASSUME NEW kind \in {"me", "login", "logout", "save", "register"}
      PROVE  /\ Asked(kind) \in Call /\ Asked(kind).cookie = cookie /\ Asked(kind).sid = 0
             /\ Asked(kind).kind = kind /\ Asked(kind).answer = "none"
    BY <1>3 DEF Asked, Call
<1>5. \A c \in Calls : call[c].kind # "none" => call[c] \in Call
    BY <1>1 DEF BrowserInv, BrowserTypeOK
<1> QED BY <1>1, <1>2, <1>3, <1>4, <1>5

(* An answer, the answer to a login, and the question who is signed in.      *)
LEMMA Answers ==
    ASSUME NEW x \in Call, NEW answer \in {"none", "ok", "no", "lost"}
    PROVE  /\ [x EXCEPT !.answer = answer] \in Call
           /\ [x EXCEPT !.answer = answer].kind = x.kind
           /\ [x EXCEPT !.answer = answer].answer = answer
           /\ [x EXCEPT !.answer = answer].cookie = x.cookie
           /\ [x EXCEPT !.answer = answer].sid = x.sid
BY DEF Call

LEMMA AnswersLogin ==
    ASSUME NEW x \in Call, NEW sid \in Sessions
    PROVE  /\ [x EXCEPT !.answer = "ok", !.sid = sid] \in Call
           /\ [x EXCEPT !.answer = "ok", !.sid = sid].kind = x.kind
           /\ [x EXCEPT !.answer = "ok", !.sid = sid].answer = "ok"
           /\ [x EXCEPT !.answer = "ok", !.sid = sid].cookie = x.cookie
           /\ [x EXCEPT !.answer = "ok", !.sid = sid].sid = sid
BY DEF Call

LEMMA Asks ==
    ASSUME BrowserInv, NEW sid \in Sessions
    PROVE  /\ [Asked("me") EXCEPT !.cookie = sid] \in Call
           /\ [Asked("me") EXCEPT !.cookie = sid].kind = "me"
           /\ [Asked("me") EXCEPT !.cookie = sid].answer = "none"
           /\ [Asked("me") EXCEPT !.cookie = sid].cookie = sid
           /\ [Asked("me") EXCEPT !.cookie = sid].sid = 0
BY CallTypes DEF Call

LEMMA NextBrowserInv == BrowserInv /\ [BrowserNext]_browserVars => BrowserInv'
<1> SUFFICES ASSUME BrowserInv, BrowserNext PROVE BrowserInv'
    BY DEF browserVars, BrowserInv, BrowserTypeOK, KnownSessions
<1>0. /\ alive \in Sessions /\ logins \in Sessions /\ cookie \in Sessions /\ 0 \in Sessions
      /\ alive <= logins /\ cookie <= logins /\ logins <= logins /\ 0 <= logins
      /\ NoCall \notin Call /\ at \in Pages /\ from \in Landings
    <2>1. /\ alive \in Sessions /\ logins \in Sessions /\ cookie \in Sessions /\ 0 \in Sessions
          /\ logins \in Nat /\ NoCall \notin Call
        BY CallTypes
    <2>2. logins <= logins /\ 0 <= logins BY <2>1
    <2> QED BY <2>1, <2>2 DEF BrowserInv, BrowserTypeOK, KnownSessions
<1>1. ASSUME NEW page \in Pages, NEW u \in BOOLEAN, NEW l \in BOOLEAN, Route(page, u, l)
      PROVE  at' \in Pages /\ from' \in Landings /\ user' \in BOOLEAN /\ loading' \in BOOLEAN
    BY <1>0, <1>1 DEF Route, NeedsLogin, HasLogin, Pages, Landings
<1>2. ASSUME NEW c, NEW new, Puts(c, new), alive' \in Sessions, logins' \in Sessions,
             cookie' \in Sessions, logins <= logins', alive' <= logins', cookie' <= logins',
             user' \in BOOLEAN, loading' \in BOOLEAN, at' \in Pages, from' \in Landings,
             astray' \in BOOLEAN, saidOut' \in BOOLEAN
      PROVE  BrowserInv'
    BY <1>2, PutsKeeps DEF BrowserInv, BrowserTypeOK, KnownSessions
<1>3. user \in BOOLEAN /\ loading \in BOOLEAN /\ astray \in BOOLEAN /\ saidOut \in BOOLEAN
    BY DEF BrowserInv, BrowserTypeOK
<1>4. ASSUME NEW kind \in {"login", "logout", "save", "register"}, Submit(kind) PROVE BrowserInv'
    <2>1. PICK c \in Calls : call' = [call EXCEPT ![c] = Asked(kind)] BY <1>4 DEF Submit
    <2>2. Puts(c, Asked(kind))
        <3>1. UNCHANGED <<alive, logins, cookie>> BY <1>4 DEF Submit
        <3> QED BY <1>0, <2>1, <3>1, CallTypes DEF Puts
    <2> QED BY <1>0, <1>2, <1>3, <1>4, <2>2 DEF Submit
<1>5. ASSUME NEW c \in Calls, call[c] \in Call
      PROVE  call[c].cookie <= logins /\ call[c].sid <= logins 
             /\ call[c].cookie \in Sessions /\ call[c].sid \in Sessions
    BY <1>0, <1>5 DEF BrowserInv, KnownSessions, Call
<1>6. ASSUME NEW c \in Calls, call[c].kind # "none", logins <= logins', logins' \in Sessions
      PROVE  /\ \A answer \in {"none", "ok", "no", "lost"} :
                  Reply(c, answer) => Puts(c, [call[c] EXCEPT !.answer = answer])
             /\ Done(c) => Puts(c, NoCall)
             /\ \A sid \in Sessions : sid <= logins' =>
                  /\ Reload(c, sid) => Puts(c, [Asked("me") EXCEPT !.cookie = sid])
                  /\ call' = [call EXCEPT ![c].answer = "ok", ![c].sid = sid]
                       => Puts(c, [call[c] EXCEPT !.answer = "ok", !.sid = sid])
    <2>1. call[c] \in Call BY <1>6, CallTypes
    <2>2. call \in [Calls -> Call \cup {NoCall}] BY DEF BrowserInv, BrowserTypeOK
    <2>3. call[c].cookie <= logins' /\ call[c].sid <= logins'
        <3>1. /\ call[c].cookie \in Sessions /\ call[c].sid \in Sessions /\ logins \in Sessions
              /\ call[c].cookie <= logins /\ call[c].sid <= logins
            BY <1>0, <1>5, <1>6, <2>1
        <3> QED BY <1>6, <3>1 DEF Sessions
    <2>4. ASSUME NEW answer \in {"none", "ok", "no", "lost"}, Reply(c, answer)
          PROVE  Puts(c, [call[c] EXCEPT !.answer = answer])
        <3> DEFINE new == [call[c] EXCEPT !.answer = answer]
        <3>1. call' = [call EXCEPT ![c] = new] BY <2>2, <2>4 DEF Reply
        <3>2. new \in Call /\ new.cookie = call[c].cookie /\ new.sid = call[c].sid
            BY <2>1, Answers
        <3> HIDE DEF new
        <3>3. Puts(c, new) BY <2>3, <3>1, <3>2 DEF Puts
        <3> QED BY <3>3 DEF new
    <2>5. ASSUME Done(c) PROVE Puts(c, NoCall) BY <2>5 DEF Puts, Done
    <2>6. ASSUME NEW sid \in Sessions, sid <= logins', Reload(c, sid)
          PROVE  Puts(c, [Asked("me") EXCEPT !.cookie = sid])
        <3> DEFINE new == [Asked("me") EXCEPT !.cookie = sid]
        <3>1. call' = [call EXCEPT ![c] = new] BY <2>6 DEF Reload
        <3>2. new \in Call /\ new.cookie = sid /\ new.sid = 0 BY <2>6, Asks
        <3>4. 0 <= logins' BY <1>6 DEF Sessions
        <3> HIDE DEF new
        <3>3. Puts(c, new) BY <2>6, <3>1, <3>2, <3>4 DEF Puts
        <3> QED BY <3>3 DEF new
    <2>7. ASSUME NEW sid \in Sessions, sid <= logins',
                 call' = [call EXCEPT ![c].answer = "ok", ![c].sid = sid]
          PROVE  Puts(c, [call[c] EXCEPT !.answer = "ok", !.sid = sid])
        <3> DEFINE new == [call[c] EXCEPT !.answer = "ok", !.sid = sid]
        <3>1. call' = [call EXCEPT ![c] = new] BY <2>2, <2>7
        <3>2. new \in Call /\ new.cookie = call[c].cookie /\ new.sid = sid
            BY <2>1, AnswersLogin
        <3> HIDE DEF new
        <3>3. Puts(c, new) BY <2>3, <2>7, <3>1, <3>2 DEF Puts
        <3> QED BY <3>3 DEF new
    <2> QED BY <2>4, <2>5, <2>6, <2>7
<1>7. CASE LoadPage
    <2>1. PICK first \in Calls : call' = [c \in Calls |-> IF c = first THEN Asked("me") ELSE NoCall]
        BY <1>7 DEF LoadPage
    <2>2. call' \in [Calls -> Call \cup {NoCall}] BY <2>1, CallTypes
    <2>3. \A c \in Calls : call'[c] # NoCall => call'[c].cookie <= logins /\ call'[c].sid <= logins
        BY <1>0, <2>1, CallTypes
    <2> QED BY <1>0, <1>7, <2>2, <2>3 DEF LoadPage, BrowserInv, BrowserTypeOK, KnownSessions, Landings
<1>8. CASE Follow
    <2>1. PICK page \in Pages : Route(page, user, loading) BY <1>8 DEF Follow
    <2> QED BY <1>1, <1>3, <1>8, <2>1 DEF Follow, BrowserInv, BrowserTypeOK, KnownSessions
<1>9. CASE LogIn \/ Register \/ LogOut \/ SaveProfile
    BY <1>4, <1>9 DEF LogIn, Register, LogOut, SaveProfile
<1>10. CASE SessionEnds
    <2>1. 0 <= logins BY <1>0
    <2> QED BY <1>0, <1>10, <2>1 DEF SessionEnds, BrowserInv, BrowserTypeOK, KnownSessions
<1>11. ASSUME NEW c \in Calls, ServeMember(c) \/ ServeOpen(c) \/ Lose(c) PROVE BrowserInv'
    <2>1. PICK answer \in {"ok", "no", "lost"} : Reply(c, answer)
        BY <1>11 DEF ServeMember, ServeOpen, Lose
    <2>2. call[c].kind # "none"
        BY <1>11, CallTypes DEF ServeMember, ServeOpen, Lose, Making, BrowserInv, BrowserTypeOK, Call
    <2>3. UNCHANGED <<alive, logins, cookie, user, loading, at, from, astray, saidOut>> /\ logins <= logins'
        BY <1>0, <1>11 DEF ServeMember, ServeOpen, Lose
    <2>4. Puts(c, [call[c] EXCEPT !.answer = answer]) BY <1>0, <1>6, <2>1, <2>2, <2>3
    <2> QED BY <1>0, <1>2, <1>3, <2>3, <2>4
<1>12. ASSUME NEW c \in Calls, ServeLogout(c) PROVE BrowserInv'
    <2>1. PICK answer \in {"ok", "no"} : Reply(c, answer) BY <1>12 DEF ServeLogout
    <2>2. UNCHANGED <<logins, cookie, user, loading, at, from, astray, saidOut>> /\ logins <= logins'
        BY <1>0, <1>12 DEF ServeLogout
    <2>3. Puts(c, [call[c] EXCEPT !.answer = answer])
        BY <1>0, <1>6, <1>12, <2>1, <2>2 DEF ServeLogout
    <2>4. alive' \in Sessions /\ alive' <= logins' BY <1>0, <1>12, <2>2 DEF ServeLogout
    <2> QED BY <1>0, <1>2, <1>3, <2>2, <2>3, <2>4
<1>13. ASSUME NEW c \in Calls, ServeLogin(c) PROVE BrowserInv'
    <2>1. /\ alive' = logins + 1 /\ logins' = logins + 1 /\ logins + 1 \in Sessions
          /\ cookie <= logins' /\ logins <= logins' /\ logins + 1 <= logins'
        BY <1>0, <1>13, BrowserAssumption DEF ServeLogin, Sessions
    <2>2. Puts(c, [call[c] EXCEPT !.answer = "ok", !.sid = logins + 1])
        BY <1>6, <1>13, <2>1 DEF ServeLogin
    <2> QED BY <1>0, <1>2, <1>3, <1>13, <2>1, <2>2 DEF ServeLogin
<1>14. ASSUME NEW c \in Calls, Reloaded(c) \/ LoggedOut(c) \/ Registered(c) \/ Refused(c)
       PROVE  BrowserInv'
    <2>1. /\ Done(c) /\ call[c].kind # "none" /\ UNCHANGED <<alive, logins>>
          /\ cookie' \in {cookie, 0} /\ astray' \in BOOLEAN /\ saidOut' \in BOOLEAN
        BY <1>3, <1>14, CallTypes DEF Reloaded, LoggedOut, Registered, Refused
    <2>2. Puts(c, NoCall) BY <1>0, <1>6, <2>1
    <2>3. at' \in Pages /\ from' \in Landings /\ user' \in BOOLEAN /\ loading' \in BOOLEAN
        <3>1. CASE Reloaded(c)
            <4>1. Route(at, call[c].answer = "ok", FALSE) BY <3>1 DEF Reloaded
            <4> QED BY <1>0, <1>1, <4>1
        <3>2. CASE Registered(c)
            <4>1. Route("login", user, loading) BY <3>2 DEF Registered
            <4> QED BY <1>0, <1>1, <1>3, <4>1 DEF Pages
        <3>3. CASE LoggedOut(c) BY <1>0, <1>3, <3>3 DEF LoggedOut, Pages, Landings
        <3>4. CASE Refused(c) BY <1>0, <1>3, <3>4 DEF Refused
        <3> QED BY <1>14, <3>1, <3>2, <3>3, <3>4
    <2>4. cookie' <= logins' /\ cookie' \in Sessions BY <1>0, <2>1
    <2> QED BY <1>0, <1>2, <2>1, <2>2, <2>3, <2>4
<1>15. ASSUME NEW c \in Calls, LoggedIn(c) PROVE BrowserInv'
    <2>1. call[c] \in Call /\ call[c].kind # "none" BY <1>15, CallTypes DEF LoggedIn
    <2>2. call[c].sid \in Sessions /\ call[c].sid <= logins' BY <1>5, <1>15, <2>1 DEF LoggedIn
    <2>3. Puts(c, [Asked("me") EXCEPT !.cookie = call[c].sid])
        BY <1>0, <1>6, <1>15, <2>1, <2>2 DEF LoggedIn
    <2>4. /\ UNCHANGED <<alive, logins, user, loading, at, from, saidOut>>
          /\ cookie' = call[c].sid /\ astray' \in BOOLEAN
        BY <1>15 DEF LoggedIn, Others
    <2> QED BY <1>0, <1>2, <1>3, <2>2, <2>3, <2>4
<1>16. ASSUME NEW c \in Calls, Saved(c) PROVE BrowserInv'
    <2>1. Puts(c, [Asked("me") EXCEPT !.cookie = cookie])
        BY <1>0, <1>6, <1>16 DEF Saved
    <2> QED BY <1>0, <1>2, <1>3, <1>16, <2>1 DEF Saved
<1> QED BY <1>7, <1>8, <1>9, <1>10, <1>11, <1>12, <1>13, <1>14, <1>15, <1>16 DEF BrowserNext

(* The cookie names the account's session. *)
Signed == cookie # 0 /\ cookie = alive

(* The answer to a login or logout that the server has served, or its loss,  *)
(* has still to come to the window.                                         *)
Unsettled == \E d \in Calls : call[d].kind \in {"login", "logout"} /\ call[d].answer \in {"ok", "lost"}

Asking == \E c \in Calls : call[c].kind = "me"

(* Unless the window is astray, who it takes for signed in is who is, or a   *)
(* login, a logout or the question who is signed in is still to be answered. *)
(* An answer to that question is true unless it is overtaken so.            *)
WindowInv ==
    /\ ~astray => \A c \in Calls : call[c].kind = "me" =>
         /\ call[c].cookie = cookie
         /\ call[c].answer = "ok" => Signed \/ Unsettled
         /\ call[c].answer = "no" => ~Signed
    /\ ~astray /\ ~loading => (user <=> Signed) \/ Unsettled \/ Asking
    /\ ~loading => at # (IF user THEN "login" ELSE "members")

(* A route ends on no page that sends the window away. *)
LEMMA RouteSettles ==
    ASSUME NEW page, NEW u \in BOOLEAN, NEW l \in BOOLEAN, Route(page, u, l), from \in Landings
    PROVE  ~l => at' # (IF u THEN "login" ELSE "members")
BY DEF Route, NeedsLogin, HasLogin, Landings

(* One call changes: what WindowInv says of the others stays, and of this    *)
(* one it is to be shown.                                                   *)
LEMMA OneCall ==
    ASSUME BrowserInv, WindowInv, NEW c \in Calls, NEW new, call' = [call EXCEPT ![c] = new],
           ~astray, UNCHANGED <<cookie, user, loading>>, UNCHANGED <<at, from>>,
           Signed' => Signed,
           Signed /\ ~Signed' => Unsettled',
           call[c].kind \in {"login", "logout"} /\ call[c].answer \in {"ok", "lost"}
              => new.kind = call[c].kind /\ new.answer \in {"ok", "lost"},
           call[c].kind = "me" => new.kind = "me",
           new.kind = "me" => /\ new.cookie = cookie
                              /\ new.answer = "ok" => Signed' \/ Unsettled'
                              /\ new.answer = "no" => ~Signed'
    PROVE  WindowInv'
<1>1. call'[c] = new /\ \A d \in Calls \ {c} : call'[d] = call[d]
    BY DEF BrowserInv, BrowserTypeOK
<1>2. Unsettled => Unsettled' BY <1>1 DEF Unsettled
<1>3. Asking => Asking' BY <1>1 DEF Asking
<1>4. ASSUME NEW d \in Calls, call'[d].kind = "me"
      PROVE  /\ call'[d].cookie = cookie'
             /\ call'[d].answer = "ok" => Signed' \/ Unsettled'
             /\ call'[d].answer = "no" => ~Signed'
    BY <1>1, <1>2, <1>4 DEF WindowInv
<1>5. ~loading' => (user' <=> Signed') \/ Unsettled' \/ Asking' BY <1>2, <1>3 DEF WindowInv
<1> QED BY <1>4, <1>5 DEF WindowInv

LEMMA NextWindow == BrowserInv /\ WindowInv /\ [BrowserNext]_browserVars => WindowInv'
<1> SUFFICES ASSUME BrowserInv, WindowInv, BrowserNext PROVE WindowInv'
    BY DEF browserVars, WindowInv, Signed, Unsettled, Asking
<1>0. /\ call \in [Calls -> Call \cup {NoCall}] /\ NoCall.kind = "none"
      /\ alive \in Nat /\ cookie \in Nat /\ logins \in Nat /\ cookie <= logins /\ alive <= logins
      /\ user \in BOOLEAN /\ loading \in BOOLEAN /\ from \in Landings
    BY CallTypes DEF BrowserInv, BrowserTypeOK, KnownSessions
<1>1. CASE LoadPage
    <2>1. PICK first \in Calls : call' = [c \in Calls |-> IF c = first THEN Asked("me") ELSE NoCall]
        BY <1>1 DEF LoadPage
    <2>2. \A c \in Calls : call'[c].kind = "me" => call'[c].cookie = cookie /\ call'[c].answer = "none"
        BY <1>0, <2>1, CallTypes
    <2> QED BY <1>1, <2>2 DEF LoadPage, WindowInv
<1>2. CASE Follow
    <2>1. PICK page \in Pages : Route(page, user, loading) BY <1>2 DEF Follow
    <2>2. ~loading' => at' # (IF user' THEN "login" ELSE "members")
        BY <1>0, <2>1, RouteSettles DEF Route
    <2>3. UNCHANGED <<call, alive, cookie, user, loading, astray>> BY <1>2, <2>1 DEF Follow, Route
    <2> QED BY <2>2, <2>3 DEF WindowInv, Signed, Unsettled, Asking
<1>3. ASSUME astray', UNCHANGED <<user, loading, at>> PROVE WindowInv' BY <1>3 DEF WindowInv
<1>4. ASSUME NEW kind \in {"login", "logout", "save", "register"}, Submit(kind) PROVE WindowInv'
    <2>1. PICK c \in Calls : ~Making(c) /\ call' = [call EXCEPT ![c] = Asked(kind)]
        BY <1>4 DEF Submit
    <2>2. call[c].kind = "none" /\ Asked(kind).kind = kind BY <1>0, <2>1, CallTypes DEF Making
    <2>3. UNCHANGED <<alive, cookie, user, loading, at, from, astray>> BY <1>4 DEF Submit
    <2>4. CASE astray BY <1>3, <2>3, <2>4
    <2>5. CASE ~astray BY <2>1, <2>2, <2>3, <2>5, OneCall DEF Signed
    <2> QED BY <2>4, <2>5
<1>5. CASE LogIn \/ Register \/ LogOut \/ SaveProfile
    BY <1>4, <1>5 DEF LogIn, Register, LogOut, SaveProfile
<1>6. CASE SessionEnds BY <1>3, <1>6 DEF SessionEnds
<1>7. ASSUME NEW c \in Calls, NEW answer \in {"ok", "no", "lost"}, Reply(c, answer), call[c] \in Call,
             UNCHANGED <<alive, cookie, user, loading, at, from, astray>>,
             call[c].answer \in {"none"} \/ answer = "lost",
             ~astray /\ call[c].kind = "me" /\ answer # "lost" => answer = IF Signed THEN "ok" ELSE "no"
      PROVE  WindowInv'
    <2>1. CASE astray BY <1>3, <1>7, <2>1
    <2>2. CASE ~astray
        <3> DEFINE new == [call[c] EXCEPT !.answer = answer]
        <3>1. call' = [call EXCEPT ![c] = new] BY <1>0, <1>7 DEF Reply
        <3>2. new.kind = call[c].kind /\ new.answer = answer /\ new.cookie = call[c].cookie
            BY <1>7, Answers
        <3>3. Signed' = Signed BY <1>7 DEF Signed
        <3> HIDE DEF new
        <3>4. call[c].kind = "me" => new.cookie = cookie BY <2>2, <3>2 DEF WindowInv
        <3> QED BY <1>7, <2>2, <3>1, <3>2, <3>3, <3>4, OneCall
    <2> QED BY <2>1, <2>2
<1>8. ASSUME NEW c \in Calls, ServeMember(c) \/ ServeOpen(c) \/ Lose(c) PROVE WindowInv'
    <2>1. call[c] \in Call
        BY <1>8, CallTypes DEF ServeMember, ServeOpen, Lose, Making, BrowserInv, BrowserTypeOK
    <2>2. UNCHANGED <<alive, cookie, user, loading, at, from, astray>>
        BY <1>8 DEF ServeMember, ServeOpen, Lose
    <2>3. CASE ServeMember(c)
        <3>1. PICK answer \in {"ok", "no"} :
                 Reply(c, answer) /\ (call[c].kind = "me" => answer = IF Admitted(c) THEN "ok" ELSE "no")
            BY <2>3 DEF ServeMember
        <3>2. ~astray /\ call[c].kind = "me" => (Admitted(c) <=> Signed)
            BY DEF Admitted, Signed, WindowInv
        <3> QED BY <1>7, <2>1, <2>2, <2>3, <3>1, <3>2 DEF ServeMember
    <2>4. CASE ServeOpen(c) BY <1>7, <2>1, <2>2, <2>4 DEF ServeOpen
    <2>5. CASE Lose(c) BY <1>7, <2>1, <2>2, <2>5 DEF Lose
    <2> QED BY <1>8, <2>3, <2>4, <2>5
<1>9. ASSUME NEW c \in Calls, ServeLogout(c) PROVE WindowInv'
    <2> DEFINE answer == IF Admitted(c) THEN "ok" ELSE "no"
               new == [call[c] EXCEPT !.answer = answer]
    <2>1. call[c] \in Call /\ answer \in {"ok", "no"} BY <1>9, CallTypes DEF ServeLogout
    <2>2. call' = [call EXCEPT ![c] = new] BY <1>0, <1>9 DEF ServeLogout, Reply
    <2>3. new.kind = "logout" /\ new.answer = answer BY <1>9, <2>1, Answers DEF ServeLogout
    <2>4. UNCHANGED <<cookie, user, loading, at, from, astray>> BY <1>9 DEF ServeLogout
    <2> HIDE DEF new
    <2>5. Signed' => Signed BY <1>0, <1>9, <2>4 DEF ServeLogout, Signed
    <2>6. Signed /\ ~Signed' => Unsettled'
        <3>1. CASE Admitted(c) BY <1>0, <2>2, <2>3, <3>1 DEF Unsettled
        <3>2. CASE ~Admitted(c) BY <1>9, <2>4, <3>2 DEF ServeLogout, Signed
        <3> QED BY <3>1, <3>2
    <2>7. CASE astray BY <1>3, <2>4, <2>7
    <2>8. CASE ~astray BY <1>9, <2>2, <2>3, <2>4, <2>5, <2>6, <2>8, OneCall DEF ServeLogout
    <2> QED BY <2>7, <2>8
<1>10. ASSUME NEW c \in Calls, ServeLogin(c) PROVE WindowInv'
    <2> DEFINE new == [call[c] EXCEPT !.answer = "ok", !.sid = logins + 1]
    <2>1. call[c] \in Call /\ logins + 1 \in Sessions
        BY <1>0, <1>10, CallTypes, BrowserAssumption DEF ServeLogin, Sessions
    <2>2. call' = [call EXCEPT ![c] = new] BY <1>0, <1>10 DEF ServeLogin
    <2>3. new.kind = "login" /\ new.answer = "ok" BY <1>10, <2>1, AnswersLogin DEF ServeLogin
    <2>4. UNCHANGED <<cookie, user, loading, at, from, astray>> BY <1>10 DEF ServeLogin
    <2> HIDE DEF new
    <2>5. ~Signed' BY <1>0, <1>10 DEF ServeLogin, Signed
    <2>6. Unsettled' BY <1>0, <2>2, <2>3 DEF Unsettled
    <2>7. CASE astray BY <1>3, <2>4, <2>7
    <2>8. CASE ~astray BY <1>10, <2>2, <2>3, <2>4, <2>5, <2>6, <2>8, OneCall DEF ServeLogin
    <2> QED BY <2>7, <2>8
<1>11. ASSUME NEW c \in Calls, Reloaded(c) PROVE WindowInv'
    <2>1. /\ Route(at, call[c].answer = "ok", FALSE) /\ call[c].kind = "me"
          /\ call[c].answer \in {"ok", "no", "lost"}
        BY <1>11, CallTypes DEF Reloaded, Call
    <2>2. /\ user' = (call[c].answer = "ok") /\ UNCHANGED <<alive, cookie>>
          /\ astray' = (astray \/ call[c].answer = "lost")
        BY <1>11, <2>1 DEF Reloaded, Route
    <2>3. at' # (IF user' THEN "login" ELSE "members") BY <1>0, <2>1, <2>2, RouteSettles
    <2>4. call'[c].kind = "none" /\ \A d \in Calls \ {c} : call'[d] = call[d]
        BY <1>0, <1>11 DEF Reloaded, Done
    <2>5. Signed' = Signed BY <2>2 DEF Signed
    <2>6. Unsettled => Unsettled' BY <2>1, <2>4 DEF Unsettled
    <2>7. ~astray' => (user' <=> Signed') \/ Unsettled' BY <2>1, <2>2, <2>5, <2>6 DEF WindowInv
    <2> QED BY <2>2, <2>3, <2>4, <2>5, <2>6, <2>7 DEF WindowInv
<1>12. ASSUME NEW c \in Calls, LoggedIn(c) PROVE WindowInv'
    <2> DEFINE new == [Asked("me") EXCEPT !.cookie = call[c].sid]
    <2>1. call[c] \in Call /\ call[c].sid \in Sessions BY <1>12, CallTypes DEF LoggedIn, Call
    <2>2. new.kind = "me" /\ new.answer = "none" /\ new.cookie = call[c].sid BY <2>1, Asks
    <2>3. call' = [call EXCEPT ![c] = new] BY <1>12 DEF LoggedIn, Reload
    <2> HIDE DEF new
    <2>4. call'[c] = new /\ \A d \in Calls \ {c} : call'[d] = call[d] BY <1>0, <2>3
    <2>5. ~astray' => \A d \in Calls \ {c} : call[d].kind # "me" BY <1>12 DEF LoggedIn, Others
    <2>6. cookie' = call[c].sid /\ UNCHANGED <<user, loading, at>> BY <1>12 DEF LoggedIn
    <2>7. Asking' BY <2>2, <2>4 DEF Asking
    <2> QED BY <2>2, <2>4, <2>5, <2>6, <2>7 DEF WindowInv
<1>13. ASSUME NEW c \in Calls, LoggedOut(c) PROVE WindowInv'
    <2>1. call'[c].kind = "none" /\ \A d \in Calls \ {c} : call'[d] = call[d]
        BY <1>0, <1>13 DEF LoggedOut, Done
    <2>2. ~astray' => ~astray /\ \A d \in Calls : call'[d].kind # "me"
        BY <1>13, <2>1 DEF LoggedOut, Others
    <2>3. CASE call[c].answer = "ok"
        <3>1. cookie' = 0 /\ user' = FALSE /\ at' = "login" BY <1>13, <2>3 DEF LoggedOut
        <3> QED BY <2>2, <3>1 DEF WindowInv, Signed
    <2>4. CASE call[c].answer = "no"
        <3>1. UNCHANGED <<cookie, alive, user, at, loading>> BY <1>13, <2>4 DEF LoggedOut
        <3>2. Unsettled => Unsettled' BY <2>1, <2>4 DEF Unsettled
        <3>3. Signed' = Signed BY <3>1 DEF Signed
        <3>4. ~astray => ~Asking \/ astray' BY <1>13, <2>1 DEF LoggedOut, Others, Asking
        <3> QED BY <2>2, <3>1, <3>2, <3>3, <3>4 DEF WindowInv
    <2> QED BY <1>13, <2>3, <2>4 DEF LoggedOut
<1>14. ASSUME NEW c \in Calls, Saved(c) PROVE WindowInv'
    <2> DEFINE new == [Asked("me") EXCEPT !.cookie = cookie]
    <2>1. new.kind = "me" /\ new.answer = "none" /\ new.cookie = cookie BY CallTypes, Asks
    <2>2. call' = [call EXCEPT ![c] = new] BY <1>14 DEF Saved, Reload
    <2> HIDE DEF new
    <2>3. UNCHANGED <<alive, cookie, user, loading, at, from, astray>> BY <1>14 DEF Saved
    <2>4. CASE astray BY <1>3, <2>3, <2>4
    <2>5. CASE ~astray BY <1>14, <2>1, <2>2, <2>3, <2>5, OneCall DEF Saved, Signed
    <2> QED BY <2>4, <2>5
<1>15. ASSUME NEW c \in Calls, Registered(c) \/ Refused(c) PROVE WindowInv'
    <2>1. /\ call' = [call EXCEPT ![c] = NoCall] /\ UNCHANGED <<alive, cookie, user, loading>>
          /\ call[c].kind \in {"login", "logout", "save", "register"}
          /\ ~astray' => ~astray /\ call[c].answer # "lost"
          /\ call[c].kind \in {"login", "logout"} => call[c].answer \in {"no", "lost"}
        <3>1. CASE Registered(c) BY <3>1 DEF Registered, Done, Route
        <3>2. CASE Refused(c) BY <3>2 DEF Refused, Done
        <3> QED BY <1>15, <3>1, <3>2
    <2>2. at' # (IF user' THEN "login" ELSE "members") \/ loading'
        <3>1. CASE Registered(c) BY <1>0, <2>1, <3>1, RouteSettles DEF Registered
        <3>2. CASE Refused(c) BY <2>1, <3>2 DEF Refused, WindowInv
        <3> QED BY <1>15, <3>1, <3>2
    <2>3. call'[c].kind = "none" /\ \A d \in Calls \ {c} : call'[d] = call[d] BY <1>0, <2>1
    <2>4. Signed' = Signed BY <2>1 DEF Signed
    <2>5. ~astray' => (Unsettled => Unsettled') BY <2>1, <2>3 DEF Unsettled
    <2>6. Asking => Asking' BY <2>1, <2>3 DEF Asking
    <2> QED BY <2>1, <2>2, <2>3, <2>4, <2>5, <2>6 DEF WindowInv
<1> QED BY <1>1, <1>2, <1>5, <1>6, <1>8, <1>9, <1>10, <1>11, <1>12, <1>13, <1>14, <1>15 DEF BrowserNext

LEMMA BrowserHolds == BrowserSpec => [](BrowserInv /\ WindowInv)
<1>1. BrowserInit => WindowInv
    <2> SUFFICES ASSUME BrowserInit PROVE WindowInv OBVIOUS
    <2>1. BrowserInv BY BrowserInitInv
    <2>2. PICK first \in Calls : call = [c \in Calls |-> IF c = first THEN Asked("me") ELSE NoCall]
        BY DEF BrowserInit
    <2>3. \A c \in Calls : call[c].kind = "me" => call[c].cookie = cookie /\ call[c].answer = "none"
        BY <2>1, <2>2, CallTypes
    <2> QED BY <2>3 DEF BrowserInit, WindowInv
<1> QED BY <1>1, BrowserInitInv, NextBrowserInv, NextWindow, PTL DEF BrowserSpec

(* Every part of the window's state keeps its type. *)
THEOREM BrowserTypeCorrect == BrowserSpec => []BrowserTypeOK
<1>1. BrowserInv => BrowserTypeOK BY DEF BrowserInv
<1> QED BY <1>1, BrowserHolds, PTL

(* With no request under way, the window takes for signed in who is, and is  *)
(* on a page for them, unless one of the four things that `astray' records  *)
(* has happened.                                                            *)
THEOREM SignInShown == BrowserSpec => []SignedInShown
<1>1. BrowserInv /\ WindowInv => SignedInShown
    <2> SUFFICES ASSUME BrowserInv, WindowInv, Still, ~loading, ~astray
                 PROVE  (user <=> Signed) /\ at # (IF user THEN "login" ELSE "members")
        BY DEF SignedInShown, Signed
    <2>1. \A c \in Calls : call[c].kind = "none" BY CallTypes DEF Still, Making
    <2>2. ~Unsettled /\ ~Asking BY <2>1 DEF Unsettled, Asking
    <2> QED BY <2>2 DEF WindowInv
<1> QED BY <1>1, BrowserHolds, PTL

-----------------------------------------------------------------------------
(* MemberList: who is in the room                                           *)

(* A handler that has the room to itself has read the members as they are    *)
(* when it is about to send them, and no list is on its way.  Once it has   *)
(* sent them, each page in the room shows them or is to be sent them.       *)
AloneListed ==
    \A h \in Workers : AtWork(h) /\ work[h].alone =>
        /\ \A g \in Workers \ {h} : ~AtWork(g)
        /\ \A u \in People : mail[u] = {}
        /\ work[h].pc = "send" \/ (work[h].pc = "out" /\ work[h].act # "ban")
              => work[h].read = members

ListInv ==
    /\ AloneListed
    /\ ~blurred => \A h \in Workers : AtWork(h) => work[h].alone
    /\ ~blurred /\ (\A h \in Workers : ~AtWork(h)) =>
         \A u \in InRoom : mail[u] \subseteq {members} /\ (mail[u] = {} => listed[u] = members)

LEMMA WorkTypes ==
    ASSUME MembersTypeOK, NEW h \in Workers
    PROVE  /\ AtWork(h) => work[h] \in Work
           /\ work[h].pc # "idle" => AtWork(h) /\ work[h] \in Work
BY DEF MembersTypeOK, AtWork, NoWork

(* A handler that begins. *)
LEMMA HandleStarts ==
    ASSUME MembersTypeOK, NEW act \in Acts, NEW u \in People, Handle(act, u)
    PROVE  \E h \in Workers :
             /\ ~AtWork(h) /\ work' \in [Workers -> Work \cup {NoWork}]
             /\ work'[h] \in Work /\ work'[h] # NoWork /\ work'[h].pc = "change"
             /\ work'[h].alone = Hushed /\ blurred' = (blurred \/ ~Hushed) /\ blurred' \in BOOLEAN
             /\ \A g \in Workers \ {h} : /\ work'[g] # NoWork <=> AtWork(g)
                                         /\ work'[g] # NoWork => ~work'[g].alone
<1>1. PICK h \in Workers :
        /\ ~AtWork(h)
        /\ work' = [g \in Workers |->
              IF g = h THEN [pc |-> "change", act |-> act, who |-> u, read |-> {}, alone |-> Hushed]
              ELSE IF AtWork(g) THEN [work[g] EXCEPT !.alone = FALSE] ELSE NoWork]
        /\ blurred' = (blurred \/ ~Hushed)
    BY DEF Handle
<1> DEFINE new == [pc |-> "change", act |-> act, who |-> u, read |-> {}, alone |-> Hushed]
<1>2. Hushed \in BOOLEAN BY DEF Hushed
<1>3. new \in Work /\ new.pc = "change" /\ new.alone = Hushed /\ new # NoWork
    BY <1>2 DEF Work, NoWork
<1>4. ASSUME NEW g \in Workers, AtWork(g)
      PROVE  /\ [work[g] EXCEPT !.alone = FALSE] \in Work
             /\ [work[g] EXCEPT !.alone = FALSE] # NoWork
             /\ ~[work[g] EXCEPT !.alone = FALSE].alone
    <2>1. work[g] \in Work BY <1>4, WorkTypes
    <2>2. \A w \in Work : [w EXCEPT !.alone = FALSE] \in Work /\ ~[w EXCEPT !.alone = FALSE].alone
        BY DEF Work
    <2>3. NoWork \notin Work
        BY DEF NoWork, Work
    <2> QED BY <2>1, <2>2, <2>3
<1> HIDE DEF new
<1>5. work' \in [Workers -> Work \cup {NoWork}] BY <1>1, <1>3, <1>4 DEF new
<1>6. work'[h] = new BY <1>1 DEF new
<1>7. ASSUME NEW g \in Workers \ {h}
      PROVE  /\ work'[g] # NoWork <=> AtWork(g)
             /\ work'[g] # NoWork => ~work'[g].alone
    BY <1>1, <1>4, <1>7
<1> QED BY <1>1, <1>3, <1>5, <1>6, <1>7 DEF MembersTypeOK

LEMMA CloseTypes ==
    ASSUME MembersTypeOK, NEW u \in People, CloseWindow(u)
    PROVE  /\ window' \in [People -> {"closed", "open", "in", "lost"}]
           /\ listed' \in [People -> SUBSET People]
           /\ mail' \in [People -> SUBSET SUBSET People]
           /\ InRoom' = InRoom \ {u}
           /\ \A v \in People \ {u} : mail'[v] = mail[v] /\ listed'[v] = listed[v]
           /\ mail'[u] = {}
BY DEF MembersTypeOK, CloseWindow, InRoom

(* What a handler does between its steps: the record it goes on with. *)
GoesOn(h, read, pc) ==
    /\ work' \in [Workers -> Work \cup {NoWork}]
    /\ work'[h] # NoWork /\ work'[h].pc = pc /\ work'[h].act = work[h].act
    /\ work'[h].who = work[h].who /\ work'[h].read = read /\ work'[h].alone = work[h].alone
    /\ \A g \in Workers \ {h} : work'[g] = work[g]

LEMMA WorkGoesOn ==
    ASSUME MembersTypeOK, NEW h \in Workers, work[h].pc # "idle", NEW read \in SUBSET People,
           NEW pc \in {"change", "read", "out", "send"},
           work' = [work EXCEPT ![h].read = read, ![h].pc = pc]
    PROVE  GoesOn(h, read, pc)
<1>1. work[h] \in Work /\ work \in [Workers -> Work \cup {NoWork}]
    BY WorkTypes DEF MembersTypeOK
<1> DEFINE new == [work[h] EXCEPT !.read = read, !.pc = pc]
<1>2. /\ new \in Work /\ new.pc = pc /\ new.act = work[h].act /\ new.who = work[h].who
      /\ new.read = read /\ new.alone = work[h].alone
    <2>1. \A w \in Work :
            /\ [w EXCEPT !.read = read, !.pc = pc] \in Work
            /\ [w EXCEPT !.read = read, !.pc = pc].pc = pc
            /\ [w EXCEPT !.read = read, !.pc = pc].act = w.act
            /\ [w EXCEPT !.read = read, !.pc = pc].who = w.who
            /\ [w EXCEPT !.read = read, !.pc = pc].read = read
            /\ [w EXCEPT !.read = read, !.pc = pc].alone = w.alone
        BY DEF Work
    <2> QED BY <1>1, <2>1
<1>3. NoWork \notin Work BY DEF NoWork, Work
<1>4. work' = [work EXCEPT ![h] = new] OBVIOUS
<1> HIDE DEF new
<1> QED BY <1>1, <1>2, <1>3, <1>4 DEF GoesOn

LEMMA WorkMovesOn ==
    ASSUME MembersTypeOK, NEW h \in Workers, work[h].pc # "idle",
           NEW pc \in {"change", "read", "out", "send"}, work' = [work EXCEPT ![h].pc = pc]
    PROVE  GoesOn(h, work[h].read, pc)
<1>1. work[h] \in Work BY WorkTypes
<1>2. work[h].read \in SUBSET People BY <1>1 DEF Work
<1>3. [work[h] EXCEPT !.pc = pc] = [work[h] EXCEPT !.read = work[h].read, !.pc = pc]
    BY <1>1 DEF Work
<1>4. work' = [work EXCEPT ![h].read = work[h].read, ![h].pc = pc] BY <1>3
<1> QED BY <1>2, <1>4, WorkGoesOn

LEMMA NextPcType ==
    ASSUME NEW act, NEW pc \in {"change", "read", "out"}
    PROVE  /\ NextPc(act, pc) \in {"read", "out", "send"}
           /\ NextPc(act, pc) = "send" => pc = "read" \/ (pc = "out" /\ act # "ban")
           /\ NextPc(act, pc) = "out" /\ act # "ban" => pc = "read"
BY DEF NextPc

LEMMA NextMembersType == MembersTypeOK /\ [MembersNext]_memberVars => MembersTypeOK'
<1> SUFFICES ASSUME MembersTypeOK, MembersNext PROVE MembersTypeOK'
    BY DEF memberVars, MembersTypeOK
<1> USE DEF MembersTypeOK
<1>1. ASSUME NEW act \in Acts, NEW u \in People, Handle(act, u)
      PROVE  work' \in [Workers -> Work \cup {NoWork}] /\ blurred' \in BOOLEAN
    BY <1>1, HandleStarts
<1>2. ASSUME NEW u \in People, JoinRoom(u) PROVE MembersTypeOK'
    BY <1>1, <1>2 DEF JoinRoom, Acts
<1>3. ASSUME NEW u \in People, LeaveRoom(u) PROVE MembersTypeOK'
    BY <1>1, <1>3 DEF LeaveRoom, Acts
<1>4. ASSUME NEW u \in People, Disconnect(u) PROVE MembersTypeOK'
    BY <1>1, <1>4, CloseTypes DEF Disconnect, Acts
<1>5. ASSUME NEW u \in People, Kick(u) PROVE MembersTypeOK'
    BY <1>1, <1>5 DEF Kick, Acts
<1>6. ASSUME NEW u \in People, Ban(u) PROVE MembersTypeOK'
    BY <1>1, <1>6 DEF Ban, Acts
<1>7. ASSUME NEW u \in People, LeaveAllRooms(u) PROVE MembersTypeOK'
    BY <1>1, <1>7 DEF LeaveAllRooms, Acts
<1>8. ASSUME NEW u \in People, Unban(u) \/ ReceiveMembers(u) PROVE MembersTypeOK'
    BY <1>8 DEF Unban, ReceiveMembers
<1>9. CASE OnModuleInit BY <1>9 DEF OnModuleInit
<1>10. ASSUME NEW h \in Workers, work[h].pc # "idle" PROVE work[h] \in Work /\ work[h].read \subseteq People
    <2>1. work[h] \in Work BY <1>10, WorkTypes
    <2> QED BY <2>1 DEF Work
<1>11. ASSUME NEW h \in Workers, Proceed(h), work[h].pc \in {"change", "read", "out"}
       PROVE  work' \in [Workers -> Work \cup {NoWork}]
    <2>1. NextPc(work[h].act, work[h].pc) \in {"read", "out", "send"} BY <1>11, NextPcType
    <2>2. work' = [work EXCEPT ![h].pc = NextPc(work[h].act, work[h].pc)] BY <1>11 DEF Proceed
    <2>3. GoesOn(h, work[h].read, NextPc(work[h].act, work[h].pc))
        BY <1>11, <2>1, <2>2, WorkMovesOn
    <2> QED BY <2>3 DEF GoesOn
<1>12. ASSUME NEW h \in Workers, Change(h) PROVE MembersTypeOK'
    <2>1. work[h].who \in People BY <1>10, <1>12 DEF Change, Work
    <2> QED BY <1>11, <1>12, <2>1 DEF Change
<1>13. ASSUME NEW h \in Workers, ReadMembers(h) PROVE MembersTypeOK'
    <2>1. NextPc(work[h].act, "read") \in {"read", "out", "send"} BY NextPcType
    <2>2. work' = [work EXCEPT ![h].read = members, ![h].pc = NextPc(work[h].act, "read")]
        BY <1>10, <1>13 DEF ReadMembers
    <2>3. work' \in [Workers -> Work \cup {NoWork}]
        <3>1. PICK pc \in {"change", "read", "out", "send"} :
                work' = [work EXCEPT ![h].read = members, ![h].pc = pc]
            BY <2>1, <2>2
        <3>2. members \in SUBSET People /\ work[h].pc # "idle" BY <1>13 DEF ReadMembers
        <3>3. GoesOn(h, members, pc) BY <3>1, <3>2, WorkGoesOn
        <3> QED BY <3>3 DEF GoesOn
    <2> QED BY <1>13, <2>3 DEF ReadMembers
<1>14. ASSUME NEW h \in Workers, PutOut(h) PROVE MembersTypeOK'
    <2>1. work[h].who \in People BY <1>10, <1>14 DEF PutOut, Work
    <2>2. work' \in [Workers -> Work \cup {NoWork}] BY <1>11, <1>14 DEF PutOut
    <2> QED BY <1>14, <2>1, <2>2, CloseTypes DEF PutOut
<1>15. ASSUME NEW h \in Workers, WorkFails(h) PROVE MembersTypeOK'
    <2>1. work[h].who \in People BY <1>10, <1>15 DEF WorkFails, Work
    <2> QED BY <1>15, <2>1, CloseTypes DEF WorkFails
<1>16. ASSUME NEW h \in Workers, SendMembers(h) PROVE MembersTypeOK'
    <2>1. work[h] \in Work BY <1>10, <1>16 DEF SendMembers
    <2>2. work[h].who \in People /\ work[h].read \subseteq People /\ work[h].alone \in BOOLEAN
        BY <2>1 DEF Work
    <2>3. Entered(h) \in [People -> {"closed", "open", "in", "lost"}] BY <2>2 DEF Entered
    <2>4. mail' \in [People -> SUBSET SUBSET People] BY <1>16, <2>2 DEF SendMembers
    <2> QED BY <1>16, <2>2, <2>3, <2>4 DEF SendMembers
<1> QED BY <1>2, <1>3, <1>4, <1>5, <1>6, <1>7, <1>8, <1>9, <1>12, <1>13, <1>14, <1>15, <1>16
        DEF MembersNext

(* A handler begins, on a list that has at most lost a window's mail. *)
LEMMA HandleList ==
    ASSUME MembersTypeOK, NEW act \in Acts, NEW u \in People, Handle(act, u), members' = members,
           \A v \in People : mail[v] = {} => mail'[v] = {}
    PROVE  ListInv'
<1>1. PICK h \in Workers :
        /\ ~AtWork(h) /\ work'[h] # NoWork /\ work'[h].pc = "change"
        /\ work'[h].alone = Hushed /\ blurred' = (blurred \/ ~Hushed)
        /\ \A g \in Workers \ {h} : /\ work'[g] # NoWork <=> AtWork(g)
                                    /\ work'[g] # NoWork => ~work'[g].alone
    BY HandleStarts
<1>2. Hushed => (\A g \in Workers : ~AtWork(g)) /\ \A v \in People : mail'[v] = {}
    BY DEF Hushed, NoMail
<1>3. AloneListed' BY <1>1, <1>2 DEF AloneListed, AtWork
<1>4. ~blurred' => \A g \in Workers : work'[g] # NoWork => work'[g].alone BY <1>1, <1>2
<1>5. ~ \A g \in Workers : work'[g] = NoWork BY <1>1
<1> QED BY <1>3, <1>4, <1>5 DEF ListInv, AtWork

(* A handler goes on: the others stay, and the members do unless it is to    *)
(* read them next.                                                          *)
LEMMA GoesOnList ==
    ASSUME MembersTypeOK, ListInv, NEW h \in Workers, AtWork(h), blurred' = blurred,
           work'[h] # NoWork, work'[h].alone = work[h].alone,
           \A g \in Workers \ {h} : work'[g] = work[g],
           \A v \in People : mail[v] = {} => mail'[v] = {},
           work[h].alone /\ (work'[h].pc = "send" \/ (work'[h].pc = "out" /\ work'[h].act # "ban"))
               => work'[h].read = members'
    PROVE  ListInv'
<1>1. ASSUME NEW g \in Workers, work'[g] # NoWork, work'[g].alone PROVE g = h /\ work[h].alone
    BY <1>1 DEF ListInv, AloneListed, AtWork
<1>2. AloneListed' BY <1>1 DEF ListInv, AloneListed, AtWork
<1>3. ~blurred' => \A g \in Workers : work'[g] # NoWork => work'[g].alone
    BY DEF ListInv, AtWork
<1> QED BY <1>2, <1>3 DEF ListInv, AtWork

LEMMA NextList == MembersTypeOK /\ ListInv /\ [MembersNext]_memberVars => ListInv'
<1> SUFFICES ASSUME MembersTypeOK, ListInv, MembersNext PROVE ListInv'
    BY DEF memberVars, ListInv, AloneListed, AtWork, InRoom
<1>1. ASSUME NEW u \in People,
             JoinRoom(u) \/ LeaveRoom(u) \/ Kick(u) \/ Ban(u) \/ LeaveAllRooms(u)
      PROVE  ListInv'
    <2>1. /\ \E act \in Acts : Handle(act, u)
          /\ members' = members /\ mail' = mail
        BY <1>1 DEF JoinRoom, LeaveRoom, Kick, Ban, LeaveAllRooms, Acts
    <2> QED BY <2>1, HandleList
<1>2. ASSUME NEW u \in People, Disconnect(u) PROVE ListInv'
    <2>1. /\ InRoom' = InRoom \ {u} /\ mail'[u] = {}
          /\ \A v \in People \ {u} : mail'[v] = mail[v] /\ listed'[v] = listed[v]
        BY <1>2, CloseTypes DEF Disconnect
    <2>2. CASE Handle("gone", u) BY <1>2, <2>1, <2>2, HandleList DEF Disconnect, Acts
    <2>3. CASE UNCHANGED <<work, blurred>>
        BY <1>2, <2>1, <2>3 DEF Disconnect, ListInv, AloneListed, AtWork, InRoom
    <2> QED BY <1>2, <2>2, <2>3 DEF Disconnect
<1>3. ASSUME NEW u \in People, Unban(u) PROVE ListInv'
    BY <1>3 DEF Unban, ListInv, AloneListed, AtWork, InRoom
<1>4. ASSUME NEW u \in People, ReceiveMembers(u) PROVE ListInv'
    <2>1. PICK list \in mail[u] :
            /\ listed' = [listed EXCEPT ![u] = list] /\ mail' = [mail EXCEPT ![u] = @ \ {list}]
        BY <1>4 DEF ReceiveMembers
    <2>2. UNCHANGED <<members, window, work, blurred>> BY <1>4 DEF ReceiveMembers
    <2>3. \A h \in Workers : ~(AtWork(h) /\ work[h].alone) BY <2>1 DEF ListInv, AloneListed
    <2>4. AloneListed' BY <2>2, <2>3 DEF AloneListed, AtWork
    <2>5. ASSUME ~blurred, \A h \in Workers : ~AtWork(h), NEW v \in InRoom
          PROVE  mail'[v] \subseteq {members} /\ (mail'[v] = {} => listed'[v] = members)
        <3>1. v \in People /\ mail[v] \subseteq {members} /\ (mail[v] = {} => listed[v] = members)
            BY <2>5 DEF ListInv, InRoom
        <3>2. CASE v = u BY <2>1, <3>1, <3>2 DEF MembersTypeOK
        <3>3. CASE v # u BY <2>1, <3>1, <3>3 DEF MembersTypeOK
        <3> QED BY <3>2, <3>3
    <2> QED BY <2>2, <2>3, <2>4, <2>5 DEF ListInv, AtWork, InRoom
<1>5. CASE OnModuleInit BY <1>5 DEF OnModuleInit, ListInv, AloneListed, AtWork
<1>6. ASSUME NEW h \in Workers, Proceed(h), work[h].pc \in {"change", "read", "out"}
      PROVE  /\ work'[h] # NoWork /\ work'[h].pc = NextPc(work[h].act, work[h].pc)
             /\ work'[h].act = work[h].act /\ work'[h].read = work[h].read
             /\ work'[h].alone = work[h].alone /\ AtWork(h)
             /\ \A g \in Workers \ {h} : work'[g] = work[g]
    <2>1. NextPc(work[h].act, work[h].pc) \in {"read", "out", "send"} BY <1>6, NextPcType
    <2>2. work' = [work EXCEPT ![h].pc = NextPc(work[h].act, work[h].pc)]
        BY <1>6 DEF Proceed, MembersTypeOK
    <2>3. AtWork(h) BY <1>6, WorkTypes
    <2>4. GoesOn(h, work[h].read, NextPc(work[h].act, work[h].pc))
        BY <1>6, <2>1, <2>2, WorkMovesOn
    <2> QED BY <2>3, <2>4 DEF GoesOn
<1>7. ASSUME NEW h \in Workers, Change(h) PROVE ListInv'
    <2>1. Proceed(h) /\ work[h].pc = "change" /\ UNCHANGED <<mail, blurred>> BY <1>7 DEF Change
    <2>2. ~(NextPc(work[h].act, "change") = "send")
          /\ ~(NextPc(work[h].act, "change") = "out" /\ work[h].act # "ban")
        BY NextPcType
    <2> QED BY <1>6, <2>1, <2>2, GoesOnList
<1>8. ASSUME NEW h \in Workers, ReadMembers(h) PROVE ListInv'
    <2>1. NextPc(work[h].act, "read") \in {"read", "out", "send"} BY NextPcType
    <2>2. work' = [work EXCEPT ![h].read = members, ![h].pc = NextPc(work[h].act, "read")]
        BY <1>8 DEF ReadMembers, MembersTypeOK
    <2>3. AtWork(h) BY <1>8, WorkTypes DEF ReadMembers
    <2>4. /\ work'[h] # NoWork /\ work'[h].read = members /\ work'[h].alone = work[h].alone
          /\ \A g \in Workers \ {h} : work'[g] = work[g]
        <3>1. members \in SUBSET People /\ work[h].pc # "idle" BY <1>8 DEF ReadMembers, MembersTypeOK
        <3>2. PICK pc \in {"change", "read", "out", "send"} :
                work' = [work EXCEPT ![h].read = members, ![h].pc = pc]
            BY <2>1, <2>2
        <3>3. GoesOn(h, members, pc) BY <3>1, <3>2, WorkGoesOn
        <3> QED BY <3>3 DEF GoesOn
    <2>5. UNCHANGED <<members, mail, blurred>> BY <1>8 DEF ReadMembers
    <2> QED BY <2>3, <2>4, <2>5, GoesOnList
<1>9. ASSUME NEW h \in Workers, PutOut(h) PROVE ListInv'
    <2>1. Proceed(h) /\ work[h].pc = "out" /\ UNCHANGED <<members, blurred>> BY <1>9 DEF PutOut
    <2>2. /\ NextPc(work[h].act, "out") = "send" => work[h].act # "ban"
          /\ ~(NextPc(work[h].act, "out") = "out" /\ work[h].act # "ban")
        BY NextPcType
    <2>3. work[h].who \in People BY <2>1, WorkTypes DEF Work
    <2>4. \A v \in People : mail[v] = {} => mail'[v] = {}
        BY <1>9, <2>3, CloseTypes DEF PutOut
    <2>5. work[h].alone /\ work[h].act # "ban" => work[h].read = members
        BY <1>6, <2>1 DEF ListInv, AloneListed
    <2> QED BY <1>6, <2>1, <2>2, <2>4, <2>5, GoesOnList
<1>10. ASSUME NEW h \in Workers, WorkFails(h) PROVE ListInv'
    <2>1. /\ blurred' /\ AtWork(h) /\ work' = [work EXCEPT ![h] = NoWork] /\ members' = members
        BY <1>10, WorkTypes DEF WorkFails
    <2>2. \A g \in Workers : work'[g] # NoWork => g # h /\ work'[g] = work[g] /\ AtWork(g)
        BY <2>1 DEF AtWork, MembersTypeOK
    <2>3. AloneListed' BY <2>1, <2>2 DEF AloneListed, AtWork, ListInv
    <2> QED BY <2>1, <2>3 DEF ListInv
<1>11. ASSUME NEW h \in Workers, SendMembers(h) PROVE ListInv'
    <2>1. /\ AtWork(h) /\ work[h] \in Work /\ work[h].pc = "send"
          /\ work' = [work EXCEPT ![h] = NoWork] /\ UNCHANGED <<members, listed>>
        BY <1>11, WorkTypes DEF SendMembers
    <2>2. \A g \in Workers : work'[g] # NoWork => g # h /\ work'[g] = work[g] /\ AtWork(g)
        BY <2>1 DEF AtWork, MembersTypeOK
    <2>3. \A g \in Workers : work'[g] # NoWork => ~work'[g].alone
        BY <2>1, <2>2 DEF ListInv, AloneListed
    <2>4. AloneListed' BY <2>3 DEF AloneListed, AtWork
    <2>5. CASE ~work[h].alone
        <3>1. blurred BY <2>1, <2>5 DEF ListInv
        <3>2. blurred' BY <1>11, <2>5, <3>1 DEF SendMembers
        <3> QED BY <2>4, <3>2 DEF ListInv
    <2>6. CASE work[h].alone
        <3>1. /\ work[h].read = members /\ \A v \in People : mail[v] = {}
              /\ \A g \in Workers \ {h} : ~AtWork(g)
            BY <2>1, <2>6 DEF ListInv, AloneListed
        <3>2. InRoom' = Receivers(h) BY <1>11 DEF SendMembers, InRoom, Receivers
        <3>3. \A v \in InRoom' : mail'[v] = {members}
            BY <1>11, <3>1, <3>2 DEF SendMembers, Receivers
        <3>4. \A g \in Workers : work'[g] = NoWork BY <2>2, <3>1
        <3> QED BY <2>1, <2>4, <3>3, <3>4 DEF ListInv, AtWork
    <2> QED BY <2>5, <2>6
<1> QED BY <1>1, <1>2, <1>3, <1>4, <1>5, <1>7, <1>8, <1>9, <1>10, <1>11 DEF MembersNext

LEMMA MembersInitInv == MembersInit => MembersTypeOK /\ ListInv
BY DEF MembersInit, MembersTypeOK, ListInv, AloneListed, AtWork, InRoom, NoMail, NoWork

(* Every part of the room's and the pages' state keeps its type. *)
THEOREM MembersTypeCorrect == MembersSpec => []MembersTypeOK
BY MembersInitInv, NextMembersType, PTL DEF MembersSpec

(* When nothing is under way every page in the room lists its members, from   *)
(* the first handler on that had the room to itself.                        *)
THEOREM MembersAreListed == MembersSpec => []MembersListed
<1>1. ListInv => MembersListed
    <2> SUFFICES ASSUME ListInv, Hushed, ~blurred, NEW u \in InRoom PROVE listed[u] = members
        BY DEF MembersListed
    <2>1. mail[u] = {} BY DEF Hushed, NoMail, InRoom
    <2> QED BY <2>1 DEF ListInv, Hushed
<1> QED BY <1>1, MembersInitInv, MembersTypeCorrect, NextMembersType, NextList, PTL DEF MembersSpec

-----------------------------------------------------------------------------
(* ChatView: the list of messages                                            *)

(* The position of an id in a set of ids, counted from 0.                    *)
Rank(S, m) == Cardinality({k \in S : k < m})

(* Ids are finitely many positive numbers.                                   *)
LEMMA IdsFinite ==
    ASSUME NEW S \in SUBSET Ids
    PROVE  /\ IsFiniteSet(S) /\ Cardinality(S) \in Nat
           /\ \A m \in S : m \in Nat \ {0} /\ m <= MaxPosted
<1>1. MaxPosted \in Nat BY QueriesAssumption
<1>2. IsFiniteSet(1..MaxPosted) BY <1>1, FS_Interval
<1>3. IsFiniteSet(S) BY <1>2, FS_Subset DEF Ids
<1>4. Cardinality(S) \in Nat BY <1>3, FS_CardinalityType
<1> QED BY <1>1, <1>3, <1>4 DEF Ids

(* Ranks grow with the ids, stay below the number of ids, and none is left   *)
(* out: a set of ids can be read as a sequence in their order.              *)
LEMMA RankGrows ==
    ASSUME NEW S \in SUBSET Ids, NEW m \in S, NEW n \in S, m < n
    PROVE  Rank(S, m) \in Nat /\ Rank(S, m) < Rank(S, n) /\ Rank(S, n) < Cardinality(S)
<1> DEFINE A == {k \in S : k < m}
           B == {k \in S : k < n}
<1>1. /\ IsFiniteSet(S) /\ IsFiniteSet(A) /\ IsFiniteSet(B)
      /\ Cardinality(S) \in Nat /\ Cardinality(A) \in Nat /\ Cardinality(B) \in Nat
    BY IdsFinite
<1>2. m \in Nat /\ n \in Nat /\ \A k \in S : k \in Nat BY IdsFinite
<1>3. /\ \A k \in S : k < m => k < n
      /\ ~(m < m) /\ ~(n < n)
    BY <1>2
<1>6. A \subseteq B /\ m \in B /\ m \notin A /\ B \subseteq S /\ n \notin B BY <1>3
<1> HIDE DEF A, B
<1>4. Cardinality(A) <= Cardinality(B) /\ Cardinality(A) # Cardinality(B)
    BY <1>1, <1>6, FS_Subset
<1>5. Cardinality(B) <= Cardinality(S) /\ Cardinality(B) # Cardinality(S)
    BY <1>1, <1>6, FS_Subset
<1> QED BY <1>1, <1>4, <1>5 DEF Rank, A, B

LEMMA RankBound ==
    ASSUME NEW S \in SUBSET Ids, NEW m \in S
    PROVE  Rank(S, m) \in 0..(Cardinality(S) - 1)
<1> DEFINE A == {k \in S : k < m}
<1>1. IsFiniteSet(S) /\ Cardinality(S) \in Nat /\ Cardinality(A) \in Nat /\ m \in Nat
    BY IdsFinite
<1>2. A \subseteq S /\ m \notin A BY <1>1
<1> HIDE DEF A
<1>3. Cardinality(A) <= Cardinality(S) /\ Cardinality(A) # Cardinality(S)
    BY <1>1, <1>2, FS_Subset
<1> QED BY <1>1, <1>3 DEF Rank, A

LEMMA RankExists ==
    ASSUME NEW S \in SUBSET Ids, NEW i \in 1..Cardinality(S)
    PROVE  \E m \in S : Rank(S, m) = i - 1
<1> DEFINE n == Cardinality(S)
           T == 0..(n - 1)
           f == [m \in S |-> Rank(S, m)]
<1>1. IsFiniteSet(S) /\ n \in Nat /\ S \subseteq Nat BY IdsFinite
<1>2. IsFiniteSet(T) /\ Cardinality(T) = n
    <2> HIDE DEF n
    <2>1. n - 1 \in Int /\ (0 > n - 1 => n = 0) BY <1>1
    <2>2. IsFiniteSet(T) /\ Cardinality(T) = IF 0 > n - 1 THEN 0 ELSE (n - 1) - 0 + 1
        BY <2>1, FS_Interval
    <2> QED BY <1>1, <2>1, <2>2
<1>3. f \in [S -> T] BY RankBound
<1>4. ASSUME NEW m \in S, NEW k \in S, f[m] = f[k] PROVE m = k
    <2>1. Rank(S, m) = Rank(S, k) BY <1>4
    <2>2. ~(m < k) BY <2>1, RankGrows
    <2>3. ~(k < m) BY <2>1, RankGrows
    <2> QED BY <1>1, <2>2, <2>3
<1> HIDE DEF f
<1>5. f \in Injection(S, T) BY <1>3, <1>4 DEF Injection, IsInjective
<1> HIDE DEF T
<1>6. f \in Surjection(S, T) BY <1>1, <1>2, <1>5, FS_Injection
<1>7. i - 1 \in T BY <1>1 DEF T
<1>8. PICK m \in S : f[m] = i - 1 BY <1>6, <1>7 DEF Surjection
<1> QED BY <1>8 DEF f

(* A page: the messages of a set in the order of their ids, each marked as   *)
(* the server has it.                                                       *)
LEMMA AscendingIs ==
    ASSUME NEW S \in SUBSET Ids
    PROVE  /\ Ascending(S) \in Seq(Ids) /\ Len(Ascending(S)) = Cardinality(S)
           /\ \A i \in 1..Cardinality(S) : Ascending(S)[i] \in S /\ Rank(S, Ascending(S)[i]) = i - 1
           /\ \A i, j \in 1..Cardinality(S) : i < j => Ascending(S)[i] < Ascending(S)[j]
           /\ \A m \in S : \E i \in 1..Cardinality(S) : Ascending(S)[i] = m
<1> DEFINE n == Cardinality(S)
           a == Ascending(S)
<1>1. n \in Nat /\ S \subseteq Nat BY IdsFinite
<1>2. a = [i \in 1..n |-> CHOOSE m \in S : Rank(S, m) = i - 1] BY DEF Ascending, Rank
<1>3. ASSUME NEW i \in 1..n PROVE a[i] \in S /\ Rank(S, a[i]) = i - 1
    <2>1. \E m \in S : Rank(S, m) = i - 1 BY RankExists
    <2>2. a[i] = CHOOSE m \in S : Rank(S, m) = i - 1 BY <1>2
    <2> QED BY <2>1, <2>2
<1>4. a \in Seq(Ids) /\ Len(a) = n
    <2>1. a \in [1..n -> Ids] BY <1>2, <1>3
    <2> HIDE DEF a, n
    <2> QED BY <1>1, <2>1
<1>5. ASSUME NEW i \in 1..n, NEW j \in 1..n, i < j PROVE a[i] < a[j]
    <2>1. a[i] \in S /\ a[j] \in S /\ Rank(S, a[i]) = i - 1 /\ Rank(S, a[j]) = j - 1 BY <1>3
    <2> HIDE DEF a, n
    <2>6. a[i] \in Nat /\ a[j] \in Nat BY <1>1, <2>1
    <2>7. i \in Nat /\ j \in Nat BY <1>1, <1>5
    <2>2. a[i] \in Nat /\ a[j] \in Nat /\ i \in Nat /\ j \in Nat BY <2>6, <2>7
    <2>3. a[i] # a[j] BY <1>5, <2>1, <2>2
    <2>4. ~(a[j] < a[i])
        <3>1. a[j] < a[i] => Rank(S, a[j]) < Rank(S, a[i]) BY <2>1, RankGrows
        <3> QED BY <1>5, <2>1, <2>2, <3>1
    <2> QED BY <2>2, <2>3, <2>4
<1>6. ASSUME NEW m \in S PROVE \E i \in 1..n : a[i] = m
    <2>1. Rank(S, m) \in 0..(n - 1) BY RankBound
    <2> DEFINE i == Rank(S, m) + 1
    <2>2. i \in 1..n /\ i - 1 = Rank(S, m)
        <3> HIDE DEF n
        <3> QED BY <1>1, <2>1
    <2>3. a[i] \in S /\ Rank(S, a[i]) = Rank(S, m) BY <1>3, <2>2
    <2> HIDE DEF i, a, n
    <2>4. a[i] \in Nat /\ m \in Nat BY <1>1, <2>3
    <2>5. a[i] < m => Rank(S, a[i]) < Rank(S, m) /\ Rank(S, a[i]) \in Nat /\ Rank(S, m) < Cardinality(S)
        BY <2>3, RankGrows
    <2>6. m < a[i] => Rank(S, m) < Rank(S, a[i]) BY <2>3, RankGrows
    <2>7. Rank(S, m) \in Nat BY <1>1, <2>1
    <2>8. ~(a[i] < m) /\ ~(m < a[i]) BY <2>3, <2>5, <2>6, <2>7
    <2> QED BY <2>2, <2>4, <2>8
<1> HIDE DEF a, n
<1> QED BY <1>3, <1>4, <1>5, <1>6 DEF a, n

(* The order of the list, and what a page of the server's messages is.       *)
Asc(s) == \A i, j \in 1..Len(s) : i < j => s[i].id < s[j].id

IsPage(s, S) ==
    /\ s \in Seq(Entry) /\ Asc(s)
    /\ \A i \in 1..Len(s) : s[i].id \in S /\ (s[i].del <=> s[i].id \in deleted)

(* Each of the queries answers with such a page.                             *)
LEMMA EntriesAre ==
    ASSUME NEW S \in SUBSET Ids
    PROVE  /\ IsPage(Entries(S), S)
           /\ Len(Entries(S)) = Cardinality(S)
           /\ \A m \in S : \E i \in 1..Len(Entries(S)) : Entries(S)[i].id = m
<1> DEFINE n == Cardinality(S)
           e == Entries(S)
<1>1. n \in Nat BY IdsFinite
<1>2. e = [i \in 1..n |-> [id |-> Ascending(S)[i], del |-> Ascending(S)[i] \in deleted]]
    BY DEF Entries
<1> HIDE DEF n, e
<1>3. ASSUME NEW i \in 1..n
      PROVE  /\ e[i] \in Entry /\ e[i].id = Ascending(S)[i] /\ e[i].id \in S
             /\ e[i].del <=> Ascending(S)[i] \in deleted
    <2>1. Ascending(S)[i] \in S /\ Ascending(S)[i] \in Ids BY AscendingIs DEF n
    <2>2. e[i] = [id |-> Ascending(S)[i], del |-> Ascending(S)[i] \in deleted] BY <1>2
    <2> DEFINE b == Ascending(S)[i] \in deleted
    <2>5. b \in BOOLEAN OBVIOUS
    <2> HIDE DEF b
    <2>6. e[i] = [id |-> Ascending(S)[i], del |-> b] BY <2>2 DEF b
    <2>7. e[i].del = b BY <2>6
    <2>3. e[i].del <=> Ascending(S)[i] \in deleted BY <2>5, <2>7 DEF b
    <2>4. e[i].id = Ascending(S)[i] /\ e[i] \in Entry BY <2>1, <2>5, <2>6 DEF Entry
    <2> QED BY <2>1, <2>3, <2>4
<1>4. e \in Seq(Entry) /\ Len(e) = n BY <1>1, <1>2, <1>3
<1>5. ASSUME NEW i \in 1..n, NEW j \in 1..n, i < j PROVE e[i].id < e[j].id
    <2>1. Ascending(S)[i] < Ascending(S)[j] BY <1>5, AscendingIs DEF n
    <2> QED BY <1>3, <2>1
<1>6. Asc(e) BY <1>4, <1>5 DEF Asc
<1>7. ASSUME NEW m \in S PROVE \E i \in 1..n : e[i].id = m
    <2>1. PICK i \in 1..n : Ascending(S)[i] = m BY AscendingIs DEF n
    <2> QED BY <1>3, <2>1
<1>8. IsPage(e, S) BY <1>3, <1>4, <1>6 DEF IsPage
<1> QED BY <1>4, <1>7, <1>8 DEF e, n

(* The types of the server's variables.                                      *)
StoreOK ==
    /\ posted \in 0..MaxPosted /\ stored \in 0..posted /\ trimmed \in 0..posted
    /\ deleted \subseteq Ids

LEMMA PagesAre ==
    ASSUME StoreOK
    PROVE  /\ IsPage(FirstPage, 1..posted)
           /\ \A c : /\ IsPage(Before(c), {m \in 1..posted : m < c})
                     /\ IsPage(Recent(c), {m \in 1..posted : m > c})
                     /\ IsPage(AroundBefore(c), {m \in 1..posted : m < c})
                     /\ IsPage(AroundFrom(c), {m \in 1..posted : m >= c})
<1>1. Rows \subseteq 1..posted /\ 1..posted \subseteq Ids /\ Cached \subseteq 1..posted
    BY QueriesAssumption DEF StoreOK, Rows, Ids, Cached, Newest
<1>2. ASSUME NEW S, NEW T, S \subseteq T, T \subseteq Ids PROVE IsPage(Entries(S), T)
    <2>1. IsPage(Entries(S), S) BY <1>2, EntriesAre
    <2> QED BY <1>2, <2>1 DEF IsPage
<1> HIDE DEF IsPage
<1>3. IsPage(FirstPage, 1..posted)
    <2>1. Oldest(Rows, PageSize) \subseteq 1..posted BY <1>1 DEF Oldest
    <2> QED BY <1>1, <1>2, <2>1 DEF FirstPage
<1>4. ASSUME NEW c PROVE IsPage(Before(c), {m \in 1..posted : m < c})
    <2>1. Newest({m \in Rows : m < c}, PageSize) \subseteq {m \in 1..posted : m < c} BY <1>1 DEF Newest
    <2> QED BY <1>1, <1>2, <2>1 DEF Before
<1>5. ASSUME NEW c PROVE IsPage(Recent(c), {m \in 1..posted : m > c})
    <2>1. Oldest({m \in Rows : m > c}, PageSize) \subseteq {m \in 1..posted : m > c} BY <1>1 DEF Oldest
    <2> QED BY <1>1, <1>2, <2>1 DEF Recent
<1>6. ASSUME NEW c PROVE IsPage(AroundBefore(c), {m \in 1..posted : m < c})
    <2>1. Newest({m \in Rows : m < c}, HalfSize) \subseteq {m \in 1..posted : m < c} BY <1>1 DEF Newest
    <2> QED BY <1>1, <1>2, <2>1 DEF AroundBefore
<1>7. ASSUME NEW c PROVE IsPage(AroundFrom(c), {m \in 1..posted : m >= c})
    <2>1. Oldest({m \in Rows : m >= c}, HalfSize) \subseteq {m \in 1..posted : m >= c} BY <1>1 DEF Oldest
    <2> QED BY <1>1, <1>2, <2>1 DEF AroundFrom
<1> QED BY <1>3, <1>4, <1>5, <1>6, <1>7

-----------------------------------------------------------------------------
LEMMA LargerOfTwo ==
    ASSUME NEW a \in Nat, NEW b \in Nat
    PROVE  Max({a, b}) \in {a, b} /\ a <= Max({a, b}) /\ b <= Max({a, b})
<1>1. \E x \in {a, b} : \A y \in {a, b} : y <= x
    <2>1. CASE a <= b BY <2>1
    <2>2. CASE ~(a <= b) BY <2>2
    <2> QED BY <2>1, <2>2
<1> DEFINE x == CHOOSE x \in {a, b} : \A y \in {a, b} : y <= x
<1>2. Max({a, b}) = x BY DEF Max
<1>3. x \in {a, b} /\ \A y \in {a, b} : y <= x BY <1>1
<1> QED BY <1>2, <1>3

(* slice(-200): the end of the list, all of it or not. *)
LEMMA TheLastIs ==
    ASSUME NEW E, NEW s \in Seq(E)
    PROVE  /\ TheLast(s) \in Seq(E)
           /\ \E d \in 0..Len(s) :
                /\ s # <<>> => d < Len(s)
                /\ Len(TheLast(s)) = Len(s) - d
                /\ \A i \in 1..(Len(s) - d) : TheLast(s)[i] = s[i + d]
<1>0. ViewLimit \in Nat \ {0} BY ViewAssumption
<1>1. CASE Len(s) <= ViewLimit
    <2>1. TheLast(s) = s BY <1>1 DEF TheLast
    <2>2. 0 \in 0..Len(s) /\ (s # <<>> => 0 < Len(s)) OBVIOUS
    <2> QED BY <2>1, <2>2
<1>2. CASE ~(Len(s) <= ViewLimit)
    <2> DEFINE d == Len(s) - ViewLimit
               t == TheLast(s)
    <2>1. d \in 0..Len(s) /\ d < Len(s) /\ Len(s) \in Nat BY <1>0, <1>2
    <2>2. t = SubSeq(s, d + 1, Len(s)) BY <1>2 DEF TheLast
    <2> HIDE DEF d, t
    <2>3. t = [i \in 1..(Len(s) - d) |-> s[i + d]] BY <2>1, <2>2
    <2>4. \A i \in 1..(Len(s) - d) : i + d \in 1..Len(s) BY <2>1
    <2>5. \A i \in 1..(Len(s) - d) : s[i + d] \in E BY <2>4
    <2>6. t \in Seq(E) /\ Len(t) = Len(s) - d BY <2>1, <2>3, <2>5
    <2>7. \A i \in 1..(Len(s) - d) : t[i] = s[i + d] BY <2>3
    <2> QED BY <2>1, <2>6, <2>7 DEF t
<1> QED BY <1>1, <1>2

LEMMA LastIdIs ==
    ASSUME NEW s \in Seq(Entry)
    PROVE  LastId(s) \in 0..MaxPosted
<1>1. MaxPosted \in Nat BY QueriesAssumption
<1>2. CASE s = <<>> BY <1>1, <1>2 DEF LastId
<1>3. CASE s # <<>>
    <2>1. s[Len(s)] \in Entry BY <1>3
    <2> QED BY <1>1, <1>3, <2>1 DEF LastId, Entry, Ids
<1> QED BY <1>2, <1>3

(* What a step may write into the history. *)
Changes(p, q) ==
    /\ q \in Past
    /\ p.crossed => q.crossed
    /\ p.gap => q.gap
    /\ p.jumped => q.jumped
    /\ p.late \subseteq q.late

LEMMA LateGrows ==
    ASSUME NEW p \in Past, NEW L \in SUBSET Ids
    PROVE  Changes(p, [p EXCEPT !.late = @ \cup L])
<1> DEFINE l == p.late \cup L
<1>1. l \in SUBSET Ids /\ p.late \subseteq l BY DEF Past
<1> HIDE DEF l
<1>2. Changes(p, [p EXCEPT !.late = l]) BY <1>1 DEF Past, Changes
<1> QED BY <1>2 DEF l

LEMMA PastGrows ==
    ASSUME NEW p \in Past, NEW b \in BOOLEAN, NEW c \in BOOLEAN, NEW L \in SUBSET Ids
    PROVE  /\ Changes(p, [p EXCEPT !.gap = @ \/ b])
           /\ Changes(p, [p EXCEPT !.crossed = @ \/ b, !.gap = @ \/ c])
           /\ Changes(p, [p EXCEPT !.gap = @ \/ b, !.late = @ \cup L])
           /\ \A d \in BOOLEAN :
                Changes(p, [p EXCEPT !.crossed = @ \/ b, !.gap = @ \/ c, !.jumped = @ \/ d])
<1>1. p.crossed \in BOOLEAN /\ p.gap \in BOOLEAN /\ p.jumped \in BOOLEAN /\ p.late \in SUBSET Ids
    BY DEF Past
<1> DEFINE g == p.gap \/ b
           k == p.gap \/ c
           x == p.crossed \/ b
           l == p.late \cup L
<1>2. /\ g \in BOOLEAN /\ k \in BOOLEAN /\ x \in BOOLEAN /\ l \in SUBSET Ids
      /\ (p.gap => g) /\ (p.gap => k) /\ (p.crossed => x) /\ p.late \subseteq l
    BY <1>1
<1> HIDE DEF g, k, x, l
<1>3. Changes(p, [p EXCEPT !.gap = g]) BY <1>2 DEF Past, Changes
<1>6. Changes(p, [p EXCEPT !.crossed = x, !.gap = k]) BY <1>2 DEF Past, Changes
<1>7. Changes(p, [p EXCEPT !.gap = g, !.late = l]) BY <1>2 DEF Past, Changes
<1>8. ASSUME NEW d \in BOOLEAN
      PROVE  Changes(p, [p EXCEPT !.crossed = x, !.gap = k, !.jumped = @ \/ d])
    <2> DEFINE j == p.jumped \/ d
    <2>1. j \in BOOLEAN /\ (p.jumped => j) BY <1>1
    <2> HIDE DEF j
    <2>2. Changes(p, [p EXCEPT !.crossed = x, !.gap = k, !.jumped = j])
        BY <1>2, <2>1 DEF Past, Changes
    <2> QED BY <2>2 DEF j
<1> QED BY <1>3, <1>6, <1>7, <1>8 DEF g, k, x, l

(* What showing a list does to the types and the history.                    *)
LEMMA ShowTypes ==
    ASSUME NEW v \in Seq(Entry), NEW t \in 0..MaxPosted, NEW after \in Past, Show(v, t, after)
    PROVE  /\ view' = v /\ view' \in Seq(Entry) /\ top' \in 0..MaxPosted
           /\ Changes(after, past')
           /\ past'.late = after.late
           /\ past'.crossed <=> after.crossed
           /\ past'.gap <=> after.gap
           /\ past'.jumped <=> after.jumped
<1> DEFINE n == LastId(v)
           s == Max({after.seen, n})
<1>1. n \in 0..MaxPosted /\ after.seen \in 0..MaxPosted BY LastIdIs DEF Past
<1>2. MaxPosted \in Nat BY QueriesAssumption
<1>3. s \in 0..MaxPosted
    <2> HIDE DEF n
    <2> QED BY <1>1, <1>2, LargerOfTwo
<1>4. Max({t, n}) \in 0..MaxPosted
    <2> HIDE DEF n
    <2> QED BY <1>1, <1>2, LargerOfTwo
<1>5. past' = [after EXCEPT !.seen = s] BY DEF Show
<1> HIDE DEF n, s
<1>6. /\ past'.crossed = after.crossed /\ past'.gap = after.gap /\ past'.jumped = after.jumped
      /\ past'.late = after.late /\ past' \in Past
    BY <1>3, <1>5 DEF Past
<1> QED BY <1>4, <1>6 DEF Show, Changes, n

ViewIdle == UNCHANGED <<view, top, load, joined, lost>>

LEMMA EventTypes ==
    ASSUME ViewTypeOK, NEW m \in Ids, NEW k \in {"create", "delete"}
    PROVE  /\ Append(wire, [what |-> k, id |-> m]) \in Seq(Event)
           /\ wire # <<>> => Head(wire) \in Event /\ Tail(wire) \in Seq(Event)
<1>1. [what |-> k, id |-> m] \in Event BY DEF Event
<1> QED BY <1>1 DEF ViewTypeOK

(* Which of the store's variables a step moves. *)
LEMMA StoreSteps ==
    ASSUME StoreOK
    PROVE  /\ Post => StoreOK' /\ posted' \in Ids /\ posted' = posted + 1
           /\ Flush => StoreOK'
           /\ \A m \in Ids : Delete(m) => StoreOK' /\ m <= posted
<1>1. MaxPosted \in Nat /\ Deletable \subseteq Ids BY QueriesAssumption DEF Ids
<1>2. ASSUME Post PROVE StoreOK' /\ posted' \in Ids /\ posted' = posted + 1
    BY <1>1, <1>2 DEF Post, StoreOK, Ids
<1>3. ASSUME Flush PROVE StoreOK' BY <1>1, <1>3 DEF Flush, StoreOK
<1>4. ASSUME NEW m \in Ids, Delete(m) PROVE StoreOK' /\ m <= posted
    BY <1>1, <1>4 DEF Delete, StoreOK, Ids
<1> QED BY <1>2, <1>3, <1>4

LEMMA LoadTypes ==
    ASSUME NEW l \in Loads, NEW c \in 0..MaxPosted, NEW p \in Seq(Entry)
    PROVE  /\ NoLoad \in Loads
           /\ \A k \in {"init", "before", "recent", "context"} : Request(k, c) \in Loads
           /\ [l EXCEPT !.kind = "around", !.page = p] \in Loads
           /\ [l EXCEPT !.answered = TRUE, !.page = p] \in Loads
           /\ l.page \in Seq(Entry) /\ l.at \in 0..MaxPosted
<1>1. MaxPosted \in Nat BY QueriesAssumption
<1>2. NoLoad \in Loads BY <1>1 DEF NoLoad, Loads
<1>3. ASSUME NEW k \in {"init", "before", "recent", "context"} PROVE Request(k, c) \in Loads
    BY <1>3 DEF Request, Loads
<1>4. [l EXCEPT !.kind = "around", !.page = p] \in Loads BY DEF Loads
<1>5. [l EXCEPT !.answered = TRUE, !.page = p] \in Loads BY DEF Loads
<1>6. l.page \in Seq(Entry) /\ l.at \in 0..MaxPosted BY DEF Loads
<1> QED BY <1>2, <1>3, <1>4, <1>5, <1>6

LEMMA MarkIs ==
    ASSUME NEW v \in Seq(Entry), NEW m
    PROVE  /\ Mark(v, m) \in Seq(Entry) /\ Len(Mark(v, m)) = Len(v)
           /\ \A i \in 1..Len(v) : /\ Mark(v, m)[i].id = v[i].id
                                   /\ Mark(v, m)[i].del <=> v[i].del \/ v[i].id = m
<1> DEFINE w == Mark(v, m)
<1>1. w = [i \in 1..Len(v) |-> [v[i] EXCEPT !.del = @ \/ v[i].id = m]] BY DEF Mark
<1>2. ASSUME NEW i \in 1..Len(v)
      PROVE  w[i] \in Entry /\ w[i].id = v[i].id /\ (w[i].del <=> v[i].del \/ v[i].id = m)
    <2> DEFINE b == v[i].del \/ v[i].id = m
    <2>0. v[i] \in Entry OBVIOUS
    <2>1. v[i] \in Entry /\ v[i].del \in BOOLEAN BY <2>0 DEF Entry
    <2>2. b \in BOOLEAN OBVIOUS
    <2>3. w[i] = [v[i] EXCEPT !.del = b] BY <1>1
    <2> HIDE DEF b, w
    <2>4. w[i] \in Entry /\ w[i].id = v[i].id /\ w[i].del = b BY <2>1, <2>2, <2>3 DEF Entry
    <2> QED BY <2>4 DEF b
<1> HIDE DEF w
<1>3. w \in Seq(Entry) /\ Len(w) = Len(v)
    <2>1. w = [i \in 1..Len(v) |-> w[i]] BY <1>1
    <2> QED BY <1>2, <2>1
<1> QED BY <1>2, <1>3 DEF w

(* The request with its answer.                                              *)
AnswerOf(p) ==
    /\ p \in Seq(Entry)
    /\ load.kind \in {"init", "before", "recent", "around"}
    /\ load.kind = "init" => IsPage(p, 1..posted)
    /\ load.kind = "before" => IsPage(p, {m \in 1..posted : m < load.at})
    /\ load.kind = "recent" => IsPage(p, {m \in 1..posted : m > load.at})
    /\ load.kind = "around" =>
         \E q : p = load.page \o q /\ IsPage(q, {m \in 1..posted : m >= load.at})

LEMMA AnswerIs ==
    ASSUME ViewTypeOK, Answer
    PROVE  \E p : load' = [load EXCEPT !.answered = TRUE, !.page = p] /\ AnswerOf(p)
<1> DEFINE near == load.at
           p == CASE load.kind = "init"   -> FirstPage
                  [] load.kind = "before" -> Before(near)
                  [] load.kind = "recent" -> Recent(near)
                  [] load.kind = "around" -> load.page \o AroundFrom(near)
<1>1. load.kind \in {"init", "before", "recent", "around"} BY DEF Answer
<1>2. load' = [load EXCEPT !.answered = TRUE, !.page = p] BY DEF Answer
<1>3. StoreOK /\ load.page \in Seq(Entry) BY LoadTypes DEF ViewTypeOK, StoreOK, Loads
<1> HIDE DEF near
<1>4. CASE load.kind = "init"
    <2>1. p = FirstPage BY <1>4
    <2>2. IsPage(p, 1..posted) BY <1>3, <2>1, PagesAre
    <2> QED BY <1>1, <1>2, <1>4, <2>2 DEF AnswerOf, IsPage
<1>5. CASE load.kind = "before"
    <2>1. p = Before(near) BY <1>5
    <2>2. IsPage(p, {m \in 1..posted : m < near}) BY <1>3, <2>1, PagesAre
    <2> QED BY <1>1, <1>2, <1>5, <2>2 DEF AnswerOf, IsPage, near
<1>6. CASE load.kind = "recent"
    <2>1. p = Recent(near) BY <1>6
    <2>2. IsPage(p, {m \in 1..posted : m > near}) BY <1>3, <2>1, PagesAre
    <2> QED BY <1>1, <1>2, <1>6, <2>2 DEF AnswerOf, IsPage, near
<1>7. CASE load.kind = "around"
    <2>1. p = load.page \o AroundFrom(near) BY <1>7
    <2>2. IsPage(AroundFrom(near), {m \in 1..posted : m >= near}) BY <1>3, PagesAre
    <2> HIDE DEF p
    <2>5. AroundFrom(near) \in Seq(Entry) BY <2>2 DEF IsPage
    <2>3. p \in Seq(Entry) BY <1>3, <2>1, <2>5
    <2>4. AnswerOf(p) BY <1>7, <2>1, <2>2, <2>3 DEF AnswerOf, near
    <2> QED BY <1>2, <2>4
<1> QED BY <1>1, <1>4, <1>5, <1>6, <1>7

LEMMA MergedType ==
    ASSUME NEW E, view \in Seq(E), NEW p \in Seq(E), NEW k
    PROVE  Merged(k, p) \in Seq(E)
<1>1. view \o p \in Seq(E) /\ p \o view \in Seq(E) OBVIOUS
<1>2. TheLast(view \o p) \in Seq(E) BY <1>1, TheLastIs
<1> QED BY <1>1, <1>2 DEF Merged

(* Every step keeps the types, and forgets nothing of the history.           *)
LEMMA ViewStepTypes ==
    ASSUME ViewTypeOK, ClientNext
    PROVE  ViewTypeOK' /\ Changes(past, past')
<1>0. /\ StoreOK /\ past \in Past /\ Changes(past, past) /\ MaxPosted \in Nat
      /\ view \in Seq(Entry) /\ top \in 0..MaxPosted /\ load \in Loads /\ wire \in Seq(Event)
      /\ past.jumped \in BOOLEAN /\ Loading \in BOOLEAN
      /\ joined \in BOOLEAN /\ lost \in 0..MaxLost
    BY QueriesAssumption DEF ViewTypeOK, StoreOK, Changes, Past, Loading
<1>s. ASSUME UNCHANGED store PROVE StoreOK' BY <1>0, <1>s DEF store, StoreOK
<1>t. ASSUME StoreOK', view' \in Seq(Entry), top' \in 0..MaxPosted, load' \in Loads,
             joined' \in BOOLEAN, wire' \in Seq(Event), lost' \in 0..MaxLost,
             Changes(past, past')
      PROVE  ViewTypeOK' /\ Changes(past, past')
    BY <1>t DEF ViewTypeOK, StoreOK, Changes
<1>1. CASE PostAndEmit
    <2>1. StoreOK' /\ posted' \in Ids BY <1>0, <1>1, StoreSteps DEF PostAndEmit
    <2>2. wire' \in Seq(Event) BY <1>0, <1>1, <2>1, EventTypes DEF PostAndEmit
    <2>3. Changes(past, past') BY <1>0, <1>1, PastGrows DEF PostAndEmit
    <2>4. UNCHANGED <<view, top, load, joined, lost>> BY <1>1 DEF PostAndEmit
    <2> QED BY <1>0, <1>t, <2>1, <2>2, <2>3, <2>4
<1>2. CASE DeleteAndEmit
    <2>1. PICK m \in Ids :
            /\ Delete(m)
            /\ wire' = IF joined THEN Append(wire, [what |-> "delete", id |-> m]) ELSE wire
            /\ past' = [past EXCEPT !.late = IF joined THEN @ ELSE @ \cup {m}]
            /\ UNCHANGED <<view, top, load, joined, lost>>
        BY <1>2 DEF DeleteAndEmit
    <2>2. StoreOK' BY <1>0, <2>1, StoreSteps
    <2>3. wire' \in Seq(Event) BY <1>0, <2>1, EventTypes
    <2>4. Changes(past, past')
        <3>1. CASE joined
            <4>1. past' = past BY <1>0, <2>1, <3>1 DEF Past
            <4> QED BY <1>0, <4>1
        <3>2. CASE ~joined
            <4>1. past' = [past EXCEPT !.late = @ \cup {m}] BY <2>1, <3>2
            <4>2. {m} \in SUBSET Ids OBVIOUS
            <4> QED BY <1>0, <4>1, <4>2, LateGrows
        <3> QED BY <3>1, <3>2
    <2> QED BY <1>0, <1>t, <2>1, <2>2, <2>3, <2>4
<1>3. CASE FlushOnly
    <2>1. StoreOK' BY <1>0, <1>3, StoreSteps DEF FlushOnly
    <2>2. UNCHANGED <<view, top, load, joined, wire, lost, past>> BY <1>3 DEF FlushOnly, client
    <2> QED BY <1>0, <1>t, <2>1, <2>2
<1>4. CASE Join
    <2>1. joined' = TRUE /\ UNCHANGED <<store, view, top, load, wire, lost, past>> BY <1>4 DEF Join
    <2>2. StoreOK' BY <1>s, <2>1
    <2> QED BY <1>0, <1>t, <2>1, <2>2
<1>5. CASE LoseConnection
    <2> DEFINE b == \E i \in DOMAIN wire : wire[i].what = "create"
               L == {wire[i].id : i \in DOMAIN wire}
    <2>1. past' = [past EXCEPT !.gap = @ \/ b, !.late = @ \cup L] BY <1>5 DEF LoseConnection
    <2>2. b \in BOOLEAN /\ L \in SUBSET Ids
        <3>1. \A i \in DOMAIN wire : wire[i] \in Event BY <1>0
        <3> QED BY <3>1 DEF Event
    <2> HIDE DEF b, L
    <2>3. Changes(past, past') BY <1>0, <2>1, <2>2, PastGrows
    <2>4. lost' \in 0..MaxLost BY <1>0, <1>5, ViewAssumption DEF LoseConnection
    <2>5. wire' = <<>> /\ joined' = FALSE /\ UNCHANGED <<store, view, top, load>>
        BY <1>5 DEF LoseConnection
    <2>6. wire' \in Seq(Event) /\ StoreOK' BY <1>s, <2>5
    <2> QED BY <1>0, <1>t, <2>3, <2>4, <2>5, <2>6
<1>6. CASE ReceiveMessage
    <2> DEFINE v == TheLast(Append(view, Live(Head(wire).id)))
               b == Loading
               c == past.jumped
               after == [past EXCEPT !.crossed = @ \/ b, !.gap = @ \/ c]
    <2>1. Show(v, top, after) BY <1>6 DEF ReceiveMessage
    <2>2. Head(wire).id \in Ids /\ wire' \in Seq(Event)
        <3>1. Head(wire) \in Event BY <1>0, <1>6, EventTypes DEF ReceiveMessage
        <3> QED BY <1>0, <1>6, <3>1, EventTypes DEF ReceiveMessage, Event
    <2>3. v \in Seq(Entry)
        <3>1. Live(Head(wire).id) \in Entry BY <2>2 DEF Live, Entry
        <3>2. Append(view, Live(Head(wire).id)) \in Seq(Entry) BY <1>0, <3>1
        <3> QED BY <3>2, TheLastIs
    <2>4. b \in BOOLEAN /\ c \in BOOLEAN BY <1>0
    <2> HIDE DEF b, c, v
    <2>5. Changes(past, after) BY <1>0, <2>4, PastGrows
    <2> HIDE DEF after
    <2>6. view' \in Seq(Entry) /\ top' \in 0..MaxPosted /\ Changes(after, past')
        BY <1>0, <2>1, <2>3, <2>5, ShowTypes DEF Changes
    <2>7. UNCHANGED <<store, load, joined, lost>> BY <1>6 DEF ReceiveMessage
    <2>8. StoreOK' BY <1>s, <2>7
    <2>9. Changes(past, past') BY <2>5, <2>6 DEF Changes
    <2> QED BY <1>0, <1>t, <2>2, <2>6, <2>7, <2>8, <2>9
<1>7. CASE ReceiveDeletion
    <2> DEFINE m == Head(wire).id
               after == [past EXCEPT !.late = IF Loading THEN @ \cup {m} ELSE @]
    <2>1. Show(Mark(view, m), top, after) BY <1>7 DEF ReceiveDeletion
    <2>2. m \in Ids /\ wire' \in Seq(Event)
        <3>1. Head(wire) \in Event BY <1>0, <1>7, EventTypes DEF ReceiveDeletion
        <3> QED BY <1>0, <1>7, <3>1, EventTypes DEF ReceiveDeletion, Event
    <2>3. Mark(view, m) \in Seq(Entry) BY <1>0, MarkIs
    <2> HIDE DEF m
    <2>4. Changes(past, after)
        <3>1. CASE ~Loading
            <4>1. after = past BY <1>0, <3>1 DEF Past
            <4> QED BY <1>0, <4>1
        <3>2. CASE Loading
            <4>1. after = [past EXCEPT !.late = @ \cup {m}] BY <3>2
            <4>2. {m} \in SUBSET Ids BY <2>2
            <4> HIDE DEF after
            <4> QED BY <1>0, <4>1, <4>2, LateGrows
        <3> QED BY <3>1, <3>2
    <2> HIDE DEF after
    <2>5. view' \in Seq(Entry) /\ top' \in 0..MaxPosted /\ Changes(after, past')
        BY <1>0, <2>1, <2>3, <2>4, ShowTypes DEF Changes
    <2>6. UNCHANGED <<store, load, joined, lost>> BY <1>7 DEF ReceiveDeletion
    <2>7. StoreOK' BY <1>s, <2>6
    <2>8. Changes(past, past') BY <2>4, <2>5 DEF Changes
    <2> QED BY <1>0, <1>t, <2>2, <2>5, <2>6, <2>7, <2>8
<1>8. CASE ScrollUp
    <2>1. view[1].id \in 0..MaxPosted
        <3>1. view[1] \in Entry BY <1>0, <1>8 DEF ScrollUp
        <3> QED BY <1>0, <3>1 DEF Entry, Ids
    <2>2. load' = Request("before", view[1].id) BY <1>8 DEF ScrollUp
    <2>3. load' \in Loads BY <1>0, <2>1, <2>2, LoadTypes
    <2>4. UNCHANGED <<store, view, top, joined, wire, lost, past>> BY <1>8 DEF ScrollUp
    <2>5. StoreOK' BY <1>s, <2>4
    <2> QED BY <1>0, <1>t, <2>3, <2>4, <2>5
<1>9. CASE ScrollDown
    <2>1. LastId(view) \in 0..MaxPosted BY <1>0, LastIdIs
    <2>2. load' = Request("recent", LastId(view)) BY <1>9 DEF ScrollDown
    <2>3. load' \in Loads BY <1>0, <2>1, <2>2, LoadTypes
    <2>4. UNCHANGED <<store, view, top, joined, wire, lost, past>> BY <1>9 DEF ScrollDown
    <2>5. StoreOK' BY <1>s, <2>4
    <2> QED BY <1>0, <1>t, <2>3, <2>4, <2>5
<1>10. CASE Jump
    <2>1. PICK m \in 1..posted : load' = Request("context", m) BY <1>10 DEF Jump
    <2>2. load' \in Loads
        <3>1. m \in 0..MaxPosted BY <1>0 DEF StoreOK
        <3> QED BY <1>0, <2>1, <3>1, LoadTypes
    <2>3. Changes(past, past') BY <1>0, <1>10 DEF Jump, Changes, Past
    <2>4. view' = <<>> /\ UNCHANGED <<store, top, joined, wire, lost>> BY <1>10 DEF Jump
    <2>5. view' \in Seq(Entry) BY <2>4
    <2>6. StoreOK' BY <1>s, <2>4
    <2> QED BY <1>0, <1>t, <2>2, <2>3, <2>4, <2>5, <2>6
<1>11. CASE AnswerBefore
    <2>1. AroundBefore(load.at) \in Seq(Entry) BY <1>0, PagesAre DEF IsPage
    <2>a. load' = [load EXCEPT !.kind = "around", !.page = AroundBefore(load.at)]
        BY <1>11 DEF AnswerBefore
    <2>2. load' \in Loads BY <1>0, <2>a, <2>1, LoadTypes
    <2>3. Changes(past, past')
        <3> DEFINE b == LacksUnsaved
        <3>1. b \in BOOLEAN BY DEF LacksUnsaved
        <3>2. past' = [past EXCEPT !.gap = @ \/ b] BY <1>11 DEF AnswerBefore
        <3> HIDE DEF b
        <3> QED BY <1>0, <3>1, <3>2, PastGrows
    <2>4. UNCHANGED <<store, view, top, joined, wire, lost>> BY <1>11 DEF AnswerBefore
    <2>5. StoreOK' BY <1>s, <2>4
    <2> QED BY <1>0, <1>t, <2>2, <2>3, <2>4, <2>5
<1>12. CASE Answer
    <2>1. PICK p : load' = [load EXCEPT !.answered = TRUE, !.page = p] /\ p \in Seq(Entry)
        BY <1>12, AnswerIs DEF AnswerOf
    <2>2. load' \in Loads BY <1>0, <2>1, LoadTypes
    <2>3. Changes(past, past')
        <3> DEFINE b == wire # <<>>
                   c == LacksUnsaved
                   d == OpensOld
        <3>1. b \in BOOLEAN /\ c \in BOOLEAN /\ d \in BOOLEAN BY DEF LacksUnsaved, OpensOld
        <3>2. past' = [past EXCEPT !.crossed = @ \/ b, !.gap = @ \/ c, !.jumped = @ \/ d]
            BY <1>12 DEF Answer
        <3> HIDE DEF b, c, d
        <3> QED BY <1>0, <3>1, <3>2, PastGrows
    <2>4. UNCHANGED <<store, view, top, joined, wire, lost>> BY <1>12 DEF Answer
    <2>5. StoreOK' BY <1>s, <2>4
    <2> QED BY <1>0, <1>t, <2>2, <2>3, <2>4, <2>5
<1>13. CASE Apply
    <2>0. UNCHANGED <<store, joined, wire, lost>> BY <1>13 DEF Apply
    <2>a. StoreOK' BY <1>s, <2>0
    <2>b. load' = NoLoad BY <1>13 DEF Apply
    <2>1. load' \in Loads BY <1>0, <2>b, LoadTypes
    <2>2. CASE load.page = <<>>
        <3>1. UNCHANGED <<view, top, past>> BY <1>13, <2>2 DEF Apply
        <3> QED BY <1>0, <1>t, <2>0, <2>a, <2>1, <3>1
    <2>3. CASE load.page # <<>>
        <3> DEFINE v == Merged(load.kind, load.page)
                   t == IF load.kind \in {"init", "recent"} THEN LastId(load.page) ELSE top
        <3>1. Show(v, t, past) BY <1>13, <2>3 DEF Apply
        <3>2. load.page \in Seq(Entry) BY <1>0, LoadTypes
        <3>3. v \in Seq(Entry)
            <4>1. view \in Seq(Entry) BY <1>0
            <4>2. Merged(load.kind, load.page) \in Seq(Entry) BY <3>2, <4>1, MergedType
            <4> QED BY <4>2
        <3>4. t \in 0..MaxPosted BY <1>0, <3>2, LastIdIs
        <3> HIDE DEF v, t
        <3>5. view' \in Seq(Entry) /\ top' \in 0..MaxPosted /\ Changes(past, past')
            BY <1>0, <3>1, <3>3, <3>4, ShowTypes
        <3> QED BY <1>0, <1>t, <2>0, <2>a, <2>1, <3>5
    <2> QED BY <2>2, <2>3
<1>14. CASE LoadFails
    <2>0. load' = NoLoad BY <1>14 DEF LoadFails
    <2>1. load' \in Loads BY <1>0, <2>0, LoadTypes
    <2>2. UNCHANGED <<store, view, top, joined, wire, lost, past>> BY <1>14 DEF LoadFails
    <2>3. StoreOK' BY <1>s, <2>2
    <2> QED BY <1>0, <1>t, <2>1, <2>2, <2>3
<1> QED BY <1>1, <1>2, <1>3, <1>4, <1>5, <1>6, <1>7, <1>8, <1>9, <1>10, <1>11, <1>12, <1>13, <1>14
        DEF ClientNext

-----------------------------------------------------------------------------
(* The ids of the events of one kind that are under way. *)
IdsOf(w, k) == {w[j].id : j \in {j \in 1..Len(w) : w[j].what = k}}

LEMMA AppendIds ==
    ASSUME NEW w \in Seq(Event), NEW e \in Event, NEW k
    PROVE  IdsOf(Append(w, e), k) = IdsOf(w, k) \cup (IF e.what = k THEN {e.id} ELSE {})
<1> DEFINE v == Append(w, e)
           n == Len(w)
<1>1. Len(v) = n + 1 /\ n \in Nat /\ v[n + 1] = e /\ \A j \in 1..n : v[j] = w[j] OBVIOUS
<1> HIDE DEF v, n
<1>2. \A j : j \in 1..(n + 1) <=> j \in 1..n \/ j = n + 1 BY <1>1
<1>3. \A j \in 1..n : v[j].what = k => v[j].id \in IdsOf(w, k) BY <1>1 DEF IdsOf, n
<1>4. IdsOf(v, k) \subseteq IdsOf(w, k) \cup (IF e.what = k THEN {e.id} ELSE {})
    BY <1>1, <1>2, <1>3 DEF IdsOf
<1>5. IdsOf(w, k) \subseteq IdsOf(v, k) BY <1>1, <1>2 DEF IdsOf, n
<1>6. e.what = k => e.id \in IdsOf(v, k)
    <2>1. n + 1 \in 1..Len(v) BY <1>1
    <2> QED BY <1>1, <2>1 DEF IdsOf
<1> QED BY <1>4, <1>5, <1>6 DEF v

LEMMA TailIs ==
    ASSUME NEW E, NEW w \in Seq(E), w # <<>>
    PROVE  /\ Tail(w) \in Seq(E) /\ Len(Tail(w)) = Len(w) - 1 /\ Len(w) \in Nat \ {0}
           /\ Head(w) = w[1] /\ w[1] \in E
           /\ \A j \in 1..(Len(w) - 1) : Tail(w)[j] = w[j + 1] /\ j + 1 \in 1..Len(w)
           /\ \A j \in 2..Len(w) : Tail(w)[j - 1] = w[j] /\ j - 1 \in 1..(Len(w) - 1)
<1>1. Len(w) \in Nat \ {0} OBVIOUS
<1>2. Tail(w) \in Seq(E) /\ Len(Tail(w)) = Len(w) - 1 OBVIOUS
<1>3. Head(w) = w[1] /\ w[1] \in E OBVIOUS
<1>4. \A j \in 1..(Len(w) - 1) : Tail(w)[j] = w[j + 1] /\ j + 1 \in 1..Len(w) OBVIOUS
<1>5. \A j \in 2..Len(w) : Tail(w)[j - 1] = w[j] /\ j - 1 \in 1..(Len(w) - 1)
    <2> TAKE j \in 2..Len(w)
    <2>1. j - 1 \in 1..(Len(w) - 1) /\ (j - 1) + 1 = j BY <1>1
    <2> QED BY <1>4, <2>1
<1> QED BY <1>1, <1>2, <1>3, <1>4, <1>5

LEMMA TailIds ==
    ASSUME NEW w \in Seq(Event), w # <<>>, NEW k
    PROVE  /\ IdsOf(Tail(w), k) \subseteq IdsOf(w, k)
           /\ IdsOf(w, k) \subseteq IdsOf(Tail(w), k) \cup (IF Head(w).what = k THEN {Head(w).id} ELSE {})
<1> DEFINE v == Tail(w)
           n == Len(w)
<1>1. /\ Len(v) = n - 1 /\ n \in Nat \ {0} /\ Head(w) = w[1]
      /\ \A j \in 1..(n - 1) : v[j] = w[j + 1] /\ j + 1 \in 1..n
      /\ \A j \in 2..n : v[j - 1] = w[j] /\ j - 1 \in 1..(n - 1)
    BY TailIs
<1> HIDE DEF v, n
<1>2. IdsOf(v, k) \subseteq IdsOf(w, k) BY <1>1 DEF IdsOf, n
<1>3. \A j \in 1..n : j = 1 \/ j \in 2..n BY <1>1
<1>4. \A j \in 2..n : w[j].what = k => w[j].id \in IdsOf(v, k) BY <1>1 DEF IdsOf
<1>5. IdsOf(w, k) \subseteq IdsOf(v, k) \cup (IF Head(w).what = k THEN {Head(w).id} ELSE {})
    <2>1. ASSUME NEW m \in IdsOf(w, k)
          PROVE  m \in IdsOf(v, k) \/ (Head(w).what = k /\ m = Head(w).id)
        <3>1. PICK j \in 1..n : w[j].what = k /\ m = w[j].id BY DEF IdsOf, n
        <3>2. CASE j = 1 BY <1>1, <3>1, <3>2
        <3>3. CASE j \in 2..n BY <1>4, <3>1, <3>3
        <3> QED BY <1>3, <3>2, <3>3
    <2> QED BY <2>1
<1> QED BY <1>2, <1>5 DEF v

(* The deletions under way.                                                  *)
Pending == IdsOf(wire, "delete")

(* What a window may hold: no message that is not posted, and none whose    *)
(* deletion it has missed.                                                  *)
Known == {e \in Entry : /\ e.id <= posted
                        /\ e.id \in deleted \ past.late => e.del \/ e.id \in Pending}

(* An event's message is posted; a new message that is deleted is followed  *)
(* by its deletion.                                                         *)
WireTold ==
    \A i \in 1..Len(wire) :
        /\ wire[i].id <= posted
        /\ wire[i].what = "create" /\ wire[i].id \in deleted \ past.late
             => \E j \in 1..Len(wire) : i < j /\ wire[j].what = "delete" /\ wire[j].id = wire[i].id

(* What the list, the page and the events know of deletions.                 *)
ToldInv ==
    /\ deleted \subseteq 1..posted
    /\ load.kind = "none" => load = NoLoad
    /\ view \in Seq(Known) /\ load.page \in Seq(Known)
    /\ WireTold

(* A step that loses no deletion. *)
Tells ==
    /\ posted <= posted' /\ past.late \subseteq past'.late
    /\ Pending \subseteq Pending' \cup past'.late
    /\ deleted' \subseteq deleted \cup past'.late \cup Pending'

LEMMA KnownGrows ==
    ASSUME ViewTypeOK, ViewTypeOK', Tells
    PROVE  Known \subseteq Known' /\ Seq(Known) \subseteq Seq(Known')
<1>1. ASSUME NEW e \in Known PROVE e \in Known'
    <2>0. e \in Entry BY DEF Known
    <2>1. e \in Entry /\ e.id \in Int BY <2>0, QueriesAssumption DEF Entry, Ids
    <2>2. e.id <= posted' BY <2>1 DEF Known, Tells, ViewTypeOK
    <2>3. e.id \in deleted' \ past'.late => e.del \/ e.id \in Pending' BY DEF Known, Tells
    <2> QED BY <2>1, <2>2, <2>3 DEF Known
<1>2. \A s \in Seq(Known) : s \in Seq(Known') BY <1>1
<1> QED BY <1>1, <1>2

LEMMA PageKnown ==
    ASSUME ViewTypeOK, NEW p, NEW S, IsPage(p, S), S \subseteq 1..posted,
           UNCHANGED <<store, wire>>
    PROVE  p \in Seq(Known')
<1>1. p \in Seq(Entry) /\ \A i \in 1..Len(p) : p[i].id \in S /\ (p[i].del <=> p[i].id \in deleted)
    BY DEF IsPage
<1>2. ASSUME NEW i \in 1..Len(p) PROVE p[i] \in Known'
    <2>1. p[i] \in Entry BY <1>1
    <2>2. p[i].id <= posted'
        <3>1. p[i].id \in 1..posted BY <1>1
        <3>2. posted \in Nat /\ posted' = posted BY QueriesAssumption DEF store, ViewTypeOK
        <3> QED BY <3>1, <3>2
    <2>3. p[i].id \in deleted' => p[i].del BY <1>1 DEF store
    <2> QED BY <2>1, <2>2, <2>3 DEF Known
<1> QED BY <1>1, <1>2

(* An event is sent: a new message, or the deletion of one. *)
LEMMA SentTold ==
    ASSUME ViewTypeOK, WireTold, NEW e \in Event, wire' = Append(wire, e),
           posted \in Nat, posted' \in Nat, posted <= posted', e.id <= posted',
           past.late \subseteq past'.late,
           e.what = "create" => e.id \notin deleted',
           deleted' \subseteq deleted \cup (IF e.what = "delete" THEN {e.id} ELSE {})
    PROVE  WireTold'
<1> DEFINE n == Len(wire)
<1>1. n \in Nat /\ Len(wire') = n + 1 /\ wire'[n + 1] = e /\ \A i \in 1..n : wire'[i] = wire[i] /\ wire[i] \in Event
    BY DEF ViewTypeOK
<1> SUFFICES ASSUME NEW i \in 1..(n + 1)
             PROVE  /\ wire'[i].id <= posted'
                    /\ wire'[i].what = "create" /\ wire'[i].id \in deleted' \ past'.late
                         => \E j \in 1..(n + 1) : i < j /\ wire'[j].what = "delete" /\ wire'[j].id = wire'[i].id
    BY <1>1 DEF WireTold
<1>2. CASE i = n + 1 BY <1>1, <1>2
<1>3. CASE i \in 1..n
    <2>1. wire'[i] = wire[i] /\ wire[i].id \in Nat /\ wire[i].id <= posted
        <3>1. wire'[i] = wire[i] /\ wire[i] \in Event BY <1>1, <1>3
        <3>2. wire[i].id <= posted BY <1>3 DEF WireTold
        <3> QED BY <3>1, <3>2, QueriesAssumption DEF Event, Ids
    <2>2. wire'[i].id <= posted' BY <2>1
    <2>3. ASSUME wire'[i].what = "create", wire'[i].id \in deleted' \ past'.late
          PROVE  \E j \in 1..(n + 1) : i < j /\ wire'[j].what = "delete" /\ wire'[j].id = wire'[i].id
        <3>1. CASE wire[i].id \in deleted
            <4>1. PICK j \in 1..n : i < j /\ wire[j].what = "delete" /\ wire[j].id = wire[i].id
                BY <1>3, <2>1, <2>3, <3>1 DEF WireTold
            <4>2. wire'[j] = wire[j] /\ j \in 1..(n + 1) BY <1>1
            <4> QED BY <2>1, <4>1, <4>2
        <3>2. CASE wire[i].id \notin deleted
            <4>1. e.what = "delete" /\ e.id = wire[i].id BY <2>1, <2>3, <3>2
            <4>2. n + 1 \in 1..(n + 1) /\ i < n + 1 BY <1>1, <1>3
            <4> QED BY <1>1, <2>1, <4>1, <4>2
        <3> QED BY <3>1, <3>2
    <2> QED BY <2>2, <2>3
<1> HIDE DEF n
<1> QED BY <1>1, <1>2, <1>3

(* The next event is received. *)
LEMMA ReceivedTold ==
    ASSUME ViewTypeOK, WireTold, wire # <<>>, wire' = Tail(wire),
           UNCHANGED <<posted, deleted>>, past.late \subseteq past'.late
    PROVE  WireTold'
<1> DEFINE n == Len(wire)
<1>1. /\ Len(wire') = n - 1 /\ n \in Nat \ {0}
      /\ \A j \in 1..(n - 1) : wire'[j] = wire[j + 1] /\ j + 1 \in 1..n
      /\ \A j \in 2..n : wire'[j - 1] = wire[j] /\ j - 1 \in 1..(n - 1)
    BY TailIs DEF ViewTypeOK
<1> SUFFICES ASSUME NEW i \in 1..(n - 1)
             PROVE  /\ wire'[i].id <= posted
                    /\ wire'[i].what = "create" /\ wire'[i].id \in deleted \ past'.late
                         => \E j \in 1..(n - 1) : i < j /\ wire'[j].what = "delete" /\ wire'[j].id = wire'[i].id
    BY <1>1 DEF WireTold
<1>2. wire'[i] = wire[i + 1] /\ i + 1 \in 1..n BY <1>1
<1>3. wire'[i].id <= posted BY <1>2 DEF WireTold
<1>4. ASSUME wire'[i].what = "create", wire'[i].id \in deleted \ past'.late
      PROVE  \E j \in 1..(n - 1) : i < j /\ wire'[j].what = "delete" /\ wire'[j].id = wire'[i].id
    <2>1. PICK j \in 1..n : i + 1 < j /\ wire[j].what = "delete" /\ wire[j].id = wire[i + 1].id
        BY <1>2, <1>4 DEF WireTold
    <2>2. j \in 2..n /\ i < j - 1
        <3> HIDE DEF n
        <3> QED BY <1>1, <2>1
    <2> QED BY <1>1, <1>2, <2>1, <2>2
<1> QED BY <1>3, <1>4

LEMMA ViewInitTold == StoreInit /\ ClientInit => ViewTypeOK /\ ToldInv
<1> SUFFICES ASSUME StoreInit, ClientInit PROVE ViewTypeOK /\ ToldInv OBVIOUS
<1>0. MaxPosted \in Nat /\ Held \subseteq 0..MaxPosted /\ MaxLost \in Nat
    BY QueriesAssumption, ViewAssumption
<1>1. posted \in 0..MaxPosted /\ stored = posted /\ trimmed \in 0..posted /\ deleted = {}
    BY <1>0 DEF StoreInit
<1>2. load = Request("init", 0) /\ view = <<>> /\ wire = <<>> /\ top = 0 /\ joined = FALSE /\ lost = 0
    BY DEF ClientInit
<1>3. load \in Loads /\ load.page = <<>> /\ load.kind = "init" BY <1>0, <1>2 DEF Request, Loads
<1>4. past \in Past
    <2>1. past = [crossed |-> FALSE, gap |-> FALSE, jumped |-> FALSE, late |-> {}, seen |-> 0]
        BY DEF ClientInit
    <2> QED BY <1>0, <2>1 DEF Past
<1>5. view \in Seq(Entry) /\ view \in Seq(Known) /\ load.page \in Seq(Known)
    <2>1. \A E : <<>> \in Seq(E) OBVIOUS
    <2> QED BY <1>2, <1>3, <2>1
<1>8. wire \in Seq(Event) /\ joined \in BOOLEAN /\ top \in 0..MaxPosted /\ lost \in 0..MaxLost
    <2>1. \A E : <<>> \in Seq(E) OBVIOUS
    <2>2. wire \in Seq(Event) BY <1>2, <2>1
    <2>3. top \in 0..MaxPosted /\ lost \in 0..MaxLost BY <1>0, <1>2
    <2> QED BY <1>2, <2>2, <2>3
<1>9. stored \in 0..posted /\ deleted \subseteq Ids BY <1>0, <1>1
<1>6. ViewTypeOK BY <1>1, <1>3, <1>4, <1>5, <1>8, <1>9 DEF ViewTypeOK
<1>7. ToldInv BY <1>1, <1>2, <1>3, <1>5 DEF ToldInv, WireTold
<1> QED BY <1>6, <1>7

(* The list and the page are told of every deletion they could have missed.  *)
LEMMA ToldStep ==
    ASSUME ViewTypeOK, ToldInv, ClientNext
    PROVE  ToldInv'
<1>a. ViewTypeOK' /\ Changes(past, past') BY ViewStepTypes
<1>b. StoreOK /\ wire \in Seq(Event) /\ load \in Loads /\ past \in Past
    BY DEF ViewTypeOK, StoreOK
<1>c. posted \in Nat /\ posted' \in Nat
    <2>1. posted \in 0..MaxPosted /\ posted' \in 0..MaxPosted BY <1>a DEF ViewTypeOK
    <2> QED BY <2>1, QueriesAssumption
<1>d. past.late \subseteq past'.late BY <1>a DEF Changes
<1>0. /\ ViewTypeOK' /\ Changes(past, past') /\ StoreOK
      /\ wire \in Seq(Event) /\ load \in Loads /\ past \in Past
      /\ posted \in Nat /\ posted' \in Nat /\ past.late \subseteq past'.late
    BY <1>a, <1>b, <1>c, <1>d
<1>1. /\ deleted \subseteq 1..posted /\ (load.kind = "none" => load = NoLoad)
      /\ view \in Seq(Known) /\ load.page \in Seq(Known) /\ WireTold
    BY DEF ToldInv
<1>q. ASSUME UNCHANGED <<posted, deleted, wire>> PROVE Tells /\ WireTold' /\ deleted' \subseteq 1..posted'
    <2>1. Tells BY <1>0, <1>q DEF Tells, Pending
    <2>2. WireTold' BY <1>0, <1>1, <1>q DEF WireTold
    <2> QED BY <1>1, <1>q, <2>1, <2>2
<1>k. ASSUME Tells, view' = view, load' = load
      PROVE  view' \in Seq(Known') /\ load'.page \in Seq(Known') /\ (load'.kind = "none" => load' = NoLoad)
    BY <1>0, <1>1, <1>k, KnownGrows
<1>2. CASE PostAndEmit
    <2>1. posted' = posted + 1 /\ posted' \in Ids /\ deleted' = deleted
        BY <1>0, <1>2, StoreSteps DEF PostAndEmit, Post
    <2>2. deleted' \subseteq 1..posted' /\ posted' \notin deleted' BY <1>0, <1>1, <2>1
    <2> DEFINE e == [what |-> "create", id |-> posted']
    <2>3. e \in Event /\ e.what = "create" /\ e.id = posted' BY <2>1 DEF Event
    <2>4. wire' = wire \/ wire' = Append(wire, e) BY <1>2 DEF PostAndEmit
    <2> HIDE DEF e
    <2>5. Pending' = Pending
        <3>1. ASSUME wire' = Append(wire, e) PROVE Pending' = Pending
            <4>1. IdsOf(wire', "delete") = IdsOf(wire, "delete") \cup {}
                BY <1>0, <2>3, <3>1, AppendIds
            <4> QED BY <4>1 DEF Pending
        <3> QED BY <2>4, <3>1 DEF Pending
    <2>6. Tells BY <1>0, <2>1, <2>5 DEF Tells
    <2>7. WireTold'
        <3>1. CASE wire' = Append(wire, e)
            BY <1>0, <1>1, <2>1, <2>2, <2>3, <3>1, SentTold
        <3>2. CASE wire' = wire
            <4>1. \A i \in 1..Len(wire) : wire[i].id <= posted'
                <5>1. \A i \in 1..Len(wire) : wire[i] \in Event /\ wire[i].id <= posted
                    BY <1>0, <1>1 DEF WireTold
                <5>2. \A j \in Event : j.id \in Nat BY QueriesAssumption DEF Event, Ids
                <5>3. posted \in Nat /\ posted' \in Nat /\ posted <= posted' BY <1>0, <2>1
                <5> QED BY <5>1, <5>2, <5>3
            <4> QED BY <1>0, <1>1, <2>1, <3>2, <4>1 DEF WireTold
        <3> QED BY <2>4, <3>1, <3>2
    <2> QED BY <1>2, <1>k, <2>2, <2>6, <2>7 DEF PostAndEmit, ToldInv
<1>3. CASE DeleteAndEmit
    <2>1. PICK m \in Ids :
            /\ Delete(m)
            /\ wire' = IF joined THEN Append(wire, [what |-> "delete", id |-> m]) ELSE wire
            /\ past' = [past EXCEPT !.late = IF joined THEN @ ELSE @ \cup {m}]
            /\ UNCHANGED <<view, top, load, joined, lost>>
        BY <1>3 DEF DeleteAndEmit
    <2>2. posted' = posted /\ deleted' = deleted \cup {m} /\ m \in 1..posted
        BY <2>1 DEF Delete
    <2> DEFINE e == [what |-> "delete", id |-> m]
    <2>3. e \in Event /\ e.what = "delete" /\ e.id = m BY DEF Event
    <2>4. CASE joined
        <3>1. wire' = Append(wire, e) BY <2>1, <2>4
        <3> HIDE DEF e
        <3>2. Pending' = Pending \cup {m}
            <4>1. IdsOf(wire', "delete") = IdsOf(wire, "delete") \cup {m} BY <1>0, <2>3, <3>1, AppendIds
            <4> QED BY <4>1 DEF Pending
        <3>3. Tells BY <1>0, <2>2, <3>2 DEF Tells
        <3>4. WireTold' BY <1>0, <1>1, <2>2, <2>3, <3>1, SentTold
        <3> QED BY <1>1, <1>k, <2>1, <2>2, <3>3, <3>4 DEF ToldInv
    <2>5. CASE ~joined
        <3>1. wire' = wire /\ past'.late = past.late \cup {m} BY <1>0, <2>1, <2>5 DEF Past
        <3>2. Pending' = Pending BY <3>1 DEF Pending
        <3>3. Tells BY <1>0, <2>2, <3>1, <3>2 DEF Tells
        <3>4. WireTold' BY <1>0, <1>1, <2>2, <3>1 DEF WireTold
        <3> QED BY <1>1, <1>k, <2>1, <2>2, <3>3, <3>4 DEF ToldInv
    <2> QED BY <2>4, <2>5
<1>4. CASE FlushOnly
    <2>1. UNCHANGED <<posted, deleted, wire, view, load>> BY <1>4 DEF FlushOnly, Flush, client
    <2> QED BY <1>q, <1>k, <2>1 DEF ToldInv
<1>5. CASE Join
    <2>1. UNCHANGED <<posted, deleted, wire, view, load>> BY <1>5 DEF Join, store
    <2> QED BY <1>q, <1>k, <2>1 DEF ToldInv
<1>6. CASE LoseConnection
    <2>1. UNCHANGED <<posted, deleted, view, load>> /\ wire' = <<>> BY <1>6 DEF LoseConnection, store
    <2>2. past'.late = past.late \cup {wire[i].id : i \in DOMAIN wire}
        BY <1>0, <1>6 DEF LoseConnection, Past
    <2>3. Pending \subseteq past'.late BY <2>2 DEF Pending, IdsOf
    <2>4. Tells BY <1>0, <2>1, <2>3 DEF Tells
    <2>5. WireTold' BY <2>1 DEF WireTold
    <2> QED BY <1>1, <1>k, <2>1, <2>4, <2>5 DEF ToldInv
<1>7. CASE ReceiveMessage
    <2> DEFINE m == Head(wire).id
    <2>1. wire # <<>> /\ Head(wire).what = "create" /\ wire' = Tail(wire)
          /\ UNCHANGED <<posted, deleted, load>>
        BY <1>7 DEF ReceiveMessage, store
    <2>2. Head(wire) = wire[1] /\ wire[1] \in Event /\ 1 \in 1..Len(wire) BY <1>0, <2>1, TailIs
    <2>3. Pending \subseteq Pending'
        <3>1. IdsOf(wire, "delete") \subseteq IdsOf(Tail(wire), "delete") BY <1>0, <2>1, TailIds
        <3> QED BY <2>1, <3>1 DEF Pending
    <2>4. Tells BY <1>0, <2>1, <2>3 DEF Tells
    <2>5. WireTold' BY <1>0, <1>1, <2>1, ReceivedTold
    <2>6. Live(m) \in Known'
        <3>1. Live(m) \in Entry /\ Live(m).id = m BY <2>2 DEF Live, Entry, Event
        <3>2. m <= posted BY <1>1, <2>2 DEF WireTold
        <3>3. m \in deleted \ past'.late => m \in Pending'
            <4> SUFFICES ASSUME m \in deleted \ past.late PROVE m \in Pending' BY <1>0
            <4>1. PICK j \in 1..Len(wire) : 1 < j /\ wire[j].what = "delete" /\ wire[j].id = m
                BY <1>1, <2>1, <2>2 DEF WireTold
            <4>2. m \in Pending BY <4>1 DEF Pending, IdsOf
            <4> QED BY <2>3, <4>2
        <3> QED BY <2>1, <3>1, <3>2, <3>3 DEF Known
    <2>7. view' = TheLast(Append(view, Live(m))) BY <1>7 DEF ReceiveMessage, Show
    <2> HIDE DEF m
    <2>8. view' \in Seq(Known')
        <3>1. view \in Seq(Known') BY <1>0, <1>1, <2>4, KnownGrows
        <3>2. Append(view, Live(m)) \in Seq(Known') BY <2>6, <3>1
        <3> QED BY <2>7, <3>2, TheLastIs
    <2>9. load'.page \in Seq(Known') BY <1>0, <1>1, <2>1, <2>4, KnownGrows
    <2> QED BY <1>1, <2>1, <2>5, <2>8, <2>9 DEF ToldInv
<1>8. CASE ReceiveDeletion
    <2> DEFINE m == Head(wire).id
    <2>1. wire # <<>> /\ Head(wire).what = "delete" /\ wire' = Tail(wire)
          /\ UNCHANGED <<posted, deleted, load>>
        BY <1>8 DEF ReceiveDeletion, store
    <2>3. Pending \subseteq Pending' \cup {m}
        <3>1. IdsOf(wire, "delete") \subseteq IdsOf(Tail(wire), "delete") \cup {m} BY <1>0, <2>1, TailIds
        <3> QED BY <2>1, <3>1 DEF Pending
    <2>4. Loading => m \in past'.late
        <3> DEFINE after == [past EXCEPT !.late = IF Loading THEN @ \cup {m} ELSE @]
        <3>1. past' = [after EXCEPT !.seen = Max({@, LastId(Mark(view, m))})]
            BY <1>8 DEF ReceiveDeletion, Show
        <3>2. past'.late = after.late BY <3>1
        <3>3. Loading => m \in after.late BY <1>0 DEF Past
        <3> QED BY <3>2, <3>3
    <2>5. WireTold' BY <1>0, <1>1, <2>1, ReceivedTold
    <2>6. view' = Mark(view, m) BY <1>8 DEF ReceiveDeletion, Show
    <2> HIDE DEF m
    <2>7. view' \in Seq(Known')
        <3>1. /\ view' \in Seq(Entry) /\ Len(view') = Len(view)
              /\ \A i \in 1..Len(view) : /\ view'[i].id = view[i].id
                                         /\ view'[i].del <=> view[i].del \/ view[i].id = m
            BY <1>1, <2>6, MarkIs DEF ViewTypeOK
        <3>2. ASSUME NEW i \in 1..Len(view) PROVE view'[i] \in Known'
            <4>1. view[i] \in Known /\ view'[i] \in Entry BY <1>1, <3>1, <3>2
            <4>2. view'[i].id <= posted' BY <2>1, <3>1, <4>1 DEF Known
            <4>3. ASSUME view'[i].id \in deleted' \ past'.late PROVE view'[i].del \/ view'[i].id \in Pending'
                <5>1. view[i].id \in deleted \ past.late BY <1>0, <2>1, <3>1, <4>3
                <5>2. view[i].del \/ view[i].id \in Pending BY <4>1, <5>1 DEF Known
                <5> QED BY <2>3, <3>1, <5>2
            <4> QED BY <4>1, <4>2, <4>3 DEF Known
        <3> QED BY <3>1, <3>2
    <2>8. load'.page \in Seq(Known')
        <3>1. CASE Loading
            <4>1. Tells BY <1>0, <2>1, <2>3, <2>4, <3>1 DEF Tells
            <4> QED BY <1>0, <1>1, <2>1, <4>1, KnownGrows
        <3>2. CASE ~Loading
            <4>1. load'.page = <<>> BY <1>1, <2>1, <3>2 DEF Loading, NoLoad
            <4> QED BY <4>1
        <3> QED BY <3>1, <3>2
    <2> QED BY <1>1, <2>1, <2>5, <2>7, <2>8 DEF ToldInv
<1>9. ASSUME UNCHANGED <<posted, deleted, wire, view>>, NEW k \in {"before", "recent"}, NEW c,
             load' = Request(k, c)
      PROVE  ToldInv'
    <2>1. load'.page = <<>> /\ load'.kind # "none" BY <1>9 DEF Request
    <2>2. view' \in Seq(Known') BY <1>0, <1>1, <1>q, <1>9, KnownGrows
    <2> QED BY <1>q, <1>9, <2>1, <2>2 DEF ToldInv
<1>10. CASE ScrollUp BY <1>9, <1>10 DEF ScrollUp, store
<1>11. CASE ScrollDown BY <1>9, <1>11 DEF ScrollDown, store
<1>12. CASE Jump
    <2>1. UNCHANGED <<posted, deleted, wire>> /\ view' = <<>> BY <1>12 DEF Jump, store
    <2>2. load'.page = <<>> /\ load'.kind # "none" BY <1>12 DEF Jump, Request
    <2> QED BY <1>q, <2>1, <2>2 DEF ToldInv
<1>13. CASE AnswerBefore
    <2>1. UNCHANGED <<store, posted, deleted, wire, view>> BY <1>13 DEF AnswerBefore, store
    <2>2. load'.page = AroundBefore(load.at) /\ load'.kind = "around"
        BY <1>0, <1>13 DEF AnswerBefore, Loads
    <2>3. IsPage(load'.page, {m \in 1..posted : m < load.at}) BY <1>0, <2>2, PagesAre
    <2>4. load'.page \in Seq(Known') BY <1>0, <2>1, <2>3, PageKnown
    <2>5. view' \in Seq(Known') BY <1>0, <1>1, <1>q, <2>1, KnownGrows
    <2> QED BY <1>q, <2>1, <2>2, <2>4, <2>5 DEF ToldInv
<1>14. CASE Answer
    <2>1. UNCHANGED <<store, posted, deleted, wire, view>> BY <1>14 DEF Answer, store
    <2>2. PICK p : load' = [load EXCEPT !.answered = TRUE, !.page = p] /\ AnswerOf(p) BY <1>14, AnswerIs
    <2>3. load'.page = p /\ load'.kind = load.kind BY <1>0, <2>2 DEF Loads
    <2>4. Known \subseteq Known' /\ Seq(Known) \subseteq Seq(Known') BY <1>0, <1>q, <2>1, KnownGrows
    <2>5. p \in Seq(Known')
        <3>1. CASE load.kind = "init" BY <1>0, <2>1, <2>2, <3>1, PageKnown DEF AnswerOf
        <3>2. CASE load.kind = "before" BY <1>0, <2>1, <2>2, <3>2, PageKnown DEF AnswerOf
        <3>3. CASE load.kind = "recent" BY <1>0, <2>1, <2>2, <3>3, PageKnown DEF AnswerOf
        <3>4. CASE load.kind = "around"
            <4>1. PICK q : p = load.page \o q /\ IsPage(q, {m \in 1..posted : m >= load.at})
                BY <2>2, <3>4 DEF AnswerOf
            <4>2. q \in Seq(Known') BY <1>0, <2>1, <4>1, PageKnown
            <4>3. load.page \in Seq(Known') BY <1>1, <2>4
            <4> QED BY <4>1, <4>2, <4>3
        <3> QED BY <2>2, <3>1, <3>2, <3>3, <3>4 DEF AnswerOf
    <2>6. load'.kind # "none" BY <1>14, <2>3 DEF Answer
    <2> QED BY <1>1, <1>q, <2>1, <2>3, <2>4, <2>5, <2>6 DEF ToldInv
<1>15. CASE Apply
    <2>1. UNCHANGED <<posted, deleted, wire>> /\ load' = NoLoad BY <1>15 DEF Apply, store
    <2>2. Seq(Known) \subseteq Seq(Known') BY <1>0, <1>q, <2>1, KnownGrows
    <2>3. view' = view \/ view' = Merged(load.kind, load.page) BY <1>15 DEF Apply, Show
    <2>4. view' \in Seq(Known') BY <1>1, <2>2, <2>3, MergedType
    <2>5. load'.page \in Seq(Known') BY <2>1 DEF NoLoad
    <2> QED BY <1>q, <2>1, <2>4, <2>5 DEF ToldInv
<1>16. CASE LoadFails
    <2>1. UNCHANGED <<posted, deleted, wire, view>> /\ load' = NoLoad BY <1>16 DEF LoadFails, store
    <2>2. view' \in Seq(Known') BY <1>0, <1>1, <1>q, <2>1, KnownGrows
    <2>5. load'.page \in Seq(Known') BY <2>1 DEF NoLoad
    <2> QED BY <1>q, <2>1, <2>2, <2>5 DEF ToldInv
<1> QED BY <1>2, <1>3, <1>4, <1>5, <1>6, <1>7, <1>8, <1>10, <1>11, <1>12, <1>13, <1>14, <1>15, <1>16
        DEF ClientNext

LEMMA StillView ==
    ASSUME UNCHANGED viewVars
    PROVE  /\ ViewTypeOK => ViewTypeOK'
           /\ ToldInv => ToldInv'
<1>1. UNCHANGED <<posted, stored, trimmed, deleted, view, top, load, joined, wire, lost, past>>
    BY DEF viewVars, store, client
<1>2. Pending' = Pending BY <1>1 DEF Pending
<1>3. Known' = Known BY <1>1, <1>2 DEF Known
<1>4. ViewTypeOK => ViewTypeOK' BY <1>1 DEF ViewTypeOK
<1>5. ToldInv => ToldInv' BY <1>1, <1>3 DEF ToldInv, WireTold
<1> QED BY <1>4, <1>5

LEMMA ToldShows == ViewTypeOK /\ ToldInv => DeletedShown
<1> SUFFICES ASSUME ViewTypeOK, ToldInv, NEW i \in DOMAIN view,
                    view[i].id \in deleted \ past.late, ~view[i].del
             PROVE  \E j \in DOMAIN wire : wire[j] = [what |-> "delete", id |-> view[i].id]
    BY DEF DeletedShown
<1>1. view \in Seq(Known) /\ wire \in Seq(Event) BY DEF ViewTypeOK, ToldInv
<1>2. view[i] \in Known BY <1>1
<1>3. view[i].id \in Pending BY <1>2 DEF Known
<1>4. PICK j \in 1..Len(wire) : wire[j].what = "delete" /\ wire[j].id = view[i].id
    BY <1>3 DEF Pending, IdsOf
<1>5. wire[j] \in Event /\ j \in DOMAIN wire BY <1>1
<1>6. wire[j] = [what |-> "delete", id |-> view[i].id] BY <1>4, <1>5 DEF Event
<1> QED BY <1>5, <1>6

(* The types of the store, the list, the request and the events. *)
THEOREM MessagesTypeCorrect == ViewSpec => []ViewTypeOK
<1>1. StoreInit /\ ClientInit => ViewTypeOK BY ViewInitTold
<1>2. ViewTypeOK /\ [ClientNext]_viewVars => ViewTypeOK'
    BY ViewStepTypes, StillView
<1> QED BY <1>1, <1>2, PTL DEF ViewSpec

(* DeletedShown: a message shown whose deletion the socket has delivered is  *)
(* shown as deleted, unless a load was under way when the event came.        *)
THEOREM DeletionsShown == ViewSpec => []DeletedShown
<1>1. StoreInit /\ ClientInit => ViewTypeOK /\ ToldInv BY ViewInitTold
<1>2. ViewTypeOK /\ ToldInv /\ [ClientNext]_viewVars => (ViewTypeOK /\ ToldInv)'
    BY ViewStepTypes, ToldStep, StillView
<1>3. ViewTypeOK /\ ToldInv => DeletedShown BY ToldShows
<1> QED BY <1>1, <1>2, <1>3, PTL DEF ViewSpec

-----------------------------------------------------------------------------
(* The order of the list                                                    *)

IdsIn(s) == {s[i].id : i \in 1..Len(s)}

LEMMA AscEnds ==
    ASSUME NEW s \in Seq(Entry), Asc(s), s # <<>>
    PROVE  /\ s[1].id \in IdsIn(s) /\ LastId(s) \in IdsIn(s) /\ IdsIn(s) \subseteq Ids
           /\ \A m \in IdsIn(s) : s[1].id <= m /\ m <= LastId(s)
<1> DEFINE n == Len(s)
<1>1. n \in Nat \ {0} /\ LastId(s) = s[n].id BY DEF LastId
<1>2. \A i \in 1..n : s[i] \in Entry OBVIOUS
<1>3. \A i \in 1..n : s[i].id \in Ids /\ s[i].id \in Int BY <1>2, QueriesAssumption DEF Entry, Ids
<1>4. \A i, j \in 1..n : i < j => s[i].id < s[j].id BY DEF Asc
<1>5. \A i \in 1..n : s[i].id \in IdsIn(s) BY DEF IdsIn
<1>6. \A m \in IdsIn(s) : \E i \in 1..n : m = s[i].id BY DEF IdsIn
<1> HIDE DEF n
<1>7. 1 \in 1..n /\ n \in 1..n BY <1>1
<1>8. ASSUME NEW m \in IdsIn(s) PROVE m \in Ids /\ s[1].id <= m /\ m <= s[n].id
    <2>1. PICK i \in 1..n : m = s[i].id BY <1>6
    <2>2. i = 1 \/ 1 < i BY <1>1
    <2>3. i = n \/ i < n BY <1>1
    <2>4. s[1].id <= m BY <1>3, <1>4, <1>7, <2>1, <2>2
    <2>5. m <= s[n].id BY <1>3, <1>4, <1>7, <2>1, <2>3
    <2> QED BY <1>3, <2>1, <2>4, <2>5
<1> QED BY <1>1, <1>5, <1>7, <1>8

(* Two lists in order, one before the other, are one list in order.          *)
LEMMA JoinedLists ==
    ASSUME NEW s \in Seq(Entry), NEW t \in Seq(Entry)
    PROVE  /\ s \o t \in Seq(Entry) /\ IdsIn(s \o t) = IdsIn(s) \cup IdsIn(t)
           /\ Asc(s) /\ Asc(t) /\ (\A m \in IdsIn(s), k \in IdsIn(t) : m < k) => Asc(s \o t)
<1> DEFINE u == s \o t
           a == Len(s)
           b == Len(t)
<1>1. /\ a \in Nat /\ b \in Nat /\ Len(u) = a + b /\ u \in Seq(Entry)
      /\ \A i \in 1..a : u[i] = s[i]
      /\ \A i \in 1..b : u[i + a] = t[i]
    OBVIOUS
<1>2. /\ \A i \in 1..a : s[i].id \in IdsIn(s)
      /\ \A i \in 1..b : t[i].id \in IdsIn(t)
    BY DEF IdsIn
<1>3. /\ \A m \in IdsIn(s) : \E i \in 1..a : m = s[i].id
      /\ \A m \in IdsIn(t) : \E i \in 1..b : m = t[i].id
      /\ \A m \in IdsIn(u) : \E i \in 1..Len(u) : m = u[i].id
    BY DEF IdsIn
<1>8. \A i \in 1..Len(u) : u[i].id \in IdsIn(u) BY DEF IdsIn
<1>9. /\ Asc(s) => \A i, j \in 1..a : i < j => s[i].id < s[j].id
      /\ Asc(t) => \A i, j \in 1..b : i < j => t[i].id < t[j].id
    BY DEF Asc
<1>10. (\A i, j \in 1..Len(u) : i < j => u[i].id < u[j].id) => Asc(u) BY DEF Asc
<1> HIDE DEF u, a, b
<1>4. /\ \A i \in 1..(a + b) : i \in 1..a \/ (i - a \in 1..b /\ (i - a) + a = i)
      /\ \A i \in 1..a : i \in 1..(a + b)
      /\ \A i \in 1..b : i + a \in 1..(a + b)
    BY <1>1
<1>5. ASSUME NEW i \in 1..(a + b)
      PROVE  (i \in 1..a /\ u[i] = s[i]) \/ (i - a \in 1..b /\ u[i] = t[i - a])
    <2>1. CASE i \in 1..a BY <1>1, <2>1
    <2>2. CASE i - a \in 1..b /\ (i - a) + a = i
        <3>1. u[(i - a) + a] = t[i - a] BY <1>1, <2>2
        <3> QED BY <2>2, <3>1
    <2> QED BY <1>4, <2>1, <2>2
<1>6. IdsIn(u) = IdsIn(s) \cup IdsIn(t)
    <2>1. ASSUME NEW m \in IdsIn(u) PROVE m \in IdsIn(s) \cup IdsIn(t)
        <3>1. PICK i \in 1..(a + b) : m = u[i].id BY <1>1, <1>3
        <3> QED BY <1>2, <1>5, <3>1
    <2>2. ASSUME NEW m \in IdsIn(s) PROVE m \in IdsIn(u)
        <3>1. PICK i \in 1..a : m = s[i].id BY <1>3
        <3> QED BY <1>1, <1>4, <1>8, <3>1
    <2>3. ASSUME NEW m \in IdsIn(t) PROVE m \in IdsIn(u)
        <3>1. PICK i \in 1..b : m = t[i].id BY <1>3
        <3> QED BY <1>1, <1>4, <1>8, <3>1
    <2> QED BY <2>1, <2>2, <2>3
<1>7. ASSUME Asc(s), Asc(t), \A m \in IdsIn(s), k \in IdsIn(t) : m < k
      PROVE  Asc(u)
    <2> SUFFICES ASSUME NEW i \in 1..(a + b), NEW j \in 1..(a + b), i < j PROVE u[i].id < u[j].id
        BY <1>1, <1>10
    <2>1. CASE i \in 1..a /\ j \in 1..a BY <1>1, <1>7, <1>9, <2>1
    <2>2. CASE i \in 1..a /\ j \notin 1..a
        <3>1. u[i] = s[i] BY <1>1, <2>2
        <3>2. j - a \in 1..b /\ u[j] = t[j - a] BY <1>5, <2>2
        <3> QED BY <1>2, <1>7, <2>2, <3>1, <3>2
    <2>3. CASE i \notin 1..a
        <3>1. j \notin 1..a BY <1>1, <2>3
        <3>2. i - a \in 1..b /\ u[i] = t[i - a] /\ j - a \in 1..b /\ u[j] = t[j - a]
            BY <1>5, <2>3, <3>1
        <3>3. i - a < j - a BY <1>1
        <3> QED BY <1>7, <1>9, <3>2, <3>3
    <2> QED BY <2>1, <2>2, <2>3
<1> QED BY <1>1, <1>6, <1>7 DEF u

LEMMA AppendedList ==
    ASSUME NEW s \in Seq(Entry), NEW e \in Entry
    PROVE  /\ Append(s, e) \in Seq(Entry) /\ IdsIn(Append(s, e)) = IdsIn(s) \cup {e.id}
           /\ LastId(Append(s, e)) = e.id /\ Append(s, e) # <<>>
           /\ Asc(s) /\ (\A m \in IdsIn(s) : m < e.id) => Asc(Append(s, e))
<1> DEFINE t == <<e>>
<1>1. t \in Seq(Entry) /\ Len(t) = 1 /\ t[1] = e OBVIOUS
<1>2. Append(s, e) = s \o t OBVIOUS
<1>6. Len(Append(s, e)) = Len(s) + 1 /\ Append(s, e)[Len(s) + 1] = e /\ Append(s, e) # <<>> OBVIOUS
<1> HIDE DEF t
<1>3. IdsIn(t) = {e.id} BY <1>1 DEF IdsIn
<1>4. Asc(t) BY <1>1 DEF Asc
<1>5. LastId(Append(s, e)) = e.id BY <1>6 DEF LastId
<1> QED BY <1>1, <1>2, <1>3, <1>4, <1>5, <1>6, JoinedLists

LEMMA LastOfList ==
    ASSUME NEW s \in Seq(Entry)
    PROVE  /\ TheLast(s) \in Seq(Entry) /\ IdsIn(TheLast(s)) \subseteq IdsIn(s)
           /\ LastId(TheLast(s)) = LastId(s) /\ (TheLast(s) = <<>> => s = <<>>)
           /\ Asc(s) => Asc(TheLast(s))
<1> DEFINE t == TheLast(s)
           n == Len(s)
<1>1. PICK d \in 0..n : /\ s # <<>> => d < n
                        /\ Len(t) = n - d
                        /\ \A i \in 1..(n - d) : t[i] = s[i + d]
    BY TheLastIs
<1>2. t \in Seq(Entry) /\ n \in Nat BY TheLastIs
<1>3. s = <<>> <=> n = 0 OBVIOUS
<1>4. t = <<>> <=> Len(t) = 0 BY <1>2
<1>5. LastId(s) = IF n = 0 THEN 0 ELSE s[n].id BY <1>3 DEF LastId
<1>6. LastId(t) = IF Len(t) = 0 THEN 0 ELSE t[Len(t)].id BY <1>4 DEF LastId
<1>7. \A i \in 1..n : s[i].id \in IdsIn(s) BY DEF IdsIn
<1>8. \A m \in IdsIn(t) : \E i \in 1..Len(t) : m = t[i].id BY DEF IdsIn
<1>9. Asc(s) => \A i, j \in 1..n : i < j => s[i].id < s[j].id BY DEF Asc
<1>10. (\A i, j \in 1..Len(t) : i < j => t[i].id < t[j].id) => Asc(t) BY DEF Asc
<1> HIDE DEF t, n
<1>11. d \in Nat /\ \A i \in 1..(n - d) : i + d \in 1..n BY <1>1, <1>2
<1>12. IdsIn(t) \subseteq IdsIn(s) BY <1>1, <1>7, <1>8, <1>11
<1>13. t = <<>> => s = <<>> BY <1>1, <1>2, <1>3, <1>4
<1>14. LastId(t) = LastId(s)
    <2>1. CASE n = 0 BY <1>1, <1>5, <1>6, <2>1
    <2>2. CASE n # 0
        <3>1. n - d \in 1..(n - d) /\ (n - d) + d = n /\ Len(t) # 0 BY <1>1, <1>2, <1>3, <2>2
        <3>2. t[n - d] = s[n] BY <1>1, <3>1
        <3> QED BY <1>1, <1>5, <1>6, <2>2, <3>1, <3>2
    <2> QED BY <2>1, <2>2
<1>15. ASSUME Asc(s) PROVE Asc(t)
    <2> SUFFICES ASSUME NEW i \in 1..(n - d), NEW j \in 1..(n - d), i < j PROVE t[i].id < t[j].id
        BY <1>1, <1>10
    <2>1. t[i] = s[i + d] /\ t[j] = s[j + d] BY <1>1
    <2>2. i + d \in 1..n /\ j + d \in 1..n BY <1>11
    <2>3. i + d < j + d BY <1>11
    <2> QED BY <1>9, <1>15, <2>1, <2>2, <2>3
<1> QED BY <1>2, <1>12, <1>13, <1>14, <1>15 DEF t

LEMMA MarkedList ==
    ASSUME NEW s \in Seq(Entry), NEW m
    PROVE  /\ IdsIn(Mark(s, m)) = IdsIn(s) /\ LastId(Mark(s, m)) = LastId(s)
           /\ Asc(s) => Asc(Mark(s, m))
           /\ s # <<>> => Mark(s, m) # <<>> /\ Mark(s, m)[1].id = s[1].id
<1> DEFINE t == Mark(s, m)
           n == Len(s)
<1>1. t \in Seq(Entry) /\ Len(t) = n /\ n \in Nat /\ \A i \in 1..n : t[i].id = s[i].id BY MarkIs
<1>2. (s = <<>> <=> n = 0) /\ (t = <<>> <=> Len(t) = 0)
    <2>1. s = <<>> <=> n = 0 OBVIOUS
    <2>2. t = <<>> <=> Len(t) = 0
        <3>1. t \in Seq(Entry) BY <1>1
        <3> HIDE DEF t
        <3> QED BY <3>1
    <2> QED BY <2>1, <2>2
<1> HIDE DEF t
<1>3. IdsIn(t) = IdsIn(s) BY <1>1 DEF IdsIn
<1>4. Asc(s) => Asc(t) BY <1>1 DEF Asc
<1>5. n # 0 => 1 \in 1..n /\ n \in 1..n BY <1>1
<1>6. LastId(t) = LastId(s)
    <2>1. LastId(s) = IF n = 0 THEN 0 ELSE s[n].id BY <1>2 DEF LastId
    <2>2. LastId(t) = IF n = 0 THEN 0 ELSE t[n].id BY <1>1, <1>2 DEF LastId
    <2> HIDE DEF n
    <2> QED BY <1>1, <1>5, <2>1, <2>2
<1> QED BY <1>1, <1>2, <1>3, <1>4, <1>5, <1>6 DEF t

Creates == IdsOf(wire, "create")

(* New messages come in the order of their ids. *)
WireOrder == \A i, j \in 1..Len(wire) : i < j /\ wire[j].what = "create" => wire[i].id < wire[j].id

(* Nothing under way is as old as the list; bounds of a list.                *)
Ahead(s) == \A m \in IdsIn(s), k \in Creates : m < k
Below(s, n) == \A m \in IdsIn(s) : m < n
Above(s, n) == \A m \in IdsIn(s) : m > n

(* The page is in order, and around a message it ends before it at first.    *)
PageOrder ==
    /\ Asc(load.page)
    /\ load.kind = "context" => ~load.answered
    /\ load.kind = "around" /\ ~load.answered => Below(load.page, load.at)

(* The answer to a request fits the list as it is. *)
Fits ==
    /\ load.answered => Ahead(load.page)
    /\ load.kind = "before" =>
         /\ view # <<>> /\ view[1].id = load.at
         /\ load.answered => Below(load.page, load.at)
    /\ load.kind = "recent" =>
         /\ view # <<>> /\ LastId(view) = load.at
         /\ load.answered => Above(load.page, load.at)

(* While nothing has crossed, the list is in order and new messages and the  *)
(* answer go on from it.                                                    *)
InOrder == Asc(view) /\ Ahead(view) /\ Fits

OrderInv == WireOrder /\ PageOrder /\ (~past.crossed => InOrder)

LEMMA SentInOrder ==
    ASSUME ViewTypeOK, WireTold, WireOrder, NEW e \in Event, wire' = Append(wire, e),
           e.what = "create" => posted < e.id
    PROVE  WireOrder'
<1> DEFINE n == Len(wire)
<1>1. n \in Nat /\ Len(wire') = n + 1 /\ wire'[n + 1] = e /\ \A i \in 1..n : wire'[i] = wire[i]
    BY DEF ViewTypeOK
<1>2. \A i \in 1..n : wire[i] \in Event BY DEF ViewTypeOK
<1>3. \A i \in 1..n : wire[i].id \in Nat /\ wire[i].id <= posted
    BY <1>2, QueriesAssumption DEF Event, Ids, WireTold
<1>4. \A i, j \in 1..n : i < j /\ wire[j].what = "create" => wire[i].id < wire[j].id BY DEF WireOrder
<1>5. posted \in Nat /\ e.id \in Nat BY QueriesAssumption DEF ViewTypeOK, Event, Ids
<1> HIDE DEF n
<1> SUFFICES ASSUME NEW i \in 1..(n + 1), NEW j \in 1..(n + 1), i < j, wire'[j].what = "create"
             PROVE  wire'[i].id < wire'[j].id
    BY <1>1 DEF WireOrder
<1>6. i \in 1..n BY <1>1
<1>7. CASE j \in 1..n BY <1>1, <1>4, <1>6, <1>7
<1>8. CASE j = n + 1 BY <1>1, <1>3, <1>5, <1>6, <1>8
<1> QED BY <1>1, <1>7, <1>8

LEMMA ReceivedInOrder ==
    ASSUME ViewTypeOK, WireOrder, wire # <<>>, wire' = Tail(wire)
    PROVE  /\ WireOrder' /\ Creates' \subseteq Creates
           /\ Head(wire).what = "create" => Head(wire).id \in Creates /\ \A k \in Creates' : Head(wire).id < k
<1> DEFINE n == Len(wire)
<1>1. /\ Len(wire') = n - 1 /\ n \in Nat \ {0} /\ Head(wire) = wire[1]
      /\ \A j \in 1..(n - 1) : wire'[j] = wire[j + 1] /\ j + 1 \in 1..n
    BY TailIs DEF ViewTypeOK
<1>2. \A i, j \in 1..n : i < j /\ wire[j].what = "create" => wire[i].id < wire[j].id BY DEF WireOrder
<1>3. Creates' \subseteq Creates
    <2>1. IdsOf(Tail(wire), "create") \subseteq IdsOf(wire, "create") BY TailIds DEF ViewTypeOK
    <2> QED BY <2>1 DEF Creates
<1>4. Head(wire).what = "create" => Head(wire).id \in Creates
    <2>1. 1 \in 1..Len(wire) BY <1>1
    <2> QED BY <1>1, <2>1 DEF Creates, IdsOf
<1>5. \A k \in Creates' : \E j \in 1..Len(wire') : wire'[j].what = "create" /\ k = wire'[j].id
    BY DEF Creates, IdsOf
<1> HIDE DEF n
<1>6. WireOrder'
    <2> SUFFICES ASSUME NEW i \in 1..(n - 1), NEW j \in 1..(n - 1), i < j, wire'[j].what = "create"
                 PROVE  wire'[i].id < wire'[j].id
        BY <1>1 DEF WireOrder
    <2>1. i + 1 < j + 1 BY <1>1
    <2> QED BY <1>1, <1>2, <2>1
<1>7. ASSUME NEW k \in Creates' PROVE wire[1].id < k
    <2>1. PICK j \in 1..(n - 1) : wire'[j].what = "create" /\ k = wire'[j].id BY <1>1, <1>5
    <2>2. 1 < j + 1 /\ 1 \in 1..n BY <1>1
    <2> QED BY <1>1, <1>2, <2>1, <2>2
<1> QED BY <1>1, <1>3, <1>4, <1>6, <1>7

LEMMA MergedInOrder ==
    ASSUME ViewTypeOK, Asc(load.page), InOrder, load.answered, load.page # <<>>
    PROVE  LET v == Merged(load.kind, load.page) IN
           /\ v \in Seq(Entry) /\ Asc(v) /\ IdsIn(v) \subseteq IdsIn(view) \cup IdsIn(load.page)
           /\ Ahead(v)
<1> DEFINE p == load.page
           v == Merged(load.kind, p)
<1>0. p \in Seq(Entry) /\ view \in Seq(Entry) BY LoadTypes DEF ViewTypeOK, Loads
<1>1. Asc(view) /\ Ahead(view) /\ Ahead(p) /\ Asc(p) BY DEF InOrder, Fits
<1>2. v \in Seq(Entry) /\ Asc(v) /\ IdsIn(v) \subseteq IdsIn(view) \cup IdsIn(p)
    <2>1. CASE load.kind = "before"
        <3>1. v = p \o view BY <2>1 DEF Merged
        <3>2. view # <<>> /\ Below(p, view[1].id) BY <2>1 DEF InOrder, Fits
        <3>3. \A k \in IdsIn(view) : k \in Int /\ view[1].id <= k
            BY <1>0, <1>1, <3>2, AscEnds, QueriesAssumption DEF Ids
        <3>4. view[1].id \in Int BY <1>0, <1>1, <3>2, <3>3, AscEnds
        <3>5. \A m \in IdsIn(p) : m \in Int /\ m < view[1].id
            <4>1. p # <<>> BY DEF p
            <4>2. \A m \in IdsIn(p) : m \in Int BY <1>0, <1>1, <4>1, AscEnds, QueriesAssumption DEF Ids
            <4> QED BY <3>2, <4>2 DEF Below
        <3> HIDE DEF p
        <3>6. \A m \in IdsIn(p), k \in IdsIn(view) : m < k BY <3>3, <3>4, <3>5
        <3> QED BY <1>0, <1>1, <3>1, <3>6, JoinedLists
    <2>2. CASE load.kind = "recent"
        <3>1. v = TheLast(view \o p) BY <2>2 DEF Merged
        <3>2. view # <<>> /\ Above(p, LastId(view)) BY <2>2 DEF InOrder, Fits
        <3>3. \A m \in IdsIn(view) : m \in Int /\ m <= LastId(view)
            BY <1>0, <1>1, <3>2, AscEnds, QueriesAssumption DEF Ids
        <3>4. LastId(view) \in Int BY <1>0, <1>1, <3>2, <3>3, AscEnds
        <3>5. \A k \in IdsIn(p) : k \in Int /\ LastId(view) < k
            <4>1. p # <<>> BY DEF p
            <4>2. \A k \in IdsIn(p) : k \in Int BY <1>0, <1>1, <4>1, AscEnds, QueriesAssumption DEF Ids
            <4> QED BY <3>2, <3>4, <4>2 DEF Above
        <3> HIDE DEF p
        <3>6. \A m \in IdsIn(view), k \in IdsIn(p) : m < k BY <3>3, <3>4, <3>5
        <3>7. Asc(view \o p) /\ view \o p \in Seq(Entry) /\ IdsIn(view \o p) = IdsIn(view) \cup IdsIn(p)
            BY <1>0, <1>1, <3>6, JoinedLists
        <3> QED BY <3>1, <3>7, LastOfList
    <2>3. CASE load.kind \notin {"before", "recent"}
        <3>1. v = p BY <2>3 DEF Merged
        <3> QED BY <1>0, <1>1, <3>1
    <2> QED BY <2>1, <2>2, <2>3
<1> HIDE DEF v, p
<1>3. Ahead(v) BY <1>1, <1>2 DEF Ahead
<1> QED BY <1>2, <1>3 DEF v, p

LEMMA KnownIds ==
    ASSUME ViewTypeOK, ToldInv
    PROVE  /\ \A m \in IdsIn(view) : m \in Nat /\ m <= posted
           /\ \A m \in IdsIn(load.page) : m \in Nat /\ m <= posted
<1>1. ASSUME NEW s \in Seq(Known) PROVE \A m \in IdsIn(s) : m \in Nat /\ m <= posted
    <2>1. \A i \in 1..Len(s) : s[i] \in Known BY <1>1
    <2>2. \A e \in Known : e \in Entry /\ e.id <= posted BY DEF Known
    <2>3. \A e \in Entry : e.id \in Nat BY QueriesAssumption DEF Entry, Ids
    <2> QED BY <2>1, <2>2, <2>3 DEF IdsIn
<1> QED BY <1>1 DEF ToldInv

(* Steps that leave the list and the request alone, and bring no message     *)
(* that is not newer than all.                                              *)
LEMMA StaysInOrder ==
    ASSUME InOrder, UNCHANGED <<view, load>>,
           \A k \in Creates' : k \in Creates \/ \A m \in IdsIn(view) \cup IdsIn(load.page) : m < k
    PROVE  InOrder'
<1>1. Ahead(view) => Ahead(view)' BY DEF Ahead
<1>2. Ahead(load.page) => Ahead(load.page)' BY DEF Ahead
<1>3. Asc(view)' BY DEF InOrder
<1>4. Fits' BY <1>2 DEF InOrder, Fits, Below, Above
<1> QED BY <1>1, <1>3, <1>4 DEF InOrder

LEMMA ViewInitOrder == ClientInit => OrderInv
<1> SUFFICES ASSUME ClientInit PROVE OrderInv OBVIOUS
<1>1. load = Request("init", 0) /\ view = <<>> /\ wire = <<>> BY DEF ClientInit
<1>2. load.page = <<>> /\ load.kind = "init" /\ load.answered = FALSE BY <1>1 DEF Request
<1>3. WireOrder BY <1>1 DEF WireOrder
<1>4. PageOrder BY <1>2 DEF PageOrder, Asc
<1>5. InOrder BY <1>1, <1>2 DEF InOrder, Asc, Ahead, IdsIn, Fits
<1> QED BY <1>3, <1>4, <1>5 DEF OrderInv

(* A request that has not been answered. *)
LEMMA Unanswered ==
    ASSUME NEW k, NEW c, load' = Request(k, c), k # "around"
    PROVE  /\ load'.kind = k /\ load'.at = c /\ load'.page = <<>> /\ load'.answered = FALSE
           /\ PageOrder'
<1>1. load'.kind = k /\ load'.at = c /\ load'.page = <<>> /\ load'.answered = FALSE BY DEF Request
<1> QED BY <1>1 DEF PageOrder, Asc

LEMMA NotLoading ==
    ASSUME load' = NoLoad
    PROVE  PageOrder' /\ Fits'
<1>1. load'.kind = "none" /\ load'.page = <<>> /\ load'.answered = FALSE BY DEF NoLoad
<1> QED BY <1>1 DEF PageOrder, Asc, Fits

(* Every step keeps the order.                                               *)
LEMMA OrderStep ==
    ASSUME ViewTypeOK, ToldInv, OrderInv, ClientNext
    PROVE  OrderInv'
<1>0. /\ ViewTypeOK' /\ StoreOK /\ (past.crossed => past'.crossed)
      /\ wire \in Seq(Event) /\ load \in Loads /\ past \in Past /\ view \in Seq(Entry)
      /\ load.page \in Seq(Entry) /\ posted \in Nat
    <2>1. ViewTypeOK' /\ (past.crossed => past'.crossed) BY ViewStepTypes DEF Changes
    <2>2. StoreOK /\ posted \in Nat BY QueriesAssumption DEF ViewTypeOK, StoreOK
    <2>3. wire \in Seq(Event) /\ load \in Loads /\ past \in Past /\ view \in Seq(Entry)
        BY DEF ViewTypeOK
    <2>4. load.page \in Seq(Entry) BY <2>3 DEF Loads
    <2> QED BY <2>1, <2>2, <2>3, <2>4
<1>1. WireOrder /\ PageOrder /\ WireTold /\ (~past.crossed => InOrder) BY DEF OrderInv, ToldInv
<1>r. ASSUME NEW k \in {"before", "recent", "context"}, NEW c, load' = Request(k, c)
      PROVE  PageOrder' /\ load'.kind = k /\ load'.at = c /\ load'.answered = FALSE
    <2>1. k # "around" BY <1>r
    <2> QED BY <1>r, <2>1, Unanswered
<1>2. /\ \A m \in IdsIn(view) : m \in Nat /\ m <= posted
      /\ \A m \in IdsIn(load.page) : m \in Nat /\ m <= posted
    BY KnownIds
<1>w. ASSUME wire' = wire PROVE WireOrder' /\ Creates' = Creates
    BY <1>1, <1>w DEF WireOrder, Creates
<1>p. ASSUME load' = load PROVE PageOrder' BY <1>1, <1>p DEF PageOrder, Below
<1>s. ASSUME UNCHANGED <<view, load>>, WireOrder',
             \A k \in Creates' : k \in Creates \/ \A m \in IdsIn(view) \cup IdsIn(load.page) : m < k
      PROVE  OrderInv'
    BY <1>0, <1>1, <1>p, <1>s, StaysInOrder DEF OrderInv
<1>3. CASE PostAndEmit
    <2>1. posted' = posted + 1 /\ posted' \in Ids BY <1>0, <1>3, StoreSteps DEF PostAndEmit
    <2> DEFINE e == [what |-> "create", id |-> posted']
    <2>2. e \in Event /\ e.what = "create" /\ e.id = posted' BY <2>1 DEF Event
    <2>3. wire' = wire \/ wire' = Append(wire, e) BY <1>3 DEF PostAndEmit
    <2>4. UNCHANGED <<view, load>> BY <1>3 DEF PostAndEmit
    <2> HIDE DEF e
    <2>5. CASE wire' = wire BY <1>w, <1>s, <2>4, <2>5
    <2>6. CASE wire' = Append(wire, e)
        <3>1. posted < e.id BY <1>0, <2>1, <2>2
        <3>2. WireOrder' BY <1>1, <2>2, <2>6, <3>1, SentInOrder
        <3>3. Creates' = Creates \cup {posted'}
            <4>1. IdsOf(wire', "create") = IdsOf(wire, "create") \cup {posted'}
                BY <1>0, <2>2, <2>6, AppendIds
            <4> QED BY <4>1 DEF Creates
        <3>4. \A m \in IdsIn(view) \cup IdsIn(load.page) : m < posted' BY <1>0, <1>2, <2>1
        <3> QED BY <1>s, <2>4, <3>2, <3>3, <3>4
    <2> QED BY <2>3, <2>5, <2>6
<1>4. CASE DeleteAndEmit
    <2>1. PICK m \in Ids :
            /\ wire' = IF joined THEN Append(wire, [what |-> "delete", id |-> m]) ELSE wire
            /\ UNCHANGED <<view, top, load, joined, lost>>
        BY <1>4 DEF DeleteAndEmit
    <2> DEFINE e == [what |-> "delete", id |-> m]
    <2>2. e \in Event /\ e.what = "delete" BY DEF Event
    <2>3. wire' = wire \/ wire' = Append(wire, e) BY <2>1
    <2> HIDE DEF e
    <2>5. CASE wire' = wire BY <1>w, <1>s, <2>1, <2>5
    <2>6. CASE wire' = Append(wire, e)
        <3>2. WireOrder' BY <1>1, <2>2, <2>6, SentInOrder
        <3>3. Creates' = Creates
            <4>1. IdsOf(wire', "create") = IdsOf(wire, "create") \cup {}
                BY <1>0, <2>2, <2>6, AppendIds
            <4> QED BY <4>1 DEF Creates
        <3> QED BY <1>s, <2>1, <3>2, <3>3
    <2> QED BY <2>3, <2>5, <2>6
<1>5. CASE FlushOnly BY <1>w, <1>s, <1>5 DEF FlushOnly, client
<1>6. CASE Join BY <1>w, <1>s, <1>6 DEF Join
<1>7. CASE LoseConnection
    <2>1. UNCHANGED <<view, load>> /\ wire' = <<>> BY <1>7 DEF LoseConnection
    <2>2. WireOrder' /\ Creates' = {} BY <2>1 DEF WireOrder, Creates, IdsOf
    <2> QED BY <1>s, <2>1, <2>2
<1>8. CASE ReceiveMessage
    <2> DEFINE m == Head(wire).id
               a == Append(view, Live(m))
    <2>1. wire # <<>> /\ Head(wire).what = "create" /\ wire' = Tail(wire) /\ load' = load
        BY <1>8 DEF ReceiveMessage
    <2>2. view' = TheLast(a) BY <1>8 DEF ReceiveMessage, Show
    <2>3. past'.crossed <=> past.crossed \/ Loading
        <3> DEFINE after == [past EXCEPT !.crossed = @ \/ Loading, !.gap = @ \/ past.jumped]
        <3>1. past' = [after EXCEPT !.seen = Max({@, LastId(TheLast(a))})]
            BY <1>8 DEF ReceiveMessage, Show
        <3>2. past'.crossed = after.crossed BY <3>1
        <3> HIDE DEF Loading
        <3>3. after.crossed <=> past.crossed \/ Loading BY <1>0 DEF Past
        <3> QED BY <3>2, <3>3
    <2>4. /\ WireOrder' /\ Creates' \subseteq Creates
          /\ m \in Creates /\ \A k \in Creates' : m < k
        BY <1>1, <2>1, ReceivedInOrder
    <2>5. ASSUME ~past'.crossed PROVE InOrder'
        <3>1. InOrder /\ load' = NoLoad BY <1>1, <2>1, <2>3, <2>5 DEF ToldInv, Loading
        <3>2. Live(m) \in Entry /\ Live(m).id = m
            <4>1. Head(wire) \in Event BY <1>0, <2>1, TailIs
            <4> QED BY <4>1 DEF Live, Entry, Event
        <3> HIDE DEF m
        <3>3. \A k \in IdsIn(view) : k < m BY <2>4, <3>1 DEF InOrder, Ahead
        <3>4. a \in Seq(Entry) /\ Asc(a) /\ IdsIn(a) = IdsIn(view) \cup {m}
            BY <1>0, <3>1, <3>2, <3>3, AppendedList DEF InOrder
        <3>5. Asc(view') /\ IdsIn(view') \subseteq IdsIn(view) \cup {m}
            BY <2>2, <3>4, LastOfList
        <3>6. Ahead(view)' BY <2>4, <3>1, <3>5 DEF InOrder, Ahead
        <3> QED BY <3>1, <3>5, <3>6, NotLoading DEF InOrder
    <2> QED BY <1>p, <2>1, <2>4, <2>5 DEF OrderInv
<1>9. CASE ReceiveDeletion
    <2> DEFINE m == Head(wire).id
    <2>1. wire # <<>> /\ wire' = Tail(wire) /\ load' = load BY <1>9 DEF ReceiveDeletion
    <2>2. view' = Mark(view, m) BY <1>9 DEF ReceiveDeletion, Show
    <2>4. WireOrder' /\ Creates' \subseteq Creates BY <1>1, <2>1, ReceivedInOrder
    <2>5. ASSUME ~past'.crossed PROVE InOrder'
        <3>1. InOrder BY <1>0, <1>1, <2>5
        <3> HIDE DEF m
        <3>2. /\ IdsIn(view') = IdsIn(view) /\ LastId(view') = LastId(view) /\ Asc(view')
              /\ view # <<>> => view' # <<>> /\ view'[1].id = view[1].id
            BY <1>0, <2>2, <3>1, MarkedList DEF InOrder
        <3>3. Ahead(view)' BY <2>4, <3>1, <3>2 DEF InOrder, Ahead
        <3>4. Fits' BY <2>1, <2>4, <3>1, <3>2 DEF InOrder, Fits, Ahead, Below, Above
        <3> QED BY <3>2, <3>3, <3>4 DEF InOrder
    <2> QED BY <1>p, <2>1, <2>4, <2>5 DEF OrderInv
<1>10. CASE ScrollUp
    <2>1. view # <<>> /\ load' = Request("before", view[1].id) /\ UNCHANGED <<view, wire, past>>
        BY <1>10 DEF ScrollUp
    <2>2. PageOrder' /\ load'.kind = "before" /\ load'.at = view[1].id /\ load'.answered = FALSE
        BY <1>r, <2>1
    <2>3. ASSUME ~past'.crossed PROVE InOrder'
        <3>1. Fits' BY <2>1, <2>2 DEF Fits
        <3> QED BY <1>1, <1>w, <2>1, <2>3, <3>1 DEF InOrder, Ahead
    <2> QED BY <1>w, <2>1, <2>2, <2>3 DEF OrderInv
<1>11. CASE ScrollDown
    <2>1. view # <<>> /\ load' = Request("recent", LastId(view)) /\ UNCHANGED <<view, wire, past>>
        BY <1>11 DEF ScrollDown
    <2>2. PageOrder' /\ load'.kind = "recent" /\ load'.at = LastId(view) /\ load'.answered = FALSE
        BY <1>r, <2>1
    <2>3. ASSUME ~past'.crossed PROVE InOrder'
        <3>1. Fits' BY <2>1, <2>2 DEF Fits
        <3> QED BY <1>1, <1>w, <2>1, <2>3, <3>1 DEF InOrder, Ahead
    <2> QED BY <1>w, <2>1, <2>2, <2>3 DEF OrderInv
<1>12. CASE Jump
    <2>1. PICK m \in 1..posted : load' = Request("context", m) /\ view' = <<>> /\ wire' = wire
        BY <1>12 DEF Jump
    <2>2. PageOrder' /\ load'.kind = "context" /\ load'.answered = FALSE
        BY <1>r, <2>1
    <2>3. Asc(view') /\ Ahead(view)' BY <2>1 DEF Asc, Ahead, IdsIn
    <2>4. Fits' BY <2>2 DEF Fits
    <2> QED BY <1>w, <2>1, <2>2, <2>3, <2>4 DEF OrderInv, InOrder
<1>13. CASE AnswerBefore
    <2>1. UNCHANGED <<store, wire, view>> BY <1>13 DEF AnswerBefore
    <2>2. /\ load'.page = AroundBefore(load.at) /\ load'.kind = "around" /\ load'.at = load.at
          /\ load'.answered = load.answered /\ load.kind = "context"
        BY <1>0, <1>13 DEF AnswerBefore, Loads
    <2>3. IsPage(load'.page, {m \in 1..posted : m < load.at}) BY <1>0, <2>2, PagesAre
    <2>4. Asc(load'.page) /\ Below(load'.page, load'.at) BY <2>2, <2>3 DEF IsPage, Below, IdsIn
    <2>5. PageOrder' BY <2>2, <2>4 DEF PageOrder
    <2>6. ASSUME ~past'.crossed PROVE InOrder'
        <3>1. InOrder /\ ~load.answered BY <1>0, <1>1, <2>2, <2>6 DEF PageOrder
        <3>2. Fits' BY <2>2, <3>1 DEF Fits
        <3> QED BY <1>w, <2>1, <3>1, <3>2 DEF InOrder, Ahead
    <2> QED BY <1>w, <2>1, <2>5, <2>6 DEF OrderInv
<1>14. CASE Answer
    <2>1. UNCHANGED <<wire, view>> BY <1>14 DEF Answer
    <2>2. PICK p : load' = [load EXCEPT !.answered = TRUE, !.page = p] /\ AnswerOf(p) BY <1>14, AnswerIs
    <2>3. load'.page = p /\ load'.kind = load.kind /\ load'.at = load.at /\ load'.answered = TRUE
        BY <1>0, <2>2 DEF Loads
    <2>4. p \in Seq(Entry) BY <2>2 DEF AnswerOf
    <2>5. Asc(p)
        <3>1. CASE load.kind # "around" BY <2>2, <3>1 DEF AnswerOf, IsPage
        <3>2. CASE load.kind = "around"
            <4>1. PICK q : p = load.page \o q /\ IsPage(q, {m \in 1..posted : m >= load.at})
                BY <2>2, <3>2 DEF AnswerOf
            <4>2. Asc(load.page) /\ Below(load.page, load.at) BY <1>1, <1>14, <3>2 DEF PageOrder, Answer
            <4>3. q \in Seq(Entry) /\ Asc(q) /\ \A k \in IdsIn(q) : k \in Nat /\ k >= load.at
                BY <1>0, <4>1 DEF IsPage, IdsIn
            <4>4. load.at \in Nat BY <1>0, QueriesAssumption DEF Loads
            <4>5. \A m \in IdsIn(load.page), k \in IdsIn(q) : m < k BY <1>2, <4>2, <4>3, <4>4 DEF Below
            <4> QED BY <1>0, <4>1, <4>2, <4>3, <4>5, JoinedLists
        <3> QED BY <3>1, <3>2
    <2>6. ASSUME ~past'.crossed PROVE InOrder'
        <3>1. InOrder /\ wire = <<>> BY <1>0, <1>1, <1>14, <2>6 DEF Answer, Past
        <3>2. Creates' = {} BY <2>1, <3>1 DEF Creates, IdsOf
        <3>3. Ahead(load.page)' BY <3>2 DEF Ahead
        <3>4. load.kind = "before" => Below(p, load.at) BY <2>2 DEF AnswerOf, IsPage, Below, IdsIn
        <3>5. load.kind = "recent" => Above(p, load.at) BY <2>2 DEF AnswerOf, IsPage, Above, IdsIn
        <3>6. Fits' BY <2>1, <2>3, <3>1, <3>3, <3>4, <3>5 DEF InOrder, Fits
        <3> QED BY <2>1, <3>1, <3>2, <3>6 DEF InOrder, Ahead
    <2>7. load.kind # "context" BY <1>14 DEF Answer
    <2>8. PageOrder' BY <2>3, <2>5, <2>7 DEF PageOrder
    <2> QED BY <1>w, <2>1, <2>6, <2>8 DEF OrderInv
<1>15. CASE Apply
    <2>1. wire' = wire /\ load' = NoLoad /\ load.answered BY <1>15 DEF Apply
    <2>2. ASSUME ~past'.crossed PROVE InOrder'
        <3>1. InOrder BY <1>0, <1>1, <2>2
        <3>2. CASE load.page = <<>>
            <4>1. view' = view BY <1>15, <3>2 DEF Apply
            <4> QED BY <1>w, <2>1, <3>1, <4>1, NotLoading DEF InOrder, Ahead
        <3>3. CASE load.page # <<>>
            <4>1. view' = Merged(load.kind, load.page) BY <1>15, <3>3 DEF Apply, Show
            <4>2. Asc(view') /\ Ahead(Merged(load.kind, load.page))
                BY <1>1, <2>1, <3>1, <3>3, <4>1, MergedInOrder DEF PageOrder
            <4>3. Ahead(view)' BY <1>w, <2>1, <4>1, <4>2 DEF Ahead
            <4> QED BY <2>1, <4>2, <4>3, NotLoading DEF InOrder
        <3> QED BY <3>2, <3>3
    <2> QED BY <1>w, <2>1, <2>2, NotLoading DEF OrderInv
<1>16. CASE LoadFails
    <2>1. UNCHANGED <<wire, view>> /\ load' = NoLoad BY <1>16 DEF LoadFails
    <2>2. ASSUME ~past'.crossed PROVE InOrder'
        <3>1. InOrder BY <1>0, <1>1, <2>2
        <3> QED BY <1>w, <2>1, <3>1, NotLoading DEF InOrder, Ahead
    <2> QED BY <1>w, <2>1, <2>2, NotLoading DEF OrderInv
<1> QED BY <1>3, <1>4, <1>5, <1>6, <1>7, <1>8, <1>9, <1>10, <1>11, <1>12, <1>13, <1>14, <1>15, <1>16
        DEF ClientNext

LEMMA InOrderShows == ViewTypeOK /\ OrderInv => ViewInOrder
<1> SUFFICES ASSUME ViewTypeOK, OrderInv, ~past.crossed, NEW i \in 1..(Len(view) - 1)
             PROVE  view[i].id < view[i + 1].id
    BY DEF ViewInOrder
<1>1. Asc(view) BY DEF OrderInv, InOrder
<1>2. Len(view) \in Nat BY DEF ViewTypeOK
<1>3. i \in 1..Len(view) /\ i + 1 \in 1..Len(view) /\ i < i + 1 BY <1>2
<1> QED BY <1>1, <1>3 DEF Asc

LEMMA StillOrder == UNCHANGED viewVars /\ OrderInv => OrderInv'
<1> SUFFICES ASSUME UNCHANGED viewVars, OrderInv PROVE OrderInv' OBVIOUS
<1>1. UNCHANGED <<view, load, wire, past>> BY DEF viewVars, client
<1>2. Creates' = Creates BY <1>1 DEF Creates
<1>3. WireOrder' BY <1>1 DEF WireOrder, OrderInv
<1>4. PageOrder' BY <1>1 DEF PageOrder, Below, OrderInv
<1>5. InOrder => InOrder' BY <1>1, <1>2, StaysInOrder
<1> QED BY <1>1, <1>3, <1>4, <1>5 DEF OrderInv

(* ViewInOrder: the list shows messages in the order of their ids and none   *)
(* twice, unless a live message and a page passed each other.               *)
THEOREM ListsAreInOrder == ViewSpec => []ViewInOrder
<1> DEFINE Inv == ViewTypeOK /\ ToldInv /\ OrderInv
<1>1. StoreInit /\ ClientInit => Inv BY ViewInitTold, ViewInitOrder
<1>2. Inv /\ [ClientNext]_viewVars => Inv'
    BY ViewStepTypes, ToldStep, OrderStep, StillView, StillOrder
<1>3. Inv => ViewInOrder BY InOrderShows
<1> QED BY <1>1, <1>2, <1>3, PTL DEF ViewSpec

-----------------------------------------------------------------------------
(* Holes in the list                                                        *)

(* With two ids, all between them. *)
Dense(T) == \A m, k \in T : \A j \in Nat : m < j /\ j < k => j \in T

(* Sets without a hole that adjoin, and the newest or oldest few of one.     *)
LEMMA DenseUnion ==
    ASSUME NEW A \in SUBSET Nat, NEW B \in SUBSET Nat, NEW c \in Nat, Dense(A), Dense(B),
           \A m \in A : m < c, \A k \in B : c <= k,
           A = {} \/ c - 1 \in A, B = {} \/ c \in B
    PROVE  Dense(A \cup B)
<1> SUFFICES ASSUME NEW m \in A \cup B, NEW k \in A \cup B, NEW j \in Nat, m < j, j < k
             PROVE  j \in A \cup B
    BY DEF Dense
<1>1. CASE m \in A /\ k \in A BY <1>1 DEF Dense
<1>2. CASE m \in B /\ k \in B BY <1>2 DEF Dense
<1>3. CASE m \in B /\ k \in A BY <1>3
<1>4. CASE m \in A /\ k \in B
    <2>1. c - 1 \in A /\ c \in B BY <1>4
    <2>2. CASE j < c
        <3>1. j = c - 1 \/ j < c - 1 BY <2>2
        <3> QED BY <1>4, <2>1, <3>1 DEF Dense
    <2>3. CASE c <= j
        <3>1. j = c \/ c < j BY <2>3
        <3> QED BY <1>4, <2>1, <3>1 DEF Dense
    <2> QED BY <2>2, <2>3
<1> QED BY <1>1, <1>2, <1>3, <1>4

LEMMA DenseNewest ==
    ASSUME NEW lo \in Nat \ {0}, NEW hi \in Nat, lo..hi \subseteq Ids, NEW n \in Nat \ {0}
    PROVE  /\ Newest(lo..hi, n) \subseteq lo..hi /\ Dense(Newest(lo..hi, n))
           /\ lo <= hi => hi \in Newest(lo..hi, n)
<1> DEFINE S == lo..hi
           T == Newest(S, n)
           Later(m) == {k \in S : k > m}
<1>1. \A m : m \in T <=> m \in S /\ Cardinality(Later(m)) < n BY DEF Newest
<1>2. IsFiniteSet(S) BY IdsFinite
<1>3. ASSUME NEW m \in S, NEW j \in S, m < j, m \in T PROVE j \in T
    <2> DEFINE A == Later(j)
               B == Later(m)
    <2>1. IsFiniteSet(B) BY <1>2, FS_Subset
    <2>2. A \subseteq B
        <3>1. \A k \in S : k > j => k > m BY <1>3
        <3> QED BY <3>1
    <2> HIDE DEF A, B
    <2>3. Cardinality(A) <= Cardinality(B) /\ IsFiniteSet(A) BY <2>1, <2>2, FS_Subset
    <2>4. Cardinality(A) \in Nat /\ Cardinality(B) \in Nat BY <2>1, <2>3, FS_CardinalityType
    <2>5. Cardinality(B) < n BY <1>1, <1>3 DEF B
    <2>6. Cardinality(A) < n BY <2>3, <2>4, <2>5
    <2> QED BY <1>1, <1>3, <2>6 DEF A
<1>4. T \subseteq S BY <1>1
<1>5. lo <= hi => hi \in T
    <2> SUFFICES ASSUME lo <= hi PROVE hi \in T OBVIOUS
    <2>1. hi \in S /\ Later(hi) = {} OBVIOUS
    <2>2. Cardinality(Later(hi)) = 0 BY <2>1, FS_EmptySet
    <2>3. Cardinality(Later(hi)) < n BY <2>2
    <2>4. hi \in S BY <2>1
    <2> HIDE DEF S, T, Later
    <2> QED BY <1>1, <2>3, <2>4
<1>6. Dense(T)
    <2> SUFFICES ASSUME NEW m \in T, NEW k \in T, NEW j \in Nat, m < j, j < k PROVE j \in T
        BY DEF Dense
    <2>1. m \in S /\ k \in S BY <1>4
    <2>2. j \in S BY <2>1
    <2> QED BY <1>3, <2>1, <2>2
<1> QED BY <1>4, <1>5, <1>6 DEF T, S

LEMMA DenseOldest ==
    ASSUME NEW lo \in Nat \ {0}, NEW hi \in Nat, lo..hi \subseteq Ids, NEW n \in Nat \ {0}
    PROVE  /\ Oldest(lo..hi, n) \subseteq lo..hi /\ Dense(Oldest(lo..hi, n))
           /\ lo <= hi => lo \in Oldest(lo..hi, n)
           /\ lo = 1 /\ lo <= hi /\ hi <= n => hi \in Oldest(lo..hi, n)
<1> DEFINE S == lo..hi
           T == Oldest(S, n)
           Earlier(m) == {k \in S : k < m}
<1>1. \A m : m \in T <=> m \in S /\ Cardinality(Earlier(m)) < n BY DEF Oldest
<1>2. IsFiniteSet(S) BY IdsFinite
<1>3. ASSUME NEW m \in S, NEW j \in S, j < m, m \in T PROVE j \in T
    <2> DEFINE A == Earlier(j)
               B == Earlier(m)
    <2>1. IsFiniteSet(B) BY <1>2, FS_Subset
    <2>2. A \subseteq B
        <3>1. \A k \in S : k < j => k < m BY <1>3
        <3> QED BY <3>1
    <2> HIDE DEF A, B
    <2>3. Cardinality(A) <= Cardinality(B) /\ IsFiniteSet(A) BY <2>1, <2>2, FS_Subset
    <2>4. Cardinality(A) \in Nat /\ Cardinality(B) \in Nat BY <2>1, <2>3, FS_CardinalityType
    <2>5. Cardinality(B) < n BY <1>1, <1>3 DEF B
    <2>6. Cardinality(A) < n BY <2>3, <2>4, <2>5
    <2> QED BY <1>1, <1>3, <2>6 DEF A
<1>4. T \subseteq S BY <1>1
<1>5. lo <= hi => lo \in T
    <2> SUFFICES ASSUME lo <= hi PROVE lo \in T OBVIOUS
    <2>1. lo \in S /\ Earlier(lo) = {} OBVIOUS
    <2>2. Cardinality(Earlier(lo)) = 0 BY <2>1, FS_EmptySet
    <2>3. Cardinality(Earlier(lo)) < n BY <2>2
    <2>4. lo \in S BY <2>1
    <2> HIDE DEF S, T, Earlier
    <2> QED BY <1>1, <2>3, <2>4
<1>7. lo = 1 /\ lo <= hi /\ hi <= n => hi \in T
    <2> SUFFICES ASSUME lo = 1, lo <= hi, hi <= n PROVE hi \in T OBVIOUS
    <2>1. hi \in S /\ Earlier(hi) = 1..(hi - 1)
        <3>1. \A k : k \in 1..hi /\ k < hi <=> k \in 1..(hi - 1) OBVIOUS
        <3>2. Earlier(hi) = {k \in 1..hi : k < hi} OBVIOUS
        <3>3. hi \in S OBVIOUS
        <3> HIDE DEF S, Earlier
        <3> QED BY <3>1, <3>2, <3>3
    <2>2. Cardinality(1..(hi - 1)) = IF 1 > hi - 1 THEN 0 ELSE (hi - 1) - 1 + 1
        <3>1. 1 \in Int /\ hi - 1 \in Int OBVIOUS
        <3> QED BY <3>1, FS_Interval
    <2>4. hi \in S BY <2>1
    <2> HIDE DEF S, T, Earlier
    <2>3. Cardinality(Earlier(hi)) < n
        <3> DEFINE x == Cardinality(1..(hi - 1))
        <3>1. Cardinality(Earlier(hi)) = x BY <2>1
        <3>2. x = IF 1 > hi - 1 THEN 0 ELSE (hi - 1) - 1 + 1 BY <2>2
        <3> HIDE DEF x
        <3>3. x < n BY <3>2
        <3> QED BY <3>1, <3>3
    <2> QED BY <1>1, <2>3, <2>4
<1>6. Dense(T)
    <2> SUFFICES ASSUME NEW m \in T, NEW k \in T, NEW j \in Nat, m < j, j < k PROVE j \in T
        BY DEF Dense
    <2>1. m \in S /\ k \in S BY <1>4
    <2>2. j \in S BY <2>1
    <2> QED BY <1>3, <2>1, <2>2
<1> QED BY <1>4, <1>5, <1>6, <1>7 DEF T, S

LEMMA EntriesIds ==
    ASSUME NEW S \in SUBSET Ids
    PROVE  IdsIn(Entries(S)) = S /\ (Entries(S) = <<>> <=> S = {})
<1> DEFINE e == Entries(S)
<1>1. /\ e \in Seq(Entry) /\ \A i \in 1..Len(e) : e[i].id \in S
      /\ \A m \in S : \E i \in 1..Len(e) : e[i].id = m
    BY EntriesAre DEF IsPage
<1> HIDE DEF e
<1>2. IdsIn(e) = S BY <1>1 DEF IdsIn
<1>3. e = <<>> => S = {} BY <1>1
<1>4. S = {} => e = <<>>
    <2> SUFFICES ASSUME S = {} PROVE e = <<>> OBVIOUS
    <2>1. Len(e) \in Nat /\ ~(1 \in 1..Len(e)) BY <1>1
    <2>2. Len(e) = 0 BY <2>1
    <2> QED BY <1>1, <2>2
<1> QED BY <1>2, <1>3, <1>4 DEF e

(* What was in the room before the cache was is stored. *)
Stocked == trimmed <= stored

(* Pages have no hole and adjoin the message they were from around.         *)
LEMMA PagesDense ==
    ASSUME StoreOK, Stocked
    PROVE  /\ Dense(IdsIn(FirstPage))
           /\ FirstPage # <<>> /\ (Cached # {} \/ stored <= PageSize) => posted \in IdsIn(FirstPage)
           /\ \A c \in Ids :
                /\ c <= stored + 1 =>
                     /\ Dense(IdsIn(Before(c))) /\ (Before(c) # <<>> => c - 1 \in IdsIn(Before(c)))
                     /\ Dense(IdsIn(AroundBefore(c)))
                     /\ AroundBefore(c) # <<>> => c - 1 \in IdsIn(AroundBefore(c))
                /\ Dense(IdsIn(Recent(c))) /\ (Recent(c) # <<>> => c + 1 \in IdsIn(Recent(c)))
                /\ Dense(IdsIn(AroundFrom(c))) /\ (AroundFrom(c) # <<>> => c \in IdsIn(AroundFrom(c)))
<1>1. /\ MaxPosted \in Nat /\ PageSize \in Nat \ {0} /\ CacheSize \in Nat \ {0} /\ HalfSize \in Nat \ {0}
      /\ posted \in Nat /\ posted <= MaxPosted /\ stored \in Nat /\ stored <= posted
      /\ trimmed \in Nat /\ trimmed <= posted
    BY QueriesAssumption DEF StoreOK
<1>2. Rows = 1..stored /\ \A lo \in Nat \ {0}, hi \in Nat : hi <= posted => lo..hi \subseteq Ids
    BY <1>1 DEF Rows, Ids
<1>3. /\ Dense(IdsIn(FirstPage))
      /\ FirstPage # <<>> /\ (Cached # {} \/ stored <= PageSize) => posted \in IdsIn(FirstPage)
    <2> DEFINE lo == trimmed + 1
    <2>0. lo \in Nat \ {0} /\ posted <= posted BY <1>1
    <2> HIDE DEF lo
    <2>1. lo \in Nat \ {0} /\ lo..posted \subseteq Ids BY <1>1, <1>2, <2>0
    <2>2. /\ Cached \subseteq lo..posted /\ Dense(Cached)
          /\ lo <= posted => posted \in Cached
        <3>1. Cached = Newest(lo..posted, CacheSize) BY DEF Cached, lo
        <3> QED BY <1>1, <2>1, <3>1, DenseNewest
    <2>3. CASE Cached # {}
        <3>1. lo <= posted
            <4>1. PICK m \in lo..posted : TRUE BY <2>2, <2>3
            <4> QED BY <1>1, <2>1, <4>1
        <3>2. FirstPage = Entries(Cached) /\ Cached \in SUBSET Ids BY <2>1, <2>2, <2>3 DEF FirstPage
        <3> QED BY <2>2, <3>1, <3>2, EntriesIds
    <2>4. CASE Cached = {}
        <3>1. ~(trimmed + 1 <= posted) BY <2>2, <2>4 DEF lo
        <3>2. stored = posted BY <1>1, <3>1 DEF Stocked
        <3> DEFINE T == Oldest(1..stored, PageSize)
        <3>3. T \subseteq 1..stored /\ Dense(T) /\ (stored <= PageSize /\ 1 <= posted => posted \in T)
            <4>0. 1 \in Nat \ {0} OBVIOUS
            <4>1. 1 \in Nat \ {0} /\ 1..stored \subseteq Ids BY <1>1, <1>2, <4>0
            <4> HIDE DEF T
            <4>2. T \subseteq 1..stored /\ Dense(T) BY <1>1, <4>1, DenseOldest DEF T
            <4>3. stored <= PageSize /\ 1 <= stored => stored \in T BY <1>1, <4>1, DenseOldest DEF T
            <4> QED BY <3>2, <4>2, <4>3
        <3>4. FirstPage = Entries(T) BY <1>2, <2>4 DEF FirstPage
        <3> HIDE DEF T
        <3>5. T \in SUBSET Ids BY <1>1, <1>2, <3>3 DEF Ids
        <3>6. IdsIn(FirstPage) = T /\ (FirstPage = <<>> <=> T = {}) BY <3>4, <3>5, EntriesIds
        <3>7. T # {} => 1 <= posted
            <4> SUFFICES ASSUME NEW m \in T PROVE 1 <= posted OBVIOUS
            <4>1. m \in 1..stored BY <3>3
            <4> QED BY <1>1, <3>2, <4>1
        <3> QED BY <2>4, <3>3, <3>6, <3>7
    <2> QED BY <2>3, <2>4
<1>4. ASSUME NEW n \in Nat \ {0}, NEW c \in Ids, c <= stored + 1, NEW p,
             p = Entries(Newest({m \in Rows : m < c}, n))
      PROVE  Dense(IdsIn(p)) /\ (p # <<>> => c - 1 \in IdsIn(p))
    <2>1. {m \in Rows : m < c} = 1..(c - 1) /\ c - 1 \in Nat /\ c - 1 <= posted
        BY <1>1, <1>2, <1>4 DEF Ids
    <2> DEFINE T == Newest(1..(c - 1), n)
    <2>2. 1..(c - 1) \subseteq Ids /\ 1 \in Nat \ {0} BY <1>2, <2>1
    <2>3. T \subseteq 1..(c - 1) /\ Dense(T) /\ (1 <= c - 1 => c - 1 \in T)
        BY <2>1, <2>2, DenseNewest
    <2>4. p = Entries(T) BY <1>4, <2>1
    <2> HIDE DEF T
    <2>5. T \in SUBSET Ids BY <2>2, <2>3
    <2>6. IdsIn(p) = T /\ (p = <<>> <=> T = {}) BY <2>4, <2>5, EntriesIds
    <2>7. T # {} => 1 <= c - 1
        <3> SUFFICES ASSUME NEW m \in T PROVE 1 <= c - 1 OBVIOUS
        <3>1. m \in 1..(c - 1) BY <2>3
        <3> QED BY <2>1, <3>1
    <2> QED BY <2>3, <2>6, <2>7
<1>5. ASSUME NEW n \in Nat \ {0}, NEW lo \in Nat \ {0}, NEW p, NEW S, S = lo..stored,
             p = Entries(Oldest(S, n))
      PROVE  Dense(IdsIn(p)) /\ (p # <<>> => lo \in IdsIn(p))
    <2> DEFINE T == Oldest(lo..stored, n)
    <2>2. lo..stored \subseteq Ids BY <1>1, <1>2
    <2>3. T \subseteq lo..stored /\ Dense(T) /\ (lo <= stored => lo \in T)
        BY <1>1, <2>2, DenseOldest
    <2>4. p = Entries(T) BY <1>5
    <2> HIDE DEF T
    <2>5. T \in SUBSET Ids BY <2>2, <2>3
    <2>6. IdsIn(p) = T /\ (p = <<>> <=> T = {}) BY <2>4, <2>5, EntriesIds
    <2>7. T # {} => lo <= stored
        <3> SUFFICES ASSUME NEW m \in T PROVE lo <= stored OBVIOUS
        <3>1. m \in lo..stored BY <2>3
        <3> QED BY <1>1, <3>1
    <2> QED BY <2>3, <2>6, <2>7
<1>6. ASSUME NEW c \in Ids
      PROVE  {m \in Rows : m > c} = (c + 1)..stored /\ {m \in Rows : m >= c} = c..stored
             /\ c + 1 \in Nat \ {0} /\ c \in Nat \ {0}
    BY <1>1, <1>2 DEF Ids
<1>7. ASSUME NEW c \in Ids
      PROVE  Dense(IdsIn(Recent(c))) /\ (Recent(c) # <<>> => c + 1 \in IdsIn(Recent(c)))
    BY <1>1, <1>5, <1>6 DEF Recent
<1>8. ASSUME NEW c \in Ids
      PROVE  Dense(IdsIn(AroundFrom(c))) /\ (AroundFrom(c) # <<>> => c \in IdsIn(AroundFrom(c)))
    BY <1>1, <1>5, <1>6 DEF AroundFrom
<1>9. ASSUME NEW c \in Ids, c <= stored + 1
      PROVE  Dense(IdsIn(Before(c))) /\ (Before(c) # <<>> => c - 1 \in IdsIn(Before(c)))
    BY <1>1, <1>4, <1>9 DEF Before
<1>10. ASSUME NEW c \in Ids, c <= stored + 1
       PROVE  Dense(IdsIn(AroundBefore(c))) /\ (AroundBefore(c) # <<>> => c - 1 \in IdsIn(AroundBefore(c)))
    BY <1>1, <1>4, <1>10 DEF AroundBefore
<1> QED BY <1>3, <1>7, <1>8, <1>9, <1>10

LEMMA LastOfListDense ==
    ASSUME NEW s \in Seq(Entry), Asc(s), Dense(IdsIn(s))
    PROVE  Dense(IdsIn(TheLast(s)))
<1> DEFINE t == TheLast(s)
           n == Len(s)
<1>1. PICK d \in 0..n : /\ Len(t) = n - d
                        /\ \A i \in 1..(n - d) : t[i] = s[i + d]
    BY TheLastIs
<1>2. n \in Nat OBVIOUS
<1>3. \A i \in 1..n : s[i] \in Entry OBVIOUS
<1>4. \A i \in 1..n : s[i].id \in Nat BY <1>3, QueriesAssumption DEF Entry, Ids
<1>5. \A i, j \in 1..n : i < j => s[i].id < s[j].id BY DEF Asc
<1>6. /\ \A m \in IdsIn(t) : \E i \in 1..Len(t) : m = t[i].id
      /\ \A i \in 1..Len(t) : t[i].id \in IdsIn(t)
      /\ \A m \in IdsIn(s) : \E i \in 1..n : m = s[i].id
      /\ \A i \in 1..n : s[i].id \in IdsIn(s)
    BY DEF IdsIn
<1> HIDE DEF t, n
<1> SUFFICES ASSUME NEW m \in IdsIn(t), NEW k \in IdsIn(t), NEW j \in Nat, m < j, j < k
             PROVE  j \in IdsIn(t)
    BY DEF Dense, t
<1>7. PICK a \in 1..(n - d), b \in 1..(n - d) : m = t[a].id /\ k = t[b].id BY <1>1, <1>6
<1>8. a + d \in 1..n /\ b + d \in 1..n /\ d \in Nat BY <1>1, <1>2
<1>9. m = s[a + d].id /\ k = s[b + d].id BY <1>1, <1>7
<1>10. j \in IdsIn(s) BY <1>6, <1>8, <1>9 DEF Dense
<1>11. PICK l \in 1..n : j = s[l].id BY <1>6, <1>10
<1>12. ~(l < a + d) /\ l # a + d
    <2>1. l < a + d => s[l].id < s[a + d].id BY <1>5, <1>8
    <2>2. s[l].id = j /\ s[a + d].id = m /\ m \in Nat BY <1>4, <1>8, <1>9, <1>11
    <2>3. ~(j < m) /\ j # m BY <2>2
    <2> QED BY <2>1, <2>2, <2>3
<1>13. l - d \in 1..(n - d) /\ (l - d) + d = l BY <1>2, <1>8, <1>12
<1>14. t[l - d] = s[l] BY <1>1, <1>13
<1> QED BY <1>1, <1>6, <1>11, <1>13, <1>14

LEMMA StockStep ==
    ASSUME StoreOK, Stocked, ClientNext
    PROVE  Stocked'
<1>1. CASE FlushOnly
    <2>1. PICK n \in (stored + 1)..posted : stored' = n /\ trimmed' = trimmed
        BY <1>1 DEF FlushOnly, Flush
    <2>2. stored \in Int /\ posted \in Int /\ trimmed \in Int
        BY QueriesAssumption DEF StoreOK
    <2> QED BY <2>1, <2>2 DEF Stocked
<1>2. CASE ~FlushOnly
    <2>1. UNCHANGED <<stored, trimmed>>
        BY <1>2 DEF ClientNext, PostAndEmit, Post, DeleteAndEmit, Delete, Join, LoseConnection,
           ReceiveMessage, ReceiveDeletion, ScrollUp, ScrollDown, Jump, AnswerBefore, Answer,
           Apply, LoadFails, store
    <2> QED BY <2>1 DEF Stocked
<1> QED BY <1>1, <1>2

(* All messages after this one are on their way. *)
Covered(n) == \A k \in Nat : n < k /\ k <= posted => k \in Creates

(* The events go on without a hole, from the list if it holds the newest, or *)
(* from a first page.                                                       *)
LiveGoesOn ==
    /\ \A n \in Creates : Covered(n)
    /\ ~past.jumped /\ view # <<>> => Covered(LastId(view))
    /\ ~past.jumped /\ load.answered /\ load.kind = "init" /\ load.page # <<>>
         => Covered(LastId(load.page))

(* A page goes on where it was from to. *)
Adjoins ==
    /\ ~past.jumped /\ load.kind = "recent" => load.page = <<>>
    /\ load.page # <<>> =>
         /\ load.kind = "before" => load.at - 1 \in IdsIn(load.page)
         /\ load.kind = "recent" => load.at + 1 \in IdsIn(load.page)
         /\ load.kind = "around" /\ ~load.answered => load.at - 1 \in IdsIn(load.page)

NoGap == Dense(IdsIn(view)) /\ Dense(IdsIn(load.page)) /\ LiveGoesOn /\ Adjoins

(* While nothing has crossed or been left out, neither list nor page has a   *)
(* hole, and events and pages go on from the list.                          *)
HoleInv ==
    /\ Stocked
    /\ load.kind \in {"context", "around"} => past.jumped /\ load.at \in Ids
    /\ ~past.crossed /\ ~past.gap => NoGap

LEMMA ViewInitHole == StoreInit /\ ClientInit => HoleInv
<1> SUFFICES ASSUME StoreInit, ClientInit PROVE HoleInv OBVIOUS
<1>1. load = Request("init", 0) /\ view = <<>> /\ wire = <<>> BY DEF ClientInit
<1>2. load.page = <<>> /\ load.kind = "init" /\ load.answered = FALSE BY <1>1 DEF Request
<1>3. Stocked
    <2>1. posted \in Nat /\ stored = posted /\ trimmed \in {0, posted}
        BY QueriesAssumption DEF StoreInit
    <2> QED BY <2>1 DEF Stocked
<1>4. IdsIn(view) = {} /\ IdsIn(load.page) = {} /\ Creates = {}
    BY <1>1, <1>2 DEF IdsIn, Creates, IdsOf
<1>5. LiveGoesOn BY <1>1, <1>2, <1>4 DEF LiveGoesOn
<1>6. Adjoins BY <1>2 DEF Adjoins
<1>7. NoGap BY <1>4, <1>5, <1>6 DEF NoGap, Dense
<1> QED BY <1>2, <1>3, <1>7 DEF HoleInv

LEMMA EmptyPage == IdsIn(<<>>) = {} /\ Dense({})
BY DEF IdsIn, Dense

LEMMA StaysDense ==
    ASSUME NoGap, UNCHANGED <<view, load, posted>>, Creates' = Creates, past'.jumped <=> past.jumped
    PROVE  NoGap'
<1>1. \A n : Covered(n) => Covered(n)' BY DEF Covered
<1>2. LiveGoesOn' BY <1>1 DEF NoGap, LiveGoesOn
<1>3. Adjoins' BY DEF NoGap, Adjoins
<1> QED BY <1>2, <1>3 DEF NoGap

LEMMA JoinedEnds ==
    ASSUME NEW s \in Seq(Entry), NEW t \in Seq(Entry), t # <<>>
    PROVE  s \o t # <<>> /\ LastId(s \o t) = LastId(t)
<1>1. /\ Len(s) \in Nat /\ Len(t) \in Nat \ {0} /\ Len(s \o t) = Len(s) + Len(t)
      /\ (s \o t)[Len(s) + Len(t)] = t[Len(t)] /\ s \o t # <<>>
    OBVIOUS
<1> QED BY <1>1 DEF LastId

(* A live message comes to a list that holds the newest before it. *)
LEMMA LiveDense ==
    ASSUME ViewTypeOK, ToldInv, OrderInv, HoleInv, ReceiveMessage, ~past'.crossed, ~past'.gap
    PROVE  NoGap'
<1> DEFINE m == Head(wire).id
           a == Append(view, Live(m))
<1>1. wire # <<>> /\ Head(wire).what = "create" /\ wire' = Tail(wire) /\ load' = load /\ posted' = posted
      /\ view' = TheLast(a)
    BY DEF ReceiveMessage, Show, store
<1>2. /\ past'.crossed <=> past.crossed \/ Loading
      /\ past'.gap <=> past.gap \/ past.jumped
      /\ past'.jumped <=> past.jumped
    <2> DEFINE after == [past EXCEPT !.crossed = @ \/ Loading, !.gap = @ \/ past.jumped]
    <2>0. past \in Past BY DEF ViewTypeOK
    <2>1. past' = [after EXCEPT !.seen = Max({@, LastId(TheLast(a))})] BY DEF ReceiveMessage, Show
    <2>2. past'.crossed = after.crossed /\ past'.gap = after.gap /\ past'.jumped = after.jumped BY <2>1
    <2> HIDE DEF Loading
    <2>3. after.crossed <=> past.crossed \/ Loading BY <2>0 DEF Past
    <2>4. after.gap <=> past.gap \/ past.jumped BY <2>0 DEF Past
    <2>5. after.jumped = past.jumped BY <2>0 DEF Past
    <2> QED BY <2>2, <2>3, <2>4, <2>5
<1>3. ~past.crossed /\ ~past.gap /\ ~past.jumped /\ ~Loading BY <1>2
<1>4. NoGap /\ InOrder /\ load = NoLoad BY <1>3 DEF HoleInv, OrderInv, ToldInv, Loading
<1>5. load.page = <<>> /\ load.kind = "none" BY <1>4 DEF NoLoad
<1>6. /\ Creates' \subseteq Creates /\ m \in Creates /\ \A k \in Creates' : m < k
    BY <1>1, ReceivedInOrder DEF OrderInv
<1>7. Creates \subseteq Creates' \cup {m}
    <2>1. IdsOf(wire, "create") \subseteq IdsOf(Tail(wire), "create") \cup {m}
        BY <1>1, TailIds DEF ViewTypeOK
    <2> QED BY <1>1, <2>1 DEF Creates
<1>8. Live(m) \in Entry /\ Live(m).id = m /\ m \in Nat /\ m <= posted /\ posted \in Nat
    <2>1. wire \in Seq(Event) BY DEF ViewTypeOK
    <2>2. Head(wire) \in Event /\ Head(wire) = wire[1] /\ 1 \in 1..Len(wire) BY <1>1, <2>1, TailIs
    <2>3. m \in Ids BY <2>2 DEF Event
    <2>4. m <= posted BY <2>2 DEF ToldInv, WireTold
    <2>5. Live(m) \in Entry /\ Live(m).id = m BY <2>3 DEF Live, Entry
    <2> QED BY <2>3, <2>4, <2>5, QueriesAssumption DEF Ids, ViewTypeOK
<1> HIDE DEF m
<1>9. Asc(view) /\ Dense(IdsIn(view)) /\ \A k \in IdsIn(view) : k < m
    BY <1>4, <1>6 DEF InOrder, Ahead, NoGap
<1>10. view \in Seq(Entry) BY DEF ViewTypeOK
<1>11. Dense(IdsIn(view) \cup {m})
    <2>1. Dense({m}) BY <1>8 DEF Dense
    <2>2. CASE view = <<>>
        <3>1. IdsIn(view) \cup {m} = {m} BY <2>2, EmptyPage
        <3> QED BY <2>1, <3>1
    <2>3. CASE view # <<>>
        <3> DEFINE last == LastId(view)
        <3>1. Covered(last) BY <1>3, <1>4, <2>3 DEF NoGap, LiveGoesOn
        <3>2. last \in IdsIn(view) /\ IdsIn(view) \subseteq Nat
            BY <1>9, <1>10, <2>3, AscEnds, QueriesAssumption DEF Ids
        <3> HIDE DEF last
        <3>3. last \in Nat /\ last < m BY <1>9, <3>2
        <3>4. last + 1 \in Creates BY <1>8, <3>1, <3>3 DEF Covered
        <3>5. last + 1 = m \/ m < last + 1 BY <1>6, <1>7, <3>4
        <3>6. m - 1 = last BY <1>8, <3>3, <3>5
        <3>7. m - 1 \in IdsIn(view) BY <3>2, <3>6
        <3>8. {m} \in SUBSET Nat /\ IdsIn(view) \in SUBSET Nat BY <1>8, <3>2
        <3>9. \A k \in {m} : m <= k BY <1>8
        <3> QED BY <1>8, <1>9, <2>1, <3>7, <3>8, <3>9, DenseUnion
    <2> QED BY <2>2, <2>3
<1>12. a \in Seq(Entry) /\ Asc(a) /\ IdsIn(a) = IdsIn(view) \cup {m} /\ LastId(a) = m /\ a # <<>>
    BY <1>8, <1>9, <1>10, AppendedList
<1>13. Dense(IdsIn(view')) /\ LastId(view') = m
    BY <1>1, <1>11, <1>12, LastOfList, LastOfListDense
<1>14. \A n \in Creates' \cup {m} : Covered(n)'
    <2> SUFFICES ASSUME NEW n \in Creates' \cup {m}, NEW k \in Nat, n < k, k <= posted
                 PROVE  k \in Creates'
        BY <1>1 DEF Covered
    <2>1. n \in Creates BY <1>6
    <2>2. k \in Creates BY <1>4, <2>1 DEF NoGap, LiveGoesOn, Covered
    <2>3. n = m \/ m < n BY <1>6
    <2>4. n \in Nat
        <3>1. \A j \in 1..Len(wire) : wire[j] \in Event BY DEF ViewTypeOK
        <3> QED BY <2>1, <3>1, QueriesAssumption DEF Creates, IdsOf, Event, Ids
    <2>5. k # m BY <1>8, <2>3, <2>4
    <2> QED BY <1>7, <2>2, <2>5
<1>15. LiveGoesOn' BY <1>1, <1>5, <1>13, <1>14 DEF LiveGoesOn
<1>16. Adjoins' BY <1>1, <1>5 DEF Adjoins
<1> QED BY <1>1, <1>5, <1>13, <1>15, <1>16, EmptyPage DEF NoGap

LEMMA Natural == \A m \in Ids : m \in Nat \ {0}
BY QueriesAssumption DEF Ids

LEMMA NaturalIds ==
    ASSUME NEW s \in Seq(Entry)
    PROVE  IdsIn(s) \in SUBSET Nat
<1>1. \A i \in 1..Len(s) : s[i] \in Entry OBVIOUS
<1>2. \A i \in 1..Len(s) : s[i].id \in Nat BY <1>1, Natural DEF Entry
<1> QED BY <1>2 DEF IdsIn

(* An answer without a hole that goes on from where it was from.            *)
LEMMA AnswerDense ==
    ASSUME ViewTypeOK, ToldInv, OrderInv, HoleInv, Answer, ~past'.crossed, ~past'.gap
    PROVE  NoGap'
<1>1. UNCHANGED <<store, wire, view>> /\ ~load.answered /\ posted' = posted
      /\ load.kind \in {"init", "before", "recent", "around"}
    BY DEF Answer, store
<1> DEFINE p == load'.page
           c == load.at
<1>2. /\ load'.kind = load.kind /\ load'.at = c /\ load'.answered = TRUE
      /\ load.kind = "init" => p = FirstPage
      /\ load.kind = "before" => p = Before(c)
      /\ load.kind = "recent" => p = Recent(c)
      /\ load.kind = "around" => p = load.page \o AroundFrom(c)
    BY DEF Answer, ViewTypeOK, Loads
<1>3. /\ ~past.crossed /\ wire = <<>> /\ ~past.gap /\ ~LacksUnsaved
      /\ past'.jumped <=> past.jumped \/ OpensOld
    <2> DEFINE lacks == LacksUnsaved
               opens == OpensOld
    <2>1. past \in Past BY DEF ViewTypeOK
    <2>2. past' = [past EXCEPT !.crossed = @ \/ wire # <<>>, !.gap = @ \/ lacks, !.jumped = @ \/ opens]
        BY DEF Answer
    <2> HIDE DEF lacks, opens
    <2>3. past'.crossed <=> past.crossed \/ wire # <<>> BY <2>1, <2>2 DEF Past
    <2>4. past'.gap <=> past.gap \/ lacks BY <2>1, <2>2 DEF Past
    <2>5. past'.jumped <=> past.jumped \/ opens BY <2>1, <2>2 DEF Past
    <2> QED BY <2>3, <2>4, <2>5 DEF lacks, opens
<1>4. NoGap /\ InOrder BY <1>3 DEF HoleInv, OrderInv
<1>5. Creates = {} /\ Creates' = {} BY <1>1, <1>3 DEF Creates, IdsOf
<1>6. /\ StoreOK /\ Stocked /\ posted \in Nat /\ stored \in Nat /\ view \in Seq(Entry)
      /\ load.page \in Seq(Entry) /\ c \in Nat
    <2>1. StoreOK /\ posted \in Nat /\ stored \in Nat BY QueriesAssumption DEF ViewTypeOK, StoreOK
    <2>2. load.page \in Seq(Entry) /\ c \in Nat BY QueriesAssumption DEF ViewTypeOK, Loads
    <2> QED BY <2>1, <2>2 DEF HoleInv, ViewTypeOK
<1>7. load.kind \in {"before", "recent", "around"} => c \in Ids
    <2>1. CASE load.kind = "before"
        <3>1. view # <<>> /\ view[1].id = c BY <1>4, <2>1 DEF InOrder, Fits
        <3> QED BY <1>4, <1>6, <3>1, AscEnds DEF InOrder
    <2>2. CASE load.kind = "recent"
        <3>1. view # <<>> /\ LastId(view) = c BY <1>4, <2>2 DEF InOrder, Fits
        <3> QED BY <1>4, <1>6, <3>1, AscEnds DEF InOrder
    <2>3. CASE load.kind = "around" BY <2>3 DEF HoleInv
    <2> QED BY <2>1, <2>2, <2>3
<1> HIDE DEF p, c
<1>8. CASE load.kind = "init"
    <2>1. p = FirstPage BY <1>2, <1>8
    <2>2. Dense(IdsIn(p)) /\ (p # <<>> /\ ~past'.jumped => posted \in IdsIn(p))
        <3>1. p # <<>> /\ (Cached # {} \/ stored <= PageSize) => posted \in IdsIn(p)
            BY <1>6, <2>1, PagesDense
        <3>2. ~past'.jumped => Cached # {} \/ stored <= PageSize
            <4>1. ~past'.jumped => ~(Cached = {} /\ stored > PageSize) BY <1>3, <1>8 DEF OpensOld
            <4>2. stored \in Nat /\ PageSize \in Nat BY <1>6, QueriesAssumption
            <4> QED BY <4>1, <4>2
        <3>3. Dense(IdsIn(p)) BY <1>6, <2>1, PagesDense
        <3> QED BY <3>1, <3>2, <3>3
    <2>3. ASSUME p # <<>>, ~past'.jumped, NEW k \in Nat, LastId(p) < k, k <= posted' PROVE k \in Creates'
        <3>1. p \in Seq(Entry) /\ Asc(p) BY <1>6, <2>1, PagesAre DEF IsPage
        <3>2. posted <= LastId(p) /\ LastId(p) \in Nat BY <2>2, <2>3, <3>1, AscEnds, Natural
        <3> HIDE DEF LastId
        <3> QED BY <1>1, <1>6, <2>3, <3>2
    <2>4. LiveGoesOn' BY <1>1, <1>2, <1>3, <1>4, <1>5, <1>8, <2>3 DEF NoGap, LiveGoesOn, Covered, p
    <2>5. Adjoins' BY <1>2, <1>8 DEF Adjoins
    <2> QED BY <1>1, <1>4, <2>2, <2>4, <2>5 DEF NoGap, p
<1>9. CASE load.kind # "init"
    <2>1. LiveGoesOn' BY <1>1, <1>2, <1>3, <1>4, <1>5, <1>9 DEF NoGap, LiveGoesOn, Covered
    <2>2. CASE load.kind = "before"
        <3>1. c <= stored + 1 /\ p = Before(c) BY <1>2, <1>3, <1>6, <2>2 DEF LacksUnsaved, c
        <3>2. Dense(IdsIn(p)) /\ (p # <<>> => c - 1 \in IdsIn(p)) BY <1>6, <1>7, <2>2, <3>1, PagesDense
        <3>3. Adjoins' BY <1>2, <2>2, <3>2 DEF Adjoins, p
        <3> QED BY <1>1, <1>4, <2>1, <3>2, <3>3 DEF NoGap, p
    <2>3. CASE load.kind = "recent"
        <3>1. p = Recent(c) BY <1>2, <2>3
        <3>2. Dense(IdsIn(p)) /\ (p # <<>> => c + 1 \in IdsIn(p)) BY <1>6, <1>7, <2>3, <3>1, PagesDense
        <3>3. ~past.jumped => p = <<>>
            <4> SUFFICES ASSUME ~past.jumped, p # <<>> PROVE FALSE OBVIOUS
            <4>1. view # <<>> /\ LastId(view) = c BY <1>4, <2>3 DEF InOrder, Fits, c
            <4>2. Covered(c) BY <1>4, <4>1 DEF NoGap, LiveGoesOn
            <4>3. c + 1 \in 1..posted
                <5>1. p \in Seq(Entry) /\ \A i \in 1..Len(p) : p[i].id \in {m \in 1..posted : m > c}
                    BY <1>6, <3>1, PagesAre DEF IsPage
                <5>2. IdsIn(p) \subseteq 1..posted BY <5>1 DEF IdsIn
                <5> QED BY <3>2, <5>2
            <4> QED BY <1>5, <1>6, <4>2, <4>3 DEF Covered
        <3>4. Adjoins' BY <1>2, <1>3, <2>3, <3>2, <3>3 DEF Adjoins, p
        <3> QED BY <1>1, <1>4, <2>1, <3>2, <3>4 DEF NoGap, p
    <2>4. CASE load.kind = "around"
        <3> DEFINE A == IdsIn(load.page)
                   q == AroundFrom(c)
                   B == IdsIn(q)
        <3>1. p = load.page \o q BY <1>2, <2>4
        <3>2. Dense(B) /\ (q # <<>> => c \in B) BY <1>6, <1>7, <2>4, PagesDense
        <3>3. IsPage(q, {m \in 1..posted : m >= c}) BY <1>6, PagesAre
        <3>4. q \in Seq(Entry) /\ \A k \in B : c <= k BY <1>6, <3>3 DEF IsPage, IdsIn
        <3>5. Dense(A) /\ (load.page # <<>> => c - 1 \in A) /\ \A m \in A : m < c
            BY <1>1, <1>4, <2>4 DEF NoGap, Adjoins, OrderInv, PageOrder, Below, c
        <3>6. A \in SUBSET Nat /\ B \in SUBSET Nat /\ IdsIn(p) = A \cup B
            BY <1>6, <3>1, <3>4, NaturalIds, JoinedLists
        <3>7. (load.page = <<>> => A = {}) /\ (q = <<>> => B = {}) BY EmptyPage
        <3> HIDE DEF A, B, q
        <3>8. Dense(A \cup B) BY <1>6, <3>2, <3>4, <3>5, <3>6, <3>7, DenseUnion
        <3>9. Adjoins' BY <1>2, <2>4 DEF Adjoins
        <3> QED BY <1>1, <1>4, <2>1, <3>6, <3>8, <3>9 DEF NoGap, p
    <2> QED BY <1>1, <1>9, <2>2, <2>3, <2>4
<1> QED BY <1>8, <1>9

(* An answer put into the list leaves no hole.                               *)
LEMMA ApplyDense ==
    ASSUME ViewTypeOK, ToldInv, OrderInv, HoleInv, Apply, ~past'.crossed, ~past'.gap
    PROVE  NoGap'
<1> DEFINE p == load.page
           c == load.at
<1>1. UNCHANGED <<store, wire>> /\ load' = NoLoad /\ posted' = posted /\ load.answered /\ Creates' = Creates
    BY DEF Apply, store, Creates
<1>2. load'.kind = "none" /\ load'.page = <<>> /\ load'.answered = FALSE BY <1>1 DEF NoLoad
<1>3. /\ past'.crossed <=> past.crossed
      /\ past'.gap <=> past.gap
      /\ past'.jumped <=> past.jumped
    <2>1. past' = past \/ \E s : past' = [past EXCEPT !.seen = s] BY DEF Apply, Show
    <2> QED BY <2>1 DEF ViewTypeOK, Past
<1>4. NoGap /\ InOrder /\ PageOrder BY <1>3 DEF HoleInv, OrderInv
<1>5. Asc(view) /\ Asc(p) /\ Dense(IdsIn(view)) /\ Dense(IdsIn(p)) BY <1>4 DEF NoGap, InOrder, PageOrder
<1>6. view \in Seq(Entry) /\ p \in Seq(Entry) /\ c \in Nat
    BY QueriesAssumption DEF ViewTypeOK, Loads
<1>7. Adjoins' BY <1>2 DEF Adjoins
<1>8. ASSUME Dense(IdsIn(view')), view' # <<>> /\ ~past.jumped => Covered(LastId(view'))
      PROVE  NoGap'
    <2>1. LiveGoesOn' BY <1>1, <1>2, <1>3, <1>4, <1>8 DEF NoGap, LiveGoesOn, Covered
    <2> QED BY <1>2, <1>7, <1>8, <2>1, EmptyPage DEF NoGap
<1>9. CASE p = <<>>
    <2>1. view' = view BY <1>9 DEF Apply
    <2> QED BY <1>4, <1>8, <2>1 DEF NoGap, LiveGoesOn
<1>10. CASE p # <<>>
    <2>1. view' = Merged(load.kind, p) BY <1>10 DEF Apply, Show
    <2>2. IdsIn(view) \in SUBSET Nat /\ IdsIn(p) \in SUBSET Nat BY <1>6, NaturalIds
    <2>3. CASE load.kind = "before"
        <3>1. view' = p \o view BY <2>1, <2>3 DEF Merged
        <3>2. view # <<>> /\ view[1].id = c /\ Below(p, c) /\ c - 1 \in IdsIn(p)
            BY <1>1, <1>4, <1>10, <2>3 DEF InOrder, Fits, NoGap, Adjoins
        <3>3. c \in IdsIn(view) /\ \A k \in IdsIn(view) : c <= k BY <1>5, <1>6, <3>2, AscEnds
        <3> HIDE DEF p, c
        <3>4. Dense(IdsIn(p) \cup IdsIn(view))
            BY <1>5, <1>6, <2>2, <3>2, <3>3, DenseUnion DEF Below
        <3>5. IdsIn(view') = IdsIn(p) \cup IdsIn(view) BY <1>6, <3>1, JoinedLists
        <3>6. LastId(view') = LastId(view) BY <1>6, <3>1, <3>2, JoinedEnds
        <3>7. ~past.jumped => Covered(LastId(view)) BY <1>4, <3>2 DEF NoGap, LiveGoesOn
        <3> QED BY <1>8, <3>4, <3>5, <3>6, <3>7
    <2>4. CASE load.kind = "recent"
        <3>1. view' = TheLast(view \o p) BY <2>1, <2>4 DEF Merged
        <3>2. view # <<>> /\ LastId(view) = c /\ Above(p, c) /\ c + 1 \in IdsIn(p) /\ past.jumped
            BY <1>1, <1>4, <1>10, <2>4 DEF InOrder, Fits, NoGap, Adjoins
        <3>3. c \in IdsIn(view) /\ \A k \in IdsIn(view) : k <= c BY <1>5, <1>6, <3>2, AscEnds
        <3> HIDE DEF p, c
        <3> DEFINE d == c + 1
        <3>4. d \in Nat /\ d - 1 \in IdsIn(view) /\ d \in IdsIn(p) BY <1>6, <3>2, <3>3
        <3>5. (\A k \in IdsIn(view) : k < d) /\ \A k \in IdsIn(p) : d <= k
            BY <1>6, <2>2, <3>2, <3>3 DEF Above
        <3>6. \A m \in IdsIn(view), k \in IdsIn(p) : m < k BY <2>2, <3>4, <3>5
        <3> HIDE DEF d
        <3>7. Dense(IdsIn(view) \cup IdsIn(p)) BY <1>5, <2>2, <3>4, <3>5, DenseUnion
        <3>8. view \o p \in Seq(Entry) /\ IdsIn(view \o p) = IdsIn(view) \cup IdsIn(p) /\ Asc(view \o p)
            BY <1>5, <1>6, <3>6, JoinedLists
        <3>9. Dense(IdsIn(view')) BY <3>1, <3>7, <3>8, LastOfListDense
        <3> QED BY <1>8, <3>2, <3>9
    <2>5. CASE load.kind = "init"
        <3>1. view' = p BY <2>1, <2>5 DEF Merged
        <3>2. ~past.jumped => Covered(LastId(p)) BY <1>1, <1>4, <1>10, <2>5 DEF NoGap, LiveGoesOn
        <3> QED BY <1>5, <1>8, <3>1, <3>2
    <2>6. CASE load.kind \notin {"init", "before", "recent"}
        <3>1. view' = p BY <2>1, <2>6 DEF Merged
        <3>2. load.kind \in {"context", "around"}
            BY <2>6 DEF Apply, Loading, ViewTypeOK, Loads
        <3>3. past.jumped BY <3>2 DEF HoleInv
        <3> QED BY <1>5, <1>8, <3>1, <3>3
    <2> QED BY <2>3, <2>4, <2>5, <2>6
<1> QED BY <1>9, <1>10

(* Every step keeps the list without a hole.                                 *)
LEMMA HoleStep ==
    ASSUME ViewTypeOK, ToldInv, OrderInv, HoleInv, ClientNext
    PROVE  HoleInv'
<1>0. ViewTypeOK' /\ StoreOK /\ wire \in Seq(Event) /\ load \in Loads /\ past \in Past
    BY ViewStepTypes DEF ViewTypeOK, StoreOK
<1>1. /\ (past.crossed => past'.crossed) /\ (past.gap => past'.gap) /\ (past.jumped => past'.jumped)
    BY ViewStepTypes DEF Changes
<1>2. Stocked' BY <1>0, StockStep DEF HoleInv
<1>3. (load.kind \in {"context", "around"} => past.jumped /\ load.at \in Ids)
      /\ (~past.crossed /\ ~past.gap => NoGap)
    BY DEF HoleInv
<1>k. ASSUME load' = load \/ load'.kind \notin {"context", "around"},
             ~past'.crossed /\ ~past'.gap => NoGap'
      PROVE  HoleInv'
    BY <1>1, <1>2, <1>3, <1>k DEF HoleInv
(* Steps that leave the list, the request and the new messages alone. *)
<1>s. ASSUME UNCHANGED <<view, load, posted>>, past'.jumped <=> past.jumped, Creates' = Creates
      PROVE  HoleInv'
    BY <1>1, <1>3, <1>k, <1>s, StaysDense
<1>4. CASE PostAndEmit
    <2>1. posted' = posted + 1 /\ posted' \in Ids /\ UNCHANGED <<view, load>>
        BY <1>0, <1>4, StoreSteps DEF PostAndEmit
    <2>2. past' = [past EXCEPT !.gap = @ \/ ~joined] BY <1>4 DEF PostAndEmit
    <2>3. (past'.gap <=> past.gap \/ ~joined) /\ past'.jumped = past.jumped
        BY <1>0, <2>2 DEF Past
    <2>4. ASSUME ~past'.crossed, ~past'.gap PROVE NoGap'
        <3>1. NoGap /\ joined BY <1>1, <1>3, <2>3, <2>4
        <3> DEFINE e == [what |-> "create", id |-> posted']
        <3>2. e \in Event /\ e.what = "create" /\ e.id = posted' BY <2>1 DEF Event
        <3>3. wire' = Append(wire, e) BY <1>4, <3>1 DEF PostAndEmit
        <3> HIDE DEF e
        <3>4. Creates' = Creates \cup {posted'}
            <4>1. IdsOf(wire', "create") = IdsOf(wire, "create") \cup {posted'}
                BY <1>0, <3>2, <3>3, AppendIds
            <4> QED BY <4>1 DEF Creates
        <3>5. posted \in Nat BY QueriesAssumption DEF ViewTypeOK
        <3>6. \A n : Covered(n) => Covered(n)'
            <4> SUFFICES ASSUME NEW n, Covered(n), NEW k \in Nat, n < k, k <= posted' PROVE k \in Creates'
                BY DEF Covered
            <4>1. k <= posted \/ k = posted' BY <2>1, <3>5
            <4> QED BY <3>4, <4>1 DEF Covered
        <3>8. \A n \in Creates' : Covered(n)'
            <4>1. \A n \in Creates : Covered(n)' BY <3>1, <3>6 DEF NoGap, LiveGoesOn
            <4>2. \A k \in Nat : ~(posted' < k /\ k <= posted') BY <2>1, <3>5
            <4>3. ASSUME NEW n, n = posted' PROVE Covered(n)' BY <4>2, <4>3 DEF Covered
            <4> QED BY <3>4, <4>1, <4>3
        <3>9. LiveGoesOn' BY <2>1, <2>3, <3>1, <3>6, <3>8 DEF NoGap, LiveGoesOn
        <3>10. Adjoins' BY <2>1, <2>3, <3>1 DEF NoGap, Adjoins
        <3> QED BY <2>1, <3>1, <3>9, <3>10 DEF NoGap
    <2> QED BY <1>k, <2>1, <2>4
<1>5. CASE DeleteAndEmit
    <2>1. PICK m \in Ids :
            /\ Delete(m)
            /\ wire' = IF joined THEN Append(wire, [what |-> "delete", id |-> m]) ELSE wire
            /\ past' = [past EXCEPT !.late = IF joined THEN @ ELSE @ \cup {m}]
            /\ UNCHANGED <<view, top, load, joined, lost>>
        BY <1>5 DEF DeleteAndEmit
    <2> DEFINE e == [what |-> "delete", id |-> m]
    <2>2. e \in Event /\ e.what # "create" BY DEF Event
    <2>3. wire' = wire \/ wire' = Append(wire, e) BY <2>1
    <2> HIDE DEF e
    <2>4. Creates' = Creates
        <3>1. CASE wire' = Append(wire, e)
            <4>1. IdsOf(wire', "create") = IdsOf(wire, "create") \cup {}
                BY <1>0, <2>2, <3>1, AppendIds
            <4> QED BY <4>1 DEF Creates
        <3>2. CASE wire' = wire BY <3>2 DEF Creates
        <3> QED BY <2>3, <3>1, <3>2
    <2>5. posted' = posted /\ past'.jumped = past.jumped BY <1>0, <2>1 DEF Delete, Past
    <2> QED BY <1>s, <2>1, <2>4, <2>5
<1>6. CASE FlushOnly BY <1>s, <1>6 DEF FlushOnly, Flush, client, Creates
<1>7. CASE Join BY <1>s, <1>7 DEF Join, store, Creates
<1>8. CASE LoseConnection
    <2> DEFINE b == \E i \in DOMAIN wire : wire[i].what = "create"
               L == {wire[i].id : i \in DOMAIN wire}
    <2>1. UNCHANGED <<view, load, posted>> /\ wire' = <<>>
          /\ past' = [past EXCEPT !.gap = @ \/ b, !.late = @ \cup L]
        BY <1>8 DEF LoseConnection, store
    <2> HIDE DEF L
    <2>2. past'.jumped = past.jumped BY <1>0, <2>1 DEF Past
    <2>3. past'.gap <=> past.gap \/ b
        <3> HIDE DEF b
        <3> QED BY <1>0, <2>1 DEF Past
    <2>4. ASSUME ~past'.gap PROVE Creates' = Creates
        <3>1. ~b BY <2>3, <2>4
        <3>2. Creates = {} BY <3>1 DEF Creates, IdsOf
        <3>3. Creates' = {} BY <2>1 DEF Creates, IdsOf
        <3> QED BY <3>2, <3>3
    <2> QED BY <1>1, <1>3, <1>k, <2>1, <2>2, <2>4, StaysDense
<1>9. CASE ReceiveMessage
    <2>1. load' = load BY <1>9 DEF ReceiveMessage
    <2> QED BY <1>9, <1>k, <2>1, LiveDense
<1>10. CASE ReceiveDeletion
    <2> DEFINE m == Head(wire).id
    <2>1. wire # <<>> /\ Head(wire).what = "delete" /\ wire' = Tail(wire) /\ load' = load /\ posted' = posted
        BY <1>10 DEF ReceiveDeletion, store
    <2>2. view' = Mark(view, m) BY <1>10 DEF ReceiveDeletion, Show
    <2>3. past'.jumped = past.jumped
        <3> DEFINE after == [past EXCEPT !.late = IF Loading THEN @ \cup {m} ELSE @]
        <3>1. past' = [after EXCEPT !.seen = Max({@, LastId(Mark(view, m))})]
            BY <1>10 DEF ReceiveDeletion, Show
        <3> QED BY <1>0, <3>1 DEF Past
    <2>4. Creates' = Creates
        <3>1. /\ IdsOf(Tail(wire), "create") \subseteq IdsOf(wire, "create")
              /\ IdsOf(wire, "create") \subseteq IdsOf(Tail(wire), "create") \cup {}
            BY <1>0, <2>1, TailIds
        <3> QED BY <2>1, <3>1 DEF Creates
    <2>5. view \in Seq(Entry) BY DEF ViewTypeOK
    <2> HIDE DEF m
    <2>6. /\ IdsIn(view') = IdsIn(view) /\ LastId(view') = LastId(view)
          /\ view' # <<>> => view # <<>>
        <3>1. IdsIn(view') = IdsIn(view) /\ LastId(view') = LastId(view) BY <2>2, <2>5, MarkedList
        <3>2. view = <<>> => view' = <<>> BY <2>2 DEF Mark
        <3> QED BY <3>1, <3>2
    <2>7. ASSUME NoGap PROVE NoGap'
        <3>1. LiveGoesOn' BY <2>1, <2>3, <2>4, <2>6, <2>7 DEF NoGap, LiveGoesOn, Covered
        <3>2. Adjoins' BY <2>1, <2>3, <2>7 DEF NoGap, Adjoins
        <3> QED BY <2>1, <2>6, <2>7, <3>1, <3>2 DEF NoGap
    <2> QED BY <1>1, <1>3, <1>k, <2>1, <2>7
<1>11. ASSUME NEW k \in {"before", "recent"}, NEW c, load' = Request(k, c),
              UNCHANGED <<store, wire, view, past>>
       PROVE  HoleInv'
    <2>1. load'.kind = k /\ load'.page = <<>> /\ load'.answered = FALSE BY <1>11 DEF Request
    <2>2. posted' = posted /\ Creates' = Creates BY <1>11 DEF store, Creates
    <2>3. ASSUME NoGap PROVE NoGap'
        <3>1. LiveGoesOn' BY <1>11, <2>1, <2>2, <2>3 DEF NoGap, LiveGoesOn, Covered
        <3>2. Adjoins' BY <2>1 DEF Adjoins
        <3> QED BY <1>11, <2>1, <2>3, <3>1, <3>2, EmptyPage DEF NoGap
    <2> QED BY <1>1, <1>3, <1>k, <2>1, <2>3
<1>12. CASE ScrollUp BY <1>11, <1>12 DEF ScrollUp
<1>13. CASE ScrollDown BY <1>11, <1>13 DEF ScrollDown
<1>14. CASE Jump
    <2>1. PICK m \in 1..posted :
            /\ load' = Request("context", m) /\ view' = <<>>
            /\ past' = [past EXCEPT !.jumped = TRUE]
            /\ UNCHANGED <<store, wire>>
        BY <1>14 DEF Jump
    <2>2. load'.kind = "context" /\ load'.at = m /\ load'.page = <<>> /\ load'.answered = FALSE
        BY <2>1 DEF Request
    <2>3. past'.jumped = TRUE /\ past'.gap = past.gap /\ past'.crossed = past.crossed
        BY <1>0, <2>1 DEF Past
    <2>4. m \in Ids BY <1>0, QueriesAssumption DEF StoreOK, Ids
    <2>5. posted' = posted /\ Creates' = Creates BY <2>1 DEF store, Creates
    <2>6. ASSUME NoGap PROVE NoGap'
        <3>1. LiveGoesOn' BY <2>1, <2>2, <2>3, <2>5, <2>6 DEF NoGap, LiveGoesOn, Covered
        <3>2. Adjoins' BY <2>2 DEF Adjoins
        <3> QED BY <2>1, <2>2, <3>1, <3>2, EmptyPage DEF NoGap
    <2> QED BY <1>2, <1>3, <2>2, <2>3, <2>4, <2>6 DEF HoleInv
<1>15. CASE AnswerBefore
    <2>1. UNCHANGED <<store, wire, view>> /\ load.kind = "context" /\ posted' = posted /\ Creates' = Creates
        BY <1>15 DEF AnswerBefore, store, Creates
    <2> DEFINE lacks == LacksUnsaved
               c == load.at
               p == load'.page
    <2>2. p = AroundBefore(c) /\ load'.kind = "around" /\ load'.at = c /\ load'.answered = load.answered
        BY <1>0, <1>15 DEF AnswerBefore, Loads
    <2>3. past' = [past EXCEPT !.gap = @ \/ lacks] BY <1>15 DEF AnswerBefore
    <2> HIDE DEF lacks
    <2>4. (past'.gap <=> past.gap \/ lacks) /\ past'.jumped = past.jumped BY <1>0, <2>3 DEF Past
    <2>5. past.jumped /\ c \in Ids BY <1>3, <2>1
    <2>6. ASSUME ~past'.crossed, ~past'.gap PROVE NoGap'
        <3>1. NoGap /\ ~lacks BY <1>1, <1>3, <2>4, <2>6
        <3>2. c <= stored + 1
            <4>1. c \in Int /\ stored \in Int BY <2>5, Natural, QueriesAssumption DEF ViewTypeOK
            <4> QED BY <2>1, <3>1, <4>1 DEF lacks, LacksUnsaved
        <3> HIDE DEF p, c
        <3>3. Dense(IdsIn(p)) /\ (p # <<>> => c - 1 \in IdsIn(p))
            BY <1>0, <2>2, <2>5, <3>2, PagesDense DEF HoleInv
        <3>4. LiveGoesOn' BY <2>1, <2>2, <2>4, <2>5, <3>1 DEF NoGap, LiveGoesOn, Covered
        <3>5. Adjoins' BY <2>2, <3>3 DEF Adjoins, p
        <3> QED BY <2>1, <3>1, <3>3, <3>4, <3>5 DEF NoGap, p
    <2> QED BY <1>2, <2>2, <2>4, <2>5, <2>6 DEF HoleInv
<1>16. CASE Answer
    <2>1. load'.kind = load.kind /\ load'.at = load.at BY <1>0, <1>16 DEF Answer, Loads
    <2>2. ~past'.crossed /\ ~past'.gap => NoGap' BY <1>16, AnswerDense
    <2> QED BY <1>1, <1>2, <1>3, <2>1, <2>2 DEF HoleInv
<1>17. CASE Apply
    <2>1. load'.kind = "none" BY <1>17 DEF Apply, NoLoad
    <2>2. ~past'.crossed /\ ~past'.gap => NoGap' BY <1>17, ApplyDense
    <2> QED BY <1>k, <2>1, <2>2
<1>18. CASE LoadFails
    <2>1. load'.kind = "none" /\ load'.page = <<>> /\ load'.answered = FALSE
        BY <1>18 DEF LoadFails, NoLoad
    <2>2. UNCHANGED <<view, wire, past, posted>> BY <1>18 DEF LoadFails, store
    <2>3. Creates' = Creates BY <2>2 DEF Creates
    <2>4. ASSUME NoGap PROVE NoGap'
        <3>1. LiveGoesOn' BY <2>1, <2>2, <2>3, <2>4 DEF NoGap, LiveGoesOn, Covered
        <3>2. Adjoins' BY <2>1 DEF Adjoins
        <3> QED BY <2>1, <2>2, <2>4, <3>1, <3>2, EmptyPage DEF NoGap
    <2> QED BY <1>1, <1>3, <1>k, <2>1, <2>4
<1> QED BY <1>4, <1>5, <1>6, <1>7, <1>8, <1>9, <1>10, <1>12, <1>13, <1>14, <1>15, <1>16, <1>17, <1>18
        DEF ClientNext

LEMMA StillDense == UNCHANGED viewVars /\ HoleInv => HoleInv'
<1> SUFFICES ASSUME UNCHANGED viewVars, HoleInv PROVE HoleInv' OBVIOUS
<1>1. UNCHANGED <<stored, trimmed, posted, view, load, wire, past>> BY DEF viewVars, store, client
<1>2. Creates' = Creates BY <1>1 DEF Creates
<1>3. Stocked' BY <1>1 DEF HoleInv, Stocked
<1>4. NoGap => NoGap' BY <1>1, <1>2, StaysDense
<1> QED BY <1>1, <1>3, <1>4 DEF HoleInv

LEMMA DenseShows == ViewTypeOK /\ OrderInv /\ HoleInv => ViewWithoutHole
<1> SUFFICES ASSUME ViewTypeOK, OrderInv, HoleInv, ~past.crossed, ~past.gap, NEW i \in 1..(Len(view) - 1)
             PROVE  view[i + 1].id <= view[i].id + 1
    BY DEF ViewWithoutHole
<1> DEFINE n == Len(view)
           a == view[i].id
           b == view[i + 1].id
<1>1. Asc(view) /\ Dense(IdsIn(view)) /\ view \in Seq(Entry)
    BY DEF OrderInv, InOrder, HoleInv, NoGap, ViewTypeOK
<1>2. n \in Nat /\ i \in 1..n /\ i + 1 \in 1..n BY <1>1
<1>3. a \in IdsIn(view) /\ b \in IdsIn(view) /\ IdsIn(view) \subseteq Nat
    BY <1>1, <1>2, NaturalIds DEF IdsIn
<1>4. \A l, j \in 1..n : l < j => view[l].id < view[j].id BY <1>1 DEF Asc
<1>5. \A m \in IdsIn(view) : \E l \in 1..n : m = view[l].id BY DEF IdsIn
<1>6. \A l \in 1..n : view[l].id \in Nat BY <1>3 DEF IdsIn
<1> SUFFICES ASSUME ~(b <= a + 1) PROVE FALSE OBVIOUS
<1> HIDE DEF a, b, n
<1>7. a + 1 \in Nat /\ a < a + 1 /\ a + 1 < b BY <1>3
<1>8. a + 1 \in IdsIn(view) BY <1>1, <1>3, <1>7 DEF Dense
<1>9. PICK l \in 1..n : a + 1 = view[l].id BY <1>5, <1>8
<1>10. view[i].id = a /\ view[i + 1].id = b BY DEF a, b
<1>11. l <= i => view[l].id <= a
    <2>1. l < i => view[l].id < view[i].id BY <1>2, <1>4
    <2>2. l = i \/ l < i \/ i < l BY <1>2
    <2> QED BY <1>2, <1>3, <1>7, <1>9, <1>10, <2>1, <2>2
<1>12. i + 1 <= l => b <= view[l].id
    <2>1. i + 1 < l => view[i + 1].id < view[l].id BY <1>2, <1>4
    <2>2. l = i + 1 \/ l < i + 1 \/ i + 1 < l BY <1>2
    <2> QED BY <1>2, <1>3, <1>7, <1>9, <1>10, <2>1, <2>2
<1>13. l <= i \/ i + 1 <= l BY <1>2
<1> QED BY <1>3, <1>7, <1>9, <1>11, <1>12, <1>13

(* ViewWithoutHole: between two messages shown there is none that is not     *)
(* shown, through any number of pages and jumps, with the exceptions that    *)
(* the property names.                                                      *)
THEOREM ListsHaveNoHole == ViewSpec => []ViewWithoutHole
<1> DEFINE Inv == ViewTypeOK /\ ToldInv /\ OrderInv /\ HoleInv
<1>1. StoreInit /\ ClientInit => Inv BY ViewInitTold, ViewInitOrder, ViewInitHole
<1>2. Inv /\ [ClientNext]_viewVars => Inv'
    BY ViewStepTypes, ToldStep, OrderStep, HoleStep, StillView, StillOrder, StillDense
<1>3. Inv => ViewWithoutHole BY DenseShows
<1> QED BY <1>1, <1>2, <1>3, PTL DEF ViewSpec

-----------------------------------------------------------------------------
(* SearchPanel: searches                                                     *)

(* A set of ids that is not empty has a first and a last one.                *)
LEMMA EndsExist ==
    ASSUME NEW S \in SUBSET Ids, S # {}
    PROVE  \E lo, hi \in S : \A k \in S : lo <= k /\ k <= hi
<1> DEFINE n == Cardinality(S)
<1>1. IsFiniteSet(S) /\ n \in Nat /\ S \subseteq Nat BY IdsFinite
<1>2. n # 0 BY <1>1, FS_EmptySet
<1>3. 1 \in 1..n /\ n \in 1..n BY <1>1, <1>2
<1>4. PICK lo \in S : Rank(S, lo) = 0
    <2>1. \E m \in S : Rank(S, m) = 1 - 1 BY <1>3, RankExists
    <2> QED BY <2>1
<1>5. PICK hi \in S : Rank(S, hi) = n - 1 BY <1>3, RankExists
<1>6. ASSUME NEW k \in S PROVE ~(k < lo) /\ ~(hi < k)
    <2>1. k < lo => Rank(S, k) \in Nat /\ Rank(S, k) < Rank(S, lo) BY RankGrows
    <2>2. hi < k => Rank(S, hi) < Rank(S, k) /\ Rank(S, k) \in Nat /\ Rank(S, k) < n
        <3>1. hi < k => Rank(S, hi) < Rank(S, k) /\ Rank(S, k) < n BY RankGrows
        <3>2. Rank(S, k) \in 0..(n - 1) BY RankBound
        <3> HIDE DEF n
        <3>3. Rank(S, k) \in Nat BY <3>2
        <3> QED BY <3>1, <3>3
    <2> HIDE DEF n
    <2> QED BY <1>1, <1>4, <1>5, <2>1, <2>2
<1> QED BY <1>1, <1>6

(* ORDER BY id DESC LIMIT n: what is left out is older than n others.        *)
LEMMA NewestIs ==
    ASSUME NEW S \in SUBSET Ids, NEW n \in Nat
    PROVE  LET T == Newest(S, n) IN
           /\ T \subseteq S /\ Cardinality(T) <= n
           /\ \A m \in T, k \in S : m < k => k \in T
           /\ \A x \in S \ T : Cardinality(T) = n /\ \A t \in T : x < t
<1> DEFINE T == Newest(S, n)
           Later(m) == {k \in S : k > m}
<1>1. \A m : m \in T <=> m \in S /\ Cardinality(Later(m)) < n BY DEF Newest
<1>2. S \subseteq Nat BY IdsFinite
<1>3. \A m : IsFiniteSet(Later(m)) /\ Cardinality(Later(m)) \in Nat
    <2> SUFFICES ASSUME NEW m PROVE IsFiniteSet(Later(m)) /\ Cardinality(Later(m)) \in Nat OBVIOUS
    <2>1. Later(m) \in SUBSET Ids OBVIOUS
    <2> HIDE DEF Later
    <2> QED BY <2>1, IdsFinite
<1>4. T \subseteq S BY <1>1
<1> HIDE DEF T
<1>5. IsFiniteSet(T) /\ Cardinality(T) \in Nat /\ T \subseteq Nat BY <1>4, IdsFinite
<1>6. ASSUME NEW m \in T, NEW k \in S, m < k PROVE k \in T
    <2>1. Later(k) \subseteq Later(m)
        <3> SUFFICES ASSUME NEW j \in S, j > k PROVE j > m OBVIOUS
        <3>1. j \in Nat /\ k \in Nat /\ m \in Nat BY <1>2, <1>4
        <3> QED BY <1>6, <3>1
    <2>2. Cardinality(Later(k)) <= Cardinality(Later(m))
        <3> HIDE DEF Later
        <3> QED BY <1>3, <2>1, FS_Subset
    <2>3. Cardinality(Later(m)) < n BY <1>1
    <2>4. Cardinality(Later(k)) < n
        <3> HIDE DEF Later
        <3> QED BY <1>3, <2>2, <2>3
    <2> QED BY <1>1, <2>4
<1>7. Cardinality(T) <= n
    <2>1. CASE T = {} BY <2>1, FS_EmptySet
    <2>2. CASE T # {}
        <3>0. T \in SUBSET Ids BY <1>4
        <3>1. PICK lo \in T : \A k \in T : lo <= k BY <2>2, <3>0, EndsExist
        <3>2. T \ {lo} \subseteq Later(lo)
            <4> SUFFICES ASSUME NEW k \in T, k # lo PROVE k \in Later(lo) OBVIOUS
            <4>1. lo <= k /\ k \in Nat /\ lo \in Nat BY <1>5, <3>1
            <4> QED BY <1>4, <4>1
        <3>3. Cardinality(Later(lo)) < n BY <1>1
        <3> HIDE DEF Later
        <3>4. Cardinality(T \ {lo}) <= Cardinality(Later(lo)) BY <1>3, <3>2, FS_Subset
        <3>5. Cardinality(T \ {lo}) = Cardinality(T) - 1 BY <1>5, FS_RemoveElement
        <3> QED BY <1>3, <1>5, <3>3, <3>4, <3>5
    <2> QED BY <2>1, <2>2
<1>8. ASSUME NEW x \in S \ T PROVE Cardinality(T) = n /\ \A t \in T : x < t
    <2>1. ASSUME NEW y \in S \ T, NEW t \in T PROVE y < t
        <3>1. y \in Nat /\ t \in Nat BY <1>2, <1>5
        <3>2. ~(t < y) BY <1>6
        <3>3. t # y OBVIOUS
        <3> QED BY <3>1, <3>2, <3>3
    <2>2. S \ T \in SUBSET Ids /\ S \ T # {} BY <1>8
    <2>3. PICK hi \in S \ T : \A k \in S \ T : k <= hi BY <2>2, EndsExist
    <2>4. Later(hi) \subseteq T
        <3> SUFFICES ASSUME NEW k \in S, k > hi, k \notin T PROVE FALSE OBVIOUS
        <3>1. k <= hi /\ k \in Nat /\ hi \in Nat BY <1>2, <2>3
        <3> QED BY <3>1
    <2>5. ~(Cardinality(Later(hi)) < n) BY <1>1
    <2> HIDE DEF Later
    <2>6. Cardinality(Later(hi)) <= Cardinality(T) BY <1>5, <2>4, FS_Subset
    <2>7. Cardinality(T) = n BY <1>3, <1>5, <1>7, <2>5, <2>6
    <2> QED BY <1>8, <2>1, <2>7
<1> QED BY <1>4, <1>6, <1>7, <1>8 DEF T

(* ... and nothing else does that.                                           *)
LEMMA NewestUnique ==
    ASSUME NEW S \in SUBSET Ids, NEW n \in Nat, NEW T \in SUBSET S, Cardinality(T) <= n,
           \A x \in S \ T : Cardinality(T) = n /\ \A t \in T : x < t
    PROVE  T = Newest(S, n)
<1> DEFINE Later(m) == {k \in S : k > m}
<1>1. S \subseteq Nat /\ T \in SUBSET Ids BY IdsFinite
<1>2. IsFiniteSet(T) /\ Cardinality(T) \in Nat BY <1>1, IdsFinite
<1>3. \A m : IsFiniteSet(Later(m)) /\ Cardinality(Later(m)) \in Nat
    <2> SUFFICES ASSUME NEW m PROVE IsFiniteSet(Later(m)) /\ Cardinality(Later(m)) \in Nat OBVIOUS
    <2>1. Later(m) \in SUBSET Ids OBVIOUS
    <2> HIDE DEF Later
    <2> QED BY <2>1, IdsFinite
<1>4. ASSUME NEW t \in T PROVE Cardinality(Later(t)) < n
    <2>1. Later(t) \subseteq T \ {t}
        <3> SUFFICES ASSUME NEW k \in S, k > t PROVE k \in T /\ k # t OBVIOUS
        <3>1. k \in Nat /\ t \in Nat BY <1>1
        <3>2. k \notin T => k < t OBVIOUS
        <3> QED BY <3>1, <3>2
    <2> HIDE DEF Later
    <2>2. IsFiniteSet(T \ {t}) /\ Cardinality(T \ {t}) = Cardinality(T) - 1
        BY <1>2, FS_RemoveElement
    <2>3. Cardinality(Later(t)) <= Cardinality(T \ {t}) BY <2>1, <2>2, FS_Subset
    <2> QED BY <1>2, <1>3, <2>2, <2>3
<1>5. ASSUME NEW x \in S \ T PROVE ~(Cardinality(Later(x)) < n)
    <2>1. T \subseteq Later(x)
        <3> SUFFICES ASSUME NEW t \in T PROVE t \in S /\ t > x OBVIOUS
        <3>1. x < t /\ t \in Nat /\ x \in Nat BY <1>1
        <3> QED BY <3>1
    <2> HIDE DEF Later
    <2>2. Cardinality(T) <= Cardinality(Later(x)) BY <1>3, <2>1, FS_Subset
    <2>3. Cardinality(T) = n OBVIOUS
    <2> QED BY <1>3, <2>2, <2>3
<1>6. Newest(S, n) = {m \in S : Cardinality(Later(m)) < n} BY DEF Newest
<1> HIDE DEF Later
<1> QED BY <1>4, <1>5, <1>6

(* Two sources, one newer than the other: the page is filled from the newer  *)
(* and then from the older, as if they were one.                            *)
LEMMA NewestOfTwo ==
    ASSUME NEW A \in SUBSET Ids, NEW B \in SUBSET Ids, \A a \in A, b \in B : b < a, NEW n \in Nat
    PROVE  LET gap == n - Cardinality(A)
               more == IF gap > 0 THEN Newest(B, gap) ELSE {}
           IN  Newest(A \cup more, n) = Newest(A \cup B, n)
<1> DEFINE gap == n - Cardinality(A)
           more == IF gap > 0 THEN Newest(B, gap) ELSE {}
           M == A \cup more
           P == Newest(M, n)
<1>1. IsFiniteSet(A) /\ Cardinality(A) \in Nat BY IdsFinite
<1>2. A \subseteq Nat /\ B \subseteq Nat BY IdsFinite
<1>3. /\ more \subseteq B
      /\ gap > 0 => \A x \in B \ more : Cardinality(more) = gap /\ \A t \in more : x < t
      /\ ~(gap > 0) => more = {}
    <2>1. CASE gap > 0
        <3>1. gap \in Nat /\ more = Newest(B, gap) BY <1>1, <2>1
        <3> HIDE DEF gap, more
        <3> QED BY <2>1, <3>1, NewestIs
    <2>2. CASE ~(gap > 0) BY <2>2
    <2> QED BY <2>1, <2>2
<1>4. M \in SUBSET Ids /\ A \cup B \in SUBSET Ids /\ M \subseteq A \cup B BY <1>3
<1>5. IsFiniteSet(more) /\ Cardinality(more) \in Nat
    <2>1. more \in SUBSET Ids BY <1>3
    <2> HIDE DEF more
    <2> QED BY <2>1, IdsFinite
<1>6. Cardinality(M) = Cardinality(A) + Cardinality(more)
    <2>1. A \cap more = {}
        <3> SUFFICES ASSUME NEW a \in A, a \in more PROVE FALSE OBVIOUS
        <3>1. a \in B BY <1>3
        <3>2. a < a /\ a \in Nat BY <1>2, <3>1
        <3> QED BY <3>2
    <2> HIDE DEF more
    <2>2. Cardinality(M) = Cardinality(A) + Cardinality(more) - Cardinality(A \cap more)
        BY <1>1, <1>5, FS_Union
    <2>3. Cardinality(A \cap more) = 0 BY <2>1, FS_EmptySet
    <2> QED BY <1>1, <1>5, <2>2, <2>3
<1>7. /\ P \subseteq M /\ Cardinality(P) <= n
      /\ \A x \in M \ P : Cardinality(P) = n /\ \A t \in P : x < t
    <2> HIDE DEF M
    <2> QED BY <1>4, NewestIs
<1>8. ASSUME NEW x \in (A \cup B) \ P PROVE Cardinality(P) = n /\ \A t \in P : x < t
    <2>1. CASE x \in M BY <1>7, <1>8, <2>1
    <2>2. CASE x \notin M
        <3>1. x \in B /\ x \notin more BY <1>8, <2>2
        <3>2. \A t \in more : x < t
            <4>1. CASE gap > 0 BY <1>3, <3>1, <4>1
            <4>2. CASE ~(gap > 0) BY <1>3, <4>2
            <4> QED BY <4>1, <4>2
        <3>3. \A t \in M : x < t BY <3>1, <3>2
        <3>4. Cardinality(P) = n
            <4>1. CASE P # M
                <5>1. PICK y \in M \ P : TRUE BY <1>7, <4>1
                <5> QED BY <1>7, <5>1
            <4>2. CASE P = M
                <5>1. gap > 0 => Cardinality(more) = gap BY <1>3, <3>1
                <5>2. gap > 0 => Cardinality(M) = n
                    <6> HIDE DEF more, M
                    <6> QED BY <1>1, <1>6, <5>1
                <5>3. ~(gap > 0) => Cardinality(M) >= n
                    <6> HIDE DEF more, M
                    <6> QED BY <1>1, <1>5, <1>6
                <5>4. Cardinality(M) \in Nat
                    <6> HIDE DEF more, M
                    <6> QED BY <1>1, <1>5, <1>6
                <5> HIDE DEF M, P, gap, more
                <5> QED BY <1>7, <4>2, <5>2, <5>3, <5>4
            <4> QED BY <4>1, <4>2
        <3> QED BY <1>7, <3>3, <3>4
    <2> QED BY <2>1, <2>2
<1>9. P \subseteq A \cup B BY <1>4, <1>7
<1> HIDE DEF P, M, more
<1>10. P = Newest(A \cup B, n) BY <1>4, <1>7, <1>8, <1>9, NewestUnique
<1> QED BY <1>10 DEF P, M, more, gap

(* A sequence with the newest first.                                         *)
Descending(s) == \A i, j \in 1..Len(s) : i < j => s[i] > s[j]
InPage(s, m) == \E i \in 1..Len(s) : s[i] = m

(* The answer of a search: a set of ids, the newest first.                   *)
LEMMA ReverseIs ==
    ASSUME NEW P \in SUBSET Ids
    PROVE  LET s == Reverse(Ascending(P)) IN
           /\ s \in Seq(Ids) /\ Len(s) = Cardinality(P) /\ Descending(s)
           /\ \A i \in 1..Len(s) : s[i] \in P
           /\ \A m \in P : InPage(s, m)
<1> DEFINE a == Ascending(P)
           n == Cardinality(P)
           s == Reverse(a)
<1>1. /\ a \in Seq(Ids) /\ Len(a) = n /\ n \in Nat
      /\ \A i \in 1..n : a[i] \in P
      /\ \A i, j \in 1..n : i < j => a[i] < a[j]
      /\ \A m \in P : \E i \in 1..n : a[i] = m
    BY AscendingIs, IdsFinite
<1>2. \A m \in P : m \in Nat BY IdsFinite
<1>3. s = [i \in 1..Len(a) |-> a[(Len(a) - i) + 1]] BY DEF Reverse
<1> HIDE DEF n, a
<1>4. \A i \in 1..n : (n - i) + 1 \in 1..n BY <1>1
<1>5. s \in [1..n -> Ids] BY <1>1, <1>3, <1>4
<1>6. s \in Seq(Ids) /\ Len(s) = n
    <2> HIDE DEF s
    <2> QED BY <1>1, <1>5
<1>7. \A i \in 1..n : s[i] = a[(n - i) + 1] BY <1>1, <1>3
<1> HIDE DEF s
<1>8. \A i \in 1..n : s[i] \in P BY <1>1, <1>4, <1>7
<1>9. Descending(s)
    <2> SUFFICES ASSUME NEW i \in 1..n, NEW j \in 1..n, i < j PROVE s[i] > s[j]
        BY <1>6 DEF Descending
    <2>1. (n - j) + 1 < (n - i) + 1 BY <1>1
    <2>2. a[(n - j) + 1] < a[(n - i) + 1] BY <1>1, <1>4, <2>1
    <2>3. s[j] < s[i] /\ s[i] \in Nat /\ s[j] \in Nat BY <1>2, <1>7, <1>8, <2>2
    <2> QED BY <2>3
<1>10. ASSUME NEW m \in P PROVE InPage(s, m)
    <2>1. PICK i \in 1..n : a[i] = m BY <1>1
    <2>2. (n - i) + 1 \in 1..n /\ (n - ((n - i) + 1)) + 1 = i BY <1>1
    <2>3. s[(n - i) + 1] = a[(n - ((n - i) + 1)) + 1] BY <1>7, <2>2
    <2>4. s[(n - i) + 1] = m BY <2>1, <2>2, <2>3
    <2> QED BY <1>6, <2>2, <2>4 DEF InPage
<1> QED BY <1>6, <1>8, <1>9, <1>10 DEF n, s, a

(* The cache holds the newest messages.                                      *)
LEMMA CachedIs ==
    ASSUME StoreOK
    PROVE  /\ Cached \subseteq 1..posted /\ 1..posted \subseteq Ids
           /\ \A m \in Cached, k \in 1..posted : m < k => k \in Cached
<1>1. posted \in Nat /\ posted <= MaxPosted /\ trimmed \in Nat /\ MaxPosted \in Nat /\ CacheSize \in Nat
    BY QueriesAssumption DEF StoreOK
<1> DEFINE S == (trimmed + 1)..posted
<1>2. S \in SUBSET Ids /\ S \subseteq 1..posted /\ 1..posted \subseteq Ids BY <1>1 DEF Ids
<1>3. Cached = Newest(S, CacheSize) BY DEF Cached
<1>4. Cached \subseteq S /\ \A m \in Cached, k \in S : m < k => k \in Cached
    <2> HIDE DEF S
    <2> QED BY <1>1, <1>2, <1>3, NewestIs
<1>5. ASSUME NEW m \in Cached, NEW k \in 1..posted, m < k PROVE k \in Cached
    <2>1. m \in S BY <1>4
    <2>2. k \in S BY <1>1, <2>1, <1>5
    <2> QED BY <1>4, <1>5, <2>2
<1> QED BY <1>2, <1>4, <1>5

LEMMA SearchPageIs ==
    ASSUME StoreOK, NEW q, NEW c, NEW F \in SUBSET Ids
    PROVE  LET D == DbMatches(q, c, F)
               s == SearchPage(q, c, F)
           IN  /\ s \in Seq(Ids) /\ Descending(s)
               /\ \A i \in 1..Len(s) : s[i] \in F \cup D
               /\ (\A f \in F, d \in D : d < f)
                    => s = Reverse(Ascending(Newest(F \cup D, SearchSize)))
<1> DEFINE D == DbMatches(q, c, F)
           gap == SearchSize - Cardinality(F)
           more == IF gap > 0 THEN Newest(D, gap) ELSE {}
           P == Newest(F \cup more, SearchSize)
<1>1. SearchSize \in Nat BY QueriesAssumption
<1>2. D \in SUBSET Ids
    <2>1. posted \in Nat /\ posted <= MaxPosted /\ stored \in Nat /\ stored <= posted /\ MaxPosted \in Nat
        BY QueriesAssumption DEF StoreOK
    <2>2. Rows \subseteq Ids BY <2>1 DEF Rows, Ids
    <2> QED BY <2>2 DEF DbMatches
<1>3. SearchPage(q, c, F) = Reverse(Ascending(P)) BY DEF SearchPage
<1>4. more \subseteq D BY DEF Newest
<1>5. P \subseteq F \cup more BY DEF Newest
<1>6. P \in SUBSET Ids BY <1>2, <1>4, <1>5
<1>7. (\A f \in F, d \in D : d < f) => P = Newest(F \cup D, SearchSize)
    <2> HIDE DEF D
    <2> QED BY <1>1, <1>2, NewestOfTwo
<1> HIDE DEF P, more, D
<1>8. LET s == Reverse(Ascending(P)) IN
        s \in Seq(Ids) /\ Descending(s) /\ \A i \in 1..Len(s) : s[i] \in P
    BY <1>6, ReverseIs
<1> QED BY <1>3, <1>4, <1>5, <1>7, <1>8 DEF D

(* The end of a page of the newest: what it lacks is older, and it is full.  *)
LEMMA FullPage ==
    ASSUME NEW S \in SUBSET Ids, NEW m \in S
    PROVE  LET s == Reverse(Ascending(Newest(S, SearchSize))) IN
           InPage(s, m) \/ (s # <<>> /\ Len(s) = SearchSize /\ m < s[Len(s)])
<1> DEFINE P == Newest(S, SearchSize)
           s == Reverse(Ascending(P))
<1>1. SearchSize \in Nat \ {0} BY QueriesAssumption
<1>2. P \subseteq S /\ \A x \in S \ P : Cardinality(P) = SearchSize /\ \A t \in P : x < t
    BY <1>1, NewestIs
<1> HIDE DEF P
<1>3. P \in SUBSET Ids BY <1>2
<1>4. /\ s \in Seq(Ids) /\ Len(s) = Cardinality(P)
      /\ \A i \in 1..Len(s) : s[i] \in P
      /\ \A k \in P : InPage(s, k)
    BY <1>3, ReverseIs
<1> HIDE DEF s
<1>5. CASE m \in P BY <1>4, <1>5 DEF s, P
<1>6. CASE m \notin P
    <2>1. Len(s) = SearchSize /\ \A t \in P : m < t BY <1>2, <1>4, <1>6
    <2>2. Len(s) \in 1..Len(s) /\ s # <<>> BY <1>1, <1>4, <2>1
    <2> QED BY <1>4, <2>1, <2>2 DEF s, P
<1> QED BY <1>5, <1>6

(* Searches of cache and table as one.                                       *)
LEMMA StoreExact == StoreOK => SearchExact
<1> SUFFICES ASSUME StoreOK, NothingHidden, NEW q \in Exact,
                    NEW c \in {0} \cup {m \in 1..posted : Apart(m)}
             PROVE  SearchPage(q, c, FoundInCache(q, c)) = Reverse(Ascending(
                      Newest({m \in (1..posted) \ deleted : HasWord(q, m) /\ InCursor(m, c)}, SearchSize)))
    BY DEF SearchExact
<1> DEFINE F == FoundInCache(q, c)
           D == DbMatches(q, c, F)
           M == {m \in (1..posted) \ deleted : HasWord(q, m) /\ InCursor(m, c)}
<1>1. /\ Cached \subseteq 1..posted /\ 1..posted \subseteq Ids
      /\ \A m \in Cached, k \in 1..posted : m < k => k \in Cached
    BY CachedIs
<1>2. Rows \subseteq 1..posted /\ \A m \in 1..posted : m \in Nat \ {0}
    BY QueriesAssumption DEF Rows, StoreOK
<1>3. 1..posted \subseteq Cached \cup Rows BY DEF NothingHidden
<1>4. \A m \in Ids : HasWord(q, m) = TableHasWord(q, m) BY DEF Exact
<1>5. \A m \in 1..posted : (c = 0 \/ Rounded(m) < Rounded(c)) <=> InCursor(m, c)
    <2>1. CASE c = 0 BY <2>1 DEF InCursor
    <2>2. CASE c # 0
        <3>1. c \in 1..posted /\ Apart(c) BY <2>2
        <3> SUFFICES ASSUME NEW m \in 1..posted PROVE Rounded(m) < Rounded(c) <=> m < c
            BY <2>2 DEF InCursor
        <3>2. m \in 1..MaxPosted /\ c \in 1..MaxPosted BY <1>1, <3>1 DEF Ids
        <3>3. /\ Rounded(m) \in Nat /\ Rounded(c) \in Nat
              /\ (m <= c => Rounded(m) <= Rounded(c)) /\ (c <= m => Rounded(c) <= Rounded(m))
            BY <3>2, QueriesAssumption
        <3>4. Rounded(m) = Rounded(c) => m = c BY <3>1 DEF Apart
        <3>5. m \in Nat /\ c \in Nat BY <1>2, <3>1
        <3> QED BY <3>3, <3>4, <3>5
    <2> QED BY <2>1, <2>2
<1>6. \A m : m \in F <=> m \in Cached /\ m \in M BY <1>1, <1>5 DEF FoundInCache
<1>7. \A m : m \in D <=> m \in Rows /\ m \in M /\ m \notin F BY <1>1, <1>2, <1>4 DEF DbMatches
<1>8. F \cup D = M BY <1>3, <1>6, <1>7
<1>9. F \in SUBSET Ids /\ M \subseteq 1..posted BY <1>1, <1>6
<1>10. ASSUME NEW f \in F, NEW d \in D PROVE d < f
    <2>1. f \in Cached /\ f \in 1..posted /\ d \in M /\ d \notin F /\ d \in 1..posted
        BY <1>1, <1>6, <1>7, <1>9
    <2>2. d \notin Cached BY <1>6, <2>1
    <2>3. ~(f < d) /\ d # f BY <1>1, <2>1, <2>2
    <2>4. f \in Nat /\ d \in Nat BY <1>2, <2>1
    <2> QED BY <2>3, <2>4
<1> HIDE DEF F, M
<1>11. SearchPage(q, c, F) = Reverse(Ascending(Newest(F \cup D, SearchSize)))
    BY <1>9, <1>10, SearchPageIs
<1> QED BY <1>8, <1>11 DEF F, M

-----------------------------------------------------------------------------
(* What a request that is under way knows.                                   *)
RShape(r) ==
    /\ r.what = "search" <=> r.cursor = 0
    /\ r.cursor <= posted /\ r.newest <= posted
    /\ r.stage = "table" =>
         r.cursor <= r.newest /\ \A m \in r.found : m <= r.newest /\ InCursor(m, r.cursor)
    /\ r.stage = "answered" =>
         /\ Descending(r.page)
         /\ \A j \in 1..Len(r.page) : r.page[j] <= posted /\ InCursor(r.page[j], r.cursor)

ShapeInv ==
    /\ \A i \in InFlight : RShape(asked[i])
    /\ \A j \in 1..Len(results) : results[j] <= posted

(* Nothing overtakes: one request at a time, which goes on from the results. *)
OneAtATime ==
    /\ Descending(results)
    /\ \A i, j \in InFlight : i = j
    /\ \A i \in InFlight :
         IF asked[i].what = "search" THEN results = <<>>
         ELSE results # <<>> /\ asked[i].cursor = Cursor

PanelOrder == ~course.overtaken => OneAtATime

(* What the results should have.                                             *)
Wanted(m) == HasWord(course.word, m) /\ m \notin deleted

(* What the request leaves out is older than its page, which is full; before *)
(* the table is read, what the cache did not give is in the table, and older.*)
RGoesOn(r) ==
    /\ r.word = course.word
    /\ r.stage = "cache" /\ r.cursor # 0 =>
         \A m \in 1..posted : m < r.cursor => Rounded(m) < Rounded(r.cursor)
    /\ r.stage = "table" =>
         \A m \in 1..r.newest : Wanted(m) /\ InCursor(m, r.cursor) /\ m \notin r.found =>
            m <= stored /\ \A f \in r.found : m < f
    /\ r.stage = "answered" =>
         \A m \in 1..posted :
            Wanted(m) /\ (IF r.cursor = 0 THEN r.page # <<>> /\ m <= r.page[1] ELSE m < r.cursor)
              => InPage(r.page, m)
                 \/ (r.page # <<>> /\ Len(r.page) = SearchSize /\ m < r.page[Len(r.page)])

Clear == ~course.overtaken /\ ~course.edited /\ ~course.torn /\ course.word \in Exact

PanelComplete ==
    Clear =>
        /\ results # <<>> =>
             \A m \in 1..results[1] : Wanted(m) => InPage(results, m) \/ (hasMore /\ m < Cursor)
        /\ \A i \in InFlight : RGoesOn(asked[i])

PanelInv == StoreOK /\ PanelTypeOK /\ ShapeInv /\ PanelOrder /\ PanelComplete

-----------------------------------------------------------------------------
(* Two pages, one after the other.                                           *)
LEMMA Joined ==
    ASSUME NEW s \in Seq(Ids), NEW t \in Seq(Ids)
    PROVE  /\ s \o t \in Seq(Ids) /\ Len(s \o t) = Len(s) + Len(t)
           /\ \A k \in 1..Len(s) : (s \o t)[k] = s[k]
           /\ \A k \in 1..Len(t) : (s \o t)[Len(s) + k] = t[k]
           /\ \A k \in 1..Len(s \o t) : k \in 1..Len(s) \/ \E j \in 1..Len(t) : k = Len(s) + j
<1>1. s \o t \in Seq(Ids) /\ Len(s \o t) = Len(s) + Len(t) /\ Len(s) \in Nat /\ Len(t) \in Nat OBVIOUS
<1>2. \A k \in 1..Len(s) : (s \o t)[k] = s[k] OBVIOUS
<1>3. \A k \in 1..Len(t) : (s \o t)[Len(s) + k] = t[k] OBVIOUS
<1>4. ASSUME NEW k \in 1..Len(s \o t), k \notin 1..Len(s) PROVE \E j \in 1..Len(t) : k = Len(s) + j
    <2>1. k - Len(s) \in 1..Len(t) /\ k = Len(s) + (k - Len(s)) BY <1>1, <1>4
    <2> QED BY <2>1
<1> QED BY <1>1, <1>2, <1>3, <1>4

(* A list that is not empty has ends.                                        *)
LEMMA HasEnds ==
    ASSUME NEW s \in Seq(Ids), s # <<>>
    PROVE  /\ Len(s) \in 1..Len(s) /\ 1 \in 1..Len(s)
           /\ s[Len(s)] \in Ids /\ s[1] \in Ids /\ MaxPosted \in Nat /\ Ids = 1..MaxPosted
<1>1. Len(s) \in 1..Len(s) /\ 1 \in 1..Len(s) OBVIOUS
<1> QED BY <1>1, QueriesAssumption DEF Ids

(* The types of a request that is under way.                                 *)
LEMMA AskTypes ==
    ASSUME PanelTypeOK, NEW i \in Slots, asked[i] # NoAsk
    PROVE  /\ asked[i] \in Ask /\ asked[i].stage # "none"
           /\ asked[i].what \in {"search", "more"} /\ asked[i].word \in Queries
           /\ asked[i].cursor \in 0..MaxPosted /\ asked[i].newest \in 0..MaxPosted
           /\ asked[i].found \in SUBSET Ids /\ asked[i].page \in Seq(Ids)
<1>1. asked[i] \in Ask BY DEF PanelTypeOK
<1> QED BY <1>1 DEF Ask

LEMMA StageAsked ==
    ASSUME NEW i \in Slots, asked[i].stage # "none" PROVE i \in InFlight
BY DEF InFlight, Free, NoAsk

LEMMA AskedIs ==
    ASSUME NEW r \in Ask PROVE r # NoAsk
BY DEF Ask, NoAsk

(* Only the word of the input changes, or nothing.                           *)
LEMMA StillPanel ==
    ASSUME PanelInv, UNCHANGED <<store, results, hasMore, asked, course>>,
           query' \in Queries, waiting' \in BOOLEAN
    PROVE  PanelInv'
<1>1. StoreOK' BY DEF PanelInv, StoreOK, store
<1>2. PanelTypeOK' BY DEF PanelInv, PanelTypeOK
<1>3. ShapeInv' BY DEF PanelInv, ShapeInv, RShape, InFlight, Free, InCursor, Descending, store
<1>4. PanelOrder' BY DEF PanelInv, PanelOrder, OneAtATime, InFlight, Free, Cursor, Descending
<1>5. PanelComplete'
    BY DEF PanelInv, PanelComplete, Clear, RGoesOn, InFlight, Free, Cursor, Wanted, InCursor, InPage, store
<1> QED BY <1>1, <1>2, <1>3, <1>4, <1>5 DEF PanelInv

(* The store only grows.                                                     *)
LEMMA StoreGrows ==
    ASSUME StoreOK, Post \/ Flush \/ \E m \in Ids : Delete(m)
    PROVE  StoreOK' /\ posted <= posted' /\ stored <= stored' /\ deleted \subseteq deleted'
<1>1. posted \in Nat /\ stored \in Nat BY DEF StoreOK
<1>2. CASE Post BY <1>1, <1>2, StoreSteps DEF Post
<1>3. CASE Flush
    <2>1. StoreOK' BY <1>3, StoreSteps
    <2>2. PICK n \in (stored + 1)..posted : stored' = n BY <1>3 DEF Flush
    <2>3. UNCHANGED <<posted, deleted>> BY <1>3 DEF Flush
    <2> QED BY <1>1, <2>1, <2>2, <2>3
<1>4. CASE \E m \in Ids : Delete(m)
    <2>1. PICK m \in Ids : Delete(m) BY <1>4
    <2> QED BY <1>1, <2>1, StoreSteps DEF Delete
<1> QED BY <1>2, <1>3, <1>4

LEMMA StoreOnlyStep ==
    ASSUME PanelInv, StoreOnly PROVE PanelInv'
<1>1. /\ StoreOK' /\ posted <= posted' /\ stored <= stored' /\ deleted \subseteq deleted'
      /\ UNCHANGED <<query, results, hasMore, waiting, asked, course>>
    BY StoreGrows DEF StoreOnly, PanelInv, panel
<1>2. /\ posted \in Nat /\ stored \in Nat /\ posted' \in Nat /\ stored' \in Nat
      /\ MaxPosted \in Nat /\ Ids = 1..MaxPosted
    BY <1>1, QueriesAssumption DEF PanelInv, StoreOK, Ids
<1>3. PanelTypeOK /\ ShapeInv BY DEF PanelInv
<1>4. PanelTypeOK' BY <1>1, <1>3 DEF PanelTypeOK
<1>5. InFlight' = InFlight /\ \A i \in Slots : asked'[i] = asked[i]
    BY <1>1 DEF InFlight, Free
<1>6. \A i \in InFlight : i \in Slots /\ asked[i] # NoAsk BY DEF InFlight, Free
<1>7. ASSUME NEW i \in InFlight PROVE RShape(asked[i])'
    <2> DEFINE r == asked[i]
    <2>1. RShape(r) BY <1>3 DEF ShapeInv
    <2>2. /\ r.cursor \in Nat /\ r.newest \in Nat
          /\ r.page \in Seq(Ids) BY <1>2, <1>3, <1>6, AskTypes
    <2>3. \A j \in 1..Len(r.page) : r.page[j] \in Nat BY <1>2, <2>2
    <2>4. asked'[i] = r BY <1>5, <1>6
    <2> HIDE DEF r
    <2> QED BY <1>1, <1>2, <2>1, <2>2, <2>3, <2>4 DEF RShape, InCursor, Descending
<1>8. ShapeInv'
    <2>1. \A j \in 1..Len(results) : results[j] \in Nat BY <1>2, <1>3 DEF PanelTypeOK
    <2>2. \A j \in 1..Len(results') : results'[j] <= posted' BY <1>1, <1>2, <1>3, <2>1 DEF ShapeInv
    <2> QED BY <1>5, <1>7, <2>2 DEF ShapeInv
<1>9. PanelOrder' BY <1>1, <1>5 DEF PanelInv, PanelOrder, OneAtATime, InFlight, Free, Cursor, Descending
<1>10. ASSUME Clear' PROVE Clear /\ \A m : Wanted(m)' => Wanted(m) BY <1>1, <1>10 DEF Clear, Wanted
<1>11. ASSUME Clear', NEW i \in InFlight PROVE RGoesOn(asked[i])'
    <2> DEFINE r == asked[i]
    <2>1. RShape(r) /\ RGoesOn(r)
        BY <1>3, <1>10, <1>11 DEF ShapeInv, PanelInv, PanelComplete
    <2>2. /\ r.cursor \in Nat /\ r.newest \in Nat
          /\ r.page \in Seq(Ids) BY <1>2, <1>3, <1>6, AskTypes
    <2>3. r.page # <<>> => r.page[1] \in Nat /\ 1 \in 1..Len(r.page) BY <1>2, <2>2
    <2>4. asked'[i] = r BY <1>5, <1>6
    <2> HIDE DEF r
    <2>5. r.word = course'.word BY <1>1, <2>1 DEF RGoesOn
    <2>6. ASSUME r.stage = "cache", r.cursor # 0, NEW m \in 1..posted', m < r.cursor
          PROVE  Rounded(m) < Rounded(r.cursor)
        <3>1. m \in 1..posted BY <1>2, <2>1, <2>2, <2>6 DEF RShape
        <3> QED BY <2>1, <2>6, <3>1 DEF RGoesOn
    <2>7. ASSUME r.stage = "table", NEW m \in 1..r.newest, Wanted(m)', InCursor(m, r.cursor), m \notin r.found
          PROVE  m <= stored' /\ \A f \in r.found : m < f
        <3>1. Wanted(m) /\ m \in Nat BY <1>10, <1>11, <2>7
        <3>2. m <= stored /\ \A f \in r.found : m < f BY <2>1, <2>7, <3>1 DEF RGoesOn
        <3> QED BY <1>1, <1>2, <3>1, <3>2
    <2>8. ASSUME r.stage = "answered", NEW m \in 1..posted', Wanted(m)',
                 IF r.cursor = 0 THEN r.page # <<>> /\ m <= r.page[1] ELSE m < r.cursor
          PROVE  InPage(r.page, m)
                   \/ (r.page # <<>> /\ Len(r.page) = SearchSize /\ m < r.page[Len(r.page)])
        <3>1. Wanted(m) BY <1>10, <1>11, <2>8
        <3>2. m \in 1..posted BY <1>2, <2>1, <2>2, <2>3, <2>8 DEF RShape
        <3> QED BY <2>1, <2>8, <3>1, <3>2 DEF RGoesOn
    <2> QED BY <2>4, <2>5, <2>6, <2>7, <2>8 DEF RGoesOn, InCursor, InPage
<1>12. PanelComplete'
    <2> SUFFICES ASSUME Clear' PROVE
            /\ (results # <<>> =>
                 \A m \in 1..results[1] : Wanted(m) => InPage(results, m) \/ (hasMore /\ m < Cursor))'
            /\ \A i \in InFlight' : RGoesOn(asked[i])'
        BY DEF PanelComplete
    <2>1. \A i \in InFlight' : RGoesOn(asked[i])' BY <1>5, <1>11
    <2>2. Clear /\ \A m : Wanted(m)' => Wanted(m) BY <1>10
    <2>3. results # <<>> =>
             \A m \in 1..results[1] : Wanted(m) => InPage(results, m) \/ (hasMore /\ m < Cursor)
        BY <2>2 DEF PanelInv, PanelComplete
    <2> QED BY <1>1, <2>1, <2>2, <2>3 DEF InPage, Cursor
<1> QED BY <1>1, <1>4, <1>8, <1>9, <1>12 DEF PanelInv

(* A request begins: what its slot holds, and the others as they were.       *)
LEMMA Sends ==
    ASSUME PanelInv, NEW w \in {"search", "more"}, NEW c \in 0..MaxPosted, Send(w, c)
    PROVE  \E i \in Slots :
             /\ Free(i) /\ InFlight' = InFlight \cup {i}
             /\ asked' \in [Slots -> Ask \cup {NoAsk}]
             /\ \A j \in InFlight : asked'[j] = asked[j]
             /\ asked'[i].stage = "cache" /\ asked'[i].what = w /\ asked'[i].word = query
             /\ asked'[i].cursor = c /\ asked'[i].newest = 0
<1> DEFINE r == [stage |-> "cache", what |-> w, word |-> query,
                 cursor |-> c, found |-> {}, newest |-> 0, page |-> <<>>]
<1>1. PICK i \in Slots : Free(i) /\ asked' = [asked EXCEPT ![i] = r] BY DEF Send
<1>2. asked \in [Slots -> Ask \cup {NoAsk}] /\ query \in Queries BY DEF PanelInv, PanelTypeOK
<1>3. r \in Ask
    <2>1. MaxPosted \in Nat BY QueriesAssumption
    <2>2. 0 \in 0..MaxPosted BY <2>1
    <2>3. <<>> \in Seq(Ids) OBVIOUS
    <2> QED BY <1>2, <2>2, <2>3 DEF Ask
<1>4. r # NoAsk BY <1>3, AskedIs
<1>5. r.stage = "cache" /\ r.what = w /\ r.word = query /\ r.cursor = c /\ r.newest = 0 OBVIOUS
<1> HIDE DEF r
<1>6. asked' \in [Slots -> Ask \cup {NoAsk}] BY <1>1, <1>2, <1>3
<1>7. asked'[i] = r /\ \A j \in Slots \ {i} : asked'[j] = asked[j] BY <1>1, <1>2
<1>8. InFlight' = InFlight \cup {i}
    <2>1. \A j \in Slots : Free(j)' <=> asked'[j] = NoAsk BY DEF Free
    <2> QED BY <1>4, <1>7, <2>1 DEF InFlight, Free
<1>9. \A j \in InFlight : asked'[j] = asked[j] BY <1>1, <1>7 DEF InFlight
<1> QED BY <1>1, <1>5, <1>6, <1>7, <1>8, <1>9

LEMMA SearchStep ==
    ASSUME PanelInv, HandleSearch PROVE PanelInv'
<1>1. /\ PanelTypeOK /\ StoreOK /\ ShapeInv /\ MaxPosted \in Nat /\ posted \in Nat
      /\ query \in Queries /\ hasMore \in BOOLEAN
    BY QueriesAssumption DEF PanelInv, StoreOK, PanelTypeOK
<1>2. 0 \in 0..MaxPosted BY <1>1
<1>3. /\ Send("search", 0) /\ waiting' = TRUE /\ results' = <<>>
      /\ course' = [overtaken |-> InFlight # {}, edited |-> FALSE, torn |-> FALSE, word |-> query]
      /\ UNCHANGED <<posted, stored, trimmed, deleted, query, hasMore>>
    BY DEF HandleSearch, store
<1>4. PICK i \in Slots :
             /\ Free(i) /\ InFlight' = InFlight \cup {i}
             /\ asked' \in [Slots -> Ask \cup {NoAsk}]
             /\ \A j \in InFlight : asked'[j] = asked[j]
             /\ asked'[i].stage = "cache" /\ asked'[i].what = "search" /\ asked'[i].word = query
             /\ asked'[i].cursor = 0 /\ asked'[i].newest = 0
    BY <1>2, <1>3, Sends
<1>5. course' \in Course /\ course'.overtaken = (InFlight # {}) /\ course'.word = query
    BY <1>1, <1>3 DEF Course
<1>6. StoreOK' BY <1>1, <1>3 DEF StoreOK
<1>7. PanelTypeOK'
    <2>1. results' \in Seq(Ids) BY <1>3
    <2> QED BY <1>1, <1>3, <1>4, <1>5, <2>1 DEF PanelTypeOK
<1>8. ShapeInv'
    <2>1. ASSUME NEW j \in InFlight' PROVE RShape(asked[j])'
        <3>1. CASE j = i BY <1>1, <1>3, <1>4, <3>1 DEF RShape
        <3>2. CASE j # i
            <4>1. RShape(asked[j]) /\ asked'[j] = asked[j] BY <1>1, <1>4, <3>2 DEF ShapeInv
            <4> QED BY <1>3, <4>1 DEF RShape, InCursor, Descending
        <3> QED BY <3>1, <3>2
    <2>2. \A j \in 1..Len(results') : results'[j] <= posted' BY <1>3
    <2> QED BY <2>1, <2>2 DEF ShapeInv
<1>9. PanelOrder'
    <2> SUFFICES ASSUME ~course'.overtaken PROVE OneAtATime' BY DEF PanelOrder
    <2>1. InFlight' = {i} BY <1>4, <1>5
    <2>2. Descending(results)' BY <1>3 DEF Descending
    <2> QED BY <1>3, <1>4, <2>1, <2>2 DEF OneAtATime
<1>10. PanelComplete'
    <2> SUFFICES ASSUME Clear' PROVE \A j \in InFlight' : RGoesOn(asked[j])'
        BY <1>3 DEF PanelComplete
    <2>1. InFlight' = {i} BY <1>4, <1>5 DEF Clear
    <2>2. RGoesOn(asked[i])' BY <1>4, <1>5 DEF RGoesOn
    <2> QED BY <2>1, <2>2
<1> QED BY <1>6, <1>7, <1>8, <1>9, <1>10 DEF PanelInv

(* JavaScript tells the cursor from other ids: none of the older ones is     *)
(* left out.                                                                 *)
LEMMA RoundedGrows ==
    ASSUME posted <= MaxPosted, posted \in Nat, NEW c \in 1..posted, NEW m \in 1..posted
    PROVE  /\ Rounded(m) < Rounded(c) => m < c
           /\ Apart(c) /\ m < c => Rounded(m) < Rounded(c)
<1>1. MaxPosted \in Nat BY QueriesAssumption
<1>2. m \in 1..MaxPosted /\ c \in 1..MaxPosted /\ m \in Nat /\ c \in Nat BY <1>1
<1>3. /\ Rounded(m) \in Nat /\ Rounded(c) \in Nat
      /\ (m <= c => Rounded(m) <= Rounded(c)) /\ (c <= m => Rounded(c) <= Rounded(m))
    BY <1>2, QueriesAssumption
<1>4. Apart(c) /\ Rounded(m) = Rounded(c) => m = c BY DEF Apart
<1> QED BY <1>2, <1>3, <1>4

LEMMA SearchMoreStep ==
    ASSUME PanelInv, HandleSearchMore PROVE PanelInv'
<1>1. /\ PanelTypeOK /\ StoreOK /\ ShapeInv /\ PanelOrder /\ PanelComplete
      /\ MaxPosted \in Nat /\ posted \in Nat /\ posted <= MaxPosted
      /\ query \in Queries /\ hasMore \in BOOLEAN /\ results \in Seq(Ids) /\ course \in Course
    BY QueriesAssumption DEF PanelInv, StoreOK, PanelTypeOK
<1>2. /\ results # <<>> /\ Send("more", Cursor) /\ waiting' = TRUE
      /\ course' = [course EXCEPT !.overtaken = @ \/ InFlight # {},
                                  !.edited = @ \/ query # course.word,
                                  !.torn = @ \/ ~Apart(Cursor)]
      /\ UNCHANGED <<posted, stored, trimmed, deleted, query, results, hasMore>>
    BY DEF HandleSearchMore, MoreShown, store
<1>3. Cursor \in 1..posted /\ Cursor \in 0..MaxPosted /\ Cursor # 0
    <2>1. Len(results) \in 1..Len(results) /\ results[Len(results)] \in Ids /\ Ids = 1..MaxPosted
        BY <1>1, <1>2, HasEnds
    <2>2. Cursor \in 1..MaxPosted /\ Cursor <= posted BY <1>1, <2>1 DEF Cursor, ShapeInv
    <2> QED BY <1>1, <2>2
<1>4. PICK i \in Slots :
             /\ Free(i) /\ InFlight' = InFlight \cup {i}
             /\ asked' \in [Slots -> Ask \cup {NoAsk}]
             /\ \A j \in InFlight : asked'[j] = asked[j]
             /\ asked'[i].stage = "cache" /\ asked'[i].what = "more" /\ asked'[i].word = query
             /\ asked'[i].cursor = Cursor /\ asked'[i].newest = 0
    BY <1>2, <1>3, Sends
<1>5. /\ course' \in Course
      /\ ~course'.overtaken => ~course.overtaken /\ InFlight = {}
      /\ ~course'.edited => ~course.edited /\ query = course.word
      /\ ~course'.torn => ~course.torn /\ Apart(Cursor)
      /\ course'.word = course.word
    BY <1>1, <1>2 DEF Course
<1>6. StoreOK' BY <1>1, <1>2 DEF StoreOK
<1>7. PanelTypeOK' BY <1>1, <1>2, <1>4, <1>5 DEF PanelTypeOK
<1>8. ShapeInv'
    <2>1. ASSUME NEW j \in InFlight' PROVE RShape(asked[j])'
        <3>1. CASE j = i BY <1>1, <1>2, <1>3, <1>4, <3>1 DEF RShape
        <3>2. CASE j # i
            <4>1. RShape(asked[j]) /\ asked'[j] = asked[j] BY <1>1, <1>4, <3>2 DEF ShapeInv
            <4> QED BY <1>2, <4>1 DEF RShape, InCursor, Descending
        <3> QED BY <3>1, <3>2
    <2>2. \A j \in 1..Len(results') : results'[j] <= posted' BY <1>1, <1>2 DEF ShapeInv
    <2> QED BY <2>1, <2>2 DEF ShapeInv
<1>9. PanelOrder'
    <2> SUFFICES ASSUME ~course'.overtaken PROVE OneAtATime' BY DEF PanelOrder
    <2>1. InFlight' = {i} /\ OneAtATime BY <1>1, <1>4, <1>5 DEF PanelOrder
    <2>2. Descending(results)' /\ Cursor' = Cursor BY <1>2, <2>1 DEF Descending, OneAtATime, Cursor
    <2> QED BY <1>2, <1>4, <2>1, <2>2 DEF OneAtATime
<1>10. PanelComplete'
    <2> SUFFICES ASSUME Clear' PROVE
            /\ (results # <<>> =>
                 \A m \in 1..results[1] : Wanted(m) => InPage(results, m) \/ (hasMore /\ m < Cursor))'
            /\ \A j \in InFlight' : RGoesOn(asked[j])'
        BY DEF PanelComplete
    <2>1. Clear /\ InFlight' = {i} /\ query = course.word /\ Apart(Cursor)
        BY <1>4, <1>5 DEF Clear
    <2>2. RGoesOn(asked[i])'
        <3>1. \A m \in 1..posted : m < Cursor => Rounded(m) < Rounded(Cursor)
            BY <1>1, <1>3, <2>1, RoundedGrows
        <3> QED BY <1>2, <1>4, <1>5, <2>1, <3>1 DEF RGoesOn
    <2>3. results # <<>> =>
             \A m \in 1..results[1] : Wanted(m) => InPage(results, m) \/ (hasMore /\ m < Cursor)
        BY <1>1, <2>1 DEF PanelComplete
    <2>4. \A m : Wanted(m)' <=> Wanted(m) BY <1>2, <1>5 DEF Wanted
    <2>5. \A j \in InFlight' : RGoesOn(asked[j])' BY <2>1, <2>2
    <2>6. Cursor' = Cursor BY <1>2 DEF Cursor
    <2> QED BY <1>2, <2>3, <2>4, <2>5, <2>6 DEF InPage
<1> QED BY <1>6, <1>7, <1>8, <1>9, <1>10 DEF PanelInv

(* A request under way goes on: what it is to ask stays.                     *)
LEMMA Proceeds ==
    ASSUME PanelInv, NEW i \in InFlight,
           UNCHANGED <<store, query, results, hasMore, waiting>>,
           asked' \in [Slots -> Ask \cup {NoAsk}],
           asked'[i] # NoAsk,
           asked'[i].what = asked[i].what, asked'[i].cursor = asked[i].cursor,
           \A j \in Slots \ {i} : asked'[j] = asked[j],
           course' \in Course, course'.overtaken = course.overtaken,
           Clear' => Clear, course'.word = course.word,
           RShape(asked[i])', Clear' => RGoesOn(asked[i])'
    PROVE  PanelInv'
<1>1. /\ PanelTypeOK /\ StoreOK /\ ShapeInv /\ PanelOrder /\ PanelComplete
      /\ UNCHANGED <<posted, stored, trimmed, deleted, query, results, hasMore, waiting>>
    BY DEF PanelInv, store
<1>2. StoreOK' BY <1>1 DEF StoreOK
<1>3. PanelTypeOK' BY <1>1 DEF PanelTypeOK
<1>4. InFlight' = InFlight
    <2>1. \A j \in Slots : Free(j)' <=> asked'[j] = NoAsk BY DEF Free
    <2>2. i \in Slots /\ ~Free(i) BY DEF InFlight
    <2>3. ~Free(i)' BY <2>1, <2>2
    <2>4. \A j \in Slots : Free(j)' <=> Free(j)
        <3> SUFFICES ASSUME NEW j \in Slots PROVE Free(j)' <=> Free(j) OBVIOUS
        <3>1. CASE j = i BY <2>2, <2>3, <3>1
        <3>2. CASE j # i BY <2>1, <3>2 DEF Free
        <3> QED BY <3>1, <3>2
    <2> QED BY <2>4 DEF InFlight
<1>5. \A j \in InFlight : j # i => asked'[j] = asked[j] BY DEF InFlight
<1>6. ShapeInv'
    <2>1. ASSUME NEW j \in InFlight' PROVE RShape(asked[j])'
        <3>1. CASE j = i BY <3>1
        <3>2. CASE j # i
            <4>1. RShape(asked[j]) /\ asked'[j] = asked[j] BY <1>1, <1>4, <1>5, <3>2 DEF ShapeInv
            <4> QED BY <1>1, <4>1 DEF RShape, InCursor, Descending
        <3> QED BY <3>1, <3>2
    <2>2. \A j \in 1..Len(results') : results'[j] <= posted' BY <1>1 DEF ShapeInv
    <2> QED BY <2>1, <2>2 DEF ShapeInv
<1>7. PanelOrder'
    <2> SUFFICES ASSUME ~course'.overtaken PROVE OneAtATime' BY DEF PanelOrder
    <2>1. OneAtATime BY <1>1 DEF PanelOrder
    <2>2. Descending(results)' /\ Cursor' = Cursor BY <1>1, <2>1 DEF Descending, OneAtATime, Cursor
    <2>3. InFlight = {i} BY <2>1 DEF OneAtATime
    <2>4. IF asked[i].what = "search" THEN results = <<>>
          ELSE results # <<>> /\ asked[i].cursor = Cursor BY <2>1 DEF OneAtATime
    <2>5. \A j \in InFlight' : IF asked'[j].what = "search" THEN results' = <<>>
                              ELSE results' # <<>> /\ asked'[j].cursor = Cursor'
        BY <1>1, <1>4, <2>2, <2>3, <2>4
    <2> QED BY <1>4, <2>2, <2>3, <2>5 DEF OneAtATime
<1>8. PanelComplete'
    <2> SUFFICES ASSUME Clear' PROVE
            /\ (results # <<>> =>
                 \A m \in 1..results[1] : Wanted(m) => InPage(results, m) \/ (hasMore /\ m < Cursor))'
            /\ \A j \in InFlight' : RGoesOn(asked[j])'
        BY DEF PanelComplete
    <2>1. Clear OBVIOUS
    <2>2. ~course.overtaken BY <2>1 DEF Clear
    <2>3. InFlight = {i} BY <1>1, <2>2 DEF PanelOrder, OneAtATime
    <2>4. results # <<>> =>
             \A m \in 1..results[1] : Wanted(m) => InPage(results, m) \/ (hasMore /\ m < Cursor)
        BY <1>1, <2>1 DEF PanelComplete
    <2>5. \A m : Wanted(m)' <=> Wanted(m) BY <1>1 DEF Wanted
    <2>6. \A j \in InFlight' : RGoesOn(asked[j])' BY <1>4, <2>3
    <2>7. Cursor' = Cursor BY <1>1 DEF Cursor
    <2> QED BY <1>1, <2>4, <2>5, <2>6, <2>7 DEF InPage
<1> QED BY <1>2, <1>3, <1>6, <1>7, <1>8 DEF PanelInv

(* What a word and a cursor ask for is in the cache or in the table, and     *)
(* what the cache has is newer.                                              *)
LEMMA ReadCacheStep ==
    ASSUME PanelInv, NEW i \in Slots, ReadCache(i) PROVE PanelInv'
<1> DEFINE r == asked[i]
           F == FoundInCache(r.word, r.cursor)
<1>1. i \in InFlight /\ r # NoAsk BY StageAsked DEF ReadCache, InFlight, Free
<1>2. /\ PanelTypeOK /\ StoreOK /\ ShapeInv /\ PanelComplete
      /\ MaxPosted \in Nat /\ posted \in Nat /\ posted <= MaxPosted
      /\ asked \in [Slots -> Ask \cup {NoAsk}] /\ course \in Course
    BY QueriesAssumption DEF PanelInv, StoreOK, PanelTypeOK
<1>3. /\ r \in Ask /\ r.what \in {"search", "more"} /\ r.word \in Queries
      /\ r.cursor \in 0..MaxPosted
    BY <1>1, <1>2, AskTypes
<1>4. RShape(r) BY <1>1, <1>2 DEF ShapeInv
<1>5. /\ asked' = [asked EXCEPT ![i] = [r EXCEPT !.stage = "table", !.newest = posted, !.found = F]]
      /\ course' = [course EXCEPT !.torn = @ \/ ~NothingHidden]
      /\ UNCHANGED <<posted, stored, trimmed, deleted, query, results, hasMore, waiting>>
      /\ r.stage = "cache"
    BY DEF ReadCache, store
<1>6. /\ Cached \subseteq 1..posted /\ 1..posted \subseteq Ids
      /\ \A m \in Cached, k \in 1..posted : m < k => k \in Cached
    BY <1>2, CachedIs
<1>7. F \in SUBSET Ids /\ F \subseteq Cached BY <1>6 DEF FoundInCache
<1>8. r.cursor # 0 => r.cursor \in 1..posted
    BY <1>2, <1>3, <1>4 DEF RShape
<1>9. \A m \in F : m <= posted /\ InCursor(m, r.cursor)
    <2> SUFFICES ASSUME NEW m \in F PROVE m <= posted /\ InCursor(m, r.cursor) OBVIOUS
    <2>1. m \in 1..posted BY <1>6, <1>7
    <2>2. r.cursor = 0 \/ Rounded(m) < Rounded(r.cursor) BY DEF FoundInCache
    <2>3. CASE r.cursor = 0 BY <1>2, <2>1, <2>3 DEF InCursor
    <2>4. CASE r.cursor # 0
        <3>1. m < r.cursor BY <1>2, <1>8, <2>1, <2>2, <2>4, RoundedGrows
        <3> QED BY <1>2, <2>1, <3>1 DEF InCursor
    <2> QED BY <2>3, <2>4
<1>10. Clear => \A m \in 1..posted : Wanted(m) /\ InCursor(m, r.cursor) => m \in F \/ m \notin Cached
    <2> SUFFICES ASSUME Clear, NEW m \in 1..posted, Wanted(m), InCursor(m, r.cursor), m \in Cached
                 PROVE  m \in F
        OBVIOUS
    <2>1. RGoesOn(r) BY <1>1, <1>2 DEF PanelComplete
    <2>2. r.word = course.word BY <2>1 DEF RGoesOn
    <2>3. r.cursor = 0 \/ Rounded(m) < Rounded(r.cursor)
        BY <1>5, <2>1 DEF RGoesOn, InCursor
    <2> QED BY <2>2, <2>3 DEF FoundInCache, Wanted
<1>11. /\ course' \in Course /\ course'.overtaken = course.overtaken
       /\ course'.edited = course.edited /\ course'.word = course.word
       /\ ~course'.torn => ~course.torn /\ NothingHidden
    BY <1>2, <1>5 DEF Course
<1>12. (Clear' => Clear /\ NothingHidden) /\ \A m : Wanted(m)' <=> Wanted(m)
    BY <1>5, <1>11 DEF Clear, Wanted
<1> HIDE DEF F, r
<1> DEFINE s == [r EXCEPT !.stage = "table", !.newest = posted, !.found = F]
<1>13. /\ s.stage = "table" /\ s.newest = posted /\ s.found = F
       /\ s.what = r.what /\ s.cursor = r.cursor /\ s.word = r.word
    BY <1>3 DEF Ask
<1>14. s \in Ask
    <2>1. posted \in 0..MaxPosted BY <1>2
    <2> QED BY <1>3, <1>7, <2>1 DEF Ask
<1>15. asked' = [asked EXCEPT ![i] = s] BY <1>5
<1> HIDE DEF s
<1>16. s # NoAsk BY <1>14, AskedIs
<1>17. /\ asked' \in [Slots -> Ask \cup {NoAsk}] /\ asked'[i] = s
       /\ \A j \in Slots \ {i} : asked'[j] = asked[j]
    BY <1>2, <1>14, <1>15
<1>18. RShape(asked[i])'
    <2>1. /\ s.what = "search" <=> s.cursor = 0
          /\ s.cursor <= posted' /\ s.newest <= posted'
          /\ s.cursor <= s.newest /\ \A m \in s.found : m <= s.newest /\ InCursor(m, s.cursor)
        BY <1>2, <1>4, <1>5, <1>9, <1>13 DEF RShape
    <2> QED BY <1>13, <1>17, <2>1 DEF RShape, InCursor
<1>19. ASSUME Clear' PROVE RGoesOn(asked[i])'
    <2>1. Clear /\ NothingHidden /\ RGoesOn(r)
        BY <1>1, <1>2, <1>12, <1>19 DEF PanelComplete, r
    <2>2. ASSUME NEW m \in 1..posted, Wanted(m), InCursor(m, r.cursor), m \notin F
          PROVE  m <= stored /\ \A f \in F : m < f
        <3>1. m \notin Cached BY <1>10, <2>1, <2>2
        <3>2. m \in 1..stored BY <2>1, <3>1 DEF NothingHidden, Rows
        <3>3. ASSUME NEW f \in F PROVE m < f
            <4>1. f \in Cached /\ f \in 1..posted BY <1>6, <1>7
            <4>2. ~(f < m) /\ f # m BY <1>6, <3>1, <4>1
            <4>3. f \in Nat /\ m \in Nat BY <1>2, <4>1
            <4> QED BY <4>2, <4>3
        <3>4. m <= stored BY <3>2
        <3> QED BY <3>3, <3>4
    <2>3. s.word = course'.word BY <1>11, <1>13, <2>1 DEF RGoesOn
    <2>4. \A m \in 1..s.newest : Wanted(m)' /\ InCursor(m, s.cursor) /\ m \notin s.found =>
            m <= stored' /\ \A f \in s.found : m < f
        BY <1>5, <1>12, <1>13, <2>2
    <2> QED BY <1>13, <1>17, <2>3, <2>4 DEF RGoesOn, InCursor
<1> QED BY <1>1, <1>5, <1>11, <1>12, <1>13, <1>16, <1>17, <1>18, <1>19, Proceeds DEF r, store

(* A page has what is wanted, down to its end.                               *)
LEMMA ReadTableStep ==
    ASSUME PanelInv, NEW i \in Slots, ReadTable(i) PROVE PanelInv'
<1> DEFINE r == asked[i]
           D == DbMatches(r.word, r.cursor, r.found)
           p == SearchPage(r.word, r.cursor, r.found)
<1>1. i \in InFlight /\ r # NoAsk BY StageAsked DEF ReadTable, InFlight, Free
<1>2. /\ PanelTypeOK /\ StoreOK /\ ShapeInv /\ PanelComplete
      /\ MaxPosted \in Nat /\ posted \in Nat /\ posted <= MaxPosted /\ stored \in Nat /\ stored <= posted
      /\ asked \in [Slots -> Ask \cup {NoAsk}] /\ course \in Course
    BY QueriesAssumption DEF PanelInv, StoreOK, PanelTypeOK
<1>3. /\ r \in Ask /\ r.what \in {"search", "more"} /\ r.word \in Queries
      /\ r.cursor \in 0..MaxPosted /\ r.found \in SUBSET Ids /\ r.newest \in 0..MaxPosted
    BY <1>1, <1>2, AskTypes
<1>4. RShape(r) BY <1>1, <1>2 DEF ShapeInv
<1>5. /\ asked' = [asked EXCEPT ![i] = [r EXCEPT !.stage = "answered", !.found = {},
                                                 !.newest = 0, !.page = p]]
      /\ course' = [course EXCEPT !.torn = @ \/ stored > r.newest]
      /\ UNCHANGED <<posted, stored, trimmed, deleted, query, results, hasMore, waiting>>
      /\ r.stage = "table"
    BY DEF ReadTable, store
<1>6. /\ p \in Seq(Ids) /\ Descending(p)
      /\ \A j \in 1..Len(p) : p[j] \in r.found \cup D
      /\ (\A f \in r.found, d \in D : d < f)
           => p = Reverse(Ascending(Newest(r.found \cup D, SearchSize)))
    BY <1>2, <1>3, SearchPageIs
<1>7. /\ D \subseteq 1..stored /\ 1..stored \subseteq 1..posted /\ 1..posted \subseteq Ids
      /\ \A d \in D : InCursor(d, r.cursor)
    BY <1>2 DEF DbMatches, Rows, Ids
<1>8. \A m \in r.found \cup D : m <= posted /\ InCursor(m, r.cursor) /\ m \in Nat
    <2>1. \A m \in r.found : m \in Nat BY <1>2, <1>3 DEF Ids
    <2>2. \A m \in r.found : m <= r.newest /\ InCursor(m, r.cursor) /\ r.newest <= posted
        BY <1>4, <1>5 DEF RShape
    <2>3. \A m \in r.found : m <= posted BY <1>2, <1>3, <2>1, <2>2
    <2>4. \A m \in D : m <= posted /\ m \in Nat BY <1>2, <1>7
    <2> QED BY <1>7, <2>1, <2>2, <2>3, <2>4
<1>9. /\ course' \in Course /\ course'.overtaken = course.overtaken
      /\ course'.edited = course.edited /\ course'.word = course.word
      /\ ~course'.torn => ~course.torn /\ ~(stored > r.newest)
    BY <1>2, <1>5 DEF Course
<1>10. (Clear' => Clear /\ stored <= r.newest) /\ \A m : Wanted(m)' <=> Wanted(m)
    <2>1. \A m : Wanted(m)' <=> Wanted(m) BY <1>5, <1>9 DEF Wanted
    <2>2. Clear' => Clear /\ ~(stored > r.newest) BY <1>9 DEF Clear
    <2>3. ~(stored > r.newest) => stored <= r.newest BY <1>2, <1>3
    <2> QED BY <2>1, <2>2, <2>3
<1>11. ASSUME Clear' PROVE
         /\ r.word = course.word
         /\ \A m \in 1..posted :
              Wanted(m) /\ (IF r.cursor = 0 THEN p # <<>> /\ m <= p[1] ELSE m < r.cursor)
              => InPage(p, m) \/ (p # <<>> /\ Len(p) = SearchSize /\ m < p[Len(p)])
    <2>1. Clear /\ stored <= r.newest /\ RGoesOn(r)
        BY <1>1, <1>2, <1>10, <1>11 DEF PanelComplete
    <2>2. /\ r.word = course.word /\ r.word \in Exact
          /\ \A m \in 1..r.newest : Wanted(m) /\ InCursor(m, r.cursor) /\ m \notin r.found =>
               m <= stored /\ \A f \in r.found : m < f
        BY <1>5, <2>1 DEF RGoesOn, Clear
    <2>3. \A m \in 1..stored : m \in D <=> Wanted(m) /\ InCursor(m, r.cursor) /\ m \notin r.found
        <3>1. \A m \in Ids : HasWord(r.word, m) = TableHasWord(r.word, m) BY <2>2 DEF Exact
        <3> QED BY <1>7, <2>2, <3>1 DEF DbMatches, Rows, Wanted
    <2>4. ASSUME NEW f \in r.found, NEW d \in D PROVE d < f
        <3>1. d \in 1..stored /\ d \in 1..r.newest BY <1>2, <1>3, <1>7, <2>1
        <3> QED BY <2>2, <2>3, <3>1
    <2> DEFINE S == r.found \cup D
    <2>5. p = Reverse(Ascending(Newest(S, SearchSize))) BY <1>6, <2>4
    <2>6. S \in SUBSET Ids BY <1>3, <1>7
    <2>7. ASSUME NEW m \in 1..posted, Wanted(m),
                 IF r.cursor = 0 THEN p # <<>> /\ m <= p[1] ELSE m < r.cursor
          PROVE  InPage(p, m) \/ (p # <<>> /\ Len(p) = SearchSize /\ m < p[Len(p)])
        <3>1. m \in 1..r.newest /\ InCursor(m, r.cursor)
            <4>1. CASE r.cursor = 0
                <5>1. p # <<>> /\ m <= p[1] BY <2>7, <4>1
                <5>2. 1 \in 1..Len(p) BY <1>6, <5>1, HasEnds
                <5>3. p[1] \in r.found \cup D BY <1>6, <5>2
                <5>4. p[1] \in Nat BY <1>8, <5>3
                <5>5. p[1] <= r.newest
                    <6>1. CASE p[1] \in r.found BY <1>4, <1>5, <6>1 DEF RShape
                    <6>2. CASE p[1] \in D
                        <7>1. p[1] \in 1..stored BY <1>7, <6>2
                        <7> QED BY <1>2, <1>3, <2>1, <7>1
                    <6> QED BY <5>3, <6>1, <6>2
                <5> HIDE DEF p, r
                <5> QED BY <1>2, <1>3, <4>1, <5>1, <5>4, <5>5 DEF InCursor
            <4>2. CASE r.cursor # 0
                <5>1. m < r.cursor BY <2>7, <4>2
                <5>2. r.cursor <= r.newest BY <1>4, <1>5 DEF RShape
                <5> HIDE DEF r
                <5> QED BY <1>2, <1>3, <5>1, <5>2 DEF InCursor
            <4> QED BY <4>1, <4>2
        <3>2. m \in S
            <4> SUFFICES ASSUME m \notin r.found PROVE m \in D OBVIOUS
            <4>1. m <= stored BY <2>2, <2>7, <3>1
            <4>2. m \in 1..stored BY <1>2, <4>1
            <4> QED BY <2>3, <2>7, <3>1, <4>2
        <3> HIDE DEF S, p
        <3>3. LET s == Reverse(Ascending(Newest(S, SearchSize))) IN
               InPage(s, m) \/ (s # <<>> /\ Len(s) = SearchSize /\ m < s[Len(s)])
            BY <2>6, <3>2, FullPage
        <3> QED BY <2>5, <3>3
    <2> QED BY <2>2, <2>7
<1>12. \A j \in 1..Len(p) : p[j] <= posted /\ InCursor(p[j], r.cursor) BY <1>6, <1>8
<1> HIDE DEF r, D, p
<1> DEFINE s == [r EXCEPT !.stage = "answered", !.found = {}, !.newest = 0, !.page = p]
<1>13. /\ s.stage = "answered" /\ s.newest = 0 /\ s.page = p
       /\ s.what = r.what /\ s.cursor = r.cursor /\ s.word = r.word
    BY <1>3 DEF Ask
<1>14. s \in Ask
    <2>1. 0 \in 0..MaxPosted BY <1>2
    <2> QED BY <1>3, <1>6, <2>1 DEF Ask
<1>15. asked' = [asked EXCEPT ![i] = s] BY <1>5
<1> HIDE DEF s
<1>16. s # NoAsk BY <1>14, AskedIs
<1>17. /\ asked' \in [Slots -> Ask \cup {NoAsk}] /\ asked'[i] = s
       /\ \A j \in Slots \ {i} : asked'[j] = asked[j]
    BY <1>2, <1>14, <1>15
<1>18. RShape(asked[i])'
    <2>1. /\ s.what = "search" <=> s.cursor = 0
          /\ s.cursor <= posted' /\ s.newest <= posted'
          /\ Descending(s.page)
          /\ \A j \in 1..Len(s.page) : s.page[j] <= posted' /\ InCursor(s.page[j], s.cursor)
        BY <1>2, <1>4, <1>5, <1>6, <1>12, <1>13 DEF RShape
    <2> QED BY <1>13, <1>17, <2>1 DEF RShape, InCursor, Descending
<1>19. ASSUME Clear' PROVE RGoesOn(asked[i])'
    <2>1. /\ s.word = course'.word
          /\ \A m \in 1..posted' :
              Wanted(m)' /\ (IF s.cursor = 0 THEN s.page # <<>> /\ m <= s.page[1] ELSE m < s.cursor)
              => InPage(s.page, m)
                   \/ (s.page # <<>> /\ Len(s.page) = SearchSize /\ m < s.page[Len(s.page)])
        BY <1>5, <1>9, <1>10, <1>11, <1>13, <1>19
    <2> QED BY <1>13, <1>17, <2>1 DEF RGoesOn, InPage
<1> QED BY <1>1, <1>5, <1>9, <1>10, <1>13, <1>16, <1>17, <1>18, <1>19, Proceeds DEF r, store

(* A request ends.                                                           *)
LEMMA Ends ==
    ASSUME PanelTypeOK, NEW i \in Slots, asked' = [asked EXCEPT ![i] = NoAsk]
    PROVE  /\ asked' \in [Slots -> Ask \cup {NoAsk}] /\ InFlight' = InFlight \ {i}
           /\ \A j \in InFlight' : asked'[j] = asked[j]
<1>1. asked \in [Slots -> Ask \cup {NoAsk}] BY DEF PanelTypeOK
<1>2. /\ asked' \in [Slots -> Ask \cup {NoAsk}] /\ asked'[i] = NoAsk
      /\ \A j \in Slots \ {i} : asked'[j] = asked[j]
    BY <1>1
<1>3. \A j \in Slots : Free(j)' <=> asked'[j] = NoAsk BY DEF Free
<1>4. InFlight' = InFlight \ {i} BY <1>2, <1>3 DEF InFlight, Free
<1> QED BY <1>2, <1>4 DEF InFlight

(* The requests that are left after one has ended, and the results if they   *)
(* are in order and have what is wanted.                                     *)
LEMMA EndStep ==
    ASSUME PanelInv, NEW i \in InFlight, asked' = [asked EXCEPT ![i] = NoAsk],
           UNCHANGED <<store, query, course>>,
           results' \in Seq(Ids), hasMore' \in BOOLEAN, waiting' \in BOOLEAN,
           \A j \in 1..Len(results') : results'[j] <= posted,
           ~course.overtaken => Descending(results)',
           Clear => (results # <<>> =>
             \A m \in 1..results[1] : Wanted(m) => InPage(results, m) \/ (hasMore /\ m < Cursor))'
    PROVE  PanelInv'
<1>1. /\ PanelTypeOK /\ StoreOK /\ ShapeInv /\ PanelOrder /\ PanelComplete
      /\ UNCHANGED <<posted, stored, trimmed, deleted, query, course>>
    BY DEF PanelInv, store
<1>2. /\ asked' \in [Slots -> Ask \cup {NoAsk}] /\ InFlight' = InFlight \ {i}
      /\ \A j \in InFlight' : asked'[j] = asked[j]
    BY <1>1, Ends DEF InFlight
<1>3. StoreOK' BY <1>1 DEF StoreOK
<1>4. PanelTypeOK' BY <1>1, <1>2 DEF PanelTypeOK
<1>5. ShapeInv'
    <2>1. ASSUME NEW j \in InFlight' PROVE RShape(asked[j])'
        <3>1. RShape(asked[j]) /\ asked'[j] = asked[j] BY <1>1, <1>2 DEF ShapeInv
        <3> QED BY <1>1, <3>1 DEF RShape, InCursor, Descending
    <2>2. \A j \in 1..Len(results') : results'[j] <= posted' BY <1>1
    <2> QED BY <2>1, <2>2 DEF ShapeInv
<1>6. ~course.overtaken => InFlight' = {}
    <2>1. ~course.overtaken => \A j \in InFlight : j = i BY <1>1 DEF PanelOrder, OneAtATime
    <2> QED BY <1>2, <2>1
<1>7. PanelOrder' BY <1>1, <1>6 DEF PanelOrder, OneAtATime
<1>8. PanelComplete'
    <2> SUFFICES ASSUME Clear' PROVE
            /\ (results # <<>> =>
                 \A m \in 1..results[1] : Wanted(m) => InPage(results, m) \/ (hasMore /\ m < Cursor))'
            /\ \A j \in InFlight' : RGoesOn(asked[j])'
        BY DEF PanelComplete
    <2>1. Clear BY <1>1 DEF Clear
    <2>2. InFlight' = {} BY <1>6, <2>1 DEF Clear
    <2> QED BY <2>1, <2>2
<1> QED BY <1>3, <1>4, <1>5, <1>7, <1>8 DEF PanelInv

LEMMA AskFailsStep ==
    ASSUME PanelInv, NEW i \in Slots, AskFails(i) PROVE PanelInv'
<1>1. i \in InFlight BY DEF AskFails, InFlight
<1>2. /\ asked' = [asked EXCEPT ![i] = NoAsk] /\ waiting' = FALSE
      /\ UNCHANGED <<store, query, results, hasMore, course>>
      /\ UNCHANGED <<posted, stored, trimmed, deleted>>
    BY DEF AskFails, store
<1>3. PanelTypeOK /\ ShapeInv /\ PanelOrder /\ PanelComplete BY DEF PanelInv
<1>4. results' \in Seq(Ids) /\ hasMore' \in BOOLEAN BY <1>2, <1>3 DEF PanelTypeOK
<1>5. \A j \in 1..Len(results') : results'[j] <= posted BY <1>2, <1>3 DEF ShapeInv
<1>6. ~course.overtaken => Descending(results)'
    BY <1>2, <1>3 DEF PanelOrder, OneAtATime, Descending
<1>7. ASSUME Clear PROVE (results # <<>> =>
             \A m \in 1..results[1] : Wanted(m) => InPage(results, m) \/ (hasMore /\ m < Cursor))'
    <2>1. results # <<>> =>
             \A m \in 1..results[1] : Wanted(m) => InPage(results, m) \/ (hasMore /\ m < Cursor)
        BY <1>3, <1>7 DEF PanelComplete
    <2>2. \A m : Wanted(m)' <=> Wanted(m) BY <1>2 DEF Wanted
    <2> QED BY <1>2, <2>1, <2>2 DEF InPage, Cursor
<1> QED BY <1>1, <1>2, <1>4, <1>5, <1>6, <1>7, EndStep

(* The page follows the results that it was asked for.                       *)
LEMMA ArriveStep ==
    ASSUME PanelInv, NEW i \in Slots, Arrive(i) PROVE PanelInv'
<1> DEFINE r == asked[i]
           p == r.page
<1>1. i \in InFlight /\ r # NoAsk BY StageAsked DEF Arrive, InFlight, Free
<1>2. /\ PanelTypeOK /\ StoreOK /\ ShapeInv /\ PanelOrder /\ PanelComplete
      /\ MaxPosted \in Nat /\ posted \in Nat /\ posted <= MaxPosted
      /\ results \in Seq(Ids) /\ hasMore \in BOOLEAN
    BY QueriesAssumption DEF PanelInv, StoreOK, PanelTypeOK
<1>3. /\ r.what \in {"search", "more"} /\ r.cursor \in 0..MaxPosted /\ p \in Seq(Ids)
    BY <1>1, <1>2, AskTypes
<1>4. RShape(r) BY <1>1, <1>2 DEF ShapeInv
<1>5. /\ asked' = [asked EXCEPT ![i] = NoAsk] /\ waiting' = FALSE /\ r.stage = "answered"
      /\ results' = IF r.what = "search" THEN p ELSE results \o p
      /\ hasMore' = (Len(p) = SearchSize)
      /\ UNCHANGED <<store, query, course>> /\ UNCHANGED <<posted, stored, trimmed, deleted>>
    BY DEF Arrive, MoreAfter, store
<1>6. /\ r.what = "search" <=> r.cursor = 0
      /\ Descending(p)
      /\ \A j \in 1..Len(p) : p[j] <= posted /\ InCursor(p[j], r.cursor)
    BY <1>4, <1>5 DEF RShape
<1>7. Ids = 1..MaxPosted /\ \A s \in Seq(Ids) : \A j \in 1..Len(s) : s[j] \in Nat
    BY <1>2 DEF Ids
<1>8. ~course.overtaken =>
        IF r.what = "search" THEN results = <<>> ELSE results # <<>> /\ r.cursor = Cursor
    BY <1>1, <1>2 DEF PanelOrder, OneAtATime
<1>9. ~course.overtaken => Descending(results) BY <1>2 DEF PanelOrder, OneAtATime
<1>10. \A j \in 1..Len(results) : results[j] <= posted BY <1>2 DEF ShapeInv
<1>11. Clear => /\ RGoesOn(r)
                /\ results # <<>> =>
                     \A m \in 1..results[1] : Wanted(m) => InPage(results, m) \/ (hasMore /\ m < Cursor)
    BY <1>1, <1>2 DEF PanelComplete
<1>12. Clear => \A m \in 1..posted :
            Wanted(m) /\ (IF r.cursor = 0 THEN p # <<>> /\ m <= p[1] ELSE m < r.cursor)
              => InPage(p, m) \/ (p # <<>> /\ Len(p) = SearchSize /\ m < p[Len(p)])
    BY <1>5, <1>11 DEF RGoesOn
<1>13. \A m : Wanted(m)' <=> Wanted(m) BY <1>5 DEF Wanted
<1> HIDE DEF r, p
<1>14. CASE r.what = "search"
    <2>1. results' = p BY <1>5, <1>14
    <2>2. results' \in Seq(Ids) /\ hasMore' \in BOOLEAN BY <1>3, <1>5, <2>1
    <2>3. \A j \in 1..Len(results') : results'[j] <= posted BY <1>6, <2>1
    <2>4. Descending(results)' BY <1>6, <2>1 DEF Descending
    <2>5. ASSUME Clear PROVE (results # <<>> =>
             \A m \in 1..results[1] : Wanted(m) => InPage(results, m) \/ (hasMore /\ m < Cursor))'
        <3>1. ASSUME p # <<>>, NEW m \in 1..p[1], Wanted(m)
              PROVE  InPage(p, m) \/ (Len(p) = SearchSize /\ m < p[Len(p)])
            <4>1. 1 \in 1..Len(p) BY <1>3, <3>1, HasEnds
            <4>2. p[1] \in Nat /\ p[1] <= posted BY <1>3, <1>6, <1>7, <4>1
            <4>3. m \in 1..posted /\ m <= p[1] BY <1>2, <4>2
            <4> QED BY <1>6, <1>12, <1>14, <2>5, <3>1, <4>3
        <3> QED BY <1>5, <1>13, <2>1, <3>1 DEF InPage, Cursor
    <2> QED BY <1>1, <1>5, <2>2, <2>3, <2>4, <2>5, EndStep
<1>15. CASE r.what # "search"
    <2>1. results' = results \o p BY <1>5, <1>15
    <2>2. /\ results' \in Seq(Ids) /\ Len(results') = Len(results) + Len(p)
          /\ \A k \in 1..Len(results) : results'[k] = results[k]
          /\ \A k \in 1..Len(p) : results'[Len(results) + k] = p[k]
          /\ \A k \in 1..Len(results') :
               k \in 1..Len(results) \/ \E j \in 1..Len(p) : k = Len(results) + j
        BY <1>2, <1>3, <2>1, Joined
    <2>3. hasMore' \in BOOLEAN BY <1>5
    <2>4. \A j \in 1..Len(results') : results'[j] <= posted
        <3> SUFFICES ASSUME NEW k \in 1..Len(results') PROVE results'[k] <= posted OBVIOUS
        <3>1. CASE k \in 1..Len(results) BY <1>10, <2>2, <3>1
        <3>2. CASE \E j \in 1..Len(p) : k = Len(results) + j BY <1>6, <2>2, <3>2
        <3> QED BY <2>2, <3>1, <3>2
    <2>5. /\ Len(results) \in Nat /\ Len(p) \in Nat
          /\ \A j \in 1..Len(results) : results[j] \in Nat
          /\ \A j \in 1..Len(p) : p[j] \in Nat
        BY <1>2, <1>3, <1>7
    <2>6. ASSUME ~course.overtaken
          PROVE  /\ results # <<>> /\ r.cursor = results[Len(results)]
                 /\ Len(results) \in 1..Len(results) /\ 1 \in 1..Len(results)
                 /\ \A j \in 1..Len(p) : p[j] < r.cursor
        <3>1. results # <<>> /\ r.cursor = results[Len(results)]
            BY <1>8, <1>15, <2>6 DEF Cursor
        <3>2. Len(results) \in 1..Len(results) /\ 1 \in 1..Len(results) BY <1>2, <3>1, HasEnds
        <3> QED BY <1>6, <1>15, <3>1, <3>2 DEF InCursor
    <2>7. ASSUME ~course.overtaken PROVE Descending(results)'
        <3> SUFFICES ASSUME NEW j \in 1..Len(results'), NEW k \in 1..Len(results'), j < k
                     PROVE  results'[j] > results'[k]
            BY DEF Descending
        <3>1. CASE k \in 1..Len(results)
            <4>1. j \in 1..Len(results) BY <2>5, <3>1
            <4> QED BY <1>9, <2>2, <2>7, <3>1, <4>1 DEF Descending
        <3>2. CASE k \notin 1..Len(results)
            <4>1. PICK b \in 1..Len(p) : k = Len(results) + b BY <2>2, <3>2
            <4>2. CASE j \in 1..Len(results)
                <5>1. results[j] >= r.cursor
                    <6>1. CASE j = Len(results) BY <2>5, <2>6, <2>7, <4>2, <6>1
                    <6>2. CASE j # Len(results)
                        <7>1. j < Len(results) BY <2>5, <4>2, <6>2
                        <7>2. results[j] > results[Len(results)]
                            BY <1>9, <2>6, <2>7, <4>2, <7>1 DEF Descending
                        <7> QED BY <2>5, <2>6, <2>7, <4>2, <7>2
                    <6> QED BY <6>1, <6>2
                <5>2. p[b] < r.cursor /\ p[b] \in Nat /\ r.cursor \in Nat BY <1>2, <1>3, <2>5, <2>6, <2>7
                <5>3. results'[j] = results[j] /\ results'[k] = p[b] /\ results[j] \in Nat
                    BY <2>2, <2>5, <4>1, <4>2
                <5> QED BY <5>1, <5>2, <5>3
            <4>3. CASE j \notin 1..Len(results)
                <5>1. PICK a \in 1..Len(p) : j = Len(results) + a BY <2>2, <4>3
                <5>2. a < b BY <2>5, <4>1, <5>1
                <5>3. p[a] > p[b] BY <1>6, <5>2 DEF Descending
                <5> QED BY <2>2, <4>1, <5>1, <5>3
            <4> QED BY <4>2, <4>3
        <3> QED BY <3>1, <3>2
    <2>8. ASSUME Clear PROVE (results # <<>> =>
             \A m \in 1..results[1] : Wanted(m) => InPage(results, m) \/ (hasMore /\ m < Cursor))'
        <3>0. ~course.overtaken BY <2>8 DEF Clear
        <3>1. ASSUME NEW m \in 1..results[1], Wanted(m)
              PROVE  InPage(results', m) \/ (Len(p) = SearchSize /\ m < results'[Len(results')])
            <4>1. CASE InPage(results, m)
                <5>1. PICK k \in 1..Len(results) : results[k] = m BY <4>1 DEF InPage
                <5>2. k \in 1..Len(results') BY <2>2, <2>5
                <5> QED BY <2>2, <5>1, <5>2 DEF InPage
            <4>2. CASE hasMore /\ m < Cursor
                <5>1. m < r.cursor /\ r.cursor # 0 BY <1>6, <1>15, <2>6, <3>0, <4>2 DEF Cursor
                <5>2. results[1] \in Nat /\ results[1] <= posted
                    BY <1>10, <2>5, <2>6, <3>0
                <5>3. m \in 1..posted BY <1>2, <5>2
                <5>4. InPage(p, m) \/ (p # <<>> /\ Len(p) = SearchSize /\ m < p[Len(p)])
                    BY <1>12, <2>8, <3>1, <5>1, <5>3
                <5>5. CASE InPage(p, m)
                    <6>1. PICK k \in 1..Len(p) : p[k] = m BY <5>5 DEF InPage
                    <6>2. Len(results) + k \in 1..Len(results') BY <2>2, <2>5
                    <6> QED BY <2>2, <6>1, <6>2 DEF InPage
                <5>6. CASE p # <<>> /\ Len(p) = SearchSize /\ m < p[Len(p)]
                    <6>1. Len(p) \in 1..Len(p) BY <1>3, <5>6, HasEnds
                    <6> QED BY <2>2, <5>6, <6>1
                <5> QED BY <5>4, <5>5, <5>6
            <4> QED BY <1>11, <2>6, <2>8, <3>0, <3>1, <4>1, <4>2
        <3>2. results'[1] = results[1] BY <2>2, <2>6, <3>0
        <3> QED BY <1>5, <1>13, <3>1, <3>2 DEF InPage, Cursor
    <2> QED BY <1>1, <1>5, <2>2, <2>3, <2>4, <2>7, <2>8, EndStep
<1> QED BY <1>14, <1>15

LEMMA PanelStarts == StoreInit /\ PanelInit => PanelInv
<1> SUFFICES ASSUME StoreInit, PanelInit PROVE PanelInv OBVIOUS
<1>1. MaxPosted \in Nat /\ Held \subseteq 0..MaxPosted BY QueriesAssumption
<1>2. StoreOK BY <1>1 DEF StoreInit, StoreOK
<1>3. PanelTypeOK
    <2>1. results \in Seq(Ids) BY DEF PanelInit
    <2>2. course \in Course BY DEF PanelInit, Course
    <2> QED BY <2>1, <2>2 DEF PanelInit, PanelTypeOK
<1>4. InFlight = {} BY DEF PanelInit, InFlight, Free
<1>5. results = <<>> BY DEF PanelInit
<1>6. ShapeInv BY <1>4, <1>5 DEF ShapeInv
<1>7. PanelOrder BY <1>4, <1>5 DEF PanelOrder, OneAtATime, Descending
<1>8. PanelComplete BY <1>4, <1>5 DEF PanelComplete
<1> QED BY <1>2, <1>3, <1>6, <1>7, <1>8 DEF PanelInv

LEMMA PanelStep == PanelInv /\ [PanelNext]_panelVars => PanelInv'
<1> SUFFICES ASSUME PanelInv, [PanelNext]_panelVars PROVE PanelInv' OBVIOUS
<1>0. query \in Queries /\ waiting \in BOOLEAN BY DEF PanelInv, PanelTypeOK
<1>1. CASE EditQuery
    <2>1. query' \in Queries /\ UNCHANGED <<store, results, hasMore, waiting, asked, course>>
        BY <1>1 DEF EditQuery
    <2>2. UNCHANGED <<store, results, hasMore, asked, course>> /\ waiting' \in BOOLEAN BY <1>0, <2>1
    <2> QED BY <2>1, <2>2, StillPanel
<1>2. CASE HandleSearch BY <1>2, SearchStep
<1>3. CASE HandleSearchMore BY <1>3, SearchMoreStep
<1>4. CASE StoreOnly BY <1>4, StoreOnlyStep
<1>5. ASSUME NEW i \in Slots, ReadCache(i) PROVE PanelInv' BY <1>5, ReadCacheStep
<1>6. ASSUME NEW i \in Slots, ReadTable(i) PROVE PanelInv' BY <1>6, ReadTableStep
<1>7. ASSUME NEW i \in Slots, Arrive(i) PROVE PanelInv' BY <1>7, ArriveStep
<1>8. ASSUME NEW i \in Slots, AskFails(i) PROVE PanelInv' BY <1>8, AskFailsStep
<1>9. CASE UNCHANGED panelVars
    <2>1. /\ UNCHANGED <<store, results, hasMore, asked, course>>
          /\ query' = query /\ waiting' = waiting
        BY <1>9 DEF panelVars, panel
    <2> QED BY <1>0, <2>1, StillPanel
<1> QED BY <1>1, <1>2, <1>3, <1>4, <1>5, <1>6, <1>7, <1>8, <1>9 DEF PanelNext

LEMMA PanelHolds == PanelSpec => []PanelInv
<1> QED BY PanelStarts, PanelStep, PTL DEF PanelSpec

(* In every run and for every number of messages, sizes of cache and page,   *)
(* words and requests under way, the panel's variables keep their types.     *)
THEOREM PanelTypeCorrect == PanelSpec => []PanelTypeOK
<1>1. PanelInv => PanelTypeOK BY DEF PanelInv
<1> QED BY <1>1, PanelHolds, PTL

(* In every reachable state, searchMessages answers as if the room's cache   *)
(* and the messages table were one: the newest matches before the cursor,    *)
(* the newest first, none left out and none twice.                           *)
THEOREM SearchesAreExact == PanelSpec => []SearchExact
<1>1. PanelInv => SearchExact BY StoreExact DEF PanelInv
<1> QED BY <1>1, PanelHolds, PTL

(* However posts, batches, deletions and failed requests fall between its    *)
(* pages, the list of results is in order, and complete when no more is      *)
(* offered, unless requests overtook each other, the word was edited or a    *)
(* read was torn.                                                            *)
THEOREM ResultsAreComplete == PanelSpec => []ResultsComplete
<1>1. PanelInv => ResultsComplete
    <2> SUFFICES ASSUME PanelInv, ~course.overtaken
                 PROVE  /\ \A i \in 1..(Len(results) - 1) : results[i] > results[i + 1]
                        /\ /\ ~course.edited /\ ~course.torn /\ course.word \in Exact
                           /\ results # <<>> /\ ~hasMore /\ InFlight = {}
                           => \A m \in (1..results[1]) \ deleted :
                                HasWord(course.word, m) => \E i \in DOMAIN results : results[i] = m
        BY DEF ResultsComplete
    <2>1. Descending(results) /\ results \in Seq(Ids) /\ PanelComplete
        BY DEF PanelInv, PanelOrder, OneAtATime, PanelTypeOK
    <2>2. \A i \in 1..(Len(results) - 1) : results[i] > results[i + 1]
        <3>1. \A i \in 1..(Len(results) - 1) : i \in 1..Len(results) /\ i + 1 \in 1..Len(results) /\ i < i + 1
            BY <2>1
        <3> QED BY <2>1, <3>1 DEF Descending
    <2>3. ASSUME ~course.edited, ~course.torn, course.word \in Exact, results # <<>>, ~hasMore,
                 NEW m \in (1..results[1]) \ deleted, HasWord(course.word, m)
          PROVE  \E i \in DOMAIN results : results[i] = m
        <3>1. Clear /\ Wanted(m) BY <2>3 DEF Clear, Wanted
        <3>2. InPage(results, m) BY <2>1, <2>3, <3>1 DEF PanelComplete
        <3>3. DOMAIN results = 1..Len(results) BY <2>1
        <3> QED BY <3>2, <3>3 DEF InPage
    <2> QED BY <2>2, <2>3
<1> QED BY <1>1, PanelHolds, PTL

-----------------------------------------------------------------------------
(* The four parts together.                                                 *)

clientVars == <<store, client, panel, memberVars, browserVars, part>>

(* What the list does to the room's messages is what others do to those that *)
(* the panel searches.                                                      *)
LEMMA ListMovesStore ==
    ASSUME ClientNext, UNCHANGED panel PROVE [PanelNext]_panelVars
<1>1. CASE PostAndEmit BY <1>1 DEF PostAndEmit, StoreOnly, PanelNext
<1>2. CASE DeleteAndEmit BY <1>2 DEF DeleteAndEmit, StoreOnly, PanelNext
<1>3. CASE FlushOnly BY <1>3 DEF FlushOnly, StoreOnly, PanelNext
<1>4. ASSUME ~PostAndEmit, ~DeleteAndEmit, ~FlushOnly PROVE UNCHANGED panelVars
    BY <1>4 DEF ClientNext, Join, LoseConnection, ReceiveMessage, ReceiveDeletion, ScrollUp,
                ScrollDown, Jump, AnswerBefore, Answer, Apply, LoadFails, panelVars
<1> QED BY <1>1, <1>2, <1>3, <1>4

(* Together, the window, the pages in a room and the search panel behave as  *)
(* their own specifications say.                                            *)
THEOREM PartsTogether == Spec => BrowserSpec /\ MembersSpec /\ PanelSpec
<1>1. Init => BrowserInit /\ MembersInit /\ StoreInit /\ PanelInit BY DEF Init
<1>2. [Next]_clientVars => [BrowserNext]_browserVars BY DEF Next, clientVars
<1>3. [Next]_clientVars => [MembersNext]_memberVars BY DEF Next, clientVars
<1>4. [Next]_clientVars => [PanelNext]_panelVars
    BY ListMovesStore DEF Next, clientVars, panelVars
<1> QED BY <1>1, <1>2, <1>3, <1>4, PTL DEF Spec, BrowserSpec, MembersSpec, PanelSpec, clientVars

(* The list is at work, or at rest as it began. *)
ListPart ==
    IF part = "list" THEN ViewTypeOK /\ ToldInv /\ OrderInv /\ HoleInv ELSE ClientInit

LEMMA ListPartHolds == Spec => []ListPart
<1>1. Init => ListPart
    <2> SUFFICES ASSUME StoreInit, ClientInit PROVE ViewTypeOK /\ ToldInv /\ OrderInv /\ HoleInv
        BY DEF Init, ListPart
    <2> QED BY ViewInitTold, ViewInitOrder, ViewInitHole
<1>2. ListPart /\ [Next]_clientVars => ListPart'
    <2> SUFFICES ASSUME ListPart, [Next]_clientVars PROVE ListPart' OBVIOUS
    <2>1. part' = part /\ (part = "list" => [ClientNext]_viewVars) /\ (part # "list" => UNCHANGED client)
        BY DEF Next, clientVars, viewVars
    <2>2. CASE part = "list"
        BY <2>1, <2>2, ViewStepTypes, ToldStep, OrderStep, HoleStep, StillView, StillOrder, StillDense
           DEF ListPart
    <2>3. CASE part # "list"
        BY <2>1, <2>3 DEF ListPart, ClientInit, client
    <2> QED BY <2>2, <2>3
<1> QED BY <1>1, <1>2, PTL DEF Spec, clientVars

LEMMA RestingList ==
    ASSUME StoreOK, ClientInit PROVE ViewTypeOK /\ ViewInOrder /\ ViewWithoutHole /\ DeletedShown
<1>1. view = <<>> BY DEF ClientInit
<1>2. ViewTypeOK
    <2>1. MaxPosted \in Nat /\ MaxLost \in Nat BY QueriesAssumption, ViewAssumption
    <2>2. load \in Loads BY <2>1 DEF ClientInit, Request, Loads
    <2>3. past \in Past BY <2>1 DEF ClientInit, Past
    <2>4. \A E : <<>> \in Seq(E) OBVIOUS
    <2>5. view \in Seq(Entry) /\ wire \in Seq(Event) BY <2>4 DEF ClientInit
    <2>6. top = 0 /\ lost = 0 /\ joined \in BOOLEAN BY DEF ClientInit
    <2>7. top \in 0..MaxPosted /\ lost \in 0..MaxLost BY <2>1, <2>6
    <2> QED BY <2>2, <2>3, <2>5, <2>6, <2>7 DEF StoreOK, ViewTypeOK
<1>3. Len(view) = 0 /\ DOMAIN view = {} BY <1>1
<1>4. ViewInOrder /\ ViewWithoutHole /\ DeletedShown
    BY <1>3 DEF ViewInOrder, ViewWithoutHole, DeletedShown
<1> QED BY <1>2, <1>4

(* Whichever part of the client is at work, the variables of all four and of *)
(* the store keep their types.                                              *)
THEOREM ClientTypeCorrect == Spec => []TypeOK
<1>1. PanelInv /\ ListPart => ViewTypeOK BY RestingList DEF PanelInv, ListPart
<1> QED BY <1>1, ListPartHolds, PanelHolds, PartsTogether, PanelTypeCorrect, MembersTypeCorrect,
           BrowserTypeCorrect, PTL DEF TypeOK

(* Together the parts keep what each keeps alone: the list in order, without *)
(* a hole and with its deletions, searches and results right, the members    *)
(* listed and the window signed in as it shows.                             *)
THEOREM ClientCorrect ==
    Spec => [](/\ ViewInOrder /\ ViewWithoutHole /\ DeletedShown
               /\ SearchExact /\ ResultsComplete /\ MembersListed /\ SignedInShown)
<1>1. PanelInv /\ ListPart => ViewInOrder /\ ViewWithoutHole /\ DeletedShown
    BY RestingList, InOrderShows, DenseShows, ToldShows DEF PanelInv, ListPart
<1> QED BY <1>1, ListPartHolds, PanelHolds, PartsTogether, SearchesAreExact, ResultsAreComplete,
           MembersAreListed, SignInShown, PTL
=============================================================================
