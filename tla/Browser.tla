------------------------------ MODULE Browser ------------------------------
(***************************************************************************)
(* What a browser window knows of its session: AuthProvider asks who is    *)
(* signed in when the window loads, after a login and after a change of    *)
(* the profile; the pages for members send everybody else to the login     *)
(* page, which sends who is signed in back.                                *)
(*                                                                         *)
(* Requests carry the cookie of the time they are sent, and are answered   *)
(* in any order or not at all.  One account is enough: a login ends the    *)
(* session before it, and others may end it at any time (Session).         *)
(***************************************************************************)
EXTENDS Naturals

CONSTANTS
    Calls,      \* requests that can be under way at once
    MaxLogins   \* bound on the logins that succeed

ASSUME BrowserAssumption == MaxLogins \in Nat \ {0}

VARIABLES
    alive,      \* the account's session on the server, 0 for none
    logins,     \* sessions so far
    cookie,     \* SESSIONID
    user,       \* AuthProvider: is somebody signed in?
    loading,    \* AuthProvider: not known yet
    at, from,   \* the page; where a login leads to
    call,       \* requests under way
    astray,     \* history: why the window need not know
    saidOut     \* history: the last request was a logout, and was answered

browserVars == <<alive, logins, cookie, user, loading, at, from, call, astray, saidOut>>

Pages == {"open", "members", "login", "register"}
Landings == {"open", "members"}
Sessions == 0..MaxLogins
Call == [kind: {"me", "login", "logout", "save", "register"}, cookie: Sessions,
         answer: {"none", "ok", "no", "lost"}, sid: Sessions]

NoCall == [kind |-> "none"]
Making(c) == call[c] # NoCall
Still == \A c \in Calls: ~Making(c)

Asked(kind) == [kind |-> kind, cookie |-> cookie, answer |-> "none", sid |-> 0]

(* The routes: RequireAuth around the members' pages, and the effect of the *)
(* login page.  Neither does anything while loading.                        *)
NeedsLogin(page, u, l) == page = "members" /\ ~u /\ ~l
HasLogin(page, u, l) == page = "login" /\ u /\ ~l

Route(page, u, l) ==
    /\ at' = IF NeedsLogin(page, u, l) THEN "login"
             ELSE IF HasLogin(page, u, l) THEN from ELSE page
    /\ from' = IF NeedsLogin(page, u, l) THEN "members"
               ELSE IF page = "login" /\ ~HasLogin(page, u, l) THEN from ELSE "open"
    /\ user' = u /\ loading' = l

(* The window shows nothing: anonymous, no answer yet. *)
BrowserInit ==
    /\ alive \in {0, 1} /\ logins = 1 /\ cookie \in {0, 1}
    /\ user = FALSE /\ loading = TRUE /\ at \in Pages /\ from = "open"
    /\ \E first \in Calls: call = [c \in Calls |-> IF c = first THEN Asked("me") ELSE NoCall]
    /\ astray = FALSE /\ saidOut = FALSE

-----------------------------------------------------------------------------
(* The window.                                                              *)

(* A full load, of any address: the state is lost, requests are given up.   *)
LoadPage ==
    \E page \in Pages, first \in Calls:
        /\ call' = [c \in Calls |-> IF c = first THEN Asked("me") ELSE NoCall]
        /\ user' = FALSE /\ loading' = TRUE /\ at' = page /\ from' = "open"
        /\ astray' = FALSE /\ saidOut' = FALSE
        /\ UNCHANGED <<alive, logins, cookie>>

(* The links: those of the header, which is on every page but the two with   *)
(* forms, show the members' pages to members only.                          *)
Linked(page) ==
    \/ at \in Landings /\ (page = "open" \/ (user /\ page = "members"))
    \/ at \in Landings /\ page \in {"login", "register"} /\ ~user
    \/ at = "register" /\ page = "login" /\ ~user
    \/ at = "login" /\ page = "register" /\ ~user /\ ~loading

Follow ==
    \E page \in Pages:
        /\ Linked(page) /\ page # at
        /\ Route(page, user, loading)
        /\ UNCHANGED <<alive, logins, cookie, call, astray, saidOut>>

(* The form of the login page; nothing disables its button meanwhile.  It is *)
(* not there while loading or signed in.                                    *)
CanLogIn == at = "login" /\ ~loading /\ ~user

(* The form of the register page, which is not there for members.           *)
CanRegister == at = "register" /\ ~user

(* The button of the header. *)
CanLogOut == at \in Landings /\ user

(* The form of the profile page; who goes away and back finds its button     *)
(* enabled again.                                                           *)
CanSave == at = "members" /\ user

Submit(kind) ==
    \E c \in Calls:
        /\ ~Making(c)
        /\ call' = [call EXCEPT ![c] = Asked(kind)]
        /\ saidOut' = FALSE
        /\ UNCHANGED <<alive, logins, cookie, user, loading, at, from, astray>>

LogIn == CanLogIn /\ Submit("login")
Register == CanRegister /\ Submit("register")
LogOut == CanLogOut /\ Submit("logout")
SaveProfile == CanSave /\ Submit("save")

-----------------------------------------------------------------------------
(* The server.                                                              *)

(* SessionGuard. *)
Admitted(c) == call[c].cookie # 0 /\ call[c].cookie = alive

Reply(c, answer) == call' = [call EXCEPT ![c].answer = answer]

(* me answers who is admitted; a save may fail for other reasons.           *)
ServeMember(c) ==
    /\ call[c].kind \in {"me", "save"} /\ call[c].answer = "none"
    /\ \/ Admitted(c) /\ Reply(c, "ok")
       \/ (~Admitted(c) \/ call[c].kind = "save") /\ Reply(c, "no")
    /\ UNCHANGED <<alive, logins, cookie, user, loading, at, from, astray, saidOut>>

ServeLogout(c) ==
    /\ call[c].kind = "logout" /\ call[c].answer = "none"
    /\ alive' = IF Admitted(c) THEN 0 ELSE alive
    /\ Reply(c, IF Admitted(c) THEN "ok" ELSE "no")
    /\ UNCHANGED <<logins, cookie, user, loading, at, from, astray, saidOut>>

(* A new session takes the place of the old one. *)
ServeLogin(c) ==
    /\ call[c].kind = "login" /\ call[c].answer = "none" /\ logins < MaxLogins
    /\ alive' = logins + 1 /\ logins' = logins + 1
    /\ call' = [call EXCEPT ![c].answer = "ok", ![c].sid = logins + 1]
    /\ UNCHANGED <<cookie, user, loading, at, from, astray, saidOut>>

(* register creates the account and no session; it and login may be refused. *)
ServeOpen(c) ==
    /\ call[c].kind \in {"login", "register"} /\ call[c].answer = "none"
    /\ \/ call[c].kind = "register" /\ Reply(c, "ok")
       \/ Reply(c, "no")
    /\ UNCHANGED <<alive, logins, cookie, user, loading, at, from, astray, saidOut>>

(* The request or its answer is lost. *)
Lose(c) ==
    /\ Making(c) /\ call[c].answer # "lost"
    /\ Reply(c, "lost")
    /\ UNCHANGED <<alive, logins, cookie, user, loading, at, from, astray, saidOut>>

(* A login elsewhere, a ban, the end of the account, the end of the day.    *)
SessionEnds ==
    /\ alive # 0
    /\ alive' = 0
    /\ astray' = TRUE
    /\ UNCHANGED <<logins, cookie, user, loading, at, from, call, saidOut>>

-----------------------------------------------------------------------------
(* Answers.                                                                 *)

Done(c) == call' = [call EXCEPT ![c] = NoCall]
Others(c, kinds) == \E d \in Calls \ {c}: call[d].kind \in kinds

(* reload: the answer, whatever came before it.  A lost one signs out.      *)
Reloaded(c) ==
    /\ call[c].kind = "me" /\ call[c].answer # "none"
    /\ Route(at, call[c].answer = "ok", FALSE)
    /\ Done(c)
    /\ astray' = (astray \/ call[c].answer = "lost")
    /\ UNCHANGED <<alive, logins, cookie, saidOut>>

(* Mutant: nobody asks who is signed in. *)
ReloadNot(c, sid) == Done(c)

(* await reload(), with the cookie there is now. *)
Reload(c, sid) == call' = [call EXCEPT ![c] = [Asked("me") EXCEPT !.cookie = sid]]

(* The cookie of the answer, and reload.  The two answers to a login that    *)
(* was sent twice may come the wrong way round.                             *)
LoggedIn(c) ==
    /\ call[c].kind = "login" /\ call[c].answer = "ok"
    /\ cookie' = call[c].sid
    /\ Reload(c, call[c].sid)
    /\ astray' = Others(c, {"login", "me"})
    /\ UNCHANGED <<alive, logins, user, loading, at, from, saidOut>>

(* setUser(null) and navigate('/login'), unless request has thrown: logout   *)
(* hands allowNotOk over as the body.  A reload that is still under way      *)
(* signs in again.                                                          *)
LoggedOut(c) ==
    /\ call[c].kind = "logout" /\ call[c].answer \in {"ok", "no"}
    /\ IF call[c].answer = "ok"
       THEN /\ cookie' = 0
            /\ user' = FALSE /\ at' = "login" /\ from' = "open"
       ELSE UNCHANGED <<cookie, user, at, from>>
    /\ Done(c)
    /\ astray' = (astray \/ Others(c, {"me"}))
    /\ saidOut' = TRUE
    /\ UNCHANGED <<alive, logins, loading>>

Saved(c) ==
    /\ call[c].kind = "save" /\ call[c].answer = "ok"
    /\ Reload(c, cookie)
    /\ UNCHANGED <<alive, logins, cookie, user, loading, at, from, astray, saidOut>>

(* navigate('/login'). *)
Registered(c) ==
    /\ call[c].kind = "register" /\ call[c].answer = "ok"
    /\ Route("login", user, loading)
    /\ Done(c)
    /\ UNCHANGED <<alive, logins, cookie, astray, saidOut>>

(* The forms show the error; a lost logout leaves everything as it was.     *)
Refused(c) ==
    /\ \/ call[c].kind \in {"login", "save", "register"} /\ call[c].answer \in {"no", "lost"}
       \/ call[c].kind = "logout" /\ call[c].answer = "lost"
    /\ Done(c)
    /\ astray' = (astray \/ call[c].answer = "lost")
    /\ UNCHANGED <<alive, logins, cookie, user, loading, at, from, saidOut>>

BrowserNext ==
    \/ LoadPage \/ Follow \/ LogIn \/ Register \/ LogOut \/ SaveProfile \/ SessionEnds
    \/ \E c \in Calls:
         \/ ServeMember(c) \/ ServeLogout(c) \/ ServeLogin(c) \/ ServeOpen(c) \/ Lose(c)
         \/ Reloaded(c) \/ LoggedIn(c) \/ LoggedOut(c) \/ Saved(c) \/ Registered(c) \/ Refused(c)

BrowserSpec == BrowserInit /\ [][BrowserNext]_browserVars

-----------------------------------------------------------------------------
(* Types. *)
BrowserTypeOK ==
    /\ alive \in Sessions /\ logins \in Sessions /\ cookie \in Sessions
    /\ user \in BOOLEAN /\ loading \in BOOLEAN
    /\ at \in Pages /\ from \in Landings
    /\ call \in [Calls -> Call \cup {NoCall}]
    /\ astray \in BOOLEAN /\ saidOut \in BOOLEAN

(* With no request under way the window takes somebody for signed in if and  *)
(* only if its cookie names the account's session, and then shows neither    *)
(* form, or else no members' page: unless the session was ended elsewhere,   *)
(* an answer was lost, a login was sent twice, or a reload outlived a        *)
(* logout.                                                                  *)
SignedInShown ==
    Still /\ ~loading /\ ~astray =>
        /\ user <=> (cookie # 0 /\ cookie = alive)
        /\ at # (IF user THEN "login" ELSE "members")

(* logout passes allowNotOk ("a status that is not ok is no error",          *)
(* services/api.ts:24): a logout that the server answered signs the window   *)
(* out, whatever the answer.                                                *)
LogoutSignsOut == saidOut => ~user
=============================================================================
