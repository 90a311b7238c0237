--------------------------- MODULE BrowserSession ----------------------------
(***************************************************************************)
(* The idpLogin cookie: package sessions, AuthorizeThroughSession and      *)
(* logout of package oauth2, and what login, confirmation and revert of    *)
(* package fuyaopassword do with it.                                       *)
(*                                                                         *)
(* The cookie is signed and says who logged in, whether that user still    *)
(* had the first password, and when it expires.  The server keeps no       *)
(* session: a browser has at most one idpLogin cookie, sends it along with *)
(* every request and replaces it when an answer that sets one arrives.     *)
(* Tabs of one browser have requests under way at the same time, and their *)
(* answers arrive in any order or not at all.  The User resource is        *)
(* reduced to FirstLogin; LoginServer has the rest of it.                  *)
(***************************************************************************)
EXTENDS Integers

CONSTANTS
  User, Browser, Tab,
  HomeOf,          \* the browser of each tab
  SessionMaxAge,   \* IDPLoginStoreConfig.SessionMaxAge
  Nil,             \* no cookie: none, or one flushed by an empty Put
  Keep             \* an answer without Set-Cookie

ASSUME HomeAssumption == HomeOf \in [Tab -> Browser]
ASSUME AgeAssumption == SessionMaxAge \in Int

Lifetime == IF SessionMaxAge > 0 THEN SessionMaxAge ELSE 0

Cookie ==
  [user : User,
   first : BOOLEAN,        \* extra["first-login"]
   left : 0..Lifetime]     \* time to cookie.expiry, 0 when it is past

Operation == {"authorize", "login", "confirm", "revert", "logout"}

Request ==
  [op : Operation,
   user : User \cup {Nil},       \* who logs in
   cookie : Cookie \cup {Nil}]   \* the cookie that is sent along

Reply ==
  [set : Cookie \cup {Nil, Keep},   \* Set-Cookie
   ok : BOOLEAN]                    \* the handler did what it was asked to

ASSUME NilAssumption ==
  /\ Nil \notin Cookie \cup User \cup Request \cup Reply
  /\ Keep \notin Cookie \cup {Nil}

VARIABLES
  firstLogin,  \* FirstLogin of the User resources
  jar,         \* the idpLogin cookie of each browser
  phase,       \* how far the request of each tab has come
  req,         \* that request, Nil when there is none
  seenFirst,   \* FirstLogin as AuthenticatePassword read it
  reply,       \* the answer on its way
  verified,    \* [browser, user]: a password accepted there
  codes,       \* [browser, user]: an authorization code issued there
  out          \* browsers that logged out with nothing else under way

vars == <<firstLogin, jar, phase, req, seenFirst, reply, verified, codes, out>>

Init ==
  /\ firstLogin \in [User -> BOOLEAN]
  /\ jar = [b \in Browser |-> Nil]
  /\ phase = [t \in Tab |-> "idle"]
  /\ req = [t \in Tab |-> Nil]
  /\ seenFirst = [t \in Tab |-> FALSE]
  /\ reply = [t \in Tab |-> Nil]
  /\ verified = {} /\ codes = {} /\ out = {}

-----------------------------------------------------------------------------
\* CookieStore.Get: an expired cookie reads as none.
Get(c) == IF c # Nil /\ c.left > 0 THEN c ELSE Nil

\* CookieStore.Put of a user's values, and of no values.
NewCookie(u, first) == [user |-> u, first |-> first, left |-> Lifetime]
Flushed == Nil

Busy(b) == {t \in Tab : HomeOf[t] = b /\ phase[t] # "idle"}

\* A handler answers, setting a cookie or not.
Answer(t, set, ok) ==
  /\ phase' = [phase EXCEPT ![t] = "answered"]
  /\ reply' = [reply EXCEPT ![t] = [set |-> set, ok |-> ok]]
  /\ UNCHANGED <<jar, req, seenFirst, out>>

Serving(t, op) == phase[t] = "sent" /\ req[t].op = op

Forget(t) ==
  /\ phase' = [phase EXCEPT ![t] = "idle"]
  /\ req' = [req EXCEPT ![t] = Nil]
  /\ seenFirst' = [seenFirst EXCEPT ![t] = FALSE]
  /\ reply' = [reply EXCEPT ![t] = Nil]

Account == <<firstLogin, verified, codes>>

-----------------------------------------------------------------------------
\* The browser.
Send(t, op, u) ==
  /\ phase[t] = "idle"
  /\ phase' = [phase EXCEPT ![t] = "sent"]
  /\ req' = [req EXCEPT ![t] = [op |-> op, user |-> u,
                                cookie |-> jar[HomeOf[t]]]]
  /\ out' = IF op = "login" THEN out \ {HomeOf[t]} ELSE out
  /\ UNCHANGED <<Account, jar, seenFirst, reply>>

SendLogin(t) == \E u \in User : Send(t, "login", u)
SendOther(t) == \E op \in Operation \ {"login"} : Send(t, op, Nil)

Deliver(t) ==
  LET b == HomeOf[t]  new == reply[t].set IN
  /\ phase[t] = "answered"
  /\ jar' = IF new = Keep THEN jar ELSE [jar EXCEPT ![b] = new]
  /\ out' = IF /\ req[t].op \in {"revert", "logout"}
               /\ reply[t].ok /\ Busy(b) = {t}
            THEN out \cup {b} ELSE out
  /\ Forget(t)
  /\ UNCHANGED Account

\* The request or its answer is lost, or the replica dies.
Lose(t) ==
  /\ phase[t] # "idle"
  /\ Forget(t)
  /\ UNCHANGED <<Account, jar, out>>

-----------------------------------------------------------------------------
\* Mutant: the first login is not looked at.
AuthorizeFirstLogin(t) ==
  LET c == Get(req[t].cookie) IN
  /\ Serving(t, "authorize")
  /\ \/ c = Nil /\ Answer(t, Flushed, FALSE) /\ UNCHANGED codes
     \/ /\ c # Nil
        /\ codes' = codes \cup {[browser |-> HomeOf[t], user |-> c.user]}
        /\ Answer(t, Keep, TRUE)
  /\ UNCHANGED <<firstLogin, verified>>

\* OAuthAuthorizeHandler and AuthorizeThroughSession.
OAuthAuthorize(t) ==
  LET c == Get(req[t].cookie) IN
  /\ Serving(t, "authorize")
  /\ \/ c = Nil /\ Answer(t, Flushed, FALSE) /\ UNCHANGED codes   \* to login
     \/ /\ c # Nil /\ ~ c.first
        /\ codes' = codes \cup {[browser |-> HomeOf[t], user |-> c.user]}
        /\ Answer(t, Keep, TRUE)
     \* to the confirmation page when c.first, or an error
     \/ Answer(t, Keep, FALSE) /\ UNCHANGED codes
  /\ UNCHANGED <<firstLogin, verified>>

\* processLogin up to Unlock; a refused login changes no cookie.
LoginVerify(t) ==
  LET u == req[t].user IN
  /\ Serving(t, "login")
  /\ \/ /\ phase' = [phase EXCEPT ![t] = "verified"]
        /\ seenFirst' = [seenFirst EXCEPT ![t] = firstLogin[u]]
        /\ verified' = verified \cup {[browser |-> HomeOf[t], user |-> u]}
        /\ UNCHANGED <<jar, req, reply, out>>
     \/ Answer(t, Keep, FALSE) /\ UNCHANGED verified
  /\ UNCHANGED <<firstLogin, codes>>

\* Mutant: a login renews the cookie that is still alive.
LoginRenews(t) ==
  LET c == Get(req[t].cookie) IN
  /\ phase[t] = "verified"
  /\ Answer(t, IF c # Nil THEN NewCookie(c.user, c.first)
                          ELSE NewCookie(req[t].user, seenFirst[t]), TRUE)
  /\ UNCHANGED Account

\* The rest of processLogin: a browser that has a live cookie keeps it.
LoginSession(t) ==
  LET c == Get(req[t].cookie) IN
  /\ phase[t] = "verified"
  /\ \/ c # Nil /\ Answer(t, Keep, TRUE)
     \/ c = Nil /\ Answer(t, NewCookie(req[t].user, seenFirst[t]), TRUE)
     \/ c = Nil /\ Answer(t, Keep, FALSE)        \* Put failed
  /\ UNCHANGED Account

\* processPasswordConfirm up to the check of savePassword ...
ConfirmCheck(t) ==
  LET c == Get(req[t].cookie) IN
  /\ Serving(t, "confirm")
  /\ \/ /\ c # Nil
        /\ firstLogin[c.user]
        /\ phase' = [phase EXCEPT ![t] = "checked"]
        /\ UNCHANGED <<jar, req, seenFirst, reply, out>>
     \/ Answer(t, Keep, FALSE)
  /\ UNCHANGED Account

\* Mutant: the cookie is set whether or not the patch was applied.
ConfirmCookieAnyway(t) ==
  LET u == req[t].cookie.user IN
  /\ phase[t] = "checked"
  /\ firstLogin' \in {firstLogin, [firstLogin EXCEPT ![u] = FALSE]}
  /\ Answer(t, NewCookie(u, FALSE), TRUE)
  /\ UNCHANGED <<verified, codes>>

\* ... and from its patch on: SetLoggedIn and Put follow a patch that was
\* applied and said so.
ConfirmSave(t) ==
  LET u == req[t].cookie.user IN
  /\ phase[t] = "checked"
  /\ \/ /\ firstLogin' = [firstLogin EXCEPT ![u] = FALSE]
        /\ \E set \in {NewCookie(u, FALSE), Keep} : Answer(t, set, TRUE)
     \/ /\ firstLogin' \in {firstLogin, [firstLogin EXCEPT ![u] = FALSE]}
        /\ Answer(t, Keep, FALSE)
  /\ UNCHANGED <<verified, codes>>

\* revertPasswordConfirm: an error of Put is logged, the answer the same.
RevertConfirm(t) ==
  /\ Serving(t, "revert")
  /\ Answer(t, Flushed, TRUE) \/ Answer(t, Keep, FALSE)
  /\ UNCHANGED Account

\* Mutant: a logout clears the csrf cookie only.
LogoutCsrfOnly(t) ==
  /\ Serving(t, "logout")
  /\ Answer(t, Keep, TRUE)
  /\ UNCHANGED Account

SingleLogout(t) ==
  /\ Serving(t, "logout")
  /\ Answer(t, Flushed, TRUE) \/ Answer(t, Keep, FALSE)
  /\ UNCHANGED Account

-----------------------------------------------------------------------------
\* A password reset, from anywhere, ends the first login too.
ResetPassword(u) ==
  /\ firstLogin[u]
  /\ firstLogin' = [firstLogin EXCEPT ![u] = FALSE]
  /\ UNCHANGED <<jar, phase, req, seenFirst, reply, verified, codes, out>>

Aged(c) ==
  IF c \notin {Nil, Keep} /\ c.left > 0 THEN [c EXCEPT !.left = @ - 1] ELSE c

Tick ==
  /\ jar' = [b \in Browser |-> Aged(jar[b])]
  /\ req' = [t \in Tab |-> IF req[t] = Nil THEN Nil
                           ELSE [req[t] EXCEPT !.cookie = Aged(@)]]
  /\ reply' = [t \in Tab |-> IF reply[t] = Nil THEN Nil
                             ELSE [reply[t] EXCEPT !.set = Aged(@)]]
  /\ <<jar, req, reply>>' # <<jar, req, reply>>
  /\ UNCHANGED <<Account, phase, seenFirst, out>>

Serve(t) ==
  \/ OAuthAuthorize(t) \/ LoginVerify(t) \/ LoginSession(t)
  \/ ConfirmCheck(t) \/ ConfirmSave(t) \/ RevertConfirm(t) \/ SingleLogout(t)

Next ==
  \/ \E t \in Tab :
       SendLogin(t) \/ SendOther(t) \/ Serve(t) \/ Deliver(t) \/ Lose(t)
  \/ \E u \in User : ResetPassword(u)
  \/ Tick

Spec == Init /\ [][Next]_vars

\* Time passes, handlers and the network go on; nobody has to send anything.
LiveSpec ==
  /\ Spec
  /\ WF_vars(Tick)
  /\ \A t \in Tab : WF_vars(Serve(t)) /\ WF_vars(Deliver(t))

-----------------------------------------------------------------------------
(***************************************************************************)
(* The values every variable takes.                                        *)
(***************************************************************************)
Entry == [browser : Browser, user : User]

TypeOK ==
  /\ firstLogin \in [User -> BOOLEAN]
  /\ jar \in [Browser -> Cookie \cup {Nil}]
  /\ phase \in [Tab -> {"idle", "sent", "verified", "checked", "answered"}]
  /\ req \in [Tab -> Request \cup {Nil}]
  /\ seenFirst \in [Tab -> BOOLEAN]
  /\ reply \in [Tab -> Reply \cup {Nil}]
  /\ verified \subseteq Entry
  /\ codes \subseteq Entry
  /\ out \subseteq Browser

(***************************************************************************)
(* An authorization code is issued for a user only in a browser where that *)
(* user's password was accepted, and only once the user has changed the    *)
(* first password; the cookie it rests on may be a copy made long ago      *)
(* (oauth2server.go, OAuthAuthorizeHandler).                               *)
(***************************************************************************)
CodesEarned ==
  \A x \in codes : x \in verified /\ ~ firstLogin[x.user]

(***************************************************************************)
(* A browser that logged out, or gave the confirmation up, while nothing   *)
(* else was under way has no cookie until its next login: no confirmation  *)
(* or authorization brings the session back (oauth2server.go,              *)
(* SingleLogoutHandler; login.go, revertPasswordConfirm).                  *)
(***************************************************************************)
LoggedOutStays ==
  \A b \in out : jar[b] = Nil

\* A live cookie that sends its browser to the confirmation page although
\* the user has changed the password.
Stale(b) ==
  LET c == Get(jar[b]) IN c # Nil /\ c.first /\ ~ firstLogin[c.user]

(***************************************************************************)
(* A browser whose user changed the password elsewhere does not stay on    *)
(* the confirmation page for ever, even if the user tries to log in again  *)
(* and again: the cookie expires and is never renewed (login.go,           *)
(* processLogin; session.go, Get).                                         *)
(***************************************************************************)
StaleCookiesGo ==
  \A b \in Browser, u \in User :
    ~ firstLogin[u] ~> [](jar[b] # Nil /\ jar[b].user = u => ~ Stale(b))

-----------------------------------------------------------------------------
(***************************************************************************)
(* The inductive invariant.                                                *)
(***************************************************************************)
\* A cookie of browser b is a true copy: its user was verified there, and
\* is past the first login if it says so.
True(b, c) ==
  c \notin {Nil, Keep} =>
    /\ [browser |-> b, user |-> c.user] \in verified
    /\ ~ c.first => ~ firstLogin[c.user]

CookiesTrue ==
  /\ \A b \in Browser : True(b, jar[b])
  /\ \A t \in Tab : req[t] # Nil => True(HomeOf[t], req[t].cookie)
  /\ \A t \in Tab : reply[t] # Nil => True(HomeOf[t], reply[t].set)

\* What a handler has to know in each phase.
HandlersKnow ==
  \A t \in Tab :
    /\ phase[t] # "idle" => req[t] # Nil
    /\ phase[t] = "answered" => reply[t] # Nil
    /\ phase[t] # "idle" /\ req[t].op = "login" => req[t].user \in User
    /\ phase[t] = "checked" => req[t].op = "confirm" /\ req[t].cookie # Nil
    /\ phase[t] = "verified" =>
         /\ req[t].op = "login"
         /\ [browser |-> HomeOf[t], user |-> req[t].user] \in verified
         /\ ~ seenFirst[t] => ~ firstLogin[req[t].user]

\* An answer that says the cookie is flushed flushes it; after that only a
\* login can set one.
QuietAfterLogout ==
  \A t \in Tab :
    /\ /\ phase[t] = "answered" /\ reply[t].ok
       /\ req[t].op \in {"revert", "logout"}
       => reply[t].set = Nil
    /\ HomeOf[t] \in out /\ phase[t] # "idle" =>
         /\ req[t].op # "login" /\ req[t].cookie = Nil
         /\ phase[t] = "answered" => reply[t].set \in {Nil, Keep}

IInv ==
  /\ TypeOK /\ CookiesTrue /\ HandlersKnow /\ QuietAfterLogout
  /\ CodesEarned /\ LoggedOutStays

-----------------------------------------------------------------------------
(***************************************************************************)
(* What the messages and comments of the code say, and the code does not   *)
(* do: see the findings.                                                   *)
(***************************************************************************)
LoggedIn(t) == req[t].op = "login" /\ reply[t].ok

\* Someone who "is not the first time logging in" is told to "please go to
\* the login page" (error.go): a login there leads past the confirmation.
LoginLeavesConfirm ==
  [][\A t \in Tab :
       Deliver(t) /\ LoggedIn(t) /\ ~ seenFirst[t] => ~ Stale(HomeOf[t])']_vars
=============================================================================
