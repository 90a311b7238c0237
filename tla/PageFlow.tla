------------------------------- MODULE PageFlow -------------------------------
(***************************************************************************)
(* The way of a user from a client to its callback: the redirects of       *)
(* authorize, the two HTML pages with their scripts, the CSRF middleware   *)
(* in front of them, and the then parameter that carries the first request *)
(* along.  The tabs of one browser share its two cookies.                  *)
(*                                                                         *)
(* One step is one exchange of request and answer.  A tab navigates, or    *)
(* its page fetches and goes where the fetch ended.  A URL is a sequence   *)
(* of tokens, so that escaping and parsing can go wrong.                   *)
(***************************************************************************)
EXTENDS Integers, SequencesExt

CONSTANTS
  Tab,
  Word,        \* the tokens of the URLs that clients use
  Openings,    \* where clients may send the tabs: URLs of authorize, by tab
  BadUri,      \* those whose redirect_uri is not the client's
  Malformed,   \* those that lack another parameter
  OtherIdp,    \* those that name an identity provider the server does not know
  Password,    \* first passwords that a user may think of
  MaxTrouble,  \* bound: wrong passwords, refusals, losses, endings of a session
  Nil

ASSUME TroubleAssumption == MaxTrouble \in Nat

\* chars counts as JavaScript does; other is a letter of no ASCII alphabet.
ASSUME PasswordAssumption ==
  Password \subseteq
    [chars : Nat, isName : BOOLEAN,
     has : SUBSET {"letter", "digit", "special", "space", "other"}]

VARIABLES
  start,       \* where the client of each tab sends it
  session,     \* what the login cookie of the browser says
  csrf,        \* the token in its CSRF cookie, 0 without one
  issued,      \* the tokens made so far
  firstLogin,  \* the user has not changed the first password
  page,        \* what each tab shows
  req,         \* the request each tab waits for
  trouble,     \* what has gone wrong
  ended        \* a session was ended or lost

vars == <<start, session, csrf, issued, firstLogin, page, req, trouble, ended>>

-----------------------------------------------------------------------------
(* URLs *)

Authorize == "/oauth2/oauth/authorize"
LoginPath == "/oauth2/auth/login"
ConfirmPath == "/oauth2/auth/password/confirm"
Home == <<"/">>
Callback == <<"callback">>

\* url.QueryEscape also escapes = and %: what a client wrote brings no parameter
\* of the pages and no escape into a query.
ASSUME WordAssumption == Word \cap {"error=", "%3F", "%26"} = {}

\* Clients send their tabs to authorize.
ASSUME OpeningsAssumption ==
  /\ Openings \subseteq [Tab -> Seq(Word)]
  /\ \A o \in Openings, t \in Tab : o[t] # <<>> /\ o[t][1] = Authorize

Part ==
  Word \cup {LoginPath, ConfirmPath, "/", "callback", "?", "&", "%3F", "%26",
             "then=", "error=", "refused", "weak", "notFirst", "expired"}

URL == Seq(Part)

\* url.QueryEscape and its inverse, on the tokens that matter.
Escape(u) == ReplaceAll(ReplaceAll(u, "?", "%3F"), "&", "%26")
Unescape(u) == ReplaceAll(ReplaceAll(u, "%3F", "?"), "%26", "&")

\* The first place of a word in a URL, 0 without one.
Place(word, url, from) ==
  SelectInSubSeq(url, from, Len(url), LAMBDA x : x = word)

\* r.URL.Query().Get of a parameter, whose value ends where the next one begins.
Value(url, param) ==
  LET at == Place(param, url, 1)
      end == Place("&", url, at + 1) IN
  IF at = 0 THEN <<>>
  ELSE Unescape(SubSeq(url, at + 1, IF end = 0 THEN Len(url) ELSE end - 1))

QueryThen(url) == Value(url, "then=")
QueryError(url) == Value(url, "error=")

IsValidThenURL(then) ==
  /\ IsPrefix(<<Authorize, "?">>, then)
  /\ Len(SelectSeq(then, LAMBDA x : x = "?")) = 1

\* Mutant: the first request is put into the query as it is.
BuildRedirectRaw(path, then) == <<path, "?", "then=">> \o then

\* buildRedirectURL.
BuildRedirectURL(path, then) == <<path, "?", "then=">> \o Escape(then)

\* Mutant: the first request is forgotten with the error.
WithErrorOnly(path, error, then) == <<path, "?", "error=", error>>

\* redirectGetMethodWithError.
WithError(path, error, then) ==
  <<path, "?", "then=">> \o Escape(then) \o <<"&", "error=", error>>

-----------------------------------------------------------------------------
(* Passwords: the rule of the page and the rule of the server *)

Bytes(p) == p.chars + IF "other" \in p.has THEN 1 ELSE 0

\* Mutant: the page only looks for what must be there.
PageRuleOpen(p) ==
  /\ p.chars \in 8..32
  /\ {"letter", "digit", "special"} \subseteq p.has
  /\ ~ p.isName

PageRule(p) ==
  /\ p.chars \in 8..32
  /\ p.has = {"letter", "digit", "special"}
  /\ ~ p.isName

CheckPasswordComplexity(p) ==
  /\ Bytes(p) \in 8..32
  /\ {"letter", "digit"} \subseteq p.has
  /\ p.has \cap {"special", "space"} # {}
  /\ ~ p.isName

-----------------------------------------------------------------------------
(* Tabs *)

Page ==
  [at : {"closed", "login", "confirm", "home", "client", "blank"},
   then : URL, token : Nat, error : URL]

Request ==
  [method : {"GET", "POST", "DELETE"}, url : URL,
   by : {"navigate", "submit", "cancel"}, token : Nat, then : URL,
   password : Password \cup {Nil}]

ASSUME NilAssumption == Nil \notin Request

Closed == [at |-> "closed", then |-> <<>>, token |-> 0, error |-> <<>>]
Bare(at) == [Closed EXCEPT !.at = at]

Get(url, by) ==
  [method |-> "GET", url |-> url, by |-> by, token |-> 0, then |-> <<>>,
   password |-> Nil]

\* The Action of a form: the URL of its page without the query.
BaseURL(p) == <<IF p.at = "login" THEN LoginPath ELSE ConfirmPath>>

Send(t, method, by, password) ==
  req' = [req EXCEPT ![t] =
    [method |-> method, url |-> BaseURL(page[t]), by |-> by,
     token |-> page[t].token, then |-> page[t].then, password |-> password]]

Init ==
  /\ start \in Openings
  /\ session = "none" /\ csrf = 0 /\ issued = 0
  /\ firstLogin \in BOOLEAN
  /\ page = [t \in Tab |-> Closed]
  /\ req = [t \in Tab |-> Nil]
  /\ trouble = 0 /\ ended = FALSE

\* The answer is a redirect, which a navigation and a fetch both follow: a POST
\* becomes a GET, a DELETE remains one.
Redirect(t, url) ==
  /\ \E to \in {url} :
       LET method == IF req[t].method = "DELETE" THEN "DELETE" ELSE "GET" IN
       req' = [req EXCEPT ![t] = [Get(to, @.by) EXCEPT !.method = method]]
  /\ UNCHANGED page

\* The answer is 200.  A page that fetched goes to where the fetch ended: the
\* callback too answers the fetch, so it has the origin of the pages, or lets
\* them read its answers.
Show(t, shown) ==
  IF req[t].by = "navigate"
  THEN /\ page' = [page EXCEPT ![t] = shown]
       /\ req' = [req EXCEPT ![t] = Nil]
  ELSE /\ req' = [req EXCEPT ![t] = Get(@.url, "navigate")]
       /\ UNCHANGED page

\* The answer is 400.  Login and confirmation stay where they are, a
\* cancellation goes where it was sent to.
BadRequest(t) ==
  /\ req' = [req EXCEPT ![t] =
       IF @.by = "cancel" THEN Get(@.url, "navigate") ELSE Nil]
  /\ UNCHANGED page

Asks(t, method, path) ==
  req[t] # Nil /\ req[t].method = method /\ req[t].url[1] = path

Hurt == trouble < MaxTrouble /\ trouble' = trouble + 1
Fine == UNCHANGED <<trouble, ended>>

-----------------------------------------------------------------------------
(* The handlers *)

\* A URL that is none of its client's has lost a parameter on its way.
ValidateAuthorizeRequest(t, url) ==
  IF url # start[t] \/ url \in Malformed THEN "missing"
  ELSE IF url \in BadUri THEN "redirectUri" ELSE "ok"

AuthorizeThroughSession ==
  CASE session = "none" -> "LoginFailed"
    [] session = "first" -> "FirstLogin"
    [] session = "full" -> "LoggedIn"

\* Without a request there is no redirect URI, and the answer is an empty 200.
RedirectAuthorizationCodeError(t) == Show(t, Bare("blank"))

\* An unknown provider is an error, which the client's callback is told.
RedirectToPage(t, path, url) ==
  \/ url \notin OtherIdp /\ Redirect(t, BuildRedirectURL(path, url))
  \/ url \in OtherIdp /\ Redirect(t, Callback)

OAuthAuthorizeHandler(t) ==
  /\ Asks(t, "GET", Authorize)
  /\ LET url == req[t].url
         checked == ValidateAuthorizeRequest(t, url)
         goes(status) == checked = "ok" /\ AuthorizeThroughSession = status IN
     \/ checked = "redirectUri" /\ Redirect(t, Home)
     \/ checked = "missing" /\ RedirectAuthorizationCodeError(t)
     \/ goes("LoginFailed") /\ RedirectToPage(t, LoginPath, url)
     \/ goes("FirstLogin") /\ RedirectToPage(t, ConfirmPath, url)
     \/ goes("LoggedIn") /\ Redirect(t, Callback)
  /\ Fine
  /\ UNCHANGED <<session, csrf, issued, firstLogin, start>>

\* The middleware gives every browser without a CSRF cookie a new one.
Protect ==
  \/ csrf # 0 /\ UNCHANGED <<csrf, issued>>
  \/ csrf = 0 /\ csrf' = issued + 1 /\ issued' = issued + 1

Form(t, at, then) ==
  \E error \in {QueryError(req[t].url)} :
    Show(t, [at |-> at, then |-> then, token |-> csrf', error |-> error])

\* Mutant: the then parameter is not looked at.
LoginFormUnchecked(t) ==
  /\ Asks(t, "GET", LoginPath)
  /\ Protect
  /\ \E then \in {QueryThen(req[t].url)} : Form(t, "login", then)
  /\ Fine
  /\ UNCHANGED <<session, firstLogin, start>>

HandleLoginForm(t) ==
  /\ Asks(t, "GET", LoginPath)
  /\ Protect
  /\ \E then \in {QueryThen(req[t].url)} :
       \/ IsValidThenURL(then) /\ Form(t, "login", then)
       \/ ~ IsValidThenURL(then) /\ Redirect(t, Home)
  /\ Fine
  /\ UNCHANGED <<session, firstLogin, start>>

HandlePasswordConfirmForm(t) ==
  /\ Asks(t, "GET", ConfirmPath)
  /\ Protect
  /\ \E then \in {QueryThen(req[t].url)} :
       LET ok == IsValidThenURL(then) /\ session # "none" IN
       \/ ok /\ Form(t, "confirm", then)
       \/ ~ ok /\ Redirect(t, Home)
  /\ Fine
  /\ UNCHANGED <<session, firstLogin, start>>

\* The middleware stands before login and confirmation only.
Outdated(t) ==
  /\ \/ Asks(t, "POST", LoginPath)
     \/ \E method \in {"POST", "DELETE"} : Asks(t, method, ConfirmPath)
  /\ req[t].token # csrf

\* Mutant: a request with an old token is refused as any other bad one.
CsrfRefuses(t) ==
  /\ Outdated(t)
  /\ Protect
  /\ BadRequest(t)
  /\ Fine
  /\ UNCHANGED <<session, firstLogin, start>>

\* ErrorHandler of the middleware: it reads then from the body, and a
\* cancellation has none.
CsrfError(t) ==
  /\ Outdated(t)
  /\ Protect
  /\ \/ req[t].method = "DELETE" /\ BadRequest(t)
     \/ /\ req[t].method = "POST"
        /\ Redirect(t, WithError(req[t].url[1], "expired", req[t].then))
  /\ Fine
  /\ UNCHANGED <<session, firstLogin, start>>

Trusted(t) == req[t].token = csrf /\ UNCHANGED <<csrf, issued>>

\* processLogin: a wrong password, a locked user or an error, or a session.
ProcessLogin(t) ==
  /\ Asks(t, "POST", LoginPath) /\ Trusted(t)
  /\ \/ /\ Hurt
        /\ Redirect(t, WithError(LoginPath, "refused", req[t].then))
        /\ UNCHANGED session
     \/ /\ Redirect(t, req[t].then)
        /\ session' = IF session # "none" THEN session
                      ELSE IF firstLogin THEN "first" ELSE "full"
        /\ UNCHANGED trouble
  /\ UNCHANGED <<firstLogin, ended, start>>

\* processPasswordConfirm: pages send valid then parameters only.
ProcessPasswordConfirm(t) ==
  /\ Asks(t, "POST", ConfirmPath) /\ Trusted(t)
  /\ LET ok == CheckPasswordComplexity(req[t].password)
         refuse(error) ==
           /\ Redirect(t, WithError(ConfirmPath, error, req[t].then))
           /\ UNCHANGED <<session, firstLogin>> IN
     \/ session = "none" /\ Redirect(t, Home) /\ Fine
        /\ UNCHANGED <<session, firstLogin>>
     \/ session # "none" /\ Hurt /\ refuse("refused") /\ UNCHANGED ended
     \/ session # "none" /\ ~ ok /\ refuse("weak") /\ Fine
     \/ session # "none" /\ ok /\ ~ firstLogin /\ refuse("notFirst") /\ Fine
     \/ /\ session # "none" /\ ok /\ firstLogin
        /\ session' = "full" /\ firstLogin' = FALSE
        /\ Redirect(t, req[t].then) /\ Fine
  /\ UNCHANGED start

RevertPasswordConfirm(t) ==
  /\ Asks(t, "DELETE", ConfirmPath) /\ Trusted(t)
  /\ session' = "none" /\ ended' = TRUE
  /\ Redirect(t, Home)
  /\ UNCHANGED <<firstLogin, trouble, start>>

\* The start page of the console, and the client with a code.
Elsewhere(t) ==
  /\ req[t] # Nil
  /\ \/ req[t].url = Home /\ Show(t, Bare("home"))
     \/ req[t].url = Callback /\ Show(t, Bare("client"))
  /\ Fine
  /\ UNCHANGED <<session, csrf, issued, firstLogin, start>>

Exchange(t) ==
  \/ OAuthAuthorizeHandler(t) \/ HandleLoginForm(t) \/ HandlePasswordConfirmForm(t)
  \/ CsrfError(t) \/ ProcessLogin(t) \/ ProcessPasswordConfirm(t)
  \/ RevertPasswordConfirm(t) \/ Elsewhere(t)

-----------------------------------------------------------------------------
(* The user and what goes on elsewhere *)

Cookies == UNCHANGED <<session, csrf, issued, firstLogin, start>>

Open(t) ==
  /\ page[t].at = "closed" /\ req[t] = Nil
  /\ req' = [req EXCEPT ![t] = Get(start[t], "navigate")]
  /\ Fine /\ Cookies /\ UNCHANGED page

\* The button of the login page, and that of the confirmation page, which the
\* script enables for some passwords only.
Submit(t) ==
  /\ req[t] = Nil
  /\ \/ page[t].at = "login" /\ Send(t, "POST", "submit", Nil)
     \/ /\ page[t].at = "confirm"
        /\ \E p \in Password : PageRule(p) /\ Send(t, "POST", "submit", p)
  /\ Fine /\ Cookies /\ UNCHANGED page

Cancel(t) ==
  /\ req[t] = Nil /\ page[t].at = "confirm"
  /\ Send(t, "DELETE", "cancel", Nil)
  /\ Fine /\ Cookies /\ UNCHANGED page

\* A user who reads that this is not the first login gives up.
GiveUp(t) == page[t].error = <<"notFirst">> /\ Cancel(t)

\* A request of a page gets lost, or the page is told nothing of its answer.
Lose(t) ==
  /\ req[t] # Nil /\ req[t].by # "navigate" /\ Hurt
  /\ req' = [req EXCEPT ![t] = Nil]
  /\ Cookies /\ UNCHANGED <<page, ended>>

\* The cookie expires, or a logout flushes it and the CSRF cookie.
EndSession ==
  /\ Hurt
  /\ session' = "none" /\ csrf' \in {csrf, 0} /\ ended' = TRUE
  /\ UNCHANGED <<issued, firstLogin, page, req, start>>

\* The first password is changed in another browser.
ResetElsewhere ==
  /\ firstLogin /\ firstLogin' = FALSE
  /\ Fine /\ UNCHANGED <<session, csrf, issued, page, req, start>>

Next ==
  \/ \E t \in Tab : Open(t) \/ Exchange(t) \/ Submit(t) \/ Cancel(t) \/ Lose(t)
  \/ EndSession \/ ResetElsewhere

Spec == Init /\ [][Next]_vars

\* Weak fairness of Exchange(t), which is enabled while the tab has a request:
\* written out, because ENABLED would parse every URL again in every state.
Answered(t) == []<>(req[t] = Nil) \/ []<><<Exchange(t)>>_vars

\* Requests are answered; a user tries again as long as a page asks for it,
\* and gives up a confirmation that comes too late.
LiveSpec ==
  Spec /\ \A t \in Tab : Answered(t) /\ WF_vars(Submit(t)) /\ SF_vars(GiveUp(t))

-----------------------------------------------------------------------------
(* Properties *)

TypeOK ==
  /\ start \in Openings
  /\ session \in {"none", "first", "full"} /\ firstLogin \in BOOLEAN
  /\ issued \in 0..(MaxTrouble + 1) /\ csrf \in 0..issued
  /\ trouble \in 0..MaxTrouble /\ ended \in BOOLEAN
  /\ page \in [Tab -> Page] /\ req \in [Tab -> Request \cup {Nil}]
  /\ \A t \in Tab :
       /\ page[t].token \in 0..issued
       /\ page[t].at \in {"login", "confirm"} => IsValidThenURL(page[t].then)

\* Through redirects, forms, refusals and expired tokens each tab keeps the
\* request that its client began with, whole, and comes back with no other;
\* no page is shown that could not go back (login.go:149, 371, 586;
\* oauth2server.go:256; oauthserver.go:100-107).
OwnStart ==
  \A t \in Tab :
    /\ page[t].at \in {"login", "confirm"} => page[t].then = start[t]
    /\ req[t] # Nil /\ req[t].method = "GET" /\ req[t].url[1] = Authorize =>
         req[t].url = start[t]

\* As long as no session ends, only a first request that the server refuses, or
\* one with a second question mark, leads to the start page instead of the
\* client (login.go:150, 161, 372; oauth2server.go:147).
Explained(t) == ended \/ start[t] \in BadUri \/ ~ IsValidThenURL(start[t])

HomeExplained == \A t \in Tab : page[t].at = "home" => Explained(t)

\* The script of the confirmation page lets no password through that the server
\* finds too weak (templates.go:461-475; authenticator.go:78-105).
NeverTooWeak == \A t \in Tab : page[t].error # <<"weak">>

Out(t) == req[t] = Nil /\ page[t].at \in {"home", "client", "blank"}

\* A user who keeps trying gets out of the pages, whatever other tabs do to the
\* cookies: no page is left that the server refuses for ever (templates.go:
\* 207-229, 494-531; oauthserver.go:94-108).  Assumption, as at Show: a fetch that
\* is redirected to the client's callback ends ok, which a browser grants to a
\* callback of the same origin and else only with the callback's consent (CORS);
\* isValidRedirectURI (oauth2server.go:294) accepts either.
GetsOut == \A t \in Tab : req[t] # Nil ~> Out(t)

-----------------------------------------------------------------------------
(* The inductive invariant *)

\* Where the server sends a tab for a form.
FormURLs(then) ==
  {BuildRedirectURL(path, then) : path \in {LoginPath, ConfirmPath}}
  \cup {WithError(path, error, then) :
          path \in {LoginPath, ConfirmPath},
          error \in {"refused", "notFirst", "expired"}}

\* A tab is always somewhere on the way of its own first request.
OnItsWay ==
  \A t \in Tab : req[t] # Nil =>
    /\ req[t].method = "GET" =>
         req[t].url \in {start[t], Home, Callback, <<ConfirmPath>>}
                         \cup FormURLs(start[t])
    /\ req[t].method = "POST" =>
         req[t].url \in {<<LoginPath>>, <<ConfirmPath>>} /\ req[t].then = start[t]
    /\ req[t].method = "DELETE" =>
         req[t].url \in {<<ConfirmPath>>, Home} /\ req[t].by = "cancel"

\* The page has let through the password that is on its way.
RuleObeyed ==
  \A t \in Tab :
    req[t] # Nil /\ req[t].method = "POST" /\ req[t].url = <<ConfirmPath>> =>
      req[t].password \in Password /\ PageRule(req[t].password)

\* Without an end of the session no page gets out of date, no cancellation is
\* refused, and who is asked to confirm has a session.
UpToDate ==
  ~ ended =>
    /\ \A t \in Tab : page[t].at \in {"login", "confirm"} =>
         page[t].token = csrf /\ csrf # 0
    /\ \A t \in Tab : req[t] # Nil =>
         IF req[t].method = "GET" THEN req[t].url # <<ConfirmPath>>
         ELSE req[t].url # Home => req[t].token = csrf /\ csrf # 0
    /\ \A t \in Tab :
         page[t].at = "confirm" \/ (req[t] # Nil /\ req[t].url[1] = ConfirmPath) =>
           session # "none"

\* Nobody is sent to the start page without a reason.
HomeKnown ==
  \A t \in Tab : req[t] # Nil /\ req[t].url = Home => Explained(t)

\* Every token but the first replaces one that was lost.
TokensCounted == issued <= trouble + 1 /\ (csrf = 0 => issued <= trouble)

IInv ==
  /\ TypeOK /\ OnItsWay /\ RuleObeyed /\ UpToDate /\ HomeKnown /\ TokensCounted
  /\ OwnStart /\ HomeExplained /\ NeverTooWeak
=============================================================================
