# A TLA+ model of the openFuyao oauth-server

The oauth-server logs users of the openFuyao platform in with a password,
forces a change of the password an administrator set, and issues OAuth 2
authorization codes, access tokens and refresh tokens to its clients. It runs
in several replicas that keep no state of their own: everything durable is in
the Kubernetes API server (User resources, secrets) or in a cookie.

## Inventory

| Component | Code | State | Operations |
|---|---|---|---|
| Password endpoints | `pkg/idp/fuyaopassword` | none; locals of a handler | login, confirmation and reset (POST), the forms (GET), `revertPasswordConfirm` (DELETE) |
| User lock protector | `pkg/protector` | none | `CheckLocked`, `AddFailedLogin`, `Unlock` |
| Password authenticator | `pkg/authenticators` | none | `AuthenticatePassword`, `ConfirmPassword`, `ResetPassword`, `savePassword`, `VerifyPassword` |
| User resources | `pkg/fuyaouser` | `User` custom resources with a `resourceVersion` | get, update (refused when outdated), merge patch (never refused) |
| User controller | not in this repository | the status of a User | sets `RemainAttempts` and `lockStatus` from the failure records, ends a lock |
| Login cookie | `pkg/sessions` | the `idpLogin` cookie in the browser | `Get`, `Put`, flush, `SetLoggedIn`, expiry |
| Authorize and token endpoints | `pkg/oauth2`, `pkg/generators` | none | `/oauth/authorize`, `/oauth/token`, logout |
| go-oauth2 manager | library, not vendored | none | check, redeem and refresh over the token store |
| Token store | `pkg/fuyaostore` | one secret per code or refresh token | `Create`, `GetBy*`, `RemoveBy*`; lookups list the namespace |
| Cleanup job | `charts/oauth-server/templates/delete-secret.yaml` | the list of a run of the job | lists, reads creation times, deletes what is older than `SECRET_EXPIRY`, hourly |
| API server, lifecycle | `pkg/apiserver`, `cmd/oauth-server/app/server.go`, `main.go`, `pkg/httpserver/options.go` | listener, error channel, two contexts | start, listen, signal, shutdown, routes |
| Configuration | `cmd/oauth-server/app/{config,options}`, `pkg/config` | the configuration | read, complete, validate |
| CSRF middleware | gorilla/csrf, `pkg/apiserver/oauthserver.go` | a token in a cookie | compares it with the token of the request, else its error handler |
| Pages | `assets/templates`, the GET forms of `login.go` | what a tab shows, its hidden `then` and CSRF token | submit, cancel, go where the fetch ended |
| Input rules | authenticator, login, oauth2, `pkg/utils` | none | password complexity, `then`, redirect URI, escaping |
| Errors, logging, access log, chart | the rest | none | wording, output, deployment |

How they interact: a browser without a login is sent by `/oauth/authorize` to
the login form; the login checks the lock, verifies the password against the
User resource and sets the cookie; a cookie that says `first-login` leads to the
confirmation form, whose handler patches the User and sets a new cookie;
`/oauth/authorize` then stores a code and sends it to the client, which redeems
it at `/oauth/token` for an access token (a JWT, never stored) and a refresh
token (a secret), and later refreshes. All handlers of all replicas meet in the
User resources and the secrets only. Through all of it the first request travels
as the `then` parameter: from authorize into the query of a form, into a hidden field
of its page, into the body the page sends, and back into the redirect that answers.

What is hard here:

- every handler is several calls to the API server with other handlers, the
  controller and crashes in between: read, compare and write are never one step;
- updates are optimistic, patches are not, and any call may take effect without
  its caller learning of it;
- tokens are looked up by listing and deleted by name, one call after another;
- a cookie is a copy of a fact about a User that other requests change;
- secrets age, and two independent cleaners delete them; one is a shell script, in which a
  failed call may pass unnoticed;
- the tabs of a browser share the login and the CSRF cookie, and a page is as old as
  its rendering;
- a process is three goroutines over two contexts and a channel that one of them
  closes, and starts from a file any part of which may be missing.

`PROJECT.json` lists each hazard at its line with the properties that cover it.

What makes the components correct:

- *password endpoints*: no session past the first login without a changed
  password; a password that is stored passed the rule and differs from the one it
  replaces; a request ends in a few calls;
- *lock protector*: a failure counts once, against one user, and is dropped only
  by a success that saw it or by the end of the lock; the count told to the client
  is never negative;
- *tokens*: one exchange per code or refresh token, for its own client and the
  user who logged in; no live token lost to others, the cleanup job included; no secret
  kept for ever;
- *pages*: a tab comes back to its client with its own request, whole; a page that is
  refused leads to one that is not;
- *lifecycle and configuration*: what is served is complete, valid and as configured;
  a process serves or ends, and ends for a reason.

## Modules

| Module | Models |
|---|---|
| `UserStore` | the User resources: versions, update and patch with lost answers, the controller |
| `LoginServer` | the password endpoints, protector and authenticator, one goroutine per request, over `UserStore` |
| `UserAccount` | what an account promises, abstractly; `LoginServer` implements it |
| `UserAccountProofs` | what follows from `UserAccount`, proved on the abstract level |
| `LoginServerProofs` | the theorems about `LoginServer` |
| `TokenGrant` | codes and refresh tokens, the token endpoint, the store, the manager, the cleanup job |
| `TokenChain` | what codes and refresh tokens promise, abstractly; `TokenGrant` implements it |
| `TokenChainProofs` | what follows from `TokenChain`, proved on the abstract level |
| `TokenGrantProofs` | the theorems about `TokenGrant` |
| `BrowserSession` | the login cookie, the browsers that hold it, authorize, login, confirmation, revert and logout |
| `BrowserSessionProofs` | the theorems about `BrowserSession` |
| `PageFlow` | the way of a user through authorize, the pages and the CSRF middleware, in the tabs of a browser |
| `PageFlowProofs` | the theorems about `PageFlow` |
| `ServerConfig` | the configuration: sections, defaults, `Complete`, `Validate`, the choice of a cluster |
| `ServerProcess` | the life of one server process, from its file to its end, over `ServerConfig` |
| `ServerProcessProofs` | the theorems about `ServerProcess` |
| `MCLoginServer`, `MCTokenGrant`, `MCBrowserSession`, `MCPageFlow`, `MCServerProcess` | instances for TLC |

### LoginServer over UserStore

`cr[u]` is the stored resource of user `u`: its version, password, `FirstLogin`,
the set of recorded failures, and the status. A stored password stands for the
raw password it was derived from; `Malformed` is one that does not decode,
`Unset` one too short to hold a salt, on which `VerifyPassword` panics. A failure
record is identified with the request that caused it, so "counted once" can be
said.

A request `r` is a program counter that names its next API call, `req[r]` (body
and cookie), `snap[r]` (the resource the protector read and will write back) and
`seenFirst[r]` (`FirstLogin` as `AuthenticatePassword` read it). Each action is
one call and the code up to the next:

| Action | Code |
|---|---|
| `ReceiveLogin`, `ReceiveConfirm`, `ConfirmWithoutCookie`, `ReceiveReset`, `Reject` | the handlers up to the first call |
| `CheckLocked`, `AuthenticatePassword`, `SaveLoginState` | `processLogin` |
| `AddFailedLogin`, `AddFailedLoginUpdate`, `AddFailedLoginRefetch` | `checkForUserBlocking`, `AddFailedLogin`: get, update, get |
| `Unlock`, `UnlockUpdate` | `Unlock`: get, update |
| `ConfirmPassword`, `ResetPassword` | the first get and the checks |
| `SavePassword`, `SavePasswordPatch` | `savePassword`: get and check, patch |
| `ConfirmSession` | the rest of `processPasswordConfirm` |
| `Crash` | the replica or the connection is lost |

Every call may fail; a write that fails may have taken effect. `issued` holds all
login cookies ever set: a browser may send any of them, so the model is more
general than one browser with one cookie jar. `forgiven` is a history variable.

`Reconcile` and `LockExpires` are the controller. It is not in the repository;
the code relies on a count that goes down from the limit, on `Locked` at the limit
and on a lock that ends. When it acts is left open.

### TokenGrant

`stored` are the tokens whose secret exists, `info` what a secret says, `age` the
time since its creation, `known` the tokens clients hold. A token request goes
through the manager's calls: redeem is check, `RemoveByCode` (list, delete),
create; refresh is check, create, `RemoveByRefresh` (list, delete). The manager is
not part of the repository; its order of calls is the library's, its settings
(`IsRemoveRefreshing`, no `IsRemoveAccess`) those of `NewOAuthServer`. Every error
leads to `deleteExpiredAuthCode` (`CleanCheck`, `CleanList`, `CleanDelete`). The
client secret, which the manager compares, is the free choice of failure in the
check. `exchanged` and `cut` are history variables: the exchanges answered, and
the tokens whose exchange broke off after the delete.

The cleanup job is a process beside the requests. `todo` is what its list returned and
it has yet to look at, `doomed` the secret it deletes next, and `misread` (a history
variable) the tokens it deleted without knowing their age. Its calls are steps of their
own, so requests exchange, store and delete between them:

| Action | Code (`run_clear_job`) |
|---|---|
| `CleanupStart` | the list; one that fails is empty, since its status is that of `awk` |
| `CleanupRead`: `AgeRead` or `AgeUnknown` | the creation time of a secret, and the comparison |
| `CleanupDelete` | the delete; one that fails ends the job (`set -e`) |
| `CleanupAbort` | the pod is lost, or a `date` refuses an empty argument |

`AgeUnknown` is the read that fails: the `kubectl get` is inside an argument of `date`,
whose status is all that `set -e` sees, and GNU `date` takes an empty argument for
midnight of the day. The time of day is not modelled, so the comparison may go either
way, whatever the age. The names come in any order. The model has one run of the job at
a time; runs that overlap would only repeat each other's reads and deletes, each with
the same right as alone. The clock of the job is that of the API server: a skew between
them would shift `SECRET_EXPIRY`.

### BrowserSession

The server keeps no session. `jar[b]` is the cookie of browser `b`: whose login it
was, what `first-login` says, and the time left to `cookie.expiry`; `Get` is the
code's reading of it, an expired cookie being none. A browser has several tabs
(`HomeOf`). A tab sends a request with the cookie of that moment, a handler serves
it, the answer may set or flush the cookie when it is delivered, and both may be
lost; two tabs of one browser therefore overwrite each other's cookie in any order.

| Action | Code |
|---|---|
| `SendLogin`, `SendOther`, `Deliver`, `Lose` | the browser and the network |
| `OAuthAuthorize` | `OAuthAuthorizeHandler`, `AuthorizeThroughSession` |
| `LoginVerify`, `LoginSession` | `processLogin` up to `Unlock`, and after it |
| `ConfirmCheck`, `ConfirmSave` | `processPasswordConfirm` up to the check of `savePassword`, and from its patch on |
| `RevertConfirm`, `SingleLogout` | `revertPasswordConfirm`, `SingleLogoutHandler` |
| `ResetPassword` | a password reset, from wherever |
| `Tick` | a unit of time, for every cookie wherever it is |

The User resource is reduced to `firstLogin`, and what `LoginServer` has as several
calls (the lock, the comparison of passwords) to the choice between accepting and
refusing. `verified` and `codes` record where passwords were accepted and codes
issued; `out` are the browsers whose logout or revert was delivered while they had
nothing else under way, until they send their next login.

Why "nothing else under way": a logout flushes the cookie of the answer only. A
confirmation that is being served while the user logs out sets the cookie again when
its answer arrives, and nothing in the code prevents that. `LoggedOutStays` is what
does hold, and the invariant explains it: without a login, a request sent without a
cookie never brings one back.

### PageFlow

Each tab starts at the URL of authorize that its client made (`start[t]`). A URL is a
sequence of tokens, in which `?` and `&` may be escaped: `Value` reads a parameter up
to the next bare `&`, so a value that is put in as it is loses its tail, and
`IsValidThenURL` counts question marks as the code does. What a client writes
(`Word`) has no `error=`, `%3F` or `%26` of its own: `url.QueryEscape` escapes `=` and
`%` too, so these cannot come out of an escaped `then` as a parameter or an escape
(`WordAssumption`). A step is one exchange: the
request `req[t]` of a tab is answered by a redirect, a page or a refusal, and the
browser follows. `req[t].by` says who asked, a navigation or the script of a page;
a script goes where its fetch ended (`Show`), and stays when it was refused, unless it
was a cancellation (`BadRequest`). `Show` takes a fetch that was redirected to the client's callback to end
ok. The browser grants that to a callback of the same origin as the pages, as the clients
of the chart have, and to another one only if it consents (CORS); `isValidRedirectURI`
accepts either, and without consent the page would stay. `GetsOut` rests on this
assumption, no other property does. `OtherIdp` are the first requests that name an
unknown identity provider; `RedirectToPage` sends them to the callback with an error.

| Action | Code |
|---|---|
| `OAuthAuthorizeHandler`, `RedirectToPage`, `BuildRedirectURL` | the functions of these names |
| `Protect`, `Outdated`, `CsrfError` | the CSRF middleware and its `ErrorHandler` |
| `HandleLoginForm`, `HandlePasswordConfirmForm` | the forms |
| `ProcessLogin`, `ProcessPasswordConfirm`, `RevertPasswordConfirm` | the handlers, each as one step |
| `Submit`, `Cancel` | the listeners of the buttons |
| `Open`, `Lose`, `EndSession`, `ResetElsewhere`, `Elsewhere` | browser, network, logout and expiry, other browsers, console and client |

What `LoginServer` and `BrowserSession` have in several calls is one step here, and
their refusals are the choice `refused`: this module is about where an answer leads. A
password is its length in characters, the classes of characters it has and whether it
is the user's name; a letter of another alphabet has more bytes than characters.

### ServerProcess over ServerConfig

A configuration is a record of six sections, each of which may be `Missing`; a field
is reduced to what the code distinguishes (set or not, a port that is usable or not, a
file that is absent, unusable or good). `KubeConfig` is the choice of
`GetKubeConfigOrInClusterConfig`.

`pc` is where `main` is, `srv` where the goroutine of the server is, `closer` the
goroutine that `Run` starts. `outer` and `inner` are the two contexts, `errCh` the
channel that the wrapper closes when it returns. A send on `errCh`, which has no buffer,
is the step of its reader (`Select`); a sender whose reader has gone panics
(`SendOnClosed`). `Run` cancels the context of `Shutdown` when it returns, which ends only
the wait of `Shutdown` for requests; `main` does not wait for either, so it is left out.
`Exit` closes the sockets and cuts what is still being answered.

| Action | Code |
|---|---|
| `ReadConfig`, `ReadSecrets`, `Validate` | `RunE` |
| `Select`, `Return` | `wrapRunOAuthServerServer`, `main` |
| `NewServer`, `Run`, `ListenAndServe`, `ServeReturns`, `SendOnClosed` | the goroutine of the server |
| `Shutdown` | the goroutine of `Run` |
| `Signal`, `Kill`, `Connect`, `Respond` | the system, clients and handlers |

## Runs

| Run | Instance | Shows |
|---|---|---|
| `mixed` | 1 user, 3 passwords, one of which the rule refuses, 3 requests of any kind, limit 2 | `TypeOK`, `IInv`, `CountedFailureKept`, `SessionAfterPasswordChange`, refinement of `UserAccount` |
| `tokens` | 3 tokens, 1 client, 2 requests and the cleanup job, from an empty store | `IInv`, `ExchangedOnce`, `NoTokenLost`, `LiveSecretsStay`, refinement of `TokenChain` |
| `token_live` | 2 tokens, 2 clients, 1 request and the cleanup job, from an empty store or a refresh token in hand, with fairness | `OwnerKept`, `LiveSecretsStay`, `SecretsGoAway` |
| `browser` | 1 user, 2 tabs of 1 browser, lifetime 2, with fairness | `IInv`, `LoggedOutStays`, `CodesEarned`, `StaleCookiesGo` |
| `server` | files that differ from a good one in one or two sections, every surrounding, 1 request, with fairness | `IInv`, `ServesAsConfigured`, `OneCluster`, `EndsForAReason`, `ServesOrEnds`, `SignalEnds` |
| `pages` | 2 tabs with three pairs of first requests, 2 troubles, with fairness | `TypeOK`, `IInv`, `OwnStart`, `HomeExplained`, `NeverTooWeak`, `GetsOut` |
| `confirm_twice`, `invalid_then`, `locked_answer` | as `mixed` or smaller | the findings below |
| `login_leaves` | 1 user in 2 browsers | the finding below |
| `not_graceful` | as `server` | the finding below |
| `cleanup_unread` | as `tokens`, 2 tokens | the finding below |

*Bounds.* A request is one element of `Attempt` (`Req`) and is made once, so
versions and secrets are finite without further bounds; this is also why these runs
do not check deadlock, they end when all requests are answered. Three requests to the
password endpoints are enough for the races described: one that read early, one that writes in
between and a third that benefits or suffers (a login that unlocks between two failing
ones; a login that takes its cookie to a confirmation while a reset runs).
The limit of 2 failures lets the third overshoot it. One of the three passwords is
refused by the rule, the other two can replace each other. One user is enough because a
request names one user and touches that resource only; the theorems are for any
number of them. `AgeLimit` stops a clock one past the largest lifetime. In `tokens` and `token_live`
a code expires after 0 ticks, a refresh token after 1, so that both live and expired
tokens meet every step; the job's limit equals the refresh lifetime, as in the chart
(7200 s, 2 h). Two requests of the token endpoint are two that present one token together,
or one that exchanges what the other was given, and the job races both; three tokens are
a code and two refresh tokens, so that two exchanges follow or contend with each other.
The owner of a token is compared in a single request, with a second client as the other
one; more requests at once are left to the theorems, which are for any number of them.

Browsers send requests without end, so `BrowserSession` needs no bound but the
number of tabs and the lifetime, and its runs check deadlock. Two tabs of one browser
let one answer overtake another, and the password change in one while the other has its
cookie; that two users of one browser keep each other's cookie, and more browsers, is
left to the theorems, which are for any number of them. A lifetime of 2 distinguishes
fresh, older and expired cookies.

`MaxTrouble` bounds refusals, lost requests and ended sessions of `PageFlow`: two of
them let one tab be refused, or lose its token, twice in a row, or each tab once. The
first requests are two that differ, so that one tab could take up the other's, and
beside them one with a foreign redirect URI, one without parameters and one with a
second question mark. The passwords lie on both sides of each limit and lack or add
each class of characters; the only one that is a name is otherwise good.

The files of `server` differ from a good one in one section, in any way, and in the two
sections that `ReadConfig` writes to, in both; `Validate` and `NewServer` look at each
section alone, and at the certificate files one by one, so more differences at once add
no case. One request is enough for `Drained`: requests do not meet. A process ends, so
this run does not check deadlock; nor does `pages`, where every tab ends at a page it
need not leave.

Symmetry is over requests, tabs of one browser and, where no rule tells them apart,
users, passwords, tokens and clients; never in a liveness run.

*Fairness.* `LiveSpec` of `TokenGrant` asks for weak fairness of each goroutine's
steps: one that is not killed is scheduled, and every API call returns, an error if need
be (client-go has timeouts); nothing is assumed of other requests or of success. It also
asks that time passes, that the hourly job runs and makes its calls, and, as strong
fairness (`ReadsOld`, `DeletesIt`), that the reads and deletes of a secret that the job
makes again in every run do not all fail; any single one may, and any run may be
aborted. `LiveSpec` of `BrowserSession`: time
passes, handlers end and answers arrive if they are not lost; no browser has to send
anything, and a user may log in again for ever. `LiveSpec` of `ServerProcess`: the
scheduler runs `main`, the goroutine of the server until it serves, and that of `Run`;
nothing is assumed of signals, of clients or of the listener, which need not fail.
`LiveSpec` of `PageFlow`: a request is answered (`Answered` is weak fairness of
`Exchange`, written out because its guard is costly to evaluate), a user submits a page
that stays, and one who reads again and again that this is no first login presses
cancel in the end. That is an assumption about users; `GetsOut` says the server does
not waste their efforts.

### Findings

- `confirm_twice`: `savePassword` checks `FirstLogin` and then patches without a
  version. Two confirmations pass the check together and the second replaces the
  password the first one set, of a user who "cannot reconfirm it". What
  `LoginServer` still guarantees is `SessionAfterPasswordChange`.
- `invalid_then`: `processPasswordConfirm` lacks a `return` after it refuses an
  invalid `then`; the password is changed although the user is told to log in
  again from the home page.
- `locked_answer`: `AddFailedLogin` returns 0 for every error, a refused update
  among them, and 0 means "locked" to its caller. Two concurrent wrong passwords
  are enough for a user with one failure to be told of a lock that does not exist.
- `not_graceful`: on a signal the wrapper cancels the inner context and returns in one
  breath; `main` ends whether or not `Shutdown`, in another goroutine, has begun or
  is waiting for requests, and these are cut although the exit code is 0.
- `cleanup_unread`: the cleanup job says it deletes secrets older than `SECRET_EXPIRY`. A
  creation time it cannot read counts as midnight (`AgeUnknown`), so later in the day it
  deletes a live code or refresh token. `NoTokenLost` and `LiveSecretsStay` say that this
  is the only way in which the job costs a client anything.
- `login_leaves`: a user who changed the first password elsewhere is told by the
  confirmation page to go to the login page. A login there keeps the cookie that is
  still alive and says `first-login`, so it leads to the confirmation page again,
  until the cookie expires (`StaleCookiesGo`) or the confirmation is reverted.

## Proofs

`LoginServerProofs` proves, for any sets of users, passwords and requests and any
limit (from the assumptions named in `UserStore` and `LoginServer`):

- `Invariance`: `Spec => []IInv`;
- `TypeCorrect`, `SessionsAfterPasswordChange`, `FailuresKept`: the properties of
  the run `mixed`;
- `RefinesAccount`: `Spec => ImplementsAccount`;
- `AccountsKept`: what `UserAccountProofs` proves of the abstract account;
- `FiveStepsAtMost`: the action property `Forward`.

The inductive invariant. `SessionAfterPasswordChange` alone is not inductive: a
cookie is set from what a goroutine remembers (`seenFirst`), so `CookieToCome`
says that what it remembers stays true; that in turn needs that no update brings
`FirstLogin` back, which holds because a resource about to be written back is
either outdated, and refused, or exactly the stored one (`SnapshotsFresh`).
`CountedOnce` places each recorded failure at a goroutine past its update; it makes
`CountedFailureKept` inductive and gives `RecordFailure` of the abstract account its
"not yet counted". `SavesRealChange` carries the comparisons of `ConfirmPassword` and
`ResetPassword` to the patch two calls later, which makes a patch a
`ChangePassword` or, when another request stored the same password first, a
stutter. Each lemma about a step has one case per action.

`UserAccount` says that a change to a *different* password ends the first login,
that failures are recorded once and dropped together. The abstraction maps the
resources to accounts and `Recorded` to the attempts ever counted. The abstract module
also says what this means for users: no failed attempt stands against two of them
(`FailuresApart`), and a first login ends only with another password that obeys the
rule (`PasswordDecides`). `UserAccountProofs` proves both there, where they need three
lines of invariant; `AccountsKept` instantiates these theorems with the mapping of the
refinement.

`Forward` says that a step leaves a handler where it is or brings it nearer to its end,
by `StepsLeft`: no handler goes back to a call it has made, so a request is through in
five steps of its own after it is received, however many updates are refused. That every
request ends then needs only a scheduler and calls that return, so no run asks for it.

`BrowserSessionProofs` proves, for any users, browsers, tabs and lifetime:

- `CookiesInvariant`: `Spec => []IInv`;
- `CodesAreEarned` and `LogoutIsFinal`: `CodesEarned` and `LoggedOutStays`.

`CodesEarned` is about the moment a code is issued, from a cookie made long before;
its strengthening `CookiesTrue` says that every cookie in a jar, in a request and in
an answer is a true copy: its user's password was accepted in that browser, and if it
does not say `first-login`, the user has changed the password. It stays true because
`firstLogin` only ever ends. `HandlersKnow` carries the same through the handlers
between their steps. `QuietAfterLogout` says that what is under way in a browser that
logged out was sent without a cookie and is no login, so no answer can set one. The
lemma `Answering` holds what all handlers share; each action then only has to say
which cookie it sets.

`ServerProcessProofs` proves, for any configuration files, surroundings and requests:

- `ProcessInvariant`: `Spec => []IInv`;
- `ServingAsConfigured`, `OneClusterOnly`, `EndsExplained`: the safety properties of the
  run `server`.

`ServesAsConfigured` is about the moment of listening; what makes it true was done by
another goroutine long before. `Ready` carries the validated configuration along, by way
of `errCh`, which exists only once `Validate` has passed (`Phases`), and `Serving` says
that the server's goroutine has loaded its certificates before it listens. `Clusters`
follows the cluster of the first client through `Complete`, where a missing section may
turn into one that names the kubeconfig of the home directory: the only way to two
clusters. `EndsForAReason` is inductive with the help of `Phases`, which says that the
channel is closed only by a `main` that returns and that `main` returns 0 only
after a signal. The lemmas `CompleteType`, `ValidatedType` and `KubeConfigType` are about
the operators of `ServerConfig`; then there is one lemma for each action.

`TokenGrantProofs` proves, for any tokens, clients, users, requests and lifetimes:

- `TokensInvariant`: `Spec => []IInv`; `InvariantPreserved` says the same of every
  start that satisfies `IInv`, such as a namespace with the secrets of an earlier
  deployment;
- `OneExchangeEach`, `OwnersAreKept`, `NoTokensLost`: `ExchangedOnce`, `OwnerKept` and
  `NoTokenLost`;
- `LiveSecretsRemain`: the action property `LiveSecretsStay`;
- `RefinesChain`: `Spec => ImplementsChain`;
- `TokensFormChains`: what `TokenChainProofs` proves of the abstract chains.

`ExchangedOnce` is about answers, but what decides between two requests that hold the
same token is the delete, one or two calls before the answer. `OneWinner` says that at
most one request is past the delete of a token, that its secret is then gone and the
token not yet exchanged. `FreshTokens` says that the token a request is about to return
is its own and known to nobody; so no client can present it, and with `Serving` (a
handler works on a token that a client holds) nobody can delete its secret, which is
`FreshLasts`: the token an exchange is about to return is usable until it expires. `Checked`
carries the comparison of the client in the manager's first call to the
exchange, for `OwnerKept`; `CleansExpired` carries the check of `deleteExpiredAuthCode` to
its delete two calls later, and `ReadOld` the comparison of the job to its delete, for
`NoTokenLost` and `LiveSecretsStay`: what has expired stays expired, whatever happens in
between. A job that could not read the creation time is the exception in all three, as
`misread` in `NoTokenLost` and `FreshLasts` and as `Guessed` in `LiveSecretsStay`. `ExchangedKnown` keeps both ends of
an exchange among the tokens of clients, which the abstract chain is made of.

The refinement maps a token to its client and user, takes the known and stored
tokens as the valid ones and the answers as the links. `NextStore` says what any step does
to the store: it adds secrets never seen before, or removes one with reason. So a delete is
the abstract `Spend` when it hits a token a client holds and a stutter when it does
not, `OAuthAuthorize` is `Issue` when the client hears of the code, and
`ReturnTokens` is `Exchange`; everything else is a stutter.

What the chains are for is `Linear`: exchanges never fork, join or come back to a token,
a chain has one owner, and only its last token can be used. `ChainsAreLinear` proves it
of `TokenChain`, where the strengthening is small (`CInv`: the ends of a link have been
issued); a new token has no exchange yet, so the link to it closes no loop.
`TokensFormChains` is the same of the store, through the refinement.

`PageFlowProofs` proves, for any tabs, first requests, passwords and number of troubles:

- `FlowInvariant` and `FlowTypes`: `Spec => []IInv`, `Spec => []TypeOK`;
- `RequestsAreKept`, `HomeHasReason`, `NoWeakPassword`: `OwnStart`, `HomeExplained` and
  `NeverTooWeak`;
- `NoRequestAstray`: every request on its way is `Addressed`.

The first half is about the operators on URLs, for first requests of any length.
`EscapeIs`: an escaped request has no bare `&` and unescapes to itself. `ThenIs` and
`WithErrorIs`: what the forms read as `then` and `error` is what authorize and the
refusals put in, whatever follows it. `FormURLIs` says so of every URL that
leads to a form. `PageRuleSuffices`: a password that the script lets through passes the
rule of the server; the page counts characters and the server bytes, but the page lets
no character of several bytes through.

The second half is the invariant. `OwnStart` is not inductive, because the first request
travels in five forms; `OnItsWay` lists where a tab may be: at its own first
URL, at a form URL made of it, or posting it. `RuleObeyed` keeps what the script
has checked with the request until it is served, for `NeverTooWeak`. `HomeExplained` rests on
`UpToDate`: as long as no session ends, the token of every page is that of the
cookie, no cancellation is refused, and whoever is asked to confirm has a session, so
that the redirect of the confirmation form to the start page has another reason.
`TokensCounted` bounds the CSRF tokens: each but the first replaces one that was lost. The
lemma `ByTab` takes the invariant apart into what fits each page and each request;
`PageKept` and `RequestKept` say that a step of one tab leaves what fits the others,
through the cookies all share (`Surroundings`); `RedirectStep`, `ShowStep` and
`RequestStep` are the answers of the server; then there is one lemma for each action.
`Addressed` says of a request that some handler, or the middleware, is for it: right path,
right method, right token. The fairness of `LiveSpec` that a request is answered asks
nothing of the server that it could not do.

## Only model-checked

`SecretsGoAway`, `StaleCookiesGo`, `ServesOrEnds`, `SignalEnds` and `GetsOut`, because liveness under fairness is out of the prover's reach; and the violated
properties of the findings, where TLC's counterexample is the result. Every invariant,
every action property and both refinements that the passing runs check are proved.

## Not modelled, and why

Texts, HTTP status codes, the looks of the pages, logging and the chart carry no state.
gorilla/csrf is a library; what it does is taken from how `PrepareRun` sets it up.
`EscapeSpecialChars` and `isValidRedirectURI` work character by character on strings
that the models treat as values; a redirect URI is valid or not (`BadUri`). The access token is a signed JWT
that no part of this code stores or revokes. A locked user without a
`lockedTimestamp` makes `CheckLocked` panic; the model takes the controller to set both
together, and the panic would look like `Crash`. A token review that answers "not
authenticated" without an error makes `webhookAuthentication` panic, which the
model shows as the request ending without effect.

## Plan

1. `UserStore`, `LoginServer`, `UserAccount`, `LoginServerProofs`: done.
2. `TokenGrant`, `TokenChain`, `TokenGrantProofs`: done.
3. `BrowserSession`, `BrowserSessionProofs`: done.
4. `ServerConfig`, `ServerProcess`, `ServerProcessProofs`: done.
5. `PageFlow`, `PageFlowProofs`: done.
6. `OAuthSystem`: browser, password endpoints and tokens composed; a refresh token
   belongs to a user who has changed the first password.
