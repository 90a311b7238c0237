----------------------------- MODULE TokenGrant ------------------------------
(***************************************************************************)
(* Authorization codes and refresh tokens: package oauth2 (the authorize   *)
(* and token endpoints) over K8sSecretStore of package fuyaostore, and the *)
(* job that deletes old secrets.                                           *)
(*                                                                         *)
(* Codes and refresh tokens are kept in secrets with random names, one     *)
(* token each, and are found by listing the namespace.  Access tokens are  *)
(* never stored.  Between the endpoint and the store sits the go-oauth2    *)
(* manager, which is not part of the repository: it redeems a code by      *)
(* removing it before it stores the refresh token, and refreshes by        *)
(* storing the new refresh token before it removes the old one.            *)
(***************************************************************************)
EXTENDS Integers

CONSTANTS
  Token,         \* random codes and refresh tokens, also their secrets' names
  Client, User, Uri,
  Req,           \* requests to the token endpoint
  Nil,
  CodeExp,       \* AuthCodeExp
  RefreshExp,    \* RefreshTokenExp
  SecretExpiry   \* SECRET_EXPIRY of the cleanup job

ASSUME ExpAssumption ==
  /\ CodeExp \in Nat /\ RefreshExp \in Nat /\ SecretExpiry \in Nat

\* The chart gives the job the lifetime of a login session, 7200 seconds,
\* which is also the lifetime of a refresh token.
ASSUME CleanupAssumption ==
  CodeExp <= SecretExpiry /\ RefreshExp <= SecretExpiry

Grant == {"code", "refresh"}

TokenInfo == [kind : Grant, client : Client, user : User, uri : Uri]

TokenRequest == [grant : Grant, token : Token, client : Client, uri : Uri]

Doomed == [token : Token, read : BOOLEAN]

ASSUME NilAssumption == Nil \notin TokenInfo \cup TokenRequest \cup Token \cup Doomed

Label ==
  {"new", "redeemCheck", "redeemList", "redeemDelete", "redeemCreate",
   "refreshCheck", "refreshCreate", "refreshList", "refreshDelete",
   "respond", "cleanCheck", "cleanList", "cleanDelete", "done"}

VARIABLES
  stored,    \* the tokens whose secret exists
  info,      \* what the secret of a token says, Nil before it is created
  age,       \* the time since a token was created
  known,     \* the tokens a client has received
  pc,        \* the next call of each token request
  req,       \* the request a handler serves, Nil outside it
  fresh,     \* the refresh token it is about to return
  exchanged, \* [from, to, client] for each exchange answered with tokens
  cut,       \* the tokens whose exchange failed after their secret was removed
  todo,      \* the secrets the cleanup job has listed and not yet looked at
  doomed,    \* the secret it deletes next, and whether it could read its age
  misread    \* the tokens it deleted without having read their age

store == <<stored, info, age>>
job == <<todo, doomed, misread>>
vars == <<stored, info, age, known, pc, req, fresh, exchanged, cut,
          todo, doomed, misread>>

\* Bound: ages are counted until every comparison with them is settled.
AgeLimit == SecretExpiry + 1

Init ==
  /\ stored = {}
  /\ info = [t \in Token |-> Nil]
  /\ age = [t \in Token |-> 0]
  /\ known = {}
  /\ pc = [r \in Req |-> "new"]
  /\ req = [r \in Req |-> Nil]
  /\ fresh = [r \in Req |-> Nil]
  /\ exchanged = {}
  /\ cut = {}
  /\ todo = {} /\ doomed = Nil /\ misread = {}

-----------------------------------------------------------------------------
\* K8sSecretStore over the API server.
Created(t) == info[t] # Nil

Expired(t) ==
  age[t] > IF info[t].kind = "code" THEN CodeExp ELSE RefreshExp

\* GetByCode and GetByRefresh look at the secrets of their own prefix only.
Found(g, t) == t \in stored /\ info[t].kind = g

\* Create: a secret that was created for a caller who gets an error stays.
Create(t, i, ok) ==
  \/ /\ ~ Created(t)
     /\ stored' = stored \cup {t}
     /\ info' = [info EXCEPT ![t] = i]
     /\ UNCHANGED age
  \/ ~ ok /\ UNCHANGED store

\* Mutant: deleting what is already gone counts as done.
DeleteLenient(t, ok) ==
  /\ stored' \in {stored, stored \ {t}}
  /\ ok => t \notin stored'
  /\ UNCHANGED <<info, age>>

\* Delete by name: a secret that is gone is an error.
Delete(t, ok) ==
  /\ \/ t \in stored /\ stored' = stored \ {t}
     \/ ~ ok /\ UNCHANGED stored
  /\ UNCHANGED <<info, age>>

-----------------------------------------------------------------------------
\* OAuthAuthorizeHandler for a user who is logged in and past the first
\* login; the answer with the code may fail to reach the client.
OAuthAuthorize ==
  \E t \in Token, c \in Client, u \in User, uri \in Uri, ok \in BOOLEAN :
    /\ ~ Created(t)
    /\ Create(t, [kind |-> "code", client |-> c, user |-> u, uri |-> uri], ok)
    /\ known' = IF ok THEN known \cup {t} ELSE known
    /\ UNCHANGED <<pc, req, fresh, exchanged, cut, job>>

-----------------------------------------------------------------------------
\* Control of a token request.
At(r, l) == pc[r] = l

Goto(r, l) ==
  /\ pc' = [pc EXCEPT ![r] = l]
  /\ UNCHANGED req

Finish(r) ==
  /\ pc' = [pc EXCEPT ![r] = "done"]
  /\ req' = [req EXCEPT ![r] = Nil]
  /\ fresh' = [fresh EXCEPT ![r] = Nil]

\* Every error of GetAccessToken ends in deleteExpiredAuthCode.
Fail(r) == Goto(r, "cleanCheck") /\ fresh' = [fresh EXCEPT ![r] = Nil]

Same == UNCHANGED <<known, exchanged, job>>

\* A token request with the client's id, secret and token, each of which
\* may be wrong; ValidationTokenRequest refuses what is malformed.
ReceiveToken(r) ==
  /\ At(r, "new")
  /\ \E t \in known, g \in Grant, c \in Client, uri \in Uri :
       /\ req' = [req EXCEPT ![r] = [grant |-> g, token |-> t,
                                     client |-> c, uri |-> uri]]
       /\ pc' = [pc EXCEPT ![r] =
                   IF g = "code" THEN "redeemCheck" ELSE "refreshCheck"]
  /\ UNCHANGED <<store, fresh, cut>> /\ Same

\* GenerateAccessToken: the code must be live and bound to the client and
\* redirect URI of the request.  The client's secret or the read may fail.
RedeemCheck(r) ==
  LET q == req[r]  i == info[q.token] IN
  /\ At(r, "redeemCheck")
  /\ \/ /\ Found("code", q.token) /\ ~ Expired(q.token)
        /\ i.client = q.client /\ i.uri = q.uri
        /\ Goto(r, "redeemList") /\ UNCHANGED fresh
     \/ Fail(r)
  /\ UNCHANGED <<store, cut>> /\ Same

\* RefreshAccessToken: the refresh token must be live and the client's.
RefreshCheck(r) ==
  LET q == req[r] IN
  /\ At(r, "refreshCheck")
  /\ \/ /\ Found("refresh", q.token) /\ ~ Expired(q.token)
        /\ info[q.token].client = q.client
        /\ Goto(r, "refreshCreate") /\ UNCHANGED fresh
     \/ Fail(r)
  /\ UNCHANGED <<store, cut>> /\ Same

\* The refresh token to return is stored for the user of the old token.
NewRefresh(r) ==
  [info[req[r].token] EXCEPT !.kind = "refresh"]

\* Mutant: Create takes the token for a code, as its TokenInfo has one.
CreateRefreshAsCode(r, then) ==
  \E n \in Token, ok \in BOOLEAN :
    /\ ~ Created(n)
    /\ Create(n, [NewRefresh(r) EXCEPT !.kind = "code"], ok)
    /\ IF ok THEN Goto(r, then) /\ fresh' = [fresh EXCEPT ![r] = n]
             ELSE Fail(r)

CreateRefresh(r, then) ==
  \E n \in Token, ok \in BOOLEAN :
    /\ ~ Created(n)
    /\ Create(n, NewRefresh(r), ok)
    /\ IF ok THEN Goto(r, then) /\ fresh' = [fresh EXCEPT ![r] = n]
             ELSE Fail(r)

RefreshCreate(r) ==
  /\ At(r, "refreshCreate")
  /\ CreateRefresh(r, "refreshList")
  /\ UNCHANGED cut /\ Same

\* RemoveByCode and RemoveByRefresh list the secrets ...
RemoveList(r) ==
  /\ \/ At(r, "redeemList")
     \/ At(r, "refreshList")
  /\ \/ /\ req[r].token \in stored
        /\ Goto(r, IF At(r, "redeemList") THEN "redeemDelete"
                                          ELSE "refreshDelete")
        /\ UNCHANGED fresh
     \/ Fail(r)
  /\ UNCHANGED <<store, cut>> /\ Same

\* Mutant: an error of the delete is logged and ignored.
RemoveIgnoringErrors(r) ==
  LET t == req[r].token IN
  /\ At(r, "redeemDelete") \/ At(r, "refreshDelete")
  /\ \E ok \in BOOLEAN : Delete(t, ok)
  /\ Goto(r, IF At(r, "redeemDelete") THEN "redeemCreate" ELSE "respond")
  /\ UNCHANGED <<fresh, cut>> /\ Same

\* ... and delete the one they found by its name.
RemoveDelete(r) ==
  LET t == req[r].token IN
  /\ \/ At(r, "redeemDelete")
     \/ At(r, "refreshDelete")
  /\ \E ok \in BOOLEAN :
       /\ Delete(t, ok)
       /\ IF ok
          THEN /\ Goto(r, IF At(r, "redeemDelete") THEN "redeemCreate"
                                                   ELSE "respond")
               /\ UNCHANGED <<fresh, cut>>
          ELSE /\ Fail(r)
               /\ cut' = cut \cup (stored \ stored')
  /\ Same

RedeemCreate(r) ==
  /\ At(r, "redeemCreate")
  /\ CreateRefresh(r, "respond")
  /\ cut' = IF pc'[r] = "respond" THEN cut ELSE cut \cup {req[r].token}
  /\ Same

ReturnTokens(r) ==
  LET q == req[r] IN
  /\ At(r, "respond")
  /\ known' = known \cup {fresh[r]}
  /\ exchanged' = exchanged \cup
       {[from |-> q.token, to |-> fresh[r], client |-> q.client]}
  /\ Finish(r)
  /\ UNCHANGED <<store, cut, job>>

-----------------------------------------------------------------------------
\* Mutant: the code of a failed request is deleted whether expired or not.
CleanUnexpired(r) ==
  LET q == req[r] IN
  /\ At(r, "cleanCheck")
  /\ \/ /\ q.grant = "code" /\ Found("code", q.token)
        /\ Goto(r, "cleanList") /\ UNCHANGED fresh
     \/ Finish(r)
  /\ UNCHANGED <<store, cut>> /\ Same

\* deleteExpiredAuthCode.  A refresh request has no code to look for.
CleanCheck(r) ==
  LET q == req[r] IN
  /\ At(r, "cleanCheck")
  /\ \/ /\ q.grant = "code" /\ Found("code", q.token) /\ Expired(q.token)
        /\ Goto(r, "cleanList") /\ UNCHANGED fresh
     \/ Finish(r)
  /\ UNCHANGED <<store, cut>> /\ Same

CleanList(r) ==
  /\ At(r, "cleanList")
  /\ \/ req[r].token \in stored /\ Goto(r, "cleanDelete") /\ UNCHANGED fresh
     \/ Finish(r)
  /\ UNCHANGED <<store, cut>> /\ Same

CleanDelete(r) ==
  /\ At(r, "cleanDelete")
  /\ \E ok \in BOOLEAN : Delete(req[r].token, ok)
  /\ Finish(r)
  /\ UNCHANGED cut /\ Same

-----------------------------------------------------------------------------
\* The replica dies, or the client's connection does.
Crash(r) ==
  /\ pc[r] \notin {"new", "done"}
  /\ Finish(r)
  /\ cut' = IF pc[r] \in {"redeemCreate", "respond"}
            THEN cut \cup {req[r].token} ELSE cut
  /\ UNCHANGED store /\ Same

\* The cleanup job, once an hour: run_clear_job of delete-secret.yaml.
JobOnly == UNCHANGED <<info, age, known, pc, req, fresh, exchanged, cut>>

\* A list that fails is an empty one: its status is that of awk.
CleanupStart ==
  /\ todo = {} /\ doomed = Nil
  /\ todo' = stored
  /\ UNCHANGED <<stored, doomed, misread>> /\ JobOnly

\* Mutants: a secret is deleted one unit early, or only when it holds a code.
AgeEarly(t) ==
  /\ t \in stored
  /\ doomed' = IF age[t] >= SecretExpiry THEN [token |-> t, read |-> TRUE]
                                         ELSE Nil

AgeOfCodes(t) ==
  /\ t \in stored
  /\ doomed' = IF age[t] > SecretExpiry /\ info[t].kind = "code"
               THEN [token |-> t, read |-> TRUE] ELSE Nil

\* The creation time of a secret is read and compared with SECRET_EXPIRY.
AgeRead(t) ==
  /\ t \in stored
  /\ doomed' = IF age[t] > SecretExpiry THEN [token |-> t, read |-> TRUE]
                                        ELSE Nil

\* A read that fails leaves date without a time, and its status hides the
\* failure from set -e: date takes today's midnight, which is longer ago than
\* SECRET_EXPIRY or not, as the time of day has it.
AgeUnknown(t) == doomed' \in {Nil, [token |-> t, read |-> FALSE]}

CleanupRead(t) ==
  /\ t \in todo /\ doomed = Nil
  /\ todo' = todo \ {t}
  /\ AgeRead(t) \/ AgeUnknown(t)
  /\ UNCHANGED <<stored, misread>> /\ JobOnly

\* A delete that fails ends the job, by set -e.
CleanupDelete ==
  /\ doomed # Nil
  /\ \E ok \in BOOLEAN :
       /\ Delete(doomed.token, ok)
       /\ todo' = IF ok THEN todo ELSE {}
  /\ doomed' = Nil
  /\ misread' = IF doomed.read THEN misread ELSE misread \cup (stored \ stored')
  /\ UNCHANGED <<known, pc, req, fresh, exchanged, cut>>

\* The pod is lost, or a date that refuses an empty time ends the job.
CleanupAbort ==
  /\ todo # {} \/ doomed # Nil
  /\ todo' = {} /\ doomed' = Nil
  /\ UNCHANGED <<stored, misread>> /\ JobOnly

Older(t) == IF Created(t) /\ age[t] < AgeLimit THEN age[t] + 1 ELSE age[t]

Tick ==
  /\ \E t \in Token : Older(t) # age[t]
  /\ age' = [t \in Token |-> Older(t)]
  /\ UNCHANGED <<stored, info, known, pc, req, fresh, exchanged, cut, job>>

Step(r) ==
  \/ RedeemCheck(r) \/ RefreshCheck(r) \/ RefreshCreate(r) \/ RemoveList(r)
  \/ RemoveDelete(r) \/ RedeemCreate(r) \/ ReturnTokens(r)
  \/ CleanCheck(r) \/ CleanList(r) \/ CleanDelete(r)

Next ==
  \/ OAuthAuthorize
  \/ \E r \in Req : ReceiveToken(r) \/ Step(r) \/ Crash(r)
  \/ CleanupStart \/ CleanupDelete \/ CleanupAbort
  \/ \E t \in Token : CleanupRead(t)
  \/ Tick

Spec == Init /\ [][Next]_vars

\* Calls of the job for t that succeed.
ReadsOld(t) == CleanupRead(t) /\ doomed' = [token |-> t, read |-> TRUE]
DeletesIt(t) == CleanupDelete /\ t \in stored /\ t \notin stored'

\* Time passes, the job runs every hour and goes on, a goroutine goes on; a call
\* that the job makes again and again does not fail every time.
Fairness ==
  /\ WF_vars(Tick) /\ WF_vars(CleanupStart) /\ WF_vars(CleanupDelete)
  /\ WF_vars(\E t \in Token : CleanupRead(t))
  /\ \A t \in Token : SF_vars(ReadsOld(t)) /\ SF_vars(DeletesIt(t))
  /\ \A r \in Req : WF_vars(Step(r))

LiveSpec == Spec /\ Fairness

-----------------------------------------------------------------------------
(***************************************************************************)
(* The values every variable takes; the secret of a token and the tokens   *)
(* clients hold come from a creation.                                      *)
(***************************************************************************)
Exchanged == [from : Token, to : Token, client : Client]

TypeOK ==
  /\ stored \subseteq Token
  /\ info \in [Token -> TokenInfo \cup {Nil}]
  /\ age \in [Token -> 0..AgeLimit]
  /\ known \subseteq Token
  /\ pc \in [Req -> Label]
  /\ req \in [Req -> TokenRequest \cup {Nil}]
  /\ fresh \in [Req -> Token \cup {Nil}]
  /\ exchanged \subseteq Exchanged
  /\ cut \subseteq Token
  /\ todo \subseteq Token /\ doomed \in Doomed \cup {Nil}
  /\ misread \subseteq Token
  /\ \A t \in stored \cup known : Created(t)

\* r has removed the secret of t and may still answer with new tokens.
Winner(r, t) == pc[r] \in {"redeemCreate", "respond"} /\ req[r].token = t

Used(t) == \E x \in exchanged : x.from = t

(***************************************************************************)
(* A code or refresh token is exchanged at most once, however many         *)
(* requests present it at the same time: all of them pass the check, and   *)
(* only the one whose delete finds the secret gets tokens (k8ssecret.go,   *)
(* RemoveByCode and RemoveByRefresh).                                      *)
(***************************************************************************)
ExchangedOnce ==
  \A x, y \in exchanged : x.from = y.from => x = y

(***************************************************************************)
(* Whoever gets a refresh token is the client the code was issued to, and  *)
(* the token stands for the user who logged in (oauth2server.go).          *)
(***************************************************************************)
OwnerKept ==
  \A x \in exchanged :
    /\ info[x.to].kind = "refresh"
    /\ info[x.from].client = x.client /\ info[x.to].client = x.client
    /\ info[x.to].user = info[x.from].user

(***************************************************************************)
(* A token a client holds stays usable until it expires, is exchanged, an  *)
(* API error or crash cuts its own exchange short after the delete, or the *)
(* cleanup job deletes it without having read its age (delete-secret.yaml, *)
(* line 87); competing requests, failed attempts with it,                  *)
(* deleteExpiredAuthCode and a job whose reads succeed never cost the      *)
(* client a live token.                                                    *)
(***************************************************************************)
NoTokenLost ==
  \A t \in known :
    \/ t \in stored \/ Expired(t) \/ Used(t) \/ t \in cut \/ t \in misread
    \/ \E r \in Req : Winner(r, t)

\* The job deletes next what it took for old without a creation time.
Guessed(t) == doomed # Nil /\ doomed.token = t /\ ~ doomed.read

(***************************************************************************)
(* No step removes a live secret but the exchange of it by its own client  *)
(* and a cleanup job that could not read its creation time.                *)
(***************************************************************************)
LiveSecretsStay ==
  [][\A t \in stored \ stored' :
       \/ Expired(t) \/ Guessed(t)
       \/ \E r \in Req : /\ pc[r] \in {"redeemDelete", "refreshDelete"}
                         /\ req[r].token = t
                         /\ req[r].client = info[t].client]_vars

(***************************************************************************)
(* The message of the cleanup job: "Deleting secrets older than            *)
(* ${SECRET_EXPIRY} seconds" (delete-secret.yaml, line 82).  The code does *)
(* otherwise when the creation time cannot be read.                        *)
(***************************************************************************)
OnlyOldDeleted ==
  [][CleanupDelete => \A t \in stored \ stored' : age[t] > SecretExpiry]_vars

(***************************************************************************)
(* Secrets nobody can use, those of codes never redeemed and of refresh    *)
(* tokens never returned because of an error, do not pile up.              *)
(***************************************************************************)
SecretsGoAway ==
  \A t \in Token : t \in stored ~> t \notin stored

(***************************************************************************)
(* The token endpoint implements the abstract chains of tokens.            *)
(***************************************************************************)
Chain == INSTANCE TokenChain WITH
  Owner <- Client \X User,
  owner <- [t \in known |-> <<info[t].client, info[t].user>>],
  valid <- known \cap stored,
  next  <- {<<x.from, x.to>> : x \in exchanged}

ImplementsChain == Chain!Spec

-----------------------------------------------------------------------------
(***************************************************************************)
(* The inductive invariant.                                                *)
(***************************************************************************)
\* A handler works on a token some client holds.
Serving ==
  \A r \in Req : pc[r] \notin {"new", "done"} =>
    req[r] # Nil /\ req[r].token \in known

\* One request at most is past the delete of a token, and then the token is
\* neither stored nor exchanged.
OneWinner ==
  /\ \A r, s \in Req, t \in Token : Winner(r, t) /\ Winner(s, t) => r = s
  /\ \A r \in Req, t \in Token : Winner(r, t) => t \notin stored /\ ~ Used(t)
  /\ \A t \in stored : ~ Used(t)

\* A request past its check is the owner's.
Checked ==
  \A r \in Req :
    pc[r] \in {"redeemList", "redeemDelete", "redeemCreate", "refreshCreate",
               "refreshList", "refreshDelete", "respond"} =>
      info[req[r].token].client = req[r].client

\* The refresh token about to be returned is known to nobody else.
FreshTokens ==
  /\ \A r \in Req : fresh[r] # Nil =>
       /\ fresh[r] \notin known
       /\ info[fresh[r]] # Nil
       /\ info[fresh[r]] = NewRefresh(r)
  /\ \A r, s \in Req : fresh[r] # Nil /\ fresh[r] = fresh[s] => r = s
  /\ \A r \in Req : pc[r] \in {"refreshList", "refreshDelete", "respond"}
                      <=> fresh[r] # Nil

\* ... and its secret lasts until it expires: nobody else can present it.
FreshLasts ==
  \A r \in Req : fresh[r] # Nil =>
    fresh[r] \in stored \/ Expired(fresh[r]) \/ fresh[r] \in misread

\* Only expired codes are cleaned away after an error.
CleansExpired ==
  \A r \in Req : pc[r] \in {"cleanList", "cleanDelete"} =>
    Expired(req[r].token)

\* What the job has found old is older still when it deletes it.
ReadOld == doomed # Nil /\ doomed.read => age[doomed.token] > SecretExpiry

\* Both ends of an exchange have been in a client's hands.
ExchangedKnown ==
  \A x \in exchanged : x.from \in known /\ x.to \in known

IInv ==
  /\ TypeOK /\ Serving /\ OneWinner /\ Checked /\ FreshTokens
  /\ FreshLasts /\ CleansExpired /\ ReadOld /\ ExchangedKnown
  /\ ExchangedOnce /\ OwnerKept /\ NoTokenLost
=============================================================================
