----------------------------- MODULE LoginServer -----------------------------
(***************************************************************************)
(* The password endpoints of package fuyaopassword: login, confirmation of *)
(* the first password and password reset, with LoginUserProtector and      *)
(* FuyaoPasswordAuthenticator.                                             *)
(*                                                                         *)
(* Every request runs in a goroutine of its own, in any replica; requests  *)
(* share nothing but the User resources.  A goroutine is a program counter *)
(* that names the next call it makes to the API server, plus its locals.   *)
(* Each step of a goroutine is one such call with everything the code does *)
(* between it and the next one.                                            *)
(***************************************************************************)
EXTENDS UserStore

CONSTANTS
  Nil,     \* no request, no resource, no cookie
  Weak,    \* <<user, password>> pairs that checkPasswordComplexity refuses
  Op       \* the endpoints in use, a subset of Operation

Operation == {"login", "confirm", "reset"}

ASSUME OpAssumption == Op \subseteq Operation
ASSUME WeakAssumption == Weak \subseteq User \X Password

\* What the idpLogin cookie says: the user and extra["first-login"].
Cookie == [user : User, first : BOOLEAN]

Request ==
  [op : Operation, user : User,
   old : Password,                \* the password presented
   new : Password,                \* the password to store
   thenOk : BOOLEAN,              \* isValidThenURL(then)
   cookie : Cookie \cup {Nil}]    \* the idpLogin cookie the browser sent

ASSUME NilAssumption == Nil \notin Request \cup Cookie \cup UserCR

Code ==
  {"none", "lost", "rejected", "invalidThen", "toConsole", "noUser",
   "blocked", "wrongLeft", "wrongLocked", "redirect", "serviceDown",
   "authFailed", "same", "weak", "notFirst", "saveFailed", "resetOK"}

Label ==
  {"new", "checkLocked", "authenticate", "addGet", "addPut", "addReget",
   "unlockGet", "unlockPut", "session", "confirmGet", "resetGet", "saveGet",
   "savePatch", "confirmSession", "done"}

VARIABLES
  pc,         \* the next call each request makes
  req,        \* the request a goroutine serves, Nil outside its handler
  snap,       \* the resource read by the protector, to be written back
  seenFirst,  \* FirstLogin as AuthenticatePassword read it
  answer,     \* what the client was told
  issued,     \* the login cookies ever set
  forgiven    \* the attempts whose failure record was removed on purpose

local == <<pc, req, snap, seenFirst>>
vars == <<cr, pc, req, snap, seenFirst, answer, issued, forgiven>>

Answer == [code : Code, left : Nat]
NoAnswer == [code |-> "none", left |-> 0]

Init ==
  /\ StoreInit
  /\ pc = [r \in Attempt |-> "new"]
  /\ req = [r \in Attempt |-> Nil]
  /\ snap = [r \in Attempt |-> Nil]
  /\ seenFirst = [r \in Attempt |-> FALSE]
  /\ answer = [r \in Attempt |-> NoAnswer]
  /\ issued = {}
  /\ forgiven = {}

-----------------------------------------------------------------------------
\* Control of a goroutine.
At(r, l) == pc[r] = l

Goto(r, l) ==
  /\ pc' = [pc EXCEPT ![r] = l]
  /\ UNCHANGED <<req, answer>>

\* The first header written is the answer; later ones are dropped.
Respond(r, code, left) ==
  answer' = IF answer[r] = NoAnswer
            THEN [answer EXCEPT ![r] = [code |-> code, left |-> left]]
            ELSE answer

Leave(r) ==
  /\ pc' = [pc EXCEPT ![r] = "done"]
  /\ req' = [req EXCEPT ![r] = Nil]
  /\ snap' = [snap EXCEPT ![r] = Nil]
  /\ seenFirst' = [seenFirst EXCEPT ![r] = FALSE]

FinishLeft(r, code, left) == Leave(r) /\ Respond(r, code, left)
Finish(r, code) == FinishLeft(r, code, 0)

Keep == UNCHANGED <<snap, seenFirst>>
NoWrite == UNCHANGED <<cr, forgiven>>
NoCookie == UNCHANGED issued

\* Set-Cookie reaches the client only in front of the answer.
SetCookie(r, c) ==
  issued' = IF answer[r] = NoAnswer THEN issued \cup {c} ELSE issued

-----------------------------------------------------------------------------
\* Arrival: what a handler checks before its first call.
Receive(r, q, l) ==
  /\ At(r, "new")
  /\ pc' = [pc EXCEPT ![r] = l]
  /\ req' = [req EXCEPT ![r] = q]
  /\ Keep /\ NoWrite /\ NoCookie

\* Wrong method, undecodable body, missing fields, invalid then of a login,
\* missing or refused access token of a reset.
Reject(r) ==
  /\ At(r, "new")
  /\ Finish(r, "rejected")
  /\ NoWrite /\ NoCookie

ReceiveLogin(r) ==
  \E u \in User, p \in Password, c \in issued \cup {Nil} :
    /\ "login" \in Op
    /\ Receive(r, [op |-> "login", user |-> u, old |-> p, new |-> p,
                   thenOk |-> TRUE, cookie |-> c], "checkLocked")
    /\ UNCHANGED answer

\* An invalid then is answered, and the handler goes on.
ReceiveConfirm(r) ==
  /\ "confirm" \in Op
  /\ \E c \in issued, p \in Password, thenOk \in BOOLEAN :
       /\ Receive(r, [op |-> "confirm", user |-> c.user, old |-> p, new |-> p,
                      thenOk |-> thenOk, cookie |-> c], "confirmGet")
       /\ IF thenOk THEN UNCHANGED answer ELSE Respond(r, "invalidThen", 0)

ConfirmWithoutCookie(r) ==
  /\ "confirm" \in Op
  /\ At(r, "new")
  /\ Finish(r, "toConsole")
  /\ NoWrite /\ NoCookie

ReceiveReset(r) ==
  \E u \in User, old, new \in Password :
    /\ "reset" \in Op
    /\ At(r, "new")
    /\ IF old = new
       THEN Finish(r, "same") /\ NoWrite /\ NoCookie
       ELSE /\ Receive(r, [op |-> "reset", user |-> u, old |-> old,
                           new |-> new, thenOk |-> TRUE, cookie |-> Nil],
                       "resetGet")
            /\ UNCHANGED answer

-----------------------------------------------------------------------------
\* processLogin.  A missing user and a failed call look the same.
CheckLocked(r) ==
  /\ At(r, "checkLocked")
  /\ \/ cr[req[r].user].locked /\ Finish(r, "blocked")
     \/ ~ cr[req[r].user].locked /\ Goto(r, "authenticate") /\ Keep
     \/ Finish(r, "noUser")
  /\ NoWrite /\ NoCookie

Verifies(p, stored) == stored = p

AuthenticatePassword(r) ==
  LET c == cr[req[r].user] IN
  /\ At(r, "authenticate")
  /\ \/ /\ Verifies(req[r].old, c.pw)
        /\ Goto(r, "unlockGet")
        /\ seenFirst' = [seenFirst EXCEPT ![r] = c.firstLogin]
        /\ UNCHANGED snap
     \/ /\ ~ Verifies(req[r].old, c.pw) /\ c.pw # Unset
        /\ Goto(r, "addGet") /\ Keep
     \/ c.pw = Unset /\ Finish(r, "lost")    \* the salt slice panics
     \/ Goto(r, "addGet") /\ Keep            \* the read failed
  /\ NoWrite /\ NoCookie

-----------------------------------------------------------------------------
\* AddFailedLogin and checkForUserBlocking, for logins and resets.
AddFailedLogin(r) ==
  /\ At(r, "addGet")
  /\ \/ /\ Goto(r, "addPut")
        /\ snap' = [snap EXCEPT ![r] = cr[req[r].user]]
        /\ UNCHANGED seenFirst
     \/ Finish(r, "wrongLocked")
  /\ NoWrite /\ NoCookie

\* Mutant: an update that fails is tried again.
AddFailedLoginRetrying(r) ==
  /\ At(r, "addPut")
  /\ \E ok \in BOOLEAN :
       /\ UpdateUserInfo(req[r].user,
                         [snap[r] EXCEPT !.fails = @ \cup {r}], ok)
       /\ Goto(r, IF ok THEN "addReget" ELSE "addGet") /\ Keep
  /\ UNCHANGED <<issued, forgiven>>

AddFailedLoginUpdate(r) ==
  /\ At(r, "addPut")
  /\ \E ok \in BOOLEAN :
       /\ UpdateUserInfo(req[r].user,
                         [snap[r] EXCEPT !.fails = @ \cup {r}], ok)
       /\ IF ok THEN Goto(r, "addReget") /\ Keep
                ELSE Finish(r, "wrongLocked")
  /\ UNCHANGED <<issued, forgiven>>

Clamp(n) == IF n < 0 THEN 0 ELSE n

\* Mutant: a count below zero is reported like any other.
RefetchUnclamped(r) ==
  LET left == cr[req[r].user].remain IN
  /\ At(r, "addReget")
  /\ \/ left # 0 /\ FinishLeft(r, "wrongLeft", left)
     \/ left = 0 /\ Finish(r, "wrongLocked")
  /\ NoWrite /\ NoCookie

AddFailedLoginRefetch(r) ==
  LET left == Clamp(cr[req[r].user].remain) IN
  /\ At(r, "addReget")
  /\ \/ left > 0 /\ FinishLeft(r, "wrongLeft", left)
     \/ left = 0 /\ Finish(r, "wrongLocked")
     \/ Finish(r, "wrongLocked")             \* the read failed
  /\ NoWrite /\ NoCookie

-----------------------------------------------------------------------------
\* Unlock: its failures are logged, never reported.
Unlock(r) ==
  /\ At(r, "unlockGet")
  /\ \/ /\ Goto(r, "unlockPut")
        /\ snap' = [snap EXCEPT ![r] = cr[req[r].user]]
        /\ UNCHANGED seenFirst
     \/ Goto(r, "session") /\ Keep
  /\ NoWrite /\ NoCookie

UnlockUpdate(r) ==
  /\ At(r, "unlockPut")
  /\ \E ok \in BOOLEAN :
       UpdateUserInfo(req[r].user, [snap[r] EXCEPT !.fails = {}], ok)
  /\ forgiven' = IF cr' = cr THEN forgiven ELSE forgiven \cup snap[r].fails
  /\ Goto(r, "session") /\ Keep /\ NoCookie

\* A login cookie that is still alive is kept; otherwise a new one is set.
SaveLoginState(r) ==
  /\ At(r, "session")
  /\ \/ req[r].cookie # Nil /\ Finish(r, "redirect") /\ NoCookie
     \/ /\ Finish(r, "redirect")
        /\ SetCookie(r, [user |-> req[r].user, first |-> seenFirst[r]])
     \/ Finish(r, "serviceDown") /\ NoCookie
  /\ NoWrite

-----------------------------------------------------------------------------
\* ConfirmPassword and ResetPassword up to savePassword.
ConfirmPassword(r) ==
  LET q == req[r]  c == cr[q.user] IN
  /\ At(r, "confirmGet")
  /\ \/ Verifies(q.new, c.pw) /\ Finish(r, "same")
     \/ c.pw = Malformed /\ Finish(r, "authFailed")
     \/ c.pw = Unset /\ Finish(r, "lost")
     \/ /\ c.pw \in Password \ {q.new}
        /\ IF <<q.user, q.new>> \in Weak THEN Finish(r, "weak")
                                         ELSE Goto(r, "saveGet") /\ Keep
     \/ Finish(r, "authFailed")              \* the read failed
  /\ NoWrite /\ NoCookie

\* Mutant: a reset does not check the complexity of the new password.
ResetUnchecked(r) ==
  LET q == req[r]  c == cr[q.user] IN
  /\ At(r, "resetGet")
  /\ \/ c.pw # q.old /\ Finish(r, "authFailed")
     \/ Verifies(q.old, c.pw) /\ Goto(r, "saveGet") /\ Keep
  /\ NoWrite /\ NoCookie

ResetPassword(r) ==
  LET q == req[r]  c == cr[q.user] IN
  /\ At(r, "resetGet")
  /\ \/ c.pw = Malformed /\ Finish(r, "authFailed")
     \/ c.pw = Unset /\ Finish(r, "lost")
     \/ c.pw \in Password \ {q.old} /\ Goto(r, "addGet") /\ Keep
     \/ /\ Verifies(q.old, c.pw)
        /\ IF <<q.user, q.new>> \in Weak THEN Finish(r, "weak")
                                         ELSE Goto(r, "saveGet") /\ Keep
     \/ Finish(r, "authFailed")              \* the read failed
  /\ NoWrite /\ NoCookie

\* savePassword reads the user again, then patches.
SavePassword(r) ==
  LET q == req[r]  c == cr[q.user] IN
  /\ At(r, "saveGet")
  /\ \/ q.op = "confirm" /\ ~ c.firstLogin /\ Finish(r, "notFirst")
     \/ (q.op = "confirm" => c.firstLogin) /\ Goto(r, "savePatch") /\ Keep
     \/ (q.op = "confirm" => c.firstLogin) /\ Finish(r, "serviceDown")
     \/ Finish(r, "authFailed")              \* the read failed
  /\ NoWrite /\ NoCookie

\* Mutant: a patch that fails is not noticed.
SavePasswordUnnoticed(r) ==
  /\ At(r, "savePatch")
  /\ \E ok \in BOOLEAN : PatchUserInfo(req[r].user, req[r].new, ok)
  /\ \/ req[r].op = "reset" /\ Finish(r, "resetOK")
     \/ req[r].op = "confirm" /\ Goto(r, "confirmSession") /\ Keep
  /\ UNCHANGED <<issued, forgiven>>

SavePasswordPatch(r) ==
  /\ At(r, "savePatch")
  /\ \E ok \in BOOLEAN :
       /\ PatchUserInfo(req[r].user, req[r].new, ok)
       /\ \/ ~ ok /\ Finish(r, "saveFailed")
          \/ ok /\ req[r].op = "reset" /\ Finish(r, "resetOK")
          \/ ok /\ req[r].op = "confirm" /\ Goto(r, "confirmSession") /\ Keep
  /\ UNCHANGED <<issued, forgiven>>

\* SetLoggedIn and Put; a cookie that cannot be stored is only logged.
ConfirmSession(r) ==
  /\ At(r, "confirmSession")
  /\ \/ SetCookie(r, [user |-> req[r].user, first |-> FALSE])
     \/ NoCookie
  /\ Finish(r, "redirect")
  /\ NoWrite

-----------------------------------------------------------------------------
\* The replica serving a request dies, or its connection does.
Crash(r) ==
  /\ pc[r] \notin {"new", "done"}
  /\ Finish(r, "lost")
  /\ NoWrite /\ NoCookie

Arrive(r) ==
  \/ ReceiveLogin(r) \/ ReceiveConfirm(r) \/ ConfirmWithoutCookie(r)
  \/ ReceiveReset(r) \/ Reject(r)

Step(r) ==
  \/ CheckLocked(r) \/ AuthenticatePassword(r)
  \/ AddFailedLogin(r) \/ AddFailedLoginUpdate(r) \/ AddFailedLoginRefetch(r)
  \/ Unlock(r) \/ UnlockUpdate(r) \/ SaveLoginState(r)
  \/ ConfirmPassword(r) \/ ResetPassword(r)
  \/ SavePassword(r) \/ SavePasswordPatch(r) \/ ConfirmSession(r)

Controller(u) ==
  \/ /\ Reconcile(u)
     /\ UNCHANGED <<local, answer, issued, forgiven>>
  \/ /\ LockExpires(u)
     /\ forgiven' = forgiven \cup cr[u].fails
     /\ UNCHANGED <<local, answer, issued>>

Next ==
  \/ \E r \in Attempt : Arrive(r) \/ Step(r) \/ Crash(r)
  \/ \E u \in User : Controller(u)

Spec == Init /\ [][Next]_vars

-----------------------------------------------------------------------------
(***************************************************************************)
(* The values every variable takes; in particular the count of attempts    *)
(* left that a client is told is never negative, however far the recorded  *)
(* failures overshoot the limit (userprotector.go, AddFailedLogin).        *)
(***************************************************************************)
TypeOK ==
  /\ StoreTypeOK
  /\ pc \in [Attempt -> Label]
  /\ req \in [Attempt -> Request \cup {Nil}]
  /\ snap \in [Attempt -> UserCR \cup {Nil}]
  /\ seenFirst \in [Attempt -> BOOLEAN]
  /\ answer \in [Attempt -> Answer]
  /\ issued \subseteq Cookie
  /\ forgiven \subseteq Attempt

(***************************************************************************)
(* A cookie that lets the browser pass the first-login page (first-login   *)
(* "false") exists only for users who no longer have their first password. *)
(* It must hold at all later times too, so no stale write may bring the    *)
(* FirstLogin of the resource back, and ConfirmPassword's cookie may only  *)
(* follow a patch that took effect.                                        *)
(***************************************************************************)
SessionAfterPasswordChange ==
  \A c \in issued : ~ c.first => ~ cr[c.user].firstLogin

(***************************************************************************)
(* A failure the client was told of ("n attempts left") stays on the       *)
(* user's record until a successful login that read it, or the end of the  *)
(* lock, removes it: no concurrent request of another replica loses it     *)
(* (userprotector.go, AddFailedLogin against Unlock).                      *)
(***************************************************************************)
Recorded == (UNION {cr[u].fails : u \in User}) \cup forgiven

CountedFailureKept ==
  \A r \in Attempt : answer[r].code = "wrongLeft" => r \in Recorded

(***************************************************************************)
(* The user resources behave as the abstract accounts of UserAccount.      *)
(***************************************************************************)
Account == INSTANCE UserAccount WITH
  password   <- [u \in User |-> cr[u].pw],
  firstLogin <- [u \in User |-> cr[u].firstLogin],
  failures   <- [u \in User |-> cr[u].fails],
  counted    <- Recorded

ImplementsAccount == Account!Spec

-----------------------------------------------------------------------------
(***************************************************************************)
(* The inductive invariant: what each label of a goroutine stands for.     *)
(***************************************************************************)
\* Outside the first and last label a goroutine has its request.
Serving == \A r \in Attempt : pc[r] \notin {"new", "done"} => req[r] # Nil

\* The resource about to be written back is outdated, and then the update
\* is refused, or exactly what is stored.
SnapshotsFresh ==
  \A r \in Attempt : pc[r] \in {"addPut", "unlockPut"} =>
    LET c == cr[req[r].user] IN
    /\ snap[r] # Nil
    /\ snap[r].rv <= c.rv
    /\ snap[r].rv = c.rv => snap[r] = c

\* Only a request that is past its update has a failure on record, and one
\* that goes on to read the count left has.
CountedOnce ==
  \A r \in Attempt :
    /\ r \in Recorded => pc[r] \in {"addReget", "done"}
    /\ pc[r] = "addReget" => r \in Recorded

\* A reset asks for a different password.  A password about to be saved is
\* acceptable, and as long as the user is at
\* the first login it differs from the stored one, however long ago
\* ConfirmPassword or ResetPassword compared them.
SavesRealChange ==
  \A r \in Attempt :
    /\ pc[r] = "resetGet" => req[r].old # req[r].new
    /\ pc[r] \in {"saveGet", "savePatch"} =>
         /\ <<req[r].user, req[r].new>> \notin Weak
         /\ cr[req[r].user].firstLogin => cr[req[r].user].pw # req[r].new

\* What a goroutine will put into a cookie is still true of the resource.
CookieToCome ==
  \A r \in Attempt :
    /\ pc[r] \in {"unlockGet", "unlockPut", "session"} /\ ~ seenFirst[r]
       => ~ cr[req[r].user].firstLogin
    /\ pc[r] = "confirmSession" => ~ cr[req[r].user].firstLogin

IInv ==
  /\ TypeOK
  /\ Serving
  /\ SnapshotsFresh
  /\ CountedOnce
  /\ CountedFailureKept
  /\ SavesRealChange
  /\ CookieToCome
  /\ SessionAfterPasswordChange

-----------------------------------------------------------------------------
(***************************************************************************)
(* What the comments and messages of the code say, and the code does not   *)
(* do: see the findings.                                                   *)
(***************************************************************************)
\* A user who has already changed the first password "cannot reconfirm it"
\* (authenticator.go, savePassword): no confirmation patches such a user.
ConfirmedOnce ==
  [][\A r \in Attempt :
       /\ At(r, "savePatch") /\ req[r].op = "confirm"
       /\ cr'[req[r].user].pw # cr[req[r].user].pw
       => cr[req[r].user].firstLogin]_vars

\* A confirmation refused for its redirect address, and told to log in
\* again from the home page, does not go on to store the password.
InvalidThenStoresNothing ==
  \A r \in Attempt : At(r, "savePatch") => answer[r].code # "invalidThen"

\* A client told "the user has been locked" (checkForUserBlocking) has a user
\* who reached the limit: FailTimes failures were recorded by then.
LockedAnswerMeansLimit ==
  [][\A r \in Attempt :
       answer[r].code = "none" /\ answer'[r].code = "wrongLocked"
       => Cardinality(Recorded) >= FailTimes]_vars
=============================================================================
