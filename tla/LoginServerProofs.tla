-------------------------- MODULE LoginServerProofs --------------------------
(***************************************************************************)
(* Proofs about LoginServer, for any users, passwords, number of requests  *)
(* and limit of failures.                                                  *)
(***************************************************************************)
EXTENDS LoginServer, FiniteSetTheorems, TLAPS

RequestStep(r) == Arrive(r) \/ Step(r) \/ Crash(r)

USE DEF At, Keep, NoWrite, NoCookie, Finish

-----------------------------------------------------------------------------
(***************************************************************************)
(* Typing of the pieces an action is made of.                              *)
(***************************************************************************)
\* A goroutine inside its handler has a request.
LEMMA ServesRequest ==
  ASSUME IInv, NEW r \in Attempt, pc[r] \notin {"new", "done"}
  PROVE  req[r] \in Request
BY DEF IInv, TypeOK, Serving

\* What the protector holds between its read and its update is a resource.
LEMMA HoldsResource ==
  ASSUME IInv, NEW r \in Attempt, pc[r] \in {"addPut", "unlockPut"}
  PROVE  snap[r] \in UserCR
BY DEF IInv, TypeOK, SnapshotsFresh

\* Leaving a handler keeps the locals and the answer well typed.
LEMMA FinishTyped ==
  ASSUME TypeOK, NEW r \in Attempt, NEW code \in Code, NEW left \in Nat,
         FinishLeft(r, code, left)
  PROVE  /\ pc' \in [Attempt -> Label]
         /\ req' \in [Attempt -> Request \cup {Nil}]
         /\ snap' \in [Attempt -> UserCR \cup {Nil}]
         /\ seenFirst' \in [Attempt -> BOOLEAN]
         /\ answer' \in [Attempt -> Answer]
<1>1. [code |-> code, left |-> left] \in Answer
  BY DEF Answer
<1>2. answer' \in [Attempt -> Answer]
  BY <1>1 DEF TypeOK, FinishLeft, Respond
<1>3. pc' \in [Attempt -> Label] /\ seenFirst' \in [Attempt -> BOOLEAN]
  BY DEF TypeOK, FinishLeft, Leave, Label
<1>4. /\ req' \in [Attempt -> Request \cup {Nil}]
      /\ snap' \in [Attempt -> UserCR \cup {Nil}]
  BY DEF TypeOK, FinishLeft, Leave
<1> QED BY <1>2, <1>3, <1>4

\* Going to the next call does too.
LEMMA GotoTyped ==
  ASSUME TypeOK, NEW r \in Attempt, NEW l \in Label, Goto(r, l)
  PROVE  /\ pc' \in [Attempt -> Label]
         /\ req' \in [Attempt -> Request \cup {Nil}]
         /\ answer' \in [Attempt -> Answer]
BY DEF TypeOK, Goto

\* An update sent by a protector, and a patch, keep the store well typed.
LEMMA UpdateTyped ==
  ASSUME StoreTypeOK, NEW u \in User, NEW obj \in UserCR, NEW ok,
         UpdateUserInfo(u, obj, ok)
  PROVE  StoreTypeOK'
<1>1. Written(u, obj) \in UserCR
  BY DEF Written, UserCR
<1> QED BY <1>1 DEF StoreTypeOK, UpdateUserInfo

LEMMA PatchTyped ==
  ASSUME StoreTypeOK, NEW u \in User, NEW p \in Password, NEW ok,
         PatchUserInfo(u, p, ok)
  PROVE  StoreTypeOK'
<1>1. cr[u] \in UserCR /\ p \in Encrypted
  BY DEF StoreTypeOK, Encrypted
<1>2. Patched(u, p) \in UserCR
  <2> DEFINE newer == [cr[u] EXCEPT !.rv = @ + 1]
             changed == [newer EXCEPT !.pw = p]
  <2>1. newer \in UserCR
    BY <1>1 DEF UserCR
  <2>2. changed \in UserCR
    <3> HIDE DEF newer
    <3> QED BY <1>1, <2>1 DEF UserCR
  <2>3. [changed EXCEPT !.firstLogin = FALSE] \in UserCR
    <3> HIDE DEF changed
    <3> QED BY <2>2 DEF UserCR
  <2>4. Patched(u, p) = [changed EXCEPT !.firstLogin = FALSE]
    BY <1>1 DEF Patched, UserCR
  <2> QED BY <2>3, <2>4
<1> QED BY <1>2 DEF StoreTypeOK, PatchUserInfo

\* The controller writes numbers: sets of attempts are finite.
LEMMA ControllerTyped ==
  ASSUME StoreTypeOK, NEW u \in User, Reconcile(u) \/ LockExpires(u)
  PROVE  StoreTypeOK'
<1>1. /\ cr[u] \in UserCR /\ cr[u].fails \subseteq Attempt
      /\ cr[u].rv + 1 \in Nat
  BY DEF StoreTypeOK, UserCR
<1>2. Cardinality(cr[u].fails) \in Nat
  BY <1>1, AttemptAssumption, FS_Subset, FS_CardinalityType
<1>3. RemainOf(cr[u].fails) \in Int /\ LockedBy(cr[u].fails) \in BOOLEAN
  BY <1>2, FailTimesAssumption DEF RemainOf, LockedBy
<1>4. CASE Reconcile(u)
  <2> DEFINE new == [cr[u] EXCEPT !.rv = @ + 1,
                                  !.locked = LockedBy(cr[u].fails),
                                  !.remain = RemainOf(cr[u].fails)]
  <2>1. new \in UserCR
    BY <1>1, <1>3 DEF UserCR
  <2>2. cr' = [cr EXCEPT ![u] = new]
    BY <1>4 DEF Reconcile
  <2> QED BY <2>1, <2>2 DEF StoreTypeOK
<1>5. CASE LockExpires(u)
  <2> DEFINE new == [cr[u] EXCEPT !.rv = @ + 1, !.fails = {},
                                  !.locked = FALSE, !.remain = FailTimes]
  <2>1. FailTimes \in Int /\ {} \in SUBSET Attempt
    BY FailTimesAssumption
  <2>2. new \in UserCR
    BY <1>1, <2>1 DEF UserCR
  <2>3. cr' = [cr EXCEPT ![u] = new]
    BY <1>5 DEF LockExpires
  <2> QED BY <2>2, <2>3 DEF StoreTypeOK
<1> QED BY <1>4, <1>5

-----------------------------------------------------------------------------
(***************************************************************************)
(* Every step of a request keeps the types.                                *)
(***************************************************************************)
\* A handler starts with the request it was sent.
LEMMA ReceiveTyped ==
  ASSUME TypeOK, NEW r \in Attempt, NEW q \in Request, NEW l \in Label,
         Receive(r, q, l), answer' \in [Attempt -> Answer]
  PROVE  TypeOK'
BY DEF TypeOK, StoreTypeOK, Receive

\* A step that leaves the handler and writes nothing.
LEMMA FinishOnlyTyped ==
  ASSUME TypeOK, NEW r \in Attempt, NEW code \in Code, NEW left \in Nat,
         FinishLeft(r, code, left), UNCHANGED <<cr, forgiven>>,
         issued' \subseteq Cookie
  PROVE  TypeOK'
BY FinishTyped DEF TypeOK, StoreTypeOK

\* A step that reads and goes on.
LEMMA GotoOnlyTyped ==
  ASSUME TypeOK, NEW r \in Attempt, NEW l \in Label, Goto(r, l),
         UNCHANGED <<cr, forgiven, issued>>,
         snap' \in [Attempt -> UserCR \cup {Nil}],
         seenFirst' \in [Attempt -> BOOLEAN]
  PROVE  TypeOK'
BY GotoTyped DEF TypeOK, StoreTypeOK

LEMMA SetCookieTyped ==
  ASSUME TypeOK, NEW r \in Attempt, NEW c \in Cookie, SetCookie(r, c)
  PROVE  issued' \subseteq Cookie
BY DEF TypeOK, SetCookie

LEMMA ArriveTyped ==
  ASSUME TypeOK, NEW r \in Attempt, Arrive(r)
  PROVE  TypeOK'
<1>1. CASE ReceiveLogin(r)
  <2>1. PICK u \in User, p \in Password, c \in issued \cup {Nil} :
          /\ Receive(r, [op |-> "login", user |-> u, old |-> p, new |-> p,
                         thenOk |-> TRUE, cookie |-> c], "checkLocked")
          /\ UNCHANGED answer
    BY <1>1 DEF ReceiveLogin
  <2>2. [op |-> "login", user |-> u, old |-> p, new |-> p,
         thenOk |-> TRUE, cookie |-> c] \in Request
    BY DEF TypeOK, Request, Operation
  <2> QED BY <2>1, <2>2, ReceiveTyped DEF TypeOK, Label
<1>2. CASE ReceiveConfirm(r)
  <2>1. PICK c \in issued, p \in Password, thenOk \in BOOLEAN :
          /\ Receive(r, [op |-> "confirm", user |-> c.user, old |-> p,
                         new |-> p, thenOk |-> thenOk, cookie |-> c],
                     "confirmGet")
          /\ IF thenOk THEN UNCHANGED answer ELSE Respond(r, "invalidThen", 0)
    BY <1>2 DEF ReceiveConfirm
  <2>2. c \in Cookie /\ c.user \in User
    BY DEF TypeOK, Cookie
  <2>3. [op |-> "confirm", user |-> c.user, old |-> p, new |-> p,
         thenOk |-> thenOk, cookie |-> c] \in Request
    BY <2>2 DEF Request, Operation
  <2>4. answer' \in [Attempt -> Answer]
    BY <2>1 DEF TypeOK, Respond, Answer, Code
  <2> QED BY <2>1, <2>3, <2>4, ReceiveTyped DEF Label
<1>3. CASE ReceiveReset(r)
  <2>1. PICK u \in User, old \in Password, new \in Password :
          IF old = new
          THEN Finish(r, "same") /\ NoWrite /\ NoCookie
          ELSE /\ Receive(r, [op |-> "reset", user |-> u, old |-> old,
                              new |-> new, thenOk |-> TRUE, cookie |-> Nil],
                          "resetGet")
               /\ UNCHANGED answer
    BY <1>3 DEF ReceiveReset
  <2>2. [op |-> "reset", user |-> u, old |-> old, new |-> new,
         thenOk |-> TRUE, cookie |-> Nil] \in Request
    BY DEF Request, Operation
  <2>3. CASE old = new
    BY <2>1, <2>3, FinishOnlyTyped DEF TypeOK, Code
  <2>4. CASE old # new
    BY <2>1, <2>2, <2>4, ReceiveTyped DEF TypeOK, Label
  <2> QED BY <2>3, <2>4
<1>4. CASE ConfirmWithoutCookie(r) \/ Reject(r)
  BY <1>4, FinishOnlyTyped DEF ConfirmWithoutCookie, Reject, TypeOK, Code
<1> QED BY <1>1, <1>2, <1>3, <1>4 DEF Arrive

LEMMA RequestStepTyped ==
  ASSUME IInv, NEW r \in Attempt, RequestStep(r)
  PROVE  TypeOK'
<1>0. TypeOK
  BY DEF IInv
<1>1. CASE Arrive(r)
  BY <1>0, <1>1, ArriveTyped
<1>2. CASE Crash(r)
  BY <1>0, <1>2, FinishOnlyTyped DEF Crash, TypeOK, Code
<1> SUFFICES ASSUME Step(r) PROVE TypeOK'
  BY <1>1, <1>2 DEF RequestStep
<1>3. req[r] \in Request /\ req[r].user \in User /\ req[r].new \in Password
  <2>1. pc[r] \notin {"new", "done"}
    BY DEF Step, CheckLocked, AuthenticatePassword, AddFailedLogin,
           AddFailedLoginUpdate, AddFailedLoginRefetch, Unlock, UnlockUpdate,
           SaveLoginState, ConfirmPassword, ResetPassword, SavePassword,
           SavePasswordPatch, ConfirmSession
  <2> QED BY <2>1, ServesRequest DEF Request
<1>4. cr[req[r].user] \in UserCR
  BY <1>0, <1>3 DEF TypeOK, StoreTypeOK
<1>5. CASE CheckLocked(r)
  BY <1>0, <1>5, FinishOnlyTyped, GotoOnlyTyped
  DEF CheckLocked, TypeOK, Code, Label
<1>6. CASE AuthenticatePassword(r)
  <2>1. cr[req[r].user].firstLogin \in BOOLEAN
    BY <1>4 DEF UserCR
  <2> QED BY <1>0, <1>6, <2>1, FinishOnlyTyped, GotoOnlyTyped
          DEF AuthenticatePassword, TypeOK, Code, Label
<1>7. CASE AddFailedLogin(r) \/ Unlock(r)
  BY <1>0, <1>4, <1>7, FinishOnlyTyped, GotoOnlyTyped
  DEF AddFailedLogin, Unlock, TypeOK, Code, Label
<1>8. CASE AddFailedLoginUpdate(r)
  <2>1. PICK ok \in BOOLEAN :
          /\ UpdateUserInfo(req[r].user,
                            [snap[r] EXCEPT !.fails = @ \cup {r}], ok)
          /\ IF ok THEN Goto(r, "addReget") /\ Keep
                   ELSE Finish(r, "wrongLocked")
    BY <1>8 DEF AddFailedLoginUpdate
  <2>2. snap[r] \in UserCR
    BY <1>8, HoldsResource DEF AddFailedLoginUpdate
  <2>3. [snap[r] EXCEPT !.fails = @ \cup {r}] \in UserCR
    BY <2>2 DEF UserCR
  <2>4. StoreTypeOK'
    BY <1>0, <1>3, <2>1, <2>3, UpdateTyped DEF TypeOK
  <2>5. UNCHANGED <<issued, forgiven>>
    BY <1>8 DEF AddFailedLoginUpdate
  <2>6. CASE ok
    BY <1>0, <2>1, <2>4, <2>5, <2>6, GotoTyped DEF TypeOK, Label
  <2>7. CASE ~ ok
    BY <1>0, <2>1, <2>4, <2>5, <2>7, FinishTyped DEF TypeOK, Code
  <2> QED BY <2>6, <2>7
<1>9. CASE AddFailedLoginRefetch(r)
  <2>1. cr[req[r].user].remain \in Int
    BY <1>4 DEF UserCR
  <2>2. Clamp(cr[req[r].user].remain) \in Nat
    BY <2>1 DEF Clamp
  <2> QED BY <1>0, <1>9, <2>2, FinishOnlyTyped
          DEF AddFailedLoginRefetch, TypeOK, Code
<1>10. CASE UnlockUpdate(r)
  <2>1. PICK ok \in BOOLEAN :
          UpdateUserInfo(req[r].user, [snap[r] EXCEPT !.fails = {}], ok)
    BY <1>10 DEF UnlockUpdate
  <2>2. snap[r] \in UserCR
    BY <1>10, HoldsResource DEF UnlockUpdate
  <2>3. [snap[r] EXCEPT !.fails = {}] \in UserCR /\ snap[r].fails \subseteq Attempt
    BY <2>2 DEF UserCR
  <2>4. StoreTypeOK'
    BY <1>0, <1>3, <2>1, <2>3, UpdateTyped DEF TypeOK
  <2>5. forgiven' \subseteq Attempt
    BY <1>0, <1>10, <2>3 DEF UnlockUpdate, TypeOK
  <2> QED BY <1>0, <1>10, <2>4, <2>5, GotoTyped
          DEF UnlockUpdate, TypeOK, Label
<1>11. CASE SaveLoginState(r)
  <2>1. [user |-> req[r].user, first |-> seenFirst[r]] \in Cookie
    BY <1>0, <1>3 DEF TypeOK, Cookie
  <2> QED BY <1>0, <1>11, <2>1, SetCookieTyped, FinishOnlyTyped
          DEF SaveLoginState, TypeOK, Code
<1>12. CASE ConfirmPassword(r) \/ ResetPassword(r)
  BY <1>0, <1>12, FinishOnlyTyped, GotoOnlyTyped
  DEF ConfirmPassword, ResetPassword, TypeOK, Code, Label
<1>13. CASE SavePassword(r)
  BY <1>0, <1>13, FinishOnlyTyped, GotoOnlyTyped
  DEF SavePassword, TypeOK, Code, Label
<1>14. CASE SavePasswordPatch(r)
  <2>1. PICK ok \in BOOLEAN :
          /\ PatchUserInfo(req[r].user, req[r].new, ok)
          /\ \/ Finish(r, "saveFailed")
             \/ Finish(r, "resetOK")
             \/ Goto(r, "confirmSession") /\ Keep
    BY <1>14 DEF SavePasswordPatch
  <2>2. StoreTypeOK'
    BY <1>0, <1>3, <2>1, PatchTyped DEF TypeOK
  <2>3. UNCHANGED <<issued, forgiven>>
    BY <1>14 DEF SavePasswordPatch
  <2>4. CASE Finish(r, "saveFailed") \/ Finish(r, "resetOK")
    BY <1>0, <2>2, <2>3, <2>4, FinishTyped DEF TypeOK, Code
  <2>5. CASE Goto(r, "confirmSession") /\ Keep
    BY <1>0, <2>2, <2>3, <2>5, GotoTyped DEF TypeOK, Label
  <2> QED BY <2>1, <2>4, <2>5
<1>15. CASE ConfirmSession(r)
  <2>1. [user |-> req[r].user, first |-> FALSE] \in Cookie
    BY <1>3 DEF Cookie
  <2> QED BY <1>0, <1>15, <2>1, SetCookieTyped, FinishOnlyTyped
          DEF ConfirmSession, TypeOK, Code
<1> QED BY <1>5, <1>6, <1>7, <1>8, <1>9, <1>10, <1>11, <1>12, <1>13, <1>14,
           <1>15 DEF Step

LEMMA NextTyped ==
  ASSUME IInv, [Next]_vars
  PROVE  TypeOK'
<1>1. CASE UNCHANGED vars
  BY <1>1 DEF vars, IInv, TypeOK, StoreTypeOK
<1>2. ASSUME NEW r \in Attempt, Arrive(r) \/ Step(r) \/ Crash(r)
      PROVE  TypeOK'
  BY <1>2, RequestStepTyped DEF RequestStep
<1>3. ASSUME NEW u \in User, Controller(u)
      PROVE  TypeOK'
  <2>1. StoreTypeOK'
    BY <1>3, ControllerTyped DEF IInv, TypeOK, Controller
  <2>2. cr[u].fails \subseteq Attempt
    BY DEF IInv, TypeOK, StoreTypeOK, UserCR
  <2> QED BY <1>3, <2>1, <2>2 DEF Controller, IInv, TypeOK, local
<1> QED BY <1>1, <1>2, <1>3 DEF Next

-----------------------------------------------------------------------------
(***************************************************************************)
(* What one step does to the stored resources.                             *)
(***************************************************************************)
\* A resource only moves forward: its version grows with every change, and
\* FirstLogin ends only, and with a new password.
Advances(u) ==
  /\ cr'[u].rv >= cr[u].rv
  /\ cr'[u].rv = cr[u].rv => cr'[u] = cr[u]
  /\ ~ cr[u].firstLogin => ~ cr'[u].firstLogin
  /\ cr'[u].firstLogin => cr'[u].pw = cr[u].pw

WithFails(c, F) == [c EXCEPT !.rv = @ + 1, !.fails = F]

\* The update of a protector takes effect on the very resource it read, or
\* not at all.
LEMMA UpdateEffect ==
  ASSUME IInv, NEW r \in Attempt, pc[r] \in {"addPut", "unlockPut"},
         NEW F \in SUBSET Attempt, NEW ok,
         UpdateUserInfo(req[r].user, [snap[r] EXCEPT !.fails = F], ok)
  PROVE  \/ UNCHANGED cr
         \/ /\ snap[r] = cr[req[r].user]
            /\ cr' = [cr EXCEPT ![req[r].user] =
                                   WithFails(cr[req[r].user], F)]
<1> DEFINE u == req[r].user
<1> DEFINE obj == [snap[r] EXCEPT !.fails = F]
<1>1. u \in User
  BY ServesRequest DEF Request
<1>2. snap[r] \in UserCR /\ cr[u] \in UserCR
  BY <1>1, HoldsResource DEF IInv, TypeOK, StoreTypeOK
<1>3. snap[r].rv = cr[u].rv => snap[r] = cr[u]
  BY DEF IInv, SnapshotsFresh
<1>4. obj.rv = snap[r].rv
  BY <1>2 DEF UserCR
<1>5. CASE UNCHANGED cr
  BY <1>5
<1>6. CASE obj.rv = cr[u].rv /\ cr' = [cr EXCEPT ![u] = Written(u, obj)]
  <2>1. snap[r] = cr[u]
    BY <1>3, <1>4, <1>6
  <2>2. CASE obj = cr[u]
    <3>1. cr' = [cr EXCEPT ![u] = cr[u]]
      BY <1>6, <2>2 DEF Written
    <3> QED BY <1>1, <3>1 DEF IInv, TypeOK, StoreTypeOK
  <2>3. CASE obj # cr[u]
    <3>1. Written(u, obj) = WithFails(cr[u], F)
      BY <1>2, <2>1, <2>3 DEF Written, WithFails, UserCR
    <3> QED BY <1>6, <2>1, <3>1
  <2> QED BY <2>2, <2>3
<1> QED BY <1>5, <1>6 DEF UpdateUserInfo

LEMMA WithFailsFields ==
  ASSUME NEW c \in UserCR, NEW F \in SUBSET Attempt
  PROVE  /\ WithFails(c, F).fails = F
         /\ WithFails(c, F).rv = c.rv + 1
         /\ WithFails(c, F).pw = c.pw
         /\ WithFails(c, F).firstLogin = c.firstLogin
BY DEF WithFails, UserCR

\* The failures on record, element by element.
LEMMA InRecorded ==
  ASSUME NEW a
  PROVE  /\ a \in Recorded
              <=> (\E u \in User : a \in cr[u].fails) \/ a \in forgiven
         /\ a \in Recorded'
              <=> (\E u \in User : a \in cr'[u].fails) \/ a \in forgiven'
BY DEF Recorded

(***************************************************************************)
(* Every step leaves the resources alone, or records the failure of the    *)
(* request taking it, or removes all failures of one user on purpose, or   *)
(* saves a password, or refreshes the status only.                         *)
(***************************************************************************)
SameStore == cr' = cr /\ forgiven' = forgiven

Records(r) ==
  /\ pc[r] = "addPut" /\ pc'[r] \in {"addReget", "done"}
  /\ cr' = [cr EXCEPT ![req[r].user] =
               WithFails(cr[req[r].user], cr[req[r].user].fails \cup {r})]
  /\ forgiven' = forgiven

Forgives(u) ==
  /\ u \in User
  /\ \A v \in User \ {u} : cr'[v] = cr[v]
  /\ cr'[u].fails = {} /\ cr'[u].rv = cr[u].rv + 1
  /\ cr'[u].pw = cr[u].pw /\ cr'[u].firstLogin = cr[u].firstLogin
  /\ forgiven' = forgiven \cup cr[u].fails

Saves(r) ==
  /\ pc[r] = "savePatch"
  /\ cr' = [cr EXCEPT ![req[r].user] = Patched(req[r].user, req[r].new)]
  /\ forgiven' = forgiven

Refreshes(u) ==
  /\ u \in User
  /\ \A v \in User \ {u} : cr'[v] = cr[v]
  /\ cr'[u].fails = cr[u].fails /\ cr'[u].rv = cr[u].rv + 1
  /\ cr'[u].pw = cr[u].pw /\ cr'[u].firstLogin = cr[u].firstLogin
  /\ forgiven' = forgiven

LEMMA RequestStoreStep ==
  ASSUME IInv, NEW r \in Attempt, RequestStep(r)
  PROVE  \/ SameStore
         \/ Records(r)
         \/ Forgives(req[r].user)
         \/ Saves(r)
<1>1. CASE Arrive(r)
  BY <1>1 DEF Arrive, ReceiveLogin, ReceiveConfirm, ConfirmWithoutCookie,
              ReceiveReset, Reject, Receive, SameStore
<1>2. CASE AddFailedLoginUpdate(r)
  <2>1. PICK ok \in BOOLEAN :
          UpdateUserInfo(req[r].user, [snap[r] EXCEPT !.fails = @ \cup {r}], ok)
    BY <1>2 DEF AddFailedLoginUpdate
  <2>2. snap[r] \in UserCR /\ req[r].user \in User
    BY <1>2, HoldsResource, ServesRequest DEF AddFailedLoginUpdate, Request
  <2>3. snap[r].fails \cup {r} \in SUBSET Attempt
    BY <2>2 DEF UserCR
  <2>4. pc[r] = "addPut" /\ pc'[r] \in {"addReget", "done"} /\ forgiven' = forgiven
    BY <1>2 DEF AddFailedLoginUpdate, IInv, TypeOK, Goto, FinishLeft, Leave
  <2> QED BY <2>1, <2>2, <2>3, <2>4, UpdateEffect DEF SameStore, Records
<1>3. CASE UnlockUpdate(r)
  <2> DEFINE u == req[r].user
  <2>1. PICK ok \in BOOLEAN :
          UpdateUserInfo(u, [snap[r] EXCEPT !.fails = {}], ok)
    BY <1>3 DEF UnlockUpdate
  <2>2. pc[r] = "unlockPut" /\ u \in User
    BY <1>3, ServesRequest DEF UnlockUpdate, Request
  <2>3. cr[u] \in UserCR
    BY <2>2 DEF IInv, TypeOK, StoreTypeOK
  <2>4. CASE UNCHANGED cr
    BY <1>3, <2>4 DEF UnlockUpdate, SameStore
  <2>5. CASE /\ snap[r] = cr[u]
             /\ cr' = [cr EXCEPT ![u] = WithFails(cr[u], {})]
    <3>1. cr'[u] = WithFails(cr[u], {}) /\ \A v \in User \ {u} : cr'[v] = cr[v]
      BY <2>2, <2>5 DEF IInv, TypeOK, StoreTypeOK
    <3>2. cr'[u].rv = cr[u].rv + 1 /\ cr[u].rv \in Nat
      BY <2>3, <3>1, WithFailsFields DEF UserCR
    <3>3. cr' # cr
      BY <3>2
    <3>4. forgiven' = forgiven \cup cr[u].fails
      BY <1>3, <2>5, <3>3 DEF UnlockUpdate
    <3> QED BY <2>2, <2>3, <3>1, <3>4, WithFailsFields DEF Forgives
  <2> QED BY <2>1, <2>2, <2>4, <2>5, UpdateEffect
<1>4. CASE SavePasswordPatch(r)
  BY <1>4 DEF SavePasswordPatch, PatchUserInfo, SameStore, Saves
<1>5. CASE \/ CheckLocked(r) \/ AuthenticatePassword(r) \/ AddFailedLogin(r)
           \/ AddFailedLoginRefetch(r) \/ Unlock(r) \/ SaveLoginState(r)
           \/ ConfirmPassword(r) \/ ResetPassword(r) \/ SavePassword(r)
           \/ ConfirmSession(r) \/ Crash(r)
  BY <1>5 DEF CheckLocked, AuthenticatePassword, AddFailedLogin,
              AddFailedLoginRefetch, Unlock, SaveLoginState, ConfirmPassword,
              ResetPassword, SavePassword, ConfirmSession, Crash, SameStore
<1> QED BY <1>1, <1>2, <1>3, <1>4, <1>5 DEF RequestStep, Step

LEMMA ControllerStoreStep ==
  ASSUME IInv, NEW u \in User, Controller(u)
  PROVE  Forgives(u) \/ Refreshes(u)
<1>1. cr[u] \in UserCR /\ cr \in [User -> UserCR]
  BY DEF IInv, TypeOK, StoreTypeOK
<1>2. CASE Reconcile(u) /\ UNCHANGED forgiven
  <2>1. cr' = [cr EXCEPT ![u] = [cr[u] EXCEPT !.rv = @ + 1,
                                   !.locked = LockedBy(cr[u].fails),
                                   !.remain = RemainOf(cr[u].fails)]]
    BY <1>2 DEF Reconcile
  <2> QED BY <1>1, <1>2, <2>1 DEF Refreshes, UserCR
<1>3. CASE LockExpires(u) /\ forgiven' = forgiven \cup cr[u].fails
  <2>1. cr' = [cr EXCEPT ![u] = [cr[u] EXCEPT !.rv = @ + 1, !.fails = {},
                                   !.locked = FALSE, !.remain = FailTimes]]
    BY <1>3 DEF LockExpires
  <2> QED BY <1>1, <1>3, <2>1 DEF Forgives, UserCR
<1> QED BY <1>2, <1>3 DEF Controller

LEMMA StoreStep ==
  ASSUME IInv, [Next]_vars
  PROVE  \/ SameStore
         \/ \E r \in Attempt : RequestStep(r) /\ (Records(r) \/ Saves(r))
         \/ \E u \in User : Forgives(u) \/ Refreshes(u)
<1>1. CASE UNCHANGED vars
  BY <1>1 DEF vars, SameStore
<1>2. ASSUME NEW r \in Attempt, Arrive(r) \/ Step(r) \/ Crash(r)
      PROVE  \/ SameStore
             \/ RequestStep(r) /\ (Records(r) \/ Saves(r))
             \/ \E u \in User : Forgives(u)
  BY <1>2, RequestStoreStep DEF RequestStep, Forgives
<1>3. ASSUME NEW u \in User, Controller(u)
      PROVE  Forgives(u) \/ Refreshes(u)
  BY <1>3, ControllerStoreStep
<1> QED BY <1>1, <1>2, <1>3 DEF Next

LEMMA StoreAdvances ==
  ASSUME IInv, [Next]_vars, NEW u \in User
  PROVE  Advances(u)
<1>1. cr[u] \in UserCR /\ cr[u].rv \in Nat /\ cr \in [User -> UserCR]
  BY DEF IInv, TypeOK, StoreTypeOK, UserCR
<1>2. CASE cr'[u] = cr[u]
  BY <1>1, <1>2 DEF Advances
<1>3. ASSUME NEW r \in Attempt, RequestStep(r), Records(r), req[r].user = u
      PROVE  Advances(u)
  <2>1. cr[u].fails \cup {r} \in SUBSET Attempt
    BY <1>1 DEF UserCR
  <2>2. cr'[u] = WithFails(cr[u], cr[u].fails \cup {r})
    BY <1>1, <1>3 DEF Records
  <2> QED BY <1>1, <2>1, <2>2, WithFailsFields DEF Advances
<1>4. ASSUME NEW r \in Attempt, Saves(r), req[r].user = u
      PROVE  Advances(u)
  <2>1. cr'[u] = Patched(u, req[r].new)
    BY <1>1, <1>4 DEF Saves
  <2>2. cr'[u].rv = cr[u].rv + 1 /\ ~ cr'[u].firstLogin
    BY <1>1, <2>1 DEF Patched, UserCR
  <2> QED BY <1>1, <2>2 DEF Advances
<1>5. CASE Forgives(u) \/ Refreshes(u)
  BY <1>1, <1>5 DEF Forgives, Refreshes, Advances
<1>6. ASSUME NEW r \in Attempt, Records(r) \/ Saves(r), req[r].user # u
      PROVE  cr'[u] = cr[u]
  BY <1>1, <1>6 DEF Records, Saves
<1>7. ASSUME NEW v \in User, Forgives(v) \/ Refreshes(v), v # u
      PROVE  cr'[u] = cr[u]
  BY <1>7 DEF Forgives, Refreshes
<1> QED BY <1>2, <1>3, <1>4, <1>5, <1>6, <1>7, StoreStep DEF SameStore

\* A saved password leaves the failures of every user as they are.
LEMMA SavesFails ==
  ASSUME IInv, NEW r \in Attempt, Saves(r)
  PROVE  \A u \in User : cr'[u].fails = cr[u].fails
<1>1. \A u \in User : cr[u] \in UserCR
  BY DEF IInv, TypeOK, StoreTypeOK
<1>2. \A u \in User : cr'[u] = IF u = req[r].user
                               THEN Patched(u, req[r].new) ELSE cr[u]
  BY DEF Saves, IInv, TypeOK, StoreTypeOK
<1> QED BY <1>1, <1>2 DEF Patched, UserCR

LEMMA RecordsFails ==
  ASSUME IInv, NEW r \in Attempt, Records(r)
  PROVE  /\ req[r].user \in User
         /\ cr'[req[r].user].fails = cr[req[r].user].fails \cup {r}
         /\ \A u \in User \ {req[r].user} : cr'[u] = cr[u]
<1> DEFINE u == req[r].user
<1>1. u \in User
  BY ServesRequest DEF Records, Request
<1>2. cr[u] \in UserCR /\ cr[u].fails \cup {r} \in SUBSET Attempt
  BY <1>1 DEF IInv, TypeOK, StoreTypeOK, UserCR
<1>3. cr'[u] = WithFails(cr[u], cr[u].fails \cup {r})
  BY <1>1 DEF Records, IInv, TypeOK, StoreTypeOK
<1>4. \A v \in User \ {u} : cr'[v] = cr[v]
  BY DEF Records, IInv, TypeOK, StoreTypeOK
<1> QED BY <1>1, <1>2, <1>3, <1>4, WithFailsFields

\* The record of failures changes only by the failure of one request, which
\* that request's update adds.
LEMMA RecordedBy ==
  ASSUME IInv
  PROVE  /\ SameStore => Recorded' = Recorded
         /\ \A r \in Attempt : Records(r) => Recorded' = Recorded \cup {r}
         /\ \A r \in Attempt : Saves(r) => Recorded' = Recorded
         /\ \A u \in User :
              Forgives(u) \/ Refreshes(u) => Recorded' = Recorded
<1>1. ASSUME SameStore
      PROVE  Recorded' = Recorded
  BY <1>1 DEF SameStore, Recorded
<1>2. ASSUME NEW r \in Attempt, Records(r)
      PROVE  Recorded' = Recorded \cup {r}
  <2>1. ASSUME NEW a
        PROVE  a \in Recorded' <=> a \in Recorded \/ a = r
    <3> DEFINE u == req[r].user
    <3>1. /\ u \in User /\ cr'[u].fails = cr[u].fails \cup {r}
          /\ \A v \in User \ {u} : cr'[v] = cr[v]
      BY <1>2, RecordsFails
    <3>2. forgiven' = forgiven
      BY <1>2 DEF Records
    <3>3. (\E v \in User : a \in cr'[v].fails)
             <=> (\E v \in User : a \in cr[v].fails) \/ a = r
      BY <3>1
    <3> QED BY <3>2, <3>3, InRecorded
  <2> QED BY <2>1
<1>3. ASSUME NEW r \in Attempt, Saves(r)
      PROVE  Recorded' = Recorded
  <2>1. ASSUME NEW a
        PROVE  a \in Recorded' <=> a \in Recorded
    <3>1. \A u \in User : cr'[u].fails = cr[u].fails
      BY <1>3, SavesFails
    <3>2. forgiven' = forgiven
      BY <1>3 DEF Saves
    <3> QED BY <3>1, <3>2, InRecorded
  <2> QED BY <2>1
<1>4. ASSUME NEW u \in User, Forgives(u) \/ Refreshes(u)
      PROVE  Recorded' = Recorded
  <2>1. ASSUME NEW a
        PROVE  a \in Recorded' <=> a \in Recorded
    BY <1>4, InRecorded DEF Forgives, Refreshes
  <2> QED BY <2>1
<1> QED BY <1>1, <1>2, <1>3, <1>4

LEMMA RecordedStep ==
  ASSUME IInv, [Next]_vars
  PROVE  \/ Recorded' = Recorded
         \/ \E r \in Attempt : Records(r) /\ Recorded' = Recorded \cup {r}
BY StoreStep, RecordedBy

-----------------------------------------------------------------------------
(***************************************************************************)
(* A step of one request leaves the locals of the others alone.            *)
(***************************************************************************)
SameLocals(s) ==
  /\ pc'[s] = pc[s] /\ req'[s] = req[s] /\ snap'[s] = snap[s]
  /\ seenFirst'[s] = seenFirst[s] /\ answer'[s] = answer[s]

LEMMA OthersStay ==
  ASSUME IInv, NEW r \in Attempt, RequestStep(r), NEW s \in Attempt \ {r}
  PROVE  SameLocals(s)
<1>0. TypeOK
  BY DEF IInv
<1>1. ASSUME NEW code, NEW left, FinishLeft(r, code, left)
      PROVE  SameLocals(s)
  BY <1>0, <1>1 DEF FinishLeft, Leave, Respond, TypeOK, SameLocals
<1>2. ASSUME NEW l, Goto(r, l)
      PROVE  pc'[s] = pc[s] /\ req'[s] = req[s] /\ answer'[s] = answer[s]
  BY <1>0, <1>2 DEF Goto, TypeOK
<1>3. CASE Arrive(r)
  BY <1>0, <1>1, <1>3
  DEF Arrive, ReceiveLogin, ReceiveConfirm, ConfirmWithoutCookie, ReceiveReset,
      Reject, Receive, Respond, TypeOK, SameLocals
<1>4. CASE \/ CheckLocked(r) \/ AddFailedLoginUpdate(r)
           \/ AddFailedLoginRefetch(r) \/ UnlockUpdate(r) \/ SaveLoginState(r)
           \/ ConfirmPassword(r) \/ ResetPassword(r) \/ Crash(r)
  BY <1>1, <1>2, <1>4
  DEF CheckLocked, AddFailedLoginUpdate, AddFailedLoginRefetch, UnlockUpdate,
      SaveLoginState, ConfirmPassword, ResetPassword, Crash, SameLocals
<1>5. CASE SavePassword(r) \/ SavePasswordPatch(r) \/ ConfirmSession(r)
  BY <1>1, <1>2, <1>5
  DEF SavePassword, SavePasswordPatch, ConfirmSession, SameLocals
<1>6. CASE AuthenticatePassword(r) \/ AddFailedLogin(r) \/ Unlock(r)
  BY <1>0, <1>1, <1>2, <1>6
  DEF AuthenticatePassword, AddFailedLogin, Unlock, TypeOK, SameLocals
<1> QED BY <1>3, <1>4, <1>5, <1>6 DEF RequestStep, Step

LEMMA ControllerLocals ==
  ASSUME NEW u \in User, Controller(u), NEW s \in Attempt
  PROVE  SameLocals(s) /\ issued' = issued
BY DEF Controller, local, SameLocals

-----------------------------------------------------------------------------
(***************************************************************************)
(* What the request that takes a step does to its own locals.              *)
(***************************************************************************)
Edges ==
  {<<"checkLocked", "authenticate">>, <<"authenticate", "unlockGet">>,
   <<"authenticate", "addGet">>, <<"addGet", "addPut">>,
   <<"addPut", "addReget">>, <<"unlockGet", "unlockPut">>,
   <<"unlockGet", "session">>, <<"unlockPut", "session">>,
   <<"confirmGet", "saveGet">>, <<"resetGet", "addGet">>,
   <<"resetGet", "saveGet">>, <<"saveGet", "savePatch">>,
   <<"savePatch", "confirmSession">>}

LEMMA OwnStep ==
  ASSUME IInv, NEW r \in Attempt, RequestStep(r)
  PROVE  /\ pc[r] # "done"
         /\ \/ pc'[r] = "done"
            \/ /\ pc[r] = "new" /\ req'[r] \in Request
               /\ pc'[r] \in {"checkLocked", "confirmGet", "resetGet"}
               /\ pc'[r] = "resetGet" => req'[r].old # req'[r].new
            \/ /\ <<pc[r], pc'[r]>> \in Edges /\ req'[r] = req[r]
               /\ req[r] \in Request
<1>0. TypeOK
  BY DEF IInv
<1>1. ASSUME NEW code, NEW left, FinishLeft(r, code, left)
      PROVE  pc'[r] = "done"
  BY <1>0, <1>1 DEF FinishLeft, Leave, TypeOK
<1>2. ASSUME NEW l, Goto(r, l)
      PROVE  pc'[r] = l /\ req'[r] = req[r]
  BY <1>0, <1>2 DEF Goto, TypeOK
<1>3. CASE Arrive(r)
  <2>1. ASSUME NEW q \in Request, NEW l, Receive(r, q, l)
        PROVE  pc[r] = "new" /\ pc'[r] = l /\ req'[r] = q
    BY <1>0, <2>1 DEF Receive, TypeOK
  <2>2. CASE ReceiveLogin(r)
    <3>1. PICK u \in User, p \in Password, c \in issued \cup {Nil} :
            Receive(r, [op |-> "login", user |-> u, old |-> p, new |-> p,
                        thenOk |-> TRUE, cookie |-> c], "checkLocked")
      BY <2>2 DEF ReceiveLogin
    <3>2. [op |-> "login", user |-> u, old |-> p, new |-> p,
           thenOk |-> TRUE, cookie |-> c] \in Request
      BY <1>0 DEF TypeOK, Request, Operation
    <3> QED BY <2>1, <3>1, <3>2
  <2>3. CASE ReceiveConfirm(r)
    <3>1. PICK c \in issued, p \in Password, thenOk \in BOOLEAN :
            Receive(r, [op |-> "confirm", user |-> c.user, old |-> p,
                        new |-> p, thenOk |-> thenOk, cookie |-> c],
                    "confirmGet")
      BY <2>3 DEF ReceiveConfirm
    <3>2. c \in Cookie /\ c.user \in User
      BY <1>0 DEF TypeOK, Cookie
    <3>3. [op |-> "confirm", user |-> c.user, old |-> p, new |-> p,
           thenOk |-> thenOk, cookie |-> c] \in Request
      BY <3>2 DEF Request, Operation
    <3> QED BY <2>1, <3>1, <3>3
  <2>4. CASE ReceiveReset(r)
    <3>1. PICK u \in User, old \in Password, new \in Password :
            IF old = new
            THEN pc[r] = "new" /\ Finish(r, "same")
            ELSE Receive(r, [op |-> "reset", user |-> u, old |-> old,
                             new |-> new, thenOk |-> TRUE, cookie |-> Nil],
                         "resetGet")
      BY <2>4 DEF ReceiveReset
    <3>2. [op |-> "reset", user |-> u, old |-> old, new |-> new,
           thenOk |-> TRUE, cookie |-> Nil] \in Request
      BY DEF Request, Operation
    <3> QED BY <1>1, <2>1, <3>1, <3>2
  <2>5. CASE ConfirmWithoutCookie(r) \/ Reject(r)
    BY <1>1, <2>5 DEF ConfirmWithoutCookie, Reject
  <2> QED BY <1>3, <2>2, <2>3, <2>4, <2>5 DEF Arrive
<1>4. CASE Crash(r)
  BY <1>1, <1>4 DEF Crash
<1> SUFFICES ASSUME Step(r)
             PROVE  /\ pc[r] \notin {"new", "done"}
                    /\ \/ pc'[r] = "done"
                       \/ <<pc[r], pc'[r]>> \in Edges /\ req'[r] = req[r]
  BY <1>3, <1>4, ServesRequest DEF RequestStep
<1>5. CASE \/ CheckLocked(r) \/ AuthenticatePassword(r) \/ AddFailedLogin(r)
           \/ AddFailedLoginUpdate(r) \/ AddFailedLoginRefetch(r)
  BY <1>1, <1>2, <1>5
  DEF CheckLocked, AuthenticatePassword, AddFailedLogin, AddFailedLoginUpdate,
      AddFailedLoginRefetch, Edges
<1>6. CASE Unlock(r) \/ UnlockUpdate(r) \/ SaveLoginState(r)
  BY <1>1, <1>2, <1>6 DEF Unlock, UnlockUpdate, SaveLoginState, Edges
<1>7. CASE ConfirmPassword(r) \/ ResetPassword(r)
  BY <1>1, <1>2, <1>7 DEF ConfirmPassword, ResetPassword, Edges
<1>8. CASE SavePassword(r) \/ SavePasswordPatch(r) \/ ConfirmSession(r)
  BY <1>1, <1>2, <1>8
  DEF SavePassword, SavePasswordPatch, ConfirmSession, Edges
<1> QED BY <1>5, <1>6, <1>7, <1>8 DEF Step

(***************************************************************************)
(* The rest of the invariant, conjunct by conjunct.                        *)
(***************************************************************************)
\* Inside a handler the label names the only action that goes on from it.
LEMMA StepAt ==
  ASSUME IInv, NEW r \in Attempt, RequestStep(r), <<pc[r], pc'[r]>> \in Edges
  PROVE  /\ pc[r] = "addGet" => AddFailedLogin(r)
         /\ pc[r] = "addPut" => AddFailedLoginUpdate(r)
         /\ pc[r] = "unlockGet" => Unlock(r)
         /\ pc[r] = "unlockPut" => UnlockUpdate(r)
         /\ pc[r] = "authenticate" => AuthenticatePassword(r)
         /\ pc[r] = "confirmGet" => ConfirmPassword(r)
         /\ pc[r] = "resetGet" => ResetPassword(r)
         /\ pc[r] = "saveGet" => SavePassword(r)
         /\ pc[r] = "savePatch" => SavePasswordPatch(r)
<1>1. pc[r] \notin {"new", "done"} /\ pc'[r] # "done"
  BY DEF Edges
<1>2. ~ Arrive(r)
  BY <1>1 DEF Arrive, ReceiveLogin, ReceiveConfirm, ConfirmWithoutCookie,
              ReceiveReset, Receive, Reject
<1>3. ~ Crash(r)
  BY <1>1 DEF Crash, FinishLeft, Leave, IInv, TypeOK
<1>4. Step(r)
  BY <1>2, <1>3 DEF RequestStep
<1> QED
  BY <1>4 DEF Step, CheckLocked, AuthenticatePassword, AddFailedLogin,
     AddFailedLoginUpdate, AddFailedLoginRefetch, Unlock, UnlockUpdate,
     SaveLoginState, ConfirmPassword, ResetPassword, SavePassword,
     SavePasswordPatch, ConfirmSession

LEMMA WhoSteps ==
  ASSUME IInv, [Next]_vars, NEW s \in Attempt
  PROVE  SameLocals(s) \/ RequestStep(s)
BY OthersStay, ControllerLocals DEF Next, RequestStep, vars, SameLocals

LEMMA ServingStep ==
  ASSUME IInv, [Next]_vars
  PROVE  Serving'
<1> SUFFICES ASSUME NEW s \in Attempt, pc'[s] \notin {"new", "done"}
             PROVE  req'[s] # Nil
  BY DEF Serving
<1>1. CASE SameLocals(s)
  BY <1>1 DEF SameLocals, IInv, Serving
<1>2. CASE RequestStep(s)
  BY <1>2, OwnStep, NilAssumption
<1> QED BY <1>1, <1>2, WhoSteps

LEMMA SnapshotsStep ==
  ASSUME IInv, [Next]_vars
  PROVE  SnapshotsFresh'
<1> SUFFICES ASSUME NEW s \in Attempt, pc'[s] \in {"addPut", "unlockPut"}
             PROVE  /\ snap'[s] # Nil
                    /\ snap'[s].rv <= cr'[req'[s].user].rv
                    /\ snap'[s].rv = cr'[req'[s].user].rv
                         => snap'[s] = cr'[req'[s].user]
  BY DEF SnapshotsFresh
<1>1. CASE SameLocals(s)
  <2> DEFINE u == req[s].user
  <2>1. pc[s] \in {"addPut", "unlockPut"} /\ req'[s] = req[s] /\ snap'[s] = snap[s]
    BY <1>1 DEF SameLocals
  <2>2. u \in User
    BY <2>1, ServesRequest DEF Request
  <2>3. snap[s] # Nil /\ snap[s].rv <= cr[u].rv
        /\ (snap[s].rv = cr[u].rv => snap[s] = cr[u])
    BY <2>1 DEF IInv, SnapshotsFresh
  <2>4. snap[s].rv \in Nat /\ cr[u].rv \in Nat
    BY <2>1, <2>2, HoldsResource DEF IInv, TypeOK, StoreTypeOK, UserCR
  <2>5. cr'[u].rv \in Nat
    BY <2>2, NextTyped DEF TypeOK, StoreTypeOK, UserCR
  <2>6. cr'[u].rv >= cr[u].rv /\ (cr'[u].rv = cr[u].rv => cr'[u] = cr[u])
    BY <2>2, StoreAdvances DEF Advances
  <2> QED BY <2>1, <2>3, <2>4, <2>5, <2>6
<1>2. CASE RequestStep(s)
  <2>1. <<pc[s], pc'[s]>> \in Edges /\ req'[s] = req[s] /\ req[s] \in Request
    BY <1>2, OwnStep
  <2>2. pc[s] \in {"addGet", "unlockGet"}
    BY <2>1 DEF Edges
  <2>3. AddFailedLogin(s) \/ Unlock(s)
    BY <1>2, <2>1, <2>2, StepAt
  <2>4. snap'[s] = cr[req[s].user] /\ cr' = cr
    BY <1>2, <2>3
    DEF AddFailedLogin, Unlock, Goto, FinishLeft, Leave, IInv, TypeOK
  <2>5. cr[req[s].user] \in UserCR
    BY <2>1 DEF IInv, TypeOK, StoreTypeOK, Request
  <2> QED BY <2>1, <2>4, <2>5, NilAssumption DEF UserCR
<1> QED BY <1>1, <1>2, WhoSteps

LEMMA CountedOnceStep ==
  ASSUME IInv, [Next]_vars
  PROVE  CountedOnce'
<1> SUFFICES ASSUME NEW s \in Attempt
             PROVE  /\ s \in Recorded' => pc'[s] \in {"addReget", "done"}
                    /\ pc'[s] = "addReget" => s \in Recorded'
  BY DEF CountedOnce
<1>1. /\ s \in Recorded => pc[s] \in {"addReget", "done"}
      /\ pc[s] = "addReget" => s \in Recorded
  BY DEF IInv, CountedOnce
<1>2. s \in Recorded => s \in Recorded'
  BY RecordedStep
<1>3. ASSUME s \in Recorded'
      PROVE  pc'[s] \in {"addReget", "done"}
  <2>1. CASE s \notin Recorded
    BY <1>3, <2>1, RecordedStep DEF Records
  <2>2. CASE s \in Recorded /\ SameLocals(s)
    BY <1>1, <2>2 DEF SameLocals
  <2>3. CASE s \in Recorded /\ RequestStep(s)
    BY <1>1, <2>3, OwnStep DEF Edges
  <2> QED BY <2>1, <2>2, <2>3, WhoSteps
<1>4. ASSUME pc'[s] = "addReget"
      PROVE  s \in Recorded'
  <2>1. CASE SameLocals(s)
    BY <1>1, <1>2, <1>4, <2>1 DEF SameLocals
  <2>2. CASE RequestStep(s)
    <3> DEFINE u == req[s].user
               obj == [snap[s] EXCEPT !.fails = @ \cup {s}]
    <3>1. <<pc[s], pc'[s]>> \in Edges /\ pc[s] = "addPut"
      BY <1>4, <2>2, OwnStep DEF Edges
    <3>2. AddFailedLoginUpdate(s)
      BY <2>2, <3>1, StepAt
    <3>3. u \in User /\ snap[s] \in UserCR
      BY <3>1, ServesRequest, HoldsResource DEF Request
    <3>4. UpdateUserInfo(u, obj, TRUE)
      BY <1>4, <3>2
      DEF AddFailedLoginUpdate, FinishLeft, Leave, IInv, TypeOK
    <3>5. cr'[u] = Written(u, obj)
      BY <3>3, <3>4 DEF UpdateUserInfo, IInv, TypeOK, StoreTypeOK
    <3>6. Written(u, obj).fails = obj.fails /\ obj.fails = snap[s].fails \cup {s}
      BY <3>3 DEF Written, UserCR
    <3> QED BY <3>3, <3>5, <3>6, InRecorded
  <2> QED BY <2>1, <2>2, WhoSteps
<1> QED BY <1>3, <1>4

\* Only the request that has read the count left is told it.
LEMMA WrongLeftAnswer ==
  ASSUME IInv, [Next]_vars, NEW s \in Attempt, answer'[s].code = "wrongLeft"
  PROVE  answer[s].code = "wrongLeft" \/ pc[s] = "addReget"
<1>0. TypeOK
  BY DEF IInv
<1>1. ASSUME NEW code, NEW left, FinishLeft(s, code, left)
      PROVE  answer'[s].code \in {answer[s].code, code}
  BY <1>0, <1>1 DEF FinishLeft, Respond, TypeOK
<1>2. ASSUME NEW l, Goto(s, l)
      PROVE  answer'[s] = answer[s]
  BY <1>2 DEF Goto
<1>3. CASE SameLocals(s)
  BY <1>3 DEF SameLocals
<1>4. CASE Arrive(s)
  <2>1. ASSUME Respond(s, "invalidThen", 0)
        PROVE  answer'[s].code \in {answer[s].code, "invalidThen"}
    BY <1>0, <2>1 DEF Respond, TypeOK
  <2>2. CASE ReceiveLogin(s)
    BY <2>2 DEF ReceiveLogin
  <2>3. CASE ReceiveConfirm(s)
    BY <2>1, <2>3 DEF ReceiveConfirm
  <2>4. CASE ReceiveReset(s)
    BY <1>1, <2>4 DEF ReceiveReset
  <2>5. CASE ConfirmWithoutCookie(s) \/ Reject(s)
    BY <1>1, <2>5 DEF ConfirmWithoutCookie, Reject
  <2> QED BY <1>4, <2>2, <2>3, <2>4, <2>5 DEF Arrive
<1>5. CASE \/ CheckLocked(s) \/ AuthenticatePassword(s) \/ AddFailedLogin(s)
           \/ AddFailedLoginUpdate(s) \/ Unlock(s) \/ UnlockUpdate(s)
           \/ SaveLoginState(s) \/ Crash(s)
  BY <1>1, <1>2, <1>5
  DEF CheckLocked, AuthenticatePassword, AddFailedLogin, AddFailedLoginUpdate,
      Unlock, UnlockUpdate, SaveLoginState, Crash
<1>6. CASE \/ ConfirmPassword(s) \/ ResetPassword(s) \/ SavePassword(s)
           \/ SavePasswordPatch(s) \/ ConfirmSession(s)
  BY <1>1, <1>2, <1>6
  DEF ConfirmPassword, ResetPassword, SavePassword, SavePasswordPatch,
      ConfirmSession
<1>7. CASE AddFailedLoginRefetch(s)
  BY <1>7 DEF AddFailedLoginRefetch
<1> QED BY <1>3, <1>4, <1>5, <1>6, <1>7, WhoSteps DEF RequestStep, Step

LEMMA CountedFailureStep ==
  ASSUME IInv, [Next]_vars
  PROVE  CountedFailureKept'
<1> SUFFICES ASSUME NEW s \in Attempt, answer'[s].code = "wrongLeft"
             PROVE  s \in Recorded'
  BY DEF CountedFailureKept
<1>1. s \in Recorded
  BY WrongLeftAnswer DEF IInv, CountedFailureKept, CountedOnce
<1> QED BY <1>1, RecordedStep

LEMMA SavesStep ==
  ASSUME IInv, [Next]_vars
  PROVE  SavesRealChange'
<1> SUFFICES ASSUME NEW s \in Attempt
             PROVE  /\ pc'[s] = "resetGet" => req'[s].old # req'[s].new
                    /\ pc'[s] \in {"saveGet", "savePatch"} =>
                         /\ <<req'[s].user, req'[s].new>> \notin Weak
                         /\ cr'[req'[s].user].firstLogin
                              => cr'[req'[s].user].pw # req'[s].new
  BY DEF SavesRealChange
<1>1. CASE SameLocals(s) /\ pc[s] \in {"resetGet", "saveGet", "savePatch"}
  <2>1. req[s].user \in User
    BY <1>1, ServesRequest DEF Request
  <2>2. Advances(req[s].user)
    BY <2>1, StoreAdvances
  <2>3. cr[req[s].user].firstLogin \in BOOLEAN
    BY <2>1 DEF IInv, TypeOK, StoreTypeOK, UserCR
  <2>4. cr'[req[s].user].firstLogin
          => /\ cr[req[s].user].firstLogin
             /\ cr'[req[s].user].pw = cr[req[s].user].pw
    BY <2>2, <2>3 DEF Advances
  <2>5. pc'[s] = pc[s] /\ req'[s] = req[s]
    BY <1>1 DEF SameLocals
  <2> QED BY <2>4, <2>5 DEF IInv, SavesRealChange
<1>2. CASE SameLocals(s) /\ pc[s] \notin {"resetGet", "saveGet", "savePatch"}
  BY <1>2 DEF SameLocals
<1>3. CASE RequestStep(s) /\ pc'[s] \in {"saveGet", "savePatch"}
  <2> DEFINE u == req[s].user
  <2>1. <<pc[s], pc'[s]>> \in Edges /\ req'[s] = req[s] /\ req[s] \in Request
    BY <1>3, OwnStep
  <2>2. pc[s] \in {"confirmGet", "resetGet", "saveGet"}
    BY <1>3, <2>1 DEF Edges
  <2>3. ConfirmPassword(s) \/ ResetPassword(s) \/ SavePassword(s)
    BY <1>3, <2>1, <2>2, StepAt
  <2>4. cr' = cr
    BY <2>3 DEF ConfirmPassword, ResetPassword, SavePassword
  <2>5. ASSUME NEW code, NEW left, FinishLeft(s, code, left)
        PROVE  FALSE
    BY <1>3, <2>5 DEF FinishLeft, Leave, IInv, TypeOK
  <2>6. /\ <<u, req[s].new>> \notin Weak
        /\ cr[u].firstLogin => cr[u].pw # req[s].new
    <3>1. CASE ConfirmPassword(s)
      BY <2>5, <3>1 DEF ConfirmPassword
    <3>2. CASE ResetPassword(s)
      <4>1. req[s].old # req[s].new
        BY <3>2 DEF ResetPassword, IInv, SavesRealChange
      <4>2. pc'[s] # "addGet"
        BY <1>3
      <4>3. ~ Goto(s, "addGet")
        BY <4>2 DEF Goto, IInv, TypeOK
      <4> QED BY <2>5, <3>2, <4>1, <4>3 DEF ResetPassword, Verifies
    <3>3. CASE SavePassword(s)
      BY <3>3 DEF SavePassword, IInv, SavesRealChange
    <3> QED BY <2>3, <3>1, <3>2, <3>3
  <2> QED BY <1>3, <2>1, <2>4, <2>6
<1>4. CASE RequestStep(s) /\ pc'[s] \notin {"saveGet", "savePatch"}
  BY <1>4, OwnStep DEF Edges
<1> QED BY <1>1, <1>2, <1>3, <1>4, WhoSteps

LEMMA CookieToComeStep ==
  ASSUME IInv, [Next]_vars
  PROVE  CookieToCome'
<1> SUFFICES ASSUME NEW s \in Attempt,
                    \/ pc'[s] \in {"unlockGet", "unlockPut", "session"}
                       /\ ~ seenFirst'[s]
                    \/ pc'[s] = "confirmSession"
             PROVE  ~ cr'[req'[s].user].firstLogin
  BY DEF CookieToCome
<1>1. pc[s] \notin {"new", "done"} /\ req'[s] = req[s] /\ req[s] \in Request
  <2>1. CASE SameLocals(s)
    BY <2>1, ServesRequest DEF SameLocals
  <2>2. CASE RequestStep(s)
    BY <2>2, OwnStep DEF Edges
  <2> QED BY <2>1, <2>2, WhoSteps
<1> DEFINE u == req[s].user
<1>2. u \in User
  BY <1>1 DEF Request
<1>3. ~ cr[u].firstLogin => ~ cr'[u].firstLogin
  BY <1>2, StoreAdvances DEF Advances
<1>4. CASE SameLocals(s)
  BY <1>1, <1>3, <1>4 DEF SameLocals, IInv, CookieToCome
<1>5. CASE RequestStep(s)
  <2>1. <<pc[s], pc'[s]>> \in Edges
    BY <1>1, <1>5, OwnStep
  <2>2. CASE pc[s] = "authenticate"
    <3>1. AuthenticatePassword(s) /\ pc'[s] = "unlockGet"
      BY <1>5, <2>1, <2>2, StepAt DEF Edges
    <3>2. seenFirst' = [seenFirst EXCEPT ![s] = cr[u].firstLogin]
      BY <3>1 DEF AuthenticatePassword, Goto, FinishLeft, Leave, IInv, TypeOK
    <3>3. ~ cr[u].firstLogin
      BY <2>2, <3>1, <3>2 DEF IInv, TypeOK
    <3> QED BY <1>1, <1>3, <3>3
  <2>3. CASE pc[s] \in {"unlockGet", "unlockPut"}
    <3>1. Unlock(s) \/ UnlockUpdate(s)
      <4>1. CASE pc[s] = "unlockGet"
        BY <1>5, <2>1, <4>1, StepAt
      <4>2. CASE pc[s] = "unlockPut"
        BY <1>5, <2>1, <4>2, StepAt
      <4> QED BY <2>3, <4>1, <4>2
    <3>2. seenFirst'[s] = seenFirst[s]
      <4>1. ~ FinishLeft(s, "none", 0)
        BY <2>1 DEF FinishLeft, Leave, Edges, IInv, TypeOK
      <4> QED BY <3>1 DEF Unlock, UnlockUpdate
    <3>3. pc'[s] \in {"unlockPut", "session"}
      BY <2>1, <2>3 DEF Edges
    <3> QED BY <1>1, <1>3, <2>3, <3>2, <3>3 DEF IInv, CookieToCome
  <2>4. CASE pc[s] = "savePatch"
    <3>1. SavePasswordPatch(s) /\ pc'[s] = "confirmSession"
      BY <1>5, <2>1, <2>4, StepAt DEF Edges
    <3>2. PatchUserInfo(u, req[s].new, TRUE)
      BY <3>1 DEF SavePasswordPatch, FinishLeft, Leave, IInv, TypeOK
    <3>3. cr'[u] = Patched(u, req[s].new) /\ cr[u] \in UserCR
      BY <1>2, <3>2 DEF PatchUserInfo, IInv, TypeOK, StoreTypeOK
    <3> QED BY <1>1, <3>3 DEF Patched, UserCR
  <2> QED BY <2>1, <2>2, <2>3, <2>4 DEF Edges
<1> QED BY <1>4, <1>5, WhoSteps

\* A new cookie says what the goroutine that sets it has seen or done.
LEMMA IssuedStep ==
  ASSUME IInv, [Next]_vars, NEW c \in issued' \ issued
  PROVE  \E r \in Attempt :
           /\ c.user = req[r].user
           /\ \/ pc[r] = "session" /\ c.first = seenFirst[r]
              \/ pc[r] = "confirmSession"
<1>1. ~ UNCHANGED issued
  OBVIOUS
<1>2. PICK r \in Attempt : Arrive(r) \/ Step(r) \/ Crash(r)
  BY <1>1 DEF Next, vars, Controller
<1>3. SaveLoginState(r) \/ ConfirmSession(r)
  BY <1>1, <1>2
  DEF Arrive, ReceiveLogin, ReceiveConfirm, ConfirmWithoutCookie,
      ReceiveReset, Reject, Receive, Crash, Step, CheckLocked,
      AuthenticatePassword, AddFailedLogin, AddFailedLoginUpdate,
      AddFailedLoginRefetch, Unlock, UnlockUpdate, ConfirmPassword,
      ResetPassword, SavePassword, SavePasswordPatch
<1>4. CASE SaveLoginState(r)
  <2>1. c = [user |-> req[r].user, first |-> seenFirst[r]]
    BY <1>4 DEF SaveLoginState, SetCookie
  <2>2. pc[r] = "session"
    BY <1>4 DEF SaveLoginState
  <2> QED BY <2>1, <2>2
<1>5. CASE ConfirmSession(r)
  <2>1. c = [user |-> req[r].user, first |-> FALSE]
    BY <1>5 DEF ConfirmSession, SetCookie
  <2>2. pc[r] = "confirmSession"
    BY <1>5 DEF ConfirmSession
  <2> QED BY <2>1, <2>2
<1> QED BY <1>3, <1>4, <1>5

LEMMA SessionStep ==
  ASSUME IInv, [Next]_vars
  PROVE  SessionAfterPasswordChange'
<1> SUFFICES ASSUME NEW c \in issued', ~ c.first
             PROVE  ~ cr'[c.user].firstLogin
  BY DEF SessionAfterPasswordChange
<1>1. c \in Cookie /\ c.user \in User
  BY NextTyped DEF TypeOK, Cookie
<1>2. ~ cr[c.user].firstLogin
  <2>1. CASE c \in issued
    BY <2>1 DEF IInv, SessionAfterPasswordChange
  <2>2. CASE c \notin issued
    BY <2>2, IssuedStep DEF IInv, CookieToCome
  <2> QED BY <2>1, <2>2
<1> QED BY <1>1, <1>2, StoreAdvances DEF Advances

-----------------------------------------------------------------------------
(***************************************************************************)
(* The theorems.                                                           *)
(***************************************************************************)
LEMMA InitIInv == Init => IInv
<1> SUFFICES ASSUME Init PROVE IInv
  OBVIOUS
<1>1. \A u \in User : cr[u] \in UserCR /\ cr[u].fails = {}
  <2> TAKE u \in User
  <2>1. cr[u] \in [rv : {0}, pw : Encrypted, firstLogin : BOOLEAN,
                   fails : {{}}, locked : {FALSE}, remain : {0, FailTimes}]
    BY DEF Init, StoreInit
  <2>2. {0} \subseteq Nat /\ {{}} \subseteq SUBSET Attempt
        /\ {FALSE} \subseteq BOOLEAN /\ {0, FailTimes} \subseteq Int
    BY FailTimesAssumption
  <2> QED BY <2>1, <2>2 DEF UserCR
<1>2. TypeOK
  <2>1. StoreTypeOK
    BY <1>1 DEF Init, StoreInit, StoreTypeOK
  <2>2. NoAnswer \in Answer
    BY DEF NoAnswer, Answer, Code
  <2> QED BY <2>1, <2>2 DEF Init, TypeOK, Label
<1>3. Recorded = {}
  BY <1>1 DEF Init, Recorded
<1> QED BY <1>2, <1>3
        DEF Init, IInv, Serving, SnapshotsFresh, CountedOnce,
            CountedFailureKept, SavesRealChange, CookieToCome, NoAnswer,
            SessionAfterPasswordChange

\* The invariant holds of every reachable state.
THEOREM Invariance == Spec => []IInv
<1>1. IInv /\ [Next]_vars => IInv'
  BY NextTyped, ServingStep, SnapshotsStep, CountedOnceStep,
     CountedFailureStep, SavesStep, CookieToComeStep, SessionStep DEF IInv
<1> QED BY InitIInv, <1>1, PTL DEF Spec

\* Types are correct for any number of requests and any limit.
THEOREM TypeCorrect == Spec => []TypeOK
<1>1. IInv => TypeOK
  BY DEF IInv
<1> QED BY Invariance, <1>1, PTL

\* No cookie ever says that a user who still has the first password is past
\* the first login.
THEOREM SessionsAfterPasswordChange == Spec => []SessionAfterPasswordChange
<1>1. IInv => SessionAfterPasswordChange
  BY DEF IInv
<1> QED BY Invariance, <1>1, PTL

\* No failure a client was told of is lost to a concurrent request.
THEOREM FailuresKept == Spec => []CountedFailureKept
<1>1. IInv => CountedFailureKept
  BY DEF IInv
<1> QED BY Invariance, <1>1, PTL

-----------------------------------------------------------------------------
(***************************************************************************)
(* Refinement: every step is a step of the abstract accounts.              *)
(***************************************************************************)
LEMMA InitAccount == Init => Account!Init
<1> SUFFICES ASSUME Init PROVE Account!Init
  OBVIOUS
<1>1. \A u \in User : cr[u] \in UserCR /\ cr[u].fails = {}
  BY InitIInv DEF IInv, TypeOK, StoreTypeOK, Init, StoreInit
<1>2. Recorded = {}
  BY <1>1 DEF Init, Recorded
<1>3. \A u \in User : /\ cr[u].pw \in Password \cup {Malformed, Unset}
                      /\ cr[u].firstLogin \in BOOLEAN
  BY <1>1 DEF UserCR, Encrypted
<1> QED BY <1>1, <1>2, <1>3 DEF Account!Init

\* Resources that keep their password, first login and failures do not move
\* the abstract accounts.
LEMMA AccountStutters ==
  ASSUME \A u \in User : /\ cr'[u].pw = cr[u].pw
                         /\ cr'[u].firstLogin = cr[u].firstLogin
                         /\ cr'[u].fails = cr[u].fails,
         Recorded' = Recorded
  PROVE  UNCHANGED Account!vars
BY DEF Account!vars

LEMMA AccountStep ==
  ASSUME IInv, [Next]_vars
  PROVE  [Account!Next]_Account!vars
<1>0. \A u \in User : cr[u] \in UserCR /\ cr \in [User -> UserCR]
  BY DEF IInv, TypeOK, StoreTypeOK
<1>1. CASE SameStore
  BY <1>1, AccountStutters, RecordedBy DEF SameStore
<1>2. ASSUME NEW r \in Attempt, Records(r)
      PROVE  [Account!Next]_Account!vars
  <2>0. PICK u \in User : u = req[r].user
    BY <1>2, RecordsFails
  <2>1. /\ cr'[u].fails = cr[u].fails \cup {r}
        /\ \A v \in User \ {u} : cr'[v] = cr[v]
    BY <1>2, <2>0, RecordsFails
  <2>2. cr'[u].pw = cr[u].pw /\ cr'[u].firstLogin = cr[u].firstLogin
    <3>1. cr[u].fails \cup {r} \in SUBSET Attempt
      BY <1>0, <2>1 DEF UserCR
    <3>2. cr'[u] = WithFails(cr[u], cr[u].fails \cup {r})
      BY <1>0, <1>2, <2>0 DEF Records
    <3> QED BY <1>0, <2>1, <3>1, <3>2, WithFailsFields
  <2>3. r \in Attempt \ Recorded /\ Recorded' = Recorded \cup {r}
    BY <1>2, RecordedBy DEF Records, IInv, CountedOnce
  <2>4. [v \in User |-> cr'[v].fails]
          = [[v \in User |-> cr[v].fails] EXCEPT ![u] = @ \cup {r}]
    BY <2>1
  <2>5. /\ [v \in User |-> cr'[v].pw] = [v \in User |-> cr[v].pw]
        /\ [v \in User |-> cr'[v].firstLogin] = [v \in User |-> cr[v].firstLogin]
    BY <2>1, <2>2
  <2>6. Account!RecordFailure(u)
    BY <2>3, <2>4, <2>5 DEF Account!RecordFailure
  <2> QED BY <2>6 DEF Account!Next
<1>3. ASSUME NEW r \in Attempt, Saves(r)
      PROVE  [Account!Next]_Account!vars
  <2>1. req[r] \in Request
    BY <1>3, ServesRequest DEF Saves
  <2>0. PICK u \in User, p \in Password : u = req[r].user /\ p = req[r].new
    BY <2>1 DEF Request
  <2>2. cr'[u] = Patched(u, p) /\ \A v \in User \ {u} : cr'[v] = cr[v]
    BY <1>0, <1>3, <2>0 DEF Saves
  <2>3. /\ cr'[u].pw = p /\ cr'[u].firstLogin = FALSE
        /\ cr'[u].fails = cr[u].fails
    BY <1>0, <2>2 DEF Patched, UserCR
  <2>4. Recorded' = Recorded
    BY <1>3, RecordedBy
  <2>5. <<u, p>> \notin Weak /\ (cr[u].firstLogin => cr[u].pw # p)
    BY <1>3, <2>0 DEF Saves, IInv, SavesRealChange
  <2>6. CASE cr[u].pw = p
    <3>1. cr[u].firstLogin = FALSE
      BY <1>0, <2>5, <2>6 DEF UserCR
    <3>2. \A v \in User : /\ cr'[v].pw = cr[v].pw
                          /\ cr'[v].firstLogin = cr[v].firstLogin
                          /\ cr'[v].fails = cr[v].fails
      BY <2>2, <2>3, <2>6, <3>1
    <3> QED BY <2>4, <3>2, AccountStutters
  <2>7. CASE cr[u].pw # p
    <3>1. [v \in User |-> cr'[v].pw]
            = [[v \in User |-> cr[v].pw] EXCEPT ![u] = p]
      BY <2>2, <2>3
    <3>2. [v \in User |-> cr'[v].firstLogin]
            = [[v \in User |-> cr[v].firstLogin] EXCEPT ![u] = FALSE]
      BY <2>2, <2>3
    <3>3. [v \in User |-> cr'[v].fails] = [v \in User |-> cr[v].fails]
      BY <2>2, <2>3
    <3>4. p \in Password \ {[v \in User |-> cr[v].pw][u]}
      BY <2>7
    <3>5. Account!ChangePassword(u)
      BY <2>4, <2>5, <3>1, <3>2, <3>3, <3>4 DEF Account!ChangePassword
    <3> QED BY <3>5 DEF Account!Next
  <2> QED BY <2>6, <2>7
<1>4. ASSUME NEW u \in User, Forgives(u)
      PROVE  [Account!Next]_Account!vars
  <2>1. Recorded' = Recorded
    BY <1>4, RecordedBy
  <2>2. [v \in User |-> cr'[v].fails]
          = [[v \in User |-> cr[v].fails] EXCEPT ![u] = {}]
    BY <1>4 DEF Forgives
  <2>3. /\ [v \in User |-> cr'[v].pw] = [v \in User |-> cr[v].pw]
        /\ [v \in User |-> cr'[v].firstLogin] = [v \in User |-> cr[v].firstLogin]
    BY <1>4 DEF Forgives
  <2>4. Account!ForgiveFailures(u)
    BY <2>1, <2>2, <2>3 DEF Account!ForgiveFailures
  <2> QED BY <2>4 DEF Account!Next
<1>5. ASSUME NEW u \in User, Refreshes(u)
      PROVE  [Account!Next]_Account!vars
  <2>1. Recorded' = Recorded
    BY <1>5, RecordedBy
  <2>2. \A v \in User : /\ cr'[v].pw = cr[v].pw
                        /\ cr'[v].firstLogin = cr[v].firstLogin
                        /\ cr'[v].fails = cr[v].fails
    BY <1>5 DEF Refreshes
  <2> QED BY <2>1, <2>2, AccountStutters
<1> QED BY <1>1, <1>2, <1>3, <1>4, <1>5, StoreStep

\* The user resources behave as accounts whose first login ends only with a
\* change of password, and whose failures count once and are never lost.
THEOREM RefinesAccount == Spec => ImplementsAccount
<1>1. IInv /\ [Next]_vars => [Account!Next]_Account!vars
  BY AccountStep
<1> QED BY Invariance, InitAccount, <1>1, PTL
        DEF Spec, ImplementsAccount, Account!Spec

-----------------------------------------------------------------------------
(***************************************************************************)
(* What follows for users and for handlers.                                *)
(***************************************************************************)
AccountPromise == INSTANCE UserAccountProofs WITH
  password   <- [u \in User |-> cr[u].pw],
  firstLogin <- [u \in User |-> cr[u].firstLogin],
  failures   <- [u \in User |-> cr[u].fails],
  counted    <- Recorded

\* In every interleaving of logins, confirmations, resets and writes of stale
\* resources a failure stands against one user, and a first login ends only
\* with another password that obeys the rule (userprotector.go,
\* authenticator.go: savePassword against Unlock).
THEOREM AccountsKept ==
  Spec => []Account!FailuresApart /\ Account!PasswordDecides
<1>1. AccountPromise!Spec => []AccountPromise!FailuresApart
  BY AccountPromise!FailuresAreApart
<1>2. AccountPromise!Spec => AccountPromise!PasswordDecides
  BY AccountPromise!PasswordsDecide
<1>3. Account!FailuresApart <=> AccountPromise!FailuresApart
  BY DEF Account!FailuresApart, AccountPromise!FailuresApart
<1>4. Account!Init <=> AccountPromise!Init
  BY DEF Account!Init, AccountPromise!Init
<1>5. [Account!Next]_Account!vars <=> [AccountPromise!Next]_AccountPromise!vars
  BY DEF Account!Next, AccountPromise!Next, Account!ChangePassword,
     AccountPromise!ChangePassword, Account!RecordFailure,
     AccountPromise!RecordFailure, Account!ForgiveFailures,
     AccountPromise!ForgiveFailures, Account!vars, AccountPromise!vars
<1> QED BY <1>1, <1>2, <1>3, <1>4, <1>5, RefinesAccount, PTL
        DEF ImplementsAccount, Account!Spec, AccountPromise!Spec,
            Account!PasswordDecides, AccountPromise!PasswordDecides,
            Account!vars, AccountPromise!vars

\* The steps a handler has before it at the longest.
StepsLeft(l) ==
  IF l = "done" THEN 0
  ELSE IF l \in {"addReget", "session", "confirmSession"} THEN 1
  ELSE IF l \in {"addPut", "unlockPut", "savePatch"} THEN 2
  ELSE IF l \in {"addGet", "unlockGet", "saveGet"} THEN 3
  ELSE IF l \in {"authenticate", "confirmGet", "resetGet"} THEN 4
  ELSE IF l = "checkLocked" THEN 5 ELSE 6

\* A step leaves a handler where it is or brings it nearer to its end.
Forward ==
  \A r \in Attempt : SameLocals(r) \/ StepsLeft(pc'[r]) < StepsLeft(pc[r])

\* No handler goes back to a call it has made: whatever others do, a request
\* is answered or broken off in five steps of its own after it is received, and
\* each makes one call at most (login.go:401-468, userprotector.go: no refused
\* update is tried again).
THEOREM FiveStepsAtMost == Spec => [][Forward]_vars
<1>1. ASSUME IInv, [Next]_vars, NEW r \in Attempt
      PROVE  SameLocals(r) \/ StepsLeft(pc'[r]) < StepsLeft(pc[r])
  <2>1. CASE RequestStep(r)
    <3>1. pc[r] \in Label /\ pc[r] # "done"
      BY <1>1, <2>1, OwnStep DEF IInv, TypeOK
    <3>2. CASE pc'[r] = "done"
      BY <3>1, <3>2 DEF StepsLeft, Label
    <3>3. CASE pc[r] = "new" /\ pc'[r] \in {"checkLocked", "confirmGet", "resetGet"}
      BY <3>3 DEF StepsLeft
    <3>4. CASE <<pc[r], pc'[r]>> \in Edges
      BY <3>4 DEF StepsLeft, Edges
    <3> QED BY <1>1, <2>1, <3>2, <3>3, <3>4, OwnStep
  <2> QED BY <1>1, <2>1, WhoSteps
<1>2. IInv /\ [Next]_vars => [Forward]_vars
  BY <1>1 DEF Forward
<1> QED BY <1>2, Invariance, PTL DEF Spec
=============================================================================
