-------------------------- MODULE TokenGrantProofs ---------------------------
(***************************************************************************)
(* Proofs about TokenGrant, for any tokens, clients, users, number of      *)
(* requests and any lifetimes the chart may configure.                     *)
(***************************************************************************)
EXTENDS TokenGrant, TLAPS

USE DEF At, Same, job

-----------------------------------------------------------------------------
(***************************************************************************)
(* What a request works on.                                                *)
(***************************************************************************)
\* A handler serves a request for a token a client holds, of known content.
LEMMA ServedToken ==
  ASSUME TypeOK, Serving, NEW r \in Req, pc[r] \notin {"new", "done"}
  PROVE  /\ req[r] \in TokenRequest
         /\ req[r].token \in known /\ req[r].token \in Token
         /\ req[r].client \in Client
         /\ Created(req[r].token)
         /\ info[req[r].token] \in TokenInfo
<1>1. req[r] \in TokenRequest /\ req[r].token \in known
  BY DEF TypeOK, Serving
<1>2. req[r].token \in Token /\ req[r].client \in Client
  BY <1>1 DEF TokenRequest
<1>3. Created(req[r].token)
  BY <1>1 DEF TypeOK
<1>4. info[req[r].token] \in TokenInfo
  BY <1>2, <1>3 DEF TypeOK, Created
<1> QED BY <1>1, <1>2, <1>3, <1>4

\* The refresh token made for a request stands for the client and user of
\* the token it presents.
LEMMA NewRefreshType ==
  ASSUME NEW r \in Req, info[req[r].token] \in TokenInfo
  PROVE  /\ NewRefresh(r) \in TokenInfo
         /\ NewRefresh(r).kind = "refresh"
         /\ NewRefresh(r).client = info[req[r].token].client
         /\ NewRefresh(r).user = info[req[r].token].user
BY DEF NewRefresh, TokenInfo, Grant

\* Nil is none of the values it stands for the absence of.
LEMMA NilApart == Nil \notin TokenInfo /\ Nil \notin TokenRequest /\ Nil \notin Token
BY NilAssumption

-----------------------------------------------------------------------------
(***************************************************************************)
(* What the store operations leave alone.                                  *)
(***************************************************************************)
\* Time passes in one direction, and what has expired stays expired.
LEMMA ExpiredStays ==
  ASSUME NEW t \in Token, age[t] \in Int, age'[t] \in Int,
         age'[t] >= age[t], info'[t] = info[t], Expired(t)
  PROVE  Expired(t)'
BY ExpAssumption DEF Expired

\* Creating a secret changes nothing about those created before.
LEMMA CreateKeeps ==
  ASSUME TypeOK, NEW n \in Token, NEW i \in TokenInfo, NEW ok \in BOOLEAN,
         ~ Created(n), Create(n, i, ok)
  PROVE  /\ stored \subseteq stored' /\ stored' \subseteq stored \cup {n}
         /\ info' \in [Token -> TokenInfo \cup {Nil}]
         /\ age' = age
         /\ \A t \in Token : Created(t) =>
              info'[t] = info[t] /\ t # n /\ Created(t)'
         /\ \A t \in stored' : Created(t)'
         /\ ok => n \in stored' /\ info'[n] = i /\ Created(n)'
<1> USE NilApart DEF Created
<1>1. CASE ok
  BY <1>1 DEF Create, TypeOK, store
<1>2. CASE ~ ok
  BY <1>2 DEF Create, TypeOK, store
<1> QED BY <1>1, <1>2

\* Deleting a secret changes no other; an answer of success means this call
\* deleted it.
LEMMA DeleteKeeps ==
  ASSUME NEW t \in Token, NEW ok \in BOOLEAN, Delete(t, ok)
  PROVE  /\ stored' \subseteq stored /\ stored \ stored' \subseteq {t}
         /\ UNCHANGED <<info, age>>
         /\ ok => t \in stored /\ t \notin stored'
BY DEF Delete

\* The clock changes only ages, upwards.
LEMMA TickKeeps ==
  ASSUME TypeOK, Tick
  PROVE  /\ age' \in [Token -> 0..AgeLimit]
         /\ \A t \in Token : age'[t] >= age[t]
         /\ \A t \in Token : Expired(t) => Expired(t)'
<1>1. \A t \in Token : Older(t) \in 0..AgeLimit /\ Older(t) >= age[t]
  BY ExpAssumption DEF Older, TypeOK, AgeLimit
<1>2. \A t \in Token : age'[t] = Older(t)
  BY DEF Tick
<1>3. \A t \in Token : age'[t] >= age[t] /\ age[t] \in Int /\ age'[t] \in Int
  BY <1>1, <1>2, ExpAssumption DEF TypeOK, AgeLimit
<1>4. \A t \in Token : Expired(t) => Expired(t)'
  BY <1>3, ExpiredStays DEF Tick
<1> QED BY <1>1, <1>3, <1>4 DEF Tick

-----------------------------------------------------------------------------
(***************************************************************************)
(* The invariant in two parts: what each request may rely on, and what is  *)
(* true of the exchanges made so far.                                      *)
(***************************************************************************)
Requests == Serving /\ Checked /\ FreshTokens /\ FreshLasts /\ CleansExpired

Exchanges ==
  OneWinner /\ ExchangedKnown /\ ExchangedOnce /\ OwnerKept /\ NoTokenLost

\* All but what the job knows, which no request touches.
Inner == TypeOK /\ Requests /\ Exchanges

LEMMA PartsOfIInv == IInv <=> TypeOK /\ Requests /\ Exchanges /\ ReadOld
BY DEF IInv, Requests, Exchanges

\* The labels of a request that has removed its token's secret.
PastDelete == {"redeemCreate", "respond"}

(***************************************************************************)
(* A request that moves on, or gives up, before it has removed a secret or *)
(* after it gave up touches no exchange.                                   *)
(***************************************************************************)
LEMMA MoveKeepsExchanges ==
  ASSUME TypeOK, Exchanges, NEW r \in Req, NEW l \in Label,
         UNCHANGED <<store, known, exchanged, cut, job>>,
         pc[r] \notin PastDelete, l \notin PastDelete,
         pc' = [pc EXCEPT ![r] = l],
         \A s \in Req \ {r} : req'[s] = req[s]
  PROVE  Exchanges'
<1> USE DEF Exchanges, store, PastDelete
<1>1. \A s \in Req, t \in Token : Winner(s, t)' <=> Winner(s, t)
  BY DEF Winner, TypeOK
<1>2. \A t \in Token : /\ Used(t)' <=> Used(t)
                       /\ Expired(t)' <=> Expired(t)
  BY DEF Used, Expired
<1>3. OneWinner'
  BY <1>1, <1>2 DEF OneWinner, TypeOK
<1>4. NoTokenLost'
  BY <1>1, <1>2 DEF NoTokenLost, TypeOK
<1>5. ExchangedKnown' /\ ExchangedOnce' /\ OwnerKept'
  BY DEF ExchangedKnown, ExchangedOnce, OwnerKept
<1> QED BY <1>3, <1>4, <1>5

\* A step changes the content of no secret and makes none young again.
Keeps == \A t \in Token : Created(t) => info'[t] = info[t] /\ Created(t)'
                                      /\ (Expired(t) => Expired(t)')

\* It removes the secret of no live token that is about to be returned, unless
\* the job could not read how old it is.
Lasts == \A s \in Req, t \in Token :
           fresh[s] = t => t \in stored' \/ Expired(t)' \/ t \in misread'

(***************************************************************************)
(* When a request gives up or ends, the others go on with what they have,  *)
(* provided that their new refresh tokens last.                            *)
(***************************************************************************)
LEMMA LeaveKeepsRequests ==
  ASSUME TypeOK, Requests, NEW r \in Req, pc[r] \notin {"new", "done"},
         Finish(r) \/ Fail(r), Keeps, Lasts, UNCHANGED known
  PROVE  Requests'
<1> USE DEF Requests
<1>1. /\ pc' = [pc EXCEPT ![r] = pc'[r]] /\ pc'[r] \in {"done", "cleanCheck"}
      /\ fresh' = [fresh EXCEPT ![r] = Nil]
      /\ \A s \in Req \ {r} : req'[s] = req[s]
      /\ pc'[r] = "cleanCheck" => req'[r] = req[r]
  BY DEF Finish, Fail, Goto, TypeOK
<1>2. Serving'
  BY <1>1 DEF Serving, TypeOK
<1>3. \A s \in Req : pc[s] \notin {"new", "done"} =>
        req[s].token \in Token /\ Created(req[s].token)
  BY ServedToken
<1>4. Checked'
  BY <1>1, <1>3 DEF Checked, TypeOK, Keeps
<1>5. FreshTokens'
  BY <1>1, <1>3 DEF FreshTokens, TypeOK, Keeps, NewRefresh, Created
<1>6. FreshLasts'
  BY <1>1 DEF FreshLasts, TypeOK, Lasts
<1>7. CleansExpired'
  BY <1>1, <1>3 DEF CleansExpired, TypeOK, Keeps
<1> QED BY <1>2, <1>4, <1>5, <1>6, <1>7

(***************************************************************************)
(* When a request moves on to a call its checks entitle it to, the others  *)
(* go on with what they have.                                              *)
(***************************************************************************)
Owned == {"redeemList", "redeemDelete", "redeemCreate", "refreshCreate",
          "refreshList", "refreshDelete", "respond"}

LEMMA MoveKeepsRequests ==
  ASSUME TypeOK, Requests, NEW r \in Req, pc[r] \notin {"new", "done"},
         NEW l \in Label \ {"new", "done"}, Goto(r, l), Keeps, Lasts,
         UNCHANGED <<known, fresh>>,
         l \in Owned => info[req[r].token].client = req[r].client,
         l \in {"refreshList", "refreshDelete", "respond"} <=> fresh[r] # Nil,
         l \in {"cleanList", "cleanDelete"} => Expired(req[r].token)
  PROVE  Requests'
<1> USE DEF Requests, Goto
<1>1. \A s \in Req : pc[s] \notin {"new", "done"} =>
        req[s].token \in Token /\ Created(req[s].token)
  BY ServedToken
<1>2. Serving'
  BY DEF Serving, TypeOK
<1>3. Checked'
  BY <1>1 DEF Checked, TypeOK, Keeps, Owned
<1>4. FreshTokens'
  BY <1>1 DEF FreshTokens, TypeOK, Keeps, NewRefresh, Created
<1>5. FreshLasts'
  BY DEF FreshLasts, TypeOK, Lasts
<1>6. CleansExpired'
  BY <1>1 DEF CleansExpired, TypeOK, Keeps
<1> QED BY <1>2, <1>3, <1>4, <1>5, <1>6

\* A step that leaves the secrets alone keeps them.
LEMMA UnchangedKeeps ==
  ASSUME UNCHANGED <<info, age>>
  PROVE  Keeps
BY DEF Keeps, Created, Expired

\* Control stays well typed.
LEMMA MoveTyped ==
  ASSUME TypeOK, NEW r \in Req, NEW l \in Label,
         Finish(r) \/ Fail(r) \/ (Goto(r, l) /\ fresh' \in [Req -> Token \cup {Nil}])
  PROVE  /\ pc' \in [Req -> Label]
         /\ req' \in [Req -> TokenRequest \cup {Nil}]
         /\ fresh' \in [Req -> Token \cup {Nil}]
BY DEF TypeOK, Finish, Fail, Goto, Label

(***************************************************************************)
(* A step that reads the store, and moves a request on or gives it up,     *)
(* keeps the invariant.                                                    *)
(***************************************************************************)
LEMMA ReadStep ==
  ASSUME IInv, NEW r \in Req, NEW l \in Label \ {"new", "done"},
         UNCHANGED <<store, known, exchanged, cut, job>>,
         pc[r] \notin {"new", "done"}, pc[r] \notin PastDelete, l \notin PastDelete,
         \/ Finish(r) \/ Fail(r)
         \/ /\ Goto(r, l) /\ UNCHANGED fresh
            /\ l \in Owned => info[req[r].token].client = req[r].client
            /\ l \in {"refreshList", "refreshDelete"} <=> fresh[r] # Nil
            /\ l \in {"cleanList", "cleanDelete"} => Expired(req[r].token)
  PROVE  Inner'
<1>1. TypeOK /\ Requests /\ Exchanges
  BY PartsOfIInv
<1>2. TypeOK'
  BY <1>1, MoveTyped DEF TypeOK, store, Created
<1>3. Lasts
  BY <1>1, NilApart DEF Lasts, Requests, FreshLasts, Expired, store
<1>4. Requests'
  BY <1>1, <1>3, UnchangedKeeps, LeaveKeepsRequests, MoveKeepsRequests
     DEF store, PastDelete
<1>5. PICK k \in {l, "cleanCheck", "done"} :
        /\ pc' = [pc EXCEPT ![r] = k]
        /\ \A s \in Req \ {r} : req'[s] = req[s]
  BY <1>1 DEF Finish, Fail, Goto, TypeOK
<1>6. Exchanges'
  BY <1>1, <1>5, MoveKeepsExchanges DEF PastDelete, Label
<1> QED BY <1>2, <1>4, <1>6 DEF Inner, Requests, Exchanges

LEMMA RedeemCheckStep ==
  ASSUME IInv, NEW r \in Req, RedeemCheck(r)
  PROVE  Inner'
<1>1. fresh[r] = Nil
  BY DEF IInv, FreshTokens, RedeemCheck
<1> QED BY <1>1, ReadStep DEF RedeemCheck, Owned, PastDelete, Label

LEMMA RefreshCheckStep ==
  ASSUME IInv, NEW r \in Req, RefreshCheck(r)
  PROVE  Inner'
<1>1. fresh[r] = Nil
  BY DEF IInv, FreshTokens, RefreshCheck
<1> QED BY <1>1, ReadStep DEF RefreshCheck, Owned, PastDelete, Label

LEMMA RemoveListStep ==
  ASSUME IInv, NEW r \in Req, RemoveList(r)
  PROVE  Inner'
<1>1. info[req[r].token].client = req[r].client
  BY DEF IInv, Checked, RemoveList
<1>2. At(r, "refreshList") <=> fresh[r] # Nil
  BY DEF IInv, FreshTokens, RemoveList
<1> QED BY <1>1, <1>2, ReadStep DEF RemoveList, Owned, PastDelete, Label

LEMMA CleanCheckStep ==
  ASSUME IInv, NEW r \in Req, CleanCheck(r)
  PROVE  Inner'
<1>1. fresh[r] = Nil
  BY DEF IInv, FreshTokens, CleanCheck
<1> QED BY <1>1, ReadStep DEF CleanCheck, Owned, PastDelete, Label

LEMMA CleanListStep ==
  ASSUME IInv, NEW r \in Req, CleanList(r)
  PROVE  Inner'
<1>1. fresh[r] = Nil /\ Expired(req[r].token)
  BY DEF IInv, FreshTokens, CleansExpired, CleanList
<1> QED BY <1>1, ReadStep DEF CleanList, Owned, PastDelete, Label

\* A new request serves a token its client holds.
LEMMA ReceiveTokenStep ==
  ASSUME IInv, NEW r \in Req, ReceiveToken(r)
  PROVE  Inner'
<1> USE DEF IInv
<1>1. PICK t \in known, g \in Grant, c \in Client, uri \in Uri :
        /\ req' = [req EXCEPT ![r] = [grant |-> g, token |-> t,
                                      client |-> c, uri |-> uri]]
        /\ pc' = [pc EXCEPT ![r] =
                    IF g = "code" THEN "redeemCheck" ELSE "refreshCheck"]
  BY DEF ReceiveToken
<1>2. [grant |-> g, token |-> t, client |-> c, uri |-> uri] \in TokenRequest
  BY DEF TypeOK, TokenRequest
<1>3. /\ pc[r] = "new" /\ UNCHANGED <<store, fresh, cut, known, exchanged, job>>
      /\ \A s \in Req \ {r} : req'[s] = req[s] /\ pc'[s] = pc[s]
      /\ req'[r] # Nil /\ req'[r].token = t
      /\ pc'[r] \in {"redeemCheck", "refreshCheck"}
      /\ fresh[r] = Nil
  BY <1>1, <1>2, NilApart DEF ReceiveToken, TypeOK, FreshTokens
<1>4. TypeOK'
  BY <1>1, <1>2, <1>3 DEF TypeOK, store, Label, Created
<1>5. Serving'
  BY <1>3 DEF Serving
<1>6. Checked'
  BY <1>3 DEF Checked, store
<1>7. FreshTokens'
  BY <1>3 DEF FreshTokens, store, NewRefresh, TypeOK
<1>8. FreshLasts' /\ CleansExpired'
  BY <1>3 DEF FreshLasts, CleansExpired, store, Expired
<1>9. Exchanges'
  <2>1. pc' = [pc EXCEPT ![r] = pc'[r]] /\ pc'[r] \in Label
    BY <1>1, <1>4 DEF TypeOK
  <2> QED BY <1>3, <2>1, MoveKeepsExchanges DEF PastDelete, Exchanges
<1> QED BY <1>4, <1>5, <1>6, <1>7, <1>8, <1>9 DEF Inner, Requests

-----------------------------------------------------------------------------
(***************************************************************************)
(* Steps that remove a secret.                                             *)
(***************************************************************************)
\* The token of a request is not one that is about to be returned, as its
\* client holds it already.
LEMMA DeleteLasts ==
  ASSUME TypeOK, Requests, NEW r \in Req, pc[r] \notin {"new", "done"},
         stored \ stored' \subseteq {req[r].token}, UNCHANGED <<info, age, misread>>
  PROVE  Lasts
<1>1. req[r].token \in known
  BY ServedToken DEF Requests
<1>2. \A s \in Req : fresh[s] # Nil => fresh[s] # req[r].token
  BY <1>1 DEF Requests, FreshTokens
<1> QED BY <1>2, NilApart DEF Requests, Lasts, FreshLasts, Expired

\* The delete makes the request the only one past it, or cuts it short.
LEMMA RemoveDeleteStep ==
  ASSUME IInv, NEW r \in Req, RemoveDelete(r)
  PROVE  Inner'
<1> DEFINE t == req[r].token
<1>1. TypeOK /\ Requests /\ Exchanges
  BY PartsOfIInv
<1>2. pc[r] \in {"redeemDelete", "refreshDelete"} /\ t \in Token /\ t \in known
  BY <1>1, ServedToken DEF RemoveDelete, Requests
<1>3. PICK ok \in BOOLEAN :
        /\ Delete(t, ok)
        /\ IF ok
           THEN /\ Goto(r, IF At(r, "redeemDelete") THEN "redeemCreate"
                                                    ELSE "respond")
                /\ UNCHANGED <<fresh, cut>>
           ELSE Fail(r) /\ cut' = cut \cup (stored \ stored')
  BY DEF RemoveDelete
<1>4. /\ stored' \subseteq stored /\ stored \ stored' \subseteq {t}
      /\ UNCHANGED <<info, age, known, exchanged, job>>
      /\ ok => t \in stored /\ t \notin stored'
  BY <1>2, <1>3, DeleteKeeps DEF RemoveDelete
<1> HIDE DEF t
<1>5. TypeOK'
  BY <1>1, <1>3, <1>4, MoveTyped DEF TypeOK, Created, Label
<1>6. Keeps /\ Lasts
  BY <1>1, <1>2, <1>4, UnchangedKeeps, DeleteLasts DEF t
<1>7. \A x \in Token : /\ Used(x)' <=> Used(x)
                       /\ Expired(x)' <=> Expired(x)
  BY <1>4 DEF Used, Expired
<1>8. CASE ok
  <2> DEFINE l == IF At(r, "redeemDelete") THEN "redeemCreate" ELSE "respond"
  <2>1. /\ Goto(r, l) /\ UNCHANGED <<fresh, cut>>
        /\ l \in Label \ {"new", "done"} /\ l \in PastDelete
    BY <1>3, <1>8 DEF Label, PastDelete
  <2>2. info[req[r].token].client = req[r].client
    BY <1>1, <1>2 DEF Requests, Checked
  <2>3. l = "respond" <=> fresh[r] # Nil
    BY <1>1, <1>2 DEF Requests, FreshTokens
  <2>4. Requests'
    BY <1>1, <1>2, <1>4, <1>6, <2>1, <2>2, <2>3, MoveKeepsRequests
       DEF PastDelete
  <2>5. \A s \in Req, x \in Token :
          Winner(s, x)' <=> Winner(s, x) \/ (s = r /\ x = t)
    BY <1>1, <1>2, <2>1 DEF Winner, Goto, TypeOK, t, PastDelete
  <2> HIDE DEF l
  <2>6. OneWinner'
    BY <1>1, <1>2, <1>4, <1>7, <1>8, <2>5 DEF Exchanges, OneWinner, TypeOK
  <2>7. NoTokenLost'
    BY <1>1, <1>2, <1>4, <1>7, <2>1, <2>5 DEF Exchanges, NoTokenLost, TypeOK
  <2>8. ExchangedKnown' /\ ExchangedOnce' /\ OwnerKept'
    BY <1>1, <1>4 DEF Exchanges, ExchangedKnown, ExchangedOnce, OwnerKept
  <2> QED BY <1>5, <2>4, <2>6, <2>7, <2>8 DEF Inner, Requests, Exchanges
<1>9. CASE ~ ok
  <2>1. Fail(r) /\ cut' = cut \cup (stored \ stored')
    BY <1>3, <1>9
  <2>2. Requests'
    BY <1>1, <1>2, <1>4, <1>6, <2>1, LeaveKeepsRequests
  <2>3. \A s \in Req, x \in Token : Winner(s, x)' <=> Winner(s, x)
    BY <1>1, <1>2, <2>1 DEF Winner, Fail, Goto, TypeOK
  <2>4. OneWinner'
    BY <1>1, <1>4, <1>7, <2>3 DEF Exchanges, OneWinner, TypeOK
  <2>5. NoTokenLost'
    BY <1>1, <1>4, <1>7, <2>1, <2>3 DEF Exchanges, NoTokenLost, TypeOK
  <2>6. ExchangedKnown' /\ ExchangedOnce' /\ OwnerKept'
    BY <1>1, <1>4 DEF Exchanges, ExchangedKnown, ExchangedOnce, OwnerKept
  <2> QED BY <1>5, <2>2, <2>4, <2>5, <2>6 DEF Inner, Requests, Exchanges
<1> QED BY <1>3, <1>8, <1>9

\* What deleteExpiredAuthCode deletes has expired.
LEMMA CleanDeleteStep ==
  ASSUME IInv, NEW r \in Req, CleanDelete(r)
  PROVE  Inner'
<1> DEFINE t == req[r].token
<1>1. TypeOK /\ Requests /\ Exchanges
  BY PartsOfIInv
<1>2. pc[r] = "cleanDelete" /\ t \in Token /\ Finish(r) /\ cut' = cut
  BY <1>1, ServedToken DEF CleanDelete, Requests
<1>3. Expired(t)
  BY <1>1, <1>2 DEF Requests, CleansExpired
<1>4. /\ stored' \subseteq stored /\ stored \ stored' \subseteq {t}
      /\ UNCHANGED <<info, age, known, exchanged, job>>
  BY <1>2, DeleteKeeps DEF CleanDelete
<1> HIDE DEF t
<1>5. TypeOK'
  BY <1>1, <1>2, <1>4, MoveTyped DEF TypeOK, Created
<1>6. Requests'
  <2>1. Keeps /\ Lasts
    BY <1>1, <1>2, <1>4, UnchangedKeeps, DeleteLasts DEF t
  <2> QED BY <1>1, <1>2, <1>4, <2>1, LeaveKeepsRequests
<1>7. \A x \in Token : /\ Used(x)' <=> Used(x)
                       /\ Expired(x)' <=> Expired(x)
  BY <1>4 DEF Used, Expired
<1>8. \A s \in Req, x \in Token : Winner(s, x)' <=> Winner(s, x)
  BY <1>1, <1>2 DEF Winner, Finish, TypeOK
<1>9. OneWinner'
  BY <1>1, <1>4, <1>7, <1>8 DEF Exchanges, OneWinner, TypeOK
<1>10. NoTokenLost'
  BY <1>1, <1>2, <1>3, <1>4, <1>7, <1>8 DEF Exchanges, NoTokenLost, TypeOK
<1>11. ExchangedKnown' /\ ExchangedOnce' /\ OwnerKept'
  BY <1>1, <1>4 DEF Exchanges, ExchangedKnown, ExchangedOnce, OwnerKept
<1> QED BY <1>5, <1>6, <1>9, <1>10, <1>11 DEF Inner, Requests, Exchanges

\* A secret older than the job's limit has outlived every lifetime.
LEMMA OldIsExpired ==
  ASSUME TypeOK, NEW t \in Token, age[t] > SecretExpiry
  PROVE  Expired(t)
BY ExpAssumption, CleanupAssumption DEF TypeOK, Expired, AgeLimit

\* No step of a request or of the clock makes wrong what the job has read.
LEMMA ReadOldStays ==
  ASSUME TypeOK, ReadOld, UNCHANGED doomed,
         age' = age \/ Tick
  PROVE  ReadOld'
<1> SUFFICES ASSUME doomed # Nil, doomed.read
             PROVE  age'[doomed.token] > SecretExpiry
  BY DEF ReadOld
<1>1. doomed.token \in Token /\ age[doomed.token] > SecretExpiry
  BY DEF TypeOK, Doomed, ReadOld
<1>2. CASE age' = age
  BY <1>1, <1>2
<1>3. CASE Tick
  <2>1. /\ age'[doomed.token] \in 0..AgeLimit /\ age[doomed.token] \in 0..AgeLimit
        /\ age'[doomed.token] >= age[doomed.token]
    BY <1>1, <1>3, TickKeeps DEF TypeOK
  <2> QED BY <1>1, <2>1, ExpAssumption DEF AgeLimit
<1> QED BY <1>2, <1>3

\* The job lists and reads; it has read the age of what it takes for old, or
\* could not read it.
LEMMA CleanupLooks ==
  ASSUME IInv, CleanupStart \/ CleanupAbort \/ \E t \in Token : CleanupRead(t)
  PROVE  /\ UNCHANGED <<store, known, pc, req, fresh, exchanged, cut, misread>>
         /\ Inner' /\ ReadOld'
<1>1. TypeOK /\ Requests /\ Exchanges /\ ReadOld
  BY PartsOfIInv
<1>2. /\ UNCHANGED <<store, known, pc, req, fresh, exchanged, cut, misread>>
      /\ todo' \subseteq Token /\ doomed' \in Doomed \cup {Nil}
      /\ doomed' # Nil /\ doomed'.read => age[doomed'.token] > SecretExpiry
  <2>1. CASE CleanupStart
    BY <1>1, <2>1 DEF CleanupStart, JobOnly, TypeOK, store, ReadOld
  <2>2. CASE CleanupAbort
    BY <2>2 DEF CleanupAbort, JobOnly, store
  <2>3. ASSUME NEW t \in Token, CleanupRead(t)
        PROVE  <1>2!1 /\ <1>2!2 /\ <1>2!3
    <3>1. /\ UNCHANGED <<store, known, pc, req, fresh, exchanged, cut, misread>>
          /\ todo' \subseteq Token
      BY <1>1, <2>3 DEF CleanupRead, AgeRead, AgeUnknown, JobOnly, TypeOK, store
    <3>2. \A old \in BOOLEAN :
            LET d == [token |-> t, read |-> old] IN
            d \in Doomed /\ d.token = t /\ d.read = old
      BY DEF Doomed
    <3>3. \/ doomed' = Nil \/ doomed' = [token |-> t, read |-> FALSE]
          \/ doomed' = [token |-> t, read |-> TRUE] /\ age[t] > SecretExpiry
      BY <2>3 DEF CleanupRead, AgeRead, AgeUnknown
    <3>4. CASE doomed' = Nil
      BY <3>1, <3>4
    <3>5. CASE doomed' = [token |-> t, read |-> FALSE]
      BY <3>1, <3>2, <3>5
    <3>6. CASE doomed' = [token |-> t, read |-> TRUE] /\ age[t] > SecretExpiry
      BY <3>1, <3>2, <3>6
    <3> QED BY <3>3, <3>4, <3>5, <3>6
  <2> QED BY <2>1, <2>2, <2>3
<1>3. ReadOld'
  BY <1>2 DEF ReadOld, store
<1>4. TypeOK'
  BY <1>1, <1>2 DEF TypeOK, store, Created
<1>5. Requests'
  BY <1>1, <1>2 DEF Requests, Serving, Checked, FreshTokens, NewRefresh,
     FreshLasts, CleansExpired, Expired, store
<1>6. Exchanges'
  BY <1>1, <1>2 DEF Exchanges, OneWinner, Winner, Used, ExchangedKnown,
     ExchangedOnce, OwnerKept, NoTokenLost, Expired, store
<1> QED BY <1>2, <1>3, <1>4, <1>5, <1>6 DEF Inner

\* What the job deletes has expired, or is written down as deleted unread.
LEMMA CleanupDeletes ==
  ASSUME IInv, CleanupDelete
  PROVE  /\ UNCHANGED <<info, age, known, pc, req, fresh, exchanged, cut>>
         /\ todo' \subseteq Token /\ doomed' = Nil
         /\ misread \subseteq misread' /\ misread' \subseteq Token
         /\ stored' \subseteq stored
         /\ doomed.token \in Token /\ stored \ stored' \subseteq {doomed.token}
         /\ Expired(doomed.token) \/ Guessed(doomed.token)
         /\ Guessed(doomed.token) => stored \ stored' \subseteq misread'
<1>1. TypeOK /\ ReadOld
  BY PartsOfIInv
<1>2. doomed # Nil /\ doomed \in Doomed
  BY <1>1 DEF CleanupDelete, TypeOK
<1>3. doomed.token \in Token /\ doomed.read \in BOOLEAN
  BY <1>2 DEF Doomed
<1>4. PICK ok \in BOOLEAN :
        Delete(doomed.token, ok) /\ todo' = IF ok THEN todo ELSE {}
  BY DEF CleanupDelete
<1>5. /\ stored' \subseteq stored /\ stored \ stored' \subseteq {doomed.token}
      /\ UNCHANGED <<info, age>>
  BY <1>3, <1>4, DeleteKeeps
<1>6. CASE doomed.read
  <2>1. Expired(doomed.token) /\ ~ Guessed(doomed.token)
    BY <1>1, <1>2, <1>3, <1>6, OldIsExpired DEF ReadOld, Guessed
  <2>2. misread' = misread
    BY <1>6 DEF CleanupDelete
  <2> QED BY <1>1, <1>3, <1>4, <1>5, <2>1, <2>2 DEF CleanupDelete, TypeOK
<1>7. CASE ~ doomed.read
  <2>1. Guessed(doomed.token)
    BY <1>2, <1>7 DEF Guessed
  <2>2. misread' = misread \cup (stored \ stored')
    BY <1>7 DEF CleanupDelete
  <2> QED BY <1>1, <1>3, <1>4, <1>5, <2>1, <2>2 DEF CleanupDelete, TypeOK
<1> QED BY <1>6, <1>7

LEMMA CleanupDeleteStep ==
  ASSUME IInv, CleanupDelete
  PROVE  Inner' /\ ReadOld'
<1> DEFINE t == doomed.token
<1>1. TypeOK /\ Requests /\ Exchanges
  BY PartsOfIInv
<1>2. /\ UNCHANGED <<info, age, known, pc, req, fresh, exchanged, cut>>
      /\ todo' \subseteq Token /\ doomed' = Nil
      /\ misread \subseteq misread' /\ misread' \subseteq Token
      /\ stored' \subseteq stored /\ t \in Token /\ stored \ stored' \subseteq {t}
      /\ Expired(t) \/ stored \ stored' \subseteq misread'
  BY CleanupDeletes
<1> HIDE DEF t
<1>3. \A x \in Token : Expired(x)' <=> Expired(x)
  BY <1>2 DEF Expired
<1>4. TypeOK'
  BY <1>1, <1>2 DEF TypeOK, Created
<1>5. Serving' /\ Checked' /\ FreshTokens' /\ CleansExpired'
  BY <1>1, <1>2 DEF Requests, Serving, Checked, FreshTokens, NewRefresh,
     CleansExpired, Expired
<1>6. FreshLasts'
  <2>1. ASSUME NEW r \in Req, fresh[r] # Nil
        PROVE  fresh[r] \in stored' \/ Expired(fresh[r])' \/ fresh[r] \in misread'
    <3>1. fresh[r] \in Token
      BY <1>1, <2>1 DEF TypeOK
    <3> QED BY <1>1, <1>2, <1>3, <2>1, <3>1 DEF Requests, FreshLasts
  <2> QED BY <1>2, <2>1 DEF FreshLasts
<1>7. OneWinner'
  BY <1>1, <1>2 DEF Exchanges, OneWinner, Winner, Used
<1>8. NoTokenLost'
  <2>1. \A x \in Token : /\ Used(x)' <=> Used(x)
                         /\ \A r \in Req : Winner(r, x)' <=> Winner(r, x)
    BY <1>2 DEF Used, Winner
  <2> QED BY <1>1, <1>2, <1>3, <2>1 DEF Exchanges, NoTokenLost, TypeOK
<1>9. ExchangedKnown' /\ ExchangedOnce' /\ OwnerKept'
  BY <1>1, <1>2 DEF Exchanges, ExchangedKnown, ExchangedOnce, OwnerKept
<1>10. ReadOld'
  BY <1>2 DEF ReadOld
<1> QED BY <1>4, <1>5, <1>6, <1>7, <1>8, <1>9, <1>10
        DEF Inner, Requests, Exchanges

-----------------------------------------------------------------------------
(***************************************************************************)
(* Steps that create a secret.                                             *)
(***************************************************************************)
\* Creating the refresh token to return leaves every token created before
\* as it was, and the request goes on with a token nobody knows, or gives
\* up.
LEMMA CreateRefreshEffect ==
  ASSUME TypeOK, Requests, NEW r \in Req, NEW then \in {"refreshList", "respond"},
         pc[r] \in {"refreshCreate", "redeemCreate"},
         CreateRefresh(r, then), UNCHANGED <<known, exchanged, job>>,
         cut' \subseteq Token
  PROVE  /\ TypeOK' /\ Requests' /\ Keeps
         /\ stored \subseteq stored' /\ UNCHANGED req
         /\ \A t \in stored' : t \in stored \/ (t \in Token /\ ~ Created(t))
         /\ pc' = [pc EXCEPT ![r] = pc'[r]] /\ pc'[r] \in {then, "cleanCheck"}
<1> DEFINE q == req[r].token
<1>1. pc[r] \notin {"new", "done"} /\ info[q] \in TokenInfo /\ Created(q)
      /\ q \in Token
  BY ServedToken DEF Requests
<1>2. PICK n \in Token, ok \in BOOLEAN :
        /\ ~ Created(n)
        /\ Create(n, NewRefresh(r), ok)
        /\ IF ok THEN Goto(r, then) /\ fresh' = [fresh EXCEPT ![r] = n]
                 ELSE Fail(r)
  BY DEF CreateRefresh
<1>3. NewRefresh(r) \in TokenInfo
  BY <1>1, NewRefreshType
<1> HIDE DEF q
<1>4. /\ stored \subseteq stored' /\ stored' \subseteq stored \cup {n}
      /\ info' \in [Token -> TokenInfo \cup {Nil}]
      /\ age' = age
      /\ \A t \in Token : Created(t) => info'[t] = info[t] /\ t # n /\ Created(t)'
      /\ \A t \in stored' : Created(t)'
      /\ ok => n \in stored' /\ info'[n] = NewRefresh(r) /\ Created(n)'
  BY <1>2, <1>3, CreateKeeps
<1>5. Keeps
  BY <1>4 DEF Keeps, Expired
<1>6. Lasts
  BY <1>4, NilApart DEF Lasts, Requests, FreshLasts, FreshTokens, Created, Expired
<1>7. TypeOK'
  <2>1. /\ pc' \in [Req -> Label]
        /\ req' \in [Req -> TokenRequest \cup {Nil}]
        /\ fresh' \in [Req -> Token \cup {Nil}]
    BY <1>2, MoveTyped DEF Label, TypeOK
  <2> QED BY <1>4, <2>1 DEF TypeOK
<1>8. Requests'
  <2>1. CASE ~ ok
    BY <1>1, <1>2, <1>5, <1>6, <2>1, LeaveKeepsRequests
  <2>2. CASE ok
    <3> USE DEF Requests
    <3>1. /\ pc' = [pc EXCEPT ![r] = then] /\ UNCHANGED req
          /\ fresh' = [fresh EXCEPT ![r] = n]
      BY <1>2, <2>2 DEF Goto
    <3>2. \A s \in Req : pc[s] \notin {"new", "done"} =>
            req[s].token \in Token /\ Created(req[s].token)
      BY ServedToken
    <3>3. Serving'
      BY <1>1, <3>1 DEF Serving, TypeOK
    <3>4. Checked'
      BY <1>1, <1>4, <3>1, <3>2 DEF Checked, TypeOK
    <3>5. FreshTokens'
      <4>1. n \notin known /\ \A s \in Req : fresh[s] # n
        BY <1>2, NilApart DEF TypeOK, FreshTokens, Created
      <4>2. info'[n] = NewRefresh(r)' /\ info'[n] # Nil
        BY <1>1, <1>3, <1>4, <2>2, <3>1, NilApart DEF NewRefresh, q
      <4>3. \A s \in Req \ {r} : fresh[s] # Nil =>
              /\ fresh'[s] = fresh[s] /\ fresh[s] \notin known
              /\ info'[fresh[s]] # Nil
              /\ info'[fresh[s]] = NewRefresh(s)'
        BY <1>4, <3>1, <3>2 DEF FreshTokens, NewRefresh, TypeOK, Created
      <4>4. \A s \in Req \ {r} : fresh'[s] = fresh[s] /\ pc'[s] = pc[s]
        BY <3>1 DEF TypeOK
      <4>5. fresh'[r] = n /\ pc'[r] = then
        BY <3>1 DEF TypeOK
      <4> QED BY <4>1, <4>2, <4>3, <4>4, <4>5, NilApart DEF FreshTokens
    <3>6. FreshLasts'
      BY <1>4, <1>6, <2>2, <3>1 DEF FreshLasts, Lasts, TypeOK
    <3>7. CleansExpired'
      BY <1>5, <3>1, <3>2 DEF CleansExpired, TypeOK, Keeps
    <3> QED BY <3>3, <3>4, <3>5, <3>6, <3>7
  <2> QED BY <2>1, <2>2
<1>9. /\ pc' = [pc EXCEPT ![r] = pc'[r]] /\ pc'[r] \in {then, "cleanCheck"}
      /\ UNCHANGED req
  BY <1>2 DEF Goto, Fail, TypeOK
<1> QED BY <1>2, <1>4, <1>5, <1>7, <1>8, <1>9

\* New secrets bear names no exchange and no request has heard of.
LEMMA CreationKeepsExchanges ==
  ASSUME TypeOK, Exchanges, Keeps, Serving,
         stored \subseteq stored',
         \A t \in stored' : t \in stored \/ (t \in Token /\ ~ Created(t)),
         UNCHANGED <<exchanged, misread>>, known \subseteq known',
         \A t \in known' : t \in known \/ t \in stored',
         \A s \in Req, t \in Token : Winner(s, t)' => Winner(s, t),
         \A s \in Req, t \in Token : Winner(s, t) =>
           Winner(s, t)' \/ t \in cut',
         cut \subseteq cut'
  PROVE  Exchanges'
<1> USE DEF Exchanges
<1>1. \A t \in Token : Used(t)' <=> Used(t)
  BY DEF Used
<1>2. \A t \in Token : Used(t) => Created(t)
  BY DEF Used, ExchangedKnown, TypeOK
<1>3. \A s \in Req, t \in Token : Winner(s, t) => Created(t)
  BY ServedToken DEF Winner
<1>4. OneWinner'
  <2>1. \A s \in Req, t \in Token : Winner(s, t)' => t \notin stored' /\ ~ Used(t)'
    BY <1>1, <1>3 DEF OneWinner
  <2>2. \A t \in stored' : ~ Used(t)'
    BY <1>1, <1>2 DEF OneWinner, TypeOK
  <2>3. \A s, r \in Req, t \in Token : Winner(s, t)' /\ Winner(r, t)' => s = r
    BY DEF OneWinner
  <2> QED BY <2>1, <2>2, <2>3 DEF OneWinner
<1>5. NoTokenLost'
  BY <1>1 DEF NoTokenLost, TypeOK, Keeps
<1>6. ExchangedKnown' /\ ExchangedOnce'
  BY DEF ExchangedKnown, ExchangedOnce
<1>7. OwnerKept'
  BY DEF OwnerKept, ExchangedKnown, TypeOK, Keeps
<1> QED BY <1>4, <1>5, <1>6, <1>7

LEMMA RefreshCreateStep ==
  ASSUME IInv, NEW r \in Req, RefreshCreate(r)
  PROVE  Inner'
<1>1. TypeOK /\ Requests /\ Exchanges /\ Serving
  BY PartsOfIInv DEF Requests
<1>2. /\ pc[r] = "refreshCreate" /\ CreateRefresh(r, "refreshList")
      /\ UNCHANGED <<known, exchanged, cut, job>>
  BY DEF RefreshCreate
<1>3. /\ TypeOK' /\ Requests' /\ Keeps
      /\ stored \subseteq stored' /\ UNCHANGED req
      /\ \A t \in stored' : t \in stored \/ (t \in Token /\ ~ Created(t))
      /\ pc' = [pc EXCEPT ![r] = pc'[r]]
      /\ pc'[r] \in {"refreshList", "cleanCheck"}
  BY <1>1, <1>2, CreateRefreshEffect DEF TypeOK
<1>4. \A s \in Req, t \in Token : Winner(s, t)' <=> Winner(s, t)
  BY <1>1, <1>2, <1>3 DEF Winner, TypeOK
<1>5. Exchanges'
  BY <1>1, <1>2, <1>3, <1>4, CreationKeepsExchanges
<1> QED BY <1>3, <1>5 DEF Inner, Requests, Exchanges

LEMMA RedeemCreateStep ==
  ASSUME IInv, NEW r \in Req, RedeemCreate(r)
  PROVE  Inner'
<1>1. TypeOK /\ Requests /\ Exchanges /\ Serving
  BY PartsOfIInv DEF Requests
<1>2. /\ pc[r] = "redeemCreate" /\ CreateRefresh(r, "respond")
      /\ UNCHANGED <<known, exchanged, job>>
      /\ cut' = IF pc'[r] = "respond" THEN cut ELSE cut \cup {req[r].token}
  BY DEF RedeemCreate
<1>3. req[r].token \in Token
  BY <1>1, <1>2, ServedToken
<1>4. cut' \subseteq Token /\ cut \subseteq cut'
  BY <1>1, <1>2, <1>3 DEF TypeOK
<1>5. /\ TypeOK' /\ Requests' /\ Keeps
      /\ stored \subseteq stored' /\ UNCHANGED req
      /\ \A t \in stored' : t \in stored \/ (t \in Token /\ ~ Created(t))
      /\ pc' = [pc EXCEPT ![r] = pc'[r]]
      /\ pc'[r] \in {"respond", "cleanCheck"}
  BY <1>1, <1>2, <1>4, CreateRefreshEffect
<1>6. \A s \in Req, t \in Token : Winner(s, t)' => Winner(s, t)
  BY <1>1, <1>2, <1>5 DEF Winner, TypeOK
<1>7. \A s \in Req, t \in Token : Winner(s, t) => Winner(s, t)' \/ t \in cut'
  BY <1>1, <1>2, <1>5 DEF Winner, TypeOK
<1>8. Exchanges'
  BY <1>1, <1>2, <1>4, <1>5, <1>6, <1>7, CreationKeepsExchanges
<1> QED BY <1>5, <1>8 DEF Inner, Requests, Exchanges

\* A code is created for a client that hears of it, or of nothing.
LEMMA OAuthAuthorizeStep ==
  ASSUME IInv, OAuthAuthorize
  PROVE  Inner'
<1>1. TypeOK /\ Requests /\ Exchanges /\ Serving
  BY PartsOfIInv DEF Requests
<1>2. PICK n \in Token, c \in Client, u \in User, uri \in Uri, ok \in BOOLEAN :
        /\ ~ Created(n)
        /\ Create(n, [kind |-> "code", client |-> c, user |-> u, uri |-> uri], ok)
        /\ known' = IF ok THEN known \cup {n} ELSE known
  BY DEF OAuthAuthorize
<1>3. UNCHANGED <<pc, req, fresh, exchanged, cut, job>>
  BY DEF OAuthAuthorize
<1>4. [kind |-> "code", client |-> c, user |-> u, uri |-> uri] \in TokenInfo
  BY DEF TokenInfo, Grant
<1>5. /\ stored \subseteq stored' /\ stored' \subseteq stored \cup {n}
      /\ info' \in [Token -> TokenInfo \cup {Nil}]
      /\ age' = age
      /\ \A t \in Token : Created(t) => info'[t] = info[t] /\ t # n /\ Created(t)'
      /\ \A t \in stored' : Created(t)'
      /\ ok => n \in stored' /\ Created(n)'
  BY <1>1, <1>2, <1>4, CreateKeeps
<1>6. Keeps
  BY <1>5 DEF Keeps, Expired
<1>7. TypeOK'
  BY <1>1, <1>2, <1>3, <1>5 DEF TypeOK
<1>8. Requests'
  <2> USE DEF Requests
  <2>1. \A s \in Req : pc[s] \notin {"new", "done"} =>
          req[s].token \in Token /\ Created(req[s].token)
    BY <1>1, ServedToken
  <2>2. Serving'
    BY <1>1, <1>2, <1>3 DEF Serving
  <2>3. Checked'
    BY <1>1, <1>3, <1>5, <2>1 DEF Checked
  <2>4. FreshTokens'
    <3>1. \A s \in Req : fresh[s] # Nil =>
            /\ fresh[s] \notin known' /\ info'[fresh[s]] # Nil
            /\ info'[fresh[s]] = NewRefresh(s)'
      BY <1>1, <1>2, <1>3, <1>5, <2>1
         DEF FreshTokens, NewRefresh, TypeOK, Created
    <3> QED BY <1>1, <1>3, <3>1 DEF FreshTokens
  <2>5. FreshLasts'
    BY <1>1, <1>3, <1>5, <1>6 DEF FreshLasts, FreshTokens, TypeOK, Keeps, Created
  <2>6. CleansExpired'
    BY <1>1, <1>3, <1>6, <2>1 DEF CleansExpired, Keeps
  <2> QED BY <2>2, <2>3, <2>4, <2>5, <2>6
<1>9. Exchanges'
  <2>1. \A s \in Req, t \in Token : Winner(s, t)' <=> Winner(s, t)
    BY <1>3 DEF Winner
  <2> QED BY <1>1, <1>2, <1>3, <1>5, <1>6, <2>1, CreationKeepsExchanges
<1> QED BY <1>7, <1>8, <1>9 DEF Inner, Requests, Exchanges

-----------------------------------------------------------------------------
(***************************************************************************)
(* The answer: the client gets the new token, and the old one is used up.  *)
(***************************************************************************)
\* What a request that answers holds.
LEMMA Returning ==
  ASSUME IInv, NEW r \in Req, pc[r] = "respond"
  PROVE  /\ req[r].token \in known /\ req[r].client \in Client
         /\ fresh[r] \in Token /\ fresh[r] \notin known /\ Created(fresh[r])
         /\ info[fresh[r]].kind = "refresh"
         /\ info[req[r].token].client = req[r].client
         /\ info[fresh[r]].client = req[r].client
         /\ info[fresh[r]].user = info[req[r].token].user
         /\ req[r].token \in Token /\ req[r].token \notin stored
         /\ ~ Used(req[r].token)
<1> USE DEF IInv
<1>1. /\ req[r].token \in known /\ req[r].client \in Client
      /\ info[req[r].token] \in TokenInfo /\ req[r].token \in Token
  BY ServedToken
<1>2. fresh[r] \in Token /\ fresh[r] \notin known /\ Created(fresh[r])
  BY DEF TypeOK, FreshTokens, Created
<1>3. info[fresh[r]] = NewRefresh(r)
  BY DEF FreshTokens
<1>4. info[req[r].token].client = req[r].client
  BY DEF Checked
<1>5. Winner(r, req[r].token)
  BY DEF Winner
<1> QED BY <1>1, <1>2, <1>3, <1>4, <1>5, NewRefreshType DEF OneWinner

LEMMA ReturnTokensStep ==
  ASSUME IInv, NEW r \in Req, ReturnTokens(r)
  PROVE  Inner'
<1> USE DEF IInv
<1> DEFINE t == req[r].token
           n == fresh[r]
           x == [from |-> t, to |-> n, client |-> req[r].client]
<1>1. /\ pc[r] = "respond" /\ known' = known \cup {n}
      /\ exchanged' = exchanged \cup {x}
      /\ UNCHANGED <<stored, info, age, cut, job>>
  BY DEF ReturnTokens, store
<1>2. /\ pc' = [pc EXCEPT ![r] = "done"]
      /\ \A s \in Req \ {r} : req'[s] = req[s] /\ fresh'[s] = fresh[s]
                              /\ pc'[s] = pc[s]
      /\ pc'[r] = "done" /\ fresh'[r] = Nil
  BY DEF ReturnTokens, Finish, TypeOK
<1>3. /\ t \in known /\ t \in Token /\ n \in Token /\ n \notin known
      /\ Created(n) /\ x \in Exchanged /\ t \notin stored /\ ~ Used(t)
  BY <1>1, Returning DEF Exchanged
<1>4. /\ info[n].kind = "refresh" /\ info[t].client = x.client
      /\ info[n].client = x.client /\ info[n].user = info[t].user
  BY <1>1, Returning
<1>5. x.from = t /\ x.to = n
  OBVIOUS
<1>6. n # Nil /\ t # n
  BY <1>3, NilApart
<1>7. \A s \in Req \ {r} : fresh[s] # n
  BY <1>6 DEF FreshTokens
<1>8. n \in stored \/ Expired(n) \/ n \in misread
  BY <1>6 DEF FreshLasts
<1>9. Winner(r, t)
  BY <1>1 DEF Winner
<1>10. TypeOK'
  <2>1. /\ pc' \in [Req -> Label]
        /\ req' \in [Req -> TokenRequest \cup {Nil}]
        /\ fresh' \in [Req -> Token \cup {Nil}]
    BY MoveTyped DEF ReturnTokens, Label
  <2> QED BY <1>1, <1>3, <2>1 DEF TypeOK, Created
<1> HIDE DEF t, n, x
<1>11. Serving' /\ Checked'
  BY <1>1, <1>2 DEF Serving, Checked
<1>12. FreshTokens'
  BY <1>1, <1>2, <1>7 DEF FreshTokens, NewRefresh
<1>13. FreshLasts' /\ CleansExpired'
  BY <1>1, <1>2 DEF FreshLasts, CleansExpired, Expired
<1>14. \A y \in Token : Used(y)' <=> Used(y) \/ y = t
  BY <1>1, <1>5 DEF Used
<1>15. \A s \in Req, y \in Token :
         Winner(s, y)' <=> Winner(s, y) /\ s # r
  BY <1>2 DEF Winner
<1>16. OneWinner'
  BY <1>1, <1>3, <1>9, <1>14, <1>15 DEF OneWinner, TypeOK
<1>17. ExchangedKnown'
  BY <1>1, <1>3, <1>5 DEF ExchangedKnown
<1>18. ExchangedOnce'
  BY <1>1, <1>3, <1>5 DEF ExchangedOnce, Used
<1>19. OwnerKept'
  BY <1>1, <1>4, <1>5 DEF OwnerKept
<1>20. NoTokenLost'
  <2>1. \A y \in Token : Winner(r, y) => y = t
    BY DEF Winner, t
  <2>2. \A y \in Token : Expired(y)' <=> Expired(y)
    BY <1>1 DEF Expired
  <2> QED BY <1>1, <1>3, <1>8, <1>14, <1>15, <2>1, <2>2
          DEF NoTokenLost, TypeOK
<1> QED BY <1>10, <1>11, <1>12, <1>13, <1>16, <1>17, <1>18, <1>19, <1>20
        DEF Inner, Requests, Exchanges

-----------------------------------------------------------------------------
\* A crash between the delete and the answer cuts the exchange short.
LEMMA CrashStep ==
  ASSUME IInv, NEW r \in Req, Crash(r)
  PROVE  Inner'
<1>1. TypeOK /\ Requests /\ Exchanges /\ Serving
  BY PartsOfIInv DEF Requests
<1>2. /\ pc[r] \notin {"new", "done"} /\ Finish(r)
      /\ UNCHANGED <<stored, info, age, known, exchanged, job>>
      /\ cut' = IF pc[r] \in {"redeemCreate", "respond"}
                THEN cut \cup {req[r].token} ELSE cut
  BY DEF Crash, store
<1>3. req[r].token \in Token
  BY <1>1, <1>2, ServedToken
<1>4. TypeOK'
  BY <1>1, <1>2, <1>3, MoveTyped DEF TypeOK, Created
<1>5. Requests'
  <2>1. Lasts
    BY <1>1, <1>2, NilApart DEF Lasts, Requests, FreshLasts, Expired
  <2> QED BY <1>1, <1>2, <2>1, UnchangedKeeps, LeaveKeepsRequests
<1>6. \A s \in Req, t \in Token : Winner(s, t)' <=> Winner(s, t) /\ s # r
  BY <1>1, <1>2 DEF Winner, Finish, TypeOK
<1>7. \A t \in Token : Winner(r, t) => t \in cut'
  BY <1>2 DEF Winner
<1>8. Exchanges'
  BY <1>1, <1>2, <1>6, <1>7, UnchangedKeeps, CreationKeepsExchanges
<1> QED BY <1>4, <1>5, <1>8 DEF Inner, Requests, Exchanges

\* Time passing expires tokens and changes nothing else.
LEMMA TickStep ==
  ASSUME IInv, Tick
  PROVE  Inner'
<1>1. TypeOK /\ Requests /\ Exchanges /\ Serving
  BY PartsOfIInv DEF Requests
<1>2. /\ UNCHANGED <<stored, info, known, pc, req, fresh, exchanged, cut, job>>
      /\ age' \in [Token -> 0..AgeLimit]
      /\ \A t \in Token : Expired(t) => Expired(t)'
  BY <1>1, TickKeeps DEF Tick
<1>3. Keeps
  BY <1>2 DEF Keeps, Created
<1>4. TypeOK'
  BY <1>1, <1>2 DEF TypeOK, Created
<1>5. Requests'
  <2> USE DEF Requests
  <2>1. Serving' /\ Checked' /\ FreshTokens'
    BY <1>1, <1>2 DEF Serving, Checked, FreshTokens, NewRefresh
  <2>2. FreshLasts'
    BY <1>1, <1>2, NilApart DEF FreshLasts, TypeOK
  <2>3. CleansExpired'
    <3>1. \A s \in Req : pc[s] \notin {"new", "done"} => req[s].token \in Token
      BY <1>1, ServedToken
    <3> QED BY <1>1, <1>2, <3>1 DEF CleansExpired
  <2> QED BY <2>1, <2>2, <2>3
<1>6. \A s \in Req, t \in Token : Winner(s, t)' <=> Winner(s, t)
  BY <1>2 DEF Winner
<1>7. Exchanges'
  BY <1>1, <1>2, <1>3, <1>6, CreationKeepsExchanges
<1> QED BY <1>4, <1>5, <1>7 DEF Inner, Requests, Exchanges

-----------------------------------------------------------------------------
(***************************************************************************)
(* The invariant holds.                                                    *)
(***************************************************************************)
LEMMA InitIInv == Init => IInv
<1> SUFFICES ASSUME Init PROVE IInv
  OBVIOUS
<1>1. TypeOK
  BY ExpAssumption DEF Init, TypeOK, AgeLimit, Label
<1>2. Serving /\ Checked /\ FreshTokens /\ FreshLasts /\ CleansExpired
  BY DEF Init, Serving, Checked, FreshTokens, FreshLasts, CleansExpired
<1>3. OneWinner /\ ExchangedKnown /\ ExchangedOnce /\ OwnerKept /\ NoTokenLost
  BY DEF Init, OneWinner, Winner, Used, ExchangedKnown, ExchangedOnce,
         OwnerKept, NoTokenLost
<1>4. ReadOld
  BY DEF Init, ReadOld
<1> QED BY <1>1, <1>2, <1>3, <1>4 DEF IInv

LEMMA StepInv ==
  ASSUME IInv, NEW r \in Req, Step(r)
  PROVE  Inner'
BY RedeemCheckStep, RefreshCheckStep, RefreshCreateStep, RemoveListStep,
   RemoveDeleteStep, RedeemCreateStep, ReturnTokensStep, CleanCheckStep,
   CleanListStep, CleanDeleteStep
   DEF Step

\* Requests leave the job and the ages alone.
LEMMA StepApart ==
  ASSUME NEW r \in Req, Step(r)
  PROVE  UNCHANGED <<age, doomed>>
<1>1. CASE RefreshCreate(r) \/ RedeemCreate(r)
  BY <1>1 DEF RefreshCreate, RedeemCreate, CreateRefresh, Create, store
<1>2. CASE RemoveDelete(r) \/ CleanDelete(r)
  BY <1>2 DEF RemoveDelete, CleanDelete, Delete
<1>3. CASE \/ RedeemCheck(r) \/ RefreshCheck(r) \/ RemoveList(r)
           \/ ReturnTokens(r) \/ CleanCheck(r) \/ CleanList(r)
  BY <1>3 DEF RedeemCheck, RefreshCheck, RemoveList, ReturnTokens, CleanCheck,
     CleanList, store
<1> QED BY <1>1, <1>2, <1>3 DEF Step

\* The steps of the cleanup job.
CleanupSteps ==
  \/ CleanupStart \/ CleanupDelete \/ CleanupAbort
  \/ \E t \in Token : CleanupRead(t)

LEMMA NextIInv == IInv /\ [Next]_vars => IInv'
<1> SUFFICES ASSUME IInv, [Next]_vars PROVE Inner' /\ ReadOld'
  BY PartsOfIInv DEF IInv, Inner, Requests, Exchanges
<1>0. TypeOK /\ ReadOld
  BY DEF IInv
<1>1. CASE OAuthAuthorize
  <2>1. UNCHANGED <<age, doomed>>
    BY <1>1 DEF OAuthAuthorize, Create, store
  <2> QED BY <1>0, <1>1, <2>1, OAuthAuthorizeStep, ReadOldStays
<1>2. CASE \E r \in Req : ReceiveToken(r)
  BY <1>0, <1>2, ReceiveTokenStep, ReadOldStays DEF ReceiveToken, store
<1>3. CASE \E r \in Req : Step(r)
  BY <1>0, <1>3, StepInv, StepApart, ReadOldStays
<1>4. CASE \E r \in Req : Crash(r)
  BY <1>0, <1>4, CrashStep, ReadOldStays DEF Crash, store
<1>5. CASE CleanupSteps
  BY <1>5, CleanupLooks, CleanupDeleteStep DEF CleanupSteps
<1>6. CASE Tick
  BY <1>0, <1>6, TickStep, ReadOldStays DEF Tick
<1>7. CASE UNCHANGED vars
  BY <1>7 DEF vars, store, IInv, Inner, Requests, Exchanges, TypeOK, Created,
     Serving, OneWinner, Winner, Used, Checked, FreshTokens, NewRefresh,
     FreshLasts, Expired, CleansExpired, ExchangedKnown, ExchangedOnce,
     OwnerKept, NoTokenLost, ReadOld
<1> QED BY <1>1, <1>2, <1>3, <1>4, <1>5, <1>6, <1>7 DEF Next, CleanupSteps

(***************************************************************************)
(* Nor need the namespace be empty: it holds from any state it describes,  *)
(* such as one with the secrets of an earlier deployment, by every step    *)
(* (oauth2server.go, k8ssecret.go, delete-secret.yaml).                       *)
(***************************************************************************)
THEOREM InvariantPreserved == IInv /\ [][Next]_vars => []IInv
BY NextIInv, PTL

\* The inductive invariant holds of every reachable state, for any number of
\* concurrent token requests.
THEOREM TokensInvariant == Spec => []IInv
BY InitIInv, InvariantPreserved, PTL DEF Spec

\* A code or refresh token is exchanged at most once, by RemoveByCode and
\* RemoveByRefresh failing for all requests but one.
THEOREM OneExchangeEach == Spec => []ExchangedOnce
<1>1. IInv => ExchangedOnce
  BY DEF IInv
<1> QED BY <1>1, TokensInvariant, PTL

\* Refresh tokens stay with the client and user the code was issued for.
THEOREM OwnersAreKept == Spec => []OwnerKept
<1>1. IInv => OwnerKept
  BY DEF IInv
<1> QED BY <1>1, TokensInvariant, PTL

\* No competing request or failed attempt costs a client a live token, and the
\* cleanup job none but one whose age it could not read.
THEOREM NoTokensLost == Spec => []NoTokenLost
<1>1. IInv => NoTokenLost
  BY DEF IInv
<1> QED BY <1>1, TokensInvariant, PTL

-----------------------------------------------------------------------------
(***************************************************************************)
(* What a step does to the store.                                          *)
(***************************************************************************)
\* The reasons for which a secret may be removed.
Removable(t) ==
  \/ Expired(t) \/ Guessed(t)
  \/ \E r \in Req : /\ pc[r] \in {"redeemDelete", "refreshDelete"}
                    /\ req[r].token = t
                    /\ req[r].client = info[t].client

\* A step adds secrets not seen before, or removes one with reason.
StoreEffect ==
  \/ /\ stored \subseteq stored'
     /\ \A t \in stored' \ stored : ~ Created(t)
  \/ \E t \in stored : stored' = stored \ {t} /\ Removable(t)

LEMMA CreateRefreshStore ==
  ASSUME IInv, NEW r \in Req, NEW then, pc[r] \in {"refreshCreate", "redeemCreate"},
         CreateRefresh(r, then)
  PROVE  Keeps /\ StoreEffect
<1>1. info[req[r].token] \in TokenInfo
  BY ServedToken DEF IInv
<1>2. NewRefresh(r) \in TokenInfo
  BY <1>1, NewRefreshType
<1>3. PICK n \in Token, ok \in BOOLEAN :
        ~ Created(n) /\ Create(n, NewRefresh(r), ok)
  BY DEF CreateRefresh
<1>4. /\ stored \subseteq stored' /\ stored' \subseteq stored \cup {n}
      /\ age' = age
      /\ \A t \in Token : Created(t) => info'[t] = info[t] /\ t # n /\ Created(t)'
  BY <1>2, <1>3, CreateKeeps DEF IInv
<1> QED BY <1>3, <1>4 DEF Keeps, Expired, StoreEffect

LEMMA DeleteStore ==
  ASSUME NEW t \in Token, NEW ok \in BOOLEAN, Delete(t, ok), Removable(t)
  PROVE  Keeps /\ StoreEffect
<1>1. Keeps
  BY DeleteKeeps, UnchangedKeeps
<1>2. stored' = stored \/ (t \in stored /\ stored' = stored \ {t})
  BY DEF Delete
<1> QED BY <1>1, <1>2 DEF StoreEffect

LEMMA StepStore ==
  ASSUME IInv, NEW r \in Req, Step(r)
  PROVE  Keeps /\ StoreEffect
<1>1. CASE UNCHANGED store
  BY <1>1, UnchangedKeeps DEF store, StoreEffect
<1>2. CASE RefreshCreate(r) \/ RedeemCreate(r)
  BY <1>2, CreateRefreshStore DEF RefreshCreate, RedeemCreate
<1>3. CASE RemoveDelete(r)
  <2>1. pc[r] \in {"redeemDelete", "refreshDelete"}
    BY <1>3 DEF RemoveDelete
  <2>2. info[req[r].token].client = req[r].client /\ req[r].token \in Token
    BY <2>1, ServedToken DEF IInv, Checked
  <2> QED BY <1>3, <2>1, <2>2, DeleteStore DEF RemoveDelete, Removable
<1>4. CASE CleanDelete(r)
  <2>1. Expired(req[r].token) /\ req[r].token \in Token
    BY <1>4, ServedToken DEF IInv, CleansExpired, CleanDelete
  <2> QED BY <1>4, <2>1, DeleteStore DEF CleanDelete, Removable
<1>5. CASE \/ RedeemCheck(r) \/ RefreshCheck(r) \/ RemoveList(r)
           \/ ReturnTokens(r) \/ CleanCheck(r) \/ CleanList(r)
  BY <1>1, <1>5 DEF RedeemCheck, RefreshCheck, RemoveList, ReturnTokens,
     CleanCheck, CleanList
<1> QED BY <1>2, <1>3, <1>4, <1>5 DEF Step

LEMMA NextStore ==
  ASSUME IInv, [Next]_vars
  PROVE  Keeps /\ StoreEffect
<1>1. CASE UNCHANGED store
  BY <1>1, UnchangedKeeps DEF store, StoreEffect
<1>2. CASE OAuthAuthorize
  <2>1. PICK n \in Token, c \in Client, u \in User, uri \in Uri, ok \in BOOLEAN :
          /\ ~ Created(n)
          /\ Create(n, [kind |-> "code", client |-> c, user |-> u, uri |-> uri], ok)
    BY <1>2 DEF OAuthAuthorize
  <2>2. [kind |-> "code", client |-> c, user |-> u, uri |-> uri] \in TokenInfo
    BY DEF TokenInfo, Grant
  <2>3. /\ stored \subseteq stored' /\ stored' \subseteq stored \cup {n}
        /\ age' = age
        /\ \A t \in Token : Created(t) => info'[t] = info[t] /\ t # n /\ Created(t)'
    BY <2>1, <2>2, CreateKeeps DEF IInv
  <2> QED BY <2>1, <2>3 DEF Keeps, Expired, StoreEffect
<1>3. CASE \E r \in Req : Step(r)
  BY <1>3, StepStore
<1>4. CASE \E r \in Req : ReceiveToken(r) \/ Crash(r)
  BY <1>1, <1>4 DEF ReceiveToken, Crash
<1>5. CASE CleanupSteps
  <2>1. CASE CleanupDelete
    <3>1. PICK ok \in BOOLEAN : Delete(doomed.token, ok)
      BY <2>1 DEF CleanupDelete
    <3> QED BY <2>1, <3>1, CleanupDeletes, DeleteStore DEF Removable
  <2> QED BY <1>1, <1>5, <2>1, CleanupLooks DEF CleanupSteps
<1>6. CASE Tick
  BY <1>6, TickKeeps DEF Tick, Keeps, Created, StoreEffect, IInv
<1>7. CASE UNCHANGED vars
  BY <1>1, <1>7 DEF vars, store
<1> QED BY <1>2, <1>3, <1>4, <1>5, <1>6, <1>7 DEF Next, CleanupSteps

\* No step removes a live secret but the exchange of it by its own client, and a
\* job that could not read how old it is: not RemoveByCode of another request,
\* not deleteExpiredAuthCode, no job that read the age long before its delete.
THEOREM LiveSecretsRemain == Spec => LiveSecretsStay
<1>1. IInv /\ [Next]_vars =>
        [\A t \in stored \ stored' :
           \/ Expired(t) \/ Guessed(t)
           \/ \E r \in Req : /\ pc[r] \in {"redeemDelete", "refreshDelete"}
                             /\ req[r].token = t
                             /\ req[r].client = info[t].client]_vars
  BY NextStore DEF StoreEffect, Removable
<1> QED BY <1>1, TokensInvariant, PTL DEF Spec, LiveSecretsStay

-----------------------------------------------------------------------------
(***************************************************************************)
(* Refinement: every step is a step of the abstract chains of tokens.      *)
(***************************************************************************)
LEMMA InitChain == Init => Chain!Init
BY DEF Init, Chain!Init

\* Steps that give no client a token end the validity of one, or change
\* nothing a client could tell.
LEMMA StoreStepOfChain ==
  ASSUME IInv, Keeps, StoreEffect, UNCHANGED <<known, exchanged>>
  PROVE  [Chain!Next]_Chain!vars
<1>1. known \subseteq Token /\ \A t \in known : Created(t)
  BY DEF IInv, TypeOK
<1>2. [t \in known' |-> <<info'[t].client, info'[t].user>>]
        = [t \in known |-> <<info[t].client, info[t].user>>]
  BY <1>1 DEF Keeps
<1>3. {<<x.from, x.to>> : x \in exchanged'} = {<<x.from, x.to>> : x \in exchanged}
  OBVIOUS
<1>4. CASE known' \cap stored' = known \cap stored
  BY <1>2, <1>3, <1>4 DEF Chain!vars
<1>5. ASSUME NEW t \in known \cap stored,
             known' \cap stored' = (known \cap stored) \ {t}
      PROVE  [Chain!Next]_Chain!vars
  BY <1>2, <1>3, <1>5 DEF Chain!Next, Chain!Spend
<1>6. CASE /\ stored \subseteq stored'
           /\ \A t \in stored' \ stored : ~ Created(t)
  BY <1>1, <1>4, <1>6
<1>7. ASSUME NEW t \in stored, stored' = stored \ {t}
      PROVE  [Chain!Next]_Chain!vars
  BY <1>4, <1>5, <1>7
<1> QED BY <1>6, <1>7 DEF StoreEffect

\* A code the client hears of is issued to it for the user.
LEMMA IssueStepOfChain ==
  ASSUME IInv, OAuthAuthorize
  PROVE  [Chain!Next]_Chain!vars
<1> DEFINE own == [t \in known |-> <<info[t].client, info[t].user>>]
<1>1. PICK n \in Token, c \in Client, u \in User, uri \in Uri, ok \in BOOLEAN :
        /\ ~ Created(n)
        /\ Create(n, [kind |-> "code", client |-> c, user |-> u, uri |-> uri], ok)
        /\ known' = IF ok THEN known \cup {n} ELSE known
        /\ exchanged' = exchanged
  BY DEF OAuthAuthorize
<1>2. CASE ~ ok
  BY <1>1, <1>2, NextStore, StoreStepOfChain DEF Next
<1>3. CASE ok
  <2> DEFINE i == [kind |-> "code", client |-> c, user |-> u, uri |-> uri]
  <2>0. Create(n, i, ok)
    BY <1>1
  <2>1. i \in TokenInfo /\ i.client = c /\ i.user = u
    BY DEF TokenInfo, Grant
  <2> HIDE DEF i
  <2>2. /\ stored \subseteq stored' /\ stored' \subseteq stored \cup {n}
        /\ \A t \in Token : Created(t) => info'[t] = info[t] /\ t # n
        /\ ok => n \in stored' /\ info'[n] = i
    BY <1>1, <2>0, <2>1, CreateKeeps DEF IInv
  <2>3. n \notin known /\ known' = known \cup {n} /\ known \subseteq Token
        /\ \A t \in known : Created(t)
    BY <1>1, <1>3 DEF IInv, TypeOK
  <2>4. known' \cap stored' = (known \cap stored) \cup {n}
    BY <1>3, <2>2, <2>3
  <2>5. [t \in known' |-> <<info'[t].client, info'[t].user>>]
          = [t \in DOMAIN own \cup {n} |-> IF t = n THEN <<c, u>> ELSE own[t]]
    BY <1>3, <2>1, <2>2, <2>3
  <2>6. <<c, u>> \in Client \X User /\ n \in Token \ DOMAIN own
    BY <2>3
  <2>7. {<<x.from, x.to>> : x \in exchanged'} = {<<x.from, x.to>> : x \in exchanged}
    BY <1>1
  <2>8. Chain!Issue
    BY <2>4, <2>5, <2>6, <2>7 DEF Chain!Issue, Chain!Extends
  <2> QED BY <2>8 DEF Chain!Next
<1> QED BY <1>2, <1>3

\* An answer exchanges a token that is spent for a new one of the same
\* client and user.
LEMMA ExchangeStepOfChain ==
  ASSUME IInv, NEW r \in Req, ReturnTokens(r)
  PROVE  [Chain!Next]_Chain!vars
<1> DEFINE own == [t \in known |-> <<info[t].client, info[t].user>>]
           nxt == {<<x.from, x.to>> : x \in exchanged}
           t == req[r].token
           n == fresh[r]
           y == [from |-> t, to |-> n, client |-> req[r].client]
<1>1. /\ pc[r] = "respond" /\ known' = known \cup {n}
      /\ exchanged' = exchanged \cup {y} /\ UNCHANGED <<stored, info>>
  BY DEF ReturnTokens, store
<1>2. /\ t \in known /\ t \notin stored /\ ~ Used(t)
      /\ n \in Token /\ n \notin known
      /\ <<info[n].client, info[n].user>> = <<info[t].client, info[t].user>>
  BY <1>1, Returning
<1>3. \A p \in nxt : p[1] # t
  BY <1>2 DEF Used
<1>4. y.from = t /\ y.to = n
  OBVIOUS
<1> HIDE DEF t, n, y
<1>5. {<<x.from, x.to>> : x \in exchanged'} = nxt \cup {<<t, n>>}
  BY <1>1, <1>4
<1>6. [x \in known' |-> <<info'[x].client, info'[x].user>>]
        = [x \in DOMAIN own \cup {n} |-> IF x = n THEN own[t] ELSE own[x]]
  BY <1>1, <1>2
<1>7. known' \cap stored' \in {known \cap stored, (known \cap stored) \cup {n}}
  BY <1>1
<1>8. t \in DOMAIN own \ (known \cap stored) /\ n \in Token \ DOMAIN own
  BY <1>2
<1>9. Chain!Exchange
  BY <1>3, <1>5, <1>6, <1>7, <1>8 DEF Chain!Exchange, Chain!Extends
<1> QED BY <1>9 DEF Chain!Next

LEMMA ChainStep ==
  ASSUME IInv, [Next]_vars
  PROVE  [Chain!Next]_Chain!vars
<1>1. Keeps /\ StoreEffect
  BY NextStore
<1>2. CASE OAuthAuthorize
  BY <1>2, IssueStepOfChain
<1>3. CASE \E r \in Req : ReturnTokens(r)
  BY <1>3, ExchangeStepOfChain
<1>4. CASE UNCHANGED <<known, exchanged>>
  BY <1>1, <1>4, StoreStepOfChain
<1>5. CASE \E r \in Req : Step(r) /\ ~ ReturnTokens(r)
  BY <1>4, <1>5 DEF Step, RedeemCheck, RefreshCheck, RefreshCreate, RemoveList,
     RemoveDelete, RedeemCreate, CleanCheck, CleanList, CleanDelete
<1>6. CASE \/ \E r \in Req : ReceiveToken(r) \/ Crash(r)
           \/ CleanupSteps \/ Tick \/ UNCHANGED vars
  BY <1>4, <1>6, CleanupLooks, CleanupDeletes
     DEF ReceiveToken, Crash, CleanupSteps, Tick, vars
<1> QED BY <1>2, <1>3, <1>5, <1>6 DEF Next, CleanupSteps

\* The endpoint and its store behave as chains of tokens each worth one
\* exchange, which no exchange passes to another client or user.
THEOREM RefinesChain == Spec => ImplementsChain
<1>1. IInv /\ [Next]_vars => [Chain!Next]_Chain!vars
  BY ChainStep
<1> QED BY TokensInvariant, InitChain, <1>1, PTL
        DEF Spec, ImplementsChain, Chain!Spec

\* What follows for the clients of the endpoint.
ChainPromise == INSTANCE TokenChainProofs WITH
  Owner <- Client \X User,
  owner <- [t \in known |-> <<info[t].client, info[t].user>>],
  valid <- known \cap stored,
  next  <- {<<x.from, x.to>> : x \in exchanged}

\* The codes and refresh tokens that clients get form chains: however requests
\* overtake each other, no token is answered twice, no exchange leads back to an
\* earlier token, and no token of a chain but its last is usable.
THEOREM TokensFormChains == Spec => []Chain!Linear
<1>1. ChainPromise!Spec => []ChainPromise!Linear
  BY ChainPromise!ChainsAreLinear
<1>2. Chain!Linear <=> ChainPromise!Linear
  BY DEF Chain!Linear, ChainPromise!Linear
<1>3. Chain!Init <=> ChainPromise!Init
  BY DEF Chain!Init, ChainPromise!Init
<1>4. [Chain!Next]_Chain!vars <=> [ChainPromise!Next]_ChainPromise!vars
  BY DEF Chain!Next, ChainPromise!Next, Chain!Issue, ChainPromise!Issue,
     Chain!Spend, ChainPromise!Spend, Chain!Exchange, ChainPromise!Exchange,
     Chain!Extends, ChainPromise!Extends, Chain!vars, ChainPromise!vars
<1> QED BY <1>1, <1>2, <1>3, <1>4, RefinesChain, PTL
        DEF ImplementsChain, Chain!Spec, ChainPromise!Spec
=============================================================================
