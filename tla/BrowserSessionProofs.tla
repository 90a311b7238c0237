------------------------ MODULE BrowserSessionProofs -------------------------
(***************************************************************************)
(* Proofs about BrowserSession, for any users, browsers and tabs and any   *)
(* SessionMaxAge.                                                          *)
(***************************************************************************)
EXTENDS BrowserSession, TLAPS

-----------------------------------------------------------------------------
(***************************************************************************)
(* Cookies.                                                                *)
(***************************************************************************)
LEMMA LifetimeType == Lifetime \in Nat
BY AgeAssumption DEF Lifetime

\* Put makes a cookie.
LEMMA NewCookieType ==
  ASSUME NEW u \in User, NEW first \in BOOLEAN
  PROVE  /\ NewCookie(u, first) \in Cookie
         /\ NewCookie(u, first) \notin {Nil, Keep}
<1>1. NewCookie(u, first) \in Cookie
  BY LifetimeType DEF NewCookie, Cookie
<1> QED BY <1>1, NilAssumption

\* The time that passes changes nothing of a cookie but the time left.
LEMMA AgedCookie ==
  ASSUME NEW c \in Cookie \cup {Nil, Keep}
  PROVE  /\ c \in {Nil, Keep} => Aged(c) = c
         /\ c \in Cookie =>
              /\ Aged(c) \in Cookie
              /\ Aged(c).user = c.user /\ Aged(c).first = c.first
              /\ Aged(c) \notin {Nil, Keep}
<1>1. CASE c \in {Nil, Keep}
  BY <1>1, NilAssumption DEF Aged
<1>2. CASE c \in Cookie
  <2>1. c \notin {Nil, Keep}
    BY <1>2, NilAssumption
  <2>2. CASE c.left > 0
    <3> DEFINE old == [c EXCEPT !.left = @ - 1]
    <3>1. old \in Cookie /\ old.user = c.user /\ old.first = c.first
      BY <1>2, <2>2, LifetimeType DEF Cookie
    <3>2. Aged(c) = old
      BY <2>1, <2>2 DEF Aged
    <3> QED BY <1>2, <2>1, <3>1, <3>2, NilAssumption
  <2>3. CASE ~ c.left > 0
    BY <1>2, <2>1, <2>3 DEF Aged
  <2> QED BY <2>2, <2>3
<1> QED BY <1>1, <1>2

\* So an aged cookie is as true a copy as it was.
LEMMA AgedTrue ==
  ASSUME NEW b \in Browser, NEW c \in Cookie \cup {Nil, Keep}, True(b, c)
  PROVE  True(b, Aged(c))
BY AgedCookie, NilAssumption DEF True

-----------------------------------------------------------------------------
(***************************************************************************)
(* What every step does to the facts the cookies copy.                     *)
(***************************************************************************)
FactsGrow ==
  /\ firstLogin' \in [User -> BOOLEAN]
  /\ \A u \in User : firstLogin'[u] => firstLogin[u]
  /\ verified \subseteq verified' /\ verified' \subseteq Entry
  /\ codes' \subseteq Entry
  /\ \A x \in codes' \ codes : x \in verified /\ ~ firstLogin[x.user]

LEMMA FactsUnchanged ==
  ASSUME IInv, UNCHANGED Account
  PROVE  FactsGrow
BY DEF IInv, TypeOK, Account, FactsGrow

LEMMA FactsKeepCodes ==
  ASSUME IInv, FactsGrow
  PROVE  CodesEarned'
<1> SUFFICES ASSUME NEW x \in codes'
             PROVE  x \in verified' /\ ~ firstLogin'[x.user]
  BY DEF CodesEarned
<1>1. x \in verified /\ ~ firstLogin[x.user]
  BY DEF IInv, CodesEarned, FactsGrow
<1>2. x.user \in User
  BY DEF FactsGrow, Entry
<1> QED BY <1>1, <1>2 DEF FactsGrow

\* A first login that ends, and a password that is accepted, make no cookie
\* untrue.
LEMMA TrueStays ==
  ASSUME IInv, FactsGrow, NEW b \in Browser,
         NEW c \in Cookie \cup {Nil, Keep}, True(b, c)
  PROVE  True(b, c)'
<1>1. CASE c \in {Nil, Keep}
  BY <1>1 DEF True
<1>2. CASE c \in Cookie
  <2>1. c.user \in User
    BY <1>2 DEF Cookie
  <2> QED BY <2>1 DEF True, FactsGrow
<1> QED BY <1>1, <1>2

\* Where the cookies of the browsers and of the requests stay, they stay true.
LEMMA CookiesStay ==
  ASSUME IInv, FactsGrow, UNCHANGED <<jar, req>>
  PROVE  /\ \A b \in Browser : True(b, jar[b])'
         /\ \A t \in Tab : req'[t] # Nil => True(HomeOf[t], req[t].cookie)'
<1>1. ASSUME NEW b \in Browser PROVE True(b, jar[b])'
  <2>1. jar[b] \in Cookie \cup {Nil, Keep} /\ True(b, jar[b])
    BY DEF IInv, TypeOK, CookiesTrue
  <2> QED BY <2>1, TrueStays DEF True
<1>2. ASSUME NEW t \in Tab, req[t] # Nil
      PROVE  True(HomeOf[t], req[t].cookie)'
  <2>1. /\ req[t].cookie \in Cookie \cup {Nil, Keep}
        /\ True(HomeOf[t], req[t].cookie) /\ HomeOf[t] \in Browser
    BY <1>2, HomeAssumption DEF IInv, TypeOK, CookiesTrue, Request
  <2> QED BY <2>1, TrueStays DEF True
<1> QED BY <1>1, <1>2

\* So do those of the answers under way.
LEMMA RepliesStay ==
  ASSUME IInv, FactsGrow, NEW t \in Tab, reply[t] # Nil, reply'[t] = reply[t]
  PROVE  True(HomeOf[t], reply[t].set)'
<1>1. /\ reply[t].set \in Cookie \cup {Nil, Keep}
      /\ True(HomeOf[t], reply[t].set) /\ HomeOf[t] \in Browser
  BY HomeAssumption DEF IInv, TypeOK, CookiesTrue, Reply
<1> QED BY <1>1, TrueStays DEF True

-----------------------------------------------------------------------------
(***************************************************************************)
(* A handler that answers.                                                 *)
(***************************************************************************)
LEMMA Answering ==
  ASSUME IInv, FactsGrow,
         NEW t \in Tab, NEW set \in Cookie \cup {Nil, Keep}, NEW ok \in BOOLEAN,
         phase[t] \in {"sent", "verified", "checked"},
         Answer(t, set, ok),
         True(HomeOf[t], set)',
         HomeOf[t] \in out => set \in {Nil, Keep},
         req[t].op \in {"revert", "logout"} /\ ok => set = Nil
  PROVE  IInv'
<1>1. TypeOK'
  BY DEF IInv, TypeOK, FactsGrow, Answer, Reply
<1>2. CookiesTrue'
  <2>1. ASSUME NEW s \in Tab, reply'[s] # Nil
        PROVE  True(HomeOf[s], reply[s].set)'
    <3>1. CASE s = t
      BY <3>1 DEF IInv, TypeOK, Answer, True
    <3>2. CASE s # t
      <4>1. reply'[s] = reply[s]
        BY <3>2 DEF IInv, TypeOK, Answer
      <4> QED BY <2>1, <4>1, RepliesStay
    <3> QED BY <3>1, <3>2
  <2>2. UNCHANGED <<jar, req>>
    BY DEF Answer
  <2> QED BY <2>1, <2>2, CookiesStay DEF CookiesTrue
<1>3. HandlersKnow'
  <2>1. reply'[t] \in Reply
    BY DEF IInv, TypeOK, Answer, Reply
  <2>2. \A s \in Tab : phase[s] # "idle" => req[s] \in Request
    BY DEF IInv, TypeOK, HandlersKnow
  <2>3. \A s \in Tab : phase'[s] = "answered" => reply'[s] # Nil
    BY <2>1, NilAssumption DEF IInv, TypeOK, HandlersKnow, Answer
  <2> QED BY <2>2, <2>3
      DEF IInv, TypeOK, HandlersKnow, FactsGrow, Answer, Request
<1>4. QuietAfterLogout'
  BY DEF IInv, TypeOK, QuietAfterLogout, HandlersKnow, Answer
<1>5. CodesEarned' /\ LoggedOutStays'
  BY FactsKeepCodes DEF IInv, LoggedOutStays, Answer
<1> QED BY <1>1, <1>2, <1>3, <1>4, <1>5 DEF IInv

\* Every handler leaves the invariant true.
LEMMA ServeStep ==
  ASSUME IInv, NEW t \in Tab, Serve(t)
  PROVE  IInv'
<1> DEFINE c == Get(req[t].cookie)
<1>1. CASE OAuthAuthorize(t)
  <2>1. /\ phase[t] = "sent" /\ req[t] \in Request
        /\ req[t].op = "authorize"
    BY <1>1 DEF OAuthAuthorize, Serving, IInv, TypeOK, HandlersKnow
  <2>2. CASE UNCHANGED codes
    <3>1. FactsGrow
      BY <1>1, <2>2, FactsUnchanged DEF OAuthAuthorize, Account
    <3>2. \E set \in {Nil, Keep}, ok \in BOOLEAN : Answer(t, set, ok)
      BY <1>1, <2>2 DEF OAuthAuthorize, Flushed
    <3> QED BY <2>1, <3>1, <3>2, Answering DEF True
  <2>3. CASE /\ c # Nil /\ ~ c.first
             /\ codes' = codes \cup {[browser |-> HomeOf[t], user |-> c.user]}
             /\ Answer(t, Keep, TRUE)
    <3>1. c = req[t].cookie /\ c \in Cookie /\ HomeOf[t] \in Browser
      BY <2>1, <2>3, HomeAssumption DEF Get, Request
    <3>2. True(HomeOf[t], c)
      BY <2>1, <3>1, NilAssumption DEF IInv, CookiesTrue
    <3>3. /\ [browser |-> HomeOf[t], user |-> c.user] \in verified
          /\ ~ firstLogin[c.user]
      BY <2>3, <3>1, <3>2, NilAssumption DEF True
    <3>4. FactsGrow
      BY <1>1, <2>3, <3>3 DEF FactsGrow, OAuthAuthorize, IInv, TypeOK
    <3> QED BY <2>1, <2>3, <3>4, Answering DEF True
  <2> QED BY <1>1, <2>2, <2>3 DEF OAuthAuthorize
<1>2. CASE LoginVerify(t)
  <2> DEFINE u == req[t].user
  <2>1. /\ phase[t] = "sent" /\ req[t] \in Request
        /\ req[t].op = "login" /\ u \in User /\ HomeOf[t] \in Browser
    BY <1>2, HomeAssumption
    DEF LoginVerify, Serving, IInv, TypeOK, HandlersKnow
  <2>2. CASE Answer(t, Keep, FALSE) /\ UNCHANGED verified
    <3>1. FactsGrow
      BY <1>2, <2>2, FactsUnchanged DEF LoginVerify, Account
    <3> QED BY <2>1, <2>2, <3>1, Answering DEF True
  <2>3. CASE /\ phase' = [phase EXCEPT ![t] = "verified"]
             /\ seenFirst' = [seenFirst EXCEPT ![t] = firstLogin[u]]
             /\ verified' = verified \cup {[browser |-> HomeOf[t], user |-> u]}
             /\ UNCHANGED <<jar, req, reply, out>>
    <3>1. FactsGrow
      BY <1>2, <2>1, <2>3 DEF LoginVerify, FactsGrow, IInv, TypeOK, Entry
    <3>2. TypeOK'
      BY <2>1, <2>3, <3>1 DEF IInv, TypeOK, FactsGrow
    <3>3. CookiesTrue'
      BY <2>3, <3>1, CookiesStay, RepliesStay DEF CookiesTrue
    <3>4. HandlersKnow'
      BY <1>2, <2>1, <2>3, <3>1, NilAssumption
      DEF IInv, TypeOK, HandlersKnow, LoginVerify
    <3>5. QuietAfterLogout'
      BY <2>1, <2>3 DEF IInv, TypeOK, QuietAfterLogout
    <3>6. CodesEarned' /\ LoggedOutStays'
      BY <2>3, <3>1, FactsKeepCodes DEF IInv, LoggedOutStays
    <3> QED BY <3>2, <3>3, <3>4, <3>5, <3>6 DEF IInv
  <2> QED BY <1>2, <2>2, <2>3 DEF LoginVerify
<1>3. CASE LoginSession(t)
  <2> DEFINE new == NewCookie(req[t].user, seenFirst[t])
  <2>1. /\ phase[t] = "verified" /\ req[t].op = "login"
        /\ req[t].user \in User /\ seenFirst[t] \in BOOLEAN
        /\ [browser |-> HomeOf[t], user |-> req[t].user] \in verified
        /\ ~ seenFirst[t] => ~ firstLogin[req[t].user]
        /\ HomeOf[t] \notin out
    BY <1>3
    DEF LoginSession, IInv, TypeOK, HandlersKnow, QuietAfterLogout
  <2>2. UNCHANGED Account /\ FactsGrow
    BY <1>3, FactsUnchanged DEF LoginSession
  <2>3. new \in Cookie /\ new.user = req[t].user /\ new.first = seenFirst[t]
    BY <2>1, NewCookieType DEF NewCookie
  <2>4. PICK set \in {new, Keep}, ok \in BOOLEAN : Answer(t, set, ok)
    BY <1>3 DEF LoginSession
  <2>5. True(HomeOf[t], set)'
    <3> HIDE DEF new
    <3> QED BY <2>1, <2>2, <2>3, <2>4 DEF True, Account
  <2> HIDE DEF new
  <2> QED BY <2>1, <2>2, <2>3, <2>4, <2>5, Answering
<1>4. CASE ConfirmCheck(t)
  <2>1. /\ phase[t] = "sent" /\ req[t] \in Request /\ req[t].op = "confirm"
    BY <1>4 DEF ConfirmCheck, Serving, IInv, TypeOK, HandlersKnow
  <2>2. UNCHANGED Account /\ FactsGrow
    BY <1>4, FactsUnchanged DEF ConfirmCheck
  <2>3. CASE Answer(t, Keep, FALSE)
    BY <2>1, <2>2, <2>3, Answering DEF True
  <2>4. CASE /\ c # Nil
             /\ phase' = [phase EXCEPT ![t] = "checked"]
             /\ UNCHANGED <<jar, req, seenFirst, reply, out>>
    <3>1. req[t].cookie # Nil
      BY <2>4 DEF Get
    <3>2. TypeOK'
      BY <2>2, <2>4 DEF IInv, TypeOK, Account
    <3>3. CookiesTrue'
      BY <2>2, <2>4, CookiesStay, RepliesStay DEF CookiesTrue
    <3>4. HandlersKnow'
      BY <2>1, <2>2, <2>4, <3>1, NilAssumption
      DEF IInv, TypeOK, HandlersKnow, Account
    <3>5. QuietAfterLogout'
      BY <2>1, <2>4 DEF IInv, TypeOK, QuietAfterLogout
    <3>6. CodesEarned' /\ LoggedOutStays'
      BY <2>2, <2>4, FactsKeepCodes DEF IInv, LoggedOutStays
    <3> QED BY <3>2, <3>3, <3>4, <3>5, <3>6 DEF IInv
  <2> QED BY <1>4, <2>3, <2>4 DEF ConfirmCheck
<1>5. CASE ConfirmSave(t)
  <2> DEFINE k == req[t].cookie
  <2>1. /\ phase[t] = "checked" /\ req[t] \in Request /\ k \in Cookie
        /\ HomeOf[t] \notin out
    BY <1>5
    DEF ConfirmSave, IInv, TypeOK, HandlersKnow, QuietAfterLogout, Request
  <2>2. k.user \in User /\ True(HomeOf[t], k)
    BY <2>1, NilAssumption DEF Cookie, IInv, CookiesTrue
  <2>3. /\ firstLogin' \in {firstLogin, [firstLogin EXCEPT ![k.user] = FALSE]}
        /\ UNCHANGED <<verified, codes>>
    BY <1>5 DEF ConfirmSave
  <2>4. FactsGrow
    BY <2>2, <2>3 DEF FactsGrow, IInv, TypeOK
  <2>5. req[t].op \notin {"revert", "logout"}
    BY <2>1 DEF IInv, HandlersKnow
  <2>6. CASE \E ok \in BOOLEAN : Answer(t, Keep, ok)
    BY <2>1, <2>4, <2>5, <2>6, Answering DEF True
  <2>7. CASE /\ ~ firstLogin'[k.user]
             /\ Answer(t, NewCookie(k.user, FALSE), TRUE)
    <3>1. PICK set \in Cookie :
            /\ set.user = k.user /\ Answer(t, set, TRUE)
      BY <2>2, <2>7, NewCookieType DEF NewCookie
    <3>2. True(HomeOf[t], set)'
      BY <2>1, <2>2, <2>3, <2>7, <3>1, NilAssumption DEF True
    <3> QED BY <2>1, <2>4, <2>5, <3>1, <3>2, Answering
  <2> QED BY <1>5, <2>2, <2>6, <2>7 DEF ConfirmSave, IInv, TypeOK
<1>6. CASE RevertConfirm(t) \/ SingleLogout(t)
  <2>1. phase[t] = "sent" /\ UNCHANGED Account /\ FactsGrow
    BY <1>6, FactsUnchanged DEF RevertConfirm, SingleLogout, Serving
  <2>2. Answer(t, Nil, TRUE) \/ Answer(t, Keep, FALSE)
    BY <1>6 DEF RevertConfirm, SingleLogout, Flushed
  <2> QED BY <2>1, <2>2, Answering DEF True
<1> QED BY <1>1, <1>2, <1>3, <1>4, <1>5, <1>6 DEF Serve

-----------------------------------------------------------------------------
(***************************************************************************)
(* The browser, and time.                                                  *)
(***************************************************************************)
LEMMA SendStep ==
  ASSUME IInv, NEW t \in Tab, SendLogin(t) \/ SendOther(t)
  PROVE  IInv'
<1>1. PICK op \in Operation, u \in User \cup {Nil} :
        Send(t, op, u) /\ (op = "login" => u \in User)
  BY DEF SendLogin, SendOther, Operation
<1> DEFINE b == HomeOf[t]
           new == [op |-> op, user |-> u, cookie |-> jar[b]]
<1>2. /\ phase' = [phase EXCEPT ![t] = "sent"]
      /\ req' = [req EXCEPT ![t] = new]
      /\ out' = IF op = "login" THEN out \ {b} ELSE out
      /\ UNCHANGED <<Account, jar, seenFirst, reply>>
  BY <1>1 DEF Send
<1>3. b \in Browser /\ jar[b] \in Cookie \cup {Nil} /\ new \in Request
  BY <1>1, HomeAssumption DEF IInv, TypeOK, Request
<1>4. UNCHANGED Account /\ FactsGrow
  BY <1>2, FactsUnchanged
<1>5. TypeOK'
  <2> HIDE DEF new
  <2> QED BY <1>2, <1>3 DEF IInv, TypeOK, Account
<1>6. CookiesTrue'
  BY <1>2, <1>3 DEF IInv, TypeOK, CookiesTrue, True, Account
<1>7. HandlersKnow'
  BY <1>1, <1>2, <1>3, NilAssumption DEF IInv, TypeOK, HandlersKnow, Account
<1>8. QuietAfterLogout'
  BY <1>2, <1>3 DEF IInv, TypeOK, QuietAfterLogout, LoggedOutStays
<1>9. CodesEarned' /\ LoggedOutStays'
  BY <1>2, <1>4, FactsKeepCodes DEF IInv, LoggedOutStays
<1> QED BY <1>5, <1>6, <1>7, <1>8, <1>9 DEF IInv

\* A tab that has nothing under way any more.
LEMMA Forgetting ==
  ASSUME IInv, NEW t \in Tab, Forget(t), UNCHANGED Account,
         jar' \in [Browser -> Cookie \cup {Nil}], out' \subseteq Browser,
         \A b \in Browser : True(b, jar'[b]),
         LoggedOutStays',
         \A s \in Tab \ {t} : HomeOf[s] \in out' \ out => phase[s] = "idle"
  PROVE  IInv'
<1>1. TypeOK'
  BY DEF IInv, TypeOK, Forget, Account
<1>2. CookiesTrue'
  BY DEF IInv, TypeOK, CookiesTrue, True, Forget, Account
<1>3. HandlersKnow'
  BY DEF IInv, TypeOK, HandlersKnow, Forget, Account
<1>4. QuietAfterLogout'
  BY DEF IInv, TypeOK, QuietAfterLogout, Forget
<1>5. CodesEarned'
  BY DEF IInv, CodesEarned, Account
<1> QED BY <1>1, <1>2, <1>3, <1>4, <1>5 DEF IInv

LEMMA DeliverStep ==
  ASSUME IInv, NEW t \in Tab, Deliver(t)
  PROVE  IInv'
<1> DEFINE b == HomeOf[t]
           new == reply[t].set
<1>1. /\ b \in Browser /\ req[t] # Nil
      /\ new \in Cookie \cup {Nil, Keep} /\ True(b, new)
      /\ b \in out => new \in {Nil, Keep}
      /\ reply[t].ok /\ req[t].op \in {"revert", "logout"} => new = Nil
  BY HomeAssumption
  DEF Deliver, IInv, TypeOK, HandlersKnow, CookiesTrue, QuietAfterLogout, Reply
<1>2. /\ jar' = IF new = Keep THEN jar ELSE [jar EXCEPT ![b] = new]
      /\ out' = IF /\ req[t].op \in {"revert", "logout"}
                   /\ reply[t].ok /\ Busy(b) = {t}
                THEN out \cup {b} ELSE out
      /\ Forget(t) /\ UNCHANGED Account
  BY DEF Deliver
<1>3. jar' \in [Browser -> Cookie \cup {Nil}] /\ out' \subseteq Browser
  BY <1>1, <1>2 DEF IInv, TypeOK
<1>4. \A a \in Browser : True(a, jar'[a])
  BY <1>1, <1>2 DEF IInv, TypeOK, CookiesTrue
<1>5. LoggedOutStays'
  BY <1>1, <1>2, NilAssumption DEF IInv, TypeOK, LoggedOutStays
<1>6. \A s \in Tab \ {t} : HomeOf[s] \in out' \ out => phase[s] = "idle"
  BY <1>2 DEF Busy
<1> QED BY <1>2, <1>3, <1>4, <1>5, <1>6, Forgetting

LEMMA LoseStep ==
  ASSUME IInv, NEW t \in Tab, Lose(t)
  PROVE  IInv'
<1>1. Forget(t) /\ UNCHANGED <<Account, jar, out>>
  BY DEF Lose
<1>2. /\ jar' \in [Browser -> Cookie \cup {Nil}] /\ out' \subseteq Browser
      /\ \A b \in Browser : True(b, jar'[b])
  BY <1>1 DEF IInv, TypeOK, CookiesTrue
<1>3. LoggedOutStays'
  BY <1>1 DEF IInv, LoggedOutStays
<1> QED BY <1>1, <1>2, <1>3, Forgetting

LEMMA ResetStep ==
  ASSUME IInv, NEW u \in User, ResetPassword(u)
  PROVE  IInv'
<1>1. FactsGrow
  BY DEF IInv, TypeOK, ResetPassword, FactsGrow
<1>2. UNCHANGED <<jar, phase, req, seenFirst, reply, verified, codes, out>>
  BY DEF ResetPassword
<1>3. TypeOK'
  BY <1>1, <1>2 DEF IInv, TypeOK, FactsGrow
<1>4. CookiesTrue'
  BY <1>1, <1>2, CookiesStay, RepliesStay DEF CookiesTrue
<1>5. HandlersKnow'
  BY <1>1, <1>2 DEF IInv, TypeOK, HandlersKnow, FactsGrow
<1>6. QuietAfterLogout' /\ CodesEarned' /\ LoggedOutStays'
  BY <1>1, <1>2, FactsKeepCodes DEF IInv, QuietAfterLogout, LoggedOutStays
<1> QED BY <1>3, <1>4, <1>5, <1>6 DEF IInv

LEMMA TickStep ==
  ASSUME IInv, Tick
  PROVE  IInv'
<1>1. /\ jar' = [b \in Browser |-> Aged(jar[b])]
      /\ req' = [t \in Tab |-> IF req[t] = Nil THEN Nil
                               ELSE [req[t] EXCEPT !.cookie = Aged(@)]]
      /\ reply' = [t \in Tab |-> IF reply[t] = Nil THEN Nil
                                 ELSE [reply[t] EXCEPT !.set = Aged(@)]]
      /\ UNCHANGED <<Account, phase, seenFirst, out>>
  BY DEF Tick
<1>2. ASSUME NEW b \in Browser
      PROVE  /\ jar'[b] \in Cookie \cup {Nil} /\ True(b, jar'[b])
             /\ jar[b] = Nil => jar'[b] = Nil
  BY <1>1, AgedCookie, AgedTrue, NilAssumption DEF IInv, TypeOK, CookiesTrue
<1>3. ASSUME NEW t \in Tab
      PROVE  /\ req'[t] \in Request \cup {Nil}
             /\ req[t] = Nil => req'[t] = Nil
             /\ req[t] # Nil =>
                  /\ req'[t] # Nil
                  /\ req'[t].op = req[t].op /\ req'[t].user = req[t].user
                  /\ True(HomeOf[t], req'[t].cookie)
                  /\ (req'[t].cookie = Nil) <=> (req[t].cookie = Nil)
  <2>1. CASE req[t] = Nil
    BY <1>1, <2>1
  <2>2. CASE req[t] # Nil
    <3> DEFINE c == req[t].cookie
    <3>1. /\ req[t] \in Request /\ c \in Cookie \cup {Nil}
          /\ True(HomeOf[t], c) /\ HomeOf[t] \in Browser
      BY <2>2, HomeAssumption DEF IInv, TypeOK, CookiesTrue, Request
    <3>2. /\ Aged(c) \in Cookie \cup {Nil} /\ True(HomeOf[t], Aged(c))
          /\ (Aged(c) = Nil) <=> (c = Nil)
      BY <3>1, AgedCookie, AgedTrue, NilAssumption
    <3>3. req'[t] = [req[t] EXCEPT !.cookie = Aged(c)]
      BY <1>1, <2>2
    <3>4. /\ req'[t] \in Request
          /\ req'[t].op = req[t].op /\ req'[t].user = req[t].user
          /\ req'[t].cookie = Aged(c)
      BY <3>1, <3>2, <3>3 DEF Request
    <3> QED BY <2>2, <3>2, <3>4, NilAssumption
  <2> QED BY <2>1, <2>2
<1>4. ASSUME NEW t \in Tab
      PROVE  /\ reply'[t] \in Reply \cup {Nil}
             /\ reply[t] = Nil => reply'[t] = Nil
             /\ reply[t] # Nil =>
                  /\ reply'[t] # Nil /\ reply'[t].ok = reply[t].ok
                  /\ True(HomeOf[t], reply'[t].set)
                  /\ reply[t].set \in {Nil, Keep} =>
                       reply'[t].set = reply[t].set
  <2>1. CASE reply[t] = Nil
    BY <1>1, <2>1
  <2>2. CASE reply[t] # Nil
    <3> DEFINE c == reply[t].set
    <3>1. /\ reply[t] \in Reply /\ c \in Cookie \cup {Nil, Keep}
          /\ True(HomeOf[t], c) /\ HomeOf[t] \in Browser
      BY <2>2, HomeAssumption DEF IInv, TypeOK, CookiesTrue, Reply
    <3>2. /\ Aged(c) \in Cookie \cup {Nil, Keep} /\ True(HomeOf[t], Aged(c))
          /\ c \in {Nil, Keep} => Aged(c) = c
      BY <3>1, AgedCookie, AgedTrue
    <3>3. reply'[t] = [reply[t] EXCEPT !.set = Aged(c)]
      BY <1>1, <2>2
    <3>4. /\ reply'[t] \in Reply
          /\ reply'[t].ok = reply[t].ok /\ reply'[t].set = Aged(c)
      BY <3>1, <3>2, <3>3 DEF Reply
    <3> QED BY <2>2, <3>2, <3>4, NilAssumption
  <2> QED BY <2>1, <2>2
<1>5. TypeOK'
  <2>1. jar' \in [Browser -> Cookie \cup {Nil}]
    BY <1>1, <1>2
  <2>2. req' \in [Tab -> Request \cup {Nil}]
    BY <1>1, <1>3
  <2>3. reply' \in [Tab -> Reply \cup {Nil}]
    BY <1>1, <1>4
  <2> QED BY <1>1, <2>1, <2>2, <2>3 DEF IInv, TypeOK, Account
<1>6. CookiesTrue'
  BY <1>1, <1>2, <1>3, <1>4 DEF CookiesTrue, True, Account
<1>7. HandlersKnow'
  BY <1>1, <1>3, <1>4 DEF IInv, HandlersKnow, Account
<1>8. QuietAfterLogout'
  BY <1>1, <1>3, <1>4 DEF IInv, HandlersKnow, QuietAfterLogout
<1>9. CodesEarned' /\ LoggedOutStays'
  BY <1>1, <1>2 DEF IInv, TypeOK, CodesEarned, LoggedOutStays, Account
<1> QED BY <1>5, <1>6, <1>7, <1>8, <1>9 DEF IInv

-----------------------------------------------------------------------------
(***************************************************************************)
(* The theorems.                                                           *)
(***************************************************************************)
LEMMA InitInvariant == Init => IInv
<1> SUFFICES ASSUME Init PROVE IInv
  OBVIOUS
<1>1. TypeOK
  BY DEF Init, TypeOK
<1>2. CookiesTrue /\ HandlersKnow /\ QuietAfterLogout
  BY DEF Init, CookiesTrue, True, HandlersKnow, QuietAfterLogout
<1>3. CodesEarned /\ LoggedOutStays
  BY DEF Init, CodesEarned, LoggedOutStays
<1> QED BY <1>1, <1>2, <1>3 DEF IInv

LEMMA NextInvariant == IInv /\ [Next]_vars => IInv'
<1> SUFFICES ASSUME IInv, [Next]_vars PROVE IInv'
  OBVIOUS
<1>1. ASSUME NEW t \in Tab, SendLogin(t) \/ SendOther(t) PROVE IInv'
  BY <1>1, SendStep
<1>2. ASSUME NEW t \in Tab, Serve(t) PROVE IInv'
  BY <1>2, ServeStep
<1>3. ASSUME NEW t \in Tab, Deliver(t) PROVE IInv'
  BY <1>3, DeliverStep
<1>4. ASSUME NEW t \in Tab, Lose(t) PROVE IInv'
  BY <1>4, LoseStep
<1>5. ASSUME NEW u \in User, ResetPassword(u) PROVE IInv'
  BY <1>5, ResetStep
<1>6. CASE Tick
  BY <1>6, TickStep
<1>7. CASE UNCHANGED vars
  BY <1>7 DEF vars, IInv, TypeOK, CookiesTrue, True, HandlersKnow,
              QuietAfterLogout, CodesEarned, LoggedOutStays
<1> QED BY <1>1, <1>2, <1>3, <1>4, <1>5, <1>6, <1>7 DEF Next

(***************************************************************************)
(* Every cookie a browser holds, sends or is about to get is a true copy,  *)
(* whatever its tabs, the network, time and password resets do.            *)
(***************************************************************************)
THEOREM CookiesInvariant == Spec => []IInv
BY InitInvariant, NextInvariant, PTL DEF Spec

(***************************************************************************)
(* OAuthAuthorizeHandler issues a code only in a browser in which that     *)
(* user's password was accepted, after the first password was changed.     *)
(***************************************************************************)
THEOREM CodesAreEarned == Spec => []CodesEarned
<1>1. IInv => CodesEarned
  BY DEF IInv
<1> QED BY <1>1, CookiesInvariant, PTL

(***************************************************************************)
(* SingleLogoutHandler and revertPasswordConfirm end the session of the    *)
(* browser until its next login, if nothing else is under way there.       *)
(***************************************************************************)
THEOREM LogoutIsFinal == Spec => []LoggedOutStays
<1>1. IInv => LoggedOutStays
  BY DEF IInv
<1> QED BY <1>1, CookiesInvariant, PTL
=============================================================================
