-------------------------- MODULE UserAccountProofs ---------------------------
(***************************************************************************)
(* What the abstract accounts mean for users, for any users, passwords and *)
(* attempts.                                                               *)
(***************************************************************************)
EXTENDS UserAccount, TLAPS

AccountTypeOK ==
  /\ password \in [User -> Password \cup {Malformed, Unset}]
  /\ firstLogin \in [User -> BOOLEAN]
  /\ failures \in [User -> SUBSET counted]

AInv == AccountTypeOK /\ FailuresApart

LEMMA InitAccounts == Init => AInv
BY DEF Init, AInv, AccountTypeOK, FailuresApart

\* What is recorded was never counted before, so nobody else has it.
LEMMA NextAccounts ==
  ASSUME AInv, [Next]_vars
  PROVE  AInv'
<1>1. ASSUME NEW u \in User, ChangePassword(u)
      PROVE  AInv'
  BY <1>1 DEF ChangePassword, AInv, AccountTypeOK, FailuresApart
<1>2. ASSUME NEW u \in User, RecordFailure(u)
      PROVE  AInv'
  <2>1. PICK a \in Attempt \ counted :
          /\ failures' = [failures EXCEPT ![u] = @ \cup {a}]
          /\ counted' = counted \cup {a} /\ UNCHANGED <<password, firstLogin>>
    BY <1>2 DEF RecordFailure
  <2>2. \A v \in User : failures'[v] =
          IF v = u THEN failures[u] \cup {a} ELSE failures[v]
    BY <2>1 DEF AInv, AccountTypeOK
  <2>3. \A v \in User : failures[v] \subseteq counted
    BY DEF AInv, AccountTypeOK
  <2>4. AccountTypeOK'
    BY <2>1, <2>2, <2>3 DEF AInv, AccountTypeOK
  <2>5. FailuresApart'
    BY <2>2, <2>3 DEF AInv, FailuresApart
  <2> QED BY <2>4, <2>5 DEF AInv
<1>3. ASSUME NEW u \in User, ForgiveFailures(u)
      PROVE  AInv'
  BY <1>3 DEF ForgiveFailures, AInv, AccountTypeOK, FailuresApart
<1>4. CASE UNCHANGED vars
  BY <1>4 DEF vars, AInv, AccountTypeOK, FailuresApart
<1> QED BY <1>1, <1>2, <1>3, <1>4 DEF Next

\* No failed attempt is held against two users.
THEOREM FailuresAreApart == Spec => []FailuresApart
<1>1. AInv => FailuresApart
  BY DEF AInv
<1> QED BY <1>1, InitAccounts, NextAccounts, PTL DEF Spec

\* A first login ends with a new password that obeys the rule, and in no other
\* way; none begins.
THEOREM PasswordsDecide == Spec => PasswordDecides
<1>1. AInv /\ [Next]_vars =>
        [\A u \in User :
           /\ firstLogin'[u] => firstLogin[u]
           /\ firstLogin[u] /\ ~ firstLogin'[u] => password'[u] # password[u]
           /\ password'[u] # password[u] =>
                ~ firstLogin'[u] /\ <<u, password'[u]>> \notin Weak]_vars
  <2> SUFFICES ASSUME AInv, Next, NEW u \in User
               PROVE  /\ firstLogin'[u] => firstLogin[u]
                      /\ firstLogin[u] /\ ~ firstLogin'[u] =>
                           password'[u] # password[u]
                      /\ password'[u] # password[u] =>
                           ~ firstLogin'[u] /\ <<u, password'[u]>> \notin Weak
    OBVIOUS
  <2>1. ASSUME NEW v \in User, ChangePassword(v)
        PROVE  \/ password'[u] = password[u] /\ firstLogin'[u] = firstLogin[u]
               \/ /\ password'[u] # password[u] /\ firstLogin'[u] = FALSE
                  /\ <<u, password'[u]>> \notin Weak
    BY <2>1 DEF ChangePassword, AInv, AccountTypeOK
  <2>2. ASSUME NEW v \in User, RecordFailure(v) \/ ForgiveFailures(v)
        PROVE  password' = password /\ firstLogin' = firstLogin
    BY <2>2 DEF RecordFailure, ForgiveFailures
  <2>3. firstLogin[u] \in BOOLEAN
    BY DEF AInv, AccountTypeOK
  <2> QED BY <2>1, <2>2, <2>3 DEF Next
<1> QED BY <1>1, InitAccounts, NextAccounts, PTL DEF Spec, PasswordDecides
=============================================================================
