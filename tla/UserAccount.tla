----------------------------- MODULE UserAccount -----------------------------
(***************************************************************************)
(* What the password endpoints promise about an account, without the API   *)
(* server, its versions and the steps of the requests.                     *)
(***************************************************************************)
CONSTANTS User, Password, Malformed, Unset, Attempt, Weak

VARIABLES
  password,    \* the stored password of each user
  firstLogin,  \* the user still has the password the administrator set
  failures,    \* the failed attempts held against each user
  counted      \* the attempts ever held against anybody

vars == <<password, firstLogin, failures, counted>>

Init ==
  /\ password \in [User -> Password \cup {Malformed, Unset}]
  /\ firstLogin \in [User -> BOOLEAN]
  /\ failures = [u \in User |-> {}]
  /\ counted = {}

(***************************************************************************)
(* The password changes to one the complexity rule accepts.  Only a change *)
(* of the password ends the first login, and nothing brings it back.       *)
(***************************************************************************)
ChangePassword(u) ==
  \E p \in Password \ {password[u]} :
    /\ <<u, p>> \notin Weak
    /\ password' = [password EXCEPT ![u] = p]
    /\ firstLogin' = [firstLogin EXCEPT ![u] = FALSE]
    /\ UNCHANGED <<failures, counted>>

\* An attempt counts once, against one user, whatever happens afterwards.
RecordFailure(u) ==
  \E a \in Attempt \ counted :
    /\ failures' = [failures EXCEPT ![u] = @ \cup {a}]
    /\ counted' = counted \cup {a}
    /\ UNCHANGED <<password, firstLogin>>

\* The failures of a user are dropped together, never one of them.
ForgiveFailures(u) ==
  /\ failures' = [failures EXCEPT ![u] = {}]
  /\ UNCHANGED <<password, firstLogin, counted>>

Next ==
  \E u \in User :
    ChangePassword(u) \/ RecordFailure(u) \/ ForgiveFailures(u)

Spec == Init /\ [][Next]_vars

-----------------------------------------------------------------------------
(***************************************************************************)
(* What follows for users.                                                 *)
(***************************************************************************)
\* No failed attempt is held against two users.
FailuresApart ==
  \A u, v \in User : u # v => failures[u] \cap failures[v] = {}

\* The first login ends only with another password, never comes back, and
\* every new password ends it and obeys the rule.
PasswordDecides ==
  [][\A u \in User :
       /\ firstLogin'[u] => firstLogin[u]
       /\ firstLogin[u] /\ ~ firstLogin'[u] => password'[u] # password[u]
       /\ password'[u] # password[u] =>
            ~ firstLogin'[u] /\ <<u, password'[u]>> \notin Weak]_vars
=============================================================================
