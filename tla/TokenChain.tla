----------------------------- MODULE TokenChain ------------------------------
(***************************************************************************)
(* What the token endpoint promises about authorization codes and refresh  *)
(* tokens: each is worth one exchange, and what it is exchanged for        *)
(* belongs to the same user and client.                                    *)
(***************************************************************************)
CONSTANTS Token, Owner

VARIABLES
  owner,  \* owner[t] \in Owner, for the tokens in DOMAIN owner: those issued
  valid,  \* the tokens held by a client that can still be exchanged
  next    \* the exchanges made, as pairs of tokens

vars == <<owner, valid, next>>

Init ==
  /\ owner = [t \in {} |-> {}]
  /\ valid = {}
  /\ next = {}

Extends(n, o) == owner' = [t \in DOMAIN owner \cup {n} |->
                             IF t = n THEN o ELSE owner[t]]

\* A code is issued to a client for the user who is logged in.
Issue ==
  \E n \in Token \ DOMAIN owner, o \in Owner :
    /\ Extends(n, o)
    /\ valid' = valid \cup {n}
    /\ UNCHANGED next

\* A token expires, or an exchange takes it.
Spend ==
  \E t \in valid :
    /\ valid' = valid \ {t}
    /\ UNCHANGED <<owner, next>>

\* A token that is spent is exchanged for a new one, once.
Exchange ==
  \E t \in DOMAIN owner \ valid, n \in Token \ DOMAIN owner :
    /\ \A p \in next : p[1] # t
    /\ next' = next \cup {<<t, n>>}
    /\ Extends(n, owner[t])
    /\ valid' \in {valid, valid \cup {n}}

Next == Issue \/ Spend \/ Exchange

Spec == Init /\ [][Next]_vars
-----------------------------------------------------------------------------
(***************************************************************************)
(* What follows for the clients: exchanges form chains that never fork,    *)
(* join or come back to a token, each chain belongs to one owner, and only *)
(* its last token can be used.                                             *)
(***************************************************************************)
Linear ==
  /\ \A p, q \in next : p[1] = q[1] \/ p[2] = q[2] => p = q
  /\ \A S \in SUBSET Token : S # {} =>
       \E t \in S : \A n \in S : <<t, n>> \notin next
  /\ \A p \in next :
       /\ p[1] \in DOMAIN owner /\ p[2] \in DOMAIN owner
       /\ owner[p[1]] = owner[p[2]]
       /\ p[1] \notin valid
=============================================================================
