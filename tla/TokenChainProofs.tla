--------------------------- MODULE TokenChainProofs ---------------------------
(***************************************************************************)
(* What the abstract chains of tokens mean for clients, for any tokens and *)
(* owners.                                                                 *)
(***************************************************************************)
EXTENDS TokenChain, TLAPS

Issued == DOMAIN owner

Links == next \subseteq Issued \X Issued

Owned ==
  /\ owner \in [Issued -> Owner] /\ Issued \subseteq Token
  /\ valid \subseteq Issued

NoFork == \A p, q \in next : p[1] = q[1] \/ p[2] = q[2] => p = q

NoLoop ==
  \A S \in SUBSET Token : S # {} =>
    \E t \in S : \A n \in S : <<t, n>> \notin next

OneOwner == \A p \in next : owner[p[1]] = owner[p[2]] /\ p[1] \notin valid

CInv == Owned /\ Links /\ NoFork /\ NoLoop /\ OneOwner

LEMMA InitLinear == Init => CInv
BY DEF Init, CInv, Issued, Owned, Links, NoFork, NoLoop, OneOwner

LEMMA LinkEnds ==
  ASSUME Links
  PROVE  \A p \in next : p = <<p[1], p[2]>> /\ p[1] \in Issued /\ p[2] \in Issued
BY DEF Links

\* A new token gets an owner, and the others keep theirs.
LEMMA ExtendsIs ==
  ASSUME Owned, NEW n \in Token \ Issued, NEW o \in Owner, Extends(n, o)
  PROVE  /\ Issued' = Issued \cup {n} /\ owner' \in [Issued' -> Owner]
         /\ owner'[n] = o /\ \A t \in Issued : owner'[t] = owner[t]
         /\ Issued' \subseteq Token
BY DEF Owned, Extends, Issued

LEMMA IssueLinear ==
  ASSUME CInv, Issue
  PROVE  CInv'
<1>1. PICK n \in Token \ Issued, o \in Owner :
        Extends(n, o) /\ valid' = valid \cup {n} /\ next' = next
  BY DEF Issue, Issued
<1>2. /\ Issued' = Issued \cup {n} /\ owner' \in [Issued' -> Owner]
      /\ \A t \in Issued : owner'[t] = owner[t]
      /\ Issued' \subseteq Token
  BY <1>1, ExtendsIs DEF CInv
<1>3. Owned' /\ Links'
  BY <1>1, <1>2 DEF CInv, Owned, Links
<1>4. NoFork' /\ NoLoop'
  BY <1>1 DEF CInv, NoFork, NoLoop
<1>5. OneOwner'
  BY <1>1, <1>2, LinkEnds DEF CInv, OneOwner
<1> QED BY <1>3, <1>4, <1>5 DEF CInv

LEMMA SpendLinear ==
  ASSUME CInv, Spend
  PROVE  CInv'
BY DEF CInv, Spend, Issued, Owned, Links, NoFork, NoLoop, OneOwner

\* The new token has no exchange yet and the old one had none, so the link
\* between them neither forks a chain nor closes a loop.
LEMMA ExchangeLinear ==
  ASSUME CInv, Exchange
  PROVE  CInv'
<1>1. PICK t \in Issued \ valid, n \in Token \ Issued :
        /\ \A p \in next : p[1] # t
        /\ next' = next \cup {<<t, n>>}
        /\ Extends(n, owner[t]) /\ valid' \in {valid, valid \cup {n}}
  BY DEF Exchange, Issued
<1>2. /\ Issued' = Issued \cup {n} /\ owner' \in [Issued' -> Owner]
      /\ owner'[n] = owner[t] /\ \A x \in Issued : owner'[x] = owner[x]
      /\ Issued' \subseteq Token
  BY <1>1, ExtendsIs DEF CInv, Owned
<1>3. \A p \in next : /\ p = <<p[1], p[2]>>
                      /\ p[1] \in Issued /\ p[2] \in Issued
                      /\ p[1] # n /\ p[2] # n /\ p[1] # t
  BY <1>1, LinkEnds DEF CInv
<1>4. Owned' /\ Links'
  BY <1>1, <1>2 DEF CInv, Owned, Links
<1>5. NoFork'
  BY <1>1, <1>3 DEF CInv, NoFork
<1>6. NoLoop'
  <2> SUFFICES ASSUME NEW S \in SUBSET Token, S # {},
                      \A x \in S : \E y \in S : <<x, y>> \in next'
               PROVE  FALSE
    BY DEF NoLoop
  <2>1. \A y \in S : <<n, y>> \notin next'
    BY <1>1, <1>3
  <2>2. n \notin S
    BY <2>1
  <2>3. \A x, y \in S : <<x, y>> \in next' => <<x, y>> \in next
    BY <1>1, <2>2
  <2> QED BY <2>3 DEF CInv, NoLoop
<1>7. OneOwner'
  BY <1>1, <1>2, <1>3 DEF CInv, OneOwner
<1> QED BY <1>4, <1>5, <1>6, <1>7 DEF CInv

\* Exchanges form chains: no token is exchanged twice or handed out twice, no
\* chain leads back to a token, changes its owner or leaves an exchanged token
\* usable.
THEOREM ChainsAreLinear == Spec => []Linear
<1>1. CInv /\ [Next]_vars => CInv'
  <2>1. CInv /\ UNCHANGED vars => CInv'
    BY DEF vars, CInv, Issued, Owned, Links, NoFork, NoLoop, OneOwner
  <2> QED BY <2>1, IssueLinear, SpendLinear, ExchangeLinear DEF Next
<1>2. CInv => Linear
  <2>1. CInv => \A p \in next : p[1] \in Issued /\ p[2] \in Issued
    BY LinkEnds DEF CInv
  <2> QED BY <2>1 DEF CInv, NoFork, NoLoop, OneOwner, Linear, Issued
<1> QED BY <1>1, <1>2, InitLinear, PTL DEF Spec
=============================================================================
