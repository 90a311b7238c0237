---------------------------- MODULE MCTokenGrant -----------------------------
(***************************************************************************)
(* Instances of TokenGrant for TLC.                                        *)
(***************************************************************************)
EXTENDS TokenGrant, TLC

CONSTANTS t1, c1, u1, w1

Symmetry == Permutations(Token) \cup Permutations(Req)

(***************************************************************************)
(* A client has logged in before and holds a refresh token: it may refresh *)
(* at once, several times concurrently.                                    *)
(***************************************************************************)
HoldingInit ==
  /\ stored = {t1} /\ known = {t1}
  /\ info = [t \in Token |->
               IF t = t1 THEN [kind |-> "refresh", client |-> c1,
                               user |-> u1, uri |-> w1]
                         ELSE Nil]
  /\ age = [t \in Token |-> 0]
  /\ pc = [r \in Req |-> "new"]
  /\ req = [r \in Req |-> Nil]
  /\ fresh = [r \in Req |-> Nil]
  /\ exchanged = {} /\ cut = {}
  /\ todo = {} /\ doomed = Nil /\ misread = {}

\* Token requests from an empty store, or around the token in hand.
AnyLiveSpec == (Init \/ HoldingInit) /\ [][Next]_vars /\ Fairness
=============================================================================
