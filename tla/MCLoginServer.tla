--------------------------- MODULE MCLoginServer ---------------------------
(***************************************************************************)
(* Instances of LoginServer for TLC.  Requests are interchangeable, and a  *)
(* attempt is one request, so the writes to a resource, and with them its  *)
(* versions, are finite without a bound.                                   *)
(***************************************************************************)
EXTENDS LoginServer, TLC

CONSTANTS u1, pa, pb

\* pb is the name of user u1, or that name reversed.
RefusesB == {<<u1, pb>>}

RequestSymmetry == Permutations(Attempt)
\* The passwords no rule tells apart are interchangeable too.
RuleSymmetry == Permutations(Attempt) \cup Permutations(Password \ {pb})
=============================================================================
