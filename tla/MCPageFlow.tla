----------------------------- MODULE MCPageFlow ------------------------------
(***************************************************************************)
(* An instance of PageFlow: two tabs of one browser with different first   *)
(* requests, and passwords on both sides of every limit.                   *)
(***************************************************************************)
EXTENDS PageFlow

CONSTANTS t1, t2

Asking(x) == <<Authorize, "?", "client", "&", x>>
Twice == <<Authorize, "?", "client", "?">>
Foreign == {Asking("foreign")}
Lacking == {<<Authorize>>}
ElsewhereIdp == {Asking("idp2")}

MCWords == {Authorize, "?", "&", "client", "state1", "state2", "foreign",
            "idp2"}

\* Two requests that differ, and every kind of unusable one beside them.
MCOpenings ==
  {t1 :> Asking("state1") @@ t2 :> Asking("state2"),
   t1 :> Asking("foreign") @@ t2 :> Twice,
   t1 :> <<Authorize>> @@ t2 :> Asking("idp2")}

MCPasswords ==
  [chars : {7, 8, 32, 33}, isName : {FALSE},
   has : {{"letter", "digit"}, {"letter", "digit", "special"},
          {"letter", "digit", "space"}, {"letter", "digit", "special", "other"}}]
  \cup [chars : {8}, isName : {TRUE}, has : {{"letter", "digit", "special"}}]
=============================================================================
