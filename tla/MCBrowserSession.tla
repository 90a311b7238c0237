-------------------------- MODULE MCBrowserSession ---------------------------
(***************************************************************************)
(* Instances of BrowserSession for TLC.                                    *)
(***************************************************************************)
EXTENDS BrowserSession, TLC

CONSTANTS b1, b2, t1, t2

TwoTabs == (t1 :> b1) @@ (t2 :> b1)
OneEach == (t1 :> b1) @@ (t2 :> b2)
=============================================================================
