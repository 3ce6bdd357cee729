-------------------------- MODULE MCBrowserSession --------------------------
(* Instances of BrowserSession for TLC.                                    *)
EXTENDS BrowserSession, TLC

CONSTANTS c1, c2

Roles == c1 :> {"login", "page"} @@ c2 :> {"page", "logout"}
=============================================================================
