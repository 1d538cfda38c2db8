--------------------------- MODULE MCBrowserScope ---------------------------
(* Model-checking values for BrowserScope.                                   *)
EXTENDS BrowserScope, TLC

CONSTANTS t1, ua

\* The accounts are alike, and so are the tabs: the first sign-in is taken to
\* be ua's and the first page to load to be t1's.
Alike ==
    /\ signIns = 0 => session' \in {ua, NoUser}
    /\ (\A t \in Tabs : page[t].st = "closed")
           => \A t \in Tabs \ {t1} : page'[t].st = "closed"
=============================================================================
