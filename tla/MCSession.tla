------------------------------- MODULE MCSession -------------------------------
(* Session with two tabs of one browser; another browser may have begun a Google         *)
(* sign-in.  There are two units of time: a session is good in the unit in which it was   *)
(* signed only (MaxAge 0), the state of Google sign-ins also in the next (FlowAge 1).      *)
EXTENDS Session, TLC

CONSTANTS b1, b2, t1, t2, f1, f2

MCBrowser == {b1, b2}
MCTab == {t1, t2}
MCBrowserOf == (t1 :> b1) @@ (t2 :> b1)
MCFlow == {f1, f2}

Symmetry == Permutations(MCFlow) \union Permutations(MCTab)
===============================================================================
