------------------------------ MODULE MCSession ------------------------------
(***************************************************************************)
(* Windows and tabs for a window of two tabs beside another, a ring of two *)
(* entries and a table of three.                                           *)
(***************************************************************************)
EXTENDS Session, TLC

CONSTANTS w1, w2, t1, t2, newtab, page1

TwoWindows == {w1, w2}
TwoTabs == {t1, t2}
TwoPages == {newtab, page1}

\* Ids are interchangeable.
Symmetry == Permutations(WindowId) \cup Permutations(TabId)
=============================================================================
