---------------------------- MODULE MCTabManager ----------------------------
(***************************************************************************)
(* Three tabs in up to three windows, two pages, a ring of two.            *)
(***************************************************************************)
EXTENDS TabManager, TLC

CONSTANTS w1, w2, w3, t1, t2, t3, newtab, page1

MCWindowId == {w1, w2, w3}
MCTabId == {t1, t2, t3}
MCPage == {newtab, page1}

\* Ids are random: no operation depends on which one was drawn.
Symmetry == Permutations(MCWindowId) \cup Permutations(MCTabId)
=============================================================================
