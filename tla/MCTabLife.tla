------------------------------ MODULE MCTabLife ------------------------------
(***************************************************************************)
(* Instances of TabLife for TLC.                                           *)
(***************************************************************************)
EXTENDS TabLife

CONSTANTS a, b      \* tabs

TwoTabs == {a, b}
OneTab == {a}
OtherTab == {b}
=============================================================================
