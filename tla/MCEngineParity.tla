---------------------------- MODULE MCEngineParity ----------------------------
(***************************************************************************)
(* An instance of EngineParity for TLC: two pages, which are               *)
(* interchangeable, so that the first one asked for may be `news`.         *)
(***************************************************************************)
EXTENDS EngineParity

CONSTANTS news, blog      \* pages

Pages == {news, blog}

FirstIsNews == \A i \in DOMAIN NavigationsIn(events) :
                 i = 1 => NavigationsIn(events)[i].url = news
=============================================================================
