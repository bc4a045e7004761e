----------------------------- MODULE MCBookmarks -----------------------------
(***************************************************************************)
(* Tables of up to four rows: a folder in a folder in a folder, or three   *)
(* siblings and a place to move one to.                                    *)
(***************************************************************************)
EXTENDS Bookmarks
CONSTANTS page1
OnePage == {page1}
=============================================================================
