-------------------------------- MODULE Maps --------------------------------
(***************************************************************************)
(* Maps with a changing set of keys: the HashMaps and the tables of the    *)
(* program are functions whose domain is the set of keys they hold.        *)
(***************************************************************************)

\* HashMap::insert, INSERT OR REPLACE
Put(map, key, value) ==
  [k \in DOMAIN map \cup {key} |-> IF k = key THEN value ELSE map[k]]

\* HashMap::remove, DELETE
Drop(map, keys) == [k \in DOMAIN map \ keys |-> map[k]]
=============================================================================
