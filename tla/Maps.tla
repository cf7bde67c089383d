-------------------------------- MODULE Maps --------------------------------
(***************************************************************************)
(* Hash maps as functions whose domain is the set of keys present, and     *)
(* erasing from lists.                                                     *)
(***************************************************************************)
EXTENDS Naturals, FiniteSets

\* m[k] = v
Put(m, k, v) == [x \in DOMAIN m \cup {k} |-> IF x = k THEN v ELSE m[x]]

\* m.erase(k) for every k of keys
Drop(m, keys) == [x \in DOMAIN m \ keys |-> m[x]]

\* every pair of n inserted into m, replacing
Update(m, n) == [x \in DOMAIN m \cup DOMAIN n |-> IF x \in DOMAIN n THEN n[x] ELSE m[x]]

\* What the erasure of some elements leaves of a list, in its order.
Erased(list, gone) ==
    LET left == {i \in DOMAIN list : list[i] \notin gone}
        place == CHOOSE p \in [1..Cardinality(left) -> left] :
                     \A i, j \in DOMAIN p : i < j => p[i] < p[j]
    IN  [i \in 1..Cardinality(left) |-> list[place[i]]]
=============================================================================
