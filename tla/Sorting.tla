------------------------------ MODULE Sorting ------------------------------
(* np.sort and np.argsort, in a form that proofs can unfold.               *)
EXTENDS Integers, FiniteSets, Sequences

(* The place in keep that has k - 1 others before it, by key and, between  *)
(* equal keys, by place.                                                   *)
Place(keep, key, k) ==
    CHOOSE i \in keep :
        Cardinality({j \in keep : key[j] < key[i] \/ (key[j] = key[i] /\ j < i)})
            = k - 1

Sorted(s) == [k \in DOMAIN s |-> s[Place(DOMAIN s, s, k)]]
=============================================================================
