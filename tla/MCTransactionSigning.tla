------------------------ MODULE MCTransactionSigning ------------------------
(***************************************************************************)
(* TransactionSigning with two or three instances of a transaction.        *)
(***************************************************************************)
EXTENDS TransactionSigning, TLC

CONSTANTS t1, t2, t3, v1, v2, n1, n2, g1, g2, k1, k2, p1, p2

OneInstance == {t1}
TwoInstances == {t1, t2}
ThreeInstances == {t1, t2, t3}
TwoContents == {v1, v2}
OneContent == {v1}
TwoNonces == {n1, n2}
TwoPrices == {g1, g2}
OnePrice == {g1}
TwoKeys == {k1, k2}
OneKey == {k1}
OneFeePayer == {p1}
TwoFeePayers == {p1, p2}

(* Values of one kind are interchangeable. *)
Symmetry ==
  Permutations({t1, t2}) \union Permutations({v1, v2})
    \union Permutations({n1, n2}) \union Permutations({g1, g2})
    \union Permutations({k1, k2})
=============================================================================
