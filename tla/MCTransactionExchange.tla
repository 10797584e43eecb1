------------------------- MODULE MCTransactionExchange -------------------------
(***************************************************************************)
(* TransactionExchange with every type, two keys of the sender and two     *)
(* encodings in circulation.                                               *)
(***************************************************************************)
EXTENDS TransactionExchange, TLC

CONSTANTS k1, k2

TwoKeys == {k1, k2}
SomeFields == {"nonce", "account", "feeRatio", "accessList", "humanReadable"}

Symmetry == Permutations(TwoKeys)
=============================================================================
