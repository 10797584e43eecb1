---------------------------- MODULE MCRequestManager ----------------------------
(***************************************************************************)
(* RequestManager with three requests, a subscription to logs and one to   *)
(* syncing, and two middlewares over HTTP, one over IPC.                   *)
(***************************************************************************)
EXTENDS RequestManager, TLC

CONSTANTS m1, m2, s1, s2

TwoMiddlewares == {m1, m2}
FewMiddlewares == [http |-> 2, ipc |-> 1]
TwoSubscriptions == {s1, s2}
OneLogs == {s1}
OneSyncing == {s2}

Symmetry == Permutations(TwoMiddlewares)
=============================================================================
