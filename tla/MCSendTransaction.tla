-------------------------- MODULE MCSendTransaction --------------------------
(***************************************************************************)
(* SendTransaction with two or three checks under way at a time.           *)
(***************************************************************************)
EXTENDS SendTransaction

CONSTANTS c1, c2, c3

TwoChecks == {c1, c2}
ThreeChecks == {c1, c2, c3}
=============================================================================
