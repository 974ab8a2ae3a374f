---------------------------- MODULE MCLifecycle ----------------------------
(***************************************************************************)
(* An instance of Lifecycle for TLC.                                       *)
(***************************************************************************)
EXTENDS Lifecycle

CONSTANTS c1, c2, c3

MCCallers == {c1, c2, c3}
=============================================================================
