------------------------------ MODULE MCReads ------------------------------
(***************************************************************************)
(* An instance of Reads for TLC: two links with a click each and a top     *)
(* list of one; pages of one or two events, limits in and out of range.    *)
(***************************************************************************)
EXTENDS Reads

CONSTANTS c1, c2

MCClicks == {c1, c2}
MCLinks == {1, 2}
MCLinkOf == [c \in MCClicks |-> IF c = c2 THEN 2 ELSE 1]
=============================================================================
