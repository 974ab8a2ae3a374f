------------------------------ MODULE MCRollup ------------------------------
(***************************************************************************)
(* Instances of Rollup for TLC: two links of one owner, or of two; clicks  *)
(* of which two share a visitor.                                           *)
(***************************************************************************)
EXTENDS Rollup

CONSTANTS c1, c2, c3, alice, bob, home, cafe, w1, w2

MCLinks == {1, 2}
MCLinkOf == [c \in Clicks |-> IF c = c2 THEN 2 ELSE 1]
MCVisitorOf == [c \in Clicks |-> IF c = c3 THEN cafe ELSE home]
MCOwnerOf == [l \in MCLinks |-> alice]
TwoOwners == [l \in MCLinks |-> IF l = 1 THEN alice ELSE bob]
=============================================================================
