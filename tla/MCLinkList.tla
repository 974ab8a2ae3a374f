----------------------------- MODULE MCLinkList -----------------------------
(***************************************************************************)
(* Instances of LinkList for TLC: two owners, and the lists they start     *)
(* from.                                                                   *)
(***************************************************************************)
EXTENDS LinkList

CONSTANTS alice, bob

MCOwners == {alice, bob}

(* Links 1 to Len(positions) are alice's, the next one bob's.              *)
Profile(positions, last) ==
  [id \in 1..(Len(positions) + 1) |->
     IF id <= Len(positions) THEN [owner |-> alice, position |-> positions[id]]
                             ELSE [owner |-> bob, position |-> last]]

(* Rows older than the position column's rules: shared positions, gaps.    *)
Legacy == {Profile(<<a, b>>, 2) : a, b \in {0, 2}}

(* What the dashboard's own requests produce.                              *)
Pair == {Profile(<<0, 1>>, 0)}

(* Links of one owner that are not in the order of their ids.              *)
Trio == {[id \in 1..3 |-> [owner |-> alice, position |-> (id + 1) % 3]]}
=============================================================================
