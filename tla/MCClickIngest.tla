--------------------------- MODULE MCClickIngest ---------------------------
(***************************************************************************)
(* An instance of ClickIngest for TLC.  Two links; one click without key,  *)
(* whose retries share a derived key within a minute, and two clicks that  *)
(* a browser sends with one Idempotency-Key, on different links.           *)
(***************************************************************************)
EXTENDS ClickIngest

CONSTANTS l1, l2, c1, c2, c3, k1, visitor, r1, r2

MCLinks == {l1, l2}
MCClicks == {c1, c2, c3}
MCLinkOf == [c \in MCClicks |-> IF c = c3 THEN l2 ELSE l1]
MCVisitorOf == [c \in MCClicks |-> visitor]
MCRequests == {r1, r2}
MCClientKey == [c \in MCClicks |-> IF c = c1 THEN NoKey ELSE k1]
=============================================================================
