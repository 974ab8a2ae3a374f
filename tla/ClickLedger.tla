---------------------------- MODULE ClickLedger ----------------------------
(***************************************************************************)
(* What LinkNest promises about clicks, without requests, transactions or  *)
(* locks: a log of clicks in which an idempotency key occurs at most once, *)
(* a tally per link that counts that log, and acknowledgements that are    *)
(* only given for clicks the log holds (or has held until retention took   *)
(* them).  ClickIngest implements it: every step of the handlers is one of *)
(* these steps or changes none of this state.                              *)
(***************************************************************************)
EXTENDS Integers

CONSTANTS Links,     \* every link that can be clicked
          Rows,      \* every click row that can be logged
          LinkOf     \* click -> the link it is a click on

VARIABLES rows,      \* the click rows the log holds
          gone,      \* the rows retention has removed
          tally,     \* link -> clicks counted for it
          live,      \* the links not deleted
          acked      \* the keys acknowledged to a browser

ledgerVars == <<rows, gone, tally, live, acked>>

KeysIn(S) == {row.key : row \in S}

Init == /\ rows = {}
        /\ gone = {}
        /\ tally = [l \in Links |-> 0]
        /\ live = Links
        /\ acked = {}

(* A click is logged under a key the log does not hold, and counted in the *)
(* same step unless its link is deleted.                                   *)
Record ==
  \E row \in Rows :
    /\ row \notin rows \cup gone
    /\ row.key \notin KeysIn(rows)
    /\ rows' = rows \cup {row}
    /\ tally' = [l \in Links |-> IF l = LinkOf[row.click] /\ l \in live
                                 THEN tally[l] + 1 ELSE tally[l]]
    /\ UNCHANGED <<gone, live, acked>>

Acknowledge ==
  \E key \in KeysIn(rows \cup gone) :
    /\ acked' = acked \cup {key}
    /\ UNCHANGED <<rows, gone, tally, live>>

Expire ==
  \E old \in SUBSET rows :
    /\ rows' = rows \ old
    /\ gone' = gone \cup old
    /\ UNCHANGED <<tally, live, acked>>

Retire ==
  \E l \in live :
    /\ live' = live \ {l}
    /\ UNCHANGED <<rows, gone, tally, acked>>

Next == Record \/ Acknowledge \/ Expire \/ Retire

Spec == Init /\ [][Next]_ledgerVars
=============================================================================
