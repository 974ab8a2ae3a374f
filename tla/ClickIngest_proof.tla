------------------------- MODULE ClickIngest_proof -------------------------
(***************************************************************************)
(* IndInv is an inductive invariant of ClickIngest for every value of its  *)
(* constants, hence type correctness, one row per key, the counter and the *)
(* durability of an acknowledgement are; and ClickIngest implements        *)
(* ClickLedger.                                                            *)
(***************************************************************************)
EXTENDS ClickIngest, FiniteSetTheorems, TLAPS

USE BoundsAssumption, ClicksAssumption

-----------------------------------------------------------------------------
(* The idle handler is a handler, and any key trackClick picks is a key.   *)
LEMMA IdleType == Idle \in Handler /\ Idle.pc = "idle" /\ Idle.id = 0 /\ Idle.bumped = FALSE
BY DEF Idle, Handler, Minutes

LEMMA KeyForType == ASSUME NEW c \in Clicks, NEW m \in Minutes PROVE KeyFor(c, m) \in Keys
BY DEF Keys

(* A request's link is a link once it carries a click.                     *)
LEMMA RequestLinkType ==
  ASSUME NEW r \in Requests, req[r].click \in Clicks PROVE RequestLink(r) \in Links
BY DEF RequestLink

(* The row of a transaction that has inserted is a row of the table.       *)
LEMMA NewRowType ==
  ASSUME TypeOK, HandlerShape, NEW r \in Requests, req[r].id # 0
  PROVE  NewRow(r) \in EventRow
<1>1. req[r] \in Handler /\ req[r].pc \in {"bump", "commit", "respond"}
  BY DEF TypeOK, HandlerShape
<1>2. req[r].click \in Clicks /\ req[r].key \in Keys
  BY <1>1 DEF HandlerShape
<1> QED BY <1>1, <1>2 DEF NewRow, EventRow, Handler

-----------------------------------------------------------------------------
(* The initial states satisfy the invariant.                               *)
LEMMA InitInv == Init => IndInv
<1> SUFFICES ASSUME Init PROVE IndInv
  OBVIOUS
<1> USE DEF Init
<1>1. \A r \in Requests : req[r] = Idle
  OBVIOUS
<1>2. TypeOK
  <2>1. links \in [Links -> LinkRow]
    <3>1. {TRUE} \subseteq BOOLEAN /\ {0} \subseteq Nat
      OBVIOUS
    <3>2. [live : {TRUE}, public : BOOLEAN, clicks : {0}] \subseteq LinkRow
      BY <3>1, Zenon DEF LinkRow
    <3> QED BY <3>2
  <2>2. req \in [Requests -> Handler]
    BY IdleType
  <2> QED BY <2>1, <2>2 DEF TypeOK, Minutes
<1>3. HandlerShape /\ LocksExclusive /\ DecisionHolds /\ CountedIffLive /\ AnsweredLogged
  BY <1>1, IdleType DEF HandlerShape, LocksExclusive, DecisionHolds, CountedIffLive,
     AnsweredLogged, HoldsKey, HoldsLink
<1>4. IdsFresh
  BY <1>1, IdleType DEF IdsFresh, EverLogged, HoldsKey
<1>5. IsFiniteSet(EverLogged)
  BY FS_EmptySet DEF EverLogged
<1>6. OneRowPerKey /\ AckedClickHasRow
  BY DEF OneRowPerKey, AckedClickHasRow
<1>7. CounterMatchesHistory
  <2>1. ASSUME NEW l \in Links PROVE ClicksOn(l, EverLogged) = {}
    BY DEF ClicksOn, EverLogged
  <2>2. \A l \in Links : links[l].clicks = 0
    OBVIOUS
  <2> QED BY <2>1, <2>2, FS_EmptySet DEF CounterMatchesHistory
<1> QED BY <1>2, <1>3, <1>4, <1>5, <1>6, <1>7 DEF IndInv

-----------------------------------------------------------------------------
(* A handler that holds nothing yet, or nothing any more.                  *)
HoldsNothing(h) ==
  /\ h \in Handler
  /\ h.pc \in {"idle", "lookup", "insert"}
  /\ h.pc # "idle" => h.click \in Clicks
  /\ h.pc = "insert" => h.key \in Keys
  /\ h.id = 0 /\ h.bumped = FALSE

LEMMA IdleHoldsNothing == HoldsNothing(Idle)
BY IdleType DEF HoldsNothing

(* Steps that leave the tables alone and move handlers only to where they  *)
(* hold nothing: Send, Lookup, Fail, Respond, Crash, Tick, a stutter.      *)
LEMMA TablesKept ==
  ASSUME IndInv,
         UNCHANGED <<links, events, nextId, purged>>,
         clock' \in Minutes,
         metrics' \in [ingested : Nat, deduped : Nat],
         acked' \subseteq Keys, acked' \subseteq KeysOf(EverLogged),
         req' \in [Requests -> Handler],
         \A r \in Requests : req'[r] = req[r] \/ HoldsNothing(req'[r])
  PROVE  IndInv'
<1> USE DEF IndInv
<1>1. TypeOK'
  BY DEF TypeOK
<1>2. HandlerShape'
  BY DEF HandlerShape, HoldsNothing
<1>3. \A r \in Requests : HoldsKey(r)' => req'[r] = req[r] /\ HoldsKey(r)
  BY DEF HoldsNothing, HoldsKey
<1>4. \A r \in Requests : HoldsLink(r)' => req'[r] = req[r] /\ HoldsLink(r)
  BY DEF HoldsNothing, HoldsLink
<1>5. LocksExclusive'
  BY <1>3, <1>4 DEF LocksExclusive, RequestLink
<1>6. DecisionHolds'
  BY <1>3 DEF DecisionHolds
<1>7. IdsFresh'
  <2>1. EverLogged' = EverLogged
    BY DEF EverLogged
  <2>2. \A r \in Requests : req'[r].id < nextId
    BY DEF IdsFresh, HoldsNothing, TypeOK
  <2> QED BY <1>3, <2>1, <2>2 DEF IdsFresh
<1>8. CountedIffLive' /\ AnsweredLogged'
  <2>1. \A r \in Requests : req'[r].pc \in {"commit", "respond"} => req'[r] = req[r]
    BY DEF HoldsNothing
  <2> QED BY <2>1 DEF CountedIffLive, AnsweredLogged, RequestLink, EverLogged
<1>9. (IsFiniteSet(EverLogged) /\ OneRowPerKey /\ CounterMatchesHistory /\ AckedClickHasRow)'
  BY DEF EverLogged, OneRowPerKey, CounterMatchesHistory, AckedClickHasRow, ClicksOn
<1> QED BY <1>1, <1>2, <1>5, <1>6, <1>7, <1>8, <1>9

(* The INSERT: the key it takes is free, the id it takes is new.           *)
LEMMA InsertStep == ASSUME IndInv, NEW r \in Requests, Insert(r) PROVE IndInv'
<1> USE DEF IndInv
<1>1. /\ req[r].pc = "insert" /\ req[r].id = 0 /\ req[r].bumped = FALSE
      /\ req[r].click \in Clicks /\ req[r].key \in Keys
      /\ req[r] \in Handler
  BY DEF Insert, HandlerShape, TypeOK, Handler
<1>2. nextId \in 1..MaxId /\ nextId' = nextId + 1
  BY DEF Insert, TypeOK
<1>3. UNCHANGED <<clock, links, events, metrics, purged, acked>>
  BY DEF Insert
<1>4. /\ req' \in [Requests -> Handler]
      /\ \A q \in Requests : q # r => req'[q] = req[q]
      /\ req'[r].key = req[r].key /\ req'[r].click = req[r].click
      /\ req'[r].bumped = FALSE
      /\ \/ req'[r].pc = "commit" /\ req'[r].id = 0 /\ req[r].key \in KeysOf(events)
         \/ req'[r].pc = "bump" /\ req'[r].id = nextId /\ req[r].key \notin KeysOf(events)
  BY <1>1, <1>2 DEF Insert, TypeOK, Handler
<1>5. \A q \in Requests : HoldsKey(q) => q # r /\ req[q].key # req[r].key
  BY <1>1 DEF Insert, KeyLocked, HoldsKey
<1>6. TypeOK'
  BY <1>2, <1>3, <1>4 DEF TypeOK
<1>7. HandlerShape'
  BY <1>1, <1>2, <1>4 DEF HandlerShape
<1>8. LocksExclusive'
  BY <1>4, <1>5 DEF LocksExclusive, HoldsKey, HoldsLink, RequestLink
<1>9. DecisionHolds'
  BY <1>2, <1>3, <1>4 DEF DecisionHolds, HoldsKey
<1>10. IdsFresh'
  <2>1. EverLogged' = EverLogged
    BY <1>3 DEF EverLogged
  <2>2. \A row \in EverLogged : row.id \in 1..MaxId /\ row.id < nextId
    BY DEF IdsFresh, TypeOK, EverLogged, EventRow
  <2>3. nextId \notin IdsOf(EverLogged) /\ 0 \notin IdsOf(EverLogged)
    BY <1>2, <2>2 DEF IdsOf
  <2>4. \A q \in Requests : req[q].id \in 0..MaxId /\ req[q].id < nextId
    BY DEF IdsFresh, TypeOK, Handler
  <2>5. \A q \in Requests : req'[q].id < nextId'
    BY <1>2, <1>4, <2>4
  <2>6. \A q \in Requests : HoldsKey(q)' => req'[q].id \notin IdsOf(EverLogged)
    BY <1>4, <2>3 DEF IdsFresh, HoldsKey
  <2>7. \A p, q \in Requests :
          p # q /\ HoldsKey(p)' /\ HoldsKey(q)' /\ req'[p].id # 0 => req'[p].id # req'[q].id
    BY <1>4, <2>4, <1>2 DEF IdsFresh, HoldsKey
  <2> QED BY <1>2, <1>3, <2>1, <2>2, <2>5, <2>6, <2>7 DEF IdsFresh
<1>11. CountedIffLive' /\ AnsweredLogged'
  BY <1>3, <1>4 DEF CountedIffLive, AnsweredLogged, RequestLink, EverLogged
<1>12. (IsFiniteSet(EverLogged) /\ OneRowPerKey /\ CounterMatchesHistory /\ AckedClickHasRow)'
  BY <1>3 DEF EverLogged, OneRowPerKey, CounterMatchesHistory, AckedClickHasRow, ClicksOn
<1> QED BY <1>6, <1>7, <1>8, <1>9, <1>10, <1>11, <1>12

(* The UPDATE: the link it locks is free, and its row says whether it is   *)
(* counted.                                                                *)
LEMMA BumpStep == ASSUME IndInv, NEW r \in Requests, Bump(r) PROVE IndInv'
<1> USE DEF IndInv
<1>1. /\ req[r].pc = "bump" /\ req[r].id # 0
      /\ req[r].click \in Clicks /\ req[r].key \in Keys
      /\ req[r] \in Handler
  BY DEF Bump, HandlerShape, TypeOK
<1>2. RequestLink(r) \in Links /\ links[RequestLink(r)].live \in BOOLEAN
  BY <1>1, RequestLinkType DEF TypeOK, LinkRow
<1>3. UNCHANGED <<clock, links, events, nextId, metrics, purged, acked>>
  BY DEF Bump
<1>4. /\ req' \in [Requests -> Handler]
      /\ \A q \in Requests : q # r => req'[q] = req[q]
      /\ req'[r].key = req[r].key /\ req'[r].click = req[r].click
      /\ req'[r].id = req[r].id
      /\ req'[r].pc = "commit" /\ req'[r].bumped = links[RequestLink(r)].live
  BY <1>1, <1>2 DEF Bump, TypeOK, Handler
<1>5. \A q \in Requests : HoldsKey(q)' <=> HoldsKey(q)
  BY <1>1, <1>4 DEF HoldsKey
<1>6. TypeOK'
  BY <1>3, <1>4 DEF TypeOK
<1>7. HandlerShape'
  BY <1>1, <1>4 DEF HandlerShape
<1>8. LocksExclusive'
  <2>1. \A q \in Requests : HoldsLink(q) => RequestLink(q) # RequestLink(r)
    BY DEF Bump, LinkLocked
  <2>2. \A q \in Requests : RequestLink(q)' = RequestLink(q)
    BY <1>4 DEF RequestLink
  <2>3. \A q \in Requests : q # r => (HoldsLink(q)' <=> HoldsLink(q))
    BY <1>4 DEF HoldsLink
  <2>4. \A q \in Requests : req'[q].key = req[q].key
    BY <1>4
  <2> QED BY <1>5, <2>1, <2>2, <2>3, <2>4 DEF LocksExclusive
<1>9. DecisionHolds' /\ IdsFresh'
  <2>1. EverLogged' = EverLogged
    BY <1>3 DEF EverLogged
  <2>2. \A q \in Requests : req'[q].id = req[q].id /\ req'[q].key = req[q].key
    BY <1>4
  <2> QED BY <1>3, <1>5, <2>1, <2>2 DEF DecisionHolds, IdsFresh
<1>10. CountedIffLive' /\ AnsweredLogged'
  BY <1>3, <1>4 DEF CountedIffLive, AnsweredLogged, RequestLink, EverLogged
<1>11. (IsFiniteSet(EverLogged) /\ OneRowPerKey /\ CounterMatchesHistory /\ AckedClickHasRow)'
  BY <1>3 DEF EverLogged, OneRowPerKey, CounterMatchesHistory, AckedClickHasRow, ClicksOn
<1> QED BY <1>6, <1>7, <1>8, <1>9, <1>10, <1>11

(* The COMMIT, answered or not: the row and its count become durable       *)
(* together.                                                               *)
LEMMA CommitStep ==
  ASSUME IndInv, NEW r \in Requests, req[r].pc = "commit", Durable(r),
         UNCHANGED <<clock, nextId, metrics, purged, acked>>,
         \/ req' = [req EXCEPT ![r].pc = "respond"]
         \/ req' = [req EXCEPT ![r] = Idle]
  PROVE  IndInv'
<1> USE DEF IndInv
<1> DEFINE row == NewRow(r)
           new == IF req[r].id # 0 THEN {row} ELSE {}
<1>1. /\ req[r].click \in Clicks /\ req[r].key \in Keys
      /\ req[r] \in Handler /\ RequestLink(r) \in Links
      /\ req[r].id < nextId
      /\ req[r].bumped => req[r].id # 0
  BY RequestLinkType DEF HandlerShape, TypeOK, IdsFresh
<1>2. /\ events' = events \cup new
      /\ EverLogged' = EverLogged \cup new
  BY DEF Durable, EverLogged
<1>3. row.id = req[r].id /\ row.key = req[r].key /\ row.click = req[r].click
  BY DEF NewRow
<1>4. /\ req' \in [Requests -> Handler]
      /\ \A q \in Requests : q # r => req'[q] = req[q]
      /\ \/ /\ req'[r].pc = "respond" /\ req'[r].key = req[r].key
            /\ req'[r].id = req[r].id /\ req'[r].click = req[r].click
            /\ req'[r].bumped = req[r].bumped
         \/ req'[r] = Idle
  BY <1>1, IdleType DEF TypeOK, Handler
<1>5. /\ req'[r].pc \in {"respond", "idle"}
      /\ req'[r].id < nextId
  BY <1>1, <1>4, IdleType DEF TypeOK
<1>6. \A q \in Requests :
        /\ HoldsKey(q)' => q # r /\ HoldsKey(q) /\ req'[q] = req[q]
        /\ HoldsLink(q)' => q # r /\ HoldsLink(q) /\ req'[q] = req[q]
  BY <1>4, <1>5 DEF HoldsKey, HoldsLink
<1>7. HoldsKey(r)
  BY DEF HoldsKey
<1>8. \A q \in Requests : HoldsKey(q)' => req[q].key # req[r].key
  BY <1>6, <1>7 DEF LocksExclusive
<1>9. TypeOK'
  <2>1. new \subseteq EventRow
    BY NewRowType
  <2>2. links' \in [Links -> LinkRow]
    <3>1. \A l \in Links : [links[l] EXCEPT !.clicks = @ + 1] \in LinkRow
      BY DEF TypeOK, LinkRow
    <3> QED BY <3>1 DEF Durable, TypeOK
  <2> QED BY <1>2, <1>4, <2>1, <2>2 DEF TypeOK
<1>10. HandlerShape'
  BY <1>1, <1>4, IdleType DEF HandlerShape
<1>11. LocksExclusive'
  BY <1>6 DEF LocksExclusive, RequestLink
<1>12. DecisionHolds'
  <2>1. \A q \in Requests : HoldsKey(q)' =>
          (req[q].key \in KeysOf(events') <=> req[q].key \in KeysOf(events))
    BY <1>2, <1>3, <1>8 DEF KeysOf
  <2> QED BY <1>6, <2>1 DEF DecisionHolds, KeysOf
<1>13. row.id # 0 => row.id \notin IdsOf(EverLogged)
  BY <1>3, <1>7 DEF IdsFresh
<1>14. IdsFresh'
  <2>1. \A e \in new : e = row /\ row.id # 0 /\ \A f \in EverLogged : f.id # e.id
    BY <1>3, <1>13 DEF IdsOf
  <2>2. \A e, f \in EverLogged' : e.id = f.id => e = f
    BY <1>2, <2>1 DEF IdsFresh
  <2>3. events' \cap purged = {}
    <3>1. new \cap purged = {}
      BY <2>1 DEF EverLogged
    <3> QED BY <1>2, <3>1 DEF IdsFresh
  <2>4. \A e \in EverLogged' : e.id < nextId
    BY <1>1, <1>2, <1>3, <2>1 DEF IdsFresh
  <2>5. \A q \in Requests : HoldsKey(q)' => req'[q].id \notin IdsOf(EverLogged')
    <3> SUFFICES ASSUME NEW q \in Requests, HoldsKey(q)'
                 PROVE  req'[q].id \notin IdsOf(EverLogged')
      OBVIOUS
    <3>1. q # r /\ HoldsKey(q) /\ req'[q] = req[q]
      BY <1>6
    <3>2. \A e \in new : e.id # req[q].id
      BY <1>3, <1>7, <2>1, <3>1 DEF IdsFresh
    <3> QED BY <1>2, <3>1, <3>2 DEF IdsFresh, IdsOf
  <2>6. \A q \in Requests : req'[q].id < nextId
    BY <1>4, <1>5 DEF IdsFresh
  <2>7. \A p, q \in Requests :
          p # q /\ HoldsKey(p)' /\ HoldsKey(q)' /\ req'[p].id # 0 => req'[p].id # req'[q].id
    BY <1>6 DEF IdsFresh
  <2> QED BY <2>2, <2>3, <2>4, <2>5, <2>6, <2>7 DEF IdsFresh, IdsOf
<1>15. CountedIffLive'
  <2>1. \A l \in Links : links'[l].live = links[l].live
    BY DEF Durable, TypeOK, LinkRow
  <2>2. \A q \in Requests : req'[q].pc = "commit" =>
          req'[q] = req[q] /\ RequestLink(q) \in Links
    BY <1>4, <1>5, RequestLinkType DEF HandlerShape
  <2> QED BY <2>1, <2>2 DEF CountedIffLive, RequestLink
<1>16. AnsweredLogged'
  <2>1. req[r].key \in KeysOf(EverLogged')
    BY <1>2, <1>3, <1>7 DEF DecisionHolds, KeysOf, EverLogged
  <2> SUFFICES ASSUME NEW q \in Requests, req'[q].pc = "respond"
               PROVE  req'[q].key \in KeysOf(EverLogged')
    BY DEF AnsweredLogged, KeysOf, EverLogged
  <2>2. CASE q = r
    BY <1>4, <2>1, <2>2, IdleType
  <2>3. CASE q # r
    BY <1>2, <1>4, <2>3 DEF AnsweredLogged, KeysOf
  <2> QED BY <2>2, <2>3
<1>17. IsFiniteSet(EverLogged')
  <2>1. IsFiniteSet(new)
    BY FS_EmptySet, FS_Singleton
  <2> QED BY <1>2, <2>1, FS_Union
<1>18. OneRowPerKey'
  <2>1. \A e \in new : e = row /\ row.key \notin KeysOf(events)
    BY <1>3, <1>7 DEF DecisionHolds
  <2> QED BY <1>2, <2>1 DEF OneRowPerKey, KeysOf
<1>19. AckedClickHasRow'
  BY <1>2 DEF AckedClickHasRow, KeysOf
<1>20. CounterMatchesHistory'
  <2> SUFFICES ASSUME NEW l \in Links, links'[l].live
               PROVE  links'[l].clicks = Cardinality(ClicksOn(l, EverLogged'))
    BY DEF CounterMatchesHistory, ClicksOn, EverLogged
  <2>1. /\ links[l].live
        /\ links'[l].clicks = IF req[r].bumped /\ l = RequestLink(r)
                              THEN links[l].clicks + 1 ELSE links[l].clicks
    BY DEF Durable, TypeOK, LinkRow
  <2>2. links[l].clicks = Cardinality(ClicksOn(l, EverLogged))
    BY <2>1 DEF CounterMatchesHistory
  <2>3. CASE req[r].id # 0 /\ l = RequestLink(r)
    <3>1. req[r].bumped
      BY <2>1, <2>3 DEF CountedIffLive
    <3>2. ClicksOn(l, EverLogged') = ClicksOn(l, EverLogged) \cup {row}
      BY <1>2, <1>3, <2>3 DEF ClicksOn, RequestLink
    <3>3. row \notin ClicksOn(l, EverLogged)
      BY <1>3, <1>13, <2>3 DEF ClicksOn, IdsOf
    <3>4. IsFiniteSet(ClicksOn(l, EverLogged))
      BY FS_Subset DEF ClicksOn
    <3>5. Cardinality(ClicksOn(l, EverLogged) \cup {row}) = Cardinality(ClicksOn(l, EverLogged)) + 1
      BY <3>3, <3>4, FS_AddElement
    <3> QED BY <2>1, <2>2, <2>3, <3>1, <3>2, <3>5
  <2>4. CASE ~ (req[r].id # 0 /\ l = RequestLink(r))
    <3>1. ClicksOn(l, EverLogged') = ClicksOn(l, EverLogged)
      BY <1>2, <1>3, <2>4 DEF ClicksOn, RequestLink
    <3> QED BY <1>1, <2>1, <2>2, <2>4, <3>1
  <2> QED BY <2>3, <2>4
<1> QED
  BY <1>9, <1>10, <1>11, <1>12, <1>14, <1>15, <1>16, <1>17, <1>18, <1>19, <1>20

(* The retention delete: what a transaction holds stays.                   *)
LEMMA CleanupStep == ASSUME IndInv, CleanupOldClicks PROVE IndInv'
<1> USE DEF IndInv
<1> DEFINE old == {row \in events : TooOld(row)}
<1>1. /\ events' = events \ old /\ purged' = purged \cup old
      /\ UNCHANGED <<clock, links, nextId, req, metrics, acked>>
      /\ \A r \in Requests : HoldsKey(r) => req[r].key \notin KeysOf(old)
  BY DEF CleanupOldClicks
<1>2. EverLogged' = EverLogged
  BY <1>1 DEF EverLogged
<1>3. \A r \in Requests : /\ HoldsKey(r)' <=> HoldsKey(r)
                          /\ HoldsLink(r)' <=> HoldsLink(r)
                          /\ RequestLink(r)' = RequestLink(r)
  BY <1>1 DEF HoldsKey, HoldsLink, RequestLink
<1>4. TypeOK' /\ HandlerShape' /\ LocksExclusive' /\ CountedIffLive'
  BY <1>1, <1>3 DEF TypeOK, HandlerShape, LocksExclusive, CountedIffLive
<1>5. DecisionHolds'
  <2>1. \A r \in Requests : HoldsKey(r) =>
          (req[r].key \in KeysOf(events') <=> req[r].key \in KeysOf(events))
    BY <1>1 DEF KeysOf
  <2> QED BY <1>1, <1>3, <2>1 DEF DecisionHolds, KeysOf
<1>6. IdsFresh'
  <2>1. events' \cap purged' = {}
    BY <1>1 DEF IdsFresh
  <2> QED BY <1>1, <1>2, <1>3, <2>1 DEF IdsFresh
<1>7. (AnsweredLogged /\ IsFiniteSet(EverLogged) /\ CounterMatchesHistory /\ AckedClickHasRow)'
  BY <1>1, <1>2 DEF AnsweredLogged, CounterMatchesHistory, AckedClickHasRow, ClicksOn, KeysOf
<1>8. OneRowPerKey'
  BY <1>1 DEF OneRowPerKey
<1> QED BY <1>4, <1>5, <1>6, <1>7, <1>8

(* The owner's edits wait for the row, and never touch its count.          *)
LEMMA OwnerStep ==
  ASSUME IndInv, NEW l \in Links, NEW public \in BOOLEAN,
         UpdateLink(l, public) \/ DeleteLink(l)
  PROVE  IndInv'
<1> USE DEF IndInv
<1>1. UNCHANGED <<clock, events, nextId, req, metrics, purged, acked>>
  BY DEF UpdateLink, DeleteLink
<1>2. /\ links' \in [Links -> LinkRow]
      /\ \A k \in Links : links'[k].clicks = links[k].clicks
      /\ \A k \in Links : links'[k].live => links[k].live
      /\ \A k \in Links : links[k].live /\ ~ links'[k].live => ~ LinkLocked(k)
  <2>1. CASE UpdateLink(l, public)
    BY <2>1 DEF UpdateLink, TypeOK, LinkRow
  <2>2. CASE DeleteLink(l)
    BY <2>2 DEF DeleteLink, TypeOK, LinkRow
  <2> QED BY <2>1, <2>2
<1>3. EverLogged' = EverLogged
  BY <1>1 DEF EverLogged
<1>4. \A r \in Requests : /\ HoldsKey(r)' <=> HoldsKey(r)
                          /\ HoldsLink(r)' <=> HoldsLink(r)
                          /\ RequestLink(r)' = RequestLink(r)
  BY <1>1 DEF HoldsKey, HoldsLink, RequestLink
<1>5. TypeOK'
  BY <1>1, <1>2 DEF TypeOK
<1>6. HandlerShape' /\ LocksExclusive' /\ DecisionHolds' /\ IdsFresh'
  BY <1>1, <1>3, <1>4 DEF HandlerShape, LocksExclusive, DecisionHolds, IdsFresh
<1>7. CountedIffLive'
  <2> SUFFICES ASSUME NEW r \in Requests, req[r].pc = "commit", req[r].id # 0
               PROVE  req[r].bumped <=> links'[RequestLink(r)].live
    BY <1>1, <1>4 DEF CountedIffLive
  <2>1. RequestLink(r) \in Links
    BY RequestLinkType DEF HandlerShape
  <2>2. req[r].bumped <=> links[RequestLink(r)].live
    BY DEF CountedIffLive
  <2>3. req[r].bumped => LinkLocked(RequestLink(r))
    BY DEF LinkLocked, HoldsLink
  <2> QED BY <1>2, <2>1, <2>2, <2>3
<1>8. (AnsweredLogged /\ IsFiniteSet(EverLogged) /\ OneRowPerKey /\ AckedClickHasRow)'
  BY <1>1, <1>3 DEF AnsweredLogged, OneRowPerKey, AckedClickHasRow, KeysOf
<1>9. CounterMatchesHistory'
  BY <1>2, <1>3 DEF CounterMatchesHistory, ClicksOn
<1> QED BY <1>5, <1>6, <1>7, <1>8, <1>9

-----------------------------------------------------------------------------
(* No step of the system breaks the invariant.                             *)
LEMMA NextInv == IndInv /\ [Next]_vars => IndInv'
<1> SUFFICES ASSUME IndInv, [Next]_vars PROVE IndInv'
  OBVIOUS
<1>0. /\ clock \in Minutes /\ req \in [Requests -> Handler]
      /\ metrics \in [ingested : Nat, deduped : Nat]
      /\ acked \subseteq Keys /\ acked \subseteq KeysOf(EverLogged)
  BY DEF IndInv, TypeOK, AckedClickHasRow
<1>1. ASSUME NEW r \in Requests, Lookup(r) PROVE IndInv'
  <2> DEFINE h == [req[r] EXCEPT !.pc = "insert", !.time = clock,
                                 !.key = KeyFor(req[r].click, clock)]
  <2>1. req[r] \in Handler /\ req[r].click \in Clicks /\ req[r].id = 0 /\ req[r].bumped = FALSE
    BY <1>0, <1>1 DEF IndInv, HandlerShape, Lookup, Handler
  <2>2. KeyFor(req[r].click, clock) \in Keys
    BY <1>0, <2>1, KeyForType
  <2>3. HoldsNothing(h)
    BY <1>0, <2>1, <2>2 DEF HoldsNothing, Handler
  <2>4. req' = [req EXCEPT ![r] = h] /\ UNCHANGED <<clock, links, events, nextId, metrics, purged, acked>>
    BY <1>0, <1>1, <2>1 DEF Lookup, Handler
  <2> QED BY <1>0, <2>3, <2>4, TablesKept DEF HoldsNothing
<1>2. ASSUME NEW r \in Requests, LookupMiss(r) \/ Fail(r) PROVE IndInv'
  BY <1>0, <1>2, IdleHoldsNothing, IdleType, TablesKept DEF LookupMiss, Fail
<1>3. ASSUME NEW r \in Requests, Respond(r) PROVE IndInv'
  <2>1. req[r].key \in Keys /\ req[r].key \in KeysOf(EverLogged)
    BY <1>3 DEF Respond, IndInv, HandlerShape, AnsweredLogged
  <2>2. acked' \subseteq Keys /\ acked' \subseteq KeysOf(EverLogged)
    BY <1>0, <1>3, <2>1 DEF Respond
  <2>3. metrics' \in [ingested : Nat, deduped : Nat]
    BY <1>0, <1>3 DEF Respond
  <2> QED BY <1>0, <1>3, <2>2, <2>3, IdleHoldsNothing, IdleType, TablesKept DEF Respond
<1>4. ASSUME NEW r \in Requests, Commit(r) \/ CommitLost(r) PROVE IndInv'
  BY <1>4, CommitStep DEF Commit, CommitLost
<1>5. ASSUME NEW r \in Requests, NEW c \in Clicks, Send(r, c) PROVE IndInv'
  <2> DEFINE h == [Idle EXCEPT !.pc = "lookup", !.click = c]
  <2>1. HoldsNothing(h) /\ h \in Handler
    BY IdleType DEF HoldsNothing, Handler
  <2> QED BY <1>0, <1>5, <2>1, TablesKept DEF Send
<1>6. ASSUME Crash PROVE IndInv'
  BY <1>0, <1>6, IdleHoldsNothing, IdleType, TablesKept DEF Crash
<1>7. ASSUME Tick PROVE IndInv'
  <2>1. clock' \in Minutes
    BY <1>0, <1>7 DEF Tick, Minutes
  <2> QED BY <1>0, <1>7, <2>1, TablesKept DEF Tick
<1>8. ASSUME UNCHANGED vars PROVE IndInv'
  BY <1>0, <1>8, TablesKept DEF vars
<1> QED
  BY <1>1, <1>2, <1>3, <1>4, <1>5, <1>6, <1>7, <1>8, InsertStep, BumpStep, CleanupStep,
     OwnerStep DEF Next, Serve

-----------------------------------------------------------------------------
(* IndInv holds in every state the click path can reach.                   *)
THEOREM Invariance == Spec => []IndInv
<1> QED BY InitInv, NextInv, PTL DEF Spec

(* The tables, the handlers and the counters keep their types.             *)
THEOREM TypeCorrect == Spec => []TypeOK
<1>1. IndInv => TypeOK
  BY DEF IndInv
<1> QED BY <1>1, Invariance, PTL

(* No key is ever logged twice, however the requests carrying it race,     *)
(* fail or are repeated.                                                   *)
THEOREM Deduplicated == Spec => []OneRowPerKey
<1>1. IndInv => OneRowPerKey
  BY DEF IndInv
<1> QED BY <1>1, Invariance, PTL

(* click_count of a link that is there counts every click ever logged.     *)
THEOREM CounterCorrect == Spec => []CounterMatchesHistory
<1>1. IndInv => CounterMatchesHistory
  BY DEF IndInv
<1> QED BY <1>1, Invariance, PTL

(* A click answered 202 is in the log, or was until retention took it.     *)
THEOREM AckDurable == Spec => []AckedClickHasRow
<1>1. IndInv => AckedClickHasRow
  BY DEF IndInv
<1> QED BY <1>1, Invariance, PTL

-----------------------------------------------------------------------------
(* click_events only grows at its end and is only trimmed past retention.  *)
THEOREM LogAppendOnly == Spec => AppendOnly
<1>1. IndInv /\ [Next]_vars => [AppendOnlyStep]_vars
  <2> SUFFICES ASSUME IndInv, Next PROVE AppendOnlyStep \/ UNCHANGED vars
    OBVIOUS
  <2>1. ASSUME NEW r \in Requests, req[r].pc = "commit", Durable(r), purged' = purged
        PROVE  AppendOnlyStep
    <3>1. \A row \in events' \ events : req[r].id # 0 /\ row = NewRow(r)
      BY <2>1 DEF Durable
    <3>2. req[r].id \notin IdsOf(EverLogged)
      BY <2>1 DEF IndInv, IdsFresh, HoldsKey
    <3>3. events \subseteq events'
      BY <2>1 DEF Durable
    <3> QED BY <3>1, <3>2, <3>3 DEF AppendOnlyStep, NewRow, IdsOf
  <2>2. ASSUME CleanupOldClicks PROVE AppendOnlyStep
    <3>1. \A row \in events \ events' : TooOld(row) /\ row \in purged'
      BY <2>2 DEF CleanupOldClicks
    <3>2. events' \subseteq events
      BY <2>2 DEF CleanupOldClicks
    <3>3. \A row \in events : row.time \in Int /\ clock \in Int /\ Retention \in Int
      BY DEF IndInv, TypeOK, EventRow, Minutes
    <3> QED BY <3>1, <3>2, <3>3 DEF AppendOnlyStep, TooOld
  <2>3. ASSUME events' = events PROVE AppendOnlyStep
    BY <2>3 DEF AppendOnlyStep
  <2> QED
    BY <2>1, <2>2, <2>3 DEF Next, Serve, Send, Lookup, LookupMiss, Insert, Bump, Commit,
       CommitLost, Fail, Respond, Crash, Tick, UpdateLink, DeleteLink
<1> QED BY <1>1, Invariance, PTL DEF Spec, AppendOnly

-----------------------------------------------------------------------------
(* The ledger's view of a commit: a row recorded and counted at once, or   *)
(* nothing.                                                                *)
LEMMA CommitRefines ==
  ASSUME IndInv, NEW r \in Requests, req[r].pc = "commit", Durable(r),
         UNCHANGED <<purged, acked>>
  PROVE  [Ledger!Next]_(Ledger!ledgerVars)
<1> DEFINE Tally == [l \in Links |-> links[l].clicks]
           Live == {l \in Links : links[l].live}
<1>1. /\ req[r].click \in Clicks /\ RequestLink(r) \in Links
      /\ req[r].bumped => req[r].id # 0
  BY RequestLinkType DEF IndInv, HandlerShape
<1>2. /\ Live' = Live
      /\ \A l \in Links : links'[l].clicks = IF req[r].bumped /\ l = RequestLink(r)
                                             THEN links[l].clicks + 1 ELSE links[l].clicks
  BY DEF Durable, IndInv, TypeOK, LinkRow
<1>3. CASE req[r].id = 0
  <2>1. events' = events /\ Tally' = Tally
    BY <1>1, <1>2, <1>3 DEF Durable
  <2> QED BY <1>2, <2>1 DEF Ledger!ledgerVars
<1>4. CASE req[r].id # 0
  <2> DEFINE row == NewRow(r)
  <2>1. row \in EventRow
    BY <1>4, NewRowType DEF IndInv
  <2>2. row \notin events \cup purged
    BY <1>4 DEF IndInv, IdsFresh, HoldsKey, EverLogged, IdsOf, NewRow
  <2>3. row.key \notin Ledger!KeysIn(events)
    BY <1>4 DEF IndInv, DecisionHolds, HoldsKey, KeysOf, NewRow, Ledger!KeysIn
  <2>4. events' = events \cup {row}
    BY <1>4 DEF Durable
  <2>5. LinkOf[row.click] = RequestLink(r)
    BY DEF NewRow, RequestLink
  <2>6. RequestLink(r) \in Live <=> req[r].bumped
    BY <1>1, <1>4 DEF IndInv, CountedIffLive
  <2>7. Tally' = [l \in Links |-> IF l = LinkOf[row.click] /\ l \in Live
                                  THEN Tally[l] + 1 ELSE Tally[l]]
    BY <1>2, <2>5, <2>6
  <2>8. Ledger!Record
    BY <1>2, <2>1, <2>2, <2>3, <2>4, <2>7 DEF Ledger!Record
  <2> QED BY <2>8 DEF Ledger!Next
<1> QED BY <1>3, <1>4

(* Every step of the click path is a step of the ledger, or none.          *)
LEMMA StepRefines ==
  ASSUME IndInv, [Next]_vars PROVE [Ledger!Next]_(Ledger!ledgerVars)
<1>1. ASSUME NEW r \in Requests, Commit(r) \/ CommitLost(r)
      PROVE  [Ledger!Next]_(Ledger!ledgerVars)
  BY <1>1, CommitRefines DEF Commit, CommitLost
<1>2. ASSUME NEW r \in Requests, Respond(r) PROVE Ledger!Next
  <2>1. req[r].key \in Ledger!KeysIn(events \cup purged)
    BY <1>2 DEF Respond, IndInv, AnsweredLogged, KeysOf, EverLogged, Ledger!KeysIn
  <2> QED BY <1>2, <2>1 DEF Respond, Ledger!Next, Ledger!Acknowledge
<1>3. ASSUME CleanupOldClicks PROVE Ledger!Next
  <2> DEFINE old == {row \in events : TooOld(row)}
  <2>1. /\ old \in SUBSET events
        /\ events' = events \ old /\ purged' = purged \cup old
        /\ UNCHANGED <<links, acked>>
    BY <1>3 DEF CleanupOldClicks
  <2> HIDE DEF old
  <2> QED BY <2>1 DEF Ledger!Next, Ledger!Expire
<1>4. ASSUME NEW l \in Links, DeleteLink(l) PROVE Ledger!Next
  <2>1. /\ l \in {k \in Links : links[k].live}
        /\ {k \in Links : links'[k].live} = {k \in Links : links[k].live} \ {l}
        /\ \A k \in Links : links'[k].clicks = links[k].clicks
    BY <1>4 DEF DeleteLink, IndInv, TypeOK, LinkRow
  <2>2. UNCHANGED <<events, purged, acked>>
    BY <1>4 DEF DeleteLink
  <2> QED BY <2>1, <2>2 DEF Ledger!Next, Ledger!Retire
<1>5. ASSUME NEW l \in Links, NEW public \in BOOLEAN, UpdateLink(l, public)
      PROVE  UNCHANGED Ledger!ledgerVars
  <2>1. \A k \in Links : links'[k].clicks = links[k].clicks /\ links'[k].live = links[k].live
    BY <1>5 DEF UpdateLink, IndInv, TypeOK, LinkRow
  <2>2. UNCHANGED <<events, purged, acked>>
    BY <1>5 DEF UpdateLink
  <2> QED BY <2>1, <2>2 DEF Ledger!ledgerVars
<1>6. ASSUME UNCHANGED <<links, events, purged, acked>>
      PROVE  UNCHANGED Ledger!ledgerVars
  BY <1>6 DEF Ledger!ledgerVars
<1> QED
  BY <1>1, <1>2, <1>3, <1>4, <1>5, <1>6 DEF Next, Serve, Send, Lookup, LookupMiss, Insert,
     Bump, Fail, Crash, Tick, vars

(* The click path implements the ledger.                                   *)
THEOREM Refinement == Spec => ImplementsLedger
<1>1. Init => Ledger!Init
  BY IdleType DEF Init, Ledger!Init
<1>2. IndInv /\ [Next]_vars => [Ledger!Next]_(Ledger!ledgerVars)
  BY StepRefines
<1> QED BY <1>1, <1>2, Invariance, PTL DEF Spec, ImplementsLedger, Ledger!Spec

-----------------------------------------------------------------------------
(* One handler entering or leaving a finite set of handlers.               *)
LEMMA UnreportedFinite == IsFiniteSet(Unreported)
BY RequestsAssumption, FS_Subset DEF Unreported

LEMMA UnreportedFinitePrime == IsFiniteSet(Unreported')
BY RequestsAssumption, FS_Subset DEF Unreported

(* A step that leaves the log and the metric alone and lets no handler     *)
(* become unreported keeps the metric backed.                              *)
LEMMA MetricKept ==
  ASSUME IndInv, IngestedMetricBacked, EverLogged' = EverLogged,
         metrics' = metrics, Unreported' \subseteq Unreported
  PROVE  IngestedMetricBacked'
<1>1. Cardinality(Unreported') <= Cardinality(Unreported)
  BY UnreportedFinite, FS_Subset
<1>2. /\ Cardinality(Unreported') \in Nat /\ Cardinality(Unreported) \in Nat
      /\ Cardinality(EverLogged) \in Nat /\ metrics.ingested \in Nat
  BY UnreportedFinite, UnreportedFinitePrime, FS_CardinalityType DEF IndInv, TypeOK
<1> QED BY <1>1, <1>2 DEF IngestedMetricBacked

(* A commit adds a row for every handler it adds.                          *)
LEMMA MetricCommit ==
  ASSUME IndInv, IngestedMetricBacked, NEW r \in Requests, req[r].pc = "commit",
         Durable(r), UNCHANGED <<metrics, purged>>,
         Unreported' \subseteq Unreported \cup (IF req[r].id # 0 THEN {r} ELSE {})
  PROVE  IngestedMetricBacked'
<1>1. r \notin Unreported
  BY DEF Unreported
<1>2. /\ Cardinality(Unreported') \in Nat /\ Cardinality(Unreported) \in Nat
      /\ Cardinality(EverLogged) \in Nat /\ metrics.ingested \in Nat
  BY UnreportedFinite, UnreportedFinitePrime, FS_CardinalityType DEF IndInv, TypeOK
<1>3. CASE req[r].id = 0
  <2>1. EverLogged' = EverLogged
    BY <1>3 DEF Durable, EverLogged
  <2> QED BY <1>3, <2>1, MetricKept
<1>4. CASE req[r].id # 0
  <2>1. EverLogged' = EverLogged \cup {NewRow(r)} /\ NewRow(r) \notin EverLogged
    BY <1>4 DEF Durable, EverLogged, IndInv, IdsFresh, HoldsKey, IdsOf, NewRow
  <2>2. Cardinality(EverLogged \cup {NewRow(r)}) = Cardinality(EverLogged) + 1
    BY <2>1, FS_AddElement DEF IndInv
  <2>3. /\ Cardinality(Unreported \cup {r}) = Cardinality(Unreported) + 1
        /\ IsFiniteSet(Unreported \cup {r})
    BY <1>1, UnreportedFinite, FS_AddElement
  <2>4. Cardinality(Unreported') <= Cardinality(Unreported \cup {r})
    BY <1>4, <2>3, FS_Subset
  <2> QED BY <1>2, <2>1, <2>2, <2>3, <2>4 DEF IngestedMetricBacked
<1> QED BY <1>3, <1>4

(* The ingested counter is at most the number of clicks ever logged, even  *)
(* with the handlers that have yet to count theirs.                        *)
THEOREM MetricBacked == Spec => []IngestedMetricBacked
<1>1. Init => IngestedMetricBacked
  <2> SUFFICES ASSUME Init PROVE IngestedMetricBacked
    OBVIOUS
  <2>1. Unreported = {} /\ EverLogged = {} /\ metrics.ingested = 0
    BY IdleType DEF Init, Unreported, EverLogged
  <2> QED BY <2>1, FS_EmptySet DEF IngestedMetricBacked
<1>2. IndInv /\ IngestedMetricBacked /\ [Next]_vars => IngestedMetricBacked'
  <2> SUFFICES ASSUME IndInv, IngestedMetricBacked, [Next]_vars PROVE IngestedMetricBacked'
    OBVIOUS
  <2>0. req \in [Requests -> Handler]
    BY DEF IndInv, TypeOK
  <2>1. ASSUME NEW r \in Requests, Commit(r) \/ CommitLost(r) PROVE IngestedMetricBacked'
    <3>1. Unreported' \subseteq Unreported \cup (IF req[r].id # 0 THEN {r} ELSE {})
      BY <2>0, <2>1, IdleType DEF Commit, CommitLost, Unreported, Handler
    <3> QED BY <2>1, <3>1, MetricCommit DEF Commit, CommitLost
  <2>2. ASSUME NEW r \in Requests, Respond(r) PROVE IngestedMetricBacked'
    <3>1. EverLogged' = EverLogged
      BY <2>2 DEF Respond, EverLogged
    <3>2. Unreported' = Unreported \ {r}
      BY <2>0, <2>2, IdleType DEF Respond, Unreported
    <3>3. /\ Cardinality(Unreported) \in Nat /\ Cardinality(EverLogged) \in Nat
          /\ metrics.ingested \in Nat
      BY UnreportedFinite, FS_CardinalityType DEF IndInv, TypeOK
    <3>4. CASE req[r].id = 0
      <4>1. metrics'.ingested = metrics.ingested /\ Unreported' = Unreported
        BY <2>2, <3>2, <3>4 DEF Respond, Unreported, IndInv, TypeOK
      <4> QED BY <3>1, <4>1 DEF IngestedMetricBacked
    <3>5. CASE req[r].id # 0
      <4>1. metrics'.ingested = metrics.ingested + 1
        BY <2>2, <3>5 DEF Respond, IndInv, TypeOK
      <4>2. r \in Unreported
        BY <2>2, <3>5 DEF Respond, Unreported
      <4>3. Cardinality(Unreported \ {r}) = Cardinality(Unreported) - 1
        BY <4>2, UnreportedFinite, FS_RemoveElement
      <4> QED BY <3>1, <3>2, <3>3, <4>1, <4>3 DEF IngestedMetricBacked
    <3> QED BY <3>4, <3>5
  <2>3. ASSUME Crash PROVE IngestedMetricBacked'
    <3>1. Unreported' = {} /\ EverLogged' = EverLogged /\ metrics'.ingested = 0
      BY <2>3, IdleType DEF Crash, Unreported, EverLogged
    <3>2. Cardinality(EverLogged) \in Nat
      BY FS_CardinalityType DEF IndInv
    <3> QED BY <3>1, <3>2, FS_EmptySet DEF IngestedMetricBacked
  <2>4. ASSUME NEW r \in Requests,
               \/ Lookup(r) \/ LookupMiss(r) \/ Insert(r) \/ Bump(r) \/ Fail(r)
               \/ \E c \in Clicks : Send(r, c)
        PROVE  IngestedMetricBacked'
    <3>1. EverLogged' = EverLogged /\ metrics' = metrics
      BY <2>4 DEF Lookup, LookupMiss, Insert, Bump, Fail, Send, EverLogged
    <3>2. Unreported' \subseteq Unreported
      <4>1. PICK q \in Requests : /\ req'[q].pc # "respond"
                                 /\ \A p \in Requests : p # q => req'[p] = req[p]
        <5>1. CASE Lookup(r) \/ LookupMiss(r) \/ Insert(r) \/ Bump(r) \/ Fail(r)
          BY <2>0, <5>1, IdleType DEF Lookup, LookupMiss, Insert, Bump, Fail, Handler
        <5>2. ASSUME NEW c \in Clicks, Send(r, c)
              PROVE  req'[r].pc # "respond" /\ \A p \in Requests : p # r => req'[p] = req[p]
          BY <2>0, <5>2 DEF Send, Idle
        <5> QED BY <2>4, <5>1, <5>2
      <4> QED BY <4>1 DEF Unreported
    <3> QED BY <3>1, <3>2, MetricKept
  <2>5. ASSUME \/ Tick \/ CleanupOldClicks \/ UNCHANGED vars
               \/ \E l \in Links : DeleteLink(l) \/ \E public \in BOOLEAN : UpdateLink(l, public)
        PROVE  IngestedMetricBacked'
    <3>1. EverLogged' = EverLogged /\ metrics' = metrics /\ Unreported' = Unreported
      BY <2>5 DEF Tick, CleanupOldClicks, DeleteLink, UpdateLink, EverLogged, Unreported, vars
    <3> QED BY <3>1, MetricKept
  <2> QED BY <2>1, <2>2, <2>3, <2>4, <2>5 DEF Next, Serve
<1> QED BY <1>1, <1>2, Invariance, PTL DEF Spec
=============================================================================
