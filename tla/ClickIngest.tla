---------------------------- MODULE ClickIngest ----------------------------
(***************************************************************************)
(* The click path of LinkNest: POST /links/{id}/track_click in http/       *)
(* server.go, Store.LinkForTracking and Store.IngestClick in store/        *)
(* store.go, and what runs beside them on the same rows: other requests,   *)
(* the owner editing or deleting the link, the daily worker's retention    *)
(* delete, a database error at any statement, a crash of the process.      *)
(*                                                                         *)
(* One action is one statement of a handler.  MySQL is modelled by how     *)
(* IngestClick uses it: a transaction's writes are buffered in its request *)
(* until Commit, the unique key it inserted (or met) and the links row it  *)
(* updated stay locked until then, and a statement that needs a locked row *)
(* waits.  A minute of the server's clock is the unit of time.             *)
(***************************************************************************)
EXTENDS Integers, FiniteSets

CONSTANTS
  Links,       \* links.id of the links that exist at the start
  Clicks,      \* a visitor's clicks; a retry sends the same click again
  Requests,    \* the requests the server can be working on at once
  LinkOf,      \* click -> the link in the request's path
  VisitorOf,   \* click -> its IP address, user agent and referrer
  ClientKey,   \* click -> its Idempotency-Key header, or NoKey
  NoKey, NoClick,
  Retention,   \* age, in minutes, past which CleanupOldClicks deletes
  MaxMinute,   \* bound: the clock stops here
  MaxId        \* bound: the last AUTO_INCREMENT id of click_events

ASSUME BoundsAssumption == /\ Retention \in Nat
                           /\ MaxMinute \in Nat
                           /\ MaxId \in Nat
ASSUME ClicksAssumption == /\ LinkOf \in [Clicks -> Links]
                           /\ NoClick \notin Clicks
ASSUME RequestsAssumption == IsFiniteSet(Requests)

VARIABLES
  clock,       \* the minute time.Now() is in
  links,       \* link -> its row: is it there, public, and click_count
  events,      \* the committed rows of click_events
  nextId,      \* the AUTO_INCREMENT counter of click_events
  req,         \* request -> where its handler is and what it holds
  metrics,     \* the in-memory ingested and deduplicated counters
  purged,      \* history: the rows CleanupOldClicks has deleted
  acked        \* history: the keys whose request was answered 202

vars == <<clock, links, events, nextId, req, metrics, purged, acked>>

-----------------------------------------------------------------------------
Minutes == 0..MaxMinute

(* trackClick takes the header's key, and derives one when it is empty     *)
(* from link, visitor and the minute of the request.                       *)
KeyFor(c, minute) ==
  IF ClientKey[c] # NoKey THEN ClientKey[c]
                          ELSE <<LinkOf[c], VisitorOf[c], minute>>

Keys == {KeyFor(c, m) : c \in Clicks, m \in Minutes}

LinkRow == [live : BOOLEAN, public : BOOLEAN, clicks : Nat]

EventRow == [id : 1..MaxId, key : Keys, click : Clicks, time : Minutes]

(* lookup: before LinkForTracking; insert, bump, commit: before that       *)
(* statement of IngestClick; respond: it has returned.  id is the row this *)
(* transaction inserted, 0 for none; bumped tells whether its UPDATE found *)
(* the link.                                                               *)
Handler == [pc : {"idle", "lookup", "insert", "bump", "commit", "respond"},
            click : Clicks \cup {NoClick},
            key : Keys \cup {NoKey},
            time : Minutes,
            id : 0..MaxId,
            bumped : BOOLEAN]

Idle == [pc |-> "idle", click |-> NoClick, key |-> NoKey, time |-> 0,
         id |-> 0, bumped |-> FALSE]

RequestLink(r) == LinkOf[req[r].click]

(* The row a transaction has inserted and will commit.                     *)
NewRow(r) == [id |-> req[r].id, key |-> req[r].key,
              click |-> req[r].click, time |-> req[r].time]

(* Mutant: a handler claims its key when it computes it.                   *)
HoldsKeyEarly(r) == req[r].pc \in {"insert", "bump", "commit"}

(* A transaction that has executed its INSERT holds the entry of its key   *)
(* in the unique index, whether it inserted the row or met a duplicate.    *)
HoldsKey(r) == req[r].pc \in {"bump", "commit"}

KeyLocked(key) == \E r \in Requests : HoldsKey(r) /\ req[r].key = key

(* ... and one whose UPDATE found the link holds the link's row.           *)
HoldsLink(r) == req[r].pc = "commit" /\ req[r].bumped

LinkLocked(l) == \E r \in Requests : HoldsLink(r) /\ RequestLink(r) = l

KeysOf(rows) == {row.key : row \in rows}

EverLogged == events \cup purged

Init ==
  /\ clock = 0
  /\ links \in [Links -> [live : {TRUE}, public : BOOLEAN, clicks : {0}]]
  /\ events = {}
  /\ nextId = 1
  /\ req = [r \in Requests |-> Idle]
  /\ metrics = [ingested |-> 0, deduped |-> 0]
  /\ purged = {}
  /\ acked = {}

-----------------------------------------------------------------------------
(* Requests that will still take an id; Send keeps MaxId out of reach.     *)
Unnumbered == {r \in Requests : req[r].pc \in {"lookup", "insert"}}

(* A browser posts a click: the first time, again, or twice at once.       *)
Send(r, c) ==
  /\ req[r].pc = "idle"
  /\ nextId + Cardinality(Unnumbered) <= MaxId
  /\ req' = [req EXCEPT ![r] = [Idle EXCEPT !.pc = "lookup", !.click = c]]
  /\ UNCHANGED <<clock, links, events, nextId, metrics, purged, acked>>

(* LinkForTracking finds a public link: trackClick stamps the time, picks  *)
(* the key and calls IngestClick.                                          *)
Lookup(r) ==
  /\ req[r].pc = "lookup"
  /\ links[RequestLink(r)].live
  /\ links[RequestLink(r)].public
  /\ req' = [req EXCEPT ![r].pc = "insert",
                        ![r].time = clock,
                        ![r].key = KeyFor(req[r].click, clock)]
  /\ UNCHANGED <<clock, links, events, nextId, metrics, purged, acked>>

(* LinkForTracking finds none: 404.                                        *)
LookupMiss(r) ==
  /\ req[r].pc = "lookup"
  /\ ~ (links[RequestLink(r)].live /\ links[RequestLink(r)].public)
  /\ req' = [req EXCEPT ![r] = Idle]
  /\ UNCHANGED <<clock, links, events, nextId, metrics, purged, acked>>

(* Mutant: idempotency_key has a plain index, so every INSERT adds a row.  *)
InsertWithoutUnique(r) ==
  /\ req[r].pc = "insert"
  /\ nextId <= MaxId
  /\ nextId' = nextId + 1
  /\ req' = [req EXCEPT ![r].pc = "bump", ![r].id = nextId]
  /\ UNCHANGED <<clock, links, events, metrics, purged, acked>>

(* INSERT ... ON DUPLICATE KEY UPDATE id = id: waits while another         *)
(* transaction holds the key, takes an id from the counter either way, and *)
(* affects one row or none.  RowsAffected decides whether the link is      *)
(* counted.                                                                *)
Insert(r) ==
  /\ req[r].pc = "insert"
  /\ ~ KeyLocked(req[r].key)
  /\ nextId <= MaxId
  /\ nextId' = nextId + 1
  /\ \/ /\ req[r].key \in KeysOf(events)
        /\ req' = [req EXCEPT ![r].pc = "commit"]
     \/ /\ req[r].key \notin KeysOf(events)
        /\ req' = [req EXCEPT ![r].pc = "bump", ![r].id = nextId]
  /\ UNCHANGED <<clock, links, events, metrics, purged, acked>>

(* Mutant: the UPDATE repeats LinkForTracking's "AND public = true".       *)
BumpIfPublic(r) ==
  /\ req[r].pc = "bump"
  /\ ~ LinkLocked(RequestLink(r))
  /\ req' = [req EXCEPT ![r].pc = "commit",
                        ![r].bumped = links[RequestLink(r)].live /\ links[RequestLink(r)].public]
  /\ UNCHANGED <<clock, links, events, nextId, metrics, purged, acked>>

(* UPDATE links SET click_count = click_count + 1: waits for the row, and  *)
(* finds none when the link has been deleted meanwhile.                    *)
Bump(r) ==
  /\ req[r].pc = "bump"
  /\ ~ LinkLocked(RequestLink(r))
  /\ req' = [req EXCEPT ![r].pc = "commit",
                        ![r].bumped = links[RequestLink(r)].live]
  /\ UNCHANGED <<clock, links, events, nextId, metrics, purged, acked>>

(* Mutant: "if inserted == 1" is missing before the UPDATE.                *)
DurableCountsRetry(r) ==
  /\ events' = events \cup (IF req[r].id # 0 THEN {NewRow(r)} ELSE {})
  /\ links' = [l \in Links |->
                 IF l = RequestLink(r)
                 THEN [links[l] EXCEPT !.clicks = @ + 1] ELSE links[l]]

(* What a commit makes durable, all of it or nothing.                      *)
Durable(r) ==
  /\ events' = events \cup (IF req[r].id # 0 THEN {NewRow(r)} ELSE {})
  /\ links' = [l \in Links |->
                 IF req[r].bumped /\ l = RequestLink(r)
                 THEN [links[l] EXCEPT !.clicks = @ + 1] ELSE links[l]]

Commit(r) ==
  /\ req[r].pc = "commit"
  /\ Durable(r)
  /\ req' = [req EXCEPT ![r].pc = "respond"]
  /\ UNCHANGED <<clock, nextId, metrics, purged, acked>>

(* The commit takes effect and its answer is lost: trackClick answers 500. *)
CommitLost(r) ==
  /\ req[r].pc = "commit"
  /\ Durable(r)
  /\ req' = [req EXCEPT ![r] = Idle]
  /\ UNCHANGED <<clock, nextId, metrics, purged, acked>>

(* Mutant: IngestClick's error is dropped and trackClick goes on to 202.   *)
FailIgnored(r) ==
  /\ req[r].pc \in {"insert", "bump", "commit"}
  /\ req' = [req EXCEPT ![r].pc = "respond"]
  /\ UNCHANGED <<clock, links, events, nextId, metrics, purged, acked>>

(* A statement fails, or the browser goes away and cancels the context:    *)
(* the deferred Rollback drops the transaction, its id stays used up.      *)
Fail(r) ==
  /\ req[r].pc \in {"lookup", "insert", "bump", "commit"}
  /\ req' = [req EXCEPT ![r] = Idle]
  /\ UNCHANGED <<clock, links, events, nextId, metrics, purged, acked>>

(* Mutant: every accepted click counts as ingested.                        *)
RespondCountsAll(r) ==
  /\ req[r].pc = "respond"
  /\ metrics' = [metrics EXCEPT !.ingested = @ + 1]
  /\ acked' = acked \cup {req[r].key}
  /\ req' = [req EXCEPT ![r] = Idle]
  /\ UNCHANGED <<clock, links, events, nextId, purged>>

(* IngestClick has returned: count the outcome, answer 202.                *)
Respond(r) ==
  /\ req[r].pc = "respond"
  /\ metrics' = IF req[r].id # 0
                THEN [metrics EXCEPT !.ingested = @ + 1]
                ELSE [metrics EXCEPT !.deduped = @ + 1]
  /\ acked' = acked \cup {req[r].key}
  /\ req' = [req EXCEPT ![r] = Idle]
  /\ UNCHANGED <<clock, links, events, nextId, purged>>

-----------------------------------------------------------------------------
(* The process stops and starts again: requests and metrics are gone, the  *)
(* server rolls the open transactions back.                                *)
Crash ==
  /\ req' = [r \in Requests |-> Idle]
  /\ metrics' = [ingested |-> 0, deduped |-> 0]
  /\ UNCHANGED <<clock, links, events, nextId, purged, acked>>

Tick ==
  /\ clock < MaxMinute
  /\ clock' = clock + 1
  /\ UNCHANGED <<links, events, nextId, req, metrics, purged, acked>>

(* Mutant: "<=" for "<" in the retention delete.                           *)
TooOldInclusive(row) == row.time + Retention <= clock

(* The retention delete of the daily worker: one statement over the rows   *)
(* older than Retention.  It waits for every such row a transaction holds. *)
TooOld(row) == row.time + Retention < clock

CleanupOldClicks ==
  LET old == {row \in events : TooOld(row)} IN
  /\ \A r \in Requests : HoldsKey(r) => /\ req[r].key \notin KeysOf(old)
                                        /\ req[r].id # 0 => ~ TooOld(NewRow(r))
  /\ events' = events \ old
  /\ purged' = purged \cup old
  /\ UNCHANGED <<clock, links, nextId, req, metrics, acked>>

(* The owner saves the link with the public box ticked or not.             *)
UpdateLink(l, public) ==
  /\ links[l].live
  /\ ~ LinkLocked(l)
  /\ links' = [links EXCEPT ![l].public = public]
  /\ UNCHANGED <<clock, events, nextId, req, metrics, purged, acked>>

(* The owner deletes the link; the events of its clicks stay.              *)
DeleteLink(l) ==
  /\ links[l].live
  /\ ~ LinkLocked(l)
  /\ links' = [links EXCEPT ![l].live = FALSE]
  /\ UNCHANGED <<clock, events, nextId, req, metrics, purged, acked>>

-----------------------------------------------------------------------------
(* What the server does for a request as long as nothing goes wrong.       *)
Serve(r) == Lookup(r) \/ LookupMiss(r) \/ Insert(r) \/ Bump(r) \/ Commit(r) \/ Respond(r)

Next ==
  \/ \E r \in Requests : Serve(r) \/ Fail(r) \/ CommitLost(r)
  \/ \E r \in Requests, c \in Clicks : Send(r, c)
  \/ \E l \in Links : DeleteLink(l) \/ \E public \in BOOLEAN : UpdateLink(l, public)
  \/ Crash \/ Tick \/ CleanupOldClicks

Spec == Init /\ [][Next]_vars

(* A handler is a goroutine that runs until it returns, and a waiting      *)
(* statement is woken when the lock it waits for is released.              *)
FairSpec == Spec /\ \A r \in Requests : WF_vars(Serve(r))

-----------------------------------------------------------------------------
(* Every variable has its type: the rows of links and click_events, the    *)
(* handlers' local state, the counters of the metrics registry.            *)
TypeOK ==
  /\ clock \in Minutes
  /\ links \in [Links -> LinkRow]
  /\ events \subseteq EventRow
  /\ purged \subseteq EventRow
  /\ nextId \in 1..(MaxId + 1)
  /\ req \in [Requests -> Handler]
  /\ metrics \in [ingested : Nat, deduped : Nat]
  /\ acked \subseteq Keys

(* A double-fired or retried click that reaches the log under one key is   *)
(* one row of it, whatever the interleaving of the requests that carry it  *)
(* (README.md:21, the unique index the insert relies on).                  *)
OneRowPerKey == \A e, f \in events : e.key = f.key => e = f

ClicksOn(l, rows) == {row \in rows : LinkOf[row.click] = l}

(* The cached click_count of a link that is still there is the number of   *)
(* clicks ever logged for it: insert and increment share a transaction,    *)
(* and a failure, a lost commit answer or a crash between the two leaves   *)
(* neither (README.md:22).                                                 *)
CounterMatchesHistory ==
  \A l \in Links : links[l].live =>
    links[l].clicks = Cardinality(ClicksOn(l, EverLogged))

(* 202 is only ever answered for a click whose row is durable: no crash,   *)
(* rollback or duplicate still in flight can take an accepted click back.  *)
AckedClickHasRow == acked \subseteq KeysOf(EverLogged)

(* linknest_click_events_ingested_total never runs ahead of the log, even  *)
(* counting the handlers that have committed and not yet incremented it.   *)
Unreported == {r \in Requests : req[r].pc = "respond" /\ req[r].id # 0}

IngestedMetricBacked ==
  metrics.ingested + Cardinality(Unreported) <= Cardinality(EverLogged)

(* click_events is append-only (DESIGN.md:8): a step changes no committed  *)
(* row and removes one only when retention has passed, and a row that      *)
(* appears has an id no earlier row has had.                               *)
AppendOnlyStep ==
  /\ \A row \in events \ events' : clock - row.time > Retention /\ row \in purged'
  /\ \A row \in events' \ events : \A old \in EverLogged : row.id # old.id

AppendOnly == [][AppendOnlyStep]_vars

(* Every request the server accepts is answered, whatever the others and   *)
(* the workers are doing to its rows: the locks of the click path never    *)
(* leave two transactions waiting for each other.                          *)
EveryRequestEnds == \A r \in Requests : req[r].pc # "idle" ~> req[r].pc = "idle"

-----------------------------------------------------------------------------
(* The click path implements the ledger that the product describes.        *)
Ledger == INSTANCE ClickLedger WITH
            Rows  <- EventRow,
            rows  <- events,
            gone  <- purged,
            tally <- [l \in Links |-> links[l].clicks],
            live  <- {l \in Links : links[l].live}

(* Ids, locks and transactions never show: seen from outside, a click is   *)
(* recorded and counted in one step, and only then acknowledged.           *)
ImplementsLedger == Ledger!Spec
-----------------------------------------------------------------------------
(* Why the invariants above survive every step: what a handler holds at    *)
(* each point of IngestClick, relative to the tables and to the others.    *)

IdsOf(rows) == {row.id : row \in rows}

(* What is filled in at each point of the handler.                         *)
HandlerShape ==
  \A r \in Requests :
    /\ req[r].pc # "idle" => req[r].click \in Clicks
    /\ req[r].pc \in {"insert", "bump", "commit", "respond"} => req[r].key \in Keys
    /\ req[r].pc = "bump" => req[r].id # 0
    /\ req[r].id # 0 => req[r].pc \in {"bump", "commit", "respond"}
    /\ req[r].bumped => req[r].pc \in {"commit", "respond"} /\ req[r].id # 0

(* Two transactions never hold one key, nor one link.                      *)
LocksExclusive ==
  \A r, q \in Requests : r # q =>
    /\ HoldsKey(r) /\ HoldsKey(q) => req[r].key # req[q].key
    /\ HoldsLink(r) /\ HoldsLink(q) => RequestLink(r) # RequestLink(q)

(* The decision an INSERT took stays right until its COMMIT.               *)
DecisionHolds ==
  \A r \in Requests : HoldsKey(r) =>
    (req[r].id = 0 <=> req[r].key \in KeysOf(events))

(* Ids are given out once, to rows and to transactions alike.              *)
IdsFresh ==
  /\ \A e, f \in EverLogged : e.id = f.id => e = f
  /\ events \cap purged = {}
  /\ \A row \in EverLogged : row.id < nextId
  /\ \A r \in Requests :
       /\ req[r].id < nextId
       /\ HoldsKey(r) => req[r].id \notin IdsOf(EverLogged)
  /\ \A r, q \in Requests :
       r # q /\ HoldsKey(r) /\ HoldsKey(q) /\ req[r].id # 0 => req[r].id # req[q].id

(* What the UPDATE found is still so at the COMMIT.                        *)
CountedIffLive ==
  \A r \in Requests : req[r].pc = "commit" /\ req[r].id # 0 =>
    (req[r].bumped <=> links[RequestLink(r)].live)

(* A handler about to answer has a durable row behind it.                  *)
AnsweredLogged ==
  \A r \in Requests : req[r].pc = "respond" => req[r].key \in KeysOf(EverLogged)

(* The inductive invariant of ClickIngest_proof.                           *)
IndInv ==
  /\ TypeOK
  /\ HandlerShape
  /\ LocksExclusive
  /\ DecisionHolds
  /\ IdsFresh
  /\ CountedIffLive
  /\ AnsweredLogged
  /\ IsFiniteSet(EverLogged)
  /\ OneRowPerKey
  /\ CounterMatchesHistory
  /\ AckedClickHasRow
=============================================================================
