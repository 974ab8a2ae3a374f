-------------------------------- MODULE Reads --------------------------------
(***************************************************************************)
(* What an owner reads of the click log while it changes: the event feed   *)
(* (GET /api/v1/events, Store.APIHistory and its cursor) and the dashboard *)
(* (Store.Dashboard: LinksForUser, the totals and topLinks, each a         *)
(* statement of its own with no transaction around them).                  *)
(*                                                                         *)
(* Clicks are written by IngestClick, which ClickIngest models in full:    *)
(* here a row takes its id, and is committed later together with the       *)
(* increment of its link's click_count, or lost.  The retention delete may *)
(* take any logged rows: event_time, which it goes by, is stamped before   *)
(* the id is given out and does not follow it.  One owner.                 *)
(***************************************************************************)
EXTENDS Integers, Sequences, FiniteSets, SequencesExt

CONSTANTS
  Clicks,        \* the clicks that can arrive
  Links,         \* links.id of the owner's links, fewer than LinksForUser's 100
  LinkOf,        \* click -> link
  Limits,        \* the limits a client asks for; 0 stands for none
  MaxLimit,      \* the largest limit APIHistory accepts (100)
  DefaultLimit,  \* what it takes instead of another (50)
  TopLimit       \* the LIMIT of topLinks (5)

ASSUME LimitsAssumption == /\ Limits \subseteq Nat
                           /\ MaxLimit \in Nat \ {0}
                           /\ DefaultLimit \in 1..MaxLimit
                           /\ TopLimit \in Nat \ {0}

ASSUME TablesAssumption == /\ IsFiniteSet(Clicks) /\ IsFiniteSet(Links) /\ Links \subseteq Nat
                           /\ LinkOf \in [Clicks -> Links]

VARIABLES
  click,    \* click -> how far it is, and its id
  nextId,   \* the AUTO_INCREMENT counter of click_events
  links,    \* link -> is it there, and click_count
  feed,     \* the client of the event feed: the cursor it holds, the ids it
            \* got in this pass, the rows there were when the pass began
  seen,     \* history: the ids the client has ever got
  page      \* a dashboard request: the next statement, and what it has read

vars == <<click, nextId, links, feed, seen, page>>

feedVars == <<feed, seen>>
logVars == <<click, nextId, links>>

-----------------------------------------------------------------------------
InState(state) == {c \in Clicks : click[c].state = state}

IdsIn(state) == {click[c].id : c \in InState(state)}

NewPass == [after |-> 0, got |-> << >>, owed |-> {}]

NoCounts == [l \in {} |-> 0]

NoPage == [pc |-> "idle", cards |-> NoCounts, total |-> 0, top |-> NoCounts]

Init ==
  /\ click = [c \in Clicks |-> [state |-> "new", id |-> 0]]
  /\ nextId = 1
  /\ links = [l \in Links |-> [live |-> TRUE, clicks |-> 0]]
  /\ feed = NewPass
  /\ seen = {}
  /\ page = NoPage

-----------------------------------------------------------------------------
Counted(l) == [links EXCEPT ![l].clicks = IF links[l].live THEN @ + 1 ELSE @]

(* Mutant: the increment is committed ahead of the row.                    *)
InsertCountsAhead(c) ==
  /\ click[c].state = "new"
  /\ click' = [click EXCEPT ![c] = [state |-> "inserted", id |-> nextId]]
  /\ nextId' = nextId + 1
  /\ links' = Counted(LinkOf[c])
  /\ UNCHANGED <<feedVars, page>>

(* IngestClick's INSERT: an id, and a row that nobody sees yet.            *)
InsertClick(c) ==
  /\ click[c].state = "new"
  /\ click' = [click EXCEPT ![c] = [state |-> "inserted", id |-> nextId]]
  /\ nextId' = nextId + 1
  /\ UNCHANGED <<links, feedVars, page>>

(* The row and the increment become visible together.                      *)
CommitClick(c) ==
  /\ click[c].state = "inserted"
  /\ click' = [click EXCEPT ![c].state = "logged"]
  /\ links' = Counted(LinkOf[c])
  /\ UNCHANGED <<nextId, feedVars, page>>

LoseClick(c) ==
  /\ click[c].state = "inserted"
  /\ click' = [click EXCEPT ![c].state = "lost"]
  /\ UNCHANGED <<nextId, links, feedVars, page>>

CleanupOldClicks ==
  \E old \in SUBSET InState("logged") \ {{}} :
    /\ click' = [c \in Clicks |-> IF c \in old THEN [click[c] EXCEPT !.state = "purged"]
                                               ELSE click[c]]
    /\ UNCHANGED <<nextId, links, feedVars, page>>

DeleteLink(l) ==
  /\ links[l].live
  /\ links' = [links EXCEPT ![l].live = FALSE]
  /\ UNCHANGED <<click, nextId, feedVars, page>>

-----------------------------------------------------------------------------
(* if limit <= 0 || limit > 100 { limit = 50 }                             *)
PageSize(limit) == IF limit \in 1..MaxLimit THEN limit ELSE DefaultLimit

(* Mutant: ">=" for ">" in the cursor's condition.                         *)
RowsFrom(after) == {id \in IdsIn("logged") : id >= after}

(* WHERE user_id = ? AND id > ?                                            *)
RowsAfter(after) == {id \in IdsIn("logged") : id > after}

(* How many of some ids come before one of them.                           *)
Before(ids, id) == Cardinality({k \in ids : k < id})

(* ORDER BY id                                                             *)
InOrder(ids) == [i \in 1..Cardinality(ids) |-> CHOOSE id \in ids : Before(ids, id) = i - 1]

(* LIMIT ?                                                                 *)
First(ids, n) == {id \in ids : Before(ids, id) < n}

(* Mutant: ORDER BY id DESC.                                               *)
LatestRows(after, limit) ==
  LET rows == RowsAfter(after) IN
  Reverse(InOrder({id \in rows : Cardinality({k \in rows : k > id}) < PageSize(limit)}))

APIHistory(after, limit) == InOrder(First(RowsAfter(after), PageSize(limit)))

(* Mutant: next_after is the first id of the next page, as if it were >=.  *)
NextAfterPlusOne(events) == IF events = << >> THEN 0 ELSE Last(events) + 1

(* Mutant: an empty page leaves the cursor where it was.                   *)
NextAfterKeeps(events) == IF events = << >> THEN feed.after ELSE Last(events)

nextAfter(events) == IF events = << >> THEN 0 ELSE Last(events)

(* The client asks for what follows the cursor it was last given.  An      *)
(* answer that is lost changes nothing: it asks again with the same one.   *)
FetchPage ==
  /\ \E limit \in Limits :
       LET events == APIHistory(feed.after, limit) IN
       /\ events # << >>
       /\ feed' = [after |-> nextAfter(events),
                   got |-> feed.got \o events,
                   owed |-> IF feed.got = << >> THEN IdsIn("logged") ELSE feed.owed]
       /\ seen' = seen \cup Range(events)
  /\ UNCHANGED <<logVars, page>>

(* An empty page ends the pass, and its next_after starts another.         *)
FetchEnd ==
  /\ \E limit \in Limits :
       LET events == APIHistory(feed.after, limit) IN
       /\ events = << >>
       /\ feed' = [NewPass EXCEPT !.after = nextAfter(events)]
  /\ UNCHANGED <<logVars, seen, page>>

-----------------------------------------------------------------------------
Live == {l \in Links : links[l].live}

CountsOf(S) == [l \in S |-> links[l].clicks]

(* LinksForUser(userID, false, 100, 0)                                     *)
ReadLinks ==
  /\ page.pc = "idle"
  /\ page' = [NoPage EXCEPT !.pc = "total", !.cards = CountsOf(Live)]
  /\ UNCHANGED <<logVars, feedVars>>

(* SELECT COUNT ... FROM click_events, deleted links' rows included        *)
ReadTotal ==
  /\ page.pc = "total"
  /\ page' = [page EXCEPT !.pc = "top", !.total = Cardinality(IdsIn("logged"))]
  /\ UNCHANGED <<logVars, feedVars>>

(* ORDER BY click_count DESC, id LIMIT 5                                   *)
Above(k, l) == \/ links[k].clicks > links[l].clicks
               \/ links[k].clicks = links[l].clicks /\ k < l

Top == {l \in Live : Cardinality({k \in Live : Above(k, l)}) < TopLimit}

ReadTop ==
  /\ page.pc = "top"
  /\ page' = [page EXCEPT !.pc = "done", !.top = CountsOf(Top)]
  /\ UNCHANGED <<logVars, feedVars>>

(* The page is sent; or a statement fails, or the process stops, and an    *)
(* error page takes its place.                                             *)
EndPage ==
  /\ page.pc # "idle"
  /\ page' = NoPage
  /\ UNCHANGED <<logVars, feedVars>>

-----------------------------------------------------------------------------
Fetch == FetchPage \/ FetchEnd

Next == \/ \E c \in Clicks : InsertClick(c) \/ CommitClick(c) \/ LoseClick(c)
        \/ CleanupOldClicks
        \/ \E l \in Links : DeleteLink(l)
        \/ Fetch
        \/ ReadLinks \/ ReadTotal \/ ReadTop \/ EndPage

Spec == Init /\ [][Next]_vars

(* The client keeps asking.                                                *)
FairSpec == Spec /\ WF_vars(Fetch)

-----------------------------------------------------------------------------
GivenOut == 1..(nextId - 1)

States == {"new", "inserted", "logged", "lost", "purged"}

IsCounts(counts) == DOMAIN counts \subseteq Links /\ \A l \in DOMAIN counts : counts[l] \in Nat

(* Every variable has its type, and no two clicks share an id.             *)
TypeOK ==
  /\ nextId \in Nat \ {0}
  /\ click \in [Clicks -> [state : States, id : 0..(nextId - 1)]]
  /\ \A c \in Clicks : click[c].id = 0 <=> click[c].state = "new"
  /\ \A c, d \in Clicks : click[c].id = click[d].id /\ click[c].id # 0 => c = d
  /\ links \in [Links -> [live : BOOLEAN, clicks : Nat]]
  /\ feed \in [after : 0..(nextId - 1), got : Seq(GivenOut), owed : SUBSET GivenOut]
  /\ seen \subseteq GivenOut
  /\ page \in [pc : {"idle", "total", "top", "done"}, total : Nat,
               cards : {page.cards}, top : {page.top}]
  /\ IsCounts(page.cards) /\ IsCounts(page.top)

(* Following next_after, a client gets events in the order of their ids    *)
(* and none of them twice before the feed has told it to start over, while *)
(* rows with lower ids are still being committed and others are deleted.   *)
PassOrdered ==
  \A i, j \in DOMAIN feed.got : i < j => feed.got[i] < feed.got[j]

(* The cursor stands at the last event the client got.  What was logged    *)
(* when the pass began and is not beyond the cursor, it has got.           *)
CursorFits ==
  /\ \A i \in DOMAIN feed.got : feed.got[i] <= feed.after
  /\ feed.got = << >> => feed.after = 0
  /\ \A c \in Clicks :
       /\ click[c].state = "inserted" => click[c].id \notin feed.owed
       /\ click[c].state = "logged" /\ click[c].id \in feed.owed /\ click[c].id <= feed.after =>
            click[c].id \in Range(feed.got)

(* When the feed says there is nothing more, the client has got every      *)
(* event that was logged when it began and has not been trimmed since,     *)
(* whatever page sizes it asked for.                                       *)
PassComplete ==
  [][FetchEnd => (feed.owed \cap IdsIn("logged")) \subseteq Range(feed.got)]_vars

(* No event is missed for ever: one that is committed after the cursor has *)
(* passed its id is found on a later pass, because next_after is 0 at the  *)
(* end (server.go:406-408), unless retention is faster.                    *)
EventsSeen ==
  \A c \in Clicks : click[c].state = "logged" ~>
    (click[c].state = "purged" \/ click[c].id \in seen)

(* A dashboard's numbers fit together although each is a read of its own:  *)
(* the total covers the clicks of the cards above it, up to rows that      *)
(* retention has taken; and no card shows more than the top list does: a   *)
(* link that is still there is on the list with at least the clicks of its *)
(* card, or every link of the list has at least as many.                   *)
Shown(counts) == UNION {{l} \X (1..counts[l]) : l \in DOMAIN counts}  \* a pair for each click

TotalCoversCards == Cardinality(Shown(page.cards)) <= page.total + Cardinality(InState("purged"))

TopCoversCard(l) ==
  IF l \in DOMAIN page.top
  THEN page.top[l] >= page.cards[l]
  ELSE \A k \in DOMAIN page.top : page.top[k] >= page.cards[l]

PageFits ==
  /\ page.pc \in {"top", "done"} => TotalCoversCards
  /\ page.pc = "done" => \A l \in DOMAIN page.cards : links[l].live => TopCoversCard(l)

(* What a request has read stays within what there is to read next.        *)
EverLogged == InState("logged") \cup InState("purged")

CountsFit ==
  /\ \A l \in Links : links[l].clicks <= Cardinality({c \in EverLogged : LinkOf[c] = l})
  /\ Cardinality(Shown(page.cards)) <= Cardinality(EverLogged)
  /\ \A l \in DOMAIN page.cards : page.cards[l] <= links[l].clicks

IndInv == TypeOK /\ PassOrdered /\ CursorFits /\ CountsFit /\ PageFits
=============================================================================
