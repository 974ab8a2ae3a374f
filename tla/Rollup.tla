------------------------------- MODULE Rollup -------------------------------
(***************************************************************************)
(* The analytics workers: worker/worker.go's hourly and daily runs, and    *)
(* Store.AggregatePreviousHour, AggregateDay and CleanupOldClicks in       *)
(* store/store.go, against the clicks that keep arriving.                  *)
(*                                                                         *)
(* A click is stamped by trackClick, inserted under the next id by         *)
(* IngestClick and committed later; ClickIngest models that path, here it  *)
(* is three steps.  Each worker transaction is one statement per action.   *)
(* INSERT ... SELECT reads the latest committed rows and locks the range   *)
(* it reads (MySQL, REPEATABLE READ): it waits for rows inserted there and *)
(* not committed, and inserts there wait for it.  Time counts hours.       *)
(***************************************************************************)
EXTENDS Integers, FiniteSets

CONSTANTS
  Workers,      \* processes that run worker.Manager (two while one replaces another)
  Clicks,       \* the clicks that can arrive
  Links,        \* links.id, as integers: ROW_NUMBER breaks ties by them
  LinkOf,       \* click -> link
  VisitorOf,    \* click -> ip_address
  OwnerOf,      \* link -> user_id
  HoursPerDay,
  Retention,    \* age in hours past which CleanupOldClicks deletes
  MaxHour       \* bound: the clock stops here

ASSUME TimeAssumption == /\ HoursPerDay \in Nat \ {0}
                         /\ Retention \in Nat
                         /\ MaxHour \in Nat

ASSUME ClicksAssumption == IsFiniteSet(Clicks) /\ LinkOf \in [Clicks -> Links]

ASSUME LinksAssumption == Links \subseteq Nat

Hours == 0..MaxHour
Day(h) == h \div HoursPerDay

VARIABLES
  clock,      \* the hour
  click,      \* click -> how far it is, its event_time and its id
  nextId,     \* the AUTO_INCREMENT counter of click_events
  hourly,     \* hourly_link_stats: <<link, hour>> -> counts
  daily,      \* daily_user_stats: <<user, day>> -> counts and top link
  snapshot,   \* analytics_snapshots: <<user, day>> -> counts and watermark
  worker,     \* worker -> its transaction
  onTime      \* history: what the workers have rolled up since the last tick

vars == <<clock, click, nextId, hourly, daily, snapshot, worker, onTime>>

-----------------------------------------------------------------------------
Logged == {c \in Clicks : click[c].state = "logged"}

EverLogged == {c \in Clicks : click[c].state \in {"logged", "purged"}}

InFlight == {c \in Clicks : click[c].state \in {"stamped", "inserted"}}

UserOf(c) == OwnerOf[LinkOf[c]]

Visitors(S) == {VisitorOf[c] : c \in S}

InHour(S, h) == {c \in S : click[c].hour = h}

InDay(S, d) == {c \in S : Day(click[c].hour) = d}

NoRows == << >>

(* INSERT ... ON DUPLICATE KEY UPDATE                                      *)
Upsert(table, rows) ==
  [k \in DOMAIN table \cup DOMAIN rows |-> IF k \in DOMAIN rows THEN rows[k] ELSE table[k]]

(* SELECT user_id, link_id, COUNT, COUNT(DISTINCT ip) ... GROUP BY         *)
HourRows(h) ==
  LET read == InHour(Logged, h)
      Of(l) == {c \in read : LinkOf[c] = l}
  IN [k \in {<<LinkOf[c], h>> : c \in read} |->
        [clicks |-> Cardinality(Of(k[1])), visitors |-> Cardinality(Visitors(Of(k[1])))]]

(* ROW_NUMBER() OVER (... ORDER BY COUNT DESC, link_id) = 1                *)
TopLink(S) ==
  LET Of(l) == {c \in S : LinkOf[c] = l} IN
  CHOOSE l \in {LinkOf[c] : c \in S} : \A k \in {LinkOf[c] : c \in S} :
    \/ Cardinality(Of(l)) > Cardinality(Of(k))
    \/ Cardinality(Of(l)) = Cardinality(Of(k)) /\ l <= k

(* Mutant: the watermark is the next id to be given out.                   *)
NextIdOfTable(S) == nextId

MaxIdOf(S) == CHOOSE i \in {click[c].id : c \in S} : \A c \in S : click[c].id <= i

(* The common part of AggregateDay's two statements, per user of the day.  *)
DayGroups(d) ==
  LET read == InDay(Logged, d) IN
  [k \in {<<UserOf(c), d>> : c \in read} |-> {c \in read : UserOf(c) = k[1]}]

StatRows(d) ==
  LET group == DayGroups(d) IN
  [k \in DOMAIN group |->
     [clicks |-> Cardinality(group[k]), visitors |-> Cardinality(Visitors(group[k])),
      top |-> TopLink(group[k])]]

SnapshotRows(d) ==
  LET group == DayGroups(d) IN
  [k \in DOMAIN group |->
     [clicks |-> Cardinality(group[k]), visitors |-> Cardinality(Visitors(group[k])),
      top |-> TopLink(group[k]), maxId |-> MaxIdOf(group[k])]]

-----------------------------------------------------------------------------
Resting == [pc |-> "idle", kind |-> "none", target |-> 0, stats |-> NoRows, snap |-> NoRows]

Init ==
  /\ clock = 0
  /\ click = [c \in Clicks |-> [state |-> "new", hour |-> 0, id |-> 0]]
  /\ nextId = 1
  /\ hourly = NoRows /\ daily = NoRows /\ snapshot = NoRows
  /\ worker = [w \in Workers |-> Resting]
  /\ onTime = {}

(* Mutant: a plain SELECT, which locks nothing, feeds the INSERT.          *)
ReadsUnlocked(w, h) == FALSE

(* The event_time range a worker's transaction has read and keeps locked.  *)
Reads(w, h) ==
  \/ worker[w].kind = "hourly" /\ worker[w].pc = "commit" /\ h = worker[w].target
  \/ worker[w].kind = "daily" /\ worker[w].pc \in {"snapshot", "commit"}
       /\ Day(h) = worker[w].target

RangeLocked(h) == \E w \in Workers : Reads(w, h)

(* Mutant: a plain SELECT does not wait for uncommitted rows either.       *)
HourNeverBusy(h) == FALSE

DayNeverBusy(d) == FALSE

(* A row inserted in that range and not committed holds a reader up.       *)
HourBusy(h) == \E c \in InHour(Clicks, h) : click[c].state = "inserted"

DayBusy(d) == \E c \in InDay(Clicks, d) : click[c].state = "inserted"

(* Mutant: workers claim a period before they read it.                     *)
RowsClaimed(w) ==
  \E u \in Workers \ {w} : /\ worker[u].kind = worker[w].kind
                           /\ worker[u].target = worker[w].target
                           /\ worker[u].pc \in {"stats", "snapshot", "commit"}

(* ... and so does another worker that has written the same rollup rows.   *)
RowsHeld(w) ==
  \E u \in Workers \ {w} : /\ worker[u].kind = worker[w].kind
                           /\ worker[u].target = worker[w].target
                           /\ worker[u].pc \in {"snapshot", "commit"}

-----------------------------------------------------------------------------
(* trackClick takes the time before IngestClick inserts.                   *)
Stamp(c) ==
  /\ click[c].state = "new"
  /\ click' = [click EXCEPT ![c].state = "stamped", ![c].hour = clock]
  /\ UNCHANGED <<clock, nextId, hourly, daily, snapshot, worker, onTime>>

InsertClick(c) ==
  /\ click[c].state = "stamped"
  /\ ~ RangeLocked(click[c].hour)
  /\ click' = [click EXCEPT ![c].state = "inserted", ![c].id = nextId]
  /\ nextId' = nextId + 1
  /\ UNCHANGED <<clock, hourly, daily, snapshot, worker, onTime>>

CommitClick(c) ==
  /\ click[c].state = "inserted"
  /\ click' = [click EXCEPT ![c].state = "logged"]
  /\ UNCHANGED <<clock, nextId, hourly, daily, snapshot, worker, onTime>>

LoseClick(c) ==
  /\ click[c].state \in {"stamped", "inserted"}
  /\ click' = [click EXCEPT ![c].state = "lost"]
  /\ UNCHANGED <<clock, nextId, hourly, daily, snapshot, worker, onTime>>

-----------------------------------------------------------------------------
Run(w, next) == worker' = [worker EXCEPT ![w] = next]

(* A ticker fires: the hour before this one, or the day before today.  The *)
(* row it adds to worker_runs stays in the transaction until the end.      *)
StartHourly(w) ==
  /\ worker[w].pc = "idle"
  /\ clock >= 1
  /\ Run(w, [Resting EXCEPT !.pc = "stats", !.kind = "hourly", !.target = clock - 1])
  /\ UNCHANGED <<clock, click, nextId, hourly, daily, snapshot, onTime>>

StartDaily(w) ==
  /\ worker[w].pc = "idle"
  /\ Day(clock) >= 1
  /\ Run(w, [Resting EXCEPT !.pc = "stats", !.kind = "daily", !.target = Day(clock) - 1])
  /\ UNCHANGED <<clock, click, nextId, hourly, daily, snapshot, onTime>>

(* INSERT INTO hourly_link_stats SELECT ... ON DUPLICATE KEY UPDATE        *)
ReadHour(w) ==
  /\ worker[w].pc = "stats" /\ worker[w].kind = "hourly"
  /\ ~ HourBusy(worker[w].target) /\ ~ RowsHeld(w)
  /\ Run(w, [worker[w] EXCEPT !.pc = "commit", !.stats = HourRows(worker[w].target)])
  /\ UNCHANGED <<clock, click, nextId, hourly, daily, snapshot, onTime>>

(* INSERT INTO daily_user_stats WITH daily AS ... ON DUPLICATE KEY UPDATE  *)
ReadDay(w) ==
  /\ worker[w].pc = "stats" /\ worker[w].kind = "daily"
  /\ ~ DayBusy(worker[w].target) /\ ~ RowsHeld(w)
  /\ Run(w, [worker[w] EXCEPT !.pc = "snapshot", !.stats = StatRows(worker[w].target)])
  /\ UNCHANGED <<clock, click, nextId, hourly, daily, snapshot, onTime>>

(* INSERT INTO analytics_snapshots WITH daily AS ...                       *)
SnapshotDay(w) ==
  /\ worker[w].pc = "snapshot"
  /\ ~ DayBusy(worker[w].target)
  /\ Run(w, [worker[w] EXCEPT !.pc = "commit", !.snap = SnapshotRows(worker[w].target)])
  /\ UNCHANGED <<clock, click, nextId, hourly, daily, snapshot, onTime>>

(* worker_runs turns to 'succeeded' and everything becomes visible.  A run *)
(* is on time when no click of its period can arrive any more.             *)
CommitHourly(w) ==
  /\ worker[w].pc = "commit" /\ worker[w].kind = "hourly"
  /\ hourly' = Upsert(hourly, worker[w].stats)
  /\ Run(w, Resting)
  /\ onTime' = IF worker[w].target = clock - 1 /\ InHour(InFlight, clock - 1) = {}
               THEN onTime \cup {"hourly"} ELSE onTime
  /\ UNCHANGED <<clock, click, nextId, daily, snapshot>>

(* runDaily goes on to the retention delete.                               *)
CommitDaily(w) ==
  /\ worker[w].pc = "commit" /\ worker[w].kind = "daily"
  /\ daily' = Upsert(daily, worker[w].stats)
  /\ snapshot' = Upsert(snapshot, worker[w].snap)
  /\ Run(w, [Resting EXCEPT !.pc = "cleanup"])
  /\ onTime' = IF worker[w].target = Day(clock) - 1 /\ InDay(InFlight, Day(clock) - 1) = {}
               THEN onTime \cup {"daily"} ELSE onTime
  /\ UNCHANGED <<clock, click, nextId, hourly>>

(* Mutant: the retention is taken for hours where it means days.           *)
OldByHours(S) == {c \in S : click[c].hour + (Retention \div HoursPerDay) < clock}

(* DELETE FROM click_events WHERE event_time < ...; waits for rows that    *)
(* another worker has read.                                                *)
Old(S) == {c \in S : click[c].hour + Retention < clock}

CleanupOldClicks(w) ==
  /\ worker[w].pc = "cleanup"
  /\ \A c \in Old(Clicks) : click[c].state # "inserted" /\ ~ RangeLocked(click[c].hour)
  /\ click' = [c \in Clicks |-> IF c \in Old(Logged)
                                THEN [click[c] EXCEPT !.state = "purged"] ELSE click[c]]
  /\ Run(w, Resting)
  /\ UNCHANGED <<clock, nextId, hourly, daily, snapshot, onTime>>

(* A statement fails, or the process stops: nothing of the run stays.      *)
FailRun(w) ==
  /\ worker[w].pc # "idle"
  /\ Run(w, Resting)
  /\ UNCHANGED <<clock, click, nextId, hourly, daily, snapshot, onTime>>

Tick ==
  /\ clock < MaxHour
  /\ clock' = clock + 1
  /\ onTime' = IF Day(clock') = Day(clock) THEN onTime \ {"hourly"} ELSE {}
  /\ UNCHANGED <<click, nextId, hourly, daily, snapshot, worker>>

-----------------------------------------------------------------------------
WorkerStep(w) == ReadHour(w) \/ ReadDay(w) \/ SnapshotDay(w) \/ CommitHourly(w)
                   \/ CommitDaily(w) \/ CleanupOldClicks(w)

ClickStep(c) == InsertClick(c) \/ CommitClick(c)

Next == \/ \E c \in Clicks : Stamp(c) \/ ClickStep(c) \/ LoseClick(c)
        \/ \E w \in Workers : StartHourly(w) \/ StartDaily(w) \/ WorkerStep(w) \/ FailRun(w)
        \/ Tick

Spec == Init /\ [][Next]_vars

(* The tickers as they are meant to work: every hour some hourly run, and  *)
(* every day some daily run, starts after the last click of the period     *)
(* before it has been committed or lost, and succeeds.                     *)
Timely == Tick => /\ clock >= 1 => "hourly" \in onTime
                  /\ Day(clock) >= 1 /\ Day(clock') # Day(clock) => "daily" \in onTime

TimelySpec == Init /\ [][Next /\ Timely]_vars

(* Handlers and worker runs go on until they return.  A waiting statement  *)
(* stands in InnoDB's queue for the row, so it is not overtaken for ever.  *)
FairSpec == /\ Spec
            /\ \A w \in Workers : SF_vars(WorkerStep(w))
            /\ \A c \in Clicks : WF_vars(ClickStep(c))

-----------------------------------------------------------------------------
Users == {OwnerOf[l] : l \in Links}

Days == {Day(h) : h \in Hours}

Counts(row) == /\ row.clicks \in Nat /\ row.visitors \in Nat \ {0}
               /\ row.visitors <= row.clicks

IsHourTable(table) == /\ DOMAIN table \subseteq Links \X Hours
                      /\ \A k \in DOMAIN table : Counts(table[k])

IsDayTable(table) == /\ DOMAIN table \subseteq Users \X Days
                     /\ \A k \in DOMAIN table : Counts(table[k]) /\ table[k].top \in Links

IsRun(r) == r \in [pc : {"idle", "stats", "snapshot", "commit", "cleanup"},
                   kind : {"none", "hourly", "daily"}, target : Nat,
                   stats : {r.stats}, snap : {r.snap}]

(* Every variable has its type; an id is given out with its row.           *)
TypeOK ==
  /\ clock \in Hours /\ nextId \in Nat \ {0} /\ onTime \subseteq {"hourly", "daily"}
  /\ click \in [Clicks -> [state : {"new", "stamped", "inserted", "logged", "lost", "purged"},
                           hour : Hours, id : 0..(nextId - 1)]]
  /\ \A c \in Clicks : click[c].state \in {"inserted", "logged", "purged"} => click[c].id # 0
  /\ IsHourTable(hourly) /\ IsDayTable(daily) /\ IsDayTable(snapshot)
  /\ DOMAIN worker = Workers /\ \A w \in Workers : IsRun(worker[w])

(* The two statements of AggregateDay read the table one after the other,  *)
(* and yet a day's snapshot and its statistics always agree: no click gets *)
(* in between them, and neither is ever visible without the other.         *)
Match(stats, snap) ==
  /\ DOMAIN stats = DOMAIN snap
  /\ \A k \in DOMAIN stats : /\ stats[k].clicks = snap[k].clicks
                             /\ stats[k].visitors = snap[k].visitors
                             /\ stats[k].top = snap[k].top

StatsMatchSnapshot == Match(daily, snapshot)

DayOf(c) == <<UserOf(c), Day(click[c].hour)>>

(* A watermark is an id given out before, and a click not yet committed    *)
(* has a greater one than that of its user and day.                        *)
Fresh(snap) ==
  /\ \A k \in DOMAIN snap : snap[k].maxId \in 1..(nextId - 1)
  /\ \A c \in Clicks : click[c].state = "inserted" /\ DayOf(c) \in DOMAIN snap =>
       snap[DayOf(c)].maxId < click[c].id

(* What a run holds at each step.  Until it commits, the period it has     *)
(* read is locked: what it has read is what is there.                      *)
HourlyFits(r) ==
  /\ r.pc \in {"stats", "commit"} /\ r.target \in Hours
  /\ r.pc = "commit" => /\ IsHourTable(r.stats) /\ ~ HourBusy(r.target)
                        /\ \A k \in DOMAIN r.stats : k[2] = r.target

DailyFits(r) ==
  /\ r.pc \in {"stats", "snapshot", "commit"} /\ r.target \in Days
  /\ r.pc # "stats" => /\ IsDayTable(r.stats) /\ ~ DayBusy(r.target)
                       /\ \A k \in DOMAIN r.stats : k[2] = r.target
  /\ r.pc = "snapshot" => r.stats = StatRows(r.target)
  /\ r.pc = "commit" => Match(r.stats, r.snap) /\ IsDayTable(r.snap) /\ Fresh(r.snap)

RunFits(r) == CASE r.kind = "none"   -> r.pc \in {"idle", "cleanup"}
                [] r.kind = "hourly" -> HourlyFits(r)
                [] r.kind = "daily"  -> DailyFits(r)

(* What holds at every step, however the runs and the clicks interleave.   *)
IndInv == /\ TypeOK /\ StatsMatchSnapshot /\ Fresh(snapshot)
          /\ \A w \in Workers : RunFits(worker[w])

HourClicks(l, h) == {c \in InHour(EverLogged, h) : LinkOf[c] = l}

UserDay(u, d) == {c \in InDay(EverLogged, d) : UserOf(c) = u}

(* Within its day a watermark is exact: the clicks counted are those with  *)
(* an id up to source_event_max_id, although ids are given out before the  *)
(* rows that carry them are committed (DESIGN.md:11).                      *)
Marks(snap) ==
  \A k \in DOMAIN snap :
    snap[k].clicks = Cardinality({c \in UserDay(k[1], k[2]) : click[c].id <= snap[k].maxId})

WatermarkExact == Marks(snapshot)

(* "compare that watermark against the live event stream to see exactly    *)
(* what still needs processing" (DESIGN.md:12): a click up to a watermark  *)
(* of its user is counted.  It is not: ids do not follow event_time across *)
(* midnight, and a day the worker was down for is passed over by the next. *)
WatermarkCovers ==
  \A c \in EverLogged :
    (\E k \in DOMAIN snapshot : k[1] = UserOf(c) /\ click[c].id <= snapshot[k].maxId)
      => LET own == <<UserOf(c), Day(click[c].hour)>> IN
         own \in DOMAIN snapshot /\ click[c].id <= snapshot[own].maxId

(* Retention has not begun to delete a period that a run is about to read. *)
Targets(r, h) == \/ r.kind = "hourly" /\ h = r.target
                 \/ r.kind = "daily" /\ Day(h) = r.target

Purged == {c \in Clicks : click[c].state = "purged"}

RetentionClear ==
  \A w \in Workers : worker[w].pc = "stats" =>
    \A c \in Purged : ~ Targets(worker[w], click[c].hour)

(* With the tickers on time nothing is missed: an hour, and a day, that is *)
(* over with the one after it has been rolled up exactly, click for click, *)
(* and retention has taken nothing that was not counted.                   *)
ClicksIn(table, k) == IF k \in DOMAIN table THEN table[k].clicks ELSE 0

HourExact(h) == \A l \in Links : ClicksIn(hourly, <<l, h>>) = Cardinality(HourClicks(l, h))

DayExact(d) == \A u \in Users : ClicksIn(daily, <<u, d>>) = Cardinality(UserDay(u, d))

ClosedPeriodsExact == /\ \A h \in 0..(clock - 2) : HourExact(h)
                      /\ \A d \in 0..(Day(clock) - 2) : DayExact(d)

(* While retention stays clear, what a run has read of its period is all   *)
(* there ever was, and no rollup counts more.                              *)
RunExact(r) ==
  /\ r.kind = "hourly" /\ r.pc = "commit" => \A l \in Links :
       ClicksIn(r.stats, <<l, r.target>>) = Cardinality(HourClicks(l, r.target))
  /\ r.kind = "daily" /\ r.pc \in {"snapshot", "commit"} => \A u \in Users :
       ClicksIn(r.stats, <<u, r.target>>) = Cardinality(UserDay(u, r.target))
  /\ r.kind = "daily" /\ r.pc = "snapshot" => \A c \in Purged : ~ Targets(r, click[c].hour)
  /\ r.kind = "daily" /\ r.pc = "commit" => Marks(r.snap)

ExactInv ==
  /\ WatermarkExact /\ \A w \in Workers : RunExact(worker[w])
  /\ \A k \in DOMAIN hourly : hourly[k].clicks <= Cardinality(HourClicks(k[1], k[2]))
  /\ \A k \in DOMAIN daily : daily[k].clicks <= Cardinality(UserDay(k[1], k[2]))

(* With the tickers on time: no click of a period that is over by one can  *)
(* still arrive, and onTime means that of the last period too.             *)
OnTimeInv ==
  /\ \A c \in InFlight : click[c].hour >= clock - 1
  /\ "hourly" \in onTime => InHour(InFlight, clock - 1) = {} /\ HourExact(clock - 1)
  /\ "daily" \in onTime => InDay(InFlight, Day(clock) - 1) = {} /\ DayExact(Day(clock) - 1)

(* A rollup that is written again never loses clicks: a run repeated after *)
(* a failure or on the next tick only adds, and the retention delete stays *)
(* clear of every period that can still be aggregated.                     *)
NeverShrinks(old, new) ==
  \A k \in DOMAIN old : k \in DOMAIN new /\ new[k].clicks >= old[k].clicks

RollupsGrow == [][NeverShrinks(hourly, hourly') /\ NeverShrinks(daily, daily')]_vars

(* Every run ends: a worker never waits for ever for clicks, or for        *)
(* another worker on the same period.                                      *)
EveryRunEnds == \A w \in Workers : worker[w].pc # "idle" ~> worker[w].pc = "idle"
=============================================================================
