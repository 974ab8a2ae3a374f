---------------------------- MODULE Rollup_proof ----------------------------
(***************************************************************************)
(* Proofs about Rollup, for any number of clicks, links and workers: what  *)
(* holds however runs and clicks interleave, what holds while retention    *)
(* stays clear of the periods that runs read, and what the tickers add     *)
(* when they are on time.                                                  *)
(***************************************************************************)
EXTENDS Rollup, Ranking, TLAPS

------------------------------------------------------------------------------
(* A set of clicks is finite, and counts no more visitors than clicks.     *)
LEMMA ClicksCount ==
  ASSUME NEW S \in SUBSET Clicks
  PROVE  /\ IsFiniteSet(S) /\ Cardinality(S) \in Nat
         /\ IsFiniteSet(Visitors(S)) /\ Cardinality(Visitors(S)) \in Nat
         /\ Cardinality(Visitors(S)) <= Cardinality(S)
         /\ (S # {} => Cardinality(Visitors(S)) # 0 /\ Cardinality(S) # 0)
<1>1. IsFiniteSet(S) /\ Cardinality(S) \in Nat
  BY ClicksAssumption, FS_Subset, FS_CardinalityType
<1> DEFINE of == [c \in S |-> VisitorOf[c]]
<1>2. of \in Surjection(S, Visitors(S))
  BY DEF Surjection, Visitors
<1>3. IsFiniteSet(Visitors(S)) /\ Cardinality(Visitors(S)) <= Cardinality(S)
  BY <1>1, <1>2, FS_Surjection
<1>4. Cardinality(Visitors(S)) \in Nat
  BY <1>3, FS_CardinalityType
<1>5. S # {} => Visitors(S) # {}
  BY DEF Visitors
<1>6. S # {} => Cardinality(Visitors(S)) # 0 /\ Cardinality(S) # 0
  BY <1>1, <1>3, <1>5, FS_EmptySet
<1> QED BY <1>1, <1>3, <1>4, <1>6

(* Fewer clicks have a smaller count.                                      *)
LEMMA CountsGrow ==
  ASSUME NEW S \in SUBSET Clicks, NEW T \in SUBSET S
  PROVE  Cardinality(T) <= Cardinality(S)
BY ClicksCount, FS_Subset

(* Some link has the most clicks, and of those the smallest id: the first  *)
(* row of ROW_NUMBER.                                                      *)
LEMMA TopLinkThere ==
  ASSUME NEW S \in SUBSET Clicks, S # {}
  PROVE  TopLink(S) \in Links
<1> DEFINE hit == {LinkOf[c] : c \in S}
           count == [l \in hit |-> Cardinality({c \in S : LinkOf[c] = l})]
           R == {p \in hit \X hit : \/ count[p[1]] > count[p[2]]
                                    \/ count[p[1]] = count[p[2]] /\ p[1] < p[2]}
<1>1. hit \subseteq Links /\ hit \subseteq Int /\ hit # {}
  <2>1. PICK c \in S : LinkOf[c] \in hit
    OBVIOUS
  <2>2. \A k \in S : LinkOf[k] \in Links
    BY ClicksAssumption
  <2>3. hit \subseteq Links
    BY <2>2
  <2> HIDE DEF hit, count, R
  <2> QED BY <2>1, <2>3, LinksAssumption
<1>2. \A l \in hit : count[l] \in Nat
  <2> SUFFICES ASSUME NEW l \in hit PROVE Cardinality({c \in S : LinkOf[c] = l}) \in Nat
    OBVIOUS
  <2>1. PICK T : T = {c \in S : LinkOf[c] = l}
    OBVIOUS
  <2>2. T \in SUBSET Clicks
    BY <2>1
  <2> QED BY <2>1, <2>2, ClicksCount
<1>3. IsFiniteSet(hit)
  <2> DEFINE of == [c \in S |-> LinkOf[c]]
  <2>1. of \in Surjection(S, hit)
    BY DEF Surjection
  <2>2. IsFiniteSet(S)
    BY ClicksCount
  <2> QED BY <2>1, <2>2, FS_Surjection
<1>4. \A a, b \in hit : <<a, b>> \in R <=> \/ count[a] > count[b]
                                           \/ count[a] = count[b] /\ a < b
  OBVIOUS
<1> HIDE DEF hit, count, R
<1>5. Orders(R, hit)
  BY <1>1, <1>2, <1>4 DEF Orders
<1>6. Cardinality(hit) \in Nat /\ Cardinality(hit) # 0
  BY <1>1, <1>3, FS_CardinalityType, FS_EmptySet
<1>7. 0 \in 0..Cardinality(hit) - 1
  BY <1>6
<1>8. PICK top \in hit : Rank(R, hit, top) = 0
  BY <1>3, <1>5, <1>7, RankOnto
<1>9. Below(R, hit, top) = {}
  <2>1. IsFiniteSet(Below(R, hit, top))
    BY <1>3, <1>5, RankType
  <2> QED BY <1>8, <2>1, FS_EmptySet DEF Rank
<1>10. \A k \in hit : \/ count[top] > count[k]
                      \/ count[top] = count[k] /\ top <= k
  <2> TAKE k \in hit
  <2>1. CASE k = top
    BY <1>1, <2>1
  <2>2. CASE k # top
    <3>1. <<k, top>> \notin R
      BY <1>9 DEF Below
    <3>2. <<top, k>> \in R
      BY <1>5, <2>2, <3>1 DEF Orders
    <3> QED BY <1>1, <1>4, <3>2
  <2> QED BY <2>1, <2>2
<1>11. \E l \in hit : \A k \in hit :
         \/ Cardinality({c \in S : LinkOf[c] = l}) > Cardinality({c \in S : LinkOf[c] = k})
         \/ /\ Cardinality({c \in S : LinkOf[c] = l}) = Cardinality({c \in S : LinkOf[c] = k})
            /\ l <= k
  BY <1>10 DEF count
<1>12. TopLink(S) \in hit
  BY <1>11 DEF TopLink, hit
<1> QED BY <1>1, <1>12

(* The greatest id of some clicks.                                         *)
LEMMA MaxIdThere ==
  ASSUME TypeOK, NEW S \in SUBSET Clicks, S # {}
  PROVE  /\ \E c \in S : MaxIdOf(S) = click[c].id
         /\ \A c \in S : click[c].id <= MaxIdOf(S)
<1> DEFINE ids == {click[c].id : c \in S}
           of == [c \in S |-> click[c].id]
<1>1. \A c \in S : click[c].id \in Int
  BY DEF TypeOK
<1>2. of \in Surjection(S, ids)
  BY DEF Surjection
<1>3. IsFiniteSet(ids)
  BY <1>2, ClicksCount, FS_Surjection
<1>4. \A c \in S : click[c].id \in ids
  OBVIOUS
<1>5. ids \in SUBSET Int /\ ids # {} /\ \A i \in ids : \E c \in S : i = click[c].id
  BY <1>1, <1>4
<1> HIDE DEF ids
<1>6. PICK m \in ids : \A i \in ids : i <= m
  BY <1>3, <1>5, Greatest
<1>7. \A c \in S : click[c].id <= m
  BY <1>4, <1>6
<1>8. MaxIdOf(S) = CHOOSE i \in ids : \A c \in S : click[c].id <= i
  BY DEF MaxIdOf, ids
<1>9. MaxIdOf(S) \in ids /\ \A c \in S : click[c].id <= MaxIdOf(S)
  BY <1>7, <1>8
<1> QED BY <1>5, <1>9

------------------------------------------------------------------------------
(* What the SELECTs of the workers return.                                 *)
LEMMA HourRowsFit ==
  ASSUME NEW h \in Hours
  PROVE  /\ IsHourTable(HourRows(h))
         /\ \A k \in DOMAIN HourRows(h) : k[2] = h
<1> DEFINE read == InHour(Logged, h)
           keys == {<<LinkOf[c], h>> : c \in read}
           Of(l) == {c \in read : LinkOf[c] = l}
<1>1. HourRows(h) = [k \in keys |-> [clicks |-> Cardinality(Of(k[1])),
                                     visitors |-> Cardinality(Visitors(Of(k[1])))]]
  BY DEF HourRows
<1>2. read \subseteq Clicks
  BY DEF InHour, Logged
<1>3. ASSUME NEW k \in keys
      PROVE  k \in Links \X Hours /\ k[2] = h /\ Counts(HourRows(h)[k])
  <2>1. PICK c \in read : k = <<LinkOf[c], h>>
    OBVIOUS
  <2>2. PICK T \in SUBSET Clicks : T = Of(k[1]) /\ c \in T
    BY <1>2, <2>1
  <2>3. /\ Cardinality(T) \in Nat /\ Cardinality(Visitors(T)) \in Nat \ {0}
        /\ Cardinality(Visitors(T)) <= Cardinality(T)
    BY <2>2, ClicksCount
  <2>4. HourRows(h)[k] = [clicks |-> Cardinality(T), visitors |-> Cardinality(Visitors(T))]
    BY <1>1, <2>2
  <2>5. k \in Links \X Hours
    BY <1>2, <2>1, ClicksAssumption
  <2> QED BY <2>1, <2>3, <2>4, <2>5 DEF Counts
<1>4. DOMAIN HourRows(h) = keys
  BY <1>1
<1> QED BY <1>3, <1>4 DEF IsHourTable

(* The rows of a day, by user.                                             *)
LEMMA Groups ==
  ASSUME NEW d
  PROVE  LET group == DayGroups(d) IN
         /\ DOMAIN group = {<<UserOf(c), d>> : c \in InDay(Logged, d)}
         /\ \A k \in DOMAIN group :
              /\ group[k] = {c \in InDay(Logged, d) : UserOf(c) = k[1]}
              /\ group[k] \in SUBSET Clicks /\ group[k] # {}
              /\ k[1] \in Users /\ k = <<k[1], d>>
<1> DEFINE group == DayGroups(d)
           read == InDay(Logged, d)
<1>1. group = [k \in {<<UserOf(c), d>> : c \in read} |-> {c \in read : UserOf(c) = k[1]}]
  BY DEF DayGroups
<1>2. read \subseteq Clicks
  BY DEF InDay, Logged
<1>3. \A c \in Clicks : UserOf(c) \in Users
  BY ClicksAssumption DEF UserOf, Users
<1> HIDE DEF group, read
<1>4. DOMAIN group = {<<UserOf(c), d>> : c \in read}
  BY <1>1
<1>5. ASSUME NEW k \in DOMAIN group
      PROVE  /\ group[k] = {c \in read : UserOf(c) = k[1]}
             /\ group[k] \in SUBSET Clicks /\ group[k] # {}
             /\ k[1] \in Users /\ k = <<k[1], d>>
  <2>1. PICK c \in read : k = <<UserOf(c), d>>
    BY <1>4
  <2>2. group[k] = {b \in read : UserOf(b) = k[1]}
    BY <1>1, <1>4
  <2> QED BY <1>2, <1>3, <2>1, <2>2
<1> QED BY <1>4, <1>5 DEF group, read

(* The two statements of AggregateDay, over one state of the table.        *)
LEMMA DayRowsFit ==
  ASSUME TypeOK, NEW d \in Days
  PROVE  /\ IsDayTable(StatRows(d)) /\ IsDayTable(SnapshotRows(d))
         /\ Match(StatRows(d), SnapshotRows(d))
         /\ \A k \in DOMAIN StatRows(d) : k[2] = d
         /\ DOMAIN SnapshotRows(d) = DOMAIN DayGroups(d)
         /\ \A k \in DOMAIN SnapshotRows(d) :
              /\ SnapshotRows(d)[k].maxId = MaxIdOf(DayGroups(d)[k])
              /\ SnapshotRows(d)[k].clicks = Cardinality(DayGroups(d)[k])
<1>1. PICK group : group = DayGroups(d)
  OBVIOUS
<1>2. PICK stats : stats = StatRows(d)
  OBVIOUS
<1>3. PICK snap : snap = SnapshotRows(d)
  OBVIOUS
<1>4. \A k \in DOMAIN group : /\ group[k] \in SUBSET Clicks /\ group[k] # {}
                              /\ k[1] \in Users /\ k = <<k[1], d>>
  BY <1>1, Groups
<1>5. stats = [k \in DOMAIN group |->
                 [clicks |-> Cardinality(group[k]), visitors |-> Cardinality(Visitors(group[k])),
                  top |-> TopLink(group[k])]]
  BY <1>1, <1>2 DEF StatRows
<1>6. snap = [k \in DOMAIN group |->
                [clicks |-> Cardinality(group[k]), visitors |-> Cardinality(Visitors(group[k])),
                 top |-> TopLink(group[k]), maxId |-> MaxIdOf(group[k])]]
  BY <1>1, <1>3 DEF SnapshotRows
<1>7. ASSUME NEW k \in DOMAIN group
      PROVE  /\ Counts(stats[k]) /\ stats[k].top \in Links
             /\ stats[k].clicks = snap[k].clicks /\ stats[k].visitors = snap[k].visitors
             /\ stats[k].top = snap[k].top /\ snap[k].maxId = MaxIdOf(group[k])
             /\ snap[k].clicks = Cardinality(group[k])
             /\ k \in Users \X Days /\ k[2] = d
  <2>1. /\ Cardinality(group[k]) \in Nat /\ Cardinality(Visitors(group[k])) \in Nat \ {0}
        /\ Cardinality(Visitors(group[k])) <= Cardinality(group[k])
        /\ TopLink(group[k]) \in Links
    BY <1>4, ClicksCount, TopLinkThere
  <2>2. k \in Users \X Days /\ k[2] = d
    BY <1>4
  <2> QED BY <1>5, <1>6, <2>1, <2>2 DEF Counts
<1>8. DOMAIN stats = DOMAIN group /\ DOMAIN snap = DOMAIN group
  BY <1>5, <1>6
<1>9. Match(stats, snap)
  BY <1>7, <1>8 DEF Match
<1>10. \A k \in DOMAIN group : Counts(snap[k]) /\ snap[k].top \in Links
  BY <1>7 DEF Counts
<1> QED BY <1>1, <1>2, <1>3, <1>7, <1>8, <1>9, <1>10 DEF IsDayTable

(* An upsert of rows of a type keeps the table's.                          *)
LEMMA UpsertFits ==
  ASSUME NEW table, NEW rows, NEW new, new = Upsert(table, rows)
  PROVE  /\ IsHourTable(table) /\ IsHourTable(rows) => IsHourTable(new)
         /\ IsDayTable(table) /\ IsDayTable(rows) => IsDayTable(new)
<1>1. /\ DOMAIN new = DOMAIN table \cup DOMAIN rows
      /\ \A k \in DOMAIN rows : new[k] = rows[k]
      /\ \A k \in DOMAIN table \ DOMAIN rows : new[k] = table[k]
  BY DEF Upsert
<1>2. IsHourTable(table) /\ IsHourTable(rows) => IsHourTable(new)
  BY <1>1 DEF IsHourTable, Counts
<1>3. IsDayTable(table) /\ IsDayTable(rows) => IsDayTable(new)
  BY <1>1 DEF IsDayTable, Counts
<1> QED BY <1>2, <1>3

------------------------------------------------------------------------------
(* The hours of a day are HoursPerDay in a row.                            *)
LEMMA DayBounds ==
  ASSUME NEW h \in Nat
  PROVE  Day(h) \in Nat /\ Day(h) * HoursPerDay <= h /\ h < Day(h) * HoursPerDay + HoursPerDay
BY TimeAssumption DEF Day

LEMMA DayIs ==
  ASSUME NEW h \in Nat, NEW d \in Nat, d * HoursPerDay <= h, h < d * HoursPerDay + HoursPerDay
  PROVE  Day(h) = d
BY TimeAssumption, DayBounds DEF Day

(* An hour on, it is the same day or the next.                             *)
LEMMA DayNext ==
  ASSUME NEW h \in Nat PROVE Day(h + 1) \in {Day(h), Day(h) + 1}
BY TimeAssumption, DayBounds, DayIs

(* A day back, it is the day before.                                       *)
LEMMA DayBefore ==
  ASSUME NEW h \in Nat, Day(h) >= 1
  PROVE  h - HoursPerDay \in Nat /\ Day(h - HoursPerDay) = Day(h) - 1
<1>1. PICK d \in Nat : Day(h) = d + 1
  BY DayBounds
<1>2. (d + 1) * HoursPerDay = d * HoursPerDay + HoursPerDay /\ d * HoursPerDay \in Nat
  BY TimeAssumption
<1>3. /\ d * HoursPerDay + HoursPerDay <= h
      /\ h < d * HoursPerDay + HoursPerDay + HoursPerDay
  BY <1>1, <1>2, DayBounds
<1>4. /\ h - HoursPerDay \in Nat /\ d * HoursPerDay <= h - HoursPerDay
      /\ h - HoursPerDay < d * HoursPerDay + HoursPerDay
  BY <1>2, <1>3, TimeAssumption
<1>5. Day(h - HoursPerDay) = d
  BY <1>4, DayIs
<1> QED BY <1>1, <1>4, <1>5

(* A later hour is not of an earlier day.                                  *)
LEMMA DayGrows ==
  ASSUME NEW h \in Nat, NEW k \in Nat, h <= k PROVE Day(h) <= Day(k)
<1>1. PICK a, b : a = Day(h) /\ b = Day(k)
  OBVIOUS
<1>2. /\ a \in Nat /\ a * HoursPerDay <= h /\ h < a * HoursPerDay + HoursPerDay
      /\ b \in Nat /\ b * HoursPerDay <= k /\ k < b * HoursPerDay + HoursPerDay
  BY <1>1, DayBounds
<1>3. ASSUME a >= b + 1 PROVE FALSE
  <2>1. PICK e \in Nat : a = b + 1 + e
    <3>1. a - b - 1 \in Nat /\ a = b + 1 + (a - b - 1)
      BY <1>2, <1>3
    <3> QED BY <3>1
  <2>2. /\ a * HoursPerDay = b * HoursPerDay + HoursPerDay + e * HoursPerDay
        /\ e * HoursPerDay \in Nat
    BY <1>2, <2>1, TimeAssumption
  <2> QED BY <1>2, <2>2, TimeAssumption
<1> QED BY <1>1, <1>2, <1>3

------------------------------------------------------------------------------
Moved(c, state, hour, id) ==
  click'[c].state = state /\ click'[c].hour = hour /\ click'[c].id = id

(* The steps of a click, whoever takes them.                               *)
ClickMove(c) ==
  \/ click'[c] = click[c]
  \/ click[c].state = "new" /\ Moved(c, "stamped", clock, click[c].id)
  \/ /\ click[c].state = "stamped" /\ ~ RangeLocked(click[c].hour)
     /\ Moved(c, "inserted", click[c].hour, nextId) /\ nextId' = nextId + 1
  \/ click[c].state = "inserted" /\ Moved(c, "logged", click[c].hour, click[c].id)
  \/ /\ click[c].state \in {"stamped", "inserted"}
     /\ Moved(c, "lost", click[c].hour, click[c].id)
  \/ /\ click[c].state = "logged" /\ ~ RangeLocked(click[c].hour)
     /\ click[c].hour + Retention < clock
     /\ Moved(c, "purged", click[c].hour, click[c].id)

LEMMA ClickMoves ==
  ASSUME IndInv, [Next]_vars
  PROVE  /\ nextId' \in {nextId, nextId + 1}
         /\ click' \in [Clicks -> [state : {"new", "stamped", "inserted", "logged", "lost", "purged"},
                                   hour : Hours, id : 0..(nextId' - 1)]]
         /\ \A c \in Clicks : ClickMove(c)
<1> DEFINE Kinds == {"new", "stamped", "inserted", "logged", "lost", "purged"}
<1>1. /\ clock \in Hours /\ nextId \in Nat \ {0}
      /\ click \in [Clicks -> [state : Kinds, hour : Hours, id : 0..(nextId - 1)]]
  BY DEF IndInv, TypeOK
<1>2. CASE click' = click /\ nextId' = nextId
  BY <1>1, <1>2 DEF ClickMove
<1>3. ASSUME NEW c \in Clicks, Stamp(c) \/ InsertClick(c) \/ CommitClick(c) \/ LoseClick(c)
      PROVE  /\ nextId' \in {nextId, nextId + 1}
             /\ click' \in [Clicks -> [state : Kinds, hour : Hours, id : 0..(nextId' - 1)]]
             /\ \A b \in Clicks : ClickMove(b)
  <2>1. CASE Stamp(c)
    BY <1>1, <2>1 DEF Stamp, ClickMove, Moved
  <2>2. CASE InsertClick(c)
    <3>1. /\ click[c].state = "stamped" /\ ~ RangeLocked(click[c].hour)
          /\ click' = [click EXCEPT ![c].state = "inserted", ![c].id = nextId]
          /\ nextId' = nextId + 1
      BY <2>2 DEF InsertClick
    <3>2. click \in [Clicks -> [state : Kinds, hour : Hours, id : 0..(nextId' - 1)]]
      BY <1>1, <3>1
    <3>3. nextId \in 0..(nextId' - 1)
      BY <1>1, <3>1
    <3>4. click' \in [Clicks -> [state : Kinds, hour : Hours, id : 0..(nextId' - 1)]]
      BY <3>1, <3>2, <3>3
    <3>5. Moved(c, "inserted", click[c].hour, nextId)
      BY <1>1, <3>1 DEF Moved
    <3>6. \A b \in Clicks \ {c} : click'[b] = click[b]
      BY <1>1, <3>1
    <3> QED BY <3>1, <3>4, <3>5, <3>6 DEF ClickMove
  <2>3. CASE CommitClick(c)
    BY <1>1, <2>3 DEF CommitClick, ClickMove, Moved
  <2>4. CASE LoseClick(c)
    BY <1>1, <2>4 DEF LoseClick, ClickMove, Moved
  <2> QED BY <1>3, <2>1, <2>2, <2>3, <2>4
<1>4. ASSUME NEW w \in Workers, CleanupOldClicks(w)
      PROVE  /\ nextId' = nextId
             /\ click' \in [Clicks -> [state : Kinds, hour : Hours, id : 0..(nextId' - 1)]]
             /\ \A c \in Clicks : ClickMove(c)
  <2>1. /\ nextId' = nextId
        /\ click' = [c \in Clicks |-> IF c \in Old(Logged)
                                      THEN [click[c] EXCEPT !.state = "purged"] ELSE click[c]]
    BY <1>4 DEF CleanupOldClicks
  <2>2. ASSUME NEW c \in Clicks
        PROVE  /\ click'[c] \in [state : Kinds, hour : Hours, id : 0..(nextId - 1)]
               /\ ClickMove(c)
    <3>1. CASE c \in Old(Logged)
      <4>1. click[c].state = "logged" /\ click[c].hour + Retention < clock
        BY <3>1 DEF Old, Logged
      <4>2. ~ RangeLocked(click[c].hour)
        BY <1>4, <4>1 DEF CleanupOldClicks, Old
      <4>3. click'[c] = [click[c] EXCEPT !.state = "purged"]
        BY <2>1, <3>1
      <4> QED BY <1>1, <4>1, <4>2, <4>3 DEF ClickMove, Moved
    <3>2. CASE c \notin Old(Logged)
      BY <1>1, <2>1, <3>2 DEF ClickMove
    <3> QED BY <3>1, <3>2
  <2> QED BY <2>1, <2>2
<1>5. ASSUME NEW w \in Workers,
             \/ StartHourly(w) \/ StartDaily(w) \/ ReadHour(w) \/ ReadDay(w) \/ SnapshotDay(w)
             \/ CommitHourly(w) \/ CommitDaily(w) \/ FailRun(w)
      PROVE  click' = click /\ nextId' = nextId
  BY <1>5 DEF StartHourly, StartDaily, ReadHour, ReadDay, SnapshotDay, CommitHourly,
              CommitDaily, FailRun
<1>6. UNCHANGED vars \/ Tick => click' = click /\ nextId' = nextId
  BY DEF vars, Tick
<1> QED BY <1>2, <1>3, <1>4, <1>5, <1>6 DEF Next, ClickStep, WorkerStep

(* The steps of a worker.                                                  *)
RunMove(w) ==
  \/ worker'[w] = worker[w]
  \/ worker'[w] = Resting
  \/ worker'[w] = [Resting EXCEPT !.pc = "cleanup"]
  \/ /\ clock >= 1 /\ clock' = clock /\ click' = click
     /\ worker'[w] = [Resting EXCEPT !.pc = "stats", !.kind = "hourly", !.target = clock - 1]
  \/ /\ Day(clock) >= 1 /\ clock' = clock /\ click' = click
     /\ worker'[w] = [Resting EXCEPT !.pc = "stats", !.kind = "daily", !.target = Day(clock) - 1]
  \/ ReadHour(w) \/ ReadDay(w) \/ SnapshotDay(w)

LEMMA RunMoves ==
  ASSUME IndInv, [Next]_vars
  PROVE  DOMAIN worker' = Workers /\ \A w \in Workers : RunMove(w)
<1>1. DOMAIN worker = Workers
  BY DEF IndInv, TypeOK
<1>2. ASSUME NEW w \in Workers, NEW next, Run(w, next)
      PROVE  /\ DOMAIN worker' = Workers /\ worker'[w] = next
             /\ \A v \in Workers \ {w} : worker'[v] = worker[v]
  BY <1>1, <1>2 DEF Run
<1>3. CASE worker' = worker
  BY <1>1, <1>3 DEF RunMove
<1>4. ASSUME NEW w \in Workers, WorkerStep(w) \/ StartHourly(w) \/ StartDaily(w) \/ FailRun(w)
      PROVE  DOMAIN worker' = Workers /\ \A v \in Workers : RunMove(v)
  <2>1. PICK next : Run(w, next) /\
          \/ next = Resting
          \/ next = [Resting EXCEPT !.pc = "cleanup"]
          \/ /\ clock >= 1 /\ clock' = clock /\ click' = click
             /\ next = [Resting EXCEPT !.pc = "stats", !.kind = "hourly", !.target = clock - 1]
          \/ /\ Day(clock) >= 1 /\ clock' = clock /\ click' = click
             /\ next = [Resting EXCEPT !.pc = "stats", !.kind = "daily", !.target = Day(clock) - 1]
          \/ ReadHour(w) \/ ReadDay(w) \/ SnapshotDay(w)
    <3>1. CASE StartHourly(w)
      BY <3>1 DEF StartHourly
    <3>2. CASE StartDaily(w)
      BY <3>2 DEF StartDaily
    <3>3. CASE ReadHour(w) \/ ReadDay(w) \/ SnapshotDay(w)
      BY <3>3 DEF ReadHour, ReadDay, SnapshotDay
    <3>4. CASE CommitHourly(w) \/ CommitDaily(w) \/ CleanupOldClicks(w) \/ FailRun(w)
      BY <3>4 DEF CommitHourly, CommitDaily, CleanupOldClicks, FailRun
    <3> QED BY <1>4, <3>1, <3>2, <3>3, <3>4 DEF WorkerStep
  <2>2. /\ DOMAIN worker' = Workers /\ worker'[w] = next
        /\ \A v \in Workers \ {w} : worker'[v] = worker[v]
    BY <1>2, <2>1
  <2> QED BY <2>1, <2>2 DEF RunMove
<1>5. ASSUME NEW c \in Clicks, Stamp(c) \/ ClickStep(c) \/ LoseClick(c)
      PROVE  worker' = worker
  BY <1>5 DEF Stamp, ClickStep, InsertClick, CommitClick, LoseClick
<1>6. UNCHANGED vars \/ Tick => worker' = worker
  BY DEF vars, Tick
<1> QED BY <1>3, <1>4, <1>5, <1>6 DEF Next

(* A click that has been given its row keeps its hour, and one in a period *)
(* that is locked and complete keeps its state.                            *)
LEMMA ClickKeeps ==
  ASSUME IndInv, [Next]_vars, NEW c \in Clicks
  PROVE  /\ click'[c].state \in {"inserted", "logged", "purged"} =>
              /\ click[c].state \in {"stamped", "inserted", "logged", "purged"}
              /\ click'[c].hour = click[c].hour
              /\ \/ click'[c].id = click[c].id /\ click[c].state # "stamped"
                 \/ /\ click'[c].id = nextId /\ nextId' = nextId + 1
                    /\ click'[c].state = "inserted" /\ ~ RangeLocked(click[c].hour)
         /\ click[c].state \in {"inserted", "logged", "purged"} =>
              click'[c].hour = click[c].hour /\ click'[c].id = click[c].id
         /\ click[c].state \in {"logged", "purged"} => click'[c].state \in {"logged", "purged"}
         /\ click'[c].state \in {"logged", "purged"} =>
              click[c].state \in {"inserted", "logged", "purged"}
         /\ RangeLocked(click[c].hour) /\ click[c].state # "inserted" =>
              /\ click'[c].state # "inserted"
              /\ click'[c].state = "logged" <=> click[c].state = "logged"
              /\ click'[c].state = "purged" <=> click[c].state = "purged"
BY ClickMoves DEF ClickMove, Moved

(* The day a run has read: no click comes or goes until the run ends.      *)
LEMMA DayKept ==
  ASSUME IndInv, [Next]_vars, NEW w \in Workers,
         worker[w].kind = "daily", worker[w].pc \in {"snapshot", "commit"},
         NEW d, d = worker[w].target
  PROVE  /\ ~ DayBusy(d)'
         /\ InDay(Logged, d)' = InDay(Logged, d) /\ InDay(EverLogged, d)' = InDay(EverLogged, d)
         /\ InDay(Purged, d)' = InDay(Purged, d)
<1>2. ~ DayBusy(d)
  <2>1. RunFits(worker[w])
    BY DEF IndInv
  <2> QED BY <2>1 DEF RunFits, DailyFits
<1>3. \A c \in Clicks : Day(click[c].hour) = d =>
        RangeLocked(click[c].hour) /\ click[c].state # "inserted"
  BY <1>2 DEF RangeLocked, Reads, DayBusy, InDay
<1>4. ASSUME NEW c \in Clicks
      PROVE  /\ click'[c].state = "inserted" => Day(click'[c].hour) # d
             /\ \A s \in {"logged", "purged"} :
                  click'[c].state = s /\ Day(click'[c].hour) = d
                    <=> click[c].state = s /\ Day(click[c].hour) = d
  <2>1. CASE Day(click[c].hour) = d
    BY <1>3, <2>1, ClickKeeps
  <2>2. CASE Day(click[c].hour) # d
    BY <2>2, ClickKeeps
  <2> QED BY <2>1, <2>2
<1>5. ~ DayBusy(d)'
  BY <1>4 DEF DayBusy, InDay
<1>6. InDay(Logged, d)' = InDay(Logged, d)
  BY <1>4 DEF InDay, Logged
<1>7. InDay(Purged, d)' = InDay(Purged, d)
  BY <1>4 DEF InDay, Purged
<1>8. InDay(EverLogged, d)' = InDay(EverLogged, d)
  BY <1>4 DEF InDay, EverLogged
<1> QED BY <1>5, <1>6, <1>7, <1>8

(* And the hour.                                                           *)
LEMMA HourKept ==
  ASSUME IndInv, [Next]_vars, NEW w \in Workers,
         worker[w].kind = "hourly", worker[w].pc = "commit",
         NEW h, h = worker[w].target
  PROVE  ~ HourBusy(h)' /\ InHour(EverLogged, h)' = InHour(EverLogged, h)
<1>2. ~ HourBusy(h)
  <2>1. RunFits(worker[w])
    BY DEF IndInv
  <2> QED BY <2>1 DEF RunFits, HourlyFits
<1>3. \A c \in Clicks : click[c].hour = h =>
        RangeLocked(click[c].hour) /\ click[c].state # "inserted"
  BY <1>2 DEF RangeLocked, Reads, HourBusy, InHour
<1>4. ASSUME NEW c \in Clicks
      PROVE  /\ click'[c].state = "inserted" => click'[c].hour # h
             /\ click'[c].state \in {"logged", "purged"} /\ click'[c].hour = h
                  <=> click[c].state \in {"logged", "purged"} /\ click[c].hour = h
  <2>1. CASE click[c].hour = h
    BY <1>3, <2>1, ClickKeeps
  <2>2. CASE click[c].hour # h
    BY <2>2, ClickKeeps
  <2> QED BY <2>1, <2>2
<1>5. ~ HourBusy(h)'
  BY <1>4 DEF HourBusy, InHour
<1>6. InHour(EverLogged, h)' = InHour(EverLogged, h)
  BY <1>4 DEF InHour, EverLogged
<1> QED BY <1>5, <1>6

(* A watermark stays below the ids of what is not committed.               *)
LEMMA FreshKept ==
  ASSUME IndInv, [Next]_vars, NEW snap, Fresh(snap)
  PROVE  Fresh(snap)'
<1>1. nextId \in Nat /\ nextId' \in {nextId, nextId + 1}
  BY ClickMoves DEF IndInv, TypeOK
<1>2. \A k \in DOMAIN snap : snap[k].maxId \in 1..(nextId - 1) /\ snap[k].maxId \in 1..(nextId' - 1)
  BY <1>1 DEF Fresh
<1>3. ASSUME NEW c \in Clicks, click'[c].state = "inserted",
             <<UserOf(c), Day(click'[c].hour)>> \in DOMAIN snap
      PROVE  snap[<<UserOf(c), Day(click'[c].hour)>>].maxId < click'[c].id
  <2>1. PICK k \in DOMAIN snap : k = <<UserOf(c), Day(click'[c].hour)>>
    BY <1>3
  <2>2. k = DayOf(c)
    BY <1>3, <2>1, ClickKeeps DEF DayOf
  <2>3. CASE click[c].state # "stamped" /\ click'[c].id = click[c].id
    <3>1. click[c].state = "inserted"
      BY <1>3, <2>3, ClickKeeps
    <3>2. snap[DayOf(c)].maxId < click[c].id
      BY <2>2, <3>1 DEF Fresh
    <3> QED BY <2>1, <2>2, <2>3, <3>2
  <2>4. CASE click'[c].id = nextId
    BY <1>1, <1>2, <2>1, <2>4
  <2> QED BY <1>3, <2>3, <2>4, ClickKeeps
<1> QED BY <1>2, <1>3 DEF Fresh, DayOf, UserOf

(* A run that takes no step still fits.                                    *)
LEMMA RunKept ==
  ASSUME IndInv, [Next]_vars, NEW w \in Workers, worker'[w] = worker[w]
  PROVE  RunFits(worker[w])'
<1>1. PICK r : r = worker[w]
  OBVIOUS
<1>2. RunFits(r) /\ IsRun(r)
  BY <1>1 DEF IndInv, TypeOK
<1>3. CASE r.kind = "none"
  BY <1>1, <1>2, <1>3 DEF RunFits
<1>4. CASE r.kind = "hourly"
  <2>1. HourlyFits(r)
    BY <1>2, <1>4 DEF RunFits
  <2>2. r.pc = "commit" => ~ HourBusy(r.target)'
    BY <1>1, <1>4, HourKept
  <2>3. HourlyFits(r)'
    BY <2>1, <2>2 DEF HourlyFits
  <2> QED BY <1>1, <1>4, <2>3 DEF RunFits
<1>5. CASE r.kind = "daily"
  <2>1. DailyFits(r)
    BY <1>2, <1>5 DEF RunFits
  <2>2. r.pc \in {"snapshot", "commit"} =>
          ~ DayBusy(r.target)' /\ InDay(Logged, r.target)' = InDay(Logged, r.target)
    BY <1>1, <1>5, DayKept
  <2>3. r.pc = "snapshot" => StatRows(r.target)' = StatRows(r.target)
    BY <2>2 DEF StatRows, DayGroups, UserOf
  <2>4. r.pc = "commit" => Fresh(r.snap)'
    BY <2>1, FreshKept DEF DailyFits
  <2>5. DailyFits(r)'
    BY <2>1, <2>2, <2>3, <2>4 DEF DailyFits
  <2> QED BY <1>1, <1>5, <2>5 DEF RunFits
<1> QED BY <1>2, <1>3, <1>4, <1>5 DEF IsRun

(* INSERT ... SELECT reads an hour in which nothing is under way.          *)
LEMMA ReadHourStep ==
  ASSUME IndInv, NEW w \in Workers, ReadHour(w)
  PROVE  IsRun(worker'[w]) /\ RunFits(worker[w])'
<1>1. PICK r : r = worker[w]
  OBVIOUS
<1>2. /\ r.pc = "stats" /\ r.kind = "hourly" /\ ~ HourBusy(r.target) /\ click' = click
      /\ worker' = [worker EXCEPT ![w] = [r EXCEPT !.pc = "commit", !.stats = HourRows(r.target)]]
  BY <1>1 DEF ReadHour, Run
<1>3. IsRun(r) /\ r.target \in Hours /\ DOMAIN worker = Workers
  BY <1>1, <1>2 DEF IndInv, TypeOK, RunFits, HourlyFits
<1>4. PICK n : n = worker'[w]
  OBVIOUS
<1>5. n = [r EXCEPT !.pc = "commit", !.stats = HourRows(r.target)]
  BY <1>2, <1>3, <1>4
<1>6. /\ IsRun(n) /\ n.pc = "commit" /\ n.kind = "hourly" /\ n.target = r.target
      /\ n.stats = HourRows(r.target)
  BY <1>2, <1>3, <1>5 DEF IsRun
<1>7. ~ HourBusy(n.target)'
  BY <1>2, <1>6 DEF HourBusy, InHour
<1>8. HourlyFits(n)'
  BY <1>3, <1>6, <1>7, HourRowsFit DEF HourlyFits
<1> QED BY <1>4, <1>6, <1>8 DEF RunFits

LEMMA ReadDayStep ==
  ASSUME IndInv, NEW w \in Workers, ReadDay(w)
  PROVE  IsRun(worker'[w]) /\ RunFits(worker[w])'
<1>1. PICK r : r = worker[w]
  OBVIOUS
<1>2. /\ r.pc = "stats" /\ r.kind = "daily" /\ ~ DayBusy(r.target) /\ click' = click
      /\ worker' = [worker EXCEPT ![w] = [r EXCEPT !.pc = "snapshot", !.stats = StatRows(r.target)]]
  BY <1>1 DEF ReadDay, Run
<1>3. IsRun(r) /\ r.target \in Days /\ DOMAIN worker = Workers /\ TypeOK
  BY <1>1, <1>2 DEF IndInv, TypeOK, RunFits, DailyFits
<1>4. PICK n : n = worker'[w]
  OBVIOUS
<1>5. n = [r EXCEPT !.pc = "snapshot", !.stats = StatRows(r.target)]
  BY <1>2, <1>3, <1>4
<1>6. /\ IsRun(n) /\ n.pc = "snapshot" /\ n.kind = "daily" /\ n.target = r.target
      /\ n.stats = StatRows(r.target)
  BY <1>2, <1>3, <1>5 DEF IsRun
<1>7. ~ DayBusy(n.target)'
  BY <1>2, <1>6 DEF DayBusy, InDay
<1>8. StatRows(n.target)' = StatRows(n.target)
  BY <1>2 DEF StatRows, DayGroups, InDay, Logged
<1>9. DailyFits(n)'
  BY <1>3, <1>6, <1>7, <1>8, DayRowsFit DEF DailyFits
<1> QED BY <1>4, <1>6, <1>9 DEF RunFits

(* The second statement of AggregateDay reads what the first has locked.   *)
LEMMA SnapshotStep ==
  ASSUME IndInv, NEW w \in Workers, SnapshotDay(w)
  PROVE  IsRun(worker'[w]) /\ RunFits(worker[w])'
<1>1. PICK r : r = worker[w]
  OBVIOUS
<1>2. /\ r.pc = "snapshot" /\ ~ DayBusy(r.target) /\ click' = click /\ nextId' = nextId
      /\ worker' = [worker EXCEPT ![w] = [r EXCEPT !.pc = "commit", !.snap = SnapshotRows(r.target)]]
  BY <1>1 DEF SnapshotDay, Run
<1>3. /\ IsRun(r) /\ RunFits(r) /\ DOMAIN worker = Workers /\ TypeOK /\ nextId \in Nat
  BY <1>1 DEF IndInv, TypeOK
<1>4. r.kind = "daily"
  BY <1>2, <1>3 DEF RunFits, IsRun, HourlyFits
<1>5. DailyFits(r)
  BY <1>3, <1>4 DEF RunFits
<1>6. r.target \in Days /\ r.stats = StatRows(r.target)
  BY <1>2, <1>5 DEF DailyFits
<1>7. PICK n : n = worker'[w]
  OBVIOUS
<1>8. n = [r EXCEPT !.pc = "commit", !.snap = SnapshotRows(r.target)]
  BY <1>2, <1>3, <1>7
<1>9. /\ IsRun(n) /\ n.pc = "commit" /\ n.kind = "daily" /\ n.target = r.target
      /\ n.stats = r.stats /\ n.snap = SnapshotRows(r.target)
  BY <1>3, <1>4, <1>8 DEF IsRun
<1>10. ~ DayBusy(n.target)'
  BY <1>2, <1>9 DEF DayBusy, InDay
<1>11. Match(n.stats, n.snap) /\ IsDayTable(n.snap) /\ \A k \in DOMAIN n.stats : k[2] = n.target
  BY <1>3, <1>6, <1>9, DayRowsFit
<1>12. Fresh(n.snap)'
  <2>1. ASSUME NEW k \in DOMAIN n.snap
        PROVE  n.snap[k].maxId \in 1..(nextId - 1)
    <3>1. PICK S : S = DayGroups(r.target)[k]
      OBVIOUS
    <3>2. n.snap[k].maxId = MaxIdOf(S) /\ k \in DOMAIN DayGroups(r.target)
      BY <1>3, <1>6, <1>9, <2>1, <3>1, DayRowsFit
    <3>3. S \in SUBSET Clicks /\ S # {} /\ S \subseteq Logged
      <4>1. PICK group : group = DayGroups(r.target)
        OBVIOUS
      <4>2. /\ group[k] = {c \in InDay(Logged, r.target) : UserOf(c) = k[1]}
            /\ group[k] \in SUBSET Clicks /\ group[k] # {}
        BY <3>2, <4>1, Groups
      <4> QED BY <3>1, <4>1, <4>2 DEF InDay
    <3>4. PICK c \in S : MaxIdOf(S) = click[c].id
      BY <1>3, <3>3, MaxIdThere
    <3>5. click[c].id \in 0..(nextId - 1) /\ click[c].id # 0
      BY <1>3, <3>3 DEF TypeOK, Logged
    <3> QED BY <1>3, <3>2, <3>4, <3>5
  <2>2. \A k \in DOMAIN n.snap : k[2] = n.target
    BY <1>11 DEF Match
  <2>3. \A c \in Clicks : click[c].state = "inserted" => DayOf(c) \notin DOMAIN n.snap
    BY <1>2, <1>9, <2>2 DEF DayBusy, InDay, DayOf
  <2> QED BY <1>2, <2>1, <2>3 DEF Fresh, DayOf
<1>13. DailyFits(n)'
  BY <1>2, <1>5, <1>6, <1>9, <1>10, <1>11, <1>12 DEF DailyFits
<1> QED BY <1>7, <1>9, <1>13 DEF RunFits

(* Every run fits after every step.                                        *)
LEMMA RunStep ==
  ASSUME IndInv, [Next]_vars, NEW w \in Workers
  PROVE  IsRun(worker'[w]) /\ RunFits(worker[w])'
<1>1. PICK n : n = worker'[w]
  OBVIOUS
<1>2. TypeOK /\ clock \in Nat /\ clock <= MaxHour /\ IsRun(worker[w])
  BY TimeAssumption DEF IndInv, TypeOK, Hours
<1>3. CASE worker'[w] = worker[w]
  BY <1>2, <1>3, RunKept
<1>4. CASE n = Resting \/ n = [Resting EXCEPT !.pc = "cleanup"]
  <2>1. IsRun(n) /\ n.kind = "none" /\ n.pc \in {"idle", "cleanup"}
    BY <1>4 DEF Resting, IsRun
  <2> QED BY <1>1, <2>1 DEF RunFits
<1>5. CASE /\ clock >= 1
           /\ n = [Resting EXCEPT !.pc = "stats", !.kind = "hourly", !.target = clock - 1]
  <2>1. clock - 1 \in Nat /\ clock - 1 \in Hours
    BY <1>2, <1>5, TimeAssumption DEF Hours
  <2>2. IsRun(n) /\ n.kind = "hourly" /\ n.pc = "stats" /\ n.target = clock - 1
    BY <1>5, <2>1 DEF Resting, IsRun
  <2> QED BY <1>1, <2>1, <2>2 DEF RunFits, HourlyFits
<1>6. CASE /\ Day(clock) >= 1
           /\ n = [Resting EXCEPT !.pc = "stats", !.kind = "daily", !.target = Day(clock) - 1]
  <2>1. /\ clock - HoursPerDay \in Nat /\ Day(clock - HoursPerDay) = Day(clock) - 1
        /\ Day(clock) - 1 \in Nat
    BY <1>2, <1>6, DayBefore, DayBounds
  <2>2. clock - HoursPerDay \in Hours
    BY <1>2, <2>1, TimeAssumption DEF Hours
  <2>3. Day(clock) - 1 \in Days
    BY <2>1, <2>2 DEF Days
  <2>4. IsRun(n) /\ n.kind = "daily" /\ n.pc = "stats" /\ n.target = Day(clock) - 1
    BY <1>6, <2>1 DEF Resting, IsRun
  <2> QED BY <1>1, <2>3, <2>4 DEF RunFits, DailyFits
<1>7. CASE ReadHour(w) \/ ReadDay(w) \/ SnapshotDay(w)
  BY <1>7, ReadHourStep, ReadDayStep, SnapshotStep
<1> QED BY <1>1, <1>3, <1>4, <1>5, <1>6, <1>7, RunMoves DEF RunMove

(* The rollups change when a run commits.                                  *)
LEMMA TableMoves ==
  ASSUME [Next]_vars
  PROVE  /\ \/ hourly' = hourly
            \/ \E w \in Workers : CommitHourly(w)
         /\ \/ daily' = daily /\ snapshot' = snapshot
            \/ \E w \in Workers : CommitDaily(w)
<1>1. UNCHANGED vars \/ Tick => UNCHANGED <<hourly, daily, snapshot>>
  BY DEF vars, Tick
<1>2. ASSUME NEW c \in Clicks, Stamp(c) \/ ClickStep(c) \/ LoseClick(c)
      PROVE  UNCHANGED <<hourly, daily, snapshot>>
  BY <1>2 DEF Stamp, ClickStep, InsertClick, CommitClick, LoseClick
<1>3. ASSUME NEW w \in Workers, StartHourly(w) \/ StartDaily(w) \/ FailRun(w) \/ WorkerStep(w)
      PROVE  /\ hourly' = hourly \/ CommitHourly(w)
             /\ (daily' = daily /\ snapshot' = snapshot) \/ CommitDaily(w)
  BY <1>3 DEF StartHourly, StartDaily, FailRun, WorkerStep, ReadHour, ReadDay, SnapshotDay,
              CommitHourly, CommitDaily, CleanupOldClicks
<1> QED BY <1>1, <1>2, <1>3 DEF Next

(* What the runs leave behind has its type, and statistics and snapshot    *)
(* agree.                                                                  *)
LEMMA TablesStep ==
  ASSUME IndInv, [Next]_vars
  PROVE  /\ IsHourTable(hourly') /\ IsDayTable(daily') /\ IsDayTable(snapshot')
         /\ StatsMatchSnapshot' /\ Fresh(snapshot)'
<1>1. PICK hours, stats, snaps : hours = hourly /\ stats = daily /\ snaps = snapshot
  OBVIOUS
<1>2. PICK hours2, stats2, snaps2 : hours2 = hourly' /\ stats2 = daily' /\ snaps2 = snapshot'
  OBVIOUS
<1>3. /\ IsHourTable(hours) /\ IsDayTable(stats) /\ IsDayTable(snaps)
      /\ Match(stats, snaps) /\ Fresh(snaps)
  BY <1>1 DEF IndInv, TypeOK, StatsMatchSnapshot
<1>4. Fresh(snaps)'
  BY <1>3, FreshKept
<1>5. IsHourTable(hours2)
  <2>1. ASSUME NEW w \in Workers, CommitHourly(w)
        PROVE  IsHourTable(hours2)
    <3>1. PICK rows : rows = worker[w].stats
      OBVIOUS
    <3>2. RunFits(worker[w]) /\ worker[w].pc = "commit" /\ worker[w].kind = "hourly"
      BY <2>1 DEF IndInv, CommitHourly
    <3>3. IsHourTable(rows) /\ hours2 = Upsert(hours, rows)
      BY <1>1, <1>2, <2>1, <3>1, <3>2 DEF RunFits, HourlyFits, CommitHourly
    <3> QED BY <1>3, <3>3, UpsertFits
  <2> QED BY <1>1, <1>2, <1>3, <2>1, TableMoves
<1>6. ASSUME NEW w \in Workers, CommitDaily(w)
      PROVE  IsDayTable(stats2) /\ IsDayTable(snaps2) /\ Match(stats2, snaps2) /\ Fresh(snaps2)'
  <2>1. PICK rows, snap : rows = worker[w].stats /\ snap = worker[w].snap
    OBVIOUS
  <2>2. RunFits(worker[w]) /\ worker[w].pc = "commit" /\ worker[w].kind = "daily"
    BY <1>6 DEF IndInv, CommitDaily
  <2>3. IsDayTable(rows) /\ IsDayTable(snap) /\ Match(rows, snap) /\ Fresh(snap)
    BY <2>1, <2>2 DEF RunFits, DailyFits
  <2>4. stats2 = Upsert(stats, rows) /\ snaps2 = Upsert(snaps, snap)
    BY <1>1, <1>2, <1>6, <2>1 DEF CommitDaily
  <2>5. IsDayTable(stats2) /\ IsDayTable(snaps2)
    BY <1>3, <2>3, <2>4, UpsertFits
  <2>6. /\ DOMAIN stats2 = DOMAIN stats \cup DOMAIN rows
        /\ \A k \in DOMAIN rows : stats2[k] = rows[k]
        /\ \A k \in DOMAIN stats \ DOMAIN rows : stats2[k] = stats[k]
    BY <2>4 DEF Upsert
  <2>7. /\ DOMAIN snaps2 = DOMAIN snaps \cup DOMAIN snap
        /\ \A k \in DOMAIN snap : snaps2[k] = snap[k]
        /\ \A k \in DOMAIN snaps \ DOMAIN snap : snaps2[k] = snaps[k]
    BY <2>4 DEF Upsert
  <2>8. Match(stats2, snaps2)
    BY <1>3, <2>3, <2>6, <2>7 DEF Match
  <2>9. Fresh(snap)'
    BY <2>3, FreshKept
  <2>10. Fresh(snaps2)'
    BY <1>4, <2>7, <2>9 DEF Fresh, DayOf
  <2> QED BY <2>5, <2>8, <2>10
<1>7. CASE daily' = daily /\ snapshot' = snapshot
  <2>1. stats2 = stats /\ snaps2 = snaps
    BY <1>1, <1>2, <1>7
  <2>2. Fresh(snaps2)'
    BY <1>4, <2>1
  <2> QED BY <1>2, <1>3, <1>5, <2>1, <2>2 DEF StatsMatchSnapshot, Fresh, DayOf
<1>8. ASSUME NEW w \in Workers, CommitDaily(w)
      PROVE  /\ IsDayTable(daily') /\ IsDayTable(snapshot')
             /\ StatsMatchSnapshot' /\ Fresh(snapshot)'
  BY <1>2, <1>6, <1>8 DEF StatsMatchSnapshot, Fresh, DayOf
<1> QED BY <1>2, <1>5, <1>7, <1>8, TableMoves

(* No step of the clock or of a run leaves the hours that are modelled.    *)
LEMMA ClockStep ==
  ASSUME IndInv, [Next]_vars
  PROVE  /\ clock' = clock \/ Tick
         /\ clock' \in Hours /\ onTime' \subseteq {"hourly", "daily"}
<1>1. clock \in Hours /\ onTime \subseteq {"hourly", "daily"}
  BY DEF IndInv, TypeOK
<1>2. CASE Tick
  BY <1>1, <1>2, TimeAssumption DEF Tick, Hours
<1>3. UNCHANGED vars => clock' = clock /\ onTime' = onTime
  BY DEF vars
<1>4. ASSUME NEW c \in Clicks, Stamp(c) \/ ClickStep(c) \/ LoseClick(c)
      PROVE  clock' = clock /\ onTime' = onTime
  BY <1>4 DEF Stamp, ClickStep, InsertClick, CommitClick, LoseClick
<1>5. ASSUME NEW w \in Workers, StartHourly(w) \/ StartDaily(w) \/ FailRun(w) \/ WorkerStep(w)
      PROVE  clock' = clock /\ onTime' \subseteq onTime \cup {"hourly", "daily"}
  BY <1>5 DEF StartHourly, StartDaily, FailRun, WorkerStep, ReadHour, ReadDay, SnapshotDay,
              CommitHourly, CommitDaily, CleanupOldClicks
<1> QED BY <1>1, <1>2, <1>3, <1>4, <1>5 DEF Next

LEMMA NextInv == IndInv /\ [Next]_vars => IndInv'
<1> SUFFICES ASSUME IndInv, [Next]_vars PROVE IndInv'
  OBVIOUS
<1>1. nextId' \in Nat \ {0}
  BY ClickMoves DEF IndInv, TypeOK
<1>2. \A c \in Clicks : click'[c].state \in {"inserted", "logged", "purged"} => click'[c].id # 0
  BY ClickKeeps DEF IndInv, TypeOK
<1>3. TypeOK'
  BY <1>1, <1>2, ClickMoves, RunMoves, RunStep, TablesStep, ClockStep DEF TypeOK
<1> QED BY <1>3, RunStep, TablesStep DEF IndInv

LEMMA InitInv == Init => IndInv
<1> SUFFICES ASSUME Init PROVE IndInv
  OBVIOUS
<1>1. DOMAIN NoRows = {}
  BY DEF NoRows
<1>2. IsRun(Resting) /\ Resting.kind = "none" /\ Resting.pc = "idle"
  BY DEF Resting, IsRun
<1>3. IsHourTable(hourly) /\ IsDayTable(daily) /\ IsDayTable(snapshot)
  BY <1>1 DEF Init, IsHourTable, IsDayTable
<1>4. StatsMatchSnapshot /\ Fresh(snapshot)
  BY <1>1 DEF Init, StatsMatchSnapshot, Match, Fresh
<1>5. TypeOK
  BY <1>2, <1>3, TimeAssumption DEF Init, TypeOK, Hours
<1> QED BY <1>2, <1>4, <1>5 DEF IndInv, Init, RunFits

(* However the workers' runs, their failures and the clicks interleave,    *)
(* what a run has read is what is there until it commits.                  *)
THEOREM RunsFit == Spec => []IndInv
BY InitInv, NextInv, PTL DEF Spec

(* No click gets between the two statements of AggregateDay, and no        *)
(* rollup is visible without its snapshot: the two always agree.           *)
THEOREM StatsAndSnapshotAgree == Spec => []StatsMatchSnapshot
<1>1. IndInv => StatsMatchSnapshot
  BY DEF IndInv
<1> QED BY <1>1, RunsFit, PTL

------------------------------------------------------------------------------
(* What follows counts the clicks ever logged.                             *)
LEMMA MarksKept ==
  ASSUME IndInv, [Next]_vars, NEW snap, IsDayTable(snap), Fresh(snap), Marks(snap)
  PROVE  Marks(snap)'
<1>1. ASSUME NEW k \in DOMAIN snap, NEW m, m = snap[k].maxId, NEW u, u = k[1], NEW d, d = k[2]
      PROVE  {c \in UserDay(u, d) : click[c].id <= m}' = {c \in UserDay(u, d) : click[c].id <= m}
  <2>1. k = <<u, d>>
    BY <1>1 DEF IsDayTable
  <2>2. m \in Int
    BY <1>1 DEF Fresh
  <2>3. ASSUME NEW c \in Clicks
        PROVE  click'[c].state \in {"logged", "purged"} /\ Day(click'[c].hour) = d
                   /\ UserOf(c) = u /\ click'[c].id <= m
                 <=> click[c].state \in {"logged", "purged"} /\ Day(click[c].hour) = d
                       /\ UserOf(c) = u /\ click[c].id <= m
    <3>1. CASE click[c].state = "inserted"
      <4>1. click[c].id \in Int
        BY DEF IndInv, TypeOK
      <4>2. ASSUME UserOf(c) = u, Day(click[c].hour) = d
            PROVE  ~ (click[c].id <= m)
        <5>1. DayOf(c) = k
          BY <2>1, <4>2 DEF DayOf
        <5>2. m < click[c].id
          BY <1>1, <3>1, <5>1 DEF Fresh
        <5> QED BY <2>2, <4>1, <5>2
      <4>3. /\ click'[c].hour = click[c].hour /\ click'[c].id = click[c].id
            /\ click[c].state \notin {"logged", "purged"}
        BY <3>1, ClickKeeps
      <4> QED BY <4>2, <4>3
    <3>2. CASE click[c].state \in {"logged", "purged"}
      BY <3>2, ClickKeeps
    <3>3. CASE click[c].state \notin {"inserted", "logged", "purged"}
      BY <3>3, ClickKeeps
    <3> QED BY <3>1, <3>2, <3>3
  <2> QED BY <2>3 DEF UserDay, InDay, EverLogged, UserOf
<1>2. ASSUME NEW k \in DOMAIN snap
      PROVE  snap[k].clicks =
               Cardinality({c \in UserDay(k[1], k[2]) : click[c].id <= snap[k].maxId})'
  <2>1. PICK m, u, d : m = snap[k].maxId /\ u = k[1] /\ d = k[2]
    OBVIOUS
  <2>2. snap[k].clicks = Cardinality({c \in UserDay(u, d) : click[c].id <= m})
    BY <2>1 DEF Marks
  <2>3. {c \in UserDay(u, d) : click[c].id <= m}' = {c \in UserDay(u, d) : click[c].id <= m}
    BY <1>1, <2>1
  <2>4. snap[k].clicks = Cardinality({c \in UserDay(u, d) : click[c].id <= m}')
    BY <2>2, <2>3
  <2> QED BY <2>1, <2>4
<1> QED BY <1>2 DEF Marks

(* A click once logged is counted ever after.                              *)
LEMMA CountsKept ==
  ASSUME IndInv, [Next]_vars
  PROVE  /\ \A l, h : Cardinality(HourClicks(l, h)) <= Cardinality(HourClicks(l, h)')
         /\ \A u, d : Cardinality(UserDay(u, d)) <= Cardinality(UserDay(u, d)')
<1>1. \A c \in EverLogged : c \in EverLogged' /\ click'[c].hour = click[c].hour
  BY ClickKeeps DEF EverLogged
<1>2. ASSUME NEW l, NEW h
      PROVE  Cardinality(HourClicks(l, h)) <= Cardinality(HourClicks(l, h)')
  <2>1. PICK S, T : S = HourClicks(l, h)' /\ T = HourClicks(l, h)
    OBVIOUS
  <2>2. S \in SUBSET Clicks /\ T \in SUBSET S
    BY <1>1, <2>1 DEF HourClicks, InHour, EverLogged
  <2> QED BY <2>1, <2>2, CountsGrow
<1>3. ASSUME NEW u, NEW d
      PROVE  Cardinality(UserDay(u, d)) <= Cardinality(UserDay(u, d)')
  <2>1. PICK S, T : S = UserDay(u, d)' /\ T = UserDay(u, d)
    OBVIOUS
  <2>2. S \in SUBSET Clicks /\ T \in SUBSET S
    BY <1>1, <2>1 DEF UserDay, InDay, EverLogged, UserOf
  <2> QED BY <2>1, <2>2, CountsGrow
<1> QED BY <1>2, <1>3

(* A run that goes on has still read its whole period.                     *)
LEMMA RunExactKept ==
  ASSUME IndInv, [Next]_vars, NEW w \in Workers, worker'[w] = worker[w], RunExact(worker[w])
  PROVE  RunExact(worker[w])'
<1>1. PICK r : r = worker[w]
  OBVIOUS
<1>2. RunExact(r) /\ RunFits(r)
  BY <1>1 DEF IndInv
<1>3. ASSUME r.kind = "hourly", r.pc = "commit", NEW l \in Links
      PROVE  ClicksIn(r.stats, <<l, r.target>>) = Cardinality(HourClicks(l, r.target)')
  <2>1. PICK h : h = r.target
    OBVIOUS
  <2>2. InHour(EverLogged, h)' = InHour(EverLogged, h)
    BY <1>1, <1>3, <2>1, HourKept
  <2>3. HourClicks(l, h)' = HourClicks(l, h)
    BY <2>2 DEF HourClicks
  <2> QED BY <1>2, <1>3, <2>1, <2>3 DEF RunExact
<1>4. ASSUME r.kind = "daily", r.pc \in {"snapshot", "commit"}
      PROVE  /\ \A u \in Users :
                  ClicksIn(r.stats, <<u, r.target>>) = Cardinality(UserDay(u, r.target)')
             /\ r.pc = "snapshot" => \A c \in Purged' : ~ Targets(r, click'[c].hour)
             /\ r.pc = "commit" => Marks(r.snap)'
  <2>1. PICK d : d = r.target
    OBVIOUS
  <2>2. /\ InDay(EverLogged, d)' = InDay(EverLogged, d)
        /\ InDay(Purged, d)' = InDay(Purged, d)
    BY <1>1, <1>4, <2>1, DayKept
  <2>3. \A u \in Users : UserDay(u, d)' = UserDay(u, d)
    BY <2>2 DEF UserDay, UserOf
  <2>4. \A u \in Users : ClicksIn(r.stats, <<u, d>>) = Cardinality(UserDay(u, d)')
    BY <1>2, <1>4, <2>1, <2>3 DEF RunExact
  <2>5. r.pc = "snapshot" => \A c \in Purged' : ~ Targets(r, click'[c].hour)
    <3>1. r.pc = "snapshot" => InDay(Purged, d) = {}
      BY <1>2, <1>4, <2>1 DEF RunExact, Targets, InDay
    <3> QED BY <1>4, <2>1, <2>2, <3>1 DEF Targets, InDay
  <2>6. r.pc = "commit" => Marks(r.snap)'
    <3>1. r.pc = "commit" => IsDayTable(r.snap) /\ Fresh(r.snap) /\ Marks(r.snap)
      BY <1>2, <1>4 DEF RunExact, RunFits, DailyFits
    <3> QED BY <3>1, MarksKept
  <2> QED BY <2>1, <2>4, <2>5, <2>6
<1>5. RunExact(r)'
  BY <1>3, <1>4 DEF RunExact, Targets
<1> QED BY <1>1, <1>5 DEF RunExact, Targets, Marks

(* What an hourly run reads of an hour of which nothing has been purged.   *)
LEMMA HourReadExact ==
  ASSUME NEW h, \A c \in Purged : click[c].hour # h, NEW l \in Links, NEW rows, rows = HourRows(h)
  PROVE  ClicksIn(rows, <<l, h>>) = Cardinality(HourClicks(l, h))
<1>1. PICK read : read = InHour(Logged, h)
  OBVIOUS
<1>2. read = InHour(EverLogged, h)
  BY <1>1 DEF InHour, Logged, EverLogged, Purged
<1>3. PICK S : S = HourClicks(l, h)
  OBVIOUS
<1>4. S = {c \in read : LinkOf[c] = l}
  BY <1>2, <1>3 DEF HourClicks
<1>5. PICK k : k = <<l, h>>
  OBVIOUS
<1>6. /\ DOMAIN rows = {<<LinkOf[c], h>> : c \in read}
      /\ k \in DOMAIN rows => rows[k].clicks = Cardinality({c \in read : LinkOf[c] = k[1]})
  BY <1>1 DEF HourRows
<1>7. k \in DOMAIN rows <=> S # {}
  BY <1>4, <1>5, <1>6
<1>8. CASE k \in DOMAIN rows
  <2>1. rows[k].clicks = Cardinality(S)
    BY <1>4, <1>5, <1>6, <1>8
  <2> QED BY <1>3, <1>5, <1>8, <2>1 DEF ClicksIn
<1>9. CASE k \notin DOMAIN rows
  <2>1. Cardinality(S) = 0
    BY <1>7, <1>9, FS_EmptySet
  <2> QED BY <1>3, <1>5, <1>9, <2>1 DEF ClicksIn
<1> QED BY <1>8, <1>9

(* The clicks of a day of which nothing has been purged, user by user.     *)
LEMMA GroupsExact ==
  ASSUME NEW d, \A c \in Purged : Day(click[c].hour) # d, NEW group, group = DayGroups(d), NEW u
  PROVE  /\ <<u, d>> \in DOMAIN group => group[<<u, d>>] = UserDay(u, d)
         /\ <<u, d>> \notin DOMAIN group => UserDay(u, d) = {}
<1>1. PICK read : read = InDay(Logged, d)
  OBVIOUS
<1>2. read = InDay(EverLogged, d)
  BY <1>1 DEF InDay, Logged, EverLogged, Purged
<1>3. UserDay(u, d) = {c \in read : UserOf(c) = u}
  BY <1>2 DEF UserDay
<1>4. PICK k : k = <<u, d>>
  OBVIOUS
<1>5. /\ DOMAIN group = {<<UserOf(c), d>> : c \in read}
      /\ k \in DOMAIN group => group[k] = {c \in read : UserOf(c) = k[1]}
  BY <1>1 DEF DayGroups
<1>6. k \in DOMAIN group => group[k] = UserDay(u, d)
  BY <1>3, <1>4, <1>5
<1>7. k \notin DOMAIN group => UserDay(u, d) = {}
  BY <1>3, <1>4, <1>5
<1> QED BY <1>4, <1>6, <1>7

LEMMA DayReadExact ==
  ASSUME NEW d, \A c \in Purged : Day(click[c].hour) # d, NEW u, NEW rows, rows = StatRows(d)
  PROVE  ClicksIn(rows, <<u, d>>) = Cardinality(UserDay(u, d))
<1>1. PICK group : group = DayGroups(d)
  OBVIOUS
<1>2. PICK S, k : S = UserDay(u, d) /\ k = <<u, d>>
  OBVIOUS
<1>3. /\ k \in DOMAIN group => group[k] = S
      /\ k \notin DOMAIN group => S = {}
  BY <1>1, <1>2, GroupsExact
<1>4. /\ DOMAIN rows = DOMAIN group
      /\ k \in DOMAIN group => rows[k].clicks = Cardinality(group[k])
  BY <1>1 DEF StatRows
<1>5. CASE k \in DOMAIN rows
  BY <1>2, <1>3, <1>4, <1>5 DEF ClicksIn
<1>6. CASE k \notin DOMAIN rows
  <2>1. Cardinality(S) = 0
    BY <1>3, <1>4, <1>6, FS_EmptySet
  <2> QED BY <1>2, <1>6, <2>1 DEF ClicksIn
<1> QED BY <1>5, <1>6

(* The watermark of such a day marks all its clicks.                       *)
LEMMA SnapshotMarks ==
  ASSUME TypeOK, NEW d \in Days, \A c \in Purged : Day(click[c].hour) # d,
         NEW snap, snap = SnapshotRows(d)
  PROVE  Marks(snap)
<1>1. PICK group : group = DayGroups(d)
  OBVIOUS
<1>2. ASSUME NEW k \in DOMAIN snap
      PROVE  snap[k].clicks =
               Cardinality({c \in UserDay(k[1], k[2]) : click[c].id <= snap[k].maxId})
  <2>1. /\ k \in DOMAIN group /\ snap[k].maxId = MaxIdOf(group[k])
        /\ snap[k].clicks = Cardinality(group[k])
    BY <1>1, DayRowsFit
  <2>2. group[k] \in SUBSET Clicks /\ group[k] # {} /\ k = <<k[1], d>>
    BY <1>1, <2>1, Groups
  <2>3. PICK S, u, m : S = group[k] /\ u = k[1] /\ m = snap[k].maxId
    OBVIOUS
  <2>4. k = <<u, d>> /\ k[2] = d
    BY <2>2, <2>3
  <2>5. S = UserDay(u, d)
    BY <1>1, <2>1, <2>3, <2>4, GroupsExact
  <2>6. \A c \in S : click[c].id <= m
    BY <2>1, <2>2, <2>3, MaxIdThere
  <2>7. S = {c \in UserDay(u, d) : click[c].id <= m}
    BY <2>5, <2>6
  <2> QED BY <2>1, <2>3, <2>4, <2>7
<1> QED BY <1>2 DEF Marks

(* Every statement of a run reads exactly, with retention clear of it.     *)
LEMMA RunExactStep ==
  ASSUME IndInv, RetentionClear, ExactInv, [Next]_vars, NEW w \in Workers
  PROVE  RunExact(worker[w])'
<1>1. PICK r : r = worker[w]
  OBVIOUS
<1>2. PICK n : n = worker'[w]
  OBVIOUS
<1>3. /\ TypeOK /\ IsRun(r) /\ RunFits(r) /\ RunExact(r) /\ DOMAIN worker = Workers
      /\ r.pc = "stats" => \A c \in Purged : ~ Targets(r, click[c].hour)
  BY <1>1 DEF IndInv, TypeOK, ExactInv, RetentionClear
<1>4. CASE worker'[w] = worker[w]
  BY <1>1, <1>3, <1>4, RunExactKept
<1>5. CASE n.pc \in {"idle", "stats", "cleanup"}
  BY <1>2, <1>5 DEF RunExact
<1>6. CASE ReadHour(w)
  <2>1. PICK h : h = r.target
    OBVIOUS
  <2>2. /\ r.pc = "stats" /\ r.kind = "hourly" /\ click' = click
        /\ n = [r EXCEPT !.pc = "commit", !.stats = HourRows(h)]
    BY <1>1, <1>2, <1>3, <1>6, <2>1 DEF ReadHour, Run
  <2>3. n.kind = "hourly" /\ n.stats = HourRows(h) /\ n.target = h
    BY <1>3, <2>1, <2>2 DEF IsRun
  <2>4. \A c \in Purged : click[c].hour # h
    BY <1>3, <2>1, <2>2 DEF Targets
  <2>5. \A l \in Links : ClicksIn(n.stats, <<l, h>>) = Cardinality(HourClicks(l, h))
    BY <2>3, <2>4, HourReadExact
  <2>6. \A l \in Links : HourClicks(l, h)' = HourClicks(l, h)
    BY <2>2 DEF HourClicks, InHour, EverLogged
  <2>7. \A l \in Links : ClicksIn(n.stats, <<l, n.target>>) = Cardinality(HourClicks(l, n.target)')
    BY <2>3, <2>5, <2>6
  <2> QED BY <1>2, <2>3, <2>7 DEF RunExact
<1>7. CASE ReadDay(w)
  <2>1. PICK d : d = r.target
    OBVIOUS
  <2>2. /\ r.pc = "stats" /\ r.kind = "daily" /\ click' = click
        /\ n = [r EXCEPT !.pc = "snapshot", !.stats = StatRows(d)]
    BY <1>1, <1>2, <1>3, <1>7, <2>1 DEF ReadDay, Run
  <2>3. n.kind = "daily" /\ n.pc = "snapshot" /\ n.stats = StatRows(d) /\ n.target = d
    BY <1>3, <2>1, <2>2 DEF IsRun
  <2>4. \A c \in Purged : Day(click[c].hour) # d
    BY <1>3, <2>1, <2>2 DEF Targets
  <2>5. \A u \in Users : ClicksIn(n.stats, <<u, d>>) = Cardinality(UserDay(u, d))
    BY <2>3, <2>4, DayReadExact
  <2>6. \A u \in Users : UserDay(u, d)' = UserDay(u, d)
    BY <2>2 DEF UserDay, InDay, EverLogged, UserOf
  <2>7. \A u \in Users : ClicksIn(n.stats, <<u, n.target>>) = Cardinality(UserDay(u, n.target)')
    BY <2>3, <2>5, <2>6
  <2>8. \A c \in Purged' : ~ Targets(n, click'[c].hour)
    BY <2>2, <2>3, <2>4 DEF Targets, Purged
  <2> QED BY <1>2, <2>3, <2>7, <2>8 DEF RunExact, Targets
<1>8. CASE SnapshotDay(w)
  <2>1. PICK d : d = r.target
    OBVIOUS
  <2>2. /\ r.pc = "snapshot" /\ click' = click
        /\ n = [r EXCEPT !.pc = "commit", !.snap = SnapshotRows(d)]
    BY <1>1, <1>2, <1>3, <1>8, <2>1 DEF SnapshotDay, Run
  <2>3. r.kind = "daily" /\ d \in Days
    BY <1>3, <2>1, <2>2 DEF RunFits, IsRun, HourlyFits, DailyFits
  <2>4. /\ n.kind = "daily" /\ n.pc = "commit" /\ n.stats = r.stats /\ n.target = d
        /\ n.snap = SnapshotRows(d)
    BY <1>3, <2>1, <2>2, <2>3 DEF IsRun
  <2>5. \A c \in Purged : Day(click[c].hour) # d
    BY <1>3, <2>1, <2>2, <2>3 DEF RunExact, Targets
  <2>6. Marks(n.snap)
    BY <1>3, <2>3, <2>4, <2>5, SnapshotMarks
  <2>7. Marks(n.snap)'
    BY <2>2, <2>6 DEF Marks, UserDay, InDay, EverLogged, UserOf
  <2>8. \A u \in Users : ClicksIn(n.stats, <<u, d>>) = Cardinality(UserDay(u, d))
    BY <1>3, <2>1, <2>2, <2>3, <2>4 DEF RunExact
  <2>9. \A u \in Users : UserDay(u, d)' = UserDay(u, d)
    BY <2>2 DEF UserDay, InDay, EverLogged, UserOf
  <2>10. \A u \in Users : ClicksIn(n.stats, <<u, n.target>>) = Cardinality(UserDay(u, n.target)')
    BY <2>4, <2>8, <2>9
  <2> QED BY <1>2, <2>4, <2>7, <2>10 DEF RunExact, Marks
<1>9. RunMove(w)
  BY RunMoves
<1>10. Resting.pc = "idle" /\ [Resting EXCEPT !.pc = "cleanup"].pc = "cleanup"
  BY DEF Resting
<1>11. /\ [Resting EXCEPT !.pc = "stats", !.kind = "hourly", !.target = clock - 1].pc = "stats"
       /\ [Resting EXCEPT !.pc = "stats", !.kind = "daily", !.target = Day(clock) - 1].pc = "stats"
  BY DEF Resting
<1> QED BY <1>2, <1>4, <1>5, <1>6, <1>7, <1>8, <1>9, <1>10, <1>11 DEF RunMove

(* What a commit adds is exact: it takes nothing back.                     *)
LEMMA HourlyCommit ==
  ASSUME IndInv, ExactInv, NEW w \in Workers, CommitHourly(w),
         NEW rows, rows = worker[w].stats
  PROVE  /\ hourly' = Upsert(hourly, rows) /\ IsHourTable(rows) /\ click' = click
         /\ \A k \in DOMAIN rows : rows[k].clicks = Cardinality(HourClicks(k[1], k[2]))
<1>1. PICK r : r = worker[w]
  OBVIOUS
<1>2. /\ r.pc = "commit" /\ r.kind = "hourly" /\ hourly' = Upsert(hourly, rows) /\ click' = click
      /\ RunFits(r) /\ RunExact(r)
  BY <1>1 DEF CommitHourly, IndInv, ExactInv
<1>3. IsHourTable(rows) /\ \A k \in DOMAIN rows : k[2] = r.target
  BY <1>1, <1>2 DEF RunFits, HourlyFits
<1>4. ASSUME NEW k \in DOMAIN rows
      PROVE  rows[k].clicks = Cardinality(HourClicks(k[1], k[2]))
  <2>1. PICK l, h : l = k[1] /\ h = k[2]
    OBVIOUS
  <2>2. k = <<l, h>> /\ l \in Links /\ h = r.target
    BY <1>3, <2>1 DEF IsHourTable
  <2>3. ClicksIn(rows, <<l, h>>) = Cardinality(HourClicks(l, h))
    BY <1>1, <1>2, <2>2 DEF RunExact
  <2> QED BY <2>1, <2>2, <2>3 DEF ClicksIn
<1> QED BY <1>2, <1>3, <1>4

LEMMA DailyCommit ==
  ASSUME IndInv, ExactInv, NEW w \in Workers, CommitDaily(w),
         NEW rows, rows = worker[w].stats, NEW snap, snap = worker[w].snap
  PROVE  /\ daily' = Upsert(daily, rows) /\ IsDayTable(rows) /\ click' = click
         /\ snapshot' = Upsert(snapshot, snap) /\ Marks(snap)
         /\ \A k \in DOMAIN rows : rows[k].clicks = Cardinality(UserDay(k[1], k[2]))
<1>1. PICK r : r = worker[w]
  OBVIOUS
<1>2. /\ r.pc = "commit" /\ r.kind = "daily" /\ daily' = Upsert(daily, rows)
      /\ snapshot' = Upsert(snapshot, snap) /\ click' = click /\ RunFits(r) /\ RunExact(r)
  BY <1>1 DEF CommitDaily, IndInv, ExactInv
<1>3. IsDayTable(rows) /\ (\A k \in DOMAIN rows : k[2] = r.target) /\ Marks(snap)
  BY <1>1, <1>2 DEF RunFits, DailyFits, RunExact
<1>4. ASSUME NEW k \in DOMAIN rows
      PROVE  rows[k].clicks = Cardinality(UserDay(k[1], k[2]))
  <2>1. PICK u, d : u = k[1] /\ d = k[2]
    OBVIOUS
  <2>2. k = <<u, d>> /\ u \in Users /\ d = r.target
    BY <1>3, <2>1 DEF IsDayTable
  <2>3. ClicksIn(rows, <<u, d>>) = Cardinality(UserDay(u, d))
    BY <1>1, <1>2, <2>2 DEF RunExact
  <2> QED BY <2>1, <2>2, <2>3 DEF ClicksIn
<1> QED BY <1>2, <1>3, <1>4

(* The rollups' counts never exceed the clicks ever logged, and never go   *)
(* back.                                                                   *)
LEMMA HourlyGrows ==
  ASSUME IndInv, ExactInv, [Next]_vars
  PROVE  /\ \A k \in DOMAIN hourly' : hourly'[k].clicks <= Cardinality(HourClicks(k[1], k[2])')
         /\ NeverShrinks(hourly, hourly')
<1>1. PICK old, new : old = hourly /\ new = hourly'
  OBVIOUS
<1>2. /\ IsHourTable(old)
      /\ \A k \in DOMAIN old : old[k].clicks <= Cardinality(HourClicks(k[1], k[2]))
  BY <1>1 DEF IndInv, TypeOK, ExactInv
<1>3. ASSUME NEW k
      PROVE  /\ Cardinality(HourClicks(k[1], k[2])) \in Nat
             /\ Cardinality(HourClicks(k[1], k[2])') \in Nat
             /\ Cardinality(HourClicks(k[1], k[2])) <= Cardinality(HourClicks(k[1], k[2])')
  <2>1. PICK S, T : S = HourClicks(k[1], k[2]) /\ T = HourClicks(k[1], k[2])'
    OBVIOUS
  <2>2. S \in SUBSET Clicks /\ T \in SUBSET Clicks
    BY <2>1 DEF HourClicks, InHour, EverLogged
  <2>3. Cardinality(S) \in Nat /\ Cardinality(T) \in Nat
    BY <2>2, ClicksCount
  <2>4. Cardinality(S) <= Cardinality(T)
    BY <2>1, CountsKept
  <2> QED BY <2>1, <2>3, <2>4
<1>4. \A k \in DOMAIN old : old[k].clicks \in Nat
  BY <1>2 DEF IsHourTable, Counts
<1>5. CASE new = old
  <2>1. \A k \in DOMAIN new : new[k].clicks <= Cardinality(HourClicks(k[1], k[2])')
    BY <1>2, <1>3, <1>4, <1>5
  <2> QED BY <1>1, <1>4, <1>5, <2>1 DEF NeverShrinks
<1>6. ASSUME NEW w \in Workers, CommitHourly(w)
      PROVE  /\ \A k \in DOMAIN new : new[k].clicks <= Cardinality(HourClicks(k[1], k[2])')
             /\ NeverShrinks(old, new)
  <2>1. PICK rows : rows = worker[w].stats
    OBVIOUS
  <2>2. /\ new = Upsert(old, rows)
        /\ \A k \in DOMAIN rows : rows[k].clicks = Cardinality(HourClicks(k[1], k[2]))
    BY <1>1, <1>6, <2>1, HourlyCommit
  <2>3. /\ DOMAIN new = DOMAIN old \cup DOMAIN rows
        /\ \A k \in DOMAIN rows : new[k] = rows[k]
        /\ \A k \in DOMAIN old \ DOMAIN rows : new[k] = old[k]
    BY <2>2 DEF Upsert
  <2>4. ASSUME NEW k \in DOMAIN new
        PROVE  /\ new[k].clicks <= Cardinality(HourClicks(k[1], k[2])')
               /\ k \in DOMAIN old => new[k].clicks >= old[k].clicks
    <3>1. PICK a, b : a = Cardinality(HourClicks(k[1], k[2]))
                   /\ b = Cardinality(HourClicks(k[1], k[2])')
      OBVIOUS
    <3>2. a \in Nat /\ b \in Nat /\ a <= b
      BY <1>3, <3>1
    <3>3. k \in DOMAIN rows => new[k].clicks = a
      BY <2>2, <2>3, <3>1
    <3>4. k \notin DOMAIN rows => k \in DOMAIN old /\ new[k] = old[k]
      BY <2>3
    <3>5. k \in DOMAIN old => old[k].clicks <= a /\ old[k].clicks \in Nat
      BY <1>2, <1>4, <3>1
    <3> QED BY <3>1, <3>2, <3>3, <3>4, <3>5
  <2> QED BY <2>3, <2>4 DEF NeverShrinks
<1> QED BY <1>1, <1>5, <1>6, TableMoves

LEMMA DailyGrows ==
  ASSUME IndInv, ExactInv, [Next]_vars
  PROVE  /\ \A k \in DOMAIN daily' : daily'[k].clicks <= Cardinality(UserDay(k[1], k[2])')
         /\ NeverShrinks(daily, daily')
         /\ WatermarkExact'
<1>1. PICK old, new : old = daily /\ new = daily'
  OBVIOUS
<1>2. /\ IsDayTable(old)
      /\ \A k \in DOMAIN old : old[k].clicks <= Cardinality(UserDay(k[1], k[2]))
  BY <1>1 DEF IndInv, TypeOK, ExactInv
<1>3. ASSUME NEW k
      PROVE  /\ Cardinality(UserDay(k[1], k[2])) \in Nat
             /\ Cardinality(UserDay(k[1], k[2])') \in Nat
             /\ Cardinality(UserDay(k[1], k[2])) <= Cardinality(UserDay(k[1], k[2])')
  <2>1. PICK S, T : S = UserDay(k[1], k[2]) /\ T = UserDay(k[1], k[2])'
    OBVIOUS
  <2>2. S \in SUBSET Clicks /\ T \in SUBSET Clicks
    BY <2>1 DEF UserDay, InDay, EverLogged
  <2>3. Cardinality(S) \in Nat /\ Cardinality(T) \in Nat
    BY <2>2, ClicksCount
  <2>4. Cardinality(S) <= Cardinality(T)
    BY <2>1, CountsKept
  <2> QED BY <2>1, <2>3, <2>4
<1>4. \A k \in DOMAIN old : old[k].clicks \in Nat
  BY <1>2 DEF IsDayTable, Counts
<1>5. PICK snaps : snaps = snapshot
  OBVIOUS
<1>6. IsDayTable(snaps) /\ Fresh(snaps) /\ Marks(snaps)
  BY <1>5 DEF IndInv, TypeOK, ExactInv, WatermarkExact
<1>7. Marks(snaps)'
  BY <1>6, MarksKept
<1>8. PICK snaps2 : snaps2 = snapshot'
  OBVIOUS
<1>9. CASE new = old /\ snaps2 = snaps
  <2>1. \A k \in DOMAIN new : new[k].clicks <= Cardinality(UserDay(k[1], k[2])')
    BY <1>2, <1>3, <1>4, <1>9
  <2>2. Marks(snaps2)'
    BY <1>7, <1>9
  <2> QED BY <1>1, <1>4, <1>8, <1>9, <2>1, <2>2 DEF NeverShrinks, WatermarkExact, Marks
<1>10. ASSUME NEW w \in Workers, CommitDaily(w)
       PROVE  /\ \A k \in DOMAIN new : new[k].clicks <= Cardinality(UserDay(k[1], k[2])')
              /\ NeverShrinks(old, new) /\ Marks(snaps2)'
  <2>1. PICK rows, snap : rows = worker[w].stats /\ snap = worker[w].snap
    OBVIOUS
  <2>2. /\ new = Upsert(old, rows) /\ snaps2 = Upsert(snaps, snap) /\ Marks(snap)
        /\ \A k \in DOMAIN rows : rows[k].clicks = Cardinality(UserDay(k[1], k[2]))
        /\ click' = click
    BY <1>1, <1>5, <1>8, <1>10, <2>1, DailyCommit
  <2>3. /\ DOMAIN new = DOMAIN old \cup DOMAIN rows
        /\ \A k \in DOMAIN rows : new[k] = rows[k]
        /\ \A k \in DOMAIN old \ DOMAIN rows : new[k] = old[k]
    BY <2>2 DEF Upsert
  <2>4. ASSUME NEW k \in DOMAIN new
        PROVE  /\ new[k].clicks <= Cardinality(UserDay(k[1], k[2])')
               /\ k \in DOMAIN old => new[k].clicks >= old[k].clicks
    <3>1. PICK a, b : a = Cardinality(UserDay(k[1], k[2]))
                   /\ b = Cardinality(UserDay(k[1], k[2])')
      OBVIOUS
    <3>2. a \in Nat /\ b \in Nat /\ a <= b
      BY <1>3, <3>1
    <3>3. k \in DOMAIN rows => new[k].clicks = a
      BY <2>2, <2>3, <3>1
    <3>4. k \notin DOMAIN rows => k \in DOMAIN old /\ new[k] = old[k]
      BY <2>3
    <3>5. k \in DOMAIN old => old[k].clicks <= a /\ old[k].clicks \in Nat
      BY <1>2, <1>4, <3>1
    <3> QED BY <3>1, <3>2, <3>3, <3>4, <3>5
  <2>5. /\ DOMAIN snaps2 = DOMAIN snaps \cup DOMAIN snap
        /\ \A k \in DOMAIN snap : snaps2[k] = snap[k]
        /\ \A k \in DOMAIN snaps \ DOMAIN snap : snaps2[k] = snaps[k]
    BY <2>2 DEF Upsert
  <2>6. Marks(snap)'
    BY <2>2 DEF Marks, UserDay, InDay, EverLogged, UserOf
  <2>7. Marks(snaps2)'
    BY <1>7, <2>5, <2>6 DEF Marks
  <2> QED BY <2>3, <2>4, <2>7 DEF NeverShrinks
<1>11. CASE \E w \in Workers : CommitDaily(w)
  BY <1>1, <1>8, <1>10, <1>11 DEF WatermarkExact, Marks
<1>12. daily' = daily /\ snapshot' = snapshot => new = old /\ snaps2 = snaps
  BY <1>1, <1>5, <1>8
<1> QED BY <1>9, <1>11, <1>12, TableMoves

LEMMA ExactStep == IndInv /\ RetentionClear /\ ExactInv /\ [Next]_vars => ExactInv'
BY RunExactStep, HourlyGrows, DailyGrows DEF ExactInv

LEMMA ExactInit == Init => ExactInv
<1> SUFFICES ASSUME Init PROVE ExactInv
  OBVIOUS
<1>1. DOMAIN NoRows = {}
  BY DEF NoRows
<1>2. /\ DOMAIN hourly = {} /\ DOMAIN daily = {} /\ DOMAIN snapshot = {}
      /\ \A w \in Workers : worker[w] = Resting
  BY <1>1 DEF Init
<1>3. Resting.kind = "none"
  BY DEF Resting
<1> QED BY <1>2, <1>3 DEF ExactInv, WatermarkExact, Marks, RunExact

(* While retention stays clear of the periods that runs read, a watermark  *)
(* divides the clicks of its day exactly: those that AggregateDay counted  *)
(* have an id up to it, and all others, whenever they commit, a greater    *)
(* one.                                                                    *)
THEOREM WatermarksExact == Spec /\ []RetentionClear => []WatermarkExact
<1>1. ExactInv => WatermarkExact
  BY DEF ExactInv
<1> QED BY <1>1, ExactInit, ExactStep, RunsFit, PTL DEF Spec

(* ... and a rollup that is written again only grows.                      *)
THEOREM RollupsOnlyGrow == Spec /\ []RetentionClear => RollupsGrow
<1>1. IndInv /\ ExactInv /\ [Next]_vars =>
        [NeverShrinks(hourly, hourly') /\ NeverShrinks(daily, daily')]_vars
  BY HourlyGrows, DailyGrows
<1>2. Spec /\ []RetentionClear => [](IndInv /\ ExactInv)
  BY ExactInit, ExactStep, RunsFit, PTL DEF Spec
<1> QED BY <1>1, <1>2, PTL DEF Spec, RollupsGrow

------------------------------------------------------------------------------
(* One worker, and a retention of a day at least beyond the day before:    *)
(* then retention is always clear, because only the worker that has        *)
(* finished its run deletes, and it looks back no further than that.       *)
PurgedOld == \A c \in Purged : click[c].hour + Retention < clock

LEMMA ClearOfStart ==
  ASSUME TypeOK, PurgedOld, Retention >= 2 * HoursPerDay - 1, NEW c \in Purged
  PROVE  click[c].hour # clock - 1 /\ Day(click[c].hour) # Day(clock) - 1
<1>1. PICK h : h = click[c].hour
  OBVIOUS
<1>2. h \in Nat /\ clock \in Nat /\ h + Retention < clock
  BY <1>1, TimeAssumption DEF TypeOK, PurgedOld, Purged, Hours
<1>3. PICK d, e : d = Day(h) /\ e = Day(clock)
  OBVIOUS
<1>4. /\ d \in Nat /\ h < d * HoursPerDay + HoursPerDay /\ d * HoursPerDay <= h
      /\ e \in Nat /\ clock < e * HoursPerDay + HoursPerDay
  BY <1>2, <1>3, DayBounds
<1>5. ASSUME e = d + 1 PROVE FALSE
  <2>1. e * HoursPerDay = d * HoursPerDay + HoursPerDay /\ d * HoursPerDay \in Nat
    BY <1>4, <1>5, TimeAssumption
  <2> QED BY <1>2, <1>4, <2>1, TimeAssumption
<1>6. h # clock - 1
  BY <1>2, TimeAssumption
<1> QED BY <1>1, <1>3, <1>4, <1>5, <1>6

(* Only a worker that cleans up purges a click.                            *)
LEMMA PurgeMoves ==
  ASSUME IndInv, [Next]_vars,
         NEW w \in Workers, worker[w].pc = "stats", \A u, v \in Workers : u = v
  PROVE  \A c \in Purged' : c \in Purged /\ click'[c].hour = click[c].hour
<1>1. \A v \in Workers : ~ CleanupOldClicks(v)
  <2> SUFFICES ASSUME NEW v \in Workers, CleanupOldClicks(v) PROVE FALSE
    OBVIOUS
  <2>1. v = w
    OBVIOUS
  <2> QED BY <2>1 DEF CleanupOldClicks
<1>2. click \in [Clicks -> [state : {"new", "stamped", "inserted", "logged", "lost", "purged"},
                            hour : Hours, id : 0..(nextId - 1)]]
  BY DEF IndInv, TypeOK
<1>3. ASSUME NEW b \in Clicks, Stamp(b) \/ ClickStep(b) \/ LoseClick(b)
      PROVE  \A c \in Clicks : click'[c].state = "purged" => click'[c] = click[c]
  BY <1>2, <1>3 DEF Stamp, ClickStep, InsertClick, CommitClick, LoseClick
<1>4. ASSUME NEW v \in Workers, StartHourly(v) \/ StartDaily(v) \/ FailRun(v) \/ WorkerStep(v)
      PROVE  click' = click
  BY <1>1, <1>4 DEF StartHourly, StartDaily, FailRun, WorkerStep, ReadHour, ReadDay, SnapshotDay,
                    CommitHourly, CommitDaily
<1>5. UNCHANGED vars \/ Tick => click' = click
  BY DEF vars, Tick
<1>6. \A c \in Clicks : click'[c].state = "purged" => click'[c] = click[c]
  BY <1>3, <1>4, <1>5 DEF Next
<1> QED BY <1>6 DEF Purged

LEMMA ClearStep ==
  ASSUME \A u, v \in Workers : u = v, Retention >= 2 * HoursPerDay - 1,
         IndInv, PurgedOld, RetentionClear, [Next]_vars
  PROVE  PurgedOld' /\ RetentionClear'
<1>1. TypeOK /\ clock \in Nat
  BY DEF IndInv, TypeOK, Hours
<1>2. clock' \in {clock, clock + 1}
  BY ClockStep DEF Tick
<1>3. PurgedOld'
  <2> SUFFICES ASSUME NEW c \in Clicks, click'[c].state = "purged"
               PROVE  click'[c].hour + Retention < clock'
    BY DEF PurgedOld, Purged
  <2>1. click'[c].hour = click[c].hour /\ click[c].hour \in Nat
    BY ClickKeeps DEF IndInv, TypeOK, Hours
  <2>2. click[c].hour + Retention < clock
    BY ClickMoves DEF ClickMove, Moved, PurgedOld, Purged
  <2> QED BY <1>1, <1>2, <2>1, <2>2, TimeAssumption
<1>4. ASSUME NEW w \in Workers, worker'[w].pc = "stats", NEW c \in Purged'
      PROVE  ~ Targets(worker'[w], click'[c].hour)
  <2>1. CASE worker'[w] = worker[w]
    <3>1. worker[w].pc = "stats"
      BY <1>4, <2>1
    <3>2. c \in Purged /\ click'[c].hour = click[c].hour
      BY <3>1, PurgeMoves
    <3> QED BY <2>1, <3>1, <3>2 DEF RetentionClear
  <2>2. CASE /\ click' = click
             /\ worker'[w] = [Resting EXCEPT !.pc = "stats", !.kind = "hourly", !.target = clock - 1]
    <3>1. c \in Purged
      BY <2>2 DEF Purged
    <3>2. worker'[w].kind = "hourly" /\ worker'[w].target = clock - 1
      BY <2>2 DEF Resting
    <3> QED BY <1>1, <2>2, <3>1, <3>2, ClearOfStart DEF Targets
  <2>3. CASE /\ click' = click
             /\ worker'[w] = [Resting EXCEPT !.pc = "stats", !.kind = "daily",
                                             !.target = Day(clock) - 1]
    <3>1. c \in Purged
      BY <2>3 DEF Purged
    <3>2. worker'[w].kind = "daily" /\ worker'[w].target = Day(clock) - 1
      BY <2>3 DEF Resting
    <3> QED BY <1>1, <2>3, <3>1, <3>2, ClearOfStart DEF Targets
  <2>4. CASE worker'[w] = Resting \/ worker'[w] = [Resting EXCEPT !.pc = "cleanup"]
    BY <1>4, <2>4 DEF Resting
  <2>5. CASE ReadHour(w) \/ ReadDay(w) \/ SnapshotDay(w)
    <3>1. PICK r : r = worker[w]
      OBVIOUS
    <3>2. IsRun(r) /\ DOMAIN worker = Workers
      BY <3>1 DEF IndInv, TypeOK
    <3>3. \/ worker'[w] = [r EXCEPT !.pc = "commit", !.stats = HourRows(r.target)]
          \/ worker'[w] = [r EXCEPT !.pc = "snapshot", !.stats = StatRows(r.target)]
          \/ worker'[w] = [r EXCEPT !.pc = "commit", !.snap = SnapshotRows(r.target)]
      BY <2>5, <3>1, <3>2 DEF ReadHour, ReadDay, SnapshotDay, Run
    <3>4. worker'[w].pc \in {"snapshot", "commit"}
      BY <3>2, <3>3 DEF IsRun
    <3> QED BY <1>4, <3>4
  <2>6. RunMove(w)
    BY RunMoves
  <2> QED BY <2>1, <2>2, <2>3, <2>4, <2>5, <2>6 DEF RunMove
<1> QED BY <1>3, <1>4 DEF RetentionClear

(* A single worker never finds the period it reads begun to be deleted.    *)
THEOREM OneWorkerClear ==
  ASSUME \A u, v \in Workers : u = v, Retention >= 2 * HoursPerDay - 1
  PROVE  Spec => []RetentionClear
<1>1. Init => PurgedOld /\ RetentionClear
  BY DEF Init, PurgedOld, RetentionClear, Purged
<1>2. IndInv /\ PurgedOld /\ RetentionClear /\ [Next]_vars => PurgedOld' /\ RetentionClear'
  BY ClearStep
<1> QED BY <1>1, <1>2, RunsFit, PTL DEF Spec

------------------------------------------------------------------------------
(* The tickers on time.  A period that is over and in which no click is    *)
(* under way takes no more clicks.                                         *)
LEMMA HourSettled ==
  ASSUME IndInv, [Next]_vars, NEW h \in Int, h < clock, InHour(InFlight, h) = {}
  PROVE  InHour(EverLogged, h)' = InHour(EverLogged, h) /\ InHour(InFlight, h)' = {}
<1>1. \A c \in Clicks : click[c].hour = h => click[c].state \notin {"stamped", "inserted"}
  BY DEF InHour, InFlight
<1>2. clock \in Int
  BY DEF IndInv, TypeOK, Hours
<1>3. ASSUME NEW c \in Clicks
      PROVE  /\ click'[c].state \in {"stamped", "inserted"} => click'[c].hour # h
             /\ click'[c].state \in {"logged", "purged"} /\ click'[c].hour = h
                  <=> click[c].state \in {"logged", "purged"} /\ click[c].hour = h
  <2>1. ClickMove(c)
    BY ClickMoves
  <2> QED BY <1>1, <1>2, <2>1 DEF ClickMove, Moved
<1>4. InHour(EverLogged, h)' = InHour(EverLogged, h)
  BY <1>3 DEF InHour, EverLogged
<1>5. InHour(InFlight, h)' = {}
  BY <1>3 DEF InHour, InFlight
<1> QED BY <1>4, <1>5

LEMMA DaySettled ==
  ASSUME IndInv, [Next]_vars, NEW d \in Int, d < Day(clock), InDay(InFlight, d) = {}
  PROVE  InDay(EverLogged, d)' = InDay(EverLogged, d) /\ InDay(InFlight, d)' = {}
<1>1. \A c \in Clicks : Day(click[c].hour) = d => click[c].state \notin {"stamped", "inserted"}
  BY DEF InDay, InFlight
<1>2. Day(clock) \in Int
  BY DayBounds DEF IndInv, TypeOK, Hours
<1>3. ASSUME NEW c \in Clicks
      PROVE  /\ click'[c].state \in {"stamped", "inserted"} => Day(click'[c].hour) # d
             /\ click'[c].state \in {"logged", "purged"} /\ Day(click'[c].hour) = d
                  <=> click[c].state \in {"logged", "purged"} /\ Day(click[c].hour) = d
  <2>1. ClickMove(c)
    BY ClickMoves
  <2> QED BY <1>1, <1>2, <2>1 DEF ClickMove, Moved
<1>4. InDay(EverLogged, d)' = InDay(EverLogged, d)
  BY <1>3 DEF InDay, EverLogged
<1>5. InDay(InFlight, d)' = {}
  BY <1>3 DEF InDay, InFlight
<1> QED BY <1>4, <1>5

(* So once such a period is exact it stays so.                             *)
LEMMA HourStaysExact ==
  ASSUME IndInv, ExactInv, [Next]_vars,
         NEW h \in Int, h < clock, InHour(InFlight, h) = {}, HourExact(h)
  PROVE  HourExact(h)'
<1> SUFFICES ASSUME NEW l \in Links
             PROVE  ClicksIn(hourly', <<l, h>>) = Cardinality(HourClicks(l, h)')
  BY DEF HourExact, ClicksIn
<1>1. PICK k, n : k = <<l, h>> /\ n = Cardinality(HourClicks(l, h))
  OBVIOUS
<1>2. HourClicks(l, h)' = HourClicks(l, h)
  BY HourSettled DEF HourClicks
<1>3. PICK old, new : old = hourly /\ new = hourly'
  OBVIOUS
<1>4. ClicksIn(old, k) = n
  BY <1>1, <1>3 DEF HourExact
<1>5. k \in DOMAIN new => new[k].clicks <= n /\ new[k].clicks \in Nat
  <2>1. k[1] = l /\ k[2] = h
    BY <1>1
  <2>2. k \in DOMAIN new => new[k].clicks <= Cardinality(HourClicks(k[1], k[2])')
    BY <1>3, HourlyGrows
  <2>3. IsHourTable(new)
    BY <1>3, TablesStep
  <2> QED BY <1>1, <1>2, <2>1, <2>2, <2>3 DEF IsHourTable, Counts
<1>6. k \in DOMAIN old => k \in DOMAIN new /\ new[k].clicks >= old[k].clicks
  BY <1>3, HourlyGrows DEF NeverShrinks
<1>7. n \in Nat
  <2>1. HourClicks(l, h) \in SUBSET Clicks
    BY DEF HourClicks, InHour, EverLogged
  <2> QED BY <1>1, <2>1, ClicksCount
<1>8. CASE k \in DOMAIN new
  <2>1. new[k].clicks = n
    <3>1. k \in DOMAIN old => old[k].clicks = n
      BY <1>4 DEF ClicksIn
    <3>2. k \notin DOMAIN old => n = 0
      BY <1>4 DEF ClicksIn
    <3> QED BY <1>5, <1>6, <1>7, <1>8, <3>1, <3>2
  <2> QED BY <1>1, <1>2, <1>3, <1>8, <2>1 DEF ClicksIn
<1>9. CASE k \notin DOMAIN new
  BY <1>1, <1>2, <1>3, <1>4, <1>6, <1>9 DEF ClicksIn
<1> QED BY <1>8, <1>9

LEMMA DayStaysExact ==
  ASSUME IndInv, ExactInv, [Next]_vars,
         NEW d \in Int, d < Day(clock), InDay(InFlight, d) = {}, DayExact(d)
  PROVE  DayExact(d)'
<1> SUFFICES ASSUME NEW u \in Users
             PROVE  ClicksIn(daily', <<u, d>>) = Cardinality(UserDay(u, d)')
  BY DEF DayExact, ClicksIn, Users
<1>1. PICK k, n : k = <<u, d>> /\ n = Cardinality(UserDay(u, d))
  OBVIOUS
<1>2. UserDay(u, d)' = UserDay(u, d)
  BY DaySettled DEF UserDay, UserOf
<1>3. PICK old, new : old = daily /\ new = daily'
  OBVIOUS
<1>4. ClicksIn(old, k) = n
  BY <1>1, <1>3 DEF DayExact
<1>5. k \in DOMAIN new => new[k].clicks <= n /\ new[k].clicks \in Nat
  <2>1. k[1] = u /\ k[2] = d
    BY <1>1
  <2>2. k \in DOMAIN new => new[k].clicks <= Cardinality(UserDay(k[1], k[2])')
    BY <1>3, DailyGrows
  <2>3. IsDayTable(new)
    BY <1>3, TablesStep
  <2> QED BY <1>1, <1>2, <2>1, <2>2, <2>3 DEF IsDayTable, Counts
<1>6. k \in DOMAIN old => k \in DOMAIN new /\ new[k].clicks >= old[k].clicks
  BY <1>3, DailyGrows DEF NeverShrinks
<1>7. n \in Nat
  <2>1. UserDay(u, d) \in SUBSET Clicks
    BY DEF UserDay, InDay, EverLogged
  <2> QED BY <1>1, <2>1, ClicksCount
<1>8. CASE k \in DOMAIN new
  <2>1. new[k].clicks = n
    <3>1. k \in DOMAIN old => old[k].clicks = n
      BY <1>4 DEF ClicksIn
    <3>2. k \notin DOMAIN old => n = 0
      BY <1>4 DEF ClicksIn
    <3> QED BY <1>5, <1>6, <1>7, <1>8, <3>1, <3>2
  <2> QED BY <1>1, <1>2, <1>3, <1>8, <2>1 DEF ClicksIn
<1>9. CASE k \notin DOMAIN new
  BY <1>1, <1>2, <1>3, <1>4, <1>6, <1>9 DEF ClicksIn
<1> QED BY <1>8, <1>9

(* A commit makes its own period exact.                                    *)
LEMMA CommitMakesHourExact ==
  ASSUME IndInv, ExactInv, [Next]_vars, NEW w \in Workers, CommitHourly(w),
         NEW h, h = worker[w].target
  PROVE  HourExact(h)'
<1>1. PICK r, rows, old, new : /\ r = worker[w] /\ rows = r.stats
                               /\ old = hourly /\ new = hourly'
  OBVIOUS
<1>2. r.kind = "hourly" /\ r.pc = "commit" /\ RunExact(r) /\ click' = click
  BY <1>1 DEF CommitHourly, ExactInv
<1>3. new = Upsert(old, rows)
  BY <1>1, HourlyCommit
<1> SUFFICES ASSUME NEW l \in Links
             PROVE  ClicksIn(hourly', <<l, h>>) = Cardinality(HourClicks(l, h)')
  BY DEF HourExact, ClicksIn
<1>4. PICK k, n : k = <<l, h>> /\ n = Cardinality(HourClicks(l, h))
  OBVIOUS
<1>5. HourClicks(l, h)' = HourClicks(l, h)
  BY <1>2 DEF HourClicks, InHour, EverLogged
<1>6. ClicksIn(rows, k) = n
  BY <1>1, <1>2, <1>4 DEF RunExact
<1>7. k \in DOMAIN old => old[k].clicks <= n /\ old[k].clicks \in Nat
  <2>1. k[1] = l /\ k[2] = h
    BY <1>4
  <2>2. k \in DOMAIN old => old[k].clicks <= Cardinality(HourClicks(k[1], k[2]))
    BY <1>1 DEF ExactInv
  <2>3. IsHourTable(old)
    BY <1>1 DEF IndInv, TypeOK
  <2> QED BY <1>4, <2>1, <2>2, <2>3 DEF IsHourTable, Counts
<1>8. ClicksIn(new, k) = n
  <2>1. CASE k \in DOMAIN rows
    <3>1. k \in DOMAIN new /\ new[k] = rows[k]
      BY <1>3, <2>1 DEF Upsert
    <3> QED BY <1>6, <2>1, <3>1 DEF ClicksIn
  <2>2. CASE k \notin DOMAIN rows
    <3>1. n = 0
      BY <1>6, <2>2 DEF ClicksIn
    <3>2. k \in DOMAIN new => k \in DOMAIN old /\ new[k] = old[k]
      BY <1>3, <2>2 DEF Upsert
    <3> QED BY <1>7, <3>1, <3>2 DEF ClicksIn
  <2> QED BY <2>1, <2>2
<1> QED BY <1>1, <1>4, <1>5, <1>8

LEMMA CommitMakesDayExact ==
  ASSUME IndInv, ExactInv, [Next]_vars, NEW w \in Workers, CommitDaily(w),
         NEW d, d = worker[w].target
  PROVE  DayExact(d)'
<1>1. PICK r, rows, old, new : /\ r = worker[w] /\ rows = r.stats
                               /\ old = daily /\ new = daily'
  OBVIOUS
<1>2. r.kind = "daily" /\ r.pc = "commit" /\ RunExact(r) /\ click' = click
  BY <1>1 DEF CommitDaily, ExactInv
<1>3. new = Upsert(old, rows)
  BY <1>1 DEF CommitDaily
<1> SUFFICES ASSUME NEW u \in Users
             PROVE  ClicksIn(daily', <<u, d>>) = Cardinality(UserDay(u, d)')
  BY DEF DayExact, ClicksIn, Users
<1>4. PICK k, n : k = <<u, d>> /\ n = Cardinality(UserDay(u, d))
  OBVIOUS
<1>5. UserDay(u, d)' = UserDay(u, d)
  BY <1>2 DEF UserDay, InDay, EverLogged, UserOf
<1>6. ClicksIn(rows, k) = n
  BY <1>1, <1>2, <1>4 DEF RunExact
<1>7. k \in DOMAIN old => old[k].clicks <= n /\ old[k].clicks \in Nat
  <2>1. k[1] = u /\ k[2] = d
    BY <1>4
  <2>2. k \in DOMAIN old => old[k].clicks <= Cardinality(UserDay(k[1], k[2]))
    BY <1>1 DEF ExactInv
  <2>3. IsDayTable(old)
    BY <1>1 DEF IndInv, TypeOK
  <2> QED BY <1>4, <2>1, <2>2, <2>3 DEF IsDayTable, Counts
<1>8. ClicksIn(new, k) = n
  <2>1. CASE k \in DOMAIN rows
    <3>1. k \in DOMAIN new /\ new[k] = rows[k]
      BY <1>3, <2>1 DEF Upsert
    <3> QED BY <1>6, <2>1, <3>1 DEF ClicksIn
  <2>2. CASE k \notin DOMAIN rows
    <3>1. n = 0
      BY <1>6, <2>2 DEF ClicksIn
    <3>2. k \in DOMAIN new => k \in DOMAIN old /\ new[k] = old[k]
      BY <1>3, <2>2 DEF Upsert
    <3> QED BY <1>7, <3>1, <3>2 DEF ClicksIn
  <2> QED BY <2>1, <2>2
<1> QED BY <1>1, <1>4, <1>5, <1>8

(* The clock waits for the runs that are due, so what is under way is of   *)
(* this hour or of the one before.                                         *)
LEMMA FlightStep ==
  ASSUME IndInv, OnTimeInv, [Next /\ Timely]_vars
  PROVE  \A c \in InFlight' : click'[c].hour >= clock' - 1
<1>1. clock \in Nat /\ [Next]_vars
  BY DEF IndInv, TypeOK, Hours
<1> SUFFICES ASSUME NEW c \in Clicks, click'[c].state \in {"stamped", "inserted"}
             PROVE  click'[c].hour >= clock' - 1
  BY DEF InFlight
<1>2. \A b \in Clicks : click[b].hour \in Nat
  BY DEF IndInv, TypeOK, Hours
<1>3. CASE Tick
  <2>1. clock' = clock + 1 /\ click' = click /\ Timely
    BY <1>1, <1>3 DEF Tick, vars
  <2>2. c \in InFlight /\ click[c].hour >= clock - 1
    BY <2>1 DEF InFlight, OnTimeInv
  <2>3. clock >= 1 => click[c].hour # clock - 1
    BY <1>3, <2>1, <2>2 DEF Timely, OnTimeInv, InHour, InFlight
  <2> QED BY <1>1, <1>2, <2>1, <2>2, <2>3
<1>4. CASE clock' = clock
  <2>1. ClickMove(c)
    BY <1>1, ClickMoves
  <2>2. click[c].state \in {"stamped", "inserted"} => click[c].hour >= clock - 1
    BY DEF OnTimeInv, InFlight
  <2> QED BY <1>1, <1>4, <2>1, <2>2 DEF ClickMove, Moved
<1> QED BY <1>1, <1>3, <1>4, ClockStep

(* ... and what onTime stands for stays true.                              *)
LEMMA HourlyOnTime ==
  ASSUME IndInv, ExactInv, OnTimeInv, [Next /\ Timely]_vars, "hourly" \in onTime'
  PROVE  InHour(InFlight, clock - 1)' = {} /\ HourExact(clock - 1)'
<1>1. clock \in Nat /\ [Next]_vars
  BY DEF IndInv, TypeOK, Hours
<1>2. clock' = clock
  BY <1>1, ClockStep DEF Tick
<1>3. PICK h : h = clock - 1
  OBVIOUS
<1>4. h \in Int /\ h < clock
  BY <1>1, <1>3
<1>5. InHour(InFlight, h)' = {} /\ HourExact(h)'
  <2>1. CASE "hourly" \in onTime
    <3>1. InHour(InFlight, h) = {} /\ HourExact(h)
      BY <1>3, <2>1 DEF OnTimeInv
    <3> QED BY <1>1, <1>4, <3>1, HourSettled, HourStaysExact
  <2>2. CASE "hourly" \notin onTime
    <3>1. PICK w \in Workers : CommitHourly(w) /\ worker[w].target = clock - 1
                               /\ InHour(InFlight, clock - 1) = {}
      <4>1. ASSUME NEW w \in Workers, WorkerStep(w) \/ StartHourly(w) \/ StartDaily(w) \/ FailRun(w)
            PROVE  CommitHourly(w) /\ worker[w].target = clock - 1
                     /\ InHour(InFlight, clock - 1) = {}
        BY <2>2, <4>1 DEF StartHourly, StartDaily, FailRun, WorkerStep, ReadHour, ReadDay,
                          SnapshotDay, CommitHourly, CommitDaily, CleanupOldClicks
      <4>2. ASSUME NEW c \in Clicks, Stamp(c) \/ ClickStep(c) \/ LoseClick(c)
            PROVE  FALSE
        BY <2>2, <4>2 DEF Stamp, ClickStep, InsertClick, CommitClick, LoseClick
      <4>3. ~ UNCHANGED vars /\ ~ Tick
        BY <2>2 DEF vars, Tick
      <4> QED BY <1>1, <4>1, <4>2, <4>3 DEF Next
    <3>2. h = worker[w].target /\ InHour(InFlight, h) = {}
      BY <1>3, <3>1
    <3> QED BY <1>1, <1>4, <3>1, <3>2, HourSettled, CommitMakesHourExact
  <2> QED BY <2>1, <2>2
<1>6. h = clock' - 1
  BY <1>2, <1>3
<1>7. InHour(InFlight, h)' = InHour(InFlight, clock - 1)' /\ HourExact(h)' = HourExact(clock - 1)'
  BY <1>6 DEF InHour, InFlight, HourExact, ClicksIn, HourClicks, EverLogged
<1> QED BY <1>5, <1>7

LEMMA DailyOnTime ==
  ASSUME IndInv, ExactInv, OnTimeInv, [Next /\ Timely]_vars, "daily" \in onTime'
  PROVE  InDay(InFlight, Day(clock) - 1)' = {} /\ DayExact(Day(clock) - 1)'
<1>1. clock \in Nat /\ Day(clock) \in Nat /\ [Next]_vars
  BY DayBounds DEF IndInv, TypeOK, Hours
<1>2. Day(clock') = Day(clock)
  BY <1>1, ClockStep DEF Tick
<1>3. PICK d : d = Day(clock) - 1
  OBVIOUS
<1>4. d \in Int /\ d < Day(clock)
  BY <1>1, <1>3
<1>5. InDay(InFlight, d)' = {} /\ DayExact(d)'
  <2>1. CASE "daily" \in onTime
    <3>1. InDay(InFlight, d) = {} /\ DayExact(d)
      BY <1>3, <2>1 DEF OnTimeInv
    <3> QED BY <1>1, <1>4, <3>1, DaySettled, DayStaysExact
  <2>2. CASE "daily" \notin onTime
    <3>1. PICK w \in Workers : CommitDaily(w) /\ worker[w].target = Day(clock) - 1
                               /\ InDay(InFlight, Day(clock) - 1) = {}
      <4>1. ASSUME NEW w \in Workers, WorkerStep(w) \/ StartHourly(w) \/ StartDaily(w) \/ FailRun(w)
            PROVE  CommitDaily(w) /\ worker[w].target = Day(clock) - 1
                     /\ InDay(InFlight, Day(clock) - 1) = {}
        BY <2>2, <4>1 DEF StartHourly, StartDaily, FailRun, WorkerStep, ReadHour, ReadDay,
                          SnapshotDay, CommitHourly, CommitDaily, CleanupOldClicks
      <4>2. ASSUME NEW c \in Clicks, Stamp(c) \/ ClickStep(c) \/ LoseClick(c)
            PROVE  FALSE
        BY <2>2, <4>2 DEF Stamp, ClickStep, InsertClick, CommitClick, LoseClick
      <4>3. ~ UNCHANGED vars /\ ~ Tick
        BY <2>2 DEF vars, Tick
      <4> QED BY <1>1, <4>1, <4>2, <4>3 DEF Next
    <3>2. d = worker[w].target /\ InDay(InFlight, d) = {}
      BY <1>3, <3>1
    <3> QED BY <1>1, <1>4, <3>1, <3>2, DaySettled, CommitMakesDayExact
  <2> QED BY <2>1, <2>2
<1>6. d = Day(clock') - 1
  BY <1>2, <1>3
<1>7. InDay(InFlight, d)' = InDay(InFlight, Day(clock) - 1)' /\ DayExact(d)' = DayExact(Day(clock) - 1)'
  BY <1>6 DEF InDay, InFlight, DayExact, ClicksIn, UserDay, EverLogged
<1> QED BY <1>5, <1>7

(* A period that is over with the one after it has been rolled up.         *)
LEMMA HoursClosed ==
  ASSUME IndInv, ExactInv, OnTimeInv, ClosedPeriodsExact, [Next /\ Timely]_vars,
         NEW h \in 0..(clock' - 2)
  PROVE  HourExact(h)'
<1>1. clock \in Nat /\ clock' \in Nat /\ [Next]_vars
  BY ClockStep DEF IndInv, TypeOK, Hours
<1>2. CASE h \in 0..(clock - 2)
  <2>1. HourExact(h) /\ h \in Int /\ h < clock
    BY <1>1, <1>2 DEF ClosedPeriodsExact
  <2>2. InHour(InFlight, h) = {}
    BY <1>1, <1>2 DEF OnTimeInv, InHour
  <2> QED BY <1>1, <2>1, <2>2, HourStaysExact
<1>3. CASE h \notin 0..(clock - 2)
  <2>1. clock' = clock + 1 /\ h = clock - 1 /\ clock >= 1 /\ Tick
    <3>1. clock' # clock
      BY <1>1, <1>3
    <3>2. Tick /\ clock' = clock + 1
      BY <1>1, <3>1, ClockStep DEF Tick
    <3> QED BY <1>1, <1>3, <3>2
  <2>2. "hourly" \in onTime
    BY <1>1, <2>1 DEF Timely, vars
  <2>3. InHour(InFlight, h) = {} /\ HourExact(h)
    BY <2>1, <2>2 DEF OnTimeInv
  <2>4. h \in Int /\ h < clock
    BY <1>1, <2>1
  <2> QED BY <1>1, <2>3, <2>4, HourStaysExact
<1> QED BY <1>2, <1>3

LEMMA DaysClosed ==
  ASSUME IndInv, ExactInv, OnTimeInv, ClosedPeriodsExact, [Next /\ Timely]_vars,
         NEW d \in 0..(Day(clock') - 2)
  PROVE  DayExact(d)'
<1>1. PICK e : e = Day(clock)
  OBVIOUS
<1>2. clock \in Nat /\ clock' \in Nat /\ [Next]_vars /\ e \in Nat
  BY <1>1, ClockStep, DayBounds DEF IndInv, TypeOK, Hours
<1>3. CASE d \in 0..(e - 2)
  <2>1. DayExact(d) /\ d \in Int /\ d < Day(clock)
    BY <1>1, <1>2, <1>3 DEF ClosedPeriodsExact
  <2>2. ASSUME NEW c \in InFlight PROVE Day(click[c].hour) # d
    <3>1. PICK h : h = click[c].hour
      OBVIOUS
    <3>2. h \in Nat /\ h >= clock - 1
      BY <3>1 DEF OnTimeInv, IndInv, TypeOK, InFlight, Hours
    <3>3. CASE clock = 0
      BY <1>1, <1>2, <1>3, <3>3, DayGrows, DayBounds, TimeAssumption DEF Day
    <3>4. CASE clock >= 1
      <4>1. PICK g : g = clock - 1
        OBVIOUS
      <4>2. g \in Nat /\ g + 1 = clock /\ g <= h
        BY <1>2, <3>2, <3>4, <4>1
      <4>3. e \in {Day(g), Day(g) + 1} /\ Day(g) \in Nat
        BY <1>1, <4>2, DayNext, DayBounds
      <4>4. Day(g) <= Day(h) /\ Day(h) \in Nat
        BY <3>2, <4>2, DayGrows, DayBounds
      <4> QED BY <1>2, <1>3, <3>1, <4>3, <4>4
    <3> QED BY <1>2, <3>3, <3>4
  <2>3. InDay(InFlight, d) = {}
    BY <2>2 DEF InDay
  <2> QED BY <1>2, <2>1, <2>3, DayStaysExact
<1>4. CASE d \notin 0..(e - 2)
  <2>1. Tick /\ clock' = clock + 1
    <3>1. clock' # clock
      BY <1>1, <1>4
    <3> QED BY <3>1, <1>2, ClockStep DEF Tick
  <2>2. Day(clock') \in {e, e + 1}
    BY <1>1, <1>2, <2>1, DayNext
  <2>3. Day(clock') = e + 1 /\ d = e - 1 /\ e >= 1
    BY <1>2, <1>4, <2>2
  <2>4. "daily" \in onTime
    <3>1. Timely
      BY <2>1, <1>2 DEF vars
    <3> QED BY <1>1, <1>2, <2>1, <2>3, <3>1 DEF Timely
  <2>5. InDay(InFlight, d) = {} /\ DayExact(d)
    BY <1>1, <2>3, <2>4 DEF OnTimeInv
  <2>6. d \in Int /\ d < Day(clock)
    BY <1>1, <1>2, <2>3
  <2> QED BY <1>2, <2>5, <2>6, DayStaysExact
<1> QED BY <1>3, <1>4

LEMMA OnTimeStep ==
  IndInv /\ ExactInv /\ OnTimeInv /\ ClosedPeriodsExact /\ [Next /\ Timely]_vars
    => OnTimeInv' /\ ClosedPeriodsExact'
<1> SUFFICES ASSUME IndInv, ExactInv, OnTimeInv, ClosedPeriodsExact, [Next /\ Timely]_vars
             PROVE  OnTimeInv' /\ ClosedPeriodsExact'
  OBVIOUS
<1>1. OnTimeInv'
  BY FlightStep, HourlyOnTime, DailyOnTime DEF OnTimeInv
<1>2. ClosedPeriodsExact'
  BY HoursClosed, DaysClosed DEF ClosedPeriodsExact
<1> QED BY <1>1, <1>2

LEMMA OnTimeInit == Init => OnTimeInv /\ ClosedPeriodsExact
<1> SUFFICES ASSUME Init PROVE OnTimeInv /\ ClosedPeriodsExact
  OBVIOUS
<1>1. InFlight = {} /\ clock = 0 /\ onTime = {}
  BY DEF Init, InFlight
<1>2. Day(0) = 0
  BY TimeAssumption DEF Day
<1>3. 0..(clock - 2) = {} /\ 0..(Day(clock) - 2) = {}
  BY <1>1, <1>2
<1> QED BY <1>1, <1>3 DEF OnTimeInv, ClosedPeriodsExact

(* With the tickers on time, and retention clear of what they read, every  *)
(* hour and every day that is over with the one after it has been rolled   *)
(* up click for click, whichever of its clicks have been deleted since.    *)
THEOREM NothingMissed == TimelySpec /\ []RetentionClear => []ClosedPeriodsExact
<1>1. [Next /\ Timely]_vars => [Next]_vars
  OBVIOUS
<1>2. TimelySpec => Spec
  BY <1>1, PTL DEF TimelySpec, Spec
<1>3. Spec /\ []RetentionClear => []ExactInv
  BY ExactInit, ExactStep, RunsFit, PTL DEF Spec
<1> QED BY <1>2, <1>3, OnTimeInit, OnTimeStep, RunsFit, PTL DEF TimelySpec

(* One worker on time misses nothing, with no condition on how its runs    *)
(* fall: it is what the deployment of one server process gives.            *)
THEOREM OneWorkerMissesNothing ==
  ASSUME \A u, v \in Workers : u = v, Retention >= 2 * HoursPerDay - 1
  PROVE  /\ TimelySpec => []ClosedPeriodsExact
         /\ Spec => []WatermarkExact
         /\ Spec => RollupsGrow
<1>1. [Next /\ Timely]_vars => [Next]_vars
  OBVIOUS
<1>2. TimelySpec => Spec
  BY <1>1, PTL DEF TimelySpec, Spec
<1>3. Spec => []RetentionClear
  BY OneWorkerClear
<1>4. TimelySpec => []ClosedPeriodsExact
  BY <1>2, <1>3, NothingMissed, PTL
<1>5. Spec => []WatermarkExact
  BY <1>3, WatermarksExact, PTL
<1>6. Spec => RollupsGrow
  BY <1>3, RollupsOnlyGrow, PTL
<1> QED BY <1>4, <1>5, <1>6
=============================================================================
