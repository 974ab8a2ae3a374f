----------------------------- MODULE Reads_proof -----------------------------
(***************************************************************************)
(* Proofs about Reads, for any number of clicks and links and any page     *)
(* sizes: the order and the completeness of a pass over the event feed,    *)
(* and the numbers of a dashboard page.                                    *)
(***************************************************************************)
EXTENDS Reads, Ranking, SequenceTheorems, TLAPS

------------------------------------------------------------------------------
(* ORDER BY: InOrder lists every id of a finite set once, the least first. *)
LEMMA Sorted ==
  ASSUME NEW S, \A x \in S : x \in Int, IsFiniteSet(S), NEW s, s = InOrder(S), NEW n, n = Cardinality(S)
  PROVE  /\ n \in Nat /\ s \in [1..n -> S]
         /\ \A i, j \in 1..n : i < j => s[i] < s[j]
         /\ \A x \in S : \E i \in 1..n : s[i] = x
<1>1. PICK R : \A x, y \in S : <<x, y>> \in R <=> x < y
  <2> DEFINE less == {p \in S \X S : p[1] < p[2]}
  <2>1. \A x, y \in S : <<x, y>> \in less <=> x < y
    OBVIOUS
  <2> QED BY <2>1
<1>2. Orders(R, S)
  BY <1>1 DEF Orders
<1>3. \A x \in S : Before(S, x) = Rank(R, S, x)
  <2> TAKE x \in S
  <2>1. {k \in S : k < x} = Below(R, S, x)
    BY <1>1 DEF Below
  <2> QED BY <2>1 DEF Before, Rank
<1>4. n \in Nat
  BY FS_CardinalityType
<1>5. ASSUME NEW i \in 1..n PROVE s[i] \in S /\ Rank(R, S, s[i]) = i - 1
  <2>1. PICK r \in 0..Cardinality(S) - 1 : r = i - 1
    BY <1>4
  <2>2. PICK x \in S : Rank(R, S, x) = r
    BY <1>2, RankOnto
  <2>3. Before(S, x) = i - 1
    BY <1>3, <2>1, <2>2
  <2>4. s[i] = CHOOSE id \in S : Before(S, id) = i - 1
    BY DEF InOrder
  <2>5. s[i] \in S /\ Before(S, s[i]) = i - 1
    BY <2>3, <2>4
  <2> QED BY <1>3, <2>5
<1>6. s \in [1..n -> S]
  BY <1>5 DEF InOrder
<1>7. ASSUME NEW i \in 1..n, NEW j \in 1..n, i < j
      PROVE  s[i] < s[j]
  <2>1. PICK x \in S, y \in S : x = s[i] /\ y = s[j]
    BY <1>5
  <2>2. Rank(R, S, x) = i - 1 /\ Rank(R, S, y) = j - 1
    BY <1>5, <2>1
  <2>3. y < x => FALSE
    <3>1. y < x => Rank(R, S, y) < Rank(R, S, x)
      BY <1>1, <1>2, RankGrows
    <3> QED BY <1>4, <1>7, <2>2, <3>1
  <2>4. x # y
    BY <1>4, <1>7, <2>2
  <2> QED BY <2>1, <2>3, <2>4
<1>8. ASSUME NEW x \in S PROVE \E i \in 1..n : s[i] = x
  <2>1. PICK r : r = Rank(R, S, x)
    OBVIOUS
  <2>2. r \in Nat /\ r < n
    BY <1>2, <2>1, RankType
  <2>3. r + 1 \in 1..n /\ (r + 1) - 1 = r
    BY <1>4, <2>2
  <2>4. PICK y \in S : y = s[r + 1] /\ Rank(R, S, y) = r
    BY <1>5, <2>3
  <2>5. y = x
    BY <1>2, <2>1, <2>4, RankInjective
  <2> QED BY <2>3, <2>4, <2>5
<1> QED BY <1>4, <1>6, <1>7, <1>8

(* LIMIT: what is left out comes after all that is there.                  *)
LEMMA Limited ==
  ASSUME NEW S, \A x \in S : x \in Int, IsFiniteSet(S), NEW n \in Nat \ {0}, NEW T, T = First(S, n)
  PROVE  /\ T \in SUBSET S /\ IsFiniteSet(T)
         /\ S # {} => T # {}
         /\ \A x \in T : \A y \in S : y < x => y \in T
<1>1. PICK R : \A x, y \in S : <<x, y>> \in R <=> x < y
  <2> DEFINE less == {p \in S \X S : p[1] < p[2]}
  <2>1. \A x, y \in S : <<x, y>> \in less <=> x < y
    OBVIOUS
  <2> QED BY <2>1
<1>2. Orders(R, S)
  BY <1>1 DEF Orders
<1>3. \A x \in S : Before(S, x) = Rank(R, S, x)
  <2> TAKE x \in S
  <2>1. {k \in S : k < x} = Below(R, S, x)
    BY <1>1 DEF Below
  <2> QED BY <2>1 DEF Before, Rank
<1>4. T = {x \in S : Rank(R, S, x) < n}
  BY <1>3 DEF First
<1>5. T \in SUBSET S /\ IsFiniteSet(T)
  BY <1>4, FS_Subset
<1>6. S # {} => T # {}
  <2> SUFFICES ASSUME S # {} PROVE T # {}
    OBVIOUS
  <2>1. PICK r \in 0..Cardinality(S) - 1 : r = 0
    BY FS_CardinalityType, FS_EmptySet
  <2>2. PICK x \in S : Rank(R, S, x) = r
    BY <1>2, RankOnto
  <2> QED BY <1>4, <2>1, <2>2
<1>7. ASSUME NEW x \in T, NEW y \in S, y < x
      PROVE  y \in T
  <2>1. x \in S /\ Rank(R, S, x) < n
    BY <1>4
  <2>2. Rank(R, S, x) \in Nat /\ Rank(R, S, y) \in Nat
    BY <1>2, <2>1, RankType
  <2>3. Rank(R, S, y) < Rank(R, S, x)
    BY <1>1, <1>2, <1>7, <2>1, RankGrows
  <2> QED BY <1>4, <2>1, <2>2, <2>3
<1> QED BY <1>5, <1>6, <1>7

(* What APIHistory returns: rows after the cursor, in order; and all of    *)
(* them up to the last.                                                    *)
LEMMA PageOfEvents ==
  ASSUME TypeOK, NEW limit \in Limits, NEW s, s = APIHistory(feed.after, limit)
  PROVE  /\ s \in Seq(RowsAfter(feed.after)) /\ DOMAIN s = 1..Len(s) /\ Len(s) \in Nat
         /\ \A i, j \in DOMAIN s : i < j => s[i] < s[j]
         /\ s = << >> <=> RowsAfter(feed.after) = {}
         /\ s # << >> => /\ Len(s) \in DOMAIN s /\ Last(s) = s[Len(s)]
                         /\ \A x \in RowsAfter(feed.after) : x <= Last(s) => x \in Range(s)
<1> DEFINE of == [c \in InState("logged") |-> click[c].id]
<1>1. PICK S, n, T : /\ S = RowsAfter(feed.after) /\ n = PageSize(limit)
                     /\ T = First(S, n)
  OBVIOUS
<1>2. IsFiniteSet(IdsIn("logged"))
  <2>1. IsFiniteSet(InState("logged"))
    BY TablesAssumption, FS_Subset DEF InState
  <2>2. of \in Surjection(InState("logged"), IdsIn("logged"))
    BY DEF Surjection, IdsIn
  <2> QED BY <2>1, <2>2, FS_Surjection
<1>3. IdsIn("logged") \in SUBSET Int
  BY DEF IdsIn, InState, TypeOK
<1>4. S \in SUBSET Int /\ IsFiniteSet(S)
  BY <1>1, <1>2, <1>3, FS_Subset DEF RowsAfter
<1>5. n \in Nat \ {0}
  BY <1>1, LimitsAssumption DEF PageSize
<1>6. /\ T \in SUBSET S /\ IsFiniteSet(T) /\ T \in SUBSET Int
      /\ S # {} => T # {}
      /\ \A x \in T : \A y \in S : y < x => y \in T
  BY <1>1, <1>4, <1>5, Limited
<1>7. PICK m : m = Cardinality(T)
  OBVIOUS
<1>8. s = InOrder(T)
  BY <1>1 DEF APIHistory
<1>9. /\ m \in Nat /\ s \in [1..m -> T]
      /\ \A i, j \in 1..m : i < j => s[i] < s[j]
      /\ \A x \in T : \E i \in 1..m : s[i] = x
  <2>1. (\A x \in T : x \in Int) /\ IsFiniteSet(T)
    BY <1>6
  <2> QED BY <1>7, <1>8, <2>1, Sorted
<1>10. s \in Seq(T) /\ Len(s) = m /\ DOMAIN s = 1..m
  BY <1>9
<1>11. s = << >> <=> T = {}
  <2>1. s = << >> <=> m = 0
    BY <1>9, <1>10
  <2> QED BY <1>6, <1>7, <2>1, FS_EmptySet
<1>12. s \in Seq(S)
  <2>1. s \in [1..m -> S]
    BY <1>6, <1>9
  <2> QED BY <1>9, <2>1
<1>13. ASSUME s # << >> PROVE m \in 1..m /\ \A x \in S : x <= s[m] => x \in Range(s)
  <2>1. m \in 1..m /\ s[m] \in T
    BY <1>6, <1>7, <1>9, <1>10, <1>11, <1>13
  <2>2. ASSUME NEW x \in S, x <= s[m] PROVE x \in Range(s)
    <3>1. x \in T
      <4>1. PICK y \in T : y = s[m]
        BY <2>1
      <4>2. x \in Int /\ y \in Int
        BY <1>4, <1>6
      <4>3. x = y \/ x < y
        BY <2>2, <4>1, <4>2
      <4> QED BY <1>6, <4>3
    <3> QED BY <1>9, <1>10, <3>1 DEF Range
  <2> QED BY <2>1, <2>2
<1> QED BY <1>1, <1>6, <1>9, <1>10, <1>11, <1>12, <1>13 DEF Last

------------------------------------------------------------------------------
(* The pairs that stand for some counts are as many as there are clicks    *)
(* behind them at most.                                                    *)
LEMMA PairsIn ==
  ASSUME NEW counts, NEW p
  PROVE  p \in Shown(counts) <=> /\ p = <<p[1], p[2]>> /\ p[1] \in DOMAIN counts
                                 /\ p[2] \in 1..counts[p[1]]
BY DEF Shown

LEMMA PairsFit ==
  ASSUME NEW S \in SUBSET Clicks, NEW counts, IsCounts(counts),
         \A l \in DOMAIN counts : counts[l] <= Cardinality({c \in S : LinkOf[c] = l})
  PROVE  IsFiniteSet(Shown(counts)) /\ Cardinality(Shown(counts)) <= Cardinality(S)
<1> DEFINE Of(l) == {c \in S : LinkOf[c] = l}
           Picks(l, g) == /\ g \in [1..counts[l] -> Of(l)]
                          /\ \A i, j \in 1..counts[l] : g[i] = g[j] => i = j
<1>1. IsFiniteSet(S)
  BY TablesAssumption, FS_Subset
<1>2. \A l \in DOMAIN counts : \E g : Picks(l, g)
  <2> TAKE l \in DOMAIN counts
  <2>1. PICK T, n, m : T = Of(l) /\ n = counts[l] /\ m = Cardinality(T)
    OBVIOUS
  <2>2. IsFiniteSet(T)
    BY <1>1, <2>1, FS_Subset
  <2>3. m \in Nat /\ n \in Nat /\ n <= m
    BY <2>1, <2>2, FS_CardinalityType DEF IsCounts
  <2>4. ExistsBijection(1..m, T)
    BY <2>1, <2>2, FS_CardinalityType
  <2>5. PICK b \in [1..m -> T] : \A i, j \in 1..m : b[i] = b[j] => i = j
    BY <2>4 DEF ExistsBijection, Bijection, Injection, IsInjective
  <2>6. PICK g : g = [i \in 1..n |-> b[i]]
    OBVIOUS
  <2>7. g \in [1..n -> T] /\ \A i, j \in 1..n : g[i] = g[j] => i = j
    BY <2>3, <2>5, <2>6
  <2>8. Picks(l, g)
    BY <2>1, <2>7
  <2> QED BY <2>8
<1> DEFINE pick == [l \in DOMAIN counts |-> CHOOSE g : Picks(l, g)]
           f == [p \in Shown(counts) |-> pick[p[1]][p[2]]]
<1>3. \A l \in DOMAIN counts : Picks(l, pick[l])
  BY <1>2
<1>4. ASSUME NEW p \in Shown(counts)
      PROVE  /\ p = <<p[1], p[2]>> /\ p[1] \in DOMAIN counts /\ p[2] \in 1..counts[p[1]]
             /\ f[p] = pick[p[1]][p[2]] /\ f[p] \in S /\ LinkOf[f[p]] = p[1]
  <2>1. p = <<p[1], p[2]>> /\ p[1] \in DOMAIN counts /\ p[2] \in 1..counts[p[1]]
    BY PairsIn
  <2>2. PICK l, i : l = p[1] /\ i = p[2]
    OBVIOUS
  <2>3. f[p] = pick[l][i]
    BY <2>2
  <2>4. pick[l] \in [1..counts[l] -> Of(l)]
    BY <1>3, <2>1, <2>2
  <2>5. pick[l][i] \in Of(l)
    BY <2>1, <2>2, <2>4
  <2> QED BY <2>1, <2>2, <2>3, <2>5
<1>5. ASSUME NEW p \in Shown(counts), NEW q \in Shown(counts), f[p] = f[q]
      PROVE  p = q
  <2>1. p[1] = q[1]
    <3> HIDE DEF f
    <3>1. LinkOf[f[p]] = p[1] /\ LinkOf[f[q]] = q[1]
      BY <1>4
    <3> QED BY <1>5, <3>1
  <2>2. PICK l, i, j : l = p[1] /\ i = p[2] /\ j = q[2]
    OBVIOUS
  <2>3. pick[l][i] = pick[l][j] /\ l \in DOMAIN counts /\ i \in 1..counts[l] /\ j \in 1..counts[l]
    BY <1>4, <1>5, <2>1, <2>2
  <2>4. i = j
    BY <1>3, <2>3
  <2>5. p = <<p[1], p[2]>> /\ q = <<q[1], q[2]>>
    BY PairsIn
  <2>6. p = <<l, i>> /\ q = <<l, j>>
    <3> HIDE DEF f, pick, Picks
    <3> QED BY <2>1, <2>2, <2>5
  <2> QED BY <2>4, <2>6
<1>6. f \in Injection(Shown(counts), S)
  <2>1. f \in [Shown(counts) -> S]
    BY <1>4
  <2> QED BY <1>5, <2>1 DEF Injection, IsInjective
<1> QED BY <1>1, <1>6, FS_Injection

(* The clicks in two states are as many as in the one and in the other.    *)
LEMMA LogCounts ==
  ASSUME TypeOK
  PROVE  /\ \A s : IsFiniteSet(InState(s)) /\ Cardinality(InState(s)) \in Nat
         /\ IsFiniteSet(EverLogged) /\ Cardinality(EverLogged) \in Nat
         /\ Cardinality(EverLogged) = Cardinality(InState("logged")) + Cardinality(InState("purged"))
         /\ Cardinality(IdsIn("logged")) = Cardinality(InState("logged"))
<1>1. ASSUME NEW s PROVE IsFiniteSet(InState(s)) /\ Cardinality(InState(s)) \in Nat
  <2>1. InState(s) \in SUBSET Clicks
    BY DEF InState
  <2> QED BY <2>1, TablesAssumption, FS_Subset, FS_CardinalityType
<1>2. PICK L, P : L = InState("logged") /\ P = InState("purged")
  OBVIOUS
<1>3. IsFiniteSet(L) /\ IsFiniteSet(P) /\ Cardinality(L) \in Nat /\ Cardinality(P) \in Nat
  BY <1>1, <1>2
<1>4. L \cap P = {} /\ EverLogged = L \cup P
  BY <1>2 DEF InState, EverLogged
<1>5. IsFiniteSet(L \cup P) /\ Cardinality(L \cup P) = Cardinality(L) + Cardinality(P)
  BY <1>3, <1>4, FS_Union, FS_EmptySet
<1>6. Cardinality(IdsIn("logged")) = Cardinality(L)
  <2> DEFINE of == [c \in L |-> click[c].id]
  <2>1. of \in Surjection(L, IdsIn("logged"))
    BY <1>2 DEF Surjection, IdsIn
  <2>2. \A c, d \in L : of[c] = of[d] => c = d
    BY <1>2 DEF InState, TypeOK
  <2>3. of \in Injection(L, IdsIn("logged"))
    BY <2>1, <2>2 DEF Surjection, Injection, IsInjective
  <2> QED BY <1>3, <2>1, <2>3, FS_Surjection
<1> QED BY <1>1, <1>2, <1>3, <1>4, <1>5, <1>6

------------------------------------------------------------------------------
Became(c, state, id) == click'[c].state = state /\ click'[c].id = id

(* The steps of a click, whoever takes them.                               *)
ClickMove(c) ==
  \/ click'[c] = click[c]
  \/ click[c].state = "new" /\ Became(c, "inserted", nextId) /\ nextId' = nextId + 1
  \/ click[c].state = "inserted" /\ Became(c, "logged", click[c].id)
  \/ click[c].state = "inserted" /\ Became(c, "lost", click[c].id)
  \/ click[c].state = "logged" /\ Became(c, "purged", click[c].id)

LEMMA ClickMoves ==
  ASSUME TypeOK, [Next]_vars
  PROVE  /\ nextId' \in {nextId, nextId + 1}
         /\ click' \in [Clicks -> [state : States, id : 0..(nextId' - 1)]]
         /\ \A c \in Clicks : ClickMove(c)
         /\ \A c, d \in Clicks : click'[c].id = click'[d].id /\ click'[c].id # 0 => c = d
<1>1. /\ nextId \in Nat \ {0} /\ click \in [Clicks -> [state : States, id : 0..(nextId - 1)]]
      /\ \A c, d \in Clicks : click[c].id = click[d].id /\ click[c].id # 0 => c = d
  BY DEF TypeOK
<1>2. CASE click' = click /\ nextId' = nextId
  BY <1>1, <1>2 DEF ClickMove
<1>3. ASSUME NEW c \in Clicks, InsertClick(c)
      PROVE  /\ nextId' = nextId + 1
             /\ click' \in [Clicks -> [state : States, id : 0..(nextId' - 1)]]
             /\ \A b \in Clicks : ClickMove(b)
             /\ \A b, d \in Clicks : click'[b].id = click'[d].id /\ click'[b].id # 0 => b = d
  <2>1. /\ click[c].state = "new" /\ nextId' = nextId + 1
        /\ click' = [click EXCEPT ![c] = [state |-> "inserted", id |-> nextId]]
    BY <1>3 DEF InsertClick
  <2>2. click \in [Clicks -> [state : States, id : 0..(nextId' - 1)]]
    BY <1>1, <2>1
  <2>3. nextId \in 0..(nextId' - 1)
    BY <1>1, <2>1
  <2>4. [state |-> "inserted", id |-> nextId] \in [state : States, id : 0..(nextId' - 1)]
    BY <2>3 DEF States
  <2>5. click' \in [Clicks -> [state : States, id : 0..(nextId' - 1)]]
    BY <2>1, <2>2, <2>4
  <2>6. click'[c].state = "inserted" /\ click'[c].id = nextId
    BY <1>1, <2>1
  <2>7. \A b \in Clicks \ {c} : click'[b] = click[b] /\ click[b].id \in 0..(nextId - 1)
    BY <1>1, <2>1
  <2>8. \A b \in Clicks : ClickMove(b)
    BY <2>1, <2>6, <2>7 DEF ClickMove, Became
  <2>9. \A b \in Clicks \ {c} : click'[b].id # nextId
    BY <1>1, <2>7
  <2>10. \A b, d \in Clicks : click'[b].id = click'[d].id /\ click'[b].id # 0 => b = d
    BY <1>1, <2>6, <2>7, <2>9
  <2> QED BY <2>1, <2>5, <2>8, <2>10
<1>4. ASSUME NEW c \in Clicks, CommitClick(c) \/ LoseClick(c)
      PROVE  /\ nextId' = nextId
             /\ click' \in [Clicks -> [state : States, id : 0..(nextId - 1)]]
             /\ \A b \in Clicks : ClickMove(b) /\ click'[b].id = click[b].id
  BY <1>1, <1>4 DEF CommitClick, LoseClick, ClickMove, Became, States
<1>5. ASSUME CleanupOldClicks
      PROVE  /\ nextId' = nextId
             /\ click' \in [Clicks -> [state : States, id : 0..(nextId - 1)]]
             /\ \A b \in Clicks : ClickMove(b) /\ click'[b].id = click[b].id
  <2>1. PICK old \in SUBSET InState("logged") :
          /\ nextId' = nextId
          /\ click' = [c \in Clicks |-> IF c \in old THEN [click[c] EXCEPT !.state = "purged"]
                                                     ELSE click[c]]
    BY <1>5 DEF CleanupOldClicks
  <2>2. ASSUME NEW c \in Clicks
        PROVE  /\ click'[c] \in [state : States, id : 0..(nextId - 1)]
               /\ ClickMove(c) /\ click'[c].id = click[c].id
    <3>1. CASE c \in old
      <4>1. click'[c] = [click[c] EXCEPT !.state = "purged"] /\ click[c].state = "logged"
        BY <2>1, <3>1 DEF InState
      <4> QED BY <1>1, <4>1 DEF ClickMove, Became, States
    <3>2. CASE c \notin old
      <4>1. click'[c] = click[c]
        BY <2>1, <3>2
      <4> QED BY <1>1, <4>1 DEF ClickMove
    <3> QED BY <3>1, <3>2
  <2> QED BY <2>1, <2>2
<1>6. ASSUME NEW l \in Links, DeleteLink(l)
      PROVE  click' = click /\ nextId' = nextId
  BY <1>6 DEF DeleteLink
<1>7. Fetch \/ ReadLinks \/ ReadTotal \/ ReadTop \/ EndPage \/ UNCHANGED vars =>
        click' = click /\ nextId' = nextId
  BY DEF Fetch, FetchPage, FetchEnd, ReadLinks, ReadTotal, ReadTop, EndPage, logVars, vars
<1>8. CASE nextId' = nextId /\ click' \in [Clicks -> [state : States, id : 0..(nextId - 1)]]
           /\ \A b \in Clicks : ClickMove(b) /\ click'[b].id = click[b].id
  BY <1>1, <1>8
<1> QED BY <1>2, <1>3, <1>4, <1>5, <1>6, <1>7, <1>8 DEF Next

(* What a step leaves of the log.                                          *)
LEMMA ClickKeeps ==
  ASSUME TypeOK, [Next]_vars, NEW c \in Clicks
  PROVE  /\ click'[c].state \in {"logged", "lost", "purged"} =>
              /\ click[c].state \in {"inserted", "logged", "lost", "purged"}
              /\ click'[c].id = click[c].id
         /\ click'[c].state = "logged" => click[c].state \in {"inserted", "logged"}
         /\ click'[c].state = "inserted" =>
              \/ click[c].state = "inserted" /\ click'[c].id = click[c].id
              \/ click[c].state = "new" /\ click'[c].id = nextId
         /\ click[c].state \in {"logged", "purged"} => click'[c].state \in {"logged", "purged"}
         /\ click[c].state = "purged" => click'[c].state = "purged"
         /\ click'[c].id = 0 <=> click'[c].state = "new"
<1>1. ClickMove(c)
  BY ClickMoves
<1>2. (click[c].id = 0 <=> click[c].state = "new") /\ nextId # 0
  BY DEF TypeOK
<1> QED BY <1>1, <1>2 DEF ClickMove, Became

(* A commit is counted with its row; nothing else adds to click_count.     *)
LEMMA LinkMoves ==
  ASSUME TypeOK, [Next]_vars
  PROVE  /\ links' \in [Links -> [live : BOOLEAN, clicks : Nat]]
         /\ \A l \in Links : /\ links'[l].live => links[l].live
                             /\ links'[l].clicks >= links[l].clicks
                             /\ \/ links'[l].clicks = links[l].clicks
                                \/ /\ links'[l].clicks = links[l].clicks + 1
                                   /\ \E c \in Clicks : CommitClick(c) /\ LinkOf[c] = l
<1>1. links \in [Links -> [live : BOOLEAN, clicks : Nat]]
  BY DEF TypeOK
<1>2. CASE links' = links
  BY <1>1, <1>2
<1>3. ASSUME NEW c \in Clicks, CommitClick(c)
      PROVE  /\ links' \in [Links -> [live : BOOLEAN, clicks : Nat]]
             /\ \A l \in Links : /\ links'[l].live => links[l].live
                                 /\ links'[l].clicks >= links[l].clicks
                                 /\ \/ links'[l].clicks = links[l].clicks
                                    \/ links'[l].clicks = links[l].clicks + 1 /\ LinkOf[c] = l
  <2>1. PICK k \in Links : k = LinkOf[c]
    BY TablesAssumption
  <2>2. links' = [links EXCEPT ![k].clicks = IF links[k].live THEN links[k].clicks + 1
                                                              ELSE links[k].clicks]
    BY <1>3, <2>1 DEF CommitClick, Counted
  <2>3. \A l \in Links \ {k} : links'[l] = links[l]
    BY <1>1, <2>2
  <2>4. /\ links'[k].live = links[k].live
        /\ links'[k].clicks = IF links[k].live THEN links[k].clicks + 1 ELSE links[k].clicks
    BY <1>1, <2>2
  <2>5. links' \in [Links -> [live : BOOLEAN, clicks : Nat]]
    BY <1>1, <2>2
  <2> QED BY <1>1, <2>1, <2>3, <2>4, <2>5
<1>4. ASSUME NEW l \in Links, DeleteLink(l)
      PROVE  /\ links' \in [Links -> [live : BOOLEAN, clicks : Nat]]
             /\ \A k \in Links : /\ links'[k].live => links[k].live
                                 /\ links'[k].clicks = links[k].clicks
  BY <1>1, <1>4 DEF DeleteLink
<1>5. ASSUME NEW c \in Clicks, InsertClick(c) \/ LoseClick(c)
      PROVE  links' = links
  BY <1>5 DEF InsertClick, LoseClick
<1>6. CleanupOldClicks \/ Fetch \/ ReadLinks \/ ReadTotal \/ ReadTop \/ EndPage \/ UNCHANGED vars
        => links' = links
  BY DEF CleanupOldClicks, Fetch, FetchPage, FetchEnd, ReadLinks, ReadTotal, ReadTop, EndPage,
         logVars, vars
<1>7. CASE \E c \in Clicks : CommitClick(c)
  BY <1>3, <1>7
<1>8. CASE \E l \in Links : DeleteLink(l)
  BY <1>1, <1>4, <1>8
<1>9. \/ links' = links \/ (\E c \in Clicks : CommitClick(c)) \/ (\E l \in Links : DeleteLink(l))
  BY <1>5, <1>6 DEF Next
<1> QED BY <1>2, <1>7, <1>8, <1>9

------------------------------------------------------------------------------
(* The client of the feed.  A page goes on where the last one ended, and   *)
(* leaves out nothing up to where it ends.                                 *)
FeedFits == /\ feed \in [after : 0..(nextId - 1), got : Seq(GivenOut), owed : SUBSET GivenOut]
            /\ seen \subseteq GivenOut /\ PassOrdered /\ CursorFits

LEMMA FetchPageStep ==
  ASSUME TypeOK, PassOrdered, CursorFits, FetchPage
  PROVE  FeedFits'
<1>1. PICK limit \in Limits :
        LET events == APIHistory(feed.after, limit) IN
        /\ events # << >>
        /\ feed' = [after |-> nextAfter(events),
                    got |-> feed.got \o events,
                    owed |-> IF feed.got = << >> THEN IdsIn("logged") ELSE feed.owed]
        /\ seen' = seen \cup Range(events)
  BY DEF FetchPage
<1>2. PICK s : s = APIHistory(feed.after, limit)
  OBVIOUS
<1>3. PICK after, got, owed, rows, n : /\ after = feed.after /\ got = feed.got /\ owed = feed.owed
                                       /\ rows = RowsAfter(feed.after) /\ n = Len(s)
  OBVIOUS
<1>4. /\ s \in Seq(rows) /\ DOMAIN s = 1..n /\ n \in Nat /\ n \in DOMAIN s /\ Last(s) = s[n]
      /\ \A i, j \in 1..n : i < j => s[i] < s[j]
      /\ \A x \in rows : x <= s[n] => x \in Range(s)
  BY <1>1, <1>2, <1>3, PageOfEvents
<1>5. click' = click /\ nextId' = nextId /\ nextId \in Nat \ {0}
  BY DEF FetchPage, logVars, TypeOK
<1>6. /\ after \in 0..(nextId - 1) /\ got \in Seq(GivenOut) /\ owed \subseteq GivenOut
      /\ seen \subseteq GivenOut
  BY <1>3 DEF TypeOK
<1>7. IdsIn("logged") \subseteq GivenOut
  <2> SUFFICES ASSUME NEW c \in Clicks, click[c].state = "logged" PROVE click[c].id \in GivenOut
    BY DEF IdsIn, InState
  <2>1. click[c].id \in 0..(nextId - 1) /\ click[c].id # 0
    BY DEF TypeOK
  <2> QED BY <1>5, <2>1 DEF GivenOut
<1>8. rows = {id \in IdsIn("logged") : id > after}
  BY <1>3 DEF RowsAfter
<1>9. s \in Seq(GivenOut) /\ \A i \in 1..n : s[i] \in GivenOut /\ s[i] > after
  <2>1. s \in [1..n -> rows]
    BY <1>4
  <2>2. s \in [1..n -> GivenOut]
    BY <1>7, <1>8, <2>1
  <2>3. \A i \in 1..n : s[i] > after
    BY <1>8, <2>1
  <2> QED BY <1>4, <2>2, <2>3
<1>10. PICK all, end, due : /\ all = got \o s /\ end = s[n]
                            /\ due = IF got = << >> THEN IdsIn("logged") ELSE owed
  OBVIOUS
<1>11. feed' = [after |-> end, got |-> all, owed |-> due] /\ seen' = seen \cup Range(s)
  BY <1>1, <1>2, <1>3, <1>4, <1>10 DEF nextAfter
<1>12. /\ all \in Seq(GivenOut) /\ Len(all) = Len(got) + n /\ DOMAIN all = 1..(Len(got) + n)
       /\ \A i \in 1..Len(got) : all[i] = got[i]
       /\ \A i \in 1..n : all[Len(got) + i] = s[i]
       /\ \A i \in (Len(got) + 1)..(Len(got) + n) : all[i] = s[i - Len(got)]
       /\ Len(got) \in Nat
  <2>1. Len(got) \in Nat /\ Len(s) = n /\ s \in Seq(GivenOut)
    BY <1>3, <1>6, <1>9
  <2>2. /\ all \in Seq(GivenOut) /\ Len(all) = Len(got) + n
        /\ \A i \in 1..(Len(got) + n) : all[i] = IF i <= Len(got) THEN got[i] ELSE s[i - Len(got)]
    BY <1>6, <1>10, <2>1, ConcatProperties
  <2>3. DOMAIN all = 1..(Len(got) + n)
    BY <2>2
  <2>4. \A i \in 1..Len(got) : all[i] = got[i]
    BY <1>4, <2>1, <2>2
  <2>5. \A i \in (Len(got) + 1)..(Len(got) + n) : all[i] = s[i - Len(got)]
    BY <1>4, <2>1, <2>2
  <2>6. \A i \in 1..n : all[Len(got) + i] = s[i]
    BY <1>4, <2>1, <2>2
  <2> QED BY <2>1, <2>2, <2>3, <2>4, <2>5, <2>6
<1>13. end \in GivenOut /\ end > after /\ \A i \in 1..n : s[i] <= end
  <2>1. n \in 1..n /\ \A i \in 1..n : s[i] \in Int
    BY <1>4, <1>9 DEF GivenOut
  <2>2. \A i \in 1..n : i < n => s[i] < s[n]
    BY <1>4, <2>1
  <2> QED BY <1>4, <1>9, <1>10, <2>1, <2>2
<1>14. \A i \in 1..Len(got) : got[i] <= after /\ got[i] \in GivenOut
  BY <1>3, <1>6 DEF CursorFits
<1>15. \A i, j \in DOMAIN all : i < j => all[i] < all[j]
  <2> SUFFICES ASSUME NEW i \in DOMAIN all, NEW j \in DOMAIN all, i < j PROVE all[i] < all[j]
    OBVIOUS
  <2>1. i \in Nat /\ j \in Nat /\ i >= 1 /\ j <= Len(got) + n
    BY <1>4, <1>12
  <2>2. CASE j <= Len(got)
    <3>1. i \in DOMAIN got /\ j \in DOMAIN got
      BY <1>6, <1>12, <2>1, <2>2
    <3>2. got[i] < got[j]
      BY <1>3, <3>1 DEF PassOrdered
    <3> QED BY <1>6, <1>12, <3>1, <3>2
  <2>3. CASE i <= Len(got) /\ j > Len(got)
    <3>1. i \in 1..Len(got) /\ j - Len(got) \in 1..n /\ j \in (Len(got) + 1)..(Len(got) + n)
      BY <1>4, <1>12, <2>1, <2>3
    <3>2. all[i] = got[i] /\ all[j] = s[j - Len(got)]
      BY <1>12, <3>1
    <3>3. got[i] <= after /\ s[j - Len(got)] > after /\ got[i] \in Int /\ s[j - Len(got)] \in Int
      BY <1>9, <1>14, <3>1 DEF GivenOut
    <3> QED BY <1>6, <3>2, <3>3
  <2>4. CASE i > Len(got) /\ j > Len(got)
    <3>1. /\ i - Len(got) \in 1..n /\ j - Len(got) \in 1..n /\ i - Len(got) < j - Len(got)
          /\ i \in (Len(got) + 1)..(Len(got) + n) /\ j \in (Len(got) + 1)..(Len(got) + n)
      BY <1>4, <1>12, <2>1, <2>4
    <3>2. s[i - Len(got)] < s[j - Len(got)]
      BY <1>4, <3>1
    <3> QED BY <1>12, <3>1, <3>2
  <2> QED BY <1>12, <2>1, <2>2, <2>3, <2>4
<1>16. \A i \in DOMAIN all : all[i] <= end
  <2> SUFFICES ASSUME NEW i \in DOMAIN all PROVE all[i] <= end
    OBVIOUS
  <2>1. CASE i \in 1..Len(got)
    <3>1. all[i] = got[i] /\ got[i] <= after /\ got[i] \in Int /\ end \in Int /\ after \in Int
      BY <1>6, <1>12, <1>13, <1>14, <2>1 DEF GivenOut
    <3> QED BY <1>13, <3>1
  <2>2. CASE i \in (Len(got) + 1)..(Len(got) + n)
    <3>1. i - Len(got) \in 1..n /\ all[i] = s[i - Len(got)]
      BY <1>4, <1>12, <2>2
    <3> QED BY <1>13, <3>1
  <2> QED BY <1>4, <1>12, <2>1, <2>2
<1>17. all # << >>
  BY <1>4, <1>12
<1>18. ASSUME NEW c \in Clicks, click[c].state = "logged", click[c].id \in due, click[c].id <= end
       PROVE  click[c].id \in Range(all)
  <2>1. PICK x : x = click[c].id
    OBVIOUS
  <2>2. x \in IdsIn("logged") /\ x \in Int
    BY <1>7, <1>18, <2>1 DEF IdsIn, InState, GivenOut
  <2>3. CASE x > after
    <3>1. x \in Range(s)
      BY <1>4, <1>8, <1>10, <1>18, <2>1, <2>2, <2>3
    <3>2. PICK i \in 1..n : x = s[i]
      BY <1>4, <3>1 DEF Range
    <3>3. Len(got) + i \in DOMAIN all /\ all[Len(got) + i] = x
      BY <1>4, <1>12, <3>2
    <3> QED BY <2>1, <3>3 DEF Range
  <2>4. CASE x <= after
    <3>1. got # << >>
      <4>1. x # 0 /\ x >= 0
        BY <1>7, <2>2 DEF GivenOut
      <4> QED BY <1>3, <1>6, <2>2, <2>4, <4>1 DEF CursorFits
    <3>2. x \in Range(got)
      BY <1>3, <1>10, <1>18, <2>1, <2>4, <3>1 DEF CursorFits
    <3>3. PICK i \in 1..Len(got) : x = got[i]
      BY <1>6, <3>2 DEF Range
    <3>4. i \in DOMAIN all /\ all[i] = x
      BY <1>4, <1>12, <3>3
    <3> QED BY <2>1, <3>4 DEF Range
  <2> QED BY <1>6, <2>2, <2>3, <2>4
<1>19. \A c \in Clicks : click[c].state = "inserted" => click[c].id \notin due
  <2> SUFFICES ASSUME NEW c \in Clicks, click[c].state = "inserted", click[c].id \in due PROVE FALSE
    OBVIOUS
  <2>1. click[c].id \notin owed
    BY <1>3 DEF CursorFits
  <2>2. click[c].id \in IdsIn("logged")
    BY <1>10, <2>1
  <2>3. PICK d \in Clicks : click[d].state = "logged" /\ click[d].id = click[c].id
    BY <2>2 DEF IdsIn, InState
  <2>4. click[c].id # 0
    BY DEF TypeOK
  <2>5. c = d
    BY <2>3, <2>4 DEF TypeOK
  <2> QED BY <2>3, <2>5
<1>20. due \subseteq GivenOut /\ end \in 0..(nextId - 1) /\ seen \cup Range(s) \subseteq GivenOut
  <2>1. Range(s) \subseteq GivenOut
    BY <1>4, <1>9 DEF Range
  <2>2. end \in 0..(nextId - 1)
    BY <1>5, <1>13 DEF GivenOut
  <2> QED BY <1>6, <1>7, <1>10, <2>1, <2>2
<1>21. GivenOut' = GivenOut
  BY <1>5 DEF GivenOut
<1>22. PassOrdered'
  BY <1>11, <1>15 DEF PassOrdered
<1>23. CursorFits'
  BY <1>5, <1>11, <1>16, <1>17, <1>18, <1>19 DEF CursorFits
<1> QED BY <1>5, <1>11, <1>12, <1>20, <1>21, <1>22, <1>23 DEF FeedFits

(* The end of a pass: there is nothing beyond the cursor.                  *)
LEMMA FetchEndStep ==
  ASSUME TypeOK, CursorFits, FetchEnd
  PROVE  FeedFits' /\ feed.owed \cap IdsIn("logged") \subseteq Range(feed.got)
<1>1. PICK limit \in Limits :
        LET events == APIHistory(feed.after, limit) IN
        events = << >> /\ feed' = [NewPass EXCEPT !.after = nextAfter(events)]
  BY DEF FetchEnd
<1>2. RowsAfter(feed.after) = {}
  BY <1>1, PageOfEvents
<1>3. feed' = NewPass /\ click' = click /\ nextId' = nextId /\ seen' = seen /\ nextId \in Nat \ {0}
  BY <1>1 DEF nextAfter, NewPass, FetchEnd, logVars, TypeOK
<1>4. FeedFits'
  <2>1. NewPass.got = << >> /\ NewPass.after = 0 /\ NewPass.owed = {}
    BY DEF NewPass
  <2>2. NewPass \in [after : 0..(nextId - 1), got : Seq(GivenOut), owed : SUBSET GivenOut]
    BY <1>3 DEF NewPass
  <2>3. GivenOut' = GivenOut /\ seen' \subseteq GivenOut
    BY <1>3 DEF GivenOut, TypeOK
  <2>4. PassOrdered' /\ CursorFits'
    BY <1>3, <2>1 DEF PassOrdered, CursorFits
  <2> QED BY <1>3, <2>2, <2>3, <2>4 DEF FeedFits
<1>5. ASSUME NEW c \in Clicks, click[c].state = "logged", click[c].id \in feed.owed
      PROVE  click[c].id \in Range(feed.got)
  <2>1. click[c].id \in Int /\ feed.after \in Int
    BY DEF TypeOK
  <2>2. ~ (click[c].id > feed.after)
    BY <1>2, <1>5 DEF RowsAfter, IdsIn, InState
  <2>3. click[c].id <= feed.after
    BY <2>1, <2>2
  <2> QED BY <1>5, <2>3 DEF CursorFits
<1>6. feed.owed \cap IdsIn("logged") \subseteq Range(feed.got)
  BY <1>5 DEF IdsIn, InState
<1> QED BY <1>4, <1>6

(* What commits later was not owed; what is deleted is owed no more.       *)
LEMMA FeedKept ==
  ASSUME TypeOK, PassOrdered, CursorFits, [Next]_vars, feed' = feed, seen' = seen
  PROVE  FeedFits'
<1>1. nextId \in Nat \ {0} /\ nextId' \in {nextId, nextId + 1}
  BY ClickMoves DEF TypeOK
<1>2. /\ GivenOut \subseteq GivenOut' /\ nextId \notin GivenOut
      /\ 0..(nextId - 1) \subseteq 0..(nextId' - 1)
  <2>1. PICK n, m : n = nextId /\ m = nextId'
    OBVIOUS
  <2>2. n \in Nat \ {0} /\ (m = n \/ m = n + 1)
    BY <1>1, <2>1
  <2>3. 1..(n - 1) \subseteq 1..(m - 1) /\ 0..(n - 1) \subseteq 0..(m - 1) /\ n \notin 1..(n - 1)
    BY <2>2
  <2> QED BY <2>1, <2>3 DEF GivenOut
<1>3. feed' \in [after : 0..(nextId' - 1), got : Seq(GivenOut'), owed : SUBSET GivenOut']
  <2>1. feed \in [after : 0..(nextId - 1), got : Seq(GivenOut), owed : SUBSET GivenOut]
    BY DEF TypeOK
  <2>2. 0..(nextId - 1) \subseteq 0..(nextId' - 1) /\ Seq(GivenOut) \subseteq Seq(GivenOut')
    BY <1>2
  <2> QED BY <1>2, <2>1, <2>2
<1>4. seen' \subseteq GivenOut'
  BY <1>2 DEF TypeOK
<1>5. PassOrdered'
  BY DEF PassOrdered
<1>6. ASSUME NEW c \in Clicks
      PROVE  /\ click'[c].state = "inserted" => click'[c].id \notin feed.owed
             /\ click'[c].state = "logged" /\ click'[c].id \in feed.owed
                  /\ click'[c].id <= feed.after => click'[c].id \in Range(feed.got)
  <2>1. feed.owed \subseteq GivenOut
    BY DEF TypeOK
  <2>2. click'[c].state = "inserted" => click'[c].id \notin feed.owed
    BY <1>2, <2>1, ClickKeeps DEF CursorFits
  <2>3. click'[c].state = "logged" /\ click'[c].id \in feed.owed => click[c].state = "logged"
    BY ClickKeeps DEF CursorFits
  <2> QED BY <2>2, <2>3, ClickKeeps DEF CursorFits
<1>7. CursorFits'
  BY <1>6 DEF CursorFits
<1> QED BY <1>3, <1>4, <1>5, <1>7 DEF FeedFits

LEMMA FeedStep ==
  ASSUME TypeOK, PassOrdered, CursorFits, [Next]_vars
  PROVE  FeedFits'
<1>1. CASE Fetch
  BY <1>1, FetchPageStep, FetchEndStep DEF Fetch
<1>2. CASE ~ Fetch
  <2>1. UNCHANGED vars \/ CleanupOldClicks \/ ReadLinks \/ ReadTotal \/ ReadTop \/ EndPage
          => feed' = feed /\ seen' = seen
    BY DEF vars, feedVars, CleanupOldClicks, ReadLinks, ReadTotal, ReadTop, EndPage
  <2>2. ASSUME NEW c \in Clicks, InsertClick(c) \/ CommitClick(c) \/ LoseClick(c)
        PROVE  feed' = feed /\ seen' = seen
    BY <2>2 DEF feedVars, InsertClick, CommitClick, LoseClick
  <2>3. ASSUME NEW l \in Links, DeleteLink(l)
        PROVE  feed' = feed /\ seen' = seen
    BY <2>3 DEF feedVars, DeleteLink
  <2>4. feed' = feed /\ seen' = seen
    BY <1>2, <2>1, <2>2, <2>3 DEF Next
  <2> QED BY <2>4, FeedKept
<1> QED BY <1>1, <1>2

------------------------------------------------------------------------------
(* The log only gains clicks, counting those that retention takes; so do   *)
(* those that it has taken.                                                *)
LEMMA LogGrows ==
  ASSUME TypeOK, [Next]_vars
  PROVE  /\ EverLogged \subseteq EverLogged' /\ EverLogged' \subseteq Clicks
         /\ Cardinality(EverLogged) \in Nat /\ Cardinality(EverLogged') \in Nat
         /\ Cardinality(EverLogged) <= Cardinality(EverLogged')
         /\ Cardinality(InState("purged")) \in Nat /\ Cardinality(InState("purged")') \in Nat
         /\ Cardinality(InState("purged")) <= Cardinality(InState("purged")')
<1>1. PICK S, T, P, Q : /\ S = EverLogged /\ T = EverLogged'
                        /\ P = InState("purged") /\ Q = InState("purged")'
  OBVIOUS
<1>2. S \in SUBSET T /\ T \in SUBSET Clicks /\ P \in SUBSET Q /\ Q \in SUBSET Clicks
  BY <1>1, ClickKeeps DEF EverLogged, InState
<1>3. IsFiniteSet(T) /\ IsFiniteSet(Q)
  BY <1>2, TablesAssumption, FS_Subset
<1>4. /\ IsFiniteSet(S) /\ Cardinality(S) <= Cardinality(T)
      /\ IsFiniteSet(P) /\ Cardinality(P) <= Cardinality(Q)
  BY <1>2, <1>3, FS_Subset
<1> QED BY <1>1, <1>2, <1>3, <1>4, FS_CardinalityType

(* click_count never runs ahead of the log.                                *)
LEMMA CountStep ==
  ASSUME TypeOK, [Next]_vars, NEW l \in Links,
         links[l].clicks <= Cardinality({c \in EverLogged : LinkOf[c] = l})
  PROVE  links'[l].clicks <= Cardinality({c \in EverLogged' : LinkOf[c] = l})
<1>1. PICK S, T : S = {c \in EverLogged : LinkOf[c] = l} /\ T = {c \in EverLogged' : LinkOf[c] = l}
  OBVIOUS
<1>2. S \in SUBSET T /\ T \in SUBSET Clicks
  BY <1>1, LogGrows
<1>3. IsFiniteSet(T)
  BY <1>2, TablesAssumption, FS_Subset
<1>4. IsFiniteSet(S) /\ Cardinality(S) <= Cardinality(T)
  BY <1>2, <1>3, FS_Subset
<1>5. Cardinality(S) \in Nat /\ Cardinality(T) \in Nat
  BY <1>3, <1>4, FS_CardinalityType
<1>6. links[l].clicks \in Nat /\ links[l].clicks <= Cardinality(S)
  BY <1>1 DEF TypeOK
<1>7. CASE links'[l].clicks = links[l].clicks
  BY <1>1, <1>4, <1>5, <1>6, <1>7
<1>8. ASSUME NEW c \in Clicks, CommitClick(c), LinkOf[c] = l, links'[l].clicks = links[l].clicks + 1
      PROVE  links'[l].clicks <= Cardinality(T)
  <2>1. click[c].state = "inserted" /\ click'[c].state = "logged"
    BY <1>8 DEF CommitClick, TypeOK
  <2>2. c \notin S /\ c \in T
    BY <1>1, <1>8, <2>1 DEF EverLogged, InState
  <2>3. S \cup {c} \in SUBSET T
    BY <1>2, <2>2
  <2>4. Cardinality(S \cup {c}) = Cardinality(S) + 1
    BY <1>4, <2>2, FS_AddElement
  <2>5. Cardinality(S \cup {c}) <= Cardinality(T)
    BY <1>3, <2>3, FS_Subset
  <2> QED BY <1>5, <1>6, <1>8, <2>4, <2>5
<1> QED BY <1>1, <1>7, <1>8, LinkMoves

------------------------------------------------------------------------------
(* The dashboard.                                                          *)
LEMMA PageMoves ==
  ASSUME [Next]_vars
  PROVE  page' = page \/ ReadLinks \/ ReadTotal \/ ReadTop \/ EndPage
<1>1. UNCHANGED vars \/ CleanupOldClicks \/ Fetch => page' = page
  BY DEF vars, CleanupOldClicks, Fetch, FetchPage, FetchEnd
<1>2. ASSUME NEW c \in Clicks, InsertClick(c) \/ CommitClick(c) \/ LoseClick(c)
      PROVE  page' = page
  BY <1>2 DEF InsertClick, CommitClick, LoseClick
<1>3. ASSUME NEW l \in Links, DeleteLink(l)
      PROVE  page' = page
  BY <1>3 DEF DeleteLink
<1> QED BY <1>1, <1>2, <1>3 DEF Next

(* What is left out of the top list has no more clicks than what is on it. *)
LEMMA TopIsTop ==
  ASSUME TypeOK, NEW k \in Top, NEW l \in Live \ Top
  PROVE  links[l].clicks <= links[k].clicks
<1>1. \A j \in Links : j \in Nat /\ links[j].clicks \in Nat
  BY TablesAssumption DEF TypeOK
<1>2. PICK S : S = Live
  OBVIOUS
<1>3. IsFiniteSet(S) /\ \A j \in S : j \in Links
  BY <1>2, TablesAssumption, FS_Subset DEF Live
<1>4. PICK R : \A i, j \in S : <<i, j>> \in R <=> Above(i, j)
  <2> DEFINE above == {p \in S \X S : Above(p[1], p[2])}
  <2>1. \A i, j \in S : <<i, j>> \in above <=> Above(i, j)
    OBVIOUS
  <2> QED BY <2>1
<1>5. Orders(R, S)
  <2>1. \A i, j \in S : <<i, j>> \in R <=> \/ links[i].clicks > links[j].clicks
                                           \/ links[i].clicks = links[j].clicks /\ i < j
    BY <1>4 DEF Above
  <2> QED BY <1>1, <1>3, <2>1 DEF Orders
<1>6. \A j \in S : Cardinality({i \in Live : Above(i, j)}) = Rank(R, S, j)
  <2> TAKE j \in S
  <2>1. {i \in Live : Above(i, j)} = Below(R, S, j)
    BY <1>2, <1>4 DEF Below
  <2> QED BY <2>1 DEF Rank
<1>7. k \in S /\ l \in S /\ Rank(R, S, k) < TopLimit /\ ~ (Rank(R, S, l) < TopLimit)
  BY <1>2, <1>6 DEF Top
<1>8. Rank(R, S, k) \in Nat /\ Rank(R, S, l) \in Nat
  BY <1>3, <1>5, <1>7, RankType
<1>9. <<l, k>> \in R => FALSE
  <2>1. <<l, k>> \in R => Rank(R, S, l) < Rank(R, S, k)
    BY <1>3, <1>5, <1>7, RankGrows
  <2> QED BY <1>7, <1>8, <2>1, LimitsAssumption
<1>10. Above(k, l)
  BY <1>4, <1>5, <1>7, <1>9 DEF Orders
<1> QED BY <1>1, <1>3, <1>7, <1>10 DEF Above

(* Each statement reads within what is there.                              *)
IsPage(p) == /\ p \in [pc : {"idle", "total", "top", "done"}, total : Nat,
                       cards : {p.cards}, top : {p.top}]
             /\ IsCounts(p.cards) /\ IsCounts(p.top)

LEMMA NoPageFits == IsPage(NoPage) /\ NoPage.pc = "idle" /\ Shown(NoPage.cards) = {}
                      /\ DOMAIN NoPage.cards = {}
<1>1. PICK none : none = NoCounts
  OBVIOUS
<1>2. DOMAIN none = {}
  BY <1>1 DEF NoCounts
<1>3. IsCounts(none) /\ Shown(none) = {}
  BY <1>2 DEF IsCounts, Shown
<1>4. NoPage = [pc |-> "idle", cards |-> none, total |-> 0, top |-> none]
  BY <1>1 DEF NoPage
<1> HIDE DEF NoPage
<1> QED BY <1>2, <1>3, <1>4 DEF IsPage

LEMMA ReadLinksStep ==
  ASSUME IndInv, ReadLinks
  PROVE  IsPage(page') /\ CountsFit' /\ PageFits'
<1>1. PICK cards : cards = CountsOf(Live)
  OBVIOUS
<1>2. DOMAIN cards = Live /\ \A l \in Live : l \in Links /\ cards[l] = links[l].clicks
  BY <1>1 DEF CountsOf, Live
<1>3. IsCounts(cards)
  BY <1>2 DEF IsCounts, IndInv, TypeOK
<1>4. PICK S : S = EverLogged
  OBVIOUS
<1>5. S \in SUBSET Clicks /\ \A l \in DOMAIN cards : cards[l] <= Cardinality({c \in S : LinkOf[c] = l})
  BY <1>2, <1>4 DEF IndInv, CountsFit, EverLogged, InState
<1>6. Cardinality(Shown(cards)) <= Cardinality(S)
  BY <1>3, <1>5, PairsFit
<1>7. page' = [NoPage EXCEPT !.pc = "total", !.cards = cards] /\ click' = click /\ links' = links
  BY <1>1 DEF ReadLinks, logVars
<1>8. IsPage(page') /\ page'.pc = "total" /\ page'.cards = cards
  BY <1>3, <1>7, NoPageFits DEF IsPage
<1>9. EverLogged' = S
  BY <1>4, <1>7 DEF EverLogged, InState
<1>10. \A l \in Links : links'[l].clicks <= Cardinality({c \in EverLogged : LinkOf[c] = l}')
  BY <1>4, <1>7, <1>9 DEF IndInv, CountsFit
<1>11. \A l \in DOMAIN cards : cards[l] <= links'[l].clicks
  BY <1>2, <1>3, <1>7 DEF IsCounts
<1>12. CountsFit'
  BY <1>6, <1>8, <1>9, <1>10, <1>11 DEF CountsFit
<1>13. PageFits'
  BY <1>8 DEF PageFits
<1> QED BY <1>8, <1>12, <1>13

LEMMA ReadTotalStep ==
  ASSUME IndInv, ReadTotal
  PROVE  IsPage(page') /\ CountsFit' /\ PageFits'
<1>1. PICK cards, total : cards = page.cards /\ total = Cardinality(IdsIn("logged"))
  OBVIOUS
<1>2. TypeOK /\ CountsFit /\ IsPage(page) /\ IsCounts(cards)
  BY <1>1 DEF IndInv, TypeOK, IsPage
<1>3. /\ page' = [page EXCEPT !.pc = "top", !.total = total]
      /\ click' = click /\ links' = links
  BY <1>1 DEF ReadTotal, logVars
<1>4. total \in Nat /\ Cardinality(InState("purged")) \in Nat
      /\ Cardinality(EverLogged) = total + Cardinality(InState("purged"))
  BY <1>1, <1>2, LogCounts
<1>5. page'.pc = "top" /\ page'.cards = cards /\ page'.total = total /\ page'.top = page.top
  BY <1>1, <1>2, <1>3 DEF IsPage
<1>6. IsPage(page')
  BY <1>2, <1>3, <1>4 DEF IsPage
<1>7. EverLogged' = EverLogged /\ InState("purged")' = InState("purged")
  BY <1>3 DEF EverLogged, InState
<1>8. CountsFit'
  BY <1>1, <1>2, <1>3, <1>5, <1>7 DEF CountsFit
<1>9. TotalCoversCards'
  <2>1. Cardinality(Shown(cards)) <= Cardinality(EverLogged)
    BY <1>1, <1>2 DEF CountsFit
  <2> QED BY <1>4, <1>5, <1>7, <2>1 DEF TotalCoversCards
<1>10. PageFits'
  BY <1>5, <1>9 DEF PageFits
<1> QED BY <1>6, <1>8, <1>10

LEMMA ReadTopStep ==
  ASSUME IndInv, ReadTop
  PROVE  IsPage(page') /\ CountsFit' /\ PageFits'
<1>1. PICK cards, top : cards = page.cards /\ top = CountsOf(Top)
  OBVIOUS
<1>2. TypeOK /\ CountsFit /\ PageFits /\ IsPage(page) /\ IsCounts(cards)
  BY <1>1 DEF IndInv, TypeOK, IsPage
<1>3. page' = [page EXCEPT !.pc = "done", !.top = top] /\ click' = click /\ links' = links
      /\ page.pc = "top"
  BY <1>1 DEF ReadTop, logVars
<1>4. DOMAIN top = Top /\ \A l \in Top : l \in Links /\ top[l] = links[l].clicks
  BY <1>1 DEF CountsOf, Top, Live
<1>5. \A l \in Links : links[l].clicks \in Nat
  BY <1>2 DEF TypeOK
<1>6. IsCounts(top)
  BY <1>4, <1>5 DEF IsCounts
<1>7. page'.pc = "done" /\ page'.cards = cards /\ page'.total = page.total /\ page'.top = top
  BY <1>1, <1>2, <1>3 DEF IsPage
<1>8. IsPage(page')
  BY <1>2, <1>3, <1>6 DEF IsPage
<1>9. EverLogged' = EverLogged /\ InState("purged")' = InState("purged")
  BY <1>3 DEF EverLogged, InState
<1>10. CountsFit'
  BY <1>1, <1>2, <1>3, <1>7, <1>9 DEF CountsFit
<1>11. TotalCoversCards'
  BY <1>1, <1>2, <1>3, <1>7, <1>9 DEF PageFits, TotalCoversCards
<1>12. ASSUME NEW l \in DOMAIN cards, links[l].live
       PROVE  IF l \in DOMAIN top THEN top[l] >= cards[l]
                                  ELSE \A k \in DOMAIN top : top[k] >= cards[l]
  <2>1. l \in Links /\ cards[l] \in Nat /\ cards[l] <= links[l].clicks
    BY <1>1, <1>2 DEF IsCounts, CountsFit
  <2>2. CASE l \in Top
    BY <1>4, <1>5, <2>1, <2>2
  <2>3. CASE l \notin Top
    <3>1. l \in Live \ Top
      BY <1>12, <2>1, <2>3 DEF Live
    <3>2. ASSUME NEW k \in Top PROVE top[k] >= cards[l]
      <4>1. links[l].clicks <= links[k].clicks
        BY <1>2, <3>1, TopIsTop
      <4> QED BY <1>4, <1>5, <2>1, <4>1
    <3> QED BY <1>4, <2>3, <3>2
  <2> QED BY <2>2, <2>3
<1>13. PageFits'
  BY <1>3, <1>7, <1>11, <1>12 DEF PageFits, TopCoversCard
<1> QED BY <1>8, <1>10, <1>13

LEMMA EndPageStep ==
  ASSUME IndInv, EndPage
  PROVE  IsPage(page') /\ CountsFit' /\ PageFits'
<1>1. page' = NoPage /\ click' = click /\ links' = links
  BY DEF EndPage, logVars
<1>2. IsPage(page')
  BY <1>1, NoPageFits
<1>3. page'.pc = "idle" /\ Shown(page'.cards) = {} /\ DOMAIN page'.cards = {}
  BY <1>1, NoPageFits
<1>4. EverLogged' = EverLogged
  BY <1>1 DEF EverLogged, InState
<1>5. Cardinality(EverLogged) \in Nat /\ Cardinality({}) = 0
  BY LogCounts, FS_EmptySet DEF IndInv
<1>6. \A l \in Links : links'[l].clicks <= Cardinality({c \in EverLogged' : LinkOf[c] = l})
  BY <1>1, <1>4 DEF IndInv, CountsFit
<1>7. CountsFit'
  BY <1>3, <1>4, <1>5, <1>6 DEF CountsFit
<1>8. PageFits'
  BY <1>3 DEF PageFits
<1> QED BY <1>2, <1>7, <1>8

(* Clicks and deletes between two statements only widen what the next one  *)
(* can read, and retention moves clicks to the side that the sum allows.   *)
LEMMA PageKept ==
  ASSUME IndInv, [Next]_vars, page' = page
  PROVE  IsPage(page') /\ CountsFit' /\ PageFits'
<1>1. TypeOK /\ CountsFit /\ PageFits /\ IsPage(page) /\ IsCounts(page.cards)
  BY DEF IndInv, TypeOK, IsPage
<1>2. PICK cards, shown : cards = page.cards /\ shown = Cardinality(Shown(page.cards))
  OBVIOUS
<1>3. PICK e, f, p, q : /\ e = Cardinality(EverLogged) /\ f = Cardinality(EverLogged')
                        /\ p = Cardinality(InState("purged")) /\ q = Cardinality(InState("purged")')
  OBVIOUS
<1>4. e \in Nat /\ f \in Nat /\ e <= f /\ p \in Nat /\ q \in Nat /\ p <= q
  BY <1>1, <1>3, LogGrows
<1>5. \A l \in DOMAIN cards : cards[l] <= Cardinality({c \in EverLogged : LinkOf[c] = l})
  <2> SUFFICES ASSUME NEW l \in DOMAIN cards
               PROVE  cards[l] <= Cardinality({c \in EverLogged : LinkOf[c] = l})
    OBVIOUS
  <2>1. PICK n : n = Cardinality({c \in EverLogged : LinkOf[c] = l})
    OBVIOUS
  <2>2. IsFiniteSet({c \in EverLogged : LinkOf[c] = l})
    BY <1>1, LogCounts, FS_Subset
  <2>3. l \in Links /\ cards[l] \in Nat /\ links[l].clicks \in Nat /\ n \in Nat
    BY <1>1, <1>2, <2>1, <2>2, FS_CardinalityType DEF IsCounts, TypeOK
  <2>4. cards[l] <= links[l].clicks /\ links[l].clicks <= n
    BY <1>1, <1>2, <2>1, <2>3 DEF CountsFit
  <2> QED BY <2>1, <2>3, <2>4
<1>6. shown \in Nat
  <2>1. PICK S : S = EverLogged
    OBVIOUS
  <2>2. S \in SUBSET Clicks
    BY <2>1 DEF EverLogged, InState
  <2>3. \A l \in DOMAIN cards : cards[l] <= Cardinality({c \in S : LinkOf[c] = l})
    BY <1>5, <2>1
  <2>4. IsFiniteSet(Shown(cards))
    BY <1>1, <1>2, <2>2, <2>3, PairsFit
  <2> QED BY <1>2, <2>4, FS_CardinalityType
<1>7. CountsFit'
  <2>1. \A l \in Links : links'[l].clicks <= Cardinality({c \in EverLogged' : LinkOf[c] = l})
    BY <1>1, CountStep DEF CountsFit
  <2>2. shown <= f
    BY <1>1, <1>2, <1>3, <1>4, <1>6 DEF CountsFit
  <2>3. \A l \in DOMAIN cards : cards[l] <= links'[l].clicks
    <3> SUFFICES ASSUME NEW l \in DOMAIN cards PROVE cards[l] <= links'[l].clicks
      OBVIOUS
    <3>1. l \in Links /\ cards[l] \in Nat /\ links[l].clicks \in Nat /\ links'[l].clicks \in Nat
      BY <1>1, <1>2, LinkMoves DEF IsCounts, TypeOK
    <3>2. cards[l] <= links[l].clicks /\ links[l].clicks <= links'[l].clicks
      BY <1>1, <1>2, <3>1, LinkMoves DEF CountsFit
    <3> QED BY <3>1, <3>2
  <2> QED BY <1>2, <1>3, <2>1, <2>2, <2>3 DEF CountsFit
<1>8. PageFits'
  <2>1. TotalCoversCards => TotalCoversCards'
    <3>1. page.total \in Nat
      BY <1>1 DEF IsPage
    <3> QED BY <1>2, <1>3, <1>4, <1>6, <3>1 DEF TotalCoversCards
  <2>2. \A l \in DOMAIN cards : links'[l].live => links[l].live
    BY <1>1, <1>2, LinkMoves DEF IsCounts
  <2> QED BY <1>1, <1>2, <2>1, <2>2 DEF PageFits, TopCoversCard
<1> QED BY <1>1, <1>7, <1>8

LEMMA PageStep ==
  ASSUME IndInv, [Next]_vars
  PROVE  IsPage(page') /\ CountsFit' /\ PageFits'
BY PageMoves, PageKept, ReadLinksStep, ReadTotalStep, ReadTopStep, EndPageStep

------------------------------------------------------------------------------
LEMMA NextInv == IndInv /\ [Next]_vars => IndInv'
<1> SUFFICES ASSUME IndInv, [Next]_vars PROVE IndInv'
  OBVIOUS
<1>1. TypeOK /\ PassOrdered /\ CursorFits
  BY DEF IndInv
<1>2. FeedFits'
  BY <1>1, FeedStep
<1>3. IsPage(page') /\ CountsFit' /\ PageFits'
  BY PageStep
<1>4. TypeOK'
  <2>1. nextId' \in Nat \ {0}
    BY <1>1, ClickMoves DEF TypeOK
  <2>2. click' \in [Clicks -> [state : States, id : 0..(nextId' - 1)]]
    BY <1>1, ClickMoves
  <2>3. \A c \in Clicks : click'[c].id = 0 <=> click'[c].state = "new"
    BY <1>1, ClickKeeps
  <2>4. \A c, d \in Clicks : click'[c].id = click'[d].id /\ click'[c].id # 0 => c = d
    BY <1>1, ClickMoves
  <2>5. links' \in [Links -> [live : BOOLEAN, clicks : Nat]]
    BY <1>1, LinkMoves
  <2>6. /\ feed' \in [after : 0..(nextId' - 1), got : Seq(GivenOut'), owed : SUBSET GivenOut']
        /\ seen' \subseteq GivenOut'
    BY <1>2 DEF FeedFits
  <2> QED BY <1>3, <2>1, <2>2, <2>3, <2>4, <2>5, <2>6 DEF TypeOK, IsPage
<1> QED BY <1>2, <1>3, <1>4 DEF IndInv, FeedFits

LEMMA InitInv == Init => IndInv
<1> SUFFICES ASSUME Init PROVE IndInv
  OBVIOUS
<1>1. /\ click = [c \in Clicks |-> [state |-> "new", id |-> 0]]
      /\ nextId = 1
      /\ links = [l \in Links |-> [live |-> TRUE, clicks |-> 0]]
      /\ feed = NewPass /\ seen = {} /\ page = NoPage
  BY DEF Init
<1>2. NewPass.got = << >> /\ NewPass.after = 0 /\ NewPass.owed = {}
  BY DEF NewPass
<1>3. /\ IsPage(page) /\ page.pc = "idle"
      /\ Shown(page.cards) = {} /\ DOMAIN page.cards = {}
  BY <1>1, NoPageFits
<1>4. TypeOK
  <2>1. click \in [Clicks -> [state : States, id : 0..(nextId - 1)]]
    BY <1>1 DEF States
  <2>2. /\ \A c \in Clicks : click[c].id = 0 <=> click[c].state = "new"
        /\ \A c, d \in Clicks : click[c].id = click[d].id /\ click[c].id # 0 => c = d
    BY <1>1
  <2>3. links \in [Links -> [live : BOOLEAN, clicks : Nat]]
    BY <1>1
  <2>4. feed \in [after : 0..(nextId - 1), got : Seq(GivenOut), owed : SUBSET GivenOut]
    BY <1>1 DEF NewPass
  <2> QED BY <1>1, <1>3, <2>1, <2>2, <2>3, <2>4 DEF TypeOK, IsPage
<1>5. PassOrdered /\ CursorFits
  BY <1>1, <1>2 DEF PassOrdered, CursorFits
<1>6. CountsFit
  <2>1. \A l \in Links : links[l].clicks = 0
    BY <1>1
  <2>2. ASSUME NEW l \in Links PROVE Cardinality({c \in EverLogged : LinkOf[c] = l}) \in Nat
    BY <1>4, LogCounts, FS_Subset, FS_CardinalityType
  <2>3. Cardinality(EverLogged) \in Nat /\ Cardinality({}) = 0
    BY <1>4, LogCounts, FS_EmptySet
  <2> QED BY <1>3, <2>1, <2>2, <2>3 DEF CountsFit
<1>7. PageFits
  BY <1>3 DEF PageFits
<1> QED BY <1>4, <1>5, <1>6, <1>7 DEF IndInv

(* Whatever the clients ask for and whenever: the variables are typed, the *)
(* cursor stands where the client is, a page's numbers fit together.       *)
THEOREM FeedAndPagesFit == Spec => []IndInv
<1>1. Init => IndInv
  BY InitInv
<1>2. IndInv /\ [Next]_vars => IndInv'
  BY NextInv
<1> QED BY <1>1, <1>2, PTL DEF Spec

(* A client that follows next_after gets the events of a pass in the order *)
(* of their ids, none of them twice, for any page sizes.                   *)
THEOREM EventsInOrder == Spec => []PassOrdered
<1>1. IndInv => PassOrdered
  BY DEF IndInv
<1> QED BY <1>1, FeedAndPagesFit, PTL

(* The numbers of a dashboard page, read without a transaction, fit        *)
(* together.                                                               *)
THEOREM PagesFit == Spec => []PageFits
<1>1. IndInv => PageFits
  BY DEF IndInv
<1> QED BY <1>1, FeedAndPagesFit, PTL

(* A pass that the feed ends has given the client every event that was     *)
(* logged when it began and is still there.                                *)
THEOREM PassMissesNothing == Spec => PassComplete
<1>1. IndInv /\ [Next]_vars =>
        [FetchEnd => feed.owed \cap IdsIn("logged") \subseteq Range(feed.got)]_vars
  BY FetchEndStep DEF IndInv
<1>2. (Spec /\ []IndInv) => PassComplete
  BY <1>1, PTL DEF Spec, PassComplete
<1> QED BY <1>2, FeedAndPagesFit
=============================================================================
