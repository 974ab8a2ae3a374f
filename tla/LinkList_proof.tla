--------------------------- MODULE LinkList_proof ---------------------------
(***************************************************************************)
(* Proofs about LinkList, for any number of requests, owners and links:    *)
(* first the order in which a list is read, then what holds however        *)
(* requests interleave, then what holds as long as an owner's list has no  *)
(* creations, then what holds while each owner has one request at a time.  *)
(***************************************************************************)
EXTENDS LinkList, Ranking, SequenceTheorems, TLAPS

------------------------------------------------------------------------------
(* The order of ORDER BY position, id, as a set of pairs.                  *)
OwnOrder(table, o) ==
  {p \in OwnedIn(table, o) \X OwnedIn(table, o) : Before(table, p[1], p[2])}

(* It orders an owner's links, which are finitely many.                    *)
LEMMA OwnOrdered ==
  ASSUME NEW table, IsTable(table, Row), NEW o
  PROVE  LET own == OwnedIn(table, o) IN
         /\ IsFiniteSet(own) /\ own \subseteq Ids /\ Cardinality(own) \in Nat
         /\ \A id \in own : table[id] \in Row /\ table[id].owner = o
         /\ Orders(OwnOrder(table, o), own)
         /\ \A id \in own : Rank(OwnOrder(table, o), own, id)
                              = Cardinality({k \in own : Before(table, k, id)})
<1> DEFINE own == OwnedIn(table, o)
           R == OwnOrder(table, o)
<1>1. own \subseteq Ids /\ \A id \in own : table[id] \in Row /\ table[id].owner = o
  BY DEF OwnedIn, IsTable
<1>2. IsFiniteSet(own) /\ Cardinality(own) \in Nat
  <2>1. IsFiniteSet(Ids)
    BY MaxIdAssumption, CountTo DEF Ids
  <2> QED BY <1>1, <2>1, FS_Subset, FS_CardinalityType
<1>3. \A a, b \in own : <<a, b>> \in R <=> Before(table, a, b)
  BY DEF OwnOrder
<1>4. Orders(R, own)
  <2>1. \A a \in own : a \in Int /\ table[a].position \in Int
    BY <1>1 DEF Ids, Row
  <2> HIDE DEF own, R
  <2>2. \A a \in own : ~ Before(table, a, a)
    BY <2>1 DEF Before
  <2>3. \A a, b, c \in own : Before(table, a, b) /\ Before(table, b, c) => Before(table, a, c)
    BY <2>1 DEF Before
  <2>4. \A a, b \in own : a # b => Before(table, a, b) \/ Before(table, b, a)
    BY <2>1 DEF Before
  <2> QED BY <1>3, <2>2, <2>3, <2>4 DEF Orders
<1>5. ASSUME NEW id \in own
      PROVE  Rank(R, own, id) = Cardinality({k \in own : Before(table, k, id)})
  <2>1. Below(R, own, id) = {k \in own : Before(table, k, id)}
    BY <1>3 DEF Below
  <2> QED BY <2>1 DEF Rank
<1> QED BY <1>1, <1>2, <1>4, <1>5

(* A table has each link of the owner once, in order.                      *)
Lists(s, table, o) ==
  LET own == OwnedIn(table, o) IN
  /\ s \in [1..Cardinality(own) -> own]
  /\ \A i, k \in 1..Cardinality(own) : i < k => Before(table, s[i], s[k])

(* orderedLinkIDs returns the owner's links, each once, in order.          *)
LEMMA OrderLists ==
  ASSUME NEW table, IsTable(table, Row), NEW o
  PROVE  LET own == OwnedIn(table, o)
             s == OrderedIn(table, o) IN
         /\ Lists(s, table, o)
         /\ Len(s) = Cardinality(own) /\ Len(s) \in Nat /\ DOMAIN s = 1..Len(s)
         /\ s \in Seq(Ids) /\ \A i \in DOMAIN s : s[i] \in own
         /\ \A i, k \in DOMAIN s : s[i] = s[k] => i = k
         /\ \A id \in own : \E i \in DOMAIN s : s[i] = id
<1> DEFINE own == OwnedIn(table, o)
           R == OwnOrder(table, o)
           s == OrderedIn(table, o)
           n == Cardinality(own)
<1>1. /\ IsFiniteSet(own) /\ own \subseteq Ids /\ n \in Nat /\ Orders(R, own)
      /\ \A id \in own : Rank(R, own, id) = Cardinality({k \in own : Before(table, k, id)})
  BY OwnOrdered
<1>2. \A i \in 1..n : \E id \in own : Cardinality({k \in own : Before(table, k, id)}) = i - 1
  <2> SUFFICES ASSUME NEW i \in 1..n
               PROVE  \E id \in own : Cardinality({k \in own : Before(table, k, id)}) = i - 1
    OBVIOUS
  <2>1. i - 1 \in 0..n - 1
    BY <1>1
  <2>2. \E id \in own : Rank(R, own, id) = i - 1
    BY <1>1, <2>1, RankOnto
  <2> QED BY <1>1, <2>2
<1>3. /\ DOMAIN s = 1..n /\ s \in [1..n -> own]
      /\ \A i \in 1..n : Rank(R, own, s[i]) = i - 1
  <2>1. s = [i \in 1..n |-> CHOOSE id \in own :
                              Cardinality({k \in own : Before(table, k, id)}) = i - 1]
    BY DEF OrderedIn
  <2> HIDE DEF s, own, n
  <2>2. \A i \in 1..n : /\ s[i] \in own
                        /\ Cardinality({k \in own : Before(table, k, s[i])}) = i - 1
    BY <1>2, <2>1
  <2> QED BY <1>1, <2>1, <2>2
<1>4. \A i, k \in 1..n : s[i] = s[k] => i = k
  BY <1>3
<1>5. ASSUME NEW i \in 1..n, NEW k \in 1..n, i < k
      PROVE  Before(table, s[i], s[k])
  <2>1. s[i] \in own /\ s[k] \in own /\ s[i] # s[k]
    BY <1>3, <1>4, <1>5
  <2>2. <<s[k], s[i]>> \in R => k - 1 < i - 1
    BY <1>1, <1>3, <2>1, RankGrows
  <2>3. <<s[i], s[k]>> \in R
    BY <1>1, <1>5, <2>1, <2>2 DEF Orders
  <2> QED BY <2>3 DEF OwnOrder
<1>6. ASSUME NEW id \in own
      PROVE  \E i \in 1..n : s[i] = id
  <2>1. PICK r : r = Rank(R, own, id)
    OBVIOUS
  <2>2. r \in Nat /\ r < n
    BY <1>1, <2>1, RankType
  <2>3. r + 1 \in 1..n /\ Rank(R, own, s[r + 1]) = r
    BY <1>1, <1>3, <2>2
  <2>4. s[r + 1] = id
    BY <1>1, <1>3, <2>1, <2>3, RankInjective
  <2> QED BY <2>3, <2>4
<1>7. s \in Seq(own) /\ Len(s) = n
  BY <1>1, <1>3, IsASeq, LenProperties
<1>8. s \in Seq(Ids)
  BY <1>1, <1>7
<1> HIDE DEF s, own, n
<1>9. Lists(s, table, o)
  BY <1>3, <1>5 DEF Lists, own, n
<1> QED BY <1>1, <1>3, <1>4, <1>6, <1>7, <1>8, <1>9 DEF s, own, n

(* And it is the only such list.                                           *)
LEMMA ListIsOrder ==
  ASSUME NEW table, IsTable(table, Row), NEW o, NEW s, Lists(s, table, o)
  PROVE  s = OrderedIn(table, o)
<1> DEFINE own == OwnedIn(table, o)
           R == OwnOrder(table, o)
           q == OrderedIn(table, o)
           n == Cardinality(own)
<1>1. /\ IsFiniteSet(own) /\ n \in Nat /\ Orders(R, own)
  BY OwnOrdered
<1>2. /\ q \in [1..n -> own] /\ \A i, k \in 1..n : i < k => <<q[i], q[k]>> \in R
  BY OrderLists DEF Lists, OwnOrder
<1>3. /\ s \in [1..n -> own] /\ \A i, k \in 1..n : i < k => <<s[i], s[k]>> \in R
  BY DEF Lists, OwnOrder
<1> HIDE DEF own, R, q, n
<1>4. ASSUME NEW i \in 1..n
      PROVE  s[i] = q[i]
  <2>1. Rank(R, own, s[i]) = i - 1
    BY <1>1, <1>3, SortedRank DEF n
  <2>2. Rank(R, own, q[i]) = i - 1
    BY <1>1, <1>2, SortedRank DEF n
  <2> QED BY <1>1, <1>2, <1>3, <2>1, <2>2, RankInjective
<1>5. s \in [1..n -> own] /\ q \in [1..n -> own]
  BY <1>2, <1>3
<1>6. s = [i \in 1..n |-> s[i]] /\ q = [i \in 1..n |-> q[i]]
  BY <1>5
<1>7. s = q
  BY <1>4, <1>6
<1> QED BY <1>7 DEF q

(* The list depends on the owner's rows only.                              *)
LEMMA SameOrder ==
  ASSUME NEW old, IsTable(old, Row), NEW new, IsTable(new, Row), NEW o,
         OwnedIn(new, o) = OwnedIn(old, o),
         \A id \in OwnedIn(old, o) : new[id].position = old[id].position
  PROVE  OrderedIn(new, o) = OrderedIn(old, o)
<1> DEFINE s == OrderedIn(old, o)
<1>1. Lists(s, old, o)
  BY OrderLists
<1> HIDE DEF s
<1>2. Lists(s, new, o)
  BY <1>1 DEF Lists, Before
<1> QED BY <1>2, ListIsOrder DEF s

------------------------------------------------------------------------------
(* The rows a transaction sees: the committed ones under its own writes.   *)
LEMMA OverTable ==
  ASSUME NEW table, IsTable(table, Row), NEW writes, IsTable(writes, Row \cup {Deleted})
  PROVE  LET over == Over(table, writes) IN
         /\ IsTable(over, Row)
         /\ \A id : id \in DOMAIN over <=>
              IF id \in DOMAIN writes THEN writes[id] # Deleted ELSE id \in DOMAIN table
         /\ \A id \in DOMAIN over :
              over[id] = IF id \in DOMAIN writes THEN writes[id] ELSE table[id]
<1> DEFINE over == Over(table, writes)
           left == {i \in DOMAIN table \cup DOMAIN writes :
                      i \in DOMAIN writes => writes[i] # Deleted}
<1>1. over = [id \in left |-> IF id \in DOMAIN writes THEN writes[id] ELSE table[id]]
  BY DEF Over
<1>2. \A id : id \in left <=>
        IF id \in DOMAIN writes THEN writes[id] # Deleted ELSE id \in DOMAIN table
  OBVIOUS
<1> HIDE DEF over, left
<1>3. /\ DOMAIN over = left
      /\ \A id \in left : over[id] = IF id \in DOMAIN writes THEN writes[id] ELSE table[id]
  BY <1>1
<1>4. left \subseteq Ids /\ \A id \in left : over[id] \in Row
  BY <1>2, <1>3 DEF IsTable
<1>5. over \in [left -> Row]
  BY <1>1, <1>3, <1>4
<1>6. IsTable(over, Row)
  BY <1>3, <1>4, <1>5 DEF IsTable
<1> QED BY <1>2, <1>3, <1>6 DEF over

(* No row stands for a deleted one, and nothing is written to begin with.  *)
LEMMA NothingWritten ==
  /\ Deleted \notin Row /\ DOMAIN NoWrites = {} /\ IsTable(NoWrites, Row \cup {Deleted})
  /\ << >> \in Seq(Ids) /\ Len(<< >>) = 0 /\ DOMAIN << >> = {}
<1>1. Deleted \notin Row
  BY OwnersAssumption DEF Deleted, Row
<1>2. DOMAIN NoWrites = {} /\ << >> \in Seq(Ids) /\ Len(<< >>) = 0
  BY DEF NoWrites
<1>3. NoWrites \in [DOMAIN NoWrites -> Row \cup {Deleted}]
  BY DEF NoWrites
<1> QED BY <1>1, <1>2, <1>3 DEF IsTable, NoWrites

(* A first write.                                                          *)
LEMMA FirstPut ==
  ASSUME NEW id \in Ids, NEW row \in Row \cup {Deleted}
  PROVE  LET put == Put(NoWrites, id, row) IN
         IsTable(put, Row \cup {Deleted}) /\ DOMAIN put = {id} /\ put[id] = row
<1>1. IsTable(NoWrites, Row \cup {Deleted}) /\ DOMAIN NoWrites = {}
  BY NothingWritten
<1>2. PICK put : put = Put(NoWrites, id, row)
  OBVIOUS
<1>3. put = [i \in {id} |-> row]
  BY <1>1, <1>2 DEF Put
<1>4. IsTable(put, Row \cup {Deleted}) /\ DOMAIN put = {id} /\ put[id] = row
  BY <1>3 DEF IsTable
<1> QED BY <1>2, <1>4

(* What holds of one transaction.                                          *)
TxFits(r) == /\ IsTransaction(r) /\ StageFits(r) /\ NewRowFits(r)
             /\ WritesFit(r) /\ ListFits(r)

(* It holds of an idle request.                                            *)
LEMMA IdleFits == TxFits(Idle) /\ Idle.writes = NoWrites /\ Idle.ids = << >> /\ Idle.op = "none"
<1>1. IsTransaction(Idle)
  BY NothingWritten DEF Idle, IsTransaction
<1>2. StageFits(Idle) /\ NewRowFits(Idle) /\ WritesFit(Idle) /\ ListFits(Idle)
  BY NothingWritten DEF Idle, StageFits, NewRowFits, WritesFit, ListFits
<1> QED BY <1>1, <1>2 DEF TxFits, Idle

(* The initial states satisfy the invariant.                               *)
LEMMA InitInv == Init => IndInv
<1> SUFFICES ASSUME Init PROVE IndInv
  OBVIOUS
<1>1. PICK n \in 0..MaxId : links \in [1..n -> Row]
  BY TablesAssumption DEF Init
<1>2. DOMAIN links = 1..n /\ Cardinality(1..n) = n
  BY <1>1, CountTo
<1>3. nextId = n + 1
  BY <1>2 DEF Init
<1>4. \A t \in Requests : tx[t] = Idle
  BY DEF Init
<1>5. IsTable(links, Row)
  BY <1>1, <1>2, MaxIdAssumption DEF IsTable, Ids
<1>6. TypeOK
  BY <1>1, <1>3, <1>4, <1>5, IdleFits, MaxIdAssumption DEF TypeOK, TxFits, Init
<1>7. IdsGivenOut
  BY <1>2, <1>3, <1>4, IdleFits, NothingWritten DEF IdsGivenOut, Holds
<1>8. RowsHeldOnce
  BY <1>4, IdleFits, NothingWritten DEF RowsHeldOnce, Holds
<1> QED BY <1>4, <1>6, <1>7, <1>8, IdleFits DEF IndInv, TxFits

(* A statement that locks only rows nobody holds, and puts only committed  *)
(* ids on its list, keeps the invariant if it fits its transaction.        *)
LEMMA StatementStep ==
  ASSUME IndInv, NEW t \in Requests, NEW next, Statement(t, next), TxFits(next),
         \A id \in DOMAIN next.writes : id < nextId,
         \A i \in DOMAIN next.ids : next.ids[i] < nextId,
         \A u \in Requests \ {t} : DOMAIN next.writes \cap Holds(u) = {},
         \A u \in Requests \ {t} : tx[u].op = "create" =>
           \A i \in DOMAIN next.ids : next.ids[i] \notin Holds(u),
         next.op = "create" => DOMAIN next.writes = {}
  PROVE  IndInv'
<1>1. /\ UNCHANGED <<links, nextId, tidied>> /\ DOMAIN tx' = Requests
      /\ tx'[t] = next /\ \A u \in Requests \ {t} : tx'[u] = tx[u]
  BY DEF Statement, IndInv, TypeOK
<1>2. \A u \in Requests : TxFits(tx[u])
  BY DEF IndInv, TypeOK, TxFits
<1>3. \A u \in Requests : TxFits(tx'[u])
  BY <1>1, <1>2
<1>4. TypeOK'
  BY <1>1, <1>3 DEF IndInv, TypeOK, TxFits
<1>5. IdsGivenOut'
  BY <1>1 DEF IndInv, IdsGivenOut, Holds
<1>6. RowsHeldOnce'
  <2> SUFFICES ASSUME NEW u \in Requests, NEW v \in Requests
               PROVE  /\ u # v => DOMAIN tx'[u].writes \cap DOMAIN tx'[v].writes = {}
                      /\ tx'[v].op = "create" =>
                           \A i \in DOMAIN tx'[u].ids : tx'[u].ids[i] \notin DOMAIN tx'[v].writes
    BY DEF RowsHeldOnce, Holds
  <2>1. CASE v = t
    BY <1>1, <2>1 DEF Holds
  <2>2. CASE v # t /\ u = t
    BY <1>1, <2>2 DEF Holds
  <2>3. CASE v # t /\ u # t
    BY <1>1, <2>3 DEF IndInv, RowsHeldOnce, Holds
  <2> QED BY <2>1, <2>2, <2>3
<1>7. ASSUME NEW u \in Requests
      PROVE  (StageFits(tx[u]) /\ NewRowFits(tx[u]) /\ WritesFit(tx[u]) /\ ListFits(tx[u]))'
  <2>1. StageFits(tx'[u]) /\ NewRowFits(tx'[u]) /\ WritesFit(tx'[u]) /\ ListFits(tx'[u])
    BY <1>3 DEF TxFits
  <2>2. NewRowFits(tx[u])'
    BY <1>1, <2>1 DEF NewRowFits
  <2>3. WritesFit(tx[u])'
    BY <1>1, <2>1 DEF WritesFit, OwnedIn
  <2>4. ListFits(tx[u])'
    BY <1>1, <2>1 DEF ListFits
  <2> QED BY <2>1, <2>2, <2>3, <2>4
<1> QED BY <1>4, <1>5, <1>6, <1>7 DEF IndInv

(* COALESCE(MAX(position), -1) + 1 is the end of the list.                 *)
LEMMA NextPositionEnds ==
  ASSUME NEW table, IsTable(table, Row), NEW o
  PROVE  LET own == OwnedIn(table, o)
             end == NextPosition(table, o) IN
         /\ end \in Nat
         /\ \A id \in own : table[id].position < end
         /\ own = {} => end = 0
         /\ own # {} => \E id \in own : table[id].position = end - 1
<1> DEFINE own == OwnedIn(table, o)
           used == {table[id].position : id \in own}
           place == [id \in own |-> table[id].position]
           end == NextPosition(table, o)
<1>1. IsFiniteSet(own) /\ \A id \in own : table[id] \in Row
  BY OwnOrdered
<1>2. used \in SUBSET Nat
  BY <1>1 DEF Row
<1>3. place \in Surjection(own, used)
  BY DEF Surjection
<1>4. IsFiniteSet(used)
  BY <1>1, <1>3, FS_Surjection
<1>5. end = IF used = {} THEN 0 ELSE 1 + CHOOSE p \in used : \A q \in used : q <= p
  BY DEF NextPosition
<1>6. own = {} <=> used = {}
  OBVIOUS
<1> HIDE DEF end, place
<1>7. CASE used = {}
  <2>1. end = 0 /\ own = {}
    BY <1>5, <1>6, <1>7
  <2> QED BY <2>1 DEF end
<1>8. CASE used # {}
  <2>1. \E m \in used : \A q \in used : q <= m
    <3> HIDE DEF used
    <3> QED BY <1>2, <1>4, <1>8, Greatest
  <2>2. PICK m \in used : /\ m = CHOOSE p \in used : \A q \in used : q <= p
                          /\ \A q \in used : q <= m
    BY <2>1
  <2>3. end = 1 + m /\ m \in Nat
    BY <1>2, <1>5, <1>8, <2>2
  <2>4. \A id \in own : table[id].position <= m /\ table[id].position \in Nat
    BY <1>2, <2>2
  <2>5. PICK id \in own : table[id].position = m
    BY <2>2
  <2>6. end \in Nat /\ m = end - 1 /\ own # {}
    BY <2>3, <2>5
  <2>7. \A k \in own : table[k].position < end
    BY <2>3, <2>4
  <2> QED BY <2>5, <2>6, <2>7 DEF end
<1> QED BY <1>7, <1>8

------------------------------------------------------------------------------
(* What IndInv says of one transaction, and of the rows it can meet.       *)
LEMMA InvFacts ==
  ASSUME IndInv, NEW t \in Requests
  PROVE  /\ TxFits(tx[t]) /\ IsTable(links, Row) /\ nextId \in 1..(MaxId + 1)
         /\ \A id \in DOMAIN links : id < nextId /\ id \in Ids
         /\ \A id \in Holds(t) : id < nextId
         /\ \A i \in DOMAIN tx[t].ids : tx[t].ids[i] < nextId
         /\ \A u \in Requests \ {t} : Holds(t) \cap Holds(u) = {}
         /\ \A u \in Requests : tx[u].op = "create" =>
              /\ Holds(u) \cap DOMAIN links = {}
              /\ \A i \in DOMAIN tx[t].ids : tx[t].ids[i] \notin Holds(u)
<1>1. /\ TxFits(tx[t]) /\ IsTable(links, Row) /\ nextId \in 1..(MaxId + 1)
      /\ \A id \in DOMAIN links : id < nextId /\ id \in Ids
  BY DEF IndInv, TypeOK, TxFits, IdsGivenOut, IsTable
<1>2. ASSUME NEW u \in Requests, tx[u].op = "create"
      PROVE  Holds(u) \cap DOMAIN links = {}
  <2>1. TxFits(tx[u])
    BY DEF IndInv, TypeOK, TxFits
  <2>2. CASE tx[u].pc = "commit"
    <3>1. PICK id \in Ids \ DOMAIN links :
            tx[u].writes = Put(NoWrites, id, [owner |-> tx[u].owner,
                                              position |-> tx[u].position])
      BY <1>2, <2>1, <2>2 DEF TxFits, NewRowFits
    <3>2. DOMAIN tx[u].writes = {id}
      BY <3>1, NothingWritten DEF Put
    <3> QED BY <3>1, <3>2 DEF Holds
  <2>3. CASE tx[u].pc # "commit"
    BY <1>2, <2>1, <2>3, NothingWritten DEF TxFits, StageFits, Holds
  <2> QED BY <2>2, <2>3
<1> QED BY <1>1, <1>2 DEF IndInv, IdsGivenOut, RowsHeldOnce

(* A rolled back transaction leaves nothing behind.                        *)
LEMMA RollbackStep ==
  ASSUME IndInv, NEW t \in Requests, Rollback(t)
  PROVE  IndInv'
<1>1. Statement(t, Idle)
  BY DEF Rollback, Statement
<1> QED BY <1>1, IdleFits, NothingWritten, StatementStep

(* A form is posted.                                                       *)
LEMMA BeginStep ==
  ASSUME IndInv, NEW t \in Requests, NEW o \in Owners, Begin(t, o)
  PROVE  IndInv'
<1>1. PICK next : /\ Statement(t, next)
                  /\ \/ next = [Idle EXCEPT !.op = "create", !.pc = "max", !.owner = o]
                     \/ \E l \in Ids, up \in BOOLEAN :
                          next = [Idle EXCEPT !.op = "move", !.pc = "order", !.owner = o,
                                              !.link = l, !.up = up]
                     \/ \E l \in Ids :
                          next = [Idle EXCEPT !.op = "delete", !.pc = "delete",
                                              !.owner = o, !.link = l]
  BY DEF Begin
<1>2. IsTransaction(next)
  <2>1. /\ Idle.op = "none" /\ Idle.writes = NoWrites
        /\ Idle \in [op : {"none", "create", "move", "delete"},
                     pc : {"idle", "max", "insert", "delete", "order", "write", "commit"},
                     owner : Owners \cup {NoOwner}, link : Ids \cup {0}, up : BOOLEAN,
                     position : Nat, ids : Seq(Ids), at : Nat, writes : {NoWrites}]
    BY NothingWritten DEF Idle
  <2>2. CASE next = [Idle EXCEPT !.op = "create", !.pc = "max", !.owner = o]
    BY <2>1, <2>2, NothingWritten DEF IsTransaction
  <2>3. ASSUME NEW l \in Ids, NEW up \in BOOLEAN,
               next = [Idle EXCEPT !.op = "move", !.pc = "order", !.owner = o,
                                   !.link = l, !.up = up]
        PROVE  IsTransaction(next)
    BY <2>1, <2>3, NothingWritten DEF IsTransaction
  <2>4. ASSUME NEW l \in Ids,
               next = [Idle EXCEPT !.op = "delete", !.pc = "delete", !.owner = o, !.link = l]
        PROVE  IsTransaction(next)
    BY <2>1, <2>4, NothingWritten DEF IsTransaction
  <2> QED BY <1>1, <2>2, <2>3, <2>4
<1>3. /\ <<next.op, next.pc>> \in {<<"create", "max">>, <<"move", "order">>, <<"delete", "delete">>}
      /\ next.writes = NoWrites /\ next.ids = << >> /\ next.owner = o
  BY <1>1 DEF Idle
<1>4. TxFits(next)
  BY <1>2, <1>3, NothingWritten DEF TxFits, StageFits, NewRowFits, WritesFit, ListFits
<1> QED BY <1>1, <1>3, <1>4, NothingWritten, StatementStep

(* CreateLink reads the end of the list.                                   *)
LEMMA ReadMaxStep ==
  ASSUME IndInv, NEW t \in Requests, ReadMax(t)
  PROVE  IndInv'
<1>1. TxFits(tx[t]) /\ IsTable(links, Row) /\ tx[t].pc = "max"
  BY InvFacts DEF ReadMax
<1>2. PICK next : next = [tx[t] EXCEPT !.pc = "insert",
                                       !.position = NextPosition(links, tx[t].owner)]
  OBVIOUS
<1>3. Statement(t, next)
  BY <1>2 DEF ReadMax
<1>4. tx[t].op = "create" /\ tx[t].writes = NoWrites /\ tx[t].ids = << >> /\ tx[t].owner \in Owners
  BY <1>1 DEF TxFits, StageFits, IsTransaction
<1>5. NextPosition(links, tx[t].owner) \in Nat
  BY <1>1, NextPositionEnds
<1>6. /\ IsTransaction(next) /\ next.pc = "insert" /\ next.op = "create"
      /\ next.writes = NoWrites /\ next.ids = << >> /\ next.owner = tx[t].owner
  BY <1>1, <1>2, <1>4, <1>5 DEF TxFits, IsTransaction
<1>7. TxFits(next)
  BY <1>4, <1>6, NothingWritten DEF TxFits, StageFits, NewRowFits, WritesFit, ListFits
<1> QED BY <1>3, <1>6, <1>7, NothingWritten, StatementStep

(* CreateLink inserts its row under an id that was never given out.        *)
LEMMA InsertStep ==
  ASSUME IndInv, NEW t \in Requests, InsertLink(t)
  PROVE  IndInv'
<1>1. TxFits(tx[t]) /\ IsTable(links, Row) /\ tx[t].pc = "insert" /\ nextId \in Ids
  <2>1. nextId \in 1..(MaxId + 1) /\ nextId <= MaxId
    BY InvFacts DEF InsertLink
  <2> QED BY <2>1, InvFacts, MaxIdAssumption DEF InsertLink, Ids
<1>2. PICK row : row = [owner |-> tx[t].owner, position |-> tx[t].position]
  OBVIOUS
<1>3. PICK put : put = Put(NoWrites, nextId, row)
  OBVIOUS
<1>4. PICK next : next = [tx[t] EXCEPT !.pc = "commit", !.writes = put]
  OBVIOUS
<1>5. /\ tx[t].op = "create" /\ tx[t].ids = << >> /\ tx[t].owner \in Owners
      /\ tx[t].position \in Nat
  BY <1>1 DEF TxFits, StageFits, IsTransaction
<1>6. row \in Row
  BY <1>2, <1>5 DEF Row
<1>7. IsTable(put, Row \cup {Deleted}) /\ DOMAIN put = {nextId}
  BY <1>1, <1>3, <1>6, FirstPut
<1>8. /\ IsTransaction(next) /\ next.pc = "commit" /\ next.op = "create" /\ next.writes = put
      /\ next.ids = << >> /\ next.owner = tx[t].owner /\ next.position = tx[t].position
  BY <1>1, <1>4, <1>5, <1>7 DEF TxFits, IsTransaction
<1>9. /\ nextId' = nextId + 1 /\ UNCHANGED <<links, tidied>> /\ DOMAIN tx' = Requests
      /\ tx'[t] = next /\ \A u \in Requests \ {t} : tx'[u] = tx[u]
  BY <1>2, <1>3, <1>4 DEF InsertLink, IndInv, TypeOK
<1>10. nextId \notin DOMAIN links /\ \A u \in Requests : nextId \notin Holds(u)
  <2>1. \A id \in DOMAIN links : id < nextId
    BY DEF IndInv, IdsGivenOut
  <2>2. \A u \in Requests : \A id \in Holds(u) : id < nextId
    BY DEF IndInv, IdsGivenOut
  <2> QED BY <1>1, <2>1, <2>2 DEF Ids
<1>11. NewRowFits(next)
  BY <1>1, <1>2, <1>3, <1>8, <1>10 DEF NewRowFits
<1>12. StageFits(next) /\ WritesFit(next) /\ ListFits(next)
  BY <1>5, <1>8, NothingWritten DEF StageFits, WritesFit, ListFits
<1>13. \A u \in Requests : TxFits(tx'[u])
  <2>1. \A u \in Requests : TxFits(tx[u])
    BY DEF IndInv, TypeOK, TxFits
  <2> QED BY <1>8, <1>9, <1>11, <1>12, <2>1 DEF TxFits
<1>14. TypeOK'
  <2>1. nextId' \in 1..(MaxId + 1)
    BY <1>1, <1>9, MaxIdAssumption DEF Ids
  <2> QED BY <1>9, <1>13, <2>1 DEF IndInv, TypeOK, TxFits
<1>15. IdsGivenOut'
  <2>1. nextId < nextId' /\ \A id \in Ids : id < nextId => id < nextId'
    BY <1>1, <1>9 DEF Ids
  <2>2. \A id \in DOMAIN links' : id < nextId'
    BY <1>9, <2>1, InvFacts
  <2>3. ASSUME NEW u \in Requests
        PROVE  /\ \A id \in DOMAIN tx'[u].writes : id < nextId'
               /\ \A i \in DOMAIN tx'[u].ids : tx'[u].ids[i] < nextId'
    <3>1. CASE u = t
      BY <1>7, <1>8, <1>9, <2>1, <3>1, NothingWritten
    <3>2. CASE u # t
      <4>1. /\ \A id \in DOMAIN tx[u].writes : id < nextId /\ id \in Ids
            /\ \A i \in DOMAIN tx[u].ids : tx[u].ids[i] < nextId /\ tx[u].ids[i] \in Ids
        BY InvFacts DEF TxFits, IsTransaction, IsTable, Holds
      <4> QED BY <1>9, <2>1, <3>2, <4>1
    <3> QED BY <3>1, <3>2
  <2> QED BY <2>2, <2>3 DEF IdsGivenOut, Holds
<1>16. RowsHeldOnce'
  <2>1. \A u \in Requests \ {t} : tx'[u] = tx[u] /\ nextId \notin DOMAIN tx[u].writes
    BY <1>9, <1>10 DEF Holds
  <2>2. \A u \in Requests : \A i \in DOMAIN tx'[u].ids : tx'[u].ids[i] # nextId
    <3>1. \A u \in Requests \ {t} : \A i \in DOMAIN tx[u].ids : tx[u].ids[i] < nextId
      BY InvFacts
    <3>2. \A u \in Requests \ {t} : \A i \in DOMAIN tx[u].ids : tx[u].ids[i] # nextId
      <4> SUFFICES ASSUME NEW u \in Requests \ {t}, NEW i \in DOMAIN tx[u].ids
                   PROVE  tx[u].ids[i] # nextId
        OBVIOUS
      <4>1. tx[u].ids[i] < nextId
        BY <3>1
      <4> QED BY <1>1, <4>1 DEF Ids
    <3> QED BY <1>8, <1>9, <3>2, NothingWritten
  <2> SUFFICES ASSUME NEW u \in Requests, NEW v \in Requests
               PROVE  /\ u # v => DOMAIN tx'[u].writes \cap DOMAIN tx'[v].writes = {}
                      /\ tx'[v].op = "create" =>
                           \A i \in DOMAIN tx'[u].ids : tx'[u].ids[i] \notin DOMAIN tx'[v].writes
    BY DEF RowsHeldOnce, Holds
  <2>3. CASE v = t
    BY <1>7, <1>8, <1>9, <2>1, <2>2, <2>3
  <2>4. CASE v # t /\ u = t
    BY <1>7, <1>8, <1>9, <2>1, <2>4, NothingWritten
  <2>5. CASE v # t /\ u # t
    BY <1>9, <2>5 DEF IndInv, RowsHeldOnce, Holds
  <2> QED BY <2>3, <2>4, <2>5
<1>17. ASSUME NEW u \in Requests
       PROVE  (StageFits(tx[u]) /\ NewRowFits(tx[u]) /\ WritesFit(tx[u]) /\ ListFits(tx[u]))'
  <2>1. StageFits(tx'[u]) /\ NewRowFits(tx'[u]) /\ WritesFit(tx'[u]) /\ ListFits(tx'[u])
    BY <1>13 DEF TxFits
  <2>2. NewRowFits(tx[u])'
    BY <1>9, <2>1 DEF NewRowFits
  <2>3. WritesFit(tx[u])'
    BY <1>9, <2>1 DEF WritesFit, OwnedIn
  <2>4. ListFits(tx[u])'
    BY <1>9, <2>1 DEF ListFits
  <2> QED BY <2>1, <2>2, <2>3, <2>4
<1> QED BY <1>14, <1>15, <1>16, <1>17 DEF IndInv

(* DeleteLink deletes the row, if it is there and the owner's.             *)
LEMMA DeleteRowStep ==
  ASSUME IndInv, NEW t \in Requests, DeleteRow(t)
  PROVE  IndInv'
<1>1. TxFits(tx[t]) /\ IsTable(links, Row) /\ tx[t].pc = "delete"
  BY InvFacts DEF DeleteRow
<1>2. PICK l : l = tx[t].link
  OBVIOUS
<1>3. PICK put : put = Put(NoWrites, l, Deleted)
  OBVIOUS
<1>4. PICK next : next = [tx[t] EXCEPT !.pc = "order", !.writes = put]
  OBVIOUS
<1>5. Statement(t, next) /\ l \in OwnedIn(links, tx[t].owner)
  BY <1>2, <1>3, <1>4 DEF DeleteRow, Found
<1>6. l \in DOMAIN links /\ l \in Ids /\ l < nextId
  BY <1>5, InvFacts DEF OwnedIn
<1>7. tx[t].op = "delete" /\ tx[t].owner \in Owners /\ tx[t].ids = << >>
  BY <1>1 DEF TxFits, StageFits, IsTransaction
<1>8. IsTable(put, Row \cup {Deleted}) /\ DOMAIN put = {l} /\ put[l] = Deleted
  BY <1>3, <1>6, FirstPut
<1>9. /\ IsTransaction(next) /\ next.pc = "order" /\ next.op = "delete" /\ next.writes = put
      /\ next.ids = << >> /\ next.owner = tx[t].owner /\ next.link = l
  BY <1>1, <1>2, <1>4, <1>7, <1>8 DEF TxFits, IsTransaction
<1>10. TxFits(next)
  BY <1>5, <1>7, <1>8, <1>9, NothingWritten
     DEF TxFits, StageFits, NewRowFits, WritesFit, ListFits
<1>11. \A u \in Requests \ {t} : l \notin Holds(u)
  BY <1>1, <1>2 DEF DeleteRow, Blocked, HeldByOther, Wanted
<1> QED BY <1>5, <1>6, <1>8, <1>9, <1>10, <1>11, NothingWritten, StatementStep

(* What a move or a delete sees when it reads the list: the owner's        *)
(* committed links, without the one it has deleted.                        *)
LEMMA SeenAtOrder ==
  ASSUME IndInv, NEW t \in Requests, tx[t].op \in {"move", "delete"}, tx[t].pc = "order"
  PROVE  LET seen == Over(links, tx[t].writes) IN
         /\ IsTable(seen, Row)
         /\ seen = Over(links, IF tx[t].op = "move" THEN NoWrites
                                                    ELSE Put(NoWrites, tx[t].link, Deleted))
         /\ \A id \in DOMAIN seen : id \in DOMAIN links /\ seen[id] = links[id]
         /\ \A id \in DOMAIN links :
              id \in DOMAIN seen <=> ~ (tx[t].op = "delete" /\ id = tx[t].link)
<1>1. TxFits(tx[t]) /\ IsTable(links, Row) /\ IsTable(tx[t].writes, Row \cup {Deleted})
  BY InvFacts DEF TxFits, IsTransaction
<1>2. tx[t].ids = << >>
  BY <1>1 DEF TxFits, StageFits
<1>3. CASE tx[t].op = "move"
  <2>1. tx[t].writes = NoWrites
    BY <1>1, <1>3 DEF TxFits, StageFits
  <2>2. PICK none : none = NoWrites /\ DOMAIN none = {} /\ IsTable(none, Row \cup {Deleted})
    BY NothingWritten
  <2>3. PICK seen : seen = Over(links, none)
    OBVIOUS
  <2>4. /\ IsTable(seen, Row)
        /\ \A id : id \in DOMAIN seen <=> id \in DOMAIN links
        /\ \A id \in DOMAIN seen : seen[id] = links[id]
    <3>1. IsTable(links, Row) /\ IsTable(none, Row \cup {Deleted})
      BY <1>1, <2>2
    <3>2. /\ IsTable(seen, Row)
          /\ \A id : id \in DOMAIN seen <=>
               IF id \in DOMAIN none THEN none[id] # Deleted ELSE id \in DOMAIN links
          /\ \A id \in DOMAIN seen :
               seen[id] = IF id \in DOMAIN none THEN none[id] ELSE links[id]
      BY <2>3, <3>1, OverTable
    <3> QED BY <2>2, <3>2
  <2>5. seen = Over(links, tx[t].writes) /\ seen = Over(links, NoWrites)
    BY <2>1, <2>2, <2>3
  <2> QED BY <1>3, <2>4, <2>5
<1>4. CASE tx[t].op = "delete"
  <2>1. PICK w : w = tx[t].writes
    OBVIOUS
  <2>2. PICK l : l = tx[t].link
    OBVIOUS
  <2>3. l \in DOMAIN w /\ w[l] = Deleted
    BY <1>1, <1>4, <2>1, <2>2 DEF TxFits, ListFits
  <2>4. \A id \in DOMAIN w : id = l
    BY <1>1, <1>2, <1>4, <2>1, <2>2, NothingWritten DEF TxFits, WritesFit
  <2>5. l \in Ids
    BY <1>1, <2>1, <2>3 DEF IsTable
  <2>6. PICK put : put = Put(NoWrites, l, Deleted)
    OBVIOUS
  <2>7. DOMAIN put = {l} /\ put[l] = Deleted /\ put = [i \in DOMAIN put |-> put[i]]
    <3>1. DOMAIN put = {l} /\ put[l] = Deleted
      BY <2>5, <2>6, FirstPut
    <3> QED BY <2>6, <3>1 DEF Put
  <2>8. w = [i \in DOMAIN w |-> w[i]] /\ DOMAIN w = {l}
    BY <1>1, <2>1, <2>3, <2>4 DEF IsTable
  <2>9. w = put
    BY <2>3, <2>7, <2>8
  <2> QED BY <1>1, <1>4, <2>1, <2>2, <2>3, <2>6, <2>8, <2>9, OverTable
<1> QED BY <1>3, <1>4

(* A transaction sets out to write a list of the owner's links.            *)
LEMMA RewriteStep ==
  ASSUME IndInv, NEW t \in Requests, tx[t].op \in {"move", "delete"}, tx[t].pc = "order",
         NEW ids \in Seq(Ids), Rewrite(t, ids),
         \A i, k \in DOMAIN ids : ids[i] = ids[k] => i = k,
         \A i \in DOMAIN ids : /\ ids[i] \in OwnedIn(links, tx[t].owner)
                               /\ tx[t].op = "delete" => ids[i] # tx[t].link
  PROVE  IndInv'
<1>1. TxFits(tx[t]) /\ IsTable(links, Row)
  BY InvFacts
<1>2. PICK pc : pc = IF ids = << >> THEN "commit" ELSE "write"
  OBVIOUS
<1>3. PICK next : next = [tx[t] EXCEPT !.pc = pc, !.ids = ids, !.at = 1]
  OBVIOUS
<1>4. Statement(t, next)
  BY <1>2, <1>3 DEF Rewrite
<1>5. Len(ids) \in Nat /\ DOMAIN ids = 1..Len(ids) /\ (ids = << >> <=> Len(ids) = 0)
  BY LenProperties, EmptySeq
<1>6. /\ IsTransaction(next) /\ next.pc = pc /\ next.op = tx[t].op /\ next.writes = tx[t].writes
      /\ next.ids = ids /\ next.owner = tx[t].owner /\ next.link = tx[t].link /\ next.at = 1
  BY <1>1, <1>2, <1>3 DEF TxFits, IsTransaction
<1>7. StageFits(next)
  <2>1. CASE ids = << >>
    BY <1>1, <1>2, <1>5, <1>6, <2>1 DEF TxFits, StageFits
  <2>2. CASE ids # << >>
    BY <1>1, <1>2, <1>5, <1>6, <2>2 DEF TxFits, StageFits
  <2> QED BY <2>1, <2>2
<1>8. tx[t].ids = << >>
  BY <1>1 DEF TxFits, StageFits
<1>9. NewRowFits(next)
  BY <1>6 DEF NewRowFits
<1>10. WritesFit(next)
  BY <1>1, <1>6, <1>8, NothingWritten DEF TxFits, WritesFit
<1>11. ListFits(next)
  <2>1. \A i \in DOMAIN ids : ~ (i < 1)
    BY <1>5
  <2> QED BY <1>1, <1>6, <2>1 DEF TxFits, ListFits, OwnedIn
<1>12. /\ \A id \in DOMAIN next.writes : id < nextId
       /\ \A i \in DOMAIN next.ids : next.ids[i] < nextId
       /\ \A u \in Requests \ {t} : DOMAIN next.writes \cap Holds(u) = {}
  BY <1>6, InvFacts DEF Holds, OwnedIn
<1>13. \A u \in Requests \ {t} : tx[u].op = "create" =>
          \A i \in DOMAIN next.ids : next.ids[i] \notin Holds(u)
  BY <1>6, InvFacts DEF OwnedIn
<1> QED BY <1>4, <1>6, <1>7, <1>9, <1>10, <1>11, <1>12, <1>13, StatementStep DEF TxFits

(* An exchange of two members.                                             *)
LEMMA SwapList ==
  ASSUME NEW s \in Seq(Ids), \A i, k \in DOMAIN s : s[i] = s[k] => i = k,
         NEW at \in DOMAIN s, NEW to \in DOMAIN s
  PROVE  LET q == Swap(s, at, to) IN
         /\ q \in Seq(Ids) /\ DOMAIN q = DOMAIN s /\ Len(q) = Len(s)
         /\ q[at] = s[to] /\ q[to] = s[at]
         /\ \A i \in DOMAIN s : i # at /\ i # to => q[i] = s[i]
         /\ \A i, k \in DOMAIN q : q[i] = q[k] => i = k
<1> DEFINE q == Swap(s, at, to)
<1>1. DOMAIN s = 1..Len(s) /\ Len(s) \in Nat
  BY LenProperties
<1>2. \A i \in 1..Len(s) : s[i] \in Ids
  BY ElementOfSeq
<1>3. /\ DOMAIN q = 1..Len(s)
      /\ \A i \in 1..Len(s) : q[i] = IF i = to THEN s[at] ELSE IF i = at THEN s[to] ELSE s[i]
  BY <1>1 DEF Swap
<1>4. q = [i \in 1..Len(s) |-> q[i]]
  BY <1>1 DEF Swap
<1> HIDE DEF q
<1>5. \A i \in 1..Len(s) : q[i] \in Ids
  BY <1>1, <1>2, <1>3
<1>6. q \in [1..Len(s) -> Ids]
  BY <1>4, <1>5
<1>7. q \in Seq(Ids) /\ Len(q) = Len(s)
  BY <1>1, <1>6, IsASeq, LenProperties
<1>8. \A i, k \in DOMAIN q : q[i] = q[k] => i = k
  BY <1>1, <1>3
<1> QED BY <1>1, <1>3, <1>7, <1>8 DEF q

(* orderedLinkIDs is read, and the list to write is made of it.            *)
LEMMA ReadOrderStep ==
  ASSUME IndInv, NEW t \in Requests, ReadForDelete(t) \/ ReadForMove(t)
  PROVE  IndInv'
<1>1. tx[t].op \in {"move", "delete"} /\ tx[t].pc = "order"
  BY DEF ReadForDelete, ReadForMove
<1>2. PICK seen : seen = Over(links, tx[t].writes)
  OBVIOUS
<1>3. PICK s : s = Order(t)
  OBVIOUS
<1>4. /\ IsTable(seen, Row)
      /\ \A id \in DOMAIN seen : id \in DOMAIN links /\ seen[id] = links[id]
      /\ \A id \in DOMAIN links : id \in DOMAIN seen => ~ (tx[t].op = "delete" /\ id = tx[t].link)
  BY <1>1, <1>2, SeenAtOrder
<1>5. /\ s \in Seq(Ids) /\ \A i, k \in DOMAIN s : s[i] = s[k] => i = k
      /\ \A i \in DOMAIN s : s[i] \in OwnedIn(seen, tx[t].owner)
  BY <1>2, <1>3, <1>4, OrderLists DEF Order
<1>6. \A i \in DOMAIN s : /\ s[i] \in OwnedIn(links, tx[t].owner)
                          /\ tx[t].op = "delete" => s[i] # tx[t].link
  BY <1>4, <1>5 DEF OwnedIn
<1>7. CASE ReadForDelete(t)
  BY <1>1, <1>3, <1>5, <1>6, <1>7, RewriteStep DEF ReadForDelete
<1>8. CASE ReadForMove(t)
  <2>1. PICK at \in DOMAIN s : /\ Neighbour(t, at) \in DOMAIN s
                               /\ Rewrite(t, Swap(s, at, Neighbour(t, at)))
    BY <1>3, <1>8 DEF ReadForMove
  <2>2. PICK to \in DOMAIN s : to = Neighbour(t, at)
    BY <2>1
  <2>3. PICK q : q = Swap(s, at, to)
    OBVIOUS
  <2>4. /\ q \in Seq(Ids) /\ DOMAIN q = DOMAIN s
        /\ q[at] = s[to] /\ q[to] = s[at]
        /\ \A i \in DOMAIN s : i # at /\ i # to => q[i] = s[i]
        /\ \A i, k \in DOMAIN q : q[i] = q[k] => i = k
    BY <1>5, <2>3, SwapList
  <2>5. \A i \in DOMAIN q : \E k \in DOMAIN s : q[i] = s[k]
    BY <2>4
  <2>6. Rewrite(t, q)
    BY <2>1, <2>2, <2>3
  <2>7. \A i \in DOMAIN q : /\ q[i] \in OwnedIn(links, tx[t].owner)
                            /\ tx[t].op = "delete" => q[i] # tx[t].link
    BY <1>6, <2>5
  <2> QED BY <1>1, <2>4, <2>6, <2>7, RewriteStep
<1> QED BY <1>7, <1>8

(* One UPDATE of writePositions: the row, if it is still the owner's, is   *)
(* locked and has its place in the list.                                   *)
LEMMA WritePositionStep ==
  ASSUME IndInv, NEW t \in Requests, WritePosition(t)
  PROVE  IndInv'
<1>1. TxFits(tx[t]) /\ IsTable(links, Row) /\ tx[t].pc = "write"
  BY InvFacts DEF WritePosition
<1>2. PICK at : at = tx[t].at
  OBVIOUS
<1>3. PICK o : o = tx[t].owner
  OBVIOUS
<1>4. PICK ids : ids = tx[t].ids
  OBVIOUS
<1>5. PICK w : w = tx[t].writes
  OBVIOUS
<1>6. /\ tx[t].op \in {"move", "delete"} /\ o \in Owners
      /\ ids \in Seq(Ids) /\ at \in 1..Len(ids) /\ IsTable(w, Row \cup {Deleted})
  BY <1>1, <1>2, <1>3, <1>4, <1>5 DEF TxFits, StageFits, IsTransaction
<1>7. /\ DOMAIN ids = 1..Len(ids) /\ Len(ids) \in Nat /\ at \in DOMAIN ids
      /\ ids[at] \in Ids
  BY <1>6, LenProperties, ElementOfSeq
<1>8. PICK id : id = ids[at]
  OBVIOUS
<1>9. PICK row : row = [owner |-> o, position |-> at - 1]
  OBVIOUS
<1>10. row \in Row
  BY <1>6, <1>9 DEF Row
<1>11. PICK placed : placed = Placed(t)
  OBVIOUS
<1>12. placed = IF id \in OwnedIn(links, o) THEN Put(w, id, row) ELSE w
  BY <1>2, <1>3, <1>4, <1>5, <1>8, <1>9, <1>11 DEF Placed
<1>13. /\ IsTable(placed, Row \cup {Deleted})
       /\ \A i \in DOMAIN placed : i \in DOMAIN w \/ (i = id /\ id \in OwnedIn(links, o))
       /\ \A i \in DOMAIN w : i \in DOMAIN placed /\ (i # id => placed[i] = w[i])
       /\ id \in OwnedIn(links, o) => id \in DOMAIN placed /\ placed[id] = row
  <2>1. CASE id \in OwnedIn(links, o)
    <3>1. placed = [i \in DOMAIN w \cup {id} |-> IF i = id THEN row ELSE w[i]]
      BY <1>12, <2>1 DEF Put
    <3>2. /\ DOMAIN placed = DOMAIN w \cup {id} /\ placed = [i \in DOMAIN placed |-> placed[i]]
          /\ placed[id] = row /\ \A i \in DOMAIN w : i # id => placed[i] = w[i]
      BY <3>1
    <3>3. id \in Ids /\ \A i \in DOMAIN w : i \in Ids /\ w[i] \in Row \cup {Deleted}
      BY <1>6, <1>7, <1>8 DEF IsTable
    <3>4. \A i \in DOMAIN placed : i \in Ids /\ placed[i] \in Row \cup {Deleted}
      BY <1>10, <3>2, <3>3
    <3>5. IsTable(placed, Row \cup {Deleted})
      BY <3>2, <3>4 DEF IsTable
    <3> QED BY <2>1, <3>2, <3>5
  <2>2. CASE id \notin OwnedIn(links, o)
    BY <1>6, <1>12, <2>2
  <2> QED BY <2>1, <2>2
<1>14. PICK pc : pc = IF at = Len(ids) THEN "commit" ELSE "write"
  OBVIOUS
<1>15. PICK next : next = [tx[t] EXCEPT !.writes = placed, !.at = at + 1, !.pc = pc]
  OBVIOUS
<1>16. Statement(t, next)
  <2>1. [tx[t] EXCEPT !.writes = Placed(t), !.at = @ + 1,
                      !.pc = IF tx[t].at = Len(tx[t].ids) THEN "commit" ELSE "write"] = next
    BY <1>1, <1>2, <1>4, <1>11, <1>14, <1>15 DEF TxFits, IsTransaction
  <2> QED BY <2>1 DEF WritePosition
<1>17. /\ IsTransaction(next)
       /\ next.pc = pc /\ next.op = tx[t].op /\ next.writes = placed
       /\ next.ids = ids /\ next.owner = o /\ next.link = tx[t].link /\ next.at = at + 1
  <2>1. at + 1 \in Nat /\ pc \in {"commit", "write"}
    BY <1>6, <1>7, <1>14
  <2>2. tx[t].ids = ids /\ tx[t].owner = o
    BY <1>3, <1>4
  <2> QED BY <1>1, <1>13, <1>15, <2>1, <2>2 DEF TxFits, IsTransaction
<1>18. StageFits(next)
  <2>1. CASE at = Len(ids)
    BY <1>1, <1>6, <1>7, <1>14, <1>17, <2>1 DEF TxFits, StageFits
  <2>2. CASE at # Len(ids)
    BY <1>1, <1>6, <1>7, <1>14, <1>17, <2>2 DEF TxFits, StageFits
  <2> QED BY <2>1, <2>2
<1>19. NewRowFits(next)
  BY <1>6, <1>17 DEF NewRowFits
<1>20. \A i \in DOMAIN ids : /\ (i < at + 1 <=> i < at \/ i = at)
                             /\ (ids[i] = id => i = at)
  BY <1>1, <1>4, <1>6, <1>7, <1>8 DEF TxFits, ListFits
<1>21. ASSUME NEW i \in DOMAIN placed
       PROVE  /\ i \in OwnedIn(links, o)
              /\ \/ tx[t].op = "delete" /\ i = tx[t].link /\ placed[i] = Deleted
                 \/ \E k \in DOMAIN ids : /\ k < at + 1 /\ i = ids[k]
                                          /\ placed[i] = [owner |-> o, position |-> k - 1]
  <2>1. CASE i = id /\ id \in OwnedIn(links, o)
    BY <1>7, <1>8, <1>9, <1>13, <1>20, <2>1
  <2>2. CASE i # id
    <3>1. i \in DOMAIN w /\ placed[i] = w[i]
      BY <1>13, <1>21, <2>2
    <3>2. /\ i \in OwnedIn(links, o)
          /\ \/ tx[t].op = "delete" /\ i = tx[t].link /\ w[i] = Deleted
             \/ \E k \in DOMAIN ids : /\ k < at /\ i = ids[k]
                                      /\ w[i] = [owner |-> o, position |-> k - 1]
      BY <1>1, <1>2, <1>3, <1>4, <1>5, <1>6, <3>1 DEF TxFits, WritesFit
    <3> QED BY <1>20, <3>1, <3>2
  <2>3. i \in DOMAIN w => i \in OwnedIn(links, o)
    BY <1>1, <1>3, <1>5, <1>6 DEF TxFits, WritesFit
  <2> QED BY <1>13, <1>21, <2>1, <2>2, <2>3
<1>22. WritesFit(next)
  BY <1>17, <1>21 DEF WritesFit
<1>23. ListFits(next)
  <2>1. \A i, k \in DOMAIN ids : ids[i] = ids[k] => i = k
    BY <1>1, <1>4 DEF TxFits, ListFits
  <2>2. ASSUME NEW i \in DOMAIN ids, ids[i] \in DOMAIN links
        PROVE  /\ links[ids[i]].owner = o
               /\ i < at + 1 => ids[i] \in DOMAIN placed
    <3>1. links[ids[i]].owner = o /\ (i < at => ids[i] \in DOMAIN w)
      BY <1>1, <1>2, <1>3, <1>4, <1>5, <2>2 DEF TxFits, ListFits
    <3>2. i = at => ids[i] \in OwnedIn(links, o)
      BY <2>2, <3>1 DEF OwnedIn
    <3> QED BY <1>8, <1>13, <1>20, <3>1, <3>2
  <2>3. tx[t].op = "delete" => /\ tx[t].link \in DOMAIN placed /\ placed[tx[t].link] = Deleted
                               /\ \A i \in DOMAIN ids : ids[i] # tx[t].link
    BY <1>1, <1>4, <1>5, <1>7, <1>8, <1>13 DEF TxFits, ListFits
  <2> QED BY <1>17, <2>1, <2>2, <2>3 DEF ListFits
<1>24. \A u \in Requests \ {t} : id \notin Holds(u)
  <2>1. Wanted(t) = id
    BY <1>1, <1>2, <1>4, <1>8 DEF Wanted
  <2> QED BY <2>1 DEF WritePosition, Blocked, HeldByOther
<1>25. /\ \A i \in DOMAIN placed : i < nextId
       /\ \A i \in DOMAIN ids : ids[i] < nextId
       /\ \A u \in Requests \ {t} : DOMAIN placed \cap Holds(u) = {}
  BY <1>4, <1>5, <1>13, <1>24, InvFacts DEF Holds, OwnedIn
<1>26. \A u \in Requests \ {t} : tx[u].op = "create" =>
          \A i \in DOMAIN ids : ids[i] \notin Holds(u)
  BY <1>4, InvFacts
<1>27. next.op # "create"
  BY <1>6, <1>17
<1> QED BY <1>16, <1>17, <1>18, <1>19, <1>22, <1>23, <1>25, <1>26, <1>27, StatementStep DEF TxFits

------------------------------------------------------------------------------
(* What a commit does to the rows.                                         *)
LEMMA CommitRows ==
  ASSUME IndInv, NEW t \in Requests, Commit(t)
  PROVE  /\ IsTable(links', Row) /\ tx[t].op \in {"create", "move", "delete"}
         /\ tx[t].owner \in Owners
         /\ \A id \in DOMAIN links' \ DOMAIN links : tx[t].op = "create" /\ id \in Holds(t)
         /\ \A id \in DOMAIN links \ Holds(t) : id \in DOMAIN links' /\ links'[id] = links[id]
         /\ \A id \in DOMAIN links \cap Holds(t) :
              links[id].owner = tx[t].owner /\ tx[t].op \in {"move", "delete"}
         /\ \A id \in DOMAIN links \ DOMAIN links' : tx[t].op = "delete" /\ tx[t].link = id
         /\ \A id \in DOMAIN links \cap DOMAIN links' : links'[id].owner = links[id].owner
         /\ \A id \in DOMAIN links' \cap Holds(t) : links'[id] = tx[t].writes[id]
<1>1. /\ TxFits(tx[t]) /\ IsTable(links, Row) /\ tx[t].pc = "commit"
      /\ tx[t].op = "create" => Holds(t) \cap DOMAIN links = {}
  BY InvFacts DEF Commit
<1>2. PICK w : w = tx[t].writes
  OBVIOUS
<1>3. /\ IsTable(w, Row \cup {Deleted}) /\ tx[t].op \in {"create", "move", "delete"}
      /\ Holds(t) = DOMAIN w /\ tx[t].owner \in Owners
  BY <1>1, <1>2 DEF TxFits, StageFits, IsTransaction, Holds
<1>4. links' = Over(links, w)
  BY <1>2 DEF Commit
<1>5. /\ IsTable(links', Row)
      /\ \A id : id \in DOMAIN links' <=>
           IF id \in DOMAIN w THEN w[id] # Deleted ELSE id \in DOMAIN links
      /\ \A id \in DOMAIN links' : links'[id] = IF id \in DOMAIN w THEN w[id] ELSE links[id]
  BY <1>1, <1>3, <1>4, OverTable
<1>6. ASSUME tx[t].op \in {"move", "delete"}, NEW id \in DOMAIN w
      PROVE  /\ id \in OwnedIn(links, tx[t].owner)
             /\ \/ tx[t].op = "delete" /\ id = tx[t].link /\ w[id] = Deleted
                \/ \E i \in DOMAIN tx[t].ids : w[id] = [owner |-> tx[t].owner, position |-> i - 1]
  BY <1>1, <1>2, <1>6 DEF TxFits, WritesFit
<1>7. \A id \in DOMAIN links' \ DOMAIN links : tx[t].op = "create" /\ id \in Holds(t)
  BY <1>3, <1>5, <1>6 DEF OwnedIn
<1>8. \A id \in DOMAIN links \ Holds(t) : id \in DOMAIN links' /\ links'[id] = links[id]
  BY <1>3, <1>5
<1>9. \A id \in DOMAIN links \cap Holds(t) :
        links[id].owner = tx[t].owner /\ tx[t].op \in {"move", "delete"}
  BY <1>1, <1>3, <1>6 DEF OwnedIn
<1>10. \A id \in DOMAIN links \ DOMAIN links' : tx[t].op = "delete" /\ tx[t].link = id
  <2> SUFFICES ASSUME NEW id \in DOMAIN links \ DOMAIN links'
               PROVE  tx[t].op = "delete" /\ tx[t].link = id
    OBVIOUS
  <2>1. id \in DOMAIN w /\ w[id] = Deleted
    BY <1>5
  <2>2. tx[t].op \in {"move", "delete"}
    BY <1>3, <1>9, <2>1
  <2>3. \A i \in DOMAIN tx[t].ids : Deleted # [owner |-> tx[t].owner, position |-> i - 1]
    BY <1>3, OwnersAssumption DEF Deleted
  <2> QED BY <1>6, <2>1, <2>2, <2>3
<1>11. \A id \in DOMAIN links \cap DOMAIN links' : links'[id].owner = links[id].owner
  <2> SUFFICES ASSUME NEW id \in DOMAIN links \cap DOMAIN links'
               PROVE  links'[id].owner = links[id].owner
    OBVIOUS
  <2>1. CASE id \in DOMAIN w
    <3>1. w[id] # Deleted /\ links'[id] = w[id]
      BY <1>5, <2>1
    <3>2. tx[t].op \in {"move", "delete"} /\ links[id].owner = tx[t].owner
      BY <1>3, <1>9, <2>1
    <3>3. PICK i \in DOMAIN tx[t].ids : w[id] = [owner |-> tx[t].owner, position |-> i - 1]
      BY <1>6, <2>1, <3>1, <3>2
    <3> QED BY <3>1, <3>2, <3>3
  <2>2. CASE id \notin DOMAIN w
    BY <1>5, <2>2
  <2> QED BY <2>1, <2>2
<1>12. \A id \in DOMAIN links' \cap Holds(t) : links'[id] = tx[t].writes[id]
  BY <1>2, <1>3, <1>5
<1> QED BY <1>3, <1>5, <1>7, <1>8, <1>9, <1>10, <1>11, <1>12

(* A commit disturbs no other transaction.                                 *)
LEMMA CommitStep ==
  ASSUME IndInv, NEW t \in Requests, Commit(t)
  PROVE  IndInv'
<1>1. /\ IsTable(links', Row) /\ tx[t].op \in {"create", "move", "delete"}
      /\ tx[t].owner \in Owners
      /\ \A id \in DOMAIN links' \ DOMAIN links : tx[t].op = "create" /\ id \in Holds(t)
      /\ \A id \in DOMAIN links \ Holds(t) : id \in DOMAIN links' /\ links'[id] = links[id]
      /\ \A id \in DOMAIN links \cap DOMAIN links' : links'[id].owner = links[id].owner
  BY CommitRows
<1>2. /\ DOMAIN tx' = Requests /\ tx'[t] = Idle /\ nextId' = nextId
      /\ \A u \in Requests \ {t} : tx'[u] = tx[u]
      /\ tidied' \in {tidied, tidied \cup {tx[t].owner}}
  BY DEF Commit, IndInv, TypeOK
<1>3. TypeOK'
  <2>1. \A u \in Requests : IsTransaction(tx'[u])
    BY <1>2, IdleFits, InvFacts DEF TxFits
  <2>2. tidied' \subseteq Owners
    BY <1>1, <1>2 DEF IndInv, TypeOK
  <2> QED BY <1>1, <1>2, <2>1, <2>2 DEF IndInv, TypeOK
<1>4. IdsGivenOut'
  <2>1. \A id \in DOMAIN links' : id < nextId
    BY <1>1, InvFacts
  <2>2. \A u \in Requests : /\ \A id \in DOMAIN tx'[u].writes : id < nextId
                            /\ \A i \in DOMAIN tx'[u].ids : tx'[u].ids[i] < nextId
    BY <1>2, IdleFits, NothingWritten, InvFacts DEF Holds
  <2> QED BY <1>2, <2>1, <2>2 DEF IdsGivenOut, Holds
<1>5. RowsHeldOnce'
  <2> SUFFICES ASSUME NEW u \in Requests, NEW v \in Requests
               PROVE  /\ u # v => DOMAIN tx'[u].writes \cap DOMAIN tx'[v].writes = {}
                      /\ tx'[v].op = "create" =>
                           \A i \in DOMAIN tx'[u].ids : tx'[u].ids[i] \notin DOMAIN tx'[v].writes
    BY DEF RowsHeldOnce, Holds
  <2>1. CASE u = t \/ v = t
    BY <1>2, <2>1, IdleFits, NothingWritten
  <2>2. CASE u # t /\ v # t
    BY <1>2, <2>2 DEF IndInv, RowsHeldOnce, Holds
  <2> QED BY <2>1, <2>2
<1>6. ASSUME NEW u \in Requests
      PROVE  (StageFits(tx[u]) /\ NewRowFits(tx[u]) /\ WritesFit(tx[u]) /\ ListFits(tx[u]))'
  <2>1. CASE u = t
    BY <1>2, <2>1, IdleFits, NothingWritten
       DEF TxFits, StageFits, NewRowFits, WritesFit, ListFits
  <2>2. CASE u # t
    <3>1. PICK r : r = tx[u]
      OBVIOUS
    <3>2. TxFits(r) /\ tx'[u] = r /\ IsTable(r.writes, Row \cup {Deleted})
      BY <1>2, <2>2, <3>1, InvFacts DEF TxFits, IsTransaction
    <3>3. \A id \in DOMAIN r.writes : id \notin Holds(t)
      BY <2>2, <3>1, InvFacts DEF Holds
    <3>4. \A i \in DOMAIN r.ids : tx[t].op = "create" => r.ids[i] \notin Holds(t)
      BY <3>1, InvFacts
    <3>5. NewRowFits(tx[u])'
      <4> SUFFICES ASSUME r.op = "create", r.pc = "commit"
                   PROVE  \E id \in Ids \ DOMAIN links' :
                            r.writes = Put(NoWrites, id, [owner |-> r.owner,
                                                          position |-> r.position])
        BY <3>2 DEF NewRowFits
      <4>1. PICK id \in Ids \ DOMAIN links :
              r.writes = Put(NoWrites, id, [owner |-> r.owner, position |-> r.position])
        BY <3>2 DEF TxFits, NewRowFits
      <4>2. id \in DOMAIN r.writes
        BY <4>1, NothingWritten DEF Put
      <4>3. id \notin DOMAIN links'
        BY <1>1, <3>3, <4>2
      <4> QED BY <4>1, <4>3
    <3>6. WritesFit(tx[u])'
      <4> SUFFICES ASSUME r.op \in {"move", "delete"}, NEW id \in DOMAIN r.writes
                   PROVE  /\ id \in DOMAIN links' /\ links'[id].owner = r.owner
                          /\ \/ r.op = "delete" /\ id = r.link /\ r.writes[id] = Deleted
                             \/ \E i \in DOMAIN r.ids :
                                  /\ i < r.at /\ id = r.ids[i]
                                  /\ r.writes[id] = [owner |-> r.owner, position |-> i - 1]
        BY <3>2 DEF WritesFit, OwnedIn
      <4>1. id \in DOMAIN links /\ links[id].owner = r.owner
        BY <3>2 DEF TxFits, WritesFit, OwnedIn
      <4>2. id \in DOMAIN links' /\ links'[id] = links[id]
        BY <1>1, <3>3, <4>1
      <4> QED BY <3>2, <4>1, <4>2 DEF TxFits, WritesFit
    <3>7. ListFits(tx[u])'
      <4>1. ASSUME NEW i \in DOMAIN r.ids, r.ids[i] \in DOMAIN links'
            PROVE  /\ links'[r.ids[i]].owner = r.owner
                   /\ i < r.at => r.ids[i] \in DOMAIN r.writes
        <5>1. r.ids[i] \in DOMAIN links
          BY <1>1, <3>4, <4>1
        <5>2. links'[r.ids[i]].owner = links[r.ids[i]].owner
          BY <1>1, <4>1, <5>1
        <5> QED BY <3>2, <5>1, <5>2 DEF TxFits, ListFits
      <4>2. /\ \A i, k \in DOMAIN r.ids : r.ids[i] = r.ids[k] => i = k
            /\ r.op = "delete" /\ r.pc # "delete" =>
                 /\ r.link \in DOMAIN r.writes /\ r.writes[r.link] = Deleted
                 /\ \A i \in DOMAIN r.ids : r.ids[i] # r.link
        BY <3>2 DEF TxFits, ListFits
      <4> QED BY <3>2, <4>1, <4>2 DEF ListFits
    <3>8. StageFits(tx[u])'
      BY <3>2 DEF TxFits
    <3> QED BY <3>5, <3>6, <3>7, <3>8
  <2> QED BY <2>1, <2>2
<1> QED BY <1>3, <1>4, <1>5, <1>6 DEF IndInv

(* The process dies; MySQL rolls every transaction back.                   *)
LEMMA CrashStep ==
  ASSUME IndInv, Crash
  PROVE  IndInv'
<1>1. /\ UNCHANGED <<links, nextId, tidied>> /\ DOMAIN tx' = Requests
      /\ \A u \in Requests : tx'[u] = Idle
  BY DEF Crash
<1>2. TypeOK'
  BY <1>1, IdleFits DEF IndInv, TypeOK, TxFits
<1>3. IdsGivenOut' /\ RowsHeldOnce'
  BY <1>1, IdleFits, NothingWritten DEF IndInv, IdsGivenOut, RowsHeldOnce, Holds
<1>4. ASSUME NEW u \in Requests
      PROVE  (StageFits(tx[u]) /\ NewRowFits(tx[u]) /\ WritesFit(tx[u]) /\ ListFits(tx[u]))'
  BY <1>1, IdleFits, NothingWritten DEF TxFits, StageFits, NewRowFits, WritesFit, ListFits
<1> QED BY <1>2, <1>3, <1>4 DEF IndInv

(* Every step keeps the invariant.                                         *)
LEMMA NextInv == IndInv /\ [Next]_vars => IndInv'
<1> SUFFICES ASSUME IndInv, [Next]_vars PROVE IndInv'
  OBVIOUS
<1>1. ASSUME NEW t \in Requests, Step(t)
      PROVE  IndInv'
  <2>1. CASE Read(t)
    BY <2>1, ReadMaxStep, ReadOrderStep, RollbackStep DEF Read, MoveRefused
  <2>2. CASE Write(t)
    BY <2>2, InsertStep, DeleteRowStep, WritePositionStep, RollbackStep DEF Write, DeleteMissing
  <2>3. CASE Commit(t) \/ DeadlockVictim(t)
    BY <2>3, CommitStep, RollbackStep DEF DeadlockVictim
  <2> QED BY <1>1, <2>1, <2>2, <2>3 DEF Step
<1>2. ASSUME NEW t \in Requests, Fail(t)
      PROVE  IndInv'
  BY <1>2, RollbackStep DEF Fail
<1>3. CASE UNCHANGED vars
  BY <1>3 DEF vars, IndInv, TypeOK, IdsGivenOut, RowsHeldOnce, Holds, NewRowFits, WritesFit,
              ListFits, OwnedIn
<1> QED BY <1>1, <1>2, <1>3, BeginStep, CrashStep DEF Next

(* However requests interleave, fail and crash, the tables and the         *)
(* transactions fit together: a row has one writer, what a rewrite has     *)
(* written is there and its owner's, and its list has no foreign link.     *)
THEOREM AlwaysFits == Spec => []IndInv
<1> QED BY InitInv, NextInv, PTL DEF Spec

------------------------------------------------------------------------------
(* A commit of somebody else, or of another link, never removes a link.    *)
LEMMA OwnerStep == IndInv /\ [Next]_vars => OnlyOwnerChangesStep \/ UNCHANGED vars
<1> SUFFICES ASSUME IndInv, Next, NEW id \in DOMAIN links,
                    ~ (id \in DOMAIN links' /\ links'[id] = links[id])
             PROVE  \E t \in Requests :
                      /\ Commit(t)
                      /\ tx[t].owner = links[id].owner
                      /\ id \notin DOMAIN links' => tx[t].op = "delete" /\ tx[t].link = id
  BY DEF OnlyOwnerChangesStep
<1>1. PICK t \in Requests : Commit(t)
  <2>1. links' # links
    OBVIOUS
  <2> QED BY <2>1 DEF Next, Step, Read, Write, ReadMax, ReadForDelete, ReadForMove, MoveRefused,
            InsertLink, DeleteRow, DeleteMissing, WritePosition, DeadlockVictim, Fail, Begin,
            Crash, Rewrite, Statement, Rollback
<1> QED BY <1>1, CommitRows

(* A link changes only by a commit of its owner's request, and disappears  *)
(* only by the delete of that link.                                        *)
THEOREM OwnersAlone == Spec => OnlyOwnerChanges
<1> QED BY AlwaysFits, OwnerStep, PTL DEF Spec, OnlyOwnerChanges

(* A commit gives every link of its list its place.                        *)
LEMMA InstalledStep == IndInv => InstalledWholeStep
<1> SUFFICES ASSUME IndInv, NEW t \in Requests, Commit(t), NEW i \in DOMAIN tx[t].ids,
                    tx[t].ids[i] \in DOMAIN links'
             PROVE  links'[tx[t].ids[i]].position = i - 1
  BY DEF InstalledWholeStep
<1>1. TxFits(tx[t]) /\ tx[t].pc = "commit"
  BY InvFacts DEF Commit
<1>2. PICK id : id = tx[t].ids[i]
  OBVIOUS
<1>3. PICK ids \in Seq(Ids) : ids = tx[t].ids
  BY <1>1 DEF TxFits, IsTransaction
<1>4. i \in 1..Len(ids) /\ Len(ids) \in Nat
  BY <1>3, LenProperties
<1>5. tx[t].op \in {"move", "delete"} /\ tx[t].at = Len(ids) + 1
  BY <1>1, <1>3, NothingWritten, CommitRows DEF TxFits, StageFits
<1>6. id \in DOMAIN links /\ i < tx[t].at
  BY <1>2, <1>4, <1>5, CommitRows
<1>7. id \in Holds(t) /\ links'[id] = tx[t].writes[id]
  BY <1>1, <1>2, <1>6, CommitRows DEF TxFits, ListFits, Holds
<1>8. ~ (tx[t].op = "delete" /\ id = tx[t].link)
  BY <1>1, <1>2 DEF TxFits, ListFits
<1>9. PICK k \in DOMAIN tx[t].ids :
        id = tx[t].ids[k] /\ tx[t].writes[id] = [owner |-> tx[t].owner, position |-> k - 1]
  BY <1>1, <1>5, <1>7, <1>8 DEF TxFits, WritesFit, Holds
<1>10. k = i
  BY <1>1, <1>2, <1>9 DEF TxFits, ListFits
<1> QED BY <1>2, <1>7, <1>9, <1>10

(* Two rewrites of one list are never mixed: each is installed whole.      *)
THEOREM RewritesWhole == Spec => InstalledWhole
<1> QED BY AlwaysFits, InstalledStep, PTL DEF InstalledWhole

------------------------------------------------------------------------------
(* Who can change what: the rows change by a commit; a transaction that    *)
(* is past its reading was put there by one of five statements.            *)
LEMMA StepKinds ==
  ASSUME IndInv, [Next]_vars
  PROVE  /\ UNCHANGED <<links, tidied>> \/ \E t \in Requests : Commit(t)
         /\ \A u \in Requests :
              \/ tx'[u] = tx[u]
              \/ tx'[u].pc \in {"idle", "max", "delete", "order"}
              \/ /\ UNCHANGED <<links, tidied>>
                 /\ \/ ReadMax(u) \/ InsertLink(u) \/ WritePosition(u)
                    \/ ReadForDelete(u) \/ ReadForMove(u)
<1>0. DOMAIN tx = Requests /\ Idle.pc = "idle"
  BY DEF IndInv, TypeOK, Idle
<1>1. CASE UNCHANGED vars
  BY <1>1 DEF vars
<1>2. ASSUME NEW t \in Requests, Rollback(t)
      PROVE  UNCHANGED <<links, tidied>> /\ \A u \in Requests : tx'[u] = tx[u] \/ tx'[u].pc = "idle"
  BY <1>0, <1>2 DEF Rollback
<1>3. ASSUME NEW t \in Requests, NEW next, Statement(t, next)
      PROVE  UNCHANGED <<links, tidied>> /\ tx'[t] = next
             /\ \A u \in Requests \ {t} : tx'[u] = tx[u]
  BY <1>0, <1>3 DEF Statement
<1>4. ASSUME NEW t \in Requests, NEW o \in Owners, Begin(t, o)
      PROVE  UNCHANGED <<links, tidied>>
             /\ \A u \in Requests : tx'[u] = tx[u] \/ tx'[u].pc \in {"max", "delete", "order"}
  <2>1. PICK next : /\ Statement(t, next)
                    /\ \/ next = [Idle EXCEPT !.op = "create", !.pc = "max", !.owner = o]
                       \/ \E l \in Ids, up \in BOOLEAN :
                            next = [Idle EXCEPT !.op = "move", !.pc = "order", !.owner = o,
                                                !.link = l, !.up = up]
                       \/ \E l \in Ids :
                            next = [Idle EXCEPT !.op = "delete", !.pc = "delete",
                                                !.owner = o, !.link = l]
    BY <1>4 DEF Begin
  <2>2. next.pc \in {"max", "delete", "order"}
    BY <2>1 DEF Idle
  <2> QED BY <1>3, <2>1, <2>2
<1>5. ASSUME NEW t \in Requests, Commit(t)
      PROVE  \A u \in Requests : tx'[u] = tx[u] \/ tx'[u].pc = "idle"
  BY <1>0, <1>5 DEF Commit
<1>6. ASSUME NEW t \in Requests, Read(t) \/ Write(t)
      PROVE  /\ UNCHANGED <<links, tidied>>
             /\ \A u \in Requests \ {t} : tx'[u] = tx[u]
             /\ \/ ReadMax(t) \/ InsertLink(t) \/ WritePosition(t)
                \/ ReadForDelete(t) \/ ReadForMove(t)
                \/ tx'[t].pc \in {"idle", "order"}
  <2>1. CASE MoveRefused(t) \/ DeleteMissing(t)
    BY <1>0, <1>2, <2>1 DEF MoveRefused, DeleteMissing, Rollback
  <2>2. CASE InsertLink(t)
    BY <1>0, <2>2 DEF InsertLink
  <2>3. CASE DeleteRow(t)
    <3>1. PICK next : Statement(t, next) /\ next = [tx[t] EXCEPT !.pc = "order",
                                  !.writes = Put(NoWrites, tx[t].link, Deleted)]
      BY <2>3 DEF DeleteRow
    <3>2. TxFits(tx[t])
      BY InvFacts
    <3>3. next.pc = "order"
      BY <3>1, <3>2 DEF TxFits, IsTransaction
    <3> QED BY <1>3, <3>1, <3>3
  <2>4. CASE ReadMax(t) \/ WritePosition(t) \/ ReadForDelete(t) \/ ReadForMove(t)
    <3>1. \E next : Statement(t, next)
      BY <2>4 DEF ReadMax, WritePosition, ReadForDelete, ReadForMove, Rewrite
    <3> QED BY <1>3, <2>4, <3>1
  <2> QED BY <1>6, <2>1, <2>2, <2>3, <2>4 DEF Read, Write
<1>7. CASE Crash
  BY <1>0, <1>7 DEF Crash
<1>8. ASSUME NEW t \in Requests, Step(t) \/ Fail(t)
      PROVE  Read(t) \/ Write(t) \/ Commit(t) \/ Rollback(t)
  BY <1>8 DEF Step, Fail, DeadlockVictim
<1>9. CASE Next
  <2>1. ASSUME NEW t \in Requests, Read(t) \/ Write(t)
        PROVE  \A u \in Requests :
                 \/ tx'[u] = tx[u]
                 \/ tx'[u].pc \in {"idle", "max", "delete", "order"}
                 \/ /\ UNCHANGED <<links, tidied>>
                    /\ \/ ReadMax(u) \/ InsertLink(u) \/ WritePosition(u)
                       \/ ReadForDelete(u) \/ ReadForMove(u)
    BY <1>6, <2>1
  <2> QED BY <1>2, <1>4, <1>5, <1>6, <1>7, <1>8, <1>9, <2>1 DEF Next
<1> QED BY <1>1, <1>9

(* A commit leaves the links of the other owners alone.                    *)
LEMMA OthersUntouched ==
  ASSUME IndInv, NEW t \in Requests, Commit(t), NEW o, o # tx[t].owner
  PROVE  /\ OwnedIn(links', o) = OwnedIn(links, o)
         /\ \A id \in OwnedIn(links, o) : links'[id] = links[id]
<1>1. /\ \A id \in DOMAIN links' \ DOMAIN links : tx[t].op = "create" /\ id \in Holds(t)
      /\ \A id \in DOMAIN links \ Holds(t) : id \in DOMAIN links' /\ links'[id] = links[id]
      /\ \A id \in DOMAIN links \cap Holds(t) : links[id].owner = tx[t].owner
      /\ \A id \in DOMAIN links \cap DOMAIN links' : links'[id].owner = links[id].owner
      /\ \A id \in DOMAIN links' \cap Holds(t) : links'[id] = tx[t].writes[id]
  BY CommitRows
<1>2. ASSUME NEW id \in DOMAIN links' \ DOMAIN links
      PROVE  links'[id].owner = tx[t].owner
  <2>1. tx[t].op = "create" /\ tx[t].pc = "commit" /\ id \in Holds(t) /\ TxFits(tx[t])
    BY <1>1, <1>2, InvFacts DEF Commit
  <2>2. PICK new \in Ids \ DOMAIN links :
          tx[t].writes = Put(NoWrites, new, [owner |-> tx[t].owner, position |-> tx[t].position])
    BY <2>1 DEF TxFits, NewRowFits
  <2>3. tx[t].writes[id] = [owner |-> tx[t].owner, position |-> tx[t].position]
    BY <2>1, <2>2, NothingWritten DEF Put, Holds
  <2> QED BY <1>1, <2>1, <2>3
<1> QED BY <1>1, <1>2 DEF OwnedIn

(* The list a move or a delete makes of what it reads has all the owner's  *)
(* links that it does not delete.                                          *)
LEMMA ReadComplete ==
  ASSUME IndInv, NEW t \in Requests, ReadForDelete(t) \/ ReadForMove(t)
  PROVE  ListComplete(tx[t])'
<1>1. tx[t].op \in {"move", "delete"} /\ tx[t].pc = "order" /\ TxFits(tx[t]) /\ links' = links
  BY InvFacts DEF ReadForDelete, ReadForMove, Rewrite, Statement
<1>2. PICK seen : seen = Over(links, tx[t].writes)
  OBVIOUS
<1>3. PICK s : s = Order(t)
  OBVIOUS
<1>4. /\ IsTable(seen, Row)
      /\ \A id \in DOMAIN seen : id \in DOMAIN links /\ seen[id] = links[id]
      /\ \A id \in DOMAIN links :
           id \in DOMAIN seen <=> ~ (tx[t].op = "delete" /\ id = tx[t].link)
  BY <1>1, <1>2, SeenAtOrder
<1>5. /\ s \in Seq(Ids) /\ \A i, k \in DOMAIN s : s[i] = s[k] => i = k
      /\ \A id \in OwnedIn(seen, tx[t].owner) : \E i \in DOMAIN s : s[i] = id
  BY <1>2, <1>3, <1>4, OrderLists DEF Order
<1>6. PICK ids \in Seq(Ids) : /\ Rewrite(t, ids)
                              /\ \A i \in DOMAIN s : \E k \in DOMAIN ids : s[i] = ids[k]
  <2>1. CASE ReadForDelete(t)
    BY <1>3, <1>5, <2>1 DEF ReadForDelete
  <2>2. CASE ReadForMove(t)
    <3>1. PICK at \in DOMAIN s : /\ Neighbour(t, at) \in DOMAIN s
                                 /\ Rewrite(t, Swap(s, at, Neighbour(t, at)))
      BY <1>3, <2>2 DEF ReadForMove
    <3>2. PICK to \in DOMAIN s : to = Neighbour(t, at)
      BY <3>1
    <3>3. PICK q : q = Swap(s, at, to)
      OBVIOUS
    <3>4. /\ q \in Seq(Ids) /\ DOMAIN q = DOMAIN s /\ q[at] = s[to] /\ q[to] = s[at]
          /\ \A i \in DOMAIN s : i # at /\ i # to => q[i] = s[i]
      BY <1>5, <3>3, SwapList
    <3>5. \A i \in DOMAIN s : \E k \in DOMAIN q : s[i] = q[k]
      BY <3>4
    <3> QED BY <3>1, <3>2, <3>3, <3>4, <3>5
  <2> QED BY <2>1, <2>2
<1>7. /\ tx'[t].ids = ids /\ tx'[t].op = tx[t].op /\ tx'[t].link = tx[t].link
      /\ tx'[t].owner = tx[t].owner
  <2>1. tx'[t] = [tx[t] EXCEPT !.pc = IF ids = << >> THEN "commit" ELSE "write",
                               !.ids = ids, !.at = 1]
    BY <1>6 DEF Rewrite, Statement, IndInv, TypeOK
  <2> QED BY <1>1, <2>1 DEF TxFits, IsTransaction
<1>8. ASSUME NEW id \in OwnedIn(links, tx[t].owner)
      PROVE  \/ \E i \in DOMAIN ids : id = ids[i]
             \/ tx[t].op = "delete" /\ id = tx[t].link
  <2>1. CASE id \in DOMAIN seen
    <3>1. id \in OwnedIn(seen, tx[t].owner)
      BY <1>4, <2>1 DEF OwnedIn
    <3> QED BY <1>5, <1>6, <3>1
  <2>2. CASE id \notin DOMAIN seen
    BY <1>4, <2>2 DEF OwnedIn
  <2> QED BY <2>1, <2>2
<1> QED BY <1>1, <1>7, <1>8 DEF ListComplete, OwnedIn

(* What an UPDATE leaves of its transaction.                               *)
LEMMA WriteKeeps ==
  ASSUME IndInv, NEW t \in Requests, WritePosition(t)
  PROVE  /\ tx[t].pc = "write" /\ tx'[t].ids = tx[t].ids /\ tx'[t].op = tx[t].op
         /\ tx'[t].link = tx[t].link /\ tx'[t].owner = tx[t].owner /\ tx'[t].up = tx[t].up
         /\ tx[t].op \in {"move", "delete"}
<1>1. tx'[t] = [tx[t] EXCEPT !.writes = Placed(t), !.at = @ + 1,
                             !.pc = IF tx[t].at = Len(tx[t].ids) THEN "commit" ELSE "write"]
  BY DEF WritePosition, Statement, IndInv, TypeOK
<1>2. TxFits(tx[t]) /\ tx[t].pc = "write"
  BY InvFacts DEF WritePosition
<1>3. tx[t].op \in {"move", "delete"}
  BY <1>2 DEF TxFits, StageFits, IsTransaction
<1> QED BY <1>1, <1>2, <1>3 DEF TxFits, IsTransaction

(* Creations apart, the requests of an owner keep its links on positions   *)
(* of their own.                                                           *)
LEMMA DistinctStep ==
  ASSUME IndInv, NEW o \in Owners, DistinctFor(o), ~ Creates(o), [Next]_vars
  PROVE  DistinctFor(o)'
<1>1. \A a, b \in OwnedIn(links, o) : links[a].position = links[b].position => a = b
  BY DEF DistinctFor
<1>2. ASSUME NEW t \in Requests, Commit(t), tx[t].owner = o
      PROVE  /\ OwnedIn(links', o) \subseteq OwnedIn(links, o)
             /\ \A id \in OwnedIn(links', o) :
                  \E i \in DOMAIN tx[t].ids : id = tx[t].ids[i] /\ links'[id].position = i - 1
  <2>1. tx[t].op \in {"move", "delete"} /\ tx[t].pc = "commit"
    BY <1>2, CommitRows DEF Creates, Commit
  <2>2. OwnedIn(links', o) \subseteq OwnedIn(links, o)
    BY <1>2, <2>1, CommitRows DEF OwnedIn
  <2>3. ASSUME NEW id \in OwnedIn(links', o)
        PROVE  \E i \in DOMAIN tx[t].ids : id = tx[t].ids[i] /\ links'[id].position = i - 1
    <3>1. \/ \E i \in DOMAIN tx[t].ids : id = tx[t].ids[i]
          \/ tx[t].op = "delete" /\ id = tx[t].link
      BY <1>2, <2>1, <2>2 DEF DistinctFor, ListComplete
    <3>2. ~ (tx[t].op = "delete" /\ id = tx[t].link)
      <4>1. TxFits(tx[t])
        BY InvFacts
      <4>2. tx[t].op = "delete" => /\ tx[t].link \in DOMAIN tx[t].writes
                                   /\ tx[t].writes[tx[t].link] = Deleted
        BY <2>1, <4>1 DEF TxFits, ListFits
      <4>3. PICK w : w = tx[t].writes
        OBVIOUS
      <4>4. IsTable(w, Row \cup {Deleted}) /\ IsTable(links, Row)
        BY <4>1, <4>3, InvFacts DEF TxFits, IsTransaction
      <4>5. links' = Over(links, w)
        BY <1>2, <4>3 DEF Commit
      <4>6. \A i \in DOMAIN links' : i \in DOMAIN w => w[i] # Deleted
        BY <4>4, <4>5, OverTable
      <4> QED BY <4>2, <4>3, <4>6 DEF OwnedIn
    <3>3. InstalledWholeStep
      BY InstalledStep
    <3> QED BY <1>2, <3>1, <3>2, <3>3 DEF InstalledWholeStep, OwnedIn
  <2> QED BY <2>2, <2>3
<1>3. /\ OwnedIn(links', o) \subseteq OwnedIn(links, o)
      /\ \A a, b \in OwnedIn(links', o) : links'[a].position = links'[b].position => a = b
  <2>1. CASE links' = links
    BY <1>1, <2>1 DEF OwnedIn
  <2>2. ASSUME NEW t \in Requests, Commit(t), tx[t].owner # o
        PROVE  <1>3
    BY <1>1, <2>2, OthersUntouched
  <2>3. ASSUME NEW t \in Requests, Commit(t), tx[t].owner = o
        PROVE  <1>3
    <3>1. PICK ids \in Seq(Ids) : ids = tx[t].ids
      BY InvFacts DEF TxFits, IsTransaction
    <3>2. DOMAIN ids \subseteq Int
      BY <3>1, LenProperties
    <3> QED BY <1>2, <2>3, <3>1, <3>2
  <2> QED BY <2>1, <2>2, <2>3, StepKinds
<1>4. ASSUME NEW u \in Requests, tx'[u].owner = o
      PROVE  ListComplete(tx[u])'
  <2>1. CASE ReadForDelete(u) \/ ReadForMove(u)
    BY <2>1, ReadComplete
  <2>2. CASE tx'[u] = tx[u]
    BY <1>3, <1>4, <2>2 DEF DistinctFor, ListComplete, OwnedIn
  <2>3. CASE tx'[u].pc \in {"idle", "max", "delete", "order"}
    BY <2>3 DEF ListComplete
  <2>4. CASE WritePosition(u)
    BY <1>3, <1>4, <2>4, WriteKeeps DEF DistinctFor, ListComplete, OwnedIn
  <2>5. CASE ReadMax(u) \/ InsertLink(u)
    <3>1. TxFits(tx[u]) /\ tx[u].pc \in {"max", "insert"}
      BY <2>5, InvFacts DEF ReadMax, InsertLink
    <3>2. tx[u].op = "create"
      BY <3>1 DEF TxFits, StageFits, IsTransaction
    <3>3. tx'[u].op = "create"
      BY <2>5, <3>1, <3>2 DEF ReadMax, InsertLink, Statement, IndInv, TypeOK, TxFits, IsTransaction
    <3> QED BY <3>3 DEF ListComplete
  <2> QED BY <2>1, <2>2, <2>3, <2>4, <2>5, StepKinds
<1> QED BY <1>3, <1>4 DEF DistinctFor

(* As long as an owner creates nothing, its moves and deletes, however     *)
(* they interleave, keep its links on positions of their own.              *)
THEOREM OwnerKeepsDistinct ==
  ASSUME NEW o \in Owners
  PROVE  Spec /\ DistinctFor(o) /\ []~Creates(o) => []DistinctFor(o)
<1>1. IndInv /\ DistinctFor(o) /\ ~ Creates(o) /\ [Next]_vars => DistinctFor(o)'
  BY DistinctStep
<1> QED BY <1>1, AlwaysFits, PTL DEF Spec

(* No two links of an owner ever share a position, from lists where none   *)
(* do, as long as nothing is created.                                      *)
THEOREM MovesKeepDistinct ==
  Spec /\ DistinctPositions /\ [](\A o \in Owners : ~ Creates(o)) => []DistinctPositions
<1> DEFINE All == \A o \in Owners : DistinctFor(o)
<1>1. IndInv /\ All /\ (\A o \in Owners : ~ Creates(o)) /\ [Next]_vars => All'
  BY DistinctStep
<1>2. Init /\ DistinctPositions => All
  BY IdleFits DEF Init, DistinctPositions, DistinctFor, ListComplete
<1>3. All => DistinctPositions
  BY DEF DistinctFor, DistinctPositions
<1> QED BY <1>1, <1>2, <1>3, AlwaysFits, PTL DEF Spec

------------------------------------------------------------------------------
(* A table without one row.                                                *)
Less(table, id) == Over(table, Put(NoWrites, id, Deleted))

(* An owner's links, read behind its own DELETE.                           *)
LEMMA LessRow ==
  ASSUME NEW table, IsTable(table, Row), NEW l \in Ids, NEW o
  PROVE  /\ IsTable(Less(table, l), Row)
         /\ OwnedIn(Less(table, l), o) = OwnedIn(table, o) \ {l}
         /\ \A id \in OwnedIn(table, o) \ {l} : Less(table, l)[id] = table[id]
<1>1. PICK w : w = Put(NoWrites, l, Deleted)
  OBVIOUS
<1>2. IsTable(w, Row \cup {Deleted}) /\ DOMAIN w = {l} /\ w[l] = Deleted
  BY <1>1, FirstPut
<1>3. PICK less : less = Over(table, w)
  OBVIOUS
<1>4. /\ IsTable(less, Row)
      /\ \A id : id \in DOMAIN less <=>
           IF id \in DOMAIN w THEN w[id] # Deleted ELSE id \in DOMAIN table
      /\ \A id \in DOMAIN less : less[id] = IF id \in DOMAIN w THEN w[id] ELSE table[id]
  BY <1>2, <1>3, OverTable
<1>5. \A id : id \in DOMAIN less <=> id \in DOMAIN table /\ id # l
  BY <1>2, <1>4
<1>6. \A id \in DOMAIN less : less[id] = table[id]
  BY <1>2, <1>4, <1>5
<1>7. OwnedIn(less, o) = OwnedIn(table, o) \ {l}
  BY <1>5, <1>6 DEF OwnedIn
<1>8. less = Less(table, l)
  BY <1>1, <1>3 DEF Less
<1> QED BY <1>4, <1>5, <1>6, <1>7, <1>8 DEF OwnedIn

(* The end of the list depends on the owner's rows only.                   *)
LEMMA SameEnd ==
  ASSUME NEW old, IsTable(old, Row), NEW new, IsTable(new, Row), NEW o,
         OwnedIn(new, o) = OwnedIn(old, o),
         \A id \in OwnedIn(old, o) : new[id].position = old[id].position
  PROVE  NextPosition(new, o) = NextPosition(old, o)
<1>1. PICK own, p, q : /\ own = OwnedIn(old, o)
                       /\ p = NextPosition(old, o) /\ q = NextPosition(new, o)
  OBVIOUS
<1>2. /\ p \in Nat /\ \A id \in own : old[id].position < p
      /\ own = {} => p = 0
      /\ own # {} => \E id \in own : old[id].position = p - 1
  BY <1>1, NextPositionEnds
<1>3. /\ q \in Nat /\ \A id \in own : new[id].position < q
      /\ own = {} => q = 0
      /\ own # {} => \E id \in own : new[id].position = q - 1
  BY <1>1, NextPositionEnds
<1>4. p = q
  BY <1>1, <1>2, <1>3
<1> QED BY <1>1, <1>4

(* A list a request has decided on stays current while its owner's rows    *)
(* stay as they are.                                                       *)
LEMMA StaysCurrent ==
  ASSUME IsTable(links, Row), IsTable(links', Row), NEW r, TxFits(r), ListCurrent(r),
         OwnedIn(links', r.owner) = OwnedIn(links, r.owner),
         \A id \in OwnedIn(links, r.owner) : links'[id] = links[id]
  PROVE  ListCurrent(r)'
<1>1. OrderedIn(links', r.owner) = OrderedIn(links, r.owner)
  BY SameOrder
<1>2. NextPosition(links', r.owner) = NextPosition(links, r.owner)
  BY SameEnd
<1>3. ASSUME r.op = "delete", r.pc \in {"write", "commit"}
      PROVE  OrderedIn(Less(links', r.link), r.owner) = OrderedIn(Less(links, r.link), r.owner)
  <2>1. r.link \in Ids
    BY <1>3 DEF TxFits, ListFits, IsTransaction, IsTable
  <2>2. PICK l, o : l \in Ids /\ l = r.link /\ o = r.owner
    BY <2>1
  <2>3. PICK old, new : old = Less(links, l) /\ new = Less(links', l)
    OBVIOUS
  <2>4. /\ IsTable(old, Row) /\ OwnedIn(old, o) = OwnedIn(links, o) \ {l}
        /\ \A id \in OwnedIn(links, o) \ {l} : old[id] = links[id]
    BY <2>2, <2>3, LessRow
  <2>5. /\ IsTable(new, Row) /\ OwnedIn(new, o) = OwnedIn(links', o) \ {l}
        /\ \A id \in OwnedIn(links', o) \ {l} : new[id] = links'[id]
    BY <2>2, <2>3, LessRow
  <2>6. OrderedIn(new, o) = OrderedIn(old, o)
    BY <2>2, <2>4, <2>5, SameOrder
  <2> QED BY <2>2, <2>3, <2>6
<1> QED BY <1>1, <1>2, <1>3 DEF ListCurrent, Less

(* A rewrite whose list is current: the list becomes the owner's.          *)
LEMMA RewriteCommit ==
  ASSUME IndInv, NEW t \in Requests, Commit(t), ListCurrent(tx[t]),
         tx[t].op \in {"move", "delete"}
  PROVE  /\ Lists(tx[t].ids, links', tx[t].owner)
         /\ Len(tx[t].ids) = Cardinality(OwnedIn(links', tx[t].owner))
         /\ \A i \in DOMAIN tx[t].ids : /\ tx[t].ids[i] \in OwnedIn(links', tx[t].owner)
                                        /\ links'[tx[t].ids[i]].position = i - 1
         /\ \A id \in OwnedIn(links', tx[t].owner) : \E i \in DOMAIN tx[t].ids : tx[t].ids[i] = id
<1>1. TxFits(tx[t]) /\ IsTable(links, Row) /\ tx[t].pc = "commit"
  BY InvFacts DEF Commit
<1>2. PICK o, l, ids : /\ o = tx[t].owner /\ l = tx[t].link
                       /\ ids = tx[t].ids /\ ids \in Seq(Ids)
  BY <1>1 DEF TxFits, IsTransaction
<1> DEFINE own == OwnedIn(links, o)
           new == OwnedIn(links', o)
<1>3. /\ IsTable(links', Row)
      /\ DOMAIN links' \subseteq DOMAIN links
      /\ \A id \in DOMAIN links \ DOMAIN links' : tx[t].op = "delete" /\ l = id
      /\ \A id \in DOMAIN links \cap DOMAIN links' : links'[id].owner = links[id].owner
  BY <1>2, CommitRows
<1>4. /\ \A i, k \in DOMAIN ids : ids[i] = ids[k] => i = k
      /\ \A id : id \in new <=> \E i \in DOMAIN ids : ids[i] = id
  <2>1. CASE tx[t].op = "move"
    <3>1. PICK now : now = OrderedIn(links, o)
      OBVIOUS
    <3>2. /\ now \in Seq(Ids) /\ \A i, k \in DOMAIN now : now[i] = now[k] => i = k
          /\ \A i \in DOMAIN now : now[i] \in own
          /\ \A id \in own : \E i \in DOMAIN now : now[i] = id
      BY <1>1, <3>1, OrderLists
    <3>3. PICK at \in DOMAIN now, step \in DOMAIN now : ids = Swap(now, at, step)
      BY <1>1, <1>2, <2>1, <3>1 DEF ListCurrent
    <3>4. /\ DOMAIN ids = DOMAIN now /\ ids[at] = now[step] /\ ids[step] = now[at]
          /\ \A i \in DOMAIN now : i # at /\ i # step => ids[i] = now[i]
          /\ \A i, k \in DOMAIN ids : ids[i] = ids[k] => i = k
      BY <3>2, <3>3, SwapList
    <3>5. new = own
      BY <1>3, <2>1 DEF OwnedIn
    <3>6. \A id : id \in own <=> \E i \in DOMAIN ids : ids[i] = id
      BY <3>2, <3>4
    <3> QED BY <3>4, <3>5, <3>6
  <2>2. CASE tx[t].op = "delete"
    <3>1. l \in Ids /\ l \in DOMAIN tx[t].writes /\ tx[t].writes[l] = Deleted
      BY <1>1, <1>2, <2>2 DEF TxFits, ListFits, IsTransaction, IsTable
    <3>2. PICK less : less = Less(links, l)
      OBVIOUS
    <3>3. IsTable(less, Row) /\ OwnedIn(less, o) = own \ {l}
      BY <1>1, <3>1, <3>2, LessRow
    <3>4. ids = OrderedIn(less, o)
      BY <1>1, <1>2, <2>2, <3>2 DEF ListCurrent, Less
    <3>5. /\ \A i, k \in DOMAIN ids : ids[i] = ids[k] => i = k
          /\ \A i \in DOMAIN ids : ids[i] \in own \ {l}
          /\ \A id \in own \ {l} : \E i \in DOMAIN ids : ids[i] = id
      BY <3>3, <3>4, OrderLists
    <3>6. l \notin DOMAIN links'
      <4>1. PICK w : w = tx[t].writes
        OBVIOUS
      <4>2. IsTable(w, Row \cup {Deleted}) /\ links' = Over(links, w)
        BY <1>1, <4>1 DEF TxFits, IsTransaction, Commit
      <4>3. \A i \in DOMAIN links' : i \in DOMAIN w => w[i] # Deleted
        BY <1>1, <4>2, OverTable
      <4> QED BY <3>1, <4>1, <4>3
    <3>7. new = own \ {l}
      BY <1>3, <3>6 DEF OwnedIn
    <3> QED BY <3>5, <3>7
  <2> QED BY <2>1, <2>2
<1>5. \A i \in DOMAIN ids : ids[i] \in new /\ links'[ids[i]].position = i - 1
  <2>1. \A i \in DOMAIN ids : ids[i] \in DOMAIN links' => links'[ids[i]].position = i - 1
    BY <1>2, InstalledStep DEF InstalledWholeStep
  <2> QED BY <1>4, <2>1 DEF OwnedIn
<1>6. /\ DOMAIN ids = 1..Len(ids) /\ Len(ids) \in Nat
  BY <1>2, LenProperties
<1>7. Len(ids) = Cardinality(new)
  <2>1. ids \in [1..Len(ids) -> new]
    BY <1>2, <1>4, <1>6
  <2>2. ids \in Bijection(1..Len(ids), new)
    BY <1>4, <1>6, <2>1 DEF Bijection, Injection, IsInjective, Surjection
  <2>3. IsFiniteSet(1..Len(ids)) /\ Cardinality(1..Len(ids)) = Len(ids)
    BY <1>6, CountTo
  <2>4. ExistsBijection(1..Len(ids), new)
    BY <2>2 DEF ExistsBijection
  <2> QED BY <2>3, <2>4, FS_Bijection
<1>8. Lists(ids, links', o)
  <2>1. ids \in [1..Len(ids) -> new]
    BY <1>2, <1>4, <1>6
  <2>2. ASSUME NEW i \in 1..Len(ids), NEW k \in 1..Len(ids), i < k
        PROVE  Before(links', ids[i], ids[k])
    BY <1>5, <1>6, <2>2 DEF Before
  <2> QED BY <1>7, <2>1, <2>2 DEF Lists
<1> QED BY <1>2, <1>4, <1>5, <1>7, <1>8

(* A creation whose position is the end of the list: the link comes last.  *)
LEMMA CreateCommit ==
  ASSUME IndInv, NEW t \in Requests, Commit(t), ListCurrent(tx[t]), tx[t].op = "create"
  PROVE  \E id \in Ids \ DOMAIN links :
           LET o == tx[t].owner IN
           /\ OwnedIn(links', o) = OwnedIn(links, o) \cup {id}
           /\ \A k \in OwnedIn(links, o) : links'[k] = links[k]
           /\ links'[id].position = NextPosition(links, o)
<1>1. TxFits(tx[t]) /\ IsTable(links, Row) /\ tx[t].pc = "commit"
  BY InvFacts DEF Commit
<1>2. PICK o \in Owners, p \in Nat : o = tx[t].owner /\ p = tx[t].position
  BY <1>1 DEF TxFits, IsTransaction, StageFits
<1>3. p = NextPosition(links, o)
  BY <1>1, <1>2 DEF ListCurrent
<1>4. PICK id \in Ids \ DOMAIN links :
        tx[t].writes = Put(NoWrites, id, [owner |-> o, position |-> p])
  BY <1>1, <1>2 DEF TxFits, NewRowFits
<1>5. PICK row \in Row : row = [owner |-> o, position |-> p]
  BY DEF Row
<1>6. PICK w : w = Put(NoWrites, id, row)
  OBVIOUS
<1>7. IsTable(w, Row \cup {Deleted}) /\ DOMAIN w = {id} /\ w[id] = row
  BY <1>6, FirstPut
<1>8. links' = Over(links, w)
  BY <1>4, <1>5, <1>6 DEF Commit
<1>9. /\ \A k : k \in DOMAIN links' <=>
           IF k \in DOMAIN w THEN w[k] # Deleted ELSE k \in DOMAIN links
      /\ \A k \in DOMAIN links' : links'[k] = IF k \in DOMAIN w THEN w[k] ELSE links[k]
  BY <1>1, <1>7, <1>8, OverTable
<1>10. /\ DOMAIN links' = DOMAIN links \cup {id} /\ links'[id] = row
       /\ \A k \in DOMAIN links : links'[k] = links[k]
  BY <1>7, <1>9, NothingWritten
<1>11. OwnedIn(links', o) = OwnedIn(links, o) \cup {id}
  BY <1>5, <1>10 DEF OwnedIn
<1>12. /\ \A k \in OwnedIn(links, o) : links'[k] = links[k]
       /\ links'[id].position = p
  BY <1>5, <1>10 DEF OwnedIn
<1> QED BY <1>2, <1>3, <1>11, <1>12

(* Positions 0..n-1 end where the list does.                               *)
LEMMA DenseEnds ==
  ASSUME IsTable(links, Row), NEW o, Dense(o)
  PROVE  NextPosition(links, o) = Cardinality(OwnedIn(links, o))
<1>1. PICK own, p, n : /\ own = OwnedIn(links, o)
                       /\ p = NextPosition(links, o) /\ n = Cardinality(own)
  OBVIOUS
<1>2. /\ p \in Nat /\ \A id \in own : links[id].position < p
      /\ own = {} => p = 0
      /\ own # {} => \E id \in own : links[id].position = p - 1
  BY <1>1, NextPositionEnds
<1>3. IsFiniteSet(own) /\ n \in Nat /\ (own = {} <=> n = 0)
  BY <1>1, OwnOrdered, FS_EmptySet
<1>4. {links[id].position : id \in own} = 0..(n - 1)
  BY <1>1 DEF Dense
<1>5. CASE own = {}
  BY <1>1, <1>2, <1>3, <1>5
<1>6. CASE own # {}
  <2>1. p - 1 \in 0..(n - 1)
    BY <1>2, <1>4, <1>6
  <2>2. \E id \in own : links[id].position = n - 1
    BY <1>3, <1>4, <1>6
  <2> QED BY <1>1, <1>2, <1>3, <2>1, <2>2
<1> QED BY <1>5, <1>6

(* A commit keeps dense lists dense, and makes those it rewrites so.       *)
LEMMA TidiedStep ==
  ASSUME AloneInv, [Next]_vars
  PROVE  TidiedDense'
<1>0. IndInv /\ TidiedDense /\ \A t \in Requests : ListCurrent(tx[t])
  BY DEF AloneInv
<1>1. CASE UNCHANGED <<links, tidied>>
  BY <1>0, <1>1 DEF TidiedDense, Dense, OwnedIn
<1>2. ASSUME NEW t \in Requests, Commit(t), NEW o \in tidied'
      PROVE  Dense(o)'
  <2>1. /\ IsTable(links, Row) /\ TxFits(tx[t])
        /\ tidied' = IF tx[t].op = "create" THEN tidied ELSE tidied \cup {tx[t].owner}
    BY <1>0, <1>2, InvFacts DEF Commit
  <2>2. CASE o # tx[t].owner
    <3>1. Dense(o)
      BY <1>0, <1>2, <2>1, <2>2 DEF TidiedDense
    <3>2. /\ OwnedIn(links', o) = OwnedIn(links, o)
          /\ \A id \in OwnedIn(links, o) : links'[id] = links[id]
      BY <1>0, <1>2, <2>2, OthersUntouched
    <3>3. {links'[id].position : id \in OwnedIn(links', o)}
            = {links[id].position : id \in OwnedIn(links, o)}
      BY <3>2
    <3> QED BY <3>1, <3>2, <3>3 DEF Dense
  <2>3. CASE o = tx[t].owner /\ tx[t].op \in {"move", "delete"}
    <3>1. PICK ids \in Seq(Ids) : ids = tx[t].ids
      BY <2>1 DEF TxFits, IsTransaction
    <3>2. PICK new : new = OwnedIn(links', o)
      OBVIOUS
    <3>3. /\ Len(ids) = Cardinality(new)
          /\ \A i \in DOMAIN ids : ids[i] \in new /\ links'[ids[i]].position = i - 1
          /\ \A id \in new : \E i \in DOMAIN ids : ids[i] = id
      BY <1>0, <1>2, <2>3, <3>1, <3>2, RewriteCommit
    <3>4. DOMAIN ids = 1..Len(ids) /\ Len(ids) \in Nat
      BY <3>1, LenProperties
    <3>5. \A id \in new : links'[id].position \in 0..(Len(ids) - 1)
      BY <3>3, <3>4
    <3>6. ASSUME NEW p \in 0..(Len(ids) - 1)
          PROVE  \E id \in new : links'[id].position = p
      <4>1. p + 1 \in DOMAIN ids /\ (p + 1) - 1 = p
        BY <3>4
      <4> QED BY <3>3, <4>1
    <3>7. {links'[id].position : id \in new} = 0..(Len(ids) - 1)
      BY <3>5, <3>6
    <3> QED BY <3>2, <3>3, <3>7 DEF Dense
  <2>4. CASE o = tx[t].owner /\ tx[t].op = "create"
    <3>1. Dense(o)
      BY <1>0, <1>2, <2>1, <2>4 DEF TidiedDense
    <3>2. PICK own, n : own = OwnedIn(links, o) /\ n = Cardinality(own)
      OBVIOUS
    <3>3. IsFiniteSet(own) /\ n \in Nat /\ {links[k].position : k \in own} = 0..(n - 1)
      BY <2>1, <3>1, <3>2, OwnOrdered DEF Dense
    <3>4. PICK id \in Ids \ DOMAIN links :
            /\ OwnedIn(links', o) = own \cup {id}
            /\ \A k \in own : links'[k] = links[k]
            /\ links'[id].position = NextPosition(links, o)
      BY <1>0, <1>2, <2>4, <3>2, CreateCommit
    <3>5. links'[id].position = n
      BY <2>1, <3>1, <3>2, <3>4, DenseEnds
    <3>6. id \notin own
      BY <3>2 DEF OwnedIn
    <3>7. Cardinality(own \cup {id}) = n + 1
      BY <3>2, <3>3, <3>6, FS_AddElement
    <3>8. \A p : p \in 0..(n - 1) <=> \E k \in own : links'[k].position = p
      BY <3>3, <3>4
    <3>9. {links'[k].position : k \in own \cup {id}} = 0..((n + 1) - 1)
      <4>1. 0..((n + 1) - 1) = 0..(n - 1) \cup {n}
        BY <3>3
      <4> QED BY <3>5, <3>8, <4>1
    <3> QED BY <3>4, <3>7, <3>9 DEF Dense
  <2>5. tx[t].op \in {"create", "move", "delete"}
    BY <1>0, <1>2, CommitRows
  <2> QED BY <2>2, <2>3, <2>4, <2>5
<1>3. UNCHANGED <<links, tidied>> \/ \E t \in Requests : Commit(t)
  BY <1>0, StepKinds
<1> QED BY <1>1, <1>2, <1>3 DEF TidiedDense

(* The list that a request decides on is its owner's, and is still so when *)
(* it commits.                                                             *)
LEMMA CurrentStep ==
  ASSUME AloneInv, OneAtATime, [Next]_vars, NEW u \in Requests
  PROVE  ListCurrent(tx[u])'
<1>0. /\ IndInv /\ ListCurrent(tx[u]) /\ TxFits(tx[u]) /\ IsTable(links, Row)
      /\ DOMAIN tx = Requests /\ Idle.op = "none"
  BY InvFacts DEF AloneInv, IndInv, TypeOK, Idle
<1>1. CASE tx'[u].pc \in {"idle", "max", "delete", "order"}
  BY <1>1 DEF ListCurrent
<1>2. CASE tx'[u] = tx[u] /\ links' = links
  BY <1>0, <1>2 DEF ListCurrent
<1>3. ASSUME NEW t \in Requests, Commit(t), tx'[u] = tx[u]
      PROVE  ListCurrent(tx[u])'
  <2>1. CASE u = t \/ tx[u].pc = "idle"
    <3>1. tx'[u].op = "none"
      BY <1>0, <1>3, <2>1 DEF Commit, TxFits, StageFits, IsTransaction
    <3> QED BY <3>1 DEF ListCurrent
  <2>2. CASE u # t /\ tx[u].pc # "idle"
    <3>1. PICK r : r = tx[u]
      OBVIOUS
    <3>2. r.owner # tx[t].owner
      BY <1>3, <2>2, <3>1 DEF OneAtATime, Commit
    <3>3. IsTable(links', Row)
      BY <1>0, <1>3, CommitRows
    <3>4. /\ OwnedIn(links', r.owner) = OwnedIn(links, r.owner)
          /\ \A id \in OwnedIn(links, r.owner) : links'[id] = links[id]
      BY <1>0, <1>3, <3>2, OthersUntouched
    <3>5. ListCurrent(r)'
      BY <1>0, <3>1, <3>3, <3>4, StaysCurrent
    <3> QED BY <1>3, <3>1, <3>5 DEF ListCurrent
  <2> QED BY <2>1, <2>2
<1>4. CASE links' = links /\ ReadMax(u)
  <2>1. tx[u].pc = "max" /\ tx[u].op = "create"
    BY <1>0, <1>4 DEF ReadMax, TxFits, StageFits, IsTransaction
  <2>2. tx'[u] = [tx[u] EXCEPT !.pc = "insert", !.position = NextPosition(links, tx[u].owner)]
    BY <1>0, <1>4 DEF ReadMax, Statement
  <2>3. /\ tx'[u].op = "create" /\ tx'[u].owner = tx[u].owner
        /\ tx'[u].position = NextPosition(links, tx[u].owner)
    BY <1>0, <2>1, <2>2 DEF TxFits, IsTransaction
  <2> QED BY <1>4, <2>3 DEF ListCurrent
<1>5. CASE links' = links /\ InsertLink(u)
  <2>1. tx[u].pc = "insert" /\ tx[u].op = "create"
    BY <1>0, <1>5 DEF InsertLink, TxFits, StageFits, IsTransaction
  <2>2. /\ tx'[u].op = "create" /\ tx'[u].owner = tx[u].owner
        /\ tx'[u].position = tx[u].position
    BY <1>0, <1>5, <2>1 DEF InsertLink, TxFits, IsTransaction
  <2>3. tx[u].position = NextPosition(links, tx[u].owner)
    BY <1>0, <2>1 DEF ListCurrent
  <2> QED BY <1>5, <2>2, <2>3 DEF ListCurrent
<1>6. CASE links' = links /\ WritePosition(u)
  <2>1. /\ tx[u].pc = "write" /\ tx'[u].ids = tx[u].ids /\ tx'[u].op = tx[u].op
        /\ tx'[u].link = tx[u].link /\ tx'[u].owner = tx[u].owner /\ tx'[u].up = tx[u].up
        /\ tx[u].op \in {"move", "delete"}
    BY <1>0, <1>6, WriteKeeps
  <2> QED BY <1>0, <1>6, <2>1 DEF ListCurrent
<1>7. ASSUME links' = links, ReadForDelete(u) \/ ReadForMove(u)
      PROVE  ListCurrent(tx[u])'
  <2>1. tx[u].op \in {"move", "delete"} /\ tx[u].pc = "order"
    BY <1>7 DEF ReadForDelete, ReadForMove
  <2>2. Order(u) = OrderedIn(Over(links, IF tx[u].op = "move"
                                         THEN NoWrites
                                         ELSE Put(NoWrites, tx[u].link, Deleted)), tx[u].owner)
    BY <1>0, <2>1, SeenAtOrder DEF Order
  <2>3. ASSUME NEW ids, Rewrite(u, ids)
        PROVE  /\ tx'[u].ids = ids /\ tx'[u].op = tx[u].op /\ tx'[u].link = tx[u].link
               /\ tx'[u].owner = tx[u].owner /\ tx'[u].up = tx[u].up
    <3>1. tx'[u] = [tx[u] EXCEPT !.pc = IF ids = << >> THEN "commit" ELSE "write",
                                 !.ids = ids, !.at = 1]
      BY <1>0, <2>3 DEF Rewrite, Statement
    <3> QED BY <1>0, <3>1 DEF TxFits, IsTransaction
  <2>4. CASE ReadForDelete(u)
    <3>1. tx[u].op = "delete" /\ Rewrite(u, Order(u))
      BY <2>4 DEF ReadForDelete
    <3>2. /\ tx'[u].ids = Order(u) /\ tx'[u].op = "delete" /\ tx'[u].link = tx[u].link
          /\ tx'[u].owner = tx[u].owner
      BY <2>3, <3>1
    <3> QED BY <1>7, <2>2, <3>1, <3>2 DEF ListCurrent
  <2>5. CASE ReadForMove(u)
    <3>1. PICK now : now = OrderedIn(links, tx[u].owner)
      OBVIOUS
    <3>2. tx[u].op = "move" /\ Order(u) = now
      <4>1. tx[u].op = "move"
        BY <2>5 DEF ReadForMove
      <4>2. Over(links, NoWrites) = links
        <5>1. PICK w : w = NoWrites
          OBVIOUS
        <5>2. IsTable(w, Row \cup {Deleted}) /\ DOMAIN w = {}
          BY <5>1, NothingWritten
        <5>3. Over(links, w) = [id \in DOMAIN links |-> links[id]]
          BY <5>2 DEF Over
        <5> QED BY <1>0, <5>1, <5>3 DEF IsTable
      <4> QED BY <2>2, <3>1, <4>1, <4>2
    <3>3. PICK at \in DOMAIN now : /\ now[at] = tx[u].link /\ Neighbour(u, at) \in DOMAIN now
                                   /\ Rewrite(u, Swap(now, at, Neighbour(u, at)))
      BY <2>5, <3>2 DEF ReadForMove
    <3>4. /\ tx'[u].ids = Swap(now, at, Neighbour(u, at)) /\ tx'[u].op = "move"
          /\ tx'[u].link = tx[u].link /\ tx'[u].owner = tx[u].owner /\ tx'[u].up = tx[u].up
      BY <2>3, <3>2, <3>3
    <3> QED BY <1>7, <3>1, <3>3, <3>4 DEF ListCurrent, Neighbour
  <2> QED BY <1>7, <2>4, <2>5
<1> QED BY <1>0, <1>1, <1>2, <1>3, <1>4, <1>5, <1>6, <1>7, StepKinds

(* One request of an owner at a time: the invariant is kept.               *)
LEMMA AloneKept == AloneInv /\ OneAtATime /\ [Next]_vars => AloneInv'
<1> SUFFICES ASSUME AloneInv, OneAtATime, [Next]_vars PROVE AloneInv'
  OBVIOUS
<1>1. IndInv'
  BY NextInv DEF AloneInv
<1>2. TidiedDense'
  BY TidiedStep
<1>3. \A u \in Requests : ListCurrent(tx[u])'
  BY CurrentStep
<1>4. DOMAIN tx' = Requests
  BY <1>1 DEF IndInv, TypeOK
<1> QED BY <1>1, <1>2, <1>3 DEF AloneInv

(* And holds at the start.                                                 *)
LEMMA AloneInit == Init => AloneInv /\ OneAtATime
<1> SUFFICES ASSUME Init PROVE AloneInv /\ OneAtATime
  OBVIOUS
<1>1. IndInv /\ \A t \in Requests : tx[t] = Idle
  BY InitInv DEF Init
<1>2. Idle.op = "none" /\ Idle.pc = "idle"
  BY DEF Idle
<1>3. TidiedDense
  BY DEF Init, TidiedDense
<1> QED BY <1>1, <1>2, <1>3 DEF AloneInv, OneAtATime, ListCurrent

(* These steps are steps of Next, and no owner ever has two requests.      *)
LEMMA AloneIsNext == [AloneNext]_vars => [Next]_vars
BY DEF AloneNext, BeginAlone, Next

LEMMA OneAtATimeKept == IndInv /\ OneAtATime /\ [AloneNext]_vars => OneAtATime'
<1> SUFFICES ASSUME IndInv, OneAtATime, [AloneNext]_vars PROVE OneAtATime'
  OBVIOUS
<1> DEFINE Goes(u) == tx'[u].pc = "idle" \/ (tx[u].pc # "idle" /\ tx'[u].owner = tx[u].owner)
<1>0. DOMAIN tx = Requests /\ Idle.pc = "idle" /\ \A t \in Requests : TxFits(tx[t])
  BY InvFacts DEF IndInv, TypeOK, Idle
<1>1. (\A u \in Requests : Goes(u)) => OneAtATime'
  BY DEF OneAtATime
<1>2. CASE UNCHANGED vars
  BY <1>1, <1>2 DEF vars
<1>3. CASE Crash
  <2>1. \A u \in Requests : tx'[u] = Idle
    BY <1>3 DEF Crash
  <2> QED BY <1>0, <1>1, <2>1
<1>4. ASSUME NEW t \in Requests, NEW o \in Owners, BeginAlone(t, o)
      PROVE  OneAtATime'
  <2>1. PICK next : Statement(t, next) /\ next.owner = o
    <3>1. PICK next : /\ Statement(t, next)
                      /\ \/ next = [Idle EXCEPT !.op = "create", !.pc = "max", !.owner = o]
                         \/ \E l \in Ids, up \in BOOLEAN :
                              next = [Idle EXCEPT !.op = "move", !.pc = "order", !.owner = o,
                                                  !.link = l, !.up = up]
                         \/ \E l \in Ids :
                              next = [Idle EXCEPT !.op = "delete", !.pc = "delete",
                                                  !.owner = o, !.link = l]
      BY <1>4 DEF BeginAlone, Begin
    <3>2. next.owner = o
      BY <3>1 DEF Idle
    <3> QED BY <3>1, <3>2
  <2>2. tx'[t] = next /\ \A u \in Requests \ {t} : tx'[u] = tx[u]
    BY <1>0, <2>1 DEF Statement
  <2>3. \A u \in Requests \ {t} : tx'[u].pc # "idle" => tx'[u].owner # o
    BY <1>4, <2>2 DEF BeginAlone
  <2> QED BY <2>1, <2>2, <2>3 DEF OneAtATime
<1>5. ASSUME NEW t \in Requests, tx' = [tx EXCEPT ![t] = Idle]
      PROVE  OneAtATime'
  <2>1. \A u \in Requests : tx'[u] = tx[u] \/ tx'[u].pc = "idle"
    BY <1>0, <1>5
  <2> QED BY <1>1, <2>1
<1>6. ASSUME NEW t \in Requests, NEW next, tx' = [tx EXCEPT ![t] = next],
             next.owner = tx[t].owner, tx[t].pc # "idle"
      PROVE  OneAtATime'
  <2>1. \A u \in Requests : tx'[u] = tx[u] \/ Goes(u)
    BY <1>0, <1>6
  <2> QED BY <1>1, <2>1
<1>7. ASSUME NEW t \in Requests,
             ReadMax(t) \/ ReadForDelete(t) \/ ReadForMove(t) \/ DeleteRow(t) \/ WritePosition(t)
               \/ InsertLink(t)
      PROVE  OneAtATime'
  <2>0. IsTransaction(tx[t])
    BY <1>0 DEF TxFits
  <2>1. CASE ReadMax(t)
    <3>1. PICK next : next = [tx[t] EXCEPT !.pc = "insert", !.position = NextPosition(links, tx[t].owner)]
      OBVIOUS
    <3>2. tx' = [tx EXCEPT ![t] = next] /\ tx[t].pc # "idle"
      BY <2>1, <3>1 DEF ReadMax, Statement
    <3>3. next.owner = tx[t].owner
      BY <2>0, <3>1 DEF IsTransaction
    <3> QED BY <1>6, <3>2, <3>3
  <2>2. CASE ReadForDelete(t) \/ ReadForMove(t)
    <3>0. PICK ids : Rewrite(t, ids) /\ tx[t].pc = "order"
      BY <2>2 DEF ReadForDelete, ReadForMove
    <3>1. PICK next : next = [tx[t] EXCEPT !.pc = IF ids = << >> THEN "commit" ELSE "write",
                                           !.ids = ids, !.at = 1]
      OBVIOUS
    <3>2. tx' = [tx EXCEPT ![t] = next] /\ tx[t].pc # "idle"
      BY <3>0, <3>1 DEF Rewrite, Statement
    <3>3. next.owner = tx[t].owner
      BY <2>0, <3>1 DEF IsTransaction
    <3> QED BY <1>6, <3>2, <3>3
  <2>3. CASE DeleteRow(t)
    <3>1. PICK next : next = [tx[t] EXCEPT !.pc = "order", !.writes = Put(NoWrites, tx[t].link, Deleted)]
      OBVIOUS
    <3>2. tx' = [tx EXCEPT ![t] = next] /\ tx[t].pc # "idle"
      BY <2>3, <3>1 DEF DeleteRow, Statement
    <3>3. next.owner = tx[t].owner
      BY <2>0, <3>1 DEF IsTransaction
    <3> QED BY <1>6, <3>2, <3>3
  <2>4. CASE WritePosition(t)
    <3>1. PICK next : next = [tx[t] EXCEPT
                         !.writes = Placed(t), !.at = @ + 1,
                         !.pc = IF tx[t].at = Len(tx[t].ids) THEN "commit" ELSE "write"]
      OBVIOUS
    <3>2. tx' = [tx EXCEPT ![t] = next] /\ tx[t].pc # "idle"
      BY <2>4, <3>1 DEF WritePosition, Statement
    <3>3. next.owner = tx[t].owner
      BY <2>0, <3>1 DEF IsTransaction
    <3> QED BY <1>6, <3>2, <3>3
  <2>5. CASE InsertLink(t)
    <3>0. PICK writes : tx' = [tx EXCEPT ![t].pc = "commit", ![t].writes = writes]
      BY <2>5 DEF InsertLink
    <3>1. PICK next : next = [tx[t] EXCEPT !.pc = "commit", !.writes = writes]
      OBVIOUS
    <3>2. tx' = [tx EXCEPT ![t] = next] /\ tx[t].pc # "idle"
      BY <1>0, <2>5, <3>0, <3>1 DEF InsertLink
    <3>3. next.owner = tx[t].owner
      BY <2>0, <3>1 DEF IsTransaction
    <3> QED BY <1>6, <3>2, <3>3
  <2> QED BY <1>7, <2>1, <2>2, <2>3, <2>4, <2>5
<1>8. ASSUME NEW t \in Requests, Step(t) \/ Fail(t) PROVE OneAtATime'
  <2>1. MoveRefused(t) \/ DeleteMissing(t) \/ Commit(t) \/ DeadlockVictim(t) \/ Fail(t)
          => tx' = [tx EXCEPT ![t] = Idle]
    BY DEF MoveRefused, DeleteMissing, Commit, DeadlockVictim, Fail, Rollback
  <2> QED BY <1>5, <1>7, <1>8, <2>1 DEF Step, Read, Write
<1> QED BY <1>2, <1>3, <1>4, <1>8 DEF AloneNext

(* As long as no owner has two requests at once, positions are 0..n-1      *)
(* after a first move or delete, and the list a request writes is current. *)
THEOREM AloneTidied == AloneSpec => []AloneInv
<1>1. AloneInv => IndInv
  BY DEF AloneInv
<1> QED BY <1>1, AloneIsNext, AloneInit, AloneKept, OneAtATimeKept, PTL DEF AloneSpec

(* A link has one place in its owner's list.                               *)
LEMMA PlaceIs ==
  ASSUME NEW table, IsTable(table, Row), NEW id \in DOMAIN table, NEW s,
         s = OrderedIn(table, table[id].owner), NEW i \in DOMAIN s, s[i] = id
  PROVE  PlaceOf(table, id) = i
<1>1. \A k \in DOMAIN s : s[k] = id <=> k = i
  BY OrderLists
<1>2. PlaceOf(table, id) = CHOOSE k \in DOMAIN s : s[k] = id
  BY DEF PlaceOf
<1> QED BY <1>1, <1>2

(* A move that commits shifts its link by one place.                       *)
LEMMA ShiftStep == AloneInv => MoveShiftsOneStep
<1> SUFFICES ASSUME AloneInv, NEW t \in Requests, tx[t].op = "move", Commit(t)
             PROVE  /\ tx[t].link \in DOMAIN links
                    /\ PlaceOf(links', tx[t].link)
                         = PlaceOf(links, tx[t].link) + (IF tx[t].up THEN -1 ELSE 1)
  BY DEF MoveShiftsOneStep
<1>1. /\ IndInv /\ ListCurrent(tx[t]) /\ TxFits(tx[t]) /\ IsTable(links, Row)
      /\ IsTable(links', Row) /\ tx[t].pc = "commit"
  BY InvFacts, CommitRows DEF AloneInv, Commit
<1>2. PICK o, l, now : o = tx[t].owner /\ l = tx[t].link /\ now = OrderedIn(links, o)
  OBVIOUS
<1>3. PICK ids \in Seq(Ids) : ids = tx[t].ids
  BY <1>1 DEF TxFits, IsTransaction
<1>4. PICK at \in DOMAIN now : LET to == IF tx[t].up THEN at - 1 ELSE at + 1 IN
        now[at] = l /\ to \in DOMAIN now /\ ids = Swap(now, at, to)
  BY <1>1, <1>2, <1>3 DEF ListCurrent
<1>5. PICK to \in DOMAIN now :
        to = (IF tx[t].up THEN at - 1 ELSE at + 1) /\ ids = Swap(now, at, to)
  BY <1>4
<1>6. /\ now \in Seq(Ids) /\ DOMAIN now \subseteq Int
      /\ \A i, k \in DOMAIN now : now[i] = now[k] => i = k
      /\ \A i \in DOMAIN now : now[i] \in OwnedIn(links, o)
  BY <1>1, <1>2, OrderLists
<1>7. DOMAIN ids = DOMAIN now /\ ids[to] = l
  BY <1>4, <1>5, <1>6, SwapList
<1>8. l \in DOMAIN links /\ links[l].owner = o
  BY <1>4, <1>6 DEF OwnedIn
<1>9. /\ Lists(ids, links', o)
      /\ \A i \in DOMAIN ids : ids[i] \in OwnedIn(links', o)
  BY <1>1, <1>2, <1>3, RewriteCommit
<1>10. ids = OrderedIn(links', o)
  BY <1>1, <1>9, ListIsOrder
<1>11. l \in DOMAIN links' /\ links'[l].owner = o
  BY <1>7, <1>9 DEF OwnedIn
<1>12. PlaceOf(links, l) = at
  BY <1>1, <1>2, <1>4, <1>8, PlaceIs
<1>13. PlaceOf(links', l) = to
  BY <1>1, <1>7, <1>10, <1>11, PlaceIs
<1> QED BY <1>2, <1>5, <1>6, <1>8, <1>12, <1>13

(* "MoveLink shifts one link one place up or down", while its owner posts  *)
(* one form at a time, whatever positions the rows had.                    *)
THEOREM AloneMovesShiftOne == AloneSpec => MoveShiftsOne
<1>1. AloneInv /\ [AloneNext]_vars => [MoveShiftsOneStep]_vars
  BY ShiftStep
<1> QED BY <1>1, AloneTidied, PTL DEF AloneSpec, MoveShiftsOne

------------------------------------------------------------------------------
(* The list all owners see.                                                *)
Shown == [o \in Owners |-> OrderedIn(links, o)]

(* A commit changes one owner's list.                                      *)
LEMMA ShownChange ==
  ASSUME IndInv, NEW t \in Requests, Commit(t)
  PROVE  /\ IsTable(links', Row) /\ tx[t].owner \in Owners
         /\ Shown' = [Shown EXCEPT ![tx[t].owner] = OrderedIn(links', tx[t].owner)]
<1>1. IsTable(links, Row) /\ IsTable(links', Row) /\ tx[t].owner \in Owners
  BY InvFacts, CommitRows
<1>2. ASSUME NEW o \in Owners, o # tx[t].owner
      PROVE  OrderedIn(links', o) = OrderedIn(links, o)
  <2>1. /\ OwnedIn(links', o) = OwnedIn(links, o)
        /\ \A id \in OwnedIn(links, o) : links'[id] = links[id]
    BY <1>2, OthersUntouched
  <2> QED BY <1>1, <2>1, SameOrder
<1> QED BY <1>1, <1>2 DEF Shown

(* A link that is not in the table is on no list.                          *)
LEMMA ListedThere ==
  ASSUME IsTable(links, Row)
  PROVE  ListOrder!Listed \subseteq DOMAIN links
<1>1. ASSUME NEW o \in Owners, NEW i \in DOMAIN OrderedIn(links, o)
      PROVE  OrderedIn(links, o)[i] \in DOMAIN links
  BY OrderLists DEF OwnedIn
<1> QED BY <1>1 DEF ListOrder!Listed

(* A creation adds the last link of its owner's list.                      *)
LEMMA AddLastStep ==
  ASSUME AloneInv, NEW t \in Requests, Commit(t), tx[t].op = "create"
  PROVE  ListOrder!AddLast
<1>1. IndInv /\ ListCurrent(tx[t]) /\ IsTable(links, Row) /\ IsTable(links', Row)
  BY InvFacts, CommitRows DEF AloneInv
<1>2. PICK o \in Owners : o = tx[t].owner
  BY <1>1, ShownChange
<1>3. PICK own, n, s, end : /\ own = OwnedIn(links, o) /\ n = Cardinality(own)
                            /\ s = OrderedIn(links, o) /\ end = NextPosition(links, o)
  OBVIOUS
<1>4. PICK id \in Ids \ DOMAIN links : /\ OwnedIn(links', o) = own \cup {id}
                                       /\ \A k \in own : links'[k] = links[k]
                                       /\ links'[id].position = end
  BY <1>1, <1>2, <1>3, CreateCommit
<1>5. /\ s \in [1..n -> own] /\ s \in Seq(Ids) /\ Len(s) = n
      /\ \A i, k \in 1..n : i < k => Before(links, s[i], s[k])
  BY <1>1, <1>3, OrderLists DEF Lists
<1>6. IsFiniteSet(own) /\ n \in Nat /\ id \notin own
  BY <1>1, <1>3, OwnOrdered DEF OwnedIn
<1>7. Cardinality(own \cup {id}) = n + 1
  BY <1>3, <1>6, FS_AddElement
<1>8. PICK q : q = Append(s, id)
  OBVIOUS
<1>9. /\ q \in Seq(Ids) /\ Len(q) = n + 1 /\ q[n + 1] = id
      /\ \A i \in 1..n : q[i] = s[i]
  BY <1>4, <1>5, <1>8, AppendProperties
<1>10. /\ DOMAIN q = 1..(n + 1) /\ \A i \in 1..(n + 1) : q[i] \in own \cup {id}
  BY <1>5, <1>6, <1>9, LenProperties
<1>11. q \in [1..(n + 1) -> own \cup {id}]
  BY <1>9, <1>10
<1>12. ASSUME NEW i \in 1..(n + 1), NEW k \in 1..(n + 1), i < k
       PROVE  Before(links', q[i], q[k])
  <2>1. i \in 1..n /\ q[i] = s[i] /\ s[i] \in own
    BY <1>5, <1>6, <1>9, <1>12
  <2>2. CASE k \in 1..n
    <3>1. q[k] = s[k] /\ s[k] \in own /\ Before(links, s[i], s[k])
      BY <1>5, <1>9, <1>12, <2>1, <2>2
    <3> QED BY <1>4, <2>1, <3>1 DEF Before
  <2>3. CASE k = n + 1
    <3>1. links[s[i]].position < end
      BY <1>1, <1>3, <2>1, NextPositionEnds
    <3> QED BY <1>4, <1>9, <2>1, <2>3, <3>1 DEF Before
  <2> QED BY <1>6, <2>2, <2>3
<1>13. Lists(q, links', o)
  BY <1>4, <1>7, <1>11, <1>12 DEF Lists
<1>14. q = OrderedIn(links', o)
  BY <1>1, <1>13, ListIsOrder
<1>15. Shown' = [Shown EXCEPT ![o] = Append(@, id)]
  BY <1>1, <1>2, <1>3, <1>8, <1>14, ShownChange DEF Shown
<1>16. id \in Ids \ ListOrder!Listed
  BY <1>1, ListedThere
<1> QED BY <1>15, <1>16 DEF ListOrder!AddLast, Shown

(* A move exchanges two neighbours.                                        *)
LEMMA MoveStep ==
  ASSUME AloneInv, NEW t \in Requests, Commit(t), tx[t].op = "move"
  PROVE  ListOrder!Move
<1>1. /\ IndInv /\ ListCurrent(tx[t]) /\ TxFits(tx[t]) /\ IsTable(links, Row)
      /\ IsTable(links', Row) /\ tx[t].pc = "commit"
  BY InvFacts, CommitRows DEF AloneInv, Commit
<1>2. PICK o \in Owners : o = tx[t].owner
  BY <1>1, ShownChange
<1>3. PICK ids \in Seq(Ids) : ids = tx[t].ids
  BY <1>1 DEF TxFits, IsTransaction
<1>4. PICK now : now = OrderedIn(links, o)
  OBVIOUS
<1>5. /\ now \in Seq(Ids) /\ DOMAIN now = 1..Len(now) /\ Len(now) \in Nat
      /\ \A i, k \in DOMAIN now : now[i] = now[k] => i = k
  BY <1>1, <1>4, OrderLists
<1>6. PICK at \in DOMAIN now, to \in DOMAIN now :
        to \in {at - 1, at + 1} /\ ids = Swap(now, at, to)
  <2>1. PICK at \in DOMAIN now : LET to == IF tx[t].up THEN at - 1 ELSE at + 1 IN
          to \in DOMAIN now /\ ids = Swap(now, at, to)
    BY <1>1, <1>2, <1>3, <1>4 DEF ListCurrent
  <2> QED BY <2>1
<1>7. PICK i \in 1..(Len(now) - 1) : <<i, i + 1>> \in {<<at, to>>, <<to, at>>}
  <2>1. CASE to = at + 1
    BY <1>5, <2>1
  <2>2. CASE to = at - 1
    BY <1>5, <2>2
  <2> QED BY <1>6, <2>1, <2>2
<1>8. i \in DOMAIN now /\ i + 1 \in DOMAIN now
  BY <1>5
<1>9. ids = ListOrder!Exchange(now, i)
  <2>1. PICK x : x = ListOrder!Exchange(now, i)
    OBVIOUS
  <2>2. x = [now EXCEPT ![i] = now[i + 1], ![i + 1] = now[i]]
    BY <2>1 DEF ListOrder!Exchange
  <2>3. ids = [now EXCEPT ![at] = now[to], ![to] = now[at]]
    BY <1>6 DEF Swap
  <2>4. at # to
    BY <1>5, <1>6
  <2>5. CASE at = i /\ to = i + 1
    BY <2>1, <2>2, <2>3, <2>5
  <2>6. CASE to = i /\ at = i + 1
    <3>1. now = [k \in DOMAIN now |-> now[k]]
      BY <1>5
    <3>2. x = [k \in DOMAIN now |-> IF k = i + 1 THEN now[i] ELSE IF k = i THEN now[i + 1] ELSE now[k]]
      BY <1>8, <2>2, <3>1
    <3>3. ids = [k \in DOMAIN now |-> IF k = i THEN now[i + 1] ELSE IF k = i + 1 THEN now[i] ELSE now[k]]
      BY <1>8, <2>3, <2>6, <3>1
    <3> QED BY <2>1, <2>4, <2>6, <3>2, <3>3
  <2> QED BY <1>7, <2>5, <2>6
<1>10. ids = OrderedIn(links', o)
  <2>1. Lists(ids, links', o)
    BY <1>1, <1>2, <1>3, RewriteCommit
  <2> QED BY <1>1, <2>1, ListIsOrder
<1>11. Shown' = [Shown EXCEPT ![o] = ListOrder!Exchange(@, i)]
  BY <1>1, <1>2, <1>4, <1>9, <1>10, ShownChange DEF Shown
<1>12. Shown[o] = now
  BY <1>4 DEF Shown
<1> QED BY <1>11, <1>12 DEF ListOrder!Move, Shown

(* A delete closes the gap its link leaves.                                *)
LEMMA RemoveStep ==
  ASSUME AloneInv, NEW t \in Requests, Commit(t), tx[t].op = "delete"
  PROVE  ListOrder!Remove
<1>1. /\ IndInv /\ ListCurrent(tx[t]) /\ TxFits(tx[t]) /\ IsTable(links, Row)
      /\ IsTable(links', Row) /\ tx[t].pc = "commit"
  BY InvFacts, CommitRows DEF AloneInv, Commit
<1>2. PICK o \in Owners : o = tx[t].owner
  BY <1>1, ShownChange
<1>3. PICK l \in Ids : l = tx[t].link /\ l \in OwnedIn(links, o)
  <2>1. tx[t].link \in DOMAIN tx[t].writes
    BY <1>1 DEF TxFits, ListFits
  <2>2. tx[t].link \in OwnedIn(links, o)
    BY <1>1, <1>2, <2>1 DEF TxFits, WritesFit
  <2> QED BY <1>1, <2>2 DEF OwnedIn, IsTable
<1>4. PICK own, n, now, less : /\ own = OwnedIn(links, o) /\ n = Cardinality(own)
                               /\ now = OrderedIn(links, o) /\ less = Less(links, l)
  OBVIOUS
<1>5. /\ now \in [1..n -> own] /\ now \in Seq(Ids) /\ Len(now) = n
      /\ \A i, k \in 1..n : i < k => Before(links, now[i], now[k])
      /\ \A i, k \in 1..n : now[i] = now[k] => i = k
  BY <1>1, <1>4, OrderLists DEF Lists
<1>6. PICK i \in 1..n : now[i] = l
  BY <1>1, <1>3, <1>4, OrderLists
<1>7. /\ IsFiniteSet(own) /\ n \in Nat /\ n > 0
      /\ Cardinality(own \ {l}) = n - 1
  <2>1. IsFiniteSet(own) /\ n \in Nat
    BY <1>1, <1>4, OwnOrdered
  <2>2. Cardinality(own \ {l}) = n - 1
    BY <1>3, <1>4, <2>1, FS_RemoveElement
  <2> QED BY <1>6, <2>1, <2>2
<1>8. /\ IsTable(less, Row) /\ OwnedIn(less, o) = own \ {l}
      /\ \A id \in own \ {l} : less[id] = links[id]
  BY <1>1, <1>4, LessRow
<1>9. PICK q : q = ListOrder!Without(now, i)
  OBVIOUS
<1>10. /\ q = [k \in 1..(n - 1) |-> IF k < i THEN now[k] ELSE now[k + 1]]
       /\ \A k \in 1..(n - 1) : \E j \in 1..n : /\ q[k] = now[j] /\ j # i
                                               /\ j = IF k < i THEN k ELSE k + 1
  <2>1. q = [k \in 1..(n - 1) |-> IF k < i THEN now[k] ELSE now[k + 1]]
    BY <1>5, <1>9 DEF ListOrder!Without
  <2>2. ASSUME NEW k \in 1..(n - 1)
        PROVE  \E j \in 1..n : /\ q[k] = now[j] /\ j # i
                               /\ j = IF k < i THEN k ELSE k + 1
    <3>1. CASE k < i
      <4>1. q[k] = now[k] /\ k \in 1..n /\ k # i
        BY <1>7, <2>1, <2>2, <3>1
      <4> QED BY <3>1, <4>1
    <3>2. CASE ~ (k < i)
      <4>1. q[k] = now[k + 1] /\ k + 1 \in 1..n /\ k + 1 # i
        BY <1>7, <2>1, <2>2, <3>2
      <4> QED BY <3>2, <4>1
    <3> QED BY <3>1, <3>2
  <2> QED BY <2>1, <2>2
<1>11. q \in [1..(n - 1) -> own \ {l}]
  <2>1. \A k \in 1..(n - 1) : q[k] \in own \ {l}
    BY <1>5, <1>6, <1>10
  <2>2. DOMAIN q = 1..(n - 1) /\ q = [k \in 1..(n - 1) |-> q[k]]
    BY <1>10
  <2> QED BY <2>1, <2>2
<1>12. ASSUME NEW a \in 1..(n - 1), NEW b \in 1..(n - 1), a < b
       PROVE  Before(less, q[a], q[b])
  <2>1. PICK j \in 1..n : q[a] = now[j] /\ j = IF a < i THEN a ELSE a + 1
    BY <1>10
  <2>2. PICK k \in 1..n : q[b] = now[k] /\ k = IF b < i THEN b ELSE b + 1
    BY <1>10
  <2>3. j < k
    BY <1>12, <2>1, <2>2
  <2>4. Before(links, q[a], q[b])
    BY <1>5, <2>1, <2>2, <2>3
  <2>5. q[a] \in own \ {l} /\ q[b] \in own \ {l}
    BY <1>11
  <2> QED BY <1>8, <2>4, <2>5 DEF Before
<1>13. q = OrderedIn(less, o)
  <2>1. Lists(q, less, o)
    BY <1>7, <1>8, <1>11, <1>12 DEF Lists
  <2> QED BY <1>8, <2>1, ListIsOrder
<1>14. tx[t].ids = q
  BY <1>1, <1>2, <1>3, <1>4, <1>13 DEF ListCurrent, Less
<1>15. OrderedIn(links', o) = q
  <2>1. Lists(tx[t].ids, links', tx[t].owner)
    BY <1>1, RewriteCommit
  <2> QED BY <1>1, <1>2, <1>14, <2>1, ListIsOrder
<1>16. Shown' = [Shown EXCEPT ![o] = ListOrder!Without(@, i)]
  BY <1>1, <1>2, <1>4, <1>9, <1>15, ShownChange DEF Shown
<1>17. i \in 1..Len(Shown[o])
  BY <1>4, <1>5 DEF Shown
<1> QED BY <1>16, <1>17 DEF ListOrder!Remove, Shown

(* Every step is a step of the list the owners see, or changes nothing.    *)
LEMMA OrderStep ==
  ASSUME AloneInv, [Next]_vars
  PROVE  [ListOrder!Next]_Shown
<1>1. IndInv
  BY DEF AloneInv
<1>2. CASE links' = links
  BY <1>2 DEF Shown
<1>3. ASSUME NEW t \in Requests, Commit(t)
      PROVE  ListOrder!Next
  <2>1. tx[t].op \in {"create", "move", "delete"}
    BY <1>1, <1>3, CommitRows
  <2> QED BY <1>3, <2>1, AddLastStep, MoveStep, RemoveStep DEF ListOrder!Next
<1> QED BY <1>1, <1>2, <1>3, StepKinds

(* While each owner posts one form at a time, the rows are the list        *)
(* LinkOrder describes: nothing but a whole append, exchange or removal    *)
(* ever shows.                                                             *)
THEOREM AloneImplementsOrder == AloneSpec => ImplementsOrder
<1>1. Init => ListOrder!Init
  <2> SUFFICES ASSUME Init, NEW o \in Owners
               PROVE  \A i, k \in 1..Len(OrderedIn(links, o)) :
                        OrderedIn(links, o)[i] = OrderedIn(links, o)[k] => i = k
    BY DEF ListOrder!Init
  <2>1. IsTable(links, Row)
    BY InitInv DEF IndInv, TypeOK
  <2> QED BY <2>1, OrderLists
<1>2. AloneInv /\ [AloneNext]_vars => [ListOrder!Next]_Shown
  BY AloneIsNext, OrderStep
<1> QED BY <1>1, <1>2, AloneTidied, PTL DEF AloneSpec, ImplementsOrder, ListOrder!Spec, Shown
=============================================================================
