------------------------------ MODULE LinkList ------------------------------
(***************************************************************************)
(* A profile's list of links: Store.CreateLink, MoveLink and DeleteLink    *)
(* with renumber, orderedLinkIDs and writePositions (store/store.go), as   *)
(* transactions that interleave statement by statement.                    *)
(*                                                                         *)
(* MySQL as these functions use it, at its default REPEATABLE READ: a      *)
(* SELECT reads what is committed when the transaction first reads, plus   *)
(* the transaction's own writes; INSERT, UPDATE and DELETE act on the      *)
(* latest committed row, wait while another transaction holds it, and hold *)
(* it until commit or rollback; a cycle of waits costs one transaction on  *)
(* it an error.                                                            *)
(***************************************************************************)
EXTENDS Integers, Sequences, FiniteSets

CONSTANTS Requests,       \* the requests that can be in a handler at once
          Owners,         \* the signed-in users
          InitialTables,  \* the contents links can start with
          NoOwner,
          MaxId           \* bound: the last AUTO_INCREMENT id of links

Ids == 1..MaxId

Row == [owner : Owners, position : Nat]

ASSUME MaxIdAssumption == MaxId \in Nat

ASSUME OwnersAssumption == NoOwner \notin Owners

(* Links 1 to n are there, in any order and at any positions.              *)
ASSUME TablesAssumption ==
  \A table \in InitialTables : \E n \in 0..MaxId : table \in [1..n -> Row]

VARIABLES links,   \* id -> committed row of links, for the ids that exist
          nextId,  \* the AUTO_INCREMENT counter of links
          tx,      \* request -> its transaction
          tidied   \* history: the owners whose last list change was a whole rewrite

vars == <<links, nextId, tx, tidied>>

-----------------------------------------------------------------------------
Deleted == [owner |-> NoOwner, position |-> 0]

(* The writes of a transaction over a table, or over another's writes.     *)
Over(table, writes) ==
  [id \in {i \in DOMAIN table \cup DOMAIN writes :
             i \in DOMAIN writes => writes[i] # Deleted}
     |-> IF id \in DOMAIN writes THEN writes[id] ELSE table[id]]

OwnedIn(table, o) == {id \in DOMAIN table : table[id].owner = o}

Before(table, a, b) == \/ table[a].position < table[b].position
                       \/ table[a].position = table[b].position /\ a < b

(* SELECT id FROM links WHERE user_id = ? ORDER BY position, id            *)
OrderedIn(table, o) ==
  LET own == OwnedIn(table, o) IN
  [i \in 1..Cardinality(own) |->
     CHOOSE id \in own : Cardinality({k \in own : Before(table, k, id)}) = i - 1]

(* Mutant: the next position is the number of links.                        *)
NextPositionByCount(table, o) == Cardinality(OwnedIn(table, o))

(* SELECT COALESCE(MAX(position), -1) + 1 FROM links WHERE user_id = ?     *)
NextPosition(table, o) ==
  LET used == {table[id].position : id \in OwnedIn(table, o)} IN
  IF used = {} THEN 0 ELSE 1 + CHOOSE p \in used : \A q \in used : q <= p

(* ids[at], ids[to] = ids[to], ids[at]                                     *)
Swap(ids, at, to) == [ids EXCEPT ![at] = ids[to], ![to] = ids[at]]

NoWrites == << >>

(* One more row of a table.                                                *)
Put(table, id, row) ==
  [i \in DOMAIN table \cup {id} |-> IF i = id THEN row ELSE table[i]]

Idle == [op |-> "none", pc |-> "idle", owner |-> NoOwner, link |-> 0, up |-> FALSE,
         position |-> 0, ids |-> << >>, at |-> 0, writes |-> NoWrites]

Init ==
  /\ links \in InitialTables
  /\ nextId = Cardinality(DOMAIN links) + 1
  /\ tx = [t \in Requests |-> Idle]
  /\ tidied = {}

-----------------------------------------------------------------------------
Holds(t) == DOMAIN tx[t].writes

HeldByOther(t, id) == \E u \in Requests \ {t} : id \in Holds(u)

(* The row the next statement of t needs.                                  *)
Wanted(t) == CASE tx[t].pc = "delete" -> tx[t].link
               [] tx[t].pc = "write" -> tx[t].ids[tx[t].at]
               [] OTHER -> 0

Blocked(t) == HeldByOther(t, Wanted(t))

WaitsFor(t, u) == t # u /\ Wanted(t) \in Holds(u)

Rollback(t) ==
  /\ tx' = [tx EXCEPT ![t] = Idle]
  /\ UNCHANGED <<links, nextId, tidied>>

Statement(t, next) ==
  /\ tx' = [tx EXCEPT ![t] = next]
  /\ UNCHANGED <<links, nextId, tidied>>

(* Creations under way; Begin keeps MaxId out of their reach.              *)
Creating == {t \in Requests : tx[t].pc \in {"max", "insert"}}

(* A form is posted; link may be stale or another account's.               *)
Begin(t, o) ==
  /\ tx[t].pc = "idle"
  /\ \/ /\ nextId + Cardinality(Creating) <= MaxId
        /\ Statement(t, [Idle EXCEPT !.op = "create", !.pc = "max", !.owner = o])
     \/ \E l \in Ids, up \in BOOLEAN :
          Statement(t, [Idle EXCEPT !.op = "move", !.pc = "order", !.owner = o,
                                    !.link = l, !.up = up])
     \/ \E l \in Ids :
          Statement(t, [Idle EXCEPT !.op = "delete", !.pc = "delete", !.owner = o, !.link = l])

(* CreateLink: the end of the list as the snapshot has it, then the row.   *)
ReadMax(t) ==
  /\ tx[t].pc = "max"
  /\ Statement(t, [tx[t] EXCEPT !.pc = "insert", !.position = NextPosition(links, tx[t].owner)])

InsertLink(t) ==
  /\ tx[t].pc = "insert"
  /\ nextId <= MaxId
  /\ nextId' = nextId + 1
  /\ tx' = [tx EXCEPT ![t].pc = "commit",
                      ![t].writes = Put(NoWrites, nextId, [owner |-> tx[t].owner,
                                                           position |-> tx[t].position])]
  /\ UNCHANGED <<links, tidied>>

(* Mutant: "AND user_id = ?" is missing from the DELETE.                   *)
FoundAnyOwner(t) == tx[t].link \in DOMAIN links

(* DeleteLink: the row, if it is there and the owner's; else rollback.     *)
Found(t) == tx[t].link \in OwnedIn(links, tx[t].owner)

DeleteRow(t) ==
  /\ tx[t].pc = "delete"
  /\ ~ Blocked(t)
  /\ Found(t)
  /\ Statement(t, [tx[t] EXCEPT !.pc = "order", !.writes = Put(NoWrites, tx[t].link, Deleted)])

DeleteMissing(t) ==
  /\ tx[t].pc = "delete"
  /\ ~ Blocked(t)
  /\ ~ Found(t)
  /\ Rollback(t)

(* orderedLinkIDs, and the list to be written: MoveLink exchanges the link *)
(* with its neighbour, renumber keeps the order.                           *)
Order(t) == OrderedIn(Over(links, tx[t].writes), tx[t].owner)

Rewrite(t, ids) ==
  Statement(t, [tx[t] EXCEPT !.pc = IF ids = << >> THEN "commit" ELSE "write",
                             !.ids = ids, !.at = 1])

ReadForDelete(t) ==
  /\ tx[t].pc = "order" /\ tx[t].op = "delete"
  /\ Rewrite(t, Order(t))

(* Mutant: up and down exchanged.                                          *)
NeighbourFlipped(t, at) == IF tx[t].up THEN at + 1 ELSE at - 1

Neighbour(t, at) == IF tx[t].up THEN at - 1 ELSE at + 1

ReadForMove(t) ==
  /\ tx[t].pc = "order" /\ tx[t].op = "move"
  /\ LET ids == Order(t) IN
     \E at \in DOMAIN ids :
       /\ ids[at] = tx[t].link
       /\ Neighbour(t, at) \in DOMAIN ids
       /\ Rewrite(t, Swap(ids, at, Neighbour(t, at)))

(* Mutant: the transaction is left open when the move is refused.          *)
MoveRefusedLeaks(t) ==
  /\ tx[t].pc = "order" /\ tx[t].op = "move"
  /\ LET ids == Order(t) IN
     ~ \E at \in DOMAIN ids : ids[at] = tx[t].link /\ Neighbour(t, at) \in DOMAIN ids
  /\ UNCHANGED vars

(* ErrLinkNotFound, ErrLinkAtEdge                                          *)
MoveRefused(t) ==
  /\ tx[t].pc = "order" /\ tx[t].op = "move"
  /\ LET ids == Order(t) IN
     ~ \E at \in DOMAIN ids : ids[at] = tx[t].link /\ Neighbour(t, at) \in DOMAIN ids
  /\ Rollback(t)

(* Mutant: positions start at 1.                                           *)
PlacedFromOne(t) ==
  LET id == tx[t].ids[tx[t].at] IN
  IF id \in OwnedIn(links, tx[t].owner)
  THEN Put(tx[t].writes, id, [owner |-> tx[t].owner, position |-> tx[t].at])
  ELSE tx[t].writes

(* Mutant: a row that already has its position is not written.             *)
PlacedIfChanged(t) ==
  LET id == tx[t].ids[tx[t].at] IN
  IF id \in OwnedIn(links, tx[t].owner) /\ links[id].position # tx[t].at - 1
  THEN Put(tx[t].writes, id, [owner |-> tx[t].owner, position |-> tx[t].at - 1])
  ELSE tx[t].writes

(* One UPDATE of writePositions.  A row deleted since the list was read    *)
(* matches nothing, which is no error.                                     *)
Placed(t) ==
  LET id == tx[t].ids[tx[t].at] IN
  IF id \in OwnedIn(links, tx[t].owner)
  THEN Put(tx[t].writes, id, [owner |-> tx[t].owner, position |-> tx[t].at - 1])
  ELSE tx[t].writes

WritePosition(t) ==
  /\ tx[t].pc = "write"
  /\ ~ Blocked(t)
  /\ Statement(t, [tx[t] EXCEPT !.writes = Placed(t),
                                !.at = @ + 1,
                                !.pc = IF tx[t].at = Len(tx[t].ids) THEN "commit" ELSE "write"])

Commit(t) ==
  /\ tx[t].pc = "commit"
  /\ links' = Over(links, tx[t].writes)
  /\ tx' = [tx EXCEPT ![t] = Idle]
  /\ tidied' = IF tx[t].op = "create" THEN tidied ELSE tidied \cup {tx[t].owner}
  /\ UNCHANGED nextId

(* A statement fails or the browser's request is cancelled.                *)
Fail(t) == tx[t].pc # "idle" /\ Rollback(t)

(* InnoDB breaks a cycle of waits at one of its members.                   *)
Cycle(S) == \A t \in S : /\ \E u \in S : WaitsFor(t, u)
                         /\ \E u \in S : WaitsFor(u, t)

DeadlockVictim(t) ==
  /\ \E S \in SUBSET Requests : t \in S /\ Cycle(S)
  /\ Rollback(t)

Crash ==
  /\ tx' = [t \in Requests |-> Idle]
  /\ UNCHANGED <<links, nextId, tidied>>

-----------------------------------------------------------------------------
Read(t) == ReadMax(t) \/ ReadForDelete(t) \/ ReadForMove(t) \/ MoveRefused(t)

Write(t) == InsertLink(t) \/ DeleteRow(t) \/ DeleteMissing(t) \/ WritePosition(t)

Step(t) == Read(t) \/ Write(t) \/ Commit(t) \/ DeadlockVictim(t)

Next == \/ \E t \in Requests : Step(t) \/ Fail(t) \/ \E o \in Owners : Begin(t, o)
        \/ Crash

Spec == Init /\ [][Next]_vars

(* A handler runs on until it returns.  A statement that waits for a row   *)
(* stands in InnoDB's queue for it, so it is not overtaken for ever.       *)
FairSpec == Spec /\ \A t \in Requests : SF_vars(Step(t))

(* Each owner posts one form at a time; different owners still interleave. *)
OneAtATime == \A t, u \in Requests :
  tx[t].pc # "idle" /\ tx[u].pc # "idle" /\ tx[t].owner = tx[u].owner => t = u

BeginAlone(t, o) ==
  /\ \A u \in Requests : tx[u].pc # "idle" => tx[u].owner # o
  /\ Begin(t, o)

AloneNext == \/ \E t \in Requests : Step(t) \/ Fail(t) \/ \E o \in Owners : BeginAlone(t, o)
             \/ Crash

AloneSpec == Init /\ [][AloneNext]_vars

-----------------------------------------------------------------------------
IsTable(f, S) == DOMAIN f \subseteq Ids /\ f \in [DOMAIN f -> S]

IsTransaction(r) ==
  /\ r \in [op : {"none", "create", "move", "delete"},
            pc : {"idle", "max", "insert", "delete", "order", "write", "commit"},
            owner : Owners \cup {NoOwner}, link : Ids \cup {0}, up : BOOLEAN,
            position : Nat, ids : Seq(Ids), at : Nat, writes : {r.writes}]
  /\ IsTable(r.writes, Row \cup {Deleted})

(* Every variable has its type.                                            *)
TypeOK ==
  /\ IsTable(links, Row)
  /\ nextId \in 1..(MaxId + 1)
  /\ DOMAIN tx = Requests /\ \A t \in Requests : IsTransaction(tx[t])
  /\ tidied \subseteq Owners

(* How far each kind of request is, and what it holds by then.             *)
StageFits(r) ==
  /\ r.pc \in (CASE r.op = "none"   -> {"idle"}
                 [] r.op = "create" -> {"max", "insert", "commit"}
                 [] r.op = "move"   -> {"order", "write", "commit"}
                 [] r.op = "delete" -> {"delete", "order", "write", "commit"})
  /\ r.op # "none" => r.owner \in Owners
  /\ r.pc \in {"idle", "max", "insert", "delete"} => r.writes = NoWrites
  /\ r.op = "move" /\ r.pc = "order" => r.writes = NoWrites
  /\ r.pc \notin {"write", "commit"} \/ r.op = "create" => r.ids = << >>
  /\ r.pc = "write" => r.at \in 1..Len(r.ids)
  /\ r.pc = "commit" /\ r.op # "create" => r.at = Len(r.ids) + 1

(* A link being created has an id that nobody has seen; ids are given out  *)
(* once (AUTO_INCREMENT).                                                  *)
NewRowFits(r) ==
  r.op = "create" /\ r.pc = "commit" =>
    \E id \in Ids \ DOMAIN links :
      r.writes = Put(NoWrites, id, [owner |-> r.owner, position |-> r.position])

IdsGivenOut ==
  /\ \A id \in DOMAIN links : id < nextId
  /\ \A t \in Requests : /\ \A id \in Holds(t) : id < nextId
                        /\ \A i \in DOMAIN tx[t].ids : tx[t].ids[i] < nextId

(* A row has one writer, and a link not yet committed is in nobody's list. *)
RowsHeldOnce ==
  \A t, u \in Requests :
    /\ t # u => Holds(t) \cap Holds(u) = {}
    /\ tx[u].op = "create" => \A i \in DOMAIN tx[t].ids : tx[t].ids[i] \notin Holds(u)

(* What a move or delete has written: the link it deletes, and the rows of *)
(* its list before at, all of them still there and the owner's.            *)
WritesFit(r) ==
  r.op \in {"move", "delete"} => \A id \in DOMAIN r.writes :
    /\ id \in OwnedIn(links, r.owner)
    /\ \/ r.op = "delete" /\ id = r.link /\ r.writes[id] = Deleted
       \/ \E i \in DOMAIN r.ids : /\ i < r.at /\ id = r.ids[i]
                                 /\ r.writes[id] = [owner |-> r.owner, position |-> i - 1]

(* The list it writes: the owner's links, each once, and those before at   *)
(* that are still there are locked.                                        *)
ListFits(r) ==
  /\ \A i, k \in DOMAIN r.ids : r.ids[i] = r.ids[k] => i = k
  /\ \A i \in DOMAIN r.ids : r.ids[i] \in DOMAIN links =>
       /\ links[r.ids[i]].owner = r.owner
       /\ i < r.at => r.ids[i] \in DOMAIN r.writes
  /\ r.op = "delete" /\ r.pc # "delete" =>
       /\ r.link \in DOMAIN r.writes /\ r.writes[r.link] = Deleted
       /\ \A i \in DOMAIN r.ids : r.ids[i] # r.link

(* What holds at every step, however requests interleave.                  *)
IndInv ==
  /\ TypeOK /\ IdsGivenOut /\ RowsHeldOnce
  /\ \A t \in Requests : /\ StageFits(tx[t]) /\ NewRowFits(tx[t])
                        /\ WritesFit(tx[t]) /\ ListFits(tx[t])

Dense(o) == {links[id].position : id \in OwnedIn(links, o)}
              = 0..(Cardinality(OwnedIn(links, o)) - 1)

(* After a first move or delete, whatever positions the legacy rows had,   *)
(* an owner's positions are 0..n-1, each once, and stay so                 *)
(* (store.go:319-320).  Holds while each owner posts one form at a time.   *)
TidiedDense == \A o \in tidied : Dense(o)

(* The list a transaction is going to write is the one its owner has now,  *)
(* with the change: nobody else has committed to that owner's links.       *)
ListCurrent(r) ==
  LET now == OrderedIn(links, r.owner) IN
  /\ r.op = "move" /\ r.pc \in {"write", "commit"} =>
       \E at \in DOMAIN now :
         LET to == IF r.up THEN at - 1 ELSE at + 1 IN
         now[at] = r.link /\ to \in DOMAIN now /\ r.ids = Swap(now, at, to)
  /\ r.op = "delete" /\ r.pc \in {"write", "commit"} =>
       r.ids = OrderedIn(Over(links, Put(NoWrites, r.link, Deleted)), r.owner)
  /\ r.op = "create" /\ r.pc \in {"insert", "commit"} =>
       r.position = NextPosition(links, r.owner)

(* What holds at every step while each owner has one request at a time.    *)
AloneInv == /\ IndInv /\ TidiedDense
            /\ \A t \in Requests : ListCurrent(tx[t])

(* "so positions stay 0..n-1" (store.go:319-320), from a list that is so.  *)
(* Refuted by two requests at once: CreateLink's position and the list     *)
(* renumber writes are both read before the rows are locked.               *)
AlwaysDense == \A o \in Owners : Dense(o)

PlaceOf(table, id) ==
  LET o == table[id].owner IN
  CHOOSE i \in DOMAIN OrderedIn(table, o) : OrderedIn(table, o)[i] = id

(* "MoveLink shifts one link one place up or down" (store.go:327).  It     *)
(* does if its owner sends nothing else, even over shared positions.  Not  *)
(* so two at once: both read the same list, and the later overwrites it.   *)
MoveShiftsOneStep ==
  \A t \in Requests : tx[t].op = "move" /\ Commit(t) =>
    /\ tx[t].link \in DOMAIN links
    /\ PlaceOf(links', tx[t].link) = PlaceOf(links, tx[t].link) + (IF tx[t].up THEN -1 ELSE 1)

MoveShiftsOne == [][MoveShiftsOneStep]_vars

(* A move or a delete that commits installs the list it decided on, whole: *)
(* every link of it that is still there has its place in it, so no two     *)
(* rewrites of one list are ever mixed.                                    *)
InstalledWholeStep ==
  \A t \in Requests : Commit(t) => \A i \in DOMAIN tx[t].ids :
    tx[t].ids[i] \in DOMAIN links' => links'[tx[t].ids[i]].position = i - 1

InstalledWhole == [][InstalledWholeStep]_vars

(* A committed link changes only by its owner's request, and disappears    *)
(* only by a delete of that link: stale and foreign ids do nothing.        *)
OnlyOwnerChangesStep ==
  \A id \in DOMAIN links :
    \/ id \in DOMAIN links' /\ links'[id] = links[id]
    \/ \E t \in Requests :
         /\ Commit(t)
         /\ tx[t].owner = links[id].owner
         /\ id \notin DOMAIN links' => tx[t].op = "delete" /\ tx[t].link = id

OnlyOwnerChanges == [][OnlyOwnerChangesStep]_vars

(* Moves and deletes, however they race, never give two links of an owner  *)
(* one position (store.go:328-330 explains what that would do to a swap).  *)
DistinctPositions ==
  \A o \in Owners : \A a, b \in OwnedIn(links, o) :
    links[a].position = links[b].position => a = b

(* Nothing but the owner's own creations can add a link to the list that a *)
(* move or delete has read.                                                *)
Creates(o) == \E t \in Requests : tx[t].op = "create" /\ tx[t].owner = o

ListComplete(r) ==
  r.op \in {"move", "delete"} /\ r.pc \in {"write", "commit"} =>
    \A id \in OwnedIn(links, r.owner) :
      \/ \E i \in DOMAIN r.ids : id = r.ids[i]
      \/ r.op = "delete" /\ id = r.link

DistinctFor(o) ==
  /\ \A a, b \in OwnedIn(links, o) : links[a].position = links[b].position => a = b
  /\ \A t \in Requests : tx[t].owner = o => ListComplete(tx[t])

(* Every request ends, although two rewrites of one list lock its rows in  *)
(* different orders and can wait for each other.                           *)
EveryRequestEnds == \A t \in Requests : tx[t].pc # "idle" ~> tx[t].pc = "idle"

(* One request of an owner at a time, rows behave as the list they show.   *)
ListOrder == INSTANCE LinkOrder WITH order <- [o \in Owners |-> OrderedIn(links, o)]

(* A commit appends, exchanges two neighbours or closes a gap; nothing     *)
(* else, and no statement before it, shows.                                *)
ImplementsOrder == ListOrder!Spec
=============================================================================
