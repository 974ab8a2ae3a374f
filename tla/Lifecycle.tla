----------------------------- MODULE Lifecycle -----------------------------
(***************************************************************************)
(* How a LinkNest process starts, serves and stops, by either entry point: *)
(* main (cmd/linknest/main.go), a container that docker-compose restarts   *)
(* unless it was stopped, and Handler (api/index.go), a serverless         *)
(* function whose first calls build the routes under a mutex.  Both go     *)
(* through db.Open, db.Migrate and app.New.                                *)
(*                                                                         *)
(* A pool that a failed migration leaves behind is used by nobody and is   *)
(* not followed.  The worker that main starts is Rollup's; its run is cut  *)
(* by an exit as by any failure.                                           *)
(***************************************************************************)
EXTENDS Integers, FiniteSets

CONSTANTS
  Callers,    \* the requests that can be under way at once
  NoCaller,
  Tables,     \* how many statements the migration has
  MaxKills    \* bound: how often the process is killed from outside

ASSUME NumbersAssumption == Tables \in Nat \ {0} /\ MaxKills \in Nat
ASSUME CallersAssumption == NoCaller \notin Callers

VARIABLES
  entry,      \* the entry point this process runs: "main" or "function"
  up,         \* does the database answer
  schema,     \* how many statements of the migration have taken effect
  mu,         \* the caller that holds the mutex, or NoCaller
  pool,       \* the pool behind the routes: "none", "open" or "closed"
  call,       \* caller -> where its request is
  boot,       \* where main's goroutine is
  listening,  \* has ListenAndServe bound its address, and not been shut down
  asked,      \* an operator has sent SIGTERM
  stop,       \* the channel of signal.Notify holds a signal
  expired,    \* the ten seconds of Shutdown ran out
  kills

vars == <<entry, up, schema, mu, pool, call, boot, listening, asked, stop, expired, kills>>

outside == <<entry, up, kills>>
stopping == <<asked, stop, expired>>
mainVars == <<boot, listening, stopping>>

-----------------------------------------------------------------------------
Init ==
  /\ entry \in {"main", "function"}
  /\ up \in BOOLEAN
  /\ schema = 0
  /\ mu = NoCaller
  /\ pool = "none"
  /\ call = [c \in Callers |-> "idle"]
  /\ boot = IF entry = "main" THEN "open" ELSE "unused"
  /\ listening = FALSE
  /\ asked = FALSE /\ stop = FALSE /\ expired = FALSE
  /\ kills = 0

Go(c, pc) == call' = [call EXCEPT ![c] = pc]

Serving == {c \in Callers : call[c] = "serve"}

(* Mutant: without IF NOT EXISTS, run again over what is there.            *)
MigratedAnew == schema' = schema + Tables

(* A CREATE TABLE IF NOT EXISTS each: what has been created stays, and the *)
(* next attempt goes on from there.                                        *)
Migrated == schema' = Tables

MigratedPartly == schema' \in schema..Tables

-----------------------------------------------------------------------------
(* Handler: a request reaches the function and wants the routes.           *)
Invoke(c) ==
  /\ entry = "function"
  /\ call[c] = "idle"
  /\ Go(c, "lock")
  /\ UNCHANGED <<outside, schema, mu, pool, mainVars>>

(* Mutant: ensureRoutes without the mutex.                                 *)
LockWithoutMutex(c) ==
  /\ call[c] = "lock"
  /\ Go(c, "ensure")
  /\ UNCHANGED <<outside, schema, mu, pool, mainVars>>

Lock(c) ==
  /\ call[c] = "lock"
  /\ mu = NoCaller
  /\ mu' = c
  /\ Go(c, "ensure")
  /\ UNCHANGED <<outside, schema, pool, mainVars>>

(* if routes != nil { return routes, nil }                                 *)
HaveRoutes(c) ==
  /\ call[c] = "ensure"
  /\ pool = "open"
  /\ mu' = NoCaller
  /\ Go(c, "serve")
  /\ UNCHANGED <<outside, schema, pool, mainVars>>

(* Open's ping is answered within its twenty seconds.                      *)
OpenForRoutes(c) ==
  /\ call[c] = "ensure"
  /\ pool = "none"
  /\ up
  /\ Go(c, "migrate")
  /\ UNCHANGED <<outside, schema, mu, pool, mainVars>>

(* routes is assigned last: it is not nil only if everything went well.    *)
MigrateForRoutes(c) ==
  /\ call[c] = "migrate"
  /\ up
  /\ Migrated
  /\ pool' = "open"
  /\ mu' = NoCaller
  /\ Go(c, "serve")
  /\ UNCHANGED <<outside, mainVars>>

(* Mutant: an early return that forgets to unlock.                         *)
EnsureFailsLocked(c) ==
  /\ ~ up
  /\ \/ call[c] = "ensure" /\ pool = "none" /\ UNCHANGED schema
     \/ call[c] = "migrate" /\ MigratedPartly
  /\ Go(c, "unavailable")
  /\ UNCHANGED <<outside, mu, pool, mainVars>>

(* Mutant: the first attempt decides, as with sync.Once.                   *)
EnsureFailsForGood(c) ==
  /\ \/ call[c] = "ensure" /\ (pool = "closed" \/ (~ up /\ pool = "none")) /\ UNCHANGED schema
     \/ call[c] = "migrate" /\ ~ up /\ MigratedPartly
  /\ pool' = "closed"
  /\ mu' = NoCaller
  /\ Go(c, "unavailable")
  /\ UNCHANGED <<outside, mainVars>>

(* The error is returned, the deferred Unlock runs, Handler answers 503.   *)
EnsureFails(c) ==
  /\ ~ up
  /\ \/ call[c] = "ensure" /\ pool = "none" /\ UNCHANGED schema
     \/ call[c] = "migrate" /\ MigratedPartly
  /\ mu' = NoCaller
  /\ Go(c, "unavailable")
  /\ UNCHANGED <<outside, pool, mainVars>>

-----------------------------------------------------------------------------
(* main: Fatalf ends the process if the database does not answer.          *)
OpenAtBoot ==
  /\ boot = "open"
  /\ up
  /\ boot' = "migrate"
  /\ UNCHANGED <<outside, schema, mu, pool, call, listening, stopping>>

MigrateAtBoot ==
  /\ boot = "migrate"
  /\ up
  /\ Migrated
  /\ boot' = "start"
  /\ UNCHANGED <<outside, mu, pool, call, listening, stopping>>

(* New and Routes, then the goroutines of the worker and of the listener.  *)
StartServer ==
  /\ boot = "start"
  /\ pool' = "open"
  /\ boot' = "notify"
  /\ UNCHANGED <<outside, schema, mu, call, listening, stopping>>

(* ListenAndServe, in its goroutine; after Shutdown it returns at once.    *)
Listen ==
  /\ boot \in {"notify", "wait"}
  /\ ~ listening
  /\ listening' = TRUE
  /\ UNCHANGED <<outside, schema, mu, pool, call, boot, stopping>>

Notify ==
  /\ boot = "notify"
  /\ boot' = "wait"
  /\ UNCHANGED <<outside, schema, mu, pool, call, listening, stopping>>

(* <-stop; Shutdown closes the listener and waits for the connections.     *)
BeginShutdown ==
  /\ boot = "wait"
  /\ stop
  /\ stop' = FALSE
  /\ listening' = FALSE
  /\ boot' = "drain"
  /\ UNCHANGED <<outside, schema, mu, pool, call, asked, expired>>

(* Mutant: Close in place of Shutdown.                                     *)
ClosedAtOnce ==
  /\ boot = "drain"
  /\ boot' = "close"
  /\ UNCHANGED <<outside, schema, mu, pool, call, listening, stopping>>

Drained ==
  /\ boot = "drain"
  /\ Serving = {}
  /\ boot' = "close"
  /\ UNCHANGED <<outside, schema, mu, pool, call, listening, stopping>>

(* Mutant: Shutdown with a context that has no deadline.                   *)
NeverExpires ==
  /\ boot = "drain"
  /\ Serving = {}
  /\ expired' = TRUE
  /\ boot' = "close"
  /\ UNCHANGED <<outside, schema, mu, pool, call, listening, asked, stop>>

(* The context's ten seconds are over; the error is logged.                *)
DrainExpires ==
  /\ boot = "drain"
  /\ expired' = TRUE
  /\ boot' = "close"
  /\ UNCHANGED <<outside, schema, mu, pool, call, listening, asked, stop>>

(* main returns: the deferred pool.Close.                                  *)
ClosePool ==
  /\ boot = "close"
  /\ pool' = "closed"
  /\ boot' = "return"
  /\ UNCHANGED <<outside, schema, mu, call, listening, stopping>>

-----------------------------------------------------------------------------
(* The process is gone, and what it was doing.                             *)
Gone ==
  /\ boot' = IF entry = "main" THEN "exited" ELSE "unused"
  /\ mu' = NoCaller
  /\ pool' = "none"
  /\ call' = [c \in Callers |-> "idle"]
  /\ listening' = FALSE
  /\ stop' = FALSE /\ expired' = FALSE

Exit ==
  /\ boot = "return"
  /\ Gone
  /\ UNCHANGED <<outside, schema, asked>>

(* log.Fatalf                                                              *)
BootFails ==
  /\ ~ up
  /\ \/ boot = "open" /\ UNCHANGED schema
     \/ boot = "migrate" /\ MigratedPartly
  /\ Gone
  /\ UNCHANGED <<outside, asked>>

(* A crash, the platform recycling the instance, an address in use.        *)
Kill ==
  /\ kills < MaxKills
  /\ boot # "exited"
  /\ kills' = kills + 1
  /\ Gone
  /\ UNCHANGED <<entry, up, schema, asked>>

(* restart: unless-stopped                                                 *)
Restart ==
  /\ boot = "exited"
  /\ ~ asked
  /\ boot' = "open"
  /\ UNCHANGED <<outside, schema, mu, pool, call, listening, stopping>>

(* SIGTERM.  Before signal.Notify it ends the process; a second one finds  *)
(* the channel's one place taken, or nobody who reads it.                  *)
Ask ==
  /\ entry = "main"
  /\ ~ asked
  /\ asked' = TRUE
  /\ CASE boot \in {"open", "migrate", "start", "notify"} -> Gone
       [] boot = "wait" -> /\ stop' = TRUE
                           /\ UNCHANGED <<mu, pool, call, boot, listening, expired>>
       [] boot = "exited" -> UNCHANGED <<mu, pool, call, boot, listening, stop, expired>>
  /\ UNCHANGED <<outside, schema>>

-----------------------------------------------------------------------------
(* A client connects to main's server, or finds nobody listening.          *)
Connect(c) ==
  /\ entry = "main"
  /\ call[c] = "idle"
  /\ Go(c, IF listening THEN "serve" ELSE "unavailable")
  /\ UNCHANGED <<outside, schema, mu, pool, mainVars>>

(* A handler returns; it may also never do so.                             *)
Finish(c) ==
  /\ call[c] = "serve"
  /\ Go(c, "idle")
  /\ UNCHANGED <<outside, schema, mu, pool, mainVars>>

(* The client has its 503, or its refused connection.                      *)
TurnedAway(c) ==
  /\ call[c] = "unavailable"
  /\ Go(c, "idle")
  /\ UNCHANGED <<outside, schema, mu, pool, mainVars>>

(* The database stops answering, or, after a pause, wakes up.              *)
DatabaseChanges ==
  /\ up' = ~ up
  /\ UNCHANGED <<entry, kills, schema, mu, pool, call, mainVars>>

-----------------------------------------------------------------------------
Ensure(c) ==
  HaveRoutes(c) \/ OpenForRoutes(c) \/ MigrateForRoutes(c) \/ EnsureFails(c)

Boot == \/ OpenAtBoot \/ MigrateAtBoot \/ BootFails
        \/ StartServer \/ Notify \/ BeginShutdown
        \/ Drained \/ DrainExpires \/ ClosePool \/ Exit

Next ==
  \/ \E c \in Callers : \/ Invoke(c) \/ Lock(c) \/ Ensure(c)
                        \/ Connect(c) \/ Finish(c) \/ TurnedAway(c)
  \/ Boot \/ Listen \/ Restart
  \/ Ask \/ Kill \/ DatabaseChanges

Spec == Init /\ [][Next]_vars

(* Code that runs goes on, the operator's restart policy acts, and         *)
(* sync.Mutex does not pass a waiter over for ever.  Nothing is assumed of *)
(* handlers, clients, the database or signals.                             *)
FairSpec ==
  /\ Spec
  /\ WF_vars(Boot) /\ WF_vars(Listen) /\ WF_vars(Restart)
  /\ \A c \in Callers : SF_vars(Lock(c)) /\ WF_vars(Ensure(c)) /\ WF_vars(TurnedAway(c))

-----------------------------------------------------------------------------
(* Every variable has its type, and each entry point keeps to its own.     *)
TypeOK ==
  /\ entry \in {"main", "function"}
  /\ up \in BOOLEAN
  /\ schema \in 0..Tables
  /\ mu \in Callers \cup {NoCaller}
  /\ pool \in {"none", "open", "closed"}
  /\ call \in [Callers -> {"idle", "lock", "ensure", "migrate", "serve", "unavailable"}]
  /\ boot \in {"unused", "open", "migrate", "start", "notify", "wait", "drain", "close",
               "return", "exited"}
  /\ entry = "function" <=> boot = "unused"
  /\ \A x \in {listening, asked, stop, expired} : x \in BOOLEAN
  /\ kills \in 0..MaxKills

(* No handler runs on a schema a failed migration left half made, or on a  *)
(* closed pool: through attempts that fail half way, restarts, and a       *)
(* shutdown with requests under way.  Only Shutdown's deadline may close   *)
(* the pool under a handler.                                               *)
ServedReady ==
  \A c \in Serving : schema = Tables /\ (pool = "open" \/ expired)

(* However many first calls arrive at once, one of them opens and migrates *)
(* at a time, and none does once there are routes: no pool is opened twice *)
(* and leaked.                                                             *)
OneStartAtATime ==
  /\ \A c, d \in Callers : {call[c], call[d]} \subseteq {"ensure", "migrate"} => c = d
  /\ pool = "open" => \A c \in Callers : call[c] # "migrate"

(* What makes these inductive.  The function: who is behind the mutex, and *)
(* what having routes means.                                               *)
FunctionKnows ==
  entry = "function" =>
    /\ pool # "closed" /\ ~ listening /\ ~ expired
    /\ \A c \in Callers : call[c] \in {"ensure", "migrate"} => mu = c
    /\ pool = "open" => schema = Tables /\ \A c \in Callers : call[c] # "migrate"
    /\ Serving # {} => pool = "open"

(* main: what each line of it relies on.                                   *)
MainKnows ==
  entry = "main" =>
    /\ \A c \in Callers : call[c] \in {"idle", "serve", "unavailable"}
    /\ boot \in {"start", "notify", "wait", "drain", "close", "return"} => schema = Tables
    /\ boot \in {"notify", "wait", "drain", "close"} => pool = "open"
    /\ listening => boot \in {"notify", "wait"}
    /\ stop \/ boot \in {"drain", "close", "return"} => asked
    /\ Serving # {} => \/ boot \in {"notify", "wait", "drain"}
                       \/ boot \in {"close", "return"} /\ expired

(* The inductive invariant.                                                *)
IndInv == TypeOK /\ FunctionKnows /\ MainKnows

(* A call that waits for the routes gets them or a 503, whatever the       *)
(* database does while the calls before it hold the mutex.                 *)
EveryCallAnswered ==
  \A c \in Callers : call[c] = "lock" ~> call[c] \in {"serve", "unavailable", "idle"}

(* "unlike sync.Once, a failure here doesn't permanently wedge this warm   *)
(* container" (api/index.go:24), and docker-compose.yaml:34 for main: once *)
(* the database stays up, in the end nobody is turned away until the       *)
(* process is told to stop.                                                *)
NotWedged ==
  <>[]up => <>[](asked \/ \A c \in Callers : call[c] # "unavailable")

(* A process told to stop does, and stays down, at whatever point of its   *)
(* start or shutdown the signal finds it and though a handler may never    *)
(* return.                                                                 *)
StopEnds == asked ~> [](boot = "exited")
=============================================================================
