-------------------------- MODULE Lifecycle_proof --------------------------
(***************************************************************************)
(* IndInv is an inductive invariant of Lifecycle, for any number of        *)
(* callers and of statements in the migration; so no handler runs on half  *)
(* a schema or a closed pool, and one start is under way at a time.        *)
(***************************************************************************)
EXTENDS Lifecycle, TLAPS

USE NumbersAssumption, CallersAssumption

-----------------------------------------------------------------------------
(* The initial states satisfy the invariant.                               *)
LEMMA InitInv == Init => IndInv
<1> SUFFICES ASSUME Init PROVE IndInv
  OBVIOUS
<1>1. Serving = {}
  BY DEF Init, Serving
<1>2. TypeOK
  <2>1. \A x \in {listening, asked, stop, expired} : x \in BOOLEAN
    BY DEF Init
  <2>2. (entry = "function" <=> boot = "unused") /\ boot \in {"unused", "open"}
        /\ entry \in {"main", "function"}
    BY DEF Init
  <2>3. call \in [Callers -> {"idle"}]
    BY DEF Init
  <2> QED BY <2>1, <2>2, <2>3 DEF Init, TypeOK
<1>3. FunctionKnows
  BY <1>1 DEF Init, FunctionKnows
<1>4. MainKnows
  BY <1>1 DEF Init, MainKnows
<1> QED BY <1>2, <1>3, <1>4 DEF IndInv

(* A process that is gone leaves nothing behind but the schema.            *)
LEMMA GoneStep ==
  ASSUME IndInv, Gone, UNCHANGED entry, up' \in BOOLEAN, asked' \in BOOLEAN,
         schema' \in 0..Tables, kills' \in 0..MaxKills
  PROVE  IndInv'
<1>1. Serving' = {} /\ \A c \in Callers : call'[c] = "idle"
  BY DEF Gone, Serving
<1> QED BY <1>1 DEF Gone, IndInv, TypeOK, FunctionKnows, MainKnows

-----------------------------------------------------------------------------
(* The steps of a call to the function.                                    *)
LEMMA FunctionStep ==
  ASSUME IndInv, NEW c \in Callers, Invoke(c) \/ Lock(c) \/ Ensure(c)
  PROVE  IndInv'
<1> USE DEF IndInv, outside, mainVars, stopping, Go
<1>1. entry = "function"
  BY DEF MainKnows, TypeOK, Invoke, Lock, Ensure, HaveRoutes, OpenForRoutes, MigrateForRoutes,
     EnsureFails
<1>2. CASE Invoke(c)
  <2>1. Serving' = Serving
    BY <1>2 DEF Invoke, Serving, TypeOK
  <2> QED BY <1>1, <1>2, <2>1 DEF Invoke, TypeOK, FunctionKnows, MainKnows
<1>3. CASE Lock(c)
  <2>1. Serving' = Serving
    BY <1>3 DEF Lock, Serving, TypeOK
  <2> QED BY <1>1, <1>3, <2>1 DEF Lock, TypeOK, FunctionKnows, MainKnows
<1>4. CASE HaveRoutes(c)
  BY <1>1, <1>4 DEF HaveRoutes, TypeOK, FunctionKnows, MainKnows
<1>5. CASE OpenForRoutes(c)
  <2>1. Serving' = Serving
    BY <1>5 DEF OpenForRoutes, Serving, TypeOK
  <2> QED BY <1>1, <1>5, <2>1 DEF OpenForRoutes, TypeOK, FunctionKnows, MainKnows
<1>6. CASE MigrateForRoutes(c)
  BY <1>1, <1>6 DEF MigrateForRoutes, Migrated, TypeOK, FunctionKnows, MainKnows
<1>7. CASE EnsureFails(c)
  <2>1. Serving' = Serving
    BY <1>7 DEF EnsureFails, Serving, TypeOK
  <2>2. pool # "open" /\ schema' \in 0..Tables
    BY <1>1, <1>7 DEF EnsureFails, MigratedPartly, TypeOK, FunctionKnows
  <2> QED BY <1>1, <1>7, <2>1, <2>2 DEF EnsureFails, TypeOK, FunctionKnows, MainKnows
<1> QED BY <1>2, <1>3, <1>4, <1>5, <1>6, <1>7 DEF Ensure

(* The steps of main that do not end the process.                          *)
LEMMA MainStep ==
  ASSUME IndInv,
         \/ OpenAtBoot \/ MigrateAtBoot \/ StartServer \/ Notify \/ Listen
         \/ BeginShutdown \/ Drained \/ DrainExpires \/ ClosePool
  PROVE  IndInv'
<1> USE DEF IndInv, outside, mainVars, stopping
<1>1. entry = "main"
  BY DEF TypeOK, OpenAtBoot, MigrateAtBoot, StartServer, Notify, Listen, BeginShutdown,
     Drained, DrainExpires, ClosePool
<1>2. Serving' = Serving
  BY DEF Serving, OpenAtBoot, MigrateAtBoot, StartServer, Notify, Listen, BeginShutdown,
     Drained, DrainExpires, ClosePool
<1>3. CASE OpenAtBoot
  BY <1>1, <1>2, <1>3 DEF OpenAtBoot, TypeOK, FunctionKnows, MainKnows
<1>4. CASE MigrateAtBoot
  BY <1>1, <1>2, <1>4 DEF MigrateAtBoot, Migrated, TypeOK, FunctionKnows, MainKnows
<1>5. CASE StartServer
  BY <1>1, <1>2, <1>5 DEF StartServer, TypeOK, FunctionKnows, MainKnows
<1>6. CASE Notify
  BY <1>1, <1>2, <1>6 DEF Notify, TypeOK, FunctionKnows, MainKnows
<1>7. CASE Listen
  BY <1>1, <1>2, <1>7 DEF Listen, TypeOK, FunctionKnows, MainKnows
<1>8. CASE BeginShutdown
  BY <1>1, <1>2, <1>8 DEF BeginShutdown, TypeOK, FunctionKnows, MainKnows
<1>9. CASE Drained
  BY <1>1, <1>2, <1>9 DEF Drained, TypeOK, FunctionKnows, MainKnows
<1>10. CASE DrainExpires
  BY <1>1, <1>2, <1>10 DEF DrainExpires, TypeOK, FunctionKnows, MainKnows
<1>11. CASE ClosePool
  <2>1. TypeOK'
    BY <1>1, <1>11 DEF ClosePool, TypeOK
  <2>2. MainKnows'
    BY <1>1, <1>2, <1>11 DEF ClosePool, MainKnows
  <2> QED BY <1>1, <1>11, <2>1, <2>2 DEF ClosePool, FunctionKnows
<1> QED BY <1>3, <1>4, <1>5, <1>6, <1>7, <1>8, <1>9, <1>10, <1>11

(* The steps that end the process.                                         *)
LEMMA EndStep ==
  ASSUME IndInv, Exit \/ BootFails \/ Kill
  PROVE  IndInv'
<1> USE DEF IndInv, TypeOK, outside
<1>1. CASE Exit
  BY <1>1, GoneStep DEF Exit
<1>2. CASE BootFails
  <2>1. schema' \in 0..Tables
    BY <1>2 DEF BootFails, MigratedPartly
  <2> QED BY <1>2, <2>1, GoneStep DEF BootFails
<1>3. CASE Kill
  BY <1>3, GoneStep DEF Kill
<1> QED BY <1>1, <1>2, <1>3

(* SIGTERM ends the process, or waits in the channel, or finds it gone.    *)
LEMMA AskStep ==
  ASSUME IndInv, Ask
  PROVE  IndInv'
<1> USE DEF IndInv, outside
<1>1. /\ entry = "main" /\ asked' = TRUE /\ UNCHANGED <<entry, up, kills, schema>>
      /\ boot \in {"open", "migrate", "start", "notify", "wait", "exited"}
  BY DEF Ask, TypeOK, MainKnows
<1>2. CASE boot \in {"open", "migrate", "start", "notify"}
  <2>1. Gone
    BY <1>2 DEF Ask
  <2> QED BY <1>1, <2>1, GoneStep DEF TypeOK
<1>3. CASE boot \in {"wait", "exited"}
  <2>1. /\ UNCHANGED <<mu, pool, call, boot, listening, expired>>
        /\ stop' \in {TRUE, stop}
    BY <1>3 DEF Ask
  <2>2. Serving' = Serving
    BY <2>1 DEF Serving
  <2> QED BY <1>1, <1>3, <2>1, <2>2 DEF TypeOK, FunctionKnows, MainKnows
<1> QED BY <1>1, <1>2, <1>3

(* The steps of clients, of the restart policy and of the database.        *)
LEMMA OutsideStep ==
  ASSUME IndInv,
         \/ Restart \/ DatabaseChanges \/ UNCHANGED vars
         \/ \E c \in Callers : Connect(c) \/ Finish(c) \/ TurnedAway(c)
  PROVE  IndInv'
<1> USE DEF IndInv, outside, mainVars, stopping
<1>1. CASE Restart
  <2>1. Serving' = Serving /\ entry = "main" /\ ~ listening
    BY <1>1 DEF Restart, Serving, TypeOK, MainKnows
  <2> QED BY <1>1, <2>1 DEF Restart, TypeOK, FunctionKnows, MainKnows
<1>2. CASE DatabaseChanges \/ UNCHANGED vars
  <2>1. /\ Serving' = Serving /\ up' \in BOOLEAN
        /\ UNCHANGED <<entry, kills, schema, mu, pool, call, boot, listening, asked, stop, expired>>
    BY <1>2 DEF DatabaseChanges, vars, Serving, TypeOK
  <2> QED BY <2>1 DEF TypeOK, FunctionKnows, MainKnows
<1>3. ASSUME NEW c \in Callers, Connect(c) PROVE IndInv'
  <2>1. entry = "main" /\ UNCHANGED <<outside, schema, mu, pool, mainVars>>
    BY <1>3 DEF Connect
  <2>2. CASE listening
    BY <1>3, <2>1, <2>2 DEF Connect, Go, TypeOK, FunctionKnows, MainKnows
  <2>3. CASE ~ listening
    <3>1. Serving' = Serving
      BY <1>3, <2>3 DEF Connect, Go, Serving, TypeOK
    <3> QED BY <1>3, <2>1, <2>3, <3>1 DEF Connect, Go, TypeOK, FunctionKnows, MainKnows
  <2> QED BY <2>2, <2>3
<1>4. ASSUME NEW c \in Callers, Finish(c) \/ TurnedAway(c) PROVE IndInv'
  <2>1. Serving' \subseteq Serving
    BY <1>4 DEF Finish, TurnedAway, Go, Serving, TypeOK
  <2>2. UNCHANGED <<outside, schema, mu, pool, mainVars>> /\ call' = [call EXCEPT ![c] = "idle"]
    BY <1>4 DEF Finish, TurnedAway, Go
  <2> QED BY <2>1, <2>2 DEF TypeOK, FunctionKnows, MainKnows
<1> QED BY <1>1, <1>2, <1>3, <1>4

(* Every step keeps the invariant.                                         *)
LEMMA Inductive == IndInv /\ [Next]_vars => IndInv'
BY FunctionStep, MainStep, EndStep, AskStep, OutsideStep DEF Next, Boot

-----------------------------------------------------------------------------
(* The process, its callers and the schema fit together in every state.    *)
THEOREM Invariance == Spec => []IndInv
<1> QED BY InitInv, Inductive, PTL DEF Spec

(* No handler runs on a schema that is half made, nor, before Shutdown's   *)
(* deadline, on a pool that is closed.                                     *)
THEOREM HandlersReady == Spec => []ServedReady
<1>1. IndInv => ServedReady
  BY DEF IndInv, TypeOK, FunctionKnows, MainKnows, ServedReady, Serving
<1> QED BY <1>1, Invariance, PTL

(* One caller at a time opens and migrates, and none once there are routes.*)
THEOREM StartsApart == Spec => []OneStartAtATime
<1>1. IndInv => OneStartAtATime
  BY DEF IndInv, TypeOK, FunctionKnows, MainKnows, OneStartAtATime
<1> QED BY <1>1, Invariance, PTL
=============================================================================
