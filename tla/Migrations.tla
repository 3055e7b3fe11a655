------------------------------- MODULE Migrations -------------------------------
(***************************************************************************)
(* How the database gets its table: the containers of the service, each of *)
(* which runs the pending migrations and then starts the application, and  *)
(* the scripts somebody runs by hand (migration:run, migration:revert).    *)
(*                                                                         *)
(* All of them go through TypeORM's executor.  It creates its ledger of    *)
(* executed migrations if there is none, reads it, and runs what is        *)
(* missing in one transaction.  Nothing locks the ledger and no constraint *)
(* keeps a migration from being recorded twice: what two executors do to   *)
(* each other is decided by the statements of the migrations themselves.   *)
(***************************************************************************)
EXTENDS Integers

CONSTANTS
  Container,    \* runs the command of the image; restarted when it stops
  WithTsNode,   \* containers of an image that has ts-node, which the command needs
  Migrator,     \* runs of scripts/run-migrations.ts
  Reverter,     \* runs of migration:revert
  MaxStops      \* bound on processes stopped and statements that fail

Process == Container \cup Migrator \cup Reverter

(* The Dockerfile installs ts-node, a development dependency, for the      *)
(* build and removes it again before the image is made: a container of     *)
(* that image is not in WithTsNode.                                        *)
ASSUME MigrationsAssumption ==
  /\ MaxStops \in Nat
  /\ Container \cap Migrator = {} /\ Container \cap Reverter = {} /\ Migrator \cap Reverter = {}
  /\ WithTsNode \subseteq Container

Object == {"schema", "ledger", "type", "table"}

Migration == {"CreateSchema", "ProductionQueueItems"}

(* What a transaction has done so far and nobody else sees. *)
Work == [created : SUBSET Object, dropped : SUBSET Object, records : SUBSET Migration]
NoWork == [created |-> {}, dropped |-> {}, records |-> {}]

Phase == {"down", "schema", "look", "create", "load", "apply", "table",
          "drop", "dropType", "forget", "main", "serving", "done"}

VARIABLES
  objects,     \* what the database has, committed
  recorded,    \* how often the ledger lists each migration, committed
  phase,       \* what each process does next
  seen,        \* the migrations each executor about to run the others found in the ledger
  work,        \* the open transaction of each process
  stops,       \* processes stopped and statements failed
  reverted,    \* some migration:revert committed
  crossed      \* history: two reverts have found the same migration to revert

vars == <<objects, recorded, phase, seen, work, stops, reverted, crossed>>

(* A database whose schema is "public", or was made by hand, has it at the *)
(* start; a fresh one with the default DB_SCHEMA has not.                  *)
Init ==
  /\ objects \in {{}, {"schema"}}
  /\ recorded = [m \in Migration |-> 0]
  /\ phase = [p \in Process |-> "down"]
  /\ seen = [p \in Process |-> {}]
  /\ work = [p \in Process |-> NoWork]
  /\ stops = 0 /\ reverted = FALSE /\ crossed = FALSE

Enter(p, from, to) == phase[p] = from /\ phase' = [phase EXCEPT ![p] = to]

(* A slip: the transaction is not rolled back. *)
ExitKeepingWork(p) ==
  /\ phase' = [phase EXCEPT ![p] = IF p \in Container THEN "down" ELSE "done"]
  /\ seen' = [seen EXCEPT ![p] = {}]
  /\ UNCHANGED <<objects, recorded, work, reverted, crossed>>

(* A slip: ";" instead of "&&" in the command of the image. *)
ExitUnnoticed(p) ==
  /\ phase' = [phase EXCEPT ![p] = IF p \in Container THEN "main" ELSE "done"]
  /\ work' = [work EXCEPT ![p] = NoWork]
  /\ seen' = [seen EXCEPT ![p] = {}]
  /\ UNCHANGED <<objects, recorded, reverted, crossed>>

(* The command ends with an error: its transaction is rolled back, and a   *)
(* container does not go on to main.js but will be started again.          *)
Exit(p) ==
  /\ phase' = [phase EXCEPT ![p] = IF p \in Container THEN "down" ELSE "done"]
  /\ work' = [work EXCEPT ![p] = NoWork]
  /\ seen' = [seen EXCEPT ![p] = {}]
  /\ UNCHANGED <<objects, recorded, reverted, crossed>>

-----------------------------------------------------------------------------
(* Every command runs through ts-node: the image's ends at once without    *)
(* it, the scripts run from a checkout that has it.  Only the script makes *)
(* the schema before it connects.                                          *)
Start(p) ==
  /\ phase[p] = "down"
  /\ IF p \in Container \ WithTsNode
     THEN Exit(p)
     ELSE /\ Enter(p, "down", IF p \in Migrator THEN "schema" ELSE "look")
          /\ UNCHANGED <<objects, recorded, seen, work, reverted, crossed>>
  /\ UNCHANGED stops

EnsureSchemaExists(p) ==
  /\ Enter(p, "schema", "look")
  /\ objects' = objects \cup {"schema"}
  /\ UNCHANGED <<recorded, seen, work, stops, reverted, crossed>>

(* A slip: it looks in another schema than the one it creates tables in. *)
LookElsewhere(p) ==
  /\ Enter(p, "look", "create")
  /\ UNCHANGED <<objects, recorded, seen, work, stops, reverted, crossed>>

(* The executor looks for its ledger. *)
Look(p) ==
  /\ Enter(p, "look", IF "ledger" \in objects THEN "load" ELSE "create")
  /\ UNCHANGED <<objects, recorded, seen, work, stops, reverted, crossed>>

(* CREATE TABLE, in the configured schema: an error if that is missing, or *)
(* if another executor has made the ledger since.                          *)
CreateLedger(p) ==
  /\ phase[p] = "create"
  /\ IF "schema" \in objects /\ "ledger" \notin objects
     THEN /\ Enter(p, "create", "load")
          /\ objects' = objects \cup {"ledger"}
          /\ UNCHANGED <<recorded, seen, work, reverted, crossed>>
     ELSE Exit(p)
  /\ UNCHANGED stops

(* Where a process goes when nothing is left to migrate. *)
Afterwards(p) == IF p \in Container THEN "main" ELSE "done"

(* A revert that has found the migration and has not ended. *)
Reverting(p) == phase[p] \in {"drop", "dropType", "forget"}

Listed == {m \in Migration : recorded[m] > 0}

(* What the ledger holds now decides what is pending, or what is reverted. *)
(* Reverting CreateSchema drops the schema and the ledger in it; the       *)
(* executor then fails to delete from the ledger, and all is rolled back.  *)
Load(p) ==
  /\ phase[p] = "load"
  /\ phase' = [phase EXCEPT ![p] =
       IF p \in Reverter THEN IF "ProductionQueueItems" \in Listed THEN "drop" ELSE "done"
       ELSE IF Listed = Migration THEN Afterwards(p) ELSE "apply"]
  /\ seen' = [seen EXCEPT ![p] = IF phase'[p] = "apply" THEN Listed ELSE {}]
  /\ crossed' = (crossed \/ (Reverting(p)' /\ \E q \in Process \ {p} : Reverting(q)))
  /\ UNCHANGED <<objects, recorded, work, stops, reverted>>

Pending(p) == Migration \ (seen[p] \cup work[p].records)

(* up of CreateSchema: the schema exists by now, since the ledger does. *)
UpCreateSchema(p) ==
  /\ phase[p] = "apply" /\ "CreateSchema" \in Pending(p)
  /\ work' = [work EXCEPT ![p].records = @ \cup {"CreateSchema"}]
  /\ UNCHANGED <<objects, recorded, phase, seen, stops, reverted, crossed>>

Locked(p) == \E q \in Process : q # p /\ "type" \in work[q].created

(* A slip: a type that exists is no error. *)
UpCreateTypeIfNotExists(p) ==
  /\ phase[p] = "apply" /\ Pending(p) = {"ProductionQueueItems"} /\ ~Locked(p)
  /\ Enter(p, "apply", "table")
  /\ work' = [work EXCEPT ![p].created = @ \cup {"type"}]
  /\ UNCHANGED <<objects, recorded, seen, stops, reverted, crossed>>

(* up of ProductionQueueItems, CREATE TYPE: an error if the type exists;   *)
(* waits while another transaction has made it and not ended.              *)
UpCreateType(p) ==
  /\ phase[p] = "apply" /\ Pending(p) = {"ProductionQueueItems"} /\ ~Locked(p)
  /\ IF "type" \in objects
     THEN Exit(p)
     ELSE /\ Enter(p, "apply", "table")
          /\ work' = [work EXCEPT ![p].created = @ \cup {"type"}]
          /\ UNCHANGED <<objects, recorded, seen, reverted, crossed>>
  /\ UNCHANGED stops

(* Its CREATE TABLE, and the executor's INSERT into the ledger. *)
UpCreateTable(p) ==
  /\ Enter(p, "table", "apply")
  /\ work' = [work EXCEPT ![p].created = @ \cup {"table"},
                          ![p].records = @ \cup {"ProductionQueueItems"}]
  /\ UNCHANGED <<objects, recorded, seen, stops, reverted, crossed>>

Commit(p) ==
  /\ phase[p] = "apply" /\ Pending(p) = {}
  /\ phase' = [phase EXCEPT ![p] = Afterwards(p)]
  /\ objects' = objects \cup work[p].created
  /\ recorded' =
       [m \in Migration |-> IF m \in work[p].records THEN recorded[m] + 1 ELSE recorded[m]]
  /\ work' = [work EXCEPT ![p] = NoWork]
  /\ seen' = [seen EXCEPT ![p] = {}]
  /\ UNCHANGED <<stops, reverted, crossed>>

Dropping(p) == \E q \in Process \ {p} : work[q].dropped # {}

(* down of ProductionQueueItems, in a transaction of its own and unseen    *)
(* before it commits.  DROP TABLE IF EXISTS drops the table or does        *)
(* nothing; waits while another transaction has dropped it and not ended.  *)
DropTable(p) ==
  /\ ~Dropping(p)
  /\ Enter(p, "drop", "dropType")
  /\ work' = [work EXCEPT ![p].dropped = objects \cap {"table"}]
  /\ UNCHANGED <<objects, recorded, seen, stops, reverted, crossed>>

(* DROP TYPE IF EXISTS: nothing if there is no type, an error if a table   *)
(* uses it that this transaction has not dropped, one that another         *)
(* executor made after the DROP TABLE.                                     *)
DropType(p) ==
  /\ phase[p] = "dropType" /\ ~Dropping(p)
  /\ IF "type" \in objects /\ "table" \notin work[p].dropped
     THEN Exit(p)
     ELSE /\ Enter(p, "dropType", "forget")
          /\ work' = [work EXCEPT ![p].dropped = @ \cup (objects \cap {"type"})]
          /\ UNCHANGED <<objects, recorded, seen, reverted, crossed>>
  /\ UNCHANGED stops

(* A slip: the record goes and the table stays. *)
ForgetOnly(p) ==
  /\ Enter(p, "forget", "done")
  /\ recorded' = [recorded EXCEPT !["ProductionQueueItems"] = 0]
  /\ work' = [work EXCEPT ![p] = NoWork]
  /\ reverted' = TRUE
  /\ UNCHANGED <<objects, seen, stops, crossed>>

(* The executor's DELETE from the ledger, whoever wrote the record, and    *)
(* the commit.                                                             *)
Forget(p) ==
  /\ Enter(p, "forget", "done")
  /\ objects' = objects \ work[p].dropped
  /\ recorded' = [recorded EXCEPT !["ProductionQueueItems"] = 0]
  /\ work' = [work EXCEPT ![p] = NoWork]
  /\ reverted' = TRUE
  /\ UNCHANGED <<seen, stops, crossed>>

(* bootstrap: ensureSchemaExists, then the application, whose own executor *)
(* finds no migrations where it looks for them (dist/migrations) and so    *)
(* only makes sure of the ledger.                                          *)
Bootstrap(p) ==
  /\ Enter(p, "main", "serving")
  /\ objects' = objects \cup {"schema", "ledger"}
  /\ UNCHANGED <<recorded, seen, work, stops, reverted, crossed>>

(* A statement fails, as one of two in a deadlock does, or the process is  *)
(* stopped.                                                                *)
Stop(p) ==
  /\ phase[p] \notin {"down", "done"}
  /\ stops < MaxStops
  /\ stops' = stops + 1
  /\ Exit(p)

Run(p) ==
  \/ EnsureSchemaExists(p) \/ Look(p) \/ CreateLedger(p) \/ Load(p)
  \/ UpCreateSchema(p) \/ UpCreateType(p) \/ UpCreateTable(p) \/ Commit(p)
  \/ DropTable(p) \/ DropType(p) \/ Forget(p) \/ Bootstrap(p)

(* Nothing is left to run but commands that end at once. *)
Idle ==
  /\ \A p \in Process \ (Container \ WithTsNode) : phase[p] \in {"serving", "done"}
  /\ UNCHANGED vars

Next ==
  \/ \E p \in Process : Start(p) \/ Run(p) \/ Stop(p)
  \/ Idle

(* A stopped container is started again and a process that runs goes on;   *)
(* nobody has to run a script.                                             *)
Fairness ==
  /\ \A p \in Process : WF_vars(Run(p))
  /\ \A p \in Container : WF_vars(Start(p))

Spec == Init /\ [][Next]_vars /\ Fairness
-----------------------------------------------------------------------------
TypeOK ==
  /\ objects \subseteq Object
  /\ recorded \in [Migration -> Nat]
  /\ phase \in [Process -> Phase]
  /\ seen \in [Process -> SUBSET Migration]
  /\ work \in [Process -> Work]
  /\ \A p \in Process :
       phase[p] \notin {"apply", "table", "dropType", "forget"} => work[p] = NoWork
  /\ stops \in 0 .. MaxStops /\ reverted \in BOOLEAN /\ crossed \in BOOLEAN

(* Wherever a process stops and however executors overlap, the ledger      *)
(* lists the migration only if its table and its type exist; and they      *)
(* exist only if it does, which is what lets the next executor go on,      *)
(* unless two reverts have crossed: the later one can find nothing to drop *)
(* and delete the record of a migration applied again in between.          *)
RecordedMeansApplied ==
  /\ recorded["ProductionQueueItems"] > 0 => {"type", "table"} \subseteq objects
  /\ "type" \in objects <=> "table" \in objects
  /\ ~crossed /\ "table" \in objects => recorded["ProductionQueueItems"] > 0

(* Executors that read the same ledger do not both record a migration,     *)
(* though nothing in the ledger forbids it.  An executor that read it      *)
(* before a revert may record CreateSchema a second time.                  *)
RecordedOnce ==
  /\ recorded["ProductionQueueItems"] <= 1
  /\ ~reverted => recorded["CreateSchema"] <= 1

(* The application is not started on a database without its table. *)
ServingFindsItsTable ==
  (\E p \in Container : phase[p] = "serving") /\ ~reverted => "table" \in objects

(* On a database that has the schema every container whose image can run   *)
(* its command comes to serve, wherever it or another executor was stopped *)
(* before and whatever a revert undid, unless two reverts have crossed.    *)
SchemaThenServes ==
  \A p \in WithTsNode : "schema" \in objects ~> phase[p] = "serving" \/ crossed

(* "Comando para iniciar a aplicacao (roda migrations, seed e inicia)":    *)
(* the command of the image starts the application.                        *)
ContainerStarts == \A p \in Container : <>(phase[p] = "serving")
=============================================================================
