---------------------------- MODULE MigrationsProofs ----------------------------
(***************************************************************************)
(* The safety properties of Migrations, for any number of containers,      *)
(* scripts and stops.                                                      *)
(***************************************************************************)
EXTENDS Migrations, TLAPS

(* What an open transaction holds: of a run, nothing of                    *)
(* ProductionQueueItems, or its type, or its type, its table and its       *)
(* record; of a revert, nothing yet, the table, or the table and its type. *)
WorkInv ==
  \A p \in Process :
    /\ phase[p] = "table" =>
         /\ work[p].created = {"type"}
         /\ "ProductionQueueItems" \notin work[p].records \cup seen[p]
    /\ phase[p] = "apply" =>
         \/ work[p].created = {} /\ "ProductionQueueItems" \notin work[p].records
         \/ work[p].created = {"type", "table"} /\ "ProductionQueueItems" \in work[p].records
    /\ work[p].records \cap seen[p] = {}

DropInv ==
  \A p \in Process :
    /\ phase[p] = "dropType" => work[p].dropped \in {{}, {"table"}}
    /\ phase[p] = "forget" => work[p].dropped \in {{}, {"type", "table"}}
    /\ phase[p] \in {"apply", "table"} => work[p].dropped = {}

(* Only one transaction at a time has created the type, and none while a   *)
(* committed one exists.                                                   *)
OneCreator ==
  \A p \in Process :
    "type" \in work[p].created =>
      /\ "type" \notin objects
      /\ \A q \in Process : "type" \in work[q].created => q = p

(* Only one transaction at a time has dropped anything, and what it has    *)
(* dropped is there for the others until it commits.                       *)
OneDropper ==
  \A p \in Process :
    work[p].dropped # {} =>
      /\ {"type", "table"} \subseteq objects
      /\ \A q \in Process : work[q].dropped # {} => q = p

(* Until two reverts cross there is one at a time, what it found is there  *)
(* for it to drop, and it has dropped it before it deletes the record.     *)
RevertInv ==
  ~crossed =>
    \A p \in Process :
      Reverting(p) =>
        /\ recorded["ProductionQueueItems"] > 0
        /\ \A q \in Process : Reverting(q) => q = p
        /\ phase[p] # "drop" => work[p].dropped # {}

(* ProductionQueueItems is never recorded without CreateSchema, and until  *)
(* a revert neither is without the other.                                  *)
LedgerInv ==
  /\ recorded["ProductionQueueItems"] > 0 => recorded["CreateSchema"] > 0
  /\ ~reverted /\ recorded["CreateSchema"] > 0 => recorded["ProductionQueueItems"] > 0

(* What an executor has read still holds, but for a revert. *)
SeenInv ==
  \A p \in Process :
    /\ "CreateSchema" \in seen[p] => recorded["CreateSchema"] > 0
    /\ "ProductionQueueItems" \in seen[p] => "CreateSchema" \in seen[p]
    /\ "ProductionQueueItems" \in seen[p] /\ ~reverted => recorded["ProductionQueueItems"] > 0

StartedInv ==
  \A p \in Container :
    phase[p] \in {"main", "serving"} /\ ~reverted => recorded["ProductionQueueItems"] > 0

Inv ==
  /\ TypeOK /\ RecordedMeansApplied /\ RecordedOnce
  /\ WorkInv /\ DropInv /\ OneCreator /\ OneDropper /\ RevertInv
  /\ LedgerInv /\ SeenInv /\ StartedInv

-----------------------------------------------------------------------------
LEMMA InitInv == Init => Inv
<1> SUFFICES ASSUME Init PROVE Inv
  OBVIOUS
<1>1. TypeOK
  <2>1. NoWork \in Work
    BY DEF NoWork, Work
  <2>2. objects \subseteq Object
    BY DEF Init, Object
  <2>3. recorded \in [Migration -> Nat] /\ phase \in [Process -> Phase]
    BY DEF Init, Phase
  <2>4. seen \in [Process -> SUBSET Migration] /\ work \in [Process -> Work]
    BY <2>1 DEF Init
  <2>5. \A p \in Process : work[p] = NoWork
    BY DEF Init
  <2>6. stops \in 0 .. MaxStops
    BY MigrationsAssumption DEF Init
  <2>7. reverted \in BOOLEAN /\ crossed \in BOOLEAN
    BY Zenon DEF Init
  <2> QED
    BY <2>2, <2>3, <2>4, <2>5, <2>6, <2>7 DEF TypeOK
<1>2. RecordedMeansApplied /\ RecordedOnce /\ LedgerInv
  BY DEF Init, RecordedMeansApplied, RecordedOnce, LedgerInv, Migration
<1>3. WorkInv /\ OneCreator /\ SeenInv
  BY DEF Init, WorkInv, OneCreator, SeenInv, NoWork
<1>4. StartedInv /\ DropInv /\ OneDropper /\ RevertInv
  BY DEF Init, StartedInv, DropInv, OneDropper, RevertInv, Reverting, NoWork, Process
<1> QED
  BY <1>1, <1>2, <1>3, <1>4 DEF Inv

(* The end of a command leaves a process with no transaction and before    *)
(* main.                                                                   *)
LEMMA ExitInv ==
  ASSUME Inv, NEW p \in Process, Exit(p), stops' \in 0 .. MaxStops
  PROVE  Inv'
<1>1. TypeOK'
  BY DEF Inv, TypeOK, Exit, Process, Work, NoWork, Phase
<1>2. RecordedMeansApplied' /\ RecordedOnce' /\ LedgerInv'
  BY DEF Inv, Exit, RecordedMeansApplied, RecordedOnce, LedgerInv
<1>3. WorkInv'
  BY DEF Inv, TypeOK, WorkInv, Exit, NoWork
<1>4. OneCreator'
  BY DEF Inv, TypeOK, OneCreator, Exit, NoWork
<1>5. SeenInv' /\ DropInv' /\ OneDropper'
  BY DEF Inv, TypeOK, SeenInv, DropInv, OneDropper, Exit, NoWork
<1>6. StartedInv' /\ RevertInv'
  BY DEF Inv, TypeOK, StartedInv, RevertInv, Reverting, Exit, Process
<1> QED
  BY <1>1, <1>2, <1>3, <1>4, <1>5, <1>6 DEF Inv

(* A step that only moves a process among the phases outside a transaction *)
(* and adds the schema or the ledger.                                      *)
LEMMA QuietInv ==
  ASSUME Inv, NEW p \in Process, NEW from \in Phase \ {"apply", "table", "dropType", "forget"},
         NEW to \in Phase \ {"apply", "table", "drop", "dropType", "forget", "main", "serving"},
         Enter(p, from, to),
         objects' \in {objects, objects \cup {"schema"}, objects \cup {"ledger"}},
         UNCHANGED <<recorded, seen, work, stops, reverted, crossed>>
  PROVE  Inv'
<1>1. TypeOK'
  BY DEF Inv, TypeOK, Enter, Object
<1>2. RecordedMeansApplied' /\ RecordedOnce' /\ LedgerInv'
  BY DEF Inv, RecordedMeansApplied, RecordedOnce, LedgerInv
<1>3. WorkInv'
  BY DEF Inv, TypeOK, WorkInv, Enter
<1>4. OneCreator' /\ DropInv' /\ OneDropper'
  BY DEF Inv, TypeOK, OneCreator, DropInv, OneDropper, Enter
<1>5. SeenInv'
  BY DEF Inv, SeenInv
<1>6. StartedInv' /\ RevertInv'
  BY DEF Inv, TypeOK, StartedInv, RevertInv, Reverting, Enter, Process
<1> QED
  BY <1>1, <1>2, <1>3, <1>4, <1>5, <1>6 DEF Inv

LEMMA BootstrapInv ==
  ASSUME Inv, NEW p \in Process, Bootstrap(p)
  PROVE  Inv'
<1>1. TypeOK'
  BY DEF Inv, TypeOK, Bootstrap, Enter, Object, Phase
<1>2. RecordedMeansApplied' /\ RecordedOnce' /\ LedgerInv'
  BY DEF Inv, Bootstrap, RecordedMeansApplied, RecordedOnce, LedgerInv
<1>3. WorkInv' /\ OneCreator' /\ SeenInv'
  BY DEF Inv, TypeOK, WorkInv, OneCreator, SeenInv, Bootstrap, Enter
<1>4. DropInv' /\ OneDropper'
  BY DEF Inv, TypeOK, DropInv, OneDropper, Bootstrap, Enter
<1>5. StartedInv' /\ RevertInv'
  BY DEF Inv, TypeOK, StartedInv, RevertInv, Reverting, Bootstrap, Enter, Process
<1> QED
  BY <1>1, <1>2, <1>3, <1>4, <1>5 DEF Inv

(* A revert that starts while none is under way finds the record, and so   *)
(* the table.                                                              *)
LEMMA LoadInv ==
  ASSUME Inv, NEW p \in Process, Load(p)
  PROVE  Inv'
<1>1. work[p] = NoWork /\ phase[p] = "load"
  BY DEF Inv, TypeOK, Load
<1>2. TypeOK'
  <2>1. phase' \in [Process -> Phase] /\ seen' \in [Process -> SUBSET Migration]
    BY DEF Inv, TypeOK, Load, Listed, Afterwards, Phase
  <2>2. crossed' \in BOOLEAN
    BY Zenon DEF Load
  <2> QED
    BY <1>1, <2>1, <2>2 DEF Inv, TypeOK, Load
<1>3. /\ UNCHANGED <<objects, recorded, work, reverted>>
      /\ crossed => crossed'
  BY DEF Load
<1>4. RecordedMeansApplied' /\ RecordedOnce' /\ LedgerInv' /\ OneCreator' /\ OneDropper'
  BY <1>3 DEF Inv, RecordedMeansApplied, RecordedOnce, LedgerInv, OneCreator, OneDropper
<1>5. WorkInv' /\ DropInv'
  BY <1>1 DEF Inv, TypeOK, WorkInv, DropInv, Load, NoWork, Afterwards
<1>6. SeenInv'
  BY DEF Inv, TypeOK, SeenInv, LedgerInv, Load, Listed, Migration
<1>7. StartedInv'
  BY DEF Inv, TypeOK, StartedInv, Load, Listed, Migration, Process
<1>8. RevertInv'
  <2> SUFFICES ASSUME ~crossed', NEW q \in Process, Reverting(q)'
               PROVE  /\ recorded'["ProductionQueueItems"] > 0
                      /\ \A r \in Process : Reverting(r)' => r = q
                      /\ phase'[q] # "drop" => work'[q].dropped # {}
    BY DEF RevertInv
  <2>1. ~crossed /\ \A r \in Process \ {p} : phase'[r] = phase[r]
    BY <1>3 DEF Inv, TypeOK, Load
  <2>2. \A r \in Process \ {p} : Reverting(r)' <=> Reverting(r)
    BY <2>1 DEF Reverting
  <2>3. ~Reverting(p)
    BY <1>1 DEF Reverting
  <2>4. CASE Reverting(p)'
    <3>1. \A r \in Process \ {p} : ~Reverting(r)
      BY <2>4 DEF Load
    <3>2. q = p
      BY <2>2, <3>1
    <3>3. phase'[p] = "drop" /\ "ProductionQueueItems" \in Listed
      BY <2>4 DEF Inv, TypeOK, Load, Reverting, Afterwards
    <3>4. recorded["ProductionQueueItems"] > 0
      BY <3>3 DEF Listed
    <3> QED
      BY <1>3, <2>2, <3>1, <3>2, <3>3, <3>4
  <2>5. CASE ~Reverting(p)'
    <3>1. q # p /\ Reverting(q)
      BY <2>2, <2>5
    <3> QED
      BY <1>3, <2>1, <2>2, <2>5, <3>1 DEF Inv, RevertInv
  <2> QED
    BY <2>4, <2>5
<1> QED
  BY <1>2, <1>4, <1>5, <1>6, <1>7, <1>8 DEF Inv

LEMMA UpCreateSchemaInv ==
  ASSUME Inv, NEW p \in Process, UpCreateSchema(p)
  PROVE  Inv'
<1>1. work[p] \in Work
  BY DEF Inv, TypeOK
<1> DEFINE records == work[p].records \cup {"CreateSchema"}
<1>2. work' = [work EXCEPT ![p] =
                [created |-> work[p].created, dropped |-> work[p].dropped, records |-> records]]
  <2>1. [work[p] EXCEPT !.records = records]
          = [created |-> work[p].created, dropped |-> work[p].dropped, records |-> records]
    BY <1>1 DEF Work
  <2>2. work' = [work EXCEPT ![p] = [work[p] EXCEPT !.records = records]]
    BY DEF UpCreateSchema
  <2> QED
    BY <2>1, <2>2
<1>3. TypeOK'
  BY <1>1, <1>2 DEF Inv, TypeOK, UpCreateSchema, Work, Migration
<1>4. RecordedMeansApplied' /\ RecordedOnce' /\ LedgerInv' /\ SeenInv' /\ StartedInv'
  BY DEF Inv, UpCreateSchema, RecordedMeansApplied, RecordedOnce, LedgerInv, SeenInv, StartedInv
<1>5. WorkInv'
  <2> SUFFICES ASSUME NEW q \in Process
               PROVE  /\ phase'[q] = "table" =>
                           /\ work'[q].created = {"type"}
                           /\ "ProductionQueueItems" \notin work'[q].records \cup seen'[q]
                      /\ phase'[q] = "apply" =>
                           \/ /\ work'[q].created = {}
                              /\ "ProductionQueueItems" \notin work'[q].records
                           \/ /\ work'[q].created = {"type", "table"}
                              /\ "ProductionQueueItems" \in work'[q].records
                      /\ work'[q].records \cap seen'[q] = {}
    BY DEF WorkInv
  <2>1. CASE q # p
    BY <1>2, <2>1 DEF Inv, TypeOK, WorkInv, UpCreateSchema
  <2>2. CASE q = p
    <3>1. work'[p].created = work[p].created /\ work'[p].records = records
      BY <1>2 DEF Inv, TypeOK
    <3>2. phase[p] = "apply" /\ UNCHANGED <<phase, seen>> /\ "CreateSchema" \notin seen[p]
      BY DEF UpCreateSchema, Pending
    <3> QED
      BY <2>2, <3>1, <3>2 DEF Inv, WorkInv
  <2> QED
    BY <2>1, <2>2
<1>6. OneCreator' /\ DropInv' /\ OneDropper'
  <2>1. \A q \in Process : /\ work'[q].created = work[q].created
                            /\ work'[q].dropped = work[q].dropped
    BY <1>1, <1>2 DEF Inv, TypeOK
  <2>2. UNCHANGED <<objects, phase>>
    BY DEF UpCreateSchema
  <2> QED
    BY <2>1, <2>2 DEF Inv, OneCreator, DropInv, OneDropper
<1>7. RevertInv'
  BY <1>1, <1>2 DEF Inv, TypeOK, RevertInv, Reverting, UpCreateSchema
<1> QED
  BY <1>3, <1>4, <1>5, <1>6, <1>7 DEF Inv

LEMMA UpCreateTypeInv ==
  ASSUME Inv, NEW p \in Process, UpCreateType(p)
  PROVE  Inv'
<1>1. CASE "type" \in objects
  <2>1. Exit(p) /\ stops' = stops
    BY <1>1 DEF UpCreateType
  <2> QED
    BY <2>1, ExitInv DEF Inv, TypeOK
<1>2. CASE "type" \notin objects
  <2>1. work[p] \in Work
    BY DEF Inv, TypeOK
  <2>2. /\ "ProductionQueueItems" \notin work[p].records \cup seen[p]
        /\ work[p].created = {} /\ work[p].dropped = {} /\ phase[p] = "apply"
    BY DEF Inv, WorkInv, DropInv, UpCreateType, Pending
  <2>3. /\ work' = [work EXCEPT ![p] = 
                 [created |-> {"type"}, dropped |-> {}, records |-> work[p].records]]
        /\ phase' = [phase EXCEPT ![p] = "table"]
        /\ UNCHANGED <<objects, recorded, seen, stops, reverted, crossed>>
    BY <1>2, <2>1, <2>2 DEF UpCreateType, Enter, Work
  <2>4. TypeOK'
    BY <2>1, <2>3 DEF Inv, TypeOK, Work, Object, Phase
  <2>5. RecordedMeansApplied' /\ RecordedOnce' /\ LedgerInv' /\ SeenInv'
    BY <2>3 DEF Inv, RecordedMeansApplied, RecordedOnce, LedgerInv, SeenInv
  <2>6. WorkInv'
    BY <2>1, <2>2, <2>3 DEF Inv, TypeOK, WorkInv
  <2>7. OneCreator'
    BY <1>2, <2>1, <2>3 DEF Inv, TypeOK, OneCreator, UpCreateType, Locked
  <2>8. DropInv' /\ OneDropper'
    BY <2>1, <2>2, <2>3 DEF Inv, TypeOK, DropInv, OneDropper
  <2>9. StartedInv' /\ RevertInv'
    BY <2>1, <2>2, <2>3 DEF Inv, TypeOK, StartedInv, RevertInv, Reverting, Process
  <2> QED
    BY <2>4, <2>5, <2>6, <2>7, <2>8, <2>9 DEF Inv
<1> QED
  BY <1>1, <1>2

LEMMA UpCreateTableInv ==
  ASSUME Inv, NEW p \in Process, UpCreateTable(p)
  PROVE  Inv'
<1>1. /\ work[p] \in Work /\ phase[p] = "table"
      /\ work[p].created = {"type"} /\ work[p].dropped = {}
      /\ "ProductionQueueItems" \notin work[p].records
  BY DEF Inv, TypeOK, WorkInv, DropInv, UpCreateTable, Enter
<1> DEFINE records == work[p].records \cup {"ProductionQueueItems"}
<1>2. work' = [work EXCEPT ![p] =
                [created |-> {"type", "table"}, dropped |-> {}, records |-> records]]
  <2> DEFINE typed == [work[p] EXCEPT !.created = {"type", "table"}]
  <2>1. typed = [created |-> {"type", "table"}, dropped |-> {}, records |-> work[p].records]
    BY <1>1 DEF Work
  <2> HIDE DEF typed, records
  <2>2. [typed EXCEPT !.records = records]
          = [created |-> {"type", "table"}, dropped |-> {}, records |-> records]
    BY <2>1
  <2>3. [work[p] EXCEPT !.created = {"type", "table"}, !.records = records]
          = [typed EXCEPT !.records = records]
    BY <1>1 DEF Work, typed
  <2>4. work[p].created \cup {"table"} = {"type", "table"}
    BY <1>1
  <2>5. work' = [work EXCEPT ![p] =
                  [work[p] EXCEPT !.created = {"type", "table"}, !.records = records]]
    BY <1>1, <2>4 DEF UpCreateTable, Inv, TypeOK, records
  <2> QED
    BY <2>2, <2>3, <2>5
<1>3. TypeOK'
  BY <1>1, <1>2 DEF Inv, TypeOK, UpCreateTable, Enter, Work, Object, Migration, Phase
<1>4. RecordedMeansApplied' /\ RecordedOnce' /\ LedgerInv' /\ SeenInv'
  BY DEF Inv, UpCreateTable, RecordedMeansApplied, RecordedOnce, LedgerInv, SeenInv
<1>5. "ProductionQueueItems" \notin seen[p]
  BY <1>1 DEF Inv, WorkInv
<1>6. WorkInv'
  BY <1>1, <1>2, <1>5 DEF Inv, TypeOK, WorkInv, UpCreateTable, Enter
<1>7. OneCreator'
  BY <1>1, <1>2 DEF Inv, TypeOK, OneCreator, UpCreateTable
<1>8. DropInv' /\ OneDropper'
  BY <1>1, <1>2 DEF Inv, TypeOK, DropInv, OneDropper, UpCreateTable, Enter
<1>9. StartedInv' /\ RevertInv'
  BY <1>1, <1>2 DEF Inv, TypeOK, StartedInv, RevertInv, Reverting, UpCreateTable, Enter, Process
<1> QED
  BY <1>3, <1>4, <1>6, <1>7, <1>8, <1>9 DEF Inv

(* A transaction that records ProductionQueueItems holds its type and its  *)
(* table, so nobody has recorded it before; one that does not is empty, or *)
(* had nothing but CreateSchema to do.                                     *)
LEMMA CommitInv ==
  ASSUME Inv, NEW p \in Process, Commit(p)
  PROVE  Inv'
<1> DEFINE items == "ProductionQueueItems"
           schema == "CreateSchema"
<1>1. /\ phase[p] = "apply" /\ work[p] \in Work
      /\ {items, schema} \subseteq seen[p] \cup work[p].records
  BY DEF Inv, TypeOK, Commit, Pending, Migration
<1>2. /\ recorded[items] \in Nat /\ recorded[schema] \in Nat
      /\ recorded'[items] = IF items \in work[p].records THEN recorded[items] + 1
                                                         ELSE recorded[items]
      /\ recorded'[schema] = IF schema \in work[p].records THEN recorded[schema] + 1
                                                           ELSE recorded[schema]
  BY DEF Inv, TypeOK, Commit, Migration
<1>3. ASSUME items \in work[p].records
     PROVE  RecordedMeansApplied' /\ RecordedOnce' /\ LedgerInv' /\ OneCreator'
  <2>1. work[p].created = {"type", "table"} /\ items \notin seen[p]
    BY <1>1, <1>3 DEF Inv, WorkInv
  <2>2. "type" \notin objects /\ "table" \notin objects /\ recorded[items] = 0
    BY <1>2, <2>1 DEF Inv, OneCreator, RecordedMeansApplied
  <2>3. RecordedMeansApplied'
    BY <1>2, <1>3, <2>1, <2>2 DEF Inv, Commit, RecordedMeansApplied
  <2>4. schema \in seen[p] => recorded[schema] > 0
    BY DEF Inv, SeenInv
  <2>5. schema \in work[p].records /\ ~reverted => recorded[schema] = 0
    BY <1>2, <2>2 DEF Inv, LedgerInv
  <2>6. RecordedOnce' /\ LedgerInv'
    BY <1>1, <1>2, <1>3, <2>2, <2>4, <2>5 DEF Inv, RecordedOnce, LedgerInv, Commit
  <2>7. OneCreator'
    BY <2>1 DEF Inv, TypeOK, OneCreator, Commit, NoWork
  <2> QED
    BY <2>3, <2>6, <2>7
<1>4. ASSUME items \notin work[p].records
     PROVE  RecordedMeansApplied' /\ RecordedOnce' /\ LedgerInv' /\ OneCreator'
  <2>1. work[p].created = {} /\ items \in seen[p]
    BY <1>1, <1>4 DEF Inv, WorkInv
  <2>2. schema \in seen[p] /\ schema \notin work[p].records
    BY <2>1 DEF Inv, SeenInv, WorkInv
  <2>3. objects' = objects /\ recorded'[items] = recorded[items]
          /\ recorded'[schema] = recorded[schema]
          /\ reverted' = reverted /\ crossed' = crossed
    BY <1>2, <1>4, <2>1, <2>2 DEF Commit
  <2>4. RecordedMeansApplied' /\ RecordedOnce' /\ LedgerInv'
    BY <2>3 DEF Inv, RecordedMeansApplied, RecordedOnce, LedgerInv
  <2>5. OneCreator'
    BY <2>3 DEF Inv, TypeOK, OneCreator, Commit, NoWork
  <2> QED
    BY <2>4, <2>5
<1>5. RecordedMeansApplied' /\ RecordedOnce' /\ LedgerInv' /\ OneCreator'
  BY <1>3, <1>4
<1>6. TypeOK'
  <2>1. phase' \in [Process -> Phase]
    BY DEF Inv, TypeOK, Commit, Afterwards, Phase
  <2>2. objects' \subseteq Object
    BY <1>1 DEF Inv, TypeOK, Commit, Work
  <2>3. recorded' \in [Migration -> Nat]
    BY DEF Inv, TypeOK, Commit
  <2>4. NoWork \in Work
    BY DEF NoWork, Work
  <2>5. work' \in [Process -> Work]
    BY <2>4 DEF Inv, TypeOK, Commit
  <2>6. \A q \in Process :
          phase'[q] \notin {"apply", "table", "dropType", "forget"} => work'[q] = NoWork
    BY DEF Inv, TypeOK, Commit
  <2> QED
    BY <2>1, <2>2, <2>3, <2>5, <2>6 DEF Inv, TypeOK, Commit
<1>7. WorkInv'
  BY DEF Inv, TypeOK, WorkInv, Commit, Afterwards, NoWork
<1>8. recorded'[items] >= recorded[items] /\ recorded'[schema] >= recorded[schema]
  BY <1>2
<1>9. SeenInv'
  BY <1>2, <1>8 DEF Inv, SeenInv, Commit
<1>10. recorded'[items] > 0 \/ reverted
  BY <1>1, <1>2 DEF Inv, SeenInv
<1>11. StartedInv'
  BY <1>2, <1>8, <1>10 DEF Inv, TypeOK, StartedInv, Commit, Process
<1>12. DropInv' /\ OneDropper'
  BY <1>1 DEF Inv, TypeOK, DropInv, OneDropper, Commit, Afterwards, NoWork
<1>13. RevertInv'
  <2>1. \A q \in Process : Reverting(q)' => q # p /\ Reverting(q)
    BY DEF Inv, TypeOK, Commit, Afterwards, Reverting
  <2>2. \A q \in Process \ {p} : phase'[q] = phase[q] /\ work'[q] = work[q]
    BY DEF Inv, TypeOK, Commit
  <2>3. crossed' = crossed
    BY DEF Commit
  <2>4. recorded[items] > 0 => recorded'[items] > 0
    BY <1>2, <1>8
  <2> QED
    BY <2>1, <2>2, <2>3, <2>4 DEF Inv, RevertInv
<1> QED
  BY <1>5, <1>6, <1>7, <1>9, <1>11, <1>12, <1>13 DEF Inv

(* The first dropper there is: nobody else has dropped anything, and the   *)
(* table that is there has its type.                                       *)
LEMMA DropTableInv ==
  ASSUME Inv, NEW p \in Process, DropTable(p)
  PROVE  Inv'
<1>1. work[p] = NoWork /\ phase[p] = "drop"
  BY DEF Inv, TypeOK, DropTable, Enter
<1> DEFINE dropped == objects \cap {"table"}
<1>2. /\ work' = [work EXCEPT ![p] = [created |-> {}, dropped |-> dropped, records |-> {}]]
      /\ phase' = [phase EXCEPT ![p] = "dropType"]
      /\ UNCHANGED <<objects, recorded, seen, stops, reverted, crossed>>
  <2>1. [work[p] EXCEPT !.dropped = dropped]
          = [created |-> {}, dropped |-> dropped, records |-> {}]
    BY <1>1 DEF NoWork
  <2>2. work' = [work EXCEPT ![p] = [work[p] EXCEPT !.dropped = dropped]]
    BY DEF DropTable
  <2> QED
    BY <2>1, <2>2 DEF DropTable, Enter
<1>3. TypeOK'
  BY <1>2 DEF Inv, TypeOK, Work, Object, Phase
<1>4. RecordedMeansApplied' /\ RecordedOnce' /\ LedgerInv' /\ SeenInv'
  BY <1>2 DEF Inv, RecordedMeansApplied, RecordedOnce, LedgerInv, SeenInv
<1>5. WorkInv' /\ OneCreator' /\ DropInv'
  BY <1>2 DEF Inv, TypeOK, WorkInv, OneCreator, DropInv
<1>6. OneDropper'
  <2>1. \A q \in Process \ {p} : work'[q].dropped = {}
    BY <1>2 DEF Inv, TypeOK, DropTable, Dropping
  <2>2. work'[p].dropped = dropped
    BY <1>2 DEF Inv, TypeOK
  <2>3. "table" \in objects => "type" \in objects
    BY DEF Inv, RecordedMeansApplied
  <2> QED
    BY <1>2, <2>1, <2>2, <2>3 DEF OneDropper
<1>7. RevertInv'
  <2>1. \A q \in Process : Reverting(q)' <=> Reverting(q)
    BY <1>1, <1>2 DEF Inv, TypeOK, Reverting
  <2>2. Reverting(p)
    BY <1>1 DEF Reverting
  <2>3. ~crossed => recorded["ProductionQueueItems"] > 0
    BY <2>2 DEF Inv, RevertInv
  <2>4. ~crossed => work'[p].dropped # {}
    BY <1>2, <2>3 DEF Inv, TypeOK, RecordedMeansApplied
  <2> QED
    BY <1>2, <2>1, <2>2, <2>4 DEF Inv, TypeOK, RevertInv
<1>8. StartedInv'
  BY <1>2 DEF Inv, TypeOK, StartedInv, Process
<1> QED
  BY <1>3, <1>4, <1>5, <1>6, <1>7, <1>8 DEF Inv

LEMMA DropTypeInv ==
  ASSUME Inv, NEW p \in Process, DropType(p)
  PROVE  Inv'
<1>1. CASE "type" \in objects /\ "table" \notin work[p].dropped
  <2>1. Exit(p) /\ stops' = stops
    BY <1>1 DEF DropType
  <2> QED
    BY <2>1, ExitInv DEF Inv, TypeOK
<1>2. CASE ~("type" \in objects /\ "table" \notin work[p].dropped)
  <2>1. work[p] \in Work /\ phase[p] = "dropType" /\ work[p].dropped \in {{}, {"table"}}
    BY DEF Inv, TypeOK, DropInv, DropType
  <2> DEFINE dropped == work[p].dropped \cup (objects \cap {"type"})
  <2>2. /\ work' = [work EXCEPT ![p] = [created |-> work[p].created, dropped |-> dropped,
                                       records |-> work[p].records]]
        /\ phase' = [phase EXCEPT ![p] = "forget"]
        /\ UNCHANGED <<objects, recorded, seen, stops, reverted, crossed>>
    BY <1>2, <2>1 DEF DropType, Enter, Work
  <2>3. \/ dropped = {} /\ work[p].dropped = {}
        \/ dropped = {"type", "table"} /\ work[p].dropped # {}
    BY <1>2, <2>1 DEF Inv, OneDropper
  <2>4. TypeOK'
    BY <2>1, <2>2, <2>3 DEF Inv, TypeOK, Work, Object, Phase
  <2>5. RecordedMeansApplied' /\ RecordedOnce' /\ LedgerInv' /\ SeenInv'
    BY <2>2 DEF Inv, RecordedMeansApplied, RecordedOnce, LedgerInv, SeenInv
  <2>6. WorkInv' /\ OneCreator'
    BY <2>1, <2>2 DEF Inv, TypeOK, WorkInv, OneCreator
  <2>7. DropInv' /\ OneDropper'
    <3>1. work'[p].dropped = dropped /\ \A q \in Process \ {p} : work'[q] = work[q]
      BY <2>2 DEF Inv, TypeOK
    <3>2. \A q \in Process : work'[q].dropped # {} <=> work[q].dropped # {}
      BY <2>3, <3>1
    <3> QED
      BY <2>2, <2>3, <3>1, <3>2 DEF Inv, TypeOK, DropInv, OneDropper
  <2>8. RevertInv'
    BY <2>1, <2>2, <2>3 DEF Inv, TypeOK, RevertInv, Reverting
  <2>9. StartedInv'
    BY <2>2 DEF Inv, TypeOK, StartedInv, Process
  <2> QED
    BY <2>4, <2>5, <2>6, <2>7, <2>8, <2>9 DEF Inv
<1> QED
  BY <1>1, <1>2

(* Of all reverts at work only this one can have dropped something; if it  *)
(* has dropped nothing it leaves a table without its record, and the       *)
(* reverts have crossed.                                                   *)
LEMMA ForgetInv ==
  ASSUME Inv, NEW p \in Process, Forget(p)
  PROVE  Inv'
<1>1. /\ phase[p] = "forget" /\ work[p].dropped \in {{}, {"type", "table"}}
      /\ crossed' = crossed
  BY DEF Inv, DropInv, Forget, Enter
<1>2. TypeOK'
  <2>1. phase' \in [Process -> Phase]
    BY DEF Inv, TypeOK, Forget, Enter, Phase
  <2>2. recorded' \in [Migration -> Nat]
    BY DEF Inv, TypeOK, Forget
  <2>3. work' \in [Process -> Work]
    BY DEF Inv, TypeOK, Forget, NoWork, Work
  <2>4. reverted' \in BOOLEAN
    BY Zenon DEF Forget
  <2>5. \A q \in Process :
          phase'[q] \notin {"apply", "table", "dropType", "forget"} => work'[q] = NoWork
    BY DEF Inv, TypeOK, Forget, Enter
  <2> QED
    BY <2>1, <2>2, <2>3, <2>4, <2>5 DEF Inv, TypeOK, Forget
<1>3. /\ recorded'["ProductionQueueItems"] = 0
      /\ recorded'["CreateSchema"] = recorded["CreateSchema"]
  BY DEF Inv, TypeOK, Forget, Migration
<1>4. reverted'
  BY DEF Forget
<1>5. ~crossed => work[p].dropped = {"type", "table"}
  BY <1>1 DEF Inv, RevertInv, Reverting
<1>6. RecordedMeansApplied'
  BY <1>1, <1>3, <1>5 DEF Inv, RecordedMeansApplied, Forget
<1>7. RecordedOnce' /\ LedgerInv'
  BY <1>3, <1>4 DEF RecordedOnce, LedgerInv
<1>8. WorkInv' /\ DropInv' /\ OneCreator'
  BY DEF Inv, TypeOK, WorkInv, DropInv, OneCreator, Forget, Enter, NoWork
<1>9. OneDropper'
  <2>1. \A q \in Process \ {p} : work'[q] = work[q]
    BY DEF Inv, TypeOK, Forget
  <2>2. work'[p].dropped = {}
    BY DEF Inv, TypeOK, Forget, NoWork
  <2>3. CASE work[p].dropped = {}
    BY <2>1, <2>2, <2>3 DEF Inv, OneDropper, Forget
  <2>4. CASE work[p].dropped # {}
    BY <2>1, <2>2, <2>4 DEF Inv, OneDropper
  <2> QED
    BY <2>3, <2>4
<1>10. RevertInv'
  BY <1>1 DEF Inv, TypeOK, RevertInv, Reverting, Forget, Enter
<1>11. SeenInv' /\ StartedInv'
  BY <1>3, <1>4 DEF Inv, SeenInv, StartedInv, Forget
<1> QED
  BY <1>2, <1>6, <1>7, <1>8, <1>9, <1>10, <1>11 DEF Inv

LEMMA RunInv ==
  ASSUME Inv, NEW p \in Process, Run(p)
  PROVE  Inv'
<1>1. CASE EnsureSchemaExists(p)
  BY <1>1, QuietInv DEF EnsureSchemaExists, Phase
<1>2. CASE Look(p)
  <2> DEFINE to == IF "ledger" \in objects THEN "load" ELSE "create"
  <2>1. to \in Phase \ {"apply", "table", "drop", "dropType", "forget", "main", "serving"}
    BY DEF Phase
  <2> QED
    BY <1>2, <2>1, QuietInv DEF Look, Phase
<1>3. CASE CreateLedger(p)
  <2>1. stops' = stops /\ stops \in 0 .. MaxStops
    BY <1>3 DEF CreateLedger, Inv, TypeOK
  <2>2. CASE Exit(p)
    BY <2>1, <2>2, ExitInv
  <2>3. CASE Enter(p, "create", "load") /\ objects' = objects \cup {"ledger"}
               /\ UNCHANGED <<recorded, seen, work, reverted, crossed>>
    BY <2>1, <2>3, QuietInv DEF Phase
  <2> QED
    BY <1>3, <2>2, <2>3 DEF CreateLedger
<1> QED
  BY <1>1, <1>2, <1>3, DropTableInv, DropTypeInv, LoadInv, UpCreateSchemaInv, UpCreateTypeInv, UpCreateTableInv,
     CommitInv, ForgetInv, BootstrapInv DEF Run

LEMMA StepInv == Inv /\ [Next]_vars => Inv'
<1> SUFFICES ASSUME Inv, [Next]_vars PROVE Inv'
  OBVIOUS
<1>1. ASSUME NEW p \in Process, Start(p) PROVE Inv'
  <2> DEFINE to == IF p \in Migrator THEN "schema" ELSE "look"
  <2>1. to \in Phase \ {"apply", "table", "drop", "dropType", "forget", "main", "serving"}
    BY DEF Phase
  <2>2. stops' = stops /\ stops \in 0 .. MaxStops
    BY <1>1 DEF Start, Inv, TypeOK
  <2>3. CASE p \in Container \ WithTsNode
    BY <1>1, <2>2, <2>3, ExitInv DEF Start
  <2>4. CASE p \notin Container \ WithTsNode
    BY <1>1, <2>1, <2>4, QuietInv DEF Start, Phase
  <2> QED
    BY <2>3, <2>4
<1>2. ASSUME NEW p \in Process, Stop(p) PROVE Inv'
  <2>1. stops' \in 0 .. MaxStops
    BY <1>2, MigrationsAssumption DEF Stop, Inv, TypeOK
  <2> QED
    BY <1>2, <2>1, ExitInv DEF Stop
<1>3. CASE UNCHANGED vars
  BY <1>3 DEF vars, Inv, TypeOK, RecordedMeansApplied, RecordedOnce, WorkInv, DropInv,
     OneCreator, OneDropper, RevertInv, Reverting, LedgerInv, SeenInv, StartedInv
<1> QED
  BY <1>1, <1>2, <1>3, RunInv DEF Next, Idle

LEMMA Invariance == Spec => []Inv
BY InitInv, StepInv, PTL DEF Spec

-----------------------------------------------------------------------------
(* Every variable of Migrations keeps its type, and no process keeps an    *)
(* open transaction beyond the statements that need one.                   *)
THEOREM MigrationTypes == Spec => []TypeOK
BY Invariance, PTL DEF Inv

(* However many executors and reverts overlap and wherever they stop, a    *)
(* recorded migration is applied; and the table exists only if its         *)
(* migration is recorded, until a revert finds another one under way.      *)
THEOREM LedgerIsTrue == Spec => []RecordedMeansApplied
BY Invariance, PTL DEF Inv

(* No migration is recorded twice, but CreateSchema after a revert.        *)
THEOREM NothingRecordedTwice == Spec => []RecordedOnce
BY Invariance, PTL DEF Inv

(* No container serves on a database without its table, unless somebody    *)
(* reverted it.                                                            *)
THEOREM ServedTableExists == Spec => []ServingFindsItsTable
<1>1. Inv => ServingFindsItsTable
  BY DEF Inv, StartedInv, RecordedMeansApplied, ServingFindsItsTable
<1> QED
  BY <1>1, Invariance, PTL
=============================================================================
