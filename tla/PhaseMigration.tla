---------------------------- MODULE PhaseMigration ----------------------------
(***************************************************************************)
(* The migration of a project's .orqenix directory to phase 8 and its      *)
(* rollback: Migrator.apply and Rollback.rollback                          *)
(* (packages/migration-phase-7-to-8/src).  Either may stop between any two *)
(* steps, by a crash or by an error thrown, and be run again.              *)
(***************************************************************************)
EXTENDS Naturals, Sequences

CONSTANT MaxRuns     (* bound of the model: applications and rollbacks      *)

ASSUME MigrationParameters == MaxRuns \in Nat

VARIABLES
  files,      (* what .orqenix holds                                       *)
  copies,     (* the sibling directories, oldest first                     *)
  applying,   (* the next step of apply, or idle                           *)
  restoring,  (* the rollback in progress                                  *)
  runs,
  misled,     (* history: a backup not complete was rolled back to         *)
  brokeOff    (* history: a rollback stopped without the database          *)

migVars == <<files, copies, applying, restoring, runs, misled, brokeOff>>

Names == {"scope", "project", "db"}

(* scope.yaml is a file of phase 7 or a link to project.yaml; the database *)
(* passes through the states below, or is "hollow", a new one without any  *)
(* of the entries; "none" stands for no file.                              *)
Phase7 == [scope |-> "file", project |-> "none", db |-> "phase7"]
Phase8 == [scope |-> "link", project |-> "whole", db |-> "audited"]
NoFiles == [n \in Names |-> "none"]
NotRestoring == [from |-> 0, remove |-> {}, copy |-> {}]

MigInit ==
  /\ files = Phase7
  /\ copies = << >>
  /\ applying = "idle" /\ restoring = NotRestoring
  /\ runs = 0 /\ misled = FALSE /\ brokeOff = FALSE

MigIdle == applying = "idle" /\ restoring = NotRestoring

(* readScopeId: through the link it needs the whole of project.yaml.       *)
HasScope == files.scope = "file" \/ (files.scope = "link" /\ files.project = "whole")
-----------------------------------------------------------------------------
ApplyBegins ==
  /\ MigIdle /\ runs < MaxRuns
  /\ HasScope
  /\ applying' = "backup"
  /\ copies' = Append(copies, [files |-> NoFiles, complete |-> FALSE])
  /\ runs' = runs + 1
  /\ UNCHANGED <<files, restoring, misled, brokeOff>>

(* cp copies one entry after the other. *)
BackUp(n) ==
  /\ applying = "backup"
  /\ copies[Len(copies)].files[n] = "none" /\ files[n] # "none"
  /\ copies' = [copies EXCEPT ![Len(copies)].files[n] = files[n]]
  /\ UNCHANGED <<files, applying, restoring, runs, misled, brokeOff>>

(* The other steps of apply, in their order: what each leaves of one file. *)
Becomes(step, f) ==
  CASE step = "schema"   -> IF f.db \in {"phase7", "partly"} THEN "migrated"
                              ELSE IF f.db = "none" THEN "hollow" ELSE f.db
    [] step = "backfill" -> IF f.db = "migrated" THEN "backfilled" ELSE f.db
    [] step = "truncate" -> "torn"
    [] step = "write"    -> "whole"
    [] step = "unlink"   -> "none"
    [] step = "symlink"  -> "link"
    [] step = "audit"    -> IF f.db = "backfilled" THEN "audited" ELSE f.db

FileOf == [schema |-> "db", backfill |-> "db", truncate |-> "project", write |-> "project",
           unlink |-> "scope", symlink |-> "scope", audit |-> "db"]
After == [backup |-> "schema", schema |-> "backfill", backfill |-> "truncate", truncate |-> "write",
          write |-> "unlink", unlink |-> "symlink", symlink |-> "audit", audit |-> "idle"]

(* Mutant: the backup is counted as made with the first of its entries.    *)
BackedUpEarly ==
  /\ applying = "backup" /\ copies[Len(copies)].files # NoFiles
  /\ applying' = After[applying]
  /\ copies' = [copies EXCEPT ![Len(copies)].complete = TRUE]
  /\ UNCHANGED <<files, restoring, runs, misled, brokeOff>>

BackedUp ==
  /\ applying = "backup" /\ copies[Len(copies)].files = files
  /\ applying' = After[applying]
  /\ copies' = [copies EXCEPT ![Len(copies)].complete = TRUE]
  /\ UNCHANGED <<files, restoring, runs, misled, brokeOff>>

ApplyStep ==
  /\ applying \in DOMAIN FileOf
  /\ files' = [files EXCEPT ![FileOf[applying]] = Becomes(applying, files)]
  /\ applying' = After[applying]
  /\ UNCHANGED <<copies, restoring, runs, misled, brokeOff>>

(* Some file systems have no links: the error is caught. *)
SymlinkFails ==
  /\ applying = "symlink"
  /\ applying' = After[applying]
  /\ UNCHANGED <<files, copies, restoring, runs, misled, brokeOff>>

(* A crash, or an error: the migrations commit one by one, and the files   *)
(* stay as they are.                                                       *)
ApplyStops ==
  /\ applying # "idle"
  /\ files' = IF applying = "schema" /\ files.db = "phase7" THEN [files EXCEPT !.db = "partly"] ELSE files
  /\ applying' = "idle"
  /\ UNCHANGED <<copies, restoring, runs, misled, brokeOff>>
-----------------------------------------------------------------------------
RemovedFirst == {"project", "db"}

(* Any directory of that name will do, within its 30 days.                 *)
RollbackBegins ==
  /\ MigIdle /\ runs < MaxRuns
  /\ \E i \in DOMAIN copies :
       /\ restoring' = [from |-> i, remove |-> RemovedFirst,
                        copy |-> {n \in Names : copies[i].files[n] # "none"}]
       /\ misled' = (misled \/ ~ copies[i].complete)
  /\ runs' = runs + 1
  /\ UNCHANGED <<files, copies, applying, brokeOff>>

(* project.yaml goes first, then the database with its journal.            *)
RollbackRemoves(n) ==
  /\ n \in restoring.remove
  /\ n = "db" => "project" \notin restoring.remove
  /\ files' = [files EXCEPT ![n] = "none"]
  /\ restoring' = [restoring EXCEPT !.remove = @ \ {n}]
  /\ UNCHANGED <<copies, applying, runs, misled, brokeOff>>

RollbackCopies(n) ==
  /\ restoring.remove = {} /\ n \in restoring.copy
  /\ files' = [files EXCEPT ![n] = copies[restoring.from].files[n]]
  /\ restoring' = [restoring EXCEPT !.copy = @ \ {n}]
  /\ UNCHANGED <<copies, applying, runs, misled, brokeOff>>

RollbackEnds ==
  /\ restoring # NotRestoring /\ restoring.remove = {} /\ restoring.copy = {}
  /\ restoring' = NotRestoring
  /\ UNCHANGED <<files, copies, applying, runs, misled, brokeOff>>

RollbackStops ==
  /\ restoring.remove # {} \/ restoring.copy # {}
  /\ restoring' = NotRestoring
  /\ brokeOff' = (brokeOff \/ files.db = "none")
  /\ UNCHANGED <<files, copies, applying, runs, misled>>

MigNext ==
  \/ ApplyBegins \/ BackedUp \/ ApplyStep \/ SymlinkFails \/ ApplyStops
  \/ RollbackBegins \/ RollbackEnds \/ RollbackStops
  \/ \E n \in Names : BackUp(n) \/ RollbackRemoves(n) \/ RollbackCopies(n)

MigSpec == MigInit /\ [][MigNext]_migVars
-----------------------------------------------------------------------------
MigTypeOK ==
  /\ files.scope \in {"file", "link", "none"}
  /\ files.project \in {"none", "torn", "whole"}
  /\ files.db \in {"none", "phase7", "partly", "migrated", "backfilled", "audited", "hollow"}
  /\ applying \in {"idle"} \union DOMAIN After
  /\ applying \notin {"idle", "backup"} => copies # << >> /\ copies[Len(copies)].complete
  /\ restoring.from \in 0 .. Len(copies)
  /\ \A i \in DOMAIN copies : DOMAIN copies[i].files = Names
  /\ runs \in 0 .. MaxRuns

(* However often a migration or a rollback breaks off and is tried again,  *)
(* a project that is not what it was in phase 7 has a complete backup of   *)
(* that, unless a backup that broke off was rolled back to.                *)
OriginalKept ==
  misled \/ files = Phase7 \/ (\E i \in DOMAIN copies : copies[i] = [files |-> Phase7, complete |-> TRUE])

(* A rollback that ends has brought back what the backup holds, all of it  *)
(* and nothing else, unless the backup had broken off.                     *)
RollbackRestores ==
  (restoring # NotRestoring /\ restoring.remove = {} /\ restoring.copy = {}) =>
    (misled \/ files = copies[restoring.from].files)

(* An application that has come to its last step has migrated the          *)
(* project wholly, from wherever an earlier one had stopped; but for a     *)
(* link the file system refused, and the entries a rollback that broke     *)
(* off had removed.                                                        *)
MigratedBeforeAudit ==
  applying = "audit" =>
    /\ files.project = "whole" /\ files.scope # "file"
    /\ files.db \in {"backfilled", "audited"} \/ brokeOff \/ misled

(* Through every interruption and repetition, the data of phase 7 are in   *)
(* place or in a complete copy, what an application audits is migrated,    *)
(* and a rollback brings back what its copy holds.                         *)
DataRecoverable ==
  /\ MigTypeOK
  /\ OriginalKept
  /\ MigratedBeforeAudit
  /\ RollbackRestores
=============================================================================
