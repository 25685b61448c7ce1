---------------------------- MODULE ServiceProofs ----------------------------
(***************************************************************************)
(* Theorems of the services of a node: the migration of phase 7, bootstrap *)
(* discovery, workspaces, the marketplace, the workbench's server, the     *)
(* learning loop, the federation and the distillation of the chat.         *)
(***************************************************************************)
EXTENDS PhaseMigration, Workspaces, PeerDiscovery, Marketplace, Workbench,
        LearningLoop, Federation, Distillation, SequenceTheorems, FiniteSetTheorems, TLAPS

-----------------------------------------------------------------------------
(* The migration of phase 7: types, and what the interrupted applications  *)
(* and rollbacks leave.                                                    *)

FilesType ==
  [scope : {"file", "link", "none"},
   project : {"none", "torn", "whole"},
   db : {"none", "phase7", "partly", "migrated", "backfilled", "audited", "hollow"}]

CopyType == [files : FilesType, complete : BOOLEAN]

RestoringType == [from : Nat, remove : SUBSET RemovedFirst, copy : SUBSET Names]

ApplySteps ==
  {"idle", "backup", "schema", "backfill", "truncate", "write", "unlink", "symlink", "audit"}

MigTyped ==
  /\ files \in FilesType
  /\ copies \in Seq(CopyType)
  /\ applying \in ApplySteps
  /\ restoring \in RestoringType
  /\ restoring.from <= Len(copies)
  /\ runs \in 0 .. MaxRuns

(* The copy of the application in progress is the last one.                *)
OwnCopy ==
  /\ applying # "idle" => restoring = NotRestoring /\ copies # << >>
  /\ applying = "backup" => ~ copies[Len(copies)].complete /\ files.scope # "none"
  /\ applying \notin {"idle", "backup"} => copies[Len(copies)].complete

Original == [files |-> Phase7, complete |-> TRUE]
HasOriginal == \E i \in DOMAIN copies : copies[i] = Original

(* The first complete copy is one of phase 7.                              *)
FirstIsOriginal ==
  (\E i \in DOMAIN copies : copies[i].complete) => misled \/ HasOriginal

Excused == brokeOff \/ misled
NoData == {"none", "hollow"}

(* Nothing but a rollback that breaks off, or one to an incomplete copy,   *)
(* loses the entries of the database.                                      *)
DataThere ==
  /\ files.db = "hollow" => Excused
  /\ files.db = "none" /\ restoring = NotRestoring => Excused
  /\ \A i \in DOMAIN copies :
       copies[i].complete => /\ copies[i].files.scope # "none"
                             /\ copies[i].files.db \in NoData => Excused

InCopy(i) == {n \in Names : copies[i].files[n] # "none"}

(* A rollback in progress: every file is as in the copy or will be.        *)
RestoringOn ==
  /\ restoring.from = 0 => restoring = NotRestoring
  /\ restoring.from # 0 /\ ~ misled =>
       /\ copies[restoring.from].complete
       /\ restoring.copy \subseteq InCopy(restoring.from)
       /\ restoring.remove # {} => restoring.copy = InCopy(restoring.from)
       /\ \A n \in Names : \/ n \in restoring.remove \union restoring.copy
                           \/ files[n] = copies[restoring.from].files[n]

(* How far the application in progress has come.                           *)
Migrated ==
  /\ applying = "backfill" => files.db \in {"migrated", "backfilled", "audited"} \/ Excused
  /\ applying \in {"truncate", "write", "unlink", "symlink", "audit"} =>
       files.db \in {"backfilled", "audited"} \/ Excused
  /\ applying \in {"unlink", "symlink", "audit"} => files.project = "whole"
  /\ applying = "symlink" => files.scope = "none"
  /\ applying = "audit" => files.scope # "file"

MigInv ==
  /\ MigTyped /\ OwnCopy /\ OriginalKept /\ FirstIsOriginal
  /\ DataThere /\ RestoringOn /\ Migrated

LEMMA LastReplaced ==
  ASSUME NEW S, NEW s \in Seq(S), s # << >>, NEW c \in S
  PROVE  LET t == [s EXCEPT ![Len(s)] = c]
         IN  /\ t \in Seq(S) /\ DOMAIN t = DOMAIN s /\ Len(t) = Len(s)
             /\ Len(s) \in DOMAIN s /\ t[Len(s)] = c
             /\ \A i \in DOMAIN s : i # Len(s) => t[i] = s[i]
<1>1. Len(s) \in Nat /\ Len(s) > 0 /\ DOMAIN s = 1 .. Len(s)
  OBVIOUS
<1>2. [s EXCEPT ![Len(s)] = c] \in Seq(S) /\ Len([s EXCEPT ![Len(s)] = c]) = Len(s)
  BY <1>1, ExceptSeq
<1> QED BY <1>1, <1>2

LEMMA FilesFacts ==
  /\ Phase7 \in FilesType /\ NoFiles \in FilesType
  /\ Phase7.scope = "file" /\ Phase7.db = "phase7"
  /\ \A f \in FilesType : \A n \in Names : \A g \in FilesType :
       [f EXCEPT ![n] = g[n]] \in FilesType
  /\ \A f, g \in FilesType : (\A n \in Names : f[n] = g[n]) => f = g
<1>1. Phase7 \in FilesType /\ Phase7.scope = "file" /\ Phase7.db = "phase7"
  BY DEF Phase7, FilesType
<1>2. NoFiles \in FilesType
  BY DEF NoFiles, FilesType, Names
<1>3. \A f \in FilesType : \A n \in Names : \A g \in FilesType :
        [f EXCEPT ![n] = g[n]] \in FilesType
  BY DEF Names, FilesType
<1>4. \A f, g \in FilesType : (\A n \in Names : f[n] = g[n]) => f = g
  BY DEF Names, FilesType
<1> QED BY <1>1, <1>2, <1>3, <1>4

LEMMA FilesDomain == \A f \in FilesType : DOMAIN f = Names
<1>1. DOMAIN [scope |-> 0, project |-> 0, db |-> 0] = {"scope", "project", "db"}
  OBVIOUS
<1> QED BY <1>1 DEF FilesType, Names

LEMMA MigInvInit == MigInit => MigInv
<1> SUFFICES ASSUME MigInit PROVE MigInv
  OBVIOUS
<1>1. /\ Phase7 \in FilesType /\ Phase7.db = "phase7" /\ copies = << >>
      /\ copies \in Seq(CopyType) /\ DOMAIN copies = {} /\ Len(copies) = 0
  BY FilesFacts DEF MigInit
<1>2. NotRestoring \in RestoringType /\ NotRestoring.from = 0
  BY DEF NotRestoring, RestoringType
<1>3. MigTyped
  BY <1>1, <1>2, MigrationParameters DEF MigInit, MigTyped, ApplySteps
<1>4. OwnCopy /\ OriginalKept /\ FirstIsOriginal /\ Migrated
  BY <1>1 DEF MigInit, OwnCopy, OriginalKept, FirstIsOriginal, Migrated
<1>5. DataThere /\ RestoringOn
  BY <1>1, <1>2 DEF MigInit, DataThere, RestoringOn
<1> QED BY <1>3, <1>4, <1>5 DEF MigInv

(* Idle, and a new copy is made: it has nothing yet.                       *)
LEMMA ApplyBeginsInv == ASSUME MigInv, ApplyBegins PROVE MigInv'
<1> DEFINE c == [files |-> NoFiles, complete |-> FALSE]
<1>1. /\ copies \in Seq(CopyType) /\ c \in CopyType /\ ~ c.complete
      /\ copies' = Append(copies, c) /\ Len(copies) \in Nat
      /\ restoring = NotRestoring /\ restoring.from = 0
      /\ UNCHANGED <<files, restoring, misled, brokeOff>>
      /\ files.scope # "none" /\ applying' = "backup"
  BY FilesFacts DEF MigInv, MigTyped, ApplyBegins, MigIdle, HasScope, CopyType, NotRestoring
<1> HIDE DEF c
<1>2. /\ copies' \in Seq(CopyType) /\ Len(copies') = Len(copies) + 1
      /\ DOMAIN copies' = DOMAIN copies \union {Len(copies')}
      /\ \A i \in DOMAIN copies : i # Len(copies') /\ copies'[i] = copies[i]
      /\ copies'[Len(copies')] = c
  BY <1>1, AppendProperties
<1>3. MigTyped'
  BY <1>1, <1>2, MigrationParameters DEF MigInv, MigTyped, ApplyBegins, ApplySteps
<1>4. OwnCopy'
  BY <1>1, <1>2 DEF OwnCopy
<1>5. HasOriginal => HasOriginal'
  BY <1>2 DEF HasOriginal
<1>6. OriginalKept' /\ FirstIsOriginal'
  BY <1>1, <1>2, <1>5 DEF MigInv, OriginalKept, FirstIsOriginal, HasOriginal, Original
<1>7. DataThere' /\ RestoringOn' /\ Migrated'
  BY <1>1, <1>2 DEF MigInv, DataThere, RestoringOn, Migrated, Excused
<1> QED BY <1>3, <1>4, <1>6, <1>7 DEF MigInv

(* The last copy is changed while it is not complete.                      *)
LEMMA OwnCopyWritten ==
  ASSUME MigInv, applying = "backup", NEW c \in CopyType,
         copies' = [copies EXCEPT ![Len(copies)] = c],
         UNCHANGED <<files, restoring, runs, misled, brokeOff>>,
         \/ applying' = "backup" /\ ~ c.complete
         \/ applying' = "schema" /\ c = [files |-> files, complete |-> TRUE]
  PROVE  MigInv'
<1>1. /\ copies \in Seq(CopyType) /\ copies # << >> /\ ~ copies[Len(copies)].complete
      /\ restoring = NotRestoring /\ restoring.from = 0 /\ files.scope # "none"
  BY DEF MigInv, MigTyped, OwnCopy, NotRestoring
<1>2. /\ copies' \in Seq(CopyType) /\ DOMAIN copies' = DOMAIN copies
      /\ Len(copies') = Len(copies) /\ Len(copies) \in DOMAIN copies
      /\ copies'[Len(copies)] = c /\ copies' # << >>
      /\ \A i \in DOMAIN copies : i # Len(copies) => copies'[i] = copies[i]
  BY <1>1, LastReplaced
<1>3. MigTyped'
  BY <1>2 DEF MigInv, MigTyped, ApplySteps
<1>4. OwnCopy'
  BY <1>1, <1>2 DEF OwnCopy
<1>5. HasOriginal => HasOriginal'
  <2> SUFFICES ASSUME NEW i \in DOMAIN copies, copies[i] = Original PROVE HasOriginal'
    BY DEF HasOriginal
  <2>1. i # Len(copies)
    BY <1>1 DEF Original
  <2> QED BY <1>2, <2>1 DEF HasOriginal
<1>6. OriginalKept'
  BY <1>5 DEF MigInv, OriginalKept, HasOriginal, Original
<1>7. FirstIsOriginal'
  <2>1. CASE ~ c.complete
    BY <1>2, <1>5, <2>1 DEF MigInv, FirstIsOriginal
  <2>2. CASE c = [files |-> files, complete |-> TRUE]
    BY <1>2, <1>5, <2>2 DEF MigInv, FirstIsOriginal, OriginalKept, HasOriginal, Original
  <2> QED BY <2>1, <2>2
<1>8. DataThere'
  BY <1>1, <1>2 DEF MigInv, DataThere, Excused, NoData
<1>9. RestoringOn' /\ Migrated'
  BY <1>1 DEF MigInv, RestoringOn, Migrated
<1> QED BY <1>3, <1>4, <1>6, <1>7, <1>8, <1>9 DEF MigInv

LEMMA BackUpInv == ASSUME MigInv, NEW n \in Names, BackUp(n) PROVE MigInv'
<1> DEFINE last == copies[Len(copies)]
           c == [last EXCEPT !.files = [last.files EXCEPT ![n] = files[n]]]
<1>1. last \in CopyType /\ ~ last.complete /\ files \in FilesType
  BY DEF MigInv, MigTyped, OwnCopy, BackUp
<1>2. [last.files EXCEPT ![n] = files[n]] \in FilesType
  BY <1>1, FilesFacts DEF CopyType
<1>3. c \in CopyType /\ ~ c.complete
  <2> DEFINE f == [last.files EXCEPT ![n] = files[n]]
  <2> HIDE DEF f, last
  <2>1. [last EXCEPT !.files = f] \in CopyType /\ ~ [last EXCEPT !.files = f].complete
    BY <1>1, <1>2 DEF CopyType, f
  <2> QED BY <2>1 DEF f
<1>4. copies' = [copies EXCEPT ![Len(copies)] = c]
  BY DEF BackUp
<1> HIDE DEF c
<1> QED BY <1>3, <1>4, OwnCopyWritten DEF BackUp

LEMMA BackedUpInv == ASSUME MigInv, BackedUp PROVE MigInv'
<1> DEFINE last == copies[Len(copies)]
           c == [last EXCEPT !.complete = TRUE]
<1>1. last \in CopyType /\ last.files = files
  BY DEF MigInv, MigTyped, OwnCopy, BackedUp
<1>2. c \in CopyType /\ c = [files |-> files, complete |-> TRUE]
  <2> HIDE DEF last
  <2>1. c \in CopyType /\ c.files = files /\ c.complete = TRUE
    BY <1>1 DEF CopyType
  <2> HIDE DEF c
  <2> QED BY <2>1 DEF CopyType
<1>3. copies' = [copies EXCEPT ![Len(copies)] = c]
  BY DEF BackedUp
<1>4. applying = "backup" /\ applying' = "schema"
  BY DEF BackedUp, After
<1> HIDE DEF c
<1> QED BY <1>2, <1>3, <1>4, OwnCopyWritten DEF BackedUp

(* What each step of apply leaves of its file.                             *)
LEMMA StepResult ==
  ASSUME MigInv, ApplyStep
  PROVE  /\ files' \in FilesType
         /\ files'.db = IF FileOf[applying] = "db" THEN Becomes(applying, files) ELSE files.db
         /\ files'.project = IF FileOf[applying] = "project" THEN Becomes(applying, files)
                                                             ELSE files.project
         /\ files'.scope = IF FileOf[applying] = "scope" THEN Becomes(applying, files)
                                                         ELSE files.scope
<1>1. /\ files \in FilesType /\ files' = [files EXCEPT ![FileOf[applying]] = Becomes(applying, files)]
      /\ applying \in {"schema", "backfill", "truncate", "write", "unlink", "symlink", "audit"}
  BY DEF MigInv, MigTyped, ApplyStep, FileOf
<1>2. CASE applying \in {"schema", "backfill", "audit"}
  <2>1. FileOf[applying] = "db"
    BY <1>2 DEF FileOf
  <2>2. Becomes(applying, files) \in
          {"none", "phase7", "partly", "migrated", "backfilled", "audited", "hollow"}
    BY <1>1, <1>2 DEF Becomes, FilesType
  <2> QED BY <1>1, <2>1, <2>2 DEF FilesType
<1>3. CASE applying \in {"truncate", "write"}
  <2>1. FileOf[applying] = "project"
    BY <1>3 DEF FileOf
  <2>2. Becomes(applying, files) \in {"torn", "whole"}
    BY <1>1, <1>3 DEF Becomes
  <2> QED BY <1>1, <2>1, <2>2 DEF FilesType
<1>4. CASE applying \in {"unlink", "symlink"}
  <2>1. FileOf[applying] = "scope"
    BY <1>4 DEF FileOf
  <2>2. Becomes(applying, files) \in {"none", "link"}
    BY <1>1, <1>4 DEF Becomes
  <2> QED BY <1>1, <2>1, <2>2 DEF FilesType
<1> QED BY <1>1, <1>2, <1>3, <1>4

(* An application that is past its copy changes the files, and goes on or  *)
(* stops.                                                                  *)
LEMMA FilesApplied ==
  ASSUME MigInv, applying \notin {"idle", "backup"}, files' \in FilesType,
         applying' \in ApplySteps \ {"backup"},
         UNCHANGED <<copies, restoring, runs, misled, brokeOff>>,
         files'.db \in NoData => Excused,
         Migrated'
  PROVE  MigInv'
<1>1. /\ restoring = NotRestoring /\ restoring.from = 0 /\ copies # << >>
      /\ copies[Len(copies)].complete /\ Len(copies) \in DOMAIN copies
  BY DEF MigInv, MigTyped, OwnCopy, NotRestoring
<1>2. MigTyped' /\ OwnCopy'
  BY <1>1 DEF MigInv, MigTyped, OwnCopy
<1>3. misled \/ HasOriginal
  BY <1>1 DEF MigInv, FirstIsOriginal
<1>4. OriginalKept' /\ FirstIsOriginal'
  BY <1>3 DEF OriginalKept, FirstIsOriginal, HasOriginal, Original
<1>5. DataThere'
  BY DEF MigInv, DataThere, Excused, NoData
<1>6. RestoringOn'
  BY <1>1 DEF RestoringOn
<1> QED BY <1>2, <1>4, <1>5, <1>6 DEF MigInv

LEMMA ApplyStepInv == ASSUME MigInv, ApplyStep PROVE MigInv'
<1>1. /\ files \in FilesType /\ applying' = After[applying]
      /\ UNCHANGED <<copies, restoring, runs, misled, brokeOff>>
      /\ applying \in {"schema", "backfill", "truncate", "write", "unlink", "symlink", "audit"}
  BY DEF MigInv, MigTyped, ApplyStep, FileOf
<1>2. restoring = NotRestoring
  BY <1>1 DEF MigInv, OwnCopy
<1>3. files.db \in NoData => Excused
  BY <1>2 DEF MigInv, DataThere, NoData
<1>4. files'.db \in NoData => Excused
  BY <1>1, <1>3, StepResult DEF FileOf, Becomes, NoData, FilesType
<1>5. Migrated'
  <2>1. CASE applying = "schema"
    BY <1>1, <1>3, <2>1, StepResult DEF After, FileOf, Becomes, Migrated, Excused, NoData, FilesType
  <2>2. CASE applying = "backfill"
    BY <1>1, <2>2, StepResult DEF MigInv, After, FileOf, Becomes, Migrated, Excused
  <2>3. CASE applying \in {"truncate", "write"}
    BY <1>1, <2>3, StepResult DEF MigInv, After, FileOf, Becomes, Migrated, Excused
  <2>4. CASE applying \in {"unlink", "symlink"}
    BY <1>1, <2>4, StepResult DEF MigInv, After, FileOf, Becomes, Migrated, Excused
  <2>5. CASE applying = "audit"
    BY <1>1, <2>5 DEF After, Migrated
  <2> QED BY <1>1, <2>1, <2>2, <2>3, <2>4, <2>5
<1>6. applying' \in ApplySteps \ {"backup"}
  BY <1>1 DEF After, ApplySteps
<1> QED BY <1>1, <1>4, <1>5, <1>6, StepResult, FilesApplied

LEMMA SymlinkFailsInv == ASSUME MigInv, SymlinkFails PROVE MigInv'
<1>1. /\ applying = "symlink" /\ applying' = "audit"
      /\ UNCHANGED <<files, copies, restoring, runs, misled, brokeOff>>
  BY DEF SymlinkFails, After
<1>2. Migrated'
  BY <1>1 DEF MigInv, Migrated, Excused
<1>3. files.db \in NoData => Excused
  BY <1>1 DEF MigInv, OwnCopy, DataThere, NoData
<1> QED BY <1>1, <1>2, <1>3, FilesApplied DEF MigInv, MigTyped, ApplySteps

LEMMA ApplyStopsInv == ASSUME MigInv, ApplyStops PROVE MigInv'
<1>1. CASE applying = "backup"
  <2>1. /\ applying' = "idle" /\ restoring = NotRestoring
        /\ UNCHANGED <<files, copies, restoring, runs, misled, brokeOff>>
    BY <1>1 DEF ApplyStops, MigInv, OwnCopy
  <2> QED BY <2>1 DEF MigInv, MigTyped, ApplySteps, OwnCopy, OriginalKept, FirstIsOriginal,
                      HasOriginal, DataThere, RestoringOn, Migrated, Excused, InCopy
<1>2. CASE applying # "backup"
  <2>1. /\ applying \notin {"idle", "backup"} /\ applying' = "idle"
        /\ UNCHANGED <<copies, restoring, runs, misled, brokeOff>>
    BY <1>2 DEF ApplyStops
  <2>2. files' \in FilesType /\ (files'.db \in {files.db, "partly"})
    BY DEF ApplyStops, MigInv, MigTyped, FilesType
  <2>3. files'.db \in NoData => Excused
    BY <2>1, <2>2 DEF MigInv, OwnCopy, DataThere, NoData
  <2>4. Migrated'
    BY <2>1 DEF Migrated
  <2> QED BY <2>1, <2>2, <2>3, <2>4, FilesApplied DEF ApplySteps
<1> QED BY <1>1, <1>2
-----------------------------------------------------------------------------
(* A rollback in progress changes the files only.                          *)
LEMMA FilesRestored ==
  ASSUME MigInv, applying = "idle", restoring.from # 0, files' \in FilesType,
         restoring' \in RestoringType, restoring'.from \in {0, restoring.from},
         UNCHANGED <<copies, applying, runs, misled>>,
         brokeOff => brokeOff',
         files'.db = "hollow" => Excused',
         files'.db = "none" /\ restoring' = NotRestoring => Excused',
         RestoringOn'
  PROVE  MigInv'
<1>1. MigTyped'
  BY DEF MigInv, MigTyped
<1>2. OwnCopy' /\ Migrated'
  BY DEF OwnCopy, Migrated
<1>3. misled \/ HasOriginal
  BY DEF MigInv, MigTyped, RestoringOn, FirstIsOriginal, RestoringType
<1>4. OriginalKept' /\ FirstIsOriginal'
  BY <1>3 DEF OriginalKept, FirstIsOriginal, HasOriginal, Original
<1>5. DataThere'
  BY DEF MigInv, DataThere, Excused
<1> QED BY <1>1, <1>2, <1>4, <1>5 DEF MigInv

LEMMA RollbackBeginsInv == ASSUME MigInv, RollbackBegins PROVE MigInv'
<1>1. PICK i \in DOMAIN copies :
        /\ restoring' = [from |-> i, remove |-> RemovedFirst,
                         copy |-> {n \in Names : copies[i].files[n] # "none"}]
        /\ misled' = (misled \/ ~ copies[i].complete)
  BY DEF RollbackBegins
<1>2. /\ applying = "idle" /\ restoring = NotRestoring /\ runs < MaxRuns /\ runs' = runs + 1
      /\ UNCHANGED <<files, copies, applying, brokeOff>>
  BY DEF RollbackBegins, MigIdle
<1>3. /\ copies \in Seq(CopyType) /\ i \in 1 .. Len(copies) /\ copies[i] \in CopyType
      /\ copies[i].files \in FilesType
  <2>1. copies \in Seq(CopyType) /\ i \in 1 .. Len(copies) /\ copies[i] \in CopyType
    BY DEF MigInv, MigTyped
  <2> QED BY <2>1 DEF CopyType
<1>4. /\ restoring'.from = i /\ restoring'.remove = RemovedFirst
      /\ restoring'.copy = InCopy(i) /\ restoring' \in RestoringType
  BY <1>1, <1>3 DEF InCopy, RestoringType
<1>5. MigTyped'
  BY <1>2, <1>3, <1>4, MigrationParameters DEF MigInv, MigTyped
<1>6. OwnCopy' /\ Migrated'
  BY <1>2 DEF OwnCopy, Migrated
<1>7. misled => misled'
  BY <1>1
<1>8. OriginalKept' /\ FirstIsOriginal'
  BY <1>1, <1>2, <1>7 DEF MigInv, OriginalKept, FirstIsOriginal, HasOriginal, Original
<1>9. DataThere'
  <2>1. files.db \in NoData => Excused
    BY <1>2 DEF MigInv, DataThere, NoData
  <2> QED BY <1>2, <1>7, <2>1 DEF MigInv, DataThere, Excused, NoData
<1>10. RestoringOn'
  <2> SUFFICES ASSUME ~ misled'
               PROVE  /\ copies[i].complete
                      /\ \A n \in Names : n \in RemovedFirst \union InCopy(i)
    BY <1>2, <1>3, <1>4 DEF RestoringOn, InCopy
  <2>1. copies[i].complete
    BY <1>1
  <2>2. copies[i].files.scope # "none"
    BY <2>1 DEF MigInv, DataThere
  <2> QED BY <2>1, <2>2 DEF Names, RemovedFirst, InCopy
<1> QED BY <1>5, <1>6, <1>8, <1>9, <1>10 DEF MigInv

LEMMA RestoringFacts ==
  ASSUME MigInv, restoring.remove # {} \/ restoring.copy # {}
  PROVE  /\ restoring.from # 0 /\ restoring.from \in DOMAIN copies /\ applying = "idle"
         /\ restoring \in RestoringType
         /\ files \in FilesType /\ copies[restoring.from].files \in FilesType
<1>1. restoring # NotRestoring
  BY DEF NotRestoring
<1>2. restoring.from # 0 /\ applying = "idle"
  BY <1>1 DEF MigInv, RestoringOn, OwnCopy
<1>3. /\ restoring \in RestoringType /\ restoring.from \in Nat /\ restoring.from <= Len(copies)
      /\ files \in FilesType /\ copies \in Seq(CopyType)
  BY DEF MigInv, MigTyped, RestoringType
<1>4. restoring.from \in DOMAIN copies /\ copies[restoring.from] \in CopyType
  BY <1>2, <1>3
<1>5. copies[restoring.from].files \in FilesType
  BY <1>4 DEF CopyType
<1> QED BY <1>2, <1>3, <1>4, <1>5

LEMMA RollbackRemovesInv == ASSUME MigInv, NEW n \in Names, RollbackRemoves(n) PROVE MigInv'
<1>1. /\ n \in restoring.remove /\ files' = [files EXCEPT ![n] = "none"]
      /\ UNCHANGED <<copies, applying, runs, misled, brokeOff>>
  BY DEF RollbackRemoves
<1>2. /\ restoring.from # 0 /\ applying = "idle" /\ restoring \in RestoringType
      /\ files \in FilesType /\ copies[restoring.from].files \in FilesType
  BY <1>1, RestoringFacts
<1>3. /\ restoring' \in RestoringType /\ restoring'.from = restoring.from
      /\ restoring'.copy = restoring.copy /\ restoring'.remove = restoring.remove \ {n}
  BY <1>2 DEF RollbackRemoves, RestoringType
<1>4. files' \in FilesType /\ files'.db \in {files.db, "none"}
  BY <1>1, <1>2 DEF RestoringType, RemovedFirst, FilesType, Names
<1>5. /\ files'[n] = "none" /\ \A m \in Names : m # n => files'[m] = files[m]
  BY <1>1, <1>2 DEF FilesType, Names
<1>6. RestoringOn'
  <2> SUFFICES ASSUME ~ misled
               PROVE  /\ copies[restoring.from].complete
                      /\ restoring.copy = InCopy(restoring.from)
                      /\ \A m \in Names : \/ m \in restoring'.remove \union restoring.copy
                                          \/ files'[m] = copies[restoring.from].files[m]
    BY <1>1, <1>2, <1>3 DEF RestoringOn, InCopy
  <2>1. copies[restoring.from].complete /\ restoring.copy = InCopy(restoring.from)
    BY <1>1, <1>2 DEF MigInv, RestoringOn
  <2>2. \A m \in Names : \/ m \in restoring.remove \union restoring.copy
                         \/ files[m] = copies[restoring.from].files[m]
    BY <1>2 DEF MigInv, RestoringOn
  <2> QED BY <1>3, <1>5, <2>1, <2>2 DEF InCopy
<1>7. restoring' # NotRestoring
  BY <1>2, <1>3 DEF NotRestoring
<1>8. files.db = "hollow" => Excused
  BY DEF MigInv, DataThere
<1> QED BY <1>1, <1>2, <1>3, <1>4, <1>6, <1>7, <1>8, FilesRestored DEF Excused

LEMMA RollbackCopiesInv == ASSUME MigInv, NEW n \in Names, RollbackCopies(n) PROVE MigInv'
<1> DEFINE source == copies[restoring.from].files
<1>1. /\ n \in restoring.copy /\ restoring.remove = {}
      /\ files' = [files EXCEPT ![n] = source[n]]
      /\ UNCHANGED <<copies, applying, runs, misled, brokeOff>>
  BY DEF RollbackCopies
<1>2. /\ restoring.from # 0 /\ restoring.from \in DOMAIN copies /\ applying = "idle"
      /\ restoring \in RestoringType /\ files \in FilesType /\ source \in FilesType
  BY <1>1, RestoringFacts
<1>3. /\ restoring' \in RestoringType /\ restoring'.from = restoring.from
      /\ restoring'.copy = restoring.copy \ {n} /\ restoring'.remove = {}
  BY <1>1, <1>2 DEF RollbackCopies, RestoringType
<1> HIDE DEF source
<1>4. /\ files' \in FilesType /\ files'[n] = source[n]
      /\ \A m \in Names : m # n => files'[m] = files[m]
  BY <1>1, <1>2, FilesFacts DEF FilesType, Names
<1>5. files'.db \in {files.db, source.db}
  BY <1>1, <1>2 DEF FilesType, Names
<1>6. RestoringOn'
  <2> SUFFICES ASSUME ~ misled
               PROVE  /\ copies[restoring.from].complete
                      /\ restoring'.copy \subseteq InCopy(restoring.from)
                      /\ \A m \in Names : m \in restoring'.copy \/ files'[m] = source[m]
    BY <1>1, <1>2, <1>3 DEF RestoringOn, InCopy, source
  <2>1. /\ copies[restoring.from].complete /\ restoring.copy \subseteq InCopy(restoring.from)
        /\ \A m \in Names : m \in restoring.copy \/ files[m] = source[m]
    BY <1>1, <1>2 DEF MigInv, RestoringOn, source
  <2> QED BY <1>3, <1>4, <2>1
<1>7. restoring' # NotRestoring
  BY <1>2, <1>3 DEF NotRestoring
<1>8. files'.db = "hollow" => Excused
  <2>1. files.db = "hollow" => Excused
    BY DEF MigInv, DataThere
  <2>2. source.db = "hollow" => Excused
    BY <1>2 DEF MigInv, DataThere, RestoringOn, Excused, NoData, source
  <2> QED BY <1>5, <2>1, <2>2
<1> QED BY <1>1, <1>2, <1>3, <1>4, <1>6, <1>7, <1>8, FilesRestored DEF Excused

(* At its end a rollback has made the files what the copy holds.           *)
LEMMA RollbackEndRestored ==
  ASSUME MigInv, restoring # NotRestoring, restoring.remove = {}, restoring.copy = {}, ~ misled
  PROVE  /\ restoring.from \in DOMAIN copies /\ copies[restoring.from].complete
         /\ files = copies[restoring.from].files
<1>1. restoring.from # 0
  BY DEF MigInv, RestoringOn
<1>2. /\ restoring.from \in DOMAIN copies /\ copies[restoring.from] \in CopyType
      /\ files \in FilesType
  BY <1>1 DEF MigInv, MigTyped, RestoringType
<1>3. \A n \in Names : files[n] = copies[restoring.from].files[n]
  BY <1>1 DEF MigInv, RestoringOn
<1>4. copies[restoring.from].complete
  BY <1>1 DEF MigInv, RestoringOn
<1>5. copies[restoring.from].files \in FilesType
  BY <1>2 DEF CopyType
<1> QED BY <1>2, <1>3, <1>4, <1>5, FilesFacts

LEMMA RollbackEndsInv == ASSUME MigInv, RollbackEnds PROVE MigInv'
<1>1. /\ restoring # NotRestoring /\ restoring.remove = {} /\ restoring.copy = {}
      /\ restoring' = NotRestoring
      /\ UNCHANGED <<files, copies, applying, runs, misled, brokeOff>>
  BY DEF RollbackEnds
<1>2. restoring.from # 0 /\ applying = "idle"
  BY <1>1 DEF MigInv, RestoringOn, OwnCopy
<1>3. /\ NotRestoring \in RestoringType /\ NotRestoring.from = 0
      /\ files \in FilesType
  BY DEF NotRestoring, RestoringType, MigInv, MigTyped
<1>4. RestoringOn'
  BY <1>1, <1>3 DEF RestoringOn
<1>5. files.db \in NoData => Excused
  BY <1>1, RollbackEndRestored DEF MigInv, DataThere, Excused
<1> QED BY <1>1, <1>2, <1>3, <1>4, <1>5, FilesRestored DEF Excused, NoData

LEMMA RollbackStopsInv == ASSUME MigInv, RollbackStops PROVE MigInv'
<1>1. /\ restoring.remove # {} \/ restoring.copy # {}
      /\ restoring' = NotRestoring
      /\ brokeOff' = (brokeOff \/ files.db = "none")
      /\ UNCHANGED <<files, copies, applying, runs, misled>>
  BY DEF RollbackStops
<1>2. /\ restoring.from # 0 /\ applying = "idle" /\ files \in FilesType
  BY <1>1, RestoringFacts
<1>3. NotRestoring \in RestoringType /\ NotRestoring.from = 0
  BY DEF NotRestoring, RestoringType
<1>4. RestoringOn'
  BY <1>1, <1>3 DEF RestoringOn
<1>5. files.db = "hollow" => Excused
  BY DEF MigInv, DataThere
<1> QED BY <1>1, <1>2, <1>3, <1>4, <1>5, FilesRestored DEF Excused

LEMMA MigInvNext == MigInv /\ [MigNext]_migVars => MigInv'
<1> SUFFICES ASSUME MigInv, [MigNext]_migVars PROVE MigInv'
  OBVIOUS
<1>1. CASE UNCHANGED migVars
  BY <1>1 DEF migVars, MigInv, MigTyped, OwnCopy, OriginalKept, FirstIsOriginal, HasOriginal,
              DataThere, RestoringOn, InCopy, Migrated, Excused
<1> QED BY <1>1, ApplyBeginsInv, BackUpInv, BackedUpInv, ApplyStepInv, SymlinkFailsInv,
           ApplyStopsInv, RollbackBeginsInv, RollbackRemovesInv, RollbackCopiesInv,
           RollbackEndsInv, RollbackStopsInv DEF MigNext

(* Migrator.apply and Rollback.rollback: however often either breaks off   *)
(* and is run again, the data of phase 7 are in place or in a complete     *)
(* copy, what is audited is migrated, and a rollback that ends brings back *)
(* its copy.                                                               *)
THEOREM DataStaysRecoverable == MigSpec => []DataRecoverable
<1>1. MigInv => DataRecoverable
  <2> SUFFICES ASSUME MigInv PROVE DataRecoverable
    OBVIOUS
  <2>1. MigTypeOK
    <3>1. /\ files \in FilesType /\ applying \in ApplySteps /\ restoring \in RestoringType
          /\ runs \in 0 .. MaxRuns /\ copies \in Seq(CopyType)
          /\ restoring.from \in 0 .. Len(copies)
      BY DEF MigInv, MigTyped, RestoringType
    <3>2. \A i \in DOMAIN copies : DOMAIN copies[i].files = Names
      <4> SUFFICES ASSUME NEW i \in DOMAIN copies PROVE DOMAIN copies[i].files = Names
        OBVIOUS
      <4>1. copies[i] \in CopyType
        BY <3>1, ElementOfSeq
      <4>2. copies[i].files \in FilesType
        BY <4>1 DEF CopyType
      <4> QED BY <4>2, FilesDomain
    <3>3. applying \in {"idle"} \union DOMAIN After
      BY <3>1 DEF ApplySteps, After
    <3>4. applying \notin {"idle", "backup"} => copies # << >> /\ copies[Len(copies)].complete
      BY DEF MigInv, OwnCopy
    <3> QED BY <3>1, <3>2, <3>3, <3>4 DEF MigTypeOK, FilesType
  <2>2. OriginalKept
    BY DEF MigInv
  <2>3. MigratedBeforeAudit
    BY DEF MigInv, Migrated, MigratedBeforeAudit, Excused
  <2>4. RollbackRestores
    BY RollbackEndRestored DEF RollbackRestores
  <2> QED BY <2>1, <2>2, <2>3, <2>4 DEF DataRecoverable
<1> QED BY <1>1, MigInvInit, MigInvNext, PTL DEF MigSpec

-----------------------------------------------------------------------------
(* Discovery: every chain of attempts is accounted for, none goes on after *)
(* stop but a stray one.                                                   *)

Counters == [Addresses -> Nat]

DiscTyped ==
  /\ peer \in [Peers -> PeerStates \union {"unknown"}]
  /\ discoveryStopped \in BOOLEAN
  /\ armed \subseteq Addresses
  /\ strays \in Counters /\ attempting \in Counters /\ asked \in Counters
  /\ reached \in Counters /\ cut \in Counters

InSlot(m) == IF m \in armed THEN 1 ELSE 0

(* A timer goes astray only where two were scheduled, and no slot holds    *)
(* one after stop.                                                         *)
StraysNeedTwo == \A m \in Addresses : strays[m] > 0 => asked[m] > 1
NoneArmedStopped == discoveryStopped => armed = {}

DiscInv == DiscTyped /\ ChainsAccounted /\ StraysNeedTwo /\ NoneArmedStopped

LEMMA CounterPlus ==
  ASSUME NEW f \in Counters, NEW m \in Addresses
  PROVE  /\ Plus(f, m, 1) \in Counters
         /\ Plus(f, m, 1)[m] = f[m] + 1
         /\ \A a \in Addresses : a # m => Plus(f, m, 1)[a] = f[a]
BY DEF Counters, Plus

LEMMA CounterMinus ==
  ASSUME NEW f \in Counters, NEW m \in Addresses, f[m] > 0
  PROVE  /\ Minus(f, m, 1) \in Counters
         /\ Minus(f, m, 1)[m] = f[m] - 1
         /\ \A a \in Addresses : a # m => Minus(f, m, 1)[a] = f[a]
<1>1. f[m] \in Nat /\ f[m] - 1 \in Nat
  BY DEF Counters
<1> QED BY <1>1 DEF Counters, Minus

LEMMA PeerMoves ==
  ASSUME DiscInv,
         (\E p \in Peers : PeerFound(p)) \/ (\E p \in Peers : MarkConnecting(p))
         \/ (\E p \in Peers : MarkConnected(p)) \/ (\E p \in Peers : MarkStale(p))
         \/ (\E p \in Peers : MarkLost(p))
  PROVE  DiscInv' /\ ~ discoveryStopped /\ UNCHANGED <<discoveryStopped, slots>>
<1>1. \A p \in Peers : \A n \in PeerStates :
        Transition(p, n) => peer' \in [Peers -> PeerStates \union {"unknown"}]
  BY DEF DiscInv, DiscTyped, Transition
<1>2. /\ ~ discoveryStopped /\ UNCHANGED <<discoveryStopped, slots>>
      /\ peer' \in [Peers -> PeerStates \union {"unknown"}]
  BY <1>1 DEF PeerFound, MarkConnecting, MarkConnected, MarkStale, MarkLost, Mark, PeerStates,
              DiscInv, DiscTyped
<1> QED BY <1>2 DEF DiscInv, DiscTyped, ChainsAccounted, StraysNeedTwo, NoneArmedStopped, slots

(* What holds of every address before a step and is needed after it.       *)
LEMMA DiscFacts ==
  ASSUME DiscInv, NEW m \in Addresses
  PROVE  /\ strays[m] \in Nat /\ attempting[m] \in Nat /\ asked[m] \in Nat
         /\ reached[m] \in Nat /\ cut[m] \in Nat
         /\ asked[m] = InSlot(m) + strays[m] + attempting[m] + reached[m] + cut[m]
         /\ strays[m] > 0 => asked[m] > 1
BY DEF DiscInv, DiscTyped, Counters, ChainsAccounted, StraysNeedTwo, InSlot

LEMMA ScheduleInv ==
  ASSUME DiscInv, NEW m \in Addresses, ScheduleBootstrapAttempt(m) PROVE DiscInv'
<1>1. /\ ~ discoveryStopped /\ UNCHANGED <<peer, discoveryStopped, attempting, reached, cut>>
      /\ asked' = Plus(asked, m, 1) /\ armed' = armed \union {m}
      /\ strays' = IF m \in armed THEN Plus(strays, m, 1) ELSE strays
  BY DEF ScheduleBootstrapAttempt, Arm
<1>2. strays \in Counters /\ asked \in Counters
  BY DEF DiscInv, DiscTyped
<1>3. DiscTyped'
  BY <1>1, <1>2, CounterPlus DEF DiscInv, DiscTyped
<1>4. ASSUME NEW a \in Addresses
      PROVE  /\ asked'[a] = InSlot(a)' + strays'[a] + attempting'[a] + reached'[a] + cut'[a]
             /\ strays'[a] > 0 => asked'[a] > 1
  <2>1. CASE a # m
    BY <2>1, <1>1, <1>2, <1>4, CounterPlus, DiscFacts DEF InSlot
  <2>2. CASE a = m /\ m \in armed
    BY <2>2, <1>1, <1>2, <1>4, CounterPlus, DiscFacts DEF InSlot
  <2>3. CASE a = m /\ m \notin armed
    BY <2>3, <1>1, <1>2, <1>4, CounterPlus, DiscFacts DEF InSlot
  <2> QED BY <2>1, <2>2, <2>3
<1> QED BY <1>1, <1>3, <1>4 DEF DiscInv, ChainsAccounted, StraysNeedTwo, NoneArmedStopped, InSlot

LEMMA BootstrapInv ==
  ASSUME DiscInv, NEW m \in Addresses, DiscBootstrap(m)
  PROVE  /\ DiscInv' /\ UNCHANGED <<peer, asked>>
         /\ \A a \in Addresses :
              discoveryStopped /\ attempting'[a] > attempting[a] => asked[a] > 1
<1>1. /\ UNCHANGED <<peer, asked, discoveryStopped>>
      /\ strays \in Counters /\ attempting \in Counters /\ reached \in Counters /\ cut \in Counters
  BY DEF DiscBootstrap, AttemptTimerFires, StrayFires, AttemptSucceeds, AttemptFails, Arm,
         DiscInv, DiscTyped
<1>2. DiscTyped'
  BY <1>1, CounterPlus, CounterMinus
  DEF DiscInv, DiscTyped, DiscBootstrap, AttemptTimerFires, StrayFires, AttemptSucceeds,
      AttemptFails, Arm
<1>3. NoneArmedStopped'
  BY <1>1 DEF DiscInv, NoneArmedStopped, DiscBootstrap, AttemptTimerFires, StrayFires,
              AttemptSucceeds, AttemptFails, Arm
<1>4. ASSUME NEW a \in Addresses
      PROVE  /\ asked'[a] = InSlot(a)' + strays'[a] + attempting'[a] + reached'[a] + cut'[a]
             /\ strays'[a] > 0 => asked'[a] > 1
             /\ discoveryStopped /\ attempting'[a] > attempting[a] => asked[a] > 1
  <2>0. m \in armed => ~ discoveryStopped
    BY DEF DiscInv, NoneArmedStopped
  <2>a. /\ strays[a] \in Nat /\ attempting[a] \in Nat /\ asked[a] \in Nat
        /\ reached[a] \in Nat /\ cut[a] \in Nat
        /\ asked[a] = InSlot(a) + strays[a] + attempting[a] + reached[a] + cut[a]
        /\ strays[a] > 0 => asked[a] > 1
    BY <1>4, DiscFacts
  <2>p. /\ Plus(strays, m, 1)[a] = strays[a] + (IF a = m THEN 1 ELSE 0)
        /\ Plus(attempting, m, 1)[a] = attempting[a] + (IF a = m THEN 1 ELSE 0)
        /\ Plus(reached, m, 1)[a] = reached[a] + (IF a = m THEN 1 ELSE 0)
        /\ Plus(cut, m, 1)[a] = cut[a] + (IF a = m THEN 1 ELSE 0)
    BY <1>1, <1>4, <2>a, CounterPlus
  <2>m. /\ strays[m] > 0 => Minus(strays, m, 1)[a] = strays[a] - (IF a = m THEN 1 ELSE 0)
        /\ attempting[m] > 0 =>
             Minus(attempting, m, 1)[a] = attempting[a] - (IF a = m THEN 1 ELSE 0)
    BY <1>1, <1>4, <2>a, CounterMinus
  <2>1. CASE AttemptTimerFires(m)
    BY <2>0, <2>1, <2>a, <2>p, <1>1 DEF InSlot, AttemptTimerFires
  <2>2. CASE StrayFires(m)
    BY <2>0, <2>2, <2>a, <2>p, <2>m, <1>1 DEF InSlot, StrayFires
  <2>3. CASE AttemptSucceeds(m)
    BY <2>3, <2>a, <2>p, <2>m, <1>1 DEF InSlot, AttemptSucceeds
  <2>4. CASE AttemptFails(m) /\ discoveryStopped
    BY <2>4, <2>a, <2>p, <2>m, <1>1 DEF InSlot, AttemptFails
  <2>5. CASE AttemptFails(m) /\ ~ discoveryStopped
    BY <2>5, <2>a, <2>p, <2>m, <1>1 DEF InSlot, AttemptFails, Arm
  <2> QED BY <2>1, <2>2, <2>3, <2>4, <2>5 DEF DiscBootstrap
<1> QED BY <1>1, <1>2, <1>3, <1>4 DEF DiscInv, ChainsAccounted, StraysNeedTwo, InSlot

LEMMA DiscoveryStopInv ==
  ASSUME DiscInv, DiscoveryStop PROVE DiscInv' /\ UNCHANGED <<peer, attempting, asked>>
<1>1. /\ discoveryStopped' = TRUE /\ armed' = {}
      /\ UNCHANGED <<peer, strays, attempting, asked, reached>>
      /\ cut' \in Counters /\ \A a \in Addresses : cut'[a] = cut[a] + InSlot(a)
  BY DEF DiscoveryStop, InSlot, DiscInv, DiscTyped, Counters
<1>2. DiscTyped' /\ NoneArmedStopped' /\ StraysNeedTwo'
  BY <1>1 DEF DiscInv, DiscTyped, NoneArmedStopped, StraysNeedTwo
<1>3. ASSUME NEW a \in Addresses
      PROVE  asked'[a] = InSlot(a)' + strays'[a] + attempting'[a] + reached'[a] + cut'[a]
  <2>1. InSlot(a)' = 0 /\ InSlot(a) \in Nat
    BY <1>1 DEF InSlot
  <2> QED BY <1>1, <1>3, <2>1, DiscFacts
<1> QED BY <1>1, <1>2, <1>3 DEF DiscInv, ChainsAccounted, InSlot

LEMMA DiscInvInit == DiscInit => DiscInv
<1> SUFFICES ASSUME DiscInit PROVE DiscInv
  OBVIOUS
<1>1. DiscTyped
  BY DEF DiscInit, DiscTyped, Counters
<1>2. ChainsAccounted /\ StraysNeedTwo /\ NoneArmedStopped
  BY DEF DiscInit, ChainsAccounted, StraysNeedTwo, NoneArmedStopped
<1> QED BY <1>1, <1>2 DEF DiscInv

(* What one step does: it keeps the invariant, and after stop it moves no  *)
(* peer and attempts nothing but by a stray timer.                         *)
FinalStep ==
  discoveryStopped =>
    /\ peer' = peer
    /\ \A m \in Addresses : attempting'[m] > attempting[m] => asked[m] > 1

LEMMA DiscInvNext == DiscInv /\ [DiscNext]_discVars => DiscInv' /\ [FinalStep]_discVars
<1> SUFFICES ASSUME DiscInv, [DiscNext]_discVars PROVE DiscInv' /\ [FinalStep]_discVars
  OBVIOUS
<1>1. CASE (\E p \in Peers : PeerFound(p)) \/ (\E p \in Peers : MarkConnecting(p))
           \/ (\E p \in Peers : MarkConnected(p)) \/ (\E p \in Peers : MarkStale(p))
           \/ (\E p \in Peers : MarkLost(p))
  BY <1>1, PeerMoves DEF FinalStep
<1>2. ASSUME NEW m \in Addresses, ScheduleBootstrapAttempt(m)
      PROVE  DiscInv' /\ [FinalStep]_discVars
  BY <1>2, ScheduleInv DEF FinalStep, ScheduleBootstrapAttempt
<1>3. ASSUME NEW m \in Addresses, DiscBootstrap(m)
      PROVE  DiscInv' /\ [FinalStep]_discVars
  BY <1>3, BootstrapInv DEF FinalStep
<1>4. CASE DiscoveryStop
  <2>1. \A m \in Addresses : attempting[m] \in Nat
    BY DiscFacts
  <2> QED BY <1>4, <2>1, DiscoveryStopInv DEF FinalStep
<1>5. CASE UNCHANGED discVars
  BY <1>5 DEF discVars, slots, DiscInv, DiscTyped, ChainsAccounted, StraysNeedTwo, NoneArmedStopped
<1> QED BY <1>1, <1>2, <1>3, <1>4, <1>5 DEF DiscNext

(* scheduleBootstrapAttempt and its timers: no chain of attempts is lost   *)
(* and none splits in two, whichever timers overtake each other.           *)
THEOREM ChainsAreAccounted == DiscSpec => []ChainsOfAttempts
<1>1. DiscInv => ChainsOfAttempts
  BY DEF DiscInv, DiscTyped, ChainsOfAttempts, DiscTypeOK, Counters
<1> QED BY <1>1, DiscInvInit, DiscInvNext, PTL DEF DiscSpec

(* stop: no peer changes after it, and nothing is attempted at an address  *)
(* scheduled once.                                                         *)
THEOREM StoppedForGood == DiscSpec => StopIsFinal
<1>1. DiscSpec => [][FinalStep]_discVars
  BY DiscInvInit, DiscInvNext, PTL DEF DiscSpec
<1> QED BY <1>1, PTL DEF StopIsFinal, FinalStep

-----------------------------------------------------------------------------
(* Workspaces: the owner of record, as long as no write relied on rows     *)
(* another process had changed.                                            *)

Ops == {"none", "add", "remove", "change", "transfer"}

(* What a process holds: nothing, or an operation on what it has read.     *)
Reading(w) ==
  \/ w = NoChange
  \/ w.op \in Ops \ {"none"} /\ w.scope \in Scopes /\ w.role \in Roles /\ w.owner \in Scopes

Vouched(w) == w.op # "none" /\ ~ w.stale =>
  owner # "none" /\ owner = w.owner /\ MayChange(w.op, w.scope, w.role)

WsTyped ==
  /\ owner \in Scopes \union {"none"}
  /\ members \in [Scopes -> Roles \union {"none"}]
  /\ owner = "none" => \A s \in Scopes : members[s] = "none"
  /\ \A p \in Writers : Reading(writer[p])
  /\ writes \in 0 .. MaxWrites
  /\ raced \in BOOLEAN /\ invited \subseteq Scopes

WsInv ==
  /\ WsTyped
  /\ DOMAIN writer = Writers
  /\ OneOwnerOfRecord
  /\ \A p \in Writers : Vouched(writer[p])

LEMMA WithRoleFacts ==
  ASSUME NEW roles \in [Scopes -> Roles \union {"none"}], NEW s \in Scopes, NEW role \in Roles
  PROVE  /\ WithRole(roles, s, role) \in [Scopes -> Roles \union {"none"}]
         /\ \A t \in Scopes :
              WithRole(roles, s, role)[t] = IF t = s /\ roles[s] # "none" THEN role ELSE roles[t]
BY DEF WithRole

(* Whoever writes, what the others have read is old.                       *)
LEMMA AfterWrite ==
  ASSUME WsInv, NEW p \in Writers, WrittenBy(p)
  PROVE  /\ DOMAIN writer' = Writers
         /\ \A q \in Writers : Reading(writer'[q])
         /\ \A q \in Writers : writer'[q].op # "none" => writer'[q].stale
         /\ writes' \in 0 .. MaxWrites /\ raced' \in BOOLEAN
         /\ ~ raced' => ~ raced /\ ~ writer[p].stale
<1>1. writer' = [OldReads EXCEPT ![p] = NoChange] /\ raced' = (raced \/ writer[p].stale)
  BY DEF WrittenBy
<1>2. writes' \in 0 .. MaxWrites
  BY WorkspaceParameters DEF WrittenBy, WsInv, WsTyped
<1>3. raced' \in BOOLEAN /\ (~ raced' => ~ raced /\ ~ writer[p].stale)
  BY <1>1, Zenon
<1>4. DOMAIN writer' = Writers
  BY <1>1 DEF OldReads
<1>5. ASSUME NEW q \in Writers
      PROVE  Reading(writer'[q]) /\ (writer'[q].op # "none" => writer'[q].stale)
  <2>1. NoChange.op = "none"
    BY DEF NoChange
  <2>2. CASE q = p \/ writer[q] = NoChange
    <3>1. writer'[q] = NoChange
      BY <1>1, <1>5, <2>2 DEF OldReads
    <3> QED BY <2>1, <3>1 DEF Reading
  <2>3. CASE q # p /\ writer[q] # NoChange
    <3>1. writer'[q] = [writer[q] EXCEPT !.stale = TRUE]
      BY <1>1, <1>5, <2>3 DEF OldReads
    <3>2. writer[q].op \in Ops \ {"none"} /\ writer[q].scope \in Scopes /\ writer[q].role \in Roles
          /\ writer[q].owner \in Scopes
      BY <1>5, <2>3 DEF WsInv, WsTyped, Reading
    <3> QED BY <3>1, <3>2 DEF Reading
  <2> QED BY <2>2, <2>3
<1> QED BY <1>2, <1>3, <1>4, <1>5

(* A write keeps the invariant if it keeps the types of what it writes     *)
(* and, made on rows no one had changed, the owner of record.              *)
LEMMA WriteKeeps ==
  ASSUME WsInv, NEW p \in Writers, WrittenBy(p),
         owner' \in Scopes \union {"none"},
         members' \in [Scopes -> Roles \union {"none"}],
         owner' = "none" => \A s \in Scopes : members'[s] = "none",
         invited' \subseteq Scopes,
         ~ raced /\ ~ writer[p].stale => OneOwnerOfRecord'
  PROVE  WsInv'
<1>1. WsTyped' /\ DOMAIN writer' = Writers
  BY AfterWrite DEF WsTyped
<1>2. OneOwnerOfRecord'
  BY AfterWrite DEF OneOwnerOfRecord
<1>3. \A q \in Writers : Vouched(writer[q])'
  BY AfterWrite DEF Vouched
<1> QED BY <1>1, <1>2, <1>3 DEF WsInv

(* What is known of an operation about to write.                           *)
LEMMA Holds ==
  ASSUME WsInv, NEW p \in Writers, writer[p].op \in Ops \ {"none"}
  PROVE  /\ writer[p].scope \in Scopes /\ writer[p].role \in Roles /\ writer[p].owner \in Scopes
         /\ ~ writer[p].stale => /\ owner # "none" /\ owner = writer[p].owner
                                 /\ MayChange(writer[p].op, writer[p].scope, writer[p].role)
<1>1. NoChange.op = "none"
  BY DEF NoChange
<1> QED BY <1>1 DEF WsInv, WsTyped, Reading, Vouched

LEMMA WsStepInv == ASSUME WsInv, NEW p \in Writers, WsStep(p) PROVE WsInv'
<1> DEFINE w == writer[p]
<1>0. /\ owner \in Scopes \union {"none"} /\ members \in [Scopes -> Roles \union {"none"}]
      /\ owner = "none" => \A s \in Scopes : members[s] = "none"
      /\ invited \subseteq Scopes /\ OneOwnerOfRecord /\ "none" \notin Scopes
      /\ {"owner", "contributor"} \subseteq Roles /\ "none" \notin Roles
  BY WorkspaceParameters DEF WsInv, WsTyped, Roles
<1>1. CASE CreateWorkspace(p)
  <2>1. PICK s \in Scopes : owner' = s /\ members' = [members EXCEPT ![s] = "owner"]
    BY <1>1 DEF CreateWorkspace
  <2>2. /\ WrittenBy(p) /\ invited' = {} /\ owner = "none"
    BY <1>1 DEF CreateWorkspace
  <2>3. members' \in [Scopes -> Roles \union {"none"}] /\ members'[s] = "owner"
        /\ \A t \in Scopes : t # s => members'[t] = "none"
    BY <1>0, <2>1, <2>2
  <2> QED BY <1>0, <2>1, <2>2, <2>3, WriteKeeps DEF OneOwnerOfRecord
<1>2. CASE DeleteWorkspace(p)
  BY <1>2, WriteKeeps DEF DeleteWorkspace, DeletedWorkspace, OneOwnerOfRecord
<1>3. CASE ReadsWorkspace(p)
  <2>1. PICK op \in {"add", "remove", "change", "transfer"}, s \in Scopes, role \in Roles :
          /\ MayChange(op, s, role)
          /\ writer' = [writer EXCEPT ![p] =
                          [op |-> op, scope |-> s, role |-> role, owner |-> owner, stale |-> FALSE]]
    BY <1>3 DEF ReadsWorkspace
  <2>2. owner # "none" /\ UNCHANGED <<owner, members, writes, raced, invited>>
    BY <1>3 DEF ReadsWorkspace
  <2>3. /\ writer'[p] = [op |-> op, scope |-> s, role |-> role, owner |-> owner, stale |-> FALSE]
        /\ \A q \in Writers : q # p => writer'[q] = writer[q]
        /\ DOMAIN writer' = Writers
    BY <2>1 DEF WsInv
  <2>4. Reading(writer'[p])
    BY <1>0, <2>2, <2>3 DEF Reading, Ops
  <2>5. Vouched(writer[p])'
    BY <2>1, <2>2, <2>3 DEF Vouched, MayChange
  <2>6. WsTyped'
    BY <2>2, <2>3, <2>4 DEF WsInv, WsTyped
  <2>7. \A q \in Writers : Vouched(writer[q])'
    BY ZenonT(40), <2>2, <2>3, <2>5 DEF WsInv, Vouched, MayChange
  <2>8. OneOwnerOfRecord'
    BY <1>0, <2>2 DEF OneOwnerOfRecord
  <2> QED BY <2>3, <2>6, <2>7, <2>8 DEF WsInv
<1>4. CASE AddMember(p)
  <2>1. /\ WrittenBy(p) /\ w.op = "add" /\ UNCHANGED owner /\ w.scope \in Scopes /\ w.role \in Roles
    BY <1>4, Holds DEF AddMember, Ops
  <2>2. CASE owner = "none" \/ members[w.scope] # "none"
    BY <1>0, <1>4, <2>1, <2>2, WriteKeeps DEF AddMember, OneOwnerOfRecord
  <2>3. CASE owner # "none" /\ members[w.scope] = "none"
    <3>1. /\ members' = [members EXCEPT ![w.scope] = w.role]
          /\ invited' = IF w.role = "owner" THEN invited \union {w.scope} ELSE invited
      BY <1>4, <2>3 DEF AddMember
    <3>2. members' \in [Scopes -> Roles \union {"none"}] /\ invited' \subseteq Scopes
      BY <1>0, <2>1, <3>1
    <3>3. ~ raced => OneOwnerOfRecord'
      BY <1>0, <2>1, <2>3, <3>1 DEF OneOwnerOfRecord
    <3> QED BY <1>0, <2>1, <2>3, <3>2, <3>3, WriteKeeps
  <2> QED BY <2>2, <2>3
<1>5. CASE RemoveMember(p)
  <2>1. /\ WrittenBy(p) /\ w.op = "remove" /\ UNCHANGED owner /\ w.scope \in Scopes
        /\ members' = [members EXCEPT ![w.scope] = "none"]
        /\ invited' = invited \ {w.scope}
        /\ ~ w.stale => owner # w.scope
    BY <1>5, Holds DEF RemoveMember, Ops, MayChange
  <2>2. members' \in [Scopes -> Roles \union {"none"}] /\ invited' \subseteq Scopes
        /\ owner' = "none" => \A s \in Scopes : members'[s] = "none"
    BY <1>0, <2>1
  <2>3. ~ raced /\ ~ w.stale => OneOwnerOfRecord'
    BY <1>0, <2>1 DEF OneOwnerOfRecord
  <2> QED BY <1>0, <2>1, <2>2, <2>3, WriteKeeps
<1>6. CASE ChangeRole(p)
  <2>1. /\ WrittenBy(p) /\ w.op = "change" /\ UNCHANGED <<owner, invited>>
        /\ w.scope \in Scopes /\ w.role \in Roles
        /\ members' = WithRole(members, w.scope, w.role)
        /\ ~ w.stale => /\ members[w.scope] = "owner" => w.role = "owner"
                        /\ w.role = "owner" => owner = w.scope
    BY <1>6, Holds DEF ChangeRole, Ops, MayChange
  <2>2. /\ members' \in [Scopes -> Roles \union {"none"}]
        /\ \A t \in Scopes :
             members'[t] = IF t = w.scope /\ members[w.scope] # "none" THEN w.role ELSE members[t]
    BY <1>0, <2>1, WithRoleFacts
  <2>3. ~ raced /\ ~ w.stale => OneOwnerOfRecord'
    BY <1>0, <2>1, <2>2 DEF OneOwnerOfRecord
  <2> HIDE DEF w
  <2> QED BY <1>0, <2>1, <2>2, <2>3, WriteKeeps DEF w
<1>7. CASE TransferOwnership(p)
  <2>1. /\ WrittenBy(p) /\ w.op = "transfer" /\ w.scope \in Scopes /\ w.owner \in Scopes
        /\ members' = WithRole(WithRole(members, w.owner, "contributor"), w.scope, "owner")
        /\ owner' = IF owner = "none" THEN "none" ELSE w.scope
        /\ invited' = invited \ {w.owner}
        /\ ~ w.stale => owner = w.owner /\ owner # w.scope /\ members[w.scope] # "none"
    BY <1>7, Holds DEF TransferOwnership, Ops, MayChange
  <2> DEFINE down == WithRole(members, w.owner, "contributor")
  <2>2. /\ down \in [Scopes -> Roles \union {"none"}]
        /\ \A t \in Scopes :
             down[t] = IF t = w.owner /\ members[w.owner] # "none" THEN "contributor" ELSE members[t]
    BY <1>0, <2>1, WithRoleFacts
  <2>3. members' = WithRole(down, w.scope, "owner")
    BY <2>1
  <2> HIDE DEF down, w
  <2>4. /\ members' \in [Scopes -> Roles \union {"none"}]
        /\ \A t \in Scopes :
             members'[t] = IF t = w.scope /\ down[w.scope] # "none" THEN "owner" ELSE down[t]
    BY <1>0, <2>1, <2>2, <2>3, WithRoleFacts
  <2>5. owner' = "none" => \A s \in Scopes : members'[s] = "none"
    BY <1>0, <2>1, <2>2, <2>4
  <2>6. ~ raced /\ ~ w.stale => OneOwnerOfRecord'
    BY <1>0, <2>1, <2>2, <2>4 DEF OneOwnerOfRecord
  <2>7. owner' \in Scopes \union {"none"} /\ invited' \subseteq Scopes
    BY <1>0, <2>1
  <2> QED BY <2>1, <2>4, <2>5, <2>6, <2>7, WriteKeeps DEF w
<1> QED BY <1>1, <1>2, <1>3, <1>4, <1>5, <1>6, <1>7 DEF WsStep

LEMMA WsInvInit == WsInit => WsInv
<1> SUFFICES ASSUME WsInit PROVE WsInv
  OBVIOUS
<1>1. NoChange.op = "none"
  BY DEF NoChange
<1>2. \A p \in Writers : writer[p] = NoChange
  BY DEF WsInit
<1>3. DOMAIN writer = Writers /\ members \in [Scopes -> Roles \union {"none"}]
      /\ \A s \in Scopes : members[s] = "none"
  BY DEF WsInit
<1>4. writes \in 0 .. MaxWrites
  BY WorkspaceParameters DEF WsInit
<1>5. raced = FALSE /\ owner = "none" /\ invited = {}
  BY DEF WsInit
<1>6. WsTyped
  BY <1>2, <1>3, <1>4, <1>5 DEF WsTyped, Reading
<1>7. OneOwnerOfRecord /\ \A p \in Writers : Vouched(writer[p])
  BY <1>1, <1>2, <1>5 DEF OneOwnerOfRecord, Vouched
<1> QED BY <1>3, <1>6, <1>7 DEF WsInv

(* WorkspaceStore under any interleaving of processes: a workspace gone    *)
(* has no members, and unless a write relied on rows that had changed, the *)
(* owner of record has the role and no one has it who was not given it.    *)
THEOREM OwnershipIsKept == WsSpec => []OwnershipHolds
<1>1. WsInv => OwnershipHolds
  <2> SUFFICES ASSUME WsInv PROVE WsTypeOK /\ OneOwnerOfRecord
    BY DEF OwnershipHolds
  <2>1. NoChange.op = "none"
    BY DEF NoChange
  <2>2. \A p \in Writers : writer[p].op \in {"none", "add", "remove", "change", "transfer"}
    BY <2>1 DEF WsInv, WsTyped, Reading, Ops
  <2> QED BY <2>2 DEF WsInv, WsTyped, WsTypeOK
<1>2. WsInv /\ UNCHANGED wsVars => WsInv'
  <2> SUFFICES ASSUME WsInv, UNCHANGED wsVars PROVE WsInv'
    OBVIOUS
  <2>1. UNCHANGED <<owner, members, writer, writes, raced, invited>>
    BY DEF wsVars
  <2>2. WsTyped'
    BY <2>1 DEF WsInv, WsTyped, Reading
  <2>3. OneOwnerOfRecord' /\ \A p \in Writers : Vouched(writer[p])'
    BY <2>1 DEF WsInv, OneOwnerOfRecord, Vouched, MayChange
  <2> QED BY <2>1, <2>2, <2>3 DEF WsInv
<1>3. WsInv /\ [WsNext]_wsVars => WsInv'
  BY <1>2, WsStepInv DEF WsNext
<1> QED BY <1>1, <1>3, WsInvInit, PTL DEF WsSpec

-----------------------------------------------------------------------------
(* The marketplace: a call that has written the store, and that no other   *)
(* of its plugin overlaps, holds what the store has.                       *)

MarketCallType ==
  [op : {"none", "create", "update", "delete", "fork", "import"},
   name : PluginNames \union {"none"},
   at : {"idle", "source", "look", "write", "audit"},
   content : 0 .. MaxStores]

MarketTyped ==
  /\ shelf \in [PluginNames -> 0 .. MaxStores]
  /\ trail \in [PluginNames -> 0 .. MaxStores]
  /\ market \in [MarketCalls -> MarketCallType]
  /\ contents \in 0 .. MaxStores
  /\ \A m \in MarketCalls : IF market[m].at = "idle" THEN market[m] = NoMarketCall
                                                     ELSE market[m].name \in PluginNames

OverlapsNoted ==
  \A m1, m2 \in MarketCalls :
    (m1 # m2 /\ market[m1].at # "idle" /\ market[m2].at # "idle"
             /\ market[m1].name = market[m2].name) => market[m1].name \in collided

HoldsTheShelf ==
  \A m \in MarketCalls : market[m].at = "audit" =>
    (market[m].content = shelf[market[m].name] \/ market[m].name \in collided)

TrailOrCall ==
  \A n \in PluginNames :
    \/ trail[n] = shelf[n]
    \/ n \in collided \union unaudited
    \/ \E m \in MarketCalls : market[m].name = n /\ market[m].at = "audit"

MarketInv == MarketTyped /\ OverlapsNoted /\ HoldsTheShelf /\ TrailOrCall

LEMMA MarketInvInit == MarketInit => MarketInv
BY StoresCounted
   DEF MarketInit, MarketInv, MarketTyped, OverlapsNoted, HoldsTheShelf, TrailOrCall,
       MarketCallType, NoMarketCall

(* One call of the marketplace, whose name or progress alone changes.      *)
LEMMA CallBeginsInv ==
  ASSUME MarketInv, NEW m \in MarketCalls, NEW n \in PluginNames,
         NEW op \in {"create", "update", "delete", "fork", "import"}, CallBegins(m, op, n)
  PROVE  MarketInv'
<1>1. MarketTyped'
  BY StoresCounted DEF MarketInv, MarketTyped, MarketCallType, CallBegins, NoMarketCall
<1>2. OverlapsNoted'
  BY DEF MarketInv, MarketTyped, MarketCallType, OverlapsNoted, CallBegins, NoMarketCall, InProgress
<1>3. HoldsTheShelf'
  BY DEF MarketInv, MarketTyped, MarketCallType, HoldsTheShelf, CallBegins, NoMarketCall
<1>4. TrailOrCall'
  BY DEF MarketInv, MarketTyped, MarketCallType, TrailOrCall, CallBegins, NoMarketCall
<1> QED BY <1>1, <1>2, <1>3, <1>4 DEF MarketInv

(* A step of a call in progress keeps its name, and the other calls. *)
LEMMA CallMoves ==
  ASSUME MarketTyped, NEW m \in MarketCalls, NEW call \in MarketCallType,
         market[m].at # "idle", call.at # "idle", call.name = market[m].name,
         market' = [market EXCEPT ![m] = call]
  PROVE  /\ \A k \in MarketCalls : market'[k].name = market[k].name
         /\ \A k \in MarketCalls \ {m} : market'[k] = market[k]
         /\ market'[m] = call
         /\ market[m].name \in PluginNames
         /\ market' \in [MarketCalls -> MarketCallType]
         /\ \A k \in MarketCalls : IF market'[k].at = "idle" THEN market'[k] = NoMarketCall
                                                     ELSE market'[k].name \in PluginNames
<1>1. market \in [MarketCalls -> MarketCallType] /\ market[m].name \in PluginNames
  BY DEF MarketTyped
<1>2. /\ market'[m] = call
      /\ \A k \in MarketCalls \ {m} : market'[k] = market[k]
      /\ market' \in [MarketCalls -> MarketCallType]
  BY <1>1
<1> QED BY <1>1, <1>2 DEF MarketTyped

LEMMA CallGoesOnInv ==
  ASSUME MarketInv, NEW m \in MarketCalls, LooksAtSource(m) \/ LooksAtTarget(m)
  PROVE  MarketInv'
<1>1. PICK a \in {"look", "write"} :
        /\ market[m].at \in {"source", "look"}
        /\ market' = [market EXCEPT ![m].at = a]
  BY DEF LooksAtSource, LooksAtTarget
<1> DEFINE call == [market[m] EXCEPT !.at = a]
<1>2. /\ call \in MarketCallType /\ call.at = a /\ call.name = market[m].name
      /\ call.content = market[m].content
      /\ market' = [market EXCEPT ![m] = call]
  BY <1>1 DEF MarketInv, MarketTyped, MarketCallType
<1> HIDE DEF call
<1>3. UNCHANGED <<shelf, trail, contents, collided, unaudited>>
  BY DEF LooksAtSource, LooksAtTarget
<1>4. /\ \A k \in MarketCalls : market'[k].name = market[k].name
      /\ \A k \in MarketCalls \ {m} : market'[k] = market[k]
      /\ market'[m].at = a
      /\ market' \in [MarketCalls -> MarketCallType]
      /\ \A k \in MarketCalls : IF market'[k].at = "idle" THEN market'[k] = NoMarketCall
                                                  ELSE market'[k].name \in PluginNames
  BY <1>1, <1>2, CallMoves DEF MarketInv
<1>5. MarketTyped'
  BY <1>3, <1>4 DEF MarketInv, MarketTyped
<1>6. OverlapsNoted'
  BY <1>1, <1>3, <1>4 DEF MarketInv, OverlapsNoted
<1>7. HoldsTheShelf' /\ TrailOrCall'
  BY <1>1, <1>3, <1>4 DEF MarketInv, HoldsTheShelf, TrailOrCall
<1> QED BY <1>5, <1>6, <1>7 DEF MarketInv

LEMMA StoresPluginInv ==
  ASSUME MarketInv, NEW m \in MarketCalls, StoresPlugin(m)
  PROVE  MarketInv'
<1> DEFINE content == IF market[m].op = "delete" THEN 0 ELSE contents + 1
<1> DEFINE call == [market[m] EXCEPT !.at = "audit", !.content = content]
<1>1. /\ contents' \in 0 .. MaxStores /\ content \in 0 .. MaxStores
      /\ market[m].at = "write"
      /\ shelf' = [shelf EXCEPT ![market[m].name] = content]
      /\ market' = [market EXCEPT ![m].at = "audit", ![m].content = content]
      /\ UNCHANGED <<trail, collided, unaudited>>
  BY StoresCounted DEF MarketInv, MarketTyped, StoresPlugin
<1> HIDE DEF content
<1>0. /\ call \in MarketCallType /\ call.at = "audit" /\ call.name = market[m].name
      /\ call.content = content
      /\ market' = [market EXCEPT ![m] = call]
  BY <1>1 DEF MarketInv, MarketTyped, MarketCallType
<1> HIDE DEF call
<1>2. /\ \A k \in MarketCalls : market'[k].name = market[k].name
      /\ \A k \in MarketCalls \ {m} : market'[k] = market[k]
      /\ market'[m].at = "audit" /\ market'[m].content = content
      /\ market[m].name \in PluginNames
      /\ market' \in [MarketCalls -> MarketCallType]
      /\ \A k \in MarketCalls : IF market'[k].at = "idle" THEN market'[k] = NoMarketCall
                                                  ELSE market'[k].name \in PluginNames
  BY <1>0, <1>1, CallMoves DEF MarketInv
<1>3. MarketTyped'
  BY <1>1, <1>2 DEF MarketInv, MarketTyped
<1>4. OverlapsNoted'
  BY <1>1, <1>2 DEF MarketInv, OverlapsNoted
<1>5. HoldsTheShelf'
  BY <1>1, <1>2 DEF MarketInv, MarketTyped, OverlapsNoted, HoldsTheShelf
<1>6. TrailOrCall'
  BY <1>1, <1>2 DEF MarketInv, MarketTyped, TrailOrCall
<1> QED BY <1>3, <1>4, <1>5, <1>6 DEF MarketInv

LEMMA MarketCallEndsInv ==
  ASSUME MarketInv, NEW m \in MarketCalls, Audits(m) \/ CallThrows(m) \/ AuditFails(m)
  PROVE  MarketInv'
<1>1. MarketTyped'
  BY StoresCounted
     DEF MarketInv, MarketTyped, MarketCallType, Audits, CallThrows, AuditFails, CallEnds, NoMarketCall
<1>2. OverlapsNoted' /\ HoldsTheShelf'
  BY DEF MarketInv, MarketTyped, MarketCallType, OverlapsNoted, HoldsTheShelf,
         Audits, CallThrows, AuditFails, CallEnds, NoMarketCall
<1>3. TrailOrCall'
  BY DEF MarketInv, MarketTyped, MarketCallType, OverlapsNoted, HoldsTheShelf, TrailOrCall,
         Audits, CallThrows, AuditFails, CallEnds, NoMarketCall
<1> QED BY <1>1, <1>2, <1>3 DEF MarketInv

LEMMA MarketInvNext == MarketInv /\ [MarketNext]_marketVars => MarketInv'
<1> SUFFICES ASSUME MarketInv, [MarketNext]_marketVars PROVE MarketInv'
  OBVIOUS
<1>1. CASE UNCHANGED marketVars
  BY <1>1 DEF marketVars, MarketInv, MarketTyped, OverlapsNoted, HoldsTheShelf, TrailOrCall
<1>2. CASE MarketNext
  BY <1>2, CallBeginsInv, CallGoesOnInv, StoresPluginInv, MarketCallEndsInv DEF MarketNext
<1> QED BY <1>1, <1>2

(* The audit trail of the marketplace (crud.ts) for any number of plugins  *)
(* and calls: when no call on a plugin is in progress, its last event      *)
(* tells what the store holds of it, unless two calls on it overlapped or  *)
(* the audit writer failed.                                                *)
THEOREM TrailTells == MarketSpec => []TrailTellsTheShelf
<1>1. MarketInv => TrailTellsTheShelf
  BY DEF MarketInv, MarketTyped, MarketCallType, TrailOrCall, TrailTellsTheShelf, MarketTypeOK,
         InProgress
<1> QED BY <1>1, MarketInvInit, MarketInvNext, PTL DEF MarketSpec

-----------------------------------------------------------------------------
(* The workbench: inits come one after the other, and only the one whose   *)
(* promise is kept opens an engine.                                        *)

InitStates ==
  {"none", "settings", "open", "missing", "refused", "registry", "done", "rejected"}

RequestType == [op : {"none", "use", "reset"}, init : 0 .. MaxInits]
StatusType == [Parts \union {"memory"} -> {"real", "demo"}]

EngineTyped ==
  /\ strict \in BOOLEAN /\ settingsSet \in BOOLEAN /\ overtaken \in BOOLEAN
  /\ engine \in 0 .. MaxInits /\ promise \in 0 .. MaxInits
  /\ part \in [Parts -> 0 .. MaxInits]
  /\ status \in StatusType
  /\ inits \in [1 .. MaxInits -> InitStates]
  /\ request \in [Requests -> RequestType]

InitsInOrder ==
  /\ promise = 0 => ~ settingsSet /\ engine = 0
  /\ promise # 0 => inits[promise] # "none" /\ (settingsSet <=> inits[promise] # "settings")
  /\ \A n \in 1 .. MaxInits : n # promise => inits[n] \in {"none", "registry", "done", "rejected"}
  /\ ~ overtaken => \A n \in 1 .. MaxInits : n # promise => inits[n] # "registry"
  /\ promise # 0 /\ inits[promise] = "registry" => engine = promise

EngineHeld ==
  /\ engine # 0 => /\ engine = promise /\ opened = {engine}
                   /\ inits[promise] \in {"registry", "done", "rejected"}
  /\ engine = 0 => opened = {n \in 1 .. MaxInits : n = promise /\ inits[n] = "open"}

PartsHeld ==
  ~ overtaken =>
    /\ \A p \in Parts : part[p] \in {0, engine}
    /\ promise # 0 /\ inits[promise] = "registry" =>
         /\ \A p \in EarlyParts : status[p] = "real" <=> part[p] # 0
         /\ part["plugins"] = 0 /\ part["marketplace"] = 0

EngineInv == EngineTyped /\ InitsInOrder /\ EngineHeld /\ PartsHeld /\ StatusTruthful

RowType(states) == [state : states, named : BOOLEAN]

SessionsInv ==
  /\ db \in [Sessions -> RowType({"none", "active", "paused", "deleted"})]
  /\ demo \in [Sessions -> RowType({"none", "active", "paused"})]
  /\ told \in [Sessions -> {"no", "db", "demo"}]
  /\ \A s \in Sessions : demo[s] # NoRow => told[s] = "demo"
  /\ SessionsKept

engineVars == <<strict, globals, inits, opened, request>>

LEMMA EarlyIsEarly == EarlyParts \subseteq {"observer", "detector", "skillGenesis", "promoter"}
BY WorkbenchParameters, ElementOfSeq DEF EarlyParts

LEMMA LateParts ==
  /\ "plugins" \notin EarlyParts /\ "marketplace" \notin EarlyParts /\ "memory" \notin Parts
  /\ "plugins" \in Parts /\ "marketplace" \in Parts /\ EarlyParts \subseteq Parts
BY EarlyIsEarly DEF Parts

LEMMA PartsWith ==
  ASSUME NEW f \in [Parts -> 0 .. MaxInits], NEW S, NEW n \in 1 .. MaxInits
  PROVE  /\ With(f, S, n) \in [Parts -> 0 .. MaxInits]
         /\ \A p \in Parts : With(f, S, n)[p] = IF p \in S THEN n ELSE f[p]
BY WorkbenchParameters DEF With

LEMMA StatusWith ==
  ASSUME NEW f \in StatusType, NEW S, NEW v \in {"real", "demo"}
  PROVE  /\ With(f, S, v) \in StatusType
         /\ \A p \in Parts : With(f, S, v)[p] = IF p \in S THEN v ELSE f[p]
BY DEF With, StatusType

LEMMA AllStatusTyped == ASSUME NEW s \in {"real", "demo"} PROVE AllStatus(s) \in StatusType
BY DEF AllStatus, StatusType

(* A process that starts has no engine and no init. *)
LEMMA FreshInv ==
  ASSUME FreshServer, strict' \in BOOLEAN
  PROVE  EngineInv'
<1>1. EngineTyped'
  <2>1. 0 \in 0 .. MaxInits /\ NoRequest \in RequestType /\ AllStatus("real") \in StatusType
    BY WorkbenchParameters, AllStatusTyped DEF NoRequest, RequestType
  <2>2. NoParts \in [Parts -> 0 .. MaxInits] /\ NoInits \in [1 .. MaxInits -> InitStates]
    BY <2>1 DEF NoParts, NoInits, InitStates
  <2> QED BY <2>1, <2>2 DEF FreshServer, EngineTyped
<1>2. InitsInOrder' /\ EngineHeld' /\ PartsHeld' /\ StatusTruthful'
  BY LateParts
     DEF FreshServer, InitsInOrder, EngineHeld, PartsHeld, StatusTruthful, NoParts, NoInits
<1> QED BY <1>1, <1>2 DEF EngineInv

LEMMA EngineInvInit == WbInit => EngineInv
<1> SUFFICES ASSUME WbInit PROVE EngineInv
  OBVIOUS
<1>1. EngineTyped
  <2>1. 0 \in 0 .. MaxInits /\ NoRequest \in RequestType /\ AllStatus("real") \in StatusType
    BY WorkbenchParameters, AllStatusTyped DEF NoRequest, RequestType
  <2>2. NoParts \in [Parts -> 0 .. MaxInits] /\ NoInits \in [1 .. MaxInits -> InitStates]
    BY <2>1 DEF NoParts, NoInits, InitStates
  <2> QED BY <2>1, <2>2 DEF WbInit, EngineTyped
<1>2. InitsInOrder /\ EngineHeld /\ PartsHeld /\ StatusTruthful
  BY LateParts
     DEF WbInit, InitsInOrder, EngineHeld, PartsHeld, StatusTruthful, NoParts, NoInits
<1> QED BY <1>1, <1>2 DEF EngineInv

LEMMA EnsureInitInv ==
  ASSUME EngineInv, NEW c \in Requests, NEW op \in {"use", "reset"}, EnsureInit(c, op)
  PROVE  EngineInv'
<1>1. CASE settingsSet \/ promise # 0
  <2>1. UNCHANGED <<strict, globals, inits, opened>>
    BY <1>1 DEF EnsureInit, globals
  <2>2. [op |-> op, init |-> IF settingsSet THEN 0 ELSE promise] \in RequestType
    BY WorkbenchParameters DEF EngineInv, EngineTyped, RequestType
  <2>3. request' \in [Requests -> RequestType]
    BY <1>1, <2>2 DEF EnsureInit, EngineInv, EngineTyped
  <2> QED BY <2>1, <2>3
    DEF EngineInv, EngineTyped, InitsInOrder, EngineHeld, PartsHeld, StatusTruthful, globals
<1>2. CASE ~ settingsSet /\ promise = 0
  <2>1. PICK n \in 1 .. MaxInits :
          /\ inits[n] = "none"
          /\ inits' = [inits EXCEPT ![n] = "settings"]
          /\ promise' = n
          /\ request' = [request EXCEPT ![c] = [op |-> op, init |-> n]]
    BY <1>2 DEF EnsureInit, StartsInit
  <2>2. UNCHANGED <<strict, settingsSet, engine, part, status, overtaken, opened>>
    BY DEF EnsureInit
  <2>3. EngineTyped'
    BY <2>1, <2>2, WorkbenchParameters DEF EngineInv, EngineTyped, RequestType, InitStates
  <2>4. InitsInOrder'
    BY <1>2, <2>1, <2>2, WorkbenchParameters DEF EngineInv, EngineTyped, InitsInOrder
  <2>5. EngineHeld'
    BY <1>2, <2>1, <2>2, WorkbenchParameters DEF EngineInv, EngineTyped, InitsInOrder, EngineHeld
  <2>6. PartsHeld' /\ StatusTruthful'
    BY <2>1, <2>2 DEF EngineInv, EngineTyped, PartsHeld, StatusTruthful
  <2> QED BY <2>3, <2>4, <2>5, <2>6 DEF EngineInv
<1> QED BY <1>1, <1>2

(* The init that has not opened its engine is the one of the promise.      *)
LEMMA OwnPromise ==
  ASSUME EngineInv, NEW n \in 1 .. MaxInits,
         inits[n] \in {"settings", "open", "missing", "refused"}
  PROVE  /\ n = promise /\ promise # 0 /\ engine = 0
         /\ opened = IF inits[n] = "open" THEN {n} ELSE {}
BY SMTT(30), WorkbenchParameters DEF EngineInv, EngineTyped, InitsInOrder, EngineHeld

LEMMA InitOpensInv ==
  ASSUME EngineInv, NEW n \in 1 .. MaxInits, InitOpens(n)
  PROVE  EngineInv'
<1>1. PICK to \in {"open", "missing", "refused"} :
        /\ inits' = [inits EXCEPT ![n] = to]
        /\ opened' = IF to = "open" THEN opened \union {n} ELSE opened
        /\ settingsSet' = TRUE
  BY DEF InitOpens
<1>2. UNCHANGED <<strict, engine, part, status, promise, overtaken, request>>
  BY DEF InitOpens
<1>3. n = promise /\ promise # 0 /\ engine = 0 /\ opened = {}
  BY OwnPromise DEF InitOpens
<1>4. EngineTyped'
  BY <1>1, <1>2 DEF EngineInv, EngineTyped, InitStates
<1>5. InitsInOrder' /\ PartsHeld' /\ StatusTruthful'
  BY <1>1, <1>2, <1>3 DEF EngineInv, EngineTyped, InitsInOrder, PartsHeld, StatusTruthful
<1>6. EngineHeld'
  BY <1>1, <1>2, <1>3 DEF EngineInv, EngineTyped, EngineHeld
<1> QED BY <1>4, <1>5, <1>6 DEF EngineInv

LEMMA InitNotOpenedInv ==
  ASSUME EngineInv, NEW n \in 1 .. MaxInits, InitNotOpened(n)
  PROVE  EngineInv'
<1>1. PICK to \in {"done", "rejected"} :
        /\ inits' = [inits EXCEPT ![n] = to]
        /\ to = "done" => status' = AllStatus("demo")
        /\ status' \in {status, AllStatus("demo")}
  BY DEF InitNotOpened, Caught
<1>2. UNCHANGED <<strict, settingsSet, engine, part, promise, overtaken, opened, request>>
  BY DEF InitNotOpened
<1>3. n = promise /\ promise # 0 /\ engine = 0 /\ opened = {} /\ inits[n] \in {"missing", "refused"}
  BY OwnPromise DEF InitNotOpened
<1>4. EngineTyped'
  BY <1>1, <1>2, AllStatusTyped DEF EngineInv, EngineTyped, InitStates
<1>5. InitsInOrder' /\ EngineHeld'
  BY <1>1, <1>2, <1>3 DEF EngineInv, EngineTyped, InitsInOrder, EngineHeld
<1>6. PartsHeld'
  BY <1>1, <1>2, <1>3 DEF EngineInv, EngineTyped, PartsHeld
<1>7. StatusTruthful'
  BY <1>1, <1>2, <1>3 DEF EngineInv, EngineTyped, PartsHeld, StatusTruthful, AllStatus
<1> QED BY <1>4, <1>5, <1>6, <1>7 DEF EngineInv

(* However init ends after it opened the engine, the engine is its own.    *)
LEMMA MigratesInOrder ==
  ASSUME EngineInv, NEW n \in 1 .. MaxInits, inits[n] = "open", engine' = n,
         NEW to \in {"registry", "done", "rejected"}, inits' = [inits EXCEPT ![n] = to],
         UNCHANGED <<settingsSet, promise, overtaken, opened>>
  PROVE  InitsInOrder' /\ EngineHeld'
<1>1. n = promise /\ promise # 0 /\ engine = 0 /\ opened = {n}
  BY OwnPromise
<1> QED BY <1>1 DEF EngineInv, EngineTyped, InitsInOrder, EngineHeld

LEMMA InitMigratesInv ==
  ASSUME EngineInv, NEW n \in 1 .. MaxInits, InitMigrates(n)
  PROVE  EngineInv'
<1> DEFINE opening == [status EXCEPT !["memory"] = "real"]
<1>1. /\ engine' = n /\ inits[n] = "open"
      /\ UNCHANGED <<strict, settingsSet, promise, overtaken, opened, request>>
      /\ opening \in StatusType
  BY DEF InitMigrates, EngineInv, EngineTyped, StatusType
<1> HIDE DEF opening
<1>2. n = promise /\ promise # 0 /\ engine = 0 /\ n # 0
  BY <1>1, OwnPromise
<1>3. ~ overtaken => \A p \in Parts : part[p] = 0
  BY <1>2 DEF EngineInv, PartsHeld
<1>4. CASE Caught(n, opening, TRUE) /\ UNCHANGED part
  <2>1. PICK to \in {"done", "rejected"} :
          /\ inits' = [inits EXCEPT ![n] = to]
          /\ to = "done" => status' = AllStatus("demo")
          /\ status' \in {opening, AllStatus("demo")}
    BY <1>4 DEF Caught
  <2>2. EngineTyped'
    BY <1>1, <1>4, <2>1, AllStatusTyped DEF EngineInv, EngineTyped, InitStates
  <2>3. InitsInOrder' /\ EngineHeld'
    BY <1>1, <2>1, MigratesInOrder
  <2>4. PartsHeld' /\ StatusTruthful'
    BY <1>1, <1>2, <1>3, <1>4, <2>1 DEF EngineInv, EngineTyped, PartsHeld, StatusTruthful, AllStatus
  <2> QED BY <2>2, <2>3, <2>4 DEF EngineInv
<1>5. ASSUME NEW failed \in SUBSET EarlyParts,
             part' = With(part, EarlyParts \ failed, n),
             status' = With(With(opening, EarlyParts, "real"), failed, "demo"),
             inits' = [inits EXCEPT ![n] = "registry"]
      PROVE  EngineInv'
  <2>1. /\ part' \in [Parts -> 0 .. MaxInits]
        /\ \A p \in Parts : part'[p] = IF p \in EarlyParts \ failed THEN n ELSE part[p]
    BY <1>5, PartsWith DEF EngineInv, EngineTyped
  <2>2. /\ status' \in StatusType
        /\ \A p \in EarlyParts : status'[p] = IF p \in failed THEN "demo" ELSE "real"
    <3> DEFINE early == With(opening, EarlyParts, "real")
    <3>1. early \in StatusType /\ \A p \in EarlyParts : early[p] = "real"
      BY <1>1, StatusWith, LateParts
    <3>2. status' = With(early, failed, "demo")
      BY <1>5
    <3> HIDE DEF early
    <3> QED BY <3>1, <3>2, StatusWith, LateParts
  <2>3. EngineTyped'
    <3>1. inits' \in [1 .. MaxInits -> InitStates] /\ n \in 0 .. MaxInits
      BY <1>5, WorkbenchParameters DEF EngineInv, EngineTyped, InitStates
    <3> QED BY <1>1, <2>1, <2>2, <3>1 DEF EngineInv, EngineTyped
  <2>4. InitsInOrder' /\ EngineHeld'
    BY <1>1, <1>5, MigratesInOrder
  <2>5. inits'[promise] = "registry" /\ engine' = promise
    BY <1>1, <1>2, <1>5 DEF EngineInv, EngineTyped
  <2>6. PartsHeld'
    BY <1>1, <1>2, <1>3, <2>1, <2>2, LateParts DEF PartsHeld
  <2>7. StatusTruthful'
    BY <1>1, <2>5 DEF StatusTruthful
  <2> QED BY <2>3, <2>4, <2>6, <2>7 DEF EngineInv
<1>6. ASSUME NEW i \in DOMAIN Early, strict,
             NEW before \in SUBSET EarlyParts,
             part' = With(part, before, n),
             Caught(n, With(With(opening, before, "real"), {Early[i]}, "demo"), TRUE)
      PROVE  EngineInv'
  <2>1. /\ part' \in [Parts -> 0 .. MaxInits]
        /\ \A p \in Parts : part'[p] = IF p \in before THEN n ELSE part[p]
    BY <1>6, PartsWith DEF EngineInv, EngineTyped
  <2>2. /\ status' \in StatusType
        /\ inits' = [inits EXCEPT ![n] = "rejected"]
    <3>1. With(opening, before, "real") \in StatusType
      BY <1>1, StatusWith
    <3> QED BY <1>6, <3>1, StatusWith DEF Caught
  <2>3. EngineTyped'
    BY <1>1, <2>1, <2>2, WorkbenchParameters DEF EngineInv, EngineTyped, InitStates
  <2>4. InitsInOrder' /\ EngineHeld'
    BY <1>1, <2>2, MigratesInOrder
  <2>5. inits'[promise] = "rejected"
    BY <1>2, <2>2 DEF EngineInv, EngineTyped
  <2>6. PartsHeld' /\ StatusTruthful'
    BY <1>1, <1>3, <2>1, <2>5 DEF PartsHeld, StatusTruthful
  <2> QED BY <2>3, <2>4, <2>6 DEF EngineInv
<1>7. \A i \in DOMAIN Early : {Early[j] : j \in 1 .. i - 1} \subseteq EarlyParts
  BY WorkbenchParameters DEF EarlyParts
<1>8. \/ Caught(n, opening, TRUE) /\ UNCHANGED part
      \/ \E failed \in SUBSET EarlyParts :
           /\ part' = With(part, EarlyParts \ failed, n)
           /\ status' = With(With(opening, EarlyParts, "real"), failed, "demo")
           /\ inits' = [inits EXCEPT ![n] = "registry"]
      \/ \E i \in DOMAIN Early, before \in SUBSET EarlyParts :
           /\ strict /\ part' = With(part, before, n)
           /\ Caught(n, With(With(opening, before, "real"), {Early[i]}, "demo"), TRUE)
  BY <1>7 DEF InitMigrates, opening
<1> QED BY <1>4, <1>5, <1>6, <1>8

(* A finished init leaves the others and the engine as they are.           *)
LEMMA EndsInOrder ==
  ASSUME EngineInv, NEW n \in 1 .. MaxInits, inits[n] = "registry",
         NEW to \in {"done", "rejected"}, inits' = [inits EXCEPT ![n] = to],
         UNCHANGED <<settingsSet, engine, promise, overtaken, opened>>
  PROVE  InitsInOrder' /\ EngineHeld'
BY DEF EngineInv, EngineTyped, InitsInOrder, EngineHeld

LEMMA InitEndsInv ==
  ASSUME EngineInv, NEW n \in 1 .. MaxInits, InitEnds(n)
  PROVE  EngineInv'
<1>1. /\ inits[n] = "registry"
      /\ UNCHANGED <<strict, settingsSet, engine, promise, overtaken, opened, request>>
  BY DEF InitEnds
<1>2. ~ overtaken => /\ n = promise /\ engine = n /\ n # 0
                     /\ \A p \in EarlyParts : part[p] \in {0, n} /\ (status[p] = "real" <=> part[p] # 0)
                     /\ part["plugins"] = 0 /\ part["marketplace"] = 0
  BY <1>1, LateParts, WorkbenchParameters DEF EngineInv, EngineTyped, InitsInOrder, PartsHeld
<1> DEFINE late == {"plugins", "marketplace"}
<1>3. ASSUME NEW failed \in SUBSET late,
             part' = With(part, late \ failed, n),
             status' = With(With(status, late, "real"), failed, "demo"),
             inits' = [inits EXCEPT ![n] = "done"]
      PROVE  EngineInv'
  <2>1. /\ part' \in [Parts -> 0 .. MaxInits]
        /\ \A p \in Parts : part'[p] = IF p \in late \ failed THEN n ELSE part[p]
    BY <1>3, PartsWith DEF EngineInv, EngineTyped
  <2>2. /\ status' \in StatusType
        /\ \A p \in Parts : status'[p] = IF p \in failed THEN "demo"
                                         ELSE IF p \in late THEN "real" ELSE status[p]
    <3>1. /\ With(status, late, "real") \in StatusType
          /\ \A p \in Parts : With(status, late, "real")[p] = IF p \in late THEN "real" ELSE status[p]
      BY StatusWith DEF EngineInv, EngineTyped
    <3> QED BY <1>3, <3>1, StatusWith
  <2>3. EngineTyped'
    BY <1>1, <1>3, <2>1, <2>2 DEF EngineInv, EngineTyped, InitStates
  <2>4. InitsInOrder' /\ EngineHeld'
    BY <1>1, <1>3, EndsInOrder
  <2>5. inits'[n] = "done"
    BY <1>3 DEF EngineInv, EngineTyped
  <2>6. PartsHeld'
    BY <1>1, <1>2, <2>1, <2>5 DEF EngineInv, PartsHeld
  <2>7. StatusTruthful'
    <3> SUFFICES ASSUME ~ overtaken' PROVE StatusTruthful'
      BY DEF StatusTruthful
    <3>1. n = promise /\ engine' = n /\ n # 0
      BY <1>1, <1>2
    <3>2. ASSUME NEW p \in EarlyParts PROVE status'[p] = "real" <=> part'[p] # 0
      BY <1>1, <1>2, <2>1, <2>2, LateParts
    <3>3. ASSUME NEW p \in late PROVE status'[p] = "real" <=> part'[p] # 0
      BY <1>1, <1>2, <2>1, <2>2, <3>1, LateParts
    <3> QED BY <3>1, <3>2, <3>3 DEF StatusTruthful, Parts
  <2> QED BY <2>3, <2>4, <2>6, <2>7 DEF EngineInv
<1>4. ASSUME NEW there \in SUBSET {"plugins"}, NEW last \in late, strict,
             part' = With(part, there, n),
             Caught(n, [With(status, there, "real") EXCEPT ![last] = "demo"], TRUE)
      PROVE  EngineInv'
  <2>1. /\ part' \in [Parts -> 0 .. MaxInits]
        /\ \A p \in Parts : part'[p] = IF p \in there THEN n ELSE part[p]
    BY <1>4, PartsWith DEF EngineInv, EngineTyped
  <2>2. /\ status' \in StatusType
        /\ inits' = [inits EXCEPT ![n] = "rejected"]
    <3>1. With(status, there, "real") \in StatusType
      BY StatusWith DEF EngineInv, EngineTyped
    <3> QED BY <1>4, <3>1 DEF StatusType, Caught
  <2>3. EngineTyped'
    BY <1>1, <2>1, <2>2 DEF EngineInv, EngineTyped, InitStates
  <2>4. InitsInOrder' /\ EngineHeld'
    BY <1>1, <2>2, EndsInOrder
  <2>5. inits'[n] = "rejected"
    BY <2>2 DEF EngineInv, EngineTyped
  <2>6. PartsHeld' /\ StatusTruthful'
    BY <1>1, <1>2, <2>1, <2>5 DEF EngineInv, PartsHeld, StatusTruthful
  <2> QED BY <2>3, <2>4, <2>6 DEF EngineInv
<1>5. \/ \E failed \in SUBSET late :
           /\ part' = With(part, late \ failed, n)
           /\ status' = With(With(status, late, "real"), failed, "demo")
           /\ inits' = [inits EXCEPT ![n] = "done"]
      \/ \E there \in SUBSET {"plugins"}, last \in late :
           /\ strict /\ part' = With(part, there, n)
           /\ Caught(n, [With(status, there, "real") EXCEPT ![last] = "demo"], TRUE)
  BY DEF InitEnds
<1> QED BY <1>3, <1>4, <1>5

LEMMA ResetInv ==
  ASSUME EngineInv, NEW c \in Requests, Reset(c)
  PROVE  EngineInv'
<1>1. UNCHANGED <<strict, inits>> /\ request' \in [Requests -> RequestType]
  BY WorkbenchParameters DEF Reset, EngineInv, EngineTyped, RequestType, NoRequest
<1>2. CASE UNCHANGED <<globals, opened>>
  BY <1>1, <1>2 DEF EngineInv, EngineTyped, InitsInOrder, EngineHeld, PartsHeld, StatusTruthful, globals
<1>3. CASE /\ engine # 0 /\ opened' = opened \ {engine}
           /\ settingsSet' = FALSE /\ engine' = 0 /\ part' = NoParts /\ promise' = 0
           /\ overtaken' = (overtaken \/ Unfinished # {}) /\ UNCHANGED status
  <2>1. EngineTyped'
    <3>1. 0 \in 0 .. MaxInits /\ NoParts \in [Parts -> 0 .. MaxInits]
      BY WorkbenchParameters DEF NoParts
    <3>2. overtaken' \in BOOLEAN
      BY <1>3
    <3> QED BY <1>1, <1>3, <3>1, <3>2 DEF EngineInv, EngineTyped
  <2>2. InitsInOrder'
    BY <1>1, <1>3 DEF EngineInv, EngineTyped, InitsInOrder, EngineHeld, Unfinished, Started, InitStates
  <2>3. EngineHeld' /\ PartsHeld' /\ StatusTruthful'
    BY <1>1, <1>3 DEF EngineInv, EngineHeld, PartsHeld, StatusTruthful, NoParts
  <2> QED BY <2>1, <2>2, <2>3 DEF EngineInv
<1> QED BY <1>2, <1>3 DEF Reset

LEMMA EngineInvNext ==
  ASSUME EngineInv, SessionsInv, [WbNext]_wbVars
  PROVE  EngineInv'
<1>1. CASE Restart
  BY <1>1, FreshInv DEF Restart, EngineInv, EngineTyped
<1>2. CASE \E c \in Requests : Served(c)
  <2>1. UNCHANGED <<strict, globals, inits, opened>> /\ request' \in [Requests -> RequestType]
    BY <1>2, WorkbenchParameters DEF Served, EngineInv, EngineTyped, RequestType, NoRequest
  <2> QED BY <2>1
    DEF EngineInv, EngineTyped, InitsInOrder, EngineHeld, PartsHeld, StatusTruthful, globals
<1>3. CASE UNCHANGED engineVars
  BY <1>3
  DEF engineVars, EngineInv, EngineTyped, InitsInOrder, EngineHeld, PartsHeld, StatusTruthful, globals
<1>4. CASE \E s \in Sessions : SessionRequest(s)
  <2>1. UNCHANGED engineVars
    BY <1>4 DEF engineVars, SessionRequest, CreateSession, PauseSession, ResumeSession, AbortSession,
                Moves
  <2> QED BY <2>1, <1>3
<1>5. CASE UNCHANGED wbVars
  BY <1>3, <1>5 DEF engineVars, wbVars
<1> QED
  BY <1>1, <1>2, <1>4, <1>5, EnsureInitInv, InitOpensInv, InitNotOpenedInv, InitMigratesInv,
     InitEndsInv, ResetInv
  DEF WbNext

-----------------------------------------------------------------------------
LEMMA SessionsInvInit == WbInit => SessionsInv
BY DEF WbInit, SessionsInv, SessionsKept, RowType, NoSession, NoRow

LEMMA CreateSessionInv ==
  ASSUME SessionsInv, NEW s \in Sessions, CreateSession(s)
  PROVE  SessionsInv'
<1>1. told[s] = "no" /\ s \notin ended /\ UNCHANGED ended
  BY DEF CreateSession, NotCreated
<1>2. ASSUME NEW named \in BOOLEAN,
             db' = [db EXCEPT ![s] = [state |-> "active", named |-> named]],
             told' = [told EXCEPT ![s] = IF named THEN "db" ELSE "no"],
             UNCHANGED demo
      PROVE  SessionsInv'
  <2>1. db' \in [Sessions -> RowType({"none", "active", "paused", "deleted"})]
    BY <1>2 DEF SessionsInv, RowType
  <2>2. /\ told' \in [Sessions -> {"no", "db", "demo"}]
        /\ \A t \in Sessions : demo'[t] # NoRow => told'[t] = "demo"
    BY <1>1, <1>2 DEF SessionsInv
  <2>3. SessionsKept'
    BY <1>1, <1>2 DEF SessionsInv, SessionsKept
  <2> QED BY <1>2, <2>1, <2>2, <2>3 DEF SessionsInv
<1>3. CASE /\ demo' = [demo EXCEPT ![s] = [state |-> "active", named |-> TRUE]]
           /\ told' = [told EXCEPT ![s] = "demo"]
           /\ UNCHANGED db
  <2>1. /\ demo' \in [Sessions -> RowType({"none", "active", "paused"})]
        /\ told' \in [Sessions -> {"no", "db", "demo"}]
    BY <1>3 DEF SessionsInv, RowType
  <2>2. /\ \A t \in Sessions : demo'[t] # NoRow => told'[t] = "demo"
        /\ SessionsKept'
    BY <1>1, <1>3 DEF SessionsInv, SessionsKept
  <2> QED BY <1>3, <2>1, <2>2 DEF SessionsInv
<1> QED BY <1>2, <1>3 DEF CreateSession

LEMMA MovesFacts ==
  ASSUME SessionsInv, NEW s \in Sessions,
         NEW from \in {"active", "paused", "deleted"},
         NEW to \in {"none", "active", "paused", "deleted"},
         to = "deleted" => engine # 0, Moves(s, from, to)
  PROVE  /\ db' \in [Sessions -> RowType({"none", "active", "paused", "deleted"})]
         /\ demo' \in [Sessions -> RowType({"none", "active", "paused"})]
         /\ UNCHANGED told
         /\ \A t \in Sessions : demo'[t] # NoRow => told[t] = "demo"
         /\ \A t \in Sessions \ {s} : db'[t] = db[t]
         /\ db'[s].named = db[s].named
         /\ \/ db[s].state = from /\ db'[s].state = to
            \/ db'[s] = db[s] /\ told[s] = "demo"
<1>1. CASE engine # 0
  <2>1. db' = [db EXCEPT ![s].state = to] /\ UNCHANGED <<demo, told>> /\ db[s].state = from
    BY <1>1 DEF Moves
  <2> QED BY <2>1 DEF SessionsInv, RowType
<1>2. CASE engine = 0
  <2>1. demo' = [demo EXCEPT ![s].state = to] /\ UNCHANGED <<db, told>> /\ demo[s].state = from
    BY <1>2 DEF Moves
  <2>2. demo[s] # NoRow
    BY <2>1 DEF NoRow
  <2> QED BY <1>2, <2>1, <2>2 DEF SessionsInv, RowType
<1> QED BY <1>1, <1>2

LEMMA SessionRequestInv ==
  ASSUME SessionsInv, NEW s \in Sessions, SessionRequest(s)
  PROVE  SessionsInv'
<1>1. ASSUME NEW from \in {"active", "paused"}, NEW to \in {"active", "paused"},
             Moves(s, from, to), UNCHANGED ended
      PROVE  SessionsInv'
  <2>1. /\ db' \in [Sessions -> RowType({"none", "active", "paused", "deleted"})]
        /\ demo' \in [Sessions -> RowType({"none", "active", "paused"})]
        /\ UNCHANGED told
        /\ \A t \in Sessions : demo'[t] # NoRow => told[t] = "demo"
        /\ \A t \in Sessions \ {s} : db'[t] = db[t]
        /\ db'[s].named = db[s].named
        /\ \/ db[s].state = from /\ db'[s].state = to
           \/ db'[s] = db[s]
    BY <1>1, MovesFacts
  <2>2. SessionsKept'
    BY <1>1, <2>1 DEF SessionsInv, SessionsKept
  <2> QED BY <2>1, <2>2 DEF SessionsInv
<1>2. CASE AbortSession(s)
  <2>1. PICK from \in {"active", "paused", "deleted"} :
          Moves(s, from, IF engine # 0 THEN "deleted" ELSE "none")
    BY <1>2 DEF AbortSession
  <2>2. ended' = ended \union {s}
    BY <1>2 DEF AbortSession
  <2> DEFINE to == IF engine # 0 THEN "deleted" ELSE "none"
  <2>3. /\ db' \in [Sessions -> RowType({"none", "active", "paused", "deleted"})]
        /\ demo' \in [Sessions -> RowType({"none", "active", "paused"})]
        /\ UNCHANGED told
        /\ \A t \in Sessions : demo'[t] # NoRow => told[t] = "demo"
        /\ \A t \in Sessions \ {s} : db'[t] = db[t]
        /\ \/ db'[s].state \in {"deleted", "none"}
           \/ told[s] = "demo"
    BY <2>1, MovesFacts
  <2>4. SessionsKept'
    BY <2>2, <2>3 DEF SessionsInv, SessionsKept
  <2> QED BY <2>3, <2>4 DEF SessionsInv
<1> QED BY <1>1, <1>2, CreateSessionInv DEF SessionRequest, PauseSession, ResumeSession

LEMMA SessionsResetInv ==
  ASSUME SessionsInv, NEW c \in Requests, Reset(c)
  PROVE  SessionsInv'
<1>1. CASE UNCHANGED sessionVars
  BY <1>1 DEF sessionVars, SessionsInv, SessionsKept
<1>2. CASE /\ db' = NoSession
           /\ ended' = ended \union {s \in Sessions : db[s] # NoRow}
           /\ UNCHANGED <<demo, told>>
  <2>1. db' \in [Sessions -> RowType({"none", "active", "paused", "deleted"})]
    BY <1>2 DEF NoSession, NoRow, RowType
  <2>2. SessionsKept'
    BY <1>2 DEF SessionsInv, SessionsKept, NoSession, NoRow
  <2> QED BY <1>2, <2>1, <2>2 DEF SessionsInv
<1>3. CASE /\ demo' = NoSession
           /\ ended' = ended \union {s \in Sessions : demo[s] # NoRow}
           /\ UNCHANGED <<db, told>>
  <2>1. demo' \in [Sessions -> RowType({"none", "active", "paused"})]
    BY <1>3 DEF NoSession, NoRow, RowType
  <2>2. SessionsKept' /\ \A s \in Sessions : demo'[s] # NoRow => told'[s] = "demo"
    BY <1>3 DEF SessionsInv, SessionsKept, NoSession
  <2> QED BY <1>3, <2>1, <2>2 DEF SessionsInv
<1> QED BY <1>1, <1>2, <1>3 DEF Reset, sessionVars

LEMMA SessionsInvNext ==
  ASSUME SessionsInv, [WbNext]_wbVars
  PROVE  SessionsInv'
<1>1. CASE Restart
  <2>1. demo' = NoSession /\ UNCHANGED <<db, told, ended>>
    BY <1>1 DEF Restart, FreshServer
  <2> QED BY <2>1 DEF SessionsInv, SessionsKept, NoSession, NoRow, RowType
<1>2. CASE UNCHANGED sessionVars
  BY <1>2 DEF sessionVars, SessionsInv, SessionsKept
<1>3. CASE \/ \E c \in Requests, op \in {"use", "reset"} : EnsureInit(c, op)
           \/ \E n \in 1 .. MaxInits : \/ InitOpens(n) \/ InitNotOpened(n)
                                       \/ InitMigrates(n) \/ InitEnds(n)
           \/ \E c \in Requests : Served(c)
           \/ UNCHANGED wbVars
  <2>1. UNCHANGED sessionVars
    BY <1>3 DEF EnsureInit, InitOpens, InitNotOpened, InitMigrates, InitEnds, Served, wbVars
  <2> QED BY <1>2, <2>1
<1> QED BY <1>1, <1>3, SessionRequestInv, SessionsResetInv DEF WbNext

(* The workbench's server for any parts, requests and inits: over failures *)
(* to open, resets and restarts one engine at most is open and it is the   *)
(* one in use, the statuses tell which parts are there, and a session that *)
(* was answered for from the database stays until it is aborted or reset.  *)
THEOREM WorkbenchIsHeld == WbSpec => []WorkbenchHolds
<1>1. WbInit => EngineInv /\ SessionsInv
  BY EngineInvInit, SessionsInvInit
<1>2. EngineInv /\ SessionsInv /\ [WbNext]_wbVars => EngineInv' /\ SessionsInv'
  BY EngineInvNext, SessionsInvNext
<1>3. EngineInv /\ SessionsInv => WorkbenchHolds
  <2> SUFFICES ASSUME EngineInv, SessionsInv PROVE WorkbenchHolds
    OBVIOUS
  <2>1. Cardinality(opened) <= 1
    <3>1. opened = {} \/ \E n : opened = {n}
      <4>1. CASE engine # 0
        BY <4>1 DEF EngineInv, EngineHeld
      <4>2. CASE engine = 0
        BY <4>2 DEF EngineInv, EngineHeld
      <4> QED BY <4>1, <4>2
    <3>2. ASSUME NEW n, opened = {n} PROVE Cardinality(opened) = 1
      BY <3>2, FS_Singleton
    <3>3. ASSUME opened = {} PROVE Cardinality(opened) = 0
      BY <3>3, FS_EmptySet
    <3> QED BY <3>1, <3>2, <3>3
  <2>2. OneEngine
    BY <2>1 DEF OneEngine, EngineInv, EngineHeld, PartsHeld
  <2>3. opened \subseteq Started
    BY WorkbenchParameters DEF EngineInv, EngineTyped, EngineHeld, Started
  <2>4. WbTypeOK
    BY <2>3 DEF WbTypeOK, EngineInv, EngineTyped, StatusType, RequestType, SessionsInv, RowType
  <2> QED BY <2>2, <2>4 DEF WorkbenchHolds, EngineInv, SessionsInv
<1> QED BY <1>1, <1>2, <1>3, PTL DEF WbSpec
-----------------------------------------------------------------------------
(* The learning loop: what is promoted has a skill, what is verified has   *)
(* passed on both parts.                                                   *)

CandidateType ==
  [status : {"none", "detected", "reviewed", "promoted", "rejected", "deferred"},
   at : 0 .. MaxHours, samples : SUBSET (1 .. MaxObserved)]

ReviewType == [at : {"idle", "decide", "mark"}, action : Actions \union {"none"}]

VerifyingType ==
  [at : {"idle", "replay", "cross"}, left : SUBSET Int, holdout : SUBSET Int,
   matched : Nat, total : Nat, replayed : Nat]

VerdictType ==
  [status : {"unverified", "replay_tested", "verified"}, replayed : Nat, crossed : Nat]

LearnTyped ==
  /\ observed \in 0 .. MaxObserved /\ hour \in 0 .. MaxHours
  /\ candidate \in CandidateType
  /\ review \in [Reviews -> ReviewType]
  /\ \A r \in Reviews : review[r].at = "decide" => review[r].action \in Actions
  /\ reviews \in 0 .. MaxReviews
  /\ skill \subseteq 1 .. MaxObserved
  /\ generated \in 0 .. GenerationCap

(* A candidate that is there has samples, and its skill has them.          *)
SkillBehind ==
  /\ candidate.status # "none" => candidate.samples # {}
  /\ candidate.status = "promoted" => skill # {}
  /\ \A r \in Reviews : /\ review[r].at # "idle" => candidate.status # "none"
                        /\ review[r].at = "mark" => skill # {}

VerificationTyped ==
  /\ verifying \in VerifyingType /\ verdict \in VerdictType
  /\ verifying.at = "cross" => verifying.replayed > 0

LearnInv ==
  LearnTyped /\ SkillBehind /\ SetAsideForItsCooldown /\ VerificationTyped /\ VerifiedOnBothParts

candidateVars == <<observed, candidate, review, reviews, skill, generated, hour, lapsed>>

LEMMA LearnInvInit == LearnInit => LearnInv
<1> SUFFICES ASSUME LearnInit PROVE LearnInv
  OBVIOUS
<1>1. LearnTyped
  BY LearningParameters
     DEF LearnInit, LearnTyped, CandidateType, NoCandidate, ReviewType, NoReview
<1>2. SkillBehind /\ SetAsideForItsCooldown
  BY DEF LearnInit, SkillBehind, SetAsideForItsCooldown, NoCandidate, NoReview
<1>3. VerificationTyped /\ VerifiedOnBothParts
  BY DEF LearnInit, VerificationTyped, VerifiedOnBothParts, VerifyingType, VerdictType, NotVerifying,
         NoVerdict
<1> QED BY <1>1, <1>2, <1>3 DEF LearnInv

(* Steps of the candidate and its reviews. *)
LEMMA DetectInv ==
  ASSUME LearnInv, DetectPattern
  PROVE  LearnTyped' /\ SkillBehind' /\ SetAsideForItsCooldown'
<1>1. PICK samples \in SUBSET (1 .. observed) :
        Cardinality(samples) \in 1 .. MaxSamples /\ Upsert(samples)
  BY DEF DetectPattern
<1>2. samples # {} /\ samples \subseteq 1 .. MaxObserved
  BY <1>1, FS_EmptySet, LearningParameters DEF LearnInv, LearnTyped
<1>3. UNCHANGED <<observed, review, reviews, skill, generated, hour>>
  BY DEF DetectPattern
<1>4. PICK outcome \in {"detected", "reviewed", "promoted"} :
        /\ candidate' = [candidate EXCEPT !.samples = samples, !.status = outcome]
        /\ outcome = "promoted" => candidate.status = "promoted"
  BY <1>1 DEF Upsert, SetAside, LearnInv, LearnTyped, CandidateType
<1>5. LearnTyped'
  BY <1>2, <1>3, <1>4 DEF LearnInv, LearnTyped, CandidateType
<1>6. SkillBehind'
  BY <1>2, <1>3, <1>4 DEF LearnInv, LearnTyped, CandidateType, SkillBehind
<1>7. SetAsideForItsCooldown'
  BY <1>1 DEF Upsert, LearnInv, SetAsideForItsCooldown
<1> QED BY <1>5, <1>6, <1>7

LEMMA ReviewInv ==
  ASSUME LearnInv, NEW r \in Reviews,
         ReviewBegins(r) \/ ReviewDecides(r) \/ GeneratesSkill(r) \/ MarksPromoted(r)
  PROVE  LearnTyped' /\ SkillBehind' /\ SetAsideForItsCooldown'
<1>1. CASE ReviewBegins(r)
  <2>1. PICK a \in Actions : review' = [review EXCEPT ![r] = [at |-> "decide", action |-> a]]
    BY <1>1 DEF ReviewBegins
  <2>2. reviews' \in 0 .. MaxReviews /\ review' \in [Reviews -> ReviewType]
    BY <1>1, <2>1, LearningParameters DEF ReviewBegins, LearnInv, LearnTyped, ReviewType
  <2> QED BY <1>1, <2>1, <2>2
    DEF ReviewBegins, LearnInv, LearnTyped, SkillBehind, SetAsideForItsCooldown
<1>2. CASE ReviewDecides(r)
  <2>1. PICK outcome \in {"rejected", "deferred", "reviewed"} :
          candidate' = [candidate EXCEPT !.status = outcome, !.at = hour]
    BY <1>2 DEF ReviewDecides, SetReviewStatus, Decided, Actions, LearnInv, LearnTyped, ReviewType,
                SkillBehind
  <2> QED BY <1>2, <2>1
    DEF ReviewDecides, LearnInv, LearnTyped, CandidateType, ReviewType, NoReview, SkillBehind,
        SetAsideForItsCooldown
<1>3. CASE GeneratesSkill(r)
  <2>1. CASE generated >= GenerationCap
    BY <1>3, <2>1
       DEF GeneratesSkill, LearnInv, LearnTyped, ReviewType, NoReview, SkillBehind,
           SetAsideForItsCooldown
  <2>2. CASE ~ (generated >= GenerationCap)
    <3>1. /\ skill' = candidate.samples /\ generated' = generated + 1
          /\ review' = [review EXCEPT ![r].at = "mark"]
          /\ review[r].at = "decide"
          /\ UNCHANGED <<observed, candidate, reviews, hour, lapsed>>
      BY <1>3, <2>2 DEF GeneratesSkill
    <3>2. skill' # {} /\ skill' \subseteq 1 .. MaxObserved
      BY <3>1 DEF LearnInv, LearnTyped, CandidateType, SkillBehind
    <3>3. generated' \in 0 .. GenerationCap
      BY <2>2, <3>1, LearningParameters DEF LearnInv, LearnTyped
    <3>4. LearnTyped'
      BY <3>1, <3>2, <3>3 DEF LearnInv, LearnTyped, ReviewType
    <3> QED BY <3>1, <3>2, <3>4 DEF LearnInv, LearnTyped, SkillBehind, SetAsideForItsCooldown
  <2> QED BY <2>1, <2>2
<1>4. CASE MarksPromoted(r)
  BY <1>4
     DEF MarksPromoted, SetReviewStatus, LearnInv, LearnTyped, CandidateType, ReviewType, NoReview,
         SkillBehind, SetAsideForItsCooldown
<1> QED BY <1>1, <1>2, <1>3, <1>4

(* Steps of the verification. *)
LEMMA VerifyBeginsInv ==
  ASSUME LearnInv, VerifyBegins
  PROVE  VerificationTyped' /\ VerifiedOnBothParts'
<1>1. skill \subseteq Int
  BY LearningParameters DEF LearnInv, LearnTyped
<1>2. Holdout(skill) \subseteq Int /\ Found(skill \ Holdout(skill)) \subseteq Int
  BY <1>1 DEF Holdout, Found
<1>3. CASE verdict' = NoVerdict /\ UNCHANGED verifying
  BY <1>3 DEF LearnInv, VerificationTyped, VerifiedOnBothParts, VerdictType, NoVerdict
<1>4. CASE /\ verifying' = [NotVerifying EXCEPT !.at = "replay", !.holdout = Holdout(skill),
                                                !.left = Found(skill \ Holdout(skill))]
           /\ UNCHANGED verdict
  BY <1>2, <1>4
  DEF LearnInv, VerificationTyped, VerifiedOnBothParts, VerifyingType, NotVerifying
<1> QED BY <1>3, <1>4 DEF VerifyBegins

LEMMA ReplaysInv ==
  ASSUME LearnInv, Replays
  PROVE  VerificationTyped' /\ VerifiedOnBothParts'
<1>1. PICK matched \in {0, 1} :
        verifying' = [verifying EXCEPT !.left = @ \ {Min(@)}, !.total = @ + 1,
                                       !.matched = @ + matched]
  BY DEF Replays
<1>2. verifying' \in VerifyingType
  <2>1. verifying.total + 1 \in Nat /\ verifying.matched + matched \in Nat
    BY DEF LearnInv, VerificationTyped, VerifyingType
  <2>2. verifying.left \ {Min(verifying.left)} \subseteq Int
    BY DEF LearnInv, VerificationTyped, VerifyingType
  <2> QED BY <1>1, <2>1, <2>2 DEF LearnInv, VerificationTyped, VerifyingType
<1>3. verifying'.at = verifying.at /\ verifying'.replayed = verifying.replayed
  BY <1>1 DEF LearnInv, VerificationTyped, VerifyingType
<1> QED BY <1>2, <1>3 DEF Replays, LearnInv, VerificationTyped, VerifiedOnBothParts

LEMMA PartEndsInv ==
  ASSUME LearnInv, PartEnds
  PROVE  VerificationTyped' /\ VerifiedOnBothParts'
<1> DEFINE passed == Passed(verifying.matched, verifying.total)
<1>1. passed => verifying.total > 0
  BY DEF Passed
<1>2. Found(verifying.holdout) \subseteq Int
  BY DEF Found, LearnInv, VerificationTyped, VerifyingType
<1>3. CASE verifying.at = "replay" /\ passed
  <2>1. /\ verifying' = [NotVerifying EXCEPT !.at = "cross", !.left = Found(verifying.holdout),
                                             !.replayed = verifying.total]
        /\ UNCHANGED verdict
    BY <1>3 DEF PartEnds
  <2> HIDE DEF passed
  <2> QED BY <1>1, <1>2, <1>3, <2>1
    DEF LearnInv, VerificationTyped, VerifiedOnBothParts, VerifyingType, NotVerifying
<1>4. CASE ~ (verifying.at = "replay" /\ passed)
  <2>1. /\ verifying' = NotVerifying
        /\ verdict' = [replayed |-> verifying.replayed, crossed |-> verifying.total,
                       status |-> IF verifying.at = "replay" THEN "unverified"
                                  ELSE IF passed THEN "verified" ELSE "replay_tested"]
        /\ verifying.at # "idle"
    BY <1>4 DEF PartEnds
  <2> HIDE DEF passed
  <2> QED BY <1>1, <2>1
    DEF LearnInv, VerificationTyped, VerifiedOnBothParts, VerifyingType, VerdictType, NotVerifying
<1> QED BY <1>3, <1>4

LEMMA LearnInvNext == LearnInv /\ [LearnNext]_learnVars => LearnInv'
<1> SUFFICES ASSUME LearnInv, [LearnNext]_learnVars PROVE LearnInv'
  OBVIOUS
<1>3. CASE Capture \/ LearnTick
  <2>0. observed' \in 0 .. MaxObserved /\ hour' \in 0 .. MaxHours
    BY <1>3, LearningParameters DEF Capture, LearnTick, LearnInv, LearnTyped
  <2>1. LearnTyped' /\ SkillBehind' /\ SetAsideForItsCooldown'
    BY <1>3, <2>0
       DEF Capture, LearnTick, LearnInv, LearnTyped, SkillBehind, SetAsideForItsCooldown
  <2>2. UNCHANGED <<verifying, verdict>>
    BY <1>3 DEF Capture, LearnTick
  <2> QED BY <2>1, <2>2 DEF LearnInv, VerificationTyped, VerifiedOnBothParts
<1>4. CASE DetectPattern
  BY <1>4, DetectInv DEF DetectPattern, LearnInv, VerificationTyped, VerifiedOnBothParts
<1>5. CASE \E r \in Reviews :
             ReviewBegins(r) \/ ReviewDecides(r) \/ GeneratesSkill(r) \/ MarksPromoted(r)
  <2>1. UNCHANGED <<verifying, verdict>>
    BY <1>5 DEF ReviewBegins, ReviewDecides, GeneratesSkill, MarksPromoted
  <2> QED BY <1>5, <2>1, ReviewInv DEF LearnInv, VerificationTyped, VerifiedOnBothParts
<1>6. CASE VerifyBegins \/ Replays \/ PartEnds
  <2>1. UNCHANGED candidateVars
    BY <1>6 DEF VerifyBegins, Replays, PartEnds, candidateVars
  <2>2. LearnTyped' /\ SkillBehind' /\ SetAsideForItsCooldown'
    BY <2>1 DEF candidateVars, LearnInv, LearnTyped, SkillBehind, SetAsideForItsCooldown
  <2> QED BY <1>6, <2>2, VerifyBeginsInv, ReplaysInv, PartEndsInv DEF LearnInv
<1>7. CASE UNCHANGED learnVars
  BY <1>7
     DEF learnVars, LearnInv, LearnTyped, SkillBehind, SetAsideForItsCooldown, VerificationTyped,
         VerifiedOnBothParts
<1> QED BY <1>3, <1>4, <1>5, <1>6, <1>7 DEF LearnNext

(* The learning loop for any number of reviews, samples and hours: no more *)
(* skills are generated than the cap, a promoted candidate has its skill,  *)
(* a candidate set aside stays away for its cooldown, and a verified skill *)
(* passed on both parts of its samples.                                    *)
THEOREM LearningStaysWithinLimits == LearnSpec => []LearnsWithinLimits
<1>1. LearnInv => LearnsWithinLimits
  <2> SUFFICES ASSUME LearnInv PROVE LearnsWithinLimits
    OBVIOUS
  <2>1. LearnTypeOK
    BY DEF LearnInv, LearnTyped, LearnTypeOK, CandidateType, SetAside, VerificationTyped, VerdictType
  <2>2. PromotedWithinCap
    BY LearningParameters DEF LearnInv, LearnTyped, SkillBehind, PromotedWithinCap
  <2> QED BY <2>1, <2>2 DEF LearnInv, LearnsWithinLimits
<1> QED BY <1>1, LearnInvInit, LearnInvNext, PTL DEF LearnSpec
-----------------------------------------------------------------------------
(* The federation: what a list of approvals, a result or an answer holds   *)
(* was in the file not long before.                                        *)

CacheType == [at : Int, list : SUBSET Projects]

TaskType ==
  [at : {"idle", "reading", "read", "loaded", "writing"}, process : Processes \union {"none"},
   op : {"none", "grant", "revoke", "query"}, about : Projects \union {"none"}, since : Int,
   list : SUBSET Projects, left : SUBSET Projects, eligible : SUBSET Projects]

FedTyped ==
  /\ approvalsFile \in (SUBSET Projects) \union {TornFile}
  /\ approvals \in [Processes -> CacheType] /\ results \in [Processes -> CacheType]
  /\ task \in [Tasks -> TaskType]
  /\ fedNow \in 0 .. MaxFedTime /\ tasksBegun \in 0 .. MaxTasks
  /\ served \in CacheType
  /\ lastIn \in [Projects -> Int]
  /\ revoked \subseteq Projects /\ mingled \in BOOLEAN

(* A task that is under way knows its process and what it is about.        *)
TaskShaped(r) ==
  /\ r.at = "idle" => r = NoTask
  /\ r.at # "idle" => /\ r.process \in Processes /\ r.op # "none"
                      /\ r.op # "query" => r.about \in Projects
  /\ r.at = "writing" => r.op # "query"

(* An approval that was in the file at some time of a list or an answer.   *)
In(S, at) == \A s \in S : lastIn[s] >= at

FileFresh ==
  /\ approvalsFile # TornFile => \A s \in approvalsFile : lastIn[s] = fedNow
  /\ \A s \in Projects : lastIn[s] <= fedNow

CacheFresh(p) ==
  /\ In(approvals[p].list, approvals[p].at)
  /\ In(results[p].list, results[p].at - PermissionTtl)

TaskFresh(r) ==
  /\ r.at \in {"reading", "read"} => r.since = fedNow
  /\ r.at = "read" => In(r.list, fedNow)
  /\ r.at = "loaded" => In(r.list, fedNow - PermissionTtl)
  /\ In(r.eligible, fedNow - PermissionTtl)

Fresh ==
  /\ FileFresh
  /\ \A p \in Processes : CacheFresh(p)
  /\ \A t \in Tasks : TaskShaped(task[t]) /\ TaskFresh(task[t])
  /\ AnswersOutliveApprovalsBriefly

(* Tasks run beside others only when all of them are queries, and none     *)
(* holds an approval that was revoked.                                     *)
Unmingled ==
  ~ mingled =>
    /\ \A t, u \in Tasks :
         t # u /\ task[t].at # "idle" /\ task[u].at # "idle" => task[t].op = "query"
    /\ \A p \in Processes : Cached(p) => approvals[p].list \intersect revoked = {}
    /\ \A t \in Tasks :
         task[t].at \in {"read", "loaded", "writing"} => task[t].list \intersect revoked = {}
    /\ approvalsFile # TornFile => revoked \intersect approvalsFile = {}

FedInv == FedTyped /\ Fresh /\ Unmingled

LEMMA FedNumbers ==
  /\ PermissionTtl \in Nat /\ ResultTtl \in Nat /\ MaxFedTime \in Nat /\ MaxTasks \in Nat
  /\ Never \in Int /\ Never < 0 - PermissionTtl /\ NotCached \in CacheType /\ NoTask \in TaskType
BY FederationParameters DEF Never, NotCached, CacheType, NoTask, TaskType

(* The file is whole or torn, never both. *)
LEMMA FileWhole ==
  ASSUME FedTyped
  PROVE  /\ approvalsFile \in SUBSET Projects \/ approvalsFile = TornFile
         /\ approvalsFile # TornFile => approvalsFile \subseteq Projects
<1>1. approvalsFile \in (SUBSET Projects) \union {TornFile}
  BY DEF FedTyped
<1>2. approvalsFile \in SUBSET Projects \/ approvalsFile = TornFile
  BY <1>1, Zenon
<1> QED BY <1>2

LEMMA FedInvInit == FedInit => FedInv
<1> SUFFICES ASSUME FedInit PROVE FedInv
  OBVIOUS
<1>1. FedTyped
  <2>1. 0 \in 0 .. MaxFedTime /\ 0 \in 0 .. MaxTasks
    BY FedNumbers
  <2>2. lastIn \in [Projects -> Int]
    BY FedNumbers DEF FedInit
  <2> QED BY <2>1, <2>2, FedNumbers DEF FedInit, FedTyped
<1>2. Fresh
  BY FedNumbers
  DEF FedInit, Fresh, FileFresh, CacheFresh, TaskShaped, TaskFresh, In, NotCached, NoTask,
      AnswersOutliveApprovalsBriefly
<1>3. Unmingled
  BY DEF FedInit, Unmingled, NotCached, NoTask
<1> QED BY <1>1, <1>2, <1>3 DEF FedInv

(* What a task has when it goes on with the approvals. *)
LEMMA LoadFacts ==
  ASSUME FedInv, NEW p \in Processes, NEW r \in TaskType
  PROVE  LET l == Load(p, r)
         IN  /\ l \in TaskType /\ l.at \in {"loaded", "reading"}
             /\ l.process = r.process /\ l.op = r.op /\ l.about = r.about
             /\ l.eligible = r.eligible
             /\ l.at = "reading" => l.since = fedNow
             /\ l.at = "loaded" => In(l.list, fedNow - PermissionTtl)
             /\ l.at = "loaded" /\ ~ mingled => l.list \intersect revoked = {}
<1>1. CASE Cached(p)
  <2>1. Load(p, r) = [r EXCEPT !.at = "loaded", !.list = approvals[p].list]
    BY <1>1 DEF Load
  <2>2. approvals[p].list \in SUBSET Projects /\ approvals[p].at \in Int
    BY DEF FedInv, FedTyped, CacheType
  <2>3. In(approvals[p].list, fedNow - PermissionTtl)
    BY <1>1, <2>2, FedNumbers DEF FedInv, FedTyped, Fresh, CacheFresh, In, Cached
  <2>4. ~ mingled => approvals[p].list \intersect revoked = {}
    BY <1>1 DEF FedInv, Unmingled
  <2> QED BY <2>1, <2>2, <2>3, <2>4 DEF TaskType
<1>2. CASE ~ Cached(p)
  <2>1. Load(p, r) = [r EXCEPT !.at = "reading", !.since = fedNow]
    BY <1>2 DEF Load
  <2>2. fedNow \in Int
    BY FedNumbers DEF FedInv, FedTyped
  <2> QED BY <2>1, <2>2 DEF TaskType
<1> QED BY <1>1, <1>2

(* A step that changes one task and nothing that the others rely on.       *)
LEMMA OneTask ==
  ASSUME FedInv, NEW t \in Tasks, NEW r \in TaskType,
         task' = [task EXCEPT ![t] = r],
         TaskShaped(r), TaskFresh(r),
         UNCHANGED <<approvalsFile, fedNow, lastIn, revoked>>,
         approvals' \in [Processes -> CacheType], results' \in [Processes -> CacheType],
         served' \in CacheType, tasksBegun' \in 0 .. MaxTasks, mingled' \in BOOLEAN,
         \A p \in Processes : CacheFresh(p)', AnswersOutliveApprovalsBriefly',
         ~ mingled' => /\ ~ mingled
                       /\ \A p \in Processes : Cached(p)' => approvals'[p].list \intersect revoked = {}
                       /\ r.at \in {"read", "loaded", "writing"} => r.list \intersect revoked = {}
                       /\ \/ r.at = "idle"
                          \/ (task[t].at # "idle" /\ r.op = task[t].op)
                          \/ \A u \in Tasks : task[u].at # "idle" => r.op = "query" /\ task[u].op = "query"
  PROVE  FedInv'
<1>1. FedTyped'
  BY DEF FedInv, FedTyped
<1>2. /\ task'[t] = r
      /\ \A u \in Tasks \ {t} : task'[u] = task[u]
  BY DEF FedInv, FedTyped
<1>3. Fresh'
  <2>1. FileFresh'
    BY DEF FedInv, Fresh, FileFresh
  <2>2. ASSUME NEW u \in Tasks PROVE TaskShaped(task[u])' /\ TaskFresh(task[u])'
    BY <1>2 DEF FedInv, Fresh, TaskShaped, TaskFresh, In
  <2> QED BY <2>1, <2>2 DEF Fresh
<1>4. Unmingled'
  <2> SUFFICES ASSUME ~ mingled' PROVE Unmingled'
    BY DEF Unmingled
  <2>1. ASSUME NEW u \in Tasks, NEW v \in Tasks, u # v, task'[u].at # "idle", task'[v].at # "idle"
        PROVE  task'[u].op = "query"
    BY <1>2, <2>1 DEF FedInv, Unmingled
  <2>2. ASSUME NEW u \in Tasks, task'[u].at \in {"read", "loaded", "writing"}
        PROVE  task'[u].list \intersect revoked' = {}
    BY <1>2, <2>2 DEF FedInv, Unmingled
  <2>3. approvalsFile' # TornFile => revoked' \intersect approvalsFile' = {}
    BY DEF FedInv, Unmingled
  <2> QED BY <2>1, <2>2, <2>3 DEF Unmingled
<1> QED BY <1>1, <1>3, <1>4 DEF FedInv

LEMMA TaskOver ==
  ASSUME FedInv, NEW t \in Tasks, task' = [task EXCEPT ![t] = NoTask],
         UNCHANGED <<approvalsFile, fedNow, tasksBegun, lastIn, revoked, mingled>>,
         approvals' \in [Processes -> CacheType], results' \in [Processes -> CacheType],
         served' \in CacheType,
         \A p \in Processes : CacheFresh(p)', AnswersOutliveApprovalsBriefly',
         \A p \in Processes : (~ mingled /\ Cached(p)') => approvals'[p].list \intersect revoked = {}
  PROVE  FedInv'
<1>1. PICK r \in TaskType : r = NoTask
  BY FedNumbers
<1>2. r.at = "idle" /\ TaskShaped(r) /\ TaskFresh(r)
  BY <1>1 DEF NoTask, TaskShaped, TaskFresh, In
<1>3. tasksBegun' \in 0 .. MaxTasks /\ mingled' \in BOOLEAN
  BY DEF FedInv, FedTyped
<1>4. task' = [task EXCEPT ![t] = r]
  BY <1>1
<1>5. ~ mingled' => /\ ~ mingled
                    /\ \A p \in Processes : Cached(p)' => approvals'[p].list \intersect revoked = {}
                    /\ r.at \in {"read", "loaded", "writing"} => r.list \intersect revoked = {}
                    /\ \/ r.at = "idle"
                       \/ (task[t].at # "idle" /\ r.op = task[t].op)
                       \/ \A u \in Tasks : task[u].at # "idle" => r.op = "query" /\ task[u].op = "query"
  BY <1>2
<1> HIDE DEF CacheType
<1> QED BY <1>2, <1>3, <1>4, <1>5, OneTask

(* The caches and the last answer as they were. *)
LEMMA CachesStay ==
  ASSUME FedInv, UNCHANGED <<approvals, results, served, fedNow, lastIn, revoked>>
  PROVE  /\ approvals' \in [Processes -> CacheType] /\ results' \in [Processes -> CacheType]
         /\ served' \in CacheType
         /\ \A p \in Processes : CacheFresh(p)'
         /\ AnswersOutliveApprovalsBriefly'
         /\ \A p \in Processes :
              (~ mingled /\ Cached(p)') => approvals'[p].list \intersect revoked = {}
BY DEF FedInv, FedTyped, Fresh, CacheFresh, In, AnswersOutliveApprovalsBriefly, Unmingled, Cached

LEMMA TaskBeginsInv ==
  ASSUME FedInv, NEW t \in Tasks, NEW p \in Processes,
         GrantApproval(t, p) \/ RevokeApproval(t, p) \/ QueryProjects(t, p)
  PROVE  FedInv'
<1>1. PICK op \in {"grant", "revoke", "query"}, about \in Projects \union {"none"},
           left \in SUBSET Projects :
        TaskBegins(t, p, op, about, left) /\ (op # "query" => about \in Projects)
  BY DEF GrantApproval, RevokeApproval, QueryProjects
<1>2. UNCHANGED <<approvalsFile, approvals, results, fedNow, served, lastIn, revoked>>
  BY DEF GrantApproval, RevokeApproval, QueryProjects
<1> DEFINE new == [NoTask EXCEPT !.process = p, !.op = op, !.about = about, !.left = left]
           l == Load(p, new)
<1>3. new \in TaskType /\ new.process = p /\ new.op = op /\ new.about = about /\ new.eligible = {}
  BY FedNumbers DEF NoTask, TaskType
<1>4. task[t] = NoTask /\ task' = [task EXCEPT ![t] = l] /\ tasksBegun' = tasksBegun + 1
      /\ tasksBegun < MaxTasks
      /\ mingled' = (mingled \/ \E u \in Tasks : task[u] # NoTask /\ {op, task[u].op} # {"query"})
  BY <1>1 DEF TaskBegins
<1> HIDE DEF new
<1>5. /\ l \in TaskType /\ l.at \in {"loaded", "reading"}
      /\ l.process = p /\ l.op = op /\ l.about = about /\ l.eligible = {}
      /\ l.at = "reading" => l.since = fedNow
      /\ l.at = "loaded" => In(l.list, fedNow - PermissionTtl)
      /\ l.at = "loaded" /\ ~ mingled => l.list \intersect revoked = {}
  BY <1>3, LoadFacts
<1> HIDE DEF l
<1>6. TaskShaped(l) /\ TaskFresh(l)
  BY <1>1, <1>5 DEF TaskShaped, TaskFresh, In
<1>7. tasksBegun' \in 0 .. MaxTasks /\ mingled' \in BOOLEAN
  BY <1>4, FedNumbers DEF FedInv, FedTyped
<1>8. ~ mingled' => \A u \in Tasks : task[u].at # "idle" => l.op = "query" /\ task[u].op = "query"
  <2> SUFFICES ASSUME ~ mingled', NEW u \in Tasks, task[u].at # "idle"
               PROVE  l.op = "query" /\ task[u].op = "query"
    OBVIOUS
  <2>1. task[u] # NoTask
    BY DEF NoTask
  <2>2. {op, task[u].op} = {"query"}
    BY <1>4, <2>1
  <2>3. op \in {"query"} /\ task[u].op \in {"query"}
    BY <2>2
  <2> QED BY <1>5, <2>3
<1> QED BY <1>2, <1>4, <1>5, <1>6, <1>7, <1>8, CachesStay, OneTask

LEMMA FileReadInv ==
  ASSUME FedInv, NEW t \in Tasks, FileRead(t)
  PROVE  FedInv'
<1>1. UNCHANGED <<approvalsFile, approvals, results, fedNow, tasksBegun, served, lastIn, revoked,
                  mingled>>
  BY DEF FileRead
<1>2. CASE approvalsFile = TornFile
  <2>1. task' = [task EXCEPT ![t] = NoTask]
    BY <1>2 DEF FileRead
  <2> QED BY <1>1, <2>1, CachesStay, TaskOver
<1>3. CASE approvalsFile # TornFile
  <2> DEFINE r == [task[t] EXCEPT !.at = "read", !.list = approvalsFile]
  <2>1. task' = [task EXCEPT ![t] = r] /\ task[t].at = "reading"
    BY <1>3 DEF FileRead
  <2>2. /\ r \in TaskType /\ r.at = "read" /\ r.list = approvalsFile
        /\ r.process = task[t].process /\ r.op = task[t].op /\ r.about = task[t].about
        /\ r.since = task[t].since /\ r.eligible = task[t].eligible
    <3>1. task[t] \in TaskType /\ approvalsFile \in SUBSET Projects
      BY <1>3, FileWhole DEF FedInv, FedTyped
    <3> QED BY <3>1 DEF TaskType
  <2> HIDE DEF r
  <2>3. TaskShaped(r)
    BY <2>1, <2>2 DEF FedInv, Fresh, TaskShaped
  <2>4. TaskFresh(r)
    BY <1>3, <2>1, <2>2 DEF FedInv, FedTyped, Fresh, FileFresh, TaskFresh, In
  <2>5. ~ mingled => r.list \intersect revoked = {}
    BY <1>3, <2>2 DEF FedInv, Unmingled
  <2> QED BY <1>1, <2>1, <2>2, <2>3, <2>4, <2>5, CachesStay, OneTask DEF FedInv, FedTyped
<1> QED BY <1>2, <1>3

LEMMA ApprovalsCachedInv ==
  ASSUME FedInv, NEW t \in Tasks, ApprovalsCached(t)
  PROVE  FedInv'
<1> DEFINE r == [task[t] EXCEPT !.at = "loaded"]
           p == task[t].process
<1>1. /\ task' = [task EXCEPT ![t] = r] /\ task[t].at = "read"
      /\ approvals' = [approvals EXCEPT ![p] = [at |-> task[t].since, list |-> task[t].list]]
      /\ UNCHANGED <<approvalsFile, results, fedNow, tasksBegun, served, lastIn, revoked, mingled>>
  BY DEF ApprovalsCached, FedInv, FedTyped
<1>2. /\ task[t] \in TaskType /\ p \in Processes /\ task[t].since = fedNow
      /\ In(task[t].list, fedNow) /\ fedNow \in Int
  BY <1>1 DEF FedInv, FedTyped, Fresh, TaskShaped, TaskFresh
<1>3. /\ r \in TaskType /\ r.at = "loaded" /\ r.list = task[t].list
      /\ r.process = task[t].process /\ r.op = task[t].op /\ r.about = task[t].about
      /\ r.eligible = task[t].eligible
  BY <1>2 DEF TaskType
<1> HIDE DEF r
<1>4. TaskShaped(r)
  BY <1>1, <1>3 DEF FedInv, Fresh, TaskShaped
<1>5. TaskFresh(r)
  BY <1>1, <1>2, <1>3, FedNumbers DEF FedInv, FedTyped, Fresh, TaskFresh, In, TaskType
<1>6. approvals' \in [Processes -> CacheType]
  BY <1>1, <1>2 DEF FedInv, FedTyped, CacheType, TaskType
<1>7. ASSUME NEW q \in Processes
      PROVE  /\ CacheFresh(q)'
             /\ (~ mingled /\ Cached(q)') => approvals'[q].list \intersect revoked = {}
  BY <1>1, <1>2 DEF FedInv, FedTyped, Fresh, CacheFresh, In, Unmingled, Cached
<1>8. AnswersOutliveApprovalsBriefly'
  BY <1>1 DEF FedInv, Fresh, AnswersOutliveApprovalsBriefly
<1>9. ~ mingled => r.list \intersect revoked = {}
  BY <1>1, <1>3 DEF FedInv, Unmingled
<1> QED BY <1>1, <1>3, <1>4, <1>5, <1>6, <1>7, <1>8, <1>9, OneTask DEF FedInv, FedTyped

LEMMA ProjectCheckedInv ==
  ASSUME FedInv, NEW t \in Tasks, ProjectChecked(t)
  PROVE  FedInv'
<1>1. PICK s \in task[t].left :
        LET checked == [task[t] EXCEPT !.left = @ \ {s},
                                       !.eligible = @ \union ({s} \intersect task[t].list)]
        IN  task' = [task EXCEPT ![t] = IF checked.left = {} THEN checked
                                                            ELSE Load(checked.process, checked)]
  BY DEF ProjectChecked
<1>2. /\ task[t].at = "loaded" /\ task[t].op = "query"
      /\ UNCHANGED <<approvalsFile, approvals, results, fedNow, tasksBegun, served, lastIn, revoked,
                     mingled>>
  BY DEF ProjectChecked
<1> DEFINE checked == [task[t] EXCEPT !.left = @ \ {s},
                                      !.eligible = @ \union ({s} \intersect task[t].list)]
<1>3. /\ checked \in TaskType /\ checked.at = "loaded" /\ checked.op = "query"
      /\ checked.process = task[t].process /\ checked.about = task[t].about
      /\ checked.list = task[t].list
      /\ checked.eligible = task[t].eligible \union ({s} \intersect task[t].list)
  BY <1>2 DEF FedInv, FedTyped, TaskType
<1>4. task' = [task EXCEPT ![t] = IF checked.left = {} THEN checked ELSE Load(checked.process, checked)]
  BY <1>1
<1> HIDE DEF checked
<1>5. checked.process \in Processes /\ In(checked.eligible, fedNow - PermissionTtl)
  BY <1>2, <1>3 DEF FedInv, Fresh, TaskShaped, TaskFresh, In
<1>6. CASE checked.left = {}
  <2>1. TaskShaped(checked) /\ TaskFresh(checked)
    BY <1>2, <1>3, <1>5 DEF FedInv, Fresh, TaskShaped, TaskFresh
  <2>2. ~ mingled => checked.list \intersect revoked = {}
    BY <1>2, <1>3 DEF FedInv, Unmingled
  <2> QED BY <1>2, <1>3, <1>4, <1>6, <2>1, <2>2, CachesStay, OneTask DEF FedInv, FedTyped
<1>7. CASE checked.left # {}
  <2> DEFINE l == Load(checked.process, checked)
  <2>1. /\ l \in TaskType /\ l.at \in {"loaded", "reading"}
        /\ l.process = checked.process /\ l.op = "query" /\ l.about = checked.about
        /\ l.eligible = checked.eligible
        /\ l.at = "reading" => l.since = fedNow
        /\ l.at = "loaded" => In(l.list, fedNow - PermissionTtl)
        /\ l.at = "loaded" /\ ~ mingled => l.list \intersect revoked = {}
    BY <1>3, <1>5, LoadFacts
  <2>2. task' = [task EXCEPT ![t] = l]
    BY <1>4, <1>7
  <2> HIDE DEF l
  <2>3. TaskShaped(l) /\ TaskFresh(l)
    BY <1>5, <2>1 DEF TaskShaped, TaskFresh
  <2> QED BY <1>2, <2>1, <2>2, <2>3, CachesStay, OneTask DEF FedInv, FedTyped
<1> QED BY <1>6, <1>7

LEMMA QueryAnsweredInv ==
  ASSUME FedInv, NEW t \in Tasks, QueryAnswered(t)
  PROVE  FedInv'
<1> DEFINE p == task[t].process
           answer == [at |-> fedNow, list |-> task[t].eligible]
<1>1. /\ task[t].at = "loaded"
      /\ task' = [task EXCEPT ![t] = NoTask]
      /\ results' = [results EXCEPT ![p] = answer]
      /\ served' = answer
      /\ UNCHANGED <<approvalsFile, approvals, fedNow, tasksBegun, lastIn, revoked, mingled>>
  BY DEF QueryAnswered
<1>2. /\ p \in Processes /\ In(task[t].eligible, fedNow - PermissionTtl)
      /\ fedNow \in Int /\ answer \in CacheType /\ answer.at = fedNow
      /\ answer.list = task[t].eligible /\ answer.list \subseteq Projects
  BY <1>1 DEF FedInv, FedTyped, TaskType, CacheType, Fresh, TaskShaped, TaskFresh
<1> HIDE DEF answer
<1>4. results' \in [Processes -> CacheType]
  BY <1>1, <1>2 DEF FedInv, FedTyped
<1>5. ASSUME NEW q \in Processes
      PROVE  /\ CacheFresh(q)'
             /\ (~ mingled /\ Cached(q)') => approvals'[q].list \intersect revoked = {}
  BY <1>1, <1>2 DEF FedInv, FedTyped, Fresh, CacheFresh, In, Unmingled, Cached
<1>6. AnswersOutliveApprovalsBriefly'
  BY <1>1, <1>2, FedNumbers DEF AnswersOutliveApprovalsBriefly, In, FedInv, FedTyped
<1>7. approvals' \in [Processes -> CacheType]
  BY <1>1 DEF FedInv, FedTyped
<1> QED BY <1>1, <1>2, <1>4, <1>5, <1>6, <1>7, TaskOver

LEMMA QueryHitsInv ==
  ASSUME FedInv, NEW p \in Processes, QueryHits(p)
  PROVE  FedInv'
<1>1. /\ fedNow - results[p].at <= ResultTtl
      /\ served' = [at |-> fedNow, list |-> results[p].list]
      /\ UNCHANGED <<approvalsFile, approvals, results, task, fedNow, tasksBegun, lastIn, revoked,
                     mingled>>
  BY DEF QueryHits
<1>2. FedTyped'
  BY <1>1 DEF FedInv, FedTyped, CacheType
<1>3. AnswersOutliveApprovalsBriefly'
  BY <1>1, FedNumbers
  DEF AnswersOutliveApprovalsBriefly, In, FedInv, FedTyped, Fresh, CacheFresh, CacheType
<1>4. Fresh'
  BY <1>1, <1>3 DEF FedInv, Fresh, FileFresh, CacheFresh, TaskShaped, TaskFresh, In
<1>5. Unmingled'
  BY <1>1 DEF FedInv, Unmingled, Cached
<1> QED BY <1>2, <1>4, <1>5 DEF FedInv

LEMMA SeenFacts ==
  ASSUME FedInv, NEW at \in Int, at >= fedNow
  PROVE  /\ Seen(at) \in [Projects -> Int]
         /\ \A s \in Projects : Seen(at)[s] >= lastIn[s] /\ Seen(at)[s] <= at
         /\ approvalsFile # TornFile => \A s \in approvalsFile : Seen(at)[s] = at
<1>1. \A s \in Projects : Seen(at)[s] = IF s \in approvalsFile THEN at ELSE lastIn[s]
  BY DEF Seen
<1>2. Seen(at) \in [Projects -> Int]
  BY DEF Seen, FedInv, FedTyped
<1>3. \A s \in Projects : lastIn[s] <= fedNow /\ lastIn[s] \in Int
  BY DEF FedInv, FedTyped, Fresh, FileFresh
<1>4. fedNow \in Int
  BY FedNumbers DEF FedInv, FedTyped
<1>5. approvalsFile # TornFile => approvalsFile \subseteq Projects
  BY FileWhole DEF FedInv
<1> QED BY <1>1, <1>2, <1>3, <1>4, <1>5

(* What was fresh stays fresh as the file is written. *)
LEMMA LaterFresh ==
  ASSUME FedInv, lastIn' \in [Projects -> Int],
         \A s \in Projects : lastIn'[s] >= lastIn[s],
         UNCHANGED <<results, served>>
  PROVE  /\ AnswersOutliveApprovalsBriefly'
         /\ \A S \in SUBSET Projects : \A at \in Int : In(S, at) => In(S, at)'
<1>1. \A S \in SUBSET Projects : \A at \in Int : In(S, at) => In(S, at)'
  BY DEF In, FedInv, FedTyped
<1>2. AnswersOutliveApprovalsBriefly'
  BY FedNumbers DEF AnswersOutliveApprovalsBriefly, FedInv, FedTyped, Fresh, CacheType
<1> QED BY <1>1, <1>2

LEMMA WriteBeginsInv ==
  ASSUME FedInv, NEW t \in Tasks, WriteBegins(t)
  PROVE  FedInv'
<1> DEFINE r == [task[t] EXCEPT !.at = "writing"]
<1>1. /\ task[t].at = "loaded" /\ task[t].op # "query"
      /\ lastIn' = Seen(fedNow) /\ approvalsFile' = TornFile
      /\ task' = [task EXCEPT ![t] = r]
      /\ UNCHANGED <<approvals, results, fedNow, tasksBegun, served, revoked, mingled>>
  BY DEF WriteBegins
<1>2. /\ lastIn' \in [Projects -> Int]
      /\ \A s \in Projects : lastIn'[s] >= lastIn[s] /\ lastIn'[s] <= fedNow
  BY <1>1, SeenFacts DEF FedInv, FedTyped
<1>3. /\ r \in TaskType /\ r.at = "writing" /\ r.list = task[t].list
      /\ r.process = task[t].process /\ r.op = task[t].op /\ r.about = task[t].about
      /\ r.eligible = task[t].eligible
  BY DEF FedInv, FedTyped, TaskType
<1> HIDE DEF r
<1>4. FedTyped'
  <2>0. approvalsFile' \in (SUBSET Projects) \union {TornFile}
    BY <1>1, Zenon
  <2>1. task' \in [Tasks -> TaskType] /\ approvalsFile' \in (SUBSET Projects) \union {TornFile}
    BY <1>1, <1>3, <2>0 DEF FedInv, FedTyped
  <2> QED BY <1>1, <1>2, <2>1 DEF FedInv, FedTyped
<1>5. task'[t] = r /\ \A u \in Tasks \ {t} : task'[u] = task[u]
  BY <1>1 DEF FedInv, FedTyped
<1>6. Fresh'
  <2>1. FileFresh'
    BY <1>1, <1>2 DEF FileFresh
  <2>2. ASSUME NEW p \in Processes PROVE CacheFresh(p)'
    BY <1>1, <1>2, FedNumbers DEF FedInv, FedTyped, Fresh, CacheFresh, In, CacheType
  <2>3. ASSUME NEW u \in Tasks PROVE TaskShaped(task[u])' /\ TaskFresh(task[u])'
    <3>1. \A s \in task'[u].eligible : lastIn'[s] >= fedNow' - PermissionTtl
      <4>1. task'[u].eligible = task[u].eligible /\ task[u].eligible \subseteq Projects
        BY <1>3, <1>5 DEF FedInv, FedTyped, TaskType
      <4>2. \A s \in task[u].eligible : lastIn[s] >= fedNow - PermissionTtl
        BY DEF FedInv, Fresh, TaskFresh, In
      <4>3. \A s \in Projects : lastIn[s] \in Int /\ lastIn'[s] \in Int /\ lastIn'[s] >= lastIn[s]
        BY <1>2 DEF FedInv, FedTyped
      <4>4. fedNow' = fedNow /\ fedNow - PermissionTtl \in Int
        BY <1>1, FedNumbers DEF FedInv, FedTyped
      <4> QED BY <4>1, <4>2, <4>3, <4>4
    <3>2. CASE u = t
      BY <1>1, <1>3, <1>5, <3>1, <3>2 DEF FedInv, Fresh, TaskShaped, TaskFresh, In
    <3>3. CASE u # t
      BY <1>1, <1>2, <1>5, <3>1, <3>3, FedNumbers
      DEF FedInv, FedTyped, Fresh, TaskShaped, TaskFresh, In, TaskType
    <3> QED BY <3>2, <3>3
  <2> QED BY <1>1, <1>2, <2>1, <2>2, <2>3, LaterFresh DEF Fresh
<1>7. Unmingled'
  BY <1>1, <1>3, <1>5 DEF FedInv, Unmingled, Cached
<1> QED BY <1>4, <1>6, <1>7 DEF FedInv

LEMMA WriteEndsInv ==
  ASSUME FedInv, NEW t \in Tasks, WriteEnds(t)
  PROVE  FedInv'
<1> DEFINE r == task[t]
<1>1. /\ r.at = "writing"
      /\ approvalsFile' = Updated(r)
      /\ lastIn' = [s \in Projects |-> IF s \in Updated(r) THEN fedNow ELSE lastIn[s]]
      /\ approvals' = [approvals EXCEPT ![r.process] = NotCached]
      /\ revoked' = IF r.op = "grant" THEN revoked \ {r.about} ELSE revoked \union {r.about}
      /\ mingled' = (mingled \/ \E p \in Processes \ {r.process} : Cached(p))
      /\ task' = [task EXCEPT ![t] = NoTask]
      /\ UNCHANGED <<results, fedNow, tasksBegun, served>>
  BY DEF WriteEnds
<1>2. /\ r \in TaskType /\ r.process \in Processes /\ r.op \in {"grant", "revoke"}
      /\ r.about \in Projects /\ Updated(r) \subseteq Projects
  BY <1>1 DEF FedInv, FedTyped, Fresh, TaskShaped, TaskType, Updated
<1>3. /\ lastIn' \in [Projects -> Int]
      /\ \A s \in Projects : lastIn'[s] >= lastIn[s] /\ lastIn'[s] <= fedNow
      /\ \A s \in Updated(r) : lastIn'[s] = fedNow
  BY <1>1, <1>2 DEF FedInv, FedTyped, Fresh, FileFresh
<1>4. /\ task'[t] = NoTask /\ NoTask.at = "idle"
      /\ \A u \in Tasks \ {t} : task'[u] = task[u]
      /\ approvals'[r.process] = NotCached /\ NotCached.list = {}
      /\ \A p \in Processes \ {r.process} : approvals'[p] = approvals[p]
  BY <1>1, <1>2 DEF FedInv, FedTyped, NoTask, NotCached
<1>5. FedTyped'
  BY <1>1, <1>2, <1>3, FedNumbers DEF FedInv, FedTyped
<1>6. Fresh'
  <2>1. FileFresh'
    BY <1>1, <1>3 DEF FileFresh
  <2>2. ASSUME NEW p \in Processes PROVE CacheFresh(p)'
    BY <1>1, <1>3, <1>4, FedNumbers DEF FedInv, FedTyped, Fresh, CacheFresh, In, CacheType
  <2>3. ASSUME NEW u \in Tasks PROVE TaskShaped(task[u])' /\ TaskFresh(task[u])'
    <3>1. CASE u = t
      BY <1>4, <3>1 DEF TaskShaped, TaskFresh, In, NoTask
    <3>2. CASE u # t
      BY <1>1, <1>3, <1>4, <3>2, FedNumbers
      DEF FedInv, FedTyped, Fresh, TaskShaped, TaskFresh, In, TaskType
    <3> QED BY <3>1, <3>2
  <2> QED BY <1>1, <1>3, <2>1, <2>2, <2>3, LaterFresh DEF Fresh
<1>7. Unmingled'
  <2> SUFFICES ASSUME ~ mingled' PROVE Unmingled'
    BY DEF Unmingled
  <2>1. ~ mingled /\ \A p \in Processes \ {r.process} : ~ Cached(p)
    BY <1>1
  <2>2. \A u \in Tasks \ {t} : task[u].at = "idle"
    BY <1>1, <1>2, <2>1 DEF FedInv, Unmingled
  <2>3. \A u \in Tasks : task'[u].at = "idle"
    BY <1>4, <2>2
  <2>4. \A p \in Processes : Cached(p)' => approvals'[p].list = {}
    BY <1>1, <1>4, <2>1 DEF Cached
  <2>5. r.list \intersect revoked = {}
    BY <1>1, <2>1 DEF FedInv, Unmingled
  <2>6. revoked' \intersect approvalsFile' = {}
    BY <1>1, <1>2, <2>5 DEF Updated
  <2> QED BY <2>3, <2>4, <2>6 DEF Unmingled
<1> QED BY <1>5, <1>6, <1>7 DEF FedInv

LEMMA ProcessEndsInv ==
  ASSUME FedInv, NEW p \in Processes, ProcessEnds(p)
  PROVE  FedInv'
<1>1. /\ approvals' = [approvals EXCEPT ![p] = NotCached]
      /\ results' = [results EXCEPT ![p] = NotCached]
      /\ task' = [t \in Tasks |-> IF task[t].process = p THEN NoTask ELSE task[t]]
      /\ UNCHANGED <<approvalsFile, fedNow, tasksBegun, served, lastIn, revoked, mingled>>
  BY DEF ProcessEnds
<1>2. FedTyped'
  BY <1>1, FedNumbers DEF FedInv, FedTyped
<1>3. /\ \A q \in Processes : approvals'[q] \in {approvals[q], NotCached}
      /\ \A q \in Processes : results'[q] \in {results[q], NotCached}
      /\ \A t \in Tasks : task'[t] \in {task[t], NoTask}
      /\ NotCached.list = {} /\ NoTask.at = "idle"
  BY <1>1 DEF FedInv, FedTyped, NotCached, NoTask
<1>4. Fresh'
  <2>1. FileFresh' /\ AnswersOutliveApprovalsBriefly'
    BY <1>1 DEF FedInv, Fresh, FileFresh, AnswersOutliveApprovalsBriefly
  <2>2. ASSUME NEW q \in Processes PROVE CacheFresh(q)'
    BY <1>1, <1>3 DEF FedInv, Fresh, CacheFresh, In
  <2>3. ASSUME NEW t \in Tasks PROVE TaskShaped(task[t])' /\ TaskFresh(task[t])'
    BY <1>1, <1>3 DEF FedInv, Fresh, TaskShaped, TaskFresh, In, NoTask
  <2> QED BY <2>1, <2>2, <2>3 DEF Fresh
<1>5. Unmingled'
  <2>1. ASSUME NEW q \in Processes, ~ mingled', Cached(q)'
        PROVE  approvals'[q].list \intersect revoked' = {}
    BY <1>1, <1>3, <2>1 DEF FedInv, Unmingled, Cached
  <2> QED BY <1>1, <1>3, <2>1 DEF FedInv, Unmingled
<1> QED BY <1>2, <1>4, <1>5 DEF FedInv

LEMMA FedTickInv ==
  ASSUME FedInv, FedTick
  PROVE  FedInv'
<1>1. /\ fedNow' = fedNow + 1 /\ fedNow < MaxFedTime /\ lastIn' = Seen(fedNow + 1)
      /\ \A t \in Tasks : task[t] = NoTask
      /\ UNCHANGED <<approvalsFile, approvals, results, task, tasksBegun, served, revoked, mingled>>
  BY DEF FedTick
<1>2. /\ lastIn' \in [Projects -> Int]
      /\ \A s \in Projects : lastIn'[s] >= lastIn[s] /\ lastIn'[s] <= fedNow'
      /\ approvalsFile # TornFile => \A s \in approvalsFile : lastIn'[s] = fedNow'
      /\ fedNow' \in 0 .. MaxFedTime
  BY <1>1, SeenFacts, FedNumbers DEF FedInv, FedTyped
<1>3. FedTyped'
  BY <1>1, <1>2 DEF FedInv, FedTyped
<1>4. Fresh'
  <2>1. FileFresh'
    BY <1>1, <1>2 DEF FileFresh
  <2>2. ASSUME NEW p \in Processes PROVE CacheFresh(p)'
    BY <1>1, <1>2, FedNumbers DEF FedInv, FedTyped, Fresh, CacheFresh, In, CacheType
  <2>3. ASSUME NEW t \in Tasks PROVE TaskShaped(task[t])' /\ TaskFresh(task[t])'
    BY <1>1 DEF TaskShaped, TaskFresh, In, NoTask
  <2> QED BY <1>1, <1>2, <2>1, <2>2, <2>3, LaterFresh DEF Fresh
<1>5. Unmingled'
  <2>1. \A p \in Processes : Cached(p)' => Cached(p)
    BY <1>1, FedNumbers DEF Cached, FedInv, FedTyped, CacheType
  <2> QED BY <1>1, <2>1 DEF FedInv, Unmingled
<1> QED BY <1>3, <1>4, <1>5 DEF FedInv

LEMMA FedInvNext == FedInv /\ [FedNext]_fedVars => FedInv'
<1> SUFFICES ASSUME FedInv, [FedNext]_fedVars PROVE FedInv'
  OBVIOUS
<1>1. CASE UNCHANGED fedVars
  BY <1>1
  DEF fedVars, FedInv, FedTyped, Fresh, FileFresh, CacheFresh, TaskShaped, TaskFresh, In,
      AnswersOutliveApprovalsBriefly, Unmingled, Cached
<1>2. CASE FedNext
  BY <1>2, TaskBeginsInv, FileReadInv, ApprovalsCachedInv, ProjectCheckedInv, QueryAnsweredInv,
     QueryHitsInv, WriteBeginsInv, WriteEndsInv, ProcessEndsInv, FedTickInv
  DEF FedNext
<1> QED BY <1>1, <1>2

(* The approvals of the federation for any projects, processes, tasks and  *)
(* lifetimes: no answer covers a project whose approval left the file      *)
(* longer ago than the two lifetimes together, and a revoked approval is   *)
(* back only after it was granted again, unless tasks overlapped or        *)
(* another process still had its own list.                                 *)
THEOREM AnswersAreApproved == FedSpec => []AnswersFollowApprovals
<1>1. FedInv => AnswersFollowApprovals
  <2> SUFFICES ASSUME FedInv PROVE AnswersFollowApprovals
    OBVIOUS
  <2>1. FedTypeOK
    BY DEF FedInv, FedTyped, FedTypeOK, CacheType, TaskType
  <2>2. RevokedStaysRevoked
    BY DEF FedInv, Unmingled, RevokedStaysRevoked
  <2> QED BY <2>1, <2>2 DEF FedInv, Fresh, AnswersFollowApprovals
<1> QED BY <1>1, FedInvInit, FedInvNext, PTL DEF FedSpec
-----------------------------------------------------------------------------
(* The distillation: what the entries up to the watermark yield is stored, *)
(* whatever became of the batches that got it there.                       *)

LoopType ==
  [at : InBatch \union {"off", "asleep"}, upto : 0 .. Len(chatLog), todo : SUBSET Memories,
   fact : SUBSET Memories, idle : 0 .. IdleStopRuns]

(* What a batch has passed is stored, or it still has it to insert. *)
LoopCovers(loop) ==
  /\ loop.at = "read" => Yields(1 .. loop.upto) \subseteq Stored
  /\ loop.at \in {"look", "write", "mark"} => Yields(1 .. loop.upto) \subseteq Stored \union loop.todo
  /\ loop.at = "mark" => loop.todo = {}
  /\ loop.at # "off" => loop.idle < IdleStopRuns

BatchesCover == \A w \in Workers, l \in Loops : LoopCovers(loops[w][l])

(* Nobody has looked at a memory that is procedural for good. *)
NotLookedAt == \A m \in frozen \ overlooked : \A w \in Workers : m \notin promoting[w]

DistillInv ==
  DistillTypeOK /\ MarkCovers /\ StatusTells /\ ProceduralStays /\ BatchesCover /\ NotLookedAt

LEMMA DistillNumbers ==
  /\ BatchSize \in Nat \ {0} /\ IdleStopRuns \in Nat \ {0} /\ MaxChat \in Nat
  /\ Extractions \subseteq SUBSET Memories
  /\ \A m \in Memories : InitialTier[m] \in Tiers /\ InitialTier[m] # "procedural"
BY DistillationAssumption DEF DistillationAssumption

LEMMA EntryFacts ==
  ASSUME NEW entry \in Entry
  PROVE  /\ entry.facts \subseteq Memories
         /\ entry.role = "system" => entry.facts = {}
BY DistillNumbers DEF Entry

LEMMA DistillInvInit == DistillInit => DistillInv
<1> SUFFICES ASSUME DistillInit PROVE DistillInv
  OBVIOUS
<1>1. DistillTypeOK
  <2>1. NoLoop \in LoopType
    BY DistillNumbers DEF NoLoop, LoopType, DistillInit
  <2>2. loops \in [Workers -> [Loops -> LoopType]]
    BY <2>1 DEF DistillInit
  <2>3. chatLog \in Seq(Entry) /\ Len(chatLog) = 0
    BY DEF DistillInit
  <2> QED BY <2>2, <2>3, DistillNumbers DEF DistillInit, DistillTypeOK, LoopType
<1>2. MarkCovers
  BY DEF DistillInit, MarkCovers, Yields
<1>3. \A w \in Workers, l \in Loops : loops[w][l] = NoLoop
  BY DEF DistillInit
<1>4. StatusTells
  <2>1. \A w \in Workers : LoopsOf(w) = {}
    BY <1>3 DEF LoopsOf, NoLoop
  <2> QED BY <2>1 DEF DistillInit, StatusTells
<1>5. BatchesCover
  BY <1>3 DEF BatchesCover, LoopCovers, NoLoop
<1>6. ProceduralStays /\ NotLookedAt
  BY DEF DistillInit, ProceduralStays, NotLookedAt
<1> QED BY <1>1, <1>2, <1>4, <1>5, <1>6 DEF DistillInv

(* The loops and the typed rest as a step leaves them. *)
LEMMA LoopTyped ==
  ASSUME DistillTypeOK, NEW w \in Workers, NEW l \in Loops
  PROVE  loops[w][l] \in LoopType
BY DEF DistillTypeOK, LoopType

LEMMA ChatTyped ==
  ASSUME DistillTypeOK, NEW n \in DOMAIN chatLog
  PROVE  /\ n \in 1 .. Len(chatLog)
         /\ chatLog[n] \in Entry
         /\ chatLog[n].facts \subseteq Memories
         /\ chatLog[n].role = "system" => chatLog[n].facts = {}
<1>1. chatLog \in Seq(Entry)
  BY DEF DistillTypeOK
<1>2. n \in 1 .. Len(chatLog) /\ chatLog[n] \in Entry
  BY <1>1
<1> QED BY <1>2, EntryFacts

(* What the rows of a batch yield, with all before the watermark it read,  *)
(* is all that the entries up to its last row yield.                       *)
LEMMA BatchIsWhole ==
  ASSUME DistillTypeOK, NEW since \in Nat, NEW last \in BatchRows(since),
         \A n \in BatchRows(since) : n <= last
  PROVE  /\ last \in 1 .. Len(chatLog)
         /\ Yields(1 .. last) \subseteq Yields(1 .. since) \union Yields(BatchRows(since))
         /\ Yields(BatchRows(since)) \subseteq Memories
<1> DEFINE upTo(n) == {k \in Unread(since) : k <= n}
<1>1. Len(chatLog) \in Nat /\ DOMAIN chatLog = 1 .. Len(chatLog)
  BY DEF DistillTypeOK
<1>2. Unread(since) \subseteq 1 .. Len(chatLog) /\ BatchRows(since) \subseteq Unread(since)
  BY <1>1 DEF Unread, BatchRows
<1>3. last \in 1 .. Len(chatLog) /\ Cardinality(upTo(last)) <= BatchSize
  BY <1>2 DEF BatchRows
<1>4. ASSUME NEW n \in Unread(since), n <= last
      PROVE  n \in BatchRows(since)
  <2>1. upTo(n) \subseteq upTo(last) /\ upTo(last) \subseteq 1 .. Len(chatLog)
    BY <1>1, <1>2, <1>3, <1>4
  <2>2. IsFiniteSet(upTo(last)) /\ IsFiniteSet(upTo(n))
    <3>1. IsFiniteSet(1 .. Len(chatLog))
      BY <1>1, FS_Interval
    <3>2. IsFiniteSet(upTo(last))
      BY <2>1, <3>1, FS_Subset
    <3> QED BY <2>1, <3>2, FS_Subset
  <2>3. Cardinality(upTo(n)) <= Cardinality(upTo(last))
        /\ Cardinality(upTo(n)) \in Nat /\ Cardinality(upTo(last)) \in Nat
    BY <2>1, <2>2, FS_Subset, FS_CardinalityType
  <2>4. Cardinality(upTo(n)) <= BatchSize
    BY <1>3, <2>3, DistillNumbers
  <2> QED BY <2>4 DEF BatchRows
<1>5. ASSUME NEW n \in 1 .. last
      PROVE  chatLog[n].facts \subseteq Yields(1 .. since) \union Yields(BatchRows(since))
  <2>1. n \in DOMAIN chatLog
    BY <1>1, <1>3, <1>5
  <2>2. CASE n <= since
    BY <2>2, <1>5, <1>3 DEF Yields
  <2>3. CASE n > since /\ chatLog[n].role = "system"
    BY <2>1, <2>3, ChatTyped
  <2>4. CASE n > since /\ chatLog[n].role # "system"
    <3>1. n \in Unread(since)
      BY <2>1, <2>4 DEF Unread
    <3>2. n \in BatchRows(since)
      BY <3>1, <1>4, <1>5, <1>3
    <3> QED BY <3>2 DEF Yields
  <2> QED BY <2>2, <2>3, <2>4, <1>5, <1>3
<1>6. Yields(1 .. last) \subseteq Yields(1 .. since) \union Yields(BatchRows(since))
  BY <1>5 DEF Yields
<1>7. Yields(BatchRows(since)) \subseteq Memories
  BY <1>1, <1>2, ChatTyped DEF Yields
<1> QED BY <1>3, <1>6, <1>7

(* A step that changes one loop and takes nothing out of the store. *)
LEMMA OneLoop ==
  ASSUME DistillInv, NEW w \in Workers, NEW l \in Loops, NEW loop \in LoopType,
         LoopIs(w, l, loop), UNCHANGED chatLog, Stored \subseteq Stored', LoopCovers(loop)'
  PROVE  /\ loops' \in [Workers -> [Loops -> LoopType]]
         /\ BatchesCover'
         /\ \A v \in Workers \ {w} : LoopsOf(v)' = LoopsOf(v)
         /\ LoopsOf(w)' = IF loop.at = "off" THEN LoopsOf(w) \ {l} ELSE LoopsOf(w) \union {l}
<1>1. loops \in [Workers -> [Loops -> LoopType]]
  BY DEF DistillInv, DistillTypeOK, LoopType
<1>2. \A v \in Workers, k \in Loops :
        loops'[v][k] = IF v = w /\ k = l THEN loop ELSE loops[v][k]
  BY <1>1 DEF LoopIs
<1>3. loops' \in [Workers -> [Loops -> LoopType]]
  BY <1>1 DEF LoopIs
<1>4. BatchesCover'
  <2> SUFFICES ASSUME NEW v \in Workers, NEW k \in Loops PROVE LoopCovers(loops[v][k])'
    BY DEF BatchesCover
  <2>1. CASE v = w /\ k = l
    BY <1>2, <2>1 DEF LoopCovers
  <2>2. CASE ~ (v = w /\ k = l)
    <3>1. loops'[v][k] = loops[v][k]
      BY <1>2, <2>2
    <3>2. LoopCovers(loops[v][k])
      BY DEF DistillInv, BatchesCover
    <3> QED BY <3>1, <3>2 DEF LoopCovers, Yields
  <2> QED BY <2>1, <2>2
<1>5. \A v \in Workers \ {w} : LoopsOf(v)' = LoopsOf(v)
  BY <1>2 DEF LoopsOf
<1>6. LoopsOf(w)' = IF loop.at = "off" THEN LoopsOf(w) \ {l} ELSE LoopsOf(w) \union {l}
  BY <1>2 DEF LoopsOf
<1> QED BY <1>3, <1>4, <1>5, <1>6

(* A step of a loop that goes on. *)
LEMMA LoopGoesOn ==
  ASSUME DistillInv, NEW w \in Workers, NEW l \in Loops, l \in LoopsOf(w),
         NEW loop \in LoopType, loop.at # "off", LoopIs(w, l, loop),
         UNCHANGED <<chatLog, workerVars, tierVars>>,
         memories' \in [Memories -> Tiers \union {"none"}],
         \A m \in Stored : memories'[m] = memories[m],
         mark' \in 0 .. Len(chatLog), Yields(1 .. mark') \subseteq Stored', LoopCovers(loop)'
  PROVE  DistillInv'
<1>1. Stored \subseteq Stored'
  BY DEF Stored
<1>2. /\ loops' \in [Workers -> [Loops -> LoopType]]
      /\ BatchesCover'
      /\ \A v \in Workers : LoopsOf(v)' = LoopsOf(v)
  <2>1. /\ loops' \in [Workers -> [Loops -> LoopType]]
        /\ BatchesCover'
        /\ \A v \in Workers \ {w} : LoopsOf(v)' = LoopsOf(v)
        /\ LoopsOf(w)' = IF loop.at = "off" THEN LoopsOf(w) \ {l} ELSE LoopsOf(w) \union {l}
    BY <1>1, OneLoop
  <2>2. LoopsOf(w)' = LoopsOf(w)
    BY <2>1
  <2> QED BY <2>1, <2>2
<1>3. DistillTypeOK'
  BY <1>2 DEF DistillInv, DistillTypeOK, LoopType, workerVars, tierVars
<1>4. MarkCovers'
  BY DEF MarkCovers, Yields
<1>5. StatusTells'
  BY <1>2 DEF DistillInv, StatusTells, workerVars
<1>6. ProceduralStays' /\ NotLookedAt'
  <2>1. \A m \in frozen \ overlooked : m \in Stored
    BY DEF DistillInv, DistillTypeOK, ProceduralStays, Stored
  <2> QED BY <2>1 DEF DistillInv, ProceduralStays, NotLookedAt, tierVars
<1> QED BY <1>2, <1>3, <1>4, <1>5, <1>6 DEF DistillInv

(* A loop that is left, or thrown out of. *)
LEMMA LoopEnds ==
  ASSUME DistillInv, NEW w \in Workers, NEW l \in Loops, l \in LoopsOf(w),
         Leaves(w, l) \/ BatchThrows(w, l), UNCHANGED <<memoryVars, tierVars>>
  PROVE  DistillInv'
<1>1. LoopIs(w, l, NoLoop) /\ UNCHANGED chatLog /\ Stored' = Stored
  BY DEF Leaves, BatchThrows, memoryVars, Stored
<1>2. NoLoop \in LoopType /\ LoopCovers(NoLoop)' /\ NoLoop.at = "off"
  BY DistillNumbers DEF NoLoop, LoopType, LoopCovers, DistillInv, DistillTypeOK
<1>3. PICK loop : loop = NoLoop
  OBVIOUS
<1>4. LoopCovers(loop)'
  BY <1>2, <1>3 DEF LoopCovers, NoLoop
<1>5. /\ loops' \in [Workers -> [Loops -> LoopType]]
      /\ BatchesCover'
      /\ \A v \in Workers \ {w} : LoopsOf(v)' = LoopsOf(v)
      /\ LoopsOf(w)' = LoopsOf(w) \ {l}
  BY <1>1, <1>2, <1>3, <1>4, OneLoop
<1>6. /\ workerStatus' \in [Workers -> {"idle", "running", "stopping", "stopped"}]
      /\ deaf' \in [Workers -> BOOLEAN]
      /\ UNCHANGED <<stopRequested, heard, starts, doubled>>
  BY DEF Leaves, BatchThrows, DistillInv, DistillTypeOK
<1>7. DistillTypeOK'
  BY <1>5, <1>6 DEF DistillInv, DistillTypeOK, LoopType, memoryVars, tierVars
<1>8. MarkCovers'
  BY <1>1 DEF DistillInv, MarkCovers, Yields, memoryVars
<1>9. StatusTells'
  <2> SUFFICES ASSUME NEW v \in Workers, ~ doubled'[v], ~ deaf'[v]
               PROVE  IF workerStatus'[v] \in {"running", "stopping"}
                        THEN \E k \in Loops : LoopsOf(v)' = {k} ELSE LoopsOf(v)' = {}
    BY DEF StatusTells
  <2>1. CASE v # w
    <3>1. workerStatus'[v] = workerStatus[v] /\ deaf'[v] = deaf[v] /\ doubled'[v] = doubled[v]
      BY <2>1, <1>6 DEF Leaves, BatchThrows, DistillInv, DistillTypeOK
    <3> QED BY <3>1, <2>1, <1>5 DEF DistillInv, StatusTells
  <2>2. CASE v = w
    <3>1. Leaves(w, l)
      BY <2>2 DEF BatchThrows, DistillInv, DistillTypeOK
    <3>2. workerStatus'[w] = "stopped" /\ ~ deaf[w] /\ ~ doubled[w]
      BY <3>1, <2>2 DEF Leaves, DistillInv, DistillTypeOK
    <3>3. \E k \in Loops : LoopsOf(w) = {k}
      BY <3>2 DEF DistillInv, StatusTells
    <3> QED BY <3>2, <3>3, <1>5, <2>2
  <2> QED BY <2>1, <2>2
<1>10. ProceduralStays' /\ NotLookedAt'
  BY DEF DistillInv, ProceduralStays, NotLookedAt, tierVars, memoryVars
<1> QED BY <1>5, <1>7, <1>8, <1>9, <1>10 DEF DistillInv

(* Steps of a batch. *)
LEMMA BatchStepInv ==
  ASSUME DistillInv, NEW w \in Workers, NEW l \in Loops, BatchStep(w, l), UNCHANGED tierVars
  PROVE  DistillInv'
<1> USE DistillNumbers
<1>1. /\ loops[w][l] \in LoopType
      /\ LoopCovers(loops[w][l])
      /\ Len(chatLog) \in Nat /\ mark \in 0 .. Len(chatLog)
      /\ memories \in [Memories -> Tiers \union {"none"}]
      /\ Yields(1 .. mark) \subseteq Stored
  BY LoopTyped DEF DistillInv, DistillTypeOK, BatchesCover, MarkCovers
<1>2. l \in LoopsOf(w)
  BY DEF BatchStep, BatchBegins, BatchReads, BatchIsEmpty, InsertLooks, InsertWrites,
         InsertConflicts, MarkWrites, LoopWakes, LoopsOf
<1>3. ASSUME UNCHANGED <<memoryVars, workerVars>>, NEW loop \in LoopType, loop.at # "off",
             LoopIs(w, l, loop), LoopCovers(loop)
      PROVE  DistillInv'
  <2>1. LoopCovers(loop)' /\ Yields(1 .. mark') \subseteq Stored' /\ mark' \in 0 .. Len(chatLog)
    BY <1>1, <1>3 DEF LoopCovers, Yields, Stored, memoryVars
  <2>2. memories' \in [Memories -> Tiers \union {"none"}] /\ \A m \in Stored : memories'[m] = memories[m]
    BY <1>1, <1>3 DEF memoryVars
  <2> QED BY <1>2, <1>3, <2>1, <2>2, LoopGoesOn DEF memoryVars
<1>4. CASE BatchBegins(w, l)
  <2>1. PICK loop : loop = [loops[w][l] EXCEPT !.at = "read", !.upto = mark]
    OBVIOUS
  <2>2. loop \in LoopType /\ loop.at = "read" /\ loop.upto = mark /\ loop.idle = loops[w][l].idle
    BY <1>1, <2>1 DEF LoopType, InBatch
  <2>3. LoopCovers(loop)
    BY <1>1, <1>4, <2>2 DEF LoopCovers, BatchBegins
  <2> QED BY <1>3, <1>4, <2>1, <2>2, <2>3 DEF BatchBegins
<1>5. CASE BatchReads(w, l)
  <2>1. PICK since : since = loops[w][l].upto
    OBVIOUS
  <2>2. PICK last \in BatchRows(since) :
          /\ \A n \in BatchRows(since) : n <= last
          /\ LoopIs(w, l, [at |-> PhaseOf(Yields(BatchRows(since))), upto |-> last,
                            todo |-> Yields(BatchRows(since)), fact |-> {}, idle |-> 0])
    BY <1>5, <2>1 DEF BatchReads
  <2>3. PICK loop : loop = [at |-> PhaseOf(Yields(BatchRows(since))), upto |-> last,
                            todo |-> Yields(BatchRows(since)), fact |-> {}, idle |-> 0]
    OBVIOUS
  <2>4. since \in Nat
    BY <1>1, <2>1 DEF LoopType
  <2>5. /\ last \in 1 .. Len(chatLog)
        /\ Yields(1 .. last) \subseteq Yields(1 .. since) \union Yields(BatchRows(since))
        /\ Yields(BatchRows(since)) \subseteq Memories
    BY <2>2, <2>4, BatchIsWhole DEF DistillInv
  <2>6. Yields(1 .. since) \subseteq Stored
    BY <1>1, <1>5, <2>1 DEF LoopCovers, BatchReads
  <2>7. loop.at \in {"look", "mark"} /\ (loop.at = "mark" => loop.todo = {})
    BY <2>3 DEF PhaseOf
  <2>8. loop \in LoopType
    BY <2>3, <2>5, <2>7, <1>1 DEF LoopType, InBatch
  <2>9. LoopCovers(loop)
    BY <2>3, <2>5, <2>6, <2>7 DEF LoopCovers
  <2> QED BY <1>3, <1>5, <2>2, <2>3, <2>7, <2>8, <2>9 DEF BatchReads
<1>6. CASE BatchIsEmpty(w, l)
  <2>1. CASE loops[w][l].idle + 1 >= IdleStopRuns
    BY <1>2, <1>6, <2>1, LoopEnds DEF BatchIsEmpty
  <2>2. CASE ~ (loops[w][l].idle + 1 >= IdleStopRuns)
    <3>1. PICK loop : loop = [NoLoop EXCEPT !.at = "asleep", !.idle = loops[w][l].idle + 1]
      OBVIOUS
    <3>2. loops[w][l].idle \in 0 .. IdleStopRuns
      BY <1>1 DEF LoopType
    <3>3. PICK idle : idle = loops[w][l].idle + 1
      OBVIOUS
    <3>4. /\ loop = [at |-> "asleep", upto |-> 0, todo |-> {}, fact |-> {}, idle |-> idle]
          /\ idle \in 0 .. IdleStopRuns /\ idle < IdleStopRuns
      <4>1. idle \in 0 .. IdleStopRuns /\ idle < IdleStopRuns
        BY <2>2, <3>2, <3>3
      <4>2. loop = [NoLoop EXCEPT !.at = "asleep", !.idle = idle]
        BY <3>1, <3>3
      <4> QED BY <4>1, <4>2 DEF NoLoop
    <3>5. 0 \in 0 .. Len(chatLog)
      BY <1>1
    <3>6. loop.at = "asleep" /\ loop \in LoopType /\ loop.idle < IdleStopRuns
      BY <3>4, <3>5 DEF LoopType
    <3>7. LoopCovers(loop)
      BY <3>6 DEF LoopCovers
    <3>8. LoopIs(w, l, loop) /\ UNCHANGED <<memoryVars, workerVars>>
      BY <1>6, <2>2, <3>1 DEF BatchIsEmpty
    <3> QED BY <1>3, <3>6, <3>7, <3>8
  <2> QED BY <2>1, <2>2
<1>7. CASE InsertLooks(w, l)
  <2>1. PICK m \in loops[w][l].todo :
          LoopIs(w, l, IF m \in Stored
                          THEN [loops[w][l] EXCEPT !.at = PhaseOf(loops[w][l].todo \ {m}),
                                                   !.todo = loops[w][l].todo \ {m}]
                          ELSE [loops[w][l] EXCEPT !.at = "write", !.fact = {m}])
    BY <1>7 DEF InsertLooks
  <2>2. CASE m \in Stored
    <3>1. PICK loop : loop = [loops[w][l] EXCEPT !.at = PhaseOf(loops[w][l].todo \ {m}),
                                                 !.todo = loops[w][l].todo \ {m}]
      OBVIOUS
    <3>2. /\ loop.at \in {"look", "mark"} /\ loop.todo = loops[w][l].todo \ {m}
          /\ loop.at = "mark" => loop.todo = {}
          /\ loop.upto = loops[w][l].upto /\ loop.idle = loops[w][l].idle
          /\ loop \in LoopType
      BY <1>1, <3>1 DEF LoopType, InBatch, PhaseOf
    <3>3. LoopCovers(loop)
      BY <1>1, <1>7, <2>2, <3>2 DEF LoopCovers, InsertLooks
    <3> QED BY <1>3, <1>7, <2>1, <2>2, <3>1, <3>2, <3>3 DEF InsertLooks
  <2>3. CASE m \notin Stored
    <3>1. PICK loop : loop = [loops[w][l] EXCEPT !.at = "write", !.fact = {m}]
      OBVIOUS
    <3>2. /\ loop.at = "write" /\ loop.todo = loops[w][l].todo
          /\ loop.upto = loops[w][l].upto /\ loop.idle = loops[w][l].idle
          /\ loop \in LoopType
      BY ZenonT(40), <1>1, <2>1, <3>1 DEF LoopType, InBatch
    <3>3. LoopCovers(loop)
      BY <1>1, <1>7, <3>2 DEF LoopCovers, InsertLooks
    <3> QED BY <1>3, <1>7, <2>1, <2>3, <3>1, <3>2, <3>3 DEF InsertLooks
  <2> QED BY <2>2, <2>3
<1>8. CASE InsertWrites(w, l)
  <2>1. PICK rest : rest = loops[w][l].todo \ loops[w][l].fact
    OBVIOUS
  <2>2. PICK loop : loop = [loops[w][l] EXCEPT !.at = PhaseOf(rest), !.todo = rest, !.fact = {}]
    OBVIOUS
  <2>3. /\ loop.at \in {"look", "mark"} /\ loop.todo = rest
        /\ loop.at = "mark" => loop.todo = {}
        /\ loop.upto = loops[w][l].upto /\ loop.idle = loops[w][l].idle
        /\ loop \in LoopType
    BY <1>1, <2>1, <2>2 DEF LoopType, InBatch, PhaseOf
  <2>4. /\ memories' \in [Memories -> Tiers \union {"none"}]
        /\ \A m \in Stored : memories'[m] = memories[m]
        /\ Stored' = Stored \union loops[w][l].fact
    BY <1>1, <1>8 DEF InsertWrites, Stored, LoopType, Tiers
  <2>5. Yields(1 .. loop.upto) \subseteq Stored \union loops[w][l].todo
    BY <1>1, <1>8, <2>3 DEF LoopCovers, InsertWrites
  <2>6. Yields(1 .. loop.upto)' = Yields(1 .. loop.upto) /\ Yields(1 .. mark') = Yields(1 .. mark)
    BY <1>8 DEF InsertWrites, Yields
  <2>7. LoopCovers(loop)'
    BY <1>1, <1>8, <2>1, <2>3, <2>4, <2>5, <2>6 DEF LoopCovers, InsertWrites
  <2>8. LoopIs(w, l, loop) /\ UNCHANGED <<chatLog, mark, workerVars>>
    BY <1>8, <2>1, <2>2 DEF InsertWrites
  <2> QED BY <1>1, <1>2, <2>3, <2>4, <2>6, <2>7, <2>8, LoopGoesOn
<1>9. CASE InsertConflicts(w, l)
  BY <1>2, <1>9, LoopEnds DEF InsertConflicts
<1>10. CASE MarkWrites(w, l)
  <2>1. PICK loop : loop = [NoLoop EXCEPT !.at = "asleep"]
    OBVIOUS
  <2>2. loop.at = "asleep" /\ loop \in LoopType /\ loop.idle = 0
    BY <1>1, <2>1 DEF LoopType, NoLoop
  <2>3. LoopCovers(loop)'
    BY <2>2 DEF LoopCovers
  <2>4. /\ Yields(1 .. mark') \subseteq Stored /\ mark' \in 0 .. Len(chatLog)
    BY <1>1, <1>10 DEF LoopCovers, LoopType, MarkWrites, NewMark
  <2>5. Stored' = Stored
    BY <1>10 DEF MarkWrites, Stored
  <2> QED BY <1>1, <1>2, <1>10, <2>1, <2>2, <2>3, <2>4, <2>5, LoopGoesOn DEF MarkWrites
<1>11. CASE LoopWakes(w, l)
  <2>1. CASE stopRequested[w]
    BY <1>2, <1>11, <2>1, LoopEnds DEF LoopWakes
  <2>2. CASE ~ stopRequested[w]
    <3>1. PICK loop : loop = [loops[w][l] EXCEPT !.at = "begin"]
      OBVIOUS
    <3>2. loop.at = "begin" /\ loop \in LoopType /\ loop.idle = loops[w][l].idle
      BY <1>1, <3>1 DEF LoopType, InBatch
    <3>3. LoopCovers(loop)
      BY <1>1, <1>11, <3>2 DEF LoopCovers, LoopWakes
    <3> QED BY <1>3, <1>11, <2>2, <3>1, <3>2, <3>3 DEF LoopWakes
  <2> QED BY <2>1, <2>2
<1> QED BY <1>4, <1>5, <1>6, <1>7, <1>8, <1>9, <1>10, <1>11 DEF BatchStep


(* Steps that leave the loops and what they have read alone. *)
LEMMA BatchesKeep ==
  ASSUME DistillInv, UNCHANGED <<loops, chatLog>>, Stored \subseteq Stored'
  PROVE  BatchesCover'
<1> SUFFICES ASSUME NEW w \in Workers, NEW l \in Loops PROVE LoopCovers(loops[w][l])'
  BY DEF BatchesCover
<1>1. LoopCovers(loops[w][l])
  BY DEF DistillInv, BatchesCover
<1> QED BY <1>1 DEF LoopCovers, Yields

LEMMA ChatGrowsInv ==
  ASSUME DistillInv, ChatGrows
  PROVE  DistillInv'
<1> USE DistillNumbers
<1>1. chatLog \in Seq(Entry) /\ Len(chatLog) \in Nat /\ mark \in 0 .. Len(chatLog)
  BY DEF DistillInv, DistillTypeOK
<1>2. PICK entry \in Entry : chatLog' = Append(chatLog, entry)
  BY DEF ChatGrows
<1>3. /\ chatLog' \in Seq(Entry) /\ Len(chatLog') = Len(chatLog) + 1
      /\ \A n \in 1 .. Len(chatLog) : chatLog'[n] = chatLog[n]
  BY <1>1, <1>2, AppendProperties
<1>4. Len(chatLog') <= MaxChat
  BY <1>1, <1>3 DEF ChatGrows
<1>5. ASSUME NEW n \in 0 .. Len(chatLog) PROVE Yields(1 .. n)' = Yields(1 .. n)
  <2>1. \A k \in 1 .. n : chatLog'[k] = chatLog[k]
    BY <1>1, <1>3
  <2> QED BY <2>1 DEF Yields
<1>6. UNCHANGED <<memories, mark, loops, workerVars, tierVars>> /\ Stored' = Stored
  BY DEF ChatGrows, Stored
<1>7. \A w \in Workers, l \in Loops :
        /\ loops[w][l] \in LoopType /\ LoopCovers(loops[w][l])
        /\ loops[w][l].upto \in 0 .. Len(chatLog)
  BY LoopTyped DEF DistillInv, BatchesCover, LoopType
<1>8. loops \in [Workers -> [Loops -> LoopType']]
  <2>1. \A loop \in LoopType : loop \in LoopType'
    BY <1>1, <1>3 DEF LoopType, InBatch
  <2>2. loops \in [Workers -> [Loops -> LoopType]]
    BY DEF DistillInv, DistillTypeOK, LoopType
  <2> QED BY <2>1, <2>2
<1>9. DistillTypeOK'
  BY <1>1, <1>3, <1>4, <1>6, <1>8 DEF DistillInv, DistillTypeOK, LoopType, workerVars, tierVars
<1>10. MarkCovers'
  BY <1>1, <1>5, <1>6 DEF DistillInv, MarkCovers
<1>11. BatchesCover'
  <2> SUFFICES ASSUME NEW w \in Workers, NEW l \in Loops PROVE LoopCovers(loops[w][l])'
    BY DEF BatchesCover
  <2>1. Yields(1 .. loops[w][l].upto)' = Yields(1 .. loops[w][l].upto)
    BY <1>5, <1>6, <1>7
  <2> QED BY <2>1, <1>6, <1>7 DEF LoopCovers
<1>12. StatusTells' /\ ProceduralStays' /\ NotLookedAt'
  BY <1>6 DEF DistillInv, StatusTells, LoopsOf, ProceduralStays, NotLookedAt, workerVars, tierVars
<1> QED BY <1>9, <1>10, <1>11, <1>12 DEF DistillInv

LEMMA WorkerStartsInv ==
  ASSUME DistillInv, NEW w \in Workers, NEW l \in Loops, WorkerStarts(w, l)
  PROVE  DistillInv'
<1> USE DistillNumbers
<1>1. PICK loop : loop = [NoLoop EXCEPT !.at = "begin"]
  OBVIOUS
<1>2. loop = [at |-> "begin", upto |-> 0, todo |-> {}, fact |-> {}, idle |-> 0]
  BY <1>1 DEF NoLoop
<1>3. loop \in LoopType /\ loop.at = "begin" /\ loop.idle = 0
  BY <1>2 DEF LoopType, InBatch, DistillInv, DistillTypeOK
<1>4. LoopCovers(loop)'
  BY <1>3 DEF LoopCovers
<1>5. LoopIs(w, l, loop) /\ UNCHANGED <<memoryVars, heard, deaf, tierVars>> /\ Stored' = Stored
  BY <1>1 DEF WorkerStarts, LoopIs, Stored, memoryVars
<1>6. /\ loops' \in [Workers -> [Loops -> LoopType]]
      /\ BatchesCover'
      /\ \A v \in Workers \ {w} : LoopsOf(v)' = LoopsOf(v)
      /\ LoopsOf(w)' = IF loop.at = "off" THEN LoopsOf(w) \ {l} ELSE LoopsOf(w) \union {l}
  BY <1>3, <1>4, <1>5, OneLoop DEF memoryVars
<1>7. DistillTypeOK'
  BY <1>5, <1>6 DEF DistillInv, DistillTypeOK, LoopType, WorkerStarts, memoryVars, tierVars
<1>8. MarkCovers' /\ ProceduralStays' /\ NotLookedAt'
  BY <1>5 DEF DistillInv, MarkCovers, Yields, ProceduralStays, NotLookedAt, memoryVars, tierVars
<1>9. StatusTells'
  <2> SUFFICES ASSUME NEW v \in Workers, ~ doubled'[v], ~ deaf'[v]
               PROVE  IF workerStatus'[v] \in {"running", "stopping"}
                        THEN \E k \in Loops : LoopsOf(v)' = {k} ELSE LoopsOf(v)' = {}
    BY DEF StatusTells
  <2>1. CASE v # w
    <3>1. workerStatus'[v] = workerStatus[v] /\ deaf'[v] = deaf[v] /\ doubled'[v] = doubled[v]
      BY <2>1, <1>5 DEF WorkerStarts, DistillInv, DistillTypeOK
    <3> QED BY <3>1, <2>1, <1>6 DEF DistillInv, StatusTells
  <2>2. CASE v = w
    <3>1. LoopsOf(w) = {} /\ workerStatus'[w] = "running"
      BY <2>2 DEF WorkerStarts, DistillInv, DistillTypeOK
    <3>2. LoopsOf(w)' = {l}
      BY <3>1, <1>3, <1>6
    <3> QED BY <3>1, <3>2, <2>2
  <2> QED BY <2>1, <2>2
<1> QED BY <1>6, <1>7, <1>8, <1>9 DEF DistillInv

LEMMA WorkerStopsInv ==
  ASSUME DistillInv, NEW w \in Workers, WorkerStops(w)
  PROVE  DistillInv'
<1>1. UNCHANGED <<memoryVars, loops, heard, starts, doubled, deaf, tierVars>> /\ Stored' = Stored
  BY DEF WorkerStops, Stored, memoryVars
<1>2. DistillTypeOK'
  BY <1>1 DEF DistillInv, DistillTypeOK, WorkerStops, memoryVars, tierVars
<1>3. MarkCovers' /\ ProceduralStays' /\ NotLookedAt'
  BY <1>1 DEF DistillInv, MarkCovers, Yields, ProceduralStays, NotLookedAt, memoryVars, tierVars
<1>4. BatchesCover'
  BY <1>1, BatchesKeep DEF memoryVars
<1>5. \A v \in Workers :
        workerStatus'[v] \in {"running", "stopping"} <=> workerStatus[v] \in {"running", "stopping"}
  BY DEF WorkerStops, DistillInv, DistillTypeOK
<1>6. StatusTells'
  BY <1>1, <1>5 DEF DistillInv, StatusTells, LoopsOf
<1> QED BY <1>2, <1>3, <1>4, <1>6 DEF DistillInv

LEMMA ProcessDiesInv ==
  ASSUME DistillInv, NEW w \in Workers, ProcessDies(w)
  PROVE  DistillInv'
<1> USE DistillNumbers
<1>1. UNCHANGED <<memoryVars, heard, starts, promotions, frozen, overlooked>> /\ Stored' = Stored
  BY DEF ProcessDies, Stored, memoryVars
<1>2. \A v \in Workers, k \in Loops : loops'[v][k] = IF v = w THEN NoLoop ELSE loops[v][k]
  BY DEF ProcessDies, DistillInv, DistillTypeOK
<1>3. NoLoop \in LoopType /\ NoLoop.at = "off"
  BY DEF NoLoop, LoopType, DistillInv, DistillTypeOK
<1>4. loops' \in [Workers -> [Loops -> LoopType]]
  <2>1. loops \in [Workers -> [Loops -> LoopType]]
    BY DEF DistillInv, DistillTypeOK, LoopType
  <2> QED BY <2>1, <1>3 DEF ProcessDies
<1>5. DistillTypeOK'
  BY <1>1, <1>4 DEF DistillInv, DistillTypeOK, LoopType, ProcessDies, memoryVars
<1>6. MarkCovers' /\ ProceduralStays'
  BY <1>1 DEF DistillInv, MarkCovers, Yields, ProceduralStays, memoryVars
<1>7. NotLookedAt'
  <2>1. \A v \in Workers : promoting'[v] \subseteq promoting[v]
    BY DEF ProcessDies, DistillInv, DistillTypeOK
  <2> QED BY <2>1, <1>1 DEF DistillInv, NotLookedAt
<1>8. BatchesCover'
  <2> SUFFICES ASSUME NEW v \in Workers, NEW k \in Loops PROVE LoopCovers(loops[v][k])'
    BY DEF BatchesCover
  <2>1. CASE v = w
    BY <2>1, <1>2, <1>3 DEF LoopCovers
  <2>2. CASE v # w
    <3>1. LoopCovers(loops[v][k]) /\ loops'[v][k] = loops[v][k]
      BY <2>2, <1>2 DEF DistillInv, BatchesCover
    <3> QED BY <3>1, <1>1 DEF LoopCovers, Yields, memoryVars
  <2> QED BY <2>1, <2>2
<1>9. StatusTells'
  <2>1. \A v \in Workers : LoopsOf(v)' = IF v = w THEN {} ELSE LoopsOf(v)
    BY <1>2, <1>3 DEF LoopsOf
  <2>2. \A v \in Workers :
          IF v = w THEN workerStatus'[v] = "idle"
                   ELSE /\ workerStatus'[v] = workerStatus[v]
                        /\ doubled'[v] = doubled[v] /\ deaf'[v] = deaf[v]
    BY DEF ProcessDies, DistillInv, DistillTypeOK
  <2> QED BY <2>1, <2>2 DEF DistillInv, StatusTells
<1> QED BY <1>5, <1>6, <1>7, <1>8, <1>9 DEF DistillInv

LEMMA PromoteLooksInv ==
  ASSUME DistillInv, NEW w \in Workers, NEW m \in Memories, PromoteLooks(w, m)
  PROVE  DistillInv'
<1>1. UNCHANGED <<memoryVars, loops, workerVars, frozen, overlooked>> /\ Stored' = Stored
  BY DEF PromoteLooks, Stored, memoryVars
<1>2. DistillTypeOK'
  BY <1>1 DEF DistillInv, DistillTypeOK, PromoteLooks, memoryVars, workerVars
<1>3. MarkCovers' /\ ProceduralStays' /\ StatusTells'
  BY <1>1 DEF DistillInv, MarkCovers, Yields, ProceduralStays, StatusTells, LoopsOf, memoryVars, workerVars
<1>4. NotLookedAt'
  <2>1. m \notin frozen \ overlooked
    BY DEF PromoteLooks, DistillInv, ProceduralStays
  <2>2. \A v \in Workers : promoting'[v] = IF v = w THEN {m} ELSE promoting[v]
    BY DEF PromoteLooks, DistillInv, DistillTypeOK
  <2> QED BY <1>1, <2>1, <2>2 DEF DistillInv, NotLookedAt
<1>5. BatchesCover'
  BY <1>1, BatchesKeep DEF memoryVars
<1> QED BY <1>2, <1>3, <1>4, <1>5 DEF DistillInv

LEMMA PromoteWritesInv ==
  ASSUME DistillInv, NEW w \in Workers, NEW m \in Memories, PromoteWrites(w, m)
  PROVE  DistillInv'
<1>1. PICK tier \in Tiers :
        /\ memories' = [memories EXCEPT ![m] = tier]
        /\ frozen' = IF tier = "procedural" THEN frozen \union {m} ELSE frozen
        /\ overlooked' = IF tier = "procedural" /\ \E v \in Workers \ {w} : m \in promoting[v]
                           THEN overlooked \union {m} ELSE overlooked
  BY DEF PromoteWrites
<1>2. UNCHANGED <<chatLog, mark, loops, workerVars, promotions>>
  BY DEF PromoteWrites
<1>3. /\ memories' \in [Memories -> Tiers \union {"none"}]
      /\ \A k \in Memories : memories'[k] = IF k = m THEN tier ELSE memories[k]
  BY <1>1 DEF DistillInv, DistillTypeOK
<1>4. Stored \subseteq Stored'
  BY <1>3 DEF Stored, Tiers
<1>5. \A v \in Workers : promoting'[v] = IF v = w THEN {} ELSE promoting[v]
  BY DEF PromoteWrites, DistillInv, DistillTypeOK
<1>6. m \notin frozen \ overlooked
  BY DEF PromoteWrites, DistillInv, NotLookedAt
<1>7. promoting' \in [Workers -> SUBSET Memories]
  BY DEF PromoteWrites, DistillInv, DistillTypeOK
<1>8. DistillTypeOK'
  BY <1>1, <1>2, <1>3, <1>7 DEF DistillInv, DistillTypeOK, workerVars
<1>9. MarkCovers'
  BY <1>2, <1>4 DEF DistillInv, MarkCovers, Yields
<1>10. StatusTells'
  BY <1>2 DEF DistillInv, StatusTells, LoopsOf, workerVars
<1>11. BatchesCover'
  BY <1>2, <1>4, BatchesKeep
<1>12. ProceduralStays'
  <2>1. frozen \subseteq Memories
    BY DEF DistillInv, DistillTypeOK
  <2>2. CASE tier = "procedural"
    BY <1>1, <1>3, <2>1, <2>2 DEF DistillInv, ProceduralStays
  <2>3. CASE tier # "procedural"
    BY <1>1, <1>3, <1>6, <2>1, <2>3 DEF DistillInv, ProceduralStays
  <2> QED BY <2>2, <2>3
<1>13. NotLookedAt'
  <2>1. CASE tier = "procedural"
    BY <1>1, <1>5, <2>1 DEF DistillInv, NotLookedAt
  <2>2. CASE tier # "procedural"
    BY <1>1, <1>5, <2>2 DEF DistillInv, NotLookedAt
  <2> QED BY <2>1, <2>2
<1> QED BY <1>8, <1>9, <1>10, <1>11, <1>12, <1>13 DEF DistillInv

LEMMA DistillInvNext == DistillInv /\ [DistillNext]_distillVars => DistillInv'
<1> SUFFICES ASSUME DistillInv, [DistillNext]_distillVars PROVE DistillInv'
  OBVIOUS
<1>1. CASE ChatGrows
  BY <1>1, ChatGrowsInv
<1>2. ASSUME NEW w \in Workers, WorkerStops(w) PROVE DistillInv'
  BY <1>2, WorkerStopsInv
<1>3. ASSUME NEW w \in Workers, ProcessDies(w) PROVE DistillInv'
  BY <1>3, ProcessDiesInv
<1>4. ASSUME NEW w \in Workers, ProcessStep(w) PROVE DistillInv'
  BY <1>4, BatchStepInv, PromoteWritesInv DEF ProcessStep
<1>5. ASSUME NEW w \in Workers, NEW l \in Loops, WorkerStarts(w, l) PROVE DistillInv'
  BY <1>5, WorkerStartsInv
<1>6. ASSUME NEW w \in Workers, NEW l \in Loops, StatementFails(w, l) PROVE DistillInv'
  <2>1. l \in LoopsOf(w)
    BY <1>6 DEF StatementFails, LoopsOf, InBatch
  <2> QED BY <1>6, <2>1, LoopEnds DEF StatementFails
<1>7. ASSUME NEW w \in Workers, NEW m \in Memories, PromoteLooks(w, m) PROVE DistillInv'
  BY <1>7, PromoteLooksInv
<1>8. CASE UNCHANGED distillVars
  <2>1. UNCHANGED <<memoryVars, loops, workerVars, tierVars>>
    BY <1>8 DEF distillVars
  <2>2. BatchesCover'
    BY <2>1, BatchesKeep DEF memoryVars, Stored
  <2>3. DistillTypeOK'
    BY <2>1 DEF DistillInv, DistillTypeOK, memoryVars, workerVars, tierVars
  <2>4. MarkCovers' /\ StatusTells'
    BY <2>1 DEF DistillInv, MarkCovers, Yields, Stored, StatusTells, LoopsOf, memoryVars, workerVars
  <2>5. ProceduralStays' /\ NotLookedAt'
    BY <2>1 DEF DistillInv, ProceduralStays, NotLookedAt, memoryVars, tierVars
  <2> QED BY <2>2, <2>3, <2>4, <2>5 DEF DistillInv
<1> QED BY <1>1, <1>2, <1>3, <1>4, <1>5, <1>6, <1>7, <1>8 DEF DistillNext

(* What the entries up to the watermark yield is stored, whatever batches  *)
(* of other processes did and however any of them ended; the status of a   *)
(* worker tells of its loop, and a procedural memory stays one, but for    *)
(* the two races that the history names.                                   *)
THEOREM MemoriesAreDistilled == DistillSpec => []MemoriesDistilled
<1>1. DistillInv => MemoriesDistilled
  BY DEF DistillInv, MemoriesDistilled
<1> QED BY <1>1, DistillInvInit, DistillInvNext, PTL DEF DistillSpec
=============================================================================
