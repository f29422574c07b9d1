---------------------------- MODULE Environment ----------------------------
(***************************************************************************)
(* The files of one managed environment and the commands that maintain     *)
(* them: migrate, backup, restore, reset and recover, bootstrap as far as  *)
(* it makes those files, and the indexer as far as it commits to the       *)
(* database.  Source: packages/database/src/maintenance and connection.    *)
(*                                                                         *)
(* A command may die between any two of its steps, its locks with it; an   *)
(* error it throws leaves the same files.  What then remains is the        *)
(* marker, from which the same command or recover goes on.  The stages of  *)
(* the marker that no code reads are left out.                             *)
(***************************************************************************)
EXTENDS Naturals, Sequences

CONSTANTS
    Releases,      \* releases of the program; release r ships migrations 1..r
    MaxRows,       \* bound on the commits of the indexer
    MaxBackups,    \* bound on the backups taken by hand
    MaxOperations, \* bound on the markers ever opened
    MaxMishaps,    \* bound on crashes, power losses and changes of release
    Null

ASSUME EnvironmentAssumption ==
    /\ Releases \subseteq Nat \ {0} /\ 1 \in Releases
    /\ MaxRows \in Nat /\ MaxBackups \in Nat /\ MaxOperations \in Nat /\ MaxMishaps \in Nat
    /\ Null \notin Nat

VARIABLES
    release,     \* the release the commands are run from
    main,        \* motorcove.sqlite: its identity and its checkpointed content
    wal,         \* motorcove.sqlite-wal: the file it belongs to and the newer content
    staged,      \* operation -> snapshot in .restore-<operation>
    quarantine,  \* operation -> database and WAL in .quarantine-<operation>
    backups,     \* published bundles
    marker,      \* maintenance.json
    sidecars,    \* deployment id in seed-journal, deployment and bootstrap-receipt
    bound,       \* managed-node.json exists
    serving,     \* the indexer runs, with the service and the writer lock
    op,          \* the command that holds the maintenance locks
    boot,        \* the bootstrap that holds the bootstrap lock
    glance,      \* a recover that has read the marker and holds no lock yet
    count,       \* files, deployments, rows, operations and mishaps so far
    latest,      \* ghost: file -> the content last committed to it
    wiped        \* ghost: files a confirmed reset removed

filesVars == <<main, wal, staged, quarantine>>
vars == <<release, filesVars, backups, marker, sidecars, bound, serving, op, boot,
          glance, count, latest, wiped>>

Operations == 1..MaxOperations

NoSidecars == [journal |-> Null, manifest |-> Null, receipt |-> Null]
EmptyContent == [schema |-> 0, contract |-> 0, deployment |-> Null, rows |-> 0]
NoFiles == [main |-> Null, wal |-> Null]

Init ==
    /\ release = 1
    /\ main = Null /\ wal = Null
    /\ staged = [i \in Operations |-> Null]
    /\ quarantine = [i \in Operations |-> NoFiles]
    /\ backups = <<>> /\ marker = Null /\ sidecars = NoSidecars /\ bound = FALSE
    /\ serving = FALSE /\ op = Null /\ boot = Null /\ glance = Null
    /\ count = [files |-> 0, deployments |-> 0, rows |-> 0, operations |-> 0, mishaps |-> 0]
    /\ latest = <<>> /\ wiped = {}

---------------------------------------------------------------------------
(* The database: SQLite reads the WAL beside the main file, whichever it is. *)

Content == IF wal # Null THEN wal.content ELSE main.content

(* A transaction goes into the WAL; the last connection to close it in order
   moves it into the main file and removes it. *)
Commit(content) ==
    /\ wal' = [base |-> main.id, content |-> content]
    /\ latest' = [latest EXCEPT ![main.id] = content]
    /\ UNCHANGED <<main, staged, quarantine>>

Checkpoint ==
    /\ main' = IF main = Null THEN Null ELSE [main EXCEPT !.content = Content]
    /\ wal' = Null
    /\ UNCHANGED <<staged, quarantine, latest>>

KnownHistory(c) == c.schema <= release                              \* assertKnownHistory
Current(c) == c.schema = release                                    \* verifyDatabase
KnownSource(c) == KnownHistory(c) /\ c.contract = c.schema          \* verifyKnownSourceDatabase

LocksFree == op = Null /\ ~serving
OwnsBootstrap == op # Null /\ op.by = "owner"
BootstrapFree == boot = Null /\ ~OwnsBootstrap

Mishap == count.mishaps < MaxMishaps /\ count' = [count EXCEPT !.mishaps = @ + 1]

---------------------------------------------------------------------------
(* The indexer. *)

(* openProjectionWriter: shared service lock and writer lock, no marker, a
   database of the current schema that holds the deployment of the manifest. *)
StartIndexer ==
    /\ LocksFree /\ marker = Null /\ main # Null
    /\ Current(Content) /\ sidecars.manifest # Null
    /\ Content.deployment = sidecars.manifest
    /\ serving' = TRUE
    /\ UNCHANGED <<release, bound, filesVars, backups, marker, sidecars, op, boot, glance,
                   count, latest, wiped>>

CommitBatch ==
    /\ serving /\ count.rows < MaxRows
    /\ count' = [count EXCEPT !.rows = @ + 1]
    /\ Commit([Content EXCEPT !.rows = count.rows + 1])
    /\ UNCHANGED <<release, bound, backups, marker, sidecars, serving, op, boot, glance, wiped>>

StopIndexer ==
    /\ serving /\ serving' = FALSE
    /\ Checkpoint
    /\ UNCHANGED <<release, bound, backups, marker, sidecars, op, boot, glance, count, wiped>>

KillIndexer ==
    /\ serving /\ serving' = FALSE
    /\ Mishap
    /\ UNCHANGED <<release, bound, filesVars, backups, marker, sidecars, op, boot, glance, latest, wiped>>

---------------------------------------------------------------------------
(* Backups. *)

(* What backupEnvironment requires of the snapshot and the files beside it. *)
Archivable(c, ready) ==
    /\ KnownSource(c)
    /\ IF c.deployment = Null
       THEN sidecars = NoSidecars
       ELSE /\ sidecars.manifest = c.deployment
            /\ (sidecars.journal = Null) <=> (sidecars.receipt = Null)
            /\ ready => sidecars.receipt # Null
            /\ sidecars.receipt \in {Null, c.deployment}

Bundle(operation) ==
    [content |-> Content, sidecars |-> sidecars, operation |-> operation]

(* readSourceCondition: a backup by hand has no marker beside it, that of an
   operation only the operation's own. *)
SourceCondition(operation) ==
    IF operation = Null THEN marker = Null
    ELSE marker # Null /\ marker.type = "MIGRATE" /\ marker.id = operation

(* A backup by hand.  The bundle appears with one rename; before it there is
   nothing but an ignored .incomplete directory. *)
Backup ==
    /\ LocksFree /\ BootstrapFree /\ SourceCondition(Null) /\ main # Null
    /\ Len(backups) < MaxBackups
    /\ Archivable(Content, TRUE)
    /\ backups' = Append(backups, Bundle(Null))
    /\ UNCHANGED <<release, bound, filesVars, marker, sidecars, serving, op, boot, glance,
                   count, latest, wiped>>

(* verifyBackup: the bundle was checked when it was published and does not
   change; what can differ is the release that reads it. *)
VerifiedBackup(b) == KnownSource(b.content)

---------------------------------------------------------------------------
(* Migrate. *)

NewMarker(type) ==
    [type |-> type, phase |-> "PREPARED", id |-> count.operations + 1,
     release |-> release, backup |-> Null]

MayOpenMarker ==
    /\ count.operations < MaxOperations
    /\ count' = [count EXCEPT !.operations = @ + 1]

(* by: "owner" holds the bootstrap lock itself, "boot" runs inside a bootstrap. *)
Run(command, by) == op' = [command |-> command, at |-> "start", by |-> by]
At(command, label) == op # Null /\ op.command = command /\ op.at = label
Goto(label) == op' = [op EXCEPT !.at = label] /\ UNCHANGED boot
End(ok) ==
    /\ op' = Null
    /\ boot' = IF op.by # "boot" THEN boot ELSE IF ok THEN "deploy" ELSE Null

(* A marker that is there is only continued if it is a migration of this release. *)
StartMigrate(by) ==
    /\ LocksFree
    /\ by = "boot" => boot = "migrate"
    /\ \/ marker = Null /\ MayOpenMarker /\ marker' = NewMarker("MIGRATE")
       \/ /\ marker # Null /\ marker.type = "MIGRATE" /\ marker.release = release
          /\ UNCHANGED <<marker, count>>
    /\ Run("migrate", by)
    /\ UNCHANGED <<release, bound, filesVars, backups, sidecars, serving, boot, glance, latest, wiped>>

(* Opening the database creates it. *)
CreateDatabase ==
    /\ At("migrate", "start") /\ main = Null
    /\ main' = [id |-> count.files + 1, content |-> EmptyContent]
    /\ count' = [count EXCEPT !.files = @ + 1]
    /\ latest' = Append(latest, EmptyContent)
    /\ Goto("apply")
    /\ UNCHANGED <<release, bound, wal, staged, quarantine, backups, marker, sidecars, serving,
                   glance, wiped>>

Pending == Content.schema < release
NeedsBackup == Pending /\ Content.schema > 0

(* verifyMaintenanceBackup: the evidence of this very operation. *)
OfThisOperation(b) == VerifiedBackup(b) /\ b.operation = marker.id

SafetyBackup(b) ==
    /\ OfThisOperation(b)
    /\ b.content.schema = Content.schema /\ b.content.contract = Content.contract
    /\ b.content.deployment = Content.deployment

(* Without a recorded backup one is made now, for which the command line takes the
   bootstrap lock shared; the recorded one is verified again. *)
MakeSafetyBackup ==
    /\ At("migrate", "start") /\ main # Null
    /\ NeedsBackup /\ marker.backup = Null /\ SourceCondition(marker.id)
    /\ Archivable(Content, FALSE) /\ (op.by = "boot" \/ boot = Null)
    /\ backups' = Append(backups, Bundle(marker.id))
    /\ Goto("record")
    /\ UNCHANGED <<release, bound, filesVars, marker, sidecars, serving, glance, count, latest, wiped>>

RecordBackup ==
    /\ At("migrate", "record")
    /\ marker' = [marker EXCEPT !.backup = Len(backups)]
    /\ Goto("apply")
    /\ UNCHANGED <<release, bound, filesVars, backups, sidecars, serving, glance, count, latest, wiped>>

(* Fault: a marker that is there counts as proof of the backup. *)
SkipBackupOnRerun ==
    /\ At("migrate", "start") /\ main # Null
    /\ KnownHistory(Content)
    /\ Goto("apply")
    /\ UNCHANGED <<release, bound, filesVars, backups, marker, sidecars, serving, glance,
                   count, latest, wiped>>

SkipBackup ==
    /\ At("migrate", "start") /\ main # Null
    /\ KnownHistory(Content)
    /\ NeedsBackup => marker.backup # Null /\ KnownSource(Content) /\ SafetyBackup(backups[marker.backup])
    /\ Goto("apply")
    /\ UNCHANGED <<release, bound, filesVars, backups, marker, sidecars, serving, glance,
                   count, latest, wiped>>

(* Anything else is an error: the database is closed and the marker stays. *)
RefuseMigrate ==
    /\ At("migrate", "start") /\ main # Null
    /\ ~(KnownHistory(Content) /\ (NeedsBackup => KnownSource(Content) /\
           IF marker.backup # Null
           THEN SafetyBackup(backups[marker.backup])
           ELSE Archivable(Content, FALSE) /\ (op.by = "boot" \/ boot = Null)))
    /\ Checkpoint
    /\ End(FALSE)
    /\ UNCHANGED <<release, bound, backups, marker, sidecars, serving, glance, count, wiped>>

(* Fault: one migration too many. *)
ApplyPastBundle ==
    /\ At("migrate", "apply")
    /\ Commit([Content EXCEPT !.schema = release + 1])
    /\ Goto("finalize")
    /\ UNCHANGED <<release, bound, backups, marker, sidecars, serving, glance, count, wiped>>

(* All pending migrations in one transaction. *)
ApplyMigrations ==
    /\ At("migrate", "apply")
    /\ IF Pending
       THEN Commit([Content EXCEPT !.schema = release])
       ELSE UNCHANGED <<filesVars, latest>>
    /\ Goto("finalize")
    /\ UNCHANGED <<release, bound, backups, marker, sidecars, serving, glance, count, wiped>>

FinalizeContract ==
    /\ At("migrate", "finalize")
    /\ Commit([Content EXCEPT !.contract = release])
    /\ Goto("clear")
    /\ UNCHANGED <<release, bound, backups, marker, sidecars, serving, glance, count, wiped>>

ClearMigrate ==
    /\ At("migrate", "clear")
    /\ marker' = Null
    /\ Goto("close")
    /\ UNCHANGED <<release, bound, filesVars, backups, sidecars, serving, glance, count, latest, wiped>>

CloseMigrate ==
    /\ At("migrate", "close")
    /\ Checkpoint
    /\ End(TRUE)
    /\ UNCHANGED <<release, bound, backups, marker, sidecars, serving, glance, count, wiped>>

---------------------------------------------------------------------------
(* Restore. *)

StartRestore(b) ==
    /\ LocksFree /\ BootstrapFree /\ marker = Null
    /\ MayOpenMarker
    /\ marker' = [NewMarker("RESTORE") EXCEPT !.backup = b]
    /\ Run("restore", "owner")
    /\ UNCHANGED <<release, bound, filesVars, backups, sidecars, serving, boot, glance, latest, wiped>>

(* A STANDARD backup of the deployment that the active database, the manifest
   and the other sidecars are of; and then of the current schema. *)
OfThisDeployment(b) ==
    /\ VerifiedBackup(b) /\ b.operation = Null
    /\ b.content.deployment # Null
    /\ main # Null /\ Content.deployment = b.content.deployment
    /\ sidecars.manifest = Content.deployment
    /\ sidecars = b.sidecars

StageSnapshot ==
    /\ At("restore", "start")
    /\ LET b == backups[marker.backup] IN
       IF OfThisDeployment(b) /\ Current(b.content)
       THEN /\ staged' = [staged EXCEPT ![marker.id] =
                   [id |-> count.files + 1, content |-> b.content]]
            /\ count' = [count EXCEPT !.files = @ + 1]
            /\ latest' = Append(latest, Null)
            /\ Goto("main")
       ELSE UNCHANGED <<staged, count, latest>> /\ End(FALSE)
    /\ UNCHANGED <<release, bound, main, wal, quarantine, backups, marker, sidecars, serving, glance, wiped>>

(* The main file and its WAL are moved one after the other. *)
MoveMain ==
    /\ At("restore", "main")
    /\ quarantine' = [quarantine EXCEPT ![marker.id].main = main]
    /\ main' = Null
    /\ Goto("wal")
    /\ UNCHANGED <<release, bound, wal, staged, backups, marker, sidecars, serving, glance,
                   count, latest, wiped>>

QuarantineWal ==
    /\ quarantine' = [quarantine EXCEPT ![marker.id].wal = IF wal # Null THEN wal ELSE @]
    /\ wal' = Null

MoveWal ==
    /\ At("restore", "wal")
    /\ QuarantineWal
    /\ Goto("install")
    /\ UNCHANGED <<release, bound, main, staged, backups, marker, sidecars, serving, glance,
                   count, latest, wiped>>

InstallStaged ==
    /\ main' = staged[marker.id]
    /\ latest' = [latest EXCEPT ![main'.id] = main'.content]
    /\ staged' = [staged EXCEPT ![marker.id] = Null]

Install ==
    /\ At("restore", "install")
    /\ InstallStaged
    /\ Goto("verify")
    /\ UNCHANGED <<release, bound, wal, quarantine, backups, marker, sidecars, serving, glance,
                   count, wiped>>

FinishRestore ==
    /\ At("restore", "verify")
    /\ Current(Content)
    /\ marker' = Null
    /\ End(TRUE)
    /\ UNCHANGED <<release, bound, filesVars, backups, sidecars, serving, glance, count, latest, wiped>>

---------------------------------------------------------------------------
(* Reset. *)

(* The marker of the reset replaces any other.  Only an environment that has
   claimed its node can be reset. *)
StartReset ==
    /\ LocksFree /\ BootstrapFree /\ bound
    /\ MayOpenMarker
    /\ marker' = NewMarker("RESET")
    /\ Run("reset", "owner")
    /\ UNCHANGED <<release, bound, filesVars, backups, sidecars, serving, boot, glance, latest, wiped>>

ChainReset ==
    /\ At("reset", "start")
    /\ marker' = [marker EXCEPT !.phase = "CHAIN_RESET"]
    /\ Goto("clear")
    /\ UNCHANGED <<release, bound, filesVars, backups, sidecars, serving, glance, count, latest, wiped>>

RemoveMain ==
    /\ main # Null
    /\ wiped' = wiped \cup {main.id}
    /\ main' = Null
    /\ UNCHANGED <<wal, staged, quarantine, sidecars>>

RemoveWal ==
    /\ main = Null /\ wal # Null
    /\ wiped' = wiped \cup {wal.base}
    /\ wal' = Null
    /\ UNCHANGED <<main, staged, quarantine, sidecars>>

RemoveSidecars ==
    /\ main = Null /\ wal = Null
    /\ sidecars # NoSidecars
    /\ sidecars' = NoSidecars
    /\ UNCHANGED <<filesVars, wiped>>

(* clearResetGeneratedState, by the reset or by the recovery of one. *)
ClearGeneratedState ==
    /\ At("reset", "clear") \/ At("recover", "clear")
    /\ RemoveMain \/ RemoveWal \/ RemoveSidecars
    /\ UNCHANGED <<release, bound, backups, marker, serving, op, boot, glance, count, latest>>

FinishReset ==
    /\ At("reset", "clear") \/ At("recover", "clear")
    /\ main = Null /\ wal = Null /\ sidecars = NoSidecars
    /\ marker' = Null
    /\ End(TRUE)
    /\ UNCHANGED <<release, bound, filesVars, backups, sidecars, serving, glance, count, latest, wiped>>

---------------------------------------------------------------------------
(* Recover --complete. *)

(* The marker is read before any lock is held, only to decide which to take. *)
ReadInitialMarker ==
    /\ glance = Null
    /\ glance' = IF marker # Null /\ marker.type = "RESET" THEN "RESET" ELSE "other"
    /\ UNCHANGED <<release, bound, filesVars, backups, marker, sidecars, serving, op, boot,
                   count, latest, wiped>>

(* RESOURCE_BUSY, or nothing to do, ends the command. *)
StartRecover ==
    /\ glance # Null /\ glance' = Null
    /\ IF LocksFree /\ marker # Null /\ (glance = "RESET" => BootstrapFree)
       THEN Run("recover", IF glance = "RESET" THEN "owner" ELSE "cli")
       ELSE UNCHANGED op
    /\ UNCHANGED <<release, bound, filesVars, backups, marker, sidecars, serving, boot,
                   count, latest, wiped>>

RecoverReset ==
    /\ At("recover", "start") /\ marker.type = "RESET"
    /\ IF marker.release = release /\ marker.phase # "PREPARED" THEN Goto("clear") ELSE End(FALSE)
    /\ UNCHANGED <<release, bound, filesVars, backups, marker, sidecars, serving, glance,
                   count, latest, wiped>>

(* Fault: the schema is current, so the marker is cleared without finalising. *)
RecoverMigrateUnfinalised ==
    /\ At("recover", "start") /\ marker.type = "MIGRATE"
    /\ IF marker.release = release /\ main # Null /\ Current(Content)
       THEN Goto("finish")
       ELSE End(FALSE)
    /\ UNCHANGED <<release, bound, filesVars, backups, marker, sidecars, serving, glance,
                   count, latest, wiped>>

(* A migration whose SQL was applied is finalised; one that was not, or that is
   of another release, has to be run again. *)
RecoverMigrate ==
    /\ At("recover", "start") /\ marker.type = "MIGRATE"
    /\ IF marker.release = release /\ main # Null /\ Current(Content)
       THEN /\ Commit([Content EXCEPT !.contract = release])
            /\ Goto("close")
       ELSE UNCHANGED <<filesVars, latest>> /\ End(FALSE)
    /\ UNCHANGED <<release, bound, backups, marker, sidecars, serving, glance, count, wiped>>

CloseRecovered ==
    /\ At("recover", "close")
    /\ Checkpoint
    /\ Goto("finish")
    /\ UNCHANGED <<release, bound, backups, marker, sidecars, serving, glance, count, wiped>>

FinishRecover ==
    /\ At("recover", "finish")
    /\ marker' = Null
    /\ End(TRUE)
    /\ UNCHANGED <<release, bound, filesVars, backups, sidecars, serving, glance, count, latest, wiped>>

Recovering == At("recover", "start") /\ marker.type = "RESTORE"
Aside == quarantine[marker.id]

(* RECOVERY_REQUIRED: one WAL here, another in the quarantine. *)
Ambiguous == wal # Null /\ Aside.wal # Null

(* Faults: the snapshot is installed beside the WAL that is still there, the WAL
   is deleted, or it is taken for an ambiguous file set. *)
RecoverForwardBesideWal ==
    /\ Recovering /\ main = Null /\ staged[marker.id] # Null
    /\ InstallStaged /\ UNCHANGED <<wal, quarantine>>
    /\ UNCHANGED <<release, bound, backups, marker, sidecars, serving, op, boot, glance,
                   count, wiped>>

RecoverForwardDroppingWal ==
    /\ Recovering /\ main = Null /\ staged[marker.id] # Null
    /\ InstallStaged /\ wal' = Null
    /\ UNCHANGED <<release, bound, quarantine, backups, marker, sidecars, serving, op, boot,
                   glance, count, wiped>>

RecoverForwardWithoutWal ==
    /\ Recovering /\ main = Null /\ staged[marker.id] # Null /\ wal = Null
    /\ InstallStaged /\ UNCHANGED <<wal, quarantine>>
    /\ UNCHANGED <<release, bound, backups, marker, sidecars, serving, op, boot, glance,
                   count, wiped>>

(* Forward, if the snapshot is staged: the WAL follows its database first. *)
RecoverForward ==
    /\ Recovering /\ main = Null /\ staged[marker.id] # Null /\ ~Ambiguous
    /\ IF wal # Null
       THEN QuarantineWal /\ UNCHANGED <<main, staged, latest>>
       ELSE InstallStaged /\ UNCHANGED <<wal, quarantine>>
    /\ UNCHANGED <<release, bound, backups, marker, sidecars, serving, op, boot, glance,
                   count, wiped>>

(* Back, if it is not: first the WAL, then the database. *)
RecoverBack ==
    /\ Recovering /\ main = Null /\ staged[marker.id] = Null
    /\ Aside.main # Null /\ ~Ambiguous
    /\ IF Aside.wal # Null
       THEN /\ wal' = Aside.wal
            /\ quarantine' = [quarantine EXCEPT ![marker.id].wal = Null]
            /\ UNCHANGED main
       ELSE /\ main' = Aside.main
            /\ quarantine' = [quarantine EXCEPT ![marker.id].main = Null]
            /\ UNCHANGED wal
    /\ UNCHANGED <<release, bound, staged, backups, marker, sidecars, serving, op, boot, glance,
                   count, latest, wiped>>

(* With a database in place it is verified; recovery ends with or without success. *)
RecoverRestored ==
    /\ Recovering
    /\ IF main # Null /\ Current(Content)
       THEN Goto("finish")
       ELSE /\ main # Null \/ Ambiguous \/ (staged[marker.id] = Null /\ Aside.main = Null)
            /\ End(FALSE)
    /\ UNCHANGED <<release, bound, filesVars, backups, marker, sidecars, serving, glance,
                   count, latest, wiped>>

---------------------------------------------------------------------------
(* Bootstrap, as far as the files of the environment go. *)

StartBootstrap ==
    /\ BootstrapFree
    /\ boot' = "migrate"
    /\ UNCHANGED <<release, bound, filesVars, backups, marker, sidecars, serving, op, glance,
                   count, latest, wiped>>

(* An error, or a lock that is not free, ends it. *)
EndBootstrap ==
    /\ boot # Null /\ (op # Null => op.by # "boot")
    /\ boot' = Null
    /\ UNCHANGED <<release, bound, filesVars, backups, marker, sidecars, serving, op, glance,
                   count, latest, wiped>>

(* The node is claimed, and the journal opened. *)
PublishJournal ==
    /\ boot = "deploy"
    /\ IF sidecars.journal = Null
       THEN /\ count' = [count EXCEPT !.deployments = @ + 1]
            /\ sidecars' = [sidecars EXCEPT !.journal = count.deployments + 1]
       ELSE UNCHANGED <<count, sidecars>>
    /\ bound' = TRUE
    /\ boot' = "manifest"
    /\ UNCHANGED <<release, filesVars, backups, marker, serving, op, glance, latest, wiped>>

PublishManifest ==
    /\ boot = "manifest"
    /\ sidecars' = [sidecars EXCEPT !.manifest = sidecars.journal]
    /\ boot' = "register"
    /\ UNCHANGED <<release, bound, filesVars, backups, marker, serving, op, glance, count, latest, wiped>>

(* registerDeployment, under the maintenance locks; it does not look at the marker. *)
Register ==
    /\ boot = "register" /\ LocksFree
    /\ Current(Content)
    /\ Content.deployment \in {Null, sidecars.manifest}
    /\ LET c == [Content EXCEPT !.deployment = sidecars.manifest] IN
       /\ main' = [main EXCEPT !.content = c]
       /\ wal' = Null
       /\ latest' = [latest EXCEPT ![main.id] = c]
    /\ boot' = "receipt"
    /\ UNCHANGED <<release, bound, staged, quarantine, backups, marker, sidecars, serving, op, glance,
                   count, wiped>>

(* seedCatalog and the writer of the catch-up refuse a marker. *)
PublishReceipt ==
    /\ boot = "receipt" /\ LocksFree /\ marker = Null
    /\ sidecars' = [sidecars EXCEPT !.receipt = sidecars.manifest]
    /\ boot' = Null
    /\ UNCHANGED <<release, bound, filesVars, backups, marker, serving, op, glance, count, latest, wiped>>

---------------------------------------------------------------------------
(* Faults. *)

(* The command that holds the maintenance locks dies, or an error ends it. *)
CrashOperation ==
    /\ op # Null
    /\ Mishap
    /\ End(FALSE)
    /\ UNCHANGED <<release, bound, filesVars, backups, marker, sidecars, serving, glance, latest, wiped>>

(* The machine stops: a snapshot just copied was not flushed and may be gone. *)
PowerLoss ==
    /\ op # Null
    /\ Mishap
    /\ op' = Null /\ boot' = Null /\ glance' = Null
    /\ staged' = [i \in Operations |-> Null]
    /\ UNCHANGED <<release, bound, main, wal, quarantine, backups, marker, sidecars, serving, latest, wiped>>

(* The operator checks out another release while nothing runs. *)
ChangeRelease(r) ==
    /\ LocksFree /\ boot = Null /\ glance = Null /\ r # release
    /\ Mishap
    /\ release' = r
    /\ UNCHANGED <<filesVars, backups, marker, sidecars, bound, serving, op, boot, glance,
                   latest, wiped>>

---------------------------------------------------------------------------
Indexer == StartIndexer \/ CommitBatch \/ StopIndexer
Migrate ==
    \/ CreateDatabase \/ MakeSafetyBackup \/ RecordBackup \/ SkipBackup \/ RefuseMigrate
    \/ ApplyMigrations \/ FinalizeContract \/ ClearMigrate \/ CloseMigrate
Restore == StageSnapshot \/ MoveMain \/ MoveWal \/ Install \/ FinishRestore
Reset == ChainReset \/ ClearGeneratedState \/ FinishReset
Recover ==
    \/ RecoverReset \/ RecoverMigrate \/ CloseRecovered \/ FinishRecover
    \/ RecoverForward \/ RecoverBack \/ RecoverRestored
Bootstrap == PublishJournal \/ PublishManifest \/ Register \/ PublishReceipt \/ EndBootstrap
Faults == KillIndexer \/ CrashOperation \/ PowerLoss \/ \E r \in Releases : ChangeRelease(r)

Next ==
    \/ Indexer \/ Backup
    \/ \E by \in {"cli", "boot"} : StartMigrate(by)
    \/ \E b \in DOMAIN backups : StartRestore(b)
    \/ StartReset \/ ReadInitialMarker \/ StartRecover \/ StartBootstrap
    \/ Migrate \/ Restore \/ Reset \/ Recover \/ Bootstrap
    \/ Faults

Spec == Init /\ [][Next]_vars

(* A command that runs goes on, and the operator runs recover as long as there
   is a marker, and migrate. *)
FairSpec ==
    /\ Spec
    /\ WF_vars(Migrate) /\ WF_vars(Restore) /\ WF_vars(Reset) /\ WF_vars(Recover)
    /\ WF_vars(ReadInitialMarker) /\ WF_vars(StartRecover)
    /\ SF_vars(StartMigrate("cli"))

---------------------------------------------------------------------------
(* Properties. *)

Contents == [schema : Releases \cup {0}, contract : Releases \cup {0},
             deployment : Nat \cup {Null}, rows : Nat]
Databases == [id : Nat, content : Contents]
Wals == [base : Nat, content : Contents]
FileSets == [main : Databases \cup {Null}, wal : Wals \cup {Null}]
SidecarSets == [journal : Nat \cup {Null}, manifest : Nat \cup {Null}, receipt : Nat \cup {Null}]
Bundles == [content : Contents, sidecars : SidecarSets, operation : Operations \cup {Null}]
Markers == [type : {"MIGRATE", "RESTORE", "RESET"}, phase : {"PREPARED", "CHAIN_RESET"},
            id : Operations, release : Releases, backup : Nat \cup {Null}]
Labels == {"start", "record", "apply", "finalize", "clear", "close", "main", "wal", "install",
           "verify", "finish"}
Commands == [command : {"migrate", "restore", "reset", "recover"}, at : Labels,
             by : {"cli", "boot", "owner"}]
BootPhases == {"migrate", "deploy", "manifest", "register", "receipt"}
Glances == {"RESET", "other"}

(* A file, a marker or a command that is there is not the one that says it is not. *)
ASSUME NullAssumption ==
    Null \notin Contents \cup Databases \cup Wals \cup Markers \cup Commands
              \cup BootPhases \cup Glances

(* Every file, marker and process of the model has the shape the code gives it. *)
TypeOK ==
    /\ release \in Releases /\ serving \in BOOLEAN /\ bound \in BOOLEAN
    /\ main \in Databases \cup {Null} /\ wal \in Wals \cup {Null}
    /\ staged \in [Operations -> Databases \cup {Null}]
    /\ quarantine \in [Operations -> FileSets]
    /\ backups \in Seq(Bundles) /\ sidecars \in SidecarSets
    /\ marker \in Markers \cup {Null}
    /\ op \in Commands \cup {Null}
    /\ boot \in BootPhases \cup {Null}
    /\ glance \in Glances \cup {Null}
    /\ count \in [files : Nat, deployments : Nat, rows : Nat, operations : Nat, mishaps : Nat]
    /\ latest \in Seq(Contents \cup {Null}) /\ Len(latest) = count.files
    /\ wiped \subseteq DOMAIN latest

(* restore.ts:141-147, recovery.ts:30-54: a WAL lies only beside the database it
   belongs to, in place and in every quarantine, for SQLite would replay it into
   any other. *)
MatchedGeneration ==
    /\ main # Null /\ wal # Null => wal.base = main.id
    /\ \A i \in Operations : LET q == quarantine[i] IN
          q.main # Null /\ q.wal # Null => q.wal.base = q.main.id

Places == {[main |-> main, wal |-> wal]} \cup {quarantine[i] : i \in Operations}

(* restore.ts:140-148, recovery.ts:157-173, reset.ts:15-37: whatever was committed
   to a database that no confirmed reset removed is still there, in its main file or
   in its WAL, in place or in a quarantine, whichever command died where. *)
NothingLost ==
    \A f \in (DOMAIN latest) \ wiped : latest[f] # Null =>
        \E p \in Places :
            /\ p.main # Null /\ p.main.id = f
            /\ \/ p.main.content = latest[f]
               \/ \E o \in Places : o.wal = [base |-> f, content |-> latest[f]]

(* marker.ts:24-61, migrations.ts:177-197: without a marker and a command at work
   the environment is whole: no database and nothing of one, or a database whose
   contract row is that of its schema and whose deployment is that of the files
   beside it. *)
UnmarkedIsWhole ==
    marker = Null /\ op = Null =>
        IF main = Null
        THEN wal = Null /\ (boot = Null => sidecars = NoSidecars)
        ELSE /\ Content.contract = Content.schema
             /\ Content.deployment # Null => sidecars.manifest = Content.deployment
             /\ sidecars.receipt # Null => sidecars.receipt = Content.deployment

(* migration-operation.ts:100-141: the schema of a database with a history is only
   raised when a published backup holds exactly what the database holds then, also
   when the migration continues one that died. *)
SafetyCopy ==
    [][main # Null /\ main' # Null /\ main'.id = main.id /\ Content.schema > 0
         /\ Content'.schema > Content.schema =>
         \E b \in DOMAIN backups : backups[b].content = Content]_vars

(* restore.ts:140-148, recovery.ts:157-173: a database that a restore moved aside
   is replaced or brought back, wherever the restore or its recovery died. *)
MovedAside ==
    /\ main = Null /\ marker # Null /\ marker.type = "RESTORE"
    /\ quarantine[marker.id].main # Null

ResetAsked == marker # Null /\ marker.type = "RESET"

MovedComesBack == MovedAside ~> (main # Null \/ ResetAsked)

(* docs/runbooks/backup-restore-and-recovery.md:96-98: a snapshot of an older
   schema is refused, and the way through the migration workflow is open. *)
RefusedAsTooOld ==
    /\ marker # Null /\ marker.type = "RESTORE" /\ marker.release = release /\ op = Null
    /\ OfThisDeployment(backups[marker.backup])
    /\ ~Current(backups[marker.backup].content)

RefusedRestoreCanMigrate == RefusedAsTooOld ~> (marker = Null \/ ResetAsked)

(* docs/runbooks/backup-restore-and-recovery.md:103-105: recovery finishes the
   deletion of a reset "under exclusive bootstrap and maintenance ownership".
   The code decides which locks to take by the marker it read before. *)
ResetRecoveredUnderOwnership == At("recover", "clear") => OwnsBootstrap
=============================================================================
