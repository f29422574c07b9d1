-------------------------- MODULE EnvironmentProofs --------------------------
(***************************************************************************)
(* Theorems about Environment, for every set of releases and every bound   *)
(* on rows, backups, operations and mishaps.                               *)
(***************************************************************************)
EXTENDS Environment, TLAPS

USE EnvironmentAssumption, NullAssumption

-----------------------------------------------------------------------------
(* The inductive invariant.                                                *)

MigrateLabels == {"start", "record", "apply", "finalize", "clear", "close"}
RestoreLabels == {"start", "main", "wal", "install", "verify"}
Marked(type) == marker # Null /\ marker.type = type

\* Who holds which lock, and under which marker a command works.
Control ==
    /\ serving => op = Null /\ marker = Null /\ main # Null
    /\ op # Null =>
          /\ op.by = "owner" => boot = Null
          /\ op.by = "boot" => boot = "migrate" /\ op.command = "migrate"
          /\ op.command \in {"restore", "reset"} => op.by = "owner"
          /\ op.command = "migrate" =>
                /\ op.at \in MigrateLabels
                /\ IF op.at = "close" THEN marker = Null ELSE Marked("MIGRATE")
          /\ op.command = "restore" => op.at \in RestoreLabels /\ Marked("RESTORE")
          /\ op.command = "reset" => op.at \in {"start", "clear"} /\ Marked("RESET")
          /\ op.command = "recover" =>
                \/ op.at = "start" /\ marker # Null
                \/ op.at = "close" /\ Marked("MIGRATE")
                \/ op.at = "finish" /\ (Marked("MIGRATE") \/ Marked("RESTORE"))
                \/ op.at = "clear" /\ Marked("RESET")

\* A bootstrap past its migration owns an environment that nobody takes apart.
Booting ==
    boot \notin {Null, "migrate"} =>
        /\ main # Null /\ (marker = Null \/ Marked("MIGRATE"))
        /\ boot # "deploy" => sidecars.journal # Null
        /\ boot \in {"register", "receipt"} => sidecars.manifest # Null
        /\ boot = "receipt" => Content.deployment = sidecars.manifest

\* The sidecars are of one deployment, and written in their order.
Sidecars ==
    /\ sidecars.manifest # Null => sidecars.manifest = sidecars.journal
    /\ sidecars.receipt # Null => sidecars.receipt = sidecars.manifest

\* What a content has to do with the files beside it.
Fits(c) ==
    /\ c.deployment # Null => sidecars.manifest = c.deployment
    /\ sidecars.receipt # Null => sidecars.receipt = c.deployment

Finalised(c) == c.contract = c.schema

\* The database in place is what was last committed to it.
InPlace ==
    /\ main # Null =>
          /\ main.id \in DOMAIN latest /\ latest[main.id] = Content /\ Fits(Content)
          /\ wal # Null => wal.base = main.id
    /\ wal # Null => wal.base \in DOMAIN latest
    /\ main # Null /\ (marker = Null \/ Marked("RESTORE")) => Finalised(Content)
    /\ main = Null /\ (marker = Null \/ Marked("MIGRATE")) => wal = Null /\ sidecars = NoSidecars

\* What operations have put aside; those to come have not.
SetAside ==
    \A i \in Operations :
        /\ staged[i] # Null => staged[i].id \in DOMAIN latest
        /\ quarantine[i].main # Null => quarantine[i].main.id \in DOMAIN latest
        /\ quarantine[i].wal # Null => quarantine[i].wal.base \in DOMAIN latest
        /\ i > count.operations => staged[i] = Null /\ quarantine[i] = NoFiles

\* The database that a restore took out of its place, with the WAL it has.
Moved ==
    IF wal # Null THEN wal.content
    ELSE IF Aside.wal # Null THEN Aside.wal.content ELSE Aside.main.content

\* Where the files of an unfinished restore are.
Restoring ==
    Marked("RESTORE") =>
        /\ Aside.main = Null => Aside.wal = Null
        /\ main # Null /\ Aside.main # Null => wal = Null /\ staged[marker.id] = Null
        /\ main = Null =>
              /\ wal # Null => Aside.wal = Null /\ Aside.main # Null /\ wal.base = Aside.main.id
              /\ Aside.main # Null =>
                    latest[Aside.main.id] = Moved /\ Fits(Moved) /\ Finalised(Moved)
              /\ staged[marker.id] # Null => Aside.main # Null
        /\ staged[marker.id] # Null =>
              Fits(staged[marker.id].content) /\ Finalised(staged[marker.id].content)

\* How far a restore has come, and what its recovery may end with.
RestoreSteps ==
    /\ Marked("RESTORE") /\ op # Null /\ op.command = "restore" =>
          /\ op.at = "start" =>
                marker.backup # Null /\ staged[marker.id] = Null /\ Aside = NoFiles
          /\ op.at = "main" => main # Null /\ staged[marker.id] # Null /\ Aside = NoFiles
          /\ op.at \in {"wal", "install"} => main = Null /\ staged[marker.id] # Null
          /\ op.at = "install" => wal = Null
          /\ op.at = "verify" => main # Null
    /\ Marked("RESTORE") /\ At("recover", "finish") => main # Null

\* How far a migration has come.
Migrating ==
    op # Null /\ op.command = "migrate" =>
        /\ op.at # "start" => main # Null
        /\ op.at \in {"record", "apply"} =>
              /\ KnownHistory(Content)
              /\ NeedsBackup => \E b \in DOMAIN backups : backups[b].content = Content
        /\ op.at = "record" => backups # <<>>
        /\ op.at \in {"finalize", "clear", "close"} => Current(Content)
        /\ op.at \in {"clear", "close"} => Finalised(Content)

MigrationRecovering ==
    (At("recover", "close") \/ At("recover", "finish")) /\ Marked("MIGRATE") =>
        main # Null /\ Finalised(Content)

\* The backups of a migration hold the rows that are there until it ends.
Archive ==
    /\ \A b \in DOMAIN backups : backups[b].operation # Null => backups[b].operation <= count.operations
    /\ marker # Null =>
          /\ marker.id <= count.operations
          /\ marker.backup # Null => marker.backup \in DOMAIN backups
    /\ Marked("MIGRATE") =>
          \A b \in DOMAIN backups : backups[b].operation = marker.id =>
              main # Null /\ backups[b].content.rows = Content.rows

IInv ==
    /\ Control /\ Booting /\ Sidecars /\ InPlace /\ SetAside /\ Restoring /\ RestoreSteps
    /\ Migrating /\ MigrationRecovering /\ Archive
    /\ MatchedGeneration /\ NothingLost

-----------------------------------------------------------------------------
(* What the operators that write the files or the command do.              *)

\* A command goes on to its next step.
LEMMA GotoEffect ==
    ASSUME TypeOK, op # Null, NEW label \in Labels, Goto(label)
    PROVE  /\ op' \in Commands /\ op' # Null /\ op'.command = op.command /\ op'.by = op.by
           /\ op'.at = label /\ boot' = boot
<1>1. op \in Commands
  BY DEF TypeOK
<1>2. op' = [op EXCEPT !.at = label] /\ boot' = boot
  BY DEF Goto
<1>3. [op EXCEPT !.at = label] \in Commands
  BY <1>1 DEF Commands
<1>4. op' \in Commands
  BY <1>2, <1>3
<1> QED BY <1>1, <1>2, <1>4 DEF Commands

\* A command takes the locks.
LEMMA RunEffect ==
    ASSUME NEW command \in {"migrate", "restore", "reset", "recover"},
           NEW by \in {"cli", "boot", "owner"}, Run(command, by)
    PROVE  /\ op' \in Commands /\ op' # Null /\ op'.command = command /\ op'.by = by
           /\ op'.at = "start"
<1>1. op' = [command |-> command, at |-> "start", by |-> by]
  BY DEF Run
<1>2. op' \in Commands
  BY <1>1 DEF Commands, Labels
<1> QED BY <1>1, <1>2

\* A command gives them back; a bootstrap it ran in goes on or ends with it.
LEMMA EndEffect ==
    ASSUME TypeOK, op # Null, NEW ok \in BOOLEAN, End(ok)
    PROVE  /\ op' = Null /\ boot' \in BootPhases \cup {Null}
           /\ boot' \in {boot, "deploy", Null}
           /\ op.by # "boot" => boot' = boot
           /\ op.by = "boot" => boot' = IF ok THEN "deploy" ELSE Null
  BY DEF End, TypeOK, BootPhases

\* The marker a command opens has an id of its own.
LEMMA NewMarkerType ==
    ASSUME TypeOK, MayOpenMarker, NEW type \in {"MIGRATE", "RESTORE", "RESET"}
    PROVE  /\ NewMarker(type) \in Markers /\ NewMarker(type) # Null
           /\ NewMarker(type).type = type /\ NewMarker(type).id = count.operations + 1
           /\ NewMarker(type).release = release /\ NewMarker(type).backup = Null
           /\ NewMarker(type).phase = "PREPARED"
           /\ count' \in [files : Nat, deployments : Nat, rows : Nat, operations : Nat, mishaps : Nat]
           /\ count'.operations = count.operations + 1 /\ count'.files = count.files
<1>1. /\ count \in [files : Nat, deployments : Nat, rows : Nat, operations : Nat, mishaps : Nat]
      /\ release \in Releases
  BY DEF TypeOK
<1>2. count.operations + 1 \in Operations
  BY <1>1 DEF MayOpenMarker, Operations
<1>3. NewMarker(type) \in Markers
  BY <1>1, <1>2 DEF NewMarker, Markers
<1>4. count' = [count EXCEPT !.operations = count.operations + 1]
  BY <1>1 DEF MayOpenMarker
<1>5. /\ count' \in [files : Nat, deployments : Nat, rows : Nat, operations : Nat, mishaps : Nat]
      /\ count'.operations = count.operations + 1 /\ count'.files = count.files
  BY <1>1, <1>4
<1> QED BY <1>3, <1>5 DEF NewMarker

\* The other counters.
LEMMA MishapEffect ==
    ASSUME TypeOK, Mishap
    PROVE  /\ count' \in [files : Nat, deployments : Nat, rows : Nat, operations : Nat, mishaps : Nat]
           /\ count'.operations = count.operations /\ count'.files = count.files
<1>1. count \in [files : Nat, deployments : Nat, rows : Nat, operations : Nat, mishaps : Nat]
  BY DEF TypeOK
<1>2. count' = [count EXCEPT !.mishaps = count.mishaps + 1]
  BY <1>1 DEF Mishap
<1> QED BY <1>1, <1>2

\* What is read from a database is a content.
LEMMA ContentType ==
    ASSUME TypeOK, main # Null
    PROVE  Content \in Contents
  BY DEF TypeOK, Content, Databases, Wals

\* Two fields of a content may be rewritten.
LEMMA ContentEdits ==
    ASSUME NEW c \in Contents
    PROVE  /\ \A s \in Releases \cup {0} :
                 LET d == [c EXCEPT !.schema = s] IN
                 /\ d \in Contents /\ d.schema = s /\ d.contract = c.contract
                 /\ d.deployment = c.deployment /\ d.rows = c.rows
           /\ \A s \in Releases \cup {0} :
                 LET d == [c EXCEPT !.contract = s] IN
                 /\ d \in Contents /\ d.schema = c.schema /\ d.contract = s
                 /\ d.deployment = c.deployment /\ d.rows = c.rows
           /\ \A s \in Nat \cup {Null} :
                 LET d == [c EXCEPT !.deployment = s] IN
                 /\ d \in Contents /\ d.schema = c.schema /\ d.contract = c.contract
                 /\ d.deployment = s /\ d.rows = c.rows
           /\ \A s \in Nat :
                 LET d == [c EXCEPT !.rows = s] IN
                 /\ d \in Contents /\ d.schema = c.schema /\ d.contract = c.contract
                 /\ d.deployment = c.deployment /\ d.rows = s
  BY DEF Contents

\* A transaction on the database in place.
LEMMA CommitEffect ==
    ASSUME TypeOK, IInv, main # Null, NEW c \in Contents, Commit(c)
    PROVE  /\ UNCHANGED <<main, staged, quarantine>>
           /\ wal' \in Wals /\ wal' # Null /\ wal'.base = main.id /\ wal'.content = c
           /\ Content' = c
           /\ latest' \in Seq(Contents \cup {Null}) /\ Len(latest') = Len(latest)
           /\ DOMAIN latest' = DOMAIN latest
           /\ main.id \in DOMAIN latest /\ latest'[main.id] = c
           /\ \A f \in DOMAIN latest : f # main.id => latest'[f] = latest[f]
<1>1. main \in Databases /\ main.id \in DOMAIN latest /\ latest \in Seq(Contents \cup {Null})
  BY DEF TypeOK, IInv, InPlace
<1>2. UNCHANGED <<main, staged, quarantine>> /\ wal' = [base |-> main.id, content |-> c]
      /\ latest' = [latest EXCEPT ![main.id] = c]
  BY DEF Commit
<1>3. wal' \in Wals /\ wal'.base = main.id /\ wal'.content = c
  BY <1>1, <1>2 DEF Databases, Wals
<1>4. wal' # Null
  BY <1>3
<1>5. Content' = c
  BY <1>3, <1>4 DEF Content
<1>6. /\ latest' \in Seq(Contents \cup {Null}) /\ Len(latest') = Len(latest)
      /\ DOMAIN latest' = DOMAIN latest /\ latest'[main.id] = c
      /\ \A f \in DOMAIN latest : f # main.id => latest'[f] = latest[f]
  BY <1>1, <1>2
<1> QED BY <1>1, <1>2, <1>3, <1>4, <1>5, <1>6

\* The last connection is closed.
LEMMA CheckpointEffect ==
    ASSUME TypeOK, IInv, main # Null, Checkpoint
    PROVE  /\ UNCHANGED <<staged, quarantine, latest>> /\ wal' = Null
           /\ main' \in Databases /\ main' # Null /\ main'.id = main.id /\ main'.content = Content
           /\ Content' = Content
<1>1. main \in Databases /\ Content \in Contents
  BY ContentType DEF TypeOK
<1> DEFINE c == Content
<1>2. /\ UNCHANGED <<staged, quarantine, latest>> /\ wal' = Null
      /\ main' = [main EXCEPT !.content = c]
  BY DEF Checkpoint
<1>3. [main EXCEPT !.content = c] \in Databases
  BY <1>1 DEF Databases
<1>4. main' \in Databases
  BY <1>2, <1>3
<1>5. main' # Null /\ main'.id = main.id /\ main'.content = c
  BY <1>1, <1>2, <1>4 DEF Databases
<1>6. Content' = main'.content
  BY <1>2 DEF Content
<1> QED BY <1>2, <1>4, <1>5, <1>6

-----------------------------------------------------------------------------
(* What a step leaves alone.                                               *)

\* A step that writes no file of the environment but its marker.
LEMMA FilesKept ==
    ASSUME TypeOK, IInv, UNCHANGED <<filesVars, sidecars, latest, wiped>>,
           count'.operations \in Nat, count'.operations >= count.operations
    PROVE  /\ Content' = Content /\ Sidecars' /\ SetAside' /\ MatchedGeneration' /\ NothingLost'
           /\ \A c : Fits(c)' <=> Fits(c)
<1> USE DEF filesVars
<1>1. Content' = Content
  BY DEF Content
<1>2. Sidecars' /\ \A c : Fits(c)' <=> Fits(c)
  BY DEF IInv, Sidecars, Fits
<1>3. SetAside'
  BY DEF IInv, SetAside, Operations, TypeOK
<1>4. MatchedGeneration'
  BY DEF IInv, MatchedGeneration
<1>5. NothingLost'
  BY DEF IInv, NothingLost, Places
<1> QED BY <1>1, <1>2, <1>3, <1>4, <1>5

\* Nor its marker.
LEMMA MarkerKept ==
    ASSUME TypeOK, IInv, UNCHANGED <<filesVars, backups, marker, sidecars, latest, wiped>>,
           count'.operations = count.operations
    PROVE  /\ Content' = Content /\ Sidecars' /\ SetAside' /\ MatchedGeneration' /\ NothingLost'
           /\ InPlace' /\ Archive' /\ Restoring'
           /\ \A type : Marked(type)' <=> Marked(type)
<1>1. /\ Content' = Content /\ Sidecars' /\ SetAside' /\ MatchedGeneration' /\ NothingLost'
      /\ \A c : Fits(c)' <=> Fits(c)
  BY FilesKept DEF TypeOK
<1>2. \A type : Marked(type)' <=> Marked(type)
  BY DEF Marked
<1>3. InPlace'
  BY <1>1, <1>2 DEF IInv, InPlace, filesVars, Finalised
<1>4. Archive'
  BY <1>1, <1>2 DEF IInv, Archive, filesVars
<1>5. Restoring'
  <2>1. Aside' = Aside /\ Moved' = Moved
    BY DEF Aside, Moved, filesVars
  <2> QED BY <1>1, <1>2, <2>1 DEF IInv, Restoring, filesVars, Finalised
<1> QED BY <1>1, <1>2, <1>3, <1>4, <1>5

\* What a bootstrap relies on is there as long as the database and the sidecars
\* are, and the marker is not that of a restore or a reset.
LEMMA BootKept ==
    ASSUME TypeOK, IInv, UNCHANGED sidecars, boot' \in {boot, Null} \/ (boot' = "deploy" /\ main' # Null),
           boot' \notin {Null, "migrate"} =>
              (main # Null => main' # Null /\ Content'.deployment = Content.deployment)
              /\ (marker' = Null \/ Marked("MIGRATE")')
    PROVE  Booting'
  BY DEF IInv, Booting

\* A commit of one content keeps all that was committed to other databases.
LEMMA CommitKeeps ==
    ASSUME TypeOK, IInv, main # Null, NEW c \in Contents, Commit(c), UNCHANGED wiped
    PROVE  NothingLost' /\ MatchedGeneration'
<1>1. /\ UNCHANGED <<main, staged, quarantine>>
      /\ wal' \in Wals /\ wal' # Null /\ wal'.base = main.id /\ wal'.content = c
      /\ DOMAIN latest' = DOMAIN latest
      /\ main.id \in DOMAIN latest /\ latest'[main.id] = c
      /\ \A f \in DOMAIN latest : f # main.id => latest'[f] = latest[f]
      /\ wal' = [base |-> main.id, content |-> c]
  BY CommitEffect DEF Commit
<1>2. MatchedGeneration'
  BY <1>1 DEF IInv, MatchedGeneration
<1> DEFINE here == [main |-> main', wal |-> wal']
<1>3. Places' = {here} \cup {quarantine[i] : i \in Operations}
  BY <1>1 DEF Places
<1>4. ASSUME NEW f \in (DOMAIN latest) \ wiped, latest'[f] # Null
      PROVE  \E p \in Places' :
                /\ p.main # Null /\ p.main.id = f
                /\ \/ p.main.content = latest'[f]
                   \/ \E o \in Places' : o.wal = [base |-> f, content |-> latest'[f]]
  <2>1. CASE f = main.id
    <3>1. here \in Places' /\ here.main = main /\ here.wal = [base |-> f, content |-> latest'[f]]
      BY <1>1, <1>3, <2>1
    <3> HIDE DEF here
    <3> QED BY <2>1, <3>1
  <2>2. CASE f # main.id
    <3>1. latest'[f] = latest[f] /\ latest[f] # Null
      BY <1>1, <1>4, <2>2
    <3>2. PICK p \in Places :
             /\ p.main # Null /\ p.main.id = f
             /\ \/ p.main.content = latest[f]
                \/ \E o \in Places : o.wal = [base |-> f, content |-> latest[f]]
      BY <1>4, <3>1 DEF IInv, NothingLost
    <3>3. ASSUME NEW o \in Places, o.wal = [base |-> f, content |-> latest[f]]
          PROVE  o \in Places'
      <4>1. o # [main |-> main, wal |-> wal]
        <5>1. wal # [base |-> f, content |-> latest[f]]
          <6>1. wal # Null => wal.base # f
            BY <2>2 DEF IInv, InPlace
          <6>2. [base |-> f, content |-> latest[f]] \in Wals
            BY <1>4, <3>1 DEF Wals, TypeOK
          <6> QED BY <6>1, <6>2
        <5> QED BY <3>3, <5>1
      <4> QED BY <1>3, <4>1 DEF Places
    <3>4. p \in Places'
      BY <1>3, <2>2, <3>2 DEF Places
    <3> QED BY <3>1, <3>2, <3>3, <3>4
  <2> QED BY <2>1, <2>2
<1> HIDE DEF here
<1> QED BY <1>1, <1>2, <1>4 DEF NothingLost

\* The last close of a database moves its WAL into it and loses nothing.
LEMMA CheckpointKeeps ==
    ASSUME TypeOK, IInv, main # Null, Checkpoint, UNCHANGED wiped
    PROVE  NothingLost' /\ MatchedGeneration'
<1>1. /\ UNCHANGED <<staged, quarantine, latest>> /\ wal' = Null
      /\ main' \in Databases /\ main' # Null /\ main'.id = main.id /\ main'.content = Content
  BY CheckpointEffect
<1>2. MatchedGeneration'
  BY <1>1 DEF IInv, MatchedGeneration
<1> DEFINE here == [main |-> main', wal |-> wal']
<1>3. Places' = {here} \cup {quarantine[i] : i \in Operations}
  BY <1>1 DEF Places
<1>4. ASSUME NEW f \in (DOMAIN latest) \ wiped, latest[f] # Null
      PROVE  \E p \in Places' :
                /\ p.main # Null /\ p.main.id = f
                /\ \/ p.main.content = latest[f]
                   \/ \E o \in Places' : o.wal = [base |-> f, content |-> latest[f]]
  <2>1. CASE f = main.id
    <3>1. here \in Places' /\ here.main = main'
      BY <1>1, <1>3
    <3>2. latest[f] = Content
      BY <2>1 DEF IInv, InPlace
    <3> HIDE DEF here
    <3> QED BY <1>1, <2>1, <3>1, <3>2
  <2>2. CASE f # main.id
    <3>2. PICK p \in Places :
             /\ p.main # Null /\ p.main.id = f
             /\ \/ p.main.content = latest[f]
                \/ \E o \in Places : o.wal = [base |-> f, content |-> latest[f]]
      BY <1>4 DEF IInv, NothingLost
    <3>3. ASSUME NEW o \in Places, o.wal = [base |-> f, content |-> latest[f]]
          PROVE  o \in Places'
      <4>1. o # [main |-> main, wal |-> wal]
        <5>1. wal # [base |-> f, content |-> latest[f]]
          <6>1. wal # Null => wal.base # f
            BY <2>2 DEF IInv, InPlace
          <6>2. [base |-> f, content |-> latest[f]] \in Wals
            BY <1>4 DEF Wals, TypeOK
          <6> QED BY <6>1, <6>2
        <5> QED BY <3>3, <5>1
      <4> QED BY <1>3, <4>1 DEF Places
    <3>4. p \in Places'
      BY <1>3, <2>2, <3>2 DEF Places
    <3> QED BY <3>2, <3>3, <3>4
  <2> QED BY <2>1, <2>2
<1> HIDE DEF here
<1> QED BY <1>1, <1>2, <1>4 DEF NothingLost

-----------------------------------------------------------------------------
(* Steps that write no file: they take locks, give them back or go on.     *)

\* Nothing is said of a command that is not there.
LEMMA NoCommand ==
    ASSUME op' = Null
    PROVE  RestoreSteps' /\ Migrating' /\ MigrationRecovering'
  BY DEF RestoreSteps, Migrating, MigrationRecovering, At

\* A command that ends leaves everything as it is, but for a bootstrap it ran in.
LEMMA CommandEnds ==
    ASSUME TypeOK, IInv, op' = Null, boot' \in {boot, Null},
           UNCHANGED <<serving, filesVars, backups, marker, sidecars, latest, wiped>>,
           count'.operations = count.operations
    PROVE  IInv'
<1>1. /\ Content' = Content /\ Sidecars' /\ SetAside' /\ MatchedGeneration' /\ NothingLost'
      /\ InPlace' /\ Archive' /\ Restoring'
  BY MarkerKept
<1>2. Control'
  BY DEF IInv, Control, filesVars
<1>3. Booting'
  BY <1>1, BootKept DEF filesVars, IInv, Booting, Marked
<1> QED BY <1>1, <1>2, <1>3, NoCommand DEF IInv

\* A command that goes on, without a word of it in a file.
LEMMA CommandMoves ==
    ASSUME TypeOK, IInv, UNCHANGED <<serving, boot, filesVars, backups, marker, sidecars, latest, wiped>>,
           count'.operations = count.operations,
           Control', RestoreSteps', Migrating', MigrationRecovering'
    PROVE  IInv'
<1>1. /\ Content' = Content /\ Sidecars' /\ SetAside' /\ MatchedGeneration' /\ NothingLost'
      /\ InPlace' /\ Archive' /\ Restoring'
  BY MarkerKept
<1>2. Booting'
  BY <1>1, BootKept DEF filesVars, IInv, Booting, Marked
<1> QED BY <1>1, <1>2 DEF IInv

LEMMA StartIndexerStep ==
    ASSUME TypeOK, IInv, StartIndexer
    PROVE  TypeOK' /\ IInv'
<1>1. /\ op = Null /\ marker = Null /\ main # Null /\ serving' = TRUE
      /\ UNCHANGED <<release, bound, filesVars, backups, marker, sidecars, op, boot, glance,
                     count, latest, wiped>>
  BY DEF StartIndexer, LocksFree
<1>2. TypeOK'
  BY <1>1 DEF TypeOK, filesVars
<1>3. /\ Content' = Content /\ Sidecars' /\ SetAside' /\ MatchedGeneration' /\ NothingLost'
      /\ InPlace' /\ Archive' /\ Restoring'
  BY <1>1, MarkerKept
<1>4. Control'
  BY <1>1 DEF Control, filesVars
<1>5. Booting'
  BY <1>1, <1>3, BootKept DEF filesVars, IInv, Booting, Marked
<1> QED BY <1>1, <1>2, <1>3, <1>4, <1>5, NoCommand DEF IInv

LEMMA KillIndexerStep ==
    ASSUME TypeOK, IInv, KillIndexer
    PROVE  TypeOK' /\ IInv'
<1>1. /\ serving /\ serving' = FALSE
      /\ UNCHANGED <<release, bound, filesVars, backups, marker, sidecars, op, boot, glance,
                     latest, wiped>>
      /\ count' \in [files : Nat, deployments : Nat, rows : Nat, operations : Nat, mishaps : Nat]
      /\ count'.operations = count.operations /\ count'.files = count.files
  BY MishapEffect DEF KillIndexer
<1>2. TypeOK'
  BY <1>1 DEF TypeOK, filesVars
<1>3. /\ Content' = Content /\ Sidecars' /\ SetAside' /\ MatchedGeneration' /\ NothingLost'
      /\ InPlace' /\ Archive' /\ Restoring'
  BY <1>1, MarkerKept
<1>4. op' = Null
  BY <1>1 DEF IInv, Control
<1>5. Control'
  BY <1>1, <1>4 DEF Control
<1>6. Booting'
  BY <1>1, <1>3, BootKept DEF filesVars, IInv, Booting, Marked
<1> QED BY <1>2, <1>3, <1>4, <1>5, <1>6, NoCommand DEF IInv

LEMMA BundleType ==
    ASSUME TypeOK, NEW b \in DOMAIN backups
    PROVE  backups[b] \in Bundles /\ backups[b].content \in Contents
<1>1. backups[b] \in Bundles
  BY DEF TypeOK
<1> QED BY <1>1 DEF Bundles

LEMMA SkipBackupStep ==
    ASSUME TypeOK, IInv, SkipBackup
    PROVE  TypeOK' /\ IInv'
<1>1. /\ op # Null /\ op.command = "migrate" /\ op.at = "start" /\ main # Null
      /\ KnownHistory(Content) /\ Goto("apply")
      /\ NeedsBackup => marker.backup # Null /\ SafetyBackup(backups[marker.backup])
      /\ UNCHANGED <<release, bound, filesVars, backups, marker, sidecars, serving, glance,
                     count, latest, wiped>>
  BY DEF SkipBackup, At
<1>2. /\ op' \in Commands /\ op' # Null /\ op'.command = "migrate" /\ op'.by = op.by
      /\ op'.at = "apply" /\ boot' = boot
  BY <1>1, GotoEffect DEF Labels
<1>3. TypeOK'
  BY <1>1, <1>2 DEF TypeOK, filesVars
<1>4. Control' /\ RestoreSteps' /\ MigrationRecovering'
  BY <1>1, <1>2 DEF IInv, Control, RestoreSteps, MigrationRecovering, At, Marked, MigrateLabels
<1>5. ASSUME NeedsBackup PROVE \E b \in DOMAIN backups : backups[b].content = Content
  <2>1. Marked("MIGRATE") /\ Archive
    BY <1>1 DEF IInv, Control
  <2>2. marker.backup \in DOMAIN backups
    BY <1>1, <1>5, <2>1 DEF Archive, Marked
  <2> DEFINE b == backups[marker.backup]
  <2>3. /\ b.operation = marker.id /\ b.content.schema = Content.schema
        /\ b.content.contract = Content.contract /\ b.content.deployment = Content.deployment
    BY <1>1, <1>5 DEF SafetyBackup, OfThisOperation
  <2>4. b.content.rows = Content.rows
    BY <2>1, <2>2, <2>3 DEF Archive
  <2>5. b.content \in Contents /\ Content \in Contents
    BY <1>1, <2>2, BundleType, ContentType
  <2>6. b.content = Content
    <3> DEFINE d == b.content
               c == Content
    <3>1. /\ d \in Contents /\ c \in Contents /\ d.schema = c.schema /\ d.contract = c.contract
          /\ d.deployment = c.deployment /\ d.rows = c.rows
      BY <2>3, <2>4, <2>5
    <3> HIDE DEF d, c
    <3>2. d = c
      BY <3>1 DEF Contents
    <3> QED BY <3>2 DEF d, c
  <2> QED BY <2>2, <2>6
<1>6. Migrating'
  <2>1. Content' = Content
    BY <1>1, MarkerKept
  <2> QED BY <1>1, <1>2, <1>5, <2>1 DEF Migrating, KnownHistory, NeedsBackup, Pending, filesVars
<1> QED BY <1>1, <1>2, <1>3, <1>4, <1>6, CommandMoves

LEMMA ReadInitialMarkerStep ==
    ASSUME TypeOK, IInv, ReadInitialMarker
    PROVE  TypeOK' /\ IInv'
<1>1. /\ glance' \in Glances
      /\ UNCHANGED <<release, bound, filesVars, backups, marker, sidecars, serving, op, boot,
                     count, latest, wiped>>
  BY DEF ReadInitialMarker, Glances
<1>2. TypeOK'
  BY <1>1 DEF TypeOK, filesVars
<1>3. Content' = Content
  BY <1>1, MarkerKept
<1>4. Control' /\ RestoreSteps' /\ Migrating' /\ MigrationRecovering'
  BY <1>1, <1>3
  DEF IInv, Control, RestoreSteps, Migrating, MigrationRecovering, Marked, Aside, At, filesVars,
      KnownHistory, NeedsBackup, Pending, Current, Finalised
<1> QED BY <1>1, <1>2, <1>4, CommandMoves

LEMMA StartRecoverStep ==
    ASSUME TypeOK, IInv, StartRecover
    PROVE  TypeOK' /\ IInv'
<1>1. /\ UNCHANGED <<release, bound, filesVars, backups, marker, sidecars, serving, boot,
                     count, latest, wiped>>
      /\ glance' = Null
  BY DEF StartRecover
<1>2. CASE UNCHANGED op
  <2>1. TypeOK'
    BY <1>1, <1>2 DEF TypeOK, filesVars
  <2>2. Content' = Content
    BY <1>1, MarkerKept
  <2>3. Control' /\ RestoreSteps' /\ Migrating' /\ MigrationRecovering'
    BY <1>1, <1>2, <2>2
    DEF IInv, Control, RestoreSteps, Migrating, MigrationRecovering, Marked, Aside, At, filesVars,
        KnownHistory, NeedsBackup, Pending, Current, Finalised
  <2> QED BY <1>1, <1>2, <2>1, <2>3, CommandMoves
<1>3. CASE LocksFree /\ marker # Null /\ (glance = "RESET" => BootstrapFree)
           /\ Run("recover", IF glance = "RESET" THEN "owner" ELSE "cli")
  <2>1. /\ op' \in Commands /\ op' # Null /\ op'.command = "recover" /\ op'.at = "start"
        /\ op'.by \in {"owner", "cli"} /\ (op'.by = "owner" => boot = Null)
        /\ ~serving
    <3>1. CASE glance = "RESET"
      BY <1>3, <3>1, RunEffect DEF BootstrapFree, LocksFree
    <3>2. CASE glance # "RESET"
      BY <1>3, <3>2, RunEffect DEF LocksFree
    <3> QED BY <3>1, <3>2
  <2>2. TypeOK'
    BY <1>1, <2>1 DEF TypeOK, filesVars
  <2>3. Control' /\ RestoreSteps' /\ Migrating' /\ MigrationRecovering'
    BY <1>1, <1>3, <2>1 DEF Control, RestoreSteps, Migrating, MigrationRecovering, At
  <2> QED BY <1>1, <2>2, <2>3, CommandMoves
<1> QED BY <1>2, <1>3 DEF StartRecover

LEMMA RecoverResetStep ==
    ASSUME TypeOK, IInv, RecoverReset
    PROVE  TypeOK' /\ IInv'
<1>1. /\ op # Null /\ op.command = "recover" /\ op.at = "start" /\ marker.type = "RESET"
      /\ UNCHANGED <<release, bound, filesVars, backups, marker, sidecars, serving, glance,
                     count, latest, wiped>>
      /\ Goto("clear") \/ End(FALSE)
  BY DEF RecoverReset, At
<1>2. CASE End(FALSE)
  <2>1. op' = Null /\ boot' \in {boot, Null} /\ boot' \in BootPhases \cup {Null}
    BY <1>1, <1>2, EndEffect
  <2>2. TypeOK'
    BY <1>1, <2>1 DEF TypeOK, filesVars
  <2> QED BY <1>1, <2>1, <2>2, CommandEnds
<1>3. CASE Goto("clear")
  <2>1. /\ op' \in Commands /\ op' # Null /\ op'.command = "recover" /\ op'.by = op.by
        /\ op'.at = "clear" /\ boot' = boot
    BY <1>1, <1>3, GotoEffect DEF Labels
  <2>2. TypeOK'
    BY <1>1, <2>1 DEF TypeOK, filesVars
  <2>3. Control' /\ RestoreSteps' /\ Migrating' /\ MigrationRecovering'
    BY <1>1, <2>1 DEF IInv, Control, RestoreSteps, Migrating, MigrationRecovering, At, Marked
  <2> QED BY <1>1, <2>1, <2>2, <2>3, CommandMoves
<1> QED BY <1>1, <1>2, <1>3

LEMMA RecoverRestoredStep ==
    ASSUME TypeOK, IInv, RecoverRestored
    PROVE  TypeOK' /\ IInv'
<1>1. /\ op # Null /\ op.command = "recover" /\ op.at = "start" /\ marker.type = "RESTORE"
      /\ UNCHANGED <<release, bound, filesVars, backups, marker, sidecars, serving, glance,
                     count, latest, wiped>>
      /\ (main # Null /\ Goto("finish")) \/ End(FALSE)
  BY DEF RecoverRestored, Recovering, At
<1>2. CASE End(FALSE)
  <2>1. op' = Null /\ boot' \in {boot, Null} /\ boot' \in BootPhases \cup {Null}
    BY <1>1, <1>2, EndEffect
  <2>2. TypeOK'
    BY <1>1, <2>1 DEF TypeOK, filesVars
  <2> QED BY <1>1, <2>1, <2>2, CommandEnds
<1>3. CASE main # Null /\ Goto("finish")
  <2>1. /\ op' \in Commands /\ op' # Null /\ op'.command = "recover" /\ op'.by = op.by
        /\ op'.at = "finish" /\ boot' = boot
    BY <1>1, <1>3, GotoEffect DEF Labels
  <2>2. TypeOK'
    BY <1>1, <2>1 DEF TypeOK, filesVars
  <2>3. Control' /\ RestoreSteps' /\ Migrating' /\ MigrationRecovering'
    BY <1>1, <1>3, <2>1
    DEF IInv, Control, RestoreSteps, Migrating, MigrationRecovering, At, Marked, filesVars
  <2> QED BY <1>1, <2>1, <2>2, <2>3, CommandMoves
<1> QED BY <1>1, <1>2, <1>3

LEMMA StartBootstrapStep ==
    ASSUME TypeOK, IInv, StartBootstrap
    PROVE  TypeOK' /\ IInv'
<1>1. /\ BootstrapFree /\ boot' = "migrate"
      /\ UNCHANGED <<release, bound, filesVars, backups, marker, sidecars, serving, op, glance,
                     count, latest, wiped>>
  BY DEF StartBootstrap
<1>2. TypeOK'
  BY <1>1 DEF TypeOK, filesVars, BootPhases
<1>3. /\ Content' = Content /\ Sidecars' /\ SetAside' /\ MatchedGeneration' /\ NothingLost'
      /\ InPlace' /\ Archive' /\ Restoring'
  BY <1>1, MarkerKept
<1>4. Control'
  BY <1>1 DEF IInv, Control, BootstrapFree, OwnsBootstrap, Marked, filesVars, BootPhases
<1>5. RestoreSteps' /\ Migrating' /\ MigrationRecovering'
  BY <1>1, <1>3
  DEF IInv, RestoreSteps, Migrating, MigrationRecovering, Marked, Aside, At, filesVars,
      KnownHistory, NeedsBackup, Pending, Current, Finalised
<1>6. Booting'
  BY <1>1 DEF Booting
<1> QED BY <1>2, <1>3, <1>4, <1>5, <1>6 DEF IInv

LEMMA EndBootstrapStep ==
    ASSUME TypeOK, IInv, EndBootstrap
    PROVE  TypeOK' /\ IInv'
<1>1. /\ op # Null => op.by # "boot"
      /\ boot' = Null
      /\ UNCHANGED <<release, bound, filesVars, backups, marker, sidecars, serving, op, glance,
                     count, latest, wiped>>
  BY DEF EndBootstrap
<1>2. TypeOK'
  BY <1>1 DEF TypeOK, filesVars
<1>3. /\ Content' = Content /\ Sidecars' /\ SetAside' /\ MatchedGeneration' /\ NothingLost'
      /\ InPlace' /\ Archive' /\ Restoring'
  BY <1>1, MarkerKept
<1>4. Control'
  BY <1>1 DEF IInv, Control, Marked, filesVars
<1>5. RestoreSteps' /\ Migrating' /\ MigrationRecovering'
  BY <1>1, <1>3
  DEF IInv, RestoreSteps, Migrating, MigrationRecovering, Marked, Aside, At, filesVars,
      KnownHistory, NeedsBackup, Pending, Current, Finalised
<1>6. Booting'
  BY <1>1 DEF Booting
<1> QED BY <1>2, <1>3, <1>4, <1>5, <1>6 DEF IInv

LEMMA CrashOperationStep ==
    ASSUME TypeOK, IInv, CrashOperation
    PROVE  TypeOK' /\ IInv'
<1>1. /\ op # Null /\ End(FALSE)
      /\ UNCHANGED <<release, bound, filesVars, backups, marker, sidecars, serving, glance,
                     latest, wiped>>
      /\ count' \in [files : Nat, deployments : Nat, rows : Nat, operations : Nat, mishaps : Nat]
      /\ count'.operations = count.operations /\ count'.files = count.files
  BY MishapEffect DEF CrashOperation
<1>2. op' = Null /\ boot' \in {boot, Null} /\ boot' \in BootPhases \cup {Null}
  BY <1>1, EndEffect
<1>3. TypeOK'
  BY <1>1, <1>2 DEF TypeOK, filesVars
<1> QED BY <1>1, <1>2, <1>3, CommandEnds

LEMMA ChangeReleaseStep ==
    ASSUME TypeOK, IInv, NEW r \in Releases, ChangeRelease(r)
    PROVE  TypeOK' /\ IInv'
<1>1. /\ op = Null /\ ~serving /\ boot = Null /\ release' = r
      /\ UNCHANGED <<filesVars, backups, marker, sidecars, bound, serving, op, boot, glance,
                     latest, wiped>>
      /\ count' \in [files : Nat, deployments : Nat, rows : Nat, operations : Nat, mishaps : Nat]
      /\ count'.operations = count.operations /\ count'.files = count.files
  BY MishapEffect DEF ChangeRelease, LocksFree
<1>2. TypeOK'
  BY <1>1 DEF TypeOK, filesVars
<1> QED BY <1>1, <1>2, CommandEnds

\* Lost power takes the commands and what a restore has staged.
LEMMA PowerLossStep ==
    ASSUME TypeOK, IInv, PowerLoss
    PROVE  TypeOK' /\ IInv'
<1>1. /\ op' = Null /\ boot' = Null /\ glance' = Null
      /\ staged' = [i \in Operations |-> Null]
      /\ UNCHANGED <<release, bound, main, wal, quarantine, backups, marker, sidecars, serving,
                     latest, wiped>>
      /\ count' \in [files : Nat, deployments : Nat, rows : Nat, operations : Nat, mishaps : Nat]
      /\ count'.operations = count.operations /\ count'.files = count.files
  BY MishapEffect DEF PowerLoss
<1>2. TypeOK'
  BY <1>1 DEF TypeOK
<1>3. Content' = Content /\ (\A type : Marked(type)' <=> Marked(type)) /\ \A c : Fits(c)' <=> Fits(c)
  BY <1>1 DEF Content, Marked, Fits
<1>4. Control' /\ Booting'
  BY <1>1, <1>3 DEF IInv, Control, Booting
<1>5. Sidecars' /\ SetAside' /\ MatchedGeneration'
  BY <1>1 DEF IInv, Sidecars, SetAside, MatchedGeneration
<1>6. InPlace' /\ Archive'
  BY <1>1, <1>3 DEF IInv, InPlace, Archive, Finalised
<1>7. NothingLost'
  BY <1>1 DEF IInv, NothingLost, Places
<1>8. Restoring'
  <2>1. Aside' = Aside /\ Moved' = Moved
    BY <1>1 DEF Aside, Moved
  <2>2. Marked("RESTORE") => staged'[marker.id] = Null
    BY <1>1 DEF Marked, TypeOK, Markers
  <2> QED BY <1>1, <1>3, <2>1, <2>2 DEF IInv, Restoring, Finalised, Marked
<1> QED BY <1>1, <1>2, <1>4, <1>5, <1>6, <1>7, <1>8, NoCommand DEF IInv

-----------------------------------------------------------------------------
(* Steps that write the marker and no other file.                          *)

\* A new operation has nothing set aside and no backup.
LEMMA NewOperation ==
    ASSUME TypeOK, IInv, NEW type \in {"MIGRATE", "RESTORE", "RESET"},
           MayOpenMarker, UNCHANGED <<filesVars, backups, sidecars, latest, wiped>>,
           marker' \in Markers, marker'.type = type, marker'.id = count.operations + 1,
           marker'.backup # Null => marker'.backup \in DOMAIN backups
    PROVE  /\ marker' # Null /\ marker'.id \in Operations
           /\ staged'[marker'.id] = Null /\ Aside' = NoFiles
           /\ Archive' /\ Sidecars' /\ SetAside' /\ MatchedGeneration' /\ NothingLost'
           /\ Content' = Content /\ (\A c : Fits(c)' <=> Fits(c))
           /\ \A t : Marked(t)' <=> t = type
<1>1. /\ count'.operations = count.operations + 1 /\ count.operations \in Nat
      /\ count'.operations \in Nat /\ count'.operations >= count.operations
  BY NewMarkerType DEF TypeOK
<1>2. /\ Sidecars' /\ SetAside' /\ MatchedGeneration' /\ NothingLost'
      /\ Content' = Content /\ (\A c : Fits(c)' <=> Fits(c))
  BY <1>1, FilesKept
<1>3. marker' # Null /\ marker'.id \in Operations /\ marker'.id > count.operations
  BY <1>1 DEF Markers
<1>4. staged'[marker'.id] = Null /\ Aside' = NoFiles
  BY <1>3 DEF IInv, SetAside, filesVars, Aside
<1>5. Archive'
  <2>1. Archive
    BY DEF IInv
  <2>2. ASSUME NEW b \in DOMAIN backups, backups[b].operation # Null
        PROVE  backups[b].operation \in Nat /\ backups[b].operation <= count.operations
    BY <2>1, <2>2, BundleType DEF Archive, Bundles, Operations
  <2>3. \A b \in DOMAIN backups : backups[b].operation # Null =>
           backups[b].operation <= count'.operations /\ backups[b].operation # marker'.id
    BY <1>1, <1>3, <2>2
  <2>4. marker'.id # Null
    BY <1>3 DEF Operations
  <2> QED BY <1>1, <1>3, <2>3, <2>4 DEF Archive
<1> QED BY <1>2, <1>3, <1>4, <1>5 DEF Marked

LEMMA StartMigrateStep ==
    ASSUME TypeOK, IInv, NEW by \in {"cli", "boot"}, StartMigrate(by)
    PROVE  TypeOK' /\ IInv'
<1>1. /\ op = Null /\ ~serving /\ (by = "boot" => boot = "migrate")
      /\ op' \in Commands /\ op' # Null /\ op'.command = "migrate" /\ op'.by = by
      /\ op'.at = "start"
      /\ UNCHANGED <<release, bound, filesVars, backups, sidecars, serving, boot, glance, latest, wiped>>
  BY RunEffect DEF StartMigrate, LocksFree
<1>2. CASE marker = Null /\ MayOpenMarker /\ marker' = NewMarker("MIGRATE")
  <2>1. /\ marker' \in Markers /\ marker'.type = "MIGRATE" /\ marker'.id = count.operations + 1
        /\ marker'.backup = Null /\ count'.files = count.files
        /\ count' \in [files : Nat, deployments : Nat, rows : Nat, operations : Nat, mishaps : Nat]
    BY <1>2, NewMarkerType
  <2>2. TypeOK'
    BY <1>1, <2>1 DEF TypeOK, filesVars
  <2>3. /\ marker' # Null /\ Archive' /\ Sidecars' /\ SetAside' /\ MatchedGeneration' /\ NothingLost'
        /\ Content' = Content /\ (\A c : Fits(c)' <=> Fits(c))
        /\ \A t : Marked(t)' <=> t = "MIGRATE"
    BY <1>1, <1>2, <2>1, NewOperation
  <2>4. Control' /\ Restoring' /\ RestoreSteps' /\ Migrating' /\ MigrationRecovering'
    BY <1>1, <2>3
    DEF Control, Restoring, RestoreSteps, Migrating, MigrationRecovering, At, MigrateLabels
  <2>5. InPlace'
    BY <1>1, <1>2, <2>3 DEF IInv, InPlace, filesVars
  <2>6. Booting'
    <3>1. boot' = boot /\ main' = main /\ sidecars' = sidecars
      BY <1>1 DEF filesVars
    <3>2. Marked("MIGRATE")' /\ Content'.deployment = Content.deployment
      BY <2>3
    <3> QED BY <3>1, <3>2, BootKept
  <2> QED BY <2>2, <2>3, <2>4, <2>5, <2>6 DEF IInv
<1>3. CASE marker # Null /\ marker.type = "MIGRATE" /\ UNCHANGED <<marker, count>>
  <2>1. TypeOK'
    BY <1>1, <1>3 DEF TypeOK, filesVars
  <2>2. Control' /\ RestoreSteps' /\ Migrating' /\ MigrationRecovering'
    BY <1>1, <1>3
    DEF Control, RestoreSteps, Migrating, MigrationRecovering, At, MigrateLabels, Marked
  <2> QED BY <1>1, <1>3, <2>1, <2>2, CommandMoves
<1> QED BY <1>2, <1>3 DEF StartMigrate

LEMMA StartRestoreStep ==
    ASSUME TypeOK, IInv, NEW b \in DOMAIN backups, StartRestore(b)
    PROVE  TypeOK' /\ IInv'
<1>1. /\ op = Null /\ ~serving /\ boot = Null /\ marker = Null /\ MayOpenMarker
      /\ op' \in Commands /\ op' # Null /\ op'.command = "restore" /\ op'.by = "owner"
      /\ op'.at = "start"
      /\ marker' = [NewMarker("RESTORE") EXCEPT !.backup = b]
      /\ UNCHANGED <<release, bound, filesVars, backups, sidecars, serving, boot, glance, latest, wiped>>
  BY RunEffect DEF StartRestore, LocksFree, BootstrapFree
<1>2. /\ marker' \in Markers /\ marker'.type = "RESTORE" /\ marker'.id = count.operations + 1
      /\ marker'.backup = b /\ count'.files = count.files
      /\ count' \in [files : Nat, deployments : Nat, rows : Nat, operations : Nat, mishaps : Nat]
  <2> DEFINE m == NewMarker("RESTORE")
  <2>1. /\ m \in Markers /\ m.type = "RESTORE" /\ m.id = count.operations + 1 /\ b \in Nat
        /\ marker' = [m EXCEPT !.backup = b]
    BY <1>1, NewMarkerType DEF TypeOK
  <2> HIDE DEF m
  <2>2. [m EXCEPT !.backup = b] \in Markers
    BY <2>1 DEF Markers
  <2>3. marker' \in Markers /\ marker'.type = "RESTORE" /\ marker'.id = count.operations + 1
        /\ marker'.backup = b
    BY <2>1, <2>2 DEF Markers
  <2> QED BY <1>1, <2>3, NewMarkerType
<1>3. TypeOK'
  BY <1>1, <1>2 DEF TypeOK, filesVars
<1>4. /\ marker' # Null /\ staged'[marker'.id] = Null /\ Aside' = NoFiles
      /\ Archive' /\ Sidecars' /\ SetAside' /\ MatchedGeneration' /\ NothingLost'
      /\ Content' = Content /\ (\A c : Fits(c)' <=> Fits(c))
      /\ \A t : Marked(t)' <=> t = "RESTORE"
  BY <1>1, <1>2, NewOperation
<1>5. marker'.backup # Null
  BY <1>2 DEF TypeOK
<1>6. Control' /\ RestoreSteps' /\ Migrating' /\ MigrationRecovering'
  BY <1>1, <1>4, <1>5
  DEF Control, RestoreSteps, Migrating, MigrationRecovering, At, RestoreLabels
<1>7. InPlace'
  BY <1>1, <1>4 DEF IInv, InPlace, filesVars, Finalised
<1>8. Restoring'
  BY <1>1, <1>4 DEF IInv, InPlace, Restoring, NoFiles, filesVars
<1>9. Booting'
  BY <1>1 DEF Booting
<1> QED BY <1>3, <1>4, <1>6, <1>7, <1>8, <1>9 DEF IInv

LEMMA StartResetStep ==
    ASSUME TypeOK, IInv, StartReset
    PROVE  TypeOK' /\ IInv'
<1>1. /\ op = Null /\ ~serving /\ boot = Null /\ MayOpenMarker
      /\ op' \in Commands /\ op' # Null /\ op'.command = "reset" /\ op'.by = "owner"
      /\ op'.at = "start"
      /\ marker' = NewMarker("RESET")
      /\ UNCHANGED <<release, bound, filesVars, backups, sidecars, serving, boot, glance, latest, wiped>>
  BY RunEffect DEF StartReset, LocksFree, BootstrapFree
<1>2. /\ marker' \in Markers /\ marker'.type = "RESET" /\ marker'.id = count.operations + 1
      /\ marker'.backup = Null /\ count'.files = count.files
      /\ count' \in [files : Nat, deployments : Nat, rows : Nat, operations : Nat, mishaps : Nat]
  BY <1>1, NewMarkerType
<1>3. TypeOK'
  BY <1>1, <1>2 DEF TypeOK, filesVars
<1>4. /\ marker' # Null
      /\ Archive' /\ Sidecars' /\ SetAside' /\ MatchedGeneration' /\ NothingLost'
      /\ Content' = Content /\ (\A c : Fits(c)' <=> Fits(c))
      /\ \A t : Marked(t)' <=> t = "RESET"
  BY <1>1, <1>2, NewOperation
<1>5. Control' /\ Restoring' /\ RestoreSteps' /\ Migrating' /\ MigrationRecovering'
  BY <1>1, <1>4
  DEF Control, Restoring, RestoreSteps, Migrating, MigrationRecovering, At
<1>6. InPlace'
  BY <1>1, <1>4 DEF IInv, InPlace, filesVars
<1>7. Booting'
  BY <1>1 DEF Booting
<1> QED BY <1>3, <1>4, <1>5, <1>6, <1>7 DEF IInv

\* A marker whose phase or backup is recorded stays that of its operation.
LEMMA MarkerEdited ==
    ASSUME TypeOK, IInv, marker # Null, marker' \in Markers,
           marker'.id = marker.id, marker'.type = marker.type,
           marker'.backup # Null => marker'.backup \in DOMAIN backups,
           UNCHANGED <<filesVars, backups, sidecars, count, latest, wiped>>
    PROVE  /\ Archive' /\ Sidecars' /\ SetAside' /\ MatchedGeneration' /\ NothingLost'
           /\ InPlace' /\ Restoring'
           /\ Content' = Content /\ (\A t : Marked(t)' <=> Marked(t))
<1>1. marker' # Null
  OBVIOUS
<1>2. /\ Content' = Content /\ Sidecars' /\ SetAside' /\ MatchedGeneration' /\ NothingLost'
      /\ \A c : Fits(c)' <=> Fits(c)
  BY FilesKept DEF TypeOK
<1>3. \A type : Marked(type)' <=> Marked(type)
  BY <1>1 DEF Marked
<1>4. InPlace'
  BY <1>1, <1>2, <1>3 DEF IInv, InPlace, filesVars, Finalised
<1>5. Archive'
  BY <1>1, <1>2, <1>3 DEF IInv, Archive, filesVars
<1>6. Restoring'
  <2>1. Aside' = Aside /\ Moved' = Moved
    BY DEF Aside, Moved, filesVars
  <2> QED BY <1>1, <1>2, <1>3, <2>1 DEF IInv, Restoring, filesVars, Finalised
<1> QED BY <1>2, <1>3, <1>4, <1>5, <1>6

LEMMA ChainResetStep ==
    ASSUME TypeOK, IInv, ChainReset
    PROVE  TypeOK' /\ IInv'
<1>1. /\ op # Null /\ op.command = "reset" /\ op.at = "start" /\ Goto("clear")
      /\ marker' = [marker EXCEPT !.phase = "CHAIN_RESET"]
      /\ UNCHANGED <<release, bound, filesVars, backups, sidecars, serving, glance, count, latest, wiped>>
  BY DEF ChainReset, At
<1>2. /\ op' \in Commands /\ op' # Null /\ op'.command = "reset" /\ op'.by = op.by
      /\ op'.at = "clear" /\ boot' = boot
  BY <1>1, GotoEffect DEF Labels
<1>3. marker # Null /\ marker \in Markers /\ Marked("RESET")
  BY <1>1 DEF IInv, Control, Marked, TypeOK
<1>4. /\ marker' \in Markers /\ marker'.id = marker.id /\ marker'.type = marker.type
      /\ marker'.backup = marker.backup
  <2>1. [marker EXCEPT !.phase = "CHAIN_RESET"] \in Markers
    BY <1>3 DEF Markers
  <2>2. marker' \in Markers
    BY <1>1, <2>1
  <2> QED BY <1>1, <1>3, <2>2 DEF Markers
<1>5. TypeOK'
  BY <1>1, <1>2, <1>4 DEF TypeOK, filesVars
<1>6. /\ Archive' /\ Sidecars' /\ SetAside' /\ MatchedGeneration' /\ NothingLost'
      /\ InPlace' /\ Restoring'
      /\ Content' = Content /\ (\A t : Marked(t)' <=> Marked(t))
  <2>1. marker'.backup # Null => marker'.backup \in DOMAIN backups
    BY <1>3, <1>4 DEF IInv, Archive
  <2> QED BY <1>1, <1>3, <1>4, <2>1, MarkerEdited
<1>7. Control' /\ RestoreSteps' /\ Migrating' /\ MigrationRecovering'
  BY <1>1, <1>2, <1>6 DEF IInv, Control, RestoreSteps, Migrating, MigrationRecovering, At
<1>8. Booting'
  BY <1>1, <1>2, <1>3 DEF IInv, Control, Booting
<1> QED BY <1>5, <1>6, <1>7, <1>8 DEF IInv

LEMMA RecordBackupStep ==
    ASSUME TypeOK, IInv, RecordBackup
    PROVE  TypeOK' /\ IInv'
<1>1. /\ op # Null /\ op.command = "migrate" /\ op.at = "record" /\ Goto("apply")
      /\ marker' = [marker EXCEPT !.backup = Len(backups)]
      /\ UNCHANGED <<release, bound, filesVars, backups, sidecars, serving, glance, count, latest, wiped>>
  BY DEF RecordBackup, At
<1>2. /\ op' \in Commands /\ op' # Null /\ op'.command = "migrate" /\ op'.by = op.by
      /\ op'.at = "apply" /\ boot' = boot
  BY <1>1, GotoEffect DEF Labels
<1>3. marker # Null /\ marker \in Markers /\ Marked("MIGRATE")
  BY <1>1 DEF IInv, Control, Marked, TypeOK
<1>4. Len(backups) \in DOMAIN backups /\ Len(backups) \in Nat
  BY <1>1 DEF IInv, Migrating, TypeOK
<1>5. /\ marker' \in Markers /\ marker'.id = marker.id /\ marker'.type = marker.type
      /\ marker'.backup = Len(backups)
  <2> DEFINE n == Len(backups)
  <2>1. n \in Nat
    BY <1>4
  <2> HIDE DEF n
  <2>2. [marker EXCEPT !.backup = n] \in Markers
    BY <1>3, <2>1 DEF Markers
  <2>3. marker' \in Markers /\ marker' = [marker EXCEPT !.backup = n]
    BY <1>1, <2>2 DEF n
  <2>4. marker'.id = marker.id /\ marker'.type = marker.type /\ marker'.backup = n
    BY <1>3, <2>3 DEF Markers
  <2> QED BY <2>3, <2>4 DEF n
<1>6. TypeOK'
  BY <1>1, <1>2, <1>5 DEF TypeOK, filesVars
<1>7. /\ Archive' /\ Sidecars' /\ SetAside' /\ MatchedGeneration' /\ NothingLost'
      /\ InPlace' /\ Restoring'
      /\ Content' = Content /\ (\A t : Marked(t)' <=> Marked(t))
  BY <1>1, <1>3, <1>4, <1>5, MarkerEdited
<1>8. Control' /\ RestoreSteps' /\ MigrationRecovering'
  BY <1>1, <1>2, <1>7
  DEF IInv, Control, RestoreSteps, MigrationRecovering, At, MigrateLabels, filesVars
<1>9. Migrating'
  BY <1>1, <1>2, <1>7 DEF IInv, Migrating, KnownHistory, NeedsBackup, Pending, filesVars
<1>10. Booting'
  <2>1. boot' = boot /\ main' = main /\ sidecars' = sidecars
    BY <1>1, <1>2 DEF filesVars
  <2>2. Marked("MIGRATE")' /\ Content'.deployment = Content.deployment
    BY <1>3, <1>7
  <2> QED BY <2>1, <2>2, BootKept
<1> QED BY <1>6, <1>7, <1>8, <1>9, <1>10 DEF IInv

\* A marker is only removed when what it stood for is over.
LEMMA MarkerRemoved ==
    ASSUME TypeOK, IInv, marker' = Null,
           UNCHANGED <<filesVars, backups, sidecars, count, latest, wiped>>,
           boot' \in {boot, Null} \/ (boot' = "deploy" /\ main' # Null),
           main # Null => Finalised(Content),
           main = Null => wal = Null /\ sidecars = NoSidecars
    PROVE  /\ Archive' /\ Sidecars' /\ SetAside' /\ MatchedGeneration' /\ NothingLost'
           /\ InPlace' /\ Restoring' /\ Booting' /\ RestoreSteps' /\ MigrationRecovering'
           /\ Content' = Content
<1>1. /\ Content' = Content /\ Sidecars' /\ SetAside' /\ MatchedGeneration' /\ NothingLost'
      /\ \A c : Fits(c)' <=> Fits(c)
  BY FilesKept DEF TypeOK
<1>2. InPlace'
  BY <1>1 DEF IInv, InPlace, filesVars, Finalised
<1>3. Archive'
  BY <1>1 DEF IInv, Archive, Marked
<1>4. Restoring' /\ RestoreSteps' /\ MigrationRecovering'
  BY DEF Restoring, RestoreSteps, MigrationRecovering, Marked
<1>5. Booting'
  BY <1>1, BootKept DEF filesVars
<1> QED BY <1>1, <1>2, <1>3, <1>4, <1>5

LEMMA ClearMigrateStep ==
    ASSUME TypeOK, IInv, ClearMigrate
    PROVE  TypeOK' /\ IInv'
<1>1. /\ op # Null /\ op.command = "migrate" /\ op.at = "clear" /\ marker' = Null /\ Goto("close")
      /\ UNCHANGED <<release, bound, filesVars, backups, sidecars, serving, glance, count, latest, wiped>>
  BY DEF ClearMigrate, At
<1>2. /\ op' \in Commands /\ op' # Null /\ op'.command = "migrate" /\ op'.by = op.by
      /\ op'.at = "close" /\ boot' = boot
  BY <1>1, GotoEffect DEF Labels
<1>3. TypeOK'
  BY <1>1, <1>2 DEF TypeOK, filesVars
<1>4. main # Null /\ Current(Content) /\ Finalised(Content)
  BY <1>1 DEF IInv, Migrating
<1>5. /\ Archive' /\ Sidecars' /\ SetAside' /\ MatchedGeneration' /\ NothingLost'
      /\ InPlace' /\ Restoring' /\ Booting' /\ RestoreSteps' /\ MigrationRecovering'
      /\ Content' = Content
  BY <1>1, <1>2, <1>4, MarkerRemoved
<1>6. Control' /\ Migrating'
  BY <1>1, <1>2, <1>4, <1>5
  DEF IInv, Control, Migrating, MigrateLabels, Current, Finalised, filesVars
<1> QED BY <1>3, <1>5, <1>6 DEF IInv

\* The three other commands that remove it end with it.
LEMMA MarkerRemovedAtEnd ==
    ASSUME TypeOK, IInv, op # Null, End(TRUE), marker' = Null,
           UNCHANGED <<release, bound, filesVars, backups, sidecars, serving, glance, count, latest, wiped>>,
           op.by # "boot",
           main # Null => Finalised(Content),
           main = Null => wal = Null /\ sidecars = NoSidecars
    PROVE  TypeOK' /\ IInv'
<1>1. op' = Null /\ boot' = boot /\ boot' \in BootPhases \cup {Null}
  BY EndEffect
<1>2. TypeOK'
  BY <1>1 DEF TypeOK, filesVars
<1>3. /\ Archive' /\ Sidecars' /\ SetAside' /\ MatchedGeneration' /\ NothingLost'
      /\ InPlace' /\ Restoring' /\ Booting' /\ RestoreSteps' /\ MigrationRecovering'
      /\ Content' = Content
  BY <1>1, MarkerRemoved
<1>4. Control' /\ Migrating'
  BY <1>1 DEF IInv, Control, Migrating
<1> QED BY <1>2, <1>3, <1>4 DEF IInv

LEMMA FinishRestoreStep ==
    ASSUME TypeOK, IInv, FinishRestore
    PROVE  TypeOK' /\ IInv'
<1>1. /\ op # Null /\ op.command = "restore" /\ op.at = "verify" /\ marker' = Null /\ End(TRUE)
      /\ UNCHANGED <<release, bound, filesVars, backups, sidecars, serving, glance, count, latest, wiped>>
  BY DEF FinishRestore, At
<1>2. op.by # "boot" /\ main # Null /\ Finalised(Content)
  BY <1>1 DEF IInv, Control, RestoreSteps, InPlace
<1> QED BY <1>1, <1>2, MarkerRemovedAtEnd

LEMMA FinishResetStep ==
    ASSUME TypeOK, IInv, FinishReset
    PROVE  TypeOK' /\ IInv'
<1>1. /\ op # Null /\ op.command \in {"reset", "recover"} /\ marker' = Null /\ End(TRUE)
      /\ main = Null /\ wal = Null /\ sidecars = NoSidecars
      /\ UNCHANGED <<release, bound, filesVars, backups, sidecars, serving, glance, count, latest, wiped>>
  BY DEF FinishReset, At
<1>2. op.by # "boot"
  BY <1>1 DEF IInv, Control
<1> QED BY <1>1, <1>2, MarkerRemovedAtEnd

LEMMA FinishRecoverStep ==
    ASSUME TypeOK, IInv, FinishRecover
    PROVE  TypeOK' /\ IInv'
<1>1. /\ op # Null /\ op.command = "recover" /\ op.at = "finish" /\ marker' = Null /\ End(TRUE)
      /\ UNCHANGED <<release, bound, filesVars, backups, sidecars, serving, glance, count, latest, wiped>>
  BY DEF FinishRecover, At
<1>2. op.by # "boot" /\ main # Null /\ Finalised(Content)
  BY <1>1 DEF IInv, Control, RestoreSteps, MigrationRecovering, InPlace, At
<1> QED BY <1>1, <1>2, MarkerRemovedAtEnd

-----------------------------------------------------------------------------
(* Steps that commit to the database or close it.                          *)

\* Whatever a commit changes, the content still fits the files beside it.
LEMMA Committed ==
    ASSUME TypeOK, IInv, main # Null, NEW c \in Contents, Commit(c),
           UNCHANGED <<sidecars, wiped, marker>>, count'.operations = count.operations,
           marker = Null \/ Marked("MIGRATE"),
           c.deployment = Content.deployment,
           marker = Null => Finalised(c)
    PROVE  /\ Sidecars' /\ SetAside' /\ MatchedGeneration' /\ NothingLost'
           /\ InPlace' /\ Restoring' /\ RestoreSteps'
           /\ Content' = c /\ main' = main
           /\ latest' \in Seq(Contents \cup {Null}) /\ Len(latest') = Len(latest)
           /\ DOMAIN latest' = DOMAIN latest
           /\ wal' \in Wals /\ staged' = staged /\ quarantine' = quarantine
<1>1. /\ UNCHANGED <<main, staged, quarantine>>
      /\ wal' \in Wals /\ wal' # Null /\ wal'.base = main.id /\ wal'.content = c
      /\ Content' = c
      /\ latest' \in Seq(Contents \cup {Null}) /\ Len(latest') = Len(latest)
      /\ DOMAIN latest' = DOMAIN latest
      /\ main.id \in DOMAIN latest /\ latest'[main.id] = c
  BY CommitEffect
<1>2. NothingLost' /\ MatchedGeneration'
  BY CommitKeeps
<1>3. Fits(c)'
  BY DEF IInv, InPlace, Fits
<1>4. InPlace'
  BY <1>1, <1>3 DEF InPlace, Finalised, Marked
<1>5. Sidecars' /\ SetAside'
  BY <1>1 DEF IInv, Sidecars, SetAside
<1>6. Restoring' /\ RestoreSteps'
  BY DEF Restoring, RestoreSteps, Marked
<1> QED BY <1>1, <1>2, <1>4, <1>5, <1>6

LEMMA CommitBatchStep ==
    ASSUME TypeOK, IInv, CommitBatch
    PROVE  TypeOK' /\ IInv'
<1> DEFINE c == [Content EXCEPT !.rows = count.rows + 1]
<1>1. /\ serving /\ Commit(c) /\ count' = [count EXCEPT !.rows = count.rows + 1]
      /\ UNCHANGED <<release, bound, backups, marker, sidecars, serving, op, boot, glance, wiped>>
  BY DEF CommitBatch, TypeOK
<1>2. op = Null /\ marker = Null /\ main # Null
  BY <1>1 DEF IInv, Control
<1>3. count \in [files : Nat, deployments : Nat, rows : Nat, operations : Nat, mishaps : Nat]
  BY DEF TypeOK
<1>4. /\ count' \in [files : Nat, deployments : Nat, rows : Nat, operations : Nat, mishaps : Nat]
      /\ count'.operations = count.operations /\ count'.files = count.files
  BY <1>1, <1>3
<1>5. /\ c \in Contents /\ c.deployment = Content.deployment /\ c.schema = Content.schema
      /\ c.contract = Content.contract
  <2>1. Content \in Contents /\ count.rows + 1 \in Nat
    BY <1>2, <1>3, ContentType
  <2> QED BY <2>1, ContentEdits
<1> HIDE DEF c
<1>6. Finalised(c)
  BY <1>2, <1>5 DEF IInv, InPlace, Finalised
<1>7. /\ Sidecars' /\ SetAside' /\ MatchedGeneration' /\ NothingLost'
      /\ InPlace' /\ Restoring' /\ RestoreSteps'
      /\ Content' = c /\ main' = main
      /\ latest' \in Seq(Contents \cup {Null}) /\ Len(latest') = Len(latest)
      /\ DOMAIN latest' = DOMAIN latest
      /\ wal' \in Wals /\ staged' = staged /\ quarantine' = quarantine
  BY <1>1, <1>2, <1>4, <1>5, <1>6, Committed
<1>8. TypeOK'
  BY <1>1, <1>4, <1>7 DEF TypeOK
<1>9. Control' /\ Archive'
  BY <1>1, <1>2, <1>4, <1>7 DEF IInv, Control, Archive, Marked
<1>10. Booting'
  BY <1>1, <1>2, <1>5, <1>7, BootKept
<1> QED BY <1>1, <1>2, <1>7, <1>8, <1>9, <1>10, NoCommand DEF IInv

\* The steps of a migration, and the recovery of one, write only schema and contract.
LEMMA MigrationCommits ==
    ASSUME TypeOK, IInv, main # Null, Marked("MIGRATE"), NEW c \in Contents, Commit(c),
           c.deployment = Content.deployment, c.rows = Content.rows,
           op # Null, NEW label \in Labels, Goto(label),
           Control', Migrating', MigrationRecovering',
           UNCHANGED <<release, bound, backups, marker, sidecars, serving, glance, count, wiped>>
    PROVE  TypeOK' /\ IInv'
<1>1. /\ Sidecars' /\ SetAside' /\ MatchedGeneration' /\ NothingLost'
      /\ InPlace' /\ Restoring' /\ RestoreSteps'
      /\ Content' = c /\ main' = main
      /\ latest' \in Seq(Contents \cup {Null}) /\ Len(latest') = Len(latest)
      /\ DOMAIN latest' = DOMAIN latest
      /\ wal' \in Wals /\ staged' = staged /\ quarantine' = quarantine
  BY Committed DEF Marked
<1>2. op' \in Commands /\ boot' = boot
  BY GotoEffect
<1>3. TypeOK'
  BY <1>1, <1>2 DEF TypeOK
<1>4. Archive'
  BY <1>1 DEF IInv, Archive, Marked
<1>5. Booting'
  <2>1. Marked("MIGRATE")'
    BY DEF Marked
  <2> QED BY <1>1, <1>2, <2>1, BootKept
<1> QED BY <1>1, <1>3, <1>4, <1>5 DEF IInv

LEMMA ApplyMigrationsStep ==
    ASSUME TypeOK, IInv, ApplyMigrations
    PROVE  TypeOK' /\ IInv'
<1> DEFINE c == [Content EXCEPT !.schema = release]
<1>1. /\ op # Null /\ op.command = "migrate" /\ op.at = "apply" /\ Goto("finalize")
      /\ IF Pending THEN Commit(c) ELSE UNCHANGED <<filesVars, latest>>
      /\ UNCHANGED <<release, bound, backups, marker, sidecars, serving, glance, count, wiped>>
  BY DEF ApplyMigrations, At
<1>2. /\ op' \in Commands /\ op' # Null /\ op'.command = "migrate" /\ op'.by = op.by
      /\ op'.at = "finalize" /\ boot' = boot /\ "finalize" \in Labels
  BY <1>1, GotoEffect DEF Labels
<1>3. main # Null /\ KnownHistory(Content) /\ Marked("MIGRATE")
  BY <1>1 DEF IInv, Control, Migrating
<1>4. MigrationRecovering'
  BY <1>2 DEF MigrationRecovering, At
<1>5. /\ release \in Releases /\ Content \in Contents /\ Content.schema \in Nat /\ release \in Nat
  <2>1. release \in Releases /\ Content \in Contents
    BY <1>3, ContentType DEF TypeOK
  <2>2. Content.schema \in Releases \cup {0}
    BY <2>1 DEF Contents
  <2>3. Releases \subseteq Nat
    OBVIOUS
  <2>4. release \in Nat
    BY <2>1, <2>3
  <2> DEFINE s == Content.schema
  <2>5. s \in Releases \cup {0}
    BY <2>2
  <2> HIDE DEF s
  <2>6. s \in Nat
    BY <2>3, <2>5
  <2> QED BY <2>1, <2>4, <2>6 DEF s
<1>6. c \in Contents /\ c.deployment = Content.deployment /\ c.rows = Content.rows /\ c.schema = release
  BY <1>5, ContentEdits
<1> HIDE DEF c
<1>7. CASE Pending
  <2>1. Content' = c /\ main' = main
    BY <1>1, <1>3, <1>6, <1>7, CommitEffect
  <2>2. Control' /\ Migrating'
    BY <1>1, <1>2, <1>3, <1>6, <2>1 DEF IInv, Control, Migrating, MigrateLabels, Marked, Current
  <2> QED BY <1>1, <1>2, <1>3, <1>4, <1>6, <1>7, <2>2, MigrationCommits
<1>8. CASE ~ Pending
  <2>1. Content' = Content /\ main' = main
    BY <1>1, <1>8, MarkerKept DEF filesVars
  <2>2. Current(Content)
    BY <1>3, <1>5, <1>8 DEF Pending, KnownHistory, Current
  <2>3. Control' /\ Migrating'
    BY <1>1, <1>2, <1>3, <2>1, <2>2 DEF IInv, Control, Migrating, MigrateLabels, Marked, Current
  <2>4. RestoreSteps'
    BY <1>2 DEF RestoreSteps, At
  <2>5. TypeOK'
    BY <1>1, <1>2, <1>8 DEF TypeOK, filesVars
  <2> QED BY <1>1, <1>2, <1>4, <1>8, <2>3, <2>4, <2>5, CommandMoves
<1> QED BY <1>7, <1>8

LEMMA FinalizeContractStep ==
    ASSUME TypeOK, IInv, FinalizeContract
    PROVE  TypeOK' /\ IInv'
<1> DEFINE c == [Content EXCEPT !.contract = release]
<1>1. /\ op # Null /\ op.command = "migrate" /\ op.at = "finalize" /\ Goto("clear") /\ Commit(c)
      /\ UNCHANGED <<release, bound, backups, marker, sidecars, serving, glance, count, wiped>>
  BY DEF FinalizeContract, At
<1>2. /\ op' \in Commands /\ op' # Null /\ op'.command = "migrate" /\ op'.by = op.by
      /\ op'.at = "clear" /\ boot' = boot /\ "clear" \in Labels
  BY <1>1, GotoEffect DEF Labels
<1>3. main # Null /\ Current(Content) /\ Marked("MIGRATE")
  BY <1>1 DEF IInv, Control, Migrating
<1>4. MigrationRecovering'
  BY <1>2 DEF MigrationRecovering, At
<1>5. /\ c \in Contents /\ c.deployment = Content.deployment /\ c.rows = Content.rows
      /\ c.schema = Content.schema /\ c.contract = release
  <2>1. release \in Releases /\ Content \in Contents
    BY <1>3, ContentType DEF TypeOK
  <2> QED BY <2>1, ContentEdits
<1> HIDE DEF c
<1>6. Content' = c /\ main' = main
  BY <1>1, <1>3, <1>5, CommitEffect
<1>7. Control' /\ Migrating'
  BY <1>1, <1>2, <1>3, <1>5, <1>6
  DEF IInv, Control, Migrating, MigrateLabels, Marked, Current, Finalised
<1> QED BY <1>1, <1>2, <1>3, <1>4, <1>5, <1>7, MigrationCommits

LEMMA RecoverMigrateStep ==
    ASSUME TypeOK, IInv, RecoverMigrate
    PROVE  TypeOK' /\ IInv'
<1> DEFINE c == [Content EXCEPT !.contract = release]
<1>1. /\ op # Null /\ op.command = "recover" /\ op.at = "start" /\ marker.type = "MIGRATE"
      /\ UNCHANGED <<release, bound, backups, marker, sidecars, serving, glance, count, wiped>>
      /\ \/ main # Null /\ Current(Content) /\ Commit(c) /\ Goto("close")
         \/ UNCHANGED <<filesVars, latest>> /\ End(FALSE)
  BY DEF RecoverMigrate, At
<1>2. Marked("MIGRATE")
  BY <1>1 DEF IInv, Control, Marked
<1>3. CASE main # Null /\ Current(Content) /\ Commit(c) /\ Goto("close")
  <2>1. /\ op' \in Commands /\ op' # Null /\ op'.command = "recover" /\ op'.by = op.by
        /\ op'.at = "close" /\ boot' = boot /\ "close" \in Labels
    BY <1>1, <1>3, GotoEffect DEF Labels
  <2>2. /\ c \in Contents /\ c.deployment = Content.deployment /\ c.rows = Content.rows
        /\ c.schema = Content.schema /\ c.contract = release
    <3>1. release \in Releases /\ Content \in Contents
      BY <1>3, ContentType DEF TypeOK
    <3> QED BY <3>1, ContentEdits
  <2> HIDE DEF c
  <2>3. Content' = c /\ main' = main
    BY <1>3, <2>2, CommitEffect
  <2>4. Control' /\ Migrating'
    BY <1>1, <1>2, <2>1, <2>3 DEF IInv, Control, Migrating, Marked
  <2>5. MigrationRecovering'
    BY <1>3, <2>2, <2>3 DEF MigrationRecovering, Current, Finalised
  <2> QED BY <1>1, <1>2, <1>3, <2>1, <2>2, <2>4, <2>5, MigrationCommits
<1>4. CASE UNCHANGED <<filesVars, latest>> /\ End(FALSE)
  <2>1. op' = Null /\ boot' \in {boot, Null} /\ boot' \in BootPhases \cup {Null}
    BY <1>1, <1>4, EndEffect
  <2>2. TypeOK'
    BY <1>1, <1>4, <2>1 DEF TypeOK, filesVars
  <2> QED BY <1>1, <1>4, <2>1, <2>2, CommandEnds
<1> QED BY <1>1, <1>3, <1>4

\* The last connection closes a database that is in place.
LEMMA Closed ==
    ASSUME TypeOK, IInv, main # Null, Checkpoint,
           UNCHANGED <<release, backups, marker, sidecars, count, wiped>>,
           marker = Null \/ Marked("MIGRATE"),
           boot' \in {boot, Null} \/ boot' = "deploy"
    PROVE  /\ Sidecars' /\ SetAside' /\ MatchedGeneration' /\ NothingLost'
           /\ InPlace' /\ Restoring' /\ RestoreSteps' /\ Archive' /\ Booting'
           /\ main' # Null /\ Content' = Content
           /\ main' \in Databases /\ wal' = Null /\ UNCHANGED <<staged, quarantine, latest>>
<1>1. /\ UNCHANGED <<staged, quarantine, latest>> /\ wal' = Null
      /\ main' \in Databases /\ main' # Null /\ main'.id = main.id /\ main'.content = Content
      /\ Content' = Content
  BY CheckpointEffect
<1>2. NothingLost' /\ MatchedGeneration'
  BY CheckpointKeeps
<1>3. \A c : Fits(c)' <=> Fits(c)
  BY DEF Fits
<1>4. InPlace'
  BY <1>1, <1>3 DEF IInv, InPlace, Finalised, Marked
<1>5. Sidecars' /\ SetAside'
  BY <1>1 DEF IInv, Sidecars, SetAside
<1>6. Restoring' /\ RestoreSteps'
  BY DEF Restoring, RestoreSteps, Marked
<1>7. Archive'
  BY <1>1 DEF IInv, Archive, Marked
<1>8. Booting'
  <2>1. marker' = Null \/ Marked("MIGRATE")'
    BY DEF Marked
  <2> QED BY <1>1, <2>1, BootKept
<1> QED BY <1>1, <1>2, <1>4, <1>5, <1>6, <1>7, <1>8

LEMMA StopIndexerStep ==
    ASSUME TypeOK, IInv, StopIndexer
    PROVE  TypeOK' /\ IInv'
<1>1. /\ serving /\ serving' = FALSE /\ Checkpoint
      /\ UNCHANGED <<release, bound, backups, marker, sidecars, op, boot, glance, count, wiped>>
  BY DEF StopIndexer
<1>2. op = Null /\ marker = Null /\ main # Null
  BY <1>1 DEF IInv, Control
<1>3. /\ Sidecars' /\ SetAside' /\ MatchedGeneration' /\ NothingLost'
      /\ InPlace' /\ Restoring' /\ RestoreSteps' /\ Archive' /\ Booting'
      /\ main' # Null /\ Content' = Content
      /\ main' \in Databases /\ wal' = Null /\ UNCHANGED <<staged, quarantine, latest>>
  BY <1>1, <1>2, Closed
<1>4. TypeOK'
  BY <1>1, <1>3 DEF TypeOK
<1>5. Control'
  BY <1>1, <1>2 DEF Control
<1> QED BY <1>1, <1>2, <1>3, <1>4, <1>5, NoCommand DEF IInv

LEMMA RefuseMigrateStep ==
    ASSUME TypeOK, IInv, RefuseMigrate
    PROVE  TypeOK' /\ IInv'
<1>1. /\ op # Null /\ op.command = "migrate" /\ op.at = "start" /\ main # Null
      /\ Checkpoint /\ End(FALSE)
      /\ UNCHANGED <<release, bound, backups, marker, sidecars, serving, glance, count, wiped>>
  BY DEF RefuseMigrate, At
<1>2. Marked("MIGRATE")
  BY <1>1 DEF IInv, Control
<1>3. op' = Null /\ boot' \in {boot, Null} /\ boot' \in BootPhases \cup {Null}
  BY <1>1, EndEffect
<1>4. /\ Sidecars' /\ SetAside' /\ MatchedGeneration' /\ NothingLost'
      /\ InPlace' /\ Restoring' /\ RestoreSteps' /\ Archive' /\ Booting'
      /\ main' # Null /\ Content' = Content
      /\ main' \in Databases /\ wal' = Null /\ UNCHANGED <<staged, quarantine, latest>>
  BY <1>1, <1>2, <1>3, Closed
<1>5. TypeOK'
  BY <1>1, <1>3, <1>4 DEF TypeOK
<1>6. Control'
  BY <1>1, <1>3 DEF IInv, Control
<1> QED BY <1>3, <1>4, <1>5, <1>6, NoCommand DEF IInv

LEMMA CloseMigrateStep ==
    ASSUME TypeOK, IInv, CloseMigrate
    PROVE  TypeOK' /\ IInv'
<1>1. /\ op # Null /\ op.command = "migrate" /\ op.at = "close" /\ Checkpoint /\ End(TRUE)
      /\ UNCHANGED <<release, bound, backups, marker, sidecars, serving, glance, count, wiped>>
  BY DEF CloseMigrate, At
<1>2. main # Null /\ marker = Null
  BY <1>1 DEF IInv, Control, Migrating
<1>3. /\ op' = Null /\ boot' \in BootPhases \cup {Null}
      /\ boot' \in {boot, Null} \/ boot' = "deploy"
  BY <1>1, EndEffect
<1>4. /\ Sidecars' /\ SetAside' /\ MatchedGeneration' /\ NothingLost'
      /\ InPlace' /\ Restoring' /\ RestoreSteps' /\ Archive' /\ Booting'
      /\ main' # Null /\ Content' = Content
      /\ main' \in Databases /\ wal' = Null /\ UNCHANGED <<staged, quarantine, latest>>
  BY <1>1, <1>2, <1>3, Closed
<1>5. TypeOK'
  BY <1>1, <1>3, <1>4 DEF TypeOK
<1>6. Control'
  BY <1>1, <1>3 DEF IInv, Control
<1> QED BY <1>3, <1>4, <1>5, <1>6, NoCommand DEF IInv

LEMMA CloseRecoveredStep ==
    ASSUME TypeOK, IInv, CloseRecovered
    PROVE  TypeOK' /\ IInv'
<1>1. /\ op # Null /\ op.command = "recover" /\ op.at = "close" /\ Checkpoint /\ Goto("finish")
      /\ UNCHANGED <<release, bound, backups, marker, sidecars, serving, glance, count, wiped>>
  BY DEF CloseRecovered, At
<1>2. Marked("MIGRATE") /\ main # Null /\ Finalised(Content)
  BY <1>1 DEF IInv, Control, MigrationRecovering, At
<1>3. /\ op' \in Commands /\ op' # Null /\ op'.command = "recover" /\ op'.by = op.by
      /\ op'.at = "finish" /\ boot' = boot
  BY <1>1, GotoEffect DEF Labels
<1>4. /\ Sidecars' /\ SetAside' /\ MatchedGeneration' /\ NothingLost'
      /\ InPlace' /\ Restoring' /\ RestoreSteps' /\ Archive' /\ Booting'
      /\ main' # Null /\ Content' = Content
      /\ main' \in Databases /\ wal' = Null /\ UNCHANGED <<staged, quarantine, latest>>
  BY <1>1, <1>2, <1>3, Closed
<1>5. TypeOK'
  BY <1>1, <1>3, <1>4 DEF TypeOK
<1>6. Control' /\ Migrating' /\ MigrationRecovering'
  BY <1>1, <1>2, <1>3, <1>4
  DEF IInv, Control, Migrating, MigrationRecovering, Marked, Finalised
<1> QED BY <1>4, <1>5, <1>6 DEF IInv

\* The database that a migration creates is one nobody has committed to.
LEMMA CreateDatabaseStep ==
    ASSUME TypeOK, IInv, CreateDatabase
    PROVE  TypeOK' /\ IInv'
<1>1. /\ op # Null /\ op.command = "migrate" /\ op.at = "start" /\ main = Null
      /\ main' = [id |-> count.files + 1, content |-> EmptyContent]
      /\ count' = [count EXCEPT !.files = count.files + 1]
      /\ latest' = Append(latest, EmptyContent) /\ Goto("apply")
      /\ UNCHANGED <<release, bound, wal, staged, quarantine, backups, marker, sidecars, serving,
                     glance, wiped>>
  BY DEF CreateDatabase, At, TypeOK
<1>2. Marked("MIGRATE") /\ wal = Null /\ sidecars = NoSidecars
  BY <1>1 DEF IInv, Control, InPlace
<1>3. /\ op' \in Commands /\ op' # Null /\ op'.command = "migrate" /\ op'.by = op.by
      /\ op'.at = "apply" /\ boot' = boot
  BY <1>1, GotoEffect DEF Labels
<1>4. /\ count \in [files : Nat, deployments : Nat, rows : Nat, operations : Nat, mishaps : Nat]
      /\ latest \in Seq(Contents \cup {Null}) /\ Len(latest) = count.files
  BY DEF TypeOK
<1>5. /\ count' \in [files : Nat, deployments : Nat, rows : Nat, operations : Nat, mishaps : Nat]
      /\ count'.operations = count.operations /\ count'.files = count.files + 1
  BY <1>1, <1>4
<1>6. EmptyContent \in Contents
  BY DEF EmptyContent, Contents
<1>7. main' \in Databases /\ main' # Null /\ main'.id = count.files + 1 /\ main'.content = EmptyContent
  <2>1. main' \in Databases
    BY <1>1, <1>4, <1>6 DEF Databases
  <2> QED BY <1>1, <2>1
<1>8. /\ latest' \in Seq(Contents \cup {Null}) /\ Len(latest') = count.files + 1
      /\ DOMAIN latest' = DOMAIN latest \cup {main'.id}
      /\ latest'[main'.id] = EmptyContent
      /\ \A f \in DOMAIN latest : latest'[f] = latest[f]
  <2> DEFINE x == EmptyContent
  <2>1. latest' = Append(latest, x) /\ x \in Contents
    BY <1>1, <1>6
  <2> HIDE DEF x
  <2>2. /\ latest' \in Seq(Contents \cup {Null}) /\ Len(latest') = Len(latest) + 1
        /\ DOMAIN latest' = DOMAIN latest \cup {Len(latest) + 1}
        /\ latest'[Len(latest) + 1] = x
        /\ \A f \in DOMAIN latest : latest'[f] = latest[f]
    BY <1>4, <2>1
  <2> QED BY <1>4, <1>7, <2>2 DEF x
<1>9. TypeOK'
  BY <1>1, <1>3, <1>5, <1>7, <1>8 DEF TypeOK
<1>10. Content' = EmptyContent
  BY <1>1, <1>2, <1>7 DEF Content
<1>11. Sidecars' /\ SetAside' /\ MatchedGeneration'
  BY <1>1, <1>2, <1>5, <1>8 DEF IInv, Sidecars, SetAside, MatchedGeneration
<1>12. Fits(EmptyContent)'
  BY <1>1, <1>2 DEF Fits, EmptyContent, NoSidecars
<1>13. InPlace'
  BY <1>1, <1>2, <1>7, <1>8, <1>10, <1>12 DEF InPlace, Marked
<1>14. Restoring' /\ RestoreSteps' /\ MigrationRecovering'
  BY <1>1, <1>2, <1>3 DEF Restoring, RestoreSteps, MigrationRecovering, Marked, At
<1>15. Archive'
  BY <1>1, <1>2, <1>5 DEF IInv, Archive, Marked
<1>16. Booting'
  BY <1>1, <1>3 DEF IInv, Booting
<1>17. Control'
  BY <1>1, <1>2, <1>3 DEF IInv, Control, MigrateLabels, Marked
<1>18. Migrating'
  <2>1. EmptyContent.schema = 0 /\ release' \in Nat
    BY <1>9 DEF EmptyContent, TypeOK
  <2> QED BY <1>3, <1>7, <1>10, <2>1 DEF Migrating, KnownHistory, NeedsBackup
<1>19. NothingLost'
  <2> DEFINE here == [main |-> main', wal |-> wal']
  <2>1. Places' = {here} \cup {quarantine[i] : i \in Operations}
    BY <1>1 DEF Places
  <2>2. ASSUME NEW f \in (DOMAIN latest') \ wiped, latest'[f] # Null
        PROVE  \E p \in Places' :
                  /\ p.main # Null /\ p.main.id = f
                  /\ \/ p.main.content = latest'[f]
                     \/ \E o \in Places' : o.wal = [base |-> f, content |-> latest'[f]]
    <3>1. CASE f = main'.id
      <4>1. here \in Places' /\ here.main = main'
        BY <2>1
      <4> HIDE DEF here
      <4> QED BY <1>7, <1>8, <3>1, <4>1
    <3>2. CASE f # main'.id
      <4>1. f \in (DOMAIN latest) \ wiped /\ latest'[f] = latest[f]
        BY <1>8, <2>2, <3>2
      <4>2. PICK p \in Places :
               /\ p.main # Null /\ p.main.id = f
               /\ \/ p.main.content = latest[f]
                  \/ \E o \in Places : o.wal = [base |-> f, content |-> latest[f]]
        BY <2>2, <4>1 DEF IInv, NothingLost
      <4>3. p \in Places'
        BY <1>1, <2>1, <4>2 DEF Places
      <4>4. [base |-> f, content |-> latest[f]] # Null
        <5>1. [base |-> f, content |-> latest[f]] \in Wals
          BY <1>4, <2>2, <4>1 DEF Wals
        <5> QED BY <5>1
      <4>5. ASSUME NEW o \in Places, o.wal = [base |-> f, content |-> latest[f]]
            PROVE  o \in Places'
        BY <1>2, <2>1, <4>4, <4>5 DEF Places
      <4> QED BY <4>1, <4>2, <4>3, <4>5
    <3> QED BY <3>1, <3>2
  <2> HIDE DEF here
  <2> QED BY <1>1, <2>2 DEF NothingLost
<1> QED BY <1>9, <1>11, <1>13, <1>14, <1>15, <1>16, <1>17, <1>18, <1>19 DEF IInv

-----------------------------------------------------------------------------
(* Steps that publish a backup.                                            *)

\* A bundle appears with what the database holds now.
LEMMA BackupAdded ==
    ASSUME TypeOK, main # Null, NEW operation \in Operations \cup {Null},
           backups' = Append(backups, Bundle(operation))
    PROVE  /\ backups' \in Seq(Bundles) /\ backups' # <<>>
           /\ DOMAIN backups' = DOMAIN backups \cup {Len(backups) + 1}
           /\ \A b \in DOMAIN backups : backups'[b] = backups[b]
           /\ backups'[Len(backups) + 1].content = Content
           /\ backups'[Len(backups) + 1].operation = operation
           /\ Len(backups) + 1 \in DOMAIN backups'
<1>1. backups \in Seq(Bundles) /\ sidecars \in SidecarSets /\ Content \in Contents
  BY ContentType DEF TypeOK
<1> DEFINE x == Bundle(operation)
<1>2. x \in Bundles /\ x.content = Content /\ x.operation = operation
  <2>1. x = [content |-> Content, sidecars |-> sidecars, operation |-> operation]
    BY DEF Bundle
  <2>2. x \in Bundles
    BY <1>1, <2>1 DEF Bundles
  <2> QED BY <2>1, <2>2
<1>3. backups' = Append(backups, x)
  OBVIOUS
<1> HIDE DEF x
<1>4. /\ backups' \in Seq(Bundles) /\ Len(backups') = Len(backups) + 1
      /\ DOMAIN backups' = DOMAIN backups \cup {Len(backups) + 1}
      /\ \A b \in DOMAIN backups : backups'[b] = backups[b]
      /\ backups'[Len(backups) + 1] = x
      /\ Len(backups) + 1 \in DOMAIN backups'
  BY <1>1, <1>2, <1>3
<1>5. backups' # <<>>
  BY <1>4
<1> QED BY <1>2, <1>4, <1>5

\* The files are as they were.
LEMMA BackupKeeps ==
    ASSUME TypeOK, IInv, main # Null,
           UNCHANGED <<release, filesVars, marker, sidecars, count, boot, latest, wiped>>
    PROVE  /\ Content' = Content /\ Sidecars' /\ SetAside' /\ MatchedGeneration' /\ NothingLost'
           /\ InPlace' /\ Booting' /\ \A t : Marked(t)' <=> Marked(t)
<1>1. /\ Content' = Content /\ Sidecars' /\ SetAside' /\ MatchedGeneration' /\ NothingLost'
      /\ \A c : Fits(c)' <=> Fits(c)
  BY FilesKept DEF TypeOK
<1>2. \A t : Marked(t)' <=> Marked(t)
  BY DEF Marked
<1>3. InPlace'
  BY <1>1, <1>2 DEF IInv, InPlace, filesVars, Finalised
<1>4. Booting'
  BY <1>1, <1>2 DEF IInv, Booting, filesVars
<1> QED BY <1>1, <1>2, <1>3, <1>4

LEMMA BackupStep ==
    ASSUME TypeOK, IInv, Backup
    PROVE  TypeOK' /\ IInv'
<1>1. /\ op = Null /\ marker = Null /\ main # Null
      /\ backups' = Append(backups, Bundle(Null))
      /\ UNCHANGED <<release, bound, filesVars, marker, sidecars, serving, op, boot, glance,
                     count, latest, wiped>>
  BY DEF Backup, LocksFree, SourceCondition
<1>2. /\ backups' \in Seq(Bundles)
      /\ DOMAIN backups' = DOMAIN backups \cup {Len(backups) + 1}
      /\ \A b \in DOMAIN backups : backups'[b] = backups[b]
      /\ backups'[Len(backups) + 1].operation = Null
  BY <1>1, BackupAdded
<1>3. TypeOK'
  BY <1>1, <1>2 DEF TypeOK, filesVars
<1>4. /\ Content' = Content /\ Sidecars' /\ SetAside' /\ MatchedGeneration' /\ NothingLost'
      /\ InPlace' /\ Booting'
  BY <1>1, BackupKeeps
<1>5. Control' /\ Restoring'
  BY <1>1 DEF IInv, Control, Restoring, Marked, filesVars
<1>6. Archive'
  BY <1>1, <1>2 DEF IInv, Archive, Marked
<1> QED BY <1>1, <1>3, <1>4, <1>5, <1>6, NoCommand DEF IInv

LEMMA MakeSafetyBackupStep ==
    ASSUME TypeOK, IInv, MakeSafetyBackup
    PROVE  TypeOK' /\ IInv'
<1>1. /\ op # Null /\ op.command = "migrate" /\ op.at = "start" /\ main # Null
      /\ KnownHistory(Content)
      /\ backups' = Append(backups, Bundle(marker.id)) /\ Goto("record")
      /\ UNCHANGED <<release, bound, filesVars, marker, sidecars, serving, glance, count, latest, wiped>>
  BY DEF MakeSafetyBackup, At, Archivable, KnownSource
<1>2. /\ op' \in Commands /\ op' # Null /\ op'.command = "migrate" /\ op'.by = op.by
      /\ op'.at = "record" /\ boot' = boot
  BY <1>1, GotoEffect DEF Labels
<1>3. Marked("MIGRATE") /\ marker.id \in Operations
  <2>1. Marked("MIGRATE")
    BY <1>1 DEF IInv, Control
  <2> QED BY <2>1 DEF Marked, TypeOK, Markers
<1>4. /\ backups' \in Seq(Bundles) /\ backups' # <<>>
      /\ DOMAIN backups' = DOMAIN backups \cup {Len(backups) + 1}
      /\ \A b \in DOMAIN backups : backups'[b] = backups[b]
      /\ backups'[Len(backups) + 1].content = Content
      /\ backups'[Len(backups) + 1].operation = marker.id
      /\ Len(backups) + 1 \in DOMAIN backups'
  BY <1>1, <1>3, BackupAdded
<1>5. TypeOK'
  BY <1>1, <1>2, <1>4 DEF TypeOK, filesVars
<1>6. /\ Content' = Content /\ Sidecars' /\ SetAside' /\ MatchedGeneration' /\ NothingLost'
      /\ InPlace' /\ Booting' /\ \A t : Marked(t)' <=> Marked(t)
  BY <1>1, <1>2, BackupKeeps
<1>7. Control' /\ RestoreSteps' /\ MigrationRecovering'
  BY <1>1, <1>2, <1>6
  DEF IInv, Control, RestoreSteps, MigrationRecovering, At, MigrateLabels, filesVars
<1>8. Restoring'
  BY <1>3, <1>6 DEF Restoring, Marked
<1>9. Archive'
  BY <1>1, <1>3, <1>4, <1>6 DEF IInv, Archive, Marked, filesVars
<1>10. Migrating'
  BY <1>1, <1>2, <1>4, <1>6 DEF Migrating, KnownHistory, filesVars
<1> QED BY <1>5, <1>6, <1>7, <1>8, <1>9, <1>10 DEF IInv

-----------------------------------------------------------------------------
(* Steps that move files.                                                  *)

\* A file that may be lost from its old place: a reset removed it, or the one in
\* place holds all that was committed to it.
Covered(f) ==
    f \in wiped' \/ (main' # Null /\ main'.id = f /\ main'.content = latest'[f])

\* Every other file and every other WAL has a place.
FilesMoved ==
    /\ \A f \in DOMAIN latest' : latest'[f] # Null /\ ~Covered(f) =>
          f \in (DOMAIN latest) \ wiped /\ latest'[f] = latest[f]
    /\ \A p \in Places : p.main # Null /\ ~Covered(p.main.id) =>
          \E r \in Places' : r.main = p.main
    /\ \A p \in Places : p.wal # Null /\ ~Covered(p.wal.base) =>
          \E r \in Places' : r.wal = p.wal

LEMMA MovesLoseNothing ==
    ASSUME TypeOK, IInv, FilesMoved
    PROVE  NothingLost'
<1>1. ASSUME NEW f \in (DOMAIN latest') \ wiped', latest'[f] # Null
      PROVE  \E p \in Places' :
                /\ p.main # Null /\ p.main.id = f
                /\ \/ p.main.content = latest'[f]
                   \/ \E o \in Places' : o.wal = [base |-> f, content |-> latest'[f]]
  <2>1. CASE Covered(f)
    <3> DEFINE here == [main |-> main', wal |-> wal']
    <3>1. here \in Places' /\ here.main = main'
      BY DEF Places
    <3>2. main' # Null /\ main'.id = f /\ main'.content = latest'[f]
      BY <1>1, <2>1 DEF Covered
    <3> HIDE DEF here
    <3> QED BY <3>1, <3>2
  <2>2. CASE ~Covered(f)
    <3>1. f \in (DOMAIN latest) \ wiped /\ latest'[f] = latest[f]
      BY <1>1, <2>2 DEF FilesMoved
    <3>2. PICK p \in Places :
             /\ p.main # Null /\ p.main.id = f
             /\ \/ p.main.content = latest[f]
                \/ \E o \in Places : o.wal = [base |-> f, content |-> latest[f]]
      BY <1>1, <3>1 DEF IInv, NothingLost
    <3>3. PICK r \in Places' : r.main = p.main
      BY <2>2, <3>2 DEF FilesMoved
    <3>4. CASE p.main.content = latest[f]
      BY <3>1, <3>2, <3>3, <3>4
    <3>5. CASE \E o \in Places : o.wal = [base |-> f, content |-> latest[f]]
      <4>1. PICK o \in Places : o.wal = [base |-> f, content |-> latest[f]]
        BY <3>5
      <4>2. [base |-> f, content |-> latest[f]] \in Wals
        BY <1>1, <3>1 DEF Wals, TypeOK
      <4>3. o.wal # Null /\ o.wal.base = f
        BY <4>1, <4>2
      <4>4. PICK s \in Places' : s.wal = o.wal
        BY <2>2, <4>3 DEF FilesMoved
      <4> QED BY <3>1, <3>2, <3>3, <4>1, <4>4
    <3> QED BY <3>2, <3>4, <3>5
  <2> QED BY <2>1, <2>2
<1> QED BY <1>1 DEF NothingLost

\* One quarantine is written.
LEMMA QuarantineEdited ==
    ASSUME TypeOK, NEW i \in Operations, NEW q \in FileSets,
           quarantine' = [quarantine EXCEPT ![i] = q]
    PROVE  /\ quarantine' \in [Operations -> FileSets] /\ quarantine'[i] = q
           /\ \A j \in Operations : j # i => quarantine'[j] = quarantine[j]
<1>1. quarantine \in [Operations -> FileSets]
  BY DEF TypeOK
<1> QED BY <1>1

\* The operation of an unfinished restore.
LEMMA RestoreMarker ==
    ASSUME TypeOK, IInv, Marked("RESTORE")
    PROVE  /\ marker # Null /\ marker.type = "RESTORE" /\ marker.id \in Operations
           /\ marker.id <= count.operations /\ Aside \in FileSets
           /\ Aside.main \in Databases \cup {Null} /\ Aside.wal \in Wals \cup {Null}
           /\ staged[marker.id] \in Databases \cup {Null}
           /\ \A i \in Operations : i > count.operations => i # marker.id
<1>1. marker # Null /\ marker.type = "RESTORE" /\ marker.id \in Operations
  BY DEF Marked, TypeOK, Markers
<1>2. marker.id <= count.operations
  BY <1>1 DEF IInv, Archive
<1>3. Aside \in FileSets /\ staged[marker.id] \in Databases \cup {Null}
  BY <1>1 DEF Aside, TypeOK
<1>4. Aside.main \in Databases \cup {Null} /\ Aside.wal \in Wals \cup {Null}
  BY <1>3 DEF FileSets
<1>5. \A i \in Operations : i > count.operations => i # marker.id
  BY <1>1, <1>2 DEF Operations, TypeOK
<1> QED BY <1>1, <1>2, <1>3, <1>4, <1>5

\* The steps of a restore and of its recovery change files and nothing else.
LEMMA RestoreMoves ==
    ASSUME TypeOK, IInv, Marked("RESTORE"),
           UNCHANGED <<release, bound, serving, backups, marker, sidecars, glance, wiped>>,
           op' \in Commands, op' # Null, boot' = boot,
           (op'.command = "restore" /\ op'.by = "owner" /\ boot = Null) \/ (op' = op /\ op.command = "recover"),
           FilesMoved, InPlace', SetAside', MatchedGeneration', Restoring', Control', RestoreSteps',
           count'.operations = count.operations
    PROVE  IInv'
<1>1. Sidecars' /\ ~Marked("MIGRATE")' /\ ~Marked("MIGRATE")
  BY DEF IInv, Sidecars, Marked
<1>2. Archive'
  BY <1>1 DEF IInv, Archive
<1>3. Booting'
  BY <1>1 DEF IInv, Booting, Marked
<1>4. Migrating' /\ MigrationRecovering'
  BY <1>1 DEF Migrating, MigrationRecovering
<1> QED BY <1>1, <1>2, <1>3, <1>4, MovesLoseNothing DEF IInv

\* A snapshot is staged, as a file of its own.
LEMMA StagedEffect ==
    ASSUME TypeOK, IInv, Marked("RESTORE"), NEW c \in Contents,
           staged' = [staged EXCEPT ![marker.id] = [id |-> count.files + 1, content |-> c]],
           count' = [count EXCEPT !.files = @ + 1],
           latest' = Append(latest, Null)
    PROVE  /\ staged' \in [Operations -> Databases \cup {Null}]
           /\ staged'[marker.id] # Null /\ staged'[marker.id].content = c
           /\ staged'[marker.id].id \in DOMAIN latest'
           /\ \A i \in Operations : i # marker.id => staged'[i] = staged[i]
           /\ count' \in [files : Nat, deployments : Nat, rows : Nat, operations : Nat, mishaps : Nat]
           /\ count'.operations = count.operations
           /\ latest' \in Seq(Contents \cup {Null}) /\ Len(latest') = count'.files
           /\ DOMAIN latest' = DOMAIN latest \cup {Len(latest) + 1}
           /\ latest'[Len(latest) + 1] = Null
           /\ \A f \in DOMAIN latest : latest'[f] = latest[f]
<1>1. /\ count \in [files : Nat, deployments : Nat, rows : Nat, operations : Nat, mishaps : Nat]
      /\ latest \in Seq(Contents \cup {Null}) /\ Len(latest) = count.files
      /\ staged \in [Operations -> Databases \cup {Null}]
  BY DEF TypeOK
<1>2. /\ count' \in [files : Nat, deployments : Nat, rows : Nat, operations : Nat, mishaps : Nat]
      /\ count'.operations = count.operations /\ count'.files = count.files + 1
  BY <1>1
<1>3. /\ latest' \in Seq(Contents \cup {Null}) /\ Len(latest') = Len(latest) + 1
      /\ DOMAIN latest' = DOMAIN latest \cup {Len(latest) + 1}
      /\ latest'[Len(latest) + 1] = Null
      /\ \A f \in DOMAIN latest : latest'[f] = latest[f]
  BY <1>1
<1> DEFINE d == [id |-> count.files + 1, content |-> c]
<1>4. d \in Databases /\ d # Null /\ d.content = c /\ d.id = Len(latest) + 1
  <2>1. d \in Databases
    BY <1>1 DEF Databases
  <2> QED BY <1>1, <2>1
<1>5. marker.id \in Operations /\ staged' = [staged EXCEPT ![marker.id] = d]
  BY RestoreMarker
<1> HIDE DEF d
<1>6. /\ staged' \in [Operations -> Databases \cup {Null}] /\ staged'[marker.id] = d
      /\ \A i \in Operations : i # marker.id => staged'[i] = staged[i]
  BY <1>1, <1>4, <1>5
<1> QED BY <1>1, <1>2, <1>3, <1>4, <1>6

LEMMA StageSnapshotStep ==
    ASSUME TypeOK, IInv, StageSnapshot
    PROVE  TypeOK' /\ IInv'
<1> DEFINE b == backups[marker.backup]
           c == b.content
<1>1. /\ op # Null /\ op.command = "restore" /\ op.at = "start"
      /\ UNCHANGED <<release, bound, main, wal, quarantine, backups, marker, sidecars, serving, glance, wiped>>
      /\ \/ /\ OfThisDeployment(b) /\ Current(c)
            /\ staged' = [staged EXCEPT ![marker.id] = [id |-> count.files + 1, content |-> c]]
            /\ count' = [count EXCEPT !.files = @ + 1]
            /\ latest' = Append(latest, Null)
            /\ Goto("main")
         \/ UNCHANGED <<staged, count, latest>> /\ End(FALSE)
  BY DEF StageSnapshot, At
<1>2. Marked("RESTORE") /\ marker.backup # Null /\ staged[marker.id] = Null /\ Aside = NoFiles
      /\ op.by = "owner" /\ boot = Null /\ ~serving
  BY <1>1 DEF IInv, Control, RestoreSteps
<1>3. CASE UNCHANGED <<staged, count, latest>> /\ End(FALSE)
  <2>1. op' = Null /\ boot' \in {boot, Null} /\ boot' \in BootPhases \cup {Null}
    BY <1>1, <1>3, EndEffect
  <2>2. TypeOK'
    BY <1>1, <1>3, <2>1 DEF TypeOK
  <2> QED BY <1>1, <1>3, <2>1, <2>2, CommandEnds DEF filesVars
<1>4. CASE /\ OfThisDeployment(b) /\ Current(c)
           /\ staged' = [staged EXCEPT ![marker.id] = [id |-> count.files + 1, content |-> c]]
           /\ count' = [count EXCEPT !.files = @ + 1]
           /\ latest' = Append(latest, Null)
           /\ Goto("main")
  <2>1. /\ op' \in Commands /\ op' # Null /\ op'.command = "restore" /\ op'.by = "owner"
        /\ op'.at = "main" /\ boot' = boot
    BY <1>1, <1>2, <1>4, GotoEffect DEF Labels
  <2>2. /\ main # Null /\ c.contract = c.schema /\ c.deployment # Null
        /\ Content.deployment = c.deployment /\ sidecars.manifest = c.deployment
    BY <1>4 DEF OfThisDeployment, VerifiedBackup, KnownSource
  <2>3. c \in Contents
    BY <1>2, BundleType DEF IInv, Archive, Marked
  <2> HIDE DEF b, c
  <2>4. /\ staged' \in [Operations -> Databases \cup {Null}]
        /\ staged'[marker.id] # Null /\ staged'[marker.id].content = c
        /\ staged'[marker.id].id \in DOMAIN latest'
        /\ \A i \in Operations : i # marker.id => staged'[i] = staged[i]
        /\ count' \in [files : Nat, deployments : Nat, rows : Nat, operations : Nat, mishaps : Nat]
        /\ count'.operations = count.operations
        /\ latest' \in Seq(Contents \cup {Null}) /\ Len(latest') = count'.files
        /\ DOMAIN latest' = DOMAIN latest \cup {Len(latest) + 1}
        /\ latest'[Len(latest) + 1] = Null
        /\ \A f \in DOMAIN latest : latest'[f] = latest[f]
    BY <1>2, <1>4, <2>3, StagedEffect
  <2>5. TypeOK'
    BY <1>1, <1>2, <2>1, <2>4 DEF TypeOK
  <2>6. Content' = Content /\ (\A d : Fits(d)' <=> Fits(d)) /\ Aside' = Aside /\ Marked("RESTORE")'
    BY <1>1, <1>2 DEF Content, Fits, Aside, Marked
  <2>7. Fits(c)
    BY <2>2 DEF IInv, Sidecars, Fits
  <2>8. InPlace'
    BY <1>1, <2>2, <2>4, <2>6 DEF IInv, InPlace, Finalised, Marked
  <2>9. SetAside' /\ MatchedGeneration'
    <3>1. \A i \in Operations : i > count.operations => i # marker.id
      BY <1>2, RestoreMarker
    <3> QED BY <1>1, <2>4, <3>1 DEF IInv, SetAside, MatchedGeneration
  <2>10. Restoring'
    BY <1>1, <1>2, <2>2, <2>4, <2>6, <2>7 DEF Restoring, NoFiles, Finalised
  <2>11. Control' /\ RestoreSteps'
    BY <1>1, <1>2, <2>1, <2>2, <2>4, <2>6
    DEF IInv, Control, RestoreSteps, Marked, At, RestoreLabels, NoFiles
  <2>12. FilesMoved
    <3>1. Places' = Places
      BY <1>1 DEF Places
    <3>2. \A f \in DOMAIN latest' : latest'[f] # Null => f \in DOMAIN latest /\ latest'[f] = latest[f]
      BY <2>4
    <3> QED BY <1>1, <3>1, <3>2 DEF FilesMoved, Covered
  <2> QED BY <1>1, <1>2, <2>1, <2>4, <2>5, <2>8, <2>9, <2>10, <2>11, <2>12, RestoreMoves
<1> QED BY <1>1, <1>3, <1>4

LEMMA MoveMainStep ==
    ASSUME TypeOK, IInv, MoveMain
    PROVE  TypeOK' /\ IInv'
<1>1. /\ op # Null /\ op.command = "restore" /\ op.at = "main" /\ Goto("wal") /\ main' = Null
      /\ quarantine' = [quarantine EXCEPT ![marker.id].main = main]
      /\ UNCHANGED <<release, bound, wal, staged, backups, marker, sidecars, serving, glance,
                     count, latest, wiped>>
  BY DEF MoveMain, At
<1>2. Marked("RESTORE") /\ main # Null /\ staged[marker.id] # Null /\ Aside = NoFiles
      /\ op.by = "owner" /\ boot = Null /\ ~serving
  BY <1>1 DEF IInv, Control, RestoreSteps
<1>3. /\ op' \in Commands /\ op' # Null /\ op'.command = "restore" /\ op'.by = "owner"
      /\ op'.at = "wal" /\ boot' = boot
  BY <1>1, <1>2, GotoEffect DEF Labels
<1>4. /\ marker.id \in Operations /\ marker # Null /\ Aside \in FileSets
      /\ \A i \in Operations : i > count.operations => i # marker.id
  BY <1>2, RestoreMarker
<1> DEFINE q == [main |-> main, wal |-> Null]
<1>5. /\ quarantine' \in [Operations -> FileSets] /\ quarantine'[marker.id] = q
      /\ \A j \in Operations : j # marker.id => quarantine'[j] = quarantine[j]
  <2>1. q \in FileSets
    BY DEF FileSets, TypeOK
  <2>2. quarantine' = [quarantine EXCEPT ![marker.id] = q]
    <3>1. quarantine[marker.id] = NoFiles
      BY <1>2 DEF Aside
    <3>2. [quarantine[marker.id] EXCEPT !.main = main] = q
      BY <3>1 DEF NoFiles
    <3> QED BY <1>1, <3>2
  <2> HIDE DEF q
  <2> QED BY <1>4, <2>1, <2>2, QuarantineEdited
<1>6. Aside'.main = main /\ Aside'.wal = Null /\ Marked("RESTORE")'
  BY <1>1, <1>2, <1>5 DEF Aside, Marked
<1>7. TypeOK'
  BY <1>1, <1>3, <1>5 DEF TypeOK
<1>8. /\ latest[main.id] = Content /\ Fits(Content) /\ Finalised(Content)
      /\ main.id \in DOMAIN latest /\ (wal # Null => wal.base = main.id)
  BY <1>2 DEF IInv, InPlace
<1>9. Moved' = Content /\ \A c : Fits(c)' <=> Fits(c)
  BY <1>1, <1>6 DEF Moved, Content, Fits
<1>10. InPlace'
  BY <1>1, <1>2, <1>8 DEF InPlace, Marked
<1>11. SetAside' /\ MatchedGeneration'
  BY <1>1, <1>4, <1>5, <1>8 DEF IInv, SetAside, MatchedGeneration
<1>12. Restoring'
  BY <1>1, <1>2, <1>6, <1>8, <1>9 DEF IInv, Restoring, Finalised, Marked
<1>13. Control' /\ RestoreSteps'
  BY <1>1, <1>2, <1>3, <1>6 DEF IInv, Control, RestoreSteps, Marked, At, RestoreLabels
<1>14. FilesMoved
  <2>1. ASSUME NEW p \in Places, p.main # Null
        PROVE  \E r \in Places' : r.main = p.main
    <3>1. CASE p = [main |-> main, wal |-> wal]
      <4>1. quarantine'[marker.id] \in Places' /\ quarantine'[marker.id].main = p.main
        BY <1>4, <1>5, <3>1 DEF Places
      <4> QED BY <4>1
    <3>2. CASE \E i \in Operations : p = quarantine[i]
      <4>1. PICK i \in Operations : p = quarantine[i]
        BY <3>2
      <4>2. i # marker.id
        BY <1>2, <2>1, <4>1 DEF Aside, NoFiles
      <4>3. quarantine'[i] = p /\ quarantine'[i] \in Places'
        BY <1>5, <4>1, <4>2 DEF Places
      <4> QED BY <4>3
    <3> QED BY <3>1, <3>2 DEF Places
  <2>2. ASSUME NEW p \in Places, p.wal # Null
        PROVE  \E r \in Places' : r.wal = p.wal
    <3>1. CASE p = [main |-> main, wal |-> wal]
      <4> DEFINE here == [main |-> main', wal |-> wal']
      <4>1. here \in Places' /\ here.wal = p.wal
        BY <1>1, <3>1 DEF Places
      <4> HIDE DEF here
      <4> QED BY <4>1
    <3>2. CASE \E i \in Operations : p = quarantine[i]
      <4>1. PICK i \in Operations : p = quarantine[i]
        BY <3>2
      <4>2. i # marker.id
        BY <1>2, <2>2, <4>1 DEF Aside, NoFiles
      <4>3. quarantine'[i] = p /\ quarantine'[i] \in Places'
        BY <1>5, <4>1, <4>2 DEF Places
      <4> QED BY <4>3
    <3> QED BY <3>1, <3>2 DEF Places
  <2> QED BY <1>1, <2>1, <2>2 DEF FilesMoved, Covered
<1> HIDE DEF q
<1> QED BY <1>1, <1>2, <1>3, <1>7, <1>10, <1>11, <1>12, <1>13, <1>14, RestoreMoves

\* The WAL follows its database into the quarantine.
LEMMA WalFollows ==
    ASSUME TypeOK, IInv, Marked("RESTORE"), main = Null, QuarantineWal,
           UNCHANGED <<release, main, staged, marker, sidecars, count, latest, wiped>>
    PROVE  /\ quarantine' \in [Operations -> FileSets] /\ wal' = Null
           /\ FilesMoved /\ InPlace' /\ SetAside' /\ MatchedGeneration' /\ Restoring'
           /\ Marked("RESTORE")'
<1>1. /\ marker.id \in Operations /\ marker # Null /\ Aside \in FileSets /\ Aside = quarantine[marker.id]
      /\ \A i \in Operations : i > count.operations => i # marker.id
  BY RestoreMarker DEF Aside
<1>2. /\ wal # Null => Aside.wal = Null /\ Aside.main # Null /\ wal.base = Aside.main.id
                       /\ wal.base \in DOMAIN latest
      /\ Aside.main = Null => Aside.wal = Null
  BY DEF IInv, Restoring, InPlace
<1> DEFINE w == IF wal # Null THEN wal ELSE Aside.wal
           q == [main |-> Aside.main, wal |-> w]
<1>3. wal' = Null /\ quarantine' = [quarantine EXCEPT ![marker.id] = q]
  <2>1. wal' = Null /\ quarantine' = [quarantine EXCEPT ![marker.id].wal = w]
    BY <1>1 DEF QuarantineWal
  <2>2. [quarantine[marker.id] EXCEPT !.wal = w] = q
    BY <1>1 DEF FileSets
  <2> HIDE DEF w, q
  <2> QED BY <1>1, <2>1, <2>2
<1>4. q \in FileSets
  BY <1>1 DEF FileSets, TypeOK
<1>5. q.main = Aside.main /\ q.wal = w /\ (q.wal # Null => q.main # Null /\ q.wal.base = q.main.id)
  BY <1>1, <1>2 DEF IInv, MatchedGeneration
<1> HIDE DEF q
<1>6. /\ quarantine' \in [Operations -> FileSets] /\ quarantine'[marker.id] = q
      /\ \A j \in Operations : j # marker.id => quarantine'[j] = quarantine[j]
  BY <1>1, <1>3, <1>4, QuarantineEdited
<1>7. Aside' = q /\ Marked("RESTORE")'
  BY <1>6 DEF Aside, Marked
<1>8. Moved' = Moved /\ \A c : Fits(c)' <=> Fits(c)
  BY <1>2, <1>3, <1>5, <1>7 DEF Moved, Fits
<1>9. InPlace'
  BY <1>3 DEF InPlace, Marked
<1>10. SetAside'
  <2>1. q.wal # Null => q.wal.base \in DOMAIN latest
    BY <1>1, <1>2, <1>5 DEF IInv, SetAside
  <2>2. q.main # Null => q.main.id \in DOMAIN latest
    BY <1>1, <1>5 DEF IInv, SetAside
  <2> QED BY <1>1, <1>6, <2>1, <2>2 DEF IInv, SetAside
<1>11. MatchedGeneration'
  BY <1>3, <1>5, <1>6 DEF IInv, MatchedGeneration
<1>12. Restoring'
  BY <1>1, <1>3, <1>5, <1>7, <1>8 DEF IInv, Restoring, Finalised
<1>13. FilesMoved
  <2>1. ASSUME NEW p \in Places, p.main # Null
        PROVE  \E r \in Places' : r.main = p.main
    <3>1. PICK i \in Operations : p = quarantine[i]
      BY <2>1 DEF Places
    <3>2. quarantine'[i].main = p.main /\ quarantine'[i] \in Places'
      BY <1>1, <1>5, <1>6, <3>1 DEF Places
    <3> QED BY <3>2
  <2>2. ASSUME NEW p \in Places, p.wal # Null
        PROVE  \E r \in Places' : r.wal = p.wal
    <3>1. CASE wal # Null /\ p.wal = wal
      <4>1. quarantine'[marker.id] \in Places' /\ quarantine'[marker.id].wal = p.wal
        BY <1>1, <1>5, <1>6, <3>1 DEF Places, w
      <4> QED BY <4>1
    <3>2. CASE \E i \in Operations : p = quarantine[i]
      <4>1. PICK i \in Operations : p = quarantine[i]
        BY <3>2
      <4>2. CASE i = marker.id
        <5>1. quarantine'[i].wal = p.wal /\ quarantine'[i] \in Places'
          BY <1>1, <1>2, <1>5, <1>6, <2>2, <4>1, <4>2 DEF Places, w
        <5> QED BY <5>1
      <4>3. CASE i # marker.id
        <5>1. quarantine'[i] = p /\ quarantine'[i] \in Places'
          BY <1>6, <4>1, <4>3 DEF Places
        <5> QED BY <5>1
      <4> QED BY <4>2, <4>3
    <3> QED BY <2>2, <3>1, <3>2 DEF Places
  <2> QED BY <2>1, <2>2 DEF FilesMoved, Covered
<1> QED BY <1>3, <1>6, <1>7, <1>9, <1>10, <1>11, <1>12, <1>13

LEMMA MoveWalStep ==
    ASSUME TypeOK, IInv, MoveWal
    PROVE  TypeOK' /\ IInv'
<1>1. /\ op # Null /\ op.command = "restore" /\ op.at = "wal" /\ Goto("install") /\ QuarantineWal
      /\ UNCHANGED <<release, bound, main, staged, backups, marker, sidecars, serving, glance,
                     count, latest, wiped>>
  BY DEF MoveWal, At
<1>2. Marked("RESTORE") /\ main = Null /\ staged[marker.id] # Null
      /\ op.by = "owner" /\ boot = Null /\ ~serving
  BY <1>1 DEF IInv, Control, RestoreSteps
<1>3. /\ op' \in Commands /\ op' # Null /\ op'.command = "restore" /\ op'.by = "owner"
      /\ op'.at = "install" /\ boot' = boot
  BY <1>1, <1>2, GotoEffect DEF Labels
<1>4. /\ quarantine' \in [Operations -> FileSets] /\ wal' = Null
      /\ FilesMoved /\ InPlace' /\ SetAside' /\ MatchedGeneration' /\ Restoring'
      /\ Marked("RESTORE")'
  BY <1>1, <1>2, WalFollows
<1>5. TypeOK'
  BY <1>1, <1>3, <1>4 DEF TypeOK
<1>6. Control' /\ RestoreSteps'
  BY <1>1, <1>2, <1>3, <1>4 DEF Control, RestoreSteps, At, RestoreLabels
<1> QED BY <1>1, <1>2, <1>3, <1>4, <1>5, <1>6, RestoreMoves

\* The snapshot takes the place that the old database and its WAL have left.
LEMMA Installed ==
    ASSUME TypeOK, IInv, Marked("RESTORE"), main = Null, wal = Null, staged[marker.id] # Null,
           InstallStaged,
           UNCHANGED <<release, wal, quarantine, marker, sidecars, count, wiped>>
    PROVE  /\ main' \in Databases /\ main' # Null
           /\ staged' \in [Operations -> Databases \cup {Null}]
           /\ latest' \in Seq(Contents \cup {Null}) /\ Len(latest') = Len(latest)
           /\ DOMAIN latest' = DOMAIN latest
           /\ FilesMoved /\ InPlace' /\ SetAside' /\ MatchedGeneration' /\ Restoring'
           /\ Marked("RESTORE")'
<1> DEFINE d == staged[marker.id]
<1>1. /\ marker.id \in Operations /\ marker # Null
      /\ d \in Databases
  BY RestoreMarker
<1>2. d.id \in DOMAIN latest /\ Fits(d.content) /\ Finalised(d.content) /\ d # Null /\ d.content \in Contents
  BY <1>1 DEF IInv, SetAside, Restoring, Databases
<1>3. main' = d /\ latest' = [latest EXCEPT ![d.id] = d.content] /\ staged' = [staged EXCEPT ![marker.id] = Null]
  BY DEF InstallStaged
<1>4. /\ staged' \in [Operations -> Databases \cup {Null}] /\ staged'[marker.id] = Null
      /\ \A i \in Operations : i # marker.id => staged'[i] = staged[i]
  BY <1>1, <1>3 DEF TypeOK
<1> HIDE DEF d
<1>5. /\ latest' \in Seq(Contents \cup {Null}) /\ Len(latest') = Len(latest)
      /\ DOMAIN latest' = DOMAIN latest /\ latest'[d.id] = d.content
      /\ \A f \in DOMAIN latest : f # d.id => latest'[f] = latest[f]
  BY <1>2, <1>3 DEF TypeOK
<1>6. Content' = d.content /\ (\A c : Fits(c)' <=> Fits(c)) /\ Aside' = Aside /\ Marked("RESTORE")'
  BY <1>3 DEF Content, Fits, Aside, Marked
<1>7. InPlace'
  BY <1>2, <1>3, <1>5, <1>6 DEF InPlace, Finalised
<1>8. SetAside' /\ MatchedGeneration'
  BY <1>4, <1>5 DEF IInv, SetAside, MatchedGeneration
<1>9. Restoring'
  BY <1>2, <1>3, <1>4, <1>6 DEF IInv, Restoring
<1>10. FilesMoved
  <2>1. ASSUME NEW p \in Places, p.main # Null
        PROVE  \E r \in Places' : r.main = p.main
    <3>1. p \in Places'
      BY <2>1 DEF Places
    <3> QED BY <3>1
  <2>2. ASSUME NEW p \in Places, p.wal # Null
        PROVE  \E r \in Places' : r.wal = p.wal
    <3>1. p \in Places'
      BY <2>2 DEF Places
    <3> QED BY <3>1
  <2>3. \A f \in DOMAIN latest' : ~Covered(f) => f \in (DOMAIN latest) \ wiped /\ latest'[f] = latest[f]
    BY <1>2, <1>3, <1>5 DEF Covered
  <2> QED BY <2>1, <2>2, <2>3 DEF FilesMoved
<1> QED BY <1>1, <1>2, <1>3, <1>4, <1>5, <1>6, <1>7, <1>8, <1>9, <1>10

LEMMA InstallStep ==
    ASSUME TypeOK, IInv, Install
    PROVE  TypeOK' /\ IInv'
<1>1. /\ op # Null /\ op.command = "restore" /\ op.at = "install" /\ Goto("verify") /\ InstallStaged
      /\ UNCHANGED <<release, bound, wal, quarantine, backups, marker, sidecars, serving, glance,
                     count, wiped>>
  BY DEF Install, At
<1>2. Marked("RESTORE") /\ main = Null /\ wal = Null /\ staged[marker.id] # Null
      /\ op.by = "owner" /\ boot = Null /\ ~serving
  BY <1>1 DEF IInv, Control, RestoreSteps
<1>3. /\ op' \in Commands /\ op' # Null /\ op'.command = "restore" /\ op'.by = "owner"
      /\ op'.at = "verify" /\ boot' = boot
  BY <1>1, <1>2, GotoEffect DEF Labels
<1>4. /\ main' \in Databases /\ main' # Null
      /\ staged' \in [Operations -> Databases \cup {Null}]
      /\ latest' \in Seq(Contents \cup {Null}) /\ Len(latest') = Len(latest)
      /\ DOMAIN latest' = DOMAIN latest
      /\ FilesMoved /\ InPlace' /\ SetAside' /\ MatchedGeneration' /\ Restoring'
      /\ Marked("RESTORE")'
  BY <1>1, <1>2, Installed
<1>5. TypeOK'
  BY <1>1, <1>3, <1>4 DEF TypeOK
<1>6. Control' /\ RestoreSteps'
  BY <1>1, <1>2, <1>3, <1>4 DEF Control, RestoreSteps, At, RestoreLabels
<1> QED BY <1>1, <1>2, <1>3, <1>4, <1>5, <1>6, RestoreMoves

\* A recovery that moves files stays where it is.
LEMMA RecoveryStays ==
    ASSUME TypeOK, IInv, Recovering, UNCHANGED <<op, boot, serving, marker>>, Marked("RESTORE")
    PROVE  Control' /\ RestoreSteps' /\ op' \in Commands /\ op' # Null /\ op'.command = "recover"
<1>1. op # Null /\ op.command = "recover" /\ op.at = "start" /\ op \in Commands /\ ~serving
  BY DEF Recovering, At, IInv, Control, TypeOK
<1>2. Control'
  BY <1>1 DEF IInv, Control, Marked
<1>3. RestoreSteps'
  BY <1>1 DEF RestoreSteps, At
<1> QED BY <1>1, <1>2, <1>3

LEMMA RecoverForwardStep ==
    ASSUME TypeOK, IInv, RecoverForward
    PROVE  TypeOK' /\ IInv'
<1>1. /\ Recovering /\ main = Null /\ staged[marker.id] # Null
      /\ \/ QuarantineWal /\ UNCHANGED <<main, staged, latest>>
         \/ wal = Null /\ InstallStaged /\ UNCHANGED <<wal, quarantine>>
      /\ UNCHANGED <<release, bound, backups, marker, sidecars, serving, op, boot, glance, count, wiped>>
  BY DEF RecoverForward
<1>2. Marked("RESTORE")
  BY <1>1 DEF Recovering, At, Marked, IInv, Control
<1>3. Control' /\ RestoreSteps' /\ op' \in Commands /\ op' # Null /\ op'.command = "recover"
  BY <1>1, <1>2, RecoveryStays
<1>4. CASE QuarantineWal /\ UNCHANGED <<main, staged, latest>>
  <2>1. /\ quarantine' \in [Operations -> FileSets] /\ wal' = Null
        /\ FilesMoved /\ InPlace' /\ SetAside' /\ MatchedGeneration' /\ Restoring'
    BY <1>1, <1>2, <1>4, WalFollows
  <2>2. TypeOK'
    BY <1>1, <1>4, <2>1 DEF TypeOK
  <2> QED BY <1>1, <1>2, <1>3, <2>1, <2>2, RestoreMoves
<1>5. CASE wal = Null /\ InstallStaged /\ UNCHANGED <<wal, quarantine>>
  <2>1. /\ main' \in Databases /\ main' # Null
        /\ staged' \in [Operations -> Databases \cup {Null}]
        /\ latest' \in Seq(Contents \cup {Null}) /\ Len(latest') = Len(latest)
        /\ DOMAIN latest' = DOMAIN latest
        /\ FilesMoved /\ InPlace' /\ SetAside' /\ MatchedGeneration' /\ Restoring'
    BY <1>1, <1>2, <1>5, Installed
  <2>2. TypeOK'
    BY <1>1, <1>5, <2>1 DEF TypeOK
  <2> QED BY <1>1, <1>2, <1>3, <2>1, <2>2, RestoreMoves
<1> QED BY <1>1, <1>4, <1>5

\* The WAL goes back beside the place of its database.
LEMMA WalBack ==
    ASSUME TypeOK, IInv, Marked("RESTORE"), main = Null, wal = Null, Aside.main # Null,
           Aside.wal # Null, wal' = Aside.wal,
           quarantine' = [quarantine EXCEPT ![marker.id].wal = Null],
           UNCHANGED <<release, main, staged, marker, sidecars, count, latest, wiped>>
    PROVE  /\ quarantine' \in [Operations -> FileSets] /\ wal' \in Wals
           /\ FilesMoved /\ InPlace' /\ SetAside' /\ MatchedGeneration' /\ Restoring'
<1>1. /\ marker.id \in Operations /\ marker # Null /\ Aside \in FileSets /\ Aside = quarantine[marker.id]
      /\ Aside.wal \in Wals
  BY RestoreMarker DEF Aside
<1>2. Aside.wal.base = Aside.main.id /\ Aside.wal.base \in DOMAIN latest
  BY <1>1 DEF IInv, MatchedGeneration, SetAside
<1> DEFINE q == [main |-> Aside.main, wal |-> Null]
<1>3. quarantine' = [quarantine EXCEPT ![marker.id] = q]
  <2>1. [quarantine[marker.id] EXCEPT !.wal = Null] = q
    BY <1>1 DEF FileSets
  <2> HIDE DEF q
  <2> QED BY <1>1, <2>1
<1>4. q \in FileSets
  BY <1>1 DEF FileSets
<1>5. q.main = Aside.main /\ q.wal = Null
  OBVIOUS
<1> HIDE DEF q
<1>6. /\ quarantine' \in [Operations -> FileSets] /\ quarantine'[marker.id] = q
      /\ \A j \in Operations : j # marker.id => quarantine'[j] = quarantine[j]
  BY <1>1, <1>3, <1>4, QuarantineEdited
<1>7. Aside' = q /\ Marked("RESTORE")'
  BY <1>6 DEF Aside, Marked
<1>8. Moved' = Moved /\ \A c : Fits(c)' <=> Fits(c)
  BY <1>5, <1>7 DEF Moved, Fits
<1>9. InPlace'
  BY <1>2, <1>7 DEF InPlace, Marked
<1>10. SetAside' /\ MatchedGeneration'
  <2>1. \A i \in Operations : i > count.operations => i # marker.id
    BY RestoreMarker
  <2>2. q.main.id \in DOMAIN latest
    BY <1>1, <1>5 DEF IInv, SetAside
  <2>3. SetAside'
    BY <1>1, <1>5, <1>6, <2>1, <2>2 DEF IInv, SetAside
  <2>4. MatchedGeneration'
    BY <1>5, <1>6 DEF IInv, MatchedGeneration
  <2> QED BY <2>3, <2>4
<1>11. Restoring'
  BY <1>1, <1>2, <1>5, <1>7, <1>8 DEF IInv, Restoring, Finalised
<1>12. FilesMoved
  <2>1. ASSUME NEW p \in Places, p.main # Null
        PROVE  \E r \in Places' : r.main = p.main
    <3>1. PICK i \in Operations : p = quarantine[i]
      BY <2>1 DEF Places
    <3>2. quarantine'[i].main = p.main /\ quarantine'[i] \in Places'
      BY <1>1, <1>5, <1>6, <3>1 DEF Places
    <3> QED BY <3>2
  <2>2. ASSUME NEW p \in Places, p.wal # Null
        PROVE  \E r \in Places' : r.wal = p.wal
    <3>1. PICK i \in Operations : p = quarantine[i]
      BY <2>2 DEF Places
    <3>2. CASE i = marker.id
      <4> DEFINE here == [main |-> main', wal |-> wal']
      <4>1. here \in Places' /\ here.wal = p.wal
        BY <1>1, <3>1, <3>2 DEF Places
      <4> HIDE DEF here
      <4> QED BY <4>1
    <3>3. CASE i # marker.id
      <4>1. quarantine'[i] = p /\ quarantine'[i] \in Places'
        BY <1>6, <3>1, <3>3 DEF Places
      <4> QED BY <4>1
    <3> QED BY <3>2, <3>3
  <2> QED BY <2>1, <2>2 DEF FilesMoved, Covered
<1> QED BY <1>1, <1>6, <1>9, <1>10, <1>11, <1>12

\* And the database to the WAL that has stayed or is back.
LEMMA MainBack ==
    ASSUME TypeOK, IInv, Marked("RESTORE"), main = Null, staged[marker.id] = Null,
           Aside.main # Null, Aside.wal = Null, main' = Aside.main,
           quarantine' = [quarantine EXCEPT ![marker.id].main = Null],
           UNCHANGED <<release, wal, staged, marker, sidecars, count, latest, wiped>>
    PROVE  /\ quarantine' \in [Operations -> FileSets] /\ main' \in Databases
           /\ FilesMoved /\ InPlace' /\ SetAside' /\ MatchedGeneration' /\ Restoring'
<1>1. /\ marker.id \in Operations /\ marker # Null /\ Aside \in FileSets /\ Aside = quarantine[marker.id]
      /\ Aside.main \in Databases
  BY RestoreMarker DEF Aside
<1>2. /\ Aside.main.id \in DOMAIN latest /\ latest[Aside.main.id] = Moved
      /\ Fits(Moved) /\ Finalised(Moved)
      /\ wal # Null => wal.base = Aside.main.id
      /\ wal # Null => wal.base \in DOMAIN latest
  BY <1>1 DEF IInv, SetAside, Restoring, InPlace
<1>3. quarantine' = [quarantine EXCEPT ![marker.id] = NoFiles]
  <2>1. [quarantine[marker.id] EXCEPT !.main = Null] = NoFiles
    BY <1>1 DEF FileSets, NoFiles
  <2> QED BY <1>1, <2>1
<1>4. NoFiles \in FileSets /\ NoFiles.main = Null /\ NoFiles.wal = Null
  BY DEF FileSets, NoFiles
<1>5. /\ quarantine' \in [Operations -> FileSets] /\ quarantine'[marker.id] = NoFiles
      /\ \A j \in Operations : j # marker.id => quarantine'[j] = quarantine[j]
  BY <1>1, <1>3, <1>4, QuarantineEdited
<1>6. Aside' = NoFiles /\ Marked("RESTORE")' /\ \A c : Fits(c)' <=> Fits(c)
  BY <1>5 DEF Aside, Marked, Fits
<1>7. Content' = Moved
  BY DEF Content, Moved
<1>8. InPlace'
  BY <1>1, <1>2, <1>6, <1>7 DEF InPlace, Marked, Finalised
<1>9. SetAside' /\ MatchedGeneration'
  BY <1>2, <1>4, <1>5 DEF IInv, SetAside, MatchedGeneration
<1>10. Restoring'
  BY <1>1, <1>4, <1>6 DEF Restoring
<1>11. FilesMoved
  <2>1. ASSUME NEW p \in Places, p.main # Null
        PROVE  \E r \in Places' : r.main = p.main
    <3>1. PICK i \in Operations : p = quarantine[i]
      BY <2>1 DEF Places
    <3>2. CASE i = marker.id
      <4> DEFINE here == [main |-> main', wal |-> wal']
      <4>1. here \in Places' /\ here.main = p.main
        BY <1>1, <3>1, <3>2 DEF Places
      <4> HIDE DEF here
      <4> QED BY <4>1
    <3>3. CASE i # marker.id
      <4>1. quarantine'[i] = p /\ quarantine'[i] \in Places'
        BY <1>5, <3>1, <3>3 DEF Places
      <4> QED BY <4>1
    <3> QED BY <3>2, <3>3
  <2>2. ASSUME NEW p \in Places, p.wal # Null
        PROVE  \E r \in Places' : r.wal = p.wal
    <3>1. CASE p = [main |-> main, wal |-> wal]
      <4> DEFINE here == [main |-> main', wal |-> wal']
      <4>1. here \in Places' /\ here.wal = p.wal
        BY <3>1 DEF Places
      <4> HIDE DEF here
      <4> QED BY <4>1
    <3>2. CASE \E i \in Operations : p = quarantine[i]
      <4>1. PICK i \in Operations : p = quarantine[i]
        BY <3>2
      <4>2. i # marker.id
        BY <1>1, <2>2, <4>1
      <4>3. quarantine'[i] = p /\ quarantine'[i] \in Places'
        BY <1>5, <4>1, <4>2 DEF Places
      <4> QED BY <4>3
    <3> QED BY <3>1, <3>2 DEF Places
  <2> QED BY <2>1, <2>2 DEF FilesMoved, Covered
<1> QED BY <1>1, <1>5, <1>8, <1>9, <1>10, <1>11

LEMMA RecoverBackStep ==
    ASSUME TypeOK, IInv, RecoverBack
    PROVE  TypeOK' /\ IInv'
<1>1. /\ Recovering /\ main = Null /\ staged[marker.id] = Null /\ Aside.main # Null
      /\ \/ /\ Aside.wal # Null /\ wal = Null /\ wal' = Aside.wal
            /\ quarantine' = [quarantine EXCEPT ![marker.id].wal = Null]
            /\ UNCHANGED main
         \/ /\ Aside.wal = Null /\ main' = Aside.main
            /\ quarantine' = [quarantine EXCEPT ![marker.id].main = Null]
            /\ UNCHANGED wal
      /\ UNCHANGED <<release, bound, staged, backups, marker, sidecars, serving, op, boot, glance,
                     count, latest, wiped>>
  BY DEF RecoverBack, Ambiguous
<1>2. Marked("RESTORE")
  BY <1>1 DEF Recovering, At, Marked, IInv, Control
<1>3. Control' /\ RestoreSteps' /\ op' \in Commands /\ op' # Null /\ op'.command = "recover"
  BY <1>1, <1>2, RecoveryStays
<1>4. CASE /\ Aside.wal # Null /\ wal = Null /\ wal' = Aside.wal
           /\ quarantine' = [quarantine EXCEPT ![marker.id].wal = Null]
           /\ UNCHANGED main
  <2>1. /\ quarantine' \in [Operations -> FileSets] /\ wal' \in Wals
        /\ FilesMoved /\ InPlace' /\ SetAside' /\ MatchedGeneration' /\ Restoring'
    BY <1>1, <1>2, <1>4, WalBack
  <2>2. TypeOK'
    BY <1>1, <1>4, <2>1 DEF TypeOK
  <2> QED BY <1>1, <1>2, <1>3, <2>1, <2>2, RestoreMoves
<1>5. CASE /\ Aside.wal = Null /\ main' = Aside.main
           /\ quarantine' = [quarantine EXCEPT ![marker.id].main = Null]
           /\ UNCHANGED wal
  <2>1. /\ quarantine' \in [Operations -> FileSets] /\ main' \in Databases
        /\ FilesMoved /\ InPlace' /\ SetAside' /\ MatchedGeneration' /\ Restoring'
    BY <1>1, <1>2, <1>5, MainBack
  <2>2. TypeOK'
    BY <1>1, <1>5, <2>1 DEF TypeOK
  <2> QED BY <1>1, <1>2, <1>3, <2>1, <2>2, RestoreMoves
<1> QED BY <1>1, <1>4, <1>5

\* A reset removes only what it declares removed, and only under its marker.
LEMMA ClearGeneratedStateStep ==
    ASSUME TypeOK, IInv, ClearGeneratedState
    PROVE  TypeOK' /\ IInv'
<1>1. /\ op # Null /\ op.command \in {"reset", "recover"} /\ op.at = "clear"
      /\ RemoveMain \/ RemoveWal \/ RemoveSidecars
      /\ UNCHANGED <<release, bound, backups, marker, serving, op, boot, glance, count, latest>>
  BY DEF ClearGeneratedState, At
<1>2. Marked("RESET") /\ boot \in {Null, "migrate"} /\ ~serving
  <2>1. Marked("RESET") /\ ~serving
    BY <1>1 DEF IInv, Control
  <2>2. ~Marked("MIGRATE") /\ marker # Null
    BY <2>1 DEF Marked
  <2> QED BY <2>1, <2>2 DEF IInv, Booting
<1>3. UNCHANGED <<staged, quarantine>> /\ main' = Null
  BY <1>1 DEF RemoveMain, RemoveWal, RemoveSidecars, filesVars
<1>4. /\ wal' \in {wal, Null} /\ sidecars' \in {sidecars, NoSidecars}
      /\ wiped \subseteq wiped' /\ wiped' \subseteq DOMAIN latest
      /\ main # Null => main.id \in wiped'
      /\ wal # Null => wal' = wal \/ wal.base \in wiped'
  <2>1. wiped \subseteq DOMAIN latest
    BY DEF TypeOK
  <2>2. CASE RemoveMain
    BY <2>1, <2>2 DEF RemoveMain, IInv, InPlace
  <2>3. CASE RemoveWal
    BY <2>1, <2>3 DEF RemoveWal, IInv, InPlace
  <2>4. CASE RemoveSidecars
    BY <2>1, <2>4 DEF RemoveSidecars, filesVars
  <2> QED BY <1>1, <2>2, <2>3, <2>4
<1>5. TypeOK'
  <2>1. sidecars' \in SidecarSets /\ wal' \in Wals \cup {Null}
    BY <1>4 DEF SidecarSets, NoSidecars, TypeOK
  <2> QED BY <1>1, <1>3, <1>4, <2>1 DEF TypeOK
<1>6. Marked("RESET")' /\ ~Marked("RESTORE")' /\ ~Marked("MIGRATE")'
  BY <1>1, <1>2 DEF Marked
<1>7. Control' /\ Booting'
  BY <1>1, <1>2, <1>6 DEF IInv, Control, Booting, MigrateLabels
<1>8. Sidecars'
  BY <1>4 DEF IInv, Sidecars, NoSidecars
<1>9. InPlace'
  BY <1>1, <1>2, <1>3, <1>4, <1>6 DEF IInv, InPlace, Marked
<1>10. SetAside' /\ MatchedGeneration'
  BY <1>1, <1>3 DEF IInv, SetAside, MatchedGeneration
<1>11. Restoring' /\ RestoreSteps' /\ Migrating' /\ MigrationRecovering' /\ Archive'
  BY <1>1, <1>6 DEF IInv, Restoring, RestoreSteps, Migrating, MigrationRecovering, Archive, At
<1>12. FilesMoved
  <2>1. ASSUME NEW p \in Places, p.main # Null, ~Covered(p.main.id)
        PROVE  \E r \in Places' : r.main = p.main
    <3>1. p \in Places'
      BY <1>3, <1>4, <2>1 DEF Places, Covered
    <3> QED BY <3>1
  <2>2. ASSUME NEW p \in Places, p.wal # Null, ~Covered(p.wal.base)
        PROVE  \E r \in Places' : r.wal = p.wal
    <3>1. CASE p = [main |-> main, wal |-> wal]
      <4> DEFINE here == [main |-> main', wal |-> wal']
      <4>1. here \in Places' /\ here.wal = p.wal
        BY <1>4, <2>2, <3>1 DEF Places, Covered
      <4> HIDE DEF here
      <4> QED BY <4>1
    <3>2. CASE \E i \in Operations : p = quarantine[i]
      <4>1. p \in Places'
        BY <1>3, <3>2 DEF Places
      <4> QED BY <4>1
    <3> QED BY <3>1, <3>2 DEF Places
  <2> QED BY <1>1, <1>4, <2>1, <2>2 DEF FilesMoved, Covered
<1> QED BY <1>5, <1>7, <1>8, <1>9, <1>10, <1>11, <1>12, MovesLoseNothing DEF IInv

-----------------------------------------------------------------------------
(* The steps of a bootstrap that write its files.                          *)

\* What a bootstrap past its migration finds.
LEMMA Bootstrapping ==
    ASSUME TypeOK, IInv, boot \notin {Null, "migrate"}
    PROVE  /\ main # Null /\ (marker = Null \/ Marked("MIGRATE")) /\ ~Marked("RESTORE")
           /\ latest[main.id] = Content /\ main.id \in DOMAIN latest /\ Fits(Content)
           /\ Content \in Contents
           /\ op # Null => op.by = "cli"
<1>1. main # Null /\ (marker = Null \/ Marked("MIGRATE"))
  BY DEF IInv, Booting
<1>2. ~Marked("RESTORE")
  BY <1>1 DEF Marked
<1>3. latest[main.id] = Content /\ main.id \in DOMAIN latest /\ Fits(Content) /\ Content \in Contents
  BY <1>1, ContentType DEF IInv, InPlace
<1>4. op # Null => op.by = "cli"
  BY DEF IInv, Control, TypeOK, Commands
<1> QED BY <1>1, <1>2, <1>3, <1>4

\* A sidecar that fits the database in place changes nothing else.
LEMMA SidecarWritten ==
    ASSUME TypeOK, IInv, boot \notin {Null, "migrate"}, boot' # "migrate",
           UNCHANGED <<release, serving, filesVars, backups, marker, op, latest, wiped>>,
           count'.operations = count.operations,
           Sidecars', Fits(Content)', Booting'
    PROVE  IInv'
<1>1. /\ main # Null /\ (marker = Null \/ Marked("MIGRATE")) /\ ~Marked("RESTORE")
      /\ op # Null => op.by = "cli"
  BY Bootstrapping
<1>2. Content' = Content /\ (\A t : Marked(t)' <=> Marked(t))
  BY DEF Content, Marked, filesVars
<1>3. Control'
  BY <1>1, <1>2 DEF IInv, Control, filesVars
<1>4. InPlace'
  BY <1>1, <1>2 DEF IInv, InPlace, filesVars, Finalised
<1>5. SetAside' /\ MatchedGeneration' /\ NothingLost'
  BY DEF IInv, SetAside, MatchedGeneration, NothingLost, Places, filesVars
<1>6. Restoring' /\ RestoreSteps'
  BY <1>1, <1>2 DEF Restoring, RestoreSteps
<1>7. Migrating' /\ MigrationRecovering' /\ Archive'
  BY <1>2
  DEF IInv, Migrating, MigrationRecovering, Archive, At, filesVars,
      KnownHistory, NeedsBackup, Pending, Current, Finalised
<1> QED BY <1>3, <1>4, <1>5, <1>6, <1>7 DEF IInv

LEMMA PublishJournalStep ==
    ASSUME TypeOK, IInv, PublishJournal
    PROVE  TypeOK' /\ IInv'
<1>1. /\ boot = "deploy" /\ boot' = "manifest" /\ bound' = TRUE
      /\ IF sidecars.journal = Null
         THEN /\ count' = [count EXCEPT !.deployments = @ + 1]
              /\ sidecars' = [sidecars EXCEPT !.journal = count.deployments + 1]
         ELSE UNCHANGED <<count, sidecars>>
      /\ UNCHANGED <<release, filesVars, backups, marker, serving, op, glance, latest, wiped>>
  BY DEF PublishJournal
<1>2. /\ main # Null /\ (marker = Null \/ Marked("MIGRATE"))
      /\ Fits(Content)
  BY <1>1, Bootstrapping DEF BootPhases
<1>3. /\ count \in [files : Nat, deployments : Nat, rows : Nat, operations : Nat, mishaps : Nat]
      /\ sidecars \in SidecarSets
  BY DEF TypeOK
<1>4. /\ count' \in [files : Nat, deployments : Nat, rows : Nat, operations : Nat, mishaps : Nat]
      /\ count'.operations = count.operations /\ count'.files = count.files
  BY <1>1, <1>3
<1>5. /\ sidecars' \in SidecarSets /\ sidecars'.journal # Null
      /\ sidecars'.manifest = sidecars.manifest /\ sidecars'.receipt = sidecars.receipt
      /\ sidecars.journal # Null => sidecars' = sidecars
  <2>1. CASE sidecars.journal = Null
    <3> DEFINE d == count.deployments + 1
    <3>1. d \in Nat /\ sidecars' = [sidecars EXCEPT !.journal = d]
      BY <1>1, <1>3, <2>1
    <3> HIDE DEF d
    <3>2. sidecars' \in SidecarSets
      BY <1>3, <3>1 DEF SidecarSets
    <3>3. sidecars'.journal = d /\ sidecars'.manifest = sidecars.manifest /\ sidecars'.receipt = sidecars.receipt
      BY <1>3, <3>1 DEF SidecarSets
    <3> QED BY <2>1, <3>1, <3>2, <3>3
  <2>2. CASE sidecars.journal # Null
    BY <1>1, <1>3, <2>2
  <2> QED BY <2>1, <2>2
<1>6. TypeOK'
  BY <1>1, <1>4, <1>5 DEF TypeOK, filesVars, BootPhases
<1>7. Content' = Content /\ (\A t : Marked(t)' <=> Marked(t))
  BY <1>1 DEF Content, Marked, filesVars
<1>8. Sidecars'
  BY <1>5 DEF IInv, Sidecars
<1>9. Fits(Content)'
  BY <1>2, <1>5, <1>7 DEF Fits
<1>10. Booting'
  BY <1>1, <1>2, <1>5, <1>7 DEF Booting, filesVars
<1> QED BY <1>1, <1>4, <1>6, <1>8, <1>9, <1>10, SidecarWritten DEF BootPhases

LEMMA PublishManifestStep ==
    ASSUME TypeOK, IInv, PublishManifest
    PROVE  TypeOK' /\ IInv'
<1>1. /\ boot = "manifest" /\ boot' = "register"
      /\ sidecars' = [sidecars EXCEPT !.manifest = sidecars.journal]
      /\ UNCHANGED <<release, bound, filesVars, backups, marker, serving, op, glance, count, latest, wiped>>
  BY DEF PublishManifest
<1>2. /\ main # Null /\ (marker = Null \/ Marked("MIGRATE"))
      /\ Fits(Content) /\ sidecars.journal # Null
  BY <1>1, Bootstrapping DEF BootPhases, IInv, Booting
<1>3. /\ sidecars' \in SidecarSets /\ sidecars'.journal = sidecars.journal
      /\ sidecars'.manifest = sidecars.journal /\ sidecars'.receipt = sidecars.receipt
  <2>1. sidecars \in SidecarSets
    BY DEF TypeOK
  <2>2. sidecars' \in SidecarSets
    BY <1>1, <2>1 DEF SidecarSets
  <2> QED BY <1>1, <2>1, <2>2 DEF SidecarSets
<1>4. TypeOK'
  BY <1>1, <1>3 DEF TypeOK, filesVars, BootPhases
<1>5. Content' = Content /\ (\A t : Marked(t)' <=> Marked(t))
  BY <1>1 DEF Content, Marked, filesVars
<1>6. Sidecars'
  BY <1>2, <1>3 DEF IInv, Sidecars
<1>7. Fits(Content)'
  BY <1>2, <1>3, <1>5 DEF Fits, IInv, Sidecars
<1>8. Booting'
  BY <1>1, <1>2, <1>3, <1>5 DEF Booting, filesVars
<1> QED BY <1>1, <1>4, <1>6, <1>7, <1>8, SidecarWritten DEF BootPhases

LEMMA PublishReceiptStep ==
    ASSUME TypeOK, IInv, PublishReceipt
    PROVE  TypeOK' /\ IInv'
<1>1. /\ boot = "receipt" /\ boot' = Null
      /\ sidecars' = [sidecars EXCEPT !.receipt = sidecars.manifest]
      /\ UNCHANGED <<release, bound, filesVars, backups, marker, serving, op, glance, count, latest, wiped>>
  BY DEF PublishReceipt
<1>2. /\ Fits(Content) /\ Content.deployment = sidecars.manifest
  BY <1>1, Bootstrapping DEF BootPhases, IInv, Booting
<1>3. /\ sidecars' \in SidecarSets /\ sidecars'.journal = sidecars.journal
      /\ sidecars'.manifest = sidecars.manifest /\ sidecars'.receipt = sidecars.manifest
  <2>1. sidecars \in SidecarSets
    BY DEF TypeOK
  <2>2. sidecars' \in SidecarSets
    BY <1>1, <2>1 DEF SidecarSets
  <2> QED BY <1>1, <2>1, <2>2 DEF SidecarSets
<1>4. TypeOK'
  BY <1>1, <1>3 DEF TypeOK, filesVars, BootPhases
<1>5. Content' = Content
  BY <1>1 DEF Content, filesVars
<1>6. Sidecars'
  BY <1>3 DEF IInv, Sidecars
<1>7. Fits(Content)'
  BY <1>2, <1>3, <1>5 DEF Fits
<1>8. Booting' /\ boot' # "migrate"
  BY <1>1 DEF Booting, BootPhases
<1> QED BY <1>1, <1>4, <1>6, <1>7, <1>8, SidecarWritten DEF BootPhases

\* The deployment is written into the database in place, which is closed at once.
LEMMA RegisterStep ==
    ASSUME TypeOK, IInv, Register
    PROVE  TypeOK' /\ IInv'
<1> DEFINE c == [Content EXCEPT !.deployment = sidecars.manifest]
<1>1. /\ boot = "register" /\ op = Null /\ ~serving /\ boot' = "receipt"
      /\ main' = [main EXCEPT !.content = c] /\ wal' = Null
      /\ latest' = [latest EXCEPT ![main.id] = c]
      /\ UNCHANGED <<release, bound, staged, quarantine, backups, marker, sidecars, serving, op, glance,
                     count, wiped>>
  BY DEF Register, LocksFree
<1>2. /\ main # Null /\ (marker = Null \/ Marked("MIGRATE")) /\ ~Marked("RESTORE")
      /\ main.id \in DOMAIN latest /\ Fits(Content) /\ Content \in Contents
      /\ sidecars.journal # Null /\ sidecars.manifest # Null
  BY <1>1, Bootstrapping DEF BootPhases, IInv, Booting
<1>3. /\ c \in Contents /\ c.deployment = sidecars.manifest /\ c.schema = Content.schema
      /\ c.contract = Content.contract /\ c.rows = Content.rows
  <2>1. sidecars.manifest \in Nat \cup {Null}
    BY DEF TypeOK, SidecarSets
  <2> QED BY <1>2, <2>1, ContentEdits
<1> HIDE DEF c
<1>4. main' \in Databases /\ main' # Null /\ main'.id = main.id /\ main'.content = c
  <2>1. main \in Databases
    BY <1>2 DEF TypeOK
  <2>2. [main EXCEPT !.content = c] \in Databases
    BY <1>3, <2>1 DEF Databases
  <2>3. main' \in Databases
    BY <1>1, <2>2
  <2> QED BY <1>1, <2>1, <2>3 DEF Databases
<1>5. /\ latest' \in Seq(Contents \cup {Null}) /\ Len(latest') = Len(latest)
      /\ DOMAIN latest' = DOMAIN latest /\ latest'[main.id] = c
      /\ \A f \in DOMAIN latest : f # main.id => latest'[f] = latest[f]
  BY <1>1, <1>2, <1>3 DEF TypeOK
<1>6. TypeOK'
  BY <1>1, <1>4, <1>5 DEF TypeOK, BootPhases
<1>7. Content' = c /\ (\A d : Fits(d)' <=> Fits(d)) /\ (\A t : Marked(t)' <=> Marked(t))
  BY <1>1, <1>4 DEF Content, Fits, Marked
<1>8. Fits(c)
  BY <1>3 DEF Fits, IInv, Sidecars
<1>9. Sidecars' /\ Control'
  BY <1>1 DEF IInv, Sidecars, Control
<1>10. Booting'
  BY <1>1, <1>2, <1>3, <1>4, <1>7 DEF Booting
<1>11. InPlace'
  <2>1. marker = Null => Finalised(c)
    BY <1>2, <1>3 DEF IInv, InPlace, Finalised
  <2> QED BY <1>1, <1>2, <1>4, <1>5, <1>7, <1>8, <2>1 DEF InPlace, Finalised
<1>12. SetAside' /\ MatchedGeneration'
  BY <1>1, <1>5 DEF IInv, SetAside, MatchedGeneration
<1>13. Restoring'
  BY <1>2, <1>7 DEF Restoring
<1>14. Archive'
  BY <1>1, <1>3, <1>4, <1>7 DEF IInv, Archive
<1>15. FilesMoved
  <2>1. ASSUME NEW p \in Places, p.main # Null, ~Covered(p.main.id)
        PROVE  \E r \in Places' : r.main = p.main
    <3>1. p.main # main
      BY <1>4, <1>5, <2>1 DEF Covered
    <3>2. p \in Places'
      BY <1>1, <2>1, <3>1 DEF Places
    <3> QED BY <3>2
  <2>2. ASSUME NEW p \in Places, p.wal # Null, ~Covered(p.wal.base)
        PROVE  \E r \in Places' : r.wal = p.wal
    <3>1. p.wal # wal
      BY <1>2, <1>4, <1>5, <2>2 DEF Covered, IInv, InPlace
    <3>2. p \in Places'
      BY <1>1, <2>2, <3>1 DEF Places
    <3> QED BY <3>2
  <2>3. \A f \in DOMAIN latest' : latest'[f] # Null /\ ~Covered(f) =>
           f \in (DOMAIN latest) \ wiped /\ latest'[f] = latest[f]
    BY <1>1, <1>4, <1>5 DEF Covered
  <2> QED BY <2>1, <2>2, <2>3 DEF FilesMoved
<1> QED BY <1>1, <1>6, <1>9, <1>10, <1>11, <1>12, <1>13, <1>14, <1>15, NoCommand, MovesLoseNothing DEF IInv

-----------------------------------------------------------------------------
(* The theorems.                                                           *)

LEMMA InitInv == Init => TypeOK /\ IInv
<1> SUFFICES ASSUME Init PROVE TypeOK /\ IInv
  OBVIOUS
<1>1. NoFiles \in FileSets /\ NoSidecars \in SidecarSets /\ NoFiles.main = Null /\ NoFiles.wal = Null
  BY DEF NoFiles, NoSidecars, FileSets, SidecarSets
<1>2. /\ staged = [i \in Operations |-> Null] /\ quarantine = [i \in Operations |-> NoFiles]
      /\ latest = <<>> /\ wiped = {} /\ backups = <<>> /\ marker = Null /\ main = Null /\ wal = Null
      /\ sidecars = NoSidecars /\ release = 1 /\ op = Null /\ boot = Null /\ glance = Null
      /\ serving = FALSE /\ bound = FALSE
      /\ count = [files |-> 0, deployments |-> 0, rows |-> 0, operations |-> 0, mishaps |-> 0]
  BY DEF Init
<1>3. TypeOK
  <2>1. /\ staged \in [Operations -> Databases \cup {Null}]
        /\ quarantine \in [Operations -> FileSets]
    BY <1>1, <1>2
  <2>2. latest \in Seq(Contents \cup {Null}) /\ Len(latest) = count.files /\ wiped \subseteq DOMAIN latest
    BY <1>2
  <2>3. count \in [files : Nat, deployments : Nat, rows : Nat, operations : Nat, mishaps : Nat]
    BY <1>2
  <2>4. backups \in Seq(Bundles)
    BY <1>2
  <2> QED BY <1>1, <1>2, <2>1, <2>2, <2>3, <2>4 DEF TypeOK
<1>4. Control /\ Booting /\ Sidecars /\ InPlace
  BY <1>2 DEF Control, Booting, Sidecars, InPlace, NoSidecars, Marked
<1>5. SetAside /\ MatchedGeneration
  BY <1>1, <1>2 DEF SetAside, MatchedGeneration
<1>6. Restoring /\ RestoreSteps /\ Migrating /\ MigrationRecovering
  BY <1>2 DEF Restoring, RestoreSteps, Migrating, MigrationRecovering, At, Marked
<1>7. Archive
  BY <1>2 DEF Archive, Marked
<1>8. NothingLost
  BY <1>2 DEF NothingLost
<1> QED BY <1>3, <1>4, <1>5, <1>6, <1>7, <1>8 DEF IInv

LEMMA NextInv == TypeOK /\ IInv /\ Next => TypeOK' /\ IInv'
<1> SUFFICES ASSUME TypeOK, IInv, Next PROVE TypeOK' /\ IInv'
  OBVIOUS
<1>1. CASE Indexer
  BY <1>1, StartIndexerStep, CommitBatchStep, StopIndexerStep DEF Indexer
<1>2. CASE Backup
  BY <1>2, BackupStep
<1>3. CASE \E by \in {"cli", "boot"} : StartMigrate(by)
  BY <1>3, StartMigrateStep
<1>4. CASE \E b \in DOMAIN backups : StartRestore(b)
  BY <1>4, StartRestoreStep
<1>5. CASE StartReset \/ ReadInitialMarker \/ StartRecover \/ StartBootstrap
  BY <1>5, StartResetStep, ReadInitialMarkerStep, StartRecoverStep, StartBootstrapStep
<1>6. CASE Migrate
  BY <1>6, CreateDatabaseStep, MakeSafetyBackupStep, RecordBackupStep, SkipBackupStep,
     RefuseMigrateStep, ApplyMigrationsStep, FinalizeContractStep, ClearMigrateStep, CloseMigrateStep
  DEF Migrate
<1>7. CASE Restore
  BY <1>7, StageSnapshotStep, MoveMainStep, MoveWalStep, InstallStep, FinishRestoreStep DEF Restore
<1>8. CASE Reset
  BY <1>8, ChainResetStep, ClearGeneratedStateStep, FinishResetStep DEF Reset
<1>9. CASE Recover
  BY <1>9, RecoverResetStep, RecoverMigrateStep, CloseRecoveredStep, FinishRecoverStep,
     RecoverForwardStep, RecoverBackStep, RecoverRestoredStep DEF Recover
<1>10. CASE Bootstrap
  BY <1>10, PublishJournalStep, PublishManifestStep, RegisterStep, PublishReceiptStep,
     EndBootstrapStep DEF Bootstrap
<1>11. CASE Faults
  BY <1>11, KillIndexerStep, CrashOperationStep, PowerLossStep, ChangeReleaseStep DEF Faults
<1> QED BY <1>1, <1>2, <1>3, <1>4, <1>5, <1>6, <1>7, <1>8, <1>9, <1>10, <1>11 DEF Next

\* A step that changes nothing.
LEMMA StutterInv == TypeOK /\ IInv /\ UNCHANGED vars => TypeOK' /\ IInv'
<1> SUFFICES ASSUME TypeOK, IInv, UNCHANGED vars PROVE TypeOK' /\ IInv'
  OBVIOUS
<1>1. /\ UNCHANGED <<release, filesVars, backups, marker, sidecars, bound, serving, op, boot,
                     glance, count, latest, wiped>>
  BY DEF vars
<1>2. TypeOK'
  BY <1>1 DEF TypeOK, filesVars
<1>3. /\ Content' = Content /\ Aside' = Aside
  BY <1>1 DEF Content, Aside, filesVars
<1>4. Control' /\ RestoreSteps' /\ Migrating' /\ MigrationRecovering'
  BY <1>1, <1>3
  DEF IInv, Control, RestoreSteps, Migrating, MigrationRecovering, Marked, At, filesVars,
      KnownHistory, NeedsBackup, Pending, Current, Finalised
<1> QED BY <1>1, <1>2, <1>4, CommandMoves

LEMMA InvAlways == Spec => [](TypeOK /\ IInv)
<1>1. TypeOK /\ IInv /\ [Next]_vars => TypeOK' /\ IInv'
  BY NextInv, StutterInv
<1> QED BY InitInv, <1>1, PTL DEF Spec

\* Environment.TypeOK for every set of releases and every bound: the files, the marker, the
\* bundles and the commands keep the shape that files.ts, marker.ts and backup.ts give them.
THEOREM TypeCorrect == Spec => []TypeOK
BY InvAlways, PTL

\* The inductive invariant: where an environment, whichever command died in it, can
\* stand between two steps.
THEOREM Inductive == Spec => []IInv
BY InvAlways, PTL

\* restore.ts:141-147, recovery.ts:30-54: no WAL is ever beside a database it does not
\* belong to, in place or in a quarantine.
THEOREM WalNeverForeign == Spec => []MatchedGeneration
<1>1. IInv => MatchedGeneration
  BY DEF IInv
<1> QED BY <1>1, Inductive, PTL

\* restore.ts:140-148, recovery.ts:157-173, reset.ts:15-37: whatever was committed is in
\* some main file or in the WAL of one, unless a confirmed reset removed that file.
THEOREM NothingEverLost == Spec => []NothingLost
<1>1. IInv => NothingLost
  BY DEF IInv
<1> QED BY <1>1, Inductive, PTL

\* marker.ts:24-61, migrations.ts:177-197: an environment with no marker and no command at
\* work is whole, so that nothing but the marker tells the next command to repair.
THEOREM UnmarkedAlwaysWhole == Spec => []UnmarkedIsWhole
<1>1. IInv => UnmarkedIsWhole
  BY DEF IInv, InPlace, Fits, Finalised, UnmarkedIsWhole
<1> QED BY <1>1, Inductive, PTL

\* Nothing but ApplyMigrations raises the schema of a database in place.
LEMMA OnlyMigrationsRaise ==
    ASSUME TypeOK, IInv, Next, main # Null, main' # Null, main'.id = main.id,
           Content'.schema > Content.schema
    PROVE  ApplyMigrations /\ Pending
<1>1. Content \in Contents /\ Content.schema \in Nat
  <2>1. Content \in Contents
    BY ContentType
  <2>2. Content.schema \in Releases \cup {0}
    BY <2>1 DEF Contents
  <2> DEFINE s == Content.schema
  <2>3. s \in Releases \cup {0}
    BY <2>2
  <2> HIDE DEF s
  <2>4. s \in Nat
    BY <2>3
  <2> QED BY <2>1, <2>4 DEF s
<1>2. Content' # Content
  BY <1>1
<1>3. ~UNCHANGED <<main, wal>> /\ ~UNCHANGED filesVars
  BY <1>2 DEF Content, filesVars
<1>4. ASSUME NEW c \in Contents, Commit(c), c.schema = Content.schema
      PROVE  FALSE
  BY <1>1, <1>4, CommitEffect
<1>5. ~Checkpoint
  BY <1>2, CheckpointEffect
<1>6. release \in Releases /\ count.rows + 1 \in Nat
  BY DEF TypeOK
<1>7. ~Indexer
  <2>1. ~CommitBatch
    BY <1>1, <1>4, <1>6, ContentEdits DEF CommitBatch
  <2> QED BY <1>3, <1>5, <2>1 DEF Indexer, StartIndexer, StopIndexer
<1>8. ~Backup /\ (\A by \in {"cli", "boot"} : ~StartMigrate(by)) /\ \A b \in DOMAIN backups : ~StartRestore(b)
  BY <1>3 DEF Backup, StartMigrate, StartRestore
<1>9. ~StartReset /\ ~ReadInitialMarker /\ ~StartRecover /\ ~StartBootstrap
  BY <1>3 DEF StartReset, ReadInitialMarker, StartRecover, StartBootstrap
<1>10. Migrate => ApplyMigrations /\ Pending
  <2>1. ~CreateDatabase /\ ~MakeSafetyBackup /\ ~RecordBackup /\ ~SkipBackup /\ ~ClearMigrate
    BY <1>3 DEF CreateDatabase, MakeSafetyBackup, RecordBackup, SkipBackup, ClearMigrate
  <2>2. ~RefuseMigrate /\ ~CloseMigrate
    BY <1>5 DEF RefuseMigrate, CloseMigrate
  <2>3. ~FinalizeContract
    BY <1>1, <1>4, <1>6, ContentEdits DEF FinalizeContract
  <2>4. ApplyMigrations => Pending
    BY <1>3 DEF ApplyMigrations
  <2> QED BY <2>1, <2>2, <2>3, <2>4 DEF Migrate
<1>11. ~Restore
  <2>1. ~StageSnapshot /\ ~FinishRestore /\ ~MoveMain
    BY <1>3 DEF StageSnapshot, FinishRestore, MoveMain
  <2>2. ~MoveWal /\ ~Install
    BY DEF MoveWal, Install, IInv, Control, RestoreSteps, At
  <2> QED BY <2>1, <2>2 DEF Restore
<1>12. ~Reset
  BY <1>3
  DEF Reset, ChainReset, ClearGeneratedState, FinishReset, RemoveMain, RemoveWal, RemoveSidecars
<1>13. ~Recover
  <2>1. ~RecoverMigrate
    BY <1>1, <1>3, <1>4, <1>6, ContentEdits DEF RecoverMigrate
  <2>2. ~CloseRecovered
    BY <1>5 DEF CloseRecovered
  <2>3. ~RecoverReset /\ ~FinishRecover /\ ~RecoverForward /\ ~RecoverBack /\ ~RecoverRestored
    BY <1>3 DEF RecoverReset, FinishRecover, RecoverForward, RecoverBack, RecoverRestored
  <2> QED BY <2>1, <2>2, <2>3 DEF Recover
<1>14. ~Bootstrap
  <2>1. ~PublishJournal /\ ~PublishManifest /\ ~PublishReceipt /\ ~EndBootstrap
    BY <1>3 DEF PublishJournal, PublishManifest, PublishReceipt, EndBootstrap
  <2>2. ~Register
    <3> SUFFICES ASSUME Register PROVE FALSE
      OBVIOUS
    <3> DEFINE c == [Content EXCEPT !.deployment = sidecars.manifest]
    <3>1. main' = [main EXCEPT !.content = c] /\ wal' = Null /\ main \in Databases
      BY DEF Register, TypeOK
    <3>2. c \in Contents /\ c.schema = Content.schema
      <4>1. sidecars.manifest \in Nat \cup {Null}
        BY DEF TypeOK, SidecarSets
      <4> QED BY <1>1, <4>1, ContentEdits
    <3> HIDE DEF c
    <3>3. Content' = c
      BY <3>1 DEF Content, Databases
    <3> QED BY <1>1, <3>2, <3>3
  <2> QED BY <2>1, <2>2 DEF Bootstrap
<1>15. ~Faults
  BY <1>3 DEF Faults, KillIndexer, CrashOperation, PowerLoss, ChangeRelease
<1> QED BY <1>7, <1>8, <1>9, <1>10, <1>11, <1>12, <1>13, <1>14, <1>15 DEF Next

\* migration-operation.ts:100-141: whenever the schema of a database with a history is
\* raised, a published backup holds exactly what the database holds at that moment.
THEOREM SchemaRaisedUnderCopy == Spec => SafetyCopy
<1> DEFINE Step ==
      main # Null /\ main' # Null /\ main'.id = main.id /\ Content.schema > 0
         /\ Content'.schema > Content.schema =>
         \E b \in DOMAIN backups : backups[b].content = Content
<1>1. TypeOK /\ IInv /\ [Next]_vars => [Step]_vars
  <2> SUFFICES ASSUME TypeOK, IInv, Next, main # Null, main' # Null, main'.id = main.id,
                      Content.schema > 0, Content'.schema > Content.schema
               PROVE  \E b \in DOMAIN backups : backups[b].content = Content
    OBVIOUS
  <2>1. ApplyMigrations /\ Pending
    BY OnlyMigrationsRaise
  <2>2. op # Null /\ op.command = "migrate" /\ op.at = "apply"
    BY <2>1 DEF ApplyMigrations, At
  <2> QED BY <2>1, <2>2 DEF IInv, Migrating, NeedsBackup
<1>2. [](TypeOK /\ IInv) /\ [][Next]_vars => [][Step]_vars
  BY <1>1, PTL
<1> QED BY <1>2, InvAlways, PTL DEF Spec, SafetyCopy
=============================================================================
