----------------------------- MODULE Bootstrap -----------------------------
(***************************************************************************)
(* Bootstrap and reset of managed environments.  Bootstrap claims a node,  *)
(* deploys and seeds the contracts through the seed journal, publishes the *)
(* deployment manifest, registers the deployment in the database, seeds    *)
(* the catalog, indexes up to a fixed block and publishes its receipt.     *)
(* Reset empties the node and then removes what bootstrap made, under a    *)
(* durable marker that a recovery finishes from.  Any of it may die at any *)
(* step and be run again.                                                  *)
(***************************************************************************)
EXTENDS SeedJournal

CONSTANTS MaxResets,  \* bound on the resets that are started
          Torn        \* a managed-node.json whose writing was interrupted

ASSUME BootstrapAssumption == MaxResets \in Nat /\ Torn \notin Nodes \cup {Null}

VARIABLES
    binding,    \* environment -> node in its managed-node.json
    manifest,   \* environment -> deployment.json
    database,   \* environment -> what bootstrap puts into the read model
    receipt,    \* environment -> bootstrap-receipt.json
    marker,     \* environment -> reset phase in maintenance.json
    resets      \* resets started so far

localVars == <<binding, manifest, database, receipt, marker>>
vars == <<seedVars, localVars, resets>>

EmptyDatabase == [manifest |-> Null, catalog |-> FALSE, blocks |-> <<>>]

Init ==
    /\ chain = [n \in Nodes |-> <<>>] /\ mined = 0
    /\ journal = [e \in Environments |-> Null] /\ issued = 0
    /\ run = [e \in Environments |-> Idle] /\ mishaps = 0
    /\ binding = [e \in Environments |-> Null]
    /\ manifest = [e \in Environments |-> Null]
    /\ database = [e \in Environments |-> Null]
    /\ receipt = [e \in Environments |-> Null]
    /\ marker = [e \in Environments |-> Null]
    /\ resets = 0

---------------------------------------------------------------------------
(* Runs of a command, each under exclusive bootstrap ownership. *)

StartBootstrap(e, n, b) ==
    /\ run[e] = Idle
    /\ run' = [run EXCEPT ![e] = [Idle EXCEPT !.at = "migrate", !.node = n, !.build = b]]
    /\ UNCHANGED <<chain, mined, journal, issued, mishaps, localVars, resets>>

(* Nothing but the run itself changes. *)
Proceed(e, label) == Goto(e, label) /\ UNCHANGED <<chain, mined, journal, issued, mishaps, resets>>
GiveUp(e) ==
    End(e) /\ UNCHANGED <<chain, mined, journal, issued, mishaps, resets, localVars>>

(* migrateEnvironment refuses the marker of a reset, and otherwise leaves a
   database of the current schema. *)
MigrateFirst(e) ==
    /\ run[e].at = "migrate"
    /\ IF marker[e] # Null
       THEN GiveUp(e)
       ELSE /\ database' = [database EXCEPT ![e] = IF @ = Null THEN EmptyDatabase ELSE @]
            /\ Proceed(e, "claim")
            /\ UNCHANGED <<binding, manifest, receipt, marker>>

(* Every binding of the workspace must parse, and no other may name this node. *)
Dedicated(e, n) ==
    \A other \in Environments :
        binding[other] # Torn /\ (binding[other] = n => other = e)

(* Faults: the environment's own binding is not compared, or it counts as taken. *)
ClaimAnyNode(e) ==
    /\ run[e].at = "claim"
    /\ IF Dedicated(e, run[e].node)
       THEN /\ binding' = [binding EXCEPT ![e] = run[e].node]
            /\ Proceed(e, IF manifest[e] = Null THEN "open" ELSE "verify")
            /\ UNCHANGED <<manifest, database, receipt, marker>>
       ELSE GiveUp(e)

ClaimOnce(e) ==
    /\ run[e].at = "claim"
    /\ IF Dedicated(e, run[e].node) /\ binding[e] = Null
       THEN /\ binding' = [binding EXCEPT ![e] = run[e].node]
            /\ Proceed(e, IF manifest[e] = Null THEN "open" ELSE "verify")
            /\ UNCHANGED <<manifest, database, receipt, marker>>
       ELSE GiveUp(e)

ClaimManagedNode(e) ==
    /\ run[e].at = "claim"
    /\ IF Dedicated(e, run[e].node) /\ binding[e] \in {Null, run[e].node}
       THEN /\ binding' = [binding EXCEPT ![e] = run[e].node]
            /\ Proceed(e, IF manifest[e] = Null THEN "open" ELSE "verify")
            /\ UNCHANGED <<manifest, database, receipt, marker>>
       ELSE GiveUp(e)

(* The binding is created and then written: a crash in between leaves a file
   that no environment of the workspace can parse. *)
TearBinding(e) ==
    /\ run[e].at = "claim"
    /\ Dedicated(e, run[e].node) /\ binding[e] = Null
    /\ mishaps < MaxMishaps
    /\ mishaps' = mishaps + 1
    /\ binding' = [binding EXCEPT ![e] = Torn]
    /\ End(e)
    /\ UNCHANGED <<chain, mined, journal, issued, resets, manifest, database, receipt, marker>>

Deployed(n, m) == \A k \in CodeSteps : OnChain(n, m.code[k])

(* An existing manifest is only accepted if the node has that deployment. *)
VerifyDeployment(e) ==
    /\ run[e].at = "verify"
    /\ IF Deployed(run[e].node, manifest[e])
       THEN Proceed(e, "register") /\ UNCHANGED localVars
       ELSE GiveUp(e)

ManifestOf(e) ==
    [deployment |-> journal[e].deployment,
     code |-> [k \in CodeSteps |-> journal[e].steps[k].hash]]

(* publishImmutableJson of deployment.json: a temporary file renamed. *)
PublishManifest(e) ==
    /\ run[e].at = "manifest"
    /\ IF Deployed(run[e].node, ManifestOf(e))
       THEN /\ manifest' = [manifest EXCEPT ![e] = ManifestOf(e)]
            /\ Proceed(e, "register")
            /\ UNCHANGED <<binding, database, receipt, marker>>
       ELSE GiveUp(e)

(* One transaction: the deployment, an empty checkpoint and a new build id.  The
   conflict is one of manifests under a deployment id; a second deployment would
   get a row beside the first, and LocalStateIsOneDeployment is that the database
   never has one of another deployment here. *)
RegisterDeployment(e) ==
    /\ run[e].at = "register"
    /\ IF database[e].manifest \in {Null, manifest[e]}
       THEN /\ database' = [database EXCEPT ![e].manifest = manifest[e]]
            /\ Proceed(e, "catalog")
            /\ UNCHANGED <<binding, manifest, receipt, marker>>
       ELSE GiveUp(e)

(* One transaction, after which the target of the catch-up is read. *)
SeedCatalog(e) ==
    /\ run[e].at = "catalog"
    /\ marker[e] = Null
    /\ database' = [database EXCEPT ![e].catalog = TRUE]
    /\ LET blocks == chain[run[e].node] IN
       IF blocks = <<>>
       THEN End(e)
       ELSE run' = [run EXCEPT ![e].at = "ingest",
                        ![e].target = [number |-> Len(blocks), block |-> blocks[Len(blocks)].block]]
    /\ UNCHANGED <<chain, mined, journal, issued, mishaps, resets,
                   binding, manifest, receipt, marker>>

(* ingestRange stores further blocks if the checkpoint is on the node's chain;
   the last block stored stands for the chain below it. *)
OnBranch(n, blocks) ==
    blocks = <<>> \/ (Len(blocks) <= Len(chain[n]) /\ chain[n][Len(blocks)] = blocks[Len(blocks)])

Ingest(e) ==
    /\ run[e].at = "ingest"
    /\ LET stored == database[e].blocks
           n == run[e].node
       IN IF Len(stored) >= run[e].target.number
          THEN IF stored[run[e].target.number].block = run[e].target.block
               THEN Proceed(e, "receipt") /\ UNCHANGED localVars
               ELSE GiveUp(e)
          ELSE IF OnBranch(n, stored) /\ run[e].target.number <= Len(chain[n])
               THEN /\ \E upTo \in (Len(stored) + 1)..Len(chain[n]) :
                          database' = [database EXCEPT ![e].blocks =
                                          @ \o SubSeq(chain[n], Len(@) + 1, upTo)]
                    /\ Proceed(e, "ingest")
                    /\ UNCHANGED <<binding, manifest, receipt, marker>>
               ELSE GiveUp(e)

SaleIndexed(e) ==
    \E i \in DOMAIN database[e].blocks :
        LET tx == database[e].blocks[i] IN
        tx.step = StepCount /\ tx.outcome = "SUCCESS" /\ tx.deployment = manifest[e].deployment

(* The receipt is published once; a later run keeps the one it finds. *)
PublishReceipt(e) ==
    /\ run[e].at = "receipt"
    /\ receipt' = [receipt EXCEPT ![e] =
           IF @ = Null /\ database[e].catalog /\ SaleIndexed(e)
           THEN [deployment |-> manifest[e].deployment, target |-> run[e].target]
           ELSE @]
    /\ End(e)
    /\ UNCHANGED <<chain, mined, journal, issued, mishaps, resets,
                   binding, manifest, database, marker>>

---------------------------------------------------------------------------
(* Reset.  It writes PREPARED over whatever marker is there. *)

(* Fault: the node is the one of the command line, whoever it is bound to. *)
StartResetOfAnyNode(e) ==
    \E n \in Nodes :
        /\ run[e] = Idle
        /\ resets < MaxResets
        /\ resets' = resets + 1
        /\ marker' = [marker EXCEPT ![e] = "PREPARED"]
        /\ run' = [run EXCEPT ![e] = [Idle EXCEPT !.at = "reset", !.node = n]]
        /\ UNCHANGED <<chain, mined, journal, issued, mishaps,
                       binding, manifest, database, receipt>>

StartReset(e) ==
    \E n \in Nodes :
        /\ run[e] = Idle
        /\ binding[e] = n /\ Dedicated(e, n)
        /\ resets < MaxResets
        /\ resets' = resets + 1
        /\ marker' = [marker EXCEPT ![e] = "PREPARED"]
        /\ run' = [run EXCEPT ![e] = [Idle EXCEPT !.at = "reset", !.node = n]]
        /\ UNCHANGED <<chain, mined, journal, issued, mishaps,
                       binding, manifest, database, receipt>>

ResetChain(e) ==
    /\ run[e].at = "reset"
    /\ chain' = [chain EXCEPT ![run[e].node] = <<>>]
    /\ Goto(e, "mark")
    /\ UNCHANGED <<mined, journal, issued, mishaps, resets, localVars>>

(* anvil_reset fails, or its answer is lost: the phase stays PREPARED. *)
ResetFails(e) ==
    /\ run[e].at = "reset"
    /\ mishaps < MaxMishaps
    /\ mishaps' = mishaps + 1
    /\ \/ chain' = [chain EXCEPT ![run[e].node] = <<>>]
       \/ UNCHANGED chain
    /\ End(e)
    /\ UNCHANGED <<mined, journal, issued, resets, localVars>>

MarkChainReset(e) ==
    /\ run[e].at = "mark"
    /\ marker' = [marker EXCEPT ![e] = "CHAIN_RESET"]
    /\ Proceed(e, "clear")
    /\ UNCHANGED <<binding, manifest, database, receipt>>

(* clearResetGeneratedState removes one file after the other, skipping those
   that are gone: database, manifest, receipt, journal. *)
ClearNext(e) ==
    /\ run[e].at = "clear"
    /\ \/ /\ database[e] # Null
          /\ database' = [database EXCEPT ![e] = Null]
          /\ UNCHANGED <<manifest, receipt, journal>>
       \/ /\ database[e] = Null /\ manifest[e] # Null
          /\ manifest' = [manifest EXCEPT ![e] = Null]
          /\ UNCHANGED <<database, receipt, journal>>
       \/ /\ database[e] = Null /\ manifest[e] = Null /\ receipt[e] # Null
          /\ receipt' = [receipt EXCEPT ![e] = Null]
          /\ UNCHANGED <<database, manifest, journal>>
       \/ /\ database[e] = Null /\ manifest[e] = Null /\ receipt[e] = Null /\ journal[e] # Null
          /\ journal' = [journal EXCEPT ![e] = Null]
          /\ UNCHANGED <<database, manifest, receipt>>
    /\ UNCHANGED <<chain, mined, issued, run, mishaps, resets, binding, marker>>

Cleared(e) == database[e] = Null /\ manifest[e] = Null /\ receipt[e] = Null /\ journal[e] = Null

MarkCleared(e) ==
    /\ run[e].at = "clear"
    /\ Cleared(e)
    /\ marker' = [marker EXCEPT ![e] = "LOCAL_STATE_CLEARED"]
    /\ Proceed(e, "finish")
    /\ UNCHANGED <<binding, manifest, database, receipt>>

FinishReset(e) ==
    /\ run[e].at = "finish"
    /\ marker' = [marker EXCEPT ![e] = Null]
    /\ End(e)
    /\ UNCHANGED <<chain, mined, journal, issued, mishaps, resets,
                   binding, manifest, database, receipt>>

(* recover --complete: the removal is finished only if the marker proves that
   the node was emptied; at PREPARED the reset has to be run again. *)
RecoverResetAfterRemoval(e) ==   \* fault: the removal itself is not finished
    /\ run[e] = Idle
    /\ marker[e] = "LOCAL_STATE_CLEARED"
    /\ run' = [run EXCEPT ![e] = [Idle EXCEPT !.at = "clear"]]
    /\ UNCHANGED <<chain, mined, journal, issued, mishaps, resets, localVars>>

RecoverReset(e) ==
    /\ run[e] = Idle
    /\ marker[e] \in {"CHAIN_RESET", "LOCAL_STATE_CLEARED"}
    /\ run' = [run EXCEPT ![e] = [Idle EXCEPT !.at = "clear"]]
    /\ UNCHANGED <<chain, mined, journal, issued, mishaps, resets, localVars>>

---------------------------------------------------------------------------
BootstrapStep(e) ==
    \/ SeedStep(e) /\ UNCHANGED <<localVars, resets>>
    \/ MigrateFirst(e) \/ ClaimManagedNode(e) \/ VerifyDeployment(e)
    \/ PublishManifest(e) \/ RegisterDeployment(e) \/ SeedCatalog(e)
    \/ Ingest(e) \/ PublishReceipt(e)

ResetStep(e) ==
    \/ ResetChain(e) \/ MarkChainReset(e) \/ ClearNext(e) \/ MarkCleared(e) \/ FinishReset(e)

Fault ==
    \/ \E e \in Environments :
          \/ (SeedFault(e) \/ Crash(e)) /\ UNCHANGED <<localVars, resets>>
          \/ TearBinding(e) \/ ResetFails(e)
    \/ \E n \in Nodes : (RestartNode(n) \/ Remine(n)) /\ UNCHANGED <<localVars, resets>>

Next ==
    \/ \E e \in Environments :
          \/ \E n \in Nodes, b \in Builds : StartBootstrap(e, n, b)
          \/ StartReset(e) \/ RecoverReset(e) \/ BootstrapStep(e) \/ ResetStep(e)
    \/ Fault

Spec == Init /\ [][Next]_vars

(* A command that runs makes progress.  The operator runs recover while a marker
   allows it, and bootstrap again and again, with every build and node there is. *)
FairSpec ==
    /\ Spec
    /\ \A e \in Environments :
          /\ WF_vars(BootstrapStep(e)) /\ WF_vars(ResetStep(e)) /\ SF_vars(RecoverReset(e))
          /\ \A n \in Nodes, b \in Builds : SF_vars(StartBootstrap(e, n, b))

---------------------------------------------------------------------------
(* Properties. *)

Labels == {"idle", "migrate", "claim", "verify", "open", "step", "submit", "save", "wait",
           "manifest", "register", "catalog", "ingest", "receipt",
           "reset", "mark", "clear", "finish"}
Outcomes == {"SUCCESS", "REVERTED"}
Receipts == [block : Nat, outcome : Outcomes]
Entries == [status : {"PREPARED", "SUBMITTED", "VERIFIED", "UNKNOWN"},
            intent : Builds \cup {Null}, hash : Nat \cup {Null}, receipt : Receipts \cup {Null}]
Transactions == [hash : Nat, block : Nat, step : Steps, deployment : Nat,
                 intent : Builds \cup {Null}, outcome : Outcomes]
Journals == [deployment : Nat, steps : [Steps -> Entries \cup {Null}]]
Manifests == [deployment : Nat, code : [CodeSteps -> Nat]]
Databases == [manifest : Manifests \cup {Null}, catalog : BOOLEAN, blocks : Seq(Transactions)]
Targets == [number : Nat, block : Nat]
ReceiptFiles == [deployment : Nat, target : Targets]
Runs == [at : Labels, node : Nodes \cup {Null}, build : Builds \cup {Null},
         step : Steps \cup {0}, hash : Nat \cup {Null}, target : Targets \cup {Null}]
ResetPhases == {"PREPARED", "CHAIN_RESET", "LOCAL_STATE_CLEARED"}

(* A file or a value that is there is not the one that says it is not. *)
ASSUME NullAssumption ==
    Null \notin Entries \cup Receipts \cup Journals \cup Manifests \cup Databases
              \cup ReceiptFiles \cup Targets \cup ResetPhases

(* Every file, block and process of the model has the shape the code gives it. *)
TypeOK ==
    /\ chain \in [Nodes -> Seq(Transactions)] /\ mined \in Nat
    /\ journal \in [Environments -> Journals \cup {Null}]
    /\ issued \in Nat /\ mishaps \in Nat /\ resets \in Nat
    /\ run \in [Environments -> Runs]
    /\ binding \in [Environments -> Nodes \cup {Null, Torn}]
    /\ manifest \in [Environments -> Manifests \cup {Null}]
    /\ database \in [Environments -> Databases \cup {Null}]
    /\ receipt \in [Environments -> ReceiptFiles \cup {Null}]
    /\ marker \in [Environments -> ResetPhases \cup {Null}]

(* bootstrap.ts:247-361, chain-seed-journal.ts:106-193: whatever crashes, lost
   answers, failed writes, reruns and resets happened, no step of a deployment
   is on a node twice. *)
SentOnce ==
    \A n \in Nodes : \A i, j \in DOMAIN chain[n] :
        /\ chain[n][i].deployment = chain[n][j].deployment
        /\ chain[n][i].step = chain[n][j].step
        => i = j

(* chain-seed-journal.ts:117-122, managed-node.ts:105-128, reset.ts:59-69: every
   transaction on a node is on record in the journal of the one environment the
   node is bound to; so a node never holds two deployments, and no journal is
   removed while its transactions stand. *)
TransactionsOnRecord ==
    \A n \in Nodes : \A i \in DOMAIN chain[n] :
        LET tx == chain[n][i] IN
        \E e \in Environments :
            /\ binding[e] = n /\ journal[e] # Null
            /\ journal[e].deployment = tx.deployment
            /\ journal[e].steps[tx.step] # Null

(* chain-seed-journal.ts:113: the two contracts of a deployment are of one
   build, although a run that continues it may find another. *)
OneBuild ==
    \A n \in Nodes : \A i, j \in DOMAIN chain[n] :
        /\ chain[n][i].deployment = chain[n][j].deployment
        /\ {chain[n][i].step, chain[n][j].step} = CodeSteps
        => chain[n][i].intent = chain[n][j].intent

Succeeded(entry) ==
    entry # Null /\ entry.receipt # Null /\ entry.receipt.outcome = "SUCCESS"

(* bootstrap.ts:96-181, immutable-sidecar.ts:73-114, reset.ts:15-37: unless a reset
   is unfinished, the files of an environment speak of one deployment, and each
   exists only after the one before it is complete: journal, manifest, registered
   deployment with its catalog and blocks, receipt. *)
LocalStateIsOneDeployment ==
    \A e \in Environments : marker[e] = Null =>
        /\ manifest[e] # Null =>
              /\ journal[e] # Null
              /\ manifest[e].deployment = journal[e].deployment
              /\ \A k \in Steps : Succeeded(journal[e].steps[k])
        /\ database[e] # Null /\ database[e].manifest # Null =>
              database[e].manifest = manifest[e]
        /\ receipt[e] # Null =>
              /\ database[e] # Null /\ database[e].catalog
              /\ database[e].manifest # Null
              /\ receipt[e].deployment = database[e].manifest.deployment
              /\ database[e].blocks[receipt[e].target.number].block = receipt[e].target.block
              /\ \A k \in Steps : \E i \in DOMAIN database[e].blocks :
                    database[e].blocks[i].hash = journal[e].steps[k].hash

(* cli/reset.ts:43-54, managed-node.ts:130-143: a reset empties a node only of
   the transactions of the environment that asked for it. *)
ResetSparesOthers ==
    [][\A n \in Nodes :
          chain[n] # <<>> /\ chain'[n] = <<>> /\ mishaps' = mishaps =>
          \E e \in Environments :
              /\ run[e].at = "reset" /\ run[e].node = n
              /\ journal[e] # Null
              /\ \A i \in DOMAIN chain[n] : chain[n][i].deployment = journal[e].deployment]_vars

(* What stops a bootstrap for good, by the documentation: a transaction whose
   outcome is unknown or that reverted, a node that lost the deployment or was
   cut off by a torn binding, blocks that are no longer the node's, a reset. *)
Blocked(e) ==
    \/ marker[e] # Null
    \/ \E other \in Environments : binding[other] = Torn
    \/ \E k \in Steps :
          LET entry == journal[e].steps[k] IN
          /\ entry # Null
          /\ \/ entry.status = "UNKNOWN"
             \/ entry.receipt # Null /\ entry.receipt.outcome = "REVERTED"
             \/ entry.hash # Null /\ ~OnChain(binding[e], entry.hash)
    \/ binding[e] \in Nodes /\ database[e] # Null /\ ~OnBranch(binding[e], database[e].blocks)

(* seeding-and-bootstrap: a bootstrap that was interrupted anywhere is completed by
   running it again, unless the operator has to look at it. *)
InterruptedBootstrapCompletes ==
    \A e \in Environments : journal[e] # Null ~> (receipt[e] # Null \/ journal[e] = Null \/ Blocked(e))

(* recovery.ts:91-112: a reset whose node was emptied finishes removing the state. *)
ResetFinishes ==
    \A e \in Environments : marker[e] = "CHAIN_RESET" ~> (marker[e] = Null /\ journal[e] = Null)
=============================================================================
