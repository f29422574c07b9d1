# MotorCove in TLA+

TLA+ models of MotorCove, an escrow for ERC-721 vehicle tokens with a read
model that an indexer keeps, together with the TLC runs that check them and the
TLAPS proofs about them. Paths below are relative to the repository.

`PROJECT.json` lists the runs, the mutants (a plausible bug for every property,
which the property finds), the source lines of every definition, the hazards
and the theorems.

## The system

| Component | State it keeps | Operations | Where it is hard |
|---|---|---|---|
| Escrow contracts (`chain/src`) | sales, claims, `custodySaleId`, `totalLiability`, ether balance; token owners and approvals | createSale, fundSale, completeSale, cancelSale, expireSale, withdrawPayment, reclaimToken; mint, transferFrom, approve | contract recipients run code in the middle of three operations, and may call back or revert |
| Projectors, reconciliation (`apps/indexer/src/domain`, `cli/reconcile.ts`) | rows of sales, claims, owners | fold one event; compare rows with contract storage | events come in emission order, not in call order |
| Indexer (`apps/indexer/src`, `packages/database/src/projection-writer`) | journal of blocks and logs, canonical branch, projection rows, checkpoint, projection status and recovery reason | one poll (`ingestRange`), the retry loop, start and end of the process | several reads of a chain that may reorganise between them; crashes; a provider whose log index lags |
| Projection maintenance (`packages/database/src/maintenance`, `cli/rebuild.ts`, `cli/reindex.ts`) | the marker file, and the indexer's store | rebuild, reindex, their resumption and hand-over | a dozen durable writes, a crash possible after each |
| Browser submission journal (`apps/web/src/capabilities/transactions`, `integrations/persistence`) | entries in localStorage, volatile overlay per tab, Web Locks | submit, recover, recheck | tabs, reloads, lost storage, stale revisions |
| Chain seed journal and bootstrap (`apps/indexer/src/cli/chain-seed-journal.ts`, `bootstrap.ts`, `reset.ts`) | a JSON journal of the transactions of a deployment; binding to a node, manifest, registered deployment, catalog, receipt | prepare, submit, record and verify a transaction; bootstrap; reset | a crash around a submission, a lost answer, a node that forgets, two environments and one node, another build on the rerun |
| Environment maintenance (`packages/database/src/maintenance`, `connection`) | database file and WAL, staging and quarantine directories, bundles, marker, advisory locks | backup, restore, migrate, reset, recover | a crash between two renames; a rerun under another release; commands that meet an operation they did not start |
| Source audit (`apps/indexer/src/cli/audit-source.ts`, `packages/database/src/reader`) | none | read a range of the journal in one snapshot and compare it with a second provider | the chain and the journal move while it reads |
| Sales reader and funding observation (`packages/database/src/reader`) | none | queries; what became of a funding transaction | a row that later receipts rewrote |
| API (`apps/api`) | none | read-only HTTP over the reader | freshness of what is served |

The write path is browser, wallet, RPC provider, contracts. The read path is
contract logs, indexer, SQLite, API, browser. Maintenance commands work on the
SQLite file while the indexer is stopped, under an exclusive lock. The contracts
know nothing of the read path; the read path only observes.

What makes each part correct:

* escrow: a token in custody belongs to exactly one unsettled sale; the
  contract is never short of what it owes; every funded sale resolves; a
  claim names the party and the amount the outcome calls for;
* projectors: every order of events the contracts can log is accepted, and folding it
  gives what storage says;
* indexer: the stored read model is that of one chain; a barrier for recovery
  holds until a repair lifts it and is never raised without cause; a quiet
  chain is caught up with; `CURRENT` is said only of the eligible block;
* maintenance: without a marker the read model is whole; a barrier is lifted
  only by its repair; an interrupted operation can be finished;
* submission: the wallet is asked for one transaction of an intent at a time,
  only after the request is on record; evidence of a transaction is not lost;
* seed journal, bootstrap, reset: no transaction of a deployment is sent twice,
  every one is on record, the files of an environment speak of one deployment
  of one build, and a reset empties only the environment's own node;
* environment: a WAL stays with its database; nothing committed is lost but by
  a confirmed reset; without a marker the environment is whole; a schema is
  raised only after a safety copy;
* source audit: its verdict is about one chain, that of the anchor it reports;
* funding observation: a funding, once borne out by the rows, stays so.

## Modules

    VehicleNFT <- MotorCoveEscrow <- ProjectedEscrow <- MCProjectedEscrow
                     |  \ INSTANCE        | INSTANCE
                     |   Settlement      Projection
                     MCEscrow
    Indexer <- ProjectionMaintenance <- MCMaintenance
       |             | INSTANCE
       |         ReadModel
       \ MCIndexer
       \ SourceAudit <- MCSourceAudit
    BrowserJournal <- Submission <- MCSubmission
    SeedJournal <- Bootstrap <- MCBootstrap
    Environment <- MCEnvironment

    MotorCoveEscrow <- EscrowProofs <- ProjectedEscrowProofs
    Indexer <- IndexerProofs <- MaintenanceProofs, AuditProofs
    BootstrapProofs, EnvironmentProofs, SubmissionProofs: each of its module

`VehicleNFT`: owners and approvals. `Update` is the contract's `_update`
override, which keeps a direct transfer to the escrow out; the ERC-721
functions of the library around it are external.

`MotorCoveEscrow`: the contract's storage and its seven operations. A call to
the recipient of a token or of ether (`completeSale`, `withdrawPayment`,
`reclaimToken`) opens a frame when the recipient is a contract: `call` records
the operation, the events still to be emitted and the state to revert to. In an
open frame every action of the model that is not `nonReentrant` may happen, on
behalf of anybody, which is more than the recipient can do; then the frame
returns (`ReturnFromCall`, with the balance check) or everything since is undone
(`RevertCall`). A call from outside is one step unless a frame opens. A contract
account may make several such calls one after another in one transaction: they
are as many steps here, between which others may act, so whatever such a
transaction does the model does too, and one that reverts as a whole leaves what
no step would. `emitted` is what the latest such call has logged; the receipt of
a transaction is the logs of its calls in turn. `_safeMint`'s receiver hook is not a
frame: minting ends with it, so what a receiver does in it equals what it does
in its next call. Deployment is before `Init`: bootstrap binds the escrow
before anything is minted.

`Settlement`: the promise to the parties, without contracts or claims: token
and principal move together, once. `MotorCoveEscrow` maps its committed state
(that before an open frame) to it, and `KeepsPromise` says that this is a
refinement.

`Projection`: guards (`PaymentFault`, `SaleFault`) and updates of the
projectors; `CommitEvents` folds events in the order they were logged, and a
fault rolls the whole batch back. `ProjectedEscrow` feeds it with the logs of the
escrow call by call (events are folded one at a time, so how they are grouped
into receipts and batches matters only to what a fault rolls back, and there is
none) and defines reconciliation (`Differences`). The columns that name the
recipient of a token or a payment, which the contract does not store, are left out
of the comparison as in the code. `fundedAt`, which the code does compare, is left
out by the model: it is set with `expiresAt`, from which it differs by the
constant funding period, and `expiresAt` is compared.
`fundings` keeps every funding event indexed so far, and `ObserveFunding` is what
the reader concludes from such an event and the rows as they are now, which
later receipts (a completion, a withdrawal, a relisting) have rewritten.

`Indexer`: a block is the path from genesis to it, which makes hash, number and
parent of a block one value. A poll is a program counter and what it has read;
each read of the provider and each SQL transaction is an action, so the chain
may mine or reorganise, and the process may die, between any two. Exceptions
that raise the barrier, that are retried and that end the process are told
apart as in the code. Only the IMMEDIATE finality profile is modelled.
RPC_FINALIZED takes no depth, reads the finalized head by a second call, refuses
one above the observed head, reads the block of that height by a third, and
raises the barrier (FINALIZED_BLOCK_HASH_CHANGED, its name for every mismatch of
a hash) when the two disagree. `Lossy` lets the provider return part of
a block's logs; answers about another block than asked for do not occur, so the
RANGE_START_MISMATCH and LOG_BLOCK_HASH_MISMATCH paths are not reached.

`ProjectionMaintenance`: extends the indexer with the marker file and an
operation, each durable write of which is an action; `Crash` may follow any.
Catch-up of a reindex runs the indexer's own poll under a limit. `Damage` makes
stored events short or corrupt, as an edited file or a new decoder would.

`ReadModel`: what readers of rows and status are promised, without polls, markers
or commands: the rows of one branch, which grow with it; suspect from the moment
the branch is cut back under them to the rewrite that makes them its own again.
`ProjectionMaintenance` maps the checkpoint to the branch and the two statuses that
call for a repair to `suspect`; `KeepsReadModel` says that this is a refinement.

`BrowserJournal`: the entries of one immutable intent in localStorage, with
revisions, the overlay of each tab and the failures it remembers. `save` and
`retryDurableSave` await a lock, so the caller's reading and the journal's
check-and-write are separate steps; writing may fail at any time. Of an entry
the model keeps what decisions look at: revision, status, hash,
verification request, wallet outcome and whether the wallet request was started.

`Submission`: `submitOperation` as a program counter that holds the intent's
lock, the wallet, whose answer may come to a page that is gone, and
`resumeJournalEntry` run by the observers of all tabs under an operation's lock.
An entry is selected in one step and read again in a later one, as the observer
does. Transactions are named after the operation that sent them; they are
included, reverted, replaced, and orphaned by a reorganisation. A name stands for
the operation's transaction and for those that replace it, so a wallet's hash
that meets a stored one may be the same or another of that name, and
`persistReturnedHash` may or may not throw (`MergeHash`); that a replacement's
hash takes the place of the replaced one is not seen. Finality
evidence and `verificationAvailability` decide nothing here and are left out;
so are the projection fields of a funding and storage that cannot be read.

`SeedJournal`: the steps of `runStep` for one transaction after another:
PREPARED is saved, the transaction sent, its hash saved, its receipt saved. The
journal a run holds in memory is the file but for a hash not yet saved; every
other change is saved before anything is done about it, and a failed write ends
the run. Faults: a process dies, a run is refused the journal because it was
started with another account (`RefuseJournal`), `submit` throws with or without the
transaction mined, the first save of a hash fails, a node comes back empty, or
re-mines its last block. A step binds the build only if it deploys code, as the
intent digests do.

`Bootstrap`: extends it with what surrounds the journal: migration, the claim of
the node (`binding` is `managed-node.json`, which an interrupted write leaves
`Torn`), manifest, registration, catalog, catch-up to a fixed target, receipt;
and with reset and the recovery of one. Each file is published by a rename, so a
step of the model is one durable change. Deployment and target of the catch-up
are values, the catalog is a flag, and the indexer's checks are reduced to
whether the stored blocks are the node's (`OnBranch`); `Indexer` has the rest.

`Environment`: the same environment one level down, at its files. `main` is
`motorcove.sqlite` with an identity and its checkpointed content, `wal` the WAL
with the identity of the file it belongs to: SQLite would replay it into
whatever file lies beside it, so `Content` is that of the WAL when there is one.
Release r ships the migrations 1..r. Every command is a sequence of durable
steps (a rename, a SQL transaction, a write of the marker); the command may die
after each, and a power loss takes a copied snapshot that was not flushed. Stages of
the marker that no code reads are left out. The service, maintenance and
bootstrap locks are in the guards (`LocksFree`, `BootstrapFree`); `glance` is
the marker `recover` reads before it holds a lock, to decide which locks to
take. `latest` and `wiped` are history variables: what was last committed to a
file, and which files a reset removed. Bundles do not change once published, so
`VerifiedBackup` only asks what a release thinks of one.

`SourceAudit`: an audit beside the running indexer. The anchor is read and
confirmed, the range of the journal is read in one SQL snapshot, the blocks are
read one at a time from the second provider, the anchor is confirmed again and
the two are compared; between any two reads the chain and the indexer may
move. The second provider serves the same chain with a complete log index;
one audit is run.

## Runs

| Run | Instance | What it shows |
|---|---|---|
| `escrow` | 3 accounts, one a contract; 1 token, 2 sales, prices 1 and 2, one wei forced in; up to 4 events logged by a call | type, custody, liability, solvency, claims, and relisting only after the release is logged, at every depth of a call |
| `settlement` | 2 accounts, operator approvals, time to 2, `FairSpec` | refinement of `Settlement`; a funded sale resolves |
| `projection` | 3 accounts, 1 token, 2 sales, up to 5 events logged by a call | the projectors accept every order of events; reconciliation finds nothing; a funding stays borne out by the rows |
| `indexer` | 2 branches, 3 blocks, 2 reorganisations, depth 1, batches of 2, lossy logs | one branch, no false alarm, the barrier holds, the indexer catches up |
| `maintenance` | 2 branches, 2 blocks, 1 reorganisation, lossy logs, damage | the read model is whole without a marker, refinement of `ReadModel`, repair alone lifts a barrier, an interrupted reindex finishes |
| `submission` | 2 symmetric tabs, 2 operations, 2 verifications, 1 reload or reorganisation | one unresolved request, requests on record, evidence kept |
| `bootstrap` | 2 environments, 2 nodes, 1 build, 2 transactions a deployment, 7 blocks, 1 fault, 1 reset, symmetry | no transaction sent twice, all on record, files of one deployment, a reset spares the others |
| `bootstrap_rerun` | 2 environments, 1 node, 2 builds, 5 blocks, 1 fault, 1 reset, `FairSpec` | one build to a deployment; an interrupted bootstrap completes when it is run again; a reset is finished |
| `environment` | 2 releases, 2 commits, 1 backup by hand, 3 operations, 3 faults, `FairSpec` | every WAL with its database, nothing lost, whole without a marker, safety copy, what is moved aside comes back |
| `audit` | 2 branches, 2 blocks, 2 reorganisations, depth 0, lossy logs, symmetry | a verdict is about the chain of its anchor |
| `environment_older` | 1 commit, 2 operations, 1 fault, `FairSpec` | expected to fail: a disagreement of code and documentation, below |
| `maintenance_reacquire` | as `maintenance` | expected to fail: likewise |

Two sales of one token are needed for a relisting and suffice for a third to
show nothing new: an operation looks at one sale and its token. One contract
account that may act as any party's recipient shows all re-entry, since frames
do not nest: all three opening operations are `nonReentrant`. Two branches of
three blocks with depth 1 and batches of two have the split range, the range
that spans a reorganisation, the reorganisation back to the first branch and the
target below the checkpoint. Maintenance adds states, so its chain has two
blocks: a rewind in the middle, a replay and a catch-up still all occur.
`CHECK_DEADLOCK FALSE` in the indexer's and maintenance's configurations: behind
the barrier the indexer stops by design, and so does maintenance when its
target has left the chain.

Two operations are what the claim on an intent is about; two verifications are
needed for one to supersede another, two tabs for stale overlays. One reload or
one reorganisation in a behaviour keeps the run to seven million states; with
two (`MaxMishaps = 2`) the properties also hold. Symmetry of the tabs is sound
because the run has no liveness property. `OwnCandidates` assumes that a hash a
user supplies is of the operation's own request. Without it, and with three
operations, TLC finds an older reverted transaction of the same intent
resolving a later operation, which frees the intent while the later transaction
is pending: intent equality cannot tell the two apart. `CHECK_DEADLOCK FALSE`
there, because all bounds may be used up.

A deployment of two transactions has both kinds of step that matter: both deploy
code, the second depends on the first, and the last of them is also the one that
`SaleIndexed` looks for; a third would be one more of the same loop. Seven
blocks let two environments deploy, one of them twice, with a re-mined block.
Two environments and two nodes are needed for a claim on another's node and
for a rebinding; two builds and one node for a rerun with another build. The
liveness run has one node, since a second only adds refusals.

Three operations let a marker be met by two commands it was not written for,
and three faults let a restore die, its recovery die, and the release change.
Two commits tell a stale WAL from the last one. In `audit`, with depth 0 the
journal reaches the tip, and two reorganisations let the chain leave the
anchor's branch and come back. `AuditTellsTruth` assumes that the chain has
not left its branch twice since the anchor was fixed: without that TLC finds an
audit whose blocks are read from the other branch while both confirmations see
the anchor. The code documents no more than that the anchor is read again.
`CHECK_DEADLOCK FALSE` in `audit`, because the indexer may end behind its
barrier with the audit reported, and in `environment_older`, which has few
operations to use up.

### Fairness

`settlement`: frames end because gas does; blocks keep coming (`Tick`); an
account that keeps sending an admissible transaction has it included, hence
strong fairness of expiry (open to anyone), of a withdrawal and of a reclaim to
an address without code. Nobody is obliged to fund, complete or cancel.

`indexer`: `WF(Quiet)`. The process is one sequential loop, and a supervisor
starts it again; `CatchesUp` is only about behaviours in which the chain and
the provider are eventually quiet.

`maintenance`: `WF(Upkeep)`. The operation is sequential code, and an operator
reruns the command the marker names. `ReindexFinishes` names where that does
not help (`Blocked`): the target is before the first block of the scan (no
progress can be made), the target or the stored branch below it has left the
chain (a new target is documented as an operator's decision), the rewind starts
above what is damaged, or stored logs were too few (a finding).

`bootstrap_rerun`: a command that runs makes progress (`WF` of its steps: it is
sequential code, and the node answers). The operator runs `recover` while a
marker allows it, and bootstrap again and again with every build and node there
is: strong fairness, because a lock held by another command makes the attempt
fail now and then. Faults, a run refused for its account among them, are bounded:
an operator does not start it with the wrong account for ever. `Blocked` names the
states the documents leave to the
operator: an unknown or reverted transaction, a node that lost the deployment,
blocks that are no longer the node's, a torn binding, a reset.

`environment`: `WF` of each command's steps, of the two steps with which the
operator runs `recover`, and `SF` of `db:migrate` from the command line. Nobody
is obliged to restore, reset, back up or bootstrap.

### Disagreements between the code and its documents

Two are runs of the project, which TLC must refute:

* A restore refused as too old (`environment_older`). The RESTORE marker is
  written before the staged snapshot is verified, and the refusal leaves it. No
  command but a reset then clears it: `db:migrate` and another restore refuse
  a marker that is not theirs, and `recover --complete` verifies the active
  database against the current schema. The runbook says that such a snapshot is to
  be upgraded through the migration workflow.
* Missing logs stay missing (`maintenance_reacquire`): a full reindex refuses
  the logs that complete a block once stored with too few.

Six more have a configuration each that a reader can run by hand, and TLC
refutes each; `PROJECT.json` does not list them:

* `CURRENT` without the target's hash (`MCIndexerCurrent.cfg`): a reorganisation
  between the checkpoint's check and the target's read, at equal heights, makes
  an idle poll publish `CURRENT` for a block that is no longer canonical. The
  next poll raises the barrier. ADR 0026 requires the validated target.
* A rebuild that cannot be rerun (`MCMaintenanceRerun.cfg`): a crash between the
  barrier and the FAILED marker leaves a state that admits neither a rebuild
  nor a reindex. The runbook says to rerun the rebuild.
* `CURRENT` from a replay (`MCMaintenanceCurrentness.cfg`): a local rebuild, and
  a reindex after its rewind, set `CURRENT` without reading the chain.
* A refusal taken back (`MCSubmissionRefusal.cfg`): an observer that selected an
  entry before the refusal was stored makes it `UNKNOWN`; the intent is blocked
  although nothing was sent. The lifecycle document permits a fresh operation.
* A hash lost in its tab (`MCSubmissionHash.cfg`): a verification whose write
  fails late puts its older copy over the returned hash kept in memory. The
  wallet document promises continued observation in the tab.
* A reset recovered without the bootstrap lock (`MCEnvironmentRecover.cfg`):
  `recover` takes that lock only if the marker it read before locking was that
  of a reset. A reset that begins and dies in between is then recovered without
  it. The runbook (backup-restore-and-recovery.md:103-105) says that the deletion
  is finished under exclusive bootstrap ownership. The safety properties of the
  environment hold all the same, since the run of `recover` in them includes this.

### Observed while modelling

No document says otherwise, so no property is violated; an operator may want to
know:

* A reset that dies with the marker PREPARED, and a restore begun when there is no
  database, leave a marker that only another reset clears.
* A bootstrap interrupted between journal and receipt has no complete set of
  sidecars. If the release is changed then, the migration wants a safety backup,
  which refuses such a set; the old release has to finish the bootstrap first.
* `managed-node.json` is created and then written. A crash in between leaves a
  file that stops every environment of the workspace until it is removed.
* `registerDeployment` takes the maintenance locks and does not look at the
  marker; the steps after it do.

## Proofs

Eight modules hold the proofs, one for each component or question. Every theorem is
for all values of the constants: any sets of users, contracts, prices, nodes,
environments, builds and branches, any bounds, batch sizes, depths and numbers of
steps. The runs show the same properties on small instances.

What the proofs assume is named in the module that declares the constants, and
TLC evaluates it on every run: `NftAssumption` and `EscrowAssumption` (the escrow and
nobody are no users, contracts are, prices and the funding period are positive), `SeedAssumption` and
`BootstrapAssumption` (a deployment has at least two steps, a torn binding is no
node), `IndexerAssumption`, `EnvironmentAssumption` (bounds are numbers), and
`NullAssumption` in `Bootstrap`, `Environment`, `Indexer` and `Submission`: the value
for "no file", "no block" or "no entry" is none of the files, blocks or entries; `NoRowAssumption`, `NoMarkerAssumption`
and `NoReportAssumption` say that of the rows of `ProjectedEscrow`, the marker of
`ProjectionMaintenance` and the reports of `SourceAudit`, and `DamageAssumption` names the
two kinds of damage.

| Theorem | States |
|---|---|
| `EscrowProofs!TypeCorrect` | `[]TypeOK` |
| `EscrowProofs!Solvency`, `CustodySafe`, `OutcomeSafe` | `[]SurplusWasForced`, `[]CustodyMatchesSales`, `[]ClaimsFollowOutcome` |
| `EscrowProofs!LastSaleHolds`, `RelistedSafely` | `[]Relisting` (the invariant), `[]RelistedAfterRelease` |
| `EscrowProofs!LiabilityCorrect` | `[]LiabilityIsOwed` |
| `EscrowProofs!PromiseKept` | `Spec => KeepsPromise`: the refinement of `Settlement` |
| `ProjectedEscrowProofs!ReceiptsAccepted` | `[]ProjectorsAcceptReceipts` |
| `ProjectedEscrowProofs!Reconciled`, `FundingsStand` | `[]ReconciliationMatches`, `[]FundingStaysConsistent` |
| `IndexerProofs!TypeCorrect`, `BuiltFromOneBranch`, `AlarmIsTrue` | `[]TypeOK`, `[]OneBranch`, `[]NoFalseAlarm` |
| `IndexerProofs!BarrierStands` | `BarrierHolds`, an action property |
| `MaintenanceProofs!MaintenanceTyped`, `UnmarkedCorrect`, `TornFlagged` | `[]MaintenanceTypeOK`, `[]UnmarkedIsOneBranch`, `[]TornIsFlagged` |
| `MaintenanceProofs!BarrierLifted` | `BarrierLiftedByRepair`, an action property |
| `MaintenanceProofs!ReadModelKept` | `MaintenanceSpec => KeepsReadModel`: the refinement of `ReadModel` |
| `AuditProofs!ReportIsTrue` | `[]AuditTellsTruth` |
| `BootstrapProofs!TypeCorrect`, `OnlyOnce`, `OnRecordAlways` | `[]TypeOK`, `[]SentOnce`, `[]TransactionsOnRecord` |
| `BootstrapProofs!BuildIsOne`, `OneDeployment` | `[]OneBuild`, `[]LocalStateIsOneDeployment` |
| `BootstrapProofs!OthersSpared` | `ResetSparesOthers`, an action property |
| `EnvironmentProofs!TypeCorrect`, `WalNeverForeign`, `NothingEverLost`, `UnmarkedAlwaysWhole` | `[]TypeOK`, `[]MatchedGeneration`, `[]NothingLost`, `[]UnmarkedIsWhole` |
| `EnvironmentProofs!SchemaRaisedUnderCopy` | `SafetyCopy`, an action property |
| `SubmissionProofs!TypeCorrect`, `RequestsAreOnRecord`, `EvidenceOutranks` | `[]TypeOK`, `[]RequestIsOnRecord`, `[]EvidenceOutranksOutcome` |
| `SubmissionProofs!StoredHashesStay`, `OneRequestUnresolved` | `StoredHashStays`, `OneUnresolvedRequest`, action properties, with `OwnCandidates` as in the run |

Each rests on an inductive invariant, which TLC checked on the run of the module
before it was proved, and a lemma for every action. The arguments:

*Escrow* (`Inductive`). A revert restores the state saved in a frame, so no invariant
of the current state alone is inductive: `IInv` says the same of the saved state. It
joins solvency, custody and claims because each needs another's facts: a sale
that holds a token must have an active custody entry before its completion can
clear it, and a claim must not exist before the outcome creates it.

*Relisting* (`Relisting`). Of the sales of a token only the last can hold it, in
the current state and in the one a frame may be reverted to: a new sale takes a
token that no sale holds and the largest id. A reclaim that waits for its
recipient is of the last sale of its token, and stays so until it has logged its
event, since no listing is made in a frame. Nothing is said of receipts: a
contract account may list a token and reclaim it again in one transaction.

*Liability.* `LiabilityIsOwed` is a sum over the sales, folded from a set by the
community modules. `Least` (a set of naturals that is not empty has a least
element) takes the place of induction over data: a smallest set on which two sums
differ by more than their one differing term has a smaller one in it. With that,
each action changes the sum as it changes `totalLiability`.

*Promise.* A deal is a function of one sale and its claim, so an operation on one
sale is a step of one deal. `Pending` is what a frame adds: the committed state does
not show yet what the open call has done, and that is one step of
`Settlement` exactly, whatever nested calls do, until the frame returns and shows
it or the revert shows nothing.

*Read model* (`MirrorsContracts`). Between calls the rows mirror the
contracts. In a frame the rows mirror the saved state, and folding the events
emitted so far would lead to the state with what the call has already told; the
closing event makes up for the rest. So every order in which nested calls log
their events is accepted. A fold over a sequence is unfolded one event at a time, by
the same argument as a sum. Reconciliation and the observation of a funding
follow from the mirror.

*Indexer* (`Inductive`). What a poll has read is tied to what is stored: the
checkpoint is not moved under it (`CheckpointHeld`), a batch has one header at most
for a height and after the anchor read is joined from the checkpoint (`Batch`,
`Joined`), so the commit extends one branch whatever reorganised between the
reads. `Undisturbed` is the part for `NoFalseAlarm`: while the chain has only
grown, all that was read is still on it.

*Maintenance* (`MInv`). The stored blocks are a path to the checkpoint at all
times (`Held`): a commit extends it (`Extension`, shared with the indexer, since `Reads`
is what a poll rests on whoever runs it), a rewind leaves the path to the previous
row (`Rewound`), a refresh the empty one. The rows follow that path except between the
rewind and the replay (`RowsBehind`), and the replay puts its blocks in the order of the
path (`Replayed`). What makes this inductive over crashes is the phase in the marker:
`PREPARING` is written before the rewind and `CATCHING_UP` only after the replay, so
whatever is resumed replays before anyone polls (`Agreement`, `Locked`). Hence every
poll, the operation's own included, starts from whole rows, and all its steps are one
kind of step (`PollStep`). A rebuild is admitted by the reason of the barrier, and nobody
writes the status between that and its replay (`Rebuilding`), which is why only the
barrier of the projectors falls to one. The refinement then has little left to show:
a commit extends branch and rows together, a rewind cuts the branch back and warns, the
replay rewrites the rows, and of every other step `TornIsFlagged` in its next state
says that it warns, or that there is nothing to warn of (`StatusShown`).

*Audit* (`AuditIInv`). Until the chain leaves the branch of the anchor, every block read
from the second provider is below the anchor on it. After the one fork that the
property allows, the chain only grows: if it is of one line with the anchor when the
anchor is read again, then that line holds all that was read between. So two reads of
the anchor suffice for one reorganisation; for two they do not (see above). The
journal's range is one snapshot, so nothing has to hold it together.

*Bootstrap* (`Inductive`). Every transaction is on record, with its hash or as a step
that may not be sent again; the environment of a record is the only one bound to
its node; a step about to be sent is nowhere on the node (`HashSound`); and a
step is in the journal only after all before it have succeeded. The files come
after: manifest, database and receipt each of the deployment in the journal, and
the stored blocks the node's own past (`SamePast`). While a marker is present the
environment is half cleared, and `LocalStateIsOneDeployment` is about
environments without one: a second reset may begin over what an interrupted one
left, so the phase of the marker would not do as its premise.

*Environment* (`Inductive`). It says where the files can be for every marker and
every step of a command: the last commit to a file is in place with its WAL, in the
quarantine of the operation the marker names, or split between the two by an
interrupted restore (`Restoring`); what a migration may count on in its bundles
(`Archive`); and which command holds what (`Control`, `Booting`). A crash leaves the
files as they are and ends the command, so the invariant is over the files and the
marker first, and over the command only where it knows more.

*Submission* (`Inductive`). Of an operation three facts only grow (`Facts`): its request
was rejected, none will be made, its transaction failed. Every entry, in storage, in
a tab or about to be written, is `Good`: it says no more than these. The rest is
about copies. Storage goes forward (`Later`): a new revision keeps the request and the
hash of the old one (`Descends`). What a tab keeps in memory (`Based`) or an observer
is about to write (`Copy`, `CheckSound`) descends from what is stored as long as the
revision it is compared with is still the stored one; so whichever of the delayed
writes passes the comparison takes nothing back. A submission past its ownership
check has the premise that every other operation `CameToNothing`, and nothing that
happens meanwhile revokes it. `OwnCandidates` is needed for the two action properties
only: with another operation's hash two hashes may compete for one entry through
the second write of `hashAgain`, and an older reverted transaction frees the intent
(the hazard in `PROJECT.json`). The other three are proved without it.

`tlapm` checks each module in between half a minute and four minutes.

Model-checked only:

* liveness (`FundedSalesResolve`, `CatchesUp`, `ReindexFinishes`,
  `InterruptedBootstrapCompletes`, `ResetFinishes`, `MovedComesBack`): fairness and
  `ENABLED` are out of the prover's reach;
* the two properties that runs refute.

Every invariant and every action property of the passing runs is proved.

## Not modelled

Pages, wallet wiring, schema text and generated code have no protocol state of
their own. The API and the reader's lists, freshness and status records are
single queries over what `Indexer` keeps. Bytes of ABI encoding, log decoding,
JSON and checksums are abstracted to records; the audit's endpoint identity
checks and digests likewise. The catalog's rows and assets are one flag, and
endpoints are node names (canonicalisation is left out). Not modelled yet: the
finality profile RPC_FINALIZED, finality evidence of the browser's observers, and
storage that cannot be read. An archive that a reindex takes before it
refreshes its source is not part of `Environment`, whose bundles are those
made by hand and before a migration.

## Plan

1. (done) Escrow, its promise, proofs; projection; indexer; maintenance.
2. (done) `BrowserJournal`, `Submission`: at most one unresolved wallet request
   per intent. Left: finality evidence, the projection fields of a funding.
3. (done) `SeedJournal`, `Bootstrap`: at most one submission per step across
   crashes, resumption, reset.
4. (done) `Environment`: migrate, backup, restore, reset, recover with crashes.
5. (done) `SourceAudit`; the observation of a funding in `ProjectedEscrow`.
6. (done) Proofs for the escrow, the settlement, the read model, the indexer,
   bootstrap, the environment and the submission.
7. (done) Proofs for maintenance, on the lemmas of `IndexerProofs`, and for the audit;
   `ReadModel`, and maintenance shown to implement it.
