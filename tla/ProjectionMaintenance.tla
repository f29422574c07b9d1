----------------------- MODULE ProjectionMaintenance -----------------------
(***************************************************************************)
(* Rebuild and reindex of the projection (runProjectionMaintenance and the *)
(* two commands that use it) beside the indexer they exclude: the marker   *)
(* file, the durable writes of an operation in their order, its failure    *)
(* handler, a crash between any two of them, and the resumed command.      *)
(*                                                                         *)
(* One operation at a time holds the maintenance lock, and no indexer runs *)
(* beside it.  Deployment, schema and log scope always match; the archive  *)
(* a source refresh demands is always made.                                *)
(***************************************************************************)
EXTENDS Indexer

CONSTANT Damages  \* what may befall stored events: "short" (lost) and "corrupt"

ASSUME DamageAssumption == Damages \subseteq {"short", "corrupt"}

Reasons == {Null, "CHECKPOINT_BLOCK_UNAVAILABLE", "CHECKPOINT_HASH_CHANGED",
            "CHECKPOINT_EXCEEDS_ELIGIBLE_TARGET", "PARENT_DISCONTINUITY", "RANGE_ANCHOR_CHANGED",
            "PROJECTOR_INTEGRITY", "CHAIN_TRANSPORT_UNAVAILABLE", "REINDEX_REQUESTED",
            "SOURCE_REFRESH_REINDEX_REQUESTED", "REBUILD_SOURCE_INCOMPLETE", "REBUILD_FAILED"}
Kinds == {"REBUILD", "REINDEX"}

\* A reindex names its first block and its target; a rebuild has neither.
Markers == [type : Kinds, stage : {"PREPARED", "ACTIVE", "FAILED"}, incomplete : BOOLEAN,
            phase : {"NONE", "PREPARING", "CATCHING_UP"}, from : 0..MaxHeight,
            target : Blocks \cup {Genesis}]

\* No marker is none of them.
ASSUME NoMarkerAssumption == Null \notin Markers

VARIABLES
    marker,  \* the maintenance marker file, or Null
    op       \* the running operation

allVars == <<vars, marker, op>>
indexer == <<store, status, reason, poll>>

\* `barrier` is recoveryBarrierReason, `number` the target before its hash is known.
Idle == [pc |-> "idle", type |-> "REBUILD", from |-> 0, number |-> 0,
         target |-> Genesis, barrier |-> Null, incomplete |-> FALSE]

MaintenanceInit == Init /\ marker = Null /\ op = Idle

Step(pc) == op' = [op EXCEPT !.pc = pc]

-----------------------------------------------------------------------------
(* The command, up to its own marker.                                      *)

Free == op.pc = "idle" /\ poll.pc = "stopped"
BarrierReason == IF status = "RECOVERY_REQUIRED" THEN reason ELSE Null

\* Fault: a rebuild is admitted whatever the barrier stands for.
RebuildAlwaysAllowed == TRUE

RebuildAllowed == status = "RECOVERY_REQUIRED" => reason = "PROJECTOR_INTEGRITY"

BeginRebuild ==
    /\ Free /\ RebuildAllowed
    /\ marker # Null => marker.type = "REBUILD"
    /\ op' = [Idle EXCEPT !.pc = IF marker = Null THEN "prepare" ELSE "activate",
                          !.barrier = BarrierReason]
    /\ UNCHANGED <<chainVars, indexer, marker>>

\* A rebuild that failed for want of source hands over to a full reindex.
Transition(from) ==
    /\ marker # Null
    /\ marker.type = "REBUILD" /\ marker.stage = "FAILED" /\ marker.incomplete /\ from = 1

\* A new reindex first fixes its target: the number from the head, ...
BeginReindex ==
    /\ Free
    /\ IndexingDepth <= Len(tip)
    /\ \E from \in 1..MaxHeight :
          /\ marker = Null \/ Transition(from)
          /\ op' = [Idle EXCEPT !.pc = "resolve", !.type = "REINDEX", !.from = from,
                                !.number = Len(tip) - IndexingDepth, !.barrier = BarrierReason]
    /\ UNCHANGED <<chainVars, indexer, marker>>

\* ... then the block at that number, read twice; no mark is left of a failure.
ResolveTarget ==
    /\ op.pc = "resolve"
    /\ \/ /\ HasBlock(op.number)
          /\ op' = [op EXCEPT !.pc = "prepare", !.target = BlockAt(op.number)]
       \/ op' = Idle
    /\ UNCHANGED <<chainVars, indexer, marker>>

OnChain(b) == HasBlock(Len(b)) /\ BlockAt(Len(b)) = b

\* The same command again keeps the target, which must still be canonical.
ResumeReindex ==
    /\ Free
    /\ marker # Null
    /\ marker.type = "REINDEX" /\ OnChain(marker.target)
    /\ op' = [Idle EXCEPT !.pc = "activate", !.type = "REINDEX", !.from = marker.from,
                          !.target = marker.target, !.barrier = BarrierReason]
    /\ UNCHANGED <<chainVars, indexer, marker>>

WritePrepared ==
    /\ op.pc = "prepare"
    /\ marker' = [type |-> op.type, stage |-> "PREPARED", incomplete |-> FALSE,
                  phase |-> "NONE", from |-> op.from, target |-> op.target]
    /\ Step("activate")
    /\ UNCHANGED <<chainVars, indexer>>

\* Fault: any reindex that got as far as its phase is past the replay.
AfterActiveNoReplay ==
    IF op.type = "REINDEX" THEN IF marker.phase = "NONE" THEN "phase" ELSE "catching"
    ELSE "replay"

\* Only a reindex already catching up does not rewind again.
AfterActive ==
    IF op.type = "REINDEX" /\ marker.phase # "CATCHING_UP" THEN "phase" ELSE "replay"

WriteActive ==
    /\ op.pc = "activate"
    /\ marker' = [marker EXCEPT !.stage = "ACTIVE", !.incomplete = FALSE]
    /\ Step(AfterActive)
    /\ UNCHANGED <<chainVars, indexer>>

-----------------------------------------------------------------------------
(* The rewind and the replay.                                              *)

RecordPreparing ==
    /\ op.pc = "phase"
    /\ marker' = [marker EXCEPT !.phase = "PREPARING"]
    /\ Step("rewind")
    /\ UNCHANGED <<chainVars, indexer>>

\* Fault: the rewind does not say that the rows are behind it.
ReindexUnmarked(why) == UNCHANGED <<status, reason>>

\* markReindexStarted
ReindexStarted(why) ==
    IF status = "RECOVERY_REQUIRED" THEN UNCHANGED <<status, reason>>
    ELSE status' = "REBUILD_REQUIRED" /\ reason' = why

Highest(blocks) ==
    CHOOSE b \in blocks \cup {Genesis} : \A c \in blocks : Len(c) <= Len(b)

\* Fault: the previous row may be one that was left behind.
PreviousStored(from) == Highest({b \in Blocks : journal[b] # "absent" /\ Len(b) < from})

Previous(from) == Highest({b \in canonical : Len(b) < from})

\* Contradictory content needs all of the source again; a missing row does not.
RequiresSourceRefresh == \E b \in Blocks : journal[b] = "corrupt"

RewindFrom ==
    /\ op.pc = "rewind" /\ ~ RequiresSourceRefresh
    /\ canonical' = {b \in canonical : Len(b) < op.from}
    /\ checkpoint' = Previous(op.from)
    /\ ReindexStarted("REINDEX_REQUESTED")
    /\ Step("replay")
    /\ UNCHANGED <<chainVars, journal, rows, poll, marker>>

RefreshSource ==
    /\ op.pc = "rewind" /\ RequiresSourceRefresh
    /\ \/ /\ op.from = 1
          /\ journal' = [b \in Blocks |-> "absent"]
          /\ canonical' = {} /\ checkpoint' = Genesis
          /\ ReindexStarted("SOURCE_REFRESH_REINDEX_REQUESTED")
          /\ Step("replay")
          /\ UNCHANGED <<chainVars, rows, poll, marker>>
       \/ /\ op.from # 1
          /\ Step("failed")
          /\ UNCHANGED <<chainVars, indexer, marker>>

\* verifyRebuildSource
SourceVerified ==
    /\ IF checkpoint = Genesis THEN canonical = {}
       ELSE {b \in canonical : Len(b) <= Len(checkpoint)} = Ancestry(checkpoint)
    /\ \A b \in canonical : journal[b] \in {"complete", "partial"}

PreservesBarrier == op.type = "REINDEX" /\ status = "RECOVERY_REQUIRED"

\* rebuildFromJournal: the rows again from the canonical blocks, as one
\* transaction; without a barrier to preserve it ends in CURRENT.
Replay ==
    /\ op.pc = "replay" /\ SourceVerified
    /\ rows' = InOrder(canonical)
    /\ IF PreservesBarrier THEN UNCHANGED <<status, reason>>
                           ELSE status' = "CURRENT" /\ reason' = Null
    /\ Step(IF op.type = "REINDEX" THEN "catching" ELSE "complete")
    /\ UNCHANGED <<chainVars, journal, canonical, checkpoint, poll, marker>>

ReplayFails ==
    /\ op.pc = "replay"
    /\ \/ /\ ~ SourceVerified
          /\ reason' = "REBUILD_SOURCE_INCOMPLETE"
       \/ /\ SourceVerified /\ \E b \in canonical : journal[b] = "partial"
          /\ reason' = "REBUILD_FAILED"
    /\ status' = "RECOVERY_REQUIRED"
    /\ op' = [op EXCEPT !.pc = "failed", !.incomplete = ~ SourceVerified]
    /\ UNCHANGED <<chainVars, store, poll, marker>>

-----------------------------------------------------------------------------
(* A reindex catches up with its target.                                   *)

RecordCatchingUp ==
    /\ op.pc = "catching"
    /\ marker' = [marker EXCEPT !.phase = "CATCHING_UP"]
    /\ Step("catchup")
    /\ UNCHANGED <<chainVars, indexer>>

\* Fault: the target itself is not far enough.
PassedTarget == Len(checkpoint) > Len(op.target)

ReachedTarget == checkpoint # Genesis /\ Len(checkpoint) >= Len(op.target)

\* catchUpToReindexTarget before a poll, ...
CatchUp ==
    /\ op.pc = "catchup" /\ poll.pc = "stopped"
    /\ \/ /\ ReachedTarget
          /\ Step("complete")
          /\ UNCHANGED <<chainVars, indexer, marker>>
       \/ /\ ~ ReachedTarget
          /\ poll' = Poll("begin", TRUE, Len(op.target))
          /\ UNCHANGED <<chainVars, store, status, reason, marker, op>>

\* ... and after it: the checkpoint must have moved.
PollEnds ==
    /\ op.pc = "catchup" /\ poll.pc \in {"done", "thrown", "unreachable"}
    /\ poll' = Poll("stopped", FALSE, MaxHeight)
    /\ Step(IF poll.pc = "done" /\ Len(checkpoint) > Len(poll.checkpoint) THEN "catchup" ELSE "failed")
    /\ UNCHANGED <<chainVars, store, status, reason, marker>>

\* completeReindexRecovery; a rebuild has nothing to complete.
Complete ==
    /\ op.pc = "complete"
    /\ IF op.type = "REBUILD" THEN Step("clear") /\ UNCHANGED <<status, reason>>
       ELSE IF op.target \in canonical
       THEN status' = "SYNCING" /\ reason' = Null /\ Step("clear")
       ELSE Step("failed") /\ UNCHANGED <<status, reason>>  \* REINDEX_CATCHUP_INCOMPLETE
    /\ UNCHANGED <<chainVars, store, poll, marker>>

\* An operation that found a barrier must have lifted it.
Postcondition == op.barrier # Null => status \in {"CURRENT", "SYNCING"} /\ reason = Null

ClearMarker ==
    /\ op.pc = "clear"
    /\ IF Postcondition THEN marker' = Null /\ op' = Idle
                        ELSE Step("failed") /\ UNCHANGED marker
    /\ UNCHANGED <<chainVars, indexer>>

-----------------------------------------------------------------------------
(* Failure and crash.                                                      *)

\* The handler puts the barrier back, ...
RestoreBarrier ==
    /\ op.pc = "failed"
    /\ IF op.barrier # Null /\ status # "RECOVERY_REQUIRED"
       THEN status' = "RECOVERY_REQUIRED" /\ reason' = op.barrier
       ELSE UNCHANGED <<status, reason>>
    /\ Step("mark")
    /\ UNCHANGED <<chainVars, store, poll, marker>>

\* ... then writes the failure into the marker.
WriteFailed ==
    /\ op.pc = "mark"
    /\ marker' = [marker EXCEPT !.stage = "FAILED", !.incomplete = op.incomplete]
    /\ op' = Idle
    /\ UNCHANGED <<chainVars, indexer>>

Crash ==
    /\ op.pc # "idle"
    /\ op' = Idle
    /\ poll' = Poll("stopped", FALSE, MaxHeight)
    /\ UNCHANGED <<chainVars, store, status, reason, marker>>

\* Stored events are lost or no longer what was decoded (an edited file, a new
\* decoder); one block at a time, and not under an operation's feet.
Damage ==
    /\ Free /\ marker = Null
    /\ \A b \in Blocks : journal[b] \notin Damages
    /\ \E b \in Blocks, d \in Damages :
          /\ journal[b] = "complete"
          /\ journal' = [journal EXCEPT ![b] = d]
    /\ UNCHANGED <<chainVars, canonical, rows, checkpoint, status, reason, poll, marker, op>>

-----------------------------------------------------------------------------
(* The whole.                                                              *)

Operation ==
    \/ ResolveTarget \/ WritePrepared \/ WriteActive \/ RecordPreparing \/ RewindFrom
    \/ RefreshSource \/ Replay \/ ReplayFails \/ RecordCatchingUp \/ CatchUp \/ PollEnds
    \/ Complete \/ ClearMarker \/ RestoreBarrier \/ WriteFailed
    \/ poll.maintenance /\ Ingest /\ UNCHANGED <<marker, op>>

\* The indexer runs while no operation does and no marker is left.
IndexerSteps ==
    /\ UNCHANGED <<marker, op>>
    /\ \/ op.pc = "idle" /\ marker = Null /\ StartWorker
       \/ ~ poll.maintenance /\ Ingest
       \/ NextPoll \/ RetryUnreachable \/ WorkerEnds \/ WorkerKilled

Surroundings == UNCHANGED <<marker, op>> /\ (Mine \/ Reorg \/ ProviderFailure)

MaintenanceNext ==
    \/ Operation \/ BeginRebuild \/ BeginReindex \/ ResumeReindex
    \/ IndexerSteps \/ Surroundings \/ Crash \/ Damage

MaintenanceSpec == MaintenanceInit /\ [][MaintenanceNext]_allVars

\* The operator resumes what the marker names, and it is left to run.
Upkeep == Operation \/ ResumeReindex
FairMaintenanceSpec == MaintenanceSpec /\ WF_allVars(Upkeep)

-----------------------------------------------------------------------------
(* Properties.                                                             *)

OpSteps == {"idle", "resolve", "prepare", "activate", "phase", "rewind", "replay", "catching",
            "catchup", "complete", "clear", "failed", "mark"}
Operations == [pc : OpSteps, type : Kinds, from : 0..MaxHeight, number : 0..MaxHeight,
               target : Blocks \cup {Genesis}, barrier : Reasons, incomplete : BOOLEAN]

\* The type of the state; the checkpoint's row is always there to be read; a
\* poll under the lock is the operation's.
MaintenanceTypeOK ==
    /\ tip \in Blocks \cup {Genesis} /\ forks \in 0..MaxForks
    /\ journal \in [Blocks -> {"absent", "partial", "complete"} \cup Damages]
    /\ canonical \subseteq Blocks /\ rows \in Seq(Blocks)
    /\ status \in {"UNINITIALIZED", "SYNCING", "CURRENT", "STALE", "REBUILD_REQUIRED",
                   "RECOVERY_REQUIRED"}
    /\ reason \in Reasons
    /\ poll \in Polls /\ marker \in Markers \cup {Null} /\ op \in Operations
    /\ checkpoint \in canonical \cup {Genesis}
    /\ poll.maintenance <=> op.pc = "catchup" /\ poll.pc # "stopped"

\* Without a marker the read model is that of one chain up to its checkpoint:
\* whatever was rewound, replayed, interrupted and resumed before
\* (runProjectionMaintenance clears the marker last).
UnmarkedIsOneBranch == marker = Null => OneBranch

\* What tells a reader not to rely on the rows.
Suspect == status \in {"REBUILD_REQUIRED", "RECOVERY_REQUIRED"}

\* Rows that the stored blocks no longer bear out are marked as such, from the
\* transaction of the rewind to that of the replay, over every failure, crash
\* and resumption between them (markReindexStarted); readers that go by the
\* status never take them for a projection in order.
TornIsFlagged ==
    rows # Chain(checkpoint) => Suspect

\* The read model as its readers see it is that of module ReadModel: rows of one
\* branch that grow with it, suspect from the transaction that rewinds the
\* branch under them to the one that replays them or to a completed reindex,
\* over every failure, crash and resumption in between.
Shown == INSTANCE ReadModel WITH branch <- checkpoint, suspect <- Suspect
KeepsReadModel == Shown!Spec

\* A barrier is lifted by its repair: by a rebuild when only the projectors
\* were suspect, otherwise by a reindex whose target the read model has reached
\* (RECOVERY_REQUIRED is never overwritten, completeReindexRecovery).
BarrierLiftedByRepair ==
    [][status = "RECOVERY_REQUIRED" /\ status' # "RECOVERY_REQUIRED" =>
         /\ rows' = Chain(checkpoint')
         /\ reason # "PROJECTOR_INTEGRITY" =>
               op.type = "REINDEX" /\ op.target \in Ancestry(checkpoint')]_allVars

\* Where a resumed reindex is blocked for good: its target lies before the
\* first block of the scan, or left the chain, or what was stored below the
\* target did; or stored logs were too few, or the rewind stops above damage.
Blocked ==
    \/ marker.target = Genesis
    \/ ~ OnChain(marker.target) \/ ~ OnChain(checkpoint)
    \/ \E b \in Blocks :
          \/ journal[b] = "partial"
          \/ journal[b] = "corrupt" /\ marker.from > 1
          \/ journal[b] = "short" /\ Len(b) < marker.from

\* Once left in quiet, and resumed when it failed, an interrupted reindex ends
\* with its marker cleared, wherever it was interrupted.
ReindexFinishes ==
    <>[][Upkeep]_allVars =>
        []<>(marker = Null \/ marker.type = "REBUILD" \/ Blocked)

\* "Stop the runtime and rerun the same rebuild command" (the projection
\* runbook): the policy admits the command an interrupted rebuild needs.
InterruptedRebuildMayRerun ==
    marker # Null /\ Free =>
        (marker.type = "REBUILD" /\ marker.stage = "ACTIVE" => RebuildAllowed)

\* "Reaching an older fixed maintenance target alone leaves the projection in
\* its catch-up state; only live eligible convergence publishes CURRENT" (the
\* indexing flow): a step of maintenance outside its polls does not.
MaintenanceIsNotCurrentness ==
    [][op.pc # "idle" /\ poll.pc = "stopped" /\ status # "CURRENT" => status' # "CURRENT"]_allVars

\* "Reindex when ... log completeness is suspect" (the projection runbook): a
\* full reindex does not fail on blocks whose stored logs are all too few.
ReindexReacquiresLogs ==
    [][poll.maintenance /\ op.from = 1 /\ poll.pc = "commit"
         /\ (\A h \in poll.headers : journal[h] = "partial")
         => ~ (poll'.pc = "thrown" /\ reason' # "PROJECTOR_INTEGRITY")]_allVars
=============================================================================
