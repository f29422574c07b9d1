------------------------- MODULE MaintenanceProofs -------------------------
(***************************************************************************)
(* Theorems about ProjectionMaintenance: what rebuilds and reindexes leave *)
(* of the read model, wherever they fail, die and are resumed, for every   *)
(* instance of the chain and of the poll, and every damage.                *)
(***************************************************************************)
EXTENDS ProjectionMaintenance, IndexerProofs

USE IndexerAssumption, NullAssumption, DamageAssumption, NoMarkerAssumption

-----------------------------------------------------------------------------
(* The inductive invariant.                                                *)

\* What is stored is one path, to the checkpoint, and nothing of it is missing.
Held ==
    /\ canonical = Ancestry(checkpoint)
    /\ \A b \in canonical : journal[b] # "absent"

\* Beside an operation, and over its marker, nobody polls but the operation.
Locked == marker # Null \/ op.pc # "idle" => poll.pc = "stopped" \/ poll.maintenance

Marked == {"activate", "phase", "rewind", "replay", "catching", "catchup", "complete", "clear",
           "failed", "mark"}

\* Past its own marker an operation is the one that the marker names, and it has
\* got as far as the phase that the marker says.
Agreement ==
    /\ op.pc \in Marked => marker # Null /\ marker.type = op.type
    /\ op.pc \in {"resolve", "prepare"} => marker = Null \/ marker.type = "REBUILD"
    /\ marker # Null => (marker.type = "REBUILD" => marker.phase = "NONE")
    /\ op.pc \in {"resolve", "phase", "rewind", "catching", "catchup"} => op.type = "REINDEX"
    /\ op.pc = "rewind" => marker.phase = "PREPARING"
    /\ op.pc \in {"catchup", "complete", "clear"} /\ op.type = "REINDEX" => marker.phase = "CATCHING_UP"

\* Only a reindex between its rewind and its replay leaves rows behind.
Behind == marker # Null /\ marker.phase = "PREPARING" /\ op.pc # "catching"
RowsBehind == rows = Chain(checkpoint) \/ Behind

\* A rebuild under way was admitted, and nobody else has raised a barrier since.
Rebuilding == op.type = "REBUILD" /\ op.pc \in {"prepare", "activate", "replay"} => RebuildAllowed

MInv ==
    /\ MaintenanceTypeOK /\ Reads
    /\ Held /\ Locked /\ Agreement /\ RowsBehind /\ TornIsFlagged /\ Rebuilding

Statuses == {"UNINITIALIZED", "SYNCING", "CURRENT", "STALE", "REBUILD_REQUIRED", "RECOVERY_REQUIRED"}
Contained == {"absent", "partial", "complete"} \cup Damages

\* A path ends in itself.
LEMMA PathEnd ==
    ASSUME NEW b \in Paths
    PROVE  b \in Ancestry(b) \cup {Genesis}
<1>1. Len(b) \in Nat /\ (b # Genesis => Len(b) \in 1..Len(b)) /\ SubSeq(b, 1, Len(b)) = b
  BY PathType, WholePath
<1>2. Ancestry(b) = {SubSeq(b, 1, n) : n \in 1..Len(b)}
  BY ChainOf
<1>3. ASSUME b # Genesis PROVE b \in Ancestry(b)
  <2>1. SubSeq(b, 1, Len(b)) \in {SubSeq(b, 1, n) : n \in 1..Len(b)}
    BY <1>1, <1>3
  <2> QED BY <1>1, <1>2, <2>1
<1> QED BY <1>3

\* Without a marker, or past its phase, the rows are those of the stored path.
LEMMA NotBehind ==
    ASSUME MInv, marker = Null \/ marker.phase # "PREPARING" \/ op.pc = "catching"
    PROVE  rows = Chain(checkpoint)
BY DEF MInv, RowsBehind, Behind

\* While a poll runs there is no operation, or it is the operation's own.
LEMMA WhilePolling ==
    ASSUME MInv, poll.pc # "stopped"
    PROVE  /\ rows = Chain(checkpoint)
           /\ \/ marker = Null /\ op.pc = "idle" /\ ~ poll.maintenance
              \/ marker # Null /\ op.pc = "catchup" /\ op.type = "REINDEX" /\ poll.maintenance
<1>1. CASE marker = Null /\ op.pc = "idle"
  <2>1. ~ poll.maintenance
    BY <1>1 DEF MInv, MaintenanceTypeOK
  <2> QED BY <1>1, <2>1, NotBehind
<1>2. CASE ~ (marker = Null /\ op.pc = "idle")
  <2>1. poll.maintenance /\ op.pc = "catchup"
    BY <1>2 DEF MInv, Locked, MaintenanceTypeOK
  <2>2. marker # Null /\ op.type = "REINDEX" /\ marker.phase = "CATCHING_UP"
    BY <2>1 DEF MInv, Agreement, Marked
  <2> QED BY <2>1, <2>2, NotBehind
<1> QED BY <1>1, <1>2

-----------------------------------------------------------------------------
(* The steps of a poll.                                                    *)

\* What a step of a running poll may do to the read model and its status ...
StoreReached ==
    /\ journal' \in [Blocks -> Contained]
    /\ canonical' \subseteq Blocks /\ rows' \in Seq(Blocks)
    /\ Held' /\ rows' = Chain(checkpoint')

\* ... and what it is: nothing else of the operation, no end of the poll under
\* the lock, no barrier lifted; at most the stored path is extended.
PollStep ==
    /\ poll.pc # "stopped" /\ poll'.pc # "stopped" /\ poll'.maintenance = poll.maintenance
    /\ Reads' /\ forks' \in 0..MaxForks
    /\ status' \in Statuses /\ reason' \in Reasons
    /\ status = "RECOVERY_REQUIRED" => status' = "RECOVERY_REQUIRED"
    /\ StoreReached
    /\ \/ checkpoint' = checkpoint
       \/ checkpoint' \in Blocks /\ IsPrefix(checkpoint, checkpoint') /\ status' = status

LEMMA PollStepKeeps ==
    ASSUME MInv, PollStep, UNCHANGED <<marker, op>>
    PROVE  MInv'
<1>1. /\ rows = Chain(checkpoint)
      /\ \/ marker = Null /\ op.pc = "idle" /\ ~ poll.maintenance
         \/ marker # Null /\ op.pc = "catchup" /\ op.type = "REINDEX" /\ poll.maintenance
  BY WhilePolling DEF PollStep
<1>2. /\ tip' \in Paths /\ checkpoint' \in Paths /\ poll' \in Polls
      /\ rows' = Chain(checkpoint') /\ canonical' = Ancestry(checkpoint')
  BY DEF PollStep, Reads, StoreReached, Held
<1>3. checkpoint' \in canonical' \cup {Genesis}
  BY <1>2, PathEnd
<1>4. MaintenanceTypeOK'
  BY <1>1, <1>2, <1>3 DEF MInv, MaintenanceTypeOK, PollStep, StoreReached, Statuses, Contained, Paths
<1>5. Held' /\ Reads' /\ RowsBehind' /\ TornIsFlagged'
  BY <1>2 DEF PollStep, StoreReached, RowsBehind, TornIsFlagged, Suspect
<1>6. Locked'
  BY <1>1 DEF PollStep, Locked
<1>7. Agreement'
  BY DEF MInv, Agreement
<1>8. Rebuilding'
  BY <1>1 DEF Rebuilding
<1> QED BY <1>4, <1>5, <1>6, <1>7, <1>8 DEF MInv

\* A status that a poll may set: no barrier is lifted.
StatusSet ==
    /\ status' \in Statuses /\ reason' \in Reasons
    /\ status = "RECOVERY_REQUIRED" => status' = "RECOVERY_REQUIRED"

\* A read leaves the read model as it was.
LEMMA PollReads ==
    ASSUME MInv, poll.pc # "stopped", UNCHANGED <<chainVars, store>>, StatusSet,
           poll' \in Polls, poll'.pc # "stopped", poll'.maintenance = poll.maintenance,
           CheckpointHeld', Batch', Joined'
    PROVE  PollStep
<1>1. /\ tip' = tip /\ forks' = forks /\ journal' = journal /\ canonical' = canonical
      /\ rows' = rows /\ checkpoint' = checkpoint
  BY DEF chainVars, store
<1>2. Reads' /\ forks' \in 0..MaxForks
  BY <1>1 DEF MInv, MaintenanceTypeOK, Reads
<1>3. rows = Chain(checkpoint)
  BY WhilePolling
<1>4. StoreReached
  BY <1>1, <1>3 DEF MInv, MaintenanceTypeOK, Contained, Held, StoreReached
<1> QED BY <1>1, <1>2, <1>4 DEF PollStep, StatusSet

\* So does what goes on no further than to say how it ended.
LEMMA PollLeaves ==
    ASSUME MInv, poll.pc # "stopped", UNCHANGED <<chainVars, store>>, StatusSet,
           poll' \in Polls, poll'.pc \notin Fetching \cup {"begin", "stopped"},
           poll'.maintenance = poll.maintenance
    PROVE  PollStep
<1>1. CheckpointHeld' /\ Batch' /\ Joined'
  BY DEF CheckpointHeld, Batch, Joined, Fetching
<1> QED BY <1>1, PollReads

LEMMA PollProceeds ==
    ASSUME MInv, poll.pc # "stopped", NEW x \in PollSteps \ (Fetching \cup {"begin", "stopped"}), Proceed(x)
    PROVE  PollStep
<1>1. Goto(x) /\ UNCHANGED <<chainVars, store>> /\ status' = status /\ reason' = reason
  BY DEF Proceed
<1>2. poll' \in Polls /\ poll'.pc = x /\ poll'.maintenance = poll.maintenance
  BY <1>1, Gone DEF MInv, Reads
<1>3. StatusSet
  BY <1>1 DEF MInv, MaintenanceTypeOK, StatusSet, Statuses
<1> QED BY <1>1, <1>2, <1>3, PollLeaves

LEMMA PollThrows ==
    ASSUME MInv, poll.pc # "stopped", Throw
    PROVE  PollStep
BY PollProceeds DEF Throw, PollSteps, Fetching

LEMMA PollBarrier ==
    ASSUME MInv, poll.pc # "stopped", NEW why \in Reasons, Barrier(why)
    PROVE  PollStep
<1>1. /\ Goto("thrown") /\ UNCHANGED <<chainVars, store>> /\ "thrown" \in PollSteps
      /\ status' = "RECOVERY_REQUIRED" /\ reason' = why
  BY DEF Barrier, PollSteps
<1>2. poll' \in Polls /\ poll'.pc = "thrown" /\ poll'.maintenance = poll.maintenance
  BY <1>1, Gone DEF MInv, Reads
<1>3. StatusSet
  BY <1>1 DEF StatusSet, Statuses
<1> QED BY <1>1, <1>2, <1>3, PollLeaves DEF Fetching

\* A read that says nothing of the status.
LEMMA PollQuiet ==
    ASSUME MInv, UNCHANGED <<chainVars, store, status, reason>>
    PROVE  StatusSet /\ UNCHANGED <<chainVars, store>> /\ checkpoint' = checkpoint
BY DEF MInv, MaintenanceTypeOK, StatusSet, Statuses, store

LEMMA CheckCheckpointPolls ==
    ASSUME MInv, CheckCheckpoint
    PROVE  PollStep
<1>1. poll.pc = "begin" /\ poll \in Polls /\ checkpoint \in Paths /\ poll.headers = {}
  BY DEF CheckCheckpoint, MInv, Reads, Batch
<1>2. CASE /\ poll' = [poll EXCEPT !.pc = "target", !.checkpoint = checkpoint]
           /\ UNCHANGED <<chainVars, store, status, reason>>
  <2>1. /\ poll' \in Polls /\ poll'.pc = "target" /\ poll'.checkpoint = checkpoint
        /\ poll'.maintenance = poll.maintenance /\ poll'.headers = {}
    BY <1>1, <1>2 DEF Polls, PollSteps, Paths
  <2>2. StatusSet /\ UNCHANGED <<chainVars, store>> /\ checkpoint' = checkpoint
    BY <1>2, PollQuiet
  <2>3. CheckpointHeld' /\ Batch' /\ Joined'
    BY <2>1, <2>2 DEF CheckpointHeld, Batch, Joined
  <2> QED BY <1>1, <2>1, <2>2, <2>3, PollReads
<1>3. CASE Barrier("CHECKPOINT_BLOCK_UNAVAILABLE") \/ Barrier("CHECKPOINT_HASH_CHANGED")
  BY <1>1, <1>3, PollBarrier DEF Reasons
<1> QED BY <1>2, <1>3 DEF CheckCheckpoint

LEMMA ReadHeadPolls ==
    ASSUME MInv, ReadHead
    PROVE  PollStep
<1>1. poll.pc \in {"target", "latest"} /\ poll \in Polls /\ tip \in Paths
  BY DEF ReadHead, MInv, Reads
<1>2. /\ poll' \in Polls /\ poll'.pc = (IF poll.pc = "target" THEN "eligible" ELSE "latestEligible")
      /\ poll'.checkpoint = poll.checkpoint
      /\ poll'.maintenance = poll.maintenance /\ poll'.headers = poll.headers
  BY <1>1 DEF ReadHead, Polls, PollSteps, Paths
<1>3. StatusSet /\ UNCHANGED <<chainVars, store>> /\ checkpoint' = checkpoint
  BY PollQuiet DEF ReadHead
<1>4. CheckpointHeld' /\ Batch' /\ Joined'
  BY <1>1, <1>2, <1>3 DEF MInv, Reads, CheckpointHeld, Batch, Joined
<1> QED BY <1>1, <1>2, <1>3, <1>4, PollReads

LEMMA ReadEligiblePolls ==
    ASSUME MInv, ReadEligible
    PROVE  PollStep
<1> DEFINE target == IF Len(Eligible) < poll.limit THEN Len(Eligible) ELSE poll.limit
           from == Len(poll.checkpoint) + 1
           found == [poll EXCEPT !.eligible = Eligible]
<1>1. /\ poll.pc = "eligible" /\ poll \in Polls /\ poll.checkpoint = checkpoint /\ poll.headers = {}
      /\ poll.head \in Paths /\ tip \in Paths /\ checkpoint \in Paths /\ poll.limit \in 0..MaxHeight
      /\ status \in Statuses /\ reason \in Reasons
  BY DEF ReadEligible, MInv, MaintenanceTypeOK, Reads, Polls, Paths, Batch, CheckpointHeld, Statuses
<1>2. Len(poll.head) \in 0..MaxHeight /\ Len(checkpoint) \in 0..MaxHeight
  BY <1>1, PathType
<1>3. ~ EligibleMissing /\ Eligible # Null =>
         /\ IndexingDepth <= Len(poll.head) /\ Len(Eligible) = Len(poll.head) - IndexingDepth
  BY <1>1, EligibleType
<1>4. ~ EligibleMissing => Eligible \in Blocks \cup {Genesis, Null}
  BY <1>1, EligibleType DEF Paths
<1>5. Observed \in Statuses /\ (status = "RECOVERY_REQUIRED" => Observed = status)
  BY <1>1 DEF Observed, Statuses
<1>6. CASE Throw
  BY <1>1, <1>6, PollThrows
<1>7. CASE Barrier("CHECKPOINT_EXCEEDS_ELIGIBLE_TARGET")
  BY <1>1, <1>7, PollBarrier DEF Reasons
<1>8. ASSUME ~ EligibleMissing, poll' = [found EXCEPT !.pc = "done"], StatusSet, UNCHANGED <<chainVars, store>>
      PROVE  PollStep
  <2>1. found \in Polls /\ found.maintenance = poll.maintenance
    BY <1>1, <1>4, <1>8 DEF Polls
  <2> HIDE DEF found
  <2>2. poll' \in Polls /\ poll'.pc = "done" /\ poll'.maintenance = poll.maintenance
    BY <1>8, <2>1 DEF Polls, PollSteps
  <2> QED BY <1>1, <1>8, <2>2, PollLeaves DEF Fetching
<1>9. CASE /\ ~ EligibleMissing /\ Eligible # Null /\ from <= target
           /\ status' = Observed
           /\ poll' = [found EXCEPT !.pc = "headers", !.to = BatchEnd(from, target)]
           /\ UNCHANGED <<chainVars, store, reason>>
  <2> DEFINE to == BatchEnd(from, target)
             most == Len(Eligible)
             limit == poll.limit
  <2>1. target \in 0..(MaxHeight - IndexingDepth) /\ Len(checkpoint) + 1 <= target
    <3>1. most \in 0..(MaxHeight - IndexingDepth) /\ limit \in 0..MaxHeight
      BY <1>1, <1>2, <1>3, <1>9
    <3>2. target \in 0..(MaxHeight - IndexingDepth)
      <4> HIDE DEF most, limit
      <4>1. (IF most < limit THEN most ELSE limit) \in 0..(MaxHeight - IndexingDepth)
        BY <3>1
      <4> QED BY <4>1 DEF most, limit
    <3> QED BY <1>1, <1>9, <3>2
  <2> HIDE DEF target
  <2>2. to \in 0..(MaxHeight - IndexingDepth) /\ Len(checkpoint) < to
    BY <1>1, <1>2, <2>1 DEF BatchEnd
  <2> HIDE DEF to
  <2>3. /\ found \in Polls /\ found.maintenance = poll.maintenance
        /\ found.checkpoint = poll.checkpoint /\ found.headers = poll.headers
    BY <1>1, <1>4, <1>9 DEF Polls
  <2> HIDE DEF found
  <2>4. poll' = [found EXCEPT !.pc = "headers", !.to = to]
    BY <1>9 DEF to
  <2>5. /\ poll' \in Polls /\ poll'.pc = "headers" /\ poll'.to = to /\ poll'.checkpoint = checkpoint
        /\ poll'.maintenance = poll.maintenance /\ poll'.headers = {}
    BY <1>1, <2>2, <2>3, <2>4 DEF Polls, PollSteps
  <2>6. StatusSet /\ UNCHANGED <<chainVars, store>> /\ checkpoint' = checkpoint
    BY <1>1, <1>5, <1>9 DEF StatusSet, store
  <2>7. CheckpointHeld' /\ Batch' /\ Joined'
    BY <2>2, <2>5, <2>6 DEF CheckpointHeld, Batch, Joined
  <2> QED BY <1>1, <2>5, <2>6, <2>7, PollReads
<1> HIDE DEF target, from, found
<1>10. CASE /\ ~ EligibleMissing
            /\ status' = Observed /\ poll' = [found EXCEPT !.pc = "done"]
            /\ UNCHANGED <<chainVars, store, reason>>
  <2>1. UNCHANGED <<chainVars, store>> /\ StatusSet
    BY <1>1, <1>5, <1>10 DEF StatusSet
  <2> QED BY <1>8, <1>10, <2>1
<1>11. CASE /\ ~ EligibleMissing
            /\ IF target = Len(Eligible) /\ Observed \in Markable
               THEN status' = "CURRENT" /\ reason' = Null
               ELSE status' = Observed /\ UNCHANGED reason
            /\ poll' = [found EXCEPT !.pc = "done"]
            /\ UNCHANGED <<chainVars, store>>
  <2>1. StatusSet
    BY <1>1, <1>5, <1>11 DEF StatusSet, Statuses, Reasons, Markable
  <2> QED BY <1>8, <1>11, <2>1
<1> QED BY <1>6, <1>7, <1>9, <1>10, <1>11 DEF ReadEligible, target, from, found

LEMMA ReadHeaderPolls ==
    ASSUME MInv, ReadHeader
    PROVE  PollStep
<1>1. /\ poll.pc = "headers" /\ poll \in Polls /\ poll.checkpoint = checkpoint
      /\ tip \in Paths /\ checkpoint \in Paths /\ poll.headers \subseteq Blocks /\ poll.to \in Nat
      /\ Len(checkpoint) < poll.to
      /\ \A h \in poll.headers : Len(h) \in Numbers
      /\ \A h, g \in poll.headers : Len(h) = Len(g) => h = g
  BY DEF ReadHeader, MInv, Reads, Polls, Batch, CheckpointHeld
<1>2. Len(tip) \in Nat /\ Len(checkpoint) \in Nat
  BY <1>1, PathType
<1>3. PICK n \in Numbers :
        /\ \A h \in poll.headers : Len(h) # n
        /\ \/ /\ HasBlock(n)
              /\ poll' = [poll EXCEPT !.headers = @ \cup {BlockAt(n)}]
              /\ UNCHANGED <<chainVars, store, status, reason>>
           \/ ~ HasBlock(n) /\ Throw
  BY DEF ReadHeader
<1>4. CASE Throw
  BY <1>1, <1>4, PollThrows
<1>5. CASE /\ HasBlock(n) /\ poll' = [poll EXCEPT !.headers = @ \cup {BlockAt(n)}]
           /\ UNCHANGED <<chainVars, store, status, reason>>
  <2> DEFINE b == BlockAt(n)
  <2>1. n \in 1..Len(tip) /\ n \in 0..Len(tip)
    BY <1>1, <1>2, <1>5 DEF Numbers, HasBlock
  <2>2. b \in Blocks /\ Len(b) = n
    BY <1>1, <2>1, PrefixBlock, PrefixType DEF BlockAt
  <2> HIDE DEF b
  <2>3. poll' = [poll EXCEPT !.headers = poll.headers \cup {b}] /\ poll.headers \cup {b} \in SUBSET Blocks
    BY <1>1, <1>5, <2>2 DEF b
  <2>4. /\ poll' \in Polls /\ poll'.pc = "headers" /\ poll'.to = poll.to /\ poll'.checkpoint = checkpoint
        /\ poll'.maintenance = poll.maintenance /\ poll'.headers = poll.headers \cup {b}
    BY <1>1, <2>3 DEF Polls
  <2>5. StatusSet /\ UNCHANGED <<chainVars, store>> /\ checkpoint' = checkpoint
    BY <1>5, PollQuiet
  <2>6. Numbers' = Numbers
    BY <1>1, <2>4 DEF Numbers
  <2>7. CheckpointHeld' /\ Joined'
    BY <2>4, <2>5 DEF CheckpointHeld, Joined
  <2>8. Batch'
    BY <1>1, <1>3, <2>2, <2>4, <2>6 DEF Batch
  <2> QED BY <1>1, <2>4, <2>5, <2>7, <2>8, PollReads
<1> QED BY <1>3, <1>4, <1>5

LEMMA RefuseRangePolls ==
    ASSUME MInv, RefuseRange
    PROVE  PollStep
<1> DEFINE from == Len(poll.checkpoint) + 1
           half == Half(from, poll.to)
<1>1. /\ poll.pc = "headers" /\ poll \in Polls /\ poll.checkpoint = checkpoint /\ checkpoint \in Paths
      /\ poll.to \in 0..(MaxHeight - IndexingDepth) /\ Len(checkpoint) < poll.to
      /\ poll' = [poll EXCEPT !.headers = {}, !.to = Half(from, @)]
      /\ UNCHANGED <<chainVars, store, status, reason>>
  BY DEF RefuseRange, HalveRange, MInv, Reads, Polls, Batch, CheckpointHeld
<1>2. half \in 0..(MaxHeight - IndexingDepth) /\ Len(checkpoint) < half
  <2>1. Len(checkpoint) \in Nat
    BY <1>1, PathType
  <2>2. half = Half(Len(checkpoint) + 1, poll.to) /\ MaxHeight - IndexingDepth \in Nat
    BY <1>1
  <2> HIDE DEF half
  <2> QED BY <1>1, <2>1, <2>2, HalfWithin
<1> HIDE DEF half
<1>3. poll' = [poll EXCEPT !.headers = {}, !.to = half]
  BY <1>1 DEF half
<1>4. /\ poll' \in Polls /\ poll'.pc = "headers" /\ poll'.to = half /\ poll'.checkpoint = checkpoint
      /\ poll'.maintenance = poll.maintenance /\ poll'.headers = {}
  BY <1>1, <1>2, <1>3 DEF Polls
<1>5. StatusSet /\ UNCHANGED <<chainVars, store>> /\ checkpoint' = checkpoint
  BY <1>1, PollQuiet
<1>6. CheckpointHeld' /\ Batch' /\ Joined'
  BY <1>2, <1>4, <1>5 DEF CheckpointHeld, Batch, Joined
<1> QED BY <1>1, <1>4, <1>5, <1>6, PollReads

\* A poll that goes on with what it has read.
LEMMA PollGoesOn ==
    ASSUME MInv, NEW x \in {"anchor", "commit"}, Proceed(x), poll.pc \in {"headers", "anchor"},
           AllHeaders, JoinedRange
    PROVE  PollStep
<1>1. Goto(x) /\ UNCHANGED <<chainVars, store, status, reason>> /\ x \in PollSteps /\ poll \in Polls
  BY DEF Proceed, PollSteps, MInv, Reads
<1>2. /\ poll' \in Polls /\ poll'.pc = x /\ poll'.maintenance = poll.maintenance
      /\ poll'.checkpoint = poll.checkpoint /\ poll'.to = poll.to /\ poll'.headers = poll.headers
  BY <1>1, Gone
<1>3. StatusSet /\ UNCHANGED <<chainVars, store>> /\ checkpoint' = checkpoint
  BY <1>1, PollQuiet
<1>4. CheckpointHeld' /\ Batch'
  BY <1>2, <1>3 DEF MInv, Reads, CheckpointHeld, Batch, Numbers
<1>5. Joined'
  BY <1>2 DEF Joined, AllHeaders, JoinedRange, Numbers
<1> QED BY <1>2, <1>3, <1>4, <1>5, PollReads

LEMMA ReadEventsPolls ==
    ASSUME MInv, ReadEvents
    PROVE  PollStep
<1>1. poll.pc = "headers" /\ AllHeaders
  BY DEF ReadEvents
<1>2. CASE JoinedRange /\ Proceed("anchor")
  BY <1>1, <1>2, PollGoesOn
<1>3. CASE Barrier("PARENT_DISCONTINUITY")
  BY <1>1, <1>3, PollBarrier DEF Reasons
<1> QED BY <1>2, <1>3 DEF ReadEvents

LEMMA ForgottenBlockPolls ==
    ASSUME MInv, ForgottenBlock
    PROVE  PollStep
BY PollThrows DEF ForgottenBlock

LEMMA ReadAnchorPolls ==
    ASSUME MInv, ReadAnchor
    PROVE  PollStep
<1>1. poll.pc = "anchor" /\ AllHeaders /\ JoinedRange
  BY DEF ReadAnchor, MInv, Reads, Joined
<1>2. CASE Throw
  BY <1>1, <1>2, PollThrows
<1>3. CASE Proceed("commit")
  BY <1>1, <1>3, PollGoesOn
<1>4. CASE Barrier("RANGE_ANCHOR_CHANGED")
  BY <1>1, <1>4, PollBarrier DEF Reasons
<1> QED BY <1>2, <1>3, <1>4 DEF ReadAnchor

\* Over a journal that has lost events too, the logs of a batch are put.
LEMMA StoredOver ==
    ASSUME poll.headers \subseteq Blocks, journal \in [Blocks -> Contained],
           NEW content \in [poll.headers -> {"complete", "partial"}]
    PROVE  /\ Journalled(content) \in [Blocks -> Contained]
           /\ \A b \in poll.headers : Journalled(content)[b] # "absent"
           /\ \A b \in Blocks \ poll.headers : Journalled(content)[b] = journal[b]
BY DEF Journalled, Contained

LEMMA CommitPolls ==
    ASSUME MInv, NEW contents \in {AllLogs, LateLogs}, Commit(contents)
    PROVE  PollStep
<1>1. PICK content \in contents :
        IF Admitted /\ Agrees(content)
        THEN /\ journal' = Journalled(content)
             /\ canonical' = canonical \cup poll.headers
             /\ rows' = rows \o InOrder(poll.headers \ canonical)
             /\ checkpoint' = End
             /\ Goto(IF poll.to = Len(poll.eligible) THEN "latest" ELSE "done")
             /\ UNCHANGED <<chainVars, status, reason>>
        ELSE Throw
  BY DEF Commit
<1>2. /\ poll.pc = "commit" /\ poll \in Polls /\ poll.headers \subseteq Blocks /\ Reads
      /\ journal \in [Blocks -> Contained] /\ canonical \subseteq Blocks
      /\ canonical = Ancestry(checkpoint) /\ \A b \in canonical : journal[b] # "absent"
  BY DEF Commit, MInv, MaintenanceTypeOK, Reads, Polls, Contained, Held
<1>3. rows = Chain(checkpoint)
  BY <1>2, WhilePolling
<1>4. content \in [poll.headers -> {"complete", "partial"}]
  BY Contents
<1>5. CASE Throw
  BY <1>2, <1>5, PollThrows
<1>6. CASE /\ journal' = Journalled(content)
           /\ canonical' = canonical \cup poll.headers
           /\ rows' = rows \o InOrder(poll.headers \ canonical)
           /\ checkpoint' = End
           /\ Goto(IF poll.to = Len(poll.eligible) THEN "latest" ELSE "done")
           /\ UNCHANGED <<chainVars, status, reason>>
  <2> DEFINE x == IF poll.to = Len(poll.eligible) THEN "latest" ELSE "done"
  <2>1. x \in {"latest", "done"} /\ x \in PollSteps /\ Goto(x)
    BY <1>6 DEF PollSteps
  <2> HIDE DEF x
  <2>2. poll' \in Polls /\ poll'.pc = x /\ poll'.maintenance = poll.maintenance
    BY <1>2, <2>1, Gone
  <2>3. /\ End \in Paths
        /\ canonical \cup poll.headers = Ancestry(End)
        /\ Chain(checkpoint) \o InOrder(poll.headers \ canonical) = Chain(End)
    BY <1>2, BatchIsPath, Extension
  <2>4. rows' = Chain(checkpoint') /\ canonical' = Ancestry(checkpoint') /\ checkpoint' \in Paths
    BY <1>3, <1>6, <2>3
  <2>5. canonical' \subseteq Blocks /\ rows' \in Seq(Blocks)
    BY <2>4, ChainOf
  <2>6. /\ journal' \in [Blocks -> Contained]
        /\ \A b \in poll.headers : journal'[b] # "absent"
        /\ \A b \in Blocks \ poll.headers : journal'[b] = journal[b]
    BY <1>2, <1>4, <1>6, StoredOver
  <2>7. \A b \in canonical' : journal'[b] # "absent"
    BY <1>2, <1>6, <2>6
  <2>8. StoreReached
    BY <2>4, <2>5, <2>6, <2>7 DEF StoreReached, Held
  <2>9. tip' = tip /\ forks' = forks /\ status' = status /\ reason' = reason
    BY <1>6 DEF chainVars
  <2>10. CheckpointHeld' /\ Batch' /\ Joined'
    BY <2>1, <2>2 DEF CheckpointHeld, Batch, Joined
  <2>11. checkpoint' \in Blocks /\ IsPrefix(checkpoint, checkpoint')
    <3>1. /\ checkpoint' = End /\ End \in Blocks /\ Len(checkpoint) \in 0..Len(End)
          /\ SubSeq(End, 1, Len(checkpoint)) = checkpoint
      BY <1>2, <1>6, BatchIsPath
    <3>2. SubSeq(checkpoint, 1, Len(checkpoint)) = checkpoint
      BY <1>2, WholePath DEF Reads
    <3> QED BY <3>1, <3>2 DEF IsPrefix
  <2> QED BY <1>2, <2>1, <2>2, <2>4, <2>8, <2>9, <2>10, <2>11
          DEF PollStep, Reads, MInv, MaintenanceTypeOK, Statuses
<1> QED BY <1>1, <1>5, <1>6

LEMMA ConfirmTargetPolls ==
    ASSUME MInv, ConfirmTarget
    PROVE  PollStep
<1>1. /\ poll.pc = "latestEligible" /\ poll \in Polls /\ poll.head \in Paths /\ tip \in Paths
      /\ status \in Statuses /\ reason \in Reasons
  BY DEF ConfirmTarget, MInv, MaintenanceTypeOK, Reads, Polls, Paths, Statuses
<1>2. CASE Throw
  BY <1>1, <1>2, PollThrows
<1>3. CASE /\ ~ EligibleMissing
           /\ IF Eligible = End /\ status \in Markable
              THEN status' = "CURRENT" /\ reason' = Null
              ELSE UNCHANGED <<status, reason>>
           /\ poll' = [poll EXCEPT !.pc = "done", !.eligible = Eligible]
           /\ UNCHANGED <<chainVars, store>>
  <2>1. Eligible \in Blocks \cup {Genesis, Null}
    BY <1>1, <1>3, EligibleType DEF Paths
  <2>2. poll' \in Polls /\ poll'.pc = "done" /\ poll'.maintenance = poll.maintenance
    BY <1>1, <1>3, <2>1 DEF Polls, PollSteps
  <2>3. StatusSet
    BY <1>1, <1>3 DEF StatusSet, Statuses, Reasons, Markable
  <2> QED BY <1>1, <1>3, <2>2, <2>3, PollLeaves DEF Fetching
<1> QED BY <1>2, <1>3 DEF ConfirmTarget

\* Every step of a poll is one.
LEMMA IngestPolls ==
    ASSUME MInv, Ingest \/ ProviderFailure
    PROVE  PollStep
<1>1. CASE TransportFailure
  <2>1. Proceed("unreachable") /\ poll.pc # "stopped"
    BY <1>1 DEF TransportFailure, Reading
  <2> QED BY <2>1, PollProceeds DEF PollSteps, Fetching
<1>2. CASE IntegrityFailure
  BY <1>2, PollBarrier DEF IntegrityFailure, Reasons
<1>3. CASE Commit(AllLogs) \/ Commit(LateLogs)
  BY <1>3, CommitPolls
<1> QED BY <1>1, <1>2, <1>3, CheckCheckpointPolls, ReadHeadPolls, ReadEligiblePolls, ReadHeaderPolls,
           RefuseRangePolls, ReadEventsPolls, ForgottenBlockPolls, ReadAnchorPolls, ConfirmTargetPolls
        DEF Ingest, ProviderFailure

-----------------------------------------------------------------------------
(* The chain and the worker.                                               *)

LEMMA ChainKeeps ==
    ASSUME MInv, Mine \/ Reorg, UNCHANGED <<marker, op>>
    PROVE  MInv'
<1>1. /\ journal' = journal /\ canonical' = canonical /\ rows' = rows /\ checkpoint' = checkpoint
      /\ status' = status /\ reason' = reason /\ poll' = poll /\ marker' = marker /\ op' = op
  BY DEF Mine, Reorg, store
<1>2. tip' \in Paths /\ forks' \in 0..MaxForks
  <2>1. CASE Mine
    <3>1. tip \in Paths /\ Len(tip) < MaxHeight /\ forks' = forks /\ \E b \in Branches : tip' = Append(tip, b)
      BY <2>1 DEF Mine, MInv, Reads
    <3> QED BY <3>1, Grows DEF MInv, MaintenanceTypeOK
  <2>2. CASE Reorg
    BY <2>2 DEF Reorg, Paths, MInv, MaintenanceTypeOK
  <2> QED BY <2>1, <2>2
<1>3. Reads'
  <2>1. CheckpointHeld' /\ Batch' /\ Joined'
    BY <1>1 DEF MInv, Reads, CheckpointHeld, Batch, Joined, AllHeaders, JoinedRange, Numbers
  <2> QED BY <1>1, <1>2, <2>1 DEF MInv, Reads
<1>4. MaintenanceTypeOK'
  BY <1>1, <1>2 DEF MInv, MaintenanceTypeOK, Paths
<1>5. Held' /\ Locked' /\ Agreement' /\ RowsBehind' /\ TornIsFlagged' /\ Rebuilding'
  BY <1>1 DEF MInv, Held, Locked, Agreement, RowsBehind, Behind, TornIsFlagged, Suspect, Rebuilding, RebuildAllowed
<1> QED BY <1>3, <1>4, <1>5 DEF MInv

\* A poll that is about to begin has read nothing.
LEMMA Starting ==
    ASSUME NEW x \in {"begin", "stopped"}, NEW locked \in BOOLEAN, NEW limit \in 0..MaxHeight
    PROVE  LET q == Poll(x, locked, limit) IN
           q \in Polls /\ q.pc = x /\ q.maintenance = locked /\ q.headers = {}
<1> DEFINE q == Poll(x, locked, limit)
<1>1. /\ x \in PollSteps /\ 0 \in 0..(MaxHeight - IndexingDepth)
      /\ Genesis \in Blocks \cup {Genesis} /\ Null \in Blocks \cup {Genesis, Null} /\ {} \in SUBSET Blocks
  BY DEF PollSteps
<1>2. q = [pc |-> x, maintenance |-> locked, limit |-> limit, checkpoint |-> Genesis,
           head |-> Genesis, eligible |-> Null, to |-> 0, headers |-> {}]
  BY DEF Poll
<1> HIDE DEF q
<1>3. q \in Polls
  BY <1>1, <1>2 DEF Polls
<1>4. q.pc = x /\ q.maintenance = locked /\ q.headers = {}
  BY <1>2
<1> QED BY <1>3, <1>4 DEF q

\* A poll begins or ends, and leaves the read model to what there is of it.
LEMMA PollSet ==
    ASSUME MInv, NEW x \in {"begin", "stopped"}, NEW locked \in BOOLEAN, NEW limit \in 0..MaxHeight,
           poll' = Poll(x, locked, limit), UNCHANGED <<chainVars, store, marker>>,
           status' \in Statuses, reason' \in Reasons, op' \in Operations,
           locked <=> op'.pc = "catchup" /\ x # "stopped",
           x = "begin" /\ ~ locked => marker = Null /\ op'.pc = "idle",
           Agreement', RowsBehind', TornIsFlagged', Rebuilding'
    PROVE  MInv'
<1>1. /\ tip' = tip /\ forks' = forks /\ journal' = journal /\ canonical' = canonical
      /\ rows' = rows /\ checkpoint' = checkpoint /\ marker' = marker
  BY DEF chainVars, store
<1>2. poll' \in Polls /\ poll'.pc = x /\ poll'.maintenance = locked /\ poll'.headers = {}
  BY Starting
<1>3. Reads'
  BY <1>1, <1>2 DEF MInv, Reads, CheckpointHeld, Batch, Joined
<1>4. MaintenanceTypeOK'
  BY <1>1, <1>2 DEF MInv, MaintenanceTypeOK, Statuses
<1>5. Held'
  BY <1>1 DEF MInv, Held
<1>6. Locked'
  BY <1>1, <1>2 DEF Locked
<1> QED BY <1>3, <1>4, <1>5, <1>6 DEF MInv

LEMMA WorkerKeeps ==
    ASSUME MInv, UNCHANGED <<marker, op>>,
           \/ op.pc = "idle" /\ marker = Null /\ StartWorker
           \/ NextPoll \/ RetryUnreachable \/ WorkerEnds \/ WorkerKilled
    PROVE  MInv'
<1>1. /\ UNCHANGED <<chainVars, store, marker>> /\ op' = op /\ marker' = marker
      /\ checkpoint' = checkpoint /\ rows' = rows
  BY DEF StartWorker, NextPoll, RetryUnreachable, WorkerEnds, WorkerKilled, store
<1>2. rows = Chain(checkpoint) /\ marker = Null /\ op.pc = "idle"
  <2>1. CASE op.pc = "idle" /\ marker = Null
    BY <2>1, NotBehind
  <2>2. CASE poll.pc # "stopped" /\ ~ poll.maintenance
    BY <2>2, WhilePolling
  <2> QED BY <2>1, <2>2 DEF NextPoll, RetryUnreachable, WorkerEnds, WorkerKilled
<1>3. status' \in Statuses /\ reason' \in Reasons
  BY DEF StartWorker, NextPoll, RetryUnreachable, WorkerEnds, WorkerKilled, MInv, MaintenanceTypeOK,
         Statuses, Reasons
<1>4. PICK x \in {"begin", "stopped"} : poll' = Poll(x, FALSE, MaxHeight)
  BY DEF StartWorker, NextPoll, RetryUnreachable, WorkerEnds, WorkerKilled
<1>5. op' \in Operations /\ op'.pc = "idle" /\ Agreement'
  BY <1>1, <1>2 DEF MInv, MaintenanceTypeOK, Agreement
<1>6. RowsBehind' /\ TornIsFlagged' /\ Rebuilding'
  BY <1>1, <1>2 DEF RowsBehind, TornIsFlagged, Suspect, Rebuilding
<1>7. MaxHeight \in 0..MaxHeight
  OBVIOUS
<1> QED BY <1>1, <1>2, <1>3, <1>4, <1>5, <1>6, <1>7, PollSet

-----------------------------------------------------------------------------
(* The steps of an operation outside its polls.                            *)

LEMMA IdleType ==
    Idle \in Operations /\ Idle.pc = "idle" /\ Idle.type = "REBUILD"
<1>1. /\ "idle" \in OpSteps /\ "REBUILD" \in Kinds /\ 0 \in 0..MaxHeight
      /\ Genesis \in Blocks \cup {Genesis} /\ Null \in Reasons /\ FALSE \in BOOLEAN
  BY DEF OpSteps, Kinds, Reasons
<1> QED BY <1>1 DEF Idle, Operations

LEMMA Stepped ==
    ASSUME op \in Operations, NEW x \in OpSteps, Step(x)
    PROVE  op' \in Operations /\ op'.pc = x /\ op'.type = op.type /\ op'.barrier = op.barrier
<1>1. op' = [op EXCEPT !.pc = x]
  BY DEF Step
<1> QED BY <1>1 DEF Operations

\* The poll of an operation ends before its other steps.
LEMMA NoPoll ==
    ASSUME MInv, op.pc \notin {"idle", "catchup"}
    PROVE  poll.pc = "stopped"
BY DEF MInv, Locked, MaintenanceTypeOK

\* With no poll running the parts of the invariant stand by themselves.
LEMMA OffPoll ==
    ASSUME MInv, poll.pc = "stopped", UNCHANGED <<chainVars, poll>>,
           journal' \in [Blocks -> Contained], rows' \in Seq(Blocks), checkpoint' \in Paths, Held',
           status' \in Statuses, reason' \in Reasons,
           marker' \in Markers \cup {Null}, op' \in Operations,
           Agreement', RowsBehind', TornIsFlagged', Rebuilding'
    PROVE  MInv'
<1>1. tip' = tip /\ forks' = forks /\ poll' = poll
  BY DEF chainVars
<1>2. canonical' \subseteq Blocks /\ checkpoint' \in canonical' \cup {Genesis}
  <2>1. canonical' = Ancestry(checkpoint')
    BY DEF Held
  <2> QED BY <2>1, ChainOf, PathEnd
<1>3. Reads'
  BY <1>1 DEF MInv, Reads, CheckpointHeld, Batch, Joined
<1>4. ~ poll.maintenance
  BY DEF MInv, MaintenanceTypeOK
<1>5. MaintenanceTypeOK'
  BY <1>1, <1>2, <1>4 DEF MInv, MaintenanceTypeOK, Statuses, Contained
<1>6. Locked'
  BY <1>1 DEF Locked
<1> QED BY <1>3, <1>5, <1>6 DEF MInv

\* Most steps write only the marker, or remember how far they got.
LEMMA Bookkeeping ==
    ASSUME MInv, poll.pc = "stopped", UNCHANGED <<chainVars, indexer>>,
           marker' \in Markers \cup {Null}, op' \in Operations, Agreement', RowsBehind', Rebuilding'
    PROVE  MInv'
<1>1. /\ journal' = journal /\ canonical' = canonical /\ rows' = rows /\ checkpoint' = checkpoint
      /\ status' = status /\ reason' = reason /\ UNCHANGED <<chainVars, poll>>
  BY DEF indexer, store
<1>2. Held' /\ TornIsFlagged'
  BY <1>1 DEF MInv, Held, TornIsFlagged, Suspect
<1>3. /\ journal' \in [Blocks -> Contained] /\ rows' \in Seq(Blocks) /\ checkpoint' \in Paths
      /\ status' \in Statuses /\ reason' \in Reasons
  BY <1>1 DEF MInv, MaintenanceTypeOK, Contained, Reads, Statuses
<1> QED BY <1>1, <1>2, <1>3, OffPoll

\* What Bookkeeping leaves as it was.
LEMMA Kept ==
    ASSUME MInv, UNCHANGED <<chainVars, indexer>>
    PROVE  /\ rows' = rows /\ checkpoint' = checkpoint /\ status' = status /\ reason' = reason
           /\ marker \in Markers \cup {Null} /\ op \in Operations
           /\ RebuildAllowed => RebuildAllowed'
BY DEF MInv, MaintenanceTypeOK, indexer, store, RebuildAllowed

LEMMA BarrierReasonType ==
    ASSUME MInv
    PROVE  BarrierReason \in Reasons
BY DEF MInv, MaintenanceTypeOK, BarrierReason, Reasons

LEMMA BeginRebuildKeeps ==
    ASSUME MInv, BeginRebuild
    PROVE  MInv'
<1>1. /\ op.pc = "idle" /\ poll.pc = "stopped" /\ RebuildAllowed
      /\ marker # Null => marker.type = "REBUILD"
      /\ op' = [Idle EXCEPT !.pc = IF marker = Null THEN "prepare" ELSE "activate",
                            !.barrier = BarrierReason]
      /\ UNCHANGED <<chainVars, indexer>> /\ marker' = marker
  BY DEF BeginRebuild, Free
<1> DEFINE x == IF marker = Null THEN "prepare" ELSE "activate"
<1>2. x \in OpSteps /\ BarrierReason \in Reasons
  BY BarrierReasonType DEF OpSteps
<1>3. op' \in Operations /\ op'.pc = x /\ op'.type = "REBUILD"
  <2> HIDE DEF Idle, x
  <2> QED BY <1>1, <1>2, IdleType DEF Operations, x
<1>4. Agreement'
  BY <1>1, <1>3 DEF MInv, Agreement, Marked
<1>5. RowsBehind' /\ Rebuilding'
  BY <1>1, <1>3, Kept DEF MInv, RowsBehind, Behind, Rebuilding
<1> QED BY <1>1, <1>3, <1>4, <1>5, Kept, Bookkeeping

LEMMA BeginReindexKeeps ==
    ASSUME MInv, BeginReindex
    PROVE  MInv'
<1>1. PICK from \in 1..MaxHeight :
          /\ marker = Null \/ Transition(from)
          /\ op' = [Idle EXCEPT !.pc = "resolve", !.type = "REINDEX", !.from = from,
                                !.number = Len(tip) - IndexingDepth, !.barrier = BarrierReason]
  BY DEF BeginReindex
<1>2. /\ op.pc = "idle" /\ poll.pc = "stopped" /\ UNCHANGED <<chainVars, indexer>> /\ marker' = marker
      /\ IndexingDepth <= Len(tip) /\ tip \in Paths
  BY DEF BeginReindex, Free, MInv, Reads
<1> DEFINE n == Len(tip) - IndexingDepth
<1>3. n \in 0..MaxHeight /\ from \in 0..MaxHeight
  BY <1>2, PathType
<1> HIDE DEF n
<1>4. op' \in Operations /\ op'.pc = "resolve" /\ op'.type = "REINDEX"
  <2>1. /\ "resolve" \in OpSteps /\ "REINDEX" \in Kinds /\ BarrierReason \in Reasons /\ Idle \in Operations
        /\ op' = [Idle EXCEPT !.pc = "resolve", !.type = "REINDEX", !.from = from,
                              !.number = n, !.barrier = BarrierReason]
    BY <1>1, BarrierReasonType, IdleType DEF OpSteps, Kinds, n
  <2> HIDE DEF Idle
  <2> QED BY <1>3, <2>1 DEF Operations
<1>5. Agreement'
  BY <1>1, <1>2, <1>4 DEF MInv, Agreement, Marked, Transition
<1>6. RowsBehind' /\ Rebuilding'
  BY <1>2, <1>4, Kept DEF MInv, RowsBehind, Behind, Rebuilding
<1> QED BY <1>2, <1>4, <1>5, <1>6, Kept, Bookkeeping

LEMMA ResolveTargetKeeps ==
    ASSUME MInv, ResolveTarget
    PROVE  MInv'
<1>1. /\ op.pc = "resolve" /\ poll.pc = "stopped" /\ UNCHANGED <<chainVars, indexer>> /\ marker' = marker
      /\ marker = Null \/ marker.type = "REBUILD"
      /\ op.type \in Kinds /\ op \in Operations /\ tip \in Paths
  BY NoPoll DEF ResolveTarget, MInv, Reads, Agreement, MaintenanceTypeOK, Operations
<1>2. \/ op' \in Operations /\ op'.pc = "prepare" /\ op'.type = op.type
      \/ op' = Idle
  <2>1. CASE HasBlock(op.number) /\ op' = [op EXCEPT !.pc = "prepare", !.target = BlockAt(op.number)]
    <3>1. op.number \in 0..Len(tip)
      BY <1>1, <2>1, PathType DEF Operations, HasBlock
    <3>2. BlockAt(op.number) \in Blocks \cup {Genesis}
      BY <1>1, <3>1, PrefixType DEF BlockAt, Paths
    <3> QED BY <1>1, <2>1, <3>2 DEF Operations, OpSteps
  <2> QED BY <2>1 DEF ResolveTarget
<1>3. op' \in Operations /\ op'.pc \in {"prepare", "idle"}
  BY <1>2, IdleType
<1>4. Agreement'
  BY <1>1, <1>3 DEF MInv, Agreement, Marked
<1>5. RowsBehind'
  BY <1>1, <1>3, Kept DEF MInv, RowsBehind, Behind
<1>6. Rebuilding'
  <2>1. op.type = "REINDEX"
    BY <1>1 DEF MInv, Agreement
  <2> QED BY <1>2, <2>1, IdleType DEF Rebuilding
<1> QED BY <1>1, <1>3, <1>4, <1>5, <1>6, Kept, Bookkeeping

LEMMA ResumeReindexKeeps ==
    ASSUME MInv, ResumeReindex
    PROVE  MInv'
<1>1. /\ op.pc = "idle" /\ poll.pc = "stopped" /\ UNCHANGED <<chainVars, indexer>> /\ marker' = marker
      /\ marker # Null /\ marker.type = "REINDEX" /\ marker \in Markers
      /\ op' = [Idle EXCEPT !.pc = "activate", !.type = "REINDEX", !.from = marker.from,
                            !.target = marker.target, !.barrier = BarrierReason]
  BY DEF ResumeReindex, Free, MInv, MaintenanceTypeOK
<1>2. op' \in Operations /\ op'.pc = "activate" /\ op'.type = "REINDEX"
  <2>1. /\ "activate" \in OpSteps /\ "REINDEX" \in Kinds /\ BarrierReason \in Reasons /\ Idle \in Operations
        /\ marker.from \in 0..MaxHeight /\ marker.target \in Blocks \cup {Genesis}
    BY <1>1, BarrierReasonType, IdleType DEF OpSteps, Kinds, Markers
  <2> HIDE DEF Idle
  <2> QED BY <1>1, <2>1 DEF Operations
<1>3. Agreement'
  BY <1>1, <1>2 DEF MInv, Agreement, Marked
<1>4. RowsBehind' /\ Rebuilding'
  BY <1>1, <1>2, Kept DEF MInv, RowsBehind, Behind, Rebuilding
<1> QED BY <1>1, <1>2, <1>3, <1>4, Kept, Bookkeeping

LEMMA WritePreparedKeeps ==
    ASSUME MInv, WritePrepared
    PROVE  MInv'
<1>1. /\ op.pc = "prepare" /\ poll.pc = "stopped" /\ UNCHANGED <<chainVars, indexer>>
      /\ marker' = [type |-> op.type, stage |-> "PREPARED", incomplete |-> FALSE,
                    phase |-> "NONE", from |-> op.from, target |-> op.target]
      /\ Step("activate") /\ op \in Operations
  BY NoPoll DEF WritePrepared, MInv, MaintenanceTypeOK
<1>2. op' \in Operations /\ op'.pc = "activate" /\ op'.type = op.type
  BY <1>1, Stepped DEF OpSteps
<1>3. marker' \in Markers /\ marker' # Null /\ marker'.type = op.type /\ marker'.phase = "NONE"
  <2>1. op.type \in Kinds /\ op.from \in 0..MaxHeight /\ op.target \in Blocks \cup {Genesis}
    BY <1>1 DEF Operations
  <2>2. marker' \in Markers
    BY <1>1, <2>1 DEF Markers
  <2> QED BY <1>1, <2>2
<1>4. Agreement'
  BY <1>2, <1>3 DEF Agreement, Marked
<1>5. rows = Chain(checkpoint)
  BY <1>1, NotBehind DEF MInv, Agreement
<1>6. RowsBehind' /\ Rebuilding'
  BY <1>1, <1>2, <1>5, Kept DEF MInv, RowsBehind, Rebuilding
<1> QED BY <1>1, <1>2, <1>3, <1>4, <1>6, Bookkeeping

\* Marker and operation agree on which of the two it is.
LEMMA UnderMarker ==
    ASSUME MInv, op.pc \in Marked
    PROVE  marker \in Markers /\ marker # Null /\ marker.type = op.type /\ op \in Operations
BY DEF MInv, MaintenanceTypeOK, Agreement

LEMMA WriteActiveKeeps ==
    ASSUME MInv, WriteActive
    PROVE  MInv'
<1>1. /\ op.pc = "activate" /\ poll.pc = "stopped" /\ UNCHANGED <<chainVars, indexer>>
      /\ marker' = [marker EXCEPT !.stage = "ACTIVE", !.incomplete = FALSE]
      /\ Step(AfterActive) /\ marker \in Markers /\ marker.type = op.type /\ op \in Operations
  BY NoPoll, UnderMarker DEF WriteActive, Marked
<1>2. /\ AfterActive \in {"phase", "replay"} /\ AfterActive \in OpSteps
      /\ AfterActive = "phase" => op.type = "REINDEX"
  BY DEF AfterActive, OpSteps
<1>3. op' \in Operations /\ op'.pc = AfterActive /\ op'.type = op.type
  BY <1>1, <1>2, Stepped
<1>4. /\ marker' \in Markers /\ marker' # Null /\ marker'.type = marker.type
      /\ marker'.phase = marker.phase
  BY <1>1 DEF Markers
<1>5. Agreement'
  BY <1>1, <1>2, <1>3, <1>4 DEF MInv, Agreement, Marked
<1>6. RowsBehind'
  BY <1>1, <1>2, <1>3, <1>4, Kept DEF MInv, RowsBehind, Behind
<1>7. Rebuilding'
  BY <1>1, <1>3, Kept DEF MInv, Rebuilding
<1> QED BY <1>1, <1>3, <1>4, <1>5, <1>6, <1>7, Bookkeeping

LEMMA RecordPreparingKeeps ==
    ASSUME MInv, RecordPreparing
    PROVE  MInv'
<1>1. /\ op.pc = "phase" /\ poll.pc = "stopped" /\ UNCHANGED <<chainVars, indexer>>
      /\ marker' = [marker EXCEPT !.phase = "PREPARING"]
      /\ Step("rewind") /\ marker \in Markers /\ marker.type = op.type /\ op \in Operations
      /\ op.type = "REINDEX"
  BY NoPoll, UnderMarker DEF RecordPreparing, Marked, MInv, Agreement
<1>2. op' \in Operations /\ op'.pc = "rewind" /\ op'.type = op.type
  BY <1>1, Stepped DEF OpSteps
<1>3. marker' \in Markers /\ marker' # Null /\ marker'.type = marker.type /\ marker'.phase = "PREPARING"
  BY <1>1 DEF Markers
<1>4. Agreement' /\ RowsBehind' /\ Rebuilding'
  BY <1>1, <1>2, <1>3 DEF Agreement, Marked, RowsBehind, Behind, Rebuilding
<1> QED BY <1>1, <1>2, <1>3, <1>4, Bookkeeping

\* The blocks of a path below a number are a path, and end in its last block.
LEMMA Rewound ==
    ASSUME NEW b \in Paths, NEW from \in Nat, canonical = Ancestry(b)
    PROVE  \E p \in Paths :
              /\ {c \in canonical : Len(c) < from} = Ancestry(p)
              /\ Previous(from) = p
              /\ \E n \in 0..Len(b) : p = SubSeq(b, 1, n)
<1> DEFINE k == IF from = 0 THEN 0 ELSE IF from - 1 < Len(b) THEN from - 1 ELSE Len(b)
           p == SubSeq(b, 1, k)
           low == {c \in canonical : Len(c) < from}
<1>1. Len(b) \in Nat /\ \A n \in 0..Len(b) : Len(SubSeq(b, 1, n)) = n
  BY PathType, PrefixType
<1>2. k \in 0..Len(b) /\ k \in Nat /\ \A n \in 1..Len(b) : n < from <=> n <= k
  BY <1>1
<1> HIDE DEF k
<1>3. p \in Paths /\ Len(p) = k /\ \A n \in 0..k : SubSeq(p, 1, n) = SubSeq(b, 1, n)
  BY <1>2, PrefixType, PrefixPrefix
<1>4. Ancestry(b) = {SubSeq(b, 1, n) : n \in 1..Len(b)}
  BY ChainOf
<1>p. \E n \in 0..Len(b) : p = SubSeq(b, 1, n)
  BY <1>2
<1> HIDE DEF p
<1>5. Ancestry(p) = {SubSeq(p, 1, n) : n \in 1..k}
  BY <1>3, ChainOf
<1>6. low = Ancestry(p)
  <2>1. ASSUME NEW c \in low PROVE c \in Ancestry(p)
    <3>1. PICK n \in 1..Len(b) : c = SubSeq(b, 1, n)
      BY <1>4
    <3>2. n \in 0..Len(b)
      BY <1>1
    <3>3. n < from
      BY <1>1, <3>1, <3>2
    <3>4. n \in 1..k /\ n \in 0..k
      BY <1>1, <1>2, <3>3
    <3>5. c = SubSeq(p, 1, n)
      BY <1>3, <3>1, <3>4
    <3> QED BY <1>5, <3>4, <3>5
  <2>2. ASSUME NEW c \in Ancestry(p) PROVE c \in low
    <3>1. PICK n \in 1..k : c = SubSeq(p, 1, n)
      BY <1>5
    <3>2. n \in 0..k /\ n \in 1..Len(b) /\ n \in 0..Len(b)
      BY <1>1, <1>2
    <3>3. c = SubSeq(b, 1, n)
      BY <1>3, <3>1, <3>2
    <3>4. Len(c) < from /\ c \in Ancestry(b)
      BY <1>1, <1>2, <1>4, <3>2, <3>3
    <3> QED BY <3>4
  <2> HIDE DEF low
  <2> QED BY <2>1, <2>2
<1> HIDE DEF low
<1>7. Highest(low) = p
  <2>1. \A n \in 1..k : Len(SubSeq(p, 1, n)) = n
    <3> SUFFICES ASSUME NEW n \in 1..k PROVE Len(SubSeq(p, 1, n)) = n
      OBVIOUS
    <3>1. n \in 0..k /\ n \in 0..Len(b)
      BY <1>1, <1>2
    <3> QED BY <1>1, <1>3, <3>1
  <2>2. \A c \in low : Len(c) <= Len(p)
    BY <1>2, <1>3, <1>5, <1>6, <2>1
  <2>3. p \in low \cup {Genesis}
    BY <1>3, <1>6, PathEnd
  <2>4. ASSUME NEW c \in low \cup {Genesis}, \A d \in low : Len(d) <= Len(c)
        PROVE  c = p
    <3>1. Len(Genesis) = 0 /\ Genesis \in Paths
      BY PathType DEF Paths
    <3>2. CASE p = Genesis
      <4>1. k = 0
        BY <1>3, <3>1, <3>2
      <4>2. low = {}
        BY <1>5, <1>6, <4>1
      <4> QED BY <3>2, <4>2
    <3>3. CASE p # Genesis
      <4>1. p \in low /\ k > 0
        BY <1>3, <2>3, <3>3, PathType
      <4>2. k <= Len(c)
        BY <1>3, <2>4, <4>1
      <4>3. c \in low
        BY <1>2, <2>4, <3>1, <4>1, <4>2
      <4>4. PICK n \in 1..k : c = SubSeq(p, 1, n)
        BY <1>5, <1>6, <4>3
      <4>5. n = k
        BY <1>2, <2>1, <4>2, <4>4
      <4>6. SubSeq(p, 1, Len(p)) = p
        BY <1>3, WholePath
      <4> QED BY <1>3, <4>4, <4>5, <4>6
    <3> QED BY <3>2, <3>3
  <2>5. Highest(low) = CHOOSE c \in low \cup {Genesis} : \A d \in low : Len(d) <= Len(c)
    BY DEF Highest
  <2> QED BY <2>2, <2>3, <2>4, <2>5
<1> QED BY <1>3, <1>p, <1>6, <1>7 DEF Previous, low

\* The blocks of a path, lowest first, are the path.
LEMMA Replayed ==
    ASSUME NEW b \in Paths
    PROVE  InOrder(Ancestry(b)) = Chain(b)
<1>1. Len(b) \in Nat /\ 0 \in 0..Len(b) /\ Len(b) - 0 = Len(b) /\ 0 + 1 = 1
  BY PathType
<1>2. InOrder(Above(b, 0)) = [i \in 1..(Len(b) - 0) |-> SubSeq(b, 1, 0 + i)]
  BY <1>1, Ordered
<1>3. Above(b, 0) = Ancestry(b)
  BY <1>1, ChainOf DEF Above
<1>4. \A i \in 1..Len(b) : 0 + i = i
  BY <1>1
<1>5. [i \in 1..(Len(b) - 0) |-> SubSeq(b, 1, 0 + i)] = [i \in 1..Len(b) |-> SubSeq(b, 1, i)]
  BY <1>1, <1>4
<1> QED BY <1>2, <1>3, <1>5 DEF Chain

LEMMA RootPath ==
    Genesis \in Paths /\ Ancestry(Genesis) = {} /\ Chain(Genesis) = <<>>
<1>1. Genesis \in Paths /\ Len(Genesis) = 0
  BY PathType DEF Paths
<1>2. Chain(Genesis) \in Seq(Blocks) /\ Len(Chain(Genesis)) = 0 /\ Ancestry(Genesis) = {}
  BY <1>1, ChainOf
<1> QED BY <1>1, <1>2, EmptySeq

\* A rewind of either kind: less of the path is left, and the rows are marked.
LEMMA RewindKeeps ==
    ASSUME MInv, RewindFrom \/ RefreshSource
    PROVE  MInv'
<1>1. /\ op.pc = "rewind" /\ poll.pc = "stopped" /\ marker \in Markers /\ marker # Null
      /\ marker.type = op.type /\ marker.phase = "PREPARING" /\ op.type = "REINDEX"
      /\ op \in Operations /\ marker' = marker /\ UNCHANGED <<chainVars, poll>> /\ rows' = rows
      /\ journal \in [Blocks -> Contained] /\ rows \in Seq(Blocks) /\ checkpoint \in Paths
      /\ canonical = Ancestry(checkpoint) /\ \A b \in canonical : journal[b] # "absent"
      /\ canonical \subseteq Blocks
      /\ status \in Statuses /\ reason \in Reasons
  <2>1. op.pc = "rewind" /\ marker' = marker /\ UNCHANGED <<chainVars, poll>> /\ rows' = rows
    BY DEF RewindFrom, RefreshSource, indexer, store
  <2> QED BY <2>1, NoPoll, UnderMarker
          DEF Marked, MInv, Agreement, MaintenanceTypeOK, Contained, Reads, Held, Statuses
<1>2. PICK x \in {"replay", "failed"} : Step(x)
  BY DEF RewindFrom, RefreshSource
<1>3. op' \in Operations /\ op'.pc = x /\ op'.type = op.type
  BY <1>1, <1>2, Stepped DEF OpSteps
<1>4. Agreement' /\ RowsBehind' /\ Rebuilding'
  BY <1>1, <1>3 DEF Agreement, Marked, RowsBehind, Behind, Rebuilding
<1>5. CASE RefreshSource /\ UNCHANGED <<chainVars, indexer, marker>>
  BY <1>1, <1>3, <1>4, <1>5, Bookkeeping
<1>6. ASSUME NEW why \in Reasons, ReindexStarted(why)
      PROVE  status' \in Statuses /\ reason' \in Reasons /\ TornIsFlagged'
  BY <1>1, <1>6 DEF ReindexStarted, Statuses, TornIsFlagged, Suspect
<1>7. CASE RewindFrom
  <2>1. /\ canonical' = {b \in canonical : Len(b) < op.from} /\ checkpoint' = Previous(op.from)
        /\ journal' = journal /\ ReindexStarted("REINDEX_REQUESTED") /\ "REINDEX_REQUESTED" \in Reasons
    BY <1>7 DEF RewindFrom, Reasons
  <2>2. op.from \in Nat
    BY <1>1 DEF Operations
  <2>3. PICK p \in Paths : canonical' = Ancestry(p) /\ checkpoint' = p
    BY <1>1, <2>1, <2>2, Rewound
  <2>4. Held'
    BY <1>1, <2>1, <2>3 DEF Held
  <2> QED BY <1>1, <1>3, <1>4, <1>6, <2>1, <2>3, <2>4, OffPoll
<1>8. CASE /\ journal' = [b \in Blocks |-> "absent"]
           /\ canonical' = {} /\ checkpoint' = Genesis
           /\ ReindexStarted("SOURCE_REFRESH_REINDEX_REQUESTED")
  <2>1. "SOURCE_REFRESH_REINDEX_REQUESTED" \in Reasons
    BY DEF Reasons
  <2>2. journal' \in [Blocks -> Contained]
    BY <1>8 DEF Contained
  <2>3. checkpoint' \in Paths /\ Held'
    BY <1>8, RootPath DEF Held
  <2> QED BY <1>1, <1>3, <1>4, <1>6, <1>8, <2>1, <2>2, <2>3, OffPoll
<1> QED BY <1>5, <1>7, <1>8 DEF RefreshSource

\* The replay makes the rows those of the stored path again.
LEMMA ReplayRows ==
    ASSUME MInv, Replay
    PROVE  /\ op.pc = "replay" /\ rows' = Chain(checkpoint') /\ rows' \in Seq(Blocks)
           /\ journal' = journal /\ canonical' = canonical /\ checkpoint' = checkpoint
<1>1. /\ op.pc = "replay" /\ rows' = InOrder(canonical)
      /\ journal' = journal /\ canonical' = canonical /\ checkpoint' = checkpoint
      /\ canonical = Ancestry(checkpoint) /\ checkpoint \in Paths
  BY DEF Replay, MInv, Held, Reads
<1>2. InOrder(canonical) = Chain(checkpoint)
  BY <1>1, Replayed
<1> QED BY <1>1, <1>2, ChainOf

LEMMA ReplayKeeps ==
    ASSUME MInv, Replay
    PROVE  MInv'
<1>1. /\ op.pc = "replay" /\ rows' = Chain(checkpoint') /\ rows' \in Seq(Blocks)
      /\ journal' = journal /\ canonical' = canonical /\ checkpoint' = checkpoint
  BY ReplayRows
<1>2. /\ poll.pc = "stopped" /\ marker \in Markers /\ marker # Null
      /\ marker.type = op.type /\ op \in Operations /\ op.type \in Kinds
      /\ marker' = marker /\ UNCHANGED <<chainVars, poll>>
  BY <1>1, NoPoll, UnderMarker DEF Replay, Marked, Operations
<1> DEFINE x == IF op.type = "REINDEX" THEN "catching" ELSE "complete"
<1>3. x \in OpSteps /\ Step(x)
  BY DEF Replay, OpSteps
<1>4. op' \in Operations /\ op'.pc = x /\ op'.type = op.type
  <2> HIDE DEF x
  <2> QED BY <1>2, <1>3, Stepped
<1>5. Agreement'
  BY <1>1, <1>2, <1>4 DEF MInv, Agreement, Marked, Kinds
<1>6. RowsBehind' /\ TornIsFlagged' /\ Rebuilding'
  BY <1>1, <1>4 DEF RowsBehind, TornIsFlagged, Suspect, Rebuilding
<1>7. status' \in Statuses /\ reason' \in Reasons
  BY DEF Replay, MInv, MaintenanceTypeOK, Statuses, Reasons
<1>8. journal' \in [Blocks -> Contained] /\ checkpoint' \in Paths /\ Held'
  BY <1>1 DEF MInv, MaintenanceTypeOK, Contained, Reads, Held
<1> QED BY <1>1, <1>2, <1>4, <1>5, <1>6, <1>7, <1>8, OffPoll

\* A step that says something of the status and goes on under the same marker.
LEMMA StatusStep ==
    ASSUME MInv, op.pc \in {"replay", "complete", "failed"}, UNCHANGED <<chainVars, store, poll, marker>>,
           status' \in Statuses, reason' \in Reasons,
           op' \in Operations, op'.type = op.type, op'.pc \in {"clear", "failed", "mark"},
           op'.pc = "clear" => op.pc = "complete",
           TornIsFlagged'
    PROVE  MInv'
<1>1. /\ poll.pc = "stopped" /\ marker \in Markers /\ marker # Null /\ marker.type = op.type
      /\ marker' = marker /\ UNCHANGED <<chainVars, poll>>
      /\ journal' = journal /\ canonical' = canonical /\ rows' = rows /\ checkpoint' = checkpoint
  BY NoPoll, UnderMarker DEF Marked, store
<1>2. Agreement'
  BY <1>1 DEF MInv, Agreement, Marked
<1>3. RowsBehind' /\ Rebuilding'
  BY <1>1 DEF MInv, RowsBehind, Behind, Rebuilding
<1>4. /\ journal' \in [Blocks -> Contained] /\ rows' \in Seq(Blocks) /\ checkpoint' \in Paths /\ Held'
  BY <1>1 DEF MInv, MaintenanceTypeOK, Contained, Reads, Held
<1> QED BY <1>1, <1>2, <1>3, <1>4, OffPoll

LEMMA ReplayFailsKeeps ==
    ASSUME MInv, ReplayFails
    PROVE  MInv'
<1>1. /\ op.pc = "replay" /\ status' = "RECOVERY_REQUIRED" /\ reason' \in Reasons
      /\ op' = [op EXCEPT !.pc = "failed", !.incomplete = ~ SourceVerified]
      /\ UNCHANGED <<chainVars, store, poll, marker>> /\ op \in Operations
  BY DEF ReplayFails, Reasons, MInv, MaintenanceTypeOK
<1>2. op' \in Operations /\ op'.pc = "failed" /\ op'.type = op.type
  <2>1. "failed" \in OpSteps /\ (~ SourceVerified) \in BOOLEAN
    BY DEF OpSteps
  <2> QED BY <1>1, <2>1 DEF Operations
<1> QED BY <1>1, <1>2, StatusStep DEF Statuses, TornIsFlagged, Suspect

\* An operation that completes has the rows of the stored path under it.
LEMMA CompleteRows ==
    ASSUME MInv, op.pc \in {"complete", "clear"}
    PROVE  rows = Chain(checkpoint)
<1>1. marker # Null /\ marker.type = op.type /\ op.type \in Kinds
  BY UnderMarker DEF Marked, Operations
<1>2. marker.phase # "PREPARING"
  BY <1>1 DEF MInv, Agreement, Kinds
<1> QED BY <1>2, NotBehind

LEMMA CompleteKeeps ==
    ASSUME MInv, Complete
    PROVE  MInv'
<1>1. /\ op.pc = "complete" /\ UNCHANGED <<chainVars, store, poll, marker>> /\ op \in Operations
      /\ rows' = rows /\ checkpoint' = checkpoint /\ rows = Chain(checkpoint)
  BY CompleteRows DEF Complete, store, MInv, MaintenanceTypeOK
<1>2. status' \in Statuses /\ reason' \in Reasons /\ TornIsFlagged'
  BY <1>1 DEF Complete, MInv, MaintenanceTypeOK, Statuses, Reasons, TornIsFlagged, Suspect
<1>3. PICK x \in {"clear", "failed"} : Step(x)
  BY DEF Complete
<1>4. op' \in Operations /\ op'.pc = x /\ op'.type = op.type
  BY <1>1, <1>3, Stepped DEF OpSteps
<1> QED BY <1>1, <1>2, <1>4, StatusStep

LEMMA RestoreBarrierKeeps ==
    ASSUME MInv, RestoreBarrier
    PROVE  MInv'
<1>1. /\ op.pc = "failed" /\ UNCHANGED <<chainVars, store, poll, marker>> /\ op \in Operations
      /\ rows' = rows /\ checkpoint' = checkpoint /\ op.barrier \in Reasons /\ Step("mark")
  BY DEF RestoreBarrier, store, MInv, MaintenanceTypeOK, Operations
<1>2. status' \in Statuses /\ reason' \in Reasons /\ TornIsFlagged'
  BY <1>1 DEF RestoreBarrier, MInv, MaintenanceTypeOK, Statuses, TornIsFlagged, Suspect
<1>3. op' \in Operations /\ op'.pc = "mark" /\ op'.type = op.type
  BY <1>1, Stepped DEF OpSteps
<1> QED BY <1>1, <1>2, <1>3, StatusStep

LEMMA RecordCatchingUpKeeps ==
    ASSUME MInv, RecordCatchingUp
    PROVE  MInv'
<1>1. /\ op.pc = "catching" /\ poll.pc = "stopped" /\ UNCHANGED <<chainVars, indexer>>
      /\ marker' = [marker EXCEPT !.phase = "CATCHING_UP"]
      /\ Step("catchup") /\ marker \in Markers /\ marker.type = op.type /\ op \in Operations
      /\ op.type = "REINDEX"
  BY NoPoll, UnderMarker DEF RecordCatchingUp, Marked, MInv, Agreement
<1>2. op' \in Operations /\ op'.pc = "catchup" /\ op'.type = op.type
  BY <1>1, Stepped DEF OpSteps
<1>3. marker' \in Markers /\ marker' # Null /\ marker'.type = marker.type /\ marker'.phase = "CATCHING_UP"
  BY <1>1 DEF Markers
<1>4. rows = Chain(checkpoint)
  BY <1>1, NotBehind
<1>5. Agreement' /\ RowsBehind' /\ Rebuilding'
  BY <1>1, <1>2, <1>3, <1>4, Kept DEF Agreement, Marked, RowsBehind, Rebuilding
<1> QED BY <1>1, <1>2, <1>3, <1>5, Bookkeeping

LEMMA CatchUpKeeps ==
    ASSUME MInv, CatchUp
    PROVE  MInv'
<1>1. /\ op.pc = "catchup" /\ poll.pc = "stopped" /\ marker' = marker
      /\ marker # Null /\ marker \in Markers /\ marker.type = op.type /\ marker.phase = "CATCHING_UP"
      /\ op.type = "REINDEX" /\ op \in Operations
  BY UnderMarker DEF CatchUp, Marked, MInv, Agreement
<1>2. rows = Chain(checkpoint)
  BY <1>1, NotBehind
<1>3. CASE Step("complete") /\ UNCHANGED <<chainVars, indexer, marker>>
  <2>1. op' \in Operations /\ op'.pc = "complete" /\ op'.type = op.type
    BY <1>1, <1>3, Stepped DEF OpSteps
  <2>2. Agreement' /\ RowsBehind' /\ Rebuilding'
    BY <1>1, <1>2, <1>3, <2>1, Kept DEF Agreement, Marked, RowsBehind, Rebuilding
  <2> QED BY <1>1, <1>3, <2>1, <2>2, Bookkeeping
<1>4. CASE /\ poll' = Poll("begin", TRUE, Len(op.target))
           /\ UNCHANGED <<chainVars, store, status, reason, marker, op>>
  <2>1. Len(op.target) \in 0..MaxHeight
    <3>1. op.target \in Paths
      BY <1>1 DEF Operations, Paths
    <3> QED BY <3>1, PathType
  <2>2. /\ UNCHANGED <<chainVars, store, marker>> /\ op' = op /\ rows' = rows /\ checkpoint' = checkpoint
        /\ status' \in Statuses /\ reason' \in Reasons
    BY <1>4 DEF store, MInv, MaintenanceTypeOK, Statuses
  <2>3. Agreement' /\ RowsBehind' /\ TornIsFlagged' /\ Rebuilding'
    BY <1>1, <1>2, <2>2 DEF Agreement, Marked, RowsBehind, TornIsFlagged, Suspect, Rebuilding
  <2> QED BY <1>1, <1>4, <2>1, <2>2, <2>3, PollSet
<1> QED BY <1>3, <1>4 DEF CatchUp

LEMMA PollEndsKeeps ==
    ASSUME MInv, PollEnds
    PROVE  MInv'
<1>1. /\ op.pc = "catchup" /\ poll.pc # "stopped" /\ marker' = marker
      /\ marker # Null /\ marker.type = op.type /\ marker.phase = "CATCHING_UP"
      /\ op.type = "REINDEX" /\ op \in Operations
      /\ poll' = Poll("stopped", FALSE, MaxHeight) /\ UNCHANGED <<chainVars, store, marker>>
      /\ rows' = rows /\ checkpoint' = checkpoint /\ status' \in Statuses /\ reason' \in Reasons
  BY UnderMarker DEF PollEnds, Marked, MInv, Agreement, MaintenanceTypeOK, Statuses, store
<1>2. rows = Chain(checkpoint)
  BY <1>1, NotBehind
<1>3. PICK x \in {"catchup", "failed"} : Step(x)
  BY DEF PollEnds
<1>4. op' \in Operations /\ op'.pc = x /\ op'.type = op.type
  BY <1>1, <1>3, Stepped DEF OpSteps
<1>5. Agreement' /\ RowsBehind' /\ TornIsFlagged' /\ Rebuilding'
  BY <1>1, <1>2, <1>4 DEF Agreement, Marked, RowsBehind, TornIsFlagged, Suspect, Rebuilding
<1>6. MaxHeight \in 0..MaxHeight
  OBVIOUS
<1> QED BY <1>1, <1>4, <1>5, <1>6, PollSet

LEMMA ClearMarkerKeeps ==
    ASSUME MInv, ClearMarker
    PROVE  MInv'
<1>1. /\ op.pc = "clear" /\ poll.pc = "stopped" /\ UNCHANGED <<chainVars, indexer>>
      /\ marker \in Markers /\ marker # Null /\ marker.type = op.type /\ op \in Operations
  BY NoPoll, UnderMarker DEF ClearMarker, Marked
<1>2. rows' = Chain(checkpoint')
  BY <1>1, Kept, CompleteRows
<1>3. CASE marker' = Null /\ op' = Idle
  <2>1. op' \in Operations /\ op'.pc = "idle"
    BY <1>3, IdleType
  <2>2. Agreement' /\ RowsBehind' /\ Rebuilding'
    BY <1>2, <1>3, <2>1 DEF Agreement, Marked, RowsBehind, Rebuilding
  <2> QED BY <1>1, <1>3, <2>1, <2>2, Bookkeeping
<1>4. CASE Step("failed") /\ marker' = marker
  <2>1. op' \in Operations /\ op'.pc = "failed" /\ op'.type = op.type
    BY <1>1, <1>4, Stepped DEF OpSteps
  <2>2. Agreement' /\ RowsBehind' /\ Rebuilding'
    BY <1>1, <1>2, <1>4, <2>1 DEF MInv, Agreement, Marked, RowsBehind, Rebuilding
  <2> QED BY <1>1, <1>4, <2>1, <2>2, Bookkeeping
<1> QED BY <1>3, <1>4 DEF ClearMarker

LEMMA WriteFailedKeeps ==
    ASSUME MInv, WriteFailed
    PROVE  MInv'
<1>1. /\ op.pc = "mark" /\ poll.pc = "stopped" /\ UNCHANGED <<chainVars, indexer>>
      /\ marker \in Markers /\ marker # Null /\ op \in Operations
      /\ marker' = [marker EXCEPT !.stage = "FAILED", !.incomplete = op.incomplete] /\ op' = Idle
  BY NoPoll, UnderMarker DEF WriteFailed, Marked
<1>2. /\ marker' \in Markers /\ marker' # Null /\ marker'.type = marker.type
      /\ marker'.phase = marker.phase
  <2>1. op.incomplete \in BOOLEAN
    BY <1>1 DEF Operations
  <2> QED BY <1>1, <2>1 DEF Markers
<1>3. op' \in Operations /\ op'.pc = "idle"
  BY <1>1, IdleType
<1>4. Agreement' /\ RowsBehind' /\ Rebuilding'
  BY <1>1, <1>2, <1>3, Kept DEF MInv, Agreement, Marked, RowsBehind, Behind, Rebuilding
<1> QED BY <1>1, <1>2, <1>3, <1>4, Bookkeeping

LEMMA CrashKeeps ==
    ASSUME MInv, Crash
    PROVE  MInv'
<1>1. /\ op' = Idle /\ poll' = Poll("stopped", FALSE, MaxHeight)
      /\ UNCHANGED <<chainVars, store, marker>> /\ marker' = marker
      /\ rows' = rows /\ checkpoint' = checkpoint /\ status' = status /\ reason' = reason
  BY DEF Crash, store
<1>2. op' \in Operations /\ op'.pc = "idle"
  BY <1>1, IdleType
<1>3. status' \in Statuses /\ reason' \in Reasons
  BY <1>1 DEF MInv, MaintenanceTypeOK, Statuses
<1>4. Agreement' /\ RowsBehind' /\ TornIsFlagged' /\ Rebuilding'
  BY <1>1, <1>2 DEF MInv, Agreement, Marked, RowsBehind, Behind, TornIsFlagged, Suspect, Rebuilding
<1>5. MaxHeight \in 0..MaxHeight
  OBVIOUS
<1> QED BY <1>1, <1>2, <1>3, <1>4, <1>5, PollSet

LEMMA DamageKeeps ==
    ASSUME MInv, Damage
    PROVE  MInv'
<1>1. PICK b \in Blocks, d \in Damages : journal' = [journal EXCEPT ![b] = d]
  BY DEF Damage
<1>2. /\ poll.pc = "stopped" /\ UNCHANGED <<chainVars, poll>>
      /\ canonical' = canonical /\ rows' = rows /\ checkpoint' = checkpoint
      /\ status' = status /\ reason' = reason /\ marker' = marker /\ op' = op
      /\ journal \in [Blocks -> Contained] /\ canonical \subseteq Blocks
  BY DEF Damage, Free, MInv, MaintenanceTypeOK, Contained
<1>3. journal' \in [Blocks -> Contained] /\ \A c \in Blocks : journal[c] # "absent" => journal'[c] # "absent"
  BY <1>1, <1>2 DEF Contained
<1>4. Held'
  BY <1>2, <1>3 DEF MInv, Held
<1>5. /\ rows' \in Seq(Blocks) /\ checkpoint' \in Paths /\ status' \in Statuses /\ reason' \in Reasons
      /\ marker' \in Markers \cup {Null} /\ op' \in Operations
  BY <1>2 DEF MInv, MaintenanceTypeOK, Reads, Statuses
<1>6. Agreement' /\ RowsBehind' /\ TornIsFlagged' /\ Rebuilding'
  BY <1>2 DEF MInv, Agreement, RowsBehind, Behind, TornIsFlagged, Suspect, Rebuilding, RebuildAllowed
<1> QED BY <1>2, <1>3, <1>4, <1>5, <1>6, OffPoll

-----------------------------------------------------------------------------
(* The theorems.                                                           *)

LEMMA MaintenanceInitOK == MaintenanceInit => MInv
<1> SUFFICES ASSUME MaintenanceInit PROVE MInv
  OBVIOUS
<1>1. /\ tip = Genesis /\ forks = 0 /\ journal = [b \in Blocks |-> "absent"] /\ canonical = {}
      /\ rows = <<>> /\ checkpoint = Genesis /\ status = "UNINITIALIZED" /\ reason = Null
      /\ poll = Poll("stopped", FALSE, MaxHeight) /\ marker = Null /\ op = Idle
  BY DEF MaintenanceInit, Init
<1>2. poll \in Polls /\ poll.pc = "stopped" /\ ~ poll.maintenance /\ poll.headers = {}
  <2>1. MaxHeight \in 0..MaxHeight
    OBVIOUS
  <2> QED BY <1>1, <2>1, Starting
<1>3. op \in Operations /\ op.pc = "idle"
  BY <1>1, IdleType
<1>4. Reads
  BY <1>1, <1>2, RootPath DEF Reads, CheckpointHeld, Batch, Joined
<1>5. MaintenanceTypeOK
  <2>1. rows \in Seq(Blocks) /\ forks \in 0..MaxForks /\ reason \in Reasons
    BY <1>1 DEF Reasons
  <2>2. journal \in [Blocks -> {"absent", "partial", "complete"} \cup Damages]
    BY <1>1
  <2> QED BY <1>1, <1>2, <1>3, <2>1, <2>2 DEF MaintenanceTypeOK
<1>6. Held /\ RowsBehind /\ TornIsFlagged
  BY <1>1, RootPath DEF Held, RowsBehind, TornIsFlagged, Suspect
<1>7. Locked /\ Agreement /\ Rebuilding
  BY <1>1, <1>2, <1>3 DEF Locked, Agreement, Marked, Rebuilding
<1> QED BY <1>4, <1>5, <1>6, <1>7 DEF MInv

LEMMA MaintenanceNextOK == MInv /\ [MaintenanceNext]_allVars => MInv'
<1> SUFFICES ASSUME MInv, [MaintenanceNext]_allVars PROVE MInv'
  OBVIOUS
<1>1. CASE (Ingest \/ ProviderFailure) /\ UNCHANGED <<marker, op>>
  BY <1>1, IngestPolls, PollStepKeeps
<1>2. CASE (Mine \/ Reorg) /\ UNCHANGED <<marker, op>>
  BY <1>2, ChainKeeps
<1>3. CASE /\ UNCHANGED <<marker, op>>
           /\ \/ op.pc = "idle" /\ marker = Null /\ StartWorker
              \/ NextPoll \/ RetryUnreachable \/ WorkerEnds \/ WorkerKilled
  BY <1>3, WorkerKeeps
<1>4. CASE BeginRebuild \/ BeginReindex \/ ResolveTarget \/ ResumeReindex
  BY <1>4, BeginRebuildKeeps, BeginReindexKeeps, ResolveTargetKeeps, ResumeReindexKeeps
<1>5. CASE WritePrepared \/ WriteActive \/ RecordPreparing \/ RewindFrom \/ RefreshSource
  BY <1>5, WritePreparedKeeps, WriteActiveKeeps, RecordPreparingKeeps, RewindKeeps
<1>6. CASE Replay \/ ReplayFails \/ RecordCatchingUp \/ CatchUp \/ PollEnds
  BY <1>6, ReplayKeeps, ReplayFailsKeeps, RecordCatchingUpKeeps, CatchUpKeeps, PollEndsKeeps
<1>7. CASE Complete \/ ClearMarker \/ RestoreBarrier \/ WriteFailed \/ Crash \/ Damage
  BY <1>7, CompleteKeeps, ClearMarkerKeeps, RestoreBarrierKeeps, WriteFailedKeeps, CrashKeeps, DamageKeeps
<1>8. CASE UNCHANGED allVars
  <2>1. /\ tip' = tip /\ forks' = forks /\ journal' = journal /\ canonical' = canonical
        /\ rows' = rows /\ checkpoint' = checkpoint /\ status' = status /\ reason' = reason
        /\ poll' = poll /\ marker' = marker /\ op' = op
    BY <1>8 DEF allVars, vars, chainVars, store
  <2>2. Reads'
    BY <2>1 DEF MInv, Reads, CheckpointHeld, Batch, Joined, AllHeaders, JoinedRange, Numbers
  <2>3. MaintenanceTypeOK' /\ Held' /\ Locked' /\ Agreement'
    BY <2>1 DEF MInv, MaintenanceTypeOK, Held, Locked, Agreement
  <2>4. RowsBehind' /\ TornIsFlagged' /\ Rebuilding'
    BY <2>1 DEF MInv, RowsBehind, Behind, TornIsFlagged, Suspect, Rebuilding, RebuildAllowed
  <2> QED BY <2>2, <2>3, <2>4 DEF MInv
<1> QED BY <1>1, <1>2, <1>3, <1>4, <1>5, <1>6, <1>7, <1>8
        DEF MaintenanceNext, Operation, IndexerSteps, Surroundings

\* The invariant the others rest on: where the read model, its marker and the
\* running operation can stand, wherever any of them failed or died
\* (runProjectionMaintenance).
THEOREM MaintenanceInductive == MaintenanceSpec => []MInv
BY MaintenanceInitOK, MaintenanceNextOK, PTL DEF MaintenanceSpec

\* Every state has its type, the checkpoint's block is always stored as
\* canonical, and no poll under the lock is anyone's but the operation's.
THEOREM MaintenanceTyped == MaintenanceSpec => []MaintenanceTypeOK
<1>1. MInv => MaintenanceTypeOK
  BY DEF MInv
<1> QED BY <1>1, MaintenanceInductive, PTL

\* When no marker is left the read model is that of one chain up to its
\* checkpoint, whatever operations failed, died and were resumed before
\* (runProjectionMaintenance clears the marker last).
THEOREM UnmarkedCorrect == MaintenanceSpec => []UnmarkedIsOneBranch
<1>1. MInv => UnmarkedIsOneBranch
  <2> SUFFICES ASSUME MInv, marker = Null PROVE OneBranch
    BY DEF UnmarkedIsOneBranch
  <2> QED BY NotBehind DEF MInv, Held, OneBranch
<1> QED BY <1>1, MaintenanceInductive, PTL

\* Rows that do not follow from the stored blocks are always marked as to be
\* rebuilt or recovered (markReindexStarted, RestoreBarrier's handler).
THEOREM TornFlagged == MaintenanceSpec => []TornIsFlagged
<1>1. MInv => TornIsFlagged
  BY DEF MInv
<1> QED BY <1>1, MaintenanceInductive, PTL

LEMMA LiftedByRepair ==
    ASSUME MInv, [MaintenanceNext]_allVars, status = "RECOVERY_REQUIRED", status' # "RECOVERY_REQUIRED"
    PROVE  /\ rows' = Chain(checkpoint')
           /\ reason # "PROJECTOR_INTEGRITY" =>
                 op.type = "REINDEX" /\ op.target \in Ancestry(checkpoint')
<1>1. CASE Replay
  <2>1. op.pc = "replay" /\ rows' = Chain(checkpoint')
    BY <1>1, ReplayRows
  <2>2. op.type # "REINDEX" /\ op.type \in Kinds
    BY <1>1 DEF Replay, PreservesBarrier, MInv, MaintenanceTypeOK, Operations
  <2>3. op.type = "REBUILD"
    BY <2>2 DEF Kinds
  <2>4. reason = "PROJECTOR_INTEGRITY"
    BY <2>1, <2>3 DEF MInv, Rebuilding, RebuildAllowed
  <2> QED BY <2>1, <2>4
<1>2. CASE Complete
  <2>1. /\ op.pc = "complete" /\ rows' = rows /\ checkpoint' = checkpoint
        /\ op.type # "REBUILD" /\ op.type \in Kinds /\ op.target \in canonical
    BY <1>2 DEF Complete, store, MInv, MaintenanceTypeOK, Operations
  <2>2. rows = Chain(checkpoint) /\ canonical = Ancestry(checkpoint)
    BY <2>1, CompleteRows DEF MInv, Held
  <2> QED BY <2>1, <2>2 DEF Kinds
<1>3. ~ ((Ingest \/ ProviderFailure) /\ UNCHANGED <<marker, op>>)
  BY IngestPolls DEF PollStep
<1>4. ~ Mine /\ ~ Reorg /\ ~ StartWorker /\ ~ NextPoll /\ ~ RetryUnreachable /\ ~ WorkerEnds /\ ~ WorkerKilled
  BY DEF Mine, Reorg, StartWorker, NextPoll, RetryUnreachable, WorkerEnds, WorkerKilled
<1>5. ~ BeginRebuild /\ ~ BeginReindex /\ ~ ResolveTarget /\ ~ ResumeReindex /\ ~ WritePrepared /\ ~ WriteActive
      /\ ~ RecordPreparing /\ ~ RecordCatchingUp /\ ~ ClearMarker /\ ~ WriteFailed
  BY DEF BeginRebuild, BeginReindex, ResolveTarget, ResumeReindex, WritePrepared, WriteActive,
         RecordPreparing, RecordCatchingUp, ClearMarker, WriteFailed, indexer
<1>6. ~ RewindFrom /\ ~ RefreshSource
  BY DEF RewindFrom, RefreshSource, ReindexStarted, indexer
<1>7. ~ ReplayFails /\ ~ CatchUp /\ ~ PollEnds /\ ~ RestoreBarrier /\ ~ Crash /\ ~ Damage
  BY DEF ReplayFails, CatchUp, PollEnds, RestoreBarrier, Crash, Damage, indexer
<1>8. ~ UNCHANGED allVars
  BY DEF allVars, vars
<1> QED BY <1>1, <1>2, <1>3, <1>4, <1>5, <1>6, <1>7, <1>8
        DEF MaintenanceNext, Operation, IndexerSteps, Surroundings

\* The barrier comes down only with the rows of the stored path under it, and by
\* the repair its reason asks for (rebuildFromJournal, completeReindexRecovery).
THEOREM BarrierLifted == MaintenanceSpec => BarrierLiftedByRepair
<1>1. MInv /\ [MaintenanceNext]_allVars =>
        [status = "RECOVERY_REQUIRED" /\ status' # "RECOVERY_REQUIRED" =>
           /\ rows' = Chain(checkpoint')
           /\ reason # "PROJECTOR_INTEGRITY" =>
                 op.type = "REINDEX" /\ op.target \in Ancestry(checkpoint')]_allVars
  BY LiftedByRepair
<1> QED BY <1>1, MaintenanceInductive, PTL DEF MaintenanceSpec, BarrierLiftedByRepair

-----------------------------------------------------------------------------
(* The refinement: what the readers see.                                   *)

\* A path stands for the same rows on both sides.
LEMMA ShownPath ==
    \A b : Shown!Path(b) = Chain(b)
BY DEF Shown!Path, Chain

LEMMA ShownInit == MaintenanceInit => Shown!Init
BY DEF MaintenanceInit, Init, Shown!Init, Suspect, Genesis

\* A step that leaves rows and checkpoint alone says or unsays that they are
\* suspect, and unsays it only of rows that are not.
LEMMA StatusShown ==
    ASSUME MInv', rows' = rows, checkpoint' = checkpoint
    PROVE  Shown!Next
<1>1. rows' # Chain(checkpoint') => Suspect'
  BY DEF MInv, TornIsFlagged
<1>2. CASE Suspect'
  <2>1. Shown!Suspect
    BY <1>2 DEF Shown!Suspect
  <2> QED BY <2>1 DEF Shown!Next
<1>3. CASE ~ Suspect'
  <2>1. Shown!InStep
    BY <1>1, <1>3, ShownPath DEF Shown!InStep
  <2>2. Shown!Trust
    BY <1>3, <2>1 DEF Shown!Trust
  <2> QED BY <2>2 DEF Shown!Next
<1> QED BY <1>2, <1>3

\* A batch extends the branch and the rows together.
LEMMA PollShown ==
    ASSUME MInv, MInv', PollStep
    PROVE  Shown!Next
<1>1. rows = Chain(checkpoint) /\ rows' = Chain(checkpoint')
  BY WhilePolling DEF PollStep, StoreReached
<1>2. CASE checkpoint' = checkpoint
  BY <1>1, <1>2, StatusShown
<1>3. CASE checkpoint' \in Blocks /\ IsPrefix(checkpoint, checkpoint') /\ status' = status
  <2>1. Shown!InStep /\ rows' = Shown!Path(checkpoint')
    BY <1>1, ShownPath DEF Shown!InStep
  <2>2. Suspect' = Suspect
    BY <1>3 DEF Suspect
  <2>3. \E b \in Blocks : Shown!IsPrefix(checkpoint, b) /\ checkpoint' = b
    BY <1>3 DEF IsPrefix, Shown!IsPrefix
  <2>4. Shown!Extend
    BY <2>1, <2>2, <2>3 DEF Shown!Extend
  <2> QED BY <2>4 DEF Shown!Next
<1> QED BY <1>2, <1>3 DEF PollStep

\* A rewind of either kind cuts the branch back, and says so.
LEMMA RewindShown ==
    ASSUME MInv, MInv', RewindFrom \/ RefreshSource
    PROVE  Shown!Next
<1>1. rows' = rows /\ checkpoint \in Paths /\ canonical = Ancestry(checkpoint) /\ op \in Operations
  BY DEF RewindFrom, RefreshSource, indexer, store, MInv, Reads, Held, MaintenanceTypeOK
<1>2. CASE RefreshSource /\ UNCHANGED <<chainVars, indexer, marker>>
  BY <1>2, StatusShown DEF indexer, store
<1>3. ASSUME NEW why, ReindexStarted(why), \E n \in 0..Len(checkpoint) : checkpoint' = SubSeq(checkpoint, 1, n)
      PROVE  Shown!Next
  <2>1. Suspect' = TRUE
    BY <1>3 DEF ReindexStarted, Suspect
  <2>2. Shown!CutBack
    BY <1>1, <1>3, <2>1 DEF Shown!CutBack
  <2> QED BY <2>2 DEF Shown!Next
<1>4. CASE RewindFrom
  <2>1. op.from \in Nat
    BY <1>1 DEF Operations
  <2>2. checkpoint' = Previous(op.from) /\ ReindexStarted("REINDEX_REQUESTED")
    BY <1>4 DEF RewindFrom
  <2>3. \E n \in 0..Len(checkpoint) : checkpoint' = SubSeq(checkpoint, 1, n)
    BY <1>1, <2>1, <2>2, Rewound
  <2> QED BY <1>3, <2>2, <2>3
<1>5. CASE checkpoint' = Genesis /\ ReindexStarted("SOURCE_REFRESH_REINDEX_REQUESTED")
  <2>1. 0 \in 0..Len(checkpoint)
    BY <1>1, PathType
  <2>2. SubSeq(checkpoint, 1, 0) = Genesis
    <3> DEFINE p == SubSeq(checkpoint, 1, 0)
    <3>1. p \in Paths /\ Len(p) = 0
      BY <1>1, <2>1, PrefixType
    <3> HIDE DEF p
    <3>2. p = Genesis
      BY <3>1, PathType
    <3> QED BY <3>2 DEF p
  <2>3. \E n \in 0..Len(checkpoint) : checkpoint' = SubSeq(checkpoint, 1, n)
    BY <1>5, <2>1, <2>2
  <2> QED BY <1>3, <1>5, <2>3
<1> QED BY <1>2, <1>4, <1>5 DEF RefreshSource

\* The replay rewrites the rows from the branch as it stands.
LEMMA ReplayShown ==
    ASSUME MInv, Replay
    PROVE  Shown!Next
<1>1. checkpoint' = checkpoint /\ rows' = Shown!Path(checkpoint)
  BY ReplayRows, ShownPath
<1>2. Suspect' = Suspect \/ Suspect' = FALSE
  BY DEF Replay, Suspect
<1>3. Shown!Rewrite
  BY <1>1, <1>2 DEF Shown!Rewrite
<1> QED BY <1>3 DEF Shown!Next

LEMMA ShownNext ==
    ASSUME MInv, MInv', [MaintenanceNext]_allVars
    PROVE  [Shown!Next]_<<checkpoint, rows, Suspect>>
<1>1. CASE Ingest \/ ProviderFailure
  BY <1>1, IngestPolls, PollShown
<1>2. CASE RewindFrom \/ RefreshSource
  BY <1>2, RewindShown
<1>3. CASE Replay
  BY <1>3, ReplayShown
<1>4. CASE Mine \/ Reorg \/ StartWorker \/ NextPoll \/ RetryUnreachable \/ WorkerEnds \/ WorkerKilled
  <2>1. rows' = rows /\ checkpoint' = checkpoint
    BY <1>4 DEF Mine, Reorg, StartWorker, NextPoll, RetryUnreachable, WorkerEnds, WorkerKilled, store
  <2> QED BY <2>1, StatusShown
<1>5. CASE \/ BeginRebuild \/ BeginReindex \/ ResolveTarget \/ ResumeReindex \/ WritePrepared \/ WriteActive
           \/ RecordPreparing \/ RecordCatchingUp \/ ClearMarker \/ WriteFailed
  <2>1. rows' = rows /\ checkpoint' = checkpoint
    BY <1>5 DEF BeginRebuild, BeginReindex, ResolveTarget, ResumeReindex, WritePrepared, WriteActive,
                RecordPreparing, RecordCatchingUp, ClearMarker, WriteFailed, indexer, store
  <2> QED BY <2>1, StatusShown
<1>6. CASE ReplayFails \/ CatchUp \/ PollEnds \/ Complete \/ RestoreBarrier \/ Crash \/ Damage
  <2>1. rows' = rows /\ checkpoint' = checkpoint
    BY <1>6 DEF ReplayFails, CatchUp, PollEnds, Complete, RestoreBarrier, Crash, Damage, indexer, store
  <2> QED BY <2>1, StatusShown
<1>7. CASE UNCHANGED allVars
  <2>1. rows' = rows /\ checkpoint' = checkpoint
    BY <1>7 DEF allVars, vars, store
  <2> QED BY <2>1, StatusShown
<1> QED BY <1>1, <1>2, <1>3, <1>4, <1>5, <1>6, <1>7
        DEF MaintenanceNext, Operation, IndexerSteps, Surroundings

\* Polls, markers, rebuilds and reindexes implement the read model that its
\* readers know: rows of one branch that grow with it, suspect from a rewind to
\* the end of its repair (commit, rewindFrom, rebuildFromJournal).
THEOREM ReadModelKept == MaintenanceSpec => KeepsReadModel
<1>1. MInv /\ MInv' /\ [MaintenanceNext]_allVars => [Shown!Next]_<<checkpoint, rows, Suspect>>
  BY ShownNext
<1> QED BY <1>1, ShownInit, MaintenanceInductive, PTL DEF MaintenanceSpec, KeepsReadModel, Shown!Spec
=============================================================================
