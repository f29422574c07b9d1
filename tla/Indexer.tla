------------------------------ MODULE Indexer ------------------------------
(***************************************************************************)
(* One poll of the indexer (ingestRange, with the commit of the SQLite     *)
(* store) against a chain that grows and reorganises between any two of    *)
(* its reads, and the process that repeats it.  Each read of the chain is  *)
(* a step; each SQL transaction is a step; the process may die between.    *)
(*                                                                         *)
(* A block is the path from genesis to it, so its hash is itself, its      *)
(* number its length and its parent its front.  The rows of the read model *)
(* are kept as the list of blocks whose events produced them (what the     *)
(* events do to the rows is module Projection).  The profile is the one    *)
(* whose latest block is final (IMMEDIATE), and the provider answers about *)
(* the block it was asked for.                                             *)
(***************************************************************************)
EXTENDS Naturals, FiniteSets, SequencesExt

CONSTANTS
    Branches,      \* competing blocks at every height
    MaxHeight,     \* bound: block numbers
    MaxForks,      \* bound: how often the chain leaves blocks behind
    IndexingDepth, \* confirmations below the head
    BatchSize,     \* most blocks of one poll
    Lossy,         \* whether the provider may answer before its log index is complete
    Null

ASSUME IndexerAssumption ==
    /\ MaxHeight \in Nat /\ MaxForks \in Nat /\ IndexingDepth \in 0..MaxHeight /\ BatchSize \in Nat \ {0}
    /\ Lossy \in BOOLEAN

Genesis == <<>>
Blocks == UNION {[1..n -> Branches] : n \in 1..MaxHeight}
Chain(b) == [n \in 1..Len(b) |-> SubSeq(b, 1, n)]  \* from the first block to b
Ancestry(b) == Range(Chain(b))

\* The blocks of a set with one block at a height, lowest first.
InOrder(blocks) ==
    [i \in 1..Cardinality(blocks) |->
        CHOOSE b \in blocks : Cardinality({c \in blocks : Len(c) <= Len(b)}) = i]

\* What stands for no block is none.
ASSUME NullAssumption == Null \notin Blocks \cup {Genesis}

VARIABLES
    tip,        \* head of the provider's canonical chain
    forks,      \* how often it left blocks behind
    journal,    \* stored blocks, and whether all of their logs are
    canonical,  \* stored blocks with is_canonical and scan_complete
    rows,       \* blocks whose events produced the projection, in order
    checkpoint, \* Genesis when last_scanned_block is NULL
    status,     \* projection_status
    reason,     \* recovery_reason
    poll        \* the running poll: what it has read, and where it is

chainVars == <<tip, forks>>
store == <<journal, canonical, rows, checkpoint>>
vars == <<chainVars, store, status, reason, poll>>

\* A poll about to begin; `maintenance` is allowReindexRecovery and `limit`
\* maximumTarget.
Poll(pc, maintenance, limit) ==
    [pc |-> pc, maintenance |-> maintenance, limit |-> limit, checkpoint |-> Genesis,
     head |-> Genesis, eligible |-> Null, to |-> 0, headers |-> {}]

Init ==
    /\ tip = Genesis /\ forks = 0
    /\ journal = [b \in Blocks |-> "absent"] /\ canonical = {} /\ rows = <<>>
    /\ checkpoint = Genesis /\ status = "UNINITIALIZED" /\ reason = Null
    /\ poll = Poll("stopped", FALSE, MaxHeight)

-----------------------------------------------------------------------------
(* The chain.                                                              *)

Mine ==
    /\ Len(tip) < MaxHeight
    /\ \E b \in Branches : tip' = Append(tip, b)
    /\ UNCHANGED <<forks, store, status, reason, poll>>

\* Another branch becomes canonical, or the chain is reverted.
Reorg ==
    /\ forks < MaxForks
    /\ \E b \in Blocks \cup {Genesis} : ~ IsPrefix(tip, b) /\ tip' = b
    /\ forks' = forks + 1
    /\ UNCHANGED <<store, status, reason, poll>>

HasBlock(n) == n <= Len(tip)
BlockAt(n) == SubSeq(tip, 1, n)

-----------------------------------------------------------------------------
(* The ways a poll goes on or ends.                                        *)

Goto(pc) == poll' = [poll EXCEPT !.pc = pc]
Proceed(pc) == Goto(pc) /\ UNCHANGED <<chainVars, store, status, reason>>

\* An exception that leaves no mark; the process ends.
Throw == Proceed("thrown")

\* markRecoveryRequired, then an exception that ends the process.
Barrier(why) ==
    /\ status' = "RECOVERY_REQUIRED" /\ reason' = why
    /\ Goto("thrown")
    /\ UNCHANGED <<chainVars, store>>

Numbers == (Len(poll.checkpoint) + 1)..poll.to
AllHeaders == \A n \in Numbers : \E h \in poll.headers : Len(h) = n
End == CHOOSE h \in poll.headers : Len(h) = poll.to

\* Fault: the second half of two blocks is the two blocks.
HalfRoundedUp(from, to) == from + (to - from + 1) \div 2

Half(from, to) == from + (to - from) \div 2

\* A range too large is halved, and its headers are read again.
HalveRange ==
    /\ poll' = [poll EXCEPT !.headers = {}, !.to = Half(Len(poll.checkpoint) + 1, @)]
    /\ UNCHANGED <<chainVars, store, status, reason>>

\* readProjectionTarget makes a second read for the block below the head.
ReadsDepth == IndexingDepth \in 1..Len(poll.head)

\* Reads in flight: nothing is asked of the chain for an empty checkpoint.
Reading ==
    \/ poll.pc \in {"target", "headers", "anchor", "latest"}
    \/ poll.pc \in {"eligible", "latestEligible"} /\ ReadsDepth
    \/ poll.pc = "begin" /\ checkpoint # Genesis

\* Any read may fail to reach the provider.
TransportFailure ==
    /\ Reading
    /\ ~ (poll.pc = "headers" /\ AllHeaders /\ Cardinality(Numbers) > 1)  \* as RefuseRange
    /\ Proceed("unreachable")

-----------------------------------------------------------------------------
(* ingestRange, a read at a time.                                          *)

\* The checkpoint must still be canonical.
CheckCheckpoint ==
    /\ poll.pc = "begin"
    /\ checkpoint \in canonical \cup {Genesis}  \* else CHECKPOINT_BLOCK_MISSING
    /\ \/ /\ HasBlock(Len(checkpoint)) /\ checkpoint = BlockAt(Len(checkpoint))
          /\ poll' = [poll EXCEPT !.pc = "target", !.checkpoint = checkpoint]
          /\ UNCHANGED <<chainVars, store, status, reason>>
       \/ /\ ~ HasBlock(Len(checkpoint))
          /\ Barrier("CHECKPOINT_BLOCK_UNAVAILABLE")
       \/ /\ HasBlock(Len(checkpoint)) /\ checkpoint # BlockAt(Len(checkpoint))
          /\ Barrier("CHECKPOINT_HASH_CHANGED")

\* readProjectionTarget begins with the head.
ReadHead ==
    /\ poll.pc \in {"target", "latest"}
    /\ poll' = [poll EXCEPT !.head = tip,
                            !.pc = IF @ = "target" THEN "eligible" ELSE "latestEligible"]
    /\ UNCHANGED <<chainVars, store, status, reason>>

\* Its second answer; Null when no block is deep enough.
Eligible ==
    IF IndexingDepth = 0 THEN poll.head
    ELSE IF ReadsDepth THEN BlockAt(Len(poll.head) - IndexingDepth) ELSE Null

\* The second block is gone: the chain was reverted between the two reads.
EligibleMissing == ReadsDepth /\ ~ HasBlock(Len(poll.head) - IndexingDepth)

Observed == IF status \in {"UNINITIALIZED", "STALE"} THEN "SYNCING" ELSE status
Markable == {"CURRENT", "STALE", "SYNCING"}

\* Fault: a checkpoint that has reached the target counts as beyond it.
OverrunAtTarget(number, target) == number >= target

Overrun(number, target) == number > target

\* Fault: the last batch is as long as the others.
WholeBatch(from, target) == from + BatchSize - 1

BatchEnd(from, target) ==
    IF from + BatchSize - 1 < target THEN from + BatchSize - 1 ELSE target

\* The target is known: stop, wait, or read a batch.
ReadEligible ==
    LET target == IF Len(Eligible) < poll.limit THEN Len(Eligible) ELSE poll.limit
        from == Len(poll.checkpoint) + 1
        found == [poll EXCEPT !.eligible = Eligible] IN
    /\ poll.pc = "eligible"
    /\ \/ EligibleMissing /\ Throw
       \/ /\ ~ EligibleMissing
          /\ poll.checkpoint # Genesis
          /\ Eligible # Null => Overrun(Len(poll.checkpoint), target)
          /\ Barrier("CHECKPOINT_EXCEEDS_ELIGIBLE_TARGET")
       \/ /\ ~ EligibleMissing
          /\ Eligible = Null /\ poll.checkpoint = Genesis
          /\ status' = Observed
          /\ poll' = [found EXCEPT !.pc = "done"]
          /\ UNCHANGED <<chainVars, store, reason>>
       \/ /\ ~ EligibleMissing
          /\ Eligible # Null /\ from = target + 1
          \* markCurrent: nothing compares the checkpoint with the target's hash
          /\ IF target = Len(Eligible) /\ Observed \in Markable
             THEN status' = "CURRENT" /\ reason' = Null
             ELSE status' = Observed /\ UNCHANGED reason
          /\ poll' = [found EXCEPT !.pc = "done"]
          /\ UNCHANGED <<chainVars, store>>
       \/ /\ ~ EligibleMissing
          /\ Eligible # Null /\ from <= target
          /\ status' = Observed
          /\ poll' = [found EXCEPT !.pc = "headers",
                                   !.to = BatchEnd(from, target)]
          /\ UNCHANGED <<chainVars, store, reason>>

\* Headers are read concurrently, in any order.
ReadHeader ==
    /\ poll.pc = "headers"
    /\ \E n \in Numbers :
          /\ \A h \in poll.headers : Len(h) # n
          /\ \/ /\ HasBlock(n)
                /\ poll' = [poll EXCEPT !.headers = @ \cup {BlockAt(n)}]
                /\ UNCHANGED <<chainVars, store, status, reason>>
             \/ ~ HasBlock(n) /\ Throw

\* Fault: the headers are not tied to one another.
LooseRange == \A h \in poll.headers : Len(h) = Len(poll.checkpoint) + 1 => Front(h) = poll.checkpoint

\* The first header is the child of the checkpoint, every other of the one
\* before it; the first of all has no checkpoint to descend from.
JoinedRange ==
    \A h \in poll.headers : Len(h) > 1 => Front(h) \in poll.headers \cup {poll.checkpoint}

\* Logs are asked for by block hash; the provider may refuse so many at once,
\* though never those of one block.
RefuseRange ==
    /\ poll.pc = "headers" /\ AllHeaders
    /\ Cardinality(Numbers) > 1
    /\ HalveRange

ReadEvents ==
    /\ poll.pc = "headers" /\ AllHeaders
    /\ IF JoinedRange THEN Proceed("anchor") ELSE Barrier("PARENT_DISCONTINUITY")

\* The provider no longer knows a block that left its chain.
ForgottenBlock ==
    /\ poll.pc = "headers" /\ AllHeaders
    /\ ~ poll.headers \subseteq Ancestry(tip)
    /\ Throw

ReadAnchor ==
    /\ poll.pc = "anchor"
    /\ \/ ~ HasBlock(poll.to) /\ Throw
       \/ HasBlock(poll.to) /\ BlockAt(poll.to) = End /\ Proceed("commit")
       \/ HasBlock(poll.to) /\ BlockAt(poll.to) # End /\ Barrier("RANGE_ANCHOR_CHANGED")

-----------------------------------------------------------------------------
(* SqliteProjectionStore.commit and what follows it.                       *)

\* An ordinary writer may not commit behind the barrier.
Admitted == status = "RECOVERY_REQUIRED" => poll.maintenance

\* What the logs of a batch say of its blocks: all there is, or, from a
\* provider behind with its index, less.
AllLogs == [poll.headers -> {"complete"}]
LateLogs == IF Lossy THEN [poll.headers -> {"complete", "partial"}] \ AllLogs ELSE {}

\* A stored block must have the logs it was stored with (a "short" one has
\* since lost some), and a height one canonical block.
Digest(b) == IF journal[b] = "short" THEN "complete" ELSE journal[b]
Agrees(content) ==
    /\ \A h \in poll.headers : Digest(h) \in {"absent", content[h]}
    /\ \A h \in poll.headers, b \in canonical : Len(h) = Len(b) => h = b

\* The journal with those logs of the batch in it.
Journalled(content) ==
    [b \in Blocks |-> IF b \in poll.headers THEN content[b] ELSE journal[b]]

\* One transaction: headers, events, rows, checkpoint; or nothing of it.
Commit(contents) ==
    /\ poll.pc = "commit"
    /\ \E content \in contents :
       IF Admitted /\ Agrees(content)
       THEN /\ journal' = Journalled(content)
            /\ canonical' = canonical \cup poll.headers
            /\ rows' = rows \o InOrder(poll.headers \ canonical)
            /\ checkpoint' = End
            /\ Goto(IF poll.to = Len(poll.eligible) THEN "latest" ELSE "done")
            /\ UNCHANGED <<chainVars, status, reason>>
       ELSE Throw

\* A projector cannot make sense of an event that builds on one never seen.
IntegrityFailure ==
    /\ poll.pc = "commit" /\ Admitted
    /\ \E content \in AllLogs \cup LateLogs :
          /\ Agrees(content)
          /\ \E b \in canonical \cup poll.headers : Journalled(content)[b] = "partial"
    /\ Barrier("PROJECTOR_INTEGRITY")

\* CURRENT only when the committed end is still the eligible block.
ConfirmTarget ==
    /\ poll.pc = "latestEligible"
    /\ \/ EligibleMissing /\ Throw
       \/ /\ ~ EligibleMissing
          /\ IF Eligible = End /\ status \in Markable
             THEN status' = "CURRENT" /\ reason' = Null
             ELSE UNCHANGED <<status, reason>>
          /\ poll' = [poll EXCEPT !.pc = "done", !.eligible = Eligible]
          /\ UNCHANGED <<chainVars, store>>

Ingest ==
    \/ CheckCheckpoint \/ ReadHead \/ ReadEligible \/ ReadHeader \/ RefuseRange
    \/ ReadEvents \/ ForgottenBlock \/ ReadAnchor \/ Commit(AllLogs)
    \/ ConfirmTarget

\* What a provider that is down, or behind with its logs, does to a poll.
ProviderFailure == TransportFailure \/ Commit(LateLogs) \/ IntegrityFailure

-----------------------------------------------------------------------------
(* The indexer process.                                                    *)

\* Fault: the barrier does not keep a new process from the database.
MayAlwaysStart == TRUE

\* openProjectionWriter refuses to start behind the barrier.
MayStart == status # "RECOVERY_REQUIRED"

StartWorker ==
    /\ poll.pc = "stopped" /\ MayStart
    /\ poll' = Poll("begin", FALSE, MaxHeight)
    /\ UNCHANGED <<chainVars, store, status, reason>>

\* After a pause, runIndexerLoop polls again.
NextPoll ==
    /\ poll.pc = "done" /\ ~ poll.maintenance
    /\ poll' = Poll("begin", FALSE, MaxHeight)
    /\ UNCHANGED <<chainVars, store, status, reason>>

\* It retries what it could not reach, and says so.
RetryUnreachable ==
    /\ poll.pc = "unreachable" /\ ~ poll.maintenance
    /\ IF status = "RECOVERY_REQUIRED" THEN UNCHANGED <<status, reason>>
       ELSE status' = "STALE" /\ reason' = "CHAIN_TRANSPORT_UNAVAILABLE"
    /\ poll' = Poll("begin", FALSE, MaxHeight)
    /\ UNCHANGED <<chainVars, store>>

\* Any other exception ends the process.
WorkerEnds ==
    /\ poll.pc = "thrown" /\ ~ poll.maintenance
    /\ poll' = Poll("stopped", FALSE, MaxHeight)
    /\ UNCHANGED <<chainVars, store, status, reason>>

WorkerKilled ==
    /\ poll.pc \notin {"stopped", "thrown"} /\ ~ poll.maintenance
    /\ poll' = Poll("stopped", FALSE, MaxHeight)
    /\ UNCHANGED <<chainVars, store, status, reason>>

\* What happens while the chain stands still and the process is let alone.
Quiet == Ingest \/ StartWorker \/ NextPoll \/ RetryUnreachable \/ WorkerEnds

Next == Mine \/ Reorg \/ ProviderFailure \/ Quiet \/ WorkerKilled

Spec == Init /\ [][Next]_vars

\* The process keeps taking its steps, and is started again when it ended.
FairSpec == Spec /\ WF_vars(Quiet)

-----------------------------------------------------------------------------
(* Properties.                                                             *)

PollSteps == {"stopped", "begin", "target", "eligible", "headers", "anchor", "commit", "latest",
              "latestEligible", "done", "thrown", "unreachable"}
Polls == [pc : PollSteps, maintenance : BOOLEAN, limit : 0..MaxHeight,
          checkpoint : Blocks \cup {Genesis}, head : Blocks \cup {Genesis},
          eligible : Blocks \cup {Genesis, Null}, to : 0..(MaxHeight - IndexingDepth),
          headers : SUBSET Blocks]

\* The type of the state; no poll reaches above the indexing depth.
TypeOK ==
    /\ tip \in Blocks \cup {Genesis} /\ forks \in 0..MaxForks
    /\ journal \in [Blocks -> {"absent", "partial", "complete"}]
    /\ canonical \subseteq Blocks /\ rows \in Seq(Blocks)
    /\ checkpoint \in Blocks \cup {Genesis}
    /\ status \in {"UNINITIALIZED", "SYNCING", "CURRENT", "STALE", "RECOVERY_REQUIRED"}
    /\ poll \in Polls

\* The read model is the events of one chain, in order, each block once and
\* none skipped, and the checkpoint is its end: whatever reorganisation fell
\* between which reads of the batches that built it (ingestRange, commit).
OneBranch ==
    /\ canonical = Ancestry(checkpoint)
    /\ rows = Chain(checkpoint)
    /\ \A b \in canonical : journal[b] # "absent"

\* Behind the barrier neither a poll in flight, nor a retry, nor a new process
\* changes the read model, or lifts the barrier or rewrites its reason.
BarrierHolds ==
    [][status = "RECOVERY_REQUIRED" => UNCHANGED <<store, status, reason>>]_vars

\* A chain that only grows never makes the indexer stop for recovery, however
\* its blocks arrive between the reads of a poll; only logs that the provider
\* held back may, as events that build on what was never seen.
NoFalseAlarm ==
    forks = 0 /\ status = "RECOVERY_REQUIRED" => Lossy /\ reason = "PROJECTOR_INTEGRITY"

Converged ==
    /\ IndexingDepth <= Len(tip)
    /\ checkpoint = BlockAt(Len(tip) - IndexingDepth)
    /\ status = "CURRENT"

\* Once the chain and the network are quiet the indexer, restarted when it
\* ends, reaches the eligible block and says CURRENT, or stops for recovery,
\* or has no eligible block to reach.
CatchesUp ==
    <>[][Quiet]_vars =>
        []<>(Converged \/ status = "RECOVERY_REQUIRED" \/ Len(tip) < IndexingDepth)

\* "Ingestion publishes CURRENT only after reaching the live depth-adjusted
\* eligible target and validating its anchor" (ADR 0026): the step that makes
\* the projection CURRENT has the eligible block for its checkpoint.
CurrentIsVerified ==
    [][status # "CURRENT" /\ status' = "CURRENT" => checkpoint' = poll'.eligible]_vars
=============================================================================
