---------------------------- MODULE SeedJournal ----------------------------
(***************************************************************************)
(* The chain seed journal: the file in which bootstrap records every       *)
(* transaction of a deployment before and after it is sent, so that a run  *)
(* that follows a crash, a lost answer or a failed write continues without *)
(* sending anything twice.  Source: apps/indexer/src/cli.                  *)
(*                                                                         *)
(* A run of bootstrap is one process per environment (the bootstrap lock   *)
(* is exclusive and is not waited for).  The journal it holds in memory is *)
(* the file, except for a hash that has been returned and not yet saved:   *)
(* every other change is saved before anything is done about it, and a     *)
(* write that fails ends the run.                                          *)
(***************************************************************************)
EXTENDS Naturals, Sequences

CONSTANTS
    Environments,  \* managed environments of one workspace
    Nodes,         \* local chain nodes, one endpoint each
    Builds,        \* compiled contract bytecode a run may find
    StepCount,     \* transactions of a deployment, in the order they are sent
    MaxTxs,        \* bound on the transactions ever mined
    MaxMishaps,    \* bound on crashes, lost answers, failed writes, node losses, refused journals
    Null

ASSUME SeedAssumption ==
    /\ StepCount \in Nat /\ StepCount >= 2
    /\ MaxTxs \in Nat /\ MaxMishaps \in Nat
    /\ Null \notin Environments \cup Nodes \cup Builds \cup Nat

VARIABLES
    chain,      \* node -> transactions mined since it was last emptied
    mined,      \* number of blocks ever mined, the source of hashes
    journal,    \* environment -> its seed-journal.json
    issued,     \* number of deployment ids ever drawn
    run,        \* environment -> the bootstrap or reset process that owns it
    mishaps     \* faults so far

seedVars == <<chain, mined, journal, issued, run, mishaps>>

Steps == 1..StepCount
CodeSteps == {1, 2}   \* deploy-vehicle-nft and deploy-motorcove-escrow

Idle == [at |-> "idle", node |-> Null, build |-> Null,
         step |-> 0, hash |-> Null, target |-> Null]

(* What a step's intent digest binds beside the addresses, which a journal
   determines: the bytecode, for the two steps that deploy it. *)
Intent(k, build) == IF k \in CodeSteps THEN build ELSE Null

Prepared(k, build) ==
    [status |-> "PREPARED", intent |-> Intent(k, build), hash |-> Null, receipt |-> Null]

Entry(e) == journal[e].steps[run[e].step]

SaveEntry(e, entry) ==
    journal' = [journal EXCEPT ![e].steps[run[e].step] = entry]

Goto(e, label) == run' = [run EXCEPT ![e].at = label]
End(e) == run' = [run EXCEPT ![e] = Idle]

OnChain(n, hash) == \E i \in DOMAIN chain[n] : chain[n][i].hash = hash

(* ChainSeedJournal.open: a journal that exists is continued with the
   deployment id it has; a new one gets a new random id and is saved. *)
OpenJournal(e) ==
    /\ run[e].at = "open"
    /\ IF journal[e] # Null
       THEN UNCHANGED <<journal, issued>>
       ELSE /\ journal' = [journal EXCEPT ![e] =
                   [deployment |-> issued + 1, steps |-> [k \in Steps |-> Null]]]
            /\ issued' = issued + 1
    /\ run' = [run EXCEPT ![e].at = "step", ![e].step = 1]
    /\ UNCHANGED <<chain, mined, mishaps>>

(* A journal of another identity is refused and left as it is.  It lies in the
   directory of its environment and the chain id was compared before, so that
   only the account can differ: the node was started with other accounts, which
   is one mishap for every run that finds it so. *)
RefuseJournal(e) ==
    /\ run[e].at = "open"
    /\ journal[e] # Null
    /\ mishaps < MaxMishaps
    /\ mishaps' = mishaps + 1
    /\ End(e)
    /\ UNCHANGED <<chain, mined, journal, issued>>

(* A step the journal does not have: PREPARED is saved before anything is sent. *)
PrepareStep(e) ==
    /\ run[e].at = "step"
    /\ Entry(e) = Null
    /\ SaveEntry(e, Prepared(run[e].step, run[e].build))
    /\ Goto(e, "submit")
    /\ UNCHANGED <<chain, mined, issued, mishaps>>

(* The node mines the transaction and returns its hash.  It may revert. *)
Mine(e, outcome) ==
    /\ mined < MaxTxs
    /\ mined' = mined + 1
    /\ chain' = [chain EXCEPT ![run[e].node] = Append(@,
           [hash |-> mined + 1, block |-> mined + 1, step |-> run[e].step,
            deployment |-> journal[e].deployment,
            intent |-> Intent(run[e].step, run[e].build), outcome |-> outcome])]

Submit(e) ==
    /\ run[e].at = "submit"
    /\ \E outcome \in {"SUCCESS", "REVERTED"} : Mine(e, outcome)
    /\ run' = [run EXCEPT ![e].at = "save", ![e].hash = mined + 1]
    /\ UNCHANGED <<journal, issued, mishaps>>

(* submit() throws: the transaction may have been mined or not.  UNKNOWN is
   saved, if it can be, and the run ends. *)
SubmitFails(e) ==
    /\ run[e].at = "submit"
    /\ mishaps < MaxMishaps
    /\ mishaps' = mishaps + 1
    /\ Mine(e, "SUCCESS") \/ UNCHANGED <<chain, mined>>
    /\ SaveEntry(e, [Entry(e) EXCEPT !.status = "UNKNOWN"]) \/ UNCHANGED journal
    /\ End(e)
    /\ UNCHANGED issued

SubmittedEntry(e) == [Entry(e) EXCEPT !.status = "SUBMITTED", !.hash = run[e].hash]

SaveHash(e) ==
    /\ run[e].at = "save"
    /\ SaveEntry(e, SubmittedEntry(e))
    /\ run' = [run EXCEPT ![e].at = "wait", ![e].hash = Null]
    /\ UNCHANGED <<chain, mined, issued, mishaps>>

(* The first save of the hash fails and its repetition succeeds: the run ends
   all the same, with the hash on record. *)
SaveHashLate(e) ==
    /\ run[e].at = "save"
    /\ mishaps < MaxMishaps
    /\ mishaps' = mishaps + 1
    /\ SaveEntry(e, SubmittedEntry(e))
    /\ End(e)
    /\ UNCHANGED <<chain, mined, issued>>

(* Fault: the step is taken for one that was never sent. *)
AbandonStepAndResend(e) ==
    /\ run[e].at = "step"
    /\ Entry(e) # Null /\ Entry(e).status = "PREPARED"
    /\ Goto(e, "submit")
    /\ UNCHANGED <<chain, mined, journal, issued, mishaps>>

(* A step an earlier run left PREPARED: whether it was sent is not known. *)
AbandonStep(e) ==
    /\ run[e].at = "step"
    /\ Entry(e) # Null /\ Entry(e).status = "PREPARED"
    /\ Entry(e).intent = Intent(run[e].step, run[e].build)
    /\ SaveEntry(e, [Entry(e) EXCEPT !.status = "UNKNOWN"])
    /\ End(e)
    /\ UNCHANGED <<chain, mined, issued, mishaps>>

(* Fault: the recorded intent is not compared. *)
ResumeStepOfAnyIntent(e) ==
    /\ run[e].at = "step"
    /\ Entry(e) # Null /\ Entry(e).status \in {"SUBMITTED", "VERIFIED"}
    /\ Goto(e, "wait")
    /\ UNCHANGED <<chain, mined, journal, issued, mishaps>>

(* A step whose hash is on record is continued at its receipt. *)
ResumeStep(e) ==
    /\ run[e].at = "step"
    /\ Entry(e) # Null /\ Entry(e).status \in {"SUBMITTED", "VERIFIED"}
    /\ Entry(e).intent = Intent(run[e].step, run[e].build)
    /\ Goto(e, "wait")
    /\ UNCHANGED <<chain, mined, journal, issued, mishaps>>

Receipt(tx) == [block |-> tx.block, outcome |-> tx.outcome]

NextStep(e) ==
    run' = [run EXCEPT ![e].at = IF run[e].step = StepCount THEN "manifest" ELSE "step",
                       ![e].step = IF run[e].step = StepCount THEN 0 ELSE @ + 1]

(* Fault: a receipt found again is not asked for its outcome. *)
VerifyReceiptOfAnyOutcome(e) ==
    /\ run[e].at = "wait"
    /\ \E i \in DOMAIN chain[run[e].node] :
          LET tx == chain[run[e].node][i] IN
          /\ tx.hash = Entry(e).hash
          /\ \/ /\ Entry(e).receipt = Null
                /\ SaveEntry(e, [Entry(e) EXCEPT !.status = "VERIFIED", !.receipt = Receipt(tx)])
                /\ IF tx.outcome = "SUCCESS" THEN NextStep(e) ELSE End(e)
             \/ Entry(e).receipt = Receipt(tx) /\ NextStep(e) /\ UNCHANGED journal
    /\ UNCHANGED <<chain, mined, issued, mishaps>>

(* The receipt of the recorded hash is read again on every run.  The first one
   is saved as VERIFIED, whatever its outcome; a later one must equal it. *)
VerifyReceipt(e) ==
    /\ run[e].at = "wait"
    /\ \E i \in DOMAIN chain[run[e].node] :
          LET tx == chain[run[e].node][i] IN
          /\ tx.hash = Entry(e).hash
          /\ \/ /\ Entry(e).receipt = Null
                /\ SaveEntry(e, [Entry(e) EXCEPT !.status = "VERIFIED", !.receipt = Receipt(tx)])
                /\ IF tx.outcome = "SUCCESS" THEN NextStep(e) ELSE End(e)
             \/ /\ Entry(e).receipt = Receipt(tx)
                /\ IF tx.outcome = "SUCCESS" THEN NextStep(e) ELSE End(e)
                /\ UNCHANGED journal
             \/ /\ Entry(e).receipt \notin {Null, Receipt(tx)}
                /\ SaveEntry(e, [Entry(e) EXCEPT !.status = "UNKNOWN"])
                /\ End(e)
    /\ UNCHANGED <<chain, mined, issued, mishaps>>

(* The errors that end a run and write nothing: an UNKNOWN step, another
   intent than the recorded one, a hash the node does not know. *)
RefuseStep(e) ==
    /\ \/ /\ run[e].at = "step"
          /\ Entry(e) # Null
          /\ \/ Entry(e).status = "UNKNOWN"
             \/ Entry(e).intent # Intent(run[e].step, run[e].build)
       \/ /\ run[e].at = "wait"
          /\ ~OnChain(run[e].node, Entry(e).hash)
    /\ End(e)
    /\ UNCHANGED <<chain, mined, journal, issued, mishaps>>

SeedStep(e) ==
    \/ OpenJournal(e) \/ PrepareStep(e) \/ Submit(e) \/ SaveHash(e)
    \/ AbandonStep(e) \/ ResumeStep(e) \/ VerifyReceipt(e) \/ RefuseStep(e)

SeedFault(e) == SubmitFails(e) \/ SaveHashLate(e) \/ RefuseJournal(e)

(* A process dies, or a write fails before it takes effect. *)
Crash(e) ==
    /\ run[e].at # "idle"
    /\ mishaps < MaxMishaps
    /\ mishaps' = mishaps + 1
    /\ End(e)
    /\ UNCHANGED <<chain, mined, journal, issued>>

(* The node process is restarted by hand and comes back empty. *)
RestartNode(n) ==
    /\ chain[n] # <<>>
    /\ mishaps < MaxMishaps
    /\ mishaps' = mishaps + 1
    /\ chain' = [chain EXCEPT ![n] = <<>>]
    /\ UNCHANGED <<mined, journal, issued, run>>

(* The node replaces its last block by another with the same transaction. *)
Remine(n) ==
    /\ chain[n] # <<>>
    /\ mishaps < MaxMishaps /\ mined < MaxTxs
    /\ mishaps' = mishaps + 1
    /\ mined' = mined + 1
    /\ chain' = [chain EXCEPT ![n][Len(chain[n])].block = mined + 1]
    /\ UNCHANGED <<journal, issued, run>>
=============================================================================
