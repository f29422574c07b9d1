-------------------------- MODULE BootstrapProofs --------------------------
(***************************************************************************)
(* Theorems about Bootstrap, for every set of environments, nodes and      *)
(* builds, every number of steps and every bound on faults and resets.     *)
(***************************************************************************)
EXTENDS Bootstrap, SequenceTheorems, TLAPS

USE SeedAssumption, BootstrapAssumption, NullAssumption

-----------------------------------------------------------------------------
(* The inductive invariant.                                                *)

InStep == {"step", "submit", "save", "wait"}
Sending == {"open", "manifest"} \cup InStep
Published == {"verify", "register", "catalog", "ingest", "receipt"}
Booting == {"migrate", "claim"} \cup Sending \cup Published

\* Where a run is, and which files it has made sure of.
Control(e) ==
    LET r == run[e] IN
    /\ r.at \in Booting => r.node \in Nodes /\ r.build \in Builds
    /\ r.at \in {"reset", "mark"} => r.node \in Nodes
    /\ r.at \in Sending \cup Published \cup {"reset", "mark"} => binding[e] = r.node
    /\ r.at \in Booting \ {"migrate"} => database[e] # Null /\ marker[e] = Null
    /\ r.at \in Sending => manifest[e] = Null
    /\ r.at \in Published => manifest[e] # Null
    /\ r.at \in {"manifest"} \cup InStep => journal[e] # Null
    /\ r.at \in InStep => r.step \in Steps
    /\ r.at \in {"submit", "save", "wait"} => Entry(e) # Null
    /\ r.at = "save" => r.hash \in Nat
    /\ r.at = "wait" => Entry(e).hash # Null
    /\ r.at \in {"ingest", "receipt"} => r.target \in Targets /\ r.target.number > 0
    /\ r.at \in {"reset", "mark"} => marker[e] = "PREPARED"
    /\ r.at \in {"clear", "finish"} => marker[e] \in {"CHAIN_RESET", "LOCAL_STATE_CLEARED"}
    /\ r.at = "finish" => Cleared(e)

\* No two environments share a node, and what is left of a deployment is bound.
Exclusive ==
    /\ \A e, f \in Environments : binding[e] = binding[f] /\ binding[e] \in Nodes => e = f
    /\ \A e \in Environments : journal[e] # Null \/ marker[e] # Null => binding[e] \in Nodes

\* What a journal by itself says: its id is its own, and a step is there only
\* after every step before it has succeeded.
JournalSound(e) ==
    LET j == journal[e] IN
    j # Null =>
    /\ j.deployment <= issued
    /\ \A f \in Environments \ {e} : journal[f] # Null => journal[f].deployment # j.deployment
    /\ \A k \in Steps : j.steps[k] # Null =>
          /\ j.steps[k].status \in {"SUBMITTED", "VERIFIED"} => j.steps[k].hash # Null
          /\ j.steps[k].receipt # Null => j.steps[k].hash # Null
          /\ j.steps[k].hash # Null => j.steps[k].hash <= mined
          /\ \A m \in Steps : m < k => Succeeded(j.steps[m])
    /\ j.steps[2] # Null => j.steps[1].intent = j.steps[2].intent

\* What a run knows of the journal it continues.
Progress(e) ==
    LET r == run[e]
        j == journal[e] IN
    /\ r.at \in InStep => \A k \in Steps : k < r.step =>
          /\ Succeeded(j.steps[k])
          /\ k \in CodeSteps => j.steps[k].intent = r.build
    /\ r.at \in {"submit", "save", "wait"} => j.steps[r.step].intent = Intent(r.step, r.build)
    /\ r.at \in {"submit", "save"} =>
          /\ j.steps[r.step].status = "PREPARED"
          /\ j.steps[r.step].hash = Null /\ j.steps[r.step].receipt = Null
    /\ r.at = "save" => r.hash <= mined
    /\ r.at = "manifest" => \A k \in Steps : Succeeded(j.steps[k])

\* Every transaction is on record, at its node, with what it was sent for.
OnRecord(tx, n) ==
    \E e \in Environments :
        /\ binding[e] = n /\ journal[e] # Null
        /\ journal[e].deployment = tx.deployment
        /\ journal[e].steps[tx.step] # Null
        /\ journal[e].steps[tx.step].intent = tx.intent

ChainSound(n) ==
    \A i \in DOMAIN chain[n] :
        LET tx == chain[n][i] IN
        /\ OnRecord(tx, n)
        /\ tx.hash <= mined /\ tx.block <= mined
        /\ \A j \in DOMAIN chain[n] :
              /\ chain[n][j].hash = tx.hash => j = i
              /\ chain[n][j].deployment = tx.deployment =>
                    /\ chain[n][j].step = tx.step => j = i
                    /\ chain[n][j].step < tx.step => j < i

\* A step about to be sent is nowhere, and a recorded hash is of its step.
HashSound(e) ==
    \A n \in Nodes : \A i \in DOMAIN chain[n] :
        LET tx == chain[n][i] IN
        /\ run[e].at = "submit" => ~(tx.deployment = journal[e].deployment /\ tx.step = run[e].step)
        /\ run[e].at = "save" /\ tx.hash = run[e].hash =>
              tx.deployment = journal[e].deployment /\ tx.step = run[e].step
        /\ journal[e] # Null => \A k \in Steps :
              journal[e].steps[k] # Null /\ journal[e].steps[k].hash = tx.hash =>
              tx.deployment = journal[e].deployment /\ tx.step = k

\* A node that a reset has emptied stays so until the reset is finished.
Emptied(e) ==
    marker[e] \in {"CHAIN_RESET", "LOCAL_STATE_CLEARED"} \/ run[e].at = "mark" =>
        chain[binding[e]] = <<>>

\* A node that still has a step has every later step that succeeded.
Contiguous(e) ==
    journal[e] # Null => \A k, m \in Steps :
        /\ k < m /\ Succeeded(journal[e].steps[k]) /\ Succeeded(journal[e].steps[m])
        /\ OnChain(binding[e], journal[e].steps[k].hash)
        => OnChain(binding[e], journal[e].steps[m].hash)

ManifestSound(e) ==
    marker[e] = Null /\ manifest[e] # Null =>
        /\ journal[e] # Null /\ manifest[e] = ManifestOf(e)
        /\ \A k \in Steps : Succeeded(journal[e].steps[k])
        /\ \/ chain[binding[e]] = <<>>
           \/ \A k \in Steps : OnChain(binding[e], journal[e].steps[k].hash)

\* The blocks of a database are the past of the node for as long as it has the last.
SamePast(e) ==
    LET stored == database[e].blocks
        blocks == chain[binding[e]] IN
    database[e] # Null =>
    /\ \A i \in DOMAIN stored : stored[i].block <= mined
    /\ stored # <<>> => binding[e] \in Nodes
    /\ stored # <<>> /\ Len(stored) <= Len(blocks) /\ stored[Len(stored)] = blocks[Len(stored)] =>
          \A i \in DOMAIN stored : stored[i] = blocks[i]

HasAllSteps(e) ==
    \A k \in Steps : \E i \in DOMAIN database[e].blocks :
        database[e].blocks[i].hash = journal[e].steps[k].hash

DatabaseSound(e) ==
    marker[e] = Null /\ database[e] # Null =>
    /\ database[e].manifest # Null => database[e].manifest = manifest[e]
    /\ run[e].at \in {"catalog", "ingest", "receipt"} => database[e].manifest = manifest[e]
    /\ run[e].at \in {"ingest", "receipt"} => database[e].catalog
    /\ run[e].at = "receipt" =>
          /\ run[e].target.number \in DOMAIN database[e].blocks
          /\ database[e].blocks[run[e].target.number].block = run[e].target.block
    /\ manifest[e] # Null /\ SaleIndexed(e) => HasAllSteps(e)
    /\ manifest[e] = Null => database[e].blocks = <<>>

ReceiptSound(e) ==
    marker[e] = Null /\ receipt[e] # Null =>
    /\ database[e] # Null /\ database[e].catalog /\ database[e].manifest # Null
    /\ receipt[e].deployment = database[e].manifest.deployment
    /\ receipt[e].target.number \in DOMAIN database[e].blocks
    /\ database[e].blocks[receipt[e].target.number].block = receipt[e].target.block
    /\ HasAllSteps(e)

\* What is about the files, the run and the node of one environment.
Local(e) ==
    /\ Control(e) /\ Progress(e) /\ Emptied(e) /\ Contiguous(e)
    /\ ManifestSound(e) /\ SamePast(e) /\ DatabaseSound(e) /\ ReceiptSound(e)

IInv ==
    /\ Exclusive
    /\ \A e \in Environments : JournalSound(e) /\ HashSound(e) /\ Local(e)
    /\ \A n \in Nodes : ChainSound(n)
-----------------------------------------------------------------------------
(* What the operators that rewrite a journal or a run do.                  *)

\* A journal that is there and a step of it are records.
LEMMA EntryType ==
    ASSUME TypeOK, NEW e \in Environments, journal[e] # Null, NEW k \in Steps
    PROVE  /\ journal[e] \in Journals
           /\ journal[e].steps[k] \in Entries \cup {Null}
  BY DEF TypeOK, Journals

\* Saving an entry rewrites one step of one journal.
LEMMA SaveEntryEffect ==
    ASSUME TypeOK, NEW e \in Environments, journal[e] # Null, run[e].step \in Steps,
           NEW entry \in Entries, SaveEntry(e, entry)
    PROVE  /\ journal' \in [Environments -> Journals \cup {Null}]
           /\ journal'[e] \in Journals /\ journal'[e] # Null
           /\ \A f \in Environments : f # e => journal'[f] = journal[f]
           /\ journal'[e].deployment = journal[e].deployment
           /\ \A k \in Steps : journal'[e].steps[k] =
                 IF k = run[e].step THEN entry ELSE journal[e].steps[k]
<1>1. journal[e] \in Journals /\ journal \in [Environments -> Journals \cup {Null}]
  BY DEF TypeOK
<1> DEFINE new == [journal[e] EXCEPT !.steps = [journal[e].steps EXCEPT ![run[e].step] = entry]]
<1>2. journal' = [journal EXCEPT ![e] = new]
  BY <1>1 DEF SaveEntry, Journals
<1>3. /\ new \in Journals /\ new.deployment = journal[e].deployment
      /\ \A k \in Steps : new.steps[k] = IF k = run[e].step THEN entry ELSE journal[e].steps[k]
  BY <1>1 DEF Journals
<1>4. new # Null
  BY <1>3
<1> HIDE DEF new
<1> QED BY <1>1, <1>2, <1>3, <1>4

\* A run that goes on, or ends, leaves the others where they are.
LEMMA RunEffect ==
    ASSUME TypeOK, NEW e \in Environments, NEW new \in Runs, run' = [run EXCEPT ![e] = new]
    PROVE  /\ run' \in [Environments -> Runs]
           /\ \A f \in Environments : f # e => run'[f] = run[f]
           /\ run'[e] = new
  BY DEF TypeOK

LEMMA RunType ==
    ASSUME TypeOK, NEW e \in Environments
    PROVE  run[e] \in Runs
  BY DEF TypeOK

LEMMA GotoEffect ==
    ASSUME TypeOK, NEW e \in Environments, NEW label \in Labels, Goto(e, label)
    PROVE  /\ run' \in [Environments -> Runs]
           /\ \A f \in Environments : f # e => run'[f] = run[f]
           /\ run'[e].at = label /\ run'[e].node = run[e].node
           /\ run'[e].build = run[e].build /\ run'[e].step = run[e].step
           /\ run'[e].hash = run[e].hash /\ run'[e].target = run[e].target
<1> DEFINE r == run[e]
<1>1. r \in Runs
  BY RunType
<1>2. run' = [run EXCEPT ![e] = [r EXCEPT !.at = label]]
  BY DEF Goto
<1> HIDE DEF r
<1>3. [r EXCEPT !.at = label] \in Runs
  BY <1>1 DEF Runs
<1>4. run'[e] = [r EXCEPT !.at = label]
  BY <1>2, <1>3, RunEffect
<1>5. /\ run'[e].at = label /\ run'[e].node = r.node /\ run'[e].build = r.build
      /\ run'[e].step = r.step /\ run'[e].hash = r.hash /\ run'[e].target = r.target
  BY <1>1, <1>4 DEF Runs
<1> QED BY <1>2, <1>3, <1>5, RunEffect DEF r

LEMMA EndEffect ==
    ASSUME TypeOK, NEW e \in Environments, End(e)
    PROVE  /\ run' \in [Environments -> Runs]
           /\ \A f \in Environments : f # e => run'[f] = run[f]
           /\ run'[e] = Idle /\ run'[e].at = "idle"
<1>1. Idle \in Runs /\ Idle.at = "idle"
  BY DEF Idle, Runs, Labels
<1> QED BY <1>1, RunEffect DEF End

LEMMA NextStepEffect ==
    ASSUME TypeOK, NEW e \in Environments, run[e].step \in Steps, NextStep(e)
    PROVE  /\ run' \in [Environments -> Runs]
           /\ \A f \in Environments : f # e => run'[f] = run[f]
           /\ run'[e].node = run[e].node /\ run'[e].build = run[e].build
           /\ \/ run[e].step = StepCount /\ run'[e].at = "manifest"
              \/ /\ run[e].step # StepCount /\ run[e].step + 1 \in Steps
                 /\ run'[e].at = "step" /\ run'[e].step = run[e].step + 1
<1> DEFINE r == run[e]
<1>1. r \in Runs
  BY RunType
<1>2. CASE run[e].step = StepCount
  <2>1. run' = [run EXCEPT ![e] = [r EXCEPT !.at = "manifest", !.step = 0]]
    BY <1>2 DEF NextStep, TypeOK
  <2> HIDE DEF r
  <2>2. /\ [r EXCEPT !.at = "manifest", !.step = 0] \in Runs
        /\ [r EXCEPT !.at = "manifest", !.step = 0].at = "manifest"
        /\ [r EXCEPT !.at = "manifest", !.step = 0].node = r.node
        /\ [r EXCEPT !.at = "manifest", !.step = 0].build = r.build
    BY <1>1 DEF Runs, Labels
  <2> QED BY <1>2, <2>1, <2>2, RunEffect DEF r
<1>3. CASE run[e].step # StepCount
  <2>1. run' = [run EXCEPT ![e] = [r EXCEPT !.at = "step", !.step = run[e].step + 1]]
    BY <1>3 DEF NextStep, TypeOK
  <2>2. r.step + 1 \in Steps
    BY <1>3 DEF Steps
  <2> HIDE DEF r
  <2>3. /\ [r EXCEPT !.at = "step", !.step = r.step + 1] \in Runs
        /\ [r EXCEPT !.at = "step", !.step = r.step + 1].at = "step"
        /\ [r EXCEPT !.at = "step", !.step = r.step + 1].step = r.step + 1
        /\ [r EXCEPT !.at = "step", !.step = r.step + 1].node = r.node
        /\ [r EXCEPT !.at = "step", !.step = r.step + 1].build = r.build
    BY <1>1, <2>2 DEF Runs, Labels
  <2> QED BY <1>3, <2>1, <2>2, <2>3, RunEffect DEF r
<1> QED BY <1>2, <1>3

\* Mining appends one transaction with a new hash to the node of the run.
SentBy(e, outcome) ==
    [hash |-> mined + 1, block |-> mined + 1, step |-> run[e].step,
     deployment |-> journal[e].deployment,
     intent |-> Intent(run[e].step, run[e].build), outcome |-> outcome]

LEMMA MineEffect ==
    ASSUME TypeOK, NEW e \in Environments, journal[e] # Null, run[e].step \in Steps,
           run[e].node \in Nodes, NEW outcome \in Outcomes, Mine(e, outcome)
    PROVE  /\ chain' \in [Nodes -> Seq(Transactions)] /\ mined' = mined + 1 /\ mined' \in Nat
           /\ SentBy(e, outcome) \in Transactions
           /\ \A n \in Nodes : n # run[e].node => chain'[n] = chain[n]
           /\ chain'[run[e].node] = Append(chain[run[e].node], SentBy(e, outcome))
<1>1. SentBy(e, outcome) \in Transactions
  <2>1. mined + 1 \in Nat /\ journal[e].deployment \in Nat
    BY EntryType, RunType DEF TypeOK, Journals
  <2>2. Intent(run[e].step, run[e].build) \in Builds \cup {Null}
    BY RunType DEF Runs, Intent
  <2> DEFINE i == Intent(run[e].step, run[e].build)
             d == journal[e].deployment
             s == run[e].step
             m == mined + 1
  <2>3. SentBy(e, outcome) =
          [hash |-> m, block |-> m, step |-> s, deployment |-> d, intent |-> i, outcome |-> outcome]
    BY DEF SentBy
  <2>4. m \in Nat /\ s \in Steps /\ d \in Nat /\ i \in Builds \cup {Null}
    BY <2>1, <2>2
  <2> HIDE DEF i, d, s, m
  <2> QED BY <2>3, <2>4 DEF Transactions
<1>2. chain' = [chain EXCEPT ![run[e].node] = Append(chain[run[e].node], SentBy(e, outcome))]
  BY DEF Mine, SentBy
<1>3. Append(chain[run[e].node], SentBy(e, outcome)) \in Seq(Transactions)
  BY <1>1 DEF TypeOK
<1> QED BY <1>1, <1>2, <1>3 DEF Mine, TypeOK

-----------------------------------------------------------------------------
(* What a step leaves alone.                                               *)

\* A step that neither runs for an environment nor writes its files.
Untouched(f) ==
    /\ run'[f] = run[f] /\ journal'[f] = journal[f] /\ binding'[f] = binding[f]
    /\ manifest'[f] = manifest[f] /\ database'[f] = database[f]
    /\ receipt'[f] = receipt[f] /\ marker'[f] = marker[f]

\* Nor changes its node: all that is known of the environment stays known.
LEMMA Bystander ==
    ASSUME TypeOK, IInv, NEW f \in Environments, Untouched(f),
           binding[f] \in Nodes => chain'[binding[f]] = chain[binding[f]],
           mined' \in Nat, mined' >= mined
    PROVE  Local(f)'
<1>1. Exclusive /\ Local(f) /\ JournalSound(f)
  BY DEF IInv
<1>2. Control(f)'
  BY <1>1 DEF Local, Control, Entry, Cleared, Untouched
<1>3. Progress(f)'
  <2>1. Progress(f) /\ mined \in Nat
    BY <1>1 DEF Local, TypeOK
  <2>2. run[f].at = "save" => run[f].hash \in Nat
    BY <1>1 DEF Local, Control
  <2> QED BY <2>1, <2>2 DEF Progress, Untouched, Succeeded
<1>4. Emptied(f)'
  <2>1. run[f].at = "mark" => binding[f] \in Nodes
    BY <1>1 DEF Local, Control
  <2>2. marker[f] # Null => binding[f] \in Nodes
    BY <1>1 DEF Exclusive
  <2> QED BY <1>1, <2>1, <2>2 DEF Local, Emptied, Untouched, ResetPhases
<1>5. Contiguous(f)'
  BY <1>1 DEF Local, Exclusive, Contiguous, Succeeded, OnChain, Untouched
<1>6. ManifestSound(f)'
  BY <1>1 DEF Local, Exclusive, ManifestSound, ManifestOf, Succeeded, OnChain, Untouched
<1>7. SamePast(f)'
  <2>1. SamePast(f)
    BY <1>1 DEF Local
  <2>2. database[f] # Null => database[f].blocks \in Seq(Transactions)
    BY DEF TypeOK, Databases
  <2>3. ASSUME database[f] # Null, NEW i \in DOMAIN database[f].blocks
        PROVE  database[f].blocks[i].block \in Nat
    <3>1. database[f].blocks[i] \in Transactions
      BY <2>2, <2>3
    <3> QED BY <3>1 DEF Transactions
  <2> QED BY <2>1, <2>2, <2>3 DEF SamePast, Untouched, TypeOK
<1>8. DatabaseSound(f)'
  BY <1>1 DEF Local, DatabaseSound, SaleIndexed, HasAllSteps, Untouched
<1>9. ReceiptSound(f)'
  BY <1>1 DEF Local, ReceiptSound, HasAllSteps, Untouched
<1> QED BY <1>2, <1>3, <1>4, <1>5, <1>6, <1>7, <1>8, <1>9 DEF Local

\* A step of one environment that writes neither a journal nor a chain, and
\* sends nothing: what is known of journals and chains stays known.
LEMMA FilesOnly ==
    ASSUME TypeOK, IInv, NEW e \in Environments,
           UNCHANGED <<chain, mined, journal, issued>>,
           \A f \in Environments : f # e => run'[f] = run[f],
           run'[e].at \notin {"submit", "save"},
           \A f \in Environments : journal[f] # Null => binding'[f] = binding[f]
    PROVE  /\ \A f \in Environments : JournalSound(f)' /\ HashSound(f)'
           /\ \A n \in Nodes : ChainSound(n)'
<1>1. \A f \in Environments : JournalSound(f)'
  BY DEF IInv, JournalSound, Succeeded
<1>2. ASSUME NEW f \in Environments PROVE HashSound(f)'
  <2>1. HashSound(f)
    BY DEF IInv
  <2>2. CASE f = e
    BY <2>1, <2>2 DEF HashSound
  <2>3. CASE f # e
    BY <2>1, <2>3 DEF HashSound
  <2> QED BY <2>2, <2>3
<1>3. ASSUME NEW n \in Nodes PROVE ChainSound(n)'
  BY DEF IInv, ChainSound, OnRecord
<1> QED BY <1>1, <1>2, <1>3

\* A run that ends has written nothing it could be wrong about.
LEMMA RunEnds ==
    ASSUME TypeOK, IInv, NEW e \in Environments,
           UNCHANGED <<chain, mined, journal, issued, localVars>>,
           \A f \in Environments : f # e => run'[f] = run[f],
           run'[e].at = "idle"
    PROVE  IInv'
<1>1. ASSUME NEW f \in Environments PROVE Local(f)'
  <2>1. CASE f # e
    BY <2>1, Bystander DEF Untouched, localVars, TypeOK
  <2>2. CASE f = e
    <3>1. Local(e)
      BY DEF IInv
    <3>2. Control(e)'
      BY DEF Control, Booting, Sending, Published, InStep
    <3>3. Progress(e)'
      BY DEF Progress, InStep
    <3>4. Emptied(e)'
      BY <3>1 DEF Local, Emptied, localVars
    <3>5. Contiguous(e)' /\ ManifestSound(e)'
      BY <3>1 DEF Local, Contiguous, ManifestSound, ManifestOf, OnChain, Succeeded, localVars
    <3>6. SamePast(e)' /\ ReceiptSound(e)'
      BY <3>1 DEF Local, SamePast, ReceiptSound, HasAllSteps, localVars
    <3>7. DatabaseSound(e)'
      BY <3>1 DEF Local, DatabaseSound, HasAllSteps, SaleIndexed, localVars
    <3> QED BY <2>2, <3>2, <3>3, <3>4, <3>5, <3>6, <3>7 DEF Local
  <2> QED BY <2>1, <2>2
<1>2. Exclusive'
  BY DEF IInv, Exclusive, localVars
<1> QED BY <1>1, <1>2, FilesOnly DEF IInv, localVars

-----------------------------------------------------------------------------
(* The steps that write at most the files of one environment.              *)

LEMMA FilesStep ==
    ASSUME TypeOK, IInv, NEW e \in Environments,
           UNCHANGED <<chain, mined, journal, issued>>,
           \A f \in Environments : f # e => Untouched(f),
           run'[e].at \notin {"submit", "save"},
           journal[e] # Null => binding'[e] = binding[e],
           Exclusive', Local(e)'
    PROVE  IInv'
<1>1. ASSUME NEW f \in Environments, f # e PROVE Local(f)'
  BY <1>1, Bystander DEF TypeOK
<1>2. \A f \in Environments : journal[f] # Null => binding'[f] = binding[f]
  BY DEF Untouched
<1>3. \A f \in Environments : f # e => run'[f] = run[f]
  BY DEF Untouched
<1>4. /\ \A f \in Environments : JournalSound(f)' /\ HashSound(f)'
      /\ \A n \in Nodes : ChainSound(n)'
  BY <1>2, <1>3, FilesOnly
<1> QED BY <1>1, <1>4 DEF IInv

LEMMA GiveUpStep ==
    ASSUME TypeOK, IInv, NEW e \in Environments, GiveUp(e)
    PROVE  IInv'
  BY EndEffect, RunEnds DEF GiveUp

\* The parts that a step keeps which writes no file and ends in another place.
LEMMA RunMoves ==
    ASSUME TypeOK, IInv, NEW e \in Environments,
           UNCHANGED <<chain, mined, journal, issued, localVars>>,
           \A f \in Environments : f # e => run'[f] = run[f],
           run'[e].at \notin {"submit", "save", "mark", "catalog", "ingest", "receipt"},
           Control(e)', Progress(e)'
    PROVE  IInv'
<1>1. Local(e) /\ Exclusive
  BY DEF IInv
<1>2. \A f \in Environments : f # e => Untouched(f)
  BY DEF Untouched, localVars
<1>3. Exclusive'
  BY <1>1 DEF Exclusive, localVars
<1>4. Emptied(e)'
  BY <1>1 DEF Local, Emptied, localVars
<1>5. Contiguous(e)' /\ ManifestSound(e)'
  BY <1>1 DEF Local, Contiguous, ManifestSound, ManifestOf, OnChain, Succeeded, localVars
<1>6. SamePast(e)' /\ ReceiptSound(e)'
  BY <1>1 DEF Local, SamePast, ReceiptSound, HasAllSteps, localVars
<1>7. DatabaseSound(e)'
  BY <1>1 DEF Local, DatabaseSound, HasAllSteps, SaleIndexed, localVars
<1>8. Local(e)'
  BY <1>4, <1>5, <1>6, <1>7 DEF Local
<1> QED BY <1>2, <1>3, <1>8, FilesStep DEF localVars

LEMMA StartBootstrapStep ==
    ASSUME TypeOK, IInv, NEW e \in Environments, NEW n \in Nodes, NEW b \in Builds,
           StartBootstrap(e, n, b)
    PROVE  IInv' /\ run' \in [Environments -> Runs]
<1> DEFINE new == [Idle EXCEPT !.at = "migrate", !.node = n, !.build = b]
<1>1. /\ new \in Runs /\ new.at = "migrate" /\ new.node = n /\ new.build = b
  BY DEF Idle, Runs, Labels
<1>2. run' = [run EXCEPT ![e] = new]
  BY DEF StartBootstrap
<1> HIDE DEF new
<1>3. /\ run' \in [Environments -> Runs] /\ \A f \in Environments : f # e => run'[f] = run[f]
      /\ run'[e] = new
  BY <1>1, <1>2, RunEffect
<1>4. Control(e)'
  BY <1>1, <1>3 DEF Control, Booting, Sending, Published, InStep
<1>5. Progress(e)'
  BY <1>1, <1>3 DEF Progress, InStep
<1> QED BY <1>1, <1>3, <1>4, <1>5, RunMoves DEF StartBootstrap

LEMMA MigrateFirstStep ==
    ASSUME TypeOK, IInv, NEW e \in Environments, MigrateFirst(e)
    PROVE  IInv'
<1> USE DEF MigrateFirst
<1>1. CASE marker[e] # Null
  BY <1>1, GiveUpStep
<1>2. CASE marker[e] = Null
  <2> DEFINE old == database[e]
             new == IF old = Null THEN EmptyDatabase ELSE old
  <2>1. Local(e) /\ Exclusive
    BY DEF IInv
  <2>2. /\ database' = [database EXCEPT ![e] = new] /\ Goto(e, "claim")
        /\ UNCHANGED <<chain, mined, journal, issued, mishaps, resets, binding, manifest, receipt, marker>>
    BY <1>2 DEF Proceed
  <2>3. /\ run' \in [Environments -> Runs] /\ \A f \in Environments : f # e => run'[f] = run[f]
        /\ run'[e].at = "claim" /\ run'[e].node = run[e].node /\ run'[e].build = run[e].build
    BY <2>2, GotoEffect DEF Labels
  <2>4. database'[e] = new /\ \A f \in Environments : f # e => database'[f] = database[f]
    BY <2>2 DEF TypeOK
  <2>5. /\ new # Null
        /\ old = Null => new.blocks = <<>> /\ new.manifest = Null
        /\ old # Null => new = old
    <3>1. EmptyDatabase \in Databases
      BY DEF EmptyDatabase, Databases
    <3> QED BY <3>1 DEF EmptyDatabase
  <2> HIDE DEF new
  <2>6. Control(e)'
    BY <1>2, <2>1, <2>2, <2>3, <2>4, <2>5
    DEF Local, Control, Booting, Sending, Published, InStep
  <2>7. Progress(e)'
    BY <2>3 DEF Progress, InStep
  <2>8. Emptied(e)' /\ Contiguous(e)' /\ ManifestSound(e)'
    BY <2>1, <2>2, <2>3
    DEF Local, Emptied, Contiguous, ManifestSound, ManifestOf, OnChain, Succeeded
  <2>9. SamePast(e)'
    BY <2>1, <2>2, <2>4, <2>5 DEF Local, SamePast
  <2>10. DatabaseSound(e)'
    BY <2>1, <2>2, <2>3, <2>4, <2>5 DEF Local, DatabaseSound, HasAllSteps, SaleIndexed
  <2>11. ReceiptSound(e)'
    BY <2>1, <2>2, <2>4, <2>5 DEF Local, ReceiptSound, HasAllSteps
  <2>12. Exclusive'
    BY <2>1, <2>2 DEF Exclusive
  <2>13. \A f \in Environments : f # e => Untouched(f)
    BY <2>2, <2>3, <2>4 DEF Untouched
  <2> QED BY <2>2, <2>3, <2>6, <2>7, <2>8, <2>9, <2>10, <2>11, <2>12, <2>13, FilesStep DEF Local
<1> QED BY <1>1, <1>2

LEMMA ClaimManagedNodeStep ==
    ASSUME TypeOK, IInv, NEW e \in Environments, ClaimManagedNode(e)
    PROVE  IInv'
<1> USE DEF ClaimManagedNode
<1> DEFINE n == run[e].node
           label == IF manifest[e] = Null THEN "open" ELSE "verify"
<1>1. CASE ~ (Dedicated(e, n) /\ binding[e] \in {Null, n})
  BY <1>1, GiveUpStep
<1>2. CASE Dedicated(e, n) /\ binding[e] \in {Null, n}
  <2>1. Local(e) /\ Exclusive
    BY DEF IInv
  <2>2. /\ binding' = [binding EXCEPT ![e] = n] /\ Goto(e, label)
        /\ UNCHANGED <<chain, mined, journal, issued, mishaps, resets, manifest, database, receipt, marker>>
    BY <1>2 DEF Proceed
  <2>3. label \in Labels /\ label \in {"open", "verify"} /\ (label = "open" <=> manifest[e] = Null)
    BY DEF Labels
  <2> HIDE DEF label
  <2>4. /\ run' \in [Environments -> Runs] /\ \A f \in Environments : f # e => run'[f] = run[f]
        /\ run'[e].at = label /\ run'[e].node = n /\ run'[e].build = run[e].build
    BY <2>2, <2>3, GotoEffect
  <2>5. n \in Nodes /\ marker[e] = Null /\ database[e] # Null /\ run[e].build \in Builds
    BY <2>1 DEF Local, Control, Booting, Sending, Published, InStep
  <2>6. binding'[e] = n /\ \A f \in Environments : f # e => binding'[f] = binding[f]
    BY <2>2 DEF TypeOK
  <2>7. journal[e] # Null => binding'[e] = binding[e]
    BY <1>2, <2>1, <2>6 DEF Exclusive
  <2>8. Exclusive'
    BY <1>2, <2>1, <2>2, <2>5, <2>6 DEF Exclusive, Dedicated
  <2>9. Control(e)'
    BY <2>2, <2>3, <2>4, <2>5, <2>6 DEF Control, Booting, Sending, Published, InStep
  <2>10. Progress(e)'
    BY <2>3, <2>4 DEF Progress, InStep
  <2>11. Emptied(e)'
    BY <2>2, <2>3, <2>4, <2>5 DEF Emptied, ResetPhases
  <2>12. Contiguous(e)'
    BY <2>1, <2>2, <2>7 DEF Local, Contiguous, OnChain, Succeeded
  <2>13. ManifestSound(e)'
    BY <2>1, <2>2, <2>7 DEF Local, ManifestSound, ManifestOf, OnChain, Succeeded
  <2>14. SamePast(e)'
    BY <1>2, <2>1, <2>2, <2>5, <2>6 DEF Local, SamePast
  <2>15. DatabaseSound(e)'
    BY <2>1, <2>2, <2>3, <2>4 DEF Local, DatabaseSound, HasAllSteps, SaleIndexed
  <2>16. ReceiptSound(e)'
    BY <2>1, <2>2 DEF Local, ReceiptSound, HasAllSteps
  <2>17. \A f \in Environments : f # e => Untouched(f)
    BY <2>2, <2>4, <2>6 DEF Untouched
  <2>18. Local(e)'
    BY <2>9, <2>10, <2>11, <2>12, <2>13, <2>14, <2>15, <2>16 DEF Local
  <2> QED BY <2>2, <2>3, <2>4, <2>7, <2>8, <2>17, <2>18, FilesStep
<1> QED BY <1>1, <1>2

LEMMA TearBindingStep ==
    ASSUME TypeOK, IInv, NEW e \in Environments, TearBinding(e)
    PROVE  IInv'
<1> USE DEF TearBinding
<1>1. Local(e) /\ Exclusive
  BY DEF IInv
<1>2. /\ run' \in [Environments -> Runs] /\ \A f \in Environments : f # e => run'[f] = run[f]
      /\ run'[e].at = "idle"
  BY EndEffect
<1>3. binding'[e] = Torn /\ \A f \in Environments : f # e => binding'[f] = binding[f]
  BY DEF TypeOK
<1>4. /\ marker[e] = Null /\ journal[e] = Null /\ manifest[e] = Null
      /\ database[e] # Null /\ database[e].blocks = <<>>
  <2>1. marker[e] = Null /\ database[e] # Null
    BY <1>1 DEF Local, Control, Booting, Sending, Published, InStep
  <2>2. journal[e] = Null
    BY <1>1 DEF Exclusive
  <2> QED BY <1>1, <2>1, <2>2 DEF Local, ManifestSound, SamePast
<1>5. Exclusive'
  BY <1>1, <1>3, <1>4 DEF Exclusive
<1>6. Control(e)' /\ Progress(e)'
  BY <1>2 DEF Control, Progress, Booting, Sending, Published, InStep
<1>7. Emptied(e)' /\ Contiguous(e)' /\ ManifestSound(e)' /\ SamePast(e)'
  BY <1>2, <1>4 DEF Emptied, Contiguous, ManifestSound, SamePast, ResetPhases
<1>8. DatabaseSound(e)'
  BY <1>1, <1>2 DEF Local, DatabaseSound, HasAllSteps, SaleIndexed
<1>9. ReceiptSound(e)'
  BY <1>1 DEF Local, ReceiptSound, HasAllSteps
<1>10. \A f \in Environments : f # e => Untouched(f)
  BY <1>2, <1>3 DEF Untouched
<1> QED BY <1>2, <1>4, <1>5, <1>6, <1>7, <1>8, <1>9, <1>10, FilesStep DEF Local

LEMMA VerifyDeploymentStep ==
    ASSUME TypeOK, IInv, NEW e \in Environments, VerifyDeployment(e)
    PROVE  IInv'
<1> USE DEF VerifyDeployment
<1>1. CASE ~ Deployed(run[e].node, manifest[e])
  BY <1>1, GiveUpStep
<1>2. CASE Deployed(run[e].node, manifest[e])
  <2>1. Local(e)
    BY DEF IInv
  <2>2. /\ UNCHANGED <<chain, mined, journal, issued, localVars>>
        /\ run' \in [Environments -> Runs] /\ \A f \in Environments : f # e => run'[f] = run[f]
        /\ run'[e].at = "register" /\ run'[e].node = run[e].node /\ run'[e].build = run[e].build
    BY <1>2, GotoEffect DEF Proceed, Labels
  <2>3. Control(e)'
    BY <2>1, <2>2 DEF Local, Control, Booting, Sending, Published, InStep, localVars
  <2>4. Progress(e)'
    BY <2>2 DEF Progress, InStep
  <2> QED BY <2>2, <2>3, <2>4, RunMoves
<1> QED BY <1>1, <1>2

\* The manifest that a journal makes.
LEMMA ManifestType ==
    ASSUME TypeOK, NEW e \in Environments, journal[e] # Null,
           \A k \in Steps : journal[e].steps[k] # Null /\ journal[e].steps[k].hash # Null
    PROVE  /\ ManifestOf(e) \in Manifests /\ ManifestOf(e) # Null
           /\ ManifestOf(e).deployment = journal[e].deployment
           /\ \A k \in CodeSteps : ManifestOf(e).code[k] = journal[e].steps[k].hash
<1>1. journal[e].deployment \in Nat
  BY DEF TypeOK, Journals
<1>2. CodeSteps \subseteq Steps
  BY DEF CodeSteps, Steps
<1>3. ASSUME NEW k \in CodeSteps PROVE journal[e].steps[k].hash \in Nat
  BY <1>2, EntryType DEF Entries
<1>4. ManifestOf(e) \in Manifests
  BY <1>1, <1>3 DEF ManifestOf, Manifests
<1> QED BY <1>4 DEF ManifestOf

LEMMA PublishManifestStep ==
    ASSUME TypeOK, IInv, NEW e \in Environments, PublishManifest(e)
    PROVE  IInv' /\ manifest' \in [Environments -> Manifests \cup {Null}]
<1> USE DEF PublishManifest
<1>1. CASE ~ Deployed(run[e].node, ManifestOf(e))
  BY <1>1, GiveUpStep DEF GiveUp, localVars, TypeOK
<1>2. CASE Deployed(run[e].node, ManifestOf(e))
  <2>1. Local(e) /\ Exclusive /\ JournalSound(e)
    BY DEF IInv
  <2>2. /\ manifest' = [manifest EXCEPT ![e] = ManifestOf(e)] /\ Goto(e, "register")
        /\ UNCHANGED <<chain, mined, journal, issued, mishaps, resets, binding, database, receipt, marker>>
    BY <1>2 DEF Proceed
  <2>3. /\ run' \in [Environments -> Runs] /\ \A f \in Environments : f # e => run'[f] = run[f]
        /\ run'[e].at = "register" /\ run'[e].node = run[e].node /\ run'[e].build = run[e].build
    BY <2>2, GotoEffect DEF Labels
  <2>4. /\ journal[e] # Null /\ manifest[e] = Null /\ marker[e] = Null /\ database[e] # Null
        /\ run[e].node \in Nodes /\ run[e].build \in Builds /\ binding[e] = run[e].node
        /\ \A k \in Steps : Succeeded(journal[e].steps[k])
    BY <2>1 DEF Local, Control, Progress, Booting, Sending, Published, InStep
  <2>5. \A k \in Steps : journal[e].steps[k] # Null /\ journal[e].steps[k].hash # Null
    BY <2>1, <2>4 DEF JournalSound, Succeeded
  <2>6. /\ ManifestOf(e) \in Manifests /\ ManifestOf(e) # Null
        /\ \A k \in CodeSteps : ManifestOf(e).code[k] = journal[e].steps[k].hash
    BY <2>4, <2>5, ManifestType
  <2>7. manifest'[e] = ManifestOf(e) /\ \A f \in Environments : f # e => manifest'[f] = manifest[f]
    BY <2>2 DEF TypeOK
  <2>8. ASSUME NEW k \in Steps PROVE OnChain(binding[e], journal[e].steps[k].hash)
    <3>1. OnChain(binding[e], journal[e].steps[1].hash)
      BY <1>2, <2>4, <2>6 DEF Deployed, CodeSteps
    <3>2. CASE k = 1
      BY <3>1, <3>2
    <3>3. CASE k # 1
      BY <2>1, <2>4, <3>1, <3>3 DEF Local, Contiguous, Steps
    <3> QED BY <3>2, <3>3
  <2>9. Control(e)'
    BY <2>2, <2>3, <2>4, <2>6, <2>7 DEF Control, Booting, Sending, Published, InStep
  <2>10. Progress(e)' /\ Emptied(e)'
    BY <2>2, <2>3, <2>4 DEF Progress, Emptied, InStep, ResetPhases
  <2>11. Contiguous(e)'
    BY <2>1, <2>2 DEF Local, Contiguous, OnChain, Succeeded
  <2>12. ManifestSound(e)'
    BY <2>2, <2>4, <2>7, <2>8 DEF ManifestSound, ManifestOf, OnChain, Succeeded
  <2>13. SamePast(e)'
    BY <2>1, <2>2 DEF Local, SamePast
  <2>14. database[e].manifest = Null /\ database[e].blocks = <<>>
    BY <2>1, <2>4 DEF Local, DatabaseSound
  <2>15. DatabaseSound(e)'
    BY <2>2, <2>3, <2>6, <2>7, <2>14 DEF DatabaseSound, HasAllSteps, SaleIndexed
  <2>16. ReceiptSound(e)'
    BY <2>1, <2>2 DEF Local, ReceiptSound, HasAllSteps
  <2>17. Exclusive' /\ \A f \in Environments : f # e => Untouched(f)
    BY <2>1, <2>2, <2>3, <2>7 DEF Exclusive, Untouched
  <2>18. Local(e)'
    BY <2>9, <2>10, <2>11, <2>12, <2>13, <2>15, <2>16 DEF Local
  <2>19. manifest' \in [Environments -> Manifests \cup {Null}]
    BY <2>2, <2>6 DEF TypeOK
  <2> QED BY <2>2, <2>3, <2>17, <2>18, <2>19, FilesStep
<1> QED BY <1>1, <1>2

\* Rewriting the database of one environment.
LEMMA DatabaseEffect ==
    ASSUME TypeOK, NEW e \in Environments, NEW new \in Databases,
           database' = [database EXCEPT ![e] = new]
    PROVE  /\ database' \in [Environments -> Databases \cup {Null}]
           /\ database'[e] = new /\ database'[e] # Null
           /\ \A f \in Environments : f # e => database'[f] = database[f]
  BY DEF TypeOK

LEMMA RegisterDeploymentStep ==
    ASSUME TypeOK, IInv, NEW e \in Environments, RegisterDeployment(e)
    PROVE  IInv' /\ database' \in [Environments -> Databases \cup {Null}]
<1> USE DEF RegisterDeployment
<1>1. CASE database[e].manifest \notin {Null, manifest[e]}
  BY <1>1, GiveUpStep DEF GiveUp, localVars, TypeOK
<1>2. CASE database[e].manifest \in {Null, manifest[e]}
  <2>1. Local(e) /\ Exclusive
    BY DEF IInv
  <2> DEFINE old == database[e]
             new == [old EXCEPT !.manifest = manifest[e]]
  <2>2. /\ run[e].node \in Nodes /\ run[e].build \in Builds /\ binding[e] = run[e].node
        /\ marker[e] = Null /\ manifest[e] # Null /\ database[e] # Null
    BY <2>1 DEF Local, Control, Booting, Sending, Published, InStep
  <2>3. /\ database' = [database EXCEPT ![e] = new] /\ Goto(e, "catalog")
        /\ UNCHANGED <<chain, mined, journal, issued, mishaps, resets, binding, manifest, receipt, marker>>
    BY <1>2 DEF Proceed, TypeOK
  <2>4. old \in Databases /\ manifest[e] \in Manifests
    BY <2>2 DEF TypeOK
  <2>5. /\ new \in Databases /\ new.manifest = manifest[e]
        /\ new.catalog = old.catalog /\ new.blocks = old.blocks
    <3> HIDE DEF old
    <3> QED BY <2>4 DEF Databases
  <2> HIDE DEF new
  <2>6. /\ database' \in [Environments -> Databases \cup {Null}]
        /\ database'[e] = new /\ database'[e] # Null
        /\ \A f \in Environments : f # e => database'[f] = database[f]
    BY <2>3, <2>5, DatabaseEffect
  <2>7. /\ run' \in [Environments -> Runs] /\ \A f \in Environments : f # e => run'[f] = run[f]
        /\ run'[e].at = "catalog" /\ run'[e].node = run[e].node /\ run'[e].build = run[e].build
    BY <2>3, GotoEffect DEF Labels
  <2>8. Control(e)'
    BY <2>2, <2>3, <2>6, <2>7 DEF Control, Booting, Sending, Published, InStep
  <2>9. Progress(e)' /\ Emptied(e)'
    BY <2>2, <2>3, <2>7 DEF Progress, Emptied, InStep, ResetPhases
  <2>10. Contiguous(e)' /\ ManifestSound(e)'
    BY <2>1, <2>3 DEF Local, Contiguous, ManifestSound, ManifestOf, OnChain, Succeeded
  <2>11. SamePast(e)'
    BY <2>1, <2>2, <2>3, <2>5, <2>6 DEF Local, SamePast
  <2>12. DatabaseSound(e)'
    BY <2>1, <2>2, <2>3, <2>5, <2>6, <2>7 DEF Local, DatabaseSound, HasAllSteps, SaleIndexed
  <2>13. ReceiptSound(e)'
    BY <1>2, <2>1, <2>2, <2>3, <2>5, <2>6 DEF Local, ReceiptSound, HasAllSteps
  <2>14. Exclusive' /\ \A f \in Environments : f # e => Untouched(f)
    BY <2>1, <2>3, <2>6, <2>7 DEF Exclusive, Untouched
  <2>15. Local(e)'
    BY <2>8, <2>9, <2>10, <2>11, <2>12, <2>13 DEF Local
  <2> QED BY <2>3, <2>6, <2>7, <2>14, <2>15, FilesStep
<1> QED BY <1>1, <1>2

LEMMA SeedCatalogStep ==
    ASSUME TypeOK, IInv, NEW e \in Environments, SeedCatalog(e)
    PROVE  /\ IInv' /\ database' \in [Environments -> Databases \cup {Null}]
           /\ run' \in [Environments -> Runs]
<1> USE DEF SeedCatalog
<1> DEFINE old == database[e]
           new == [old EXCEPT !.catalog = TRUE]
           r == run[e]
           blocks == chain[r.node]
           target == [number |-> Len(blocks), block |-> blocks[Len(blocks)].block]
<1>1. Local(e) /\ Exclusive
  BY DEF IInv
<1>2. /\ run[e].node \in Nodes /\ run[e].build \in Builds /\ binding[e] = run[e].node
      /\ marker[e] = Null /\ manifest[e] # Null /\ database[e] # Null
  BY <1>1 DEF Local, Control, Booting, Sending, Published, InStep
<1>3. /\ database' = [database EXCEPT ![e] = new]
      /\ UNCHANGED <<chain, mined, journal, issued, mishaps, resets, binding, manifest, receipt, marker>>
  BY DEF TypeOK
<1>4. old \in Databases
  BY <1>2 DEF TypeOK
<1>5. /\ new \in Databases /\ new.manifest = old.manifest
      /\ new.catalog = TRUE /\ new.blocks = old.blocks
  <2> HIDE DEF old
  <2> QED BY <1>4 DEF Databases
<1>6. /\ database' \in [Environments -> Databases \cup {Null}]
      /\ database'[e] = new /\ database'[e] # Null
      /\ \A f \in Environments : f # e => database'[f] = database[f]
  BY <1>3, <1>5, DatabaseEffect
<1>7. /\ run' \in [Environments -> Runs] /\ \A f \in Environments : f # e => run'[f] = run[f]
      /\ \/ run'[e].at = "idle"
         \/ /\ run'[e].at = "ingest" /\ run'[e].node = run[e].node /\ run'[e].build = run[e].build
            /\ run'[e].target \in Targets /\ run'[e].target.number > 0
  <2>1. CASE blocks = <<>>
    BY <2>1, EndEffect
  <2>2. CASE blocks # <<>>
    <3>1. blocks \in Seq(Transactions)
      BY <1>2 DEF TypeOK
    <3>2. Len(blocks) \in Nat /\ Len(blocks) > 0 /\ blocks[Len(blocks)] \in Transactions
      BY <2>2, <3>1
    <3>3. target \in Targets /\ target.number > 0
      <4>1. blocks[Len(blocks)].block \in Nat
        BY <3>2 DEF Transactions
      <4> QED BY <3>2, <4>1 DEF Targets
    <3>4. run' = [run EXCEPT ![e] = [r EXCEPT !.at = "ingest", !.target = target]]
      BY <2>2 DEF TypeOK
    <3>5. r \in Runs
      BY RunType
    <3> HIDE DEF r, target, blocks
    <3> DEFINE s == [r EXCEPT !.at = "ingest", !.target = target]
    <3>6. /\ s \in Runs /\ s.at = "ingest" /\ s.node = r.node /\ s.build = r.build
          /\ s.target = target
      BY <3>3, <3>5 DEF Runs, Labels
    <3> HIDE DEF s
    <3>7. run' = [run EXCEPT ![e] = s]
      BY <3>4 DEF s
    <3>8. /\ run' \in [Environments -> Runs] /\ \A f \in Environments : f # e => run'[f] = run[f]
          /\ run'[e] = s
      BY <3>6, <3>7, RunEffect
    <3> QED BY <3>3, <3>6, <3>8 DEF r
  <2> QED BY <2>1, <2>2
<1> HIDE DEF new
<1>8. Control(e)'
  BY <1>2, <1>3, <1>6, <1>7 DEF Control, Booting, Sending, Published, InStep
<1>9. Progress(e)' /\ Emptied(e)'
  BY <1>2, <1>3, <1>7 DEF Progress, Emptied, InStep, ResetPhases
<1>10. Contiguous(e)' /\ ManifestSound(e)'
  BY <1>1, <1>3 DEF Local, Contiguous, ManifestSound, ManifestOf, OnChain, Succeeded
<1>11. SamePast(e)'
  BY <1>1, <1>2, <1>3, <1>5, <1>6 DEF Local, SamePast
<1>12. DatabaseSound(e)'
  BY <1>1, <1>2, <1>3, <1>5, <1>6, <1>7 DEF Local, DatabaseSound, HasAllSteps, SaleIndexed
<1>13. ReceiptSound(e)'
  BY <1>1, <1>2, <1>3, <1>5, <1>6 DEF Local, ReceiptSound, HasAllSteps
<1>14. Exclusive' /\ \A f \in Environments : f # e => Untouched(f)
  BY <1>1, <1>3, <1>6, <1>7 DEF Exclusive, Untouched
<1>15. Local(e)'
  BY <1>8, <1>9, <1>10, <1>11, <1>12, <1>13 DEF Local
<1> QED BY <1>3, <1>6, <1>7, <1>14, <1>15, FilesStep

\* A range that ends at a height, and the database with it.
Heights(e) == (Len(database[e].blocks) + 1)..Len(chain[run[e].node])
StoredUpTo(e, upTo) ==
    database[e].blocks \o SubSeq(chain[run[e].node], Len(database[e].blocks) + 1, upTo)

StoreRange(e, upTo) ==
    /\ run[e].at = "ingest"
    /\ OnBranch(run[e].node, database[e].blocks) /\ upTo \in Heights(e)
    /\ database' = [database EXCEPT ![e].blocks =
                        @ \o SubSeq(chain[run[e].node], Len(@) + 1, upTo)]
    /\ Proceed(e, "ingest") /\ UNCHANGED <<binding, manifest, receipt, marker>>

\* What is stored after a range was: the past of the node, a prefix of its chain.
LEMMA StoredPrefix ==
    ASSUME TypeOK, IInv, NEW e \in Environments, database[e] # Null, binding[e] \in Nodes,
           binding[e] = run[e].node, OnBranch(binding[e], database[e].blocks),
           NEW upTo \in Heights(e)
    PROVE  /\ StoredUpTo(e, upTo) \in Seq(Transactions) /\ Len(StoredUpTo(e, upTo)) = upTo
           /\ upTo \in Nat /\ upTo > Len(database[e].blocks)
           /\ upTo <= Len(chain[binding[e]])
           /\ \A i \in 1..upTo : StoredUpTo(e, upTo)[i] = chain[binding[e]][i]
           /\ \A i \in DOMAIN database[e].blocks :
                 StoredUpTo(e, upTo)[i] = database[e].blocks[i]
<1> DEFINE stored == StoredUpTo(e, upTo)
           old == database[e].blocks
           blocks == chain[binding[e]]
           more == SubSeq(blocks, Len(old) + 1, upTo)
<1>1. old \in Seq(Transactions) /\ blocks \in Seq(Transactions)
  BY DEF TypeOK, Databases
<1>2. \A i \in DOMAIN old : old[i] = blocks[i]
  <2>1. SamePast(e)
    BY DEF IInv, Local
  <2>2. CASE old = <<>>
    BY <2>2
  <2>3. CASE old # <<>>
    BY <2>1, <2>3 DEF SamePast, OnBranch
  <2> QED BY <2>2, <2>3
<1> HIDE DEF old, blocks
<1>3. /\ Len(old) \in Nat /\ Len(blocks) \in Nat /\ upTo \in (Len(old) + 1)..Len(blocks)
  BY <1>1 DEF old, blocks, Heights
<1>4. /\ more \in Seq(Transactions) /\ Len(more) = upTo - Len(old)
      /\ \A i \in 1..(upTo - Len(old)) : more[i] = blocks[Len(old) + i]
  BY <1>1, <1>3
<1> HIDE DEF more
<1>5. stored = old \o more
  BY DEF old, blocks, more, StoredUpTo
<1>6. /\ stored \in Seq(Transactions) /\ Len(stored) = upTo
      /\ \A i \in 1..upTo : stored[i] = IF i <= Len(old) THEN old[i] ELSE more[i - Len(old)]
  BY <1>1, <1>3, <1>4, <1>5, ConcatProperties
<1> HIDE DEF stored
<1>7. \A i \in DOMAIN old : stored[i] = old[i]
  BY <1>1, <1>3, <1>6
<1>8. ASSUME NEW i \in 1..upTo PROVE stored[i] = blocks[i]
  <2>1. i \in Nat /\ upTo \in Nat
    BY <1>3
  <2>2. CASE i <= Len(old)
    <3>1. i \in DOMAIN old
      BY <1>1, <1>3, <2>1, <2>2
    <3> QED BY <1>2, <1>7, <3>1
  <2>3. CASE i > Len(old)
    <3>1. i - Len(old) \in 1..(upTo - Len(old)) /\ Len(old) + (i - Len(old)) = i
      BY <1>3, <2>1, <2>3
    <3>2. stored[i] = more[i - Len(old)]
      BY <1>3, <1>6, <2>1, <2>3
    <3> QED BY <1>4, <3>1, <3>2
  <2> QED BY <1>3, <2>1, <2>2, <2>3
<1> QED BY <1>3, <1>6, <1>7, <1>8 DEF old, blocks, stored

\* A node with all steps of the deployment that an environment published: the
\* last of them has every other before it.
LEMMA StepsBeforeLast ==
    ASSUME TypeOK, IInv, NEW e \in Environments,
           manifest[e] # Null, marker[e] = Null, chain[binding[e]] # <<>>, binding[e] \in Nodes,
           NEW i \in DOMAIN chain[binding[e]],
           chain[binding[e]][i].step = StepCount,
           chain[binding[e]][i].deployment = manifest[e].deployment,
           NEW k \in Steps
    PROVE  \E j \in DOMAIN chain[binding[e]] :
              j <= i /\ chain[binding[e]][j].hash = journal[e].steps[k].hash
<1> DEFINE blocks == chain[binding[e]]
<1>1. /\ journal[e] # Null /\ manifest[e].deployment = journal[e].deployment
      /\ Succeeded(journal[e].steps[k]) /\ OnChain(binding[e], journal[e].steps[k].hash)
  <2>1. ManifestSound(e)
    BY DEF IInv, Local
  <2> QED BY <2>1 DEF ManifestSound, ManifestOf
<1>2. PICK j \in DOMAIN blocks : blocks[j].hash = journal[e].steps[k].hash
  BY <1>1 DEF OnChain
<1>3. blocks[j].deployment = journal[e].deployment /\ blocks[j].step = k
  BY <1>1, <1>2 DEF IInv, HashSound, Succeeded
<1>4. j \in Nat /\ i \in Nat
  BY DEF TypeOK
<1>5. ChainSound(binding[e])
  BY DEF IInv
<1>6. CASE k = StepCount
  <2>1. j = i
    BY <1>1, <1>3, <1>5, <1>6 DEF ChainSound
  <2> QED BY <1>2, <1>4, <2>1
<1>7. CASE k # StepCount
  <2>1. k < StepCount
    BY <1>7 DEF Steps
  <2>2. j < i
    BY <1>1, <1>3, <1>5, <2>1 DEF ChainSound
  <2> QED BY <1>2, <1>4, <2>2
<1> QED BY <1>6, <1>7

\* The database that a stored range leaves.
LEMMA IngestMore ==
    ASSUME TypeOK, IInv, NEW e \in Environments, NEW upTo, StoreRange(e, upTo)
    PROVE  IInv' /\ database' \in [Environments -> Databases \cup {Null}]
<1> DEFINE old == database[e]
           stored == StoredUpTo(e, upTo)
           new == [old EXCEPT !.blocks = stored]
<1>1. Local(e) /\ Exclusive
  BY DEF IInv
<1>2. /\ run[e].node \in Nodes /\ run[e].build \in Builds /\ binding[e] = run[e].node
      /\ marker[e] = Null /\ manifest[e] # Null /\ database[e] # Null
      /\ run[e].target \in Targets /\ run[e].target.number > 0
  BY <1>1 DEF Local, Control, Booting, Sending, Published, InStep, StoreRange
<1>3. /\ stored \in Seq(Transactions) /\ Len(stored) = upTo
      /\ upTo \in Nat /\ upTo > Len(old.blocks) /\ upTo <= Len(chain[binding[e]])
      /\ \A i \in 1..upTo : stored[i] = chain[binding[e]][i]
      /\ \A i \in DOMAIN old.blocks : stored[i] = old.blocks[i]
  BY <1>2, StoredPrefix DEF StoreRange
<1>4. old \in Databases
  BY <1>2 DEF TypeOK
<1>5. database' = [database EXCEPT ![e] = new]
  BY <1>2, <1>4 DEF TypeOK, StoreRange, StoredUpTo
<1>6. old.blocks \in Seq(Transactions) /\ Len(old.blocks) \in Nat
  BY <1>2 DEF TypeOK, Databases
<1> HIDE DEF stored
<1>7. new \in Databases /\ new.manifest = old.manifest /\ new.catalog = old.catalog /\ new.blocks = stored
  <2> HIDE DEF old
  <2> QED BY <1>3, <1>4 DEF Databases
<1> HIDE DEF new
<1>8. /\ database' \in [Environments -> Databases \cup {Null}]
      /\ database'[e] = new /\ database'[e] # Null
      /\ \A f \in Environments : f # e => database'[f] = database[f]
  BY <1>5, <1>7, DatabaseEffect
<1>9. /\ UNCHANGED <<chain, mined, journal, issued, mishaps, resets>>
      /\ UNCHANGED <<binding, manifest, receipt, marker>>
      /\ run' \in [Environments -> Runs] /\ \A f \in Environments : f # e => run'[f] = run[f]
      /\ run'[e].at = "ingest" /\ run'[e].node = run[e].node /\ run'[e].build = run[e].build
      /\ run'[e].target = run[e].target
  BY GotoEffect DEF Labels, Proceed, StoreRange
<1>10. Control(e)'
  BY <1>2, <1>8, <1>9 DEF Control, Booting, Sending, Published, InStep
<1>11. Progress(e)' /\ Emptied(e)'
  BY <1>2, <1>9 DEF Progress, Emptied, InStep, ResetPhases
<1>12. Contiguous(e)' /\ ManifestSound(e)'
  BY <1>1, <1>9 DEF Local, Contiguous, ManifestSound, ManifestOf, OnChain, Succeeded
<1>13. SamePast(e)'
  <2>1. DOMAIN stored = 1..upTo
    BY <1>3, <1>6
  <2>2. upTo \in 1..Len(chain[binding[e]]) /\ DOMAIN chain[binding[e]] = 1..Len(chain[binding[e]])
    BY <1>2, <1>3, <1>6 DEF TypeOK
  <2>3. ASSUME NEW i \in 1..upTo PROVE stored[i].block <= mined
    <3>1. ChainSound(binding[e]) /\ i \in DOMAIN chain[binding[e]]
      BY <1>2, <2>2 DEF IInv
    <3> QED BY <1>3, <3>1 DEF ChainSound
  <2> QED BY <1>2, <1>3, <1>7, <1>8, <1>9, <2>1, <2>3 DEF SamePast
<1>14. ASSUME NEW i \in DOMAIN stored, stored[i].step = StepCount,
              stored[i].deployment = manifest[e].deployment, NEW k \in Steps
       PROVE  \E j \in DOMAIN stored : stored[j].hash = journal[e].steps[k].hash
  <2>1. i \in 1..upTo /\ DOMAIN stored = 1..upTo /\ chain[binding[e]] \in Seq(Transactions)
    BY <1>2, <1>3, <1>6 DEF TypeOK
  <2>2. i \in DOMAIN chain[binding[e]] /\ chain[binding[e]] # <<>>
    BY <1>2, <1>3, <1>6, <2>1
  <2>3. PICK j \in DOMAIN chain[binding[e]] :
           j <= i /\ chain[binding[e]][j].hash = journal[e].steps[k].hash
    <3>1. chain[binding[e]][i].step = StepCount /\ chain[binding[e]][i].deployment = manifest[e].deployment
      BY <1>3, <1>14, <2>1
    <3>2. binding[e] \in Nodes /\ manifest[e] # Null /\ marker[e] = Null
      BY <1>2
    <3> QED BY <1>14, <2>2, <3>1, <3>2, StepsBeforeLast
  <2>4. j \in 1..upTo
    BY <1>3, <1>6, <2>1, <2>3
  <2> QED BY <1>3, <2>1, <2>3, <2>4
<1>15. DatabaseSound(e)'
  <2>1. HasAllSteps(e)' <=> \A k \in Steps : \E j \in DOMAIN stored :
                                stored[j].hash = journal[e].steps[k].hash
    BY <1>7, <1>8, <1>9 DEF HasAllSteps
  <2>2. SaleIndexed(e)' => HasAllSteps(e)'
    BY <1>7, <1>8, <1>9, <1>14, <2>1 DEF SaleIndexed
  <2> QED BY <1>1, <1>2, <1>7, <1>8, <1>9, <2>2 DEF Local, DatabaseSound, StoreRange
<1>16. ReceiptSound(e)'
  <2>1. DOMAIN old.blocks \subseteq DOMAIN stored
    BY <1>3, <1>6
  <2>2. HasAllSteps(e) => HasAllSteps(e)'
    BY <1>3, <1>7, <1>8, <1>9, <2>1 DEF HasAllSteps
  <2> QED BY <1>1, <1>3, <1>7, <1>8, <1>9, <2>1, <2>2 DEF Local, ReceiptSound
<1>17. Exclusive' /\ \A f \in Environments : f # e => Untouched(f)
  BY <1>1, <1>8, <1>9 DEF Exclusive, Untouched
<1>18. Local(e)'
  BY <1>10, <1>11, <1>12, <1>13, <1>15, <1>16 DEF Local
<1> QED BY <1>8, <1>9, <1>17, <1>18, FilesStep

LEMMA IngestStep ==
    ASSUME TypeOK, IInv, NEW e \in Environments, Ingest(e)
    PROVE  IInv' /\ database' \in [Environments -> Databases \cup {Null}]
<1> DEFINE stored == database[e].blocks
           target == run[e].target
<1>1. Local(e) /\ Exclusive
  BY DEF IInv
<1>2. run[e].at = "ingest"
  BY DEF Ingest
<1>3. /\ run[e].node \in Nodes /\ run[e].build \in Builds /\ binding[e] = run[e].node
      /\ marker[e] = Null /\ manifest[e] # Null /\ database[e] # Null
      /\ run[e].target \in Targets /\ run[e].target.number > 0
  BY <1>1, <1>2 DEF Local, Control, Booting, Sending, Published, InStep
<1>4. CASE GiveUp(e)
  BY <1>4, GiveUpStep DEF GiveUp, localVars, TypeOK
<1>5. CASE /\ Len(stored) >= target.number /\ stored[target.number].block = target.block
           /\ Proceed(e, "receipt") /\ UNCHANGED localVars
  <2>1. /\ UNCHANGED <<chain, mined, journal, issued, mishaps, resets, localVars>>
        /\ run' \in [Environments -> Runs] /\ \A f \in Environments : f # e => run'[f] = run[f]
        /\ run'[e].at = "receipt" /\ run'[e].node = run[e].node /\ run'[e].build = run[e].build
        /\ run'[e].target = run[e].target
    BY <1>5, GotoEffect DEF Labels, Proceed
  <2>2. target.number \in DOMAIN stored
    <3>1. stored \in Seq(Transactions) /\ target.number \in Nat
      BY <1>3 DEF TypeOK, Databases, Targets
    <3> QED BY <1>3, <1>5, <3>1
  <2>3. Control(e)'
    BY <1>3, <2>1 DEF Control, Booting, Sending, Published, InStep, localVars
  <2>4. Progress(e)' /\ Emptied(e)'
    BY <1>3, <2>1 DEF Progress, Emptied, InStep, ResetPhases, localVars
  <2>5. Contiguous(e)' /\ ManifestSound(e)'
    BY <1>1, <2>1 DEF Local, Contiguous, ManifestSound, ManifestOf, OnChain, Succeeded, localVars
  <2>6. SamePast(e)' /\ ReceiptSound(e)'
    BY <1>1, <2>1 DEF Local, SamePast, ReceiptSound, HasAllSteps, localVars
  <2>7. DatabaseSound(e)'
    BY <1>1, <1>2, <1>5, <2>1, <2>2 DEF Local, DatabaseSound, HasAllSteps, SaleIndexed, localVars
  <2>8. Exclusive' /\ \A f \in Environments : f # e => Untouched(f)
    BY <1>1, <2>1 DEF Exclusive, Untouched, localVars
  <2>9. Local(e)'
    BY <2>3, <2>4, <2>5, <2>6, <2>7 DEF Local
  <2> QED BY <2>1, <2>8, <2>9, FilesStep DEF localVars, TypeOK
<1>6. CASE /\ OnBranch(run[e].node, stored)
           /\ \E upTo \in Heights(e) :
                 database' = [database EXCEPT ![e].blocks =
                                 @ \o SubSeq(chain[run[e].node], Len(@) + 1, upTo)]
           /\ Proceed(e, "ingest") /\ UNCHANGED <<binding, manifest, receipt, marker>>
  BY <1>2, <1>6, IngestMore DEF StoreRange
<1> QED BY <1>4, <1>5, <1>6 DEF Ingest, Heights

LEMMA PublishReceiptStep ==
    ASSUME TypeOK, IInv, NEW e \in Environments, PublishReceipt(e)
    PROVE  IInv' /\ receipt' \in [Environments -> ReceiptFiles \cup {Null}]
<1> USE DEF PublishReceipt
<1> DEFINE old == receipt[e]
           file == [deployment |-> manifest[e].deployment, target |-> run[e].target]
           new == IF old = Null /\ database[e].catalog /\ SaleIndexed(e) THEN file ELSE old
<1>1. Local(e) /\ Exclusive
  BY DEF IInv
<1>2. /\ run[e].node \in Nodes /\ run[e].build \in Builds /\ binding[e] = run[e].node
      /\ marker[e] = Null /\ manifest[e] # Null /\ database[e] # Null
      /\ run[e].target \in Targets
  BY <1>1 DEF Local, Control, Booting, Sending, Published, InStep
<1>3. /\ receipt' = [receipt EXCEPT ![e] = new]
      /\ UNCHANGED <<chain, mined, journal, issued, mishaps, resets,
                     binding, manifest, database, marker>>
  BY DEF TypeOK
<1>4. /\ run' \in [Environments -> Runs] /\ \A f \in Environments : f # e => run'[f] = run[f]
      /\ run'[e].at = "idle"
  BY EndEffect
<1>5. file \in ReceiptFiles /\ old \in ReceiptFiles \cup {Null}
  <2>1. manifest[e].deployment \in Nat
    BY <1>2 DEF TypeOK, Manifests
  <2> QED BY <1>2, <2>1 DEF ReceiptFiles, TypeOK
<1>6. /\ file.deployment = manifest[e].deployment /\ file.target = run[e].target
      /\ file # Null
  BY <1>5
<1> HIDE DEF file, old
<1>7. new \in ReceiptFiles \cup {Null} /\ (new = old \/ (new = file /\ SaleIndexed(e)))
  BY <1>5 DEF new
<1> HIDE DEF new
<1>8. /\ receipt' \in [Environments -> ReceiptFiles \cup {Null}]
      /\ receipt'[e] = new /\ \A f \in Environments : f # e => receipt'[f] = receipt[f]
  BY <1>3, <1>7 DEF TypeOK
<1>9. Control(e)' /\ Progress(e)'
  BY <1>4 DEF Control, Progress, Booting, Sending, Published, InStep
<1>10. Emptied(e)' /\ SamePast(e)'
  BY <1>1, <1>3, <1>4 DEF Local, Emptied, SamePast
<1>11. Contiguous(e)' /\ ManifestSound(e)'
  BY <1>1, <1>3 DEF Local, Contiguous, ManifestSound, ManifestOf, OnChain, Succeeded
<1>12. DatabaseSound(e)'
  BY <1>1, <1>3, <1>4 DEF Local, DatabaseSound, HasAllSteps, SaleIndexed
<1>13. /\ database[e].manifest = manifest[e] /\ database[e].catalog
       /\ run[e].target.number \in DOMAIN database[e].blocks
       /\ database[e].blocks[run[e].target.number].block = run[e].target.block
       /\ SaleIndexed(e) => HasAllSteps(e)
  BY <1>1, <1>2 DEF Local, DatabaseSound
<1>14. ReceiptSound(e)'
  <2>1. CASE new = old
    BY <1>1, <1>3, <1>8, <2>1 DEF Local, ReceiptSound, HasAllSteps, old
  <2>2. CASE new = file /\ SaleIndexed(e)
    BY <1>2, <1>3, <1>6, <1>8, <1>13, <2>2 DEF ReceiptSound, HasAllSteps
  <2> QED BY <1>7, <2>1, <2>2
<1>15. Exclusive' /\ \A f \in Environments : f # e => Untouched(f)
  BY <1>1, <1>3, <1>4, <1>8 DEF Exclusive, Untouched
<1>16. Local(e)'
  BY <1>9, <1>10, <1>11, <1>12, <1>14 DEF Local
<1> QED BY <1>3, <1>4, <1>8, <1>15, <1>16, FilesStep

-----------------------------------------------------------------------------
(* Reset.                                                                  *)

\* While a marker is there, nothing is claimed of the files it will remove.
LEMMA ResetLocal ==
    ASSUME TypeOK, IInv, NEW e \in Environments,
           UNCHANGED <<chain, mined, binding>>,
           marker'[e] # Null, database'[e] \in {database[e], Null},
           journal'[e] \in {journal[e], Null},
           Control(e)', Emptied(e)',
           run'[e].at \notin InStep \cup {"manifest"}
    PROVE  Local(e)'
<1>1. Local(e)
  BY DEF IInv
<1>2. Progress(e)'
  BY DEF Progress, InStep
<1>3. Contiguous(e)'
  BY <1>1 DEF Local, Contiguous, OnChain, Succeeded
<1>4. ManifestSound(e)' /\ DatabaseSound(e)' /\ ReceiptSound(e)'
  BY DEF ManifestSound, DatabaseSound, ReceiptSound
<1>5. SamePast(e)'
  BY <1>1 DEF Local, SamePast
<1> QED BY <1>2, <1>3, <1>4, <1>5 DEF Local

LEMMA StartResetStep ==
    ASSUME TypeOK, IInv, NEW e \in Environments, StartReset(e)
    PROVE  IInv' /\ run' \in [Environments -> Runs]
<1>1. PICK n \in Nodes :
         /\ run[e] = Idle /\ binding[e] = n
         /\ marker' = [marker EXCEPT ![e] = "PREPARED"]
         /\ run' = [run EXCEPT ![e] = [Idle EXCEPT !.at = "reset", !.node = n]]
         /\ UNCHANGED <<chain, mined, journal, issued, mishaps, binding, manifest, database, receipt>>
  BY DEF StartReset
<1> DEFINE new == [Idle EXCEPT !.at = "reset", !.node = n]
<1>2. new \in Runs /\ new.at = "reset" /\ new.node = n
  BY DEF Idle, Runs, Labels
<1>3. run' = [run EXCEPT ![e] = new]
  BY <1>1
<1> HIDE DEF new
<1>4. /\ run' \in [Environments -> Runs] /\ \A f \in Environments : f # e => run'[f] = run[f]
      /\ run'[e] = new
  BY <1>2, <1>3, RunEffect
<1>5. /\ marker'[e] = "PREPARED" /\ marker'[e] # Null
      /\ \A f \in Environments : f # e => marker'[f] = marker[f]
  BY <1>1 DEF TypeOK, ResetPhases
<1>6. Control(e)'
  BY <1>1, <1>2, <1>4, <1>5 DEF Control, Booting, Sending, Published, InStep
<1>7. Emptied(e)'
  BY <1>2, <1>4, <1>5 DEF Emptied
<1>8. Exclusive' /\ \A f \in Environments : f # e => Untouched(f)
  BY <1>1, <1>4, <1>5 DEF IInv, Exclusive, Untouched
<1>9. Local(e)'
  BY <1>1, <1>2, <1>4, <1>5, <1>6, <1>7, ResetLocal DEF InStep
<1> QED BY <1>1, <1>2, <1>4, <1>8, <1>9, FilesStep

LEMMA MarkChainResetStep ==
    ASSUME TypeOK, IInv, NEW e \in Environments, MarkChainReset(e)
    PROVE  IInv'
<1> USE DEF MarkChainReset, Proceed
<1>1. Local(e)
  BY DEF IInv
<1>2. /\ run' \in [Environments -> Runs] /\ \A f \in Environments : f # e => run'[f] = run[f]
      /\ run'[e].at = "clear"
  BY GotoEffect DEF Labels
<1>3. /\ marker'[e] = "CHAIN_RESET" /\ marker'[e] # Null
      /\ \A f \in Environments : f # e => marker'[f] = marker[f]
  BY DEF TypeOK, ResetPhases
<1>4. run[e].node \in Nodes /\ binding[e] = run[e].node
  BY <1>1 DEF Local, Control, Booting, Sending, Published, InStep
<1>5. Control(e)'
  BY <1>2, <1>3 DEF Control, Booting, Sending, Published, InStep
<1>6. Emptied(e)'
  BY <1>1 DEF Local, Emptied
<1>7. Exclusive' /\ \A f \in Environments : f # e => Untouched(f)
  BY <1>2, <1>3, <1>4 DEF IInv, Exclusive, Untouched
<1>8. Local(e)'
  BY <1>2, <1>3, <1>5, <1>6, ResetLocal DEF InStep
<1> QED BY <1>2, <1>7, <1>8, FilesStep

LEMMA MarkClearedStep ==
    ASSUME TypeOK, IInv, NEW e \in Environments, MarkCleared(e)
    PROVE  IInv'
<1> USE DEF MarkCleared, Proceed
<1>1. Local(e)
  BY DEF IInv
<1>2. /\ run' \in [Environments -> Runs] /\ \A f \in Environments : f # e => run'[f] = run[f]
      /\ run'[e].at = "finish"
  BY GotoEffect DEF Labels
<1>3. /\ marker'[e] = "LOCAL_STATE_CLEARED" /\ marker'[e] # Null
      /\ \A f \in Environments : f # e => marker'[f] = marker[f]
  BY DEF TypeOK, ResetPhases
<1>4. marker[e] \in {"CHAIN_RESET", "LOCAL_STATE_CLEARED"}
  BY <1>1 DEF Local, Control
<1>5. Control(e)'
  BY <1>2, <1>3 DEF Control, Cleared, Booting, Sending, Published, InStep
<1>6. Emptied(e)'
  BY <1>1, <1>4 DEF Local, Emptied
<1>7. marker[e] # Null
  BY <1>4 DEF ResetPhases
<1>8. Exclusive' /\ \A f \in Environments : f # e => Untouched(f)
  BY <1>2, <1>3, <1>7 DEF IInv, Exclusive, Untouched
<1>9. Local(e)'
  BY <1>2, <1>3, <1>5, <1>6, ResetLocal DEF InStep
<1> QED BY <1>2, <1>8, <1>9, FilesStep

LEMMA FinishResetStep ==
    ASSUME TypeOK, IInv, NEW e \in Environments, FinishReset(e)
    PROVE  IInv'
<1> USE DEF FinishReset
<1>1. Cleared(e) /\ Exclusive
  BY DEF IInv, Local, Control
<1>2. /\ run' \in [Environments -> Runs] /\ \A f \in Environments : f # e => run'[f] = run[f]
      /\ run'[e].at = "idle"
  BY EndEffect
<1>3. marker'[e] = Null /\ \A f \in Environments : f # e => marker'[f] = marker[f]
  BY DEF TypeOK
<1>4. Control(e)' /\ Progress(e)'
  BY <1>2 DEF Control, Progress, Booting, Sending, Published, InStep
<1>5. Emptied(e)' /\ Contiguous(e)'
  BY <1>1, <1>2, <1>3 DEF Emptied, Contiguous, Cleared, ResetPhases
<1>6. ManifestSound(e)' /\ SamePast(e)' /\ DatabaseSound(e)' /\ ReceiptSound(e)'
  BY <1>1 DEF Cleared, ManifestSound, SamePast, DatabaseSound, ReceiptSound
<1>7. Exclusive' /\ \A f \in Environments : f # e => Untouched(f)
  BY <1>1, <1>2, <1>3 DEF Exclusive, Untouched
<1>8. Local(e)'
  BY <1>4, <1>5, <1>6 DEF Local
<1> QED BY <1>2, <1>7, <1>8, FilesStep

LEMMA RecoverResetStep ==
    ASSUME TypeOK, IInv, NEW e \in Environments, RecoverReset(e)
    PROVE  IInv' /\ run' \in [Environments -> Runs]
<1> DEFINE new == [Idle EXCEPT !.at = "clear"]
<1>1. new \in Runs /\ new.at = "clear"
  BY DEF Idle, Runs, Labels
<1>2. run' = [run EXCEPT ![e] = new]
  BY DEF RecoverReset
<1> HIDE DEF new
<1>3. /\ run' \in [Environments -> Runs] /\ \A f \in Environments : f # e => run'[f] = run[f]
      /\ run'[e] = new
  BY <1>1, <1>2, RunEffect
<1>4. Control(e)' /\ Progress(e)'
  BY <1>1, <1>3 DEF RecoverReset, Control, Progress, Booting, Sending, Published, InStep, localVars
<1> QED BY <1>1, <1>3, <1>4, RunMoves DEF RecoverReset

LEMMA ClearNextStep ==
    ASSUME TypeOK, IInv, NEW e \in Environments, ClearNext(e)
    PROVE  IInv'
<1> USE DEF ClearNext
<1>1. Local(e) /\ Exclusive
  BY DEF IInv
<1>2. marker[e] \in {"CHAIN_RESET", "LOCAL_STATE_CLEARED"} /\ marker[e] # Null
  BY <1>1 DEF Local, Control, ResetPhases
<1>3. binding[e] \in Nodes /\ chain[binding[e]] = <<>>
  BY <1>1, <1>2 DEF Exclusive, Local, Emptied
<1>4. Control(e)' /\ Emptied(e)'
  BY <1>1, <1>2 DEF Local, Control, Emptied, Booting, Sending, Published, InStep
<1>5. Local(e)'
  <2>1. database'[e] \in {database[e], Null} /\ journal'[e] \in {journal[e], Null}
    BY DEF TypeOK
  <2> QED BY <1>2, <1>4, <2>1, ResetLocal DEF InStep
<1>6. /\ \A f \in Environments : f # e => Untouched(f)
      /\ journal'[e] \in {journal[e], Null}
  BY DEF Untouched, TypeOK
<1>7. ASSUME NEW f \in Environments, f # e PROVE Local(f)'
  BY <1>6, <1>7, Bystander DEF TypeOK
<1>8. Exclusive'
  BY <1>1, <1>3, <1>6 DEF Exclusive, Untouched
<1>9. ASSUME NEW f \in Environments PROVE JournalSound(f)'
  <2>1. JournalSound(f)
    BY DEF IInv
  <2>2. \A g \in Environments : journal'[g] \in {journal[g], Null}
    BY <1>6 DEF Untouched
  <2> QED BY <2>1, <2>2 DEF JournalSound, Succeeded
<1>10. ASSUME NEW f \in Environments PROVE HashSound(f)'
  <2>1. HashSound(f)
    BY DEF IInv
  <2>2. journal'[f] = journal[f] \/ (f = e /\ journal'[f] = Null)
    BY <1>6 DEF Untouched
  <2> QED BY <2>1, <2>2 DEF HashSound
<1>11. ASSUME NEW n \in Nodes PROVE ChainSound(n)'
  <2>1. ChainSound(n)
    BY DEF IInv
  <2>2. CASE n = binding[e]
    BY <1>3, <2>2 DEF ChainSound
  <2>3. CASE n # binding[e]
    BY <1>6, <2>1, <2>3 DEF ChainSound, OnRecord, Untouched
  <2> QED BY <2>2, <2>3
<1> QED BY <1>5, <1>7, <1>8, <1>9, <1>10, <1>11 DEF IInv

-----------------------------------------------------------------------------
(* The node emptied, or its last block replaced.                           *)

\* What is left to show of an environment when its own node is emptied.
LEMMA OwnNodeEmptied ==
    ASSUME TypeOK, IInv, NEW e \in Environments, binding[e] \in Nodes,
           chain'[binding[e]] = <<>>, UNCHANGED <<mined, journal, localVars>>,
           run'[e] = run[e] \/ run'[e].at \in {"idle", "mark"},
           Control(e)', Progress(e)'
    PROVE  Local(e)'
<1>1. Local(e)
  BY DEF IInv
<1>2. Emptied(e)' /\ Contiguous(e)'
  BY DEF Emptied, Contiguous, OnChain, localVars
<1>3. ManifestSound(e)'
  BY <1>1 DEF Local, ManifestSound, ManifestOf, Succeeded, localVars
<1>4. SamePast(e)'
  <2>1. database[e] # Null => database[e].blocks \in Seq(Transactions)
    BY DEF TypeOK, Databases
  <2>2. ASSUME database[e] # Null, database[e].blocks # <<>> PROVE ~ (Len(database[e].blocks) <= Len(<<>>))
    BY <2>1, <2>2
  <2> QED BY <1>1, <2>2 DEF Local, SamePast, localVars
<1>5. DatabaseSound(e)'
  <2>1. CASE run'[e] = run[e]
    BY <1>1, <2>1 DEF Local, DatabaseSound, HasAllSteps, SaleIndexed, localVars
  <2>2. CASE run'[e].at \in {"idle", "mark"}
    BY <1>1, <2>2 DEF Local, DatabaseSound, HasAllSteps, SaleIndexed, localVars
  <2> QED BY <2>1, <2>2
<1>6. ReceiptSound(e)'
  BY <1>1 DEF Local, ReceiptSound, HasAllSteps, localVars
<1> QED BY <1>2, <1>3, <1>4, <1>5, <1>6 DEF Local

\* Emptying a node takes nothing from the record.
LEMMA EmptiedNode ==
    ASSUME TypeOK, IInv, NEW n \in Nodes, chain' = [chain EXCEPT ![n] = <<>>],
           UNCHANGED <<mined, journal, issued, localVars>>,
           \A f \in Environments : Local(f)',
           \A f \in Environments : run'[f] = run[f] \/ run'[f].at \in {"idle", "mark"}
    PROVE  IInv' /\ chain' \in [Nodes -> Seq(Transactions)]
<1>1. /\ chain'[n] = <<>> /\ \A m \in Nodes : m # n => chain'[m] = chain[m]
      /\ chain' \in [Nodes -> Seq(Transactions)]
  BY DEF TypeOK
<1>2. Exclusive'
  BY DEF IInv, Exclusive, localVars
<1>3. \A f \in Environments : JournalSound(f)'
  BY DEF IInv, JournalSound, Succeeded
<1>4. ASSUME NEW f \in Environments PROVE HashSound(f)'
  <2>1. HashSound(f)
    BY DEF IInv
  <2>2. \A m \in Nodes : chain'[m] = chain[m] \/ chain'[m] = <<>>
    BY <1>1
  <2> QED BY <2>1, <2>2 DEF HashSound
<1>5. ASSUME NEW m \in Nodes PROVE ChainSound(m)'
  <2>1. ChainSound(m)
    BY DEF IInv
  <2> QED BY <1>1, <2>1 DEF ChainSound, OnRecord, localVars
<1> QED BY <1>1, <1>2, <1>3, <1>4, <1>5 DEF IInv

LEMMA ResetChainStep ==
    ASSUME TypeOK, IInv, NEW e \in Environments, ResetChain(e)
    PROVE  IInv' /\ chain' \in [Nodes -> Seq(Transactions)]
<1> USE DEF ResetChain
<1>1. Local(e) /\ Exclusive
  BY DEF IInv
<1>2. run[e].node \in Nodes /\ binding[e] = run[e].node /\ marker[e] = "PREPARED"
  BY <1>1 DEF Local, Control, Booting, Sending, Published, InStep
<1>3. /\ run' \in [Environments -> Runs] /\ \A f \in Environments : f # e => run'[f] = run[f]
      /\ run'[e].at = "mark" /\ run'[e].node = run[e].node
  BY GotoEffect DEF Labels
<1>4. chain'[binding[e]] = <<>> /\ \A m \in Nodes : m # binding[e] => chain'[m] = chain[m]
  BY <1>2 DEF TypeOK
<1>5. Control(e)' /\ Progress(e)'
  BY <1>2, <1>3 DEF Control, Progress, Booting, Sending, Published, InStep, localVars
<1>6. Local(e)'
  BY <1>2, <1>3, <1>4, <1>5, OwnNodeEmptied
<1>7. ASSUME NEW f \in Environments, f # e PROVE Local(f)'
  <2>1. Untouched(f) /\ (binding[f] \in Nodes => chain'[binding[f]] = chain[binding[f]])
    BY <1>1, <1>2, <1>3, <1>4, <1>7 DEF Untouched, localVars, Exclusive
  <2> QED BY <2>1, Bystander DEF TypeOK
<1>8. \A f \in Environments : Local(f)'
  BY <1>6, <1>7
<1>9. \A f \in Environments : run'[f] = run[f] \/ run'[f].at \in {"idle", "mark"}
  BY <1>3
<1> QED BY <1>2, <1>8, <1>9, EmptiedNode

LEMMA ResetFailsStep ==
    ASSUME TypeOK, IInv, NEW e \in Environments, ResetFails(e)
    PROVE  IInv' /\ chain' \in [Nodes -> Seq(Transactions)]
<1> USE DEF ResetFails
<1>1. Local(e) /\ Exclusive
  BY DEF IInv
<1>2. run[e].node \in Nodes /\ binding[e] = run[e].node
  BY <1>1 DEF Local, Control, Booting, Sending, Published, InStep
<1>3. /\ run' \in [Environments -> Runs] /\ \A f \in Environments : f # e => run'[f] = run[f]
      /\ run'[e].at = "idle"
  BY EndEffect
<1>4. CASE UNCHANGED chain
  BY <1>3, <1>4, RunEnds DEF TypeOK
<1>5. CASE chain' = [chain EXCEPT ![run[e].node] = <<>>]
  <2>1. chain'[binding[e]] = <<>> /\ \A m \in Nodes : m # binding[e] => chain'[m] = chain[m]
    BY <1>2, <1>5 DEF TypeOK
  <2>2. Control(e)' /\ Progress(e)'
    BY <1>3 DEF Control, Progress, Booting, Sending, Published, InStep, localVars
  <2>3. Local(e)'
    BY <1>2, <1>3, <2>1, <2>2, OwnNodeEmptied
  <2>4. ASSUME NEW f \in Environments, f # e PROVE Local(f)'
    <3>1. Untouched(f) /\ (binding[f] \in Nodes => chain'[binding[f]] = chain[binding[f]])
      BY <1>1, <1>2, <1>3, <2>1, <2>4 DEF Untouched, localVars, Exclusive
    <3> QED BY <3>1, Bystander DEF TypeOK
  <2>5. \A f \in Environments : Local(f)'
    BY <2>3, <2>4
  <2>6. \A f \in Environments : run'[f] = run[f] \/ run'[f].at \in {"idle", "mark"}
    BY <1>3
  <2> QED BY <1>2, <1>5, <2>5, <2>6, EmptiedNode
<1> QED BY <1>4, <1>5

\* What is known of a run does not depend on the chain.
LEMMA RunUntouched ==
    ASSUME TypeOK, IInv, NEW f \in Environments, mined' \in Nat, mined' >= mined,
           UNCHANGED <<journal, run, localVars>>
    PROVE  Control(f)' /\ Progress(f)'
<1>1. Control(f) /\ Progress(f) /\ mined \in Nat
  BY DEF IInv, Local, TypeOK
<1>2. Control(f)'
  BY <1>1 DEF Control, Entry, Cleared, localVars
<1>3. run[f].at = "save" => run[f].hash \in Nat
  BY <1>1 DEF Control
<1> QED BY <1>1, <1>2, <1>3 DEF Progress, Succeeded, localVars

LEMMA RestartNodeStep ==
    ASSUME TypeOK, IInv, NEW n \in Nodes, RestartNode(n), UNCHANGED localVars
    PROVE  IInv' /\ chain' \in [Nodes -> Seq(Transactions)]
<1> USE DEF RestartNode
<1>1. chain'[n] = <<>> /\ \A m \in Nodes : m # n => chain'[m] = chain[m]
  BY DEF TypeOK
<1>2. mined' \in Nat /\ mined' >= mined
  BY DEF TypeOK
<1>3. ASSUME NEW f \in Environments PROVE Local(f)'
  <2>1. CASE binding[f] = n
    <3>1. Control(f)' /\ Progress(f)'
      BY <1>2, RunUntouched
    <3> QED BY <1>1, <2>1, <3>1, OwnNodeEmptied
  <2>2. CASE binding[f] # n
    BY <1>1, <1>2, <2>2, Bystander DEF Untouched, localVars
  <2> QED BY <2>1, <2>2
<1> QED BY <1>3, EmptiedNode

LEMMA RemineStep ==
    ASSUME TypeOK, IInv, NEW n \in Nodes, Remine(n), UNCHANGED localVars
    PROVE  IInv' /\ chain' \in [Nodes -> Seq(Transactions)] /\ mined' \in Nat
<1> DEFINE blocks == chain[n]
           last == Len(blocks)
           tx == blocks[last]
           new == [tx EXCEPT !.block = mined + 1]
<1>1. blocks \in Seq(Transactions) /\ blocks # <<>> /\ mined \in Nat /\ mined' = mined + 1
  BY DEF TypeOK, Remine
<1>2. last \in Nat /\ last \in DOMAIN blocks /\ DOMAIN blocks = 1..last /\ tx \in Transactions
  BY <1>1
<1>3. /\ new \in Transactions /\ new.hash = tx.hash /\ new.block = mined + 1 /\ new.step = tx.step
      /\ new.deployment = tx.deployment /\ new.intent = tx.intent /\ new.outcome = tx.outcome
  <2> DEFINE m == mined + 1
  <2>1. tx \in Transactions /\ m \in Nat
    BY <1>1, <1>2
  <2> HIDE DEF tx, m
  <2>2. /\ [tx EXCEPT !.block = m] \in Transactions
        /\ [tx EXCEPT !.block = m].hash = tx.hash /\ [tx EXCEPT !.block = m].block = m
        /\ [tx EXCEPT !.block = m].step = tx.step
        /\ [tx EXCEPT !.block = m].deployment = tx.deployment
        /\ [tx EXCEPT !.block = m].intent = tx.intent
        /\ [tx EXCEPT !.block = m].outcome = tx.outcome
    BY <2>1 DEF Transactions
  <2> QED BY <2>2 DEF m
<1>4. chain' = [chain EXCEPT ![n] = [blocks EXCEPT ![last] = new]]
  BY DEF TypeOK, Remine
<1>0. UNCHANGED <<journal, issued, run>>
  BY DEF Remine
<1> HIDE DEF new
<1>5. [blocks EXCEPT ![last] = new] \in Seq(Transactions)
  BY <1>1, <1>2, <1>3
<1>6. /\ chain' \in [Nodes -> Seq(Transactions)]
      /\ \A m \in Nodes : m # n => chain'[m] = chain[m]
      /\ chain'[n] = [blocks EXCEPT ![last] = new]
  BY <1>4, <1>5 DEF TypeOK
<1>7. /\ DOMAIN chain'[n] = DOMAIN chain[n] /\ Len(chain'[n]) = last /\ chain'[n] # <<>>
      /\ \A i \in DOMAIN chain[n] : chain'[n][i] = IF i = last THEN new ELSE chain[n][i]
  BY <1>1, <1>2, <1>6
<1>8. \A m \in Nodes : DOMAIN chain'[m] = DOMAIN chain[m]
  BY <1>6, <1>7
<1>9. ASSUME NEW m \in Nodes, NEW i \in DOMAIN chain[m]
      PROVE  /\ chain'[m][i].hash = chain[m][i].hash /\ chain'[m][i].step = chain[m][i].step
             /\ chain'[m][i].deployment = chain[m][i].deployment
             /\ chain'[m][i].intent = chain[m][i].intent
             /\ chain'[m][i].block \in {chain[m][i].block, mined + 1}
  BY <1>3, <1>6, <1>7
<1>10. \A m \in Nodes : \A h : OnChain(m, h)' <=> OnChain(m, h)
  BY <1>8, <1>9 DEF OnChain
<1>11. mined' \in Nat /\ mined' >= mined
  BY <1>1
<1>12. ASSUME NEW f \in Environments PROVE Local(f)'
  <2>1. CASE binding[f] # n
    BY <1>0, <1>6, <1>11, <2>1, Bystander DEF Untouched, localVars
  <2>2. CASE binding[f] = n
    <3>1. Local(f)
      BY DEF IInv
    <3>2. Control(f)' /\ Progress(f)'
      BY <1>0, <1>11, RunUntouched
    <3>3. Emptied(f)'
      BY <1>0, <1>1, <2>2, <3>1 DEF Local, Emptied, localVars
    <3>4. Contiguous(f)'
      BY <1>0, <1>10, <2>2, <3>1 DEF Local, Contiguous, Succeeded, localVars
    <3>5. ManifestSound(f)'
      BY <1>0, <1>1, <1>10, <2>2, <3>1 DEF Local, ManifestSound, ManifestOf, Succeeded, localVars
    <3>6. SamePast(f)'
      <4> DEFINE stored == database[f].blocks
      <4>1. SUFFICES ASSUME database[f] # Null
                     PROVE  /\ \A i \in DOMAIN stored : stored[i].block <= mined'
                            /\ stored # <<>> /\ Len(stored) <= last
                                 /\ stored[Len(stored)] = chain'[n][Len(stored)] =>
                                  \A i \in DOMAIN stored : stored[i] = chain'[n][i]
        BY <1>7, <2>2 DEF SamePast, localVars
      <4>2. stored \in Seq(Transactions)
        BY <4>1 DEF TypeOK, Databases
      <4>3. ASSUME NEW i \in DOMAIN stored
            PROVE  stored[i].block \in Nat /\ stored[i].block <= mined
        <5>1. stored[i] \in Transactions
          BY <4>2
        <5> QED BY <3>1, <4>1, <5>1 DEF Local, SamePast, Transactions
      <4>4. ASSUME stored # <<>>, Len(stored) <= last, stored[Len(stored)] = chain'[n][Len(stored)],
                   NEW i \in DOMAIN stored
            PROVE  stored[i] = chain'[n][i]
        <5>1. Len(stored) \in DOMAIN stored /\ Len(stored) \in Nat /\ DOMAIN stored = 1..Len(stored)
          BY <4>2, <4>4
        <5>2. Len(stored) # last
          BY <1>1, <1>2, <1>3, <1>7, <4>3, <4>4, <5>1
        <5>3. i # last /\ i \in DOMAIN chain[n] /\ Len(stored) \in DOMAIN chain[n]
          BY <1>2, <4>4, <5>1, <5>2
        <5>4. stored[Len(stored)] = blocks[Len(stored)]
          BY <1>7, <4>4, <5>2, <5>3
        <5>5. stored[i] = blocks[i]
          BY <2>2, <3>1, <4>1, <4>4, <5>4 DEF Local, SamePast
        <5> QED BY <1>7, <5>3, <5>5
      <4> QED BY <1>1, <4>3, <4>4
    <3>7. DatabaseSound(f)' /\ ReceiptSound(f)'
      BY <1>0, <3>1 DEF Local, DatabaseSound, ReceiptSound, SaleIndexed, HasAllSteps, localVars
    <3> QED BY <3>2, <3>3, <3>4, <3>5, <3>6, <3>7 DEF Local
  <2> QED BY <2>1, <2>2
<1>13. Exclusive'
  BY <1>0 DEF IInv, Exclusive, localVars
<1>14. ASSUME NEW f \in Environments PROVE JournalSound(f)'
  <2>1. JournalSound(f)
    BY DEF IInv
  <2>2. ASSUME journal[f] # Null, NEW k \in Steps, journal[f].steps[k] # Null,
               journal[f].steps[k].hash # Null
        PROVE  journal[f].steps[k].hash <= mined'
    <3>1. journal[f].steps[k].hash \in Nat
      BY <2>2, EntryType DEF Entries
    <3> QED BY <1>1, <2>1, <2>2, <3>1 DEF JournalSound
  <2> QED BY <1>0, <2>1, <2>2 DEF JournalSound, Succeeded
<1>15. ASSUME NEW f \in Environments PROVE HashSound(f)'
  <2>1. HashSound(f)
    BY DEF IInv
  <2> QED BY <1>0, <1>8, <1>9, <2>1 DEF HashSound
<1>16. ASSUME NEW m \in Nodes PROVE ChainSound(m)'
  <2>1. ChainSound(m) /\ chain[m] \in Seq(Transactions)
    BY DEF IInv, TypeOK
  <2>2. ASSUME NEW i \in DOMAIN chain[m]
        PROVE  chain'[m][i].hash <= mined' /\ chain'[m][i].block <= mined'
    <3>1. chain[m][i] \in Transactions
      BY <2>1
    <3>2. chain[m][i].hash \in Nat /\ chain[m][i].block \in Nat
      BY <3>1 DEF Transactions
    <3> QED BY <1>1, <1>9, <2>1, <3>2 DEF ChainSound
  <2>3. ASSUME NEW i \in DOMAIN chain[m] PROVE OnRecord(chain[m][i], m)'
    BY <1>0, <1>9, <2>1 DEF ChainSound, OnRecord, localVars
  <2> QED BY <1>8, <1>9, <2>1, <2>2, <2>3 DEF ChainSound
<1> QED BY <1>6, <1>11, <1>12, <1>13, <1>14, <1>15, <1>16 DEF IInv

-----------------------------------------------------------------------------
(* Seeding: what a saved entry leaves true.                                *)

\* A journal of one environment with one entry rewritten.
Saved(e, entry) ==
    /\ journal'[e] # Null /\ journal'[e].deployment = journal[e].deployment
    /\ \A f \in Environments : f # e => journal'[f] = journal[f]
    /\ \A k \in Steps : journal'[e].steps[k] =
          IF k = run[e].step THEN entry ELSE journal[e].steps[k]

\* A save keeps the intent and the success of what it overwrites.
Keeps(e, entry) ==
    /\ Entry(e) # Null => /\ entry.intent = Entry(e).intent
                          /\ Succeeded(Entry(e)) => Succeeded(entry)
    /\ Entry(e) = Null => entry.intent = Intent(run[e].step, run[e].build)

LEMMA SavedJournals ==
    ASSUME TypeOK, IInv, NEW e \in Environments, run[e].at \in InStep,
           NEW entry \in Entries, Saved(e, entry), Keeps(e, entry),
           mined' \in Nat, mined' >= mined, issued' = issued,
           entry.status \in {"SUBMITTED", "VERIFIED"} => entry.hash # Null,
           entry.receipt # Null => entry.hash # Null,
           entry.hash # Null => entry.hash <= mined'
    PROVE  \A f \in Environments : JournalSound(f)'
<1>1. /\ journal[e] # Null /\ run[e].step \in Steps /\ Progress(e) /\ JournalSound(e)
      /\ mined \in Nat /\ entry # Null
  BY DEF IInv, Local, Control, InStep, TypeOK
<1>2. ASSUME NEW f \in Environments, journal[f] # Null, NEW k \in Steps,
             journal[f].steps[k] # Null, journal[f].steps[k].hash # Null
      PROVE  journal[f].steps[k].hash <= mined'
  <2>1. journal[f].steps[k].hash \in Nat
    BY <1>2, EntryType DEF Entries
  <2>2. JournalSound(f)
    BY DEF IInv
  <2> QED BY <1>1, <1>2, <2>1, <2>2 DEF JournalSound
<1>3. ASSUME NEW f \in Environments, f # e PROVE JournalSound(f)'
  <2>1. JournalSound(f)
    BY DEF IInv
  <2> QED BY <1>2, <1>3, <2>1, <1>1 DEF JournalSound, Succeeded, Saved
<1>4. JournalSound(e)'
  <2>1. journal'[e].deployment <= issued'
    BY <1>1 DEF JournalSound, Saved
  <2>2. \A f \in Environments \ {e} :
           journal'[f] # Null => journal'[f].deployment # journal'[e].deployment
    BY <1>1 DEF JournalSound, Saved
  <2>3. ASSUME NEW k \in Steps, journal'[e].steps[k] # Null
        PROVE  LET s == journal'[e].steps[k] IN
               /\ s.status \in {"SUBMITTED", "VERIFIED"} => s.hash # Null
               /\ s.receipt # Null => s.hash # Null
               /\ s.hash # Null => s.hash <= mined'
    BY <1>1, <1>2, <2>3 DEF JournalSound, Saved
  <2>4. ASSUME NEW k \in Steps, journal'[e].steps[k] # Null, NEW m \in Steps, m < k
        PROVE  Succeeded(journal'[e].steps[m])
    <3>1. k \in Nat /\ m \in Nat
      BY DEF Steps
    <3>2. Succeeded(journal[e].steps[m])
      BY <1>1, <2>4, <3>1 DEF JournalSound, Progress, Saved
    <3> QED BY <1>1, <2>4, <3>1, <3>2 DEF Saved, Keeps, Entry, Succeeded
  <2>5. ASSUME journal'[e].steps[2] # Null
        PROVE  journal'[e].steps[1].intent = journal'[e].steps[2].intent
    <3>1. 1 \in Steps /\ 2 \in Steps
      BY DEF Steps
    <3>2. CASE run[e].step = 2
      BY <1>1, <3>1, <3>2 DEF JournalSound, Progress, Saved, Keeps, Entry, Intent, CodeSteps
    <3>3. CASE run[e].step # 2
      <4>1. journal[e].steps[2] # Null
        BY <2>5, <3>1, <3>3 DEF Saved
      <4>2. Succeeded(journal[e].steps[1])
        BY <1>1, <3>1, <4>1 DEF JournalSound
      <4> QED BY <1>1, <3>1, <3>3, <4>1, <4>2 DEF JournalSound, Saved, Keeps, Entry, Succeeded
    <3> QED BY <3>2, <3>3
  <2> QED BY <2>1, <2>2, <2>3, <2>4, <2>5 DEF JournalSound
<1> QED BY <1>3, <1>4

\* What was on record stays on record.
LEMMA SavedRecord ==
    ASSUME TypeOK, IInv, NEW e \in Environments, run[e].at \in InStep,
           NEW entry \in Entries, Saved(e, entry), Keeps(e, entry), UNCHANGED binding,
           NEW tx, tx.step \in Steps, NEW n, OnRecord(tx, n)
    PROVE  OnRecord(tx, n)'
<1>1. PICK f \in Environments :
         /\ binding[f] = n /\ journal[f] # Null
         /\ journal[f].deployment = tx.deployment
         /\ journal[f].steps[tx.step] # Null
         /\ journal[f].steps[tx.step].intent = tx.intent
  BY DEF OnRecord
<1>2. entry # Null
  OBVIOUS
<1>3. CASE f # e
  BY <1>1, <1>3 DEF OnRecord, Saved
<1>4. CASE f = e
  <2>1. /\ binding'[e] = n /\ journal'[e] # Null /\ journal'[e].deployment = tx.deployment
        /\ journal'[e].steps[tx.step] # Null
        /\ journal'[e].steps[tx.step].intent = tx.intent
    BY <1>1, <1>2, <1>4 DEF Saved, Keeps, Entry
  <2> QED BY <2>1 DEF OnRecord
<1> QED BY <1>3, <1>4

LEMMA SavedChains ==
    ASSUME TypeOK, IInv, NEW e \in Environments, run[e].at \in InStep,
           NEW entry \in Entries, Saved(e, entry), Keeps(e, entry),
           UNCHANGED <<chain, mined, binding>>
    PROVE  \A n \in Nodes : ChainSound(n)'
<1> SUFFICES ASSUME NEW n \in Nodes PROVE ChainSound(n)'
  OBVIOUS
<1>1. ChainSound(n)
  BY DEF IInv
<1>2. ASSUME NEW i \in DOMAIN chain[n] PROVE OnRecord(chain[n][i], n)'
  <2>1. chain[n][i] \in Transactions
    BY DEF TypeOK
  <2>2. chain[n][i].step \in Steps
    BY <2>1 DEF Transactions
  <2> DEFINE tx == chain[n][i]
  <2>3. tx.step \in Steps /\ OnRecord(tx, n)
    BY <1>1, <2>2 DEF ChainSound
  <2>4. chain'[n][i] = tx
    OBVIOUS
  <2> HIDE DEF tx
  <2>5. \E f \in Environments :
           /\ binding'[f] = n /\ journal'[f] # Null
           /\ journal'[f].deployment = tx.deployment
           /\ journal'[f].steps[tx.step] # Null
           /\ journal'[f].steps[tx.step].intent = tx.intent
    BY <2>3, SavedRecord DEF OnRecord
  <2> QED BY <2>4, <2>5 DEF OnRecord
<1> QED BY <1>1, <1>2 DEF ChainSound

\* A hash of an entry is of its own step, if the one just saved is.
LEMMA SavedHashes ==
    ASSUME TypeOK, IInv, NEW e \in Environments, run[e].at \in InStep,
           NEW entry \in Entries, Saved(e, entry), UNCHANGED <<chain, mined, binding>>,
           \A f \in Environments : f # e => run'[f] = run[f],
           run'[e].at # "save",
           run'[e].at = "submit" => Entry(e) = Null /\ run'[e].step = run[e].step,
           entry.hash # Null =>
               \/ Entry(e) # Null /\ entry.hash = Entry(e).hash
               \/ run[e].at = "save" /\ entry.hash = run[e].hash
    PROVE  \A f \in Environments : HashSound(f)'
<1>1. /\ journal[e] # Null /\ run[e].step \in Steps /\ HashSound(e)
  BY DEF IInv, Local, Control, InStep
<1>2. ASSUME NEW f \in Environments, f # e PROVE HashSound(f)'
  <2>1. HashSound(f)
    BY DEF IInv
  <2> QED BY <1>2, <2>1 DEF HashSound, Saved
<1>3. HashSound(e)'
  <2> SUFFICES ASSUME NEW n \in Nodes, NEW i \in DOMAIN chain[n]
               PROVE  LET tx == chain[n][i] IN
                      /\ run'[e].at = "submit" =>
                            ~ (tx.deployment = journal[e].deployment /\ tx.step = run[e].step)
                      /\ \A k \in Steps :
                            journal'[e].steps[k] # Null /\ journal'[e].steps[k].hash = tx.hash =>
                            tx.deployment = journal[e].deployment /\ tx.step = k
    BY DEF HashSound, Saved
  <2> DEFINE tx == chain[n][i]
  <2>1. tx.hash \in Nat /\ tx.hash # Null
    <3>1. tx \in Transactions
      BY DEF TypeOK
    <3> QED BY <3>1 DEF Transactions
  <2>2. ASSUME NEW k \in Steps, journal'[e].steps[k] # Null, journal'[e].steps[k].hash = tx.hash
        PROVE  tx.deployment = journal[e].deployment /\ tx.step = k
    <3>1. CASE k # run[e].step
      BY <1>1, <2>2, <3>1 DEF HashSound, Saved
    <3>2. CASE k = run[e].step
      <4>1. entry.hash = tx.hash /\ entry.hash # Null
        BY <2>1, <2>2, <3>2 DEF Saved
      <4> QED BY <1>1, <3>2, <4>1 DEF HashSound, Entry
    <3> QED BY <3>1, <3>2
  <2>3. ASSUME Entry(e) = Null, tx.deployment = journal[e].deployment, tx.step = run[e].step
        PROVE  FALSE
    <3>1. ChainSound(n)
      BY DEF IInv
    <3>2. PICK f \in Environments :
             /\ journal[f] # Null /\ journal[f].deployment = tx.deployment
             /\ journal[f].steps[tx.step] # Null
      BY <3>1 DEF ChainSound, OnRecord
    <3>3. JournalSound(e)
      BY DEF IInv
    <3>4. f = e
      BY <1>1, <2>3, <3>2, <3>3 DEF JournalSound
    <3> QED BY <2>3, <3>2, <3>4 DEF Entry
  <2> QED BY <2>2, <2>3
<1> QED BY <1>2, <1>3

\* The parts that a run keeps before there is a manifest.
LEMMA SendingLocal ==
    ASSUME TypeOK, IInv, NEW e \in Environments, run[e].at \in Sending, UNCHANGED localVars,
           run'[e].at \in Sending \cup {"idle"}, Control(e)', Progress(e)', Contiguous(e)'
    PROVE  Local(e)'
<1>1. Local(e)
  BY DEF IInv
<1>2. marker[e] = Null /\ manifest[e] = Null /\ database[e] # Null
  BY <1>1 DEF Local, Control, Booting, Sending, Published, InStep
<1>3. database[e].manifest = Null /\ database[e].blocks = <<>> /\ receipt[e] = Null
  BY <1>1, <1>2 DEF Local, DatabaseSound, ReceiptSound
<1>4. Emptied(e)' /\ ManifestSound(e)' /\ SamePast(e)' /\ ReceiptSound(e)'
  BY <1>2, <1>3 DEF Emptied, ManifestSound, SamePast, ReceiptSound, ResetPhases,
                    Sending, InStep, localVars
<1>5. DatabaseSound(e)'
  BY <1>2, <1>3 DEF DatabaseSound, Sending, InStep, localVars
<1> QED BY <1>4, <1>5 DEF Local

\* What remains to show of a step that seeds.
LEMMA Seeding ==
    ASSUME TypeOK, IInv, NEW e \in Environments, run[e].at \in Sending, UNCHANGED localVars,
           run'[e].at \in Sending \cup {"idle"}, Control(e)', Progress(e)', Contiguous(e)',
           mined' \in Nat, mined' >= mined,
           \A n \in Nodes : n # run[e].node => chain'[n] = chain[n],
           \A f \in Environments : f # e => run'[f] = run[f] /\ journal'[f] = journal[f],
           \A f \in Environments : JournalSound(f)' /\ HashSound(f)',
           \A n \in Nodes : ChainSound(n)'
    PROVE  IInv'
<1>1. Local(e) /\ Exclusive
  BY DEF IInv
<1>2. run[e].node \in Nodes /\ binding[e] = run[e].node
  BY <1>1 DEF Local, Control, Booting, Sending, Published, InStep
<1>3. ASSUME NEW f \in Environments, f # e PROVE Local(f)'
  <2>1. Untouched(f) /\ (binding[f] \in Nodes => chain'[binding[f]] = chain[binding[f]])
    BY <1>1, <1>2, <1>3 DEF Untouched, localVars, Exclusive
  <2> QED BY <2>1, Bystander
<1>4. Local(e)'
  BY SendingLocal
<1>5. Exclusive'
  <2>1. ASSUME NEW f \in Environments, journal'[f] # Null \/ marker'[f] # Null
        PROVE  binding'[f] \in Nodes
    BY <1>1, <1>2, <2>1 DEF Exclusive, localVars
  <2> QED BY <1>1, <2>1 DEF Exclusive, localVars
<1> QED BY <1>3, <1>4, <1>5 DEF IInv

-----------------------------------------------------------------------------
(* Seeding: the steps.                                                     *)

\* What a run that seeds knows.
LEMMA SeedingFacts ==
    ASSUME TypeOK, IInv, NEW e \in Environments, run[e].at \in InStep
    PROVE  /\ journal[e] # Null /\ run[e].step \in Steps /\ run[e].node \in Nodes
           /\ run[e].build \in Builds /\ binding[e] = run[e].node
           /\ marker[e] = Null /\ manifest[e] = Null /\ database[e] # Null
           /\ Local(e) /\ JournalSound(e) /\ HashSound(e) /\ Control(e) /\ Progress(e)
           /\ run[e].at \in Sending /\ mined \in Nat
           /\ Entry(e) \in Entries \cup {Null}
<1>1. Local(e) /\ JournalSound(e) /\ HashSound(e) /\ Control(e) /\ Progress(e)
  BY DEF IInv, Local
<1>2. journal[e] # Null /\ run[e].step \in Steps
  BY <1>1 DEF Control, InStep
<1>3. Entry(e) \in Entries \cup {Null}
  BY <1>2, EntryType DEF Entry
<1> QED BY <1>1, <1>2, <1>3 DEF Control, Booting, Sending, Published, InStep, TypeOK

LEMMA OpenJournalStep ==
    ASSUME TypeOK, IInv, NEW e \in Environments, OpenJournal(e), UNCHANGED localVars
    PROVE  /\ IInv' /\ journal' \in [Environments -> Journals \cup {Null}]
           /\ issued' \in Nat /\ run' \in [Environments -> Runs]
<1>1. Local(e) /\ Exclusive /\ run[e].at = "open" /\ UNCHANGED <<chain, mined, mishaps>>
  BY DEF IInv, OpenJournal
<1>2. /\ run[e].node \in Nodes /\ run[e].build \in Builds /\ binding[e] = run[e].node
      /\ marker[e] = Null /\ manifest[e] = Null /\ database[e] # Null
  BY <1>1 DEF Local, Control, Booting, Sending, Published, InStep
<1> DEFINE r == run[e]
           s == [r EXCEPT !.at = "step", !.step = 1]
           new == [deployment |-> issued + 1, steps |-> [k \in Steps |-> Null]]
<1>3. /\ run' \in [Environments -> Runs] /\ \A f \in Environments : f # e => run'[f] = run[f]
      /\ run'[e].at = "step" /\ run'[e].step = 1 /\ run'[e].node = run[e].node
      /\ run'[e].build = run[e].build
  <2>1. r \in Runs /\ 1 \in Steps
    BY RunType DEF Steps
  <2>2. run' = [run EXCEPT ![e] = s]
    BY DEF OpenJournal, TypeOK
  <2> HIDE DEF r
  <2>3. /\ s \in Runs /\ s.at = "step" /\ s.step = 1 /\ s.node = r.node /\ s.build = r.build
    BY <2>1 DEF Runs, Labels
  <2> HIDE DEF s
  <2> QED BY <2>2, <2>3, RunEffect DEF r
<1>4. \/ journal[e] # Null /\ UNCHANGED <<journal, issued>>
      \/ journal[e] = Null /\ journal' = [journal EXCEPT ![e] = new] /\ issued' = issued + 1
  BY DEF OpenJournal
<1>5. issued \in Nat /\ mined \in Nat
  BY DEF TypeOK
<1>6. new \in Journals /\ new # Null
  BY <1>5 DEF Journals
<1>7. new.deployment = issued + 1 /\ \A k \in Steps : new.steps[k] = Null
  OBVIOUS
<1> HIDE DEF new
<1>8. /\ journal' \in [Environments -> Journals \cup {Null}] /\ issued' \in Nat
      /\ \A f \in Environments : f # e => journal'[f] = journal[f]
      /\ \/ journal[e] # Null /\ journal'[e] = journal[e] /\ issued' = issued
         \/ journal[e] = Null /\ journal'[e] = new /\ issued' = issued + 1
  BY <1>4, <1>5, <1>6 DEF TypeOK
<1>9. Control(e)'
  BY <1>1, <1>2, <1>3, <1>6, <1>8 DEF Control, Booting, Sending, Published, InStep, Steps, localVars
<1>10. Progress(e)'
  BY <1>3 DEF Progress, InStep, Steps
<1>11. Contiguous(e)'
  BY <1>1, <1>7, <1>8 DEF Local, Contiguous, OnChain, Succeeded, localVars
<1>12. ASSUME NEW f \in Environments PROVE JournalSound(f)'
  <2>1. \A g \in Environments : JournalSound(g)
    BY DEF IInv
  <2>2. \A g \in Environments : journal[g] # Null => journal[g].deployment \in Nat
    BY DEF TypeOK, Journals
  <2>3. 2 \in Steps
    BY DEF Steps
  <2>4. CASE f # e
    BY <1>1, <1>5, <1>7, <1>8, <2>1, <2>2, <2>4 DEF JournalSound, Succeeded
  <2>5. CASE f = e
    BY <1>1, <1>5, <1>7, <1>8, <2>1, <2>2, <2>3, <2>5 DEF JournalSound, Succeeded
  <2> QED BY <2>4, <2>5
<1>13. ASSUME NEW f \in Environments PROVE HashSound(f)'
  <2>1. HashSound(f)
    BY DEF IInv
  <2>2. CASE f # e
    BY <1>1, <1>3, <1>8, <2>1, <2>2 DEF HashSound
  <2>3. CASE f = e
    BY <1>1, <1>3, <1>7, <1>8, <2>1, <2>3 DEF HashSound
  <2> QED BY <2>2, <2>3
<1>14. ASSUME NEW n \in Nodes PROVE ChainSound(n)'
  <2>1. ChainSound(n)
    BY DEF IInv
  <2>2. \A f \in Environments : journal[f] # Null => journal'[f] = journal[f]
    BY <1>8
  <2> QED BY <1>1, <2>1, <2>2 DEF ChainSound, OnRecord, localVars
<1>15. run[e].at \in Sending /\ run'[e].at \in Sending
  BY <1>1, <1>3 DEF Sending, InStep
<1>16. IInv'
  BY <1>1, <1>3, <1>5, <1>8, <1>9, <1>10, <1>11, <1>12, <1>13, <1>14, <1>15, Seeding
<1> QED BY <1>3, <1>8, <1>16

LEMMA PrepareStepStep ==
    ASSUME TypeOK, IInv, NEW e \in Environments, PrepareStep(e), UNCHANGED localVars
    PROVE  /\ IInv' /\ journal' \in [Environments -> Journals \cup {Null}]
           /\ run' \in [Environments -> Runs]
<1> DEFINE entry == Prepared(run[e].step, run[e].build)
<1>1. /\ run[e].at = "step" /\ run[e].at \in InStep /\ Entry(e) = Null
      /\ SaveEntry(e, entry) /\ UNCHANGED <<chain, mined, issued, mishaps>>
  BY DEF PrepareStep, InStep
<1>2. /\ journal[e] # Null /\ run[e].step \in Steps /\ run[e].node \in Nodes
      /\ run[e].build \in Builds /\ binding[e] = run[e].node
      /\ marker[e] = Null /\ manifest[e] = Null /\ database[e] # Null
      /\ Local(e) /\ JournalSound(e) /\ HashSound(e) /\ Control(e) /\ Progress(e)
      /\ run[e].at \in Sending /\ mined \in Nat
  BY <1>1, SeedingFacts
<1>3. /\ entry \in Entries /\ entry # Null /\ entry.status = "PREPARED" /\ entry.hash = Null
      /\ entry.receipt = Null /\ entry.intent = Intent(run[e].step, run[e].build)
  <2>1. Intent(run[e].step, run[e].build) \in Builds \cup {Null}
    BY <1>2 DEF Intent
  <2>2. entry \in Entries
    BY <2>1 DEF Prepared, Entries
  <2> QED BY <2>2 DEF Prepared
<1> HIDE DEF entry
<1>4. /\ journal' \in [Environments -> Journals \cup {Null}] /\ Saved(e, entry)
  BY <1>1, <1>2, <1>3, SaveEntryEffect DEF Saved
<1>5. /\ run' \in [Environments -> Runs] /\ \A f \in Environments : f # e => run'[f] = run[f]
      /\ run'[e].at = "submit" /\ run'[e].node = run[e].node
      /\ run'[e].build = run[e].build /\ run'[e].step = run[e].step
  BY GotoEffect DEF PrepareStep, Labels
<1>6. Keeps(e, entry)
  BY <1>1, <1>3 DEF Keeps
<1>7. journal'[e].steps[run[e].step] = entry
  BY <1>2, <1>4 DEF Saved
<1>8. Control(e)'
  BY <1>2, <1>3, <1>4, <1>5, <1>7
  DEF Control, Entry, Saved, Booting, Sending, Published, InStep, localVars
<1>9. Progress(e)'
  <2>1. ASSUME NEW k \in Steps, k < run[e].step
        PROVE  /\ Succeeded(journal'[e].steps[k])
               /\ k \in CodeSteps => journal'[e].steps[k].intent = run[e].build
    <3>1. k # run[e].step
      BY <1>2, <2>1 DEF Steps
    <3> QED BY <1>1, <1>2, <1>4, <2>1, <3>1 DEF Progress, Saved
  <2> QED BY <1>3, <1>5, <1>7, <2>1 DEF Progress, InStep, Succeeded
<1>10. Contiguous(e)'
  BY <1>1, <1>2, <1>3, <1>4 DEF Local, Contiguous, OnChain, Succeeded, Saved, localVars
<1>11. \A f \in Environments : JournalSound(f)'
  BY <1>1, <1>2, <1>3, <1>4, <1>6, SavedJournals
<1>12. \A n \in Nodes : ChainSound(n)'
  BY <1>1, <1>3, <1>4, <1>6, SavedChains DEF localVars
<1>13. \A f \in Environments : HashSound(f)'
  BY <1>1, <1>3, <1>4, <1>5, SavedHashes DEF localVars
<1>14. IInv'
  <2>1. run'[e].at \in Sending
    BY <1>5 DEF Sending, InStep
  <2> QED BY <1>1, <1>2, <1>4, <1>5, <1>8, <1>9, <1>10, <1>11, <1>12, <1>13, <2>1, Seeding DEF Saved
<1> QED BY <1>4, <1>5, <1>14

\* A save that ends the run, and one that goes on, differ in the run only.
LEMMA SaveThatEnds ==
    ASSUME TypeOK, IInv, NEW e \in Environments, run[e].at \in InStep,
           NEW entry \in Entries, Saved(e, entry), Keeps(e, entry),
           UNCHANGED <<chain, mined, issued, localVars>>,
           \A f \in Environments : f # e => run'[f] = run[f],
           run'[e].at = "idle",
           entry.status \in {"SUBMITTED", "VERIFIED"} => entry.hash # Null,
           entry.receipt # Null => entry.hash # Null,
           entry.hash # Null => entry.hash <= mined,
           entry.hash # Null =>
               \/ Entry(e) # Null /\ entry.hash = Entry(e).hash
               \/ run[e].at = "save" /\ entry.hash = run[e].hash,
           Contiguous(e)'
    PROVE  IInv'
<1>1. Control(e)' /\ Progress(e)'
  BY DEF Control, Progress, Booting, Sending, Published, InStep
<1>2. mined \in Nat /\ mined' = mined /\ UNCHANGED binding /\ run[e].at \in Sending
  BY DEF TypeOK, localVars, Sending
<1>3. \A f \in Environments : JournalSound(f)'
  BY <1>2, SavedJournals
<1>4. \A n \in Nodes : ChainSound(n)'
  BY <1>2, SavedChains
<1>5. \A f \in Environments : HashSound(f)'
  BY <1>2, SavedHashes
<1> QED BY <1>1, <1>2, <1>3, <1>4, <1>5, Seeding DEF Saved

\* An entry of the same hash, intent and receipt, marked as unknown.
Unknown(entry) == [entry EXCEPT !.status = "UNKNOWN"]

LEMMA UnknownEntry ==
    ASSUME NEW entry \in Entries
    PROVE  /\ Unknown(entry) \in Entries /\ Unknown(entry).status = "UNKNOWN"
           /\ Unknown(entry).hash = entry.hash /\ Unknown(entry).receipt = entry.receipt
           /\ Unknown(entry).intent = entry.intent
           /\ Succeeded(entry) <=> Succeeded(Unknown(entry))
<1>1. /\ Unknown(entry) \in Entries /\ Unknown(entry).status = "UNKNOWN"
      /\ Unknown(entry).hash = entry.hash /\ Unknown(entry).receipt = entry.receipt
      /\ Unknown(entry).intent = entry.intent
  BY DEF Entries, Unknown
<1>2. entry # Null /\ Unknown(entry) # Null
  BY <1>1
<1> QED BY <1>1, <1>2 DEF Succeeded

\* A step given up as unknown, in whichever state it was.
LEMMA MarkUnknownStep ==
    ASSUME TypeOK, IInv, NEW e \in Environments, run[e].at \in InStep, Entry(e) # Null,
           SaveEntry(e, [Entry(e) EXCEPT !.status = "UNKNOWN"]), End(e),
           UNCHANGED <<chain, mined, issued, localVars>>
    PROVE  /\ IInv' /\ journal' \in [Environments -> Journals \cup {Null}]
<1> DEFINE entry == Unknown(Entry(e))
<1>1. /\ journal[e] # Null /\ run[e].step \in Steps /\ Local(e) /\ JournalSound(e)
      /\ Entry(e) \in Entries
  BY SeedingFacts
<1>2. /\ entry \in Entries /\ entry.status = "UNKNOWN" /\ entry.hash = Entry(e).hash
      /\ entry.receipt = Entry(e).receipt /\ entry.intent = Entry(e).intent
      /\ (Succeeded(Entry(e)) <=> Succeeded(entry))
  BY <1>1, UnknownEntry
<1>3. SaveEntry(e, entry)
  BY DEF Unknown
<1> HIDE DEF entry
<1>4. journal' \in [Environments -> Journals \cup {Null}] /\ Saved(e, entry)
  BY <1>1, <1>2, <1>3, SaveEntryEffect DEF Saved
<1>5. Keeps(e, entry)
  BY <1>2 DEF Keeps
<1>6. \A f \in Environments : f # e => run'[f] = run[f]
  BY EndEffect
<1>7. run'[e].at = "idle"
  BY EndEffect
<1>8. entry.receipt # Null => entry.hash # Null
  BY <1>1, <1>2 DEF JournalSound, Entry
<1>9. entry.hash # Null => entry.hash <= mined
  BY <1>1, <1>2 DEF JournalSound, Entry
<1>10. Contiguous(e)'
  <2>1. \A k \in Steps : /\ Succeeded(journal'[e].steps[k]) => Succeeded(journal[e].steps[k])
                         /\ Succeeded(journal[e].steps[k]) =>
                               journal'[e].steps[k].hash = journal[e].steps[k].hash
    BY <1>2, <1>4 DEF Saved, Entry
  <2> QED BY <1>1, <1>4, <2>1 DEF Local, Contiguous, OnChain, Saved, localVars
<1> QED BY <1>2, <1>4, <1>5, <1>6, <1>7, <1>8, <1>9, <1>10, SaveThatEnds

\* The hash of a transaction just sent, put on record.
LEMMA SubmittedEntryFacts ==
    ASSUME TypeOK, IInv, NEW e \in Environments, run[e].at = "save"
    PROVE  /\ Entry(e) \in Entries /\ Entry(e).receipt = Null /\ run[e].at \in InStep
           /\ SubmittedEntry(e) \in Entries /\ SubmittedEntry(e).status = "SUBMITTED"
           /\ SubmittedEntry(e).hash = run[e].hash /\ SubmittedEntry(e).receipt = Null
           /\ SubmittedEntry(e).intent = Entry(e).intent
           /\ run[e].hash \in Nat /\ run[e].hash <= mined
           /\ Keeps(e, SubmittedEntry(e))
<1>1. run[e].at \in InStep
  BY DEF InStep
<1>2. Control(e) /\ Progress(e) /\ Entry(e) \in Entries \cup {Null}
  BY <1>1, SeedingFacts
<1>3. /\ Entry(e) \in Entries /\ Entry(e) # Null /\ Entry(e).receipt = Null
      /\ run[e].hash \in Nat /\ run[e].hash <= mined
  BY <1>2 DEF Control, Progress, Entry
<1> DEFINE x == Entry(e)
           h == run[e].hash
<1>4. SubmittedEntry(e) = [x EXCEPT !.status = "SUBMITTED", !.hash = h]
  BY DEF SubmittedEntry
<1>5. x \in Entries /\ h \in Nat /\ x.receipt = Null
  BY <1>3
<1> HIDE DEF x, h
<1>6. /\ SubmittedEntry(e) \in Entries /\ SubmittedEntry(e).status = "SUBMITTED"
      /\ SubmittedEntry(e).hash = h /\ SubmittedEntry(e).receipt = Null
      /\ SubmittedEntry(e).intent = x.intent
  BY <1>4, <1>5 DEF Entries
<1>7. Keeps(e, SubmittedEntry(e))
  BY <1>3, <1>6 DEF Keeps, Succeeded, x
<1> QED BY <1>1, <1>3, <1>6, <1>7 DEF x, h

LEMMA HashSaved ==
    ASSUME TypeOK, IInv, NEW e \in Environments, run[e].at = "save",
           SaveEntry(e, SubmittedEntry(e)), UNCHANGED <<chain, mined, issued, localVars>>
    PROVE  /\ journal' \in [Environments -> Journals \cup {Null}]
           /\ Saved(e, SubmittedEntry(e)) /\ Contiguous(e)'
<1>1. journal[e] # Null /\ run[e].step \in Steps /\ Local(e)
  BY SeedingFacts DEF InStep
<1>2. SubmittedEntry(e) \in Entries /\ SubmittedEntry(e).receipt = Null
  BY SubmittedEntryFacts
<1>3. journal' \in [Environments -> Journals \cup {Null}] /\ Saved(e, SubmittedEntry(e))
  BY <1>1, <1>2, SaveEntryEffect DEF Saved
<1>4. Contiguous(e)'
  BY <1>1, <1>2, <1>3 DEF Local, Contiguous, OnChain, Succeeded, Saved, localVars
<1> QED BY <1>3, <1>4

LEMMA SaveHashLateStep ==
    ASSUME TypeOK, IInv, NEW e \in Environments, SaveHashLate(e), UNCHANGED localVars
    PROVE  /\ IInv' /\ journal' \in [Environments -> Journals \cup {Null}]
<1> DEFINE entry == SubmittedEntry(e)
<1>1. /\ run[e].at = "save" /\ SaveEntry(e, entry) /\ End(e)
      /\ UNCHANGED <<chain, mined, issued>>
  BY DEF SaveHashLate
<1>2. /\ entry \in Entries /\ entry.hash = run[e].hash /\ entry.receipt = Null
      /\ entry.hash \in Nat /\ entry.hash <= mined /\ Keeps(e, entry) /\ run[e].at \in InStep
  BY <1>1, SubmittedEntryFacts
<1>3. /\ journal' \in [Environments -> Journals \cup {Null}]
      /\ Saved(e, entry) /\ Contiguous(e)'
  BY <1>1, HashSaved
<1>4. run'[e].at = "idle" /\ \A f \in Environments : f # e => run'[f] = run[f]
  BY <1>1, EndEffect
<1> HIDE DEF entry
<1> QED BY <1>1, <1>2, <1>3, <1>4, SaveThatEnds

LEMMA SaveHashStep ==
    ASSUME TypeOK, IInv, NEW e \in Environments, SaveHash(e), UNCHANGED localVars
    PROVE  /\ IInv' /\ journal' \in [Environments -> Journals \cup {Null}]
           /\ run' \in [Environments -> Runs]
<1> DEFINE entry == SubmittedEntry(e)
           r == run[e]
           s == [r EXCEPT !.at = "wait", !.hash = Null]
<1>1. /\ run[e].at = "save" /\ SaveEntry(e, entry)
      /\ UNCHANGED <<chain, mined, issued>>
  BY DEF SaveHash
<1>2. /\ entry \in Entries /\ entry.hash = run[e].hash /\ entry.receipt = Null
      /\ entry.hash \in Nat /\ entry.hash <= mined /\ Keeps(e, entry) /\ run[e].at \in InStep
      /\ entry.intent = Entry(e).intent
  BY <1>1, SubmittedEntryFacts
<1>3. /\ journal' \in [Environments -> Journals \cup {Null}]
      /\ Saved(e, entry) /\ Contiguous(e)'
  BY <1>1, HashSaved
<1>4. /\ run' \in [Environments -> Runs] /\ \A f \in Environments : f # e => run'[f] = run[f]
      /\ run'[e].at = "wait" /\ run'[e].node = run[e].node
      /\ run'[e].build = run[e].build /\ run'[e].step = run[e].step
  <2>1. r \in Runs /\ run' = [run EXCEPT ![e] = s]
    BY RunType DEF SaveHash, TypeOK
  <2> HIDE DEF r
  <2>2. s \in Runs /\ s.at = "wait" /\ s.node = r.node /\ s.build = r.build /\ s.step = r.step
    BY <2>1 DEF Runs, Labels
  <2> HIDE DEF s
  <2> QED BY <2>1, <2>2, RunEffect DEF r
<1>5. /\ journal[e] # Null /\ run[e].step \in Steps /\ run[e].node \in Nodes
      /\ run[e].build \in Builds /\ binding[e] = run[e].node
      /\ marker[e] = Null /\ manifest[e] = Null /\ database[e] # Null
      /\ Control(e) /\ Progress(e) /\ run[e].at \in Sending /\ mined \in Nat
  BY <1>2, SeedingFacts
<1> HIDE DEF entry
<1>6. journal'[e].steps[run[e].step] = entry /\ entry # Null
  BY <1>2, <1>3, <1>5 DEF Saved
<1>7. Control(e)'
  BY <1>2, <1>3, <1>4, <1>5, <1>6
  DEF Control, Entry, Saved, Booting, Sending, Published, InStep, localVars
<1>8. Progress(e)'
  <2>1. ASSUME NEW k \in Steps, k < run[e].step
        PROVE  /\ Succeeded(journal'[e].steps[k])
               /\ k \in CodeSteps => journal'[e].steps[k].intent = run[e].build
    <3>1. k # run[e].step
      BY <1>5, <2>1 DEF Steps
    <3> QED BY <1>2, <1>5, <1>3, <2>1, <3>1 DEF Progress, Saved
  <2>2. entry.intent = Intent(run[e].step, run[e].build)
    BY <1>1, <1>2, <1>5 DEF Progress, Entry
  <2> QED BY <1>4, <1>6, <2>1, <2>2 DEF Progress, InStep, Succeeded
<1>9. \A f \in Environments : JournalSound(f)'
  BY <1>1, <1>2, <1>3, <1>5, SavedJournals
<1>10. \A n \in Nodes : ChainSound(n)'
  BY <1>1, <1>2, <1>3, SavedChains DEF localVars
<1>11. \A f \in Environments : HashSound(f)'
  BY <1>1, <1>2, <1>3, <1>4, SavedHashes DEF localVars
<1>12. IInv'
  <2>1. run'[e].at \in Sending
    BY <1>4 DEF Sending, InStep
  <2> QED BY <1>1, <1>3, <1>4, <1>5, <1>7, <1>8, <1>9, <1>10, <1>11, <2>1, Seeding DEF Saved
<1> QED BY <1>3, <1>4, <1>12

-----------------------------------------------------------------------------
(* Seeding: sending.                                                       *)

\* What a run knows that is about to send.
LEMMA SubmitFacts ==
    ASSUME TypeOK, IInv, NEW e \in Environments, run[e].at = "submit"
    PROVE  /\ run[e].at \in InStep /\ Entry(e) \in Entries /\ Entry(e) # Null
           /\ Entry(e).status = "PREPARED" /\ Entry(e).hash = Null /\ Entry(e).receipt = Null
           /\ Entry(e).intent = Intent(run[e].step, run[e].build)
           /\ ~ Succeeded(Entry(e))
<1>1. run[e].at \in InStep
  BY DEF InStep
<1>2. Control(e) /\ Progress(e) /\ Entry(e) \in Entries \cup {Null}
  BY <1>1, SeedingFacts
<1> QED BY <1>1, <1>2 DEF Control, Progress, Entry, Succeeded

\* A transaction that appears on the node of a run, the record of it before it,
\* and a journal in which at most the status of its step changes.
Sent(e, outcome, entry) ==
    /\ run[e].at = "submit"
    /\ chain'[run[e].node] = Append(chain[run[e].node], SentBy(e, outcome))
    /\ \A n \in Nodes : n # run[e].node => chain'[n] = chain[n]
    /\ mined' = mined + 1
    /\ entry \in Entries /\ Saved(e, entry) /\ Keeps(e, entry)
    /\ entry.status \in {"PREPARED", "UNKNOWN"} /\ entry.hash = Null /\ entry.receipt = Null
    /\ UNCHANGED binding

\* The node with one transaction more.
LEMMA SentBlocks ==
    ASSUME TypeOK, IInv, NEW e \in Environments, NEW outcome, NEW entry, Sent(e, outcome, entry)
    PROVE  LET n == run[e].node
               new == Len(chain[n]) + 1
           IN /\ n \in Nodes /\ new \in Nat /\ new \notin DOMAIN chain[n]
              /\ DOMAIN chain[n] \subseteq Nat
              /\ DOMAIN chain'[n] = DOMAIN chain[n] \cup {new}
              /\ \A i \in DOMAIN chain[n] : chain'[n][i] = chain[n][i] /\ i < new
              /\ chain'[n][new] = SentBy(e, outcome)
<1> DEFINE n == run[e].node
<1>1. n \in Nodes
  BY SubmitFacts, SeedingFacts DEF Sent
<1>2. chain[n] \in Seq(Transactions)
  BY <1>1 DEF TypeOK
<1>3. chain'[n] = Append(chain[n], SentBy(e, outcome))
  BY DEF Sent
<1> HIDE DEF n
<1>4. ASSUME NEW S, NEW q \in Seq(S), NEW x, NEW p, p = Append(q, x)
      PROVE  /\ Len(q) + 1 \in Nat /\ Len(q) + 1 \notin DOMAIN q /\ DOMAIN q \subseteq Nat
             /\ DOMAIN p = DOMAIN q \cup {Len(q) + 1}
             /\ \A i \in DOMAIN q : p[i] = q[i] /\ i < Len(q) + 1
             /\ p[Len(q) + 1] = x
  BY <1>4
<1>5. /\ Len(chain[n]) + 1 \in Nat /\ Len(chain[n]) + 1 \notin DOMAIN chain[n]
      /\ DOMAIN chain[n] \subseteq Nat
      /\ DOMAIN chain'[n] = DOMAIN chain[n] \cup {Len(chain[n]) + 1}
      /\ \A i \in DOMAIN chain[n] : chain'[n][i] = chain[n][i] /\ i < Len(chain[n]) + 1
      /\ chain'[n][Len(chain[n]) + 1] = SentBy(e, outcome)
  BY <1>2, <1>3, <1>4
<1> QED BY <1>1, <1>5 DEF n

\* A transaction's hash and block are among those that were given out.
LEMMA MinedBefore ==
    ASSUME TypeOK, IInv, NEW n \in Nodes, NEW i \in DOMAIN chain[n]
    PROVE  /\ chain[n][i] \in Transactions /\ chain[n][i].step \in Steps
           /\ chain[n][i].hash \in Nat /\ chain[n][i].hash <= mined
           /\ chain[n][i].block \in Nat /\ chain[n][i].block <= mined
           /\ OnRecord(chain[n][i], n)
<1>1. chain[n][i] \in Transactions /\ ChainSound(n)
  BY DEF TypeOK, IInv
<1> QED BY <1>1 DEF Transactions, ChainSound

\* On the node of a run, what is of its deployment is of an earlier step.
LEMMA NothingLater ==
    ASSUME TypeOK, IInv, NEW e \in Environments, run[e].at = "submit",
           NEW n \in Nodes, NEW i \in DOMAIN chain[n],
           chain[n][i].deployment = journal[e].deployment
    PROVE  chain[n][i].step < run[e].step
<1> DEFINE tx == chain[n][i]
<1>1. /\ journal[e] # Null /\ run[e].step \in Steps /\ JournalSound(e) /\ HashSound(e)
      /\ ~ Succeeded(Entry(e))
  BY SubmitFacts, SeedingFacts
<1>2. tx.step \in Steps /\ OnRecord(tx, n)
  BY MinedBefore
<1>3. PICK f \in Environments :
         /\ journal[f] # Null /\ journal[f].deployment = tx.deployment
         /\ journal[f].steps[tx.step] # Null
  BY <1>2 DEF OnRecord
<1>4. f = e
  BY <1>1, <1>3 DEF JournalSound
<1>5. tx.step # run[e].step
  BY <1>1 DEF HashSound
<1>6. ~ (run[e].step < tx.step)
  BY <1>1, <1>2, <1>3, <1>4 DEF JournalSound, Entry
<1> QED BY <1>1, <1>2, <1>5, <1>6 DEF Steps

LEMMA SentChains ==
    ASSUME TypeOK, IInv, NEW e \in Environments, NEW outcome, NEW entry, Sent(e, outcome, entry)
    PROVE  \A n \in Nodes : ChainSound(n)'
<1> DEFINE node == run[e].node
           new == Len(chain[node]) + 1
<1>1. /\ run[e].at \in InStep /\ journal[e] # Null /\ run[e].step \in Steps /\ node \in Nodes
      /\ binding[e] = node /\ mined \in Nat /\ Entry(e) # Null
      /\ Entry(e).intent = Intent(run[e].step, run[e].build)
  BY SubmitFacts, SeedingFacts DEF Sent
<1>2. /\ entry \in Entries /\ entry # Null /\ Saved(e, entry) /\ Keeps(e, entry)
      /\ binding' = binding /\ mined' = mined + 1
  BY DEF Sent
<1>3. ASSUME NEW n \in Nodes, NEW i \in DOMAIN chain[n]
      PROVE  /\ i \in DOMAIN chain'[n] /\ chain'[n][i] = chain[n][i]
             /\ OnRecord(chain[n][i], n)'
  <2>1. chain'[n][i] = chain[n][i] /\ i \in DOMAIN chain'[n]
    <3>1. CASE n = node
      BY <3>1, SentBlocks
    <3>2. CASE n # node
      BY <3>2 DEF Sent
    <3> QED BY <3>1, <3>2
  <2> DEFINE tx == chain[n][i]
  <2>2. tx.step \in Steps /\ OnRecord(tx, n)
    BY MinedBefore
  <2>3. chain'[n][i] = tx
    BY <2>1
  <2> HIDE DEF tx
  <2>4. \E f \in Environments :
           /\ binding'[f] = n /\ journal'[f] # Null
           /\ journal'[f].deployment = tx.deployment
           /\ journal'[f].steps[tx.step] # Null
           /\ journal'[f].steps[tx.step].intent = tx.intent
    BY <1>1, <1>2, <2>2, SavedRecord DEF OnRecord
  <2> QED BY <2>1, <2>3, <2>4 DEF OnRecord
<1>4. ASSUME NEW n \in Nodes, n # node PROVE ChainSound(n)'
  <2>1. chain'[n] = chain[n] /\ ChainSound(n)
    BY <1>4 DEF Sent, IInv
  <2>2. \A i \in DOMAIN chain[n] : chain[n][i].hash <= mined' /\ chain[n][i].block <= mined'
    BY <1>1, <1>2, MinedBefore
  <2> QED BY <1>3, <2>1, <2>2 DEF ChainSound
<1>5. ASSUME NEW n \in Nodes, n = node PROVE ChainSound(n)'
  <2> DEFINE tx == SentBy(e, outcome)
  <2>1. /\ tx.hash = mined + 1 /\ tx.block = mined + 1 /\ tx.step = run[e].step
        /\ tx.deployment = journal[e].deployment
        /\ tx.intent = Intent(run[e].step, run[e].build)
    BY DEF SentBy
  <2>2. /\ DOMAIN chain'[n] = DOMAIN chain[n] \cup {new} /\ new \notin DOMAIN chain[n]
        /\ \A i \in DOMAIN chain[n] : chain'[n][i] = chain[n][i] /\ i < new
        /\ chain'[n][new] = tx /\ new \in Nat /\ DOMAIN chain[n] \subseteq Nat
    BY <1>5, <1>1, SentBlocks
  <2> HIDE DEF tx, new
  <2>3. ChainSound(n)
    BY <1>5, <1>1 DEF IInv
  <2>4. ASSUME NEW i \in DOMAIN chain[n]
        PROVE  /\ chain[n][i].hash \in Nat /\ chain[n][i].hash <= mined
               /\ chain[n][i].block \in Nat /\ chain[n][i].block <= mined
               /\ chain[n][i].step \in Steps
               /\ chain[n][i].deployment = journal[e].deployment =>
                     chain[n][i].step < run[e].step
    BY <1>5, <1>1, MinedBefore, NothingLater DEF Sent
  <2>5. /\ binding'[e] = n /\ journal'[e] # Null /\ journal'[e].deployment = tx.deployment
        /\ journal'[e].steps[tx.step] # Null /\ journal'[e].steps[tx.step].intent = tx.intent
    BY <1>5, <1>1, <1>2, <2>1 DEF Saved, Keeps
  <2>6. ASSUME NEW i \in DOMAIN chain'[n]
        PROVE  /\ OnRecord(chain[n][i], n)'
               /\ chain'[n][i].hash <= mined' /\ chain'[n][i].block <= mined'
    <3>1. CASE i = new
      BY <1>1, <1>2, <2>1, <2>2, <2>5, <3>1 DEF OnRecord
    <3>2. CASE i # new
      BY <1>1, <1>2, <1>3, <2>2, <2>4, <3>2
    <3> QED BY <3>1, <3>2
  <2>7. ASSUME NEW i \in DOMAIN chain'[n], NEW j \in DOMAIN chain'[n]
        PROVE  /\ chain'[n][j].hash = chain'[n][i].hash => j = i
               /\ chain'[n][j].deployment = chain'[n][i].deployment =>
                     /\ chain'[n][j].step = chain'[n][i].step => j = i
                     /\ chain'[n][j].step < chain'[n][i].step => j < i
    <3>1. CASE i # new /\ j # new
      BY <2>2, <2>3, <3>1 DEF ChainSound
    <3>2. CASE i = new /\ j # new
      BY <1>1, <2>1, <2>2, <2>4, <3>2 DEF Steps
    <3>3. CASE i # new /\ j = new
      BY <1>1, <2>1, <2>2, <2>4, <3>3 DEF Steps
    <3>4. CASE i = new /\ j = new
      <4>1. run[e].step \in Nat
        BY <1>1 DEF Steps
      <4> QED BY <2>1, <2>2, <3>4, <4>1
    <3> QED BY <3>1, <3>2, <3>3, <3>4
  <2> QED BY <1>2, <2>6, <2>7 DEF ChainSound
<1> QED BY <1>4, <1>5

\* No hash on record, and none about to be, is of the new transaction but its own.
LEMMA SentHashes ==
    ASSUME TypeOK, IInv, NEW e \in Environments, NEW outcome, NEW entry, Sent(e, outcome, entry),
           \A f \in Environments : f # e => run'[f] = run[f],
           \/ run'[e].at = "idle"
           \/ run'[e].at = "save" /\ run'[e].hash = mined + 1 /\ run'[e].step = run[e].step
    PROVE  \A f \in Environments : HashSound(f)'
<1> DEFINE node == run[e].node
           new == Len(chain[node]) + 1
           sent == SentBy(e, outcome)
<1>1. /\ run[e].at \in InStep /\ journal[e] # Null /\ run[e].step \in Steps /\ node \in Nodes
      /\ mined \in Nat
  BY SubmitFacts, SeedingFacts DEF Sent
<1>2. /\ entry \in Entries /\ Saved(e, entry) /\ entry.hash = Null /\ mined' = mined + 1
  BY DEF Sent
<1>3. sent.hash = mined + 1 /\ sent.step = run[e].step /\ sent.deployment = journal[e].deployment
  BY DEF SentBy
<1> HIDE DEF sent
<1>4. ASSUME NEW n \in Nodes, NEW i \in DOMAIN chain'[n]
      PROVE  \/ i \in DOMAIN chain[n] /\ chain'[n][i] = chain[n][i]
             \/ n = node /\ chain'[n][i] = sent
  <2>1. CASE n = node
    <3>1. /\ DOMAIN chain'[node] = DOMAIN chain[node] \cup {new}
          /\ \A j \in DOMAIN chain[node] : chain'[node][j] = chain[node][j]
          /\ chain'[node][new] = sent
      BY SentBlocks DEF sent
    <3> HIDE DEF new, node
    <3> QED BY <2>1, <3>1
  <2>2. CASE n # node
    BY <2>2 DEF Sent
  <2> QED BY <2>1, <2>2
<1>5. ASSUME NEW f \in Environments, journal[f] # Null, NEW k \in Steps,
             journal[f].steps[k] # Null, journal[f].steps[k].hash # Null
      PROVE  journal[f].steps[k].hash \in Nat /\ journal[f].steps[k].hash <= mined
  <2>1. journal[f].steps[k].hash \in Nat
    BY <1>5, EntryType DEF Entries
  <2> QED BY <1>5, <2>1 DEF IInv, JournalSound
<1>6. ASSUME NEW f \in Environments, f # e PROVE HashSound(f)'
  <2>1. /\ HashSound(f) /\ journal'[f] = journal[f] /\ run'[f] = run[f]
        /\ (journal[f] # Null => journal[f].deployment # journal[e].deployment)
    BY <1>1, <1>2, <1>6 DEF IInv, JournalSound, Saved
  <2>2. /\ run[f].at = "submit" => journal[f] # Null
        /\ run[f].at = "save" => run[f].hash \in Nat /\ run[f].hash <= mined
    BY DEF IInv, Local, Control, Progress, InStep
  <2>3. ASSUME NEW n \in Nodes, NEW i \in DOMAIN chain'[n]
        PROVE  LET tx == chain'[n][i] IN
               /\ run[f].at = "submit" =>
                     ~ (tx.deployment = journal[f].deployment /\ tx.step = run[f].step)
               /\ run[f].at = "save" /\ tx.hash = run[f].hash =>
                     tx.deployment = journal[f].deployment /\ tx.step = run[f].step
               /\ journal[f] # Null => \A k \in Steps :
                     journal[f].steps[k] # Null /\ journal[f].steps[k].hash = tx.hash =>
                     tx.deployment = journal[f].deployment /\ tx.step = k
    <3>1. CASE i \in DOMAIN chain[n] /\ chain'[n][i] = chain[n][i]
      BY <2>1, <3>1 DEF HashSound
    <3>2. CASE n = node /\ chain'[n][i] = sent
      <4>1. mined + 1 # Null /\ ~ (mined + 1 <= mined)
        BY <1>1
      <4> QED BY <1>3, <1>5, <2>1, <2>2, <3>2, <4>1
    <3> QED BY <1>4, <3>1, <3>2
  <2> QED BY <2>1, <2>3 DEF HashSound
<1>7. HashSound(e)'
  <2>1. HashSound(e) /\ journal'[e].deployment = journal[e].deployment
    BY <1>2 DEF IInv, Saved
  <2>2. ASSUME NEW n \in Nodes, NEW i \in DOMAIN chain'[n]
        PROVE  LET tx == chain'[n][i] IN
               /\ tx.hash = mined + 1 =>
                     tx.deployment = journal[e].deployment /\ tx.step = run[e].step
               /\ \A k \in Steps :
                     journal'[e].steps[k] # Null /\ journal'[e].steps[k].hash = tx.hash =>
                     tx.deployment = journal[e].deployment /\ tx.step = k
    <3>1. CASE i \in DOMAIN chain[n] /\ chain'[n][i] = chain[n][i]
      <4>1. chain[n][i].hash \in Nat /\ chain[n][i].hash <= mined /\ chain[n][i].hash # Null
        BY <3>1, MinedBefore
      <4>2. chain[n][i].hash # mined + 1
        BY <1>1, <4>1
      <4> QED BY <1>1, <1>2, <2>1, <3>1, <4>1, <4>2 DEF HashSound, Saved
    <3>2. CASE n = node /\ chain'[n][i] = sent
      <4>1. mined + 1 # Null /\ ~ (mined + 1 <= mined)
        BY <1>1
      <4> QED BY <1>1, <1>2, <1>3, <1>5, <3>2, <4>1 DEF Saved
    <3> QED BY <1>4, <3>1, <3>2
  <2> QED BY <2>1, <2>2 DEF HashSound
<1> QED BY <1>6, <1>7

LEMMA SentContiguous ==
    ASSUME TypeOK, IInv, NEW e \in Environments, NEW outcome, NEW entry, Sent(e, outcome, entry)
    PROVE  Contiguous(e)'
<1> DEFINE node == run[e].node
<1>1. /\ journal[e] # Null /\ binding[e] = node /\ node \in Nodes /\ Local(e) /\ JournalSound(e)
      /\ mined \in Nat
  BY SubmitFacts, SeedingFacts DEF Sent
<1>2. /\ Saved(e, entry) /\ entry.receipt = Null /\ binding' = binding
  BY DEF Sent
<1>3. ASSUME NEW k \in Steps, Succeeded(journal'[e].steps[k])
      PROVE  /\ Succeeded(journal[e].steps[k]) /\ journal'[e].steps[k] = journal[e].steps[k]
             /\ journal[e].steps[k].hash \in Nat /\ journal[e].steps[k].hash <= mined
  <2>1. Succeeded(journal[e].steps[k]) /\ journal'[e].steps[k] = journal[e].steps[k]
    BY <1>2, <1>3 DEF Saved, Succeeded
  <2>2. /\ journal[e].steps[k] # Null /\ journal[e].steps[k].hash # Null
        /\ journal[e].steps[k].hash <= mined
    BY <1>1, <2>1 DEF JournalSound, Succeeded
  <2>3. journal[e].steps[k].hash \in Nat
    BY <1>1, <2>2, EntryType DEF Entries
  <2> QED BY <2>1, <2>2, <2>3
<1>4. ASSUME NEW h \in Nat, h <= mined
      PROVE  (\E i \in DOMAIN chain'[node] : chain'[node][i].hash = h) <=> OnChain(node, h)
  <2>1. SentBy(e, outcome).hash # h
    BY <1>1, <1>4 DEF SentBy
  <2> QED BY <2>1, SentBlocks DEF OnChain
<1>5. ASSUME NEW k \in Steps, NEW m \in Steps, k < m,
             Succeeded(journal'[e].steps[k]), Succeeded(journal'[e].steps[m]),
             \E i \in DOMAIN chain'[node] : chain'[node][i].hash = journal'[e].steps[k].hash
      PROVE  \E i \in DOMAIN chain'[node] : chain'[node][i].hash = journal'[e].steps[m].hash
  <2>1. OnChain(node, journal[e].steps[k].hash)
    BY <1>3, <1>4, <1>5
  <2>2. OnChain(node, journal[e].steps[m].hash)
    BY <1>1, <1>3, <1>5, <2>1 DEF Local, Contiguous
  <2> QED BY <1>3, <1>4, <1>5, <2>2
<1>6. binding'[e] = node
  BY <1>1, <1>2
<1> HIDE DEF node
<1> QED BY <1>5, <1>6 DEF Contiguous, OnChain, Succeeded

\* The step that leaves all this.
LEMMA SentStep ==
    ASSUME TypeOK, IInv, NEW e \in Environments, NEW outcome, NEW entry, Sent(e, outcome, entry),
           UNCHANGED <<issued, localVars>>,
           \A f \in Environments : f # e => run'[f] = run[f],
           \/ run'[e].at = "idle"
           \/ run'[e].at = "save" /\ run'[e].hash = mined + 1 /\ run'[e].step = run[e].step,
           Control(e)', Progress(e)'
    PROVE  IInv'
<1>1. /\ run[e].at = "submit" /\ entry \in Entries /\ Saved(e, entry) /\ Keeps(e, entry)
      /\ entry.status \in {"PREPARED", "UNKNOWN"} /\ entry.hash = Null /\ entry.receipt = Null
      /\ mined' = mined + 1 /\ \A n \in Nodes : n # run[e].node => chain'[n] = chain[n]
  BY DEF Sent
<1>2. run[e].at \in InStep
  BY <1>1, SubmitFacts
<1>3. run[e].at \in Sending /\ mined \in Nat
  BY <1>2, SeedingFacts
<1>4. mined' \in Nat /\ mined' >= mined
  BY <1>1, <1>3
<1>5. \A f \in Environments : JournalSound(f)'
  BY <1>1, <1>2, <1>4, SavedJournals
<1>6. \A n \in Nodes : ChainSound(n)'
  BY SentChains
<1>7. \A f \in Environments : HashSound(f)'
  BY SentHashes
<1>8. Contiguous(e)'
  BY SentContiguous
<1>9. run'[e].at \in Sending \cup {"idle"}
  BY DEF Sending, InStep
<1> QED BY <1>1, <1>3, <1>4, <1>5, <1>6, <1>7, <1>8, <1>9, Seeding DEF Saved

\* Mining on the node of a run, whatever then becomes of the entry.
LEMMA MineIsSent ==
    ASSUME TypeOK, IInv, NEW e \in Environments, run[e].at = "submit",
           NEW outcome \in Outcomes, Mine(e, outcome), UNCHANGED binding,
           \/ UNCHANGED journal
           \/ SaveEntry(e, [Entry(e) EXCEPT !.status = "UNKNOWN"])
    PROVE  /\ chain' \in [Nodes -> Seq(Transactions)] /\ mined' \in Nat
           /\ journal' \in [Environments -> Journals \cup {Null}]
           /\ \E entry : Sent(e, outcome, entry)
<1>1. /\ run[e].at \in InStep /\ Entry(e) \in Entries /\ Entry(e) # Null
      /\ Entry(e).status = "PREPARED" /\ Entry(e).hash = Null /\ Entry(e).receipt = Null
  BY SubmitFacts
<1>2. journal[e] # Null /\ run[e].step \in Steps /\ run[e].node \in Nodes
  BY <1>1, SeedingFacts
<1>3. /\ chain' \in [Nodes -> Seq(Transactions)] /\ mined' = mined + 1 /\ mined' \in Nat
      /\ \A n \in Nodes : n # run[e].node => chain'[n] = chain[n]
      /\ chain'[run[e].node] = Append(chain[run[e].node], SentBy(e, outcome))
  BY <1>2, MineEffect
<1>4. CASE UNCHANGED journal
  <2>1. Saved(e, Entry(e)) /\ Keeps(e, Entry(e))
    BY <1>1, <1>2, <1>4 DEF Saved, Keeps, Entry
  <2>2. journal' \in [Environments -> Journals \cup {Null}]
    BY <1>4 DEF TypeOK
  <2>3. Sent(e, outcome, Entry(e))
    BY <1>1, <1>3, <2>1 DEF Sent
  <2> QED BY <1>3, <2>2, <2>3
<1>5. CASE SaveEntry(e, [Entry(e) EXCEPT !.status = "UNKNOWN"])
  <2> DEFINE entry == Unknown(Entry(e))
  <2>1. /\ entry \in Entries /\ entry.status = "UNKNOWN" /\ entry.hash = Entry(e).hash
        /\ entry.receipt = Entry(e).receipt /\ entry.intent = Entry(e).intent
        /\ (Succeeded(Entry(e)) <=> Succeeded(entry))
    BY <1>1, UnknownEntry
  <2>2. SaveEntry(e, entry)
    BY <1>5 DEF Unknown
  <2> HIDE DEF entry
  <2>3. journal' \in [Environments -> Journals \cup {Null}] /\ Saved(e, entry)
    BY <1>2, <2>1, <2>2, SaveEntryEffect DEF Saved
  <2>4. Keeps(e, entry)
    BY <1>1, <2>1 DEF Keeps
  <2>5. Sent(e, outcome, entry)
    BY <1>1, <1>3, <2>1, <2>3, <2>4 DEF Sent
  <2> QED BY <1>3, <2>3, <2>5
<1> QED BY <1>4, <1>5

LEMMA SubmitStep ==
    ASSUME TypeOK, IInv, NEW e \in Environments, Submit(e), UNCHANGED localVars
    PROVE  /\ IInv' /\ chain' \in [Nodes -> Seq(Transactions)] /\ mined' \in Nat
           /\ run' \in [Environments -> Runs]
<1> DEFINE r == run[e]
           h == mined + 1
           s == [r EXCEPT !.at = "save", !.hash = h]
<1>1. run[e].at = "submit" /\ UNCHANGED <<journal, issued>>
  BY DEF Submit
<1>2. PICK outcome \in Outcomes : Mine(e, outcome)
  BY DEF Submit, Outcomes
<1>3. /\ chain' \in [Nodes -> Seq(Transactions)] /\ mined' \in Nat
      /\ \E entry : Sent(e, outcome, entry)
  BY <1>1, <1>2, MineIsSent DEF localVars
<1>4. PICK entry : Sent(e, outcome, entry)
  BY <1>3
<1>5. run[e].at \in InStep
  BY <1>1 DEF InStep
<1>6. /\ journal[e] # Null /\ run[e].step \in Steps /\ run[e].node \in Nodes
      /\ run[e].build \in Builds /\ binding[e] = run[e].node
      /\ marker[e] = Null /\ manifest[e] = Null /\ database[e] # Null
      /\ Control(e) /\ Progress(e) /\ mined \in Nat
  BY <1>5, SeedingFacts
<1>7. /\ run' \in [Environments -> Runs] /\ \A f \in Environments : f # e => run'[f] = run[f]
      /\ run'[e].at = "save" /\ run'[e].hash = mined + 1 /\ run'[e].node = run[e].node
      /\ run'[e].build = run[e].build /\ run'[e].step = run[e].step
  <2>1. r \in Runs /\ h \in Nat /\ run' = [run EXCEPT ![e] = s]
    <3>1. run' = [run EXCEPT ![e].at = "save", ![e].hash = mined + 1]
      BY DEF Submit
    <3>2. run' = [run EXCEPT ![e] = s]
      BY <3>1 DEF TypeOK
    <3> QED BY <1>6, <3>2, RunType
  <2> HIDE DEF r, h
  <2>2. /\ s \in Runs /\ s.at = "save" /\ s.hash = h /\ s.node = r.node
        /\ s.build = r.build /\ s.step = r.step
    BY <2>1 DEF Runs, Labels
  <2> HIDE DEF s
  <2> QED BY <2>1, <2>2, RunEffect DEF r, h
<1>8. mined' = mined + 1
  BY <1>4 DEF Sent
<1>9. Control(e)'
  BY <1>1, <1>6, <1>7
  DEF Control, Entry, Booting, Sending, Published, InStep, localVars
<1>10. Progress(e)'
  BY <1>1, <1>6, <1>7, <1>8 DEF Progress, InStep, Succeeded
<1> QED BY <1>1, <1>3, <1>4, <1>7, <1>9, <1>10, SentStep

LEMMA SubmitFailsStep ==
    ASSUME TypeOK, IInv, NEW e \in Environments, SubmitFails(e), UNCHANGED localVars
    PROVE  /\ IInv' /\ chain' \in [Nodes -> Seq(Transactions)] /\ mined' \in Nat
           /\ journal' \in [Environments -> Journals \cup {Null}]
<1>1. run[e].at = "submit" /\ End(e) /\ UNCHANGED issued
  BY DEF SubmitFails
<1>2. run'[e].at = "idle" /\ \A f \in Environments : f # e => run'[f] = run[f]
  BY <1>1, EndEffect
<1>3. run[e].at \in InStep /\ Entry(e) # Null
  BY <1>1, SubmitFacts
<1>4. CASE Mine(e, "SUCCESS")
  <2>1. /\ chain' \in [Nodes -> Seq(Transactions)] /\ mined' \in Nat
        /\ journal' \in [Environments -> Journals \cup {Null}]
        /\ \E entry : Sent(e, "SUCCESS", entry)
    BY <1>1, <1>4, MineIsSent DEF SubmitFails, localVars, Outcomes
  <2>2. PICK entry : Sent(e, "SUCCESS", entry)
    BY <2>1
  <2>3. Control(e)' /\ Progress(e)'
    BY <1>2 DEF Control, Progress, Booting, Sending, Published, InStep
  <2> QED BY <1>1, <1>2, <2>1, <2>2, <2>3, SentStep
<1>5. CASE UNCHANGED <<chain, mined>>
  <2>1. CASE UNCHANGED journal
    BY <1>1, <1>2, <1>5, <2>1, RunEnds DEF TypeOK
  <2>2. CASE SaveEntry(e, [Entry(e) EXCEPT !.status = "UNKNOWN"])
    <3>1. IInv' /\ journal' \in [Environments -> Journals \cup {Null}]
      BY <1>1, <1>3, <1>5, <2>2, MarkUnknownStep
    <3> QED BY <1>5, <3>1 DEF TypeOK
  <2> QED BY <2>1, <2>2 DEF SubmitFails
<1> QED BY <1>4, <1>5 DEF SubmitFails

LEMMA AbandonStepStep ==
    ASSUME TypeOK, IInv, NEW e \in Environments, AbandonStep(e), UNCHANGED localVars
    PROVE  IInv' /\ journal' \in [Environments -> Journals \cup {Null}]
  BY MarkUnknownStep DEF AbandonStep, InStep

LEMMA ResumeStepStep ==
    ASSUME TypeOK, IInv, NEW e \in Environments, ResumeStep(e), UNCHANGED localVars
    PROVE  IInv' /\ run' \in [Environments -> Runs]
<1>1. /\ run[e].at = "step" /\ run[e].at \in InStep /\ Entry(e) # Null
      /\ Entry(e).status \in {"SUBMITTED", "VERIFIED"}
      /\ Entry(e).intent = Intent(run[e].step, run[e].build)
      /\ UNCHANGED <<chain, mined, journal, issued, mishaps>>
  BY DEF ResumeStep, InStep
<1>2. /\ run' \in [Environments -> Runs] /\ \A f \in Environments : f # e => run'[f] = run[f]
      /\ run'[e].at = "wait" /\ run'[e].node = run[e].node
      /\ run'[e].build = run[e].build /\ run'[e].step = run[e].step
  BY GotoEffect DEF ResumeStep, Labels
<1>3. /\ journal[e] # Null /\ run[e].step \in Steps /\ run[e].node \in Nodes
      /\ run[e].build \in Builds /\ binding[e] = run[e].node
      /\ marker[e] = Null /\ manifest[e] = Null /\ database[e] # Null
      /\ JournalSound(e) /\ Progress(e)
  BY <1>1, SeedingFacts
<1>4. Entry(e).hash # Null
  BY <1>1, <1>3 DEF JournalSound, Entry
<1>5. Control(e)'
  BY <1>1, <1>2, <1>3, <1>4
  DEF Control, Entry, Booting, Sending, Published, InStep, localVars
<1>6. Progress(e)'
  BY <1>1, <1>2, <1>3 DEF Progress, InStep, Entry, Succeeded
<1> QED BY <1>1, <1>2, <1>5, <1>6, RunMoves

LEMMA RefuseStepStep ==
    ASSUME TypeOK, IInv, NEW e \in Environments, RefuseStep(e), UNCHANGED localVars
    PROVE  IInv'
  BY EndEffect, RunEnds DEF RefuseStep

LEMMA CrashStep ==
    ASSUME TypeOK, IInv, NEW e \in Environments, Crash(e), UNCHANGED localVars
    PROVE  IInv'
  BY EndEffect, RunEnds DEF Crash

\* The receipt of a step on record: the first is saved, a later one compared.
LEMMA VerifyReceiptStep ==
    ASSUME TypeOK, IInv, NEW e \in Environments, VerifyReceipt(e), UNCHANGED localVars
    PROVE  /\ IInv' /\ journal' \in [Environments -> Journals \cup {Null}]
           /\ run' \in [Environments -> Runs]
<1> DEFINE x == Entry(e)
<1>1. /\ run[e].at = "wait" /\ run[e].at \in InStep
      /\ UNCHANGED <<chain, mined, issued, mishaps>>
  BY DEF VerifyReceipt, InStep
<1>2. /\ journal[e] # Null /\ run[e].step \in Steps /\ run[e].node \in Nodes
      /\ run[e].build \in Builds /\ binding[e] = run[e].node
      /\ marker[e] = Null /\ manifest[e] = Null /\ database[e] # Null
      /\ Local(e) /\ JournalSound(e) /\ Control(e) /\ Progress(e)
      /\ run[e].at \in Sending /\ mined \in Nat
      /\ Entry(e) \in Entries \cup {Null}
  BY <1>1, SeedingFacts
<1>3. x \in Entries /\ x # Null /\ x.hash # Null /\ x.intent = Intent(run[e].step, run[e].build)
  BY <1>1, <1>2 DEF Control, Progress, Entry
<1>4. PICK i \in DOMAIN chain[run[e].node] :
         LET tx == chain[run[e].node][i] IN
         /\ tx.hash = Entry(e).hash
         /\ \/ /\ Entry(e).receipt = Null
               /\ SaveEntry(e, [Entry(e) EXCEPT !.status = "VERIFIED", !.receipt = Receipt(tx)])
               /\ IF tx.outcome = "SUCCESS" THEN NextStep(e) ELSE End(e)
            \/ /\ Entry(e).receipt = Receipt(tx)
               /\ IF tx.outcome = "SUCCESS" THEN NextStep(e) ELSE End(e)
               /\ UNCHANGED journal
            \/ /\ Entry(e).receipt \notin {Null, Receipt(tx)}
               /\ SaveEntry(e, [Entry(e) EXCEPT !.status = "UNKNOWN"])
               /\ End(e)
  BY DEF VerifyReceipt
<1> DEFINE tx == chain[run[e].node][i]
           y == [x EXCEPT !.status = "VERIFIED", !.receipt = Receipt(tx)]
<1>5. /\ Receipt(tx) \in Receipts /\ Receipt(tx) # Null /\ Receipt(tx).outcome = tx.outcome
      /\ OnChain(binding[e], x.hash)
  <2>1. tx \in Transactions
    BY <1>2, MinedBefore
  <2>2. Receipt(tx) \in Receipts /\ Receipt(tx).outcome = tx.outcome
    BY <2>1 DEF Receipt, Receipts, Transactions
  <2> QED BY <1>2, <1>4, <2>2 DEF OnChain
<1>6. CASE x.receipt \notin {Null, Receipt(tx)}
  BY <1>1, <1>3, <1>4, <1>6, MarkUnknownStep, EndEffect
<1>7. ASSUME x.receipt = Null \/ x.receipt = Receipt(tx)
      PROVE  /\ run' \in [Environments -> Runs]
             /\ \A f \in Environments : f # e => run'[f] = run[f]
             /\ \/ run'[e].at = "idle"
                \/ /\ tx.outcome = "SUCCESS"
                   /\ run'[e].node = run[e].node /\ run'[e].build = run[e].build
                   /\ \/ run[e].step = StepCount /\ run'[e].at = "manifest"
                      \/ /\ run[e].step # StepCount /\ run[e].step + 1 \in Steps
                         /\ run'[e].at = "step" /\ run'[e].step = run[e].step + 1
  <2>1. (NextStep(e) /\ tx.outcome = "SUCCESS") \/ End(e)
    BY <1>4, <1>7
  <2> QED BY <1>2, <2>1, NextStepEffect, EndEffect
\* What the end of a step or of the seeding knows.
<1>8. ASSUME x.receipt = Null \/ x.receipt = Receipt(tx), run'[e].at # "idle",
             journal'[e] # Null, Succeeded(journal'[e].steps[run[e].step]),
             journal'[e].steps[run[e].step].intent = x.intent,
             \A k \in Steps : k # run[e].step => journal'[e].steps[k] = journal[e].steps[k]
      PROVE  Control(e)' /\ Progress(e)'
  <2>1. /\ run'[e].node = run[e].node /\ run'[e].build = run[e].build
        /\ \/ run[e].step = StepCount /\ run'[e].at = "manifest"
           \/ /\ run[e].step # StepCount /\ run[e].step + 1 \in Steps
              /\ run'[e].at = "step" /\ run'[e].step = run[e].step + 1
    BY <1>7, <1>8
  <2>2. Control(e)'
    BY <1>2, <1>8, <2>1 DEF Control, Booting, Sending, Published, InStep, localVars
  <2>3. ASSUME NEW k \in Steps, k <= run[e].step
        PROVE  /\ Succeeded(journal'[e].steps[k])
               /\ k \in CodeSteps => journal'[e].steps[k].intent = run[e].build
    <3>1. CASE k = run[e].step
      BY <1>3, <1>8, <3>1 DEF Intent
    <3>2. CASE k # run[e].step
      <4>1. k < run[e].step
        BY <1>2, <2>3, <3>2 DEF Steps
      <4> QED BY <1>1, <1>2, <1>8, <3>2, <4>1 DEF Progress
    <3> QED BY <3>1, <3>2
  <2>4. CASE run'[e].at = "manifest"
    <3>1. \A k \in Steps : k <= run[e].step
      BY <2>1, <2>4 DEF Steps
    <3> QED BY <2>2, <2>3, <2>4, <3>1 DEF Progress, InStep, Succeeded
  <2>5. CASE run'[e].at = "step"
    <3>1. \A k \in Steps : k < run'[e].step => k <= run[e].step
      BY <1>2, <2>1, <2>5 DEF Steps
    <3> QED BY <2>1, <2>2, <2>3, <2>5, <3>1 DEF Progress, InStep, Succeeded
  <2> QED BY <2>1, <2>4, <2>5
<1>9. CASE x.receipt = Receipt(tx)
  <2>1. UNCHANGED journal
    BY <1>4, <1>5, <1>9
  <2>2. CASE run'[e].at = "idle"
    BY <1>1, <1>7, <1>9, <2>1, <2>2, RunEnds DEF TypeOK
  <2>3. CASE run'[e].at # "idle"
    <3>1. Succeeded(x)
      BY <1>3, <1>5, <1>7, <1>9, <2>3 DEF Succeeded
    <3>2. Control(e)' /\ Progress(e)'
      BY <1>2, <1>8, <1>9, <2>1, <2>3, <3>1 DEF Entry
    <3> QED BY <1>1, <1>7, <1>9, <2>1, <2>3, <3>2, RunMoves DEF TypeOK
  <2> QED BY <2>2, <2>3
<1>10. CASE x.receipt = Null
  <2>1. SaveEntry(e, y)
    BY <1>4, <1>5, <1>10
  <2>2. /\ y \in Entries /\ y # Null /\ y.status = "VERIFIED" /\ y.receipt = Receipt(tx)
        /\ y.hash = x.hash /\ y.intent = x.intent
    <3> DEFINE v == Receipt(tx)
    <3>1. x \in Entries /\ v \in Receipts
      BY <1>3, <1>5
    <3> HIDE DEF x, v
    <3>2. /\ [x EXCEPT !.status = "VERIFIED", !.receipt = v] \in Entries
          /\ [x EXCEPT !.status = "VERIFIED", !.receipt = v].status = "VERIFIED"
          /\ [x EXCEPT !.status = "VERIFIED", !.receipt = v].receipt = v
          /\ [x EXCEPT !.status = "VERIFIED", !.receipt = v].hash = x.hash
          /\ [x EXCEPT !.status = "VERIFIED", !.receipt = v].intent = x.intent
      BY <3>1 DEF Entries
    <3> QED BY <3>2 DEF v
  <2> HIDE DEF y
  <2>3. journal' \in [Environments -> Journals \cup {Null}] /\ Saved(e, y)
    BY <1>2, <2>1, <2>2, SaveEntryEffect DEF Saved
  <2>4. Keeps(e, y)
    BY <1>3, <1>10, <2>2 DEF Keeps, Succeeded
  <2>5. y.hash # Null /\ y.hash <= mined
    BY <1>2, <1>3, <2>2 DEF JournalSound, Entry
  <2>6. Contiguous(e)'
    <3>1. ASSUME NEW k \in Steps, NEW m \in Steps, k < m,
                 Succeeded(journal'[e].steps[k]), Succeeded(journal'[e].steps[m]),
                 OnChain(binding[e], journal'[e].steps[k].hash)
          PROVE  OnChain(binding[e], journal'[e].steps[m].hash)
      <4>1. CASE m = run[e].step
        BY <1>5, <2>2, <2>3, <4>1 DEF Saved
      <4>2. CASE k = run[e].step
        <5>1. m # run[e].step
          BY <3>1, <4>2 DEF Steps
        <5>2. journal[e].steps[m] # Null
          BY <2>3, <3>1, <5>1 DEF Saved, Succeeded
        <5>3. Succeeded(x)
          BY <1>2, <3>1, <4>2, <5>2 DEF JournalSound, Entry
        <5> QED BY <1>10, <5>3 DEF Succeeded
      <4>3. CASE m # run[e].step /\ k # run[e].step
        BY <1>2, <2>3, <3>1, <4>3 DEF Local, Contiguous, Saved
      <4> QED BY <4>1, <4>2, <4>3
    <3> QED BY <1>1, <1>2, <3>1 DEF Contiguous, OnChain, Succeeded, localVars
  <2>7. CASE run'[e].at = "idle"
    BY <1>1, <1>3, <1>7, <1>10, <2>2, <2>3, <2>4, <2>5, <2>6, <2>7, SaveThatEnds
  <2>8. CASE run'[e].at # "idle"
    <3>1. /\ Succeeded(y) /\ journal'[e] # Null /\ journal'[e].steps[run[e].step] = y
          /\ \A k \in Steps : k # run[e].step => journal'[e].steps[k] = journal[e].steps[k]
      BY <1>2, <1>5, <1>7, <1>10, <2>2, <2>3, <2>8 DEF Succeeded, Saved
    <3>2. Control(e)' /\ Progress(e)'
      BY <1>8, <1>10, <2>2, <2>8, <3>1
    <3>3. \A f \in Environments : JournalSound(f)'
      BY <1>1, <1>2, <2>2, <2>3, <2>4, <2>5, SavedJournals
    <3>4. \A n \in Nodes : ChainSound(n)'
      BY <1>1, <2>2, <2>3, <2>4, SavedChains DEF localVars
    <3>5. run'[e].at \in {"step", "manifest"} /\ run'[e].at \in Sending
      BY <1>7, <1>10, <2>8 DEF Sending, InStep
    <3>6. \A f \in Environments : HashSound(f)'
      BY <1>1, <1>3, <1>7, <1>10, <2>2, <2>3, <2>5, <3>5, SavedHashes DEF localVars
    <3>7. IInv'
      BY <1>1, <1>2, <1>7, <1>10, <2>3, <2>6, <3>2, <3>3, <3>4, <3>5, <3>6, Seeding DEF Saved
    <3> QED BY <1>7, <1>10, <2>3, <3>7
  <2> QED BY <1>7, <1>10, <2>3, <2>7, <2>8
<1> QED BY <1>6, <1>9, <1>10


-----------------------------------------------------------------------------
(* The shapes of the variables are kept, action by action.                 *)

\* GiveUp only ends a run.
LEMMA GiveUpTypes ==
    ASSUME TypeOK, NEW e \in Environments, GiveUp(e)
    PROVE  TypeOK'
  BY EndEffect DEF GiveUp, localVars, TypeOK

\* So does every Proceed that writes no file.
LEMMA ProceedTypes ==
    ASSUME TypeOK, NEW e \in Environments, NEW label \in Labels, Proceed(e, label)
    PROVE  /\ run' \in [Environments -> Runs]
           /\ UNCHANGED <<chain, mined, journal, issued, mishaps, resets>>
  BY GotoEffect DEF Proceed

LEMMA SeedKept ==
    ASSUME TypeOK, IInv, NEW e \in Environments, SeedStep(e), UNCHANGED <<localVars, resets>>
    PROVE  TypeOK' /\ IInv'
<1> USE DEF TypeOK, localVars
<1>1. CASE OpenJournal(e)
  <2>1. UNCHANGED <<chain, mined, mishaps>>
    BY <1>1 DEF OpenJournal
  <2> QED BY <1>1, <2>1, OpenJournalStep
<1>2. CASE PrepareStep(e)
  <2>1. UNCHANGED <<chain, mined, issued, mishaps>>
    BY <1>2 DEF PrepareStep
  <2> QED BY <1>2, <2>1, PrepareStepStep
<1>3. CASE Submit(e)
  <2>1. UNCHANGED <<journal, issued, mishaps>>
    BY <1>3 DEF Submit
  <2> QED BY <1>3, <2>1, SubmitStep
<1>4. CASE SaveHash(e)
  <2>1. UNCHANGED <<chain, mined, issued, mishaps>>
    BY <1>4 DEF SaveHash
  <2> QED BY <1>4, <2>1, SaveHashStep
<1>5. CASE AbandonStep(e)
  <2>1. UNCHANGED <<chain, mined, issued, mishaps>> /\ End(e)
    BY <1>5 DEF AbandonStep
  <2> QED BY <1>5, <2>1, AbandonStepStep, EndEffect
<1>6. CASE ResumeStep(e)
  <2>1. UNCHANGED <<chain, mined, journal, issued, mishaps>>
    BY <1>6 DEF ResumeStep
  <2> QED BY <1>6, <2>1, ResumeStepStep
<1>7. CASE VerifyReceipt(e)
  <2>1. UNCHANGED <<chain, mined, issued, mishaps>>
    BY <1>7 DEF VerifyReceipt
  <2> QED BY <1>7, <2>1, VerifyReceiptStep
<1>8. CASE RefuseStep(e)
  <2>1. UNCHANGED <<chain, mined, journal, issued, mishaps>> /\ End(e)
    BY <1>8 DEF RefuseStep
  <2> QED BY <1>8, <2>1, RefuseStepStep, EndEffect
<1> QED BY <1>1, <1>2, <1>3, <1>4, <1>5, <1>6, <1>7, <1>8 DEF SeedStep

LEMMA FaultKept ==
    ASSUME TypeOK, IInv, Fault
    PROVE  TypeOK' /\ IInv'
<1>1. ASSUME NEW e \in Environments, SubmitFails(e), UNCHANGED <<localVars, resets>>
      PROVE  TypeOK' /\ IInv'
  <2>1. UNCHANGED issued /\ mishaps' = mishaps + 1 /\ End(e)
    BY <1>1 DEF SubmitFails
  <2> QED BY <1>1, <2>1, SubmitFailsStep, EndEffect DEF TypeOK, localVars
<1>2. ASSUME NEW e \in Environments, SaveHashLate(e), UNCHANGED <<localVars, resets>>
      PROVE  TypeOK' /\ IInv'
  <2>1. UNCHANGED <<chain, mined, issued>> /\ mishaps' = mishaps + 1 /\ End(e)
    BY <1>2 DEF SaveHashLate
  <2> QED BY <1>2, <2>1, SaveHashLateStep, EndEffect DEF TypeOK, localVars
<1>3. ASSUME NEW e \in Environments, Crash(e), UNCHANGED <<localVars, resets>>
      PROVE  TypeOK' /\ IInv'
  <2>1. UNCHANGED <<chain, mined, journal, issued>> /\ mishaps' = mishaps + 1 /\ End(e)
    BY <1>3 DEF Crash
  <2> QED BY <1>3, <2>1, CrashStep, EndEffect DEF TypeOK, localVars
<1>4. ASSUME NEW e \in Environments, TearBinding(e)
      PROVE  TypeOK' /\ IInv'
  <2>1. /\ UNCHANGED <<chain, mined, journal, issued, resets, manifest, database, receipt, marker>>
        /\ mishaps' = mishaps + 1 /\ End(e) /\ binding' = [binding EXCEPT ![e] = Torn]
    BY <1>4 DEF TearBinding
  <2> QED BY <1>4, <2>1, TearBindingStep, EndEffect DEF TypeOK
<1>5. ASSUME NEW e \in Environments, ResetFails(e)
      PROVE  TypeOK' /\ IInv'
  <2>1. /\ UNCHANGED <<mined, journal, issued, resets, localVars>>
        /\ mishaps' = mishaps + 1 /\ End(e)
    BY <1>5 DEF ResetFails
  <2> QED BY <1>5, <2>1, ResetFailsStep, EndEffect DEF TypeOK, localVars
<1>6. ASSUME NEW n \in Nodes, RestartNode(n), UNCHANGED <<localVars, resets>>
      PROVE  TypeOK' /\ IInv'
  <2>1. UNCHANGED <<mined, journal, issued, run>> /\ mishaps' = mishaps + 1
    BY <1>6 DEF RestartNode
  <2> QED BY <1>6, <2>1, RestartNodeStep DEF TypeOK, localVars
<1>7. ASSUME NEW n \in Nodes, Remine(n), UNCHANGED <<localVars, resets>>
      PROVE  TypeOK' /\ IInv'
  <2>1. UNCHANGED <<journal, issued, run>> /\ mishaps' = mishaps + 1
    BY <1>7 DEF Remine
  <2> QED BY <1>7, <2>1, RemineStep DEF TypeOK, localVars
<1>8. ASSUME NEW e \in Environments, RefuseJournal(e), UNCHANGED <<localVars, resets>>
      PROVE  TypeOK' /\ IInv'
  <2>1. run[e].at = "open"
    BY <1>8 DEF RefuseJournal
  <2>2. Crash(e)
    BY <1>8, <2>1 DEF RefuseJournal, Crash
  <2> QED BY <1>3, <1>8, <2>2
<1> QED BY <1>1, <1>2, <1>3, <1>4, <1>5, <1>6, <1>7, <1>8 DEF Fault, SeedFault

LEMMA BootstrapKept ==
    ASSUME TypeOK, IInv, NEW e \in Environments, BootstrapStep(e)
    PROVE  TypeOK' /\ IInv'
<1>1. CASE MigrateFirst(e)
  <2>1. CASE marker[e] # Null
    <3>1. GiveUp(e)
      BY <1>1, <2>1 DEF MigrateFirst
    <3> QED BY <3>1, GiveUpTypes, GiveUpStep
  <2>2. CASE marker[e] = Null
    <3>1. /\ database' = [database EXCEPT ![e] = IF database[e] = Null THEN EmptyDatabase
                                                                        ELSE database[e]]
          /\ Proceed(e, "claim") /\ UNCHANGED <<binding, manifest, receipt, marker>>
      BY <1>1, <2>2 DEF MigrateFirst, TypeOK
    <3>2. EmptyDatabase \in Databases
      BY DEF EmptyDatabase, Databases
    <3>3. database' \in [Environments -> Databases \cup {Null}]
      BY <3>1, <3>2 DEF TypeOK
    <3> QED BY <1>1, <3>1, <3>3, ProceedTypes, MigrateFirstStep DEF TypeOK, Labels
  <2> QED BY <2>1, <2>2
<1>2. CASE ClaimManagedNode(e)
  <2>1. CASE GiveUp(e)
    BY <2>1, GiveUpTypes, GiveUpStep
  <2>2. CASE ~ GiveUp(e)
    <3>1. /\ binding' = [binding EXCEPT ![e] = run[e].node] /\ run[e].at = "claim"
          /\ \E label \in {"open", "verify"} : Proceed(e, label)
          /\ UNCHANGED <<manifest, database, receipt, marker>>
      BY <1>2, <2>2 DEF ClaimManagedNode
    <3>2. run[e].node \in Nodes
      BY <3>1 DEF IInv, Local, Control, Booting
    <3>3. binding' \in [Environments -> Nodes \cup {Null, Torn}]
      BY <3>1, <3>2 DEF TypeOK
    <3> QED BY <1>2, <3>1, <3>3, ProceedTypes, ClaimManagedNodeStep DEF TypeOK, Labels
  <2> QED BY <2>1, <2>2
<1>3. CASE VerifyDeployment(e)
  <2>1. GiveUp(e) \/ (Proceed(e, "register") /\ UNCHANGED localVars)
    BY <1>3 DEF VerifyDeployment
  <2> QED BY <1>3, <2>1, GiveUpTypes, ProceedTypes, VerifyDeploymentStep
      DEF TypeOK, localVars, Labels
<1>4. CASE PublishManifest(e)
  <2>1. \/ GiveUp(e)
        \/ Proceed(e, "register") /\ UNCHANGED <<binding, database, receipt, marker>>
    BY <1>4 DEF PublishManifest
  <2> QED BY <1>4, <2>1, GiveUpTypes, ProceedTypes, PublishManifestStep DEF TypeOK, Labels
<1>5. CASE RegisterDeployment(e)
  <2>1. \/ GiveUp(e)
        \/ Proceed(e, "catalog") /\ UNCHANGED <<binding, manifest, receipt, marker>>
    BY <1>5 DEF RegisterDeployment
  <2> QED BY <1>5, <2>1, GiveUpTypes, ProceedTypes, RegisterDeploymentStep DEF TypeOK, Labels
<1>6. CASE SeedCatalog(e)
  <2>1. UNCHANGED <<chain, mined, journal, issued, mishaps, resets,
                    binding, manifest, receipt, marker>>
    BY <1>6 DEF SeedCatalog
  <2> QED BY <1>6, <2>1, SeedCatalogStep DEF TypeOK
<1>7. CASE Ingest(e)
  <2>1. \/ GiveUp(e)
        \/ /\ \E label \in {"receipt", "ingest"} : Proceed(e, label)
           /\ UNCHANGED <<binding, manifest, receipt, marker>>
    BY <1>7 DEF Ingest, localVars
  <2> QED BY <1>7, <2>1, GiveUpTypes, ProceedTypes, IngestStep DEF TypeOK, Labels
<1>8. CASE PublishReceipt(e)
  <2>1. /\ UNCHANGED <<chain, mined, journal, issued, mishaps, resets,
                       binding, manifest, database, marker>>
        /\ End(e)
    BY <1>8 DEF PublishReceipt
  <2> QED BY <1>8, <2>1, EndEffect, PublishReceiptStep DEF TypeOK
<1> QED BY <1>1, <1>2, <1>3, <1>4, <1>5, <1>6, <1>7, <1>8, SeedKept DEF BootstrapStep

LEMMA StartResetEffect ==
    ASSUME NEW e \in Environments, StartReset(e)
    PROVE  /\ marker' = [marker EXCEPT ![e] = "PREPARED"] /\ resets' = resets + 1
           /\ UNCHANGED <<chain, mined, journal, issued, mishaps, binding, manifest, database, receipt>>
  BY DEF StartReset

LEMMA ResetKept ==
    ASSUME TypeOK, IInv, NEW e \in Environments,
           ResetStep(e) \/ StartReset(e) \/ RecoverReset(e)
    PROVE  TypeOK' /\ IInv'
<1>1. CASE ResetChain(e)
  <2>1. Goto(e, "mark") /\ UNCHANGED <<mined, journal, issued, mishaps, resets, localVars>>
    BY <1>1 DEF ResetChain
  <2> QED BY <1>1, <2>1, GotoEffect, ResetChainStep DEF TypeOK, localVars, Labels
<1>2. CASE MarkChainReset(e)
  <2>1. /\ marker' = [marker EXCEPT ![e] = "CHAIN_RESET"] /\ Proceed(e, "clear")
        /\ UNCHANGED <<binding, manifest, database, receipt>>
    BY <1>2 DEF MarkChainReset
  <2>2. marker' \in [Environments -> ResetPhases \cup {Null}]
    BY <2>1 DEF TypeOK, ResetPhases
  <2> QED BY <1>2, <2>1, <2>2, ProceedTypes, MarkChainResetStep DEF TypeOK, Labels
<1>3. CASE ClearNext(e)
  <2>1. UNCHANGED <<chain, mined, issued, run, mishaps, resets, binding, marker>>
    BY <1>3 DEF ClearNext
  <2>2. /\ journal' \in [Environments -> Journals \cup {Null}]
        /\ manifest' \in [Environments -> Manifests \cup {Null}]
        /\ database' \in [Environments -> Databases \cup {Null}]
        /\ receipt' \in [Environments -> ReceiptFiles \cup {Null}]
    BY <1>3 DEF ClearNext, TypeOK
  <2> QED BY <1>3, <2>1, <2>2, ClearNextStep DEF TypeOK
<1>4. CASE MarkCleared(e)
  <2>1. /\ marker' = [marker EXCEPT ![e] = "LOCAL_STATE_CLEARED"] /\ Proceed(e, "finish")
        /\ UNCHANGED <<binding, manifest, database, receipt>>
    BY <1>4 DEF MarkCleared
  <2>2. marker' \in [Environments -> ResetPhases \cup {Null}]
    BY <2>1 DEF TypeOK, ResetPhases
  <2> QED BY <1>4, <2>1, <2>2, ProceedTypes, MarkClearedStep DEF TypeOK, Labels
<1>5. CASE FinishReset(e)
  <2>1. /\ marker' = [marker EXCEPT ![e] = Null] /\ End(e)
        /\ UNCHANGED <<chain, mined, journal, issued, mishaps, resets,
                       binding, manifest, database, receipt>>
    BY <1>5 DEF FinishReset
  <2>2. marker' \in [Environments -> ResetPhases \cup {Null}]
    BY <2>1 DEF TypeOK
  <2> QED BY <1>5, <2>1, <2>2, EndEffect, FinishResetStep DEF TypeOK
<1>6. CASE StartReset(e)
  <2>1. /\ marker' = [marker EXCEPT ![e] = "PREPARED"] /\ resets' = resets + 1
        /\ UNCHANGED <<chain, mined, journal, issued, mishaps, binding, manifest, database, receipt>>
    BY <1>6, StartResetEffect
  <2>2. marker' \in [Environments -> ResetPhases \cup {Null}]
    BY <2>1 DEF TypeOK, ResetPhases
  <2> QED BY <1>6, <2>1, <2>2, StartResetStep DEF TypeOK
<1>7. CASE RecoverReset(e)
  <2>1. UNCHANGED <<chain, mined, journal, issued, mishaps, resets, localVars>>
    BY <1>7 DEF RecoverReset
  <2> QED BY <1>7, <2>1, RecoverResetStep DEF TypeOK, localVars
<1> QED BY <1>1, <1>2, <1>3, <1>4, <1>5, <1>6, <1>7 DEF ResetStep

\* A step that changes nothing.
LEMMA StutterKept ==
    ASSUME TypeOK, IInv, UNCHANGED vars
    PROVE  TypeOK' /\ IInv'
<1>1. TypeOK' /\ mined' \in Nat /\ mined' >= mined
  BY DEF TypeOK, vars, seedVars, localVars
<1>2. ASSUME NEW f \in Environments PROVE Local(f)'
  BY <1>1, Bystander DEF Untouched, vars, seedVars, localVars
<1>3. ASSUME NEW f \in Environments PROVE JournalSound(f)' /\ HashSound(f)'
  BY DEF IInv, JournalSound, HashSound, Succeeded, vars, seedVars
<1>4. ASSUME NEW n \in Nodes PROVE ChainSound(n)'
  BY DEF IInv, ChainSound, OnRecord, vars, seedVars, localVars
<1>5. Exclusive'
  BY DEF IInv, Exclusive, vars, seedVars, localVars
<1> QED BY <1>1, <1>2, <1>3, <1>4, <1>5 DEF IInv

-----------------------------------------------------------------------------
(* The theorems.                                                           *)

\* Before the first command there is no file and the nodes are empty.
LEMMA InitInv == Init => TypeOK /\ IInv
<1> SUFFICES ASSUME Init PROVE TypeOK /\ IInv
  OBVIOUS
<1>1. TypeOK
  <2>1. Idle \in Runs
    BY DEF Idle, Runs, Labels
  <2>2. <<>> \in Seq(Transactions)
    OBVIOUS
  <2> QED BY <2>1, <2>2 DEF Init, TypeOK
<1>2. Exclusive
  BY DEF Init, Exclusive
<1>3. ASSUME NEW e \in Environments PROVE JournalSound(e) /\ HashSound(e)
  BY DEF Init, JournalSound, HashSound
<1>4. ASSUME NEW e \in Environments PROVE Local(e)
  <2>1. /\ run[e].at = "idle" /\ journal[e] = Null /\ marker[e] = Null /\ manifest[e] = Null
        /\ database[e] = Null /\ receipt[e] = Null
    BY DEF Init, Idle
  <2>2. Control(e) /\ Progress(e)
    BY <2>1 DEF Control, Progress, Booting, Sending, Published, InStep
  <2>3. Emptied(e) /\ Contiguous(e) /\ ManifestSound(e) /\ SamePast(e)
    BY <2>1 DEF Emptied, Contiguous, ManifestSound, SamePast, ResetPhases
  <2>4. DatabaseSound(e) /\ ReceiptSound(e)
    BY <2>1 DEF DatabaseSound, ReceiptSound
  <2> QED BY <2>2, <2>3, <2>4 DEF Local
<1>5. ASSUME NEW n \in Nodes PROVE ChainSound(n)
  BY DEF Init, ChainSound
<1> QED BY <1>1, <1>2, <1>3, <1>4, <1>5 DEF IInv

LEMMA NextInv == TypeOK /\ IInv /\ [Next]_vars => TypeOK' /\ IInv'
<1> SUFFICES ASSUME TypeOK, IInv, [Next]_vars PROVE TypeOK' /\ IInv'
  OBVIOUS
<1>1. ASSUME NEW e \in Environments, NEW n \in Nodes, NEW b \in Builds, StartBootstrap(e, n, b)
      PROVE  TypeOK' /\ IInv'
  <2>1. UNCHANGED <<chain, mined, journal, issued, mishaps, localVars, resets>>
    BY <1>1 DEF StartBootstrap
  <2> QED BY <1>1, <2>1, StartBootstrapStep DEF TypeOK, localVars
<1>2. ASSUME NEW e \in Environments,
             StartReset(e) \/ RecoverReset(e) \/ BootstrapStep(e) \/ ResetStep(e)
      PROVE  TypeOK' /\ IInv'
  BY <1>2, BootstrapKept, ResetKept
<1>3. CASE Fault
  BY <1>3, FaultKept
<1>4. CASE UNCHANGED vars
  BY <1>4, StutterKept
<1> QED BY <1>1, <1>2, <1>3, <1>4 DEF Next

\* Every file, block and process keeps the shape the code gives it
\* (local-deployment/schemas.ts, chain-seed-journal.ts).
THEOREM TypeCorrect == Spec => []TypeOK
<1>1. TypeOK /\ IInv /\ [Next]_vars => (TypeOK /\ IInv)'
  BY NextInv
<1> QED BY <1>1, InitInv, PTL DEF Spec

\* The files of every environment, its run and its node fit together whatever
\* crashes, failed writes, node losses, resets and reruns happened.
THEOREM Inductive == Spec => []IInv
<1>1. TypeOK /\ IInv /\ [Next]_vars => (TypeOK /\ IInv)'
  BY NextInv
<1> QED BY <1>1, InitInv, PTL DEF Spec

\* bootstrap.ts:247-361, chain-seed-journal.ts:106-193: no step of a deployment
\* is on a node twice, however often the bootstrap is run again.
THEOREM OnlyOnce == Spec => []SentOnce
<1>1. ASSUME TypeOK, IInv PROVE SentOnce
  BY <1>1 DEF IInv, ChainSound, SentOnce
<1> QED BY <1>1, TypeCorrect, Inductive, PTL

\* chain-seed-journal.ts:117-122, managed-node.ts:105-128, reset.ts:59-69: what
\* stands on a node is in the journal of the one environment bound to it.
THEOREM OnRecordAlways == Spec => []TransactionsOnRecord
<1>1. ASSUME TypeOK, IInv PROVE TransactionsOnRecord
  BY <1>1 DEF IInv, ChainSound, OnRecord, TransactionsOnRecord
<1> QED BY <1>1, TypeCorrect, Inductive, PTL

\* Two transactions of one deployment on a node are of one journal.
LEMMA SameJournal ==
    ASSUME TypeOK, IInv, NEW n \in Nodes, NEW i \in DOMAIN chain[n], NEW j \in DOMAIN chain[n],
           chain[n][i].deployment = chain[n][j].deployment
    PROVE  \E e \in Environments :
              /\ journal[e] # Null
              /\ \A k \in {i, j} :
                    /\ journal[e].steps[chain[n][k].step] # Null
                    /\ journal[e].steps[chain[n][k].step].intent = chain[n][k].intent
<1>1. OnRecord(chain[n][i], n) /\ OnRecord(chain[n][j], n)
  BY DEF IInv, ChainSound
<1>2. PICK e \in Environments :
         /\ binding[e] = n /\ journal[e] # Null
         /\ journal[e].steps[chain[n][i].step] # Null
         /\ journal[e].steps[chain[n][i].step].intent = chain[n][i].intent
  BY <1>1 DEF OnRecord
<1>3. PICK f \in Environments :
         /\ binding[f] = n /\ journal[f] # Null
         /\ journal[f].steps[chain[n][j].step] # Null
         /\ journal[f].steps[chain[n][j].step].intent = chain[n][j].intent
  BY <1>1 DEF OnRecord
<1>4. e = f
  BY <1>2, <1>3 DEF IInv, Exclusive
<1> QED BY <1>2, <1>3, <1>4

\* chain-seed-journal.ts:113: the two contracts of a deployment are of the build
\* recorded first, although later runs may find another.
THEOREM BuildIsOne == Spec => []OneBuild
<1>1. ASSUME TypeOK, IInv PROVE OneBuild
  <2>1. ASSUME NEW n \in Nodes, NEW i \in DOMAIN chain[n], NEW j \in DOMAIN chain[n],
               chain[n][i].deployment = chain[n][j].deployment,
               {chain[n][i].step, chain[n][j].step} = CodeSteps
        PROVE  chain[n][i].intent = chain[n][j].intent
    <3>1. PICK e \in Environments :
             /\ journal[e] # Null
             /\ \A k \in {i, j} :
                   /\ journal[e].steps[chain[n][k].step] # Null
                   /\ journal[e].steps[chain[n][k].step].intent = chain[n][k].intent
      BY <1>1, <2>1, SameJournal
    <3>2. \/ chain[n][i].step = 1 /\ chain[n][j].step = 2
          \/ chain[n][i].step = 2 /\ chain[n][j].step = 1
      BY <2>1 DEF CodeSteps
    <3>3. JournalSound(e)
      BY <1>1 DEF IInv
    <3>4. journal[e].steps[2] # Null => journal[e].steps[1].intent = journal[e].steps[2].intent
      BY <3>1, <3>3 DEF JournalSound
    <3> QED BY <3>1, <3>2, <3>4
  <2> QED BY <2>1 DEF OneBuild
<1> QED BY <1>1, TypeCorrect, Inductive, PTL

\* bootstrap.ts:96-181, immutable-sidecar.ts:73-114, reset.ts:15-37: unless a reset
\* is unfinished, the files of an environment speak of one deployment and each is
\* there only after the one before it was complete.
THEOREM OneDeployment == Spec => []LocalStateIsOneDeployment
<1>1. ASSUME TypeOK, IInv PROVE LocalStateIsOneDeployment
  <2>1. ASSUME NEW e \in Environments, marker[e] = Null
        PROVE  /\ manifest[e] # Null =>
                     /\ journal[e] # Null
                     /\ manifest[e].deployment = journal[e].deployment
                     /\ \A k \in Steps : Succeeded(journal[e].steps[k])
               /\ database[e] # Null /\ database[e].manifest # Null =>
                     database[e].manifest = manifest[e]
               /\ receipt[e] # Null =>
                     /\ database[e] # Null /\ database[e].catalog
                     /\ database[e].manifest # Null
                     /\ receipt[e].deployment = database[e].manifest.deployment
                     /\ database[e].blocks[receipt[e].target.number].block
                           = receipt[e].target.block
                     /\ \A k \in Steps : \E i \in DOMAIN database[e].blocks :
                           database[e].blocks[i].hash = journal[e].steps[k].hash
    <3>1. ManifestSound(e) /\ DatabaseSound(e) /\ ReceiptSound(e)
      BY <1>1 DEF IInv, Local
    <3>2. manifest[e] # Null =>
             /\ journal[e] # Null /\ manifest[e].deployment = journal[e].deployment
             /\ \A k \in Steps : Succeeded(journal[e].steps[k])
      BY <2>1, <3>1 DEF ManifestSound, ManifestOf
    <3>3. database[e] # Null /\ database[e].manifest # Null => database[e].manifest = manifest[e]
      BY <2>1, <3>1 DEF DatabaseSound
    <3> QED BY <2>1, <3>1, <3>2, <3>3 DEF ReceiptSound, HasAllSteps
  <2> QED BY <2>1 DEF LocalStateIsOneDeployment
<1> QED BY <1>1, TypeCorrect, Inductive, PTL

\* cli/reset.ts:43-54, managed-node.ts:130-143: the only step other than a fault
\* that empties a node is the reset of the environment all of whose transactions
\* stand there.
LEMMA ResetSpares ==
    ASSUME TypeOK, IInv, [Next]_vars, NEW n \in Nodes,
           chain[n] # <<>>, chain'[n] = <<>>, mishaps' = mishaps
    PROVE  \E e \in Environments :
              /\ run[e].at = "reset" /\ run[e].node = n
              /\ journal[e] # Null
              /\ \A i \in DOMAIN chain[n] : chain[n][i].deployment = journal[e].deployment
<1>1. PICK e \in Environments : ResetChain(e)
  <2>1. mishaps \in Nat /\ chain[n] \in Seq(Transactions)
    BY DEF TypeOK
  <2>2. chain' # chain
    OBVIOUS
  <2>3. ~ Fault
    <3>1. ASSUME Fault PROVE mishaps' = mishaps + 1
      BY <3>1 DEF Fault, SeedFault, SubmitFails, SaveHashLate, RefuseJournal, Crash, TearBinding,
                  ResetFails, RestartNode, Remine
    <3> QED BY <2>1, <3>1
  <2>4. ASSUME NEW e \in Environments, SeedStep(e) PROVE FALSE
    <3>1. Submit(e)
      <4>1. VerifyReceipt(e) => UNCHANGED chain
        BY DEF VerifyReceipt
      <4>2. OpenJournal(e) => UNCHANGED chain
        BY DEF OpenJournal
      <4>3. PrepareStep(e) \/ SaveHash(e) => UNCHANGED chain
        BY DEF PrepareStep, SaveHash
      <4>4. AbandonStep(e) \/ ResumeStep(e) \/ RefuseStep(e) => UNCHANGED chain
        BY DEF AbandonStep, ResumeStep, RefuseStep
      <4> QED BY <2>2, <2>4, <4>1, <4>2, <4>3, <4>4 DEF SeedStep
    <3>2. PICK outcome \in Outcomes : Mine(e, outcome)
      BY <3>1 DEF Submit, Outcomes
    <3>3. journal[e] # Null /\ run[e].step \in Steps /\ run[e].node \in Nodes
      BY <3>1, SeedingFacts DEF Submit, InStep
    <3>4. /\ \A m \in Nodes : m # run[e].node => chain'[m] = chain[m]
          /\ chain'[run[e].node] = Append(chain[run[e].node], SentBy(e, outcome))
          /\ SentBy(e, outcome) \in Transactions
      BY <3>2, <3>3, MineEffect
    <3>5. chain'[n] = chain[n] \/ chain'[n] = Append(chain[n], SentBy(e, outcome))
      BY <3>4
    <3> QED BY <2>1, <3>4, <3>5
  <2>5. ASSUME NEW e \in Environments, BootstrapStep(e) PROVE FALSE
    BY <2>2, <2>4, <2>5
    DEF BootstrapStep, MigrateFirst, ClaimManagedNode, VerifyDeployment, PublishManifest,
        RegisterDeployment, SeedCatalog, Ingest, PublishReceipt, GiveUp, Proceed
  <2>6. ASSUME NEW e \in Environments, StartReset(e) \/ RecoverReset(e) PROVE FALSE
    BY <2>2, <2>6, StartResetEffect DEF RecoverReset
  <2>7. ASSUME NEW e \in Environments, NEW m \in Nodes, NEW b \in Builds, StartBootstrap(e, m, b)
        PROVE  FALSE
    BY <2>2, <2>7 DEF StartBootstrap
  <2>8. PICK e \in Environments : ResetStep(e)
    BY <2>2, <2>3, <2>5, <2>6, <2>7 DEF Next, vars, seedVars
  <2> QED BY <2>2, <2>8
      DEF ResetStep, MarkChainReset, ClearNext, MarkCleared, FinishReset, Proceed
<1>2. /\ run[e].at = "reset" /\ run[e].node \in Nodes /\ binding[e] = run[e].node
      /\ n = run[e].node
  <2>1. run[e].at = "reset" /\ chain' = [chain EXCEPT ![run[e].node] = <<>>]
    BY <1>1 DEF ResetChain
  <2>2. run[e].node \in Nodes /\ binding[e] = run[e].node
    BY <2>1 DEF IInv, Local, Control
  <2> QED BY <2>1, <2>2 DEF TypeOK
<1>3. ASSUME NEW i \in DOMAIN chain[n]
      PROVE  journal[e] # Null /\ chain[n][i].deployment = journal[e].deployment
  <2>1. PICK f \in Environments :
           binding[f] = n /\ journal[f] # Null /\ journal[f].deployment = chain[n][i].deployment
    BY DEF IInv, ChainSound, OnRecord
  <2>2. f = e
    BY <1>2, <2>1 DEF IInv, Exclusive
  <2> QED BY <2>1, <2>2
<1>4. 1 \in DOMAIN chain[n]
  BY DEF TypeOK
<1> QED BY <1>2, <1>3, <1>4

\* cli/reset.ts:43-54, managed-node.ts:130-143: a reset empties a node only of the
\* transactions of the environment that asked for it.
THEOREM OthersSpared == Spec => ResetSparesOthers
<1>1. TypeOK /\ IInv /\ [Next]_vars =>
        [\A n \in Nodes :
            chain[n] # <<>> /\ chain'[n] = <<>> /\ mishaps' = mishaps =>
            \E e \in Environments :
                /\ run[e].at = "reset" /\ run[e].node = n
                /\ journal[e] # Null
                /\ \A i \in DOMAIN chain[n] : chain[n][i].deployment = journal[e].deployment]_vars
  BY ResetSpares
<1> QED BY <1>1, TypeCorrect, Inductive, PTL DEF Spec, ResetSparesOthers
=============================================================================
